-------------------------- MODULE MCRenderPipeline --------------------------
(* RenderPipeline on small sets; slots and texts are interchangeable.      *)
EXTENDS RenderPipeline, TLC

Symmetry ==
    Permutations(Job) \cup Permutations(Uri) \cup Permutations(Text)
        \cup Permutations(Renderer)
=============================================================================
