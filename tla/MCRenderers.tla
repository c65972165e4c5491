----------------------------- MODULE MCRenderers -----------------------------
(* The two ways of rendering.  An initial state is the tree of the built-in *)
(* Flux renderer, which two callers share, so that one builds while another *)
(* waits for it, or one run of a tool.                                      *)
EXTENDS FlateTree, Subprocess

VARIABLE subject  \* the renderer at work; the other's state stays as it is

MCInit == TreeInit /\ Init /\ subject \in {"tree", "tool"}

TreeStep == subject = "tree" /\ TreeNext /\ UNCHANGED <<vars, subject>>
ToolStep == subject = "tool" /\ Next /\ UNCHANGED <<treeVars, subject>>

\* The fairness of Subprocess, once the tool is the subject.
MCFairness ==
    /\ WF_vars(ToolStep /\ Main)
    /\ WF_vars(ToolStep /\ Cancel)
    /\ \A s \in Stream : WF_vars(ToolStep /\ (Copy(s) \/ EndOfFile(s)))

MCSpec == MCInit /\ [][TreeStep \/ ToolStep]_<<treeVars, vars, subject>> /\ MCFairness
=============================================================================
