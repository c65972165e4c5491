-------------------------- MODULE MCLanguageServer --------------------------
(* LanguageServer on small sets.                                           *)
EXTENDS LanguageServer, TLC

\* One text to render and one without a Flux resource in it.
OneOfTwo == {"ks"}
TwoTexts == {"ks", "plain"}

Symmetry == Permutations(Job) \cup Permutations(Worker)
=============================================================================
