-------------------------- MODULE MCWorkspaceConfig --------------------------
(* A config file may declare a command or place flate elsewhere; a client   *)
(* may do the same, switch flate or Kubernetes off, or say nothing.         *)
EXTENDS WorkspaceConfig, TLC

CONSTANTS p, c1, c2, c3

\* c1 and c3 are for the documents flate is for, c2 for all.
MatchesOf == (c1 :> {"HelmRelease"}) @@ (c2 :> {"HelmRelease", "Other"}) @@ (c3 :> {"HelmRelease"})

On(k, f, c, t) == [kubernetes |-> k, flate |-> f, command |-> c, trusted |-> t]
Flate(e, q) == [enabled |-> e, path |-> q]

InFiles == {On(None, None, c1, p), On("off", Flate("off", p), None, None)}
FromClient == {On(None, None, None, None), On("on", Flate(None, p), c2, p),
               On(None, Flate("on", None), c3, None)}
Symmetry == Permutations(Folder)
=============================================================================
