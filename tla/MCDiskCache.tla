----------------------------- MODULE MCDiskCache -----------------------------
(* Two loaders that share the cache directory.                              *)
EXTENDS DiskCache, TLC

Symmetry == Permutations(Loader)
=============================================================================
