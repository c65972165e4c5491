--------------------------- MODULE MCSchemaCatalog ---------------------------
(* The default catalog and a custom one, so that settings can replace one   *)
(* by the other, switch the catalog off and on again.                       *)
EXTENDS SchemaCatalog, TLC

Symmetry == Permutations(Doc) \cup Permutations(Fetcher) \cup Permutations(Catalog)
=============================================================================
