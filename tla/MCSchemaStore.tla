---------------------------- MODULE MCSchemaStore ----------------------------
(* Two keys, one of which refers to a third document; the trust sets permit *)
(* everything, everything but that document, or one key only.               *)
EXTENDS SchemaStore, TLC

CONSTANTS a, b, x

TwoRefs == (a :> {a, x}) @@ (b :> {b})
Trusts == {{a, b, x}, {a, b}, {b}}
Symmetry == Permutations(Caller)
=============================================================================
