------------------------------- MODULE Absent --------------------------------
(* What stands for nothing: a nil pointer, an entry that is not there.      *)
CONSTANT None
=============================================================================
