------------------------------ MODULE Questions ------------------------------
(***************************************************************************)
(* Globs and pointers as questions: the state is the arguments of one of   *)
(* their functions, and nothing happens to it.                             *)
(***************************************************************************)
EXTENDS Globs, Pointers

CONSTANT PathChar \* the characters of globs, paths and pointers

ASSUME PathCharAssumption == {"/", "*", "."} \subseteq PathChar

VARIABLE question

GlobQuestion == [about : {"glob"}, pattern : Seq(PathChar), path : Seq(PathChar)]

PointerQuestion == [about : {"pointer"}, segs : Seq([text : Seq(PathChar), index : BOOLEAN])]

Questioning ==
    question \in GlobQuestion \cup PointerQuestion /\ [][UNCHANGED question]_question

About(what) == question.about = what

-----------------------------------------------------------------------------
\* glob.go:8, catalog.go:132, resolver.go:150: a glob matches the paths its segments
\* match, and at any depth where it names no directory to start from.
GlobsMatchSegments ==
    About("glob") => /\ MatchesBySegments(question.pattern, question.path)
                     /\ MatchesAtAnyDepth(question.pattern, question.path)

\* locate.go:14-27, cursor.go:174-178: a pointer leads to where it was made for.
PointersRoundTrip == About("pointer") => RoundTrips(question.segs)
=============================================================================
