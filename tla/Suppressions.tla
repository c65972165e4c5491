----------------------------- MODULE Suppressions ----------------------------
(***************************************************************************)
(* The yayamlls-disable directives of a YAML text                          *)
(* (internal/diagnostics/suppress.go).  A line is what the scan tells      *)
(* apart: blank or not, its indent and the width of the dashes after it,   *)
(* whether it has content before its comment, whether that content ends    *)
(* with the header of a block scalar, and the directive its comment starts *)
(* with.  `parent` is not in the line: it is the column YAML says the      *)
(* content of such a scalar has to exceed, -1 at the top of a document.    *)
(***************************************************************************)
EXTENDS Naturals, Integers, SequencesExt, Absent

Directive == {"disable-file", "disable", "enable", "disable-line"}

ASSUME DirectiveAssumption == None \notin Directive

Line == [blank : BOOLEAN, indent : Nat, dashes : Nat, code : BOOLEAN, opens : BOOLEAN,
         parent : Int, directive : Directive \cup {None}]

-----------------------------------------------------------------------------
(* The scan: blocked since a disable, what a line's indent has to exceed to *)
(* be in the open block scalar or -1, and the Suppressor built so far.      *)

NewSuppressor == [blocked |-> FALSE, scalar |-> -1, fileWide |-> FALSE, lines |-> {}]

\* The line is content of the open block scalar.
InScalar(s, line) == s.scalar >= 0 /\ (line.blank \/ line.indent > s.scalar)

\* Mutant of blockScalarParentIndent: the keys of `- key: |` sit where its dash is.
ParentAtDash(line) == IF line.opens THEN line.indent ELSE -1

\* The entries of `- key: |` sit after the dashes.
blockScalarParentIndent(line) == IF line.opens THEN line.indent + line.dashes ELSE -1

\* A line is in the bracket by the directives above it.
Bracketed(s, line, i) == IF s.blocked THEN s.lines \cup {i} ELSE s.lines

\* What the directive of line i, of n, adds to the suppressed lines.
Directed(line, i, n) ==
    CASE line.directive = "disable-line" /\ line.code -> {i}
      [] line.directive = "disable-line" /\ ~line.code /\ i < n -> {i + 1}
      [] OTHER -> {}

Scan(s, line, i, n) ==
    IF InScalar(s, line)
    THEN [s EXCEPT !.lines = Bracketed(s, line, i)]
    ELSE [blocked  |-> line.directive = "disable" \/ (s.blocked /\ line.directive # "enable"),
          scalar   |-> blockScalarParentIndent(line),
          fileWide |-> s.fileWide \/ line.directive = "disable-file",
          lines    |-> Bracketed(s, line, i) \cup Directed(line, i, n)]

ParseSuppressions(lines) ==
    FoldLeft(LAMBDA s, i : Scan(s, lines[i], i, Len(lines)), NewSuppressor,
             [i \in 1..Len(lines) |-> i])

\* A sequence without what is at some of its places.
Omit(seq, places) ==
    FoldLeft(LAMBDA out, k : IF k \in places THEN out ELSE Append(out, seq[k]), <<>>,
             [k \in 1..Len(seq) |-> k])

Without(lines, diags) == Omit(diags, {k \in 1..Len(diags) : diags[k].line \in lines})

\* Suppressor.Filter
Filter(s, diags) == IF s.fileWide THEN <<>> ELSE Without(s.lines, diags)

-----------------------------------------------------------------------------
(* What the comments of suppress.go promise, line by line                   *)

\* The block scalars are values of keys, which stand on the line of the header.
HeadersFollowKeys(lines) ==
    \A i \in 1..Len(lines) : lines[i].opens => lines[i].parent = lines[i].indent + lines[i].dashes

\* Live(lines)[i]: line i is YAML of its own and not content of a block scalar.
Live(lines) ==
    LET live[i \in 1..Len(lines)] ==
            ~ \E h \in 1..(i - 1) :
                /\ live[h] /\ lines[h].opens
                /\ \A k \in (h + 1)..i : lines[k].blank \/ lines[k].indent > lines[h].parent
    IN  live

\* Line i holds directive d in a comment of its own.
Says(lines, i, d) == lines[i].directive = d /\ Live(lines)[i]

\* The diagnostics on line i are to be left out.
Suppressed(lines, i) ==
    LET above == 1..(i - 1)
    IN  \/ \E j \in 1..Len(lines) : Says(lines, j, "disable-file")
        \/ \E j \in above :
              /\ Says(lines, j, "disable")
              /\ \A k \in above : k > j => ~Says(lines, k, "enable")
        \/ Says(lines, i, "disable-line") /\ lines[i].code
        \/ i > 1 /\ Says(lines, i - 1, "disable-line") /\ ~lines[i - 1].code
=============================================================================
