------------------------------- MODULE MCLint --------------------------------
(* Two kinds of input: files whose documents share schemas, and one file    *)
(* with a diagnostic on every line and any lines.                           *)
EXTENDS Lint

CONSTANTS RefA, RefB

Doc(modeline, kind, leaves) ==
    [empty |-> FALSE, modeline |-> modeline, kind |-> kind, undecodable |-> None,
     leaves |-> leaves]

Empty(modeline) == [Doc(modeline, None, <<>>) EXCEPT !.empty = TRUE]

Undecodable(modeline) == [Doc(modeline, RefB, <<>>) EXCEPT !.undecodable = 2]

\* One leaf on each of the given lines.
Errors(lines) == [k \in 1..Len(lines) |-> [line |-> lines[k], is |-> "error"]]

\* A leaf of each kind.
AllLeaves ==
    LET kinds == <<"noise", "tagged", "substituted", "error">>
    IN  [k \in 1..4 |-> [line |-> IF k = 1 THEN 1 ELSE k - 1, is |-> kinds[k]]]

Blank == [blank |-> TRUE, indent |-> 0, dashes |-> 0, code |-> FALSE, opens |-> FALSE,
          parent |-> 0, directive |-> None]

\* A key of a mapping; the first one of an item, after its dash; an item with no key.
Text(indent, opens, directive) ==
    [blank |-> FALSE, indent |-> indent, dashes |-> 0, code |-> TRUE, opens |-> opens,
     parent |-> indent, directive |-> directive]

Entry(opens) == [Text(0, opens, None) EXCEPT !.dashes = 1, !.parent = 1]

Item(opens) == [Text(0, opens, None) EXCEPT !.dashes = 1]

Comment(indent, directive) ==
    [Text(indent, FALSE, directive) EXCEPT !.code = FALSE]

File(docs, malformed, render, lines) ==
    [readable |-> TRUE, globs |-> <<>>, fallback |-> None,
     docs |-> docs, malformed |-> malformed, render |-> render, lines |-> lines]

Unreadable == [File(<<>>, None, None, <<>>) EXCEPT !.readable = FALSE]

Glob(ref, literals) == [ref |-> ref, literals |-> literals]

\* The ways a file comes by a schema.
Asks(file) ==
    {file,
     [file EXCEPT !.fallback = RefB],
     [file EXCEPT !.globs = <<Glob(RefA, 0), Glob(RefA, 1), Glob(RefB, 1)>>, !.fallback = RefB],
     [file EXCEPT !.globs = <<Glob(RefA, 0), Glob(RefB, 1)>>]}

\* Documents that ask for RefA, that are of the kind of RefA or of RefB, one that
\* does not decode, and comments.
SomeDocs ==
    {Doc(RefA, None, Errors(<<2>>)), Doc(None, RefA, AllLeaves), Doc(None, RefB, Errors(<<3>>)),
     Undecodable(None), Empty(None), Empty(RefB)}

Renders ==
    LET Rendered(kind, undecodable, leaves) ==
            [kind |-> kind, undecodable |-> undecodable, leaves |-> leaves]
    IN  [err : {"failed", "unavailable"}, line : {1}, rest : {FALSE}, manifests : {<<>>}]
        \cup [err : {"values"}, line : {2}, rest : BOOLEAN, manifests : {<<>>}]
        \cup [err : {None}, line : {1}, rest : {FALSE},
              manifests : {<<Rendered(RefA, undecodable, AllLeaves), Rendered(RefB, FALSE, leaves)>> :
                              undecodable \in BOOLEAN, leaves \in {<<>>, Errors(<<1, 1>>)}}]

ThreeLines == <<Text(0, FALSE, None), Text(0, FALSE, None), Text(0, FALSE, None)>>

\* One file of three documents; a short file before and an unreadable one after.
SomeFiles ==
    UNION {{<<file>> : file \in Asks(File(docs, None, None, ThreeLines))} : docs \in [1..3 -> SomeDocs]}
    \cup {<<File(<<d>>, None, r, ThreeLines), File(<<e, d>>, 1, None, ThreeLines), Unreadable>> :
        d \in {doc \in SomeDocs : doc.kind # None}, e \in SomeDocs, r \in Renders}

\* Lines with and without directives, in and out of block scalars.
SomeLines ==
    {Blank, Text(0, FALSE, None), Text(0, TRUE, None), Entry(TRUE), Text(1, TRUE, None),
     Text(1, FALSE, None), Text(0, FALSE, "disable-line"), Text(0, TRUE, "disable"),
     Text(1, FALSE, "enable"), Comment(1, "disable-file"), Comment(2, "disable")}
    \cup {Comment(i, d) : i \in 0..1, d \in {"disable", "enable", "disable-line"}}

\* A text with a diagnostic on each of its lines.
OnEveryLine == <<Doc(RefB, None, Errors(<<1, 2, 3, 4>>))>>

SomeTexts == {<<File(OnEveryLine, None, None, lines)>> : lines \in [1..4 -> SomeLines]}

Inputs ==
    [files : SomeFiles, broken : SUBSET Ref, kubernetes : BOOLEAN]
    \cup [files : SomeTexts, broken : {{}}, kubernetes : {TRUE}]

\* An item `- |` whose text looks like a directive, and an item with an error.
ItemInputs ==
    [files : {<<File(<<Doc(RefB, None, Errors(<<3>>))>>, None, None,
                     <<Item(TRUE), Comment(1, "disable-file"), Item(FALSE)>>)>>},
     broken : {{}}, kubernetes : {TRUE}]
=============================================================================
