------------------------------- MODULE Pointers ------------------------------
(***************************************************************************)
(* JSON pointers: how they are written and read                            *)
(* (internal/yamlast/locate.go, internal/diagnostics/validate.go) and made *)
(* of the paths of the parser (cursor.go).  A pointer, a path and a key    *)
(* are sequences of characters.                                            *)
(***************************************************************************)
EXTENDS Naturals, SequencesExt

\* strings.ReplaceAll, of something as long as `old` at each place from the left.
ReplacedAt(s, old, new, t, i) ==
    IF i < t.next THEN t
    ELSE IF i + Len(old) - 1 <= Len(s) /\ SubSeq(s, i, i + Len(old) - 1) = old
         THEN [next |-> i + Len(old), out |-> t.out \o new]
         ELSE [next |-> i + 1, out |-> Append(t.out, s[i])]

ReplaceEach(s, old, new) ==
    FoldLeft(LAMBDA t, i : ReplacedAt(s, old, new, t, i), [next |-> 1, out |-> <<>>],
             [i \in 1..Len(s) |-> i]).out

EscapePointerSegment(s) == ReplaceEach(ReplaceEach(s, <<"~">>, <<"~", "0">>), <<"/">>, <<"~", "1">>)

\* Mutant of UnescapePointerSegment: the other way round.
UnescapeTildeFirst(s) == ReplaceEach(ReplaceEach(s, <<"~", "0">>, <<"~">>), <<"~", "1">>, <<"/">>)

UnescapePointerSegment(s) ==
    ReplaceEach(ReplaceEach(s, <<"~", "1">>, <<"/">>), <<"~", "0">>, <<"~">>)

\* Pointer
Pointer(segs) == FlattenSeq([i \in 1..Len(segs) |-> <<"/">> \o EscapePointerSegment(segs[i])])

\* The pieces between the slashes, after the first.
Split(ptr) ==
    FoldLeft(LAMBDA segs, c : IF c = "/" THEN Append(segs, <<>>)
                              ELSE Append(Front(segs), Append(Last(segs), c)),
             <<<<>>>>, IF ptr # <<>> /\ Head(ptr) = "/" THEN Tail(ptr) ELSE ptr)

\* The segments lookup and Resolve go along: none for the whole document, which "/"
\* stands for too.
SegmentsOf(ptr) ==
    IF ptr \in {<<>>, <<"/">>} THEN <<>>
    ELSE [i \in 1..Len(Split(ptr)) |-> UnescapePointerSegment(Split(ptr)[i])]

\* splitPointer: all but the last segment, and the last.
SplitPointer(ptr) ==
    LET slashes == {i \in 1..Len(ptr) : ptr[i] = "/"}
    IN  IF slashes = {} THEN [parent |-> <<>>, key |-> ptr]
        ELSE [parent |-> SubSeq(ptr, 1, Max(slashes) - 1),
              key |-> SubSeq(ptr, Max(slashes) + 1, Len(ptr))]

\* pathToPointer, by the state of its scan of a path: between segments, in a key, in a
\* key in quotes, in an index.
PathScanned(s, c) ==
    IF (s.in = "quotes" /\ c = "'") \/ (s.in = "index" /\ c = "]")
    THEN [segs |-> s.segs, in |-> "none"]
    ELSE IF s.in = "dot" /\ c = "'" THEN [segs |-> s.segs, in |-> "quotes"]
    ELSE IF s.in \in {"none", "key", "dot"} /\ c \in {".", "["}
         THEN [segs |-> Append(s.segs, <<>>), in |-> IF c = "." THEN "dot" ELSE "index"]
    ELSE IF s.in = "none" THEN s
    ELSE [segs |-> Append(Front(s.segs), Append(Last(s.segs), c)),
          in |-> IF s.in = "dot" THEN "key" ELSE s.in]

PathToPointer(path) ==
    LET rest == IF path # <<>> /\ Head(path) = "$" THEN Tail(path) ELSE path
    IN  Pointer(FoldLeft(PathScanned, [segs |-> <<>>, in |-> "none"], rest).segs)

\* The path the parser gives a node: it puts a key in quotes that has characters that
\* mean something in a path.
PathPart(seg) ==
    IF seg.index THEN <<"[">> \o seg.text \o <<"]">>
    ELSE IF ToSet(seg.text) \cap {".", "[", "]", "$"} # {} THEN <<".", "'">> \o seg.text \o <<"'">>
    ELSE <<".">> \o seg.text

ParserPath(segs) == <<"$">> \o FlattenSeq([i \in 1..Len(segs) |-> PathPart(segs[i])])

Digits == {"0", "1", "2", "3", "4", "5", "6", "7", "8", "9"}

\* An index is a number, and a key has no quote: a quote is what ends a key in quotes.
PathSegments(segs) ==
    \A i \in 1..Len(segs) :
        IF segs[i].index THEN ToSet(segs[i].text) \subseteq Digits ELSE "'" \notin ToSet(segs[i].text)

\* locate.go:14-27, cursor.go:174-178: a pointer made of the path of a node, or of the
\* location of an error, leads to where it was made for, whatever characters its keys
\* have, but for quotes, and for a path that is nothing but an empty key.
RoundTrips(segs) ==
    LET texts == [i \in 1..Len(segs) |-> segs[i].text]
        ptr == Pointer(texts)
    IN  texts # <<<<>>>> =>
            /\ PathSegments(segs) => PathToPointer(ParserPath(segs)) = ptr
            /\ SegmentsOf(ptr) = texts
            /\ segs # <<>> =>
                  /\ SplitPointer(ptr).parent = Pointer(Front(texts))
                  /\ UnescapePointerSegment(SplitPointer(ptr).key) = Last(texts)
=============================================================================
