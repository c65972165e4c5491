----------------------------- MODULE Indentation -----------------------------
(***************************************************************************)
(* Where the cursor is, told from the indentation of the lines above it    *)
(* where the text does not parse and there is no tree                      *)
(* (internal/yamlast/fallback.go).                                         *)
(***************************************************************************)
EXTENDS Naturals, SequencesExt

\* A line has an indent, a dash or not, and a key or, after a dash, none; any other
\* line says nothing.
Line(indent, dash, key) == [indent |-> indent, dash |-> dash, key |-> key]

NoKey == "no key"

KeyFrame(indent, key) == [indent |-> indent, isSeq |-> FALSE, key |-> key, seqIdx |-> 0]
SeqFrame(indent) == [indent |-> indent, isSeq |-> TRUE, key |-> NoKey, seqIdx |-> 0]

\* Frames are closed by what is not deeper than they are.
Closed(stack, indent) == SelectSeq(stack, LAMBDA frame : frame.indent < indent)

PushKey(stack, indent, key) == Append(Closed(stack, indent), KeyFrame(indent, key))

\* Mutant of PushSeqItem: every dash starts a sequence.
PushSeqStart(stack, indent) == Append(Closed(stack, indent + 1), SeqFrame(indent))

\* A sequence may be no deeper than its key.
PushSeqItem(stack, indent) ==
    LET open == Closed(stack, indent + 1)
    IN  IF open # <<>> /\ Last(open).indent = indent /\ Last(open).isSeq
        THEN [open EXCEPT ![Len(open)].seqIdx = @ + 1]
        ELSE Append(open, SeqFrame(indent))

\* inferPathByIndent: the segments for a cursor line with an indent, below some lines.
InferPath(lines, indent) ==
    LET Read(stack, line) ==
            LET items == IF line.dash THEN PushSeqItem(stack, line.indent) ELSE stack
                column == IF line.dash THEN line.indent + 2 ELSE line.indent
            IN  IF line.key = NoKey THEN items ELSE PushKey(items, column, line.key)
        stack == Closed(FoldLeft(Read, <<>>, lines), indent)
    IN  [i \in 1..Len(stack) |-> [isSeq |-> stack[i].isSeq, key |-> stack[i].key,
                                  seqIdx |-> stack[i].seqIdx]]

-----------------------------------------------------------------------------
(* Texts written from a value                                               *)

\* A value is a scalar, a mapping of the keys a and b, or a sequence.
Leaf == [is |-> "leaf", kids |-> <<>>, flush |-> FALSE]
Map(kids) == [is |-> "map", kids |-> kids, flush |-> FALSE]
\* A flush sequence is no deeper than the key it is the value of.
Seqnc(kids, flush) == [is |-> "seq", kids |-> kids, flush |-> flush]

Keys == <<"a", "b">>

KeySeg(i) == [isSeq |-> FALSE, key |-> Keys[i], seqIdx |-> 0]
IndexSeg(i) == [isSeq |-> TRUE, key |-> NoKey, seqIdx |-> i - 1]

\* Each line of a value at an indent, with the mappings that it continues: the indent
\* of their keys and where they are.
RECURSIVE Written(_, _, _, _)
Written(value, indent, path, open) ==
    LET mine == open \cup {[indent |-> indent, path |-> path]}
        Entry(i) ==
            LET kid == value.kids[i]
                deeper == IF kid.flush THEN indent ELSE indent + 2
            IN  <<[line |-> Line(indent, FALSE, Keys[i]), open |-> mine]>>
                    \o Written(kid, deeper, Append(path, KeySeg(i)), mine)
        Item(i) ==
            LET kid == value.kids[i]
                below == Written(kid, indent + 2, Append(path, IndexSeg(i)), open)
            IN  IF kid.is = "map" \* which starts on the line of the dash
                THEN <<[below[1] EXCEPT !.line = Line(indent, TRUE, @.key)]>> \o Tail(below)
                ELSE <<[line |-> Line(indent, TRUE, NoKey), open |-> open]>> \o below
    IN  CASE value.is = "leaf" -> <<>>
          [] value.is = "map" -> FlattenSeq([i \in 1..Len(value.kids) |-> Entry(i)])
          [] value.is = "seq" -> FlattenSeq([i \in 1..Len(value.kids) |-> Item(i)])

\* fallback.go:8-11, in a text of block mappings and sequences, a new key is completed
\* for the mapping its indent puts it in, wherever the text ends.
InfersOpenMapping(value) ==
    LET text == Written(value, 0, <<>>, {})
    IN  \A k \in 1..Len(text) : \A mapping \in text[k].open :
            InferPath([i \in 1..k |-> text[i].line], mapping.indent) = mapping.path
=============================================================================
