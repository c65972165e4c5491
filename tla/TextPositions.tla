---------------------------- MODULE TextPositions ----------------------------
(***************************************************************************)
(* Positions in the text of a document (internal/yamlast/cursor.go,        *)
(* locate.go) and the edits the client sends by them                       *)
(* (internal/document/store.go).  A text is a sequence of characters; the  *)
(* client counts lines from 0 and, within a line, UTF-16 units, the parser *)
(* lines and characters from 1, and the code offsets into the text.  Lines *)
(* end with LF or CRLF for all three: a CR by itself is a character like   *)
(* any other, as it is in the code, though LSP and YAML end a line there.  *)
(***************************************************************************)
EXTENDS Naturals, FiniteSets, SequencesExt

LF == "LF"
CR == "CR"

\* utf16RuneLen: a character outside of the basic plane takes two units.
Units(c) == IF c = "wide" THEN 2 ELSE 1

UTF16Len(text) == FoldLeft(LAMBDA n, c : n + Units(c), 0, text)

Position(line, character) == [line |-> line, character |-> character]

\* How many lines end before offset i, and what is before it on its own.
LineOf(text, i) == Cardinality({k \in 1..i : text[k] = LF})
LineStart(text, i) == Max({0} \cup {k \in 1..i : text[k] = LF})

-----------------------------------------------------------------------------
(* The code                                                                 *)

\* Mutant of EndsLine: a line ends at its line feed.
EndsLineAtLF(text, k) == text[k] = LF

\* The terminator of a line starts at character k.
EndsLine(text, k) ==
    text[k] = LF \/ (text[k] = CR /\ k < Len(text) /\ text[k + 1] = LF)

\* OffsetAt: positions past the end of a line or of the text are moved there.
OffsetAt(text, pos) ==
    LET Column(k) == UTF16Len(SubSeq(text, LineStart(text, k - 1) + 1, k - 1))
        stops == {k \in 1..Len(text) :
                     /\ LineOf(text, k - 1) = pos.line
                     /\ Column(k) >= pos.character \/ EndsLine(text, k)}
    IN  IF stops = {} THEN Len(text) ELSE Min(stops) - 1

\* Mutant of ApplyRangeChange: the range is taken to be given from its start.
ApplyChangeForwards(text, change) ==
    SubSeq(text, 1, OffsetAt(text, change.start)) \o change.text
        \o SubSeq(text, OffsetAt(text, change.end) + 1, Len(text))

\* applyRangeChange
ApplyRangeChange(text, change) ==
    LET start == OffsetAt(text, change.start)
        end == OffsetAt(text, change.end)
        first == Min({start, end})
        last == Max({start, end})
    IN  SubSeq(text, 1, first) \o change.text \o SubSeq(text, last + 1, Len(text))

\* Store.Apply: the changes one after the other, each to what the one before left; a
\* change without a range is the whole text.
Apply(text, changes) ==
    FoldLeft(LAMBDA t, change : IF change.whole THEN change.text ELSE ApplyRangeChange(t, change),
             text, changes)

\* lineText, with the carriage return a line may end with; no line past the last.
LineText(text, line) ==
    LET start == CHOOSE i \in 0..Len(text) : LineStart(text, i) = i /\ LineOf(text, i) = line
        ends == {k \in (start + 1)..Len(text) : text[k] = LF}
    IN  CASE LineOf(text, Len(text)) < line -> <<>>
          [] LineOf(text, Len(text)) >= line /\ ends = {} -> SubSeq(text, start + 1, Len(text))
          [] OTHER -> SubSeq(text, start + 1, Min(ends) - 1)

\* utf16Column: the units before a column of the parser, one for each character a
\* line is short of.
UTF16Column(line, runeCol) ==
    LET before == runeCol - 1
    IN  CASE runeCol <= 1 -> 0
          [] runeCol > 1 /\ before <= Len(line) -> UTF16Len(SubSeq(line, 1, before))
          [] OTHER -> UTF16Len(line) + before - Len(line)

\* UTF16Position: what the parser calls line and column, for the client.
UTF16Position(text, line, runeCol) ==
    LET l == IF line = 0 THEN 0 ELSE line - 1
    IN  Position(l, UTF16Column(LineText(text, l), runeCol))

\* lineUpToUTF16: what is on a line before a position of the client.
LineUpToUTF16(line, character) ==
    LET past == {k \in 1..Len(line) : UTF16Len(SubSeq(line, 1, k - 1)) >= character}
    IN  IF past = {} THEN line ELSE SubSeq(line, 1, Min(past) - 1)

\* cursorColumn: where the cursor is for the parser.
CursorColumn(text, pos) == Len(LineUpToUTF16(LineText(text, pos.line), pos.character)) + 1

-----------------------------------------------------------------------------
(* The text of the editor                                                   *)

\* What the editor calls the place after i characters.
EditorPosition(text, i) ==
    Position(LineOf(text, i), UTF16Len(SubSeq(text, LineStart(text, i) + 1, i)))

\* The places a cursor can be at: not in the middle of a terminator.
Cursors(text) == {i \in 0..Len(text) : ~(i \in 1..(Len(text) - 1) /\ text[i] = CR /\ text[i + 1] = LF)}

\* What an edit makes of a text: all of it is new, or what is between two cursors.
Edited(text, edit) ==
    IF edit.whole THEN edit.text
    ELSE SubSeq(text, 1, edit.from) \o edit.text \o SubSeq(text, edit.to + 1, Len(text))

\* What the editor sends of it, a range from its start or from its end.
Change(text, edit) ==
    LET from == EditorPosition(text, edit.from)
        to == EditorPosition(text, edit.to)
    IN  [whole |-> edit.whole, text |-> edit.text,
         start |-> IF edit.backwards THEN to ELSE from, end |-> IF edit.backwards THEN from ELSE to]

\* cursor.go:222-225 and locate.go:300-306, a position outside of the text is taken for
\* the end of its line or of the text, never for the middle of a terminator, and the
\* client, the parser and the code mean the same place by a position.
PositionsAgree(text) ==
    /\ \A line \in 0..(LineOf(text, Len(text)) + 1), character \in 0..(UTF16Len(text) + 1) :
          LET offset == OffsetAt(text, Position(line, character))
              there == EditorPosition(text, offset)
          IN  /\ offset \in Cursors(text)
              /\ line <= LineOf(text, Len(text)) => there.line = line
              /\ line > LineOf(text, Len(text)) => offset = Len(text)
              /\ there.character < character
                    => offset = Len(text) \/ EndsLine(text, offset + 1)
    /\ \A i \in Cursors(text) :
          LET pos == EditorPosition(text, i)
          IN  UTF16Position(text, pos.line + 1, CursorColumn(text, pos)) = pos
=============================================================================
