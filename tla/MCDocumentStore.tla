--------------------------- MODULE MCDocumentStore ---------------------------
(* Texts with LF, CRLF and CR by itself, and characters of one and two units. *)
EXTENDS DocumentStore

MCChar == {LF, CR, "a", "wide"}

\* All texts of three characters, and those of four with a CR LF in them.
MCOpened ==
    UNION {[1..k -> MCChar] : k \in 0..3}
    \cup {text \in [1..4 -> MCChar] : \E k \in 1..3 : text[k] = CR /\ text[k + 1] = LF}

MCTyped == {<<>>, <<"wide">>, <<CR, LF>>}
=============================================================================
