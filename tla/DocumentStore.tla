--------------------------- MODULE DocumentStore -----------------------------
(***************************************************************************)
(* A document in the editor and in the server's store                      *)
(* (internal/document/store.go, didOpen, didChange and didClose of         *)
(* internal/lsp/handlers.go).  The editor goes on editing while what it    *)
(* sent is on its way; notifications arrive in order, and a didChange has  *)
(* all that was edited since the last.  Documents share nothing, so one is *)
(* enough.                                                                 *)
(***************************************************************************)
EXTENDS TextPositions, Absent

CONSTANTS
    Char,        \* characters
    Opened,      \* texts a document is opened with
    Typed,       \* texts an edit puts in
    MaxLength,   \* bound on the length of a text that is edited
    MaxChanges,  \* bound on the edits the server has not heard of
    MaxSent      \* bound on the notifications on their way

ASSUME TextAssumption == Opened \subseteq Seq(Char) /\ Typed \subseteq Seq(Char)
ASSUME NoTextAssumption == None \notin Seq(Char)

VARIABLES
    editor,  \* the text in the editor, None when the document is closed
    unsent,  \* what was changed since the last notification
    sent,    \* the notifications on their way
    stored,  \* the text in the store, None when it is not there
    asSent   \* (history) the editor's text when it sent what was handled last

editorVars == <<editor, unsent>>
storeVars == <<stored, asSent>>
syncVars == <<editorVars, sent, storeVars>>

\* A notification with the changes it tells of; the text is what the editor then had,
\* and on the wire in a didOpen only.
Notification(is, changes, text) == [is |-> is, changes |-> changes, text |-> text]

SyncInit ==
    editor = None /\ unsent = <<>> /\ sent = <<>> /\ stored = None /\ asSent = None

-----------------------------------------------------------------------------
(* The editor                                                               *)

\* Between two cursors or all of the text.
EditsOf(text) ==
    {edit \in [whole : {FALSE}, from : Cursors(text), to : Cursors(text),
               text : Typed, backwards : BOOLEAN] : edit.from <= edit.to}
    \cup [whole : {TRUE}, from : {0}, to : {0}, text : Typed, backwards : {FALSE}]

Send(is, changes, text) ==
    Len(sent) < MaxSent /\ sent' = Append(sent, Notification(is, changes, text))

OpenEditor ==
    /\ editor = None
    /\ \E text \in Opened : editor' = text /\ Send("didOpen", <<>>, text)
    /\ UNCHANGED <<unsent, storeVars>>

Edit ==
    /\ editor # None /\ Len(unsent) + Len(FlattenSeq([k \in 1..Len(sent) |-> sent[k].changes])) < MaxChanges
    /\ \E edit \in EditsOf(editor) :
          /\ Len(Edited(editor, edit)) <= MaxLength
          /\ editor' = Edited(editor, edit)
          /\ unsent' = Append(unsent, Change(editor, edit))
    /\ UNCHANGED <<sent, storeVars>>

SendChanges ==
    /\ editor # None /\ unsent # <<>>
    /\ Send("didChange", unsent, editor)
    /\ unsent' = <<>>
    /\ UNCHANGED <<editor, storeVars>>

CloseEditor ==
    /\ editor # None
    /\ editor' = None /\ unsent' = <<>> /\ Send("didClose", <<>>, None)
    /\ UNCHANGED storeVars

-----------------------------------------------------------------------------
(* The store                                                                *)

\* The next notification is of this kind, and is taken.
Receive(is) ==
    /\ sent # <<>> /\ Head(sent).is = is
    /\ sent' = Tail(sent)
    /\ asSent' = Head(sent).text
    /\ UNCHANGED editorVars

\* didOpen: Store.Open
DidOpen == Receive("didOpen") /\ stored' = Head(sent).text

\* didChange: Store.Apply, which fails for a document that is not open.
DidChange ==
    Receive("didChange") /\ stored' = IF stored = None THEN None ELSE Apply(stored, Head(sent).changes)

\* didClose: Store.Close
DidClose == Receive("didClose") /\ stored' = None

SyncNext ==
    \/ OpenEditor
    \/ Edit
    \/ SendChanges
    \/ CloseEditor
    \/ DidOpen
    \/ DidChange
    \/ DidClose

SyncSpec == SyncInit /\ [][SyncNext]_syncVars

-----------------------------------------------------------------------------
\* What is where.
SyncTypeOK ==
    /\ editor \in Seq(Char) \cup {None} /\ stored \in Seq(Char) \cup {None}
    /\ asSent \in Seq(Char) \cup {None}
    /\ \A k \in 1..Len(sent) : sent[k].is \in {"didOpen", "didChange", "didClose"}
                               /\ sent[k].text \in Seq(Char) \cup {None}

\* store.go:60-93, whatever is edited, sent in however many notifications and on its way
\* for however long, the server has the text of the version it was last told of, and
\* when nothing is on its way, the editor's.
ServerHasEditorsText ==
    /\ stored = asSent
    /\ sent = <<>> /\ unsent = <<>> => stored = editor

\* cursor.go:222-225, locate.go:300-306: in the text the server has, client, parser and
\* code mean the same place by a position, and a position outside of it is moved into it.
ServersPositionsAgree == stored # None => PositionsAgree(stored)
=============================================================================
