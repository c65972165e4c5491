-------------------------------- MODULE Lint ---------------------------------
(***************************************************************************)
(* `yayamlls validate` (internal/lint): the files are validated by         *)
(* goroutines, at most FileLimit at once, each file's documents by         *)
(* goroutines of their own, at most DocLimit of a file at once, and what   *)
(* they find is reported in the order of the documents and of the files.   *)
(* Document is the same one the language server calls for an open file.    *)
(*                                                                         *)
(* A file is the workspace's globs that match its path, what is left to    *)
(* ask when none does, and its documents.  A document is what              *)
(* validateOneDoc tells apart: nothing but comments, the modeline in those *)
(* it starts with, its kind, which is named by the schema the template     *)
(* gives for it, the line of a decoding error, and the leaves of the       *)
(* validation error its content has.                                       *)
(***************************************************************************)
EXTENDS Suppressions, FiniteSets

CONSTANTS
    Ref,        \* schemas
    Input,      \* the files validate may be given and the schemas that do not load
    FileLimit,  \* validateConcurrency
    DocLimit    \* docConcurrency

ASSUME ConcurrencyAssumption == FileLimit \in Nat \ {0} /\ DocLimit \in Nat \ {0}

\* What validate may be given.  Whatever has a line is on one of the text's own, and
\* a text that was read has a first line, be it blank.
LeafOn(lines) == [line : lines, is : {"error", "noise", "substituted", "tagged"}]
DocOn(lines) ==
    [empty : BOOLEAN, modeline : Ref \cup {None}, kind : Ref \cup {None},
     undecodable : lines \cup {None}, leaves : Seq(LeafOn(lines))]
Manifest == [kind : Ref \cup {None}, undecodable : BOOLEAN, leaves : Seq(LeafOn(Nat))]
RenderOn(lines) ==
    [err : {"failed", "values", "unavailable", None}, line : lines, rest : BOOLEAN,
     manifests : Seq(Manifest)]
FileOn(lines) ==
    [readable : BOOLEAN, globs : Seq([ref : Ref, literals : Nat]), fallback : Ref \cup {None},
     docs : Seq(DocOn(lines)), malformed : lines \cup {None},
     render : RenderOn(lines) \cup {None}, lines : Seq(Line)]

WellFormed(file) ==
    file \in FileOn(1..Len(file.lines)) /\ (file.readable => file.lines # <<>>)

ASSUME InputAssumption ==
    \A input \in Input :
        /\ input.broken \subseteq Ref /\ input.kubernetes \in BOOLEAN
        /\ input.files \in Seq(FileOn(Nat)) /\ \A f \in DOMAIN input.files : WellFormed(input.files[f])

ASSUME NoneAssumption == None \notin Ref /\ None \notin Nat /\ None \notin RenderOn(Nat)

VARIABLES
    files,      \* what validate was given
    broken,     \* the schemas that do not load
    kubernetes, \* the settings have a template for the schemas of Kubernetes kinds
    started,    \* files a goroutine was started for
    phase,      \* phase[f]: how far file f has come
    launched,   \* launched[f]: documents of f a goroutine was started for
    running,    \* running[f]: those whose goroutine has not ended
    results,    \* results[f]: the docResults of f
    found,      \* found[f]: diagnostics of f before suppression
    reported,   \* reported[f]: diagnostics of f
    output,     \* what is printed
    failed      \* the exit code is 1

docVars == <<launched, running, results>>
given == <<files, broken, kubernetes>>
vars == <<given, started, phase, docVars, found, reported, output, failed>>

\* Diagnostics without a place in the text are at its first line.
Diag(line, kind, ref, severity) ==
    [line |-> line, kind |-> kind, ref |-> ref, severity |-> severity]
FileLevel == 1

NoResult == [ref |-> None, loadErr |-> FALSE, diags |-> <<>>]

Files == 1..Len(files)
Docs(f) == 1..Len(files[f].docs)

Init ==
    /\ \E input \in Input : /\ files = input.files
                             /\ broken = input.broken
                             /\ kubernetes = input.kubernetes
    /\ started = 0
    /\ phase = [f \in Files |-> "waiting"]
    /\ launched = [f \in Files |-> 0]
    /\ running = [f \in Files |-> {}]
    /\ results = [f \in Files |-> [i \in Docs(f) |-> NoResult]]
    /\ found = [f \in Files |-> <<>>]
    /\ reported = [f \in Files |-> <<>>]
    /\ output = <<>>
    /\ failed = FALSE

-----------------------------------------------------------------------------
(* One document                                                             *)

\* Of the globs that match, in the order of their schemas, the first of those
\* with the most literal characters.
MatchSettings(f) ==
    LET Narrower(best, glob) == IF glob.literals > best.literals THEN glob ELSE best
    IN  FoldLeft(Narrower, [ref |-> None, literals |-> -1], files[f].globs).ref

\* The modeline of the whole text: the first in the comments before any content.
FindModelineSchema(f) ==
    LET docs == files[f].docs
        leading == {i \in Docs(f) : \A j \in 1..(i - 1) : docs[j].empty}
        modelines == {i \in leading : docs[i].modeline # None}
    IN  IF modelines = {} THEN None ELSE docs[Min(modelines)].modeline

\* The schema of the whole file; the last resort is the embedded schema of the
\* workspace config, by name, or the catalog.
Resolve(f) ==
    CASE FindModelineSchema(f) # None -> FindModelineSchema(f)
      [] FindModelineSchema(f) = None /\ files[f].globs # <<>> -> MatchSettings(f)
      [] OTHER -> files[f].fallback

K8sURL(kind) == IF kubernetes THEN kind ELSE None

\* The schema the user asked for, in the document or for the file.
Asked(f, doc) == IF doc.modeline # None THEN doc.modeline ELSE Resolve(f)

\* WalkLeaves: a leaf is an error, noise of the schemas of Kubernetes, a pattern on
\* a value Flux is to substitute, or the value of a custom tag.
WalkLeaves(leaves, skipped) ==
    Omit(leaves, {k \in 1..Len(leaves) : leaves[k].is \in skipped \cup {"noise"}})

Violations(doc, ref) ==
    IF doc.undecodable # None THEN <<Diag(doc.undecodable, "decode", ref, "error")>>
    ELSE LET shown == WalkLeaves(doc.leaves, {"substituted", "tagged"})
         IN  [k \in 1..Len(shown) |-> Diag(shown[k].line, "violation", ref, "error")]

\* A schema that does not load is worth a warning only if it was asked for.
ValidateOneDoc(f, doc) ==
    LET ref == IF Asked(f, doc) # None THEN Asked(f, doc) ELSE K8sURL(doc.kind)
    IN  CASE doc.empty \/ ref = None -> NoResult
          [] ~doc.empty /\ ref \in broken ->
                IF Asked(f, doc) # None
                THEN [NoResult EXCEPT !.ref = ref, !.loadErr = TRUE]
                ELSE NoResult
          [] OTHER -> [NoResult EXCEPT !.diags = Violations(doc, ref)]

\* One turn of Document's loop over the results; d.seen are the refs reported.
Reassemble(d, r) ==
    CASE r.loadErr /\ r.ref \in d.seen -> d
      [] r.loadErr /\ r.ref \notin d.seen ->
            [seen |-> d.seen \cup {r.ref},
             diags |-> Append(d.diags, Diag(FileLevel, "load", r.ref, "warning"))]
      [] OTHER -> [d EXCEPT !.diags = @ \o r.diags]

ParseErrors(f) ==
    IF files[f].malformed = None THEN <<>>
    ELSE <<Diag(files[f].malformed, "parse", None, "error")>>

Document(f) ==
    FoldLeft(Reassemble, [seen |-> {}, diags |-> ParseErrors(f)], results[f]).diags

-----------------------------------------------------------------------------
(* Rendered output                                                          *)

\* A manifest has no place in the text, nor custom tags.
ManifestDiags(m) ==
    LET shown == WalkLeaves(m.leaves, {"substituted"})
        ref == K8sURL(m.kind)
    IN  CASE ref = None \/ ref \in broken -> <<>>
          [] ref \in Ref \ broken /\ m.undecodable ->
                <<Diag(FileLevel, "rendered", ref, "warning")>>
          [] OTHER -> [k \in 1..Len(shown) |-> Diag(FileLevel, "rendered", ref, "error")]

\* A failure of the values of a chart is put on the line of the value, any other
\* text of the error at the first line.
RenderedDiagnostics(render) ==
    CASE render.err = "failed" -> <<Diag(FileLevel, "render", None, "warning")>>
      [] render.err = "values" ->
            <<Diag(render.line, "values", None, "error")>>
                \o IF render.rest THEN <<Diag(FileLevel, "render", None, "warning")>> ELSE <<>>
      [] render.err = "unavailable" -> <<>>
      [] OTHER -> FlattenSeq([i \in 1..Len(render.manifests) |->
                                  ManifestDiags(render.manifests[i])])

-----------------------------------------------------------------------------
(* validateFile and Run                                                     *)

FilesRunning == {f \in Files : phase[f] \notin {"waiting", "done"}}

\* The semaphore is taken before the goroutine starts.
StartFile ==
    /\ started < Len(files)
    /\ Cardinality(FilesRunning) < FileLimit
    /\ started' = started + 1
    /\ phase' = [phase EXCEPT ![started + 1] = "reading"]
    /\ UNCHANGED <<given, docVars, found, reported, output, failed>>

\* os.ReadFile
Read(f) ==
    /\ phase[f] = "reading"
    /\ phase' = [phase EXCEPT ![f] = IF files[f].readable THEN "documents" ELSE "done"]
    /\ UNCHANGED <<given, started, docVars, found, reported, output, failed>>

\* The same in Document; a single document is validated without a goroutine,
\* which makes no difference here.
StartDoc(f) ==
    /\ phase[f] = "documents"
    /\ launched[f] < Len(files[f].docs)
    /\ Cardinality(running[f]) < DocLimit
    /\ launched' = [launched EXCEPT ![f] = @ + 1]
    /\ running' = [running EXCEPT ![f] = @ \cup {launched[f] + 1}]
    /\ UNCHANGED <<given, started, phase, results, found, reported, output, failed>>

\* Mutant of EndDoc: results are collected as they come.
EndDocInTurn(f, i) ==
    /\ i \in running[f]
    /\ results' = [results EXCEPT
          ![f][launched[f] - Cardinality(running[f]) + 1] = ValidateOneDoc(f, files[f].docs[i])]
    /\ running' = [running EXCEPT ![f] = @ \ {i}]
    /\ UNCHANGED <<given, started, phase, launched, found, reported, output, failed>>

EndDoc(f, i) ==
    /\ i \in running[f]
    /\ results' = [results EXCEPT ![f][i] = ValidateOneDoc(f, files[f].docs[i])]
    /\ running' = [running EXCEPT ![f] = @ \ {i}]
    /\ UNCHANGED <<given, started, phase, launched, found, reported, output, failed>>

\* wg.Wait, then the rest of validateFile.
ReportFile(f) ==
    /\ phase[f] = "documents"
    /\ launched[f] = Len(files[f].docs) /\ running[f] = {}
    /\ LET diags == Document(f)
                        \o IF files[f].render = None THEN <<>>
                           ELSE RenderedDiagnostics(files[f].render)
       IN  /\ found' = [found EXCEPT ![f] = diags]
           /\ reported' = [reported EXCEPT
                 ![f] = Filter(ParseSuppressions(files[f].lines), diags)]
    /\ phase' = [phase EXCEPT ![f] = "done"]
    /\ UNCHANGED <<given, started, docVars, output, failed>>

\* wg.Wait of Run: print everything, in the order the files were given.
PrintAll ==
    /\ \A f \in Files : phase[f] = "done"
    /\ started <= Len(files)
    /\ started' = Len(files) + 1
    /\ output' = FlattenSeq([f \in Files |-> reported[f]])
    /\ failed' = \E f \in Files :
                     \/ ~files[f].readable
                     \/ \E i \in 1..Len(reported[f]) : reported[f][i].severity = "error"
    /\ UNCHANGED <<given, phase, docVars, found, reported>>

\* The process has ended.
Ended == started > Len(files) /\ UNCHANGED vars

Next ==
    \/ StartFile
    \/ \E f \in Files : Read(f) \/ StartDoc(f) \/ ReportFile(f)
    \/ \E f \in Files : \E i \in Docs(f) : EndDoc(f, i)
    \/ PrintAll
    \/ Ended

Spec == Init /\ [][Next]_vars

-----------------------------------------------------------------------------
(* What the loop over the documents emits, said of each document alone      *)

\* The schema a document is asked to be validated with: by the modeline before its
\* content or, there being none, before that of the first document, else by the glob
\* that none is narrower than and no earlier one as narrow as.
AskedFor(f, doc) ==
    LET docs == files[f].docs
        globs == files[f].globs
        First(i) == /\ docs[i].modeline # None
                    /\ \A j \in 1..(i - 1) : docs[j].empty /\ docs[j].modeline = None
        Best(i) == \A j \in 1..Len(globs) : \/ globs[j].literals < globs[i].literals
                                            \/ globs[j].literals = globs[i].literals /\ i <= j
    IN  CASE doc.modeline # None -> doc.modeline
          [] doc.modeline = None /\ (\E i \in Docs(f) : First(i)) ->
                docs[CHOOSE i \in Docs(f) : First(i)].modeline
          [] doc.modeline = None /\ ~(\E i \in Docs(f) : First(i)) /\ globs # <<>> ->
                globs[CHOOSE i \in 1..Len(globs) : Best(i)].ref
          [] OTHER -> files[f].fallback

LoadFailure(f, doc) == ~doc.empty /\ AskedFor(f, doc) \in broken

\* What document i of f contributes: of the documents that asked for the same
\* schema in vain, only the first says so.
Contribution(f, i) ==
    LET doc == files[f].docs[i]
        asked == AskedFor(f, doc)
        ref == IF asked # None THEN asked ELSE K8sURL(doc.kind)
        earlier == {j \in 1..(i - 1) : /\ LoadFailure(f, files[f].docs[j])
                                       /\ AskedFor(f, files[f].docs[j]) = asked}
    IN  CASE LoadFailure(f, doc) ->
                IF earlier = {} THEN <<Diag(FileLevel, "load", ref, "warning")>> ELSE <<>>
          [] ~LoadFailure(f, doc) /\ ~doc.empty /\ ref \in Ref \ broken -> Violations(doc, ref)
          [] OTHER -> <<>>

Emitted(f) ==
    ParseErrors(f)
        \o FlattenSeq([i \in Docs(f) |-> Contribution(f, i)])
        \o IF files[f].render = None THEN <<>> ELSE RenderedDiagnostics(files[f].render)

\* The state keeps its types, the limits on goroutines hold, and a load failure is
\* reported only for a schema that was asked for.
TypeOK ==
    /\ started \in 0..(Len(files) + 1)
    /\ Cardinality(FilesRunning) <= FileLimit
    /\ \A f \in Files :
          /\ phase[f] \in {"waiting", "reading", "documents", "done"}
          /\ Cardinality(running[f]) <= DocLimit
          /\ running[f] \subseteq 1..launched[f]
          /\ \A i \in Docs(f) :
                /\ results[f][i].ref \in Ref \cup {None}
                /\ results[f][i].loadErr => results[f][i].diags = <<>>
                                            /\ Asked(f, files[f].docs[i]) = results[f][i].ref

\* lint.go:63-64, the order in which the documents and the files are validated never
\* shows: each file reports what a loop over its documents would, one load failure
\* for a schema that was asked for, none for one that was detected.
SameAsSequential ==
    \A f \in Files : phase[f] = "done" /\ files[f].readable => found[f] = Emitted(f)

\* Exactly what is found on the lines the directives name is left out.
PrintsAsDirected ==
    output = FlattenSeq([f \in Files |->
        LET lines == files[f].lines
        IN  Without({i \in 1..Len(lines) : Suppressed(lines, i)}, found[f])])

\* suppress.go:46-51, whatever the other lines are, exactly the diagnostics on the
\* lines the directives name are left out of what is printed, and directives inside
\* the block scalar of a key are text.
SuppressedAsDirected ==
    started > Len(files) /\ (\A f \in Files : HeadersFollowKeys(files[f].lines)) =>
        PrintsAsDirected

-----------------------------------------------------------------------------
(* What a comment says and the code does not do.                           *)

\* suppress.go:140-141, a line is inside a block scalar if its indent exceeds that of
\* the scalar's parent, whatever the header follows on its line: directives in it are
\* text.
ScalarsAreText == started > Len(files) => PrintsAsDirected
=============================================================================
