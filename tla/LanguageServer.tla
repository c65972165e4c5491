--------------------------- MODULE LanguageServer ---------------------------
(***************************************************************************)
(* The language server's document lifecycle (internal/lsp/server.go,       *)
(* handlers.go, showdocument.go, internal/document/store.go) around the    *)
(* render pipeline: the message loop, the lint debounce timers, the render *)
(* goroutines that call Notify, the goroutines that compute and publish    *)
(* diagnostics, and those that open a rendered view in the editor.         *)
(*                                                                         *)
(* A thread is a sequence of frames still to run, its continuation; a      *)
(* frame is what its code does up to the next point where another thread   *)
(* can get in between: one critical section of one mutex, or one read of   *)
(* the document store.  The message loop takes the next message only when  *)
(* its continuation is empty.                                              *)
(***************************************************************************)
EXTENDS Naturals, Sequences, FiniteSets

CONSTANTS
    Uri,          \* URIs of documents
    Text,         \* contents of documents
    Renderable,   \* those AnalyzeDocument finds a Flux resource in
    Renderer,     \* the renderers that may be configured for them
    Job,          \* slots for renders in flight; also their goroutines
    Worker,       \* slots for lint timer callbacks and showInEditor goroutines
    Loop,         \* the message loop
    Empty,        \* an output without any rendered text
    None,
    Received,     \* the kinds of messages a run is about
    MaxEdits,     \* bound on didOpen and didChange messages
    MaxRequests,  \* bound on the other messages
    MaxMessages,  \* bound on all of them together
    Late          \* the kinds of which one more may come after those

Kind == {"didOpen", "didChange", "didClose", "didChangeWatchedFiles", "didChangeConfig",
         "executeCommand"}

ASSUME ReceivedAssumption == Received \cup Late \subseteq Kind

ASSUME TextAssumption == Renderable \subseteq Text /\ Empty \notin Text /\ None \notin Text
ASSUME BoundAssumption == {MaxEdits, MaxRequests, MaxMessages} \subseteq Nat

Thread == {Loop} \cup Job \cup Worker

ASSUME ThreadAssumption == Loop \notin Job /\ Loop \notin Worker /\ Job \cap Worker = {}

VARIABLES
    docs,              \* document.Store
    kubernetes,        \* Server.settings.KubernetesEnabled()
    lintTimers,        \* URIs with a debounced didChange publish waiting
    pubSeq,            \* Server.pubSeq, 0 for no entry
    pubCounter,        \* Server.pubCounter
    publishing,        \* goroutines started by schedulePublish
    renderedDiags,     \* Server.renderedDiags: the render they come from
    renderedRaw,       \* Server.renderedRaw
    renderedBaseline,  \* Server.renderedBaseline
    pendingShow,       \* URIs in Server.pendingShow
    temps,             \* URIs whose rendered view is in the temp directory
    client,            \* last diagnostics the client was sent for a URI
    todo,              \* todo[th]: the frames thread th still has to run
    edits, requests,   \* messages received so far
    registry, configuring, pending, cache, epoch, jobs

pipelineVars == <<registry, configuring, pending, cache, epoch, jobs>>
renderedVars == <<renderedDiags, renderedRaw, renderedBaseline>>
publishVars == <<pubSeq, pubCounter, publishing, client>>
showVars == <<pendingShow, temps>>
inputVars == <<docs, edits, requests>>
vars == <<inputVars, kubernetes, lintTimers, publishVars, renderedVars, showVars,
          todo, pipelineVars>>

\* The pipeline is given nothing but renderable texts, and every invalidation
\* is part of handling one message.
Pipeline == INSTANCE RenderPipeline WITH Text <- Renderable, MaxEpoch <- MaxRequests

Document == [version : 1..MaxEdits, text : Text]
Result == [of : Renderable, err : Pipeline!Err]
Output == Renderable \cup {Empty}

\* A publish on its way, and the diagnostics the client was sent last.
Publish == [seq : Nat, uri : Uri, version : 1..MaxEdits, collected : BOOLEAN,
            rendered : Result \cup {None}]
Shown == [version : 1..MaxEdits, rendered : Result \cup {None}]

ASSUME NoneAssumption ==
    /\ None \notin Uri /\ None \notin Renderer /\ None \notin Job
    /\ None \notin Document /\ None \notin Result /\ None \notin Shown

\* What RenderPipeline assumes.
ASSUME PipelineAssumption ==
    /\ None \notin Pipeline!JobState /\ None \notin Pipeline!CacheEntry
    /\ None \notin [text : Renderable, by : Renderer]
    /\ None \notin [text : Renderable, by : Renderer, err : Pipeline!Err]

Do == {"analyze", "schedule", "publish", "notify", "store", "serveShow", "getDoc",
       "show", "writeTemp", "debounce", "setPending", "enable",
       "disable", "configure", "invalidate",
       "cancelDebounce", "forgetPublish", "cancelRender", "clearRender",
       "takeShow", "clearDiagnostics", "removeTemps"}

\* A frame: what it does, for which URI, with the document or the value its code
\* holds in a local variable.
Frame == [do : Do, uri : Uri \cup {None}, doc : Document \cup {None},
          arg : Job \cup Result \cup {None}]

Call(do, u) == [do |-> do, uri |-> u, doc |-> None, arg |-> None]
CallOn(do, u, d) == [do |-> do, uri |-> u, doc |-> d, arg |-> None]

\* publishDiagnostics: hand the document to the pipeline, then schedulePublish.
PublishDiagnostics(u, d) == <<CallOn("analyze", u, d), CallOn("publish", u, d)>>

Init ==
    /\ docs = [u \in Uri |-> None]
    /\ kubernetes = TRUE
    /\ lintTimers = {}
    /\ pubSeq = [u \in Uri |-> 0]
    /\ pubCounter = 0
    /\ publishing = {}
    /\ renderedDiags = [u \in Uri |-> None]
    /\ renderedRaw = [u \in Uri |-> None]
    /\ renderedBaseline = [u \in Uri |-> None]
    /\ pendingShow = {}
    /\ temps = {}
    /\ client = [u \in Uri |-> [seq |-> 0, shown |-> None]]
    /\ todo = [th \in Thread |-> <<>>]
    /\ edits = 0 /\ requests = 0
    /\ Pipeline!Init

-----------------------------------------------------------------------------
Open(u) == docs[u] # None
OpenUris == {u \in Uri : Open(u)}

\* The frame a thread is about to run.
Top(th) == Head(todo[th])
Runs(th, do) == todo[th] # <<>> /\ Top(th).do = do

\* The thread runs its frame and goes on with fs before the rest.
Then(th, fs) == todo' = [todo EXCEPT ![th] = fs \o Tail(@)]

\* The same, starting a goroutine in a free slot.
ThenGo(th, fs, gs) ==
    \E w \in Worker :
        /\ todo[w] = <<>>
        /\ todo' = [todo EXCEPT ![th] = fs \o Tail(@), ![w] = gs]

\* The orders in which AllURIs may list the open documents.
Orders(S) == {s \in [1..Cardinality(S) -> S] : \A i, k \in DOMAIN s : s[i] = s[k] => i = k}

\* publishDiagnostics for each of the documents in s, one after the other.
PublishAll(s) ==
    [k \in 1..(2 * Len(s)) |-> LET u == s[(k + 1) \div 2] IN
                                PublishDiagnostics(u, docs[u])[2 - (k % 2)]]

\* Mutants of Superseded: the newest publish is dropped as well, or none is.
SupersededByItself(p) == pubSeq[p.uri] >= p.seq
NeverSuperseded(p) == FALSE

\* The check under pubMu that drops a superseded publish.
Superseded(p) == pubSeq[p.uri] # p.seq

\* The publishes still under way once pubSeq has changed.  Numbers are never used
\* again, so a superseded publish stays one and nobody sees when its goroutine
\* gets to the check and ends: it is dropped on the spot.
Unsuperseded == {p \in publishing : ~Superseded(p)'}

-----------------------------------------------------------------------------
(* The message loop: one message at a time, each up to its first frame.    *)

Ready(kind) ==
    /\ todo[Loop] = <<>> /\ kind \in Received
    /\ edits + requests < (IF kind \in Late THEN MaxMessages + 1 ELSE MaxMessages)

DidOpen(u, t) ==
    /\ Ready("didOpen") /\ ~Open(u) /\ edits < MaxEdits
    /\ LET d == [version |-> edits + 1, text |-> t] IN
          /\ docs' = [docs EXCEPT ![u] = d]
          /\ todo' = [todo EXCEPT ![Loop] = PublishDiagnostics(u, d)]
    /\ edits' = edits + 1
    /\ UNCHANGED <<requests, kubernetes, lintTimers, publishVars, renderedVars,
                   showVars, pipelineVars>>

\* docs.Apply builds a fresh Document; debouncePublish follows.
DidChange(u, t) ==
    /\ Ready("didChange") /\ Open(u) /\ edits < MaxEdits
    /\ docs' = [docs EXCEPT ![u] = [version |-> edits + 1, text |-> t]]
    /\ todo' = [todo EXCEPT ![Loop] = <<Call("debounce", u)>>]
    /\ edits' = edits + 1
    /\ UNCHANGED <<requests, kubernetes, lintTimers, publishVars, renderedVars,
                   showVars, pipelineVars>>

\* docs.Close comes first, the calls that forget the document after it.
CloseFrames(u) ==
    <<Call("cancelDebounce", u), Call("forgetPublish", u), Call("cancelRender", u),
      Call("clearRender", u), Call("takeShow", u), Call("clearDiagnostics", u),
      Call("removeTemps", u)>>

DidClose(u) ==
    /\ Ready("didClose") /\ Open(u) /\ requests < MaxRequests
    /\ docs' = [docs EXCEPT ![u] = None]
    /\ todo' = [todo EXCEPT ![Loop] = CloseFrames(u)]
    /\ requests' = requests + 1
    /\ UNCHANGED <<edits, kubernetes, lintTimers, publishVars, renderedVars,
                   showVars, pipelineVars>>

\* didSave and didChangeWatchedFiles for a file other than the workspace config.
DidChangeWatchedFiles ==
    /\ Ready("didChangeWatchedFiles") /\ kubernetes /\ requests < MaxRequests
    /\ \E s \in Orders(OpenUris) :
          todo' = [todo EXCEPT ![Loop] = <<Call("invalidate", None)>> \o
                      [i \in DOMAIN s |-> CallOn("analyze", s[i], docs[s[i]])]]
    /\ requests' = requests + 1
    /\ UNCHANGED <<docs, edits, kubernetes, lintTimers, publishVars, renderedVars,
                   showVars, pipelineVars>>

\* didChangeConfig and reloadWorkspaceConfig: applyLayers installs the settings
\* and, when the renderers or the root they work in changed, invalidates the
\* pipeline; then every open document is published again.
RendererFrames ==
    {<<>>, <<Call("invalidate", None)>>,
     <<Call("configure", None), Call("invalidate", None)>>}

DidChangeConfig ==
    /\ Ready("didChangeConfig") /\ requests < MaxRequests
    /\ \E setting \in {"enable", "disable"}, fs \in RendererFrames, s \in Orders(OpenUris) :
          todo' = [todo EXCEPT ![Loop] = <<Call(setting, None)>> \o fs \o PublishAll(s)]
    /\ requests' = requests + 1
    /\ UNCHANGED <<docs, edits, kubernetes, lintTimers, publishVars, renderedVars,
                   showVars, pipelineVars>>

\* renderedView: the stored output, "" when there is none yet.
Viewable(u) == renderedRaw[u] \in Renderable

\* Mutant of DeferShow: the render is scheduled before the request is noted.
DeferShowLate(u) ==
    (IF Open(u) THEN <<CallOn("analyze", u, docs[u])>> ELSE <<>>) \o <<Call("setPending", u)>>

\* No output yet: note the request, then have the document rendered.
DeferShow(u) ==
    <<Call("setPending", u)>> \o (IF Open(u) THEN <<CallOn("analyze", u, docs[u])>> ELSE <<>>)

\* executeCommand for a client with window/showDocument: open the view now, or
\* note the request and have the document rendered.
ExecuteCommand(u) ==
    /\ Ready("executeCommand") /\ kubernetes /\ requests < MaxRequests
    /\ \/ /\ Viewable(u)
          /\ \E w \in Worker :
                /\ todo[w] = <<>>
                /\ todo' = [todo EXCEPT ![w] = <<Call("show", u)>>]
       \/ /\ ~Viewable(u)
          /\ todo' = [todo EXCEPT ![Loop] = DeferShow(u)]
    /\ requests' = requests + 1
    /\ UNCHANGED <<docs, edits, kubernetes, lintTimers, publishVars, renderedVars,
                   showVars, pipelineVars>>

-----------------------------------------------------------------------------
(* Frames of the message loop only.                                        *)

\* debouncePublish: a timer already waiting is stopped and replaced.
Debounce ==
    /\ Runs(Loop, "debounce")
    /\ lintTimers' = lintTimers \cup {Top(Loop).uri}
    /\ Then(Loop, <<>>)
    /\ UNCHANGED <<inputVars, kubernetes, publishVars, renderedVars, showVars,
                   pipelineVars>>

\* setPendingShow only records open documents.
SetPendingShow ==
    /\ Runs(Loop, "setPending")
    /\ pendingShow' = IF Open(Top(Loop).uri) THEN pendingShow \cup {Top(Loop).uri}
                      ELSE pendingShow
    /\ Then(Loop, <<>>)
    /\ UNCHANGED <<inputVars, kubernetes, lintTimers, publishVars, renderedVars,
                   temps, pipelineVars>>

\* applyLayers under settingsMu.
ApplySettings ==
    /\ Runs(Loop, "enable") \/ Runs(Loop, "disable")
    /\ kubernetes' = Runs(Loop, "enable")
    /\ Then(Loop, <<>>)
    /\ UNCHANGED <<inputVars, lintTimers, publishVars, renderedVars, showVars,
                   pipelineVars>>

Configure ==
    /\ Runs(Loop, "configure")
    /\ Pipeline!Configure
    /\ Then(Loop, <<>>)
    /\ UNCHANGED <<inputVars, kubernetes, lintTimers, publishVars, renderedVars, showVars>>

InvalidateAll ==
    /\ Runs(Loop, "invalidate")
    /\ Pipeline!InvalidateAll
    /\ Then(Loop, <<>>)
    /\ UNCHANGED <<inputVars, kubernetes, lintTimers, publishVars, renderedVars, showVars>>

CancelDebounce ==
    /\ Runs(Loop, "cancelDebounce")
    /\ lintTimers' = lintTimers \ {Top(Loop).uri}
    /\ Then(Loop, <<>>)
    /\ UNCHANGED <<inputVars, kubernetes, publishVars, renderedVars, showVars,
                   pipelineVars>>

ForgetPublish ==
    /\ Runs(Loop, "forgetPublish")
    /\ pubSeq' = [pubSeq EXCEPT ![Top(Loop).uri] = 0]
    /\ publishing' = Unsuperseded
    /\ Then(Loop, <<>>)
    /\ UNCHANGED <<inputVars, kubernetes, lintTimers, pubCounter, client,
                   renderedVars, showVars, pipelineVars>>

CancelRender ==
    /\ Runs(Loop, "cancelRender")
    /\ Pipeline!Cancel(Top(Loop).uri)
    /\ Then(Loop, <<>>)
    /\ UNCHANGED <<inputVars, kubernetes, lintTimers, publishVars, renderedVars, showVars>>

ClearRenderState ==
    /\ Runs(Loop, "clearRender")
    /\ renderedDiags' = [renderedDiags EXCEPT ![Top(Loop).uri] = None]
    /\ renderedRaw' = [renderedRaw EXCEPT ![Top(Loop).uri] = None]
    /\ renderedBaseline' = [renderedBaseline EXCEPT ![Top(Loop).uri] = None]
    /\ Then(Loop, <<>>)
    /\ UNCHANGED <<inputVars, kubernetes, lintTimers, publishVars, showVars, pipelineVars>>

TakePendingShow ==
    /\ Runs(Loop, "takeShow")
    /\ pendingShow' = pendingShow \ {Top(Loop).uri}
    /\ Then(Loop, <<>>)
    /\ UNCHANGED <<inputVars, kubernetes, lintTimers, publishVars, renderedVars,
                   temps, pipelineVars>>

\* An empty list of diagnostics, sent without taking pubMu.
ClearDiagnostics ==
    /\ Runs(Loop, "clearDiagnostics")
    /\ client' = [client EXCEPT ![Top(Loop).uri].shown = None]
    /\ Then(Loop, <<>>)
    /\ UNCHANGED <<inputVars, kubernetes, lintTimers, pubSeq, pubCounter, publishing,
                   renderedVars, showVars, pipelineVars>>

RemoveRenderTemps ==
    /\ Runs(Loop, "removeTemps")
    /\ temps' = temps \ {Top(Loop).uri}
    /\ Then(Loop, <<>>)
    /\ UNCHANGED <<inputVars, kubernetes, lintTimers, publishVars, renderedVars,
                   pendingShow, pipelineVars>>

LoopStep ==
    \/ Debounce \/ SetPendingShow \/ ApplySettings \/ Configure
    \/ InvalidateAll \/ CancelDebounce \/ ForgetPublish \/ CancelRender \/ ClearRenderState
    \/ TakePendingShow \/ ClearDiagnostics \/ RemoveRenderTemps

-----------------------------------------------------------------------------
(* Frames any thread may run.                                              *)

\* Kubernetes support is on, there is something to render, and a renderer for it.
Renders(d) == kubernetes /\ d.text \in Renderable /\ registry # None

\* publishDiagnostics and scheduleRenderForURI up to Pipeline.mu: is Kubernetes
\* support on, is there anything to render, which renderer.
Analyze(th) ==
    /\ Runs(th, "analyze")
    /\ LET u == Top(th).uri
           d == Top(th).doc IN
          IF Renders(d)
          THEN \E j \in Job :
                  /\ todo[j] = <<>>
                  /\ Pipeline!Schedule(j, u, d.text)
                  /\ Then(th, <<[Call("schedule", u) EXCEPT !.arg = j]>>)
          ELSE Then(th, <<>>) /\ UNCHANGED pipelineVars
    /\ UNCHANGED <<inputVars, kubernetes, lintTimers, publishVars, renderedVars, showVars>>

\* Pipeline.Schedule under its mutex; on a cache hit this very thread goes on to
\* Notify.
Schedule(th) ==
    /\ Runs(th, "schedule")
    /\ LET j == Top(th).arg IN
          \/ /\ Pipeline!ScheduleHit(j)
             /\ Then(th, <<[Call("notify", Top(th).uri) EXCEPT !.arg = j]>>)
          \/ Pipeline!ScheduleArm(j) /\ Then(th, <<>>)
    /\ UNCHANGED <<inputVars, kubernetes, lintTimers, publishVars, renderedVars, showVars>>

\* Notify reads the document store; RenderedDiagnostics, which may wait for a
\* schema to be fetched, lies between this read and the next frame.
Notify(th) ==
    /\ Runs(th, "notify")
    /\ LET u == Top(th).uri
           j == Top(th).arg IN
          /\ Pipeline!Report(j)
          /\ Then(th, IF Open(u)
                      THEN <<[CallOn("store", u, docs[u]) EXCEPT
                                 !.arg = [of |-> jobs[j].text, err |-> jobs[j].err]]>>
                      ELSE <<>>)
    /\ UNCHANGED <<inputVars, kubernetes, lintTimers, publishVars, renderedVars, showVars>>

\* What a render brings along: its text when it went well; when it did not, an
\* output without text (flate.Render), or none at all.
Outputs(r) == IF r.err = "none" THEN {r.of} ELSE {None, Empty}

\* Mutant of StillOpen: the second look is left out.
OpenBefore(u) == TRUE

\* Notify's second look at the document store, under rendMu.
StillOpen(u) == Open(u)

\* Mutant of Baseline: every output becomes the baseline.
LatestOutput(u, out) == out

\* The first output after the document was opened stays the baseline.
Baseline(u, out) == IF renderedBaseline[u] = None THEN out ELSE renderedBaseline[u]

\* Notify under rendMu.
StoreRendered(th) ==
    /\ Runs(th, "store")
    /\ LET u == Top(th).uri
           r == Top(th).arg IN
          \/ /\ StillOpen(u)
             /\ renderedDiags' = [renderedDiags EXCEPT ![u] = r]
             /\ \E out \in Outputs(r) :
                   IF out = None THEN UNCHANGED <<renderedRaw, renderedBaseline>>
                   ELSE /\ renderedRaw' = [renderedRaw EXCEPT ![u] = out]
                        /\ renderedBaseline' =
                              [renderedBaseline EXCEPT ![u] = Baseline(u, out)]
             /\ Then(th, <<CallOn("serveShow", u, Top(th).doc)>>)
          \/ ~StillOpen(u) /\ Then(th, <<>>) /\ UNCHANGED renderedVars
    /\ UNCHANGED <<inputVars, kubernetes, lintTimers, publishVars, showVars, pipelineVars>>

\* Mutant of AfterNotify: the stored diagnostics wait for the next edit.
NothingAfterNotify(th) == <<>>

\* Notify ends with schedulePublish.
AfterNotify(th) == <<CallOn("publish", Top(th).uri, Top(th).doc)>>

\* Notify's takePendingShow; schedulePublish follows, with the document Notify
\* read when it began.
ServeShow(th) ==
    /\ Runs(th, "serveShow")
    /\ LET u == Top(th).uri
           rest == AfterNotify(th) IN
          \/ /\ u \in pendingShow
             /\ pendingShow' = pendingShow \ {u}
             /\ ThenGo(th, rest, <<Call("show", u)>>)
          \/ u \notin pendingShow /\ Then(th, rest) /\ UNCHANGED pendingShow
    /\ UNCHANGED <<inputVars, kubernetes, lintTimers, publishVars, renderedVars,
                   temps, pipelineVars>>

\* schedulePublish under pubMu, and the goroutine it starts.
SchedulePublish(th) ==
    /\ Runs(th, "publish")
    /\ LET u == Top(th).uri IN
          IF Open(u)
          THEN /\ pubCounter' = pubCounter + 1
               /\ pubSeq' = [pubSeq EXCEPT ![u] = pubCounter + 1]
               /\ publishing' = Unsuperseded \cup
                     {[seq |-> pubCounter + 1, uri |-> u, version |-> Top(th).doc.version,
                       collected |-> FALSE, rendered |-> None]}
          ELSE UNCHANGED <<pubCounter, pubSeq, publishing>>
    /\ Then(th, <<>>)
    /\ UNCHANGED <<inputVars, kubernetes, lintTimers, client, renderedVars, showVars,
                   pipelineVars>>

\* Mutant of GetDoc: the document is handed to the pipeline, and its diagnostics are
\* left to the publish of the render's Notify.
GetDocRendersOnly(th) ==
    /\ Runs(th, "getDoc")
    /\ LET u == Top(th).uri IN
          Then(th, IF Open(u) THEN <<CallOn("analyze", u, docs[u])>> ELSE <<>>)
    /\ UNCHANGED <<inputVars, kubernetes, lintTimers, publishVars, renderedVars,
                   showVars, pipelineVars>>

\* The lint timer callback after it has taken itself out of lintTimers: it reads
\* the store, and publishes what it finds.
GetDoc(th) ==
    /\ Runs(th, "getDoc")
    /\ LET u == Top(th).uri IN
          Then(th, IF Open(u) THEN PublishDiagnostics(u, docs[u]) ELSE <<>>)
    /\ UNCHANGED <<inputVars, kubernetes, lintTimers, publishVars, renderedVars,
                   showVars, pipelineVars>>

\* Mutant of Show: it looks again until there is an output.
ShowPolls(th) ==
    /\ Runs(th, "show")
    /\ Then(th, <<Call(IF Viewable(Top(th).uri) THEN "writeTemp" ELSE "show", Top(th).uri)>>)
    /\ UNCHANGED <<inputVars, kubernetes, lintTimers, publishVars, renderedVars,
                   showVars, pipelineVars>>

\* showInEditor reads the rendered output under rendMu ...
Show(th) ==
    /\ Runs(th, "show")
    /\ Then(th, IF Viewable(Top(th).uri) THEN <<Call("writeTemp", Top(th).uri)>> ELSE <<>>)
    /\ UNCHANGED <<inputVars, kubernetes, lintTimers, publishVars, renderedVars,
                   showVars, pipelineVars>>

\* ... and writes it to a file named after the URI.
WriteTemp(th) ==
    /\ Runs(th, "writeTemp")
    /\ temps' = temps \cup {Top(th).uri}
    /\ Then(th, <<>>)
    /\ UNCHANGED <<inputVars, kubernetes, lintTimers, publishVars, renderedVars,
                   pendingShow, pipelineVars>>

ThreadStep(th) ==
    \/ Analyze(th) \/ Schedule(th) \/ Notify(th) \/ StoreRendered(th)
    \/ ServeShow(th) \/ SchedulePublish(th) \/ GetDoc(th) \/ Show(th) \/ WriteTemp(th)

-----------------------------------------------------------------------------
(* Timers and goroutines.                                                  *)

\* A lint timer fires and takes itself out of lintTimers, under lintMu.  A timer
\* that was replaced finds another one there and does nothing.
LintTimerFires(u) ==
    /\ u \in lintTimers
    /\ lintTimers' = lintTimers \ {u}
    /\ \E w \in Worker :
          /\ todo[w] = <<>>
          /\ todo' = [todo EXCEPT ![w] = <<Call("getDoc", u)>>]
    /\ UNCHANGED <<inputVars, kubernetes, publishVars, renderedVars, showVars,
                   pipelineVars>>

\* The render goroutine, outside and inside Pipeline.mu; after its writeback it
\* goes on to Notify.
RenderStep(j) ==
    /\ \/ /\ Pipeline!Fire(j) \/ Pipeline!Drop(j)
          /\ UNCHANGED todo
       \/ /\ Pipeline!Writeback(j)
          /\ todo' = [todo EXCEPT ![j] =
                        <<[Call("notify", jobs[j].uri) EXCEPT !.arg = j]>>]
    /\ UNCHANGED <<inputVars, kubernetes, lintTimers, publishVars, renderedVars, showVars>>

\* schedulePublish's goroutine: lint.Document, which may wait for a schema, then
\* the rendered diagnostics under rendMu.
Collect(p) ==
    /\ ~p.collected
    /\ publishing' = (publishing \ {p}) \cup
          {[p EXCEPT !.collected = TRUE, !.rendered = renderedDiags[p.uri]]}
    /\ UNCHANGED <<inputVars, kubernetes, lintTimers, pubSeq, pubCounter, client,
                   renderedVars, showVars, todo, pipelineVars>>

\* Then the check and the notification, both under pubMu.
Send(p) ==
    /\ p.collected
    /\ publishing' = publishing \ {p}
    /\ client' = IF Superseded(p) THEN client
                 ELSE [client EXCEPT ![p.uri] =
                          [seq |-> p.seq,
                           shown |-> [version |-> p.version, rendered |-> p.rendered]]]
    /\ UNCHANGED <<inputVars, kubernetes, lintTimers, pubSeq, pubCounter,
                   renderedVars, showVars, todo, pipelineVars>>

-----------------------------------------------------------------------------
\* Nothing is under way: the server waits for the next message.
Settled ==
    /\ \A th \in Thread : todo[th] = <<>>
    /\ lintTimers = {} /\ publishing = {}
    /\ \A j \in Job : jobs[j] = None

Message ==
    \/ \E u \in Uri, t \in Text : DidOpen(u, t) \/ DidChange(u, t)
    \/ \E u \in Uri : DidClose(u) \/ ExecuteCommand(u)
    \/ DidChangeWatchedFiles \/ DidChangeConfig

Next ==
    \/ Message
    \/ LoopStep
    \/ \E th \in Thread : ThreadStep(th)
    \/ \E u \in Uri : LintTimerFires(u)
    \/ \E j \in Job : RenderStep(j)
    \/ \E p \in publishing : Collect(p) \/ Send(p)
    \/ Settled /\ UNCHANGED vars

Safe == Init /\ [][Next]_vars

\* Every thread runs on, timers fire, renders end (their context expires) and
\* schema fetches end (the HTTP client has a timeout).  Messages need not come.
Fairness ==
    /\ WF_vars(LoopStep)
    /\ \A th \in Thread : WF_vars(ThreadStep(th))
    /\ \A u \in Uri : WF_vars(LintTimerFires(u))
    /\ \A j \in Job : WF_vars(RenderStep(j))
    /\ WF_vars(\E p \in publishing : Collect(p) \/ Send(p))

Spec == Safe /\ Fairness

-----------------------------------------------------------------------------
\* The state keeps its types, that of the pipeline included: every render is of a
\* text there is something to render in.
TypeOK ==
    /\ docs \in [Uri -> Document \cup {None}]
    /\ kubernetes \in BOOLEAN
    /\ lintTimers \subseteq Uri /\ pendingShow \subseteq Uri /\ temps \subseteq Uri
    /\ pubCounter \in Nat /\ pubSeq \in [Uri -> Nat]
    /\ publishing \subseteq Publish
    /\ renderedDiags \in [Uri -> Result \cup {None}]
    /\ renderedRaw \in [Uri -> Output \cup {None}]
    /\ renderedBaseline \in [Uri -> Output \cup {None}]
    /\ client \in [Uri -> [seq : Nat, shown : Shown \cup {None}]]
    /\ todo \in [Thread -> Seq(Frame)]
    /\ edits \in 0..MaxEdits /\ requests \in 0..MaxRequests
    /\ Pipeline!TypeOK

\* didClose is past all the calls that forget the document.
Closed(u) ==
    /\ ~Open(u)
    /\ \A i \in DOMAIN todo[Loop] : todo[Loop][i].uri # u

\* A closed document leaves nothing behind, whatever renders, timers and
\* publishes were under way for it: no diagnostics in the editor, no rendered
\* state, no publish that could still match, no timer and no deferred show.
ClosedIsForgotten ==
    \A u \in Uri : Closed(u) =>
        /\ client[u].shown = None
        /\ pubSeq[u] = 0
        /\ renderedDiags[u] = None /\ renderedRaw[u] = None /\ renderedBaseline[u] = None
        /\ u \notin lintTimers /\ u \notin pendingShow

\* server.go:70-72, the sequence is never reused: what the client is sent for a
\* URI comes in the order it was scheduled, across close and reopen too.
PublishesInOrder ==
    [][\A u \in Uri : client'[u] # client[u] /\ client'[u].shown # None
                        => client'[u].seq > client[u].seq]_vars

\* The newest publish is never the one that is dropped.
NewestPublishDelivered ==
    Settled => \A u \in Uri : Open(u) => client[u].seq = pubSeq[u] /\ pubSeq[u] # 0

\* server.go:456-486, Notify stores its diagnostics before it schedules the
\* publish that carries them: the client ends up with the stored ones, whoever
\* stored them and in whatever order the publishes ran.
StoredRenderShown ==
    Settled => \A u \in Uri : Open(u) => client[u].shown.rendered = renderedDiags[u]

\* showdocument.go:22-38, a show command that found no output is served once a
\* render reports: the request is noted before the render is scheduled and no
\* edit, superseded render or report that was under way loses it.
DeferredShowServed ==
    Settled /\ kubernetes /\ registry # None =>
        \A u \in pendingShow : Open(u) => docs[u].text \notin Renderable

\* The baseline a diff is taken against stays what it is while the document is
\* open.
BaselineKept ==
    [][\A u \in Uri : renderedBaseline[u] # None /\ Open(u) /\ Open(u)'
                        => renderedBaseline'[u] = renderedBaseline[u]]_vars

\* When no more messages come, every thread, timer and goroutine comes to rest:
\* nothing waits for ever on anything.
EventuallySettles == []<>Settled

\* didChange has applied an edit, which has not got beyond its debounce timer.
Debounced(u) == u \in lintTimers \/ (Runs(Loop, "debounce") /\ Top(Loop).uri = u)

\* server.go:572-583, an edit goes to the debounce timer, from there to its callback,
\* the pipeline and schedulePublish: the edited version gets to a publish of its own,
\* unless a newer one takes its place or the document is closed.
EditsArePublished ==
    \A u \in Uri, v \in 1..MaxEdits :
        (Debounced(u) /\ Open(u) /\ docs[u].version = v) ~>
            \/ ~Open(u) \/ docs[u].version # v
            \/ \E p \in publishing : p.uri = u /\ p.version = v

-----------------------------------------------------------------------------
(* What the comments say and the code does not do.                         *)

\* pipeline.go:94-97, superseding keeps an older render from overwriting the
\* current diagnostics with results for old text.
RenderOfCurrentText ==
    Settled /\ kubernetes /\ registry # None => \A u \in Uri :
        Open(u) /\ docs[u].text \in Renderable => renderedDiags[u].of = docs[u].text

\* server.go:516-517, the sequence guard drops a result superseded by a newer
\* edit.
NewestVersionShown ==
    Settled => \A u \in Uri : Open(u) => client[u].shown.version = docs[u].version

\* pipeline.go:53, Schedule is only invoked from goroutines that are not the
\* message loop, so Notify never blocks it.
NotifyOffTheLoop == ~Runs(Loop, "store")

\* pipeline.go:160-161, neither map of the pipeline retains entries for files no
\* longer open.
PipelineBoundedByOpen ==
    Settled => \A u \in Uri : ~Open(u) => pending[u] = None /\ cache[u] = None

\* showdocument.go:114, a closed document's temp files are deleted.
NoTempsOfClosed == Settled => temps \subseteq OpenUris

\* README.md:19-20, with Kubernetes support disabled the server is a generic YAML
\* language server: no diagnostics of rendered manifests.
NoRenderWhenDisabled ==
    Settled /\ ~kubernetes =>
        \A u \in Uri : Open(u) => client[u].shown.rendered = None

\* README.md:397-398, the diff is against the open-time render.
BaselineIsARender == \A u \in Uri : renderedBaseline[u] # Empty
=============================================================================
