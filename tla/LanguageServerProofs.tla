------------------------ MODULE LanguageServerProofs ------------------------
(***************************************************************************)
(* Proofs about LanguageServer, for any documents, texts, renderers,       *)
(* renders in flight and timers, and any bound on the messages.            *)
(***************************************************************************)
EXTENDS LanguageServer, FiniteSetTheorems, SequenceTheorems, TLAPS

\* What is proved of the pipeline holds of the server's.
PipelineProofs == INSTANCE RenderPipelineProofs WITH Text <- Renderable, MaxEpoch <- MaxRequests

USE NoneAssumption, TextAssumption, BoundAssumption, ThreadAssumption

-----------------------------------------------------------------------------
(* The continuations.                                                      *)

\* What any thread may be running, with what its code has at hand.
ThreadFrame ==
    {f \in Frame :
        /\ f.do \in {"analyze", "schedule", "publish", "notify", "store", "serveShow",
                     "getDoc", "show", "writeTemp"}
        /\ f.uri \in Uri
        /\ f.do \in {"analyze", "publish", "store", "serveShow"} => f.doc \in Document
        /\ f.do \in {"schedule", "notify"} => f.arg \in Job
        /\ f.do = "store" => f.arg \in Result}

\* What the message loop runs when it is not closing a document: documents it
\* publishes are open, and stay so until it takes the next message.
LoopFrame ==
    {f \in ThreadFrame : Open(f.uri)} \cup
    {f \in Frame : f.do = "debounce" /\ f.uri \in Uri /\ Open(f.uri)} \cup
    {f \in Frame : f.do = "setPending" /\ f.uri \in Uri} \cup
    {f \in Frame : f.do \in {"enable", "disable", "configure", "invalidate"} /\ f.uri = None}

\* The order in which didClose forgets a document.
CloseDo == <<"cancelDebounce", "forgetPublish", "cancelRender", "clearRender", "takeShow",
             "clearDiagnostics", "removeTemps">>

\* What is left of didClose before its k-th call; nothing before the eighth.
CloseRest(u, k) == [i \in 1..(8 - k) |-> Call(CloseDo[k + i - 1], u)]

Continuations ==
    /\ \/ todo[Loop] \in Seq(LoopFrame)
       \/ \E u \in Uri, k \in 1..7 : ~Open(u) /\ todo[Loop] = CloseRest(u, k)
    /\ \A th \in Job \cup Worker : todo[th] \in Seq(ThreadFrame)

\* The goroutine of a render runs nothing else until its writeback.
RendersAlone ==
    \A j \in Job : jobs[j] # None /\ jobs[j].phase # "reporting" => todo[j] = <<>>

\* Thread th has such a frame still to run.
Has(th, do, u) == \E i \in DOMAIN todo[th] : todo[th][i].do = do /\ todo[th][i].uri = u

-----------------------------------------------------------------------------
(* The parts of the invariant.                                             *)

\* What is gone of a document when didClose is about to make its k-th call.
Forgotten(u, k) ==
    /\ k > 1 => u \notin lintTimers
    /\ k > 2 => pubSeq[u] = 0 /\ \A p \in publishing : p.uri # u
    /\ k > 4 => renderedDiags[u] = None /\ renderedRaw[u] = None /\ renderedBaseline[u] = None
    /\ k > 5 => u \notin pendingShow
    /\ k > 6 => client[u].shown = None

Forgetting ==
    \A u \in Uri : ~Open(u) =>
        \E k \in 1..8 : Forgotten(u, k) /\ (k < 8 => todo[Loop] = CloseRest(u, k))

\* There is at most one publish on its way for a URI, the newest, and the client
\* has only older ones.
Publishes ==
    /\ \A p \in publishing : p.seq = pubSeq[p.uri] /\ client[p.uri].seq < p.seq
    /\ \A p, q \in publishing : p.uri = q.uri => p = q
    /\ \A u \in Uri : pubSeq[u] <= pubCounter /\ client[u].seq <= pubCounter

\* The newest publish of an open document has come to the client or is on its way.
Delivering ==
    \A u \in Uri : Open(u) =>
        /\ pubSeq[u] = 0 => Has(Loop, "publish", u)
        /\ pubSeq[u] # 0 => client[u].seq = pubSeq[u] \/ \E p \in publishing : p.uri = u

\* A thread is about to schedule a publish of the document.
Coming(u) == \E th \in Thread : Has(th, "serveShow", u) \/ Has(th, "publish", u)

\* The stored diagnostics of an open document have come to the client, are on
\* their way, or a publish will be scheduled that collects them.
Showing ==
    \A u \in Uri : Open(u) =>
        \/ Coming(u)
        \/ \E p \in publishing :
              p.uri = u /\ (p.collected => p.rendered = renderedDiags[u])
        \/ /\ \A p \in publishing : p.uri # u
           /\ client[u].shown.rendered = renderedDiags[u]

Types ==
    /\ TypeOK /\ IsFiniteSet(OpenUris)
    /\ Continuations /\ RendersAlone

Inv == Types /\ Forgetting /\ Publishes /\ Delivering /\ Showing

-----------------------------------------------------------------------------
(* Running a frame.                                                        *)

\* Thread th ran its frame and goes on with fs; a thread that was idle may have
\* been given something to run.
Ran(th, fs) ==
    /\ todo'[th] = fs \o Tail(todo[th])
    /\ \A t \in Thread \ {th} : todo'[t] = todo[t] \/ todo[t] = <<>>

\* Frame f is one of those in s.
Among(f, s) == \E k \in DOMAIN s : s[k] = f

\* What is left after a frame, and what it goes on with, are still frames to run.
LEMMA Prepend ==
    ASSUME NEW S, NEW s \in Seq(S), s # <<>>, NEW fs \in Seq(S)
    PROVE  /\ Head(s) \in S
           /\ fs \o Tail(s) \in Seq(S)
           /\ \A i \in DOMAIN fs : Among(fs[i], fs \o Tail(s))
           /\ \A i \in DOMAIN s : i # 1 => Among(s[i], fs \o Tail(s))
           /\ 1 \in DOMAIN s /\ s[1] = Head(s)
<1>1. /\ Head(s) \in S /\ Tail(s) \in Seq(S) /\ Len(Tail(s)) = Len(s) - 1
      /\ \A i \in 1..Len(Tail(s)) : Tail(s)[i] = s[i + 1]
  BY HeadTailProperties
<1> DEFINE t == Tail(s)
<1> HIDE DEF t
<1>2. /\ fs \o t \in Seq(S)
      /\ Len(fs \o t) = Len(fs) + Len(t)
      /\ \A i \in 1..(Len(fs) + Len(t)) : (fs \o t)[i] = IF i <= Len(fs) THEN fs[i]
                                                         ELSE t[i - Len(fs)]
  BY <1>1, ConcatProperties DEF t
<1>3. Len(fs) \in Nat /\ Len(t) \in Nat /\ Len(s) \in Nat /\ Len(t) = Len(s) - 1
  BY <1>1 DEF t
<1>4. DOMAIN (fs \o t) = 1..(Len(fs) + Len(t)) /\ DOMAIN fs = 1..Len(fs) /\ DOMAIN s = 1..Len(s)
  BY <1>2
<1>5. ASSUME NEW i \in DOMAIN fs PROVE \E k \in DOMAIN (fs \o t) : (fs \o t)[k] = fs[i]
  <2>1. i \in 1..(Len(fs) + Len(t)) /\ (fs \o t)[i] = fs[i] BY <1>2, <1>3, <1>4
  <2> QED BY <1>4, <2>1
<1>6. ASSUME NEW i \in DOMAIN s, i # 1 PROVE \E k \in DOMAIN (fs \o t) : (fs \o t)[k] = s[i]
  <2> DEFINE k == Len(fs) + i - 1
  <2>1. k \in 1..(Len(fs) + Len(t)) /\ ~(k <= Len(fs)) /\ k - Len(fs) = i - 1
        /\ i - 1 \in 1..Len(t)
    BY <1>3, <1>4, <1>6
  <2>2. t[i - 1] = s[i] BY <1>1, <1>3, <1>4, <1>6, <2>1 DEF t
  <2>3. (fs \o t)[k] = s[i] BY <1>2, <2>1, <2>2
  <2> HIDE DEF k
  <2> QED BY <1>4, <2>1, <2>3
<1>7. 1 \in DOMAIN s /\ s[1] = Head(s) BY <1>3, <1>4
<1> QED BY <1>1, <1>2, <1>5, <1>6, <1>7 DEF t, Among

\* What a step of a thread makes of the continuations.
LEMMA ThenStep ==
    ASSUME TypeOK, NEW th \in Thread, todo[th] # <<>>, NEW fs \in Seq(Frame), Then(th, fs)
    PROVE  /\ todo' \in [Thread -> Seq(Frame)]
           /\ Ran(th, fs)
           /\ \A t \in Thread \ {th} : todo'[t] = todo[t]
<1>1. todo \in [Thread -> Seq(Frame)] /\ todo[th] \in Seq(Frame) BY DEF TypeOK
<1>2. fs \o Tail(todo[th]) \in Seq(Frame) BY <1>1, Prepend
<1> QED BY <1>1, <1>2 DEF Then, Ran

\* The same when it starts a goroutine.
LEMMA ThenGoStep ==
    ASSUME TypeOK, NEW th \in Thread, todo[th] # <<>>, NEW fs \in Seq(Frame),
           NEW gs \in Seq(Frame), ThenGo(th, fs, gs)
    PROVE  /\ todo' \in [Thread -> Seq(Frame)]
           /\ Ran(th, fs)
           /\ \E w \in Worker \ {th} : /\ todo[w] = <<>> /\ todo'[w] = gs
                                       /\ \A t \in Thread \ {th, w} : todo'[t] = todo[t]
<1>1. todo \in [Thread -> Seq(Frame)] /\ todo[th] \in Seq(Frame) BY DEF TypeOK
<1>2. fs \o Tail(todo[th]) \in Seq(Frame) BY <1>1, Prepend
<1>3. PICK w \in Worker : /\ todo[w] = <<>>
                          /\ todo' = [todo EXCEPT ![th] = fs \o Tail(@), ![w] = gs]
  BY DEF ThenGo
<1>4. w # th /\ w \in Thread BY <1>3 DEF Thread
<1>5. /\ todo' \in [Thread -> Seq(Frame)]
      /\ todo'[th] = fs \o Tail(todo[th]) /\ todo'[w] = gs
      /\ \A t \in Thread \ {th, w} : todo'[t] = todo[t]
  BY <1>1, <1>2, <1>3, <1>4
<1> QED BY <1>3, <1>4, <1>5 DEF Ran

\* The frames a step leaves to be run.
LEMMA HasStep ==
    ASSUME TypeOK, NEW th \in Thread, todo[th] # <<>>, NEW fs \in Seq(Frame), Ran(th, fs)
    PROVE  /\ \A t \in Thread : \A do, u :
                 Has(t, do, u) /\ ~(t = th /\ Top(th).do = do /\ Top(th).uri = u)
                    => Has(t, do, u)'
           /\ \A i \in DOMAIN fs : Has(th, fs[i].do, fs[i].uri)'
<1> DEFINE s == todo[th]
           r == fs \o Tail(s)
<1>1. s \in Seq(Frame) /\ s # <<>> /\ fs \in Seq(Frame) BY DEF TypeOK
<1>2. /\ \A i \in DOMAIN fs : Among(fs[i], r)
      /\ \A i \in DOMAIN s : i # 1 => Among(s[i], r)
      /\ s[1] = Head(s)
  <2> HIDE DEF s
  <2> QED BY <1>1, Prepend
<1>3. todo'[th] = r BY DEF Ran
<1> HIDE DEF r
<1>4. \A i \in DOMAIN fs : Has(th, fs[i].do, fs[i].uri)' BY <1>2, <1>3 DEF Has, Among
<1>5. ASSUME NEW t \in Thread, NEW do, NEW u,
             Has(t, do, u), ~(t = th /\ Top(th).do = do /\ Top(th).uri = u)
      PROVE  Has(t, do, u)'
  <2>1. CASE t = th
    <3>1. PICK i \in DOMAIN s : s[i].do = do /\ s[i].uri = u BY <1>5, <2>1 DEF Has
    <3>2. i # 1 BY <1>2, <1>5, <2>1, <3>1 DEF Top
    <3>3. PICK k \in DOMAIN r : r[k] = s[i] BY <1>2, <3>1, <3>2 DEF Among
    <3> QED BY <1>3, <2>1, <3>1, <3>3 DEF Has
  <2>2. CASE t # th
    <3>1. todo[t] # <<>> BY <1>5 DEF Has
    <3>2. todo'[t] = todo[t] BY <2>2, <3>1 DEF Ran
    <3> QED BY <1>5, <3>2 DEF Has
  <2> QED BY <2>1, <2>2
<1> QED BY <1>4, <1>5

-----------------------------------------------------------------------------
(* What threads may be running.                                            *)

ThreadDo == {"analyze", "schedule", "publish", "notify", "store", "serveShow",
             "getDoc", "show", "writeTemp"}
Closing == {"cancelDebounce", "forgetPublish", "cancelRender", "clearRender", "takeShow",
            "clearDiagnostics", "removeTemps"}

\* The calls that are left of didClose.
LEMMA CloseRestFacts ==
    ASSUME NEW u \in Uri, NEW k \in 1..7
    PROVE  /\ CloseRest(u, k) # <<>>
           /\ Head(CloseRest(u, k)) = Call(CloseDo[k], u)
           /\ Tail(CloseRest(u, k)) = CloseRest(u, k + 1)
           /\ CloseDo[k] \in Closing
           /\ CloseRest(u, k) \in Seq(Frame)
           /\ \A i \in DOMAIN CloseRest(u, k) :
                 CloseRest(u, k)[i].uri = u /\ CloseRest(u, k)[i].do \in Closing
           /\ 1 \in DOMAIN CloseRest(u, k)
<1>1. \A i \in 1..7 : CloseDo[i] \in Closing BY DEF CloseDo, Closing
<1>2. \A i \in 1..(8 - k) : k + i - 1 \in 1..7 OBVIOUS
<1>3. \A do \in Closing : Call(do, u) \in Frame /\ Call(do, u).do = do /\ Call(do, u).uri = u
  BY DEF Call, Closing, Frame, Do
<1> DEFINE c == CloseRest(u, k)
<1>4. c = [i \in 1..(8 - k) |-> Call(CloseDo[k + i - 1], u)] BY DEF CloseRest
<1>5. ASSUME NEW i \in 1..(8 - k)
      PROVE  /\ c[i] = Call(CloseDo[k + i - 1], u)
             /\ c[i] \in Frame /\ c[i].uri = u /\ c[i].do \in Closing
  <2>1. c[i] = Call(CloseDo[k + i - 1], u) BY <1>4
  <2>2. CloseDo[k + i - 1] \in Closing BY <1>1, <1>2
  <2> QED BY <1>3, <2>1, <2>2
<1>6. DOMAIN c = 1..(8 - k) BY <1>4
<1>7. c \in Seq(Frame) /\ Len(c) = 8 - k
  <2>1. c \in [1..(8 - k) -> Frame] BY <1>4, <1>5
  <2>2. 8 - k \in Nat OBVIOUS
  <2> QED BY <2>1, <2>2
<1> HIDE DEF c
<1>8. c # <<>> /\ Head(c) = c[1] /\ 1 \in 1..(8 - k) BY <1>6, <1>7
<1>9. c[1] = Call(CloseDo[k], u) BY <1>5, <1>8
<1>10. Tail(c) = CloseRest(u, k + 1)
  <2> DEFINE s == CloseRest(u, k + 1)
  <2>1. s = [i \in 1..(8 - (k + 1)) |-> Call(CloseDo[k + 1 + i - 1], u)] BY DEF CloseRest
  <2>2. 8 - (k + 1) = 7 - k /\ 7 - k \in Nat OBVIOUS
  <2>3. ASSUME NEW i \in 1..(7 - k) PROVE s[i] = c[i + 1] /\ s[i] \in Frame
    <3>1. s[i] = Call(CloseDo[k + 1 + i - 1], u) BY <2>1, <2>2
    <3>2. i + 1 \in 1..(8 - k) /\ k + (i + 1) - 1 = k + 1 + i - 1 OBVIOUS
    <3>3. c[i + 1] = Call(CloseDo[k + (i + 1) - 1], u) /\ c[i + 1] \in Frame BY <1>5, <3>2
    <3> QED BY <3>1, <3>2, <3>3
  <2>4. s \in [1..(7 - k) -> Frame] BY <2>1, <2>2, <2>3
  <2>5. s \in Seq(Frame) /\ Len(s) = 7 - k BY <2>2, <2>4
  <2> HIDE DEF s
  <2>6. /\ Tail(c) \in Seq(Frame) /\ Len(Tail(c)) = Len(c) - 1
        /\ \A i \in 1..Len(Tail(c)) : Tail(c)[i] = c[i + 1]
    BY <1>7, <1>8, HeadTailProperties
  <2>7. Len(Tail(c)) = 7 - k BY <1>7, <2>6
  <2>8. \A i \in 1..Len(s) : Tail(c)[i] = s[i] BY <2>3, <2>5, <2>6, <2>7
  <2> QED BY <2>5, <2>6, <2>7, <2>8, SeqEqual DEF s
<1> QED BY <1>1, <1>5, <1>6, <1>7, <1>8, <1>9, <1>10 DEF c

\* The message loop is closing a document, or it is not.
LEMMA LoopTop ==
    ASSUME Types, todo[Loop] # <<>>
    PROVE  \/ /\ Top(Loop).do \notin Closing
              /\ todo[Loop] \in Seq(LoopFrame) /\ Top(Loop) \in LoopFrame
              /\ \A u \in Uri, k \in 1..7 : todo[Loop] # CloseRest(u, k)
           \/ \E u \in Uri, k \in 1..7 :
                 /\ ~Open(u) /\ todo[Loop] = CloseRest(u, k)
                 /\ Top(Loop) = Call(CloseDo[k], u) /\ Top(Loop).do \in Closing
<1>1. CASE todo[Loop] \in Seq(LoopFrame)
  <2>1. Top(Loop) \in LoopFrame BY <1>1, Prepend, EmptySeq DEF Top
  <2>2. Top(Loop).do \notin Closing BY <2>1, Zenon DEF LoopFrame, ThreadFrame, Closing
  <2>3. ASSUME NEW u \in Uri, NEW k \in 1..7, todo[Loop] = CloseRest(u, k) PROVE FALSE
    <3>1. Top(Loop) = Call(CloseDo[k], u) /\ CloseDo[k] \in Closing
      BY <2>3, CloseRestFacts DEF Top
    <3>2. Top(Loop).do \in Closing BY <3>1 DEF Call
    <3> QED BY <2>2, <3>2
  <2> QED BY <1>1, <2>1, <2>2, <2>3
<1>2. CASE \E u \in Uri, k \in 1..7 : ~Open(u) /\ todo[Loop] = CloseRest(u, k)
  <2>1. PICK u \in Uri, k \in 1..7 : ~Open(u) /\ todo[Loop] = CloseRest(u, k) BY <1>2
  <2>2. Top(Loop) = Call(CloseDo[k], u) /\ CloseDo[k] \in Closing
    BY <2>1, CloseRestFacts DEF Top
  <2>3. Top(Loop).do \in Closing BY <2>2 DEF Call
  <2> QED BY <2>1, <2>2, <2>3
<1> QED BY <1>1, <1>2 DEF Types, Continuations

\* A frame any thread may run, run by one.
LEMMA ThreadTop ==
    ASSUME Types, NEW th \in Thread, todo[th] # <<>>, Top(th).do \in ThreadDo
    PROVE  /\ Top(th) \in ThreadFrame /\ Top(th).uri \in Uri
           /\ th = Loop => Open(Top(th).uri) /\ todo[Loop] \in Seq(LoopFrame)
           /\ th # Loop => todo[th] \in Seq(ThreadFrame)
<1>1. CASE th = Loop
  <2>1. ThreadDo \cap Closing = {} BY DEF ThreadDo, Closing
  <2>2. Top(Loop) \in LoopFrame /\ todo[Loop] \in Seq(LoopFrame) BY <1>1, <2>1, LoopTop
  <2>3. Top(Loop) \in ThreadFrame /\ Open(Top(Loop).uri)
    BY <1>1, <2>2, Zenon DEF LoopFrame, ThreadDo
  <2>4. Top(Loop).uri \in Uri BY <2>3 DEF ThreadFrame
  <2> QED BY <1>1, <2>2, <2>3, <2>4
<1>2. CASE th # Loop
  <2>1. todo[th] \in Seq(ThreadFrame) BY <1>2 DEF Types, Continuations, Thread
  <2>2. Top(th) \in ThreadFrame BY <2>1, Prepend, EmptySeq DEF Top
  <2>3. Top(th).uri \in Uri BY <2>2 DEF ThreadFrame
  <2> QED BY <1>2, <2>1, <2>2, <2>3
<1> QED BY <1>1, <1>2

\* A thread goes on with frames of the same document, and may start a goroutine.
LEMMA Continues ==
    ASSUME Types, NEW th \in Thread, todo[th] # <<>>, Top(th).do \in ThreadDo,
           NEW fs \in Seq(ThreadFrame), \A i \in DOMAIN fs : fs[i].uri = Top(th).uri,
           Then(th, fs) \/ \E f \in ThreadFrame : ThenGo(th, fs, <<f>>),
           UNCHANGED docs
    PROVE  /\ todo' \in [Thread -> Seq(Frame)] /\ Continuations'
           /\ Ran(th, fs)
           /\ \A j \in Job : todo[j] = <<>> => todo'[j] = <<>>
           /\ th # Loop => todo'[Loop] = todo[Loop]
<1>1. ThreadFrame \subseteq Frame BY DEF ThreadFrame
<1>2. fs \in Seq(Frame) BY <1>1
<1>3. TypeOK BY DEF Types
<1>4. /\ todo' \in [Thread -> Seq(Frame)] /\ Ran(th, fs)
      /\ \A t \in Thread \ {th} : \/ todo'[t] = todo[t]
                                  \/ t \in Worker /\ todo'[t] \in Seq(ThreadFrame)
  <2>1. CASE Then(th, fs) BY <1>2, <1>3, <2>1, ThenStep
  <2>2. CASE \E f \in ThreadFrame : ThenGo(th, fs, <<f>>)
    <3>1. PICK f \in ThreadFrame : ThenGo(th, fs, <<f>>) BY <2>2
    <3> DEFINE gs == <<f>>
    <3>2. gs \in Seq(Frame) /\ gs \in Seq(ThreadFrame) /\ ThenGo(th, fs, gs) BY <1>1, <3>1
    <3> HIDE DEF gs
    <3>3. /\ todo' \in [Thread -> Seq(Frame)] /\ Ran(th, fs)
          /\ \E w \in Worker \ {th} :
                /\ todo[w] = <<>> /\ todo'[w] = gs
                /\ \A t \in Thread \ {th, w} : todo'[t] = todo[t]
      BY <1>2, <1>3, <3>2, ThenGoStep
    <3> QED BY <3>2, <3>3
  <2> QED BY <2>1, <2>2
<1>5. th # Loop => todo'[Loop] = todo[Loop] BY <1>4 DEF Thread
<1>6. ASSUME NEW j \in Job, todo[j] = <<>> PROVE todo'[j] = <<>>
  BY <1>4, <1>6 DEF Thread
<1>7. ASSUME NEW t \in Job \cup Worker PROVE todo'[t] \in Seq(ThreadFrame)
  <2>1. todo[t] \in Seq(ThreadFrame) /\ t \in Thread /\ t # Loop
    BY DEF Types, Continuations, Thread
  <2>2. CASE t = th
    <3>1. todo[th] \in Seq(ThreadFrame) BY <2>1, <2>2
    <3>2. fs \o Tail(todo[th]) \in Seq(ThreadFrame) BY <3>1, Prepend
    <3> QED BY <1>4, <2>2, <3>2 DEF Ran
  <2> QED BY <1>4, <2>1, <2>2
<1>8. CASE th = Loop
  <2>1. Open(Top(th).uri) /\ todo[th] \in Seq(LoopFrame) BY <1>8, ThreadTop
  <2>2. \A i \in DOMAIN fs : fs[i] \in LoopFrame
    <3> SUFFICES ASSUME NEW i \in DOMAIN fs PROVE fs[i] \in LoopFrame OBVIOUS
    <3>1. fs[i] \in ThreadFrame /\ Open(fs[i].uri) BY <2>1
    <3> QED BY <3>1 DEF LoopFrame
  <2>3. fs \in Seq(LoopFrame) BY <2>2
  <2>4. fs \o Tail(todo[th]) \in Seq(LoopFrame) BY <2>1, <2>3, Prepend
  <2>5. LoopFrame' = LoopFrame BY DEF LoopFrame, Open
  <2>6. todo'[Loop] \in Seq(LoopFrame') BY <1>4, <1>8, <2>4, <2>5 DEF Ran
  <2> QED BY <1>4, <1>5, <1>6, <1>7, <1>8, <2>6 DEF Continuations
<1>9. CASE th # Loop
  <2>1. LoopFrame' = LoopFrame BY DEF LoopFrame, Open
  <2>2. CASE todo[Loop] \in Seq(LoopFrame)
    BY <1>4, <1>5, <1>6, <1>7, <1>9, <2>1, <2>2 DEF Continuations
  <2>3. CASE \E u \in Uri, k \in 1..7 : ~Open(u) /\ todo[Loop] = CloseRest(u, k)
    <3>1. PICK u \in Uri, k \in 1..7 : ~Open(u) /\ todo[Loop] = CloseRest(u, k) BY <2>3
    <3>2. ~Open(u)' /\ todo'[Loop] = CloseRest(u, k) BY <1>5, <1>9, <3>1 DEF Open
    <3>3. CloseRest(u, k)' = CloseRest(u, k) BY DEF CloseRest
    <3> QED BY <1>4, <1>5, <1>6, <1>7, <1>9, <3>2, <3>3 DEF Continuations
  <2> QED BY <2>2, <2>3 DEF Types, Continuations
<1> QED BY <1>8, <1>9

\* The message loop goes on with what is left.
LEMMA LoopGoesOn ==
    ASSUME Types, todo[Loop] # <<>>, Then(Loop, <<>>), UNCHANGED docs
    PROVE  /\ todo' \in [Thread -> Seq(Frame)] /\ Continuations'
           /\ Ran(Loop, <<>>)
           /\ todo'[Loop] = Tail(todo[Loop])
           /\ \A t \in Thread \ {Loop} : todo'[t] = todo[t]
<1>1. Loop \in Thread /\ <<>> \in Seq(Frame) BY DEF Thread
<1>2. /\ todo' \in [Thread -> Seq(Frame)] /\ Ran(Loop, <<>>)
      /\ \A t \in Thread \ {Loop} : todo'[t] = todo[t]
  BY <1>1, ThenStep DEF Types
<1>3. todo[Loop] \in Seq(Frame) BY <1>1 DEF Types, TypeOK
<1>4. Tail(todo[Loop]) \in Seq(Frame) BY <1>3, HeadTailProperties
<1>5. todo'[Loop] = Tail(todo[Loop]) BY <1>2, <1>4, ConcatEmptySeq DEF Ran
<1>6. \A t \in Job \cup Worker : todo'[t] \in Seq(ThreadFrame)
  BY <1>2 DEF Types, Continuations, Thread
<1>7. LoopFrame' = LoopFrame BY DEF LoopFrame, Open
<1>8. CASE todo[Loop] \in Seq(LoopFrame)
  <2>1. Tail(todo[Loop]) \in Seq(LoopFrame) BY <1>8, HeadTailProperties
  <2> QED BY <1>2, <1>5, <1>6, <1>7, <2>1 DEF Continuations
<1>9. CASE \E u \in Uri, k \in 1..7 : ~Open(u) /\ todo[Loop] = CloseRest(u, k)
  <2>1. PICK u \in Uri, k \in 1..7 : ~Open(u) /\ todo[Loop] = CloseRest(u, k) BY <1>9
  <2>2. todo'[Loop] = CloseRest(u, k + 1) BY <1>5, <2>1, CloseRestFacts
  <2>3. CASE k = 7
    <3>1. CloseRest(u, 8) = <<>> BY DEF CloseRest
    <3>2. todo'[Loop] = <<>> BY <2>2, <2>3, <3>1
    <3>3. todo'[Loop] \in Seq(LoopFrame') BY <3>2
    <3> QED BY <1>2, <1>5, <1>6, <3>3 DEF Continuations
  <2>4. CASE k # 7
    <3>1. ~Open(u)' BY <2>1 DEF Open
    <3>2. CloseRest(u, k + 1)' = CloseRest(u, k + 1) BY DEF CloseRest
    <3>3. k + 1 \in 1..7 BY <2>4
    <3> QED BY <1>2, <1>5, <1>6, <2>2, <3>1, <3>2, <3>3 DEF Continuations
  <2> QED BY <2>3, <2>4
<1> QED BY <1>2, <1>5, <1>8, <1>9 DEF Types, Continuations

\* The message loop takes a message.
LEMMA LoopTakes ==
    ASSUME Types, NEW fs \in Seq(Frame), todo' = [todo EXCEPT ![Loop] = fs],
           \/ fs \in Seq(LoopFrame')
           \/ \E u \in Uri, k \in 1..7 : ~Open(u)' /\ fs = CloseRest(u, k)
    PROVE  /\ todo' \in [Thread -> Seq(Frame)] /\ Continuations'
           /\ todo'[Loop] = fs
           /\ \A t \in Thread \ {Loop} : todo'[t] = todo[t]
<1>1. Loop \in Thread /\ todo \in [Thread -> Seq(Frame)] BY DEF Thread, Types, TypeOK
<1>2. /\ todo' \in [Thread -> Seq(Frame)] /\ todo'[Loop] = fs
      /\ \A t \in Thread \ {Loop} : todo'[t] = todo[t]
  BY <1>1
<1>3. \A t \in Job \cup Worker : todo'[t] \in Seq(ThreadFrame)
  BY <1>2 DEF Types, Continuations, Thread
<1>4. \/ todo'[Loop] \in Seq(LoopFrame')
      \/ \E u \in Uri, k \in 1..7 : ~Open(u)' /\ todo'[Loop] = CloseRest(u, k)
  BY <1>2
<1> QED BY <1>2, <1>3, <1>4 DEF Continuations, CloseRest

\* A goroutine is started and nothing else is done.
LEMMA Starts ==
    ASSUME Types, NEW w \in Job \cup Worker, todo[w] = <<>>, NEW f \in ThreadFrame,
           todo' = [todo EXCEPT ![w] = <<f>>], UNCHANGED docs
    PROVE  /\ todo' \in [Thread -> Seq(Frame)] /\ Continuations'
           /\ \A t \in Thread \ {w} : todo'[t] = todo[t]
<1>1. w \in Thread /\ todo \in [Thread -> Seq(Frame)] BY DEF Thread, Types, TypeOK
<1>2. f \in Frame BY DEF ThreadFrame
<1> DEFINE gs == <<f>>
<1>3. gs \in Seq(Frame) /\ gs \in Seq(ThreadFrame) BY <1>2
<1> HIDE DEF gs
<1>4. /\ todo' \in [Thread -> Seq(Frame)] /\ todo'[w] = gs
      /\ \A t \in Thread \ {w} : todo'[t] = todo[t]
  BY <1>1, <1>3 DEF gs
<1>5. \A t \in Job \cup Worker : todo'[t] \in Seq(ThreadFrame)
  BY <1>3, <1>4 DEF Types, Continuations, Thread
<1>6. todo'[Loop] = todo[Loop] BY <1>4 DEF Thread
<1>7. LoopFrame' = LoopFrame BY DEF LoopFrame, Open
<1>8. \/ todo'[Loop] \in Seq(LoopFrame')
      \/ \E u \in Uri, k \in 1..7 : ~Open(u)' /\ todo'[Loop] = CloseRest(u, k)
  BY <1>6, <1>7 DEF Types, Continuations, Open
<1> QED BY <1>4, <1>5, <1>8 DEF Continuations, CloseRest

-----------------------------------------------------------------------------
(* The render pipeline in the server.                                      *)

\* What the pipeline assumes of its constants holds of the server's.
LEMMA PipelineAssumptions ==
    PipelineProofs!NoneAssumption /\ PipelineProofs!MaxEpochAssumption
    /\ PipelineProofs!RecordAssumption
<1>1. PipelineProofs!NoneAssumption BY DEF PipelineProofs!NoneAssumption
<1>2. PipelineProofs!MaxEpochAssumption BY DEF PipelineProofs!MaxEpochAssumption
<1>3. PipelineProofs!RecordAssumption
  BY PipelineAssumption
  DEF PipelineProofs!RecordAssumption, PipelineProofs!JobState, PipelineProofs!CacheEntry,
      PipelineProofs!Phase, PipelineProofs!Err, Pipeline!JobState, Pipeline!CacheEntry,
      Pipeline!Phase, Pipeline!Err
<1> QED BY <1>1, <1>2, <1>3

\* The pipeline under either of its names.
LEMMA PipelineNames ==
    /\ Pipeline!Init <=> PipelineProofs!Init
    /\ [Pipeline!Next]_(Pipeline!vars) <=> [PipelineProofs!Next]_(PipelineProofs!vars)
    /\ Pipeline!TypeOK <=> PipelineProofs!TypeOK
    /\ Pipeline!PendingOwnUri <=> PipelineProofs!PendingOwnUri
    /\ Pipeline!NoOrphanTimer <=> PipelineProofs!NoOrphanTimer
    /\ Pipeline!CacheSinceInvalidation <=> PipelineProofs!CacheSinceInvalidation
    /\ Pipeline!NoContextErrCached <=> PipelineProofs!NoContextErrCached
<1>1. Pipeline!Init <=> PipelineProofs!Init BY DEF PipelineProofs!Init, Pipeline!Init
<1>2. [Pipeline!Next]_(Pipeline!vars) <=> [PipelineProofs!Next]_(PipelineProofs!vars)
  BY
  DEF PipelineProofs!Next, Pipeline!Next, PipelineProofs!JobStep, Pipeline!JobStep,
      PipelineProofs!Schedule, Pipeline!Schedule, PipelineProofs!ScheduleHit,
      Pipeline!ScheduleHit, PipelineProofs!ScheduleArm, Pipeline!ScheduleArm,
      PipelineProofs!Fire, Pipeline!Fire, PipelineProofs!Drop, Pipeline!Drop,
      PipelineProofs!Writeback, Pipeline!Writeback, PipelineProofs!Report,
      Pipeline!Report, PipelineProofs!Configure, Pipeline!Configure,
      PipelineProofs!InvalidateAll, Pipeline!InvalidateAll, PipelineProofs!Cancel,
      Pipeline!Cancel, PipelineProofs!Unused, Pipeline!Unused, PipelineProofs!Hit,
      Pipeline!Hit, PipelineProofs!Superseded, Pipeline!Superseded,
      PipelineProofs!Moved, Pipeline!Moved, PipelineProofs!Outdated, Pipeline!Outdated,
      PipelineProofs!Remembered, Pipeline!Remembered, PipelineProofs!IsContextErr,
      Pipeline!IsContextErr, PipelineProofs!Err, Pipeline!Err, PipelineProofs!vars,
      Pipeline!vars
<1>3. Pipeline!TypeOK <=> PipelineProofs!TypeOK
  BY DEF PipelineProofs!TypeOK, Pipeline!TypeOK, PipelineProofs!JobState, Pipeline!JobState,
         PipelineProofs!CacheEntry, Pipeline!CacheEntry, PipelineProofs!Phase, Pipeline!Phase,
         PipelineProofs!Err, Pipeline!Err
<1>4. /\ Pipeline!PendingOwnUri <=> PipelineProofs!PendingOwnUri
      /\ Pipeline!NoOrphanTimer <=> PipelineProofs!NoOrphanTimer
  BY DEF PipelineProofs!PendingOwnUri, Pipeline!PendingOwnUri, PipelineProofs!Live,
         Pipeline!Live, PipelineProofs!NoOrphanTimer, Pipeline!NoOrphanTimer
<1>5. /\ Pipeline!CacheSinceInvalidation <=> PipelineProofs!CacheSinceInvalidation
      /\ Pipeline!NoContextErrCached <=> PipelineProofs!NoContextErrCached
  BY DEF PipelineProofs!CacheSinceInvalidation, Pipeline!CacheSinceInvalidation,
         PipelineProofs!NoContextErrCached, Pipeline!NoContextErrCached,
         PipelineProofs!IsContextErr, Pipeline!IsContextErr
<1> QED BY <1>1, <1>2, <1>3, <1>4, <1>5

\* A step of the pipeline keeps the pipeline's types.
LEMMA PipelineTypes ==
    ASSUME Pipeline!TypeOK, [Pipeline!Next]_(Pipeline!vars)
    PROVE  Pipeline!TypeOK'
<1>1. PipelineProofs!TypeOK /\ [PipelineProofs!Next]_(PipelineProofs!vars) BY PipelineNames
<1>2. PipelineProofs!TypeOK' BY <1>1, PipelineAssumptions, PipelineProofs!TypeStep
<1>3. PipelineProofs!TypeOK' <=> Pipeline!TypeOK'
  BY DEF PipelineProofs!TypeOK, Pipeline!TypeOK, PipelineProofs!JobState, Pipeline!JobState,
         PipelineProofs!CacheEntry, Pipeline!CacheEntry, PipelineProofs!Phase, Pipeline!Phase,
         PipelineProofs!Err, Pipeline!Err
<1> QED BY <1>2, <1>3

\* What the server does to the pipeline are the pipeline's own steps.
LEMMA CallsStep ==
    ASSUME Types, [Next]_vars
    PROVE  [Pipeline!Next]_(Pipeline!vars)
<1>1. ASSUME UNCHANGED pipelineVars PROVE [Pipeline!Next]_(Pipeline!vars)
  BY <1>1 DEF pipelineVars, Pipeline!vars
<1>2. ASSUME NEW th \in Thread, Analyze(th) PROVE [Pipeline!Next]_(Pipeline!vars)
  <2>1. todo[th] # <<>> /\ Top(th).do = "analyze" /\ Top(th).do \in ThreadDo
    BY <1>2 DEF Analyze, Runs, ThreadDo
  <2>2. Top(th).uri \in Uri BY <2>1, ThreadTop
  <2>3. CASE Renders(Top(th).doc)
    <3>1. PICK j \in Job : Pipeline!Schedule(j, Top(th).uri, Top(th).doc.text)
      BY <1>2, <2>3 DEF Analyze
    <3>2. Top(th).doc.text \in Renderable BY <2>3 DEF Renders
    <3> QED BY <2>2, <3>1, <3>2 DEF Pipeline!Next
  <2>4. CASE ~Renders(Top(th).doc)
    BY <1>1, <1>2, <2>4 DEF Analyze
  <2> QED BY <2>3, <2>4
<1>3. ASSUME NEW th \in Thread, Schedule(th) \/ Notify(th)
      PROVE  [Pipeline!Next]_(Pipeline!vars)
  <2>1. todo[th] # <<>> /\ Top(th).do \in {"schedule", "notify"} /\ Top(th).do \in ThreadDo
    BY <1>3 DEF Schedule, Notify, Runs, ThreadDo
  <2>2. Top(th) \in ThreadFrame BY <2>1, ThreadTop
  <2>3. Top(th).arg \in Job BY <2>1, <2>2 DEF ThreadFrame
  <2>4. Pipeline!JobStep(Top(th).arg)
    BY <1>3 DEF Schedule, Notify, Pipeline!JobStep
  <2> QED BY <2>3, <2>4 DEF Pipeline!Next
<1>4. ASSUME NEW j \in Job, RenderStep(j) PROVE [Pipeline!Next]_(Pipeline!vars)
  BY <1>4 DEF RenderStep, Pipeline!Next, Pipeline!JobStep
<1>5. CASE CancelRender
  <2>1. todo[Loop] # <<>> /\ Top(Loop).do \in Closing BY <1>5 DEF CancelRender, Runs, Closing
  <2>2. PICK u \in Uri, k \in 1..7 : Top(Loop) = Call(CloseDo[k], u) BY <2>1, LoopTop
  <2>3. Top(Loop).uri \in Uri BY <2>2 DEF Call
  <2> QED BY <1>5, <2>3 DEF CancelRender, Pipeline!Next
<1>6. CASE Configure \/ InvalidateAll
  BY <1>6 DEF Configure, InvalidateAll, Pipeline!Next
<1>7. CASE Message
  BY <1>1, <1>7 DEF Message, DidOpen, DidChange, DidClose, ExecuteCommand,
                    DidChangeWatchedFiles, DidChangeConfig
<1>8. CASE Debounce \/ SetPendingShow \/ ApplySettings \/ CancelDebounce \/ ForgetPublish
           \/ ClearRenderState \/ TakePendingShow \/ ClearDiagnostics \/ RemoveRenderTemps
  BY <1>1, <1>8 DEF Debounce, SetPendingShow, ApplySettings, CancelDebounce, ForgetPublish,
                    ClearRenderState, TakePendingShow, ClearDiagnostics, RemoveRenderTemps
<1>9. ASSUME NEW th \in Thread,
             StoreRendered(th) \/ ServeShow(th) \/ SchedulePublish(th) \/ GetDoc(th)
                \/ Show(th) \/ WriteTemp(th)
      PROVE  [Pipeline!Next]_(Pipeline!vars)
  BY <1>1, <1>9 DEF StoreRendered, ServeShow, SchedulePublish, GetDoc, Show, WriteTemp
<1>10. ASSUME (\E u \in Uri : LintTimerFires(u)) \/ (\E p \in publishing : Collect(p) \/ Send(p))
       PROVE  [Pipeline!Next]_(Pipeline!vars)
  BY <1>1, <1>10 DEF LintTimerFires, Collect, Send
<1>11. CASE UNCHANGED vars
  BY <1>1, <1>11 DEF vars
<1> QED
  BY <1>2, <1>3, <1>4, <1>5, <1>6, <1>7, <1>8, <1>9, <1>10, <1>11
  DEF Next, LoopStep, ThreadStep

-----------------------------------------------------------------------------
(* The types and the continuations are kept.                               *)

\* A job superseded is none any longer, or as it was.
LEMMA SupersededJobs ==
    ASSUME Types, NEW u, NEW j \in Job
    PROVE  Pipeline!Superseded(u)[j] = None \/ Pipeline!Superseded(u)[j] = jobs[j]
  BY DEF Pipeline!Superseded

\* A render that has not reported yet leaves its slot's thread to itself.
LEMMA JobsStep ==
    ASSUME Types, [Next]_vars, NEW j \in Job, jobs'[j] # None, jobs'[j].phase # "reporting"
    PROVE  todo[j] = <<>>
<1>1. jobs[j] # None /\ jobs[j].phase # "reporting" => todo[j] = <<>>
  BY DEF Types, RendersAlone
<1>2. jobs \in [Job -> Pipeline!JobState \cup {None}] BY DEF Types, TypeOK, Pipeline!TypeOK
<1>3. CASE jobs' = jobs BY <1>1, <1>3
<1>4. ASSUME NEW th \in Thread, Analyze(th), jobs' # jobs PROVE todo[j] = <<>>
  <2>1. PICK i \in Job : /\ todo[i] = <<>>
                         /\ Pipeline!Schedule(i, Top(th).uri, Top(th).doc.text)
    BY <1>4 DEF Analyze, pipelineVars
  <2>2. CASE i = j BY <2>1, <2>2
  <2>3. CASE i # j
    <3>1. jobs'[j] = jobs[j] BY <1>2, <2>1, <2>3 DEF Pipeline!Schedule
    <3> QED BY <1>1, <3>1
  <2> QED BY <2>2, <2>3
<1>5. ASSUME NEW i, Pipeline!ScheduleHit(i) \/ Pipeline!ScheduleArm(i), i \in Job
      PROVE  todo[j] = <<>>
  <2>1. jobs[i] # None /\ jobs[i].phase = "scheduling"
    BY <1>5 DEF Pipeline!ScheduleHit, Pipeline!ScheduleArm
  <2>2. CASE i = j BY <1>1, <2>1, <2>2
  <2>3. CASE i # j
    <3>1. jobs'[j] = Pipeline!Superseded(jobs[i].uri)[j]
      BY <1>5, <2>3 DEF Pipeline!ScheduleHit, Pipeline!ScheduleArm, Pipeline!Superseded
    <3>2. jobs'[j] = jobs[j] BY <3>1, SupersededJobs
    <3> QED BY <1>1, <3>2
  <2> QED BY <2>2, <2>3
<1>6. ASSUME NEW i \in Job,
             Pipeline!Fire(i) \/ Pipeline!Drop(i) \/ Pipeline!Writeback(i) \/ Pipeline!Report(i)
      PROVE  todo[j] = <<>>
  <2>1. CASE i # j
    <3>1. jobs'[j] = jobs[j]
      BY <1>2, <1>6, <2>1 DEF Pipeline!Fire, Pipeline!Drop, Pipeline!Writeback, Pipeline!Report
    <3> QED BY <1>1, <3>1
  <2>2. CASE i = j
    <3>1. CASE Pipeline!Fire(i) BY <1>1, <2>2, <3>1 DEF Pipeline!Fire
    <3>2. CASE Pipeline!Drop(i) \/ Pipeline!Report(i)
      BY <1>2, <2>2, <3>2 DEF Pipeline!Drop, Pipeline!Report
    <3>3. CASE Pipeline!Writeback(i)
      <4>1. jobs'[j].phase = "reporting"
        BY <1>2, <2>2, <3>3 DEF Pipeline!Writeback, Pipeline!Moved
      <4> QED BY <4>1
    <3> QED BY <1>6, <3>1, <3>2, <3>3
  <2> QED BY <2>1, <2>2
<1>7. ASSUME NEW th \in Thread, Schedule(th) \/ Notify(th) PROVE todo[j] = <<>>
  <2>1. todo[th] # <<>> /\ Top(th).do \in {"schedule", "notify"} /\ Top(th).do \in ThreadDo
    BY <1>7 DEF Schedule, Notify, Runs, ThreadDo
  <2>2. Top(th) \in ThreadFrame BY <2>1, ThreadTop
  <2>3. Top(th).arg \in Job BY <2>1, <2>2 DEF ThreadFrame
  <2> QED BY <1>5, <1>6, <1>7, <2>3 DEF Schedule, Notify
<1>8. CASE CancelRender
  <2>1. jobs' = Pipeline!Superseded(Top(Loop).uri) BY <1>8 DEF CancelRender, Pipeline!Cancel
  <2>2. jobs'[j] = jobs[j] BY <2>1, SupersededJobs
  <2> QED BY <1>1, <2>2
<1>9. ASSUME NEW i \in Job, RenderStep(i) PROVE todo[j] = <<>>
  BY <1>6, <1>9 DEF RenderStep
<1>10. CASE Message
  BY <1>3, <1>10 DEF Message, DidOpen, DidChange, DidClose, ExecuteCommand,
                     DidChangeWatchedFiles, DidChangeConfig, pipelineVars
<1>11. CASE Debounce \/ SetPendingShow \/ ApplySettings \/ CancelDebounce \/ ForgetPublish
            \/ ClearRenderState \/ TakePendingShow \/ ClearDiagnostics \/ RemoveRenderTemps
            \/ Configure \/ InvalidateAll
  BY <1>3, <1>11 DEF Debounce, SetPendingShow, ApplySettings, CancelDebounce, ForgetPublish,
                     ClearRenderState, TakePendingShow, ClearDiagnostics, RemoveRenderTemps,
                     Configure, InvalidateAll, Pipeline!Configure, Pipeline!InvalidateAll,
                     pipelineVars
<1>12. ASSUME NEW th \in Thread,
             StoreRendered(th) \/ ServeShow(th) \/ SchedulePublish(th) \/ GetDoc(th)
                \/ Show(th) \/ WriteTemp(th)
      PROVE  todo[j] = <<>>
  BY <1>3, <1>12
  DEF StoreRendered, ServeShow, SchedulePublish, GetDoc, Show, WriteTemp, pipelineVars
<1>13. ASSUME (\E u \in Uri : LintTimerFires(u)) \/ (\E p \in publishing : Collect(p) \/ Send(p))
       PROVE  todo[j] = <<>>
  BY <1>3, <1>13 DEF LintTimerFires, Collect, Send, pipelineVars
<1>14. CASE UNCHANGED vars BY <1>3, <1>14 DEF vars, pipelineVars
<1> QED
  BY <1>3, <1>4, <1>7, <1>8, <1>9, <1>10, <1>11, <1>12, <1>13, <1>14
  DEF Next, LoopStep, ThreadStep

\* The frames of the calls.
LEMMA Frames ==
    ASSUME NEW u \in Uri
    PROVE  /\ \A do \in {"getDoc", "show", "writeTemp"} : Call(do, u) \in ThreadFrame
           /\ \A do \in {"schedule", "notify"}, j \in Job :
                 [Call(do, u) EXCEPT !.arg = j] \in ThreadFrame
           /\ \A do \in {"analyze", "publish", "serveShow"}, d \in Document :
                 CallOn(do, u, d) \in ThreadFrame
           /\ \A d \in Document, r \in Result :
                 [CallOn("store", u, d) EXCEPT !.arg = r] \in ThreadFrame
           /\ \A do, d, r : /\ Call(do, u).uri = u /\ Call(do, u).do = do
                            /\ CallOn(do, u, d).uri = u /\ CallOn(do, u, d).do = do
                            /\ [Call(do, u) EXCEPT !.arg = r].uri = u
                            /\ [Call(do, u) EXCEPT !.arg = r].do = do
                            /\ [CallOn(do, u, d) EXCEPT !.arg = r].uri = u
                            /\ [CallOn(do, u, d) EXCEPT !.arg = r].do = do
<1>1. \A do \in {"getDoc", "show", "writeTemp"} : Call(do, u) \in ThreadFrame
  BY DEF Call, ThreadFrame, Frame, Do
<1>2. \A do \in {"schedule", "notify"}, j \in Job :
         [Call(do, u) EXCEPT !.arg = j] \in ThreadFrame
  BY DEF Call, ThreadFrame, Frame, Do
<1>3. \A do \in {"analyze", "publish", "serveShow"}, d \in Document :
         CallOn(do, u, d) \in ThreadFrame
  BY DEF CallOn, ThreadFrame, Frame, Do
<1>4. \A d \in Document, r \in Result : [CallOn("store", u, d) EXCEPT !.arg = r] \in ThreadFrame
  BY DEF CallOn, ThreadFrame, Frame, Do
<1> QED BY <1>1, <1>2, <1>3, <1>4 DEF Call, CallOn

\* A thread's step runs its frame, goes on with frames of the same document and
\* may start a goroutine.
GoesOn(th, fs) ==
    /\ \A i \in DOMAIN fs : fs[i].uri = Top(th).uri
    /\ Then(th, fs) \/ \E f \in ThreadFrame : f.do = "show" /\ ThenGo(th, fs, <<f>>)
    /\ Top(th).do = "serveShow" => \E i \in DOMAIN fs : fs[i].do = "publish"
    /\ Top(th).do = "store" /\ Open(Top(th).uri) => \E i \in DOMAIN fs : fs[i].do = "serveShow"
    /\ \A i \in DOMAIN fs : fs[i].do = "schedule" => i = 1 /\ Top(th).do = "analyze"

LEMMA ThreadStepRuns ==
    ASSUME Types, NEW th \in Thread, ThreadStep(th)
    PROVE  /\ todo[th] # <<>> /\ Top(th).do \in ThreadDo /\ UNCHANGED inputVars
           /\ \E fs \in Seq(ThreadFrame) : GoesOn(th, fs)
<1>1. todo[th] # <<>> /\ Top(th).do \in ThreadDo
  BY DEF ThreadStep, Analyze, Schedule, Notify, StoreRendered, ServeShow, SchedulePublish,
         GetDoc, Show, WriteTemp, Runs, ThreadDo
<1>2. UNCHANGED inputVars
  BY DEF ThreadStep, Analyze, Schedule, Notify, StoreRendered, ServeShow, SchedulePublish,
         GetDoc, Show, WriteTemp
<1> DEFINE u == Top(th).uri
           G == \E fs \in Seq(ThreadFrame) : GoesOn(th, fs)
<1> SUFFICES G BY <1>1, <1>2
<1>3. Top(th) \in ThreadFrame /\ u \in Uri BY <1>1, ThreadTop
<1>4. Open(u) => docs[u] \in Document BY <1>3 DEF Open, Types, TypeOK
<1> HIDE DEF u, G
<1>5. ASSUME Then(th, <<>>), Top(th).do \notin {"serveShow", "store"} \/ ~Open(Top(th).uri),
             Top(th).do # "serveShow"
      PROVE  G
  <2>1. <<>> \in Seq(ThreadFrame) /\ DOMAIN <<>> = {} OBVIOUS
  <2> QED BY <1>5, <2>1 DEF GoesOn, G
<1>6. ASSUME NEW f \in ThreadFrame, f.uri = u, Then(th, <<f>>),
             Top(th).do # "serveShow", Top(th).do = "store" => f.do = "serveShow",
             f.do = "schedule" => Top(th).do = "analyze"
      PROVE  G
  <2> DEFINE fs == <<f>>
  <2>1. fs \in Seq(ThreadFrame) /\ DOMAIN fs = {1} /\ fs[1] = f OBVIOUS
  <2> HIDE DEF fs
  <2>2. Then(th, fs) BY <1>6 DEF fs
  <2> QED BY <1>6, <2>1, <2>2 DEF GoesOn, u, G
<1>7. CASE Analyze(th)
  <2>1. CASE Renders(Top(th).doc)
    <3>1. PICK j \in Job : Then(th, <<[Call("schedule", u) EXCEPT !.arg = j]>>)
      BY <1>7, <2>1 DEF Analyze, u
    <3>2. Top(th).do = "analyze" BY <1>7 DEF Analyze, Runs
    <3> DEFINE f == [Call("schedule", u) EXCEPT !.arg = j]
    <3>3. f \in ThreadFrame /\ f.uri = u BY <1>3, Frames
    <3>4. Then(th, <<f>>) BY <3>1
    <3> HIDE DEF f
    <3> QED BY <1>6, <3>2, <3>3, <3>4
  <2>2. CASE ~Renders(Top(th).doc) BY <1>5, <1>7, <2>2 DEF Analyze, Runs
  <2> QED BY <2>1, <2>2
<1>8. CASE Schedule(th)
  <2> DEFINE f == [Call("notify", u) EXCEPT !.arg = Top(th).arg]
  <2>1. Top(th).do = "schedule" BY <1>8 DEF Schedule, Runs
  <2>2. Top(th).arg \in Job BY <1>3, <2>1 DEF ThreadFrame
  <2>3. f \in ThreadFrame /\ f.uri = u /\ f.do = "notify" BY <1>3, <2>2, Frames
  <2>4. Then(th, <<f>>) \/ Then(th, <<>>) BY <1>8 DEF Schedule, u
  <2> HIDE DEF f
  <2> QED BY <1>5, <1>6, <2>1, <2>3, <2>4
<1>9. CASE Notify(th)
  <2> DEFINE j == Top(th).arg
             r == [of |-> jobs[j].text, err |-> jobs[j].err]
             f == [CallOn("store", u, docs[u]) EXCEPT !.arg = r]
  <2>1. Top(th).do = "notify" BY <1>9 DEF Notify, Runs
  <2>2. j \in Job BY <1>3, <2>1 DEF ThreadFrame
  <2>3. jobs[j] # None BY <1>9 DEF Notify, Pipeline!Report
  <2>4. jobs[j] \in Pipeline!JobState BY <2>2, <2>3 DEF Types, TypeOK, Pipeline!TypeOK
  <2>5. r \in Result BY <2>4 DEF Result, Pipeline!JobState
  <2> HIDE DEF r, j
  <2>6. Then(th, IF Open(u) THEN <<f>> ELSE <<>>) BY <1>9 DEF Notify, u, j, r
  <2>7. CASE Open(u)
    <3>1. f \in ThreadFrame /\ f.uri = u /\ f.do = "store" BY <1>3, <1>4, <2>5, <2>7, Frames
    <3>2. Then(th, <<f>>) BY <2>6, <2>7
    <3> HIDE DEF f
    <3> QED BY <1>6, <2>1, <3>1, <3>2
  <2>8. CASE ~Open(u)
    <3>1. Then(th, <<>>) BY <2>6, <2>8
    <3> QED BY <1>5, <2>1, <3>1
  <2> QED BY <2>7, <2>8
<1>10. CASE StoreRendered(th)
  <2> DEFINE f == CallOn("serveShow", u, Top(th).doc)
  <2>1. Top(th).do = "store" BY <1>10 DEF StoreRendered, Runs
  <2>2. Top(th).doc \in Document BY <1>3, <2>1 DEF ThreadFrame
  <2>3. f \in ThreadFrame /\ f.uri = u /\ f.do = "serveShow" BY <1>3, <2>2, Frames
  <2>4. Then(th, <<f>>) \/ (~Open(Top(th).uri) /\ Then(th, <<>>))
    BY <1>10 DEF StoreRendered, StillOpen, u
  <2> HIDE DEF f
  <2> QED BY <1>5, <1>6, <2>1, <2>3, <2>4
<1>11. CASE ServeShow(th)
  <2> DEFINE f == CallOn("publish", u, Top(th).doc)
             fs == <<f>>
             g == Call("show", u)
  <2>1. Top(th).do = "serveShow" BY <1>11 DEF ServeShow, Runs
  <2>2. Top(th).doc \in Document BY <1>3, <2>1 DEF ThreadFrame
  <2>3. /\ f \in ThreadFrame /\ f.uri = u /\ f.do = "publish"
        /\ g \in ThreadFrame /\ g.do = "show"
    <3>1. f \in ThreadFrame /\ g \in ThreadFrame BY <1>3, <2>2, Frames
    <3>2. f.uri = u /\ f.do = "publish" BY DEF CallOn
    <3>3. g.do = "show" BY DEF Call
    <3> QED BY <3>1, <3>2, <3>3
  <2>4. ThenGo(th, fs, <<g>>) \/ Then(th, fs) BY <1>11 DEF ServeShow, AfterNotify, u
  <2> HIDE DEF f, g
  <2>5. fs \in Seq(ThreadFrame) /\ DOMAIN fs = {1} /\ fs[1] = f BY <2>3
  <2> HIDE DEF fs
  <2> QED BY <2>1, <2>3, <2>4, <2>5 DEF GoesOn, u, G
<1>12. CASE SchedulePublish(th)
  BY <1>5, <1>12 DEF SchedulePublish, Runs
<1>13. CASE GetDoc(th)
  <2> DEFINE fs == PublishDiagnostics(u, docs[u])
  <2>1. Top(th).do = "getDoc" BY <1>13 DEF GetDoc, Runs
  <2>2. Then(th, IF Open(u) THEN fs ELSE <<>>) BY <1>13 DEF GetDoc, u
  <2>3. CASE Open(u)
    <3> DEFINE f == CallOn("analyze", u, docs[u])
               g == CallOn("publish", u, docs[u])
    <3>1. /\ f \in ThreadFrame /\ f.uri = u /\ f.do = "analyze"
          /\ g \in ThreadFrame /\ g.uri = u /\ g.do = "publish"
      BY <1>3, <1>4, <2>3, Frames
    <3>2. fs = <<f, g>> BY DEF PublishDiagnostics
    <3> HIDE DEF f, g, fs
    <3>3. /\ fs \in Seq(ThreadFrame)
          /\ \A i \in DOMAIN fs : fs[i].uri = u /\ fs[i].do # "schedule"
      BY <3>1, <3>2
    <3>4. Then(th, fs) BY <2>2, <2>3
    <3> QED BY <2>1, <3>3, <3>4 DEF GoesOn, u, G
  <2>4. CASE ~Open(u)
    <3>1. Then(th, <<>>) BY <2>2, <2>4
    <3> QED BY <1>5, <2>1, <3>1
  <2> QED BY <2>3, <2>4
<1>14. CASE Show(th)
  <2> DEFINE f == Call("writeTemp", u)
  <2>1. Top(th).do = "show" BY <1>14 DEF Show, Runs
  <2>2. f \in ThreadFrame /\ f.uri = u /\ f.do = "writeTemp" BY <1>3, Frames
  <2>3. Then(th, <<f>>) \/ Then(th, <<>>) BY <1>14 DEF Show, u
  <2> HIDE DEF f
  <2> QED BY <1>5, <1>6, <2>1, <2>2, <2>3
<1>15. CASE WriteTemp(th)
  BY <1>5, <1>15 DEF WriteTemp, Runs
<1> QED
  BY <1>7, <1>8, <1>9, <1>10, <1>11, <1>12, <1>13, <1>14, <1>15 DEF ThreadStep

\* The frames the message loop may be given.
LEMMA LoopFrames ==
    /\ \A f \in ThreadFrame : Open(f.uri) => f \in LoopFrame
    /\ \A u \in Uri : Call("setPending", u) \in LoopFrame
    /\ \A do \in {"enable", "disable", "configure", "invalidate"} : Call(do, None) \in LoopFrame
    /\ LoopFrame \subseteq Frame
<1>1. \A u \in Uri : Call("setPending", u) \in LoopFrame BY DEF LoopFrame, Call, Frame, Do
<1>2. \A do \in {"enable", "disable", "configure", "invalidate"} : Call(do, None) \in LoopFrame
  BY DEF LoopFrame, Call, Frame, Do
<1>3. LoopFrame \subseteq Frame BY DEF LoopFrame, ThreadFrame
<1> QED BY <1>1, <1>2, <1>3 DEF LoopFrame

\* An order of the open documents is a sequence of them.
LEMMA OrderOfOpen ==
    ASSUME Types, NEW s \in Orders(OpenUris)
    PROVE  /\ Len(s) \in Nat /\ DOMAIN s = 1..Len(s)
           /\ \A i \in 1..Len(s) : s[i] \in Uri /\ Open(s[i]) /\ docs[s[i]] \in Document
<1>1. Cardinality(OpenUris) \in Nat BY FS_CardinalityType DEF Types
<1>2. s \in [1..Cardinality(OpenUris) -> OpenUris] BY DEF Orders
<1>3. s \in Seq(OpenUris) /\ Len(s) = Cardinality(OpenUris) BY <1>1, <1>2
<1>4. \A u \in OpenUris : u \in Uri /\ Open(u) /\ docs[u] \in Document
  BY DEF OpenUris, Open, Types, TypeOK
<1> QED BY <1>1, <1>2, <1>3, <1>4

\* Publishing them one after the other is for the loop to do.
LEMMA PublishAllFrames ==
    ASSUME Types, NEW s \in Orders(OpenUris)
    PROVE  PublishAll(s) \in Seq(LoopFrame)
<1>1. /\ Len(s) \in Nat
      /\ \A i \in 1..Len(s) : s[i] \in Uri /\ Open(s[i]) /\ docs[s[i]] \in Document
  BY OrderOfOpen
<1>2. ASSUME NEW k \in 1..(2 * Len(s))
      PROVE  PublishDiagnostics(s[(k + 1) \div 2], docs[s[(k + 1) \div 2]])[2 - (k % 2)]
                \in LoopFrame
  <2> DEFINE i == (k + 1) \div 2
             u == s[i]
             f == CallOn("analyze", u, docs[u])
             g == CallOn("publish", u, docs[u])
  <2>1. i \in 1..Len(s) /\ 2 - (k % 2) \in {1, 2} BY <1>1
  <2> HIDE DEF i
  <2>2. u \in Uri /\ Open(u) /\ docs[u] \in Document BY <1>1, <2>1
  <2> HIDE DEF u
  <2>3. f \in ThreadFrame /\ g \in ThreadFrame /\ f.uri = u /\ g.uri = u BY <2>2, Frames
  <2>4. f \in LoopFrame /\ g \in LoopFrame BY <2>2, <2>3, LoopFrames
  <2>5. PublishDiagnostics(u, docs[u]) = <<f, g>> BY DEF PublishDiagnostics
  <2> HIDE DEF f, g
  <2>6. <<f, g>>[1] = f /\ <<f, g>>[2] = g OBVIOUS
  <2>7. PublishDiagnostics(u, docs[u])[2 - (k % 2)] \in LoopFrame BY <2>1, <2>4, <2>5, <2>6
  <2> QED BY <2>7 DEF u, i
<1>3. 2 * Len(s) \in Nat BY <1>1
<1>4. PublishAll(s) \in [1..(2 * Len(s)) -> LoopFrame] BY <1>2 DEF PublishAll
<1> QED BY <1>3, <1>4

\* What a message makes of the continuations: the loop had nothing to run, and
\* the other threads do not notice, but for one that is started.
LEMMA MessageRuns ==
    ASSUME Types, Message
    PROVE  /\ todo' \in [Thread -> Seq(Frame)] /\ Continuations'
           /\ todo[Loop] = <<>>
           /\ \A t \in Thread : t # Loop => todo'[t] = todo[t] \/ todo[t] = <<>>
           /\ \A j \in Job : todo'[j] = todo[j]
<1> DEFINE G == /\ todo' \in [Thread -> Seq(Frame)] /\ Continuations'
                /\ \A t \in Thread : t # Loop => todo'[t] = todo[t] \/ todo[t] = <<>>
                /\ \A j \in Job : todo'[j] = todo[j]
<1>1. todo[Loop] = <<>>
  BY DEF Message, DidOpen, DidChange, DidClose, ExecuteCommand, DidChangeWatchedFiles,
         DidChangeConfig, Ready
<1>2. ASSUME NEW fs \in Seq(LoopFrame'), todo' = [todo EXCEPT ![Loop] = fs] PROVE G
  <2>1. LoopFrame' \subseteq Frame BY DEF LoopFrame, ThreadFrame
  <2>2. fs \in Seq(Frame) BY <2>1
  <2> QED BY <1>2, <2>2, LoopTakes DEF Thread
<1>3. ASSUME UNCHANGED docs, NEW fs \in Seq(LoopFrame), todo' = [todo EXCEPT ![Loop] = fs]
      PROVE  G
  <2>1. LoopFrame' = LoopFrame BY <1>3 DEF LoopFrame, Open
  <2> QED BY <1>2, <1>3, <2>1
<1> SUFFICES G BY <1>1
<1> HIDE DEF G
<1>4. docs \in [Uri -> Document \cup {None}] BY DEF Types, TypeOK
<1>5. ASSUME NEW u \in Uri, NEW t \in Text, DidOpen(u, t) PROVE G
  <2> DEFINE d == [version |-> edits + 1, text |-> t]
             f == CallOn("analyze", u, d)
             g == CallOn("publish", u, d)
             fs == PublishDiagnostics(u, d)
  <2>1. d \in Document BY <1>5 DEF DidOpen, Document, Types, TypeOK
  <2>2. docs' = [docs EXCEPT ![u] = d] /\ todo' = [todo EXCEPT ![Loop] = fs] BY <1>5 DEF DidOpen
  <2> HIDE DEF d
  <2>3. Open(u)' BY <1>4, <2>1, <2>2 DEF Open
  <2>4. f \in ThreadFrame /\ g \in ThreadFrame /\ f.uri = u /\ g.uri = u BY <2>1, Frames
  <2>5. f \in LoopFrame' /\ g \in LoopFrame' BY <2>3, <2>4 DEF LoopFrame, Open, ThreadFrame
  <2>6. fs = <<f, g>> BY DEF PublishDiagnostics
  <2> HIDE DEF f, g, fs
  <2>7. fs \in Seq(LoopFrame') BY <2>5, <2>6
  <2> QED BY <1>2, <2>2, <2>7
<1>6. ASSUME NEW u \in Uri, NEW t \in Text, DidChange(u, t) PROVE G
  <2> DEFINE d == [version |-> edits + 1, text |-> t]
             f == Call("debounce", u)
             fs == <<f>>
  <2>1. d \in Document BY <1>6 DEF DidChange, Document, Types, TypeOK
  <2>2. docs' = [docs EXCEPT ![u] = d] /\ todo' = [todo EXCEPT ![Loop] = fs]
    BY <1>6 DEF DidChange
  <2> HIDE DEF d
  <2>3. Open(u)' BY <1>4, <2>1, <2>2 DEF Open
  <2>4. f \in Frame /\ f.do = "debounce" /\ f.uri = u BY DEF Call, Frame, Do
  <2> HIDE DEF f
  <2>5. f \in LoopFrame' BY <2>3, <2>4 DEF LoopFrame, Open
  <2>6. fs \in Seq(LoopFrame') BY <2>5
  <2> QED BY <1>2, <2>2, <2>6
<1>7. ASSUME NEW u \in Uri, DidClose(u) PROVE G
  <2> DEFINE fs == CloseFrames(u)
  <2>1. docs' = [docs EXCEPT ![u] = None] /\ todo' = [todo EXCEPT ![Loop] = fs]
    BY <1>7 DEF DidClose
  <2>2. ~Open(u)' BY <1>4, <2>1 DEF Open
  <2>3. fs = CloseRest(u, 1)
    <3>1. CloseRest(u, 1) = [i \in 1..7 |-> Call(CloseDo[i], u)] BY DEF CloseRest
    <3> QED BY <3>1 DEF CloseFrames, CloseDo
  <2>4. fs \in Seq(Frame) BY <2>3, CloseRestFacts
  <2> HIDE DEF fs
  <2>5. \E v \in Uri, k \in 1..7 : ~Open(v)' /\ fs = CloseRest(v, k)
    <3>1. 1 \in 1..7 OBVIOUS
    <3> QED BY <2>2, <2>3, <3>1
  <2> QED BY <2>1, <2>4, <2>5, LoopTakes DEF Thread, G
<1>8. CASE DidChangeWatchedFiles
  <2>1. PICK s \in Orders(OpenUris) :
           todo' = [todo EXCEPT ![Loop] = <<Call("invalidate", None)>> \o
                      [i \in DOMAIN s |-> CallOn("analyze", s[i], docs[s[i]])]]
    BY <1>8 DEF DidChangeWatchedFiles
  <2> DEFINE c == Call("invalidate", None)
             one == <<c>>
             all == [i \in DOMAIN s |-> CallOn("analyze", s[i], docs[s[i]])]
  <2>2. c \in LoopFrame BY LoopFrames
  <2> HIDE DEF c
  <2>3. one \in Seq(LoopFrame) BY <2>2
  <2>4. /\ Len(s) \in Nat /\ DOMAIN s = 1..Len(s)
        /\ \A i \in 1..Len(s) : s[i] \in Uri /\ Open(s[i]) /\ docs[s[i]] \in Document
    BY OrderOfOpen
  <2>5. ASSUME NEW i \in 1..Len(s) PROVE CallOn("analyze", s[i], docs[s[i]]) \in LoopFrame
    <3> DEFINE u == s[i]
    <3>1. u \in Uri /\ Open(u) /\ docs[u] \in Document BY <2>4
    <3> HIDE DEF u
    <3>2. CallOn("analyze", u, docs[u]) \in ThreadFrame /\ CallOn("analyze", u, docs[u]).uri = u
      BY <3>1, Frames
    <3>3. CallOn("analyze", u, docs[u]) \in LoopFrame BY <3>1, <3>2, LoopFrames
    <3> QED BY <3>3 DEF u
  <2>6. all \in [1..Len(s) -> LoopFrame] BY <2>4, <2>5
  <2>7. all \in Seq(LoopFrame) BY <2>4, <2>6
  <2>8. todo' = [todo EXCEPT ![Loop] = one \o all] BY <2>1 DEF c
  <2> HIDE DEF one, all
  <2>9. one \o all \in Seq(LoopFrame) BY <2>3, <2>7, ConcatProperties
  <2>10. UNCHANGED docs BY <1>8 DEF DidChangeWatchedFiles
  <2> QED BY <1>3, <2>8, <2>9, <2>10
<1>9. CASE DidChangeConfig
  <2>1. PICK setting \in {"enable", "disable"}, fs \in RendererFrames, s \in Orders(OpenUris) :
           todo' = [todo EXCEPT ![Loop] = <<Call(setting, None)>> \o fs \o PublishAll(s)]
    BY <1>9 DEF DidChangeConfig
  <2> DEFINE c == Call(setting, None)
             one == <<c>>
             all == PublishAll(s)
  <2>2. c \in LoopFrame BY LoopFrames
  <2> HIDE DEF c
  <2>3. one \in Seq(LoopFrame) BY <2>2
  <2>4. fs \in Seq(LoopFrame)
    <3> DEFINE inv == Call("invalidate", None)
               conf == Call("configure", None)
    <3>1. inv \in LoopFrame /\ conf \in LoopFrame BY LoopFrames
    <3>2. fs \in {<<>>, <<inv>>, <<conf, inv>>} BY DEF RendererFrames
    <3> HIDE DEF inv, conf
    <3>3. <<>> \in Seq(LoopFrame) /\ <<inv>> \in Seq(LoopFrame) BY <3>1
    <3>4. <<conf, inv>> \in Seq(LoopFrame) BY <3>1
    <3> QED BY <3>2, <3>3, <3>4
  <2>5. all \in Seq(LoopFrame) BY PublishAllFrames
  <2>6. todo' = [todo EXCEPT ![Loop] = one \o fs \o all] BY <2>1 DEF c
  <2> HIDE DEF one, all
  <2>7. one \o fs \in Seq(LoopFrame) BY <2>3, <2>4, ConcatProperties
  <2>8. one \o fs \o all \in Seq(LoopFrame) BY <2>5, <2>7, ConcatProperties
  <2>9. UNCHANGED docs BY <1>9 DEF DidChangeConfig
  <2> QED BY <1>3, <2>6, <2>8, <2>9
<1>10. ASSUME NEW u \in Uri, ExecuteCommand(u) PROVE G
  <2>1. UNCHANGED docs BY <1>10 DEF ExecuteCommand
  <2>2. CASE Viewable(u)
    <3>1. PICK w \in Worker : todo[w] = <<>> /\ todo' = [todo EXCEPT ![w] = <<Call("show", u)>>]
      BY <1>10, <2>2 DEF ExecuteCommand
    <3> DEFINE f == Call("show", u)
    <3>2. f \in ThreadFrame BY Frames
    <3>3. todo' = [todo EXCEPT ![w] = <<f>>] BY <3>1
    <3> HIDE DEF f
    <3> QED BY <2>1, <3>1, <3>2, <3>3, Starts DEF G, Thread
  <2>3. CASE ~Viewable(u)
    <3> DEFINE c == Call("setPending", u)
               one == <<c>>
               f == CallOn("analyze", u, docs[u])
               fs == IF Open(u) THEN <<f>> ELSE <<>>
    <3>1. todo' = [todo EXCEPT ![Loop] = one \o fs] BY <1>10, <2>3 DEF ExecuteCommand, DeferShow
    <3>2. c \in LoopFrame BY LoopFrames
    <3> HIDE DEF c
    <3>3. one \in Seq(LoopFrame) BY <3>2
    <3>4. Open(u) => f \in LoopFrame
      <4>1. Open(u) => docs[u] \in Document BY <1>4 DEF Open
      <4>2. Open(u) => f \in ThreadFrame /\ f.uri = u BY <4>1, Frames
      <4> QED BY <4>2, LoopFrames
    <3> HIDE DEF f
    <3>5. fs \in Seq(LoopFrame) BY <3>4
    <3> HIDE DEF one, fs
    <3>6. one \o fs \in Seq(LoopFrame) BY <3>3, <3>5, ConcatProperties
    <3> QED BY <1>3, <2>1, <3>1, <3>6
  <2> QED BY <2>2, <2>3
<1> QED BY <1>5, <1>6, <1>7, <1>8, <1>9, <1>10 DEF Message

\* The step of a render's goroutine.
LEMMA RenderRuns ==
    ASSUME Types, NEW j \in Job, RenderStep(j)
    PROVE  /\ todo' \in [Thread -> Seq(Frame)] /\ Continuations'
           /\ todo[j] = <<>>
           /\ \A t \in Thread : t # j => todo'[t] = todo[t]
           /\ jobs'[j] # None /\ jobs'[j].phase # "reporting" => todo'[j] = <<>>
<1>1. UNCHANGED docs BY DEF RenderStep, inputVars
<1>2. jobs[j] # None /\ jobs[j].phase # "reporting"
  BY DEF RenderStep, Pipeline!Fire, Pipeline!Drop, Pipeline!Writeback
<1>3. todo[j] = <<>> BY <1>2 DEF Types, RendersAlone
<1>4. CASE UNCHANGED todo
  <2>1. LoopFrame' = LoopFrame BY <1>1 DEF LoopFrame, Open
  <2>2. Continuations' BY <1>1, <1>4, <2>1 DEF Types, Continuations, CloseRest, Open
  <2> QED BY <1>3, <1>4, <2>2 DEF Types, TypeOK
<1>5. CASE /\ Pipeline!Writeback(j)
           /\ todo' = [todo EXCEPT ![j] = <<[Call("notify", jobs[j].uri) EXCEPT !.arg = j]>>]
  <2> DEFINE u == jobs[j].uri
             f == [Call("notify", u) EXCEPT !.arg = j]
  <2>1. jobs \in [Job -> Pipeline!JobState \cup {None}] BY DEF Types, TypeOK, Pipeline!TypeOK
  <2>2. u \in Uri BY <1>2, <2>1 DEF Pipeline!JobState
  <2>3. f \in ThreadFrame BY <2>2, Frames
  <2>4. todo' = [todo EXCEPT ![j] = <<f>>] BY <1>5
  <2> HIDE DEF f
  <2>5. /\ todo' \in [Thread -> Seq(Frame)] /\ Continuations'
        /\ \A t \in Thread \ {j} : todo'[t] = todo[t]
    BY <1>1, <1>3, <2>3, <2>4, Starts
  <2>6. jobs'[j].phase = "reporting" BY <1>5, <2>1 DEF Pipeline!Writeback, Pipeline!Moved
  <2> QED BY <1>3, <2>5, <2>6
<1> QED BY <1>4, <1>5 DEF RenderStep

\* What every step makes of the threads.
LEMMA ThreadsKept ==
    ASSUME Types, [Next]_vars
    PROVE  todo' \in [Thread -> Seq(Frame)] /\ Continuations' /\ RendersAlone'
<1> DEFINE Quiet == \A j \in Job :
              todo[j] = <<>> /\ jobs'[j] # None /\ jobs'[j].phase # "reporting"
                => todo'[j] = <<>>
           G == todo' \in [Thread -> Seq(Frame)] /\ Continuations' /\ Quiet
<1>1. Quiet => RendersAlone' BY JobsStep DEF RendersAlone
<1>2. SUFFICES G BY <1>1
<1>3. Loop \in Thread /\ Loop \notin Job /\ Worker \cap Job = {} /\ Job \subseteq Thread
  BY DEF Thread
<1>4. CASE Message BY <1>4, MessageRuns
<1>5. CASE LoopStep
  <2>1. todo[Loop] # <<>> /\ Then(Loop, <<>>) /\ UNCHANGED docs
    BY <1>5 DEF LoopStep, Debounce, SetPendingShow, ApplySettings, Configure, InvalidateAll,
                CancelDebounce, ForgetPublish, CancelRender, ClearRenderState,
                TakePendingShow, ClearDiagnostics, RemoveRenderTemps, Runs, inputVars
  <2> QED BY <1>3, <2>1, LoopGoesOn
<1>6. ASSUME NEW th \in Thread, ThreadStep(th) PROVE G
  <2>1. /\ todo[th] # <<>> /\ Top(th).do \in ThreadDo /\ UNCHANGED docs
        /\ \E fs \in Seq(ThreadFrame) : GoesOn(th, fs)
    BY <1>6, ThreadStepRuns DEF inputVars
  <2>2. PICK fs \in Seq(ThreadFrame) : GoesOn(th, fs) BY <2>1
  <2>3. /\ \A i \in DOMAIN fs : fs[i].uri = Top(th).uri
        /\ Then(th, fs) \/ \E f \in ThreadFrame : ThenGo(th, fs, <<f>>)
    BY <2>2 DEF GoesOn
  <2> QED BY <2>1, <2>3, Continues
<1>7. ASSUME NEW u \in Uri, LintTimerFires(u) PROVE G
  <2>1. PICK w \in Worker : todo[w] = <<>> /\ todo' = [todo EXCEPT ![w] = <<Call("getDoc", u)>>]
    BY <1>7 DEF LintTimerFires
  <2> DEFINE f == Call("getDoc", u)
  <2>2. f \in ThreadFrame BY Frames
  <2>3. todo' = [todo EXCEPT ![w] = <<f>>] BY <2>1
  <2> HIDE DEF f
  <2>4. UNCHANGED docs BY <1>7 DEF LintTimerFires, inputVars
  <2> QED BY <1>3, <2>1, <2>2, <2>3, <2>4, Starts
<1>8. ASSUME NEW j \in Job, RenderStep(j) PROVE G
  BY <1>3, <1>8, RenderRuns
<1>9. ASSUME UNCHANGED <<docs, todo>> PROVE G
  <2>1. LoopFrame' = LoopFrame BY <1>9 DEF LoopFrame, Open
  <2>2. Continuations' BY <1>9, <2>1 DEF Types, Continuations, CloseRest, Open
  <2> QED BY <1>9, <2>2 DEF Types, TypeOK
<1>10. ASSUME (\E p \in publishing : Collect(p) \/ Send(p)) \/ UNCHANGED vars PROVE G
  BY <1>9, <1>10 DEF Collect, Send, vars, inputVars
<1> QED BY <1>4, <1>5, <1>6, <1>7, <1>8, <1>10 DEF Next

\* The documents stay documents, and finitely many are open.
LEMMA InputTypes ==
    ASSUME Types, [Next]_vars
    PROVE  /\ docs' \in [Uri -> Document \cup {None}]
           /\ edits' \in 0..MaxEdits /\ requests' \in 0..MaxRequests
           /\ IsFiniteSet(OpenUris)'
<1>1. /\ docs \in [Uri -> Document \cup {None}] /\ IsFiniteSet(OpenUris)
      /\ edits \in 0..MaxEdits /\ requests \in 0..MaxRequests
  BY DEF Types, TypeOK
<1>2. ASSUME UNCHANGED docs PROVE IsFiniteSet(OpenUris)'
  <2>1. OpenUris' = OpenUris BY <1>2 DEF OpenUris, Open
  <2> QED BY <1>1, <2>1
<1>3. ASSUME NEW u \in Uri, NEW t \in Text, DidOpen(u, t) \/ DidChange(u, t)
      PROVE  /\ docs' \in [Uri -> Document \cup {None}] /\ IsFiniteSet(OpenUris)'
             /\ edits' \in 0..MaxEdits /\ UNCHANGED requests
  <2> DEFINE d == [version |-> edits + 1, text |-> t]
  <2>1. docs' = [docs EXCEPT ![u] = d] /\ edits' = edits + 1 /\ edits < MaxEdits
        /\ UNCHANGED requests
    BY <1>3 DEF DidOpen, DidChange
  <2>2. d \in Document BY <1>1, <2>1 DEF Document
  <2> HIDE DEF d
  <2>3. OpenUris' = OpenUris \cup {u} BY <1>1, <2>1, <2>2 DEF OpenUris, Open
  <2>4. IsFiniteSet(OpenUris \cup {u}) BY <1>1, FS_AddElement
  <2> QED BY <1>1, <2>1, <2>2, <2>3, <2>4
<1>4. ASSUME NEW u \in Uri, DidClose(u)
      PROVE  /\ docs' \in [Uri -> Document \cup {None}] /\ IsFiniteSet(OpenUris)'
             /\ requests' \in 0..MaxRequests /\ UNCHANGED edits
  <2>1. /\ docs' = [docs EXCEPT ![u] = None] /\ UNCHANGED edits
        /\ requests' = requests + 1 /\ requests < MaxRequests
    BY <1>4 DEF DidClose
  <2>2. OpenUris' \subseteq OpenUris BY <1>1, <2>1 DEF OpenUris, Open
  <2>3. IsFiniteSet(OpenUris') BY <1>1, <2>2, FS_Subset
  <2> QED BY <1>1, <2>1, <2>3
<1>5. ASSUME (\E u \in Uri : ExecuteCommand(u)) \/ DidChangeWatchedFiles \/ DidChangeConfig
      PROVE  UNCHANGED <<docs, edits>> /\ requests' \in 0..MaxRequests
  BY <1>1, <1>5 DEF ExecuteCommand, DidChangeWatchedFiles, DidChangeConfig
<1>6. ASSUME LoopStep \/ (\E th \in Thread : ThreadStep(th)) \/ (\E u \in Uri : LintTimerFires(u))
             \/ (\E j \in Job : RenderStep(j)) \/ (\E p \in publishing : Collect(p) \/ Send(p))
             \/ UNCHANGED vars
      PROVE  UNCHANGED inputVars
  <2>1. CASE LoopStep
    BY <2>1 DEF LoopStep, Debounce, SetPendingShow, ApplySettings, Configure, InvalidateAll,
                CancelDebounce, ForgetPublish, CancelRender, ClearRenderState,
                TakePendingShow, ClearDiagnostics, RemoveRenderTemps
  <2>2. ASSUME NEW th \in Thread, ThreadStep(th) PROVE UNCHANGED inputVars
    BY <2>2, ThreadStepRuns
  <2>3. CASE (\E u \in Uri : LintTimerFires(u)) \/ (\E j \in Job : RenderStep(j))
             \/ (\E p \in publishing : Collect(p) \/ Send(p)) \/ UNCHANGED vars
    BY <2>3 DEF LintTimerFires, RenderStep, Collect, Send, vars
  <2> QED BY <1>6, <2>1, <2>2, <2>3
<1>7. ASSUME UNCHANGED inputVars
      PROVE  UNCHANGED <<docs, edits, requests>>
  BY <1>7 DEF inputVars
<1>8. CASE Message
  BY <1>1, <1>2, <1>3, <1>4, <1>5, <1>8 DEF Message
<1>9. CASE ~Message
  <2>1. UNCHANGED <<docs, edits, requests>> BY <1>6, <1>7, <1>9 DEF Next
  <2> QED BY <1>1, <1>2, <2>1
<1> QED BY <1>8, <1>9

\* The switches and sets of documents keep their types.
LEMMA SwitchTypes ==
    ASSUME Types, [Next]_vars
    PROVE  /\ kubernetes' \in BOOLEAN
           /\ lintTimers' \subseteq Uri /\ pendingShow' \subseteq Uri /\ temps' \subseteq Uri
<1> DEFINE G == /\ kubernetes' \in BOOLEAN
                /\ lintTimers' \subseteq Uri /\ pendingShow' \subseteq Uri
                /\ temps' \subseteq Uri
<1>1. /\ kubernetes \in BOOLEAN
      /\ lintTimers \subseteq Uri /\ pendingShow \subseteq Uri /\ temps \subseteq Uri
  BY DEF Types, TypeOK
<1>2. ASSUME UNCHANGED <<kubernetes, lintTimers, pendingShow, temps>> PROVE G
  BY <1>1, <1>2
<1>3. ASSUME Runs(Loop, "debounce") \/ Runs(Loop, "setPending") PROVE Top(Loop).uri \in Uri
  <2>1. todo[Loop] # <<>> /\ Top(Loop).do \in {"debounce", "setPending"} BY <1>3 DEF Runs
  <2>2. Top(Loop).do \notin Closing BY <2>1 DEF Closing
  <2>3. Top(Loop) \in LoopFrame BY <2>1, <2>2, LoopTop
  <2> QED BY <2>1, <2>3 DEF LoopFrame, ThreadFrame
<1>4. CASE Debounce BY <1>1, <1>3, <1>4 DEF Debounce, showVars
<1>5. CASE SetPendingShow BY <1>1, <1>3, <1>5 DEF SetPendingShow
<1>6. CASE ApplySettings
  <2>1. kubernetes' \in BOOLEAN BY <1>6, Zenon DEF ApplySettings, Runs
  <2>2. UNCHANGED <<lintTimers, pendingShow, temps>> BY <1>6 DEF ApplySettings, showVars
  <2> QED BY <1>1, <2>1, <2>2
<1>7. CASE CancelDebounce BY <1>1, <1>7 DEF CancelDebounce, showVars
<1>8. CASE TakePendingShow BY <1>1, <1>8 DEF TakePendingShow
<1>9. CASE RemoveRenderTemps BY <1>1, <1>9 DEF RemoveRenderTemps
<1>10. CASE Configure \/ InvalidateAll \/ ForgetPublish \/ CancelRender \/ ClearRenderState
            \/ ClearDiagnostics
  BY <1>2, <1>10 DEF Configure, InvalidateAll, ForgetPublish, CancelRender, ClearRenderState,
                     ClearDiagnostics, showVars
<1>11. CASE Message
  BY <1>2, <1>11 DEF Message, DidOpen, DidChange, DidClose, ExecuteCommand,
                     DidChangeWatchedFiles, DidChangeConfig, showVars
<1>12. ASSUME NEW th \in Thread, ServeShow(th) PROVE G
  BY <1>1, <1>12 DEF ServeShow
<1>13. ASSUME NEW th \in Thread, WriteTemp(th) PROVE G
  <2>1. todo[th] # <<>> /\ Top(th).do \in ThreadDo BY <1>13 DEF WriteTemp, Runs, ThreadDo
  <2>2. Top(th).uri \in Uri BY <2>1, ThreadTop
  <2> QED BY <1>1, <1>13, <2>2 DEF WriteTemp
<1>14. ASSUME NEW th \in Thread,
              Analyze(th) \/ Schedule(th) \/ Notify(th) \/ StoreRendered(th)
                 \/ SchedulePublish(th) \/ GetDoc(th) \/ Show(th)
       PROVE  G
  BY <1>2, <1>14 DEF Analyze, Schedule, Notify, StoreRendered, SchedulePublish, GetDoc, Show,
                     showVars
<1>15. ASSUME NEW u \in Uri, LintTimerFires(u) PROVE G
  BY <1>1, <1>15 DEF LintTimerFires, showVars
<1>16. CASE (\E j \in Job : RenderStep(j)) \/ (\E p \in publishing : Collect(p) \/ Send(p))
            \/ UNCHANGED vars
  BY <1>2, <1>16 DEF RenderStep, Collect, Send, vars, showVars
<1> QED
  BY <1>4, <1>5, <1>6, <1>7, <1>8, <1>9, <1>10, <1>11, <1>12, <1>13, <1>14, <1>15, <1>16
  DEF Next, LoopStep, ThreadStep

\* Most steps leave the publishes alone.
LEMMA PublishUntouched ==
    ASSUME [Next]_vars
    PROVE  \/ UNCHANGED <<pubSeq, pubCounter, publishing, client>>
           \/ ForgetPublish \/ ClearDiagnostics
           \/ \E th \in Thread : SchedulePublish(th)
           \/ \E p \in publishing : Collect(p) \/ Send(p)
<1> DEFINE G == UNCHANGED <<pubSeq, pubCounter, publishing, client>>
<1>1. CASE Debounce \/ SetPendingShow \/ ApplySettings \/ Configure \/ InvalidateAll
           \/ CancelDebounce \/ CancelRender \/ ClearRenderState \/ TakePendingShow
           \/ RemoveRenderTemps
  BY <1>1 DEF Debounce, SetPendingShow, ApplySettings, Configure, InvalidateAll, CancelDebounce,
              CancelRender, ClearRenderState, TakePendingShow, RemoveRenderTemps, publishVars
<1>2. CASE Message
  BY <1>2 DEF Message, DidOpen, DidChange, DidClose, ExecuteCommand, DidChangeWatchedFiles,
              DidChangeConfig, publishVars
<1>3. ASSUME NEW th \in Thread,
             Analyze(th) \/ Schedule(th) \/ Notify(th) \/ StoreRendered(th) \/ ServeShow(th)
                \/ GetDoc(th) \/ Show(th) \/ WriteTemp(th)
      PROVE  G
  BY <1>3 DEF Analyze, Schedule, Notify, StoreRendered, ServeShow, GetDoc, Show, WriteTemp,
              publishVars
<1>4. CASE (\E u \in Uri : LintTimerFires(u)) \/ (\E j \in Job : RenderStep(j)) \/ UNCHANGED vars
  BY <1>4 DEF LintTimerFires, RenderStep, vars, publishVars
<1> QED BY <1>1, <1>2, <1>3, <1>4 DEF Next, LoopStep, ThreadStep

\* And most leave the rendered diagnostics and outputs alone.
LEMMA RenderedUntouched ==
    ASSUME [Next]_vars
    PROVE  \/ UNCHANGED <<renderedDiags, renderedRaw, renderedBaseline>>
           \/ ClearRenderState
           \/ \E th \in Thread : StoreRendered(th)
<1> DEFINE G == UNCHANGED <<renderedDiags, renderedRaw, renderedBaseline>>
<1>1. CASE Debounce \/ SetPendingShow \/ ApplySettings \/ Configure \/ InvalidateAll
           \/ CancelDebounce \/ CancelRender \/ ForgetPublish \/ ClearDiagnostics
           \/ TakePendingShow \/ RemoveRenderTemps
  BY <1>1 DEF Debounce, SetPendingShow, ApplySettings, Configure, InvalidateAll, CancelDebounce,
              CancelRender, ForgetPublish, ClearDiagnostics, TakePendingShow,
              RemoveRenderTemps, renderedVars
<1>2. CASE Message
  BY <1>2 DEF Message, DidOpen, DidChange, DidClose, ExecuteCommand, DidChangeWatchedFiles,
              DidChangeConfig, renderedVars
<1>3. ASSUME NEW th \in Thread,
             Analyze(th) \/ Schedule(th) \/ Notify(th) \/ ServeShow(th) \/ SchedulePublish(th)
                \/ GetDoc(th) \/ Show(th) \/ WriteTemp(th)
      PROVE  G
  BY <1>3 DEF Analyze, Schedule, Notify, ServeShow, SchedulePublish, GetDoc, Show, WriteTemp,
              renderedVars
<1>4. CASE (\E u \in Uri : LintTimerFires(u)) \/ (\E j \in Job : RenderStep(j))
           \/ (\E p \in publishing : Collect(p) \/ Send(p)) \/ UNCHANGED vars
  BY <1>4 DEF LintTimerFires, RenderStep, Collect, Send, vars, renderedVars
<1> QED BY <1>1, <1>2, <1>3, <1>4 DEF Next, LoopStep, ThreadStep

\* The document a frame of the closing loop is about.
LEMMA ClosingTop ==
    ASSUME Types, todo[Loop] # <<>>, Top(Loop).do \in Closing
    PROVE  /\ Top(Loop).uri \in Uri /\ ~Open(Top(Loop).uri)
           /\ \E k \in 1..7 : /\ todo[Loop] = CloseRest(Top(Loop).uri, k)
                              /\ Top(Loop).do = CloseDo[k]
<1>1. PICK u \in Uri, k \in 1..7 : /\ ~Open(u) /\ todo[Loop] = CloseRest(u, k)
                                   /\ Top(Loop) = Call(CloseDo[k], u)
  BY LoopTop
<1>2. Top(Loop).uri = u /\ Top(Loop).do = CloseDo[k] BY <1>1 DEF Call
<1> QED BY <1>1, <1>2

\* The publishes under way and what the client has keep their types.
LEMMA PublishTypes ==
    ASSUME Types, [Next]_vars
    PROVE  /\ pubCounter' \in Nat /\ pubSeq' \in [Uri -> Nat] /\ publishing' \subseteq Publish
           /\ client' \in [Uri -> [seq : Nat, shown : Shown \cup {None}]]
<1> DEFINE G == /\ pubCounter' \in Nat /\ pubSeq' \in [Uri -> Nat]
                /\ publishing' \subseteq Publish
                /\ client' \in [Uri -> [seq : Nat, shown : Shown \cup {None}]]
<1>1. /\ pubCounter \in Nat /\ pubSeq \in [Uri -> Nat] /\ publishing \subseteq Publish
      /\ client \in [Uri -> [seq : Nat, shown : Shown \cup {None}]]
      /\ renderedDiags \in [Uri -> Result \cup {None}]
  BY DEF Types, TypeOK
<1>2. CASE UNCHANGED <<pubSeq, pubCounter, publishing, client>> BY <1>1, <1>2
<1>3. CASE ForgetPublish
  BY <1>1, <1>3 DEF ForgetPublish, Unsuperseded
<1>4. CASE ClearDiagnostics
  BY <1>1, <1>4 DEF ClearDiagnostics
<1>5. ASSUME NEW th \in Thread, SchedulePublish(th) PROVE G
  <2>1. todo[th] # <<>> /\ Top(th).do = "publish" /\ Top(th).do \in ThreadDo
    BY <1>5 DEF SchedulePublish, Runs, ThreadDo
  <2>2. Top(th) \in ThreadFrame BY <2>1, ThreadTop
  <2>3. Top(th).uri \in Uri /\ Top(th).doc \in Document BY <2>1, <2>2 DEF ThreadFrame
  <2> DEFINE new == [seq |-> pubCounter + 1, uri |-> Top(th).uri,
                     version |-> Top(th).doc.version, collected |-> FALSE, rendered |-> None]
  <2>4. pubCounter + 1 \in Nat BY <1>1
  <2>5. Top(th).doc.version \in 1..MaxEdits BY <2>3 DEF Document
  <2>6. new \in Publish BY <2>3, <2>4, <2>5, Zenon DEF Publish
  <2> HIDE DEF new
  <2>7. CASE Open(Top(th).uri)
    <3>1. /\ pubCounter' = pubCounter + 1 /\ UNCHANGED client
          /\ pubSeq' = [pubSeq EXCEPT ![Top(th).uri] = pubCounter + 1]
          /\ publishing' = Unsuperseded \cup {new}
      BY <1>5, <2>7 DEF SchedulePublish, new
    <3>2. Unsuperseded \subseteq publishing BY DEF Unsuperseded
    <3> QED BY <1>1, <2>4, <2>6, <3>1, <3>2
  <2>8. CASE ~Open(Top(th).uri)
    BY <1>1, <1>5, <2>8 DEF SchedulePublish
  <2> QED BY <2>7, <2>8
<1>6. ASSUME NEW p \in publishing, Collect(p) PROVE G
  <2> DEFINE q == [p EXCEPT !.collected = TRUE, !.rendered = renderedDiags[p.uri]]
  <2>1. p \in Publish BY <1>1
  <2>2. renderedDiags[p.uri] \in Result \cup {None} BY <1>1, <2>1 DEF Publish
  <2>3. q \in Publish BY <2>1, <2>2, Zenon DEF Publish
  <2>4. publishing' = (publishing \ {p}) \cup {q} /\ UNCHANGED <<pubSeq, pubCounter, client>>
    BY <1>6 DEF Collect
  <2> HIDE DEF q
  <2> QED BY <1>1, <2>3, <2>4
<1>7. ASSUME NEW p \in publishing, Send(p) PROVE G
  <2> DEFINE s == [version |-> p.version, rendered |-> p.rendered]
             c == [seq |-> p.seq, shown |-> s]
  <2>1. p \in Publish BY <1>1
  <2>2. s \in Shown BY <2>1 DEF Publish, Shown
  <2> HIDE DEF s
  <2>3. c \in [seq : Nat, shown : Shown \cup {None}] BY <2>1, <2>2 DEF Publish
  <2>4. /\ publishing' = publishing \ {p} /\ UNCHANGED <<pubSeq, pubCounter>>
        /\ client' = client \/ client' = [client EXCEPT ![p.uri] = c]
    BY <1>7 DEF Send, s
  <2> HIDE DEF c
  <2> QED BY <1>1, <2>3, <2>4
<1> QED BY <1>2, <1>3, <1>4, <1>5, <1>6, <1>7, PublishUntouched

\* The rendered diagnostics and outputs keep their types.
LEMMA RenderedTypes ==
    ASSUME Types, [Next]_vars
    PROVE  /\ renderedDiags' \in [Uri -> Result \cup {None}]
           /\ renderedRaw' \in [Uri -> Output \cup {None}]
           /\ renderedBaseline' \in [Uri -> Output \cup {None}]
<1> DEFINE G == /\ renderedDiags' \in [Uri -> Result \cup {None}]
                /\ renderedRaw' \in [Uri -> Output \cup {None}]
                /\ renderedBaseline' \in [Uri -> Output \cup {None}]
<1>1. /\ renderedDiags \in [Uri -> Result \cup {None}]
      /\ renderedRaw \in [Uri -> Output \cup {None}]
      /\ renderedBaseline \in [Uri -> Output \cup {None}]
  BY DEF Types, TypeOK
<1>2. CASE UNCHANGED <<renderedDiags, renderedRaw, renderedBaseline>> BY <1>1, <1>2
<1>3. CASE ClearRenderState BY <1>1, <1>3 DEF ClearRenderState
<1>4. ASSUME NEW th \in Thread, StoreRendered(th) PROVE G
  <2> DEFINE u == Top(th).uri
             r == Top(th).arg
  <2>1. todo[th] # <<>> /\ Top(th).do = "store" /\ Top(th).do \in ThreadDo
    BY <1>4 DEF StoreRendered, Runs, ThreadDo
  <2>2. Top(th) \in ThreadFrame BY <2>1, ThreadTop
  <2>3. u \in Uri /\ r \in Result BY <2>1, <2>2 DEF ThreadFrame
  <2>4. \A out \in Outputs(r) : out \in Output \cup {None}
    BY <2>3 DEF Outputs, Output, Result
  <2> HIDE DEF u, r
  <2>5. CASE StillOpen(u)
    <3>1. PICK out \in Outputs(r) :
             /\ renderedDiags' = [renderedDiags EXCEPT ![u] = r]
             /\ IF out = None THEN UNCHANGED <<renderedRaw, renderedBaseline>>
                ELSE /\ renderedRaw' = [renderedRaw EXCEPT ![u] = out]
                     /\ renderedBaseline' = [renderedBaseline EXCEPT ![u] = Baseline(u, out)]
      BY <1>4, <2>5 DEF StoreRendered, u, r
    <3>2. out \in Output \cup {None} BY <2>4
    <3>3. Baseline(u, out) \in Output \cup {None} BY <1>1, <2>3, <3>2 DEF Baseline
    <3> QED BY <1>1, <2>3, <3>1, <3>2, <3>3
  <2>6. CASE ~StillOpen(u)
    BY <1>1, <1>4, <2>6 DEF StoreRendered, renderedVars, u
  <2> QED BY <2>5, <2>6
<1> QED BY <1>2, <1>3, <1>4, RenderedUntouched

\* What the state is made of survives every step.
LEMMA TypesStep == Types /\ [Next]_vars => Types'
<1> SUFFICES ASSUME Types, [Next]_vars PROVE Types' OBVIOUS
<1>1. Pipeline!TypeOK' BY CallsStep, PipelineTypes DEF Types, TypeOK
<1>2. todo' \in [Thread -> Seq(Frame)] /\ Continuations' /\ RendersAlone' BY ThreadsKept
<1>3. /\ docs' \in [Uri -> Document \cup {None}] /\ IsFiniteSet(OpenUris)'
      /\ edits' \in 0..MaxEdits /\ requests' \in 0..MaxRequests
  BY InputTypes
<1>4. /\ kubernetes' \in BOOLEAN
      /\ lintTimers' \subseteq Uri /\ pendingShow' \subseteq Uri /\ temps' \subseteq Uri
  BY SwitchTypes
<1>5. /\ pubCounter' \in Nat /\ pubSeq' \in [Uri -> Nat] /\ publishing' \subseteq Publish
      /\ client' \in [Uri -> [seq : Nat, shown : Shown \cup {None}]]
  BY PublishTypes
<1>6. /\ renderedDiags' \in [Uri -> Result \cup {None}]
      /\ renderedRaw' \in [Uri -> Output \cup {None}]
      /\ renderedBaseline' \in [Uri -> Output \cup {None}]
  BY RenderedTypes
<1>7. TypeOK' BY <1>1, <1>2, <1>3, <1>4, <1>5, <1>6, Zenon DEF TypeOK
<1> QED BY <1>2, <1>3, <1>7 DEF Types

LEMMA TypesInit == Init => Types
<1> SUFFICES ASSUME Init PROVE Types OBVIOUS
<1>1. Pipeline!TypeOK
  BY PipelineNames, PipelineAssumptions, PipelineProofs!TypeInit DEF Init
<1>2. OpenUris = {} BY DEF Init, OpenUris, Open
<1>3. IsFiniteSet(OpenUris) BY <1>2, FS_EmptySet
<1>4. todo = [th \in Thread |-> <<>>] BY DEF Init
<1>5. todo \in [Thread -> Seq(Frame)] BY <1>4
<1>6. Continuations
  <2>1. todo[Loop] = <<>> /\ \A th \in Job \cup Worker : todo[th] = <<>> BY <1>4 DEF Thread
  <2>2. <<>> \in Seq(LoopFrame) /\ <<>> \in Seq(ThreadFrame) OBVIOUS
  <2> QED BY <2>1, <2>2 DEF Continuations
<1>7. RendersAlone BY DEF Init, Pipeline!Init, RendersAlone
<1>8. TypeOK
  <2>1. /\ docs \in [Uri -> Document \cup {None}] /\ kubernetes \in BOOLEAN
        /\ lintTimers \subseteq Uri /\ pendingShow \subseteq Uri /\ temps \subseteq Uri
        /\ pubCounter \in Nat /\ pubSeq \in [Uri -> Nat] /\ publishing \subseteq Publish
    BY DEF Init
  <2>2. /\ renderedDiags \in [Uri -> Result \cup {None}]
        /\ renderedRaw \in [Uri -> Output \cup {None}]
        /\ renderedBaseline \in [Uri -> Output \cup {None}]
        /\ client \in [Uri -> [seq : Nat, shown : Shown \cup {None}]]
        /\ edits \in 0..MaxEdits /\ requests \in 0..MaxRequests
    BY DEF Init
  <2> QED BY <1>1, <1>5, <2>1, <2>2, Zenon DEF TypeOK
<1> QED BY <1>3, <1>6, <1>7, <1>8 DEF Types

\* The state keeps its types, that of the pipeline included, whatever the
\* messages and however the threads interleave.
THEOREM ServerTypeCorrect == Safe => []TypeOK
<1>1. Types => TypeOK BY DEF Types
<1> QED BY <1>1, TypesInit, TypesStep, PTL DEF Safe

\* What the server does to the pipeline is a behaviour RenderPipelineProofs is about.
LEMMA ServersPipeline == Safe => PipelineProofs!Safe
<1>1. Init => PipelineProofs!Init BY PipelineNames DEF Init
<1>2. Types /\ [Next]_vars => [PipelineProofs!Next]_(PipelineProofs!vars)
  BY CallsStep, PipelineNames
<1> QED BY <1>1, <1>2, TypesInit, TypesStep, PTL DEF Safe, PipelineProofs!Safe

\* pipeline.go: in the server a document's supersede and didClose never stop the
\* render of another, no timer is left that neither could stop, and the cache
\* holds nothing from before the last invalidation or from a render cut short.
THEOREM ServersPipelineCorrect ==
    Safe => [](/\ Pipeline!PendingOwnUri /\ Pipeline!NoOrphanTimer
               /\ Pipeline!CacheSinceInvalidation /\ Pipeline!NoContextErrCached)
<1>1. PipelineProofs!Safe => [](PipelineProofs!PendingOwnUri /\ PipelineProofs!NoOrphanTimer)
  BY PipelineAssumptions, PipelineProofs!PendingCorrect
<1>2. PipelineProofs!Safe
         => [](PipelineProofs!CacheSinceInvalidation /\ PipelineProofs!NoContextErrCached)
  BY PipelineAssumptions, PipelineProofs!CacheCorrect
<1> QED BY <1>1, <1>2, ServersPipeline, PipelineNames, PTL

\* The requests behind it too.
LEMMA RequestNames ==
    /\ Pipeline!Requests!Init <=> PipelineProofs!Requests!Init
    /\ [Pipeline!Requests!Next]_(Pipeline!Requests!vars)
           <=> [PipelineProofs!Requests!Next]_(PipelineProofs!Requests!vars)
<1>1. /\ \A u : Pipeline!Wanted(u) = PipelineProofs!Wanted(u)
      /\ \A u : Pipeline!Known(u) = PipelineProofs!Known(u)
  BY Zenon DEF Pipeline!Wanted, PipelineProofs!Wanted, Pipeline!Known, PipelineProofs!Known
<1>2. /\ \A u : Pipeline!Wanted(u)' = PipelineProofs!Wanted(u)'
      /\ \A u : Pipeline!Known(u)' = PipelineProofs!Known(u)'
  BY Zenon DEF Pipeline!Wanted, PipelineProofs!Wanted, Pipeline!Known, PipelineProofs!Known
<1> DEFINE w == [u \in Uri |-> Pipeline!Wanted(u)]
           k == [u \in Uri |-> Pipeline!Known(u)]
           pw == [u \in Uri |-> PipelineProofs!Wanted(u)]
           pk == [u \in Uri |-> PipelineProofs!Known(u)]
<1>3. w = pw /\ k = pk BY <1>1
<1>4. w' = pw' /\ k' = pk' BY <1>2
<1>5. Pipeline!Requests!Init <=> PipelineProofs!Requests!Init
  BY <1>3 DEF Pipeline!Requests!Init, PipelineProofs!Requests!Init
<1>6. Pipeline!Requests!vars = PipelineProofs!Requests!vars
      /\ Pipeline!Requests!vars' = PipelineProofs!Requests!vars'
  BY <1>3, <1>4 DEF Pipeline!Requests!vars, PipelineProofs!Requests!vars
<1>7. \A u, r : Pipeline!Requests!Ask(u, r) <=> PipelineProofs!Requests!Ask(u, r)
  BY <1>3, <1>4 DEF Pipeline!Requests!Ask, PipelineProofs!Requests!Ask
<1>8. \A u : Pipeline!Requests!Answer(u) <=> PipelineProofs!Requests!Answer(u)
  BY <1>3, <1>4 DEF Pipeline!Requests!Answer, PipelineProofs!Requests!Answer,
     Pipeline!Requests!Verdict, PipelineProofs!Requests!Verdict
<1>9. \A u : /\ Pipeline!Requests!GiveUp(u) <=> PipelineProofs!Requests!GiveUp(u)
             /\ Pipeline!Requests!Forget(u) <=> PipelineProofs!Requests!Forget(u)
  BY <1>3, <1>4 DEF Pipeline!Requests!GiveUp, PipelineProofs!Requests!GiveUp,
     Pipeline!Requests!Forget, PipelineProofs!Requests!Forget
<1>10. Pipeline!Requests!ForgetAll <=> PipelineProofs!Requests!ForgetAll
  BY <1>3, <1>4 DEF Pipeline!Requests!ForgetAll, PipelineProofs!Requests!ForgetAll
<1>11. Pipeline!Requests!Request = PipelineProofs!Requests!Request
  BY DEF Pipeline!Requests!Request, PipelineProofs!Requests!Request
<1> QED
  BY <1>5, <1>6, <1>7, <1>8, <1>9, <1>10, <1>11
  DEF Pipeline!Requests!Next, PipelineProofs!Requests!Next

\* pipeline.go: and the server is what RenderRequests promises, results reach the
\* cache for the newest request of a document only, whichever messages, timers
\* and goroutines make the requests.
THEOREM ServerImplementsRequests == Safe => Pipeline!ImplementsRequests
<1>1. PipelineProofs!Safe => PipelineProofs!ImplementsRequests
  BY PipelineAssumptions, PipelineProofs!PipelineImplementsRequests
<1> QED
  BY <1>1, RequestNames, ServersPipeline, PTL
  DEF Pipeline!ImplementsRequests, PipelineProofs!ImplementsRequests, Pipeline!Requests!Spec,
      PipelineProofs!Requests!Spec

-----------------------------------------------------------------------------
(* Steps that neither publish nor store nor forget anything.               *)

Quiet ==
    /\ UNCHANGED <<pubSeq, pubCounter, publishing, client>>
    /\ UNCHANGED <<renderedDiags, renderedRaw, renderedBaseline>>
    /\ \A u \in Uri : Open(u)' <=> Open(u)
    /\ \A u \in Uri : ~Open(u) => /\ u \in lintTimers' => u \in lintTimers
                                  /\ u \in pendingShow' => u \in pendingShow
    /\ \A u \in Uri, k \in 1..7 :
          ~Open(u) /\ todo[Loop] = CloseRest(u, k) => todo'[Loop] = todo[Loop]
    /\ \A u \in Uri : Open(u) /\ Has(Loop, "publish", u) => Has(Loop, "publish", u)'
    /\ \A u \in Uri : Open(u) /\ Coming(u) => Coming(u)'

\* They keep the rest of the invariant.
LEMMA QuietStep ==
    ASSUME Inv, Quiet
    PROVE  Forgetting' /\ Publishes' /\ Delivering' /\ Showing'
<1>1. Publishes' BY DEF Inv, Quiet, Publishes
<1>2. Delivering' BY DEF Inv, Quiet, Delivering
<1>3. Showing' BY DEF Inv, Quiet, Showing
<1>4. Forgetting'
  <2> SUFFICES ASSUME NEW u \in Uri, ~Open(u)'
               PROVE  \E k \in 1..8 : Forgotten(u, k)' /\ (k < 8 => todo'[Loop] = CloseRest(u, k)')
    BY DEF Forgetting
  <2>1. ~Open(u) BY DEF Quiet
  <2>2. PICK k \in 1..8 : Forgotten(u, k) /\ (k < 8 => todo[Loop] = CloseRest(u, k))
    BY <2>1 DEF Inv, Forgetting
  <2>3. Forgotten(u, k)' BY <2>1, <2>2 DEF Quiet, Forgotten
  <2>4. k < 8 => todo'[Loop] = CloseRest(u, k)
    <3>1. k < 8 => k \in 1..7 OBVIOUS
    <3> QED BY <2>1, <2>2, <3>1 DEF Quiet
  <2>5. CloseRest(u, k)' = CloseRest(u, k) BY DEF CloseRest
  <2> QED BY <2>3, <2>4, <2>5
<1> QED BY <1>1, <1>2, <1>3, <1>4

\* What was to be run is still to be run when only idle threads are given work.
LEMMA HasKept ==
    ASSUME \A t \in Thread : todo'[t] = todo[t] \/ todo[t] = <<>>
    PROVE  \A t \in Thread : \A do, u : Has(t, do, u) => Has(t, do, u)'
<1> SUFFICES ASSUME NEW t \in Thread, NEW do, NEW u, Has(t, do, u) PROVE Has(t, do, u)'
  OBVIOUS
<1>1. DOMAIN <<>> = {} OBVIOUS
<1>2. todo[t] # <<>> BY <1>1 DEF Has
<1>3. todo'[t] = todo[t] BY <1>2
<1> QED BY <1>3 DEF Has

\* The messages but for didOpen and didClose.
LEMMA MessageQuiet ==
    ASSUME Inv, Message,
           \A u \in Uri, t \in Text : ~DidOpen(u, t), \A u \in Uri : ~DidClose(u)
    PROVE  Quiet
<1>1. Types BY DEF Inv
<1>2. /\ todo[Loop] = <<>>
      /\ \A t \in Thread : todo'[t] = todo[t] \/ todo[t] = <<>>
  BY <1>1, MessageRuns
<1>3. \A t \in Thread : \A do, u : Has(t, do, u) => Has(t, do, u)' BY <1>2, HasKept
<1>4. \A u \in Uri : Coming(u) => Coming(u)' BY <1>3 DEF Coming
<1>5. \A u \in Uri, k \in 1..7 : todo[Loop] # CloseRest(u, k) BY <1>2, CloseRestFacts
<1>6. /\ UNCHANGED <<pubSeq, pubCounter, publishing, client>>
      /\ UNCHANGED <<renderedDiags, renderedRaw, renderedBaseline>>
      /\ UNCHANGED <<lintTimers, pendingShow>>
  BY DEF Message, DidChange, ExecuteCommand, DidChangeWatchedFiles, DidChangeConfig,
         publishVars, renderedVars, showVars
<1>7. \A u \in Uri : Open(u)' <=> Open(u)
  <2>1. ASSUME NEW v \in Uri, NEW t \in Text, DidChange(v, t)
        PROVE  \A u \in Uri : Open(u)' <=> Open(u)
    <3> DEFINE d == [version |-> edits + 1, text |-> t]
    <3>1. docs' = [docs EXCEPT ![v] = d] /\ Open(v) /\ edits < MaxEdits BY <2>1 DEF DidChange
    <3>2. d \in Document BY <1>1, <3>1 DEF Document, Types, TypeOK
    <3> HIDE DEF d
    <3>3. docs \in [Uri -> Document \cup {None}] BY <1>1 DEF Types, TypeOK
    <3> QED BY <3>1, <3>2, <3>3 DEF Open
  <2>2. CASE UNCHANGED docs BY <2>2 DEF Open
  <2> QED
    BY <2>1, <2>2 DEF Message, ExecuteCommand, DidChangeWatchedFiles, DidChangeConfig
<1>8. Loop \in Thread BY DEF Thread
<1> QED BY <1>3, <1>4, <1>5, <1>6, <1>7, <1>8 DEF Quiet

\* The frames of the message loop but for those of didClose.
LEMMA LoopQuiet ==
    ASSUME Inv, Debounce \/ SetPendingShow \/ ApplySettings \/ Configure \/ InvalidateAll
    PROVE  Quiet
<1>1. Types BY DEF Inv
<1>2. /\ todo[Loop] # <<>> /\ Then(Loop, <<>>) /\ UNCHANGED docs
      /\ Top(Loop).do \in {"debounce", "setPending", "enable", "disable", "configure",
                           "invalidate"}
  BY DEF Debounce, SetPendingShow, ApplySettings, Configure, InvalidateAll, Runs, inputVars
<1>3. Top(Loop).do \notin Closing /\ Top(Loop).do \notin {"publish", "serveShow"}
  BY <1>2 DEF Closing
<1>4. /\ Top(Loop) \in LoopFrame
      /\ \A u \in Uri, k \in 1..7 : todo[Loop] # CloseRest(u, k)
  BY <1>1, <1>2, <1>3, LoopTop
<1>5. Ran(Loop, <<>>) BY <1>1, <1>2, LoopGoesOn
<1>6. Loop \in Thread /\ <<>> \in Seq(Frame) /\ TypeOK BY <1>1 DEF Thread, Types
<1>7. \A t \in Thread, do \in {"publish", "serveShow"} : \A u : Has(t, do, u) => Has(t, do, u)'
  BY <1>2, <1>3, <1>5, <1>6, HasStep
<1>8. \A u \in Uri : Coming(u) => Coming(u)' BY <1>7 DEF Coming
<1>9. /\ UNCHANGED <<pubSeq, pubCounter, publishing, client>>
      /\ UNCHANGED <<renderedDiags, renderedRaw, renderedBaseline>>
  BY DEF Debounce, SetPendingShow, ApplySettings, Configure, InvalidateAll, publishVars,
         renderedVars
<1>10. \A u \in Uri : Open(u)' <=> Open(u) BY <1>2 DEF Open
<1>11. \A u \in Uri : ~Open(u) => (u \in pendingShow' => u \in pendingShow)
  BY DEF Debounce, SetPendingShow, ApplySettings, Configure, InvalidateAll, showVars
<1>12. \A u \in Uri : ~Open(u) => (u \in lintTimers' => u \in lintTimers)
  <2>1. CASE Debounce
    <3>1. Top(Loop).do = "debounce" BY <2>1 DEF Debounce, Runs
    <3>2. Open(Top(Loop).uri) BY <1>4, <3>1 DEF LoopFrame, ThreadFrame
    <3> QED BY <2>1, <3>2 DEF Debounce
  <2>2. CASE ~Debounce BY <2>2 DEF SetPendingShow, ApplySettings, Configure, InvalidateAll
  <2> QED BY <2>1, <2>2
<1> QED BY <1>4, <1>6, <1>7, <1>8, <1>9, <1>10, <1>11, <1>12 DEF Quiet

\* What a thread's step makes of the frames that are about to publish.
LEMMA ThreadEffects ==
    ASSUME Inv, NEW th \in Thread, ThreadStep(th)
    PROVE  /\ UNCHANGED docs /\ \A u \in Uri : Open(u)' <=> Open(u)
           /\ \A u \in Uri, k \in 1..7 :
                 todo[Loop] = CloseRest(u, k) => todo'[Loop] = todo[Loop]
           /\ \A u : Has(Loop, "publish", u) /\ ~(Top(th).do = "publish" /\ Top(th).uri = u)
                       => Has(Loop, "publish", u)'
           /\ \A u : Coming(u) /\ ~(Top(th).do = "publish" /\ Top(th).uri = u) => Coming(u)'
           /\ \A u : Top(th).do = "store" /\ Top(th).uri = u /\ Open(u) => Coming(u)'
           /\ Top(th).uri \in Uri
<1>1. Types /\ TypeOK BY DEF Inv, Types
<1>2. /\ todo[th] # <<>> /\ Top(th).do \in ThreadDo /\ UNCHANGED docs
      /\ \E fs \in Seq(ThreadFrame) : GoesOn(th, fs)
  BY <1>1, ThreadStepRuns DEF inputVars
<1>3. PICK fs \in Seq(ThreadFrame) : GoesOn(th, fs) BY <1>2
<1>4. \A i \in DOMAIN fs : fs[i].uri = Top(th).uri BY <1>3 DEF GoesOn
<1>5. Ran(th, fs) /\ (th # Loop => todo'[Loop] = todo[Loop])
  BY <1>1, <1>2, <1>3, <1>4, Continues DEF GoesOn
<1>6. fs \in Seq(Frame)
  <2>1. ThreadFrame \subseteq Frame BY DEF ThreadFrame
  <2> QED BY <2>1
<1>7. /\ \A t \in Thread : \A do, u :
            Has(t, do, u) /\ ~(t = th /\ Top(th).do = do /\ Top(th).uri = u) => Has(t, do, u)'
      /\ \A i \in DOMAIN fs : Has(th, fs[i].do, fs[i].uri)'
  BY <1>1, <1>2, <1>5, <1>6, HasStep
<1>8. ASSUME NEW u, Coming(u), ~(Top(th).do = "publish" /\ Top(th).uri = u) PROVE Coming(u)'
  <2>1. PICK t \in Thread : Has(t, "serveShow", u) \/ Has(t, "publish", u) BY <1>8 DEF Coming
  <2>2. CASE Has(t, "publish", u)
    <3>1. Has(t, "publish", u)' BY <1>7, <1>8, <2>2
    <3> QED BY <3>1 DEF Coming
  <2>3. CASE Has(t, "serveShow", u) /\ ~(t = th /\ Top(th).do = "serveShow" /\ Top(th).uri = u)
    <3>1. Has(t, "serveShow", u)' BY <1>7, <2>3
    <3> QED BY <3>1 DEF Coming
  <2>4. CASE t = th /\ Top(th).do = "serveShow" /\ Top(th).uri = u
    <3>1. PICK i \in DOMAIN fs : fs[i].do = "publish" BY <1>3, <2>4 DEF GoesOn
    <3>2. Has(th, "publish", u)' BY <1>4, <1>7, <2>4, <3>1
    <3> QED BY <3>2 DEF Coming
  <2> QED BY <2>1, <2>2, <2>3, <2>4
<1>9. ASSUME NEW u, Top(th).do = "store", Top(th).uri = u, Open(u) PROVE Coming(u)'
  <2>1. PICK i \in DOMAIN fs : fs[i].do = "serveShow" BY <1>3, <1>9 DEF GoesOn
  <2>2. Has(th, "serveShow", u)' BY <1>4, <1>7, <1>9, <2>1
  <2> QED BY <2>2 DEF Coming
<1>10. \A u : Has(Loop, "publish", u) /\ ~(Top(th).do = "publish" /\ Top(th).uri = u)
                => Has(Loop, "publish", u)'
  <2>1. Loop \in Thread BY DEF Thread
  <2> QED BY <1>7, <2>1
<1>11. \A u \in Uri, k \in 1..7 : todo[Loop] = CloseRest(u, k) => todo'[Loop] = todo[Loop]
  <2>1. CASE th # Loop BY <1>5, <2>1
  <2>2. CASE th = Loop
    <3>1. Top(Loop).do \notin Closing BY <1>2, <2>2 DEF ThreadDo, Closing
    <3> QED BY <1>1, <1>2, <2>2, <3>1, LoopTop
  <2> QED BY <2>1, <2>2
<1>12. \A u \in Uri : Open(u)' <=> Open(u) BY <1>2 DEF Open
<1>13. Top(th).uri \in Uri BY <1>1, <1>2, ThreadTop
<1>14. \A u : Coming(u) /\ ~(Top(th).do = "publish" /\ Top(th).uri = u) => Coming(u)'
  BY <1>8
<1>15. \A u : Top(th).do = "store" /\ Top(th).uri = u /\ Open(u) => Coming(u)' BY <1>9
<1> QED BY <1>2, <1>10, <1>11, <1>12, <1>13, <1>14, <1>15

\* The frames any thread may run, but for the two that store and publish.
LEMMA ThreadQuiet ==
    ASSUME Inv, NEW th \in Thread,
           \/ Analyze(th) \/ Schedule(th) \/ Notify(th) \/ ServeShow(th) \/ GetDoc(th)
              \/ Show(th) \/ WriteTemp(th)
           \/ StoreRendered(th) /\ ~Open(Top(th).uri)
           \/ SchedulePublish(th) /\ ~Open(Top(th).uri)
    PROVE  Quiet
<1>1. ThreadStep(th) BY DEF ThreadStep
<1>2. Top(th).do = "publish" => ~Open(Top(th).uri)
  BY DEF Analyze, Schedule, Notify, ServeShow, GetDoc, Show, WriteTemp, StoreRendered,
         SchedulePublish, Runs
<1>3. /\ UNCHANGED <<pubSeq, pubCounter, publishing, client>>
      /\ UNCHANGED <<renderedDiags, renderedRaw, renderedBaseline>>
      /\ UNCHANGED lintTimers /\ pendingShow' \subseteq pendingShow
  BY DEF Analyze, Schedule, Notify, ServeShow, GetDoc, Show, WriteTemp, StoreRendered, StillOpen,
         SchedulePublish, publishVars, renderedVars, showVars
<1> QED BY <1>1, <1>2, <1>3, ThreadEffects DEF Quiet

\* Timers that fire and renders.
LEMMA GoroutineQuiet ==
    ASSUME Inv, (\E u \in Uri : LintTimerFires(u)) \/ (\E j \in Job : RenderStep(j))
    PROVE  Quiet
<1>1. Types BY DEF Inv
<1>2. /\ \A t \in Thread : todo'[t] = todo[t] \/ todo[t] = <<>>
      /\ todo'[Loop] = todo[Loop]
  <2>1. ASSUME NEW u \in Uri, LintTimerFires(u)
        PROVE  /\ \A t \in Thread : todo'[t] = todo[t] \/ todo[t] = <<>>
               /\ todo'[Loop] = todo[Loop]
    <3>1. todo \in [Thread -> Seq(Frame)] BY <1>1 DEF Types, TypeOK
    <3>2. PICK w \in Worker : /\ todo[w] = <<>>
                              /\ todo' = [todo EXCEPT ![w] = <<Call("getDoc", u)>>]
      BY <2>1 DEF LintTimerFires
    <3>3. w # Loop /\ Loop \in Thread BY DEF Thread
    <3> QED BY <3>1, <3>2, <3>3
  <2>2. ASSUME NEW j \in Job, RenderStep(j)
        PROVE  /\ \A t \in Thread : todo'[t] = todo[t] \/ todo[t] = <<>>
               /\ todo'[Loop] = todo[Loop]
    BY <1>1, <2>2, RenderRuns DEF Thread
  <2> QED BY <2>1, <2>2
<1>3. \A t \in Thread : \A do, u : Has(t, do, u) => Has(t, do, u)' BY <1>2, HasKept
<1>4. \A u \in Uri : Coming(u) => Coming(u)' BY <1>3 DEF Coming
<1>5. /\ UNCHANGED <<pubSeq, pubCounter, publishing, client>>
      /\ UNCHANGED <<renderedDiags, renderedRaw, renderedBaseline>>
      /\ UNCHANGED <<docs, pendingShow>> /\ lintTimers' \subseteq lintTimers
  BY DEF LintTimerFires, RenderStep, publishVars, renderedVars, showVars, inputVars
<1>6. \A u \in Uri : Open(u)' <=> Open(u) BY <1>5 DEF Open
<1>7. Loop \in Thread BY DEF Thread
<1> QED BY <1>2, <1>3, <1>4, <1>5, <1>6, <1>7 DEF Quiet

-----------------------------------------------------------------------------
(* Opening and closing a document.                                         *)

\* While the message loop waits, every closed document is forgotten.
LEMMA AtRest ==
    ASSUME Inv, todo[Loop] = <<>>, NEW u \in Uri, ~Open(u)
    PROVE  Forgotten(u, 8)
<1>1. PICK k \in 1..8 : Forgotten(u, k) /\ (k < 8 => todo[Loop] = CloseRest(u, k))
  BY DEF Inv, Forgetting
<1>2. k < 8 => k \in 1..7 OBVIOUS
<1>3. \A l \in 1..7 : CloseRest(u, l) # <<>> BY CloseRestFacts
<1>4. k = 8 BY <1>1, <1>2, <1>3
<1> QED BY <1>1, <1>4

\* What is forgotten stays so while nobody touches it.
LEMMA StaysForgotten ==
    ASSUME NEW u, NEW k, Forgotten(u, k),
           UNCHANGED <<lintTimers, pubSeq, publishing, client, renderedDiags, renderedRaw,
                       renderedBaseline, pendingShow>>
    PROVE  Forgotten(u, k)'
  BY DEF Forgotten

LEMMA OpenStep ==
    ASSUME Inv, NEW u \in Uri, NEW t \in Text, DidOpen(u, t)
    PROVE  Forgetting' /\ Publishes' /\ Delivering' /\ Showing'
<1>1. Types BY DEF Inv
<1>2. /\ docs \in [Uri -> Document \cup {None}] /\ todo \in [Thread -> Seq(Frame)]
      /\ edits \in 0..MaxEdits /\ Loop \in Thread
  BY <1>1 DEF Types, TypeOK, Thread
<1> DEFINE d == [version |-> edits + 1, text |-> t]
           f == CallOn("analyze", u, d)
           g == CallOn("publish", u, d)
           fs == <<f, g>>
<1>3. /\ docs' = [docs EXCEPT ![u] = d] /\ todo' = [todo EXCEPT ![Loop] = fs]
      /\ todo[Loop] = <<>> /\ ~Open(u) /\ edits < MaxEdits
  BY DEF DidOpen, Ready, PublishDiagnostics
<1>4. UNCHANGED <<lintTimers, pubSeq, pubCounter, publishing, client, renderedDiags, renderedRaw,
                  renderedBaseline, pendingShow>>
  BY DEF DidOpen, publishVars, renderedVars, showVars
<1>5. d \in Document BY <1>2, <1>3 DEF Document
<1>6. g.do = "publish" /\ g.uri = u BY DEF CallOn
<1> HIDE DEF d, f, g
<1>7. 2 \in DOMAIN fs /\ fs[2] = g OBVIOUS
<1> HIDE DEF fs
<1>8. todo'[Loop] = fs /\ \A th \in Thread : th # Loop => todo'[th] = todo[th] BY <1>2, <1>3
<1>9. Has(Loop, "publish", u)' BY <1>6, <1>7, <1>8 DEF Has
<1>10. \A v \in Uri : Open(v)' <=> (Open(v) \/ v = u) BY <1>2, <1>3, <1>5 DEF Open
<1>11. \A th \in Thread : \A do, v : Has(th, do, v) => Has(th, do, v)' BY <1>3, <1>8, HasKept
<1>12. \A v \in Uri : Coming(v) => Coming(v)' BY <1>11 DEF Coming
<1>13. Forgetting'
  <2> SUFFICES ASSUME NEW v \in Uri, ~Open(v)' PROVE Forgotten(v, 8)' BY DEF Forgetting
  <2>1. Forgotten(v, 8) BY <1>3, <1>10, AtRest
  <2> QED BY <1>4, <2>1, StaysForgotten
<1>14. Publishes' BY <1>4 DEF Inv, Publishes
<1>15. Delivering'
  <2>1. pubSeq[u] = 0 BY <1>3, AtRest DEF Forgotten
  <2> QED BY <1>4, <1>9, <1>10, <1>11, <1>2, <2>1 DEF Inv, Delivering
<1>16. Showing'
  <2>1. Coming(u)' BY <1>2, <1>9 DEF Coming
  <2> QED BY <1>4, <1>10, <1>12, <2>1 DEF Inv, Showing
<1> QED BY <1>13, <1>14, <1>15, <1>16

LEMMA CloseMessageStep ==
    ASSUME Inv, NEW u \in Uri, DidClose(u)
    PROVE  Forgetting' /\ Publishes' /\ Delivering' /\ Showing'
<1>1. Types BY DEF Inv
<1>2. /\ docs \in [Uri -> Document \cup {None}] /\ todo \in [Thread -> Seq(Frame)]
      /\ Loop \in Thread
  BY <1>1 DEF Types, TypeOK, Thread
<1> DEFINE fs == CloseFrames(u)
<1>3. docs' = [docs EXCEPT ![u] = None] /\ todo' = [todo EXCEPT ![Loop] = fs] /\ todo[Loop] = <<>>
  BY DEF DidClose, Ready
<1>4. UNCHANGED <<lintTimers, pubSeq, pubCounter, publishing, client, renderedDiags, renderedRaw,
                  renderedBaseline, pendingShow>>
  BY DEF DidClose, publishVars, renderedVars, showVars
<1>5. fs = CloseRest(u, 1)
  <2>1. CloseRest(u, 1) = [i \in 1..7 |-> Call(CloseDo[i], u)] BY DEF CloseRest
  <2> QED BY <2>1 DEF CloseFrames, CloseDo
<1> HIDE DEF fs
<1>6. todo'[Loop] = fs /\ \A th \in Thread : th # Loop => todo'[th] = todo[th] BY <1>2, <1>3
<1>7. \A v \in Uri : Open(v)' <=> (Open(v) /\ v # u) BY <1>2, <1>3 DEF Open
<1>8. \A th \in Thread : \A do, v : Has(th, do, v) => Has(th, do, v)' BY <1>3, <1>6, HasKept
<1>9. \A v \in Uri : Coming(v) => Coming(v)' BY <1>8 DEF Coming
<1>10. Forgetting'
  <2> SUFFICES ASSUME NEW v \in Uri, ~Open(v)'
               PROVE  \E k \in 1..8 : Forgotten(v, k)' /\ (k < 8 => todo'[Loop] = CloseRest(v, k)')
    BY DEF Forgetting
  <2>1. CASE v = u
    <3>1. Forgotten(u, 1)' BY DEF Forgotten
    <3>2. todo'[Loop] = CloseRest(u, 1)' BY <1>5, <1>6 DEF CloseRest
    <3>3. 1 \in 1..8 OBVIOUS
    <3> QED BY <2>1, <3>1, <3>2, <3>3
  <2>2. CASE v # u
    <3>1. Forgotten(v, 8) BY <1>3, <1>7, <2>2, AtRest
    <3>2. Forgotten(v, 8)' BY <1>4, <3>1, StaysForgotten
    <3>3. 8 \in 1..8 /\ ~(8 < 8) OBVIOUS
    <3> QED BY <3>2, <3>3
  <2> QED BY <2>1, <2>2
<1>11. Publishes' BY <1>4 DEF Inv, Publishes
<1>12. Delivering' BY <1>2, <1>4, <1>7, <1>8 DEF Inv, Delivering
<1>13. Showing' BY <1>4, <1>7, <1>9 DEF Inv, Showing
<1> QED BY <1>10, <1>11, <1>12, <1>13

\* When the message loop is about to make a call of didClose, what comes before
\* it is done, for that document; any other closed document is forgotten.
LEMMA CloseState ==
    ASSUME Inv, NEW k \in 1..7, todo[Loop] # <<>>, Top(Loop).do = CloseDo[k]
    PROVE  /\ Top(Loop).uri \in Uri /\ ~Open(Top(Loop).uri)
           /\ Forgotten(Top(Loop).uri, k)
           /\ Tail(todo[Loop]) = CloseRest(Top(Loop).uri, k + 1)
           /\ \A v \in Uri : ~Open(v) /\ v # Top(Loop).uri => Forgotten(v, 8)
           /\ \A do \in {"publish", "serveShow"} : \A v : ~Has(Loop, do, v)
<1> DEFINE u == Top(Loop).uri
<1>1. \A i, l \in 1..7 : CloseDo[i] = CloseDo[l] => i = l BY DEF CloseDo
<1>2. \A i \in 1..7 : CloseDo[i] \in Closing BY DEF CloseDo, Closing
<1>3. /\ u \in Uri /\ ~Open(u)
      /\ \E i \in 1..7 : todo[Loop] = CloseRest(u, i) /\ Top(Loop).do = CloseDo[i]
  BY <1>2, ClosingTop DEF Inv
<1>4. todo[Loop] = CloseRest(u, k) BY <1>1, <1>3
<1>5. ASSUME NEW v \in Uri, NEW l \in 1..7, todo[Loop] = CloseRest(v, l)
      PROVE  v = u /\ l = k
  <2>1. Top(Loop) = Call(CloseDo[l], v) BY <1>5, CloseRestFacts DEF Top
  <2>2. Top(Loop).uri = v /\ Top(Loop).do = CloseDo[l] BY <2>1 DEF Call
  <2> QED BY <1>1, <2>2
<1>6. \A v \in Uri : ~Open(v) =>
         \E l \in 1..8 : Forgotten(v, l) /\ (l < 8 => todo[Loop] = CloseRest(v, l))
  BY DEF Inv, Forgetting
<1> HIDE DEF u
<1>7. \A l \in 1..8 : l < 8 => l \in 1..7 OBVIOUS
<1>8. Forgotten(u, k)
  <2>1. PICK l \in 1..8 : Forgotten(u, l) /\ (l < 8 => todo[Loop] = CloseRest(u, l))
    BY <1>3, <1>6
  <2>2. CASE l = 8 BY <2>1, <2>2 DEF Forgotten
  <2>3. CASE l # 8
    <3>1. l < 8 /\ l \in 1..7 BY <2>3
    <3>2. l = k BY <1>3, <1>5, <2>1, <3>1
    <3> QED BY <2>1, <3>2
  <2> QED BY <2>2, <2>3
<1>9. ASSUME NEW v \in Uri, ~Open(v), v # u PROVE Forgotten(v, 8)
  <2>1. PICK l \in 1..8 : Forgotten(v, l) /\ (l < 8 => todo[Loop] = CloseRest(v, l))
    BY <1>6, <1>9
  <2>2. CASE l = 8 BY <2>1, <2>2
  <2>3. CASE l # 8
    <3>1. l < 8 /\ l \in 1..7 BY <2>3
    <3> QED BY <1>5, <1>9, <2>1, <3>1
  <2> QED BY <2>2, <2>3
<1>10. Tail(todo[Loop]) = CloseRest(u, k + 1)
  <2>1. Tail(CloseRest(u, k)) = CloseRest(u, k + 1) BY <1>3, CloseRestFacts
  <2> QED BY <1>4, <2>1
<1>11. \A do \in {"publish", "serveShow"} : \A v : ~Has(Loop, do, v)
  <2>1. \A i \in DOMAIN todo[Loop] : todo[Loop][i].do \in Closing BY <1>3, <1>4, CloseRestFacts
  <2> QED BY <2>1 DEF Has, Closing
<1> QED BY <1>3, <1>8, <1>9, <1>10, <1>11 DEF u

\* One call of didClose forgets one more thing.
LEMMA CloseStep ==
    ASSUME Inv, NEW k \in 1..7, NEW u, todo[Loop] # <<>>, Top(Loop).do = CloseDo[k],
           Top(Loop).uri = u, Then(Loop, <<>>), UNCHANGED docs,
           Forgotten(u, k) => Forgotten(u, k + 1)',
           \A v \in Uri : Forgotten(v, 8) => Forgotten(v, 8)'
    PROVE  /\ Forgetting'
           /\ \A v \in Uri : Open(v)' <=> Open(v)
           /\ \A v \in Uri : Coming(v) => Coming(v)'
           /\ \A v : ~Has(Loop, "publish", v)
<1>1. /\ u \in Uri /\ ~Open(u) /\ Forgotten(u, k) /\ Tail(todo[Loop]) = CloseRest(u, k + 1)
      /\ \A v \in Uri : ~Open(v) /\ v # u => Forgotten(v, 8)
      /\ \A do \in {"publish", "serveShow"} : \A v : ~Has(Loop, do, v)
  BY CloseState
<1>2. /\ todo'[Loop] = Tail(todo[Loop])
      /\ \A t \in Thread \ {Loop} : todo'[t] = todo[t]
  BY LoopGoesOn DEF Inv
<1>3. Forgotten(u, k + 1)' BY <1>1
<1>4. \A v \in Uri : Open(v)' <=> Open(v) BY DEF Open
<1>5. Forgetting'
  <2> SUFFICES ASSUME NEW v \in Uri, ~Open(v)'
               PROVE  \E l \in 1..8 : Forgotten(v, l)' /\ (l < 8 => todo'[Loop] = CloseRest(v, l)')
    BY DEF Forgetting
  <2>1. CASE v = u
    <3>1. todo'[Loop] = CloseRest(u, k + 1)' BY <1>1, <1>2 DEF CloseRest
    <3>2. k + 1 \in 1..8 OBVIOUS
    <3> QED BY <1>3, <2>1, <3>1, <3>2
  <2>2. CASE v # u
    <3>1. Forgotten(v, 8)' BY <1>1, <1>4, <2>2
    <3>2. 8 \in 1..8 /\ ~(8 < 8) OBVIOUS
    <3> QED BY <3>1, <3>2
  <2> QED BY <2>1, <2>2
<1>6. ASSUME NEW v \in Uri, Coming(v) PROVE Coming(v)'
  <2>1. PICK t \in Thread : Has(t, "serveShow", v) \/ Has(t, "publish", v) BY <1>6 DEF Coming
  <2>2. t # Loop BY <1>1, <2>1
  <2>3. todo'[t] = todo[t] BY <1>2, <2>2
  <2>4. Has(t, "serveShow", v)' \/ Has(t, "publish", v)' BY <2>1, <2>3 DEF Has
  <2> QED BY <2>4 DEF Coming
<1> QED BY <1>1, <1>4, <1>5, <1>6

\* The seven calls.
LEMMA ClosingStep ==
    ASSUME Inv, CancelDebounce \/ ForgetPublish \/ CancelRender \/ ClearRenderState
                   \/ TakePendingShow \/ ClearDiagnostics \/ RemoveRenderTemps
    PROVE  Forgetting' /\ Publishes' /\ Delivering' /\ Showing'
<1> DEFINE Rest == /\ \A v \in Uri : Open(v)' <=> Open(v)
                   /\ \A v \in Uri : Coming(v) => Coming(v)'
                   /\ \A v : ~Has(Loop, "publish", v)
           G == Forgetting' /\ Publishes' /\ Delivering' /\ Showing'
<1>1. PICK u : u = Top(Loop).uri OBVIOUS
<1>2. todo[Loop] # <<>> /\ Then(Loop, <<>>) /\ UNCHANGED docs
  BY DEF CancelDebounce, ForgetPublish, CancelRender, ClearRenderState, TakePendingShow,
         ClearDiagnostics, RemoveRenderTemps, Runs, inputVars
<1>3. /\ pubSeq \in [Uri -> Nat] /\ publishing \subseteq Publish /\ pubCounter \in Nat
      /\ client \in [Uri -> [seq : Nat, shown : Shown \cup {None}]]
      /\ renderedDiags \in [Uri -> Result \cup {None}]
      /\ renderedRaw \in [Uri -> Output \cup {None}]
      /\ renderedBaseline \in [Uri -> Output \cup {None}]
  BY DEF Inv, Types, TypeOK
<1>4. /\ CloseDo[1] = "cancelDebounce" /\ CloseDo[2] = "forgetPublish"
      /\ CloseDo[3] = "cancelRender" /\ CloseDo[4] = "clearRender" /\ CloseDo[5] = "takeShow"
      /\ CloseDo[6] = "clearDiagnostics" /\ CloseDo[7] = "removeTemps"
  BY DEF CloseDo
<1>5. ASSUME NEW k \in 1..7, Top(Loop).do = CloseDo[k]
      PROVE  u \in Uri /\ ~Open(u) /\ Forgotten(u, k)
  BY <1>1, <1>2, <1>5, CloseState
<1>6. ASSUME Forgetting', Rest,
             UNCHANGED <<pubSeq, pubCounter, publishing, client, renderedDiags>>
      PROVE  G
  <2>1. Publishes' BY <1>6 DEF Inv, Publishes
  <2>2. Delivering' BY <1>6 DEF Inv, Delivering
  <2>3. Showing' BY <1>6 DEF Inv, Showing
  <2> QED BY <1>6, <2>1, <2>2, <2>3
<1>7. ASSUME NEW k \in 1..7, Top(Loop).do = CloseDo[k],
             Forgotten(u, k) => Forgotten(u, k + 1)',
             \A v \in Uri : Forgotten(v, 8) => Forgotten(v, 8)'
      PROVE  Forgetting' /\ Rest
  BY <1>1, <1>2, <1>7, CloseStep
<1> SUFFICES G OBVIOUS
<1> HIDE DEF Rest, G
<1>8. CASE CancelDebounce
  <2>1. /\ lintTimers' = lintTimers \ {u}
        /\ UNCHANGED <<pubSeq, pubCounter, publishing, client, renderedDiags, renderedRaw,
                       renderedBaseline, pendingShow>>
    BY <1>1, <1>8 DEF CancelDebounce, publishVars, renderedVars, showVars
  <2>2. Top(Loop).do = CloseDo[1] /\ 1 \in 1..7 BY <1>4, <1>8 DEF CancelDebounce, Runs
  <2>3. Forgotten(u, 1 + 1)' BY <2>1 DEF Forgotten
  <2>4. \A v \in Uri : Forgotten(v, 8) => Forgotten(v, 8)' BY <2>1 DEF Forgotten
  <2>5. Forgetting' /\ Rest BY <1>7, <2>2, <2>3, <2>4
  <2> QED BY <1>6, <2>1, <2>5
<1>9. CASE ForgetPublish
  <2>1. /\ pubSeq' = [pubSeq EXCEPT ![u] = 0] /\ publishing' = Unsuperseded
        /\ UNCHANGED <<lintTimers, pubCounter, client, renderedDiags, renderedRaw,
                       renderedBaseline, pendingShow>>
    BY <1>1, <1>9 DEF ForgetPublish, renderedVars, showVars
  <2>2. Top(Loop).do = CloseDo[2] /\ 2 \in 1..7 BY <1>4, <1>9 DEF ForgetPublish, Runs
  <2>3. u \in Uri /\ ~Open(u) /\ Forgotten(u, 2) BY <1>5, <2>2
  <2>4. ASSUME NEW p \in publishing
        PROVE  /\ p.uri \in Uri /\ p.seq = pubSeq[p.uri] /\ p.seq > 0
    <3>1. p \in Publish /\ p.uri \in Uri BY <1>3 DEF Publish
    <3>2. client[p.uri].seq \in Nat BY <1>3, <3>1
    <3>3. p.seq = pubSeq[p.uri] /\ client[p.uri].seq < p.seq BY DEF Inv, Publishes
    <3> QED BY <1>3, <3>1, <3>2, <3>3
  <2>5. publishing' = {p \in publishing : p.uri # u}
    <3>1. ASSUME NEW p \in publishing PROVE ~Superseded(p)' <=> p.uri # u
      BY <1>3, <2>1, <2>3, <2>4 DEF Superseded
    <3> QED BY <2>1, <3>1 DEF Unsuperseded
  <2>6. Forgotten(u, 2 + 1)' BY <1>3, <2>1, <2>3, <2>5 DEF Forgotten
  <2>7. ASSUME NEW v \in Uri, Forgotten(v, 8) PROVE Forgotten(v, 8)'
    BY <1>3, <2>1, <2>5, <2>7 DEF Forgotten
  <2>8. Forgetting' /\ Rest BY <1>7, <2>2, <2>6, <2>7
  <2>9. \A v \in Uri : v # u => pubSeq'[v] = pubSeq[v] BY <1>3, <2>1
  <2>10. Publishes'
    <3>1. \A p \in publishing' : p \in publishing /\ p.uri # u /\ p.uri \in Uri
      BY <2>4, <2>5
    <3>2. \A p \in publishing' : p.seq = pubSeq'[p.uri] /\ client'[p.uri].seq < p.seq
      BY <2>1, <2>9, <3>1 DEF Inv, Publishes
    <3>3. \A v \in Uri : pubSeq'[v] <= pubCounter' /\ client'[v].seq <= pubCounter'
      BY <1>3, <2>1, <2>9 DEF Inv, Publishes
    <3>4. \A p, q \in publishing' : p.uri = q.uri => p = q BY <3>1 DEF Inv, Publishes
    <3> QED BY <3>2, <3>3, <3>4 DEF Publishes
  <2>11. \A v \in Uri : Open(v)' => Open(v) /\ v # u BY <2>3, <2>8 DEF Rest
  <2>12. Delivering' BY <2>1, <2>5, <2>8, <2>9, <2>11 DEF Inv, Delivering, Rest
  <2>13. Showing' BY <2>1, <2>5, <2>8, <2>11 DEF Inv, Showing, Rest
  <2> QED BY <2>8, <2>10, <2>12, <2>13 DEF G
<1>10. CASE CancelRender
  <2>1. UNCHANGED <<lintTimers, pubSeq, pubCounter, publishing, client, renderedDiags, renderedRaw,
                    renderedBaseline, pendingShow>>
    BY <1>10 DEF CancelRender, publishVars, renderedVars, showVars
  <2>2. Top(Loop).do = CloseDo[3] /\ 3 \in 1..7 BY <1>4, <1>10 DEF CancelRender, Runs
  <2>3. Forgotten(u, 3) => Forgotten(u, 3 + 1)' BY <2>1 DEF Forgotten
  <2>4. \A v \in Uri : Forgotten(v, 8) => Forgotten(v, 8)' BY <2>1, StaysForgotten
  <2>5. Forgetting' /\ Rest BY <1>7, <2>2, <2>3, <2>4
  <2> QED BY <1>6, <2>1, <2>5
<1>11. CASE ClearRenderState
  <2>1. /\ renderedDiags' = [renderedDiags EXCEPT ![u] = None]
        /\ renderedRaw' = [renderedRaw EXCEPT ![u] = None]
        /\ renderedBaseline' = [renderedBaseline EXCEPT ![u] = None]
        /\ UNCHANGED <<lintTimers, pubSeq, pubCounter, publishing, client, pendingShow>>
    BY <1>1, <1>11 DEF ClearRenderState, publishVars, showVars
  <2>2. Top(Loop).do = CloseDo[4] /\ 4 \in 1..7 BY <1>4, <1>11 DEF ClearRenderState, Runs
  <2>3. u \in Uri /\ ~Open(u) /\ Forgotten(u, 4) BY <1>5, <2>2
  <2>4. Forgotten(u, 4 + 1)' BY <1>3, <2>1, <2>3 DEF Forgotten
  <2>5. ASSUME NEW v \in Uri, Forgotten(v, 8) PROVE Forgotten(v, 8)'
    BY <1>3, <2>1, <2>5 DEF Forgotten
  <2>6. Forgetting' /\ Rest BY <1>7, <2>2, <2>4, <2>5
  <2>7. Publishes' BY <2>1 DEF Inv, Publishes
  <2>8. Delivering' BY <2>1, <2>6 DEF Inv, Delivering, Rest
  <2>9. \A v \in Uri : Open(v)' => Open(v) /\ renderedDiags'[v] = renderedDiags[v]
    BY <1>3, <2>1, <2>3, <2>6 DEF Rest
  <2>10. Showing' BY <2>1, <2>6, <2>9 DEF Inv, Showing, Rest
  <2> QED BY <2>6, <2>7, <2>8, <2>10 DEF G
<1>12. CASE TakePendingShow
  <2>1. /\ pendingShow' = pendingShow \ {u}
        /\ UNCHANGED <<lintTimers, pubSeq, pubCounter, publishing, client, renderedDiags,
                       renderedRaw, renderedBaseline>>
    BY <1>1, <1>12 DEF TakePendingShow, publishVars, renderedVars
  <2>2. Top(Loop).do = CloseDo[5] /\ 5 \in 1..7 BY <1>4, <1>12 DEF TakePendingShow, Runs
  <2>3. Forgotten(u, 5) => Forgotten(u, 5 + 1)' BY <2>1 DEF Forgotten
  <2>4. \A v \in Uri : Forgotten(v, 8) => Forgotten(v, 8)' BY <2>1 DEF Forgotten
  <2>5. Forgetting' /\ Rest BY <1>7, <2>2, <2>3, <2>4
  <2> QED BY <1>6, <2>1, <2>5
<1>13. CASE ClearDiagnostics
  <2>1. /\ client' = [client EXCEPT ![u].shown = None]
        /\ UNCHANGED <<lintTimers, pubSeq, pubCounter, publishing, renderedDiags, renderedRaw,
                       renderedBaseline, pendingShow>>
    BY <1>1, <1>13 DEF ClearDiagnostics, renderedVars, showVars
  <2>2. Top(Loop).do = CloseDo[6] /\ 6 \in 1..7 BY <1>4, <1>13 DEF ClearDiagnostics, Runs
  <2>3. u \in Uri /\ ~Open(u) /\ Forgotten(u, 6) BY <1>5, <2>2
  <2>4. /\ \A v \in Uri : client'[v].seq = client[v].seq
        /\ \A v \in Uri : v # u => client'[v] = client[v]
        /\ client'[u].shown = None
    BY <1>3, <2>1, <2>3
  <2>5. Forgotten(u, 6 + 1)' BY <2>1, <2>3, <2>4 DEF Forgotten
  <2>6. ASSUME NEW v \in Uri, Forgotten(v, 8) PROVE Forgotten(v, 8)'
    BY <2>1, <2>4, <2>6 DEF Forgotten
  <2>7. Forgetting' /\ Rest BY <1>7, <2>2, <2>5, <2>6
  <2>8. \A p \in publishing : p.uri \in Uri BY <1>3 DEF Publish
  <2>9. Publishes' BY <2>1, <2>4, <2>8 DEF Inv, Publishes
  <2>10. Delivering' BY <2>1, <2>4, <2>7 DEF Inv, Delivering, Rest
  <2>11. \A v \in Uri : Open(v)' => Open(v) /\ client'[v] = client[v]
    BY <2>3, <2>4, <2>7 DEF Rest
  <2>12. Showing'
    <3> SUFFICES ASSUME NEW v \in Uri, Open(v)', ~Coming(v)',
                        ~\E p \in publishing' :
                           p.uri = v /\ (p.collected => p.rendered = renderedDiags'[v])
                 PROVE  /\ \A p \in publishing' : p.uri # v
                        /\ client'[v].shown.rendered = renderedDiags'[v]
      BY DEF Showing
    <3>1. Open(v) /\ ~Coming(v) /\ client'[v] = client[v] BY <2>7, <2>11 DEF Rest
    <3>2. /\ \A p \in publishing : p.uri # v
          /\ client[v].shown.rendered = renderedDiags[v]
      BY <2>1, <3>1 DEF Inv, Showing
    <3> QED BY <2>1, <3>1, <3>2
  <2> QED BY <2>7, <2>9, <2>10, <2>12 DEF G
<1>14. CASE RemoveRenderTemps
  <2>1. UNCHANGED <<lintTimers, pubSeq, pubCounter, publishing, client, renderedDiags, renderedRaw,
                    renderedBaseline, pendingShow>>
    BY <1>14 DEF RemoveRenderTemps, publishVars, renderedVars
  <2>2. Top(Loop).do = CloseDo[7] /\ 7 \in 1..7 BY <1>4, <1>14 DEF RemoveRenderTemps, Runs
  <2>3. Forgotten(u, 7) => Forgotten(u, 7 + 1)' BY <2>1 DEF Forgotten
  <2>4. \A v \in Uri : Forgotten(v, 8) => Forgotten(v, 8)' BY <2>1, StaysForgotten
  <2>5. Forgetting' /\ Rest BY <1>7, <2>2, <2>3, <2>4
  <2> QED BY <1>6, <2>1, <2>5
<1> QED BY <1>8, <1>9, <1>10, <1>11, <1>12, <1>13, <1>14

-----------------------------------------------------------------------------
(* Storing a render, scheduling a publish and sending it.                  *)

LEMMA StoreStep ==
    ASSUME Inv, NEW th \in Thread, StoreRendered(th), Open(Top(th).uri)
    PROVE  Forgetting' /\ Publishes' /\ Delivering' /\ Showing'
<1> PICK u : u = Top(th).uri OBVIOUS
<1>1. ThreadStep(th) /\ Top(th).do = "store" BY DEF ThreadStep, StoreRendered, Runs
<1>2. /\ u \in Uri /\ \A v \in Uri : Open(v)' <=> Open(v)
      /\ \A v \in Uri, k \in 1..7 : todo[Loop] = CloseRest(v, k) => todo'[Loop] = todo[Loop]
      /\ \A v : Has(Loop, "publish", v) => Has(Loop, "publish", v)'
      /\ \A v : Coming(v) => Coming(v)'
      /\ Coming(u)'
  BY <1>1, ThreadEffects
<1>3. /\ renderedDiags \in [Uri -> Result \cup {None}]
      /\ renderedRaw \in [Uri -> Output \cup {None}]
      /\ renderedBaseline \in [Uri -> Output \cup {None}]
  BY DEF Inv, Types, TypeOK
<1>4. /\ UNCHANGED <<pubSeq, pubCounter, publishing, client, lintTimers, pendingShow>>
      /\ \A v \in Uri : v # u => /\ renderedDiags'[v] = renderedDiags[v]
                                 /\ renderedRaw'[v] = renderedRaw[v]
                                 /\ renderedBaseline'[v] = renderedBaseline[v]
  BY <1>3 DEF StoreRendered, StillOpen, publishVars, showVars
<1>5. Publishes' BY <1>4 DEF Inv, Publishes
<1>6. Delivering' BY <1>2, <1>4 DEF Inv, Delivering
<1>7. Showing' BY <1>2, <1>4 DEF Inv, Showing
<1>8. Forgetting'
  <2> SUFFICES ASSUME NEW v \in Uri, ~Open(v)'
               PROVE  \E k \in 1..8 : Forgotten(v, k)' /\ (k < 8 => todo'[Loop] = CloseRest(v, k)')
    BY DEF Forgetting
  <2>1. ~Open(v) /\ v # u BY <1>2
  <2>2. PICK k \in 1..8 : Forgotten(v, k) /\ (k < 8 => todo[Loop] = CloseRest(v, k))
    BY <2>1 DEF Inv, Forgetting
  <2>3. Forgotten(v, k)' BY <1>4, <2>1, <2>2 DEF Forgotten
  <2>4. k < 8 => todo'[Loop] = CloseRest(v, k)
    <3>1. k < 8 => k \in 1..7 OBVIOUS
    <3> QED BY <1>2, <2>2, <3>1
  <2> QED BY <2>3, <2>4 DEF CloseRest
<1> QED BY <1>5, <1>6, <1>7, <1>8

LEMMA SchedulePublishStep ==
    ASSUME Inv, NEW th \in Thread, SchedulePublish(th), Open(Top(th).uri)
    PROVE  Forgetting' /\ Publishes' /\ Delivering' /\ Showing'
<1> PICK u : u = Top(th).uri OBVIOUS
<1>1. ThreadStep(th) /\ Top(th).do = "publish" BY DEF ThreadStep, SchedulePublish, Runs
<1>2. /\ u \in Uri /\ \A v \in Uri : Open(v)' <=> Open(v)
      /\ \A v \in Uri, k \in 1..7 : todo[Loop] = CloseRest(v, k) => todo'[Loop] = todo[Loop]
      /\ \A v : v # u /\ Has(Loop, "publish", v) => Has(Loop, "publish", v)'
      /\ \A v : v # u /\ Coming(v) => Coming(v)'
  BY <1>1, ThreadEffects
<1>3. /\ pubSeq \in [Uri -> Nat] /\ publishing \subseteq Publish /\ pubCounter \in Nat
      /\ client \in [Uri -> [seq : Nat, shown : Shown \cup {None}]]
  BY DEF Inv, Types, TypeOK
<1>4. PICK new : /\ new.seq = pubCounter + 1 /\ new.uri = u /\ ~new.collected
                 /\ publishing' = Unsuperseded \cup {new}
  BY DEF SchedulePublish
<1>5. /\ pubCounter' = pubCounter + 1 /\ pubSeq' = [pubSeq EXCEPT ![u] = pubCounter + 1]
      /\ UNCHANGED <<client, lintTimers, pendingShow, renderedDiags, renderedRaw,
                     renderedBaseline>>
  BY DEF SchedulePublish, renderedVars, showVars
<1>6. \A p \in publishing : /\ p.uri \in Uri /\ p.seq = pubSeq[p.uri]
                            /\ client[p.uri].seq < p.seq
  BY <1>3 DEF Publish, Inv, Publishes
<1>7. /\ pubSeq'[u] = pubCounter + 1
      /\ \A v \in Uri : v # u => pubSeq'[v] = pubSeq[v]
      /\ \A v \in Uri : pubSeq[v] \in Nat /\ pubSeq[v] <= pubCounter
      /\ \A v \in Uri : client[v].seq \in Nat /\ client[v].seq <= pubCounter
  BY <1>2, <1>3, <1>5 DEF Inv, Publishes
<1>8. publishing' = {p \in publishing : p.uri # u} \cup {new}
  <2>1. ASSUME NEW p \in publishing PROVE ~Superseded(p)' <=> p.uri # u
    BY <1>3, <1>6, <1>7, <2>1 DEF Superseded
  <2> QED BY <1>4, <2>1 DEF Unsuperseded
<1>9. Publishes'
  <2>1. ASSUME NEW p \in publishing' PROVE p.seq = pubSeq'[p.uri] /\ client'[p.uri].seq < p.seq
    <3>1. CASE p = new BY <1>2, <1>3, <1>4, <1>5, <1>7, <3>1
    <3>2. CASE p # new BY <1>5, <1>6, <1>7, <1>8, <2>1, <3>2
    <3> QED BY <3>1, <3>2
  <2>2. \A p, q \in publishing' : p.uri = q.uri => p = q
    BY <1>4, <1>8 DEF Inv, Publishes
  <2>3. ASSUME NEW v \in Uri PROVE pubSeq'[v] <= pubCounter' /\ client'[v].seq <= pubCounter'
    <3>1. pubCounter < pubCounter + 1 BY <1>3
    <3> QED BY <1>3, <1>5, <1>7, <3>1
  <2> QED BY <2>1, <2>2, <2>3 DEF Publishes
<1>10. new \in publishing' /\ \A p \in publishing : p.uri # u => p \in publishing' BY <1>8
<1>11. \A p \in publishing' : p.uri # u => p \in publishing BY <1>4, <1>8
<1>12. Delivering'
  <2> SUFFICES ASSUME NEW v \in Uri, Open(v)'
               PROVE  /\ pubSeq'[v] = 0 => Has(Loop, "publish", v)'
                      /\ pubSeq'[v] # 0 => \/ client'[v].seq = pubSeq'[v]
                                           \/ \E p \in publishing' : p.uri = v
    BY DEF Delivering
  <2>1. CASE v = u
    <3>1. pubSeq'[u] # 0 BY <1>3, <1>7
    <3> QED BY <1>4, <1>10, <2>1, <3>1
  <2>2. CASE v # u BY <1>2, <1>5, <1>7, <1>10, <2>2 DEF Inv, Delivering
  <2> QED BY <2>1, <2>2
<1>13. Showing'
  <2> SUFFICES ASSUME NEW v \in Uri, Open(v)'
               PROVE  \/ Coming(v)'
                      \/ \E p \in publishing' :
                            p.uri = v /\ (p.collected => p.rendered = renderedDiags'[v])
                      \/ /\ \A p \in publishing' : p.uri # v
                         /\ client'[v].shown.rendered = renderedDiags'[v]
    BY DEF Showing
  <2>1. CASE v = u BY <1>4, <1>10, <2>1
  <2>2. CASE v # u BY <1>2, <1>5, <1>10, <1>11, <2>2 DEF Inv, Showing
  <2> QED BY <2>1, <2>2
<1>14. Forgetting'
  <2> SUFFICES ASSUME NEW v \in Uri, ~Open(v)'
               PROVE  \E k \in 1..8 : Forgotten(v, k)' /\ (k < 8 => todo'[Loop] = CloseRest(v, k)')
    BY DEF Forgetting
  <2>1. ~Open(v) /\ v # u BY <1>2
  <2>2. PICK k \in 1..8 : Forgotten(v, k) /\ (k < 8 => todo[Loop] = CloseRest(v, k))
    BY <2>1 DEF Inv, Forgetting
  <2>3. Forgotten(v, k)' BY <1>5, <1>7, <1>11, <2>1, <2>2 DEF Forgotten
  <2>4. k < 8 => todo'[Loop] = CloseRest(v, k)
    <3>1. k < 8 => k \in 1..7 OBVIOUS
    <3> QED BY <1>2, <2>2, <3>1
  <2> QED BY <2>3, <2>4 DEF CloseRest
<1> QED BY <1>9, <1>12, <1>13, <1>14

LEMMA CollectStep ==
    ASSUME Inv, NEW p \in publishing, Collect(p)
    PROVE  Forgetting' /\ Publishes' /\ Delivering' /\ Showing'
<1>1. p \in Publish /\ p.uri \in Uri BY DEF Inv, Types, TypeOK, Publish
<1>2. PICK q : /\ q.seq = p.seq /\ q.uri = p.uri /\ q.rendered = renderedDiags[p.uri]
               /\ publishing' = (publishing \ {p}) \cup {q}
  BY <1>1 DEF Collect, Publish
<1>3. UNCHANGED <<docs, todo, lintTimers, pubSeq, pubCounter, client, pendingShow, renderedDiags,
                  renderedRaw, renderedBaseline>>
  BY DEF Collect, inputVars, renderedVars, showVars
<1>4. \A r \in publishing : r.uri = p.uri => r = p BY DEF Inv, Publishes
<1>5. /\ \A v \in Uri : Open(v)' <=> Open(v)
      /\ \A th, do, v : Has(th, do, v)' <=> Has(th, do, v)
      /\ \A v : Coming(v)' <=> Coming(v)
  BY <1>3 DEF Open, Has, Coming
<1>6. /\ q \in publishing' /\ \A r \in publishing : r.uri # p.uri => r \in publishing'
      /\ \A r \in publishing' : r.uri # p.uri => r \in publishing
      /\ \A r \in publishing' : r.uri = p.uri => r = q
  BY <1>2, <1>4
<1>7. Publishes'
  <2>1. \A r \in publishing' : r.seq = pubSeq'[r.uri] /\ client'[r.uri].seq < r.seq
    BY <1>2, <1>3, <1>6 DEF Inv, Publishes
  <2>2. \A r, s \in publishing' : r.uri = s.uri => r = s BY <1>6 DEF Inv, Publishes
  <2> QED BY <1>3, <2>1, <2>2 DEF Inv, Publishes
<1>8. Delivering'
  <2>1. \A v : (\E r \in publishing : r.uri = v) => \E r \in publishing' : r.uri = v
    BY <1>2, <1>6
  <2> QED BY <1>3, <1>5, <2>1 DEF Inv, Delivering
<1>9. Showing'
  <2> SUFFICES ASSUME NEW v \in Uri, Open(v)'
               PROVE  \/ Coming(v)'
                      \/ \E r \in publishing' :
                            r.uri = v /\ (r.collected => r.rendered = renderedDiags'[v])
                      \/ /\ \A r \in publishing' : r.uri # v
                         /\ client'[v].shown.rendered = renderedDiags'[v]
    BY DEF Showing
  <2>1. CASE v = p.uri BY <1>2, <1>3, <1>6, <2>1
  <2>2. CASE v # p.uri BY <1>3, <1>5, <1>6, <2>2 DEF Inv, Showing
  <2> QED BY <2>1, <2>2
<1>10. Forgetting'
  <2>1. ASSUME NEW v, NEW k, Forgotten(v, k) PROVE Forgotten(v, k)'
    BY <1>3, <1>6, <2>1 DEF Forgotten
  <2>2. \A v, k : CloseRest(v, k)' = CloseRest(v, k) BY DEF CloseRest
  <2> QED BY <1>3, <1>5, <2>1, <2>2 DEF Inv, Forgetting
<1> QED BY <1>7, <1>8, <1>9, <1>10

LEMMA SendStep ==
    ASSUME Inv, NEW p \in publishing, Send(p)
    PROVE  Forgetting' /\ Publishes' /\ Delivering' /\ Showing'
<1> DEFINE s == [version |-> p.version, rendered |-> p.rendered]
           c == [seq |-> p.seq, shown |-> s]
<1>1. p \in Publish /\ p.uri \in Uri /\ p.seq \in Nat BY DEF Inv, Types, TypeOK, Publish
<1>2. /\ pubSeq \in [Uri -> Nat]
      /\ client \in [Uri -> [seq : Nat, shown : Shown \cup {None}]]
  BY DEF Inv, Types, TypeOK
<1>3. ~Superseded(p) BY DEF Inv, Publishes, Superseded
<1>4. /\ publishing' = publishing \ {p} /\ client' = [client EXCEPT ![p.uri] = c] /\ p.collected
      /\ UNCHANGED <<docs, todo, lintTimers, pubSeq, pubCounter, pendingShow, renderedDiags,
                     renderedRaw, renderedBaseline>>
  BY <1>3 DEF Send, inputVars, renderedVars, showVars
<1>5. c.seq = p.seq /\ c.shown.rendered = p.rendered OBVIOUS
<1> HIDE DEF c, s
<1>6. /\ client'[p.uri] = c /\ \A v \in Uri : v # p.uri => client'[v] = client[v]
      /\ \A r \in publishing' : r \in publishing /\ r.uri # p.uri /\ r.uri \in Uri
      /\ \A r \in publishing : r.uri # p.uri => r \in publishing'
      /\ p.seq = pubSeq[p.uri]
  BY <1>1, <1>2, <1>4 DEF Inv, Publishes, Types, TypeOK, Publish
<1>7. /\ \A v \in Uri : Open(v)' <=> Open(v)
      /\ \A th, do, v : Has(th, do, v)' <=> Has(th, do, v)
      /\ \A v : Coming(v)' <=> Coming(v)
  BY <1>4 DEF Open, Has, Coming
<1>8. Publishes'
  <2>1. \A r \in publishing' : r.seq = pubSeq'[r.uri] /\ client'[r.uri].seq < r.seq
    BY <1>4, <1>6 DEF Inv, Publishes
  <2>2. \A r, q \in publishing' : r.uri = q.uri => r = q BY <1>6 DEF Inv, Publishes
  <2>3. ASSUME NEW v \in Uri PROVE pubSeq'[v] <= pubCounter' /\ client'[v].seq <= pubCounter'
    <3>1. pubSeq[v] <= pubCounter /\ client[v].seq <= pubCounter
          /\ pubSeq[p.uri] <= pubCounter
      BY <1>1 DEF Inv, Publishes
    <3>2. CASE v = p.uri BY <1>4, <1>5, <1>6, <3>1, <3>2
    <3>3. CASE v # p.uri BY <1>4, <1>6, <3>1, <3>3
    <3> QED BY <3>2, <3>3
  <2> QED BY <2>1, <2>2, <2>3 DEF Publishes
<1>9. Delivering'
  <2> SUFFICES ASSUME NEW v \in Uri, Open(v)'
               PROVE  /\ pubSeq'[v] = 0 => Has(Loop, "publish", v)'
                      /\ pubSeq'[v] # 0 => \/ client'[v].seq = pubSeq'[v]
                                           \/ \E r \in publishing' : r.uri = v
    BY DEF Delivering
  <2>1. CASE v = p.uri BY <1>4, <1>5, <1>6, <1>7, <2>1 DEF Inv, Delivering
  <2>2. CASE v # p.uri BY <1>4, <1>6, <1>7, <2>2 DEF Inv, Delivering
  <2> QED BY <2>1, <2>2
<1>10. Showing'
  <2> SUFFICES ASSUME NEW v \in Uri, Open(v)'
               PROVE  \/ Coming(v)'
                      \/ \E r \in publishing' :
                            r.uri = v /\ (r.collected => r.rendered = renderedDiags'[v])
                      \/ /\ \A r \in publishing' : r.uri # v
                         /\ client'[v].shown.rendered = renderedDiags'[v]
    BY DEF Showing
  <2>1. CASE v = p.uri
    <3>1. Coming(v) \/ p.rendered = renderedDiags[v]
      BY <1>4, <1>7, <2>1 DEF Inv, Showing, Publishes
    <3> QED BY <1>4, <1>5, <1>6, <1>7, <2>1, <3>1
  <2>2. CASE v # p.uri BY <1>4, <1>6, <1>7, <2>2 DEF Inv, Showing
  <2> QED BY <2>1, <2>2
<1>11. Forgetting'
  <2>1. ASSUME NEW v \in Uri, NEW k \in 1..8, Forgotten(v, k) PROVE Forgotten(v, k)'
    <3>1. k > 2 => v # p.uri BY <2>1 DEF Forgotten
    <3>2. k > 6 => client'[v].shown = None
      <4>1. CASE v # p.uri BY <1>6, <2>1, <4>1 DEF Forgotten
      <4>2. CASE v = p.uri BY <3>1, <4>2
      <4> QED BY <4>1, <4>2
    <3> QED BY <1>4, <1>6, <2>1, <3>2 DEF Forgotten
  <2>2. \A v, k : CloseRest(v, k)' = CloseRest(v, k) BY DEF CloseRest
  <2> QED BY <1>4, <1>7, <2>1, <2>2 DEF Inv, Forgetting
<1> QED BY <1>8, <1>9, <1>10, <1>11

-----------------------------------------------------------------------------
(* The invariant.                                                          *)

LEMMA InvInit == Init => Inv
<1> SUFFICES ASSUME Init PROVE Inv OBVIOUS
<1>1. Types BY TypesInit
<1>2. /\ \A u \in Uri : ~Open(u)
      /\ publishing = {} /\ pubCounter = 0 /\ lintTimers = {} /\ pendingShow = {}
      /\ \A u \in Uri : /\ pubSeq[u] = 0 /\ client[u].seq = 0 /\ client[u].shown = None
                        /\ renderedDiags[u] = None /\ renderedRaw[u] = None
                        /\ renderedBaseline[u] = None
  BY DEF Init, Open
<1>3. \A u \in Uri : Forgotten(u, 8) BY <1>2 DEF Forgotten
<1>4. 8 \in 1..8 /\ ~(8 < 8) OBVIOUS
<1>5. Forgetting BY <1>3, <1>4 DEF Forgetting
<1>6. Publishes BY <1>2 DEF Publishes
<1>7. Delivering /\ Showing BY <1>2 DEF Delivering, Showing
<1> QED BY <1>1, <1>5, <1>6, <1>7 DEF Inv

LEMMA InvStep == Inv /\ [Next]_vars => Inv'
<1> SUFFICES ASSUME Inv, [Next]_vars PROVE Inv' OBVIOUS
<1> DEFINE G == Forgetting' /\ Publishes' /\ Delivering' /\ Showing'
<1>1. Types' BY TypesStep DEF Inv
<1>2. SUFFICES G BY <1>1 DEF Inv
<1>3. CASE Message
  <2>1. ASSUME NEW u \in Uri, NEW t \in Text, DidOpen(u, t) PROVE G BY <2>1, OpenStep
  <2>2. ASSUME NEW u \in Uri, DidClose(u) PROVE G BY <2>2, CloseMessageStep
  <2>3. CASE /\ \A u \in Uri, t \in Text : ~DidOpen(u, t)
             /\ \A u \in Uri : ~DidClose(u)
    BY <1>3, <2>3, MessageQuiet, QuietStep
  <2> QED BY <2>1, <2>2, <2>3
<1>4. CASE LoopStep
  <2>1. CASE Debounce \/ SetPendingShow \/ ApplySettings \/ Configure \/ InvalidateAll
    BY <2>1, LoopQuiet, QuietStep
  <2>2. CASE CancelDebounce \/ ForgetPublish \/ CancelRender \/ ClearRenderState
             \/ TakePendingShow \/ ClearDiagnostics \/ RemoveRenderTemps
    BY <2>2, ClosingStep
  <2> QED BY <1>4, <2>1, <2>2 DEF LoopStep
<1>5. ASSUME NEW th \in Thread, ThreadStep(th) PROVE G
  <2>1. CASE StoreRendered(th) /\ Open(Top(th).uri) BY <2>1, StoreStep
  <2>2. CASE SchedulePublish(th) /\ Open(Top(th).uri) BY <2>2, SchedulePublishStep
  <2>3. CASE \/ Analyze(th) \/ Schedule(th) \/ Notify(th) \/ ServeShow(th) \/ GetDoc(th)
                \/ Show(th) \/ WriteTemp(th)
             \/ StoreRendered(th) /\ ~Open(Top(th).uri)
             \/ SchedulePublish(th) /\ ~Open(Top(th).uri)
    BY <2>3, ThreadQuiet, QuietStep
  <2> QED BY <1>5, <2>1, <2>2, <2>3 DEF ThreadStep
<1>6. CASE (\E u \in Uri : LintTimerFires(u)) \/ (\E j \in Job : RenderStep(j))
  BY <1>6, GoroutineQuiet, QuietStep
<1>7. ASSUME NEW p \in publishing, Collect(p) PROVE G BY <1>7, CollectStep
<1>8. ASSUME NEW p \in publishing, Send(p) PROVE G BY <1>8, SendStep
<1>9. CASE UNCHANGED vars
  <2>1. UNCHANGED <<docs, todo, lintTimers, pubSeq, pubCounter, publishing, client, pendingShow,
                    renderedDiags, renderedRaw, renderedBaseline>>
    BY <1>9 DEF vars, inputVars, publishVars, renderedVars, showVars
  <2>2. Quiet BY <2>1 DEF Quiet, Open, Has, Coming
  <2> QED BY <2>2, QuietStep
<1> QED BY <1>3, <1>4, <1>5, <1>6, <1>7, <1>8, <1>9 DEF Next

LEMMA InvAlways == Safe => []Inv
  BY InvInit, InvStep, PTL DEF Safe

\* handlers.go, didClose: once it is through with a document that stayed closed,
\* nothing of it is left: no diagnostics in the editor, no publish that could
\* still match, no rendered state, timer or deferred show, whatever was under way
\* for it on other threads when it was closed.
THEOREM CloseForgets == Safe => []ClosedIsForgotten
<1>1. Inv => ClosedIsForgotten
  <2> SUFFICES ASSUME Inv, NEW u \in Uri, Closed(u) PROVE Forgotten(u, 8)
    BY DEF ClosedIsForgotten, Forgotten
  <2>1. ~Open(u) BY DEF Closed
  <2>2. PICK k \in 1..8 : Forgotten(u, k) /\ (k < 8 => todo[Loop] = CloseRest(u, k))
    BY <2>1 DEF Inv, Forgetting
  <2>3. CASE k = 8 BY <2>2, <2>3
  <2>4. CASE k # 8
    <3>1. k \in 1..7 /\ todo[Loop] = CloseRest(u, k) BY <2>2, <2>4
    <3>2. 1 \in DOMAIN todo[Loop] /\ todo[Loop][1].uri = u BY <3>1, CloseRestFacts
    <3> QED BY <3>2 DEF Closed
  <2> QED BY <2>3, <2>4
<1> QED BY <1>1, InvAlways, PTL

\* server.go:70-72: what the client is sent for a document comes in the order it
\* was scheduled, across close and reopen too.
THEOREM PublishOrder == Safe => PublishesInOrder
<1> DEFINE Ordered == \A u \in Uri : client'[u] # client[u] /\ client'[u].shown # None
                                       => client'[u].seq > client[u].seq
<1>1. Inv /\ [Next]_vars => [Ordered]_vars
  <2> SUFFICES ASSUME Inv, [Next]_vars PROVE Ordered OBVIOUS
  <2> SUFFICES ASSUME NEW u \in Uri, client'[u] # client[u], client'[u].shown # None
               PROVE  client'[u].seq > client[u].seq
    OBVIOUS
  <2>1. /\ client \in [Uri -> [seq : Nat, shown : Shown \cup {None}]]
        /\ publishing \subseteq Publish
    BY DEF Inv, Types, TypeOK
  <2>2. CASE UNCHANGED client BY <2>2
  <2>3. CASE ClearDiagnostics
    <3>1. todo[Loop] # <<>> /\ Top(Loop).do \in Closing
      BY <2>3 DEF ClearDiagnostics, Runs, Closing
    <3>2. Top(Loop).uri \in Uri BY <3>1, ClosingTop DEF Inv
    <3>3. client' = [client EXCEPT ![Top(Loop).uri].shown = None]
      BY <2>3 DEF ClearDiagnostics
    <3>4. u = Top(Loop).uri => client'[u].shown = None BY <2>1, <3>2, <3>3
    <3>5. u # Top(Loop).uri => client'[u] = client[u] BY <2>1, <3>2, <3>3
    <3> QED BY <3>4, <3>5
  <2>4. ASSUME NEW p \in publishing, Send(p) PROVE client'[u].seq > client[u].seq
    <3> DEFINE c == [seq |-> p.seq, shown |-> [version |-> p.version, rendered |-> p.rendered]]
    <3>1. p.uri \in Uri /\ p.seq \in Nat BY <2>1 DEF Publish
    <3>2. client' = client \/ client' = [client EXCEPT ![p.uri] = c] BY <2>4 DEF Send
    <3>3. c.seq = p.seq OBVIOUS
    <3> HIDE DEF c
    <3>4. u = p.uri /\ client'[u] = c BY <2>1, <3>1, <3>2
    <3>5. client[p.uri].seq < p.seq BY DEF Inv, Publishes
    <3>6. client[u].seq \in Nat BY <2>1
    <3> QED BY <3>1, <3>3, <3>4, <3>5, <3>6
  <2>5. UNCHANGED client \/ ClearDiagnostics \/ \E p \in publishing : Send(p)
    BY PublishUntouched DEF ForgetPublish, SchedulePublish, Collect
  <2> QED BY <2>2, <2>3, <2>4, <2>5
<1> QED BY <1>1, InvAlways, PTL DEF Safe, PublishesInOrder

\* server.go, Notify: the first output of a document is the one its diffs are
\* taken against until it is closed, whichever render stores what after it.
THEOREM BaselineStays == Safe => BaselineKept
<1> DEFINE Kept == \A u \in Uri : renderedBaseline[u] # None /\ Open(u) /\ Open(u)'
                                    => renderedBaseline'[u] = renderedBaseline[u]
<1>1. Inv /\ [Next]_vars => [Kept]_vars
  <2> SUFFICES ASSUME Inv, [Next]_vars, NEW u \in Uri, renderedBaseline[u] # None, Open(u)
               PROVE  renderedBaseline'[u] = renderedBaseline[u]
    OBVIOUS
  <2>1. renderedBaseline \in [Uri -> Output \cup {None}] BY DEF Inv, Types, TypeOK
  <2>2. CASE UNCHANGED renderedBaseline BY <2>2
  <2>3. CASE ClearRenderState
    <3>1. todo[Loop] # <<>> /\ Top(Loop).do \in Closing
      BY <2>3 DEF ClearRenderState, Runs, Closing
    <3>2. u # Top(Loop).uri BY <3>1, ClosingTop DEF Inv
    <3> QED BY <2>1, <2>3, <3>2 DEF ClearRenderState
  <2>4. ASSUME NEW th \in Thread, StoreRendered(th)
        PROVE  renderedBaseline'[u] = renderedBaseline[u]
    BY <2>1, <2>4 DEF StoreRendered, Baseline, renderedVars
  <2> QED BY <2>2, <2>3, <2>4, RenderedUntouched
<1> QED BY <1>1, InvAlways, PTL DEF Safe, BaselineKept

\* Nothing under way: no thread has anything to run and nothing is published.
LEMMA SettledRuns ==
    ASSUME Settled
    PROVE  publishing = {} /\ \A th \in Thread : \A do, u : ~Has(th, do, u)
<1>1. DOMAIN <<>> = {} OBVIOUS
<1> QED BY <1>1 DEF Settled, Has

\* server.go:518-553: when the server comes to rest, the newest publish of every
\* open document is the one the client was sent last.
THEOREM NewestDelivered == Safe => []NewestPublishDelivered
<1>1. Inv => NewestPublishDelivered
  <2>1. Loop \in Thread BY DEF Thread
  <2> QED BY <2>1, SettledRuns DEF Inv, Delivering, NewestPublishDelivered
<1> QED BY <1>1, InvAlways, PTL

\* server.go:456-486: and it carries the diagnostics that were stored last,
\* whoever stored them and in whatever order the publishes ran.
THEOREM StoredIsShown == Safe => []StoredRenderShown
<1>1. Inv => StoredRenderShown BY SettledRuns DEF Inv, Showing, Coming, StoredRenderShown
<1> QED BY <1>1, InvAlways, PTL

-----------------------------------------------------------------------------
(* A deferred show on its way to a render.                                 *)

\* A frame that calls the pipeline comes first in its thread and has a job of its
\* own, which is still to be scheduled.
First(s) == \A i \in DOMAIN s : s[i].do = "schedule" => i = 1

Scheduling(j, u) == jobs[j] # None /\ jobs[j].phase = "scheduling" /\ jobs[j].uri = u

SchedulesRun ==
    /\ \A th \in Thread : First(todo[th])
    /\ \A th \in Thread : Runs(th, "schedule") => Scheduling(Top(th).arg, Top(th).uri)
    /\ \A th, t \in Thread :
          Runs(th, "schedule") /\ Runs(t, "schedule") /\ Top(th).arg = Top(t).arg => th = t

\* The document, as it is now, will be given to the pipeline.
Analyzes(u) == CallOn("analyze", u, docs[u])

\* The message loop is about to change what renders the document, to write its
\* render off or to note a show of it.
Calls(f, u) ==
    \/ f.do \in {"enable", "disable", "configure", "invalidate"}
    \/ f.do = "setPending" /\ f.uri = u

\* It has every open document rendered again after that.
Refreshes(s) ==
    \A u \in Uri : Open(u) =>
        \A i \in DOMAIN s : Calls(s[i], u) => \E k \in DOMAIN s : k > i /\ s[k] = Analyzes(u)

Refreshing == Refreshes(todo[Loop])

\* The frames on the way from an edit of the document to serving a show of it.
Serves(f, u) ==
    \/ f.uri = u /\ f.do \in {"debounce", "getDoc", "schedule", "notify", "store", "serveShow"}
    \/ f = Analyzes(u)

Held(th, u) == \E i \in DOMAIN todo[th] : Serves(todo[th][i], u)

\* A render of the document is registered and no invalidation has written it off.
Registered(u) == pending[u] # None /\ jobs[pending[u]] # None /\ jobs[pending[u]].epoch = epoch

Served(u) ==
    \/ u \in lintTimers
    \/ \E th \in Thread : Held(th, u)
    \/ Registered(u)

Showable(u) ==
    /\ u \in pendingShow /\ kubernetes /\ registry # None
    /\ Open(u) /\ docs[u].text \in Renderable

Serving == \A u \in Uri : Showable(u) => Served(u)

-----------------------------------------------------------------------------
\* Where the frames are after a step of their thread.
LEMMA Positions ==
    ASSUME NEW S, NEW s \in Seq(S), s # <<>>, NEW fs \in Seq(S),
           NEW r, r = fs \o Tail(s)
    PROVE  /\ r \in Seq(S) /\ Len(fs) \in Nat
           /\ \A k \in DOMAIN r : \/ k \in DOMAIN fs /\ r[k] = fs[k]
                                  \/ /\ k + 1 - Len(fs) \in DOMAIN s
                                     /\ k + 1 - Len(fs) # 1
                                     /\ r[k] = s[k + 1 - Len(fs)]
           /\ \A i \in DOMAIN s : i # 1 => /\ Len(fs) + i - 1 \in DOMAIN r
                                           /\ r[Len(fs) + i - 1] = s[i]
           /\ 1 \in DOMAIN s /\ s[1] = Head(s)
<1>1. /\ Tail(s) \in Seq(S) /\ Len(Tail(s)) = Len(s) - 1
      /\ \A i \in 1..Len(Tail(s)) : Tail(s)[i] = s[i + 1]
  BY HeadTailProperties
<1> DEFINE t == Tail(s)
<1> HIDE DEF t
<1>2. /\ r \in Seq(S) /\ Len(r) = Len(fs) + Len(t)
      /\ \A i \in 1..(Len(fs) + Len(t)) : r[i] = IF i <= Len(fs) THEN fs[i] ELSE t[i - Len(fs)]
  BY <1>1, ConcatProperties DEF t
<1>3. Len(fs) \in Nat /\ Len(t) \in Nat /\ Len(s) \in Nat /\ Len(t) = Len(s) - 1
  BY <1>1 DEF t
<1>4. DOMAIN r = 1..(Len(fs) + Len(t)) /\ DOMAIN fs = 1..Len(fs) /\ DOMAIN s = 1..Len(s)
  BY <1>2
<1>5. ASSUME NEW k \in DOMAIN r
      PROVE  \/ k \in DOMAIN fs /\ r[k] = fs[k]
             \/ k + 1 - Len(fs) \in DOMAIN s /\ k + 1 - Len(fs) # 1 /\ r[k] = s[k + 1 - Len(fs)]
  <2>1. CASE k <= Len(fs) BY <1>2, <1>3, <1>4, <2>1
  <2>2. CASE ~(k <= Len(fs))
    <3>1. /\ k - Len(fs) \in 1..Len(t) /\ k + 1 - Len(fs) \in 1..Len(s)
          /\ k - Len(fs) + 1 = k + 1 - Len(fs) /\ k + 1 - Len(fs) # 1
      BY <1>3, <1>4, <2>2
    <3>2. r[k] = t[k - Len(fs)] BY <1>2, <1>4, <2>2
    <3>3. t[k - Len(fs)] = s[k - Len(fs) + 1] BY <1>1, <3>1 DEF t
    <3> QED BY <1>4, <3>1, <3>2, <3>3
  <2> QED BY <2>1, <2>2
<1>6. ASSUME NEW i \in DOMAIN s, i # 1
      PROVE  Len(fs) + i - 1 \in DOMAIN r /\ r[Len(fs) + i - 1] = s[i]
  <2> DEFINE k == Len(fs) + i - 1
  <2>1. k \in 1..(Len(fs) + Len(t)) /\ ~(k <= Len(fs)) /\ k - Len(fs) = i - 1
        /\ i - 1 \in 1..Len(t)
    BY <1>3, <1>4, <1>6
  <2>2. t[i - 1] = s[i] BY <1>1, <1>3, <1>4, <1>6, <2>1 DEF t
  <2>3. r[k] = s[i] BY <1>2, <2>1, <2>2
  <2> QED BY <1>4, <2>1, <2>3
<1>7. 1 \in DOMAIN s /\ s[1] = Head(s) BY <1>3, <1>4
<1> QED BY <1>2, <1>3, <1>5, <1>6, <1>7

\* What a step of a thread leaves on the way to serving a show.
LEMMA HeldStep ==
    ASSUME TypeOK, NEW th \in Thread, todo[th] # <<>>, NEW fs \in Seq(Frame), Ran(th, fs),
           NEW u, docs'[u] = docs[u]
    PROVE  /\ \A t \in Thread : Held(t, u) /\ ~(t = th /\ Serves(Top(th), u)) => Held(t, u)'
           /\ \A i \in DOMAIN fs : Serves(fs[i], u) => Held(th, u)'
<1> DEFINE s == todo[th]
           r == fs \o Tail(s)
<1>1. s \in Seq(Frame) /\ s # <<>> /\ fs \in Seq(Frame) BY DEF TypeOK
<1>2. /\ \A i \in DOMAIN fs : Among(fs[i], r)
      /\ \A i \in DOMAIN s : i # 1 => Among(s[i], r)
      /\ s[1] = Head(s)
  <2> HIDE DEF s
  <2> QED BY <1>1, Prepend
<1>3. todo'[th] = r BY DEF Ran
<1> HIDE DEF r
<1>4. \A f : Serves(f, u)' <=> Serves(f, u)
  <2>1. Analyzes(u)' = Analyzes(u) BY DEF Analyzes, CallOn
  <2> QED BY <2>1 DEF Serves
<1>5. ASSUME NEW f, Among(f, r), Serves(f, u) PROVE Held(th, u)'
  <2>1. PICK k \in DOMAIN r : r[k] = f BY <1>5 DEF Among
  <2>2. Serves(f, u)' BY <1>4, <1>5
  <2> QED BY <1>3, <2>1, <2>2 DEF Held, Serves
<1>6. ASSUME NEW t \in Thread, Held(t, u), ~(t = th /\ Serves(Top(th), u)) PROVE Held(t, u)'
  <2>1. PICK i \in DOMAIN todo[t] : Serves(todo[t][i], u) BY <1>6 DEF Held
  <2>2. CASE t = th
    <3>1. i # 1 BY <1>2, <1>6, <2>1, <2>2 DEF Top
    <3> QED BY <1>2, <1>5, <2>1, <2>2, <3>1
  <2>3. CASE t # th
    <3>1. todo'[t] = todo[t] BY <2>1, <2>3 DEF Ran
    <3>2. Analyzes(u)' = Analyzes(u) BY DEF Analyzes, CallOn
    <3> QED BY <2>1, <3>1, <3>2 DEF Held, Serves
  <2> QED BY <2>2, <2>3
<1> QED BY <1>2, <1>5, <1>6

\* The same when only idle threads are given work.
LEMMA HeldKept ==
    ASSUME NEW t \in Thread, todo'[t] = todo[t] \/ todo[t] = <<>>,
           NEW u, docs'[u] = docs[u], Held(t, u)
    PROVE  Held(t, u)'
<1>1. DOMAIN <<>> = {} OBVIOUS
<1>2. todo'[t] = todo[t] BY <1>1 DEF Held
<1>3. Analyzes(u)' = Analyzes(u) BY DEF Analyzes, CallOn
<1> QED BY <1>2, <1>3 DEF Held, Serves

\* A registered render stays one until it reports, a request of its document is
\* answered from the cache, or the document is closed.
LEMMA RegisteredKept ==
    ASSUME Types, Pipeline!PendingOwnUri, NEW u \in Uri, Registered(u),
           \/ UNCHANGED pipelineVars
           \/ \E j \in Job, v \in Uri, t \in Renderable : Pipeline!Schedule(j, v, t)
           \/ \E j \in Job :
                 \/ Pipeline!ScheduleHit(j) /\ jobs[j].uri # u
                 \/ Pipeline!ScheduleArm(j)
                 \/ Pipeline!Fire(j) \/ Pipeline!Drop(j) \/ Pipeline!Report(j)
                 \/ Pipeline!Writeback(j) /\ jobs[j].uri # u
           \/ Pipeline!Configure
           \/ \E v \in Uri \ {u} : Pipeline!Cancel(v)
    PROVE  Registered(u)'
<1> DEFINE p == pending[u]
<1>1. /\ pending \in [Uri -> Job \cup {None}]
      /\ jobs \in [Job -> Pipeline!JobState \cup {None}]
  BY DEF Types, TypeOK, Pipeline!TypeOK
<1>2. /\ p \in Job /\ p # None /\ jobs[p] # None /\ jobs[p].epoch = epoch
      /\ jobs[p].phase \in {"armed", "rendering"} /\ jobs[p].uri = u
      /\ jobs[p] \in Pipeline!JobState
  BY <1>1 DEF Registered, Pipeline!PendingOwnUri, Pipeline!Live
<1>3. \A v \in Uri : v # u => pending[v] # p
  BY <1>2 DEF Pipeline!PendingOwnUri
<1> HIDE DEF p
<1>4. ASSUME pending'[u] = p, jobs'[p] = jobs[p], epoch' = epoch PROVE Registered(u)'
  BY <1>2, <1>4 DEF Registered
<1>5. \A v \in Uri : v # u => Pipeline!Superseded(v)[p] = jobs[p]
  BY <1>2, <1>3 DEF Pipeline!Superseded
<1>6. CASE UNCHANGED pipelineVars BY <1>4, <1>6 DEF pipelineVars, p
<1>7. ASSUME NEW j \in Job, NEW v \in Uri, NEW t \in Renderable, Pipeline!Schedule(j, v, t)
      PROVE  Registered(u)'
  <2>1. j # p BY <1>2, <1>7 DEF Pipeline!Schedule, Pipeline!Unused
  <2> QED BY <1>1, <1>2, <1>4, <1>7, <2>1 DEF Pipeline!Schedule, p
<1>8. ASSUME NEW j \in Job, Pipeline!ScheduleHit(j), jobs[j].uri # u PROVE Registered(u)'
  <2>1. j # p /\ jobs[j].uri \in Uri
    BY <1>1, <1>2, <1>8 DEF Pipeline!ScheduleHit, Pipeline!JobState
  <2>2. jobs'[p] = Pipeline!Superseded(jobs[j].uri)[p]
    BY <1>2, <1>8, <2>1 DEF Pipeline!ScheduleHit, Pipeline!Superseded
  <2>3. jobs'[p] = jobs[p] BY <1>5, <1>8, <2>1, <2>2
  <2>4. pending'[u] = p /\ epoch' = epoch BY <1>1, <1>8, <2>1 DEF Pipeline!ScheduleHit, p
  <2> QED BY <1>4, <2>3, <2>4
<1>9. ASSUME NEW j \in Job, Pipeline!ScheduleArm(j) PROVE Registered(u)'
  <2>1. jobs[j] # None /\ jobs[j].uri \in Uri /\ j # p
    BY <1>1, <1>2, <1>9 DEF Pipeline!ScheduleArm, Pipeline!JobState
  <2>2. CASE jobs[j].uri = u
    <3>1. pending'[u] = j /\ j # None BY <1>1, <1>9, <2>2 DEF Pipeline!ScheduleArm
    <3>2. jobs'[j] = Pipeline!Moved(j, "armed", epoch, "none") /\ epoch' = epoch
      BY <1>9 DEF Pipeline!ScheduleArm, Pipeline!Superseded
    <3>3. Pipeline!Moved(j, "armed", epoch, "none") # None
      <4>1. Pipeline!Moved(j, "armed", epoch, "none") \in Pipeline!JobState
        <5>1. jobs[j] \in Pipeline!JobState /\ epoch \in 0..MaxRequests
          BY <1>1, <2>1 DEF Types, TypeOK, Pipeline!TypeOK
        <5> QED
          BY <5>1 DEF Pipeline!Moved, Pipeline!JobState, Pipeline!Phase, Pipeline!Err
      <4> QED BY <4>1, PipelineAssumption
    <3>4. Pipeline!Moved(j, "armed", epoch, "none").epoch = epoch BY DEF Pipeline!Moved
    <3> QED BY <3>1, <3>2, <3>3, <3>4 DEF Registered
  <2>3. CASE jobs[j].uri # u
    <3>1. jobs'[p] = Pipeline!Superseded(jobs[j].uri)[p]
      BY <1>2, <1>9, <2>1 DEF Pipeline!ScheduleArm, Pipeline!Superseded
    <3>2. jobs'[p] = jobs[p] BY <1>5, <2>1, <2>3, <3>1
    <3>3. pending'[u] = p /\ epoch' = epoch BY <1>1, <1>9, <2>3 DEF Pipeline!ScheduleArm, p
    <3> QED BY <1>4, <3>2, <3>3
  <2> QED BY <2>2, <2>3
<1>10. ASSUME NEW j \in Job, Pipeline!Fire(j) PROVE Registered(u)'
  <2>1. CASE j # p BY <1>1, <1>2, <1>4, <1>10, <2>1 DEF Pipeline!Fire, p
  <2>2. CASE j = p
    <3> DEFINE f == [jobs[p] EXCEPT !.phase = "rendering"]
    <3>1. jobs'[p] = f BY <1>1, <1>2, <1>10, <2>2 DEF Pipeline!Fire
    <3>2. f \in Pipeline!JobState /\ f.epoch = jobs[p].epoch
      BY <1>2 DEF Pipeline!JobState, Pipeline!Phase
    <3>3. f # None BY <3>2, PipelineAssumption
    <3>4. pending' = pending /\ epoch' = epoch BY <1>10 DEF Pipeline!Fire
    <3> QED BY <1>2, <3>1, <3>2, <3>3, <3>4 DEF Registered, p
  <2> QED BY <2>1, <2>2
<1>11. ASSUME NEW j \in Job, Pipeline!Drop(j) \/ Pipeline!Report(j) PROVE Registered(u)'
  <2>1. j # p
    BY <1>2, <1>11 DEF Pipeline!Drop, Pipeline!Outdated, Pipeline!Report, p
  <2> QED BY <1>1, <1>2, <1>4, <1>11, <2>1 DEF Pipeline!Drop, Pipeline!Report, p
<1>12. ASSUME NEW j \in Job, Pipeline!Writeback(j), jobs[j].uri # u PROVE Registered(u)'
  <2>1. j # p BY <1>2, <1>12
  <2>2. jobs'[p] = jobs[p] BY <1>1, <1>2, <1>12, <2>1 DEF Pipeline!Writeback
  <2>3. pending'[u] = p /\ epoch' = epoch BY <1>1, <1>12 DEF Pipeline!Writeback, p
  <2> QED BY <1>4, <2>2, <2>3
<1>13. CASE Pipeline!Configure BY <1>4, <1>13 DEF Pipeline!Configure, p
<1>14. ASSUME NEW v \in Uri \ {u}, Pipeline!Cancel(v) PROVE Registered(u)'
  <2>1. jobs'[p] = jobs[p] BY <1>5, <1>14 DEF Pipeline!Cancel
  <2> QED BY <1>1, <1>4, <1>14, <2>1 DEF Pipeline!Cancel, p
<1> QED
  BY <1>6, <1>7, <1>8, <1>9, <1>10, <1>11, <1>12, <1>13, <1>14

\* A job that is still to be scheduled is left alone by everyone else.
LEMMA SchedulingKept ==
    ASSUME Types, NEW j \in Job, NEW u, Scheduling(j, u),
           \/ UNCHANGED pipelineVars
           \/ \E i \in Job, v \in Uri, t \in Renderable : Pipeline!Schedule(i, v, t)
           \/ \E i \in Job :
                 \/ i # j /\ (Pipeline!ScheduleHit(i) \/ Pipeline!ScheduleArm(i))
                 \/ Pipeline!Fire(i) \/ Pipeline!Drop(i) \/ Pipeline!Report(i)
                 \/ Pipeline!Writeback(i)
           \/ Pipeline!Configure \/ Pipeline!InvalidateAll
           \/ \E v \in Uri : Pipeline!Cancel(v)
    PROVE  Scheduling(j, u)'
<1>1. jobs \in [Job -> Pipeline!JobState \cup {None}]
  BY DEF Types, TypeOK, Pipeline!TypeOK
<1>2. jobs[j] # None /\ jobs[j].phase = "scheduling" BY DEF Scheduling
<1>3. SUFFICES jobs'[j] = jobs[j] BY DEF Scheduling
<1>4. \A v : Pipeline!Superseded(v)[j] = jobs[j] BY <1>2 DEF Pipeline!Superseded
<1>5. CASE UNCHANGED pipelineVars \/ Pipeline!Configure \/ Pipeline!InvalidateAll
  BY <1>5 DEF pipelineVars, Pipeline!Configure, Pipeline!InvalidateAll
<1>6. ASSUME NEW i \in Job, NEW v \in Uri, NEW t \in Renderable, Pipeline!Schedule(i, v, t)
      PROVE  jobs'[j] = jobs[j]
  BY <1>1, <1>2, <1>6 DEF Pipeline!Schedule, Pipeline!Unused
<1>7. ASSUME NEW i \in Job, i # j, Pipeline!ScheduleHit(i) \/ Pipeline!ScheduleArm(i)
      PROVE  jobs'[j] = jobs[j]
  <2>1. jobs'[j] = Pipeline!Superseded(jobs[i].uri)[j]
    BY <1>7 DEF Pipeline!ScheduleHit, Pipeline!ScheduleArm, Pipeline!Superseded
  <2> QED BY <1>4, <2>1
<1>8. ASSUME NEW i \in Job, \/ Pipeline!Fire(i) \/ Pipeline!Drop(i) \/ Pipeline!Report(i)
                            \/ Pipeline!Writeback(i)
      PROVE  jobs'[j] = jobs[j]
  BY <1>1, <1>2, <1>8
  DEF Pipeline!Fire, Pipeline!Drop, Pipeline!Report, Pipeline!Writeback
<1>9. ASSUME NEW v \in Uri, Pipeline!Cancel(v) PROVE jobs'[j] = jobs[j]
  BY <1>4, <1>9 DEF Pipeline!Cancel
<1> QED BY <1>5, <1>6, <1>7, <1>8, <1>9

-----------------------------------------------------------------------------
(* The frames that call the pipeline.                                      *)

Unscheduled(s) == \A i \in DOMAIN s : s[i].do # "schedule"

\* What a thread that ran a frame comes to next.
LEMMA NextTop ==
    ASSUME TypeOK, NEW th \in Thread, todo[th] # <<>>, First(todo[th]),
           NEW fs \in Seq(Frame), First(fs), todo'[th] = fs \o Tail(todo[th])
    PROVE  /\ First(todo'[th])
           /\ Runs(th, "schedule")' => \E i \in DOMAIN fs : fs[i].do = "schedule"
<1> DEFINE s == todo[th]
           r == fs \o Tail(s)
<1>1. s \in Seq(Frame) /\ s # <<>> BY DEF TypeOK
<1>2. /\ r \in Seq(Frame)
      /\ \A k \in DOMAIN r : \/ k \in DOMAIN fs /\ r[k] = fs[k]
                             \/ \E i \in DOMAIN s : i # 1 /\ r[k] = s[i]
  <2> HIDE DEF s
  <2>1. /\ r \in Seq(Frame)
        /\ \A k \in DOMAIN r : \/ k \in DOMAIN fs /\ r[k] = fs[k]
                               \/ /\ k + 1 - Len(fs) \in DOMAIN s
                                  /\ k + 1 - Len(fs) # 1
                                  /\ r[k] = s[k + 1 - Len(fs)]
    BY <1>1, Positions
  <2> HIDE DEF r
  <2> QED BY <2>1
<1>3. todo'[th] = r OBVIOUS
<1> HIDE DEF r
<1>4. ASSUME NEW k \in DOMAIN r, r[k].do = "schedule"
      PROVE  k = 1 /\ k \in DOMAIN fs /\ fs[k].do = "schedule"
  BY <1>2, <1>4 DEF First
<1>5. First(todo'[th]) BY <1>3, <1>4 DEF First
<1>6. ASSUME Runs(th, "schedule")' PROVE \E i \in DOMAIN fs : fs[i].do = "schedule"
  <2>1. r # <<>> /\ Head(r).do = "schedule" BY <1>3, <1>6 DEF Runs, Top
  <2>2. 1 \in DOMAIN r /\ r[1] = Head(r) BY <1>2, <2>1
  <2> QED BY <1>4, <2>1, <2>2
<1> QED BY <1>5, <1>6

\* A thread that is given none has none.
LEMMA NoSchedule ==
    ASSUME NEW th \in Thread, NEW s \in Seq(Frame), todo'[th] = s, Unscheduled(s)
    PROVE  First(todo'[th]) /\ ~Runs(th, "schedule")'
<1>1. s # <<>> => 1 \in DOMAIN s /\ s[1] = Head(s) OBVIOUS
<1> QED BY <1>1 DEF First, Unscheduled, Runs, Top

\* What a step leaves of such frames when at most th runs one of its own, and
\* other threads are given work that has none.
LEMMA TopsKept ==
    ASSUME Types, SchedulesRun, todo' \in [Thread -> Seq(Frame)],
           \A t \in Thread : todo'[t] = todo[t] \/ (First(todo'[t]) /\ ~Runs(t, "schedule")'),
           \A t \in Thread : \A j, u :
              (/\ Runs(t, "schedule") /\ Top(t).arg = j /\ Top(t).uri = u
               /\ todo'[t] = todo[t] /\ Runs(t, "schedule")')
              => Scheduling(j, u)'
    PROVE  SchedulesRun'
<1>1. \A t \in Thread : First(todo'[t]) BY DEF SchedulesRun
<1>2. ASSUME NEW t \in Thread, Runs(t, "schedule")'
      PROVE  todo'[t] = todo[t] /\ Runs(t, "schedule") /\ Top(t)' = Top(t)
  BY <1>2 DEF Runs, Top
<1>3. ASSUME NEW t \in Thread, Runs(t, "schedule")'
      PROVE  Scheduling(Top(t).arg, Top(t).uri)'
  BY <1>2, <1>3
<1>4. ASSUME NEW th \in Thread, NEW t \in Thread, Runs(th, "schedule")', Runs(t, "schedule")',
             Top(th).arg' = Top(t).arg'
      PROVE  th = t
  BY <1>2, <1>4 DEF SchedulesRun
<1> QED BY <1>1, <1>3, <1>4 DEF SchedulesRun

-----------------------------------------------------------------------------
(* What the message loop is given to run.                                  *)

CallFrame ==
    {f \in Frame : f.do \in {"enable", "disable", "configure", "invalidate", "setPending"}}
PublishFrame == {f \in Frame : f.do \in {"analyze", "publish"}}

\* Calls first, then every open document that they are about.
LEMMA CallsThenPublishes ==
    ASSUME NEW pre \in Seq(CallFrame), NEW post \in Seq(PublishFrame),
           \A u \in Uri : Open(u) /\ (\E i \in DOMAIN pre : Calls(pre[i], u))
                            => Among(Analyzes(u), post)
    PROVE  Unscheduled(pre \o post) /\ Refreshes(pre \o post)
<1> DEFINE r == pre \o post
<1>1. pre \in Seq(Frame) /\ post \in Seq(Frame) BY DEF CallFrame, PublishFrame
<1>2. /\ r \in Seq(Frame) /\ Len(r) = Len(pre) + Len(post)
      /\ \A i \in 1..(Len(pre) + Len(post)) :
            r[i] = IF i <= Len(pre) THEN pre[i] ELSE post[i - Len(pre)]
  BY <1>1, ConcatProperties
<1>3. Len(pre) \in Nat /\ Len(post) \in Nat BY <1>1
<1>4. DOMAIN r = 1..(Len(pre) + Len(post)) /\ DOMAIN pre = 1..Len(pre)
      /\ DOMAIN post = 1..Len(post)
  BY <1>1, <1>2
<1> HIDE DEF r
<1>5. ASSUME NEW i \in DOMAIN r
      PROVE  \/ i \in DOMAIN pre /\ r[i] = pre[i] /\ r[i] \in CallFrame
             \/ r[i] \in PublishFrame
  <2>1. CASE i <= Len(pre)
    <3>1. i \in DOMAIN pre /\ r[i] = pre[i] BY <1>2, <1>3, <1>4, <2>1
    <3>2. pre[i] \in CallFrame BY <3>1
    <3> QED BY <3>1, <3>2
  <2>2. CASE ~(i <= Len(pre))
    <3>1. i - Len(pre) \in DOMAIN post /\ r[i] = post[i - Len(pre)] BY <1>2, <1>3, <1>4, <2>2
    <3>2. post[i - Len(pre)] \in PublishFrame BY <3>1
    <3> QED BY <3>1, <3>2
  <2> QED BY <2>1, <2>2
<1>6. Unscheduled(r) BY <1>5 DEF Unscheduled, CallFrame, PublishFrame
<1>7. ASSUME NEW u \in Uri, Open(u), NEW i \in DOMAIN r, Calls(r[i], u)
      PROVE  \E k \in DOMAIN r : k > i /\ r[k] = Analyzes(u)
  <2>1. r[i] \notin PublishFrame BY <1>7 DEF PublishFrame, Calls
  <2>2. i \in DOMAIN pre /\ Calls(pre[i], u) BY <1>5, <1>7, <2>1
  <2>3. PICK k \in DOMAIN post : post[k] = Analyzes(u) BY <1>7, <2>2 DEF Among
  <2> DEFINE m == Len(pre) + k
  <2>4. m \in DOMAIN r /\ m > i /\ ~(m <= Len(pre)) /\ m - Len(pre) = k
    BY <1>3, <1>4, <2>2
  <2>5. r[m] = post[k] BY <1>2, <1>4, <2>4
  <2> HIDE DEF m
  <2> QED BY <2>3, <2>4, <2>5
<1> QED BY <1>6, <1>7 DEF Refreshes, r

\* AllURIs lists every open document.
LEMMA OrderListsAll ==
    ASSUME Types, NEW s \in Orders(OpenUris), NEW u \in Uri, Open(u)
    PROVE  \E i \in 1..Len(s) : s[i] = u
<1> DEFINE n == Cardinality(OpenUris)
<1>1. IsFiniteSet(OpenUris) /\ n \in Nat BY FS_CardinalityType DEF Types
<1> HIDE DEF n
<1>2. s \in [1..n -> OpenUris] /\ \A i, k \in 1..n : s[i] = s[k] => i = k
  BY DEF Orders, n
<1>3. Len(s) = n BY <1>1, <1>2
<1>4. Cardinality(1..n) = n
  <2>1. 1 \in Int /\ n \in Int BY <1>1
  <2>2. Cardinality(1..n) = IF 1 > n THEN 0 ELSE n - 1 + 1 BY <2>1, FS_Interval
  <2> QED BY <1>1, <2>2
<1>5. s \in Injection(1..n, OpenUris) BY <1>2 DEF Injection, IsInjective
<1>6. s \in Surjection(1..n, OpenUris) BY <1>1, <1>4, <1>5, FS_Injection DEF n
<1>7. u \in OpenUris BY DEF OpenUris
<1> QED BY <1>3, <1>6, <1>7 DEF Surjection

\* And publishing all of them has each analyzed.
LEMMA PublishAllAnalyzes ==
    ASSUME Types, NEW s \in Orders(OpenUris)
    PROVE  /\ PublishAll(s) \in Seq(PublishFrame)
           /\ \A u \in Uri : Open(u) => Among(Analyzes(u), PublishAll(s))
<1> DEFINE r == PublishAll(s)
           at(k) == (k + 1) \div 2
           f(u) == CallOn("analyze", u, docs[u])
           g(u) == CallOn("publish", u, docs[u])
<1>1. /\ Len(s) \in Nat
      /\ \A i \in 1..Len(s) : s[i] \in Uri /\ Open(s[i]) /\ docs[s[i]] \in Document
  BY OrderOfOpen
<1>2. r = [k \in 1..(2 * Len(s)) |-> <<f(s[at(k)]), g(s[at(k)])>>[2 - (k % 2)]]
  BY DEF PublishAll, PublishDiagnostics
<1>3. \A k \in 1..(2 * Len(s)) : at(k) \in 1..Len(s) /\ 2 - (k % 2) \in {1, 2} BY <1>1
<1>4. \A u \in Uri : docs[u] \in Document => f(u) \in PublishFrame /\ g(u) \in PublishFrame
  BY DEF CallOn, PublishFrame, Frame, Do
<1>5. \A i \in 1..Len(s) : /\ at(2 * i - 1) = i /\ 2 - ((2 * i - 1) % 2) = 1
                           /\ 2 * i - 1 \in 1..(2 * Len(s))
  BY <1>1
<1> HIDE DEF at
<1>6. \A u : <<f(u), g(u)>>[1] = f(u) /\ <<f(u), g(u)>>[2] = g(u) OBVIOUS
<1>7. \A u : f(u) = Analyzes(u) BY DEF Analyzes
<1> HIDE DEF f, g, r
<1>8. ASSUME NEW k \in 1..(2 * Len(s)) PROVE r[k] \in PublishFrame
  <2> DEFINE u == s[at(k)]
  <2>1. u \in Uri /\ docs[u] \in Document BY <1>1, <1>3
  <2>2. r[k] = <<f(u), g(u)>>[2 - (k % 2)] BY <1>2
  <2> HIDE DEF u
  <2> QED BY <1>3, <1>4, <1>6, <2>1, <2>2
<1>9. r \in Seq(PublishFrame)
  <2>1. 2 * Len(s) \in Nat BY <1>1
  <2>2. r \in [1..(2 * Len(s)) -> PublishFrame] BY <1>2, <1>8
  <2> QED BY <2>1, <2>2
<1>10. ASSUME NEW u \in Uri, Open(u) PROVE \E k \in DOMAIN r : r[k] = Analyzes(u)
  <2>1. PICK i \in 1..Len(s) : s[i] = u BY <1>10, OrderListsAll
  <2> DEFINE k == 2 * i - 1
  <2>2. k \in 1..(2 * Len(s)) /\ at(k) = i /\ 2 - (k % 2) = 1 BY <1>5
  <2> HIDE DEF k
  <2>3. r[k] = <<f(s[at(k)]), g(s[at(k)])>>[2 - (k % 2)] BY <1>2, <2>2
  <2>4. r[k] = <<f(u), g(u)>>[1] BY <2>1, <2>2, <2>3
  <2>5. DOMAIN r = 1..(2 * Len(s)) BY <1>2
  <2> QED BY <1>6, <1>7, <2>2, <2>4, <2>5
<1> QED BY <1>9, <1>10 DEF r, Among

\* The frames a message gives the message loop have every open document rendered
\* after the calls among them; none, of any thread, is in the pipeline yet.
LEMMA MessageFrames ==
    ASSUME Types, Message
    PROVE  /\ \A t \in Thread : todo'[t] = todo[t] \/ Unscheduled(todo'[t])
           /\ Refreshing'
<1>1. /\ todo \in [Thread -> Seq(Frame)] /\ Loop \in Thread
      /\ docs \in [Uri -> Document \cup {None}]
  BY DEF Types, TypeOK, Thread
<1> DEFINE G == /\ \A t \in Thread : todo'[t] = todo[t] \/ Unscheduled(todo'[t])
                /\ Refreshing'
           Idle(s) == \A i \in DOMAIN s : s[i].do \in {"analyze", "publish", "debounce"} \cup Closing
<1>2. ASSUME NEW s, todo' = [todo EXCEPT ![Loop] = s], Idle(s) PROVE G
  <2>1. todo'[Loop] = s /\ \A t \in Thread : t # Loop => todo'[t] = todo[t] BY <1>1, <1>2
  <2>2. Unscheduled(s) BY <1>2 DEF Unscheduled, Closing
  <2>3. \A i \in DOMAIN s : \A u : ~Calls(s[i], u) BY <1>2 DEF Calls, Closing
  <2>4. Refreshing' BY <2>1, <2>3 DEF Refreshing, Refreshes, Calls
  <2> QED BY <2>1, <2>2, <2>4
<1>3. ASSUME NEW s, todo' = [todo EXCEPT ![Loop] = s], UNCHANGED docs,
             Unscheduled(s), Refreshes(s)
      PROVE  G
  <2>1. todo'[Loop] = s /\ \A t \in Thread : t # Loop => todo'[t] = todo[t] BY <1>1, <1>3
  <2>2. \A u : Analyzes(u)' = Analyzes(u) /\ (Open(u)' <=> Open(u))
    BY <1>3 DEF Analyzes, CallOn, Open
  <2>3. Refreshing' BY <1>3, <2>1, <2>2 DEF Refreshing, Refreshes, Calls
  <2> QED BY <1>3, <2>1, <2>3
<1> SUFFICES G OBVIOUS
<1> HIDE DEF G
<1>4. ASSUME NEW u \in Uri, NEW t \in Text, DidOpen(u, t) PROVE G
  <2> DEFINE d == [version |-> edits + 1, text |-> t]
             s == PublishDiagnostics(u, d)
  <2>1. todo' = [todo EXCEPT ![Loop] = s] BY <1>4 DEF DidOpen
  <2>2. Idle(s) BY DEF PublishDiagnostics, CallOn
  <2> HIDE DEF s, Idle
  <2> QED BY <1>2, <2>1, <2>2
<1>5. ASSUME NEW u \in Uri, NEW t \in Text, DidChange(u, t) PROVE G
  <2> DEFINE s == <<Call("debounce", u)>>
  <2>1. todo' = [todo EXCEPT ![Loop] = s] BY <1>5 DEF DidChange
  <2>2. Idle(s) BY DEF Call
  <2> HIDE DEF s, Idle
  <2> QED BY <1>2, <2>1, <2>2
<1>6. ASSUME NEW u \in Uri, DidClose(u) PROVE G
  <2> DEFINE s == CloseFrames(u)
  <2>1. todo' = [todo EXCEPT ![Loop] = s] BY <1>6 DEF DidClose
  <2>2. s = CloseRest(u, 1)
    <3>1. CloseRest(u, 1) = [i \in 1..7 |-> Call(CloseDo[i], u)] BY DEF CloseRest
    <3> QED BY <3>1 DEF CloseFrames, CloseDo
  <2> HIDE DEF s
  <2>3. Idle(s)
    <3>1. 1 \in 1..7 OBVIOUS
    <3> QED BY <2>2, <3>1, CloseRestFacts
  <2> HIDE DEF Idle
  <2> QED BY <1>2, <2>1, <2>3
<1>7. ASSUME NEW pre \in Seq(CallFrame), NEW post \in Seq(PublishFrame), UNCHANGED docs,
             todo' = [todo EXCEPT ![Loop] = pre \o post],
             \A u \in Uri : Open(u) /\ (\E i \in DOMAIN pre : Calls(pre[i], u))
                              => Among(Analyzes(u), post)
      PROVE  G
  <2> DEFINE s == pre \o post
  <2>1. Unscheduled(s) /\ Refreshes(s) BY <1>7, CallsThenPublishes
  <2> HIDE DEF s
  <2>2. todo' = [todo EXCEPT ![Loop] = s] BY <1>7 DEF s
  <2> QED BY <1>3, <1>7, <2>1, <2>2
<1>8. \A do \in {"enable", "disable", "configure", "invalidate", "setPending"} :
         \A u \in Uri \cup {None} : Call(do, u) \in CallFrame
  BY DEF Call, CallFrame, Frame, Do
<1>9. \A u \in Uri : docs[u] \in Document => CallOn("analyze", u, docs[u]) \in PublishFrame
  BY DEF CallOn, PublishFrame, Frame, Do
<1>10. CASE DidChangeWatchedFiles
  <2>1. PICK o \in Orders(OpenUris) :
           todo' = [todo EXCEPT ![Loop] = <<Call("invalidate", None)>> \o
                      [i \in DOMAIN o |-> CallOn("analyze", o[i], docs[o[i]])]]
    BY <1>10 DEF DidChangeWatchedFiles
  <2> DEFINE c == Call("invalidate", None)
             pre == <<c>>
             post == [i \in DOMAIN o |-> CallOn("analyze", o[i], docs[o[i]])]
  <2>2. c \in CallFrame BY <1>8
  <2>3. todo' = [todo EXCEPT ![Loop] = pre \o post] BY <2>1
  <2> HIDE DEF c
  <2>4. pre \in Seq(CallFrame) BY <2>2
  <2>5. /\ Len(o) \in Nat /\ DOMAIN o = 1..Len(o)
        /\ \A i \in 1..Len(o) : o[i] \in Uri /\ docs[o[i]] \in Document
    BY OrderOfOpen
  <2>6. post \in [1..Len(o) -> PublishFrame] BY <1>9, <2>5
  <2>7. post \in Seq(PublishFrame) BY <2>5, <2>6
  <2>8. ASSUME NEW u \in Uri, Open(u) PROVE Among(Analyzes(u), post)
    <3>1. PICK i \in 1..Len(o) : o[i] = u BY <2>8, OrderListsAll
    <3>2. i \in DOMAIN post /\ post[i] = Analyzes(u) BY <2>5, <3>1 DEF Analyzes
    <3> HIDE DEF post
    <3> QED BY <3>2 DEF Among
  <2> HIDE DEF pre, post
  <2>9. UNCHANGED docs BY <1>10 DEF DidChangeWatchedFiles
  <2> QED BY <1>7, <2>3, <2>4, <2>7, <2>8, <2>9
<1>11. CASE DidChangeConfig
  <2>1. PICK setting \in {"enable", "disable"}, fs \in RendererFrames, o \in Orders(OpenUris) :
           todo' = [todo EXCEPT ![Loop] = <<Call(setting, None)>> \o fs \o PublishAll(o)]
    BY <1>11 DEF DidChangeConfig
  <2> DEFINE c == Call(setting, None)
             one == <<c>>
             pre == one \o fs
             post == PublishAll(o)
  <2>2. c \in CallFrame BY <1>8
  <2>3. todo' = [todo EXCEPT ![Loop] = pre \o post] BY <2>1
  <2> HIDE DEF c, post
  <2>4. one \in Seq(CallFrame) BY <2>2
  <2>5. fs \in Seq(CallFrame)
    <3> DEFINE inv == Call("invalidate", None)
               conf == Call("configure", None)
    <3>1. inv \in CallFrame /\ conf \in CallFrame BY <1>8
    <3>2. fs \in {<<>>, <<inv>>, <<conf, inv>>} BY DEF RendererFrames
    <3> HIDE DEF inv, conf
    <3>3. <<>> \in Seq(CallFrame) /\ <<inv>> \in Seq(CallFrame) BY <3>1
    <3>4. <<conf, inv>> \in Seq(CallFrame) BY <3>1
    <3> QED BY <3>2, <3>3, <3>4
  <2> HIDE DEF one
  <2>6. pre \in Seq(CallFrame) BY <2>4, <2>5, ConcatProperties
  <2>7. post \in Seq(PublishFrame) /\ \A u \in Uri : Open(u) => Among(Analyzes(u), post)
    BY PublishAllAnalyzes DEF post
  <2> HIDE DEF pre
  <2>8. UNCHANGED docs BY <1>11 DEF DidChangeConfig
  <2> QED BY <1>7, <2>3, <2>6, <2>7, <2>8
<1>12. ASSUME NEW u \in Uri, ExecuteCommand(u) PROVE G
  <2>1. UNCHANGED docs BY <1>12 DEF ExecuteCommand
  <2>2. CASE Viewable(u)
    <3> DEFINE s == <<Call("show", u)>>
    <3>1. PICK w \in Worker : todo' = [todo EXCEPT ![w] = s] BY <1>12, <2>2 DEF ExecuteCommand
    <3>2. Unscheduled(s) BY DEF Unscheduled, Call
    <3> HIDE DEF s
    <3>3. \A t \in Thread : todo'[t] = todo[t] \/ todo'[t] = s BY <1>1, <3>1
    <3>4. todo'[Loop] = todo[Loop] BY <1>1, <3>1
    <3>5. todo[Loop] = <<>> BY <1>12 DEF ExecuteCommand, Ready
    <3>6. DOMAIN todo'[Loop] = {} BY <3>4, <3>5
    <3>7. Refreshing' BY <3>6 DEF Refreshing, Refreshes
    <3> QED BY <3>2, <3>3, <3>7 DEF G
  <2>3. CASE ~Viewable(u)
    <3> DEFINE c == Call("setPending", u)
               pre == <<c>>
               f == CallOn("analyze", u, docs[u])
               post == IF Open(u) THEN <<f>> ELSE <<>>
    <3>1. todo' = [todo EXCEPT ![Loop] = pre \o post] BY <1>12, <2>3 DEF ExecuteCommand, DeferShow
    <3>2. c \in CallFrame BY <1>8
    <3>3. \A v : Calls(c, v) => v = u BY DEF Calls, Call
    <3> HIDE DEF c
    <3>4. pre \in Seq(CallFrame) /\ DOMAIN pre = {1} /\ pre[1] = c BY <3>2
    <3>5. Open(u) => f \in PublishFrame /\ f = Analyzes(u)
      BY <1>1, <1>9 DEF Open, Analyzes
    <3> HIDE DEF f
    <3>6. post \in Seq(PublishFrame) BY <3>5
    <3>7. Open(u) => post = <<f>> /\ 1 \in DOMAIN <<f>> /\ <<f>>[1] = f OBVIOUS
    <3> HIDE DEF pre, post
    <3>8. ASSUME NEW v \in Uri, Open(v), \E i \in DOMAIN pre : Calls(pre[i], v)
          PROVE  Among(Analyzes(v), post)
      <4>1. v = u BY <3>3, <3>4, <3>8
      <4> QED BY <3>5, <3>7, <3>8, <4>1 DEF Among
    <3> QED BY <1>7, <2>1, <3>1, <3>4, <3>6, <3>8
  <2> QED BY <2>2, <2>3
<1> QED BY <1>4, <1>5, <1>6, <1>10, <1>11, <1>12 DEF Message

\* While the message loop runs its frames, it still renders every open document
\* after the calls that are left.
LEMMA RefreshingRan ==
    ASSUME TypeOK, Refreshing, todo[Loop] # <<>>, NEW fs \in Seq(ThreadFrame),
           todo'[Loop] = fs \o Tail(todo[Loop]), UNCHANGED docs
    PROVE  Refreshing'
<1> DEFINE s == todo[Loop]
           r == fs \o Tail(s)
           n == Len(fs)
<1>1. s \in Seq(Frame) /\ s # <<>> BY DEF TypeOK, Thread
<1>2. fs \in Seq(Frame)
  <2>1. ThreadFrame \subseteq Frame BY DEF ThreadFrame
  <2> QED BY <2>1
<1>3. /\ n \in Nat
      /\ \A k \in DOMAIN r : \/ k \in DOMAIN fs /\ r[k] = fs[k]
                             \/ /\ k + 1 - n \in DOMAIN s /\ k + 1 - n # 1
                                /\ r[k] = s[k + 1 - n]
      /\ \A i \in DOMAIN s : i # 1 => n + i - 1 \in DOMAIN r /\ r[n + i - 1] = s[i]
  <2> HIDE DEF s
  <2>1. r = fs \o Tail(s) OBVIOUS
  <2> HIDE DEF r
  <2>2. n \in Nat BY <1>2
  <2>3. \A k \in DOMAIN r : \/ k \in DOMAIN fs /\ r[k] = fs[k]
                            \/ /\ k + 1 - n \in DOMAIN s /\ k + 1 - n # 1
                               /\ r[k] = s[k + 1 - n]
    BY <1>1, <1>2, <2>1, Positions
  <2>4. \A i \in DOMAIN s : i # 1 => n + i - 1 \in DOMAIN r /\ r[n + i - 1] = s[i]
    BY <1>1, <1>2, <2>1, Positions
  <2> QED BY <2>2, <2>3, <2>4
<1>4. r = todo'[Loop] OBVIOUS
<1>5. DOMAIN s = 1..Len(s) /\ Len(s) \in Nat /\ DOMAIN r \subseteq Nat
  <2>1. r \in Seq(Frame)
    <3> HIDE DEF s
    <3> QED BY <1>1, <1>2, Positions
  <2> HIDE DEF r
  <2> QED BY <1>1, <2>1
<1>6. \A i \in DOMAIN fs : \A u : ~Calls(fs[i], u)
  <2>1. \A i \in DOMAIN fs : fs[i] \in ThreadFrame OBVIOUS
  <2> QED BY <2>1, Zenon DEF ThreadFrame, Calls
<1>7. \A u : Analyzes(u)' = Analyzes(u) /\ (Open(u)' <=> Open(u)) BY DEF Analyzes, CallOn, Open
<1>8. \A u \in Uri : Open(u) =>
         \A i \in DOMAIN s : Calls(s[i], u) => \E k \in DOMAIN s : k > i /\ s[k] = Analyzes(u)
  BY DEF Refreshing, Refreshes
<1> HIDE DEF s, n
<1>9. ASSUME NEW u \in Uri, Open(u), NEW i \in DOMAIN r, Calls(r[i], u)
      PROVE  \E k \in DOMAIN r : k > i /\ r[k] = Analyzes(u)
  <2> DEFINE j == i + 1 - n
  <2> HIDE DEF r
  <2>1. j \in DOMAIN s /\ j # 1 /\ r[i] = s[j] BY <1>3, <1>6, <1>9
  <2>2. PICK k \in DOMAIN s : k > j /\ s[k] = Analyzes(u) BY <1>8, <1>9, <2>1
  <2>3. k # 1 /\ n + k - 1 > i BY <1>3, <1>5, <1>9, <2>1, <2>2
  <2>4. n + k - 1 \in DOMAIN r /\ r[n + k - 1] = s[k] BY <1>3, <2>3
  <2> QED BY <2>2, <2>3, <2>4
<1> HIDE DEF r
<1>10. ASSUME NEW u \in Uri, Open(u)', NEW i \in DOMAIN todo'[Loop], Calls(todo'[Loop][i], u)
       PROVE  \E k \in DOMAIN todo'[Loop] : k > i /\ todo'[Loop][k] = Analyzes(u)'
  BY <1>4, <1>7, <1>9, <1>10
<1> QED BY <1>10 DEF Refreshing, Refreshes, Calls

LEMMA RefreshingStep ==
    ASSUME Types, Refreshing, [Next]_vars
    PROVE  Refreshing'
<1>1. CASE UNCHANGED docs /\ todo'[Loop] = todo[Loop]
  <2>1. \A u : Analyzes(u)' = Analyzes(u) /\ (Open(u)' <=> Open(u))
    BY <1>1 DEF Analyzes, CallOn, Open
  <2> QED BY <1>1, <2>1 DEF Refreshing, Refreshes, Calls
<1>2. TypeOK /\ Loop \in Thread BY DEF Types, Thread
<1>3. CASE Message BY <1>3, MessageFrames
<1>4. CASE LoopStep
  <2>1. todo[Loop] # <<>> /\ Then(Loop, <<>>) /\ UNCHANGED docs
    BY <1>4 DEF LoopStep, Debounce, SetPendingShow, ApplySettings, Configure, InvalidateAll,
                CancelDebounce, ForgetPublish, CancelRender, ClearRenderState,
                TakePendingShow, ClearDiagnostics, RemoveRenderTemps, Runs, inputVars
  <2>2. todo'[Loop] = <<>> \o Tail(todo[Loop]) BY <2>1, LoopGoesOn DEF Ran
  <2>3. <<>> \in Seq(ThreadFrame) OBVIOUS
  <2> QED BY <1>2, <2>1, <2>2, <2>3, RefreshingRan
<1>5. ASSUME NEW th \in Thread, ThreadStep(th) PROVE Refreshing'
  <2>1. /\ todo[th] # <<>> /\ Top(th).do \in ThreadDo /\ UNCHANGED docs
        /\ \E fs \in Seq(ThreadFrame) : GoesOn(th, fs)
    BY <1>5, ThreadStepRuns DEF inputVars
  <2>2. PICK fs \in Seq(ThreadFrame) : GoesOn(th, fs) BY <2>1
  <2>3. /\ \A i \in DOMAIN fs : fs[i].uri = Top(th).uri
        /\ Then(th, fs) \/ \E f \in ThreadFrame : ThenGo(th, fs, <<f>>)
    BY <2>2 DEF GoesOn
  <2>4. Ran(th, fs) /\ (th # Loop => todo'[Loop] = todo[Loop]) BY <2>1, <2>3, Continues
  <2>5. CASE th = Loop
    <3>1. todo'[Loop] = fs \o Tail(todo[Loop]) BY <2>4, <2>5 DEF Ran
    <3> QED BY <1>2, <2>1, <2>5, <3>1, RefreshingRan
  <2> QED BY <1>1, <2>1, <2>4, <2>5
<1>6. ASSUME NEW u \in Uri, LintTimerFires(u) PROVE Refreshing'
  <2>1. PICK w \in Worker : todo' = [todo EXCEPT ![w] = <<Call("getDoc", u)>>]
    BY <1>6 DEF LintTimerFires
  <2>2. todo'[Loop] = todo[Loop] BY <1>2, <2>1 DEF TypeOK
  <2> QED BY <1>1, <1>6, <2>2 DEF LintTimerFires, inputVars
<1>7. ASSUME NEW j \in Job, RenderStep(j) PROVE Refreshing'
  <2>1. todo'[Loop] = todo[Loop] BY <1>2, <1>7, RenderRuns
  <2> QED BY <1>1, <1>7, <2>1 DEF RenderStep, inputVars
<1>8. CASE (\E p \in publishing : Collect(p) \/ Send(p)) \/ UNCHANGED vars
  BY <1>1, <1>8 DEF Collect, Send, vars, inputVars
<1> QED BY <1>3, <1>4, <1>5, <1>6, <1>7, <1>8 DEF Next

-----------------------------------------------------------------------------
(* Every frame that calls the pipeline keeps its job.                      *)

\* A thread's step leaves the other threads alone but for one it may start to
\* show something.
LEMMA OthersKept ==
    ASSUME Types, NEW th \in Thread, todo[th] # <<>>, NEW fs \in Seq(ThreadFrame), GoesOn(th, fs)
    PROVE  \A t \in Thread : t # th => todo'[t] = todo[t] \/ Unscheduled(todo'[t])
<1>1. TypeOK /\ fs \in Seq(Frame)
  <2>1. ThreadFrame \subseteq Frame BY DEF ThreadFrame
  <2> QED BY <2>1 DEF Types
<1>2. CASE Then(th, fs) BY <1>1, <1>2, ThenStep
<1>3. CASE \E f \in ThreadFrame : f.do = "show" /\ ThenGo(th, fs, <<f>>)
  <2>1. PICK f \in ThreadFrame : f.do = "show" /\ ThenGo(th, fs, <<f>>) BY <1>3
  <2> DEFINE gs == <<f>>
  <2>2. f \in Frame BY DEF ThreadFrame
  <2>3. gs \in Seq(Frame) /\ ThenGo(th, fs, gs) /\ Unscheduled(gs)
    BY <2>1, <2>2 DEF Unscheduled
  <2> HIDE DEF gs
  <2>4. \E w \in Worker \ {th} : /\ todo'[w] = gs
                                 /\ \A t \in Thread \ {th, w} : todo'[t] = todo[t]
    BY <1>1, <2>3, ThenGoStep
  <2> QED BY <2>3, <2>4
<1> QED BY <1>2, <1>3 DEF GoesOn

\* The job of a frame that calls the pipeline.
LEMMA ScheduleTop ==
    ASSUME Types, SchedulesRun, NEW t \in Thread, Runs(t, "schedule")
    PROVE  /\ Top(t).arg \in Job /\ Top(t).uri \in Uri
           /\ Scheduling(Top(t).arg, Top(t).uri)
<1>1. todo[t] # <<>> /\ Top(t).do = "schedule" /\ Top(t).do \in ThreadDo
  BY DEF Runs, ThreadDo
<1>2. Top(t) \in ThreadFrame /\ Top(t).uri \in Uri BY <1>1, ThreadTop
<1>3. Top(t).arg \in Job BY <1>1, <1>2 DEF ThreadFrame
<1> QED BY <1>2, <1>3 DEF SchedulesRun

LEMMA AnalyzeSchedules ==
    ASSUME Types, SchedulesRun, NEW th \in Thread, Analyze(th), Renders(Top(th).doc)
    PROVE  SchedulesRun' /\ Runs(th, "schedule")' /\ Top(th).uri' = Top(th).uri
           /\ todo'[th] # <<>>
<1> DEFINE u == Top(th).uri
           d == Top(th).doc
<1>1. PICK j \in Job : /\ Pipeline!Schedule(j, u, d.text)
                       /\ Then(th, <<[Call("schedule", u) EXCEPT !.arg = j]>>)
  BY DEF Analyze
<1> DEFINE f == [Call("schedule", u) EXCEPT !.arg = j]
           fs == <<f>>
<1>2. todo[th] # <<>> /\ Top(th).do \in ThreadDo BY DEF Analyze, Runs, ThreadDo
<1>3. u \in Uri /\ d.text \in Renderable BY <1>2, ThreadTop DEF Renders
<1>4. f \in ThreadFrame /\ f \in Frame BY <1>3, Frames DEF ThreadFrame
<1>5. f.do = "schedule" /\ f.uri = u /\ f.arg = j BY DEF Call
<1>6. Then(th, fs) BY <1>1
<1>7. PICK v : v = Top(th).uri OBVIOUS
<1>8. Pipeline!Schedule(j, v, d.text) /\ f.uri = v /\ v \in Uri BY <1>1, <1>3, <1>5, <1>7
<1> HIDE DEF f
<1>9. fs \in Seq(Frame) /\ First(fs) /\ DOMAIN fs = {1} /\ fs[1] = f /\ fs # <<>> /\ Head(fs) = f
  BY <1>4 DEF First
<1> HIDE DEF fs
<1>10. /\ todo' \in [Thread -> Seq(Frame)] /\ todo'[th] = fs \o Tail(todo[th])
       /\ \A t \in Thread \ {th} : todo'[t] = todo[t]
  BY <1>2, <1>6, <1>9, ThenStep DEF Types, Ran
<1>11. todo'[th] # <<>> /\ Head(todo'[th]) = f
  <2> DEFINE s == todo[th]
             r == fs \o Tail(s)
  <2>1. s \in Seq(Frame) /\ s # <<>> BY <1>2 DEF Types, TypeOK
  <2> HIDE DEF s
  <2>2. Tail(s) \in Seq(Frame) BY <2>1, HeadTailProperties
  <2>3. /\ Len(r) = Len(fs) + Len(Tail(s)) /\ r \in Seq(Frame)
        /\ \A i \in 1..(Len(fs) + Len(Tail(s))) :
              r[i] = IF i <= Len(fs) THEN fs[i] ELSE Tail(s)[i - Len(fs)]
    BY <1>9, <2>2, ConcatProperties
  <2>4. Len(fs) = 1 /\ Len(Tail(s)) \in Nat BY <1>9, <2>2
  <2> HIDE DEF r
  <2>5. r # <<>> /\ Head(r) = r[1] /\ r[1] = fs[1] BY <2>3, <2>4
  <2> QED BY <1>9, <1>10, <2>5 DEF r, s
<1>12. Top(th)' = f BY <1>11 DEF Top
<1>13. \A t \in Thread : First(todo'[t])
  <2>1. First(todo'[th]) BY <1>2, <1>9, <1>10, NextTop DEF Types, SchedulesRun
  <2> QED BY <1>10, <2>1 DEF SchedulesRun
<1>14. Scheduling(j, v)'
  <2>1. jobs \in [Job -> Pipeline!JobState \cup {None}]
        /\ registry \in Renderer \cup {None} /\ epoch \in 0..MaxRequests
    BY DEF Types, TypeOK, Pipeline!TypeOK
  <2> DEFINE job == [phase |-> "scheduling", uri |-> v, text |-> d.text, by |-> registry,
                     epoch |-> epoch, err |-> "none"]
  <2>2. jobs' = [jobs EXCEPT ![j] = job] /\ registry # None BY <1>8 DEF Pipeline!Schedule
  <2>3. job \in Pipeline!JobState
    BY <1>3, <1>8, <2>1, <2>2 DEF Pipeline!JobState, Pipeline!Phase, Pipeline!Err
  <2>4. job # None /\ job.phase = "scheduling" /\ job.uri = v BY <2>3, PipelineAssumption
  <2> HIDE DEF job
  <2>5. jobs'[j] = job BY <2>1, <2>2
  <2> QED BY <2>4, <2>5 DEF Scheduling
<1>15. ASSUME NEW t \in Thread, t # th, Runs(t, "schedule")'
       PROVE  /\ Runs(t, "schedule") /\ Top(t)' = Top(t)
              /\ Top(t).arg # j /\ Scheduling(Top(t).arg, Top(t).uri)'
  <2>1. Runs(t, "schedule") /\ Top(t)' = Top(t) BY <1>10, <1>15 DEF Runs, Top
  <2>2. PICK i \in Job, w \in Uri : i = Top(t).arg /\ w = Top(t).uri /\ Scheduling(i, w)
    BY <2>1, ScheduleTop
  <2>3. i # j BY <1>8, <2>2 DEF Scheduling, Pipeline!Schedule, Pipeline!Unused
  <2>4. Scheduling(i, w)' BY <1>3, <1>8, <2>2, SchedulingKept
  <2> QED BY <2>1, <2>2, <2>3, <2>4
<1>16. Runs(th, "schedule")' /\ Top(th).uri' = v /\ Top(th).arg' = j
  BY <1>5, <1>8, <1>11, <1>12 DEF Runs, Top
<1>17. SchedulesRun'
  <2>1. \A t \in Thread : Runs(t, "schedule")' => Scheduling(Top(t).arg, Top(t).uri)'
    BY <1>14, <1>15, <1>16
  <2>2. ASSUME NEW s \in Thread, NEW t \in Thread, Runs(s, "schedule")', Runs(t, "schedule")',
               Top(s).arg' = Top(t).arg'
        PROVE  s = t
    <3>1. CASE s = th \/ t = th BY <1>15, <1>16, <2>2, <3>1
    <3>2. CASE s # th /\ t # th BY <1>15, <2>2, <3>2 DEF SchedulesRun
    <3> QED BY <3>1, <3>2
  <2> QED BY <1>13, <2>1, <2>2 DEF SchedulesRun
<1> QED BY <1>7, <1>11, <1>16, <1>17

\* Once a thread has run a frame that analyzes nothing, it does not call the
\* pipeline next; others have the frames they had or none that does.
LEMMA ThreadTops ==
    ASSUME Types, SchedulesRun, NEW th \in Thread, ThreadStep(th),
           ~(Analyze(th) /\ Renders(Top(th).doc))
    PROVE  /\ First(todo'[th]) /\ ~Runs(th, "schedule")'
           /\ \A t \in Thread : t # th =>
                 todo'[t] = todo[t] \/ (First(todo'[t]) /\ ~Runs(t, "schedule")')
<1>1. TypeOK BY DEF Types
<1>2. /\ todo[th] # <<>> /\ Top(th).do \in ThreadDo /\ UNCHANGED docs
      /\ \E fs \in Seq(ThreadFrame) : GoesOn(th, fs)
  BY ThreadStepRuns DEF inputVars
<1>3. PICK fs \in Seq(ThreadFrame) : GoesOn(th, fs) BY <1>2
<1>4. /\ \A i \in DOMAIN fs : fs[i].uri = Top(th).uri
      /\ Then(th, fs) \/ \E f \in ThreadFrame : ThenGo(th, fs, <<f>>)
      /\ \A i \in DOMAIN fs : fs[i].do = "schedule" => Top(th).do = "analyze"
  BY <1>3 DEF GoesOn
<1>5. todo' \in [Thread -> Seq(Frame)] /\ todo'[th] = fs \o Tail(todo[th])
  BY <1>2, <1>4, Continues DEF Ran
<1>6. fs \in Seq(Frame)
  <2>1. ThreadFrame \subseteq Frame BY DEF ThreadFrame
  <2> QED BY <2>1
<1>7. \A t \in Thread : t # th => todo'[t] = todo[t] \/ Unscheduled(todo'[t])
  BY <1>2, <1>3, OthersKept
<1>8. \A t \in Thread : t # th =>
         todo'[t] = todo[t] \/ (First(todo'[t]) /\ ~Runs(t, "schedule")')
  BY <1>5, <1>7, NoSchedule
<1>9. ASSUME NEW gs \in Seq(Frame), Unscheduled(gs), todo'[th] = gs \o Tail(todo[th])
      PROVE  First(todo'[th]) /\ ~Runs(th, "schedule")'
  <2>1. First(gs) /\ First(todo[th]) BY <1>9 DEF First, Unscheduled, SchedulesRun
  <2> QED BY <1>1, <1>2, <1>9, <2>1, NextTop DEF Unscheduled
<1>10. CASE Top(th).do # "analyze"
  <2>1. Unscheduled(fs) BY <1>4, <1>10 DEF Unscheduled
  <2> QED BY <1>5, <1>6, <1>8, <1>9, <2>1
<1>11. CASE Top(th).do = "analyze"
  <2>1. Analyze(th)
    BY <1>11 DEF ThreadStep, Schedule, Notify, StoreRendered, ServeShow, SchedulePublish,
                 GetDoc, Show, WriteTemp, Runs
  <2>2. Then(th, <<>>) BY <2>1 DEF Analyze
  <2>3. <<>> \in Seq(Frame) /\ Unscheduled(<<>>)
    <3>1. DOMAIN <<>> = {} OBVIOUS
    <3> QED BY <3>1 DEF Unscheduled
  <2>4. todo'[th] = <<>> \o Tail(todo[th]) BY <1>1, <1>2, <2>2, <2>3, ThenStep DEF Ran
  <2> QED BY <1>8, <1>9, <2>3, <2>4
<1> QED BY <1>10, <1>11

\* In any other step, each thread has the frames it had or none that calls the
\* pipeline.
LEMMA TopsStep ==
    ASSUME Types, SchedulesRun, [Next]_vars,
           \A th \in Thread : ~(Analyze(th) /\ Renders(Top(th).doc))
    PROVE  \A t \in Thread : todo'[t] = todo[t] \/ (First(todo'[t]) /\ ~Runs(t, "schedule")')
<1> DEFINE G == \A t \in Thread : todo'[t] = todo[t] \/ (First(todo'[t]) /\ ~Runs(t, "schedule")')
<1>1. TypeOK /\ Loop \in Thread BY DEF Types, Thread
<1>2. todo' \in [Thread -> Seq(Frame)] BY ThreadsKept
<1>3. ASSUME \A t \in Thread : todo'[t] = todo[t] \/ Unscheduled(todo'[t]) PROVE G
  BY <1>2, <1>3, NoSchedule
<1>4. ASSUME NEW th \in Thread, todo[th] # <<>>, NEW fs \in Seq(Frame), Unscheduled(fs),
             todo'[th] = fs \o Tail(todo[th])
      PROVE  First(todo'[th]) /\ ~Runs(th, "schedule")'
  <2>1. First(fs) /\ First(todo[th]) BY <1>4 DEF First, Unscheduled, SchedulesRun
  <2> QED BY <1>1, <1>4, <2>1, NextTop DEF Unscheduled
<1>5. CASE Message BY <1>3, <1>5, MessageFrames
<1>6. CASE LoopStep
  <2>1. todo[Loop] # <<>> /\ Then(Loop, <<>>) /\ UNCHANGED docs
    BY <1>6 DEF LoopStep, Debounce, SetPendingShow, ApplySettings, Configure, InvalidateAll,
                CancelDebounce, ForgetPublish, CancelRender, ClearRenderState,
                TakePendingShow, ClearDiagnostics, RemoveRenderTemps, Runs, inputVars
  <2>2. /\ todo'[Loop] = <<>> \o Tail(todo[Loop])
        /\ \A t \in Thread \ {Loop} : todo'[t] = todo[t]
    BY <2>1, LoopGoesOn DEF Ran
  <2>3. <<>> \in Seq(Frame) /\ Unscheduled(<<>>)
    <3>1. DOMAIN <<>> = {} OBVIOUS
    <3> QED BY <3>1 DEF Unscheduled
  <2>4. First(todo'[Loop]) /\ ~Runs(Loop, "schedule")' BY <1>1, <1>4, <2>1, <2>2, <2>3
  <2> QED BY <2>2, <2>4
<1>7. ASSUME NEW th \in Thread, ThreadStep(th) PROVE G BY <1>7, ThreadTops
<1>8. ASSUME NEW u \in Uri, LintTimerFires(u) PROVE G
  <2> DEFINE s == <<Call("getDoc", u)>>
  <2>1. PICK w \in Worker : todo' = [todo EXCEPT ![w] = s] BY <1>8 DEF LintTimerFires
  <2>2. Unscheduled(s) BY DEF Unscheduled, Call
  <2> HIDE DEF s
  <2> QED BY <1>1, <1>3, <2>1, <2>2 DEF TypeOK
<1>9. ASSUME NEW j \in Job, RenderStep(j) PROVE G
  <2> DEFINE s == <<[Call("notify", jobs[j].uri) EXCEPT !.arg = j]>>
  <2>1. todo' = todo \/ todo' = [todo EXCEPT ![j] = s] BY <1>9 DEF RenderStep
  <2>2. Unscheduled(s) BY DEF Unscheduled, Call
  <2> HIDE DEF s
  <2> QED BY <1>1, <1>3, <2>1, <2>2 DEF TypeOK
<1>10. CASE (\E p \in publishing : Collect(p) \/ Send(p)) \/ UNCHANGED vars
  BY <1>10 DEF Collect, Send, vars, inputVars
<1> QED BY <1>5, <1>6, <1>7, <1>8, <1>9, <1>10 DEF Next

LEMMA SchedulesStep ==
    ASSUME Types, SchedulesRun, [Next]_vars
    PROVE  SchedulesRun'
<1>1. CASE \E th \in Thread : Analyze(th) /\ Renders(Top(th).doc) BY <1>1, AnalyzeSchedules
<1>2. CASE \A th \in Thread : ~(Analyze(th) /\ Renders(Top(th).doc))
  <2>1. \A t \in Thread : todo'[t] = todo[t] \/ (First(todo'[t]) /\ ~Runs(t, "schedule")')
    BY <1>2, TopsStep
  <2>2. todo' \in [Thread -> Seq(Frame)] BY ThreadsKept
  <2>3. \A t \in Thread : \A j, u :
           (/\ Runs(t, "schedule") /\ Top(t).arg = j /\ Top(t).uri = u
            /\ todo'[t] = todo[t] /\ Runs(t, "schedule")')
           => Scheduling(j, u)'
    <3> SUFFICES ASSUME NEW t \in Thread, NEW j, NEW u,
                        /\ Runs(t, "schedule") /\ Top(t).arg = j /\ Top(t).uri = u
                        /\ todo'[t] = todo[t] /\ Runs(t, "schedule")'
                 PROVE  Scheduling(j, u)'
      OBVIOUS
    <3>1. j \in Job /\ Scheduling(j, u) BY ScheduleTop
    <3>2. ASSUME NEW th \in Thread, ThreadStep(th), ~Analyze(th) PROVE th # t
      BY <1>2, <3>2, ThreadTops
    <3>3. CASE UNCHANGED pipelineVars BY <3>3, <3>1, SchedulingKept
    <3>4. ASSUME NEW th \in Thread, Schedule(th) PROVE Scheduling(j, u)'
      <4>1. Runs(th, "schedule") BY <3>4 DEF Schedule
      <4>2. PICK i \in Job : i = Top(th).arg BY <4>1, ScheduleTop
      <4>3. Pipeline!ScheduleHit(i) \/ Pipeline!ScheduleArm(i) BY <3>4, <4>2 DEF Schedule
      <4>4. th # t
        <5>1. ThreadStep(th) /\ ~Analyze(th)
          BY <3>4, <4>1 DEF ThreadStep, Analyze, Runs
        <5> QED BY <5>1, ThreadTops
      <4>5. i # j BY <4>1, <4>2, <4>4 DEF SchedulesRun
      <4> QED BY <4>3, <4>5, <3>1, SchedulingKept
    <3>5. ASSUME NEW th \in Thread, Notify(th) PROVE Scheduling(j, u)'
      <4>1. todo[th] # <<>> /\ Top(th).do = "notify" /\ Top(th).do \in ThreadDo
        BY <3>5 DEF Notify, Runs, ThreadDo
      <4>2. Top(th) \in ThreadFrame BY <4>1, ThreadTop
      <4>3. PICK i \in Job : i = Top(th).arg BY <4>1, <4>2 DEF ThreadFrame
      <4>4. Pipeline!Report(i) BY <3>5, <4>3 DEF Notify
      <4> QED BY <4>4, <3>1, SchedulingKept
    <3>6. ASSUME NEW i \in Job, RenderStep(i) PROVE Scheduling(j, u)'
      BY <3>6, <3>1, SchedulingKept DEF RenderStep
    <3>7. CASE CancelRender
      <4>1. todo[Loop] # <<>> /\ Top(Loop).do \in Closing BY <3>7 DEF CancelRender, Runs, Closing
      <4>2. PICK v \in Uri : v = Top(Loop).uri BY <4>1, ClosingTop
      <4>3. Pipeline!Cancel(v) BY <3>7, <4>2 DEF CancelRender
      <4> QED BY <4>3, <3>1, SchedulingKept
    <3>8. CASE Configure \/ InvalidateAll
      BY <3>8, <3>1, SchedulingKept DEF Configure, InvalidateAll
    <3>9. CASE Message
      BY <3>3, <3>9 DEF Message, DidOpen, DidChange, DidClose, ExecuteCommand,
                        DidChangeWatchedFiles, DidChangeConfig
    <3>10. CASE Debounce \/ SetPendingShow \/ ApplySettings \/ CancelDebounce \/ ForgetPublish
                \/ ClearRenderState \/ TakePendingShow \/ ClearDiagnostics \/ RemoveRenderTemps
      BY <3>3, <3>10 DEF Debounce, SetPendingShow, ApplySettings, CancelDebounce, ForgetPublish,
                         ClearRenderState, TakePendingShow, ClearDiagnostics, RemoveRenderTemps
    <3>11. ASSUME NEW th \in Thread,
                  Analyze(th) \/ StoreRendered(th) \/ ServeShow(th) \/ SchedulePublish(th)
                     \/ GetDoc(th) \/ Show(th) \/ WriteTemp(th)
           PROVE  Scheduling(j, u)'
      <4>1. UNCHANGED pipelineVars
        BY <1>2, <3>11
        DEF Analyze, StoreRendered, ServeShow, SchedulePublish, GetDoc, Show, WriteTemp
      <4> QED BY <3>3, <4>1
    <3>12. CASE (\E v \in Uri : LintTimerFires(v)) \/ (\E p \in publishing : Collect(p) \/ Send(p))
                \/ UNCHANGED vars
      BY <3>3, <3>12 DEF LintTimerFires, Collect, Send, vars
    <3> QED
      BY <3>4, <3>5, <3>6, <3>7, <3>8, <3>9, <3>10, <3>11, <3>12 DEF Next, LoopStep, ThreadStep
  <2> QED BY <2>1, <2>2, <2>3, TopsKept
<1> QED BY <1>1, <1>2

-----------------------------------------------------------------------------
(* The way of a document to the render that serves a show of it.           *)

\* A thread that goes on with such a frame holds it.
LEMMA PassesOn ==
    ASSUME Types, NEW th \in Thread, todo[th] # <<>>, NEW fs \in Seq(Frame), Then(th, fs),
           NEW u, docs'[u] = docs[u], 1 \in DOMAIN fs, Serves(fs[1], u)
    PROVE  Held(th, u)'
<1>1. TypeOK BY DEF Types
<1>2. Ran(th, fs) BY <1>1, ThenStep
<1>3. \A i \in DOMAIN fs : Serves(fs[i], u) => Held(th, u)' BY <1>1, <1>2, HeldStep
<1> QED BY <1>3

\* From the frame it has to the next, until its render is registered or the show
\* is served.
LEMMA ThreadPasses ==
    ASSUME Types, SchedulesRun, NEW th \in Thread, NEW u \in Uri, ThreadStep(th),
           Serves(Top(th), u), Showable(u)'
    PROVE  Held(th, u)' \/ Registered(u)'
<1>1. /\ todo[th] # <<>> /\ Top(th).do \in ThreadDo /\ UNCHANGED docs
  BY ThreadStepRuns DEF inputVars
<1>2. Top(th) \in ThreadFrame /\ Open(u) /\ docs'[u] = docs[u]
  BY <1>1, ThreadTop DEF Showable, Open
<1>3. docs[u] \in Document /\ Loop \in Thread BY <1>2 DEF Types, TypeOK, Open, Thread
<1>4. Top(th).uri = u BY DEF Serves, Analyzes, CallOn
<1>5. kubernetes' = kubernetes /\ kubernetes' /\ registry'# None /\ docs[u].text \in Renderable
      /\ u \in pendingShow'
  <2>1. kubernetes' = kubernetes
    BY DEF ThreadStep, Analyze, Schedule, Notify, StoreRendered, ServeShow, SchedulePublish,
           GetDoc, Show, WriteTemp
  <2> QED BY <1>2, <2>1 DEF Showable
<1>7. ASSUME NEW f \in Frame, Then(th, <<f>>), Serves(f, u) PROVE Held(th, u)'
  <2> DEFINE fs == <<f>>
  <2>1. fs \in Seq(Frame) /\ 1 \in DOMAIN fs /\ fs[1] = f BY <1>7
  <2>2. Then(th, fs) BY <1>7
  <2> HIDE DEF fs
  <2> QED BY <1>1, <1>2, <1>7, <2>1, <2>2, PassesOn
<1>8. CASE Analyze(th)
  <2>1. Top(th) = Analyzes(u) /\ Top(th).doc = docs[u]
    BY <1>8 DEF Analyze, Runs, Serves, Analyzes, CallOn
  <2>2. registry' = registry
    BY <1>8 DEF Analyze, Pipeline!Schedule, pipelineVars
  <2>3. Renders(Top(th).doc) BY <1>5, <2>1, <2>2 DEF Renders
  <2>4. Runs(th, "schedule")' /\ Top(th).uri' = u /\ todo'[th] # <<>>
    BY <1>4, <1>8, <2>3, AnalyzeSchedules
  <2>5. todo' \in [Thread -> Seq(Frame)] BY ThreadsKept DEF Next
  <2>6. 1 \in DOMAIN todo'[th] /\ todo'[th][1] = Head(todo'[th])
    <3>1. todo'[th] \in Seq(Frame) BY <2>5
    <3> QED BY <2>4, <3>1
  <2>7. PICK f : f = todo'[th][1] OBVIOUS
  <2>8. f.do = "schedule" /\ f.uri = u BY <2>4, <2>6, <2>7 DEF Runs, Top
  <2> QED BY <2>6, <2>7, <2>8 DEF Held, Serves
<1>9. CASE Schedule(th)
  <2>1. PICK j \in Job : j = Top(th).arg /\ Scheduling(j, u)
    BY <1>4, <1>9, ScheduleTop DEF Schedule
  <2>2. CASE Pipeline!ScheduleHit(j) /\ Then(th, <<[Call("notify", u) EXCEPT !.arg = j]>>)
    <3> DEFINE f == [Call("notify", u) EXCEPT !.arg = j]
    <3>1. f \in ThreadFrame BY Frames
    <3>2. f \in Frame /\ Serves(f, u) BY <3>1 DEF ThreadFrame, Serves, Call
    <3> QED BY <1>7, <2>2, <3>2
  <2>3. CASE Pipeline!ScheduleArm(j)
    <3>1. jobs[j].uri = u BY <2>1 DEF Scheduling
    <3>2. /\ jobs \in [Job -> Pipeline!JobState \cup {None}] /\ epoch \in 0..MaxRequests
          /\ pending \in [Uri -> Job \cup {None}] /\ jobs[j] \in Pipeline!JobState
      BY <2>1 DEF Types, TypeOK, Pipeline!TypeOK, Scheduling
    <3> DEFINE m == Pipeline!Moved(j, "armed", epoch, "none")
    <3>3. pending'[u] = j /\ jobs'[j] = m /\ epoch' = epoch
      BY <2>3, <3>1, <3>2 DEF Pipeline!ScheduleArm, Pipeline!Superseded
    <3>4. m \in Pipeline!JobState /\ m.epoch = epoch
      BY <3>2 DEF Pipeline!Moved, Pipeline!JobState, Pipeline!Phase, Pipeline!Err
    <3>5. m # None BY <3>4, PipelineAssumption
    <3> HIDE DEF m
    <3>6. Registered(u)' BY <3>3, <3>4, <3>5 DEF Registered
    <3> QED BY <3>6
  <2> QED BY <1>4, <1>9, <2>1, <2>2, <2>3 DEF Schedule
<1>10. CASE Notify(th)
  <2>1. PICK j \in Job : j = Top(th).arg
    BY <1>2, <1>10 DEF Notify, Runs, ThreadFrame
  <2> DEFINE r == [of |-> jobs[j].text, err |-> jobs[j].err]
             f == [CallOn("store", u, docs[u]) EXCEPT !.arg = r]
  <2>2. Then(th, <<f>>) /\ Pipeline!Report(j) BY <1>2, <1>4, <1>10, <2>1 DEF Notify
  <2>3. r \in Result
    BY <2>2 DEF Pipeline!Report, Types, TypeOK, Pipeline!TypeOK, Pipeline!JobState, Result
  <2> HIDE DEF r
  <2>4. f \in ThreadFrame BY <1>3, <2>3, Frames
  <2>5. f \in Frame /\ Serves(f, u) BY <2>4 DEF ThreadFrame, Serves, CallOn
  <2> QED BY <1>7, <2>2, <2>5
<1>11. CASE StoreRendered(th)
  <2> DEFINE f == CallOn("serveShow", u, Top(th).doc)
  <2>1. Then(th, <<f>>) BY <1>2, <1>4, <1>11 DEF StoreRendered, StillOpen
  <2>2. Top(th).doc \in Document BY <1>2, <1>11 DEF StoreRendered, Runs, ThreadFrame
  <2>3. f \in ThreadFrame BY <2>2, Frames
  <2>4. f \in Frame /\ Serves(f, u) BY <2>3 DEF ThreadFrame, Serves, CallOn
  <2> QED BY <1>7, <2>1, <2>4
<1>12. CASE ServeShow(th)
  <2>1. u \notin pendingShow' BY <1>4, <1>12 DEF ServeShow
  <2> QED BY <1>5, <2>1
<1>13. CASE GetDoc(th)
  <2> DEFINE f == CallOn("analyze", u, docs[u])
             g == CallOn("publish", u, docs[u])
  <2>1. Then(th, <<f, g>>) BY <1>2, <1>4, <1>13 DEF GetDoc, PublishDiagnostics
  <2>2. f \in ThreadFrame /\ g \in ThreadFrame BY <1>3, Frames
  <2>3. f \in Frame /\ g \in Frame BY <2>2 DEF ThreadFrame
  <2>4. Serves(f, u) BY DEF Serves, Analyzes
  <2> HIDE DEF f, g
  <2> DEFINE fs == <<f, g>>
  <2>5. fs \in Seq(Frame) /\ 1 \in DOMAIN fs /\ fs[1] = f BY <2>3
  <2>6. Then(th, fs) BY <2>1
  <2> HIDE DEF fs
  <2> QED BY <1>1, <1>2, <2>4, <2>5, <2>6, PassesOn
<1>14. CASE SchedulePublish(th) \/ Show(th) \/ WriteTemp(th)
  BY <1>14 DEF SchedulePublish, Show, WriteTemp, Runs, Serves, Analyzes, CallOn
<1> QED
  BY <1>8, <1>9, <1>10, <1>11, <1>12, <1>13, <1>14 DEF ThreadStep

\* Nothing about the document changes but what its threads are given.
LEMMA ServedKept ==
    ASSUME Serving, NEW u \in Uri, Showable(u)', docs'[u] = docs[u],
           UNCHANGED <<kubernetes, registry, lintTimers>>, u \in pendingShow' => u \in pendingShow,
           \A t \in Thread : todo'[t] = todo[t] \/ todo[t] = <<>>,
           Registered(u) => Registered(u)'
    PROVE  Served(u)'
<1>1. Showable(u) BY DEF Showable, Open
<1>2. Served(u) BY <1>1 DEF Serving
<1>3. ASSUME NEW t \in Thread, Held(t, u) PROVE Held(t, u)' BY <1>3, HeldKept
<1> QED BY <1>2, <1>3 DEF Served

LEMMA ServedMessage ==
    ASSUME Inv, Serving, Message, NEW u \in Uri, Showable(u)'
    PROVE  Served(u)'
<1>1. Types /\ Loop \in Thread /\ todo \in [Thread -> Seq(Frame)]
  BY DEF Inv, Types, TypeOK, Thread
<1>2. /\ todo[Loop] = <<>>
      /\ \A t \in Thread : todo'[t] = todo[t] \/ todo[t] = <<>>
  BY <1>1, MessageRuns
<1>3. UNCHANGED <<kubernetes, lintTimers, pendingShow>> /\ UNCHANGED pipelineVars
  BY DEF Message, DidOpen, DidChange, DidClose, ExecuteCommand, DidChangeWatchedFiles,
         DidChangeConfig, showVars
<1>4. registry' = registry /\ (Registered(u) => Registered(u)')
  BY <1>3 DEF pipelineVars, Registered
<1>5. CASE docs'[u] = docs[u] BY <1>2, <1>3, <1>4, <1>5, ServedKept
<1>6. CASE docs'[u] # docs[u]
  <2>1. docs \in [Uri -> Document \cup {None}] BY <1>1 DEF Types, TypeOK
  <2>3. ASSUME NEW t \in Text, DidOpen(u, t) PROVE Served(u)'
    <3>1. ~Open(u) BY <2>3 DEF DidOpen
    <3>2. u \notin pendingShow BY <1>2, <3>1, AtRest DEF Forgotten
    <3> QED BY <1>3, <3>2 DEF Showable
  <2>4. ASSUME NEW t \in Text, DidChange(u, t) PROVE Served(u)'
    <3> DEFINE f == Call("debounce", u)
               s == <<f>>
    <3>1. Serves(f, u) BY DEF Serves, Call
    <3>2. todo' = [todo EXCEPT ![Loop] = s] BY <2>4 DEF DidChange
    <3>3. 1 \in DOMAIN s /\ s[1] = f OBVIOUS
    <3>4. f.do = "debounce" /\ f.uri = u BY DEF Call
    <3> HIDE DEF s, f
    <3>5. todo'[Loop] = s BY <1>1, <3>2
    <3>6. Held(Loop, u)' BY <3>3, <3>4, <3>5 DEF Held, Serves
    <3> QED BY <1>1, <3>6 DEF Served
  <2>5. CASE DidClose(u)
    <3>1. docs'[u] = None BY <2>1, <2>5 DEF DidClose
    <3> QED BY <3>1 DEF Showable, Open
  <2>6. ASSUME NEW v \in Uri, NEW t \in Text, DidOpen(v, t) \/ DidChange(v, t) PROVE v = u
    BY <1>6, <2>1, <2>6 DEF DidOpen, DidChange
  <2>7. ASSUME NEW v \in Uri, DidClose(v) PROVE v = u BY <1>6, <2>1, <2>7 DEF DidClose
  <2> QED
    BY <1>6, <2>3, <2>4, <2>5, <2>6, <2>7
    DEF Message, ExecuteCommand, DidChangeWatchedFiles, DidChangeConfig
<1> QED BY <1>5, <1>6

LEMMA ServedLoop ==
    ASSUME Inv, Pipeline!PendingOwnUri, Refreshing, Serving, LoopStep,
           NEW u \in Uri, Showable(u)'
    PROVE  Served(u)'
<1>1. Types /\ TypeOK /\ Loop \in Thread BY DEF Inv, Types, Thread
<1>2. todo[Loop] # <<>> /\ Then(Loop, <<>>) /\ UNCHANGED docs /\ Top(Loop).do \notin ThreadDo
  BY DEF LoopStep, Debounce, SetPendingShow, ApplySettings, Configure, InvalidateAll,
         CancelDebounce, ForgetPublish, CancelRender, ClearRenderState,
         TakePendingShow, ClearDiagnostics, RemoveRenderTemps, Runs, inputVars, ThreadDo
<1>3. <<>> \in Seq(Frame) /\ Ran(Loop, <<>>) BY <1>1, <1>2, LoopGoesOn
<1>4. Open(u) /\ docs'[u] = docs[u] BY <1>2 DEF Showable, Open
<1>5. \A t \in Thread : Held(t, u) /\ ~(t = Loop /\ Serves(Top(Loop), u)) => Held(t, u)'
  BY <1>1, <1>2, <1>3, <1>4, HeldStep
<1>6. Serves(Top(Loop), u) => Top(Loop).do = "debounce" /\ Top(Loop).uri = u
  BY <1>2 DEF Serves, Analyzes, CallOn, ThreadDo
<1>7. CASE Calls(Top(Loop), u)
  <2>1. 1 \in DOMAIN todo[Loop] /\ todo[Loop][1] = Top(Loop)
    <3>1. todo[Loop] \in Seq(Frame) BY <1>1 DEF TypeOK
    <3> QED BY <1>2, <3>1 DEF Top
  <2>2. \E k \in DOMAIN todo[Loop] : todo[Loop][k] = Analyzes(u)
    BY <1>4, <1>7, <2>1 DEF Refreshing, Refreshes
  <2>3. Held(Loop, u) BY <2>2 DEF Held, Serves
  <2>4. ~Serves(Top(Loop), u) BY <1>6, <1>7 DEF Calls
  <2> QED BY <1>1, <1>5, <2>3, <2>4 DEF Served
<1>8. CASE ~Calls(Top(Loop), u)
  <2>1. \/ Debounce
        \/ SetPendingShow /\ Top(Loop).uri # u
        \/ CancelDebounce \/ ForgetPublish \/ CancelRender \/ ClearRenderState
        \/ TakePendingShow \/ ClearDiagnostics \/ RemoveRenderTemps
    BY <1>8 DEF LoopStep, Calls, SetPendingShow, ApplySettings, Configure, InvalidateAll, Runs
  <2>2. Top(Loop).do \in Closing => Top(Loop).uri # u /\ Top(Loop).uri \in Uri
    BY <1>1, <1>2, <1>4, ClosingTop
  <2>3. CancelDebounce => Top(Loop).do \in Closing
    BY DEF CancelDebounce, Runs, Closing
  <2>4. CancelRender => Top(Loop).do \in Closing
    BY DEF CancelRender, Runs, Closing
  <2>5. UNCHANGED kubernetes /\ registry' = registry /\ (u \in pendingShow' => u \in pendingShow)
    BY <2>1 DEF Debounce, SetPendingShow, CancelDebounce, ForgetPublish, CancelRender,
                ClearRenderState, TakePendingShow, ClearDiagnostics, RemoveRenderTemps,
                pipelineVars, showVars, Pipeline!Cancel
  <2>6. Served(u)
    <3>1. Showable(u) BY <1>4, <2>5 DEF Showable
    <3> QED BY <3>1 DEF Serving
  <2>7. CASE u \in lintTimers
    <3>1. u \in lintTimers'
      BY <2>1, <2>2, <2>3, <2>7
      DEF Debounce, SetPendingShow, CancelDebounce, ForgetPublish, CancelRender,
          ClearRenderState, TakePendingShow, ClearDiagnostics, RemoveRenderTemps
    <3> QED BY <3>1 DEF Served
  <2>8. ASSUME NEW t \in Thread, Held(t, u) PROVE Served(u)'
    <3>1. CASE t = Loop /\ Serves(Top(Loop), u)
      <4>1. Top(Loop).do = "debounce" /\ Top(Loop).uri = u BY <1>6, <3>1
      <4>2. Debounce
        BY <2>1, <4>1
        DEF SetPendingShow, CancelDebounce, ForgetPublish, CancelRender, ClearRenderState,
            TakePendingShow, ClearDiagnostics, RemoveRenderTemps, Runs
      <4> QED BY <4>1, <4>2 DEF Debounce, Served
    <3>2. CASE ~(t = Loop /\ Serves(Top(Loop), u))
      <4>1. Held(t, u)' BY <1>5, <2>8, <3>2
      <4> QED BY <4>1 DEF Served
    <3> QED BY <3>1, <3>2
  <2>9. CASE Registered(u)
    <3>1. UNCHANGED pipelineVars \/ \E v \in Uri \ {u} : Pipeline!Cancel(v)
      BY <2>1, <2>2, <2>4
      DEF Debounce, SetPendingShow, CancelDebounce, ForgetPublish, CancelRender,
          ClearRenderState, TakePendingShow, ClearDiagnostics, RemoveRenderTemps
    <3>2. Registered(u)' BY <1>1, <2>9, <3>1, RegisteredKept
    <3> QED BY <3>2 DEF Served
  <2> QED BY <2>6, <2>7, <2>8, <2>9 DEF Served
<1> QED BY <1>7, <1>8

LEMMA ServedThread ==
    ASSUME Types, Pipeline!PendingOwnUri, SchedulesRun, Serving,
           NEW th \in Thread, ThreadStep(th), NEW u \in Uri, Showable(u)'
    PROVE  Served(u)'
<1>1. /\ todo[th] # <<>> /\ Top(th).do \in ThreadDo /\ UNCHANGED docs
      /\ \E fs \in Seq(ThreadFrame) : GoesOn(th, fs)
  BY ThreadStepRuns DEF inputVars
<1>2. TypeOK /\ docs'[u] = docs[u] BY <1>1 DEF Types
<1>3. \E fs \in Seq(Frame) : Ran(th, fs)
  <2>1. PICK fs \in Seq(ThreadFrame) : GoesOn(th, fs) BY <1>1
  <2>2. ThreadFrame \subseteq Frame BY DEF ThreadFrame
  <2>3. fs \in Seq(Frame) BY <2>2
  <2>4. /\ \A i \in DOMAIN fs : fs[i].uri = Top(th).uri
        /\ Then(th, fs) \/ \E f \in ThreadFrame : ThenGo(th, fs, <<f>>)
    BY <2>1 DEF GoesOn
  <2>5. Ran(th, fs) BY <1>1, <2>4, Continues
  <2> QED BY <2>3, <2>5
<1>4. CASE Serves(Top(th), u)
  BY <1>4, ThreadPasses DEF Served
<1>5. CASE ~Serves(Top(th), u)
  <2>1. UNCHANGED <<kubernetes, lintTimers>> /\ registry' = registry /\ pendingShow' \subseteq pendingShow
    BY DEF ThreadStep, Analyze, Schedule, Notify, StoreRendered, ServeShow, SchedulePublish,
           GetDoc, Show, WriteTemp, Pipeline!Schedule, Pipeline!ScheduleHit,
           Pipeline!ScheduleArm, Pipeline!Report, pipelineVars, showVars
  <2>2. Served(u)
    <3>1. Showable(u) BY <1>2, <2>1 DEF Showable, Open
    <3> QED BY <3>1 DEF Serving
  <2>3. ASSUME NEW t \in Thread, Held(t, u) PROVE Held(t, u)'
    BY <1>1, <1>2, <1>3, <1>5, <2>3, HeldStep
  <2>4. CASE Registered(u)
    <3>1. \/ UNCHANGED pipelineVars
          \/ \E j \in Job, v \in Uri, t \in Renderable : Pipeline!Schedule(j, v, t)
          \/ \E j \in Job : \/ Pipeline!ScheduleHit(j) /\ jobs[j].uri # u
                            \/ Pipeline!ScheduleArm(j) \/ Pipeline!Report(j)
      <4>1. CASE Analyze(th)
        <5>1. Top(th).uri \in Uri BY <1>1, ThreadTop
        <5> QED BY <4>1, <5>1 DEF Analyze, Renders
      <4>2. CASE Schedule(th)
        <5>1. PICK j \in Job : j = Top(th).arg /\ Scheduling(j, Top(th).uri)
          BY <4>2, ScheduleTop DEF Schedule
        <5>2. jobs[j].uri # u
          BY <1>5, <4>2, <5>1 DEF Serves, Scheduling, Schedule, Runs
        <5> QED BY <4>2, <5>1, <5>2 DEF Schedule
      <4>3. CASE Notify(th)
        <5>1. Top(th) \in ThreadFrame BY <1>1, ThreadTop
        <5>2. Top(th).arg \in Job BY <4>3, <5>1 DEF Notify, Runs, ThreadFrame
        <5> QED BY <4>3, <5>2 DEF Notify
      <4> QED
        BY <4>1, <4>2, <4>3
        DEF ThreadStep, StoreRendered, ServeShow, SchedulePublish, GetDoc, Show, WriteTemp
    <3>2. Registered(u)' BY <2>4, <3>1, RegisteredKept
    <3> QED BY <3>2 DEF Served
  <2> QED BY <2>1, <2>2, <2>3, <2>4 DEF Served
<1> QED BY <1>4, <1>5

LEMMA ServedGoroutine ==
    ASSUME Types, Pipeline!PendingOwnUri, Serving, NEW u \in Uri, Showable(u)',
           \/ \E v \in Uri : LintTimerFires(v)
           \/ \E j \in Job : RenderStep(j)
           \/ \E p \in publishing : Collect(p) \/ Send(p)
           \/ UNCHANGED vars
    PROVE  Served(u)'
<1>1. TypeOK /\ todo \in [Thread -> Seq(Frame)] BY DEF Types, TypeOK
<1>2. UNCHANGED <<docs, kubernetes, pendingShow>>
  BY DEF LintTimerFires, RenderStep, Collect, Send, vars, inputVars, showVars
<1>3. docs'[u] = docs[u] BY <1>2
<1>4. ASSUME NEW t \in Thread, NEW f, f.uri = u, f.do \in {"getDoc", "notify"},
             todo' = [todo EXCEPT ![t] = <<f>>]
      PROVE  Served(u)'
  <2> DEFINE s == <<f>>
  <2>1. 1 \in DOMAIN s /\ s[1] = f OBVIOUS
  <2>2. todo'[t] = s BY <1>1, <1>4
  <2> HIDE DEF s
  <2>3. Held(t, u)' BY <1>4, <2>1, <2>2 DEF Held, Serves
  <2> QED BY <2>3 DEF Served
<1>5. ASSUME NEW v \in Uri, LintTimerFires(v) PROVE Served(u)'
  <2>1. PICK w \in Worker : todo[w] = <<>> /\ todo' = [todo EXCEPT ![w] = <<Call("getDoc", v)>>]
    BY <1>5 DEF LintTimerFires
  <2>2. w \in Thread BY DEF Thread
  <2>3. CASE v = u
    <3> DEFINE f == Call("getDoc", v)
    <3>1. f.uri = u /\ f.do = "getDoc" BY <2>3 DEF Call
    <3>2. todo' = [todo EXCEPT ![w] = <<f>>] BY <2>1
    <3> HIDE DEF f
    <3> QED BY <1>4, <2>2, <3>1, <3>2
  <2>4. CASE v # u
    <3>1. \A t \in Thread : todo'[t] = todo[t] \/ todo[t] = <<>> BY <1>1, <2>1
    <3>2. UNCHANGED pipelineVars /\ (u \in lintTimers => u \in lintTimers')
      BY <1>5, <2>4 DEF LintTimerFires
    <3>3. registry' = registry /\ (Registered(u) => Registered(u)')
      BY <3>2 DEF pipelineVars, Registered
    <3>4. Showable(u) BY <1>2, <3>3 DEF Showable, Open
    <3>5. ASSUME NEW t \in Thread, Held(t, u) PROVE Held(t, u)'
      BY <1>3, <3>1, <3>5, HeldKept
    <3> QED BY <3>2, <3>3, <3>4, <3>5 DEF Serving, Served
  <2> QED BY <2>3, <2>4
<1>6. ASSUME NEW j \in Job, RenderStep(j) PROVE Served(u)'
  <2>1. CASE Pipeline!Writeback(j) /\ jobs[j].uri = u
    <3> DEFINE f == [Call("notify", jobs[j].uri) EXCEPT !.arg = j]
    <3>1. todo' = [todo EXCEPT ![j] = <<f>>]
      BY <1>6, <2>1 DEF RenderStep, Pipeline!Fire, Pipeline!Drop, Pipeline!Writeback,
                        Pipeline!Outdated
    <3>2. f.uri = u /\ f.do = "notify" BY <2>1 DEF Call
    <3>3. j \in Thread BY DEF Thread
    <3> HIDE DEF f
    <3> QED BY <1>4, <3>1, <3>2, <3>3
  <2>2. CASE ~(Pipeline!Writeback(j) /\ jobs[j].uri = u)
    <3>1. \A t \in Thread : todo'[t] = todo[t] \/ todo[t] = <<>> BY <1>6, RenderRuns
    <3>2. \/ Pipeline!Fire(j) \/ Pipeline!Drop(j)
          \/ Pipeline!Writeback(j) /\ jobs[j].uri # u
      BY <1>6, <2>2 DEF RenderStep
    <3>3. Registered(u) => Registered(u)' BY <3>2, RegisteredKept
    <3>4. registry' = registry
      BY <3>2 DEF Pipeline!Fire, Pipeline!Drop, Pipeline!Writeback
    <3>5. lintTimers' = lintTimers BY <1>6 DEF RenderStep
    <3> QED BY <1>2, <1>3, <3>1, <3>3, <3>4, <3>5, ServedKept
  <2> QED BY <2>1, <2>2
<1>7. CASE (\E p \in publishing : Collect(p) \/ Send(p)) \/ UNCHANGED vars
  <2>1. UNCHANGED <<todo, lintTimers>> /\ UNCHANGED pipelineVars
    BY <1>7 DEF Collect, Send, vars
  <2>2. registry' = registry /\ (Registered(u) => Registered(u)')
    BY <2>1 DEF pipelineVars, Registered
  <2> QED BY <1>2, <1>3, <2>1, <2>2, ServedKept
<1> QED BY <1>5, <1>6, <1>7

\* A deferred show stays on its way.
LEMMA ServingStep ==
    ASSUME Inv, Pipeline!PendingOwnUri, SchedulesRun, Refreshing, Serving, [Next]_vars
    PROVE  Serving'
<1> SUFFICES ASSUME NEW u \in Uri, Showable(u)' PROVE Served(u)' BY DEF Serving
<1>1. Types BY DEF Inv
<1> QED
  BY <1>1, ServedMessage, ServedLoop, ServedThread, ServedGoroutine DEF Next

\* On its way from the start.
LEMMA ServingInit ==
    ASSUME Init
    PROVE  SchedulesRun /\ Refreshing /\ Serving
<1>1. Loop \in Thread /\ \A th \in Thread : todo[th] = <<>> BY DEF Init, Thread
<1>2. DOMAIN <<>> = {} OBVIOUS
<1>3. SchedulesRun BY <1>1, <1>2 DEF SchedulesRun, First, Runs
<1>4. Refreshing BY <1>1, <1>2 DEF Refreshing, Refreshes
<1>5. Serving BY DEF Init, Serving, Showable
<1> QED BY <1>3, <1>4, <1>5

\* showdocument.go:22-38: a show command that found no output is served by the
\* render it asked for or by a later one: when the server comes to rest, none is
\* left for a document that Kubernetes support is on, something to render is in and
\* a renderer is there for, whatever edits, superseded renders, cache hits and
\* changed settings came in between.
THEOREM DeferredServed == Safe => []DeferredShowServed
<1>1. Init => Inv /\ SchedulesRun /\ Refreshing /\ Serving BY InvInit, ServingInit
<1>2. /\ Inv /\ SchedulesRun /\ Refreshing /\ Serving /\ Pipeline!PendingOwnUri
      /\ [Next]_vars
      => (Inv /\ SchedulesRun /\ Refreshing /\ Serving)'
  <2>1. Inv => Types BY DEF Inv
  <2> QED BY <2>1, InvStep, SchedulesStep, RefreshingStep, ServingStep
<1>3. Inv /\ Serving => DeferredShowServed
  <2> SUFFICES ASSUME Inv, Serving, Settled, kubernetes, registry # None,
                      NEW u \in pendingShow, Open(u), docs[u].text \in Renderable
               PROVE  FALSE
    BY DEF DeferredShowServed
  <2>1. u \in Uri BY DEF Inv, Types, TypeOK
  <2>2. Served(u) BY <2>1 DEF Serving, Showable
  <2>3. u \notin lintTimers BY DEF Settled
  <2>4. \A th \in Thread : ~Held(th, u)
    <3>1. DOMAIN <<>> = {} OBVIOUS
    <3> QED BY <3>1 DEF Settled, Held
  <2>5. ~Registered(u)
    BY <2>1 DEF Settled, Registered, Inv, Types, TypeOK, Pipeline!TypeOK
  <2> QED BY <2>2, <2>3, <2>4, <2>5 DEF Served
<1>4. Safe => []Pipeline!PendingOwnUri BY ServersPipelineCorrect, PTL
<1> QED BY <1>1, <1>2, <1>3, <1>4, PTL DEF Safe
=============================================================================
