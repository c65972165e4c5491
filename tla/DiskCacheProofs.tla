--------------------------- MODULE DiskCacheProofs ---------------------------
(***************************************************************************)
(* Proofs about DiskCache, for any loaders and an origin with any number   *)
(* of contents.  Types and JSON hold always; that the two files fit each   *)
(* other, as long as no two loads have overlapped and the origin has not   *)
(* gone back, which the history variables say.  Nothing in the code keeps  *)
(* it so for good; README.md says what comes of it.                        *)
(***************************************************************************)
EXTENDS DiskCache, TLAPS

USE NoneAssumption, MaxVersionAssumption

\* Until two loads overlap there is one at a time.
Alone ==
    ~overlapped =>
        \A l, m \in Loader : loaders[l] # None /\ loaders[m] # None => l = m

\* Nothing is newer than the origin, until it goes back.
Past ==
  ~wentBack =>
    /\ body # None => body <= origin
    /\ meta # None /\ meta.etag # None => meta.etag <= origin
    /\ \A l \in Loader : loaders[l] # None =>
          /\ loaders[l].body # None => loaders[l].body <= origin
          /\ loaders[l].etag # None => loaders[l].etag <= origin
          /\ loaders[l].got # None => loaders[l].got <= origin

\* No body that is not JSON is stored or held to be stored.
NoJunk ==
    /\ body # Junk
    /\ \A l \in Loader : loaders[l] # None => loaders[l].body # Junk /\ loaders[l].got # Junk

\* An ETag is not ahead of a body.
NotAhead(etag, content) == etag # None /\ content # None => etag <= content

Etag == IF meta = None THEN None ELSE meta.etag

\* What loader l has read is what the files still hold, if they hold anything, and
\* what it is about to write fits the file that stays.
Holds(l) ==
    LET its == loaders[l] IN
    /\ At(l, "meta") \/ At(l, "request") \/ At(l, "confirmed") => body \in {its.body, None}
    /\ At(l, "meta") => NotAhead(Etag, its.body)
    /\ At(l, "request") => NotAhead(its.etag, its.body)
    /\ At(l, "confirmed") =>
          its.body # None /\ its.got # None /\ its.body = its.got /\ its.etag = its.body
    /\ At(l, "received") \/ At(l, "written") => its.got # None /\ NotAhead(Etag, its.got)
    /\ At(l, "written") => body \in {its.got, None}

Fit ==
  Undisturbed =>
    /\ NotAhead(Etag, body)
    /\ \A l \in Loader : loaders[l] # None => Holds(l)

-----------------------------------------------------------------------------
\* What a loader becomes is a loader.
LEMMA AnsweredType ==
    ASSUME TypeOK, NEW l \in Loader, loaders[l] # None, NEW v \in Body \cup {None},
           NEW at \in {"confirmed", "received", "written"}, Answered(l, at, v)
    PROVE  /\ loaders' \in [Loader -> LoaderState \cup {None}]
           /\ loaders'[l] = [at |-> at, body |-> loaders[l].body,
                             etag |-> loaders[l].etag, got |-> v]
           /\ loaders'[l] # None
           /\ \A m \in Loader \ {l} : loaders'[m] = loaders[m]
<1> DEFINE new == [at |-> at, body |-> loaders[l].body, etag |-> loaders[l].etag, got |-> v]
<1>1. new \in LoaderState BY DEF TypeOK, LoaderState
<1> QED BY <1>1 DEF TypeOK, Answered

\* The types survive an answer.
LEMMA AnsweredTypeOK ==
    ASSUME TypeOK, NEW l \in Loader, loaders[l] # None, NEW v \in Body \cup {None},
           NEW at \in {"confirmed", "received", "written"}, Answered(l, at, v),
           at = "confirmed" => loaders[l].body # None,
           UNCHANGED <<origin, meta, history>>, body' \in Body \cup {None}
    PROVE  TypeOK'
<1>1. loaders' \in [Loader -> LoaderState \cup {None}] BY AnsweredType
<1>2. /\ loaders'[l] = [at |-> at, body |-> loaders[l].body,
                       etag |-> loaders[l].etag, got |-> v]
      /\ \A m \in Loader \ {l} : loaders'[m] = loaders[m]
  BY AnsweredType
<1>3. \A m \in Loader : At(m, "confirmed")' => loaders'[m].body # None
  BY <1>2 DEF TypeOK, At
<1> QED BY <1>1, <1>3 DEF TypeOK, history

\* A loader that ends leaves the others as they were.
LEMMA EndsType ==
    ASSUME TypeOK, NEW l \in Loader, Ends(l)
    PROVE  /\ loaders' \in [Loader -> LoaderState \cup {None}]
           /\ loaders'[l] = None
           /\ \A m \in Loader \ {l} : loaders'[m] = loaders[m]
  BY DEF TypeOK, Ends

\* The types survive every step.
LEMMA TypeStep == TypeOK /\ [Next]_vars => TypeOK'
<1> SUFFICES ASSUME TypeOK, [Next]_vars PROVE TypeOK'
  OBVIOUS
<1> USE DEF At, history
<1>0. origin \in Body \cup {None} BY DEF TypeOK, Body
<1>1. ASSUME NEW l \in Loader, ReadBody(l) PROVE TypeOK'
  <2> DEFINE new == [at |-> "meta", body |-> body, etag |-> None, got |-> None]
  <2>1. new \in LoaderState BY DEF TypeOK, LoaderState
  <2> QED BY <1>1, <2>1 DEF ReadBody, TypeOK
<1>2. ASSUME NEW l \in Loader, ReadMeta(l) PROVE TypeOK'
  <2> DEFINE new == [at |-> "request", body |-> loaders[l].body, got |-> None,
                     etag |-> IF meta = None THEN None ELSE meta.etag]
  <2>1. loaders[l] \in LoaderState BY <1>2 DEF ReadMeta, TypeOK
  <2>2. new \in LoaderState BY <2>1 DEF TypeOK, LoaderState, Meta
  <2>3. \/ Ends(l)
        \/ loaders' = [loaders EXCEPT ![l] = new]
    BY <1>2 DEF ReadMeta
  <2>4. loaders' \in [Loader -> LoaderState \cup {None}] /\ ~At(l, "confirmed")'
    BY <2>2, <2>3 DEF Ends, TypeOK
  <2>5. \A m \in Loader \ {l} : loaders'[m] = loaders[m] BY <2>3 DEF Ends, TypeOK
  <2> QED BY <1>2, <2>4, <2>5 DEF ReadMeta, TypeOK
<1>3. ASSUME NEW l \in Loader, NotModified(l) PROVE TypeOK'
  <2>1. CASE loaders[l].body # None
    <3>1. /\ loaders[l] # None /\ Answered(l, "confirmed", origin)
          /\ UNCHANGED <<origin, body, meta, history>>
      BY <1>3, <2>1 DEF NotModified
    <3> QED BY <1>0, <2>1, <3>1, AnsweredTypeOK DEF TypeOK
  <2>2. CASE loaders[l].body = None
    <3>1. Ends(l) /\ UNCHANGED <<origin, body, meta, history>> BY <1>3, <2>2 DEF NotModified
    <3> QED BY <3>1, EndsType DEF TypeOK
  <2> QED BY <2>1, <2>2
<1>4. ASSUME NEW l \in Loader, Modified(l) PROVE TypeOK'
  <2>1. loaders[l] # None /\ Answered(l, "received", origin) /\ UNCHANGED <<origin, body, meta, history>>
    BY <1>4 DEF Modified
  <2> QED BY <1>0, <2>1, AnsweredTypeOK DEF TypeOK
<1>5. ASSUME NEW l \in Loader, Misled(l) \/ Unanswered(l) \/ Stop(l) PROVE TypeOK'
  <2>1. Ends(l) /\ UNCHANGED <<origin, body, meta, history>>
    BY <1>5 DEF Misled, Stores, Unanswered, Stop
  <2> QED BY <2>1, EndsType DEF TypeOK
<1>6. ASSUME NEW l \in Loader, WriteBody(l) PROVE TypeOK'
  <2>1. loaders[l] \in LoaderState /\ loaders[l].got \in Body \cup {None}
    BY <1>6 DEF WriteBody, TypeOK, LoaderState
  <2>2. /\ loaders[l] # None /\ Answered(l, "written", loaders[l].got)
        /\ body' = loaders[l].got /\ UNCHANGED <<origin, meta, history>>
    BY <1>6 DEF WriteBody
  <2> QED BY <2>1, <2>2, AnsweredTypeOK DEF TypeOK
<1>7. ASSUME NEW l \in Loader, WriteMeta(l) PROVE TypeOK'
  <2>1. loaders[l] \in LoaderState BY <1>7 DEF WriteMeta, TypeOK
  <2>2. meta' \in Meta
    <3>1. PICK e \in Version \cup {None} : meta' = [etag |-> e, fresh |-> TRUE]
      <4>1. {loaders[l].got, None} \ {Junk} \subseteq Version \cup {None}
        BY <2>1 DEF LoaderState, Body
      <4>2. loaders[l].etag \in Version \cup {None} BY <2>1 DEF LoaderState
      <4> QED BY <1>7, <4>1, <4>2 DEF WriteMeta
    <3> QED BY <3>1 DEF Meta
  <2>3. Ends(l) /\ UNCHANGED <<origin, body, history>> BY <1>7 DEF WriteMeta
  <2> QED BY <2>2, <2>3, EndsType DEF TypeOK
<1>8. CASE Age BY <1>8 DEF Age, TypeOK, Meta
<1>9. CASE Remove BY <1>9 DEF Remove, TypeOK
<1>10. CASE Publish BY <1>10 DEF Publish, TypeOK, Version
<1>11. CASE UNCHANGED vars BY <1>11 DEF vars, TypeOK
<1> QED
  BY <1>1, <1>2, <1>3, <1>4, <1>5, <1>6, <1>7, <1>8, <1>9, <1>10, <1>11 DEF Next

\* The types of the cache are kept for any loaders of the URL at once.
THEOREM CacheTypeCorrect == Spec => []TypeOK
<1>1. ASSUME Init PROVE TypeOK
  <2>1. origin \in Version BY <1>1 DEF Init, Version
  <2>2. loaders \in [Loader -> LoaderState \cup {None}] BY <1>1 DEF Init
  <2> QED BY <1>1, <2>1, <2>2 DEF Init, TypeOK, At
<1>2. TypeOK /\ [Next]_vars => TypeOK' BY TypeStep
<1> QED BY <1>1, <1>2, PTL DEF Spec

-----------------------------------------------------------------------------
\* The contents are numbers, and not None.
LEMMA Numbers ==
    ASSUME TypeOK
    PROVE  /\ origin \in Nat /\ origin # Junk /\ origin # None
           /\ body # None => body \in Nat
           /\ meta # None => meta.etag \in Nat \cup {None}
           /\ \A l \in Loader : loaders[l] # None =>
                 /\ loaders[l].body \in Nat \cup {None}
                 /\ loaders[l].etag \in Nat \cup {None}
                 /\ loaders[l].got \in Nat \cup {None}
<1>1. Body \subseteq Nat /\ Version \subseteq Body /\ Junk \notin Version
  BY DEF Body, Version, Junk
<1>2. meta # None => meta.etag \in Version \cup {None} BY DEF TypeOK, Meta
<1>3. \A l \in Loader : loaders[l] # None => loaders[l] \in LoaderState BY DEF TypeOK
<1> QED BY <1>1, <1>2, <1>3 DEF TypeOK, LoaderState

\* The steps of a loader, as far as the loaders are concerned: it ends, it has read
\* the body file or the meta file, or it goes on to what an answer is about.
LEMMA LoaderStep ==
    ASSUME TypeOK, NEW l \in Loader,
           \/ ReadBody(l) \/ ReadMeta(l) \/ NotModified(l) \/ Modified(l) \/ Misled(l)
           \/ Unanswered(l) \/ WriteBody(l) \/ WriteMeta(l) \/ Stop(l)
    PROVE  /\ \A m \in Loader \ {l} : loaders'[m] = loaders[m]
           /\ origin' = origin
           /\ \/ loaders'[l] = None
              \/ /\ ReadBody(l)
                 /\ loaders'[l] = [at |-> "meta", body |-> body, etag |-> None, got |-> None]
              \/ /\ ReadMeta(l)
                 /\ loaders'[l] = [at |-> "request", body |-> loaders[l].body, got |-> None,
                                   etag |-> Etag]
              \/ \E at \in {"confirmed", "received", "written"},
                    v \in {origin, loaders[l].got} :
                    /\ loaders'[l] = [at |-> at, body |-> loaders[l].body,
                                      etag |-> loaders[l].etag, got |-> v]
                    /\ at = "confirmed" => NotModified(l) /\ v = origin /\ loaders[l].body # None
                    /\ at = "received" => Modified(l) /\ v = origin
                    /\ at = "written" => WriteBody(l) /\ v = loaders[l].got
<1>1. /\ DOMAIN loaders = Loader
      /\ origin' = origin
  BY DEF TypeOK, ReadBody, ReadMeta, NotModified, Modified, Misled, Unanswered,
         WriteBody, WriteMeta, Stop
<1>2. CASE Ends(l) BY <1>1, <1>2 DEF Ends
<1>3. CASE ReadBody(l) BY <1>1, <1>3 DEF ReadBody
<1>4. CASE ReadMeta(l) BY <1>1, <1>2, <1>4 DEF ReadMeta, Etag
<1>5. CASE NotModified(l)
  BY <1>1, <1>2, <1>5 DEF NotModified, Answered
<1>6. CASE Modified(l) BY <1>1, <1>6 DEF Modified, Answered
<1>7. CASE Misled(l) BY <1>2, <1>7 DEF Misled, Stores
<1>8. CASE Unanswered(l) \/ WriteMeta(l) \/ Stop(l)
  BY <1>2, <1>8 DEF Unanswered, WriteMeta, Stop
<1>9. CASE WriteBody(l) BY <1>1, <1>9 DEF WriteBody, Answered
<1> QED BY <1>3, <1>4, <1>5, <1>6, <1>7, <1>8, <1>9

\* Nothing stores what is not JSON, whoever else loads.
LEMMA NoJunkStep == TypeOK /\ NoJunk /\ [Next]_vars => NoJunk'
<1> SUFFICES ASSUME TypeOK, NoJunk, [Next]_vars PROVE NoJunk'
  OBVIOUS
<1> USE DEF NoJunk
<1>0. origin # Junk /\ None # Junk BY Numbers DEF Body
<1>1. ASSUME NEW l \in Loader,
             \/ ReadBody(l) \/ ReadMeta(l) \/ NotModified(l) \/ Modified(l) \/ Misled(l)
             \/ Unanswered(l) \/ WriteBody(l) \/ WriteMeta(l) \/ Stop(l)
      PROVE  NoJunk'
  <2>1. body' # Junk
    BY <1>1 DEF ReadBody, ReadMeta, NotModified, Modified, Misled, Unanswered, WriteBody,
                WriteMeta, Stop, At
  <2>2. loaders'[l] # None => loaders'[l].body # Junk /\ loaders'[l].got # Junk
    <3>1. loaders[l] # None => loaders[l].body # Junk /\ loaders[l].got # Junk OBVIOUS
    <3>2. ReadMeta(l) \/ NotModified(l) \/ Modified(l) \/ WriteBody(l) => loaders[l] # None
      BY DEF ReadMeta, NotModified, Modified, WriteBody, At
    <3>3. CASE loaders'[l] = [at |-> "meta", body |-> body, etag |-> None, got |-> None]
      BY <1>0, <3>3
    <3>4. CASE ReadMeta(l) /\ loaders'[l] = [at |-> "request", body |-> loaders[l].body,
                                            got |-> None, etag |-> Etag]
      BY <1>0, <3>1, <3>2, <3>4
    <3>5. ASSUME loaders[l] # None, NEW at, NEW v \in {origin, loaders[l].got},
                 loaders'[l] = [at |-> at, body |-> loaders[l].body,
                                etag |-> loaders[l].etag, got |-> v]
          PROVE  loaders'[l].body # Junk /\ loaders'[l].got # Junk
      BY <1>0, <3>1, <3>5
    <3> QED BY <1>1, <3>2, <3>3, <3>4, <3>5, LoaderStep
  <2>3. \A m \in Loader \ {l} : loaders'[m] = loaders[m] BY <1>1, LoaderStep
  <2> QED BY <2>1, <2>2, <2>3
<1>2. CASE Age \/ Publish \/ UNCHANGED vars BY <1>2 DEF Age, Publish, vars
<1>3. CASE Remove BY <1>0, <1>3 DEF Remove
<1> QED BY <1>1, <1>2, <1>3 DEF Next

\* diskloader.go:110-112, what is in the cache is JSON, also when several loaders of
\* the URL overlap.
THEOREM CacheIsJson == Spec => [](body # Junk)
<1>1. ASSUME Init PROVE NoJunk
  <2>1. None # Junk BY DEF Body
  <2> QED BY <1>1, <2>1 DEF Init, NoJunk
<1>2. TypeOK /\ NoJunk /\ [Next]_vars => NoJunk' BY NoJunkStep
<1>3. NoJunk => body # Junk BY DEF NoJunk
<1> QED BY <1>1, <1>2, <1>3, CacheTypeCorrect, PTL DEF Spec

-----------------------------------------------------------------------------
\* What has happened once has happened.
LEMMA HistoryStep ==
    TypeOK /\ [Next]_vars => (overlapped => overlapped') /\ (wentBack => wentBack')
<1> SUFFICES ASSUME TypeOK, [Next]_vars
             PROVE  (overlapped => overlapped') /\ (wentBack => wentBack')
  OBVIOUS
<1> USE DEF history
<1>1. ASSUME NEW l \in Loader,
             \/ ReadBody(l) \/ ReadMeta(l) \/ NotModified(l) \/ Modified(l) \/ Misled(l)
             \/ Unanswered(l) \/ WriteBody(l) \/ WriteMeta(l) \/ Stop(l)
      PROVE  (overlapped => overlapped') /\ (wentBack => wentBack')
  <2>1. CASE ReadBody(l)
    <3>1. /\ overlapped' = (overlapped \/ \E m \in Loader : loaders[m] # None)
          /\ wentBack' = wentBack
      BY <2>1 DEF ReadBody
    <3> QED BY <3>1, Zenon
  <2>2. CASE ~ReadBody(l)
    <3>1. UNCHANGED history
      BY <1>1, <2>2 DEF ReadMeta, NotModified, Modified, Misled, Unanswered, WriteBody,
                        WriteMeta, Stop
    <3> QED BY <3>1
  <2> QED BY <2>1, <2>2
<1>2. CASE Age \/ Remove \/ UNCHANGED vars BY <1>2 DEF Age, Remove, vars
<1>3. CASE Publish
  <2>1. PICK v : overlapped' = overlapped /\ wentBack' = (wentBack \/ v < origin)
    BY <1>3 DEF Publish
  <2> QED BY <2>1, Zenon
<1> QED BY <1>1, <1>2, <1>3 DEF Next

\* No second load is under way unless the history says so.
LEMMA AloneStep == TypeOK /\ Alone /\ [Next]_vars => Alone'
<1> SUFFICES ASSUME TypeOK, Alone, [Next]_vars, ~overlapped'
             PROVE  \A l, m \in Loader : loaders'[l] # None /\ loaders'[m] # None => l = m
  BY DEF Alone
<1>0. \A l, m \in Loader : loaders[l] # None /\ loaders[m] # None => l = m
  BY HistoryStep DEF Alone
<1>1. ASSUME NEW l \in Loader,
             \/ ReadBody(l) \/ ReadMeta(l) \/ NotModified(l) \/ Modified(l) \/ Misled(l)
             \/ Unanswered(l) \/ WriteBody(l) \/ WriteMeta(l) \/ Stop(l)
      PROVE  \A m \in Loader \ {l} : loaders'[l] # None => loaders'[m] = None
  <2>1. \A m \in Loader \ {l} : loaders'[m] = loaders[m] BY <1>1, LoaderStep
  <2>2. CASE ReadBody(l) BY <2>1, <2>2 DEF ReadBody
  <2>3. CASE ~ReadBody(l)
    <3>1. loaders[l] # None
      BY <1>1, <2>3 DEF ReadMeta, NotModified, Modified, Misled, Unanswered, WriteBody,
                        WriteMeta, Stop, At
    <3> QED BY <1>0, <2>1, <3>1
  <2> QED BY <2>2, <2>3
<1>2. ASSUME NEW l \in Loader,
             \/ ReadBody(l) \/ ReadMeta(l) \/ NotModified(l) \/ Modified(l) \/ Misled(l)
             \/ Unanswered(l) \/ WriteBody(l) \/ WriteMeta(l) \/ Stop(l)
      PROVE  \A k, m \in Loader : loaders'[k] # None /\ loaders'[m] # None => k = m
  <2>1. \A m \in Loader \ {l} : loaders'[m] = loaders[m] BY <1>2, LoaderStep
  <2>2. \A m \in Loader \ {l} : loaders'[l] # None => loaders'[m] = None BY <1>1, <1>2
  <2> QED BY <1>0, <2>1, <2>2
<1>3. CASE Age \/ Remove \/ Publish \/ UNCHANGED vars
  BY <1>0, <1>3 DEF Age, Remove, Publish, vars
<1> QED BY <1>2, <1>3 DEF Next

\* Nothing gets ahead of an origin that goes on only.
LEMMA PastStep == TypeOK /\ Past /\ [Next]_vars => Past'
<1> SUFFICES ASSUME TypeOK, Past, [Next]_vars, ~wentBack' PROVE Past'
  BY DEF Past
<1>0. ~wentBack BY HistoryStep
<1> USE Numbers, <1>0 DEF Past
<1>1. ASSUME NEW l \in Loader,
             \/ ReadBody(l) \/ ReadMeta(l) \/ NotModified(l) \/ Modified(l) \/ Misled(l)
             \/ Unanswered(l) \/ WriteBody(l) \/ WriteMeta(l) \/ Stop(l)
      PROVE  Past'
  <2>1. body' # None => body' <= origin'
    BY <1>1 DEF ReadBody, ReadMeta, NotModified, Modified, Misled, Unanswered, WriteBody,
                WriteMeta, Stop, At
  <2>2. meta' # None /\ meta'.etag # None => meta'.etag <= origin'
    <3>1. CASE meta' = meta /\ origin' = origin BY <3>1
    <3>2. CASE WriteMeta(l) BY <3>2 DEF WriteMeta, At
    <3> QED
      BY <1>1, <3>1, <3>2 DEF ReadBody, ReadMeta, NotModified, Modified, Misled, Unanswered,
                              WriteBody, Stop
  <2>3. loaders'[l] # None =>
          /\ loaders'[l].body # None => loaders'[l].body <= origin'
          /\ loaders'[l].etag # None => loaders'[l].etag <= origin'
          /\ loaders'[l].got # None => loaders'[l].got <= origin'
    <3>1. ReadMeta(l) \/ NotModified(l) \/ Modified(l) \/ WriteBody(l) => loaders[l] # None
      BY DEF ReadMeta, NotModified, Modified, WriteBody, At
    <3>2. origin' = origin BY <1>1, LoaderStep
    <3>3. CASE loaders'[l] = [at |-> "meta", body |-> body, etag |-> None, got |-> None]
      BY <3>2, <3>3
    <3>4. CASE ReadMeta(l) /\ loaders'[l] = [at |-> "request", body |-> loaders[l].body,
                                            got |-> None, etag |-> Etag]
      BY <3>1, <3>2, <3>4 DEF Etag
    <3>5. ASSUME loaders[l] # None, NEW at, NEW v \in {origin, loaders[l].got},
                 loaders'[l] = [at |-> at, body |-> loaders[l].body,
                                etag |-> loaders[l].etag, got |-> v]
          PROVE  /\ loaders'[l].body # None => loaders'[l].body <= origin
                 /\ loaders'[l].etag # None => loaders'[l].etag <= origin
                 /\ loaders'[l].got # None => loaders'[l].got <= origin
      BY <3>5
    <3> QED BY <1>1, <3>1, <3>2, <3>3, <3>4, <3>5, LoaderStep
  <2>4. origin' = origin /\ \A m \in Loader \ {l} : loaders'[m] = loaders[m]
    BY <1>1, LoaderStep
  <2> QED BY <2>1, <2>2, <2>3, <2>4
<1>2. CASE Age BY <1>2 DEF Age, TypeOK, Meta
<1>3. CASE Remove BY <1>3 DEF Remove
<1>4. CASE Publish
  <2>1. UNCHANGED <<body, meta, loaders>> BY <1>4 DEF Publish
  <2>2. PICK v \in Version : origin' = v /\ wentBack' = (wentBack \/ v < origin)
    BY <1>4 DEF Publish
  <2>3. ~(v < origin) BY <2>2, Zenon
  <2>4. origin' \in Nat /\ origin <= origin' BY <2>2, <2>3 DEF Version
  <2> QED BY <2>1, <2>4
<1>5. CASE UNCHANGED vars BY <1>5 DEF vars
<1> QED BY <1>1, <1>2, <1>3, <1>4, <1>5 DEF Next

\* The files fit each other and what the one loader knows of them.
LEMMA FitStep == TypeOK /\ Past /\ Alone /\ Fit /\ [Next]_vars => Fit'
<1> SUFFICES ASSUME TypeOK, Past, Alone, Fit, [Next]_vars, Undisturbed' PROVE Fit'
  BY DEF Fit
<1>0. TypeOK' BY TypeStep
<1>a. Undisturbed /\ ~overlapped /\ ~overlapped' /\ ~wentBack BY HistoryStep DEF Undisturbed
<1>b. ASSUME NEW l \in Loader, loaders[l] # None \/ ReadBody(l),
             \A m \in Loader \ {l} : loaders'[m] = loaders[m],
             NotAhead(Etag, body)', loaders'[l] # None => Holds(l)'
      PROVE  Fit'
  <2>1. \A m \in Loader \ {l} : loaders[m] = None
    BY <1>a, <1>b DEF Alone, ReadBody
  <2> QED BY <1>b, <2>1 DEF Fit
<1>c. NotAhead(Etag, body) /\ \A l \in Loader : loaders[l] # None => Holds(l)
  BY <1>a DEF Fit
<1> USE Numbers DEF NotAhead, At, Etag
<1>1. ASSUME NEW l \in Loader, ReadBody(l) PROVE Fit'
  <2>1. /\ loaders'[l] = [at |-> "meta", body |-> body, etag |-> None, got |-> None]
        /\ UNCHANGED <<origin, body, meta>>
    BY <1>1 DEF ReadBody, TypeOK
  <2>2. Holds(l)' BY <1>c, <2>1 DEF Holds
  <2> QED BY <2>1, <2>2, <1>1, <1>b, <1>c, LoaderStep
<1>2. ASSUME NEW l \in Loader, ReadMeta(l) PROVE Fit'
  <2>1. loaders[l] # None /\ Holds(l) /\ UNCHANGED <<origin, body, meta>>
    BY <1>2, <1>c DEF ReadMeta
  <2>2. \/ loaders'[l] = None
        \/ loaders'[l] = [at |-> "request", body |-> loaders[l].body, got |-> None,
                          etag |-> Etag]
    BY <1>2 DEF ReadMeta, Ends, TypeOK
  <2>3. loaders[l].at = "meta" BY <1>2 DEF ReadMeta
  <2>4. loaders'[l] # None => Holds(l)' BY <2>1, <2>2, <2>3 DEF Holds
  <2> QED BY <2>1, <2>4, <1>b, <1>c, <1>2, LoaderStep
<1>3. ASSUME NEW l \in Loader, NotModified(l) PROVE Fit'
  <2>1. loaders[l] # None /\ Holds(l) /\ UNCHANGED <<origin, body, meta>>
    BY <1>3, <1>c DEF NotModified
  <2>2. loaders'[l] # None => Holds(l)'
    <3>1. loaders[l].at = "request" /\ loaders[l].etag = origin BY <1>3 DEF NotModified
    <3>2. loaders[l].body # None => loaders[l].body = origin
      BY <1>a, <2>1, <3>1 DEF Holds, Past
    <3> QED BY <1>3, <2>1, <3>1, <3>2, LoaderStep DEF Holds, NotModified, Answered, Ends, TypeOK
  <2> QED BY <2>1, <2>2, <1>b, <1>c, <1>3, LoaderStep
<1>4. ASSUME NEW l \in Loader, Modified(l) PROVE Fit'
  <2>1. /\ loaders[l] # None /\ loaders'[l].at = "received" /\ loaders'[l].got = origin
        /\ UNCHANGED <<origin, body, meta>>
    BY <1>4 DEF Modified, Answered, TypeOK
  <2>2. Holds(l)' BY <1>a, <2>1 DEF Holds, Past
  <2> QED BY <2>1, <2>2, <1>b, <1>c, <1>4, LoaderStep
<1>5. ASSUME NEW l \in Loader, Misled(l) \/ Unanswered(l) \/ Stop(l) PROVE Fit'
  <2>1. loaders[l] # None /\ loaders'[l] = None /\ UNCHANGED <<origin, body, meta>>
    BY <1>5, EndsType DEF Misled, Stores, Unanswered, Stop
  <2> QED BY <2>1, <1>b, <1>c, <1>5, LoaderStep
<1>6. ASSUME NEW l \in Loader, WriteBody(l) PROVE Fit'
  <2>1. loaders[l] # None /\ Holds(l) /\ loaders[l].at = "received"
    BY <1>6, <1>c DEF WriteBody
  <2>2. /\ loaders'[l].at = "written" /\ loaders'[l].got = loaders[l].got
        /\ body' = loaders[l].got
        /\ UNCHANGED <<origin, meta>>
    BY <1>6 DEF WriteBody, Answered, TypeOK
  <2>3. Holds(l)' BY <2>1, <2>2 DEF Holds
  <2> QED BY <2>1, <2>2, <2>3, <1>b, <1>c, <1>6, LoaderStep DEF Holds
<1>7. ASSUME NEW l \in Loader, WriteMeta(l) PROVE Fit'
  <2>1. loaders[l] # None /\ Holds(l) /\ body' = body /\ loaders'[l] = None
    BY <1>7, <1>c, EndsType DEF WriteMeta
  <2>2. PICK e : /\ meta' = [etag |-> e, fresh |-> TRUE]
                 /\ \/ loaders[l].at = "written" /\ e \in {loaders[l].got, None}
                    \/ loaders[l].at = "confirmed" /\ e = loaders[l].etag
    BY <1>7 DEF WriteMeta
  <2>3. e # None /\ body # None => e = body BY <2>1, <2>2 DEF Holds
  <2>4. meta' # None /\ meta'.etag = e
    <3>1. meta' \in Meta \cup {None} BY <1>0 DEF TypeOK
    <3>2. e \in Version \cup {None}
      <4>1. loaders[l] \in LoaderState BY <2>1 DEF TypeOK
      <4> QED BY <1>7, <2>2, <4>1 DEF WriteMeta, LoaderState, Body
    <3>3. meta' \in Meta BY <2>2, <3>2 DEF Meta
    <3> QED BY <2>2, <3>3
  <2>5. NotAhead(Etag, body)' BY <2>1, <2>3, <2>4
  <2>6. \A m \in Loader \ {l} : loaders'[m] = loaders[m] BY <1>7, LoaderStep
  <2> QED BY <2>1, <2>5, <2>6, <1>b
<1>8. CASE Age
  <2>1. meta' # None /\ meta'.etag = meta.etag /\ meta # None
        /\ UNCHANGED <<origin, body, loaders>>
    BY <1>8, TypeStep DEF Age, Next, TypeOK, Meta
  <2> QED BY <1>c, <2>1 DEF Fit, Holds
<1>9. CASE Remove BY <1>c, <1>9 DEF Remove, Fit, Holds
<1>10. CASE Publish BY <1>c, <1>10 DEF Publish, Fit, Holds
<1>11. CASE UNCHANGED vars BY <1>c, <1>11 DEF vars, Fit, Holds
<1> QED
  BY <1>1, <1>2, <1>3, <1>4, <1>5, <1>6, <1>7, <1>8, <1>9, <1>10, <1>11 DEF Next

\* The files fit as long as no loads overlap and the origin does not go back.
LEMMA FitHolds == Spec => []Fit
<1>1. Init => Fit /\ Past /\ Alone
  BY DEF Init, Fit, Past, Alone, NotAhead, Etag
<1>2. TypeOK /\ Past /\ [Next]_vars => Past' BY PastStep
<1>3. TypeOK /\ Alone /\ [Next]_vars => Alone' BY AloneStep
<1>4. TypeOK /\ Past /\ Alone /\ Fit /\ [Next]_vars => Fit' BY FitStep
<1> QED BY <1>1, <1>2, <1>3, <1>4, CacheTypeCorrect, PTL DEF Spec

\* diskloader.go:98-112, what is in the cache is JSON, whoever loads; and at whatever
\* points writes failed or the process was killed, the stored ETag belongs to no newer
\* content than the stored body, until two loads overlap or the origin goes back.
THEOREM FilesFitEachOther == Spec => []FilesFit
<1>1. Fit /\ body # Junk => FilesFit BY DEF Fit, FilesFit, TagFitsBody, NotAhead, Etag
<1> QED BY <1>1, FitHolds, CacheIsJson, PTL

\* diskloader.go:98-99, the freshness window restarts only for a body the origin just
\* confirmed to be current, until two loads overlap or the origin goes back.
THEOREM ConfirmedBodyIsCurrent == Spec => [](Undisturbed => ConfirmedIsCurrent)
<1>1. Fit => (Undisturbed => ConfirmedIsCurrent)
  BY DEF Fit, Holds, ConfirmedIsCurrent, At
<1> QED BY <1>1, FitHolds, PTL
=============================================================================
