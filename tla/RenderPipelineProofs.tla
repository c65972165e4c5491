------------------------ MODULE RenderPipelineProofs ------------------------
(***************************************************************************)
(* Proofs about RenderPipeline, for any sets of URIs, texts, renderers and *)
(* job slots and any bound on the invalidations.                           *)
(***************************************************************************)
EXTENDS RenderPipeline, TLAPS

USE NoneAssumption, RecordAssumption, MaxEpochAssumption

\* Superseding a URI's render stops at most one timer and changes nothing else.
LEMMA SupersededType ==
    ASSUME TypeOK, NEW u \in Uri
    PROVE  /\ Superseded(u) \in [Job -> JobState \cup {None}]
           /\ \A j \in Job : Superseded(u)[j] \in {jobs[j], None}
  BY DEF TypeOK, Superseded

\* The shape of a state survives every step of the pipeline.
LEMMA TypeStep == TypeOK /\ [Next]_vars => TypeOK'
<1> SUFFICES ASSUME TypeOK, [Next]_vars PROVE TypeOK'
  OBVIOUS
<1> USE DEF TypeOK, JobState, CacheEntry, Phase, Err
<1>1. ASSUME NEW j \in Job, NEW u \in Uri, NEW t \in Text, Schedule(j, u, t)
      PROVE  TypeOK'
  BY <1>1 DEF Schedule
<1>2. ASSUME NEW j \in Job, ScheduleHit(j) PROVE TypeOK'
  <2>1. jobs[j] \in JobState /\ cache[jobs[j].uri] \in CacheEntry
    BY <1>2 DEF ScheduleHit, Hit
  <2>2. Moved(j, "reporting", jobs[j].epoch, cache[jobs[j].uri].err) \in JobState
    BY <2>1 DEF Moved
  <2>3. jobs' \in [Job -> JobState \cup {None}]
    BY <1>2, <2>1, <2>2, SupersededType DEF ScheduleHit
  <2>4. QED
    BY <1>2, <2>1, <2>3 DEF ScheduleHit
<1>3. ASSUME NEW j \in Job, ScheduleArm(j) PROVE TypeOK'
  <2>1. jobs[j] \in JobState
    BY <1>3 DEF ScheduleArm
  <2>2. Moved(j, "armed", epoch, "none") \in JobState
    BY <2>1 DEF Moved
  <2>3. jobs' \in [Job -> JobState \cup {None}]
    BY <1>3, <2>1, <2>2, SupersededType DEF ScheduleArm
  <2>4. QED
    BY <1>3, <2>1, <2>3 DEF ScheduleArm
<1>4. ASSUME NEW j \in Job, Fire(j) PROVE TypeOK'
  BY <1>4 DEF Fire
<1>5. ASSUME NEW j \in Job, Drop(j) \/ Report(j) PROVE TypeOK'
  BY <1>5 DEF Drop, Report
<1>6. ASSUME NEW j \in Job, Writeback(j) PROVE TypeOK'
  BY <1>6 DEF Writeback, Remembered, Moved
<1>7. CASE Configure
  BY <1>7 DEF Configure
<1>8. CASE InvalidateAll
  <2>1. epoch' \in 0..MaxEpoch
    BY <1>8 DEF InvalidateAll
  <2>2. cache' \in [Uri -> CacheEntry \cup {None}]
    BY <1>8 DEF InvalidateAll
  <2>3. QED
    BY <1>8, <2>1, <2>2 DEF InvalidateAll
<1>9. ASSUME NEW u \in Uri, Cancel(u) PROVE TypeOK'
  BY <1>9 DEF Cancel, Superseded
<1>10. CASE UNCHANGED vars
  BY <1>10 DEF vars
<1>11. QED
  BY <1>1, <1>2, <1>3, <1>4, <1>5, <1>6, <1>7, <1>8, <1>9, <1>10
  DEF Next, JobStep

\* The pipeline starts with the shape TypeOK gives it.
LEMMA TypeInit == Init => TypeOK
<1> SUFFICES ASSUME Init PROVE TypeOK
  OBVIOUS
<1>1. epoch \in 0..MaxEpoch
  BY DEF Init
<1>2. cache \in [Uri -> CacheEntry \cup {None}]
  BY DEF Init
<1>3. pending \in [Uri -> Job \cup {None}]
  BY DEF Init
<1>4. jobs \in [Job -> JobState \cup {None}]
  BY DEF Init
<1>5. QED
  BY <1>1, <1>2, <1>3, <1>4 DEF Init, TypeOK

\* Every reachable state of the pipeline has the shape TypeOK gives it.
THEOREM TypeCorrect == Safe => []TypeOK
  BY TypeInit, TypeStep, PTL DEF Safe

-----------------------------------------------------------------------------
(* The pending map and the jobs.  Neither conjunct is inductive without    *)
(* the other: a writeback clears the entry of its own URI, so no other     *)
(* entry may name its job, and a superseding Schedule stops the timer the  *)
(* entry names, so no timer may be missing from the entries.               *)

PendingInv == PendingOwnUri /\ NoOrphanTimer

\* Superseding leaves every goroutine past its timer where it is, and every job
\* of another URI altogether.
LEMMA SupersededJobs ==
    ASSUME TypeOK, PendingInv, NEW u \in Uri, NEW j \in Job
    PROVE  /\ jobs[j] = None => Superseded(u)[j] = None
           /\ jobs[j] # None /\ jobs[j].phase # "armed" => Superseded(u)[j] = jobs[j]
           /\ jobs[j] # None /\ jobs[j].uri # u => Superseded(u)[j] = jobs[j]
           /\ jobs[j] # None /\ jobs[j].uri = u /\ jobs[j].phase = "armed"
                => Superseded(u)[j] = None
<1>1. jobs[j] # None /\ jobs[j].uri # u => pending[u] # j
  BY DEF PendingInv, PendingOwnUri
<1>2. jobs[j] # None /\ jobs[j].uri = u /\ jobs[j].phase = "armed" => pending[u] = j
  BY DEF PendingInv, NoOrphanTimer
<1>3. QED
  BY <1>1, <1>2 DEF Superseded

\* Registrations and armed timers keep pointing at each other through every step.
LEMMA PendingStep == TypeOK /\ PendingInv /\ [Next]_vars => PendingInv'
<1> SUFFICES ASSUME TypeOK, PendingInv, [Next]_vars PROVE PendingInv'
  OBVIOUS
<1>1. ASSUME NEW j \in Job, NEW u \in Uri, NEW t \in Text, Schedule(j, u, t)
      PROVE  PendingInv'
  BY <1>1 DEF Schedule, Unused, PendingInv, PendingOwnUri, NoOrphanTimer, Live, TypeOK
<1>2. ASSUME NEW j \in Job, ScheduleHit(j) PROVE PendingInv'
  <2> DEFINE u == jobs[j].uri
  <2>1. u \in Uri /\ jobs[j].phase = "scheduling" /\ jobs[j] # None
    BY <1>2 DEF ScheduleHit, TypeOK, JobState
  <2>2. \A v \in Uri : pending[v] # j
    BY <2>1 DEF PendingInv, PendingOwnUri, Live
  <2>3. /\ pending' = [pending EXCEPT ![u] = None]
        /\ jobs' = [Superseded(u) EXCEPT
                ![j] = Moved(j, "reporting", jobs[j].epoch, cache[u].err)]
    BY <1>2 DEF ScheduleHit
  <2>4. \A i \in Job : i # j => jobs'[i] = Superseded(u)[i]
    BY <2>1, <2>3, SupersededType
  <2>5. jobs'[j].phase = "reporting"
    BY <2>1, <2>3, SupersededType DEF Moved
  <2>6. PendingOwnUri'
    <3> SUFFICES ASSUME NEW v \in Uri, pending'[v] # None, jobs'[pending'[v]] # None
                 PROVE  (Live(pending[v]) /\ jobs[pending[v]].uri = v)'
      BY DEF PendingOwnUri
    <3> DEFINE i == pending[v]
    <3>1. v # u /\ pending'[v] = i /\ i \in Job /\ i # j
      BY <2>1, <2>2, <2>3 DEF TypeOK
    <3>2. jobs'[i] = Superseded(u)[i] /\ jobs[i] # None
      BY <2>1, <2>4, <3>1, SupersededJobs
    <3>3. Live(i) /\ jobs[i].uri = v
      BY <3>1, <3>2 DEF PendingInv, PendingOwnUri
    <3>4. jobs'[i] = jobs[i]
      BY <2>1, <3>1, <3>2, <3>3, SupersededJobs
    <3>5. QED
      BY <3>1, <3>3, <3>4 DEF Live
  <2>7. NoOrphanTimer'
    <3> SUFFICES ASSUME NEW i \in Job, jobs'[i] # None, jobs'[i].phase = "armed"
                 PROVE  pending'[jobs'[i].uri] = i
      BY DEF NoOrphanTimer
    <3>1. i # j /\ jobs'[i] = Superseded(u)[i]
      BY <2>4, <2>5
    <3>2. jobs[i] # None /\ jobs'[i] = jobs[i]
      BY <2>1, <3>1, SupersededType, SupersededJobs
    <3>3. jobs[i].uri # u /\ jobs[i].uri \in Uri
      BY <2>1, <3>1, <3>2, SupersededJobs DEF TypeOK, JobState
    <3>4. QED
      BY <2>1, <2>3, <3>2, <3>3 DEF PendingInv, NoOrphanTimer, TypeOK
  <2>8. QED
    BY <2>6, <2>7 DEF PendingInv
<1>3. ASSUME NEW j \in Job, ScheduleArm(j) PROVE PendingInv'
  <2> DEFINE u == jobs[j].uri
  <2>1. u \in Uri /\ jobs[j].phase = "scheduling" /\ jobs[j] # None
    BY <1>3 DEF ScheduleArm, TypeOK, JobState
  <2>2. \A v \in Uri : pending[v] # j
    BY <2>1 DEF PendingInv, PendingOwnUri, Live
  <2>3. /\ pending' = [pending EXCEPT ![u] = j]
        /\ jobs' = [Superseded(u) EXCEPT ![j] = Moved(j, "armed", epoch, "none")]
    BY <1>3 DEF ScheduleArm
  <2>4. \A i \in Job : i # j => jobs'[i] = Superseded(u)[i]
    BY <2>1, <2>3, SupersededType
  <2>5. jobs'[j] # None /\ jobs'[j].phase = "armed" /\ jobs'[j].uri = u
    <3>1. Moved(j, "armed", epoch, "none") \in JobState
      BY <1>3 DEF ScheduleArm, Moved, TypeOK, JobState, Phase, Err
    <3>2. jobs'[j] = Moved(j, "armed", epoch, "none")
      BY <2>1, <2>3, SupersededType
    <3>3. Moved(j, "armed", epoch, "none").uri = u
          /\ Moved(j, "armed", epoch, "none").phase = "armed"
      BY DEF Moved
    <3>4. Moved(j, "armed", epoch, "none") # None
      BY <3>1
    <3>5. QED
      BY <3>2, <3>3, <3>4
  <2>6. PendingOwnUri'
    <3> SUFFICES ASSUME NEW v \in Uri, pending'[v] # None, jobs'[pending'[v]] # None
                 PROVE  (Live(pending[v]) /\ jobs[pending[v]].uri = v)'
      BY DEF PendingOwnUri
    <3>1. CASE v = u
      BY <2>1, <2>3, <2>5, <3>1 DEF Live, TypeOK
    <3>2. CASE v # u
      <4> DEFINE i == pending[v]
      <4>1. pending'[v] = i /\ i \in Job /\ i # j
        BY <2>1, <2>2, <2>3, <3>2 DEF TypeOK
      <4>2. jobs'[i] = Superseded(u)[i] /\ jobs[i] # None
        BY <2>1, <2>4, <4>1, SupersededJobs
      <4>3. Live(i) /\ jobs[i].uri = v
        BY <4>1, <4>2 DEF PendingInv, PendingOwnUri
      <4>4. jobs'[i] = jobs[i]
        BY <2>1, <3>2, <4>1, <4>2, <4>3, SupersededJobs
      <4>5. QED
        BY <4>1, <4>3, <4>4 DEF Live
    <3>3. QED
      BY <3>1, <3>2
  <2>7. NoOrphanTimer'
    <3> SUFFICES ASSUME NEW i \in Job, jobs'[i] # None, jobs'[i].phase = "armed"
                 PROVE  pending'[jobs'[i].uri] = i
      BY DEF NoOrphanTimer
    <3>1. CASE i = j
      BY <2>1, <2>3, <2>5, <3>1 DEF TypeOK
    <3>2. CASE i # j
      <4>1. jobs[i] # None /\ jobs'[i] = jobs[i]
        BY <2>1, <2>4, <3>2, SupersededType, SupersededJobs
      <4>2. jobs[i].uri # u /\ jobs[i].uri \in Uri
        BY <2>1, <2>4, <3>2, <4>1, SupersededJobs DEF TypeOK, JobState
      <4>3. QED
        BY <2>1, <2>3, <4>1, <4>2 DEF PendingInv, NoOrphanTimer, TypeOK
    <3>3. QED
      BY <3>1, <3>2
  <2>8. QED
    BY <2>6, <2>7 DEF PendingInv
<1> USE DEF PendingInv, PendingOwnUri, NoOrphanTimer, Live, TypeOK, JobState
<1>4. ASSUME NEW j \in Job, Fire(j) PROVE PendingInv'
  BY <1>4 DEF Fire
<1>5. ASSUME NEW j \in Job, Drop(j) \/ Report(j) PROVE PendingInv'
  BY <1>5 DEF Drop, Report
<1>6. ASSUME NEW j \in Job, Writeback(j) PROVE PendingInv'
  BY <1>6 DEF Writeback, Outdated, Moved
<1>7. CASE Configure
  BY <1>7 DEF Configure
<1>8. CASE InvalidateAll
  BY <1>8 DEF InvalidateAll
<1>9. ASSUME NEW u \in Uri, Cancel(u) PROVE PendingInv'
  <2>1. jobs' = Superseded(u) /\ pending' = [pending EXCEPT ![u] = None]
    BY <1>9 DEF Cancel
  <2>2. PendingOwnUri'
    BY <2>1 DEF Superseded
  <2>3. NoOrphanTimer'
    BY <2>1 DEF Superseded
  <2>4. QED
    BY <2>2, <2>3
<1>10. CASE UNCHANGED vars
  BY <1>10 DEF vars
<1>11. QED
  BY <1>1, <1>2, <1>3, <1>4, <1>5, <1>6, <1>7, <1>8, <1>9, <1>10
  DEF Next, JobStep

\* pipeline.go:42-48 and 88-98: a document's registered render is its own, and
\* every timer that may still fire can be stopped through the registration.
THEOREM PendingCorrect == Safe => [](PendingOwnUri /\ NoOrphanTimer)
<1>1. Init => PendingInv
  BY DEF Init, PendingInv, PendingOwnUri, NoOrphanTimer
<1>2. PendingInv => PendingOwnUri /\ NoOrphanTimer
  BY DEF PendingInv
<1>3. QED
  BY <1>1, <1>2, TypeCorrect, PendingStep, PTL DEF Safe

-----------------------------------------------------------------------------
(* The cache and the epochs.                                               *)

CacheInv == CacheSinceInvalidation /\ NoContextErrCached /\ EpochsSeen

\* Nothing outdated and no cancelled or timed-out render gets into the cache in a
\* step: a writeback of an earlier epoch is dropped.
LEMMA CacheStep == TypeOK /\ CacheInv /\ [Next]_vars => CacheInv'
<1> SUFFICES ASSUME TypeOK, CacheInv, [Next]_vars PROVE CacheInv'
  OBVIOUS
<1> USE DEF CacheInv, CacheSinceInvalidation, NoContextErrCached, IsContextErr,
            EpochsSeen, TypeOK, JobState, CacheEntry
<1>1. ASSUME NEW j \in Job, NEW u \in Uri, NEW t \in Text, Schedule(j, u, t)
      PROVE  CacheInv'
  BY <1>1 DEF Schedule
<1>2. ASSUME NEW j \in Job, ScheduleHit(j) PROVE CacheInv'
  <2> DEFINE u == jobs[j].uri
  <2>1. u \in Uri /\ cache' = cache /\ epoch' = epoch
    BY <1>2 DEF ScheduleHit
  <2>2. \A i \in Job : i # j => jobs'[i] \in {jobs[i], None}
    BY <1>2, <2>1, SupersededType DEF ScheduleHit
  <2>3. jobs'[j].epoch = jobs[j].epoch
    BY <1>2, <2>1, SupersededType DEF ScheduleHit, Moved
  <2>4. QED
    BY <1>2, <2>1, <2>2, <2>3 DEF ScheduleHit
<1>3. ASSUME NEW j \in Job, ScheduleArm(j) PROVE CacheInv'
  <2> DEFINE u == jobs[j].uri
  <2>1. u \in Uri /\ cache' = cache /\ epoch' = epoch
    BY <1>3 DEF ScheduleArm
  <2>2. \A i \in Job : i # j => jobs'[i] \in {jobs[i], None}
    BY <1>3, <2>1, SupersededType DEF ScheduleArm
  <2>3. jobs'[j].epoch = epoch
    BY <1>3, <2>1, SupersededType DEF ScheduleArm, Moved
  <2>4. QED
    BY <2>1, <2>2, <2>3
<1>4. ASSUME NEW j \in Job, Fire(j) PROVE CacheInv'
  BY <1>4 DEF Fire
<1>5. ASSUME NEW j \in Job, Drop(j) \/ Report(j) PROVE CacheInv'
  BY <1>5 DEF Drop, Report
<1>6. ASSUME NEW j \in Job, Writeback(j) PROVE CacheInv'
  <2>1. jobs[j].epoch = epoch
    BY <1>6 DEF Writeback, Outdated
  <2>2. CacheSinceInvalidation' /\ NoContextErrCached'
    BY <1>6, <2>1 DEF Writeback, Remembered
  <2>3. EpochsSeen'
    BY <1>6 DEF Writeback, Moved
  <2>4. QED
    BY <2>2, <2>3
<1>7. CASE Configure
  BY <1>7 DEF Configure
<1>8. CASE InvalidateAll
  BY <1>8 DEF InvalidateAll
<1>9. ASSUME NEW u \in Uri, Cancel(u) PROVE CacheInv'
  <2>1. \A i \in Job : jobs'[i] \in {jobs[i], None}
    BY <1>9, SupersededType DEF Cancel
  <2>2. QED
    BY <1>9, <2>1 DEF Cancel
<1>10. CASE UNCHANGED vars
  BY <1>10 DEF vars
<1>11. QED
  BY <1>1, <1>2, <1>3, <1>4, <1>5, <1>6, <1>7, <1>8, <1>9, <1>10
  DEF Next, JobStep

\* pipeline.go:26-29 and 118-121: nothing cached was scheduled before the last
\* InvalidateAll, and nothing cached is a cancelled or timed-out render.
THEOREM CacheCorrect == Safe => [](CacheSinceInvalidation /\ NoContextErrCached)
<1>1. Init => CacheInv
  BY DEF Init, CacheInv, CacheSinceInvalidation, NoContextErrCached, EpochsSeen
<1>2. CacheInv => CacheSinceInvalidation /\ NoContextErrCached
  BY DEF CacheInv
<1>3. QED
  BY <1>1, <1>2, TypeCorrect, CacheStep, PTL DEF Safe

-----------------------------------------------------------------------------
(* The pipeline implements RenderRequests.                                 *)

PipelineInv == TypeOK /\ PendingInv /\ CacheInv

\* The invariants together, which the steps of the refinement need.
LEMMA PipelineCorrect == Safe => []PipelineInv
<1>1. Init => PipelineInv
  <2>1. Init => TypeOK
    BY TypeInit
  <2>2. Init => PendingInv /\ CacheInv
    BY DEF Init, PendingInv, PendingOwnUri, NoOrphanTimer, CacheInv,
       CacheSinceInvalidation, NoContextErrCached, EpochsSeen
  <2>3. QED
    BY <2>1, <2>2 DEF PipelineInv
<1>2. PipelineInv /\ [Next]_vars => PipelineInv'
  BY TypeStep, PendingStep, CacheStep DEF PipelineInv
<1>3. QED
  BY <1>1, <1>2, PTL DEF Safe

Want == [u \in Uri |-> Wanted(u)]
Memo == [u \in Uri |-> Known(u)]

\* The request of job j.
Request(j) == [text |-> jobs[j].text, by |-> jobs[j].by]

\* When a Schedule takes Pipeline.mu, the requests of other URIs stay as they
\* are, whichever way the registered render of its own URI ends.
LEMMA OthersKept ==
    ASSUME PipelineInv, NEW j \in Job, jobs[j] # None, jobs[j].phase = "scheduling",
           NEW p, NEW s,
           pending' = [pending EXCEPT ![jobs[j].uri] = p],
           jobs' = [Superseded(jobs[j].uri) EXCEPT ![j] = s],
           epoch' = epoch
    PROVE  \A v \in Uri : v # jobs[j].uri => Wanted(v)' = Wanted(v)
<1> DEFINE u == jobs[j].uri
<1> SUFFICES ASSUME NEW v \in Uri, v # u PROVE Wanted(v)' = Wanted(v)
  OBVIOUS
<1>1. TypeOK /\ PendingInv /\ u \in Uri
  BY DEF PipelineInv, TypeOK, JobState
<1>2. pending'[v] = pending[v]
  BY <1>1 DEF TypeOK
<1>3. CASE pending[v] = None
  BY <1>2, <1>3 DEF Wanted
<1>4. CASE pending[v] # None
  <2> DEFINE i == pending[v]
  <2>1. i \in Job /\ i # j
    BY <1>1, <1>4 DEF TypeOK, PendingInv, PendingOwnUri, Live
  <2>2. jobs'[i] = Superseded(u)[i]
    BY <1>1, <2>1, SupersededType
  <2>3. jobs'[i] = jobs[i]
    BY <1>1, <1>4, <2>1, <2>2, SupersededJobs DEF PendingInv, PendingOwnUri
  <2>4. QED
    BY <1>2, <2>3 DEF Wanted
<1>5. QED
  BY <1>3, <1>4

\* Arming a render makes it the outstanding request of its URI, and a hit leaves
\* none: both are an Ask of the abstract specification.
LEMMA AskStep ==
    ASSUME PipelineInv, NEW j \in Job, ScheduleHit(j) \/ ScheduleArm(j)
    PROVE  Requests!Ask(jobs[j].uri, Request(j)) /\ Request(j) \in Requests!Request
<1> PICK u \in Uri : u = jobs[j].uri
  BY DEF PipelineInv, TypeOK, JobState, ScheduleHit, ScheduleArm
<1>1. TypeOK /\ jobs[j] \in JobState /\ jobs[j] # None /\ u \in Uri
      /\ jobs[j].phase = "scheduling" /\ u = jobs[j].uri
  BY DEF PipelineInv, TypeOK, JobState, ScheduleHit, ScheduleArm
<1>2. Request(j) \in Requests!Request
  BY <1>1 DEF Request, Requests!Request, JobState
<1>3. Memo' = Memo
  BY DEF Memo, Known, ScheduleHit, ScheduleArm
<1>4. CASE ScheduleHit(j)
  <2>1. /\ pending' = [pending EXCEPT ![u] = None]
        /\ jobs' = [Superseded(u) EXCEPT
              ![j] = Moved(j, "reporting", jobs[j].epoch, cache[u].err)]
        /\ epoch' = epoch
    BY <1>4 DEF ScheduleHit
  <2>2. \A v \in Uri : v # u => Wanted(v)' = Wanted(v)
    BY <1>1, <2>1, OthersKept
  <2>3. Wanted(u)' = None
    BY <1>1, <2>1 DEF Wanted, TypeOK
  <2>4. cache[u] \in CacheEntry /\ cache[u].text = jobs[j].text
    BY <1>1, <1>4 DEF ScheduleHit, Hit, TypeOK
  <2>5. Memo[u] # None /\ Memo[u].text = Request(j).text
    <3>1. Memo[u] = [text |-> cache[u].text, by |-> cache[u].by, err |-> cache[u].err]
      BY <1>1, <2>4 DEF Memo, Known
    <3>2. Memo[u] \in [text : Text, by : Renderer, err : Err]
      BY <2>4, <3>1 DEF CacheEntry
    <3>3. Memo[u] # None
      BY <3>2
    <3>4. Memo[u].text = cache[u].text
      BY <3>1
    <3>5. QED
      BY <2>4, <3>3, <3>4 DEF Request
  <2>6. Want' = [Want EXCEPT ![u] = None]
    BY <2>2, <2>3 DEF Want
  <2>7. QED
    BY <1>2, <1>3, <2>5, <2>6 DEF Requests!Ask, Want, Memo
<1>5. CASE ScheduleArm(j)
  <2>1. /\ pending' = [pending EXCEPT ![u] = j]
        /\ jobs' = [Superseded(u) EXCEPT ![j] = Moved(j, "armed", epoch, "none")]
        /\ epoch' = epoch
    BY <1>5 DEF ScheduleArm
  <2>2. \A v \in Uri : v # u => Wanted(v)' = Wanted(v)
    BY <1>1, <2>1, OthersKept
  <2>3. Wanted(u)' = [text |-> jobs[j].text, by |-> jobs[j].by]
    <3>1. pending'[u] = j
      BY <1>1, <2>1 DEF TypeOK
    <3>2. jobs'[j] = Moved(j, "armed", epoch, "none")
      BY <1>1, <2>1, SupersededType
    <3>3. Moved(j, "armed", epoch, "none") \in JobState
      BY <1>1 DEF Moved, TypeOK, JobState, Phase, Err
    <3>4. jobs'[j] # None
      BY <3>2, <3>3
    <3>5. jobs'[j].epoch = epoch /\ jobs'[j].text = jobs[j].text
          /\ jobs'[j].by = jobs[j].by
      BY <3>2 DEF Moved
    <3>6. QED
      BY <2>1, <3>1, <3>4, <3>5 DEF Wanted
  <2>4. ~(Memo[u] # None /\ Memo[u].text = Request(j).text)
    <3>1. ~(cache[u] # None /\ cache[u].text = jobs[j].text)
      BY <1>5 DEF ScheduleArm, Hit
    <3>2. CASE cache[u] = None
      BY <1>1, <3>2 DEF Memo, Known
    <3>3. CASE cache[u] # None
      BY <1>1, <3>1, <3>3 DEF Memo, Known, Request
    <3>4. QED
      BY <3>2, <3>3
  <2>5. Want' = [Want EXCEPT ![u] = Request(j)]
    BY <2>2, <2>3 DEF Want, Request
  <2>6. QED
    BY <1>2, <1>3, <2>4, <2>5 DEF Requests!Ask, Want, Memo
<1>6. QED
  BY <1>4, <1>5

\* A job that moves on without Pipeline.mu, or ends without a result, is
\* invisible: only a registered job of the current epoch is a request.
LEMMA InvisibleStep ==
    ASSUME PipelineInv, NEW j \in Job,
           \/ \E u \in Uri, t \in Text : Schedule(j, u, t)
           \/ Fire(j) \/ Drop(j) \/ Report(j)
    PROVE  Want' = Want /\ Memo' = Memo
<1>1. /\ pending' = pending /\ cache' = cache /\ epoch' = epoch
      /\ \A i \in Job : i # j => jobs'[i] = jobs[i]
  BY DEF Schedule, Fire, Drop, Report, PipelineInv, TypeOK
<1>2. TypeOK /\ PendingInv
  BY DEF PipelineInv
<1>3. ASSUME NEW v \in Uri PROVE Wanted(v)' = Wanted(v)
  <2>1. CASE pending[v] # j
    BY <1>1, <1>2, <2>1 DEF Wanted, TypeOK
  <2>2. CASE pending[v] = j /\ jobs[j] = None
    BY <2>2 DEF Schedule, Unused, Fire, Drop, Report
  <2>3. CASE pending[v] = j /\ jobs[j] # None
    <3>1. Live(j) /\ jobs[j].uri = v /\ jobs[j] \in JobState
      BY <1>2, <2>3 DEF PendingInv, PendingOwnUri, TypeOK
    <3>2. CASE Fire(j)
      <4>1. /\ jobs'[j] \in JobState
            /\ jobs'[j].epoch = jobs[j].epoch
            /\ jobs'[j].text = jobs[j].text /\ jobs'[j].by = jobs[j].by
        BY <1>2, <3>1, <3>2 DEF Fire, TypeOK, JobState, Phase
      <4>2. QED
        BY <1>1, <2>3, <4>1 DEF Wanted
    <3>3. CASE Drop(j)
      <4>1. jobs[j].epoch # epoch /\ jobs'[j] = None
        BY <1>2, <2>3, <3>1, <3>3 DEF Drop, Outdated, TypeOK
      <4>2. QED
        BY <1>1, <2>3, <4>1 DEF Wanted
    <3>4. QED
      BY <2>3, <3>1, <3>2, <3>3 DEF Live, Schedule, Unused, Report
  <2>4. QED
    BY <2>1, <2>2, <2>3
<1>4. Memo' = Memo
  BY <1>1 DEF Memo, Known
<1>5. QED
  BY <1>3, <1>4 DEF Want

\* A writeback that is not outdated answers the outstanding request of its URI.
LEMMA AnswerStep ==
    ASSUME PipelineInv, NEW j \in Job, Writeback(j)
    PROVE  Requests!Answer(jobs[j].uri) \/ Requests!GiveUp(jobs[j].uri)
<1> PICK u \in Uri : u = jobs[j].uri
  BY DEF PipelineInv, TypeOK, JobState, Writeback
<1>1. TypeOK /\ PendingInv /\ jobs[j] \in JobState /\ jobs[j] # None
  BY DEF PipelineInv, TypeOK, Writeback
<1>2. /\ pending[u] = j /\ jobs[j].epoch = epoch /\ epoch' = epoch
      /\ pending' = [pending EXCEPT ![u] = None]
      /\ \A i \in Job : i # j => jobs'[i] = jobs[i]
  BY <1>1 DEF Writeback, Outdated, TypeOK
<1> PICK o \in Err : cache' = [cache EXCEPT ![u] = Remembered(j, o)]
  BY DEF Writeback
<1>3. Want[u] = Request(j) /\ Request(j) # None
  <2>1. Wanted(u) = [text |-> jobs[j].text, by |-> jobs[j].by]
    BY <1>1, <1>2 DEF Wanted
  <2>2. [text |-> jobs[j].text, by |-> jobs[j].by] \in [text : Text, by : Renderer]
    BY <1>1 DEF JobState
  <2>3. QED
    BY <2>1, <2>2 DEF Want, Request
<1>4. Want' = [Want EXCEPT ![u] = None]
  <2>1. Wanted(u)' = None
    BY <1>1, <1>2 DEF Wanted, TypeOK
  <2>2. ASSUME NEW v \in Uri, v # u PROVE Wanted(v)' = Wanted(v)
    <3>1. pending'[v] = pending[v] /\ pending[v] # j
      BY <1>1, <1>2, <2>2 DEF TypeOK, PendingInv, PendingOwnUri
    <3>2. QED
      BY <1>1, <1>2, <3>1 DEF Wanted, TypeOK
  <2>3. QED
    BY <2>1, <2>2 DEF Want
<1>5. ASSUME NEW v \in Uri, v # u PROVE Known(v)' = Known(v)
  BY <1>1, <1>5 DEF Known, TypeOK
<1>6. CASE IsContextErr(o)
  <2>1. Known(u)' = Known(u)
    BY <1>1, <1>6 DEF Remembered, Known, TypeOK
  <2>2. Memo' = Memo
    BY <1>5, <2>1 DEF Memo
  <2>3. QED
    BY <1>3, <1>4, <2>2 DEF Requests!GiveUp, Want, Memo
<1>7. CASE ~IsContextErr(o)
  <2> PICK e \in Requests!Verdict : e = o
    BY <1>7 DEF Err, IsContextErr, Requests!Verdict
  <2>1. /\ Remembered(j, o) \in CacheEntry
        /\ Remembered(j, o).text = jobs[j].text /\ Remembered(j, o).by = jobs[j].by
        /\ Remembered(j, o).err = e
    BY <1>1, <1>7 DEF Remembered, CacheEntry, JobState
  <2>2. cache'[u] = Remembered(j, o)
    BY <1>1 DEF TypeOK
  <2>3. Known(u)' = [text |-> jobs[j].text, by |-> jobs[j].by, err |-> e]
    BY <2>1, <2>2 DEF Known
  <2>4. Known(u)' = [text |-> Want[u].text, by |-> Want[u].by, err |-> e]
    BY <1>3, <2>3 DEF Request
  <2>5. Memo' = [Memo EXCEPT ![u] =
                    [text |-> Want[u].text, by |-> Want[u].by, err |-> e]]
    BY <1>5, <2>4 DEF Memo
  <2>6. QED
    BY <1>3, <1>4, <2>5 DEF Requests!Answer, Want, Memo
<1>8. QED
  BY <1>6, <1>7

\* InvalidateAll leaves the registered renders running, but none of them is of
\* the new epoch.
LEMMA ForgetAllStep == PipelineInv /\ InvalidateAll => Requests!ForgetAll
<1> SUFFICES ASSUME PipelineInv, InvalidateAll PROVE Requests!ForgetAll
  OBVIOUS
<1>1. ASSUME NEW v \in Uri PROVE Wanted(v)' = None
  <2>1. pending' = pending /\ jobs' = jobs /\ epoch' = epoch + 1
    BY DEF InvalidateAll
  <2>2. pending[v] # None /\ jobs[pending[v]] # None => jobs[pending[v]].epoch # epoch + 1
    BY DEF PipelineInv, CacheInv, EpochsSeen, TypeOK, JobState
  <2>3. QED
    BY <2>1, <2>2 DEF Wanted
<1>2. ASSUME NEW v \in Uri PROVE Known(v)' = None
  BY DEF InvalidateAll, Known
<1>3. QED
  BY <1>1, <1>2 DEF Requests!ForgetAll

\* Cancel drops the outstanding request and what is known of its URI.
LEMMA ForgetStep ==
    ASSUME PipelineInv, NEW u \in Uri, Cancel(u)
    PROVE  Requests!Forget(u)
<1>1. TypeOK /\ PendingInv
  BY DEF PipelineInv
<1>2. /\ jobs' = Superseded(u) /\ pending' = [pending EXCEPT ![u] = None]
      /\ cache' = [cache EXCEPT ![u] = None] /\ epoch' = epoch
  BY DEF Cancel
<1>3. Wanted(u)' = None /\ Known(u)' = None
  BY <1>1, <1>2 DEF Wanted, Known, TypeOK
<1>4. ASSUME NEW v \in Uri, v # u PROVE Known(v)' = Known(v) /\ Wanted(v)' = Wanted(v)
  <2>1. Known(v)' = Known(v)
    BY <1>1, <1>2, <1>4 DEF Known, TypeOK
  <2>2. pending'[v] = pending[v]
    BY <1>1, <1>2, <1>4 DEF TypeOK
  <2>3. CASE pending[v] = None
    BY <2>1, <2>2, <2>3 DEF Wanted
  <2>4. CASE pending[v] # None
    <3>1. pending[v] \in Job
      BY <1>1, <2>4 DEF TypeOK
    <3>2. jobs'[pending[v]] = jobs[pending[v]]
      BY <1>1, <1>2, <1>4, <2>4, <3>1, SupersededJobs DEF PendingInv, PendingOwnUri
    <3>3. QED
      BY <1>2, <2>1, <2>2, <3>2 DEF Wanted
  <2>5. QED
    BY <2>3, <2>4
<1>5. Want' = [Want EXCEPT ![u] = None] /\ Memo' = [Memo EXCEPT ![u] = None]
  BY <1>3, <1>4 DEF Want, Memo
<1>6. QED
  BY <1>5 DEF Requests!Forget, Want, Memo

\* The pipeline only ever answers the newest request for a URI, remembers no
\* answer asked for before an invalidation or a close, and remembers no
\* cancelled or timed-out render, whatever order its critical sections take.
THEOREM PipelineImplementsRequests == Safe => ImplementsRequests
<1>1. Init => Requests!Init
  BY DEF Init, Requests!Init, Wanted, Known
<1>2. PipelineInv /\ [Next]_vars => [Requests!Next]_(Requests!vars)
  <2> SUFFICES ASSUME PipelineInv, [Next]_vars
               PROVE  Requests!Next \/ (Want' = Want /\ Memo' = Memo)
    BY DEF Requests!vars, Want, Memo
  <2>1. ASSUME NEW j \in Job, JobStep(j)
        PROVE  Requests!Next \/ (Want' = Want /\ Memo' = Memo)
    <3>1. CASE ScheduleHit(j) \/ ScheduleArm(j)
      <4> PICK u \in Uri : u = jobs[j].uri
        BY <3>1 DEF PipelineInv, TypeOK, JobState, ScheduleHit, ScheduleArm
      <4> PICK r : r = Request(j)
        OBVIOUS
      <4>1. Requests!Ask(jobs[j].uri, Request(j)) /\ Request(j) \in Requests!Request
        BY <3>1, AskStep
      <4>2. Requests!Ask(u, r) /\ r \in Requests!Request
        BY <4>1
      <4>3. QED
        BY <4>2 DEF Requests!Next
    <3>2. CASE Writeback(j)
      <4> PICK u \in Uri : u = jobs[j].uri
        BY <3>2 DEF PipelineInv, TypeOK, JobState, Writeback
      <4>1. Requests!Answer(jobs[j].uri) \/ Requests!GiveUp(jobs[j].uri)
        BY <3>2, AnswerStep
      <4>2. Requests!Answer(u) \/ Requests!GiveUp(u)
        BY <4>1
      <4>3. QED
        BY <4>2 DEF Requests!Next
    <3>3. QED
      BY <2>1, <3>1, <3>2, InvisibleStep DEF JobStep
  <2>2. CASE Configure
    BY <2>2 DEF Configure, Want, Memo, Wanted, Known
  <2>3. CASE InvalidateAll
    BY <2>3, ForgetAllStep DEF Requests!Next
  <2>4. ASSUME NEW u \in Uri, Cancel(u) PROVE Requests!Next
    BY <2>4, ForgetStep DEF Requests!Next
  <2>5. CASE UNCHANGED vars
    BY <2>5 DEF vars, Want, Memo, Wanted, Known
  <2>6. QED
    BY <2>1, <2>2, <2>3, <2>4, <2>5, InvisibleStep DEF Next
<1>3. QED
  BY <1>1, <1>2, PipelineCorrect, PTL DEF Safe, ImplementsRequests, Requests!Spec
=============================================================================
