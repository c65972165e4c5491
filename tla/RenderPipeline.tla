--------------------------- MODULE RenderPipeline ---------------------------
(***************************************************************************)
(* The render pipeline (internal/render/pipeline.go): Schedule, the render *)
(* goroutine armed by it, InvalidateAll and Cancel, one action per         *)
(* critical section of Pipeline.mu and per step taken outside it.  The     *)
(* registry (internal/render/renderer.go) is the renderer that For would   *)
(* return now.                                                             *)
(*                                                                         *)
(* A job is one call of Schedule together with the goroutine it arms.  Its *)
(* identity is the address of the `pending` struct, so a job slot is only  *)
(* taken again once nothing refers to it.                                  *)
(***************************************************************************)
EXTENDS Naturals, FiniteSets

CONSTANTS
    Uri,        \* URIs of documents
    Text,       \* document contents; the content hash is taken to be exact
    Renderer,   \* renderers the configuration may install
    Job,        \* slots for the calls of Schedule in flight
    None,
    MaxEpoch    \* bound on the number of invalidations

ASSUME NoneAssumption ==
    None \notin Uri /\ None \notin Text /\ None \notin Renderer /\ None \notin Job
ASSUME MaxEpochAssumption == MaxEpoch \in Nat

VARIABLES
    registry,     \* the renderer Registry.For returns, None when none matches
    configuring,  \* applyLayers is between Registry.Configure and InvalidateAll
    pending,      \* Pipeline.pending
    cache,        \* Pipeline.cache; `at` is the epoch its render was scheduled in
    epoch,        \* Pipeline.epoch
    jobs          \* jobs[j]: where job j is, None when the slot is free

vars == <<registry, configuring, pending, cache, epoch, jobs>>

(* scheduling: renderer chosen, Pipeline.mu not yet taken                  *)
(* armed: registered, timer running                                        *)
(* rendering: in Renderer.Render, or back and not yet holding Pipeline.mu  *)
(* reporting: mu released, Sink.Notify not yet begun                       *)
Phase == {"scheduling", "armed", "rendering", "reporting"}

\* nil, an error about the document, context.Canceled or DeadlineExceeded.
Err == {"none", "failed", "context"}

JobState == [phase : Phase, uri : Uri, text : Text, by : Renderer,
             epoch : 0..MaxEpoch, err : Err]
CacheEntry == [text : Text, by : Renderer, err : Err, at : 0..MaxEpoch]

ASSUME RecordAssumption ==
    /\ None \notin JobState /\ None \notin CacheEntry
    /\ None \notin [text : Text, by : Renderer]
    /\ None \notin [text : Text, by : Renderer, err : Err]

Init ==
    /\ registry \in Renderer
    /\ configuring = FALSE
    /\ pending = [u \in Uri |-> None]
    /\ cache = [u \in Uri |-> None]
    /\ epoch = 0
    /\ jobs = [j \in Job |-> None]

-----------------------------------------------------------------------------
\* isContextErr
IsContextErr(e) == e = "context"

\* The record of job j once it has moved on.
Moved(j, phase, at, e) ==
    [phase |-> phase, uri |-> jobs[j].uri, text |-> jobs[j].text, by |-> jobs[j].by,
     epoch |-> at, err |-> e]

\* A slot nothing refers to: no goroutine runs in it, pending does not name it.
Unused(j) == jobs[j] = None /\ \A u \in Uri : pending[u] # j

\* The cached result for this text, as both Schedule and Latest look it up.
Hit(u, t) == cache[u] # None /\ cache[u].text = t

\* Mutant of Superseded: the timer is not stopped.
TimerRunsOn(u) == jobs

\* cancelPendingLocked: Stop keeps an armed timer from ever firing; past that
\* the goroutine runs on, with its context cancelled.
Superseded(u) ==
    [j \in Job |-> IF j = pending[u] /\ jobs[j] # None /\ jobs[j].phase = "armed"
                   THEN None ELSE jobs[j]]

-----------------------------------------------------------------------------
\* Mutant of Schedule: For's answer is not checked.
ScheduleUnmatched(j, u, t) ==
    /\ Unused(j)
    /\ jobs' = [jobs EXCEPT ![j] = [phase |-> "scheduling", uri |-> u, text |-> t,
                                    by |-> registry, epoch |-> epoch, err |-> "none"]]
    /\ UNCHANGED <<registry, configuring, pending, cache, epoch>>

\* Schedule up to p.mu.Lock: ask the registry, hash the text.  Nothing at all
\* happens when no renderer matches.
Schedule(j, u, t) ==
    /\ Unused(j)
    /\ registry # None
    /\ jobs' = [jobs EXCEPT ![j] = [phase |-> "scheduling", uri |-> u, text |-> t,
                                    by |-> registry, epoch |-> epoch, err |-> "none"]]
    /\ UNCHANGED <<registry, configuring, pending, cache, epoch>>

\* Schedule under p.mu when the cache holds a result for this very text: the
\* calling goroutine goes on to Sink.Notify itself.
ScheduleHit(j) ==
    /\ jobs[j] # None /\ jobs[j].phase = "scheduling"
    /\ LET u == jobs[j].uri IN
          /\ Hit(u, jobs[j].text)
          /\ jobs' = [Superseded(u) EXCEPT
                ![j] = Moved(j, "reporting", jobs[j].epoch, cache[u].err)]
          /\ pending' = [pending EXCEPT ![u] = None]
    /\ UNCHANGED <<registry, configuring, cache, epoch>>

\* Schedule under p.mu otherwise: supersede, capture the epoch, arm the timer
\* and register the render, all before p.mu is released.
ScheduleArm(j) ==
    /\ jobs[j] # None /\ jobs[j].phase = "scheduling"
    /\ LET u == jobs[j].uri IN
          /\ ~Hit(u, jobs[j].text)
          /\ jobs' = [Superseded(u) EXCEPT ![j] = Moved(j, "armed", epoch, "none")]
          /\ pending' = [pending EXCEPT ![u] = j]
    /\ UNCHANGED <<registry, configuring, cache, epoch>>

\* The debounce timer fires and the goroutine enters Renderer.Render.
Fire(j) ==
    /\ jobs[j] # None /\ jobs[j].phase = "armed"
    /\ jobs' = [jobs EXCEPT ![j].phase = "rendering"]
    /\ UNCHANGED <<registry, configuring, pending, cache, epoch>>

\* Mutants of Outdated: each forgets one of the two conditions.
OutdatedBySupersede(j) == pending[jobs[j].uri] # j
OutdatedByInvalidation(j) == jobs[j].epoch # epoch

\* The writeback's two drop conditions.
Outdated(j) == pending[jobs[j].uri] # j \/ jobs[j].epoch # epoch

\* Render returns and the goroutine takes p.mu: nothing can tell what Render
\* returned, or that it did, any earlier.  An outdated goroutine ends here.  It
\* leaves pending as it is, also when it is the one registered there.
Drop(j) ==
    /\ jobs[j] # None /\ jobs[j].phase = "rendering"
    /\ Outdated(j)
    /\ jobs' = [jobs EXCEPT ![j] = None]
    /\ UNCHANGED <<registry, configuring, pending, cache, epoch>>

\* What the cache holds for the job's URI when its render ended with e.
Remembered(j, e) ==
    IF IsContextErr(e) THEN cache[jobs[j].uri]
    ELSE [text |-> jobs[j].text, by |-> jobs[j].by, err |-> e, at |-> jobs[j].epoch]

\* A render may time out at any point, and one whose context was cancelled may
\* have finished before it noticed: any outcome is possible.
Writeback(j) ==
    /\ jobs[j] # None /\ jobs[j].phase = "rendering"
    /\ ~Outdated(j)
    /\ \E e \in Err :
          /\ cache' = [cache EXCEPT ![jobs[j].uri] = Remembered(j, e)]
          /\ jobs' = [jobs EXCEPT ![j] = Moved(j, "reporting", jobs[j].epoch, e)]
    /\ pending' = [pending EXCEPT ![jobs[j].uri] = None]
    /\ UNCHANGED <<registry, configuring, epoch>>

\* The goroutine calls Sink.Notify, no lock held; what the sink does with the
\* result is LanguageServer's.
Report(j) ==
    /\ jobs[j] # None /\ jobs[j].phase = "reporting"
    /\ jobs' = [jobs EXCEPT ![j] = None]
    /\ UNCHANGED <<registry, configuring, pending, cache, epoch>>

-----------------------------------------------------------------------------
(* The message loop's calls.  They run one after another.                  *)

\* applyLayers with a changed renderer configuration, up to its InvalidateAll.
Configure ==
    /\ ~configuring /\ epoch < MaxEpoch
    /\ \E r \in (Renderer \cup {None}) \ {registry} : registry' = r
    /\ configuring' = TRUE
    /\ UNCHANGED <<pending, cache, epoch, jobs>>

\* InvalidateAll: after Configure, or because a watched file changed.
InvalidateAll ==
    /\ epoch < MaxEpoch
    /\ cache' = [u \in Uri |-> None]
    /\ epoch' = epoch + 1
    /\ configuring' = FALSE
    /\ UNCHANGED <<registry, pending, jobs>>

\* Cancel, when the document closes.
Cancel(u) ==
    /\ ~configuring
    /\ jobs' = Superseded(u)
    /\ pending' = [pending EXCEPT ![u] = None]
    /\ cache' = [cache EXCEPT ![u] = None]
    /\ UNCHANGED <<registry, configuring, epoch>>

-----------------------------------------------------------------------------
JobStep(j) ==
    \/ ScheduleHit(j) \/ ScheduleArm(j) \/ Fire(j) \/ Drop(j)
    \/ Writeback(j) \/ Report(j)

Next ==
    \/ \E j \in Job, u \in Uri, t \in Text : Schedule(j, u, t)
    \/ \E j \in Job : JobStep(j)
    \/ Configure
    \/ InvalidateAll
    \/ \E u \in Uri : Cancel(u)

Safe == Init /\ [][Next]_vars

\* Timers fire, goroutines and lock holders are scheduled, and every render
\* returns because its context expires.
Fairness == \A j \in Job : WF_vars(JobStep(j))

Spec == Safe /\ Fairness

-----------------------------------------------------------------------------
\* The state keeps its types: every job is a render by a registered renderer.
TypeOK ==
    /\ registry \in Renderer \cup {None}
    /\ configuring \in BOOLEAN
    /\ pending \in [Uri -> Job \cup {None}]
    /\ cache \in [Uri -> CacheEntry \cup {None}]
    /\ epoch \in 0..MaxEpoch
    /\ jobs \in [Job -> JobState \cup {None}]

Live(j) == jobs[j] # None /\ jobs[j].phase \in {"armed", "rendering"}

\* A render holding the pending entry of a URI is a render of that URI: the
\* supersede and Cancel of one document never stop the render of another.
PendingOwnUri ==
    \A u \in Uri : pending[u] # None /\ jobs[pending[u]] # None =>
        Live(pending[u]) /\ jobs[pending[u]].uri = u

\* A timer that has not fired is the registered render of its URI: none is left
\* running that neither a newer Schedule nor Cancel can stop any more.
NoOrphanTimer ==
    \A j \in Job : jobs[j] # None /\ jobs[j].phase = "armed" =>
        pending[jobs[j].uri] = j

\* pipeline.go:26-29, an in-flight render never repopulates the cache after
\* InvalidateAll: whatever is cached was scheduled after the last one, whichever
\* way schedules, renders, writebacks and invalidations interleave.
CacheSinceInvalidation ==
    \A u \in Uri : cache[u] # None => cache[u].at = epoch

\* pipeline.go:119, a cancelled or timed-out render says nothing about the text
\* and is never what a later Schedule of the same text is answered with.
NoContextErrCached ==
    \A u \in Uri : cache[u] # None => ~IsContextErr(cache[u].err)

\* A job's epoch is one the pipeline has been in: an invalidation outdates every
\* job there is.
EpochsSeen == \A j \in Job : jobs[j] # None => jobs[j].epoch <= epoch

\* The pipeline is what RenderRequests promises: a URI's outstanding request is
\* its registered render, unless an invalidation has written that render off.
Wanted(u) ==
    IF pending[u] # None /\ jobs[pending[u]] # None /\ jobs[pending[u]].epoch = epoch
    THEN [text |-> jobs[pending[u]].text, by |-> jobs[pending[u]].by]
    ELSE None

Known(u) ==
    IF cache[u] = None THEN None
    ELSE [text |-> cache[u].text, by |-> cache[u].by, err |-> cache[u].err]

Requests == INSTANCE RenderRequests WITH
    want <- [u \in Uri |-> Wanted(u)], memo <- [u \in Uri |-> Known(u)]

\* Every step of the pipeline is a step of the abstract specification or
\* invisible to it: results reach the cache for the newest request only.
ImplementsRequests == Requests!Spec

\* server.go:333-338, InvalidateAll follows a changed renderer configuration so
\* that results of the old one are not served any longer.
NoStaleRenderer ==
    ~configuring /\ registry # None =>
        \A u \in Uri : cache[u] # None => cache[u].by = registry
=============================================================================
