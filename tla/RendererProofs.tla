---------------------------- MODULE RendererProofs ---------------------------
(***************************************************************************)
(* Proofs about the two ways of rendering, for any constants: FlateTree,   *)
(* the tree cache of the Flux renderer, and Subprocess, the run of an      *)
(* external tool.                                                          *)
(***************************************************************************)
EXTENDS FlateTree, Subprocess, TLAPS

-----------------------------------------------------------------------------
(* FlateTree, for any number of overlapping Renders, any build roots and    *)
(* any number of changes.  What is proved of freshness rests on what a key  *)
(* says of the calls and of the tree it stands for.                         *)

USE TreeNoneAssumption, MayWatchAssumption, MaxVersionAssumption DEF Version

\* The cached tree and the trees under construction were begun by a Render whose
\* context was live.
Whole ==
    /\ CachedIsWhole
    /\ \A c \in Caller : At(c, "building") => callers[c].live

\* A key is of the counter or of a fingerprint.
Counted(key) == key.fingerprint = None

\* What a caller may at least expect: its fingerprint was taken of what was then on
\* disk, its counter stands for what had then been reported.
Expects(c) ==
    LET key == callers[c].key
        since == callers[c].since IN
    /\ since <= disk[key.root]
    /\ ~Counted(key) => since = key.fingerprint
    /\ Counted(key) => key.gen <= gen
    /\ Counted(key) /\ key.gen = gen => since = told[key.root]
    /\ ~At(c, "waiting") => callers[c].of >= since

\* Callers that look up the same key expect the same, and the tree cached under it
\* shows that.
SameKey ==
    /\ \A c, d \in Caller :
          callers[c] # None /\ callers[d] # None /\ callers[c].key = callers[d].key
            => callers[c].since = callers[d].since
    /\ cached # None => \A c \in Caller :
          callers[c] # None /\ callers[c].key = cached.key => cached.of >= callers[c].since

\* The cached tree shows what its key stands for.
CachedShows ==
    cached # None =>
        /\ ~Counted(cached.key) => cached.of >= cached.key.fingerprint
        /\ Counted(cached.key) => cached.key.gen <= gen
        /\ Counted(cached.key) /\ cached.key.gen = gen => cached.of >= told[cached.key.root]

Fresh ==
    /\ \A r \in Root : told[r] <= disk[r]
    /\ \A c \in Caller : callers[c] # None => Expects(c)
    /\ SameKey
    /\ CachedShows

-----------------------------------------------------------------------------
\* A caller that goes on is a caller in the phase it goes to.
LEMMA GoesType ==
    ASSUME TreeTypeOK, NEW c \in Caller, callers[c] # None, NEW phase \in Phase,
           NEW of \in Version, NEW live \in BOOLEAN, Goes(c, phase, of, live)
    PROVE  /\ callers' \in [Caller -> CallerState \cup {None}]
           /\ callers'[c] # None
           /\ callers'[c] = [phase |-> phase, key |-> callers[c].key,
                             since |-> callers[c].since, of |-> of, live |-> live]
           /\ \A d \in Caller \ {c} : callers'[d] = callers[d]
<1> DEFINE new == [phase |-> phase, key |-> callers[c].key,
                   since |-> callers[c].since, of |-> of, live |-> live]
<1>1. new \in CallerState BY DEF TreeTypeOK, CallerState
<1> QED BY <1>1 DEF TreeTypeOK, Goes

\* The types survive every step.
LEMMA TreeTypeStep == TreeTypeOK /\ [TreeNext]_treeVars => TreeTypeOK'
<1> SUFFICES ASSUME TreeTypeOK, [TreeNext]_treeVars PROVE TreeTypeOK'
  OBVIOUS
<1>1. ASSUME NEW c \in Caller, Key(c) PROVE TreeTypeOK'
  <2> DEFINE key == IF eventDriven THEN KeyOf(root, None, gen)
                    ELSE KeyOf(root, disk[root], 0)
             new == [phase |-> "waiting", key |-> key,
                     since |-> IF eventDriven THEN told[root] ELSE disk[root],
                     of |-> 0, live |-> FALSE]
  <2>1. key \in CacheKey BY DEF TreeTypeOK, CacheKey, KeyOf
  <2>2. new \in CallerState BY <2>1 DEF TreeTypeOK, CallerState, Phase
  <2> QED BY <1>1, <2>2 DEF Key, TreeTypeOK
<1>2. ASSUME NEW c \in Caller, UseCached(c) PROVE TreeTypeOK'
  <2>1. callers[c] # None /\ cached \in CacheEntry
    BY <1>2 DEF UseCached, At, Hit, TreeTypeOK
  <2>2. callers' \in [Caller -> CallerState \cup {None}]
    <3>1. CASE Goes(c, "using", cached.of, FALSE)
      BY <3>1, <2>1, GoesType DEF CacheEntry, Phase
    <3>2. CASE callers' = [callers EXCEPT ![c] = None] BY <3>2 DEF TreeTypeOK
    <3> QED BY <1>2, <3>1, <3>2 DEF UseCached
  <2> QED BY <1>2, <2>2 DEF UseCached, TreeTypeOK
<1>3. ASSUME NEW c \in Caller, GiveUp(c) \/ Return(c) PROVE TreeTypeOK'
  BY <1>3 DEF GiveUp, Return, TreeTypeOK
<1>4. ASSUME NEW c \in Caller, Build(c) PROVE TreeTypeOK'
  <2>1. callers[c] # None /\ disk[callers[c].key.root] \in Version
    BY <1>4 DEF Build, At, TreeTypeOK, CallerState, CacheKey
  <2>2. callers' \in [Caller -> CallerState \cup {None}]
    BY <1>4, <2>1, GoesType DEF Build, Phase
  <2> QED BY <1>4, <2>2 DEF Build, TreeTypeOK
<1>5. ASSUME NEW c \in Caller, Built(c) PROVE TreeTypeOK'
  <2>1. PICK e \in {"none", "failed"} :
          /\ cached' = Outcome(c, e)
          /\ IF ctx[c] = "live" /\ e = "none" THEN Goes(c, "using", callers[c].of, FALSE)
             ELSE callers' = [callers EXCEPT ![c] = None]
    BY <1>5 DEF Built
  <2>2. callers[c] \in CallerState /\ callers[c] # None
    BY <1>5 DEF Built, At, TreeTypeOK
  <2>3. cached' \in CacheEntry \cup {None}
    BY <2>1, <2>2 DEF Outcome, TreeTypeOK, CallerState, CacheEntry
  <2>4. callers' \in [Caller -> CallerState \cup {None}]
    <3>1. CASE Goes(c, "using", callers[c].of, FALSE)
      BY <3>1, <2>2, GoesType DEF CallerState, Phase
    <3>2. CASE callers' = [callers EXCEPT ![c] = None] BY <3>2 DEF TreeTypeOK
    <3> QED BY <2>1, <3>1, <3>2
  <2> QED BY <1>5, <2>3, <2>4 DEF Built, TreeTypeOK
<1>6. ASSUME NEW c \in Caller, CallContextEnds(c) PROVE TreeTypeOK'
  BY <1>6 DEF CallContextEnds, TreeTypeOK
<1>7. ASSUME NEW r \in Root, Change(r) PROVE TreeTypeOK'
  BY <1>7 DEF Change, TreeTypeOK
<1>8. ASSUME NEW r \in Root, InvalidateTree(r) PROVE TreeTypeOK'
  BY <1>8 DEF InvalidateTree, TreeTypeOK
<1>9. CASE SetFileWatchActive BY <1>9 DEF SetFileWatchActive, TreeTypeOK
<1>10. CASE SetRoot BY <1>10 DEF SetRoot, TreeTypeOK
<1>11. CASE UNCHANGED treeVars BY <1>11 DEF treeVars, TreeTypeOK
<1> QED
  BY <1>1, <1>2, <1>3, <1>4, <1>5, <1>6, <1>7, <1>8, <1>9, <1>10, <1>11 DEF TreeNext

\* The types of the tree cache are kept for any callers and roots.
THEOREM TreeTypeCorrect == TreeSpec => []TreeTypeOK
<1>1. ASSUME TreeInit PROVE TreeTypeOK
  <2>1. disk \in [Root -> Version] /\ told \in [Root -> Version] BY <1>1 DEF TreeInit
  <2>2. gen \in Nat /\ eventDriven \in BOOLEAN BY <1>1 DEF TreeInit
  <2>3. callers \in [Caller -> CallerState \cup {None}] BY <1>1 DEF TreeInit
  <2> QED BY <1>1, <2>1, <2>2, <2>3 DEF TreeInit, TreeTypeOK
<1>2. TreeTypeOK /\ [TreeNext]_treeVars => TreeTypeOK' BY TreeTypeStep
<1> QED BY <1>1, <1>2, PTL DEF TreeSpec

-----------------------------------------------------------------------------
\* No step caches a tree whose Render was not live when it began to build it.
LEMMA WholeStep == TreeTypeOK /\ Whole /\ [TreeNext]_treeVars => Whole'
<1> SUFFICES ASSUME TreeTypeOK, Whole, [TreeNext]_treeVars PROVE Whole'
  OBVIOUS
<1> USE DEF Whole, CachedIsWhole, At
<1>1. ASSUME NEW c \in Caller, Key(c) PROVE Whole'
  BY <1>1 DEF Key, TreeTypeOK
<1>2. ASSUME NEW c \in Caller, UseCached(c) PROVE Whole'
  BY <1>2 DEF UseCached, Goes, TreeTypeOK
<1>3. ASSUME NEW c \in Caller, GiveUp(c) \/ Return(c) PROVE Whole'
  BY <1>3 DEF GiveUp, Return, TreeTypeOK
<1>4. ASSUME NEW c \in Caller, Build(c) PROVE Whole'
  BY <1>4 DEF Build, Goes, GivesUp, TreeTypeOK
<1>5. ASSUME NEW c \in Caller, Built(c) PROVE Whole'
  <2>1. callers[c].live BY <1>5 DEF Built
  <2>2. CachedIsWhole' BY <1>5, <2>1 DEF Built, Outcome, TreeTypeOK
  <2>3. \A d \in Caller : At(d, "building")' => callers'[d].live
    BY <1>5 DEF Built, Goes, TreeTypeOK
  <2> QED BY <2>2, <2>3
<1>6. ASSUME NEW c \in Caller, CallContextEnds(c) PROVE Whole'
  BY <1>6 DEF CallContextEnds
<1>7. CASE \E r \in Root : Change(r) \/ InvalidateTree(r)
  BY <1>7 DEF Change, InvalidateTree
<1>8. CASE SetFileWatchActive \/ SetRoot BY <1>8 DEF SetFileWatchActive, SetRoot
<1>9. CASE UNCHANGED treeVars BY <1>9 DEF treeVars
<1> QED BY <1>1, <1>2, <1>3, <1>4, <1>5, <1>6, <1>7, <1>8, <1>9 DEF TreeNext

\* flate.go:240-257, the deadline of a waiter and an interrupted build are never held
\* against the tree, whoever builds and whoever waits.
THEOREM TreeIsWhole == TreeSpec => []CachedIsWhole
<1>1. TreeInit => Whole BY DEF TreeInit, Whole, CachedIsWhole, At
<1>2. TreeTypeOK /\ Whole /\ [TreeNext]_treeVars => Whole' BY WholeStep
<1>3. Whole => CachedIsWhole BY DEF Whole
<1> QED BY <1>1, <1>2, <1>3, TreeTypeCorrect, PTL DEF TreeSpec

-----------------------------------------------------------------------------
\* A Render takes its key and what it may expect in one step: what others hold under
\* the same key is what it expects.
LEMMA KeyFresh ==
    ASSUME TreeTypeOK, Fresh, NEW c \in Caller, Key(c)
    PROVE  Fresh'
<1> DEFINE key == IF eventDriven THEN KeyOf(root, None, gen)
                  ELSE KeyOf(root, disk[root], 0)
           since == IF eventDriven THEN told[root] ELSE disk[root]
<1>1. /\ callers'[c] # None /\ callers'[c].key = key /\ callers'[c].since = since
      /\ callers'[c].phase = "waiting"
      /\ \A d \in Caller \ {c} : callers'[d] = callers[d]
      /\ callers[c] = None
  <2> DEFINE new == [phase |-> "waiting", key |-> key, since |-> since,
                     of |-> 0, live |-> FALSE]
  <2>1. key \in CacheKey BY DEF TreeTypeOK, CacheKey, KeyOf
  <2>2. new \in CallerState BY <2>1 DEF TreeTypeOK, CallerState, Phase
  <2> QED BY <2>2 DEF Key, TreeTypeOK
<1>2. UNCHANGED <<disk, told, gen, cached>> BY DEF Key
<1>3. /\ key.root = root /\ root \in Root
      /\ eventDriven => Counted(key) /\ key.gen = gen /\ since = told[root]
      /\ ~eventDriven => ~Counted(key) /\ since = disk[root] /\ key.fingerprint = disk[root]
  BY DEF TreeTypeOK, KeyOf, Counted
<1>4. Expects(c)'
  BY <1>1, <1>2, <1>3 DEF Expects, Fresh, TreeTypeOK, At, Counted
<1>5. \A d \in Caller : callers'[d] # None => Expects(d)'
  <2> SUFFICES ASSUME NEW d \in Caller \ {c}, callers'[d] # None PROVE Expects(d)'
    BY <1>4
  <2> QED BY <1>1, <1>2 DEF Fresh, Expects, At
<1>6. ASSUME NEW d \in Caller, callers[d] # None, callers[d].key = key
      PROVE  callers[d].since = since
  BY <1>3, <1>6 DEF Fresh, Expects, Counted
<1>7. cached # None /\ cached.key = key => cached.of >= since
  BY <1>3 DEF Fresh, CachedShows, Counted
<1>8. SameKey'
  BY <1>1, <1>2, <1>6, <1>7 DEF Fresh, SameKey
<1>9. CachedShows' BY <1>2 DEF Fresh, CachedShows
<1> QED BY <1>2, <1>5, <1>8, <1>9 DEF Fresh

\* What holds of all callers holds when one of them goes on to show enough.
LEMMA GoesFresh ==
    ASSUME TreeTypeOK, Fresh, NEW c \in Caller, callers[c] # None, NEW phase \in Phase,
           NEW of \in Version, NEW live \in BOOLEAN, Goes(c, phase, of, live),
           UNCHANGED <<disk, told, gen>>, phase # "waiting" => of >= callers[c].since
    PROVE  /\ \A d \in Caller : callers'[d] # None =>
                 /\ Expects(d)'
                 /\ callers[d] # None
                 /\ callers'[d].key = callers[d].key /\ callers'[d].since = callers[d].since
<1>1. \A d \in Caller : callers'[d] # None =>
         /\ callers[d] # None
         /\ callers'[d].key = callers[d].key /\ callers'[d].since = callers[d].since
         /\ callers'[d].phase # "waiting" => callers'[d].of >= callers'[d].since
  <2>1. /\ callers'[c] = [phase |-> phase, key |-> callers[c].key,
                         since |-> callers[c].since, of |-> of, live |-> live]
        /\ \A d \in Caller \ {c} : callers'[d] = callers[d]
    BY GoesType
  <2> QED BY <2>1 DEF Fresh, Expects, At
<1>2. ASSUME NEW d \in Caller, callers'[d] # None PROVE Expects(d)'
  BY <1>1, <1>2 DEF Fresh, Expects, At
<1> QED BY <1>1, <1>2

\* A caller that ends leaves the others as they were.
LEMMA EndsFresh ==
    ASSUME TreeTypeOK, Fresh, NEW c \in Caller, callers' = [callers EXCEPT ![c] = None],
           UNCHANGED <<disk, told, gen>>
    PROVE  /\ \A d \in Caller : callers'[d] # None =>
                 /\ Expects(d)'
                 /\ callers[d] # None
                 /\ callers'[d].key = callers[d].key /\ callers'[d].since = callers[d].since
<1>1. \A d \in Caller : callers'[d] # None => callers[d] # None /\ callers'[d] = callers[d]
  BY DEF TreeTypeOK
<1>2. ASSUME NEW d \in Caller, callers'[d] # None PROVE Expects(d)'
  BY <1>1, <1>2 DEF Fresh, Expects, At
<1> QED BY <1>1, <1>2

\* The end of a build caches a tree that shows what every caller of its key expects.
LEMMA BuiltFresh ==
    ASSUME TreeTypeOK, Fresh, NEW c \in Caller, Built(c)
    PROVE  Fresh'
<1>1. PICK e \in {"none", "failed"} :
        /\ cached' = Outcome(c, e)
        /\ IF ctx[c] = "live" /\ e = "none" THEN Goes(c, "using", callers[c].of, FALSE)
           ELSE callers' = [callers EXCEPT ![c] = None]
  BY DEF Built
<1>2. /\ callers[c] # None /\ callers[c] \in CallerState /\ callers[c].phase = "building"
      /\ UNCHANGED <<disk, told, gen>>
  BY DEF Built, At, TreeTypeOK
<1>3. callers[c].of >= callers[c].since
  BY <1>2 DEF Fresh, Expects, At
<1>4. \A d \in Caller : callers'[d] # None =>
         /\ Expects(d)'
         /\ callers[d] # None
         /\ callers'[d].key = callers[d].key /\ callers'[d].since = callers[d].since
  <2>1. CASE Goes(c, "using", callers[c].of, FALSE)
    BY <2>1, <1>2, <1>3, GoesFresh DEF CallerState, Phase
  <2>2. CASE callers' = [callers EXCEPT ![c] = None] BY <2>2, <1>2, EndsFresh
  <2> QED BY <1>1, <2>1, <2>2
<1>5. \/ cached' = cached
      \/ cached' # None /\ cached'.key = callers[c].key /\ cached'.of = callers[c].of
  <2> DEFINE entry(err, complete) == [key |-> callers[c].key, of |-> callers[c].of,
                                      err |-> err, complete |-> complete,
                                      live |-> callers[c].live]
  <2>1. entry(e, TRUE) \in CacheEntry /\ entry("timeout", FALSE) \in CacheEntry
    BY <1>2 DEF CacheEntry, CallerState
  <2>2. cached' \in {cached, entry(e, TRUE), entry("timeout", FALSE)}
    BY <1>1 DEF Outcome, TreeTypeOK
  <2>3. ASSUME NEW err, NEW complete, entry(err, complete) \in CacheEntry,
               cached' = entry(err, complete)
        PROVE  /\ cached' # None
               /\ cached'.key = callers[c].key /\ cached'.of = callers[c].of
    <3>1. cached' \in CacheEntry BY <2>3
    <3>2. cached' # None BY <3>1
    <3> QED BY <2>3, <3>2
  <2> HIDE DEF entry
  <2> QED BY <2>1, <2>2, <2>3
<1>6. SameKey'
  BY <1>2, <1>3, <1>4, <1>5 DEF Fresh, SameKey
<1>7. CachedShows'
  <2>1. CASE cached' = cached BY <2>1, <1>2 DEF Fresh, CachedShows
  <2>2. CASE cached' # None /\ cached'.key = callers[c].key /\ cached'.of = callers[c].of
    <3>1. Expects(c) BY <1>2 DEF Fresh
    <3> QED BY <2>2, <3>1, <1>2, <1>3 DEF Expects, CachedShows
  <2> QED BY <1>5, <2>1, <2>2
<1> QED BY <1>2, <1>4, <1>6, <1>7 DEF Fresh

\* No step makes a tree older than what its callers may expect.
LEMMA FreshStep == TreeTypeOK /\ Fresh /\ [TreeNext]_treeVars => Fresh'
<1> SUFFICES ASSUME TreeTypeOK, Fresh, [TreeNext]_treeVars PROVE Fresh'
  OBVIOUS
<1>1. ASSUME NEW c \in Caller, Key(c) PROVE Fresh'
  BY <1>1, KeyFresh
<1>2. ASSUME NEW c \in Caller, UNCHANGED <<disk, told, gen, cached>>,
             \A d \in Caller : callers'[d] # None =>
                 /\ Expects(d)'
                 /\ callers[d] # None
                 /\ callers'[d].key = callers[d].key /\ callers'[d].since = callers[d].since
      PROVE  Fresh'
  BY <1>2 DEF Fresh, SameKey, CachedShows
<1>3. ASSUME NEW c \in Caller, UseCached(c) PROVE Fresh'
  <2>1. /\ callers[c] # None /\ cached \in CacheEntry /\ cached # None
        /\ callers[c].key = cached.key
    BY <1>3 DEF UseCached, At, Hit, TreeTypeOK
  <2>2. cached.of >= callers[c].since BY <2>1 DEF Fresh, SameKey
  <2>3. CASE Goes(c, "using", cached.of, FALSE)
    BY <1>2, <1>3, <2>1, <2>2, <2>3, GoesFresh DEF CacheEntry, Phase, UseCached
  <2>4. CASE callers' = [callers EXCEPT ![c] = None]
    BY <1>2, <1>3, <2>4, EndsFresh DEF UseCached
  <2> QED BY <1>3, <2>3, <2>4 DEF UseCached
<1>4. ASSUME NEW c \in Caller, GiveUp(c) \/ Return(c) PROVE Fresh'
  BY <1>2, <1>4, EndsFresh DEF GiveUp, Return
<1>5. ASSUME NEW c \in Caller, Build(c) PROVE Fresh'
  <2>1. callers[c] # None /\ callers[c].since <= disk[callers[c].key.root]
    BY <1>5 DEF Build, At, Fresh, Expects
  <2>2. disk[callers[c].key.root] \in Version /\ callers[c].since \in Version
    BY <2>1 DEF TreeTypeOK, CallerState, CacheKey
  <2> QED BY <1>2, <1>5, <2>1, <2>2, GoesFresh DEF Build, Phase
<1>6. ASSUME NEW c \in Caller, Built(c) PROVE Fresh'
  BY <1>6, BuiltFresh
<1>7. ASSUME NEW r \in Root, Change(r) PROVE Fresh'
  <2>1. UNCHANGED <<told, gen, cached, callers>> /\ \A s \in Root : disk[s] <= disk'[s]
    BY <1>7 DEF Change, TreeTypeOK
  <2>2. \A s \in Root : told'[s] <= disk'[s] BY <1>7 DEF Change, TreeTypeOK, Fresh
  <2>3. ASSUME NEW d \in Caller, callers[d] # None PROVE Expects(d)'
    <3>1. callers[d].key.root \in Root /\ callers[d].since \in Version
      BY <2>3 DEF TreeTypeOK, CallerState, CacheKey
    <3>2. disk' \in [Root -> Version] BY <1>7 DEF Change, TreeTypeOK
    <3> QED BY <2>1, <2>3, <3>1, <3>2 DEF Fresh, Expects, At, TreeTypeOK
  <2> QED BY <2>1, <2>2, <2>3 DEF Fresh, SameKey, CachedShows
<1>8. ASSUME NEW r \in Root, InvalidateTree(r) PROVE Fresh'
  <2>1. UNCHANGED <<disk, cached, callers>> /\ gen' = gen + 1 /\ gen \in Nat
    BY <1>8 DEF InvalidateTree, TreeTypeOK
  <2>2. \A s \in Root : told'[s] <= disk'[s] BY <1>8 DEF InvalidateTree, TreeTypeOK, Fresh
  <2>3. ASSUME NEW d \in Caller, callers[d] # None PROVE Expects(d)'
    <3>1. callers[d].key.gen \in Nat BY <2>3 DEF TreeTypeOK, CallerState, CacheKey
    <3> QED BY <2>1, <2>3, <3>1 DEF Fresh, Expects, At, Counted
  <2>4. cached # None => cached.key.gen \in Nat BY DEF TreeTypeOK, CacheEntry, CacheKey
  <2> QED BY <2>1, <2>2, <2>3, <2>4 DEF Fresh, SameKey, CachedShows
<1>9. CASE SetFileWatchActive \/ SetRoot \/ (\E c \in Caller : CallContextEnds(c)) \/ UNCHANGED treeVars
  <2>1. UNCHANGED <<disk, told, gen, cached, callers>>
    BY <1>9 DEF SetFileWatchActive, SetRoot, CallContextEnds, treeVars
  <2> QED BY <2>1 DEF Fresh, Expects, SameKey, CachedShows, At
<1> QED BY <1>1, <1>3, <1>4, <1>5, <1>6, <1>7, <1>8, <1>9 DEF TreeNext

\* flate.go:213-216, a Render never uses a tree older than the change it could have
\* known about when it began, for any callers, roots and changes.  With file watching a
\* change is known by its notification, if it came while its root was the build root:
\* flate.go:95 ignores one under any other root.
THEOREM TreeIsFresh == TreeSpec => []FreshTree
<1>1. ASSUME TreeInit PROVE Fresh
  BY <1>1 DEF TreeInit, Fresh, SameKey, CachedShows
<1>2. TreeTypeOK /\ Fresh /\ [TreeNext]_treeVars => Fresh' BY FreshStep
<1>3. Fresh => FreshTree
  BY DEF Fresh, FreshTree, Expects, At
<1> QED BY <1>1, <1>2, <1>3, TreeTypeCorrect, PTL DEF TreeSpec

HIDE DEF Version

-----------------------------------------------------------------------------
(* Subprocess, for any output limits, any pipe size and any amount of       *)
(* output.  Stage ties what Render has come to to the state of the tool,    *)
(* Output what was written to what was kept of it, and Killed the end of    *)
(* the tool to the end of its context.                                      *)

USE NoneAssumption, LimitAssumption
USE DEF Stream, Child, Exited, Helper, Watcher, Copier, RunErr, Result

\* What Render waits for is over at the point where it goes on.
Stage ==
    /\ run = "start" => child = None /\ exit = None /\ \A s \in Stream : copier[s] = None
    /\ run \in {"wait", "drain"} => \A s \in Stream : copier[s] # "closed"
    /\ run \in {"wait", "drain", "classify"} => child # None /\ \A s \in Stream : copier[s] # None
    /\ run \in {"drain", "classify"} => child = "reaped"
    /\ result \in {"tooLarge", "failed", "ok", "unparsable"} => child = "reaped"
    /\ run \in {"drain", "classify"} /\ waitErr = None => exit = "ok"
    /\ run = "classify" /\ runErr = None =>
          /\ waitErr = None
          /\ copier["stdout"] = "eof"
    /\ run # "returned" => result = None

\* Of stdout nothing is lost before the limit, and its end is read only when all
\* before it has been.
Output ==
    /\ copier["stdout"] # "over" => written["stdout"] = buf["stdout"] + piped["stdout"]
    /\ copier["stdout"] = "eof" => piped["stdout"] = 0

\* The tool is killed only for the end of the context or for its own output.
Killed ==
    /\ exit = "killed" => ContextDone
    /\ watcher = "cancelled" => ContextDone

\* What Render returned is still true.
Returned == NoTruncatedOutput /\ ErrorIsHonest /\
    (result \in {"ok", "unparsable"} => copier["stdout"] = "eof")

Inv == TypeOK /\ Stage /\ Output /\ Killed /\ Returned

-----------------------------------------------------------------------------
\* The types survive every step: the buffers keep within their limits.
LEMMA TypeStep == TypeOK /\ [Next]_vars => TypeOK'
<1> SUFFICES ASSUME TypeOK, [Next]_vars PROVE TypeOK'
  OBVIOUS
<1> USE DEF TypeOK, processes, streams
<1>0. \A s \in Stream : Limit[s] \in Nat BY DEF Limit
<1>1. CASE NotRun BY <1>1 DEF NotRun, Returns
<1>2. CASE Start
  <2>1. copier' \in [Stream -> Copier \cup {None}] BY <1>2 DEF Start
  <2> QED BY <1>2, <2>1 DEF Start, Returns
<1>3. CASE Reap BY <1>3 DEF Reap
<1>4. CASE Drained BY <1>4 DEF Drained
<1>5. CASE DelayExpires
  <2>1. copier' \in [Stream -> Copier \cup {None}] BY <1>5 DEF DelayExpires
  <2> QED BY <1>5, <2>1 DEF DelayExpires
<1>6. CASE Classify
  <2>1. Outcomes \subseteq Result BY DEF Outcomes
  <2> QED BY <1>6, <2>1 DEF Classify, Returns
<1>7. CASE ContextEnds
  <2>1. ended' \in BOOLEAN BY <1>7 DEF ContextEnds
  <2> QED BY <1>7, <2>1 DEF ContextEnds
<1>8. CASE Cancel
  <2>1. holds' \in BOOLEAN BY <1>8 DEF Cancel
  <2>2. helper' \in Helper \cup {None} /\ child' \in Child \cup {None}
        /\ exit' \in Exited \cup {None} /\ watcher' \in Watcher \cup {None}
    BY <1>8 DEF Cancel
  <2>3. UNCHANGED <<run, ended, streams, waitErr, runErr, result>> BY <1>8 DEF Cancel
  <2> QED BY <2>1, <2>2, <2>3
<1>9. ASSUME NEW s \in Stream, Copy(s) PROVE TypeOK'
  <2>1. PICK n \in 1..piped[s] :
          /\ piped' = [piped EXCEPT ![s] = @ - n]
          /\ IF Fits(s, n)
             THEN /\ buf' = [buf EXCEPT ![s] = @ + n]
                  /\ UNCHANGED copier
             ELSE /\ buf' = [buf EXCEPT ![s] = Limit[s]]
                  /\ IF s = "stdout"
                     THEN copier' = [copier EXCEPT ![s] = "over"]
                     ELSE UNCHANGED copier
    BY <1>9 DEF Copy
  <2>2. piped' \in [Stream -> 0..PipeSize] BY <2>1
  <2>3. buf' \in [Stream -> Nat] /\ \A t \in Stream : buf'[t] <= Limit[t]
    BY <1>0, <2>1 DEF Fits
  <2>4. copier' \in [Stream -> Copier \cup {None}] BY <2>1
  <2> QED BY <1>9, <2>2, <2>3, <2>4 DEF Copy
<1>10. ASSUME NEW s \in Stream, EndOfFile(s) PROVE TypeOK'
  BY <1>10 DEF EndOfFile
<1>11. ASSUME NEW s \in Stream, Write(s) PROVE TypeOK'
  <2>1. written' \in [Stream -> 0..MaxWritten] BY <1>11 DEF Write
  <2>2. piped' \in [Stream -> 0..PipeSize] BY <1>11 DEF Write
  <2> QED BY <1>11, <2>1, <2>2 DEF Write
<1>12. CASE Spawn \/ Release \/ HelperEnds
  <2>1. holds' \in BOOLEAN BY <1>12 DEF Spawn, Release, HelperEnds
  <2>2. helper' \in Helper \cup {None} BY <1>12 DEF Spawn, Release, HelperEnds
  <2>3. UNCHANGED <<run, ended, child, exit, watcher, streams, waitErr, runErr, result>>
    BY <1>12 DEF Spawn, Release, HelperEnds
  <2> QED BY <2>1, <2>2, <2>3
<1>13. CASE Exit BY <1>13 DEF Exit
<1>14. CASE UNCHANGED vars BY <1>14 DEF vars
<1> QED
  BY <1>1, <1>2, <1>3, <1>4, <1>5, <1>6, <1>7, <1>8, <1>9, <1>10, <1>11, <1>12, <1>13,
     <1>14 DEF Next, Main, Process

\* A render of a tool starts with nothing written.
LEMMA InitInv == Init => Inv
<1> SUFFICES ASSUME Init PROVE Inv
  OBVIOUS
<1>1. TypeOK
  <2>1. /\ written \in [Stream -> 0..MaxWritten] /\ piped \in [Stream -> 0..PipeSize]
        /\ buf \in [Stream -> Nat] /\ \A s \in Stream : buf[s] <= Limit[s]
        /\ copier \in [Stream -> Copier \cup {None}]
    BY DEF Init, Limit
  <2> QED BY <2>1 DEF Init, TypeOK
<1>2. Stage /\ Output /\ Killed /\ Returned
  BY DEF Init, Stage, Output, Killed, Returned, NoTruncatedOutput, ErrorIsHonest
<1> QED BY <1>1, <1>2 DEF Inv

\* The part of Render that runs on its own goroutine.
LEMMA MainStep == Inv /\ Main => Inv'
<1> SUFFICES ASSUME Inv, Main PROVE Inv'
  OBVIOUS
<1>0. TypeOK' BY TypeStep DEF Inv, Next
<1> USE DEF Inv, TypeOK, Stage, Output, Killed, Returned, NoTruncatedOutput, ErrorIsHonest,
            ContextDone, Over, Returns, processes, streams
<1>1. CASE NotRun
  <2>1. PICK r \in {"empty", "unavailable"} : Returns(r) BY <1>1 DEF NotRun
  <2> QED BY <1>0, <1>1, <2>1 DEF NotRun
<1>2. CASE Start
  <2>1. CASE ended BY <1>0, <1>2, <2>1 DEF Start
  <2>2. CASE ~ended
    <3>1. /\ run = "start" /\ run' = "wait" /\ child' = "running" /\ watcher' = "watching"
          /\ copier' = [s \in Stream |-> "copying"]
          /\ UNCHANGED <<ended, exit, helper, holds, written, piped, buf, waitErr, runErr, result>>
      BY <1>2, <2>2 DEF Start
    <3>2. Stage'
      <4>1. \A s \in Stream : copier'[s] = "copying" BY <3>1
      <4>2. result' = None BY <3>1
      <4> QED BY <3>1, <4>1, <4>2
    <3>3. Output' BY <1>2, <3>1 DEF Start
    <3>4. Killed' BY <3>1
    <3>5. Returned' BY <1>2, <3>1 DEF Start
    <3> QED BY <1>0, <3>2, <3>3, <3>4, <3>5
  <2> QED BY <2>1, <2>2
<1>3. CASE Reap
  <2>1. waitErr' = None => exit = "ok" BY <1>3 DEF Reap
  <2> QED BY <1>0, <1>3, <2>1 DEF Reap
<1>4. CASE Drained
  <2>1. runErr' = None => waitErr = None /\ ~Over BY <1>4 DEF Drained
  <2>2. /\ run = "drain" /\ run' = "classify" /\ copier["stdout"] # "copying"
        /\ UNCHANGED <<ended, processes, watcher, streams, waitErr, result>>
    BY <1>4 DEF Drained
  <2>3. copier["stdout"] # "closed" BY <2>2
  <2> QED BY <1>0, <2>1, <2>2, <2>3
<1>5. CASE DelayExpires BY <1>0, <1>5 DEF DelayExpires
<1>6. CASE Classify
  <2>1. PICK r \in Outcomes : Returns(r) BY <1>6 DEF Classify
  <2>2. /\ r \in {"ok", "unparsable"} => ~Over /\ runErr = None
        /\ r = "failed" => ~ContextDone
        /\ r = "contextErr" => ContextDone /\ ~Over
    BY <2>1 DEF Outcomes
  <2> QED BY <1>0, <1>6, <2>1, <2>2 DEF Classify
<1> QED BY <1>1, <1>2, <1>3, <1>4, <1>5, <1>6 DEF Main

\* The context, the goroutines that copy, and the processes.
LEMMA OtherStep ==
    ASSUME Inv,
           \/ ContextEnds \/ Cancel \/ Process
           \/ \E s \in Stream : Copy(s) \/ EndOfFile(s)
    PROVE  Inv'
<1>0. TypeOK' BY TypeStep DEF Inv, Next
<1> USE DEF Inv, TypeOK, Stage, Output, Killed, Returned, NoTruncatedOutput, ErrorIsHonest,
            ContextDone, Over, processes, streams
<1>1. CASE ContextEnds BY <1>0, <1>1 DEF ContextEnds
<1>2. CASE Cancel BY <1>0, <1>2 DEF Cancel
<1>3. ASSUME NEW s \in Stream, Copy(s) PROVE Inv'
  BY <1>0, <1>3 DEF Copy, Fits
<1>4. ASSUME NEW s \in Stream, EndOfFile(s) PROVE Inv'
  BY <1>0, <1>4 DEF EndOfFile
<1>5. ASSUME NEW s \in Stream, Write(s) PROVE Inv'
  BY <1>0, <1>5 DEF Write
<1>6. CASE Spawn \/ Release \/ HelperEnds BY <1>0, <1>6 DEF Spawn, Release, HelperEnds
<1>7. CASE Exit BY <1>0, <1>7 DEF Exit
<1> QED BY <1>1, <1>2, <1>3, <1>4, <1>5, <1>6, <1>7 DEF Process

\* The inductive invariant holds throughout.
LEMMA InvHolds == Spec => []Inv
<1>1. Inv /\ [Next]_vars => Inv'
  <2>1. CASE UNCHANGED vars
    BY <2>1 DEF vars, Inv, TypeOK, Stage, Output, Killed, Returned, NoTruncatedOutput,
                ErrorIsHonest, ContextDone, Over, processes, streams
  <2> QED BY <2>1, MainStep, OtherStep DEF Next
<1> QED BY <1>1, InitInv, PTL DEF Spec

\* What a run keeps of either stream stays within its limit, whatever the tool writes.
THEOREM RunTypeCorrect == Spec => []TypeOK
<1>1. Inv => TypeOK BY DEF Inv
<1> QED BY <1>1, InvHolds, PTL

\* A run whose pipes were closed under a helper, or that ran over the limit, is never
\* taken for a render, for any limits and any amount of output.
THEOREM RendersWholeOutput == Spec => []NoTruncatedOutput
<1>1. Inv => NoTruncatedOutput BY DEF Inv, Returned
<1> QED BY <1>1, InvHolds, PTL

\* subprocess.go:163-164, a run the context cut off is no failure of the tool, and one
\* cut off for its output is not reported as cancelled.
THEOREM ReportsHonestError == Spec => []ErrorIsHonest
<1>1. Inv => ErrorIsHonest BY DEF Inv, Returned
<1> QED BY <1>1, InvHolds, PTL
=============================================================================
