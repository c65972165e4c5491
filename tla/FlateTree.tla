------------------------------ MODULE FlateTree ------------------------------
(***************************************************************************)
(* The whole-tree render cache of the built-in Flux renderer               *)
(* (internal/render/flate/flate.go): concurrent Render calls that share    *)
(* one tree, keyed by a fingerprint of the files or, once the client       *)
(* reports file changes, by a counter InvalidateTree bumps.                *)
(*                                                                         *)
(* The trees of different roots are disjoint.  The contents of a tree are  *)
(* numbered in the order in which they appear on disk; a fingerprint tells *)
(* any two of them apart.                                                  *)
(***************************************************************************)
EXTENDS Naturals, Absent

CONSTANTS
    Caller,     \* goroutines in Render
    Root,       \* build roots the configuration may select
    MayWatch,   \* the client may register to watch files
    MaxVersion  \* bound on the changes of one tree

ASSUME MayWatchAssumption == MayWatch \in BOOLEAN
ASSUME MaxVersionAssumption == MaxVersion \in Nat

VARIABLES
    disk,        \* disk[r]: the contents of the tree under r
    told,        \* told[r]: the contents InvalidateTree was last called for while r was the root
    root,        \* what targetRoot returns
    eventDriven, \* Renderer.eventDriven
    gen,         \* Renderer.gen
    cached,      \* Renderer.cached; the treeRender's `of` is the oldest content it may show
    callers,     \* callers[c]: a call of Render, None when there is none
    ctx          \* ctx[c]: the context of the call

treeVars == <<disk, told, root, eventDriven, gen, cached, callers, ctx>>

Version == 0..MaxVersion

(* Mutant of KeyOf: one tree per root, whatever has changed in it.          *)
KeyOfRoot(r, fp, g) == [root |-> r, fingerprint |-> None, gen |-> 0]

(* The key a tree is cached under: without file watching gen is 0, with it  *)
(* the fingerprint is the empty string, here None.                          *)
KeyOf(r, fp, g) == [root |-> r, fingerprint |-> fp, gen |-> g]

(* waiting: has its key, blocked on treeMu; building: holds treeMu, in      *)
(* buildTree; using: treeMu released, scoping the tree to its document.     *)
(* key: what it looks up; since: what the tree must at least show; of: the  *)
(* tree it builds or uses; live: its context was live when the build began. *)
Phase == {"waiting", "building", "using"}

CacheKey == [root : Root, fingerprint : Version \cup {None}, gen : Nat]
CacheEntry == [key : CacheKey, of : Version, err : {"none", "failed", "timeout"},
               complete : BOOLEAN, live : BOOLEAN]
CallerState == [phase : Phase, key : CacheKey, since : Version, of : Version, live : BOOLEAN]

ASSUME TreeNoneAssumption ==
    None \notin Root \cup Version /\ None \notin CacheEntry /\ None \notin CallerState

TreeInit ==
    /\ disk = [r \in Root |-> 0]
    /\ told = [r \in Root |-> 0]
    /\ root \in Root
    /\ eventDriven = FALSE
    /\ gen = 0
    /\ cached = None
    /\ callers = [c \in Caller |-> None]
    /\ ctx = [c \in Caller |-> "live"]

-----------------------------------------------------------------------------
At(c, phase) == callers[c] # None /\ callers[c].phase = phase

\* The caller after a step: what it looks up stays.
Goes(c, phase, of, live) ==
    callers' = [callers EXCEPT
        ![c] = [phase |-> phase, key |-> callers[c].key, since |-> callers[c].since,
                of |-> of, live |-> live]]

\* Render up to treeMu: the root, then the counter or the fingerprint walk.
Key(c) ==
    /\ callers[c] = None
    /\ callers' = [callers EXCEPT ![c] =
          [phase |-> "waiting",
           key   |-> IF eventDriven THEN KeyOf(root, None, gen)
                     ELSE KeyOf(root, disk[root], 0),
           since |-> IF eventDriven THEN told[root] ELSE disk[root],
           of    |-> 0,
           live  |-> FALSE]]
    /\ ctx' = [ctx EXCEPT ![c] = "live"]
    /\ UNCHANGED <<disk, told, root, eventDriven, gen, cached>>

\* treeMu is free.
Unlocked == \A c \in Caller : ~At(c, "building")

Hit(c) == cached # None /\ cached.key = callers[c].key

\* The cached tree, or the error its build ended with.
UseCached(c) ==
    /\ At(c, "waiting") /\ Unlocked
    /\ Hit(c)
    /\ IF cached.err = "none" THEN Goes(c, "using", cached.of, FALSE)
       ELSE callers' = [callers EXCEPT ![c] = None]
    /\ UNCHANGED <<disk, told, root, eventDriven, gen, cached, ctx>>

\* A waiter whose context has ended neither builds nor caches.
GivesUp(c) == ctx[c] # "live"

GiveUp(c) ==
    /\ At(c, "waiting") /\ Unlocked
    /\ ~Hit(c) /\ GivesUp(c)
    /\ callers' = [callers EXCEPT ![c] = None]
    /\ UNCHANGED <<disk, told, root, eventDriven, gen, cached, ctx>>

\* buildTree begins; it reads the tree from here on.
Build(c) ==
    /\ At(c, "waiting") /\ Unlocked
    /\ ~Hit(c) /\ ~GivesUp(c)
    /\ Goes(c, "building", disk[callers[c].key.root], ctx[c] = "live")
    /\ UNCHANGED <<disk, told, root, eventDriven, gen, cached, ctx>>

\* Mutant of Outcome: the end of the context is not looked at.
OutcomeOfBuild(c, e) ==
    [key |-> callers[c].key, of |-> callers[c].of, err |-> e,
     complete |-> ctx[c] = "live", live |-> callers[c].live]

\* What is cached when a build ends: a tree or a bootstrap error, a timeout as an
\* error, and for a superseded render what was cached before.
Outcome(c, e) ==
    LET entry(err, complete) == [key |-> callers[c].key, of |-> callers[c].of, err |-> err,
                                 complete |-> complete, live |-> callers[c].live]
    IN CASE ctx[c] = "live"      -> entry(e, TRUE)
         [] ctx[c] = "expired"   -> entry("timeout", FALSE)
         [] ctx[c] = "cancelled" -> cached

\* buildTree returns, with a tree that is complete if the context is still live.
Built(c) ==
    /\ At(c, "building")
    /\ \E e \in {"none", "failed"} :
          /\ cached' = Outcome(c, e)
          /\ IF ctx[c] = "live" /\ e = "none" THEN Goes(c, "using", callers[c].of, FALSE)
             ELSE callers' = [callers EXCEPT ![c] = None]
    /\ UNCHANGED <<disk, told, root, eventDriven, gen, ctx>>

\* Render returns the documents it found in the tree.
Return(c) ==
    /\ At(c, "using")
    /\ callers' = [callers EXCEPT ![c] = None]
    /\ UNCHANGED <<disk, told, root, eventDriven, gen, cached, ctx>>

\* The pipeline's timeout, or a newer render of the document.
CallContextEnds(c) ==
    /\ callers[c] # None /\ ctx[c] = "live"
    /\ \E why \in {"expired", "cancelled"} : ctx' = [ctx EXCEPT ![c] = why]
    /\ UNCHANGED <<disk, told, root, eventDriven, gen, cached, callers>>

-----------------------------------------------------------------------------
\* A file under r changes.
Change(r) ==
    /\ disk[r] < MaxVersion
    /\ disk' = [disk EXCEPT ![r] = @ + 1]
    /\ UNCHANGED <<told, root, eventDriven, gen, cached, callers, ctx>>

\* InvalidateTree with the path of a file that has changed under r; a file
\* outside the root is none of its concern.  Some clients report changes unasked.
InvalidateTree(r) ==
    /\ root = r
    /\ \E v \in (told[r] + 1)..disk[r] : told' = [told EXCEPT ![r] = v]
    /\ gen' = gen + 1
    /\ UNCHANGED <<disk, root, eventDriven, cached, callers, ctx>>

\* SetFileWatchActive, from initialized.
SetFileWatchActive ==
    /\ MayWatch /\ ~eventDriven
    /\ eventDriven' = TRUE
    /\ UNCHANGED <<disk, told, root, gen, cached, callers, ctx>>

\* Configure and SetWorkspaceRoot, as far as they change the root.
SetRoot ==
    /\ root' \in Root \ {root}
    /\ UNCHANGED <<disk, told, eventDriven, gen, cached, callers, ctx>>

-----------------------------------------------------------------------------
TreeNext ==
    \/ \E c \in Caller :
          \/ Key(c) \/ UseCached(c) \/ GiveUp(c) \/ Build(c) \/ Built(c) \/ Return(c)
          \/ CallContextEnds(c)
    \/ \E r \in Root : Change(r) \/ InvalidateTree(r)
    \/ SetFileWatchActive
    \/ SetRoot

TreeSpec == TreeInit /\ [][TreeNext]_treeVars

-----------------------------------------------------------------------------
\* The state keeps its types: what is cached ended with a tree, an error or a
\* timeout, never with a cancellation.
TreeTypeOK ==
    /\ disk \in [Root -> Version] /\ told \in [Root -> Version]
    /\ root \in Root
    /\ eventDriven \in BOOLEAN
    /\ gen \in Nat
    /\ cached \in CacheEntry \cup {None}
    /\ callers \in [Caller -> CallerState \cup {None}]
    /\ ctx \in [Caller -> {"live", "expired", "cancelled"}]

\* flate.go:213-216, the cached tree is rebuilt when the tree changed on disk: a
\* Render never uses a tree older than the change it could have known about when
\* it began: the last one InvalidateTree was called for while this root was the
\* build root or, without file watching, the last one on disk.
FreshTree == \A c \in Caller : At(c, "using") => callers[c].of >= callers[c].since

\* flate.go:240-257, what is cached was built under a live context, whosever it was,
\* and ended with a tree that is complete, an error or a timeout: neither the deadline
\* of a waiter nor an interrupted build is held against the tree.
CachedIsWhole ==
    cached # None =>
        /\ cached.live
        /\ cached.err # "cancelled"
        /\ cached.err # "timeout" => cached.complete
=============================================================================
