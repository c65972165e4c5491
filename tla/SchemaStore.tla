----------------------------- MODULE SchemaStore -----------------------------
(***************************************************************************)
(* The schema store (internal/schema/store.go) over the restricted file    *)
(* loader (internal/schema/secure.go): concurrent Get calls that share one *)
(* compile per key, and SetTrustRoot, which changes what may be loaded     *)
(* while compiles are under way.                                           *)
(*                                                                         *)
(* A caller is a goroutine in Get.  The inflightCompile it registers is    *)
(* named by the caller that runs it.  Each wait on call.done ends with     *)
(* close(call.done): call.sch and call.err are final by then and the       *)
(* waiter only returns them.                                               *)
(***************************************************************************)
EXTENDS Naturals, FiniteSets

CONSTANTS
    Caller,     \* goroutines that call Get
    Doc,        \* schema documents: the keys and what they $ref
    Key,        \* absolute refs passed to Get
    Refs,       \* Refs[k]: the documents a compile of k loads, k among them
    TrustSet,   \* what the workspace root and the trusted paths may permit
    None,
    MaxGen      \* bound on the number of trust changes

ASSUME KeyAssumption == Key \subseteq Doc
ASSUME RefsAssumption ==
    /\ Refs \in [Key -> SUBSET Doc]
    /\ \A k \in Key : k \in Refs[k]
ASSUME TrustAssumption == TrustSet \subseteq SUBSET Doc
ASSUME MaxGenAssumption == MaxGen \in Nat

VARIABLES
    trust,      \* the documents secureFileLoader lets through; a remote one always
    changing,   \* SetTrustRoot is between setRoot and s.mu
    trustGen,   \* Store.trustGen
    compiled,   \* Store.compiled: the keys it holds a schema for
    failures,   \* Store.failures: why, None when absent or older than negativeTTL
    inflight,   \* Store.inflight: the caller that runs the compile
    compiles,   \* compiles[c]: the compile that c runs
    waits       \* waits[c]: the caller whose call.done c waits on

vars == <<trust, changing, trustGen, compiled, failures, inflight, compiles, waits>>

\* refused by the trust set, or failed to load or compile for another reason.
Failure == {"refused", "failed"}
Compile == [key : Key, gen : 0..MaxGen, loaded : SUBSET Doc, err : Failure \cup {"none"}]

ASSUME NoneAssumption == None \notin Caller \cup Failure \cup Compile

\* No root is set yet: every ref loads.
Init ==
    /\ trust = Doc
    /\ changing = FALSE
    /\ trustGen = 0
    /\ compiled = {}
    /\ failures = [k \in Key |-> None]
    /\ inflight = [k \in Key |-> None]
    /\ compiles = [c \in Caller |-> None]
    /\ waits = [c \in Caller |-> None]

-----------------------------------------------------------------------------
Idle(c) == compiles[c] = None /\ waits[c] = None

\* Cached: what a handler of the message loop may use, with no I/O.
Cached(k) == k \in compiled

\* Get with an answer in neither cache, and a compile of the key to share.
Join(c, k) ==
    /\ Idle(c)
    /\ ~Cached(k) /\ failures[k] = None
    /\ inflight[k] # None
    /\ waits' = [waits EXCEPT ![c] = inflight[k]]
    /\ UNCHANGED <<trust, changing, trustGen, compiled, failures, inflight, compiles>>

\* Get that has to compile: it registers and captures the generation.
Start(c, k) ==
    /\ Idle(c)
    /\ ~Cached(k) /\ failures[k] = None
    /\ inflight[k] = None
    /\ inflight' = [inflight EXCEPT ![k] = c]
    /\ compiles' = [compiles EXCEPT
          ![c] = [key |-> k, gen |-> trustGen, loaded |-> {}, err |-> "none"]]
    /\ UNCHANGED <<trust, changing, trustGen, compiled, failures, waits>>

\* Compile has loaded everything or met an error.
Compiled(c) == compiles[c].err # "none" \/ compiles[c].loaded = Refs[compiles[c].key]

\* The compile of c after a load.
After(c, loaded, e) ==
    [key |-> compiles[c].key, gen |-> compiles[c].gen, loaded |-> loaded, err |-> e]

\* secureFileLoader.Load, for the key and then for what it refers to.  It reads
\* the trust set of the moment and nothing else; no lock of the store is held.
Load(c) ==
    /\ compiles[c] # None /\ ~Compiled(c)
    /\ \E d \in Refs[compiles[c].key] \ compiles[c].loaded :
          /\ compiles[c].loaded = {} => d = compiles[c].key
          /\ \/ /\ d \in trust
                /\ compiles' = [compiles EXCEPT
                      ![c] = After(c, compiles[c].loaded \cup {d}, "none")]
             \/ /\ d \notin trust
                /\ compiles' = [compiles EXCEPT ![c] = After(c, compiles[c].loaded, "refused")]
             \/ /\ d \in trust
                /\ compiles' = [compiles EXCEPT ![c] = After(c, compiles[c].loaded, "failed")]
    /\ UNCHANGED <<trust, changing, trustGen, compiled, failures, inflight, waits>>

\* Mutant of Current: every compile may write to the maps.
AlwaysCurrent(c) == TRUE

\* No trust change since the compile began.
Current(c) == compiles[c].gen = trustGen

\* Mutant of Released: an outdated compile does not close its channel.
ReleasedIfCurrent(c) ==
    [w \in Caller |-> IF waits[w] = c /\ Current(c) THEN None ELSE waits[w]]

\* close(call.done)
Released(c) == [w \in Caller |-> IF waits[w] = c THEN None ELSE waits[w]]

\* Mutant of Unregistered: an outdated compile deletes the entry too.
AlwaysUnregistered(c) == [inflight EXCEPT ![compiles[c].key] = None]

\* The inflight entry goes, if it is this compile's.
Unregistered(c) ==
    IF Current(c) THEN [inflight EXCEPT ![compiles[c].key] = None] ELSE inflight

\* Mutant of Failures: the outcome of every compile is entered.
EveryOutcome(c) ==
    IF Current(c) THEN [failures EXCEPT ![compiles[c].key] = compiles[c].err] ELSE failures

\* The failure of a compile is remembered.
Failures(c) ==
    IF Current(c) /\ compiles[c].err # "none"
    THEN [failures EXCEPT ![compiles[c].key] = compiles[c].err] ELSE failures

\* Get under s.mu again.  A compile that began under an earlier trust set leaves
\* the maps alone, the inflight entry included: it may be somebody else's now.
Finish(c) ==
    /\ compiles[c] # None /\ Compiled(c)
    /\ inflight' = Unregistered(c)
    /\ failures' = Failures(c)
    /\ compiled' = IF Current(c) /\ compiles[c].err = "none"
                   THEN compiled \cup {compiles[c].key} ELSE compiled
    /\ compiles' = [compiles EXCEPT ![c] = None]
    /\ waits' = Released(c)
    /\ UNCHANGED <<trust, changing, trustGen>>

\* negativeTTL passes.
Expire(k) ==
    /\ failures[k] # None
    /\ failures' = [failures EXCEPT ![k] = None]
    /\ UNCHANGED <<trust, changing, trustGen, compiled, inflight, compiles, waits>>

-----------------------------------------------------------------------------
(* SetTrustRoot, which only the message loop calls.                        *)

\* setRoot, when it finds another root or other trusted paths: they may permit
\* the same documents as before.
SetRoot ==
    /\ ~changing /\ trustGen < MaxGen
    /\ trust' \in TrustSet
    /\ changing' = TRUE
    /\ UNCHANGED <<trustGen, compiled, failures, inflight, compiles, waits>>

\* Mutant of ClearCaches: only the compiled schemas are cleared.
ClearCompiledOnly ==
    /\ changing
    /\ trustGen' = trustGen + 1
    /\ compiled' = {}
    /\ changing' = FALSE
    /\ UNCHANGED <<trust, failures, inflight, compiles, waits>>

\* The rest of it, under s.mu.
ClearCaches ==
    /\ changing
    /\ trustGen' = trustGen + 1
    /\ compiled' = {}
    /\ failures' = [k \in Key |-> None]
    /\ inflight' = [k \in Key |-> None]
    /\ changing' = FALSE
    /\ UNCHANGED <<trust, compiles, waits>>

-----------------------------------------------------------------------------
Next ==
    \/ \E c \in Caller, k \in Key : Join(c, k) \/ Start(c, k)
    \/ \E c \in Caller : Load(c) \/ Finish(c)
    \/ \E k \in Key : Expire(k)
    \/ SetRoot
    \/ ClearCaches

Safe == Init /\ [][Next]_vars

\* Every fetch ends, if only with its timeout, and goroutines are scheduled.
Fairness == \A c \in Caller : WF_vars(Load(c)) /\ WF_vars(Finish(c))

Spec == Safe /\ Fairness

-----------------------------------------------------------------------------
\* The state keeps its types: a remembered failure is a failure.
TypeOK ==
    /\ trust \in SUBSET Doc
    /\ changing \in BOOLEAN
    /\ trustGen \in 0..MaxGen
    /\ changing => trustGen < MaxGen
    /\ compiled \in SUBSET Key
    /\ failures \in [Key -> Failure \cup {None}]
    /\ inflight \in [Key -> Caller \cup {None}]
    /\ compiles \in [Caller -> Compile \cup {None}]
    /\ waits \in [Caller -> Caller \cup {None}]

\* store.go:24-25, a compile begun under an earlier trust set never puts its
\* result into the caches: once SetTrustRoot has returned, every schema served
\* from the cache is built from documents the trust set in force permits.
CachedIsTrusted == ~changing => \A k \in compiled : Refs[k] \subseteq trust

\* Nor is a refusal of an earlier trust set held against the key: a remembered
\* refusal is one the trust set in force would repeat.
RefusedIsUntrusted ==
    ~changing => \A k \in Key : failures[k] = "refused" => ~(Refs[k] \subseteq trust)

\* A compile that a later Get may still join has read only what the trust set in
\* force permits: a Get begun after SetTrustRoot returned is not answered with a
\* schema of the old set by way of the compile it joins.
JoinedIsTrusted ==
    ~changing => \A k \in Key : inflight[k] # None =>
        compiles[inflight[k]] # None /\ compiles[inflight[k]].loaded \subseteq trust

\* store.go:34-36, concurrent Get calls share one compile: no two compiles of a
\* key run under one trust generation, also when one of an earlier generation
\* ends in between.
SingleFlight ==
    \A c, d \in Caller :
        /\ compiles[c] # None /\ compiles[d] # None
        /\ compiles[c].key = compiles[d].key /\ Current(c) /\ Current(d)
        => c = d

\* A Get waits only for a compile that is still to close its channel, also when
\* a trust change has taken that compile out of inflight.
WaitersHaveCompile == \A w \in Caller : waits[w] # None => compiles[waits[w]] # None

\* Every Get returns.
EveryGetReturns == \A c \in Caller : ~Idle(c) ~> Idle(c)
=============================================================================
