-------------------------- MODULE SchemaStoreProofs --------------------------
(***************************************************************************)
(* What SchemaStore promises for any number of callers, keys, documents    *)
(* and trust changes.  The inductive invariant ties the three places a     *)
(* compile is known by together: the goroutine that runs it, the inflight  *)
(* entry others find it under, and the trust generation it captured.       *)
(***************************************************************************)
EXTENDS SchemaStore, TLAPS

\* The inflight entries are the compiles of the current generation, and no
\* others: an older compile is registered nowhere.
Registered ==
    /\ \A k \in Key : inflight[k] # None =>
          /\ compiles[inflight[k]] # None
          /\ compiles[inflight[k]].key = k
          /\ Current(inflight[k])
    /\ \A c \in Caller : compiles[c] # None /\ Current(c) =>
          inflight[compiles[c].key] = c
    /\ \A c \in Caller : compiles[c] # None => compiles[c].gen <= trustGen

\* A caller waits or compiles, never both, and waits for a compile.
Waiting ==
    \A w \in Caller : waits[w] # None =>
        compiles[w] = None /\ compiles[waits[w]] # None

\* What a compile of the current generation has seen is what the trust set in
\* force permits, once SetTrustRoot is not half way.
SeenIsTrusted ==
    ~changing => \A c \in Caller : compiles[c] # None /\ Current(c) =>
        /\ compiles[c].loaded \subseteq trust
        /\ compiles[c].err = "refused" => ~(Refs[compiles[c].key] \subseteq trust)

CachesAreTrusted == CachedIsTrusted /\ RefusedIsUntrusted

Inv == TypeOK /\ Registered /\ Waiting /\ SeenIsTrusted /\ CachesAreTrusted

USE DEF Failure

-----------------------------------------------------------------------------
\* The store starts with empty maps and no compile.
LEMMA InitInv == Init => Inv
<1> SUFFICES ASSUME Init PROVE Inv
  OBVIOUS
<1> USE NoneAssumption, MaxGenAssumption DEF Init
<1>1. TypeOK
  <2>1. compiles \in [Caller -> Compile \cup {None}] OBVIOUS
  <2>2. trustGen \in 0..MaxGen OBVIOUS
  <2> QED BY <2>1, <2>2 DEF TypeOK
<1>2. Registered BY DEF Registered
<1>3. Waiting BY DEF Waiting
<1>4. SeenIsTrusted BY DEF SeenIsTrusted
<1>5. CachesAreTrusted
  BY DEF CachesAreTrusted, CachedIsTrusted, RefusedIsUntrusted
<1> QED BY <1>1, <1>2, <1>3, <1>4, <1>5 DEF Inv

\* Joining a compile adds a waiter to it and changes nothing else.
LEMMA JoinStep ==
    ASSUME Inv, NEW c \in Caller, NEW k \in Key, Join(c, k)
    PROVE  Inv'
<1> USE NoneAssumption, MaxGenAssumption DEF Inv, Join, Idle, Current
<1>1. TypeOK' BY DEF TypeOK
<1>2. Registered' BY DEF Registered
<1>3. Waiting' BY DEF Waiting, Registered, TypeOK
<1>4. SeenIsTrusted' BY DEF SeenIsTrusted
<1>5. CachesAreTrusted'
  BY DEF CachesAreTrusted, CachedIsTrusted, RefusedIsUntrusted
<1> QED BY <1>1, <1>2, <1>3, <1>4, <1>5 DEF Inv

\* A compile starts registered, under the current generation, with nothing seen.
LEMMA StartStep ==
    ASSUME Inv, NEW c \in Caller, NEW k \in Key, Start(c, k)
    PROVE  Inv'
<1> DEFINE new == [key |-> k, gen |-> trustGen, loaded |-> {}, err |-> "none"]
<1> USE NoneAssumption, MaxGenAssumption DEF Inv, Start, Idle, Current
<1>0. new \in Compile /\ new # None BY DEF TypeOK, Compile
<1>1. TypeOK' BY <1>0 DEF TypeOK
<1>2. Registered' BY <1>0 DEF Registered, TypeOK
<1>3. Waiting' BY <1>0 DEF Waiting, TypeOK
<1>4. SeenIsTrusted' BY <1>0 DEF SeenIsTrusted, TypeOK
<1>5. CachesAreTrusted'
  BY DEF CachesAreTrusted, CachedIsTrusted, RefusedIsUntrusted
<1> QED BY <1>1, <1>2, <1>3, <1>4, <1>5 DEF Inv

\* A load moves one compile on, by what the trust set of the moment permits.
LEMMA LoadStep ==
    ASSUME Inv, NEW c \in Caller, Load(c)
    PROVE  Inv'
<1> USE NoneAssumption, MaxGenAssumption
<1>1. PICK d \in Refs[compiles[c].key] \ compiles[c].loaded, r \in Compile :
        /\ compiles' = [compiles EXCEPT ![c] = r]
        /\ r.key = compiles[c].key /\ r.gen = compiles[c].gen
        /\ r.loaded \subseteq compiles[c].loaded \cup {d}
        /\ r.loaded # compiles[c].loaded => d \in trust
        /\ r.err = "refused" => d \notin trust
        /\ r.loaded \in SUBSET Doc
  <2>1. compiles[c] \in Compile BY DEF Load, Inv, TypeOK
  <2>2. PICK d \in Refs[compiles[c].key] \ compiles[c].loaded :
          \/ /\ d \in trust
             /\ compiles' = [compiles EXCEPT
                   ![c] = After(c, compiles[c].loaded \cup {d}, "none")]
          \/ /\ d \notin trust
             /\ compiles' = [compiles EXCEPT ![c] = After(c, compiles[c].loaded, "refused")]
          \/ /\ d \in trust
             /\ compiles' = [compiles EXCEPT ![c] = After(c, compiles[c].loaded, "failed")]
    BY DEF Load
  <2>3. d \in Doc BY <2>1, RefsAssumption DEF Compile
  <2>4. CASE /\ d \in trust
             /\ compiles' = [compiles EXCEPT
                   ![c] = After(c, compiles[c].loaded \cup {d}, "none")]
    <3>1. After(c, compiles[c].loaded \cup {d}, "none") \in Compile
      BY <2>1, <2>3 DEF After, Compile
    <3> QED BY <2>4, <3>1, <2>3 DEF After, Compile
  <2>5. CASE /\ d \notin trust
             /\ compiles' = [compiles EXCEPT ![c] = After(c, compiles[c].loaded, "refused")]
    <3>1. After(c, compiles[c].loaded, "refused") \in Compile
      BY <2>1 DEF After, Compile
    <3> QED BY <2>5, <3>1 DEF After, Compile
  <2>6. CASE /\ d \in trust
             /\ compiles' = [compiles EXCEPT ![c] = After(c, compiles[c].loaded, "failed")]
    <3>1. After(c, compiles[c].loaded, "failed") \in Compile
      BY <2>1 DEF After, Compile
    <3> QED BY <2>6, <3>1 DEF After, Compile
  <2> QED BY <2>2, <2>4, <2>5, <2>6
<1>2. /\ compiles[c] # None /\ compiles[c] \in Compile
      /\ UNCHANGED <<trust, changing, trustGen, compiled, failures, inflight, waits>>
  BY DEF Load, Inv, TypeOK
<1> USE DEF Inv, Current
<1>3. TypeOK' BY <1>1, <1>2 DEF TypeOK
<1>4. Registered' BY <1>1, <1>2 DEF Registered, TypeOK
<1>5. Waiting' BY <1>1, <1>2 DEF Waiting, TypeOK
<1>6. SeenIsTrusted'
  <2> SUFFICES ASSUME ~changing, NEW e \in Caller, compiles'[e] # None,
                      compiles'[e].gen = trustGen
               PROVE  /\ compiles'[e].loaded \subseteq trust
                      /\ compiles'[e].err = "refused" =>
                            ~(Refs[compiles'[e].key] \subseteq trust)
    BY <1>2 DEF SeenIsTrusted
  <2>1. CASE e = c
    <3>1. compiles'[c] \in Compile /\ compiles'[c].key = compiles[c].key
          /\ compiles[c].gen = trustGen
      BY <2>1, <1>1, <1>2 DEF TypeOK
    <3>2. compiles[c].loaded \subseteq trust BY <3>1, <1>2 DEF SeenIsTrusted
    <3> QED BY <2>1, <3>1, <3>2, <1>1, <1>2 DEF TypeOK
  <2>2. CASE e # c BY <2>2, <1>1, <1>2 DEF SeenIsTrusted, TypeOK
  <2> QED BY <2>1, <2>2
<1>7. CachesAreTrusted'
  BY <1>2 DEF CachesAreTrusted, CachedIsTrusted, RefusedIsUntrusted
<1> QED BY <1>3, <1>4, <1>5, <1>6, <1>7

\* A compile of the current generation ends in the caches and frees its key, one
\* of an earlier generation leaves both alone.
LEMMA FinishStep ==
    ASSUME Inv, NEW c \in Caller, Finish(c)
    PROVE  Inv'
<1> USE NoneAssumption, MaxGenAssumption DEF Inv, Current, Unregistered, Failures
<1>1. compiles[c] \in Compile /\ compiles[c] # None BY DEF Finish, TypeOK
<1>2. /\ compiles' = [compiles EXCEPT ![c] = None]
      /\ UNCHANGED <<trust, changing, trustGen>>
      /\ waits' = Released(c)
  BY DEF Finish
<1>3. /\ compiles[c].key \in Key
      /\ compiles[c].err \in Failure \cup {"none"}
  BY <1>1 DEF Compile
<1>4. TypeOK'
  <2>1. inflight' \in [Key -> Caller \cup {None}] BY <1>3 DEF Finish, TypeOK
  <2>2. failures' \in [Key -> Failure \cup {None}] BY <1>3 DEF Finish, TypeOK
  <2>3. compiled' \in SUBSET Key BY <1>3 DEF Finish, TypeOK
  <2>4. waits' \in [Caller -> Caller \cup {None}] BY <1>2 DEF Released, TypeOK
  <2> QED BY <1>2, <2>1, <2>2, <2>3, <2>4 DEF TypeOK
<1>5. Registered'
  <2>1. CASE compiles[c].gen = trustGen
    <3>1. inflight' = [inflight EXCEPT ![compiles[c].key] = None] BY <2>1 DEF Finish
    <3>2. inflight[compiles[c].key] = c BY <2>1, <1>1 DEF Registered
    <3> QED BY <1>2, <1>3, <3>1, <3>2 DEF Registered, TypeOK
  <2>2. CASE compiles[c].gen # trustGen
    <3>1. inflight' = inflight BY <2>2 DEF Finish
    <3> QED BY <1>2, <2>2, <3>1 DEF Registered, TypeOK
  <2> QED BY <2>1, <2>2
<1>6. Waiting' BY <1>2 DEF Waiting, Released, TypeOK
<1>7. SeenIsTrusted' BY <1>2 DEF SeenIsTrusted, TypeOK
<1>8. CachesAreTrusted'
  <2> SUFFICES ASSUME ~changing
               PROVE  /\ \A k \in compiled' : Refs[k] \subseteq trust
                      /\ \A k \in Key : failures'[k] = "refused" =>
                            ~(Refs[k] \subseteq trust)
    BY <1>2 DEF CachesAreTrusted, CachedIsTrusted, RefusedIsUntrusted
  <2>1. CASE compiles[c].gen # trustGen
    <3>1. compiled' = compiled /\ failures' = failures BY <2>1 DEF Finish
    <3> QED BY <3>1 DEF CachesAreTrusted, CachedIsTrusted, RefusedIsUntrusted
  <2>2. CASE compiles[c].gen = trustGen /\ compiles[c].err = "none"
    <3>1. compiled' = compiled \cup {compiles[c].key} /\ failures' = failures
      BY <2>2 DEF Finish
    <3>2. compiles[c].loaded = Refs[compiles[c].key] BY <2>2 DEF Finish, Compiled
    <3>3. compiles[c].loaded \subseteq trust BY <2>2, <1>1 DEF SeenIsTrusted
    <3> QED
      BY <3>1, <3>2, <3>3 DEF CachesAreTrusted, CachedIsTrusted, RefusedIsUntrusted
  <2>3. CASE compiles[c].gen = trustGen /\ compiles[c].err # "none"
    <3>1. /\ compiled' = compiled
          /\ failures' = [failures EXCEPT ![compiles[c].key] = compiles[c].err]
      BY <2>3 DEF Finish
    <3>2. compiles[c].err = "refused" => ~(Refs[compiles[c].key] \subseteq trust)
      BY <2>3, <1>1 DEF SeenIsTrusted
    <3> QED
      BY <3>1, <3>2, <1>3 DEF CachesAreTrusted, CachedIsTrusted, RefusedIsUntrusted, TypeOK
  <2> QED BY <2>1, <2>2, <2>3
<1> QED BY <1>4, <1>5, <1>6, <1>7, <1>8

\* An expired failure is forgotten.
LEMMA ExpireStep ==
    ASSUME Inv, NEW k \in Key, Expire(k)
    PROVE  Inv'
<1> USE NoneAssumption, MaxGenAssumption DEF Inv, Expire, Current
<1>1. TypeOK' BY DEF TypeOK
<1>2. Registered' BY DEF Registered
<1>3. Waiting' BY DEF Waiting
<1>4. SeenIsTrusted' BY DEF SeenIsTrusted
<1>5. CachesAreTrusted'
  BY DEF CachesAreTrusted, CachedIsTrusted, RefusedIsUntrusted, TypeOK
<1> QED BY <1>1, <1>2, <1>3, <1>4, <1>5

\* While SetTrustRoot is half way nothing is claimed of the caches.
LEMMA SetRootStep ==
    ASSUME Inv, SetRoot
    PROVE  Inv'
<1> USE NoneAssumption, MaxGenAssumption, TrustAssumption DEF Inv, SetRoot, Current
<1>1. TypeOK' BY DEF TypeOK
<1>2. Registered' BY DEF Registered
<1>3. Waiting' BY DEF Waiting
<1>4. SeenIsTrusted' BY DEF SeenIsTrusted
<1>5. CachesAreTrusted'
  BY DEF CachesAreTrusted, CachedIsTrusted, RefusedIsUntrusted
<1> QED BY <1>1, <1>2, <1>3, <1>4, <1>5

\* Its end makes every compile under way one of an earlier generation.
LEMMA ClearCachesStep ==
    ASSUME Inv, ClearCaches
    PROVE  Inv'
<1> USE NoneAssumption, MaxGenAssumption DEF Inv, ClearCaches, Current
<1>1. TypeOK'
  <2>1. trustGen' \in 0..MaxGen
    <3>1. trustGen \in 0..MaxGen /\ trustGen < MaxGen BY DEF TypeOK
    <3> QED BY <3>1
  <2>2. /\ failures' \in [Key -> Failure \cup {None}]
        /\ inflight' \in [Key -> Caller \cup {None}]
    OBVIOUS
  <2> QED BY <2>1, <2>2 DEF TypeOK
<1>2. \A c \in Caller : compiles'[c] # None => compiles'[c].gen < trustGen'
  BY DEF Registered, TypeOK, Compile
<1>3. Registered' BY <1>2 DEF Registered, TypeOK, Compile
<1>4. Waiting' BY DEF Waiting
<1>5. SeenIsTrusted' BY <1>2 DEF SeenIsTrusted, TypeOK, Compile
<1>6. CachesAreTrusted'
  BY DEF CachesAreTrusted, CachedIsTrusted, RefusedIsUntrusted
<1> QED BY <1>1, <1>3, <1>4, <1>5, <1>6

\* Every step of the store keeps the inductive invariant.
LEMMA NextInv == Inv /\ [Next]_vars => Inv'
<1> SUFFICES ASSUME Inv, [Next]_vars PROVE Inv'
  OBVIOUS
<1>1. ASSUME NEW c \in Caller, NEW k \in Key, Join(c, k) PROVE Inv'
  BY <1>1, JoinStep
<1>2. ASSUME NEW c \in Caller, NEW k \in Key, Start(c, k) PROVE Inv'
  BY <1>2, StartStep
<1>3. ASSUME NEW c \in Caller, Load(c) PROVE Inv'
  BY <1>3, LoadStep
<1>4. ASSUME NEW c \in Caller, Finish(c) PROVE Inv'
  BY <1>4, FinishStep
<1>5. ASSUME NEW k \in Key, Expire(k) PROVE Inv'
  BY <1>5, ExpireStep
<1>6. CASE SetRoot BY <1>6, SetRootStep
<1>7. CASE ClearCaches BY <1>7, ClearCachesStep
<1>8. CASE UNCHANGED vars
  <2> USE <1>8 DEF vars, Inv, Current
  <2>1. TypeOK' BY DEF TypeOK
  <2>2. Registered' BY DEF Registered
  <2>3. Waiting' BY DEF Waiting
  <2>4. SeenIsTrusted' BY DEF SeenIsTrusted
  <2>5. CachesAreTrusted'
    BY DEF CachesAreTrusted, CachedIsTrusted, RefusedIsUntrusted
  <2> QED BY <2>1, <2>2, <2>3, <2>4, <2>5
<1> QED BY <1>1, <1>2, <1>3, <1>4, <1>5, <1>6, <1>7, <1>8 DEF Next

-----------------------------------------------------------------------------
\* The inductive invariant holds throughout.
LEMMA InvHolds == Safe => []Inv
<1>1. Init => Inv BY InitInv
<1>2. Inv /\ [Next]_vars => Inv' BY NextInv
<1> QED BY <1>1, <1>2, PTL DEF Safe

\* Type correctness of the store.
THEOREM StoreTypeCorrect == Safe => []TypeOK
<1>1. Inv => TypeOK BY DEF Inv
<1> QED BY <1>1, InvHolds, PTL

\* store.go:24-25, the cache never holds what a trust set no longer in force let
\* through.
THEOREM CachesFollowTrust == Safe => []CachedIsTrusted
<1>1. Inv => CachedIsTrusted BY DEF Inv, CachesAreTrusted
<1> QED BY <1>1, InvHolds, PTL

\* Nor is a refusal remembered that the trust set in force would not repeat.
THEOREM RefusalsFollowTrust == Safe => []RefusedIsUntrusted
<1>1. Inv => RefusedIsUntrusted BY DEF Inv, CachesAreTrusted
<1> QED BY <1>1, InvHolds, PTL

\* What a Get may join was read under the trust set in force.
THEOREM JoinsFollowTrust == Safe => []JoinedIsTrusted
<1>1. Inv => JoinedIsTrusted
  BY NoneAssumption DEF Inv, JoinedIsTrusted, Registered, SeenIsTrusted, TypeOK
<1> QED BY <1>1, InvHolds, PTL

\* store.go:34-36, one compile per key and trust generation, and nobody waits
\* for a compile that is not there.
THEOREM OneCompilePerKey == Safe => [](SingleFlight /\ WaitersHaveCompile)
<1>1. Inv => SingleFlight
  BY NoneAssumption DEF Inv, SingleFlight, Registered, TypeOK
<1>2. Inv => WaitersHaveCompile
  BY DEF Inv, WaitersHaveCompile, Waiting
<1> QED BY <1>1, <1>2, InvHolds, PTL
=============================================================================
