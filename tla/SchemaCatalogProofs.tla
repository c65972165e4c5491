------------------------- MODULE SchemaCatalogProofs -------------------------
(***************************************************************************)
(* Proofs about SchemaCatalog, for any number of catalog URLs, settings    *)
(* applied, fetches and documents.                                         *)
(***************************************************************************)
EXTENDS SchemaCatalog, TLAPS

USE UrlAssumption, NoneAssumption, RecordAssumption

IsFetching(f) == fetchers[f] # None /\ fetchers[f].phase = "fetching"

\* Whoever holds a catalog holds one that was created.
Created ==
    /\ catalog # None => cats[catalog] # None
    /\ loop.at \in {"load", "start"} => loop.new # None /\ cats[loop.new] # None
    /\ \A f \in Fetcher : fetchers[f] # None => cats[fetchers[f].cat] # None
    /\ \A c \in retries : cats[c] # None
    /\ \A d \in Doc : reading[d] # None => cats[reading[d]] # None

\* A fetch under way is the one its catalog knows of.
Fetches ==
    /\ \A f \in Fetcher : IsFetching(f) =>
          cats[fetchers[f].cat].loading /\ ~cats[fetchers[f].cat].ready
    /\ OneFetch

\* Until New has set the hook no catalog has one, and no fetch calls one.
Booting ==
    /\ loop.booting <=> ~reloadHook
    /\ loop.at = "hook" => loop.booting
    /\ loop.booting =>
          /\ loop.at \in {"load", "start", "hook"}
          /\ ~loop.hook
          /\ \A c \in Catalog : cats[c] # None => ~cats[c].onLoaded
          /\ \A f \in Fetcher : fetchers[f] # None => IsFetching(f)

\* Between two changes of the settings no analysis is left that resolved under
\* the settings before.
ReadsCatalog == loop.at = "idle" => \A d \in Doc : reading[d] \in {None, catalog}

\* Before the hook is called nobody has analysed anything.
Quiet == loop.booting => queued = {} /\ \A d \in Doc : reading[d] = None

Inv == TypeOK /\ Created /\ Fetches /\ Booting /\ ReadsCatalog /\ Quiet /\ NewCatalogRevisits

-----------------------------------------------------------------------------
\* A new catalog is a catalog.
LEMMA NewCatalogType ==
    ASSUME NEW url \in Url \cup {Unset}
    PROVE  NewCatalog(url) \in CatState /\ NewCatalog(url) # None
<1>1. Effective(url) \in Url BY DEF Effective
<1>2. NewCatalog(url) \in CatState BY <1>1 DEF NewCatalog, CatState
<1> QED BY <1>2

\* What starting a fetch may change.
LEMMA LaunchStep ==
    ASSUME TypeOK, NEW c \in Catalog, cats[c] # None, NEW retry \in BOOLEAN, Launch(c, retry)
    PROVE  /\ cats' \in [Catalog -> CatState \cup {None}]
           /\ fetchers' \in [Fetcher -> Fetch \cup {None}]
           /\ \A k \in Catalog \ {c} : cats'[k] = cats[k]
           /\ cats'[c] # None
           /\ cats'[c].onLoaded = cats[c].onLoaded /\ cats'[c].ready = cats[c].ready
           /\ \/ UNCHANGED <<cats, fetchers>>
              \/ /\ ~cats[c].loading /\ ~cats[c].ready
                 /\ cats'[c].loading
                 /\ \E f \in Fetcher :
                       /\ fetchers[f] = None
                       /\ fetchers'[f] # None
                       /\ fetchers'[f] = [cat |-> c, phase |-> "fetching"]
                       /\ \A g \in Fetcher \ {f} : fetchers'[g] = fetchers[g]
<1>1. cats[c] \in CatState BY DEF TypeOK
<1>2. CASE ~Starts(c, retry) BY <1>1, <1>2 DEF Launch, TypeOK
<1>3. CASE Starts(c, retry)
  <2> DEFINE new == [cats[c] EXCEPT !.loading = TRUE, !.tried = TRUE, !.due = FALSE]
  <2>1. /\ new \in CatState /\ new # None
        /\ new.onLoaded = cats[c].onLoaded /\ new.ready = cats[c].ready /\ new.loading
    BY <1>1 DEF CatState
  <2>2. cats' = [cats EXCEPT ![c] = new] BY <1>3 DEF Launch
  <2>3. PICK f \in Fetcher :
          /\ fetchers[f] = None
          /\ fetchers' = [fetchers EXCEPT ![f] = [cat |-> c, phase |-> "fetching"]]
    BY <1>3 DEF Launch
  <2>4. [cat |-> c, phase |-> "fetching"] \in Fetch BY DEF Fetch
  <2> HIDE DEF new
  <2>5. ~cats[c].loading /\ ~cats[c].ready BY <1>3 DEF Starts
  <2>6. /\ cats' \in [Catalog -> CatState \cup {None}] /\ cats'[c] = new
        /\ \A k \in Catalog \ {c} : cats'[k] = cats[k]
    BY <2>1, <2>2 DEF TypeOK
  <2>7. /\ fetchers' \in [Fetcher -> Fetch \cup {None}]
        /\ fetchers'[f] # None
        /\ fetchers'[f] = [cat |-> c, phase |-> "fetching"]
        /\ \A g \in Fetcher \ {f} : fetchers'[g] = fetchers[g]
    BY <2>3, <2>4 DEF TypeOK
  <2> QED BY <2>1, <2>3, <2>5, <2>6, <2>7
<1> QED BY <1>2, <1>3

\* What the end of a fetch may change.
LEMMA FetchEndsStep ==
    ASSUME TypeOK, Created, NEW f \in Fetcher, FetchEnds(f)
    PROVE  LET c == fetchers[f].cat IN
           /\ c \in Catalog /\ IsFetching(f)
           /\ cats' \in [Catalog -> CatState \cup {None}]
           /\ fetchers' \in [Fetcher -> Fetch \cup {None}]
           /\ \A k \in Catalog \ {c} : cats'[k] = cats[k]
           /\ cats'[c] # None /\ cats'[c].onLoaded = cats[c].onLoaded
           /\ \A g \in Fetcher \ {f} : fetchers'[g] = fetchers[g]
           /\ fetchers'[f] # None => fetchers'[f].cat = c /\ fetchers'[f].phase = "calling"
           /\ fetchers'[f] = None => cats'[c].ready = cats[c].ready \/ ~cats[c].onLoaded
<1> DEFINE c == fetchers[f].cat
           end(ok) == [cats[c] EXCEPT !.loading = FALSE, !.ready = ok \/ @, !.done = TRUE]
<1>1. fetchers[f] \in Fetch /\ fetchers[f] # None /\ IsFetching(f)
  BY DEF FetchEnds, TypeOK, IsFetching
<1>2. c \in Catalog /\ cats[c] \in CatState BY <1>1 DEF Fetch, Created, TypeOK
<1>3. \A ok \in BOOLEAN :
         end(ok) \in CatState /\ end(ok) # None /\ end(ok).onLoaded = cats[c].onLoaded
  BY <1>2 DEF CatState
<1>4. end(FALSE).ready = cats[c].ready BY <1>2 DEF CatState
<1>5. \A ok \in BOOLEAN : Ended(c, ok) = [cats EXCEPT ![c] = end(ok)]
  BY <1>2 DEF Ended, CatState, TypeOK
<1>6. \A ok \in BOOLEAN :
         /\ Ended(c, ok) \in [Catalog -> CatState \cup {None}]
         /\ Ended(c, ok)[c] = end(ok)
         /\ \A k \in Catalog \ {c} : Ended(c, ok)[k] = cats[k]
  <2> SUFFICES ASSUME NEW ok \in BOOLEAN
               PROVE  /\ Ended(c, ok) \in [Catalog -> CatState \cup {None}]
                      /\ Ended(c, ok)[c] = end(ok)
                      /\ \A k \in Catalog \ {c} : Ended(c, ok)[k] = cats[k]
    OBVIOUS
  <2>1. end(ok) \in CatState BY <1>3
  <2>2. Ended(c, ok) = [cats EXCEPT ![c] = end(ok)] BY <1>5
  <2> HIDE DEF end
  <2> QED BY <1>2, <2>1, <2>2 DEF TypeOK
<1>7. [fetchers[f] EXCEPT !.phase = "calling"] \in Fetch BY <1>1 DEF Fetch
<1>8. CASE /\ cats' = Ended(c, TRUE)
           /\ fetchers' = [fetchers EXCEPT
                 ![f] = IF CallsHook(c) THEN [@ EXCEPT !.phase = "calling"] ELSE None]
  <2>1. /\ fetchers' \in [Fetcher -> Fetch \cup {None}]
        /\ \A g \in Fetcher \ {f} : fetchers'[g] = fetchers[g]
        /\ fetchers'[f] = IF CallsHook(c) THEN [fetchers[f] EXCEPT !.phase = "calling"]
                          ELSE None
    BY <1>1, <1>7, <1>8 DEF TypeOK
  <2>2. fetchers'[f] # None => fetchers'[f].cat = c /\ fetchers'[f].phase = "calling"
    BY <1>1, <2>1 DEF Fetch
  <2>3. fetchers'[f] = None => ~cats[c].onLoaded BY <1>7, <2>1 DEF CallsHook
  <2> HIDE DEF end
  <2> QED BY <1>1, <1>2, <1>3, <1>6, <1>8, <2>1, <2>2, <2>3
<1>9. CASE /\ cats' = Ended(c, FALSE)
           /\ fetchers' = [fetchers EXCEPT ![f] = None]
  <2>1. /\ fetchers' \in [Fetcher -> Fetch \cup {None}]
        /\ \A g \in Fetcher \ {f} : fetchers'[g] = fetchers[g]
        /\ fetchers'[f] = None
    BY <1>9 DEF TypeOK
  <2> HIDE DEF end
  <2> QED BY <1>1, <1>2, <1>3, <1>4, <1>6, <1>9, <2>1
<1> QED BY <1>8, <1>9 DEF FetchEnds

\* The types survive every step.
LEMMA TypeStep == TypeOK /\ Created /\ [Next]_vars => TypeOK'
<1> SUFFICES ASSUME TypeOK, Created, [Next]_vars PROVE TypeOK'
  OBVIOUS
<1> USE DEF docVars
<1>1. ASSUME NEW f \in Fetcher, FetchEnds(f) PROVE TypeOK'
  <2>1. /\ cats' \in [Catalog -> CatState \cup {None}]
        /\ fetchers' \in [Fetcher -> Fetch \cup {None}]
    BY <1>1, FetchEndsStep
  <2> QED BY <1>1, <2>1 DEF FetchEnds, TypeOK
<1>2. ASSUME NEW f \in Fetcher, CallHook(f) PROVE TypeOK'
  <2>1. reading' \in [Doc -> Catalog \cup {None}] BY <1>2 DEF CallHook, Republish
  <2> QED BY <1>2, <2>1 DEF CallHook, Republish, TypeOK
<1>3. ASSUME NEW c \in Catalog, RetryDue(c) PROVE TypeOK'
  <2> DEFINE new == [cats[c] EXCEPT !.due = TRUE]
  <2>1. cats[c] \in CatState BY <1>3 DEF RetryDue, TypeOK
  <2>2. new \in CatState BY <2>1 DEF CatState
  <2>3. cats' = [cats EXCEPT ![c] = new] BY <1>3 DEF RetryDue, TypeOK
  <2> HIDE DEF new
  <2>4. cats' \in [Catalog -> CatState \cup {None}] BY <2>2, <2>3 DEF TypeOK
  <2> QED BY <1>3, <2>4 DEF RetryDue, TypeOK
<1>4. ASSUME NEW c \in Catalog, Retry(c) PROVE TypeOK'
  <2>1. cats[c] # None /\ Launch(c, TRUE) BY <1>4 DEF Retry, Created
  <2>2. /\ cats' \in [Catalog -> CatState \cup {None}]
        /\ fetchers' \in [Fetcher -> Fetch \cup {None}]
    BY <2>1, LaunchStep
  <2> QED BY <1>4, <2>2 DEF Retry, TypeOK
<1>5. ASSUME NEW url \in Url \cup {Unset, None}, SetSettings(url) PROVE TypeOK'
  <2>1. ASSUME NEW c \in Catalog, url # None,
               cats' = [cats EXCEPT ![c] = NewCatalog(url)], catalog' = c,
               loop' = [loop EXCEPT !.at = "load", !.new = c, !.hook = reloadHook]
        PROVE  TypeOK'
    <3>1. NewCatalog(url) \in CatState BY <2>1, NewCatalogType
    <3>2. cats' \in [Catalog -> CatState \cup {None}] BY <2>1, <3>1 DEF TypeOK
    <3>3. loop' \in Loop BY <2>1 DEF TypeOK, Loop
    <3> QED BY <1>5, <2>1, <3>2, <3>3 DEF SetSettings, TypeOK
  <2>2. ASSUME loop' = [loop EXCEPT !.at = "republish"], cats' = cats,
               catalog' \in {catalog, None}
        PROVE  TypeOK'
    <3>1. loop' \in Loop BY <2>2 DEF TypeOK, Loop
    <3> QED BY <1>5, <2>2, <3>1 DEF SetSettings, TypeOK
  <2> QED BY <1>5, <2>1, <2>2 DEF SetSettings
<1>6. CASE Load
  <2> DEFINE c == loop.new
             new == [cats[c] EXCEPT !.onLoaded = loop.hook]
  <2>1. c \in Catalog /\ cats[c] \in CatState /\ loop.hook \in BOOLEAN
    BY <1>6 DEF Load, Created, TypeOK, Loop
  <2>2. new \in CatState BY <2>1 DEF CatState
  <2>3. cats' = [cats EXCEPT ![c] = new] BY <1>6, <2>1 DEF Load, TypeOK
  <2> HIDE DEF new
  <2>4. cats' \in [Catalog -> CatState \cup {None}] BY <2>1, <2>2, <2>3 DEF TypeOK
  <2>5. loop' \in Loop BY <1>6 DEF Load, TypeOK, Loop
  <2> QED BY <1>6, <2>4, <2>5 DEF Load, TypeOK
<1>7. CASE Start
  <2>1. loop.new \in Catalog /\ cats[loop.new] # None /\ Launch(loop.new, FALSE)
    BY <1>7 DEF Start, Created, TypeOK, Loop
  <2>2. /\ cats' \in [Catalog -> CatState \cup {None}]
        /\ fetchers' \in [Fetcher -> Fetch \cup {None}]
    BY <2>1, LaunchStep
  <2>3. loop' \in Loop BY <1>7 DEF Start, TypeOK, Loop
  <2> QED BY <1>7, <2>2, <2>3 DEF Start, TypeOK
<1>8. CASE SetReloadHook
  <2>1. loop' \in Loop /\ reloadHook' \in BOOLEAN BY <1>8 DEF SetReloadHook, TypeOK, Loop
  <2> QED BY <1>8, <2>1 DEF SetReloadHook, TypeOK
<1>9. CASE RepublishOpen
  <2>1. loop' \in Loop BY <1>9 DEF RepublishOpen, TypeOK, Loop
  <2>2. reading' \in [Doc -> Catalog \cup {None}] BY <1>9 DEF RepublishOpen, Republish
  <2> QED BY <1>9, <2>1, <2>2 DEF RepublishOpen, Republish, TypeOK
<1>10. ASSUME NEW d \in Doc, Edit(d) \/ Resolve(d) \/ Match(d) \/ MatchUnloaded(d)
       PROVE  TypeOK'
  <2>1. reading' \in [Doc -> Catalog \cup {None}]
    BY <1>10 DEF Edit, Resolve, Match, MatchUnloaded, TypeOK
  <2>2. queued' \subseteq Doc /\ unmatched' \subseteq Doc /\ retries' \subseteq Catalog
    BY <1>10 DEF Edit, Resolve, Match, MatchUnloaded, TypeOK
  <2>3. UNCHANGED <<catalog, reloadHook, cats, fetchers, loop>>
    BY <1>10 DEF Edit, Resolve, Match, MatchUnloaded
  <2> QED BY <2>1, <2>2, <2>3 DEF TypeOK
<1>11. CASE UNCHANGED vars BY <1>11 DEF vars, TypeOK
<1> QED
  BY <1>1, <1>2, <1>3, <1>4, <1>5, <1>6, <1>7, <1>8, <1>9, <1>10, <1>11
  DEF Next, Fetching, Applying

\* New has created the default catalog and nothing is under way.
LEMMA InitInv == Init => Inv
<1> SUFFICES ASSUME Init PROVE Inv
  OBVIOUS
<1>1. PICK c \in Catalog :
        /\ catalog = c
        /\ reloadHook = FALSE
        /\ cats = [d \in Catalog |-> IF d = c THEN NewCatalog(Unset) ELSE None]
        /\ fetchers = [f \in Fetcher |-> None]
        /\ loop = [at |-> "load", new |-> c, hook |-> FALSE, booting |-> TRUE]
        /\ retries = {}
        /\ queued = {}
        /\ reading = [d \in Doc |-> None]
        /\ unmatched = {}
  BY DEF Init
<1>2. NewCatalog(Unset) \in CatState BY NewCatalogType
<1>3. TypeOK
  <2>1. cats \in [Catalog -> CatState \cup {None}] BY <1>1, <1>2
  <2>2. loop \in Loop BY <1>1 DEF Loop
  <2> QED BY <1>1, <2>1, <2>2 DEF TypeOK
<1>4. cats[c] = NewCatalog(Unset) /\ cats[c] # None BY <1>1, <1>2
<1>5. Created BY <1>1, <1>4 DEF Created
<1>6. Fetches BY <1>1 DEF Fetches, OneFetch, IsFetching
<1>7. Booting BY <1>1, <1>4 DEF Booting, NewCatalog
<1>8. ReadsCatalog /\ Quiet BY <1>1 DEF ReadsCatalog, Quiet
<1>9. NewCatalogRevisits BY <1>1 DEF NewCatalogRevisits, Loaded
<1> QED BY <1>3, <1>5, <1>6, <1>7, <1>8, <1>9 DEF Inv

-----------------------------------------------------------------------------
(* The steps, action by action.                                             *)

\* A fetch ends: its catalog is no longer loading, and when it has become ready
\* with a hook, the hook is still to be called.
LEMMA FetchEndsInv ==
    ASSUME Inv, TypeOK', NEW f \in Fetcher, FetchEnds(f)
    PROVE  Inv'
<1> DEFINE c == fetchers[f].cat
<1>1. UNCHANGED <<catalog, reloadHook, loop, retries, queued, reading, unmatched>>
  BY DEF FetchEnds, docVars
<1>2. /\ c \in Catalog /\ IsFetching(f)
      /\ \A k \in Catalog \ {c} : cats'[k] = cats[k]
      /\ cats'[c] # None /\ cats'[c].onLoaded = cats[c].onLoaded
      /\ \A g \in Fetcher \ {f} : fetchers'[g] = fetchers[g]
      /\ fetchers'[f] # None => fetchers'[f].cat = c /\ fetchers'[f].phase = "calling"
      /\ fetchers'[f] = None => cats'[c].ready = cats[c].ready \/ ~cats[c].onLoaded
  BY FetchEndsStep DEF Inv
<1>3. cats[c] # None BY <1>2 DEF Inv, Created, IsFetching
<1>4. \A k \in Catalog : cats[k] # None => cats'[k] # None /\ cats'[k].onLoaded = cats[k].onLoaded
  BY <1>2, <1>3
<1>5. \A g \in Fetcher : fetchers'[g] # None => fetchers[g] # None /\ fetchers'[g].cat = fetchers[g].cat
  BY <1>2 DEF IsFetching
<1>6. \A g \in Fetcher : IsFetching(g)' => g # f /\ IsFetching(g) /\ fetchers'[g].cat # c
  BY <1>2 DEF IsFetching, Inv, Fetches, OneFetch
<1> HIDE DEF c
<1>7. \A g \in Fetcher : fetchers[g] # None => fetchers[g].cat \in Catalog
  BY DEF Inv, TypeOK, Fetch
<1>8. Created' BY <1>1, <1>4, <1>5, <1>7 DEF Inv, Created, TypeOK, Loop
<1>9. Fetches'
  <2>1. \A g \in Fetcher : IsFetching(g)' =>
           cats'[fetchers'[g].cat].loading /\ ~cats'[fetchers'[g].cat].ready
    BY <1>2, <1>5, <1>6, <1>7 DEF IsFetching, Inv, Fetches
  <2>2. OneFetch' BY <1>5, <1>6 DEF Inv, Fetches, OneFetch, IsFetching
  <2> QED BY <2>1, <2>2 DEF Fetches
<1>10. Booting'
  <2>1. CASE loop.booting
    <3>1. ~cats[c].onLoaded BY <1>2, <1>3, <2>1 DEF Inv, Booting
    <3>2. fetchers'[f] = None
      <4>1. CASE /\ cats' = Ended(c, TRUE)
                 /\ fetchers' = [fetchers EXCEPT
                       ![f] = IF CallsHook(c) THEN [@ EXCEPT !.phase = "calling"] ELSE None]
        BY <3>1, <4>1 DEF CallsHook, Inv, TypeOK
      <4>2. CASE fetchers' = [fetchers EXCEPT ![f] = None] BY <4>2 DEF Inv, TypeOK
      <4> QED BY <4>1, <4>2 DEF FetchEnds, c
    <3>3. \A k \in Catalog : cats'[k] # None => ~cats'[k].onLoaded
      BY <1>2, <2>1, <3>1 DEF Inv, Booting
    <3>4. \A g \in Fetcher : fetchers'[g] # None => IsFetching(g)'
      BY <1>2, <2>1, <3>2 DEF Inv, Booting, IsFetching
    <3> QED BY <1>1, <3>3, <3>4 DEF Inv, Booting
  <2>2. CASE ~loop.booting BY <1>1, <2>2 DEF Inv, Booting
  <2> QED BY <2>1, <2>2
<1>11. ReadsCatalog' /\ Quiet' BY <1>1 DEF Inv, ReadsCatalog, Quiet
<1>12. NewCatalogRevisits'
  <2> SUFFICES ASSUME Loaded', cats'[catalog].onLoaded PROVE Revisited
    BY <1>1 DEF NewCatalogRevisits, Revisited
  <2>1. catalog \in Catalog /\ cats[catalog] # None /\ loop.at = "idle"
    BY <1>1 DEF Loaded, Inv, TypeOK, Created
  <2>2. cats[catalog].onLoaded BY <1>4, <2>1
  <2>3. CASE catalog = c
    <3>1. fetchers'[f] = None BY <1>1, <1>2, <2>3 DEF Loaded
    <3>2. cats[c].ready BY <1>1, <1>2, <2>2, <2>3, <3>1 DEF Loaded
    <3> QED BY <1>2, <3>2 DEF Inv, Fetches, c
  <2>4. CASE catalog # c
    <3>1. \A g \in Fetcher : fetchers[g] # None => fetchers[g].cat # catalog
      BY <1>1, <1>2, <2>4 DEF Loaded, c
    <3> QED BY <1>1, <1>2, <2>1, <2>2, <2>4, <3>1 DEF Loaded, Inv, NewCatalogRevisits
  <2> QED BY <2>3, <2>4
<1> QED BY <1>8, <1>9, <1>10, <1>11, <1>12 DEF Inv

\* The hook has every document analysed anew.
LEMMA CallHookInv ==
    ASSUME Inv, TypeOK', NEW f \in Fetcher, CallHook(f)
    PROVE  Inv'
<1>1. /\ UNCHANGED <<catalog, reloadHook, cats, loop, retries, unmatched>>
      /\ fetchers[f] # None /\ fetchers[f].phase = "calling"
      /\ fetchers' = [fetchers EXCEPT ![f] = None]
      /\ queued' = Doc /\ reading' = [d \in Doc |-> None]
  BY DEF CallHook, Republish
<1>2. \A g \in Fetcher : fetchers'[g] # None => fetchers'[g] = fetchers[g]
  BY <1>1 DEF Inv, TypeOK
<1>3. Created'
  <2>1. \A g \in Fetcher : fetchers'[g] # None => fetchers[g] # None BY <1>2
  <2>2. \A g \in Fetcher : fetchers'[g] # None => cats'[fetchers'[g].cat] # None
    BY <1>1, <1>2, <2>1 DEF Inv, Created
  <2> QED BY <1>1, <2>2 DEF Inv, Created
<1>4. \A g \in Fetcher : IsFetching(g)' => IsFetching(g) /\ fetchers'[g] = fetchers[g]
  BY <1>2 DEF IsFetching
<1>5. Fetches'
  <2>1. OneFetch' BY <1>4 DEF Inv, Fetches, OneFetch, IsFetching
  <2> QED BY <1>1, <1>4, <2>1 DEF Inv, Fetches
<1>6. ~loop.booting BY <1>1 DEF Inv, Booting, IsFetching
<1>7. Booting' /\ Quiet' BY <1>1, <1>6 DEF Inv, Booting, Quiet
<1>8. ReadsCatalog' BY <1>1 DEF ReadsCatalog
<1>9. NewCatalogRevisits'
  BY <1>1 DEF NewCatalogRevisits, Revisited, TypeOK
<1> QED BY <1>3, <1>5, <1>7, <1>8, <1>9 DEF Inv

\* The passing of the interval changes nothing but that.
LEMMA RetryDueInv ==
    ASSUME Inv, TypeOK', NEW c \in Catalog, RetryDue(c)
    PROVE  Inv'
<1>1. /\ UNCHANGED <<catalog, reloadHook, fetchers, loop, retries, queued, reading, unmatched>>
      /\ cats[c] # None
      /\ cats' = [cats EXCEPT ![c].due = TRUE]
  BY DEF RetryDue, docVars
<1>2. cats[c] \in CatState BY <1>1 DEF Inv, TypeOK
<1>3. \A k \in Catalog : cats[k] # None =>
         /\ cats'[k] # None
         /\ cats'[k].onLoaded = cats[k].onLoaded
         /\ cats'[k].ready = cats[k].ready
         /\ cats'[k].loading = cats[k].loading
  <2> SUFFICES ASSUME NEW k \in Catalog, cats[k] # None
               PROVE  /\ cats'[k] # None
                      /\ cats'[k].onLoaded = cats[k].onLoaded
                      /\ cats'[k].ready = cats[k].ready
                      /\ cats'[k].loading = cats[k].loading
    OBVIOUS
  <2>1. CASE k # c BY <1>1, <2>1 DEF Inv, TypeOK
  <2>2. CASE k = c
    <3> DEFINE new == [cats[c] EXCEPT !.due = TRUE]
    <3>1. /\ new \in CatState /\ new.onLoaded = cats[c].onLoaded
          /\ new.ready = cats[c].ready /\ new.loading = cats[c].loading
      BY <1>2 DEF CatState
    <3>2. cats'[k] = new BY <1>1, <2>2 DEF Inv, TypeOK
    <3> HIDE DEF new
    <3>3. new # None BY <3>1
    <3> QED BY <2>2, <3>1, <3>2, <3>3
  <2> QED BY <2>1, <2>2
<1>4. \A k \in Catalog : cats'[k] # None => cats[k] # None
  BY <1>1 DEF Inv, TypeOK
<1>5. \A g \in Fetcher : fetchers[g] # None => fetchers[g].cat \in Catalog
  BY DEF Inv, TypeOK, Fetch
<1>6. Created' BY <1>1, <1>3, <1>5 DEF Inv, Created, TypeOK, Loop
<1>7. Fetches'
  <2>1. OneFetch' BY <1>1 DEF Inv, Fetches, OneFetch
  <2> QED BY <1>1, <1>3, <1>5, <2>1 DEF Inv, Fetches, Created, IsFetching
<1>8. Booting' BY <1>1, <1>3, <1>4 DEF Inv, Booting, IsFetching
<1>9. ReadsCatalog' /\ Quiet' BY <1>1 DEF Inv, ReadsCatalog, Quiet
<1>10. NewCatalogRevisits'
  <2>1. catalog # None => catalog \in Catalog /\ cats[catalog] # None BY DEF Inv, TypeOK, Created
  <2> QED BY <1>1, <1>3, <2>1 DEF Inv, NewCatalogRevisits, Loaded, Revisited
<1> QED BY <1>6, <1>7, <1>8, <1>9, <1>10 DEF Inv

\* Starting a fetch leaves at most one under way, of a catalog without entries.
LEMMA LaunchKeeps ==
    ASSUME Inv, NEW c \in Catalog, cats[c] # None, NEW retry \in BOOLEAN, Launch(c, retry)
    PROVE  /\ Fetches'
           /\ \A k \in Catalog : cats[k] # None =>
                 /\ cats'[k] # None
                 /\ cats'[k].onLoaded = cats[k].onLoaded
                 /\ cats'[k].ready = cats[k].ready
           /\ \A k \in Catalog : cats'[k] # None => cats[k] # None
           /\ \A g \in Fetcher : fetchers'[g] # None => cats'[fetchers'[g].cat] # None
           /\ \A g \in Fetcher : fetchers[g] # None => fetchers'[g] = fetchers[g]
           /\ \A g \in Fetcher : fetchers'[g] # None => fetchers[g] # None \/ IsFetching(g)'
<1>1. /\ \A k \in Catalog \ {c} : cats'[k] = cats[k]
      /\ cats'[c] # None
      /\ cats'[c].onLoaded = cats[c].onLoaded /\ cats'[c].ready = cats[c].ready
      /\ \/ UNCHANGED <<cats, fetchers>>
         \/ /\ ~cats[c].loading /\ ~cats[c].ready
            /\ cats'[c].loading
            /\ \E f \in Fetcher :
                  /\ fetchers[f] = None
                  /\ fetchers'[f] # None
                  /\ fetchers'[f] = [cat |-> c, phase |-> "fetching"]
                  /\ \A g \in Fetcher \ {f} : fetchers'[g] = fetchers[g]
  BY LaunchStep DEF Inv
<1>2. \A g \in Fetcher : fetchers[g] # None => fetchers[g].cat \in Catalog
  BY DEF Inv, TypeOK, Fetch
<1>3. /\ \A k \in Catalog : cats[k] # None =>
            /\ cats'[k] # None
            /\ cats'[k].onLoaded = cats[k].onLoaded
            /\ cats'[k].ready = cats[k].ready
      /\ \A k \in Catalog : cats'[k] # None => cats[k] # None
  BY <1>1
<1>4. CASE UNCHANGED <<cats, fetchers>>
  <2>1. Fetches' BY <1>4 DEF Inv, Fetches, OneFetch, IsFetching
  <2>2. \A g \in Fetcher : fetchers'[g] # None => cats'[fetchers'[g].cat] # None
    BY <1>4 DEF Inv, Created
  <2> QED BY <1>3, <1>4, <2>1, <2>2
<1>5. ASSUME ~cats[c].loading, ~cats[c].ready, cats'[c].loading,
             NEW f \in Fetcher, fetchers[f] = None, fetchers'[f] # None,
             fetchers'[f] = [cat |-> c, phase |-> "fetching"],
             \A g \in Fetcher \ {f} : fetchers'[g] = fetchers[g]
      PROVE  /\ Fetches'
             /\ \A g \in Fetcher : fetchers'[g] # None => cats'[fetchers'[g].cat] # None
             /\ \A g \in Fetcher : fetchers[g] # None => fetchers'[g] = fetchers[g]
             /\ \A g \in Fetcher : fetchers'[g] # None => fetchers[g] # None \/ IsFetching(g)'
  <2>1. fetchers'[f].cat = c /\ fetchers'[f].phase = "fetching" BY <1>5
  <2>2. \A g \in Fetcher : IsFetching(g)' =>
           g = f \/ (IsFetching(g) /\ fetchers'[g] = fetchers[g] /\ fetchers[g].cat # c)
    BY <1>5 DEF IsFetching, Inv, Fetches
  <2>3. \A g \in Fetcher : IsFetching(g)' =>
           cats'[fetchers'[g].cat].loading /\ ~cats'[fetchers'[g].cat].ready
    BY <1>1, <1>2, <1>5, <2>1, <2>2 DEF Inv, Fetches, IsFetching
  <2>4. OneFetch' BY <2>1, <2>2 DEF Inv, Fetches, OneFetch, IsFetching
  <2>5. \A g \in Fetcher : fetchers'[g] # None => cats'[fetchers'[g].cat] # None
    BY <1>1, <1>2, <1>3, <1>5, <2>1 DEF Inv, Created
  <2> QED BY <1>5, <2>1, <2>3, <2>4, <2>5 DEF Fetches, IsFetching
<1> QED BY <1>1, <1>3, <1>4, <1>5

\* An analysis retries the catalog it found without entries.
LEMMA RetryInv ==
    ASSUME Inv, TypeOK', NEW c \in Catalog, Retry(c)
    PROVE  Inv'
<1>1. /\ c \in retries /\ Launch(c, TRUE) /\ retries' = retries \ {c}
      /\ UNCHANGED <<catalog, reloadHook, loop, queued, reading, unmatched>>
  BY DEF Retry, docVars
<1>2. cats[c] # None BY <1>1 DEF Inv, Created
<1>3. /\ Fetches'
      /\ \A k \in Catalog : cats[k] # None =>
            /\ cats'[k] # None
            /\ cats'[k].onLoaded = cats[k].onLoaded
            /\ cats'[k].ready = cats[k].ready
      /\ \A k \in Catalog : cats'[k] # None => cats[k] # None
      /\ \A g \in Fetcher : fetchers'[g] # None => cats'[fetchers'[g].cat] # None
      /\ \A g \in Fetcher : fetchers[g] # None => fetchers'[g] = fetchers[g]
      /\ \A g \in Fetcher : fetchers'[g] # None => fetchers[g] # None \/ IsFetching(g)'
  BY <1>1, <1>2, LaunchKeeps
<1>4. Created' BY <1>1, <1>3 DEF Inv, Created, TypeOK, Loop
<1>5. Booting' BY <1>1, <1>3 DEF Inv, Booting, IsFetching
<1>6. ReadsCatalog' /\ Quiet' BY <1>1 DEF Inv, ReadsCatalog, Quiet
<1>7. NewCatalogRevisits'
  <2>1. catalog # None => catalog \in Catalog /\ cats[catalog] # None BY DEF Inv, TypeOK, Created
  <2>2. Loaded' => Loaded BY <1>1, <1>3, <2>1 DEF Loaded
  <2>3. Loaded' => cats'[catalog'].onLoaded = cats[catalog].onLoaded BY <1>1, <1>3, <2>1 DEF Loaded
  <2> QED BY <1>1, <2>2, <2>3 DEF Inv, NewCatalogRevisits, Revisited
<1> QED BY <1>3, <1>4, <1>5, <1>6, <1>7 DEF Inv

\* Load's fetch.
LEMMA StartInv ==
    ASSUME Inv, TypeOK', Start
    PROVE  Inv'
<1>1. /\ loop.at = "start" /\ Launch(loop.new, FALSE)
      /\ loop' = [loop EXCEPT !.at = IF loop.booting THEN "hook" ELSE "republish", !.new = None]
      /\ UNCHANGED <<catalog, reloadHook, retries, queued, reading, unmatched>>
  BY DEF Start, docVars
<1>2. loop.new \in Catalog /\ cats[loop.new] # None BY <1>1 DEF Inv, Created, TypeOK, Loop
<1>3. /\ Fetches'
      /\ \A k \in Catalog : cats[k] # None => cats'[k] # None /\ cats'[k].onLoaded = cats[k].onLoaded
      /\ \A k \in Catalog : cats'[k] # None => cats[k] # None
      /\ \A g \in Fetcher : fetchers'[g] # None => cats'[fetchers'[g].cat] # None
      /\ \A g \in Fetcher : fetchers[g] # None => fetchers'[g] = fetchers[g]
      /\ \A g \in Fetcher : fetchers'[g] # None => fetchers[g] # None \/ IsFetching(g)'
  BY <1>1, <1>2, LaunchKeeps
<1>4. /\ loop'.booting = loop.booting /\ loop'.hook = loop.hook
      /\ loop'.at = IF loop.booting THEN "hook" ELSE "republish"
  BY <1>1 DEF Inv, TypeOK, Loop
<1>5. Created' BY <1>1, <1>3, <1>4 DEF Inv, Created, TypeOK
<1>6. Booting'
  <2>1. \A g \in Fetcher : loop.booting /\ fetchers'[g] # None => IsFetching(g)'
    BY <1>3 DEF Inv, Booting, IsFetching
  <2> QED BY <1>1, <1>3, <1>4, <2>1 DEF Inv, Booting
<1>7. ReadsCatalog' /\ Quiet' /\ NewCatalogRevisits'
  BY <1>1, <1>4 DEF Inv, ReadsCatalog, Quiet, NewCatalogRevisits, Loaded
<1> QED BY <1>3, <1>5, <1>6, <1>7 DEF Inv

\* New settings: a catalog just created is nobody's yet.
LEMMA SetSettingsInv ==
    ASSUME Inv, TypeOK', NEW url \in Url \cup {Unset, None}, SetSettings(url)
    PROVE  Inv'
<1>1. /\ loop.at = "idle"
      /\ UNCHANGED <<reloadHook, fetchers, retries, queued, reading, unmatched>>
  BY DEF SetSettings, docVars
<1>2. ~loop.booting /\ reloadHook BY <1>1 DEF Inv, Booting, TypeOK
<1>3. loop \in Loop BY DEF Inv, TypeOK
<1>4. ASSUME NEW c \in Catalog, url # None, cats[c] = None,
             cats' = [cats EXCEPT ![c] = NewCatalog(url)], catalog' = c,
             loop' = [loop EXCEPT !.at = "load", !.new = c, !.hook = reloadHook]
      PROVE  Inv'
  <2>1. /\ NewCatalog(url) # None /\ cats'[c] = NewCatalog(url)
        /\ \A k \in Catalog \ {c} : cats'[k] = cats[k]
    BY <1>4, NewCatalogType DEF Inv, TypeOK
  <2>2. \A k \in Catalog : cats[k] # None => cats'[k] = cats[k] BY <1>4, <2>1
  <2>3. loop'.at = "load" /\ loop'.new = c /\ ~loop'.booting BY <1>2, <1>3, <1>4 DEF Loop
  <2>4. \A g \in Fetcher : fetchers[g] # None => fetchers[g].cat \in Catalog
    BY DEF Inv, TypeOK, Fetch
  <2>5. Created'
    <3>1. cats'[c] # None BY <2>1
    <3>2. \A g \in Fetcher : fetchers[g] # None => cats'[fetchers[g].cat] # None
      BY <2>2, <2>4 DEF Inv, Created
    <3>3. \A k \in retries : cats'[k] # None BY <2>2 DEF Inv, Created, TypeOK
    <3>4. \A d \in Doc : reading[d] # None => cats'[reading[d]] # None
      BY <2>2 DEF Inv, Created, TypeOK
    <3> QED BY <1>1, <1>4, <2>3, <3>1, <3>2, <3>3, <3>4 DEF Created
  <2>6. Fetches'
    <3>1. OneFetch' BY <1>1 DEF Inv, Fetches, OneFetch
    <3>2. \A g \in Fetcher : fetchers[g] # None => cats'[fetchers[g].cat] = cats[fetchers[g].cat]
      BY <2>2, <2>4 DEF Inv, Created
    <3> QED BY <1>1, <3>1, <3>2 DEF Inv, Fetches, IsFetching
  <2>7. Booting' BY <1>1, <1>2, <2>3 DEF Booting
  <2>8. ReadsCatalog' /\ Quiet' /\ NewCatalogRevisits'
    BY <2>3 DEF ReadsCatalog, Quiet, NewCatalogRevisits, Loaded
  <2> QED BY <2>5, <2>6, <2>7, <2>8 DEF Inv
<1>5. ASSUME loop' = [loop EXCEPT !.at = "republish"], cats' = cats,
             catalog' \in {catalog, None}
      PROVE  Inv'
  <2>1. loop'.at = "republish" /\ ~loop'.booting BY <1>2, <1>3, <1>5 DEF Loop
  <2>2. Created' BY <1>1, <1>5, <2>1 DEF Inv, Created
  <2>3. Fetches' BY <1>1, <1>5 DEF Inv, Fetches, OneFetch, IsFetching
  <2>4. Booting' BY <1>1, <1>2, <2>1 DEF Booting
  <2>5. ReadsCatalog' /\ Quiet' /\ NewCatalogRevisits'
    BY <2>1 DEF ReadsCatalog, Quiet, NewCatalogRevisits, Loaded
  <2> QED BY <2>2, <2>3, <2>4, <2>5 DEF Inv
<1> QED BY <1>4, <1>5 DEF SetSettings

\* Load gives the new catalog the hook that the settings found.
LEMMA LoadInv ==
    ASSUME Inv, TypeOK', Load
    PROVE  Inv'
<1> DEFINE c == loop.new
           new == [cats[c] EXCEPT !.onLoaded = loop.hook]
<1>1. /\ loop.at = "load"
      /\ cats' = [cats EXCEPT ![c].onLoaded = loop.hook]
      /\ loop' = [loop EXCEPT !.at = "start"]
      /\ UNCHANGED <<catalog, reloadHook, fetchers, retries, queued, reading, unmatched>>
  BY DEF Load, docVars
<1>2. /\ c \in Catalog /\ cats[c] # None /\ cats[c] \in CatState /\ loop \in Loop
      /\ loop.hook \in BOOLEAN
  BY <1>1 DEF Inv, TypeOK, Created, Loop
<1>3. /\ new \in CatState /\ new.onLoaded = loop.hook
      /\ new.ready = cats[c].ready /\ new.loading = cats[c].loading
  BY <1>2 DEF CatState
<1>4. cats' = [cats EXCEPT ![c] = new] BY <1>1, <1>2 DEF Inv, TypeOK
<1> HIDE DEF new
<1>5. cats'[c] = new /\ \A k \in Catalog \ {c} : cats'[k] = cats[k]
  BY <1>2, <1>4 DEF Inv, TypeOK
<1>6. new # None BY <1>3
<1>7. \A k \in Catalog : cats[k] # None =>
         /\ cats'[k] # None
         /\ cats'[k].ready = cats[k].ready
         /\ cats'[k].loading = cats[k].loading
  BY <1>3, <1>5, <1>6
<1>8. \A k \in Catalog : cats'[k] # None => cats[k] # None BY <1>2, <1>5
<1>9. /\ loop'.at = "start" /\ loop'.new = c /\ loop'.hook = loop.hook
      /\ loop'.booting = loop.booting
  BY <1>1, <1>2 DEF Loop
<1>10. \A g \in Fetcher : fetchers[g] # None => fetchers[g].cat \in Catalog
  BY DEF Inv, TypeOK, Fetch
<1>11. Created' BY <1>1, <1>2, <1>7, <1>9, <1>10 DEF Inv, Created, TypeOK
<1>12. Fetches'
  <2>1. OneFetch' BY <1>1 DEF Inv, Fetches, OneFetch
  <2> QED BY <1>1, <1>7, <1>10, <2>1 DEF Inv, Fetches, Created, IsFetching
<1>13. Booting'
  <2>1. loop.booting => \A k \in Catalog : cats'[k] # None => ~cats'[k].onLoaded
    BY <1>3, <1>5, <1>8 DEF Inv, Booting
  <2> QED BY <1>1, <1>9, <2>1 DEF Inv, Booting, IsFetching
<1>14. ReadsCatalog' /\ Quiet' /\ NewCatalogRevisits'
  BY <1>1, <1>9 DEF Inv, ReadsCatalog, Quiet, NewCatalogRevisits, Loaded
<1> QED BY <1>11, <1>12, <1>13, <1>14 DEF Inv

\* New is done: the default catalog stays without a hook.
LEMMA SetReloadHookInv ==
    ASSUME Inv, TypeOK', SetReloadHook
    PROVE  Inv'
<1>1. /\ loop.at = "hook" /\ reloadHook' = TRUE
      /\ loop' = [loop EXCEPT !.at = "idle", !.booting = FALSE]
      /\ UNCHANGED <<catalog, cats, fetchers, retries, queued, reading, unmatched>>
  BY DEF SetReloadHook, docVars
<1>2. loop'.at = "idle" /\ ~loop'.booting BY <1>1 DEF Inv, TypeOK, Loop
<1>3. loop.booting BY <1>1 DEF Inv, Booting
<1>4. Created' BY <1>1, <1>2 DEF Inv, Created
<1>5. Fetches' BY <1>1 DEF Inv, Fetches, OneFetch, IsFetching
<1>6. Booting' BY <1>1, <1>2 DEF Booting
<1>7. ReadsCatalog' /\ Quiet' BY <1>1, <1>2, <1>3 DEF Inv, Quiet, ReadsCatalog
<1>8. NewCatalogRevisits'
  <2>1. catalog # None => catalog \in Catalog /\ cats[catalog] # None BY DEF Inv, TypeOK, Created
  <2>2. catalog # None => ~cats[catalog].onLoaded BY <1>3, <2>1 DEF Inv, Booting
  <2> QED BY <1>1, <2>2 DEF NewCatalogRevisits, Loaded
<1> QED BY <1>4, <1>5, <1>6, <1>7, <1>8 DEF Inv

\* The settings are applied: everything is analysed under them.
LEMMA RepublishOpenInv ==
    ASSUME Inv, TypeOK', RepublishOpen
    PROVE  Inv'
<1>1. /\ loop.at = "republish"
      /\ loop' = [loop EXCEPT !.at = "idle"]
      /\ queued' = Doc /\ reading' = [d \in Doc |-> None]
      /\ UNCHANGED <<catalog, reloadHook, cats, fetchers, retries, unmatched>>
  BY DEF RepublishOpen, Republish
<1>2. loop'.at = "idle" /\ loop'.booting = loop.booting BY <1>1 DEF Inv, TypeOK, Loop
<1>3. ~loop.booting BY <1>1 DEF Inv, Booting
<1>4. Created' BY <1>1, <1>2 DEF Inv, Created
<1>5. Fetches' BY <1>1 DEF Inv, Fetches, OneFetch, IsFetching
<1>6. Booting' BY <1>1, <1>2, <1>3 DEF Inv, Booting
<1>7. ReadsCatalog' /\ Quiet' BY <1>1, <1>2, <1>3 DEF Quiet, ReadsCatalog
<1>8. NewCatalogRevisits' BY <1>1 DEF NewCatalogRevisits, Revisited, TypeOK
<1> QED BY <1>4, <1>5, <1>6, <1>7, <1>8 DEF Inv

\* An analysis reads the catalog in use, and leaves its document matched, or to
\* be analysed, unless the catalog has no entries.
LEMMA AnalysisInv ==
    ASSUME Inv, TypeOK', NEW d \in Doc, Edit(d) \/ Resolve(d) \/ Match(d) \/ MatchUnloaded(d)
    PROVE  Inv'
<1>1. UNCHANGED <<catalog, reloadHook, cats, fetchers, loop>>
  BY DEF Edit, Resolve, Match, MatchUnloaded
<1>2. /\ reading \in [Doc -> Catalog \cup {None}]
      /\ reading' \in [Doc -> Catalog \cup {None}]
      /\ \A e \in Doc \ {d} : reading'[e] = reading[e] /\ (e \in queued' <=> e \in queued)
      /\ reading'[d] \in {None, catalog}
  BY DEF Inv, TypeOK, Edit, Resolve, Match, MatchUnloaded
<1>3. \A k \in retries' : cats[k] # None
  BY DEF Inv, Created, Edit, Resolve, Match, MatchUnloaded
<1>4. Created'
  <2>1. \A e \in Doc : reading'[e] # None => cats[reading'[e]] # None
    BY <1>2 DEF Inv, Created
  <2> QED BY <1>1, <1>3, <2>1 DEF Inv, Created
<1>5. Fetches' BY <1>1 DEF Inv, Fetches, OneFetch, IsFetching
<1>6. Booting' BY <1>1 DEF Inv, Booting, IsFetching
<1>7. ReadsCatalog' BY <1>1, <1>2 DEF Inv, ReadsCatalog
<1>8. ~loop.booting
  BY DEF Inv, Quiet, Edit, Resolve, Match, MatchUnloaded
<1>9. Quiet' BY <1>1, <1>8 DEF Quiet
<1>10. NewCatalogRevisits'
  <2> SUFFICES ASSUME Loaded', cats'[catalog'].onLoaded, NEW e \in unmatched'
               PROVE  e \in queued' \/ reading'[e] # None
    BY DEF NewCatalogRevisits, Revisited
  <2>1. /\ loop.at = "idle" /\ catalog # None /\ cats[catalog].ready
        /\ Loaded /\ Revisited
    BY <1>1 DEF Loaded, Inv, NewCatalogRevisits
  <2>2. e \in Doc BY DEF TypeOK
  <2>3. CASE e # d
    <3>1. e \in unmatched BY <2>3 DEF Edit, Resolve, Match, MatchUnloaded
    <3> QED BY <1>2, <2>1, <2>2, <2>3, <3>1 DEF Revisited
  <2>4. CASE e = d
    <3>1. CASE Edit(d) BY <2>4, <3>1 DEF Edit
    <3>2. CASE Resolve(d) BY <2>1, <2>4, <3>2 DEF Resolve, Inv, TypeOK
    <3>3. CASE Match(d) BY <2>4, <3>3 DEF Match
    <3>4. CASE MatchUnloaded(d) BY <2>1, <3>4 DEF MatchUnloaded, Inv, ReadsCatalog
    <3> QED BY <3>1, <3>2, <3>3, <3>4
  <2> QED BY <2>3, <2>4
<1> QED BY <1>4, <1>5, <1>6, <1>7, <1>9, <1>10 DEF Inv

\* The invariant is inductive.
LEMMA StepInv == Inv /\ [Next]_vars => Inv'
<1> SUFFICES ASSUME Inv, [Next]_vars PROVE Inv'
  OBVIOUS
<1>1. TypeOK' BY TypeStep DEF Inv
<1>2. ASSUME NEW f \in Fetcher, Fetching(f) PROVE Inv'
  BY <1>1, <1>2, FetchEndsInv, CallHookInv DEF Fetching
<1>3. ASSUME NEW c \in Catalog, RetryDue(c) \/ Retry(c) PROVE Inv'
  BY <1>1, <1>3, RetryDueInv, RetryInv
<1>4. ASSUME NEW url \in Url \cup {Unset, None}, SetSettings(url) PROVE Inv'
  BY <1>1, <1>4, SetSettingsInv
<1>5. CASE Applying
  BY <1>1, <1>5, LoadInv, StartInv, SetReloadHookInv, RepublishOpenInv DEF Applying
<1>6. ASSUME NEW d \in Doc, Edit(d) \/ Resolve(d) \/ Match(d) \/ MatchUnloaded(d) PROVE Inv'
  BY <1>1, <1>6, AnalysisInv
<1>7. CASE UNCHANGED vars
  <2>1. Created' BY <1>7 DEF vars, docVars, Inv, Created
  <2>2. Fetches' BY <1>7 DEF vars, Inv, Fetches, OneFetch, IsFetching
  <2>3. Booting' BY <1>7 DEF vars, Inv, Booting, IsFetching
  <2>4. ReadsCatalog' /\ Quiet' /\ NewCatalogRevisits'
    BY <1>7 DEF vars, docVars, Inv, ReadsCatalog, Quiet, NewCatalogRevisits, Loaded, Revisited
  <2> QED BY <1>1, <2>1, <2>2, <2>3, <2>4 DEF Inv
<1> QED BY <1>2, <1>3, <1>4, <1>5, <1>6, <1>7 DEF Next

LEMMA Invariance == Safe => []Inv
<1> QED BY InitInv, StepInv, PTL DEF Safe

-----------------------------------------------------------------------------
\* The state of catalogs, fetches and analyses keeps its types.
THEOREM CatalogTypeCorrect == Safe => []TypeOK
<1>1. Inv => TypeOK BY DEF Inv
<1> QED BY <1>1, Invariance, PTL

\* catalog.go's loading flag: however many analyses find a catalog without
\* entries, and whenever Load runs, one fetch of it is under way.
THEOREM FetchesAreExclusive == Safe => []OneFetch
<1>1. Inv => OneFetch BY DEF Inv, Fetches
<1> QED BY <1>1, Invariance, PTL

\* catalog.go:42-43, Match reads the entries without a lock once ready is set: no
\* fetch that would write them runs any more.
THEOREM MatchReadsSafely == Safe => []EntriesReadOnly
<1>1. Inv => EntriesReadOnly BY DEF Inv, Fetches, EntriesReadOnly, IsFetching
<1> QED BY <1>1, Invariance, PTL

\* The reload hook misses no document: whatever analyses ran before, between and
\* during the attempts to load the catalog that new settings brought in, once it
\* is loaded every document they left without a schema is analysed again.
THEOREM HookMissesNoDocument == Safe => []NewCatalogRevisits
<1>1. Inv => NewCatalogRevisits BY DEF Inv
<1> QED BY <1>1, Invariance, PTL
=============================================================================
