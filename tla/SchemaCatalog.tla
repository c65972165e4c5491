---------------------------- MODULE SchemaCatalog ----------------------------
(***************************************************************************)
(* The schema catalog (internal/schema/catalog.go) as the resolver         *)
(* (internal/schema/resolver.go) and the server use it: a background fetch *)
(* with throttled retries, replaced when the catalog URL changes, matched  *)
(* by analyses that must not block, and a hook that republishes the open   *)
(* documents once a catalog becomes available.                             *)
(*                                                                         *)
(* Settings are applied by one goroutine: server.New's, then the message   *)
(* loop's.  An analysis is one run of publish for a document; a newer one  *)
(* supersedes it.                                                          *)
(***************************************************************************)
EXTENDS FiniteSets

CONSTANTS
    Url,        \* catalog URLs
    Unset,      \* the catalogUrl of settings that do not give one
    Default,    \* DefaultCatalogURL
    Catalog,    \* identities of the Catalog values created: bounds their number
    Fetcher,    \* slots for goroutines of start
    Doc,        \* open documents whose schema is resolved via the catalog
    None

ASSUME UrlAssumption == Default \in Url /\ Unset \notin Url /\ None \notin Url \cup {Unset}
ASSUME NoneAssumption == None \notin Catalog

VARIABLES
    catalog,    \* Resolver.catalog
    reloadHook, \* Resolver.reloadHook has been set
    cats,       \* cats[c]: the Catalog value c, None when not created
    fetchers,   \* fetchers[f]: a goroutine of start
    loop,       \* how far applying the settings has come
    retries,    \* catalogs an analysis found not loaded and is about to retry
    queued,     \* documents with an analysis to come
    reading,    \* reading[d]: the catalog an analysis of d is about to Match in
    unmatched   \* documents whose newest result found its catalog not loaded

docVars == <<queued, reading, unmatched>>
vars == <<catalog, reloadHook, cats, fetchers, loop, retries, docVars>>

(* onLoaded: a hook is registered; tried: lastTry is set; due: the retry    *)
(* interval has passed since; done: the channel of Wait is closed.          *)
CatState == [url : Url, onLoaded : BOOLEAN, loading : BOOLEAN, tried : BOOLEAN,
             due : BOOLEAN, ready : BOOLEAN, done : BOOLEAN]
Fetch == [cat : Catalog, phase : {"fetching", "calling"}]

(* at: Load is still to register the hook ("load") or to start the fetch    *)
(* ("start"); New is still to call SetReloadHook ("hook"); the handler is   *)
(* still to republish ("republish"); new: the catalog to load; hook: the    *)
(* hook SetSettings found.                                                  *)
Loop == [at : {"load", "start", "hook", "republish", "idle"},
         new : Catalog \cup {None}, hook : BOOLEAN, booting : BOOLEAN]

ASSUME RecordAssumption == None \notin CatState /\ None \notin Fetch

\* effectiveCatalogURL
Effective(url) == IF url = Unset THEN Default ELSE url

\* NewCatalog
NewCatalog(url) == [url |-> Effective(url), onLoaded |-> FALSE, loading |-> FALSE,
                    tried |-> FALSE, due |-> FALSE, ready |-> FALSE, done |-> FALSE]

\* New after NewResolver has applied the zero settings, up to Load: the default
\* catalog is to be loaded and there is no hook yet.
Init ==
    \E c \in Catalog :
        /\ catalog = c
        /\ reloadHook = FALSE
        /\ cats = [d \in Catalog |-> IF d = c THEN NewCatalog(Unset) ELSE None]
        /\ fetchers = [f \in Fetcher |-> None]
        /\ loop = [at |-> "load", new |-> c, hook |-> FALSE, booting |-> TRUE]
        /\ retries = {}
        /\ queued = {}
        /\ reading = [d \in Doc |-> None]
        /\ unmatched = {}

-----------------------------------------------------------------------------
\* Mutant of Starts: the check of ready is left out.
StartsWhenReady(c, retry) ==
    /\ ~cats[c].loading
    /\ retry => cats[c].tried /\ cats[c].due

(* start: nothing when a fetch runs or the entries are there; a retry also  *)
(* leaves the first attempt to Load and waits out the interval.             *)
Starts(c, retry) ==
    /\ ~cats[c].loading /\ ~cats[c].ready
    /\ retry => cats[c].tried /\ cats[c].due

Launch(c, retry) ==
    IF Starts(c, retry)
    THEN /\ cats' = [cats EXCEPT ![c] = [@ EXCEPT !.loading = TRUE, !.tried = TRUE,
                                                  !.due = FALSE]]
         /\ \E f \in Fetcher :
               /\ fetchers[f] = None
               /\ fetchers' = [fetchers EXCEPT ![f] = [cat |-> c, phase |-> "fetching"]]
    ELSE UNCHANGED <<cats, fetchers>>

\* Mutant of Ended: the channel is closed when there are entries.
EndedIfReady(c, ok) ==
    [cats EXCEPT ![c].loading = FALSE, ![c].ready = ok \/ @, ![c].done = ok \/ @]

\* The catalogs after a fetch of c with or without success; doneOnce closes done
\* after the first attempt, whatever came of it.
Ended(c, ok) ==
    [cats EXCEPT ![c].loading = FALSE, ![c].ready = ok \/ @, ![c].done = TRUE]

\* Mutant of CallsHook: only the first attempt calls it.
CallsHookOnce(c) == cats[c].onLoaded /\ ~cats[c].done

\* A fetch that brought entries calls the hook, be it the first or a retry.
CallsHook(c) == cats[c].onLoaded

\* The goroutine's fetch returns: with entries, or with an error.
FetchEnds(f) ==
    /\ fetchers[f] # None /\ fetchers[f].phase = "fetching"
    /\ LET c == fetchers[f].cat IN
          \/ /\ cats' = Ended(c, TRUE)
             /\ fetchers' = [fetchers EXCEPT
                   ![f] = IF CallsHook(c) THEN [@ EXCEPT !.phase = "calling"] ELSE None]
          \/ /\ cats' = Ended(c, FALSE)
             /\ fetchers' = [fetchers EXCEPT ![f] = None]
    /\ UNCHANGED <<catalog, reloadHook, loop, retries, docVars>>

\* republishOpen: every open document gets a new analysis.
Republish ==
    /\ queued' = Doc
    /\ reading' = [d \in Doc |-> None]
    /\ UNCHANGED unmatched

\* The goroutine calls the hook, c.mu released.
CallHook(f) ==
    /\ fetchers[f] # None /\ fetchers[f].phase = "calling"
    /\ fetchers' = [fetchers EXCEPT ![f] = None]
    /\ Republish
    /\ UNCHANGED <<catalog, reloadHook, cats, loop, retries>>

\* retryInterval passes since the last attempt.
RetryDue(c) ==
    /\ cats[c] # None /\ cats[c].tried /\ ~cats[c].due
    /\ cats' = [cats EXCEPT ![c].due = TRUE]
    /\ UNCHANGED <<catalog, reloadHook, fetchers, loop, retries, docVars>>

-----------------------------------------------------------------------------
(* SetSettings                                                              *)

\* SetSettings under r.mu, when a handler applies new settings: the catalog is
\* replaced only when the URL differs, and dropped when disabled (None).
SetSettings(url) ==
    /\ loop.at = "idle"
    /\ \/ /\ url # None
          /\ catalog # None => cats[catalog].url # Effective(url)
          /\ \E c \in Catalog :
                /\ cats[c] = None
                /\ cats' = [cats EXCEPT ![c] = NewCatalog(url)]
                /\ catalog' = c
                /\ loop' = [loop EXCEPT !.at = "load", !.new = c, !.hook = reloadHook]
       \/ /\ url # None /\ catalog # None /\ cats[catalog].url = Effective(url)
          /\ loop' = [loop EXCEPT !.at = "republish"]
          /\ UNCHANGED <<catalog, cats>>
       \/ /\ url = None
          /\ catalog' = None
          /\ loop' = [loop EXCEPT !.at = "republish"]
          /\ UNCHANGED cats
    /\ UNCHANGED <<reloadHook, fetchers, retries, docVars>>

\* Load under c.mu: other goroutines can already see the catalog.
Load ==
    /\ loop.at = "load"
    /\ cats' = [cats EXCEPT ![loop.new].onLoaded = loop.hook]
    /\ loop' = [loop EXCEPT !.at = "start"]
    /\ UNCHANGED <<catalog, reloadHook, fetchers, retries, docVars>>

\* Load's start(false).
Start ==
    /\ loop.at = "start"
    /\ Launch(loop.new, FALSE)
    /\ loop' = [loop EXCEPT !.at = IF loop.booting THEN "hook" ELSE "republish", !.new = None]
    /\ UNCHANGED <<catalog, reloadHook, retries, docVars>>

\* New's SetReloadHook.
SetReloadHook ==
    /\ loop.at = "hook"
    /\ reloadHook' = TRUE
    /\ loop' = [loop EXCEPT !.at = "idle", !.booting = FALSE]
    /\ UNCHANGED <<catalog, cats, fetchers, retries, docVars>>

\* The end of didChangeConfig and reloadWorkspaceConfig: all open documents are
\* analysed anew.
RepublishOpen ==
    /\ loop.at = "republish"
    /\ loop' = [loop EXCEPT !.at = "idle"]
    /\ Republish
    /\ UNCHANGED <<catalog, reloadHook, cats, fetchers, retries>>

-----------------------------------------------------------------------------
(* Analyses                                                                 *)

\* didOpen or didChange
Edit(d) ==
    /\ ~loop.booting
    /\ queued' = queued \cup {d}
    /\ reading' = [reading EXCEPT ![d] = None]
    /\ UNCHANGED <<catalog, reloadHook, cats, fetchers, loop, retries, unmatched>>

\* Resolve reads r.catalog under r.mu.  With none the document has no schema and
\* the analysis is complete.
Resolve(d) ==
    /\ d \in queued
    /\ queued' = queued \ {d}
    /\ reading' = [reading EXCEPT ![d] = catalog]
    /\ unmatched' = IF catalog = None THEN unmatched \ {d} ELSE unmatched
    /\ UNCHANGED <<catalog, reloadHook, cats, fetchers, loop, retries>>

\* Match with the entries loaded.
Match(d) ==
    /\ reading[d] # None /\ cats[reading[d]].ready
    /\ reading' = [reading EXCEPT ![d] = None]
    /\ unmatched' = unmatched \ {d}
    /\ UNCHANGED <<catalog, reloadHook, cats, fetchers, loop, retries, queued>>

\* Match without: there is no schema for now, and start(true) follows.
MatchUnloaded(d) ==
    /\ reading[d] # None /\ ~cats[reading[d]].ready
    /\ retries' = retries \cup {reading[d]}
    /\ reading' = [reading EXCEPT ![d] = None]
    /\ unmatched' = unmatched \cup {d}
    /\ UNCHANGED <<catalog, reloadHook, cats, fetchers, loop, queued>>

\* start(true)
Retry(c) ==
    /\ c \in retries
    /\ Launch(c, TRUE)
    /\ retries' = retries \ {c}
    /\ UNCHANGED <<catalog, reloadHook, loop, docVars>>

-----------------------------------------------------------------------------
Applying == Load \/ Start \/ SetReloadHook \/ RepublishOpen
Fetching(f) == FetchEnds(f) \/ CallHook(f)

Next ==
    \/ \E f \in Fetcher : Fetching(f)
    \/ \E c \in Catalog : RetryDue(c) \/ Retry(c)
    \/ \E url \in Url \cup {Unset, None} : SetSettings(url)
    \/ Applying
    \/ \E d \in Doc : Edit(d) \/ Resolve(d) \/ Match(d) \/ MatchUnloaded(d)

Safe == Init /\ [][Next]_vars

\* The fetch ends with the client's timeout at the latest; goroutines run.
Fairness == WF_vars(Applying) /\ \A f \in Fetcher : WF_vars(Fetching(f))

Spec == Safe /\ Fairness

-----------------------------------------------------------------------------
\* The state keeps its types: a catalog has a URL to fetch.
TypeOK ==
    /\ catalog \in Catalog \cup {None}
    /\ reloadHook \in BOOLEAN
    /\ cats \in [Catalog -> CatState \cup {None}]
    /\ fetchers \in [Fetcher -> Fetch \cup {None}]
    /\ loop \in Loop
    /\ retries \subseteq Catalog
    /\ queued \subseteq Doc
    /\ reading \in [Doc -> Catalog \cup {None}]
    /\ unmatched \subseteq Doc

\* At most one fetch of a catalog is under way, whoever asks for one: Load, and
\* the retries of concurrent analyses.
OneFetch ==
    \A f, g \in Fetcher :
        /\ fetchers[f] # None /\ fetchers[f].phase = "fetching"
        /\ fetchers[g] # None /\ fetchers[g].phase = "fetching"
        /\ fetchers[f].cat = fetchers[g].cat
        => f = g

\* catalog.go:42-43, the entries are read-only once ready is set: Match reads them
\* without a lock, so no fetch that would write them may be under way any more.
EntriesReadOnly ==
    \A f \in Fetcher : fetchers[f] # None /\ fetchers[f].phase = "fetching" =>
        ~cats[fetchers[f].cat].ready

\* The catalog in use is loaded, its hook, if any, has run and the settings are
\* applied.
Loaded ==
    /\ loop.at = "idle"
    /\ catalog # None /\ cats[catalog].ready
    /\ \A f \in Fetcher : fetchers[f] # None => fetchers[f].cat # catalog

\* A document shown without a schema because its catalog was not there yet is
\* analysed again.
Revisited == \A d \in unmatched : d \in queued \/ reading[d] # None

\* A catalog the settings brought in gives every document its schema once it is
\* loaded, whatever analyses ran before, between and during the attempts.
NewCatalogRevisits == Loaded /\ cats[catalog].onLoaded => Revisited

\* WaitForCatalog, with which the command line waits for the first attempt,
\* returns for every catalog whose settings were applied.
WaitReturns ==
    \A c \in Catalog : cats[c] # None ~> cats[c] # None /\ cats[c].done

\* server.go:488-490, documents resolved via the background-loaded catalog get
\* their diagnostics once it becomes available.
CatalogRevisits == Loaded => Revisited
=============================================================================
