------------------------------ MODULE DiskCache ------------------------------
(***************************************************************************)
(* The on-disk cache of one schema URL (internal/schema/diskloader.go):    *)
(* loadBytes reads the body file and the meta file, serves the body while  *)
(* it is fresh, revalidates it by its ETag otherwise and writes the two    *)
(* files back, one atomic rename each.  The process may be killed between  *)
(* any two of these steps.  Nothing keeps goroutines of one server, or     *)
(* several servers, from loading the same URL at once.                     *)
(*                                                                         *)
(* The origin's contents are numbered as they first appear, and it may go  *)
(* back to one it had before; the ETag of a content is its number.  0      *)
(* stands for a body that is not JSON.                                     *)
(***************************************************************************)
EXTENDS Naturals

CONSTANTS
    Loader,     \* goroutines, of one process or of several, in loadBytes
    None,
    MaxVersion  \* bound on the contents the origin ever has

ASSUME MaxVersionAssumption == MaxVersion \in Nat \ {0}

VARIABLES
    origin,     \* the version the origin serves
    body,       \* the body file, None when it does not exist
    meta,       \* the meta file
    loaders,    \* loaders[l]: how far l has come, None when it is not loading
    overlapped, \* history: two loads of the URL were under way at once
    wentBack    \* history: the origin went back to a content it had before

history == <<overlapped, wentBack>>
vars == <<origin, body, meta, loaders, history>>

Junk == 0
Version == 1..MaxVersion
Body == {Junk} \cup Version
Meta == [etag : Version \cup {None}, fresh : BOOLEAN]

(* meta: body file read, meta file next; request: revalidating; confirmed:  *)
(* 304 received, meta file to be written; received: 200 received, body file *)
(* to be written; written: meta file to be written.                         *)
(* body, etag: what was read; got: the version the response is about.       *)
LoaderState ==
    [at : {"meta", "request", "confirmed", "received", "written"},
     body : Body \cup {None}, etag : Version \cup {None}, got : Body \cup {None}]

ASSUME NoneAssumption ==
    None \notin Body /\ None \notin Meta /\ None \notin LoaderState

Init ==
    /\ origin = 1
    /\ body = None
    /\ meta = None
    /\ loaders = [l \in Loader |-> None]
    /\ overlapped = FALSE /\ wentBack = FALSE

-----------------------------------------------------------------------------
At(l, at) == loaders[l] # None /\ loaders[l].at = at

Ends(l) == loaders' = [loaders EXCEPT ![l] = None]

\* The response of the origin as it is now is about version v.
Answered(l, at, v) ==
    loaders' = [loaders EXCEPT
        ![l] = [at |-> at, body |-> loaders[l].body, etag |-> loaders[l].etag, got |-> v]]

\* os.ReadFile(bodyPath)
ReadBody(l) ==
    /\ loaders[l] = None
    /\ loaders' = [loaders EXCEPT
          ![l] = [at |-> "meta", body |-> body, etag |-> None, got |-> None]]
    /\ overlapped' = (overlapped \/ \E m \in Loader : loaders[m] # None)
    /\ UNCHANGED <<origin, body, meta, wentBack>>

\* readMeta; a fresh body is served as it is.
ReadMeta(l) ==
    /\ At(l, "meta")
    /\ IF loaders[l].body # None /\ meta # None /\ meta.fresh
       THEN Ends(l)
       ELSE loaders' = [loaders EXCEPT
                ![l] = [at |-> "request", body |-> loaders[l].body, got |-> None,
                        etag |-> IF meta = None THEN None ELSE meta.etag]]
    /\ UNCHANGED <<origin, body, meta, history>>

\* 304 confirms the body that was read.  Without one plainGET fetches the
\* content, which nothing stores.
NotModified(l) ==
    /\ At(l, "request")
    /\ loaders[l].etag = origin
    /\ IF loaders[l].body # None THEN Answered(l, "confirmed", origin) ELSE Ends(l)
    /\ UNCHANGED <<origin, body, meta, history>>

\* 200 with a JSON body.
Modified(l) ==
    /\ At(l, "request")
    /\ loaders[l].etag # origin
    /\ Answered(l, "received", origin)
    /\ UNCHANGED <<origin, body, meta, history>>

\* A body that is not JSON is not stored.
Stores(got) == got # Junk

\* 200 from a portal or a proxy, without a JSON body.
Misled(l) ==
    /\ At(l, "request")
    /\ IF Stores(Junk) THEN Answered(l, "received", Junk) ELSE Ends(l)
    /\ UNCHANGED <<origin, body, meta, history>>

\* No connection, a timeout, another status, a body over the limit: the body
\* that was read is served, if there is one.
Unanswered(l) ==
    /\ At(l, "request")
    /\ Ends(l)
    /\ UNCHANGED <<origin, body, meta, history>>

\* writeCacheFile(bodyPath): the temporary file is renamed into place.
WriteBody(l) ==
    /\ At(l, "received")
    /\ body' = loaders[l].got
    /\ Answered(l, "written", loaders[l].got)
    /\ UNCHANGED <<origin, meta, history>>

\* Mutant of WriteMeta: it does not wait for the body to be written.
WriteMetaAnyway(l) ==
    /\ \/ /\ At(l, "written") \/ At(l, "received")
          /\ \E e \in {loaders[l].got, None} \ {Junk} :
                meta' = [etag |-> e, fresh |-> TRUE]
       \/ /\ At(l, "confirmed")
          /\ meta' = [etag |-> loaders[l].etag, fresh |-> TRUE]
    /\ Ends(l)
    /\ UNCHANGED <<origin, body, history>>

\* writeMeta of the response's ETag, which the origin may leave out, or of the
\* one just confirmed.
WriteMeta(l) ==
    /\ \/ /\ At(l, "written")
          /\ \E e \in {loaders[l].got, None} \ {Junk} :
                meta' = [etag |-> e, fresh |-> TRUE]
       \/ /\ At(l, "confirmed")
          /\ meta' = [etag |-> loaders[l].etag, fresh |-> TRUE]
    /\ Ends(l)
    /\ UNCHANGED <<origin, body, history>>

\* A write fails, which is the end of loadBytes' writing, or the process is killed.
Stop(l) ==
    /\ loaders[l] # None
    /\ Ends(l)
    /\ UNCHANGED <<origin, body, meta, history>>

\* freshTTL passes.
Age ==
    /\ meta # None /\ meta.fresh
    /\ meta' = [meta EXCEPT !.fresh = FALSE]
    /\ UNCHANGED <<origin, body, loaders, history>>

\* The user clears the body out of the cache directory.
Remove ==
    /\ body # None
    /\ body' = None
    /\ UNCHANGED <<origin, meta, loaders, history>>

\* The origin changes its content, to a new one or back to an earlier one.
Publish ==
    /\ \E v \in Version \ {origin} :
          /\ v <= origin + 1
          /\ origin' = v
          /\ wentBack' = (wentBack \/ v < origin)
    /\ UNCHANGED <<body, meta, loaders, overlapped>>

-----------------------------------------------------------------------------
Next ==
    \/ \E l \in Loader :
          \/ ReadBody(l) \/ ReadMeta(l) \/ NotModified(l) \/ Modified(l) \/ Misled(l)
          \/ Unanswered(l) \/ WriteBody(l) \/ WriteMeta(l) \/ Stop(l)
    \/ Age
    \/ Remove
    \/ Publish

Spec == Init /\ [][Next]_vars

-----------------------------------------------------------------------------
\* The files and what the loaders hold keep their types: a confirmation is about a
\* body that was read.
TypeOK ==
    /\ origin \in Version
    /\ body \in Body \cup {None}
    /\ meta \in Meta \cup {None}
    /\ loaders \in [Loader -> LoaderState \cup {None}]
    /\ overlapped \in BOOLEAN /\ wentBack \in BOOLEAN
    /\ \A l \in Loader : At(l, "confirmed") => loaders[l].body # None

Undisturbed == ~overlapped /\ ~wentBack

\* The stored ETag belongs to no newer content than the stored body.
TagFitsBody == body # None /\ meta # None /\ meta.etag # None => meta.etag <= body

\* diskloader.go:110-112, what is in the cache is JSON, or freshTTL would keep serving
\* it.  And as long as loads came one after the other and the origin moved on only, the
\* ETag is not ahead of the body, at whatever point a write failed or the process was
\* killed: otherwise the origin would answer 304 for a content the cache does not have,
\* for good.
FilesFit == body # Junk /\ (Undisturbed => TagFitsBody)

-----------------------------------------------------------------------------
(* What the comments say and the code does not do.                         *)

\* diskloader.go:98-99, the freshness window restarts on a 304 because the origin
\* just confirmed that the cached body is current.
ConfirmedIsCurrent ==
    \A l \in Loader : At(l, "confirmed") => loaders[l].body = loaders[l].got
=============================================================================
