--------------------------- MODULE RenderRequests ---------------------------
(***************************************************************************)
(* What the render pipeline promises about one server's open documents,    *)
(* with no timers, goroutines, epochs or locks.  A URI has at most one     *)
(* request outstanding (the newest one) and at most one remembered result. *)
(* A result is only ever given to the newest request, a remembered result  *)
(* is never one that was asked for before the last Forget, and a result    *)
(* that only reports a cancelled or timed-out render is never remembered.  *)
(***************************************************************************)
EXTENDS Naturals

CONSTANTS
    Uri,       \* URIs of documents
    Text,      \* document contents
    Renderer,  \* renderers a request may be given to
    None       \* no request, no result

VARIABLES
    want,      \* want[u]: the request for u still to be answered
    memo       \* memo[u]: the last answer for u, kept for the next request

vars == <<want, memo>>

Request == [text : Text, by : Renderer]

\* How a render ended, as far as the text is concerned.
Verdict == {"none", "failed"}

Init ==
    /\ want = [u \in Uri |-> None]
    /\ memo = [u \in Uri |-> None]

\* A new request replaces the outstanding one; the same text as last time is
\* answered on the spot.
Ask(u, r) ==
    /\ want' = [want EXCEPT ![u] = IF memo[u] # None /\ memo[u].text = r.text
                                   THEN None ELSE r]
    /\ UNCHANGED memo

\* The render of the newest request ends and says something about its text.
Answer(u) ==
    /\ want[u] # None
    /\ want' = [want EXCEPT ![u] = None]
    /\ \E e \in Verdict :
          memo' = [memo EXCEPT ![u] =
                      [text |-> want[u].text, by |-> want[u].by, err |-> e]]

\* The render of the newest request was cut short.
GiveUp(u) ==
    /\ want[u] # None
    /\ want' = [want EXCEPT ![u] = None]
    /\ UNCHANGED memo

Forget(u) ==
    /\ want' = [want EXCEPT ![u] = None]
    /\ memo' = [memo EXCEPT ![u] = None]

ForgetAll ==
    /\ want' = [u \in Uri |-> None]
    /\ memo' = [u \in Uri |-> None]

Next ==
    \/ \E u \in Uri, r \in Request : Ask(u, r)
    \/ \E u \in Uri : Answer(u) \/ GiveUp(u) \/ Forget(u)
    \/ ForgetAll

Spec == Init /\ [][Next]_vars
=============================================================================
