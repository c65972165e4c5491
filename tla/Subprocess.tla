----------------------------- MODULE Subprocess ------------------------------
(***************************************************************************)
(* One Render of a renderer that runs a command                            *)
(* (internal/render/subprocess): the tool and a helper it may leave in the *)
(* background, the two pipes both of them write to, the goroutines that    *)
(* copy a pipe into a capWriter, the goroutine of os/exec that waits for   *)
(* the context, and Render itself, which waits for all of them.            *)
(*                                                                         *)
(* os/exec is modelled from how subprocess.go configures it: Cancel kills  *)
(* the process group, and WaitDelay closes the pipes some time after the   *)
(* cancellation or, without one, after the tool has exited.  This is the   *)
(* Unix build.                                                             *)
(***************************************************************************)
EXTENDS Naturals, Absent

CONSTANTS
    MaxStdout,  \* maxStdoutBytes, in chunks
    MaxStderr,  \* maxStderrBytes, in chunks
    PipeSize,   \* what the operating system buffers of a stream
    MaxWritten  \* bound on what the processes write to a stream

ASSUME LimitAssumption ==
    {MaxStdout, MaxStderr, PipeSize, MaxWritten} \subseteq Nat \ {0}

VARIABLES
    run,        \* how far Render has come
    ended,      \* the context Render was given has ended
    child,      \* the tool
    exit,       \* its exit status
    helper,     \* a process the tool left behind
    holds,      \* the helper holds the pipes
    watcher,    \* the goroutine that waits for the context
    written,    \* written[s]: what has been written to stream s
    piped,      \* piped[s]: what of it has not been read
    buf,        \* buf[s]: what capWriter keeps
    copier,     \* copier[s]: the goroutine that copies s
    waitErr,    \* the error of Process.Wait or of the watcher
    runErr,     \* the error of cmd.Run
    result      \* what Render returned

processes == <<child, exit, helper, holds>>
streams == <<written, piped, buf, copier>>
vars == <<run, ended, processes, watcher, streams, waitErr, runErr, result>>

Stream == {"stdout", "stderr"}
Child == {"running", "exited", "reaped"}
Exited == {"ok", "failed", "killed"}
Helper == {"grouped", "detached", "gone"}
Watcher == {"watching", "cancelled"}
Copier == {"copying", "eof", "over", "closed"}
RunErr == {"exit", "context", "copy", "delay"}
Result == {"empty", "unavailable", "contextErr", "tooLarge", "failed", "ok", "unparsable"}

ASSUME NoneAssumption ==
    None \notin Child \cup Exited \cup Helper \cup Watcher \cup Copier \cup RunErr \cup Result

Limit == [stdout |-> MaxStdout, stderr |-> MaxStderr]

\* The render's own context: capWriter cancels it when stdout is over its limit.
Over == copier["stdout"] = "over"
ContextDone == ended \/ Over

Init ==
    /\ run = "start"
    /\ ended = FALSE
    /\ child = None /\ exit = None
    /\ helper = None /\ holds = FALSE
    /\ watcher = None
    /\ written = [s \in Stream |-> 0]
    /\ piped = [s \in Stream |-> 0]
    /\ buf = [s \in Stream |-> 0]
    /\ copier = [s \in Stream |-> None]
    /\ waitErr = None /\ runErr = None /\ result = None

-----------------------------------------------------------------------------
(* Render, and the part of cmd.Run that runs on its goroutine               *)

Returns(r) == run' = "returned" /\ result' = r

\* No such document, an unsaved buffer for a command with a path in it, or a
\* command that is not installed.
NotRun ==
    /\ run = "start"
    /\ \E r \in {"empty", "unavailable"} : Returns(r)
    /\ UNCHANGED <<ended, processes, watcher, streams, waitErr, runErr>>

\* cmd.Start
Start ==
    /\ run = "start"
    /\ IF ended
       THEN Returns("contextErr") /\ UNCHANGED <<child, watcher, copier>>
       ELSE /\ run' = "wait"
            /\ child' = "running"
            /\ watcher' = "watching"
            /\ copier' = [s \in Stream |-> "copying"]
            /\ UNCHANGED result
    /\ UNCHANGED <<ended, exit, helper, holds, written, piped, buf, waitErr, runErr>>

\* Process.Wait returns, and the watcher hands over what it has done: after this
\* the end of the context kills nothing.
Reap ==
    /\ run = "wait"
    /\ child = "exited"
    /\ child' = "reaped"
    /\ run' = "drain"
    /\ watcher' = None
    /\ waitErr' = CASE exit # "ok" -> "exit"
                    [] exit = "ok" /\ watcher = "cancelled" -> "context"
                    [] OTHER -> None
    /\ UNCHANGED <<ended, exit, helper, holds, streams, runErr, result>>

\* Both copying goroutines have ended; their error counts only when there is no
\* other.
Drained ==
    /\ run = "drain"
    /\ \A s \in Stream : copier[s] # "copying"
    /\ run' = "classify"
    /\ runErr' = IF waitErr = None /\ Over THEN "copy" ELSE waitErr
    /\ UNCHANGED <<ended, processes, watcher, streams, waitErr, result>>

\* Mutant of DelayExpires: WaitDelay is not set.
NoWaitDelay == FALSE /\ UNCHANGED vars

\* Mutant of DelayExpires: what was read so far is taken for the output.
DelayExpiresQuietly ==
    /\ run = "drain"
    /\ \E s \in Stream : copier[s] = "copying"
    /\ copier' = [s \in Stream |-> IF copier[s] = "copying" THEN "closed" ELSE copier[s]]
    /\ run' = "classify"
    /\ runErr' = waitErr
    /\ UNCHANGED <<ended, processes, watcher, written, piped, buf, waitErr, result>>

\* subprocessWaitDelay has passed: the pipes are closed, whoever holds them.
DelayExpires ==
    /\ run = "drain"
    /\ \E s \in Stream : copier[s] = "copying"
    /\ copier' = [s \in Stream |-> IF copier[s] = "copying" THEN "closed" ELSE copier[s]]
    /\ run' = "classify"
    /\ runErr' = IF waitErr = None THEN "delay" ELSE waitErr
    /\ UNCHANGED <<ended, processes, watcher, written, piped, buf, waitErr, result>>

\* Mutant of Outcomes: the context is asked before the limit.
OutcomesContextFirst ==
    CASE ContextDone /\ runErr # None -> {"contextErr"}
      [] ~ContextDone /\ runErr # None -> {"failed"}
      [] OTHER -> {"ok", "unparsable"}

\* The error of a run that was cut off is the context's, unless it was Render
\* itself that cut it off.
Outcomes ==
    CASE Over -> {"tooLarge"}
      [] ~Over /\ runErr # None /\ ContextDone -> {"contextErr"}
      [] ~Over /\ runErr # None /\ ~ContextDone -> {"failed"}
      [] OTHER -> {"ok", "unparsable"}

Classify ==
    /\ run = "classify"
    /\ \E r \in Outcomes : Returns(r)
    /\ UNCHANGED <<ended, processes, watcher, streams, waitErr, runErr>>

-----------------------------------------------------------------------------
(* The other goroutines                                                     *)

\* A timeout, or a newer Schedule of the pipeline.
ContextEnds ==
    /\ run # "returned"
    /\ ~ended
    /\ ended' = TRUE
    /\ UNCHANGED <<run, processes, watcher, streams, waitErr, runErr, result>>

\* cmd.Cancel: SIGKILL to the process group.
Cancel ==
    /\ watcher = "watching"
    /\ ContextDone
    /\ watcher' = "cancelled"
    /\ IF child = "running"
       THEN child' = "exited" /\ exit' = "killed"
       ELSE UNCHANGED <<child, exit>>
    /\ IF helper = "grouped"
       THEN helper' = "gone" /\ holds' = FALSE
       ELSE UNCHANGED <<helper, holds>>
    /\ UNCHANGED <<run, ended, streams, waitErr, runErr, result>>

\* Whether n more chunks are within the limit.
Fits(s, n) == n <= Limit[s] - buf[s]

\* One Write of the capWriter of s.  Over the limit that of stdout cancels the
\* render and fails, which ends the goroutine, and that of stderr discards.
Copy(s) ==
    /\ copier[s] = "copying"
    /\ \E n \in 1..piped[s] :
          /\ piped' = [piped EXCEPT ![s] = @ - n]
          /\ IF Fits(s, n)
             THEN /\ buf' = [buf EXCEPT ![s] = @ + n]
                  /\ UNCHANGED copier
             ELSE /\ buf' = [buf EXCEPT ![s] = Limit[s]]
                  /\ IF s = "stdout"
                     THEN copier' = [copier EXCEPT ![s] = "over"]
                     ELSE UNCHANGED copier
    /\ UNCHANGED <<run, ended, processes, watcher, written, waitErr, runErr, result>>

\* All is read and no process has the other end.
EndOfFile(s) ==
    /\ copier[s] = "copying"
    /\ piped[s] = 0
    /\ child # "running" /\ ~holds
    /\ copier' = [copier EXCEPT ![s] = "eof"]
    /\ UNCHANGED <<run, ended, processes, watcher, written, piped, buf, waitErr, runErr, result>>

-----------------------------------------------------------------------------
(* The processes.  Nothing makes them go on or end.                         *)

Write(s) ==
    /\ child = "running" \/ holds
    /\ copier[s] = "copying"
    /\ piped[s] < PipeSize
    /\ written[s] < MaxWritten
    /\ written' = [written EXCEPT ![s] = @ + 1]
    /\ piped' = [piped EXCEPT ![s] = @ + 1]
    /\ UNCHANGED <<run, ended, processes, watcher, buf, copier, waitErr, runErr, result>>

\* The tool starts a helper, in its process group or in a session of its own.
Spawn ==
    /\ child = "running"
    /\ helper = None
    /\ helper' \in {"grouped", "detached"}
    /\ holds' = TRUE
    /\ UNCHANGED <<run, ended, child, exit, watcher, streams, waitErr, runErr, result>>

\* The helper closes its ends of the pipes and goes on.
Release ==
    /\ holds
    /\ holds' = FALSE
    /\ UNCHANGED <<run, ended, child, exit, helper, watcher, streams, waitErr, runErr, result>>

HelperEnds ==
    /\ helper \in {"grouped", "detached"}
    /\ helper' = "gone"
    /\ holds' = FALSE
    /\ UNCHANGED <<run, ended, child, exit, watcher, streams, waitErr, runErr, result>>

Exit ==
    /\ child = "running"
    /\ child' = "exited"
    /\ exit' \in {"ok", "failed"}
    /\ UNCHANGED <<run, ended, helper, holds, watcher, streams, waitErr, runErr, result>>

-----------------------------------------------------------------------------
Main == NotRun \/ Start \/ Reap \/ Drained \/ DelayExpires \/ Classify

Process == Spawn \/ Release \/ HelperEnds \/ Exit \/ \E s \in Stream : Write(s)

Next ==
    \/ Main
    \/ ContextEnds
    \/ Cancel
    \/ \E s \in Stream : Copy(s) \/ EndOfFile(s)
    \/ Process

\* The goroutines are scheduled and the delay passes; the tool may hang.
Fairness ==
    /\ WF_vars(Main)
    /\ WF_vars(Cancel)
    /\ \A s \in Stream : WF_vars(Copy(s) \/ EndOfFile(s))

Spec == Init /\ [][Next]_vars /\ Fairness

-----------------------------------------------------------------------------
\* The state keeps its types: no buffer outgrows its limit.
TypeOK ==
    /\ run \in {"start", "wait", "drain", "classify", "returned"}
    /\ ended \in BOOLEAN /\ holds \in BOOLEAN
    /\ child \in Child \cup {None} /\ exit \in Exited \cup {None}
    /\ helper \in Helper \cup {None} /\ watcher \in Watcher \cup {None}
    /\ written \in [Stream -> 0..MaxWritten] /\ piped \in [Stream -> 0..PipeSize]
    /\ buf \in [Stream -> Nat] /\ \A s \in Stream : buf[s] <= Limit[s]
    /\ copier \in [Stream -> Copier \cup {None}]
    /\ waitErr \in RunErr \cup {None} /\ runErr \in RunErr \cup {None}
    /\ result \in Result \cup {None}

\* Manifests are parsed only from the whole output: a run whose pipes were closed
\* under a helper, or that ran over the limit, is never taken for a render.
NoTruncatedOutput ==
    result \in {"ok", "unparsable"} =>
        /\ exit = "ok"
        /\ buf["stdout"] = written["stdout"]

\* subprocess.go:163-164, a run the context cut off is not reported as a failure of
\* the tool; and a run Render itself cut off, for its output, is not reported as
\* cancelled, which the pipeline would neither show nor remember.
ErrorIsHonest ==
    /\ result = "failed" => exit # "killed"
    /\ result = "contextErr" => ended

\* subprocess.go:22-27, Render ends once its context has ended, its output is over
\* the limit or the tool has exited, though a helper keeps the pipes open for ever.
RenderReturns ==
    (ContextDone \/ child = "exited") ~> (run = "returned")

-----------------------------------------------------------------------------
(* What the comments say and the code does not do                           *)

\* Renders that time out, if they do, while the pipes are drained: the tool has
\* exited by then and Process.Wait has returned.
LateTimeout == Init /\ [][Next /\ (ended' # ended => run = "drain")]_vars

\* procgroup_unix.go:12-13, grandchildren do not outlive the render timeout because
\* the whole process group is killed.
GroupDoesNotOutlive ==
    result = "contextErr" => helper # "grouped"
=============================================================================
