------------------------------ MODULE TtyRuntime ------------------------------
(***************************************************************************)
(* The TTY runtime (app/src/pty_runtime*.rs): the shell runs on a PTY and  *)
(* its output passes to the terminal rldyourterm was started in.  Two      *)
(* threads: the main loop polls the child, the signals of the read pump    *)
(* and the terminal's events; the read pump copies the output through a    *)
(* buffer that it flushes now and then.  They share a channel for one      *)
(* signal and the join handle.  The PTY is used by the main thread alone,  *)
(* so that one call of it is one step here; PtyIo has its inside.  Raw     *)
(* mode is held by a guard of the whole call and is left out.              *)
(***************************************************************************)
EXTENDS SessionController

CONSTANTS
  MaxChunks,      \* bound: chunks the session's processes write
  MinTimeout,     \* the shortest wait for an event, of every mode
  MaxTimeoutOf    \* the longest, by render mode (derive_poll_timeouts)

Modes == {"Auto", "Gpu", "Cpu"}

ASSUME TtyAssumption ==
  /\ MaxChunks \in Nat /\ MinTimeout \in Nat \ {0}
  /\ MaxTimeoutOf \in [Modes -> Nat] /\ \A m \in Modes : MaxTimeoutOf[m] >= MinTimeout

VARIABLES
  child,       \* "none", "running", "gone" (its terminal is closed, it cannot be reaped yet),
               \* "exited" (it can), "lost" (reaped by someone else)
  slave,       \* does some process hold the slave side of the PTY
  signalled,   \* what became of the kill: "no", "yes", "refused" by the system
  cached,      \* exit code the handle knows: "none", "child", "unknown"
  written,     \* chunks written to the slave so far
  taken,       \* chunks the read pump took
  shown,       \* chunks flushed to stdout
  overdue,     \* the flush interval passed since last_flush
  pump,        \* "none", "reading", "ended" (its sender is dropped), "finished"
  broken,      \* history: the PTY or stdout failed the pump, perhaps without a word of it
  signal,      \* what the pump sent and nobody received: "none", "stdout", "failure"
  pc,          \* where the main thread is
  session,     \* session_policy
  exitCode,    \* exit_code: "none", "zero", "child", "unknown"
  localExit,   \* requested_local_exit
  fatal,       \* the boundary of fatal_error, or "none"
  mode,        \* active_mode
  timeout      \* EventPollController.next_timeout

process == <<child, slave, written>>
handle == <<signalled, cached>>
stream == <<taken, shown, overdue, pump, broken>>
verdict == <<exitCode, localExit, fatal>>
polling == <<mode, timeout>>
vars == <<process, handle, stream, signal, pc, session, verdict, polling>>

Init ==
  /\ child = "none" /\ slave = FALSE /\ written = 0
  /\ signalled = "no" /\ cached = "none"
  /\ taken = 0 /\ shown = 0 /\ overdue = FALSE /\ pump = "none" /\ broken = FALSE
  /\ signal = "none"
  /\ pc = "start" /\ session = newController
  /\ exitCode = "none" /\ localExit = FALSE /\ fatal = "none"
  /\ mode \in Modes /\ timeout = MinTimeout

----------------------------------------------------------------------------
(* The processes of the session.                                            *)

ChildWrites ==
  /\ slave /\ written < MaxChunks
  /\ written' = written + 1
  /\ UNCHANGED <<child, slave, handle, stream, signal, pc, session, verdict, polling>>

(* The child closes its terminal, which it does before it can be reaped; a  *)
(* process it started may keep the slave open, for as long as it likes.     *)
ChildEnds ==
  /\ child = "running" /\ child' = "gone"
  /\ slave' \in {slave, FALSE}
  /\ UNCHANGED <<written, handle, stream, signal, pc, session, verdict, polling>>

ChildReapable ==
  /\ child = "gone" /\ child' \in {"exited", "lost"}
  /\ UNCHANGED <<slave, written, handle, stream, signal, pc, session, verdict, polling>>

SlaveCloses ==
  /\ slave /\ slave' = FALSE
  /\ UNCHANGED <<child, written, handle, stream, signal, pc, session, verdict, polling>>

----------------------------------------------------------------------------
(* Calls of the PTY handle (PtyIo).                                         *)

(* try_wait: the real code once it is known, nothing of a child that runs,  *)
(* the unknown code of one that was reaped elsewhere, or an error.          *)
TryWait(result) ==
  /\ result \in IF cached = "child" THEN {"child"}
                ELSE {"error", CASE child = "exited" -> "child"
                                 [] child = "lost" -> "unknown"
                                 [] OTHER -> "running"}
  /\ cached' = IF result \in {"child", "unknown"} THEN result ELSE cached

(* close, kill and drop: a child whose code is not known is signalled and   *)
(* polled a bounded number of times.                                        *)
Terminate(ok) ==
  \/ cached = "child" /\ ok /\ UNCHANGED handle
  \/ /\ cached # "child" /\ ok /\ signalled' = "yes"
     /\ cached' = IF child = "exited" THEN "child" ELSE "unknown"
  \/ cached # "child" /\ ~ok /\ signalled' \in {"yes", "refused"} /\ UNCHANGED cached

----------------------------------------------------------------------------
(* The read pump.                                                           *)

(* One turn of its loop.  A chunk is flushed when it holds the end of a     *)
(* line or fills the buffer ("ends"), or when the interval has passed.      *)
PumpTakes(ends) ==
  /\ pump = "reading" /\ taken < written
  /\ taken' = taken + 1
  /\ IF ends \/ overdue THEN shown' = taken' /\ overdue' = FALSE ELSE UNCHANGED <<shown, overdue>>
  /\ UNCHANGED <<process, handle, pump, broken, signal, pc, session, verdict, polling>>

(* stdout refuses the chunk, or the flush of it.  What waits in the buffer  *)
(* is flushed after the loop, as far as stdout takes it.                    *)
PumpLosesStdout(kind) ==
  /\ pump = "reading" /\ taken < written
  /\ taken' = taken + 1 /\ shown' \in shown..taken
  /\ signal' = kind /\ pump' = "ended" /\ broken' = TRUE
  /\ UNCHANGED <<process, handle, overdue, pc, session, verdict, polling>>

PumpReadFails ==
  /\ pump = "reading"
  /\ signal' = "failure" /\ pump' = "ended" /\ broken' = TRUE /\ shown' \in shown..taken
  /\ UNCHANGED <<process, handle, taken, overdue, pc, session, verdict, polling>>

(* The end of the output.  A flush after the loop that fails is ignored: no *)
(* signal tells of it.                                                      *)
PumpReadsEnd ==
  /\ pump = "reading" /\ taken = written /\ ~slave
  /\ pump' = "ended"
  /\ \/ shown' = taken /\ UNCHANGED broken
     \/ shown' \in shown..taken /\ broken' = TRUE
  /\ UNCHANGED <<process, handle, taken, overdue, signal, pc, session, verdict, polling>>

PumpFinishes ==
  /\ pump = "ended" /\ pump' = "finished"
  /\ UNCHANGED <<process, handle, taken, shown, overdue, broken, signal, pc, session, verdict,
                 polling>>

IntervalPasses ==
  /\ ~overdue /\ overdue' = TRUE
  /\ UNCHANGED <<process, handle, taken, shown, pump, broken, signal, pc, session, verdict,
                 polling>>

PumpRuns == (\E ends \in BOOLEAN : PumpTakes(ends)) \/ PumpReadsEnd \/ PumpFinishes

PumpBreaks == (\E kind \in {"stdout", "failure"} : PumpLosesStdout(kind)) \/ PumpReadFails

----------------------------------------------------------------------------
(* The main thread: start.                                                  *)

(* A shell that cannot be started, and before it a terminal that is none.   *)
StartFails ==
  /\ pc = "start" /\ pc' = "returned" /\ fatal' = "start"
  /\ UNCHANGED <<process, handle, stream, signal, session, exitCode, localExit, polling>>

Spawn ==
  /\ pc = "start" /\ pc' = "takeReader"
  /\ child' = "running" /\ slave' = TRUE
  /\ UNCHANGED <<written, handle, stream, signal, session, verdict, polling>>

(* take_reader and take_writer look at the child first.                     *)
TakeReader ==
  /\ pc = "takeReader" /\ TryWait("running") /\ pc' = "takeWriter"
  /\ UNCHANGED <<process, signalled, stream, signal, session, verdict, polling>>

TakeWriter ==
  /\ pc = "takeWriter" /\ TryWait("running") /\ pc' = "poll"
  /\ pump' = "reading" /\ session' = markRunning(session).session
  /\ UNCHANGED <<process, signalled, taken, shown, overdue, broken, signal, verdict, polling>>

TakeFails ==
  /\ pc \in {"takeReader", "takeWriter"}
  /\ \E result \in {"child", "unknown", "error"} : TryWait(result)
  /\ pc' = "dropped" /\ fatal' = "start"
  /\ UNCHANGED <<process, signalled, stream, signal, session, exitCode, localExit, polling>>

(* Drop of the handle on the way out.                                       *)
DropHandle ==
  /\ pc = "dropped" /\ pc' = "returned"
  /\ \E ok \in BOOLEAN : Terminate(ok)
  /\ UNCHANGED <<process, stream, signal, session, verdict, polling>>

----------------------------------------------------------------------------
(* The main thread: its loop.                                               *)

EndsAs(code) == pc' = "ended" /\ exitCode' = code /\ UNCHANGED <<localExit, fatal>>

(* Mutated form: the exit is not noted as one of the user's. *)
EndsLocallyUnnoted ==
  /\ pc' = "ended"
  /\ exitCode' = IF exitCode = "none" THEN "zero" ELSE exitCode
  /\ UNCHANGED <<localExit, fatal>>

EndsLocally ==
  /\ pc' = "ended" /\ localExit' = TRUE
  /\ exitCode' = IF exitCode = "none" THEN "zero" ELSE exitCode
  /\ UNCHANGED fatal

EndsFatally(boundary) ==
  pc' = "ended" /\ fatal' = boundary /\ UNCHANGED <<exitCode, localExit>>

CloseAndEnd ==
  \/ Terminate(TRUE) /\ EndsLocally
  \/ Terminate(FALSE) /\ EndsFatally("close")

(* force_fatal_pty_boundary_failure, fatal_pty_boundary_failure             *)
FailsFatally(boundary, result) ==
  /\ session' = result.session
  /\ EndsFatally(IF result.outcome = "refused" THEN "policy" ELSE boundary)

(* handle_pty_boundary_failure                                              *)
BoundaryFails(boundary) ==
  LET result == handleBoundary(session, boundary)
  IN  IF result.outcome \in {"RetryCurrentPath", "SwitchShell"}
      THEN session' = result.session /\ pc' = "poll" /\ UNCHANGED verdict
      ELSE FailsFatally(boundary, result)

(* mark_pty_boundary_recovered                                              *)
Recovered ==
  /\ session' = IF session.state = "Degraded" THEN markRunning(session).session ELSE session
  /\ pc' = "poll" /\ UNCHANGED verdict

PollChild ==
  /\ pc = "poll"
  /\ \/ TryWait("running") /\ pc' = "signals" /\ UNCHANGED <<session, verdict>>
     \/ \E code \in {"child", "unknown"} : TryWait(code) /\ EndsAs(code) /\ UNCHANGED session
     \/ TryWait("error") /\ FailsFatally("PtyWait", handleBoundary(session, "PtyWait"))
  /\ UNCHANGED <<process, signalled, stream, signal, polling>>

(* resolve_live_pty_read_failure                                            *)
ReaderLost ==
  \/ \E code \in {"child", "unknown"} : TryWait(code) /\ EndsAs(code) /\ UNCHANGED session
  \/ TryWait("running") /\ FailsFatally("PtyRead", handleFatalBoundary(session))
  \/ TryWait("error") /\ FailsFatally("PtyWait", handleBoundary(session, "PtyWait"))

NoSignal ==
  /\ pc = "signals" /\ signal = "none" /\ pump # "finished" /\ pc' = "event"
  /\ UNCHANGED <<process, handle, stream, signal, session, verdict, polling>>

ReaderSignals ==
  /\ pc = "signals" /\ (signal = "failure" \/ (signal = "none" /\ pump = "finished"))
  /\ signal' = "none" /\ ReaderLost
  /\ UNCHANGED <<process, signalled, stream, polling>>

StdoutDisconnects ==
  /\ pc = "signals" /\ signal = "stdout" /\ signal' = "none"
  /\ CloseAndEnd
  /\ UNCHANGED <<process, stream, session, polling>>

(* The loop waits for an event at most so long: on_idle_poll doubles it.    *)
IdlePoll ==
  /\ pc = "event" /\ pc' = "poll"
  /\ timeout' = IF 2 * timeout < MaxTimeoutOf[mode] THEN 2 * timeout ELSE MaxTimeoutOf[mode]
  /\ UNCHANGED <<process, handle, stream, signal, session, verdict, mode>>

(* handle_terminal_event_disconnect: of poll, or of read                    *)
InputDisconnects ==
  /\ pc = "event" /\ UNCHANGED session
  /\ \/ \E code \in {"child", "unknown"} : TryWait(code) /\ EndsAs(code) /\ UNCHANGED signalled
     \/ TryWait("error") /\ EndsFatally("input") /\ UNCHANGED signalled
     \/ /\ cached # "child" /\ child \notin {"exited", "lost"}
        /\ CloseAndEnd
  /\ UNCHANGED <<process, stream, signal, polling>>

InputFails ==
  /\ pc = "event" /\ EndsFatally("input")
  /\ UNCHANGED <<process, handle, stream, signal, session, polling>>

(* An event was read: on_terminal_event.                                    *)
Event == pc = "event" /\ timeout' = MinTimeout /\ UNCHANGED <<process, stream, signal>>

(* Mutated form: the key only leaves the loop. *)
LocalShutdownKeyBreaks ==
  /\ Event /\ pc' = "ended"
  /\ UNCHANGED <<handle, session, verdict, mode>>

LocalShutdownKey ==
  /\ Event /\ pc' = "ended" /\ localExit' = TRUE
  /\ UNCHANGED <<handle, session, exitCode, fatal, mode>>

(* A key for the palette, which may change the mode, and an event that is   *)
(* of no interest.                                                          *)
PaletteKey ==
  /\ Event /\ pc' = "poll" /\ mode' \in Modes
  /\ UNCHANGED <<handle, session, verdict>>

KeyWritten == Event /\ Recovered /\ UNCHANGED <<handle, mode>>

(* handle_pty_io_failure: a disconnected PTY of a child that exited is no   *)
(* failure.                                                                 *)
KeyWriteFails ==
  /\ Event /\ UNCHANGED <<signalled, mode>>
  /\ \/ \E code \in {"child", "unknown"} : TryWait(code) /\ EndsAs(code) /\ UNCHANGED session
     \/ TryWait("error") /\ EndsFatally("PtyWrite") /\ UNCHANGED session
     \/ UNCHANGED cached /\ BoundaryFails("PtyWrite")

Resized == Event /\ Recovered /\ UNCHANGED <<handle, mode>>

ResizeFails == Event /\ BoundaryFails("PtyResize") /\ UNCHANGED <<handle, mode>>

TerminalEvent ==
  \/ IdlePoll \/ InputDisconnects \/ InputFails \/ LocalShutdownKey \/ PaletteKey
  \/ KeyWritten \/ KeyWriteFails \/ Resized \/ ResizeFails

----------------------------------------------------------------------------
(* The main thread: after the loop.                                         *)

Conclude ==
  /\ pc = "ended" /\ pc' = "close"
  /\ exitCode' = IF localExit /\ exitCode = "none" THEN "zero" ELSE exitCode
  /\ UNCHANGED <<process, handle, stream, signal, session, localExit, fatal, polling>>

(* Mutated form: a session with an exit code is taken for closed. *)
CloseUnlessCoded ==
  /\ pc = "close" /\ pc' = "join"
  /\ \/ exitCode = "none" /\ Terminate(TRUE) /\ UNCHANGED fatal
     \/ exitCode = "none" /\ Terminate(FALSE) /\ fatal' = IF fatal = "none" THEN "close" ELSE fatal
     \/ exitCode # "none" /\ UNCHANGED <<handle, fatal>>
  /\ UNCHANGED <<process, stream, signal, session, exitCode, localExit, polling>>

Close ==
  /\ pc = "close" /\ pc' = "join"
  /\ \/ Terminate(TRUE) /\ UNCHANGED fatal
     \/ Terminate(FALSE) /\ fatal' = IF fatal = "none" THEN "close" ELSE fatal
  /\ UNCHANGED <<process, stream, signal, session, exitCode, localExit, polling>>

(* Mutated form: the join has no timeout. *)
JoinUnbounded ==
  /\ pc = "join" /\ pump = "finished" /\ pc' = "returned"
  /\ UNCHANGED <<process, handle, stream, signal, session, verdict, polling>>

(* join_thread_with_timeout: joined, or left behind after 750 ms            *)
Join ==
  /\ pc = "join" /\ pc' = IF pump = "finished" THEN "returned" ELSE "detached"
  /\ UNCHANGED <<process, handle, stream, signal, session, verdict, polling>>

MainLoop ==
  \/ PollChild \/ NoSignal \/ ReaderSignals \/ StdoutDisconnects \/ TerminalEvent
  \/ Conclude \/ Close \/ Join

TakesHandles == TakeReader \/ TakeWriter \/ TakeFails \/ DropHandle

Next ==
  \/ StartFails \/ Spawn \/ TakesHandles
  \/ MainLoop \/ PumpRuns \/ PumpBreaks \/ IntervalPasses
  \/ ChildWrites \/ ChildEnds \/ ChildReapable \/ SlaveCloses

Spec == Init /\ [][Next]_vars

(* The main thread runs, and waits for an event no longer than its timeout; *)
(* the pump runs while it has something to read; time passes; a child that  *)
(* closed its terminal can be reaped.  Nothing is promised of what the      *)
(* processes of the session do.                                             *)
Fairness ==
  /\ WF_vars(TakesHandles \/ MainLoop) /\ WF_vars(PumpRuns) /\ WF_vars(IntervalPasses)
  /\ WF_vars(ChildReapable)

FairSpec == Spec /\ Fairness

----------------------------------------------------------------------------
(* Properties.                                                              *)

Ended == pc \in {"returned", "detached"}

StreamTypes ==
  /\ written \in 0 .. MaxChunks /\ taken \in 0 .. written /\ shown \in 0 .. taken
  /\ overdue \in BOOLEAN /\ pump \in {"none", "reading", "ended", "finished"}
  /\ broken \in BOOLEAN /\ signal \in {"none", "stdout", "failure"}

HandleTypes ==
  /\ child \in {"none", "running", "gone", "exited", "lost"} /\ slave \in BOOLEAN
  /\ signalled \in {"no", "yes", "refused"} /\ cached \in {"none", "child", "unknown"}

MainTypes ==
  /\ pc \in {"start", "takeReader", "takeWriter", "dropped", "poll", "signals", "event",
             "ended", "close", "join", "returned", "detached"}
  /\ session \in Controllers
  /\ exitCode \in {"none", "zero", "child", "unknown"} /\ localExit \in BOOLEAN
  /\ fatal \in {"none", "start", "PtyRead", "PtyWrite", "PtyResize", "PtyWait", "input", "close",
                "policy"}
  /\ mode \in Modes

(* The variables have their types; no more is shown than was taken, nor     *)
(* taken than was written; the wait for an event is never longer than the   *)
(* longest of some mode, nor shorter than the shortest (on_idle_poll).      *)
TypeOK ==
  /\ StreamTypes /\ HandleTypes /\ MainTypes
  /\ timeout \in MinTimeout .. MaxTimeoutOf[mode]

(* The loop never ends without a verdict, so that the call after it never   *)
(* blocks in wait for a child that may never exit (the else branch after    *)
(* the loop of run_interactive_pty).                                        *)
LoopEndsWithVerdict == pc = "ended" => localExit \/ exitCode # "none" \/ fatal # "none"

(* An answer of success is honest: a code of zero of its own only after a   *)
(* local exit, the code of the child only of a child that exited, and       *)
(* always one of them (exit_code, get_or_insert).                           *)
ResultIsHonest ==
  Ended /\ fatal = "none" =>
    /\ exitCode # "none"
    /\ exitCode = "zero" => localExit
    /\ exitCode = "child" => child = "exited"
    /\ exitCode = "unknown" => child = "lost"

(* However the call returns, the child has gone or was sent its signal, or  *)
(* the system refused to (close after the loop, Drop before it).            *)
ChildNotLeft == Ended /\ child = "running" => signalled # "no"

(* A pump that was joined showed everything its session wrote, unless the   *)
(* PTY or stdout failed it, the flush after its loop included (that flush,  *)
(* the join).                                                               *)
JoinedPumpShowedAll == pc = "returned" /\ pump # "none" /\ ~broken => shown = written

(* The runtime asks the session policy for nothing that it refuses, and its *)
(* loop goes on only with a live session (handle_pty_boundary_failure,      *)
(* mark_pty_boundary_recovered).                                            *)
PolicyObeyed ==
  /\ fatal # "policy"
  /\ pc \in {"poll", "signals", "event"} => session.state \in {"Running", "Degraded"}

(* The loop goes on only with a live session, and ends only with a verdict. *)
LoopKeepsPolicy == LoopEndsWithVerdict /\ PolicyObeyed

(* What the call leaves behind: no child without a signal, and nothing that *)
(* was written and not shown.                                               *)
NothingIsLeft == ChildNotLeft /\ JoinedPumpShowedAll

(* The call returns once the child can be reaped, even if a process that it *)
(* left behind keeps the PTY open (try_wait at the top of the loop, the     *)
(* bounded join).                                                           *)
ReturnsAfterExit == child \in {"exited", "lost"} /\ pc # "start" ~> Ended

(* A session that lost its only reader does not go on without it: it ends   *)
(* ("live reader loss must be fatal under single-reader PTY contract",      *)
(* pty_boundary.rs:317).                                                    *)
ReaderLossEnds == pump = "finished" ~> Ended

(* The call returns after either.                                           *)
TtyReturns == ReturnsAfterExit /\ ReaderLossEnds

=============================================================================
