---------------------------- MODULE GuiShutdown ----------------------------
(***************************************************************************)
(* The threads of the GUI runtime around the PTY handle of PtyIo: the event *)
(* loop thread spawns the PTY and the two pumps, runs the handlers that     *)
(* touch the handle, and tears the session down in shutdown(); the wait     *)
(* pump blocks in wait(); the reader pump ends with the output.             *)
(***************************************************************************)
EXTENDS PtyIo

CONSTANTS
  Main,        \* the event loop thread
  Waiter,      \* the wait pump thread
  MaxResizes   \* bound on the calls of resize

(* Besides the resizes the event loop thread takes the reader and the       *)
(* writer, polls the child twice and closes the session.                    *)
ASSUME GuiThreads ==
  /\ Threads = {Main, Waiter} /\ Main # Waiter
  /\ MayCall[Main] = Op \ {"wait", "kill"} /\ MayCall[Waiter] = {"wait"}
  /\ MaxResizes \in Nat
  /\ MaxCalls[Main] = MaxResizes + 5 /\ MaxCalls[Waiter] = 1

VARIABLES
  phase,         \* where the event loop thread is between two calls
  exitKnown,     \* exit_code is some
  fatal,         \* fatal_error is some
  waitReported,  \* the wait pump's event was handled
  readerPump     \* the reader pump: "none", "running", "done"

ptyVars == vars
guiVars == <<phase, exitKnown, fatal, waitReported, readerPump>>
allVars == <<ptyVars, guiVars>>

GuiInit ==
  /\ Init
  /\ phase = "spawning" /\ exitKnown = FALSE /\ fatal = FALSE /\ waitReported = FALSE
  /\ readerPump = "none"

exitSeen == result[Main] \in {"final", "unknown"}

(* The event loop thread makes a call, and goes on in a phase of its own.   *)
MainCalls(o, next) == Call(Main, o) /\ phase' = next
Returned(in) == phase = in /\ pc[Main] = "idle"

----------------------------------------------------------------------------
(* run_interactive_gui_pty until the event loop runs.                       *)

SpawnPty ==
  /\ phase = "spawning"
  /\ Factory
  /\ phase' = CASE spawn' = "ready" -> "take reader" [] spawn' = "failed" -> "failed"
                [] OTHER -> "spawning"
  /\ spawn' = "ready" => holders' = {Main}
  /\ UNCHANGED <<exitKnown, fatal, waitReported, readerPump>>

TakeReader ==
  /\ phase = "take reader" /\ MainCalls("take_reader", "reader taken")
  /\ UNCHANGED <<exitKnown, fatal, waitReported, readerPump>>

TakeWriter ==
  /\ Returned("reader taken")
  /\ IF result[Main] = "reader"
       THEN MainCalls("take_writer", "writer taken")
       ELSE Release(Main) /\ phase' = "failed"
  /\ UNCHANGED <<exitKnown, fatal, waitReported, readerPump>>

(* Both pumps are spawned, once there is an event loop; the wait pump gets  *)
(* a handle of its own.                                                     *)
SpawnPumps ==
  /\ Returned("writer taken")
  /\ \/ /\ result[Main] = "writer"
        /\ Share(Main, Waiter) /\ phase' = "app" /\ readerPump' = "running"
     \/ Release(Main) /\ phase' = "failed" /\ UNCHANGED readerPump
  /\ UNCHANGED <<exitKnown, fatal, waitReported>>

(* GuiRuntimeApp::new; when it fails the pumps are left to themselves.      *)
StartApp ==
  /\ phase = "app"
  /\ \/ phase' = "loop" /\ UNCHANGED ptyVars
     \/ phase' = "failed" /\ Release(Main)
  /\ UNCHANGED <<exitKnown, fatal, waitReported, readerPump>>

----------------------------------------------------------------------------
(* The pumps. *)

WaitPumpWaits ==
  /\ Call(Waiter, "wait")
  /\ UNCHANGED guiVars

WaitPumpEnds ==
  /\ calls[Waiter] = 1 /\ Release(Waiter)
  /\ UNCHANGED guiVars

(* The output ends once the child is gone, or the read fails.               *)
ReaderPumpEnds ==
  /\ readerPump = "running" /\ process # "running"
  /\ readerPump' = "done"
  /\ UNCHANGED <<ptyVars, phase, exitKnown, fatal, waitReported>>

ReaderPumpFails ==
  /\ readerPump = "running" /\ phase = "loop" /\ pc[Main] = "idle"
  /\ readerPump' = "done" /\ phase' = "reader failed"
  /\ UNCHANGED <<ptyVars, exitKnown, fatal, waitReported>>

----------------------------------------------------------------------------
(* Handlers of the event loop thread that touch the handle or end the loop. *)

Resizes ==
  /\ phase = "loop" /\ ~fatal /\ calls[Main] < MaxResizes + 2
  /\ MainCalls("resize", "resized")
  /\ UNCHANGED <<exitKnown, fatal, waitReported, readerPump>>

(* A failed resize is a recoverable boundary failure, or the last one.      *)
ResizeReturns ==
  /\ Returned("resized") /\ phase' = "loop"
  /\ fatal' \in {fatal, fatal \/ result[Main] # "ok"}
  /\ UNCHANGED <<ptyVars, exitKnown, waitReported, readerPump>>

(* user_event(Exited) or user_event(PtyFailure(PtyWait)): a wait that       *)
(* failed is fatal.                                                         *)
WaitReports ==
  /\ phase = "loop" /\ pc[Waiter] = "idle" /\ calls[Waiter] = 1 /\ ~waitReported
  /\ waitReported' = TRUE
  /\ IF result[Waiter] = "error"
       THEN fatal' = TRUE /\ UNCHANGED exitKnown
       ELSE exitKnown' = TRUE /\ UNCHANGED fatal
  /\ UNCHANGED <<ptyVars, phase, readerPump>>

(* resolve_live_pty_read_failure: the child is polled unless its exit is    *)
(* known.                                                                   *)
ReadFailurePolls ==
  /\ phase = "reader failed"
  /\ IF exitKnown
       THEN phase' = "loop" /\ UNCHANGED ptyVars
       ELSE MainCalls("try_wait", "polled")
  /\ UNCHANGED <<exitKnown, fatal, waitReported, readerPump>>

ReadFailureResolved ==
  /\ Returned("polled") /\ phase' = "loop"
  /\ exitKnown' = (exitKnown \/ exitSeen)
  /\ fatal' = (fatal \/ ~exitSeen)
  /\ UNCHANGED <<ptyVars, waitReported, readerPump>>

(* The failure budget of another boundary, or the GPU, is exhausted.        *)
FatalFailure ==
  /\ phase = "loop" /\ ~fatal
  /\ fatal' = TRUE
  /\ UNCHANGED <<ptyVars, phase, exitKnown, waitReported, readerPump>>

(* The window is closed, or the local shutdown key pressed: exit code 0.    *)
LocalShutdown ==
  /\ phase = "loop" /\ exitKnown' = TRUE
  /\ phase' = "shutdown"
  /\ UNCHANGED <<ptyVars, fatal, waitReported, readerPump>>

LeaveLoop ==
  /\ phase = "loop" /\ (exitKnown \/ fatal)
  /\ phase' = "shutdown"
  /\ UNCHANGED <<ptyVars, exitKnown, fatal, waitReported, readerPump>>

(* run_app returned an error: there is no shutdown().                       *)
EventLoopFails ==
  /\ phase = "loop" /\ phase' = "failed"
  /\ Release(Main)
  /\ UNCHANGED <<exitKnown, fatal, waitReported, readerPump>>

----------------------------------------------------------------------------
(* shutdown().  With the exit known the pumps are joined first and the PTY  *)
(* is closed last; otherwise it is closed first.                            *)

(* Mutated form: the child is polled although its exit is known. *)
ShutdownPollsAlways ==
  /\ phase = "shutdown" /\ MainCalls("try_wait", "exit polled")
  /\ UNCHANGED <<exitKnown, fatal, waitReported, readerPump>>

ShutdownBegins ==
  /\ phase = "shutdown"
  /\ IF exitKnown
       THEN phase' = "join, then close" /\ UNCHANGED ptyVars
       ELSE MainCalls("try_wait", "exit polled")
  /\ UNCHANGED <<exitKnown, fatal, waitReported, readerPump>>

ShutdownPolled ==
  /\ Returned("exit polled")
  /\ phase' = IF exitSeen THEN "join, then close" ELSE "close, then join"
  /\ UNCHANGED <<ptyVars, exitKnown, fatal, waitReported, readerPump>>

(* join_pump_thread_with_timeout for both pumps: each join ends with its    *)
(* thread or after SHUTDOWN_JOIN_TIMEOUT, when the thread is detached.      *)
JoinPumps(next) ==
  /\ phase' = next
  /\ UNCHANGED <<ptyVars, exitKnown, fatal, waitReported, readerPump>>

(* Mutated form: a session whose exit is known is not closed. *)
JoinOnly == phase = "join, then close" /\ JoinPumps("done")

JoinBeforeClose == phase = "join, then close" /\ JoinPumps("close")

CloseAfterJoin ==
  /\ phase = "close" /\ MainCalls("close", "closed last")
  /\ UNCHANGED <<exitKnown, fatal, waitReported, readerPump>>

CloseBeforeJoin ==
  /\ phase = "close, then join" /\ MainCalls("close", "closed first")
  /\ UNCHANGED <<exitKnown, fatal, waitReported, readerPump>>

(* A close that failed is the session's error, unless there is one.         *)
Closed ==
  /\ Returned("closed last") \/ Returned("closed first")
  /\ phase' = IF phase = "closed last" THEN "done" ELSE "join last"
  /\ fatal' = (fatal \/ result[Main] = "error")
  /\ UNCHANGED <<ptyVars, exitKnown, waitReported, readerPump>>

JoinAfterClose == phase = "join last" /\ JoinPumps("done")

(* The app is dropped, and its handle with it.                              *)
DropApp ==
  /\ phase = "done" /\ phase' = "dropped"
  /\ Release(Main)
  /\ UNCHANGED <<exitKnown, fatal, waitReported, readerPump>>

(* main.rs: a session that ended with an error is followed by one of the    *)
(* TTY runtime, with a shell of its own, if there is a terminal.            *)
FallBack ==
  /\ Returned("failed") \/ (Returned("dropped") /\ fatal)
  /\ phase' = IF phase = "failed" THEN "shell beside" ELSE "shell after"
  /\ UNCHANGED <<ptyVars, exitKnown, fatal, waitReported, readerPump>>

----------------------------------------------------------------------------
Setup == SpawnPty \/ TakeReader \/ TakeWriter \/ SpawnPumps \/ StartApp

Handlers ==
  \/ Resizes \/ ResizeReturns \/ WaitReports \/ ReadFailurePolls \/ ReadFailureResolved
  \/ FatalFailure \/ LocalShutdown \/ LeaveLoop \/ EventLoopFails

Shutdown ==
  \/ ShutdownBegins \/ ShutdownPolled \/ JoinBeforeClose \/ CloseAfterJoin
  \/ CloseBeforeJoin \/ Closed \/ JoinAfterClose \/ DropApp

GuiFinished == phase \in {"failed", "dropped", "shell beside", "shell after"} /\ gone /\ UNCHANGED allVars

GuiNext ==
  \/ Setup \/ Handlers \/ Shutdown \/ FallBack \/ GuiFinished
  \/ WaitPumpWaits \/ WaitPumpEnds \/ ReaderPumpEnds \/ ReaderPumpFails
  \/ (ProcessExits \/ \E t \in Threads : Step(t)) /\ UNCHANGED guiVars

(* Every thread is scheduled.  Nothing makes the child exit, or the wait for *)
(* it fail.                                                                 *)
GuiFairness ==
  /\ \A t \in Threads : WF_allVars(Progress(t) /\ UNCHANGED guiVars)
  /\ WF_allVars(Shutdown \/ ReadFailurePolls \/ ReadFailureResolved \/ ResizeReturns)
  /\ WF_allVars(WaitPumpWaits) /\ WF_allVars(WaitPumpEnds) /\ WF_allVars(ReaderPumpEnds)

GuiSpec == GuiInit /\ [][GuiNext]_allVars /\ GuiFairness

----------------------------------------------------------------------------
(* Properties *)

(* Teardown is complete whichever way the loop ended: once shutdown() has   *)
(* returned the handle is closed, and a child that still runs was sent its  *)
(* signal or the system refused, even when the exit was only assumed (a     *)
(* local shutdown records exit code 0 while the child runs).                *)
ShutdownSignals ==
  phase \in {"done", "dropped"} => closed /\ (process = "running" => signalled # "no")

(* The shell of the TTY runtime is the only one: when it is started in      *)
(* place of the GUI the first child has exited or was sent its signal.      *)
(* This is not so when the app or the event loop itself failed: shutdown()  *)
(* was skipped, and the wait pump keeps the handle, which no drop can close *)
(* (main.rs, run_interactive_gui_pty).                                      *)
OneShell ==
  phase \in {"shell after", "shell beside"} /\ process = "running" /\ signalled = "no" =>
    phase = "shell beside" /\ (Waiter \in holders \/ pc[Waiter] # "idle")

(* A shutdown that need not poll the child ends whether or not the child    *)
(* does: the joins are timed and close() does not wait for the wait pump.   *)
LocalShutdownCompletes == phase = "shutdown" /\ exitKnown ~> phase = "dropped"

(* Teardown ends: shutdown() when it need not poll, and every call of the   *)
(* handle that it and the drops make.                                       *)
ShutdownReturns == LocalShutdownCompletes /\ TeardownReturns

(* What the timed joins are for ("detaching thread to avoid shutdown hang", *)
(* gui_runtime_lifecycle.rs:340): every shutdown ends.                      *)
ShutdownCompletes == phase = "shutdown" ~> phase = "dropped"
=============================================================================
