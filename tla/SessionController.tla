--------------------------- MODULE SessionController ---------------------------
(***************************************************************************)
(* The session policy (services/src/session.rs): which failure a session   *)
(* survives, how many it survives in a row, and the shell it runs.  The    *)
(* controller has no thread of its own; each of its methods is an operator *)
(* from a controller to what the call leaves and answers, and the runtimes *)
(* that own one (UiSession, TtyRuntime) make the calls.  The sequence      *)
(* number of a transition only labels diagnostics and is left out.         *)
(***************************************************************************)
EXTENDS Naturals

CONSTANT RecoverableBudget     \* max_recoverable_boundaries, a u8

ASSUME RecoverableBudgetAssumption == RecoverableBudget \in Nat

SessionStates == {"Starting", "Running", "Degraded", "Stopping", "Stopped"}

Live == {"Starting", "Running", "Degraded"}

Boundaries == {"StartupSpawn", "PtyRead", "PtyWrite", "PtyResize", "PtyWait",
               "PtyWriterAcquire", "Stop"}

Shells == {"Fish", "Zsh"}

Controllers ==
  [state : SessionStates, requested : Shells, active : Shells \cup {"none"},
   failures : 0 .. RecoverableBudget]

newController == [state |-> "Starting", requested |-> "Fish", active |-> "none", failures |-> 0]

(* Mutated form: a session that stops may still recover. *)
isRecoverableWhileStopping(boundary, state) ==
  \/ boundary = "StartupSpawn" /\ state = "Starting"
  \/ boundary \in {"PtyRead", "PtyWrite", "PtyResize", "PtyWriterAcquire"} /\ state # "Stopped"

(* severity_for_state                                                       *)
isRecoverable(boundary, state) ==
  \/ boundary = "StartupSpawn" /\ state = "Starting"
  \/ boundary \in {"PtyRead", "PtyWrite", "PtyResize", "PtyWriterAcquire"} /\ state \in Live

(* What a call answers: a refusal leaves the controller as it is.           *)
Outcomes == {"Started", "RetryCurrentPath", "SwitchShell", "BoundaryFatal", "BudgetExhausted",
             "StopRequested", "Stopped", "refused", "Noop"}

answer(session, outcome) == [session |-> session, outcome |-> outcome]

refused(session) == answer(session, "refused")

(* mark_running, start_succeeded                                            *)
markRunning(session) ==
  IF session.state \in {"Starting", "Degraded"}
  THEN answer([session EXCEPT !.state = "Running", !.failures = 0,
                 !.active = IF @ = "none" THEN session.requested ELSE @], "Started")
  ELSE refused(session)

stopping(session) == [session EXCEPT !.state = "Stopping", !.active = "none"]

(* apply_recoverable_boundary, of a live session                            *)
applyRecoverable(session) ==
  LET switches == session.state = "Starting" /\ session.requested = "Fish"
  IN  IF session.failures >= RecoverableBudget
      THEN answer(stopping(session), "BudgetExhausted")
      ELSE answer([session EXCEPT !.state = "Degraded", !.failures = @ + 1,
                     !.requested = IF switches THEN "Zsh" ELSE @],
                  IF switches THEN "SwitchShell" ELSE "RetryCurrentPath")

handleFatalBoundary(session) ==
  IF session.state = "Stopped" THEN refused(session) ELSE answer(stopping(session), "BoundaryFatal")

(* handle_recoverable_boundary and handle_boundary_failure, which agree     *)
handleBoundary(session, boundary) ==
  IF isRecoverable(boundary, session.state)
  THEN applyRecoverable(session) ELSE handleFatalBoundary(session)

requestStop(session) ==
  IF session.state = "Stopped" THEN refused(session) ELSE answer(stopping(session), "StopRequested")

markStopped(session) ==
  IF session.state \in {"Stopping", "Stopped"}
  THEN answer([session EXCEPT !.state = "Stopped", !.active = "none"], "Stopped")
  ELSE refused(session)

=============================================================================
