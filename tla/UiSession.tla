------------------------------- MODULE UiSession -------------------------------
(***************************************************************************)
(* The session commands of the UI runtime (ui/src/commands.rs).  The GUI   *)
(* sends Tick once at its bootstrap and after every recovery, and the two  *)
(* boundary commands; the harness replays any list of commands a user      *)
(* wrote down, so that every order of all five is a behaviour.             *)
(***************************************************************************)
EXTENDS SessionController

VARIABLES
  session,      \* UiRuntime.session
  receipt,      \* the outcome of the last command and the boundary it named
  survived      \* history: failures survived since the session last started

vars == <<session, receipt, survived>>

Init ==
  /\ session = newController /\ survived = 0
  /\ receipt = [outcome |-> "Noop", boundary |-> "none"]

(* What a command leaves: the session and the receipt.                      *)
Takes(result, boundary) ==
  /\ session' = result.session
  /\ receipt' = [outcome |-> result.outcome, boundary |-> boundary]
  /\ survived' = CASE result.outcome = "Started" -> 0
                   [] result.outcome \in {"RetryCurrentPath", "SwitchShell"} -> survived + 1
                   [] OTHER -> survived

Noop == Takes(answer(session, "Noop"), "none")

Tick ==
  \/ session.state \in {"Starting", "Degraded"} /\ Takes(markRunning(session), "none")
  \/ session.state \notin {"Starting", "Degraded"} /\ Noop

RecoverableBoundary(boundary) == Takes(handleBoundary(session, boundary), boundary)

FatalBoundary(boundary) == Takes(handleFatalBoundary(session), boundary)

RequestStop ==
  \/ session.state # "Stopped" /\ Takes(requestStop(session), "none")
  \/ session.state = "Stopped" /\ Noop

MarkStopped ==
  \/ session.state \in {"Stopping", "Stopped"} /\ Takes(markStopped(session), "none")
  \/ session.state \notin {"Stopping", "Stopped"} /\ Noop

Next ==
  \/ Tick \/ RequestStop \/ MarkStopped
  \/ \E boundary \in Boundaries : RecoverableBoundary(boundary) \/ FatalBoundary(boundary)

Spec == Init /\ [][Next]_vars

----------------------------------------------------------------------------
(* Properties.                                                              *)

(* The variables have their types; the failures a controller counts never   *)
(* exceed its budget (apply_recoverable_boundary).                          *)
TypeOK ==
  /\ session \in Controllers
  /\ receipt \in [outcome : Outcomes, boundary : Boundaries \cup {"none"}]
  /\ survived \in Nat

(* The budget is of failures in a row: only a start forgives them, and a    *)
(* live session has survived exactly as many as it counts, so that no order *)
(* of commands survives more (start_succeeded, apply_recoverable_boundary). *)
BudgetBoundsFailures ==
  /\ session.state \in Live => session.failures = survived
  /\ survived <= RecoverableBudget

(* A session that has begun to stop never comes back, and one that stopped  *)
(* stays stopped (handle_fatal_boundary, mark_running, mark_stopped).       *)
StoppingStays ==
  [][/\ session.state \in {"Stopping", "Stopped"} => session'.state \in {"Stopping", "Stopped"}
     /\ session.state = "Stopped" => session'.state = "Stopped"]_vars

(* The shell of a session is settled by its first start: later failures and *)
(* recoveries keep it, and only a session that stops gives it up            *)
(* (start_succeeded, the fallback to zsh of apply_recoverable_boundary).    *)
ShellIsSettled ==
  [][session.active # "none" /\ session'.state \in Live =>
       session'.active = session.active /\ session'.requested = session.requested]_vars

(* handle_command fails only for a boundary of a session that has stopped;  *)
(* every other command is answered in every state.                          *)
RefusedOnlyWhenStopped ==
  receipt.outcome = "refused" => session.state = "Stopped" /\ receipt.boundary # "none"

=============================================================================
