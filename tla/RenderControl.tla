--------------------------- MODULE RenderControl ---------------------------
(***************************************************************************)
(* Which renderer the GUI draws with, and when it draws: the render mode   *)
(* controller (services/src/render_mode), the deferred start of the GPU    *)
(* backend with its retries (app/src/gui_runtime_backend.rs), draw_frame   *)
(* with its fall back from GPU to CPU, the two surfaces a window can have, *)
(* and the redraw flags that the handlers of the event loop pass on.       *)
(*                                                                         *)
(* Everything runs on the thread of the event loop, one handler after the  *)
(* other.  about_to_wait takes two steps here, because time passes between *)
(* its two looks at the retry deadline; no other handler comes between.    *)
(* What is drawn is abstracted to whether the grid has dirty rows and      *)
(* whether the cursor is where the GPU renderer drew it last.              *)
(***************************************************************************)
EXTENDS Naturals

CONSTANTS
  RetryBudget,   \* AutoFallbackPolicy.retry_budget: 2 in the code, a u8 below its maximum
  InitBudget     \* DEFERRED_GPU_INIT_RETRY_BUDGET: 3 in the code

ASSUME BudgetAssumption == RetryBudget \in 0 .. 254 /\ InitBudget \in 1 .. 255

VARIABLES
  mode, path,          \* RenderMode and ActiveRenderPath of the controller
  streak, windowOpen,  \* failure_streak; the last failure window has not elapsed
  pending, failures,   \* DeferredGpuInitState
  retry,               \* next_retry_at: none, still ahead, or reached
  gpu, lastCursor,     \* the backend exists; last_cursor_* against the terminal's cursor
  host, cpuSurface,    \* the window and its softbuffer surface exist
  shown,               \* the renderer whose frame the window shows
  dirty, syncOutput,   \* the grid has dirty rows; mode 2026 holds the output back
  redrawPending, redrawInFlight,
  requested,           \* the window system owes the window a RedrawRequested
  timer,               \* ControlFlow: Wait, or WaitUntil a tick or the retry deadline
  loop,                \* asleep, awake (about_to_wait is next), inside about_to_wait
  draining,            \* child_exit_pending
  exit,                \* event_loop.exit() was called, or called for a fatal_error
  closed               \* `exiting` ran

controller == <<mode, path, streak, windowOpen>>
deferred == <<pending, failures, retry>>
content == <<dirty, syncOutput>>
redraw == <<redrawPending, redrawInFlight, requested>>
ending == <<draining, exit, closed>>

vars == <<controller, deferred, gpu, lastCursor, host, cpuSurface, shown, content, redraw, timer,
          loop, ending>>

Modes == {"Cpu", "Gpu", "Auto"}
Paths == {"Cpu", "Gpu"}

----------------------------------------------------------------------------
(* The render mode controller.                                              *)

fromMode(m) == IF m = "Cpu" THEN "Cpu" ELSE "Gpu"

FailureKinds == {"DeviceLost", "OutOfMemory", "SurfaceError", "SubmitError", "SwapchainOutOfDate",
                 "BackendUnavailable"}

(* What render_frame and initialize can fail with.                          *)
FrameFailures == {"SwapchainOutOfDate", "SurfaceError", "OutOfMemory"}
InitFailures == {"BackendUnavailable", "DeviceLost"}

isImmediateFallback(kind) == kind \in {"DeviceLost", "OutOfMemory", "BackendUnavailable"}

recordFailure == IF windowOpen THEN streak + 1 ELSE 1

retryBudgetExhausted(n) == n > RetryBudget

(* Mutated form: a forced mode falls back like Auto. *)
onGpuFailureInAnyMode(kind) ==
  IF isImmediateFallback(kind) \/ retryBudgetExhausted(recordFailure)
  THEN [decision |-> "SwitchToCpu", path |-> "Cpu", streak |-> 0, windowOpen |-> FALSE]
  ELSE [decision |-> "RetryGpu", path |-> path, streak |-> recordFailure, windowOpen |-> TRUE]

(* The decision on a failure, with what becomes of the controller.          *)
onGpuFailure(kind) ==
  IF mode # "Auto" \/ path # "Gpu"
  THEN [decision |-> "Noop", path |-> path, streak |-> streak, windowOpen |-> windowOpen]
  ELSE IF isImmediateFallback(kind) \/ retryBudgetExhausted(recordFailure)
  THEN [decision |-> "SwitchToCpu", path |-> "Cpu", streak |-> 0, windowOpen |-> FALSE]
  ELSE [decision |-> "RetryGpu", path |-> path, streak |-> recordFailure, windowOpen |-> TRUE]

(* dispatch_gpu_failure_command: a Noop is fatal on a forced GPU path.      *)
handlingOf(r) ==
  CASE r.decision = "RetryGpu" -> "RetryScheduled"
    [] r.decision = "SwitchToCpu" -> "FallbackToCpu"
    [] OTHER -> IF mode = "Gpu" /\ path = "Gpu" THEN "FatalForcedGpu" ELSE "Ignored"

ControllerTakes(r) ==
  path' = r.path /\ streak' = r.streak /\ windowOpen' = r.windowOpen /\ UNCHANGED mode

(* on_gpu_frame_presented *)
FramePresented ==
  /\ IF mode = "Auto" /\ path = "Gpu"
     THEN streak' = 0 /\ windowOpen' = FALSE
     ELSE UNCHANGED <<streak, windowOpen>>
  /\ UNCHANGED <<mode, path>>

----------------------------------------------------------------------------
(* Start-up and the redraws of the window.                                  *)

(* sync_deferred_gpu_init_state: the deferred start follows the path, and   *)
(* a backend is released (release_backend) when the path is the CPU's.      *)
SyncDeferredInit(target, ready) ==
  /\ pending' = (target = "Gpu" /\ ~ready)
  /\ IF target = "Gpu" /\ ~ready
     THEN UNCHANGED <<failures, retry>>
     ELSE failures' = 0 /\ retry' = "none"
  /\ gpu' = (target = "Gpu" /\ ready)
  /\ lastCursor' = IF gpu' THEN lastCursor ELSE "unset"

Init ==
  /\ mode \in Modes /\ path = fromMode(mode)
  /\ streak = 0 /\ windowOpen = FALSE
  /\ pending = (mode # "Cpu") /\ failures = 0 /\ retry = "none"
  /\ gpu = FALSE /\ lastCursor = "unset"
  /\ host = FALSE /\ cpuSurface = FALSE /\ shown = "none"
  /\ dirty = TRUE /\ syncOutput = FALSE
  /\ redrawPending = TRUE /\ redrawInFlight = FALSE /\ requested = FALSE
  /\ timer = "none" /\ loop = "asleep"
  /\ draining = FALSE /\ exit = "none" /\ closed = FALSE

(* A handler of the loop runs; about_to_wait follows it.  Once exit() was   *)
(* called the iteration that is under way is the last one.                  *)
inIteration == ~closed /\ loop # "settling" /\ (loop = "awake" \/ exit = "none")

Handler == inIteration /\ loop' = "awake"

RequestExit == exit' = IF exit = "none" THEN "asked" ELSE exit

(* draw_cpu_frame, with d the dirtiness it meets.  The surface is created   *)
(* when there is none; creating, resizing, acquiring or presenting it can   *)
(* fail, the last after the rows were marked clean.                         *)
DrawCpuFrame(d) ==
  \/ cpuSurface' = TRUE /\ dirty' = FALSE /\ shown' = "cpu" /\ UNCHANGED exit
  \/ /\ cpuSurface' \in {cpuSurface, TRUE}
     /\ dirty' \in IF cpuSurface' THEN {d, FALSE} ELSE {d}
     /\ exit' = "fatal" /\ UNCHANGED shown

(* resumed: bootstrap_window creates the window with its softbuffer         *)
(* surface, sets the geometry (the PTY may refuse it), draws with the CPU   *)
(* and asks for the first redraw.                                           *)
Resumed ==
  /\ Handler /\ ~host /\ exit = "none"
  /\ \/ exit' = "fatal" /\ UNCHANGED <<host, cpuSurface, shown, dirty, requested>>
     \/ /\ host' = TRUE /\ cpuSurface' = TRUE
        /\ \/ dirty' = FALSE /\ shown' = "cpu" /\ requested' = TRUE
              /\ exit' \in {"none", "asked", "fatal"}
           \/ dirty' \in {TRUE, FALSE} /\ exit' = "fatal" /\ UNCHANGED <<shown, requested>>
  /\ UNCHANGED <<controller, deferred, gpu, lastCursor, syncOutput, redrawPending, redrawInFlight,
                 timer, draining, closed>>

isGpuLaneReady == path = "Gpu" /\ gpu

(* Mutated form: the redraw stays in flight. *)
RedrawRequestedStaysInFlight ==
  /\ Handler /\ host /\ requested
  /\ requested' = FALSE /\ UNCHANGED redrawInFlight

RedrawRequested ==
  /\ Handler /\ host /\ requested
  /\ requested' = FALSE /\ redrawInFlight' = FALSE

(* Synchronized output: nothing is drawn, the redraw is dropped.            *)
RedrawDeferred ==
  /\ RedrawRequested /\ syncOutput
  /\ UNCHANGED <<controller, deferred, gpu, lastCursor, host, cpuSurface, shown, content,
                 redrawPending, timer, ending>>

RedrawByCpu ==
  /\ RedrawRequested /\ ~syncOutput /\ ~isGpuLaneReady
  /\ DrawCpuFrame(dirty)
  /\ UNCHANGED <<controller, deferred, gpu, lastCursor, host, syncOutput, redrawPending, timer,
                 draining, closed>>

(* render_frame returns Ok before it acquires a frame when no row is dirty  *)
(* and the cursor did not move: draw_frame counts that as presented.        *)
RedrawUnchanged ==
  /\ RedrawRequested /\ ~syncOutput /\ isGpuLaneReady
  /\ ~dirty /\ lastCursor = "same"
  /\ FramePresented
  /\ UNCHANGED <<deferred, gpu, lastCursor, host, cpuSurface, shown, content, redrawPending, timer,
                 ending>>

(* The frame is presented; with a search overlay or the scrollback in view  *)
(* also when nothing changed.                                               *)
RedrawPresented ==
  /\ RedrawRequested /\ ~syncOutput /\ isGpuLaneReady
  /\ dirty' = FALSE /\ lastCursor' = "same" /\ shown' = "gpu"
  /\ FramePresented
  /\ UNCHANGED <<deferred, gpu, host, cpuSurface, syncOutput, redrawPending, timer, ending>>

(* The surface gave no frame.  The failure is routed: a retry queues a      *)
(* redraw; a fall back releases the backend, marks every row and writes a   *)
(* notice; both go on to a CPU frame.  On a forced GPU path it is fatal.    *)
RedrawFails(kind) ==
  LET r == onGpuFailure(kind)
      handling == handlingOf(r)
  IN /\ RedrawRequested /\ ~syncOutput /\ isGpuLaneReady
     /\ ControllerTakes(r)
     /\ IF handling = "FatalForcedGpu"
        THEN /\ exit' = "fatal" /\ lastCursor' = "same"
             /\ UNCHANGED <<deferred, gpu, cpuSurface, shown, dirty, redrawPending>>
        ELSE IF handling = "FallbackToCpu"
        THEN /\ SyncDeferredInit(path', FALSE)
             /\ redrawPending' = TRUE
             /\ DrawCpuFrame(TRUE)
        ELSE /\ redrawPending' = (redrawPending \/ handling = "RetryScheduled")
             /\ lastCursor' = "same"
             /\ DrawCpuFrame(dirty)
             /\ UNCHANGED <<deferred, gpu>>
     /\ UNCHANGED <<host, syncOutput, timer, draining, closed>>

Redraw ==
  \/ RedrawDeferred \/ RedrawByCpu \/ RedrawUnchanged \/ RedrawPresented
  \/ \E kind \in FrameFailures : RedrawFails(kind)

----------------------------------------------------------------------------
(* Handlers that change the grid or the mode.                               *)

(* Where output can leave the cursor: it differs from what the renderer     *)
(* drew last, or is back there; a renderer that drew nothing knows none.    *)
CursorMoves ==
  lastCursor' \in IF lastCursor = "unset" THEN {"unset"} ELSE {"same", "moved"}

(* Output of the child, a resize, a search, a theme: rows may become dirty, *)
(* mode 2026 may be set or reset, and a redraw is queued.                   *)
TerminalChanges ==
  /\ Handler /\ host
  /\ dirty' \in {dirty, TRUE} /\ syncOutput' \in BOOLEAN
  /\ redrawPending' = TRUE
  /\ CursorMoves
  /\ UNCHANGED <<controller, deferred, gpu, host, cpuSurface, shown, redrawInFlight, requested,
                 timer, ending>>

(* The palette's command: set_mode_with_transition, the deferred start is   *)
(* brought in line, and a notice is written to the terminal.                *)
SetMode(m) ==
  /\ Handler /\ host
  /\ mode' = m /\ path' = fromMode(m)
  /\ streak' = 0 /\ windowOpen' = FALSE
  /\ SyncDeferredInit(path', gpu)
  /\ dirty' = TRUE /\ redrawPending' = TRUE
  /\ UNCHANGED <<host, cpuSurface, shown, syncOutput, redrawInFlight, requested, timer, ending>>

(* The window system asks for a redraw of its own accord.                   *)
Exposed ==
  /\ inIteration /\ host
  /\ requested' = TRUE
  /\ UNCHANGED <<controller, deferred, gpu, lastCursor, host, cpuSurface, shown, content,
                 redrawPending, redrawInFlight, timer, loop, ending>>

(* The window is closed, or a boundary of the PTY ends the session.         *)
EndRequested ==
  /\ Handler
  /\ RequestExit
  /\ UNCHANGED <<controller, deferred, gpu, lastCursor, host, cpuSurface, shown, content, redraw,
                 timer, draining, closed>>

(* The child exited and its output is not drained yet.                      *)
ChildExits ==
  /\ Handler /\ ~draining /\ exit = "none"
  /\ draining' = TRUE
  /\ UNCHANGED <<controller, deferred, gpu, lastCursor, host, cpuSurface, shown, content, redraw,
                 timer, exit, closed>>

----------------------------------------------------------------------------
(* about_to_wait: first the deferred start of the GPU backend.              *)

MayTryInit == pending /\ path = "Gpu" /\ retry # "waiting" /\ host

BeginAboutToWait == ~closed /\ loop = "awake" /\ loop' = "settling"

InitNotDue ==
  /\ BeginAboutToWait /\ ~MayTryInit
  /\ IF pending /\ path = "Cpu"
     THEN pending' = FALSE /\ failures' = 0 /\ retry' = "none"
     ELSE UNCHANGED deferred
  /\ UNCHANGED <<controller, gpu, lastCursor, host, cpuSurface, shown, content, redraw, timer,
                 ending>>

(* Mutated form: the new surface gets no redraw. *)
InitSucceedsUndrawn ==
  /\ BeginAboutToWait /\ MayTryInit
  /\ cpuSurface' = FALSE
  /\ pending' = FALSE /\ failures' = 0 /\ retry' = "none"
  /\ gpu' = TRUE /\ dirty' = TRUE
  /\ UNCHANGED <<controller, lastCursor, host, shown, syncOutput, redraw, timer, ending>>

(* The softbuffer surface is dropped first; every row is marked.            *)
InitSucceeds ==
  /\ BeginAboutToWait /\ MayTryInit
  /\ cpuSurface' = FALSE
  /\ pending' = FALSE /\ failures' = 0 /\ retry' = "none"
  /\ gpu' = TRUE
  /\ dirty' = TRUE /\ redrawPending' = TRUE
  /\ UNCHANGED <<controller, lastCursor, host, shown, syncOutput, redrawInFlight, requested, timer,
                 ending>>

InitRetries ==
  /\ BeginAboutToWait /\ MayTryInit
  /\ failures + 1 < InitBudget
  /\ cpuSurface' = FALSE
  /\ failures' = failures + 1 /\ retry' = "waiting"
  /\ redrawPending' = TRUE
  /\ UNCHANGED <<controller, pending, gpu, lastCursor, host, shown, content, redrawInFlight,
                 requested, timer, ending>>

(* The last attempt failed: the controller decides as on any GPU failure.   *)
InitExhausted(kind) ==
  LET r == onGpuFailure(kind)
      handling == handlingOf(r)
  IN /\ BeginAboutToWait /\ MayTryInit
     /\ failures + 1 >= InitBudget
     /\ cpuSurface' = FALSE
     /\ ControllerTakes(r)
     /\ IF handling = "FallbackToCpu"
        THEN /\ SyncDeferredInit(path', FALSE)
             /\ dirty' = TRUE /\ redrawPending' = TRUE
             /\ UNCHANGED exit
        ELSE /\ pending' = FALSE /\ failures' = failures + 1 /\ retry' = "none"
             /\ redrawPending' = (redrawPending \/ handling = "RetryScheduled")
             /\ exit' = IF handling = "FatalForcedGpu" THEN "fatal" ELSE exit
             /\ UNCHANGED <<gpu, lastCursor, dirty>>
     /\ UNCHANGED <<host, shown, syncOutput, redrawInFlight, requested, timer, draining, closed>>

TryDeferredInit ==
  InitNotDue \/ InitSucceeds \/ InitRetries \/ \E kind \in InitFailures : InitExhausted(kind)

----------------------------------------------------------------------------
(* about_to_wait: then the early returns, the redraw and the wait.          *)

EndAboutToWait == loop = "settling" /\ loop' = "asleep"

ReturnFatal ==
  /\ EndAboutToWait /\ exit = "fatal"
  /\ UNCHANGED <<controller, deferred, gpu, lastCursor, host, cpuSurface, shown, content, redraw,
                 timer, ending>>

(* Output is drained, and the loop ends when that is complete or timed out. *)
DrainForExit ==
  /\ EndAboutToWait /\ exit # "fatal" /\ draining
  /\ dirty' \in {dirty, TRUE} /\ redrawPending' \in {redrawPending, TRUE}
  /\ dirty' # dirty => redrawPending'
  /\ CursorMoves /\ UNCHANGED gpu
  /\ \/ draining' = FALSE /\ RequestExit /\ UNCHANGED timer
     \/ timer' = "tick" /\ UNCHANGED <<draining, exit>>
  /\ UNCHANGED <<controller, deferred, host, cpuSurface, shown, syncOutput, redrawInFlight,
                 requested, closed>>

mayReturn == exit = "fatal" \/ draining

(* The deadline of the next attempt lies ahead: no redraw is requested.     *)
AwaitRetry ==
  /\ EndAboutToWait /\ ~mayReturn /\ pending /\ retry = "waiting"
  /\ timer' = "deadline"
  /\ UNCHANGED <<controller, deferred, gpu, lastCursor, host, cpuSurface, shown, content, redraw,
                 ending>>

(* The blink marks every row; request_redraw_if_needed; wait_policy, where  *)
(* the cadence of the monitor may be unknown.                               *)
Settle ==
  /\ EndAboutToWait /\ ~mayReturn /\ ~(pending /\ retry = "waiting")
  /\ \E blinks, cadence \in BOOLEAN :
       /\ dirty' = (dirty \/ blinks)
       /\ LET wanted == redrawPending \/ blinks
              asks == wanted /\ ~redrawInFlight /\ host
          IN /\ redrawPending' = (wanted /\ ~asks)
             /\ redrawInFlight' = (redrawInFlight \/ asks)
             /\ requested' = (requested \/ asks)
       /\ timer' = IF ~isGpuLaneReady /\ redrawPending' /\ cadence THEN "tick" ELSE "none"
  /\ UNCHANGED <<controller, deferred, gpu, lastCursor, host, cpuSurface, shown, syncOutput,
                 ending>>

AboutToWait == TryDeferredInit \/ ReturnFatal \/ DrainForExit \/ AwaitRetry \/ Settle

----------------------------------------------------------------------------
(* Time, and the end of the loop.                                           *)

RetryFallsDue ==
  /\ retry = "waiting" /\ retry' = "due"
  /\ UNCHANGED <<controller, pending, failures, gpu, lastCursor, host, cpuSurface, shown, content,
                 redraw, timer, loop, ending>>

TimerFires ==
  /\ exit = "none" /\ loop = "asleep"
  /\ timer # "none" /\ (timer = "deadline" => retry # "waiting")
  /\ loop' = "awake" /\ timer' = "none"
  /\ UNCHANGED <<controller, deferred, gpu, lastCursor, host, cpuSurface, shown, content, redraw,
                 ending>>

(* failure_window passed since the streak began.                            *)
WindowElapses ==
  /\ windowOpen /\ windowOpen' = FALSE
  /\ UNCHANGED <<mode, path, streak, deferred, gpu, lastCursor, host, cpuSurface, shown, content,
                 redraw, timer, loop, ending>>

(* exiting: release_window_resources                                        *)
Exiting ==
  /\ exit # "none" /\ ~closed /\ loop = "asleep"
  /\ closed' = TRUE
  /\ host' = FALSE /\ cpuSurface' = FALSE /\ redrawInFlight' = FALSE
  /\ SyncDeferredInit(path, FALSE)
  /\ UNCHANGED <<controller, shown, content, redrawPending, requested, timer, loop, draining, exit>>

Next ==
  \/ Resumed \/ Redraw
  \/ TerminalChanges \/ (\E m \in Modes : SetMode(m)) \/ Exposed \/ EndRequested \/ ChildExits
  \/ AboutToWait
  \/ RetryFallsDue \/ TimerFires \/ WindowElapses
  \/ Exiting

(* winit calls resumed, about_to_wait after the events of an iteration, and *)
(* exiting; time passes; a redraw that the window owes comes between the    *)
(* other events of some iteration (strong: the iterations go on meanwhile). *)
(* No other event is promised.                                              *)
Fairness ==
  /\ WF_vars(Resumed) /\ SF_vars(Redraw) /\ WF_vars(AboutToWait)
  /\ WF_vars(RetryFallsDue) /\ WF_vars(TimerFires) /\ WF_vars(Exiting)

Spec == Init /\ [][Next]_vars

FairSpec == Spec /\ Fairness

----------------------------------------------------------------------------
(* Properties.                                                              *)

ControllerTypes ==
  mode \in Modes /\ path \in Paths /\ streak \in 0 .. RetryBudget /\ windowOpen \in BOOLEAN

DeferredTypes ==
  pending \in BOOLEAN /\ failures \in 0 .. InitBudget /\ retry \in {"none", "waiting", "due"}

SurfaceTypes ==
  /\ gpu \in BOOLEAN /\ lastCursor \in {"unset", "same", "moved"}
  /\ host \in BOOLEAN /\ cpuSurface \in BOOLEAN /\ shown \in {"none", "cpu", "gpu"}

RedrawTypes ==
  /\ dirty \in BOOLEAN /\ syncOutput \in BOOLEAN
  /\ redrawPending \in BOOLEAN /\ redrawInFlight \in BOOLEAN /\ requested \in BOOLEAN

LoopTypes ==
  /\ timer \in {"none", "tick", "deadline"} /\ loop \in {"asleep", "awake", "settling"}
  /\ draining \in BOOLEAN /\ exit \in {"none", "asked", "fatal"} /\ closed \in BOOLEAN

(* The variables have their types; the streak of failures never exceeds the *)
(* retry budget (on_gpu_failure falls back first), nor the attempts to      *)
(* start the backend theirs.                                                *)
TypeOK == ControllerTypes /\ DeferredTypes /\ SurfaceTypes /\ RedrawTypes /\ LoopTypes

(* A mode the user forced is never left by the controller, and failures are *)
(* counted only where they can lead to a fall back (on_gpu_failure,         *)
(* set_mode_with_transition).                                               *)
ForcedModeHonoured ==
  /\ mode # "Auto" => path = fromMode(mode)
  /\ streak > 0 => mode = "Auto" /\ path = "Gpu"

(* Once the session draws with the CPU nothing of the GPU is kept: no       *)
(* backend, no deferred start, no retry (sync_deferred_gpu_init_state,      *)
(* apply_gpu_auto_fallback).                                                *)
CpuPathHoldsNoGpu == path = "Cpu" => ~gpu /\ ~pending /\ retry = "none" /\ failures = 0

(* A session on the GPU path has its backend, or is still trying to get it, *)
(* or is ending: it never rests on a path that cannot present               *)
(* (try_deferred_gpu_init, sync_with_target_path).                          *)
GpuPathIsPursued == path = "Gpu" /\ exit = "none" => gpu # pending

(* Mode, path, backend and deferred start agree, in every order of the      *)
(* failures of the GPU and the commands of the user.                        *)
PathsAgree == ForcedModeHonoured /\ CpuPathHoldsNoGpu /\ GpuPathIsPursued

(* Changed content is never forgotten: while rows are dirty a redraw is     *)
(* queued or asked for, unless synchronized output holds it back            *)
(* (queue_redraw after every change, request_redraw_if_needed).             *)
DirtyIsScheduled ==
  dirty /\ exit = "none" => syncOutput \/ redrawPending \/ requested

(* The loop does not go to sleep on a queued redraw: something that wakes   *)
(* it is under way (the early returns of about_to_wait, wait_policy).       *)
QueuedRedrawWakes ==
  redrawPending /\ host /\ loop = "asleep" /\ exit = "none" => requested \/ timer # "none"

(* A change is on its way to the screen, and the loop does not sleep on it. *)
RedrawIsComing == DirtyIsScheduled /\ QueuedRedrawWakes

(* A queued redraw is handed to the window, unless the session ends or the  *)
(* user changes the mode again and again: each change starts a deferred     *)
(* start of its own, and between its attempts no redraw is requested        *)
(* (queue_redraw, request_redraw_if_needed, the early return at the retry   *)
(* deadline).                                                               *)
RedrawServed ==
  <>[][FALSE]_<<mode, path>> => (redrawPending ~> ~redrawPending \/ exit # "none" \/ draining)

(* The deferred start of the GPU comes to an end, with a backend or with a  *)
(* decision (DEFERRED_GPU_INIT_RETRY_BUDGET), unless the session ends.      *)
InitSettles == pending ~> ~pending \/ exit # "none" \/ draining

(* Redraws and deferred starts come to an end.                              *)
RenderProgresses == RedrawServed /\ InitSettles

=============================================================================
