------------------------- MODULE Rendering_proofs --------------------------
(***************************************************************************)
(* Proofs about RenderControl, for every retry budget and every number of  *)
(* attempts to start the GPU backend: the controller, the backend and its  *)
(* deferred start agree; and the redraw flags keep what the grid and the   *)
(* handlers need.                                                          *)
(*                                                                         *)
(* Then about Frames with Atlas, for windows, histories, atlases, buffers  *)
(* and budgets of any size: the order of the atlas as a list of slots, the *)
(* glyphs that keep theirs, what is written to the cell buffers, and at    *)
(* last what a frame shows.                                                *)
(***************************************************************************)
EXTENDS RenderControl, Frames, SequenceLemmas

(* The last attempt was made only when the session ends, and no handler     *)
(* follows: no attempt is ever counted beyond the budget.                   *)
AttemptsCounted == failures = InitBudget => exit = "fatal" /\ loop # "awake"

(* A redraw in flight is one the window system still owes.                  *)
FlightIsOwed == redrawInFlight => requested

ControlInv == ForcedModeHonoured /\ CpuPathHoldsNoGpu /\ GpuPathIsPursued /\ AttemptsCounted

RedrawInv == FlightIsOwed /\ DirtyIsScheduled /\ QueuedRedrawWakes

IInv == TypeOK /\ ControlInv /\ RedrawInv

----------------------------------------------------------------------------
(* The decision on a GPU failure.                                           *)

LEMMA DecisionCases ==
  ASSUME TypeOK, ForcedModeHonoured, NEW kind \in FailureKinds
  PROVE  LET r == onGpuFailure(kind)
         IN /\ r.path \in Paths /\ r.windowOpen \in BOOLEAN
            /\ r.streak \in 0 .. RetryBudget
            /\ \/ /\ handlingOf(r) = "RetryScheduled"
                  /\ mode = "Auto" /\ path = "Gpu" /\ r.path = "Gpu"
                  /\ ~isImmediateFallback(kind)
               \/ /\ handlingOf(r) = "FallbackToCpu"
                  /\ mode = "Auto" /\ r.path = "Cpu" /\ r.streak = 0
               \/ /\ handlingOf(r) = "FatalForcedGpu"
                  /\ mode = "Gpu" /\ r.path = path /\ r.streak = streak
               \/ /\ handlingOf(r) = "Ignored"
                  /\ path = "Cpu" /\ r.path = path /\ r.streak = streak
<1>1. CASE mode # "Auto" \/ path # "Gpu"
  BY <1>1 DEF onGpuFailure, handlingOf, TypeOK, ControllerTypes, ForcedModeHonoured, fromMode,
       Modes, Paths
<1>2. CASE mode = "Auto" /\ path = "Gpu"
  <2> USE BudgetAssumption
  <2>1. recordFailure \in Nat /\ recordFailure > 0
    BY DEF recordFailure, TypeOK, ControllerTypes
  <2>2. CASE isImmediateFallback(kind) \/ retryBudgetExhausted(recordFailure)
    BY <1>2, <2>2 DEF onGpuFailure, handlingOf, Paths
  <2>3. CASE ~(isImmediateFallback(kind) \/ retryBudgetExhausted(recordFailure))
    BY <1>2, <2>1, <2>3 DEF onGpuFailure, handlingOf, retryBudgetExhausted, Paths
  <2>4. QED BY <2>2, <2>3
<1>3. QED BY <1>1, <1>2

LEMMA InitInv == Init => IInv
<1>b. 0 \in 0 .. RetryBudget /\ 0 \in 0 .. InitBudget /\ InitBudget # 0
  BY BudgetAssumption
<1>1. Init => TypeOK
  <2>1. Init => ControllerTypes BY <1>b DEF Init, ControllerTypes, Modes, Paths, fromMode
  <2>2. Init => DeferredTypes BY <1>b DEF Init, DeferredTypes
  <2>3. Init => SurfaceTypes /\ RedrawTypes /\ LoopTypes
    BY DEF Init, SurfaceTypes, RedrawTypes, LoopTypes
  <2> QED BY <2>1, <2>2, <2>3 DEF TypeOK
<1>2. Init => ControlInv
  <2>1. Init => ForcedModeHonoured BY DEF Init, ForcedModeHonoured
  <2>2. Init => CpuPathHoldsNoGpu BY DEF Init, CpuPathHoldsNoGpu, fromMode
  <2>3. Init => GpuPathIsPursued
    <3> SUFFICES ASSUME Init PROVE GpuPathIsPursued OBVIOUS
    <3>1. CASE mode = "Cpu" BY <3>1 DEF Init, GpuPathIsPursued, fromMode
    <3>2. CASE mode # "Cpu"
      <4>1. pending = TRUE /\ gpu = FALSE BY <3>2 DEF Init
      <4> QED BY <4>1 DEF GpuPathIsPursued
    <3> QED BY <3>1, <3>2
  <2>4. Init => AttemptsCounted BY <1>b DEF Init, AttemptsCounted
  <2> QED BY <2>1, <2>2, <2>3, <2>4 DEF ControlInv
<1>3. Init => RedrawInv BY DEF Init, RedrawInv, FlightIsOwed, DirtyIsScheduled, QueuedRedrawWakes
<1>4. QED BY <1>1, <1>2, <1>3 DEF IInv

(* Every step keeps the types and the bounds.                               *)
LEMMA StepTypes ==
  ASSUME IInv, [Next]_vars
  PROVE  TypeOK'
<1>a. /\ ControllerTypes /\ DeferredTypes /\ SurfaceTypes /\ RedrawTypes /\ LoopTypes
      /\ ControlInv /\ RedrawInv
  BY DEF IInv, TypeOK
<1>b. 0 \in 0 .. RetryBudget /\ 0 \in 0 .. InitBudget /\ InitBudget # 0 /\ InitBudget \in Nat
  BY BudgetAssumption
<1>0. CASE UNCHANGED vars
  BY <1>a, <1>0 DEF vars, controller, deferred, content, redraw, ending, TypeOK,
       ControllerTypes, DeferredTypes, SurfaceTypes, RedrawTypes, LoopTypes, Modes, Paths
<1>1. CASE Resumed
  <2>1. (ControllerTypes /\ DeferredTypes)'
    BY <1>a, <1>b, <1>1 DEF Resumed, Handler, inIteration, controller, ControllerTypes, Modes,
         Paths, deferred, DeferredTypes
  <2>2. SurfaceTypes'
    BY <1>a, <1>b, <1>1 DEF Resumed, Handler, inIteration, SurfaceTypes
  <2>3. RedrawTypes'
    BY <1>a, <1>b, <1>1 DEF Resumed, Handler, inIteration, content, redraw, RedrawTypes
  <2>4. LoopTypes'
    BY <1>a, <1>b, <1>1 DEF Resumed, Handler, inIteration, ending, LoopTypes
  <2> QED BY <2>1, <2>2, <2>3, <2>4 DEF TypeOK
<1>2. CASE RedrawDeferred
  <2>1. (ControllerTypes /\ DeferredTypes /\ SurfaceTypes)'
    BY <1>a, <1>b, <1>2 DEF RedrawDeferred, RedrawRequested, Handler, inIteration, controller,
         ControllerTypes, Modes, Paths, deferred, DeferredTypes, SurfaceTypes
  <2>2. (RedrawTypes /\ LoopTypes)'
    BY <1>a, <1>b, <1>2 DEF RedrawDeferred, RedrawRequested, Handler, inIteration, content,
         redraw, RedrawTypes, ending, LoopTypes
  <2> QED BY <2>1, <2>2 DEF TypeOK
<1>3. CASE RedrawByCpu
  <2>1. (ControllerTypes /\ DeferredTypes)'
    BY <1>a, <1>b, <1>3 DEF RedrawByCpu, RedrawRequested, Handler, inIteration, DrawCpuFrame,
         controller, ControllerTypes, Modes, Paths, deferred, DeferredTypes
  <2>2. (SurfaceTypes /\ RedrawTypes)'
    BY <1>a, <1>b, <1>3 DEF RedrawByCpu, RedrawRequested, Handler, inIteration, DrawCpuFrame,
         SurfaceTypes, content, redraw, RedrawTypes
  <2>3. LoopTypes'
    BY <1>a, <1>b, <1>3 DEF RedrawByCpu, RedrawRequested, Handler, inIteration, DrawCpuFrame,
         ending, LoopTypes
  <2> QED BY <2>1, <2>2, <2>3 DEF TypeOK
<1>4. CASE RedrawUnchanged
  <2>1. ControllerTypes'
    BY <1>a, <1>b, <1>4 DEF RedrawUnchanged, RedrawRequested, Handler, inIteration,
         FramePresented, controller, ControllerTypes, Modes, Paths
  <2>2. (DeferredTypes /\ SurfaceTypes)'
    BY <1>a, <1>b, <1>4 DEF RedrawUnchanged, RedrawRequested, Handler, inIteration,
         FramePresented, deferred, DeferredTypes, SurfaceTypes
  <2>3. (RedrawTypes /\ LoopTypes)'
    BY <1>a, <1>b, <1>4 DEF RedrawUnchanged, RedrawRequested, Handler, inIteration,
         FramePresented, content, redraw, RedrawTypes, ending, LoopTypes
  <2> QED BY <2>1, <2>2, <2>3 DEF TypeOK
<1>5. CASE RedrawPresented
  <2>1. ControllerTypes'
    BY <1>a, <1>b, <1>5 DEF RedrawPresented, RedrawRequested, Handler, inIteration,
         FramePresented, isGpuLaneReady, controller, ControllerTypes, Modes, Paths
  <2>2. (DeferredTypes /\ SurfaceTypes)'
    BY <1>a, <1>b, <1>5 DEF RedrawPresented, RedrawRequested, Handler, inIteration,
         FramePresented, isGpuLaneReady, deferred, DeferredTypes, SurfaceTypes
  <2>3. (RedrawTypes /\ LoopTypes)'
    BY <1>a, <1>b, <1>5 DEF RedrawPresented, RedrawRequested, Handler, inIteration,
         FramePresented, isGpuLaneReady, content, redraw, RedrawTypes, ending, LoopTypes
  <2> QED BY <2>1, <2>2, <2>3 DEF TypeOK
<1>6. ASSUME NEW kind \in FrameFailures, RedrawFails(kind) PROVE TypeOK'
  <2> DEFINE r == onGpuFailure(kind)
  <2> DEFINE h == handlingOf(r)
  <2>1. kind \in FailureKinds BY DEF FrameFailures, FailureKinds
  <2>2. /\ r.path \in Paths /\ r.windowOpen \in BOOLEAN /\ r.streak \in 0 .. RetryBudget
        /\ \/ h = "RetryScheduled" /\ mode = "Auto" /\ path = "Gpu" /\ r.path = "Gpu"
              /\ ~isImmediateFallback(kind)
           \/ h = "FallbackToCpu" /\ mode = "Auto" /\ r.path = "Cpu" /\ r.streak = 0
           \/ h = "FatalForcedGpu" /\ mode = "Gpu" /\ r.path = path /\ r.streak = streak
           \/ h = "Ignored" /\ path = "Cpu" /\ r.path = path /\ r.streak = streak
    BY <2>1, DecisionCases DEF IInv, ControlInv
  <2> HIDE DEF r, h
  <2>3. /\ RedrawRequested /\ ~syncOutput /\ isGpuLaneReady
        /\ path' = r.path /\ streak' = r.streak /\ windowOpen' = r.windowOpen /\ mode' = mode
        /\ UNCHANGED <<host, syncOutput, timer, draining, closed>>
        /\ \/ /\ h = "FatalForcedGpu" /\ exit' = "fatal" /\ lastCursor' = "same"
              /\ UNCHANGED <<deferred, gpu, cpuSurface, shown, dirty, redrawPending>>
           \/ /\ h = "FallbackToCpu" /\ SyncDeferredInit(path', FALSE) /\ redrawPending' = TRUE
              /\ DrawCpuFrame(TRUE)
           \/ /\ h \notin {"FatalForcedGpu", "FallbackToCpu"}
              /\ redrawPending' = (redrawPending \/ h = "RetryScheduled") /\ lastCursor' = "same"
              /\ DrawCpuFrame(dirty) /\ UNCHANGED <<deferred, gpu>>
    BY <1>6 DEF RedrawFails, ControllerTakes, r, h
  <2>5. ControllerTypes'
    BY <1>a, <1>b, <2>2, <2>3 DEF RedrawRequested, Handler, inIteration, isGpuLaneReady,
         SyncDeferredInit, DrawCpuFrame, controller, ControllerTypes, Modes, Paths
  <2>6. DeferredTypes'
    BY <1>a, <1>b, <2>2, <2>3 DEF RedrawRequested, Handler, inIteration, isGpuLaneReady,
         SyncDeferredInit, DrawCpuFrame, deferred, DeferredTypes
  <2>7. SurfaceTypes'
    BY <1>a, <1>b, <2>2, <2>3 DEF RedrawRequested, Handler, inIteration, isGpuLaneReady,
         SyncDeferredInit, DrawCpuFrame, SurfaceTypes
  <2>8. RedrawTypes'
    BY <1>a, <1>b, <2>2, <2>3 DEF RedrawRequested, Handler, inIteration, isGpuLaneReady,
         SyncDeferredInit, DrawCpuFrame, content, redraw, RedrawTypes
  <2>9. LoopTypes'
    BY <1>a, <1>b, <2>2, <2>3 DEF RedrawRequested, Handler, inIteration, isGpuLaneReady,
         SyncDeferredInit, DrawCpuFrame, ending, LoopTypes
  <2> QED BY <2>5, <2>6, <2>7, <2>8, <2>9 DEF TypeOK
<1>7. CASE TerminalChanges
  <2>1. (ControllerTypes /\ DeferredTypes)'
    BY <1>a, <1>b, <1>7 DEF TerminalChanges, Handler, inIteration, CursorMoves, controller,
         ControllerTypes, Modes, Paths, deferred, DeferredTypes
  <2>2. SurfaceTypes'
    BY <1>a, <1>b, <1>7 DEF TerminalChanges, Handler, inIteration, CursorMoves, SurfaceTypes
  <2>3. RedrawTypes'
    BY <1>a, <1>b, <1>7 DEF TerminalChanges, Handler, inIteration, CursorMoves, content,
         redraw, RedrawTypes
  <2>4. LoopTypes'
    BY <1>a, <1>b, <1>7 DEF TerminalChanges, Handler, inIteration, CursorMoves, ending, LoopTypes
  <2> QED BY <2>1, <2>2, <2>3, <2>4 DEF TypeOK
<1>8. ASSUME NEW m \in Modes, SetMode(m) PROVE TypeOK'
  <2>1. ControllerTypes'
    BY <1>a, <1>b, <1>8 DEF SetMode, Handler, inIteration, SyncDeferredInit, controller,
         ControllerTypes, Modes, Paths, fromMode
  <2>2. DeferredTypes'
    BY <1>a, <1>b, <1>8 DEF SetMode, Handler, inIteration, SyncDeferredInit, deferred, DeferredTypes
  <2>3. SurfaceTypes'
    BY <1>a, <1>b, <1>8 DEF SetMode, Handler, inIteration, SyncDeferredInit, SurfaceTypes
  <2>4. (RedrawTypes /\ LoopTypes)'
    BY <1>a, <1>b, <1>8 DEF SetMode, Handler, inIteration, SyncDeferredInit, content, redraw,
         RedrawTypes, ending, LoopTypes
  <2> QED BY <2>1, <2>2, <2>3, <2>4 DEF TypeOK
<1>9. CASE Exposed
  BY <1>a, <1>b, <1>9 DEF Exposed, inIteration, controller, deferred, content, redraw, ending,
       TypeOK, ControllerTypes, DeferredTypes, SurfaceTypes, RedrawTypes, LoopTypes, Modes, Paths
<1>10. CASE EndRequested
  BY <1>a, <1>b, <1>10 DEF EndRequested, Handler, inIteration, RequestExit, controller,
       deferred, content, redraw, ending, TypeOK, ControllerTypes, DeferredTypes, SurfaceTypes,
       RedrawTypes, LoopTypes, Modes, Paths
<1>11. CASE ChildExits
  BY <1>a, <1>b, <1>11 DEF ChildExits, Handler, inIteration, controller, deferred, content,
       redraw, ending, TypeOK, ControllerTypes, DeferredTypes, SurfaceTypes, RedrawTypes, LoopTypes,
       Modes, Paths
<1>12. CASE InitNotDue
  <2>1. ControllerTypes'
    BY <1>a, <1>b, <1>12 DEF InitNotDue, BeginAboutToWait, MayTryInit, controller,
         ControllerTypes, Modes, Paths
  <2>2. DeferredTypes'
    BY <1>a, <1>b, <1>12 DEF InitNotDue, BeginAboutToWait, MayTryInit, deferred, DeferredTypes
  <2>3. (SurfaceTypes /\ RedrawTypes /\ LoopTypes)'
    BY <1>a, <1>b, <1>12 DEF InitNotDue, BeginAboutToWait, MayTryInit, SurfaceTypes, content,
         redraw, RedrawTypes, ending, LoopTypes
  <2> QED BY <2>1, <2>2, <2>3 DEF TypeOK
<1>13. CASE InitSucceeds
  <2>1. ControllerTypes'
    BY <1>a, <1>b, <1>13 DEF InitSucceeds, BeginAboutToWait, MayTryInit, controller,
         ControllerTypes, Modes, Paths
  <2>2. DeferredTypes'
    BY <1>a, <1>b, <1>13 DEF InitSucceeds, BeginAboutToWait, MayTryInit, deferred, DeferredTypes
  <2>3. SurfaceTypes'
    BY <1>a, <1>b, <1>13 DEF InitSucceeds, BeginAboutToWait, MayTryInit, SurfaceTypes
  <2>4. RedrawTypes'
    BY <1>a, <1>b, <1>13 DEF InitSucceeds, BeginAboutToWait, MayTryInit, content, redraw,
         RedrawTypes
  <2>5. LoopTypes'
    BY <1>a, <1>b, <1>13 DEF InitSucceeds, BeginAboutToWait, MayTryInit, ending, LoopTypes
  <2> QED BY <2>1, <2>2, <2>3, <2>4, <2>5 DEF TypeOK
<1>14. CASE InitRetries
  <2>1. ControllerTypes'
    BY <1>a, <1>b, <1>14 DEF InitRetries, BeginAboutToWait, MayTryInit, controller,
         ControllerTypes, Modes, Paths
  <2>2. DeferredTypes'
    BY <1>a, <1>b, <1>14 DEF InitRetries, BeginAboutToWait, MayTryInit, deferred,
         DeferredTypes, ControlInv, AttemptsCounted
  <2>3. SurfaceTypes'
    BY <1>a, <1>b, <1>14 DEF InitRetries, BeginAboutToWait, MayTryInit, SurfaceTypes
  <2>4. RedrawTypes'
    BY <1>a, <1>b, <1>14 DEF InitRetries, BeginAboutToWait, MayTryInit, content, redraw, RedrawTypes
  <2>5. LoopTypes'
    BY <1>a, <1>b, <1>14 DEF InitRetries, BeginAboutToWait, MayTryInit, ending, LoopTypes
  <2> QED BY <2>1, <2>2, <2>3, <2>4, <2>5 DEF TypeOK
<1>15. ASSUME NEW kind \in InitFailures, InitExhausted(kind) PROVE TypeOK'
  <2> DEFINE r == onGpuFailure(kind)
  <2> DEFINE h == handlingOf(r)
  <2>1. kind \in FailureKinds BY DEF InitFailures, FailureKinds
  <2>2. /\ r.path \in Paths /\ r.windowOpen \in BOOLEAN /\ r.streak \in 0 .. RetryBudget
        /\ \/ h = "RetryScheduled" /\ mode = "Auto" /\ path = "Gpu" /\ r.path = "Gpu"
              /\ ~isImmediateFallback(kind)
           \/ h = "FallbackToCpu" /\ mode = "Auto" /\ r.path = "Cpu" /\ r.streak = 0
           \/ h = "FatalForcedGpu" /\ mode = "Gpu" /\ r.path = path /\ r.streak = streak
           \/ h = "Ignored" /\ path = "Cpu" /\ r.path = path /\ r.streak = streak
    BY <2>1, DecisionCases DEF IInv, ControlInv
  <2> HIDE DEF r, h
  <2>3. /\ BeginAboutToWait /\ MayTryInit /\ failures + 1 >= InitBudget /\ cpuSurface' = FALSE
        /\ path' = r.path /\ streak' = r.streak /\ windowOpen' = r.windowOpen /\ mode' = mode
        /\ UNCHANGED <<host, shown, syncOutput, redrawInFlight, requested, timer, draining, closed>>
        /\ \/ /\ h = "FallbackToCpu" /\ SyncDeferredInit(path', FALSE)
              /\ dirty' = TRUE /\ redrawPending' = TRUE /\ UNCHANGED exit
           \/ /\ h # "FallbackToCpu"
              /\ pending' = FALSE /\ failures' = failures + 1 /\ retry' = "none"
              /\ redrawPending' = (redrawPending \/ h = "RetryScheduled")
              /\ exit' = IF h = "FatalForcedGpu" THEN "fatal" ELSE exit
              /\ UNCHANGED <<gpu, lastCursor, dirty>>
    BY <1>15 DEF InitExhausted, ControllerTakes, r, h
  <2>4. isImmediateFallback(kind) BY DEF InitFailures, isImmediateFallback
  <2>5. ControllerTypes'
    BY <1>a, <1>b, <2>2, <2>3 DEF BeginAboutToWait, MayTryInit, SyncDeferredInit, controller,
         ControllerTypes, Modes, Paths
  <2>6. DeferredTypes'
    <3>1. failures + 1 \in 0 .. InitBudget
      BY <1>a, <1>b, <2>3 DEF BeginAboutToWait, DeferredTypes, ControlInv, AttemptsCounted
    <3> QED BY <1>a, <1>b, <2>3, <3>1 DEF SyncDeferredInit, DeferredTypes
  <2>7. SurfaceTypes'
    BY <1>a, <1>b, <2>2, <2>3 DEF BeginAboutToWait, MayTryInit, SyncDeferredInit, SurfaceTypes
  <2>8. RedrawTypes'
    BY <1>a, <1>b, <2>2, <2>3 DEF BeginAboutToWait, MayTryInit, SyncDeferredInit, content,
         redraw, RedrawTypes
  <2>9. LoopTypes'
    BY <1>a, <1>b, <2>2, <2>3 DEF BeginAboutToWait, MayTryInit, SyncDeferredInit, ending, LoopTypes
  <2> QED BY <2>5, <2>6, <2>7, <2>8, <2>9 DEF TypeOK
<1>16. CASE ReturnFatal
  BY <1>a, <1>b, <1>16 DEF ReturnFatal, EndAboutToWait, controller, deferred, content, redraw,
       ending, TypeOK, ControllerTypes, DeferredTypes, SurfaceTypes, RedrawTypes, LoopTypes, Modes,
       Paths
<1>17. CASE DrainForExit
  <2>1. (ControllerTypes /\ DeferredTypes)'
    BY <1>a, <1>b, <1>17 DEF DrainForExit, EndAboutToWait, CursorMoves, RequestExit,
         controller, ControllerTypes, Modes, Paths, deferred, DeferredTypes
  <2>2. SurfaceTypes'
    BY <1>a, <1>b, <1>17 DEF DrainForExit, EndAboutToWait, CursorMoves, RequestExit, SurfaceTypes
  <2>3. RedrawTypes'
    BY <1>a, <1>b, <1>17 DEF DrainForExit, EndAboutToWait, CursorMoves, RequestExit, content,
         redraw, RedrawTypes
  <2>4. LoopTypes'
    BY <1>a, <1>b, <1>17 DEF DrainForExit, EndAboutToWait, CursorMoves, RequestExit, ending,
         LoopTypes
  <2> QED BY <2>1, <2>2, <2>3, <2>4 DEF TypeOK
<1>18. CASE AwaitRetry
  BY <1>a, <1>b, <1>18 DEF AwaitRetry, EndAboutToWait, mayReturn, controller, deferred,
       content, redraw, ending, TypeOK, ControllerTypes, DeferredTypes, SurfaceTypes, RedrawTypes,
       LoopTypes, Modes, Paths
<1>19. CASE Settle
  BY <1>a, <1>b, <1>19 DEF Settle, EndAboutToWait, mayReturn, isGpuLaneReady, controller,
       deferred, content, redraw, ending, TypeOK, ControllerTypes, DeferredTypes, SurfaceTypes,
       RedrawTypes, LoopTypes, Modes, Paths
<1>20. CASE RetryFallsDue
  BY <1>a, <1>b, <1>20 DEF RetryFallsDue, controller, deferred, content, redraw, ending,
       TypeOK, ControllerTypes, DeferredTypes, SurfaceTypes, RedrawTypes, LoopTypes, Modes, Paths
<1>21. CASE TimerFires
  BY <1>a, <1>b, <1>21 DEF TimerFires, controller, deferred, content, redraw, ending, TypeOK,
       ControllerTypes, DeferredTypes, SurfaceTypes, RedrawTypes, LoopTypes, Modes, Paths
<1>22. CASE WindowElapses
  <2>1. ControllerTypes'
    BY <1>a, <1>b, <1>22 DEF WindowElapses, controller, ControllerTypes, Modes, Paths
  <2>2. (DeferredTypes /\ SurfaceTypes /\ RedrawTypes /\ LoopTypes)'
    BY <1>a, <1>b, <1>22 DEF WindowElapses, deferred, DeferredTypes, SurfaceTypes, content,
         redraw, RedrawTypes, ending, LoopTypes
  <2> QED BY <2>1, <2>2 DEF TypeOK
<1>23. CASE Exiting
  <2>1. ControllerTypes'
    BY <1>a, <1>b, <1>23 DEF Exiting, SyncDeferredInit, controller, ControllerTypes, Modes, Paths
  <2>2. DeferredTypes'
    BY <1>a, <1>b, <1>23 DEF Exiting, SyncDeferredInit, deferred, DeferredTypes
  <2>3. SurfaceTypes'
    BY <1>a, <1>b, <1>23 DEF Exiting, SyncDeferredInit, SurfaceTypes
  <2>4. (RedrawTypes /\ LoopTypes)'
    BY <1>a, <1>b, <1>23 DEF Exiting, SyncDeferredInit, content, redraw, RedrawTypes, ending,
         LoopTypes
  <2> QED BY <2>1, <2>2, <2>3, <2>4 DEF TypeOK
<1>24. QED
  BY <1>0, <1>1, <1>2, <1>3, <1>4, <1>5, <1>6, <1>7, <1>8, <1>9, <1>10, <1>11, <1>12, <1>13,
       <1>14, <1>15, <1>16, <1>17, <1>18, <1>19, <1>20, <1>21, <1>22, <1>23 DEF Next, Redraw,
       AboutToWait, TryDeferredInit

(* Every step keeps the controller, the backend and its start in agreement. *)
LEMMA StepControl ==
  ASSUME IInv, [Next]_vars
  PROVE  ControlInv'
<1>a. /\ ControllerTypes /\ DeferredTypes /\ SurfaceTypes /\ RedrawTypes /\ LoopTypes
      /\ ControlInv /\ RedrawInv
  BY DEF IInv, TypeOK
<1>b. 0 \in 0 .. RetryBudget /\ 0 \in 0 .. InitBudget /\ InitBudget # 0 /\ InitBudget \in Nat
  BY BudgetAssumption
<1>0. CASE UNCHANGED vars
  BY <1>a, <1>0 DEF vars, controller, deferred, ending, ControlInv, ForcedModeHonoured,
       CpuPathHoldsNoGpu, GpuPathIsPursued, AttemptsCounted, fromMode, ControllerTypes,
       DeferredTypes, Modes, Paths
<1>1. CASE Resumed
  BY <1>a, <1>b, <1>1 DEF Resumed, Handler, inIteration, controller, deferred, ending,
       ControlInv, ForcedModeHonoured, CpuPathHoldsNoGpu, GpuPathIsPursued, AttemptsCounted,
       fromMode, ControllerTypes, DeferredTypes, Modes, Paths
<1>2. CASE RedrawDeferred
  BY <1>a, <1>b, <1>2 DEF RedrawDeferred, RedrawRequested, Handler, inIteration, controller,
       deferred, ending, ControlInv, ForcedModeHonoured, CpuPathHoldsNoGpu, GpuPathIsPursued,
       AttemptsCounted, fromMode, ControllerTypes, DeferredTypes, Modes, Paths
<1>3. CASE RedrawByCpu
  BY <1>a, <1>b, <1>3 DEF RedrawByCpu, RedrawRequested, Handler, inIteration, DrawCpuFrame,
       controller, deferred, ending, ControlInv, ForcedModeHonoured, CpuPathHoldsNoGpu,
       GpuPathIsPursued, AttemptsCounted, fromMode, ControllerTypes, DeferredTypes, Modes, Paths
<1>4. CASE RedrawUnchanged
  BY <1>a, <1>b, <1>4 DEF RedrawUnchanged, RedrawRequested, Handler, inIteration,
       FramePresented, controller, deferred, ending, ControlInv, ForcedModeHonoured,
       CpuPathHoldsNoGpu, GpuPathIsPursued, AttemptsCounted, fromMode, ControllerTypes,
       DeferredTypes, Modes, Paths
<1>5. CASE RedrawPresented
  BY <1>a, <1>b, <1>5 DEF RedrawPresented, RedrawRequested, Handler, inIteration,
       FramePresented, isGpuLaneReady, controller, deferred, ending, ControlInv, ForcedModeHonoured,
       CpuPathHoldsNoGpu, GpuPathIsPursued, AttemptsCounted, fromMode, ControllerTypes,
       DeferredTypes, Modes, Paths
<1>6. ASSUME NEW kind \in FrameFailures, RedrawFails(kind) PROVE ControlInv'
  <2> DEFINE r == onGpuFailure(kind)
  <2> DEFINE h == handlingOf(r)
  <2>1. kind \in FailureKinds BY DEF FrameFailures, FailureKinds
  <2>2. /\ r.path \in Paths /\ r.windowOpen \in BOOLEAN /\ r.streak \in 0 .. RetryBudget
        /\ \/ h = "RetryScheduled" /\ mode = "Auto" /\ path = "Gpu" /\ r.path = "Gpu"
              /\ ~isImmediateFallback(kind)
           \/ h = "FallbackToCpu" /\ mode = "Auto" /\ r.path = "Cpu" /\ r.streak = 0
           \/ h = "FatalForcedGpu" /\ mode = "Gpu" /\ r.path = path /\ r.streak = streak
           \/ h = "Ignored" /\ path = "Cpu" /\ r.path = path /\ r.streak = streak
    BY <2>1, DecisionCases DEF IInv, ControlInv
  <2> HIDE DEF r, h
  <2>3. /\ RedrawRequested /\ ~syncOutput /\ isGpuLaneReady
        /\ path' = r.path /\ streak' = r.streak /\ windowOpen' = r.windowOpen /\ mode' = mode
        /\ UNCHANGED <<host, syncOutput, timer, draining, closed>>
        /\ \/ /\ h = "FatalForcedGpu" /\ exit' = "fatal" /\ lastCursor' = "same"
              /\ UNCHANGED <<deferred, gpu, cpuSurface, shown, dirty, redrawPending>>
           \/ /\ h = "FallbackToCpu" /\ SyncDeferredInit(path', FALSE) /\ redrawPending' = TRUE
              /\ DrawCpuFrame(TRUE)
           \/ /\ h \notin {"FatalForcedGpu", "FallbackToCpu"}
              /\ redrawPending' = (redrawPending \/ h = "RetryScheduled") /\ lastCursor' = "same"
              /\ DrawCpuFrame(dirty) /\ UNCHANGED <<deferred, gpu>>
    BY <1>6 DEF RedrawFails, ControllerTakes, r, h
  <2>5. CASE h = "FallbackToCpu"
    <3>1. path' = "Cpu" /\ streak' = 0 /\ mode' = "Auto" BY <2>2, <2>3, <2>5
    <3>2. pending' = FALSE /\ gpu' = FALSE /\ retry' = "none" /\ failures' = 0
      BY <2>3, <2>5, <3>1 DEF SyncDeferredInit
    <3> QED
      BY <1>b, <3>1, <3>2 DEF ControlInv, ForcedModeHonoured, CpuPathHoldsNoGpu,
         GpuPathIsPursued, AttemptsCounted
  <2>6. CASE h # "FallbackToCpu"
    <3>1. UNCHANGED <<deferred, gpu>> /\ path' = path BY <2>2, <2>3, <2>6 DEF isGpuLaneReady
    <3>2. loop = "awake" \/ exit = "none" BY <2>3 DEF RedrawRequested, Handler, inIteration
    <3>3. exit' = exit \/ exit' = "fatal" BY <2>3, <2>6 DEF DrawCpuFrame
    <3>4. ForcedModeHonoured'
      BY <1>a, <2>2, <2>3, <2>6, <3>1 DEF ControlInv, ForcedModeHonoured, fromMode
    <3>5. CpuPathHoldsNoGpu' BY <1>a, <3>1 DEF ControlInv, CpuPathHoldsNoGpu, deferred
    <3>6. GpuPathIsPursued' BY <1>a, <3>1, <3>3 DEF ControlInv, GpuPathIsPursued, deferred
    <3>7. AttemptsCounted' BY <1>a, <3>1, <3>2 DEF ControlInv, AttemptsCounted, deferred
    <3> QED BY <3>4, <3>5, <3>6, <3>7 DEF ControlInv
  <2> QED BY <2>5, <2>6
<1>7. CASE TerminalChanges
  BY <1>a, <1>b, <1>7 DEF TerminalChanges, Handler, inIteration, CursorMoves, controller,
       deferred, ending, ControlInv, ForcedModeHonoured, CpuPathHoldsNoGpu, GpuPathIsPursued,
       AttemptsCounted, fromMode, ControllerTypes, DeferredTypes, Modes, Paths
<1>8. ASSUME NEW m \in Modes, SetMode(m) PROVE ControlInv'
  <2>1. /\ mode' = m /\ path' = fromMode(m) /\ streak' = 0 /\ exit' = exit
        /\ loop = "awake" \/ exit = "none"
        /\ SyncDeferredInit(path', gpu)
    BY <1>8 DEF SetMode, Handler, inIteration, ending
  <2>2. ForcedModeHonoured' BY <2>1 DEF ForcedModeHonoured, fromMode
  <2>3. CASE path' = "Gpu" /\ gpu
    <3>1. pending' = FALSE /\ gpu' = TRUE /\ failures' = 0 BY <2>1, <2>3 DEF SyncDeferredInit
    <3> QED
      BY <1>b, <2>2, <2>3, <3>1 DEF ControlInv, CpuPathHoldsNoGpu, GpuPathIsPursued,
         AttemptsCounted
  <2>4. CASE path' = "Gpu" /\ ~gpu
    <3>1. pending' = TRUE /\ gpu' = FALSE /\ failures' = failures
      BY <2>1, <2>4 DEF SyncDeferredInit
    <3>2. failures # InitBudget BY <1>a, <2>1 DEF ControlInv, AttemptsCounted
    <3> QED
      BY <2>2, <2>4, <3>1, <3>2 DEF ControlInv, CpuPathHoldsNoGpu, GpuPathIsPursued,
         AttemptsCounted
  <2>5. CASE path' = "Cpu"
    <3>1. pending' = FALSE /\ gpu' = FALSE /\ failures' = 0 /\ retry' = "none"
      BY <2>1, <2>5 DEF SyncDeferredInit
    <3> QED
      BY <1>b, <2>2, <2>5, <3>1 DEF ControlInv, CpuPathHoldsNoGpu, GpuPathIsPursued,
         AttemptsCounted
  <2> QED BY <2>1, <2>3, <2>4, <2>5 DEF fromMode
<1>9. CASE Exposed
  BY <1>a, <1>b, <1>9 DEF Exposed, inIteration, controller, deferred, ending, ControlInv,
       ForcedModeHonoured, CpuPathHoldsNoGpu, GpuPathIsPursued, AttemptsCounted, fromMode,
       ControllerTypes, DeferredTypes, Modes, Paths
<1>10. CASE EndRequested
  BY <1>a, <1>b, <1>10 DEF EndRequested, Handler, inIteration, RequestExit, controller,
       deferred, ending, ControlInv, ForcedModeHonoured, CpuPathHoldsNoGpu, GpuPathIsPursued,
       AttemptsCounted, fromMode, ControllerTypes, DeferredTypes, Modes, Paths
<1>11. CASE ChildExits
  BY <1>a, <1>b, <1>11 DEF ChildExits, Handler, inIteration, controller, deferred, ending,
       ControlInv, ForcedModeHonoured, CpuPathHoldsNoGpu, GpuPathIsPursued, AttemptsCounted,
       fromMode, ControllerTypes, DeferredTypes, Modes, Paths
<1>12. CASE InitNotDue
  BY <1>a, <1>b, <1>12 DEF InitNotDue, BeginAboutToWait, MayTryInit, controller, deferred,
       ending, ControlInv, ForcedModeHonoured, CpuPathHoldsNoGpu, GpuPathIsPursued, AttemptsCounted,
       fromMode, ControllerTypes, DeferredTypes, Modes, Paths
<1>13. CASE InitSucceeds
  BY <1>a, <1>b, <1>13 DEF InitSucceeds, BeginAboutToWait, MayTryInit, controller, deferred,
       ending, ControlInv, ForcedModeHonoured, CpuPathHoldsNoGpu, GpuPathIsPursued, AttemptsCounted,
       fromMode, ControllerTypes, DeferredTypes, Modes, Paths
<1>14. CASE InitRetries
  <2>1. failures' # InitBudget
    BY <1>a, <1>b, <1>14 DEF InitRetries, DeferredTypes
  <2>2. UNCHANGED <<controller, pending, gpu, exit>> /\ path = "Gpu"
    BY <1>14 DEF InitRetries, MayTryInit, ending
  <2>3. ForcedModeHonoured' BY <1>a, <2>2 DEF ControlInv, ForcedModeHonoured, controller, fromMode
  <2>4. CpuPathHoldsNoGpu' BY <2>2 DEF CpuPathHoldsNoGpu, controller
  <2>5. GpuPathIsPursued' BY <1>a, <2>2 DEF ControlInv, GpuPathIsPursued, controller
  <2> QED BY <2>1, <2>3, <2>4, <2>5 DEF ControlInv, AttemptsCounted
<1>15. ASSUME NEW kind \in InitFailures, InitExhausted(kind) PROVE ControlInv'
  <2> DEFINE r == onGpuFailure(kind)
  <2> DEFINE h == handlingOf(r)
  <2>1. kind \in FailureKinds BY DEF InitFailures, FailureKinds
  <2>2. /\ r.path \in Paths /\ r.windowOpen \in BOOLEAN /\ r.streak \in 0 .. RetryBudget
        /\ \/ h = "RetryScheduled" /\ mode = "Auto" /\ path = "Gpu" /\ r.path = "Gpu"
              /\ ~isImmediateFallback(kind)
           \/ h = "FallbackToCpu" /\ mode = "Auto" /\ r.path = "Cpu" /\ r.streak = 0
           \/ h = "FatalForcedGpu" /\ mode = "Gpu" /\ r.path = path /\ r.streak = streak
           \/ h = "Ignored" /\ path = "Cpu" /\ r.path = path /\ r.streak = streak
    BY <2>1, DecisionCases DEF IInv, ControlInv
  <2> HIDE DEF r, h
  <2>3. /\ BeginAboutToWait /\ MayTryInit /\ failures + 1 >= InitBudget /\ cpuSurface' = FALSE
        /\ path' = r.path /\ streak' = r.streak /\ windowOpen' = r.windowOpen /\ mode' = mode
        /\ UNCHANGED <<host, shown, syncOutput, redrawInFlight, requested, timer, draining, closed>>
        /\ \/ /\ h = "FallbackToCpu" /\ SyncDeferredInit(path', FALSE)
              /\ dirty' = TRUE /\ redrawPending' = TRUE /\ UNCHANGED exit
           \/ /\ h # "FallbackToCpu"
              /\ pending' = FALSE /\ failures' = failures + 1 /\ retry' = "none"
              /\ redrawPending' = (redrawPending \/ h = "RetryScheduled")
              /\ exit' = IF h = "FatalForcedGpu" THEN "fatal" ELSE exit
              /\ UNCHANGED <<gpu, lastCursor, dirty>>
    BY <1>15 DEF InitExhausted, ControllerTakes, r, h
  <2>4. isImmediateFallback(kind) BY DEF InitFailures, isImmediateFallback
  <2>5. CASE h = "FallbackToCpu"
    <3>1. path' = "Cpu" /\ streak' = 0 /\ mode' = "Auto" BY <2>2, <2>3, <2>5
    <3>2. pending' = FALSE /\ gpu' = FALSE /\ retry' = "none" /\ failures' = 0
      BY <2>3, <2>5, <3>1 DEF SyncDeferredInit
    <3> QED
      BY <1>b, <3>1, <3>2 DEF ControlInv, ForcedModeHonoured, CpuPathHoldsNoGpu,
         GpuPathIsPursued, AttemptsCounted
  <2>6. CASE h # "FallbackToCpu"
    <3>1. /\ h = "FatalForcedGpu" /\ mode' = "Gpu" /\ path' = "Gpu" /\ streak' = streak
          /\ mode = "Gpu" /\ exit' = "fatal" /\ loop' = "settling"
      BY <2>2, <2>3, <2>4, <2>6 DEF BeginAboutToWait, MayTryInit
    <3> QED
      BY <1>a, <3>1 DEF ControlInv, ForcedModeHonoured, CpuPathHoldsNoGpu, GpuPathIsPursued,
         AttemptsCounted, fromMode
  <2> QED BY <2>5, <2>6
<1>16. CASE ReturnFatal
  BY <1>a, <1>b, <1>16 DEF ReturnFatal, EndAboutToWait, controller, deferred, ending,
       ControlInv, ForcedModeHonoured, CpuPathHoldsNoGpu, GpuPathIsPursued, AttemptsCounted,
       fromMode, ControllerTypes, DeferredTypes, Modes, Paths
<1>17. CASE DrainForExit
  BY <1>a, <1>b, <1>17 DEF DrainForExit, EndAboutToWait, CursorMoves, RequestExit, controller,
       deferred, ending, ControlInv, ForcedModeHonoured, CpuPathHoldsNoGpu, GpuPathIsPursued,
       AttemptsCounted, fromMode, ControllerTypes, DeferredTypes, Modes, Paths
<1>18. CASE AwaitRetry
  BY <1>a, <1>b, <1>18 DEF AwaitRetry, EndAboutToWait, mayReturn, controller, deferred, ending,
       ControlInv, ForcedModeHonoured, CpuPathHoldsNoGpu, GpuPathIsPursued, AttemptsCounted,
       fromMode, ControllerTypes, DeferredTypes, Modes, Paths
<1>19. CASE Settle
  BY <1>a, <1>b, <1>19 DEF Settle, EndAboutToWait, mayReturn, isGpuLaneReady, controller,
       deferred, ending, ControlInv, ForcedModeHonoured, CpuPathHoldsNoGpu, GpuPathIsPursued,
       AttemptsCounted, fromMode, ControllerTypes, DeferredTypes, Modes, Paths
<1>20. CASE RetryFallsDue
  BY <1>a, <1>b, <1>20 DEF RetryFallsDue, controller, deferred, ending, ControlInv,
       ForcedModeHonoured, CpuPathHoldsNoGpu, GpuPathIsPursued, AttemptsCounted, fromMode,
       ControllerTypes, DeferredTypes, Modes, Paths
<1>21. CASE TimerFires
  BY <1>a, <1>b, <1>21 DEF TimerFires, controller, deferred, ending, ControlInv,
       ForcedModeHonoured, CpuPathHoldsNoGpu, GpuPathIsPursued, AttemptsCounted, fromMode,
       ControllerTypes, DeferredTypes, Modes, Paths
<1>22. CASE WindowElapses
  BY <1>a, <1>b, <1>22 DEF WindowElapses, controller, deferred, ending, ControlInv,
       ForcedModeHonoured, CpuPathHoldsNoGpu, GpuPathIsPursued, AttemptsCounted, fromMode,
       ControllerTypes, DeferredTypes, Modes, Paths
<1>23. CASE Exiting
  BY <1>a, <1>b, <1>23 DEF Exiting, SyncDeferredInit, controller, deferred, ending, ControlInv,
       ForcedModeHonoured, CpuPathHoldsNoGpu, GpuPathIsPursued, AttemptsCounted, fromMode,
       ControllerTypes, DeferredTypes, Modes, Paths
<1>24. QED
  BY <1>0, <1>1, <1>2, <1>3, <1>4, <1>5, <1>6, <1>7, <1>8, <1>9, <1>10, <1>11, <1>12, <1>13,
       <1>14, <1>15, <1>16, <1>17, <1>18, <1>19, <1>20, <1>21, <1>22, <1>23 DEF Next, Redraw,
       AboutToWait, TryDeferredInit

(* Every step keeps the redraws that are due.                               *)
LEMMA StepRedraw ==
  ASSUME IInv, [Next]_vars
  PROVE  RedrawInv'
<1>a. /\ ControllerTypes /\ DeferredTypes /\ SurfaceTypes /\ RedrawTypes /\ LoopTypes
      /\ ControlInv /\ RedrawInv
  BY DEF IInv, TypeOK
<1>b. 0 \in 0 .. RetryBudget /\ 0 \in 0 .. InitBudget /\ InitBudget # 0 /\ InitBudget \in Nat
  BY BudgetAssumption
<1>0. CASE UNCHANGED vars
  BY <1>a, <1>0 DEF vars, content, redraw, ending, RedrawInv, FlightIsOwed, DirtyIsScheduled,
       QueuedRedrawWakes, RedrawTypes, LoopTypes
<1>1. CASE Resumed
  <2>1. /\ loop' = "awake" /\ redrawPending' = redrawPending /\ redrawInFlight' = redrawInFlight
        /\ syncOutput' = syncOutput /\ requested \in BOOLEAN
        /\ requested' = requested \/ requested' = TRUE
    BY <1>a, <1>1 DEF Resumed, Handler, RedrawTypes
  <2>2. exit' = "none" => dirty' = FALSE
    BY <1>1 DEF Resumed
  <2> QED
    BY <1>a, <2>1, <2>2 DEF RedrawInv, FlightIsOwed, DirtyIsScheduled, QueuedRedrawWakes
<1>2. CASE RedrawDeferred
  BY <1>a, <1>b, <1>2 DEF RedrawDeferred, RedrawRequested, Handler, inIteration, content,
       redraw, ending, RedrawInv, FlightIsOwed, DirtyIsScheduled, QueuedRedrawWakes, RedrawTypes,
       LoopTypes
<1>3. CASE RedrawByCpu
  BY <1>a, <1>b, <1>3 DEF RedrawByCpu, RedrawRequested, Handler, inIteration, DrawCpuFrame,
       content, redraw, ending, RedrawInv, FlightIsOwed, DirtyIsScheduled, QueuedRedrawWakes,
       RedrawTypes, LoopTypes
<1>4. CASE RedrawUnchanged
  BY <1>a, <1>b, <1>4 DEF RedrawUnchanged, RedrawRequested, Handler, inIteration,
       FramePresented, content, redraw, ending, RedrawInv, FlightIsOwed, DirtyIsScheduled,
       QueuedRedrawWakes, RedrawTypes, LoopTypes
<1>5. CASE RedrawPresented
  BY <1>a, <1>b, <1>5 DEF RedrawPresented, RedrawRequested, Handler, inIteration,
       FramePresented, isGpuLaneReady, content, redraw, ending, RedrawInv, FlightIsOwed,
       DirtyIsScheduled, QueuedRedrawWakes, RedrawTypes, LoopTypes
<1>6. ASSUME NEW kind \in FrameFailures, RedrawFails(kind) PROVE RedrawInv'
  <2> DEFINE r == onGpuFailure(kind)
  <2> DEFINE h == handlingOf(r)
  <2>1. kind \in FailureKinds BY DEF FrameFailures, FailureKinds
  <2>2. /\ r.path \in Paths /\ r.windowOpen \in BOOLEAN /\ r.streak \in 0 .. RetryBudget
        /\ \/ h = "RetryScheduled" /\ mode = "Auto" /\ path = "Gpu" /\ r.path = "Gpu"
              /\ ~isImmediateFallback(kind)
           \/ h = "FallbackToCpu" /\ mode = "Auto" /\ r.path = "Cpu" /\ r.streak = 0
           \/ h = "FatalForcedGpu" /\ mode = "Gpu" /\ r.path = path /\ r.streak = streak
           \/ h = "Ignored" /\ path = "Cpu" /\ r.path = path /\ r.streak = streak
    BY <2>1, DecisionCases DEF IInv, ControlInv
  <2> HIDE DEF r, h
  <2>3. /\ RedrawRequested /\ ~syncOutput /\ isGpuLaneReady
        /\ path' = r.path /\ streak' = r.streak /\ windowOpen' = r.windowOpen /\ mode' = mode
        /\ UNCHANGED <<host, syncOutput, timer, draining, closed>>
        /\ \/ /\ h = "FatalForcedGpu" /\ exit' = "fatal" /\ lastCursor' = "same"
              /\ UNCHANGED <<deferred, gpu, cpuSurface, shown, dirty, redrawPending>>
           \/ /\ h = "FallbackToCpu" /\ SyncDeferredInit(path', FALSE) /\ redrawPending' = TRUE
              /\ DrawCpuFrame(TRUE)
           \/ /\ h \notin {"FatalForcedGpu", "FallbackToCpu"}
              /\ redrawPending' = (redrawPending \/ h = "RetryScheduled") /\ lastCursor' = "same"
              /\ DrawCpuFrame(dirty) /\ UNCHANGED <<deferred, gpu>>
    BY <1>6 DEF RedrawFails, ControllerTakes, r, h
  <2> QED BY <1>a, <1>b, <2>2, <2>3 DEF RedrawRequested, Handler, inIteration, isGpuLaneReady,
       SyncDeferredInit, DrawCpuFrame, content, redraw, ending, RedrawInv, FlightIsOwed,
       DirtyIsScheduled, QueuedRedrawWakes, RedrawTypes, LoopTypes
<1>7. CASE TerminalChanges
  BY <1>a, <1>b, <1>7 DEF TerminalChanges, Handler, inIteration, CursorMoves, content, redraw,
       ending, RedrawInv, FlightIsOwed, DirtyIsScheduled, QueuedRedrawWakes, RedrawTypes, LoopTypes
<1>8. ASSUME NEW m \in Modes, SetMode(m) PROVE RedrawInv'
  BY <1>a, <1>b, <1>8 DEF SetMode, Handler, inIteration, SyncDeferredInit, fromMode, content,
       redraw, ending, RedrawInv, FlightIsOwed, DirtyIsScheduled, QueuedRedrawWakes, RedrawTypes,
       LoopTypes
<1>9. CASE Exposed
  BY <1>a, <1>b, <1>9 DEF Exposed, inIteration, content, redraw, ending, RedrawInv,
       FlightIsOwed, DirtyIsScheduled, QueuedRedrawWakes, RedrawTypes, LoopTypes
<1>10. CASE EndRequested
  BY <1>a, <1>b, <1>10 DEF EndRequested, Handler, inIteration, RequestExit, content, redraw,
       ending, RedrawInv, FlightIsOwed, DirtyIsScheduled, QueuedRedrawWakes, RedrawTypes, LoopTypes
<1>11. CASE ChildExits
  BY <1>a, <1>b, <1>11 DEF ChildExits, Handler, inIteration, content, redraw, ending,
       RedrawInv, FlightIsOwed, DirtyIsScheduled, QueuedRedrawWakes, RedrawTypes, LoopTypes
<1>12. CASE InitNotDue
  BY <1>a, <1>b, <1>12 DEF InitNotDue, BeginAboutToWait, MayTryInit, content, redraw, ending,
       RedrawInv, FlightIsOwed, DirtyIsScheduled, QueuedRedrawWakes, RedrawTypes, LoopTypes
<1>13. CASE InitSucceeds
  BY <1>a, <1>b, <1>13 DEF InitSucceeds, BeginAboutToWait, MayTryInit, content, redraw, ending,
       RedrawInv, FlightIsOwed, DirtyIsScheduled, QueuedRedrawWakes, RedrawTypes, LoopTypes
<1>14. CASE InitRetries
  BY <1>a, <1>b, <1>14 DEF InitRetries, BeginAboutToWait, MayTryInit, content, redraw, ending,
       RedrawInv, FlightIsOwed, DirtyIsScheduled, QueuedRedrawWakes, RedrawTypes, LoopTypes
<1>15. ASSUME NEW kind \in InitFailures, InitExhausted(kind) PROVE RedrawInv'
  <2> DEFINE r == onGpuFailure(kind)
  <2> DEFINE h == handlingOf(r)
  <2>1. kind \in FailureKinds BY DEF InitFailures, FailureKinds
  <2>2. /\ r.path \in Paths /\ r.windowOpen \in BOOLEAN /\ r.streak \in 0 .. RetryBudget
        /\ \/ h = "RetryScheduled" /\ mode = "Auto" /\ path = "Gpu" /\ r.path = "Gpu"
              /\ ~isImmediateFallback(kind)
           \/ h = "FallbackToCpu" /\ mode = "Auto" /\ r.path = "Cpu" /\ r.streak = 0
           \/ h = "FatalForcedGpu" /\ mode = "Gpu" /\ r.path = path /\ r.streak = streak
           \/ h = "Ignored" /\ path = "Cpu" /\ r.path = path /\ r.streak = streak
    BY <2>1, DecisionCases DEF IInv, ControlInv
  <2> HIDE DEF r, h
  <2>3. /\ BeginAboutToWait /\ MayTryInit /\ failures + 1 >= InitBudget /\ cpuSurface' = FALSE
        /\ path' = r.path /\ streak' = r.streak /\ windowOpen' = r.windowOpen /\ mode' = mode
        /\ UNCHANGED <<host, shown, syncOutput, redrawInFlight, requested, timer, draining, closed>>
        /\ \/ /\ h = "FallbackToCpu" /\ SyncDeferredInit(path', FALSE)
              /\ dirty' = TRUE /\ redrawPending' = TRUE /\ UNCHANGED exit
           \/ /\ h # "FallbackToCpu"
              /\ pending' = FALSE /\ failures' = failures + 1 /\ retry' = "none"
              /\ redrawPending' = (redrawPending \/ h = "RetryScheduled")
              /\ exit' = IF h = "FatalForcedGpu" THEN "fatal" ELSE exit
              /\ UNCHANGED <<gpu, lastCursor, dirty>>
    BY <1>15 DEF InitExhausted, ControllerTakes, r, h
  <2>4. isImmediateFallback(kind) BY DEF InitFailures, isImmediateFallback
  <2> QED BY <1>a, <1>b, <2>2, <2>3, <2>4 DEF BeginAboutToWait, MayTryInit, SyncDeferredInit,
       content, redraw, ending, RedrawInv, FlightIsOwed, DirtyIsScheduled, QueuedRedrawWakes,
       RedrawTypes, LoopTypes
<1>16. CASE ReturnFatal
  BY <1>a, <1>b, <1>16 DEF ReturnFatal, EndAboutToWait, content, redraw, ending, RedrawInv,
       FlightIsOwed, DirtyIsScheduled, QueuedRedrawWakes, RedrawTypes, LoopTypes
<1>17. CASE DrainForExit
  <2>1. /\ redrawInFlight' = redrawInFlight /\ requested' = requested
        /\ syncOutput' = syncOutput
        /\ redrawPending' = redrawPending \/ redrawPending' = TRUE
        /\ dirty' # dirty => redrawPending'
        /\ exit' = "none" => exit = "none" /\ timer' = "tick"
    BY <1>a, <1>17 DEF DrainForExit, RequestExit, LoopTypes
  <2> QED
    BY <1>a, <2>1 DEF RedrawInv, FlightIsOwed, DirtyIsScheduled, QueuedRedrawWakes, RedrawTypes
<1>18. CASE AwaitRetry
  BY <1>a, <1>b, <1>18 DEF AwaitRetry, EndAboutToWait, mayReturn, content, redraw, ending,
       RedrawInv, FlightIsOwed, DirtyIsScheduled, QueuedRedrawWakes, RedrawTypes, LoopTypes
<1>19. CASE Settle
  BY <1>a, <1>b, <1>19 DEF Settle, EndAboutToWait, mayReturn, isGpuLaneReady, content, redraw,
       ending, RedrawInv, FlightIsOwed, DirtyIsScheduled, QueuedRedrawWakes, RedrawTypes, LoopTypes
<1>20. CASE RetryFallsDue
  BY <1>a, <1>b, <1>20 DEF RetryFallsDue, content, redraw, ending, RedrawInv, FlightIsOwed,
       DirtyIsScheduled, QueuedRedrawWakes, RedrawTypes, LoopTypes
<1>21. CASE TimerFires
  BY <1>a, <1>b, <1>21 DEF TimerFires, content, redraw, ending, RedrawInv, FlightIsOwed,
       DirtyIsScheduled, QueuedRedrawWakes, RedrawTypes, LoopTypes
<1>22. CASE WindowElapses
  BY <1>a, <1>b, <1>22 DEF WindowElapses, content, redraw, ending, RedrawInv, FlightIsOwed,
       DirtyIsScheduled, QueuedRedrawWakes, RedrawTypes, LoopTypes
<1>23. CASE Exiting
  BY <1>a, <1>b, <1>23 DEF Exiting, SyncDeferredInit, content, redraw, ending, RedrawInv,
       FlightIsOwed, DirtyIsScheduled, QueuedRedrawWakes, RedrawTypes, LoopTypes
<1>24. QED
  BY <1>0, <1>1, <1>2, <1>3, <1>4, <1>5, <1>6, <1>7, <1>8, <1>9, <1>10, <1>11, <1>12, <1>13,
       <1>14, <1>15, <1>16, <1>17, <1>18, <1>19, <1>20, <1>21, <1>22, <1>23 DEF Next, Redraw,
       AboutToWait, TryDeferredInit

----------------------------------------------------------------------------
(* The theorems.                                                            *)

(* The invariant holds in every reachable state.                            *)
THEOREM Invariance == Spec => []IInv
<1>1. IInv /\ [Next]_vars => IInv'
  BY StepTypes, StepControl, StepRedraw DEF IInv
<1>2. QED BY InitInv, <1>1, PTL DEF Spec

(* The variables have their types, and neither the failure streak nor the   *)
(* attempts to start the backend exceed their budgets.                      *)
THEOREM TypeCorrectness == Spec => []TypeOK
<1>1. IInv => TypeOK BY DEF IInv
<1>2. QED BY Invariance, <1>1, PTL

(* The controller never leaves a path the user forced.                      *)
THEOREM ForcedModesStand == Spec => []ForcedModeHonoured
<1>1. IInv => ForcedModeHonoured BY DEF IInv, ControlInv
<1>2. QED BY Invariance, <1>1, PTL

(* A session that draws with the CPU holds nothing of the GPU.              *)
THEOREM CpuPathIsClean == Spec => []CpuPathHoldsNoGpu
<1>1. IInv => CpuPathHoldsNoGpu BY DEF IInv, ControlInv
<1>2. QED BY Invariance, <1>1, PTL

(* A live session on the GPU path has a backend or is still starting one.   *)
THEOREM GpuPathIsAlive == Spec => []GpuPathIsPursued
<1>1. IInv => GpuPathIsPursued BY DEF IInv, ControlInv
<1>2. QED BY Invariance, <1>1, PTL

(* Dirty rows always have a redraw under way, or synchronized output holds  *)
(* them back.                                                               *)
THEOREM NoChangeForgotten == Spec => []DirtyIsScheduled
<1>1. IInv => DirtyIsScheduled BY DEF IInv, RedrawInv
<1>2. QED BY Invariance, <1>1, PTL

(* The loop never sleeps on a queued redraw without something to wake it.   *)
THEOREM NoSleepOnARedraw == Spec => []QueuedRedrawWakes
<1>1. IInv => QueuedRedrawWakes BY DEF IInv, RedrawInv
<1>2. QED BY Invariance, <1>1, PTL

(* The mode, the path, the backend and its deferred start agree.            *)
THEOREM PathsAlwaysAgree == Spec => []PathsAgree
<1>1. PathsAgree <=> ForcedModeHonoured /\ CpuPathHoldsNoGpu /\ GpuPathIsPursued
  BY DEF PathsAgree
<1>2. QED BY <1>1, ForcedModesStand, CpuPathIsClean, GpuPathIsAlive, PTL

(* A change that is not shown has a redraw on its way, and a way to it.     *)
THEOREM RedrawAlwaysComes == Spec => []RedrawIsComing
<1>1. RedrawIsComing <=> DirtyIsScheduled /\ QueuedRedrawWakes BY DEF RedrawIsComing
<1>2. QED BY <1>1, NoChangeForgotten, NoSleepOnARedraw, PTL

----------------------------------------------------------------------------
(* The eviction list of the atlas.                                          *)

Slot0 == SlotIds \cup {None}
Lists == [head : Slot0, tail : Slot0, linked : SUBSET SlotIds,
          prev : [SlotIds -> Slot0], next : [SlotIds -> Slot0]]

(* The list l runs through the slots q[1], ..., q[n], from the one used     *)
(* last to the one used longest ago, and back.                              *)
Ordered(l, n, q) ==
  /\ n \in Nat /\ q \in [1 .. n -> SlotIds \ {0}]
  /\ \A i, j \in 1 .. n : q[i] = q[j] => i = j
  /\ l.head = (IF n = 0 THEN None ELSE q[1])
  /\ l.tail = (IF n = 0 THEN None ELSE q[n])
  /\ \A i \in 1 .. n : l.next[q[i]] = (IF i = n THEN None ELSE q[i + 1])
  /\ \A i \in 1 .. n : l.prev[q[i]] = (IF i = 1 THEN None ELSE q[i - 1])
  /\ l.linked = {q[i] : i \in 1 .. n}

InFront(s, n, q) == [i \in 1 .. n + 1 |-> IF i = 1 THEN s ELSE q[i - 1]]
LeftOut(k, n, q) == [i \in 1 .. n - 1 |-> IF i < k THEN q[i] ELSE q[i + 1]]

LEMMA SlotFacts == SlotIds \subseteq Int /\ 0 \in SlotIds /\ None \notin SlotIds
BY SlotsAssumption DEF SlotIds

(* Linking a slot puts it in front.                                         *)
LEMMA LinkedInFront ==
  ASSUME NEW l \in Lists, NEW n, NEW q, Ordered(l, n, q), NEW s \in SlotIds \ {0}, s \notin l.linked
  PROVE  LinkFront(l, s) \in Lists /\ Ordered(LinkFront(l, s), n + 1, InFront(s, n, q))
<1> DEFINE u == LinkFront(l, s)
           tail == IF l.head = None THEN s ELSE l.tail
           prev == IF l.head = None THEN [l.prev EXCEPT ![s] = None]
                   ELSE [l.prev EXCEPT ![s] = None, ![l.head] = s]
           next == [l.next EXCEPT ![s] = l.head]
           p == InFront(s, n, q)
<1>1. n \in Nat /\ q \in [1 .. n -> SlotIds \ {0}] BY DEF Ordered
<1>2. u = [head |-> s, tail |-> tail, linked |-> l.linked \cup {s}, prev |-> prev, next |-> next]
  BY Zenon DEF LinkFront
<1>3. l.head \in Slot0 /\ l.tail \in Slot0 /\ l.linked \in SUBSET SlotIds
      /\ l.prev \in [SlotIds -> Slot0] /\ l.next \in [SlotIds -> Slot0]
  BY DEF Lists
<1>4. s \in Slot0 /\ None \in Slot0 BY DEF Slot0
<1>5. tail \in Slot0 /\ prev \in [SlotIds -> Slot0] /\ next \in [SlotIds -> Slot0]
  BY <1>3, <1>4
<1>6. u \in Lists
  <2> HIDE DEF tail, prev, next, u
  <2> QED BY <1>2, <1>3, <1>4, <1>5 DEF Lists
<1>7. u.head = s /\ u.tail = tail /\ u.linked = l.linked \cup {s} /\ u.prev = prev /\ u.next = next
  <2> HIDE DEF tail, prev, next, u
  <2> QED BY <1>2
<1>8. \A i \in 1 .. n : q[i] # s BY DEF Ordered
<1>9. p \in [1 .. n + 1 -> SlotIds \ {0}] /\ p[1] = s /\ \A i \in 1 .. n : p[i + 1] = q[i]
  BY <1>1 DEF InFront
<1>10. \A i \in 2 .. n + 1 : p[i] = q[i - 1] /\ i - 1 \in 1 .. n BY <1>1 DEF InFront
<1> HIDE DEF u, p
<1>11. \A i, j \in 1 .. n + 1 : p[i] = p[j] => i = j
  <2> SUFFICES ASSUME NEW i \in 1 .. n + 1, NEW j \in 1 .. n + 1, p[i] = p[j] PROVE i = j OBVIOUS
  <2>1. CASE i = 1 /\ j = 1 BY <2>1
  <2>2. CASE i = 1 /\ j # 1 BY <1>1, <1>8, <1>9, <1>10, <2>2
  <2>3. CASE i # 1 /\ j = 1 BY <1>1, <1>8, <1>9, <1>10, <2>3
  <2>4. CASE i # 1 /\ j # 1
    <3>1. i - 1 \in 1 .. n /\ j - 1 \in 1 .. n /\ p[i] = q[i - 1] /\ p[j] = q[j - 1]
      BY <1>1, <1>10, <2>4
    <3>2. i - 1 = j - 1 BY <3>1 DEF Ordered
    <3> QED BY <1>1, <3>2
  <2> QED BY <2>1, <2>2, <2>3, <2>4
<1>12. u.tail = p[n + 1]
  <2>1. CASE n = 0 BY <1>7, <1>9, <2>1 DEF Ordered
  <2>2. CASE n # 0
    <3>1. l.head # None /\ l.tail = q[n] BY <1>1, <2>2, SlotFacts DEF Ordered
    <3>2. n \in 1 .. n BY <1>1, <2>2
    <3> QED BY <1>7, <1>9, <3>1, <3>2
  <2> QED BY <2>1, <2>2
<1>13. ASSUME NEW i \in 1 .. n + 1 PROVE u.next[p[i]] = (IF i = n + 1 THEN None ELSE p[i + 1])
  <2>1. CASE i = 1
    <3>1. u.next[s] = l.head BY <1>3, <1>7
    <3>2. CASE n = 0 BY <1>9, <2>1, <3>1, <3>2 DEF Ordered
    <3>3. CASE n # 0
      <4>1. l.head = q[1] /\ 1 \in 1 .. n /\ 1 # n + 1 BY <1>1, <3>3 DEF Ordered
      <4>2. p[1 + 1] = q[1] BY <1>9, <4>1
      <4> QED BY <1>9, <2>1, <3>1, <4>1, <4>2
    <3> QED BY <3>2, <3>3
  <2>2. CASE i # 1
    <3> DEFINE k == i - 1
    <3>1. k \in 1 .. n /\ i = k + 1 /\ p[i] = q[k] BY <1>1, <1>10, <2>2
    <3> HIDE DEF k
    <3>2. q[k] # s /\ q[k] \in SlotIds BY <1>1, <1>8, <3>1
    <3>3. u.next[q[k]] = l.next[q[k]] BY <1>3, <1>7, <3>2
    <3>4. l.next[q[k]] = (IF k = n THEN None ELSE q[k + 1]) BY <3>1 DEF Ordered
    <3>5. CASE k = n BY <3>1, <3>3, <3>4, <3>5
    <3>6. CASE k # n
      <4>1. k + 1 \in 1 .. n /\ i # n + 1 BY <1>1, <3>1, <3>6
      <4>2. p[(k + 1) + 1] = q[k + 1] BY <1>9, <4>1
      <4> QED BY <3>1, <3>3, <3>4, <3>6, <4>1, <4>2
    <3> QED BY <3>5, <3>6
  <2> QED BY <2>1, <2>2
<1>14. ASSUME NEW i \in 1 .. n + 1 PROVE u.prev[p[i]] = (IF i = 1 THEN None ELSE p[i - 1])
  <2>1. CASE i = 1
    <3>1. s # l.head
      <4>1. CASE n = 0 BY <4>1, SlotFacts DEF Ordered
      <4>2. CASE n # 0
        <5>1. 1 \in 1 .. n /\ l.head = q[1] BY <1>1, <4>2 DEF Ordered
        <5> QED BY <1>8, <5>1
      <4> QED BY <4>1, <4>2
    <3>2. prev[s] = None BY <1>3, <3>1
    <3> QED BY <1>7, <1>9, <2>1, <3>2
  <2>2. CASE i # 1
    <3> DEFINE k == i - 1
    <3>1. k \in 1 .. n /\ i = k + 1 /\ p[i] = q[k] BY <1>1, <1>10, <2>2
    <3>h. i - 1 = k OBVIOUS
    <3> HIDE DEF k
    <3>2. q[k] # s /\ q[k] \in SlotIds BY <1>1, <1>8, <3>1
    <3>3. n # 0 /\ l.head = q[1] /\ q[1] \in SlotIds /\ 1 \in 1 .. n BY <1>1, <3>1 DEF Ordered
    <3>4. l.head # None BY <3>3, SlotFacts
    <3>5. prev = [l.prev EXCEPT ![s] = None, ![q[1]] = s] BY <3>3, <3>4
    <3>6. CASE k = 1
      <4>1. prev[q[1]] = s BY <1>3, <3>3, <3>5
      <4> QED BY <1>7, <1>9, <2>2, <3>1, <3>6, <3>h, <4>1
    <3>7. CASE k # 1
      <4>1. q[k] # q[1] BY <3>1, <3>3, <3>7 DEF Ordered
      <4>2. prev[q[k]] = l.prev[q[k]] BY <1>3, <3>2, <3>3, <3>5, <4>1
      <4>3. l.prev[q[k]] = q[k - 1] BY <3>1, <3>7 DEF Ordered
      <4>4. k \in 2 .. n + 1 BY <1>1, <3>1, <3>7
      <4>5. p[k] = q[k - 1] BY <1>10, <4>4
      <4> QED BY <1>7, <2>2, <3>1, <3>h, <4>2, <4>3, <4>5
    <3> QED BY <3>6, <3>7
  <2> QED BY <2>1, <2>2
<1>15. u.linked = {p[i] : i \in 1 .. n + 1}
  <2>1. l.linked = {q[i] : i \in 1 .. n} BY DEF Ordered
  <2>2. ASSUME NEW x \in u.linked PROVE \E i \in 1 .. n + 1 : x = p[i]
    <3>1. CASE x = s BY <1>1, <1>9, <3>1
    <3>2. CASE x # s
      <4>1. PICK i \in 1 .. n : x = q[i] BY <1>7, <2>1, <2>2, <3>2
      <4>2. i + 1 \in 1 .. n + 1 BY <1>1
      <4> QED BY <1>9, <4>1, <4>2
    <3> QED BY <3>1, <3>2
  <2>3. ASSUME NEW i \in 1 .. n + 1 PROVE p[i] \in u.linked
    <3>1. CASE i = 1 BY <1>7, <1>9, <3>1
    <3>2. CASE i # 1 BY <1>1, <1>7, <1>10, <2>1, <3>2
    <3> QED BY <3>1, <3>2
  <2> QED BY <2>2, <2>3
<1>16. u.head = (IF n + 1 = 0 THEN None ELSE p[1]) /\ u.tail = (IF n + 1 = 0 THEN None ELSE p[n + 1])
  BY <1>1, <1>7, <1>9, <1>12
<1>17. Ordered(u, n + 1, p)
  BY <1>1, <1>9, <1>11, <1>13, <1>14, <1>15, <1>16 DEF Ordered
<1> QED BY <1>6, <1>17 DEF u, p

(* Unlinking a slot leaves the others in their order.                       *)
LEMMA UnlinkedLeavesOrder ==
  ASSUME NEW l \in Lists, NEW n, NEW q, Ordered(l, n, q), NEW k \in 1 .. n
  PROVE  Unlink(l, q[k]) \in Lists /\ Ordered(Unlink(l, q[k]), n - 1, LeftOut(k, n, q))
<1> DEFINE s == q[k]
           u == Unlink(l, s)
           before == l.prev[s]
           behind == l.next[s]
           head == IF before = None THEN behind ELSE l.head
           tail == IF behind = None THEN before ELSE l.tail
           prev == IF behind = None THEN [l.prev EXCEPT ![s] = None]
                   ELSE [l.prev EXCEPT ![behind] = before, ![s] = None]
           next == IF before = None THEN [l.next EXCEPT ![s] = None]
                   ELSE [l.next EXCEPT ![before] = behind, ![s] = None]
           p == LeftOut(k, n, q)
<1>1. n \in Nat /\ q \in [1 .. n -> SlotIds \ {0}] /\ k \in Int /\ n # 0 /\ n - 1 \in Nat BY DEF Ordered
<1>2. u = [head |-> head, tail |-> tail, linked |-> l.linked \ {s}, prev |-> prev, next |-> next]
  BY Zenon DEF Unlink
<1>3. l.head \in Slot0 /\ l.tail \in Slot0 /\ l.linked \in SUBSET SlotIds
      /\ l.prev \in [SlotIds -> Slot0] /\ l.next \in [SlotIds -> Slot0]
  BY DEF Lists
<1>4. s \in SlotIds /\ None \in Slot0 /\ before \in Slot0 /\ behind \in Slot0 BY <1>1, <1>3 DEF Slot0
<1>5. head \in Slot0 /\ tail \in Slot0 /\ prev \in [SlotIds -> Slot0] /\ next \in [SlotIds -> Slot0]
  BY <1>3, <1>4
<1>6. u \in Lists
  <2> HIDE DEF head, tail, prev, next, u
  <2> QED BY <1>2, <1>3, <1>5 DEF Lists
<1>7. u.head = head /\ u.tail = tail /\ u.linked = l.linked \ {s} /\ u.prev = prev /\ u.next = next
  <2> HIDE DEF head, tail, prev, next, u
  <2> QED BY <1>2
<1>8. before = (IF k = 1 THEN None ELSE q[k - 1]) /\ behind = (IF k = n THEN None ELSE q[k + 1])
  BY DEF Ordered
<1>9. /\ k # 1 => k - 1 \in 1 .. n /\ q[k - 1] \in SlotIds /\ before # None
      /\ k # n => k + 1 \in 1 .. n /\ q[k + 1] \in SlotIds /\ behind # None
  BY <1>1, <1>8, SlotFacts
<1>10. p \in [1 .. n - 1 -> SlotIds \ {0}]
  <2> SUFFICES ASSUME NEW i \in 1 .. n - 1 PROVE (IF i < k THEN q[i] ELSE q[i + 1]) \in SlotIds \ {0}
    BY DEF LeftOut
  <2>1. i \in 1 .. n /\ i + 1 \in 1 .. n BY <1>1
  <2> QED BY <1>1, <2>1
<1>11. \A i \in 1 .. n - 1 : p[i] = (IF i < k THEN q[i] ELSE q[i + 1]) BY DEF LeftOut
<1>12. \A i, j \in 1 .. n : i # j => q[i] # q[j] BY DEF Ordered
<1>13. /\ \A i \in 1 .. n : l.next[q[i]] = (IF i = n THEN None ELSE q[i + 1])
       /\ \A i \in 1 .. n : l.prev[q[i]] = (IF i = 1 THEN None ELSE q[i - 1])
  BY DEF Ordered
<1>14. /\ l.head = q[1] /\ l.tail = q[n] /\ 1 \in 1 .. n /\ n \in 1 .. n
       /\ l.linked = {q[i] : i \in 1 .. n}
  BY <1>1 DEF Ordered
<1> HIDE DEF u, p
<1>15. \A i, j \in 1 .. n - 1 : p[i] = p[j] => i = j
  <2> SUFFICES ASSUME NEW i \in 1 .. n - 1, NEW j \in 1 .. n - 1, i # j PROVE p[i] # p[j] OBVIOUS
  <2> DEFINE a == IF i < k THEN i ELSE i + 1
             b == IF j < k THEN j ELSE j + 1
  <2>1. a \in 1 .. n /\ b \in 1 .. n /\ a # b BY <1>1
  <2>2. p[i] = q[a] /\ p[j] = q[b] BY <1>11
  <2> HIDE DEF a, b
  <2> QED BY <1>12, <2>1, <2>2
<1>16. u.head = (IF n - 1 = 0 THEN None ELSE p[1])
  <2>1. CASE k = 1 /\ n = 1 BY <1>7, <1>8, <2>1
  <2>2. CASE k = 1 /\ n # 1
    <3>1. u.head = q[1 + 1] BY <1>7, <1>8, <2>2
    <3>2. 1 \in 1 .. n - 1 /\ ~(1 < k) BY <1>1, <2>2
    <3>3. p[1] = q[1 + 1] BY <1>11, <3>2
    <3> QED BY <1>1, <2>2, <3>1, <3>3
  <2>3. CASE k # 1
    <3>1. u.head = q[1] BY <1>7, <1>9, <1>14, <2>3
    <3>2. 1 \in 1 .. n - 1 /\ 1 < k BY <1>1, <2>3
    <3> QED BY <1>1, <1>11, <3>1, <3>2
  <2> QED BY <2>1, <2>2, <2>3
<1>17. u.tail = (IF n - 1 = 0 THEN None ELSE p[n - 1])
  <2>1. CASE k = n /\ n = 1 BY <1>7, <1>8, <2>1
  <2>2. CASE k = n /\ n # 1
    <3>1. u.tail = q[n - 1] BY <1>7, <1>8, <2>2
    <3>2. n - 1 \in 1 .. n - 1 /\ n - 1 < k BY <1>1, <2>2
    <3> QED BY <1>1, <1>11, <3>1, <3>2
  <2>3. CASE k # n
    <3>1. u.tail = q[n] BY <1>7, <1>9, <1>14, <2>3
    <3>2. n - 1 \in 1 .. n - 1 /\ ~(n - 1 < k) /\ (n - 1) + 1 = n BY <1>1, <2>3
    <3> QED BY <1>1, <1>11, <3>1, <3>2
  <2> QED BY <2>1, <2>2, <2>3
<1>18. \A j \in 1 .. n : j # k =>
         u.next[q[j]] = (IF j = k - 1 THEN behind ELSE l.next[q[j]])
  <2> SUFFICES ASSUME NEW j \in 1 .. n, j # k
               PROVE  next[q[j]] = (IF j = k - 1 THEN behind ELSE l.next[q[j]])
    BY <1>7
  <2>1. q[j] # s /\ q[j] \in SlotIds BY <1>1, <1>12
  <2>2. CASE k = 1
    <3>1. before = None /\ j # k - 1 BY <1>8, <2>2
    <3>2. next[q[j]] = l.next[q[j]] BY <1>3, <2>1, <3>1
    <3> QED BY <3>1, <3>2
  <2>3. CASE k # 1
    <3>1. next = [l.next EXCEPT ![before] = behind, ![s] = None] /\ before = q[k - 1] /\ before \in SlotIds
          /\ k - 1 \in 1 .. n
      BY <1>8, <1>9, <2>3
    <3> HIDE DEF next, before, behind, s
    <3>2. CASE j = k - 1 BY <1>3, <2>1, <3>1, <3>2
    <3>3. CASE j # k - 1
      <4>1. q[j] # before BY <1>12, <3>1, <3>3
      <4> QED BY <1>3, <2>1, <3>1, <3>3, <4>1
    <3> QED BY <3>2, <3>3
  <2> QED BY <2>2, <2>3
<1>19. \A j \in 1 .. n : j # k =>
         u.prev[q[j]] = (IF j = k + 1 THEN before ELSE l.prev[q[j]])
  <2> SUFFICES ASSUME NEW j \in 1 .. n, j # k
               PROVE  prev[q[j]] = (IF j = k + 1 THEN before ELSE l.prev[q[j]])
    BY <1>7
  <2>1. q[j] # s /\ q[j] \in SlotIds BY <1>1, <1>12
  <2>2. CASE k = n
    <3>1. behind = None /\ j # k + 1 BY <1>8, <2>2
    <3>2. prev[q[j]] = l.prev[q[j]] BY <1>3, <2>1, <3>1
    <3> QED BY <3>1, <3>2
  <2>3. CASE k # n
    <3>1. prev = [l.prev EXCEPT ![behind] = before, ![s] = None] /\ behind = q[k + 1] /\ behind \in SlotIds
          /\ k + 1 \in 1 .. n
      BY <1>8, <1>9, <2>3
    <3> HIDE DEF prev, before, behind, s
    <3>2. CASE j = k + 1 BY <1>3, <2>1, <3>1, <3>2
    <3>3. CASE j # k + 1
      <4>1. q[j] # behind BY <1>12, <3>1, <3>3
      <4> QED BY <1>3, <2>1, <3>1, <3>3, <4>1
    <3> QED BY <3>2, <3>3
  <2> QED BY <2>2, <2>3
<1> HIDE DEF head, tail, prev, next
<1>20. ASSUME NEW i \in 1 .. n - 1 PROVE u.next[p[i]] = (IF i = n - 1 THEN None ELSE p[i + 1])
  <2>a. i \in Int /\ i \in 1 .. n /\ i + 1 \in 1 .. n /\ (i # n - 1 => i + 1 \in 1 .. n - 1) BY <1>1
  <2>1. CASE i < k - 1
    <3>1. p[i] = q[i] /\ p[i + 1] = q[i + 1] /\ i # k /\ i # k - 1 /\ i # n - 1 /\ i # n
      BY <1>1, <1>11, <2>a, <2>1
    <3> QED BY <1>13, <1>18, <2>a, <3>1
  <2>2. CASE i = k - 1
    <3>1. p[i] = q[i] /\ i # k BY <1>1, <1>11, <2>2
    <3>2. u.next[p[i]] = behind BY <1>18, <2>a, <2>2, <3>1
    <3>3. CASE k = n BY <1>8, <2>2, <3>2, <3>3
    <3>4. CASE k # n
      <4>1. k \in 1 .. n - 1 /\ i + 1 = k /\ i # n - 1 BY <1>1, <2>2, <3>4
      <4>2. p[k] = q[k + 1] BY <1>11, <4>1
      <4> QED BY <1>8, <3>2, <3>4, <4>1, <4>2
    <3> QED BY <3>3, <3>4
  <2>3. CASE i >= k
    <3>1. p[i] = q[i + 1] /\ i + 1 # k /\ i + 1 # k - 1 BY <1>1, <1>11, <2>a, <2>3
    <3>2. u.next[p[i]] = l.next[q[i + 1]] BY <1>18, <2>a, <3>1
    <3>3. l.next[q[i + 1]] = (IF i + 1 = n THEN None ELSE q[(i + 1) + 1]) BY <1>13, <2>a
    <3>4. CASE i = n - 1 BY <1>1, <3>2, <3>3, <3>4
    <3>5. CASE i # n - 1
      <4>1. i + 1 # n /\ ~(i + 1 < k) BY <1>1, <2>a, <2>3, <3>5
      <4>2. p[i + 1] = q[(i + 1) + 1] BY <1>11, <2>a, <3>5, <4>1
      <4> QED BY <3>2, <3>3, <3>5, <4>1, <4>2
    <3> QED BY <3>4, <3>5
  <2> QED BY <1>1, <2>a, <2>1, <2>2, <2>3
<1>21. ASSUME NEW i \in 1 .. n - 1 PROVE u.prev[p[i]] = (IF i = 1 THEN None ELSE p[i - 1])
  <2>a. i \in Int /\ i \in 1 .. n /\ i + 1 \in 1 .. n /\ (i # 1 => i - 1 \in 1 .. n - 1) BY <1>1
  <2>1. CASE i < k
    <3>1. p[i] = q[i] /\ i # k /\ i # k + 1 BY <1>1, <1>11, <2>a, <2>1
    <3>2. u.prev[p[i]] = l.prev[q[i]] BY <1>19, <2>a, <3>1
    <3>3. CASE i = 1 BY <1>13, <2>a, <3>2, <3>3
    <3>4. CASE i # 1
      <4>1. i - 1 < k BY <1>1, <2>a, <2>1
      <4>2. p[i - 1] = q[i - 1] BY <1>11, <2>a, <3>4, <4>1
      <4> QED BY <1>13, <2>a, <3>2, <3>4, <4>2
    <3> QED BY <3>3, <3>4
  <2>2. CASE i = k
    <3>1. p[i] = q[i + 1] /\ i + 1 # k BY <1>1, <1>11, <2>a, <2>2
    <3>2. u.prev[p[i]] = before BY <1>19, <2>a, <2>2, <3>1
    <3>3. CASE i = 1 BY <1>8, <2>2, <3>2, <3>3
    <3>4. CASE i # 1
      <4>1. i - 1 < k BY <1>1, <2>a, <2>2
      <4>2. p[i - 1] = q[i - 1] BY <1>11, <2>a, <3>4, <4>1
      <4> QED BY <1>8, <2>2, <3>2, <3>4, <4>2
    <3> QED BY <3>3, <3>4
  <2>3. CASE i > k
    <3>1. p[i] = q[i + 1] /\ i + 1 # k /\ i + 1 # k + 1 /\ i + 1 # 1 /\ i # 1 /\ (i + 1) - 1 = i
      BY <1>1, <1>11, <2>a, <2>3
    <3>2. u.prev[p[i]] = l.prev[q[i + 1]] BY <1>19, <2>a, <3>1
    <3>3. l.prev[q[i + 1]] = q[i] BY <1>13, <2>a, <3>1
    <3>4. ~(i - 1 < k) /\ (i - 1) + 1 = i BY <1>1, <2>a, <2>3
    <3>5. p[i - 1] = q[i] BY <1>11, <2>a, <3>1, <3>4
    <3> QED BY <3>1, <3>2, <3>3, <3>5
  <2> QED BY <1>1, <2>a, <2>1, <2>2, <2>3
<1>22. u.linked = {p[i] : i \in 1 .. n - 1}
  <2>1. ASSUME NEW x \in u.linked PROVE \E i \in 1 .. n - 1 : x = p[i]
    <3>1. PICK j \in 1 .. n : x = q[j] /\ j # k BY <1>7, <1>14, <2>1
    <3>2. CASE j < k
      <4>1. j \in 1 .. n - 1 BY <1>1, <3>2
      <4> QED BY <1>11, <3>1, <3>2, <4>1
    <3>3. CASE j > k
      <4>1. j - 1 \in 1 .. n - 1 /\ ~(j - 1 < k) /\ (j - 1) + 1 = j BY <1>1, <3>3
      <4>2. p[j - 1] = q[j] BY <1>11, <4>1
      <4> QED BY <3>1, <4>1, <4>2
    <3> QED BY <1>1, <3>1, <3>2, <3>3
  <2>2. ASSUME NEW i \in 1 .. n - 1 PROVE p[i] \in u.linked
    <3> DEFINE a == IF i < k THEN i ELSE i + 1
    <3>1. a \in 1 .. n /\ a # k BY <1>1
    <3>2. p[i] = q[a] BY <1>11
    <3> HIDE DEF a
    <3>3. q[a] # s BY <1>12, <3>1
    <3> HIDE DEF s
    <3> QED BY <1>7, <1>14, <3>1, <3>2, <3>3
  <2> QED BY <2>1, <2>2
<1>23. Ordered(u, n - 1, p)
  BY <1>1, <1>10, <1>15, <1>16, <1>17, <1>20, <1>21, <1>22 DEF Ordered
<1> QED BY <1>6, <1>23 DEF u, p

(* A slot that is touched comes to the front, wherever it was.              *)
Touched(l, u, n, s) ==
  /\ u \in Lists
  /\ u.linked = (IF s = 0 THEN l.linked ELSE l.linked \cup {s})
  /\ \E p : Ordered(u, IF s = 0 \/ s \in l.linked THEN n ELSE n + 1, p)

LEMMA TouchedToFront ==
  ASSUME NEW l \in Lists, NEW n, NEW q, Ordered(l, n, q), NEW s \in SlotIds
  PROVE  Touched(l, Touch(l, s), n, s)
<1>1. CASE s = 0
  <2>1. Touch(l, s) = l BY <1>1 DEF Touch
  <2> QED BY <1>1, <2>1 DEF Touched
<1>2. CASE s # 0 /\ s \in l.linked
  <2>1. n \in Nat /\ \E k \in 1 .. n : s = q[k] BY <1>2 DEF Ordered
  <2>2. PICK k \in 1 .. n : s = q[k] BY <2>1
  <2> DEFINE v == Unlink(l, s)
             r == LeftOut(k, n, q)
  <2>3. v \in Lists /\ Ordered(v, n - 1, r) BY <2>2, UnlinkedLeavesOrder
  <2>4. v.linked = l.linked \ {s} BY DEF Unlink
  <2> HIDE DEF v, r
  <2>5. s \notin v.linked /\ s \in SlotIds \ {0} BY <1>2, <2>4
  <2>6. LinkFront(v, s) \in Lists /\ Ordered(LinkFront(v, s), (n - 1) + 1, InFront(s, n - 1, r))
    BY <2>3, <2>5, LinkedInFront
  <2>7. LinkFront(v, s).linked = v.linked \cup {s} BY DEF LinkFront
  <2>8. Touch(l, s) = LinkFront(v, s) BY <1>2 DEF Touch, v
  <2>9. (n - 1) + 1 = n /\ v.linked \cup {s} = l.linked \cup {s} BY <2>1, <2>4
  <2> QED BY <1>2, <2>6, <2>7, <2>8, <2>9 DEF Touched
<1>3. CASE s # 0 /\ s \notin l.linked
  <2>1. LinkFront(l, s) \in Lists /\ Ordered(LinkFront(l, s), n + 1, InFront(s, n, q))
    BY <1>3, LinkedInFront
  <2>2. LinkFront(l, s).linked = l.linked \cup {s} BY DEF LinkFront
  <2>3. Touch(l, s) = LinkFront(l, s) BY <1>3 DEF Touch
  <2> QED BY <1>3, <2>1, <2>2, <2>3 DEF Touched
<1> QED BY <1>1, <1>2, <1>3

(* A walk along a chain of slots is the chain.                              *)
LEMMA WalkIsChain ==
  ASSUME NEW n \in 0 .. Slots, NEW q \in [1 .. n -> SlotIds], NEW from, NEW after \in [SlotIds -> Slot0],
         from = (IF n = 0 THEN None ELSE q[1]),
         \A i \in 1 .. n : after[q[i]] = (IF i = n THEN None ELSE q[i + 1])
  PROVE  Walk(from, after) = q /\ q \in Seq(SlotIds) /\ Len(q) = n
<1> USE SlotsAssumption
<1> DEFINE Slot(m, w) == IF m = 1 THEN from
                         ELSE IF Len(w) < m - 1 THEN None ELSE after[w[m - 1]]
           More(m, w) == IF Slot(m, w) = None THEN w ELSE Append(w, Slot(m, w))
           F(f) == [m \in 0 .. Slots |-> IF m = 0 THEN <<>> ELSE More(m, f[m - 1])]
           upTo == CHOOSE f : f = F(f)
           V == Seq(SlotIds)
           step == [m \in 0 .. Slots |-> [w \in V |-> More(m + 1, w)]]
<1>1. n \in Nat /\ Slots \in Nat OBVIOUS
<1>2. from \in Slot0 BY <1>1 DEF Slot0
<1>3. ASSUME NEW m \in 1 .. Slots + 1, NEW w \in V PROVE More(m, w) \in V
  <2>1. Slot(m, w) \in Slot0
    <3>1. CASE m = 1 BY <1>2, <3>1
    <3>2. CASE m # 1 /\ Len(w) < m - 1 BY <3>2 DEF Slot0
    <3>3. CASE m # 1 /\ ~(Len(w) < m - 1)
      <4>1. m - 1 \in 1 .. Len(w) BY <1>1, <3>3
      <4>2. w[m - 1] \in SlotIds BY <4>1
      <4> QED BY <3>3, <4>2
    <3> QED BY <3>1, <3>2, <3>3
  <2> HIDE DEF Slot
  <2> QED BY <2>1 DEF Slot0
<1> HIDE DEF More
<1>4. step \in [0 .. Slots -> [V -> V]]
  <2>1. \A m \in 0 .. Slots : m + 1 \in 1 .. Slots + 1 BY <1>1
  <2> QED BY <1>3, <2>1
<1>5. PICK g \in [0 .. Slots -> V] : g[0] = <<>> /\ \A m \in 0 .. (Slots - 1) : g[m + 1] = step[m][g[m]]
  <2>1. <<>> \in V OBVIOUS
  <2> HIDE DEF step, V
  <2>2. Iterations(V, <<>>, Slots, step) # {} BY <1>1, <1>4, <2>1, IterationsExist
  <2> QED BY <2>2 DEF Iterations
<1>6. g = F(g)
  <2>1. ASSUME NEW m \in 1 .. Slots PROVE g[m] = More(m, g[m - 1])
    <3>1. m - 1 \in 0 .. (Slots - 1) /\ m - 1 \in 0 .. Slots /\ (m - 1) + 1 = m /\ g[m - 1] \in V BY <1>1, <1>5
    <3>2. step[m - 1][g[m - 1]] = More((m - 1) + 1, g[m - 1]) BY <3>1
    <3> HIDE DEF step
    <3> QED BY <1>5, <3>1, <3>2
  <2>2. \A m \in 0 .. Slots : g[m] = F(g)[m] BY <1>1, <1>5, <2>1
  <2> QED BY <1>5, <2>2
<1>7. upTo = F(upTo)
  <2> HIDE DEF F
  <2> QED BY <1>6
<1> HIDE DEF upTo
<1>8. upTo[0] = <<>> /\ \A m \in 1 .. Slots : upTo[m] = More(m, upTo[m - 1])
  <2>1. \A m \in 0 .. Slots : upTo[m] = F(upTo)[m]
    <3> HIDE DEF F
    <3> QED BY <1>7
  <2>2. 0 \in 0 .. Slots /\ \A m \in 1 .. Slots : m \in 0 .. Slots /\ m # 0 BY <1>1
  <2>3. F(upTo)[0] = <<>> /\ \A m \in 1 .. Slots : F(upTo)[m] = More(m, upTo[m - 1])
    BY <2>2
  <2> HIDE DEF F
  <2> QED BY <2>1, <2>2, <2>3
<1> DEFINE Part(m) == [i \in 1 .. m |-> q[i]]
           I == {m \in Nat : upTo[m] = Part(IF m < n THEN m ELSE n)}
<1>9. \A m \in 0 .. n : Part(m) \in Seq(SlotIds) /\ Len(Part(m)) = m /\ \A i \in 1 .. m : Part(m)[i] = q[i]
  <2> SUFFICES ASSUME NEW m \in 0 .. n
               PROVE  Part(m) \in Seq(SlotIds) /\ Len(Part(m)) = m /\ \A i \in 1 .. m : Part(m)[i] = q[i]
    OBVIOUS
  <2>1. m \in Nat /\ \A i \in 1 .. m : q[i] \in SlotIds BY <1>1
  <2> QED BY <2>1
<1>10. 0 .. Slots \subseteq I
  <2>1. 0 \in I
    <3>1. (IF 0 < n THEN 0 ELSE n) = 0 BY <1>1
    <3>2. Part(0) = <<>> BY <1>1, <1>9
    <3> QED BY <1>8, <3>1, <3>2
  <2>2. ASSUME NEW m \in 0 .. (Slots - 1), m \in I PROVE m + 1 \in I
    <3>1. m + 1 \in 1 .. Slots /\ (m + 1) - 1 = m /\ m \in Nat BY <1>1
    <3>2. upTo[m + 1] = More(m + 1, upTo[m]) BY <1>8, <3>1
    <3>3. CASE m < n
      <4>1. upTo[m] = Part(m) BY <2>2, <3>3
      <4>2. Slot(m + 1, Part(m)) = q[m + 1]
        <5>1. CASE m = 0 BY <3>3, <5>1
        <5>2. CASE m # 0
          <6>1. m \in 1 .. n /\ m # n /\ Len(Part(m)) = m /\ Part(m)[m] = q[m] /\ m \in 0 .. n
            BY <1>1, <1>9, <3>1, <3>3, <5>2
          <6>2. after[q[m]] = q[m + 1] BY <6>1
          <6> HIDE DEF Part
          <6> QED BY <3>1, <5>2, <6>1, <6>2
        <5> QED BY <5>1, <5>2
      <4>3. q[m + 1] \in SlotIds /\ m + 1 \in 0 .. n /\ m \in 0 .. n BY <1>1, <3>1, <3>3
      <4>4. Append(Part(m), q[m + 1]) = Part(m + 1)
        <5>1. Append(Part(m), q[m + 1]) \in Seq(SlotIds) /\ Len(Append(Part(m), q[m + 1])) = m + 1
          BY <1>9, <4>3
        <5>2. \A i \in 1 .. m + 1 : Append(Part(m), q[m + 1])[i] = q[i]
          <6> SUFFICES ASSUME NEW i \in 1 .. m + 1 PROVE Append(Part(m), q[m + 1])[i] = q[i] OBVIOUS
          <6>1. Part(m) \in Seq(SlotIds) /\ Len(Part(m)) = m BY <1>9, <4>3
          <6>2. CASE i = m + 1
            <7> HIDE DEF Part
            <7> QED BY <4>3, <6>1, <6>2
          <6>3. CASE i # m + 1
            <7>1. i \in 1 .. m /\ Part(m)[i] = q[i] BY <3>1, <6>3
            <7> HIDE DEF Part
            <7> QED BY <4>3, <6>1, <7>1
          <6> QED BY <6>2, <6>3
        <5>3. Part(m + 1) \in Seq(SlotIds) /\ Len(Part(m + 1)) = m + 1 BY <1>9, <4>3
        <5>4. \A i \in 1 .. m + 1 : Part(m + 1)[i] = q[i] BY <1>9, <4>3
        <5> HIDE DEF Part
        <5> QED BY <5>1, <5>2, <5>3, <5>4
      <4>5. More(m + 1, Part(m)) = Part(m + 1)
        <5> HIDE DEF Slot, Part
        <5>1. q[m + 1] # None BY <4>3, SlotFacts
        <5> QED BY <4>2, <4>4, <5>1 DEF More
      <4>6. (IF m + 1 < n THEN m + 1 ELSE n) = m + 1 BY <1>1, <3>1, <3>3
      <4> HIDE DEF Part
      <4> QED BY <3>1, <3>2, <4>1, <4>5, <4>6
    <3>4. CASE ~(m < n)
      <4>1. upTo[m] = Part(n) BY <2>2, <3>4
      <4>2. Slot(m + 1, Part(n)) = None
        <5>1. Len(Part(n)) = n /\ n \in 0 .. n BY <1>1, <1>9
        <5>2. CASE m = 0
          <6>1. n = 0 BY <1>1, <3>4, <5>2
          <6> QED BY <5>2, <6>1
        <5>3. CASE m # 0 /\ n < m BY <3>1, <5>1, <5>3
        <5>4. CASE m # 0 /\ n = m
          <6>1. Part(n)[m] = q[n] /\ after[q[n]] = None BY <1>1, <1>9, <5>4
          <6> HIDE DEF Part
          <6> QED BY <3>1, <5>1, <5>4, <6>1
        <5> QED BY <1>1, <3>1, <3>4, <5>2, <5>3, <5>4
      <4>3. More(m + 1, Part(n)) = Part(n)
        <5> HIDE DEF Slot, Part
        <5> QED BY <4>2 DEF More
      <4>4. (IF m + 1 < n THEN m + 1 ELSE n) = n BY <1>1, <3>1, <3>4
      <4> HIDE DEF Part
      <4> QED BY <3>1, <3>2, <4>1, <4>3, <4>4
    <3> QED BY <3>3, <3>4
  <2> HIDE DEF I
  <2> QED BY <1>1, <2>1, <2>2, IntervalInduction
<1>11. upTo[Slots] = q
  <2>i. Slots \in I
    <3> HIDE DEF I
    <3> QED BY <1>1, <1>10
  <2>1. upTo[Slots] = Part(IF Slots < n THEN Slots ELSE n) /\ (IF Slots < n THEN Slots ELSE n) = n
    BY <1>1, <2>i
  <2>2. Part(n) = q OBVIOUS
  <2> HIDE DEF Part
  <2> QED BY <2>1, <2>2
<1>12. Walk(from, after) = upTo[Slots]
  BY Zenon DEF Walk, upTo, F, More
<1>13. q \in Seq(SlotIds) /\ Len(q) = n
  <2>1. Part(n) = q /\ n \in 0 .. n BY <1>1
  <2> HIDE DEF Part
  <2> QED BY <1>9, <2>1
<1> QED BY <1>11, <1>12, <1>13

(* The maps between glyphs and slots.                                       *)
Glyphs == Texts \cup {Blank, Find}

(* The maps agree on all slots but those in free, which no glyph has; the   *)
(* slots below next hold a glyph, those from next on none, and the blank    *)
(* has slot 0.                                                              *)
Agree(slotOf, glyphAt, next, free) ==
  /\ DOMAIN slotOf \subseteq Glyphs /\ slotOf \in [DOMAIN slotOf -> SlotIds]
  /\ glyphAt \in [SlotIds -> Glyphs \cup {None}]
  /\ Blank \in DOMAIN slotOf /\ slotOf[Blank] = 0 /\ glyphAt[0] = Blank
  /\ \A g \in DOMAIN slotOf : slotOf[g] \notin free /\ glyphAt[slotOf[g]] = g
  /\ \A s \in SlotIds \ free :
       IF s < next THEN glyphAt[s] \in DOMAIN slotOf /\ slotOf[glyphAt[s]] = s ELSE glyphAt[s] = None

LEMMA NoneIsNoGlyph == None \notin Glyphs
BY SlotsAssumption, FramesAssumption DEF Glyphs

(* A free slot is given to a glyph that has none.                           *)
LEMMA SlotAssigned ==
  ASSUME NEW slotOf, NEW glyphAt, NEW next \in 1 .. Slots, NEW s \in 1 .. next - 1,
         Agree(slotOf, glyphAt, next, {s}), NEW g \in Glyphs \ DOMAIN slotOf
  PROVE  Agree(Insert(slotOf, g, s), [glyphAt EXCEPT ![s] = g], next, {})
<1> DEFINE S == Insert(slotOf, g, s)
           G == [glyphAt EXCEPT ![s] = g]
           D == DOMAIN slotOf
<1>1. s \in SlotIds /\ s # 0 /\ s < next BY SlotsAssumption DEF SlotIds
<1>2. S = [x \in {g} \cup D |-> IF x = g THEN s ELSE slotOf[x]] BY DEF Insert
<1>3. /\ D \subseteq Glyphs /\ slotOf \in [D -> SlotIds] /\ glyphAt \in [SlotIds -> Glyphs \cup {None}]
      /\ Blank \in D /\ slotOf[Blank] = 0 /\ glyphAt[0] = Blank
      /\ \A x \in D : slotOf[x] # s /\ glyphAt[slotOf[x]] = x
      /\ \A r \in SlotIds \ {s} : IF r < next THEN glyphAt[r] \in D /\ slotOf[glyphAt[r]] = r ELSE glyphAt[r] = None
  BY DEF Agree
<1>4. g \notin D /\ g \in Glyphs OBVIOUS
<1> HIDE DEF D, S
<1>5. DOMAIN S = {g} \cup D /\ S[g] = s /\ \A x \in D : S[x] = slotOf[x] BY <1>2, <1>4
<1>6. DOMAIN S \subseteq Glyphs /\ S \in [DOMAIN S -> SlotIds] BY <1>1, <1>2, <1>3, <1>4
<1>7. G \in [SlotIds -> Glyphs \cup {None}] /\ G[s] = g /\ \A r \in SlotIds \ {s} : G[r] = glyphAt[r]
  BY <1>1, <1>3, <1>4
<1>8. 0 \in SlotIds BY SlotFacts
<1> HIDE DEF G
<1>9. Blank \in DOMAIN S /\ S[Blank] = 0 /\ G[0] = Blank BY <1>1, <1>3, <1>5, <1>7, <1>8
<1>10. \A x \in DOMAIN S : S[x] \notin {} /\ G[S[x]] = x BY <1>3, <1>5, <1>7
<1>11. ASSUME NEW r \in SlotIds \ {}
       PROVE  IF r < next THEN G[r] \in DOMAIN S /\ S[G[r]] = r ELSE G[r] = None
  <2>1. CASE r = s BY <1>1, <1>5, <1>7, <2>1
  <2>2. CASE r # s BY <1>3, <1>5, <1>7, <2>2
  <2> QED BY <2>1, <2>2
<1>12. Agree(S, G, next, {}) BY <1>6, <1>7, <1>9, <1>10, <1>11 DEF Agree
<1> QED BY <1>12 DEF S, G

(* The atlas is whole: its maps agree, and its list holds the slots in use, *)
(* each once, in one order from either end.                                 *)
Atlases == [slotOf : UNION {[K -> SlotIds] : K \in SUBSET Glyphs},
            glyphAt : [SlotIds -> Glyphs \cup {None}],
            lru : Lists, next : 1 .. Slots, evicted : BOOLEAN]

Whole(a) ==
  /\ a \in Atlases
  /\ Agree(a.slotOf, a.glyphAt, a.next, {})
  /\ a.lru.linked = 1 .. a.next - 1
  /\ \E q \in [1 .. a.next - 1 -> SlotIds \ {0}] : Ordered(a.lru, a.next - 1, q)

LEMMA WholeOfParts ==
  ASSUME NEW slotOf, NEW glyphAt, NEW next \in 1 .. Slots, NEW lru \in Lists, NEW evicted \in BOOLEAN,
         Agree(slotOf, glyphAt, next, {}), lru.linked = 1 .. next - 1, \E q : Ordered(lru, next - 1, q)
  PROVE  Whole([slotOf |-> slotOf, glyphAt |-> glyphAt, lru |-> lru, next |-> next, evicted |-> evicted])
<1> DEFINE a == [slotOf |-> slotOf, glyphAt |-> glyphAt, lru |-> lru, next |-> next, evicted |-> evicted]
<1>1. a.slotOf = slotOf /\ a.glyphAt = glyphAt /\ a.lru = lru /\ a.next = next OBVIOUS
<1>2. DOMAIN slotOf \in SUBSET Glyphs /\ slotOf \in [DOMAIN slotOf -> SlotIds]
      /\ glyphAt \in [SlotIds -> Glyphs \cup {None}]
  BY DEF Agree
<1>3. slotOf \in UNION {[K -> SlotIds] : K \in SUBSET Glyphs} BY <1>2
<1>4. a \in Atlases BY <1>2, <1>3 DEF Atlases
<1>5. \E q \in [1 .. next - 1 -> SlotIds \ {0}] : Ordered(lru, next - 1, q)
  <2>1. PICK q : Ordered(lru, next - 1, q) OBVIOUS
  <2>2. q \in [1 .. next - 1 -> SlotIds \ {0}] BY <2>1 DEF Ordered
  <2> QED BY <2>1, <2>2
<1> HIDE DEF a
<1>6. Agree(a.slotOf, a.glyphAt, a.next, {}) BY <1>1
<1>7. a.lru.linked = 1 .. a.next - 1 BY <1>1
<1>8. \E q \in [1 .. a.next - 1 -> SlotIds \ {0}] : Ordered(a.lru, a.next - 1, q) BY <1>1, <1>5, Zenon
<1>9. Whole(a) BY <1>4, <1>6, <1>7, <1>8 DEF Whole
<1> QED BY <1>9 DEF a

(* A whole atlas has the shape that FrameTypes asks for.                    *)
LEMMA WholeIsAtlas ==
  ASSUME NEW a, Whole(a)
  PROVE  IsAtlas(a)
<1> DEFINE n == a.next - 1
<1>1. a \in Atlases BY DEF Whole
<1>2. a.next \in 1 .. Slots /\ n \in 0 .. Slots /\ n \in Nat /\ a.lru \in Lists BY <1>1, SlotsAssumption DEF Atlases
<1>3. PICK q \in [1 .. n -> SlotIds \ {0}] : Ordered(a.lru, n, q) BY Zenon DEF Whole
<1> DEFINE l == a.lru
           r == [i \in 1 .. n |-> q[n + 1 - i]]
<1>4. l.prev \in [SlotIds -> Slot0] /\ l.next \in [SlotIds -> Slot0] BY <1>2 DEF Lists
<1> HIDE DEF n, l
<1>5. Forward(l) = q /\ q \in Seq(SlotIds) /\ Len(q) = n
  <2>1. q \in [1 .. n -> SlotIds] OBVIOUS
  <2>2. l.head = (IF n = 0 THEN None ELSE q[1])
        /\ \A i \in 1 .. n : l.next[q[i]] = (IF i = n THEN None ELSE q[i + 1])
    BY <1>3 DEF Ordered, l
  <2>3. Walk(l.head, l.next) = q /\ q \in Seq(SlotIds) /\ Len(q) = n BY <1>2, <1>4, <2>1, <2>2, WalkIsChain
  <2> QED BY <2>3 DEF Forward
<1>6. \A i \in 1 .. n : n + 1 - i \in 1 .. n BY <1>2
<1>7. r \in [1 .. n -> SlotIds] /\ \A i \in 1 .. n : r[i] = q[n + 1 - i] BY <1>6
<1> HIDE DEF r
<1>8. Backward(l) = r /\ r \in Seq(SlotIds) /\ Len(r) = n
  <2>1. l.tail = (IF n = 0 THEN None ELSE r[1])
    <3>1. l.tail = (IF n = 0 THEN None ELSE q[n]) BY <1>3 DEF Ordered, l
    <3>2. n # 0 => 1 \in 1 .. n /\ n + 1 - 1 = n BY <1>2
    <3> QED BY <1>7, <3>1, <3>2
  <2>2. ASSUME NEW i \in 1 .. n PROVE l.prev[r[i]] = (IF i = n THEN None ELSE r[i + 1])
    <3> DEFINE j == n + 1 - i
    <3>1. j \in 1 .. n /\ (j = 1 <=> i = n) /\ r[i] = q[j] BY <1>2, <1>7
    <3>2. i # n => i + 1 \in 1 .. n /\ n + 1 - (i + 1) = j - 1 BY <1>2
    <3> HIDE DEF j
    <3>3. l.prev[q[j]] = (IF j = 1 THEN None ELSE q[j - 1]) BY <1>3, <3>1 DEF Ordered, l
    <3> QED BY <1>7, <3>1, <3>2, <3>3
  <2>3. r \in [1 .. n -> SlotIds] BY <1>7
  <2>4. Walk(l.tail, l.prev) = r /\ r \in Seq(SlotIds) /\ Len(r) = n
    BY <1>2, <1>4, <2>1, <2>2, <2>3, WalkIsChain
  <2> QED BY <2>4 DEF Backward
<1>9. /\ Len(q) = n /\ Len(r) = Len(q) /\ \A i \in DOMAIN q : r[i] = q[Len(q) + 1 - i]
      /\ {q[i] : i \in DOMAIN q} = l.linked
  <2>1. DOMAIN q = 1 .. n OBVIOUS
  <2>2. l.linked = {q[i] : i \in 1 .. n} BY <1>3 DEF Ordered, l
  <2> QED BY <1>5, <1>7, <1>8, <2>1, <2>2
<1>10. /\ \A s \in SlotIds : a.glyphAt[s] # None => a.glyphAt[s] \in Known(a) /\ a.slotOf[a.glyphAt[s]] = s
       /\ \A g \in Known(a) : a.glyphAt[a.slotOf[g]] = g
  BY DEF Whole, Agree, Known
<1>11. l.linked = 1 .. a.next - 1 BY DEF Whole, l
<1> QED BY <1>2, <1>5, <1>8, <1>9, <1>10, <1>11 DEF IsAtlas, l, n

(* What a glyph that is asked for gets: a slot that holds it.  Unless a     *)
(* slot was taken from another glyph, no slot has changed its glyph.        *)
KeepsGlyphs(a, b) ==
  ~b.evicted => ~a.evicted /\ \A s \in SlotIds : a.glyphAt[s] # None => b.glyphAt[s] = a.glyphAt[s]

Ensured(a, g, e) ==
  /\ e.slot \in SlotIds /\ Whole(e.atlas) /\ e.atlas.glyphAt[e.slot] = g
  /\ KeepsGlyphs(a, e.atlas)

LEMMA AtlasParts ==
  ASSUME NEW a, Whole(a)
  PROVE  /\ a = [slotOf |-> a.slotOf, glyphAt |-> a.glyphAt, lru |-> a.lru, next |-> a.next, evicted |-> a.evicted]
         /\ a.next \in 1 .. Slots /\ a.lru \in Lists /\ a.evicted \in BOOLEAN
         /\ a.glyphAt \in [SlotIds -> Glyphs \cup {None}] /\ a.slotOf \in [Known(a) -> SlotIds]
         /\ a.lru.linked = 1 .. a.next - 1 /\ Known(a) \subseteq Glyphs
<1>1. a \in Atlases BY DEF Whole
<1>2. a = [slotOf |-> a.slotOf, glyphAt |-> a.glyphAt, lru |-> a.lru, next |-> a.next, evicted |-> a.evicted]
      /\ a.next \in 1 .. Slots /\ a.lru \in Lists /\ a.evicted \in BOOLEAN
  BY <1>1 DEF Atlases
<1> QED BY <1>2 DEF Whole, Agree, Known

LEMMA GlyphEnsured ==
  ASSUME NEW a, Whole(a), NEW g \in Glyphs
  PROVE  Ensured(a, g, EnsureGlyph(a, g))
<1> DEFINE e == EnsureGlyph(a, g)
           n == a.next - 1
<1> USE SlotsAssumption
<1>1. /\ a = [slotOf |-> a.slotOf, glyphAt |-> a.glyphAt, lru |-> a.lru, next |-> a.next, evicted |-> a.evicted]
      /\ a.next \in 1 .. Slots /\ a.lru \in Lists /\ a.evicted \in BOOLEAN
      /\ a.glyphAt \in [SlotIds -> Glyphs \cup {None}] /\ a.slotOf \in [Known(a) -> SlotIds]
      /\ a.lru.linked = 1 .. n /\ n \in Nat /\ Known(a) \subseteq Glyphs
  BY AtlasParts
<1>2. PICK q : Ordered(a.lru, n, q) BY Zenon DEF Whole
<1>3. Agree(a.slotOf, a.glyphAt, a.next, {}) BY DEF Whole
<1>4. CASE g \in Known(a)
  <2> DEFINE s == a.slotOf[g]
             l == Touch(a.lru, s)
             b == [a EXCEPT !.lru = l]
  <2>1. e.slot = s /\ e.atlas = b BY <1>4 DEF EnsureGlyph
  <2>2. s \in SlotIds /\ a.glyphAt[s] = g BY <1>1, <1>4
    DEF Known, Whole, Agree
  <2>3. s < a.next
    <3>1. g # None BY NoneIsNoGlyph
    <3> QED BY <1>3, <2>2, <3>1 DEF Agree
  <2>4. Touched(a.lru, l, n, s) BY <1>1, <1>2, <2>2, TouchedToFront
  <2>5. b = [slotOf |-> a.slotOf, glyphAt |-> a.glyphAt, lru |-> l, next |-> a.next, evicted |-> a.evicted]
    <3> HIDE DEF l
    <3> QED BY <1>1
  <2> HIDE DEF l, b, s
  <2>6. s = 0 \/ s \in a.lru.linked BY <1>1, <2>2, <2>3 DEF SlotIds
  <2>7. l.linked = a.lru.linked BY <2>4, <2>6 DEF Touched
  <2>8. l \in Lists /\ \E p : Ordered(l, n, p) BY <2>4, <2>6 DEF Touched
  <2>9. l.linked = 1 .. a.next - 1 BY <1>1, <2>7
  <2>10. Whole(b) BY <1>1, <1>3, <2>5, <2>8, <2>9, WholeOfParts
  <2>11. b.glyphAt = a.glyphAt /\ b.evicted = a.evicted BY <2>5
  <2> HIDE DEF e
  <2>12. Ensured(a, g, e) BY <2>1, <2>2, <2>10, <2>11 DEF Ensured, KeepsGlyphs
  <2> QED BY <2>12 DEF e
<1>5. ASSUME g \notin Known(a), NEW A, NEW s, FreeSlot(a) = [slot |-> s, atlas |-> A],
             NEW slotOf, NEW next \in 1 .. Slots, NEW l \in Lists, NEW evicted \in BOOLEAN, NEW r,
             A = [slotOf |-> slotOf, glyphAt |-> a.glyphAt, lru |-> l, next |-> next, evicted |-> evicted],
             Agree(slotOf, a.glyphAt, next, {s}), DOMAIN slotOf \subseteq Known(a),
             s \in 1 .. next - 1, Ordered(l, next - 2, r), l.linked = (1 .. next - 1) \ {s},
             evicted \/ (~a.evicted /\ a.glyphAt[s] = None)
      PROVE  Ensured(a, g, e)
  <2> DEFINE S == Insert(slotOf, g, s)
             G == [a.glyphAt EXCEPT ![s] = g]
             L == Touch(l, s)
             b1 == [A EXCEPT !.slotOf = S]
             b2 == [b1 EXCEPT !.glyphAt = G]
             b == [b2 EXCEPT !.lru = L]
  <2>1. s \in SlotIds /\ s # 0 BY <1>5 DEF SlotIds
  <2>2. A.slotOf = slotOf /\ A.glyphAt = a.glyphAt /\ A.lru = l BY <1>5
  <2>3. b1 = [slotOf |-> S, glyphAt |-> a.glyphAt, lru |-> l, next |-> next, evicted |-> evicted]
    <3> HIDE DEF S
    <3> QED BY <1>5
  <2>4. b2 = [slotOf |-> S, glyphAt |-> G, lru |-> l, next |-> next, evicted |-> evicted]
    <3> HIDE DEF S, G, b1
    <3> QED BY <2>3
  <2>5. b = [slotOf |-> S, glyphAt |-> G, lru |-> L, next |-> next, evicted |-> evicted]
    <3> HIDE DEF S, G, L, b2
    <3> QED BY <2>4
  <2>6. e.slot = s /\ e.atlas = [A EXCEPT !.slotOf = Insert(A.slotOf, g, s), !.glyphAt[s] = g, !.lru = Touch(A.lru, s)]
    <3>1. FreeSlot(a).slot = s /\ FreeSlot(a).atlas = A BY <1>5
    <3> QED BY <1>5, <3>1 DEF EnsureGlyph
  <2>7. Agree(S, G, next, {})
    <3>1. g \in Glyphs \ DOMAIN slotOf BY <1>5
    <3> QED BY <1>5, <3>1, SlotAssigned
  <2>8. Touched(l, L, next - 2, s) BY <1>5, <2>1, TouchedToFront
  <2>9. e.atlas = b
    <3>1. b1.glyphAt = A.glyphAt /\ A.glyphAt = a.glyphAt
      <4> HIDE DEF b1
      <4> QED BY <2>2, <2>3
    <3> QED BY <2>2, <2>6, <3>1, Zenon
  <2>10. L \in Lists /\ L.linked = 1 .. next - 1 /\ \E p : Ordered(L, next - 1, p)
    <3>1. s \notin l.linked /\ (next - 2) + 1 = next - 1 BY <1>5
    <3> HIDE DEF L
    <3>2. L \in Lists /\ L.linked = l.linked \cup {s} /\ \E p : Ordered(L, (next - 2) + 1, p)
      BY <2>1, <2>8, <3>1 DEF Touched
    <3>3. l.linked \cup {s} = 1 .. next - 1 BY <1>5
    <3> QED BY <3>1, <3>2, <3>3
  <2>11. G[s] = g /\ \A x \in SlotIds : x # s => G[x] = a.glyphAt[x] BY <1>1, <2>1
  <2> HIDE DEF S, G, L, b
  <2>12. Whole(b) BY <1>5, <2>5, <2>7, <2>10, WholeOfParts
  <2>13. b.glyphAt = G /\ b.evicted = evicted BY <2>5
  <2>14. KeepsGlyphs(a, b)
    <3>1. evicted => b.evicted BY <2>13, Zenon
    <3>2. CASE evicted BY <3>1, <3>2 DEF KeepsGlyphs
    <3>3. CASE ~evicted BY <1>5, <2>11, <2>13, <3>3 DEF KeepsGlyphs
    <3> QED BY <3>2, <3>3
  <2> HIDE DEF e
  <2> QED BY <2>1, <2>6, <2>9, <2>11, <2>12, <2>13, <2>14, Zenon DEF Ensured
<1>6. CASE g \notin Known(a) /\ a.next < Slots
  <2> DEFINE A == [a EXCEPT !.next = @ + 1]
             next == a.next + 1
  <2>1. FreeSlot(a) = [slot |-> a.next, atlas |-> A] BY <1>6 DEF FreeSlot
  <2>2. A = [slotOf |-> a.slotOf, glyphAt |-> a.glyphAt, lru |-> a.lru, next |-> next, evicted |-> a.evicted]
    BY <1>1
  <2>3. next \in 1 .. Slots /\ a.next \in 1 .. next - 1 /\ next - 2 = n /\ a.next \in SlotIds
    BY <1>1, <1>6 DEF SlotIds
  <2>4. a.glyphAt[a.next] = None BY <1>1, <1>3, <2>3 DEF Agree
  <2>5. Agree(a.slotOf, a.glyphAt, next, {a.next})
    <3>1. ASSUME NEW x \in DOMAIN a.slotOf PROVE a.slotOf[x] \notin {a.next}
      <4>1. a.glyphAt[a.slotOf[x]] = x /\ x \in Glyphs BY <1>3 DEF Agree
      <4> QED BY <2>4, <4>1, NoneIsNoGlyph
    <3>2. ASSUME NEW s \in SlotIds \ {a.next}
          PROVE  IF s < next THEN a.glyphAt[s] \in DOMAIN a.slotOf /\ a.slotOf[a.glyphAt[s]] = s
                 ELSE a.glyphAt[s] = None
      <4>1. (s < next <=> s < a.next) /\ s \in SlotIds \ {} BY <1>1, SlotFacts
      <4>2. IF s < a.next THEN a.glyphAt[s] \in DOMAIN a.slotOf /\ a.slotOf[a.glyphAt[s]] = s
            ELSE a.glyphAt[s] = None
        BY <1>3, <4>1 DEF Agree
      <4> HIDE DEF next
      <4> QED BY <4>1, <4>2
    <3> HIDE DEF next
    <3> QED BY <1>3, <3>1, <3>2 DEF Agree
  <2>6. a.lru.linked = (1 .. next - 1) \ {a.next} BY <1>1, <2>3
  <2>7. a.evicted \/ (~a.evicted /\ a.glyphAt[a.next] = None) BY <1>1, <2>4
  <2>8. DOMAIN a.slotOf \subseteq Known(a) BY DEF Known
  <2>9. Ordered(a.lru, next - 2, q) BY <1>2, <2>3
  <2> HIDE DEF e, A, next, n
  <2>10. Ensured(a, g, e) BY <1>1, <1>5, <1>6, <2>1, <2>2, <2>3, <2>5, <2>6, <2>7, <2>8, <2>9
  <2> QED BY <2>10 DEF e
<1>7. CASE g \notin Known(a) /\ ~(a.next < Slots)
  <2> DEFINE s == q[n]
             l == Unlink(a.lru, s)
             yes == TRUE
             slotOf == Restrict(a.slotOf, Known(a) \ {a.glyphAt[s]})
             A1 == [a EXCEPT !.lru = l]
             A2 == [A1 EXCEPT !.evicted = yes]
             A == [A2 EXCEPT !.slotOf = slotOf]
  <2>1. a.next = Slots /\ n = Slots - 1 /\ n \in 1 .. n BY <1>1, <1>7
  <2>2. a.lru.tail = s /\ s \in SlotIds \ {0} /\ s # None BY <1>2, <2>1, SlotFacts DEF Ordered
  <2>3. l \in Lists /\ Ordered(l, n - 1, LeftOut(n, n, q)) BY <1>1, <1>2, <2>1, UnlinkedLeavesOrder
  <2>4. l.linked = (1 .. a.next - 1) \ {s} BY <1>1 DEF Unlink
  <2>5. s \in 1 .. a.next - 1 BY <1>2, <1>1, <2>1 DEF Ordered
  <2>6. EvictedSlot(a.lru) = s /\ EvictLru(a.lru) = l BY <2>2 DEF EvictedSlot, EvictLru
  <2>y. yes \in BOOLEAN /\ yes OBVIOUS
  <2> HIDE DEF s, l, yes, slotOf
  <2>7. A1 = [slotOf |-> a.slotOf, glyphAt |-> a.glyphAt, lru |-> l, next |-> a.next, evicted |-> a.evicted]
    BY <1>1
  <2>8. A2 = [slotOf |-> a.slotOf, glyphAt |-> a.glyphAt, lru |-> l, next |-> a.next, evicted |-> yes]
    <3> HIDE DEF A1
    <3> QED BY <2>7
  <2>9. A = [slotOf |-> slotOf, glyphAt |-> a.glyphAt, lru |-> l, next |-> a.next, evicted |-> yes]
    <3> HIDE DEF A2
    <3> QED BY <2>8
  <2>10. A2 = [a EXCEPT !.lru = EvictLru(@), !.evicted = TRUE] BY <2>6, Zenon DEF yes
  <2>11. A2.glyphAt = a.glyphAt /\ A2.slotOf = a.slotOf
    <3> HIDE DEF A2
    <3> QED BY <2>8
  <2>12. Forget(A2, s) = A
    <3>1. Restrict(A2.slotOf, Known(A2) \ {A2.glyphAt[s]}) = slotOf BY <2>11, Zenon DEF slotOf, Known
    <3> QED BY <3>1, Zenon DEF Forget
  <2>13. FreeSlot(a) = [slot |-> s, atlas |-> A] BY <1>7, <2>6, <2>10, <2>12, Zenon DEF FreeSlot
  <2> DEFINE old == a.glyphAt[s]
  <2>14. old \in Known(a) /\ a.slotOf[old] = s
    <3>1. s \in SlotIds \ {} /\ s < a.next BY <1>1, <2>2, <2>5
    <3> QED BY <1>3, <3>1 DEF Agree, Known
  <2>15. slotOf = [x \in Known(a) \ {old} |-> a.slotOf[x]] BY Zenon DEF slotOf, Restrict
  <2> HIDE DEF old
  <2>16. DOMAIN slotOf = Known(a) \ {old} /\ \A x \in Known(a) \ {old} : slotOf[x] = a.slotOf[x] BY <2>15
  <2>17. Agree(slotOf, a.glyphAt, a.next, {s})
    <3>1. DOMAIN slotOf \subseteq Glyphs /\ slotOf \in [DOMAIN slotOf -> SlotIds] BY <1>1, <2>15, <2>16
    <3>2. Blank \in Known(a) /\ a.slotOf[Blank] = 0 /\ a.glyphAt[0] = Blank BY <1>3 DEF Agree, Known
    <3>3. Blank # old BY <2>2, <2>14, <3>2
    <3>4. ASSUME NEW x \in DOMAIN slotOf PROVE slotOf[x] \notin {s} /\ a.glyphAt[slotOf[x]] = x
      <4>1. x \in Known(a) /\ x # old /\ slotOf[x] = a.slotOf[x] BY <2>16
      <4>2. a.glyphAt[a.slotOf[x]] = x BY <1>3, <4>1 DEF Agree, Known
      <4> QED BY <4>1, <4>2 DEF old
    <3>5. ASSUME NEW r \in SlotIds \ {s}
          PROVE  IF r < a.next THEN a.glyphAt[r] \in DOMAIN slotOf /\ slotOf[a.glyphAt[r]] = r
                 ELSE a.glyphAt[r] = None
      <4>1. IF r < a.next THEN a.glyphAt[r] \in Known(a) /\ a.slotOf[a.glyphAt[r]] = r
            ELSE a.glyphAt[r] = None
        BY <1>3 DEF Agree, Known
      <4>2. CASE r < a.next
        <5>1. a.glyphAt[r] # old BY <2>14, <4>1, <4>2
        <5> QED BY <2>16, <4>1, <4>2, <5>1
      <4>3. CASE ~(r < a.next) BY <4>1, <4>3
      <4> QED BY <4>2, <4>3
    <3> QED BY <1>1, <2>16, <3>1, <3>2, <3>3, <3>4, <3>5 DEF Agree
  <2>18. DOMAIN slotOf \subseteq Known(a) BY <2>16
  <2>19. Ordered(l, a.next - 2, LeftOut(n, n, q))
    <3>1. n - 1 = a.next - 2 BY <1>1
    <3> QED BY <2>3, <3>1
  <2>20. yes \/ (~a.evicted /\ a.glyphAt[s] = None) BY <2>y
  <2> HIDE DEF e, A, n
  <2>21. Ensured(a, g, e)
    BY <1>1, <1>5, <1>7, <2>3, <2>4, <2>5, <2>9, <2>13, <2>17, <2>18, <2>19, <2>20, <2>y
  <2> QED BY <2>21 DEF e
<1> QED BY <1>4, <1>6, <1>7

----------------------------------------------------------------------------
(* Writing rows into a buffer of c cells.                                   *)

Writes(c) == {w \in [cells : [1 .. c -> Slot0], atlas : Atlases] : Whole(w.atlas)}

Holds(cells, atlas, i, text) == cells[i] \in SlotIds /\ atlas.glyphAt[cells[i]] = text

RowsWritten(cells, atlas, rows, texts, c, w) ==
  /\ w \in Writes(c) /\ KeepsGlyphs(atlas, w.atlas)
  /\ ~w.atlas.evicted => \A i \in rows : Holds(w.cells, w.atlas, i, texts[i])
  /\ \A i \in (1 .. c) \ rows : w.cells[i] = cells[i]

LEMMA KeptTwice ==
  ASSUME NEW a, NEW b, NEW d, Whole(a), KeepsGlyphs(a, b), KeepsGlyphs(b, d)
  PROVE  KeepsGlyphs(a, d)
BY DEF KeepsGlyphs

(* Where a cell's glyph was, it still is.                                   *)
LEMMA HeldOn ==
  ASSUME NEW a, NEW b, Whole(a), KeepsGlyphs(a, b), ~b.evicted, NEW cells, NEW i,
         NEW text \in Glyphs, Holds(cells, a, i, text)
  PROVE  Holds(cells, b, i, text)
BY NoneIsNoGlyph DEF KeepsGlyphs, Holds

LEMMA TextWritten ==
  ASSUME NEW c \in Nat, NEW w \in Writes(c), NEW i \in 1 .. c, NEW text \in Glyphs
  PROVE  LET u == WriteText(w, i, text)
         IN /\ u \in Writes(c) /\ KeepsGlyphs(w.atlas, u.atlas) /\ Holds(u.cells, u.atlas, i, text)
            /\ \A j \in 1 .. c : j # i => u.cells[j] = w.cells[j]
<1> DEFINE e == IF text = Blank THEN [slot |-> 0, atlas |-> w.atlas] ELSE EnsureGlyph(w.atlas, text)
           u == WriteText(w, i, text)
<1>1. w.cells \in [1 .. c -> Slot0] /\ Whole(w.atlas) BY DEF Writes
<1>2. Ensured(w.atlas, text, e)
  <2>1. CASE text = Blank
    <3>1. e.slot = 0 /\ e.atlas = w.atlas BY <2>1
    <3>2. w.atlas.glyphAt[0] = Blank BY <1>1 DEF Whole, Agree
    <3>3. KeepsGlyphs(w.atlas, w.atlas) BY DEF KeepsGlyphs
    <3> HIDE DEF e
    <3> QED BY <1>1, <2>1, <3>1, <3>2, <3>3, SlotFacts DEF Ensured
  <2>2. CASE text # Blank BY <1>1, <2>2, GlyphEnsured
  <2> QED BY <2>1, <2>2
<1>3. u = [cells |-> [w.cells EXCEPT ![i] = e.slot], atlas |-> e.atlas] BY Zenon DEF WriteText
<1> HIDE DEF e, u
<1>4. u.cells = [w.cells EXCEPT ![i] = e.slot] /\ u.atlas = e.atlas BY <1>3
<1>5. e.slot \in SlotIds /\ Whole(e.atlas) /\ e.atlas.glyphAt[e.slot] = text /\ KeepsGlyphs(w.atlas, e.atlas)
  BY <1>2 DEF Ensured
<1>6. e.slot \in Slot0 /\ e.atlas \in Atlases BY <1>5 DEF Slot0, Whole
<1>7. u.cells \in [1 .. c -> Slot0] /\ u.cells[i] = e.slot /\ \A j \in 1 .. c : j # i => u.cells[j] = w.cells[j]
  BY <1>1, <1>4, <1>6
<1>8. u \in Writes(c) BY <1>3, <1>4, <1>5, <1>6, <1>7 DEF Writes
<1>9. Holds(u.cells, u.atlas, i, text) BY <1>4, <1>5, <1>7 DEF Holds
<1> QED BY <1>4, <1>5, <1>7, <1>8, <1>9 DEF u

LEMMA RowsAreWritten ==
  ASSUME NEW c \in Nat, Height \in 0 .. c, NEW cells \in [1 .. c -> Slot0], NEW atlas, Whole(atlas),
         NEW rows \in SUBSET (1 .. Height), NEW texts, \A i \in rows : texts[i] \in Glyphs
  PROVE  RowsWritten(cells, atlas, rows, texts, c, WriteRows(cells, atlas, rows, texts))
<1> DEFINE N == Height
           base == [cells |-> cells, atlas |-> atlas]
           More(m, w) == IF m \in rows THEN WriteText(w, m, texts[m]) ELSE w
           F(f) == [m \in 0 .. N |-> IF m = 0 THEN base
                                     ELSE IF m \in rows THEN WriteText(f[m - 1], m, texts[m]) ELSE f[m - 1]]
           upTo == CHOOSE f : f = F(f)
           V == Writes(c)
           step == [m \in 0 .. N |-> [w \in V |-> More(m + 1, w)]]
<1>1. N \in Nat /\ N <= c /\ \A i \in rows : i \in 1 .. N /\ i \in 1 .. c OBVIOUS
<1> HIDE DEF N
<1>2. base \in V /\ base.cells = cells /\ base.atlas = atlas BY DEF Writes, Whole
<1> HIDE DEF base, V
<1>3. ASSUME NEW m, NEW w \in V PROVE More(m, w) \in V
  <2>1. CASE m \in rows BY <1>1, <2>1, TextWritten DEF V
  <2>2. CASE m \notin rows BY <2>2
  <2> QED BY <2>1, <2>2
<1> HIDE DEF More
<1>4. step \in [0 .. N -> [V -> V]] BY <1>3
<1>5. PICK g \in [0 .. N -> V] : g[0] = base /\ \A m \in 0 .. (N - 1) : g[m + 1] = step[m][g[m]]
  <2> HIDE DEF step
  <2>1. Iterations(V, base, N, step) # {} BY <1>1, <1>2, <1>4, IterationsExist
  <2> QED BY <2>1 DEF Iterations
<1>6. g = F(g)
  <2>1. ASSUME NEW m \in 1 .. N PROVE g[m] = More(m, g[m - 1])
    <3>1. m - 1 \in 0 .. (N - 1) /\ m - 1 \in 0 .. N /\ (m - 1) + 1 = m /\ g[m - 1] \in V BY <1>1, <1>5
    <3>2. step[m - 1][g[m - 1]] = More((m - 1) + 1, g[m - 1]) BY <3>1
    <3> HIDE DEF step
    <3> QED BY <1>5, <3>1, <3>2
  <2>2. \A m \in 0 .. N : g[m] = F(g)[m] BY <1>1, <1>5, <2>1 DEF More
  <2> QED BY <1>5, <2>2
<1>7. upTo = F(upTo)
  <2> HIDE DEF F
  <2> QED BY <1>6
<1> HIDE DEF upTo
<1>8. upTo[0] = base /\ \A m \in 1 .. N : upTo[m] = More(m, upTo[m - 1])
  <2>1. \A m \in 0 .. N : upTo[m] = F(upTo)[m]
    <3> HIDE DEF F
    <3> QED BY <1>7
  <2>2. 0 \in 0 .. N /\ \A m \in 1 .. N : m \in 0 .. N /\ m # 0 BY <1>1
  <2>3. F(upTo)[0] = base /\ \A m \in 1 .. N : F(upTo)[m] = More(m, upTo[m - 1])
    BY <2>2 DEF More
  <2> HIDE DEF F
  <2> QED BY <2>1, <2>2, <2>3
<1> DEFINE Done(m) == RowsWritten(cells, atlas, rows \cap (1 .. m), texts, c, upTo[m])
           I == {m \in Nat : Done(m)}
<1>9. Done(0)
  <2>1. KeepsGlyphs(atlas, atlas) BY DEF KeepsGlyphs
  <2>2. rows \cap (1 .. 0) = {} OBVIOUS
  <2> QED BY <1>2, <1>8, <2>1, <2>2 DEF RowsWritten, V
<1>10. ASSUME NEW m \in 0 .. (N - 1), Done(m) PROVE Done(m + 1)
  <2> DEFINE w == upTo[m]
             u == upTo[m + 1]
             i == m + 1
  <2>1. u = More(i, w)
    <3>1. m + 1 \in 1 .. N /\ (m + 1) - 1 = m BY <1>1
    <3> QED BY <1>8, <3>1
  <2>2. /\ w \in Writes(c) /\ KeepsGlyphs(atlas, w.atlas)
        /\ ~w.atlas.evicted => \A j \in rows \cap (1 .. m) : Holds(w.cells, w.atlas, j, texts[j])
        /\ \A j \in (1 .. c) \ (rows \cap (1 .. m)) : w.cells[j] = cells[j]
    BY <1>10 DEF RowsWritten
  <2>3. i \in Int /\ i \notin 1 .. m /\ (1 .. i) = (1 .. m) \cup {i} BY <1>1
  <2> HIDE DEF w, u, i
  <2>4. CASE i \notin rows
    <3>1. u = w BY <2>1, <2>4 DEF More
    <3>2. rows \cap (1 .. i) = rows \cap (1 .. m) BY <2>3, <2>4
    <3>3. RowsWritten(cells, atlas, rows \cap (1 .. i), texts, c, u) BY <2>2, <3>1, <3>2 DEF RowsWritten
    <3> QED BY <3>3 DEF u, i
  <2>5. CASE i \in rows
    <3>1. u = WriteText(w, i, texts[i]) /\ i \in 1 .. c /\ texts[i] \in Glyphs BY <1>1, <2>1, <2>5 DEF More
    <3>2. /\ u \in Writes(c) /\ KeepsGlyphs(w.atlas, u.atlas) /\ Holds(u.cells, u.atlas, i, texts[i])
          /\ \A j \in 1 .. c : j # i => u.cells[j] = w.cells[j]
      BY <2>2, <3>1, TextWritten
    <3>3. KeepsGlyphs(atlas, u.atlas) BY <2>2, <3>2, KeptTwice
    <3>4. Whole(w.atlas) BY <2>2 DEF Writes
    <3>5. ASSUME ~u.atlas.evicted, NEW j \in rows \cap (1 .. i) PROVE Holds(u.cells, u.atlas, j, texts[j])
      <4>1. CASE j = i BY <3>2, <4>1
      <4>2. CASE j # i
        <5>1. j \in rows \cap (1 .. m) /\ j \in 1 .. c /\ texts[j] \in Glyphs BY <1>1, <2>3, <4>2
        <5>2. ~w.atlas.evicted BY <3>2, <3>5 DEF KeepsGlyphs
        <5>3. Holds(w.cells, w.atlas, j, texts[j]) BY <2>2, <5>1, <5>2
        <5>4. Holds(w.cells, u.atlas, j, texts[j]) BY <3>2, <3>4, <3>5, <5>1, <5>3, HeldOn
        <5>5. u.cells[j] = w.cells[j] BY <3>2, <4>2, <5>1
        <5> QED BY <5>4, <5>5 DEF Holds
      <4> QED BY <4>1, <4>2
    <3>6. ASSUME NEW j \in (1 .. c) \ (rows \cap (1 .. i)) PROVE u.cells[j] = cells[j]
      <4>1. j # i /\ j \in (1 .. c) \ (rows \cap (1 .. m)) BY <2>3, <2>5
      <4> QED BY <2>2, <3>2, <4>1
    <3>7. RowsWritten(cells, atlas, rows \cap (1 .. i), texts, c, u)
      BY <3>2, <3>3, <3>5, <3>6 DEF RowsWritten
    <3> QED BY <3>7 DEF u, i
  <2> QED BY <2>4, <2>5
<1> HIDE DEF Done
<1>11. 0 .. N \subseteq I
  <2>1. 0 \in I /\ \A m \in 0 .. (N - 1) : m \in I => m + 1 \in I BY <1>9, <1>10
  <2> HIDE DEF I
  <2> QED BY <1>1, <2>1, IntervalInduction
<1>12. Done(N)
  <2>1. N \in 0 .. N BY <1>1
  <2> QED BY <1>11, <2>1
<1>13. rows \cap (1 .. N) = rows BY <1>1
<1>14. WriteRows(cells, atlas, rows, texts) = upTo[N]
  BY Zenon DEF WriteRows, upTo, F, base, N
<1> QED BY <1>12, <1>13, <1>14 DEF Done

----------------------------------------------------------------------------
(* The capacity of the cell buffers.                                        *)

LEMMA DoubledIsEnough ==
  ASSUME NEW capacity \in Nat \ {0}, NEW required \in Nat
  PROVE  DoubledUntil(capacity, required) \in Nat /\ DoubledUntil(capacity, required) >= required
<1> DEFINE F(f) == [n \in 0 .. required |->
                      IF n = 0 THEN capacity
                      ELSE IF f[n - 1] < required THEN 2 * f[n - 1] ELSE f[n - 1]]
           after == CHOOSE f : f = F(f)
           step == [n \in 0 .. required |-> [k \in Nat |-> IF k < required THEN 2 * k ELSE k]]
<1>1. step \in [0 .. required -> [Nat -> Nat]] OBVIOUS
<1>2. PICK g \in [0 .. required -> Nat] : g[0] = capacity /\ \A n \in 0 .. (required - 1) : g[n + 1] = step[n][g[n]]
  <2> HIDE DEF step
  <2>1. Iterations(Nat, capacity, required, step) # {} BY <1>1, IterationsExist
  <2> QED BY <2>1 DEF Iterations
<1>3. g = F(g)
  <2>1. ASSUME NEW n \in 1 .. required
        PROVE  g[n] = IF g[n - 1] < required THEN 2 * g[n - 1] ELSE g[n - 1]
    <3>1. n - 1 \in 0 .. (required - 1) /\ n - 1 \in 0 .. required /\ (n - 1) + 1 = n /\ g[n - 1] \in Nat
      BY <1>2
    <3>2. step[n - 1][g[n - 1]] = IF g[n - 1] < required THEN 2 * g[n - 1] ELSE g[n - 1] BY <3>1
    <3> HIDE DEF step
    <3> QED BY <1>2, <3>1, <3>2
  <2>2. \A n \in 0 .. required : g[n] = F(g)[n] BY <1>2, <2>1
  <2> QED BY <1>2, <2>2
<1>4. after = F(after)
  <2> HIDE DEF F
  <2> QED BY <1>3
<1> HIDE DEF after
<1>5. /\ after[0] = capacity
      /\ \A n \in 1 .. required :
           after[n] = IF after[n - 1] < required THEN 2 * after[n - 1] ELSE after[n - 1]
  <2>1. \A n \in 0 .. required : after[n] = F(after)[n]
    <3> HIDE DEF F
    <3> QED BY <1>4
  <2>2. 0 \in 0 .. required /\ \A n \in 1 .. required : n \in 0 .. required /\ n # 0 OBVIOUS
  <2>3. /\ F(after)[0] = capacity
        /\ \A n \in 1 .. required :
             F(after)[n] = IF after[n - 1] < required THEN 2 * after[n - 1] ELSE after[n - 1]
    BY <2>2
  <2> HIDE DEF F
  <2> QED BY <2>1, <2>2, <2>3
<1> DEFINE I == {n \in Nat : after[n] \in Nat /\ (after[n] >= required \/ after[n] > n)}
<1>6. 0 .. required \subseteq I
  <2>1. 0 \in I BY <1>5
  <2>2. ASSUME NEW n \in 0 .. (required - 1), n \in I PROVE n + 1 \in I
    <3>1. n + 1 \in 1 .. required /\ (n + 1) - 1 = n /\ n \in Nat OBVIOUS
    <3>2. after[n + 1] = IF after[n] < required THEN 2 * after[n] ELSE after[n] BY <1>5, <3>1
    <3>3. after[n] \in Nat /\ (after[n] >= required \/ after[n] > n) BY <2>2
    <3>4. after[n + 1] \in Nat /\ (after[n + 1] >= required \/ after[n + 1] > n + 1) BY <3>1, <3>2, <3>3
    <3> QED BY <3>1, <3>4
  <2> HIDE DEF I
  <2> QED BY <2>1, <2>2, IntervalInduction
<1>7. after[required] \in Nat /\ after[required] >= required
  <2>1. required \in I
    <3> HIDE DEF I
    <3> QED BY <1>6
  <2> QED BY <2>1
<1>8. DoubledUntil(capacity, required) = after[required]
  BY Zenon DEF DoubledUntil, after, F
<1> QED BY <1>7, <1>8

LEMMA CapacityIsEnough ==
  ASSUME NEW capacity \in Nat, NEW required \in Nat
  PROVE  /\ NextCapacity(capacity, required) \in Nat
         /\ NextCapacity(capacity, required) >= required
         /\ required <= capacity => NextCapacity(capacity, required) = capacity
<1>1. CASE required <= capacity BY <1>1 DEF NextCapacity
<1>2. CASE ~(required <= capacity)
  <2> DEFINE start == IF capacity = 0 THEN 1 ELSE capacity
  <2>1. start \in Nat \ {0} OBVIOUS
  <2> HIDE DEF start
  <2>2. DoubledUntil(start, required) \in Nat /\ DoubledUntil(start, required) >= required
    BY <2>1, DoubledIsEnough
  <2> QED BY <1>2, <2>2 DEF NextCapacity, start
<1> QED BY <1>1, <1>2

LEMMA ShrunkIsEnough ==
  ASSUME NEW capacity \in Nat, NEW required \in Nat, NEW initial \in Nat
  PROVE  LET target == ShrunkCapacity(capacity, required, initial)
         IN target = None \/ (target \in Nat /\ target # None /\ required <= target /\ target < capacity)
<1> DEFINE atLeast == IF required = 0 THEN 1 ELSE required
           target == NextCapacity(initial, atLeast)
<1>1. atLeast \in Nat /\ required <= atLeast OBVIOUS
<1> HIDE DEF atLeast
<1>2. target \in Nat /\ target >= atLeast BY <1>1, CapacityIsEnough
<1>3. None \notin Nat BY SlotsAssumption
<1> HIDE DEF target
<1>4. ShrunkCapacity(capacity, required, initial) = None
      \/ (ShrunkCapacity(capacity, required, initial) = target /\ ~(target >= capacity))
  BY Zenon DEF ShrunkCapacity, target, atLeast
<1> QED BY <1>1, <1>2, <1>3, <1>4

(* The two cell buffers, of c cells, and what goes with them.               *)
Backends(c) ==
  [front : [1 .. c -> Slot0], back : [1 .. c -> Slot0], streak : Nat,
   cursor : [row : Nat, visible : BOOLEAN], atlas : Atlases]

LEMMA BackendParts ==
  ASSUME NEW c \in Nat, NEW g \in Backends(c)
  PROVE  /\ g = [front |-> g.front, back |-> g.back, streak |-> g.streak, cursor |-> g.cursor, atlas |-> g.atlas]
         /\ g.front \in [1 .. c -> Slot0] /\ g.back \in [1 .. c -> Slot0] /\ g.streak \in Nat
         /\ g.cursor \in [row : Nat, visible : BOOLEAN] /\ g.atlas \in Atlases
         /\ Capacity(g) = c /\ Len(g.back) = c
<1>1. /\ g = [front |-> g.front, back |-> g.back, streak |-> g.streak, cursor |-> g.cursor, atlas |-> g.atlas]
      /\ g.front \in [1 .. c -> Slot0] /\ g.back \in [1 .. c -> Slot0] /\ g.streak \in Nat
      /\ g.cursor \in [row : Nat, visible : BOOLEAN] /\ g.atlas \in Atlases
  BY DEF Backends
<1>2. Len(g.front) = c /\ Len(g.back) = c
  <2>1. g.front \in Seq(Slot0) /\ g.back \in Seq(Slot0) /\ DOMAIN g.front = 1 .. c /\ DOMAIN g.back = 1 .. c
    BY <1>1
  <2> QED BY <2>1
<1> QED BY <1>1, <1>2 DEF Capacity

ResizedTo(g, u, c, d) ==
  /\ u \in Backends(d) /\ u.atlas = g.atlas /\ u.cursor = g.cursor
  /\ IF d = c THEN u = g ELSE u.streak = 0

LEMMA BuffersResized ==
  ASSUME NEW c \in Nat, NEW g \in Backends(c), NEW d \in Nat
  PROVE  ResizedTo(g, Resized(g, d), c, d)
<1>1. /\ g = [front |-> g.front, back |-> g.back, streak |-> g.streak, cursor |-> g.cursor, atlas |-> g.atlas]
      /\ g.cursor \in [row : Nat, visible : BOOLEAN] /\ g.atlas \in Atlases
      /\ Capacity(g) = c
  BY BackendParts
<1>2. CASE d = c BY <1>1, <1>2 DEF Resized, ResizedTo
<1>3. CASE d # c
  <2> DEFINE new == NewBuffer(d)
             u1 == [g EXCEPT !.front = new]
             u2 == [u1 EXCEPT !.back = new]
             u == [u2 EXCEPT !.streak = 0]
  <2>1. new \in [1 .. d -> Slot0] BY DEF NewBuffer, Slot0
  <2>2. Resized(g, d) = u BY <1>1, <1>3, Zenon DEF Resized
  <2> HIDE DEF new
  <2>3. u1 = [front |-> new, back |-> g.back, streak |-> g.streak, cursor |-> g.cursor, atlas |-> g.atlas]
    BY <1>1
  <2> HIDE DEF u1
  <2>4. u2 = [front |-> new, back |-> new, streak |-> g.streak, cursor |-> g.cursor, atlas |-> g.atlas]
    BY <2>3
  <2> HIDE DEF u2
  <2>5. u = [front |-> new, back |-> new, streak |-> 0, cursor |-> g.cursor, atlas |-> g.atlas]
    BY <2>4
  <2> HIDE DEF u
  <2>6. u \in Backends(d) BY <1>1, <2>1, <2>5 DEF Backends
  <2>7. u.atlas = g.atlas /\ u.cursor = g.cursor /\ u.streak = 0 BY <2>5
  <2> QED BY <1>3, <2>2, <2>6, <2>7 DEF ResizedTo
<1> QED BY <1>2, <1>3

(* After the capacity was reconciled the buffers hold a frame, and what     *)
(* they held if nothing has to be uploaded again.                           *)
Reconciled(g, r, c, d) ==
  /\ d \in Nat /\ Height <= d /\ r.gpu \in Backends(d)
  /\ r.gpu.atlas = g.atlas /\ r.gpu.cursor = g.cursor /\ r.gpu.streak < ShrinkStreak
  /\ r.full \in BOOLEAN /\ (~r.full => d = c /\ r.gpu.front = g.front)

LEMMA CapacityReconciled ==
  ASSUME NEW c \in Nat, NEW g \in Backends(c), g.streak < ShrinkStreak, Height \in Nat
  PROVE  \E d : Reconciled(g, Reconcile(g), c, d)
<1> DEFINE target == ShrunkCapacity(Capacity(g), Height, NextCapacity(InitialCapacity, Height))
           count == IF target = None THEN 0 ELSE g.streak + 1
           counted == [g EXCEPT !.streak = count]
           shrunk == IF target # None /\ counted.streak >= ShrinkStreak
                     THEN Resized(counted, target) ELSE counted
           grown == Resized(shrunk, NextCapacity(Capacity(shrunk), Height))
           r == Reconcile(g)
<1> USE FramesAssumption
<1>1. /\ g = [front |-> g.front, back |-> g.back, streak |-> g.streak, cursor |-> g.cursor, atlas |-> g.atlas]
      /\ g.front \in [1 .. c -> Slot0] /\ g.back \in [1 .. c -> Slot0] /\ g.streak \in Nat
      /\ g.cursor \in [row : Nat, visible : BOOLEAN] /\ g.atlas \in Atlases /\ Capacity(g) = c
  BY BackendParts
<1>2. r = [gpu |-> grown, full |-> Capacity(grown) # Capacity(g)] BY Zenon DEF Reconcile
<1>3. target = None \/ (target \in Nat /\ target # None /\ Height <= target /\ target < c)
  <2>1. NextCapacity(InitialCapacity, Height) \in Nat BY CapacityIsEnough
  <2> QED BY <1>1, <2>1, ShrunkIsEnough
<1> HIDE DEF target, r
<1>4. count \in Nat BY <1>1
<1> HIDE DEF count
<1>5. counted = [front |-> g.front, back |-> g.back, streak |-> count, cursor |-> g.cursor, atlas |-> g.atlas]
  BY <1>1
<1> HIDE DEF counted
<1>6. counted \in Backends(c) /\ counted.front = g.front /\ counted.cursor = g.cursor /\ counted.atlas = g.atlas
      /\ counted.streak = count
  BY <1>1, <1>4, <1>5 DEF Backends
<1>7. CASE target # None /\ count >= ShrinkStreak
  <2>1. shrunk = Resized(counted, target) BY <1>6, <1>7
  <2>2. ResizedTo(counted, shrunk, c, target) BY <1>3, <1>6, <1>7, <2>1, BuffersResized
  <2> HIDE DEF shrunk
  <2>3. shrunk \in Backends(target) /\ shrunk.atlas = g.atlas /\ shrunk.cursor = g.cursor /\ shrunk.streak = 0
    BY <1>3, <1>6, <1>7, <2>2 DEF ResizedTo
  <2>4. Capacity(shrunk) = target BY <1>3, <1>7, <2>3, BackendParts
  <2>5. NextCapacity(Capacity(shrunk), Height) = target BY <1>3, <1>7, <2>4, CapacityIsEnough
  <2>6. grown = shrunk BY <2>4, <2>5 DEF Resized
  <2> HIDE DEF grown
  <2>a. Capacity(shrunk) # Capacity(g) BY <1>1, <1>3, <1>7, <2>4
  <2>b. r = [gpu |-> shrunk, full |-> TRUE] BY <1>2, <2>6, <2>a, Zenon
  <2>7. r.gpu = shrunk /\ r.full \in BOOLEAN /\ r.full BY <2>b
  <2>8. Reconciled(g, r, c, target) BY <1>3, <1>7, <2>3, <2>7 DEF Reconciled
  <2> QED BY <2>8 DEF r
<1>8. CASE ~(target # None /\ count >= ShrinkStreak)
  <2> DEFINE d == NextCapacity(c, Height)
  <2>1. shrunk = counted BY <1>6, <1>8
  <2>2. Capacity(counted) = c BY <1>6, BackendParts
  <2>3. d \in Nat /\ Height <= d BY CapacityIsEnough
  <2> HIDE DEF shrunk, d
  <2>4. grown = Resized(counted, d) BY <2>1, <2>2 DEF d
  <2>5. ResizedTo(counted, grown, c, d) BY <1>6, <2>3, <2>4, BuffersResized
  <2> HIDE DEF grown
  <2>6. grown \in Backends(d) /\ grown.atlas = g.atlas /\ grown.cursor = g.cursor
        /\ (IF d = c THEN grown = counted ELSE grown.streak = 0)
    BY <1>6, <2>5 DEF ResizedTo
  <2>7. Capacity(grown) = d BY <2>3, <2>6, BackendParts
  <2>8. count < ShrinkStreak BY <1>4, <1>8 DEF count
  <2> DEFINE full == Capacity(grown) # Capacity(g)
  <2>9. full \in BOOLEAN /\ (~full => d = c) BY <1>1, <2>7
  <2> HIDE DEF full
  <2>10. r.gpu = grown /\ r.full = full
    <3>1. r = [gpu |-> grown, full |-> full] BY <1>2, Zenon DEF full
    <3> QED BY <3>1
  <2>11. grown.streak < ShrinkStreak /\ (d = c => grown.front = g.front)
    <3>1. 0 < ShrinkStreak OBVIOUS
    <3> QED BY <1>6, <2>6, <2>8, <3>1
  <2>12. Reconciled(g, r, c, d) BY <2>3, <2>6, <2>9, <2>10, <2>11 DEF Reconciled
  <2> QED BY <2>12 DEF r
<1> QED BY <1>7, <1>8

(* The grid, the view and the damage.                                       *)
GridTyped ==
  /\ term \in [rows : Seq(Texts \cup {Blank}), scrollback : Seq(Texts \cup {Blank}), cursor : Nat,
               visible : BOOLEAN]
  /\ Height \in 1 .. MaxRows /\ Len(term.scrollback) <= ScrollbackCap /\ term.cursor \in AllRows
  /\ view \in [offset : Nat, search : BOOLEAN]
  /\ damage \in [dirty : SUBSET AllRows, scrolled : Nat]
  /\ damage.scrolled < Height /\ (damage.scrolled > 0 => damage.dirty = AllRows)

(* What a row shows is a glyph; in the live view it is the row of the grid, *)
(* or the search bar.                                                       *)
LEMMA DisplayTexts ==
  ASSUME GridTyped, NEW i \in AllRows
  PROVE  /\ DisplayText(i) \in Glyphs /\ term.rows[i] \in Glyphs
         /\ view.offset = 0 => DisplayText(i) = (IF view.search /\ i = Height THEN Find ELSE term.rows[i])
<1>1. /\ term.rows \in Seq(Texts \cup {Blank}) /\ term.scrollback \in Seq(Texts \cup {Blank})
      /\ Height \in Nat /\ view.offset \in Nat /\ view.search \in BOOLEAN /\ i \in Int /\ 1 <= i /\ i <= Height
  BY DEF GridTyped, Height, AllRows
<1>2. \A j \in 1 .. Height : term.rows[j] \in Texts \cup {Blank} BY <1>1 DEF Height
<1>3. ContentRows \in Nat BY <1>1 DEF ContentRows, SaturatingSub
<1>4. EffectiveOffset \in Nat /\ EffectiveOffset <= Len(term.scrollback) /\ Len(term.scrollback) \in Nat
      /\ (view.offset = 0 => EffectiveOffset = 0)
  BY <1>1 DEF EffectiveOffset, AtMost
<1>5. HistoryRows \in Nat /\ HistoryRows <= EffectiveOffset /\ (view.offset = 0 => HistoryRows = 0)
  BY <1>3, <1>4 DEF HistoryRows, AtMost
<1> HIDE DEF HistoryRows, EffectiveOffset
<1>6. CASE view.search /\ i = Height
  <2>1. DisplayText(i) = Find BY <1>6 DEF DisplayText
  <2> QED BY <1>1, <1>2, <1>6, <2>1 DEF Glyphs
<1>7. CASE ~(view.search /\ i = Height) /\ i <= HistoryRows
  <2>1. DisplayText(i) = term.scrollback[Len(term.scrollback) - EffectiveOffset + i] BY <1>7 DEF DisplayText
  <2>2. Len(term.scrollback) - EffectiveOffset + i \in 1 .. Len(term.scrollback) BY <1>1, <1>4, <1>5, <1>7
  <2>3. DisplayText(i) \in Texts \cup {Blank} BY <1>1, <2>1, <2>2
  <2>4. view.offset # 0 BY <1>1, <1>5, <1>7
  <2> QED BY <1>1, <1>2, <2>3, <2>4 DEF Glyphs
<1>8. CASE ~(view.search /\ i = Height) /\ ~(i <= HistoryRows)
  <2>1. DisplayText(i) = term.rows[i - HistoryRows] BY <1>8 DEF DisplayText
  <2>2. i - HistoryRows \in 1 .. Height BY <1>1, <1>5, <1>8
  <2>3. view.offset = 0 => i - HistoryRows = i BY <1>1, <1>5
  <2> QED BY <1>1, <1>2, <1>8, <2>1, <2>2, <2>3 DEF Glyphs
<1> QED BY <1>6, <1>7, <1>8

(* A backend whose buffers have d cells, and whose atlas is whole.          *)
Sound(g, d) == g \in Backends(d) /\ Whole(g.atlas) /\ g.streak < ShrinkStreak

(* Rows are written to the front buffer.                                    *)
FrontWritten(g, u, rows, texts, d) ==
  /\ Sound(u, d) /\ KeepsGlyphs(g.atlas, u.atlas)
  /\ ~u.atlas.evicted => \A i \in rows : Holds(u.front, u.atlas, i, texts[i])
  /\ \A i \in (1 .. d) \ rows : u.front[i] = g.front[i]

LEMMA FrontIsWritten ==
  ASSUME NEW d \in Nat, NEW g, Sound(g, d), Height \in 0 .. d, NEW rows \in SUBSET AllRows,
         NEW texts, \A i \in rows : texts[i] \in Glyphs
  PROVE  FrontWritten(g, WriteFront(g, rows, texts), rows, texts, d)
<1> DEFINE w == WriteRows(g.front, g.atlas, rows, texts)
           u1 == [g EXCEPT !.front = w.cells]
           u == [u1 EXCEPT !.atlas = w.atlas]
<1>1. /\ g = [front |-> g.front, back |-> g.back, streak |-> g.streak, cursor |-> g.cursor, atlas |-> g.atlas]
      /\ g.front \in [1 .. d -> Slot0] /\ g.back \in [1 .. d -> Slot0] /\ g.streak \in Nat
      /\ g.cursor \in [row : Nat, visible : BOOLEAN] /\ Whole(g.atlas) /\ g.streak < ShrinkStreak
  BY BackendParts DEF Sound
<1>2. WriteFront(g, rows, texts) = u BY Zenon DEF WriteFront
<1>3. RowsWritten(g.front, g.atlas, rows, texts, d, w) BY <1>1, RowsAreWritten DEF AllRows
<1> HIDE DEF w
<1>4. w \in Writes(d) BY <1>3 DEF RowsWritten
<1>5. w.cells \in [1 .. d -> Slot0] /\ w.atlas \in Atlases /\ Whole(w.atlas) BY <1>4 DEF Writes
<1>6. u1 = [front |-> w.cells, back |-> g.back, streak |-> g.streak, cursor |-> g.cursor, atlas |-> g.atlas]
  BY <1>1
<1> HIDE DEF u1
<1>7. u = [front |-> w.cells, back |-> g.back, streak |-> g.streak, cursor |-> g.cursor, atlas |-> w.atlas]
  BY <1>6
<1> HIDE DEF u
<1>8. u \in Backends(d) BY <1>1, <1>5, <1>7 DEF Backends
<1>9. u.front = w.cells /\ u.atlas = w.atlas /\ u.streak = g.streak BY <1>7
<1>10. Sound(u, d) BY <1>1, <1>5, <1>8, <1>9 DEF Sound
<1>11. FrontWritten(g, u, rows, texts, d)
  BY <1>3, <1>9, <1>10 DEF FrontWritten, RowsWritten
<1> QED BY <1>2, <1>11

(* A new frame begins: no glyph has lost its slot.                          *)
LEMMA FrameBegins ==
  ASSUME NEW c \in Nat, NEW g, Sound(g, c), NEW cursor \in [row : Nat, visible : BOOLEAN]
  PROVE  LET u == [g EXCEPT !.cursor = cursor, !.atlas.evicted = FALSE]
         IN Sound(u, c) /\ u.front = g.front /\ u.atlas.glyphAt = g.atlas.glyphAt /\ ~u.atlas.evicted
<1> DEFINE no == FALSE
           a == g.atlas
           A == [slotOf |-> a.slotOf, glyphAt |-> a.glyphAt, lru |-> a.lru, next |-> a.next, evicted |-> no]
           u1 == [g EXCEPT !.cursor = cursor]
           u2 == [u1 EXCEPT !.atlas = A]
           u == [g EXCEPT !.cursor = cursor, !.atlas.evicted = no]
<1>n. no \in BOOLEAN /\ ~no OBVIOUS
<1> HIDE DEF no
<1>1. /\ g = [front |-> g.front, back |-> g.back, streak |-> g.streak, cursor |-> g.cursor, atlas |-> a]
      /\ g.front \in [1 .. c -> Slot0] /\ g.back \in [1 .. c -> Slot0] /\ g.streak \in Nat
      /\ Whole(a) /\ g.streak < ShrinkStreak
  BY BackendParts DEF Sound
<1> HIDE DEF a
<1>2. /\ a = [slotOf |-> a.slotOf, glyphAt |-> a.glyphAt, lru |-> a.lru, next |-> a.next, evicted |-> a.evicted]
      /\ a.next \in 1 .. Slots /\ a.lru \in Lists /\ a.lru.linked = 1 .. a.next - 1
  BY <1>1, AtlasParts
<1>3. [a EXCEPT !.evicted = no] = A BY <1>2
<1>4. Whole(A)
  <2>1. Agree(a.slotOf, a.glyphAt, a.next, {}) /\ \E q : Ordered(a.lru, a.next - 1, q)
    BY <1>1, Zenon DEF Whole
  <2> QED BY <1>n, <1>2, <2>1, WholeOfParts
<1>5. A.evicted = no /\ A.glyphAt = a.glyphAt OBVIOUS
<1> HIDE DEF A
<1>6. u1 = [front |-> g.front, back |-> g.back, streak |-> g.streak, cursor |-> cursor, atlas |-> a]
  BY <1>1
<1> HIDE DEF u1
<1>7. u2 = [front |-> g.front, back |-> g.back, streak |-> g.streak, cursor |-> cursor, atlas |-> A]
  BY <1>6
<1>8. u = u2
  <2>1. u1.atlas = a BY <1>6
  <2> QED BY <1>3, <2>1, Zenon DEF u1, u2
<1> HIDE DEF u, u2
<1>9. u2 \in Backends(c)
  <2>1. A \in Atlases BY <1>4 DEF Whole
  <2> QED BY <1>1, <1>7, <2>1 DEF Backends
<1>10. u2.front = g.front /\ u2.atlas = A /\ u2.streak = g.streak BY <1>7
<1>11. Sound(u, c) BY <1>1, <1>4, <1>8, <1>9, <1>10 DEF Sound
<1>12. u.front = g.front /\ u.atlas.glyphAt = a.glyphAt /\ ~u.atlas.evicted BY <1>n, <1>5, <1>8, <1>10
<1> QED BY <1>11, <1>12, Zenon DEF u, no, a

(* The scroll path fills the back buffer, and exchanges the two.            *)
LEMMA ScrollIsSound ==
  ASSUME GridTyped, NEW d \in Nat, NEW g, Sound(g, d), Height <= d
  PROVE  Sound(ScrollBuffers(g), d)
<1> DEFINE rows == (Height - damage.scrolled + 1) .. Height
           w == WriteRows(g.back, g.atlas, rows, term.rows)
           u1 == [g EXCEPT !.front = w.cells]
           u2 == [u1 EXCEPT !.back = g.front]
           u == [u2 EXCEPT !.atlas = w.atlas]
<1>1. /\ g = [front |-> g.front, back |-> g.back, streak |-> g.streak, cursor |-> g.cursor, atlas |-> g.atlas]
      /\ g.front \in [1 .. d -> Slot0] /\ g.back \in [1 .. d -> Slot0] /\ g.streak \in Nat
      /\ g.cursor \in [row : Nat, visible : BOOLEAN] /\ Whole(g.atlas) /\ g.streak < ShrinkStreak
  BY BackendParts DEF Sound
<1>2. ScrollBuffers(g) = u BY Zenon DEF ScrollBuffers
<1>3. Height \in 0 .. d /\ rows \in SUBSET (1 .. Height) /\ \A i \in rows : term.rows[i] \in Glyphs
  <2>1. Height \in Nat /\ damage.scrolled \in Nat /\ damage.scrolled < Height BY DEF GridTyped
  <2>2. rows \in SUBSET (1 .. Height) /\ Height \in 0 .. d BY <2>1
  <2> HIDE DEF rows
  <2> QED BY <2>2, DisplayTexts DEF AllRows
<1> HIDE DEF rows
<1>4. RowsWritten(g.back, g.atlas, rows, term.rows, d, w) BY <1>1, <1>3, RowsAreWritten
<1> HIDE DEF w
<1>5. w \in Writes(d) BY <1>4 DEF RowsWritten
<1>6. w.cells \in [1 .. d -> Slot0] /\ w.atlas \in Atlases /\ Whole(w.atlas) BY <1>5 DEF Writes
<1>7. u1 = [front |-> w.cells, back |-> g.back, streak |-> g.streak, cursor |-> g.cursor, atlas |-> g.atlas]
  BY <1>1
<1> HIDE DEF u1
<1>8. u2 = [front |-> w.cells, back |-> g.front, streak |-> g.streak, cursor |-> g.cursor, atlas |-> g.atlas]
  BY <1>7
<1> HIDE DEF u2
<1>9. u = [front |-> w.cells, back |-> g.front, streak |-> g.streak, cursor |-> g.cursor, atlas |-> w.atlas]
  BY <1>8
<1> HIDE DEF u
<1>10. u \in Backends(d) BY <1>1, <1>6, <1>9 DEF Backends
<1>11. u.atlas = w.atlas /\ u.streak = g.streak BY <1>9
<1>12. Sound(u, d) BY <1>1, <1>6, <1>10, <1>11 DEF Sound
<1> QED BY <1>2, <1>12

(* The rest of the rows is copied.                                          *)
LEMMA CopyIsSound ==
  ASSUME GridTyped, NEW d \in Nat, NEW g, Sound(g, d), Height <= d
  PROVE  Sound(CopyScrolled(g), d)
<1> DEFINE n == damage.scrolled
           front == [i \in 1 .. d |-> IF i <= Height - n THEN g.back[i + n] ELSE g.front[i]]
           u == CopyScrolled(g)
<1>1. /\ g = [front |-> g.front, back |-> g.back, streak |-> g.streak, cursor |-> g.cursor, atlas |-> g.atlas]
      /\ g.front \in [1 .. d -> Slot0] /\ g.back \in [1 .. d -> Slot0] /\ g.streak \in Nat
      /\ g.cursor \in [row : Nat, visible : BOOLEAN] /\ Whole(g.atlas) /\ g.streak < ShrinkStreak
      /\ g.atlas \in Atlases
  BY BackendParts DEF Sound
<1>2. Height \in Nat /\ n \in Nat /\ n < Height BY DEF GridTyped
<1>3. front \in [1 .. d -> Slot0]
  <2>1. ASSUME NEW i \in 1 .. d, i <= Height - n PROVE g.back[i + n] \in Slot0
    <3>1. i + n \in 1 .. d BY <1>2, <2>1
    <3> QED BY <1>1, <3>1
  <2> QED BY <1>1, <2>1
<1>4. u = [g EXCEPT !.front = front]
  <2>1. DOMAIN g.front = 1 .. d BY <1>1
  <2> QED BY <2>1 DEF CopyScrolled
<1> HIDE DEF front, u
<1>5. u = [front |-> front, back |-> g.back, streak |-> g.streak, cursor |-> g.cursor, atlas |-> g.atlas]
  BY <1>1, <1>4
<1>6. u \in Backends(d) BY <1>1, <1>3, <1>5 DEF Backends
<1>7. u.atlas = g.atlas /\ u.streak = g.streak BY <1>5
<1>8. Sound(u, d) BY <1>1, <1>6, <1>7 DEF Sound
<1> QED BY <1>8 DEF u

(* The rows of the buffer that the damage leaves out hold what the grid     *)
(* holds.                                                                   *)
Uploaded ==
  ~suspect /\ ~ComposesView =>
    \A i \in AllRows \ damage.dirty : Holds(backend.front, backend.atlas, i, term.rows[i])

ShowsDisplay(g) == \A i \in AllRows : Holds(g.front, g.atlas, i, DisplayText(i))

Drawable(p, d) ==
  /\ Height <= d /\ Sound(p.gpu, d)
  /\ ~SuspectAfter(p) => ShowsDisplay(p.gpu)

(* A frame that is not suspect holds the display, however it came about.    *)
LEMMA FrameIsPrepared ==
  ASSUME GridTyped, NEW c \in Nat, Sound(backend, c), Uploaded
  PROVE  \E d \in Nat : Drawable(Prepared, d)
<1> DEFINE g == [backend EXCEPT !.cursor = UniformCursor, !.atlas.evicted = FALSE]
           r == Reconcile(g)
           p == Prepared
           rows == [i \in AllRows |-> DisplayText(i)]
           base == CASE ComposesView -> ComposeView(r.gpu)
                     [] ~ComposesView /\ r.full -> WriteFront(r.gpu, AllRows, term.rows)
                     [] OTHER -> r.gpu
<1>1. UniformCursor \in [row : Nat, visible : BOOLEAN] BY DEF UniformCursor, GridTyped
<1>2. Sound(g, c) /\ g.front = backend.front /\ g.atlas.glyphAt = backend.atlas.glyphAt /\ ~g.atlas.evicted
  <2> HIDE DEF g
  <2> QED BY <1>1, FrameBegins, Zenon DEF g
<1> HIDE DEF g
<1>3. Height \in Nat BY DEF GridTyped
<1>4. PICK d : Reconciled(g, r, c, d)
  <2>1. g \in Backends(c) /\ g.streak < ShrinkStreak BY <1>2 DEF Sound
  <2> QED BY <1>3, <2>1, CapacityReconciled
<1>5. p = [gpu |-> PrepareFrame(r), full |-> r.full] BY Zenon DEF Prepared, g
<1> HIDE DEF r, p
<1>6. d \in Nat /\ Height <= d /\ r.gpu.atlas = g.atlas /\ (~r.full => d = c /\ r.gpu.front = g.front)
      /\ Height \in 0 .. d
  BY <1>3, <1>4 DEF Reconciled
<1>7. Sound(r.gpu, d) BY <1>2, <1>4, <1>6 DEF Sound, Reconciled
<1>8. p.gpu = PrepareFrame(r) /\ p.full = r.full BY <1>5
<1>9. /\ AllRows \in SUBSET AllRows /\ damage.dirty \in SUBSET AllRows
      /\ \A i \in AllRows : term.rows[i] \in Glyphs /\ rows[i] = DisplayText(i) /\ rows[i] \in Glyphs
  BY DisplayTexts DEF GridTyped
<1> HIDE DEF rows
<1>10. CASE ComposesView
  <2>1. base = WriteFront(r.gpu, AllRows, rows) BY <1>10 DEF ComposeView, rows
  <2>2. FrontWritten(r.gpu, base, AllRows, rows, d) BY <1>6, <1>7, <1>9, <2>1, FrontIsWritten
  <2>3. PrepareFrame(r) = (CASE TakesScrollPath(r.full) -> ScrollBuffers(base)
                             [] view.offset = 0 /\ ~r.full /\ ~TakesScrollPath(r.full) -> UploadDirtyRows(base)
                             [] OTHER -> base)
    BY Zenon DEF PrepareFrame
  <2> HIDE DEF base
  <2>4. Sound(base, d) /\ (~base.atlas.evicted => ShowsDisplay(base))
    BY <1>9, <2>2 DEF FrontWritten, ShowsDisplay
  <2>5. CASE TakesScrollPath(r.full)
    <3>1. p.gpu = ScrollBuffers(base) BY <1>8, <2>3, <2>5
    <3>2. Sound(p.gpu, d) BY <1>6, <2>4, <3>1, ScrollIsSound
    <3>3. SuspectAfter(p) BY <1>8, <2>5 DEF SuspectAfter
    <3> QED BY <1>6, <3>2, <3>3 DEF Drawable, p
  <2>6. CASE ~TakesScrollPath(r.full) /\ view.offset = 0 /\ ~r.full
    <3>1. p.gpu = WriteFront(base, damage.dirty, term.rows) BY <1>8, <2>3, <2>6 DEF UploadDirtyRows
    <3>2. FrontWritten(base, p.gpu, damage.dirty, term.rows, d)
      BY <1>6, <1>9, <2>4, <3>1, FrontIsWritten
    <3>3. ASSUME ~SuspectAfter(p), NEW i \in AllRows PROVE Holds(p.gpu.front, p.gpu.atlas, i, DisplayText(i))
      <4>1. ~p.gpu.atlas.evicted /\ Height \notin damage.dirty
        BY <1>8, <1>10, <2>6, <3>3 DEF SuspectAfter, RepaintsAll
      <4>2. CASE i \in damage.dirty
        <5>1. i # Height BY <4>1, <4>2
        <5>2. DisplayText(i) = term.rows[i] BY <2>6, <5>1, DisplayTexts
        <5> QED BY <3>2, <4>1, <4>2, <5>2 DEF FrontWritten
      <4>3. CASE i \notin damage.dirty
        <5>1. i \in (1 .. d) \ damage.dirty BY <1>3, <1>6, <4>3 DEF AllRows
        <5>2. p.gpu.front[i] = base.front[i] /\ KeepsGlyphs(base.atlas, p.gpu.atlas)
          BY <3>2, <5>1 DEF FrontWritten
        <5>3. ~base.atlas.evicted BY <4>1, <5>2 DEF KeepsGlyphs
        <5>4. Holds(base.front, base.atlas, i, DisplayText(i)) BY <2>4, <5>3 DEF ShowsDisplay
        <5>5. Whole(base.atlas) /\ DisplayText(i) \in Glyphs BY <2>4, DisplayTexts DEF Sound
        <5>6. Holds(base.front, p.gpu.atlas, i, DisplayText(i)) BY <4>1, <5>2, <5>4, <5>5, HeldOn
        <5> QED BY <5>2, <5>6 DEF Holds
      <4> QED BY <4>2, <4>3
    <3>4. Sound(p.gpu, d) BY <3>2 DEF FrontWritten
    <3> QED BY <1>6, <3>3, <3>4 DEF Drawable, ShowsDisplay, p
  <2>7. CASE ~TakesScrollPath(r.full) /\ ~(view.offset = 0 /\ ~r.full)
    <3>1. p.gpu = base BY <1>8, <2>3, <2>7
    <3>2. ~SuspectAfter(p) => ~base.atlas.evicted BY <3>1 DEF SuspectAfter
    <3> QED BY <1>6, <2>4, <3>1, <3>2 DEF Drawable, p
  <2> QED BY <2>5, <2>6, <2>7
<1>11. CASE ~ComposesView
  <2>0. view.offset = 0 /\ ~view.search
    <3>1. view.offset \in Nat BY DEF GridTyped
    <3> QED BY <1>11, <3>1 DEF ComposesView
  <2>1. \A i \in AllRows : DisplayText(i) = term.rows[i] BY <2>0, DisplayTexts
  <2>2. PrepareFrame(r) = (CASE TakesScrollPath(r.full) -> ScrollBuffers(base)
                             [] view.offset = 0 /\ ~r.full /\ ~TakesScrollPath(r.full) -> UploadDirtyRows(base)
                             [] OTHER -> base)
    BY Zenon DEF PrepareFrame
  <2>3. CASE r.full
    <3>1. base = WriteFront(r.gpu, AllRows, term.rows) BY <1>11, <2>3
    <3>2. FrontWritten(r.gpu, base, AllRows, term.rows, d) BY <1>6, <1>7, <1>9, <3>1, FrontIsWritten
    <3> HIDE DEF base
    <3>3. ~TakesScrollPath(r.full) BY <2>3 DEF TakesScrollPath
    <3>4. p.gpu = base BY <1>8, <2>2, <2>3, <3>3
    <3>5. Sound(base, d) /\ (~base.atlas.evicted => ShowsDisplay(base))
      BY <2>1, <3>2 DEF FrontWritten, ShowsDisplay
    <3>6. ~SuspectAfter(p) => ~base.atlas.evicted BY <3>4 DEF SuspectAfter
    <3> QED BY <1>6, <3>4, <3>5, <3>6 DEF Drawable, p
  <2>4. CASE ~r.full
    <3>1. base = r.gpu BY <1>11, <2>4
    <3> HIDE DEF base
    <3>2. CASE TakesScrollPath(r.full)
      <4>1. p.gpu = ScrollBuffers(base) BY <1>8, <2>2, <3>2
      <4>2. Sound(p.gpu, d) BY <1>6, <1>7, <3>1, <4>1, ScrollIsSound
      <4>3. SuspectAfter(p) BY <1>8, <3>2 DEF SuspectAfter
      <4> QED BY <1>6, <4>2, <4>3 DEF Drawable, p
    <3>3. CASE ~TakesScrollPath(r.full)
      <4>1. p.gpu = WriteFront(base, damage.dirty, term.rows)
        BY <1>8, <2>0, <2>2, <2>4, <3>3 DEF UploadDirtyRows
      <4>2. FrontWritten(base, p.gpu, damage.dirty, term.rows, d)
        BY <1>6, <1>7, <1>9, <3>1, <4>1, FrontIsWritten
      <4>3. ASSUME ~SuspectAfter(p), NEW i \in AllRows PROVE Holds(p.gpu.front, p.gpu.atlas, i, term.rows[i])
        <5>1. ~p.gpu.atlas.evicted /\ (damage.dirty = AllRows \/ ~suspect)
          BY <1>8, <1>11, <2>4, <4>3 DEF SuspectAfter, RepaintsAll
        <5>2. CASE i \in damage.dirty BY <4>2, <5>1, <5>2 DEF FrontWritten
        <5>3. CASE i \notin damage.dirty
          <6>1. i \in (1 .. d) \ damage.dirty BY <1>3, <1>6, <5>3 DEF AllRows
          <6>2. p.gpu.front[i] = base.front[i] /\ KeepsGlyphs(base.atlas, p.gpu.atlas)
            BY <4>2, <6>1 DEF FrontWritten
          <6>3. ~suspect BY <5>1, <5>3
          <6>4. Holds(backend.front, backend.atlas, i, term.rows[i]) BY <1>11, <5>3, <6>3 DEF Uploaded
          <6>5. base.front = backend.front /\ base.atlas.glyphAt = backend.atlas.glyphAt
            BY <1>2, <1>6, <2>4, <3>1
          <6>6. Holds(base.front, base.atlas, i, term.rows[i]) BY <6>4, <6>5 DEF Holds
          <6>7. Whole(base.atlas) /\ term.rows[i] \in Glyphs BY <1>7, <1>9, <3>1 DEF Sound
          <6>8. Holds(base.front, p.gpu.atlas, i, term.rows[i]) BY <5>1, <6>2, <6>6, <6>7, HeldOn
          <6> QED BY <6>2, <6>8 DEF Holds
        <5> QED BY <5>2, <5>3
      <4>4. Sound(p.gpu, d) BY <4>2 DEF FrontWritten
      <4> QED BY <1>6, <2>1, <4>3, <4>4 DEF Drawable, ShowsDisplay, p
    <3> QED BY <3>2, <3>3
  <2> QED BY <2>3, <2>4
<1> QED BY <1>10, <1>11

(* In the live view the last buffer of the CPU shows the terminal outside   *)
(* the damage, with the cursor where it was drawn last, and the one before  *)
(* it outside the rows that the last frame repainted, too.                  *)
CpuKept ==
  view.offset = 0 /\ cpu.size = Height =>
    /\ cpu.recent # None =>
         \A i \in AllRows \ damage.dirty :
           cpu.recent[i].text = DisplayText(i) /\ (cpu.recent[i].cursor => i = cpu.cursor)
    /\ cpu.older # None =>
         \A i \in AllRows \ (damage.dirty \cup cpu.history) :
           cpu.older[i].text = DisplayText(i) /\ ~cpu.older[i].cursor

BackendTyped == Capacity(backend) \in Nat /\ Sound(backend, Capacity(backend))

FramesInv ==
  /\ GridTyped
  /\ lane \in {"starting", "gpu", "cpu"}
  /\ BackendTyped
  /\ surface \in [acquire : 0 .. AcquireBudget, reconfigure : 0 .. ReconfigureBudget]
  /\ window = [rows |-> window.rows, by |-> window.by, now |-> window.now]
  /\ lane # "gpu" => CpuKept
  /\ lane = "gpu" => Uploaded
  /\ CpuFrameShowsTerminal /\ GpuFrameShowsTerminal

LEMMA NewAtlasIsWhole == Whole(NewAtlas)
<1> DEFINE no == FALSE
           slotOf == [g \in {Blank} |-> 0]
           glyphAt == [s \in SlotIds |-> IF s = 0 THEN Blank ELSE None]
           nothing == [s \in SlotIds |-> None]
           lru == [head |-> None, tail |-> None, linked |-> {}, prev |-> nothing, next |-> nothing]
           q == [i \in 1 .. 0 |-> 1]
           a == [slotOf |-> slotOf, glyphAt |-> glyphAt, lru |-> lru, next |-> 1, evicted |-> no]
<1>1. no \in BOOLEAN /\ NewAtlas = a /\ NewLru = lru BY Zenon DEF NewAtlas, NewLru
<1> HIDE DEF no
<1>2. 1 \in 1 .. Slots BY SlotsAssumption
<1>3. nothing \in [SlotIds -> Slot0] /\ None \in Slot0 BY DEF Slot0
<1> HIDE DEF nothing
<1>4. lru \in Lists BY <1>3 DEF Lists
<1>5. Agree(slotOf, glyphAt, 1, {})
  <2>1. Blank \in Glyphs /\ Blank # None BY NoneIsNoGlyph DEF Glyphs
  <2>2. \A s \in SlotIds : s < 1 <=> s = 0 BY DEF SlotIds
  <2>3. slotOf \in [{Blank} -> SlotIds] /\ slotOf[Blank] = 0 /\ DOMAIN slotOf = {Blank} BY SlotFacts
  <2>4. glyphAt \in [SlotIds -> Glyphs \cup {None}] /\ glyphAt[0] = Blank
        /\ \A s \in SlotIds : s # 0 => glyphAt[s] = None
    BY <2>1, SlotFacts
  <2> HIDE DEF slotOf, glyphAt
  <2> QED BY <2>1, <2>2, <2>3, <2>4 DEF Agree
<1>6. lru.linked = 1 .. 1 - 1 OBVIOUS
<1>7. \E p : Ordered(lru, 1 - 1, p)
  <2>1. q \in [1 .. 0 -> SlotIds \ {0}] OBVIOUS
  <2>2. lru.head = None /\ lru.tail = None /\ lru.linked = {} OBVIOUS
  <2> HIDE DEF lru, q
  <2>3. Ordered(lru, 0, q) BY <2>1, <2>2 DEF Ordered
  <2> QED BY <2>3
<1> HIDE DEF slotOf, glyphAt, lru
<1>8. Whole(a) BY <1>1, <1>2, <1>4, <1>5, <1>6, <1>7, WholeOfParts
<1> QED BY <1>1, <1>8

LEMMA NewBackendIsSound ==
  ASSUME NEW c \in Nat, NEW front \in [1 .. c -> Slot0]
  PROVE  Sound([front |-> front, back |-> front, streak |-> 0, cursor |-> [row |-> 0, visible |-> FALSE],
                atlas |-> NewAtlas], c)
<1> DEFINE cursor == [row |-> 0, visible |-> FALSE]
           g == [front |-> front, back |-> front, streak |-> 0, cursor |-> cursor, atlas |-> NewAtlas]
<1>1. cursor \in [row : Nat, visible : BOOLEAN] OBVIOUS
<1>2. Whole(NewAtlas) /\ NewAtlas \in Atlases BY NewAtlasIsWhole DEF Whole
<1> HIDE DEF cursor
<1>3. g \in Backends(c) BY <1>1, <1>2 DEF Backends
<1>4. g.atlas = NewAtlas /\ g.streak = 0 OBVIOUS
<1> HIDE DEF g
<1>5. 0 < ShrinkStreak BY FramesAssumption
<1>6. Sound(g, c) BY <1>2, <1>3, <1>4, <1>5 DEF Sound
<1> QED BY <1>6 DEF g, cursor

LEMMA SoundIsTyped ==
  ASSUME NEW d \in Nat, NEW g, Sound(g, d)
  PROVE  Capacity(g) = d /\ Capacity(g) \in Nat /\ Sound(g, Capacity(g))
BY BackendParts DEF Sound

LEMMA NoBackendIsSound == Capacity(NoBackend) \in Nat /\ Sound(NoBackend, Capacity(NoBackend))
<1> DEFINE none == <<>>
<1>1. none \in [1 .. 0 -> Slot0]
  <2>1. none \in Seq(Slot0) /\ DOMAIN none = 1 .. 0 OBVIOUS
  <2>2. none = [i \in 1 .. 0 |-> none[i]] BY <2>1
  <2>3. \A i \in 1 .. 0 : none[i] \in Slot0 OBVIOUS
  <2> HIDE DEF none
  <2> QED BY <2>2, <2>3
<1> HIDE DEF none
<1>2. Sound([front |-> none, back |-> none, streak |-> 0, cursor |-> [row |-> 0, visible |-> FALSE],
             atlas |-> NewAtlas], 0)
  BY <1>1, NewBackendIsSound
<1>3. Sound(NoBackend, 0) BY <1>2, Zenon DEF NoBackend, none
<1> QED BY <1>3, SoundIsTyped

LEMMA NewGpuIsSound ==
  ASSUME Height \in Nat
  PROVE  Capacity(NewGpu) \in Nat /\ Sound(NewGpu, Capacity(NewGpu))
<1> DEFINE c == NextCapacity(InitialCapacity, Height)
<1>1. c \in Nat BY FramesAssumption, CapacityIsEnough
<1> HIDE DEF c
<1>2. NewBuffer(c) \in [1 .. c -> Slot0] BY DEF NewBuffer, Slot0
<1>3. Sound([front |-> NewBuffer(c), back |-> NewBuffer(c), streak |-> 0,
             cursor |-> [row |-> 0, visible |-> FALSE], atlas |-> NewAtlas], c)
  BY <1>1, <1>2, NewBackendIsSound
<1>4. Sound(NewGpu, c) BY <1>3, Zenon DEF NewGpu, c
<1> QED BY <1>1, <1>4, SoundIsTyped

LEMMA TermParts ==
  ASSUME GridTyped
  PROVE  /\ term = [rows |-> term.rows, scrollback |-> term.scrollback, cursor |-> term.cursor,
                    visible |-> term.visible]
         /\ term.rows \in Seq(Texts \cup {Blank}) /\ term.scrollback \in Seq(Texts \cup {Blank})
         /\ term.cursor \in Nat /\ term.visible \in BOOLEAN
         /\ Height \in Nat \ {0} /\ Height = Len(term.rows) /\ AllRows = 1 .. Height
         /\ damage = [dirty |-> damage.dirty, scrolled |-> damage.scrolled]
         /\ view = [offset |-> view.offset, search |-> view.search]
<1>1. /\ term = [rows |-> term.rows, scrollback |-> term.scrollback, cursor |-> term.cursor,
                 visible |-> term.visible]
      /\ term.rows \in Seq(Texts \cup {Blank}) /\ term.scrollback \in Seq(Texts \cup {Blank})
      /\ term.cursor \in Nat /\ term.visible \in BOOLEAN
  BY DEF GridTyped
<1>2. damage = [dirty |-> damage.dirty, scrolled |-> damage.scrolled]
      /\ view = [offset |-> view.offset, search |-> view.search]
  BY DEF GridTyped
<1>3. Height \in Nat \ {0} BY FramesAssumption DEF GridTyped
<1> QED BY <1>1, <1>2, <1>3 DEF Height, AllRows

LEMMA InitFrames == FramesInit => FramesInv
<1> SUFFICES ASSUME FramesInit PROVE FramesInv OBVIOUS
<1> USE FramesAssumption
<1> DEFINE rows == [i \in 1 .. MaxRows |-> Blank]
<1>1. rows \in Seq(Texts \cup {Blank}) /\ Len(rows) = MaxRows OBVIOUS
<1>2. term = [rows |-> rows, scrollback |-> <<>>, cursor |-> 1, visible |-> TRUE] BY DEF FramesInit
<1> HIDE DEF rows
<1>3. Height = MaxRows /\ AllRows = 1 .. MaxRows BY <1>1, <1>2 DEF Height, AllRows
<1>4. GridTyped
  <2>1. term \in [rows : Seq(Texts \cup {Blank}), scrollback : Seq(Texts \cup {Blank}), cursor : Nat,
                  visible : BOOLEAN]
    BY <1>1, <1>2
  <2>2. Height \in 1 .. MaxRows /\ Len(term.scrollback) <= ScrollbackCap /\ term.cursor \in AllRows
    BY <1>2, <1>3
  <2>3. view \in [offset : Nat, search : BOOLEAN] BY DEF FramesInit
  <2>4. damage = [dirty |-> AllRows, scrolled |-> 0] BY DEF FramesInit
  <2>5. damage \in [dirty : SUBSET AllRows, scrolled : Nat] /\ damage.scrolled < Height /\ damage.scrolled = 0
    BY <1>3, <2>4
  <2> QED BY <2>1, <2>2, <2>3, <2>5 DEF GridTyped
<1>5. lane = "starting" /\ BackendTyped
  BY NoBackendIsSound DEF FramesInit, BackendTyped
<1>6. surface \in [acquire : 0 .. AcquireBudget, reconfigure : 0 .. ReconfigureBudget]
  BY DEF FramesInit, NoFailures
<1>7. window = [rows |-> window.rows, by |-> window.by, now |-> window.now] /\ ~window.now
  BY DEF FramesInit
<1>8. CpuKept
  <2>1. cpu.recent = None /\ cpu.older = None BY DEF FramesInit
  <2> QED BY <2>1 DEF CpuKept
<1> QED BY <1>4, <1>5, <1>6, <1>7, <1>8 DEF FramesInv, CpuFrameShowsTerminal, GpuFrameShowsTerminal

(* When every row is dirty, nothing is asked of the buffers.                *)
LEMMA DirtyAsksNothing ==
  ASSUME damage'.dirty = AllRows'
  PROVE  CpuKept' /\ Uploaded'
<1>1. AllRows' \ damage'.dirty = {} OBVIOUS
<1>2. AllRows' \ (damage'.dirty \cup cpu'.history) = {} OBVIOUS
<1> HIDE DEF AllRows
<1> QED BY <1>1, <1>2 DEF CpuKept, Uploaded

(* A step that shows nothing, and marks what it changes.                    *)
LEMMA UnshownStep ==
  ASSUME FramesInv, GridTyped', lane' \in {"starting", "gpu", "cpu"}, BackendTyped',
         surface' \in [acquire : 0 .. AcquireBudget, reconfigure : 0 .. ReconfigureBudget],
         window' = [window EXCEPT !.now = FALSE],
         lane' # "gpu" => CpuKept', lane' = "gpu" => Uploaded'
  PROVE  FramesInv'
<1>1. window' = [rows |-> window'.rows, by |-> window'.by, now |-> window'.now] /\ ~window'.now
  <2>1. window = [rows |-> window.rows, by |-> window.by, now |-> window.now] BY DEF FramesInv
  <2>2. window' = [rows |-> window.rows, by |-> window.by, now |-> FALSE] BY <2>1
  <2> QED BY <2>2
<1>2. CpuFrameShowsTerminal' /\ GpuFrameShowsTerminal'
  BY <1>1 DEF CpuFrameShowsTerminal, GpuFrameShowsTerminal
<1> QED BY <1>1, <1>2 DEF FramesInv

(* The live view, in this state and in the next.                            *)
LiveTexts ==
  view.offset = 0 =>
    \A i \in AllRows : DisplayText(i) = (IF view.search /\ i = Height THEN Find ELSE term.rows[i])

LEMMA LiveViewShowsGrid == (GridTyped => LiveTexts) /\ (GridTyped => LiveTexts)'
<1>1. GridTyped => LiveTexts BY DisplayTexts DEF LiveTexts
<1>2. (GridTyped => LiveTexts)' BY <1>1, PTL
<1> QED BY <1>1, <1>2

(* Rows that change are marked, and the buffers are left alone.             *)
LEMMA MarkedStep ==
  ASSUME GridTyped, GridTyped', lane # "gpu" => CpuKept, lane = "gpu" => Uploaded,
         UNCHANGED <<view, lane, backend, cpu, suspect>>, Height' = Height, damage.dirty \subseteq damage'.dirty,
         \A i \in AllRows \ damage'.dirty : term'.rows[i] = term.rows[i]
  PROVE  (lane' # "gpu" => CpuKept') /\ (lane' = "gpu" => Uploaded')
<1>1. AllRows' = AllRows BY DEF AllRows
<1>2. ASSUME lane' # "gpu" PROVE CpuKept'
  <2>1. SUFFICES ASSUME view'.offset = 0, cpu'.size = Height'
                 PROVE  /\ cpu'.recent # None =>
                             \A i \in AllRows' \ damage'.dirty :
                               cpu'.recent[i].text = DisplayText(i)' /\ (cpu'.recent[i].cursor => i = cpu'.cursor)
                        /\ cpu'.older # None =>
                             \A i \in AllRows' \ (damage'.dirty \cup cpu'.history) :
                               cpu'.older[i].text = DisplayText(i)' /\ ~cpu'.older[i].cursor
    BY DEF CpuKept
  <2>2. \A i \in AllRows \ damage'.dirty : DisplayText(i)' = DisplayText(i)
    <3>1. LiveTexts /\ LiveTexts' BY LiveViewShowsGrid
    <3> QED BY <1>1, <2>1, <3>1 DEF LiveTexts
  <2>3. /\ cpu.recent # None =>
             \A i \in AllRows \ damage.dirty :
               cpu.recent[i].text = DisplayText(i) /\ (cpu.recent[i].cursor => i = cpu.cursor)
        /\ cpu.older # None =>
             \A i \in AllRows \ (damage.dirty \cup cpu.history) :
               cpu.older[i].text = DisplayText(i) /\ ~cpu.older[i].cursor
    BY <1>2, <2>1 DEF CpuKept
  <2> HIDE DEF AllRows
  <2> QED BY <1>1, <2>2, <2>3
<1>3. ASSUME lane' = "gpu" PROVE Uploaded'
  <2>1. ComposesView' = ComposesView BY DEF ComposesView
  <2>2. Uploaded BY <1>3
  <2> HIDE DEF AllRows
  <2> QED BY <1>1, <2>1, <2>2 DEF Uploaded
<1> QED BY <1>2, <1>3

LEMMA PrintRowStep ==
  ASSUME FramesInv, NEW t \in Texts \cup {Blank}, PrintRow(t)
  PROVE  FramesInv'
<1> DEFINE rows == [term.rows EXCEPT ![term.cursor] = t]
<1>1. GridTyped BY DEF FramesInv
<1>2. term' = [term EXCEPT !.rows = rows] BY DEF PrintRow
<1>3. /\ damage' = [damage EXCEPT !.dirty = damage.dirty \cup {term.cursor}]
      /\ UNCHANGED <<view, lane, backend, surface, cpu, suspect>> /\ window' = [window EXCEPT !.now = FALSE]
  BY DEF PrintRow, MarkRow, Feed, Change
<1>4. rows \in Seq(Texts \cup {Blank}) /\ Len(rows) = Height /\ term.cursor \in AllRows
      /\ \A i \in AllRows \ {term.cursor} : rows[i] = term.rows[i]
  BY <1>1, TermParts DEF GridTyped
<1> HIDE DEF rows
<1>5. term' = [rows |-> rows, scrollback |-> term.scrollback, cursor |-> term.cursor, visible |-> term.visible]
  BY <1>1, <1>2, TermParts
<1>6. damage' = [dirty |-> damage.dirty \cup {term.cursor}, scrolled |-> damage.scrolled]
  BY <1>1, <1>3, TermParts
<1>7. Height' = Height /\ AllRows' = AllRows BY <1>4, <1>5 DEF Height, AllRows
<1>8. GridTyped' BY <1>1, <1>3, <1>4, <1>5, <1>6, <1>7 DEF GridTyped
<1>9. damage'.dirty = damage.dirty \cup {term.cursor} /\ term'.rows = rows BY <1>5, <1>6
<1>10. (lane' # "gpu" => CpuKept') /\ (lane' = "gpu" => Uploaded')
  BY <1>1, <1>3, <1>4, <1>7, <1>8, <1>9, MarkedStep DEF FramesInv
<1> QED BY <1>3, <1>8, <1>10, UnshownStep DEF FramesInv, BackendTyped

LEMMA MoveCursorStep ==
  ASSUME FramesInv, NEW r \in AllRows, NEW v \in BOOLEAN, MoveCursor(r, v)
  PROVE  FramesInv'
<1> DEFINE term1 == [term EXCEPT !.cursor = r]
<1>1. GridTyped BY DEF FramesInv
<1>2. term' = [term1 EXCEPT !.visible = v] BY Zenon DEF MoveCursor
<1>3. /\ UNCHANGED <<damage, view, lane, backend, surface, cpu, suspect>>
      /\ window' = [window EXCEPT !.now = FALSE]
  BY DEF MoveCursor, Feed, Change
<1>4. term1 = [rows |-> term.rows, scrollback |-> term.scrollback, cursor |-> r, visible |-> term.visible]
  BY <1>1, TermParts
<1> HIDE DEF term1
<1>5. term' = [rows |-> term.rows, scrollback |-> term.scrollback, cursor |-> r, visible |-> v]
  BY <1>2, <1>4
<1>6. Height' = Height /\ AllRows' = AllRows /\ term'.rows = term.rows BY <1>5 DEF Height, AllRows
<1>7. r \in Nat BY <1>1, TermParts
<1>8. GridTyped'
  <2>1. term' \in [rows : Seq(Texts \cup {Blank}), scrollback : Seq(Texts \cup {Blank}), cursor : Nat,
                   visible : BOOLEAN]
    BY <1>1, <1>5, <1>7, TermParts
  <2>2. Len(term'.scrollback) <= ScrollbackCap /\ term'.cursor = r BY <1>1, <1>5 DEF GridTyped
  <2> QED BY <1>1, <1>3, <1>6, <2>1, <2>2 DEF GridTyped
<1>9. (lane' # "gpu" => CpuKept') /\ (lane' = "gpu" => Uploaded')
  BY <1>1, <1>3, <1>6, <1>8, MarkedStep DEF FramesInv
<1> QED BY <1>3, <1>8, <1>9, UnshownStep DEF FramesInv, BackendTyped

(* A step that marks all rows.                                              *)
LEMMA AllMarkedStep ==
  ASSUME FramesInv, GridTyped', damage'.dirty = AllRows', UNCHANGED <<lane, backend>>,
         surface' \in [acquire : 0 .. AcquireBudget, reconfigure : 0 .. ReconfigureBudget],
         window' = [window EXCEPT !.now = FALSE]
  PROVE  FramesInv'
<1>1. CpuKept' /\ Uploaded' BY DirtyAsksNothing
<1> QED BY <1>1, UnshownStep DEF FramesInv, BackendTyped

LEMMA ScrollStep ==
  ASSUME FramesInv, Scroll
  PROVE  FramesInv'
<1> DEFINE S == Texts \cup {Blank}
           rows == Append(Tail(term.rows), Blank)
           all == Append(term.scrollback, Head(term.rows))
           scrollback == IF Len(all) > ScrollbackCap THEN Tail(all) ELSE all
           scrolled == IF Height = 1 THEN 0 ELSE AtMost(damage.scrolled + 1, Height - 1)
           term1 == [term EXCEPT !.rows = rows]
<1>1. GridTyped BY DEF FramesInv
<1>2. term' = [term1 EXCEPT !.scrollback = scrollback]
  <2> DEFINE term2 == [term1 EXCEPT !.scrollback = LET a == Append(@, Head(term.rows))
                                                   IN IF Len(a) > ScrollbackCap THEN Tail(a) ELSE a]
  <2>1. term' = term2 BY Zenon DEF Scroll
  <2>2. term1.scrollback = term.scrollback
    <3> HIDE DEF rows, scrollback
    <3>1. term1 = [rows |-> rows, scrollback |-> term.scrollback, cursor |-> term.cursor, visible |-> term.visible]
      BY <1>1, TermParts
    <3> HIDE DEF term1
    <3> QED BY <3>1
  <2> QED BY <2>1, <2>2, Zenon
<1>3. /\ damage' = [dirty |-> AllRows, scrolled |-> scrolled]
      /\ UNCHANGED <<view, lane, backend, surface, cpu, suspect>> /\ window' = [window EXCEPT !.now = FALSE]
  BY DEF Scroll, ScrollDamage, Feed, Change
<1>4. /\ term.rows \in Seq(S) /\ term.scrollback \in Seq(S) /\ term.rows # <<>>
      /\ Height \in Nat \ {0} /\ Height = Len(term.rows) /\ Len(term.scrollback) <= ScrollbackCap
      /\ AllRows = 1 .. Height /\ term.cursor \in Nat /\ term.visible \in BOOLEAN
      /\ damage.scrolled \in Nat /\ ScrollbackCap \in Nat
  <2>1. term.rows # <<>>
    <3>1. Len(term.rows) # 0 BY <1>1, TermParts
    <3> QED BY <3>1
  <2> QED BY <1>1, <2>1, TermParts, FramesAssumption DEF GridTyped
<1>5. rows \in Seq(S) /\ Len(rows) = Height
  <2>1. Tail(term.rows) \in Seq(S) /\ Len(Tail(term.rows)) = Height - 1 BY <1>4
  <2> QED BY <1>4, <2>1
<1>6. scrollback \in Seq(S) /\ Len(scrollback) <= ScrollbackCap
  <2>1. Head(term.rows) \in S BY <1>4
  <2>2. all \in Seq(S) /\ Len(all) = Len(term.scrollback) + 1 BY <1>4, <2>1
  <2> HIDE DEF all, S
  <2>3. CASE Len(all) > ScrollbackCap
    <3>1. all # <<>>
      <4>1. Len(all) # 0 BY <1>4, <2>2
      <4> QED BY <4>1
    <3>2. Tail(all) \in Seq(S) /\ Len(Tail(all)) = Len(all) - 1 BY <2>2, <3>1
    <3> QED BY <1>4, <2>2, <2>3, <3>2
  <2>4. CASE ~(Len(all) > ScrollbackCap) BY <1>4, <2>2, <2>4
  <2> QED BY <2>3, <2>4
<1>7. scrolled \in Nat /\ scrolled < Height BY <1>4 DEF AtMost
<1> HIDE DEF rows, scrollback, scrolled
<1>8. term1 = [rows |-> rows, scrollback |-> term.scrollback, cursor |-> term.cursor, visible |-> term.visible]
  BY <1>1, TermParts
<1> HIDE DEF term1
<1>9. term' = [rows |-> rows, scrollback |-> scrollback, cursor |-> term.cursor, visible |-> term.visible]
  BY <1>2, <1>8
<1>10. Height' = Height /\ AllRows' = AllRows BY <1>5, <1>9 DEF Height, AllRows
<1>11. GridTyped'
  <2>1. term' \in [rows : Seq(S), scrollback : Seq(S), cursor : Nat, visible : BOOLEAN]
    BY <1>4, <1>5, <1>6, <1>9
  <2>2. Len(term'.scrollback) <= ScrollbackCap /\ term'.cursor = term.cursor BY <1>6, <1>9
  <2>3. damage' \in [dirty : SUBSET AllRows, scrolled : Nat] /\ damage'.scrolled = scrolled
        /\ damage'.dirty = AllRows
    BY <1>3, <1>7
  <2> QED BY <1>1, <1>3, <1>7, <1>10, <2>1, <2>2, <2>3 DEF GridTyped
<1>12. damage'.dirty = AllRows' BY <1>3, <1>10
<1> QED BY <1>3, <1>11, <1>12, AllMarkedStep DEF FramesInv

LEMMA RewriteStep ==
  ASSUME FramesInv, NEW t \in Texts \cup {Blank}, Rewrite([i \in AllRows |-> t])
  PROVE  FramesInv'
<1> DEFINE rows == [i \in AllRows |-> t]
<1>1. GridTyped BY DEF FramesInv
<1>2. /\ term' = [term EXCEPT !.rows = rows] /\ damage' = [dirty |-> AllRows, scrolled |-> 0]
      /\ UNCHANGED <<view, lane, backend, surface, cpu, suspect>> /\ window' = [window EXCEPT !.now = FALSE]
  BY DEF Rewrite, Feed, Change
<1>3. Height \in Nat \ {0} /\ AllRows = 1 .. Height BY <1>1, TermParts
<1>4. rows \in Seq(Texts \cup {Blank}) /\ Len(rows) = Height BY <1>3
<1> HIDE DEF rows
<1>5. term' = [rows |-> rows, scrollback |-> term.scrollback, cursor |-> term.cursor, visible |-> term.visible]
  BY <1>1, <1>2, TermParts
<1>6. Height' = Height /\ AllRows' = AllRows BY <1>4, <1>5 DEF Height, AllRows
<1>7. GridTyped'
  <2>1. term' \in [rows : Seq(Texts \cup {Blank}), scrollback : Seq(Texts \cup {Blank}), cursor : Nat,
                   visible : BOOLEAN]
    BY <1>1, <1>4, <1>5, TermParts
  <2>2. Len(term'.scrollback) <= ScrollbackCap /\ term'.cursor = term.cursor BY <1>1, <1>5 DEF GridTyped
  <2>3. damage' \in [dirty : SUBSET AllRows, scrolled : Nat] /\ damage'.scrolled = 0 BY <1>2
  <2> QED BY <1>1, <1>2, <1>3, <1>6, <2>1, <2>2, <2>3 DEF GridTyped
<1>8. damage'.dirty = AllRows' BY <1>2, <1>6
<1> QED BY <1>2, <1>7, <1>8, AllMarkedStep DEF FramesInv

(* A step that leaves the grid alone and marks all rows of it.              *)
LEMMA MarkedGrid ==
  ASSUME GridTyped, UNCHANGED term, damage' = MarkAll(damage), view' \in [offset : Nat, search : BOOLEAN]
  PROVE  GridTyped' /\ damage'.dirty = AllRows'
<1>1. Height' = Height /\ AllRows' = AllRows BY DEF Height, AllRows
<1>2. damage' = [dirty |-> AllRows, scrolled |-> damage.scrolled] BY TermParts DEF MarkAll
<1>3. damage' \in [dirty : SUBSET AllRows, scrolled : Nat] /\ damage'.scrolled = damage.scrolled
      /\ damage'.dirty = AllRows
  BY <1>2 DEF GridTyped
<1> QED BY <1>1, <1>3 DEF GridTyped

LEMMA UserViewStep ==
  ASSUME FramesInv, RestoreLiveView \/ (\E n \in 0 .. ScrollbackCap : ScrollView(n)) \/ ToggleSearch \/ Blink
  PROVE  FramesInv'
<1>1. GridTyped /\ view = [offset |-> view.offset, search |-> view.search]
      /\ view.offset \in Nat /\ view.search \in BOOLEAN
  BY TermParts DEF FramesInv, GridTyped
<1>2. /\ UNCHANGED <<term, lane, backend, surface>> /\ damage' = MarkAll(damage)
      /\ window' = [window EXCEPT !.now = FALSE]
  BY DEF RestoreLiveView, ScrollView, ToggleSearch, Blink, Change
<1>3. view' \in [offset : Nat, search : BOOLEAN]
  <2>1. CASE RestoreLiveView
    <3>1. view' = [view EXCEPT !.offset = 0] BY <2>1 DEF RestoreLiveView
    <3> QED BY <1>1, <3>1
  <2>2. CASE \E n \in 0 .. ScrollbackCap : ScrollView(n)
    <3>1. PICK n \in 0 .. ScrollbackCap : view' = [view EXCEPT !.offset = n] BY <2>2 DEF ScrollView
    <3>2. n \in Nat BY FramesAssumption
    <3> QED BY <1>1, <3>1, <3>2
  <2>3. CASE ToggleSearch
    <3>1. view' = [view EXCEPT !.search = ~view.search] BY <2>3 DEF ToggleSearch
    <3> QED BY <1>1, <3>1
  <2>4. CASE Blink BY <1>1, <2>4 DEF Blink
  <2> QED BY <2>1, <2>2, <2>3, <2>4
<1>4. GridTyped' /\ damage'.dirty = AllRows' BY <1>1, <1>2, <1>3, MarkedGrid
<1> QED BY <1>2, <1>4, AllMarkedStep DEF FramesInv

LEMMA ResizeStep ==
  ASSUME FramesInv, NEW h \in 1 .. MaxRows, Resize(h)
  PROVE  FramesInv'
<1> DEFINE rows == [i \in 1 .. h |-> IF i <= Height THEN term.rows[i] ELSE Blank]
           cursor == AtMost(term.cursor, h)
           term1 == [term EXCEPT !.rows = rows]
<1> USE FramesAssumption
<1>1. GridTyped BY DEF FramesInv
<1>2. /\ term.rows \in Seq(Texts \cup {Blank}) /\ Height \in Nat \ {0} /\ Height = Len(term.rows)
      /\ AllRows = 1 .. Height /\ term.cursor \in AllRows /\ h \in Nat /\ h > 0
  BY <1>1, TermParts DEF GridTyped
<1>3. rows \in Seq(Texts \cup {Blank}) /\ Len(rows) = h
  <2>1. \A i \in 1 .. h : rows[i] \in Texts \cup {Blank} BY <1>2
  <2> QED BY <1>2, <2>1
<1>4. cursor \in 1 .. h BY <1>2 DEF AtMost
<1>5. term' = [term1 EXCEPT !.cursor = cursor]
  <2>1. term' = [term EXCEPT !.rows = [i \in 1 .. h |-> IF i <= Height THEN term.rows[i] ELSE Blank],
                             !.cursor = AtMost(term.cursor, h)]
    BY Zenon DEF Resize
  <2> QED BY <2>1, Zenon
<1> HIDE DEF rows, cursor
<1>6. term1 = [rows |-> rows, scrollback |-> term.scrollback, cursor |-> term.cursor, visible |-> term.visible]
  BY <1>1, TermParts
<1> HIDE DEF term1
<1>7. term' = [rows |-> rows, scrollback |-> term.scrollback, cursor |-> cursor, visible |-> term.visible]
  BY <1>5, <1>6
<1>8. Height' = h /\ AllRows' = 1 .. h BY <1>3, <1>7 DEF Height, AllRows
<1>9. /\ damage' = [dirty |-> 1 .. h, scrolled |-> 0] /\ UNCHANGED <<view, lane, backend, cpu, suspect>>
      /\ surface' = (IF lane = "gpu" THEN [acquire |-> 0, reconfigure |-> 0] ELSE surface)
      /\ window' = [window EXCEPT !.now = FALSE]
  BY DEF Resize
<1>10. GridTyped'
  <2>1. term' \in [rows : Seq(Texts \cup {Blank}), scrollback : Seq(Texts \cup {Blank}), cursor : Nat,
                   visible : BOOLEAN]
    BY <1>1, <1>3, <1>4, <1>7, TermParts
  <2>2. Len(term'.scrollback) <= ScrollbackCap /\ term'.cursor = cursor BY <1>1, <1>7 DEF GridTyped
  <2>3. damage' \in [dirty : SUBSET (1 .. h), scrolled : Nat] /\ damage'.scrolled = 0 BY <1>9
  <2> QED BY <1>1, <1>2, <1>4, <1>8, <1>9, <2>1, <2>2, <2>3 DEF GridTyped
<1>11. damage'.dirty = AllRows' BY <1>8, <1>9
<1>12. surface' \in [acquire : 0 .. AcquireBudget, reconfigure : 0 .. ReconfigureBudget]
  BY <1>9 DEF FramesInv
<1> QED BY <1>9, <1>10, <1>11, <1>12, AllMarkedStep

LEMMA GpuStartStep ==
  ASSUME FramesInv, GpuReady \/ GpuGivenUp
  PROVE  FramesInv'
<1>1. /\ UNCHANGED <<term, view>> /\ damage' = MarkAll(damage) /\ window' = [window EXCEPT !.now = FALSE]
      /\ lane' \in {"starting", "gpu", "cpu"}
  BY DEF GpuReady, GpuGivenUp, Idle
<1>2. GridTyped' /\ damage'.dirty = AllRows'
  <2>1. GridTyped /\ view \in [offset : Nat, search : BOOLEAN] BY DEF FramesInv, GridTyped
  <2> QED BY <1>1, <2>1, MarkedGrid
<1>3. BackendTyped'
  <2>1. CASE GpuReady
    <3>1. backend' = NewGpu /\ Height \in Nat BY <2>1, TermParts DEF GpuReady, FramesInv
    <3> QED BY <3>1, NewGpuIsSound DEF BackendTyped
  <2>2. CASE GpuGivenUp BY <2>2 DEF GpuGivenUp, FramesInv, BackendTyped
  <2> QED BY <2>1, <2>2
<1>4. surface' \in [acquire : 0 .. AcquireBudget, reconfigure : 0 .. ReconfigureBudget]
  BY FramesAssumption DEF GpuReady, GpuGivenUp, FramesInv, NoFailures
<1>5. CpuKept' /\ Uploaded' BY <1>2, DirtyAsksNothing
<1> QED BY <1>1, <1>2, <1>3, <1>4, <1>5, UnshownStep

----------------------------------------------------------------------------
(* Frames are drawn.                                                        *)

LEMMA SameDisplay ==
  ASSUME UNCHANGED <<term, view>>
  PROVE  /\ Height' = Height /\ AllRows' = AllRows /\ Display' = Display /\ ComposesView' = ComposesView
         /\ \A i \in AllRows : DisplayText(i)' = DisplayText(i)
<1>1. Height' = Height /\ AllRows' = AllRows /\ ComposesView' = ComposesView BY DEF Height, AllRows, ComposesView
<1>2. ContentRows' = ContentRows /\ EffectiveOffset' = EffectiveOffset /\ HistoryRows' = HistoryRows
  BY <1>1 DEF ContentRows, EffectiveOffset, HistoryRows
<1>3. \A i \in AllRows : DisplayText(i)' = DisplayText(i) BY <1>1, <1>2 DEF DisplayText
<1>4. \A i \in AllRows : CursorIsIn(i)' = CursorIsIn(i) BY <1>1, <1>2 DEF CursorIsIn
<1>5. Display' = Display BY <1>1, <1>3, <1>4 DEF Display
<1> QED BY <1>1, <1>3, <1>5

LEMMA CleanGrid ==
  ASSUME GridTyped, UNCHANGED <<term, view>>, damage' = Clean
  PROVE  GridTyped' /\ damage'.dirty = {}
<1>1. Height' = Height /\ AllRows' = AllRows /\ Height > 0 BY SameDisplay, TermParts
<1>2. damage' \in [dirty : SUBSET AllRows, scrolled : Nat] /\ damage'.scrolled = 0 /\ damage'.dirty = {}
  BY DEF Clean
<1> QED BY <1>1, <1>2 DEF GridTyped

(* What a frame of the CPU leaves in its buffers, in the live view.         *)
LEMMA CpuFrameIsDisplay ==
  ASSUME GridTyped, view.offset = 0, NEW d, CpuKept \/ d.dirty = AllRows, d.dirty = damage.dirty \/ d.dirty = AllRows,
         NEW age \in Ages
  PROVE  LET repaint == RowsToRepaint(d, age)
         IN /\ Painted(repaint, Buffer(age)) = Display
            /\ d.dirty \cap AllRows \subseteq repaint
            /\ \A i \in AllRows : i = cpu.cursor => i \in repaint
<1> DEFINE repaint == RowsToRepaint(d, age)
           buffer == Buffer(age)
           frame == Painted(repaint, buffer)
<1>1. /\ d.dirty \cap AllRows \subseteq repaint
      /\ \A i \in AllRows : i = cpu.cursor => i \in repaint
      /\ age \notin {1, 2} => repaint = AllRows
  <2>1. d.dirty \subseteq DamagedRows(d) /\ \A i \in AllRows : i = cpu.cursor => i \in DamagedRows(d)
    BY DEF DamagedRows
  <2>2. CASE age = 1 BY <2>1, <2>2 DEF RowsToRepaint
  <2>3. CASE age = 2 BY <2>1, <2>3 DEF RowsToRepaint
  <2>4. CASE age \notin {1, 2} BY <2>4 DEF RowsToRepaint
  <2> QED BY <2>2, <2>3, <2>4
<1>2. ASSUME NEW i \in AllRows, i \notin repaint
      PROVE  buffer[i].text = DisplayText(i) /\ ~buffer[i].cursor
  <2>1. i \notin d.dirty /\ i # cpu.cursor /\ age \in {1, 2} BY <1>1, <1>2
  <2>2. CpuKept /\ i \notin damage.dirty BY <2>1
  <2>3. cpu.size = Height /\ (age = 1 => cpu.recent # None) /\ (age = 2 => cpu.older # None)
    BY <2>1 DEF Ages
  <2>4. /\ cpu.recent # None =>
             \A j \in AllRows \ damage.dirty :
               cpu.recent[j].text = DisplayText(j) /\ (cpu.recent[j].cursor => j = cpu.cursor)
        /\ cpu.older # None =>
             \A j \in AllRows \ (damage.dirty \cup cpu.history) :
               cpu.older[j].text = DisplayText(j) /\ ~cpu.older[j].cursor
    BY <2>2, <2>3 DEF CpuKept
  <2>5. CASE age = 1
    <3>1. buffer = cpu.recent BY <2>5 DEF Buffer
    <3> HIDE DEF buffer
    <3> QED BY <2>1, <2>2, <2>3, <2>4, <2>5, <3>1
  <2>6. CASE age = 2
    <3>1. buffer = cpu.older /\ i \notin cpu.history BY <1>2, <2>6 DEF Buffer, RowsToRepaint
    <3> HIDE DEF buffer
    <3> QED BY <2>2, <2>3, <2>4, <2>6, <3>1
  <2> QED BY <2>1, <2>5, <2>6
<1> HIDE DEF repaint, buffer
<1>3. frame = Display
  <2> SUFFICES ASSUME NEW i \in AllRows
               PROVE  [text |-> IF i \in repaint THEN DisplayText(i) ELSE buffer[i].text,
                       cursor |-> CursorIsIn(i) \/ (i \notin repaint /\ buffer[i].cursor)]
                      = [text |-> DisplayText(i), cursor |-> CursorIsIn(i)]
    BY DEF Painted, Display
  <2>1. (IF i \in repaint THEN DisplayText(i) ELSE buffer[i].text) = DisplayText(i) BY <1>2
  <2>2. (CursorIsIn(i) \/ (i \notin repaint /\ buffer[i].cursor)) = CursorIsIn(i)
    <3>1. ~(i \notin repaint /\ buffer[i].cursor) BY <1>2
    <3>2. CursorIsIn(i) \in BOOLEAN BY DEF CursorIsIn
    <3> QED BY <3>1, <3>2, Zenon
  <2> QED BY <2>1, <2>2, Zenon
<1> QED BY <1>1, <1>3 DEF repaint, buffer

LEMMA PaintedByCpu ==
  ASSUME FramesInv, NEW d, PaintCpuFrame(d), UNCHANGED <<term, view>>
  PROVE  /\ GridTyped' /\ window' = [rows |-> window'.rows, by |-> "cpu", now |-> TRUE]
         /\ (lane # "gpu" /\ d = damage) \/ d = MarkAll(damage)
              => CpuKept' /\ (view'.offset = 0 => window'.rows = Display')
<1>1. GridTyped BY DEF FramesInv
<1>2. PICK age \in Ages :
        LET repaint == RowsToRepaint(d, age)
            frame   == Painted(repaint, Buffer(age))
        IN /\ cpu' = [recent |-> frame, older |-> IF cpu.size = Height THEN cpu.recent ELSE None,
                      size |-> Height, history |-> repaint, cursor |-> term.cursor]
           /\ damage' = Clean
           /\ window' = [rows |-> frame, by |-> "cpu", now |-> TRUE]
  BY Zenon DEF PaintCpuFrame
<1> DEFINE repaint == RowsToRepaint(d, age)
           frame == Painted(repaint, Buffer(age))
           older == IF cpu.size = Height THEN cpu.recent ELSE None
<1>3. /\ cpu' = [recent |-> frame, older |-> older, size |-> Height, history |-> repaint, cursor |-> term.cursor]
      /\ damage' = Clean /\ window' = [rows |-> frame, by |-> "cpu", now |-> TRUE]
  BY <1>2, Zenon
<1>4. GridTyped' /\ damage'.dirty = {} BY <1>1, <1>3, CleanGrid
<1>5. ASSUME (lane # "gpu" /\ d = damage) \/ d = MarkAll(damage), view'.offset = 0
      PROVE  /\ frame = Display
             /\ \A i \in AllRows \ repaint :
                  older # None => older[i].text = DisplayText(i) /\ ~older[i].cursor
  <2>1. view.offset = 0 BY <1>5
  <2>2. (CpuKept /\ d.dirty = damage.dirty) \/ d.dirty = AllRows
    <3>1. CASE lane # "gpu" /\ d = damage BY <3>1 DEF FramesInv
    <3>2. CASE d = MarkAll(damage)
      <4>1. d = [dirty |-> AllRows, scrolled |-> damage.scrolled] BY <1>1, <3>2, TermParts DEF MarkAll
      <4> QED BY <4>1
    <3> QED BY <1>5, <3>1, <3>2
  <2>3. /\ frame = Display /\ d.dirty \cap AllRows \subseteq repaint
        /\ \A i \in AllRows : i = cpu.cursor => i \in repaint
    BY <1>1, <2>1, <2>2, CpuFrameIsDisplay
  <2> HIDE DEF frame, repaint
  <2>4. ASSUME NEW i \in AllRows \ repaint, older # None PROVE older[i].text = DisplayText(i) /\ ~older[i].cursor
    <3>1. older = cpu.recent /\ cpu.size = Height /\ cpu.recent # None BY <2>4
    <3>2. i \notin d.dirty /\ i # cpu.cursor BY <2>3
    <3>3. CpuKept /\ i \in AllRows \ damage.dirty BY <2>2, <3>2
    <3>4. cpu.recent[i].text = DisplayText(i) /\ (cpu.recent[i].cursor => i = cpu.cursor)
      BY <2>1, <3>1, <3>3 DEF CpuKept
    <3> QED BY <3>1, <3>2, <3>4
  <2> QED BY <2>3, <2>4
<1> HIDE DEF frame, repaint, older
<1>6. ASSUME (lane # "gpu" /\ d = damage) \/ d = MarkAll(damage)
      PROVE  CpuKept'
  <2>1. SUFFICES ASSUME view'.offset = 0
                 PROVE  /\ \A i \in AllRows' :
                             cpu'.recent[i].text = DisplayText(i)' /\ (cpu'.recent[i].cursor => i = cpu'.cursor)
                        /\ cpu'.older # None =>
                             \A i \in AllRows' \ cpu'.history :
                               cpu'.older[i].text = DisplayText(i)' /\ ~cpu'.older[i].cursor
    BY <1>4 DEF CpuKept
  <2>2. cpu'.recent = frame /\ cpu'.older = older /\ cpu'.history = repaint /\ cpu'.cursor = term.cursor
    BY <1>3
  <2>3. frame = Display /\ \A i \in AllRows \ repaint :
                             older # None => older[i].text = DisplayText(i) /\ ~older[i].cursor
    BY <1>5, <1>6, <2>1
  <2>4. AllRows' = AllRows /\ \A i \in AllRows : DisplayText(i)' = DisplayText(i) BY SameDisplay
  <2>5. \A i \in AllRows : Display[i].text = DisplayText(i) /\ (Display[i].cursor => i = term.cursor)
    BY DEF Display, CursorIsIn
  <2> QED BY <2>2, <2>3, <2>4, <2>5
<1>7. window'.rows = frame /\ window' = [rows |-> window'.rows, by |-> "cpu", now |-> TRUE] BY <1>3
<1>8. Display' = Display BY SameDisplay
<1> QED BY <1>4, <1>5, <1>6, <1>7, <1>8

LEMMA DrawCpuStep ==
  ASSUME FramesInv, DrawCpu
  PROVE  FramesInv'
<1>1. /\ lane # "gpu" /\ PaintCpuFrame(damage)
      /\ UNCHANGED <<term, view, lane, backend, surface, suspect>>
  BY DEF DrawCpu, Idle
<1>2. /\ GridTyped' /\ window' = [rows |-> window'.rows, by |-> "cpu", now |-> TRUE]
      /\ CpuKept' /\ (view'.offset = 0 => window'.rows = Display')
  BY <1>1, PaintedByCpu
<1>3. window'.by = "cpu" /\ window' = [rows |-> window'.rows, by |-> window'.by, now |-> window'.now] BY <1>2
<1>4. CpuFrameShowsTerminal' /\ GpuFrameShowsTerminal'
  BY <1>2, <1>3 DEF CpuFrameShowsTerminal, GpuFrameShowsTerminal
<1> QED BY <1>1, <1>2, <1>3, <1>4 DEF FramesInv, BackendTyped

LEMMA SurfaceStep ==
  ASSUME FramesInv, NEW e
  PROVE  SurfaceAfter(e) \in [acquire : 0 .. AcquireBudget, reconfigure : 0 .. ReconfigureBudget]
<1>1. surface.acquire \in 0 .. AcquireBudget /\ surface.reconfigure \in 0 .. ReconfigureBudget BY DEF FramesInv
<1>2. CASE Recovery(e) = "RetryAcquire"
  <2>1. surface.acquire < AcquireBudget BY <1>2 DEF Recovery
  <2> QED BY <1>1, <1>2, <2>1, FramesAssumption DEF SurfaceAfter
<1>3. CASE Recovery(e) = "ReconfigureSurface"
  <2>1. surface.reconfigure < ReconfigureBudget BY <1>3 DEF Recovery
  <2> QED BY <1>1, <1>3, <2>1, FramesAssumption DEF SurfaceAfter
<1>4. CASE Recovery(e) \notin {"RetryAcquire", "ReconfigureSurface"}
  BY <1>4, FramesAssumption DEF SurfaceAfter, NoFailures
<1> QED BY <1>2, <1>3, <1>4

LEMMA DrawGpuFailsStep ==
  ASSUME FramesInv, NEW e \in SurfaceErrors, DrawGpuFails(e)
  PROVE  FramesInv'
<1>1. lane = "gpu" /\ UNCHANGED <<term, view>> BY DEF DrawGpuFails, Idle
<1>2. CASE /\ backend' = Prepared.gpu /\ surface' = SurfaceAfter(e) /\ suspect' = TRUE
           /\ PaintCpuFrame(damage) /\ UNCHANGED lane
  <2>1. GridTyped' /\ window' = [rows |-> window'.rows, by |-> "cpu", now |-> TRUE]
    BY <1>1, <1>2, PaintedByCpu
  <2>2. window'.by = "cpu" /\ window' = [rows |-> window'.rows, by |-> window'.by, now |-> window'.now] BY <2>1
  <2>3. BackendTyped'
    <3>1. PICK d \in Nat : Drawable(Prepared, d)
      BY <1>1, FrameIsPrepared DEF FramesInv, BackendTyped
    <3>2. Sound(backend', d) BY <1>2, <3>1 DEF Drawable
    <3> QED BY <3>2, SoundIsTyped DEF BackendTyped
  <2>4. surface' \in [acquire : 0 .. AcquireBudget, reconfigure : 0 .. ReconfigureBudget] BY <1>2, SurfaceStep
  <2>5. suspect' /\ lane' = "gpu" BY <1>1, <1>2
  <2>6. CpuFrameShowsTerminal' /\ GpuFrameShowsTerminal' /\ Uploaded'
    BY <2>5 DEF CpuFrameShowsTerminal, GpuFrameShowsTerminal, Uploaded
  <2> QED BY <2>1, <2>2, <2>3, <2>4, <2>5, <2>6 DEF FramesInv
<1>3. CASE /\ lane' = "cpu" /\ backend' = NoBackend /\ surface' = NoFailures /\ suspect' = FALSE
           /\ PaintCpuFrame(DamageOfFallback)
  <2>1. PaintCpuFrame(MarkAll(damage)) BY <1>3 DEF DamageOfFallback
  <2>2. /\ GridTyped' /\ window' = [rows |-> window'.rows, by |-> "cpu", now |-> TRUE]
        /\ CpuKept' /\ (view'.offset = 0 => window'.rows = Display')
    BY <1>1, <2>1, PaintedByCpu
  <2>3. window'.by = "cpu" /\ window' = [rows |-> window'.rows, by |-> window'.by, now |-> window'.now] BY <2>2
  <2>4. BackendTyped' BY <1>3, NoBackendIsSound DEF BackendTyped
  <2>5. surface' \in [acquire : 0 .. AcquireBudget, reconfigure : 0 .. ReconfigureBudget]
    BY <1>3, FramesAssumption DEF NoFailures
  <2>6. CpuFrameShowsTerminal' /\ GpuFrameShowsTerminal'
    BY <2>2, <2>3 DEF CpuFrameShowsTerminal, GpuFrameShowsTerminal
  <2> QED BY <1>3, <2>2, <2>3, <2>4, <2>5, <2>6 DEF FramesInv
<1> QED BY <1>2, <1>3, Zenon DEF DrawGpuFails

(* A GPU frame that is not suspect is the display.                          *)
LEMMA PictureIsDisplay ==
  ASSUME NEW g, ShowsDisplay(g)
  PROVE  GpuPicture(g) = Display
<1> SUFFICES ASSUME NEW i \in AllRows
             PROVE  (IF g.front[i] = None THEN None ELSE g.atlas.glyphAt[g.front[i]]) = DisplayText(i)
  BY Zenon DEF GpuPicture, Display
<1>1. g.front[i] \in SlotIds /\ g.atlas.glyphAt[g.front[i]] = DisplayText(i) BY DEF ShowsDisplay, Holds
<1> QED BY <1>1, SlotFacts

LEMMA PresentGpuStep ==
  ASSUME FramesInv, lane = "gpu", PresentGpu(Prepared), UNCHANGED <<term, view, lane>>, surface' = NoFailures
  PROVE  FramesInv'
<1> DEFINE p == Prepared
           g == IF TakesScrollPath(p.full) THEN CopyScrolled(p.gpu) ELSE p.gpu
<1>1. GridTyped BY DEF FramesInv
<1>2. PICK d \in Nat : Drawable(p, d) BY <1>1, FrameIsPrepared DEF FramesInv, BackendTyped
<1>3. /\ backend' = g /\ damage' = Clean /\ suspect' = SuspectAfter(p)
      /\ window' = [rows |-> GpuPicture(g), by |-> "gpu", now |-> TRUE]
  BY Zenon DEF PresentGpu
<1> HIDE DEF p
<1>4. GridTyped' /\ damage'.dirty = {} BY <1>1, <1>3, CleanGrid
<1>5. BackendTyped'
  <2>1. Sound(g, d) BY <1>1, <1>2, CopyIsSound DEF Drawable
  <2> HIDE DEF g
  <2> QED BY <1>3, <2>1, SoundIsTyped DEF BackendTyped
<1>6. ~suspect' => g = p.gpu /\ ShowsDisplay(p.gpu)
  <2>1. TakesScrollPath(p.full) => SuspectAfter(p) BY DEF SuspectAfter
  <2> QED BY <1>2, <1>3, <2>1 DEF Drawable
<1> HIDE DEF g
<1>7. Uploaded'
  <2> SUFFICES ASSUME ~suspect', ~ComposesView', NEW i \in AllRows'
               PROVE  Holds(backend'.front, backend'.atlas, i, term'.rows[i])
    BY DEF Uploaded
  <2>1. ~ComposesView /\ i \in AllRows BY SameDisplay
  <2>2. view.offset = 0 /\ ~view.search
    <3>1. view.offset \in Nat BY <1>1 DEF GridTyped
    <3> QED BY <2>1, <3>1 DEF ComposesView
  <2>3. DisplayText(i) = term.rows[i] BY <1>1, <2>1, <2>2, DisplayTexts
  <2>4. Holds(p.gpu.front, p.gpu.atlas, i, DisplayText(i)) BY <1>6, <2>1 DEF ShowsDisplay
  <2> QED BY <1>3, <1>6, <2>3, <2>4
<1>8. window'.rows = GpuPicture(g) /\ window'.by = "gpu"
      /\ window' = [rows |-> window'.rows, by |-> window'.by, now |-> window'.now]
  BY <1>3
<1>9. CpuFrameShowsTerminal' /\ GpuFrameShowsTerminal'
  <2>1. ~suspect' => window'.rows = Display' BY <1>6, <1>8, PictureIsDisplay, SameDisplay
  <2> QED BY <1>8, <2>1 DEF CpuFrameShowsTerminal, GpuFrameShowsTerminal
<1>10. surface' \in [acquire : 0 .. AcquireBudget, reconfigure : 0 .. ReconfigureBudget]
  BY FramesAssumption DEF NoFailures
<1> QED BY <1>4, <1>5, <1>7, <1>8, <1>9, <1>10 DEF FramesInv

LEMMA DrawStep ==
  ASSUME FramesInv, Draw
  PROVE  FramesInv'
<1>1. CASE DrawCpu BY <1>1, DrawCpuStep
<1>2. CASE DrawGpu
  <2>1. lane = "gpu" /\ PresentGpu(Prepared) /\ UNCHANGED <<term, view, lane>> /\ surface' = NoFailures
    BY <1>2 DEF DrawGpu, Idle
  <2> QED BY <2>1, PresentGpuStep
<1>3. ASSUME NEW e \in SurfaceErrors, DrawGpuReconfigured(e) PROVE FramesInv'
  <2>1. lane = "gpu" /\ PresentGpu(Prepared) /\ UNCHANGED <<term, view, lane>> /\ surface' = NoFailures
    BY <1>3 DEF DrawGpuReconfigured, Idle
  <2> QED BY <2>1, PresentGpuStep
<1>4. ASSUME NEW e \in SurfaceErrors, DrawGpuFails(e) PROVE FramesInv' BY <1>4, DrawGpuFailsStep
<1> QED BY <1>1, <1>2, <1>3, <1>4 DEF Draw

LEMMA FramesStep == FramesInv /\ [FramesNext]_frameVars => FramesInv'
<1> SUFFICES ASSUME FramesInv, [FramesNext]_frameVars PROVE FramesInv' OBVIOUS
<1>1. CASE Output
  <2>1. CASE \E t \in Texts \cup {Blank} : PrintRow(t) BY <2>1, PrintRowStep
  <2>2. CASE \E r \in AllRows, v \in BOOLEAN : MoveCursor(r, v) BY <2>2, MoveCursorStep
  <2>3. CASE Scroll BY <2>3, ScrollStep
  <2>4. CASE \E t \in Texts \cup {Blank} : Rewrite([i \in AllRows |-> t]) BY <2>4, RewriteStep
  <2> QED BY <1>1, <2>1, <2>2, <2>3, <2>4 DEF Output
<1>2. CASE UserView
  <2>1. CASE RestoreLiveView \/ (\E n \in 0 .. ScrollbackCap : ScrollView(n)) \/ ToggleSearch
    BY <2>1, UserViewStep
  <2>2. CASE \E h \in 1 .. MaxRows : Resize(h) BY <2>2, ResizeStep
  <2> QED BY <1>2, <2>1, <2>2 DEF UserView
<1>3. CASE Blink BY <1>3, UserViewStep
<1>4. CASE Draw BY <1>4, DrawStep
<1>5. CASE GpuReady \/ GpuGivenUp BY <1>5, GpuStartStep
<1>6. CASE UNCHANGED frameVars
  <2>1. UNCHANGED <<term, view, damage, lane, backend, surface, cpu, window, suspect>> BY <1>6 DEF frameVars
  <2>2. /\ GridTyped' = GridTyped /\ BackendTyped' = BackendTyped /\ Display' = Display
        /\ CpuFrameShowsTerminal' = CpuFrameShowsTerminal /\ GpuFrameShowsTerminal' = GpuFrameShowsTerminal
        /\ (CpuKept => CpuKept') /\ (Uploaded => Uploaded')
    <3>1. /\ Height' = Height /\ AllRows' = AllRows /\ Display' = Display /\ ComposesView' = ComposesView
          /\ \A i \in AllRows : DisplayText(i)' = DisplayText(i)
      BY <2>1, SameDisplay
    <3>2. GridTyped' = GridTyped BY <2>1, <3>1 DEF GridTyped
    <3>3. BackendTyped' = BackendTyped BY <2>1 DEF BackendTyped
    <3>4. CpuFrameShowsTerminal' = CpuFrameShowsTerminal /\ GpuFrameShowsTerminal' = GpuFrameShowsTerminal
      BY <2>1, <3>1 DEF CpuFrameShowsTerminal, GpuFrameShowsTerminal
    <3>5. CpuKept => CpuKept' BY <2>1, <3>1 DEF CpuKept
    <3>6. Uploaded => Uploaded' BY <2>1, <3>1 DEF Uploaded
    <3> QED BY <3>1, <3>2, <3>3, <3>4, <3>5, <3>6
  <2> QED BY <2>1, <2>2 DEF FramesInv
<1> QED BY <1>1, <1>2, <1>3, <1>4, <1>5, <1>6 DEF FramesNext

LEMMA FramesInvariance == FramesSpec => []FramesInv
BY InitFrames, FramesStep, PTL DEF FramesSpec

(* A frame of the CPU shows the live view in every row, whichever of its    *)
(* last two buffers it was painted over: what is not repainted has not      *)
(* changed since.                                                           *)
THEOREM CpuFrameAlwaysShows == FramesSpec => []CpuFrameShowsTerminal
<1>1. FramesInv => CpuFrameShowsTerminal BY DEF FramesInv
<1> QED BY <1>1, FramesInvariance, PTL

LEMMA FramesTyped == FramesInv => FrameTypes
<1> SUFFICES ASSUME FramesInv PROVE FrameTypes OBVIOUS
<1>1. /\ GridTyped /\ Height \in 1 .. MaxRows /\ \A i \in AllRows : term.rows[i] \in Texts \cup {Blank}
  <2>1. GridTyped BY DEF FramesInv
  <2>2. term.rows \in Seq(Texts \cup {Blank}) /\ AllRows = 1 .. Len(term.rows) BY <2>1, TermParts
  <2> QED BY <2>1, <2>2 DEF GridTyped
<1>2. Len(term.scrollback) <= ScrollbackCap /\ term.cursor \in AllRows /\ damage.dirty \subseteq AllRows
      /\ damage.scrolled < Height /\ (damage.scrolled > 0 => damage.dirty = AllRows)
  BY <1>1 DEF GridTyped
<1>3. Len(backend.front) = Len(backend.back) /\ backend.streak < ShrinkStreak /\ IsAtlas(backend.atlas)
  <2>1. Capacity(backend) \in Nat /\ Sound(backend, Capacity(backend)) BY DEF FramesInv, BackendTyped
  <2>2. Len(backend.back) = Capacity(backend) BY <2>1, BackendParts DEF Sound
  <2> QED BY <2>1, <2>2, WholeIsAtlas DEF Sound, Capacity
<1>4. surface.acquire <= AcquireBudget /\ surface.reconfigure <= ReconfigureBudget
  BY FramesAssumption DEF FramesInv
<1> QED BY <1>1, <1>2, <1>3, <1>4 DEF FrameTypes

(* The cell buffers are of one size and the atlas is whole, and a frame of  *)
(* the GPU shows the terminal in every row, but for the ways that suspect   *)
(* names.                                                                   *)
THEOREM GpuFramesAlwaysSound == FramesSpec => []GpuFramesAreSound
<1>1. FramesInv => GpuFramesAreSound BY FramesTyped DEF FramesInv, GpuFramesAreSound
<1> QED BY <1>1, FramesInvariance, PTL
=============================================================================
