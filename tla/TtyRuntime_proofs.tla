--------------------------- MODULE TtyRuntime_proofs ---------------------------
(***************************************************************************)
(* Proofs about TtyRuntime, for every budget, number of chunks and waits.  *)
(* The invariant has four parts: the types; what the pump took and showed; *)
(* what the handle and the child know of each other; and the verdict that  *)
(* the main thread carries.  All steps of the loop are of one kind, to go  *)
(* on with a live session or to end with a verdict, and are treated as one.*)
(***************************************************************************)
EXTENDS TtyRuntime, TLAPS

(* A pump that ended by itself saw the end of the output, and no process is *)
(* left to write more; before the loop there is no pump, and a call that    *)
(* returned joined it.                                                      *)
StreamInv ==
  /\ pump \in {"ended", "finished"} /\ ~broken => ~slave /\ taken = written /\ shown = written
  /\ pc \in {"start", "takeReader", "takeWriter", "dropped"} => pump = "none"
  /\ pc = "returned" => pump \in {"none", "finished"}

(* The handle knows a code only of a child that exited; there is no child   *)
(* before the spawn, and none unsignalled after the close.                  *)
HandleInv ==
  /\ cached = "child" => child = "exited"
  /\ pc = "start" => child = "none"
  /\ pc \in {"join", "returned", "detached"} /\ child = "running" => signalled # "no"

(* An exit code has its reason, and past the loop there is always a verdict.*)
VerdictInv ==
  /\ exitCode = "child" => child = "exited"
  /\ exitCode = "unknown" => child = "lost"
  /\ exitCode = "zero" => localExit
  /\ LoopEndsWithVerdict
  /\ pc \in {"close", "join", "detached", "returned"} => exitCode # "none" \/ fatal # "none"
  /\ pc = "dropped" => fatal # "none"

SessionInv ==
  /\ PolicyObeyed
  /\ pc \in {"start", "takeReader", "takeWriter"} => session.state = "Starting"

IInv == TypeOK /\ StreamInv /\ HandleInv /\ VerdictInv /\ SessionInv

Looping == pc \in {"poll", "signals", "event"}

----------------------------------------------------------------------------
(* The session policy.                                                      *)

LEMMA FatalOfLive ==
  ASSUME NEW s \in Controllers, s.state \in Live
  PROVE  LET r == handleFatalBoundary(s)
         IN r.outcome = "BoundaryFatal" /\ r.session \in Controllers
<1>1. s.state # "Stopped" BY DEF Live
<1>2. handleFatalBoundary(s) = answer(stopping(s), "BoundaryFatal")
  BY <1>1 DEF handleFatalBoundary
<1>3. stopping(s) \in Controllers BY DEF stopping, Controllers, SessionStates, Shells
<1>4. QED BY <1>2, <1>3 DEF answer

LEMMA BoundaryOfLive ==
  ASSUME NEW s \in Controllers, s.state \in {"Running", "Degraded"}, NEW boundary \in Boundaries
  PROVE  LET r == handleBoundary(s, boundary)
         IN /\ r.session \in Controllers
            /\ \/ r.outcome = "RetryCurrentPath" /\ r.session.state = "Degraded"
               \/ r.outcome \in {"BudgetExhausted", "BoundaryFatal"}
<1>1. CASE ~isRecoverable(boundary, s.state)
  BY <1>1, FatalOfLive DEF handleBoundary, Live
<1>2. CASE isRecoverable(boundary, s.state)
  <2>1. handleBoundary(s, boundary) = applyRecoverable(s) BY <1>2 DEF handleBoundary
  <2>2. s.failures \in 0 .. RecoverableBudget /\ RecoverableBudget \in Nat
    BY RecoverableBudgetAssumption DEF Controllers
  <2>3. CASE s.failures >= RecoverableBudget
    <3>1. applyRecoverable(s) = answer(stopping(s), "BudgetExhausted")
      BY <2>3 DEF applyRecoverable
    <3>2. stopping(s) \in Controllers BY DEF stopping, Controllers, SessionStates, Shells
    <3>3. QED BY <2>1, <3>1, <3>2 DEF answer
  <2>4. CASE ~(s.failures >= RecoverableBudget)
    <3> DEFINE t == [s EXCEPT !.state = "Degraded", !.failures = s.failures + 1,
                              !.requested = s.requested]
    <3>1. applyRecoverable(s) = answer(t, "RetryCurrentPath")
      BY <2>4 DEF applyRecoverable
    <3>2. s.failures + 1 \in 0 .. RecoverableBudget BY <2>2, <2>4
    <3>3. t \in Controllers /\ t.state = "Degraded"
      BY <3>2 DEF Controllers, SessionStates, Shells
    <3> HIDE DEF t
    <3>4. QED BY <2>1, <3>1, <3>3 DEF answer
  <2>5. QED BY <2>3, <2>4
<1>3. QED BY <1>1, <1>2

LEMMA RunningAfterMark ==
  ASSUME NEW s \in Controllers, s.state \in {"Starting", "Degraded"}
  PROVE  markRunning(s).session \in Controllers /\ markRunning(s).session.state = "Running"
<1> DEFINE t == [s EXCEPT !.state = "Running", !.failures = 0,
                   !.active = IF s.active = "none" THEN s.requested ELSE s.active]
<1>1. markRunning(s) = answer(t, "Started") BY DEF markRunning
<1>2. 0 \in 0 .. RecoverableBudget BY RecoverableBudgetAssumption
<1>3. s.requested \in Shells /\ s.active \in Shells \cup {"none"} BY DEF Controllers
<1>4. t \in Controllers /\ t.state = "Running" BY <1>2, <1>3 DEF Controllers, SessionStates
<1> HIDE DEF t
<1>5. QED BY <1>1, <1>4 DEF answer

----------------------------------------------------------------------------
(* The calls of the handle.                                                 *)

LEMMA TryWaitKnows ==
  ASSUME HandleTypes, HandleInv, NEW result, TryWait(result)
  PROVE  /\ cached' \in {"none", "child", "unknown"}
         /\ cached' = "child" => child = "exited"
         /\ result = "child" => child = "exited"
         /\ result = "unknown" => child = "lost"
<1>1. CASE cached = "child" BY <1>1 DEF TryWait, HandleTypes, HandleInv
<1>2. CASE cached # "child"
  <2>1. result = "child" => child = "exited" BY <1>2 DEF TryWait, HandleTypes
  <2>2. result = "unknown" => child = "lost" BY <1>2 DEF TryWait, HandleTypes
  <2>3. QED BY <1>2, <2>1, <2>2 DEF TryWait, HandleTypes
<1>3. QED BY <1>1, <1>2

LEMMA TerminateSignals ==
  ASSUME HandleTypes, HandleInv, NEW ok \in BOOLEAN, Terminate(ok)
  PROVE  /\ cached' \in {"none", "child", "unknown"} /\ signalled' \in {"no", "yes", "refused"}
         /\ cached' = "child" => child = "exited"
         /\ child = "running" => signalled' # "no"
  BY DEF Terminate, handle, HandleTypes, HandleInv

----------------------------------------------------------------------------
(* The loop: what all of its steps have in common.                          *)

GoesOn ==
  /\ pc' \in {"poll", "signals", "event"} /\ UNCHANGED <<exitCode, localExit, fatal>>
  /\ session' \in Controllers /\ session'.state \in {"Running", "Degraded"}

Verdict ==
  /\ exitCode' \in {"none", "zero", "child", "unknown"} /\ localExit' \in BOOLEAN
  /\ fatal' \in {"none", "start", "PtyRead", "PtyWrite", "PtyResize", "PtyWait", "input", "close"}
  /\ exitCode' = "child" => child = "exited"
  /\ exitCode' = "unknown" => child = "lost"
  /\ exitCode' = "zero" => localExit'
  /\ localExit' \/ exitCode' # "none" \/ fatal' # "none"

Ends == pc' = "ended" /\ Verdict /\ session' \in Controllers

LoopStep ==
  /\ GoesOn \/ Ends
  /\ cached' \in {"none", "child", "unknown"} /\ signalled' \in {"no", "yes", "refused"}
  /\ cached' = "child" => child = "exited"
  /\ signal' \in {"none", "stdout", "failure"}
  /\ mode' \in Modes /\ timeout' \in MinTimeout .. MaxTimeoutOf[mode']
  /\ UNCHANGED <<child, slave, written, taken, shown, overdue, pump, broken>>

(* The state in the loop, as its steps need it.                             *)
LEMMA InLoop ==
  ASSUME IInv, Looping
  PROVE  /\ session \in Controllers /\ session.state \in {"Running", "Degraded"}
         /\ session.state \in Live
         /\ exitCode \in {"none", "zero", "child", "unknown"} /\ localExit \in BOOLEAN
         /\ fatal \in {"none", "start", "PtyRead", "PtyWrite", "PtyResize", "PtyWait", "input",
                       "close"}
         /\ exitCode = "child" => child = "exited"
         /\ exitCode = "unknown" => child = "lost"
         /\ exitCode = "zero" => localExit
         /\ HandleTypes /\ HandleInv
  BY DEF IInv, Looping, TypeOK, MainTypes, VerdictInv, SessionInv, PolicyObeyed, Live

LEMMA EndOfLoop ==
  ASSUME IInv, Looping
  PROVE  /\ \A code \in {"child", "unknown"} :
              TryWait(code) /\ EndsAs(code) /\ UNCHANGED session => Ends
         /\ EndsLocally /\ UNCHANGED session => Ends
         /\ \A boundary \in {"input", "close", "PtyWrite"} :
              EndsFatally(boundary) /\ UNCHANGED session => Ends
<1>1. ASSUME NEW code \in {"child", "unknown"}, TryWait(code), EndsAs(code), UNCHANGED session
      PROVE  Ends
  <2>1. code = "child" => child = "exited" BY <1>1, InLoop, TryWaitKnows
  <2>2. code = "unknown" => child = "lost" BY <1>1, InLoop, TryWaitKnows
  <2>3. QED BY <1>1, <2>1, <2>2, InLoop DEF EndsAs, Ends, Verdict
<1>2. ASSUME EndsLocally, UNCHANGED session PROVE Ends
  BY <1>2, InLoop DEF EndsLocally, Ends, Verdict
<1>3. ASSUME NEW boundary \in {"input", "close", "PtyWrite"}, EndsFatally(boundary),
             UNCHANGED session
      PROVE  Ends
  BY <1>3, InLoop DEF EndsFatally, Ends, Verdict
<1>4. QED BY <1>1, <1>2, <1>3

LEMMA FailureOfLoop ==
  ASSUME IInv, Looping
  PROVE  /\ \A b \in {"PtyRead", "PtyWait"} :
              FailsFatally(b, handleFatalBoundary(session)) => Ends
         /\ \A b \in {"PtyRead", "PtyWait"} :
              FailsFatally(b, handleBoundary(session, b)) => Ends
         /\ \A b \in {"PtyWrite", "PtyResize"} : BoundaryFails(b) => GoesOn \/ Ends
         /\ Recovered => GoesOn
<1> USE InLoop
<1>1. ASSUME NEW b \in {"PtyRead", "PtyWait"}, FailsFatally(b, handleFatalBoundary(session))
      PROVE  Ends
  <2>1. LET r == handleFatalBoundary(session)
        IN r.outcome = "BoundaryFatal" /\ r.session \in Controllers
    BY FatalOfLive
  <2>2. QED BY <1>1, <2>1 DEF FailsFatally, EndsFatally, Ends, Verdict
<1>2. ASSUME NEW b \in {"PtyRead", "PtyWait"}, FailsFatally(b, handleBoundary(session, b))
      PROVE  Ends
  <2>1. b \in Boundaries BY DEF Boundaries
  <2>2. LET r == handleBoundary(session, b)
        IN r.outcome # "refused" /\ r.session \in Controllers
    BY <2>1, BoundaryOfLive
  <2>3. QED BY <1>2, <2>2 DEF FailsFatally, EndsFatally, Ends, Verdict
<1>3. ASSUME NEW b \in {"PtyWrite", "PtyResize"}, BoundaryFails(b) PROVE GoesOn \/ Ends
  <2> DEFINE r == handleBoundary(session, b)
  <2>1. b \in Boundaries BY DEF Boundaries
  <2>2. /\ r.session \in Controllers
        /\ \/ r.outcome = "RetryCurrentPath" /\ r.session.state = "Degraded"
           \/ r.outcome \in {"BudgetExhausted", "BoundaryFatal"}
    BY <2>1, BoundaryOfLive
  <2> HIDE DEF r
  <2>3. IF r.outcome \in {"RetryCurrentPath", "SwitchShell"}
        THEN session' = r.session /\ pc' = "poll" /\ UNCHANGED verdict
        ELSE FailsFatally(b, r)
    BY <1>3 DEF BoundaryFails, r
  <2>4. CASE r.outcome = "RetryCurrentPath" BY <2>2, <2>3, <2>4 DEF GoesOn, verdict
  <2>5. CASE r.outcome \in {"BudgetExhausted", "BoundaryFatal"}
    <3>1. FailsFatally(b, r) BY <2>3, <2>5
    <3>2. session' \in Controllers /\ EndsFatally(b) BY <2>2, <2>5, <3>1 DEF FailsFatally
    <3>3. QED BY <3>2 DEF EndsFatally, Ends, Verdict
  <2>6. QED BY <2>2, <2>4, <2>5
<1>4. ASSUME Recovered PROVE GoesOn
  BY <1>4, RunningAfterMark DEF Recovered, GoesOn, verdict
<1>5. QED BY <1>1, <1>2, <1>3, <1>4

LEMMA CloseOfLoop ==
  ASSUME IInv, Looping, CloseAndEnd, UNCHANGED session
  PROVE  /\ Ends
         /\ cached' \in {"none", "child", "unknown"} /\ signalled' \in {"no", "yes", "refused"}
         /\ cached' = "child" => child = "exited"
<1>1. CASE Terminate(TRUE) /\ EndsLocally BY <1>1, InLoop, EndOfLoop, TerminateSignals
<1>2. CASE Terminate(FALSE) /\ EndsFatally("close") BY <1>2, InLoop, EndOfLoop, TerminateSignals
<1>3. QED BY <1>1, <1>2 DEF CloseAndEnd

(* What a step of the loop leaves alone when it does not touch it.          *)
LEMMA LoopRest ==
  ASSUME IInv
  PROVE  /\ UNCHANGED polling => mode' \in Modes /\ timeout' \in MinTimeout .. MaxTimeoutOf[mode']
         /\ UNCHANGED handle =>
              /\ cached' \in {"none", "child", "unknown"} /\ signalled' \in {"no", "yes", "refused"}
              /\ cached' = "child" => child = "exited"
         /\ UNCHANGED signalled => signalled' \in {"no", "yes", "refused"}
         /\ UNCHANGED signal => signal' \in {"none", "stdout", "failure"}
         /\ MinTimeout \in MinTimeout .. MaxTimeoutOf[mode]
         /\ UNCHANGED mode => MinTimeout \in MinTimeout .. MaxTimeoutOf[mode']
         /\ mode \in Modes
<1>1. mode \in Modes /\ MaxTimeoutOf[mode] \in Nat /\ MaxTimeoutOf[mode] >= MinTimeout
      /\ MinTimeout \in Nat
  BY TtyAssumption DEF IInv, TypeOK, MainTypes
<1>2. QED
  BY <1>1 DEF IInv, TypeOK, MainTypes, HandleTypes, StreamTypes, HandleInv, polling, handle

LEMMA LoopSteps ==
  ASSUME IInv, PollChild \/ NoSignal \/ ReaderSignals \/ StdoutDisconnects \/ TerminalEvent
  PROVE  Looping /\ LoopStep
<1> USE LoopRest
<1>k. ASSUME NEW result, TryWait(result), UNCHANGED signalled
      PROVE  /\ cached' \in {"none", "child", "unknown"} /\ signalled' \in {"no", "yes", "refused"}
             /\ cached' = "child" => child = "exited"
  BY <1>k, TryWaitKnows DEF IInv, TypeOK
<1>1. CASE PollChild
  <2>1. Looping BY <1>1 DEF PollChild, Looping
  <2>2. UNCHANGED <<child, slave, written, taken, shown, overdue, pump, broken, signal, mode,
                    timeout, signalled>>
    BY <1>1 DEF PollChild, process, stream, polling
  <2>3. CASE TryWait("running") /\ pc' = "signals" /\ UNCHANGED <<session, verdict>>
    <3>1. GoesOn BY <2>1, <2>3, InLoop DEF GoesOn, verdict
    <3>2. QED BY <1>k, <2>1, <2>2, <2>3, <3>1 DEF LoopStep, polling
  <2>4. ASSUME NEW code \in {"child", "unknown"}, TryWait(code), EndsAs(code), UNCHANGED session
        PROVE  Looping /\ LoopStep
    BY <1>k, <2>1, <2>2, <2>4, EndOfLoop DEF LoopStep, polling
  <2>5. CASE TryWait("error") /\ FailsFatally("PtyWait", handleBoundary(session, "PtyWait"))
    BY <1>k, <2>1, <2>2, <2>5, FailureOfLoop DEF LoopStep, polling
  <2>6. QED BY <1>1, <2>3, <2>4, <2>5 DEF PollChild
<1>2. CASE NoSignal
  <2>1. Looping BY <1>2 DEF NoSignal, Looping
  <2>2. GoesOn BY <1>2, <2>1, InLoop DEF NoSignal, GoesOn, verdict
  <2>3. QED BY <1>2, <2>1, <2>2 DEF NoSignal, LoopStep, process, stream
<1>3. CASE ReaderSignals
  <2>1. Looping BY <1>3 DEF ReaderSignals, Looping
  <2>2. /\ UNCHANGED <<child, slave, written, taken, shown, overdue, pump, broken, mode, timeout,
                       signalled>>
        /\ signal' \in {"none", "stdout", "failure"}
    BY <1>3 DEF ReaderSignals, process, stream, polling
  <2>3. ASSUME NEW code \in {"child", "unknown"}, TryWait(code), EndsAs(code), UNCHANGED session
        PROVE  Looping /\ LoopStep
    BY <1>k, <2>1, <2>2, <2>3, EndOfLoop DEF LoopStep, polling
  <2>4. CASE TryWait("running") /\ FailsFatally("PtyRead", handleFatalBoundary(session))
    BY <1>k, <2>1, <2>2, <2>4, FailureOfLoop DEF LoopStep, polling
  <2>5. CASE TryWait("error") /\ FailsFatally("PtyWait", handleBoundary(session, "PtyWait"))
    BY <1>k, <2>1, <2>2, <2>5, FailureOfLoop DEF LoopStep, polling
  <2>6. QED BY <1>3, <2>3, <2>4, <2>5 DEF ReaderSignals, ReaderLost
<1>4. CASE StdoutDisconnects
  <2>1. Looping BY <1>4 DEF StdoutDisconnects, Looping
  <2>2. /\ UNCHANGED <<child, slave, written, taken, shown, overdue, pump, broken, mode, timeout,
                       session>>
        /\ signal' \in {"none", "stdout", "failure"} /\ CloseAndEnd
    BY <1>4 DEF StdoutDisconnects, process, stream, polling
  <2>3. QED BY <2>1, <2>2, CloseOfLoop DEF LoopStep, polling
<1>5. CASE TerminalEvent
  <2>1. Looping
    BY <1>5 DEF TerminalEvent, IdlePoll, InputDisconnects, InputFails, LocalShutdownKey, PaletteKey,
         KeyWritten, KeyWriteFails, Resized, ResizeFails, Event, Looping
  <2>2. UNCHANGED <<child, slave, written, taken, shown, overdue, pump, broken, signal>>
    BY <1>5 DEF TerminalEvent, IdlePoll, InputDisconnects, InputFails, LocalShutdownKey, PaletteKey,
         KeyWritten, KeyWriteFails, Resized, ResizeFails, Event, process, stream
  <2>3. CASE IdlePoll
    <3>1. GoesOn BY <2>1, <2>3, InLoop DEF IdlePoll, GoesOn, verdict
    <3>2. mode' = mode /\ timeout' \in MinTimeout .. MaxTimeoutOf[mode]
      <4>1. /\ MaxTimeoutOf[mode] \in Nat /\ MinTimeout \in Nat
            /\ timeout \in MinTimeout .. MaxTimeoutOf[mode]
        BY TtyAssumption DEF IInv, TypeOK, MainTypes
      <4>2. QED BY <2>3, <4>1 DEF IdlePoll
    <3>3. UNCHANGED handle BY <2>3 DEF IdlePoll
    <3>4. QED BY <2>1, <2>2, <3>1, <3>2, <3>3 DEF LoopStep
  <2>4. CASE InputDisconnects
    <3>1. UNCHANGED <<mode, timeout, session>> BY <2>4 DEF InputDisconnects, polling
    <3>2. ASSUME NEW code \in {"child", "unknown"}, TryWait(code), EndsAs(code), UNCHANGED signalled
          PROVE  Looping /\ LoopStep
      BY <1>k, <2>1, <2>2, <3>1, <3>2, EndOfLoop DEF LoopStep, polling
    <3>3. CASE TryWait("error") /\ EndsFatally("input") /\ UNCHANGED signalled
      BY <1>k, <2>1, <2>2, <3>1, <3>3, EndOfLoop DEF LoopStep, polling
    <3>4. CASE CloseAndEnd BY <2>1, <2>2, <3>1, <3>4, CloseOfLoop DEF LoopStep, polling
    <3>5. QED BY <2>4, <3>2, <3>3, <3>4 DEF InputDisconnects
  <2>5. CASE InputFails
    BY <2>1, <2>2, <2>5, EndOfLoop DEF InputFails, LoopStep
  <2>6. CASE LocalShutdownKey
    <3>1. Ends BY <2>1, <2>6, InLoop DEF LocalShutdownKey, Ends, Verdict
    <3>2. QED BY <2>1, <2>2, <2>6, <3>1 DEF LocalShutdownKey, Event, LoopStep
  <2>7. CASE PaletteKey
    <3>1. GoesOn BY <2>1, <2>7, InLoop DEF PaletteKey, GoesOn, verdict
    <3>2. mode' \in Modes /\ timeout' \in MinTimeout .. MaxTimeoutOf[mode']
      <4>1. mode' \in Modes /\ timeout' = MinTimeout BY <2>7 DEF PaletteKey, Event
      <4>2. MaxTimeoutOf[mode'] \in Nat /\ MaxTimeoutOf[mode'] >= MinTimeout /\ MinTimeout \in Nat
        BY <4>1, TtyAssumption
      <4>3. QED BY <4>1, <4>2
    <3>3. UNCHANGED handle BY <2>7 DEF PaletteKey
    <3>4. QED BY <2>1, <2>2, <3>1, <3>2, <3>3 DEF LoopStep
  <2>8. CASE KeyWritten \/ Resized
    BY <2>1, <2>2, <2>8, FailureOfLoop DEF KeyWritten, Resized, Event, LoopStep
  <2>9. CASE KeyWriteFails
    <3>1. UNCHANGED <<signalled, mode>> /\ timeout' = MinTimeout
      BY <2>9 DEF KeyWriteFails, Event
    <3>2. ASSUME NEW code \in {"child", "unknown"}, TryWait(code), EndsAs(code), UNCHANGED session
          PROVE  Looping /\ LoopStep
      BY <1>k, <2>1, <2>2, <3>1, <3>2, EndOfLoop DEF LoopStep
    <3>3. CASE TryWait("error") /\ EndsFatally("PtyWrite") /\ UNCHANGED session
      BY <1>k, <2>1, <2>2, <3>1, <3>3, EndOfLoop DEF LoopStep
    <3>4. CASE UNCHANGED cached /\ BoundaryFails("PtyWrite")
      BY <2>1, <2>2, <3>1, <3>4, FailureOfLoop DEF LoopStep, handle
    <3>5. QED BY <2>9, <3>2, <3>3, <3>4 DEF KeyWriteFails
  <2>10. CASE ResizeFails
    BY <2>1, <2>2, <2>10, FailureOfLoop DEF ResizeFails, Event, LoopStep
  <2>11. QED
    BY <1>5, <2>3, <2>4, <2>5, <2>6, <2>7, <2>8, <2>9, <2>10 DEF TerminalEvent
<1>6. QED BY <1>1, <1>2, <1>3, <1>4, <1>5

LEMMA LoopKeeps ==
  ASSUME IInv, Looping, LoopStep
  PROVE  IInv'
<1>1. TypeOK'
  BY DEF IInv, TypeOK, StreamTypes, HandleTypes, MainTypes, LoopStep, GoesOn, Ends, Verdict
<1>2. StreamInv' BY DEF IInv, StreamInv, LoopStep, GoesOn, Ends
<1>3. HandleInv' BY DEF IInv, HandleInv, LoopStep, GoesOn, Ends
<1>4. VerdictInv'
  <2>1. CASE GoesOn BY <2>1 DEF IInv, VerdictInv, LoopEndsWithVerdict, LoopStep, GoesOn
  <2>2. CASE Ends BY <2>2 DEF VerdictInv, LoopEndsWithVerdict, LoopStep, Ends, Verdict
  <2>3. QED BY <2>1, <2>2 DEF LoopStep
<1>5. SessionInv' BY DEF IInv, SessionInv, PolicyObeyed, LoopStep, GoesOn, Ends, Verdict
<1>6. QED BY <1>1, <1>2, <1>3, <1>4, <1>5 DEF IInv

----------------------------------------------------------------------------
(* The other steps.                                                         *)

LEMMA InitInv == Init => IInv
<1> SUFFICES ASSUME Init PROVE IInv OBVIOUS
<1>1. session \in Controllers /\ session.state = "Starting"
  BY RecoverableBudgetAssumption DEF Init, newController, Controllers, SessionStates, Shells
<1>2. TypeOK
  <2>1. StreamTypes
    <3>1. 0 \in 0 .. MaxChunks /\ 0 \in 0 .. 0 BY TtyAssumption
    <3>2. QED BY <3>1 DEF Init, StreamTypes
  <2>2. HandleTypes /\ MainTypes BY <1>1 DEF Init, HandleTypes, MainTypes
  <2>3. timeout \in MinTimeout .. MaxTimeoutOf[mode] BY TtyAssumption DEF Init
  <2>4. QED BY <2>1, <2>2, <2>3 DEF TypeOK
<1>3. QED
  BY <1>1, <1>2 DEF Init, IInv, StreamInv, HandleInv, VerdictInv, LoopEndsWithVerdict, SessionInv,
     PolicyObeyed

(* The processes of the session.                                            *)
LEMMA SessionKeeps ==
  ASSUME IInv, ChildWrites \/ ChildEnds \/ ChildReapable \/ SlaveCloses
  PROVE  IInv'
<1>1. CASE ChildWrites
  <2>1. TypeOK' BY <1>1, TtyAssumption DEF ChildWrites, IInv, TypeOK, StreamTypes, HandleTypes,
       MainTypes, handle, stream, verdict, polling
  <2>2. StreamInv' BY <1>1 DEF ChildWrites, IInv, StreamInv, TypeOK, StreamTypes, stream
  <2>3. HandleInv' BY <1>1 DEF ChildWrites, IInv, HandleInv, TypeOK, HandleTypes, handle
  <2>4. VerdictInv' BY <1>1 DEF ChildWrites, IInv, VerdictInv, LoopEndsWithVerdict, verdict
  <2>5. SessionInv' BY <1>1 DEF ChildWrites, IInv, SessionInv, PolicyObeyed, verdict
  <2>6. QED BY <2>1, <2>2, <2>3, <2>4, <2>5 DEF IInv
<1>2. CASE ChildEnds
  <2>a. slave' \in BOOLEAN /\ (slave' => slave)
    <3>1. slave \in BOOLEAN BY DEF IInv, TypeOK, HandleTypes
    <3>2. slave' = slave \/ slave' = FALSE BY <1>2 DEF ChildEnds
    <3>3. CASE slave' = slave BY <3>1, <3>3
    <3>4. CASE slave' = FALSE BY <3>4
    <3>5. QED BY <3>2, <3>3, <3>4
  <2>1. TypeOK'
    <3>1. StreamTypes' BY <1>2, <2>a DEF ChildEnds, IInv, TypeOK, StreamTypes, HandleTypes,
         MainTypes, handle, stream, verdict, polling
    <3>2. HandleTypes' BY <1>2, <2>a DEF ChildEnds, IInv, TypeOK, StreamTypes, HandleTypes,
         MainTypes, handle, stream, verdict, polling
    <3>3. MainTypes' BY <1>2, <2>a DEF ChildEnds, IInv, TypeOK, StreamTypes, HandleTypes, MainTypes,
         handle, stream, verdict, polling
    <3>4. (timeout \in MinTimeout .. MaxTimeoutOf[mode])' BY <1>2, <2>a DEF ChildEnds, IInv, TypeOK,
         StreamTypes, HandleTypes, MainTypes, handle, stream, verdict, polling
    <3>5. QED BY <3>1, <3>2, <3>3, <3>4 DEF TypeOK
  <2>2. StreamInv' BY <1>2, <2>a DEF ChildEnds, IInv, StreamInv, TypeOK, StreamTypes, stream
  <2>3. HandleInv' BY <1>2, <2>a DEF ChildEnds, IInv, HandleInv, TypeOK, HandleTypes, handle
  <2>4. VerdictInv' BY <1>2, <2>a DEF ChildEnds, IInv, VerdictInv, LoopEndsWithVerdict, verdict
  <2>5. SessionInv' BY <1>2, <2>a DEF ChildEnds, IInv, SessionInv, PolicyObeyed, verdict
  <2>6. QED BY <2>1, <2>2, <2>3, <2>4, <2>5 DEF IInv
<1>3. CASE ChildReapable
  <2>1. TypeOK' BY <1>3 DEF ChildReapable, IInv, TypeOK, StreamTypes, HandleTypes, MainTypes,
       handle, stream, verdict, polling
  <2>2. StreamInv' BY <1>3 DEF ChildReapable, IInv, StreamInv, TypeOK, StreamTypes, stream
  <2>3. HandleInv' BY <1>3 DEF ChildReapable, IInv, HandleInv, TypeOK, HandleTypes, handle
  <2>4. VerdictInv' BY <1>3 DEF ChildReapable, IInv, VerdictInv, LoopEndsWithVerdict, verdict
  <2>5. SessionInv' BY <1>3 DEF ChildReapable, IInv, SessionInv, PolicyObeyed, verdict
  <2>6. QED BY <2>1, <2>2, <2>3, <2>4, <2>5 DEF IInv
<1>4. CASE SlaveCloses
  <2>1. TypeOK'
    <3>1. StreamTypes' BY <1>4 DEF SlaveCloses, IInv, TypeOK, StreamTypes, HandleTypes, MainTypes,
         handle, stream, verdict, polling
    <3>2. HandleTypes' BY <1>4 DEF SlaveCloses, IInv, TypeOK, StreamTypes, HandleTypes, MainTypes,
         handle, stream, verdict, polling
    <3>3. MainTypes' BY <1>4 DEF SlaveCloses, IInv, TypeOK, StreamTypes, HandleTypes, MainTypes,
         handle, stream, verdict, polling
    <3>4. (timeout \in MinTimeout .. MaxTimeoutOf[mode])' BY <1>4 DEF SlaveCloses, IInv, TypeOK,
         StreamTypes, HandleTypes, MainTypes, handle, stream, verdict, polling
    <3>5. QED BY <3>1, <3>2, <3>3, <3>4 DEF TypeOK
  <2>2. StreamInv' BY <1>4 DEF SlaveCloses, IInv, StreamInv, TypeOK, StreamTypes, stream
  <2>3. HandleInv' BY <1>4 DEF SlaveCloses, IInv, HandleInv, TypeOK, HandleTypes, handle
  <2>4. VerdictInv' BY <1>4 DEF SlaveCloses, IInv, VerdictInv, LoopEndsWithVerdict, verdict
  <2>5. SessionInv' BY <1>4 DEF SlaveCloses, IInv, SessionInv, PolicyObeyed, verdict
  <2>6. QED BY <2>1, <2>2, <2>3, <2>4, <2>5 DEF IInv
<1>5. QED BY <1>1, <1>2, <1>3, <1>4

(* The read pump, and time.                                                 *)
LEMMA PumpKeeps ==
  ASSUME IInv,
         \/ \E ends \in BOOLEAN : PumpTakes(ends)
         \/ PumpBreaks \/ PumpReadsEnd \/ PumpFinishes \/ IntervalPasses
  PROVE  IInv'
<1>1. CASE (\E ends \in BOOLEAN : PumpTakes(ends))
  <2>a. PICK ends \in BOOLEAN : PumpTakes(ends) BY <1>1
  <2>b. /\ MaxChunks \in Nat /\ written \in 0 .. MaxChunks /\ taken \in 0 .. written
        /\ shown \in 0 .. taken /\ taken < written
    BY <2>a, TtyAssumption DEF PumpTakes, IInv, TypeOK, StreamTypes
  <2>c. taken + 1 \in 0 .. written /\ shown \in 0 .. taken + 1 /\ taken + 1 \in 0 .. taken + 1
    BY <2>b
  <2>d. StreamTypes'
    <3>1. overdue \in BOOLEAN /\ pump \in {"none", "reading", "ended", "finished"}
          /\ broken \in BOOLEAN /\ signal \in {"none", "stdout", "failure"}
      BY DEF IInv, TypeOK, StreamTypes
    <3>2. /\ taken' = taken + 1
          /\ written' = written /\ pump' = pump /\ broken' = broken /\ signal' = signal
      BY <2>a DEF PumpTakes, process
    <3>3. CASE ends \/ overdue
      <4>1. shown' = taken + 1 /\ overdue' = FALSE BY <2>a, <3>3 DEF PumpTakes
      <4>2. QED BY <2>b, <2>c, <3>1, <3>2, <4>1 DEF StreamTypes
    <3>4. CASE ~(ends \/ overdue)
      <4>1. shown' = shown /\ overdue' = overdue BY <2>a, <3>4 DEF PumpTakes
      <4>2. QED BY <2>b, <2>c, <3>1, <3>2, <4>1 DEF StreamTypes
    <3>5. QED BY <3>3, <3>4
  <2>1. TypeOK'
    <3>1. StreamTypes' BY <2>d
    <3>2. HandleTypes' BY <1>1 DEF PumpTakes, IInv, TypeOK, StreamTypes, HandleTypes, MainTypes,
         process, handle, verdict, polling
    <3>3. MainTypes' BY <1>1 DEF PumpTakes, IInv, TypeOK, StreamTypes, HandleTypes, MainTypes,
         process, handle, verdict, polling
    <3>4. (timeout \in MinTimeout .. MaxTimeoutOf[mode])' BY <1>1 DEF PumpTakes, IInv, TypeOK,
         StreamTypes, HandleTypes, MainTypes, process, handle, verdict, polling
    <3>5. QED BY <3>1, <3>2, <3>3, <3>4 DEF TypeOK
  <2>2. StreamInv' BY <1>1 DEF PumpTakes, IInv, StreamInv, TypeOK, StreamTypes, process
  <2>3. HandleInv' BY <1>1 DEF PumpTakes, IInv, HandleInv, TypeOK, HandleTypes, process, handle
  <2>4. VerdictInv' BY <1>1 DEF PumpTakes, IInv, VerdictInv, LoopEndsWithVerdict, process, verdict
  <2>5. SessionInv' BY <1>1 DEF PumpTakes, IInv, SessionInv, PolicyObeyed, verdict
  <2>6. QED BY <2>1, <2>2, <2>3, <2>4, <2>5 DEF IInv
<1>2. CASE PumpBreaks
  <2>b. /\ written \in 0 .. MaxChunks /\ taken \in 0 .. written /\ shown \in 0 .. taken
        /\ overdue \in BOOLEAN /\ MaxChunks \in Nat
    BY TtyAssumption DEF IInv, TypeOK, StreamTypes
  <2>c. taken \in 0 .. taken /\ (taken < written => taken + 1 \in 0 .. written)
        /\ shown \in 0 .. taken + 1 /\ taken \in 0 .. taken + 1
    BY <2>b
  <2>d. StreamTypes'
    <3>1. ASSUME NEW kind \in {"stdout", "failure"}, PumpLosesStdout(kind) PROVE StreamTypes'
      <4>1. /\ taken < written /\ taken' = taken + 1 /\ shown' \in shown..taken
            /\ signal' = kind /\ pump' = "ended" /\ broken' = TRUE
            /\ written' = written /\ overdue' = overdue
        BY <3>1 DEF PumpLosesStdout, process
      <4>2. QED BY <2>b, <2>c, <4>1 DEF StreamTypes
    <3>2. CASE PumpReadFails
      <4>1. /\ taken' = taken /\ shown' \in shown..taken
            /\ signal' = "failure" /\ pump' = "ended" /\ broken' = TRUE
            /\ written' = written /\ overdue' = overdue
        BY <3>2 DEF PumpReadFails, process
      <4>2. QED BY <2>b, <2>c, <4>1 DEF StreamTypes
    <3>3. QED BY <1>2, <3>1, <3>2 DEF PumpBreaks
  <2>1. TypeOK'
    <3>1. StreamTypes' BY <2>d
    <3>2. HandleTypes' BY <1>2 DEF PumpBreaks, PumpLosesStdout, PumpReadFails, IInv, TypeOK,
         StreamTypes, HandleTypes, MainTypes, process, handle, verdict, polling
    <3>3. MainTypes' BY <1>2 DEF PumpBreaks, PumpLosesStdout, PumpReadFails, IInv, TypeOK,
         StreamTypes, HandleTypes, MainTypes, process, handle, verdict, polling
    <3>4. (timeout \in MinTimeout .. MaxTimeoutOf[mode])' BY <1>2 DEF PumpBreaks, PumpLosesStdout,
         PumpReadFails, IInv, TypeOK, StreamTypes, HandleTypes, MainTypes, process, handle, verdict,
         polling
    <3>5. QED BY <3>1, <3>2, <3>3, <3>4 DEF TypeOK
  <2>2. StreamInv' BY <1>2 DEF PumpBreaks, PumpLosesStdout, PumpReadFails, IInv, StreamInv, TypeOK,
       StreamTypes, process
  <2>3. HandleInv' BY <1>2 DEF PumpBreaks, PumpLosesStdout, PumpReadFails, IInv, HandleInv, TypeOK,
       HandleTypes, process, handle
  <2>4. VerdictInv' BY <1>2 DEF PumpBreaks, PumpLosesStdout, PumpReadFails, IInv, VerdictInv,
       LoopEndsWithVerdict, process, verdict
  <2>5. SessionInv' BY <1>2 DEF PumpBreaks, PumpLosesStdout, PumpReadFails, IInv, SessionInv,
       PolicyObeyed, verdict
  <2>6. QED BY <2>1, <2>2, <2>3, <2>4, <2>5 DEF IInv
<1>3. CASE PumpReadsEnd
  <2>1. TypeOK'
    <3>1. shown \in 0 .. taken /\ taken \in 0 .. written /\ written \in 0 .. MaxChunks
      BY DEF IInv, TypeOK, StreamTypes
    <3>2. shown' \in shown .. taken
      <4>1. taken \in shown .. taken BY <3>1, TtyAssumption
      <4> QED BY <1>3, <4>1 DEF PumpReadsEnd
    <3>3. shown' \in 0 .. taken BY <3>1, <3>2, TtyAssumption
    <3>4. StreamTypes' BY <1>3, <3>3 DEF PumpReadsEnd, IInv, TypeOK, StreamTypes, process
    <3>5. HandleTypes' /\ MainTypes' /\ (timeout \in MinTimeout .. MaxTimeoutOf[mode])'
      BY <1>3 DEF PumpReadsEnd, IInv, TypeOK, HandleTypes, MainTypes, process, handle, verdict, polling
    <3> QED BY <3>4, <3>5 DEF TypeOK
  <2>2. StreamInv' BY <1>3 DEF PumpReadsEnd, IInv, StreamInv, TypeOK, StreamTypes, process
  <2>3. HandleInv' BY <1>3 DEF PumpReadsEnd, IInv, HandleInv, TypeOK, HandleTypes, process, handle
  <2>4. VerdictInv' BY <1>3 DEF PumpReadsEnd, IInv, VerdictInv, LoopEndsWithVerdict, process,
       verdict
  <2>5. SessionInv' BY <1>3 DEF PumpReadsEnd, IInv, SessionInv, PolicyObeyed, verdict
  <2>6. QED BY <2>1, <2>2, <2>3, <2>4, <2>5 DEF IInv
<1>4. CASE PumpFinishes
  <2>1. TypeOK' BY <1>4 DEF PumpFinishes, IInv, TypeOK, StreamTypes, HandleTypes, MainTypes,
       process, handle, verdict, polling
  <2>2. StreamInv' BY <1>4 DEF PumpFinishes, IInv, StreamInv, TypeOK, StreamTypes, process
  <2>3. HandleInv' BY <1>4 DEF PumpFinishes, IInv, HandleInv, TypeOK, HandleTypes, process, handle
  <2>4. VerdictInv' BY <1>4 DEF PumpFinishes, IInv, VerdictInv, LoopEndsWithVerdict, process,
       verdict
  <2>5. SessionInv' BY <1>4 DEF PumpFinishes, IInv, SessionInv, PolicyObeyed, verdict
  <2>6. QED BY <2>1, <2>2, <2>3, <2>4, <2>5 DEF IInv
<1>5. CASE IntervalPasses
  <2>1. TypeOK' BY <1>5 DEF IntervalPasses, IInv, TypeOK, StreamTypes, HandleTypes, MainTypes,
       process, handle, verdict, polling
  <2>2. StreamInv' BY <1>5 DEF IntervalPasses, IInv, StreamInv, TypeOK, StreamTypes, process
  <2>3. HandleInv' BY <1>5 DEF IntervalPasses, IInv, HandleInv, TypeOK, HandleTypes, process, handle
  <2>4. VerdictInv' BY <1>5 DEF IntervalPasses, IInv, VerdictInv, LoopEndsWithVerdict, process,
       verdict
  <2>5. SessionInv' BY <1>5 DEF IntervalPasses, IInv, SessionInv, PolicyObeyed, verdict
  <2>6. QED BY <2>1, <2>2, <2>3, <2>4, <2>5 DEF IInv
<1>6. QED BY <1>1, <1>2, <1>3, <1>4, <1>5

(* The main thread outside of its loop.                                     *)
LEMMA EdgesKeep ==
  ASSUME IInv,
         \/ StartFails \/ Spawn \/ TakeReader \/ TakeWriter \/ TakeFails \/ DropHandle
         \/ Conclude \/ Close \/ Join
  PROVE  IInv'
<1>1. CASE StartFails
  <2>1. TypeOK' BY <1>1 DEF StartFails, IInv, TypeOK, StreamTypes, HandleTypes, MainTypes, process,
       handle, stream, polling
  <2>2. StreamInv' BY <1>1 DEF StartFails, IInv, StreamInv, TypeOK, StreamTypes, process, stream
  <2>3. HandleInv' BY <1>1 DEF StartFails, IInv, HandleInv, TypeOK, HandleTypes, process, handle
  <2>4. VerdictInv' BY <1>1 DEF StartFails, IInv, VerdictInv, LoopEndsWithVerdict, process
  <2>5. SessionInv' BY <1>1 DEF StartFails, IInv, SessionInv, PolicyObeyed
  <2>6. QED BY <2>1, <2>2, <2>3, <2>4, <2>5 DEF IInv
<1>2. CASE Spawn
  <2>1. TypeOK' BY <1>2 DEF Spawn, HandleInv, IInv, TypeOK, StreamTypes, HandleTypes, MainTypes,
       handle, stream, verdict, polling
  <2>2. StreamInv' BY <1>2 DEF Spawn, HandleInv, IInv, StreamInv, TypeOK, StreamTypes, stream
  <2>3. HandleInv' BY <1>2 DEF Spawn, HandleInv, IInv, HandleInv, TypeOK, HandleTypes, handle
  <2>4. VerdictInv' BY <1>2 DEF Spawn, HandleInv, IInv, VerdictInv, LoopEndsWithVerdict, verdict
  <2>5. SessionInv' BY <1>2 DEF Spawn, HandleInv, IInv, SessionInv, PolicyObeyed, verdict
  <2>6. QED BY <2>1, <2>2, <2>3, <2>4, <2>5 DEF IInv
<1>3. CASE TakeReader
  <2>1. TypeOK' BY <1>3, TryWaitKnows DEF TakeReader, IInv, TypeOK, StreamTypes, HandleTypes,
       MainTypes, process, stream, verdict, polling
  <2>2. StreamInv' BY <1>3 DEF TakeReader, IInv, StreamInv, TypeOK, StreamTypes, process, stream
  <2>3. HandleInv' BY <1>3, TryWaitKnows DEF TakeReader, IInv, HandleInv, TypeOK, HandleTypes,
       process
  <2>4. VerdictInv' BY <1>3 DEF TakeReader, IInv, VerdictInv, LoopEndsWithVerdict, process, verdict
  <2>5. SessionInv' BY <1>3 DEF TakeReader, IInv, SessionInv, PolicyObeyed, verdict
  <2>6. QED BY <2>1, <2>2, <2>3, <2>4, <2>5 DEF IInv
<1>4. CASE TakeWriter
  <2>a. session' \in Controllers /\ session'.state = "Running"
    <3>1. session \in Controllers /\ session.state = "Starting"
      BY <1>4 DEF TakeWriter, IInv, TypeOK, MainTypes, SessionInv
    <3>2. session' = markRunning(session).session BY <1>4 DEF TakeWriter
    <3>3. QED BY <3>1, <3>2, RunningAfterMark
  <2>1. TypeOK'
    <3>1. StreamTypes' BY <1>4, TryWaitKnows, <2>a DEF TakeWriter, IInv, TypeOK, StreamTypes,
         HandleTypes, MainTypes, process, verdict, polling
    <3>2. HandleTypes' BY <1>4, TryWaitKnows, <2>a DEF TakeWriter, IInv, TypeOK, StreamTypes,
         HandleTypes, MainTypes, process, verdict, polling
    <3>3. MainTypes' BY <1>4, TryWaitKnows, <2>a DEF TakeWriter, IInv, TypeOK, StreamTypes,
         HandleTypes, MainTypes, process, verdict, polling
    <3>4. (timeout \in MinTimeout .. MaxTimeoutOf[mode])' BY <1>4, TryWaitKnows, <2>a DEF
         TakeWriter, IInv, TypeOK, StreamTypes, HandleTypes, MainTypes, process, verdict, polling
    <3>5. QED BY <3>1, <3>2, <3>3, <3>4 DEF TypeOK
  <2>2. StreamInv' BY <1>4, <2>a DEF TakeWriter, IInv, StreamInv, TypeOK, StreamTypes, process
  <2>3. HandleInv' BY <1>4, TryWaitKnows, <2>a DEF TakeWriter, IInv, HandleInv, TypeOK, HandleTypes,
       process
  <2>4. VerdictInv' BY <1>4, <2>a DEF TakeWriter, IInv, VerdictInv, LoopEndsWithVerdict, process,
       verdict
  <2>5. SessionInv' BY <1>4, <2>a DEF TakeWriter, IInv, SessionInv, PolicyObeyed, verdict
  <2>6. QED BY <2>1, <2>2, <2>3, <2>4, <2>5 DEF IInv
<1>5. CASE TakeFails
  <2>1. TypeOK' BY <1>5, TryWaitKnows DEF TakeFails, IInv, TypeOK, StreamTypes, HandleTypes,
       MainTypes, process, stream, polling
  <2>2. StreamInv' BY <1>5 DEF TakeFails, IInv, StreamInv, TypeOK, StreamTypes, process, stream
  <2>3. HandleInv' BY <1>5, TryWaitKnows DEF TakeFails, IInv, HandleInv, TypeOK, HandleTypes,
       process
  <2>4. VerdictInv' BY <1>5 DEF TakeFails, IInv, VerdictInv, LoopEndsWithVerdict, process
  <2>5. SessionInv' BY <1>5 DEF TakeFails, IInv, SessionInv, PolicyObeyed
  <2>6. QED BY <2>1, <2>2, <2>3, <2>4, <2>5 DEF IInv
<1>6. CASE DropHandle
  <2>1. TypeOK' BY <1>6, TerminateSignals DEF DropHandle, IInv, TypeOK, StreamTypes, HandleTypes,
       MainTypes, process, stream, verdict, polling
  <2>2. StreamInv' BY <1>6 DEF DropHandle, IInv, StreamInv, TypeOK, StreamTypes, process, stream
  <2>3. HandleInv' BY <1>6, TerminateSignals DEF DropHandle, IInv, HandleInv, TypeOK, HandleTypes,
       process
  <2>4. VerdictInv' BY <1>6 DEF DropHandle, IInv, VerdictInv, LoopEndsWithVerdict, process, verdict
  <2>5. SessionInv' BY <1>6 DEF DropHandle, IInv, SessionInv, PolicyObeyed, verdict
  <2>6. QED BY <2>1, <2>2, <2>3, <2>4, <2>5 DEF IInv
<1>7. CASE Conclude
  <2>1. TypeOK' BY <1>7 DEF Conclude, IInv, TypeOK, StreamTypes, HandleTypes, MainTypes, process,
       handle, stream, polling
  <2>2. StreamInv' BY <1>7 DEF Conclude, IInv, StreamInv, TypeOK, StreamTypes, process, stream
  <2>3. HandleInv' BY <1>7 DEF Conclude, IInv, HandleInv, TypeOK, HandleTypes, process, handle
  <2>4. VerdictInv' BY <1>7 DEF Conclude, IInv, VerdictInv, LoopEndsWithVerdict, process
  <2>5. SessionInv' BY <1>7 DEF Conclude, IInv, SessionInv, PolicyObeyed
  <2>6. QED BY <2>1, <2>2, <2>3, <2>4, <2>5 DEF IInv
<1>8. CASE Close
  <2>1. TypeOK'
    <3>1. StreamTypes' BY <1>8, TerminateSignals DEF Close, IInv, TypeOK, StreamTypes, HandleTypes,
         MainTypes, process, stream, polling
    <3>2. HandleTypes' BY <1>8, TerminateSignals DEF Close, IInv, TypeOK, StreamTypes, HandleTypes,
         MainTypes, process, stream, polling
    <3>3. MainTypes' BY <1>8, TerminateSignals DEF Close, IInv, TypeOK, StreamTypes, HandleTypes,
         MainTypes, process, stream, polling
    <3>4. (timeout \in MinTimeout .. MaxTimeoutOf[mode])' BY <1>8, TerminateSignals DEF Close, IInv,
         TypeOK, StreamTypes, HandleTypes, MainTypes, process, stream, polling
    <3>5. QED BY <3>1, <3>2, <3>3, <3>4 DEF TypeOK
  <2>2. StreamInv' BY <1>8 DEF Close, IInv, StreamInv, TypeOK, StreamTypes, process, stream
  <2>3. HandleInv' BY <1>8, TerminateSignals DEF Close, IInv, HandleInv, TypeOK, HandleTypes,
       process
  <2>4. VerdictInv' BY <1>8 DEF Close, IInv, VerdictInv, LoopEndsWithVerdict, process
  <2>5. SessionInv' BY <1>8 DEF Close, IInv, SessionInv, PolicyObeyed
  <2>6. QED BY <2>1, <2>2, <2>3, <2>4, <2>5 DEF IInv
<1>9. CASE Join
  <2>1. TypeOK' BY <1>9 DEF Join, IInv, TypeOK, StreamTypes, HandleTypes, MainTypes, process,
       handle, stream, verdict, polling
  <2>2. StreamInv' BY <1>9 DEF Join, IInv, StreamInv, TypeOK, StreamTypes, process, stream
  <2>3. HandleInv' BY <1>9 DEF Join, IInv, HandleInv, TypeOK, HandleTypes, process, handle
  <2>4. VerdictInv' BY <1>9 DEF Join, IInv, VerdictInv, LoopEndsWithVerdict, process, verdict
  <2>5. SessionInv' BY <1>9 DEF Join, IInv, SessionInv, PolicyObeyed, verdict
  <2>6. QED BY <2>1, <2>2, <2>3, <2>4, <2>5 DEF IInv
<1>10. QED BY <1>1, <1>2, <1>3, <1>4, <1>5, <1>6, <1>7, <1>8, <1>9

LEMMA StepInv == IInv /\ [Next]_vars => IInv'
<1> SUFFICES ASSUME IInv, [Next]_vars PROVE IInv' OBVIOUS
<1>1. CASE UNCHANGED vars
  BY <1>1 DEF vars, process, handle, stream, verdict, polling, IInv, TypeOK, StreamTypes,
     HandleTypes, MainTypes, StreamInv, HandleInv, VerdictInv, LoopEndsWithVerdict, SessionInv,
     PolicyObeyed
<1>2. CASE PollChild \/ NoSignal \/ ReaderSignals \/ StdoutDisconnects \/ TerminalEvent
  BY <1>2, LoopSteps, LoopKeeps
<1>3. CASE ChildWrites \/ ChildEnds \/ ChildReapable \/ SlaveCloses BY <1>3, SessionKeeps
<1>4. CASE PumpRuns \/ PumpBreaks \/ IntervalPasses BY <1>4, PumpKeeps DEF PumpRuns
<1>5. CASE StartFails \/ Spawn \/ TakesHandles \/ Conclude \/ Close \/ Join
  BY <1>5, EdgesKeep DEF TakesHandles
<1>6. QED BY <1>1, <1>2, <1>3, <1>4, <1>5 DEF Next, MainLoop

----------------------------------------------------------------------------
(* The theorems.                                                            *)

(* The invariant holds in every reachable state.                            *)
THEOREM Invariance == Spec => []IInv
<1>1. QED BY InitInv, StepInv, PTL DEF Spec

(* The variables have their types; no more is shown than was taken, and the *)
(* wait for an event keeps within the limits of the mode (on_idle_poll).    *)
THEOREM TypeCorrectness == Spec => []TypeOK
<1>1. IInv => TypeOK BY DEF IInv
<1>2. QED BY Invariance, <1>1, PTL

(* The loop always ends with a verdict: the blocking wait after it is never *)
(* reached (run_interactive_pty).                                           *)
THEOREM NoBlockingWait == Spec => []LoopEndsWithVerdict
<1>1. IInv => LoopEndsWithVerdict BY DEF IInv, VerdictInv
<1>2. QED BY Invariance, <1>1, PTL

(* What the call answers is what happened (exit_code, requested_local_exit).*)
THEOREM HonestResult == Spec => []ResultIsHonest
<1>1. IInv => ResultIsHonest BY DEF IInv, VerdictInv, ResultIsHonest, Ended
<1>2. QED BY Invariance, <1>1, PTL

(* No way out of the call leaves a running child without a signal (close    *)
(* after the loop, Drop before it).                                         *)
THEOREM NoChildLeft == Spec => []ChildNotLeft
<1>1. IInv => ChildNotLeft BY DEF IInv, HandleInv, ChildNotLeft, Ended
<1>2. QED BY Invariance, <1>1, PTL

(* A joined pump has shown all the session wrote, unless the PTY or stdout  *)
(* failed it, the flush after its loop included.                            *)
THEOREM NothingLeftInBuffer == Spec => []JoinedPumpShowedAll
<1>1. IInv => JoinedPumpShowedAll BY DEF IInv, StreamInv, JoinedPumpShowedAll
<1>2. QED BY Invariance, <1>1, PTL

(* The session policy refuses the runtime nothing, and the loop runs only   *)
(* with a live session (handle_pty_boundary_failure).                       *)
THEOREM PolicyIsObeyed == Spec => []PolicyObeyed
<1>1. IInv => PolicyObeyed BY DEF IInv, SessionInv
<1>2. QED BY Invariance, <1>1, PTL

(* The loop runs only with a live session and ends only with a verdict.     *)
THEOREM LoopKeepsToPolicy == Spec => []LoopKeepsPolicy
<1>1. LoopKeepsPolicy <=> LoopEndsWithVerdict /\ PolicyObeyed BY DEF LoopKeepsPolicy
<1>2. QED BY <1>1, NoBlockingWait, PolicyIsObeyed, PTL

(* Neither a child nor output is left behind.                               *)
THEOREM LeavesNothing == Spec => []NothingIsLeft
<1>1. NothingIsLeft <=> ChildNotLeft /\ JoinedPumpShowedAll BY DEF NothingIsLeft
<1>2. QED BY <1>1, NoChildLeft, NothingLeftInBuffer, PTL

=============================================================================
