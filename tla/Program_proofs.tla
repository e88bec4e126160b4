---------------------------- MODULE Program_proofs ----------------------------
(***************************************************************************)
(* Theorems about the session of UiSession, for every budget of failures,  *)
(* and about Program, for every budget, rate, text and command line. One   *)
(* lemma for each method of the session controller says all that it leaves *)
(* and answers; the invariant adds what the commands rely on: a session    *)
(* that never started has no shell, and a fallback to zsh happens before   *)
(* the first start. The session of the UI runtime takes only steps of      *)
(* UiSession, so that the theorems about it hold in the program; the       *)
(* settings and the render mode are followed from the command line to the  *)
(* palette of each runtime; the two clipboards are compared with the last  *)
(* copy.                                                                   *)
(***************************************************************************)
EXTENDS Program, TLAPS

----------------------------------------------------------------------------
(* The session of the UI runtime.                                          *)

(* A session has a shell exactly when it started and does not stop; a       *)
(* degraded session that never started has none.                            *)
ShellFollowsState ==
  /\ session.state \in {"Starting", "Stopping", "Stopped"} => session.active = "none"
  /\ session.state = "Running" => session.active # "none"

IInv == TypeOK /\ BudgetBoundsFailures /\ ShellFollowsState /\ RefusedOnlyWhenStopped

----------------------------------------------------------------------------
(* The methods of the controller.                                           *)

LEMMA Starts ==
  ASSUME session \in Controllers, session.state \in {"Starting", "Degraded"}
  PROVE  LET r == markRunning(session)
         IN /\ r.outcome = "Started" /\ r.session \in Controllers
            /\ r.session.state = "Running" /\ r.session.failures = 0
            /\ r.session.active # "none" /\ r.session.requested = session.requested
            /\ session.active # "none" => r.session.active = session.active
<1> DEFINE r == markRunning(session)
<1>1. 0 \in 0 .. RecoverableBudget BY RecoverableBudgetAssumption
<1>2. r = answer([session EXCEPT !.state = "Running", !.failures = 0,
                    !.active = IF session.active = "none" THEN session.requested
                               ELSE session.active], "Started")
  BY DEF markRunning
<1>3. /\ r.outcome = "Started"
      /\ r.session = [session EXCEPT !.state = "Running", !.failures = 0,
                        !.active = IF session.active = "none" THEN session.requested
                                   ELSE session.active]
  BY <1>2 DEF answer
<1>4. session.requested \in Shells /\ session.active \in Shells \cup {"none"} /\ "none" \notin Shells
  BY DEF Controllers, Shells
<1>5. r.session.state = "Running" /\ r.session.failures = 0 /\ r.session.requested = session.requested
  BY <1>3 DEF Controllers
<1>6. r.session.active = IF session.active = "none" THEN session.requested ELSE session.active
  BY <1>3 DEF Controllers
<1>7. r.session \in Controllers BY <1>1, <1>3, <1>4 DEF Controllers, SessionStates
<1>8. QED BY <1>3, <1>4, <1>5, <1>6, <1>7

LEMMA FatalStops ==
  ASSUME session \in Controllers
  PROVE  LET r == handleFatalBoundary(session)
         IN \/ session.state = "Stopped" /\ r.outcome = "refused" /\ r.session = session
            \/ /\ session.state # "Stopped" /\ r.outcome = "BoundaryFatal"
               /\ r.session \in Controllers
               /\ r.session.state = "Stopping" /\ r.session.active = "none"
  BY DEF handleFatalBoundary, stopping, refused, answer, Controllers, SessionStates, Shells

LEMMA RecoverableSurvivesOrStops ==
  ASSUME session \in Controllers, session.state \in Live
  PROVE  LET r == applyRecoverable(session)
         IN \/ /\ r.outcome = "BudgetExhausted" /\ r.session \in Controllers
               /\ r.session.state = "Stopping" /\ r.session.active = "none"
            \/ /\ r.outcome \in {"RetryCurrentPath", "SwitchShell"}
               /\ r.session \in Controllers /\ r.session.state = "Degraded"
               /\ session.failures < RecoverableBudget
               /\ r.session.failures = session.failures + 1
               /\ r.session.active = session.active
               /\ session.state # "Starting" => r.session.requested = session.requested
<1>1. session.failures \in Nat /\ RecoverableBudget \in Nat
  BY RecoverableBudgetAssumption DEF Controllers
<1>2. CASE session.failures >= RecoverableBudget
  BY <1>2 DEF applyRecoverable, stopping, answer, Controllers, SessionStates, Shells
<1>3. CASE session.failures < RecoverableBudget
  <2>1. ~(session.failures >= RecoverableBudget) /\ session.failures + 1 \in 0 .. RecoverableBudget
    BY <1>1, <1>3
  <2>2. QED BY <2>1, <1>3 DEF applyRecoverable, answer, Controllers, SessionStates, Shells
<1>4. QED BY <1>1, <1>2, <1>3

LEMMA BoundaryAnswers ==
  ASSUME session \in Controllers, NEW boundary \in Boundaries
  PROVE  handleBoundary(session, boundary) =
           IF isRecoverable(boundary, session.state)
           THEN applyRecoverable(session) ELSE handleFatalBoundary(session)
  BY DEF handleBoundary

----------------------------------------------------------------------------
(* The steps.                                                               *)

(* What every command does, in the terms of the properties: each step is    *)
(* one of five kinds.                                                       *)
Started ==
  /\ session.state \in {"Starting", "Degraded"} /\ session'.state = "Running"
  /\ session'.failures = 0 /\ session'.requested = session.requested
  /\ session'.active # "none"
  /\ session.active # "none" => session'.active = session.active
  /\ survived' = 0 /\ receipt' = [outcome |-> "Started", boundary |-> "none"]

Survived ==
  /\ session.state \in Live /\ session'.state = "Degraded"
  /\ session.failures < RecoverableBudget /\ session'.failures = session.failures + 1
  /\ session'.active = session.active
  /\ session.state # "Starting" => session'.requested = session.requested
  /\ survived' = survived + 1 /\ receipt'.outcome \in {"RetryCurrentPath", "SwitchShell"}

Stops ==
  /\ session.state # "Stopped" /\ session'.state = "Stopping" /\ session'.active = "none"
  /\ survived' = survived
  /\ receipt'.outcome \in {"BudgetExhausted", "BoundaryFatal", "StopRequested"}

HasStopped ==
  /\ session.state \in {"Stopping", "Stopped"}
  /\ session'.state = "Stopped" /\ session'.active = "none"
  /\ survived' = survived /\ receipt'.outcome = "Stopped"

Unchanged ==
  /\ session' = session /\ survived' = survived
  /\ receipt'.outcome \in {"Noop", "refused"}
  /\ receipt'.outcome = "refused" => session.state = "Stopped" /\ receipt'.boundary # "none"

LEMMA StepKinds ==
  ASSUME IInv, Next
  PROVE  /\ session' \in Controllers
         /\ receipt' \in [outcome : Outcomes, boundary : Boundaries \cup {"none"}]
         /\ Started \/ Survived \/ Stops \/ HasStopped \/ Unchanged
<1> USE DEF IInv, TypeOK
<1>a. "none" \notin Boundaries BY DEF Boundaries
<1>1. CASE Tick
  <2>1. CASE session.state \in {"Starting", "Degraded"} /\ Takes(markRunning(session), "none")
    BY <2>1, Starts DEF Takes, Started, Outcomes
  <2>2. CASE Noop BY <2>2 DEF Noop, Takes, answer, Unchanged, Outcomes
  <2>3. QED BY <1>1, <2>1, <2>2 DEF Tick
<1>2. ASSUME NEW boundary \in Boundaries, FatalBoundary(boundary)
      PROVE  session' \in Controllers
             /\ receipt' \in [outcome : Outcomes, boundary : Boundaries \cup {"none"}]
             /\ (Stops \/ Unchanged)
  BY <1>a, <1>2, FatalStops DEF FatalBoundary, Takes, Stops, Unchanged, Outcomes
<1>3. ASSUME NEW boundary \in Boundaries, RecoverableBoundary(boundary)
      PROVE  session' \in Controllers
             /\ receipt' \in [outcome : Outcomes, boundary : Boundaries \cup {"none"}]
             /\ (Survived \/ Stops \/ Unchanged)
  <2>1. CASE isRecoverable(boundary, session.state)
    <3>1. session.state \in Live BY <2>1 DEF isRecoverable, Live
    <3>2. Takes(applyRecoverable(session), boundary)
      BY <1>3, <2>1, BoundaryAnswers DEF RecoverableBoundary
    <3>3. QED BY <3>1, <3>2, RecoverableSurvivesOrStops DEF Takes, Survived, Stops, Outcomes, Live
  <2>2. CASE ~isRecoverable(boundary, session.state)
    <3>1. FatalBoundary(boundary)
      BY <1>3, <2>2, BoundaryAnswers DEF RecoverableBoundary, FatalBoundary
    <3>2. QED BY <1>2, <3>1
  <2>3. QED BY <2>1, <2>2
<1>4. CASE RequestStop
  <2>1. CASE session.state # "Stopped" /\ Takes(requestStop(session), "none")
    BY <2>1 DEF Takes, requestStop, stopping, answer, Stops, Outcomes, Controllers,
         SessionStates, Shells
  <2>2. CASE Noop BY <2>2 DEF Noop, Takes, answer, Unchanged, Outcomes
  <2>3. QED BY <1>4, <2>1, <2>2 DEF RequestStop
<1>5. CASE MarkStopped
  <2>1. CASE session.state \in {"Stopping", "Stopped"} /\ Takes(markStopped(session), "none")
    BY <2>1 DEF Takes, markStopped, answer, HasStopped, Outcomes, Controllers, SessionStates,
         Shells
  <2>2. CASE Noop BY <2>2 DEF Noop, Takes, answer, Unchanged, Outcomes
  <2>3. QED BY <1>5, <2>1, <2>2 DEF MarkStopped
<1>6. QED BY <1>1, <1>2, <1>3, <1>4, <1>5 DEF Next

LEMMA InitInv == Init => IInv
<1> SUFFICES ASSUME Init PROVE IInv OBVIOUS
<1>1. session \in Controllers
  BY RecoverableBudgetAssumption DEF Init, newController, Controllers, SessionStates, Shells
<1>2. TypeOK BY <1>1 DEF Init, TypeOK, Outcomes
<1>3. QED
  BY <1>2, RecoverableBudgetAssumption DEF Init, IInv, newController, BudgetBoundsFailures,
       ShellFollowsState, RefusedOnlyWhenStopped

LEMMA StepInv == IInv /\ [Next]_vars => IInv'
<1> SUFFICES ASSUME IInv, [Next]_vars PROVE IInv' OBVIOUS
<1>1. CASE UNCHANGED vars
  BY <1>1 DEF vars, IInv, TypeOK, BudgetBoundsFailures, ShellFollowsState, RefusedOnlyWhenStopped
<1>2. CASE Next
  <2>1. /\ session' \in Controllers
        /\ receipt' \in [outcome : Outcomes, boundary : Boundaries \cup {"none"}]
        /\ Started \/ Survived \/ Stops \/ HasStopped \/ Unchanged
    BY <1>2, StepKinds
  <2>2. survived \in Nat /\ survived <= RecoverableBudget /\ RecoverableBudget \in Nat
    BY RecoverableBudgetAssumption DEF IInv, TypeOK, BudgetBoundsFailures
  <2>3. TypeOK'
    BY <2>1, <2>2 DEF TypeOK, Started, Survived, Stops, HasStopped, Unchanged
  <2>4. BudgetBoundsFailures'
    BY <2>1, <2>2 DEF IInv, BudgetBoundsFailures, Live, Started, Survived, Stops, HasStopped,
         Unchanged
  <2>5. ShellFollowsState'
    BY <2>1 DEF IInv, ShellFollowsState, Live, Started, Survived, Stops, HasStopped, Unchanged
  <2>6. RefusedOnlyWhenStopped'
    BY <2>1 DEF RefusedOnlyWhenStopped, Started, Survived, Stops, HasStopped, Unchanged
  <2>7. QED BY <2>3, <2>4, <2>5, <2>6 DEF IInv
<1>3. QED BY <1>1, <1>2

----------------------------------------------------------------------------
(* The theorems.                                                            *)

(* The invariant holds in every reachable state, for every budget.          *)
THEOREM Invariance == Spec => []IInv
<1>1. QED BY InitInv, StepInv, PTL DEF Spec

(* The variables have their types: no order of commands makes a controller  *)
(* count more failures than its budget (apply_recoverable_boundary).        *)
THEOREM TypeCorrectness == Spec => []TypeOK
<1>1. IInv => TypeOK BY DEF IInv
<1>2. QED BY Invariance, <1>1, PTL

(* A session survives no more failures in a row than its budget, and a live *)
(* one counts exactly those it survived since its last start.               *)
THEOREM BudgetIsKept == Spec => []BudgetBoundsFailures
<1>1. IInv => BudgetBoundsFailures BY DEF IInv
<1>2. QED BY Invariance, <1>1, PTL

(* A command is refused only for a boundary of a session that has stopped   *)
(* (handle_command).                                                        *)
THEOREM RefusalsMeanStopped == Spec => []RefusedOnlyWhenStopped
<1>1. IInv => RefusedOnlyWhenStopped BY DEF IInv
<1>2. QED BY Invariance, <1>1, PTL

(* A session that begins to stop never comes back (handle_fatal_boundary).  *)
THEOREM StoppingIsFinal == Spec => StoppingStays
<1>1. IInv /\ [Next]_vars =>
        [/\ session.state \in {"Stopping", "Stopped"} => session'.state \in {"Stopping", "Stopped"}
         /\ session.state = "Stopped" => session'.state = "Stopped"]_vars
  <2> SUFFICES ASSUME IInv, Next
               PROVE  /\ session.state \in {"Stopping", "Stopped"} =>
                           session'.state \in {"Stopping", "Stopped"}
                      /\ session.state = "Stopped" => session'.state = "Stopped"
    OBVIOUS
  <2>1. Started \/ Survived \/ Stops \/ HasStopped \/ Unchanged BY StepKinds
  <2>2. QED BY <2>1 DEF Started, Survived, Stops, HasStopped, Unchanged, Live
<1>2. QED BY Invariance, <1>1, PTL DEF Spec, StoppingStays

(* The shell of a started session stays until the session stops             *)
(* (start_succeeded, apply_recoverable_boundary).                           *)
THEOREM ShellStays == Spec => ShellIsSettled
<1>1. IInv /\ [Next]_vars =>
        [session.active # "none" /\ session'.state \in Live =>
           session'.active = session.active /\ session'.requested = session.requested]_vars
  <2> SUFFICES ASSUME IInv, Next, session.active # "none", session'.state \in Live
               PROVE  session'.active = session.active /\ session'.requested = session.requested
    OBVIOUS
  <2>1. Started \/ Survived \/ Stops \/ HasStopped \/ Unchanged BY StepKinds
  <2>2. session.state # "Starting" BY DEF IInv, ShellFollowsState
  <2>3. QED BY <2>1, <2>2 DEF Started, Survived, Stops, HasStopped, Unchanged, Live
<1>2. QED BY Invariance, <1>1, PTL DEF Spec, ShellIsSettled

----------------------------------------------------------------------------
(* The program.                                                            *)

----------------------------------------------------------------------------
(* The session.                                                             *)

(* Whoever sends the commands, the session of the program is a session of   *)
(* the UI runtime: the harness, the GUI runtime and its boundaries take no  *)
(* step that UiSession does not have.                                       *)
THEOREM ProgramRunsASession == ProgramSpec => Spec
<1>1. ProgramInit => Init BY DEF ProgramInit
<1>2. [ProgramNext]_programVars => [Next]_vars
  <2>1. ASSUME HarnessSession PROVE Next BY <2>1 DEF HarnessSession
  <2>2. ASSUME NEW rate \in Rates, GuiStarts(rate) PROVE Next BY <2>2 DEF GuiStarts, Next
  <2>3. ASSUME GuiSession PROVE Next
    <3>1. CASE \E b \in Boundaries : RecoverableBoundary(b) \/ FatalBoundary(b)
      BY <3>1 DEF Next
    <3>2. CASE Tick BY <3>2 DEF Next
    <3>3. QED BY <2>3, <3>1, <3>2 DEF GuiSession
  <2>4. ASSUME ProgramNext,
               ~HarnessSession, ~GuiSession, \A rate \in Rates : ~GuiStarts(rate)
        PROVE  UNCHANGED vars
    BY <2>4 DEF ProgramNext, GuiClipboard, PlanShell, PaletteCommand, StartRun, HarnessRefuses,
       HarnessStarts, HarnessAsserts, HarnessRenders, HarnessEnds, GuiPaletteKey, GuiRenders,
       GuiEnds, GuiFails, TtyStarts, TtyPaletteKey, TtyEnds, TtyFails, Ended, runtimeRests,
       sessionVars
  <2>5. ASSUME UNCHANGED programVars PROVE UNCHANGED vars
    BY <2>5 DEF programVars, sessionVars
  <2>6. QED BY <2>1, <2>2, <2>3, <2>4, <2>5
<1>3. QED BY <1>1, <1>2, PTL DEF ProgramSpec, Spec

(* The session keeps its policy in every run of the program.                *)
THEOREM SessionPolicyHolds == ProgramSpec => SessionKeepsPolicy
<1> QED BY ProgramRunsASession, BudgetIsKept, StoppingIsFinal, ShellStays, PTL
    DEF SessionKeepsPolicy

----------------------------------------------------------------------------
(* The settings and the render mode.                                        *)

Fields == DOMAIN defaultSettings

(* A state of the settings that sanitize_settings_state leaves alone.       *)
Consistent(s) == DOMAIN s = Fields /\ ~contradicts(s)

LEMMA FieldsKnown == Fields = {"mode", "shell", "autoInit", "cadence", "font", "theme", "profile", "debug"}
BY DEF Fields, defaultSettings

(* A state that was sanitized is consistent, and its mode is what it was.   *)
LEMMA SanitizedIsConsistent ==
  ASSUME NEW s, DOMAIN s = Fields
  PROVE  Consistent(sanitized(s)) /\ sanitized(s).mode = s.mode
BY FieldsKnown DEF Consistent, sanitized, contradicts

(* A command leaves consistent settings, whatever it says; it changes the   *)
(* mode only when it is about the mode, and then to its value.              *)
LEMMA CommandKeepsConsistent ==
  ASSUME NEW s, Consistent(s), NEW field, NEW value
  PROVE  LET next == applyCommand(s, field, value).settings
         IN  /\ Consistent(next)
             /\ field = "mode" => next.mode = value
             /\ field # "mode" => next.mode = s.mode
<1> DEFINE candidate == [s EXCEPT ![field] = value]
<1>1. /\ DOMAIN candidate = Fields
      /\ field = "mode" => candidate.mode = value
      /\ field # "mode" => candidate.mode = s.mode
  BY FieldsKnown DEF Consistent
<1>2. /\ Consistent(sanitized(candidate))
      /\ sanitized(candidate).mode = candidate.mode
  BY <1>1, SanitizedIsConsistent
<1>3. CASE field = "autoInit" /\ contradicts(candidate)
  BY <1>3 DEF applyCommand, rejected
<1>4. CASE ~(field = "autoInit" /\ contradicts(candidate))
  BY <1>1, <1>2, <1>4 DEF applyCommand, became
<1> QED BY <1>3, <1>4

(* The same of a command that is read first; one that is rejected changes   *)
(* nothing.                                                                 *)
LEMMA PaletteKeepsConsistent ==
  ASSUME NEW s, Consistent(s), NEW words
  PROVE  LET next == applyPaletteCommand(s, words).settings
             command == parseCommand(words)
         IN  /\ Consistent(next)
             /\ command.error = "none" /\ command.field = "mode" => next.mode = command.value
             /\ command.error # "none" \/ command.field # "mode" => next.mode = s.mode
<1>1. CASE parseCommand(words).error # "none"
  BY <1>1 DEF applyPaletteCommand, rejected
<1>2. CASE parseCommand(words).error = "none"
  BY <1>2, CommandKeepsConsistent DEF applyPaletteCommand
<1> QED BY <1>1, <1>2

(* The keys of the palette write commands that are read as what they say.   *)
LEMMA PaletteKeysAreRead ==
  ASSUME NEW key \in PaletteKeys, NEW debug
  PROVE  LET command == parseCommand(commandOfKey(key, debug))
         IN  /\ command.error = "none"
             /\ command.field = "mode" => command.value \in Modes
<1> DEFINE words == commandOfKey(key, debug)
<1>1. \A field, value : /\ Tail(<<field, value>>) = <<value>>
                        /\ Len(<<value>>) = 1 /\ <<value>>[1] = value
                        /\ <<field, value>>[1] = field /\ <<field, value>> # <<>>
  OBVIOUS
<1>2. \A field, value :
        field \in DOMAIN Choices /\ value \in Choices[field] =>
          parseValue(field, <<value>>) = sets(field, value)
  BY <1>1 DEF parseValue
<1>3. /\ {"mode", "debug"} \subseteq DOMAIN Choices
      /\ Choices["mode"] = Modes /\ Choices["debug"] = {"on", "off"}
  BY DEF Choices, Modes
<1>4. \E field \in {"mode", "debug"} : \E value \in Choices[field] : words = <<field, value>>
  <2>1. CASE key = "1" BY <2>1, <1>3 DEF commandOfKey, Modes
  <2>2. CASE key = "2" BY <2>2, <1>3 DEF commandOfKey, Modes
  <2>3. CASE key = "3" BY <2>3, <1>3 DEF commandOfKey, Modes
  <2>4. CASE key = "d" BY <2>4, <1>3 DEF commandOfKey
  <2> QED BY <2>1, <2>2, <2>3, <2>4 DEF PaletteKeys
<1>5. PICK field \in {"mode", "debug"} : \E value \in Choices[field] : words = <<field, value>>
  BY <1>4
<1>6. PICK value \in Choices[field] : words = <<field, value>>
  BY <1>5
<1>7. parseValue(field, <<value>>) = sets(field, value)
  BY <1>2, <1>3, <1>5, <1>6
<1>8. parseCommand(words) = sets(field, value)
  <2>1. words # <<>> /\ Tail(words) = <<value>> /\ words[1] = field BY <1>1, <1>6
  <2>2. CASE field = "mode" BY <2>1, <2>2, <1>7 DEF parseCommand, parseMode
  <2>3. CASE field = "debug" BY <2>1, <2>3, <1>7 DEF parseCommand, parseDebug
  <2> QED BY <2>2, <2>3, <1>5
<1> QED BY <1>8, <1>3, <1>6 DEF sets

(* A run begins with settings of the mode of the command line, and the GUI  *)
(* keeps them at the mode of its render controller, which is on the path of *)
(* a mode that is forced.                                                   *)
ModesFollow ==
  /\ phase \in {"harness starts", "gui starts"} => settings.mode = initialMode
  /\ phase = "gui" \/ result = <<"harness">> => settings.mode = render.mode
  /\ phase \in {"gui", "harness"} => (render.mode # "auto" => render.path = pathOf(render.mode))

CadenceFollows == cadence = sampled /\ cadence # 0

(* Only a run that has ended has a result.                                  *)
ResultAtTheEnd == phase # "ended" => result = <<>>

SettingsInv == Consistent(settings) /\ ModesFollow /\ CadenceFollows /\ ResultAtTheEnd

LEMMA ResultsDiffer == /\ <<>> # <<"harness">> /\ <<"error">> # <<"harness">>
                       /\ \A code : <<"exit", code>> # <<"harness">>
<1>1. Len(<<>>) = 0 /\ Len(<<"harness">>) = 1 /\ <<"error">>[1] = "error" /\ <<"harness">>[1] = "harness"
  OBVIOUS
<1>2. \A code : <<"exit", code>>[1] = "exit" OBVIOUS
<1> QED BY <1>1, <1>2

LEMMA SettingsInit == ProgramInit => SettingsInv
<1> SUFFICES ASSUME ProgramInit PROVE SettingsInv OBVIOUS
<1>1. Consistent(settings)
  BY SanitizedIsConsistent DEF ProgramInit, Fields
<1>2. ModesFollow BY ResultsDiffer DEF ProgramInit, ModesFollow
<1>3. CadenceFollows BY ProgramAssumption DEF ProgramInit, CadenceFollows
<1> QED BY <1>1, <1>2, <1>3 DEF ProgramInit, SettingsInv, ResultAtTheEnd

(* What the commands of the UI runtime leave of the controller.             *)
LEMMA BootstrapFollows ==
  ASSUME NEW rate \in Rates, Bootstrap(rate)
  PROVE  CadenceFollows' /\ render'.mode = initialMode /\ render'.path = pathOf(render'.mode)
BY ProgramAssumption DEF Bootstrap, CadenceFollows, newRender, sanitizeRate

LEMMA RenderingFollows ==
  ASSUME CadenceFollows, render.mode # "auto" => render.path = pathOf(render.mode),
         \/ \E mode : SetRenderMode(mode)
         \/ \E immediate, at : GpuFailure(immediate, at)
         \/ GpuFramePresented
         \/ \E rate : ResyncCadence(rate)
         \/ UNCHANGED runtimeVars
  PROVE  CadenceFollows' /\ (render'.mode # "auto" => render'.path = pathOf(render'.mode))
<1>1. ASSUME NEW mode, SetRenderMode(mode)
      PROVE CadenceFollows' /\ render'.path = pathOf(render'.mode)
  BY <1>1 DEF SetRenderMode, Rendering, newRender, CadenceFollows
<1>2. ASSUME GpuFramePresented
      PROVE CadenceFollows' /\ (render'.mode # "auto" => render'.path = pathOf(render'.mode))
  BY <1>2 DEF GpuFramePresented, Rendering, newRender, CadenceFollows, runtimeVars
<1>3. ASSUME NEW immediate, NEW at, GpuFailure(immediate, at)
      PROVE CadenceFollows' /\ (render'.mode # "auto" => render'.path = pathOf(render'.mode))
  <2>1. CASE render.mode # "auto" \/ render.path # "gpu"
    BY <1>3, <2>1 DEF GpuFailure, CadenceFollows, runtimeVars
  <2>2. CASE render.mode = "auto" /\ render.path = "gpu"
    <3>1. recordFailure(at).mode = "auto"
      BY <2>2 DEF recordFailure
    <3>2. [newRender("auto") EXCEPT !.path = "cpu"].mode = "auto" BY DEF newRender
    <3>3. render'.mode = "auto" /\ UNCHANGED <<cadence, sampled>>
      BY <1>3, <2>2, <3>1, <3>2 DEF GpuFailure
    <3> QED BY <3>3 DEF CadenceFollows
  <2> QED BY <2>1, <2>2
<1>4. ASSUME NEW rate, ResyncCadence(rate)
      PROVE CadenceFollows' /\ (render'.mode # "auto" => render'.path = pathOf(render'.mode))
  BY <1>4 DEF ResyncCadence, CadenceFollows
<1>5. ASSUME UNCHANGED runtimeVars
      PROVE CadenceFollows' /\ (render'.mode # "auto" => render'.path = pathOf(render'.mode))
  BY <1>5 DEF runtimeVars, CadenceFollows
<1> QED BY <1>1, <1>2, <1>3, <1>4, <1>5

LEMMA GpuEventsKeepMode ==
  ASSUME \/ \E immediate, at : GpuFailure(immediate, at)
         \/ GpuFramePresented
         \/ \E rate : ResyncCadence(rate)
         \/ UNCHANGED runtimeVars
  PROVE  render'.mode = render.mode
<1>1. ASSUME NEW immediate, NEW at, GpuFailure(immediate, at) PROVE render'.mode = render.mode
  <2>1. CASE render.mode # "auto" \/ render.path # "gpu"
    BY <1>1, <2>1 DEF GpuFailure, runtimeVars
  <2>2. CASE render.mode = "auto" /\ render.path = "gpu"
    <3>1. recordFailure(at).mode = "auto"
      BY <2>2 DEF recordFailure
    <3>2. [newRender("auto") EXCEPT !.path = "cpu"].mode = "auto" BY DEF newRender
    <3> QED BY <1>1, <2>2, <3>1, <3>2 DEF GpuFailure
  <2> QED BY <2>1, <2>2
<1>2. CASE GpuFramePresented BY <1>2 DEF GpuFramePresented, Rendering, newRender, runtimeVars
<1>3. ASSUME NEW rate, ResyncCadence(rate) PROVE render'.mode = render.mode
  BY <1>3 DEF ResyncCadence
<1>4. CASE UNCHANGED runtimeVars BY <1>4 DEF runtimeVars
<1> QED BY <1>1, <1>2, <1>3, <1>4

(* One step for each part of the program: before the runs, the harness, the *)
(* GUI runtime and the TTY runtime.                                         *)
LEMMA PlanKeepsSettings ==
  ASSUME SettingsInv,
         \/ \E requested \in {"fish", "zsh"}, a \in Availabilities : PlanShell(requested, a)
         \/ \E words \in PaletteInputs : PaletteCommand(words)
         \/ \E mode \in Modes : StartRun(mode)
  PROVE  SettingsInv'
<1> USE DEF SettingsInv, CadenceFollows, ResultAtTheEnd, runtimeRests, runtimeVars, sessionVars
<1>1. ASSUME NEW requested, NEW a, PlanShell(requested, a) PROVE SettingsInv'
  BY <1>1, ResultsDiffer DEF PlanShell, Ends, Goes, ModesFollow, Consistent, contradicts
<1>2. ASSUME NEW words, PaletteCommand(words) PROVE SettingsInv'
  <2>1. Consistent(settings') BY <1>2, PaletteKeepsConsistent DEF PaletteCommand
  <2> QED BY <1>2, <2>1, ResultsDiffer DEF PaletteCommand, ModesFollow
<1>3. ASSUME NEW mode, StartRun(mode) PROVE SettingsInv'
  <2>0. settings' = applyCommand(settings, "mode", mode).settings BY <1>3 DEF StartRun
  <2>1. Consistent(settings') /\ settings'.mode = mode
    BY <2>0, CommandKeepsConsistent
  <2> QED BY <1>3, <2>1, ResultsDiffer DEF StartRun, ModesFollow
<1> QED BY <1>1, <1>2, <1>3

LEMMA HarnessKeepsSettings ==
  ASSUME SettingsInv,
         \/ HarnessRefuses \/ HarnessSession \/ HarnessRenders \/ HarnessEnds
         \/ \E windows : HarnessAsserts(windows)
         \/ \E rate \in Rates : HarnessStarts(rate)
  PROVE  SettingsInv'
<1> USE DEF SettingsInv, ResultAtTheEnd
<1> DEFINE Kept == Consistent(settings) /\ UNCHANGED settings => Consistent(settings')
<1>1. Kept BY DEF Consistent, contradicts
<1>2. ASSUME HarnessRefuses \/ HarnessSession \/ (\E windows : HarnessAsserts(windows)) PROVE SettingsInv'
  BY <1>1, <1>2, ResultsDiffer DEF HarnessRefuses, HarnessSession, HarnessAsserts, Ends, Goes,
     ModesFollow, CadenceFollows, runtimeRests, runtimeVars
<1>3. ASSUME HarnessRenders PROVE SettingsInv'
  <2>1. render.mode # "auto" => render.path = pathOf(render.mode)
    BY <1>3 DEF HarnessRenders, ModesFollow
  <2>2. CadenceFollows' /\ (render'.mode # "auto" => render'.path = pathOf(render'.mode))
    BY <1>3, <2>1, RenderingFollows DEF HarnessRenders
  <2>3. phase' = "harness" /\ UNCHANGED <<settings, result>> /\ phase = "harness"
    BY <1>3 DEF HarnessRenders, Goes
  <2> QED BY <1>1, <2>2, <2>3, ResultsDiffer DEF ModesFollow
<1>4. ASSUME HarnessEnds PROVE SettingsInv'
  <2>1. Consistent(settings') /\ settings'.mode = render.mode
    BY <1>4, CommandKeepsConsistent DEF HarnessEnds
  <2> QED BY <1>4, <2>1 DEF HarnessEnds, Ends, ModesFollow, CadenceFollows, runtimeRests, runtimeVars
<1>5. ASSUME NEW rate \in Rates, HarnessStarts(rate) PROVE SettingsInv'
  <2>1. CadenceFollows' /\ render'.path = pathOf(render'.mode)
    BY <1>5, BootstrapFollows DEF HarnessStarts
  <2>2. phase' = "harness" /\ UNCHANGED <<settings, result>> /\ phase = "harness starts"
    BY <1>5 DEF HarnessStarts, Goes
  <2> QED BY <1>1, <2>1, <2>2, ResultsDiffer DEF ModesFollow
<1> QED BY <1>2, <1>3, <1>4, <1>5

LEMMA GuiKeepsSettings ==
  ASSUME SettingsInv,
         \/ GuiClipboard \/ GuiSession \/ GuiRenders \/ GuiFails
         \/ \E rate \in Rates : GuiStarts(rate)
         \/ \E key \in PaletteKeys : GuiPaletteKey(key)
         \/ \E code \in ExitCodes : GuiEnds(code)
  PROVE  SettingsInv'
<1> USE DEF SettingsInv, ResultAtTheEnd
<1> DEFINE Kept == Consistent(settings) /\ UNCHANGED settings => Consistent(settings')
<1>1. Kept BY DEF Consistent, contradicts
<1>2. ASSUME GuiClipboard \/ GuiSession \/ GuiFails \/ (\E code : GuiEnds(code)) PROVE SettingsInv'
  BY <1>1, <1>2, ResultsDiffer DEF GuiClipboard, GuiSession, GuiFails, GuiEnds, Ends, Goes,
     ModesFollow, CadenceFollows, runtimeRests, runtimeVars
<1>3. ASSUME GuiRenders PROVE SettingsInv'
  <2>1. render.mode # "auto" => render.path = pathOf(render.mode)
    BY <1>3 DEF GuiRenders, ModesFollow
  <2>2. CadenceFollows' /\ (render'.mode # "auto" => render'.path = pathOf(render'.mode))
    BY <1>3, <2>1, RenderingFollows DEF GuiRenders
  <2>3. render'.mode = render.mode
    BY <1>3, GpuEventsKeepMode DEF GuiRenders
  <2>4. phase' = "gui" /\ UNCHANGED <<settings, result>> /\ phase = "gui"
    BY <1>3 DEF GuiRenders, Goes
  <2> QED BY <1>1, <2>2, <2>3, <2>4, ResultsDiffer DEF ModesFollow
<1>4. ASSUME NEW rate \in Rates, GuiStarts(rate) PROVE SettingsInv'
  <2>1. CadenceFollows' /\ render'.mode = initialMode /\ render'.path = pathOf(render'.mode)
    BY <1>4, BootstrapFollows DEF GuiStarts
  <2>2. Consistent(settings') /\ settings'.mode = settings.mode
    BY <1>4, SanitizedIsConsistent DEF GuiStarts, Consistent
  <2>3. phase' = "gui" /\ UNCHANGED result /\ phase = "gui starts"
    BY <1>4 DEF GuiStarts, Goes
  <2> QED BY <2>1, <2>2, <2>3, ResultsDiffer DEF ModesFollow
<1>5. ASSUME NEW key \in PaletteKeys, GuiPaletteKey(key) PROVE SettingsInv'
  <2> DEFINE words == commandOfKey(key, settings.debug)
             command == parseCommand(words)
  <2>1. phase' = "gui" /\ UNCHANGED result /\ phase = "gui"
    BY <1>5 DEF GuiPaletteKey, Goes
  <2>2. settings' = applyPaletteCommand(settings, words).settings
    BY <1>5 DEF GuiPaletteKey
  <2>3. IF command.field = "mode" THEN SetRenderMode(command.value) ELSE UNCHANGED runtimeVars
    BY <1>5 DEF GuiPaletteKey
  <2>4. command.error = "none" BY PaletteKeysAreRead
  <2>5. /\ Consistent(settings')
        /\ command.field = "mode" => settings'.mode = command.value
        /\ command.field # "mode" => settings'.mode = settings.mode
    BY <2>2, <2>4, PaletteKeepsConsistent
  <2>6. render.mode # "auto" => render.path = pathOf(render.mode)
    BY <2>1 DEF ModesFollow
  <2>7. CadenceFollows' /\ (render'.mode # "auto" => render'.path = pathOf(render'.mode))
    BY <2>3, <2>6, RenderingFollows
  <2>8. settings'.mode = render'.mode
    <3>1. CASE command.field = "mode"
      BY <2>3, <2>5, <3>1 DEF SetRenderMode, Rendering, newRender
    <3>2. CASE command.field # "mode"
      BY <2>1, <2>3, <2>5, <3>2 DEF runtimeVars, ModesFollow
    <3> QED BY <3>1, <3>2
  <2> QED BY <2>1, <2>5, <2>7, <2>8, ResultsDiffer DEF ModesFollow
<1> QED BY <1>2, <1>3, <1>4, <1>5

LEMMA TtyKeepsSettings ==
  ASSUME SettingsInv,
         \/ TtyStarts \/ TtyFails \/ Ended \/ UNCHANGED programVars
         \/ \E key \in PaletteKeys : TtyPaletteKey(key)
         \/ \E code \in ExitCodes : TtyEnds(code)
  PROVE  SettingsInv'
<1> USE DEF SettingsInv, ResultAtTheEnd, CadenceFollows
<1>1. Consistent(settings) /\ UNCHANGED settings => Consistent(settings')
  BY DEF Consistent, contradicts
<1>2. ASSUME TtyFails \/ Ended \/ UNCHANGED programVars \/ (\E code : TtyEnds(code)) PROVE SettingsInv'
  BY <1>1, <1>2, ResultsDiffer DEF TtyFails, Ended, TtyEnds, programVars, Ends,
     ModesFollow, runtimeRests, runtimeVars
<1>3. ASSUME TtyStarts PROVE SettingsInv'
  <2>1. Consistent(defaultSettings) BY DEF Consistent, Fields, contradicts, defaultSettings
  <2>2. Consistent(settings') BY <1>3, <2>1, CommandKeepsConsistent DEF TtyStarts
  <2> QED BY <1>3, <2>2, ResultsDiffer DEF TtyStarts, Goes, ModesFollow, runtimeRests, runtimeVars
<1>4. ASSUME NEW key, TtyPaletteKey(key) PROVE SettingsInv'
  <2>1. Consistent(settings') BY <1>4, PaletteKeepsConsistent DEF TtyPaletteKey
  <2> QED BY <1>4, <2>1, ResultsDiffer DEF TtyPaletteKey, Goes, ModesFollow, runtimeRests, runtimeVars
<1> QED BY <1>2, <1>3, <1>4

LEMMA StepKeepsSettings == SettingsInv /\ [ProgramNext]_programVars => SettingsInv'
BY PlanKeepsSettings, HarnessKeepsSettings, GuiKeepsSettings, TtyKeepsSettings DEF ProgramNext

(* Settings are consistent and followed in every state of every run.        *)
THEOREM SettingsInvariance == ProgramSpec => []SettingsInv
<1> QED BY SettingsInit, StepKeepsSettings, PTL DEF ProgramSpec

(* The runtime follows the settings, and a profile that is exported is      *)
(* accepted and changes nothing, in whatever order commands are given.      *)
THEOREM SettingsAlwaysHold == ProgramSpec => []SettingsHold
<1>1. SettingsInv => RuntimeFollowsSettings
  BY DEF SettingsInv, ModesFollow, CadenceFollows, RuntimeFollowsSettings
<1>2. Consistent(settings) => SettingsStayValid
  BY DEF Consistent, SettingsStayValid, applyProfile, exportProfile, isValidProfile, became
<1>3. SettingsInv => SettingsHold BY <1>1, <1>2 DEF SettingsInv, SettingsHold
<1> QED BY <1>3, SettingsInvariance, PTL

----------------------------------------------------------------------------
(* The clipboard.                                                           *)

TextTypes == [by : {"program", "others", "nobody"}, length : Nat, width : Nat \ {0}]

(* What is kept of a text has its characters and fits into the cap.         *)
LEMMA CappedFits ==
  ASSUME NEW text \in TextTypes
  PROVE  /\ capped(text) \in TextTypes
         /\ capped(text).length * capped(text).width <= CapBytes
<1>1. /\ text.length \in Nat /\ text.width \in Nat /\ text.width > 0
      /\ text.by \in {"program", "others", "nobody"}
      /\ text = [by |-> text.by, length |-> text.length, width |-> text.width]
  BY DEF TextTypes
<1>2. CapBytes \in Nat BY ClipboardAssumption
<1>3. \A cap \in Nat, width \in Nat : width > 0 => cap \div width \in Nat /\ (cap \div width) * width <= cap
  OBVIOUS
<1>4. CASE text.length * text.width <= CapBytes
  <2>1. capped(text) = text BY <1>4, <1>1 DEF capped
  <2> QED BY <2>1, <1>4
<1>5. CASE ~(text.length * text.width <= CapBytes)
  <2>1. capped(text) = [by |-> text.by, length |-> CapBytes \div text.width, width |-> text.width]
    BY <1>5, <1>1 DEF capped
  <2> QED BY <2>1, <1>1, <1>2, <1>3 DEF TextTypes
<1> QED BY <1>4, <1>5

(* How the two clipboards differ from the last copy: the system's has it    *)
(* unless it was not sent or was dropped, the program's own unless another  *)
(* program's was never seen or it was dropped.                              *)
ClipboardInv ==
  /\ {fallback, system, copied} \subseteq TextTypes
  /\ drift \in {"none", "unsent", "lost", "unseen"}
  /\ drift \in {"none", "unseen"} => system = copied
  /\ drift \in {"none", "unsent"} => fallback = capped(copied)
  /\ PasteIsTheLastCopy

LEMMA ClipboardInitEstablishes == ClipboardInit => ClipboardInv
<1> SUFFICES ASSUME ClipboardInit PROVE ClipboardInv OBVIOUS
<1>1. CapBytes \in Nat BY ClipboardAssumption
<1>2. NoText \in TextTypes /\ NoText.length * NoText.width = 0 BY DEF NoText, TextTypes
<1>3. capped(NoText) = NoText BY <1>1, <1>2 DEF capped, NoText
<1> QED BY <1>1, <1>2, <1>3 DEF ClipboardInit, ClipboardInv, PasteIsTheLastCopy

(* What the calls of the backend leave of its state.                        *)
BackendInv == (backend <=> backendMode = "ready") /\ (health = "available" => backend)

LEMMA BackendStaysSound ==
  ASSUME BackendInv, CallWorks \/ GoesWithout
  PROVE  BackendInv'
<1>1. CASE CallWorks BY <1>1 DEF CallWorks, BackendInv
<1>2. CASE GivenUp BY <1>2 DEF GivenUp, BackendInv
<1>3. CASE StartFails
  <2>1. \/ backend' = FALSE /\ backendMode' = "permanently unavailable" /\ health' = "unavailable"
        \/ backend' = FALSE /\ backendMode' = "uninitialized" /\ health' = "degraded"
    BY <1>3 DEF StartFails, Unsupported
  <2> QED BY <2>1 DEF BackendInv
<1>4. CASE CallFails
  <2>1. \/ backend' = TRUE /\ backendMode' = "ready" /\ health' = "degraded"
        \/ backend' = FALSE /\ backendMode' = "permanently unavailable" /\ health' = "unavailable"
    BY <1>4 DEF CallFails, Unsupported
  <2> QED BY <2>1 DEF BackendInv
<1> QED BY <1>1, <1>2, <1>3, <1>4 DEF GoesWithout

LEMMA ClipboardNextPreserves ==
  ASSUME ClipboardInv, [ClipboardNext]_clipboardVars PROVE ClipboardInv'
<1>0. \A text \in TextTypes : capped(text) \in TextTypes
                              /\ capped(text).length * capped(text).width <= CapBytes
  BY CappedFits
<1>1. NoText \in TextTypes BY DEF NoText, TextTypes
<1>2. Texts \subseteq TextTypes BY ClipboardAssumption DEF TextTypes
<1>3. BackendInv BY DEF ClipboardInv, PasteIsTheLastCopy, BackendInv
<1>4. ASSUME NEW text \in Texts, SetText(text) PROVE ClipboardInv'
  <2>1. BackendInv' BY <1>3, <1>4, BackendStaysSound DEF SetText
  <2>2. fallback' = capped(text) /\ copied' = text /\ pasted' = NoText BY <1>4 DEF SetText
  <2>3. \/ system' = text /\ drift' = "none"
        \/ system' = system /\ drift' = "unsent"
    BY <1>4 DEF SetText
  <2>4. fallback' \in TextTypes /\ fallback'.length * fallback'.width <= CapBytes
    BY <1>0, <1>2, <2>2
  <2> QED BY <1>2, <2>1, <2>2, <2>3, <2>4 DEF ClipboardInv, PasteIsTheLastCopy, BackendInv
<1>5. ASSUME GetText PROVE ClipboardInv'
  <2>1. BackendInv' BY <1>3, <1>5, BackendStaysSound DEF GetText
  <2>2. UNCHANGED <<system, copied>> BY <1>5 DEF GetText
  <2>3. CASE /\ pasted' = capped(system) /\ fallback' = capped(system)
             /\ drift' = IF drift \in {"unsent", "lost"} THEN "lost" ELSE "none"
    <3>1. fallback' \in TextTypes /\ fallback'.length * fallback'.width <= CapBytes
      BY <1>0, <2>3 DEF ClipboardInv
    <3>2. drift' \in {"none", "unsent"} => drift' = "none" /\ system = copied
      BY <2>3 DEF ClipboardInv
    <3> QED BY <2>1, <2>2, <2>3, <3>1, <3>2 DEF ClipboardInv, PasteIsTheLastCopy, BackendInv
  <2>4. CASE pasted' = fallback /\ UNCHANGED <<fallback, drift>>
    BY <2>1, <2>2, <2>4 DEF ClipboardInv, PasteIsTheLastCopy, BackendInv
  <2> QED BY <1>5, <2>3, <2>4 DEF GetText
<1>6. ASSUME NEW text \in Texts, OthersCopy(text) PROVE ClipboardInv'
  <2>1. /\ system' = text /\ copied' = text /\ drift' = "unseen" /\ pasted' = NoText
        /\ UNCHANGED <<backend, backendMode, health, fallback>>
    BY <1>6 DEF OthersCopy
  <2> QED BY <1>2, <2>1 DEF ClipboardInv, PasteIsTheLastCopy
<1>7. ASSUME UNCHANGED clipboardVars PROVE ClipboardInv'
  BY <1>7 DEF clipboardVars, ClipboardInv, PasteIsTheLastCopy
<1> QED BY <1>4, <1>5, <1>6, <1>7 DEF ClipboardNext

(* A paste is the last copy, for every cap, number of retries and text.     *)
THEOREM LastCopyIsPasted == ProgramSpec => []PasteIsTheLastCopy
<1>1. ProgramInit => ClipboardInv BY ClipboardInitEstablishes DEF ProgramInit
<1>2. [ProgramNext]_programVars => [ClipboardNext]_clipboardVars
  BY DEF ProgramNext, GuiClipboard, ClipboardRests, programVars
<1>3. ClipboardInv /\ [ProgramNext]_programVars => ClipboardInv' BY <1>2, ClipboardNextPreserves
<1>4. ClipboardInv => PasteIsTheLastCopy BY DEF ClipboardInv
<1> QED BY <1>1, <1>3, <1>4, PTL DEF ProgramSpec

----------------------------------------------------------------------------
(* The fall back from the GPU.                                              *)

Renders == [mode : Modes, path : {"cpu", "gpu"}, streak : Nat, start : Nat \cup {Never}]

(* In what follows f are the times of len failures.  No window holds twice  *)
(* the budget of them.                                                      *)
WindowsAreShort(f, len) ==
  \A first, last \in 1 .. len :
    first <= last /\ f[last] - f[first] <= FailureWindow => last - first + 1 < 2 * RetryBudget

(* More failures than the budget, the last ones, lie in one window.         *)
IsEarned(f, len) ==
  len > RetryBudget /\ f[len] - f[len - RetryBudget] <= FailureWindow

(* The streak n counts the last failures, from the one that opened the      *)
(* window on; the one that opened the window before lies outside this one.  *)
IsFarAway(f, len, n, m) ==
  m <= len - n /\ f[len - n + 1] - f[len - n - m + 1] > FailureWindow

Counts(f, len, n, start) ==
  /\ len = 0 => n = 0 /\ start = Never
  /\ len > 0 => /\ n \in 1 .. RetryBudget /\ n <= len
                /\ start = f[len - n + 1] /\ f[len] - start <= FailureWindow
  /\ n < len => \E m \in 1 .. RetryBudget : IsFarAway(f, len, n, m)
  /\ WindowsAreShort(f, len)

LEMMA ConstantsAreNumbers ==
  RetryBudget \in Nat /\ RetryBudget >= 1 /\ FailureWindow \in Nat /\ Times \subseteq Nat
BY ProgramAssumption

(* Times in order, and one more of them.                                    *)
Extends(g, f, len) ==
  /\ f \in [1 .. len -> Nat] /\ g \in [1 .. len + 1 -> Nat]
  /\ \A k \in 1 .. len : g[k] = f[k]
  /\ \A j, k \in 1 .. len + 1 : j <= k => g[j] <= g[k]

(* However the windows were counted, a failure that adds a streak of n      *)
(* failures after a window far away leaves no window too long.              *)
LEMMA WindowsStayShort ==
  ASSUME NEW len \in Nat, NEW f, NEW g, Extends(g, f, len), WindowsAreShort(f, len),
         NEW n \in Nat, n + 1 <= RetryBudget, n <= len,
         n < len => \E m \in 1 .. RetryBudget :
                      m <= len - n /\ g[len + 1] - f[len - n - m + 1] > FailureWindow
  PROVE  WindowsAreShort(g, len + 1)
<1> USE ConstantsAreNumbers
<1> SUFFICES ASSUME NEW first \in 1 .. len + 1, NEW last \in 1 .. len + 1, first <= last,
                    g[last] - g[first] <= FailureWindow
             PROVE  last - first + 1 < 2 * RetryBudget
  BY DEF WindowsAreShort
<1>1. CASE last <= len
  <2>1. first \in 1 .. len /\ last \in 1 .. len BY <1>1
  <2>2. f[last] - f[first] <= FailureWindow BY <2>1 DEF Extends
  <2> QED BY <2>1, <2>2 DEF WindowsAreShort
<1>2. CASE last = len + 1 /\ first > len - n BY <1>2
<1>3. CASE last = len + 1 /\ first <= len - n
  <2>1. n < len BY <1>3
  <2>2. PICK m \in 1 .. RetryBudget :
          m <= len - n /\ g[len + 1] - f[len - n - m + 1] > FailureWindow
    BY <2>1
  <2>3. PICK opener \in 1 .. len : opener = len - n - m + 1
    <3>1. len - n - m + 1 \in 1 .. len BY <2>2
    <3> QED BY <3>1
  <2>4. g[len + 1] - g[opener] > FailureWindow /\ opener \in 1 .. len + 1
    BY <2>2, <2>3 DEF Extends
  <2>5. g[opener] \in Nat /\ g[first] \in Nat /\ g[len + 1] \in Nat
    BY <2>4 DEF Extends
  <2>6. g[opener] < g[first] BY <1>3, <2>4, <2>5
  <2>7. first <= opener => g[first] <= g[opener] BY <2>4 DEF Extends
  <2>8. opener < first BY <2>3, <2>5, <2>6, <2>7
  <2> QED BY <1>3, <2>2, <2>3, <2>8
<1> QED BY <1>1, <1>2, <1>3

(* A failure in the window: the streak goes on, or has used up the budget.  *)
LEMMA FailureInWindow ==
  ASSUME NEW len \in Nat, NEW f, NEW g, Extends(g, f, len),
         NEW n \in Nat, NEW start, Counts(f, len, n, start), start # Never,
         g[len + 1] - start <= FailureWindow
  PROVE  /\ n + 1 <= RetryBudget => Counts(g, len + 1, n + 1, start)
         /\ n + 1 > RetryBudget => IsEarned(g, len + 1)
<1> USE ConstantsAreNumbers
<1>1. /\ len > 0 /\ n \in 1 .. RetryBudget /\ n <= len /\ start = f[len - n + 1]
  BY DEF Counts
<1>2. PICK begin \in 1 .. len : begin = len - n + 1
  <2>1. len - n + 1 \in 1 .. len BY <1>1
  <2> QED BY <2>1
<1>3. g[begin] = start /\ f[begin] = start BY <1>1, <1>2 DEF Extends
<1>4. ASSUME n + 1 > RetryBudget PROVE IsEarned(g, len + 1)
  <2>1. len + 1 > RetryBudget /\ len + 1 - RetryBudget = begin BY <1>1, <1>2, <1>4
  <2> QED BY <1>3, <2>1 DEF IsEarned
<1>5. ASSUME n + 1 <= RetryBudget PROVE Counts(g, len + 1, n + 1, start)
  <2>1. n < len => \E m \in 1 .. RetryBudget : IsFarAway(f, len, n, m) BY DEF Counts
  <2>2. ASSUME NEW m \in 1 .. RetryBudget, IsFarAway(f, len, n, m)
        PROVE  /\ IsFarAway(g, len + 1, n + 1, m)
               /\ m <= len - n /\ g[len + 1] - f[len - n - m + 1] > FailureWindow
    <3>1. PICK opener \in 1 .. len : opener = len - n - m + 1
      <4>1. len - n - m + 1 \in 1 .. len BY <1>1, <2>2 DEF IsFarAway
      <4> QED BY <4>1
    <3>2. f[begin] - f[opener] > FailureWindow /\ m <= len - n
      BY <1>2, <2>2, <3>1 DEF IsFarAway
    <3>3. g[opener] = f[opener] /\ g[begin] <= g[len + 1]
          /\ f[opener] \in Nat /\ f[begin] \in Nat /\ g[len + 1] \in Nat
      BY <1>2, <3>1 DEF Extends
    <3>4. len + 1 - (n + 1) = len - n BY <1>1
    <3>5. IsFarAway(g, len + 1, n + 1, m)
      BY <1>2, <1>3, <3>1, <3>2, <3>3, <3>4 DEF IsFarAway
    <3> QED BY <1>3, <3>1, <3>2, <3>3, <3>5
  <2>3. n + 1 < len + 1 => \E m \in 1 .. RetryBudget : IsFarAway(g, len + 1, n + 1, m)
    BY <1>1, <2>1, <2>2
  <2>4. WindowsAreShort(g, len + 1)
    <3>1. WindowsAreShort(f, len) BY DEF Counts
    <3>2. n < len => \E m \in 1 .. RetryBudget :
            m <= len - n /\ g[len + 1] - f[len - n - m + 1] > FailureWindow
      BY <2>1, <2>2
    <3> QED BY <1>1, <1>5, <3>1, <3>2, WindowsStayShort
  <2>5. len + 1 - (n + 1) + 1 = begin /\ n + 1 \in 1 .. RetryBudget /\ n + 1 <= len + 1
    BY <1>1, <1>2, <1>5
  <2> QED BY <1>3, <2>3, <2>4, <2>5 DEF Counts
<1> QED BY <1>4, <1>5

(* A failure beyond the window, or the first one, opens a window.           *)
LEMMA FailureOpensWindow ==
  ASSUME NEW len \in Nat, NEW f, NEW g, Extends(g, f, len),
         NEW n \in Nat, NEW start, Counts(f, len, n, start),
         len > 0 => g[len + 1] - start > FailureWindow
  PROVE  Counts(g, len + 1, 1, g[len + 1])
<1> USE ConstantsAreNumbers
<1>1. len + 1 - 1 + 1 = len + 1 /\ len + 1 - 1 = len /\ g[len + 1] \in Nat
  BY DEF Extends
<1>2. g[len + 1] - g[len + 1] <= FailureWindow BY <1>1
<1>3. CASE len = 0
  <2>1. WindowsAreShort(g, len + 1) BY <1>3 DEF WindowsAreShort
  <2> QED BY <1>1, <1>2, <1>3, <2>1 DEF Counts
<1>4. CASE len > 0
  <2>1. n \in 1 .. RetryBudget /\ n <= len /\ start = f[len - n + 1] BY <1>4 DEF Counts
  <2>2. PICK opener \in 1 .. len : opener = len - n + 1
    <3>1. len - n + 1 \in 1 .. len BY <2>1
    <3> QED BY <3>1
  <2>3. g[opener] = f[opener] /\ f[opener] = start BY <2>1, <2>2 DEF Extends
  <2>4. n <= len + 1 - 1 /\ len + 1 - 1 - n + 1 = opener BY <1>1, <2>1, <2>2
  <2>5. IsFarAway(g, len + 1, 1, n) BY <1>1, <1>4, <2>3, <2>4 DEF IsFarAway
  <2>6. WindowsAreShort(g, len + 1)
    <3> SUFFICES ASSUME NEW first \in 1 .. len + 1, NEW last \in 1 .. len + 1, first <= last,
                        g[last] - g[first] <= FailureWindow
                 PROVE  last - first + 1 < 2 * RetryBudget
      BY DEF WindowsAreShort
    <3>1. CASE last <= len
      <4>1. first \in 1 .. len /\ last \in 1 .. len BY <3>1
      <4>2. f[last] - f[first] <= FailureWindow BY <4>1 DEF Extends
      <4> QED BY <4>1, <4>2 DEF Counts, WindowsAreShort
    <3>2. CASE last = len + 1
      <4>1. g[opener] \in Nat /\ g[first] \in Nat BY <2>2 DEF Extends
      <4>2. g[opener] < g[first] BY <1>1, <1>4, <2>3, <3>2, <4>1
      <4>3. first <= opener => g[first] <= g[opener] BY <2>2 DEF Extends
      <4>4. opener < first BY <2>2, <4>1, <4>2, <4>3
      <4> QED BY <2>1, <2>2, <3>2, <4>4
    <3> QED BY <3>1, <3>2
  <2> QED BY <1>1, <1>2, <1>4, <2>1, <2>5, <2>6 DEF Counts
<1> QED BY <1>3, <1>4

(* Before a fall back the controller counts, and behind one the failures    *)
(* that led to it are more than the budget.                                 *)
FallbackInv ==
  /\ render \in Renders /\ failed \in Seq(Nat)
  /\ render.mode = "auto" /\ Ordered(failed) =>
       /\ render.path = "gpu" => Counts(failed, Len(failed), render.streak, render.start)
       /\ render.path = "cpu" /\ failed # <<>> => IsEarned(failed, Len(failed))

(* A controller that was reset has seen no failure.                         *)
LEMMA ResetCounts ==
  ASSUME failed' = <<>>, render' \in Renders,
         render'.streak = 0 /\ render'.start = Never
  PROVE  FallbackInv'
<1> USE ConstantsAreNumbers
<1>1. <<>> \in Seq(Nat) /\ Len(<<>>) = 0 OBVIOUS
<1>2. Counts(<<>>, 0, 0, Never) BY DEF Counts, WindowsAreShort
<1> QED BY <1>1, <1>2 DEF FallbackInv

LEMMA NewRenderIsReset ==
  ASSUME NEW mode \in Modes
  PROVE  newRender(mode) \in Renders /\ newRender(mode).streak = 0 /\ newRender(mode).start = Never
BY DEF newRender, pathOf, Renders, Modes

LEMMA RenderingResets ==
  ASSUME NEW mode \in Modes, Rendering(newRender(mode)) PROVE FallbackInv'
BY NewRenderIsReset, ResetCounts DEF Rendering

(* Times in order that were appended to are the times of the lemmas above.  *)
LEMMA AppendExtends ==
  ASSUME NEW f \in Seq(Nat), NEW at \in Nat, Ordered(Append(f, at))
  PROVE  /\ Extends(Append(f, at), f, Len(f)) /\ Ordered(f)
         /\ Append(f, at) \in Seq(Nat) /\ Len(f) \in Nat /\ Len(Append(f, at)) = Len(f) + 1
         /\ Append(f, at)[Len(f) + 1] = at
<1> DEFINE g == Append(f, at)
<1>1. /\ g \in Seq(Nat) /\ Len(g) = Len(f) + 1 /\ g[Len(f) + 1] = at /\ Len(f) \in Nat
      /\ \A k \in 1 .. Len(f) : g[k] = f[k]
  OBVIOUS
<1>2. f \in [1 .. Len(f) -> Nat] /\ g \in [1 .. Len(f) + 1 -> Nat]
  <2>1. f \in [1 .. Len(f) -> Nat] OBVIOUS
  <2>2. \A s \in Seq(Nat) : s \in [1 .. Len(s) -> Nat] OBVIOUS
  <2> QED BY <1>1, <2>1, <2>2
<1>3. \A j, k \in 1 .. Len(f) + 1 : j <= k => g[j] <= g[k] BY <1>1 DEF Ordered
<1> HIDE DEF g
<1>4. Ordered(f)
  <2> SUFFICES ASSUME NEW m \in 1 .. Len(f), NEW n \in 1 .. Len(f), m <= n PROVE f[m] <= f[n]
    BY DEF Ordered
  <2>1. m \in 1 .. Len(f) + 1 /\ n \in 1 .. Len(f) + 1 BY <1>1
  <2>2. g[m] <= g[n] BY <1>3, <2>1
  <2> QED BY <1>1, <2>2
<1>5. Extends(g, f, Len(f)) BY <1>1, <1>2, <1>3 DEF Extends
<1> QED BY <1>1, <1>4, <1>5 DEF g

LEMMA GpuFailureCounts ==
  ASSUME FallbackInv, NEW immediate, NEW at \in Times, GpuFailure(immediate, at)
  PROVE  FallbackInv'
<1> USE ConstantsAreNumbers
<1>1. CASE render.mode # "auto" \/ render.path # "gpu"
  BY <1>1 DEF GpuFailure, runtimeVars, FallbackInv
<1>2. CASE render.mode = "auto" /\ render.path = "gpu"
  <2> DEFINE counted == recordFailure(at)
             exhausted == immediate \/ counted.streak > RetryBudget
             fallen == [newRender("auto") EXCEPT !.path = "cpu"]
  <2>1. /\ render' = IF exhausted THEN fallen ELSE counted
        /\ failed' = IF immediate THEN <<>> ELSE Append(failed, at)
    BY <1>2 DEF GpuFailure
  <2>2. fallen \in Renders /\ fallen.streak = 0 /\ fallen.start = Never
        /\ fallen.mode = "auto" /\ fallen.path = "cpu"
    <3>1. fallen = [mode |-> "auto", path |-> "cpu", streak |-> 0, start |-> Never]
      BY DEF newRender
    <3> QED BY <3>1 DEF Renders, Modes
  <2>3. /\ render \in Renders /\ render.streak \in Nat /\ render.start \in Nat \cup {Never}
        /\ at \in Nat /\ failed \in Seq(Nat)
    BY DEF FallbackInv, Renders
  <2> DEFINE inside == render.start # Never /\ (at <= render.start \/ at - render.start <= FailureWindow)
  <2>4. /\ counted \in Renders /\ counted.mode = "auto" /\ counted.path = "gpu"
        /\ inside => counted.streak = render.streak + 1 /\ counted.start = render.start
        /\ ~inside => counted.streak = 1 /\ counted.start = at
    <3>1. CASE inside
      <4>1. counted = [render EXCEPT !.streak = @ + 1] BY <3>1 DEF recordFailure
      <4> QED BY <1>2, <2>3, <3>1, <4>1 DEF Renders
    <3>2. CASE ~inside
      <4>1. counted = [render EXCEPT !.streak = 1, !.start = at] BY <3>2 DEF recordFailure
      <4>2. counted = [mode |-> "auto", path |-> "gpu", streak |-> 1, start |-> at]
        BY <1>2, <2>3, <4>1 DEF Renders
      <4> QED BY <2>3, <3>2, <4>2 DEF Renders, Modes
    <3> QED BY <3>1, <3>2
  <2> HIDE DEF counted, fallen
  <2>5. CASE immediate
    BY <2>1, <2>2, <2>5, ResetCounts
  <2>6. CASE ~immediate
    <3> DEFINE g == Append(failed, at)
               len == Len(failed)
    <3>1. failed' = g /\ g \in Seq(Nat) /\ render' \in Renders
      BY <2>1, <2>2, <2>3, <2>4, <2>6
    <3>2. ASSUME Ordered(g)
          PROVE  /\ render'.path = "gpu" => Counts(g, Len(g), render'.streak, render'.start)
                 /\ render'.path = "cpu" => IsEarned(g, Len(g))
      <4>1. /\ Extends(g, failed, len) /\ Ordered(failed) /\ len \in Nat /\ Len(g) = len + 1
            /\ g[len + 1] = at
        BY <2>3, <3>2, AppendExtends
      <4>2. Counts(failed, len, render.streak, render.start)
        BY <1>2, <4>1 DEF FallbackInv
      <4> HIDE DEF g, len
      <4>3. CASE inside
        <5>1. at - render.start <= FailureWindow BY <2>3, <4>3
        <5>2. /\ render.streak + 1 <= RetryBudget => Counts(g, len + 1, render.streak + 1, render.start)
              /\ render.streak + 1 > RetryBudget => IsEarned(g, len + 1)
          BY <2>3, <4>1, <4>2, <4>3, <5>1, FailureInWindow
        <5>3. counted.streak = render.streak + 1 /\ counted.start = render.start
          BY <2>4, <4>3
        <5>4. CASE render.streak + 1 > RetryBudget
          BY <2>1, <2>2, <4>1, <5>2, <5>3, <5>4
        <5>5. CASE render.streak + 1 <= RetryBudget
          BY <2>1, <2>3, <2>4, <2>6, <4>1, <5>2, <5>3, <5>5
        <5> QED BY <2>3, <5>4, <5>5
      <4>4. CASE ~inside
        <5>1. len > 0 => render.start # Never
          <6>1. len > 0 => /\ render.streak \in 1 .. RetryBudget /\ render.streak <= len
                           /\ render.start = failed[len - render.streak + 1]
            BY <4>2 DEF Counts
          <6>2. ASSUME len > 0 PROVE failed[len - render.streak + 1] \in Nat
            <7>1. len - render.streak + 1 \in 1 .. len BY <2>3, <4>1, <6>1, <6>2
            <7> QED BY <4>1, <7>1 DEF Extends
          <6> QED BY <6>1, <6>2 DEF Never
        <5>2. len > 0 => at - render.start > FailureWindow
          BY <2>3, <4>4, <5>1
        <5>3. Counts(g, len + 1, 1, at)
          BY <2>3, <4>1, <4>2, <5>2, FailureOpensWindow
        <5>4. counted.streak = 1 /\ counted.start = at BY <2>4, <4>4
        <5> QED BY <2>1, <2>4, <2>6, <4>1, <5>3, <5>4
      <4> QED BY <4>3, <4>4
    <3> QED BY <3>1, <3>2 DEF FallbackInv
  <2> QED BY <2>5, <2>6
<1> QED BY <1>1, <1>2

LEMMA RestKeepsCount == FallbackInv /\ UNCHANGED <<render, failed>> => FallbackInv'
BY DEF FallbackInv

LEMMA GpuEventCounts ==
  ASSUME FallbackInv,
         \/ \E immediate \in BOOLEAN, at \in Times : GpuFailure(immediate, at)
         \/ GpuFramePresented
         \/ \E rate \in Rates : ResyncCadence(rate)
  PROVE  FallbackInv'
<1>1. ASSUME NEW immediate, NEW at \in Times, GpuFailure(immediate, at) PROVE FallbackInv'
  BY <1>1, GpuFailureCounts
<1>2. CASE GpuFramePresented
  BY <1>2, RenderingResets, RestKeepsCount DEF GpuFramePresented, runtimeVars, Modes
<1>3. ASSUME NEW rate, ResyncCadence(rate) PROVE FallbackInv'
  BY <1>3, RestKeepsCount DEF ResyncCadence
<1> QED BY <1>1, <1>2, <1>3

(* The mode of the command line is a mode.                                  *)
ModeKnown == initialMode \in Modes

LEMMA ModeStaysKnown == ModeKnown /\ [ProgramNext]_programVars => ModeKnown'
<1> SUFFICES ASSUME ModeKnown, [ProgramNext]_programVars PROVE ModeKnown' OBVIOUS
<1>1. CASE \E mode \in Modes : StartRun(mode) BY <1>1 DEF StartRun, ModeKnown
<1>2. CASE UNCHANGED programVars BY <1>2 DEF programVars, ModeKnown
<1>3. CASE ProgramNext /\ ~ \E mode \in Modes : StartRun(mode)
  BY <1>3 DEF ProgramNext, ModeKnown, GuiClipboard, PlanShell, PaletteCommand, HarnessRefuses,
     HarnessStarts, HarnessSession, HarnessAsserts, HarnessRenders, HarnessEnds, GuiStarts,
     GuiPaletteKey, GuiSession, GuiRenders, GuiEnds, GuiFails, TtyStarts, TtyPaletteKey, TtyEnds,
     TtyFails, Ended, Goes, Ends
<1> QED BY <1>1, <1>2, <1>3

LEMMA StepKeepsCount == ModeKnown /\ FallbackInv /\ [ProgramNext]_programVars => FallbackInv'
<1> SUFFICES ASSUME ModeKnown, FallbackInv, [ProgramNext]_programVars PROVE FallbackInv' OBVIOUS
<1>1. CASE HarnessRenders
  <2>1. ASSUME NEW mode \in Modes, SetRenderMode(mode) PROVE FallbackInv'
    BY <2>1, RenderingResets DEF SetRenderMode
  <2> QED BY <1>1, <2>1, GpuEventCounts DEF HarnessRenders
<1>2. CASE GuiRenders BY <1>2, GpuEventCounts DEF GuiRenders
<1>3. ASSUME NEW rate \in Rates, HarnessStarts(rate) \/ GuiStarts(rate) PROVE FallbackInv'
  BY <1>3, NewRenderIsReset, ResetCounts DEF HarnessStarts, GuiStarts, Bootstrap, ModeKnown
<1>4. ASSUME NEW key \in PaletteKeys, GuiPaletteKey(key) PROVE FallbackInv'
  <2> DEFINE command == parseCommand(commandOfKey(key, settings.debug))
  <2>1. IF command.field = "mode" THEN SetRenderMode(command.value) ELSE UNCHANGED runtimeVars
    BY <1>4 DEF GuiPaletteKey
  <2>2. command.field = "mode" => command.value \in Modes BY PaletteKeysAreRead
  <2> QED BY <2>1, <2>2, RenderingResets, RestKeepsCount DEF SetRenderMode, runtimeVars
<1>5. CASE UNCHANGED programVars BY <1>5, RestKeepsCount DEF programVars, runtimeVars
<1>6. CASE /\ ProgramNext /\ ~HarnessRenders /\ ~GuiRenders
           /\ \A rate \in Rates : ~HarnessStarts(rate) /\ ~GuiStarts(rate)
           /\ \A key \in PaletteKeys : ~GuiPaletteKey(key)
  <2>1. UNCHANGED <<render, failed>>
    BY <1>6 DEF ProgramNext, GuiClipboard, PlanShell, PaletteCommand, StartRun, HarnessRefuses,
       HarnessSession, HarnessAsserts, HarnessEnds, GuiSession, GuiEnds, GuiFails, TtyStarts,
       TtyPaletteKey, TtyEnds, TtyFails, Ended, runtimeRests, runtimeVars
  <2> QED BY <2>1, RestKeepsCount
<1> QED BY <1>1, <1>2, <1>3, <1>4, <1>5, <1>6

(* The GPU is given up neither too early nor too late, for every budget,    *)
(* window and sequence of failures.                                         *)
THEOREM FallbackIsAlwaysEarned == ProgramSpec => []FallbackIsEarned
<1> DEFINE Inv == ModeKnown /\ FallbackInv
<1>1. ProgramInit => Inv
  <2> SUFFICES ASSUME ProgramInit PROVE Inv OBVIOUS
  <2>1. ModeKnown BY DEF ProgramInit, ModeKnown, Modes
  <2>2. newRender("auto") \in Renders /\ newRender("auto").streak = 0 /\ newRender("auto").start = Never
    BY NewRenderIsReset DEF Modes
  <2>3. Counts(<<>>, 0, 0, Never) BY DEF Counts, WindowsAreShort
  <2>4. <<>> \in Seq(Nat) /\ Len(<<>>) = 0 OBVIOUS
  <2> QED BY <2>1, <2>2, <2>3, <2>4 DEF ProgramInit, FallbackInv
<1>2. Inv /\ [ProgramNext]_programVars => Inv' BY ModeStaysKnown, StepKeepsCount
<1>3. FallbackInv => FallbackIsEarned
  <2> SUFFICES ASSUME FallbackInv, Ordered(failed), render.mode = "auto"
               PROVE  /\ render.path = "cpu" /\ failed # <<>> => IsEarned(failed, Len(failed))
                      /\ render.path = "gpu" => WindowsAreShort(failed, Len(failed))
    BY DEF FallbackIsEarned, IsEarned, WindowsAreShort
  <2> QED BY DEF FallbackInv, Counts
<1> QED BY <1>1, <1>2, <1>3, PTL DEF ProgramSpec

=============================================================================
