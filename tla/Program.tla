-------------------------------- MODULE Program --------------------------------
(***************************************************************************)
(* The program from its command line to its exit (app/src/main.rs) and the *)
(* UI runtime it starts (ui/src): the shell is planned, the commands of the *)
(* command line change the settings, and one of three runs follows.  The   *)
(* harness replays commands of the user on a UI runtime without a window;  *)
(* the GUI runtime sends its own, and when it fails the TTY runtime takes  *)
(* over, if there is a terminal.  What the PTY and the threads of the two  *)
(* interactive runtimes do is in GuiShutdown, OutputPump and TtyRuntime.   *)
(* Of the UI runtime the session is that of UiSession; the render mode     *)
(* controller has its clock here, in whole seconds.  The clipboard is a     *)
(* part of the GUI runtime.                                                 *)
(***************************************************************************)
EXTENDS Integers, UiSession, Settings, ShellLaunch, Clipboard

CONSTANTS
  RetryBudget,     \* AutoFallbackPolicy.retry_budget: 2 in the code
  FailureWindow,   \* AutoFallbackPolicy.failure_window: 3 seconds in the code
  Times,           \* bound: the seconds at which failures are observed
  MaxFailures,     \* bound: failures between two resets of the controller
  DefaultRate,     \* DEFAULT_REFRESH_RATE_MILLIHZ
  Rates,           \* the refresh rates a user or a monitor names, 0 for none
  PaletteInputs    \* the inputs of --palette-command

ASSUME ProgramAssumption ==
  /\ RetryBudget \in Nat \ {0} /\ FailureWindow \in Nat /\ MaxFailures \in Nat /\ Times \subseteq Nat
  /\ Rates \subseteq Nat /\ DefaultRate \in Rates \ {0}

VARIABLES
  phase,        \* where run() is
  initialMode,  \* the mode of the command line
  terminal,     \* stdin and stdout are terminals
  settings,     \* SettingsService.state
  render,       \* RenderModeController: mode, path, failure_streak, failure_window_start
  cadence,      \* RenderPacingController.cadence
  result,       \* what the process exits with
  script,       \* bound: a run is about the session, the clipboard or the other commands
  failed,       \* history: the failures since the controller was last reset
  sampled       \* history: the last refresh rate anybody named

sessionVars == vars
runtimeVars == <<render, cadence, failed, sampled>>
programVars == <<sessionVars, clipboardVars, runtimeVars, phase, initialMode, terminal, settings,
                 result, script>>

Modes == {"cpu", "gpu", "auto"}

ExitCodes == {-1, 0, 7}     \* the sentinel of an unknown exit, success, a failure

Never == -1                 \* no failure window is open

pathOf(mode) == IF mode = "cpu" THEN "cpu" ELSE "gpu"

newRender(mode) == [mode |-> mode, path |-> pathOf(mode), streak |-> 0, start |-> Never]

sanitizeRate(rate) == IF rate = 0 THEN DefaultRate ELSE rate

ProgramInit ==
  /\ Init /\ ClipboardInit
  /\ phase = "plan" /\ initialMode = "auto" /\ terminal = FALSE
  /\ settings = sanitized(defaultSettings)
  /\ render = newRender("auto") /\ cadence = DefaultRate /\ failed = <<>> /\ sampled = DefaultRate
  /\ result = <<>> /\ script \in {"session", "clipboard", "others"}

----------------------------------------------------------------------------
(* The UI runtime: the commands that are not the session's.                 *)

(* What a command leaves of the controller; a reset forgets the failures.   *)
Rendering(next) ==
  /\ render' = next /\ failed' = <<>>
  /\ UNCHANGED <<cadence, sampled>>

(* SetRenderMode: even the mode that is set already resets the controller,  *)
(* and auto returns to the GPU.                                             *)
SetRenderMode(mode) == Rendering(newRender(mode))

(* GpuFramePresented *)
GpuFramePresented ==
  \/ render.mode = "auto" /\ render.path = "gpu" /\ Rendering(newRender("auto"))
  \/ ~(render.mode = "auto" /\ render.path = "gpu") /\ UNCHANGED runtimeVars

(* Mutated form: every failure moves the window on. *)
recordFailureSliding(at) ==
  IF render.start # Never /\ (at <= render.start \/ at - render.start <= FailureWindow)
  THEN [render EXCEPT !.streak = @ + 1, !.start = at]
  ELSE [render EXCEPT !.streak = 1, !.start = at]

(* record_failure: the window begins with its first failure; a failure that *)
(* was observed before it counts as one within it (saturating_sub).         *)
recordFailure(at) ==
  IF render.start # Never /\ (at <= render.start \/ at - render.start <= FailureWindow)
  THEN [render EXCEPT !.streak = @ + 1] ELSE [render EXCEPT !.streak = 1, !.start = at]

(* GpuFailure: out of memory, a lost device and a missing backend fall back *)
(* at once, the other kinds when the budget is exceeded.                    *)
GpuFailure(immediate, at) ==
  IF render.mode # "auto" \/ render.path # "gpu" THEN UNCHANGED runtimeVars
  ELSE LET counted == recordFailure(at)
           exhausted == immediate \/ counted.streak > RetryBudget
       IN  /\ render' = IF exhausted THEN [newRender("auto") EXCEPT !.path = "cpu"] ELSE counted
           /\ failed' = IF immediate THEN <<>> ELSE Append(failed, at)
           /\ UNCHANGED <<cadence, sampled>>

(* ResyncCadence and ResyncCadenceAfterTransfer: a rate of 0 keeps what     *)
(* there is.  A transfer only differs in making older schedules stale.      *)
ResyncCadence(rate) ==
  /\ cadence' = IF rate = 0 THEN cadence ELSE rate
  /\ sampled' = IF rate = 0 THEN sampled ELSE rate
  /\ UNCHANGED <<render, failed>>

(* UiRuntime::bootstrap *)
Bootstrap(rate) ==
  /\ render' = newRender(initialMode) /\ failed' = <<>>
  /\ cadence' = sanitizeRate(rate) /\ sampled' = sanitizeRate(rate)

----------------------------------------------------------------------------
(* run() until one of the runs begins.                                      *)

Goes(to) == phase' = to /\ UNCHANGED <<initialMode, terminal, result, script>>

Ends(with) == phase' = "ended" /\ result' = with /\ UNCHANGED <<initialMode, terminal, script>>

runtimeRests == UNCHANGED sessionVars /\ UNCHANGED runtimeVars

ClipboardRests == UNCHANGED clipboardVars

PlanShell(requested, availability) ==
  /\ phase = "plan"
  /\ LET r == resolveShell(requested, availability)
     IN  IF r.resolved = "none" THEN Ends(<<"error">>) ELSE Goes("palette")
  /\ UNCHANGED settings /\ runtimeRests

(* --palette-command: a command that is rejected is only reported.          *)
PaletteCommand(words) ==
  /\ phase = "palette"
  /\ settings' = applyPaletteCommand(settings, words).settings
  /\ UNCHANGED <<phase, initialMode, terminal, result, script>> /\ runtimeRests

(* --mode has the last word, then the command line says which run it is.    *)
StartRun(mode) ==
  /\ phase = "palette"
  /\ settings' = applyCommand(settings, "mode", mode).settings
  /\ initialMode' = mode /\ terminal' \in BOOLEAN
  /\ phase' \in {"harness starts", "gui starts", "tty starts"}
  /\ UNCHANGED <<result, script>> /\ runtimeRests

----------------------------------------------------------------------------
(* The harness (app_harness.rs, UiRuntime::bootstrap_with_hooks): a profile *)
(* and --mvp-command are lists of commands, which may be any.               *)

(* A command that cannot be read, or another number of windows than one.    *)
HarnessRefuses ==
  /\ phase = "harness starts" /\ Ends(<<"error">>)
  /\ UNCHANGED settings /\ runtimeRests

HarnessStarts(rate) ==
  /\ phase = "harness starts" /\ Goes("harness") /\ Bootstrap(rate)
  /\ UNCHANGED <<sessionVars, settings>>

(* The first command that fails ends the run.                               *)
HarnessSession ==
  /\ phase = "harness" /\ script = "session" /\ Next
  /\ IF receipt'.outcome = "refused" THEN Ends(<<"error">>) ELSE Goes("harness")
  /\ UNCHANGED <<settings, runtimeVars>>

HarnessAsserts(windows) ==
  /\ phase = "harness"
  /\ IF windows = 1 THEN Goes("harness") ELSE Ends(<<"error">>)
  /\ UNCHANGED settings /\ runtimeRests

HarnessRenders ==
  /\ phase = "harness" /\ script = "others" /\ Goes("harness")
  /\ \/ \E mode \in Modes : SetRenderMode(mode)
     \/ \E immediate \in BOOLEAN, at \in Times :
          Len(failed) < MaxFailures /\ GpuFailure(immediate, at)
     \/ GpuFramePresented
     \/ \E rate \in Rates : ResyncCadence(rate)
  /\ UNCHANGED <<sessionVars, settings>>

HarnessEnds ==
  /\ phase = "harness" /\ Ends(<<"harness">>)
  /\ settings' = applyCommand(settings, "mode", render.mode).settings
  /\ runtimeRests

----------------------------------------------------------------------------
(* The GUI runtime, as far as it is the UI runtime and the settings.        *)

(* run_interactive_gui_pty and GuiRuntimeApp::new: the app has settings of  *)
(* its own, a copy, and starts the session with a Tick.                     *)
GuiStarts(rate) ==
  /\ phase = "gui starts" /\ Goes("gui") /\ Bootstrap(rate)
  /\ settings' = sanitized(settings)
  /\ Tick /\ receipt'.outcome = "Started"

(* A key of the palette; a command that changes nothing in the settings     *)
(* still reaches the UI runtime.                                            *)
GuiPaletteKey(key) ==
  LET words == commandOfKey(key, settings.debug)
      command == parseCommand(words)
  IN  /\ phase = "gui" /\ Goes("gui")
      /\ settings' = applyPaletteCommand(settings, words).settings
      /\ IF command.field = "mode" THEN SetRenderMode(command.value) ELSE UNCHANGED runtimeVars
      /\ UNCHANGED sessionVars

(* The boundaries of the PTY (handle_pty_boundary_failure); a call that     *)
(* works again recovers a degraded session, one that was fatal ends the     *)
(* loop.                                                                    *)
GuiSession ==
  /\ phase = "gui" /\ script = "session" /\ Goes("gui")
  /\ \/ session.state \in {"Running", "Degraded"}
        /\ \E boundary \in Boundaries : RecoverableBoundary(boundary) \/ FatalBoundary(boundary)
     \/ session.state = "Degraded" /\ Tick
  /\ UNCHANGED <<settings, runtimeVars>>

(* The clock of the GUI does not go back.                                   *)
GuiRenders ==
  /\ phase = "gui" /\ script = "others" /\ Goes("gui")
  /\ \/ \E immediate \in BOOLEAN, at \in Times :
          /\ Len(failed) < MaxFailures /\ \A n \in 1 .. Len(failed) : failed[n] <= at
          /\ GpuFailure(immediate, at)
     \/ GpuFramePresented
     \/ \E rate \in Rates : ResyncCadence(rate)
  /\ UNCHANGED <<sessionVars, settings>>

(* Selections that are copied, OSC 52, pastes, and the other programs.      *)
GuiClipboard ==
  /\ phase = "gui" /\ script = "clipboard" /\ Goes("gui") /\ ClipboardNext
  /\ UNCHANGED settings /\ runtimeRests

(* normalize_exit_code *)
exitOf(code) == IF code < 0 THEN 1 ELSE code

GuiEnds(code) ==
  /\ phase = "gui" /\ Ends(<<"exit", exitOf(code)>>)
  /\ UNCHANGED settings /\ runtimeRests

(* Whatever the GUI failed with, at its start or after hours, the TTY       *)
(* runtime starts a shell of its own.                                       *)
GuiFails ==
  /\ phase \in {"gui starts", "gui"}
  /\ IF terminal THEN Goes("tty starts") ELSE Ends(<<"error">>)
  /\ UNCHANGED settings /\ runtimeRests

----------------------------------------------------------------------------
(* The TTY runtime, as far as it is the settings: it has its own, without   *)
(* the palette commands of the command line.                                *)
TtyStarts ==
  /\ phase = "tty starts" /\ terminal /\ Goes("tty")
  /\ settings' = applyCommand(defaultSettings, "mode", initialMode).settings
  /\ runtimeRests

TtyPaletteKey(key) ==
  /\ phase = "tty" /\ Goes("tty")
  /\ settings' = applyPaletteCommand(settings, commandOfKey(key, settings.debug)).settings
  /\ runtimeRests

TtyEnds(code) ==
  /\ phase = "tty" /\ Ends(<<"exit", exitOf(code)>>)
  /\ UNCHANGED settings /\ runtimeRests

TtyFails ==
  /\ phase \in {"tty starts", "tty"} /\ Ends(<<"error">>)
  /\ UNCHANGED settings /\ runtimeRests

----------------------------------------------------------------------------
Ended ==
  /\ phase = "ended" /\ UNCHANGED <<phase, initialMode, terminal, settings, result, script>>
  /\ runtimeRests

ProgramNext ==
  \/ GuiClipboard
  \/ /\ ClipboardRests
     /\ \/ \E requested \in {"fish", "zsh"}, a \in Availabilities : PlanShell(requested, a)
        \/ \E words \in PaletteInputs : PaletteCommand(words)
        \/ \E mode \in Modes : StartRun(mode)
        \/ HarnessRefuses \/ HarnessSession \/ HarnessRenders \/ HarnessEnds
        \/ \E windows \in 0 .. 2 : HarnessAsserts(windows)
        \/ \E rate \in Rates : HarnessStarts(rate) \/ GuiStarts(rate)
        \/ GuiSession \/ GuiRenders \/ GuiFails \/ TtyStarts \/ TtyFails
        \/ \E key \in PaletteKeys : GuiPaletteKey(key) \/ TtyPaletteKey(key)
        \/ \E code \in ExitCodes : GuiEnds(code) \/ TtyEnds(code)
        \/ Ended

ProgramSpec == ProgramInit /\ [][ProgramNext]_programVars

----------------------------------------------------------------------------
(* Properties.                                                              *)

(* The settings and the UI runtime say the same: the mode the user sees in  *)
(* the palette is the one frames are drawn in, a forced mode has its path,  *)
(* and the cadence is the last one anybody named, never none (debug_assert  *)
(* in GuiRuntimeApp::new, handle_palette_action, resync).                   *)
RuntimeFollowsSettings ==
  /\ phase = "gui" \/ result = <<"harness">> => settings.mode = render.mode
  /\ phase \in {"gui", "harness"} =>
       /\ render.mode # "auto" => render.path = pathOf(render.mode)
       /\ cadence = sampled /\ cadence # 0

(* Settings never contradict themselves, in whatever order commands are     *)
(* given, so that a profile that is exported is accepted and changes        *)
(* nothing (apply, sanitize_settings_state, RuntimeProfileState::validate). *)
SettingsStayValid ==
  applyProfile(settings, exportProfile(settings)) = [outcome |-> "Noop", settings |-> settings]

(* The user's settings hold together, and the runtime follows them.         *)
SettingsHold == RuntimeFollowsSettings /\ SettingsStayValid

Ordered(times) == \A m, n \in 1 .. Len(times) : m <= n => times[m] <= times[n]

(* The controller gives the GPU up neither too early nor too late: when it  *)
(* falls back without an immediate failure, RetryBudget + 1 failures lie in *)
(* one window, with no frame between them; and as long as it does not, no   *)
(* window holds twice the budget, which is more than the budget because a   *)
(* window begins with its first failure (record_failure).  Both are of      *)
(* times in order: the harness can give others.                             *)
FallbackIsEarned ==
  Ordered(failed) /\ render.mode = "auto" =>
    /\ render.path = "cpu" /\ failed # <<>> =>
         /\ Len(failed) > RetryBudget
         /\ failed[Len(failed)] - failed[Len(failed) - RetryBudget] <= FailureWindow
    /\ render.path = "gpu" => \A first, last \in 1 .. Len(failed) :
         first <= last /\ failed[last] - failed[first] <= FailureWindow => last - first + 1 < 2 * RetryBudget

(* The session of the UI runtime keeps the policy of UiSession, whoever     *)
(* sends the commands.                                                      *)
SessionKeepsPolicy == []BudgetBoundsFailures /\ StoppingStays /\ ShellIsSettled

=============================================================================
