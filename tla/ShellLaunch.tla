------------------------------ MODULE ShellLaunch ------------------------------
(***************************************************************************)
(* Which shell the program launches (features/shell_integration): the       *)
(* request of the command line against what is on the PATH.  Fish is only   *)
(* launched together with the starship prompt; zsh stands in for it.        *)
(***************************************************************************)
EXTENDS Naturals, Sequences

Targets == {"fish", "zsh", "auto"}

Availabilities == [fish : BOOLEAN, starship : BOOLEAN, zsh : BOOLEAN]

Causes == {"fish", "starship", "fish and starship"}

Reasons == {"FishBaselineReady", "FishRequestedFallbackToZsh", "AutoSelectedFishBaseline",
            "AutoFallbackToZsh", "ZshRequested"}

Resolutions ==
  [requested : Targets, resolved : Targets, fallback : BOOLEAN, reason : Reasons,
   cause : Causes \cup {"none"}]

baselineReady(a) == a.fish /\ a.starship

baselineFailure(a) ==
  CASE baselineReady(a) -> "none"
    [] ~a.fish /\ ~a.starship -> "fish and starship"
    [] OTHER -> IF a.fish THEN "starship" ELSE "fish"

resolved(requested, shell, reason, cause) ==
  [requested |-> requested, resolved |-> shell, fallback |-> cause # "none",
   reason |-> reason, cause |-> cause]

fallbackReason(requested) ==
  CASE requested = "fish" -> "FishRequestedFallbackToZsh"
    [] requested = "auto" -> "AutoFallbackToZsh"
    [] OTHER -> "ZshRequested"

unresolved(requested, error) == resolved(requested, "none", error, "none")

(* Mutated form: fish alone is enough for the automatic choice. *)
resolveShellWithoutPrompt(requested, a) ==
  IF requested = "auto" /\ a.fish
  THEN resolved(requested, "fish", "AutoSelectedFishBaseline", "none")
  ELSE IF requested = "fish" /\ baselineReady(a)
  THEN resolved(requested, "fish", "FishBaselineReady", "none")
  ELSE IF a.zsh
  THEN resolved(requested, "zsh", fallbackReason(requested),
                IF requested = "zsh" THEN "none" ELSE baselineFailure(a))
  ELSE unresolved(requested, "FishBaselineUnavailableAndZshUnavailable")

(* resolve_shell; when it fails nothing is resolved, and the reason is the  *)
(* error.                                                                   *)
resolveShell(requested, a) ==
  IF requested # "zsh" /\ baselineReady(a)
  THEN resolved(requested, "fish",
                IF requested = "fish" THEN "FishBaselineReady" ELSE "AutoSelectedFishBaseline",
                "none")
  ELSE IF a.zsh
  THEN resolved(requested, "zsh", fallbackReason(requested),
                IF requested = "zsh" THEN "none" ELSE baselineFailure(a))
  ELSE unresolved(requested, IF requested = "zsh" THEN "ZshRequestedButUnavailable"
                             ELSE "FishBaselineUnavailableAndZshUnavailable")

launchReady(r) ==
  /\ r.resolved = "fish" /\ ~r.fallback /\ r.cause = "none"
  /\ r.reason \in {"FishBaselineReady", "AutoSelectedFishBaseline"}

(* normalize_resolution_for_launch_plan: a resolution is a public record,   *)
(* and one that contradicts itself is launched as a fall back to zsh.       *)
normalized(r) ==
  CASE r.requested = "zsh" -> resolved("zsh", "zsh", "ZshRequested", "none")
    [] r.requested # "zsh" /\ launchReady(r) -> r
    [] OTHER ->
         resolved(r.requested, "zsh", fallbackReason(r.requested),
                  CASE r.cause # "none" -> r.cause
                    [] r.cause = "none" /\ r.resolved # "zsh" -> "starship"
                    [] OTHER -> "fish and starship")

(* ShellLaunchPlan::from_resolution.                                        *)
launchPlan(r) ==
  LET n == normalized(r)
  IN  [resolution |-> n, executable |-> IF n.resolved = "fish" THEN "fish" ELSE "zsh",
       profile |-> CASE n.resolved = "fish" -> "FishStarshipBaseline"
                     [] n.resolved = "zsh" /\ ~n.fallback -> "ZshRequested"
                     [] OTHER -> "ZshFallback"]

(* What plan_shell_launch_with_hook tells its hook, in this order.          *)
shellEvents(requested, a) ==
  LET r == resolveShell(requested, a)
      event(kind, shell, cause) == [kind |-> kind, shell |-> shell, cause |-> cause]
  IN  IF r.resolved = "none"
      THEN <<event("ShellResolutionFailed", "none",
                   IF requested = "zsh" THEN "none" ELSE baselineFailure(a))>>
      ELSE (IF r.fallback THEN <<event("ShellFallbackApplied", r.resolved, r.cause)>> ELSE <<>>)
             \o <<event("ShellResolved", r.resolved, r.cause),
                  event("ShellLaunchPlanned", launchPlan(r).executable,
                        launchPlan(r).resolution.cause)>>

----------------------------------------------------------------------------
(* Properties.                                                              *)

Launchable(shell, a) == IF shell = "fish" THEN baselineReady(a) ELSE a.zsh

Wanted(requested) == IF requested = "zsh" THEN {"zsh"} ELSE {"fish", "zsh"}

(* The shell that is launched can be: it is the best of those the request   *)
(* admits that are there, the plan keeps what was resolved, the events name *)
(* it, and they call it a fall back exactly when fish could not be had.     *)
(* Only when none is there is none launched, and then the event says what   *)
(* is missing.  No resolution, however contradictory, launches fish without *)
(* its baseline, and to normalise twice changes nothing (resolve_shell,     *)
(* from_resolution, plan_shell_launch_with_hook).                           *)
LaunchedShellIsThere ==
  /\ \A requested \in Targets, a \in Availabilities :
       LET r == resolveShell(requested, a)
           events == shellEvents(requested, a)
           plan == launchPlan(r)
       IN  IF \E shell \in Wanted(requested) : Launchable(shell, a)
           THEN /\ plan.resolution = r /\ Launchable(plan.executable, a)
                /\ "fish" \in Wanted(requested) /\ baselineReady(a) => plan.executable = "fish"
                /\ events[Len(events)].shell = plan.executable
                /\ events[1].kind = "ShellFallbackApplied" <=>
                     requested # "zsh" /\ plan.profile = "ZshFallback"
                /\ plan.executable # "fish" /\ requested # "zsh" =>
                     r.cause = baselineFailure(a) /\ r.cause # "none"
           ELSE /\ r.resolved = "none" /\ Len(events) = 1
                /\ requested # "zsh" => events[1].cause # "none"
  /\ \A r \in Resolutions :
       /\ normalized(normalized(r)) = normalized(r)
       /\ launchPlan(r).executable = "fish" => launchReady(r) /\ r.requested # "zsh"

=============================================================================
