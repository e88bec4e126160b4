------------------------------- MODULE Clipboard -------------------------------
(***************************************************************************)
(* The clipboard of the GUI runtime (foundation-platform/src/clipboard.rs): *)
(* that of the system, and a text of the program's own that stands in for   *)
(* it while the system's fails.  Each call holds the one lock, so that a    *)
(* call is a step; clear has no caller in the program and is left out.  A   *)
(* text is known by its author, its characters and the bytes of each.       *)
(***************************************************************************)
EXTENDS Naturals

CONSTANTS
  MaxInitRetries,   \* MAX_BACKEND_INIT_RETRIES: 5 in the code
  CapBytes,         \* MAX_FALLBACK_CLIPBOARD_BYTES: 64 KiB in the code
  Texts             \* bound: the texts that are copied

ASSUME ClipboardAssumption ==
  /\ MaxInitRetries \in Nat \ {0} /\ CapBytes \in Nat
  /\ Texts \subseteq [by : {"program", "others"}, length : Nat \ {0}, width : Nat \ {0}]

VARIABLES
  backend,        \* the program holds a clipboard of the system
  backendMode,
  health,
  initFailures,   \* backend_init_failures
  fallback,       \* fallback_text
  system,         \* what the clipboard of the system holds, whoever copied it
  pasted,         \* what a paste has just been answered
  copied,         \* history: the last text anybody copied
  drift           \* history: how the two clipboards came apart since it was copied

clipboardVars ==
  <<backend, backendMode, health, initFailures, fallback, system, pasted, copied, drift>>

NoText == [by |-> "nobody", length |-> 0, width |-> 1]

(* cap_fallback_text, cap_text_in_place: the whole characters that fit.     *)
capped(text) ==
  [text EXCEPT !.length = IF @ * text.width <= CapBytes THEN @ ELSE CapBytes \div text.width]

ClipboardInit ==
  /\ backend = FALSE /\ backendMode = "uninitialized" /\ health = "unavailable"
  /\ initFailures = 0 /\ fallback = NoText /\ system = NoText /\ pasted = NoText
  /\ copied = NoText /\ drift = "none"

----------------------------------------------------------------------------
(* What every call begins with (ensure_backend), and what its call of the   *)
(* backend comes to.                                                        *)

Unsupported ==
  backend' = FALSE /\ backendMode' = "permanently unavailable" /\ health' = "unavailable"

GivenUp ==
  /\ ~backend /\ backendMode = "permanently unavailable" /\ health' = "unavailable"
  /\ UNCHANGED <<backend, backendMode, initFailures>>

(* A backend cannot be had; it is tried again by the next call, so many     *)
(* times.                                                                   *)
StartFails ==
  /\ ~backend /\ backendMode # "permanently unavailable"
  /\ \/ Unsupported /\ UNCHANGED initFailures
     \/ /\ initFailures' = initFailures + 1
        /\ IF initFailures' >= MaxInitRetries THEN Unsupported
           ELSE backend' = FALSE /\ backendMode' = "uninitialized" /\ health' = "degraded"

Served ==
  /\ backend \/ backendMode # "permanently unavailable"
  /\ initFailures' = IF backend THEN initFailures ELSE 0

CallWorks ==
  Served /\ backend' = TRUE /\ backendMode' = "ready" /\ health' = "available"

(* apply_runtime_failure: an error keeps the backend, unless it says that   *)
(* there is no clipboard.                                                   *)
CallFails ==
  /\ Served
  /\ \/ backend' = TRUE /\ backendMode' = "ready" /\ health' = "degraded"
     \/ Unsupported

GoesWithout == GivenUp \/ StartFails \/ CallFails

----------------------------------------------------------------------------
(* A selection that is released, or OSC 52.                                 *)
SetText(text) ==
  /\ fallback' = capped(text) /\ copied' = text /\ pasted' = NoText
  /\ \/ CallWorks /\ system' = text /\ drift' = "none"
     \/ GoesWithout /\ UNCHANGED system /\ drift' = "unsent"

(* Mutated form: a text that was read does not replace the program's own. *)
GetTextUnkept ==
  /\ \/ /\ CallWorks /\ system # NoText /\ pasted' = capped(system)
        /\ drift' = IF drift \in {"unsent", "lost"} THEN "lost" ELSE "none"
     \/ GoesWithout /\ pasted' = fallback /\ UNCHANGED drift
  /\ UNCHANGED <<system, copied, fallback>>

(* A paste.  With nothing on the system's clipboard its call fails.         *)
GetText ==
  /\ \/ /\ CallWorks /\ system # NoText
        /\ pasted' = capped(system) /\ fallback' = capped(system)
        /\ drift' = IF drift \in {"unsent", "lost"} THEN "lost" ELSE "none"
     \/ GoesWithout /\ pasted' = fallback /\ UNCHANGED <<fallback, drift>>
  /\ UNCHANGED <<system, copied>>

(* Another program copies a text.                                           *)
OthersCopy(text) ==
  /\ system' = text /\ copied' = text /\ drift' = "unseen" /\ pasted' = NoText
  /\ UNCHANGED <<backend, backendMode, health, initFailures, fallback>>

ClipboardNext ==
  \/ \E text \in Texts : IF text.by = "program" THEN SetText(text) ELSE OthersCopy(text)
  \/ GetText

----------------------------------------------------------------------------
(* Properties.                                                              *)

(* A paste answers what was copied last, whole characters of it, whoever    *)
(* copied it, whatever calls of the system's clipboard failed in between,   *)
(* and also when it has been given up.  There are two ways out: a copy of   *)
(* another program that could never be read, and a copy of this one that    *)
(* did not reach the system's clipboard, where a later call then read the   *)
(* text before it and dropped the copy (set_text, get_text).                *)
PasteIsTheLastCopy ==
  /\ pasted # NoText /\ drift \in {"none", "unsent"} => pasted = capped(copied)
  /\ fallback.length * fallback.width <= CapBytes
  /\ backend <=> backendMode = "ready"
  /\ health = "available" => backend

=============================================================================
