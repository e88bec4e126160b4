-------------------------------- MODULE Keys --------------------------------
(***************************************************************************)
(* What the program in the terminal gets for a key: the encoder of the     *)
(* core (core/src/input.rs) and the two front ends that describe a key to  *)
(* it (interaction/src/input.rs): crossterm in the TTY runtime, winit in   *)
(* the GUI runtime.  The keyboard has the US layout.                       *)
(*                                                                         *)
(* An encoding is a record: its form and code, the modifiers, the kind of  *)
(* event, the alternate key and the text, each 0 or "" where the bytes     *)
(* have no such field.  Two encodings are equal just when the bytes are.   *)
(***************************************************************************)
EXTENDS Naturals, FiniteSets

VARIABLE modes   \* what the program has set: cursor keys, the flags of kitty, Meta and Alt

Characters == {"a", "1", "[", " "}
\* One function key of each way to encode one.
FunctionKeys == {"Up", "Home", "Delete", "F1", "F5", "F13"}
OwnKeys == {"Enter", "Tab", "Backspace", "Escape"}
AllKeys == Characters \cup FunctionKeys \cup OwnKeys
Kinds == {"press", "repeat", "release"}

\* A stroke: what the hands do.
Strokes == [key : AllKeys, mods : SUBSET {"shift", "alt", "control", "super"}, kind : Kinds]

Shifted == [c \in Characters |-> CASE c = "a" -> "A" [] c = "1" -> "!" [] c = "[" -> "{" [] OTHER -> c]

ModifierBits(mods) ==
  LET bit(m, n) == IF m \in mods THEN n ELSE 0
  IN 1 + bit("shift", 1) + bit("alt", 2) + bit("control", 4) + bit("super", 8)

Bytes(form, code) == [form |-> form, code |-> code, mods |-> 0, event |-> 0, other |-> "", text |-> ""]
Nothing == Bytes("none", "")
Text(t) == Bytes("text", t)
EscText(t) == Bytes("esc", t)

\* A key event of the core: a character with what Shift and the layout make of it.
Event(s, shifted, text) ==
  [key |-> s.key, mods |-> s.mods, kind |-> s.kind, shifted |-> shifted, text |-> text]

----------------------------------------------------------------------------
(* The legacy encoding.                                                     *)

AltSendsEscape == modes.metaEscape \/ modes.altEscape

CtrlByte(c) == CASE c = "a" -> Text("ctrl-a") [] c = "[" -> Text("esc") [] OTHER -> Nothing

CharacterText(e) ==
  CASE e.text # "" -> e.text
    [] e.text = "" /\ "shift" \in e.mods /\ e.shifted # "" -> e.shifted
    [] OTHER -> e.key

\* Super does not reach the keys that have no text.
LegacyMods(mods) == LET n == ModifierBits(mods \ {"super"}) IN IF n > 1 THEN n ELSE 0

LegacyFunctionKey(key, mods) ==
  LET n == LegacyMods(mods)
      csi(code) == [Bytes("csi", code) EXCEPT !.mods = n]
  IN CASE key \in {"Up", "Home"} /\ n = 0 /\ modes.cursorKeys -> Bytes("ss3", key)
       [] key = "F1" /\ n = 0 -> Bytes("ss3", key)
       [] key = "F13" -> csi("25~")
       [] OTHER -> csi(key)

LegacyOwnKey(key, mods) ==
  CASE key = "Enter" -> Text("return")
    [] key = "Escape" -> Text("esc")
    [] key = "Backspace" -> IF "alt" \in mods /\ "control" \notin mods /\ AltSendsEscape
                            THEN EscText("del") ELSE Text("del")
    [] key = "Tab" -> CASE {"alt", "control"} \cap mods # {} -> Nothing
                        [] "shift" \in mods -> Bytes("csi", "Z")
                        [] OTHER -> Text("tab")

LegacyCharacter(e) ==
  CASE "control" \in e.mods -> CtrlByte(e.key)
    [] "super" \in e.mods -> Nothing
    [] "alt" \in e.mods /\ AltSendsEscape -> EscText(CharacterText(e))
    [] OTHER -> Text(CharacterText(e))

EncodeLegacy(e) ==
  CASE e.key \in Characters -> LegacyCharacter(e)
    [] e.key \in OwnKeys -> LegacyOwnKey(e.key, e.mods)
    [] OTHER -> LegacyFunctionKey(e.key, e.mods)

----------------------------------------------------------------------------
(* The encoding of kitty.                                                   *)

Kitty(flag) == flag \in modes.kitty

KittyEvent(kind) ==
  CASE ~Kitty("events") \/ kind = "press" -> 0
    [] Kitty("events") /\ kind = "repeat" -> 2
    [] OTHER -> 3

(* Mutated form: the modifiers as xterm counts them, without Super. *)
WithModsOfXterm(bytes, e) ==
  LET n == ModifierBits(e.mods \ {"super"})
      kind == KittyEvent(e.kind)
  IN [bytes EXCEPT !.mods = IF n > 1 \/ kind > 0 THEN n ELSE 0, !.event = kind]

\* kitty_modifier_field: the modifiers stand before the kind, even when there are none.
WithMods(bytes, e) ==
  LET n == ModifierBits(e.mods)
      kind == KittyEvent(e.kind)
  IN [bytes EXCEPT !.mods = IF n > 1 \/ kind > 0 THEN n ELSE 0, !.event = kind]

KittyCsiU(code, e) ==
  [WithMods(Bytes("csi u", code), e) EXCEPT
     !.other = IF Kitty("alternates") /\ "shift" \in e.mods /\ e.shifted # e.key THEN e.shifted ELSE "",
     !.text = IF Kitty("text") /\ Kitty("all") THEN e.text ELSE ""]

KittyFunctionKey(e) ==
  IF e.key = "F13" THEN KittyCsiU("F13", e) ELSE WithMods(Bytes("csi", e.key), e)

EncodeKitty(e) ==
  CASE e.kind = "release" /\ ~Kitty("events") -> Nothing
    [] e.kind # "press" /\ ~Kitty("all") /\ e.key \in Characters \cup {"Enter", "Tab", "Backspace"} -> Nothing
    [] e.key \in FunctionKeys -> IF Kitty("all") \/ e.kind # "press" THEN KittyFunctionKey(e) ELSE EncodeLegacy(e)
    [] OTHER -> KittyCsiU(e.key, e)

\* encode_runtime_key_event
Encode(e) ==
  CASE modes.kitty # {} -> EncodeKitty(e)
    [] modes.kitty = {} /\ e.kind = "release" -> Nothing
    [] OTHER -> EncodeLegacy(e)

----------------------------------------------------------------------------
(* The front ends.                                                          *)

Typed(s) == IF "shift" \in s.mods THEN Shifted[s.key] ELSE s.key

\* canonicalize_crossterm_character turns the character back into its key; this is the shifted one.
CanonicalShift(s) == IF Typed(s) # s.key THEN Typed(s) ELSE ""

FromCrossterm(s) ==
  IF s.key \in Characters THEN Event(s, CanonicalShift(s), Typed(s)) ELSE Event(s, "", "")

CrosstermBytes(s) == Encode(FromCrossterm(s))

(* The text of a winit event.  A key that is let go has none; whether a key *)
(* with a control character of its own has it as its text (named) is up to  *)
(* the platform.                                                            *)
WinitText(s, named) ==
  CASE s.kind = "release" -> ""
    [] s.kind # "release" /\ s.key \in Characters -> Typed(s)
    [] s.key = "Enter" /\ named -> "return"
    [] s.key = "Tab" /\ named -> "tab"
    [] s.key = "Escape" /\ named -> "esc"
    [] s.key = "Backspace" /\ named -> "backspace"
    [] OTHER -> ""

\* runtime_key_event_from_winit_input: no control characters in the text.
FromWinit(s, named) ==
  Event(s, IF s.key \in Characters /\ "shift" \in s.mods /\ Typed(s) # s.key THEN Typed(s) ELSE "",
        IF s.key \in Characters THEN WinitText(s, named) ELSE "")

\* A space bar is a named key for winit, and known by its text alone.
IsUnknownToWinit(s) == s.key = " " /\ s.kind = "release"

WinitTextBytes(text, mods) ==
  CASE text = "" \/ "control" \in mods \/ "super" \in mods -> Nothing
    [] "alt" \in mods /\ AltSendsEscape -> EscText(text)
    [] OTHER -> Text(text)

\* encode_winit_key_event: text first, as long as the program has not asked for kitty's keys
WinitBytes(s, named) ==
  LET text == WinitTextBytes(WinitText(s, named), s.mods) IN
  CASE modes.kitty = {} /\ text # Nothing -> text
    [] IsUnknownToWinit(s) -> Nothing
    [] OTHER -> Encode(FromWinit(s, named))

----------------------------------------------------------------------------
InitKeys == modes = [cursorKeys |-> FALSE, kitty |-> {}, metaEscape |-> TRUE, altEscape |-> FALSE]

SetMode ==
  \/ modes' = [modes EXCEPT !.cursorKeys = ~@]
  \/ modes' = [modes EXCEPT !.metaEscape = ~@]
  \/ modes' = [modes EXCEPT !.altEscape = ~@]
  \/ \E flags \in SUBSET {"disambiguate", "events", "alternates", "all", "text"} :
       modes' = [modes EXCEPT !.kitty = flags]
=============================================================================
