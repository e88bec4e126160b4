------------------------------- MODULE Parser -------------------------------
(***************************************************************************)
(* The parser of the terminal interpreter (core/src/parser): bytes to      *)
(* actions.  A parser is a record, a handler an operator from a parser and *)
(* a byte to a parser; "out" collects the actions of the call, as the      *)
(* Vec the code passes along.                                              *)
(*                                                                         *)
(* A byte is a string: a printable character stands for itself, the others *)
(* have names.  UTF-8 is kept as what decoding distinguishes: the first    *)
(* byte of a character of two or three bytes, a continuation byte, and a   *)
(* byte no character has.  A character is the sequence of its bytes.  The  *)
(* text of an unsupported sequence is left out.                            *)
(***************************************************************************)
EXTENDS Integers, SequencesExt, TLC

CONSTANTS
  None,                               \* an absent parameter
  MAX_CSI_LEN, MAX_OSC_LEN, MAX_DCS_LEN,              \* the caps of the buffers
  MAX_CSI_PARAMS, MAX_SGR_PARAMS, MAX_SGR_SUBPARAMS   \* and of the parameters

ASSUME ParserAssumption ==
  /\ {MAX_CSI_LEN, MAX_OSC_LEN, MAX_DCS_LEN, MAX_SGR_SUBPARAMS} \subseteq Nat
  /\ MAX_CSI_PARAMS \in Nat \ {0} /\ MAX_SGR_PARAMS \in Nat \ {0}

ParseStates == {"Ground", "Escape", "Csi", "CsiDiscard", "Osc", "OscDiscard", "OscEsc", "Dcs", "DcsEsc"}

FreshParser ==
  [state |-> "Ground", text |-> <<>>, csi |-> <<>>, dropped |-> 0, osc |-> <<>>, dcs |-> <<>>,
   out |-> <<>>]

Push(p, actions) == [p EXCEPT !.out = @ \o actions]

ResetStateToGround(p) ==
  [p EXCEPT !.state = "Ground", !.csi = <<>>, !.dropped = 0, !.osc = <<>>, !.dcs = <<>>]

Unsupported == <<"UnsupportedSequence">>
Replacement == <<"Print", "U+FFFD">>

-----------------------------------------------------------------------------
(* Text: what std::str::from_utf8 finds, and flush_text_buffer makes of it *)

LeadBytes  == [lead2 |-> 1, lead3 |-> 2]   \* the continuation bytes a first byte asks for
NeverFirst == {"cont", "bad"}

\* The continuation bytes behind the first, as far as it asks for them.
Continued(s) ==
  LET wanted == IF s[1] \in DOMAIN LeadBytes THEN LeadBytes[s[1]] ELSE 0
  IN CHOOSE n \in 0..wanted :
       /\ Len(s) > n /\ \A i \in 2..(n + 1) : s[i] = "cont"
       /\ n = wanted \/ Len(s) = n + 1 \/ s[n + 2] # "cont"

\* The first thing in s: a character, an error of some bytes, or the start of a character.
Decoded(s) ==
  LET n == Continued(s)
  IN CASE s[1] \in NeverFirst -> [kind |-> "error", len |-> 1]
       [] s[1] \in DOMAIN LeadBytes /\ n < LeadBytes[s[1]] ->
            [kind |-> IF Len(s) = n + 1 THEN "incomplete" ELSE "error", len |-> n + 1]
       [] OTHER -> [kind |-> "char", len |-> n + 1]

\* emit_text: one character is a Print, several are one PrintText.
EmitText(chars) ==
  CASE chars = <<>>    -> <<>>
    [] Len(chars) = 1 -> << <<"Print", chars[1]>> >>
    [] Len(chars) > 1 -> << <<"PrintText", chars>> >>

RECURSIVE Flushed(_, _, _, _)
(* The text from here on, chars being the valid prefix so far: the actions and the bytes kept. *)
Flushed(s, chars, out, allowIncompleteTail) ==
  IF s = <<>> THEN [out |-> out \o EmitText(chars), kept |-> <<>>]
  ELSE LET d    == Decoded(s)
           rest == SubSeq(s, d.len + 1, Len(s))
       IN CASE d.kind = "char" ->
                 Flushed(rest, Append(chars, SubSeq(s, 1, d.len)), out, allowIncompleteTail)
            [] d.kind = "error" ->
                 Flushed(rest, <<>>, out \o EmitText(chars) \o <<Replacement>>, allowIncompleteTail)
            [] d.kind = "incomplete" /\ allowIncompleteTail ->
                 [out |-> out \o EmitText(chars), kept |-> s]
            [] d.kind = "incomplete" /\ ~allowIncompleteTail ->
                 [out |-> out \o EmitText(chars) \o <<Replacement>>, kept |-> <<>>]

FlushTextBuffer(p, allowIncompleteTail) ==
  LET f == Flushed(p.text, <<>>, p.out, allowIncompleteTail)
  IN [p EXCEPT !.out = f.out, !.text = f.kept]

-----------------------------------------------------------------------------
(* Parameters.                                                             *)

Digits == [d \in {"0", "1", "2", "3", "4", "5", "6", "7", "8", "9"} |->
             CHOOSE n \in 0..9 : ToString(n) = d]
U16Max == 65535

AllIn(s, bytes) == \A i \in DOMAIN s : s[i] \in bytes
Saturated(s) == FoldLeft(LAMBDA n, d : IF n * 10 + Digits[d] > U16Max THEN U16Max ELSE n * 10 + Digits[d], 0, s)

\* A run of digits as a parameter: absent when there are none, saturating otherwise.
Parameter(s) == IF s = <<>> THEN None ELSE Saturated(s)

\* str::parse::<u16>, which refuses what the parameters saturate.
ParsedU16(s) ==
  IF s = <<>> \/ ~AllIn(s, DOMAIN Digits) THEN None
  ELSE FoldLeft(LAMBDA n, d : IF n = None \/ n * 10 + Digits[d] > U16Max THEN None
                              ELSE n * 10 + Digits[d], 0, s)

\* The fields of s between separators: one more than there are separators.
Split(s, separator) ==
  FoldLeft(LAMBDA fields, c : IF c = separator THEN Append(fields, <<>>)
                              ELSE [fields EXCEPT ![Len(fields)] = Append(@, c)],
           << <<>> >>, s)

\* split_once: what stands before the first separator and behind it; without one, <<s>>.
SplitOnce(s, separator) ==
  IF ~Contains(s, separator) THEN <<s>>
  ELSE LET i == CHOOSE i \in DOMAIN s : s[i] = separator /\ \A j \in 1..(i - 1) : s[j] # separator
       IN <<SubSeq(s, 1, i - 1), SubSeq(s, i + 1, Len(s))>>

\* parse_params: a sequence of values, or Malformed.
Malformed == None
ParseParams(s) ==
  LET fields == Split(s, ";")
  IN CASE s = <<>> -> <<>>
       [] s # <<>> /\ AllIn(s, DOMAIN Digits \cup {";"}) /\ Len(fields) <= MAX_CSI_PARAMS ->
            [i \in DOMAIN fields |-> Parameter(fields[i])]
       [] OTHER -> Malformed

\* parse_sgr_params: parameters beyond the cap and subparameters beyond theirs are dropped.
SgrParam(field) ==
  LET parts == Split(field, ":")
  IN [value |-> Parameter(parts[1]),
      subs  |-> [i \in 1..(IF Len(parts) - 1 < MAX_SGR_SUBPARAMS THEN Len(parts) - 1
                           ELSE MAX_SGR_SUBPARAMS) |-> Parameter(parts[i + 1])]]
ParseSgrParams(s) ==
  LET fields == Split(s, ";")
  IN CASE s = <<>> -> <<>>
       [] s # <<>> /\ AllIn(s, DOMAIN Digits \cup {";", ":"}) ->
            [i \in 1..(IF Len(fields) < MAX_SGR_PARAMS THEN Len(fields) ELSE MAX_SGR_PARAMS) |->
               SgrParam(fields[i])]
       [] OTHER -> Malformed

ValueAt(params, i, default) == IF i \in DOMAIN params /\ params[i] # None THEN params[i] ELSE default
AtLeastOne(n) == IF n = 0 THEN 1 ELSE n
StepParam(params)        == AtLeastOne(ValueAt(params, 1, 1))
PositionParam(params, i) == AtLeastOne(ValueAt(params, i, 1)) - 1

-----------------------------------------------------------------------------
(* CSI.                                                                    *)

StepActions ==
  [A |-> "CursorUp", B |-> "CursorDown", C |-> "CursorForward", D |-> "CursorBack",
   E |-> "CursorNextLine", F |-> "CursorPreviousLine", Z |-> "CursorBackwardTab",
   L |-> "InsertLines", M |-> "DeleteLines", S |-> "ScrollUp", T |-> "ScrollDown",
   X |-> "EraseCharacters", P |-> "DeleteCharacters", b |-> "RepeatLastChar"]
  @@ ("@" :> "InsertCharacters")
DisplayModes == <<"Below", "Above", "All", "Scrollback">>
LineModes    == <<"Right", "Left", "All">>

\* The modes of CSI J and K: an absent one is 0, one beyond the table is unsupported.
ClearAction(name, modes, params) ==
  LET mode == ValueAt(params, 1, 0)
  IN IF mode < Len(modes) THEN <<name, modes[mode + 1]>> ELSE Unsupported

\* The value of a table at the first parameter, or unsupported.
Listed(table, params, default) ==
  LET v == ValueAt(params, 1, default) IN IF v \in DOMAIN table THEN table[v] ELSE Unsupported

ScrollRegionAction(params) ==
  LET bottom == ValueAt(params, 2, 0)
  IN <<"SetScrollRegion", PositionParam(params, 1), IF bottom = 0 THEN None ELSE bottom - 1>>

ParseStandardCsiAction(raw, final) ==
  LET params == ParseParams(raw)
      sgr    == ParseSgrParams(raw)
  IN CASE final = "m" -> IF sgr = Malformed THEN Unsupported ELSE <<"SetGraphicsRendition", sgr>>
       [] final # "m" /\ params = Malformed -> Unsupported
       [] final \in DOMAIN StepActions -> <<StepActions[final], StepParam(params)>>
       [] final \in {"H", "f"} -> <<"CursorPosition", PositionParam(params, 1), PositionParam(params, 2)>>
       [] final = "G" -> <<"CursorHorizontalAbsolute", PositionParam(params, 1)>>
       [] final = "d" -> <<"VerticalPositionAbsolute", PositionParam(params, 1)>>
       [] final = "J" -> ClearAction("ClearDisplay", DisplayModes, params)
       [] final = "K" -> ClearAction("ClearLine", LineModes, params)
       [] final = "s" -> <<"CursorSavePosition">>
       [] final = "u" -> <<"CursorRestorePosition">>
       [] final = "r" -> ScrollRegionAction(params)
       [] final = "c" -> Listed(0 :> <<"SendPrimaryDA">>, params, 0)
       [] final = "t" -> Listed((14 :> <<"SendWindowSizePixels">>) @@ (18 :> <<"SendWindowSizeChars">>), params, 0)
       [] final = "n" -> Listed((5 :> <<"SendDeviceOk">>) @@ (6 :> <<"SendDeviceStatusReport">>), params, 0)
       [] final = "g" -> <<"TabClear", ValueAt(params, 1, 0)>>
       [] OTHER -> Unsupported

\* DECSCUSR is the only sequence with an intermediate byte that is known.
ParseCsiWithIntermediate(raw, intermediate, final) ==
  LET params == ParseParams(raw)
      shape  == ValueAt(params, 1, 0)
  IN IF params # Malformed /\ intermediate = " " /\ final = "q"
     THEN <<"SetCursorShape", IF shape > 6 THEN 6 ELSE shape>>
     ELSE Unsupported

PrivateToggles ==
  (1 :> "ApplicationCursorKeys") @@ (5 :> "SetReverseVideo") @@ (6 :> "SetOriginMode") @@
  (7 :> "AutoWrapMode") @@ (12 :> "SetCursorBlink") @@ (25 :> "SetCursorVisible") @@
  (1004 :> "SetFocusReporting") @@ (1007 :> "SetAlternateScroll") @@ (1039 :> "SetAltSendsEscape") @@
  (2004 :> "BracketedPasteMode") @@ (2026 :> "SetSynchronizedOutput") @@ (2027 :> "SetGraphemeClusterMode")
MouseTracking == (9 :> "X10") @@ (1000 :> "Basic") @@ (1002 :> "ButtonTrack") @@ (1003 :> "AnyEvent")
ScreenSwitches ==
  (1049 :> <<"AlternateScreenEnter", "AlternateScreenLeave">>) @@
  (47 :> <<"AlternateScreenEnterSimple", "AlternateScreenLeaveSimple">>) @@
  (1047 :> <<"AlternateScreenEnterSimple", "AlternateScreenLeaveSimple">>) @@
  (1048 :> <<"CursorSavePositionDec", "CursorRestorePositionDec">>)

\* None for a mode that is not known.  1036 is kept inverted.
PrivateModeAction(mode, final) ==
  LET on == final = "h"
  IN CASE final \notin {"h", "l"}      -> None
       [] mode \in DOMAIN PrivateToggles -> <<PrivateToggles[mode], on>>
       [] mode \in DOMAIN MouseTracking  -> <<"SetMouseMode", IF on THEN MouseTracking[mode] ELSE "Off">>
       [] mode = 1006 -> <<"SetMouseFormat", IF on THEN "Sgr" ELSE "Normal">>
       [] mode = 1036 -> <<"SetMetaSendsEscape", ~on>>
       [] mode \in DOMAIN ScreenSwitches -> <<ScreenSwitches[mode][IF on THEN 1 ELSE 2]>>
       [] OTHER -> None

\* Known modes in their order, unknown ones passed over; nothing known is unsupported, and
\* parameters that cannot be read are ignored without a word.
DispatchPrivateCsi(raw, final) ==
  LET params  == ParseParams(raw)
      known   == IF params = Malformed THEN <<>>
                 ELSE SelectSeq([i \in DOMAIN params |->
                        IF params[i] = None THEN None ELSE PrivateModeAction(params[i], final)],
                        LAMBDA a : a # None)
      request == ParseParams(Front(raw))
  IN CASE raw # <<>> /\ Last(raw) = "$" /\ final = "p" ->
            IF request # Malformed /\ ValueAt(request, 1, None) # None
            THEN << <<"RequestModeReport", request[1]>> >> ELSE <<Unsupported>>
       [] ~(raw # <<>> /\ Last(raw) = "$" /\ final = "p") /\ params = Malformed -> <<>>
       [] OTHER -> IF known = <<>> THEN <<Unsupported>> ELSE known

\* CSI > ...: the kitty push, secondary DA, XTVERSION.
GtCsiAction(raw, final) ==
  LET params == ParseParams(raw)
  IN CASE final = "u" /\ params # Malformed -> <<"PushKittyKeyboardMode", ValueAt(params, 1, 0)>>
       [] final = "c" -> <<"SendSecondaryDA">>
       [] final = "q" -> <<"SendXtversion">>
       [] OTHER -> Unsupported

\* CSI < Ps u pops Ps entries of the kitty stack, at least one.
LtCsiAction(raw, final) ==
  LET params == ParseParams(raw)
  IN IF final = "u" /\ params # Malformed THEN <<"PopKittyKeyboardMode", StepParam(params)>>
     ELSE Unsupported

Intermediates == {" ", "!", "$", "'", "/"}   \* of 0x20 to 0x2F, those the alphabets hold

\* complete_csi: the actions of the sequence in the buffer, whose last byte is the final one.
CsiActions(csi) ==
  LET final == Last(csi)
      raw   == Front(csi)
      rest  == Tail(raw)
  IN CASE raw # <<>> /\ Head(raw) = "?" ->
            IF final = "u" /\ rest = <<>> THEN << <<"QueryKittyKeyboardMode">> >>
            ELSE DispatchPrivateCsi(rest, final)
       [] raw # <<>> /\ Head(raw) = ">" -> <<GtCsiAction(rest, final)>>
       [] raw # <<>> /\ Head(raw) = "<" -> <<LtCsiAction(rest, final)>>
       [] raw # <<>> /\ Head(raw) \notin {"?", ">", "<"} /\ Last(raw) \in Intermediates ->
            <<ParseCsiWithIntermediate(Front(raw), Last(raw), final)>>
       [] OTHER -> <<ParseStandardCsiAction(raw, final)>>

\* is_csi_final_byte: 0x40 to 0x7E, which are the printable bytes but these and the digits.
NotFinal == DOMAIN Digits \cup Intermediates \cup {";", ":", "<", "=", ">", "?", "lead2", "lead3", "cont", "bad",
                                                   "ESC", "BEL", "LF", "CR", "BS", "TAB", "NUL", "CAN"}

EmitOversizedCsi(p) ==
  Push(p, << <<"IngestDegraded", "CsiSequenceTooLong", MAX_CSI_LEN, AtLeastOne(p.dropped)>>, Unsupported>>)

HandleCsiByte(p, byte) ==
  LET kept == [p EXCEPT !.csi = Append(@, byte)]
      over == [p EXCEPT !.dropped = @ + 1]
  IN CASE Len(p.csi) < MAX_CSI_LEN /\ byte \in NotFinal -> kept
       [] Len(p.csi) < MAX_CSI_LEN /\ byte \notin NotFinal ->
            ResetStateToGround(Push(kept, CsiActions(kept.csi)))
       [] Len(p.csi) >= MAX_CSI_LEN /\ byte \notin NotFinal -> ResetStateToGround(EmitOversizedCsi(over))
       [] Len(p.csi) >= MAX_CSI_LEN /\ byte \in NotFinal -> [over EXCEPT !.state = "CsiDiscard"]

HandleCsiDiscardByte(p, byte) ==
  LET over == [p EXCEPT !.dropped = @ + 1]
  IN IF byte \in NotFinal THEN over ELSE ResetStateToGround(EmitOversizedCsi(over))

-----------------------------------------------------------------------------
(* OSC.                                                                    *)

HexDigits == Digits @@ [a |-> 10, f |-> 15]   \* of the letters, those the alphabets hold

\* parse_hex_component: one to four digits, scaled to 0..255 and rounded.
HexComponent(s) ==
  LET value == FoldLeft(LAMBDA n, d : n * 16 + HexDigits[d], 0, s)
      max   == 16 ^ Len(s) - 1
  IN IF Len(s) \in 1..4 /\ AllIn(s, DOMAIN HexDigits) THEN (value * 255 + max \div 2) \div max ELSE None

\* "rgb:r/g/b" or "#rrggbb" with one to four digits a component.
OscColorSpec(spec) ==
  LET triplet(parts) == LET c == [i \in DOMAIN parts |-> HexComponent(parts[i])]
                        IN IF Len(parts) = 3 /\ None \notin {c[i] : i \in DOMAIN c} THEN c ELSE None
      third == (Len(spec) - 1) \div 3
  IN CASE IsPrefix(<<"r", "g", "b", ":">>, spec) -> triplet(Split(SubSeq(spec, 5, Len(spec)), "/"))
       [] spec # <<>> /\ Head(spec) = "#" /\ (Len(spec) - 1) % 3 = 0 /\ third \in 1..4 ->
            triplet([i \in 1..3 |-> SubSeq(spec, 2 + (i - 1) * third, 1 + i * third)])
       [] OTHER -> None

U8(n) == IF n # None /\ n <= 255 THEN n ELSE None

\* Pairs of an index and a colour; an index or a colour that cannot be read is passed over.
Osc4Palette(payload) ==
  LET parts  == Split(payload, ";")
      action(i) == LET index == U8(ParsedU16(parts[2 * i - 1]))
                       rgb   == OscColorSpec(parts[2 * i])
                   IN CASE index = None -> None
                        [] index # None /\ parts[2 * i] = <<"?">> -> <<"QueryPaletteColor", index>>
                        [] index # None /\ parts[2 * i] # <<"?">> /\ rgb # None ->
                             <<"SetPaletteColor", index, rgb>>
                        [] OTHER -> None
  IN SelectSeq([i \in 1..(Len(parts) \div 2) |-> action(i)], LAMBDA a : a # None)

Osc104PaletteReset(payload) ==
  LET indices == [i \in DOMAIN Split(payload, ";") |-> U8(ParsedU16(Split(payload, ";")[i]))]
      known   == SelectSeq(indices, LAMBDA n : n # None)
  IN IF payload = <<>> THEN << <<"ResetPalette">> >>
     ELSE [i \in DOMAIN known |-> <<"ResetPaletteColor", known[i]>>]

FileScheme == <<"f", "i", "l", "e", ":", "/", "/">>

\* file://host/path gives /path, anything else is the path itself.
Osc7Cwd(payload) ==
  LET rest == SubSeq(payload, 8, Len(payload))
      path == IF ~IsPrefix(FileScheme, payload) THEN payload
              ELSE IF Contains(rest, "/") THEN <<"/">> \o SplitOnce(rest, "/")[2] ELSE rest
  IN IF path = <<>> THEN <<>> ELSE << <<"SetCurrentWorkingDirectory", path>> >>

Osc8Hyperlink(payload) ==
  LET parts == SplitOnce(payload, ";")
  IN CASE Len(parts) = 1 -> <<>>
       [] Len(parts) = 2 /\ parts[2] = <<>> -> << <<"HyperlinkEnd">> >>
       [] Len(parts) = 2 /\ parts[2] # <<>> -> << <<"HyperlinkStart", parts[2]>> >>

\* The cap on the decoded data, 100 KiB, is beyond MAX_OSC_LEN and never reached.
Osc52Clipboard(payload) ==
  LET parts == SplitOnce(payload, ";")
  IN IF Len(parts) = 1 \/ parts[Len(parts)] \in {<<>>, <<"?">>} THEN <<>>
     ELSE << <<"ClipboardSet", IF parts[1] = <<>> THEN "c" ELSE Head(parts[1]), parts[2]>> >>

ShellMarkers == [A |-> "PromptStart", B |-> "CommandStart", C |-> "OutputStart", D |-> "OutputEnd"]
Osc133ShellMarker(payload) ==
  IF payload # <<>> /\ Head(payload) \in DOMAIN ShellMarkers
  THEN << <<"ShellMarker", ShellMarkers[Head(payload)]>> >> ELSE <<>>

ParseOsc(raw) ==
  LET parts   == SplitOnce(raw, ";")
      code    == ParsedU16(parts[1])
      payload == IF Len(parts) = 2 THEN parts[2] ELSE <<>>
  IN CASE code = None       -> <<>>
       [] code \in {0, 2} -> << <<"SetWindowTitle", payload>> >>
       [] code = 4        -> Osc4Palette(payload)
       [] code = 7        -> Osc7Cwd(payload)
       [] code = 8        -> Osc8Hyperlink(payload)
       [] code = 10 /\ payload = <<"?">> -> << <<"QueryForegroundColor">> >>
       [] code = 11 /\ payload = <<"?">> -> << <<"QueryBackgroundColor">> >>
       [] code = 52       -> Osc52Clipboard(payload)
       [] code = 104      -> Osc104PaletteReset(payload)
       [] code = 133      -> Osc133ShellMarker(payload)
       [] OTHER           -> <<>>

CompleteOsc(p) == ResetStateToGround(Push(p, ParseOsc(p.osc)))

HandleOscByte(p, byte) ==
  CASE byte = "BEL" -> CompleteOsc(p)
    [] byte = "ESC" -> [p EXCEPT !.state = "OscEsc"]
    [] byte \notin {"BEL", "ESC"} /\ Len(p.osc) < MAX_OSC_LEN  -> [p EXCEPT !.osc = Append(@, byte)]
    [] byte \notin {"BEL", "ESC"} /\ Len(p.osc) >= MAX_OSC_LEN -> [p EXCEPT !.state = "OscDiscard"]

HandleOscDiscardByte(p, byte) ==
  CASE byte = "BEL" -> ResetStateToGround(p)
    [] byte = "ESC" -> [p EXCEPT !.state = "OscEsc"]
    [] OTHER        -> p

-----------------------------------------------------------------------------
(* ESC and DCS.                                                            *)

EscapeActions ==
  [M |-> <<"ReverseIndex">>, E |-> <<"NextLine">>, H |-> <<"HorizontalTabSet">>]
  @@ ("7" :> <<"CursorSavePosition">>) @@ ("8" :> <<"CursorRestorePosition">>)
  @@ ("=" :> <<"ApplicationKeypadMode", TRUE>>) @@ (">" :> <<"ApplicationKeypadMode", FALSE>>)

HandleEscapeByte(p, byte) ==
  CASE byte = "[" -> [p EXCEPT !.csi = <<>>, !.dropped = 0, !.state = "Csi"]
    [] byte = "]" -> [p EXCEPT !.osc = <<>>, !.state = "Osc"]
    [] byte = "P" -> [p EXCEPT !.dcs = <<>>, !.state = "Dcs"]
    [] byte \in DOMAIN EscapeActions -> [Push(p, <<EscapeActions[byte]>>) EXCEPT !.state = "Ground"]
    [] OTHER -> [Push(p, <<Unsupported>>) EXCEPT !.state = "Ground"]

HandleOscEscByte(p, byte) ==
  IF byte = "\\" THEN CompleteOsc(p)
  ELSE HandleEscapeByte([CompleteOsc(p) EXCEPT !.state = "Escape"], byte)

PushDcsPayload(p, bytes) ==
  FoldLeft(LAMBDA q, b : IF Len(q.dcs) < MAX_DCS_LEN THEN [q EXCEPT !.dcs = Append(@, b)] ELSE q, p, bytes)

StatusRequests == (<<"m">> :> "Sgr") @@ (<<" ", "q">> :> "CursorStyle") @@ (<<"r">> :> "ScrollRegion")
ParseDcs(raw) ==
  LET request == SubSeq(raw, 3, Len(raw))
  IN IF ~IsPrefix(<<"$", "q">>, raw) THEN <<>>
     ELSE << <<"RequestStatusString",
               IF request \in DOMAIN StatusRequests THEN StatusRequests[request] ELSE "Unsupported">> >>

TmuxPrefix == <<"t", "m", "u", "x", ";">>

\* decode_tmux_passthrough: a doubled ESC is one.
TmuxDecoded(payload) ==
  FoldLeft(LAMBDA d, b : IF b = "ESC" /\ d.escaped THEN [d EXCEPT !.escaped = FALSE]
                         ELSE [bytes |-> Append(d.bytes, b), escaped |-> b = "ESC"],
           [bytes |-> <<>>, escaped |-> FALSE], payload).bytes

HandleGroundByte(p, byte) ==
  LET flushed  == FlushTextBuffer(p, FALSE)
      controls == [LF |-> <<"LineFeed">>, CR |-> <<"CarriageReturn">>, BEL |-> <<"Bell">>,
                   BS |-> <<"Backspace">>, TAB |-> <<"Tab">>]
  IN CASE byte = "ESC"              -> [flushed EXCEPT !.state = "Escape"]
       [] byte \in DOMAIN controls    -> Push(flushed, <<controls[byte]>>)
       [] byte \in {"NUL", "CAN"}     -> flushed
       [] OTHER                       -> [p EXCEPT !.text = Append(@, byte)]

RECURSIVE Feed(_, _)

\* complete_dcs: what a tmux passthrough holds is fed to a parser of its own, of which only
\* the actions are kept.
CompleteDcs(p) ==
  LET raw == p.dcs
      inner == Feed(FreshParser, TmuxDecoded(SubSeq(raw, 6, Len(raw))))
  IN Push(ResetStateToGround(p), IF IsPrefix(TmuxPrefix, raw) THEN inner.out ELSE ParseDcs(raw))

HandleDcsByte(p, byte) ==
  IF byte = "ESC" THEN [p EXCEPT !.state = "DcsEsc"] ELSE PushDcsPayload(p, <<byte>>)

HandleDcsEscByte(p, byte) ==
  IF byte = "\\" THEN CompleteDcs(p)
  ELSE [PushDcsPayload(p, IF byte = "ESC" THEN <<"ESC">> ELSE <<"ESC", byte>>) EXCEPT !.state = "Dcs"]

\* CAN and SUB abort whatever is in progress; "CAN" stands for both.
FeedByte(p, byte) ==
  CASE p.state # "Ground" /\ byte = "CAN" -> ResetStateToGround(p)
    [] p.state = "Ground"     -> HandleGroundByte(p, byte)
    [] p.state = "Escape" /\ byte # "CAN"     -> HandleEscapeByte(p, byte)
    [] p.state = "Csi" /\ byte # "CAN"        -> HandleCsiByte(p, byte)
    [] p.state = "CsiDiscard" /\ byte # "CAN" -> HandleCsiDiscardByte(p, byte)
    [] p.state = "Osc" /\ byte # "CAN"        -> HandleOscByte(p, byte)
    [] p.state = "OscDiscard" /\ byte # "CAN" -> HandleOscDiscardByte(p, byte)
    [] p.state = "OscEsc" /\ byte # "CAN"     -> HandleOscEscByte(p, byte)
    [] p.state = "Dcs" /\ byte # "CAN"        -> HandleDcsByte(p, byte)
    [] p.state = "DcsEsc" /\ byte # "CAN"     -> HandleDcsEscByte(p, byte)

(* Mutated form: the end of a call ends the character as well. *)
CallEndCut(p) == FlushTextBuffer(p, FALSE)
\* The end of feed_into: a character that is not complete waits for the next call.
CallEnd(p) == FlushTextBuffer(p, TRUE)

\* feed_into
Feed(p, bytes) == CallEnd(FoldLeft(FeedByte, [p EXCEPT !.out = <<>>], bytes))

\* resync_after_truncation_into: what is unfinished is reported or thrown away.
ResyncAfterTruncation(p) ==
  LET q == FlushTextBuffer([p EXCEPT !.out = <<>>], FALSE)
  IN ResetStateToGround(CASE p.state \in {"Escape", "Csi"} -> Push(q, <<Unsupported>>)
                          [] p.state = "CsiDiscard"        -> EmitOversizedCsi(q)
                          [] OTHER                         -> q)
=============================================================================
