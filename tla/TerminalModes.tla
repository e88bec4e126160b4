---------------------------- MODULE TerminalModes ----------------------------
(***************************************************************************)
(* What TerminalState (core/src/state) keeps beside the screen: modes,     *)
(* pen, title, directory, clipboard, bell, palette, hyperlink, the stack   *)
(* of the kitty keyboard protocol, the replies it owes; and feed_into,     *)
(* which takes bytes in calls of any length through the parser.            *)
(*                                                                         *)
(* The screen itself is in TerminalScreen: here the actions that change    *)
(* cells or move the cursor are kept in a log, in their order.             *)
(***************************************************************************)
EXTENDS Parser

CONSTANTS
  MAX_FEED_BYTES_PER_CALL, FEED_CHUNK_BYTES,   \* the caps of feed_into
  KittyDepth,                                  \* 16 in the code
  Inputs,                                      \* the byte sequences a program may write
  CallSizes                                    \* how many bytes a call may bring

ASSUME FeedAssumption ==
  /\ MAX_FEED_BYTES_PER_CALL \in Nat \ {0} /\ FEED_CHUNK_BYTES \in Nat \ {0}
  /\ KittyDepth \in Nat /\ CallSizes \subseteq Nat \ {0}

VARIABLES
  parser, term,  \* the two parts of TerminalState
  input, fed,    \* what the program writes, and how much of it was fed
  since,         \* the bytes accepted since the parser was last resynchronised
  atResync,      \* the terminal then
  primaryModes   \* the modes as they were when the primary screen was last shown
vars == <<parser, term, input, fed, since, atResync, primaryModes>>

-----------------------------------------------------------------------------
(* The pen and SGR.                                                        *)

UnderlineStyles == <<"Single", "Double", "Curly", "Dotted", "Dashed">>
DefaultPen == [fg |-> <<"Default">>, bg |-> <<"Default">>, ul |-> <<"Default">>,
               underline |-> "None", flags |-> {}]

SetFlags   == (1 :> "bold") @@ (2 :> "dim") @@ (3 :> "italic") @@ (5 :> "blink") @@ (6 :> "blink") @@
              (7 :> "inverse") @@ (8 :> "hidden") @@ (9 :> "strikethrough") @@ (53 :> "overline")
ClearFlags == (22 :> {"bold", "dim"}) @@ (23 :> {"italic"}) @@ (25 :> {"blink"}) @@ (27 :> {"inverse"}) @@
              (28 :> {"hidden"}) @@ (29 :> {"strikethrough"}) @@ (55 :> {"overline"})
ColorFields == (38 :> "fg") @@ (48 :> "bg") @@ (58 :> "ul")
DefaultColorCodes == (39 :> "fg") @@ (49 :> "bg") @@ (59 :> "ul")

\* parse_underline_style: an unknown style is a single underline.
ParseUnderlineStyle(param) ==
  LET style == IF param.subs = <<>> THEN None ELSE param.subs[1]
  IN CASE style = 0 -> "None"
       [] style \in DOMAIN UnderlineStyles -> UnderlineStyles[style]
       [] OTHER -> "Single"

Rgb(r, g, b) == IF None \in {U8(r), U8(g), U8(b)} THEN None ELSE <<"Rgb", r, g, b>>
Indexed(n)   == IF U8(n) = None THEN None ELSE <<"Indexed", n>>

\* parse_colon_extended_color: 38:5:n, 38:2:r:g:b and 38:2::r:g:b.
ColonColor(subs) ==
  LET at(i) == IF i \in DOMAIN subs THEN subs[i] ELSE None
  IN CASE at(1) = 5 -> Indexed(at(2))
       [] at(1) = 2 /\ at(2) # None -> Rgb(at(2), at(3), at(4))
       [] at(1) = 2 /\ at(2) = None -> Rgb(at(3), at(4), at(5))
       [] OTHER -> None

\* parse_extended_color at i: the colour, and how many parameters behind i it took.  A
\* parameter missing on the way leaves the others to be read as codes of their own.
ExtendedColor(params, i) ==
  LET at(k) == IF i + k \in DOMAIN params THEN params[i + k].value ELSE None
      whole(n) == None \notin {at(k) : k \in 1..n}
  IN CASE params[i].subs # <<>> -> [color |-> ColonColor(params[i].subs), taken |-> 0]
       [] params[i].subs = <<>> /\ at(1) = 5 /\ U8(at(2)) # None -> [color |-> Indexed(at(2)), taken |-> 2]
       [] params[i].subs = <<>> /\ at(1) = 2 /\ whole(4) -> [color |-> Rgb(at(2), at(3), at(4)), taken |-> 4]
       [] OTHER -> [color |-> None, taken |-> 0]

BasicColor(code) ==
  CASE code \in 30..37   -> [field |-> "fg", index |-> code - 30]
    [] code \in 40..47   -> [field |-> "bg", index |-> code - 40]
    [] code \in 90..97   -> [field |-> "fg", index |-> code - 90 + 8]
    [] code \in 100..107 -> [field |-> "bg", index |-> code - 100 + 8]
    [] OTHER             -> None

\* One parameter that is not an extended colour.
SgrApplied(pen, param) ==
  LET code == IF param.value = None THEN 0 ELSE param.value
      basic == BasicColor(code)
  IN CASE code = 0                   -> DefaultPen
       [] code = 4                   -> [pen EXCEPT !.underline = ParseUnderlineStyle(param)]
       [] code = 21                  -> [pen EXCEPT !.underline = "Double"]
       [] code = 24                  -> [pen EXCEPT !.underline = "None"]
       [] code \in DOMAIN SetFlags   -> [pen EXCEPT !.flags = @ \cup {SetFlags[code]}]
       [] code \in DOMAIN ClearFlags -> [pen EXCEPT !.flags = @ \ ClearFlags[code]]
       [] code \in DOMAIN DefaultColorCodes -> [pen EXCEPT ![DefaultColorCodes[code]] = <<"Default">>]
       [] basic # None               -> [pen EXCEPT ![basic.field] = <<"Indexed", basic.index>>]
       [] OTHER                      -> pen

RECURSIVE ApplySgrFrom(_, _, _)
ApplySgrFrom(pen, params, i) ==
  IF i > Len(params) THEN pen
  ELSE LET code == params[i].value
           ext  == ExtendedColor(params, i)
       IN IF code \in DOMAIN ColorFields
          THEN ApplySgrFrom(IF ext.color = None THEN pen ELSE [pen EXCEPT ![ColorFields[code]] = ext.color],
                            params, i + 1 + ext.taken)
          ELSE ApplySgrFrom(SgrApplied(pen, params[i]), params, i + 1)

\* apply_sgr: without parameters it is a reset.
ApplySgr(pen, params) == IF params = <<>> THEN DefaultPen ELSE ApplySgrFrom(pen, params, 1)

\* format_sgr_status_string: the parameters that describe a pen.
Plain(n) == [value |-> n, subs |-> <<>>]
Codes(ns) == [i \in DOMAIN ns |-> Plain(ns[i])]
FormatColor(color, base, bright, extended) ==
  CASE color[1] = "Default" -> <<>>
    [] color[1] = "Indexed" /\ base # None /\ color[2] \in 0..7  -> Codes(<<base + color[2]>>)
    [] color[1] = "Indexed" /\ base # None /\ color[2] \in 8..15 -> Codes(<<bright + color[2] - 8>>)
    [] color[1] = "Indexed" /\ (base = None \/ color[2] > 15)    -> Codes(<<extended, 5, color[2]>>)
    [] color[1] = "Rgb" -> Codes(<<extended, 2, color[2], color[3], color[4]>>)

FlagCodes(pen, codes) ==
  LET on == SelectSeq(codes, LAMBDA c : SetFlags[c] \in pen.flags) IN Codes(on)
UnderlineParam(style) ==
  CASE style = "None"   -> <<>>
    [] style = "Single" -> Codes(<<4>>)
    [] OTHER -> << [value |-> 4, subs |-> <<CHOOSE n \in 2..5 : UnderlineStyles[n] = style>>] >>

(* Mutated form: the colour of the underline is written as a background. *)
FormatSgrUnderlineAsBg(pen) ==
  FlagCodes(pen, <<1, 2, 3>>) \o UnderlineParam(pen.underline) \o FlagCodes(pen, <<5, 7, 8, 9, 53>>)
  \o FormatColor(pen.fg, 30, 90, 38) \o FormatColor(pen.bg, 40, 100, 48) \o FormatColor(pen.ul, None, None, 48)

FormatSgr(pen) ==
  FlagCodes(pen, <<1, 2, 3>>) \o UnderlineParam(pen.underline) \o FlagCodes(pen, <<5, 7, 8, 9, 53>>)
  \o FormatColor(pen.fg, 30, 90, 38) \o FormatColor(pen.bg, 40, 100, 48) \o FormatColor(pen.ul, None, None, 58)

SgrStatus(pen) == IF FormatSgr(pen) = <<>> THEN Codes(<<0>>) ELSE FormatSgr(pen)

-----------------------------------------------------------------------------
(* Modes and the rest of the state.                                        *)

\* ScreenModeState: what an alternate screen puts aside.
DefaultModes ==
  [bracketed_paste |-> FALSE, application_keypad_mode |-> FALSE, application_cursor_keys |-> FALSE,
   auto_wrap |-> TRUE, reverse_video |-> FALSE, origin_mode |-> FALSE, grapheme_cluster_mode |-> FALSE,
   mouse_mode |-> "Off", mouse_format |-> "Normal", alternate_scroll |-> FALSE, cursor_blink |-> FALSE,
   cursor_shape |-> 0, meta_sends_escape |-> TRUE, alt_sends_escape |-> FALSE, focus_reporting |-> FALSE,
   synchronized_output |-> FALSE, kitty_keyboard_stack |-> <<>>]

NewTerm ==
  [modes |-> DefaultModes, visible |-> TRUE, pen |-> DefaultPen, saved |-> None, alternate |-> None,
   title |-> <<>>, cwd |-> <<>>, clipboard |-> None, bell |-> FALSE, hyperlink |-> None,
   colors |-> <<>>, replies |-> <<>>, events |-> <<>>, log |-> <<>>]

ModeSetters ==
  [ApplicationKeypadMode |-> "application_keypad_mode", SetOriginMode |-> "origin_mode",
   SetGraphemeClusterMode |-> "grapheme_cluster_mode", BracketedPasteMode |-> "bracketed_paste",
   ApplicationCursorKeys |-> "application_cursor_keys", AutoWrapMode |-> "auto_wrap",
   SetReverseVideo |-> "reverse_video", SetMouseMode |-> "mouse_mode", SetMouseFormat |-> "mouse_format",
   SetAlternateScroll |-> "alternate_scroll", SetCursorBlink |-> "cursor_blink",
   SetMetaSendsEscape |-> "meta_sends_escape", SetAltSendsEscape |-> "alt_sends_escape",
   SetFocusReporting |-> "focus_reporting", SetSynchronizedOutput |-> "synchronized_output",
   SetCursorShape |-> "cursor_shape"]

Reply(t, reply) == [t EXCEPT !.replies = Append(@, reply)]
Event(t, event) == [t EXCEPT !.events = Append(@, event)]

ApplyCursorSave(t) ==
  [t EXCEPT !.saved = [visible |-> t.visible, pen |-> t.pen, origin_mode |-> t.modes.origin_mode]]
ApplyCursorRestore(t) ==
  IF t.saved = None THEN t
  ELSE [t EXCEPT !.visible = t.saved.visible, !.pen = t.saved.pen, !.modes.origin_mode = t.saved.origin_mode]

PutAside(t) == [modes |-> t.modes, visible |-> t.visible, pen |-> t.pen, saved |-> t.saved]

\* 47 and 1047 keep the cursor and the pen, 1049 starts with fresh ones.
ApplyAlternateScreenEnterSimple(t) ==
  IF t.alternate # None THEN t
  ELSE [t EXCEPT !.alternate = PutAside(t), !.saved = None, !.modes.origin_mode = FALSE]
(* Mutated form: a second switch puts aside what the first one shows. *)
ApplyAlternateScreenEnterAgain(t) ==
  [t EXCEPT !.alternate = PutAside(t), !.saved = None, !.modes.origin_mode = FALSE,
            !.visible = TRUE, !.pen = DefaultPen]

ApplyAlternateScreenEnter(t) ==
  IF t.alternate # None THEN t
  ELSE [ApplyAlternateScreenEnterSimple(t) EXCEPT !.visible = TRUE, !.pen = DefaultPen]

ApplyAlternateScreenLeave(t) ==
  IF t.alternate = None THEN t
  ELSE [t EXCEPT !.modes = t.alternate.modes, !.visible = t.alternate.visible, !.pen = t.alternate.pen,
                 !.saved = t.alternate.saved, !.alternate = None]

\* is_private_mode_set: None for a mode that is not known.
IsPrivateModeSet(t, mode) ==
  LET m == t.modes
      known == (1 :> m.application_cursor_keys) @@ (5 :> m.reverse_video) @@ (6 :> m.origin_mode) @@
               (7 :> m.auto_wrap) @@ (2027 :> m.grapheme_cluster_mode) @@ (12 :> m.cursor_blink) @@
               (25 :> t.visible) @@ (1004 :> m.focus_reporting) @@ (1006 :> m.mouse_format = "Sgr") @@
               (1007 :> m.alternate_scroll) @@ (1036 :> ~m.meta_sends_escape) @@
               (1039 :> m.alt_sends_escape) @@ (1048 :> t.saved # None) @@ (2004 :> m.bracketed_paste) @@
               (2026 :> m.synchronized_output)
  IN CASE mode \in DOMAIN known -> known[mode]
       [] mode \in DOMAIN MouseTracking -> m.mouse_mode = MouseTracking[mode]
       [] mode \in {47, 1047, 1049} -> t.alternate # None
       [] OTHER -> None
ModeReport(t, mode) ==
  LET set == IsPrivateModeSet(t, mode)
  IN <<"mode", mode, CASE set = None -> 0 [] set = TRUE -> 1 [] OTHER -> 2>>

KittyFlags(t) == IF t.modes.kitty_keyboard_stack = <<>> THEN 0 ELSE Last(t.modes.kitty_keyboard_stack)
PushKitty(t, flags) ==
  IF Len(t.modes.kitty_keyboard_stack) >= KittyDepth THEN t
  ELSE [t EXCEPT !.modes.kitty_keyboard_stack = Append(@, flags)]
PopKitty(t, count) ==
  [t EXCEPT !.modes.kitty_keyboard_stack = IF count >= Len(@) THEN <<>> ELSE SubSeq(@, 1, Len(@) - count)]

\* decrqss_response: the margins belong to the screen.
StatusReply(t, request) ==
  CASE request = "Sgr"          -> <<"status", SgrStatus(t.pen)>>
    [] request = "CursorStyle"  -> <<"status", t.modes.cursor_shape>>
    [] request = "ScrollRegion" -> <<"status", "margins">>
    [] request = "Unsupported"  -> <<"status", None>>

\* The palette as the entries a program has set: set_rgb, reset_color, get.
SetPaletteColor(t, index, rgb) == [t EXCEPT !.colors = (index :> rgb) @@ @]
ResetPaletteColor(t, index) == [t EXCEPT !.colors = [i \in DOMAIN @ \ {index} |-> @[i]]]
PaletteColor(t, index) == IF index \in DOMAIN t.colors THEN t.colors[index] ELSE "base"

Answers == [SendPrimaryDA |-> "DA1", SendSecondaryDA |-> "DA2", SendXtversion |-> "version",
            SendWindowSizeChars |-> "size in characters", SendDeviceStatusReport |-> "cursor",
            SendDeviceOk |-> "ok", QueryForegroundColor |-> "foreground",
            QueryBackgroundColor |-> "background"]

\* apply_action_into, for the actions that do not only change the screen.
ApplyQuery(t, a) ==
  CASE a[1] \in DOMAIN Answers         -> Reply(t, <<"answer", Answers[a[1]]>>)
    [] a[1] = "RequestModeReport"      -> Reply(t, ModeReport(t, a[2]))
    [] a[1] = "RequestStatusString"    -> Reply(t, StatusReply(t, a[2]))
    [] a[1] = "QueryKittyKeyboardMode" -> Reply(t, <<"kitty", KittyFlags(t)>>)
    [] a[1] = "QueryPaletteColor"      -> Reply(t, <<"color", a[2], PaletteColor(t, a[2])>>)
    [] a[1] = "SendWindowSizePixels"   -> t   \* no viewport in pixels has been set
    [] OTHER -> [t EXCEPT !.log = Append(@, a)]

ApplyText(t, a) ==
  CASE a[1] = "SetWindowTitle" -> IF t.title = a[2] THEN t ELSE Event([t EXCEPT !.title = a[2]], "title")
    [] a[1] = "SetCurrentWorkingDirectory" ->
         IF t.cwd = a[2] THEN t ELSE Event([t EXCEPT !.cwd = a[2]], "cwd")
    [] a[1] = "ClipboardSet"       -> [t EXCEPT !.clipboard = <<a[2], a[3]>>]
    [] a[1] = "HyperlinkStart"     -> [t EXCEPT !.hyperlink = a[2]]
    [] a[1] = "HyperlinkEnd"       -> [t EXCEPT !.hyperlink = None]
    [] a[1] = "ShellMarker"        -> Event(t, a[2])
    [] a[1] = "Bell"               -> Event([t EXCEPT !.bell = TRUE], "bell")
    [] a[1] = "UnsupportedSequence" -> Event(t, "unsupported")
    [] a[1] = "IngestDegraded"     -> Event(t, "degraded")
    [] a[1] = "PrintText"          -> [t EXCEPT !.log = @ \o [i \in DOMAIN a[2] |-> <<"Print", a[2][i]>>]]
    [] OTHER -> ApplyQuery(t, a)

ApplyAction(t, a) ==
  CASE a[1] \in DOMAIN ModeSetters -> [t EXCEPT !.modes[ModeSetters[a[1]]] = a[2]]
    [] a[1] = "SetCursorVisible"   -> Event([t EXCEPT !.visible = a[2]], "visible")
    [] a[1] = "SetGraphicsRendition" -> [t EXCEPT !.pen = ApplySgr(@, a[2])]
    [] a[1] \in {"CursorSavePosition", "CursorSavePositionDec"}       -> ApplyCursorSave(t)
    [] a[1] \in {"CursorRestorePosition", "CursorRestorePositionDec"} -> ApplyCursorRestore(t)
    [] a[1] = "AlternateScreenEnter"       -> Event(ApplyAlternateScreenEnter(t), "entered")
    [] a[1] = "AlternateScreenEnterSimple" -> Event(ApplyAlternateScreenEnterSimple(t), "entered")
    [] a[1] \in {"AlternateScreenLeave", "AlternateScreenLeaveSimple"} ->
         Event(ApplyAlternateScreenLeave(t), "left")
    [] a[1] = "PushKittyKeyboardMode" -> PushKitty(t, a[2])
    [] a[1] = "PopKittyKeyboardMode"  -> PopKitty(t, a[2])
    [] a[1] = "SetPaletteColor"       -> SetPaletteColor(t, a[2], a[3])
    [] a[1] = "ResetPaletteColor"     -> ResetPaletteColor(t, a[2])
    [] a[1] = "ResetPalette"          -> [t EXCEPT !.colors = <<>>]
    [] OTHER -> ApplyText(t, a)

ApplyAll(t, actions) == FoldLeft(ApplyAction, t, actions)

-----------------------------------------------------------------------------
(* feed_into.                                                              *)

AtMost(s, n) == SubSeq(s, 1, IF Len(s) < n THEN Len(s) ELSE n)
Beyond(s, n) == SubSeq(s, n + 1, Len(s))

\* One call of the parser and the actions it gave.
Step(m, p) == [parser |-> [p EXCEPT !.out = <<>>], term |-> ApplyAll(m.term, p.out)]

RECURSIVE FeedChunks(_, _)
FeedChunks(m, bytes) ==
  IF bytes = <<>> THEN m
  ELSE FeedChunks(Step(m, Feed(m.parser, AtMost(bytes, FEED_CHUNK_BYTES))), Beyond(bytes, FEED_CHUNK_BYTES))

\* Bytes beyond the cap of a call are dropped, and the parser starts afresh behind them.
Resynchronised(m) ==
  [Step(m, ResyncAfterTruncation(m.parser)) EXCEPT !.term = Event(@, "degraded")]
IsCut(bytes) == Len(bytes) > MAX_FEED_BYTES_PER_CALL
FeedInto(m, bytes) ==
  IF ~IsCut(bytes) THEN FeedChunks(m, bytes)
  ELSE Resynchronised(FeedChunks(m, AtMost(bytes, MAX_FEED_BYTES_PER_CALL)))

-----------------------------------------------------------------------------
(* Steps.                                                                  *)

Init ==
  /\ input \in Inputs /\ fed = 0
  /\ parser = FreshParser /\ term = NewTerm
  /\ since = <<>> /\ atResync = NewTerm /\ primaryModes = DefaultModes

NextBytes(n) == AtMost(Beyond(input, fed), n)

\* The modes of the primary screen, as the actions of one byte after the other leave them.
ModesOfPrimary(modes, t, actions) ==
  FoldLeft(LAMBDA m, a : LET u == ApplyAction(m.term, a)
                         IN [term |-> u, modes |-> IF m.term.alternate = None /\ u.alternate = None
                                                   THEN u.modes ELSE m.modes],
           [term |-> t, modes |-> modes], actions).modes

\* The actions that a parser was led to, and those of the sequence that was broken off.
ActionsOf(p, cut) == IF cut THEN p.out \o ResyncAfterTruncation(p).out ELSE p.out

\* A call of feed_terminal_responses_into; of one beyond the cap the tail is lost.
FedWith(bytes, m, actions) ==
  /\ bytes # <<>>
  /\ parser' = m.parser /\ term' = m.term /\ fed' = fed + Len(bytes)
  /\ primaryModes' = ModesOfPrimary(primaryModes, term, actions)
  /\ IF IsCut(bytes) THEN since' = <<>> /\ atResync' = m.term
     ELSE since' = since \o bytes /\ UNCHANGED atResync
  /\ UNCHANGED input
FeedCall(n) ==
  FedWith(NextBytes(n), FeedInto([parser |-> parser, term |-> term], NextBytes(n)),
          ActionsOf(Feed(parser, AtMost(NextBytes(n), MAX_FEED_BYTES_PER_CALL)), IsCut(NextBytes(n))))

Next == \E n \in CallSizes : FeedCall(n)
Spec == Init /\ [][Next]_vars

-----------------------------------------------------------------------------
(* Properties.                                                             *)

(* The buffers of the parser stay within their caps, only text that is the start of a     *)
(* character outlives a call (flush_text_buffer), and the kitty stack within its depth.   *)
TypeOK ==
  /\ parser.state \in ParseStates
  /\ Len(parser.csi) <= MAX_CSI_LEN /\ Len(parser.osc) <= MAX_OSC_LEN /\ Len(parser.dcs) <= MAX_DCS_LEN
  /\ parser.text # <<>> => Decoded(parser.text) = [kind |-> "incomplete", len |-> Len(parser.text)]
  /\ parser.state # "Ground" => parser.text = <<>>
  /\ Len(term.modes.kitty_keyboard_stack) <= KittyDepth

(* How the PTY cuts the output into reads, and feed_into into chunks, makes no difference: *)
(* the parser and the terminal are what one call with all the bytes leaves.  Behind a call *)
(* that was too long the terminal goes on as with a fresh parser.                          *)
CutsDoNotShow ==
  LET whole == Feed(FreshParser, since)
  IN /\ parser = [whole EXCEPT !.out = <<>>]
     /\ term = ApplyAll(atResync, whole.out)

(* Whatever a program does on the alternate screen, and however often it switches: when    *)
(* the primary screen is shown again its modes are those it was left with.                 *)
PrimaryKeepsModes == term.alternate = None => term.modes = primaryModes

(* The status string that answers DECRQSS for SGR describes the pen: a program that        *)
(* applies it to a fresh pen gets the pen back, as long as the parameters are not cut.     *)
StatusStringRestoresPen ==
  Len(SgrStatus(term.pen)) <= MAX_SGR_PARAMS => ApplySgr(DefaultPen, SgrStatus(term.pen)) = term.pen

(* However the output is cut, the parser keeps within its caps, holds back what is not     *)
(* whole yet and acts on the rest.                                                         *)
ParserIsUncut == TypeOK /\ CutsDoNotShow

=============================================================================
