---------------------------- MODULE MCFunctions -----------------------------
(***************************************************************************)
(* The pure parts of the program.  Two have two implementations that have  *)
(* to agree: how a cell is painted (by the CPU and by the GPU) and how a   *)
(* key is encoded (in the TTY runtime and in the GUI runtime).  They share *)
(* nothing: the modes of the keyboard change, and keys are looked at, while *)
(* the cell is plain.  The cache of glyphs is on its own as well.  The     *)
(* choice of the shell and the reading of commands are tried in the        *)
(* initial state.                                                          *)
(***************************************************************************)
EXTENDS Keys, CellPaint, ShellLaunch, Settings, GlyphCache

Plain == InitPaint /\ InitGlyphs

Init == Plain /\ InitKeys
Next ==
  \/ InitKeys /\ InitGlyphs /\ NextPaint /\ UNCHANGED <<modes, glyphs>>
  \/ Plain /\ SetMode /\ UNCHANGED <<vars, glyphs>>
  \/ InitPaint /\ InitKeys /\ NextGlyphs /\ UNCHANGED <<vars, modes>>
Spec == Init /\ [][Next]_<<vars, modes, glyphs>>

----------------------------------------------------------------------------
(* Both renderers give a line the same colours, whatever the cell, the      *)
(* selection, the search and the cursor are, but for the differences that   *)
(* CellPaint lists.                                                         *)
RenderersAgree == ~KnownDifference => CpuPicture = GpuPicture

Unseen(picture) ==
  \A p \in 1 .. (IF cell.wide THEN 2 ELSE 1), zone \in Zones : \A m \in picture[p][zone].marks :
    m.what \in {"glyph", "right half", "squeezed", "strike"} => m.colour = picture[p][zone].paper

(* Hidden text (SGR 8) has the colour of its paper in both renderers, under *)
(* every other attribute, reverse video and a search hit; a selection and a *)
(* cursor show it.                                                          *)
HiddenTextIsUnseen ==
  OnPen("hidden") /\ screen.selected = {} /\ ~CursorIsOn => Unseen(CpuPicture) /\ Unseen(GpuPicture)

(* A line looks the same from both renderers, and what is hidden is hidden. *)
CellsArePainted == RenderersAgree /\ HiddenTextIsUnseen

----------------------------------------------------------------------------
(* The GUI runtime sends the text of an event before it looks at the key:   *)
(* where the platform gives Backspace, Tab, Enter or Escape a text, that is *)
(* sent for 0x7f, CSI Z and ESC CR.                                         *)
TextComesFirst(s) ==
  /\ modes.kitty = {} /\ s.mods \cap {"control", "super"} = {}
  /\ \/ s.key = "Backspace"
     \/ s.key = "Tab" /\ s.mods # {}
     \/ s.key \in {"Enter", "Escape"} /\ "alt" \in s.mods

(* The release of a space bar is unknown to the GUI runtime, and a release  *)
(* has no text there.                                                       *)
ReleaseLacksText(s) ==
  /\ s.kind = "release" /\ Kitty("events") /\ Kitty("all")
  /\ s.key = " " \/ (s.key \in Characters /\ Kitty("text"))

(* A key means the same in both runtimes: the same bytes for every stroke   *)
(* in every mode, but for the two differences above.                        *)
FrontEndsAgree ==
  Plain => \A s \in Strokes, named \in BOOLEAN :
    TextComesFirst(s) \/ ReleaseLacksText(s) \/ CrosstermBytes(s) = WinitBytes(s, named)

(* What the bytes have to tell apart: the key, its modifiers (but Super of  *)
(* a function key, unless all keys are reported) and the kind of event, if  *)
(* the program asked for it.                                                *)
Told(s) ==
  [key |-> s.key,
   mods |-> IF s.key \in FunctionKeys /\ ~Kitty("all") /\ s.kind = "press" THEN s.mods \ {"super"} ELSE s.mods,
   kind |-> IF Kitty("events") THEN s.kind ELSE "press"]

Sent == {s \in Strokes : CrosstermBytes(s) # Nothing /\ (Kitty("events") \/ s.kind = "press")}

(* With any flag of kitty, two strokes that are to be told apart never have *)
(* the same bytes, and two that are not never have different ones.          *)
KittyTellsKeysApart ==
  Plain /\ modes.kitty # {} => Cardinality({CrosstermBytes(s) : s \in Sent}) = Cardinality({Told(s) : s \in Sent})

(* A key that is held goes on as it began, unless the kind of event is      *)
(* asked for; but with a flag of kitty and without "report all keys", the   *)
(* repeats of text keys are lost and those of function keys change form.    *)
HeldKeyTypesOn ==
  Plain => \A s \in Strokes :
    s.kind = "repeat" /\ ~Kitty("events") /\ (modes.kitty = {} \/ Kitty("all") \/ s.key = "Escape") =>
      CrosstermBytes(s) = CrosstermBytes([s EXCEPT !.kind = "press"])

(* The bytes of a key are right: the same from both runtimes, apart from    *)
(* those of any other key, and the same again while it is held.             *)
KeysAreSent == FrontEndsAgree /\ KittyTellsKeysApart /\ HeldKeyTypesOn

----------------------------------------------------------------------------
(* Inputs of up to three words of the commands, values of every kind and a  *)
(* word that is none, and of four words of those commands that take three.  *)
Words == {"mode", "shell", "render", "font", "theme", "profile", "debug", "auto-init", "cadence",
          "fallback", "set", "gpu", "zsh", "on", "monitor-auto", "system", "light", "stability",
          "else"}

Inputs ==
  UNION {[1 .. n -> Words] : n \in 0 .. 3}
    \cup {Append(words, "on") : words \in [1 .. 3 -> Words]}

Fresh == Plain /\ InitKeys

(* The launched shell is there, whatever is asked for and found.            *)
PlanIsLaunchable == Fresh => LaunchedShellIsThere

(* Commands are read as what they say.                                      *)
CommandsAreRead == Fresh => ReadsWhatIsWritten(Inputs)

(* What the command line asks for is what is done: the words mean what they *)
(* say (features/settings/src/parse.rs), and the shell that is launched is  *)
(* there (features/shell_integration/src/lib.rs).                           *)
RequestsAreUnderstood == PlanIsLaunchable /\ CommandsAreRead

----------------------------------------------------------------------------
(* The cache keeps to its limit, always holds "?", and evicts in turn: each *)
(* other key in it waits in the queue, once.                                *)
CacheIsOrdered ==
  /\ Cardinality(DOMAIN glyphs.cached) <= glyphs.limit
  /\ FallbackKey \in DOMAIN glyphs.cached
  /\ \A key \in DOMAIN glyphs.cached \ {FallbackKey} :
       Cardinality({i \in DOMAIN glyphs.queue : glyphs.queue[i] = key}) = 1
  /\ Len(glyphs.queue) + 1 = Cardinality(DOMAIN glyphs.cached)

(* Whatever was cached and evicted before and whatever fonts were added, a  *)
(* key is answered with its own drawing from the fonts of now; a cache that *)
(* has room for one answers "?".                                            *)
AnswersAreCurrent ==
  \A key \in GlyphKeys :
    get(glyphs, key).drawing = rasterizeText(glyphs, IF glyphs.limit = 1 THEN FallbackKey ELSE key)

(* has_glyph, from which the atlas is filled (render_gpu/src/atlas.rs:153), *)
(* says of a character that it will be drawn, and not something for it.     *)
HasGlyphIsDrawn ==
  \A ch \in Characters8 \ {" "} :
    LET marks == rasterizeChar(glyphs, ch)
    IN hasGlyph(glyphs, ch) <=> \E i \in DOMAIN marks : marks[i][2] = ch

(* Adding the fonts of the machine again adds none.                         *)
SystemFontsAreAddedOnce == addSystemFallbacks(addSystemFallbacks(glyphs)) = addSystemFallbacks(glyphs)

(* The glyph cache of features/font answers every key as it should.         *)
GlyphsAreDrawn ==
  ~InitGlyphs => CacheIsOrdered /\ AnswersAreCurrent /\ HasGlyphIsDrawn /\ SystemFontsAreAddedOnce
=============================================================================
