----------------------------- MODULE Interaction -----------------------------
(***************************************************************************)
(* What the user does to the window of the GUI runtime beside typing: the  *)
(* search, the palette, the view of the history, the selection, the mouse  *)
(* and its reports, the paste and the resize (InteractionState and the     *)
(* handlers of GuiRuntimeApp), while the program prints, rewrites, erases  *)
(* and changes its modes and the runtime writes notices of its own.        *)
(*                                                                         *)
(* Abstractions.  A line is the sequence of its characters, and of the     *)
(* grid only the lines down to the cursor are kept, the others are blank;  *)
(* the width is fixed (TerminalScreen has the resize of lines, CellPaint   *)
(* the ranges of wide characters).  A regular expression is a sequence of  *)
(* characters, not valid when it holds Bad.  The text of the input method  *)
(* before its commit is shown only and left out.  A write to the PTY       *)
(* succeeds or fails and is survived: how many are is SessionController's. *)
(***************************************************************************)
EXTENDS Naturals, Sequences, FiniteSets, SequencesExt

CONSTANTS
  Sessions,    \* what the user and the program have at hand, see SessionType
  Cols,        \* the columns of the grid
  HistoryCap,  \* lines the history holds
  MaxQuery,    \* bound: characters of a query
  NoticeText,  \* the line of a notice of the runtime
  Bad,         \* a character that makes a regular expression invalid
  None

VARIABLES
  session,     \* chosen at the start
  term,        \* the lines: history, grid, the rows of the grid; and how many
               \* lines the last change dropped from the history
  sizes,       \* rows: of the window, recorded by the runtime, told to the PTY
  modes,       \* the modes the program has set
  degraded,    \* the session: a call of the PTY has failed and none succeeded since
  ui,          \* InteractionState
  told,        \* what the program makes of its input: buttons down, paste open
  clipboard,   \* the cells of the last copy
  since,       \* history: what has happened since the search was refreshed
  strayed,     \* history: since the last press of the primary button the view
               \* was scrolled or the program read the mouse
  pressed,     \* history: the cell of that press
  disputed,    \* history: of what it is told, what it cannot rely on
  refused      \* history: the PTY has refused the last resize
vars == <<session, term, sizes, modes, degraded, ui, told, clipboard,
          since, strayed, pressed, disputed, refused>>

Primary == 0
Reporting == {"X10", "Basic", "ButtonTrack", "AnyEvent"}
Tracked == Reporting \ {"X10"}

\* A line of text that fits the grid.
IsLine(text) == text \in Seq(STRING) /\ Len(text) <= Cols

\* What a session offers: rows to start with, sizes of the window, lines and modes of the
\* program, cells of the pointer, buttons, characters of a query, what is shown over the
\* lines or among them, and whether calls of the PTY fail.
SessionType(s) ==
  /\ s.rows \in s.sizes /\ s.sizes \subseteq Nat \ {0}
  /\ \A text \in s.texts : IsLine(text)
  /\ \A m \in s.modes : /\ m.mouse \in Reporting \cup {"Off"} /\ m.format \in {"Normal", "Sgr"}
                        /\ {m.alternateScroll, m.bracketedPaste} \subseteq BOOLEAN
  /\ s.cells \subseteq Nat \X (0..(Cols - 1)) /\ s.chars \subseteq STRING
  /\ Primary \in s.buttons /\ s.buttons \subseteq 0..2
  /\ s.overlays \subseteq {"search", "palette", "notice"} /\ s.fails \subseteq {FALSE}
ASSUME SessionsAssumption == \A s \in Sessions : SessionType(s)
ASSUME ScreenAssumption == Cols \in Nat \ {0} /\ HistoryCap \in Nat /\ MaxQuery \in Nat /\ IsLine(NoticeText)
ASSUME NoneAssumption == None \notin Nat

AtMost(n, limit) == IF n > limit THEN limit ELSE n
SaturatingSub(n, m) == IF n > m THEN n - m ELSE 0

-----------------------------------------------------------------------------
(* The lines.                                                              *)

Lines(t) == t.history \o t.grid

\* The oldest lines make room for more than the history holds.
PushHistory(t, pushed) ==
  LET lines == t.history \o pushed
      over  == SaturatingSub(Len(lines), HistoryCap)
  IN [t EXCEPT !.history = SubSeq(lines, over + 1, Len(lines)), !.evicted = @ + over]

\* A line feed and the text.
PrintLine(t, text) ==
  IF Len(t.grid) < t.rows THEN [t EXCEPT !.grid = Append(@, text)]
  ELSE [PushHistory(t, <<Head(t.grid)>>) EXCEPT !.grid = Append(Tail(@), text)]

\* Rows that do not fit are pushed out at the top; rows that are added are blank.
SetRows(t, rows) ==
  LET over == SaturatingSub(Len(t.grid), rows)
  IN [PushHistory(t, SubSeq(t.grid, 1, over))
        EXCEPT !.grid = SubSeq(@, over + 1, Len(@)), !.rows = rows]

\* emit_runtime_notice: a line of its own, and a line feed behind it.
Noticed(t) == PrintLine(PrintLine(t, NoticeText), <<>>)

Unchanged(t) == [t EXCEPT !.evicted = 0]

\* The columns at which a query is found in a line, each behind the match before it: found[c]
\* are those up to column c.
FoundIn(text, query) ==
  LET width == Len(query)
      last  == SaturatingSub(Len(text) + 1, width)
      found[c \in 0..last] ==
        IF c = 0 THEN <<>>
        ELSE IF /\ SubSeq(text, c, c + width - 1) = query
                /\ found[c - 1] = <<>> \/ Last(found[c - 1]) + width <= c
             THEN Append(found[c - 1], c) ELSE found[c - 1]
  IN found[last]

\* TerminalState::search: the matches, line by line, as pairs of a line and a column.
Search(t, query) ==
  FlattenSeq([i \in DOMAIN Lines(t) |->
               LET cols == FoundIn(Lines(t)[i], query)
               IN [k \in DOMAIN cols |-> <<i - 1, cols[k] - 1>>]])

IsRegex(query) == Bad \notin {query[i] : i \in DOMAIN query}

-----------------------------------------------------------------------------
(* InteractionState.                                                       *)

NoSearch == [active |-> FALSE, query |-> <<>>, matches |-> <<>>, index |-> None]

\* SearchState::enter and exit forget the search before.
Entered == [NoSearch EXCEPT !.active = TRUE]
Exited == NoSearch

ActiveMatch(u) == u.search.matches[u.search.index]

(* Mutated form: every refresh goes back to the first match. *)
SetMatchesFirst(s, found, reset) ==
  [s EXCEPT !.matches = found, !.index = IF found = <<>> THEN None ELSE 1]

\* set_matches
SetMatches(s, found, reset) ==
  [s EXCEPT !.matches = found,
            !.index = CASE found = <<>> -> None
                        [] found # <<>> /\ (reset \/ @ = None) -> 1
                        [] OTHER -> AtMost(@, Len(found))]

\* The view starts at the active match, when the history holds it, and is the live one else.
Aligned(u, t) ==
  IF u.search.index = None THEN u
  ELSE [u EXCEPT !.offset = SaturatingSub(Len(t.history), ActiveMatch(u)[1])]

\* refresh_search_results
Refreshed(u, t, reset) ==
  LET query == u.search.query
      found == IF query = <<>> \/ ~IsRegex(query) THEN <<>> ELSE Search(t, query)
  IN IF u.search.active
     THEN Aligned([u EXCEPT !.search = SetMatches(@, found, reset)], t) ELSE u

(* Mutated form: only the user's edits refresh the search. *)
AfterOutputUnrefreshed(u, t) == IF u.search.active THEN u ELSE [u EXCEPT !.offset = 0]

\* apply_output_bytes: output shows the live view, unless there is a search, which follows it.
AfterOutput(u, t) ==
  Refreshed(IF u.search.active THEN u ELSE [u EXCEPT !.offset = 0], t, FALSE)

\* The cells between the ends of a selection, row by row.
Flat(cell) == cell[1] * Cols + cell[2]
Between(range) ==
  LET a == Flat(range[1])  b == Flat(range[2])
  IN {i \in 0..(a + b) : (a <= i /\ i <= b) \/ (b <= i /\ i <= a)}

\* There is something to copy: more than one cell, and one of them not blank or two rows, which
\* a line break joins; a last row below the grid is no line.
IsCopied(t, range) ==
  LET rows == {i \div Cols : i \in Between(range)}
  IN /\ range[1] # range[2]
     /\ \/ \E i \in Between(range) : LET row == i \div Cols IN
             row < Len(t.grid) /\ i % Cols < Len(t.grid[row + 1])
        \/ \E upper, lower \in rows : upper < lower /\ (lower < t.rows \/ lower + 1 \in rows)

\* The row of the window a line is shown in is one that the search bar leaves.
IsShown(u, t, line) ==
  LET top == SaturatingSub(Len(t.history), u.offset)
  IN line >= top /\ line - top < SaturatingSub(t.rows, 1)

-----------------------------------------------------------------------------
(* The PTY.                                                                *)

Outcomes == {TRUE} \cup session.fails

\* A call of the PTY that ends with ok, after the lines became t because of what happened: a
\* failure is told to the user in a notice, and so is the first success after one.
Calls(ok, t, happened) ==
  LET notice == ~ok \/ degraded
  IN /\ term' = IF notice THEN Noticed(t) ELSE t
     /\ since' = since \cup happened \cup (IF notice THEN {"notice"} ELSE {})
     /\ degraded' = ~ok

Silent == /\ term' = Unchanged(term)
          /\ UNCHANGED <<since, degraded>>

\* Something is written, and how it ends changes nothing the program is told of the buttons.
Writes == \E ok \in Outcomes : Calls(ok, Unchanged(term), {})

-----------------------------------------------------------------------------
(* The keyboard.                                                           *)

KeepMouse == UNCHANGED <<told, clipboard, pressed, disputed>>
KeepProgram == UNCHANGED <<session, sizes, modes, refused>>
Idle == ~ui.search.active /\ ~ui.palette

OpenSearch ==
  /\ "search" \in session.overlays /\ ~ui.search.active
  /\ ui' = [ui EXCEPT !.selection = None, !.palette = FALSE, !.search = Entered]
  /\ since' = {}
  /\ term' = Unchanged(term)
  /\ UNCHANGED degraded /\ KeepMouse /\ KeepProgram

CloseSearch ==
  /\ ui.search.active
  /\ ui' = [ui EXCEPT !.search = Exited]
  /\ Silent /\ KeepMouse /\ KeepProgram

\* A key, a paste or a commit of the input method adds a character, Backspace takes one.
SetQuery(query) ==
  /\ ui.search.active
  /\ ui' = Refreshed([ui EXCEPT !.search.query = query], term, TRUE)
  /\ since' = {}
  /\ term' = Unchanged(term)
  /\ UNCHANGED degraded /\ KeepMouse /\ KeepProgram

AppendSearchText == \E ch \in session.chars :
  Len(ui.search.query) < MaxQuery /\ SetQuery(Append(ui.search.query, ch))
PopSearchText == ui.search.query # <<>> /\ SetQuery(Front(ui.search.query))

\* advance_match and retreat_match: round and round.
AdvanceMatch(s) ==
  IF Len(s.matches) <= 1 THEN s ELSE [s EXCEPT !.index = (@ % Len(s.matches)) + 1]
RetreatMatch(s) ==
  IF Len(s.matches) <= 1 THEN s ELSE [s EXCEPT !.index = IF @ = 1 THEN Len(s.matches) ELSE @ - 1]

\* The view follows.
MoveSearchMatch(reverse) ==
  /\ ui.search.active
  /\ ui' = Aligned([ui EXCEPT !.search = IF reverse THEN RetreatMatch(@) ELSE AdvanceMatch(@)], term)
  /\ since' = since \ {"wheel"}
  /\ term' = Unchanged(term)
  /\ UNCHANGED degraded /\ KeepMouse /\ KeepProgram

Notices == /\ term' = Noticed(Unchanged(term))
           /\ since' = since \cup {"notice"}
           /\ UNCHANGED degraded

TogglePalette ==
  /\ "palette" \in session.overlays /\ ~ui.search.active
  /\ ui' = [ui EXCEPT !.palette = ~@]
  /\ Notices /\ KeepMouse /\ KeepProgram

\* A key of the palette: closing it, a command, or the information, which leaves it open.
HandlePaletteAction(open) ==
  /\ ui.palette /\ ~ui.search.active
  /\ ui' = [ui EXCEPT !.palette = open]
  /\ Notices /\ KeepMouse /\ KeepProgram

\* scroll_viewport_by_lines, scroll_viewport_page_up and _down: within the history.
Scrolled(u, up, lines) ==
  [u EXCEPT !.offset = IF up THEN AtMost(@ + lines, Len(term.history)) ELSE SaturatingSub(@, lines)]

\* Half a page, by Shift and the page keys.
ScrollPage(up) ==
  /\ Idle
  /\ ui' = Scrolled(ui, up, term.rows \div 2)
  /\ Silent /\ KeepMouse /\ KeepProgram

\* A key with bytes for the program ends the selection.
TypeKey ==
  /\ Idle
  /\ ui' = [ui EXCEPT !.selection = None]
  /\ Writes /\ KeepMouse /\ KeepProgram

\* Text of the input method, which is not looked for outside the search.
CommitText == /\ ~ui.search.active
              /\ Writes /\ KeepMouse /\ KeepProgram /\ UNCHANGED ui

\* The segments of a paste, opened and closed for a program that asked for it, up to the
\* first that fails.
HandleClipboardPaste ==
  /\ Idle
  /\ \E written \in IF session.fails = {} THEN {3} ELSE 0..3 :
       LET bracketed == modes.bracketedPaste /\ written > 0
       IN /\ told' = IF bracketed THEN [told EXCEPT !.paste = written < 3] ELSE told
          /\ disputed' = IF bracketed THEN [disputed EXCEPT !.paste = written < 3] ELSE disputed
          /\ Calls(written = 3, Unchanged(term), {})
  /\ UNCHANGED <<ui, clipboard, pressed>> /\ KeepProgram

-----------------------------------------------------------------------------
(* The mouse.                                                              *)

Mouse == modes.mouse

\* What is on record of the buttons is given to the program, which cannot tell a release
\* from a press in the normal format.
ReportButton(b, isPress) ==
  \E ok \in Outcomes :
    /\ told' = IF ok /\ (isPress \/ modes.format = "Sgr") /\ Mouse \in Tracked
               THEN [told EXCEPT !.down = IF isPress THEN @ \cup {b} ELSE @ \ {b}] ELSE told
    /\ disputed' = [disputed EXCEPT !.down = IF ok THEN @ \ {b} ELSE @ \cup {b}]
    /\ Calls(ok, Unchanged(term), {})

NoReport == Silent /\ UNCHANGED <<told, disputed>>

\* PointerState::set_button_state, SelectionRange::begin and update.
SetButtonState(u, b, isPress) == [u EXCEPT !.held = IF isPress THEN @ \cup {b} ELSE @ \ {b}]
BeginSelection(u) == [u EXCEPT !.selection = <<u.pointer, u.pointer>>]
UpdateSelection(u) == IF u.selection = None THEN u ELSE [u EXCEPT !.selection[2] = u.pointer]

\* The button of the selection, while the mouse is the user's and the view is the live one.
Selects(b) == b = Primary /\ Mouse = "Off" /\ ui.offset = 0

(* Mutated form: a selection that is left over is gone on with. *)
PressButtonExtending(b) ==
  /\ b \notin ui.held
  /\ LET down == SetButtonState(ui, b, TRUE)
     IN ui' = CASE Selects(b) /\ ui.selection = None -> BeginSelection(down)
                [] Selects(b) /\ ui.selection # None -> UpdateSelection(down)
                [] OTHER -> down
  /\ pressed' = IF b = Primary THEN ui.pointer ELSE pressed
  /\ IF Mouse = "Off" THEN NoReport ELSE ReportButton(b, TRUE)
  /\ UNCHANGED clipboard /\ KeepProgram

PressButton(b) ==
  /\ b \notin ui.held
  /\ LET down == SetButtonState(ui, b, TRUE)
     IN ui' = IF Selects(b) THEN BeginSelection(down) ELSE down
  /\ pressed' = IF b = Primary THEN ui.pointer ELSE pressed
  /\ IF Mouse = "Off" THEN NoReport ELSE ReportButton(b, TRUE)
  /\ UNCHANGED clipboard /\ KeepProgram

(* Mutated form: a release that may end a selection is not for the program. *)
ReleaseButtonUnreported(b) ==
  /\ b \in ui.held
  /\ LET copies == Selects(b) /\ ui.selection # None
     IN /\ ui' = [SetButtonState(ui, b, FALSE) EXCEPT !.selection = IF copies THEN None ELSE @]
        /\ clipboard' = IF copies /\ IsCopied(term, ui.selection) THEN ui.selection ELSE clipboard
  /\ IF Mouse \in Tracked /\ ui.selection = None THEN ReportButton(b, FALSE) ELSE NoReport
  /\ UNCHANGED pressed /\ KeepProgram

ReleaseButton(b) ==
  /\ b \in ui.held
  /\ LET copies == Selects(b) /\ ui.selection # None
     IN /\ ui' = [SetButtonState(ui, b, FALSE) EXCEPT !.selection = IF copies THEN None ELSE @]
        /\ clipboard' = IF copies /\ IsCopied(term, ui.selection) THEN ui.selection ELSE clipboard
  /\ IF Mouse \in Tracked THEN ReportButton(b, FALSE) ELSE NoReport
  /\ UNCHANGED pressed /\ KeepProgram

\* The end of the selection follows the pointer while the mouse is the user's; a program that
\* asked for motion hears of it.
MovePointer(cell) ==
  /\ cell # ui.pointer /\ cell[1] < term.rows
  /\ LET moved == [ui EXCEPT !.pointer = cell]
     IN ui' = IF Primary \in ui.held /\ Mouse = "Off" THEN UpdateSelection(moved) ELSE moved
  /\ IF Mouse = "AnyEvent" \/ (Mouse = "ButtonTrack" /\ ui.held # {}) THEN Writes ELSE Silent
  /\ KeepMouse /\ KeepProgram

\* A notch of the wheel: for the program that reads the mouse or takes cursor keys for it,
\* else for the view.
Wheel(up) ==
  /\ IF Mouse # "Off" \/ modes.alternateScroll
     THEN Writes /\ UNCHANGED ui
     ELSE /\ ui' = Scrolled(ui, up, 1)
          /\ since' = since \cup {"wheel"}
          /\ term' = Unchanged(term) /\ UNCHANGED degraded
  /\ KeepMouse /\ KeepProgram

-----------------------------------------------------------------------------
(* The program, the runtime and the window.                                *)

Output(t) == /\ term' = t
             /\ ui' = AfterOutput(ui, t)
             /\ since' = IF ui.search.active THEN {} ELSE since
             /\ UNCHANGED <<session, sizes, degraded, clipboard, pressed, refused>>

ProgramPrints == \E text \in session.texts :
  Output(PrintLine(Unchanged(term), text)) /\ UNCHANGED <<modes, told, disputed>>
ProgramRewrites == \E row \in DOMAIN term.grid, text \in session.texts :
  Output([Unchanged(term) EXCEPT !.grid[row] = text]) /\ UNCHANGED <<modes, told, disputed>>
ProgramErasesHistory ==
  /\ term.history # <<>>
  /\ Output([term EXCEPT !.history = <<>>, !.evicted = Len(term.history)])
  /\ UNCHANGED <<modes, told, disputed>>

\* A program that sets a mode of the mouse starts with no button down.
ProgramSetsModes == \E m \in session.modes \ {modes} :
  /\ Output(Unchanged(term))
  /\ modes' = m
  /\ told' = [told EXCEPT !.down = {}]
  /\ disputed' = [disputed EXCEPT !.down = ui.held]

\* A notice of the renderer.
RuntimeNotice == /\ "notice" \in session.overlays
                 /\ Notices /\ KeepMouse /\ KeepProgram /\ UNCHANGED ui

(* Mutated form: the size is recorded before the PTY is asked. *)
UpdateGeometryEarly(rows) ==
  LET changed == rows # sizes.geometry
  IN /\ rows # sizes.window \/ changed
     /\ \E ok \in IF changed THEN Outcomes ELSE {TRUE} :
          /\ sizes' = [sizes EXCEPT !.window = rows, !.geometry = rows,
                                    !.pty = IF ok THEN rows ELSE @]
          /\ refused' = IF changed THEN ~ok ELSE refused
          /\ IF changed THEN Calls(ok, SetRows(Unchanged(term), rows), {"resize"}) ELSE Silent
     /\ UNCHANGED <<session, modes, ui>> /\ KeepMouse

\* update_viewport_geometry: nothing for the size on record; else the terminal, then the PTY,
\* and the record only when the PTY has taken it.
UpdateViewportGeometry(rows) ==
  LET changed == rows # sizes.geometry
  IN /\ rows # sizes.window \/ changed
     /\ \E ok \in IF changed THEN Outcomes ELSE {TRUE} :
          /\ sizes' = [window |-> rows,
                       geometry |-> IF ok THEN rows ELSE sizes.geometry,
                       pty |-> IF ok THEN rows ELSE sizes.pty]
          /\ refused' = IF changed THEN ~ok ELSE refused
          /\ IF changed THEN Calls(ok, SetRows(Unchanged(term), rows), {"resize"}) ELSE Silent
     /\ UNCHANGED <<session, modes, ui>> /\ KeepMouse

Init ==
  /\ session \in Sessions
  /\ term = [history |-> <<>>, grid |-> <<<<>>>>, rows |-> session.rows, evicted |-> 0]
  /\ sizes = [window |-> session.rows, geometry |-> session.rows, pty |-> session.rows]
  /\ modes \in {m \in session.modes : m.mouse = "Off"}
  /\ degraded = FALSE
  /\ ui = [offset |-> 0, palette |-> FALSE, search |-> NoSearch,
           pointer |-> <<0, 0>>, held |-> {}, selection |-> None]
  /\ told = [down |-> {}, paste |-> FALSE]
  /\ clipboard = None
  /\ since = {} /\ strayed = FALSE /\ pressed = <<0, 0>> /\ disputed = [down |-> {}, paste |-> FALSE] /\ refused = FALSE

Keyboard ==
  \/ OpenSearch \/ CloseSearch \/ AppendSearchText \/ PopSearchText
  \/ \E reverse \in BOOLEAN : MoveSearchMatch(reverse)
  \/ TogglePalette
  \/ \E open \in BOOLEAN : HandlePaletteAction(open)
  \/ \E up \in BOOLEAN : ScrollPage(up)
  \/ TypeKey \/ CommitText \/ HandleClipboardPaste

MouseEvents ==
  \/ \E b \in session.buttons : PressButton(b)
  \/ \E b \in session.buttons : ReleaseButton(b)
  \/ \E cell \in session.cells : MovePointer(cell)
  \/ \E up \in BOOLEAN : Wheel(up)

Environment ==
  \/ ProgramPrints \/ ProgramRewrites \/ ProgramErasesHistory \/ ProgramSetsModes
  \/ RuntimeNotice
  \/ \E rows \in session.sizes : UpdateViewportGeometry(rows)

\* Whether the drag that the primary button began is still one of the live view and the user.
Strays == LET astray == ui'.offset # 0 \/ modes'.mouse # "Off"
          IN strayed' = (astray \/ (strayed /\ Primary \notin ui'.held \ ui.held))

Next == (Keyboard \/ MouseEvents \/ Environment) /\ Strays

Spec == Init /\ [][Next]_vars

-----------------------------------------------------------------------------
(* Properties.                                                             *)

IsCell(c) == c \in Nat \X (0..(Cols - 1))

\* Types; the history and the grid stay within their sizes, the active match is one of the
\* matches, there are matches of a search only, and the palette and the search are never open
\* at once (gui_runtime_terminal_io.rs: enter_search_mode, handle_keyboard_input).
TypeOK ==
  /\ session \in Sessions
  /\ Len(term.history) <= HistoryCap /\ Len(term.grid) \in 1..term.rows
  /\ \A i \in DOMAIN Lines(term) : Len(Lines(term)[i]) <= Cols
  /\ term.rows \in session.sizes /\ sizes.window \in session.sizes
  /\ modes \in session.modes /\ {degraded, strayed, refused} \subseteq BOOLEAN
  /\ ui.offset \in 0..HistoryCap /\ ui.held \subseteq session.buttons /\ IsCell(ui.pointer)
  /\ ui.selection # None => IsCell(ui.selection[1]) /\ IsCell(ui.selection[2])
  /\ IF ui.search.matches = <<>> THEN ui.search.index = None
     ELSE ui.search.active /\ ui.search.index \in DOMAIN ui.search.matches
  /\ ~(ui.palette /\ ui.search.active)
  /\ told.down \cup disputed.down \subseteq session.buttons

\* The matches of a search are those of its query in the lines there are, whatever has been
\* typed, printed, rewritten or erased; only a resize and a notice leave them out of date
\* (refresh_search_results is called from apply_output_bytes and from the edits of the query).
SearchIsFresh ==
  ui.search.active /\ since \cap {"notice", "resize"} = {} =>
    LET query == ui.search.query
    IN ui.search.matches = IF query # <<>> /\ IsRegex(query) THEN Search(term, query) ELSE <<>>

\* The line of the active match is in the window until the user scrolls, the window is resized
\* or a notice is written, and the search bar covers it only in the last row of the live view
\* and in a grid of one row (align_viewport_to_active_search_match, search_content_rows).
ActiveMatchShown ==
  ui.search.index # None /\ since = {} =>
    LET line == ActiveMatch(ui)[1]
    IN /\ line - SaturatingSub(Len(term.history), ui.offset) \in 0..(term.rows - 1)
       /\ \/ IsShown(ui, term, line)
          \/ line = Len(term.history) + term.rows - 1
          \/ term.rows = 1

\* While output arrives, which rewrites lines, and renumbers all when the history is full, the
\* active match keeps its rank: as many matches come before it as before, or it is the last that
\* is left.  So it stays on its characters while it and the matches before it stay; when one of
\* those goes, the next one becomes active (set_matches keeps the position in the list).
ActiveMatchStays ==
  [][ LET old == ui.search  new == ui'.search
          Moved(m) == <<m[1] + term'.evicted, m[2]>>
          olds == {old.matches[i] : i \in DOMAIN old.matches}
          all == {Moved(new.matches[i]) : i \in DOMAIN new.matches}
          Ahead(ms, m) == {o \in ms : Flat(o) < Flat(m)}
      IN /\ old.index # None /\ since = {} /\ since' = {}
         /\ term'.history \o term'.grid # term.history \o term.grid
         => \/ all = {}
            \/ LET was == ActiveMatch(ui)  is == Moved(ActiveMatch(ui'))
                   rank == Cardinality(Ahead(all, is))
                   ranked == Cardinality(Ahead(olds, was))
               IN /\ rank = ranked \/ (rank < ranked /\ \A m \in all : Flat(m) <= Flat(is))
                  /\ was \in all /\ Ahead(all, was) = Ahead(olds, was) => is = was ]_vars

\* The active match keeps its place among the matches, and the user sees it.
ActiveMatchKept == []ActiveMatchShown /\ ActiveMatchStays

\* A selection outlives the drag that made it, and what is copied is anything but the cells
\* from the press to the pointer, only when the view was scrolled or the program read the
\* mouse during the drag (handle_mouse_input leaves such a release alone).
SelectionFollowsDrag ==
  [][ /\ ui'.selection # None /\ Primary \notin ui'.held => strayed'
      /\ clipboard' # clipboard =>
           /\ Primary \in ui.held \ ui'.held
           /\ strayed \/ clipboard' = <<pressed, ui.pointer>> ]_vars

\* A program that reads presses and releases in the SGR format knows which buttons are down,
\* those apart that changed when it did not read the mouse or whose report was lost, and it is
\* inside a paste only when a segment was lost (encode_mouse_event, write_pty_segments).
ProgramIsTold ==
  /\ Mouse \in Tracked /\ modes.format = "Sgr" =>
       told.down \ disputed.down = ui.held \ disputed.down
  /\ told.paste => disputed.paste

\* The size on record is the size of the PTY, and the grid has the size of both and of the
\* window unless the PTY refused the last resize (update_viewport_geometry).
SizesAgree ==
  /\ sizes.geometry = sizes.pty
  /\ ~refused => sizes.window = sizes.pty /\ term.rows = sizes.pty

\* The state the user steers agrees with itself, and a search with the lines it was made in.
SearchIsSound == TypeOK /\ SearchIsFresh

=============================================================================
