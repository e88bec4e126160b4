--------------------------- MODULE TerminalScreen ---------------------------
(***************************************************************************)
(* The screen of TerminalState (core/src/state): grid, cursor with its     *)
(* deferred wrap, margins, origin mode, tab stops, saved cursor, the       *)
(* alternate screen and resize.  One action is one parser action applied   *)
(* (apply_action_into), or one resize by the window.                       *)
(*                                                                         *)
(* Each apply_* of the code changes the one TerminalState behind &mut self *)
(* and several call each other, so each is here an operator from a         *)
(* terminal to a terminal, and the action sets the variable to its result. *)
(* Left out: colours and attributes, titles, replies and events, the modes *)
(* only other parts read (auto_wrap stands for those an alternate screen   *)
(* captures), and zero-width characters, which replace a character in      *)
(* place.                                                                  *)
(***************************************************************************)
EXTENDS Grid

CONSTANTS
  None,          \* no margins, no saved cursor, no alternate screen, nothing printed yet
  Narrow, Wide,  \* the characters of width 1 and of width 2
  StartSize,     \* <<width, height>> at the start
  Sizes,         \* the sizes the window may be given
  ScrollbackCap, \* lines of scrollback of the primary screen
  TabInterval,   \* columns between default tab stops: 8 in the code
  Counts,        \* the repeat counts of the parser: at least 1, by step_param
  Margins,       \* the <<top, bottom>> of DECSTBM, after position_param
  Limit,         \* for each kind of step, how many a behaviour may hold
  MaxSteps       \* and how many steps it may hold in all

Kinds == {"print", "repeat", "line", "scroll", "move", "edit", "mode", "save", "switch", "resize"}

ASSUME ScreenAssumption ==
  /\ Narrow \cap Wide = {} /\ None \notin Narrow \cup Wide
  /\ Sizes \subseteq Nat \X Nat /\ StartSize \in Nat \X Nat
  /\ ScrollbackCap \in Nat /\ TabInterval \in Nat \ {0}
  /\ Counts \subseteq Nat \ {0} /\ Margins \subseteq Nat \X Nat
  /\ Limit \in [Kinds -> Nat] /\ MaxSteps \in Nat

VARIABLES
  term,   \* the TerminalState
  spent,  \* how many steps of each kind were taken: names the steps, bounds the behaviours
  steps   \* how many were taken in all
vars == <<term, spent, steps>>

-----------------------------------------------------------------------------
(* Cursor and margins.                                                     *)

HomeCursor == [row |-> 0, col |-> 0, pending |-> FALSE]

\* new(): stops every TabInterval columns, none in the first column.
DefaultTabStops(w) == [i \in 1..w |-> i > 1 /\ (i - 1) % TabInterval = 0]

NewTerminal(w, h, cap) ==
  [grid |-> NewGrid(w, h), cursor |-> HomeCursor, scrollback |-> NewScrollback(cap),
   saved |-> None, region |-> None, origin |-> FALSE, autoWrap |-> TRUE,
   tabs |-> DefaultTabStops(w), last |-> None, alternate |-> None]

ScrollTop(t) == IF t.region = None THEN 0 ELSE t.region[1]
ScrollBottom(t) ==
  IF t.region = None THEN SaturatingSub(t.grid.height, 1) ELSE t.region[2]

\* The handlers that return at once on a grid without cells.
OnGrid(t, changed) == IF IsEmpty(t.grid) THEN t ELSE changed

MoveTo(t, row, col) ==
  [t EXCEPT !.cursor = [row |-> Clamp(row, t.grid.height), col |-> Clamp(col, t.grid.width),
                        pending |-> FALSE]]

\* After a restore: inside the grid, unless there is none; a deferred wrap stays.
ClampCursor(t) ==
  OnGrid(t, [t EXCEPT !.cursor.row = Clamp(@, t.grid.height),
                      !.cursor.col = Clamp(@, t.grid.width)])

-----------------------------------------------------------------------------
(* Scrolling.                                                              *)

\* Rows leave for the scrollback only when the margins are the whole screen.
PushScrolledLines(t, n) ==
  LET lines == AtMost(n, t.grid.height)
      top   == SubSeq(t.grid.rows, 1, lines)
  IN OnGrid(t, [t EXCEPT
       !.scrollback = PushRows(@, [i \in DOMAIN top |-> top[i].cells]),
       !.grid = ScrollUp(@, lines)])

(* Mutated form: a region that starts at the first row is taken for the whole screen. *)
ApplyScrollUpFromTop(t, n) ==
  IF ScrollTop(t) = 0 THEN PushScrolledLines(t, n)
  ELSE [t EXCEPT !.grid = ScrollUpRegion(@, n, ScrollTop(t), ScrollBottom(t))]

ApplyScrollUp(t, n) ==
  IF ScrollTop(t) = 0 /\ ScrollBottom(t) = SaturatingSub(t.grid.height, 1)
  THEN PushScrolledLines(t, n)
  ELSE [t EXCEPT !.grid = ScrollUpRegion(@, n, ScrollTop(t), ScrollBottom(t))]

ApplyScrollDown(t, n) ==
  [t EXCEPT !.grid = ScrollDownRegion(@, n, ScrollTop(t), ScrollBottom(t))]

ApplyLineFeed(t) ==
  LET u == [t EXCEPT !.cursor.pending = FALSE]
  IN OnGrid(t, CASE t.cursor.row = ScrollBottom(t) -> ApplyScrollUp(u, 1)
                 [] t.cursor.row # ScrollBottom(t) /\ t.cursor.row + 1 < t.grid.height ->
                      [u EXCEPT !.cursor.row = @ + 1]
                 [] OTHER -> u)

ApplyReverseIndex(t) ==
  LET u == [t EXCEPT !.cursor.pending = FALSE]
  IN OnGrid(t, IF t.cursor.row = ScrollTop(t) THEN ApplyScrollDown(u, 1)
               ELSE [u EXCEPT !.cursor.row = SaturatingSub(@, 1)])

-----------------------------------------------------------------------------
(* Printing.                                                               *)

\* To the first column of the next row, which continues this one.
WrapLine(t) ==
  LET atBottom == t.cursor.row >= ScrollBottom(t)
      u   == IF atBottom THEN ApplyScrollUp(t, 1) ELSE t
      row == IF atBottom THEN ScrollBottom(t) ELSE t.cursor.row + 1
  IN [u EXCEPT !.cursor = [row |-> row, col |-> 0, pending |-> FALSE],
               !.grid = SetRowWrapped(@, row)]

\* Puts the character at the cursor; a wide one takes the width it is given.
PutAtCursor(t, ch, w) ==
  LET u == ClampCursor(t)
  IN [u EXCEPT !.grid = PutChar(@, u.cursor.row, u.cursor.col, ch, w), !.last = ch]

\* The cursor moves on, or stays at the edge with the wrap deferred.
Advance(t, w) ==
  CASE t.cursor.col + w < t.grid.width -> [t EXCEPT !.cursor.col = @ + w]
    [] t.cursor.col + w >= t.grid.width /\ t.autoWrap ->
         [t EXCEPT !.cursor.col = t.grid.width - 1, !.cursor.pending = TRUE]
    [] OTHER -> t

ApplyPrint(t, ch) ==
  LET w == IF ch \in Wide THEN 2 ELSE 1
      wrapped == IF t.cursor.pending THEN WrapLine(t) ELSE t
      tooWide == w = 2 /\ wrapped.cursor.col + 1 >= t.grid.width
  IN OnGrid(t, CASE tooWide /\ ~t.autoWrap -> PutAtCursor(wrapped, ch, 1)
                 [] tooWide /\ t.autoWrap  -> Advance(PutAtCursor(WrapLine(wrapped), ch, w), w)
                 [] OTHER -> Advance(PutAtCursor(wrapped, ch, w), w))

ApplyRepeatLastChar(t, n) ==
  LET after[i \in 0..n] == IF i = 0 THEN t ELSE ApplyPrint(after[i - 1], t.last)
  IN IF t.last = None THEN t ELSE after[n]

-----------------------------------------------------------------------------
(* Cursor motion.                                                          *)

ApplyCarriageReturn(t) == [t EXCEPT !.cursor.col = 0, !.cursor.pending = FALSE]

ApplyBackspace(t) ==
  [t EXCEPT !.cursor.col = SaturatingSub(@, 1), !.cursor.pending = FALSE]

ApplyTab(t) ==
  LET stops == {c \in (t.cursor.col + 1)..(t.grid.width - 1) : t.tabs[c + 1]}
  IN OnGrid(t, [t EXCEPT !.cursor.pending = FALSE,
                         !.cursor.col = IF stops = {} THEN t.grid.width - 1 ELSE Min(stops)])

ApplyCursorBackwardTab(t, n) ==
  LET StopBefore(col) == Max({c \in 0..(col - 1) : t.tabs[c + 1]} \cup {0})
      after[i \in 0..n] == IF i = 0 THEN t.cursor.col ELSE StopBefore(after[i - 1])
  IN OnGrid(t, [t EXCEPT !.cursor.pending = FALSE, !.cursor.col = after[n]])

\* Within the margins in origin mode, within the screen otherwise.
ApplyCursorRelative(t, rows, cols) ==
  LET low  == IF t.origin THEN ScrollTop(t) ELSE 0
      high == IF t.origin THEN ScrollBottom(t) ELSE SaturatingSub(t.grid.height, 1)
      row  == t.cursor.row + rows
      col  == t.cursor.col + cols
  IN OnGrid(t, MoveTo(t, IF row < low THEN low ELSE AtMost(row, high),
                         IF col < 0 THEN 0 ELSE col))

\* Rows count from the top margin in origin mode.
ApplyCursorPosition(t, row, col) ==
  OnGrid(t, MoveTo(t, IF t.origin THEN row + ScrollTop(t) ELSE row, col))

-----------------------------------------------------------------------------
(* Erasing and editing.                                                    *)

ClearRows(g, rows) ==
  [g EXCEPT !.rows = [i \in DOMAIN @ |->
     IF i - 1 \in rows THEN [@[i] EXCEPT !.cells = Blanks(g.width)] ELSE @[i]]]

ApplyClearDisplay(t, mode) ==
  LET row == Clamp(t.cursor.row, t.grid.height)
      col == Clamp(t.cursor.col, t.grid.width)
  IN OnGrid(t, CASE mode = "below" -> [t EXCEPT !.grid =
                      ClearRows(ClearRange(@, row, col, t.grid.width),
                                (row + 1)..(t.grid.height - 1))]
                 [] mode = "above" -> [t EXCEPT !.grid =
                      ClearRange(ClearRows(@, 0..(row - 1)), row, 0, col + 1)]
                 [] mode = "all" -> [t EXCEPT !.grid = ClearGrid(@)]
                 [] mode = "scrollback" -> [t EXCEPT !.scrollback.lines = <<>>])

ApplyClearLine(t, mode) ==
  LET row == Clamp(t.cursor.row, t.grid.height)
      col == Clamp(t.cursor.col, t.grid.width)
  IN OnGrid(t, [t EXCEPT !.grid =
       CASE mode = "right" -> ClearRange(@, row, col, t.grid.width)
         [] mode = "left"  -> ClearRange(@, row, 0, col + 1)
         [] mode = "all"   -> ClearRow(@, row)])

\* Only with the cursor between the margins; the cursor stays where it is.
BetweenMargins(t) == ScrollTop(t) <= t.cursor.row /\ t.cursor.row <= ScrollBottom(t)

ApplyInsertLines(t, n) ==
  IF BetweenMargins(t)
  THEN [t EXCEPT !.grid = InsertLines(@, t.cursor.row, n, ScrollBottom(t))] ELSE t

ApplyDeleteLines(t, n) ==
  IF BetweenMargins(t)
  THEN [t EXCEPT !.grid = DeleteLines(@, t.cursor.row, n, ScrollBottom(t))] ELSE t

ApplyEraseChars(t, n) ==
  [t EXCEPT !.grid = EraseChars(@, t.cursor.row, t.cursor.col, n)]
ApplyInsertChars(t, n) ==
  [t EXCEPT !.grid = InsertChars(@, t.cursor.row, t.cursor.col, n)]
ApplyDeleteChars(t, n) ==
  [t EXCEPT !.grid = DeleteChars(@, t.cursor.row, t.cursor.col, n)]

-----------------------------------------------------------------------------
(* Modes, margins and tab stops.                                           *)

\* A pair out of order leaves the margins; the cursor goes home in any case.
ApplySetScrollRegion(t, top, bottom) ==
  LET first == Clamp(top, t.grid.height)
      last  == Clamp(bottom, t.grid.height)
      region == CASE first = 0 /\ last = t.grid.height - 1 -> None
                  [] ~(first = 0 /\ last = t.grid.height - 1) /\ first <= last -> <<first, last>>
                  [] OTHER -> t.region
  IN OnGrid(t, [t EXCEPT !.region = region, !.cursor.row = 0, !.cursor.col = 0])

SetOriginMode(t, enabled) ==
  IF enabled
  THEN [t EXCEPT !.origin = TRUE, !.cursor.row = ScrollTop(t), !.cursor.col = 0]
  ELSE [t EXCEPT !.origin = FALSE]

ApplyHorizontalTabSet(t) ==
  IF t.cursor.col < Len(t.tabs) THEN [t EXCEPT !.tabs[t.cursor.col + 1] = TRUE] ELSE t

ApplyTabClear(t, all) ==
  IF all THEN [t EXCEPT !.tabs = [i \in DOMAIN @ |-> FALSE]]
  ELSE IF t.cursor.col < Len(t.tabs) THEN [t EXCEPT !.tabs[t.cursor.col + 1] = FALSE] ELSE t

-----------------------------------------------------------------------------
(* Saved cursor and alternate screen.                                      *)

ApplyCursorSave(t) == [t EXCEPT !.saved = [cursor |-> t.cursor, origin |-> t.origin]]

ApplyCursorRestore(t) ==
  IF t.saved = None THEN t
  ELSE ClampCursor([t EXCEPT !.cursor = t.saved.cursor, !.origin = t.saved.origin])

\* The fields an alternate screen puts aside and gives back.
ScreenOf(t) ==
  [grid |-> t.grid, cursor |-> t.cursor, scrollback |-> t.scrollback, saved |-> t.saved,
   region |-> t.region, origin |-> t.origin, autoWrap |-> t.autoWrap]

\* Mode 1049 sends the cursor home; modes 47 and 1047 leave it.  Auto-wrap stays as it was.
EnterAlternate(t, cursor) ==
  IF t.alternate # None THEN t
  ELSE [t EXCEPT !.alternate = ScreenOf(t),
                 !.grid = NewGrid(t.grid.width, t.grid.height), !.cursor = cursor,
                 !.scrollback = NewScrollback(0), !.saved = None, !.region = None,
                 !.origin = FALSE]

ApplyAlternateScreenEnter(t) == EnterAlternate(t, HomeCursor)
ApplyAlternateScreenEnterSimple(t) == EnterAlternate(t, t.cursor)

ApplyAlternateScreenLeave(t) ==
  IF t.alternate = None THEN t
  ELSE ClampCursor([t EXCEPT
         !.alternate = None, !.grid = t.alternate.grid, !.cursor = t.alternate.cursor,
         !.scrollback = t.alternate.scrollback, !.saved = t.alternate.saved,
         !.region = t.alternate.region, !.origin = t.alternate.origin,
         !.autoWrap = t.alternate.autoWrap])

-----------------------------------------------------------------------------
(* Resize.                                                                 *)

\* Stops beyond the old width are the default ones, the first column of an empty row included.
ResizeTabs(tabs, w) ==
  [i \in 1..w |-> IF i <= Len(tabs) THEN tabs[i] ELSE (i - 1) % TabInterval = 0]

\* What was put aside keeps its margins and its saved cursor, whatever their rows.
ResizeAlternate(aside, w, h) ==
  [aside EXCEPT !.grid = ResizeGrid(@, w, h),
                !.cursor = [row |-> Clamp(@.row, h), col |-> Clamp(@.col, w),
                            pending |-> FALSE]]

(* Mutated form: the margins of the old size stay. *)
ApplyResizeKeepingMargins(t, w, h) ==
  LET new == Reflow(t.grid, w, h, t.cursor.row, t.cursor.col)
  IN [t EXCEPT !.grid = new.grid,
               !.scrollback = PushRows(@, new.pushed),
               !.cursor = [row |-> new.row, col |-> new.col, pending |-> FALSE],
               !.tabs = ResizeTabs(@, w),
               !.alternate = IF @ = None THEN None ELSE ResizeAlternate(@, w, h)]

ApplyResize(t, w, h) ==
  LET new == Reflow(t.grid, w, h, t.cursor.row, t.cursor.col)
  IN [t EXCEPT !.grid = new.grid,
               !.scrollback = PushRows(@, new.pushed),
               !.cursor = [row |-> new.row, col |-> new.col, pending |-> FALSE],
               !.region = None,
               !.tabs = ResizeTabs(@, w),
               !.alternate = IF @ = None THEN None ELSE ResizeAlternate(@, w, h)]

-----------------------------------------------------------------------------
(* The actions.                                                            *)

Init == /\ term = NewTerminal(StartSize[1], StartSize[2], ScrollbackCap)
        /\ spent = [kind \in Kinds |-> 0]
        /\ steps = 0

\* One step of a kind, while the bounds allow it.
Do(kind, result) == /\ spent[kind] < Limit[kind] /\ steps < MaxSteps
                    /\ spent' = [spent EXCEPT ![kind] = @ + 1]
                    /\ steps' = steps + 1
                    /\ term' = result

PrintChar == \E ch \in Narrow \cup Wide : Do("print", ApplyPrint(term, ch))
RepeatLastChar == \E n \in Counts : Do("repeat", ApplyRepeatLastChar(term, n))

LineFeed == Do("line", ApplyLineFeed(term))
NextLine == Do("line", ApplyLineFeed(ApplyCarriageReturn(term)))
ReverseIndex == Do("scroll", ApplyReverseIndex(term))
ScrollLinesUp == \E n \in Counts : Do("scroll", ApplyScrollUp(term, n))
ScrollLinesDown == \E n \in Counts : Do("scroll", ApplyScrollDown(term, n))

CarriageReturn == Do("move", ApplyCarriageReturn(term))
Backspace == Do("move", ApplyBackspace(term))
Tab == Do("move", ApplyTab(term))
CursorBackwardTab == \E n \in Counts : Do("move", ApplyCursorBackwardTab(term, n))
CursorUp == \E n \in Counts : Do("move", ApplyCursorRelative(term, -n, 0))
CursorDown == \E n \in Counts : Do("move", ApplyCursorRelative(term, n, 0))
CursorForward == \E n \in Counts : Do("move", ApplyCursorRelative(term, 0, n))
CursorBack == \E n \in Counts : Do("move", ApplyCursorRelative(term, 0, -n))
CursorNextLine ==
  \E n \in Counts : Do("move", ApplyCarriageReturn(ApplyCursorRelative(term, n, 0)))
CursorPreviousLine ==
  \E n \in Counts : Do("move", ApplyCarriageReturn(ApplyCursorRelative(term, -n, 0)))
CursorPosition ==
  \E row \in 0..(term.grid.height - 1), col \in 0..(term.grid.width - 1) :
    Do("move", ApplyCursorPosition(term, row, col))
CursorHorizontalAbsolute ==
  \E col \in 0..(term.grid.width - 1) :
    Do("move", ApplyCursorPosition(term, term.cursor.row, col))
VerticalPositionAbsolute ==
  \E row \in 0..(term.grid.height - 1) :
    Do("move", ApplyCursorPosition(term, row, term.cursor.col))

ClearDisplay == \E mode \in {"below", "above", "all", "scrollback"} :
                  Do("edit", ApplyClearDisplay(term, mode))
ClearLine == \E mode \in {"right", "left", "all"} : Do("edit", ApplyClearLine(term, mode))
InsertLinesHere == \E n \in Counts : Do("scroll", ApplyInsertLines(term, n))
DeleteLinesHere == \E n \in Counts : Do("scroll", ApplyDeleteLines(term, n))
EraseCharacters == \E n \in Counts : Do("edit", ApplyEraseChars(term, n))
InsertCharacters == \E n \in Counts : Do("edit", ApplyInsertChars(term, n))
DeleteCharacters == \E n \in Counts : Do("edit", ApplyDeleteChars(term, n))

SetScrollRegion ==
  \E m \in Margins : Do("mode", ApplySetScrollRegion(term, m[1], m[2]))
OriginMode == \E enabled \in BOOLEAN : Do("mode", SetOriginMode(term, enabled))
AutoWrapMode ==
  \E enabled \in BOOLEAN : Do("mode", [term EXCEPT !.autoWrap = enabled])
HorizontalTabSet == Do("mode", ApplyHorizontalTabSet(term))
TabClear == \E all \in BOOLEAN : Do("mode", ApplyTabClear(term, all))

CursorSavePosition == Do("save", ApplyCursorSave(term))
CursorRestorePosition == Do("save", ApplyCursorRestore(term))

AlternateScreenEnter == Do("switch", ApplyAlternateScreenEnter(term))
AlternateScreenEnterSimple == Do("switch", ApplyAlternateScreenEnterSimple(term))
AlternateScreenLeave == Do("switch", ApplyAlternateScreenLeave(term))

Resize == \E size \in Sizes : Do("resize", ApplyResize(term, size[1], size[2]))

Next ==
  \/ PrintChar \/ RepeatLastChar
  \/ LineFeed \/ NextLine \/ ReverseIndex \/ ScrollLinesUp \/ ScrollLinesDown
  \/ CarriageReturn \/ Backspace \/ Tab \/ CursorBackwardTab
  \/ CursorUp \/ CursorDown \/ CursorForward \/ CursorBack
  \/ CursorNextLine \/ CursorPreviousLine
  \/ CursorPosition \/ CursorHorizontalAbsolute \/ VerticalPositionAbsolute
  \/ ClearDisplay \/ ClearLine \/ InsertLinesHere \/ DeleteLinesHere
  \/ EraseCharacters \/ InsertCharacters \/ DeleteCharacters
  \/ SetScrollRegion \/ OriginMode \/ AutoWrapMode \/ HorizontalTabSet \/ TabClear
  \/ CursorSavePosition \/ CursorRestorePosition
  \/ AlternateScreenEnter \/ AlternateScreenEnterSimple \/ AlternateScreenLeave
  \/ Resize

Spec == Init /\ [][Next]_vars

-----------------------------------------------------------------------------
(* Properties.                                                             *)

\* The step is of this kind.
Took(kind) == spent'[kind] # spent[kind]

IsGrid(g) ==
  /\ {g.width, g.height} \subseteq Nat
  /\ Len(g.rows) = g.height
  /\ \A i \in DOMAIN g.rows : /\ Len(g.rows[i].cells) = g.width
                              /\ g.rows[i].wrapped \in BOOLEAN

\* The shape all of the code indexes by: the rows and cells a grid says it has, a tab stop for
\* each column, margins in order (i32::clamp panics on others), a cursor column on the screen,
\* one alternate screen at most, of the same size, without scrollback.
TypeOK ==
  /\ IsGrid(term.grid)
  /\ Len(term.tabs) = term.grid.width
  /\ ScrollTop(term) <= ScrollBottom(term)
  /\ term.cursor.row \in Nat
  /\ IsEmpty(term.grid) \/ term.cursor.col \in 0..(term.grid.width - 1)
  /\ Len(term.scrollback.lines) <= term.scrollback.cap
  /\ term.alternate # None =>
       /\ IsGrid(term.alternate.grid)
       /\ term.alternate.grid.width = term.grid.width
       /\ term.alternate.grid.height = term.grid.height
       /\ term.scrollback.cap = 0

CursorInside(t) == IsEmpty(t.grid) \/ t.cursor.row < t.grid.height
RegionStale(t) == t.region # None /\ t.region[2] >= t.grid.height
LeavesAlternate == term.alternate # None /\ term'.alternate = None

\* The cursor's row leaves the screen only while the margins lie beyond it, and margins lie
\* beyond it only when an alternate screen gives back the ones it put aside, which resize did
\* not look at.  Every other step, resize included, keeps both inside (the is-in-bounds
\* assertions of state/tests_stress.rs).
OnlyStaleMarginsMoveCursorOut ==
  [][/\ CursorInside(term) /\ ~CursorInside(term') => RegionStale(term)
     /\ RegionStale(term') => RegionStale(term) \/ LeavesAlternate]_vars

\* The primary screen, shown or put aside.
Primary(t) == IF t.alternate = None THEN ScreenOf(t) ELSE t.alternate

\* Between entering an alternate screen and leaving it, both included, nothing but a resize
\* touches the primary screen: what leave shows is what enter hid, scrollback, margins, saved
\* cursor and modes included (alternate_screen_enter_leave_roundtrip, for every program).
PrimaryUntouched ==
  [][(term.alternate # None \/ term'.alternate # None) =>
       \/ Took("resize")
       \/ Primary(term') = Primary(term)
       \/ LeavesAlternate /\ ~CursorInside(ScreenOf(Primary(term)))]_vars

\* What scrolls, scrolls between the margins: the characters of the other rows stay, except on
\* the row where one is printed (scroll_region_print_wrap_stays_in_region).
MarginsProtectRows ==
  [][Took("print") \/ Took("line") \/ Took("scroll") =>
     RegionStale(term) \/
       \A row \in 0..(term.grid.height - 1) :
         \/ ScrollTop(term) <= row /\ row <= ScrollBottom(term)
         \/ Took("print") /\ row = term'.cursor.row
         \/ term'.grid.rows[row + 1].cells = term.grid.rows[row + 1].cells]_vars

\* A program reaches only what it is given: the screen it is on, and of it the rows between
\* the margins when it scrolls.
RegionsAreKept == PrimaryUntouched /\ MarginsProtectRows

\* All characters of the primary screen, the oldest first.
PrimaryText(t) ==
  FlattenSeq([i \in DOMAIN Primary(t).scrollback.lines |->
                RowText(Primary(t).scrollback.lines[i])])
    \o RowsText(Primary(t).grid.rows)
ScrollbackFull == Len(Primary(term').scrollback.lines) = Primary(term').scrollback.cap
NoSizeIsZero == ~IsEmpty(term.grid) /\ ~IsEmpty(term'.grid)

\* A resize of the primary screen loses no character and keeps their order, and as long as no
\* row is pushed into the scrollback the lines of text, joined over soft wraps, are the same
\* lines (shrink_expand_roundtrip_preserves_text, for every size and every text).
ReflowKeepsText ==
  [][Took("resize") /\ term.alternate = None /\ NoSizeIsZero /\ ~ScrollbackFull =>
       /\ PrimaryText(term') = PrimaryText(term)
       /\ term'.scrollback = term.scrollback => LineTexts(term'.grid) = LineTexts(term.grid)]_vars

\* On the primary screen without margins no character scrolls away: a line feed only moves
\* lines into the scrollback, and a character (a blank is none) printed with the wrap deferred
\* on the last row comes after all of them.
ScrollKeepsText ==
  [][term.alternate = None /\ term.region = None /\ NoSizeIsZero /\ ~ScrollbackFull =>
       /\ Took("line") => PrimaryText(term') = PrimaryText(term)
       /\ Took("print") /\ term.cursor.pending /\ term.cursor.row = term.grid.height - 1
          /\ term'.last # " " =>
            /\ Len(PrimaryText(term')) = Len(PrimaryText(term)) + 1
            /\ IsPrefix(PrimaryText(term), PrimaryText(term'))]_vars

\* Text is lost neither by a resize nor by a scroll.
TextIsKept == ReflowKeepsText /\ ScrollKeepsText

\* Printing never leaves half of a wide character behind, whatever it overwrites and wherever
\* it wraps or scrolls (on a screen wide enough to hold one).
PrintKeepsPairs ==
  [][Took("print") /\ term.grid.width >= 2 /\ Paired(term.grid) => Paired(term'.grid)]_vars

\* The screen keeps its shape, and cursor and margins stay on it.
ScreenIsInBounds == []TypeOK /\ OnlyStaleMarginsMoveCursorOut

=============================================================================
