----------------------------- MODULE CellPaint ------------------------------
(***************************************************************************)
(* How a line of cells becomes colours, by the CPU renderer                *)
(* (render_cpu/src/rasterize.rs) and by the GPU one                        *)
(* (render_gpu/src/cell_data.rs and terminal.wgsl), which are to show the  *)
(* same picture whichever of them draws.  Frames says which rows they      *)
(* redraw; here is one row, drawn in full.                                 *)
(*                                                                         *)
(* A column is four zones, told apart by what a cursor covers; a zone is   *)
(* its paper and the marks on it.  A colour is a sequence of words: the    *)
(* name of a colour and what was done to it.  Bold, italic and overline    *)
(* change no colour and are left out; so are the patterned underlines, and *)
(* the rounding of a mixed colour.                                         *)
(***************************************************************************)
EXTENDS Naturals, Sequences, FiniteSets

CONSTANT MaxSet   \* bound: how many things differ from a plain cell at once

VARIABLES
  cell,     \* the first cell: pen, glyph, one or two columns; the line is in the history or not
  screen    \* reverse video, what is selected and found, the cursor, the phase of the blink

vars == <<cell, screen>>

Columns == 1 .. 3
Zones == {"bar", "beside", "body", "foot"}   \* 2 pixels left, 2 more, the rest, 2 lines below

White == <<"white">>  Ground == <<"ground">>  Red == <<"red">>
Black == <<"black">>                          \* 0x000000
CursorInk == <<"cursorFg">>  CursorPaper == <<"cursorBg">>
SelectionInk == <<"selectionFg">>  SelectionPaper == <<"selectionBg">>
Half(c) == IF c = Black THEN Black ELSE Append(c, "half")
Tint(paper, ink) == IF paper = ink THEN paper ELSE paper \o <<"tinted">> \o ink

PlainPen == [fg |-> White, bg |-> Ground, underline |-> "none", line |-> "default", flags |-> {}]
Flags == {"dim", "inverse", "hidden", "blink", "strike"}

----------------------------------------------------------------------------
(* The line: the cell, its second column if it has one, and a letter.  The  *)
(* history keeps no second columns (push_from_cells): what follows a wide   *)
(* cell moves left.                                                         *)

Cell(glyph, width, pen) == [glyph |-> glyph, width |-> width, pen |-> pen]
Letter == Cell("letter", 1, PlainPen)
Empty == Cell("blank", 1, PlainPen)

GridRow ==
  IF cell.wide
  THEN <<Cell(cell.glyph, 2, cell.pen), Cell("blank", 0, cell.pen), Letter>>
  ELSE <<Cell(cell.glyph, 1, cell.pen), Letter, Empty>>

HistoryRow ==
  LET IsKept(c) == c.width # 0 /\ c # Empty IN
  SelectSeq(GridRow, IsKept)

Row == IF cell.history THEN [p \in Columns |-> IF p <= Len(HistoryRow) THEN HistoryRow[p] ELSE Empty]
                       ELSE GridRow

\* resolve_cell_colors of the terminal
Resolved(pen) ==
  LET lit == IF "dim" \in pen.flags THEN Half(pen.fg) ELSE pen.fg
      swap == screen.reverse # ("inverse" \in pen.flags)
      paper == IF swap THEN lit ELSE pen.bg
  IN [paper |-> paper,
      ink |-> IF "hidden" \in pen.flags THEN paper ELSE IF swap THEN pen.bg ELSE lit]

DefaultPaper == Resolved(PlainPen).paper

LineColour(pen, ink) == IF pen.line = "default" THEN ink ELSE <<pen.line>>

\* cell_intersects_search_hit_ranges, the same in both renderers.
IsHit(c, p) == c.width > 0 /\ \E q \in p .. (p + c.width - 1) : q \in screen.hits

\* The glyph and the lines of a cell in one zone.
Marks(glyph, pen, ink, line, zone) ==
  LET mark(what, colour) == [what |-> what, colour |-> colour] IN
  UNION {IF glyph # "blank" THEN {mark(glyph, ink)} ELSE {},
         IF "strike" \in pen.flags /\ zone # "foot" THEN {mark("strike", ink)} ELSE {},
         IF pen.underline = "double" \/ (pen.underline = "single" /\ zone = "foot")
         THEN {mark("underline", line)} ELSE {}}

CursorBlinksOff == screen.shape \in {"blinking block", "blinking underline", "blinking bar"} /\ ~screen.lit

CursorZones ==
  CASE screen.shape \in {"underline", "blinking underline"} -> {"foot"}
    [] screen.shape \in {"bar", "blinking bar"} -> {"bar"}
    [] OTHER -> Zones

\* The cursor is not shown while the view is scrolled back.
HasCursor(p) == ~cell.history /\ screen.cursor = p /\ ~CursorBlinksOff

RightHalf(glyph) == IF glyph = "blank" THEN "blank" ELSE "right half"

----------------------------------------------------------------------------
(* The CPU.                                                                 *)

CpuSelects(c, p) == \E q \in p .. (p + (IF c.width = 2 THEN 1 ELSE 0)) : q \in screen.selected

(* Mutated form: a search hit shows through the selection. *)
CpuColoursHitFirst(c, p) ==
  LET r == Resolved(c.pen) IN
  CASE IsHit(c, p) -> [r EXCEPT !.paper = Tint(@, r.ink)]
    [] ~IsHit(c, p) /\ CpuSelects(c, p) -> [paper |-> SelectionPaper, ink |-> SelectionInk]
    [] OTHER -> r

CpuColours(c, p) ==
  LET r == Resolved(c.pen) IN
  CASE CpuSelects(c, p) -> [paper |-> SelectionPaper, ink |-> SelectionInk]
    [] ~CpuSelects(c, p) /\ IsHit(c, p) -> [r EXCEPT !.paper = Tint(@, r.ink)]
    [] OTHER -> r

\* The rows of the history are drawn as if the blink were on.
CpuLit == cell.history \/ screen.lit

\* One cell over what is there: paper of the default colour is not painted.
CpuOver(under, c, p, glyph, zone) ==
  LET k == CpuColours(c, p)
      line == IF CpuSelects(c, p) THEN k.ink ELSE LineColour(c.pen, k.ink)
      seen == IF "blink" \in c.pen.flags /\ ~CpuLit THEN "blank" ELSE glyph
      marks == Marks(seen, c.pen, k.ink, line, zone)
  IN IF k.paper = DefaultPaper THEN [under EXCEPT !.marks = @ \cup marks]
                               ELSE [paper |-> k.paper, marks |-> marks]

\* render_row_cells, column by column
CpuCell(p, zone) ==
  LET left == [paper |-> DefaultPaper, marks |-> {}]
      under == IF p > 1 /\ Row[p - 1].width = 2
               THEN CpuOver(left, Row[p - 1], p - 1, RightHalf(Row[p - 1].glyph), zone) ELSE left
  IN IF Row[p].width = 0 THEN under ELSE CpuOver(under, Row[p], p, Row[p].glyph, zone)

\* draw_cursor, after the row
CpuCursor(c, zone) ==
  [paper |-> CursorPaper,
   marks |-> IF CursorZones # Zones \/ ("blink" \in c.pen.flags /\ ~screen.lit) THEN {}
             ELSE Marks(c.glyph, c.pen, CursorInk, CursorInk, zone)]

CpuPicture ==
  [p \in Columns |-> [zone \in Zones |->
     IF HasCursor(p) /\ zone \in CursorZones THEN CpuCursor(Row[p], zone) ELSE CpuCell(p, zone)]]

----------------------------------------------------------------------------
(* The GPU: an instance for each column, then a quad for each instance.     *)

PackedFlags(pen) == pen.flags
Underlines(pen) == pen.underline # "none"

\* write_row_instances, and write_scrollback_row_instances, which knows no widths
Instance(p) ==
  LET c == Row[p]
      r == Resolved(c.pen)
      wide == c.width = 2 /\ ~cell.history
  IN [glyph |-> IF c.width = 2 /\ cell.history /\ c.glyph # "blank" THEN "squeezed" ELSE c.glyph,
      pen |-> [c.pen EXCEPT !.flags = PackedFlags(c.pen)],
      fg |-> r.ink, bg |-> r.paper,
      line |-> IF Underlines(c.pen) THEN LineColour(c.pen, r.ink) ELSE Black,
      hit |-> IsHit(c, p), wide |-> wide, second |-> c.width = 0]

\* The colours of fs_main before the selection and the cursor.
ShadedCell(i) ==
  LET dimmed == IF "dim" \in i.pen.flags THEN Half(i.fg) ELSE i.fg
      swap == "inverse" \in i.pen.flags
      bg == IF swap THEN dimmed ELSE i.bg
      fg == IF "hidden" \in i.pen.flags THEN bg ELSE IF swap THEN i.bg ELSE dimmed
  IN [ink |-> fg, paper |-> IF i.hit THEN Tint(bg, fg) ELSE bg]

\* A bar cursor is a quarter of the quad: twice as much of a wide cell.
InCursor(i, p, right, zone) ==
  /\ HasCursor(p)
  /\ CASE screen.shape \in {"bar", "blinking bar"} ->
            ~right /\ (zone = "bar" \/ (i.wide /\ zone = "beside"))
       [] OTHER -> zone \in CursorZones

\* fs_main for the quad of column p, in its first or its second half
Shaded(p, right, zone) ==
  LET i == Instance(p)
      s == ShadedCell(i)
      k == CASE InCursor(i, p, right, zone) -> [paper |-> CursorPaper, ink |-> CursorInk]
             [] ~InCursor(i, p, right, zone) /\ p \in screen.selected ->
                  [paper |-> SelectionPaper, ink |-> SelectionInk]
             [] OTHER -> s
      seen == CASE "blink" \in i.pen.flags /\ ~screen.lit -> "blank"
                [] right -> RightHalf(i.glyph)
                [] OTHER -> i.glyph
  IN [paper |-> k.paper,
      marks |-> Marks(seen, i.pen, k.ink, IF i.line = Black THEN k.ink ELSE i.line, zone)]

\* The quad of a second column is discarded: the wide one reaches under it.
GpuCell(p, zone) ==
  IF Instance(p).second THEN Shaded(p - 1, TRUE, zone) ELSE Shaded(p, FALSE, zone)

GpuPicture == [p \in Columns |-> [zone \in Zones |-> GpuCell(p, zone)]]

----------------------------------------------------------------------------
(* One thing about the cell or the screen changes at a time.                *)

PlainCell == [pen |-> PlainPen, glyph |-> "glyph", wide |-> FALSE, history |-> FALSE]
PlainScreen == [reverse |-> FALSE, selected |-> {}, hits |-> {}, cursor |-> 0,
                shape |-> "block", lit |-> TRUE]

InitPaint == cell = PlainCell /\ screen = PlainScreen

\* How many things differ from the plain ones.
SetCount(c, s) ==
  Cardinality(c.pen.flags)
  + Cardinality({f \in DOMAIN c.pen \ {"flags"} : c.pen[f] # PlainPen[f]})
  + Cardinality({f \in DOMAIN c \ {"pen"} : c[f] # PlainCell[f]})
  + Cardinality({f \in DOMAIN s : s[f] # PlainScreen[f]})

PenWith(pen) == cell' = [cell EXCEPT !.pen = pen] /\ UNCHANGED screen

SetFlag == \E f \in Flags \ cell.pen.flags : PenWith([cell.pen EXCEPT !.flags = @ \cup {f}])
SetColours ==
  \/ \E c \in {Red, Black} : PenWith([cell.pen EXCEPT !.fg = c])
  \/ \E c \in {Red, Black} : PenWith([cell.pen EXCEPT !.bg = c])
SetUnderline ==
  \/ \E u \in {"single", "double"} : PenWith([cell.pen EXCEPT !.underline = u])
  \/ \E c \in {"red", "black"} : PenWith([cell.pen EXCEPT !.line = c])
SetText ==
  /\ \/ cell' = [cell EXCEPT !.glyph = "blank"]
     \/ cell' = [cell EXCEPT !.wide = TRUE]
     \/ cell' = [cell EXCEPT !.history = TRUE]
  /\ UNCHANGED screen
SetScreen ==
  /\ \/ screen' = [screen EXCEPT !.reverse = TRUE]
     \/ \E cols \in {{1}, {1, 2}, {2}} : screen' = [screen EXCEPT !.selected = cols]
     \/ \E cols \in {{1}, {2, 3}} : screen' = [screen EXCEPT !.hits = cols]
     \/ \E p \in 1 .. 2 : screen' = [screen EXCEPT !.cursor = p]
     \/ \E s \in {"blinking block", "underline", "blinking underline", "bar", "blinking bar"} :
          screen' = [screen EXCEPT !.shape = s]
     \/ screen' = [screen EXCEPT !.lit = FALSE]
  /\ UNCHANGED cell

NextPaint ==
  (SetFlag \/ SetColours \/ SetUnderline \/ SetText \/ SetScreen) /\ SetCount(cell', screen') <= MaxSet

----------------------------------------------------------------------------
(* Where the two differ, as the code stands.                                *)

OnPen(what) == what \in cell.pen.flags
IsSelected == (cell.wide /\ 2 \in screen.selected) \/ 1 \in screen.selected
CursorIsOn == \E p \in 1 .. 2 : HasCursor(p)
CursorIsOnCell == HasCursor(1) \/ (cell.wide /\ HasCursor(2))

KnownDifferences ==
  [\* The colours an instance carries are dimmed and swapped; the shader does both again.
   dimmedOrSwappedTwice |-> OnPen("dim") \/ OnPen("inverse"),
   \* The GPU keeps the colour of an underline under a selection or a cursor ...
   underlineStays |-> Underlines(cell.pen) /\ (IsSelected \/ CursorIsOnCell),
   \* ... and takes black for no colour.
   blackUnderline |-> Underlines(cell.pen) /\ cell.pen.line = "black",
   \* The CPU paints a shaped cursor over the glyph, the GPU under it.
   shapedCursor |-> CursorIsOn /\ CursorZones # Zones,
   \* The CPU does not blink in the history, and loses the lines of a cell
   \* that is blinked off under a block cursor.
   blinkInHistory |-> OnPen("blink") /\ cell.history /\ ~screen.lit,
   blinkUnderCursor |-> OnPen("blink") /\ ~screen.lit /\ CursorIsOnCell,
   \* The GPU marks a wide cell whole or, from its second column, not at all,
   \* and draws it narrow in the history.
   wideCell |-> cell.wide /\ (cell.history \/ CursorIsOnCell \/ screen.selected = {2})]

KnownDifference == \E d \in DOMAIN KnownDifferences : KnownDifferences[d]
=============================================================================
