-------------------------------- MODULE Grid --------------------------------
(***************************************************************************)
(* The character grid of core/src/grid: rows of cells with a soft-wrap     *)
(* flag each, its scrolls, edits and the two ways it is resized, and the   *)
(* scrollback of core/src/scrollback.rs that takes the rows pushed off it. *)
(*                                                                         *)
(* A cell is <<character, width>>: width 2 for the first cell of a wide    *)
(* character, 0 for the continuation behind it, 1 for everything else.     *)
(* Colours are left out, so every blank is the default blank, and so are   *)
(* dirty_rows and scroll_count, which only the renderers read.  A row is a *)
(* sequence of cells: column c of the code is element c + 1.               *)
(***************************************************************************)
EXTENDS Integers, Sequences, SequencesExt

Blank == <<" ", 1>>
Continuation == <<" ", 0>>
CellWidth(cell) == cell[2]

Blanks(n) == [i \in 1..n |-> Blank]
BlankLine(w) == [cells |-> Blanks(w), wrapped |-> FALSE]
BlankLines(n, w) == [i \in 1..n |-> BlankLine(w)]

AtMost(n, limit) == IF n > limit THEN limit ELSE n
SaturatingSub(n, m) == IF n > m THEN n - m ELSE 0
\* cursor.rs clamp: the nearest index below size, 0 when there is none.
Clamp(n, size) == AtMost(n, SaturatingSub(size, 1))

NewGrid(w, h) == [width |-> w, height |-> h, rows |-> BlankLines(h, w)]
IsEmpty(g) == g.width = 0 \/ g.height = 0

-----------------------------------------------------------------------------
(* Cells.                                                                  *)

(* Mutated form: only the cell written changes. *)
PutCharAlone(g, row, col, ch, w) ==
  IF row < g.height /\ col < g.width
  THEN [g EXCEPT !.rows[row + 1].cells =
          [i \in 1..g.width |-> CASE i = col + 1 -> <<ch, w>>
                                  [] i = col + 2 /\ w = 2 -> Continuation
                                  [] OTHER -> @[i]]]
  ELSE g

\* Writes one character; a wide character that loses one of its two cells loses the other.
PutChar(g, row, col, ch, w) ==
  LET old == g.rows[row + 1].cells
      IsWide(c) == c \in 0..(g.width - 1) /\ CellWidth(old[c + 1]) = 2
      IsTail(c) == c \in 0..(g.width - 1) /\ CellWidth(old[c + 1]) = 0
      orphans == {c \in {col - 1} : IsWide(c) /\ IsTail(col)}
                   \cup {c \in {col + 1} : IsTail(c) /\ IsWide(col)}
                   \cup {c \in {col + 2} : w = 2 /\ IsTail(c) /\ IsWide(col + 1)}
      cells == [i \in 1..g.width |->
                  CASE i = col + 1 -> <<ch, w>>
                    [] i = col + 2 /\ w = 2 -> Continuation
                    [] i - 1 \in orphans /\ ~(i = col + 2 /\ w = 2) -> Blank
                    [] OTHER -> old[i]]
  IN IF row < g.height /\ col < g.width
     THEN [g EXCEPT !.rows[row + 1].cells = cells]
     ELSE g

SetRowWrapped(g, row) ==
  IF row < g.height THEN [g EXCEPT !.rows[row + 1].wrapped = TRUE] ELSE g

\* Replaces the cells of a row; a row outside the grid is an error the callers drop.
EditRow(g, row, Edit(_)) ==
  IF row < g.height THEN [g EXCEPT !.rows[row + 1].cells = Edit(@)] ELSE g

\* Columns from..to - 1 become blank; the soft-wrap flag of the row stays.
ClearRange(g, row, from, to) ==
  EditRow(g, row, LAMBDA cells :
    [i \in 1..g.width |-> IF from < i /\ i <= to THEN Blank ELSE cells[i]])

ClearRow(g, row) == ClearRange(g, row, 0, g.width)
ClearGrid(g) == NewGrid(g.width, g.height)

EraseChars(g, row, col, n) ==
  IF col < g.width THEN ClearRange(g, row, col, AtMost(col + n, g.width)) ELSE g

InsertChars(g, row, col, n) ==
  LET count == AtMost(n, g.width - col)
  IN IF col >= g.width THEN g
     ELSE EditRow(g, row, LAMBDA cells :
            SubSeq(cells, 1, col) \o Blanks(count) \o SubSeq(cells, col + 1, g.width - count))

DeleteChars(g, row, col, n) ==
  LET count == AtMost(n, g.width - col)
  IN IF col >= g.width THEN g
     ELSE EditRow(g, row, LAMBDA cells :
            SubSeq(cells, 1, col) \o SubSeq(cells, col + count + 1, g.width) \o Blanks(count))

-----------------------------------------------------------------------------
(* Scrolls of the rows top..bottom; both are clamped to the grid first.    *)

ScrollUpRegion(g, n, top, bottom) ==
  LET first == Clamp(top, g.height)
      last  == Clamp(bottom, g.height)
      lines == AtMost(n, last - first + 1)
  IN IF IsEmpty(g) \/ top > bottom THEN g
     ELSE [g EXCEPT !.rows = SubSeq(@, 1, first)
                               \o SubSeq(@, first + lines + 1, last + 1)
                               \o BlankLines(lines, g.width)
                               \o SubSeq(@, last + 2, g.height)]

ScrollDownRegion(g, n, top, bottom) ==
  LET first == Clamp(top, g.height)
      last  == Clamp(bottom, g.height)
      lines == AtMost(n, last - first + 1)
  IN IF IsEmpty(g) \/ top > bottom THEN g
     ELSE [g EXCEPT !.rows = SubSeq(@, 1, first)
                               \o BlankLines(lines, g.width)
                               \o SubSeq(@, first + 1, last + 1 - lines)
                               \o SubSeq(@, last + 2, g.height)]

ScrollUp(g, n) == ScrollUpRegion(g, n, 0, SaturatingSub(g.height, 1))

InsertLines(g, row, n, bottom) ==
  IF row > bottom THEN g
  ELSE ScrollDownRegion(g, n, AtMost(row, Clamp(bottom, g.height)), Clamp(bottom, g.height))

DeleteLines(g, row, n, bottom) ==
  IF row > bottom THEN g
  ELSE ScrollUpRegion(g, n, AtMost(row, Clamp(bottom, g.height)), Clamp(bottom, g.height))

-----------------------------------------------------------------------------
(* Scrollback.                                                             *)

NewScrollback(cap) == [cap |-> cap, lines |-> <<>>]

TrimBlanks(cells) ==
  SubSeq(cells, 1, Max({i \in DOMAIN cells : cells[i] # Blank} \cup {0}))

WithoutTails(cells) ==
  LET kept[n \in 0..Len(cells)] ==
        IF n = 0 THEN <<>>
        ELSE IF CellWidth(cells[n]) = 0 THEN kept[n - 1] ELSE Append(kept[n - 1], cells[n])
  IN kept[Len(cells)]

\* A row enters without its trailing blanks and its continuation cells; the oldest line goes.
PushRow(scrollback, cells) ==
  LET lines == Append(scrollback.lines, WithoutTails(TrimBlanks(cells)))
  IN IF scrollback.cap = 0 THEN scrollback
     ELSE [scrollback EXCEPT !.lines =
             SubSeq(lines, SaturatingSub(Len(lines), scrollback.cap) + 1, Len(lines))]

PushRows(scrollback, rows) ==
  LET after[n \in 0..Len(rows)] ==
        IF n = 0 THEN scrollback ELSE PushRow(after[n - 1], rows[n])
  IN after[Len(rows)]

-----------------------------------------------------------------------------
(* Resize without reflow: what fits is kept, the flags are not.            *)

ResizeGrid(g, w, h) ==
  LET Kept(r, c) == IF r <= g.height /\ c <= g.width THEN g.rows[r].cells[c] ELSE Blank
  IN IF w = g.width /\ h = g.height THEN g
     ELSE [width |-> w, height |-> h,
           rows |-> [r \in 1..h |-> [cells |-> [c \in 1..w |-> Kept(r, c)],
                                     wrapped |-> FALSE]]]

-----------------------------------------------------------------------------
(* Resize with reflow.                                                     *)

\* The rows, those with the soft-wrap flag joined to the row before.
LogicalLines(rows) ==
  LET Join(lines, row) ==
        IF lines # <<>> /\ row.wrapped
        THEN [lines EXCEPT ![Len(lines)] = @ \o row.cells]
        ELSE Append(lines, row.cells)
      joined[n \in 0..Len(rows)] ==
        IF n = 0 THEN <<>> ELSE Join(joined[n - 1], rows[n])
  IN joined[Len(rows)]

\* The logical line a row belongs to (1 when the row is not in the grid) and its first row.
LineHeads(rows) == {r \in DOMAIN rows : r = 1 \/ ~rows[r].wrapped}
HeadOf(rows, row) ==
  IF row \in DOMAIN rows THEN Max({r \in LineHeads(rows) : r <= row}) ELSE 1

(* Mutated form: a wide character that does not fit is cut off. *)
LayCellCut(w, laid, cell) ==
  LET col  == Len(laid.row)
      full == col >= w
      row  == IF full THEN <<>> ELSE laid.row
      fits == Len(row) + CellWidth(cell) <= w
  IN IF CellWidth(cell) = 0 \/ ~fits
     THEN [laid EXCEPT !.at = Append(@, [row |-> Len(laid.done), col |-> col])]
     ELSE [done |-> IF full THEN Append(laid.done, laid.row) ELSE laid.done,
           row  |-> row \o <<cell>> \o (IF CellWidth(cell) = 2 THEN <<Continuation>> ELSE <<>>),
           at   |-> Append(laid.at, [row |-> Len(laid.done), col |-> col])]

\* One cell after the ones already laid: a row too full for it is ended first.  "at" records
\* where the code believes each cell goes, which it looks up before it ends the row.
LayCell(w, laid, cell) ==
  LET col  == Len(laid.row)
      full == col >= w \/ (CellWidth(cell) = 2 /\ col + 1 >= w)
      row  == IF full THEN <<>> ELSE laid.row
      tail == IF CellWidth(cell) = 2 /\ Len(row) + 1 < w THEN <<Continuation>> ELSE <<>>
      here == [row |-> Len(laid.done),
               col |-> IF CellWidth(cell) = 0 THEN SaturatingSub(col, 2) ELSE col]
  IN IF CellWidth(cell) = 0 THEN [laid EXCEPT !.at = Append(@, here)]
     ELSE [done |-> IF full THEN Append(laid.done, laid.row) ELSE laid.done,
           row  |-> row \o <<cell>> \o tail,
           at   |-> Append(laid.at, here)]

LayLine(line, w) ==
  LET laid[n \in 0..Len(line)] ==
        IF n = 0 THEN [done |-> <<>>, row |-> <<>>, at |-> <<>>]
        ELSE LayCell(w, laid[n - 1], line[n])
  IN laid[Len(line)]

RowsOf(laid, w) ==
  LET rows == Append(laid.done, laid.row)
  IN [i \in DOMAIN rows |-> [cells |-> rows[i] \o Blanks(w - Len(rows[i])), wrapped |-> i > 1]]

\* resize_with_reflow for sizes that are not zero: the grid, the cursor and the rows pushed out.
Relaid(g, w, h, row, col) ==
  LET abs     == row * g.width + col
      absRow  == abs \div g.width + 1
      head    == HeadOf(g.rows, absRow)
      line    == Cardinality({r \in LineHeads(g.rows) : r <= head})
      lines   == LogicalLines(g.rows)
      trimmed == [i \in DOMAIN lines |-> TrimBlanks(lines[i])]
      kept    == SubSeq(trimmed, 1, Max({line} \cup {i \in DOMAIN trimmed : trimmed[i] # <<>>}))
      found   == IF absRow \in DOMAIN g.rows THEN abs - (head - 1) * g.width ELSE 0
      laid    == [i \in DOMAIN kept |-> LayLine(kept[i], w)]
      rows    == [i \in DOMAIN kept |-> RowsOf(laid[i], w)]
      all     == FlattenSeq(rows)
      over    == SaturatingSub(Len(all), h)
      before  == Len(FlattenSeq(SubSeq(rows, 1, line - 1)))
      at      == IF kept[line] = <<>> THEN [row |-> 0, col |-> found]
                 ELSE laid[line].at[AtMost(found, Len(kept[line]) - 1) + 1]
  IN [grid   |-> [width |-> w, height |-> h,
                  rows |-> SubSeq(all, over + 1, Len(all))
                             \o BlankLines(SaturatingSub(h, Len(all)), w)],
      row    |-> Clamp(SaturatingSub(before + at.row, over), h),
      col    |-> Clamp(at.col, w),
      pushed |-> [i \in 1..over |-> all[i].cells]]

Reflow(g, w, h, row, col) ==
  CASE w # 0 /\ h # 0 /\ w = g.width /\ h = g.height ->
         [grid |-> g, row |-> row, col |-> col, pushed |-> <<>>]
    [] w = 0 \/ h = 0 \/ IsEmpty(g) ->
         [grid |-> ResizeGrid(g, w, h), row |-> 0, col |-> 0, pushed |-> <<>>]
    [] OTHER -> Relaid(g, w, h, row, col)

-----------------------------------------------------------------------------
(* What a reader of the grid sees.                                         *)

\* The characters of a row, each wide one once, without blanks.
RowText(cells) ==
  LET seen[n \in 0..Len(cells)] ==
        IF n = 0 THEN <<>>
        ELSE IF cells[n][1] = " " THEN seen[n - 1] ELSE Append(seen[n - 1], cells[n])
  IN seen[Len(cells)]

\* The characters of a sequence of rows, in reading order.
RowsText(rows) == FlattenSeq([i \in DOMAIN rows |-> RowText(rows[i].cells)])

\* The texts of the logical lines up to the last that is not empty.
LineTexts(g) ==
  LET lines == LogicalLines(g.rows)
      texts == [i \in DOMAIN lines |-> RowText(lines[i])]
  IN SubSeq(texts, 1, Max({i \in DOMAIN texts : texts[i] # <<>>} \cup {0}))

\* Every wide character has its continuation behind it, and every continuation belongs to one.
Paired(g) ==
  \A r \in DOMAIN g.rows :
    LET cells == g.rows[r].cells IN
      /\ \A c \in DOMAIN cells : CellWidth(cells[c]) = 2 =>
           c < g.width /\ CellWidth(cells[c + 1]) = 0
      /\ \A c \in DOMAIN cells : CellWidth(cells[c]) = 0 =>
           c > 1 /\ CellWidth(cells[c - 1]) = 2
=============================================================================
