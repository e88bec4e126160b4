------------------------ MODULE TerminalScreen_proofs ------------------------
(***************************************************************************)
(* Theorems about the screen, for every size, every text and every number  *)
(* of steps: it keeps its shape, cursor and margins stay on it, what is    *)
(* put aside comes back, scrolling stays between the margins, printing     *)
(* cuts no wide character and neither scroll nor resize loses a character. *)
(*                                                                         *)
(* The invariant is that the terminal is a record of Terminals(w, h) for   *)
(* some size.  Each operator of the model is shown to keep it, from the    *)
(* grid upwards: numbers, cells and rows; the scrolls; a character put;    *)
(* the scrollback; reflow; then the handlers, each either Steady (the size *)
(* and all but grid, cursor and scrollback stay), Guarded (steady, and the *)
(* rows out of the margins stay) or Sound (it keeps the bounds, and the    *)
(* screen put aside); last the actions.  The text comes at the end: what   *)
(* the characters of a line, of lines and of joined rows are, one element  *)
(* at a time; then that pushing, laying, rewrapping and trimming keep      *)
(* them; then that each handler does, while the scrollback has room.       *)
(***************************************************************************)
EXTENDS TerminalScreen, SequenceLemmas

(* The values the fields take.  A cell is a character and its width, or the *)
(* continuation of a wide one.                                              *)
Characters == Narrow \cup Wide \cup {" "}
Cells == (Characters \X {1, 2}) \cup {Continuation}

Line(w) == {s \in Seq(Cells) : Len(s) = w}
Row(w) == [cells : Line(w), wrapped : BOOLEAN]
Rows(w) == Seq(Row(w))
Grids(w, h) == {g \in [width : {w}, height : {h}, rows : Rows(w)] : Len(g.rows) = h}

Cursors == [row : Nat, col : Nat, pending : BOOLEAN]
Scrollbacks == {s \in [cap : Nat, lines : Seq(Seq(Cells))] : Len(s.lines) <= s.cap}
SavedCursors == [cursor : Cursors, origin : BOOLEAN] \cup {None}
MarginPairs == {m \in Nat \X Nat : m[1] <= m[2]} \cup {None}
OnColumns(c, w, h) == w = 0 \/ h = 0 \/ c.col < w

(* What is put aside, and a terminal, of w columns and h rows.              *)
Asides(w, h) ==
  {a \in [grid : Grids(w, h), cursor : Cursors, scrollback : Scrollbacks, saved : SavedCursors,
          region : MarginPairs, origin : BOOLEAN, autoWrap : BOOLEAN] : OnColumns(a.cursor, w, h)}
Fields(w, h) ==
  [grid : Grids(w, h), cursor : Cursors, scrollback : Scrollbacks, saved : SavedCursors,
   region : MarginPairs, origin : BOOLEAN, autoWrap : BOOLEAN,
   tabs : {s \in Seq(BOOLEAN) : Len(s) = w}, last : Narrow \cup Wide \cup {None},
   alternate : Asides(w, h) \cup {None}]
Terminals(w, h) ==
  {t \in Fields(w, h) : /\ OnColumns(t.cursor, w, h)
                        /\ t.alternate # None => t.scrollback.cap = 0}

(* The terminal has some size, and fields of that size.                     *)
ScreenInv == \E w, h \in Nat : term \in Terminals(w, h)
-----------------------------------------------------------------------------
(* Numbers.                                                                 *)

(* What the capped and saturating numbers of the code are bounded by.       *)
LEMMA Bounds ==
  /\ \A n, m \in Int : AtMost(n, m) \in Int /\ AtMost(n, m) <= n /\ AtMost(n, m) <= m
                       /\ AtMost(n, m) \in {n, m}
  /\ \A n, m \in Nat : AtMost(n, m) \in Nat
  /\ \A n, m \in Nat : SaturatingSub(n, m) \in Nat /\ SaturatingSub(n, m) <= n
  /\ \A n \in Nat \ {0} : SaturatingSub(n, 1) = n - 1
  /\ \A n, size \in Nat : /\ Clamp(n, size) \in Nat /\ Clamp(n, size) <= n
                          /\ size > 0 => Clamp(n, size) < size
                          /\ n < size => Clamp(n, size) = n
BY DEF AtMost, SaturatingSub, Clamp

(* A set of numbers up to n has a largest one.                              *)
LEMMA MaxOf ==
  ASSUME NEW n \in Nat, NEW S, S \subseteq 0..n, S # {}
  PROVE  Max(S) \in S /\ \A i \in S : Max(S) >= i
<1> DEFINE HasMax(m) == S \cap 0..m # {} => \E x \in S \cap 0..m : \A y \in S \cap 0..m : x >= y
           I == {m \in Nat : HasMax(m)}
<1>1. 0 \in I OBVIOUS
<1>2. ASSUME NEW m \in 0..(n - 1), HasMax(m) PROVE HasMax(m + 1)
  <2>1. CASE m + 1 \in S BY <2>1
  <2>2. CASE m + 1 \notin S
    <3>1. S \cap 0..(m + 1) = S \cap 0..m BY <2>2
    <3> QED BY <1>2, <3>1
  <2> QED BY <2>1, <2>2
<1>3. 0..n \subseteq I
  <2>1. \A m \in 0..(n - 1) : m \in I => m + 1 \in I BY <1>2
  <2> HIDE DEF I
  <2> QED BY <1>1, <2>1, IntervalInduction
<1>4. S \cap 0..n = S OBVIOUS
<1>5. \E x \in S : \A y \in S : x >= y BY <1>3, <1>4
<1> QED BY <1>5 DEF Max

(* And a smallest one.                                                      *)
LEMMA MinOf ==
  ASSUME NEW n \in Nat, NEW S, S \subseteq 0..n, S # {}
  PROVE  Min(S) \in S /\ \A i \in S : Min(S) <= i
<1> DEFINE T == {n - s : s \in S}
<1>1. T \subseteq 0..n /\ T # {}
  <2>1. PICK s \in S : TRUE OBVIOUS
  <2>2. n - s \in T BY <2>1
  <2>3. \A t \in T : t \in 0..n OBVIOUS
  <2> QED BY <2>2, <2>3
<1> HIDE DEF T
<1>2. Max(T) \in T /\ \A i \in T : Max(T) >= i BY <1>1, MaxOf
<1>3. PICK x \in S : Max(T) = n - x BY <1>2 DEF T
<1>4. ASSUME NEW y \in S PROVE x <= y
  <2>1. n - y \in T BY DEF T
  <2> QED BY <1>2, <1>3, <2>1
<1>5. \E x1 \in S : \A y \in S : x1 =< y BY <1>4
<1> QED BY <1>5 DEF Min

-----------------------------------------------------------------------------
(* Grids.                                                                   *)

(* Blank cells, lines and grids have their types.                           *)
LEMMA BlankTypes ==
  ASSUME NEW n \in Nat, NEW w \in Nat
  PROVE  /\ Blank \in Cells /\ Continuation \in Cells
         /\ Blanks(n) \in Seq(Cells) /\ Len(Blanks(n)) = n
         /\ BlankLine(w) \in Row(w)
         /\ BlankLines(n, w) \in Rows(w) /\ Len(BlankLines(n, w)) = n
         /\ NewGrid(w, n) \in Grids(w, n)
<1>1. Blank \in Cells /\ Continuation \in Cells
  <2>1. " " \in Characters /\ 0 \in 0..2 /\ 1 \in 0..2 BY DEF Characters
  <2> QED BY <2>1 DEF Blank, Continuation, Cells
<1>2. \A k \in Nat : Blanks(k) \in Seq(Cells) /\ Len(Blanks(k)) = k BY <1>1 DEF Blanks
<1>3. BlankLine(w) \in Row(w) BY <1>2 DEF BlankLine, Row, Line
<1>4. BlankLines(n, w) \in Rows(w) /\ Len(BlankLines(n, w)) = n BY <1>3 DEF BlankLines, Rows
<1>5. NewGrid(w, n) \in Grids(w, n) BY <1>4 DEF NewGrid, Grids
<1> QED BY <1>1, <1>2, <1>3, <1>4, <1>5

(* What a grid is made of.                                                  *)
LEMMA GridParts ==
  ASSUME NEW w \in Nat, NEW h \in Nat, NEW g \in Grids(w, h)
  PROVE  /\ g.width = w /\ g.height = h /\ g.rows \in Rows(w) /\ Len(g.rows) = h
         /\ DOMAIN g.rows = 1..h
         /\ \A r \in 1..h : /\ g.rows[r] \in Row(w)
                            /\ g.rows[r].cells \in Line(w) /\ g.rows[r].wrapped \in BOOLEAN
                            /\ g.rows[r].cells \in Seq(Cells) /\ Len(g.rows[r].cells) = w
                            /\ DOMAIN g.rows[r].cells = 1..w
                            /\ \A c \in 1..w : g.rows[r].cells[c] \in Cells
         /\ g = [width |-> w, height |-> h, rows |-> g.rows]
         /\ IsGrid(g)
<1>1. g.width = w /\ g.height = h /\ g.rows \in Rows(w) /\ Len(g.rows) = h
      /\ g = [width |-> w, height |-> h, rows |-> g.rows]
  BY DEF Grids
<1>2. DOMAIN g.rows = 1..h BY <1>1 DEF Rows
<1>3. ASSUME NEW r \in 1..h
      PROVE  /\ g.rows[r] \in Row(w)
             /\ g.rows[r].cells \in Line(w) /\ g.rows[r].wrapped \in BOOLEAN
             /\ g.rows[r].cells \in Seq(Cells) /\ Len(g.rows[r].cells) = w
             /\ DOMAIN g.rows[r].cells = 1..w
             /\ \A c \in 1..w : g.rows[r].cells[c] \in Cells
  <2>1. g.rows[r] \in Row(w) BY <1>1, <1>2, ElementOfSeq DEF Rows
  <2>2. g.rows[r].cells \in Line(w) /\ g.rows[r].wrapped \in BOOLEAN BY <2>1 DEF Row
  <2>3. g.rows[r].cells \in Seq(Cells) /\ Len(g.rows[r].cells) = w BY <2>2 DEF Line
  <2>4. DOMAIN g.rows[r].cells = 1..w BY <2>3, LenProperties
  <2>5. \A c \in 1..w : g.rows[r].cells[c] \in Cells BY <2>3, ElementOfSeq
  <2> QED BY <2>1, <2>2, <2>3, <2>4, <2>5
<1>4. IsGrid(g) BY <1>1, <1>2, <1>3 DEF IsGrid
<1> QED BY <1>1, <1>2, <1>3, <1>4

(* The cells of one row are replaced.                                       *)
LEMMA RowReplaced ==
  ASSUME NEW w \in Nat, NEW h \in Nat, NEW g \in Grids(w, h), NEW row \in 0..(h - 1),
         NEW cells \in Line(w)
  PROVE  LET new == [g EXCEPT !.rows[row + 1].cells = cells]
         IN /\ new \in Grids(w, h)
            /\ new.rows[row + 1].cells = cells
            /\ \A r \in 1..h : r # row + 1 => new.rows[r] = g.rows[r]
<1> DEFINE new == [g EXCEPT !.rows[row + 1].cells = cells]
           line == [g.rows[row + 1] EXCEPT !.cells = cells]
           rows == [g.rows EXCEPT ![row + 1] = line]
<1>1. g = [width |-> w, height |-> h, rows |-> g.rows] BY GridParts
<1>2. new = [width |-> w, height |-> h, rows |-> rows] BY <1>1
<1>3. g.rows \in Seq(Row(w)) /\ Len(g.rows) = h /\ row + 1 \in 1..h /\ g.rows[row + 1] \in Row(w)
  BY GridParts DEF Rows
<1>4. line \in Row(w) /\ line.cells = cells BY <1>3 DEF Row
<1> HIDE DEF line
<1>5. rows \in Seq(Row(w)) /\ Len(rows) = h /\ rows[row + 1] = line
      /\ \A r \in 1..h : r # row + 1 => rows[r] = g.rows[r]
  BY <1>3, <1>4, ExceptSeq
<1> HIDE DEF rows, new
<1>6. new \in Grids(w, h) BY <1>2, <1>5 DEF Grids, Rows
<1> QED BY <1>2, <1>4, <1>5, <1>6 DEF new

(* Erasing in a row keeps the grid's shape, whatever the range.             *)
LEMMA RowEdited ==
  ASSUME NEW w \in Nat, NEW h \in Nat, NEW g \in Grids(w, h), NEW row \in Nat
  PROVE  /\ \A from, to \in Int : ClearRange(g, row, from, to) \in Grids(w, h)
         /\ ClearRow(g, row) \in Grids(w, h)
<1>1. ASSUME NEW a \in Int, NEW b \in Int PROVE ClearRange(g, row, a, b) \in Grids(w, h)
  <2> DEFINE cells == [i \in 1..g.width |-> IF a < i /\ i <= b THEN Blank ELSE g.rows[row + 1].cells[i]]
  <2>1. CASE row < h
    <3>1. row \in 0..(h - 1) /\ row + 1 \in 1..h /\ row < g.height /\ g.width = w BY <2>1, GridParts
    <3>2. cells \in Line(w)
      <4>1. \A i \in 1..w : g.rows[row + 1].cells[i] \in Cells BY <3>1, GridParts
      <4> QED BY <3>1, <4>1, BlankTypes DEF Line
    <3>3. ClearRange(g, row, a, b) = [g EXCEPT !.rows[row + 1].cells = cells]
      BY <3>1 DEF ClearRange, EditRow
    <3> HIDE DEF cells
    <3> QED BY <3>1, <3>2, <3>3, RowReplaced
  <2>2. CASE ~(row < h)
    <3>1. g.height = h BY GridParts
    <3> QED BY <2>2, <3>1 DEF ClearRange, EditRow
  <2> QED BY <2>1, <2>2
<1>2. g.width = w BY GridParts
<1> QED BY <1>1, <1>2 DEF ClearRow

(* So do the three character edits of one row, whatever the count.          *)
LEMMA CharsErased ==
  ASSUME NEW w \in Nat, NEW h \in Nat, NEW g \in Grids(w, h), NEW row \in Nat,
         NEW col \in Nat, NEW n \in Nat
  PROVE  EraseChars(g, row, col, n) \in Grids(w, h)
<1>1. g.width = w /\ col + n \in Int /\ AtMost(col + n, w) \in Int
  BY GridParts DEF AtMost
<1> QED BY <1>1, RowEdited DEF EraseChars

LEMMA CharsInserted ==
  ASSUME NEW w \in Nat, NEW h \in Nat, NEW g \in Grids(w, h), NEW row \in Nat,
         NEW col \in Nat, NEW n \in Nat
  PROVE  InsertChars(g, row, col, n) \in Grids(w, h)
<1>1. g.width = w /\ g.height = h BY GridParts
<1>2. CASE col >= w \/ row >= h BY <1>1, <1>2 DEF InsertChars, EditRow
<1>3. CASE col < w /\ row < h
  <2> DEFINE count == AtMost(n, g.width - col)
             old == g.rows[row + 1].cells
             left == SubSeq(old, 1, col)
             right == SubSeq(old, col + 1, g.width - count)
             cells == left \o Blanks(count) \o right
  <2>1. count \in Nat /\ count <= w - col BY <1>1, <1>3 DEF AtMost
  <2>2. old \in Seq(Cells) /\ Len(old) = w /\ \A i \in 1..w : old[i] \in Cells
    <3>1. row + 1 \in 1..h BY <1>3
    <3> QED BY <3>1, GridParts
  <2>3. Blanks(count) \in Seq(Cells) /\ Len(Blanks(count)) = count BY <2>1, BlankTypes
  <2> HIDE DEF count, old
  <2>4. left \in Seq(Cells) /\ Len(left) = col
    BY <1>3, <2>2, SubSeqProperties
  <2>5. right \in Seq(Cells) /\ Len(right) = w - count - col
    <3>1. \A i \in (col + 1)..(w - count) : old[i] \in Cells BY <1>3, <2>1, <2>2
    <3>2. w - count \in Int /\ col + 1 \in Int BY <2>1
    <3> QED BY <1>1, <2>1, <3>1, <3>2, SubSeqProperties
  <2> HIDE DEF left, right
  <2>6. cells \in Line(w)
    BY <1>3, <2>1, <2>3, <2>4, <2>5 DEF Line
  <2> HIDE DEF cells
  <2>7. InsertChars(g, row, col, n) = [g EXCEPT !.rows[row + 1].cells = cells]
    BY <1>1, <1>3 DEF InsertChars, EditRow, cells, left, right, old, count
  <2> QED BY <1>3, <2>6, <2>7, RowReplaced
<1> QED BY <1>2, <1>3

LEMMA CharsDeleted ==
  ASSUME NEW w \in Nat, NEW h \in Nat, NEW g \in Grids(w, h), NEW row \in Nat,
         NEW col \in Nat, NEW n \in Nat
  PROVE  DeleteChars(g, row, col, n) \in Grids(w, h)
<1>1. g.width = w /\ g.height = h BY GridParts
<1>2. CASE col >= w \/ row >= h BY <1>1, <1>2 DEF DeleteChars, EditRow
<1>3. CASE col < w /\ row < h
  <2> DEFINE count == AtMost(n, g.width - col)
             old == g.rows[row + 1].cells
             left == SubSeq(old, 1, col)
             right == SubSeq(old, col + count + 1, g.width)
             cells == left \o right \o Blanks(count)
  <2>1. count \in Nat /\ count <= w - col BY <1>1, <1>3 DEF AtMost
  <2>2. old \in Seq(Cells) /\ Len(old) = w /\ \A i \in 1..w : old[i] \in Cells
    <3>1. row + 1 \in 1..h BY <1>3
    <3> QED BY <3>1, GridParts
  <2>3. Blanks(count) \in Seq(Cells) /\ Len(Blanks(count)) = count BY <2>1, BlankTypes
  <2> HIDE DEF count, old
  <2>4. left \in Seq(Cells) /\ Len(left) = col
    BY <1>3, <2>2, SubSeqProperties
  <2>5. right \in Seq(Cells) /\ Len(right) = w - count - col
    <3>1. \A i \in (col + count + 1)..w : old[i] \in Cells BY <1>3, <2>1, <2>2
    <3>2. w \in Int /\ col + count + 1 \in Int BY <2>1
    <3> QED BY <1>1, <2>1, <3>1, <3>2, SubSeqProperties
  <2> HIDE DEF left, right
  <2>6. cells \in Line(w)
    BY <1>3, <2>1, <2>3, <2>4, <2>5 DEF Line
  <2> HIDE DEF cells
  <2>7. DeleteChars(g, row, col, n) = [g EXCEPT !.rows[row + 1].cells = cells]
    BY <1>1, <1>3 DEF DeleteChars, EditRow, cells, left, right, old, count
  <2> QED BY <1>3, <2>6, <2>7, RowReplaced
<1> QED BY <1>2, <1>3

(* The elements of a sequence of four parts.                                *)
Joined(S, x, a, b, c, d) ==
  /\ x \in Seq(S) /\ Len(x) = Len(a) + Len(b) + Len(c) + Len(d)
  /\ \A i \in 1..Len(a) : x[i] = a[i]
  /\ \A i \in 1..Len(b) : x[Len(a) + i] = b[i]
  /\ \A i \in 1..Len(c) : x[Len(a) + Len(b) + i] = c[i]
  /\ \A i \in 1..Len(d) : x[Len(a) + Len(b) + Len(c) + i] = d[i]

LEMMA FourParts ==
  ASSUME NEW S, NEW a \in Seq(S), NEW b \in Seq(S), NEW c \in Seq(S), NEW d \in Seq(S)
  PROVE  Joined(S, a \o b \o c \o d, a, b, c, d)
<1> DEFINE x == a \o b \o c \o d
           ab == a \o b
           abc == ab \o c
           A == Len(a)  B == Len(b)  C == Len(c)  D == Len(d)
<1>1. A \in Nat /\ B \in Nat /\ C \in Nat /\ D \in Nat
      /\ Len(a) = A /\ Len(b) = B /\ Len(c) = C /\ Len(d) = D
  BY LenProperties
<1> HIDE DEF A, B, C, D
<1>2. ab \in Seq(S) /\ Len(ab) = A + B
      /\ \A i \in 1..A + B : ab[i] = IF i <= A THEN a[i] ELSE b[i - A]
  <2>1. ab \in Seq(S) /\ Len(ab) = Len(a) + Len(b)
        /\ \A i \in 1..Len(a) + Len(b) : ab[i] = IF i <= Len(a) THEN a[i] ELSE b[i - Len(a)]
    BY ConcatProperties
  <2> HIDE DEF ab
  <2> QED BY <1>1, <2>1
<1> HIDE DEF ab
<1>3. abc \in Seq(S) /\ Len(abc) = A + B + C
      /\ \A i \in 1..A + B + C : abc[i] = IF i <= A + B THEN ab[i] ELSE c[i - (A + B)]
  <2>1. abc \in Seq(S) /\ Len(abc) = Len(ab) + Len(c)
        /\ \A i \in 1..Len(ab) + Len(c) : abc[i] = IF i <= Len(ab) THEN ab[i] ELSE c[i - Len(ab)]
    BY <1>2, ConcatProperties
  <2> HIDE DEF abc
  <2> QED BY <1>1, <1>2, <2>1
<1> HIDE DEF abc
<1>4. x = abc \o d BY DEF abc, ab
<1> HIDE DEF x
<1>5. x \in Seq(S) /\ Len(x) = A + B + C + D
      /\ \A i \in 1..A + B + C + D : x[i] = IF i <= A + B + C THEN abc[i] ELSE d[i - (A + B + C)]
  <2>1. x \in Seq(S) /\ Len(x) = Len(abc) + Len(d)
        /\ \A i \in 1..Len(abc) + Len(d) : x[i] = IF i <= Len(abc) THEN abc[i] ELSE d[i - Len(abc)]
    <3> DEFINE y == abc \o d
    <3>1. y \in Seq(S) /\ Len(y) = Len(abc) + Len(d)
          /\ \A i \in 1..Len(abc) + Len(d) : y[i] = IF i <= Len(abc) THEN abc[i] ELSE d[i - Len(abc)]
      BY <1>3, ConcatProperties
    <3>2. x = y BY <1>4
    <3> HIDE DEF y
    <3> QED BY <3>1, <3>2, Zenon
  <2> QED BY <1>1, <1>3, <2>1
<1>6. \A i \in 1..A : x[i] = a[i]
  <2> SUFFICES ASSUME NEW i \in 1..A PROVE x[i] = a[i] OBVIOUS
  <2>1. i \in 1..A + B /\ i \in 1..A + B + C /\ i \in 1..A + B + C + D
        /\ i <= A /\ i <= A + B /\ i <= A + B + C
    BY <1>1
  <2> QED BY <1>2, <1>3, <1>5, <2>1
<1>7. \A i \in 1..B : x[A + i] = b[i]
  <2> SUFFICES ASSUME NEW i \in 1..B PROVE x[A + i] = b[i] OBVIOUS
  <2>1. A + i \in 1..A + B /\ A + i \in 1..A + B + C /\ A + i \in 1..A + B + C + D
        /\ ~(A + i <= A) /\ (A + i) - A = i /\ A + i <= A + B /\ A + i <= A + B + C
    BY <1>1
  <2> QED BY <1>2, <1>3, <1>5, <2>1
<1>8. \A i \in 1..C : x[A + B + i] = c[i]
  <2> SUFFICES ASSUME NEW i \in 1..C PROVE x[A + B + i] = c[i] OBVIOUS
  <2>1. A + B + i \in 1..A + B + C /\ A + B + i \in 1..A + B + C + D
        /\ ~(A + B + i <= A + B) /\ (A + B + i) - (A + B) = i /\ A + B + i <= A + B + C
    BY <1>1
  <2> QED BY <1>3, <1>5, <2>1
<1>9. \A i \in 1..D : x[A + B + C + i] = d[i]
  <2> SUFFICES ASSUME NEW i \in 1..D PROVE x[A + B + C + i] = d[i] OBVIOUS
  <2>1. A + B + C + i \in 1..A + B + C + D
        /\ ~(A + B + C + i <= A + B + C) /\ (A + B + C + i) - (A + B + C) = i
    BY <1>1
  <2> QED BY <1>5, <2>1
<1>10. Joined(S, x, a, b, c, d) BY <1>5, <1>6, <1>7, <1>8, <1>9 DEF A, B, C, D, Joined
<1> QED BY <1>10 DEF x

(* A scroll of the rows first..last: the rows before and behind stay, and   *)
(* each of the others is a row there was, or blank.                         *)
Scrolled(old, new, first, last, w) ==
  /\ new \in Rows(w) /\ Len(new) = Len(old)
  /\ \A r \in 1..Len(old) : r <= first \/ r > last + 1 => new[r] = old[r]
  /\ \A r \in 1..Len(old) : new[r] = BlankLine(w) \/ \E q \in 1..Len(old) : new[r] = old[q]

(* The two cut-and-paste forms of a scroll move rows between first and last *)
(* only, and put blank ones in.                                             *)
LEMMA ScrollMoves ==
  ASSUME NEW w \in Nat, NEW old \in Rows(w), NEW first \in Nat, NEW last \in Nat, NEW lines \in Nat,
         first <= last, last < Len(old), lines <= last - first + 1
  PROVE  /\ Scrolled(old, SubSeq(old, 1, first) \o SubSeq(old, first + lines + 1, last + 1)
                            \o BlankLines(lines, w) \o SubSeq(old, last + 2, Len(old)), first, last, w)
         /\ Scrolled(old, SubSeq(old, 1, first) \o BlankLines(lines, w)
                            \o SubSeq(old, first + 1, last + 1 - lines)
                            \o SubSeq(old, last + 2, Len(old)), first, last, w)
<1> DEFINE h == Len(old)
           head == SubSeq(old, 1, first)
           rest == SubSeq(old, last + 2, h)
           up == SubSeq(old, first + lines + 1, last + 1)
           down == SubSeq(old, first + 1, last + 1 - lines)
           blank == BlankLines(lines, w)
<1>1. old \in Seq(Row(w)) /\ h \in Nat /\ \A r \in 1..h : old[r] \in Row(w)
  BY ElementOfSeq, LenProperties DEF Rows
<1>2. head \in Seq(Row(w)) /\ Len(head) = first /\ \A i \in 1..first : head[i] = old[i]
  <2>1. \A i \in 1..first : old[i] \in Row(w) BY <1>1
  <2> QED BY <2>1, SubSeqProperties
<1>3. rest \in Seq(Row(w)) /\ Len(rest) = h - (last + 1)
      /\ \A i \in 1..(h - (last + 1)) : rest[i] = old[last + 1 + i]
  <2>1. \A i \in (last + 2)..h : old[i] \in Row(w) BY <1>1
  <2>2. last + 2 \in Int /\ h \in Int BY <1>1
  <2>3. last + 1 < h \/ last + 1 = h BY <1>1
  <2> HIDE DEF h
  <2>4. /\ rest \in Seq(Row(w)) /\ Len(rest) = IF last + 2 <= h THEN h - (last + 2) + 1 ELSE 0
        /\ \A i \in 1..(h - (last + 2) + 1) : rest[i] = old[(last + 2) + i - 1]
    BY <2>1, <2>2, SubSeqProperties
  <2> HIDE DEF rest
  <2>5. ASSUME NEW i \in 1..(h - (last + 1)) PROVE rest[i] = old[last + 1 + i]
    <3>1. i \in 1..(h - (last + 2) + 1) /\ (last + 2) + i - 1 = last + 1 + i BY <1>1
    <3> QED BY <2>4, <3>1
  <2>6. Len(rest) = h - (last + 1) BY <1>1, <2>3, <2>4
  <2> QED BY <2>4, <2>5, <2>6
<1>4. up \in Seq(Row(w)) /\ Len(up) = last - first + 1 - lines
      /\ \A i \in 1..(last - first + 1 - lines) : up[i] = old[first + lines + i]
  <2>1. \A i \in (first + lines + 1)..(last + 1) : old[i] \in Row(w) BY <1>1
  <2> QED BY <2>1, SubSeqProperties
<1>5. down \in Seq(Row(w)) /\ Len(down) = last - first + 1 - lines
      /\ \A i \in 1..(last - first + 1 - lines) : down[i] = old[first + i]
  <2>1. \A i \in (first + 1)..(last + 1 - lines) : old[i] \in Row(w) BY <1>1
  <2> QED BY <2>1, SubSeqProperties
<1>6. blank \in Seq(Row(w)) /\ Len(blank) = lines /\ \A i \in 1..lines : blank[i] = BlankLine(w)
  BY BlankTypes DEF Rows, BlankLines
<1> HIDE DEF h, head, rest, up, down, blank
<1>7. Scrolled(old, head \o up \o blank \o rest, first, last, w)
  <2> DEFINE new == head \o up \o blank \o rest
  <2>1. /\ new \in Seq(Row(w)) /\ Len(new) = h
        /\ \A i \in 1..first : new[i] = head[i]
        /\ \A i \in 1..(last - first + 1 - lines) : new[first + i] = up[i]
        /\ \A i \in 1..lines : new[first + (last - first + 1 - lines) + i] = blank[i]
        /\ \A i \in 1..(h - (last + 1)) : new[first + (last - first + 1 - lines) + lines + i] = rest[i]
    <3>1. first + (last - first + 1 - lines) + lines + (h - (last + 1)) = h BY <1>1
    <3>2. /\ new \in Seq(Row(w)) /\ Len(new) = Len(head) + Len(up) + Len(blank) + Len(rest)
          /\ \A i \in 1..Len(head) : new[i] = head[i]
          /\ \A i \in 1..Len(up) : new[Len(head) + i] = up[i]
          /\ \A i \in 1..Len(blank) : new[Len(head) + Len(up) + i] = blank[i]
          /\ \A i \in 1..Len(rest) : new[Len(head) + Len(up) + Len(blank) + i] = rest[i]
      <4>1. new = head \o up \o blank \o rest OBVIOUS
      <4>2. head \in Seq(Row(w)) /\ up \in Seq(Row(w)) /\ blank \in Seq(Row(w)) /\ rest \in Seq(Row(w))
        BY <1>2, <1>3, <1>4, <1>6
      <4>3. Joined(Row(w), head \o up \o blank \o rest, head, up, blank, rest) BY <4>2, FourParts
      <4> HIDE DEF new
      <4>4. Joined(Row(w), new, head, up, blank, rest) BY <4>1, <4>3
      <4> QED BY <4>4 DEF Joined
    <3> HIDE DEF new
    <3> QED BY <3>1, <3>2, <1>2, <1>3, <1>4, <1>6
  <2> HIDE DEF new
  <2>2. ASSUME NEW r \in 1..h, r <= first PROVE new[r] = old[r]
    BY <1>2, <2>1, <2>2
  <2>3. ASSUME NEW r \in 1..h, r > last + 1 PROVE new[r] = old[r]
    <3> DEFINE i == r - (last + 1)
    <3>1. /\ i \in 1..(h - (last + 1))
          /\ first + (last - first + 1 - lines) + lines + i = r
          /\ last + 1 + i = r
      BY <1>1, <2>3
    <3> HIDE DEF i
    <3>2. new[first + (last - first + 1 - lines) + lines + i] = rest[i] BY <2>1, <3>1
    <3> QED BY <1>3, <3>1, <3>2
  <2>4. ASSUME NEW r \in 1..h, first < r, r <= last + 1 - lines PROVE \E q \in 1..h : new[r] = old[q]
    <3> DEFINE i == r - first
    <3>1. i \in 1..(last - first + 1 - lines) /\ first + i = r /\ first + lines + i \in 1..h
      BY <1>1, <2>4 DEF h
    <3> HIDE DEF i
    <3>2. new[first + i] = up[i] BY <2>1, <3>1
    <3> QED BY <1>4, <3>1, <3>2
  <2>5. ASSUME NEW r \in 1..h, last + 1 - lines < r, r <= last + 1 PROVE new[r] = BlankLine(w)
    <3>1. r - (last + 1 - lines) \in 1..lines
          /\ first + (last - first + 1 - lines) + (r - (last + 1 - lines)) = r
      BY <1>1, <2>5
    <3> QED BY <1>6, <2>1, <3>1
  <2>6. \A r \in 1..h : r <= first \/ (first < r /\ r <= last + 1 - lines)
                         \/ (last + 1 - lines < r /\ r <= last + 1) \/ r > last + 1
    BY <1>1
  <2>7. \A r \in 1..h : r <= first \/ r > last + 1 => new[r] = old[r] BY <2>2, <2>3
  <2>8. \A r \in 1..h : new[r] = BlankLine(w) \/ \E q \in 1..h : new[r] = old[q]
    BY <2>2, <2>3, <2>4, <2>5, <2>6
  <2> QED BY <2>1, <2>7, <2>8 DEF Scrolled, Rows, h, new
<1>8. Scrolled(old, head \o blank \o down \o rest, first, last, w)
  <2> DEFINE new == head \o blank \o down \o rest
  <2>1. /\ new \in Seq(Row(w)) /\ Len(new) = h
        /\ \A i \in 1..first : new[i] = head[i]
        /\ \A i \in 1..lines : new[first + i] = blank[i]
        /\ \A i \in 1..(last - first + 1 - lines) : new[first + lines + i] = down[i]
        /\ \A i \in 1..(h - (last + 1)) : new[first + lines + (last - first + 1 - lines) + i] = rest[i]
    <3>1. first + lines + (last - first + 1 - lines) + (h - (last + 1)) = h BY <1>1
    <3>2. /\ new \in Seq(Row(w)) /\ Len(new) = Len(head) + Len(blank) + Len(down) + Len(rest)
          /\ \A i \in 1..Len(head) : new[i] = head[i]
          /\ \A i \in 1..Len(blank) : new[Len(head) + i] = blank[i]
          /\ \A i \in 1..Len(down) : new[Len(head) + Len(blank) + i] = down[i]
          /\ \A i \in 1..Len(rest) : new[Len(head) + Len(blank) + Len(down) + i] = rest[i]
      <4>1. new = head \o blank \o down \o rest OBVIOUS
      <4>2. head \in Seq(Row(w)) /\ blank \in Seq(Row(w)) /\ down \in Seq(Row(w)) /\ rest \in Seq(Row(w))
        BY <1>2, <1>3, <1>5, <1>6
      <4>3. Joined(Row(w), head \o blank \o down \o rest, head, blank, down, rest) BY <4>2, FourParts
      <4> HIDE DEF new
      <4>4. Joined(Row(w), new, head, blank, down, rest) BY <4>1, <4>3
      <4> QED BY <4>4 DEF Joined
    <3> HIDE DEF new
    <3> QED BY <3>1, <3>2, <1>2, <1>3, <1>5, <1>6
  <2> HIDE DEF new
  <2>2. ASSUME NEW r \in 1..h, r <= first PROVE new[r] = old[r]
    BY <1>2, <2>1, <2>2
  <2>3. ASSUME NEW r \in 1..h, r > last + 1 PROVE new[r] = old[r]
    <3> DEFINE i == r - (last + 1)
    <3>1. /\ i \in 1..(h - (last + 1))
          /\ first + lines + (last - first + 1 - lines) + i = r
          /\ last + 1 + i = r
      BY <1>1, <2>3
    <3> HIDE DEF i
    <3>2. new[first + lines + (last - first + 1 - lines) + i] = rest[i] BY <2>1, <3>1
    <3> QED BY <1>3, <3>1, <3>2
  <2>4. ASSUME NEW r \in 1..h, first + lines < r, r <= last + 1 PROVE \E q \in 1..h : new[r] = old[q]
    <3> DEFINE i == r - first - lines
    <3>1. i \in 1..(last - first + 1 - lines) /\ first + lines + i = r /\ first + i \in 1..h
      BY <1>1, <2>4 DEF h
    <3> HIDE DEF i
    <3>2. new[first + lines + i] = down[i] BY <2>1, <3>1
    <3> QED BY <1>5, <3>1, <3>2
  <2>5. ASSUME NEW r \in 1..h, first < r, r <= first + lines PROVE new[r] = BlankLine(w)
    <3>1. r - first \in 1..lines /\ first + (r - first) = r BY <1>1, <2>5
    <3> QED BY <1>6, <2>1, <3>1
  <2>6. \A r \in 1..h : r <= first \/ (first + lines < r /\ r <= last + 1)
                         \/ (first < r /\ r <= first + lines) \/ r > last + 1
    BY <1>1
  <2>7. \A r \in 1..h : r <= first \/ r > last + 1 => new[r] = old[r] BY <2>2, <2>3
  <2>8. \A r \in 1..h : new[r] = BlankLine(w) \/ \E q \in 1..h : new[r] = old[q]
    BY <2>2, <2>3, <2>4, <2>5, <2>6
  <2> QED BY <2>1, <2>7, <2>8 DEF Scrolled, Rows, h, new
<1> QED BY <1>7, <1>8 DEF head, up, blank, rest, down, h

(* No half of a wide character in a line of w cells.                        *)
PairedLine(cells, w) ==
  /\ \A c \in 1..w : CellWidth(cells[c]) = 2 => c < w /\ CellWidth(cells[c + 1]) = 0
  /\ \A c \in 1..w : CellWidth(cells[c]) = 0 => c > 1 /\ CellWidth(cells[c - 1]) = 2

(* A grid has no half of a wide character when none of its lines has.       *)
LEMMA PairedLines ==
  ASSUME NEW w \in Nat, NEW h \in Nat, NEW g \in Grids(w, h)
  PROVE  Paired(g) <=> \A r \in 1..h : PairedLine(g.rows[r].cells, w)
<1>1. g.width = w /\ DOMAIN g.rows = 1..h /\ \A r \in 1..h : DOMAIN g.rows[r].cells = 1..w
  BY GridParts
<1> QED BY <1>1 DEF Paired, PairedLine

(* A blank line has none.                                                   *)
LEMMA BlankIsPaired == \A w \in Nat : PairedLine(BlankLine(w).cells, w)
<1> SUFFICES ASSUME NEW w \in Nat PROVE PairedLine(BlankLine(w).cells, w) OBVIOUS
<1>1. BlankLine(w).cells = [i \in 1..w |-> Blank] BY DEF BlankLine, Blanks
<1>2. \A c \in 1..w : CellWidth(BlankLine(w).cells[c]) = 1
  <2>1. \A c \in 1..w : BlankLine(w).cells[c] = Blank BY <1>1
  <2>2. CellWidth(Blank) = 1 BY DEF Blank, CellWidth
  <2> QED BY <2>1, <2>2
<1> QED BY <1>2 DEF PairedLine

(* What a scroll of the rows first..last makes of a grid.                   *)
ScrolledGrid(old, new, first, last, w, h) ==
  /\ new \in Grids(w, h)
  /\ \A r \in 1..h : r <= first \/ r > last + 1 => new.rows[r] = old.rows[r]
  /\ Paired(old) => Paired(new)

(* A scroll of the rows is a scroll of the grid: the shape and the rows out *)
(* of the margins stay, and no wide character is cut.                       *)
LEMMA GridScrolled ==
  ASSUME NEW w \in Nat, NEW h \in Nat, NEW g \in Grids(w, h), NEW rows, NEW first, NEW last,
         Scrolled(g.rows, rows, first, last, w)
  PROVE  ScrolledGrid(g, [g EXCEPT !.rows = rows], first, last, w, h)
<1> DEFINE new == [g EXCEPT !.rows = rows]
<1>1. Len(g.rows) = h /\ g.width = w /\ g.height = h /\ g = [width |-> w, height |-> h, rows |-> g.rows]
  BY GridParts
<1>2. /\ rows \in Rows(w) /\ Len(rows) = h
      /\ \A r \in 1..h : r <= first \/ r > last + 1 => rows[r] = g.rows[r]
      /\ \A r \in 1..h : rows[r] = BlankLine(w) \/ \E q \in 1..h : rows[r] = g.rows[q]
  BY <1>1 DEF Scrolled
<1>3. new = [width |-> w, height |-> h, rows |-> rows] BY <1>1
<1> HIDE DEF new
<1>4. new \in Grids(w, h) /\ new.rows = rows BY <1>2, <1>3 DEF Grids
<1>5. ASSUME Paired(g) PROVE Paired(new)
  <2>1. \A r \in 1..h : PairedLine(g.rows[r].cells, w) BY <1>5, PairedLines
  <2>2. ASSUME NEW r \in 1..h PROVE PairedLine(rows[r].cells, w)
    BY <1>2, <2>1, BlankIsPaired
  <2> QED BY <1>4, <2>2, PairedLines
<1> QED BY <1>2, <1>4, <1>5 DEF ScrolledGrid, new

(* Scrolling a region up or down is one, for any margins and count.         *)
LEMMA RegionScrolled ==
  ASSUME NEW w \in Nat, NEW h \in Nat, NEW g \in Grids(w, h), NEW n \in Nat,
         NEW top \in Nat, NEW bottom \in Nat
  PROVE  /\ ScrolledGrid(g, ScrollUpRegion(g, n, top, bottom), Clamp(top, h), Clamp(bottom, h), w, h)
         /\ ScrolledGrid(g, ScrollDownRegion(g, n, top, bottom), Clamp(top, h), Clamp(bottom, h), w, h)
<1>1. g.width = w /\ g.height = h /\ Len(g.rows) = h /\ g.rows \in Rows(w) BY GridParts
<1>2. CASE w = 0 \/ h = 0 \/ top > bottom
  BY <1>1, <1>2 DEF ScrolledGrid, ScrollUpRegion, ScrollDownRegion, IsEmpty
<1>3. CASE w # 0 /\ h # 0 /\ top <= bottom
  <2> DEFINE first == Clamp(top, h)
             last == Clamp(bottom, h)
             lines == AtMost(n, last - first + 1)
             up == SubSeq(g.rows, 1, first) \o SubSeq(g.rows, first + lines + 1, last + 1)
                     \o BlankLines(lines, w) \o SubSeq(g.rows, last + 2, h)
             down == SubSeq(g.rows, 1, first) \o BlankLines(lines, w)
                       \o SubSeq(g.rows, first + 1, last + 1 - lines) \o SubSeq(g.rows, last + 2, h)
  <2>1. first \in Nat /\ last \in Nat /\ first <= last /\ last < h
    BY <1>3 DEF Clamp, AtMost, SaturatingSub
  <2>2. lines \in Nat /\ lines <= last - first + 1
    <3> HIDE DEF first, last
    <3> QED BY <2>1 DEF AtMost
  <2>3. /\ ScrollUpRegion(g, n, top, bottom) = [g EXCEPT !.rows = up]
        /\ ScrollDownRegion(g, n, top, bottom) = [g EXCEPT !.rows = down]
    <3>1. ~IsEmpty(g) /\ ~(top > bottom) BY <1>1, <1>3 DEF IsEmpty
    <3> QED BY <1>1, <3>1 DEF ScrollUpRegion, ScrollDownRegion
  <2> HIDE DEF first, last, lines
  <2>4. Scrolled(g.rows, up, first, last, w) /\ Scrolled(g.rows, down, first, last, w)
    BY <1>1, <2>1, <2>2, ScrollMoves
  <2> HIDE DEF up, down
  <2>5. /\ ScrolledGrid(g, [g EXCEPT !.rows = up], first, last, w, h)
        /\ ScrolledGrid(g, [g EXCEPT !.rows = down], first, last, w, h)
    BY <2>4, GridScrolled
  <2> QED BY <2>3, <2>5 DEF first, last
<1> QED BY <1>2, <1>3

(* So is inserting and deleting lines at the cursor's row.                  *)
LEMMA LinesScrolled ==
  ASSUME NEW w \in Nat, NEW h \in Nat, NEW g \in Grids(w, h), NEW n \in Nat,
         NEW row \in Nat, NEW bottom \in Nat
  PROVE  LET first == AtMost(row, Clamp(bottom, h))
         IN /\ ScrolledGrid(g, InsertLines(g, row, n, bottom), first, Clamp(bottom, h), w, h)
            /\ ScrolledGrid(g, DeleteLines(g, row, n, bottom), first, Clamp(bottom, h), w, h)
<1> DEFINE last == Clamp(bottom, h)  first == AtMost(row, last)
<1>1. g.width = w /\ g.height = h BY GridParts
<1>2. last \in Nat /\ first \in Nat /\ first <= last /\ (h > 0 => last < h)
  BY DEF Clamp, AtMost, SaturatingSub
<1>3. Clamp(first, h) = first /\ Clamp(last, h) = last
  <2>1. h = 0 => last = 0 BY DEF Clamp, AtMost, SaturatingSub
  <2> HIDE DEF first, last
  <2> QED BY <1>2, <2>1 DEF Clamp, AtMost, SaturatingSub
<1>4. /\ InsertLines(g, row, n, bottom) \in {g, ScrollDownRegion(g, n, first, last)}
      /\ DeleteLines(g, row, n, bottom) \in {g, ScrollUpRegion(g, n, first, last)}
  BY <1>1 DEF InsertLines, DeleteLines
<1> HIDE DEF first, last
<1>5. /\ ScrolledGrid(g, ScrollUpRegion(g, n, first, last), first, last, w, h)
      /\ ScrolledGrid(g, ScrollDownRegion(g, n, first, last), first, last, w, h)
  BY <1>2, <1>3, RegionScrolled
<1>6. ScrolledGrid(g, g, first, last, w, h) BY DEF ScrolledGrid
<1>7. /\ ScrolledGrid(g, InsertLines(g, row, n, bottom), first, last, w, h)
      /\ ScrolledGrid(g, DeleteLines(g, row, n, bottom), first, last, w, h)
  BY <1>4, <1>5, <1>6
<1> QED BY <1>7 DEF first, last

(* One character is written: the other rows stay, and no half of a wide     *)
(* character is left, unless one is written into the last column.           *)
OtherRowsStay(old, new, row, h) == \A r \in 1..h : r # row + 1 => new.rows[r] = old.rows[r]

(* Of the cells of its row the others stay, or lose their character.        *)
PutInto(old, new, col, ch, cw, w) ==
  /\ new[col + 1] = <<ch, cw>>
  /\ \A i \in 1..w : i = col + 1 \/ new[i] = Blank \/ new[i] = Continuation \/ new[i] = old[i]

(* A character put into a cell leaves the other rows alone, and on its own  *)
(* row takes the halves it cuts with it.                                    *)
LEMMA CharPut ==
  ASSUME NEW w \in Nat, NEW h \in Nat, NEW g \in Grids(w, h), NEW row \in Nat, NEW col \in Nat,
         NEW ch \in Narrow \cup Wide, NEW cw \in {1, 2}
  PROVE  /\ PutChar(g, row, col, ch, cw) \in Grids(w, h)
         /\ OtherRowsStay(g, PutChar(g, row, col, ch, cw), row, h)
         /\ Paired(g) /\ (cw = 2 => col + 1 < w) => Paired(PutChar(g, row, col, ch, cw))
         /\ row < h /\ col < w =>
              PutInto(g.rows[row + 1].cells, PutChar(g, row, col, ch, cw).rows[row + 1].cells,
                      col, ch, cw, w)
<1>1. g.width = w /\ g.height = h BY GridParts
<1>2. CASE ~(row < h /\ col < w)
  <2>1. PutChar(g, row, col, ch, cw) = g BY <1>1, <1>2 DEF PutChar
  <2>2. OtherRowsStay(g, g, row, h) BY Zenon DEF OtherRowsStay
  <2> QED BY <1>2, <2>1, <2>2
<1>3. CASE row < h /\ col < w
  <2> DEFINE old == g.rows[row + 1].cells
             IsWide(c) == c \in 0..(w - 1) /\ CellWidth(old[c + 1]) = 2
             IsTail(c) == c \in 0..(w - 1) /\ CellWidth(old[c + 1]) = 0
             orphans == {c \in {col - 1} : IsWide(c) /\ IsTail(col)}
                          \cup {c \in {col + 1} : IsTail(c) /\ IsWide(col)}
                          \cup {c \in {col + 2} : cw = 2 /\ IsTail(c) /\ IsWide(col + 1)}
             cells == [i \in 1..w |->
                         CASE i = col + 1 -> <<ch, cw>>
                           [] i = col + 2 /\ cw = 2 -> Continuation
                           [] i - 1 \in orphans /\ ~(i = col + 2 /\ cw = 2) -> Blank
                           [] OTHER -> old[i]]
             new == PutChar(g, row, col, ch, cw)
  <2>1. new = [g EXCEPT !.rows[row + 1].cells = cells]
    BY <1>1, <1>3 DEF PutChar
  <2>2. row + 1 \in 1..h /\ row \in 0..(h - 1) BY <1>3
  <2>3. \A i \in 1..w : old[i] \in Cells BY <2>2, GridParts
  <2>4. <<ch, cw>> \in Cells /\ Blank \in Cells /\ Continuation \in Cells
    <3>1. ch \in Characters BY DEF Characters
    <3>2. cw \in 0..2 OBVIOUS
    <3>3. Blank \in Cells /\ Continuation \in Cells BY BlankTypes
    <3> QED BY <3>1, <3>2, <3>3 DEF Cells
  <2> DEFINE put == <<ch, cw>>
             Orphan(i) == i - 1 \in orphans
  <2>5. ASSUME NEW i \in 1..w
        PROVE  /\ i = col + 1 => cells[i] = put
               /\ i = col + 2 /\ cw = 2 => cells[i] = Continuation
               /\ i # col + 1 /\ ~(i = col + 2 /\ cw = 2) /\ Orphan(i) => cells[i] = Blank
               /\ i # col + 1 /\ ~(i = col + 2 /\ cw = 2) /\ ~Orphan(i) => cells[i] = old[i]
    <3> HIDE DEF orphans, put, old
    <3>1. cells[i] = CASE i = col + 1 -> put
                       [] i = col + 2 /\ cw = 2 -> Continuation
                       [] i - 1 \in orphans /\ ~(i = col + 2 /\ cw = 2) -> Blank
                       [] OTHER -> old[i]
      BY DEF put
    <3> HIDE DEF cells
    <3>2. i = col + 1 => ~(i = col + 2 /\ cw = 2) OBVIOUS
    <3>3. CASE i = col + 1 /\ Orphan(i)
      <4>1. ~Orphan(i)
        <5>1. col \notin {col - 1, col + 1, col + 2} BY <1>3
        <5> QED BY <3>3, <5>1 DEF orphans
      <4> QED BY <3>3, <4>1
    <3>4. CASE ~(i = col + 1 /\ Orphan(i))
      BY <3>1, <3>2, <3>4
    <3> QED BY <3>3, <3>4
  <2>6. cells \in Line(w)
    <3>1. ASSUME NEW i \in 1..w PROVE cells[i] \in Cells
      <4> HIDE DEF cells, Orphan, put, old
      <4> QED BY <2>3, <2>4, <2>5 DEF put
    <3>2. cells = [i \in 1..w |-> cells[i]] OBVIOUS
    <3> HIDE DEF cells
    <3>3. cells \in [1..w -> Cells] BY <3>1, <3>2
    <3>4. cells \in Seq(Cells) /\ Len(cells) = w BY <3>3
    <3> QED BY <3>4 DEF Line
  <2> DEFINE Lost(i) ==
               \/ i = col /\ i + 1 <= w /\ CellWidth(old[i]) = 2 /\ CellWidth(old[i + 1]) = 0
               \/ i = col + 2 /\ CellWidth(old[i]) = 0 /\ CellWidth(old[i - 1]) = 2
               \/ i = col + 3 /\ cw = 2 /\ CellWidth(old[i]) = 0 /\ CellWidth(old[i - 1]) = 2
  <2>7. ASSUME NEW i \in 1..w PROVE Orphan(i) <=> Lost(i)
    <3> HIDE DEF old
    <3> DEFINE Is(k) ==
                 \/ k - 1 = col - 1 /\ IsWide(k - 1) /\ IsTail(col)
                 \/ k - 1 = col + 1 /\ IsTail(k - 1) /\ IsWide(col)
                 \/ k - 1 = col + 2 /\ cw = 2 /\ IsTail(k - 1) /\ IsWide(col + 1)
    <3>1. Orphan(i) <=> Is(i)
      <4> HIDE DEF IsWide, IsTail
      <4> QED OBVIOUS
    <3>2. i - 1 \in 0..(w - 1) /\ col \in 0..(w - 1) /\ (i - 1) + 1 = i BY <1>3
    <3>3. i = col + 3 => col + 1 \in 0..(w - 1) /\ (col + 1) + 1 = i - 1 BY <1>3
    <3>4. i = col + 2 => col + 1 = i - 1 OBVIOUS
    <3> HIDE DEF Orphan
    <3> QED BY <3>1, <3>2, <3>3, <3>4, <1>3
  <2> HIDE DEF cells, new
  <2>8. new \in Grids(w, h) /\ new.rows[row + 1].cells = cells
        /\ \A r \in 1..h : r # row + 1 => new.rows[r] = g.rows[r]
    BY <2>1, <2>2, <2>6, RowReplaced
  <2>9. ASSUME Paired(g), cw = 2 => col + 1 < w PROVE Paired(new)
    <3>1. \A r \in 1..h : PairedLine(g.rows[r].cells, w) BY <2>9, PairedLines
    <3>2. PairedLine(old, w) BY <2>2, <3>1
    <3>3. CellWidth(put) = cw /\ CellWidth(Continuation) = 0 /\ CellWidth(Blank) = 1
      BY DEF CellWidth, Continuation, Blank
    <3> HIDE DEF old, put, Orphan
    <3> DEFINE new_(i) == CellWidth(cells[i])  old_(i) == CellWidth(old[i])
    <3>4. ASSUME NEW i \in 1..w
          PROVE  /\ i = col + 1 => new_(i) = cw
                 /\ i = col + 2 /\ cw = 2 => new_(i) = 0
                 /\ i # col + 1 /\ ~(i = col + 2 /\ cw = 2) /\ Orphan(i) => new_(i) = 1
                 /\ i # col + 1 /\ ~(i = col + 2 /\ cw = 2) /\ ~Orphan(i) => new_(i) = old_(i)
      BY <2>5, <3>3
    <3>5. \A c \in 1..w : old_(c) = 2 => c < w /\ old_(c + 1) = 0 BY <3>2 DEF PairedLine
    <3>6. \A c \in 1..w : old_(c) = 0 => c > 1 /\ old_(c - 1) = 2 BY <3>2 DEF PairedLine
    <3>7. ASSUME NEW i \in 1..w
          PROVE  /\ i = col /\ i + 1 <= w /\ old_(i) = 2 /\ old_(i + 1) = 0 => Orphan(i)
                 /\ i = col + 2 /\ old_(i) = 0 /\ old_(i - 1) = 2 => Orphan(i)
                 /\ i = col + 3 /\ cw = 2 /\ old_(i) = 0 /\ old_(i - 1) = 2 => Orphan(i)
                 /\ Orphan(i) => i = col \/ i = col + 2 \/ (i = col + 3 /\ cw = 2)
                 /\ i = col /\ Orphan(i) => old_(i) = 2
                 /\ i > col /\ Orphan(i) => old_(i) = 0
      BY <2>7
    <3> HIDE DEF new_, old_
    <3>8. ASSUME NEW c \in 1..w, new_(c) = 2 PROVE c < w /\ new_(c + 1) = 0
      BY <1>3, <2>9, <3>4, <3>5, <3>6, <3>7, <3>8
    <3>9. ASSUME NEW c \in 1..w, new_(c) = 0 PROVE c > 1 /\ new_(c - 1) = 2
      BY <1>3, <2>9, <3>4, <3>5, <3>6, <3>7, <3>9
    <3>10. PairedLine(cells, w) BY <3>8, <3>9 DEF PairedLine, new_
    <3>11. \A r \in 1..h : PairedLine(new.rows[r].cells, w) BY <2>8, <3>1, <3>10
    <3> QED BY <2>8, <3>11, PairedLines
  <2>10. OtherRowsStay(g, new, row, h) BY <2>8 DEF OtherRowsStay
  <2>11. PutInto(old, cells, col, ch, cw, w)
    <3>1. col + 1 \in 1..w BY <1>3
    <3> HIDE DEF old, put, Orphan
    <3>2. cells[col + 1] = put BY <2>5, <3>1
    <3>3. ASSUME NEW i \in 1..w, i # col + 1
          PROVE  cells[i] = Blank \/ cells[i] = Continuation \/ cells[i] = old[i]
      <4>1. CASE i = col + 2 /\ cw = 2 BY <2>5, <4>1
      <4>2. CASE ~(i = col + 2 /\ cw = 2) BY <2>5, <3>3, <4>2
      <4> QED BY <4>1, <4>2
    <3> QED BY <3>2, <3>3, Zenon DEF PutInto, put
  <2> QED BY <2>8, <2>9, <2>10, <2>11 DEF new, old
<1> QED BY <1>2, <1>3

(* The soft-wrap flag of one row is set.                                    *)
LEMMA FlagSet ==
  ASSUME NEW w \in Nat, NEW h \in Nat, NEW g \in Grids(w, h), NEW row \in Nat
  PROVE  LET new == SetRowWrapped(g, row)
         IN /\ new \in Grids(w, h)
            /\ \A r \in 1..h : new.rows[r].cells = g.rows[r].cells
            /\ Paired(g) => Paired(new)
<1> DEFINE new == SetRowWrapped(g, row)
           line == [g.rows[row + 1] EXCEPT !.wrapped = TRUE]
           rows == [g.rows EXCEPT ![row + 1] = line]
<1>1. g = [width |-> w, height |-> h, rows |-> g.rows] /\ g.height = h BY GridParts
<1>2. CASE ~(row < h)
  <2>1. new = g BY <1>1, <1>2 DEF SetRowWrapped
  <2> QED BY <2>1
<1>3. CASE row < h
  <2>1. new = [width |-> w, height |-> h, rows |-> rows] BY <1>1, <1>3 DEF SetRowWrapped
  <2>2. g.rows \in Seq(Row(w)) /\ Len(g.rows) = h /\ row + 1 \in 1..h /\ g.rows[row + 1] \in Row(w)
    BY <1>3, GridParts DEF Rows
  <2>3. line \in Row(w) /\ line.cells = g.rows[row + 1].cells BY <2>2 DEF Row
  <2> HIDE DEF line
  <2>4. rows \in Seq(Row(w)) /\ Len(rows) = h /\ rows[row + 1] = line
        /\ \A r \in 1..h : r # row + 1 => rows[r] = g.rows[r]
    BY <2>2, <2>3, ExceptSeq
  <2> HIDE DEF rows, new
  <2>5. new \in Grids(w, h) /\ new.rows = rows BY <2>1, <2>4 DEF Grids, Rows
  <2>6. \A r \in 1..h : new.rows[r].cells = g.rows[r].cells BY <2>3, <2>4, <2>5
  <2>7. Paired(g) => Paired(new) BY <2>5, <2>6, PairedLines
  <2> QED BY <2>5, <2>6, <2>7 DEF new
<1> QED BY <1>2, <1>3

(* Some rows become blank.                                                  *)
LEMMA RowsCleared ==
  ASSUME NEW w \in Nat, NEW h \in Nat, NEW g \in Grids(w, h), NEW rows
  PROVE  ClearRows(g, rows) \in Grids(w, h)
<1> DEFINE line(i) == [g.rows[i] EXCEPT !.cells = Blanks(g.width)]
           new == [i \in DOMAIN g.rows |-> IF i - 1 \in rows THEN line(i) ELSE g.rows[i]]
<1>1. /\ g = [width |-> w, height |-> h, rows |-> g.rows] /\ g.width = w /\ DOMAIN g.rows = 1..h
      /\ \A r \in 1..h : g.rows[r] \in Row(w)
  BY GridParts
<1>2. ClearRows(g, rows) = [width |-> w, height |-> h, rows |-> new]
  <2>1. ClearRows(g, rows) = [g EXCEPT !.rows = new] BY DEF ClearRows
  <2> HIDE DEF new
  <2> QED BY <1>1, <2>1
<1>3. ASSUME NEW i \in 1..h PROVE line(i) \in Row(w)
  <2>1. Blanks(w) \in Line(w) BY BlankTypes DEF Line
  <2> HIDE DEF Row
  <2>2. g.rows[i] \in Row(w) BY <1>1
  <2> QED BY <1>1, <2>1, <2>2 DEF Row
<1> HIDE DEF line
<1>4. new \in [1..h -> Row(w)] BY <1>1, <1>3
<1> HIDE DEF new
<1>5. new \in Seq(Row(w)) /\ Len(new) = h BY <1>4
<1> QED BY <1>2, <1>5 DEF Grids, Rows

-----------------------------------------------------------------------------
(* The scrollback.                                                          *)

(* The continuation cells of a line are left out one by one.                *)
LEMMA TailSteps ==
  ASSUME NEW cells \in Seq(Cells)
  PROVE  \E f \in [0..Len(cells) -> Seq(Cells)] :
           /\ WithoutTails(cells) = f[Len(cells)]
           /\ f[0] = <<>>
           /\ \A n \in 0..(Len(cells) - 1) :
                f[n + 1] = IF CellWidth(cells[n + 1]) = 0 THEN f[n] ELSE Append(f[n], cells[n + 1])
<1> DEFINE N == Len(cells)
           V == Seq(Cells)
           Next1(s, n) == IF CellWidth(cells[n]) = 0 THEN s ELSE Append(s, cells[n])
           F(f) == [n \in 0..N |-> IF n = 0 THEN <<>> ELSE Next1(f[n - 1], n)]
           kept == CHOOSE f : f = F(f)
           step == [n \in 0..N |-> [s \in V |-> IF n < N THEN Next1(s, n + 1) ELSE s]]
<1>1. N \in Nat /\ <<>> \in V /\ \A n \in 1..N : cells[n] \in Cells
  BY ElementOfSeq
<1>2. \A s \in V : \A n \in 1..N : Next1(s, n) \in V
  BY <1>1
<1> HIDE DEF N, V, Next1
<1>3. step \in [0..N -> [V -> V]]
  <2>1. \A n \in 0..N : \A s \in V : (IF n < N THEN Next1(s, n + 1) ELSE s) \in V BY <1>1, <1>2
  <2> QED BY <2>1
<1>4. PICK g \in [0..N -> V] : g[0] = <<>> /\ \A n \in 0..(N - 1) : g[n + 1] = step[n][g[n]]
  <2> HIDE DEF step
  <2>1. Iterations(V, <<>>, N, step) # {} BY <1>1, <1>3, IterationsExist
  <2> QED BY <2>1 DEF Iterations
<1>5. g = F(g)
  <2>1. ASSUME NEW n \in 1..N PROVE g[n] = Next1(g[n - 1], n)
    <3>1. n - 1 \in 0..(N - 1) /\ n - 1 \in 0..N /\ n - 1 < N /\ (n - 1) + 1 = n /\ g[n - 1] \in V
      BY <1>1, <1>4
    <3>2. step[n - 1][g[n - 1]] = Next1(g[n - 1], (n - 1) + 1) BY <3>1
    <3> HIDE DEF step
    <3> QED BY <1>4, <3>1, <3>2
  <2>2. \A n \in 0..N : g[n] = F(g)[n] BY <1>4, <2>1
  <2> QED BY <1>4, <2>2
<1>6. kept = F(kept)
  <2> HIDE DEF F
  <2> QED BY <1>5
<1> HIDE DEF kept
<1> DEFINE I == {n \in Nat : kept[n] \in V}
<1>7. 0..N \subseteq I
  <2>1. kept[0] \in V BY <1>1, <1>6
  <2>2. ASSUME NEW n \in 0..(N - 1), kept[n] \in V PROVE kept[n + 1] \in V
    <3>1. n + 1 \in 0..N /\ n + 1 \in 1..N /\ n + 1 # 0 /\ (n + 1) - 1 = n BY <1>1
    <3>2. kept[n + 1] = Next1(kept[(n + 1) - 1], n + 1) BY <1>6, <3>1
    <3> QED BY <1>2, <2>2, <3>1, <3>2
  <2>3. 0 \in I /\ \A n \in 0..(N - 1) : n \in I => n + 1 \in I BY <2>1, <2>2
  <2> HIDE DEF I
  <2> QED BY <1>1, <2>3, IntervalInduction
<1>8. WithoutTails(cells) = kept[N]
  BY DEF WithoutTails, kept, F, N, Next1
<1>9. kept[0] = <<>> /\ kept \in [0..N -> V]
  <2>1. \A n \in 0..N : kept[n] \in V BY <1>7
  <2>2. DOMAIN kept = 0..N /\ kept = [n \in 0..N |-> kept[n]] BY <1>6
  <2> QED BY <1>1, <1>6, <2>1, <2>2
<1>10. ASSUME NEW n \in 0..(N - 1) PROVE kept[n + 1] = Next1(kept[n], n + 1)
  <2>1. n + 1 \in 0..N /\ n + 1 # 0 /\ (n + 1) - 1 = n BY <1>1
  <2> QED BY <1>6, <2>1
<1> QED BY <1>8, <1>9, <1>10 DEF V, N, Next1

(* A line without the continuation cells is a line.                         *)
LEMMA TailsRemoved ==
  ASSUME NEW cells \in Seq(Cells)
  PROVE  WithoutTails(cells) \in Seq(Cells)
<1>1. PICK f \in [0..Len(cells) -> Seq(Cells)] : WithoutTails(cells) = f[Len(cells)] BY TailSteps
<1>2. Len(cells) \in 0..Len(cells) OBVIOUS
<1> QED BY <1>1, <1>2

(* Trimming a line gives cells.                                             *)
LEMMA BlanksTrimmed ==
  ASSUME NEW cells \in Seq(Cells)
  PROVE  TrimBlanks(cells) \in Seq(Cells)
<1> DEFINE N == Len(cells)
           S == {i \in DOMAIN cells : cells[i] # Blank} \cup {0}
<1>1. N \in Nat /\ DOMAIN cells = 1..N /\ \A i \in 1..N : cells[i] \in Cells
  BY LenProperties, ElementOfSeq
<1>2. S \subseteq 0..N /\ S # {} BY <1>1
<1> HIDE DEF S, N
<1>3. Max(S) \in 0..N BY <1>1, <1>2, MaxOf
<1>4. \A i \in 1..Max(S) : cells[i] \in Cells BY <1>1, <1>3
<1>5. SubSeq(cells, 1, Max(S)) \in Seq(Cells) BY <1>1, <1>3, <1>4, SubSeqProperties
<1> QED BY <1>5 DEF TrimBlanks, S

(* One row pushed: the scrollback keeps its capacity and does not pass it.  *)
LEMMA RowPushed ==
  ASSUME NEW s \in Scrollbacks, NEW cells \in Seq(Cells)
  PROVE  PushRow(s, cells) \in Scrollbacks /\ PushRow(s, cells).cap = s.cap
<1> DEFINE line == WithoutTails(TrimBlanks(cells))
           lines == Append(s.lines, line)
           from == SaturatingSub(Len(lines), s.cap) + 1
           kept == SubSeq(lines, from, Len(lines))
<1>1. line \in Seq(Cells) BY BlanksTrimmed, TailsRemoved
<1>2. s.cap \in Nat /\ s.lines \in Seq(Seq(Cells)) /\ Len(s.lines) <= s.cap
      /\ s = [cap |-> s.cap, lines |-> s.lines]
  BY DEF Scrollbacks
<1> HIDE DEF line
<1>3. lines \in Seq(Seq(Cells)) /\ Len(lines) \in Nat \ {0} BY <1>1, <1>2
<1> HIDE DEF lines
<1>4. from \in Nat \ {0} /\ Len(lines) - from + 1 <= s.cap
      /\ (s.cap # 0 => from <= Len(lines))
  <2> DEFINE c == s.cap  l == Len(lines)
  <2>1. c \in Nat /\ l \in Nat \ {0} BY <1>2, <1>3
  <2> HIDE DEF c, l
  <2>2. SaturatingSub(l, c) \in Nat /\ (l > c => SaturatingSub(l, c) = l - c) /\ (l <= c => SaturatingSub(l, c) = 0)
    BY <2>1 DEF SaturatingSub
  <2>3. SaturatingSub(l, c) + 1 \in Nat \ {0} /\ l - (SaturatingSub(l, c) + 1) + 1 <= c
        /\ (c # 0 => SaturatingSub(l, c) + 1 <= l)
    BY <2>1, <2>2
  <2> QED BY <2>3 DEF c, l
<1>5. CASE s.cap = 0 BY <1>5 DEF PushRow
<1>6. CASE s.cap # 0
  <2> HIDE DEF from
  <2>1. \A i \in from..Len(lines) : lines[i] \in Seq(Cells) BY <1>3, <1>4, ElementOfSeq
  <2>2. kept \in Seq(Seq(Cells)) /\ Len(kept) = Len(lines) - from + 1
    BY <1>3, <1>4, <1>6, <2>1, SubSeqProperties
  <2> HIDE DEF kept
  <2>3. PushRow(s, cells) = [cap |-> s.cap, lines |-> kept]
    <3>1. PushRow(s, cells) = [s EXCEPT !.lines = kept] BY <1>6 DEF PushRow, kept, lines, from, line
    <3> QED BY <1>2, <3>1
  <2> QED BY <1>2, <1>4, <2>2, <2>3 DEF Scrollbacks
<1> QED BY <1>5, <1>6

(* Rows are pushed one by one.                                              *)
LEMMA PushSteps ==
  ASSUME NEW s \in Scrollbacks, NEW rows \in Seq(Seq(Cells))
  PROVE  \E f \in [0..Len(rows) -> {v \in Scrollbacks : v.cap = s.cap}] :
           /\ PushRows(s, rows) = f[Len(rows)]
           /\ f[0] = s
           /\ \A n \in 0..(Len(rows) - 1) : f[n + 1] = PushRow(f[n], rows[n + 1])
<1> DEFINE N == Len(rows)
           V == {v \in Scrollbacks : v.cap = s.cap}
           F(f) == [n \in 0..N |-> IF n = 0 THEN s ELSE PushRow(f[n - 1], rows[n])]
           after == CHOOSE f : f = F(f)
           step == [n \in 0..N |-> [v \in V |-> IF n < N THEN PushRow(v, rows[n + 1]) ELSE v]]
<1>1. N \in Nat /\ s \in V /\ \A n \in 1..N : rows[n] \in Seq(Cells)
  BY ElementOfSeq
<1>2. \A v \in V : \A n \in 1..N : PushRow(v, rows[n]) \in V
  BY <1>1, RowPushed
<1>3. \A v \in V : v \in Scrollbacks /\ v.cap = s.cap OBVIOUS
<1> HIDE DEF N, V
<1>4. step \in [0..N -> [V -> V]]
  <2>1. \A n \in 0..N : \A v \in V : (IF n < N THEN PushRow(v, rows[n + 1]) ELSE v) \in V BY <1>1, <1>2
  <2> QED BY <2>1
<1>5. PICK g \in [0..N -> V] : g[0] = s /\ \A n \in 0..(N - 1) : g[n + 1] = step[n][g[n]]
  <2> HIDE DEF step
  <2>1. Iterations(V, s, N, step) # {} BY <1>1, <1>4, IterationsExist
  <2> QED BY <2>1 DEF Iterations
<1>6. g = F(g)
  <2>1. ASSUME NEW n \in 1..N PROVE g[n] = PushRow(g[n - 1], rows[n])
    <3>1. n - 1 \in 0..(N - 1) /\ n - 1 \in 0..N /\ n - 1 < N /\ (n - 1) + 1 = n /\ g[n - 1] \in V
      BY <1>1, <1>5
    <3>2. step[n - 1][g[n - 1]] = PushRow(g[n - 1], rows[(n - 1) + 1]) BY <3>1
    <3> HIDE DEF step
    <3> QED BY <1>5, <3>1, <3>2
  <2>2. \A n \in 0..N : g[n] = F(g)[n] BY <1>5, <2>1
  <2> QED BY <1>5, <2>2
<1>7. after = F(after)
  <2> HIDE DEF F
  <2> QED BY <1>6
<1> HIDE DEF after
<1> DEFINE I == {n \in Nat : after[n] \in V}
<1>8. 0..N \subseteq I
  <2>1. after[0] \in V BY <1>1, <1>7
  <2>2. ASSUME NEW n \in 0..(N - 1), after[n] \in V PROVE after[n + 1] \in V
    <3>1. n + 1 \in 0..N /\ n + 1 \in 1..N /\ n + 1 # 0 /\ (n + 1) - 1 = n BY <1>1
    <3>2. after[n + 1] = PushRow(after[(n + 1) - 1], rows[n + 1]) BY <1>7, <3>1
    <3> QED BY <1>2, <2>2, <3>1, <3>2
  <2>3. 0 \in I /\ \A n \in 0..(N - 1) : n \in I => n + 1 \in I BY <2>1, <2>2
  <2> HIDE DEF I
  <2> QED BY <1>1, <2>3, IntervalInduction
<1>9. PushRows(s, rows) = after[N]
  BY DEF PushRows, after, F, N
<1>10. after[0] = s /\ after \in [0..N -> V]
  <2>1. \A n \in 0..N : after[n] \in V BY <1>8
  <2>2. DOMAIN after = 0..N /\ after = [n \in 0..N |-> after[n]] BY <1>7
  <2> QED BY <1>1, <1>7, <2>1, <2>2
<1>11. ASSUME NEW n \in 0..(N - 1) PROVE after[n + 1] = PushRow(after[n], rows[n + 1])
  <2>1. n + 1 \in 0..N /\ n + 1 # 0 /\ (n + 1) - 1 = n BY <1>1
  <2> QED BY <1>7, <2>1
<1> QED BY <1>9, <1>10, <1>11 DEF V, N

(* The scrollback holds no more lines than it may, whatever is pushed.      *)
LEMMA RowsPushed ==
  ASSUME NEW s \in Scrollbacks, NEW rows \in Seq(Seq(Cells))
  PROVE  PushRows(s, rows) \in Scrollbacks /\ PushRows(s, rows).cap = s.cap
<1>1. PICK f \in [0..Len(rows) -> {v \in Scrollbacks : v.cap = s.cap}] :
             PushRows(s, rows) = f[Len(rows)]
  BY PushSteps
<1>2. Len(rows) \in 0..Len(rows) OBVIOUS
<1> QED BY <1>1, <1>2

-----------------------------------------------------------------------------
(* Reflow.                                                                  *)

(* The rows are joined one by one, each to the lines before it, which are   *)
(* not empty once there was a row.                                          *)
Joining(lines, row) ==
  IF lines # <<>> /\ row.wrapped
  THEN [lines EXCEPT ![Len(lines)] = @ \o row.cells]
  ELSE Append(lines, row.cells)

LEMMA RowJoined ==
  ASSUME NEW w \in Nat, NEW row \in Row(w), NEW v \in Seq(Seq(Cells))
  PROVE  /\ Joining(v, row) \in Seq(Seq(Cells))
         /\ Len(Joining(v, row)) = IF v # <<>> /\ row.wrapped THEN Len(v) ELSE Len(v) + 1
<1> DEFINE cells == row.cells
<1>1. cells \in Seq(Cells) BY DEF Row, Line
<1>2. CASE v # <<>> /\ row.wrapped
  <2>1. Len(v) \in 1..Len(v) /\ v[Len(v)] \in Seq(Cells) BY <1>2, EmptySeq, ElementOfSeq
  <2>2. v[Len(v)] \o cells \in Seq(Cells) BY <1>1, <2>1
  <2> DEFINE e == v[Len(v)] \o cells
  <2> HIDE DEF e
  <2>3. [v EXCEPT ![Len(v)] = e] \in Seq(Seq(Cells)) /\ Len([v EXCEPT ![Len(v)] = e]) = Len(v)
    BY <2>1, <2>2, ExceptSeq DEF e
  <2> QED BY <1>2, <2>3 DEF e, Joining
<1>3. CASE ~(v # <<>> /\ row.wrapped)
  <2> HIDE DEF cells
  <2>1. Append(v, cells) \in Seq(Seq(Cells)) /\ Len(Append(v, cells)) = Len(v) + 1 BY <1>1
  <2> QED BY <1>3, <2>1 DEF cells, Joining
<1> QED BY <1>2, <1>3

LEMMA JoinSteps ==
  ASSUME NEW w \in Nat, NEW rows \in Rows(w)
  PROVE  \E f \in [0..Len(rows) -> Seq(Seq(Cells))] :
           /\ LogicalLines(rows) = f[Len(rows)]
           /\ f[0] = <<>>
           /\ \A n \in 0..(Len(rows) - 1) : f[n + 1] = Joining(f[n], rows[n + 1])
<1> DEFINE N == Len(rows)
           V == Seq(Seq(Cells))
           Join(lines, row) == Joining(lines, row)
           F(f) == [n \in 0..N |-> IF n = 0 THEN <<>> ELSE Join(f[n - 1], rows[n])]
           joined == CHOOSE f : f = F(f)
           step == [n \in 0..N |-> [v \in V |-> IF n < N THEN Join(v, rows[n + 1]) ELSE v]]
<1>1. N \in Nat /\ <<>> \in V /\ \A n \in 1..N : rows[n] \in Row(w)
  BY ElementOfSeq DEF Rows
<1>2. \A v \in V : \A n \in 1..N : Join(v, rows[n]) \in V
  BY <1>1, RowJoined
<1> HIDE DEF N, V, Join
<1>3. step \in [0..N -> [V -> V]]
  <2>1. \A n \in 0..N : \A v \in V : (IF n < N THEN Join(v, rows[n + 1]) ELSE v) \in V BY <1>1, <1>2
  <2> QED BY <2>1
<1>4. PICK g \in [0..N -> V] : g[0] = <<>> /\ \A n \in 0..(N - 1) : g[n + 1] = step[n][g[n]]
  <2> HIDE DEF step
  <2>1. Iterations(V, <<>>, N, step) # {} BY <1>1, <1>3, IterationsExist
  <2> QED BY <2>1 DEF Iterations
<1>5. g = F(g)
  <2>1. ASSUME NEW n \in 1..N PROVE g[n] = Join(g[n - 1], rows[n])
    <3>1. n - 1 \in 0..(N - 1) /\ n - 1 \in 0..N /\ n - 1 < N /\ (n - 1) + 1 = n /\ g[n - 1] \in V
      BY <1>1, <1>4
    <3>2. step[n - 1][g[n - 1]] = Join(g[n - 1], rows[(n - 1) + 1]) BY <3>1
    <3> HIDE DEF step
    <3> QED BY <1>4, <3>1, <3>2
  <2>2. \A n \in 0..N : g[n] = F(g)[n] BY <1>4, <2>1
  <2> QED BY <1>4, <2>2
<1>6. joined = F(joined)
  <2> HIDE DEF F
  <2> QED BY <1>5
<1> HIDE DEF joined
<1> DEFINE I == {n \in Nat : joined[n] \in V}
<1>7. 0..N \subseteq I
  <2>1. joined[0] \in V BY <1>1, <1>6
  <2>2. ASSUME NEW n \in 0..(N - 1), joined[n] \in V PROVE joined[n + 1] \in V
    <3>1. n + 1 \in 0..N /\ n + 1 \in 1..N /\ n + 1 # 0 /\ (n + 1) - 1 = n BY <1>1
    <3>2. joined[n + 1] = Join(joined[(n + 1) - 1], rows[n + 1]) BY <1>6, <3>1
    <3> QED BY <1>2, <2>2, <3>1, <3>2
  <2>3. 0 \in I /\ \A n \in 0..(N - 1) : n \in I => n + 1 \in I BY <2>1, <2>2
  <2> HIDE DEF I
  <2> QED BY <1>1, <2>3, IntervalInduction
<1>8. LogicalLines(rows) = joined[N]
  BY DEF LogicalLines, joined, F, N, Join, Joining
<1>9. joined[0] = <<>> /\ joined \in [0..N -> V]
  <2>1. \A n \in 0..N : joined[n] \in V BY <1>7
  <2>2. DOMAIN joined = 0..N /\ joined = [n \in 0..N |-> joined[n]] BY <1>6
  <2> QED BY <1>1, <1>6, <2>1, <2>2
<1>10. ASSUME NEW n \in 0..(N - 1) PROVE joined[n + 1] = Join(joined[n], rows[n + 1])
  <2>1. n + 1 \in 0..N /\ n + 1 # 0 /\ (n + 1) - 1 = n BY <1>1
  <2> QED BY <1>6, <2>1
<1> QED BY <1>8, <1>9, <1>10 DEF V, N, Join

(* The logical lines are as many as the rows that begin one.                *)
LEMMA LinesJoined ==
  ASSUME NEW w \in Nat, NEW rows \in Rows(w)
  PROVE  /\ LogicalLines(rows) \in Seq(Seq(Cells))
         /\ IsFiniteSet(LineHeads(rows))
         /\ Len(LogicalLines(rows)) = Cardinality(LineHeads(rows))
<1> DEFINE N == Len(rows)
           V == Seq(Seq(Cells))
<1>1. N \in Nat /\ DOMAIN rows = 1..N /\ \A n \in 1..N : rows[n] \in Row(w)
  <2>1. rows \in Seq(Row(w)) BY DEF Rows
  <2> QED BY <2>1, LenProperties, ElementOfSeq
<1>2. PICK joined \in [0..N -> V] :
        /\ LogicalLines(rows) = joined[N]
        /\ joined[0] = <<>>
        /\ \A n \in 0..(N - 1) : joined[n + 1] = Joining(joined[n], rows[n + 1])
  BY JoinSteps
<1> HIDE DEF N, V
<1> DEFINE Heads(n) == {r \in LineHeads(rows) : r <= n}
           I == {n \in Nat : /\ IsFiniteSet(Heads(n))
                             /\ Len(joined[n]) = Cardinality(Heads(n))
                             /\ n > 0 => joined[n] # <<>>}
<1>3. \A r \in LineHeads(rows) : r \in 1..N BY <1>1 DEF LineHeads
<1>4. 0..N \subseteq I
  <2>1. 0 \in I
    <3>1. Heads(0) = {} BY <1>1, <1>3
    <3>2. joined[0] = <<>> BY <1>2
    <3> HIDE DEF Heads
    <3>3. IsFiniteSet(Heads(0)) /\ Cardinality(Heads(0)) = 0 BY <3>1, FS_EmptySet
    <3>4. Len(<<>>) = 0 OBVIOUS
    <3> QED BY <3>2, <3>3, <3>4
  <2>2. ASSUME NEW n \in 0..(N - 1), n \in I PROVE n + 1 \in I
    <3>1. n \in 0..N /\ n + 1 \in 0..N /\ n + 1 \in 1..N BY <1>1
    <3>2. joined[n + 1] = Joining(joined[n], rows[n + 1]) BY <1>2
    <3>3. joined[n] \in V /\ IsFiniteSet(Heads(n)) /\ Len(joined[n]) = Cardinality(Heads(n))
          /\ (n > 0 => joined[n] # <<>>)
      BY <1>2, <2>2, <3>1
    <3>4. /\ joined[n + 1] \in V
          /\ Len(joined[n + 1]) = IF joined[n] # <<>> /\ rows[n + 1].wrapped THEN Len(joined[n]) ELSE Len(joined[n]) + 1
      BY <1>1, <3>1, <3>2, <3>3, RowJoined DEF V
    <3>5. Len(joined[n]) \in Nat /\ (joined[n] = <<>> => n = 0) /\ (n = 0 => joined[n] = <<>>)
      BY <1>2, <3>3 DEF V
    <3>6. CASE joined[n] # <<>> /\ rows[n + 1].wrapped
      <4>1. n # 0 /\ n + 1 # 1 BY <3>5, <3>6
      <4>2. n + 1 \notin LineHeads(rows) BY <3>6, <4>1 DEF LineHeads
      <4>3. Heads(n + 1) = Heads(n)
        <5>1. \A r \in LineHeads(rows) : r <= n + 1 <=> r <= n BY <1>3, <4>2
        <5> QED BY <5>1
      <4>4. Len(joined[n + 1]) = Len(joined[n]) /\ Len(joined[n]) > 0
        BY <3>3, <3>4, <3>6 DEF V
      <4>5. joined[n + 1] # <<>> BY <4>4
      <4> HIDE DEF Heads
      <4> QED BY <3>3, <3>4, <4>3, <4>4, <4>5
    <3>7. CASE ~(joined[n] # <<>> /\ rows[n + 1].wrapped)
      <4>1. n + 1 \in LineHeads(rows)
        BY <1>1, <3>1, <3>5, <3>7 DEF LineHeads
      <4>2. Heads(n + 1) = Heads(n) \cup {n + 1}
        <5>1. \A r \in LineHeads(rows) : r <= n + 1 <=> r <= n \/ r = n + 1 BY <1>3
        <5> QED BY <4>1, <5>1
      <4>3. n + 1 \notin Heads(n) OBVIOUS
      <4>4. Len(joined[n + 1]) = Len(joined[n]) + 1
        BY <3>4, <3>7
      <4>5. joined[n + 1] # <<>> BY <3>5, <4>4
      <4> HIDE DEF Heads
      <4>6. IsFiniteSet(Heads(n + 1)) /\ Cardinality(Heads(n + 1)) = Cardinality(Heads(n)) + 1
        BY <3>3, <4>2, <4>3, FS_AddElement
      <4> QED BY <3>3, <3>4, <4>4, <4>5, <4>6
    <3> QED BY <3>6, <3>7
  <2>3. \A n \in 0..(N - 1) : n \in I => n + 1 \in I BY <2>2
  <2> HIDE DEF I
  <2> QED BY <1>1, <2>1, <2>3, IntervalInduction
<1>5. Heads(N) = LineHeads(rows) BY <1>1, <1>3
<1> HIDE DEF Heads
<1>6. IsFiniteSet(Heads(N)) /\ Len(joined[N]) = Cardinality(Heads(N))
  <2>1. N \in I
    <3> HIDE DEF I
    <3> QED BY <1>1, <1>4
  <2> QED BY <2>1
<1>7. joined[N] \in V BY <1>1, <1>2
<1> QED BY <1>2, <1>5, <1>6, <1>7 DEF V

(* The logical line of a row is one of them, and begins at that row or     *)
(* before it.                                                               *)
LEMMA LineOfRow ==
  ASSUME NEW w \in Nat, NEW rows \in Rows(w), Len(rows) # 0, NEW row \in Nat,
         NEW head, head = HeadOf(rows, row),
         NEW line, line = Cardinality({r \in LineHeads(rows) : r <= head})
  PROVE  /\ head \in 1..Len(rows) /\ (row \in DOMAIN rows => head <= row)
         /\ line \in 1..Len(LogicalLines(rows))
<1> DEFINE H == {r \in LineHeads(rows) : r <= head}
           N == Len(rows)
<1>1. N \in Nat \ {0} /\ DOMAIN rows = 1..N
  <2>1. rows \in Seq(Row(w)) BY DEF Rows
  <2> QED BY <2>1, LenProperties
<1>2. LineHeads(rows) \subseteq 1..N /\ 1 \in LineHeads(rows) BY <1>1 DEF LineHeads
<1>3. head \in 1..N /\ head >= 1 /\ (row \in DOMAIN rows => head <= row)
  <2>1. CASE row \in 1..N
    <3> DEFINE S == {r \in LineHeads(rows) : r <= row}
    <3>1. S \subseteq 0..N /\ 1 \in S BY <1>1, <1>2, <2>1
    <3>2. \A r \in S : r \in 1..N /\ r <= row BY <1>2
    <3>3. head = Max(S) BY <1>1, <2>1 DEF HeadOf
    <3> HIDE DEF S
    <3>4. Max(S) \in S BY <1>1, <3>1, MaxOf
    <3> QED BY <3>2, <3>3, <3>4
  <2>2. CASE row \notin 1..N BY <1>1, <2>2 DEF HeadOf
  <2> QED BY <2>1, <2>2
<1> HIDE DEF N
<1>4. H \subseteq LineHeads(rows) /\ 1 \in H BY <1>1, <1>2, <1>3
<1> HIDE DEF H
<1>5. IsFiniteSet(LineHeads(rows)) /\ Len(LogicalLines(rows)) = Cardinality(LineHeads(rows))
  BY LinesJoined
<1>6. IsFiniteSet(H) /\ Cardinality(H) <= Cardinality(LineHeads(rows)) /\ Cardinality(H) \in Nat
      /\ Cardinality(LineHeads(rows)) \in Nat
  BY <1>4, <1>5, FS_Subset, FS_CardinalityType
<1>7. Cardinality(H) # 0 BY <1>4, <1>6, FS_EmptySet
<1>8. Cardinality(H) \in 1..Len(LogicalLines(rows)) BY <1>5, <1>6, <1>7
<1> QED BY <1>3, <1>8 DEF H, N

(* What is laid: rows that fit the width, and a place for each cell.        *)
Laid(w) ==
  [done : Seq({s \in Seq(Cells) : Len(s) <= w}), row : {s \in Seq(Cells) : Len(s) <= w},
   at : Seq([row : Nat, col : Nat])]

(* One more cell laid keeps what is laid well formed, and gives the cell a  *)
(* place.                                                                   *)
LEMMA CellLaid ==
  ASSUME NEW w \in Nat \ {0}, NEW laid \in Laid(w), NEW cell \in Cells
  PROVE  /\ LayCell(w, laid, cell) \in Laid(w)
         /\ Len(LayCell(w, laid, cell).at) = Len(laid.at) + 1
<1> DEFINE R == {s \in Seq(Cells) : Len(s) <= w}
           P == [row : Nat, col : Nat]
           col == Len(laid.row)
           full == col >= w \/ (CellWidth(cell) = 2 /\ col + 1 >= w)
           row == IF full THEN <<>> ELSE laid.row
           tail == IF CellWidth(cell) = 2 /\ Len(row) + 1 < w THEN <<Continuation>> ELSE <<>>
           here == [row |-> Len(laid.done),
                    col |-> IF CellWidth(cell) = 0 THEN SaturatingSub(col, 2) ELSE col]
           done == IF full THEN Append(laid.done, laid.row) ELSE laid.done
           at == Append(laid.at, here)
           new == row \o <<cell>> \o tail
<1>1. laid.done \in Seq(R) /\ laid.row \in R /\ laid.at \in Seq(P) /\ laid.row \in Seq(Cells)
      /\ laid = [done |-> laid.done, row |-> laid.row, at |-> laid.at] /\ Len(laid.row) <= w
  BY DEF Laid
<1>2. col \in Nat /\ Len(laid.done) \in Nat BY <1>1
<1>3. here \in P
  <2> HIDE DEF col
  <2>1. SaturatingSub(col, 2) \in Nat BY <1>2 DEF SaturatingSub
  <2> QED BY <1>2, <2>1
<1> HIDE DEF here, P
<1>4. at \in Seq(P) /\ Len(at) = Len(laid.at) + 1 BY <1>1, <1>3
<1>5. row \in Seq(Cells) /\ Len(row) \in Nat /\ Len(row) + 1 <= w
  <2>1. <<>> \in Seq(Cells) /\ Len(<<>>) = 0 OBVIOUS
  <2>2. CASE full BY <2>1, <2>2
  <2>3. CASE ~full
    <3>1. row = laid.row BY <2>3
    <3>2. col + 1 <= w BY <1>2, <2>3
    <3> HIDE DEF row
    <3> QED BY <1>1, <1>2, <3>1, <3>2
  <2> QED BY <2>2, <2>3
<1>6. done \in Seq(R)
  <2> HIDE DEF R
  <2> QED BY <1>1
<1> HIDE DEF row, full, done, at
<1>7. new \in R
  <2>1. <<cell>> \in Seq(Cells) /\ Len(<<cell>>) = 1 OBVIOUS
  <2>2. tail \in Seq(Cells) /\ Len(tail) \in Nat /\ Len(row) + 1 + Len(tail) <= w
    <3>1. <<Continuation>> \in Seq(Cells) /\ Len(<<Continuation>>) = 1 BY BlankTypes
    <3>2. <<>> \in Seq(Cells) /\ Len(<<>>) = 0 OBVIOUS
    <3>3. CASE CellWidth(cell) = 2 /\ Len(row) + 1 < w BY <1>5, <3>1, <3>3
    <3>4. CASE ~(CellWidth(cell) = 2 /\ Len(row) + 1 < w) BY <1>5, <3>2, <3>4
    <3> QED BY <3>3, <3>4
  <2> HIDE DEF tail
  <2> DEFINE one == <<cell>>
  <2> HIDE DEF one
  <2>3. row \o one \in Seq(Cells) /\ Len(row \o one) = Len(row) + 1 BY <1>5, <2>1 DEF one
  <2> DEFINE two == row \o one
  <2> HIDE DEF two
  <2>4. two \o tail \in Seq(Cells) /\ Len(two \o tail) = Len(row) + 1 + Len(tail) BY <2>2, <2>3 DEF two
  <2> QED BY <2>2, <2>4 DEF two, one
<1>8. CASE CellWidth(cell) = 0
  <2>1. LayCell(w, laid, cell) = [laid EXCEPT !.at = at]
    BY <1>8 DEF LayCell, at, here, col
  <2>2. [laid EXCEPT !.at = at] = [done |-> laid.done, row |-> laid.row, at |-> at] BY <1>1
  <2> HIDE DEF R
  <2>3. [done |-> laid.done, row |-> laid.row, at |-> at] \in [done : Seq(R), row : R, at : Seq(P)]
    BY <1>1, <1>4
  <2> QED BY <1>4, <2>1, <2>2, <2>3 DEF Laid, R, P
<1>9. CASE CellWidth(cell) # 0
  <2>1. LayCell(w, laid, cell) = [done |-> done, row |-> new, at |-> at]
    BY <1>9 DEF LayCell, done, at, here, col, row, full, tail
  <2> HIDE DEF R, new
  <2>2. [done |-> done, row |-> new, at |-> at] \in [done : Seq(R), row : R, at : Seq(P)]
    BY <1>4, <1>6, <1>7
  <2> QED BY <1>4, <2>1, <2>2 DEF Laid, R, P
<1> QED BY <1>8, <1>9

(* A line is laid cell by cell, and every cell has its place.               *)
NothingLaid == [done |-> <<>>, row |-> <<>>, at |-> <<>>]
LEMMA LaySteps ==
  ASSUME NEW w \in Nat \ {0}, NEW line \in Seq(Cells)
  PROVE  \E f \in [0..Len(line) -> Laid(w)] :
           /\ LayLine(line, w) = f[Len(line)]
           /\ f[0] = NothingLaid
           /\ \A n \in 0..(Len(line) - 1) : f[n + 1] = LayCell(w, f[n], line[n + 1])
           /\ \A n \in 0..Len(line) : Len(f[n].at) = n
<1> DEFINE N == Len(line)
           V == Laid(w)
           base == NothingLaid
           F(f) == [n \in 0..N |-> IF n = 0 THEN base ELSE LayCell(w, f[n - 1], line[n])]
           laid == CHOOSE f : f = F(f)
           step == [n \in 0..N |-> [v \in V |-> IF n < N THEN LayCell(w, v, line[n + 1]) ELSE v]]
<1>1. N \in Nat /\ \A n \in 1..N : line[n] \in Cells BY ElementOfSeq
<1>2. base \in V /\ Len(base.at) = 0
  <2>1. <<>> \in Seq({s \in Seq(Cells) : Len(s) <= w}) /\ <<>> \in {s \in Seq(Cells) : Len(s) <= w}
    OBVIOUS
  <2>2. <<>> \in Seq([row : Nat, col : Nat]) /\ Len(<<>>) = 0 OBVIOUS
  <2> QED BY <2>1, <2>2 DEF Laid, NothingLaid
<1> HIDE DEF N, V, base
<1>3. \A v \in V : \A n \in 1..N :
        LayCell(w, v, line[n]) \in V /\ Len(LayCell(w, v, line[n]).at) = Len(v.at) + 1
  BY <1>1, CellLaid DEF V
<1>4. step \in [0..N -> [V -> V]]
  <2>1. \A n \in 0..N : \A v \in V : (IF n < N THEN LayCell(w, v, line[n + 1]) ELSE v) \in V BY <1>1, <1>3
  <2> QED BY <2>1
<1>5. PICK g \in [0..N -> V] : g[0] = base /\ \A n \in 0..(N - 1) : g[n + 1] = step[n][g[n]]
  <2> HIDE DEF step
  <2>1. Iterations(V, base, N, step) # {} BY <1>1, <1>2, <1>4, IterationsExist
  <2> QED BY <2>1 DEF Iterations
<1>6. g = F(g)
  <2>1. ASSUME NEW n \in 1..N PROVE g[n] = LayCell(w, g[n - 1], line[n])
    <3>1. n - 1 \in 0..(N - 1) /\ n - 1 \in 0..N /\ n - 1 < N /\ (n - 1) + 1 = n /\ g[n - 1] \in V
      BY <1>1, <1>5
    <3>2. step[n - 1][g[n - 1]] = LayCell(w, g[n - 1], line[(n - 1) + 1]) BY <3>1
    <3> HIDE DEF step
    <3> QED BY <1>5, <3>1, <3>2
  <2>2. \A n \in 0..N : g[n] = F(g)[n] BY <1>5, <2>1
  <2> QED BY <1>5, <2>2
<1>7. laid = F(laid)
  <2> HIDE DEF F
  <2> QED BY <1>6
<1> HIDE DEF laid
<1> DEFINE I == {n \in Nat : laid[n] \in V /\ Len(laid[n].at) = n}
<1>8. 0..N \subseteq I
  <2>1. laid[0] = base BY <1>1, <1>7
  <2>2. ASSUME NEW n \in 0..(N - 1), laid[n] \in V, Len(laid[n].at) = n
        PROVE  laid[n + 1] \in V /\ Len(laid[n + 1].at) = n + 1
    <3>1. n + 1 \in 0..N /\ n + 1 \in 1..N /\ n + 1 # 0 /\ (n + 1) - 1 = n BY <1>1
    <3>2. laid[n + 1] = LayCell(w, laid[(n + 1) - 1], line[n + 1]) BY <1>7, <3>1
    <3> QED BY <1>3, <2>2, <3>1, <3>2
  <2>3. 0 \in I /\ \A n \in 0..(N - 1) : n \in I => n + 1 \in I BY <1>2, <2>1, <2>2
  <2> HIDE DEF I
  <2> QED BY <1>1, <2>3, IntervalInduction
<1>9. LayLine(line, w) = laid[N]
  BY DEF LayLine, laid, F, N, base, NothingLaid
<1>10. laid[0] = base /\ laid \in [0..N -> V] /\ \A n \in 0..N : Len(laid[n].at) = n
  <2>1. \A n \in 0..N : laid[n] \in V /\ Len(laid[n].at) = n BY <1>8
  <2>2. DOMAIN laid = 0..N /\ laid = [n \in 0..N |-> laid[n]] BY <1>7
  <2>3. laid[0] = base BY <1>1, <1>7
  <2> QED BY <2>1, <2>2, <2>3
<1>11. ASSUME NEW n \in 0..(N - 1) PROVE laid[n + 1] = LayCell(w, laid[n], line[n + 1])
  <2>1. n + 1 \in 0..N /\ n + 1 # 0 /\ (n + 1) - 1 = n BY <1>1
  <2> QED BY <1>7, <2>1
<1> QED BY <1>9, <1>10, <1>11 DEF V, N, base

LEMMA LineLaid ==
  ASSUME NEW w \in Nat \ {0}, NEW line \in Seq(Cells)
  PROVE  LayLine(line, w) \in Laid(w) /\ Len(LayLine(line, w).at) = Len(line)
<1>1. PICK f \in [0..Len(line) -> Laid(w)] :
             LayLine(line, w) = f[Len(line)] /\ \A n \in 0..Len(line) : Len(f[n].at) = n
  BY LaySteps
<1>2. Len(line) \in 0..Len(line) OBVIOUS
<1> QED BY <1>1, <1>2

(* Lines joined are a line.                                                 *)
LEMMA Flattened ==
  ASSUME NEW S, NEW seqs \in Seq(Seq(S))
  PROVE  FlattenSeq(seqs) \in Seq(S)
<1>1. CASE seqs = <<>>
  <2>1. Len(seqs) = 0 /\ seqs \in Seq(S) BY <1>1
  <2>2. FlattenSeq(seqs) = seqs BY <2>1 DEF FlattenSeq
  <2> QED BY <2>1, <2>2
<1>2. CASE seqs # <<>>
  <2>1. PICK f \in [1..Len(seqs) -> Seq(S)] : FlattenSeq(seqs) = f[Len(seqs)]
    BY <1>2, FlattenSteps
  <2>2. Len(seqs) \in 1..Len(seqs) BY <1>2
  <2> QED BY <2>1, <2>2
<1> QED BY <1>1, <1>2

(* What is laid, cut into rows of the new width.                            *)
LEMMA RowsMade ==
  ASSUME NEW w \in Nat \ {0}, NEW laid \in Laid(w)
  PROVE  RowsOf(laid, w) \in Rows(w)
<1> DEFINE R == {s \in Seq(Cells) : Len(s) <= w}
           rows == Append(laid.done, laid.row)
           row(i) == [cells |-> rows[i] \o Blanks(w - Len(rows[i])), wrapped |-> i > 1]
<1>1. laid.done \in Seq(R) /\ laid.row \in R BY DEF Laid
<1>2. rows \in Seq(R)
  <2> HIDE DEF R
  <2> QED BY <1>1
<1>3. DOMAIN rows = 1..Len(rows) /\ Len(rows) \in Nat /\ \A i \in 1..Len(rows) : rows[i] \in R
  <2> HIDE DEF R, rows
  <2> QED BY <1>2, LenProperties, ElementOfSeq
<1>4. \A i \in 1..Len(rows) : rows[i] \in Seq(Cells) /\ Len(rows[i]) \in Nat /\ Len(rows[i]) <= w
  BY <1>3, SMTT(30)
<1> HIDE DEF rows
<1>5. ASSUME NEW i \in 1..Len(rows) PROVE row(i) \in Row(w)
  <2> DEFINE s == rows[i]  b == Blanks(w - Len(s))
  <2>1. s \in Seq(Cells) /\ Len(s) \in Nat /\ Len(s) <= w BY <1>4
  <2> HIDE DEF s
  <2>2. w - Len(s) \in Nat BY <2>1
  <2>3. b \in Seq(Cells) /\ Len(b) = w - Len(s) BY <2>2, BlankTypes
  <2> HIDE DEF b
  <2>4. s \o b \in Line(w) BY <2>1, <2>3 DEF Line
  <2>5. (i > 1) \in BOOLEAN OBVIOUS
  <2> QED BY <2>4, <2>5 DEF Row, s, b
<1>6. RowsOf(laid, w) = [i \in 1..Len(rows) |-> row(i)] BY <1>3 DEF RowsOf, rows
<1> HIDE DEF row
<1> QED BY <1>3, <1>5, <1>6 DEF Rows

(* Two facts of arithmetic about rows of equal length.                      *)
LEMMA Quotient ==
  ASSUME NEW n \in Nat, NEW k \in Nat \ {0}
  PROVE  n \div k \in Nat /\ (n \div k) * k <= n
<1>1. n = (n \div k) * k + (n % k) /\ n % k \in 0..(k - 1) /\ n \div k \in Int OBVIOUS
<1>2. n \div k >= 0 OBVIOUS
<1> QED BY <1>1, <1>2

LEMMA ProductGrows ==
  ASSUME NEW a \in Nat, NEW b \in Nat, NEW k \in Nat, a <= b
  PROVE  a * k \in Nat /\ a * k <= b * k
<1>1. PICK d \in Nat : b = a + d
  <2>1. b - a \in Nat /\ b = a + (b - a) OBVIOUS
  <2> QED BY <2>1
<1>2. (a + d) * k = a * k + d * k /\ a * k \in Nat /\ d * k \in Nat OBVIOUS
<1> QED BY <1>1, <1>2

(* The reflow: a grid of the new size, the cursor on it, rows pushed out.   *)
LEMMA GridRelaid ==
  ASSUME NEW w0 \in Nat \ {0}, NEW h0 \in Nat \ {0}, NEW g \in Grids(w0, h0),
         NEW w \in Nat \ {0}, NEW h \in Nat \ {0}, NEW row \in Nat, NEW col \in Nat
  PROVE  LET new == Relaid(g, w, h, row, col)
         IN /\ new.grid \in Grids(w, h) /\ new.pushed \in Seq(Seq(Cells))
            /\ new.row \in Nat /\ new.row < h /\ new.col \in Nat /\ new.col < w
<1> DEFINE abs     == row * g.width + col
           absRow  == abs \div g.width + 1
           head    == HeadOf(g.rows, absRow)
           line    == Cardinality({r \in LineHeads(g.rows) : r <= head})
           lines   == LogicalLines(g.rows)
           trimmed == [i \in DOMAIN lines |-> TrimBlanks(lines[i])]
           some    == {line} \cup {i \in DOMAIN trimmed : trimmed[i] # <<>>}
           kept    == SubSeq(trimmed, 1, Max(some))
           found   == IF absRow \in DOMAIN g.rows THEN abs - (head - 1) * g.width ELSE 0
           laid    == [i \in DOMAIN kept |-> LayLine(kept[i], w)]
           rows    == [i \in DOMAIN kept |-> RowsOf(laid[i], w)]
           all     == FlattenSeq(rows)
           over    == SaturatingSub(Len(all), h)
           before  == Len(FlattenSeq(SubSeq(rows, 1, line - 1)))
           at      == IF kept[line] = <<>> THEN [row |-> 0, col |-> found]
                      ELSE laid[line].at[AtMost(found, Len(kept[line]) - 1) + 1]
           shown   == SubSeq(all, over + 1, Len(all)) \o BlankLines(SaturatingSub(h, Len(all)), w)
           pushed  == [i \in 1..over |-> all[i].cells]
<1>1. g.width = w0 /\ g.rows \in Rows(w0) /\ Len(g.rows) = h0 /\ DOMAIN g.rows = 1..h0 BY GridParts
<1>2. abs \in Nat /\ absRow \in Nat /\ (absRow - 1) * w0 <= abs
  <2>1. row * w0 \in Nat BY ProductGrows
  <2>2. abs \in Nat BY <1>1, <2>1
  <2> HIDE DEF abs
  <2>3. abs \div w0 \in Nat /\ (abs \div w0) * w0 <= abs BY <2>2, Quotient
  <2>4. absRow \in Nat /\ absRow - 1 = abs \div w0 BY <1>1, <2>3
  <2> HIDE DEF absRow
  <2> QED BY <2>2, <2>3, <2>4
<1> HIDE DEF abs, absRow
<1>3. head \in 1..h0 /\ (absRow \in DOMAIN g.rows => head <= absRow) /\ line \in 1..Len(lines)
  <2>1. w0 \in Nat /\ Len(g.rows) # 0 BY <1>1
  <2> DEFINE hd == HeadOf(g.rows, absRow)
             ln == Cardinality({r \in LineHeads(g.rows) : r <= hd})
  <2>2. /\ hd \in 1..Len(g.rows) /\ (absRow \in DOMAIN g.rows => hd <= absRow)
        /\ ln \in 1..Len(LogicalLines(g.rows))
    <3>1. hd = HeadOf(g.rows, absRow) /\ ln = Cardinality({r \in LineHeads(g.rows) : r <= hd})
      OBVIOUS
    <3> HIDE DEF hd, ln
    <3> QED BY <1>1, <1>2, <2>1, <3>1, LineOfRow
  <2> QED BY <1>1, <2>2
<1> HIDE DEF head
<1>4. found \in Nat
  <2>1. CASE absRow \in DOMAIN g.rows
    <3>1. head - 1 \in Nat /\ absRow - 1 \in Nat /\ head - 1 <= absRow - 1 BY <1>2, <1>3, <2>1
    <3>2. (head - 1) * w0 \in Nat /\ (head - 1) * w0 <= (absRow - 1) * w0 /\ (absRow - 1) * w0 \in Nat
      BY <3>1, ProductGrows
    <3>3. found = abs - (head - 1) * w0 BY <1>1, <2>1
    <3> DEFINE p == (head - 1) * w0  q == (absRow - 1) * w0
    <3> HIDE DEF found, p, q
    <3>4. p \in Nat /\ q \in Nat /\ p <= q /\ q <= abs /\ found = abs - p BY <1>2, <3>2, <3>3 DEF p, q
    <3> QED BY <1>2, <3>4
  <2>2. CASE absRow \notin DOMAIN g.rows BY <2>2
  <2> QED BY <2>1, <2>2
<1> HIDE DEF found, line
<1>5. lines \in Seq(Seq(Cells)) BY <1>1, LinesJoined
<1> DEFINE L == Len(lines)
<1> HIDE DEF lines
<1>6. trimmed \in Seq(Seq(Cells)) /\ Len(trimmed) = L /\ L \in Nat /\ DOMAIN trimmed = 1..L
      /\ \A i \in 1..L : trimmed[i] \in Seq(Cells)
  <2>1. DOMAIN lines = 1..L /\ L \in Nat /\ \A i \in 1..L : lines[i] \in Seq(Cells)
    BY <1>5, LenProperties, ElementOfSeq
  <2>2. \A i \in 1..L : TrimBlanks(lines[i]) \in Seq(Cells) BY <2>1, BlanksTrimmed
  <2> HIDE DEF L
  <2>3. trimmed \in [1..L -> Seq(Cells)] BY <2>1, <2>2
  <2> HIDE DEF trimmed
  <2> QED BY <2>1, <2>3
<1>7. line \in 1..L BY <1>3
<1> HIDE DEF L, trimmed
<1> DEFINE m == Max(some)
<1>8. m \in 1..L /\ line <= m
  <2>1. some \subseteq 0..L /\ line \in some /\ \A i \in some : i \in 1..L BY <1>6, <1>7
  <2> HIDE DEF some
  <2>2. Max(some) \in some /\ \A i \in some : Max(some) >= i BY <1>6, <2>1, MaxOf
  <2> QED BY <2>1, <2>2
<1> HIDE DEF some, m
<1>9. kept \in Seq(Seq(Cells)) /\ Len(kept) = m /\ DOMAIN kept = 1..m
      /\ \A i \in 1..m : kept[i] \in Seq(Cells) /\ Len(kept[i]) \in Nat
  <2>1. kept = SubSeq(trimmed, 1, m) BY DEF m
  <2>2. \A i \in 1..m : trimmed[i] \in Seq(Cells) BY <1>6, <1>8
  <2> HIDE DEF kept
  <2>3. kept \in Seq(Seq(Cells)) /\ Len(kept) = m BY <1>6, <1>8, <2>1, <2>2, SubSeqProperties
  <2> QED BY <2>3, LenProperties, ElementOfSeq
<1> HIDE DEF kept
<1>10. \A i \in 1..m : laid[i] \in Laid(w) /\ Len(laid[i].at) = Len(kept[i])
  BY <1>9, LineLaid
<1> HIDE DEF laid
<1>11. rows \in Seq(Rows(w)) /\ Len(rows) = m /\ \A i \in 1..m : rows[i] \in Rows(w)
  <2>1. \A i \in 1..m : RowsOf(laid[i], w) \in Rows(w) BY <1>10, RowsMade
  <2>2. rows \in [1..m -> Rows(w)] BY <1>9, <2>1
  <2> HIDE DEF rows
  <2> QED BY <1>6, <1>8, <2>2
<1> HIDE DEF rows
<1>12. all \in Rows(w) BY <1>11, Flattened DEF Rows
<1>13. before \in Nat
  <2>1. \A i \in 1..(line - 1) : rows[i] \in Rows(w) BY <1>7, <1>8, <1>11
  <2>2. SubSeq(rows, 1, line - 1) \in Seq(Rows(w)) BY <1>7, <2>1, SubSeqProperties
  <2> DEFINE s == SubSeq(rows, 1, line - 1)
  <2> HIDE DEF s
  <2>3. FlattenSeq(s) \in Rows(w) BY <2>2, Flattened DEF Rows, s
  <2>4. Len(FlattenSeq(s)) \in Nat BY <2>3, LenProperties DEF Rows
  <2> QED BY <2>4 DEF s
<1> HIDE DEF all, before
<1> DEFINE A == Len(all)
<1>14. A \in Nat /\ all \in Seq(Row(w)) /\ \A i \in 1..A : all[i] \in Row(w)
  BY <1>12, LenProperties, ElementOfSeq DEF Rows
<1> HIDE DEF A
<1>15. over \in 0..A /\ A - over <= h /\ SaturatingSub(h, A) = h - (A - over)
  BY <1>14 DEF SaturatingSub, A
<1> HIDE DEF over
<1>16. shown \in Rows(w) /\ Len(shown) = h
  <2> DEFINE s == SubSeq(all, over + 1, A)  b == BlankLines(h - (A - over), w)
  <2>1. \A i \in (over + 1)..A : all[i] \in Row(w) BY <1>14, <1>15
  <2>2. s \in Seq(Row(w)) /\ Len(s) = A - over BY <1>14, <1>15, <2>1, SubSeqProperties
  <2>3. h - (A - over) \in Nat BY <1>14, <1>15
  <2>4. b \in Seq(Row(w)) /\ Len(b) = h - (A - over) BY <2>3, BlankTypes DEF Rows
  <2>5. shown = s \o b BY <1>15 DEF A
  <2> HIDE DEF s, b, shown
  <2>6. s \o b \in Seq(Row(w)) /\ Len(s \o b) = (A - over) + (h - (A - over)) BY <2>2, <2>4
  <2> QED BY <1>14, <1>15, <2>5, <2>6 DEF Rows
<1>17. pushed \in Seq(Seq(Cells))
  <2>1. \A i \in 1..over : all[i].cells \in Seq(Cells) BY <1>14, <1>15 DEF Row, Line
  <2> QED BY <1>15, <2>1
<1>18. at.row \in Nat /\ at.col \in Nat
  <2>1. CASE kept[line] = <<>> BY <1>4, <2>1
  <2>2. CASE kept[line] # <<>>
    <3> DEFINE l == Len(kept[line])  k == AtMost(found, l - 1) + 1
    <3>1. kept[line] \in Seq(Cells) /\ l \in Nat \ {0} BY <1>7, <1>8, <1>9, <2>2
    <3> HIDE DEF l
    <3>2. k \in 1..l BY <1>4, <3>1 DEF AtMost
    <3> HIDE DEF k
    <3>3. laid[line].at \in Seq([row : Nat, col : Nat]) /\ Len(laid[line].at) = l
      <4>1. line \in 1..m BY <1>7, <1>8
      <4>2. laid[line] \in Laid(w) /\ Len(laid[line].at) = l BY <1>10, <4>1 DEF l
      <4> QED BY <4>2 DEF Laid
    <3>4. laid[line].at[k] \in [row : Nat, col : Nat] BY <3>2, <3>3, ElementOfSeq
    <3>5. at = laid[line].at[k] BY <2>2 DEF k, l
    <3> QED BY <3>4, <3>5
  <2> QED BY <2>1, <2>2
<1> HIDE DEF at, shown, pushed
<1> DEFINE grid == [width |-> w, height |-> h, rows |-> shown]
           r == Clamp(SaturatingSub(before + at.row, over), h)
           c == Clamp(at.col, w)
<1>19. grid \in Grids(w, h) BY <1>16 DEF Grids
<1>20. r \in Nat /\ r < h /\ c \in Nat /\ c < w
  <2>1. before + at.row \in Nat /\ over \in Nat BY <1>13, <1>15, <1>18
  <2>2. SaturatingSub(before + at.row, over) \in Nat BY <2>1, Bounds
  <2> DEFINE y == SaturatingSub(before + at.row, over)  x == at.col
  <2>3. y \in Nat /\ x \in Nat BY <1>18, <2>2
  <2> HIDE DEF x, y
  <2>4. Clamp(y, h) \in Nat /\ Clamp(y, h) < h /\ Clamp(x, w) \in Nat /\ Clamp(x, w) < w
    BY <2>3 DEF Clamp, AtMost, SaturatingSub
  <2> QED BY <2>4 DEF x, y
<1> HIDE DEF grid, r, c
<1>21. Relaid(g, w, h, row, col) = [grid |-> grid, row |-> r, col |-> c, pushed |-> pushed]
  BY DEF Relaid, grid, r, c, pushed, shown, at, before, over, all, rows, laid, kept, some, trimmed,
         lines, line, found, head, absRow, abs
<1> QED BY <1>17, <1>19, <1>20, <1>21

(* A resize without reflow.                                                 *)
LEMMA GridResized ==
  ASSUME NEW w0 \in Nat, NEW h0 \in Nat, NEW g \in Grids(w0, h0), NEW w \in Nat, NEW h \in Nat
  PROVE  ResizeGrid(g, w, h) \in Grids(w, h)
<1> DEFINE Kept(r, c) == IF r <= g.height /\ c <= g.width THEN g.rows[r].cells[c] ELSE Blank
           row(r) == [cells |-> [c \in 1..w |-> Kept(r, c)], wrapped |-> FALSE]
           rows == [r \in 1..h |-> row(r)]
<1>1. g.width = w0 /\ g.height = h0 BY GridParts
<1>2. CASE w = w0 /\ h = h0 BY <1>1, <1>2 DEF ResizeGrid
<1>3. CASE ~(w = w0 /\ h = h0)
  <2>1. \A r \in 1..h : \A c \in 1..w : Kept(r, c) \in Cells BY <1>1, GridParts, BlankTypes
  <2> HIDE DEF Kept
  <2>2. ASSUME NEW r \in 1..h PROVE row(r) \in Row(w)
    <3> DEFINE cells == [c \in 1..w |-> Kept(r, c)]
    <3>1. cells \in [1..w -> Cells] BY <2>1
    <3> HIDE DEF cells
    <3>2. cells \in Line(w) BY <3>1 DEF Line
    <3> QED BY <3>2 DEF Row, cells
  <2>3. ResizeGrid(g, w, h) = [width |-> w, height |-> h, rows |-> rows]
    BY <1>1, <1>3 DEF ResizeGrid, Kept
  <2> HIDE DEF row
  <2>4. rows \in [1..h -> Row(w)] BY <2>2
  <2> HIDE DEF rows
  <2>5. rows \in Rows(w) /\ Len(rows) = h BY <2>4 DEF Rows
  <2> QED BY <2>3, <2>5 DEF Grids
<1> QED BY <1>2, <1>3

(* A reflow gives a grid of the new size, rows for the scrollback, and the  *)
(* cursor's place: on the new screen when the cursor was on the old one.    *)
Reflowed(new, row, col, w0, h0, w, h) ==
  /\ new.grid \in Grids(w, h) /\ new.pushed \in Seq(Seq(Cells))
  /\ new.row \in Nat /\ new.col \in Nat
  /\ w0 = 0 \/ h0 = 0 \/ col < w0 => w = 0 \/ h = 0 \/ new.col < w
  /\ w0 = 0 \/ h0 = 0 \/ row < h0 => w = 0 \/ h = 0 \/ new.row < h

LEMMA GridReflowed ==
  ASSUME NEW w0 \in Nat, NEW h0 \in Nat, NEW g \in Grids(w0, h0), NEW w \in Nat, NEW h \in Nat,
         NEW row \in Nat, NEW col \in Nat
  PROVE  Reflowed(Reflow(g, w, h, row, col), row, col, w0, h0, w, h)
<1> DEFINE new == Reflow(g, w, h, row, col)
<1>0. new = Reflow(g, w, h, row, col) OBVIOUS
<1> HIDE DEF new
<1>1. g.width = w0 /\ g.height = h0 BY GridParts
<1>2. <<>> \in Seq(Seq(Cells)) OBVIOUS
<1>3. ASSUME w # 0 /\ h # 0 /\ w = w0 /\ h = h0 PROVE Reflowed(new, row, col, w0, h0, w, h)
  <2>1. new = [grid |-> g, row |-> row, col |-> col, pushed |-> <<>>] BY <1>0, <1>1, <1>3 DEF Reflow, IsEmpty
  <2>2. new.grid = g /\ new.row = row /\ new.col = col /\ new.pushed = <<>> BY <2>1
  <2>3. g \in Grids(w, h) BY <1>3
  <2> QED BY <1>2, <1>3, <2>2, <2>3 DEF Reflowed
<1>4. ASSUME w = 0 \/ h = 0 \/ w0 = 0 \/ h0 = 0 PROVE Reflowed(new, row, col, w0, h0, w, h)
  <2>1. new = [grid |-> ResizeGrid(g, w, h), row |-> 0, col |-> 0, pushed |-> <<>>]
    BY <1>0, <1>1, <1>4 DEF Reflow, IsEmpty
  <2> QED BY <1>2, <1>4, <2>1, GridResized DEF Reflowed
<1>5. ASSUME w # 0 /\ h # 0 /\ w0 # 0 /\ h0 # 0 /\ ~(w = w0 /\ h = h0) PROVE Reflowed(new, row, col, w0, h0, w, h)
  <2>1. new = Relaid(g, w, h, row, col) BY <1>0, <1>1, <1>5 DEF Reflow, IsEmpty
  <2>2. /\ Relaid(g, w, h, row, col).grid \in Grids(w, h)
        /\ Relaid(g, w, h, row, col).pushed \in Seq(Seq(Cells))
        /\ Relaid(g, w, h, row, col).row \in Nat /\ Relaid(g, w, h, row, col).row < h
        /\ Relaid(g, w, h, row, col).col \in Nat /\ Relaid(g, w, h, row, col).col < w
    BY <1>5, GridRelaid
  <2> QED BY <2>1, <2>2 DEF Reflowed
<1>6. Reflowed(new, row, col, w0, h0, w, h) BY <1>3, <1>4, <1>5
<1> QED BY <1>6 DEF new

-----------------------------------------------------------------------------
(* Terminals.                                                               *)

(* A terminal is the record of its fields, and so is a cursor: what EXCEPT  *)
(* changes in one is then seen field by field.                              *)
LEMMA TerminalRecord ==
  ASSUME NEW w \in Nat, NEW h \in Nat, NEW t \in Terminals(w, h)
  PROVE  t = [grid |-> t.grid, cursor |-> t.cursor, scrollback |-> t.scrollback, saved |-> t.saved,
              region |-> t.region, origin |-> t.origin, autoWrap |-> t.autoWrap, tabs |-> t.tabs,
              last |-> t.last, alternate |-> t.alternate]
<1>1. t \in Fields(w, h) BY DEF Terminals
<1> QED BY <1>1 DEF Fields

LEMMA CursorRecord ==
  ASSUME NEW c \in Cursors
  PROVE  c = [row |-> c.row, col |-> c.col, pending |-> c.pending]
BY DEF Cursors

(* The types of the fields.                                                 *)
LEMMA TerminalParts ==
  ASSUME NEW w \in Nat, NEW h \in Nat, NEW t \in Terminals(w, h)
  PROVE  /\ t.grid \in Grids(w, h) /\ t.grid.width = w /\ t.grid.height = h
         /\ t.cursor \in Cursors /\ OnColumns(t.cursor, w, h)
         /\ t.cursor.row \in Nat /\ t.cursor.col \in Nat /\ t.cursor.pending \in BOOLEAN
         /\ t.scrollback \in Scrollbacks /\ (t.alternate # None => t.scrollback.cap = 0)
         /\ t.saved \in SavedCursors /\ t.region \in MarginPairs /\ t.origin \in BOOLEAN
         /\ t.autoWrap \in BOOLEAN /\ t.tabs \in Seq(BOOLEAN) /\ Len(t.tabs) = w
         /\ t.last \in Narrow \cup Wide \cup {None} /\ t.alternate \in Asides(w, h) \cup {None}
         /\ IsEmpty(t.grid) <=> w = 0 \/ h = 0
<1>1. t \in Fields(w, h) /\ OnColumns(t.cursor, w, h) /\ (t.alternate # None => t.scrollback.cap = 0)
  BY DEF Terminals
<1>2. /\ t.grid \in Grids(w, h) /\ t.cursor \in Cursors /\ t.scrollback \in Scrollbacks
      /\ t.saved \in SavedCursors /\ t.region \in MarginPairs /\ t.origin \in BOOLEAN
      /\ t.autoWrap \in BOOLEAN /\ t.tabs \in {s \in Seq(BOOLEAN) : Len(s) = w}
      /\ t.last \in Narrow \cup Wide \cup {None} /\ t.alternate \in Asides(w, h) \cup {None}
  BY <1>1 DEF Fields
<1>3. t.grid.width = w /\ t.grid.height = h BY <1>2, GridParts
<1>4. t.cursor.row \in Nat /\ t.cursor.col \in Nat /\ t.cursor.pending \in BOOLEAN
  BY <1>2 DEF Cursors
<1>5. IsEmpty(t.grid) <=> w = 0 \/ h = 0 BY <1>3 DEF IsEmpty
<1> QED BY <1>1, <1>2, <1>3, <1>4, <1>5

(* A terminal is a record of its ten fields; a record of fields of the      *)
(* right types is one.                                                      *)
Whole(u) ==
  u = [grid |-> u.grid, cursor |-> u.cursor, scrollback |-> u.scrollback, saved |-> u.saved,
       region |-> u.region, origin |-> u.origin, autoWrap |-> u.autoWrap, tabs |-> u.tabs,
       last |-> u.last, alternate |-> u.alternate]

(* Fields of their types make a terminal.                                   *)
LEMMA TerminalMade ==
  ASSUME NEW w \in Nat, NEW h \in Nat, NEW u, Whole(u),
         u.grid \in Grids(w, h), u.cursor \in Cursors, OnColumns(u.cursor, w, h),
         u.scrollback \in Scrollbacks, u.saved \in SavedCursors, u.region \in MarginPairs,
         u.origin \in BOOLEAN, u.autoWrap \in BOOLEAN, u.tabs \in Seq(BOOLEAN), Len(u.tabs) = w,
         u.last \in Narrow \cup Wide \cup {None}, u.alternate \in Asides(w, h) \cup {None},
         u.alternate # None => u.scrollback.cap = 0
  PROVE  u \in Terminals(w, h)
<1> DEFINE g == u.grid  c == u.cursor  b == u.scrollback  s == u.saved  r == u.region  o == u.origin
           a == u.autoWrap  k == u.tabs  l == u.last  e == u.alternate
           v == [grid |-> g, cursor |-> c, scrollback |-> b, saved |-> s, region |-> r, origin |-> o,
                 autoWrap |-> a, tabs |-> k, last |-> l, alternate |-> e]
<1>1. u = v BY DEF Whole
<1>2. /\ g \in Grids(w, h) /\ c \in Cursors /\ b \in Scrollbacks /\ s \in SavedCursors
      /\ r \in MarginPairs /\ o \in BOOLEAN /\ a \in BOOLEAN /\ k \in {x \in Seq(BOOLEAN) : Len(x) = w}
      /\ l \in Narrow \cup Wide \cup {None} /\ e \in Asides(w, h) \cup {None}
  OBVIOUS
<1> HIDE DEF g, c, b, s, r, o, a, k, l, e
<1>3. v \in Fields(w, h) BY <1>2 DEF Fields
<1> HIDE DEF v
<1>4. u \in Fields(w, h) BY <1>1, <1>3
<1> QED BY <1>4 DEF Terminals

(* The record of these ten fields, its fields, and what EXCEPT makes of it. *)
Made(u, g, c, b, s, r, o, a, k, l, e) ==
  u = [grid |-> g, cursor |-> c, scrollback |-> b, saved |-> s, region |-> r, origin |-> o,
       autoWrap |-> a, tabs |-> k, last |-> l, alternate |-> e]

(* The fields of a record that is made of these.                            *)
LEMMA MadeParts ==
  ASSUME NEW u, NEW g, NEW c, NEW b, NEW s, NEW r, NEW o, NEW a, NEW k, NEW l, NEW e,
         Made(u, g, c, b, s, r, o, a, k, l, e)
  PROVE  /\ Whole(u)
         /\ u.grid = g /\ u.cursor = c /\ u.scrollback = b /\ u.saved = s /\ u.region = r
         /\ u.origin = o /\ u.autoWrap = a /\ u.tabs = k /\ u.last = l /\ u.alternate = e
<1>1. /\ u.grid = g /\ u.cursor = c /\ u.scrollback = b /\ u.saved = s /\ u.region = r
      /\ u.origin = o /\ u.autoWrap = a /\ u.tabs = k /\ u.last = l /\ u.alternate = e
  BY DEF Made
<1> QED BY <1>1 DEF Made, Whole

(* A field set, and the others as they were.                                *)
LEMMA MadeSet ==
  ASSUME NEW t, NEW g, NEW c, NEW b, NEW s, NEW r, NEW o, NEW a, NEW k, NEW l, NEW e,
         Made(t, g, c, b, s, r, o, a, k, l, e), NEW x
  PROVE  /\ Made([t EXCEPT !.grid = x], x, c, b, s, r, o, a, k, l, e)
         /\ Made([t EXCEPT !.cursor = x], g, x, b, s, r, o, a, k, l, e)
         /\ Made([t EXCEPT !.scrollback = x], g, c, x, s, r, o, a, k, l, e)
         /\ Made([t EXCEPT !.saved = x], g, c, b, x, r, o, a, k, l, e)
         /\ Made([t EXCEPT !.region = x], g, c, b, s, x, o, a, k, l, e)
         /\ Made([t EXCEPT !.origin = x], g, c, b, s, r, x, a, k, l, e)
         /\ Made([t EXCEPT !.autoWrap = x], g, c, b, s, r, o, x, k, l, e)
         /\ Made([t EXCEPT !.tabs = x], g, c, b, s, r, o, a, x, l, e)
         /\ Made([t EXCEPT !.last = x], g, c, b, s, r, o, a, k, x, e)
         /\ Made([t EXCEPT !.alternate = x], g, c, b, s, r, o, a, k, l, x)
         /\ Made([t EXCEPT !.cursor.row = x], g, [c EXCEPT !.row = x], b, s, r, o, a, k, l, e)
         /\ Made([t EXCEPT !.cursor.col = x], g, [c EXCEPT !.col = x], b, s, r, o, a, k, l, e)
         /\ Made([t EXCEPT !.cursor.pending = x], g, [c EXCEPT !.pending = x], b, s, r, o, a, k, l, e)
         /\ Made([t EXCEPT !.scrollback.lines = x], g, c, [b EXCEPT !.lines = x], s, r, o, a, k, l, e)
<1>1. Made([t EXCEPT !.grid = x], x, c, b, s, r, o, a, k, l, e) BY DEF Made
<1>2. Made([t EXCEPT !.cursor = x], g, x, b, s, r, o, a, k, l, e) BY DEF Made
<1>3. Made([t EXCEPT !.scrollback = x], g, c, x, s, r, o, a, k, l, e) BY DEF Made
<1>4. Made([t EXCEPT !.saved = x], g, c, b, x, r, o, a, k, l, e) BY DEF Made
<1>5. Made([t EXCEPT !.region = x], g, c, b, s, x, o, a, k, l, e) BY DEF Made
<1>6. Made([t EXCEPT !.origin = x], g, c, b, s, r, x, a, k, l, e) BY DEF Made
<1>7. Made([t EXCEPT !.autoWrap = x], g, c, b, s, r, o, x, k, l, e) BY DEF Made
<1>8. Made([t EXCEPT !.tabs = x], g, c, b, s, r, o, a, x, l, e) BY DEF Made
<1>9. Made([t EXCEPT !.last = x], g, c, b, s, r, o, a, k, x, e) BY DEF Made
<1>10. Made([t EXCEPT !.alternate = x], g, c, b, s, r, o, a, k, l, x) BY DEF Made
<1>11. Made([t EXCEPT !.cursor.row = x], g, [c EXCEPT !.row = x], b, s, r, o, a, k, l, e) BY DEF Made
<1>12. Made([t EXCEPT !.cursor.col = x], g, [c EXCEPT !.col = x], b, s, r, o, a, k, l, e) BY DEF Made
<1>13. Made([t EXCEPT !.cursor.pending = x], g, [c EXCEPT !.pending = x], b, s, r, o, a, k, l, e) BY DEF Made
<1>14. Made([t EXCEPT !.scrollback.lines = x], g, c, [b EXCEPT !.lines = x], s, r, o, a, k, l, e) BY DEF Made
<1> QED BY <1>1, <1>2, <1>3, <1>4, <1>5, <1>6, <1>7, <1>8, <1>9, <1>10, <1>11, <1>12, <1>13, <1>14

(* A terminal is made of its own fields.                                    *)
LEMMA MadeOf ==
  ASSUME NEW w \in Nat, NEW h \in Nat, NEW t \in Terminals(w, h)
  PROVE  Made(t, t.grid, t.cursor, t.scrollback, t.saved, t.region, t.origin, t.autoWrap, t.tabs, t.last, t.alternate)
BY TerminalRecord DEF Made

(* A part of a cursor set.                                                  *)
LEMMA CursorParts ==
  ASSUME NEW c \in Cursors, NEW x
  PROVE  /\ [c EXCEPT !.row = x] = [row |-> x, col |-> c.col, pending |-> c.pending]
         /\ [c EXCEPT !.col = x] = [row |-> c.row, col |-> x, pending |-> c.pending]
         /\ [c EXCEPT !.pending = x] = [row |-> c.row, col |-> c.col, pending |-> x]
BY DEF Cursors

(* From t to u only these four parts change, to these values.               *)
Edited(t, u, g, c, b, l) ==
  /\ Whole(u)
  /\ u.grid = g /\ u.cursor = c /\ u.scrollback = b /\ u.last = l
  /\ u.saved = t.saved /\ u.region = t.region /\ u.origin = t.origin /\ u.autoWrap = t.autoWrap
  /\ u.tabs = t.tabs /\ u.alternate = t.alternate

(* What is set of grid, cursor, scrollback and last character, alone or     *)
(* together.                                                                *)
LEMMA PartsSet ==
  ASSUME NEW w \in Nat, NEW h \in Nat, NEW t \in Terminals(w, h), NEW g, NEW c, NEW b, NEW l
  PROVE  /\ Edited(t, t, t.grid, t.cursor, t.scrollback, t.last)
         /\ Edited(t, [t EXCEPT !.grid = g], g, t.cursor, t.scrollback, t.last)
         /\ Edited(t, [t EXCEPT !.cursor = c], t.grid, c, t.scrollback, t.last)
         /\ Edited(t, [t EXCEPT !.scrollback = b], t.grid, t.cursor, b, t.last)
         /\ Edited(t, [t EXCEPT !.cursor = c, !.grid = g], g, c, t.scrollback, t.last)
         /\ Edited(t, [t EXCEPT !.scrollback = b, !.grid = g], g, t.cursor, b, t.last)
         /\ Edited(t, [t EXCEPT !.grid = g, !.last = l], g, t.cursor, t.scrollback, l)
<1> DEFINE Of(u, x, y, z, n) ==
             Made(u, x, y, z, t.saved, t.region, t.origin, t.autoWrap, t.tabs, n, t.alternate)
           d == [t EXCEPT !.cursor = c]
           p == [t EXCEPT !.scrollback = b]
           q == [t EXCEPT !.grid = g]
<1>1. Of(t, t.grid, t.cursor, t.scrollback, t.last) BY MadeOf
<1>2. \A u, x, y, z, n : Of(u, x, y, z, n) => Edited(t, u, x, y, z, n)
  BY MadeParts DEF Edited
<1>3. Of(d, t.grid, c, t.scrollback, t.last) BY <1>1, MadeSet
<1>4. Of(p, t.grid, t.cursor, b, t.last) BY <1>1, MadeSet
<1>5. Of(q, g, t.cursor, t.scrollback, t.last) BY <1>1, MadeSet
<1> HIDE DEF d, p, q
<1>6. Of([d EXCEPT !.grid = g], g, c, t.scrollback, t.last) BY <1>3, MadeSet
<1>7. Of([p EXCEPT !.grid = g], g, t.cursor, b, t.last) BY <1>4, MadeSet
<1>8. Of([q EXCEPT !.last = l], g, t.cursor, t.scrollback, l) BY <1>5, MadeSet
<1> HIDE DEF Of
<1>9. /\ Edited(t, [d EXCEPT !.grid = g], g, c, t.scrollback, t.last)
      /\ Edited(t, [p EXCEPT !.grid = g], g, t.cursor, b, t.last)
      /\ Edited(t, [q EXCEPT !.last = l], g, t.cursor, t.scrollback, l)
      /\ Edited(t, d, t.grid, c, t.scrollback, t.last)
      /\ Edited(t, p, t.grid, t.cursor, b, t.last)
      /\ Edited(t, q, g, t.cursor, t.scrollback, t.last)
      /\ Edited(t, t, t.grid, t.cursor, t.scrollback, t.last)
  BY <1>1, <1>2, <1>3, <1>4, <1>5, <1>6, <1>7, <1>8
<1> QED BY <1>9, Zenon DEF d, p, q

(* A terminal so edited with values of their types is a terminal.           *)
LEMMA TerminalEdited ==
  ASSUME NEW w \in Nat, NEW h \in Nat, NEW t \in Terminals(w, h),
         NEW g \in Grids(w, h), NEW c \in Cursors, OnColumns(c, w, h),
         NEW b \in Scrollbacks, b.cap = t.scrollback.cap, NEW l \in Narrow \cup Wide \cup {None},
         NEW u, Edited(t, u, g, c, b, l)
  PROVE  u \in Terminals(w, h)
<1>1. /\ t.saved \in SavedCursors /\ t.region \in MarginPairs
      /\ t.origin \in BOOLEAN /\ t.autoWrap \in BOOLEAN /\ t.tabs \in Seq(BOOLEAN) /\ Len(t.tabs) = w
      /\ t.alternate \in Asides(w, h) \cup {None} /\ (t.alternate # None => t.scrollback.cap = 0)
  BY TerminalParts
<1>2. Whole(u) BY DEF Edited
<1>3. /\ u.saved \in SavedCursors /\ u.region \in MarginPairs
      /\ u.origin \in BOOLEAN /\ u.autoWrap \in BOOLEAN /\ u.tabs \in Seq(BOOLEAN) /\ Len(u.tabs) = w
      /\ u.alternate \in Asides(w, h) \cup {None} /\ (u.alternate # None => u.scrollback.cap = 0)
      /\ u.grid \in Grids(w, h) /\ u.cursor \in Cursors /\ OnColumns(u.cursor, w, h)
      /\ u.scrollback \in Scrollbacks /\ u.last \in Narrow \cup Wide \cup {None}
  BY <1>1 DEF Edited
<1> QED BY <1>2, <1>3, TerminalMade

(* What most steps keep: the parts they do not edit, and, while the margins *)
(* are on the screen, a cursor row on the screen.                           *)
SameRest(t, u) ==
  /\ u.saved = t.saved /\ u.region = t.region /\ u.origin = t.origin /\ u.autoWrap = t.autoWrap
  /\ u.tabs = t.tabs /\ u.alternate = t.alternate
Steady(t, u, w, h) ==
  /\ u \in Terminals(w, h) /\ SameRest(t, u)
  /\ w = 0 \/ h = 0 \/ RegionStale(t) \/ (t.cursor.row < h => u.cursor.row < h)

(* What scrolls and prints keep: the rows out of the margins, but one, and  *)
(* wide characters whole.                                                   *)
Shielded(t, u, but, h) ==
  \/ RegionStale(t)
  \/ \A r \in 1..h : \/ ScrollTop(t) < r /\ r <= ScrollBottom(t) + 1
                     \/ r \in but
                     \/ u.grid.rows[r].cells = t.grid.rows[r].cells
Guarded(t, u, but, h) == Shielded(t, u, but, h) /\ (Paired(t.grid) => Paired(u.grid))

(* The margins of a terminal.                                               *)
LEMMA MarginsOf ==
  ASSUME NEW w \in Nat, NEW h \in Nat, NEW t \in Terminals(w, h)
  PROVE  /\ ScrollTop(t) \in Nat /\ ScrollBottom(t) \in Nat /\ ScrollTop(t) <= ScrollBottom(t)
         /\ RegionStale(t) \/ h = 0 \/ ScrollBottom(t) < h
         /\ RegionStale(t) <=> t.region # None /\ t.region[2] >= h
<1>1. t.grid.height = h /\ t.region \in MarginPairs BY TerminalParts
<1>2. t.region = None \/ (t.region[1] \in Nat /\ t.region[2] \in Nat /\ t.region[1] <= t.region[2])
  BY <1>1 DEF MarginPairs
<1> QED BY <1>1, <1>2 DEF ScrollTop, ScrollBottom, RegionStale, SaturatingSub

(* Both relations compose, and hold from a terminal to itself.              *)
LEMMA Composed ==
  ASSUME NEW w \in Nat, NEW h \in Nat, NEW t \in Terminals(w, h)
  PROVE  /\ Steady(t, t, w, h) /\ \A but : Guarded(t, t, but, h)
         /\ \A u, v : Steady(t, u, w, h) /\ Steady(u, v, w, h) => Steady(t, v, w, h)
         /\ \A u, v, but : Steady(t, u, w, h) /\ Guarded(t, u, but, h) /\ Guarded(u, v, but, h)
                           => Guarded(t, v, but, h)
         /\ \A u, v, but : Steady(t, u, w, h) /\ Shielded(t, u, but, h) /\ Shielded(u, v, but, h)
                           => Shielded(t, v, but, h)
<1>1. \A u : Steady(t, u, w, h) => /\ RegionStale(u) <=> RegionStale(t)
                                   /\ ScrollTop(u) = ScrollTop(t) /\ ScrollBottom(u) = ScrollBottom(t)
  <2> SUFFICES ASSUME NEW u, Steady(t, u, w, h)
               PROVE  /\ RegionStale(u) <=> RegionStale(t)
                      /\ ScrollTop(u) = ScrollTop(t) /\ ScrollBottom(u) = ScrollBottom(t)
    OBVIOUS
  <2>1. u \in Terminals(w, h) /\ u.region = t.region BY DEF Steady, SameRest
  <2>2. u.grid.height = h /\ t.grid.height = h BY <2>1, TerminalParts
  <2> QED BY <2>1, <2>2 DEF RegionStale, ScrollTop, ScrollBottom
<1>2. Steady(t, t, w, h) /\ \A but : Guarded(t, t, but, h) BY DEF Steady, SameRest, Guarded, Shielded
<1>3. ASSUME NEW u, NEW v, Steady(t, u, w, h), Steady(u, v, w, h) PROVE Steady(t, v, w, h)
  BY <1>1, <1>3 DEF Steady, SameRest
<1>4. ASSUME NEW u, NEW v, NEW but, Steady(t, u, w, h), Guarded(t, u, but, h), Guarded(u, v, but, h)
      PROVE  Guarded(t, v, but, h)
  BY <1>1, <1>4 DEF Guarded, Shielded
<1>5. ASSUME NEW u, NEW v, NEW but, Steady(t, u, w, h), Shielded(t, u, but, h), Shielded(u, v, but, h)
      PROVE  Shielded(t, v, but, h)
  BY <1>1, <1>5 DEF Shielded
<1> QED BY <1>2, <1>3, <1>4, <1>5

(* An edit of the grid.                                                     *)
LEMMA GridSet ==
  ASSUME NEW w \in Nat, NEW h \in Nat, NEW t \in Terminals(w, h), NEW g \in Grids(w, h)
  PROVE  Steady(t, [t EXCEPT !.grid = g], w, h) /\ [t EXCEPT !.grid = g].grid = g
         /\ [t EXCEPT !.grid = g].cursor = t.cursor
<1> DEFINE u == [t EXCEPT !.grid = g]
<1>1. /\ t.cursor \in Cursors /\ OnColumns(t.cursor, w, h) /\ t.scrollback \in Scrollbacks
      /\ t.last \in Narrow \cup Wide \cup {None}
  BY TerminalParts
<1>2. Edited(t, u, g, t.cursor, t.scrollback, t.last) BY PartsSet
<1> HIDE DEF u
<1>3. u \in Terminals(w, h) BY <1>1, <1>2, TerminalEdited
<1>4. Steady(t, u, w, h) BY <1>2, <1>3 DEF Steady, SameRest, Edited
<1> QED BY <1>2, <1>4 DEF Edited, u

(* Scrolls leave the cursor, and touch only what is between the margins.    *)
LEMMA LinesPushed ==
  ASSUME NEW w \in Nat, NEW h \in Nat, NEW t \in Terminals(w, h), NEW n \in Nat,
         ScrollTop(t) = 0, ScrollBottom(t) = SaturatingSub(t.grid.height, 1)
  PROVE  /\ Steady(t, PushScrolledLines(t, n), w, h)
         /\ \A but : Guarded(t, PushScrolledLines(t, n), but, h)
         /\ PushScrolledLines(t, n).cursor = t.cursor
<1>1. /\ t.grid \in Grids(w, h) /\ t.grid.width = w /\ t.grid.height = h
      /\ t.cursor \in Cursors /\ OnColumns(t.cursor, w, h) /\ t.scrollback \in Scrollbacks
      /\ t.last \in Narrow \cup Wide \cup {None}
  BY TerminalParts
<1>2. CASE IsEmpty(t.grid) BY <1>2, Composed DEF PushScrolledLines, OnGrid
<1>3. CASE ~IsEmpty(t.grid)
  <2> DEFINE lines == AtMost(n, t.grid.height)
             top == SubSeq(t.grid.rows, 1, lines)
             rows == [i \in DOMAIN top |-> top[i].cells]
             b == PushRows(t.scrollback, rows)
             g == ScrollUp(t.grid, lines)
             p == [t EXCEPT !.scrollback = b]
             u == PushScrolledLines(t, n)
  <2>1. lines \in 0..h BY <1>1 DEF AtMost
  <2>2. rows \in Seq(Seq(Cells))
    <3>1. t.grid.rows \in Rows(w) /\ Len(t.grid.rows) = h BY <1>1, GridParts
    <3> HIDE DEF lines
    <3>2. top \in Seq(Row(w)) /\ Len(top) = lines
      BY <2>1, <3>1 DEF Rows
    <3> HIDE DEF top
    <3>3. DOMAIN top = 1..lines /\ \A i \in 1..lines : top[i] \in Row(w) BY <2>1, <3>2
    <3>4. \A i \in 1..lines : top[i].cells \in Seq(Cells) BY <3>3 DEF Row, Line
    <3> QED BY <2>1, <3>3, <3>4
  <2> HIDE DEF rows
  <2>3. b \in Scrollbacks /\ b.cap = t.scrollback.cap BY <1>1, <2>2, RowsPushed
  <2>4. ScrolledGrid(t.grid, g, Clamp(0, h), Clamp(SaturatingSub(h, 1), h), w, h)
    <3>1. lines \in Nat /\ SaturatingSub(h, 1) \in Nat BY <2>1 DEF SaturatingSub
    <3> DEFINE m == SaturatingSub(h, 1)
    <3> HIDE DEF lines, m
    <3>2. lines \in Nat /\ m \in Nat /\ 0 \in Nat BY <3>1 DEF m
    <3>3. ScrolledGrid(t.grid, ScrollUpRegion(t.grid, lines, 0, m), Clamp(0, h), Clamp(m, h), w, h)
      BY <1>1, <3>2, RegionScrolled
    <3>4. ScrollUp(t.grid, lines) = ScrollUpRegion(t.grid, lines, 0, m) BY <1>1 DEF ScrollUp, m
    <3> QED BY <3>3, <3>4 DEF m
  <2> HIDE DEF b, g
  <2>5. u = [t EXCEPT !.scrollback = b, !.grid = g]
    BY <1>3, Zenon DEF PushScrolledLines, OnGrid, b, g, rows, lines, top
  <2>6. Edited(t, u, g, t.cursor, b, t.last)
    <3>1. Edited(t, [t EXCEPT !.scrollback = b, !.grid = g], g, t.cursor, b, t.last) BY PartsSet
    <3> QED BY <2>5, <3>1, Zenon
  <2> HIDE DEF u
  <2>7. u \in Terminals(w, h) BY <1>1, <2>3, <2>4, <2>6, TerminalEdited DEF ScrolledGrid
  <2>8. Steady(t, u, w, h) /\ u.cursor = t.cursor BY <2>6, <2>7 DEF Steady, SameRest, Edited
  <2>9. \A but : Guarded(t, u, but, h)
    <3>1. \A r \in 1..h : ScrollTop(t) < r /\ r <= ScrollBottom(t) + 1
      BY <1>1 DEF SaturatingSub
    <3>2. u.grid = g /\ (Paired(t.grid) => Paired(g)) BY <2>4, <2>6 DEF Edited, ScrolledGrid
    <3> QED BY <3>1, <3>2 DEF Guarded, Shielded
  <2> QED BY <2>8, <2>9 DEF u
<1> QED BY <1>2, <1>3

(* Scrolling, by the margins or into the scrollback, moves rows between the *)
(* margins only.                                                            *)
LEMMA ScreenScrolled ==
  ASSUME NEW w \in Nat, NEW h \in Nat, NEW t \in Terminals(w, h), NEW n \in Nat
  PROVE  /\ Steady(t, ApplyScrollUp(t, n), w, h) /\ \A but : Guarded(t, ApplyScrollUp(t, n), but, h)
         /\ ApplyScrollUp(t, n).cursor = t.cursor
         /\ Steady(t, ApplyScrollDown(t, n), w, h)
         /\ \A but : Guarded(t, ApplyScrollDown(t, n), but, h)
         /\ ApplyScrollDown(t, n).cursor = t.cursor
<1> DEFINE top == ScrollTop(t)  bottom == ScrollBottom(t)
           g1 == ScrollUpRegion(t.grid, n, top, bottom)
           g2 == ScrollDownRegion(t.grid, n, top, bottom)
<1>1. t.grid \in Grids(w, h) BY TerminalParts
<1>2. /\ top \in Nat /\ bottom \in Nat /\ top <= bottom
      /\ RegionStale(t) \/ h = 0 \/ bottom < h
  BY MarginsOf
<1>3. /\ ScrolledGrid(t.grid, g1, Clamp(top, h), Clamp(bottom, h), w, h)
      /\ ScrolledGrid(t.grid, g2, Clamp(top, h), Clamp(bottom, h), w, h)
  <2> HIDE DEF top, bottom
  <2> QED BY <1>1, <1>2, RegionScrolled
<1>4. ASSUME NEW g, ScrolledGrid(t.grid, g, Clamp(top, h), Clamp(bottom, h), w, h)
      PROVE  /\ Steady(t, [t EXCEPT !.grid = g], w, h)
             /\ \A but : Guarded(t, [t EXCEPT !.grid = g], but, h)
             /\ [t EXCEPT !.grid = g].cursor = t.cursor
  <2> DEFINE u == [t EXCEPT !.grid = g]
  <2>1. Steady(t, u, w, h) /\ u.grid = g /\ u.cursor = t.cursor
    BY <1>4, GridSet DEF ScrolledGrid
  <2> HIDE DEF u
  <2>2. /\ \A r \in 1..h : r <= Clamp(top, h) \/ r > Clamp(bottom, h) + 1 => g.rows[r] = t.grid.rows[r]
        /\ Paired(t.grid) => Paired(g)
    BY <1>4 DEF ScrolledGrid
  <2>3. RegionStale(t) \/ h = 0 \/ (Clamp(top, h) = top /\ Clamp(bottom, h) = bottom)
    <3> HIDE DEF top, bottom
    <3> QED BY <1>2 DEF Clamp, AtMost, SaturatingSub
  <2>4. \A r \in 1..h : RegionStale(t) \/ (top < r /\ r <= bottom + 1) \/ g.rows[r] = t.grid.rows[r]
    <3> HIDE DEF top, bottom
    <3> QED BY <1>2, <2>2, <2>3
  <2>5. \A but : Guarded(t, u, but, h) BY <2>1, <2>2, <2>4 DEF Guarded, Shielded
  <2> QED BY <2>1, <2>5 DEF u
<1>5. /\ Steady(t, ApplyScrollDown(t, n), w, h)
      /\ \A but : Guarded(t, ApplyScrollDown(t, n), but, h)
      /\ ApplyScrollDown(t, n).cursor = t.cursor
  <2>1. ApplyScrollDown(t, n) = [t EXCEPT !.grid = g2] BY DEF ApplyScrollDown
  <2> HIDE DEF g2
  <2> QED BY <1>3, <1>4, <2>1
<1>6. CASE top = 0 /\ bottom = SaturatingSub(t.grid.height, 1)
  <2>1. ApplyScrollUp(t, n) = PushScrolledLines(t, n) BY <1>6 DEF ApplyScrollUp
  <2> QED BY <1>5, <1>6, <2>1, LinesPushed
<1>7. CASE ~(top = 0 /\ bottom = SaturatingSub(t.grid.height, 1))
  <2>1. ApplyScrollUp(t, n) = [t EXCEPT !.grid = g1] BY <1>7 DEF ApplyScrollUp
  <2> HIDE DEF g1
  <2> QED BY <1>3, <1>4, <1>5, <2>1
<1> QED BY <1>6, <1>7

(* Steps that only move the cursor.                                         *)
Moved(t, u, row, col, p, w, h) ==
  /\ Steady(t, u, w, h) /\ \A but : Guarded(t, u, but, h)
  /\ u.grid = t.grid /\ u.cursor.row = row /\ u.cursor.col = col /\ u.cursor.pending = p
  /\ u.scrollback = t.scrollback /\ u.last = t.last

(* A part of the cursor set in a terminal.                                  *)
LEMMA CursorPartSet ==
  ASSUME NEW w \in Nat, NEW h \in Nat, NEW t \in Terminals(w, h), NEW x
  PROVE  /\ Edited(t, [t EXCEPT !.cursor.row = x], t.grid,
                   [row |-> x, col |-> t.cursor.col, pending |-> t.cursor.pending], t.scrollback, t.last)
         /\ Edited(t, [t EXCEPT !.cursor.col = x], t.grid,
                   [row |-> t.cursor.row, col |-> x, pending |-> t.cursor.pending], t.scrollback, t.last)
         /\ Edited(t, [t EXCEPT !.cursor.pending = x], t.grid,
                   [row |-> t.cursor.row, col |-> t.cursor.col, pending |-> x], t.scrollback, t.last)
<1> DEFINE Of(u, c) == Made(u, t.grid, c, t.scrollback, t.saved, t.region, t.origin, t.autoWrap,
                            t.tabs, t.last, t.alternate)
           As(u, c) == Edited(t, u, t.grid, c, t.scrollback, t.last)
           cr == [row |-> x, col |-> t.cursor.col, pending |-> t.cursor.pending]
           cc == [row |-> t.cursor.row, col |-> x, pending |-> t.cursor.pending]
           cp == [row |-> t.cursor.row, col |-> t.cursor.col, pending |-> x]
<1>1. Of(t, t.cursor) BY MadeOf
<1>2. /\ Of([t EXCEPT !.cursor.row = x], [t.cursor EXCEPT !.row = x])
      /\ Of([t EXCEPT !.cursor.col = x], [t.cursor EXCEPT !.col = x])
      /\ Of([t EXCEPT !.cursor.pending = x], [t.cursor EXCEPT !.pending = x])
  BY <1>1, MadeSet
<1>3. /\ [t.cursor EXCEPT !.row = x] = cr /\ [t.cursor EXCEPT !.col = x] = cc
      /\ [t.cursor EXCEPT !.pending = x] = cp
  <2>1. t.cursor \in Cursors BY TerminalParts
  <2> QED BY <2>1, CursorParts
<1>4. \A u, c : Of(u, c) => As(u, c) BY MadeParts DEF Edited
<1> HIDE DEF Of, As, cr, cc, cp
<1>5. /\ As([t EXCEPT !.cursor.row = x], cr) /\ As([t EXCEPT !.cursor.col = x], cc)
      /\ As([t EXCEPT !.cursor.pending = x], cp)
  BY <1>2, <1>3, <1>4
<1> QED BY <1>5, Zenon DEF As, cr, cc, cp

(* A terminal with another cursor on its columns is steady.                 *)
LEMMA CursorEdited ==
  ASSUME NEW w \in Nat, NEW h \in Nat, NEW t \in Terminals(w, h),
         NEW row \in Nat, NEW col \in Nat, NEW p \in BOOLEAN, NEW u,
         Edited(t, u, t.grid, [row |-> row, col |-> col, pending |-> p], t.scrollback, t.last),
         w = 0 \/ h = 0 \/ RegionStale(t) \/ (t.cursor.row < h => row < h),
         w = 0 \/ h = 0 \/ col < w
  PROVE  Moved(t, u, row, col, p, w, h)
<1> DEFINE c == [row |-> row, col |-> col, pending |-> p]
<1>1. c \in Cursors /\ c.row = row /\ c.col = col /\ c.pending = p BY DEF Cursors
<1>2. Edited(t, u, t.grid, c, t.scrollback, t.last) OBVIOUS
<1> HIDE DEF c
<1>3. OnColumns(c, w, h) BY <1>1 DEF OnColumns
<1>4. /\ t.grid \in Grids(w, h) /\ t.scrollback \in Scrollbacks /\ t.last \in Narrow \cup Wide \cup {None}
  BY TerminalParts
<1>5. u \in Terminals(w, h) BY <1>1, <1>2, <1>3, <1>4, TerminalEdited
<1>6. u.cursor.row = row BY <1>1, <1>2 DEF Edited
<1>7. Steady(t, u, w, h) BY <1>2, <1>5, <1>6 DEF Steady, SameRest, Edited
<1>8. \A but : Guarded(t, u, but, h) BY <1>2 DEF Guarded, Shielded, Edited
<1> QED BY <1>1, <1>2, <1>7, <1>8 DEF Moved, Edited

(* The forms in which the handlers move the cursor.                         *)
LEMMA CursorMoved ==
  ASSUME NEW w \in Nat, NEW h \in Nat, NEW t \in Terminals(w, h)
  PROVE  /\ \A row, col \in Nat : \A p \in BOOLEAN :
              (w = 0 \/ h = 0 \/ RegionStale(t) \/ (t.cursor.row < h => row < h))
              /\ (w = 0 \/ h = 0 \/ col < w)
              => Moved(t, [t EXCEPT !.cursor = [row |-> row, col |-> col, pending |-> p]], row, col, p, w, h)
         /\ \A row \in Nat :
              (w = 0 \/ h = 0 \/ RegionStale(t) \/ (t.cursor.row < h => row < h))
              => Moved(t, [t EXCEPT !.cursor.row = row], row, t.cursor.col, t.cursor.pending, w, h)
         /\ \A col \in Nat :
              (w = 0 \/ h = 0 \/ col < w)
              => Moved(t, [t EXCEPT !.cursor.col = col], t.cursor.row, col, t.cursor.pending, w, h)
         /\ \A p \in BOOLEAN :
              Moved(t, [t EXCEPT !.cursor.pending = p], t.cursor.row, t.cursor.col, p, w, h)
<1>1. /\ t.cursor.row \in Nat /\ t.cursor.col \in Nat /\ t.cursor.pending \in BOOLEAN
      /\ w = 0 \/ h = 0 \/ t.cursor.col < w
  BY TerminalParts DEF OnColumns
<1> DEFINE r0 == t.cursor.row  c0 == t.cursor.col  p0 == t.cursor.pending
           As(u, r, c, q) ==
             Edited(t, u, t.grid, [row |-> r, col |-> c, pending |-> q], t.scrollback, t.last)
<1>2. \A row, col, p : As([t EXCEPT !.cursor = [row |-> row, col |-> col, pending |-> p]], row, col, p)
  BY PartsSet, Zenon
<1>3. \A x : /\ As([t EXCEPT !.cursor.row = x], x, c0, p0)
             /\ As([t EXCEPT !.cursor.col = x], r0, x, p0)
             /\ As([t EXCEPT !.cursor.pending = x], r0, c0, x)
  BY CursorPartSet, Zenon
<1>4. \A u : \A r, c \in Nat : \A q \in BOOLEAN :
         /\ As(u, r, c, q)
         /\ w = 0 \/ h = 0 \/ RegionStale(t) \/ (r0 < h => r < h)
         /\ w = 0 \/ h = 0 \/ c < w
         => Moved(t, u, r, c, q, w, h)
  BY CursorEdited
<1>5. r0 \in Nat /\ c0 \in Nat /\ p0 \in BOOLEAN /\ (w = 0 \/ h = 0 \/ c0 < w) BY <1>1
<1> HIDE DEF As
<1>6. \A row, col \in Nat : \A p \in BOOLEAN :
        (w = 0 \/ h = 0 \/ RegionStale(t) \/ (r0 < h => row < h))
        /\ (w = 0 \/ h = 0 \/ col < w)
        => Moved(t, [t EXCEPT !.cursor = [row |-> row, col |-> col, pending |-> p]], row, col, p, w, h)
  BY <1>2, <1>4
<1> HIDE DEF r0, c0, p0
<1>7. ASSUME NEW row \in Nat, w = 0 \/ h = 0 \/ RegionStale(t) \/ (r0 < h => row < h)
      PROVE  Moved(t, [t EXCEPT !.cursor.row = row], row, c0, p0, w, h)
  BY <1>3, <1>4, <1>5, <1>7
<1>8. ASSUME NEW col \in Nat, w = 0 \/ h = 0 \/ col < w
      PROVE  Moved(t, [t EXCEPT !.cursor.col = col], r0, col, p0, w, h)
  BY <1>3, <1>4, <1>5, <1>8
<1>9. ASSUME NEW p \in BOOLEAN PROVE Moved(t, [t EXCEPT !.cursor.pending = p], r0, c0, p, w, h)
  BY <1>3, <1>4, <1>5, <1>9
<1> QED BY <1>6, <1>7, <1>8, <1>9 DEF r0, c0, p0

(* Line feed and its inverse.                                               *)
LEMMA LineFed ==
  ASSUME NEW w \in Nat, NEW h \in Nat, NEW t \in Terminals(w, h)
  PROVE  /\ Steady(t, ApplyLineFeed(t), w, h) /\ \A but : Guarded(t, ApplyLineFeed(t), but, h)
         /\ Steady(t, ApplyReverseIndex(t), w, h) /\ \A but : Guarded(t, ApplyReverseIndex(t), but, h)
<1> DEFINE u == [t EXCEPT !.cursor.pending = FALSE]
           f == ApplyLineFeed(t)
           v == ApplyReverseIndex(t)
           Fine(x) == Steady(t, x, w, h) /\ \A but : Guarded(t, x, but, h)
<1>1. /\ t.cursor.row \in Nat /\ t.cursor.col \in Nat /\ t.grid.height = h
      /\ w = 0 \/ h = 0 \/ t.cursor.col < w
  BY TerminalParts DEF OnColumns
<1>2. Moved(t, u, t.cursor.row, t.cursor.col, FALSE, w, h) BY <1>1, CursorMoved
<1>3. u \in Terminals(w, h) /\ u.cursor.row = t.cursor.row /\ Fine(u) /\ Fine(t)
      /\ (RegionStale(u) <=> RegionStale(t))
  <2>1. u \in Terminals(w, h) /\ u.cursor.row = t.cursor.row /\ Fine(u)
        /\ u.region = t.region /\ u.grid = t.grid
    BY <1>2 DEF Moved, Steady, SameRest
  <2> HIDE DEF u
  <2> QED BY <2>1, Composed DEF RegionStale
<1>4. ASSUME NEW x, Steady(u, x, w, h), \A but : Guarded(u, x, but, h) PROVE Fine(x)
  <2> HIDE DEF u
  <2> QED BY <1>3, <1>4, Composed
<1>5. /\ f = IF IsEmpty(t.grid) THEN t
             ELSE CASE t.cursor.row = ScrollBottom(t) -> ApplyScrollUp(u, 1)
                    [] t.cursor.row # ScrollBottom(t) /\ t.cursor.row + 1 < t.grid.height ->
                         [u EXCEPT !.cursor.row = u.cursor.row + 1]
                    [] OTHER -> u
      /\ v = IF IsEmpty(t.grid) THEN t
             ELSE IF t.cursor.row = ScrollTop(t) THEN ApplyScrollDown(u, 1)
             ELSE [u EXCEPT !.cursor.row = SaturatingSub(u.cursor.row, 1)]
  BY Zenon DEF ApplyLineFeed, ApplyReverseIndex, OnGrid
<1> HIDE DEF u, f, v, Fine
<1>6. Fine(ApplyScrollUp(u, 1)) /\ Fine(ApplyScrollDown(u, 1)) BY <1>3, <1>4, ScreenScrolled
<1>7. ASSUME NEW r \in Nat, t.cursor.row < h => r < h
      PROVE  Fine([u EXCEPT !.cursor.row = r])
  <2>1. Moved(u, [u EXCEPT !.cursor.row = r], r, u.cursor.col, u.cursor.pending, w, h)
    <3>1. u.cursor.col \in Nat /\ (w = 0 \/ h = 0 \/ u.cursor.col < w) BY <1>3, TerminalParts DEF OnColumns
    <3> QED BY <1>3, <1>7, <3>1, CursorMoved
  <2> QED BY <1>4, <2>1 DEF Moved
<1>8. Fine(f)
  <2>1. CASE t.cursor.row # ScrollBottom(t) /\ t.cursor.row + 1 < t.grid.height
    <3> DEFINE r == t.cursor.row + 1
    <3>1. r \in Nat /\ (t.cursor.row < h => r < h) BY <1>1, <2>1
    <3> HIDE DEF r
    <3>2. Fine([u EXCEPT !.cursor.row = r]) BY <1>7, <3>1
    <3> QED BY <1>3, <1>5, <2>1, <3>2 DEF r
  <2>2. CASE ~(t.cursor.row # ScrollBottom(t) /\ t.cursor.row + 1 < t.grid.height)
    BY <1>3, <1>5, <1>6, <2>2
  <2> QED BY <2>1, <2>2
<1>9. Fine(v)
  <2> DEFINE r == SaturatingSub(t.cursor.row, 1)
  <2>1. r \in Nat /\ (t.cursor.row < h => r < h) BY <1>1 DEF SaturatingSub
  <2> HIDE DEF r
  <2>2. Fine([u EXCEPT !.cursor.row = r]) BY <1>7, <2>1
  <2> QED BY <1>3, <1>5, <1>6, <2>2 DEF r
<1> QED BY <1>8, <1>9 DEF Fine, f, v

(* Two parts of the cursor are set, one after the other.                    *)
LEMMA MovedTwice ==
  ASSUME NEW w \in Nat, NEW h \in Nat, NEW t \in Terminals(w, h), NEW v, NEW u,
         NEW r, NEW c, NEW p, NEW row, NEW col, NEW q,
         Moved(t, v, r, c, p, w, h), Moved(v, u, row, col, q, w, h)
  PROVE  Moved(t, u, row, col, q, w, h)
<1>1. /\ Steady(t, v, w, h) /\ Steady(v, u, w, h) /\ v.grid = t.grid
      /\ \A but : Guarded(t, v, but, h) /\ Guarded(v, u, but, h)
      /\ u.grid = t.grid /\ u.cursor.row = row /\ u.cursor.col = col /\ u.cursor.pending = q
      /\ u.scrollback = t.scrollback /\ u.last = t.last
  BY DEF Moved
<1>2. Steady(t, u, w, h) /\ \A but : Guarded(t, u, but, h) BY <1>1, Composed
<1> QED BY <1>1, <1>2 DEF Moved

(* And those that set two of its parts at once.                             *)
LEMMA CursorMovedTwice ==
  ASSUME NEW w \in Nat, NEW h \in Nat, NEW t \in Terminals(w, h), NEW col \in Nat,
         w = 0 \/ h = 0 \/ col < w
  PROVE  /\ Moved(t, [t EXCEPT !.cursor.col = col, !.cursor.pending = FALSE],
                  t.cursor.row, col, FALSE, w, h)
         /\ Moved(t, [t EXCEPT !.cursor.pending = FALSE, !.cursor.col = col],
                  t.cursor.row, col, FALSE, w, h)
         /\ \A row \in Nat : w = 0 \/ h = 0 \/ RegionStale(t) \/ (t.cursor.row < h => row < h)
              => Moved(t, [t EXCEPT !.cursor.row = row, !.cursor.col = col],
                       row, col, t.cursor.pending, w, h)
<1> DEFINE no == FALSE
           v == [t EXCEPT !.cursor.col = col]
           u == [t EXCEPT !.cursor.pending = no]
<1>0. no \in BOOLEAN OBVIOUS
<1> HIDE DEF no
<1>1. /\ Moved(t, v, t.cursor.row, col, t.cursor.pending, w, h)
      /\ Moved(t, u, t.cursor.row, t.cursor.col, no, w, h)
  BY <1>0, CursorMoved
<1> HIDE DEF v, u
<1>2. /\ v \in Terminals(w, h) /\ v.cursor.row = t.cursor.row /\ v.cursor.col = col
      /\ u \in Terminals(w, h) /\ u.cursor.row = t.cursor.row /\ u.cursor.pending = no
  BY <1>1 DEF Moved, Steady
<1>3. Moved(t, [v EXCEPT !.cursor.pending = no], t.cursor.row, col, no, w, h)
  <2>1. Moved(v, [v EXCEPT !.cursor.pending = no], v.cursor.row, v.cursor.col, no, w, h)
    BY <1>0, <1>2, CursorMoved
  <2>2. Moved(v, [v EXCEPT !.cursor.pending = no], t.cursor.row, col, no, w, h) BY <1>2, <2>1
  <2> QED BY <1>1, <2>2, MovedTwice
<1>4. Moved(t, [u EXCEPT !.cursor.col = col], t.cursor.row, col, no, w, h)
  <2>1. Moved(u, [u EXCEPT !.cursor.col = col], u.cursor.row, col, u.cursor.pending, w, h)
    BY <1>0, <1>2, CursorMoved
  <2>2. Moved(u, [u EXCEPT !.cursor.col = col], t.cursor.row, col, no, w, h) BY <1>2, <2>1
  <2> QED BY <1>1, <2>2, MovedTwice
<1>5. ASSUME NEW row \in Nat, w = 0 \/ h = 0 \/ RegionStale(t) \/ (t.cursor.row < h => row < h)
      PROVE  Moved(t, [t EXCEPT !.cursor.row = row, !.cursor.col = col],
                   row, col, t.cursor.pending, w, h)
  <2> DEFINE x == [t EXCEPT !.cursor.row = row]
  <2>1. Moved(t, x, row, t.cursor.col, t.cursor.pending, w, h) BY <1>5, CursorMoved
  <2> HIDE DEF x
  <2>2. x \in Terminals(w, h) /\ x.cursor.row = row /\ x.cursor.pending = t.cursor.pending
    BY <2>1 DEF Moved, Steady
  <2>3. Moved(x, [x EXCEPT !.cursor.col = col], x.cursor.row, col, x.cursor.pending, w, h)
    BY <2>2, CursorMoved
  <2>4. Moved(t, [x EXCEPT !.cursor.col = col], row, col, t.cursor.pending, w, h)
    BY <2>1, <2>2, <2>3, MovedTwice
  <2> QED BY <2>4, Zenon DEF x
<1>6. Moved(t, [t EXCEPT !.cursor.col = col, !.cursor.pending = FALSE], t.cursor.row, col, FALSE, w, h)
  BY <1>3, Zenon DEF v, no
<1>7. Moved(t, [t EXCEPT !.cursor.pending = FALSE, !.cursor.col = col], t.cursor.row, col, FALSE, w, h)
  BY <1>4, Zenon DEF u, no
<1> QED BY <1>5, <1>6, <1>7

(* Carriage return and backspace.                                           *)
LEMMA Returned ==
  ASSUME NEW w \in Nat, NEW h \in Nat, NEW t \in Terminals(w, h)
  PROVE  /\ Steady(t, ApplyCarriageReturn(t), w, h) /\ \A but : Guarded(t, ApplyCarriageReturn(t), but, h)
         /\ Steady(t, ApplyBackspace(t), w, h)
         /\ Moved(t, ApplyCarriageReturn(t), t.cursor.row, 0, FALSE, w, h)
<1> DEFINE col == SaturatingSub(t.cursor.col, 1)
<1>1. t.cursor.col \in Nat /\ (w = 0 \/ h = 0 \/ t.cursor.col < w) BY TerminalParts DEF OnColumns
<1>2. col \in Nat /\ (w = 0 \/ h = 0 \/ col < w) BY <1>1 DEF SaturatingSub
<1>3. ApplyBackspace(t) = [t EXCEPT !.cursor.col = col, !.cursor.pending = FALSE]
  BY Zenon DEF ApplyBackspace
<1>4. ApplyCarriageReturn(t) = [t EXCEPT !.cursor.col = 0, !.cursor.pending = FALSE]
  BY Zenon DEF ApplyCarriageReturn
<1> HIDE DEF col
<1>5. Moved(t, [t EXCEPT !.cursor.col = col, !.cursor.pending = FALSE], t.cursor.row, col, FALSE, w, h)
  BY <1>2, CursorMovedTwice
<1>6. Moved(t, [t EXCEPT !.cursor.col = 0, !.cursor.pending = FALSE], t.cursor.row, 0, FALSE, w, h)
  <2>1. 0 \in Nat /\ (w = 0 \/ h = 0 \/ 0 < w) OBVIOUS
  <2> QED BY <2>1, CursorMovedTwice
<1>7. /\ Moved(t, ApplyBackspace(t), t.cursor.row, col, FALSE, w, h)
      /\ Moved(t, ApplyCarriageReturn(t), t.cursor.row, 0, FALSE, w, h)
  BY <1>3, <1>4, <1>5, <1>6, Zenon
<1> QED BY <1>7 DEF Moved

(* The cursor is set, within the grid.                                      *)
LEMMA Repositioned ==
  ASSUME NEW w \in Nat, NEW h \in Nat, NEW t \in Terminals(w, h), NEW row \in Nat, NEW col \in Nat
  PROVE  /\ Steady(t, OnGrid(t, MoveTo(t, row, col)), w, h)
         /\ Steady(t, ApplyCursorPosition(t, row, col), w, h)
<1>1. t.grid.width = w /\ t.grid.height = h /\ (IsEmpty(t.grid) <=> w = 0 \/ h = 0) BY TerminalParts
<1>2. ASSUME NEW r \in Nat PROVE Steady(t, OnGrid(t, MoveTo(t, r, col)), w, h)
  <2>1. CASE IsEmpty(t.grid) BY <2>1, Composed DEF OnGrid
  <2>2. CASE ~IsEmpty(t.grid)
    <3> DEFINE x == Clamp(r, h)  y == Clamp(col, w)
    <3>1. x \in Nat /\ y \in Nat /\ x < h /\ y < w
      BY <1>1, <2>2 DEF Clamp, AtMost, SaturatingSub
    <3>2. OnGrid(t, MoveTo(t, r, col)) = [t EXCEPT !.cursor = [row |-> x, col |-> y, pending |-> FALSE]]
      BY <1>1, <2>2, Zenon DEF MoveTo, OnGrid
    <3> HIDE DEF x, y
    <3>3. Moved(t, [t EXCEPT !.cursor = [row |-> x, col |-> y, pending |-> FALSE]], x, y, FALSE, w, h)
      BY <3>1, CursorMoved
    <3>4. Moved(t, OnGrid(t, MoveTo(t, r, col)), x, y, FALSE, w, h) BY <3>2, <3>3, Zenon
    <3> QED BY <3>4 DEF Moved
  <2> QED BY <2>1, <2>2
<1>3. ScrollTop(t) \in Nat BY MarginsOf
<1>4. row + ScrollTop(t) \in Nat BY <1>3
<1> QED BY <1>2, <1>4 DEF ApplyCursorPosition

(* A relative motion, by the margins in origin mode, stays on the screen.   *)
LEMMA MovedRelative ==
  ASSUME NEW w \in Nat, NEW h \in Nat, NEW t \in Terminals(w, h), NEW rows \in Int, NEW cols \in Int
  PROVE  Steady(t, ApplyCursorRelative(t, rows, cols), w, h)
<1> DEFINE low  == IF t.origin THEN ScrollTop(t) ELSE 0
           high == IF t.origin THEN ScrollBottom(t) ELSE SaturatingSub(t.grid.height, 1)
           row  == t.cursor.row + rows
           col  == t.cursor.col + cols
           r == IF row < low THEN low ELSE AtMost(row, high)
           c == IF col < 0 THEN 0 ELSE col
<1>1. t.cursor.row \in Nat /\ t.cursor.col \in Nat /\ t.grid.height \in Nat BY TerminalParts
<1>2. low \in Nat /\ high \in Nat BY <1>1, MarginsOf DEF SaturatingSub
<1>3. ApplyCursorRelative(t, rows, cols) = OnGrid(t, MoveTo(t, r, c)) BY DEF ApplyCursorRelative
<1>4. row \in Int /\ col \in Int BY <1>1
<1> HIDE DEF low, high, row, col
<1>5. r \in Nat /\ c \in Nat BY <1>2, <1>4 DEF AtMost
<1> HIDE DEF r, c
<1> QED BY <1>3, <1>5, Repositioned

(* Tabulation stops at a stop, or at an edge.                               *)
LEMMA Tabbed ==
  ASSUME NEW w \in Nat, NEW h \in Nat, NEW t \in Terminals(w, h)
  PROVE  Steady(t, ApplyTab(t), w, h)
<1> DEFINE stops == {c \in (t.cursor.col + 1)..(t.grid.width - 1) : t.tabs[c + 1]}
           col == IF stops = {} THEN t.grid.width - 1 ELSE Min(stops)
<1>1. t.grid.width = w /\ (IsEmpty(t.grid) <=> w = 0 \/ h = 0) /\ t.cursor.col \in Nat BY TerminalParts
<1>2. CASE IsEmpty(t.grid) BY <1>2, Composed DEF ApplyTab, OnGrid
<1>3. CASE ~IsEmpty(t.grid)
  <2>1. w - 1 \in Nat /\ w > 0 BY <1>1, <1>3
  <2>2. stops \subseteq 0..(w - 1) BY <1>1
  <2>3. ApplyTab(t) = [t EXCEPT !.cursor.pending = FALSE, !.cursor.col = col]
    BY <1>3, Zenon DEF ApplyTab, OnGrid
  <2> HIDE DEF stops
  <2>4. col \in Nat /\ col < w
    <3>1. CASE stops = {} BY <1>1, <2>1, <3>1
    <3>2. CASE stops # {}
      <4>1. Min(stops) \in stops BY <2>1, <2>2, <3>2, MinOf
      <4> QED BY <2>1, <2>2, <3>2, <4>1
    <3> QED BY <3>1, <3>2
  <2> HIDE DEF col
  <2>5. Moved(t, [t EXCEPT !.cursor.pending = FALSE, !.cursor.col = col], t.cursor.row, col, FALSE, w, h)
    BY <2>4, CursorMovedTwice
  <2>6. Moved(t, ApplyTab(t), t.cursor.row, col, FALSE, w, h) BY <2>3, <2>5, Zenon
  <2> QED BY <2>6 DEF Moved
<1> QED BY <1>2, <1>3

(* Tabbing back, any number of stops.                                       *)
LEMMA BackTabbed ==
  ASSUME NEW w \in Nat, NEW h \in Nat, NEW t \in Terminals(w, h), NEW n \in Nat
  PROVE  Steady(t, ApplyCursorBackwardTab(t, n), w, h)
<1> DEFINE StopBefore(col) == Max({c \in 0..(col - 1) : t.tabs[c + 1]} \cup {0})
           F(f) == [i \in 0..n |-> IF i = 0 THEN t.cursor.col ELSE StopBefore(f[i - 1])]
           after == CHOOSE f : f = F(f)
           V == 0..t.cursor.col
           step == [i \in 0..n |-> [v \in V |-> StopBefore(v)]]
<1>1. /\ t.cursor.col \in Nat /\ t.cursor.col \in V /\ (IsEmpty(t.grid) <=> w = 0 \/ h = 0)
      /\ w = 0 \/ h = 0 \/ t.cursor.col < w
  BY TerminalParts DEF OnColumns
<1>2. \A v \in V : StopBefore(v) \in V
  <2> SUFFICES ASSUME NEW v \in V PROVE StopBefore(v) \in V OBVIOUS
  <2> DEFINE S == {c \in 0..(v - 1) : t.tabs[c + 1]} \cup {0}
  <2>1. v \in Nat BY <1>1
  <2>2. S \subseteq 0..v /\ S # {} BY <2>1
  <2> HIDE DEF S
  <2>3. Max(S) \in S BY <2>1, <2>2, MaxOf
  <2>4. Max(S) \in 0..v BY <2>2, <2>3
  <2>5. Max(S) \in V BY <1>1, <2>1, <2>4
  <2> QED BY <2>5 DEF S
<1> HIDE DEF StopBefore, V
<1>3. step \in [0..n -> [V -> V]] BY <1>2
<1>4. PICK g \in [0..n -> V] : g[0] = t.cursor.col /\ \A i \in 0..(n - 1) : g[i + 1] = step[i][g[i]]
  <2> HIDE DEF step
  <2>1. Iterations(V, t.cursor.col, n, step) # {} BY <1>1, <1>3, IterationsExist
  <2> QED BY <2>1 DEF Iterations
<1>5. g = F(g)
  <2>1. ASSUME NEW i \in 1..n PROVE g[i] = StopBefore(g[i - 1])
    <3>1. i - 1 \in 0..(n - 1) /\ i - 1 \in 0..n /\ (i - 1) + 1 = i /\ g[i - 1] \in V BY <1>4
    <3>2. step[i - 1][g[i - 1]] = StopBefore(g[i - 1]) BY <3>1
    <3> HIDE DEF step
    <3> QED BY <1>4, <3>1, <3>2
  <2>2. \A i \in 0..n : g[i] = F(g)[i] BY <1>4, <2>1
  <2> QED BY <1>4, <2>2
<1>6. after = F(after)
  <2> HIDE DEF F
  <2> QED BY <1>5
<1> HIDE DEF after
<1> DEFINE I == {i \in Nat : after[i] \in V}
<1>7. 0..n \subseteq I
  <2>1. after[0] \in V BY <1>1, <1>6
  <2>2. ASSUME NEW i \in 0..(n - 1), after[i] \in V PROVE after[i + 1] \in V
    <3>1. i + 1 \in 0..n /\ i + 1 # 0 /\ (i + 1) - 1 = i OBVIOUS
    <3>2. after[i + 1] = StopBefore(after[(i + 1) - 1]) BY <1>6, <3>1
    <3> QED BY <1>2, <2>2, <3>1, <3>2
  <2>3. 0 \in I /\ \A i \in 0..(n - 1) : i \in I => i + 1 \in I BY <2>1, <2>2
  <2> HIDE DEF I
  <2> QED BY <2>3, IntervalInduction
<1> DEFINE col == after[n]
<1>8. col \in Nat /\ (w = 0 \/ h = 0 \/ col < w)
  <2>1. n \in 0..n OBVIOUS
  <2>2. after[n] \in V BY <1>7, <2>1
  <2> QED BY <1>1, <2>2 DEF V
<1>9. CASE IsEmpty(t.grid) BY <1>9, Composed DEF ApplyCursorBackwardTab, OnGrid
<1>10. CASE ~IsEmpty(t.grid)
  <2>1. ApplyCursorBackwardTab(t, n) = [t EXCEPT !.cursor.pending = FALSE, !.cursor.col = col]
    BY <1>10, Zenon DEF ApplyCursorBackwardTab, OnGrid, col, after, F, StopBefore
  <2> HIDE DEF col
  <2>2. Moved(t, [t EXCEPT !.cursor.pending = FALSE, !.cursor.col = col], t.cursor.row, col, FALSE, w, h)
    BY <1>8, CursorMovedTwice
  <2>3. Moved(t, ApplyCursorBackwardTab(t, n), t.cursor.row, col, FALSE, w, h) BY <2>1, <2>2, Zenon
  <2> QED BY <2>3 DEF Moved
<1> QED BY <1>9, <1>10

-----------------------------------------------------------------------------
(* Printing.                                                                *)

(* An edited terminal is steady when its cursor is no further out.          *)
LEMMA SteadyEdited ==
  ASSUME NEW w \in Nat, NEW h \in Nat, NEW t \in Terminals(w, h),
         NEW g \in Grids(w, h), NEW c \in Cursors, OnColumns(c, w, h),
         w = 0 \/ h = 0 \/ RegionStale(t) \/ (t.cursor.row < h => c.row < h),
         NEW l \in Narrow \cup Wide \cup {None},
         NEW u, Edited(t, u, g, c, t.scrollback, l)
  PROVE  Steady(t, u, w, h)
<1>1. t.scrollback \in Scrollbacks BY TerminalParts
<1>2. u \in Terminals(w, h) BY <1>1, TerminalEdited
<1> QED BY <1>2 DEF Steady, SameRest, Edited

(* A wrap at the end of a row scrolls within the margins.                   *)
LEMMA LineWrapped ==
  ASSUME NEW w \in Nat, NEW h \in Nat, NEW t \in Terminals(w, h), w # 0, h # 0
  PROVE  /\ Steady(t, WrapLine(t), w, h) /\ \A but : Guarded(t, WrapLine(t), but, h)
         /\ WrapLine(t).cursor.col = 0
<1> DEFINE atBottom == t.cursor.row >= ScrollBottom(t)
           v == IF atBottom THEN ApplyScrollUp(t, 1) ELSE t
           row == IF atBottom THEN ScrollBottom(t) ELSE t.cursor.row + 1
           c == [row |-> row, col |-> 0, pending |-> FALSE]
           g == SetRowWrapped(v.grid, row)
           u == [v EXCEPT !.cursor = c, !.grid = g]
<1>1. t.cursor.row \in Nat BY TerminalParts
<1>2. ScrollBottom(t) \in Nat /\ (RegionStale(t) \/ ScrollBottom(t) < h) BY MarginsOf
<1>3. row \in Nat /\ (RegionStale(t) \/ (t.cursor.row < h => row < h)) BY <1>1, <1>2
<1>4. Steady(t, v, w, h) /\ (\A but : Guarded(t, v, but, h)) /\ v.cursor = t.cursor
  BY Composed, ScreenScrolled
<1>5. WrapLine(t) = u BY Zenon DEF WrapLine
<1> HIDE DEF row, v
<1>6. c \in Cursors /\ OnColumns(c, w, h) /\ c.row = row /\ c.col = 0 BY <1>3 DEF Cursors, OnColumns
<1>7. v \in Terminals(w, h) /\ (RegionStale(v) <=> RegionStale(t)) /\ v.grid \in Grids(w, h)
      /\ v.last \in Narrow \cup Wide \cup {None}
  <2>1. v \in Terminals(w, h) /\ v.region = t.region BY <1>4 DEF Steady, SameRest
  <2>2. v.grid.height = h /\ t.grid.height = h BY <2>1, TerminalParts
  <2> QED BY <2>1, <2>2, TerminalParts DEF RegionStale
<1>8. g \in Grids(w, h) /\ (\A r \in 1..h : g.rows[r].cells = v.grid.rows[r].cells)
      /\ (Paired(v.grid) => Paired(g))
  BY <1>3, <1>7, FlagSet
<1>9. Edited(v, u, g, c, v.scrollback, v.last)
  <2> HIDE DEF c, g
  <2> QED BY <1>7, PartsSet
<1> HIDE DEF c, g, u
<1>10. Steady(v, u, w, h) BY <1>3, <1>4, <1>6, <1>7, <1>8, <1>9, SteadyEdited
<1>11. \A but : Guarded(v, u, but, h) BY <1>8, <1>9 DEF Guarded, Shielded, Edited
<1>12. u.cursor.col = 0 BY <1>6, <1>9 DEF Edited
<1>13. Steady(t, u, w, h) /\ \A but : Guarded(t, u, but, h) BY <1>4, <1>10, <1>11, Composed
<1> QED BY <1>5, <1>12, <1>13

(* After a restore or before a character is put, the cursor is in the grid. *)
LEMMA Clamped ==
  ASSUME NEW t, NEW g, NEW c \in Cursors, NEW b, NEW s, NEW r, NEW o, NEW a, NEW k, NEW l, NEW e,
         Made(t, g, c, b, s, r, o, a, k, l, e), ~IsEmpty(g)
  PROVE  Made(ClampCursor(t), g,
              [row |-> Clamp(c.row, g.height), col |-> Clamp(c.col, g.width), pending |-> c.pending],
              b, s, r, o, a, k, l, e)
<1> DEFINE x == Clamp(c.row, g.height)  y == Clamp(c.col, g.width)
           v == [t EXCEPT !.cursor.row = x]
           cv == [row |-> x, col |-> c.col, pending |-> c.pending]
           cu == [row |-> x, col |-> y, pending |-> c.pending]
<1>1. t.grid = g /\ t.cursor = c BY MadeParts
<1>2. Made(v, g, [c EXCEPT !.row = x], b, s, r, o, a, k, l, e) BY MadeSet
<1>3. [c EXCEPT !.row = x] = cv BY CursorParts
<1>4. Made(v, g, cv, b, s, r, o, a, k, l, e) BY <1>2, <1>3
<1> HIDE DEF v
<1>5. Made([v EXCEPT !.cursor.col = y], g, [cv EXCEPT !.col = y], b, s, r, o, a, k, l, e)
  BY <1>4, MadeSet
<1>6. [cv EXCEPT !.col = y] = cu OBVIOUS
<1>7. Made([v EXCEPT !.cursor.col = y], g, cu, b, s, r, o, a, k, l, e) BY <1>5, <1>6
<1>8. ClampCursor(t) = [t EXCEPT !.cursor.row = x, !.cursor.col = y]
  BY <1>1, Zenon DEF ClampCursor, OnGrid
<1> QED BY <1>7, <1>8, Zenon DEF v

(* A character is put where the cursor is.                                  *)
Placed(t, u, ch, cw, h) ==
  /\ u.grid = PutChar(t.grid, Clamp(t.cursor.row, h), t.cursor.col, ch, cw)
  /\ u.scrollback = t.scrollback /\ u.last = ch

LEMMA CharPutHere ==
  ASSUME NEW w \in Nat, NEW h \in Nat, NEW t \in Terminals(w, h), w # 0, h # 0,
         NEW ch \in Narrow \cup Wide, NEW cw \in {1, 2}
  PROVE  /\ Steady(t, PutAtCursor(t, ch, cw), w, h)
         /\ Shielded(t, PutAtCursor(t, ch, cw), {PutAtCursor(t, ch, cw).cursor.row + 1}, h)
         /\ Paired(t.grid) /\ (cw = 2 => t.cursor.col + 1 < w) => Paired(PutAtCursor(t, ch, cw).grid)
         /\ PutAtCursor(t, ch, cw).cursor.col = t.cursor.col
         /\ Placed(t, PutAtCursor(t, ch, cw), ch, cw, h)
<1> DEFINE x == Clamp(t.cursor.row, h)  y == Clamp(t.cursor.col, w)
           c == [row |-> x, col |-> y, pending |-> t.cursor.pending]
           v == ClampCursor(t)
           g == PutChar(t.grid, x, y, ch, cw)
           u == PutAtCursor(t, ch, cw)
<1>1. /\ t.grid \in Grids(w, h) /\ t.grid.width = w /\ t.grid.height = h /\ ~IsEmpty(t.grid)
      /\ t.cursor \in Cursors /\ t.cursor.row \in Nat /\ t.cursor.col \in Nat
      /\ t.cursor.pending \in BOOLEAN /\ t.cursor.col < w /\ t.last \in Narrow \cup Wide \cup {None}
  BY TerminalParts DEF OnColumns
<1>2. x \in Nat /\ y \in Nat /\ x < h /\ y = t.cursor.col BY <1>1 DEF Clamp, AtMost, SaturatingSub
<1> HIDE DEF x, y
<1>3. c \in Cursors /\ c.row = x /\ c.col = y BY <1>1, <1>2 DEF Cursors
<1>4. OnColumns(c, w, h) BY <1>1, <1>2, <1>3 DEF OnColumns
<1>5. Edited(t, v, t.grid, c, t.scrollback, t.last)
  <2>1. Made(v, t.grid, c, t.scrollback, t.saved, t.region, t.origin, t.autoWrap, t.tabs, t.last, t.alternate)
    <3>1. Made(t, t.grid, t.cursor, t.scrollback, t.saved, t.region, t.origin, t.autoWrap, t.tabs,
               t.last, t.alternate)
      BY MadeOf
    <3>2. Made(v, t.grid, [row |-> Clamp(t.cursor.row, t.grid.height),
                           col |-> Clamp(t.cursor.col, t.grid.width), pending |-> t.cursor.pending],
               t.scrollback, t.saved, t.region, t.origin, t.autoWrap, t.tabs, t.last, t.alternate)
      BY <1>1, <3>1, Clamped
    <3> QED BY <1>1, <3>2 DEF x, y
  <2> HIDE DEF c, v
  <2> QED BY <2>1, MadeParts DEF Edited
<1> HIDE DEF c, v
<1>6. /\ g \in Grids(w, h) /\ OtherRowsStay(t.grid, g, x, h)
      /\ Paired(t.grid) /\ (cw = 2 => y + 1 < w) => Paired(g)
  BY <1>1, <1>2, CharPut
<1>7. v \in Terminals(w, h) /\ v.grid = t.grid /\ v.cursor = c /\ Steady(t, v, w, h)
  <2>1. Steady(t, v, w, h) BY <1>1, <1>2, <1>3, <1>4, <1>5, SteadyEdited
  <2> QED BY <1>5, <2>1 DEF Steady, Edited
<1>8. u = [v EXCEPT !.grid = PutChar(v.grid, v.cursor.row, v.cursor.col, ch, cw), !.last = ch]
  BY Zenon DEF PutAtCursor, v
<1>9. PutChar(v.grid, v.cursor.row, v.cursor.col, ch, cw) = g BY <1>3, <1>7
<1> HIDE DEF g, u
<1>10. Edited(v, [v EXCEPT !.grid = g, !.last = ch], g, v.cursor, v.scrollback, ch) BY <1>7, PartsSet
<1>11. Edited(v, u, g, v.cursor, v.scrollback, ch) BY <1>8, <1>9, <1>10, Zenon
<1>12. Steady(v, u, w, h) BY <1>3, <1>4, <1>6, <1>7, <1>11, SteadyEdited
<1>13. Steady(t, u, w, h) BY <1>7, <1>12, Composed
<1>14. u.grid = g /\ u.cursor.row = x /\ u.cursor.col = y BY <1>3, <1>7, <1>11 DEF Edited
<1>15. Shielded(t, u, {u.cursor.row + 1}, h)
  <2>1. \A r \in 1..h : r \in {u.cursor.row + 1} \/ u.grid.rows[r].cells = t.grid.rows[r].cells
    BY <1>6, <1>14 DEF OtherRowsStay
  <2> QED BY <2>1 DEF Shielded
<1>16. u.grid = PutChar(t.grid, Clamp(t.cursor.row, h), t.cursor.col, ch, cw)
  <2>1. g = PutChar(t.grid, x, t.cursor.col, ch, cw) BY <1>2 DEF g
  <2> QED BY <1>14, <2>1 DEF x
<1>17. u.scrollback = t.scrollback /\ u.last = ch BY <1>5, <1>11 DEF Edited
<1> QED BY <1>2, <1>6, <1>13, <1>14, <1>15, <1>16, <1>17 DEF u, Placed

(* Moving on after a character keeps the rows, and the cursor's row.        *)
LEMMA CursorAdvanced ==
  ASSUME NEW w \in Nat, NEW h \in Nat, NEW t \in Terminals(w, h), w # 0, h # 0, NEW cw \in {1, 2}
  PROVE  /\ Steady(t, Advance(t, cw), w, h) /\ \A but : Guarded(t, Advance(t, cw), but, h)
         /\ Advance(t, cw).cursor.row = t.cursor.row
         /\ Advance(t, cw).grid = t.grid /\ Advance(t, cw).scrollback = t.scrollback
         /\ Advance(t, cw).last = t.last
<1> DEFINE u == Advance(t, cw)
<1>1. t.grid.width = w /\ t.cursor.col \in Nat /\ t.cursor.row \in Nat /\ t.cursor.pending \in BOOLEAN
  BY TerminalParts
<1>2. CASE t.cursor.col + cw < t.grid.width
  <2> DEFINE y == t.cursor.col + cw
  <2>1. y \in Nat /\ y < w BY <1>1, <1>2
  <2>2. u = [t EXCEPT !.cursor.col = y] BY <1>1, <1>2 DEF Advance
  <2> HIDE DEF y, u
  <2>3. Moved(t, [t EXCEPT !.cursor.col = y], t.cursor.row, y, t.cursor.pending, w, h)
    BY <2>1, CursorMoved
  <2>4. Moved(t, u, t.cursor.row, y, t.cursor.pending, w, h) BY <2>2, <2>3, Zenon
  <2> QED BY <2>4 DEF Moved, u
<1>3. CASE t.cursor.col + cw >= t.grid.width /\ t.autoWrap
  <2> DEFINE y == t.grid.width - 1
             v == [t EXCEPT !.cursor.col = y]
             yes == TRUE
  <2>1. y \in Nat /\ y < w /\ yes \in BOOLEAN BY <1>1
  <2>2. u = [v EXCEPT !.cursor.pending = yes] BY <1>1, <1>3 DEF Advance
  <2> HIDE DEF y, u, yes
  <2>3. Moved(t, v, t.cursor.row, y, t.cursor.pending, w, h) BY <2>1, CursorMoved
  <2> HIDE DEF v
  <2>4. v \in Terminals(w, h) /\ v.cursor.row = t.cursor.row /\ v.cursor.col = y
    BY <2>3 DEF Moved, Steady
  <2>5. Moved(v, [v EXCEPT !.cursor.pending = yes], v.cursor.row, v.cursor.col, yes, w, h)
    BY <2>1, <2>4, CursorMoved
  <2>6. Moved(v, [v EXCEPT !.cursor.pending = yes], t.cursor.row, y, yes, w, h) BY <2>4, <2>5
  <2>7. Moved(t, [v EXCEPT !.cursor.pending = yes], t.cursor.row, y, yes, w, h)
    BY <2>3, <2>6, MovedTwice
  <2>8. Moved(t, u, t.cursor.row, y, yes, w, h) BY <2>2, <2>7, Zenon
  <2> QED BY <2>8 DEF Moved, u
<1>4. CASE ~(t.cursor.col + cw < t.grid.width) /\ ~(t.cursor.col + cw >= t.grid.width /\ t.autoWrap)
  <2>1. u = t BY <1>4 DEF Advance
  <2> QED BY <2>1, Composed
<1> QED BY <1>2, <1>3, <1>4

(* Printing touches the rows between the margins and the row it ends on.    *)
Printed(t, u, w, h) ==
  /\ Steady(t, u, w, h) /\ Shielded(t, u, {u.cursor.row + 1}, h)
  /\ w >= 2 /\ Paired(t.grid) => Paired(u.grid)

(* Printing, with its wrap, its scroll and its wide characters.             *)
LEMMA CharPrinted ==
  ASSUME NEW w \in Nat, NEW h \in Nat, NEW t \in Terminals(w, h), NEW ch \in Narrow \cup Wide
  PROVE  Printed(t, ApplyPrint(t, ch), w, h)
<1> DEFINE cw == IF ch \in Wide THEN 2 ELSE 1
           v == IF t.cursor.pending THEN WrapLine(t) ELSE t
           tooWide == cw = 2 /\ v.cursor.col + 1 >= t.grid.width
           u == ApplyPrint(t, ch)
<1>1. t.grid.width = w /\ (IsEmpty(t.grid) <=> w = 0 \/ h = 0) BY TerminalParts
<1>2. CASE IsEmpty(t.grid)
  <2>1. u = t BY <1>2 DEF ApplyPrint, OnGrid
  <2>2. Steady(t, t, w, h) /\ Shielded(t, t, {t.cursor.row + 1}, h) BY Composed DEF Guarded
  <2> QED BY <2>1, <2>2 DEF Printed
<1>3. CASE ~IsEmpty(t.grid)
  <2>1. w # 0 /\ h # 0 BY <1>1, <1>3
  <2>2. cw \in {1, 2} /\ 1 \in {1, 2} OBVIOUS
  <2>3. Steady(t, v, w, h) /\ \A but : Guarded(t, v, but, h)
    BY <2>1, Composed, LineWrapped
  <2>4. u = CASE tooWide /\ ~t.autoWrap -> PutAtCursor(v, ch, 1)
              [] tooWide /\ t.autoWrap  -> Advance(PutAtCursor(WrapLine(v), ch, cw), cw)
              [] OTHER -> Advance(PutAtCursor(v, ch, cw), cw)
    BY <1>3, Zenon DEF ApplyPrint, OnGrid
  <2> HIDE DEF cw, v, u
  <2>5. v \in Terminals(w, h) /\ v.cursor.col \in Nat BY <2>3, TerminalParts DEF Steady
  <2>6. ASSUME NEW x, Steady(t, x, w, h), \A but : Guarded(t, x, but, h), NEW k \in {1, 2}
        PROVE  /\ (k = 2 /\ w >= 2 => x.cursor.col + 1 < w) => Printed(t, PutAtCursor(x, ch, k), w, h)
               /\ (k = 2 /\ w >= 2 => x.cursor.col + 1 < w) => Printed(t, Advance(PutAtCursor(x, ch, k), k), w, h)
    <3> DEFINE y == PutAtCursor(x, ch, k)  z == Advance(y, k)
    <3>1. x \in Terminals(w, h) BY <2>6 DEF Steady
    <3>2. /\ Steady(x, y, w, h) /\ Shielded(x, y, {y.cursor.row + 1}, h)
          /\ Paired(x.grid) /\ (k = 2 => x.cursor.col + 1 < w) => Paired(y.grid)
      BY <2>1, <3>1, CharPutHere
    <3>3. y \in Terminals(w, h) BY <3>2 DEF Steady
    <3>4. /\ Steady(y, z, w, h) /\ (\A but : Guarded(y, z, but, h)) /\ z.cursor.row = y.cursor.row
      BY <2>1, <3>3, CursorAdvanced
    <3> HIDE DEF y, z
    <3>5. Steady(t, y, w, h) /\ Shielded(t, y, {y.cursor.row + 1}, h)
      <4>1. Shielded(t, x, {y.cursor.row + 1}, h) BY <2>6 DEF Guarded
      <4> QED BY <2>6, <3>2, <4>1, Composed
    <3>6. Steady(t, z, w, h) /\ Shielded(t, z, {z.cursor.row + 1}, h)
      <4>1. Shielded(y, z, {y.cursor.row + 1}, h) BY <3>4 DEF Guarded
      <4>2. Shielded(t, z, {y.cursor.row + 1}, h) BY <3>4, <3>5, <4>1, Composed
      <4>3. z.cursor.row = y.cursor.row BY <3>4
      <4> QED BY <3>4, <3>5, <4>2, <4>3, Composed
    <3>7. Paired(t.grid) => Paired(x.grid) BY <2>6 DEF Guarded
    <3>8. Paired(y.grid) => Paired(z.grid) BY <3>4 DEF Guarded
    <3>9. ASSUME k = 2 /\ w >= 2 => x.cursor.col + 1 < w
          PROVE  Printed(t, y, w, h) /\ Printed(t, z, w, h)
      <4>1. w >= 2 /\ Paired(t.grid) => Paired(y.grid) /\ Paired(z.grid)
        BY <3>2, <3>7, <3>8, <3>9
      <4> QED BY <3>5, <3>6, <4>1 DEF Printed
    <3> QED BY <3>9 DEF y, z
  <2>7. CASE tooWide /\ ~t.autoWrap
    <3>1. u = PutAtCursor(v, ch, 1) BY <2>4, <2>7
    <3> QED BY <2>2, <2>3, <2>6, <3>1 DEF u
  <2>8. CASE tooWide /\ t.autoWrap
    <3>1. Steady(v, WrapLine(v), w, h) /\ (\A but : Guarded(v, WrapLine(v), but, h))
          /\ WrapLine(v).cursor.col = 0
      BY <2>1, <2>5, LineWrapped
    <3>2. Steady(t, WrapLine(v), w, h) /\ \A but : Guarded(t, WrapLine(v), but, h)
      BY <2>3, <3>1, Composed
    <3>3. u = Advance(PutAtCursor(WrapLine(v), ch, cw), cw) BY <2>4, <2>8
    <3>4. cw = 2 /\ w >= 2 => WrapLine(v).cursor.col + 1 < w BY <3>1
    <3> QED BY <2>2, <2>6, <3>2, <3>3, <3>4 DEF u
  <2>9. CASE ~tooWide
    <3>1. u = Advance(PutAtCursor(v, ch, cw), cw) BY <2>4, <2>9
    <3>2. cw = 2 /\ w >= 2 => v.cursor.col + 1 < w BY <1>1, <2>5, <2>9
    <3> QED BY <2>2, <2>3, <2>6, <3>1, <3>2 DEF u
  <2> QED BY <2>7, <2>8, <2>9
<1> QED BY <1>2, <1>3

(* Repeating the last character prints it as often.                         *)
LEMMA CharRepeated ==
  ASSUME NEW w \in Nat, NEW h \in Nat, NEW t \in Terminals(w, h), NEW n \in Nat
  PROVE  Steady(t, ApplyRepeatLastChar(t, n), w, h)
<1> DEFINE ch == t.last
           F(f) == [i \in 0..n |-> IF i = 0 THEN t ELSE ApplyPrint(f[i - 1], ch)]
           after == CHOOSE f : f = F(f)
           V == {u \in Terminals(w, h) : Steady(t, u, w, h)}
           step == [i \in 0..n |-> [v \in V |-> ApplyPrint(v, ch)]]
<1>1. CASE t.last = None BY <1>1, Composed DEF ApplyRepeatLastChar
<1>2. CASE t.last # None
  <2>1. ch \in Narrow \cup Wide BY <1>2, TerminalParts
  <2> HIDE DEF ch
  <2>2. t \in V BY Composed
  <2>3. \A v \in V : ApplyPrint(v, ch) \in V
    <3> SUFFICES ASSUME NEW v \in V PROVE ApplyPrint(v, ch) \in V OBVIOUS
    <3>1. v \in Terminals(w, h) /\ Steady(t, v, w, h) OBVIOUS
    <3>2. Printed(v, ApplyPrint(v, ch), w, h) BY <2>1, <3>1, CharPrinted
    <3>3. Steady(v, ApplyPrint(v, ch), w, h) BY <3>2 DEF Printed
    <3>4. Steady(t, ApplyPrint(v, ch), w, h) BY <3>1, <3>3, Composed
    <3> QED BY <3>4 DEF Steady
  <2>4. \A v \in V : Steady(t, v, w, h) OBVIOUS
  <2> HIDE DEF V
  <2>5. step \in [0..n -> [V -> V]] BY <2>3
  <2>6. PICK g \in [0..n -> V] : g[0] = t /\ \A i \in 0..(n - 1) : g[i + 1] = step[i][g[i]]
    <3> HIDE DEF step
    <3>1. Iterations(V, t, n, step) # {} BY <2>2, <2>5, IterationsExist
    <3> QED BY <3>1 DEF Iterations
  <2>7. g = F(g)
    <3>1. ASSUME NEW i \in 1..n PROVE g[i] = ApplyPrint(g[i - 1], ch)
      <4>1. i - 1 \in 0..(n - 1) /\ i - 1 \in 0..n /\ (i - 1) + 1 = i /\ g[i - 1] \in V BY <2>6
      <4>2. step[i - 1][g[i - 1]] = ApplyPrint(g[i - 1], ch) BY <4>1
      <4> HIDE DEF step
      <4> QED BY <2>6, <4>1, <4>2
    <3>2. \A i \in 0..n : g[i] = F(g)[i] BY <2>6, <3>1
    <3> QED BY <2>6, <3>2
  <2>8. after = F(after)
    <3> HIDE DEF F
    <3> QED BY <2>7
  <2> HIDE DEF after
  <2> DEFINE I == {i \in Nat : after[i] \in V}
  <2>9. 0..n \subseteq I
    <3>1. after[0] \in V BY <2>2, <2>8
    <3>2. ASSUME NEW i \in 0..(n - 1), after[i] \in V PROVE after[i + 1] \in V
      <4>1. i + 1 \in 0..n /\ i + 1 # 0 /\ (i + 1) - 1 = i OBVIOUS
      <4>2. after[i + 1] = ApplyPrint(after[(i + 1) - 1], ch) BY <2>8, <4>1
      <4> QED BY <2>3, <3>2, <4>1, <4>2
    <3>3. 0 \in I /\ \A i \in 0..(n - 1) : i \in I => i + 1 \in I BY <3>1, <3>2
    <3> HIDE DEF I
    <3> QED BY <3>3, IntervalInduction
  <2>10. ApplyRepeatLastChar(t, n) = after[n]
    BY <1>2, Zenon DEF ApplyRepeatLastChar, after, F, ch
  <2>11. n \in 0..n OBVIOUS
  <2> QED BY <2>4, <2>9, <2>10, <2>11
<1> QED BY <1>1, <1>2

-----------------------------------------------------------------------------
(* Erasing and editing.                                                     *)

(* Erasing, in its modes.                                                   *)
LEMMA DisplayCleared ==
  ASSUME NEW w \in Nat, NEW h \in Nat, NEW t \in Terminals(w, h),
         NEW mode \in {"below", "above", "all", "scrollback"}
  PROVE  Steady(t, ApplyClearDisplay(t, mode), w, h)
<1> DEFINE row == Clamp(t.cursor.row, t.grid.height)
           col == Clamp(t.cursor.col, t.grid.width)
           below == ClearRows(ClearRange(t.grid, row, col, t.grid.width), (row + 1)..(t.grid.height - 1))
           above == ClearRange(ClearRows(t.grid, 0..(row - 1)), row, 0, col + 1)
           u == ApplyClearDisplay(t, mode)
<1>1. t.grid \in Grids(w, h) /\ t.grid.width = w /\ t.grid.height = h
      /\ t.cursor.row \in Nat /\ t.cursor.col \in Nat
  BY TerminalParts
<1>2. row \in Nat /\ col \in Nat /\ col + 1 \in Int BY <1>1 DEF Clamp, AtMost, SaturatingSub
<1>3. CASE IsEmpty(t.grid) BY <1>3, Composed DEF ApplyClearDisplay, OnGrid
<1>4. CASE ~IsEmpty(t.grid) /\ mode = "below"
  <2>1. u = [t EXCEPT !.grid = below] BY <1>4 DEF ApplyClearDisplay, OnGrid
  <2> HIDE DEF row, col
  <2>2. ClearRange(t.grid, row, col, t.grid.width) \in Grids(w, h)
    <3>1. \A from, to \in Int : ClearRange(t.grid, row, from, to) \in Grids(w, h) BY <1>1, <1>2, RowEdited
    <3>2. col \in Int /\ t.grid.width \in Int BY <1>1, <1>2
    <3> QED BY <3>1, <3>2
  <2>3. below \in Grids(w, h) BY <2>2, RowsCleared
  <2> HIDE DEF below, u
  <2>4. Steady(t, [t EXCEPT !.grid = below], w, h) BY <2>3, GridSet
  <2> QED BY <2>1, <2>4, Zenon DEF u
<1>5. CASE ~IsEmpty(t.grid) /\ mode = "above"
  <2>1. u = [t EXCEPT !.grid = above] BY <1>5 DEF ApplyClearDisplay, OnGrid
  <2> HIDE DEF row, col
  <2>2. ClearRows(t.grid, 0..(row - 1)) \in Grids(w, h) BY <1>1, RowsCleared
  <2>3. above \in Grids(w, h) BY <1>2, <2>2, RowEdited
  <2> HIDE DEF above, u
  <2>4. Steady(t, [t EXCEPT !.grid = above], w, h) BY <2>3, GridSet
  <2> QED BY <2>1, <2>4, Zenon DEF u
<1>6. CASE ~IsEmpty(t.grid) /\ mode = "all"
  <2> DEFINE new == ClearGrid(t.grid)
  <2>1. u = [t EXCEPT !.grid = new] BY <1>6 DEF ApplyClearDisplay, OnGrid
  <2>2. new \in Grids(w, h) BY <1>1, BlankTypes DEF ClearGrid
  <2> HIDE DEF new, u
  <2>3. Steady(t, [t EXCEPT !.grid = new], w, h) BY <2>2, GridSet
  <2> QED BY <2>1, <2>3, Zenon DEF u
<1>7. CASE ~IsEmpty(t.grid) /\ mode = "scrollback"
  <2> DEFINE b == [t.scrollback EXCEPT !.lines = <<>>]
  <2>1. u = [t EXCEPT !.scrollback.lines = <<>>] BY <1>7 DEF ApplyClearDisplay, OnGrid
  <2>2. Made([t EXCEPT !.scrollback.lines = <<>>], t.grid, t.cursor, b, t.saved, t.region, t.origin,
             t.autoWrap, t.tabs, t.last, t.alternate)
    BY MadeOf, MadeSet
  <2>3. t.scrollback \in Scrollbacks /\ t.cursor \in Cursors /\ OnColumns(t.cursor, w, h)
        /\ t.last \in Narrow \cup Wide \cup {None}
    BY TerminalParts
  <2>4. b \in Scrollbacks /\ b.cap = t.scrollback.cap
    <3>1. t.scrollback = [cap |-> t.scrollback.cap, lines |-> t.scrollback.lines] /\ t.scrollback.cap \in Nat
      BY <2>3 DEF Scrollbacks
    <3>2. b = [cap |-> t.scrollback.cap, lines |-> <<>>] BY <3>1
    <3> HIDE DEF b
    <3>3. <<>> \in Seq(Seq(Cells)) /\ Len(<<>>) = 0 OBVIOUS
    <3>4. b.cap = t.scrollback.cap /\ b.lines = <<>> BY <3>2
    <3>5. b \in [cap : Nat, lines : Seq(Seq(Cells))] BY <3>1, <3>2, <3>3
    <3> QED BY <3>1, <3>3, <3>4, <3>5 DEF Scrollbacks
  <2> HIDE DEF b, u
  <2>5. Made(u, t.grid, t.cursor, b, t.saved, t.region, t.origin, t.autoWrap, t.tabs, t.last, t.alternate)
    BY <2>1, <2>2, Zenon
  <2>6. Edited(t, u, t.grid, t.cursor, b, t.last) BY <2>5, MadeParts DEF Edited
  <2>7. u \in Terminals(w, h) BY <1>1, <2>3, <2>4, <2>6, TerminalEdited
  <2>8. Steady(t, u, w, h) BY <2>6, <2>7 DEF Steady, SameRest, Edited
  <2> QED BY <2>8 DEF u
<1> QED BY <1>3, <1>4, <1>5, <1>6, <1>7

LEMMA LineCleared ==
  ASSUME NEW w \in Nat, NEW h \in Nat, NEW t \in Terminals(w, h), NEW mode \in {"right", "left", "all"}
  PROVE  Steady(t, ApplyClearLine(t, mode), w, h)
<1> DEFINE row == Clamp(t.cursor.row, t.grid.height)
           col == Clamp(t.cursor.col, t.grid.width)
           g == CASE mode = "right" -> ClearRange(t.grid, row, col, t.grid.width)
                  [] mode = "left"  -> ClearRange(t.grid, row, 0, col + 1)
                  [] mode = "all"   -> ClearRow(t.grid, row)
           u == ApplyClearLine(t, mode)
<1>1. t.grid \in Grids(w, h) /\ t.grid.width = w /\ t.cursor.row \in Nat /\ t.cursor.col \in Nat
      /\ t.grid.height = h
  BY TerminalParts
<1>2. row \in Nat /\ col \in Nat /\ col + 1 \in Int BY <1>1 DEF Clamp, AtMost, SaturatingSub
<1>3. CASE IsEmpty(t.grid) BY <1>3, Composed DEF ApplyClearLine, OnGrid
<1>4. CASE ~IsEmpty(t.grid)
  <2>1. u = [t EXCEPT !.grid = g] BY <1>4, Zenon DEF ApplyClearLine, OnGrid
  <2> HIDE DEF row, col
  <2>2. /\ ClearRange(t.grid, row, col, t.grid.width) \in Grids(w, h)
        /\ ClearRange(t.grid, row, 0, col + 1) \in Grids(w, h)
        /\ ClearRow(t.grid, row) \in Grids(w, h)
    BY <1>1, <1>2, RowEdited
  <2>3. g \in Grids(w, h) BY <2>2
  <2> HIDE DEF g, u
  <2>4. Steady(t, [t EXCEPT !.grid = g], w, h) BY <2>3, GridSet
  <2> QED BY <2>1, <2>4, Zenon DEF u
<1> QED BY <1>3, <1>4

(* Erasing, inserting and deleting characters.                              *)
LEMMA CharsEdited ==
  ASSUME NEW w \in Nat, NEW h \in Nat, NEW t \in Terminals(w, h), NEW n \in Nat
  PROVE  /\ Steady(t, ApplyEraseChars(t, n), w, h)
         /\ Steady(t, ApplyInsertChars(t, n), w, h)
         /\ Steady(t, ApplyDeleteChars(t, n), w, h)
<1>1. t.grid \in Grids(w, h) /\ t.cursor.row \in Nat /\ t.cursor.col \in Nat BY TerminalParts
<1>2. /\ EraseChars(t.grid, t.cursor.row, t.cursor.col, n) \in Grids(w, h)
      /\ InsertChars(t.grid, t.cursor.row, t.cursor.col, n) \in Grids(w, h)
      /\ DeleteChars(t.grid, t.cursor.row, t.cursor.col, n) \in Grids(w, h)
  BY <1>1, CharsErased, CharsInserted, CharsDeleted
<1>3. \A g \in Grids(w, h) : Steady(t, [t EXCEPT !.grid = g], w, h) BY GridSet
<1> QED BY <1>2, <1>3 DEF ApplyEraseChars, ApplyInsertChars, ApplyDeleteChars

(* Lines are inserted and deleted between the margins.                      *)
LEMMA LinesEdited ==
  ASSUME NEW w \in Nat, NEW h \in Nat, NEW t \in Terminals(w, h), NEW n \in Nat
  PROVE  /\ Steady(t, ApplyInsertLines(t, n), w, h) /\ \A but : Guarded(t, ApplyInsertLines(t, n), but, h)
         /\ Steady(t, ApplyDeleteLines(t, n), w, h) /\ \A but : Guarded(t, ApplyDeleteLines(t, n), but, h)
<1> DEFINE row == t.cursor.row  top == ScrollTop(t)  bottom == ScrollBottom(t)
           first == AtMost(row, Clamp(bottom, h))  last == Clamp(bottom, h)
           g1 == InsertLines(t.grid, row, n, bottom)
           g2 == DeleteLines(t.grid, row, n, bottom)
           Fine(x) == Steady(t, x, w, h) /\ \A but : Guarded(t, x, but, h)
<1>1. t.grid \in Grids(w, h) /\ row \in Nat BY TerminalParts
<1>2. /\ top \in Nat /\ bottom \in Nat /\ top <= bottom
      /\ RegionStale(t) \/ h = 0 \/ bottom < h
  BY MarginsOf
<1>3. CASE ~BetweenMargins(t)
  <2>1. ApplyInsertLines(t, n) = t /\ ApplyDeleteLines(t, n) = t
    BY <1>3 DEF ApplyInsertLines, ApplyDeleteLines
  <2> QED BY <2>1, Composed
<1>4. CASE BetweenMargins(t)
  <2>1. top <= row /\ row <= bottom BY <1>4 DEF BetweenMargins
  <2>2. /\ ScrolledGrid(t.grid, g1, first, last, w, h) /\ ScrolledGrid(t.grid, g2, first, last, w, h)
    <3> HIDE DEF row, bottom
    <3> QED BY <1>1, <1>2, LinesScrolled
  <2>3. RegionStale(t) \/ h = 0 \/ (first = row /\ last = bottom)
    <3> HIDE DEF row, top, bottom
    <3> QED BY <1>1, <1>2, <2>1 DEF Clamp, AtMost, SaturatingSub
  <2> HIDE DEF first, last
  <2>4. ASSUME NEW g, ScrolledGrid(t.grid, g, first, last, w, h)
        PROVE  Fine([t EXCEPT !.grid = g])
    <3> DEFINE u == [t EXCEPT !.grid = g]
    <3>1. Steady(t, u, w, h) /\ u.grid = g BY <2>4, GridSet DEF ScrolledGrid
    <3> HIDE DEF u
    <3>2. /\ \A r \in 1..h : r <= first \/ r > last + 1 => g.rows[r] = t.grid.rows[r]
          /\ Paired(t.grid) => Paired(g)
      BY <2>4 DEF ScrolledGrid
    <3>3. \A r \in 1..h : RegionStale(t) \/ (top < r /\ r <= bottom + 1) \/ g.rows[r] = t.grid.rows[r]
      <4> HIDE DEF row, top, bottom
      <4> QED BY <1>1, <1>2, <2>1, <2>3, <3>2
    <3>4. \A but : Guarded(t, u, but, h) BY <3>1, <3>2, <3>3 DEF Guarded, Shielded
    <3> QED BY <3>1, <3>4 DEF u
  <2>5. ApplyInsertLines(t, n) = [t EXCEPT !.grid = g1] /\ ApplyDeleteLines(t, n) = [t EXCEPT !.grid = g2]
    BY <1>4 DEF ApplyInsertLines, ApplyDeleteLines
  <2> HIDE DEF g1, g2, Fine
  <2>6. Fine([t EXCEPT !.grid = g1]) /\ Fine([t EXCEPT !.grid = g2]) BY <2>2, <2>4
  <2>7. Fine(ApplyInsertLines(t, n)) /\ Fine(ApplyDeleteLines(t, n)) BY <2>5, <2>6
  <2> QED BY <2>7 DEF Fine
<1> QED BY <1>3, <1>4

-----------------------------------------------------------------------------
(* Modes, margins, saved cursor and alternate screen.                       *)

(* What every step but a resize makes of a terminal.                        *)
Isolated(t, u) ==
  t.alternate # None \/ u.alternate # None =>
    \/ Primary(u) = Primary(t)
    \/ t.alternate # None /\ u.alternate = None /\ ~CursorInside(ScreenOf(Primary(t)))
InBounds(t, u) ==
  /\ \E w, h \in Nat : u \in Terminals(w, h)
  /\ CursorInside(t) /\ ~CursorInside(u) => RegionStale(t)
  /\ RegionStale(u) => RegionStale(t) \/ (t.alternate # None /\ u.alternate = None)
Sound(t, u) == InBounds(t, u) /\ Isolated(t, u)

(* A steady step is sound.                                                  *)
LEMMA SteadyIsSound ==
  ASSUME NEW w \in Nat, NEW h \in Nat, NEW t \in Terminals(w, h), NEW u, Steady(t, u, w, h)
  PROVE  Sound(t, u)
<1>1. u \in Terminals(w, h) /\ u.region = t.region /\ u.alternate = t.alternate
      /\ (w = 0 \/ h = 0 \/ RegionStale(t) \/ (t.cursor.row < h => u.cursor.row < h))
  BY DEF Steady, SameRest
<1>2. /\ t.grid.height = h /\ u.grid.height = h /\ (IsEmpty(t.grid) <=> w = 0 \/ h = 0)
      /\ (IsEmpty(u.grid) <=> w = 0 \/ h = 0)
  BY <1>1, TerminalParts
<1>3. InBounds(t, u) BY <1>1, <1>2 DEF InBounds, CursorInside, RegionStale
<1>4. Isolated(t, u) BY <1>1 DEF Isolated, Primary
<1> QED BY <1>3, <1>4 DEF Sound

(* A terminal whose margins or modes change, on the same screen.            *)
LEMMA ModesSet ==
  ASSUME NEW w \in Nat, NEW h \in Nat, NEW t \in Terminals(w, h),
         NEW c \in Cursors, OnColumns(c, w, h), w = 0 \/ h = 0 \/ RegionStale(t) \/ (t.cursor.row < h => c.row < h),
         NEW s \in SavedCursors, NEW r \in MarginPairs, r = t.region \/ r = None \/ r[2] < h,
         NEW o \in BOOLEAN, NEW a \in BOOLEAN, NEW k \in Seq(BOOLEAN), Len(k) = w,
         NEW u, Made(u, t.grid, c, t.scrollback, s, r, o, a, k, t.last, t.alternate)
  PROVE  Sound(t, u)
<1>1. /\ t.grid \in Grids(w, h) /\ t.scrollback \in Scrollbacks
      /\ t.last \in Narrow \cup Wide \cup {None} /\ t.alternate \in Asides(w, h) \cup {None}
      /\ t.alternate # None => t.scrollback.cap = 0
      /\ t.grid.height = h /\ (IsEmpty(t.grid) <=> w = 0 \/ h = 0)
  BY TerminalParts
<1>2. /\ Whole(u) /\ u.grid = t.grid /\ u.cursor = c /\ u.scrollback = t.scrollback /\ u.saved = s
      /\ u.region = r /\ u.origin = o /\ u.autoWrap = a /\ u.tabs = k /\ u.last = t.last
      /\ u.alternate = t.alternate
  BY MadeParts
<1>3. u \in Terminals(w, h) BY <1>1, <1>2, TerminalMade
<1>4. CursorInside(t) /\ ~CursorInside(u) => RegionStale(t) BY <1>1, <1>2 DEF CursorInside
<1>5. RegionStale(u) => RegionStale(t)
  <2>1. r = None \/ (r[2] \in Nat) BY DEF MarginPairs
  <2> QED BY <1>1, <1>2, <2>1 DEF RegionStale
<1>6. Isolated(t, u) BY <1>2 DEF Isolated, Primary
<1> QED BY <1>3, <1>4, <1>5, <1>6 DEF Sound, InBounds

(* Margins set are in order and on the screen.                              *)
LEMMA RegionSet ==
  ASSUME NEW w \in Nat, NEW h \in Nat, NEW t \in Terminals(w, h), NEW top \in Nat, NEW bottom \in Nat
  PROVE  Sound(t, ApplySetScrollRegion(t, top, bottom))
<1> DEFINE first == Clamp(top, t.grid.height)
           last == Clamp(bottom, t.grid.height)
           region == CASE first = 0 /\ last = t.grid.height - 1 -> None
                       [] ~(first = 0 /\ last = t.grid.height - 1) /\ first <= last -> <<first, last>>
                       [] OTHER -> t.region
           c == [row |-> 0, col |-> 0, pending |-> t.cursor.pending]
           u == ApplySetScrollRegion(t, top, bottom)
<1>1. /\ t.grid.height = h /\ t.region \in MarginPairs /\ t.saved \in SavedCursors /\ t.origin \in BOOLEAN
      /\ t.autoWrap \in BOOLEAN /\ t.tabs \in Seq(BOOLEAN) /\ Len(t.tabs) = w
      /\ t.cursor.pending \in BOOLEAN /\ (IsEmpty(t.grid) <=> w = 0 \/ h = 0) /\ t.cursor \in Cursors
  BY TerminalParts
<1>2. CASE IsEmpty(t.grid)
  <2>1. u = t BY <1>2 DEF ApplySetScrollRegion, OnGrid
  <2> QED BY <2>1, Composed, SteadyIsSound
<1>3. CASE ~IsEmpty(t.grid)
  <2>1. first \in Nat /\ last \in Nat /\ last < h BY <1>1, <1>3 DEF Clamp, AtMost, SaturatingSub
  <2> HIDE DEF first, last
  <2>2. region \in MarginPairs /\ (region = t.region \/ region = None \/ region[2] < h)
    <3>1. CASE first = 0 /\ last = t.grid.height - 1 BY <3>1 DEF MarginPairs
    <3>2. CASE ~(first = 0 /\ last = t.grid.height - 1) /\ first <= last
      <4>1. region = <<first, last>> BY <3>2
      <4> QED BY <2>1, <3>2, <4>1 DEF MarginPairs
    <3>3. CASE ~(first = 0 /\ last = t.grid.height - 1) /\ ~(first <= last)
      <4>1. region = t.region BY <3>3
      <4> QED BY <1>1, <4>1
    <3> QED BY <3>1, <3>2, <3>3
  <2>3. u = [t EXCEPT !.region = region, !.cursor.row = 0, !.cursor.col = 0]
    BY <1>3, Zenon DEF ApplySetScrollRegion, OnGrid, region, first, last
  <2> HIDE DEF region, u
  <2> DEFINE x == [t EXCEPT !.region = region]
             y == [x EXCEPT !.cursor.row = 0]
             Of(v, d) == Made(v, t.grid, d, t.scrollback, t.saved, region, t.origin, t.autoWrap, t.tabs,
                              t.last, t.alternate)
  <2>4. Of(x, t.cursor) BY MadeOf, MadeSet
  <2> HIDE DEF x
  <2>5. Of(y, [t.cursor EXCEPT !.row = 0]) BY <2>4, MadeSet
  <2> HIDE DEF y
  <2>6. Of([y EXCEPT !.cursor.col = 0], [[t.cursor EXCEPT !.row = 0] EXCEPT !.col = 0]) BY <2>5, MadeSet
  <2>7. [[t.cursor EXCEPT !.row = 0] EXCEPT !.col = 0] = c
    <3> DEFINE d == [t.cursor EXCEPT !.row = 0]
    <3>1. d = [row |-> 0, col |-> t.cursor.col, pending |-> t.cursor.pending] BY <1>1, CursorParts
    <3> HIDE DEF d
    <3>2. [d EXCEPT !.col = 0] = c BY <3>1
    <3> QED BY <3>2, Zenon DEF d
  <2>8. Of([y EXCEPT !.cursor.col = 0], c) BY <2>6, <2>7
  <2>9. Of(u, c) BY <2>3, <2>8, Zenon DEF x, y
  <2>10. c \in Cursors /\ OnColumns(c, w, h) /\ c.row < h
    <3>1. w > 0 /\ h > 0 BY <1>1, <1>3
    <3> QED BY <1>1, <3>1 DEF Cursors, OnColumns
  <2> HIDE DEF c
  <2>11. Sound(t, u) BY <1>1, <2>2, <2>9, <2>10, ModesSet
  <2> QED BY <2>11 DEF u
<1> QED BY <1>2, <1>3

(* Origin mode sends the cursor to the top margin; auto-wrap is a flag.     *)
LEMMA OriginSet ==
  ASSUME NEW w \in Nat, NEW h \in Nat, NEW t \in Terminals(w, h), NEW enabled \in BOOLEAN
  PROVE  /\ Sound(t, SetOriginMode(t, enabled))
         /\ Sound(t, [t EXCEPT !.autoWrap = enabled])
<1> DEFINE row == ScrollTop(t)
           c == [row |-> row, col |-> 0, pending |-> t.cursor.pending]
           Of(v, d, o, a) == Made(v, t.grid, d, t.scrollback, t.saved, t.region, o, a, t.tabs,
                                  t.last, t.alternate)
<1>1. /\ t.region \in MarginPairs /\ t.saved \in SavedCursors /\ t.origin \in BOOLEAN
      /\ t.autoWrap \in BOOLEAN /\ t.tabs \in Seq(BOOLEAN) /\ Len(t.tabs) = w
      /\ t.cursor.pending \in BOOLEAN /\ t.cursor \in Cursors /\ OnColumns(t.cursor, w, h)
  BY TerminalParts
<1>2. row \in Nat /\ (RegionStale(t) \/ h = 0 \/ row < h) BY MarginsOf
<1>3. Of(t, t.cursor, t.origin, t.autoWrap) BY MadeOf
<1>4. Sound(t, [t EXCEPT !.autoWrap = enabled])
  <2> DEFINE u == [t EXCEPT !.autoWrap = enabled]
  <2>1. Of(u, t.cursor, t.origin, enabled) BY <1>3, MadeSet
  <2> HIDE DEF u
  <2>2. Sound(t, u) BY <1>1, <2>1, ModesSet
  <2> QED BY <2>2 DEF u
<1>5. CASE ~enabled
  <2> DEFINE no == FALSE
             u == [t EXCEPT !.origin = no]
  <2>1. SetOriginMode(t, enabled) = u BY <1>5 DEF SetOriginMode
  <2>2. no \in BOOLEAN OBVIOUS
  <2> HIDE DEF no
  <2>3. Of(u, t.cursor, no, t.autoWrap) BY <1>3, MadeSet
  <2> HIDE DEF u
  <2>4. Sound(t, u) BY <1>1, <2>2, <2>3, ModesSet
  <2> QED BY <1>4, <2>1, <2>4
<1>6. CASE enabled
  <2> HIDE DEF row
  <2> DEFINE yes == TRUE
             x == [t EXCEPT !.origin = yes]
             y == [x EXCEPT !.cursor.row = row]
             u == SetOriginMode(t, enabled)
  <2>1. u = [t EXCEPT !.origin = yes, !.cursor.row = row, !.cursor.col = 0]
    BY <1>6, Zenon DEF SetOriginMode, row
  <2>2. yes \in BOOLEAN OBVIOUS
  <2> HIDE DEF yes
  <2>3. Of(x, t.cursor, yes, t.autoWrap) BY <1>3, MadeSet
  <2> HIDE DEF x, u
  <2>4. Of(y, [t.cursor EXCEPT !.row = row], yes, t.autoWrap) BY <2>3, MadeSet
  <2> HIDE DEF y
  <2>5. Of([y EXCEPT !.cursor.col = 0], [[t.cursor EXCEPT !.row = row] EXCEPT !.col = 0], yes, t.autoWrap)
    BY <2>4, MadeSet
  <2>6. [[t.cursor EXCEPT !.row = row] EXCEPT !.col = 0] = c
    <3> DEFINE d == [t.cursor EXCEPT !.row = row]
    <3>1. d = [row |-> row, col |-> t.cursor.col, pending |-> t.cursor.pending] BY <1>1, CursorParts
    <3> HIDE DEF d
    <3>2. [d EXCEPT !.col = 0] = c BY <3>1
    <3> QED BY <3>2, Zenon DEF d
  <2>7. Of([y EXCEPT !.cursor.col = 0], c, yes, t.autoWrap) BY <2>5, <2>6
  <2>8. Of(u, c, yes, t.autoWrap) BY <2>1, <2>7, Zenon DEF x, y
  <2>9. c \in Cursors /\ OnColumns(c, w, h) /\ c.row = row BY <1>1, <1>2 DEF Cursors, OnColumns
  <2> HIDE DEF c
  <2>10. Sound(t, u) BY <1>1, <1>2, <2>2, <2>8, <2>9, ModesSet
  <2> QED BY <1>4, <2>10 DEF u
<1> QED BY <1>4, <1>5, <1>6

(* Tab stops stay one for each column.                                      *)
LEMMA TabsSet ==
  ASSUME NEW w \in Nat, NEW h \in Nat, NEW t \in Terminals(w, h), NEW all \in BOOLEAN
  PROVE  Sound(t, ApplyHorizontalTabSet(t)) /\ Sound(t, ApplyTabClear(t, all))
<1> DEFINE Of(v, k) == Made(v, t.grid, t.cursor, t.scrollback, t.saved, t.region, t.origin, t.autoWrap,
                            k, t.last, t.alternate)
           i == t.cursor.col + 1
<1>1. /\ t.region \in MarginPairs /\ t.saved \in SavedCursors /\ t.origin \in BOOLEAN
      /\ t.autoWrap \in BOOLEAN /\ t.tabs \in Seq(BOOLEAN) /\ Len(t.tabs) = w
      /\ t.cursor \in Cursors /\ OnColumns(t.cursor, w, h) /\ t.cursor.col \in Nat
  BY TerminalParts
<1>2. ASSUME NEW v, NEW k \in Seq(BOOLEAN), Len(k) = w, Of(v, k) PROVE Sound(t, v)
  BY <1>1, <1>2, ModesSet
<1>3. Sound(t, t) BY Composed, SteadyIsSound
<1>4. Of(t, t.tabs) BY MadeOf
<1>5. ASSUME NEW x \in BOOLEAN, t.cursor.col < Len(t.tabs)
      PROVE  Sound(t, [t EXCEPT !.tabs[i] = x])
  <2> DEFINE k == t.tabs
             new == [k EXCEPT ![i] = x]
  <2>1. k \in Seq(BOOLEAN) /\ Len(k) = w /\ i \in 1..Len(k) BY <1>1, <1>5
  <2> HIDE DEF k, i
  <2>2. new \in Seq(BOOLEAN) /\ Len(new) = w BY <2>1, ExceptSeq
  <2>3. Of([t EXCEPT !.tabs = new], new) BY <1>4, MadeSet
  <2> HIDE DEF new
  <2>4. Sound(t, [t EXCEPT !.tabs = new]) BY <1>2, <2>2, <2>3
  <2>5. [t EXCEPT !.tabs = new] = [t EXCEPT !.tabs[i] = x] BY DEF new, k
  <2> QED BY <2>4, <2>5
<1>6. Sound(t, [t EXCEPT !.tabs = [j \in DOMAIN t.tabs |-> FALSE]])
  <2> DEFINE new == [j \in DOMAIN t.tabs |-> FALSE]
  <2>1. DOMAIN t.tabs = 1..w BY <1>1
  <2>2. new \in Seq(BOOLEAN) /\ Len(new) = w BY <2>1
  <2>3. Of([t EXCEPT !.tabs = new], new) BY <1>4, MadeSet
  <2> HIDE DEF new
  <2>4. Sound(t, [t EXCEPT !.tabs = new]) BY <1>2, <2>2, <2>3
  <2> QED BY <2>4 DEF new
<1>7. TRUE \in BOOLEAN /\ FALSE \in BOOLEAN OBVIOUS
<1> HIDE DEF Of
<1> QED BY <1>3, <1>5, <1>6, <1>7 DEF ApplyHorizontalTabSet, ApplyTabClear

(* The cursor is saved and restored.                                        *)
LEMMA CursorKept ==
  ASSUME NEW w \in Nat, NEW h \in Nat, NEW t \in Terminals(w, h)
  PROVE  Sound(t, ApplyCursorSave(t)) /\ Sound(t, ApplyCursorRestore(t))
<1> DEFINE Of(v, c, s, o) == Made(v, t.grid, c, t.scrollback, s, t.region, o, t.autoWrap,
                                  t.tabs, t.last, t.alternate)
<1>1. /\ t.grid.height = h /\ t.grid.width = w /\ (IsEmpty(t.grid) <=> w = 0 \/ h = 0)
      /\ t.region \in MarginPairs /\ t.saved \in SavedCursors /\ t.origin \in BOOLEAN
      /\ t.autoWrap \in BOOLEAN /\ t.tabs \in Seq(BOOLEAN) /\ Len(t.tabs) = w
      /\ t.cursor \in Cursors /\ OnColumns(t.cursor, w, h) /\ t.cursor.row \in Nat
  BY TerminalParts
<1>2. Of(t, t.cursor, t.saved, t.origin) BY MadeOf
<1>3. Sound(t, ApplyCursorSave(t))
  <2> DEFINE new == [cursor |-> t.cursor, origin |-> t.origin]
             u == [t EXCEPT !.saved = new]
  <2>1. new \in SavedCursors BY <1>1 DEF SavedCursors
  <2>2. Of(u, t.cursor, new, t.origin) BY <1>2, MadeSet
  <2> HIDE DEF new, u
  <2>3. Sound(t, u) BY <1>1, <2>1, <2>2, ModesSet
  <2> QED BY <2>3 DEF ApplyCursorSave, u, new
<1>4. CASE t.saved = None
  <2>1. ApplyCursorRestore(t) = t BY <1>4 DEF ApplyCursorRestore
  <2> QED BY <1>3, <2>1, Composed, SteadyIsSound
<1>5. CASE t.saved # None
  <2> DEFINE c == t.saved.cursor  o == t.saved.origin
             x == [t EXCEPT !.cursor = c]
             y == [t EXCEPT !.cursor = c, !.origin = o]
             u == ClampCursor(y)
             d == [row |-> Clamp(c.row, h), col |-> Clamp(c.col, w), pending |-> c.pending]
  <2>1. c \in Cursors /\ o \in BOOLEAN BY <1>1, <1>5 DEF SavedCursors
  <2>2. ApplyCursorRestore(t) = u BY <1>5, Zenon DEF ApplyCursorRestore
  <2>3. Of(y, c, t.saved, o)
    <3> HIDE DEF c, o
    <3>1. Of(x, c, t.saved, t.origin) BY <1>2, MadeSet
    <3> HIDE DEF x
    <3>2. Of([x EXCEPT !.origin = o], c, t.saved, o) BY <3>1, MadeSet
    <3> QED BY <3>2, Zenon DEF x
  <2>4. c.row \in Nat /\ c.col \in Nat /\ c.pending \in BOOLEAN BY <2>1 DEF Cursors
  <2>5. y.grid = t.grid BY <2>3, MadeParts
  <2> HIDE DEF c, o, y
  <2>6. CASE IsEmpty(t.grid)
    <3>1. u = y BY <2>5, <2>6 DEF ClampCursor, OnGrid
    <3>2. OnColumns(c, w, h) BY <1>1, <2>6 DEF OnColumns
    <3>3. Sound(t, y) BY <1>1, <2>1, <2>3, <2>6, <3>2, ModesSet
    <3> QED BY <1>3, <2>2, <3>1, <3>3
  <2>7. CASE ~IsEmpty(t.grid)
    <3>1. Of(u, d, t.saved, o) BY <1>1, <2>1, <2>3, <2>7, Clamped
    <3>2. w > 0 /\ h > 0 BY <1>1, <2>7
    <3>3. Clamp(c.row, h) \in Nat /\ Clamp(c.col, w) \in Nat /\ Clamp(c.row, h) < h /\ Clamp(c.col, w) < w
      BY <2>4, <3>2 DEF Clamp, AtMost, SaturatingSub
    <3>4. d \in Cursors /\ OnColumns(d, w, h) /\ d.row < h BY <2>4, <3>3 DEF Cursors, OnColumns
    <3> HIDE DEF d, u
    <3>5. Sound(t, u) BY <1>1, <2>1, <3>1, <3>4, ModesSet
    <3> QED BY <1>3, <2>2, <3>5 DEF u
  <2> QED BY <2>6, <2>7
<1> QED BY <1>4, <1>5

(* What an alternate screen puts aside is a screen, and comes back whole.   *)
LEMMA AsideParts ==
  ASSUME NEW w \in Nat, NEW h \in Nat, NEW a \in Asides(w, h)
  PROVE  /\ a.grid \in Grids(w, h) /\ a.grid.width = w /\ a.grid.height = h
         /\ a.cursor \in Cursors /\ OnColumns(a.cursor, w, h)
         /\ a.cursor.row \in Nat /\ a.cursor.col \in Nat /\ a.cursor.pending \in BOOLEAN
         /\ a.scrollback \in Scrollbacks /\ a.saved \in SavedCursors /\ a.region \in MarginPairs
         /\ a.origin \in BOOLEAN /\ a.autoWrap \in BOOLEAN
<1>1. /\ a.grid \in Grids(w, h) /\ a.cursor \in Cursors /\ OnColumns(a.cursor, w, h)
      /\ a.scrollback \in Scrollbacks /\ a.saved \in SavedCursors /\ a.region \in MarginPairs
      /\ a.origin \in BOOLEAN /\ a.autoWrap \in BOOLEAN
  BY DEF Asides
<1>2. a.grid.width = w /\ a.grid.height = h BY <1>1, GridParts
<1>3. a.cursor.row \in Nat /\ a.cursor.col \in Nat /\ a.cursor.pending \in BOOLEAN
  BY <1>1 DEF Cursors
<1> QED BY <1>1, <1>2, <1>3

(* What is put aside is the record of its fields.                           *)
LEMMA AsideRecord ==
  ASSUME NEW w \in Nat, NEW h \in Nat, NEW a \in Asides(w, h)
  PROVE  a = [grid |-> a.grid, cursor |-> a.cursor, scrollback |-> a.scrollback, saved |-> a.saved,
              region |-> a.region, origin |-> a.origin, autoWrap |-> a.autoWrap]
BY DEF Asides

(* Fields of their types make it.                                           *)
LEMMA AsideMade ==
  ASSUME NEW w \in Nat, NEW h \in Nat, NEW g \in Grids(w, h), NEW c \in Cursors, OnColumns(c, w, h),
         NEW b \in Scrollbacks, NEW s \in SavedCursors, NEW r \in MarginPairs,
         NEW o \in BOOLEAN, NEW a \in BOOLEAN, NEW u,
         u = [grid |-> g, cursor |-> c, scrollback |-> b, saved |-> s, region |-> r, origin |-> o,
              autoWrap |-> a]
  PROVE  u \in Asides(w, h)
<1>1. u.cursor = c OBVIOUS
<1>2. u \in [grid : Grids(w, h), cursor : Cursors, scrollback : Scrollbacks, saved : SavedCursors,
             region : MarginPairs, origin : BOOLEAN, autoWrap : BOOLEAN]
  OBVIOUS
<1> QED BY <1>1, <1>2 DEF Asides

(* Entering puts the screen aside as it is.                                 *)
LEMMA AlternateEntered ==
  ASSUME NEW w \in Nat, NEW h \in Nat, NEW t \in Terminals(w, h)
  PROVE  Sound(t, ApplyAlternateScreenEnter(t)) /\ Sound(t, ApplyAlternateScreenEnterSimple(t))
<1>1. /\ t.grid \in Grids(w, h) /\ t.grid.height = h /\ t.grid.width = w
      /\ (IsEmpty(t.grid) <=> w = 0 \/ h = 0) /\ t.scrollback \in Scrollbacks
      /\ t.region \in MarginPairs /\ t.saved \in SavedCursors /\ t.origin \in BOOLEAN
      /\ t.autoWrap \in BOOLEAN /\ t.tabs \in Seq(BOOLEAN) /\ Len(t.tabs) = w
      /\ t.cursor \in Cursors /\ OnColumns(t.cursor, w, h)
      /\ t.last \in Narrow \cup Wide \cup {None}
  BY TerminalParts
<1>2. CASE t.alternate # None
  <2>1. ApplyAlternateScreenEnter(t) = t /\ ApplyAlternateScreenEnterSimple(t) = t
    BY <1>2 DEF ApplyAlternateScreenEnter, ApplyAlternateScreenEnterSimple, EnterAlternate
  <2> QED BY <2>1, Composed, SteadyIsSound
<1>3. CASE t.alternate = None
  <2>1. ASSUME NEW c \in Cursors, OnColumns(c, w, h), w = 0 \/ h = 0 \/ c.row = 0 \/ c.row = t.cursor.row
        PROVE  Sound(t, EnterAlternate(t, c))
    <3> DEFINE aside == ScreenOf(t)
               new == NewGrid(t.grid.width, t.grid.height)
               b == NewScrollback(0)
               no == FALSE
               x1 == [t EXCEPT !.alternate = aside]
               x2 == [x1 EXCEPT !.grid = new]
               x3 == [x2 EXCEPT !.cursor = c]
               x4 == [x3 EXCEPT !.scrollback = b]
               x5 == [x4 EXCEPT !.saved = None]
               x6 == [x5 EXCEPT !.region = None]
               x7 == [x6 EXCEPT !.origin = no]
               u == EnterAlternate(t, c)
    <3>1. u = x7 BY <1>3, Zenon DEF EnterAlternate
    <3>2. no \in BOOLEAN OBVIOUS
    <3>3. new \in Grids(w, h) BY <1>1, BlankTypes
    <3>4. b \in Scrollbacks /\ b.cap = 0
      <4>1. b = [cap |-> 0, lines |-> <<>>] BY DEF NewScrollback
      <4> HIDE DEF b
      <4>2. <<>> \in Seq(Seq(Cells)) /\ Len(<<>>) = 0 OBVIOUS
      <4> QED BY <4>1, <4>2 DEF Scrollbacks
    <3>5. aside \in Asides(w, h) BY <1>1, AsideMade DEF ScreenOf
    <3> HIDE DEF aside, new, b, no, u
    <3>6. Made(x1, t.grid, t.cursor, t.scrollback, t.saved, t.region, t.origin, t.autoWrap, t.tabs, t.last, aside)
      BY MadeOf, MadeSet
    <3> HIDE DEF x1
    <3>7. Made(x2, new, t.cursor, t.scrollback, t.saved, t.region, t.origin, t.autoWrap, t.tabs, t.last, aside)
      BY <3>6, MadeSet
    <3> HIDE DEF x2
    <3>8. Made(x3, new, c, t.scrollback, t.saved, t.region, t.origin, t.autoWrap, t.tabs, t.last, aside)
      BY <3>7, MadeSet
    <3> HIDE DEF x3
    <3>9. Made(x4, new, c, b, t.saved, t.region, t.origin, t.autoWrap, t.tabs, t.last, aside)
      BY <3>8, MadeSet
    <3> HIDE DEF x4
    <3>10. Made(x5, new, c, b, None, t.region, t.origin, t.autoWrap, t.tabs, t.last, aside)
      BY <3>9, MadeSet
    <3> HIDE DEF x5
    <3>11. Made(x6, new, c, b, None, None, t.origin, t.autoWrap, t.tabs, t.last, aside)
      BY <3>10, MadeSet
    <3> HIDE DEF x6
    <3>12. Made(x7, new, c, b, None, None, no, t.autoWrap, t.tabs, t.last, aside)
      BY <3>11, MadeSet
    <3> HIDE DEF x7
    <3>13. /\ Whole(u) /\ u.grid = new /\ u.cursor = c /\ u.scrollback = b /\ u.saved = None
           /\ u.region = None /\ u.origin = no /\ u.autoWrap = t.autoWrap /\ u.tabs = t.tabs
           /\ u.last = t.last /\ u.alternate = aside
      BY <3>1, <3>12, MadeParts
    <3>14. u \in Terminals(w, h)
      <4>1. None \in SavedCursors /\ None \in MarginPairs BY DEF SavedCursors, MarginPairs
      <4> QED BY <1>1, <2>1, <3>2, <3>3, <3>4, <3>5, <3>13, <4>1, TerminalMade
    <3>15. u.grid.height = h /\ u.grid.width = w /\ (IsEmpty(u.grid) <=> w = 0 \/ h = 0)
      BY <3>14, TerminalParts
    <3>16. CursorInside(t) => CursorInside(u) BY <1>1, <2>1, <3>13, <3>15 DEF CursorInside
    <3>17. ~RegionStale(u) BY <3>13 DEF RegionStale
    <3>18. InBounds(t, u) BY <3>14, <3>16, <3>17 DEF InBounds
    <3>19. Isolated(t, u) BY <1>3, <3>13 DEF Isolated, Primary, aside
    <3> QED BY <3>18, <3>19 DEF Sound, u
  <2>2. HomeCursor \in Cursors /\ OnColumns(HomeCursor, w, h) /\ HomeCursor.row = 0
    BY DEF HomeCursor, Cursors, OnColumns
  <2> QED BY <1>1, <2>1, <2>2 DEF ApplyAlternateScreenEnter, ApplyAlternateScreenEnterSimple
<1> QED BY <1>2, <1>3

(* Leaving shows it again, with the cursor brought onto it.                 *)
LEMMA AlternateLeft ==
  ASSUME NEW w \in Nat, NEW h \in Nat, NEW t \in Terminals(w, h)
  PROVE  Sound(t, ApplyAlternateScreenLeave(t))
<1>1. t.tabs \in Seq(BOOLEAN) /\ Len(t.tabs) = w /\ t.last \in Narrow \cup Wide \cup {None}
      /\ t.alternate \in Asides(w, h) \cup {None}
  BY TerminalParts
<1>2. CASE t.alternate = None
  <2>1. ApplyAlternateScreenLeave(t) = t BY <1>2 DEF ApplyAlternateScreenLeave
  <2> QED BY <2>1, Composed, SteadyIsSound
<1>3. CASE t.alternate # None
  <2> DEFINE a == t.alternate
             g == a.grid  c == a.cursor  b == a.scrollback  s == a.saved  r == a.region
             o == a.origin  m == a.autoWrap
             x1 == [t EXCEPT !.alternate = None]
             x2 == [x1 EXCEPT !.grid = g]
             x3 == [x2 EXCEPT !.cursor = c]
             x4 == [x3 EXCEPT !.scrollback = b]
             x5 == [x4 EXCEPT !.saved = s]
             x6 == [x5 EXCEPT !.region = r]
             x7 == [x6 EXCEPT !.origin = o]
             x8 == [x7 EXCEPT !.autoWrap = m]
             u == ClampCursor(x8)
             d == [row |-> Clamp(c.row, g.height), col |-> Clamp(c.col, g.width), pending |-> c.pending]
             Of(v, e) == Made(v, g, e, b, s, r, o, m, t.tabs, t.last, None)
  <2>1. ApplyAlternateScreenLeave(t) = u BY <1>3, Zenon DEF ApplyAlternateScreenLeave
  <2>2. a \in Asides(w, h) BY <1>1, <1>3
  <2>3. /\ g \in Grids(w, h) /\ g.width = w /\ g.height = h
        /\ c \in Cursors /\ OnColumns(c, w, h)
        /\ c.row \in Nat /\ c.col \in Nat /\ c.pending \in BOOLEAN
        /\ b \in Scrollbacks /\ s \in SavedCursors /\ r \in MarginPairs
        /\ o \in BOOLEAN /\ m \in BOOLEAN
    BY <2>2, AsideParts
  <2>4. a = [grid |-> g, cursor |-> c, scrollback |-> b, saved |-> s, region |-> r, origin |-> o,
             autoWrap |-> m]
    BY <2>2, AsideRecord
  <2> HIDE DEF a, g, c, b, s, r, o, m
  <2>5. Of(x8, c)
    <3>1. Made(x1, t.grid, t.cursor, t.scrollback, t.saved, t.region, t.origin, t.autoWrap, t.tabs, t.last, None)
      BY MadeOf, MadeSet
    <3> HIDE DEF x1
    <3>2. Made(x2, g, t.cursor, t.scrollback, t.saved, t.region, t.origin, t.autoWrap, t.tabs, t.last, None)
      BY <3>1, MadeSet
    <3> HIDE DEF x2
    <3>3. Made(x3, g, c, t.scrollback, t.saved, t.region, t.origin, t.autoWrap, t.tabs, t.last, None)
      BY <3>2, MadeSet
    <3> HIDE DEF x3
    <3>4. Made(x4, g, c, b, t.saved, t.region, t.origin, t.autoWrap, t.tabs, t.last, None)
      BY <3>3, MadeSet
    <3> HIDE DEF x4
    <3>5. Made(x5, g, c, b, s, t.region, t.origin, t.autoWrap, t.tabs, t.last, None) BY <3>4, MadeSet
    <3> HIDE DEF x5
    <3>6. Made(x6, g, c, b, s, r, t.origin, t.autoWrap, t.tabs, t.last, None) BY <3>5, MadeSet
    <3> HIDE DEF x6
    <3>7. Made(x7, g, c, b, s, r, o, t.autoWrap, t.tabs, t.last, None) BY <3>6, MadeSet
    <3> HIDE DEF x7
    <3> QED BY <3>7, MadeSet
  <2> HIDE DEF x8
  <2>6. x8.grid = g BY <2>5, MadeParts
  <2>7. \E e \in Cursors : /\ Of(u, e) /\ OnColumns(e, w, h) /\ (w = 0 \/ h = 0 \/ e.row < h)
                           /\ w = 0 \/ h = 0 \/ c.row < h => e = c
    <3>1. CASE IsEmpty(g)
      <4>1. u = x8 BY <2>6, <3>1 DEF ClampCursor, OnGrid
      <4>2. w = 0 \/ h = 0 BY <2>3, <3>1 DEF IsEmpty
      <4> HIDE DEF Of
      <4> QED BY <2>3, <2>5, <4>1, <4>2
    <3>2. CASE ~IsEmpty(g)
      <4>1. Of(u, d) BY <2>3, <2>5, <3>2, Clamped
      <4>2. w > 0 /\ h > 0 BY <2>3, <3>2 DEF IsEmpty
      <4>3. c.col < w BY <2>3, <4>2 DEF OnColumns
      <4> DEFINE p == Clamp(c.row, g.height)  q == Clamp(c.col, g.width)
      <4>4. p \in Nat /\ q \in Nat /\ p < h /\ q = c.col /\ (c.row < h => p = c.row)
        BY <2>3, <4>2, <4>3 DEF Clamp, AtMost, SaturatingSub
      <4> HIDE DEF p, q
      <4>5. d = [row |-> p, col |-> q, pending |-> c.pending] BY DEF p, q
      <4> HIDE DEF d
      <4>6. d \in Cursors /\ OnColumns(d, w, h) /\ d.row < h BY <2>3, <4>3, <4>4, <4>5 DEF Cursors, OnColumns
      <4>7. c = [row |-> c.row, col |-> c.col, pending |-> c.pending] BY <2>3, CursorRecord
      <4>8. w = 0 \/ h = 0 \/ c.row < h => d = c BY <4>2, <4>4, <4>5, <4>7
      <4> HIDE DEF Of
      <4> QED BY <4>1, <4>6, <4>8
    <3> QED BY <3>1, <3>2
  <2> HIDE DEF u
  <2>8. PICK e \in Cursors : /\ Of(u, e) /\ OnColumns(e, w, h) /\ (w = 0 \/ h = 0 \/ e.row < h)
                             /\ w = 0 \/ h = 0 \/ c.row < h => e = c
    BY <2>7
  <2>9. /\ Whole(u) /\ u.grid = g /\ u.cursor = e /\ u.scrollback = b /\ u.saved = s
        /\ u.region = r /\ u.origin = o /\ u.autoWrap = m /\ u.tabs = t.tabs
        /\ u.last = t.last /\ u.alternate = None
    BY <2>8, MadeParts
  <2>10. u \in Terminals(w, h) BY <1>1, <2>3, <2>8, <2>9, TerminalMade
  <2>11. IsEmpty(g) <=> w = 0 \/ h = 0 BY <2>3 DEF IsEmpty
  <2>12. CursorInside(u) BY <2>3, <2>8, <2>9, <2>11 DEF CursorInside
  <2>13. InBounds(t, u) BY <1>3, <2>9, <2>10, <2>12 DEF InBounds
  <2>14. Isolated(t, u)
    <3>1. Primary(t) = a /\ Primary(u) = ScreenOf(u) BY <1>3, <2>9 DEF Primary, a
    <3>2. ScreenOf(u) = [grid |-> g, cursor |-> e, scrollback |-> b, saved |-> s, region |-> r,
                         origin |-> o, autoWrap |-> m]
      BY <2>9 DEF ScreenOf
    <3>3. CASE w = 0 \/ h = 0 \/ c.row < h
      <4>1. ScreenOf(u) = a BY <2>4, <2>8, <3>2, <3>3
      <4> QED BY <3>1, <4>1 DEF Isolated
    <3>4. CASE ~(w = 0 \/ h = 0 \/ c.row < h)
      <4>1. ScreenOf(a).grid = g /\ ScreenOf(a).cursor = c BY DEF ScreenOf, g, c
      <4>2. ~CursorInside(ScreenOf(a)) BY <2>3, <2>11, <3>4, <4>1 DEF CursorInside
      <4> QED BY <1>3, <2>9, <3>1, <4>2 DEF Isolated
    <3> QED BY <3>3, <3>4
  <2> QED BY <2>1, <2>13, <2>14 DEF Sound
<1> QED BY <1>2, <1>3

-----------------------------------------------------------------------------
(* Resize.                                                                  *)

(* A stop for each column of the new width.                                 *)
LEMMA TabsResized ==
  ASSUME NEW tabs \in Seq(BOOLEAN), NEW w \in Nat
  PROVE  ResizeTabs(tabs, w) \in Seq(BOOLEAN) /\ Len(ResizeTabs(tabs, w)) = w
<1> DEFINE stop(i) == IF i <= Len(tabs) THEN tabs[i] ELSE (i - 1) % TabInterval = 0
<1>1. \A i \in 1..w : stop(i) \in BOOLEAN
  <2> SUFFICES ASSUME NEW i \in 1..w PROVE stop(i) \in BOOLEAN OBVIOUS
  <2>1. CASE i <= Len(tabs)
    <3>1. i \in 1..Len(tabs) BY <2>1
    <3>2. tabs[i] \in BOOLEAN BY <3>1, ElementOfSeq
    <3> QED BY <2>1, <3>2
  <2>2. CASE ~(i <= Len(tabs))
    <3>1. ((i - 1) % TabInterval = 0) \in BOOLEAN OBVIOUS
    <3> QED BY <2>2, <3>1
  <2> QED BY <2>1, <2>2
<1>2. ResizeTabs(tabs, w) = [i \in 1..w |-> stop(i)] BY DEF ResizeTabs
<1> HIDE DEF stop
<1> QED BY <1>1, <1>2

(* What is put aside takes the new size.                                    *)
LEMMA AsideResized ==
  ASSUME NEW w0 \in Nat, NEW h0 \in Nat, NEW a \in Asides(w0, h0), NEW w \in Nat, NEW h \in Nat
  PROVE  ResizeAlternate(a, w, h) \in Asides(w, h)
<1> DEFINE g == a.grid  c == a.cursor  b == a.scrollback  s == a.saved  r == a.region
           o == a.origin  m == a.autoWrap
           new == ResizeGrid(g, w, h)
           row == Clamp(c.row, h)  col == Clamp(c.col, w)
           d == [row |-> row, col |-> col, pending |-> FALSE]
           x == [a EXCEPT !.grid = new]
           u == ResizeAlternate(a, w, h)
<1>1. /\ g \in Grids(w0, h0) /\ c.row \in Nat /\ c.col \in Nat
      /\ b \in Scrollbacks /\ s \in SavedCursors /\ r \in MarginPairs /\ o \in BOOLEAN /\ m \in BOOLEAN
  BY AsideParts
<1>2. a = [grid |-> g, cursor |-> c, scrollback |-> b, saved |-> s, region |-> r, origin |-> o,
           autoWrap |-> m]
  BY AsideRecord
<1>3. u = [a EXCEPT !.grid = new, !.cursor = d] BY Zenon DEF ResizeAlternate
<1> HIDE DEF g, c, b, s, r, o, m, u
<1>4. new \in Grids(w, h) BY <1>1, GridResized
<1>5. row \in Nat /\ col \in Nat /\ (w = 0 \/ h = 0 \/ col < w) BY <1>1 DEF Clamp, AtMost, SaturatingSub
<1> HIDE DEF new, row, col
<1>6. d \in Cursors /\ OnColumns(d, w, h) BY <1>5 DEF Cursors, OnColumns
<1> HIDE DEF d
<1>7. x = [grid |-> new, cursor |-> c, scrollback |-> b, saved |-> s, region |-> r, origin |-> o,
           autoWrap |-> m]
  BY <1>2
<1> HIDE DEF x
<1>8. [x EXCEPT !.cursor = d] = [grid |-> new, cursor |-> d, scrollback |-> b, saved |-> s, region |-> r,
                                 origin |-> o, autoWrap |-> m]
  BY <1>7
<1>9. [x EXCEPT !.cursor = d] \in Asides(w, h) BY <1>1, <1>4, <1>6, <1>8, AsideMade
<1>10. u \in Asides(w, h) BY <1>3, <1>9, Zenon DEF x
<1> QED BY <1>10 DEF u

(* A resize keeps the cursor on the screen and drops the margins.           *)
Resized(t, u, w, h) ==
  LET new == Reflow(t.grid, w, h, t.cursor.row, t.cursor.col)
  IN /\ u \in Terminals(w, h)
     /\ u.grid = new.grid /\ u.scrollback = PushRows(t.scrollback, new.pushed)
     /\ t.alternate = None => u.alternate = None

LEMMA TerminalResized ==
  ASSUME NEW w0 \in Nat, NEW h0 \in Nat, NEW t \in Terminals(w0, h0), NEW w \in Nat, NEW h \in Nat
  PROVE  /\ InBounds(t, ApplyResize(t, w, h))
         /\ Resized(t, ApplyResize(t, w, h), w, h)
<1> DEFINE new == Reflow(t.grid, w, h, t.cursor.row, t.cursor.col)
           g == new.grid
           b == PushRows(t.scrollback, new.pushed)
           c == [row |-> new.row, col |-> new.col, pending |-> FALSE]
           k == ResizeTabs(t.tabs, w)
           e == IF t.alternate = None THEN None ELSE ResizeAlternate(t.alternate, w, h)
           x1 == [t EXCEPT !.grid = g]
           x2 == [x1 EXCEPT !.scrollback = b]
           x3 == [x2 EXCEPT !.cursor = c]
           x4 == [x3 EXCEPT !.region = None]
           x5 == [x4 EXCEPT !.tabs = k]
           x6 == [x5 EXCEPT !.alternate = e]
           u == ApplyResize(t, w, h)
<1>1. /\ t.grid \in Grids(w0, h0) /\ t.grid.height = h0 /\ t.grid.width = w0
      /\ (IsEmpty(t.grid) <=> w0 = 0 \/ h0 = 0) /\ t.scrollback \in Scrollbacks
      /\ t.saved \in SavedCursors /\ t.origin \in BOOLEAN /\ t.autoWrap \in BOOLEAN
      /\ t.tabs \in Seq(BOOLEAN)
      /\ t.cursor.row \in Nat /\ t.cursor.col \in Nat /\ OnColumns(t.cursor, w0, h0)
      /\ t.last \in Narrow \cup Wide \cup {None} /\ t.alternate \in Asides(w0, h0) \cup {None}
      /\ (t.alternate # None => t.scrollback.cap = 0)
  BY TerminalParts
<1>2. u = x6 BY Zenon DEF ApplyResize
<1>3. /\ new.grid \in Grids(w, h) /\ new.pushed \in Seq(Seq(Cells)) /\ new.row \in Nat /\ new.col \in Nat
      /\ w0 = 0 \/ h0 = 0 \/ t.cursor.col < w0 => w = 0 \/ h = 0 \/ new.col < w
      /\ w0 = 0 \/ h0 = 0 \/ t.cursor.row < h0 => w = 0 \/ h = 0 \/ new.row < h
  <2> DEFINE g0 == t.grid  row == t.cursor.row  col == t.cursor.col
  <2>1. g0 \in Grids(w0, h0) /\ row \in Nat /\ col \in Nat BY <1>1
  <2>2. new = Reflow(g0, w, h, row, col) OBVIOUS
  <2> HIDE DEF g0, row, col, new
  <2>3. /\ new.grid \in Grids(w, h) /\ new.pushed \in Seq(Seq(Cells)) /\ new.row \in Nat /\ new.col \in Nat
        /\ w0 = 0 \/ h0 = 0 \/ col < w0 => w = 0 \/ h = 0 \/ new.col < w
        /\ w0 = 0 \/ h0 = 0 \/ row < h0 => w = 0 \/ h = 0 \/ new.row < h
    <3>1. Reflowed(Reflow(g0, w, h, row, col), row, col, w0, h0, w, h) BY <2>1, GridReflowed
    <3>2. Reflowed(new, row, col, w0, h0, w, h) BY <2>2, <3>1
    <3> QED BY <3>2 DEF Reflowed
  <2> QED BY <2>3 DEF row, col
<1>4. b \in Scrollbacks /\ b.cap = t.scrollback.cap BY <1>1, <1>3, RowsPushed
<1>5. c \in Cursors /\ OnColumns(c, w, h) /\ c.row = new.row
  <2> DEFINE row == new.row  col == new.col
  <2>1. row \in Nat /\ col \in Nat /\ (w = 0 \/ h = 0 \/ col < w) BY <1>1, <1>3 DEF OnColumns
  <2> HIDE DEF row, col
  <2>2. [row |-> row, col |-> col, pending |-> FALSE] \in Cursors BY <2>1 DEF Cursors
  <2>3. OnColumns([row |-> row, col |-> col, pending |-> FALSE], w, h) BY <2>1 DEF OnColumns
  <2> QED BY <2>2, <2>3 DEF row, col
<1>6. k \in Seq(BOOLEAN) /\ Len(k) = w BY <1>1, TabsResized
<1>7. e \in Asides(w, h) \cup {None} /\ (e # None => b.cap = 0)
  <2>1. CASE t.alternate = None BY <2>1
  <2>2. CASE t.alternate # None
    <3>1. ResizeAlternate(t.alternate, w, h) \in Asides(w, h) BY <1>1, <2>2, AsideResized
    <3> QED BY <1>1, <1>4, <2>2, <3>1
  <2> QED BY <2>1, <2>2
<1>8. g \in Grids(w, h) BY <1>3
<1>9. CursorInside(t) => w = 0 \/ h = 0 \/ new.row < h BY <1>1, <1>3 DEF CursorInside
<1> HIDE DEF new, g, b, c, k, e, u
<1>10. Made(x1, g, t.cursor, t.scrollback, t.saved, t.region, t.origin, t.autoWrap, t.tabs, t.last, t.alternate)
  BY MadeOf, MadeSet
<1> HIDE DEF x1
<1>11. Made(x2, g, t.cursor, b, t.saved, t.region, t.origin, t.autoWrap, t.tabs, t.last, t.alternate)
  BY <1>10, MadeSet
<1> HIDE DEF x2
<1>12. Made(x3, g, c, b, t.saved, t.region, t.origin, t.autoWrap, t.tabs, t.last, t.alternate)
  BY <1>11, MadeSet
<1> HIDE DEF x3
<1>13. Made(x4, g, c, b, t.saved, None, t.origin, t.autoWrap, t.tabs, t.last, t.alternate)
  BY <1>12, MadeSet
<1> HIDE DEF x4
<1>14. Made(x5, g, c, b, t.saved, None, t.origin, t.autoWrap, k, t.last, t.alternate) BY <1>13, MadeSet
<1> HIDE DEF x5
<1>15. Made(x6, g, c, b, t.saved, None, t.origin, t.autoWrap, k, t.last, e) BY <1>14, MadeSet
<1> HIDE DEF x6
<1>16. /\ Whole(u) /\ u.grid = g /\ u.cursor = c /\ u.scrollback = b /\ u.saved = t.saved
       /\ u.region = None /\ u.origin = t.origin /\ u.autoWrap = t.autoWrap /\ u.tabs = k
       /\ u.last = t.last /\ u.alternate = e
  BY <1>2, <1>15, MadeParts
<1>17. u \in Terminals(w, h)
  <2>1. None \in MarginPairs BY DEF MarginPairs
  <2> QED BY <1>1, <1>4, <1>5, <1>6, <1>7, <1>8, <1>16, <2>1, TerminalMade
<1>18. u.grid.height = h /\ (IsEmpty(u.grid) <=> w = 0 \/ h = 0) BY <1>17, TerminalParts
<1>19. CursorInside(t) => CursorInside(u) BY <1>5, <1>9, <1>16, <1>18 DEF CursorInside
<1>20. ~RegionStale(u) BY <1>16 DEF RegionStale
<1>21. InBounds(t, u) BY <1>17, <1>19, <1>20 DEF InBounds
<1>22. u.grid = new.grid /\ u.scrollback = PushRows(t.scrollback, new.pushed)
  BY <1>16 DEF g, b
<1>23. t.alternate = None => u.alternate = None BY <1>16 DEF e
<1> QED BY <1>17, <1>21, <1>22, <1>23, Zenon DEF u, new, Resized

-----------------------------------------------------------------------------
(* The theorems.                                                            *)

(* The number of steps of each kind, which names the step.                  *)
SpentInv == spent \in [Kinds -> Nat]
Inv == ScreenInv /\ SpentInv

(* The shape the properties name follows.                                   *)
LEMMA InvIsTyped == ScreenInv => TypeOK
<1> SUFFICES ASSUME NEW w \in Nat, NEW h \in Nat, term \in Terminals(w, h) PROVE TypeOK
  BY DEF ScreenInv
<1>1. /\ term.grid \in Grids(w, h) /\ term.grid.width = w /\ term.grid.height = h
      /\ term.cursor.row \in Nat /\ term.cursor.col \in Nat /\ OnColumns(term.cursor, w, h)
      /\ term.scrollback \in Scrollbacks /\ (term.alternate # None => term.scrollback.cap = 0)
      /\ Len(term.tabs) = w /\ term.alternate \in Asides(w, h) \cup {None}
      /\ (IsEmpty(term.grid) <=> w = 0 \/ h = 0)
  BY TerminalParts
<1>2. IsGrid(term.grid) BY <1>1, GridParts
<1>3. ScrollTop(term) <= ScrollBottom(term) BY MarginsOf
<1>4. IsEmpty(term.grid) \/ term.cursor.col \in 0..(term.grid.width - 1) BY <1>1 DEF OnColumns
<1>5. Len(term.scrollback.lines) <= term.scrollback.cap BY <1>1 DEF Scrollbacks
<1>6. ASSUME term.alternate # None
      PROVE  /\ IsGrid(term.alternate.grid)
             /\ term.alternate.grid.width = term.grid.width
             /\ term.alternate.grid.height = term.grid.height
             /\ term.scrollback.cap = 0
  <2>1. /\ term.alternate.grid \in Grids(w, h) /\ term.alternate.grid.width = w
        /\ term.alternate.grid.height = h
    BY <1>1, <1>6, AsideParts
  <2>2. IsGrid(term.alternate.grid) BY <2>1, GridParts
  <2> QED BY <1>1, <1>6, <2>1, <2>2
<1> QED BY <1>1, <1>2, <1>3, <1>4, <1>5, <1>6 DEF TypeOK

(* The start satisfies the invariant.                                       *)
LEMMA InitIsInv == Init => Inv
<1> SUFFICES ASSUME Init PROVE Inv OBVIOUS
<1> DEFINE w == StartSize[1]  h == StartSize[2]
           g == NewGrid(w, h)  b == NewScrollback(ScrollbackCap)  k == DefaultTabStops(w)
           no == FALSE  yes == TRUE
<1>1. w \in Nat /\ h \in Nat /\ ScrollbackCap \in Nat BY ScreenAssumption
<1>2. term = NewTerminal(w, h, ScrollbackCap) BY DEF Init
<1>3. spent \in [Kinds -> Nat] BY DEF Init
<1> HIDE DEF w, h
<1>4. g \in Grids(w, h) BY <1>1, BlankTypes
<1>5. HomeCursor \in Cursors /\ OnColumns(HomeCursor, w, h)
  BY <1>1 DEF HomeCursor, Cursors, OnColumns
<1>6. b \in Scrollbacks
  <2>1. b = [cap |-> ScrollbackCap, lines |-> <<>>] BY DEF NewScrollback
  <2> HIDE DEF b
  <2>2. <<>> \in Seq(Seq(Cells)) /\ Len(<<>>) = 0 OBVIOUS
  <2> QED BY <1>1, <2>1, <2>2 DEF Scrollbacks
<1>7. k \in Seq(BOOLEAN) /\ Len(k) = w
  <2> DEFINE stop(i) == i > 1 /\ (i - 1) % TabInterval = 0
  <2>1. \A i \in 1..w : stop(i) \in BOOLEAN OBVIOUS
  <2>2. k = [i \in 1..w |-> stop(i)] BY DEF DefaultTabStops
  <2> HIDE DEF stop, k
  <2> QED BY <1>1, <2>1, <2>2
<1>8. None \in SavedCursors /\ None \in MarginPairs /\ no \in BOOLEAN /\ yes \in BOOLEAN
      /\ None \in Narrow \cup Wide \cup {None} /\ None \in Asides(w, h) \cup {None}
  BY DEF SavedCursors, MarginPairs
<1>9. Made(term, g, HomeCursor, b, None, None, no, yes, k, None, None)
  BY <1>2 DEF NewTerminal, Made
<1> HIDE DEF g, b, k, no, yes
<1>10. /\ Whole(term) /\ term.grid = g /\ term.cursor = HomeCursor /\ term.scrollback = b
       /\ term.saved = None /\ term.region = None /\ term.origin = no /\ term.autoWrap = yes
       /\ term.tabs = k /\ term.last = None /\ term.alternate = None
  BY <1>9, MadeParts
<1>11. term \in Terminals(w, h) BY <1>1, <1>4, <1>5, <1>6, <1>7, <1>8, <1>10, TerminalMade
<1> QED BY <1>1, <1>3, <1>11 DEF Inv, ScreenInv, SpentInv

(* A counted step has its kind and no other.                                *)
LEMMA Counted ==
  ASSUME SpentInv, NEW kind \in Kinds, NEW result, Do(kind, result)
  PROVE  /\ term' = result /\ SpentInv'
         /\ Took(kind) /\ \A other \in Kinds \ {kind} : ~Took(other)
<1>1. spent \in [Kinds -> Nat] BY DEF SpentInv
<1>2. spent' = [spent EXCEPT ![kind] = @ + 1] /\ term' = result BY DEF Do
<1>3. SpentInv' BY <1>1, <1>2 DEF SpentInv
<1>4. spent[kind] \in Nat /\ spent'[kind] = spent[kind] + 1 BY <1>1, <1>2
<1>5. \A other \in Kinds \ {kind} : spent'[other] = spent[other] BY <1>1, <1>2
<1> QED BY <1>2, <1>3, <1>4, <1>5 DEF Took

(* What a step may do to the rows and to the wide characters, and what      *)
(* every step keeps.                                                        *)
RowsProtected ==
  Took("print") \/ Took("line") \/ Took("scroll") =>
    RegionStale(term) \/
      \A row \in 0..(term.grid.height - 1) :
        \/ ScrollTop(term) <= row /\ row <= ScrollBottom(term)
        \/ Took("print") /\ row = term'.cursor.row
        \/ term'.grid.rows[row + 1].cells = term.grid.rows[row + 1].cells
PairsPrinted == Took("print") /\ term.grid.width >= 2 /\ Paired(term.grid) => Paired(term'.grid)
Kept == /\ Inv' /\ InBounds(term, term')
        /\ Took("resize") \/ Isolated(term, term')
        /\ RowsProtected /\ PairsPrinted

(* Every row that is shielded is protected.                                 *)
LEMMA ShieldedRows ==
  ASSUME NEW w \in Nat, NEW h \in Nat, term \in Terminals(w, h), NEW but,
         Shielded(term, term', but, h),
         but = {} \/ (but = {term'.cursor.row + 1} /\ Took("print")), term'.cursor.row \in Nat
  PROVE  RowsProtected
<1>1. CASE RegionStale(term) BY <1>1 DEF RowsProtected
<1>2. CASE ~RegionStale(term)
  <2>1. term.grid.height = h BY TerminalParts
  <2>2. ScrollTop(term) \in Nat /\ ScrollBottom(term) \in Nat BY MarginsOf
  <2> DEFINE top == ScrollTop(term)  bottom == ScrollBottom(term)  at == term'.cursor.row
  <2>3. \A r \in 1..h : \/ top < r /\ r <= bottom + 1
                        \/ r \in but
                        \/ term'.grid.rows[r].cells = term.grid.rows[r].cells
    BY <1>2 DEF Shielded
  <2>4. \A row \in 0..(h - 1) : \/ top <= row /\ row <= bottom
                                \/ Took("print") /\ row = at
                                \/ term'.grid.rows[row + 1].cells = term.grid.rows[row + 1].cells
    <3> SUFFICES ASSUME NEW row \in 0..(h - 1)
                 PROVE  \/ top <= row /\ row <= bottom
                        \/ Took("print") /\ row = at
                        \/ term'.grid.rows[row + 1].cells = term.grid.rows[row + 1].cells
      OBVIOUS
    <3>1. top \in Nat /\ bottom \in Nat /\ at \in Nat BY <2>2
    <3>2. but = {} \/ (but = {at + 1} /\ Took("print")) OBVIOUS
    <3> HIDE DEF top, bottom, at
    <3>3. row + 1 \in 1..h OBVIOUS
    <3>4. CASE top < row + 1 /\ row + 1 <= bottom + 1 BY <3>1, <3>4
    <3>5. CASE row + 1 \in but
      <4>1. row + 1 = at + 1 /\ Took("print") BY <3>2, <3>5
      <4>2. row = at BY <3>1, <4>1
      <4> QED BY <4>1, <4>2
    <3>6. CASE term'.grid.rows[row + 1].cells = term.grid.rows[row + 1].cells BY <3>6
    <3> QED BY <2>3, <3>3, <3>4, <3>5, <3>6
  <2> QED BY <2>1, <2>4 DEF RowsProtected
<1> QED BY <1>1, <1>2

(* The four forms of a step.                                                *)
LEMMA SoundStep ==
  ASSUME Inv, NEW kind \in Kinds \ {"print", "line", "scroll"}, NEW result,
         Do(kind, result), InBounds(term, result), kind = "resize" \/ Isolated(term, result)
  PROVE  Kept
<1>1. /\ term' = result /\ SpentInv' /\ Took(kind) /\ \A other \in Kinds \ {kind} : ~Took(other)
  BY Counted DEF Inv
<1>2. ~Took("print") /\ ~Took("line") /\ ~Took("scroll") BY <1>1 DEF Kinds
<1>3. ScreenInv' BY <1>1 DEF InBounds, ScreenInv
<1>4. InBounds(term, term') /\ (Took("resize") \/ Isolated(term, term')) BY <1>1
<1> QED BY <1>1, <1>2, <1>3, <1>4 DEF Kept, Inv, RowsProtected, PairsPrinted

(* A step that scrolls, one that prints, and none at all.                   *)
LEMMA GuardedStep ==
  ASSUME Inv, NEW kind \in {"line", "scroll"}, NEW result, Do(kind, result),
         NEW w \in Nat, NEW h \in Nat, term \in Terminals(w, h),
         Steady(term, result, w, h), Guarded(term, result, {}, h)
  PROVE  Kept
<1>1. kind \in Kinds /\ kind # "print" /\ "print" \in Kinds BY DEF Kinds
<1>2. /\ term' = result /\ SpentInv' /\ ~Took("print") BY <1>1, Counted DEF Inv
<1>3. Sound(term, term') BY <1>2, SteadyIsSound
<1>4. InBounds(term, term') /\ Isolated(term, term') BY <1>3 DEF Sound
<1>5. ScreenInv' BY <1>4 DEF InBounds, ScreenInv
<1>6. term' \in Terminals(w, h) /\ Shielded(term, term', {}, h) BY <1>2 DEF Steady, Guarded
<1>7. term'.cursor.row \in Nat BY <1>6, TerminalParts
<1>8. RowsProtected BY <1>6, <1>7, ShieldedRows
<1> QED BY <1>2, <1>4, <1>5, <1>8 DEF Kept, Inv, PairsPrinted

LEMMA PrintedStep ==
  ASSUME Inv, NEW result, Do("print", result),
         NEW w \in Nat, NEW h \in Nat, term \in Terminals(w, h), Printed(term, result, w, h)
  PROVE  Kept
<1>1. "print" \in Kinds BY DEF Kinds
<1>2. /\ term' = result /\ SpentInv' /\ Took("print") BY <1>1, Counted DEF Inv
<1>3. /\ Steady(term, term', w, h) /\ Shielded(term, term', {term'.cursor.row + 1}, h)
      /\ (w >= 2 /\ Paired(term.grid) => Paired(term'.grid))
  BY <1>2 DEF Printed
<1>4. Sound(term, term') BY <1>3, SteadyIsSound
<1>5. InBounds(term, term') /\ Isolated(term, term') BY <1>4 DEF Sound
<1>6. ScreenInv' BY <1>5 DEF InBounds, ScreenInv
<1>7. term' \in Terminals(w, h) BY <1>3 DEF Steady
<1>8. term'.cursor.row \in Nat BY <1>7, TerminalParts
<1>9. RowsProtected BY <1>2, <1>3, <1>8, ShieldedRows
<1>10. term.grid.width = w BY TerminalParts
<1>11. PairsPrinted BY <1>3, <1>10 DEF PairsPrinted
<1> QED BY <1>2, <1>5, <1>6, <1>9, <1>11 DEF Kept, Inv

LEMMA StutterStep ==
  ASSUME Inv, UNCHANGED vars
  PROVE  Kept
<1>1. term' = term /\ spent' = spent BY DEF vars
<1>2. PICK w \in Nat, h \in Nat : term \in Terminals(w, h) BY DEF Inv, ScreenInv
<1>3. Steady(term, term, w, h) BY <1>2, Composed
<1>4. Sound(term, term') BY <1>1, <1>2, <1>3, SteadyIsSound
<1>5. InBounds(term, term') /\ Isolated(term, term') BY <1>4 DEF Sound
<1>6. Inv' BY <1>1 DEF Inv, ScreenInv, SpentInv
<1>7. \A kind : ~Took(kind) BY <1>1 DEF Took
<1> QED BY <1>5, <1>6, <1>7 DEF Kept, RowsProtected, PairsPrinted

(* A step that leaves the screen steady, and one that is sound.             *)
LEMMA SteadyStep ==
  ASSUME Inv, NEW kind \in Kinds \ {"print", "line", "scroll"}, NEW result, Do(kind, result),
         NEW w \in Nat, NEW h \in Nat, term \in Terminals(w, h), Steady(term, result, w, h)
  PROVE  Kept
<1>1. Sound(term, result) BY SteadyIsSound
<1> QED BY <1>1, SoundStep DEF Sound

(* Every step keeps what is kept.                                           *)
LEMMA NextIsKept ==
  ASSUME Inv, [Next]_vars
  PROVE  Kept
<1>1. PICK w \in Nat, h \in Nat : term \in Terminals(w, h) BY DEF Inv, ScreenInv
<1>2. term.grid.width = w /\ term.grid.height = h /\ term.cursor.row \in Nat /\ term.cursor.col \in Nat
  BY <1>1, TerminalParts
<1>3. Counts \subseteq Nat /\ (\A n \in Nat : n \in Int /\ -n \in Int) /\ 0 \in Int
      /\ Margins \subseteq Nat \X Nat /\ Sizes \subseteq Nat \X Nat
  BY ScreenAssumption
<1>4. /\ "move" \in Kinds \ {"print", "line", "scroll"} /\ "edit" \in Kinds \ {"print", "line", "scroll"}
      /\ "mode" \in Kinds \ {"print", "line", "scroll"} /\ "save" \in Kinds \ {"print", "line", "scroll"}
      /\ "switch" \in Kinds \ {"print", "line", "scroll"}
      /\ "repeat" \in Kinds \ {"print", "line", "scroll"}
      /\ "resize" \in Kinds \ {"print", "line", "scroll"}
  BY DEF Kinds
<1>5. CASE PrintChar
  <2>1. PICK ch \in Narrow \cup Wide : Do("print", ApplyPrint(term, ch)) BY <1>5 DEF PrintChar
  <2>2. Printed(term, ApplyPrint(term, ch), w, h) BY <1>1, CharPrinted
  <2> QED BY <1>1, <2>1, <2>2, PrintedStep
<1>6. CASE RepeatLastChar
  <2>1. PICK n \in Counts : Do("repeat", ApplyRepeatLastChar(term, n)) BY <1>6 DEF RepeatLastChar
  <2>2. Steady(term, ApplyRepeatLastChar(term, n), w, h) BY <1>1, <1>3, CharRepeated
  <2> QED BY <1>1, <1>4, <2>1, <2>2, SteadyStep
<1>7. CASE LineFeed
  <2>1. Do("line", ApplyLineFeed(term)) BY <1>7 DEF LineFeed
  <2>2. Steady(term, ApplyLineFeed(term), w, h) /\ Guarded(term, ApplyLineFeed(term), {}, h)
    BY <1>1, <1>3, LineFed
  <2> QED BY <1>1, <2>1, <2>2, GuardedStep
<1>8. CASE NextLine
  <2> DEFINE v == ApplyCarriageReturn(term)  u == ApplyLineFeed(v)
  <2>1. Do("line", u) BY <1>8 DEF NextLine
  <2>2. Steady(term, v, w, h) /\ Guarded(term, v, {}, h) BY <1>1, Returned
  <2>3. v \in Terminals(w, h) BY <2>2 DEF Steady
  <2> HIDE DEF v
  <2>4. Steady(v, u, w, h) /\ Guarded(v, u, {}, h) BY <2>3, LineFed
  <2> HIDE DEF u
  <2>5. Steady(term, u, w, h) /\ Guarded(term, u, {}, h) BY <1>1, <2>2, <2>4, Composed
  <2> QED BY <1>1, <2>1, <2>5, GuardedStep
<1>9. CASE ReverseIndex
  <2>1. Do("scroll", ApplyReverseIndex(term)) BY <1>9 DEF ReverseIndex
  <2>2. Steady(term, ApplyReverseIndex(term), w, h) /\ Guarded(term, ApplyReverseIndex(term), {}, h)
    BY <1>1, <1>3, LineFed
  <2> QED BY <1>1, <2>1, <2>2, GuardedStep
<1>10. CASE ScrollLinesUp
  <2>1. PICK n \in Counts : Do("scroll", ApplyScrollUp(term, n)) BY <1>10 DEF ScrollLinesUp
  <2>2. Steady(term, ApplyScrollUp(term, n), w, h) /\ Guarded(term, ApplyScrollUp(term, n), {}, h)
    BY <1>1, <1>3, ScreenScrolled
  <2> QED BY <1>1, <2>1, <2>2, GuardedStep
<1>11. CASE ScrollLinesDown
  <2>1. PICK n \in Counts : Do("scroll", ApplyScrollDown(term, n)) BY <1>11 DEF ScrollLinesDown
  <2>2. Steady(term, ApplyScrollDown(term, n), w, h) /\ Guarded(term, ApplyScrollDown(term, n), {}, h)
    BY <1>1, <1>3, ScreenScrolled
  <2> QED BY <1>1, <2>1, <2>2, GuardedStep
<1>12. CASE CarriageReturn
  <2>1. Do("move", ApplyCarriageReturn(term)) BY <1>12 DEF CarriageReturn
  <2>2. Steady(term, ApplyCarriageReturn(term), w, h) BY <1>1, Returned
  <2> QED BY <1>1, <1>4, <2>1, <2>2, SteadyStep
<1>13. CASE Backspace
  <2>1. Do("move", ApplyBackspace(term)) BY <1>13 DEF Backspace
  <2>2. Steady(term, ApplyBackspace(term), w, h) BY <1>1, Returned
  <2> QED BY <1>1, <1>4, <2>1, <2>2, SteadyStep
<1>14. CASE Tab
  <2>1. Do("move", ApplyTab(term)) BY <1>14 DEF Tab
  <2>2. Steady(term, ApplyTab(term), w, h) BY <1>1, Tabbed
  <2> QED BY <1>1, <1>4, <2>1, <2>2, SteadyStep
<1>15. CASE CursorBackwardTab
  <2>1. PICK n \in Counts : Do("move", ApplyCursorBackwardTab(term, n)) BY <1>15 DEF CursorBackwardTab
  <2>2. Steady(term, ApplyCursorBackwardTab(term, n), w, h) BY <1>1, <1>3, BackTabbed
  <2> QED BY <1>1, <1>4, <2>1, <2>2, SteadyStep
<1>16. CASE CursorUp
  <2>1. PICK n \in Counts : Do("move", ApplyCursorRelative(term, -n, 0)) BY <1>16 DEF CursorUp
  <2>2. n \in Int /\ -n \in Int BY <1>3
  <2>3. Steady(term, ApplyCursorRelative(term, -n, 0), w, h) BY <1>1, <1>3, <2>2, MovedRelative
  <2> QED BY <1>1, <1>4, <2>1, <2>3, SteadyStep
<1>17. CASE CursorDown
  <2>1. PICK n \in Counts : Do("move", ApplyCursorRelative(term, n, 0)) BY <1>17 DEF CursorDown
  <2>2. n \in Int /\ -n \in Int BY <1>3
  <2>3. Steady(term, ApplyCursorRelative(term, n, 0), w, h) BY <1>1, <1>3, <2>2, MovedRelative
  <2> QED BY <1>1, <1>4, <2>1, <2>3, SteadyStep
<1>18. CASE CursorForward
  <2>1. PICK n \in Counts : Do("move", ApplyCursorRelative(term, 0, n)) BY <1>18 DEF CursorForward
  <2>2. n \in Int /\ -n \in Int BY <1>3
  <2>3. Steady(term, ApplyCursorRelative(term, 0, n), w, h) BY <1>1, <1>3, <2>2, MovedRelative
  <2> QED BY <1>1, <1>4, <2>1, <2>3, SteadyStep
<1>19. CASE CursorBack
  <2>1. PICK n \in Counts : Do("move", ApplyCursorRelative(term, 0, -n)) BY <1>19 DEF CursorBack
  <2>2. n \in Int /\ -n \in Int BY <1>3
  <2>3. Steady(term, ApplyCursorRelative(term, 0, -n), w, h) BY <1>1, <1>3, <2>2, MovedRelative
  <2> QED BY <1>1, <1>4, <2>1, <2>3, SteadyStep
<1>20. CASE CursorNextLine
  <2>1. PICK n \in Counts : Do("move", ApplyCarriageReturn(ApplyCursorRelative(term, n, 0)))
    BY <1>20 DEF CursorNextLine
  <2> DEFINE v == ApplyCursorRelative(term, n, 0)  u == ApplyCarriageReturn(v)
  <2>2. n \in Int /\ -n \in Int BY <1>3
  <2>3. Steady(term, v, w, h) BY <1>1, <1>3, <2>2, MovedRelative
  <2>4. v \in Terminals(w, h) BY <2>3 DEF Steady
  <2>5. Do("move", u) BY <2>1
  <2> HIDE DEF v
  <2>6. Steady(v, u, w, h) BY <2>4, Returned
  <2> HIDE DEF u
  <2>7. Steady(term, u, w, h) BY <1>1, <2>3, <2>6, Composed
  <2> QED BY <1>1, <1>4, <2>5, <2>7, SteadyStep
<1>21. CASE CursorPreviousLine
  <2>1. PICK n \in Counts : Do("move", ApplyCarriageReturn(ApplyCursorRelative(term, -n, 0)))
    BY <1>21 DEF CursorPreviousLine
  <2> DEFINE v == ApplyCursorRelative(term, -n, 0)  u == ApplyCarriageReturn(v)
  <2>2. n \in Int /\ -n \in Int BY <1>3
  <2>3. Steady(term, v, w, h) BY <1>1, <1>3, <2>2, MovedRelative
  <2>4. v \in Terminals(w, h) BY <2>3 DEF Steady
  <2>5. Do("move", u) BY <2>1
  <2> HIDE DEF v
  <2>6. Steady(v, u, w, h) BY <2>4, Returned
  <2> HIDE DEF u
  <2>7. Steady(term, u, w, h) BY <1>1, <2>3, <2>6, Composed
  <2> QED BY <1>1, <1>4, <2>5, <2>7, SteadyStep
<1>22. CASE CursorPosition
  <2>1. PICK row \in 0..(term.grid.height - 1), col \in 0..(term.grid.width - 1) :
               Do("move", ApplyCursorPosition(term, row, col))
    BY <1>22 DEF CursorPosition
  <2>2. row \in Nat /\ col \in Nat BY <1>2
  <2>3. Steady(term, ApplyCursorPosition(term, row, col), w, h) BY <1>1, <2>2, Repositioned
  <2> QED BY <1>1, <1>4, <2>1, <2>3, SteadyStep
<1>23. CASE CursorHorizontalAbsolute
  <2>1. PICK col \in 0..(term.grid.width - 1) :
               Do("move", ApplyCursorPosition(term, term.cursor.row, col))
    BY <1>23 DEF CursorHorizontalAbsolute
  <2>2. col \in Nat BY <1>2
  <2>3. Steady(term, ApplyCursorPosition(term, term.cursor.row, col), w, h)
    BY <1>1, <1>2, <2>2, Repositioned
  <2> QED BY <1>1, <1>4, <2>1, <2>3, SteadyStep
<1>24. CASE VerticalPositionAbsolute
  <2>1. PICK row \in 0..(term.grid.height - 1) :
               Do("move", ApplyCursorPosition(term, row, term.cursor.col))
    BY <1>24 DEF VerticalPositionAbsolute
  <2>2. row \in Nat BY <1>2
  <2>3. Steady(term, ApplyCursorPosition(term, row, term.cursor.col), w, h)
    BY <1>1, <1>2, <2>2, Repositioned
  <2> QED BY <1>1, <1>4, <2>1, <2>3, SteadyStep
<1>25. CASE ClearDisplay
  <2>1. PICK mode \in {"below", "above", "all", "scrollback"} : Do("edit", ApplyClearDisplay(term, mode)) BY <1>25 DEF ClearDisplay
  <2>2. Steady(term, ApplyClearDisplay(term, mode), w, h) BY <1>1, <1>3, DisplayCleared
  <2> QED BY <1>1, <1>4, <2>1, <2>2, SteadyStep
<1>26. CASE ClearLine
  <2>1. PICK mode \in {"right", "left", "all"} : Do("edit", ApplyClearLine(term, mode)) BY <1>26 DEF ClearLine
  <2>2. Steady(term, ApplyClearLine(term, mode), w, h) BY <1>1, <1>3, LineCleared
  <2> QED BY <1>1, <1>4, <2>1, <2>2, SteadyStep
<1>27. CASE InsertLinesHere
  <2>1. PICK n \in Counts : Do("scroll", ApplyInsertLines(term, n)) BY <1>27 DEF InsertLinesHere
  <2>2. Steady(term, ApplyInsertLines(term, n), w, h) /\ Guarded(term, ApplyInsertLines(term, n), {}, h)
    BY <1>1, <1>3, LinesEdited
  <2> QED BY <1>1, <2>1, <2>2, GuardedStep
<1>28. CASE DeleteLinesHere
  <2>1. PICK n \in Counts : Do("scroll", ApplyDeleteLines(term, n)) BY <1>28 DEF DeleteLinesHere
  <2>2. Steady(term, ApplyDeleteLines(term, n), w, h) /\ Guarded(term, ApplyDeleteLines(term, n), {}, h)
    BY <1>1, <1>3, LinesEdited
  <2> QED BY <1>1, <2>1, <2>2, GuardedStep
<1>29. CASE EraseCharacters
  <2>1. PICK n \in Counts : Do("edit", ApplyEraseChars(term, n)) BY <1>29 DEF EraseCharacters
  <2>2. Steady(term, ApplyEraseChars(term, n), w, h) BY <1>1, <1>3, CharsEdited
  <2> QED BY <1>1, <1>4, <2>1, <2>2, SteadyStep
<1>30. CASE InsertCharacters
  <2>1. PICK n \in Counts : Do("edit", ApplyInsertChars(term, n)) BY <1>30 DEF InsertCharacters
  <2>2. Steady(term, ApplyInsertChars(term, n), w, h) BY <1>1, <1>3, CharsEdited
  <2> QED BY <1>1, <1>4, <2>1, <2>2, SteadyStep
<1>31. CASE DeleteCharacters
  <2>1. PICK n \in Counts : Do("edit", ApplyDeleteChars(term, n)) BY <1>31 DEF DeleteCharacters
  <2>2. Steady(term, ApplyDeleteChars(term, n), w, h) BY <1>1, <1>3, CharsEdited
  <2> QED BY <1>1, <1>4, <2>1, <2>2, SteadyStep
<1>32. CASE SetScrollRegion
  <2>1. PICK m \in Margins : Do("mode", ApplySetScrollRegion(term, m[1], m[2]))
    BY <1>32 DEF SetScrollRegion
  <2>2. m[1] \in Nat /\ m[2] \in Nat BY <1>3
  <2>3. Sound(term, ApplySetScrollRegion(term, m[1], m[2])) BY <1>1, <2>2, RegionSet
  <2> QED BY <1>4, <2>1, <2>3, SoundStep DEF Sound
<1>33. CASE OriginMode
  <2>1. PICK enabled \in BOOLEAN : Do("mode", SetOriginMode(term, enabled)) BY <1>33 DEF OriginMode
  <2>2. Sound(term, SetOriginMode(term, enabled)) BY <1>1, <1>3, OriginSet
  <2> QED BY <1>4, <2>1, <2>2, SoundStep DEF Sound
<1>34. CASE AutoWrapMode
  <2>1. PICK enabled \in BOOLEAN : Do("mode", [term EXCEPT !.autoWrap = enabled]) BY <1>34 DEF AutoWrapMode
  <2>2. Sound(term, [term EXCEPT !.autoWrap = enabled]) BY <1>1, <1>3, OriginSet
  <2> QED BY <1>4, <2>1, <2>2, SoundStep DEF Sound
<1>35. CASE HorizontalTabSet
  <2>1. Do("mode", ApplyHorizontalTabSet(term)) BY <1>35 DEF HorizontalTabSet
  <2>2. \A all \in BOOLEAN : Sound(term, ApplyHorizontalTabSet(term)) BY <1>1, TabsSet
  <2>3. Sound(term, ApplyHorizontalTabSet(term)) BY <2>2
  <2> QED BY <1>4, <2>1, <2>3, SoundStep DEF Sound
<1>36. CASE TabClear
  <2>1. PICK all \in BOOLEAN : Do("mode", ApplyTabClear(term, all)) BY <1>36 DEF TabClear
  <2>2. Sound(term, ApplyTabClear(term, all)) BY <1>1, <1>3, TabsSet
  <2> QED BY <1>4, <2>1, <2>2, SoundStep DEF Sound
<1>37. CASE CursorSavePosition
  <2>1. Do("save", ApplyCursorSave(term)) BY <1>37 DEF CursorSavePosition
  <2>2. Sound(term, ApplyCursorSave(term)) BY <1>1, <1>3, CursorKept
  <2> QED BY <1>4, <2>1, <2>2, SoundStep DEF Sound
<1>38. CASE CursorRestorePosition
  <2>1. Do("save", ApplyCursorRestore(term)) BY <1>38 DEF CursorRestorePosition
  <2>2. Sound(term, ApplyCursorRestore(term)) BY <1>1, <1>3, CursorKept
  <2> QED BY <1>4, <2>1, <2>2, SoundStep DEF Sound
<1>39. CASE AlternateScreenEnter
  <2>1. Do("switch", ApplyAlternateScreenEnter(term)) BY <1>39 DEF AlternateScreenEnter
  <2>2. Sound(term, ApplyAlternateScreenEnter(term)) BY <1>1, <1>3, AlternateEntered
  <2> QED BY <1>4, <2>1, <2>2, SoundStep DEF Sound
<1>40. CASE AlternateScreenEnterSimple
  <2>1. Do("switch", ApplyAlternateScreenEnterSimple(term)) BY <1>40 DEF AlternateScreenEnterSimple
  <2>2. Sound(term, ApplyAlternateScreenEnterSimple(term)) BY <1>1, <1>3, AlternateEntered
  <2> QED BY <1>4, <2>1, <2>2, SoundStep DEF Sound
<1>41. CASE AlternateScreenLeave
  <2>1. Do("switch", ApplyAlternateScreenLeave(term)) BY <1>41 DEF AlternateScreenLeave
  <2>2. Sound(term, ApplyAlternateScreenLeave(term)) BY <1>1, <1>3, AlternateLeft
  <2> QED BY <1>4, <2>1, <2>2, SoundStep DEF Sound
<1>42. CASE Resize
  <2>1. PICK size \in Sizes : Do("resize", ApplyResize(term, size[1], size[2])) BY <1>42 DEF Resize
  <2>2. size[1] \in Nat /\ size[2] \in Nat BY <1>3
  <2>3. InBounds(term, ApplyResize(term, size[1], size[2])) BY <1>1, <2>2, TerminalResized
  <2> QED BY <1>4, <2>1, <2>3, SoundStep
<1>43. CASE UNCHANGED vars BY <1>43, StutterStep
<1> QED
  BY <1>5, <1>6, <1>7, <1>8, <1>9, <1>10, <1>11, <1>12, <1>13, <1>14, <1>15, <1>16, <1>17,
     <1>18, <1>19, <1>20, <1>21, <1>22, <1>23, <1>24, <1>25, <1>26, <1>27, <1>28, <1>29, <1>30,
     <1>31, <1>32, <1>33, <1>34, <1>35, <1>36, <1>37, <1>38, <1>39, <1>40, <1>41, <1>42, <1>43
     DEF Next

(* The inductive invariant.                                                 *)
THEOREM Invariance == Spec => []Inv
<1>1. Inv /\ [Next]_vars => Inv' BY NextIsKept DEF Kept
<1> QED BY <1>1, InitIsInv, PTL DEF Spec

(* The screen keeps its shape, whatever is printed, scrolled, edited, put   *)
(* aside or resized: as many rows and cells as its grid says, a tab stop    *)
(* for each column, margins in order (i32::clamp panics on others), the     *)
(* cursor's column on the screen.                                           *)
THEOREM ShapeIsKept == Spec => []TypeOK
<1>1. Inv => TypeOK BY InvIsTyped DEF Inv
<1> QED BY <1>1, Invariance, PTL

(* And the cursor's row leaves the screen only by margins that lie beyond   *)
(* it, which only leaving an alternate screen brings back.                  *)
THEOREM BoundsAreKept == Spec => ScreenIsInBounds
<1>1. Inv /\ [Next]_vars =>
        [/\ CursorInside(term) /\ ~CursorInside(term') => RegionStale(term)
         /\ RegionStale(term') => RegionStale(term) \/ LeavesAlternate]_vars
  BY NextIsKept DEF Kept, InBounds, LeavesAlternate
<1>2. Spec => OnlyStaleMarginsMoveCursorOut
  BY <1>1, Invariance, PTL DEF Spec, OnlyStaleMarginsMoveCursorOut
<1> QED BY <1>2, ShapeIsKept, PTL DEF ScreenIsInBounds

(* The primary screen comes back from behind an alternate one as it was     *)
(* put aside, but for a resize; and scrolling, printing on a full row       *)
(* included, moves no character of a row out of the margins.                *)
THEOREM RegionsStay == Spec => RegionsAreKept
<1>1. Inv /\ [Next]_vars =>
        [(term.alternate # None \/ term'.alternate # None) =>
           \/ Took("resize")
           \/ Primary(term') = Primary(term)
           \/ LeavesAlternate /\ ~CursorInside(ScreenOf(Primary(term)))]_vars
  BY NextIsKept DEF Kept, Isolated, LeavesAlternate
<1>2. Inv /\ [Next]_vars =>
        [Took("print") \/ Took("line") \/ Took("scroll") =>
           RegionStale(term) \/
             \A row \in 0..(term.grid.height - 1) :
               \/ ScrollTop(term) <= row /\ row <= ScrollBottom(term)
               \/ Took("print") /\ row = term'.cursor.row
               \/ term'.grid.rows[row + 1].cells = term.grid.rows[row + 1].cells]_vars
  BY NextIsKept DEF Kept, RowsProtected
<1>3. Spec => PrimaryUntouched BY <1>1, Invariance, PTL DEF Spec, PrimaryUntouched
<1>4. Spec => MarginsProtectRows BY <1>2, Invariance, PTL DEF Spec, MarginsProtectRows
<1> QED BY <1>3, <1>4 DEF RegionsAreKept

(* A character printed over half of a wide one, at the edge or across a     *)
(* wrap, leaves no half behind.                                             *)
THEOREM PairsStay == Spec => PrintKeepsPairs
<1>1. Inv /\ [Next]_vars =>
        [Took("print") /\ term.grid.width >= 2 /\ Paired(term.grid) => Paired(term'.grid)]_vars
  BY NextIsKept DEF Kept, PairsPrinted
<1> QED BY <1>1, Invariance, PTL DEF Spec, PrintKeepsPairs

-----------------------------------------------------------------------------
(* Text.                                                                    *)

(* The characters of a line are read one by one.                            *)
Seen(text, cell) == IF cell[1] = " " THEN text ELSE Append(text, cell)

LEMMA TextSteps ==
  ASSUME NEW cells \in Seq(Cells)
  PROVE  \E f \in [0..Len(cells) -> Seq(Cells)] :
           /\ RowText(cells) = f[Len(cells)]
           /\ f[0] = <<>>
           /\ \A n \in 0..(Len(cells) - 1) : f[n + 1] = Seen(f[n], cells[n + 1])
<1> DEFINE N == Len(cells)
           V == Seq(Cells)
           Next1(s, n) == IF cells[n][1] = " " THEN s ELSE Append(s, cells[n])
           F(f) == [n \in 0..N |-> IF n = 0 THEN <<>> ELSE Next1(f[n - 1], n)]
           seen == CHOOSE f : f = F(f)
           step == [n \in 0..N |-> [s \in V |-> IF n < N THEN Next1(s, n + 1) ELSE s]]
<1>1. N \in Nat /\ <<>> \in V /\ \A n \in 1..N : cells[n] \in Cells
  BY ElementOfSeq
<1>2. \A s \in V : \A n \in 1..N : Next1(s, n) \in V
  <2> SUFFICES ASSUME NEW s \in V, NEW n \in 1..N PROVE Next1(s, n) \in V OBVIOUS
  <2> DEFINE e == cells[n]
  <2>1. e \in Cells BY <1>1
  <2> HIDE DEF e
  <2>2. Append(s, e) \in V BY <2>1
  <2> QED BY <2>2, Zenon DEF e
<1> HIDE DEF N, V, Next1
<1>3. step \in [0..N -> [V -> V]]
  <2>1. \A n \in 0..N : \A s \in V : (IF n < N THEN Next1(s, n + 1) ELSE s) \in V BY <1>1, <1>2
  <2> QED BY <2>1
<1>4. PICK g \in [0..N -> V] : g[0] = <<>> /\ \A n \in 0..(N - 1) : g[n + 1] = step[n][g[n]]
  <2> HIDE DEF step
  <2>1. Iterations(V, <<>>, N, step) # {} BY <1>1, <1>3, IterationsExist
  <2> QED BY <2>1 DEF Iterations
<1>5. g = F(g)
  <2>1. ASSUME NEW n \in 1..N PROVE g[n] = Next1(g[n - 1], n)
    <3>1. n - 1 \in 0..(N - 1) /\ n - 1 \in 0..N /\ n - 1 < N /\ (n - 1) + 1 = n /\ g[n - 1] \in V
      BY <1>1, <1>4
    <3>2. step[n - 1][g[n - 1]] = Next1(g[n - 1], (n - 1) + 1) BY <3>1
    <3> HIDE DEF step
    <3> QED BY <1>4, <3>1, <3>2
  <2>2. \A n \in 0..N : g[n] = F(g)[n] BY <1>4, <2>1
  <2> QED BY <1>4, <2>2
<1>6. seen = F(seen)
  <2> HIDE DEF F
  <2> QED BY <1>5
<1> HIDE DEF seen
<1> DEFINE I == {n \in Nat : seen[n] \in V}
<1>7. 0..N \subseteq I
  <2>1. seen[0] \in V BY <1>1, <1>6
  <2>2. ASSUME NEW n \in 0..(N - 1), seen[n] \in V PROVE seen[n + 1] \in V
    <3>1. n + 1 \in 0..N /\ n + 1 \in 1..N /\ n + 1 # 0 /\ (n + 1) - 1 = n BY <1>1
    <3>2. seen[n + 1] = Next1(seen[(n + 1) - 1], n + 1) BY <1>6, <3>1
    <3> QED BY <1>2, <2>2, <3>1, <3>2
  <2>3. 0 \in I /\ \A n \in 0..(N - 1) : n \in I => n + 1 \in I BY <2>1, <2>2
  <2> HIDE DEF I
  <2> QED BY <1>1, <2>3, IntervalInduction
<1>8. RowText(cells) = seen[N]
  BY DEF RowText, seen, F, N, Next1
<1>9. seen[0] = <<>> /\ seen \in [0..N -> V]
  <2>1. \A n \in 0..N : seen[n] \in V BY <1>7
  <2>2. DOMAIN seen = 0..N /\ seen = [n \in 0..N |-> seen[n]] BY <1>6
  <2> QED BY <1>1, <1>6, <2>1, <2>2
<1>10. ASSUME NEW n \in 0..(N - 1) PROVE seen[n + 1] = Next1(seen[n], n + 1)
  <2>1. n + 1 \in 0..N /\ n + 1 # 0 /\ (n + 1) - 1 = n BY <1>1
  <2> QED BY <1>6, <2>1
<1> QED BY <1>8, <1>9, <1>10 DEF V, N, Next1, Seen

(* One more cell in a line: what it adds to the text, and to what the       *)
(* scrollback stores.                                                       *)
LEMMA TextAppended ==
  ASSUME NEW cells \in Seq(Cells), NEW cell \in Cells
  PROVE  /\ RowText(<<>>) = <<>> /\ RowText(cells) \in Seq(Cells)
         /\ RowText(Append(cells, cell)) = Seen(RowText(cells), cell)
<1> DEFINE N == Len(cells)  more == Append(cells, cell)
<1>1. PICK f \in [0..N -> Seq(Cells)] :
        /\ RowText(cells) = f[N] /\ f[0] = <<>>
        /\ \A n \in 0..(N - 1) : f[n + 1] = Seen(f[n], cells[n + 1])
  BY TextSteps
<1>2. /\ N \in Nat /\ more \in Seq(Cells) /\ Len(more) = N + 1 /\ more[N + 1] = cell
      /\ \A i \in 1..N : more[i] = cells[i]
  BY AppendProperties
<1> HIDE DEF more
<1>3. PICK g \in [0..(N + 1) -> Seq(Cells)] :
        /\ RowText(more) = g[N + 1] /\ g[0] = <<>>
        /\ \A n \in 0..N : g[n + 1] = Seen(g[n], more[n + 1])
  <2>1. \E g \in [0..Len(more) -> Seq(Cells)] :
          /\ RowText(more) = g[Len(more)] /\ g[0] = <<>>
          /\ \A n \in 0..(Len(more) - 1) : g[n + 1] = Seen(g[n], more[n + 1])
    BY <1>2, TextSteps
  <2>2. Len(more) = N + 1 /\ Len(more) - 1 = N BY <1>2
  <2> QED BY <2>1, <2>2
<1> HIDE DEF N
<1>4. f[N] = g[N]
  <2>1. \A n \in 0..(N - 1) : f[n] = g[n] => f[n + 1] = g[n + 1]
    <3> SUFFICES ASSUME NEW n \in 0..(N - 1), f[n] = g[n] PROVE f[n + 1] = g[n + 1] OBVIOUS
    <3>1. n \in 0..N /\ n + 1 \in 1..N BY <1>2
    <3> QED BY <1>1, <1>2, <1>3, <3>1
  <2>2. N \in Nat /\ f[0] = g[0] BY <1>1, <1>2, <1>3
  <2> QED BY <2>1, <2>2, SameSteps
<1>5. g[N + 1] = Seen(g[N], more[N + 1]) BY <1>2, <1>3
<1>6. RowText(<<>>) = <<>>
  <2>1. <<>> \in Seq(Cells) /\ Len(<<>>) = 0 OBVIOUS
  <2>2. \E e \in [0..0 -> Seq(Cells)] : RowText(<<>>) = e[0] /\ e[0] = <<>>
    <3>1. \E e \in [0..Len(<<>>) -> Seq(Cells)] : RowText(<<>>) = e[Len(<<>>)] /\ e[0] = <<>>
      BY <2>1, TextSteps
    <3> QED BY <2>1, <3>1
  <2> QED BY <2>2
<1>7. RowText(cells) \in Seq(Cells) BY <1>1, <1>2
<1> QED BY <1>1, <1>2, <1>3, <1>4, <1>5, <1>6, <1>7 DEF more

LEMMA TailAppended ==
  ASSUME NEW cells \in Seq(Cells), NEW cell \in Cells
  PROVE  /\ WithoutTails(<<>>) = <<>>
         /\ WithoutTails(Append(cells, cell))
              = IF CellWidth(cell) = 0 THEN WithoutTails(cells) ELSE Append(WithoutTails(cells), cell)
<1> DEFINE N == Len(cells)  more == Append(cells, cell)
           Kept1(s, c) == IF CellWidth(c) = 0 THEN s ELSE Append(s, c)
<1>1. PICK f \in [0..N -> Seq(Cells)] :
        /\ WithoutTails(cells) = f[N] /\ f[0] = <<>>
        /\ \A n \in 0..(N - 1) : f[n + 1] = Kept1(f[n], cells[n + 1])
  BY TailSteps
<1>2. /\ N \in Nat /\ more \in Seq(Cells) /\ Len(more) = N + 1 /\ more[N + 1] = cell
      /\ \A i \in 1..N : more[i] = cells[i]
  BY AppendProperties
<1> HIDE DEF more
<1>3. PICK g \in [0..(N + 1) -> Seq(Cells)] :
        /\ WithoutTails(more) = g[N + 1] /\ g[0] = <<>>
        /\ \A n \in 0..N : g[n + 1] = Kept1(g[n], more[n + 1])
  <2>1. \E g \in [0..Len(more) -> Seq(Cells)] :
          /\ WithoutTails(more) = g[Len(more)] /\ g[0] = <<>>
          /\ \A n \in 0..(Len(more) - 1) : g[n + 1] = Kept1(g[n], more[n + 1])
    BY <1>2, TailSteps
  <2>2. Len(more) = N + 1 /\ Len(more) - 1 = N BY <1>2
  <2> QED BY <2>1, <2>2
<1> HIDE DEF N, Kept1
<1>4. f[N] = g[N]
  <2>1. \A n \in 0..(N - 1) : f[n] = g[n] => f[n + 1] = g[n + 1]
    <3> SUFFICES ASSUME NEW n \in 0..(N - 1), f[n] = g[n] PROVE f[n + 1] = g[n + 1] OBVIOUS
    <3>1. n \in 0..N /\ n + 1 \in 1..N BY <1>2
    <3> QED BY <1>1, <1>2, <1>3, <3>1
  <2>2. N \in Nat /\ f[0] = g[0] BY <1>1, <1>2, <1>3
  <2> QED BY <2>1, <2>2, SameSteps
<1>5. g[N + 1] = Kept1(g[N], more[N + 1]) BY <1>2, <1>3
<1>6. WithoutTails(<<>>) = <<>>
  <2>1. <<>> \in Seq(Cells) /\ Len(<<>>) = 0 OBVIOUS
  <2>2. \E e \in [0..0 -> Seq(Cells)] : WithoutTails(<<>>) = e[0] /\ e[0] = <<>>
    <3>1. \E e \in [0..Len(<<>>) -> Seq(Cells)] : WithoutTails(<<>>) = e[Len(<<>>)] /\ e[0] = <<>>
      BY <2>1, TailSteps
    <3> QED BY <2>1, <3>1
  <2> QED BY <2>2
<1> QED BY <1>1, <1>2, <1>3, <1>4, <1>5, <1>6 DEF more, Kept1

(* The text of two lines, one after the other.                              *)
LEMMA TextConcat ==
  ASSUME NEW a \in Seq(Cells), NEW b \in Seq(Cells)
  PROVE  RowText(a \o b) = RowText(a) \o RowText(b)
<1> DEFINE V == Seq(Cells)
           X == {x \in V : RowText(a \o x) = RowText(a) \o RowText(x)}
<1>1. \A x \in V : RowText(x) \in V BY BlankTypes, TextAppended
<1>2. <<>> \in X
  <2>1. a \o <<>> = a /\ <<>> \in V OBVIOUS
  <2>2. RowText(<<>>) = <<>> BY BlankTypes, TextAppended
  <2>3. RowText(a) \o <<>> = RowText(a) BY <1>1
  <2> QED BY <2>1, <2>2, <2>3
<1>3. ASSUME NEW x \in V, NEW e \in Cells, x \in X PROVE Append(x, e) \in X
  <2>1. a \o Append(x, e) = Append(a \o x, e) /\ Append(x, e) \in V /\ a \o x \in V OBVIOUS
  <2>2. RowText(Append(a \o x, e)) = Seen(RowText(a \o x), e)
        /\ RowText(Append(x, e)) = Seen(RowText(x), e)
    BY <2>1, TextAppended
  <2>3. RowText(a \o x) = RowText(a) \o RowText(x) BY <1>3
  <2>4. RowText(a) \in V /\ RowText(x) \in V BY <1>1
  <2>5. Append(RowText(a) \o RowText(x), e) = RowText(a) \o Append(RowText(x), e)
    <3> DEFINE p == RowText(a)  q == RowText(x)
    <3>1. p \in V /\ q \in V BY <2>4
    <3> HIDE DEF p, q
    <3>2. Append(q, e) = q \o <<e>> /\ <<e>> \in V /\ p \o q \in V BY <3>1, AppendIsConcat
    <3>3. Append(p \o q, e) = (p \o q) \o <<e>> BY <3>2, AppendIsConcat
    <3>4. (p \o q) \o <<e>> = p \o (q \o <<e>>)
      <4> DEFINE r == <<e>>
      <4>1. p \in Seq(Cells) /\ q \in Seq(Cells) /\ r \in Seq(Cells) BY <3>1, <3>2
      <4> HIDE DEF r
      <4>2. (p \o q) \o r = p \o (q \o r) BY <4>1, ConcatAssociative
      <4> QED BY <4>2 DEF r
    <3>5. Append(p \o q, e) = p \o Append(q, e) BY <3>2, <3>3, <3>4
    <3> QED BY <3>5 DEF p, q
  <2>6. Seen(RowText(a) \o RowText(x), e) = RowText(a) \o Seen(RowText(x), e)
    BY <2>5, Zenon DEF Seen
  <2> QED BY <2>1, <2>2, <2>3, <2>6
<1>4. V \subseteq X
  <2>1. \A x \in V : \A e \in Cells : x \in X => Append(x, e) \in X BY <1>3
  <2> HIDE DEF X
  <2> QED BY <1>2, <2>1, AppendInduction
<1> QED BY <1>4

(* A line of blanks has no text.                                            *)
AllBlank(cells) == \A i \in 1..Len(cells) : cells[i][1] = " "

LEMMA BlankText ==
  ASSUME NEW cells \in Seq(Cells), AllBlank(cells)
  PROVE  RowText(cells) = <<>>
<1> DEFINE N == Len(cells)
<1>1. PICK f \in [0..N -> Seq(Cells)] :
        /\ RowText(cells) = f[N] /\ f[0] = <<>>
        /\ \A n \in 0..(N - 1) : f[n + 1] = Seen(f[n], cells[n + 1])
  BY TextSteps
<1>2. N \in Nat BY LenProperties
<1>5. \A i \in 1..N : cells[i][1] = " " BY DEF AllBlank
<1> DEFINE g == [n \in 0..N |-> <<>>]
<1> HIDE DEF N
<1>3. f[0] = g[0] /\ g[N] = <<>>
  <2>1. 0 \in 0..N /\ N \in 0..N BY <1>2
  <2> QED BY <1>1, <2>1
<1>4. \A n \in 0..(N - 1) : f[n] = g[n] => f[n + 1] = g[n + 1]
  <2> SUFFICES ASSUME NEW n \in 0..(N - 1), f[n] = g[n] PROVE f[n + 1] = g[n + 1] OBVIOUS
  <2>1. n \in 0..N /\ n + 1 \in 0..N /\ n + 1 \in 1..N BY <1>2
  <2>2. g[n] = <<>> /\ g[n + 1] = <<>> BY <2>1
  <2>3. f[n + 1] = Seen(f[n], cells[n + 1]) /\ cells[n + 1][1] = " " BY <1>1, <1>5, <2>1
  <2> HIDE DEF g
  <2>4. Seen(f[n], cells[n + 1]) = f[n] BY <2>3 DEF Seen
  <2> QED BY <2>2, <2>3, <2>4
<1> HIDE DEF g
<1> QED BY <1>1, <1>2, <1>3, <1>4, SameSteps

(* What the scrollback leaves out of a line is not text.                    *)
LEMMA StoredText ==
  ASSUME NEW cells \in Seq(Cells)
  PROVE  /\ RowText(TrimBlanks(cells)) = RowText(cells)
         /\ RowText(WithoutTails(cells)) = RowText(cells)
<1>1. RowText(TrimBlanks(cells)) = RowText(cells)
  <2> DEFINE N == Len(cells)
             S == {i \in DOMAIN cells : cells[i] # Blank} \cup {0}
             m == Max(S)
             rest == SubSeq(cells, m + 1, N)
             front == SubSeq(cells, 1, m)
  <2>1. N \in Nat /\ DOMAIN cells = 1..N /\ \A i \in 1..N : cells[i] \in Cells
    BY LenProperties, ElementOfSeq
  <2>2. S \subseteq 0..N /\ S # {} BY <2>1
  <2>3. \A i \in 1..N : i \notin S => cells[i] = Blank BY <2>1
  <2> HIDE DEF S
  <2>4. m \in 0..N /\ \A i \in S : m >= i BY <2>1, <2>2, MaxOf
  <2> HIDE DEF N, m
  <2>5. \A i \in (m + 1)..N : cells[i] = Blank
    <3> SUFFICES ASSUME NEW i \in (m + 1)..N PROVE cells[i] = Blank OBVIOUS
    <3>1. i \in 1..N /\ i \notin S BY <2>1, <2>4
    <3> QED BY <2>3, <3>1
  <2>6. front \in Seq(Cells) /\ rest \in Seq(Cells) /\ Len(rest) = N - m
        /\ \A i \in 1..(N - m) : rest[i] = cells[m + i]
    <3>1. \A i \in 1..m : cells[i] \in Cells BY <2>1, <2>4
    <3>2. \A i \in (m + 1)..N : cells[i] \in Cells BY <2>1, <2>4
    <3>3. m + 1 \in Int /\ N \in Int /\ 1 \in Int /\ m \in Int BY <2>1, <2>4
    <3>4. front \in Seq(Cells) BY <3>1, <3>3, SubSeqProperties
    <3>5. /\ rest \in Seq(Cells) /\ Len(rest) = IF m + 1 <= N THEN N - (m + 1) + 1 ELSE 0
          /\ \A i \in 1..(N - (m + 1) + 1) : rest[i] = cells[(m + 1) + i - 1]
      BY <3>2, <3>3, SubSeqProperties
    <3> HIDE DEF rest
    <3>6. Len(rest) = N - m BY <2>1, <2>4, <3>5
    <3>7. \A i \in 1..(N - m) : rest[i] = cells[m + i]
      <4> SUFFICES ASSUME NEW i \in 1..(N - m) PROVE rest[i] = cells[m + i] OBVIOUS
      <4>1. i \in 1..(N - (m + 1) + 1) /\ (m + 1) + i - 1 = m + i BY <2>1, <2>4
      <4> QED BY <3>5, <4>1
    <3> QED BY <3>4, <3>5, <3>6, <3>7
  <2>7. cells = front \o rest
    <3>1. Len(front) = m /\ \A i \in 1..m : front[i] = cells[i]
      <4>1. \A i \in 1..m : cells[i] \in Cells BY <2>1, <2>4
      <4>2. m \in Int /\ 1 \in Int BY <2>4
      <4>3. /\ Len(front) = IF 1 <= m THEN m - 1 + 1 ELSE 0
            /\ \A i \in 1..(m - 1 + 1) : front[i] = cells[1 + i - 1]
        BY <4>1, <4>2, SubSeqProperties
      <4> HIDE DEF front
      <4>4. \A i \in 1..m : front[i] = cells[i]
        <5> SUFFICES ASSUME NEW i \in 1..m PROVE front[i] = cells[i] OBVIOUS
        <5>1. i \in 1..(m - 1 + 1) /\ 1 + i - 1 = i BY <2>4
        <5> QED BY <4>3, <5>1
      <4> QED BY <2>4, <4>3, <4>4
    <3> HIDE DEF front, rest
    <3>2. /\ front \o rest \in Seq(Cells) /\ Len(front \o rest) = m + (N - m)
          /\ \A i \in 1..(m + (N - m)) :
               (front \o rest)[i] = IF i <= m THEN front[i] ELSE rest[i - m]
      <4>1. /\ front \o rest \in Seq(Cells) /\ Len(front \o rest) = Len(front) + Len(rest)
            /\ \A i \in 1..(Len(front) + Len(rest)) :
                 (front \o rest)[i] = IF i <= Len(front) THEN front[i] ELSE rest[i - Len(front)]
        BY <2>6, ConcatProperties
      <4>2. Len(front) = m /\ Len(rest) = N - m BY <2>6, <3>1
      <4> QED BY <4>1, <4>2
    <3>3. Len(front \o rest) = Len(cells) BY <2>1, <2>4, <3>2 DEF N
    <3>4. ASSUME NEW i \in 1..Len(cells) PROVE (front \o rest)[i] = cells[i]
      <4>1. i \in 1..N /\ i \in 1..(m + (N - m)) BY <2>1, <2>4 DEF N
      <4>2. CASE i <= m BY <2>4, <3>1, <3>2, <4>1, <4>2
      <4>3. CASE ~(i <= m)
        <5>1. i - m \in 1..(N - m) /\ m + (i - m) = i BY <2>1, <2>4, <4>1, <4>3
        <5> QED BY <2>6, <3>2, <4>1, <4>3, <5>1
      <4> QED BY <4>2, <4>3
    <3> QED BY <3>2, <3>3, <3>4, SeqEqual
  <2> HIDE DEF rest
  <2>8. RowText(rest) = <<>>
    <3>1. AllBlank(rest)
      <4> SUFFICES \A i \in 1..Len(rest) : rest[i][1] = " " BY DEF AllBlank
      <4> SUFFICES ASSUME NEW i \in 1..Len(rest) PROVE rest[i][1] = " " OBVIOUS
      <4>1. i \in 1..(N - m) BY <2>6
      <4>2. m + i \in (m + 1)..N BY <2>1, <2>4, <4>1
      <4>3. rest[i] = Blank BY <2>5, <2>6, <4>1, <4>2
      <4>4. Blank[1] = " " BY DEF Blank
      <4> QED BY <4>3, <4>4, Zenon
    <3> QED BY <2>6, <3>1, BlankText
  <2> HIDE DEF front
  <2>9. RowText(cells) = RowText(front) \o RowText(rest) BY <2>6, <2>7, TextConcat
  <2>10. RowText(front) \in Seq(Cells) BY <2>6, BlankTypes, TextAppended
  <2>11. RowText(cells) = RowText(front) BY <2>8, <2>9, <2>10
  <2>12. TrimBlanks(cells) = front BY DEF TrimBlanks, front, m, S
  <2> QED BY <2>11, <2>12
<1>2. RowText(WithoutTails(cells)) = RowText(cells)
  <2> DEFINE X == {x \in Seq(Cells) : RowText(WithoutTails(x)) = RowText(x)}
  <2>1. <<>> \in X
    <3>1. WithoutTails(<<>>) = <<>> BY BlankTypes, TailAppended
    <3> QED BY <3>1
  <2>2. ASSUME NEW x \in Seq(Cells), NEW e \in Cells, x \in X PROVE Append(x, e) \in X
    <3>1. WithoutTails(x) \in Seq(Cells) /\ Append(x, e) \in Seq(Cells) BY TailsRemoved
    <3>2. RowText(Append(x, e)) = Seen(RowText(x), e) BY TextAppended
    <3>3. RowText(Append(WithoutTails(x), e)) = Seen(RowText(WithoutTails(x)), e)
      BY <3>1, TextAppended
    <3>4. WithoutTails(Append(x, e)) = IF CellWidth(e) = 0 THEN WithoutTails(x) ELSE Append(WithoutTails(x), e)
      BY TailAppended
    <3>5. CellWidth(e) = 0 => e[1] = " "
      <4>1. CASE e \in Characters \X {1, 2}
        <5>1. e[2] \in {1, 2} BY <4>1
        <5>2. CellWidth(e) # 0 BY <5>1 DEF CellWidth
        <5> QED BY <5>2, Zenon
      <4>2. CASE e = Continuation BY <4>2 DEF Continuation
      <4> QED BY <4>1, <4>2 DEF Cells
    <3>6. RowText(WithoutTails(x)) = RowText(x) BY <2>2
    <3>7. CASE CellWidth(e) = 0
      <4>1. Seen(RowText(x), e) = RowText(x) BY <3>5, <3>7 DEF Seen
      <4> QED BY <3>1, <3>2, <3>4, <3>6, <3>7, <4>1
    <3>8. CASE CellWidth(e) # 0 BY <3>1, <3>2, <3>3, <3>4, <3>6, <3>8
    <3> QED BY <3>7, <3>8
  <2>3. Seq(Cells) \subseteq X
    <3>1. \A x \in Seq(Cells) : \A e \in Cells : x \in X => Append(x, e) \in X BY <2>2
    <3> HIDE DEF X
    <3> QED BY <2>1, <3>1, AppendInduction
  <2> QED BY <2>3
<1> QED BY <1>1, <1>2

-----------------------------------------------------------------------------
(* The texts of lines, and their text.                                      *)
TextsOf(lines) == [i \in DOMAIN lines |-> RowText(lines[i])]
LinesText(lines) == FlattenSeq(TextsOf(lines))
CellsOf(rows) == [i \in DOMAIN rows |-> rows[i].cells]

LEMMA TextsMade ==
  ASSUME NEW lines \in Seq(Seq(Cells))
  PROVE  /\ TextsOf(lines) \in Seq(Seq(Cells)) /\ Len(TextsOf(lines)) = Len(lines)
         /\ DOMAIN TextsOf(lines) = 1..Len(lines)
         /\ \A i \in 1..Len(lines) : TextsOf(lines)[i] = RowText(lines[i])
<1> DEFINE T == Seq(Cells)  N == Len(lines)
<1>1. N \in Nat /\ DOMAIN lines = 1..N /\ \A i \in 1..N : lines[i] \in T
  BY LenProperties, ElementOfSeq
<1>2. \A i \in 1..N : RowText(lines[i]) \in T BY <1>1, BlankTypes, TextAppended
<1> HIDE DEF T, N
<1>3. TextsOf(lines) = [i \in 1..N |-> RowText(lines[i])] BY <1>1 DEF TextsOf
<1>4. TextsOf(lines) \in Seq(T) /\ Len(TextsOf(lines)) = N BY <1>1, <1>2, <1>3, IsASeq, LenProperties
<1> QED BY <1>1, <1>3, <1>4 DEF T, N

LEMMA TextsAppended ==
  ASSUME NEW lines \in Seq(Seq(Cells)), NEW line \in Seq(Cells)
  PROVE  /\ TextsOf(Append(lines, line)) = Append(TextsOf(lines), RowText(line))
         /\ LinesText(lines) \in Seq(Cells) /\ LinesText(<<>>) = <<>>
         /\ LinesText(Append(lines, line)) = LinesText(lines) \o RowText(line)
<1> DEFINE T == Seq(Cells)  N == Len(lines)  more == Append(lines, line)
           ts == TextsOf(lines)  us == TextsOf(more)  text == RowText(line)
<1>1. /\ N \in Nat /\ more \in Seq(T) /\ Len(more) = N + 1 /\ more[N + 1] = line
      /\ \A i \in 1..N : more[i] = lines[i]
  BY AppendProperties
<1>2. text \in T BY BlankTypes, TextAppended
<1> HIDE DEF more
<1>3. /\ ts \in Seq(T) /\ Len(ts) = N /\ us \in Seq(T) /\ Len(us) = N + 1
      /\ \A i \in 1..N : ts[i] = RowText(lines[i])
      /\ \A i \in 1..(N + 1) : us[i] = RowText(more[i])
  <2>1. us \in Seq(T) /\ Len(us) = Len(more) /\ \A i \in 1..Len(more) : us[i] = RowText(more[i])
    BY <1>1, TextsMade
  <2> QED BY <1>1, <2>1, TextsMade
<1> HIDE DEF N, ts, us, T
<1>4. us = Append(ts, text)
  <2>1. \A i \in 1..N : us[i] = ts[i]
    <3> SUFFICES ASSUME NEW i \in 1..N PROVE us[i] = ts[i] OBVIOUS
    <3>1. i \in 1..(N + 1) BY <1>1
    <3> QED BY <1>1, <1>3, <3>1
  <2>2. us[N + 1] = text
    <3>1. N + 1 \in 1..(N + 1) BY <1>1
    <3> QED BY <1>1, <1>3, <3>1
  <2> HIDE DEF text
  <2> QED BY <1>1, <1>2, <1>3, <2>1, <2>2, AppendMade
<1>5. FlattenSeq(ts) \in T /\ FlattenSeq(us) = FlattenSeq(ts) \o text
  <2> HIDE DEF text
  <2> QED BY <1>2, <1>3, <1>4, FlattenAppend DEF T
<1>6. LinesText(<<>>) = <<>>
  <2>1. TextsOf(<<>>) = <<>> BY DEF TextsOf
  <2> QED BY <1>3, <2>1, FlattenAppend, <1>2 DEF LinesText, T
<1> QED BY <1>4, <1>5, <1>6 DEF LinesText, us, ts, text, more, T

LEMMA TextsConcat ==
  ASSUME NEW a \in Seq(Seq(Cells)), NEW b \in Seq(Seq(Cells))
  PROVE  /\ TextsOf(a \o b) = TextsOf(a) \o TextsOf(b)
         /\ LinesText(a \o b) = LinesText(a) \o LinesText(b)
<1> DEFINE T == Seq(Cells)  u == a \o b  n == Len(a)  m == Len(b)
           ta == TextsOf(a)  tb == TextsOf(b)  tu == TextsOf(u)
<1>1. /\ n \in Nat /\ m \in Nat /\ u \in Seq(T) /\ Len(u) = n + m
      /\ \A i \in 1..(n + m) : u[i] = IF i <= n THEN a[i] ELSE b[i - n]
  BY ConcatProperties
<1> HIDE DEF u
<1>2. /\ ta \in Seq(T) /\ Len(ta) = n /\ tb \in Seq(T) /\ Len(tb) = m
      /\ tu \in Seq(T) /\ Len(tu) = n + m
      /\ \A i \in 1..n : ta[i] = RowText(a[i])
      /\ \A i \in 1..m : tb[i] = RowText(b[i])
      /\ \A i \in 1..(n + m) : tu[i] = RowText(u[i])
  <2>1. tu \in Seq(T) /\ Len(tu) = Len(u) /\ \A i \in 1..Len(u) : tu[i] = RowText(u[i])
    BY <1>1, TextsMade
  <2> QED BY <1>1, <2>1, TextsMade
<1> HIDE DEF T, n, m, ta, tb, tu
<1>3. tu = ta \o tb
  <2>1. \A i \in 1..n : tu[i] = ta[i]
    <3> SUFFICES ASSUME NEW i \in 1..n PROVE tu[i] = ta[i] OBVIOUS
    <3>1. i \in 1..(n + m) /\ i <= n BY <1>1
    <3> QED BY <1>1, <1>2, <3>1
  <2>2. \A i \in 1..m : tu[n + i] = tb[i]
    <3> SUFFICES ASSUME NEW i \in 1..m PROVE tu[n + i] = tb[i] OBVIOUS
    <3>1. n + i \in 1..(n + m) /\ ~(n + i <= n) /\ (n + i) - n = i BY <1>1
    <3> QED BY <1>1, <1>2, <3>1
  <2>3. /\ Len(tu) = Len(ta) + Len(tb)
        /\ \A i \in 1..Len(ta) : tu[i] = ta[i]
        /\ \A i \in 1..Len(tb) : tu[Len(ta) + i] = tb[i]
    BY <1>2, <2>1, <2>2
  <2> QED BY <1>2, <2>3, ConcatMade
<1>4. FlattenSeq(tu) = FlattenSeq(ta) \o FlattenSeq(tb) BY <1>2, <1>3, FlattenConcat DEF T
<1> QED BY <1>3, <1>4 DEF tu, ta, tb, u, LinesText

(* The cells of rows.                                                       *)
LEMMA CellsMade ==
  ASSUME NEW w \in Nat, NEW rows \in Rows(w)
  PROVE  /\ CellsOf(rows) \in Seq(Seq(Cells)) /\ Len(CellsOf(rows)) = Len(rows)
         /\ \A i \in 1..Len(rows) : CellsOf(rows)[i] = rows[i].cells
         /\ RowsText(rows) = LinesText(CellsOf(rows))
<1> DEFINE T == Seq(Cells)  N == Len(rows)  cs == CellsOf(rows)
<1>1. N \in Nat /\ DOMAIN rows = 1..N /\ \A i \in 1..N : rows[i] \in Row(w)
  BY LenProperties, ElementOfSeq DEF Rows
<1>2. \A i \in 1..N : rows[i].cells \in T BY <1>1 DEF Row, Line
<1> HIDE DEF T, N
<1>3. cs = [i \in 1..N |-> rows[i].cells] BY <1>1 DEF CellsOf
<1>4. cs \in Seq(T) /\ Len(cs) = N BY <1>1, <1>2, <1>3, IsASeq, LenProperties
<1>5. DOMAIN cs = 1..N /\ \A i \in 1..N : cs[i] = rows[i].cells BY <1>3
<1> HIDE DEF cs
<1>6. [i \in DOMAIN rows |-> RowText(rows[i].cells)] = [i \in DOMAIN cs |-> RowText(cs[i])]
  <2>1. [i \in 1..N |-> RowText(rows[i].cells)] = [i \in 1..N |-> RowText(cs[i])] BY <1>5
  <2> QED BY <1>1, <1>5, <2>1
<1>7. RowsText(rows) = LinesText(cs) BY <1>6, Zenon DEF RowsText, LinesText, TextsOf
<1> QED BY <1>4, <1>5, <1>7 DEF cs, T, N

LEMMA CellsConcat ==
  ASSUME NEW w \in Nat, NEW a \in Rows(w), NEW b \in Rows(w)
  PROVE  /\ a \o b \in Rows(w)
         /\ CellsOf(a \o b) = CellsOf(a) \o CellsOf(b)
         /\ RowsText(a) \in Seq(Cells)
         /\ RowsText(a \o b) = RowsText(a) \o RowsText(b)
<1> DEFINE T == Seq(Cells)  u == a \o b  n == Len(a)  m == Len(b)
           ca == CellsOf(a)  cb == CellsOf(b)  cu == CellsOf(u)
<1>1. /\ n \in Nat /\ m \in Nat /\ u \in Rows(w) /\ Len(u) = n + m
      /\ \A i \in 1..(n + m) : u[i] = IF i <= n THEN a[i] ELSE b[i - n]
  BY ConcatProperties DEF Rows
<1> HIDE DEF u
<1>2. /\ ca \in Seq(T) /\ Len(ca) = n /\ cb \in Seq(T) /\ Len(cb) = m
      /\ cu \in Seq(T) /\ Len(cu) = n + m
      /\ \A i \in 1..n : ca[i] = a[i].cells
      /\ \A i \in 1..m : cb[i] = b[i].cells
      /\ \A i \in 1..(n + m) : cu[i] = u[i].cells
  <2>1. cu \in Seq(T) /\ Len(cu) = Len(u) /\ \A i \in 1..Len(u) : cu[i] = u[i].cells
    BY <1>1, CellsMade
  <2>2. ca \in Seq(T) /\ Len(ca) = n /\ \A i \in 1..n : ca[i] = a[i].cells BY CellsMade
  <2>3. cb \in Seq(T) /\ Len(cb) = m /\ \A i \in 1..m : cb[i] = b[i].cells BY CellsMade
  <2> QED BY <1>1, <2>1, <2>2, <2>3
<1>3. RowsText(a) = LinesText(ca) /\ RowsText(b) = LinesText(cb) /\ RowsText(u) = LinesText(cu)
  BY <1>1, CellsMade
<1> HIDE DEF n, m, ca, cb, cu
<1>4. cu = ca \o cb
  <2> HIDE DEF T
  <2>1. \A i \in 1..n : cu[i] = ca[i]
    <3> SUFFICES ASSUME NEW i \in 1..n PROVE cu[i] = ca[i] OBVIOUS
    <3>1. i \in 1..(n + m) /\ i <= n BY <1>1
    <3> QED BY <1>1, <1>2, <3>1
  <2>2. \A i \in 1..m : cu[n + i] = cb[i]
    <3> SUFFICES ASSUME NEW i \in 1..m PROVE cu[n + i] = cb[i] OBVIOUS
    <3>1. n + i \in 1..(n + m) /\ ~(n + i <= n) /\ (n + i) - n = i BY <1>1
    <3> QED BY <1>1, <1>2, <3>1
  <2>3. /\ Len(cu) = Len(ca) + Len(cb)
        /\ \A i \in 1..Len(ca) : cu[i] = ca[i]
        /\ \A i \in 1..Len(cb) : cu[Len(ca) + i] = cb[i]
    BY <1>2, <2>1, <2>2
  <2> QED BY <1>2, <2>3, ConcatMade
<1>5. LinesText(cu) = LinesText(ca) \o LinesText(cb) /\ LinesText(ca) \in T
  BY <1>2, <1>4, TextsConcat, TextsAppended, BlankTypes
<1> QED BY <1>1, <1>3, <1>4, <1>5 DEF ca, cb, cu, u

(* Lines without text add none, wherever the others end.                    *)
NoText(texts, m) == \A i \in 1..Len(texts) : i > m => texts[i] = <<>>
Chopped(texts) == SubSeq(texts, 1, Max({i \in DOMAIN texts : texts[i] # <<>>} \cup {0}))

LEMMA EmptyTexts ==
  ASSUME NEW texts \in Seq(Seq(Cells)), NoText(texts, 0)
  PROVE  FlattenSeq(texts) = <<>>
<1> DEFINE T == Seq(Cells)
           X == {x \in Seq(T) : NoText(x, 0) => FlattenSeq(x) = <<>>}
<1>1. <<>> \in X
  <2>1. FlattenSeq(<<>>) = <<>> BY FlattenAppend, BlankTypes
  <2> QED BY <2>1
<1>2. ASSUME NEW x \in Seq(T), NEW e \in T, x \in X PROVE Append(x, e) \in X
  <2> SUFFICES ASSUME NoText(Append(x, e), 0) PROVE FlattenSeq(Append(x, e)) = <<>>
    OBVIOUS
  <2>1. /\ Len(Append(x, e)) = Len(x) + 1 /\ Append(x, e)[Len(x) + 1] = e /\ Len(x) \in Nat
        /\ \A i \in 1..Len(x) : Append(x, e)[i] = x[i]
    BY AppendProperties
  <2>2. e = <<>>
    <3>1. Len(x) + 1 \in 1..(Len(x) + 1) /\ Len(x) + 1 > 0 BY <2>1
    <3> QED BY <2>1, <3>1 DEF NoText
  <2>3. NoText(x, 0)
    <3> SUFFICES ASSUME NEW i \in 1..Len(x) PROVE x[i] = <<>> BY DEF NoText
    <3>1. i \in 1..(Len(x) + 1) /\ i > 0 BY <2>1
    <3>2. Append(x, e)[i] = <<>> BY <2>1, <3>1 DEF NoText
    <3> QED BY <2>1, <3>2
  <2>4. FlattenSeq(x) = <<>> BY <1>2, <2>3
  <2>5. FlattenSeq(Append(x, e)) = FlattenSeq(x) \o e BY FlattenAppend
  <2>6. <<>> \o <<>> = <<>> OBVIOUS
  <2> QED BY <2>2, <2>4, <2>5, <2>6
<1>3. Seq(T) \subseteq X
  <2>1. \A x \in Seq(T) : \A l \in T : x \in X => Append(x, l) \in X BY <1>2
  <2> HIDE DEF X, T
  <2> QED BY <1>1, <2>1, AppendInduction
<1> QED BY <1>3

LEMMA PaddedTexts ==
  ASSUME NEW texts \in Seq(Seq(Cells)), NEW m \in 0..Len(texts), NoText(texts, m)
  PROVE  /\ FlattenSeq(texts) = FlattenSeq(SubSeq(texts, 1, m))
         /\ Chopped(texts) = Chopped(SubSeq(texts, 1, m))
<1> DEFINE T == Seq(Cells)  N == Len(texts)
           front == SubSeq(texts, 1, m)  rest == SubSeq(texts, m + 1, Len(texts))
<1>1. N \in Nat /\ m \in Nat /\ m <= N /\ DOMAIN texts = 1..N BY LenProperties
<1>2. /\ front \in Seq(T) /\ Len(front) = m /\ DOMAIN front = 1..m
      /\ \A i \in 1..m : front[i] = texts[i]
      /\ rest \in Seq(T) /\ Len(rest) = N - m
      /\ \A i \in 1..(N - m) : rest[i] = texts[m + i]
      /\ texts = front \o rest
  <2>1. /\ front \in Seq(T) /\ Len(front) = m /\ \A i \in 1..m : front[i] = texts[i]
        /\ rest \in Seq(T) /\ Len(rest) = N - m
        /\ \A i \in 1..(N - m) : rest[i] = texts[m + i]
        /\ texts = front \o rest
    <3>1. texts \in Seq(T) OBVIOUS
    <3> HIDE DEF T
    <3>2. front \in Seq(T) /\ Len(front) = m BY <3>1, SeqSplit
    <3>3. \A i \in 1..m : front[i] = texts[i] BY <3>1, SeqSplit
    <3>4. rest \in Seq(T) /\ Len(rest) = N - m BY <3>1, SeqSplit
    <3>5. \A i \in 1..(N - m) : rest[i] = texts[m + i] BY <3>1, SeqSplit
    <3>6. texts = front \o rest BY <3>1, SeqSplit
    <3> QED BY <3>2, <3>3, <3>4, <3>5, <3>6
  <2> HIDE DEF front, rest
  <2>2. DOMAIN front = 1..m BY <2>1, LenProperties
  <2> QED BY <2>1, <2>2
<1>3. \A i \in 1..N : i > m => texts[i] = <<>> BY DEF NoText
<1> HIDE DEF front, rest, N
<1>4. FlattenSeq(texts) = FlattenSeq(front)
  <2>1. NoText(rest, 0)
    <3> SUFFICES ASSUME NEW i \in 1..Len(rest) PROVE rest[i] = <<>> BY DEF NoText
    <3>1. i \in 1..(N - m) /\ m + i \in 1..N /\ m + i > m BY <1>1, <1>2
    <3> QED BY <1>2, <1>3, <3>1
  <2>2. FlattenSeq(rest) = <<>> BY <1>2, <2>1, EmptyTexts
  <2>3. FlattenSeq(texts) = FlattenSeq(front) \o FlattenSeq(rest) BY <1>2, FlattenConcat
  <2>4. FlattenSeq(front) \in T BY <1>2, FlattenAppend, BlankTypes
  <2> QED BY <2>2, <2>3, <2>4
<1>5. Chopped(texts) = Chopped(front)
  <2> DEFINE A == {i \in DOMAIN texts : texts[i] # <<>>} \cup {0}
             B == {i \in DOMAIN front : front[i] # <<>>} \cup {0}
  <2>1. A = B
    <3>1. ASSUME NEW i \in 1..N, texts[i] # <<>> PROVE i \in 1..m /\ front[i] # <<>>
      <4>1. i \in 1..m BY <1>1, <1>3, <3>1
      <4> QED BY <1>2, <3>1, <4>1
    <3>2. ASSUME NEW i \in 1..m, front[i] # <<>> PROVE i \in 1..N /\ texts[i] # <<>>
      BY <1>1, <1>2, <3>2
    <3> QED BY <1>1, <1>2, <3>1, <3>2
  <2>2. B \subseteq 0..m /\ B # {} BY <1>1, <1>2
  <2> HIDE DEF A, B
  <2>3. Max(B) \in 0..m BY <1>1, <2>2, MaxOf
  <2> DEFINE k == Max(B)
  <2>4. k \in 0..m BY <2>3
  <2> HIDE DEF k
  <2>5. SubSeq(texts, 1, k) = SubSeq(front, 1, k)
    <3>1. k \in 0..Len(texts) /\ k \in 0..Len(front) BY <1>1, <1>2, <2>4 DEF N
    <3> DEFINE p == SubSeq(texts, 1, k)  q == SubSeq(front, 1, k)
    <3>2. /\ p \in Seq(T) /\ Len(p) = k /\ \A i \in 1..k : p[i] = texts[i]
          /\ q \in Seq(T) /\ Len(q) = k /\ \A i \in 1..k : q[i] = front[i]
      BY <1>2, <3>1, SeqSplit
    <3> HIDE DEF p, q
    <3>3. \A i \in 1..Len(p) : p[i] = q[i] BY <1>1, <1>2, <2>4, <3>2
    <3>4. p = q BY <3>2, <3>3, SeqEqual
    <3> QED BY <3>4 DEF p, q
  <2>6. Chopped(texts) = SubSeq(texts, 1, Max(A)) BY DEF Chopped, A
  <2>7. Chopped(front) = SubSeq(front, 1, Max(B)) BY DEF Chopped, B
  <2> QED BY <2>1, <2>5, <2>6, <2>7 DEF k
<1> QED BY <1>4, <1>5 DEF front

(* While the scrollback is not full, what is pushed is all kept.            *)
LEMMA RowStored ==
  ASSUME NEW s \in Scrollbacks, NEW cells \in Seq(Cells),
         Len(PushRow(s, cells).lines) < s.cap
  PROVE  /\ Len(s.lines) < s.cap /\ Len(PushRow(s, cells).lines) = Len(s.lines) + 1
         /\ LinesText(PushRow(s, cells).lines) = LinesText(s.lines) \o RowText(cells)
<1> DEFINE line == WithoutTails(TrimBlanks(cells))
           lines == Append(s.lines, line)
           from == SaturatingSub(Len(lines), s.cap) + 1
           kept == SubSeq(lines, from, Len(lines))
<1>1. line \in Seq(Cells) /\ RowText(line) = RowText(cells)
  <2>1. TrimBlanks(cells) \in Seq(Cells) BY BlanksTrimmed
  <2>2. RowText(TrimBlanks(cells)) = RowText(cells) BY StoredText
  <2>3. RowText(line) = RowText(TrimBlanks(cells)) BY <2>1, StoredText
  <2>4. line \in Seq(Cells) BY <2>1, TailsRemoved
  <2> QED BY <2>2, <2>3, <2>4
<1>2. s.cap \in Nat /\ s.lines \in Seq(Seq(Cells)) /\ Len(s.lines) <= s.cap /\ Len(s.lines) \in Nat
      /\ s = [cap |-> s.cap, lines |-> s.lines]
  BY DEF Scrollbacks
<1> HIDE DEF line
<1>3. lines \in Seq(Seq(Cells)) /\ Len(lines) = Len(s.lines) + 1 BY <1>1, <1>2
<1> HIDE DEF lines
<1>4. s.cap # 0
  <2> SUFFICES ASSUME s.cap = 0 PROVE FALSE OBVIOUS
  <2>1. PushRow(s, cells) = s BY DEF PushRow
  <2> QED BY <1>2, <2>1
<1>5. PushRow(s, cells).lines = kept
  <2>1. PushRow(s, cells) = [s EXCEPT !.lines = kept] BY <1>4 DEF PushRow, kept, lines, from, line
  <2> HIDE DEF kept
  <2> QED BY <1>2, <2>1
<1>6. Len(s.lines) < s.cap
  <2> SUFFICES ASSUME Len(s.lines) = s.cap PROVE FALSE BY <1>2
  <2>1. from = 2 BY <1>2, <1>3 DEF SaturatingSub
  <2> HIDE DEF from
  <2>2. \A i \in from..Len(lines) : lines[i] \in Seq(Cells) BY <1>2, <1>3, <2>1, ElementOfSeq
  <2>3. Len(kept) = IF from <= Len(lines) THEN Len(lines) - from + 1 ELSE 0
    BY <1>2, <1>3, <2>1, <2>2, SubSeqProperties
  <2>4. Len(kept) < s.cap BY <1>5
  <2> HIDE DEF kept
  <2> QED BY <1>2, <1>3, <1>4, <2>1, <2>3, <2>4
<1>7. kept = lines
  <2>1. from = 1 BY <1>2, <1>3, <1>6 DEF SaturatingSub
  <2> HIDE DEF from
  <2>2. SubSeq(lines, 1, Len(lines)) = lines BY <1>3
  <2> QED BY <2>1, <2>2
<1>8. LinesText(Append(s.lines, line)) = LinesText(s.lines) \o RowText(line)
  BY <1>1, <1>2, TextsAppended
<1> HIDE DEF kept
<1> QED BY <1>1, <1>3, <1>5, <1>6, <1>7, <1>8 DEF lines

LEMMA RowsStored ==
  ASSUME NEW s \in Scrollbacks, NEW rows \in Seq(Seq(Cells)),
         Len(PushRows(s, rows).lines) < s.cap
  PROVE  /\ Len(PushRows(s, rows).lines) = Len(s.lines) + Len(rows)
         /\ LinesText(PushRows(s, rows).lines) = LinesText(s.lines) \o LinesText(rows)
<1> DEFINE N == Len(rows)  V == {v \in Scrollbacks : v.cap = s.cap}  c == s.cap  l == Len(s.lines)
           base == LinesText(s.lines)
           Begun(n) == SubSeq(rows, 1, n)
<1>1. PICK f \in [0..N -> V] :
        /\ PushRows(s, rows) = f[N] /\ f[0] = s
        /\ \A n \in 0..(N - 1) : f[n + 1] = PushRow(f[n], rows[n + 1])
  BY PushSteps
<1>2. N \in Nat /\ c \in Nat /\ l \in Nat /\ s.lines \in Seq(Seq(Cells)) /\ base \in Seq(Cells)
      /\ \A n \in 1..N : rows[n] \in Seq(Cells)
  <2>1. s.lines \in Seq(Seq(Cells)) BY DEF Scrollbacks
  <2>2. base \in Seq(Cells) BY <2>1, TextsAppended, BlankTypes
  <2> QED BY <2>1, <2>2, ElementOfSeq DEF Scrollbacks
<1>3. /\ Begun(0) = <<>> /\ Begun(N) = rows /\ (\A n \in 0..N : Begun(n) \in Seq(Seq(Cells)))
      /\ \A n \in 0..(N - 1) : Begun(n + 1) = Append(Begun(n), rows[n + 1])
  <2>1. \A n \in 0..N : /\ Begun(n) \in Seq(Seq(Cells)) /\ Len(Begun(n)) = n
                        /\ \A i \in 1..n : Begun(n)[i] = rows[i]
    BY SeqSplit
  <2>2. ASSUME NEW n \in 0..(N - 1) PROVE Begun(n + 1) = Append(Begun(n), rows[n + 1])
    <3>1. n \in 0..N /\ n + 1 \in 0..N /\ n + 1 \in 1..N BY <1>2
    <3> DEFINE a == Begun(n)  b == Begun(n + 1)  e == rows[n + 1]
    <3>2. e \in Seq(Cells) BY <1>2, <3>1
    <3>3. /\ a \in Seq(Seq(Cells)) /\ Len(a) = n /\ \A i \in 1..n : a[i] = rows[i]
          /\ b \in Seq(Seq(Cells)) /\ Len(b) = n + 1 /\ \A i \in 1..(n + 1) : b[i] = rows[i]
      BY <2>1, <3>1
    <3> HIDE DEF a, b
    <3>4. Len(b) = Len(a) + 1 /\ (\A i \in 1..Len(a) : b[i] = a[i]) /\ b[Len(a) + 1] = e
      <4>1. \A i \in 1..n : i \in 1..(n + 1) BY <3>1
      <4>2. \A i \in 1..n : b[i] = a[i] BY <3>3, <4>1
      <4>3. n + 1 \in 1..(n + 1) BY <3>1, <1>2
      <4>4. b[n + 1] = e BY <3>3, <4>3
      <4> HIDE DEF e
      <4> QED BY <3>3, <4>2, <4>4
    <3> HIDE DEF e
    <3>5. b = Append(a, e) BY <3>2, <3>3, <3>4, AppendMade
    <3> QED BY <3>5 DEF a, b, e
  <2>3. Begun(0) = <<>> OBVIOUS
  <2>4. Begun(N) = rows OBVIOUS
  <2> QED BY <2>1, <2>2, <2>3, <2>4
<1> HIDE DEF N, Begun, V, c, l, base
<1> DEFINE I == {n \in Nat : Len(f[n].lines) < c =>
                     /\ Len(f[n].lines) = l + n
                     /\ LinesText(f[n].lines) = base \o LinesText(Begun(n))}
<1>4. 0 \in I
  <2>1. LinesText(Begun(0)) = <<>> BY <1>3, TextsAppended, BlankTypes
  <2>2. base \o <<>> = base BY <1>2
  <2>3. Len(f[0].lines) = l + 0 BY <1>1, <1>2 DEF l
  <2>4. LinesText(f[0].lines) = base BY <1>1 DEF base
  <2> QED BY <2>1, <2>2, <2>3, <2>4
<1>5. ASSUME NEW n \in 0..(N - 1), n \in I PROVE n + 1 \in I
  <2>1. n \in 0..N /\ n + 1 \in 0..N /\ n + 1 \in 1..N /\ n \in Nat BY <1>2
  <2> DEFINE v == f[n]  u == f[n + 1]  e == rows[n + 1]
  <2> SUFFICES ASSUME Len(u.lines) < c
               PROVE  Len(u.lines) = l + (n + 1) /\ LinesText(u.lines) = base \o LinesText(Begun(n + 1))
    BY <2>1
  <2>2. v \in Scrollbacks /\ v.cap = c /\ e \in Seq(Cells) /\ u = PushRow(v, e)
    BY <1>1, <1>2, <2>1 DEF V, c
  <2>3. Len(v.lines) < c => Len(v.lines) = l + n /\ LinesText(v.lines) = base \o LinesText(Begun(n))
    BY <1>5
  <2>4. LinesText(Begun(n + 1)) = LinesText(Begun(n)) \o RowText(e)
        /\ LinesText(Begun(n)) \in Seq(Cells) /\ RowText(e) \in Seq(Cells)
    BY <1>3, <2>1, <2>2, TextsAppended, TextAppended, BlankTypes
  <2> HIDE DEF v, u, e, I
  <2>5. /\ Len(v.lines) < c /\ Len(u.lines) = Len(v.lines) + 1
        /\ LinesText(u.lines) = LinesText(v.lines) \o RowText(e)
    <3>1. Len(PushRow(v, e).lines) < v.cap BY <2>2
    <3> QED BY <2>2, <3>1, RowStored
  <2>6. (base \o LinesText(Begun(n))) \o RowText(e) = base \o (LinesText(Begun(n)) \o RowText(e))
    <3> DEFINE p == LinesText(Begun(n))  q == RowText(e)
    <3>1. p \in Seq(Cells) /\ q \in Seq(Cells) BY <2>4
    <3> HIDE DEF p, q
    <3>2. (base \o p) \o q = base \o (p \o q) BY <1>2, <3>1, ConcatAssociative
    <3> QED BY <3>2 DEF p, q
  <2>7. Len(u.lines) = l + (n + 1) BY <1>2, <2>1, <2>3, <2>5
  <2>8. LinesText(u.lines) = base \o LinesText(Begun(n + 1))
    <3>1. LinesText(v.lines) = base \o LinesText(Begun(n)) BY <2>3, <2>5
    <3> QED BY <2>4, <2>5, <2>6, <3>1
  <2> QED BY <2>7, <2>8
<1>6. N \in I
  <2>1. \A n \in 0..(N - 1) : n \in I => n + 1 \in I BY <1>5
  <2> HIDE DEF I
  <2>2. 0..N \subseteq I BY <1>2, <1>4, <2>1, IntervalInduction
  <2> QED BY <1>2, <2>2
<1> QED BY <1>1, <1>3, <1>6 DEF N, c, l, base

-----------------------------------------------------------------------------
(* The rows of a grid, joined.                                              *)
LEMMA JoinAppended ==
  ASSUME NEW w \in Nat, NEW rows \in Rows(w), NEW row \in Row(w)
  PROVE  /\ LogicalLines(<<>>) = <<>> /\ LogicalLines(rows) \in Seq(Seq(Cells))
         /\ LogicalLines(Append(rows, row)) = Joining(LogicalLines(rows), row)
<1> DEFINE N == Len(rows)  more == Append(rows, row)  T == Seq(Seq(Cells))
<1>1. PICK f \in [0..N -> T] :
        /\ LogicalLines(rows) = f[N] /\ f[0] = <<>>
        /\ \A n \in 0..(N - 1) : f[n + 1] = Joining(f[n], rows[n + 1])
  BY JoinSteps
<1>2. /\ N \in Nat /\ more \in Rows(w) /\ Len(more) = N + 1 /\ more[N + 1] = row
      /\ \A i \in 1..N : more[i] = rows[i]
  BY AppendProperties DEF Rows
<1> HIDE DEF more
<1>3. PICK g \in [0..(N + 1) -> T] :
        /\ LogicalLines(more) = g[N + 1] /\ g[0] = <<>>
        /\ \A n \in 0..N : g[n + 1] = Joining(g[n], more[n + 1])
  <2>1. \E g \in [0..Len(more) -> T] :
          /\ LogicalLines(more) = g[Len(more)] /\ g[0] = <<>>
          /\ \A n \in 0..(Len(more) - 1) : g[n + 1] = Joining(g[n], more[n + 1])
    BY <1>2, JoinSteps
  <2>2. Len(more) = N + 1 /\ Len(more) - 1 = N BY <1>2
  <2> QED BY <2>1, <2>2
<1> HIDE DEF N
<1>4. f[N] = g[N]
  <2>1. \A n \in 0..(N - 1) : f[n] = g[n] => f[n + 1] = g[n + 1]
    <3> SUFFICES ASSUME NEW n \in 0..(N - 1), f[n] = g[n] PROVE f[n + 1] = g[n + 1] OBVIOUS
    <3>1. n \in 0..N /\ n + 1 \in 1..N BY <1>2
    <3> QED BY <1>1, <1>2, <1>3, <3>1
  <2>2. N \in Nat /\ f[0] = g[0] BY <1>1, <1>2, <1>3
  <2> QED BY <2>1, <2>2, SameSteps
<1>5. g[N + 1] = Joining(g[N], more[N + 1]) BY <1>2, <1>3
<1>6. LogicalLines(<<>>) = <<>>
  <2>1. <<>> \in Rows(w) /\ Len(<<>>) = 0 BY DEF Rows
  <2>2. \E e \in [0..Len(<<>>) -> T] : LogicalLines(<<>>) = e[Len(<<>>)] /\ e[0] = <<>>
    BY <2>1, JoinSteps
  <2> QED BY <2>1, <2>2
<1>7. LogicalLines(rows) \in T BY <1>1, <1>2
<1> QED BY <1>1, <1>2, <1>3, <1>4, <1>5, <1>6, <1>7 DEF more

(* A row that continues the last line makes it longer.                      *)
LEMMA LineContinued ==
  ASSUME NEW w \in Nat, NEW row \in Row(w), row.wrapped,
         NEW u \in Seq(Seq(Cells)), NEW x \in Seq(Cells)
  PROVE  Joining(Append(u, x), row) = Append(u, x \o row.cells)
<1> DEFINE T == Seq(Cells)  v == Append(u, x)  y == x \o row.cells  m == Len(u) + 1
           z == [v EXCEPT ![m] = y]
<1>1. row.cells \in T BY DEF Row, Line
<1>2. y \in T BY <1>1
<1>3. v \in Seq(T) /\ Len(v) = m /\ v[m] = x /\ m \in Nat /\ Len(u) \in Nat
      /\ \A i \in 1..Len(u) : v[i] = u[i]
  BY AppendProperties
<1>4. Joining(v, row) = z
  <2>1. v # <<>> BY <1>3, EmptySeq
  <2> HIDE DEF v, m
  <2>2. Joining(v, row) = [v EXCEPT ![m] = v[m] \o row.cells] BY <1>3, <2>1 DEF Joining
  <2> QED BY <1>3, <2>2
<1> HIDE DEF v, y
<1>5. z \in Seq(T) /\ Len(z) = m /\ z[m] = y /\ \A i \in 1..Len(u) : z[i] = u[i]
  <2>1. m \in 1..Len(v) BY <1>3
  <2>2. z \in Seq(T) /\ Len(z) = Len(v) BY <1>2, <1>3, <2>1, ExceptSeq
  <2>3. DOMAIN v = 1..m BY <1>3, LenProperties
  <2>4. z[m] = y BY <1>3, <2>3
  <2>5. \A i \in 1..Len(u) : z[i] = u[i] BY <1>3, <2>3
  <2> QED BY <1>3, <2>2, <2>4, <2>5
<1> HIDE DEF z
<1>6. z = Append(u, y) BY <1>2, <1>5, AppendMade
<1> QED BY <1>4, <1>6 DEF v, y

(* Joining rows keeps their text.                                           *)
LEMMA JoiningText ==
  ASSUME NEW w \in Nat, NEW row \in Row(w), NEW v \in Seq(Seq(Cells))
  PROVE  LinesText(Joining(v, row)) = LinesText(v) \o RowText(row.cells)
<1> DEFINE cells == row.cells
<1>1. cells \in Seq(Cells) BY DEF Row, Line
<1>2. CASE v # <<>> /\ row.wrapped
  <2>1. PICK u \in Seq(Seq(Cells)), x \in Seq(Cells) : v = Append(u, x) BY <1>2, LastSplit
  <2>2. Joining(v, row) = Append(u, x \o cells) BY <1>2, <2>1, LineContinued
  <2> HIDE DEF cells
  <2>3. x \o cells \in Seq(Cells) BY <1>1
  <2>4. LinesText(Append(u, x \o cells)) = LinesText(u) \o RowText(x \o cells)
        /\ LinesText(v) = LinesText(u) \o RowText(x) /\ LinesText(u) \in Seq(Cells)
    BY <2>1, <2>3, TextsAppended
  <2>5. RowText(x \o cells) = RowText(x) \o RowText(cells) BY <1>1, TextConcat
  <2>6. RowText(x) \in Seq(Cells) /\ RowText(cells) \in Seq(Cells) BY <1>1, TextAppended, BlankTypes
  <2>7. (LinesText(u) \o RowText(x)) \o RowText(cells) = LinesText(u) \o (RowText(x) \o RowText(cells))
    <3> DEFINE p == LinesText(u)  q == RowText(x)  r == RowText(cells)
    <3>1. p \in Seq(Cells) /\ q \in Seq(Cells) /\ r \in Seq(Cells) BY <2>4, <2>6
    <3> HIDE DEF p, q, r
    <3>2. (p \o q) \o r = p \o (q \o r) BY <3>1, ConcatAssociative
    <3> QED BY <3>2 DEF p, q, r
  <2> QED BY <2>2, <2>4, <2>5, <2>7 DEF cells
<1>3. CASE ~(v # <<>> /\ row.wrapped)
  <2>1. Joining(v, row) = Append(v, cells) BY <1>3 DEF Joining
  <2> QED BY <1>1, <2>1, TextsAppended
<1> QED BY <1>2, <1>3

LEMMA NoRowsText == RowsText(<<>>) = <<>>
<1>1. <<>> \in Rows(0) /\ <<>> \in Seq(Seq(Cells)) /\ <<>> \in Seq(Cells) BY DEF Rows
<1>2. CellsOf(<<>>) = <<>> BY DEF CellsOf
<1>3. RowsText(<<>>) = LinesText(<<>>) BY <1>1, <1>2, CellsMade
<1>4. LinesText(<<>>) = <<>> BY <1>1, TextsAppended
<1> QED BY <1>3, <1>4

LEMMA OneRowText ==
  ASSUME NEW w \in Nat, NEW row \in Row(w)
  PROVE  RowsText(<<row>>) = RowText(row.cells)
<1> DEFINE c == row.cells
<1>1. c \in Seq(Cells) BY DEF Row, Line
<1>2. CellsOf(<<row>>) = <<c>> /\ <<row>> \in Rows(w) BY DEF CellsOf, Rows
<1> HIDE DEF c
<1>3. RowsText(<<row>>) = LinesText(<<c>>) BY <1>2, CellsMade
<1>4. <<>> \in Seq(Seq(Cells)) /\ Append(<<>>, c) = <<c>> BY <1>1
<1>5. LinesText(Append(<<>>, c)) = LinesText(<<>>) \o RowText(c) /\ LinesText(<<>>) = <<>>
  BY <1>1, <1>4, TextsAppended
<1>6. RowText(c) \in Seq(Cells) BY <1>1, TextAppended, BlankTypes
<1>7. <<>> \o RowText(c) = RowText(c) BY <1>6
<1> QED BY <1>3, <1>4, <1>5, <1>7 DEF c

LEMMA JoinedText ==
  ASSUME NEW w \in Nat, NEW rows \in Rows(w)
  PROVE  RowsText(rows) = LinesText(LogicalLines(rows))
<1> DEFINE X == {x \in Rows(w) : RowsText(x) = LinesText(LogicalLines(x))}
<1>1. <<>> \in X
  <2>1. <<>> \in Rows(w) BY DEF Rows
  <2>2. LogicalLines(<<>>) = <<>> BY <2>1, JoinAppended, BlankTypes
  <2>3. <<>> \in Seq(Seq(Cells)) /\ <<>> \in Seq(Cells) OBVIOUS
  <2>4. LinesText(<<>>) = <<>> BY <2>3, TextsAppended
  <2> QED BY <2>1, <2>2, <2>4, NoRowsText
<1>2. ASSUME NEW x \in Rows(w), NEW row \in Row(w), x \in X PROVE Append(x, row) \in X
  <2>1. Append(x, row) \in Rows(w) BY DEF Rows
  <2>2. LogicalLines(Append(x, row)) = Joining(LogicalLines(x), row)
        /\ LogicalLines(x) \in Seq(Seq(Cells))
    BY JoinAppended
  <2>3. LinesText(Joining(LogicalLines(x), row)) = LinesText(LogicalLines(x)) \o RowText(row.cells)
    BY <2>2, JoiningText
  <2>4. RowsText(Append(x, row)) = RowsText(x) \o RowText(row.cells)
    <3>1. Append(x, row) = x \o <<row>> /\ <<row>> \in Rows(w) BY AppendIsConcat DEF Rows
    <3>2. RowsText(x \o <<row>>) = RowsText(x) \o RowsText(<<row>>) BY <3>1, CellsConcat
    <3>3. RowsText(<<row>>) = RowText(row.cells) BY OneRowText
    <3> QED BY <3>1, <3>2, <3>3
  <2> QED BY <1>2, <2>1, <2>2, <2>3, <2>4
<1>3. Rows(w) \subseteq X
  <2>1. \A x \in Seq(Row(w)) : \A e \in Row(w) : x \in X => Append(x, e) \in X BY <1>2 DEF Rows
  <2> HIDE DEF X
  <2> QED BY <1>1, <2>1, AppendInduction DEF Rows
<1> QED BY <1>3

-----------------------------------------------------------------------------
(* What is laid keeps the text.                                             *)
LaidText(laid) == LinesText(laid.done) \o RowText(laid.row)

LEMMA LaidLines ==
  ASSUME NEW w \in Nat, NEW laid \in Laid(w)
  PROVE  /\ laid.done \in Seq(Seq(Cells)) /\ laid.row \in Seq(Cells) /\ LaidText(laid) \in Seq(Cells)
<1> DEFINE R == {s \in Seq(Cells) : Len(s) <= w}
<1>1. laid.done \in Seq(R) /\ laid.row \in Seq(Cells) BY DEF Laid
<1>2. R \subseteq Seq(Cells) OBVIOUS
<1> HIDE DEF R
<1>3. laid.done \in Seq(Seq(Cells)) BY <1>1, <1>2
<1>4. LinesText(laid.done) \in Seq(Cells) BY <1>3, TextsAppended, BlankTypes
<1>5. RowText(laid.row) \in Seq(Cells) BY <1>1, TextAppended, BlankTypes
<1>6. LaidText(laid) \in Seq(Cells)
  <2> DEFINE p == LinesText(laid.done)  q == RowText(laid.row)
  <2>1. p \in Seq(Cells) /\ q \in Seq(Cells) BY <1>4, <1>5
  <2> HIDE DEF p, q
  <2>2. p \o q \in Seq(Cells) BY <2>1
  <2> QED BY <2>2 DEF p, q, LaidText
<1> QED BY <1>1, <1>3, <1>6

LEMMA CellLaidText ==
  ASSUME NEW w \in Nat \ {0}, NEW laid \in Laid(w), NEW cell \in Cells
  PROVE  LaidText(LayCell(w, laid, cell)) = LaidText(laid) \o RowText(<<cell>>)
<1> DEFINE col == Len(laid.row)
           full == col >= w \/ (CellWidth(cell) = 2 /\ col + 1 >= w)
           row == IF full THEN <<>> ELSE laid.row
           tail == IF CellWidth(cell) = 2 /\ Len(row) + 1 < w THEN <<Continuation>> ELSE <<>>
           here == [row |-> Len(laid.done),
                    col |-> IF CellWidth(cell) = 0 THEN SaturatingSub(col, 2) ELSE col]
           done == IF full THEN Append(laid.done, laid.row) ELSE laid.done
           at == Append(laid.at, here)
           one == <<cell>>
           new == row \o one \o tail
<1>1. laid.done \in Seq(Seq(Cells)) /\ laid.row \in Seq(Cells) /\ LaidText(laid) \in Seq(Cells)
      /\ laid = [done |-> laid.done, row |-> laid.row, at |-> laid.at]
  BY LaidLines DEF Laid
<1>2. one \in Seq(Cells) OBVIOUS
<1>3. RowText(one) \in Seq(Cells) BY <1>2, TextAppended, BlankTypes
<1>4. tail \in Seq(Cells) /\ RowText(tail) = <<>>
  <2>1. <<Continuation>> \in Seq(Cells) BY BlankTypes
  <2>2. RowText(<<Continuation>>) = <<>>
    <3>1. AllBlank(<<Continuation>>)
      <4>1. Continuation[1] = " " BY DEF Continuation
      <4>2. \A i \in 1..Len(<<Continuation>>) : <<Continuation>>[i] = Continuation OBVIOUS
      <4> QED BY <4>1, <4>2 DEF AllBlank
    <3> QED BY <2>1, <3>1, BlankText
  <2>3. <<>> \in Seq(Cells) /\ RowText(<<>>) = <<>> BY TextAppended, BlankTypes
  <2>4. tail = <<Continuation>> \/ tail = <<>> OBVIOUS
  <2> HIDE DEF tail
  <2> QED BY <2>1, <2>2, <2>3, <2>4
<1>5. \/ row = laid.row /\ done = laid.done
      \/ row = <<>> /\ done = Append(laid.done, laid.row)
  <2> HIDE DEF full
  <2>1. CASE full BY <2>1
  <2>2. CASE ~full
    <3>1. row = laid.row BY <2>2, Zenon
    <3>2. done = laid.done BY <2>2, Zenon
    <3> HIDE DEF row, done
    <3> QED BY <3>1, <3>2
  <2> QED BY <2>1, <2>2, Zenon
<1>6. CASE CellWidth(cell) = 0
  <2>1. LayCell(w, laid, cell) = [laid EXCEPT !.at = at]
    BY <1>6 DEF LayCell, at, here, col
  <2> HIDE DEF at
  <2>2. LayCell(w, laid, cell).done = laid.done /\ LayCell(w, laid, cell).row = laid.row BY <1>1, <2>1
  <2>3. AllBlank(one)
    <3>1. cell[1] = " "
      <4>1. CASE cell \in Characters \X {1, 2}
        <5>1. cell[2] \in {1, 2} BY <4>1
        <5>2. CellWidth(cell) # 0 BY <5>1 DEF CellWidth
        <5> QED BY <1>6, <5>2, Zenon
      <4>2. CASE cell = Continuation BY <4>2 DEF Continuation
      <4> QED BY <4>1, <4>2 DEF Cells
    <3>2. \A i \in 1..Len(one) : one[i] = cell OBVIOUS
    <3> QED BY <3>1, <3>2 DEF AllBlank
  <2> HIDE DEF one
  <2>4. RowText(one) = <<>> BY <1>2, <2>3, BlankText
  <2>5. LaidText(laid) \o <<>> = LaidText(laid) BY <1>1
  <2>6. LaidText(LayCell(w, laid, cell)) = LaidText(laid) BY <2>2 DEF LaidText
  <2> QED BY <2>4, <2>5, <2>6 DEF one
<1>7. CASE CellWidth(cell) # 0
  <2>1. LayCell(w, laid, cell) = [done |-> done, row |-> new, at |-> at]
    BY <1>7 DEF LayCell, done, at, here, col, row, full, tail
  <2> HIDE DEF at, here, one, tail, row, done, new
  <2>2. LayCell(w, laid, cell).done = done /\ LayCell(w, laid, cell).row = new BY <2>1
  <2>3. row \in Seq(Cells) /\ done \in Seq(Seq(Cells))
    <3>1. <<>> \in Seq(Cells) /\ Append(laid.done, laid.row) \in Seq(Seq(Cells)) BY <1>1
    <3> QED BY <1>1, <1>5, <3>1
  <2>4. RowText(new) = RowText(row) \o RowText(one)
    <3> DEFINE two == row \o one
    <3>1. two \in Seq(Cells) /\ RowText(two) = RowText(row) \o RowText(one) BY <1>2, <2>3, TextConcat
    <3>2. new = two \o tail BY DEF new
    <3> HIDE DEF two
    <3>3. RowText(two \o tail) = RowText(two) \o RowText(tail) BY <1>4, <3>1, TextConcat
    <3>4. RowText(two) \in Seq(Cells) BY <3>1, TextAppended, BlankTypes
    <3>5. RowText(two) \o <<>> = RowText(two) BY <3>4
    <3> QED BY <1>4, <3>1, <3>2, <3>3, <3>5
  <2>5. LinesText(done) \o RowText(row) = LaidText(laid)
    <3>1. CASE row = laid.row /\ done = laid.done BY <3>1 DEF LaidText
    <3>2. CASE row = <<>> /\ done = Append(laid.done, laid.row)
      <4>1. LinesText(done) = LaidText(laid) BY <1>1, <3>2, TextsAppended DEF LaidText
      <4>2. RowText(row) = <<>> BY <3>2, TextAppended, BlankTypes
      <4>3. LaidText(laid) \o <<>> = LaidText(laid) BY <1>1
      <4> QED BY <4>1, <4>2, <4>3
    <3> QED BY <1>5, <3>1, <3>2
  <2>6. LinesText(done) \o (RowText(row) \o RowText(one)) = (LinesText(done) \o RowText(row)) \o RowText(one)
    <3> DEFINE p == LinesText(done)  q == RowText(row)  r == RowText(one)
    <3>1. p \in Seq(Cells) BY <2>3, TextsAppended, BlankTypes
    <3>2. q \in Seq(Cells) /\ r \in Seq(Cells) BY <1>3, <2>3, TextAppended, BlankTypes
    <3> HIDE DEF p, q, r
    <3>3. (p \o q) \o r = p \o (q \o r) BY <3>1, <3>2, ConcatAssociative
    <3> QED BY <3>3 DEF p, q, r
  <2>7. LaidText(LayCell(w, laid, cell)) = LinesText(done) \o RowText(new) BY <2>2 DEF LaidText
  <2> QED BY <2>4, <2>5, <2>6, <2>7 DEF one
<1> QED BY <1>6, <1>7

LEMMA LayAppended ==
  ASSUME NEW w \in Nat \ {0}, NEW line \in Seq(Cells), NEW cell \in Cells
  PROVE  /\ LayLine(<<>>, w) = NothingLaid
         /\ LayLine(Append(line, cell), w) = LayCell(w, LayLine(line, w), cell)
<1> DEFINE N == Len(line)  more == Append(line, cell)  V == Laid(w)
<1>1. PICK f \in [0..N -> V] :
        /\ LayLine(line, w) = f[N] /\ f[0] = NothingLaid
        /\ \A n \in 0..(N - 1) : f[n + 1] = LayCell(w, f[n], line[n + 1])
  BY LaySteps
<1>2. /\ N \in Nat /\ more \in Seq(Cells) /\ Len(more) = N + 1 /\ more[N + 1] = cell
      /\ \A i \in 1..N : more[i] = line[i]
  BY AppendProperties
<1> HIDE DEF more
<1>3. PICK g \in [0..(N + 1) -> V] :
        /\ LayLine(more, w) = g[N + 1] /\ g[0] = NothingLaid
        /\ \A n \in 0..N : g[n + 1] = LayCell(w, g[n], more[n + 1])
  <2>1. \E g \in [0..Len(more) -> V] :
          /\ LayLine(more, w) = g[Len(more)] /\ g[0] = NothingLaid
          /\ \A n \in 0..(Len(more) - 1) : g[n + 1] = LayCell(w, g[n], more[n + 1])
    BY <1>2, LaySteps
  <2>2. Len(more) = N + 1 /\ Len(more) - 1 = N BY <1>2
  <2> QED BY <2>1, <2>2
<1> HIDE DEF N, V
<1>4. f[N] = g[N]
  <2>1. \A n \in 0..(N - 1) : f[n] = g[n] => f[n + 1] = g[n + 1]
    <3> SUFFICES ASSUME NEW n \in 0..(N - 1), f[n] = g[n] PROVE f[n + 1] = g[n + 1] OBVIOUS
    <3>1. n \in 0..N /\ n + 1 \in 1..N BY <1>2
    <3> QED BY <1>1, <1>2, <1>3, <3>1
  <2>2. N \in Nat /\ f[0] = g[0] BY <1>1, <1>2, <1>3
  <2> QED BY <2>1, <2>2, SameSteps
<1>5. g[N + 1] = LayCell(w, g[N], more[N + 1]) BY <1>2, <1>3
<1>6. LayLine(<<>>, w) = NothingLaid
  <2> DEFINE z == <<>>
  <2>1. z \in Seq(Cells) /\ Len(z) = 0 OBVIOUS
  <2> HIDE DEF z
  <2>2. \E e \in [0..Len(z) -> Laid(w)] : LayLine(z, w) = e[Len(z)] /\ e[0] = NothingLaid
    BY <2>1, LaySteps
  <2>3. LayLine(z, w) = NothingLaid BY <2>1, <2>2
  <2> QED BY <2>3 DEF z
<1> QED BY <1>1, <1>2, <1>3, <1>4, <1>5, <1>6 DEF more

LEMMA LineLaidText ==
  ASSUME NEW w \in Nat \ {0}, NEW line \in Seq(Cells)
  PROVE  LaidText(LayLine(line, w)) = RowText(line)
<1> DEFINE X == {x \in Seq(Cells) : LaidText(LayLine(x, w)) = RowText(x)}
<1>1. <<>> \in X
  <2>1. LayLine(<<>>, w) = NothingLaid BY LayAppended, BlankTypes
  <2>2. RowText(<<>>) = <<>> BY TextAppended, BlankTypes
  <2>3. LinesText(<<>>) = <<>>
    <3>1. <<>> \in Seq(Cells) /\ <<>> \in Seq(Seq(Cells)) OBVIOUS
    <3> QED BY <3>1, TextsAppended
  <2>4. LaidText(NothingLaid) = <<>>
    <3>1. NothingLaid.done = <<>> /\ NothingLaid.row = <<>> BY DEF NothingLaid
    <3>2. <<>> \o <<>> = <<>> OBVIOUS
    <3> QED BY <2>2, <2>3, <3>1, <3>2 DEF LaidText
  <2> QED BY <2>1, <2>2, <2>4
<1>2. ASSUME NEW x \in Seq(Cells), NEW e \in Cells, x \in X PROVE Append(x, e) \in X
  <2>1. LayLine(Append(x, e), w) = LayCell(w, LayLine(x, w), e) BY LayAppended
  <2>2. LayLine(x, w) \in Laid(w) BY LineLaid
  <2>3. LaidText(LayCell(w, LayLine(x, w), e)) = LaidText(LayLine(x, w)) \o RowText(<<e>>)
    BY <2>2, CellLaidText
  <2> DEFINE one == <<e>>
  <2>4. one \in Seq(Cells) /\ Append(x, e) = x \o one /\ Append(x, e) \in Seq(Cells)
    BY AppendIsConcat
  <2>5. RowText(x \o one) = RowText(x) \o RowText(one)
    <3> HIDE DEF one
    <3> QED BY <2>4, TextConcat
  <2> QED BY <1>2, <2>1, <2>3, <2>4, <2>5
<1>3. Seq(Cells) \subseteq X
  <2>1. \A x \in Seq(Cells) : \A e \in Cells : x \in X => Append(x, e) \in X BY <1>2
  <2> HIDE DEF X
  <2> QED BY <1>1, <2>1, AppendInduction
<1> QED BY <1>3

(* Blanks that fill a row are no text.                                      *)
LEMMA BlanksHaveNoText ==
  ASSUME NEW n \in Nat
  PROVE  Blanks(n) \in Seq(Cells) /\ RowText(Blanks(n)) = <<>>
<1>1. Blanks(n) \in Seq(Cells) /\ Len(Blanks(n)) = n BY BlankTypes
<1>2. AllBlank(Blanks(n))
  <2>1. \A i \in 1..n : Blanks(n)[i] = Blank BY DEF Blanks
  <2>2. Blank[1] = " " BY DEF Blank
  <2>3. \A i \in 1..n : Blanks(n)[i][1] = " " BY <2>1, <2>2
  <2> QED BY <1>1, <2>3 DEF AllBlank
<1> QED BY <1>1, <1>2, BlankText

LEMMA RowsMadeText ==
  ASSUME NEW w \in Nat \ {0}, NEW laid \in Laid(w)
  PROVE  /\ RowsOf(laid, w) \in Rows(w) /\ Len(RowsOf(laid, w)) = Len(laid.done) + 1
         /\ \A i \in 1..Len(RowsOf(laid, w)) : RowsOf(laid, w)[i].wrapped = (i > 1)
         /\ RowsText(RowsOf(laid, w)) = LaidText(laid)
<1> DEFINE R == {s \in Seq(Cells) : Len(s) <= w}
           rows == Append(laid.done, laid.row)
           row(i) == [cells |-> rows[i] \o Blanks(w - Len(rows[i])), wrapped |-> i > 1]
           made == RowsOf(laid, w)
           N == Len(rows)
<1>1. laid.done \in Seq(R) /\ laid.row \in R BY DEF Laid
<1>2. rows \in Seq(R) /\ N = Len(laid.done) + 1 /\ N \in Nat
  <2> HIDE DEF R
  <2> QED BY <1>1
<1>3. DOMAIN rows = 1..N /\ \A i \in 1..N : rows[i] \in R
  <2> HIDE DEF R, rows
  <2> QED BY <1>2, LenProperties, ElementOfSeq
<1>4. \A i \in 1..N : rows[i] \in Seq(Cells) /\ Len(rows[i]) \in Nat /\ Len(rows[i]) <= w
  BY <1>3, SMTT(30)
<1>5. rows \in Seq(Seq(Cells))
  <2>1. R \subseteq Seq(Cells) OBVIOUS
  <2> HIDE DEF R, rows
  <2> QED BY <1>2, <2>1
<1>6. LinesText(rows) = LaidText(laid) BY LaidLines, TextsAppended DEF LaidText
<1>7. made = [i \in 1..N |-> row(i)] BY <1>3 DEF RowsOf, rows
<1>8. made \in Rows(w) BY RowsMade
<1> HIDE DEF rows, R, N
<1>9. Len(made) = N /\ \A i \in 1..N : /\ made[i].wrapped = (i > 1)
                                       /\ made[i].cells = rows[i] \o Blanks(w - Len(rows[i]))
  <2>1. DOMAIN made = 1..N BY <1>7
  <2>2. \A i \in 1..N : made[i] = row(i) BY <1>7
  <2> HIDE DEF made
  <2>3. ASSUME NEW i \in 1..N
        PROVE  made[i].wrapped = (i > 1) /\ made[i].cells = rows[i] \o Blanks(w - Len(rows[i]))
    <3> DEFINE b == i > 1  c == rows[i] \o Blanks(w - Len(rows[i]))
    <3>1. made[i] = [cells |-> c, wrapped |-> b] BY <2>2
    <3>4. b \in BOOLEAN OBVIOUS
    <3> HIDE DEF b, c, row
    <3>2. made[i].cells = c BY <3>1
    <3>3. made[i].wrapped = b BY <3>1, <3>4
    <3> QED BY <3>2, <3>3 DEF b, c
  <2> HIDE DEF row
  <2>5. Len(made) = N BY <1>2, <1>8, <2>1, LenProperties DEF Rows
  <2> QED BY <2>3, <2>5
<1>10. \A i \in 1..N : RowText(made[i].cells) = RowText(rows[i])
  <2> SUFFICES ASSUME NEW i \in 1..N PROVE RowText(made[i].cells) = RowText(rows[i]) OBVIOUS
  <2> DEFINE s == rows[i]  k == w - Len(s)
  <2>1. s \in Seq(Cells) /\ k \in Nat BY <1>4
  <2>2. made[i].cells = s \o Blanks(k) BY <1>9
  <2> HIDE DEF s, k, made, row
  <2>3. Blanks(k) \in Seq(Cells) /\ RowText(Blanks(k)) = <<>> BY <2>1, BlanksHaveNoText
  <2>4. RowText(s \o Blanks(k)) = RowText(s) \o RowText(Blanks(k)) BY <2>1, <2>3, TextConcat
  <2>5. RowText(s) \in Seq(Cells) BY <2>1, TextAppended, BlankTypes
  <2>6. RowText(s) \o <<>> = RowText(s) BY <2>5
  <2> QED BY <2>2, <2>3, <2>4, <2>6 DEF s
<1> HIDE DEF made, row
<1>11. RowsText(made) = LinesText(rows)
  <2> DEFINE cs == CellsOf(made)  a == TextsOf(cs)  b == TextsOf(rows)
  <2>1. cs \in Seq(Seq(Cells)) /\ Len(cs) = N /\ (\A i \in 1..N : cs[i] = made[i].cells)
        /\ RowsText(made) = LinesText(cs)
    BY <1>8, <1>9, CellsMade
  <2> HIDE DEF cs
  <2>2. a \in Seq(Seq(Cells)) /\ Len(a) = N /\ \A i \in 1..N : a[i] = RowText(cs[i])
    BY <2>1, TextsMade
  <2>3. b \in Seq(Seq(Cells)) /\ Len(b) = N /\ \A i \in 1..N : b[i] = RowText(rows[i])
    BY <1>5, TextsMade DEF N
  <2> HIDE DEF a, b
  <2>4. \A i \in 1..Len(a) : a[i] = b[i] BY <1>10, <2>1, <2>2, <2>3
  <2>5. a = b BY <2>2, <2>3, <2>4, SeqEqual
  <2> QED BY <2>1, <2>5 DEF LinesText, a, b
<1> QED BY <1>2, <1>6, <1>8, <1>9, <1>11 DEF made

(* Rows of which all but the first continue the row before are one line.    *)
IsBlock(rows) ==
  /\ rows # <<>> /\ ~rows[1].wrapped
  /\ \A i \in 1..Len(rows) : i > 1 => rows[i].wrapped

LEMMA BlockJoined ==
  ASSUME NEW w \in Nat, NEW rows \in Rows(w), NEW block \in Rows(w), IsBlock(block)
  PROVE  TextsOf(LogicalLines(rows \o block)) = Append(TextsOf(LogicalLines(rows)), RowsText(block))
<1> DEFINE T == Seq(Cells)  N == Len(block)  lines == LogicalLines(rows)
           Begun(n) == SubSeq(block, 1, n)
           Is(n) == \E x \in T : /\ LogicalLines(rows \o Begun(n)) = Append(lines, x)
                                 /\ RowText(x) = RowsText(Begun(n))
           I == {k \in Nat : Is(k + 1)}
<1>1. /\ N \in Nat \ {0} /\ ~block[1].wrapped /\ \A i \in 1..N : block[i] \in Row(w)
      /\ \A i \in 1..N : i > 1 => block[i].wrapped
  BY EmptySeq, ElementOfSeq, LenProperties DEF IsBlock, Rows
<1>2. /\ Begun(0) = <<>> /\ Begun(N) = block
      /\ \A n \in 0..(N - 1) : Begun(n + 1) = Append(Begun(n), block[n + 1])
      /\ \A n \in 0..N : Begun(n) \in Rows(w)
  BY FrontGrows, SeqSplit DEF Rows
<1>3. lines \in Seq(T)
  <2>1. BlankLine(w) \in Row(w) BY BlankTypes
  <2> QED BY <2>1, JoinAppended
<1> HIDE DEF N, Begun, lines
<1>4. ASSUME NEW n \in 0..(N - 1)
      PROVE  /\ rows \o Begun(n + 1) = Append(rows \o Begun(n), block[n + 1])
             /\ rows \o Begun(n) \in Rows(w) /\ block[n + 1] \in Row(w) /\ block[n + 1].cells \in T
             /\ LogicalLines(rows \o Begun(n + 1)) = Joining(LogicalLines(rows \o Begun(n)), block[n + 1])
             /\ RowsText(Begun(n + 1)) = RowsText(Begun(n)) \o RowText(block[n + 1].cells)
  <2> DEFINE a == Begun(n)  row == block[n + 1]  one == <<row>>
  <2>1. n \in 0..N /\ n + 1 \in 1..N BY <1>1
  <2>2. a \in Rows(w) /\ row \in Row(w) /\ Begun(n + 1) = Append(a, row) BY <1>1, <1>2, <2>1
  <2>3. row.cells \in T BY <2>2 DEF Row, Line
  <2> HIDE DEF a, row
  <2>4. one \in Rows(w) /\ Append(a, row) = a \o one /\ Append(rows \o a, row) = (rows \o a) \o one
        /\ rows \o a \in Rows(w)
    BY <2>2, AppendIsConcat DEF Rows
  <2>5. (rows \o a) \o one = rows \o (a \o one)
    <3> HIDE DEF one
    <3> QED BY <2>2, <2>4, ConcatAssociative DEF Rows
  <2>6. rows \o Begun(n + 1) = Append(rows \o a, row) BY <2>2, <2>4, <2>5
  <2>7. LogicalLines(Append(rows \o a, row)) = Joining(LogicalLines(rows \o a), row)
    BY <2>2, <2>4, JoinAppended
  <2>8. RowsText(a \o one) = RowsText(a) \o RowsText(one)
    <3> HIDE DEF one
    <3> QED BY <2>2, <2>4, CellsConcat
  <2>9. RowsText(one) = RowText(row.cells) BY <2>2, OneRowText
  <2> QED BY <2>2, <2>3, <2>4, <2>6, <2>7, <2>8, <2>9 DEF a, row
<1>5. 0 \in I
  <2> DEFINE x == block[1].cells
  <2>1. 0 \in 0..(N - 1) /\ 0 + 1 = 1 BY <1>1
  <2>2. rows \o Begun(0) = rows BY <1>2 DEF Rows
  <2>3. x \in T /\ LogicalLines(rows \o Begun(1)) = Joining(lines, block[1])
        /\ RowsText(Begun(1)) = RowsText(Begun(0)) \o RowText(x)
    BY <1>4, <2>1, <2>2 DEF lines
  <2> HIDE DEF x
  <2>4. Joining(lines, block[1]) = Append(lines, x) BY <1>1 DEF Joining, x
  <2>5. RowsText(Begun(1)) = RowText(x)
    <3>1. RowsText(<<>>) = <<>> BY NoRowsText
    <3>2. RowText(x) \in Seq(Cells) BY <2>3, TextAppended, BlankTypes
    <3>3. <<>> \o RowText(x) = RowText(x) BY <3>2
    <3> QED BY <1>2, <2>3, <3>1, <3>3
  <2>6. Is(1) BY <2>3, <2>4, <2>5
  <2> QED BY <2>1, <2>6
<1>6. ASSUME NEW k \in 0..(N - 1 - 1), k \in I PROVE k + 1 \in I
  <2> DEFINE n == k + 1  row == block[n + 1]  y == row.cells
  <2>1. n \in 0..(N - 1) /\ n \in 0..N /\ n + 1 \in 1..N /\ n + 1 > 1 /\ k \in Nat BY <1>1
  <2>2. PICK x \in T : LogicalLines(rows \o Begun(n)) = Append(lines, x) /\ RowText(x) = RowsText(Begun(n))
    BY <1>6
  <2> HIDE DEF n
  <2>3. row \in Row(w) /\ y \in T /\ row.wrapped
        /\ LogicalLines(rows \o Begun(n + 1)) = Joining(LogicalLines(rows \o Begun(n)), row)
        /\ RowsText(Begun(n + 1)) = RowsText(Begun(n)) \o RowText(y)
    BY <1>1, <1>4, <2>1
  <2>4. Joining(Append(lines, x), row) = Append(lines, x \o y)
    <3> HIDE DEF row
    <3> QED BY <1>3, <2>3, LineContinued
  <2> HIDE DEF y, row
  <2>5. x \o y \in T /\ RowText(x \o y) = RowText(x) \o RowText(y) BY <2>3, TextConcat
  <2>6. Is(n + 1)
    <3> DEFINE z == x \o y
    <3>1. z \in T /\ LogicalLines(rows \o Begun(n + 1)) = Append(lines, z) /\ RowText(z) = RowsText(Begun(n + 1))
      BY <2>2, <2>3, <2>4, <2>5
    <3> HIDE DEF z
    <3> QED BY <3>1
  <2> QED BY <2>1, <2>6 DEF n
<1>7. Is(N)
  <2>1. N - 1 \in Nat /\ (N - 1) + 1 = N BY <1>1
  <2>2. \A k \in 0..(N - 1 - 1) : k \in I => k + 1 \in I BY <1>6
  <2> DEFINE M == N - 1
  <2>3. M \in Nat /\ \A k \in 0..(M - 1) : k \in I => k + 1 \in I BY <2>1, <2>2
  <2> HIDE DEF I, M
  <2>4. 0..M \subseteq I BY <1>5, <2>3, IntervalInduction
  <2>5. M \in I BY <2>3, <2>4
  <2>6. Is(M + 1) BY <2>5 DEF I
  <2> QED BY <2>1, <2>6 DEF M
<1>8. PICK x \in T : LogicalLines(rows \o block) = Append(lines, x) /\ RowText(x) = RowsText(block)
  BY <1>2, <1>7
<1>9. TextsOf(Append(lines, x)) = Append(TextsOf(lines), RowText(x)) BY <1>3, TextsAppended
<1> QED BY <1>8, <1>9 DEF lines

-----------------------------------------------------------------------------
(* All lines laid: their rows, in order.                                    *)
Block(line, w) == RowsOf(LayLine(line, w), w)
Rewrapped(lines, w) == FlattenSeq([i \in DOMAIN lines |-> Block(lines[i], w)])

LEMMA LineBlock ==
  ASSUME NEW w \in Nat \ {0}, NEW line \in Seq(Cells)
  PROVE  /\ Block(line, w) \in Rows(w) /\ IsBlock(Block(line, w))
         /\ RowsText(Block(line, w)) = RowText(line)
<1> DEFINE laid == LayLine(line, w)  rows == RowsOf(laid, w)
<1>1. laid \in Laid(w) /\ LaidText(laid) = RowText(line) BY LineLaid, LineLaidText
<1>2. Len(laid.done) \in Nat BY <1>1, LaidLines, LenProperties
<1> HIDE DEF laid
<1>3. /\ rows \in Rows(w) /\ Len(rows) = Len(laid.done) + 1
      /\ \A i \in 1..Len(rows) : rows[i].wrapped = (i > 1)
      /\ RowsText(rows) = LaidText(laid)
  BY <1>1, RowsMadeText
<1> HIDE DEF rows
<1>4. IsBlock(rows)
  <2>1. rows # <<>> BY <1>2, <1>3
  <2>2. 1 \in 1..Len(rows) /\ ~(1 > 1) BY <1>2, <1>3
  <2>3. ~rows[1].wrapped BY <1>3, <2>2
  <2>4. \A i \in 1..Len(rows) : i > 1 => rows[i].wrapped BY <1>3
  <2> QED BY <2>1, <2>3, <2>4 DEF IsBlock
<1> QED BY <1>1, <1>3, <1>4 DEF Block, rows, laid

LEMMA RewrapAppended ==
  ASSUME NEW w \in Nat \ {0}, NEW lines \in Seq(Seq(Cells)), NEW line \in Seq(Cells)
  PROVE  /\ Rewrapped(<<>>, w) = <<>> /\ Rewrapped(lines, w) \in Rows(w)
         /\ Rewrapped(Append(lines, line), w) = Rewrapped(lines, w) \o Block(line, w)
<1> DEFINE T == Seq(Cells)  U == Rows(w)  N == Len(lines)  more == Append(lines, line)
           block == Block(line, w)
           BlocksOf(ls) == [i \in DOMAIN ls |-> Block(ls[i], w)]
           a == BlocksOf(lines)  b == BlocksOf(more)
<1>1. /\ N \in Nat /\ more \in Seq(T) /\ Len(more) = N + 1 /\ more[N + 1] = line
      /\ \A i \in 1..N : more[i] = lines[i]
  BY AppendProperties
<1>2. \A l \in T : Block(l, w) \in U BY LineBlock
<1>3. ASSUME NEW ls \in Seq(T)
      PROVE  BlocksOf(ls) \in Seq(U) /\ Len(BlocksOf(ls)) = Len(ls)
             /\ \A i \in 1..Len(ls) : BlocksOf(ls)[i] = Block(ls[i], w)
  <2> DEFINE M == Len(ls)  f == BlocksOf(ls)
  <2>1. M \in Nat /\ DOMAIN ls = 1..M /\ \A i \in 1..M : ls[i] \in T BY LenProperties, ElementOfSeq
  <2>2. \A i \in 1..M : Block(ls[i], w) \in U BY <1>2, <2>1
  <2> HIDE DEF T, U, M
  <2>3. f = [i \in 1..M |-> Block(ls[i], w)] BY <2>1
  <2>4. f \in Seq(U) /\ Len(f) = M BY <2>1, <2>2, <2>3, IsASeq, LenProperties
  <2> QED BY <2>3, <2>4 DEF M
<1> HIDE DEF more, T
<1>4. /\ a \in Seq(U) /\ Len(a) = N /\ b \in Seq(U) /\ Len(b) = N + 1
      /\ \A i \in 1..N : a[i] = Block(lines[i], w)
      /\ \A i \in 1..(N + 1) : b[i] = Block(more[i], w)
  <2>1. b \in Seq(U) /\ Len(b) = Len(more) /\ \A i \in 1..Len(more) : b[i] = Block(more[i], w)
    BY <1>1, <1>3
  <2>2. lines \in Seq(T) BY DEF T
  <2>3. a \in Seq(U) /\ Len(a) = N /\ \A i \in 1..N : a[i] = Block(lines[i], w) BY <1>3, <2>2
  <2> QED BY <1>1, <2>1, <2>3
<1>5. block \in U BY <1>2 DEF T
<1> HIDE DEF BlocksOf, a, b, N, U
<1>6. b = Append(a, block)
  <2>1. \A i \in 1..N : b[i] = a[i]
    <3> SUFFICES ASSUME NEW i \in 1..N PROVE b[i] = a[i] OBVIOUS
    <3>1. i \in 1..(N + 1) BY <1>1
    <3> QED BY <1>1, <1>4, <3>1
  <2>2. b[N + 1] = block
    <3>1. N + 1 \in 1..(N + 1) BY <1>1
    <3> QED BY <1>1, <1>4, <3>1
  <2> HIDE DEF block
  <2> QED BY <1>4, <1>5, <2>1, <2>2, AppendMade
<1>7. FlattenSeq(a) \in U /\ FlattenSeq(b) = FlattenSeq(a) \o block /\ FlattenSeq(<<>>) = <<>>
  <2> HIDE DEF block
  <2> QED BY <1>4, <1>5, <1>6, FlattenAppend DEF U, Rows
<1>8. Rewrapped(<<>>, w) = <<>>
  <2>1. [i \in DOMAIN <<>> |-> Block(<<>>[i], w)] = <<>> OBVIOUS
  <2> QED BY <1>7, <2>1, Zenon DEF Rewrapped
<1> QED BY <1>7, <1>8 DEF Rewrapped, U, a, b, BlocksOf, more, block

(* Laid lines are the same lines: their text in order, and each one's.      *)
LEMMA RewrapText ==
  ASSUME NEW w \in Nat \ {0}, NEW lines \in Seq(Seq(Cells))
  PROVE  /\ Rewrapped(lines, w) \in Rows(w)
         /\ TextsOf(LogicalLines(Rewrapped(lines, w))) = TextsOf(lines)
         /\ RowsText(Rewrapped(lines, w)) = LinesText(lines)
<1> DEFINE T == Seq(Cells)
           X == {x \in Seq(T) : TextsOf(LogicalLines(Rewrapped(x, w))) = TextsOf(x)}
<1>1. <<>> \in X
  <2>1. <<>> \in Seq(T) /\ <<>> \in T /\ <<>> \in Rows(w) BY DEF Rows
  <2>2. Rewrapped(<<>>, w) = <<>> BY <2>1, RewrapAppended
  <2>3. LogicalLines(<<>>) = <<>>
    <3>1. BlankLine(w) \in Row(w) BY BlankTypes
    <3> QED BY <2>1, <3>1, JoinAppended
  <2> QED BY <2>1, <2>2, <2>3
<1>2. ASSUME NEW x \in Seq(T), NEW l \in T, x \in X PROVE Append(x, l) \in X
  <2> DEFINE rows == Rewrapped(x, w)  block == Block(l, w)
  <2>1. rows \in Rows(w) /\ Rewrapped(Append(x, l), w) = rows \o block BY RewrapAppended
  <2>2. block \in Rows(w) /\ IsBlock(block) /\ RowsText(block) = RowText(l) BY LineBlock
  <2>3. TextsOf(LogicalLines(rows)) = TextsOf(x) BY <1>2
  <2> HIDE DEF rows, block
  <2>4. TextsOf(LogicalLines(rows \o block)) = Append(TextsOf(LogicalLines(rows)), RowsText(block))
    BY <2>1, <2>2, BlockJoined
  <2>5. TextsOf(Append(x, l)) = Append(TextsOf(x), RowText(l)) BY TextsAppended
  <2>6. Append(x, l) \in Seq(T) OBVIOUS
  <2> QED BY <2>1, <2>2, <2>3, <2>4, <2>5, <2>6
<1>3. Seq(T) \subseteq X
  <2>1. \A x \in Seq(T) : \A e \in T : x \in X => Append(x, e) \in X BY <1>2
  <2> HIDE DEF X, T
  <2> QED BY <1>1, <2>1, AppendInduction
<1>4. TextsOf(LogicalLines(Rewrapped(lines, w))) = TextsOf(lines) BY <1>3
<1>5. Rewrapped(lines, w) \in Rows(w)
  <2>1. <<>> \in T OBVIOUS
  <2> QED BY <2>1, RewrapAppended
<1>6. RowsText(Rewrapped(lines, w)) = LinesText(LogicalLines(Rewrapped(lines, w)))
  BY <1>5, JoinedText
<1> QED BY <1>4, <1>5, <1>6, Zenon DEF LinesText

(* The lines that are laid again: all up to the last that is not blank, or  *)
(* the cursor's.                                                            *)
Trimmed(lines) == [i \in DOMAIN lines |-> TrimBlanks(lines[i])]
KeptLines(lines, line) ==
  SubSeq(Trimmed(lines), 1, Max({line} \cup {i \in DOMAIN Trimmed(lines) : Trimmed(lines)[i] # <<>>}))

LEMMA KeptText ==
  ASSUME NEW lines \in Seq(Seq(Cells)), NEW line \in 1..Len(lines)
  PROVE  /\ KeptLines(lines, line) \in Seq(Seq(Cells))
         /\ LinesText(KeptLines(lines, line)) = LinesText(lines)
         /\ Chopped(TextsOf(KeptLines(lines, line))) = Chopped(TextsOf(lines))
<1> DEFINE T == Seq(Cells)  L == Len(lines)  trimmed == Trimmed(lines)
           some == {line} \cup {i \in DOMAIN trimmed : trimmed[i] # <<>>}
           m == Max(some)
           kept == SubSeq(trimmed, 1, m)
           texts == TextsOf(lines)
<1>1. L \in Nat /\ DOMAIN lines = 1..L /\ (\A i \in 1..L : lines[i] \in T) /\ line \in 1..L
  BY LenProperties, ElementOfSeq
<1>2. \A i \in 1..L : TrimBlanks(lines[i]) \in T /\ RowText(TrimBlanks(lines[i])) = RowText(lines[i])
  BY <1>1, BlanksTrimmed, StoredText
<1> HIDE DEF L
<1>3. /\ trimmed \in Seq(T) /\ Len(trimmed) = L /\ DOMAIN trimmed = 1..L
      /\ \A i \in 1..L : trimmed[i] = TrimBlanks(lines[i])
  <2>1. trimmed = [i \in 1..L |-> TrimBlanks(lines[i])] BY <1>1 DEF Trimmed
  <2> HIDE DEF T
  <2>2. trimmed \in Seq(T) /\ Len(trimmed) = L BY <1>1, <1>2, <2>1, IsASeq, LenProperties
  <2> QED BY <2>1, <2>2
<1> HIDE DEF trimmed
<1>4. m \in 1..L /\ \A i \in 1..L : trimmed[i] # <<>> => i <= m
  <2>1. /\ some \subseteq 0..L /\ line \in some /\ \A i \in some : i \in 1..L
        /\ \A i \in 1..L : trimmed[i] # <<>> => i \in some
    BY <1>1, <1>3
  <2> HIDE DEF some
  <2>2. Max(some) \in some /\ \A i \in some : Max(some) >= i BY <1>1, <2>1, MaxOf
  <2> QED BY <2>1, <2>2
<1> HIDE DEF some, m
<1>5. /\ kept \in Seq(T) /\ Len(kept) = m /\ \A i \in 1..m : kept[i] = trimmed[i]
  <2>1. m \in 0..Len(trimmed) BY <1>1, <1>3, <1>4
  <2> QED BY <1>3, <2>1, SeqSplit
<1>6. /\ texts \in Seq(T) /\ Len(texts) = L /\ \A i \in 1..L : texts[i] = RowText(lines[i])
  BY TextsMade DEF L
<1> HIDE DEF texts
<1>7. NoText(texts, m)
  <2> SUFFICES ASSUME NEW i \in 1..L, i > m PROVE texts[i] = <<>> BY <1>6 DEF NoText
  <2>1. trimmed[i] = <<>> BY <1>1, <1>4
  <2>2. TrimBlanks(lines[i]) = <<>> BY <1>3, <2>1
  <2>3. RowText(<<>>) = <<>> BY TextAppended, BlankTypes
  <2> QED BY <1>2, <1>6, <2>2, <2>3
<1>8. FlattenSeq(texts) = FlattenSeq(SubSeq(texts, 1, m)) /\ Chopped(texts) = Chopped(SubSeq(texts, 1, m))
  <2>1. m \in 0..Len(texts) BY <1>1, <1>4, <1>6
  <2> QED BY <1>6, <1>7, <2>1, PaddedTexts
<1>9. TextsOf(kept) = SubSeq(texts, 1, m)
  <2> DEFINE a == TextsOf(kept)  b == SubSeq(texts, 1, m)
  <2>1. a \in Seq(T) /\ Len(a) = m /\ \A i \in 1..m : a[i] = RowText(kept[i])
    <3> HIDE DEF kept
    <3> QED BY <1>5, TextsMade
  <2>2. b \in Seq(T) /\ Len(b) = m /\ \A i \in 1..m : b[i] = texts[i]
    <3>1. m \in 0..Len(texts) BY <1>1, <1>4, <1>6
    <3> QED BY <1>6, <3>1, SeqSplit
  <2> HIDE DEF a, b, kept
  <2>3. ASSUME NEW i \in 1..Len(a) PROVE a[i] = b[i]
    <3>1. i \in 1..m /\ i \in 1..L BY <1>1, <1>4, <2>1
    <3> QED BY <1>2, <1>3, <1>5, <1>6, <2>1, <2>2, <3>1
  <2>4. a = b BY <2>1, <2>2, <2>3, SeqEqual
  <2> QED BY <2>4 DEF a, b
<1>10. KeptLines(lines, line) = kept BY DEF KeptLines, kept, m, some, trimmed
<1> HIDE DEF kept
<1> QED BY <1>5, <1>8, <1>9, <1>10, Zenon DEF LinesText, texts, T

(* Blank rows at the end change nothing.                                    *)
LEMMA BlankRowsText ==
  ASSUME NEW w \in Nat, NEW rows \in Rows(w), NEW k \in Nat
  PROVE  /\ RowsText(BlankLines(k, w)) = <<>>
         /\ Chopped(TextsOf(LogicalLines(rows \o BlankLines(k, w)))) = Chopped(TextsOf(LogicalLines(rows)))
<1> DEFINE T == Seq(Cells)  line == BlankLine(w)  texts == TextsOf(LogicalLines(rows))
           Same(n) == /\ RowsText(BlankLines(n, w)) = <<>>
                      /\ Chopped(TextsOf(LogicalLines(rows \o BlankLines(n, w)))) = Chopped(texts)
           S == {n \in Nat : Same(n)}
<1>1. line \in Row(w) /\ line.wrapped = FALSE /\ line.cells = Blanks(w) BY BlankTypes DEF BlankLine
<1>2. \A n \in Nat : BlankLines(n, w) \in Rows(w) /\ Len(BlankLines(n, w)) = n BY BlankTypes
<1>3. 0 \in S
  <2>1. BlankLines(0, w) = <<>> BY DEF BlankLines
  <2>2. rows \o <<>> = rows BY DEF Rows
  <2> QED BY <2>1, <2>2, NoRowsText
<1>4. ASSUME NEW n \in Nat, Same(n) PROVE Same(n + 1)
  <2> DEFINE a == BlankLines(n, w)  b == BlankLines(n + 1, w)  one == <<line>>
  <2>1. n + 1 \in Nat /\ a \in Rows(w) /\ Len(a) = n /\ b \in Rows(w) /\ Len(b) = n + 1
    BY <1>2
  <2>2. (\A i \in 1..n : b[i] = a[i]) /\ b[n + 1] = line BY DEF BlankLines
  <2> HIDE DEF a, b, line
  <2>3. b = Append(a, line)
    <3>1. Len(b) = Len(a) + 1 /\ (\A i \in 1..Len(a) : b[i] = a[i]) /\ b[Len(a) + 1] = line
      BY <2>1, <2>2
    <3> QED BY <1>1, <2>1, <3>1, AppendMade DEF Rows
  <2>4. one \in Rows(w) /\ Append(a, line) = a \o one /\ rows \o a \in Rows(w)
        /\ Append(rows \o a, line) = (rows \o a) \o one
    BY <1>1, <2>1, AppendIsConcat DEF Rows
  <2>5. (rows \o a) \o one = rows \o (a \o one)
    <3> HIDE DEF one
    <3> QED BY <2>1, <2>4, ConcatAssociative DEF Rows
  <2>6. rows \o b = Append(rows \o a, line) BY <2>3, <2>4, <2>5
  <2>7. RowText(line.cells) = <<>> /\ line.cells \in T BY <1>1, BlanksHaveNoText
  <2>8. RowsText(b) = <<>>
    <3>1. RowsText(a \o one) = RowsText(a) \o RowsText(one)
      <4> HIDE DEF one
      <4> QED BY <2>1, <2>4, CellsConcat
    <3>2. RowsText(one) = <<>> BY <1>1, <2>7, OneRowText
    <3>3. RowsText(a) = <<>> BY <1>4 DEF a
    <3>4. <<>> \o <<>> = <<>> OBVIOUS
    <3> QED BY <2>3, <2>4, <3>1, <3>2, <3>3, <3>4
  <2> DEFINE lines == LogicalLines(rows \o a)
  <2>9. lines \in Seq(T) /\ LogicalLines(rows \o b) = Joining(lines, line) BY <1>1, <2>4, <2>6, JoinAppended
  <2> HIDE DEF lines
  <2>10. Joining(lines, line) = Append(lines, line.cells) BY <1>1 DEF Joining
  <2>11. TextsOf(Append(lines, line.cells)) = Append(TextsOf(lines), <<>>) BY <2>7, <2>9, TextsAppended
  <2>12. Chopped(Append(TextsOf(lines), <<>>)) = Chopped(TextsOf(lines))
    <3> DEFINE s == TextsOf(lines)  u == Append(s, <<>>)  M == Len(s)
    <3>1. s \in Seq(T) BY <2>9, TextsMade
    <3> HIDE DEF s
    <3>2. u \in Seq(T) /\ Len(u) = M + 1 /\ M \in Nat /\ u[M + 1] = <<>> /\ \A i \in 1..M : u[i] = s[i]
      <4>1. <<>> \in T OBVIOUS
      <4> HIDE DEF T
      <4> QED BY <3>1, <4>1, AppendProperties, LenProperties
    <3> HIDE DEF u
    <3>3. NoText(u, M)
      <4> SUFFICES ASSUME NEW i \in 1..(M + 1), i > M PROVE u[i] = <<>> BY <3>2 DEF NoText
      <4>1. i = M + 1 BY <3>2
      <4> QED BY <3>2, <4>1
    <3>4. M \in 0..Len(u) BY <3>2
    <3>5. Chopped(u) = Chopped(SubSeq(u, 1, M)) BY <3>2, <3>3, <3>4, PaddedTexts
    <3>6. SubSeq(u, 1, M) = s
      <4> DEFINE f == SubSeq(u, 1, M)
      <4>1. f \in Seq(T) /\ Len(f) = M /\ \A i \in 1..M : f[i] = u[i]
        BY <3>2, <3>4, SeqSplit
      <4> HIDE DEF f
      <4>2. \A i \in 1..Len(f) : f[i] = s[i] BY <3>2, <4>1
      <4>3. f = s BY <3>1, <4>1, <4>2, SeqEqual
      <4> QED BY <4>3 DEF f
    <3> QED BY <3>5, <3>6 DEF u, s
  <2>13. Chopped(TextsOf(lines)) = Chopped(texts) BY <1>4, Zenon DEF lines, a
  <2> HIDE DEF texts
  <2>14. Chopped(TextsOf(LogicalLines(rows \o b))) = Chopped(texts)
    BY <2>9, <2>10, <2>11, <2>12, <2>13
  <2> QED BY <2>8, <2>14 DEF b
<1>5. k \in S
  <2>1. \A n \in Nat : n \in S => n + 1 \in S BY <1>4
  <2> HIDE DEF S
  <2>2. Nat \subseteq S BY <1>3, <2>1, NatSetInduction
  <2> QED BY <2>2
<1> QED BY <1>5

(* The rows a screen of h lines shows of all, and those pushed out.         *)
Overflows(all, h, w, over, pushed, shown) ==
  /\ over = SaturatingSub(Len(all), h)
  /\ pushed = [i \in 1..over |-> all[i].cells]
  /\ shown = SubSeq(all, over + 1, Len(all)) \o BlankLines(SaturatingSub(h, Len(all)), w)
NothingLost(all, over, pushed, shown) ==
  /\ pushed \in Seq(Seq(Cells)) /\ Len(pushed) = over /\ over \in Nat
  /\ LinesText(pushed) \o RowsText(shown) = RowsText(all)
  /\ over = 0 => Chopped(TextsOf(LogicalLines(shown))) = Chopped(TextsOf(LogicalLines(all)))

(* Together they hold the text of all.                                      *)
LEMMA ShownText ==
  ASSUME NEW w \in Nat, NEW h \in Nat, NEW all \in Rows(w), NEW over, NEW pushed, NEW shown,
         Overflows(all, h, w, over, pushed, shown)
  PROVE  NothingLost(all, over, pushed, shown)
<1>0. /\ over = SaturatingSub(Len(all), h)
      /\ pushed = [i \in 1..over |-> all[i].cells]
      /\ shown = SubSeq(all, over + 1, Len(all)) \o BlankLines(SaturatingSub(h, Len(all)), w)
  BY Zenon DEF Overflows
<1> DEFINE A == Len(all)  front == SubSeq(all, 1, over)  rest == SubSeq(all, over + 1, A)
           k == SaturatingSub(h, A)  blanks == BlankLines(k, w)
<1>1. A \in Nat BY LenProperties DEF Rows
<1> HIDE DEF A
<1>2. over \in 0..A /\ over \in Nat /\ k \in Nat BY <1>0, <1>1 DEF SaturatingSub, A
<1> HIDE DEF k
<1>3. /\ front \in Rows(w) /\ Len(front) = over /\ \A i \in 1..over : front[i] = all[i]
      /\ rest \in Rows(w) /\ all = front \o rest
  BY <1>2, SeqSplit DEF A, Rows
<1>4. blanks \in Rows(w) /\ RowsText(blanks) = <<>> BY <1>2, BlankTypes, BlankRowsText
<1>5. shown = rest \o blanks BY <1>0 DEF A, k
<1> HIDE DEF front, rest, blanks
<1>6. CellsOf(front) \in Seq(Seq(Cells)) /\ Len(CellsOf(front)) = over
      /\ (\A i \in 1..over : CellsOf(front)[i] = all[i].cells) /\ RowsText(front) = LinesText(CellsOf(front))
  BY <1>3, CellsMade
<1>7. pushed = CellsOf(front)
  <2> DEFINE c == CellsOf(front)
  <2>1. c \in Seq(Seq(Cells)) /\ Len(c) = over /\ \A i \in 1..over : c[i] = all[i].cells BY <1>6
  <2> HIDE DEF c
  <2>2. DOMAIN c = 1..over BY <2>1, LenProperties
  <2>3. c = [i \in 1..over |-> c[i]] BY <2>1, <2>2
  <2>4. c = pushed BY <1>0, <2>1, <2>3
  <2> QED BY <2>4 DEF c
<1>8. RowsText(shown) = RowsText(rest)
  <2>1. RowsText(rest \o blanks) = RowsText(rest) \o RowsText(blanks) /\ RowsText(rest) \in Seq(Cells)
    BY <1>3, <1>4, CellsConcat
  <2>2. RowsText(rest) \o <<>> = RowsText(rest) BY <2>1
  <2> QED BY <1>4, <1>5, <2>1, <2>2
<1>9. RowsText(all) = RowsText(front) \o RowsText(rest) BY <1>3, CellsConcat
<1>10. ASSUME over = 0
       PROVE  Chopped(TextsOf(LogicalLines(shown))) = Chopped(TextsOf(LogicalLines(all)))
  <2>1. rest = all BY <1>10 DEF rest, A, Rows
  <2>2. shown = all \o BlankLines(k, w) BY <1>5, <2>1 DEF blanks
  <2>3. Chopped(TextsOf(LogicalLines(all \o BlankLines(k, w)))) = Chopped(TextsOf(LogicalLines(all)))
    BY <1>2, BlankRowsText
  <2> QED BY <2>2, <2>3, Zenon
<1> QED BY <1>2, <1>6, <1>7, <1>8, <1>9, <1>10 DEF NothingLost

(* A reflow loses no text, and as long as no row is pushed out the lines    *)
(* are the same.                                                            *)
TextOut(new, g) ==
  /\ LinesText(new.pushed) \o RowsText(new.grid.rows) = RowsText(g.rows)
  /\ new.pushed = <<>> => LineTexts(new.grid) = LineTexts(g)

LEMMA RelaidText ==
  ASSUME NEW w0 \in Nat \ {0}, NEW h0 \in Nat \ {0}, NEW g \in Grids(w0, h0),
         NEW w \in Nat \ {0}, NEW h \in Nat \ {0}, NEW row \in Nat, NEW col \in Nat
  PROVE  TextOut(Relaid(g, w, h, row, col), g)
<1> DEFINE abs     == row * g.width + col
           absRow  == abs \div g.width + 1
           head    == HeadOf(g.rows, absRow)
           line    == Cardinality({r \in LineHeads(g.rows) : r <= head})
           lines   == LogicalLines(g.rows)
           kept    == KeptLines(lines, line)
           found   == IF absRow \in DOMAIN g.rows THEN abs - (head - 1) * g.width ELSE 0
           laid    == [i \in DOMAIN kept |-> LayLine(kept[i], w)]
           rows    == [i \in DOMAIN kept |-> RowsOf(laid[i], w)]
           all     == FlattenSeq(rows)
           over    == SaturatingSub(Len(all), h)
           before  == Len(FlattenSeq(SubSeq(rows, 1, line - 1)))
           at      == IF kept[line] = <<>> THEN [row |-> 0, col |-> found]
                      ELSE laid[line].at[AtMost(found, Len(kept[line]) - 1) + 1]
           shown   == SubSeq(all, over + 1, Len(all)) \o BlankLines(SaturatingSub(h, Len(all)), w)
           pushed  == [i \in 1..over |-> all[i].cells]
           y       == Clamp(SaturatingSub(before + at.row, over), h)
           x       == Clamp(at.col, w)
           grid    == [width |-> w, height |-> h, rows |-> shown]
           new     == Relaid(g, w, h, row, col)
<1>1. g.width = w0 /\ g.rows \in Rows(w0) /\ Len(g.rows) = h0 /\ DOMAIN g.rows = 1..h0 BY GridParts
<1>2. new = [grid |-> grid, row |-> y, col |-> x, pushed |-> pushed]
  BY DEF Relaid, grid, y, x, pushed, shown, at, before, over, all, rows, laid, kept, KeptLines, Trimmed,
         lines, line, found, head, absRow, abs
<1>3. absRow \in Nat
  <2>1. row * w0 \in Nat BY ProductGrows
  <2>2. abs \in Nat BY <1>1, <2>1
  <2> HIDE DEF abs
  <2>3. abs \div w0 \in Nat BY <2>2, Quotient
  <2> QED BY <1>1, <2>3
<1> HIDE DEF abs, absRow
<1>4. line \in 1..Len(lines) /\ lines \in Seq(Seq(Cells))
  <2>1. w0 \in Nat /\ Len(g.rows) # 0 BY <1>1
  <2> DEFINE hd == HeadOf(g.rows, absRow)
             ln == Cardinality({r \in LineHeads(g.rows) : r <= hd})
  <2>2. ln \in 1..Len(LogicalLines(g.rows))
    <3>1. hd = HeadOf(g.rows, absRow) /\ ln = Cardinality({r \in LineHeads(g.rows) : r <= hd})
      OBVIOUS
    <3> HIDE DEF hd, ln
    <3> QED BY <1>1, <1>3, <2>1, <3>1, LineOfRow
  <2> QED BY <1>1, <2>2, LinesJoined
<1> HIDE DEF head, line, lines, found
<1>5. /\ kept \in Seq(Seq(Cells)) /\ LinesText(kept) = LinesText(lines)
      /\ Chopped(TextsOf(kept)) = Chopped(TextsOf(lines))
  BY <1>4, KeptText
<1> HIDE DEF kept
<1>6. rows = [i \in DOMAIN kept |-> Block(kept[i], w)]
  <2>1. \A i \in DOMAIN kept : laid[i] = LayLine(kept[i], w) OBVIOUS
  <2> HIDE DEF laid
  <2>2. \A i \in DOMAIN kept : RowsOf(laid[i], w) = Block(kept[i], w) BY <2>1 DEF Block
  <2> QED BY <2>2
<1> HIDE DEF laid, rows
<1>7. all = Rewrapped(kept, w) BY <1>6, Zenon DEF Rewrapped
<1> HIDE DEF all
<1>8. /\ all \in Rows(w) /\ TextsOf(LogicalLines(all)) = TextsOf(kept)
      /\ RowsText(all) = LinesText(kept)
  BY <1>5, <1>7, RewrapText
<1> HIDE DEF over
<1>9. NothingLost(all, over, pushed, shown)
  <2>1. over = SaturatingSub(Len(all), h) BY DEF over
  <2>2. pushed = [i \in 1..over |-> all[i].cells] OBVIOUS
  <2>3. shown = SubSeq(all, over + 1, Len(all)) \o BlankLines(SaturatingSub(h, Len(all)), w) OBVIOUS
  <2> HIDE DEF pushed, shown
  <2>4. Overflows(all, h, w, over, pushed, shown) BY <2>1, <2>2, <2>3, Zenon DEF Overflows
  <2> QED BY <1>8, <2>4, ShownText
<1> HIDE DEF pushed, shown, y, x, before, at
<1>10. new.pushed = pushed /\ new.grid = grid BY <1>2
<1> HIDE DEF new
<1>11. new.grid.rows = shown BY <1>10
<1>12. RowsText(g.rows) = LinesText(lines) BY <1>1, JoinedText DEF lines
<1>13. LinesText(new.pushed) \o RowsText(new.grid.rows) = RowsText(g.rows)
  BY <1>5, <1>8, <1>9, <1>10, <1>11, <1>12 DEF NothingLost
<1>14. ASSUME new.pushed = <<>> PROVE LineTexts(new.grid) = LineTexts(g)
  <2>1. over = 0 BY <1>9, <1>10, <1>14 DEF NothingLost
  <2>2. LineTexts(new.grid) = Chopped(TextsOf(LogicalLines(shown)))
    BY <1>11, Zenon DEF LineTexts, Chopped, TextsOf
  <2>3. LineTexts(g) = Chopped(TextsOf(lines)) BY Zenon DEF LineTexts, Chopped, TextsOf, lines
  <2> QED BY <1>5, <1>8, <1>9, <2>1, <2>2, <2>3 DEF NothingLost
<1> QED BY <1>13, <1>14 DEF TextOut, new

LEMMA ReflowText ==
  ASSUME NEW w0 \in Nat \ {0}, NEW h0 \in Nat \ {0}, NEW g \in Grids(w0, h0),
         NEW w \in Nat \ {0}, NEW h \in Nat \ {0}, NEW row \in Nat, NEW col \in Nat
  PROVE  TextOut(Reflow(g, w, h, row, col), g)
<1> DEFINE new == Reflow(g, w, h, row, col)
<1>0. new = Reflow(g, w, h, row, col) OBVIOUS
<1> HIDE DEF new
<1>1. g.width = w0 /\ g.height = h0 /\ g.rows \in Rows(w0) BY GridParts
<1>2. CASE w = w0 /\ h = h0
  <2>1. new = [grid |-> g, row |-> row, col |-> col, pushed |-> <<>>]
    <3>1. w # 0 /\ h # 0 /\ w = w0 /\ h = h0 BY <1>2
    <3> QED BY <1>0, <1>1, <3>1 DEF Reflow, IsEmpty
  <2>2. new.grid = g /\ new.pushed = <<>> BY <2>1
  <2>3. LinesText(<<>>) = <<>>
    <3>1. <<>> \in Seq(Cells) /\ <<>> \in Seq(Seq(Cells)) OBVIOUS
    <3> QED BY <3>1, TextsAppended
  <2>4. RowsText(g.rows) \in Seq(Cells) BY <1>1, CellsConcat
  <2>5. <<>> \o RowsText(g.rows) = RowsText(g.rows) BY <2>4
  <2> QED BY <2>2, <2>3, <2>5 DEF TextOut, new
<1>3. CASE ~(w = w0 /\ h = h0)
  <2>1. new = Relaid(g, w, h, row, col) BY <1>0, <1>1, <1>3 DEF Reflow, IsEmpty
  <2>2. TextOut(Relaid(g, w, h, row, col), g) BY RelaidText
  <2> QED BY <2>1, <2>2 DEF new
<1> QED BY <1>2, <1>3

-----------------------------------------------------------------------------
(* The text of a terminal.                                                  *)

(* The text of the scrollback and the screen, and whether the scrollback    *)
(* has room.                                                                *)
TextOf(t) == LinesText(t.scrollback.lines) \o RowsText(t.grid.rows)
Roomy(t) == Len(t.scrollback.lines) < t.scrollback.cap

(* The text of a terminal is a sequence of cells, and what the property     *)
(* calls the text of the primary screen.                                    *)
LEMMA TextParts ==
  ASSUME NEW w \in Nat, NEW h \in Nat, NEW t \in Terminals(w, h)
  PROVE  /\ LinesText(t.scrollback.lines) \in Seq(Cells) /\ RowsText(t.grid.rows) \in Seq(Cells)
         /\ TextOf(t) \in Seq(Cells)
         /\ t.alternate = None => /\ PrimaryText(t) = TextOf(t)
                                  /\ Primary(t).scrollback = t.scrollback
<1>1. t.grid \in Grids(w, h) /\ t.scrollback \in Scrollbacks BY TerminalParts
<1>2. t.grid.rows \in Rows(w) BY <1>1, GridParts
<1>3. t.scrollback.lines \in Seq(Seq(Cells)) BY <1>1 DEF Scrollbacks
<1>4. LinesText(t.scrollback.lines) \in Seq(Cells)
  <2> DEFINE lines == t.scrollback.lines
  <2>1. lines \in Seq(Seq(Cells)) BY <1>3
  <2> HIDE DEF lines
  <2>2. LinesText(lines) \in Seq(Cells) BY <2>1, TextsAppended, BlankTypes
  <2> QED BY <2>2 DEF lines
<1>5. RowsText(t.grid.rows) \in Seq(Cells) BY <1>2, CellsConcat
<1>6. TextOf(t) \in Seq(Cells) BY <1>4, <1>5 DEF TextOf
<1>7. ASSUME t.alternate = None
      PROVE  PrimaryText(t) = TextOf(t) /\ Primary(t).scrollback = t.scrollback
  <2>1. Primary(t).scrollback = t.scrollback /\ Primary(t).grid = t.grid
    BY <1>7 DEF Primary, ScreenOf
  <2>2. PrimaryText(t) = LinesText(Primary(t).scrollback.lines) \o RowsText(Primary(t).grid.rows)
    BY Zenon DEF PrimaryText, LinesText, TextsOf
  <2> QED BY <2>1, <2>2 DEF TextOf
<1> QED BY <1>4, <1>5, <1>6, <1>7

(* Rows that leave the screen for a scrollback with room take their text    *)
(* along.                                                                   *)
Leave(t, u, pushed) ==
  /\ pushed \in Seq(Seq(Cells)) /\ u.scrollback = PushRows(t.scrollback, pushed) /\ Roomy(u)
  /\ LinesText(pushed) \o RowsText(u.grid.rows) = RowsText(t.grid.rows)
Left(t, u, pushed) ==
  /\ TextOf(u) = TextOf(t)
  /\ Len(u.scrollback.lines) = Len(t.scrollback.lines) + Len(pushed)
  /\ u.scrollback.cap = t.scrollback.cap

(* So the terminal has the same text.                                       *)
LEMMA TextMoves ==
  ASSUME NEW w \in Nat, NEW h \in Nat, NEW t \in Terminals(w, h),
         NEW v \in Nat, NEW k \in Nat, NEW u \in Terminals(v, k), NEW pushed, Leave(t, u, pushed)
  PROVE  Left(t, u, pushed)
<1>0. /\ pushed \in Seq(Seq(Cells)) /\ u.scrollback = PushRows(t.scrollback, pushed) /\ Roomy(u)
      /\ LinesText(pushed) \o RowsText(u.grid.rows) = RowsText(t.grid.rows)
  BY DEF Leave
<1> DEFINE s == t.scrollback  b == u.scrollback  x == LinesText(s.lines)
           y == LinesText(pushed)  z == RowsText(u.grid.rows)
<1>1. s \in Scrollbacks BY TerminalParts
<1>2. b = PushRows(s, pushed) BY <1>0
<1>3. b.cap = s.cap
  <2> HIDE DEF s, b
  <2> QED BY <1>0, <1>1, <1>2, RowsPushed
<1>4. Len(b.lines) < b.cap BY <1>0 DEF Roomy
<1>5. x \in Seq(Cells) /\ y \in Seq(Cells) /\ z \in Seq(Cells)
  BY <1>0, TextParts, TextsAppended, BlankTypes
<1>6. TextOf(u) = LinesText(b.lines) \o z /\ TextOf(t) = x \o RowsText(t.grid.rows)
      /\ y \o z = RowsText(t.grid.rows)
  BY <1>0 DEF TextOf
<1>7. LinesText(b.lines) = x \o y /\ Len(b.lines) = Len(s.lines) + Len(pushed)
  <2> HIDE DEF s, b
  <2> QED BY <1>0, <1>1, <1>2, <1>3, <1>4, RowsStored
<1>8. (x \o y) \o z = x \o (y \o z)
  <2> HIDE DEF x, y, z
  <2> QED BY <1>5, ConcatAssociative
<1>9. TextOf(u) = (x \o y) \o z
  <2> HIDE DEF x, y, z, b
  <2> QED BY <1>6, <1>7
<1>10. TextOf(u) = TextOf(t)
  <2> HIDE DEF x, y, z
  <2> QED BY <1>6, <1>8, <1>9
<1> QED BY <1>3, <1>7, <1>10 DEF Left

(* A resize of the screen keeps the text, and the lines while no row leaves *)
(* it.                                                                      *)
LEMMA ResizeText ==
  ASSUME NEW w0 \in Nat \ {0}, NEW h0 \in Nat \ {0}, NEW t \in Terminals(w0, h0),
         NEW w \in Nat \ {0}, NEW h \in Nat \ {0}, NEW u, u = ApplyResize(t, w, h), Roomy(u)
  PROVE  /\ TextOf(u) = TextOf(t)
         /\ u.scrollback = t.scrollback => LineTexts(u.grid) = LineTexts(t.grid)
<1> DEFINE g == t.grid  row == t.cursor.row  col == t.cursor.col
           new == Reflow(g, w, h, row, col)
<1>1. g \in Grids(w0, h0) /\ row \in Nat /\ col \in Nat /\ t.scrollback \in Scrollbacks BY TerminalParts
<1>2. u \in Terminals(w, h) /\ u.grid = new.grid /\ u.scrollback = PushRows(t.scrollback, new.pushed)
  <2> DEFINE a == ApplyResize(t, w, h)
  <2>1. Resized(t, a, w, h) BY TerminalResized
  <2>2. u = a OBVIOUS
  <2> HIDE DEF a
  <2> QED BY <2>1, <2>2 DEF Resized
<1>3. new.pushed \in Seq(Seq(Cells)) /\ TextOut(new, g)
  <2> HIDE DEF g, row, col
  <2>1. Reflowed(Reflow(g, w, h, row, col), row, col, w0, h0, w, h) BY <1>1, GridReflowed
  <2>2. TextOut(Reflow(g, w, h, row, col), g) BY <1>1, ReflowText
  <2> QED BY <2>1, <2>2 DEF Reflowed
<1> DEFINE pushed == new.pushed
<1>4. pushed \in Seq(Seq(Cells)) /\ u.scrollback = PushRows(t.scrollback, pushed) BY <1>2, <1>3
<1>5. LinesText(pushed) \o RowsText(u.grid.rows) = RowsText(t.grid.rows) BY <1>2, <1>3 DEF TextOut
<1>6. pushed = <<>> => LineTexts(u.grid) = LineTexts(t.grid) BY <1>2, <1>3 DEF TextOut
<1> HIDE DEF pushed, new, g
<1>7. Left(t, u, pushed)
  <2>1. Leave(t, u, pushed) BY <1>4, <1>5 DEF Leave
  <2>2. w0 \in Nat /\ h0 \in Nat /\ w \in Nat /\ h \in Nat OBVIOUS
  <2> QED BY <1>2, <2>1, <2>2, TextMoves
<1>8. ASSUME u.scrollback = t.scrollback PROVE LineTexts(u.grid) = LineTexts(t.grid)
  <2>1. t.scrollback.lines \in Seq(Seq(Cells)) BY <1>1 DEF Scrollbacks
  <2> DEFINE n == Len(t.scrollback.lines)  m == Len(pushed)
  <2>2. n \in Nat /\ m \in Nat BY <1>4, <2>1, LenProperties
  <2>3. n = n + m BY <1>7, <1>8 DEF Left
  <2> HIDE DEF n, m
  <2>4. m = 0 BY <2>2, <2>3
  <2>5. pushed = <<>> BY <1>4, <2>4, EmptySeq DEF m
  <2> QED BY <1>6, <2>5
<1> QED BY <1>7, <1>8 DEF Left

(* Rows with the same cells have the same text.                             *)
LEMMA SameText ==
  ASSUME NEW w \in Nat, NEW a \in Rows(w), NEW b \in Rows(w), Len(a) = Len(b),
         \A i \in 1..Len(a) : a[i].cells = b[i].cells
  PROVE  RowsText(a) = RowsText(b)
<1> DEFINE x == CellsOf(a)  y == CellsOf(b)
<1>1. /\ x \in Seq(Seq(Cells)) /\ Len(x) = Len(a) /\ (\A i \in 1..Len(a) : x[i] = a[i].cells)
      /\ RowsText(a) = LinesText(x)
      /\ y \in Seq(Seq(Cells)) /\ Len(y) = Len(b) /\ (\A i \in 1..Len(b) : y[i] = b[i].cells)
      /\ RowsText(b) = LinesText(y)
  BY CellsMade
<1> HIDE DEF x, y
<1>2. Len(x) = Len(y) /\ \A i \in 1..Len(x) : x[i] = y[i] BY <1>1
<1>3. x = y BY <1>1, <1>2, SeqEqual
<1> QED BY <1>1, <1>3

(* One line scrolled off the whole grid: the first row goes, a blank one    *)
(* comes.                                                                   *)
LEMMA LineScrolled ==
  ASSUME NEW w \in Nat \ {0}, NEW h \in Nat \ {0}, NEW g \in Grids(w, h)
  PROVE  LET new == ScrollUp(g, 1)  top == SubSeq(g.rows, 1, 1)
         IN /\ new \in Grids(w, h)
            /\ top \in Rows(w) /\ RowsText(top) \o RowsText(new.rows) = RowsText(g.rows)
            /\ new.rows[h].cells = Blanks(w)
<1> DEFINE new == ScrollUp(g, 1)  r == g.rows  top == SubSeq(r, 1, 1)  rest == SubSeq(r, 2, h)
           blank == BlankLines(1, w)
<1>1. g.width = w /\ g.height = h /\ r \in Rows(w) /\ Len(r) = h /\ ~IsEmpty(g) BY GridParts DEF IsEmpty
<1>2. new \in Grids(w, h)
  <2> DEFINE m == SaturatingSub(h, 1)
  <2>1. m \in Nat /\ 1 \in Nat /\ 0 \in Nat BY DEF SaturatingSub
  <2>2. new = ScrollUpRegion(g, 1, 0, m) BY <1>1 DEF ScrollUp
  <2> HIDE DEF m, new
  <2>3. ScrolledGrid(g, ScrollUpRegion(g, 1, 0, m), Clamp(0, h), Clamp(m, h), w, h)
    BY <2>1, RegionScrolled
  <2> QED BY <2>2, <2>3 DEF ScrolledGrid
<1>3. new.rows = SubSeq(r, 1, 0) \o SubSeq(r, 2, h) \o BlankLines(1, w) \o SubSeq(r, h + 1, h)
  <2> DEFINE first == Clamp(0, h)  last == Clamp(SaturatingSub(h, 1), h)  lines == AtMost(1, last - first + 1)
             z == SubSeq(r, 1, first) \o SubSeq(r, first + lines + 1, last + 1)
                    \o BlankLines(lines, w) \o SubSeq(r, last + 2, h)
  <2>1. first = 0 /\ last = h - 1 /\ lines = 1 BY DEF Clamp, AtMost, SaturatingSub
  <2>2. ~(0 > SaturatingSub(h, 1)) BY DEF SaturatingSub
  <2>3. new = [g EXCEPT !.rows = z] BY <1>1, <2>2, Zenon DEF ScrollUp, ScrollUpRegion
  <2> HIDE DEF z, new
  <2>4. new.rows = z BY <2>3 DEF Grids
  <2>5. first + lines + 1 = 2 /\ last + 1 = h /\ last + 2 = h + 1 BY <2>1
  <2> HIDE DEF first, last, lines
  <2> QED BY <2>1, <2>4, <2>5 DEF z
<1>4. /\ top \in Rows(w) /\ Len(top) = 1 /\ rest \in Rows(w) /\ Len(rest) = h - 1 /\ r = top \o rest
  <2>1. 1 \in 0..Len(r) /\ Len(r) = h /\ 1 + 1 = 2 BY <1>1
  <2>2. r \in Seq(Row(w)) BY <1>1 DEF Rows
  <2> HIDE DEF r
  <2>3. /\ SubSeq(r, 1, 1) \in Seq(Row(w)) /\ Len(SubSeq(r, 1, 1)) = 1
        /\ SubSeq(r, 1 + 1, Len(r)) \in Seq(Row(w)) /\ Len(SubSeq(r, 1 + 1, Len(r))) = Len(r) - 1
        /\ r = SubSeq(r, 1, 1) \o SubSeq(r, 1 + 1, Len(r))
    BY <2>1, <2>2, SeqSplit
  <2> QED BY <2>1, <2>3 DEF Rows
<1>5. /\ blank \in Rows(w) /\ Len(blank) = 1 /\ blank[1].cells = Blanks(w) /\ RowsText(blank) = <<>>
  <2>1. 1 \in Nat /\ w \in Nat OBVIOUS
  <2>2. blank \in Rows(w) /\ Len(blank) = 1 BY <2>1, BlankTypes
  <2>3. <<>> \in Rows(w) BY DEF Rows
  <2>4. RowsText(blank) = <<>> BY <2>1, <2>3, BlankRowsText
  <2>5. blank[1].cells = Blanks(w) BY DEF BlankLines, BlankLine
  <2> QED BY <2>2, <2>4, <2>5
<1>6. SubSeq(r, 1, 0) = <<>> /\ SubSeq(r, h + 1, h) = <<>>
  <2>1. r \in Seq(Row(w)) BY <1>1 DEF Rows
  <2> HIDE DEF r
  <2> QED BY <2>1
<1> HIDE DEF new, top, rest, blank
<1>7. new.rows = rest \o blank
  <2>1. new.rows = <<>> \o rest \o blank \o <<>> BY <1>3, <1>6 DEF rest, blank
  <2>2. <<>> \o rest = rest BY <1>4 DEF Rows
  <2>3. (rest \o blank) \o <<>> = rest \o blank BY <1>4, <1>5 DEF Rows
  <2> QED BY <2>1, <2>2, <2>3
<1>8. RowsText(top) \o RowsText(new.rows) = RowsText(r)
  <2>1. RowsText(rest \o blank) = RowsText(rest) \o RowsText(blank) /\ RowsText(rest) \in Seq(Cells)
    BY <1>4, <1>5, CellsConcat
  <2>2. RowsText(rest) \o <<>> = RowsText(rest) BY <2>1
  <2>3. RowsText(top \o rest) = RowsText(top) \o RowsText(rest) BY <1>4, CellsConcat
  <2> QED BY <1>4, <1>5, <1>7, <2>1, <2>2, <2>3
<1>9. new.rows[h].cells = Blanks(w)
  <2>1. (rest \o blank)[h] = blank[1]
    <3>1. \A i \in 1..(Len(rest) + Len(blank)) :
             (rest \o blank)[i] = IF i <= Len(rest) THEN rest[i] ELSE blank[i - Len(rest)]
      BY <1>4, <1>5, ConcatProperties DEF Rows
    <3>2. h \in 1..(Len(rest) + Len(blank)) /\ ~(h <= Len(rest)) /\ h - Len(rest) = 1 BY <1>4, <1>5
    <3> QED BY <3>1, <3>2
  <2> QED BY <1>5, <1>7, <2>1
<1> QED BY <1>2, <1>4, <1>8, <1>9 DEF new, top

(* A grid on the primary screen without margins.                            *)
Plain(t) == t.alternate = None /\ t.region = None

(* What has the same text, if its scrollback has room, and stays on the     *)
(* primary screen without margins.                                          *)
Keeps(t, u, w, h) ==
  /\ u \in Terminals(w, h) /\ (Plain(t) => Plain(u))
  /\ Roomy(u) => Roomy(t) /\ TextOf(u) = TextOf(t)

(* The first row leaves for the scrollback; the last one is blank.          *)
LEMMA ScrollText ==
  ASSUME NEW w \in Nat \ {0}, NEW h \in Nat \ {0}, NEW t \in Terminals(w, h), Plain(t)
  PROVE  LET u == ApplyScrollUp(t, 1)
         IN /\ Keeps(t, u, w, h) /\ u.grid.rows[h].cells = Blanks(w)
            /\ u.cursor = t.cursor /\ u.last = t.last
<1> DEFINE u == ApplyScrollUp(t, 1)  g == t.grid  top == SubSeq(g.rows, 1, 1)
           pushed == CellsOf(top)  b == PushRows(t.scrollback, pushed)  new == ScrollUp(g, 1)
<1>1. g \in Grids(w, h) /\ g.width = w /\ g.height = h /\ ~IsEmpty(g) /\ t.scrollback \in Scrollbacks
  BY TerminalParts DEF IsEmpty
<1>2. Steady(t, u, w, h) /\ u.cursor = t.cursor BY ScreenScrolled
<1>3. u = [t EXCEPT !.scrollback = b, !.grid = new]
  <2>1. ScrollTop(t) = 0 /\ ScrollBottom(t) = SaturatingSub(t.grid.height, 1)
    BY DEF Plain, ScrollTop, ScrollBottom
  <2>2. AtMost(1, t.grid.height) = 1 BY <1>1 DEF AtMost
  <2>3. u = PushScrolledLines(t, 1) BY <2>1 DEF ApplyScrollUp
  <2> HIDE DEF u
  <2> QED BY <1>1, <2>2, <2>3, Zenon DEF PushScrolledLines, OnGrid, CellsOf
<1> HIDE DEF new, b
<1>4. Edited(t, [t EXCEPT !.scrollback = b, !.grid = new], new, t.cursor, b, t.last) BY PartsSet
<1>5. Edited(t, u, new, t.cursor, b, t.last) BY <1>3, <1>4, Zenon
<1>6. /\ new \in Grids(w, h) /\ top \in Rows(w)
      /\ RowsText(top) \o RowsText(new.rows) = RowsText(g.rows) /\ new.rows[h].cells = Blanks(w)
  <2> HIDE DEF g
  <2>1. /\ ScrollUp(g, 1) \in Grids(w, h) /\ SubSeq(g.rows, 1, 1) \in Rows(w)
        /\ RowsText(SubSeq(g.rows, 1, 1)) \o RowsText(ScrollUp(g, 1).rows) = RowsText(g.rows)
        /\ ScrollUp(g, 1).rows[h].cells = Blanks(w)
    BY <1>1, LineScrolled
  <2> QED BY <2>1 DEF new
<1> HIDE DEF u, top, g
<1>7. u.grid = new /\ u.scrollback = b /\ u.last = t.last /\ Plain(u)
  BY <1>5 DEF Edited, Plain
<1>8. u \in Terminals(w, h) BY <1>2 DEF Steady
<1>9. /\ pushed \in Seq(Seq(Cells)) /\ Len(pushed) = Len(top) /\ RowsText(top) = LinesText(pushed)
  BY <1>6, CellsMade
<1> HIDE DEF pushed
<1>10. ASSUME Roomy(u) PROVE Roomy(t) /\ TextOf(u) = TextOf(t)
  <2>1. Leave(t, u, pushed)
    <3>1. u.scrollback = PushRows(t.scrollback, pushed) BY <1>7 DEF b
    <3>2. LinesText(pushed) \o RowsText(u.grid.rows) = RowsText(t.grid.rows) BY <1>6, <1>7, <1>9 DEF g
    <3> QED BY <1>9, <1>10, <3>1, <3>2 DEF Leave
  <2>2. Left(t, u, pushed) BY <1>8, <2>1, TextMoves
  <2> DEFINE n == Len(t.scrollback.lines)  m == Len(pushed)  c == t.scrollback.cap
  <2>3. n \in Nat /\ m \in Nat /\ c \in Nat BY <1>1, <1>9, LenProperties DEF Scrollbacks
  <2>4. n + m < c BY <1>10, <2>2 DEF Roomy, Left
  <2> HIDE DEF n, m, c
  <2>5. n < c BY <2>3, <2>4
  <2>6. Roomy(t) BY <2>5 DEF Roomy, n, c
  <2> QED BY <2>2, <2>6 DEF Left
<1>11. Keeps(t, u, w, h) BY <1>7, <1>8, <1>10 DEF Keeps
<1> QED BY <1>2, <1>6, <1>7, <1>11 DEF u

(* Keeping the text composes; a step that keeps grid and scrollback keeps   *)
(* it.                                                                      *)
LEMMA KeepsTwice ==
  ASSUME NEW w \in Nat, NEW h \in Nat, NEW t, NEW v, NEW u, Keeps(t, v, w, h), Keeps(v, u, w, h)
  PROVE  Keeps(t, u, w, h)
BY DEF Keeps

LEMMA SteadyKeeps ==
  ASSUME NEW w \in Nat, NEW h \in Nat, NEW t \in Terminals(w, h), NEW u,
         Steady(t, u, w, h), RowsText(u.grid.rows) = RowsText(t.grid.rows), u.scrollback = t.scrollback
  PROVE  Keeps(t, u, w, h)
<1>1. u \in Terminals(w, h) /\ (Plain(t) => Plain(u)) BY DEF Steady, SameRest, Plain
<1>2. TextOf(u) = TextOf(t) /\ (Roomy(u) => Roomy(t)) BY DEF TextOf, Roomy
<1> QED BY <1>1, <1>2 DEF Keeps

LEMMA MovedKeeps ==
  ASSUME NEW w \in Nat, NEW h \in Nat, NEW t \in Terminals(w, h), NEW u,
         NEW row, NEW col, NEW p, Moved(t, u, row, col, p, w, h)
  PROVE  Keeps(t, u, w, h)
<1>1. Steady(t, u, w, h) /\ u.grid = t.grid /\ u.scrollback = t.scrollback BY DEF Moved
<1>2. RowsText(u.grid.rows) = RowsText(t.grid.rows) BY <1>1
<1> QED BY <1>1, <1>2, SteadyKeeps

(* A line feed keeps the text.                                              *)
LEMMA LineFeedText ==
  ASSUME NEW w \in Nat \ {0}, NEW h \in Nat \ {0}, NEW t \in Terminals(w, h), Plain(t)
  PROVE  Keeps(t, ApplyLineFeed(t), w, h)
<1> DEFINE u == [t EXCEPT !.cursor.pending = FALSE]  no == FALSE  r == t.cursor.row + 1
           f == ApplyLineFeed(t)
<1>1. /\ t.cursor.row \in Nat /\ t.cursor.col \in Nat /\ t.grid.height = h /\ ~IsEmpty(t.grid)
      /\ w = 0 \/ h = 0 \/ t.cursor.col < w
  BY TerminalParts DEF OnColumns
<1>2. Moved(t, u, t.cursor.row, t.cursor.col, FALSE, w, h) BY <1>1, CursorMoved
<1>3. u \in Terminals(w, h) /\ u.cursor.row = t.cursor.row /\ u.cursor.col = t.cursor.col
      /\ u.region = t.region /\ u.grid = t.grid
  BY <1>2 DEF Moved, Steady, SameRest
<1>4. f = CASE t.cursor.row = ScrollBottom(t) -> ApplyScrollUp(u, 1)
            [] t.cursor.row # ScrollBottom(t) /\ t.cursor.row + 1 < t.grid.height ->
                 [u EXCEPT !.cursor.row = u.cursor.row + 1]
            [] OTHER -> u
  BY <1>1, Zenon DEF ApplyLineFeed, OnGrid
<1> HIDE DEF u, f
<1>5. Keeps(t, u, w, h) BY <1>2, MovedKeeps
<1>6. Plain(u) BY <1>5 DEF Keeps
<1>7. CASE t.cursor.row = ScrollBottom(t)
  <2>1. f = ApplyScrollUp(u, 1) BY <1>4, <1>7
  <2>2. Keeps(u, f, w, h) BY <1>3, <1>6, <2>1, ScrollText
  <2>3. Keeps(t, f, w, h) BY <1>5, <2>2, KeepsTwice
  <2> QED BY <2>3 DEF f
<1>8. CASE t.cursor.row # ScrollBottom(t) /\ t.cursor.row + 1 < t.grid.height
  <2>1. f = [u EXCEPT !.cursor.row = r] BY <1>3, <1>4, <1>8
  <2>2. r \in Nat /\ r < h BY <1>1, <1>8
  <2> HIDE DEF r
  <2>3. Moved(u, [u EXCEPT !.cursor.row = r], r, u.cursor.col, u.cursor.pending, w, h)
    BY <1>3, <2>2, CursorMoved
  <2>4. Moved(u, f, r, u.cursor.col, u.cursor.pending, w, h) BY <2>1, <2>3, Zenon
  <2>5. Keeps(u, f, w, h) BY <1>3, <2>4, MovedKeeps
  <2>6. Keeps(t, f, w, h) BY <1>5, <2>5, KeepsTwice
  <2> QED BY <2>6 DEF f
<1>9. CASE ~(t.cursor.row = ScrollBottom(t))
           /\ ~(t.cursor.row # ScrollBottom(t) /\ t.cursor.row + 1 < t.grid.height)
  <2>1. f = u BY <1>4, <1>9
  <2> QED BY <1>5, <2>1 DEF f
<1> QED BY <1>7, <1>8, <1>9

LEMMA NextLineText ==
  ASSUME NEW w \in Nat \ {0}, NEW h \in Nat \ {0}, NEW t \in Terminals(w, h), Plain(t)
  PROVE  Keeps(t, ApplyLineFeed(ApplyCarriageReturn(t)), w, h)
<1> DEFINE v == ApplyCarriageReturn(t)
<1>1. Moved(t, v, t.cursor.row, 0, FALSE, w, h) BY Returned
<1> HIDE DEF v
<1>2. Keeps(t, v, w, h)
  <2> DEFINE no == FALSE
  <2>1. Moved(t, v, t.cursor.row, 0, no, w, h) BY <1>1
  <2> HIDE DEF no
  <2> QED BY <2>1, MovedKeeps
<1>3. v \in Terminals(w, h) /\ Plain(v) BY <1>2 DEF Keeps
<1>4. Keeps(v, ApplyLineFeed(v), w, h) BY <1>3, LineFeedText
<1>5. Keeps(t, ApplyLineFeed(v), w, h) BY <1>2, <1>4, KeepsTwice
<1> QED BY <1>5 DEF v

(* A wrap keeps the text, and on the last row it makes room for more.       *)
AtFreshRow(t, w, h) ==
  t.cursor.row = h - 1 /\ t.cursor.col = 0 /\ t.grid.rows[h].cells = Blanks(w)

LEMMA WrapText ==
  ASSUME NEW w \in Nat \ {0}, NEW h \in Nat \ {0}, NEW t \in Terminals(w, h), Plain(t),
         t.cursor.row = h - 1
  PROVE  Keeps(t, WrapLine(t), w, h) /\ AtFreshRow(WrapLine(t), w, h)
<1> DEFINE v == ApplyScrollUp(t, 1)  row == h - 1  c == [row |-> row, col |-> 0, pending |-> FALSE]
           g == SetRowWrapped(v.grid, row)  u == WrapLine(t)
<1>1. ScrollBottom(t) = row /\ row \in Nat
  <2>1. t.grid.height = h BY TerminalParts
  <2> QED BY <2>1 DEF Plain, ScrollBottom, SaturatingSub
<1>2. u = [v EXCEPT !.cursor = c, !.grid = g]
  <2>1. t.cursor.row >= ScrollBottom(t) BY <1>1
  <2> HIDE DEF row
  <2> QED BY <1>1, <2>1, Zenon DEF WrapLine
<1>3. Keeps(t, v, w, h) /\ v.grid.rows[h].cells = Blanks(w) /\ v.cursor = t.cursor /\ v.last = t.last
  BY ScrollText
<1> HIDE DEF v, u
<1>4. v \in Terminals(w, h) /\ v.grid \in Grids(w, h) BY <1>3, TerminalParts DEF Keeps
<1>5. g \in Grids(w, h) /\ \A r \in 1..h : g.rows[r].cells = v.grid.rows[r].cells BY <1>1, <1>4, FlagSet
<1>6. Steady(t, u, w, h) BY LineWrapped DEF u
<1> HIDE DEF g
<1>7. u \in Terminals(w, h) BY <1>6 DEF Steady
<1>8. c.row = row /\ c.col = 0 OBVIOUS
<1> HIDE DEF c
<1>9. u.grid = g /\ u.cursor = c /\ u.scrollback = v.scrollback
  <2>1. Edited(v, [v EXCEPT !.cursor = c, !.grid = g], g, c, v.scrollback, v.last) BY <1>4, PartsSet
  <2>2. Edited(v, u, g, c, v.scrollback, v.last) BY <1>2, <2>1, Zenon
  <2> QED BY <2>2 DEF Edited
<1>10. RowsText(u.grid.rows) = RowsText(v.grid.rows)
  <2> DEFINE x == g.rows  y == v.grid.rows
  <2>1. x \in Rows(w) /\ y \in Rows(w) /\ Len(x) = h /\ Len(y) = h BY <1>4, <1>5, GridParts
  <2>2. \A i \in 1..Len(x) : x[i].cells = y[i].cells BY <1>5, <2>1
  <2> HIDE DEF x, y
  <2>3. RowsText(x) = RowsText(y) BY <2>1, <2>2, SameText
  <2> QED BY <1>9, <2>3 DEF x, y
<1>11. Keeps(v, u, w, h)
  <2>1. TextOf(u) = TextOf(v) /\ (Roomy(u) => Roomy(v)) BY <1>9, <1>10 DEF TextOf, Roomy
  <2>2. Plain(u) BY <1>6 DEF Steady, SameRest, Plain
  <2> QED BY <1>7, <2>1, <2>2 DEF Keeps
<1>12. AtFreshRow(u, w, h)
  <2>1. h \in 1..h OBVIOUS
  <2> QED BY <1>3, <1>5, <1>8, <1>9, <2>1 DEF AtFreshRow
<1> QED BY <1>3, <1>11, <1>12, KeepsTwice DEF u

(* A line with one character, in its first cell.                            *)
Letter(ch) == ch # " "
IsBlank(cell) == ~Letter(cell[1])
OneChar(cells, cell) ==
  /\ Len(cells) > 0 /\ cells[1] = cell /\ ~IsBlank(cell)
  /\ \A i \in 2..Len(cells) : IsBlank(cells[i])

LEMMA OneCharText ==
  ASSUME NEW cells \in Seq(Cells), NEW cell \in Cells, OneChar(cells, cell)
  PROVE  RowText(cells) = <<cell>>
<1> DEFINE N == Len(cells)  front == SubSeq(cells, 1, 1)  rest == SubSeq(cells, 1 + 1, N)
<1>1. N \in Nat /\ N > 0 /\ cells[1] = cell /\ ~IsBlank(cell) /\ \A i \in 2..N : IsBlank(cells[i])
  BY LenProperties DEF OneChar
<1>2. 1 \in 0..Len(cells) BY <1>1
<1>3. /\ front \in Seq(Cells) /\ Len(front) = 1 /\ (\A i \in 1..1 : front[i] = cells[i])
      /\ rest \in Seq(Cells) /\ Len(rest) = N - 1 /\ (\A i \in 1..(N - 1) : rest[i] = cells[1 + i])
      /\ cells = front \o rest
  BY <1>2, SeqSplit
<1> HIDE DEF N, front, rest
<1>4. RowText(rest) = <<>>
  <2>1. AllBlank(rest)
    <3> SUFFICES ASSUME NEW i \in 1..Len(rest) PROVE rest[i][1] = " " BY Zenon DEF AllBlank
    <3>1. i \in 1..(N - 1) /\ 1 + i \in 2..N BY <1>1, <1>3
    <3>2. IsBlank(rest[i]) BY <1>1, <1>3, <3>1
    <3> QED BY <3>2, Zenon DEF IsBlank, Letter
  <2> QED BY <1>3, <2>1, BlankText
<1>5. RowText(front) = <<cell>>
  <2>1. <<>> \in Seq(Cells) /\ Len(<<>>) = 0 /\ Append(<<>>, cell) = <<cell>> OBVIOUS
  <2>2. front = Append(<<>>, cell)
    <3>1. front[1] = cell BY <1>1, <1>3
    <3>2. <<cell>> \in Seq(Cells) /\ Len(<<cell>>) = 1 /\ <<cell>>[1] = cell OBVIOUS
    <3>3. \A i \in 1..Len(front) : front[i] = <<cell>>[i] BY <1>3, <3>1, <3>2
    <3> QED BY <1>3, <2>1, <3>2, <3>3, SeqEqual
  <2>3. RowText(Append(<<>>, cell)) = Seen(RowText(<<>>), cell) /\ RowText(<<>>) = <<>>
    BY <2>1, TextAppended
  <2>4. Seen(<<>>, cell) = <<cell>>
    <3>1. cell[1] # " " BY <1>1, Zenon DEF IsBlank, Letter
    <3> QED BY <2>1, <3>1, Zenon DEF Seen
  <2> QED BY <2>2, <2>3, <2>4
<1>6. RowText(front \o rest) = RowText(front) \o RowText(rest) BY <1>3, TextConcat
<1>7. <<cell>> \o <<>> = <<cell>> OBVIOUS
<1> QED BY <1>3, <1>4, <1>5, <1>6, <1>7

(* The text of rows, the last of which changes.                             *)
LEMMA LastRowText ==
  ASSUME NEW w \in Nat, NEW h \in Nat \ {0}, NEW a \in Rows(w), NEW b \in Rows(w),
         Len(a) = h, Len(b) = h, \A i \in 1..(h - 1) : b[i] = a[i],
         RowText(a[h].cells) = <<>>
  PROVE  RowsText(b) = RowsText(a) \o RowText(b[h].cells)
<1> DEFINE m == h - 1  front == SubSeq(a, 1, m)
<1>1. m \in 0..Len(a) /\ m \in Nat /\ m + 1 = h /\ h \in 1..h OBVIOUS
<1>2. a \in Seq(Row(w)) /\ b \in Seq(Row(w)) BY DEF Rows
<1>3. a[h] \in Row(w) /\ b[h] \in Row(w) BY <1>1, <1>2, ElementOfSeq
<1> HIDE DEF m
<1>4. front \in Seq(Row(w)) /\ Len(front) = m /\ \A i \in 1..m : front[i] = a[i]
  BY <1>1, <1>2, SeqSplit
<1> HIDE DEF front
<1>5. \A i \in 1..m : front[i] = b[i] BY <1>4 DEF m
<1> DEFINE p == a[h]  q == b[h]
<1>6. p \in Row(w) /\ q \in Row(w) /\ a[Len(front) + 1] = p /\ b[Len(front) + 1] = q BY <1>1, <1>3, <1>4
<1>7. a = Append(front, p)
  <2>1. Len(a) = Len(front) + 1 /\ \A i \in 1..Len(front) : a[i] = front[i] BY <1>1, <1>4
  <2> HIDE DEF p
  <2> QED BY <1>2, <1>4, <1>6, <2>1, AppendMade
<1>8. b = Append(front, q)
  <2>1. Len(b) = Len(front) + 1 /\ \A i \in 1..Len(front) : b[i] = front[i] BY <1>1, <1>4, <1>5
  <2> HIDE DEF q
  <2> QED BY <1>2, <1>4, <1>6, <2>1, AppendMade
<1> HIDE DEF p, q
<1>9. front \in Rows(w) /\ <<p>> \in Rows(w) /\ <<q>> \in Rows(w) BY <1>4, <1>6 DEF Rows
<1>10. RowsText(a) = RowsText(front) \o RowText(p.cells)
  <2>1. a = front \o <<p>> BY <1>4, <1>6, <1>7, AppendIsConcat
  <2>2. RowsText(front \o <<p>>) = RowsText(front) \o RowsText(<<p>>) BY <1>9, CellsConcat
  <2> QED BY <1>6, <2>1, <2>2, OneRowText
<1>11. RowsText(b) = RowsText(front) \o RowText(q.cells)
  <2>1. b = front \o <<q>> BY <1>4, <1>6, <1>8, AppendIsConcat
  <2>2. RowsText(front \o <<q>>) = RowsText(front) \o RowsText(<<q>>) BY <1>9, CellsConcat
  <2> QED BY <1>6, <2>1, <2>2, OneRowText
<1>12. RowsText(front) \in Seq(Cells) BY <1>9, CellsConcat
<1>13. RowsText(front) \o <<>> = RowsText(front) BY <1>12
<1>14. RowText(p.cells) = <<>> BY DEF p
<1>15. RowsText(a) = RowsText(front) BY <1>10, <1>13, <1>14
<1> QED BY <1>11, <1>15 DEF q

(* Where a character goes, when the cursor is in the first cell of a row.   *)
LEMMA PutOnRow ==
  ASSUME NEW w \in Nat, NEW h \in Nat, NEW g \in Grids(w, h), NEW row \in Nat, NEW col \in Nat,
         row < h, col < w, NEW ch \in Narrow \cup Wide, NEW cw \in {1, 2}
  PROVE  /\ PutChar(g, row, col, ch, cw) \in Grids(w, h)
         /\ OtherRowsStay(g, PutChar(g, row, col, ch, cw), row, h)
         /\ PutInto(g.rows[row + 1].cells, PutChar(g, row, col, ch, cw).rows[row + 1].cells,
                    col, ch, cw, w)
BY CharPut

LEMMA PutHere ==
  ASSUME NEW w \in Nat, NEW h \in Nat, NEW t \in Terminals(w, h), w # 0, h # 0,
         NEW ch \in Narrow \cup Wide, NEW cw \in {1, 2}
  PROVE  /\ Steady(t, PutAtCursor(t, ch, cw), w, h)
         /\ Placed(t, PutAtCursor(t, ch, cw), ch, cw, h)
BY CharPutHere

(* A character put into a fresh last row comes after all the text.          *)
OneMore(t, u) ==
  /\ u.scrollback = t.scrollback
  /\ \E x \in Cells : TextOf(u) = Append(TextOf(t), x)

LEMMA PutText ==
  ASSUME NEW w \in Nat \ {0}, NEW h \in Nat \ {0}, NEW t \in Terminals(w, h), AtFreshRow(t, w, h),
         NEW ch \in Narrow \cup Wide, Letter(ch), NEW cw \in {1, 2}
  PROVE  OneMore(t, PutAtCursor(t, ch, cw))
<1> DEFINE u == PutAtCursor(t, ch, cw)  row == h - 1  cell == <<ch, cw>>  g == t.grid
           new == PutChar(g, row, 0, ch, cw)  cells == new.rows[row + 1].cells
           old == g.rows[row + 1].cells
<1>1. g \in Grids(w, h) /\ t.cursor.row = row /\ t.cursor.col = 0 /\ old = Blanks(w)
      /\ row \in Nat /\ row + 1 = h
  BY TerminalParts DEF AtFreshRow
<1>2. Steady(t, u, w, h) /\ u.grid = new /\ u.scrollback = t.scrollback
  <2>1. /\ Steady(t, u, w, h) /\ u.scrollback = t.scrollback
        /\ u.grid = PutChar(t.grid, Clamp(t.cursor.row, h), t.cursor.col, ch, cw) BY PutHere DEF Placed
  <2>2. Clamp(t.cursor.row, h) = row /\ t.cursor.col = 0 BY <1>1 DEF Clamp, AtMost, SaturatingSub
  <2> HIDE DEF u, row
  <2> QED BY <2>1, <2>2
<1> HIDE DEF u
<1>3. /\ new \in Grids(w, h) /\ OtherRowsStay(g, new, row, h) /\ PutInto(old, cells, 0, ch, cw, w)
  <2> DEFINE col == 0
  <2>1. row \in Nat /\ row < h /\ col < w /\ col \in Nat /\ w \in Nat /\ h \in Nat BY <1>1
  <2> HIDE DEF row, g, col, new, cells, old, cell
  <2>2. g \in Grids(w, h) BY <1>1
  <2>3. /\ PutChar(g, row, col, ch, cw) \in Grids(w, h)
        /\ OtherRowsStay(g, PutChar(g, row, col, ch, cw), row, h)
        /\ PutInto(g.rows[row + 1].cells, PutChar(g, row, col, ch, cw).rows[row + 1].cells,
                   col, ch, cw, w)
    BY <2>1, <2>2, PutOnRow
  <2> QED BY <2>3 DEF col, new, cells, old
<1> HIDE DEF new, g
<1>4. /\ g.rows \in Rows(w) /\ Len(g.rows) = h /\ new.rows \in Rows(w) /\ Len(new.rows) = h
  BY <1>1, <1>3, GridParts
<1>5. \A i \in 1..(h - 1) : new.rows[i] = g.rows[i]
  <2> SUFFICES ASSUME NEW i \in 1..(h - 1) PROVE new.rows[i] = g.rows[i] OBVIOUS
  <2>1. i \in 1..h /\ i # row + 1 BY <1>1
  <2> QED BY <1>3, <2>1 DEF OtherRowsStay
<1>6. RowText(g.rows[h].cells) = <<>> BY <1>1, BlanksHaveNoText
<1>7. RowsText(new.rows) = RowsText(g.rows) \o RowText(new.rows[h].cells)
  <2> DEFINE a == g.rows  b == new.rows
  <2>1. /\ a \in Rows(w) /\ Len(a) = h /\ b \in Rows(w) /\ Len(b) = h
        /\ \A i \in 1..(h - 1) : b[i] = a[i]
        /\ RowText(a[h].cells) = <<>>
    BY <1>4, <1>5, <1>6
  <2> HIDE DEF a, b
  <2>2. RowsText(b) = RowsText(a) \o RowText(b[h].cells) BY <2>1, LastRowText
  <2> QED BY <2>2 DEF a, b
<1>8. cells \in Seq(Cells) /\ Len(cells) = w
  <2>1. new.rows[row + 1] \in Row(w) BY <1>1, <1>3, GridParts
  <2> QED BY <2>1 DEF Row, Line
<1>9. cells = new.rows[h].cells BY <1>1
<1> HIDE DEF cells, row
<1>10. cell \in Cells
  <2>1. ch \in Characters BY DEF Characters
  <2> QED BY <2>1 DEF Cells
<1>11. OneChar(cells, cell)
  <2>1. cells[1] = cell /\ \A i \in 1..w : i = 1 \/ cells[i] = Blank \/ cells[i] = Continuation \/ cells[i] = old[i]
    <3>1. 0 + 1 = 1 OBVIOUS
    <3> QED BY <1>3, <3>1 DEF PutInto
  <2>2. \A i \in 1..w : old[i] = Blank BY <1>1 DEF Blanks
  <2>3. IsBlank(Blank) /\ IsBlank(Continuation)
    <3>1. Blank[1] = " " /\ Continuation[1] = " " BY DEF Blank, Continuation
    <3> QED BY <3>1, Zenon DEF IsBlank, Letter
  <2>4. ASSUME NEW i \in 2..w PROVE IsBlank(cells[i])
    <3>1. i \in 1..w /\ i # 1 OBVIOUS
    <3>2. cells[i] = Blank \/ cells[i] = Continuation BY <2>1, <2>2, <3>1
    <3> QED BY <2>3, <3>2
  <2>5. ~IsBlank(cell)
    <3>1. cell[1] = ch OBVIOUS
    <3> QED BY <3>1, Zenon DEF IsBlank
  <2> HIDE DEF cell
  <2> QED BY <1>8, <2>1, <2>4, <2>5 DEF OneChar
<1> HIDE DEF cell
<1>12. RowText(cells) = <<cell>> BY <1>8, <1>10, <1>11, OneCharText
<1>13. TextOf(u) = Append(TextOf(t), cell)
  <2> DEFINE x == LinesText(t.scrollback.lines)  y == RowsText(g.rows)  z == <<cell>>
  <2>1. x \in Seq(Cells) /\ y \in Seq(Cells) /\ TextOf(t) = x \o y
    BY TextParts DEF TextOf, g
  <2>2. z \in Seq(Cells) /\ TextOf(u) = x \o (y \o z) BY <1>2, <1>7, <1>9, <1>10, <1>12 DEF TextOf
  <2>3. x \o (y \o z) = (x \o y) \o z
    <3>1. x \in Seq(Cells) /\ y \in Seq(Cells) /\ z \in Seq(Cells) BY <2>1, <2>2
    <3> HIDE DEF x, y, z
    <3> QED BY <3>1, ConcatAssociative
  <2>4. (x \o y) \o z = Append(x \o y, cell)
    <3> HIDE DEF x, y
    <3>1. x \o y \in Seq(Cells) BY <2>1
    <3> QED BY <1>10, <3>1, AppendIsConcat
  <2> HIDE DEF x, y, z
  <2> QED BY <2>1, <2>2, <2>3, <2>4
<1>14. OneMore(t, u) BY <1>2, <1>10, <1>13 DEF OneMore
<1> QED BY <1>14 DEF u

(* A printed character is put at the cursor of a terminal with the same     *)
(* text; after a wrap on the last row, into a fresh one.                    *)
Ready(t, v, w, h) ==
  /\ v \in Terminals(w, h)
  /\ Plain(t) /\ t.cursor.pending /\ t.cursor.row = h - 1 => Keeps(t, v, w, h) /\ AtFreshRow(v, w, h)
PutBy(u, v, ch, cw) == u = PutAtCursor(v, ch, cw) \/ u = Advance(PutAtCursor(v, ch, cw), cw)

LEMMA CharPlaced ==
  ASSUME NEW w \in Nat \ {0}, NEW h \in Nat \ {0}, NEW t \in Terminals(w, h),
         NEW ch \in Narrow \cup Wide
  PROVE  \E cw \in {1, 2} : \E v : Ready(t, v, w, h) /\ PutBy(ApplyPrint(t, ch), v, ch, cw)
<1> DEFINE cw == IF ch \in Wide THEN 2 ELSE 1
           v == IF t.cursor.pending THEN WrapLine(t) ELSE t
           z == WrapLine(v)
           tooWide == cw = 2 /\ v.cursor.col + 1 >= t.grid.width
           u == ApplyPrint(t, ch)
<1>1. ~IsEmpty(t.grid) /\ w \in Nat /\ h \in Nat /\ w # 0 /\ h # 0 BY TerminalParts
<1>2. cw \in {1, 2} /\ 1 \in {1, 2} OBVIOUS
<1>3. v \in Terminals(w, h)
  <2>1. Steady(t, WrapLine(t), w, h) BY <1>1, LineWrapped
  <2> QED BY <2>1 DEF Steady
<1>4. u = CASE tooWide /\ ~t.autoWrap -> PutAtCursor(v, ch, 1)
            [] tooWide /\ t.autoWrap  -> Advance(PutAtCursor(z, ch, cw), cw)
            [] OTHER -> Advance(PutAtCursor(v, ch, cw), cw)
  BY <1>1, Zenon DEF ApplyPrint, OnGrid
<1>5. ASSUME Plain(t), t.cursor.pending, t.cursor.row = h - 1
      PROVE  Keeps(t, v, w, h) /\ AtFreshRow(v, w, h)
  <2>1. Keeps(t, WrapLine(t), w, h) /\ AtFreshRow(WrapLine(t), w, h) BY <1>5, WrapText
  <2> QED BY <1>5, <2>1, Zenon
<1>6. Ready(t, v, w, h) BY <1>3, <1>5 DEF Ready
<1> HIDE DEF cw, v, u
<1>7. Ready(t, z, w, h)
  <2>1. z \in Terminals(w, h)
    <3>1. Steady(v, WrapLine(v), w, h) BY <1>1, <1>3, LineWrapped
    <3> QED BY <3>1 DEF Steady
  <2> HIDE DEF z
  <2>2. ASSUME Plain(t), t.cursor.pending, t.cursor.row = h - 1
        PROVE  Keeps(t, z, w, h) /\ AtFreshRow(z, w, h)
    <3>1. Keeps(t, v, w, h) /\ v.cursor.row = h - 1 BY <1>5, <2>2 DEF AtFreshRow
    <3>2. Plain(v) BY <2>2, <3>1 DEF Keeps
    <3>3. Keeps(v, z, w, h) /\ AtFreshRow(z, w, h) BY <1>3, <3>1, <3>2, WrapText DEF z
    <3> QED BY <1>1, <3>1, <3>3, KeepsTwice
  <2> QED BY <2>1, <2>2 DEF Ready
<1> HIDE DEF z, tooWide
<1>8. CASE tooWide /\ ~t.autoWrap
  <2>1. PutBy(u, v, ch, 1) BY <1>4, <1>8 DEF PutBy
  <2> QED BY <1>2, <1>6, <2>1 DEF u
<1>9. CASE tooWide /\ t.autoWrap
  <2>1. PutBy(u, z, ch, cw) BY <1>4, <1>9 DEF PutBy
  <2> QED BY <1>2, <1>7, <2>1 DEF u
<1>10. CASE ~tooWide
  <2>1. PutBy(u, v, ch, cw) BY <1>4, <1>10 DEF PutBy
  <2> QED BY <1>2, <1>6, <2>1 DEF u
<1> QED BY <1>8, <1>9, <1>10

(* What is put is the last character printed; moving on changes no text.    *)
LEMMA PutMoves ==
  ASSUME NEW w \in Nat, NEW h \in Nat, w # 0, h # 0, NEW v \in Terminals(w, h),
         NEW ch \in Narrow \cup Wide, NEW cw \in {1, 2}, NEW u, PutBy(u, v, ch, cw)
  PROVE  /\ u.last = ch /\ u.grid = PutAtCursor(v, ch, cw).grid
         /\ u.scrollback = v.scrollback /\ Steady(v, u, w, h)
<1> DEFINE p == PutAtCursor(v, ch, cw)  a == Advance(p, cw)
<1>1. Steady(v, p, w, h) /\ Placed(v, p, ch, cw, h) BY PutHere
<1> HIDE DEF p
<1>2. p \in Terminals(w, h) /\ p.last = ch /\ p.scrollback = v.scrollback
  BY <1>1 DEF Steady, Placed
<1>3. Steady(p, a, w, h) /\ a.grid = p.grid /\ a.scrollback = p.scrollback /\ a.last = p.last
  BY <1>2, CursorAdvanced
<1> HIDE DEF a
<1>4. Steady(v, a, w, h) BY <1>1, <1>3, Composed
<1>5. u = p \/ u = a BY Zenon DEF PutBy, p, a
<1>6. CASE u = p BY <1>1, <1>2, <1>6 DEF p
<1>7. CASE u = a BY <1>2, <1>3, <1>4, <1>7 DEF p
<1> QED BY <1>5, <1>6, <1>7

(* One character more.                                                      *)
Longer(t, u) == \E x \in Cells : TextOf(u) = Append(TextOf(t), x)

LEMMA PrintText ==
  ASSUME NEW w \in Nat \ {0}, NEW h \in Nat \ {0}, NEW t \in Terminals(w, h),
         NEW ch \in Narrow \cup Wide, NEW u, u = ApplyPrint(t, ch)
  PROVE  /\ u \in Terminals(w, h) /\ u.last = ch
         /\ (Plain(t) => Plain(u))
         /\ Plain(t) /\ t.cursor.pending /\ t.cursor.row = h - 1 /\ Letter(ch) /\ Roomy(u) => Longer(t, u)
<1>0. w \in Nat /\ h \in Nat /\ w # 0 /\ h # 0 OBVIOUS
<1>1. PICK cw \in {1, 2} : \E v : Ready(t, v, w, h) /\ PutBy(u, v, ch, cw) BY CharPlaced
<1>2. PICK v : Ready(t, v, w, h) /\ PutBy(u, v, ch, cw) BY <1>1
<1>3. v \in Terminals(w, h) BY <1>2 DEF Ready
<1>4. /\ u.last = ch /\ u.grid = PutAtCursor(v, ch, cw).grid
      /\ u.scrollback = v.scrollback /\ Steady(v, u, w, h)
  BY <1>0, <1>2, <1>3, PutMoves
<1>5. u \in Terminals(w, h) BY <1>4 DEF Steady
<1>6. Plain(t) => Plain(u)
  <2>1. Printed(t, ApplyPrint(t, ch), w, h) BY <1>0, CharPrinted
  <2> QED BY <2>1 DEF Printed, Steady, SameRest, Plain
<1>7. ASSUME Plain(t), t.cursor.pending, t.cursor.row = h - 1, Letter(ch), Roomy(u)
      PROVE  Longer(t, u)
  <2>1. Keeps(t, v, w, h) /\ AtFreshRow(v, w, h) BY <1>2, <1>7 DEF Ready
  <2> DEFINE p == PutAtCursor(v, ch, cw)
  <2>2. OneMore(v, p)
    <3>1. Letter(ch) /\ AtFreshRow(v, w, h) BY <1>7, <2>1
    <3> QED BY <1>3, <3>1, PutText
  <2> HIDE DEF p
  <2>3. PICK x \in Cells : TextOf(p) = Append(TextOf(v), x) BY <2>2 DEF OneMore
  <2>4. p.scrollback = v.scrollback BY <2>2 DEF OneMore
  <2>5. TextOf(u) = TextOf(p) BY <1>4, <2>4 DEF TextOf, p
  <2>6. Roomy(v) BY <1>4, <1>7 DEF Roomy
  <2>7. TextOf(v) = TextOf(t) BY <2>1, <2>6 DEF Keeps
  <2>8. TextOf(u) = Append(TextOf(t), x) BY <2>3, <2>5, <2>7
  <2> QED BY <2>8 DEF Longer
<1> QED BY <1>4, <1>5, <1>6, <1>7

(* Which steps print, feed a line, resize.                                  *)
Kinded ==
  /\ Took("print") => PrintChar
  /\ Took("line") => LineFeed \/ NextLine
  /\ Took("resize") => Resize

LEMMA OnlyOneKind ==
  ASSUME SpentInv, NEW kind \in Kinds, NEW result, Do(kind, result), NEW other \in Kinds, other # kind
  PROVE  ~Took(other)
BY Counted

LEMMA OtherStep ==
  ASSUME SpentInv, NEW kind \in Kinds \ {"print", "line", "resize"}, NEW result, Do(kind, result)
  PROVE  Kinded
<1>1. {"print", "line", "resize"} \subseteq Kinds BY DEF Kinds
<1>2. ~Took("print") /\ ~Took("line") /\ ~Took("resize") BY <1>1, Counted
<1> QED BY <1>2 DEF Kinded

LEMMA StepKinds ==
  ASSUME Inv, [Next]_vars
  PROVE  Kinded
<1>1. /\ SpentInv
      /\ {"repeat", "scroll", "move", "edit", "mode", "save", "switch"}
           \subseteq Kinds \ {"print", "line", "resize"}
      /\ "print" \in Kinds /\ "line" \in Kinds /\ "resize" \in Kinds
      /\ "print" # "line" /\ "print" # "resize" /\ "line" # "resize"
  BY DEF Kinds, Inv
<1>2. CASE RepeatLastChar
  BY <1>1, <1>2, OtherStep, Zenon DEF RepeatLastChar
<1>3. CASE ReverseIndex \/ ScrollLinesUp \/ ScrollLinesDown \/ InsertLinesHere \/
       DeleteLinesHere
  BY <1>1, <1>3, OtherStep, Zenon DEF ReverseIndex, ScrollLinesUp, ScrollLinesDown,
     InsertLinesHere, DeleteLinesHere
<1>4. CASE CarriageReturn \/ Backspace \/ Tab \/ CursorBackwardTab \/ CursorUp
  BY <1>1, <1>4, OtherStep, Zenon DEF CarriageReturn, Backspace, Tab, CursorBackwardTab,
     CursorUp
<1>5. CASE CursorDown \/ CursorForward \/ CursorBack \/ CursorNextLine \/ CursorPreviousLine
  BY <1>1, <1>5, OtherStep, Zenon DEF CursorDown, CursorForward, CursorBack,
     CursorNextLine, CursorPreviousLine
<1>6. CASE CursorPosition \/ CursorHorizontalAbsolute \/ VerticalPositionAbsolute
  BY <1>1, <1>6, OtherStep, Zenon DEF CursorPosition, CursorHorizontalAbsolute,
     VerticalPositionAbsolute
<1>7. CASE ClearDisplay \/ ClearLine \/ EraseCharacters \/ InsertCharacters \/
       DeleteCharacters
  BY <1>1, <1>7, OtherStep, Zenon DEF ClearDisplay, ClearLine, EraseCharacters,
     InsertCharacters, DeleteCharacters
<1>8. CASE SetScrollRegion \/ OriginMode \/ AutoWrapMode \/ HorizontalTabSet \/ TabClear
  BY <1>1, <1>8, OtherStep, Zenon DEF SetScrollRegion, OriginMode, AutoWrapMode,
     HorizontalTabSet, TabClear
<1>9. CASE CursorSavePosition \/ CursorRestorePosition
  BY <1>1, <1>9, OtherStep, Zenon DEF CursorSavePosition, CursorRestorePosition
<1>10. CASE AlternateScreenEnter \/ AlternateScreenEnterSimple \/ AlternateScreenLeave
  BY <1>1, <1>10, OtherStep, Zenon DEF AlternateScreenEnter, AlternateScreenEnterSimple,
     AlternateScreenLeave
<1>11. CASE PrintChar
  <2>1. ~Took("line") /\ ~Took("resize") BY <1>1, <1>11, OnlyOneKind, Zenon DEF PrintChar
  <2> QED BY <1>11, <2>1 DEF Kinded
<1>12. CASE LineFeed
  <2>1. ~Took("print") /\ ~Took("resize") BY <1>1, <1>12, OnlyOneKind, Zenon DEF LineFeed
  <2> QED BY <1>12, <2>1 DEF Kinded
<1>13. CASE NextLine
  <2>1. ~Took("print") /\ ~Took("resize") BY <1>1, <1>13, OnlyOneKind, Zenon DEF NextLine
  <2> QED BY <1>13, <2>1 DEF Kinded
<1>14. CASE Resize
  <2>1. ~Took("print") /\ ~Took("line") BY <1>1, <1>14, OnlyOneKind, Zenon DEF Resize
  <2> QED BY <1>14, <2>1 DEF Kinded
<1>15. CASE UNCHANGED vars
  <2>1. \A kind \in Kinds : ~Took(kind) BY <1>15 DEF vars, Took
  <2> QED BY <1>1, <2>1, Zenon DEF Kinded
<1> QED BY <1>2, <1>3, <1>4, <1>5, <1>6, <1>7, <1>8, <1>9, <1>10, <1>11, <1>12, <1>13,
     <1>14, <1>15 DEF Next

(* A terminal of a size that is not zero, on the primary screen, with room  *)
(* in its scrollback.                                                       *)
LEMMA SizeOf ==
  ASSUME NEW t, NEW w \in Nat, NEW h \in Nat, t \in Terminals(w, h), ~IsEmpty(t.grid)
  PROVE  w \in Nat \ {0} /\ h \in Nat \ {0} /\ t.grid.height = h
BY TerminalParts

LEMMA RoomOf ==
  ASSUME NEW w \in Nat, NEW h \in Nat, NEW t \in Terminals(w, h), t.alternate = None,
         ~(Len(Primary(t).scrollback.lines) = Primary(t).scrollback.cap)
  PROVE  Roomy(t) /\ PrimaryText(t) = TextOf(t) /\ TextOf(t) \in Seq(Cells)
<1>1. PrimaryText(t) = TextOf(t) /\ Primary(t).scrollback = t.scrollback /\ TextOf(t) \in Seq(Cells)
  BY TextParts
<1>2. t.scrollback \in Scrollbacks BY TerminalParts
<1> DEFINE n == Len(t.scrollback.lines)  c == t.scrollback.cap
<1>3. n \in Nat /\ c \in Nat /\ n <= c BY <1>2, LenProperties DEF Scrollbacks
<1>4. n # c BY <1>1
<1> HIDE DEF n, c
<1>5. n < c BY <1>3, <1>4
<1>6. Roomy(t) BY <1>5 DEF Roomy, n, c
<1> QED BY <1>1, <1>6

(* A line feed, a character and a resize keep the text of the primary       *)
(* screen.                                                                  *)
LEMMA LineKept ==
  ASSUME Inv, LineFeed \/ NextLine, NoSizeIsZero, Plain(term), ~ScrollbackFull
  PROVE  PrimaryText(term') = PrimaryText(term)
<1>1. PICK w \in Nat, h \in Nat : term \in Terminals(w, h) BY DEF Inv, ScreenInv
<1>2. w \in Nat \ {0} /\ h \in Nat \ {0} BY <1>1, SizeOf DEF NoSizeIsZero
<1>3. term' = ApplyLineFeed(term) \/ term' = ApplyLineFeed(ApplyCarriageReturn(term))
  BY Zenon DEF LineFeed, NextLine, Do
<1>4. Keeps(term, term', w, h)
  <2>1. Keeps(term, ApplyLineFeed(term), w, h) BY <1>1, <1>2, LineFeedText
  <2>2. Keeps(term, ApplyLineFeed(ApplyCarriageReturn(term)), w, h) BY <1>1, <1>2, NextLineText
  <2> QED BY <1>3, <2>1, <2>2, Zenon
<1>5. term' \in Terminals(w, h) /\ term.alternate = None /\ term'.alternate = None
  BY <1>4 DEF Keeps, Plain
<1>6. Roomy(term') /\ PrimaryText(term') = TextOf(term') BY <1>1, <1>5, RoomOf DEF ScrollbackFull
<1>7. PrimaryText(term) = TextOf(term) BY <1>1, <1>5, TextParts
<1>8. TextOf(term') = TextOf(term) BY <1>4, <1>6 DEF Keeps
<1> QED BY <1>6, <1>7, <1>8

LEMMA CharKept ==
  ASSUME Inv, PrintChar, NoSizeIsZero, Plain(term), ~ScrollbackFull,
         term.cursor.pending, term.cursor.row = term.grid.height - 1, Letter(term'.last)
  PROVE  /\ Len(PrimaryText(term')) = Len(PrimaryText(term)) + 1
         /\ IsPrefix(PrimaryText(term), PrimaryText(term'))
<1>1. PICK w \in Nat, h \in Nat : term \in Terminals(w, h) BY DEF Inv, ScreenInv
<1>2. w \in Nat \ {0} /\ h \in Nat \ {0} /\ term.grid.height = h BY <1>1, SizeOf DEF NoSizeIsZero
<1>3. PICK ch \in Narrow \cup Wide : term' = ApplyPrint(term, ch) BY Zenon DEF PrintChar, Do
<1>4. /\ term' \in Terminals(w, h) /\ term'.last = ch /\ Plain(term')
      /\ Letter(ch) /\ Roomy(term') => Longer(term, term')
  <2> DEFINE u == term'
  <2>1. u = ApplyPrint(term, ch) /\ term.cursor.row = h - 1 BY <1>2, <1>3
  <2> HIDE DEF u
  <2>2. /\ u \in Terminals(w, h) /\ u.last = ch
        /\ (Plain(term) => Plain(u))
        /\ Plain(term) /\ term.cursor.pending /\ term.cursor.row = h - 1 /\ Letter(ch) /\ Roomy(u)
             => Longer(term, u)
    BY <1>1, <1>2, <2>1, PrintText
  <2> QED BY <2>1, <2>2 DEF u
<1>5. Letter(ch) BY <1>4
<1>6. term.alternate = None /\ term'.alternate = None BY <1>4 DEF Plain
<1>7. Roomy(term') /\ PrimaryText(term') = TextOf(term') BY <1>1, <1>4, <1>6, RoomOf DEF ScrollbackFull
<1>8. PrimaryText(term) = TextOf(term) /\ TextOf(term) \in Seq(Cells) BY <1>1, <1>6, TextParts
<1>9. Longer(term, term') BY <1>4, <1>5, <1>7
<1> DEFINE a == PrimaryText(term)  b == PrimaryText(term')
<1>10. PICK x \in Cells : b = Append(a, x) BY <1>7, <1>8, <1>9 DEF Longer
<1>11. a \in Seq(Cells) BY <1>8
<1> HIDE DEF a, b
<1>12. Len(b) = Len(a) + 1 /\ IsPrefix(a, b)
  <2>1. Len(b) = Len(a) + 1 /\ \A i \in 1..Len(a) : b[i] = a[i] BY <1>10, <1>11
  <2>2. Len(a) \in Nat /\ b \in Seq(Cells) BY <1>10, <1>11
  <2>3. SubSeq(a, 1, Len(a)) = SubSeq(b, 1, Len(a)) BY <1>11, <2>1, <2>2
  <2> QED BY <2>1, <2>2, <2>3 DEF IsPrefix
<1> QED BY <1>12 DEF a, b

LEMMA SizeKept ==
  ASSUME Inv, Resize, NoSizeIsZero, term.alternate = None, ~ScrollbackFull
  PROVE  /\ PrimaryText(term') = PrimaryText(term)
         /\ term'.scrollback = term.scrollback => LineTexts(term'.grid) = LineTexts(term.grid)
<1>1. PICK w0 \in Nat, h0 \in Nat : term \in Terminals(w0, h0) BY DEF Inv, ScreenInv
<1>2. w0 \in Nat \ {0} /\ h0 \in Nat \ {0} BY <1>1, SizeOf DEF NoSizeIsZero
<1>3. PICK size \in Sizes : term' = ApplyResize(term, size[1], size[2]) BY Zenon DEF Resize, Do
<1> DEFINE w == size[1]  h == size[2]  u == term'
<1>4. w \in Nat /\ h \in Nat /\ u = ApplyResize(term, w, h) BY <1>3, ScreenAssumption
<1> HIDE DEF w, h
<1>5. u \in Terminals(w, h) /\ u.alternate = None
  <2> HIDE DEF u
  <2>1. Resized(term, ApplyResize(term, w, h), w, h) BY <1>1, <1>4, TerminalResized
  <2>2. Resized(term, u, w, h) BY <1>4, <2>1
  <2> QED BY <2>2 DEF Resized
<1>6. ~IsEmpty(u.grid) BY DEF NoSizeIsZero
<1>7. ~(Len(Primary(u).scrollback.lines) = Primary(u).scrollback.cap) BY DEF ScrollbackFull
<1> HIDE DEF u
<1>8. w \in Nat \ {0} /\ h \in Nat \ {0} BY <1>4, <1>5, <1>6, SizeOf
<1>9. Roomy(u) /\ PrimaryText(u) = TextOf(u) BY <1>4, <1>5, <1>7, RoomOf
<1>10. PrimaryText(term) = TextOf(term) BY <1>1, TextParts
<1>11. /\ TextOf(u) = TextOf(term)
       /\ u.scrollback = term.scrollback => LineTexts(u.grid) = LineTexts(term.grid)
  BY <1>1, <1>2, <1>4, <1>8, <1>9, ResizeText
<1> QED BY <1>9, <1>10, <1>11 DEF u

(* No character is lost by a resize, nor by a scroll: what leaves the       *)
(* screen goes to the scrollback, in order, while that has room.            *)
THEOREM TextStays == Spec => TextIsKept
<1>1. Inv /\ [Next]_vars =>
        [Took("resize") /\ term.alternate = None /\ NoSizeIsZero /\ ~ScrollbackFull =>
           /\ PrimaryText(term') = PrimaryText(term)
           /\ term'.scrollback = term.scrollback => LineTexts(term'.grid) = LineTexts(term.grid)]_vars
  <2> SUFFICES ASSUME Inv, [Next]_vars, Took("resize"), term.alternate = None, NoSizeIsZero,
                      ~ScrollbackFull
               PROVE  /\ PrimaryText(term') = PrimaryText(term)
                      /\ term'.scrollback = term.scrollback =>
                           LineTexts(term'.grid) = LineTexts(term.grid)
    OBVIOUS
  <2>1. Resize BY StepKinds DEF Kinded
  <2> QED BY <2>1, SizeKept
<1>2. Inv /\ [Next]_vars =>
        [term.alternate = None /\ term.region = None /\ NoSizeIsZero /\ ~ScrollbackFull =>
           /\ Took("line") => PrimaryText(term') = PrimaryText(term)
           /\ Took("print") /\ term.cursor.pending /\ term.cursor.row = term.grid.height - 1
              /\ term'.last # " " =>
                /\ Len(PrimaryText(term')) = Len(PrimaryText(term)) + 1
                /\ IsPrefix(PrimaryText(term), PrimaryText(term'))]_vars
  <2> SUFFICES ASSUME Inv, [Next]_vars, term.alternate = None, term.region = None, NoSizeIsZero,
                      ~ScrollbackFull
               PROVE  /\ Took("line") => PrimaryText(term') = PrimaryText(term)
                      /\ Took("print") /\ term.cursor.pending
                         /\ term.cursor.row = term.grid.height - 1 /\ term'.last # " " =>
                           /\ Len(PrimaryText(term')) = Len(PrimaryText(term)) + 1
                           /\ IsPrefix(PrimaryText(term), PrimaryText(term'))
    OBVIOUS
  <2>1. Kinded BY StepKinds
  <2>2. Plain(term) BY DEF Plain
  <2>3. Took("line") => PrimaryText(term') = PrimaryText(term)
    <3>1. Took("line") => LineFeed \/ NextLine BY <2>1 DEF Kinded
    <3> QED BY <2>2, <3>1, LineKept
  <2>4. ASSUME Took("print"), term.cursor.pending, term.cursor.row = term.grid.height - 1,
               term'.last # " "
        PROVE  /\ Len(PrimaryText(term')) = Len(PrimaryText(term)) + 1
               /\ IsPrefix(PrimaryText(term), PrimaryText(term'))
    <3>1. PrintChar BY <2>1, <2>4 DEF Kinded
    <3>2. Letter(term'.last) BY <2>4, Zenon DEF Letter
    <3> QED BY <2>2, <2>4, <3>1, <3>2, CharKept
  <2> QED BY <2>3, <2>4
<1>3. Spec => ReflowKeepsText BY <1>1, Invariance, PTL DEF Spec, ReflowKeepsText
<1>4. Spec => ScrollKeepsText BY <1>2, Invariance, PTL DEF Spec, ScrollKeepsText
<1> QED BY <1>3, <1>4 DEF TextIsKept

=============================================================================
