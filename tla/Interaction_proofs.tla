-------------------------- MODULE Interaction_proofs --------------------------
(***************************************************************************)
(* Proofs about Interaction, for any sessions, screen and history.         *)
(*                                                                         *)
(* First what the search computes: the matches are cells of the lines in   *)
(* ascending order, by induction over the columns of a line and over the   *)
(* lines (SequenceLemmas).  Then what each operator of the model does to   *)
(* the lines and to the state of the user's side.  SearchInv, the types    *)
(* and the search and the view in step with the lines, is inductive by     *)
(* itself; what is told to the program, the sizes and the drags are        *)
(* inductive in its presence.  The two halves of ActiveMatchKept follow    *)
(* from SearchInv: the place of the view, and that two lists in ascending  *)
(* order which begin alike up to a match have it at the same index.        *)
(***************************************************************************)
EXTENDS Interaction, SequenceLemmas

(* The types of the variables.                                              *)
Texts == {text \in Seq(STRING) : Len(text) <= Cols}
Cells == Nat \X (0..(Cols - 1))
Terms == [history : Seq(Texts), grid : Seq(Texts), rows : Nat \ {0}, evicted : Nat]
Searches == [active : BOOLEAN, query : Seq(STRING), matches : Seq(Cells), index : Nat \cup {None}]
Uis == [offset : 0..HistoryCap, palette : BOOLEAN, search : Searches, pointer : Cells,
        held : SUBSET (0..2), selection : (Cells \X Cells) \cup {None}]
Tellings == [down : SUBSET (0..2), paste : BOOLEAN]

ScreenOK(t) == t \in Terms /\ Len(t.history) <= HistoryCap /\ Len(t.grid) \in 1..t.rows

SearchOK(s) ==
  /\ s \in Searches
  /\ IF s.matches = <<>> THEN s.index = None ELSE s.active /\ s.index \in 1..Len(s.matches)

UiOK(u) ==
  /\ u \in Uis /\ SearchOK(u.search)
  /\ ~(u.palette /\ u.search.active)

ScreenTypes ==
  /\ ScreenOK(term) /\ term.rows \in session.sizes
  /\ degraded \in BOOLEAN /\ since \subseteq {"wheel", "notice", "resize"}
UiTypes == UiOK(ui) /\ ui.held \subseteq session.buttons
ProgramTypes ==
  /\ session \in Sessions /\ modes \in session.modes /\ refused \in BOOLEAN
  /\ sizes \in [window : session.sizes, geometry : session.sizes, pty : session.sizes]
MouseTypes ==
  /\ told \in Tellings /\ disputed \in Tellings /\ pressed \in Cells
  /\ told.down \cup disputed.down \subseteq session.buttons

Types == ScreenTypes /\ UiTypes /\ ProgramTypes /\ MouseTypes /\ strayed \in BOOLEAN

(* The view starts at the active match until something of since moves it.   *)
ViewFollows ==
  ui.search.index # None /\ since = {} =>
    ui.offset = SaturatingSub(Len(term.history), ActiveMatch(ui)[1])

(* A drag that did not stray selects the cells from the press to the        *)
(* pointer, or none when a key ended the selection; a selection that is     *)
(* left over comes from a drag that strayed.                                *)
DragInv ==
  /\ ~strayed => ui.offset = 0 /\ Mouse = "Off"
  /\ ui.selection # None /\ Primary \notin ui.held => strayed
  /\ ~strayed /\ Primary \in ui.held /\ ui.selection # None => ui.selection = <<pressed, ui.pointer>>

(* Columns up to top, one behind the other.                                 *)
Asc(s, top) ==
  s \in Seq(Nat) /\ \A i \in 1..Len(s) : /\ s[i] \in 1..top
                                          /\ \A j \in 1..(i - 1) : s[j] < s[i]

(* The columns of the matches in a line ascend within the line.             *)
LEMMA FoundInAscends ==
  ASSUME NEW text \in Seq(STRING), NEW query \in Seq(STRING), query # <<>>
  PROVE  Asc(FoundIn(text, query), Len(text))
<1> DEFINE width == Len(query)
           N == SaturatingSub(Len(text) + 1, width)
           Takes(before, c) == /\ SubSeq(text, c, c + width - 1) = query
                               /\ before = <<>> \/ Last(before) + width <= c
           F(f) == [c \in 0..N |->
                      IF c = 0 THEN <<>>
                      ELSE IF Takes(f[c - 1], c) THEN Append(f[c - 1], c) ELSE f[c - 1]]
           found == CHOOSE f : f = F(f)
           step == [n \in 0..N |-> [s \in Seq(Nat) |-> IF Takes(s, n + 1) THEN Append(s, n + 1) ELSE s]]
<1>1. width \in Nat \ {0} /\ N \in Nat /\ N <= Len(text) /\ Len(text) \in Nat
  BY DEF SaturatingSub
<1> HIDE DEF width, N, Takes
<1>2. step \in [0..N -> [Seq(Nat) -> Seq(Nat)]]
  <2>1. \A n \in 0..N : \A s \in Seq(Nat) :
          (IF Takes(s, n + 1) THEN Append(s, n + 1) ELSE s) \in Seq(Nat)
    OBVIOUS
  <2> QED BY <2>1
<1>3. PICK g \in [0..N -> Seq(Nat)] : g[0] = <<>> /\ \A n \in 0..(N - 1) : g[n + 1] = step[n][g[n]]
  <2> HIDE DEF step
  <2>1. <<>> \in Seq(Nat) OBVIOUS
  <2>2. Iterations(Seq(Nat), <<>>, N, step) # {}
    BY <1>1, <1>2, <2>1, IterationsExist
  <2> QED BY <2>2 DEF Iterations
<1>4. ASSUME NEW n \in 0..(N - 1)
      PROVE  g[n + 1] = IF Takes(g[n], n + 1) THEN Append(g[n], n + 1) ELSE g[n]
  <2>1. n \in 0..N /\ g[n] \in Seq(Nat) BY <1>1, <1>3
  <2>2. step[n][g[n]] = IF Takes(g[n], n + 1) THEN Append(g[n], n + 1) ELSE g[n]
    BY <2>1, Zenon
  <2> HIDE DEF step
  <2> QED BY <1>3, <2>2
<1>5. g = F(g)
  <2>1. ASSUME NEW c \in 0..N PROVE g[c] = F(g)[c]
    <3>1. CASE c = 0 BY <1>1, <1>3, <3>1
    <3>2. CASE c # 0
      <4>1. c - 1 \in 0..(N - 1) /\ (c - 1) + 1 = c BY <1>1, <3>2
      <4> QED BY <1>4, <3>2, <4>1
    <3> QED BY <3>1, <3>2
  <2> QED BY <1>3, <2>1
<1>6. found = F(found)
  <2> HIDE DEF F
  <2> QED BY <1>5
<1> HIDE DEF found
<1>7. found[0] = <<>>
  BY <1>1, <1>6
<1>8. ASSUME NEW n \in 0..(N - 1)
      PROVE  found[n + 1] = IF Takes(found[n], n + 1) THEN Append(found[n], n + 1) ELSE found[n]
  <2>1. n + 1 \in 0..N /\ n + 1 # 0 /\ (n + 1) - 1 = n BY <1>1
  <2>2. found[n + 1] = F(found)[n + 1] BY <1>6
  <2> QED BY <2>1, <2>2
<1> DEFINE J == {n \in Nat : Asc(found[n], n)}
<1>9. 0..N \subseteq J
  <2>0. Asc(<<>>, 0)
    <3>1. <<>> \in Seq(Nat) /\ Len(<<>>) = 0 /\ 1..0 = {} OBVIOUS
    <3> QED BY <3>1 DEF Asc
  <2>1. 0 \in J BY <1>7, <2>0
  <2>2. ASSUME NEW n \in 0..(N - 1), Asc(found[n], n) PROVE Asc(found[n + 1], n + 1)
    <3>1. Asc(found[n], n + 1) BY <2>2 DEF Asc
    <3>2. Asc(Append(found[n], n + 1), n + 1)
      <4>1. found[n] \in Seq(Nat) BY <2>2 DEF Asc
      <4> DEFINE s == found[n]  r == Append(s, n + 1)
      <4>2. r \in Seq(Nat) /\ Len(r) = Len(s) + 1 BY <4>1
      <4>3. r[Len(s) + 1] = n + 1 /\ \A i \in 1..Len(s) : r[i] = s[i] BY <4>1
      <4>4. \A i \in 1..Len(s) : s[i] \in 1..n BY <2>2 DEF Asc
      <4>5. \A i \in 1..Len(s) : \A j \in 1..(i - 1) : s[j] < s[i] BY <2>2 DEF Asc
      <4> HIDE DEF s, r
      <4>6. Len(s) \in Nat BY <4>1 DEF s
      <4>7. ASSUME NEW i \in 1..Len(r)
            PROVE  r[i] \in 1..(n + 1) /\ \A j \in 1..(i - 1) : r[j] < r[i]
        <5>1. CASE i \in 1..Len(s)
          <6>1. \A j \in 1..(i - 1) : j \in 1..Len(s) BY <4>6, <5>1
          <6> QED BY <4>3, <4>4, <4>5, <5>1, <6>1
        <5>2. CASE i = Len(s) + 1
          <6>1. \A j \in 1..(i - 1) : j \in 1..Len(s) BY <4>6, <5>2
          <6> QED BY <4>3, <4>4, <5>2, <6>1
        <5> QED BY <4>2, <4>6, <5>1, <5>2
      <4>8. Asc(r, n + 1) BY <4>2, <4>7 DEF Asc
      <4> QED BY <4>8 DEF s, r
    <3> QED BY <1>8, <3>1, <3>2
  <2>3. \A n \in 0..(N - 1) : n \in J => n + 1 \in J BY <2>2
  <2> HIDE DEF J
  <2> QED BY <1>1, <2>1, <2>3, IntervalInduction
<1>10. FoundIn(text, query) = found[N]
  BY DEF FoundIn, found, F, N, width, Takes
<1>11. Asc(found[N], N)
  BY <1>1, <1>9
<1> QED BY <1>1, <1>10, <1>11 DEF Asc

(* A cell in an earlier line, or further left in the same, comes first.     *)
LEMMA FlatAscends ==
  ASSUME NEW a \in Cells, NEW b \in Cells
  PROVE  /\ Flat(a) \in Nat
         /\ a[1] < b[1] => Flat(a) < Flat(b)
         /\ a[1] = b[1] /\ a[2] < b[2] => Flat(a) < Flat(b)
<1> DEFINE x == a[1]  y == b[1]
<1>1. Cols \in Nat \ {0} BY ScreenAssumption
<1>2. x \in Nat /\ y \in Nat /\ a[2] \in 0..(Cols - 1) /\ b[2] \in 0..(Cols - 1)
  BY DEF Cells
<1>3. x * Cols \in Nat /\ y * Cols \in Nat BY <1>1, <1>2
<1>4. ASSUME x < y PROVE x * Cols + Cols <= y * Cols
  <2>1. PICK d \in Nat : y = x + 1 + d
    <3>1. y - x - 1 \in Nat /\ y = x + 1 + (y - x - 1) BY <1>2, <1>4
    <3> QED BY <3>1
  <2> HIDE DEF x, y
  <2>2. y * Cols = x * Cols + Cols + d * Cols BY <1>1, <1>2, <2>1
  <2>3. d * Cols \in Nat BY <1>1
  <2> QED BY <1>1, <1>3, <2>2, <2>3
<1> HIDE DEF x, y
<1>5. Flat(a) = x * Cols + a[2] /\ Flat(b) = y * Cols + b[2]
  BY DEF Flat, x, y
<1>6. x = y => x * Cols = y * Cols OBVIOUS
<1>7. Flat(a) \in Nat BY <1>1, <1>2, <1>3, <1>5
<1>8. x < y => Flat(a) < Flat(b) BY <1>1, <1>2, <1>3, <1>4, <1>5
<1>9. x = y /\ a[2] < b[2] => Flat(a) < Flat(b) BY <1>1, <1>2, <1>3, <1>5, <1>6
<1> QED BY <1>7, <1>8, <1>9 DEF x, y

(* Matches in the first n lines, in the order of the cells.                 *)
Matches(ms, n) ==
  /\ ms \in Seq(Cells)
  /\ \A i \in 1..Len(ms) : ms[i][1] < n
  /\ \A i \in 1..Len(ms) : \A j \in 1..(i - 1) : Flat(ms[j]) < Flat(ms[i])

(* The matches of a search are cells of its lines, in ascending order.      *)
LEMMA SearchMatches ==
  ASSUME NEW t, Lines(t) \in Seq(Seq(STRING)), \A i \in 1..Len(Lines(t)) : Len(Lines(t)[i]) <= Cols,
         NEW query \in Seq(STRING), query # <<>>
  PROVE  Matches(Search(t, query), Len(Lines(t)))
<1> DEFINE lines == Lines(t)
           N == Len(lines)
           cols(i) == FoundIn(lines[i], query)
           hits(i) == [k \in DOMAIN cols(i) |-> <<i - 1, cols(i)[k] - 1>>]
           all == [i \in DOMAIN lines |-> hits(i)]
<1>0. Cols \in Nat \ {0} BY ScreenAssumption
<1>1. N \in Nat /\ DOMAIN lines = 1..N OBVIOUS
<1>2. ASSUME NEW i \in 1..N
      PROVE  Asc(cols(i), Cols)
  <2>1. lines[i] \in Seq(STRING) /\ Len(lines[i]) <= Cols /\ Len(lines[i]) \in Nat OBVIOUS
  <2>2. Asc(cols(i), Len(lines[i])) BY <2>1, FoundInAscends
  <2> HIDE DEF cols, lines
  <2> QED BY <1>0, <2>1, <2>2 DEF Asc
<1> HIDE DEF cols
<1>3. ASSUME NEW i \in 1..N
      PROVE  /\ hits(i) \in Seq(Cells)
             /\ \A k \in 1..Len(hits(i)) : hits(i)[k][1] = i - 1
             /\ \A k \in 1..Len(hits(i)) : \A j \in 1..(k - 1) : Flat(hits(i)[j]) < Flat(hits(i)[k])
  <2> DEFINE c == cols(i)
  <2>1. c \in Seq(Nat) /\ DOMAIN c = 1..Len(c) /\ Len(c) \in Nat
    BY <1>2 DEF Asc
  <2>2. \A k \in 1..Len(c) : c[k] - 1 \in 0..(Cols - 1)
    BY <1>0, <1>2 DEF Asc
  <2>3. \A k \in 1..Len(c) : \A j \in 1..(k - 1) : c[j] < c[k]
    BY <1>2 DEF Asc
  <2> HIDE DEF c
  <2>4. hits(i) = [k \in 1..Len(c) |-> <<i - 1, c[k] - 1>>]
    BY <2>1 DEF c
  <2> HIDE DEF hits
  <2>5. hits(i) \in Seq(Cells) /\ Len(hits(i)) = Len(c)
    BY <1>1, <2>1, <2>2, <2>4 DEF Cells
  <2>6. \A k \in 1..Len(c) : hits(i)[k] = <<i - 1, c[k] - 1>> BY <2>4
  <2>7. ASSUME NEW k \in 1..Len(c), NEW j \in 1..(k - 1)
        PROVE  Flat(hits(i)[j]) < Flat(hits(i)[k])
    <3>1. j \in 1..Len(c) BY <2>1
    <3>2. hits(i)[j] \in Cells /\ hits(i)[k] \in Cells BY <2>5, <3>1
    <3>3. c[j] - 1 < c[k] - 1
      <4>1. c[j] \in Nat /\ c[k] \in Nat BY <2>1, <3>1
      <4> QED BY <2>3, <4>1
    <3>4. hits(i)[j][1] = hits(i)[k][1] /\ hits(i)[j][2] < hits(i)[k][2] BY <2>6, <3>1, <3>3
    <3> QED BY <3>2, <3>4, FlatAscends
  <2> QED BY <2>5, <2>6, <2>7
<1> HIDE DEF hits
<1>4. all \in Seq(Seq(Cells)) /\ Len(all) = N /\ \A i \in 1..N : all[i] = hits(i)
  BY <1>1, <1>3
<1>5. Search(t, query) = FlattenSeq(all)
  BY DEF Search, all, hits, cols, lines
<1> HIDE DEF all, lines, N
<1>6. CASE all = <<>>
  <2>1. Search(t, query) = <<>> BY <1>5, <1>6 DEF FlattenSeq
  <2>2. <<>> \in Seq(Cells) /\ Len(<<>>) = 0 /\ 1..0 = {} OBVIOUS
  <2> QED BY <2>1, <2>2 DEF Matches, Cells
<1>7. CASE all # <<>>
  <2>1. PICK f \in [1..N -> Seq(Cells)] :
               /\ FlattenSeq(all) = f[N]
               /\ f[1] = all[1]
               /\ \A n \in 1..(N - 1) : f[n + 1] = f[n] \o all[n + 1]
    BY <1>4, <1>7, FlattenSteps
  <2>2. N \in Nat \ {0} BY <1>1, <1>4, <1>7
  <2> DEFINE J == {n \in Nat : Matches(f[n + 1], n + 1)}
  <2>3. 0 \in J
    <3>0. 1 \in 1..N /\ 1 - 1 = 0 BY <2>2
    <3>1. Matches(hits(1), 1)
      <4>1. \A k \in 1..Len(hits(1)) : hits(1)[k][1] < 1 BY <1>3, <3>0
      <4>2. hits(1) \in Seq(Cells) BY <1>3, <3>0
      <4>3. \A k \in 1..Len(hits(1)) : \A j \in 1..(k - 1) : Flat(hits(1)[j]) < Flat(hits(1)[k])
        BY <1>3, <3>0
      <4> QED BY <4>1, <4>2, <4>3 DEF Matches, Cells
    <3> QED BY <1>4, <2>1, <2>2, <3>1
  <2>4. ASSUME NEW n \in 0..(N - 1 - 1), Matches(f[n + 1], n + 1)
        PROVE  Matches(f[n + 1 + 1], n + 1 + 1)
    <3> DEFINE a == f[n + 1]  b == hits(n + 2)  r == a \o b
    <3>1. n + 1 \in 1..(N - 1) /\ n + 2 \in 1..N /\ (n + 2) - 1 = n + 1 BY <2>2
    <3>2. f[n + 1 + 1] = r
      <4>1. f[n + 1 + 1] = f[n + 1] \o all[n + 1 + 1] BY <2>1, <3>1
      <4>2. all[n + 1 + 1] = hits(n + 1 + 1) /\ n + 1 + 1 = n + 2 BY <1>4, <3>1
      <4> QED BY <4>1, <4>2
    <3>3. /\ a \in Seq(Cells) /\ Len(a) \in Nat
          /\ \A i \in 1..Len(a) : a[i] \in Cells /\ a[i][1] < n + 1
          /\ \A i \in 1..Len(a) : \A j \in 1..(i - 1) : Flat(a[j]) < Flat(a[i])
      BY <2>4 DEF Matches, Cells
    <3>4. /\ b \in Seq(Cells) /\ Len(b) \in Nat
          /\ \A k \in 1..Len(b) : b[k] \in Cells /\ b[k][1] = n + 1
          /\ \A k \in 1..Len(b) : \A j \in 1..(k - 1) : Flat(b[j]) < Flat(b[k])
      BY <1>3, <3>1
    <3> HIDE DEF a, b
    <3>5. r \in Seq(Cells) /\ Len(r) = Len(a) + Len(b) BY <3>3, <3>4
    <3>6. \A i \in 1..Len(r) : r[i] = IF i <= Len(a) THEN a[i] ELSE b[i - Len(a)] BY <3>3, <3>4
    <3> HIDE DEF r
    <3>7. ASSUME NEW i \in 1..Len(r) PROVE r[i][1] < n + 1 + 1
      <4>1. CASE i <= Len(a)
        <5>1. i \in 1..Len(a) /\ r[i] = a[i] BY <3>6, <4>1
        <5>2. a[i][1] < n + 1 /\ a[i][1] \in Nat BY <3>3, <5>1 DEF Cells
        <5> QED BY <5>1, <5>2
      <4>2. CASE i > Len(a)
        <5>1. i - Len(a) \in 1..Len(b) /\ r[i] = b[i - Len(a)] BY <3>3, <3>4, <3>5, <3>6, <4>2
        <5>2. b[i - Len(a)][1] = n + 1 BY <3>4, <5>1
        <5> QED BY <5>1, <5>2
      <4> QED BY <3>3, <4>1, <4>2
    <3>8. ASSUME NEW i \in 1..Len(r), NEW j \in 1..(i - 1) PROVE Flat(r[j]) < Flat(r[i])
      <4>0. j \in 1..Len(r) /\ j < i BY <3>3, <3>4, <3>5
      <4>1. CASE i <= Len(a)
        <5>1. i \in 1..Len(a) /\ j \in 1..Len(a) /\ r[i] = a[i] /\ r[j] = a[j] BY <3>3, <3>6, <4>0, <4>1
        <5> QED BY <3>3, <5>1
      <4>2. CASE j > Len(a)
        <5>1. /\ i - Len(a) \in 1..Len(b) /\ r[i] = b[i - Len(a)]
              /\ j - Len(a) \in 1..(i - Len(a) - 1) /\ r[j] = b[j - Len(a)]
          BY <3>3, <3>4, <3>5, <3>6, <4>0, <4>2
        <5> QED BY <3>4, <5>1
      <4>3. CASE j <= Len(a) /\ i > Len(a)
        <5>1. /\ i - Len(a) \in 1..Len(b) /\ r[i] = b[i - Len(a)]
              /\ j \in 1..Len(a) /\ r[j] = a[j]
          BY <3>3, <3>4, <3>5, <3>6, <4>0, <4>3
        <5>2. r[i] \in Cells /\ r[j] \in Cells /\ r[j][1] < r[i][1] BY <3>3, <3>4, <5>1
        <5> QED BY <5>2, FlatAscends DEF Cells
      <4> QED BY <3>3, <4>0, <4>1, <4>2, <4>3
    <3> QED BY <3>2, <3>5, <3>7, <3>8 DEF Matches, Cells
  <2>5. 0..(N - 1) \subseteq J
    <3>1. ASSUME NEW n \in 0..(N - 1 - 1), n \in J PROVE n + 1 \in J
      <4>1. Matches(f[n + 1], n + 1) BY <3>1
      <4>2. Matches(f[n + 1 + 1], n + 1 + 1) BY <2>4, <4>1
      <4> QED BY <4>2
    <3>2. N - 1 \in Nat BY <2>2
    <3> HIDE DEF J
    <3> QED BY <2>3, <3>1, <3>2, IntervalInduction
  <2>6. Matches(f[N], N)
    <3>1. N - 1 \in 0..(N - 1) /\ (N - 1) + 1 = N BY <2>2
    <3> QED BY <2>5, <3>1
  <2> QED BY <1>5, <2>1, <2>6 DEF N, lines
<1> QED BY <1>6, <1>7

----------------------------------------------------------------------------
(* The lines.                                                               *)

(* A line that fits the grid is one of Texts.                               *)
LEMMA TextsAreLines == \A text : IsLine(text) <=> text \in Texts
BY DEF IsLine, Texts

(* Pushing lines into the history keeps it within its size and the grid as  *)
(* it is.                                                                   *)
LEMMA PushedHistory ==
  ASSUME NEW t \in Terms, Len(t.history) <= HistoryCap, NEW pushed \in Seq(Texts)
  PROVE  LET r == PushHistory(t, pushed)
         IN r \in Terms /\ Len(r.history) <= HistoryCap /\ r.grid = t.grid /\ r.rows = t.rows
<1> DEFINE lines == t.history \o pushed
           over == SaturatingSub(Len(lines), HistoryCap)
           kept == SubSeq(lines, over + 1, Len(lines))
<1>1. lines \in Seq(Texts) /\ Len(lines) \in Nat
  BY DEF Terms
<1>2. HistoryCap \in Nat BY ScreenAssumption
<1> HIDE DEF lines
<1>3. over \in Nat /\ over <= Len(lines) /\ Len(lines) - over <= HistoryCap
  BY <1>1, <1>2 DEF SaturatingSub
<1> HIDE DEF over
<1>4. kept \in Seq(Texts) /\ Len(kept) = Len(lines) - over
  <2>1. \A i \in (over + 1)..Len(lines) : lines[i] \in Texts BY <1>1, <1>3
  <2>2. over + 1 \in Int /\ Len(lines) \in Int BY <1>1, <1>3
  <2>3. /\ kept \in Seq(Texts)
        /\ Len(kept) = IF over + 1 <= Len(lines) THEN Len(lines) - (over + 1) + 1 ELSE 0
    BY <2>1, <2>2, SubSeqProperties
  <2> QED BY <1>1, <1>3, <2>3
<1> HIDE DEF kept
<1>5. PushHistory(t, pushed) = [t EXCEPT !.history = kept, !.evicted = @ + over]
  BY DEF PushHistory, lines, over, kept
<1>6. t = [history |-> t.history, grid |-> t.grid, rows |-> t.rows, evicted |-> t.evicted]
  BY DEF Terms
<1>7. PushHistory(t, pushed) =
        [history |-> kept, grid |-> t.grid, rows |-> t.rows, evicted |-> t.evicted + over]
  BY <1>5, <1>6
<1>8. t.evicted + over \in Nat /\ t.grid \in Seq(Texts) /\ t.rows \in Nat \ {0} BY <1>3 DEF Terms
<1>9. Len(kept) <= HistoryCap BY <1>3, <1>4
<1> DEFINE r == PushHistory(t, pushed)
<1> HIDE DEF r
<1>10. r = [history |-> kept, grid |-> t.grid, rows |-> t.rows, evicted |-> t.evicted + over]
  BY <1>7 DEF r
<1>11. r \in Terms BY <1>4, <1>8, <1>10 DEF Terms
<1>12. r.history = kept /\ r.grid = t.grid /\ r.rows = t.rows BY <1>10
<1> QED BY <1>9, <1>11, <1>12 DEF r

(* Printing a line keeps the screen within its rows and the history.        *)
LEMMA PrintedLine ==
  ASSUME NEW t, ScreenOK(t), NEW text \in Texts
  PROVE  ScreenOK(PrintLine(t, text)) /\ PrintLine(t, text).rows = t.rows
<1>1. CASE Len(t.grid) < t.rows
  <2>1. PrintLine(t, text) = [t EXCEPT !.grid = Append(@, text)]
    BY <1>1 DEF PrintLine
  <2>2. Append(t.grid, text) \in Seq(Texts) /\ Len(Append(t.grid, text)) = Len(t.grid) + 1
    BY DEF ScreenOK, Terms
  <2> DEFINE g == Append(t.grid, text)
  <2>3. Len(t.grid) + 1 \in 1..t.rows BY <1>1 DEF ScreenOK, Terms
  <2>4. PrintLine(t, text) = [history |-> t.history, grid |-> g, rows |-> t.rows, evicted |-> t.evicted]
    BY <2>1 DEF ScreenOK, Terms
  <2> HIDE DEF g
  <2> QED BY <2>2, <2>3, <2>4 DEF ScreenOK, Terms, g
<1>2. CASE ~(Len(t.grid) < t.rows)
  <2> DEFINE r == PushHistory(t, <<Head(t.grid)>>)  g == Append(Tail(t.grid), text)
  <2>1. t.grid \in Seq(Texts) /\ t.grid # <<>> /\ Len(t.grid) = t.rows
    BY <1>2 DEF ScreenOK, Terms
  <2>2. Head(t.grid) \in Texts /\ Tail(t.grid) \in Seq(Texts) /\ Len(Tail(t.grid)) = Len(t.grid) - 1
    BY <2>1, HeadTailProperties
  <2>3. r \in Terms /\ Len(r.history) <= HistoryCap /\ r.grid = t.grid /\ r.rows = t.rows
    <3>1. <<Head(t.grid)>> \in Seq(Texts) BY <2>2
    <3> QED BY <3>1, PushedHistory DEF ScreenOK
  <2>4. g \in Seq(Texts) /\ Len(g) = Len(t.grid)
    <3>1. Len(t.grid) \in Nat BY <2>1
    <3> QED BY <2>2, <3>1, AppendProperties
  <2>5. PrintLine(t, text) = [r EXCEPT !.grid = g]
    BY <1>2, <2>3 DEF PrintLine
  <2> HIDE DEF r, g
  <2> QED BY <2>1, <2>3, <2>4, <2>5 DEF ScreenOK, Terms
<1> QED BY <1>1, <1>2

(* So does a notice of the runtime.                                         *)
LEMMA NoticedScreen ==
  ASSUME NEW t, ScreenOK(t)
  PROVE  ScreenOK(Noticed(t)) /\ Noticed(t).rows = t.rows
<1>1. NoticeText \in Texts /\ <<>> \in Texts
  BY ScreenAssumption DEF IsLine, Texts
<1> QED BY <1>1, PrintedLine DEF Noticed

(* A step without lines leaves those there are.                             *)
LEMMA UnchangedScreen ==
  ASSUME NEW t, ScreenOK(t)
  PROVE  /\ ScreenOK(Unchanged(t)) /\ Unchanged(t).rows = t.rows
         /\ Unchanged(t).history = t.history /\ Unchanged(t).grid = t.grid
BY DEF Unchanged, ScreenOK, Terms

(* A resize leaves as many lines as fit the new rows.                       *)
LEMMA ResizedScreen ==
  ASSUME NEW t, ScreenOK(t), NEW rows \in Nat \ {0}
  PROVE  ScreenOK(SetRows(t, rows)) /\ SetRows(t, rows).rows = rows
<1> DEFINE over == SaturatingSub(Len(t.grid), rows)
           out == SubSeq(t.grid, 1, over)
           kept == SubSeq(t.grid, over + 1, Len(t.grid))
           r == PushHistory(t, out)
<1>1. t.grid \in Seq(Texts) /\ Len(t.grid) \in Nat \ {0}
  BY DEF ScreenOK, Terms
<1>2. over \in Nat /\ over < Len(t.grid) /\ Len(t.grid) - over <= rows
  BY <1>1 DEF SaturatingSub
<1> HIDE DEF over
<1>3. out \in Seq(Texts)
  <2>1. \A i \in 1..over : t.grid[i] \in Texts BY <1>1, <1>2
  <2> QED BY <1>2, <2>1, SubSeqProperties
<1>4. kept \in Seq(Texts) /\ Len(kept) = Len(t.grid) - over
  <2>1. \A i \in (over + 1)..Len(t.grid) : t.grid[i] \in Texts BY <1>1, <1>2
  <2>2. /\ kept \in Seq(Texts)
        /\ Len(kept) = IF over + 1 <= Len(t.grid) THEN Len(t.grid) - (over + 1) + 1 ELSE 0
    BY <1>1, <1>2, <2>1, SubSeqProperties
  <2> QED BY <1>1, <1>2, <2>2
<1> HIDE DEF out
<1>5. r \in Terms /\ Len(r.history) <= HistoryCap /\ r.grid = t.grid /\ r.rows = t.rows
  BY <1>3, PushedHistory DEF ScreenOK
<1>6. SetRows(t, rows) = [r EXCEPT !.grid = kept, !.rows = rows]
  BY <1>5 DEF SetRows, over, out
<1> HIDE DEF r, kept
<1>7. SetRows(t, rows) = [history |-> r.history, grid |-> kept, rows |-> rows, evicted |-> r.evicted]
  BY <1>5, <1>6 DEF Terms
<1>8. Len(kept) \in 1..rows BY <1>1, <1>2, <1>4
<1> QED BY <1>4, <1>5, <1>7, <1>8 DEF ScreenOK, Terms

(* What the search reads are lines of the screen.                           *)
LEMMA LinesOfScreen ==
  ASSUME NEW t, ScreenOK(t)
  PROVE  /\ Lines(t) \in Seq(Seq(STRING))
         /\ \A i \in 1..Len(Lines(t)) : Len(Lines(t)[i]) <= Cols
         /\ Len(Lines(t)) = Len(t.history) + Len(t.grid)
<1>1. t.history \in Seq(Texts) /\ t.grid \in Seq(Texts)
  BY DEF ScreenOK, Terms
<1>2. Lines(t) \in Seq(Texts) /\ Len(Lines(t)) = Len(t.history) + Len(t.grid)
  BY <1>1 DEF Lines
<1>3. Texts \subseteq Seq(STRING) BY DEF Texts
<1>4. Lines(t) \in Seq(Seq(STRING)) BY <1>2, <1>3, SeqMonotonic
<1>5. \A i \in 1..Len(Lines(t)) : Lines(t)[i] \in Texts BY <1>2, ElementOfSeq
<1> QED BY <1>2, <1>4, <1>5 DEF Texts

----------------------------------------------------------------------------
(* The search.                                                              *)

Found(query, t) == IF query = <<>> \/ ~IsRegex(query) THEN <<>> ELSE Search(t, query)

(* What a refresh finds are matches in the lines of the screen.             *)
LEMMA FoundMatches ==
  ASSUME NEW t, ScreenOK(t), NEW query \in Seq(STRING)
  PROVE  Matches(Found(query, t), Len(t.history) + Len(t.grid))
<1>1. CASE query = <<>> \/ ~IsRegex(query)
  <2>1. <<>> \in Seq(Cells) /\ Len(<<>>) = 0 /\ 1..0 = {} OBVIOUS
  <2>2. Found(query, t) = <<>> BY <1>1 DEF Found
  <2> QED BY <2>1, <2>2 DEF Matches
<1>2. CASE query # <<>> /\ IsRegex(query)
  <2>1. Found(query, t) = Search(t, query) BY <1>2 DEF Found
  <2> QED BY <1>2, <2>1, LinesOfScreen, SearchMatches
<1> QED BY <1>1, <1>2

(* set_matches leaves an active match that is one of the matches, in its    *)
(* place unless the list is too short.                                      *)
LEMMA MatchesSet ==
  ASSUME NEW s, SearchOK(s), s.active, NEW found \in Seq(Cells), NEW reset \in BOOLEAN
  PROVE  LET r == SetMatches(s, found, reset)
         IN /\ SearchOK(r)
            /\ r.active /\ r.query = s.query /\ r.matches = found
            /\ r.index # None /\ s.index # None /\ ~reset => r.index = AtMost(s.index, Len(found))
<1> DEFINE i == CASE found = <<>> -> None
                  [] found # <<>> /\ (reset \/ s.index = None) -> 1
                  [] OTHER -> AtMost(s.index, Len(found))
           r == SetMatches(s, found, reset)
<1>1. s = [active |-> TRUE, query |-> s.query, matches |-> s.matches, index |-> s.index]
  BY DEF SearchOK, Searches
<1>2. SetMatches(s, found, reset) = [s EXCEPT !.matches = found, !.index = i]
  BY DEF SetMatches
<1>3. /\ found = <<>> => i = None
      /\ found # <<>> /\ (reset \/ s.index = None) => i = 1
      /\ found # <<>> /\ ~reset /\ s.index # None => i = AtMost(s.index, Len(found))
  OBVIOUS
<1> HIDE DEF i
<1>4. r = [active |-> TRUE, query |-> s.query, matches |-> found, index |-> i]
  BY <1>1, <1>2
<1>5. /\ r.active = TRUE /\ r.query = s.query /\ r.matches = found /\ r.index = i
  BY <1>4
<1>6. IF found = <<>> THEN i = None ELSE i \in 1..Len(found)
  <2>1. CASE found = <<>> BY <1>3, <2>1
  <2>2. CASE found # <<>>
    <3>1. Len(found) \in Nat \ {0} BY <2>2
    <3>2. s.index # None => s.index \in Nat \ {0}
      <4>1. s.matches \in Seq(Cells) BY DEF SearchOK, Searches
      <4> QED BY <4>1 DEF SearchOK
    <3>3. s.index # None => AtMost(s.index, Len(found)) \in 1..Len(found)
      BY <3>1, <3>2 DEF AtMost
    <3>4. 1 \in 1..Len(found) BY <3>1
    <3> QED BY <1>3, <2>2, <3>3, <3>4
  <2> QED BY <2>1, <2>2
<1>7. i \in Nat \cup {None} /\ s.query \in Seq(STRING)
  BY <1>6 DEF SearchOK, Searches
<1>8. r \in Searches BY <1>4, <1>7 DEF Searches
<1> HIDE DEF r
<1>9. SearchOK(r) BY <1>5, <1>6, <1>8 DEF SearchOK
<1>10. found = <<>> => r.index = None BY <1>3, <1>5
<1> QED BY <1>3, <1>5, <1>9, <1>10 DEF r

(* What all users of the record of a refresh need to know.                  *)
SameBut(r, u) == r.palette = u.palette /\ r.pointer = u.pointer /\ r.held = u.held /\ r.selection = u.selection

(* Aligning the view changes the offset alone, to the line of the active    *)
(* match.                                                                   *)
LEMMA AlignedUi ==
  ASSUME NEW u, UiOK(u), NEW t, ScreenOK(t)
  PROVE  LET r == Aligned(u, t)
         IN /\ UiOK(r) /\ SameBut(r, u) /\ r.search = u.search
            /\ r.search.index # None => r.offset = SaturatingSub(Len(t.history), ActiveMatch(r)[1])
            /\ r.search.index = None => r.offset = u.offset
<1>1. CASE u.search.index = None
  BY <1>1 DEF Aligned, SameBut
<1>2. CASE u.search.index # None
  <2> DEFINE o == SaturatingSub(Len(t.history), ActiveMatch(u)[1])
             r == Aligned(u, t)
  <2>1. r = [u EXCEPT !.offset = o]
    BY <1>2 DEF Aligned
  <2>2. ActiveMatch(u)[1] \in Nat
    <3>1. u.search.matches \in Seq(Cells) /\ u.search.index \in 1..Len(u.search.matches)
      BY <1>2 DEF UiOK, SearchOK, Searches
    <3>2. ActiveMatch(u) \in Cells BY <3>1 DEF ActiveMatch
    <3> QED BY <3>2 DEF Cells
  <2>3. Len(t.history) \in Nat /\ Len(t.history) <= HistoryCap /\ HistoryCap \in Nat
    BY ScreenAssumption DEF ScreenOK, Terms
  <2>4. o \in 0..HistoryCap BY <2>2, <2>3 DEF SaturatingSub
  <2> HIDE DEF o
  <2>5. r = [offset |-> o, palette |-> u.palette, search |-> u.search, pointer |-> u.pointer,
             held |-> u.held, selection |-> u.selection]
    BY <2>1 DEF UiOK, Uis
  <2> HIDE DEF r
  <2>6. r \in Uis BY <2>4, <2>5 DEF UiOK, Uis
  <2>7. r.search = u.search /\ SameBut(r, u) /\ r.offset = o BY <2>5 DEF SameBut
  <2>8. ActiveMatch(r) = ActiveMatch(u) BY <2>7 DEF ActiveMatch
  <2>9. UiOK(r) BY <2>6, <2>7 DEF UiOK, SameBut
  <2> QED BY <1>2, <2>7, <2>8, <2>9 DEF o, r
<1> QED BY <1>1, <1>2

(* A refresh finds the matches there are and aligns the view to the active  *)
(* one.                                                                     *)
LEMMA RefreshedUi ==
  ASSUME NEW u, UiOK(u), NEW t, ScreenOK(t), NEW reset \in BOOLEAN
  PROVE  LET r == Refreshed(u, t, reset)
         IN /\ UiOK(r) /\ SameBut(r, u)
            /\ r.search.active = u.search.active /\ r.search.query = u.search.query
            /\ ~u.search.active => r = u
            /\ u.search.active =>
                 /\ r.search.matches = Found(u.search.query, t)
                 /\ r.search.index # None => r.offset = SaturatingSub(Len(t.history), ActiveMatch(r)[1])
                 /\ r.search.index # None /\ u.search.index # None /\ ~reset =>
                      r.search.index = AtMost(u.search.index, Len(r.search.matches))
<1>1. CASE ~u.search.active
  BY <1>1 DEF Refreshed, SameBut
<1>2. CASE u.search.active
  <2> DEFINE found == Found(u.search.query, t)
             s == SetMatches(u.search, found, reset)
             v == [u EXCEPT !.search = s]
             r == Refreshed(u, t, reset)
  <2>1. found \in Seq(Cells)
    <3>1. u.search.query \in Seq(STRING) BY DEF UiOK, SearchOK, Searches
    <3> QED BY <3>1, FoundMatches DEF Matches
  <2>2. r = Aligned(v, t)
    BY <1>2 DEF Refreshed, Found
  <2> HIDE DEF found
  <2>3. /\ SearchOK(s) /\ s.active /\ s.query = u.search.query /\ s.matches = found
        /\ s.index # None /\ u.search.index # None /\ ~reset => s.index = AtMost(u.search.index, Len(found))
    BY <1>2, <2>1, MatchesSet DEF UiOK
  <2> HIDE DEF s, r
  <2>4. v = [offset |-> u.offset, palette |-> u.palette, search |-> s, pointer |-> u.pointer,
             held |-> u.held, selection |-> u.selection]
    BY DEF UiOK, Uis
  <2> HIDE DEF v
  <2>5. v \in Uis BY <2>3, <2>4 DEF UiOK, Uis, SearchOK
  <2>6. v.search = s /\ SameBut(v, u) /\ v.offset = u.offset BY <2>4 DEF SameBut
  <2>7. UiOK(v) BY <1>2, <2>3, <2>5, <2>6 DEF UiOK, SameBut
  <2>8. /\ UiOK(r) /\ SameBut(r, v) /\ r.search = v.search
        /\ r.search.index # None => r.offset = SaturatingSub(Len(t.history), ActiveMatch(r)[1])
    BY <2>2, <2>7, AlignedUi
  <2>9. SameBut(r, u) BY <2>6, <2>8 DEF SameBut
  <2>10. s.active = u.search.active
    BY <1>2, <2>3 DEF UiOK, SearchOK, Searches
  <2> QED BY <1>2, <2>3, <2>6, <2>8, <2>9, <2>10 DEF r, found
<1> QED BY <1>1, <1>2 DEF UiOK, SearchOK, Searches

----------------------------------------------------------------------------
(* The parts that actions are made of.                                      *)

(* What a session offers is of the types of the state.                      *)
LEMMA SessionFacts ==
  ASSUME session \in Sessions
  PROVE  /\ session.sizes \subseteq Nat \ {0} /\ session.rows \in session.sizes
         /\ session.texts \subseteq Texts /\ session.chars \subseteq STRING
         /\ session.cells \subseteq Cells
         /\ session.buttons \subseteq 0..2 /\ Primary \in session.buttons
         /\ Outcomes \subseteq BOOLEAN /\ TRUE \in Outcomes
<1>1. SessionType(session) BY SessionsAssumption
<1>2. session.texts \subseteq Texts BY <1>1, TextsAreLines DEF SessionType
<1> QED BY <1>1, <1>2 DEF SessionType, Outcomes, Cells

(* A step that has no lines for the search but those of a notice.           *)
LinesKept ==
  /\ ScreenTypes'
  /\ term'.rows = term.rows
  /\ \/ since' = since /\ term'.history = term.history /\ term'.grid = term.grid
     \/ "notice" \in since'

(* Silence keeps the lines.                                                 *)
LEMMA SilentKeeps ==
  ASSUME ScreenTypes, session' = session, Silent
  PROVE  LinesKept /\ since' = since
BY UnchangedScreen DEF ScreenTypes, LinesKept, Silent

(* A notice keeps the screen, and is on record.                             *)
LEMMA NoticesKeeps ==
  ASSUME ScreenTypes, session' = session, Notices
  PROVE  LinesKept
<1>1. ScreenOK(Unchanged(term)) /\ Unchanged(term).rows = term.rows
  BY UnchangedScreen DEF ScreenTypes
<1>2. ScreenOK(term') /\ term'.rows = term.rows
  BY <1>1, NoticedScreen DEF Notices
<1> QED BY <1>2 DEF ScreenTypes, LinesKept, Notices

(* A call of the PTY writes a notice, or changes nothing but what it is     *)
(* given.                                                                   *)
LEMMA CallsScreen ==
  ASSUME ScreenTypes, session' = session, NEW ok \in BOOLEAN, NEW t, ScreenOK(t), t.rows \in session.sizes,
         NEW happened \in SUBSET {"wheel", "notice", "resize"}, Calls(ok, t, happened)
  PROVE  /\ ScreenTypes' /\ term'.rows = t.rows /\ since \cup happened \subseteq since'
         /\ \/ since' = since \cup happened /\ term' = t
            \/ "notice" \in since'
<1>1. CASE ~ok \/ degraded
  <2>1. term' = Noticed(t) /\ since' = since \cup happened \cup {"notice"} /\ degraded' = ~ok
    BY <1>1 DEF Calls
  <2>2. ScreenOK(term') /\ term'.rows = t.rows BY <2>1, NoticedScreen
  <2> QED BY <2>1, <2>2 DEF ScreenTypes
<1>2. CASE ~(~ok \/ degraded)
  <2>1. term' = t /\ since' = since \cup happened \cup {} /\ degraded' = ~ok
    BY <1>2 DEF Calls
  <2> QED BY <2>1 DEF ScreenTypes
<1> QED BY <1>1, <1>2

(* A call that writes keeps the lines but for its notice.                   *)
LEMMA CallsKeeps ==
  ASSUME ScreenTypes, session' = session, NEW ok \in BOOLEAN, Calls(ok, Unchanged(term), {})
  PROVE  LinesKept
<1> DEFINE t == Unchanged(term)  none == {}
<1>1. ScreenOK(t) /\ t.rows = term.rows /\ t.history = term.history /\ t.grid = term.grid
  BY UnchangedScreen DEF ScreenTypes
<1>2. t.rows \in session.sizes BY <1>1 DEF ScreenTypes
<1>3. none \in SUBSET {"wheel", "notice", "resize"} /\ since \cup none = since OBVIOUS
<1>4. Calls(ok, t, none) OBVIOUS
<1> HIDE DEF t, none
<1>5. /\ ScreenTypes' /\ term'.rows = t.rows
      /\ \/ since' = since \cup none /\ term' = t
         \/ "notice" \in since'
  BY <1>1, <1>2, <1>3, <1>4, CallsScreen
<1> QED BY <1>1, <1>3, <1>5 DEF LinesKept

(* A write, however it ends, keeps the lines but for its notice.            *)
LEMMA WritesKeeps ==
  ASSUME ScreenTypes, session \in Sessions, session' = session, Writes
  PROVE  LinesKept
<1>1. PICK ok \in Outcomes : Calls(ok, Unchanged(term), {}) BY DEF Writes
<1>2. ok \in BOOLEAN BY <1>1, SessionFacts
<1> QED BY <1>1, <1>2, CallsKeeps

(* A report of a button does, and tells the program of buttons only.        *)
LEMMA ReportKeeps ==
  ASSUME ScreenTypes, session \in Sessions, session' = session, MouseTypes, pressed' \in Cells,
         NEW b \in session.buttons, NEW isPress \in BOOLEAN, ReportButton(b, isPress)
  PROVE  LinesKept /\ MouseTypes'
<1>1. PICK ok \in Outcomes :
        /\ told' = IF ok /\ (isPress \/ modes.format = "Sgr") /\ Mouse \in Tracked
                   THEN [told EXCEPT !.down = IF isPress THEN @ \cup {b} ELSE @ \ {b}] ELSE told
        /\ disputed' = [disputed EXCEPT !.down = IF ok THEN @ \ {b} ELSE @ \cup {b}]
        /\ Calls(ok, Unchanged(term), {})
  BY DEF ReportButton
<1>2. ok \in BOOLEAN BY <1>1, SessionFacts
<1>3. LinesKept BY <1>1, <1>2, CallsKeeps
<1>4. b \in 0..2 BY SessionFacts
<1>5. told' \in Tellings /\ told'.down \subseteq session.buttons
  <2>1. \A d \in {told.down, told.down \cup {b}, told.down \ {b}} :
          /\ [told EXCEPT !.down = d] \in Tellings
          /\ [told EXCEPT !.down = d].down = d /\ d \subseteq session.buttons
    BY <1>4 DEF MouseTypes, Tellings
  <2> QED BY <1>1, <2>1 DEF MouseTypes
<1>6. disputed' \in Tellings /\ disputed'.down \subseteq session.buttons
  <2>1. \A d \in {disputed.down \cup {b}, disputed.down \ {b}} :
          /\ [disputed EXCEPT !.down = d] \in Tellings
          /\ [disputed EXCEPT !.down = d].down = d /\ d \subseteq session.buttons
    BY <1>4 DEF MouseTypes, Tellings
  <2> QED BY <1>1, <2>1
<1> QED BY <1>3, <1>5, <1>6 DEF MouseTypes

(* Whatever of the state but its search an action replaces.                 *)
LEMMA UiWith ==
  ASSUME NEW u, UiOK(u),
         NEW o \in 0..HistoryCap, NEW p \in BOOLEAN, NEW cell \in Cells, NEW h \in SUBSET (0..2),
         NEW sel \in (Cells \X Cells) \cup {None}, ~(p /\ u.search.active)
  PROVE  LET r == [offset |-> o, palette |-> p, search |-> u.search, pointer |-> cell,
                   held |-> h, selection |-> sel]
         IN UiOK(r)
<1> DEFINE r == [offset |-> o, palette |-> p, search |-> u.search, pointer |-> cell,
                 held |-> h, selection |-> sel]
<1>1. u.search \in Searches /\ SearchOK(u.search) BY DEF UiOK, SearchOK
<1>2. r \in Uis BY <1>1 DEF Uis
<1>3. r.search = u.search /\ r.palette = p OBVIOUS
<1> HIDE DEF r
<1>4. UiOK(r) BY <1>1, <1>2, <1>3 DEF UiOK
<1> QED BY <1>4 DEF r

(* The state of the user's side, field by field.                            *)
LEMMA UiFields ==
  ASSUME NEW u, UiOK(u)
  PROVE  /\ u = [offset |-> u.offset, palette |-> u.palette, search |-> u.search, pointer |-> u.pointer,
                 held |-> u.held, selection |-> u.selection]
         /\ u.offset \in 0..HistoryCap /\ u.palette \in BOOLEAN /\ u.pointer \in Cells
         /\ u.held \in SUBSET (0..2) /\ u.selection \in (Cells \X Cells) \cup {None}
         /\ ~(u.palette /\ u.search.active)
BY DEF UiOK, Uis

(* The view may start anywhere in the history.                              *)
LEMMA UiWithOffset ==
  ASSUME NEW u, UiOK(u), NEW o \in 0..HistoryCap
  PROVE  LET r == [u EXCEPT !.offset = o]
         IN UiOK(r) /\ SameBut(r, u) /\ r.search = u.search /\ r.offset = o
<1> DEFINE r == [u EXCEPT !.offset = o]
<1>1. r = [offset |-> o, palette |-> u.palette, search |-> u.search, pointer |-> u.pointer,
           held |-> u.held, selection |-> u.selection]
  BY UiFields
<1> HIDE DEF r
<1>2. UiOK(r) BY <1>1, UiFields, UiWith
<1>3. SameBut(r, u) /\ r.search = u.search /\ r.offset = o BY <1>1 DEF SameBut
<1> QED BY <1>2, <1>3 DEF r

(* The palette may open beside a search that is not active.                 *)
LEMMA UiWithPalette ==
  ASSUME NEW u, UiOK(u), NEW p \in BOOLEAN, ~u.search.active
  PROVE  LET r == [u EXCEPT !.palette = p]
         IN UiOK(r) /\ r.held = u.held /\ r.pointer = u.pointer /\ r.selection = u.selection
            /\ r.search = u.search /\ r.offset = u.offset
<1> DEFINE r == [u EXCEPT !.palette = p]
<1>1. r = [offset |-> u.offset, palette |-> p, search |-> u.search, pointer |-> u.pointer,
           held |-> u.held, selection |-> u.selection]
  BY UiFields
<1> HIDE DEF r
<1>2. UiOK(r) BY <1>1, UiFields, UiWith
<1> QED BY <1>1, <1>2 DEF r

(* The buttons, the pointer and the selection.                              *)
LEMMA UiWithMouse ==
  ASSUME NEW u, UiOK(u), NEW cell \in Cells, NEW h \in SUBSET (0..2),
         NEW sel \in (Cells \X Cells) \cup {None}
  PROVE  LET r == [offset |-> u.offset, palette |-> u.palette, search |-> u.search, pointer |-> cell,
                   held |-> h, selection |-> sel]
         IN UiOK(r)
BY UiFields, UiWith

(* The search may be replaced by another.                                   *)
LEMMA UiWithSearch ==
  ASSUME NEW u, UiOK(u), NEW s, SearchOK(s), NEW p \in BOOLEAN, ~(p /\ s.active),
         NEW sel \in (Cells \X Cells) \cup {None}
  PROVE  LET r == [offset |-> u.offset, palette |-> p, search |-> s, pointer |-> u.pointer,
                   held |-> u.held, selection |-> sel]
         IN UiOK(r)
<1> DEFINE r == [offset |-> u.offset, palette |-> p, search |-> s, pointer |-> u.pointer,
                 held |-> u.held, selection |-> sel]
<1>1. s \in Searches BY DEF SearchOK
<1>2. r \in Uis BY <1>1, UiFields DEF Uis
<1>3. r.search = s /\ r.palette = p OBVIOUS
<1> HIDE DEF r
<1>4. UiOK(r) BY <1>2, <1>3 DEF UiOK
<1> QED BY <1>4 DEF r

(* A search begins and ends without matches.                                *)
LEMMA NoSearchOK == SearchOK(Entered) /\ SearchOK(Exited)
<1>1. <<>> \in Seq(STRING) /\ <<>> \in Seq(Cells) OBVIOUS
<1>2. NoSearch \in Searches BY <1>1 DEF NoSearch, Searches
<1>3. NoSearch.matches = <<>> /\ NoSearch.index = None BY DEF NoSearch
<1>4. Entered \in Searches /\ Entered.matches = <<>> /\ Entered.index = None
  BY <1>2, <1>3 DEF Entered, Searches
<1> QED BY <1>2, <1>3, <1>4 DEF SearchOK, Exited

(* Moving the active match leaves it one of the matches.                    *)
LEMMA MovedMatchOK ==
  ASSUME NEW s, SearchOK(s), s.active
  PROVE  /\ SearchOK(AdvanceMatch(s)) /\ SearchOK(RetreatMatch(s))
         /\ \A r \in {AdvanceMatch(s), RetreatMatch(s)} :
              r.active = s.active /\ r.query = s.query /\ r.matches = s.matches
<1> DEFINE n == Len(s.matches)
<1>1. s.matches \in Seq(Cells) /\ n \in Nat /\ s.active = TRUE /\ s.query \in Seq(STRING)
  BY DEF SearchOK, Searches
<1>2. s \in Searches BY DEF SearchOK
<1>3. ASSUME n > 1
      PROVE  /\ s.matches # <<>> /\ s.index \in 1..n
             /\ (s.index % n) + 1 \in 1..n
             /\ (IF s.index = 1 THEN n ELSE s.index - 1) \in 1..n
  <2>1. s.matches # <<>> /\ s.index \in 1..n BY <1>1, <1>3 DEF SearchOK
  <2>2. s.index % n \in 0..(n - 1) BY <1>1, <1>3, <2>1
  <2> QED BY <1>1, <1>3, <2>1, <2>2
<1>4. ASSUME NEW i \in 1..n, n > 1
      PROVE  LET r == [s EXCEPT !.index = i]
             IN SearchOK(r) /\ r.active = s.active /\ r.query = s.query /\ r.matches = s.matches
  <2> DEFINE r == [s EXCEPT !.index = i]
  <2>1. i \in Nat BY <1>1
  <2>2. r \in Searches BY <1>2, <2>1 DEF Searches
  <2>3. /\ r.active = s.active /\ r.query = s.query /\ r.matches = s.matches
        /\ r.index = i
    BY <1>2 DEF Searches
  <2> HIDE DEF r
  <2>4. SearchOK(r) BY <1>1, <1>3, <1>4, <2>2, <2>3 DEF SearchOK
  <2> QED BY <2>3, <2>4 DEF r
<1> HIDE DEF n
<1>5. CASE n > 1
  <2> DEFINE i == (s.index % n) + 1  j == IF s.index = 1 THEN n ELSE s.index - 1
  <2>1. i \in 1..n /\ j \in 1..n BY <1>3, <1>5
  <2>2. ~(n <= 1) BY <1>1, <1>5
  <2>3. AdvanceMatch(s) = [s EXCEPT !.index = i] BY <2>2 DEF AdvanceMatch, n
  <2>4. RetreatMatch(s) = [s EXCEPT !.index = j] BY <2>2 DEF RetreatMatch, n
  <2> HIDE DEF i, j
  <2>5. SearchOK(AdvanceMatch(s)) /\ AdvanceMatch(s).active = s.active
        /\ AdvanceMatch(s).query = s.query /\ AdvanceMatch(s).matches = s.matches
    <3>1. LET r == [s EXCEPT !.index = i]
          IN SearchOK(r) /\ r.active = s.active /\ r.query = s.query /\ r.matches = s.matches
      BY <1>4, <1>5, <2>1, Zenon
    <3> QED BY <2>3, <3>1, Zenon
  <2>6. SearchOK(RetreatMatch(s)) /\ RetreatMatch(s).active = s.active
        /\ RetreatMatch(s).query = s.query /\ RetreatMatch(s).matches = s.matches
    <3>1. LET r == [s EXCEPT !.index = j]
          IN SearchOK(r) /\ r.active = s.active /\ r.query = s.query /\ r.matches = s.matches
      BY <1>4, <1>5, <2>1, Zenon
    <3> QED BY <2>4, <3>1, Zenon
  <2> QED BY <2>5, <2>6
<1>6. CASE ~(n > 1)
  <2>1. n <= 1 BY <1>1, <1>6
  <2> QED BY <2>1 DEF AdvanceMatch, RetreatMatch, n
<1> QED BY <1>5, <1>6

----------------------------------------------------------------------------
(* Types, and the search in step with the lines and the view.               *)

SearchInv == Types /\ SearchIsFresh /\ ViewFollows
StepTypes == ScreenTypes' /\ UiTypes' /\ ProgramTypes' /\ MouseTypes'
SearchStep == SearchIsFresh' /\ ViewFollows'

(* A search finds the same in the same lines.                               *)
LEMMA SameSearch ==
  ASSUME NEW t, NEW r, r.history = t.history, r.grid = t.grid, NEW query
  PROVE  Search(r, query) = Search(t, query)
BY DEF Search, Lines

(* A fresh search has the matches that are found.                           *)
LEMMA FreshMeansFound ==
  SearchIsFresh <=> (ui.search.active /\ since \cap {"notice", "resize"} = {} =>
                       ui.search.matches = Found(ui.search.query, term))
BY DEF SearchIsFresh, Found

(* A step that keeps the search, the view and the lines keeps the search    *)
(* fresh.                                                                   *)
LEMMA SearchKept ==
  ASSUME SearchIsFresh, ViewFollows, LinesKept, ui'.search = ui.search,
         ui'.offset = ui.offset \/ ui.search.index = None
  PROVE  SearchStep
<1>1. CASE "notice" \in since'
  BY <1>1 DEF SearchStep, SearchIsFresh, ViewFollows
<1>2. CASE since' = since /\ term'.history = term.history /\ term'.grid = term.grid
  <2>1. Search(term', ui.search.query) = Search(term, ui.search.query) BY <1>2, SameSearch
  <2>2. SearchIsFresh' BY <1>2, <2>1 DEF SearchIsFresh
  <2>3. ActiveMatch(ui)' = ActiveMatch(ui) BY DEF ActiveMatch
  <2>4. ViewFollows' BY <1>2, <2>3 DEF ViewFollows
  <2> QED BY <2>2, <2>4 DEF SearchStep
<1> QED BY <1>1, <1>2 DEF LinesKept

(* A refreshed search is that of the lines it was refreshed with.           *)
LEMMA SearchRefreshed ==
  ASSUME NEW u, UiOK(u), ScreenOK(term'), NEW reset \in BOOLEAN,
         NEW t, ScreenOK(t), term'.history = t.history, term'.grid = t.grid,
         u.search.active, ui' = Refreshed(u, t, reset)
  PROVE  SearchStep
<1> DEFINE r == Refreshed(u, t, reset)
<1>1. /\ r.search.query = u.search.query
      /\ r.search.matches = Found(u.search.query, t)
      /\ r.search.index # None => r.offset = SaturatingSub(Len(t.history), ActiveMatch(r)[1])
  BY RefreshedUi
<1>2. Found(u.search.query, term') = Found(u.search.query, t) BY SameSearch DEF Found
<1>3. ActiveMatch(ui)' = ActiveMatch(r) BY DEF ActiveMatch
<1> HIDE DEF r
<1>4. ui' = r BY DEF r
<1>5. SearchIsFresh' BY <1>1, <1>2, <1>4 DEF SearchIsFresh, Found
<1>6. ViewFollows' BY <1>1, <1>3, <1>4 DEF ViewFollows
<1> QED BY <1>5, <1>6 DEF SearchStep

(* The keyboard keeps the types and the search in step with the lines.      *)
LEMMA KeyboardStep ==
  ASSUME SearchInv, Keyboard
  PROVE  StepTypes /\ SearchStep
<1> USE DEF KeepMouse, KeepProgram
<1>0. /\ ScreenTypes /\ UiTypes /\ ProgramTypes /\ MouseTypes /\ SearchIsFresh /\ ViewFollows
      /\ session \in Sessions /\ UiOK(ui) /\ ui.held \subseteq session.buttons /\ ScreenOK(term)
  BY DEF SearchInv, Types, ScreenTypes, UiTypes, ProgramTypes
<1>1. ASSUME KeepProgram PROVE session' = session /\ ProgramTypes'
  BY <1>0, <1>1 DEF ProgramTypes
<1>2. ASSUME KeepMouse, session' = session PROVE MouseTypes'
  BY <1>0, <1>2 DEF MouseTypes
<1>3. ASSUME term' = Unchanged(term), since' \subseteq since \/ since' = {}, degraded' = degraded, session' = session
      PROVE  ScreenTypes' /\ term'.history = term.history /\ term'.grid = term.grid
  BY <1>0, <1>3, UnchangedScreen DEF ScreenTypes
<1>4. ASSUME OpenSearch PROVE StepTypes /\ SearchStep
  <2>0. PICK closed \in BOOLEAN :
          ~closed /\ ui' = [ui EXCEPT !.selection = None, !.palette = closed, !.search = Entered]
    BY <1>4 DEF OpenSearch
  <2>1. ui' = [offset |-> ui.offset, palette |-> closed, search |-> Entered, pointer |-> ui.pointer,
               held |-> ui.held, selection |-> None]
    <3> DEFINE v == [ui EXCEPT !.selection = None]  w == [v EXCEPT !.palette = closed]
    <3>1. v = [offset |-> ui.offset, palette |-> ui.palette, search |-> ui.search, pointer |-> ui.pointer,
               held |-> ui.held, selection |-> None]
      BY <1>0, UiFields
    <3>2. ui' = [w EXCEPT !.search = Entered] BY <2>0
    <3> HIDE DEF v
    <3>3. w = [offset |-> ui.offset, palette |-> closed, search |-> ui.search, pointer |-> ui.pointer,
               held |-> ui.held, selection |-> None]
      BY <3>1
    <3> HIDE DEF w
    <3> QED BY <3>2, <3>3
  <2>2. UiOK(ui')
    <3>1. SearchOK(Entered) BY NoSearchOK
    <3>2. ~(closed /\ Entered.active) /\ None \in (Cells \X Cells) \cup {None} BY <2>0
    <3> QED BY <1>0, <2>1, <3>1, <3>2, UiWithSearch
  <2>3. ui'.search = Entered /\ ui'.held = ui.held BY <2>1
  <2>4. Entered.query = <<>> /\ Entered.matches = <<>> /\ Entered.index = None
    BY DEF Entered, NoSearch
  <2>5. SearchStep BY <2>3, <2>4 DEF SearchStep, SearchIsFresh, ViewFollows
  <2>6. UiTypes' BY <1>0, <1>4, <2>2, <2>3 DEF UiTypes, OpenSearch
  <2> QED BY <1>1, <1>2, <1>3, <1>4, <2>5, <2>6 DEF OpenSearch, StepTypes
<1>5. ASSUME CloseSearch PROVE StepTypes /\ SearchStep
  <2>1. ui' = [offset |-> ui.offset, palette |-> ui.palette, search |-> Exited, pointer |-> ui.pointer,
               held |-> ui.held, selection |-> ui.selection]
    BY <1>0, <1>5, UiFields DEF CloseSearch
  <2>2. ~Exited.active /\ Exited.index = None BY DEF Exited, NoSearch
  <2>3. UiOK(ui') BY <1>0, <2>1, <2>2, NoSearchOK, UiFields, UiWithSearch
  <2>4. ui'.search = Exited /\ ui'.held = ui.held BY <2>1
  <2>5. SearchStep BY <2>2, <2>4 DEF SearchStep, SearchIsFresh, ViewFollows
  <2>6. UiTypes' BY <1>0, <1>5, <2>3, <2>4 DEF UiTypes, CloseSearch
  <2>7. LinesKept BY <1>0, <1>5, SilentKeeps DEF CloseSearch
  <2> QED BY <1>1, <1>2, <1>5, <2>5, <2>6, <2>7 DEF CloseSearch, StepTypes, LinesKept
<1>6. ASSUME NEW query \in Seq(STRING), SetQuery(query) PROVE StepTypes /\ SearchStep
  <2> DEFINE s == [ui.search EXCEPT !.query = query]  u == [ui EXCEPT !.search.query = query]
  <2>1. SearchOK(s) /\ s.active = ui.search.active
    BY <1>0, <1>6 DEF UiOK, SearchOK, Searches
  <2>2. u = [offset |-> ui.offset, palette |-> ui.palette, search |-> s, pointer |-> ui.pointer,
             held |-> ui.held, selection |-> ui.selection]
    BY <1>0, UiFields
  <2> HIDE DEF s
  <2>3. UiOK(u) /\ u.search = s /\ u.held = ui.held
    <3> HIDE DEF u
    <3>1. UiOK(u) BY <1>0, <2>1, <2>2, UiFields, UiWithSearch
    <3> QED BY <2>2, <3>1
  <2> HIDE DEF u
  <2>4. ui' = Refreshed(u, term, TRUE) /\ u.search.active
    BY <1>6, <2>1, <2>3 DEF SetQuery, u
  <2>5. UiOK(ui') /\ SameBut(ui', u) BY <1>0, <2>3, <2>4, RefreshedUi
  <2>6. UiTypes' BY <1>0, <1>6, <2>3, <2>5 DEF UiTypes, SetQuery, SameBut
  <2>7. ScreenTypes' /\ term'.history = term.history /\ term'.grid = term.grid
    BY <1>3, <1>6 DEF SetQuery
  <2>8. SearchStep BY <1>0, <2>3, <2>4, <2>7, SearchRefreshed DEF ScreenTypes
  <2> QED BY <1>1, <1>2, <1>6, <2>6, <2>7, <2>8 DEF SetQuery, StepTypes
<1>7. ASSUME AppendSearchText PROVE StepTypes /\ SearchStep
  <2>1. PICK ch \in session.chars : SetQuery(Append(ui.search.query, ch)) BY <1>7 DEF AppendSearchText
  <2>2. ch \in STRING /\ ui.search.query \in Seq(STRING)
    BY <1>0, <2>1, SessionFacts DEF UiOK, SearchOK, Searches
  <2>3. Append(ui.search.query, ch) \in Seq(STRING) BY <2>2, AppendProperties
  <2> QED BY <1>6, <2>1, <2>3
<1>8. ASSUME PopSearchText PROVE StepTypes /\ SearchStep
  <2>1. ui.search.query \in Seq(STRING) /\ ui.search.query # <<>>
    BY <1>0, <1>8 DEF UiOK, SearchOK, Searches, PopSearchText
  <2>2. Front(ui.search.query) \in Seq(STRING)
    <3> DEFINE q == ui.search.query
    <3>1. Len(q) - 1 \in Nat /\ \A i \in 1..(Len(q) - 1) : q[i] \in STRING BY <2>1
    <3> HIDE DEF q
    <3>2. SubSeq(q, 1, Len(q) - 1) \in Seq(STRING) BY <3>1, SubSeqProperties
    <3> QED BY <3>2 DEF Front, q
  <2> QED BY <1>6, <1>8, <2>2 DEF PopSearchText
<1>9. ASSUME NEW reverse \in BOOLEAN, MoveSearchMatch(reverse) PROVE StepTypes /\ SearchStep
  <2> DEFINE s == IF reverse THEN RetreatMatch(ui.search) ELSE AdvanceMatch(ui.search)
             u == [ui EXCEPT !.search = s]
  <2>1. SearchOK(s) /\ s.active = ui.search.active /\ s.query = ui.search.query /\ s.matches = ui.search.matches
    BY <1>0, <1>9, MovedMatchOK DEF UiOK, MoveSearchMatch
  <2>2. u = [offset |-> ui.offset, palette |-> ui.palette, search |-> s, pointer |-> ui.pointer,
             held |-> ui.held, selection |-> ui.selection]
    BY <1>0, UiFields
  <2>3. ui' = Aligned(u, term)
    BY <1>9 DEF MoveSearchMatch
  <2> HIDE DEF s, u
  <2>4. UiOK(u) BY <1>0, <2>1, <2>2, UiFields, UiWithSearch
  <2>5. u.search = s /\ u.held = ui.held BY <2>2
  <2>6. /\ UiOK(ui') /\ SameBut(ui', u) /\ ui'.search = s
        /\ ui'.search.index # None => ui'.offset = SaturatingSub(Len(term.history), ActiveMatch(ui')[1])
    BY <1>0, <2>3, <2>4, <2>5, AlignedUi
  <2>7. UiTypes' BY <1>0, <1>9, <2>5, <2>6 DEF UiTypes, MoveSearchMatch, SameBut
  <2>8. ScreenTypes' /\ term'.history = term.history /\ term'.grid = term.grid
    BY <1>3, <1>9 DEF MoveSearchMatch
  <2>9. Search(term', s.query) = Search(term, s.query) BY <2>8, SameSearch
  <2>10. SearchIsFresh'
    <3>1. since' \cap {"notice", "resize"} = since \cap {"notice", "resize"} BY <1>9 DEF MoveSearchMatch
    <3> QED BY <1>0, <2>1, <2>6, <2>9, <3>1 DEF SearchIsFresh
  <2>11. ViewFollows'
    <3>1. ActiveMatch(ui)' = ActiveMatch(ui') BY DEF ActiveMatch
    <3> QED BY <2>6, <2>8, <3>1 DEF ViewFollows
  <2> QED BY <1>1, <1>2, <1>9, <2>7, <2>8, <2>10, <2>11 DEF MoveSearchMatch, StepTypes, SearchStep
<1>10. ASSUME NEW p \in BOOLEAN, ~ui.search.active, ui' = [ui EXCEPT !.palette = p],
              Notices, KeepMouse, KeepProgram
       PROVE  StepTypes /\ SearchStep
  <2>1. UiOK(ui') /\ ui'.held = ui.held /\ ui'.search = ui.search /\ ui'.offset = ui.offset
    BY <1>0, <1>10, UiWithPalette
  <2>2. LinesKept BY <1>0, <1>10, NoticesKeeps
  <2>3. SearchStep BY <1>0, <2>1, <2>2, SearchKept
  <2> QED BY <1>0, <1>1, <1>2, <1>10, <2>1, <2>2, <2>3 DEF StepTypes, UiTypes, LinesKept
<1>11. ASSUME TogglePalette PROVE StepTypes /\ SearchStep
  <2>1. (~ui.palette) \in BOOLEAN /\ ui' = [ui EXCEPT !.palette = ~ui.palette]
    BY <1>11 DEF TogglePalette
  <2> QED BY <1>10, <1>11, <2>1 DEF TogglePalette
<1>12. ASSUME NEW open \in BOOLEAN, HandlePaletteAction(open) PROVE StepTypes /\ SearchStep
  BY <1>10, <1>12 DEF HandlePaletteAction
<1>13. ASSUME ~ui.search.active PROVE ui.search.index = None
  BY <1>0, <1>13 DEF UiOK, SearchOK
<1>14. ASSUME NEW up \in BOOLEAN, ScrollPage(up) PROVE StepTypes /\ SearchStep
  <2> DEFINE o == IF up THEN AtMost(ui.offset + term.rows \div 2, Len(term.history))
                  ELSE SaturatingSub(ui.offset, term.rows \div 2)
  <2>1. ui' = [ui EXCEPT !.offset = o]
    BY <1>14 DEF ScrollPage, Scrolled
  <2>2. o \in 0..HistoryCap
    <3>1. /\ ui.offset \in 0..HistoryCap /\ term.rows \in Nat /\ Len(term.history) \in Nat
          /\ Len(term.history) <= HistoryCap /\ HistoryCap \in Nat
      BY <1>0, UiFields, ScreenAssumption DEF ScreenOK, Terms
    <3>2. term.rows \div 2 \in Nat BY <3>1
    <3> QED BY <3>1, <3>2 DEF AtMost, SaturatingSub
  <2> HIDE DEF o
  <2>3. UiOK(ui') /\ SameBut(ui', ui) /\ ui'.search = ui.search
    BY <1>0, <2>1, <2>2, UiWithOffset
  <2>4. LinesKept BY <1>0, <1>14, SilentKeeps DEF ScrollPage
  <2>5. SearchStep BY <1>0, <1>13, <1>14, <2>3, <2>4, SearchKept DEF ScrollPage, Idle
  <2> QED BY <1>0, <1>1, <1>2, <1>14, <2>3, <2>4, <2>5 DEF ScrollPage, StepTypes, UiTypes, LinesKept, SameBut
<1>15. ASSUME TypeKey PROVE StepTypes /\ SearchStep
  <2>1. ui' = [offset |-> ui.offset, palette |-> ui.palette, search |-> ui.search, pointer |-> ui.pointer,
               held |-> ui.held, selection |-> None]
    BY <1>0, <1>15, UiFields DEF TypeKey
  <2>2. UiOK(ui') BY <1>0, <2>1, UiFields, UiWithMouse
  <2>3. ui'.search = ui.search /\ ui'.held = ui.held /\ ui'.offset = ui.offset BY <2>1
  <2>4. LinesKept BY <1>0, <1>15, WritesKeeps DEF TypeKey
  <2>5. SearchStep BY <1>0, <2>3, <2>4, SearchKept
  <2> QED BY <1>0, <1>1, <1>2, <1>15, <2>2, <2>3, <2>4, <2>5 DEF TypeKey, StepTypes, UiTypes, LinesKept
<1>16. ASSUME CommitText PROVE StepTypes /\ SearchStep
  <2>1. LinesKept BY <1>0, <1>16, WritesKeeps DEF CommitText
  <2>2. SearchStep BY <1>0, <1>16, <2>1, SearchKept DEF CommitText
  <2> QED BY <1>0, <1>1, <1>2, <1>16, <2>1, <2>2 DEF CommitText, StepTypes, UiTypes, LinesKept
<1>17. ASSUME HandleClipboardPaste PROVE StepTypes /\ SearchStep
  <2>1. PICK written \in 0..3 :
          LET bracketed == modes.bracketedPaste /\ written > 0
          IN /\ told' = IF bracketed THEN [told EXCEPT !.paste = written < 3] ELSE told
             /\ disputed' = IF bracketed THEN [disputed EXCEPT !.paste = written < 3] ELSE disputed
             /\ Calls(written = 3, Unchanged(term), {})
    BY <1>17 DEF HandleClipboardPaste
  <2>2. LinesKept
    <3>1. (written = 3) \in BOOLEAN OBVIOUS
    <3>2. session' = session BY <1>17 DEF HandleClipboardPaste
    <3> QED BY <1>0, <2>1, <3>1, <3>2, CallsKeeps
  <2>3. SearchStep BY <1>0, <1>17, <2>2, SearchKept DEF HandleClipboardPaste
  <2>4. MouseTypes'
    <3> DEFINE open == written < 3
    <3>0. /\ open \in BOOLEAN
          /\ told' = told \/ told' = [told EXCEPT !.paste = open]
          /\ disputed' = disputed \/ disputed' = [disputed EXCEPT !.paste = open]
      BY <2>1
    <3> HIDE DEF open
    <3>1. /\ [told EXCEPT !.paste = open] \in Tellings /\ [told EXCEPT !.paste = open].down = told.down
          /\ [disputed EXCEPT !.paste = open] \in Tellings
          /\ [disputed EXCEPT !.paste = open].down = disputed.down
      BY <1>0, <3>0 DEF MouseTypes, Tellings
    <3>2. told' \in Tellings /\ told'.down = told.down BY <1>0, <3>0, <3>1 DEF MouseTypes
    <3>3. disputed' \in Tellings /\ disputed'.down = disputed.down BY <1>0, <3>0, <3>1 DEF MouseTypes
    <3> QED BY <1>0, <1>17, <3>2, <3>3 DEF MouseTypes, HandleClipboardPaste
  <2> QED BY <1>0, <1>1, <1>17, <2>2, <2>3, <2>4 DEF HandleClipboardPaste, StepTypes, UiTypes, LinesKept
<1> QED BY <1>4, <1>5, <1>7, <1>8, <1>9, <1>11, <1>12, <1>14, <1>15, <1>16, <1>17 DEF Keyboard

(* What a press, a release and a motion of the pointer make of the state of *)
(* the user's side.                                                         *)
LEMMA PressedUi ==
  ASSUME UiOK(ui), NEW b, PressButton(b)
  PROVE  ui' = [offset |-> ui.offset, palette |-> ui.palette, search |-> ui.search,
                pointer |-> ui.pointer, held |-> ui.held \cup {b},
                selection |-> IF Selects(b) THEN <<ui.pointer, ui.pointer>> ELSE ui.selection]
<1> DEFINE h == ui.held \cup {b}
           sel == IF Selects(b) THEN <<ui.pointer, ui.pointer>> ELSE ui.selection
           down == SetButtonState(ui, b, TRUE)
           range == <<ui.pointer, ui.pointer>>
<1>1. down = [offset |-> ui.offset, palette |-> ui.palette, search |-> ui.search, pointer |-> ui.pointer,
              held |-> h, selection |-> ui.selection]
  BY UiFields DEF SetButtonState
<1>2. ui' = IF Selects(b) THEN BeginSelection(down) ELSE down
  BY DEF PressButton
<1> HIDE DEF down, h
<1>3. down.pointer = ui.pointer /\ down = [down EXCEPT !.selection = ui.selection] BY <1>1
<1>4. BeginSelection(down) = [down EXCEPT !.selection = range]
  BY <1>3 DEF BeginSelection
<1>5. ui' = [down EXCEPT !.selection = sel] BY <1>2, <1>3, <1>4
<1> HIDE DEF sel, range
<1>6. ui' = [offset |-> ui.offset, palette |-> ui.palette, search |-> ui.search, pointer |-> ui.pointer,
             held |-> h, selection |-> sel]
  BY <1>1, <1>5
<1> QED BY <1>6 DEF h, sel

(* A release ends a selection that it copies.                               *)
LEMMA ReleasedUi ==
  ASSUME UiOK(ui), NEW b, ReleaseButton(b)
  PROVE  ui' = [offset |-> ui.offset, palette |-> ui.palette, search |-> ui.search,
                pointer |-> ui.pointer, held |-> ui.held \ {b},
                selection |-> IF Selects(b) /\ ui.selection # None THEN None ELSE ui.selection]
<1> DEFINE h == ui.held \ {b}
           sel == IF Selects(b) /\ ui.selection # None THEN None ELSE ui.selection
           up == SetButtonState(ui, b, FALSE)
<1>1. up = [ui EXCEPT !.held = h] BY DEF SetButtonState
<1>2. ui' = [up EXCEPT !.selection = IF Selects(b) /\ ui.selection # None THEN None ELSE @]
  BY DEF ReleaseButton
<1> HIDE DEF up, h
<1>3. up = [offset |-> ui.offset, palette |-> ui.palette, search |-> ui.search, pointer |-> ui.pointer,
            held |-> h, selection |-> ui.selection]
  BY <1>1, UiFields
<1>4. ui' = [up EXCEPT !.selection = sel] BY <1>2, <1>3
<1> HIDE DEF sel
<1>5. ui' = [offset |-> ui.offset, palette |-> ui.palette, search |-> ui.search, pointer |-> ui.pointer,
             held |-> h, selection |-> sel]
  BY <1>3, <1>4
<1> QED BY <1>5 DEF h, sel

(* A motion takes the end of a selection along while the button is down.    *)
LEMMA MovedUi ==
  ASSUME UiOK(ui), NEW cell, MovePointer(cell)
  PROVE  ui' = [offset |-> ui.offset, palette |-> ui.palette, search |-> ui.search,
                pointer |-> cell, held |-> ui.held,
                selection |-> IF Primary \in ui.held /\ Mouse = "Off" /\ ui.selection # None
                              THEN [ui.selection EXCEPT ![2] = cell] ELSE ui.selection]
<1> DEFINE sel == IF Primary \in ui.held /\ Mouse = "Off" /\ ui.selection # None
                  THEN [ui.selection EXCEPT ![2] = cell] ELSE ui.selection
           moved == [ui EXCEPT !.pointer = cell]
<1>1. moved = [offset |-> ui.offset, palette |-> ui.palette, search |-> ui.search, pointer |-> cell,
               held |-> ui.held, selection |-> ui.selection]
  BY UiFields
<1>2. ui' = IF Primary \in ui.held /\ Mouse = "Off" THEN UpdateSelection(moved) ELSE moved
  BY DEF MovePointer
<1> HIDE DEF moved
<1>3. moved.selection = ui.selection /\ moved.pointer = cell BY <1>1
<1>4. UpdateSelection(moved) = IF ui.selection = None THEN moved
                               ELSE [moved EXCEPT !.selection = [ui.selection EXCEPT ![2] = cell]]
  BY <1>3 DEF UpdateSelection
<1>5. moved = [moved EXCEPT !.selection = ui.selection] BY <1>1
<1>6. ui' = [moved EXCEPT !.selection = sel] BY <1>2, <1>4, <1>5
<1> HIDE DEF sel
<1>7. ui' = [offset |-> ui.offset, palette |-> ui.palette, search |-> ui.search, pointer |-> cell,
             held |-> ui.held, selection |-> sel]
  BY <1>1, <1>6
<1> QED BY <1>7 DEF sel

(* A button or the pointer, with nothing of the search: what is left is the *)
(* types of the gesture and of what the program is told of it.              *)
LEMMA GestureStep ==
  ASSUME SearchInv, KeepProgram, LinesKept, MouseTypes',
         NEW cell \in Cells, NEW h \in SUBSET session.buttons, NEW sel \in (Cells \X Cells) \cup {None},
         ui' = [offset |-> ui.offset, palette |-> ui.palette, search |-> ui.search, pointer |-> cell,
                held |-> h, selection |-> sel]
  PROVE  StepTypes /\ SearchStep
<1>1. /\ ProgramTypes /\ SearchIsFresh /\ ViewFollows /\ session \in Sessions /\ UiOK(ui)
  BY DEF SearchInv, Types, UiTypes, ProgramTypes
<1>2. h \in SUBSET (0..2) BY <1>1, SessionFacts
<1>3. UiOK(ui') BY <1>1, <1>2, UiWithMouse
<1>4. ui'.search = ui.search /\ ui'.held = h /\ ui'.offset = ui.offset OBVIOUS
<1>5. SearchStep BY <1>1, <1>4, SearchKept
<1> QED BY <1>1, <1>3, <1>4, <1>5 DEF StepTypes, LinesKept, UiTypes, ProgramTypes, KeepProgram

(* The mouse keeps the types and the search in step with the lines.         *)
LEMMA MouseStep ==
  ASSUME SearchInv, MouseEvents
  PROVE  StepTypes /\ SearchStep
<1>0. /\ ScreenTypes /\ UiTypes /\ ProgramTypes /\ MouseTypes /\ SearchIsFresh /\ ViewFollows
      /\ session \in Sessions /\ UiOK(ui) /\ ui.held \subseteq session.buttons /\ ScreenOK(term)
  BY DEF SearchInv, Types, ScreenTypes, UiTypes, ProgramTypes
<1>1. /\ ui.pointer \in Cells /\ ui.selection \in (Cells \X Cells) \cup {None}
      /\ <<ui.pointer, ui.pointer>> \in Cells \X Cells
      /\ pressed \in Cells
  BY <1>0, UiFields DEF MouseTypes
<1>2. ASSUME NEW b \in session.buttons, NEW isPress \in BOOLEAN, KeepProgram, pressed' \in Cells,
             ReportButton(b, isPress) \/ NoReport
      PROVE  LinesKept /\ MouseTypes'
  <2>1. session' = session BY <1>2 DEF KeepProgram
  <2>2. CASE ReportButton(b, isPress) BY <1>0, <1>2, <2>1, <2>2, ReportKeeps
  <2>3. CASE NoReport
    <3>1. LinesKept BY <1>0, <2>1, <2>3, SilentKeeps DEF NoReport
    <3> QED BY <1>0, <1>2, <2>1, <2>3, <3>1 DEF NoReport, MouseTypes
  <2> QED BY <1>2, <2>2, <2>3
<1>3. ASSUME NEW b \in session.buttons, PressButton(b) PROVE StepTypes /\ SearchStep
  <2> DEFINE h == ui.held \cup {b}
             sel == IF Selects(b) THEN <<ui.pointer, ui.pointer>> ELSE ui.selection
  <2>1. ui' = [offset |-> ui.offset, palette |-> ui.palette, search |-> ui.search, pointer |-> ui.pointer,
               held |-> h, selection |-> sel]
    BY <1>0, <1>3, PressedUi
  <2>2. sel \in (Cells \X Cells) \cup {None} /\ h \in SUBSET session.buttons BY <1>0, <1>1
  <2>3. pressed' \in Cells BY <1>1, <1>3 DEF PressButton
  <2>4. (ReportButton(b, TRUE) \/ NoReport) /\ KeepProgram BY <1>3 DEF PressButton
  <2>5. LinesKept /\ MouseTypes' BY <1>2, <2>3, <2>4
  <2> HIDE DEF h, sel
  <2> QED BY <1>1, <2>1, <2>2, <2>4, <2>5, GestureStep
<1>4. ASSUME NEW b \in session.buttons, ReleaseButton(b) PROVE StepTypes /\ SearchStep
  <2> DEFINE h == ui.held \ {b}
             sel == IF Selects(b) /\ ui.selection # None THEN None ELSE ui.selection
  <2>1. ui' = [offset |-> ui.offset, palette |-> ui.palette, search |-> ui.search, pointer |-> ui.pointer,
               held |-> h, selection |-> sel]
    BY <1>0, <1>4, ReleasedUi
  <2>2. sel \in (Cells \X Cells) \cup {None} /\ h \in SUBSET session.buttons BY <1>0, <1>1
  <2>3. pressed' \in Cells BY <1>1, <1>4 DEF ReleaseButton
  <2>4. (ReportButton(b, FALSE) \/ NoReport) /\ KeepProgram BY <1>4 DEF ReleaseButton
  <2>5. LinesKept /\ MouseTypes' BY <1>2, <2>3, <2>4
  <2> HIDE DEF h, sel
  <2> QED BY <1>1, <2>1, <2>2, <2>4, <2>5, GestureStep
<1>5. ASSUME NEW cell \in session.cells, MovePointer(cell) PROVE StepTypes /\ SearchStep
  <2> DEFINE sel == IF Primary \in ui.held /\ Mouse = "Off" /\ ui.selection # None
                    THEN [ui.selection EXCEPT ![2] = cell] ELSE ui.selection
  <2>1. cell \in Cells BY <1>0, <1>5, SessionFacts
  <2>2. ui' = [offset |-> ui.offset, palette |-> ui.palette, search |-> ui.search, pointer |-> cell,
               held |-> ui.held, selection |-> sel]
    BY <1>0, <1>5, MovedUi
  <2>3. sel \in (Cells \X Cells) \cup {None} BY <1>1, <2>1
  <2>4. (Writes \/ Silent) /\ KeepMouse /\ KeepProgram BY <1>5 DEF MovePointer
  <2>5. LinesKept
    <3>1. session' = session BY <2>4 DEF KeepProgram
    <3> QED BY <1>0, <2>4, <3>1, WritesKeeps, SilentKeeps
  <2>6. MouseTypes' BY <1>0, <2>4 DEF MouseTypes, KeepMouse, KeepProgram
  <2> HIDE DEF sel
  <2> QED BY <1>0, <2>1, <2>2, <2>3, <2>4, <2>5, <2>6, GestureStep
<1>6. ASSUME NEW up \in BOOLEAN, Wheel(up) PROVE StepTypes /\ SearchStep
  <2>0. KeepMouse /\ KeepProgram /\ session' = session BY <1>6 DEF Wheel, KeepProgram
  <2>1. MouseTypes' /\ ProgramTypes' BY <1>0, <2>0 DEF MouseTypes, ProgramTypes, KeepMouse, KeepProgram
  <2>2. CASE Writes /\ UNCHANGED ui
    <3>1. LinesKept BY <1>0, <2>0, <2>2, WritesKeeps
    <3>2. SearchStep BY <1>0, <2>2, <3>1, SearchKept
    <3> QED BY <1>0, <2>0, <2>1, <2>2, <3>1, <3>2 DEF StepTypes, UiTypes, LinesKept
  <2>3. CASE /\ ui' = Scrolled(ui, up, 1) /\ since' = since \cup {"wheel"}
             /\ term' = Unchanged(term) /\ UNCHANGED degraded
    <3> DEFINE o == IF up THEN AtMost(ui.offset + 1, Len(term.history)) ELSE SaturatingSub(ui.offset, 1)
    <3>1. ui' = [ui EXCEPT !.offset = o]
      BY <2>3 DEF Scrolled
    <3>2. o \in 0..HistoryCap
      <4>1. /\ ui.offset \in 0..HistoryCap /\ Len(term.history) \in Nat
            /\ Len(term.history) <= HistoryCap /\ HistoryCap \in Nat
        BY <1>0, UiFields, ScreenAssumption DEF ScreenOK, Terms
      <4> QED BY <4>1 DEF AtMost, SaturatingSub
    <3> HIDE DEF o
    <3>3. UiOK(ui') /\ SameBut(ui', ui) /\ ui'.search = ui.search
      BY <1>0, <3>1, <3>2, UiWithOffset
    <3>4. ScreenTypes' /\ term'.history = term.history /\ term'.grid = term.grid
      BY <1>0, <2>0, <2>3, UnchangedScreen DEF ScreenTypes
    <3>5. Search(term', ui.search.query) = Search(term, ui.search.query) BY <3>4, SameSearch
    <3>6. since' \cap {"notice", "resize"} = since \cap {"notice", "resize"} BY <2>3
    <3>7. SearchIsFresh' BY <1>0, <3>3, <3>5, <3>6 DEF SearchIsFresh
    <3>8. ViewFollows' BY <2>3 DEF ViewFollows
    <3> QED BY <1>0, <2>0, <2>1, <3>3, <3>4, <3>7, <3>8 DEF StepTypes, UiTypes, SearchStep, SameBut
  <2> QED BY <1>6, <2>2, <2>3 DEF Wheel
<1> QED BY <1>3, <1>4, <1>5, <1>6 DEF MouseEvents

(* What the program writes leaves lines of the screen in as many rows, and  *)
(* the user's side follows them.                                            *)
Writing == ProgramPrints \/ ProgramRewrites \/ ProgramErasesHistory \/ ProgramSetsModes

LEMMA OutputScreen ==
  ASSUME ScreenTypes, session \in Sessions, Writing
  PROVE  /\ ScreenOK(term') /\ term'.rows = term.rows /\ ui' = AfterOutput(ui, term')
         /\ since' = IF ui.search.active THEN {} ELSE since
         /\ UNCHANGED <<session, sizes, degraded, clipboard, pressed, refused>>
<1>0. ScreenOK(term) BY DEF ScreenTypes
<1>1. ASSUME NEW t, ScreenOK(t), t.rows = term.rows, Output(t)
      PROVE  /\ ScreenOK(term') /\ term'.rows = term.rows /\ ui' = AfterOutput(ui, term')
             /\ since' = IF ui.search.active THEN {} ELSE since
             /\ UNCHANGED <<session, sizes, degraded, clipboard, pressed, refused>>
  BY <1>1 DEF Output
<1>3. ScreenOK(Unchanged(term)) /\ Unchanged(term).rows = term.rows /\ Unchanged(term).grid = term.grid
  BY <1>0, UnchangedScreen
<1>4. CASE ProgramPrints
  <2>1. PICK text \in session.texts : Output(PrintLine(Unchanged(term), text))
    BY <1>4 DEF ProgramPrints
  <2>2. text \in Texts BY <2>1, SessionFacts
  <2>3. /\ ScreenOK(PrintLine(Unchanged(term), text))
        /\ PrintLine(Unchanged(term), text).rows = term.rows
    BY <1>3, <2>2, PrintedLine
  <2> QED BY <1>1, <2>1, <2>3
<1>5. CASE ProgramRewrites
  <2>1. PICK row \in DOMAIN term.grid, text \in session.texts :
          Output([Unchanged(term) EXCEPT !.grid[row] = text])
    BY <1>5 DEF ProgramRewrites
  <2> DEFINE t == Unchanged(term)  g == [t.grid EXCEPT ![row] = text]  r == [t EXCEPT !.grid[row] = text]
  <2>2. text \in Texts BY <2>1, SessionFacts
  <2>3. t.grid \in Seq(Texts) /\ row \in 1..Len(t.grid)
    BY <1>3, <2>1 DEF ScreenOK, Terms
  <2>4. g \in Seq(Texts) /\ Len(g) = Len(t.grid) BY <2>2, <2>3, ExceptSeq
  <2>5. ScreenOK(t) /\ t.rows = term.rows BY <1>3
  <2>6. r = [t EXCEPT !.grid = g] OBVIOUS
  <2> HIDE DEF g, t
  <2>7. r = [history |-> t.history, grid |-> g, rows |-> t.rows, evicted |-> t.evicted]
    BY <2>5, <2>6, SMTT(30) DEF ScreenOK, Terms
  <2>8. Output(r) BY <2>1 DEF t
  <2> HIDE DEF r
  <2>9. ScreenOK(r) /\ r.rows = term.rows BY <2>4, <2>5, <2>7 DEF ScreenOK, Terms
  <2> QED BY <1>1, <2>8, <2>9
<1>6. CASE ProgramErasesHistory
  <2> DEFINE n == Len(term.history)  e == <<>>  r == [term EXCEPT !.history = e, !.evicted = n]
  <2>1. Output(r) BY <1>6 DEF ProgramErasesHistory
  <2>2. n \in Nat /\ e \in Seq(Texts) /\ Len(e) = 0 BY <1>0 DEF ScreenOK, Terms
  <2> HIDE DEF n, e
  <2>3. /\ r \in Terms /\ r.history = e /\ r.grid = term.grid /\ r.rows = term.rows
    BY <1>0, <2>2 DEF ScreenOK, Terms
  <2> HIDE DEF r
  <2>4. ScreenOK(r) /\ r.rows = term.rows BY <1>0, <2>2, <2>3, ScreenAssumption DEF ScreenOK
  <2> QED BY <1>1, <2>1, <2>4
<1>7. CASE ProgramSetsModes
  <2>1. Output(Unchanged(term)) BY <1>7 DEF ProgramSetsModes
  <2> QED BY <1>1, <1>3, <2>1
<1> QED BY <1>4, <1>5, <1>6, <1>7 DEF Writing

(* The program, the runtime and the window do.                              *)
LEMMA EnvironmentStep ==
  ASSUME SearchInv, Environment
  PROVE  StepTypes /\ SearchStep
<1>0. /\ ScreenTypes /\ UiTypes /\ ProgramTypes /\ MouseTypes /\ SearchIsFresh /\ ViewFollows
      /\ session \in Sessions /\ UiOK(ui) /\ ui.held \subseteq session.buttons /\ ScreenOK(term)
      /\ term.rows \in session.sizes
  BY DEF SearchInv, Types, ScreenTypes, UiTypes, ProgramTypes
<1>1. ASSUME Writing PROVE ScreenTypes' /\ UiTypes' /\ SearchStep
  <2>1. /\ session' = session /\ degraded' = degraded /\ ui' = AfterOutput(ui, term')
        /\ since' = IF ui.search.active THEN {} ELSE since
        /\ ScreenOK(term') /\ term'.rows = term.rows
    BY <1>0, <1>1, OutputScreen
  <2>2. ScreenTypes' BY <1>0, <2>1 DEF ScreenTypes
  <2>3. CASE ui.search.active
    <3>1. ui' = Refreshed(ui, term', FALSE) BY <2>1, <2>3 DEF AfterOutput
    <3>2. UiOK(ui') /\ SameBut(ui', ui) BY <1>0, <2>1, <3>1, RefreshedUi
    <3>3. SearchStep BY <1>0, <2>1, <2>3, <3>1, SearchRefreshed
    <3> QED BY <1>0, <2>1, <2>2, <3>2, <3>3 DEF UiTypes, SameBut
  <2>4. CASE ~ui.search.active
    <3> DEFINE u == [ui EXCEPT !.offset = 0]
    <3>1. 0 \in 0..HistoryCap BY ScreenAssumption
    <3>2. UiOK(u) /\ SameBut(u, ui) /\ u.search = ui.search BY <1>0, <3>1, UiWithOffset
    <3>3. ui' = u BY <2>1, <2>4, <3>2 DEF AfterOutput, Refreshed
    <3> HIDE DEF u
    <3>4. ui.search.index = None BY <1>0, <2>4 DEF UiOK, SearchOK
    <3>5. SearchStep BY <2>4, <3>2, <3>3, <3>4 DEF SearchStep, SearchIsFresh, ViewFollows
    <3> QED BY <1>0, <2>1, <2>2, <3>2, <3>3, <3>5 DEF UiTypes, SameBut
  <2> QED BY <2>3, <2>4
<1>2. ASSUME NEW t, Output(t), UNCHANGED <<modes, told, disputed>>
      PROVE  ProgramTypes' /\ MouseTypes'
  BY <1>0, <1>2 DEF Output, ProgramTypes, MouseTypes
<1>3. ScreenOK(Unchanged(term)) /\ Unchanged(term).rows = term.rows
  BY <1>0, UnchangedScreen
<1>4. CASE ProgramPrints \/ ProgramRewrites \/ ProgramErasesHistory
  <2>1. ProgramTypes' /\ MouseTypes'
    BY <1>2, <1>4 DEF ProgramPrints, ProgramRewrites, ProgramErasesHistory
  <2> QED BY <1>1, <1>4, <2>1 DEF Writing, StepTypes
<1>7. CASE ProgramSetsModes
  <2>1. PICK m \in session.modes \ {modes} :
          /\ Output(Unchanged(term)) /\ modes' = m
          /\ told' = [told EXCEPT !.down = {}] /\ disputed' = [disputed EXCEPT !.down = ui.held]
    BY <1>7 DEF ProgramSetsModes
  <2>2. ProgramTypes' BY <1>0, <2>1 DEF ProgramTypes, Output
  <2>3. MouseTypes'
    <3>1. ui.held \in SUBSET (0..2) BY <1>0, UiFields
    <3>2. told' \in Tellings /\ told'.down = {} BY <1>0, <2>1 DEF MouseTypes, Tellings
    <3>3. disputed' \in Tellings /\ disputed'.down = ui.held BY <1>0, <2>1, <3>1 DEF MouseTypes, Tellings
    <3> QED BY <1>0, <2>1, <3>2, <3>3 DEF MouseTypes, Output
  <2> QED BY <1>1, <1>7, <2>2, <2>3 DEF Writing, StepTypes
<1>8. ASSUME RuntimeNotice PROVE StepTypes /\ SearchStep
  <2>1. session' = session /\ Notices /\ ui' = ui /\ KeepMouse /\ KeepProgram
    BY <1>8 DEF RuntimeNotice, KeepProgram
  <2>2. LinesKept BY <1>0, <2>1, NoticesKeeps
  <2>3. SearchStep BY <1>0, <2>1, <2>2, SearchKept
  <2>4. ProgramTypes' /\ MouseTypes'
    BY <1>0, <2>1 DEF ProgramTypes, MouseTypes, KeepMouse, KeepProgram
  <2> QED BY <1>0, <2>1, <2>2, <2>3, <2>4 DEF StepTypes, UiTypes, LinesKept
<1>9. ASSUME NEW rows \in session.sizes, UpdateViewportGeometry(rows) PROVE StepTypes /\ SearchStep
  <2> DEFINE changed == rows # sizes.geometry
             t == SetRows(Unchanged(term), rows)
  <2>1. PICK ok \in (IF changed THEN Outcomes ELSE {TRUE}) :
          /\ sizes' = [window |-> rows,
                       geometry |-> IF ok THEN rows ELSE sizes.geometry,
                       pty |-> IF ok THEN rows ELSE sizes.pty]
          /\ refused' = IF changed THEN ~ok ELSE refused
          /\ IF changed THEN Calls(ok, t, {"resize"}) ELSE Silent
    BY <1>9 DEF UpdateViewportGeometry
  <2>2. ok \in BOOLEAN BY <1>0, <2>1, SessionFacts
  <2>3. session' = session /\ modes' = modes /\ ui' = ui /\ KeepMouse
    BY <1>9 DEF UpdateViewportGeometry
  <2>4. ProgramTypes' BY <1>0, <1>9, <2>1, <2>2, <2>3 DEF ProgramTypes
  <2>5. MouseTypes' /\ UiTypes' BY <1>0, <2>3 DEF MouseTypes, UiTypes, KeepMouse
  <2>6. CASE changed
    <3>1. rows \in Nat \ {0} BY <1>0, <1>9, SessionFacts
    <3>2. ScreenOK(t) /\ t.rows \in session.sizes BY <1>3, <1>9, <3>1, ResizedScreen
    <3> DEFINE happened == {"resize"}
    <3>3. Calls(ok, t, happened) /\ happened \in SUBSET {"wheel", "notice", "resize"} BY <2>1, <2>6
    <3> HIDE DEF t, happened
    <3>4. ScreenTypes' /\ since \cup happened \subseteq since' BY <1>0, <2>2, <2>3, <3>2, <3>3, CallsScreen
    <3>5. "resize" \in since' BY <3>4 DEF happened
    <3>6. SearchStep BY <3>5 DEF SearchStep, SearchIsFresh, ViewFollows
    <3> QED BY <2>4, <2>5, <3>4, <3>6 DEF StepTypes
  <2>7. CASE ~changed
    <3>1. LinesKept BY <1>0, <2>1, <2>3, <2>7, SilentKeeps
    <3>2. SearchStep BY <1>0, <2>3, <3>1, SearchKept
    <3> QED BY <2>4, <2>5, <3>1, <3>2 DEF StepTypes, LinesKept
  <2> QED BY <2>6, <2>7
<1> QED BY <1>4, <1>7, <1>8, <1>9 DEF Environment

(* The runtime starts with one blank line and no search.                    *)
LEMMA InitSearchInv == Init => SearchInv
<1> SUFFICES ASSUME Init PROVE SearchInv
  OBVIOUS
<1>1. session \in Sessions /\ session.rows \in session.sizes /\ session.rows \in Nat \ {0}
  BY SessionFacts DEF Init
<1>2. ScreenTypes
  <2> DEFINE e == <<>>  g == <<e>>
  <2>1. e \in Seq(Texts) /\ Len(e) = 0 /\ g \in Seq(Texts) /\ Len(g) = 1
    <3>1. <<>> \in Texts BY ScreenAssumption DEF Texts
    <3> QED BY <3>1
  <2>2. term = [history |-> e, grid |-> g, rows |-> session.rows, evicted |-> 0]
    BY DEF Init
  <2> HIDE DEF e, g
  <2>3. term \in Terms /\ term.history = e /\ term.grid = g /\ term.rows = session.rows
    BY <1>1, <2>1, <2>2 DEF Terms
  <2>4. ScreenOK(term)
    <3>1. HistoryCap \in Nat BY ScreenAssumption
    <3>2. Len(term.history) <= HistoryCap BY <2>1, <2>3, <3>1
    <3>3. Len(term.grid) = 1 /\ term.rows \in Nat \ {0} BY <1>1, <2>1, <2>3
    <3>4. Len(term.grid) \in 1..term.rows BY <3>3
    <3> QED BY <2>3, <3>2, <3>4 DEF ScreenOK
  <2> QED BY <1>1, <2>3, <2>4 DEF Init, ScreenTypes
<1>3. UiTypes /\ ui.search = NoSearch
  <2> DEFINE none == {}  cell == <<0, 0>>
  <2>1. none \in SUBSET (0..2) /\ none \subseteq session.buttons OBVIOUS
  <2>2. cell \in Cells BY ScreenAssumption DEF Cells
  <2>3. 0 \in 0..HistoryCap BY ScreenAssumption
  <2>4. SearchOK(NoSearch) /\ NoSearch \in Searches /\ ~NoSearch.active
    BY NoSearchOK DEF Exited, SearchOK, NoSearch
  <2>5. PICK closed \in BOOLEAN :
          ~closed /\ ui = [offset |-> 0, palette |-> closed, search |-> NoSearch,
                          pointer |-> cell, held |-> none, selection |-> None]
    BY DEF Init
  <2> HIDE DEF none, cell
  <2>6. ui \in Uis BY <2>1, <2>2, <2>3, <2>4, <2>5 DEF Uis
  <2>7. ui.search = NoSearch /\ ui.held = none /\ ui.palette = closed BY <2>5
  <2>8. UiOK(ui) BY <2>4, <2>5, <2>6, <2>7 DEF UiOK
  <2> QED BY <2>1, <2>7, <2>8 DEF UiTypes
<1>4. ProgramTypes BY <1>1 DEF Init, ProgramTypes
<1>5. MouseTypes
  <2>1. told \in Tellings /\ disputed \in Tellings /\ told.down = {} /\ disputed.down = {}
    BY DEF Init, Tellings
  <2>2. pressed \in Cells BY ScreenAssumption DEF Init, Cells
  <2> QED BY <2>1, <2>2 DEF MouseTypes
<1>6. SearchIsFresh /\ ViewFollows
  BY <1>3 DEF SearchIsFresh, ViewFollows, NoSearch
<1>7. strayed \in BOOLEAN BY DEF Init
<1> QED BY <1>2, <1>3, <1>4, <1>5, <1>6, <1>7 DEF SearchInv, Types

(* Every step keeps the types and the search in step with the lines.        *)
LEMMA NextSearchInv == SearchInv /\ [Next]_vars => SearchInv'
<1> SUFFICES ASSUME SearchInv, [Next]_vars PROVE SearchInv'
  OBVIOUS
<1>1. CASE Next
  <2>1. StepTypes /\ SearchStep
    BY <1>1, KeyboardStep, MouseStep, EnvironmentStep DEF Next
  <2>2. strayed' \in BOOLEAN BY <1>1 DEF Next, Strays
  <2> QED BY <2>1, <2>2 DEF SearchInv, Types, StepTypes, SearchStep
<1>2. CASE UNCHANGED vars
  <2>1. ActiveMatch(ui)' = ActiveMatch(ui) BY <1>2 DEF vars, ActiveMatch
  <2>2. Search(term', ui.search.query) = Search(term, ui.search.query) BY <1>2 DEF vars
  <2> QED BY <1>2, <2>1, <2>2 DEF vars, SearchInv, Types, ScreenTypes, UiTypes, ProgramTypes, MouseTypes,
        SearchIsFresh, ViewFollows
<1> QED BY <1>1, <1>2

(* The invariant the other proofs rest on.                                  *)
THEOREM SearchInvariance == Spec => []SearchInv
<1>1. Init => SearchInv BY InitSearchInv
<1>2. SearchInv /\ [Next]_vars => SearchInv' BY NextSearchInv
<1> QED BY <1>1, <1>2, PTL DEF Spec

(* The search belongs to the lines: the types and the matches are as the    *)
(* run checks them.                                                         *)
LEMMA SearchInvIsSound == SearchInv => SearchIsSound
<1> SUFFICES ASSUME SearchInv PROVE SearchIsSound
  OBVIOUS
<1>1. /\ ScreenTypes /\ UiTypes /\ ProgramTypes /\ MouseTypes /\ SearchIsFresh /\ strayed \in BOOLEAN
      /\ UiOK(ui) /\ ScreenOK(term)
  BY DEF SearchInv, Types, ScreenTypes, UiTypes
<1>2. \A i \in DOMAIN Lines(term) : Len(Lines(term)[i]) <= Cols
  <2>1. DOMAIN Lines(term) = 1..Len(Lines(term)) BY <1>1, LinesOfScreen, LenProperties
  <2> QED BY <1>1, <2>1, LinesOfScreen
<1>3. Len(term.history) <= HistoryCap /\ Len(term.grid) \in 1..term.rows /\ term.rows \in session.sizes
  BY <1>1 DEF ScreenOK, ScreenTypes
<1>4. sizes.window \in session.sizes /\ session \in Sessions /\ modes \in session.modes
      /\ {degraded, strayed, refused} \subseteq BOOLEAN
  BY <1>1 DEF ProgramTypes, ScreenTypes
<1>5. /\ ui.offset \in 0..HistoryCap /\ ui.held \subseteq session.buttons /\ IsCell(ui.pointer)
      /\ ui.selection # None => IsCell(ui.selection[1]) /\ IsCell(ui.selection[2])
      /\ ~(ui.palette /\ ui.search.active)
  BY <1>1, UiFields DEF UiTypes, IsCell, Cells
<1>6. IF ui.search.matches = <<>> THEN ui.search.index = None
      ELSE ui.search.active /\ ui.search.index \in DOMAIN ui.search.matches
  <2>1. ui.search.matches \in Seq(Cells) BY <1>1 DEF UiOK, SearchOK, Searches
  <2> QED BY <1>1, <2>1 DEF UiOK, SearchOK
<1>7. told.down \cup disputed.down \subseteq session.buttons BY <1>1 DEF MouseTypes
<1>8. TypeOK BY <1>2, <1>3, <1>4, <1>5, <1>6, <1>7 DEF TypeOK
<1> QED BY <1>1, <1>8 DEF SearchIsSound

(* What the user steers has its types, and the matches of a search are      *)
(* those of its query in the lines there are (refresh_search_results).      *)
THEOREM SearchSoundness == Spec => []SearchIsSound
BY SearchInvariance, SearchInvIsSound, PTL

----------------------------------------------------------------------------
(* Selections, reports and sizes.                                           *)

(* A step that touches neither the buttons nor the pointer, and leaves or   *)
(* ends the selection.                                                      *)
Calm ==
  /\ ui'.selection \in {ui.selection, None} /\ ui'.held = ui.held /\ ui'.pointer = ui.pointer
  /\ UNCHANGED <<pressed, clipboard>>

(* The search and the view follow each other, and leave the rest alone.     *)
UiShape(u) == \E o, p, se, c, h, sel : u = [offset |-> o, palette |-> p, search |-> se, pointer |-> c,
                                           held |-> h, selection |-> sel]

(* The state of the user's side is such a record.                           *)
LEMMA ShapeOfUi == SearchInv => UiShape(ui)
BY UiFields DEF SearchInv, Types, UiTypes, UiShape

(* Replacing the offset or the search leaves the rest alone.                *)
LEMMA FieldReplaced ==
  ASSUME NEW u, UiShape(u), NEW x
  PROVE  /\ UiShape([u EXCEPT !.offset = x]) /\ SameBut([u EXCEPT !.offset = x], u)
         /\ UiShape([u EXCEPT !.search = x]) /\ SameBut([u EXCEPT !.search = x], u)
<1>1. PICK o, p, se, c, h, sel : u = [offset |-> o, palette |-> p, search |-> se, pointer |-> c,
                                     held |-> h, selection |-> sel]
  BY DEF UiShape
<1>2. [u EXCEPT !.offset = x] = [offset |-> x, palette |-> p, search |-> se, pointer |-> c,
                                 held |-> h, selection |-> sel]
  BY <1>1
<1>3. [u EXCEPT !.search = x] = [offset |-> o, palette |-> p, search |-> x, pointer |-> c,
                                 held |-> h, selection |-> sel]
  BY <1>1
<1> DEFINE v == [u EXCEPT !.offset = x]  w == [u EXCEPT !.search = x]
<1> HIDE DEF v, w
<1>4. UiShape(v) /\ UiShape(w)
  <2>1. UiShape(v) BY <1>2, Zenon DEF UiShape, v
  <2>2. UiShape(w) BY <1>3, Zenon DEF UiShape, w
  <2> QED BY <2>1, <2>2
<1>5. SameBut(v, u) /\ SameBut(w, u) BY <1>1, <1>2, <1>3 DEF SameBut, v, w
<1> QED BY <1>4, <1>5 DEF v, w

(* So does aligning the view.                                               *)
LEMMA AlignedShape ==
  ASSUME NEW u, UiShape(u), NEW t
  PROVE  UiShape(Aligned(u, t)) /\ SameBut(Aligned(u, t), u)
BY FieldReplaced DEF Aligned, SameBut

(* So does a refresh.                                                       *)
LEMMA RefreshedShape ==
  ASSUME NEW u, UiShape(u), NEW t, NEW reset
  PROVE  UiShape(Refreshed(u, t, reset)) /\ SameBut(Refreshed(u, t, reset), u)
<1> DEFINE found == IF u.search.query = <<>> \/ ~IsRegex(u.search.query) THEN <<>>
                    ELSE Search(t, u.search.query)
           s == SetMatches(u.search, found, reset)
           v == [u EXCEPT !.search = s]
<1>1. Refreshed(u, t, reset) = IF u.search.active THEN Aligned(v, t) ELSE u
  BY DEF Refreshed
<1> HIDE DEF s
<1>2. UiShape(v) /\ SameBut(v, u) BY FieldReplaced
<1> HIDE DEF v
<1>3. UiShape(Aligned(v, t)) /\ SameBut(Aligned(v, t), v) BY <1>2, AlignedShape
<1> QED BY <1>1, <1>2, <1>3 DEF SameBut

(* The keyboard touches neither buttons nor pointer.                        *)
LEMMA KeyboardIsCalm ==
  ASSUME SearchInv, Keyboard
  PROVE  Calm /\ KeepProgram
<1>0. UiShape(ui) /\ ui \in Uis BY ShapeOfUi DEF SearchInv, Types, UiTypes, UiOK
<1>1. ASSUME NEW u, SameBut(u, ui), SameBut(ui', u), KeepMouse PROVE Calm
  BY <1>1 DEF SameBut, Calm, KeepMouse
<1>2. CASE OpenSearch BY <1>0, <1>2 DEF OpenSearch, Uis, Calm, KeepMouse
<1>3. CASE CloseSearch
  <2>1. SameBut(ui', ui) BY <1>0, <1>3, FieldReplaced DEF CloseSearch
  <2> QED BY <1>3, <2>1 DEF CloseSearch, SameBut, Calm, KeepMouse
<1>4. ASSUME NEW query, SetQuery(query) PROVE Calm /\ KeepProgram
  <2> DEFINE u == [ui EXCEPT !.search.query = query]
             s == [ui.search EXCEPT !.query = query]
  <2>1. u = [ui EXCEPT !.search = s] OBVIOUS
  <2> HIDE DEF s
  <2>2. UiShape(u) /\ SameBut(u, ui) BY <1>0, <2>1, FieldReplaced
  <2>3. ui' = Refreshed(u, term, TRUE) BY <1>4 DEF SetQuery
  <2> HIDE DEF u
  <2>4. SameBut(ui', u) BY <2>2, <2>3, RefreshedShape
  <2> QED BY <1>1, <1>4, <2>2, <2>4 DEF SetQuery
<1>5. ASSUME NEW reverse \in BOOLEAN, MoveSearchMatch(reverse) PROVE Calm /\ KeepProgram
  <2> DEFINE s == IF reverse THEN RetreatMatch(ui.search) ELSE AdvanceMatch(ui.search)
             u == [ui EXCEPT !.search = s]
  <2>1. ui' = Aligned(u, term) BY <1>5 DEF MoveSearchMatch
  <2> HIDE DEF s
  <2>2. UiShape(u) /\ SameBut(u, ui) BY <1>0, FieldReplaced
  <2> HIDE DEF u
  <2>3. SameBut(ui', u) BY <2>1, <2>2, AlignedShape
  <2> QED BY <1>1, <1>5, <2>2, <2>3 DEF MoveSearchMatch
<1>6. CASE TogglePalette BY <1>0, <1>6 DEF TogglePalette, Uis, Calm, KeepMouse
<1>7. ASSUME NEW open \in BOOLEAN, HandlePaletteAction(open) PROVE Calm /\ KeepProgram
  BY <1>0, <1>7 DEF HandlePaletteAction, Uis, Calm, KeepMouse
<1>8. ASSUME NEW up \in BOOLEAN, ScrollPage(up) PROVE Calm /\ KeepProgram
  BY <1>0, <1>8, FieldReplaced DEF ScrollPage, Scrolled, SameBut, Calm, KeepMouse
<1>9. CASE TypeKey BY <1>0, <1>9 DEF TypeKey, Uis, Calm, KeepMouse
<1>10. CASE CommitText BY <1>10 DEF CommitText, Calm, KeepMouse
<1>11. CASE HandleClipboardPaste BY <1>11 DEF HandleClipboardPaste, Calm
<1>12. OpenSearch \/ CloseSearch \/ TogglePalette \/ TypeKey \/ CommitText \/ HandleClipboardPaste => KeepProgram
  BY DEF OpenSearch, CloseSearch, TogglePalette, TypeKey, CommitText, HandleClipboardPaste
<1>13. AppendSearchText \/ PopSearchText => Calm /\ KeepProgram
  BY <1>4 DEF AppendSearchText, PopSearchText
<1> QED BY <1>2, <1>3, <1>5, <1>6, <1>7, <1>8, <1>9, <1>10, <1>11, <1>12, <1>13 DEF Keyboard

(* Nor does what happens around the user.                                   *)
LEMMA EnvironmentIsCalm ==
  ASSUME SearchInv, Environment
  PROVE  Calm
<1>0. UiShape(ui) BY ShapeOfUi
<1>1. ASSUME NEW t, Output(t) PROVE Calm
  <2> DEFINE u == IF ui.search.active THEN ui ELSE [ui EXCEPT !.offset = 0]
  <2>1. UiShape(u) /\ SameBut(u, ui) BY <1>0, FieldReplaced DEF SameBut
  <2>2. ui' = Refreshed(u, t, FALSE) BY <1>1 DEF Output, AfterOutput
  <2> HIDE DEF u
  <2>3. SameBut(ui', u) BY <2>1, <2>2, RefreshedShape
  <2> QED BY <1>1, <2>1, <2>3 DEF Output, SameBut, Calm
<1>2. CASE ProgramPrints BY <1>1, <1>2 DEF ProgramPrints
<1>3. CASE ProgramRewrites BY <1>1, <1>3 DEF ProgramRewrites
<1>4. CASE ProgramErasesHistory BY <1>1, <1>4 DEF ProgramErasesHistory
<1>5. CASE ProgramSetsModes BY <1>1, <1>5 DEF ProgramSetsModes
<1>6. CASE RuntimeNotice BY <1>6 DEF RuntimeNotice, KeepMouse, Calm
<1>7. ASSUME NEW rows \in session.sizes, UpdateViewportGeometry(rows) PROVE Calm
  BY <1>7 DEF UpdateViewportGeometry, KeepMouse, Calm
<1> QED BY <1>2, <1>3, <1>4, <1>5, <1>6, <1>7 DEF Environment

SelectionStep ==
  /\ ui'.selection # None /\ Primary \notin ui'.held => strayed'
  /\ clipboard' # clipboard =>
       /\ Primary \in ui.held \ ui'.held
       /\ strayed \/ clipboard' = <<pressed, ui.pointer>>

(* Such a step keeps what is known of the drag.                             *)
LEMMA CalmDrag ==
  ASSUME DragInv, strayed \in BOOLEAN, Calm, Strays
  PROVE  DragInv' /\ SelectionStep
<1>1. strayed' = (ui'.offset # 0 \/ modes'.mouse # "Off" \/ strayed)
  BY DEF Calm, Strays
<1>2. UNCHANGED <<pressed, clipboard>> /\ ui'.held = ui.held /\ ui'.pointer = ui.pointer
  BY DEF Calm
<1>3. CASE ui'.selection = ui.selection
  BY <1>1, <1>2, <1>3 DEF DragInv, SelectionStep, Mouse
<1>4. CASE ui'.selection = None
  BY <1>1, <1>2, <1>4 DEF DragInv, SelectionStep, Mouse
<1> QED BY <1>3, <1>4 DEF Calm

(* The wheel is no gesture.                                                 *)
LEMMA WheelIsCalm ==
  ASSUME SearchInv, NEW up \in BOOLEAN, Wheel(up)
  PROVE  Calm
<1>1. ASSUME ui' = Scrolled(ui, up, 1) PROVE SameBut(ui', ui)
  <2> DEFINE o == IF up THEN AtMost(ui.offset + 1, Len(term.history)) ELSE SaturatingSub(ui.offset, 1)
  <2>1. ui' = [ui EXCEPT !.offset = o] BY <1>1 DEF Scrolled
  <2> HIDE DEF o
  <2> QED BY <2>1, ShapeOfUi, FieldReplaced
<1>2. SameBut(ui', ui) BY <1>1 DEF Wheel, SameBut
<1> QED BY <1>2 DEF Wheel, SameBut, Calm, KeepMouse

(* Presses, releases and motions keep the selection of a drag from the      *)
(* press to the pointer.                                                    *)
LEMMA MouseDrag ==
  ASSUME SearchInv, DragInv, MouseEvents, Strays
  PROVE  DragInv' /\ SelectionStep
<1>0. UiOK(ui) /\ strayed \in BOOLEAN BY DEF SearchInv, Types, UiTypes
<1>1. ASSUME NEW b \in session.buttons, PressButton(b) PROVE DragInv' /\ SelectionStep
  <2> DEFINE sel == IF Selects(b) THEN <<ui.pointer, ui.pointer>> ELSE ui.selection
  <2>1. /\ ui'.offset = ui.offset /\ ui'.pointer = ui.pointer
        /\ ui'.held = ui.held \cup {b} /\ ui'.selection = sel
    BY <1>0, <1>1, PressedUi
  <2>2. /\ clipboard' = clipboard /\ modes' = modes /\ b \notin ui.held
        /\ pressed' = IF b = Primary THEN ui.pointer ELSE pressed
    BY <1>1 DEF PressButton, KeepProgram
  <2>3. CASE b = Primary
    <3>1. strayed' = (ui.offset # 0 \/ Mouse # "Off")
      BY <2>1, <2>2, <2>3 DEF Strays, Mouse
    <3>2. Primary \in ui'.held BY <2>1, <2>3
    <3>3. ~strayed' => ui'.selection = <<ui.pointer, ui.pointer>> BY <2>1, <2>3, <3>1 DEF Selects
    <3> QED BY <2>1, <2>2, <2>3, <3>1, <3>2, <3>3 DEF DragInv, SelectionStep, Mouse
  <2>4. CASE b # Primary
    <3>1. ui'.selection = ui.selection /\ pressed' = pressed BY <2>1, <2>2, <2>4 DEF Selects
    <3>2. Primary \in ui'.held <=> Primary \in ui.held BY <2>1, <2>4
    <3>3. strayed' = (ui.offset # 0 \/ Mouse # "Off" \/ strayed)
      BY <2>1, <2>2, <3>2 DEF Strays, Mouse
    <3> QED BY <2>1, <2>2, <3>1, <3>2, <3>3 DEF DragInv, SelectionStep, Mouse
  <2> QED BY <2>3, <2>4
<1>2. ASSUME NEW b \in session.buttons, ReleaseButton(b) PROVE DragInv' /\ SelectionStep
  <2> DEFINE copies == Selects(b) /\ ui.selection # None
  <2>1. /\ ui'.offset = ui.offset /\ ui'.pointer = ui.pointer
        /\ ui'.held = ui.held \ {b} /\ ui'.selection = IF copies THEN None ELSE ui.selection
    BY <1>0, <1>2, ReleasedUi
  <2>2. /\ clipboard' = IF copies /\ IsCopied(term, ui.selection) THEN ui.selection ELSE clipboard
        /\ modes' = modes /\ b \in ui.held /\ pressed' = pressed
    BY <1>2 DEF ReleaseButton, KeepProgram
  <2>3. strayed' = (ui.offset # 0 \/ Mouse # "Off" \/ strayed)
    BY <2>1, <2>2 DEF Strays, Mouse
  <2>4. DragInv'
    <3>1. ~strayed' => ui'.offset = 0 /\ modes'.mouse = "Off" BY <2>1, <2>2, <2>3 DEF Mouse
    <3>2. ui'.selection # None /\ Primary \notin ui'.held => strayed'
      BY <2>1, <2>3 DEF Selects, DragInv
    <3>3. ~strayed' /\ Primary \in ui'.held /\ ui'.selection # None =>
            ui'.selection = <<pressed', ui'.pointer>>
      BY <2>1, <2>2, <2>3 DEF DragInv
    <3> QED BY <3>1, <3>2, <3>3 DEF DragInv, Mouse
  <2>5. SelectionStep
    <3>1. clipboard' # clipboard => copies /\ clipboard' = ui.selection BY <2>2
    <3>2. copies => b = Primary /\ ui.selection # None BY DEF Selects
    <3>3. copies => Primary \in ui.held \ ui'.held BY <2>1, <2>2, <3>2
    <3>4. copies /\ ~strayed => ui.selection = <<pressed, ui.pointer>> BY <3>2, <3>3 DEF DragInv
    <3> QED BY <2>4, <3>1, <3>3, <3>4 DEF SelectionStep, DragInv
  <2> QED BY <2>4, <2>5
<1>3. ASSUME NEW cell \in session.cells, MovePointer(cell) PROVE DragInv' /\ SelectionStep
  <2> DEFINE drags == Primary \in ui.held /\ Mouse = "Off" /\ ui.selection # None
  <2>1. /\ ui'.offset = ui.offset /\ ui'.pointer = cell /\ ui'.held = ui.held
        /\ ui'.selection = IF drags THEN [ui.selection EXCEPT ![2] = cell] ELSE ui.selection
    BY <1>0, <1>3, MovedUi
  <2>2. UNCHANGED <<clipboard, modes, pressed>> BY <1>3 DEF MovePointer, KeepMouse, KeepProgram
  <2>3. strayed' = (ui.offset # 0 \/ Mouse # "Off" \/ strayed)
    BY <2>1, <2>2 DEF Strays, Mouse
  <2>4. ~strayed' /\ drags => ui'.selection = <<pressed, cell>>
    <3>1. SUFFICES ASSUME ~strayed', drags PROVE ui'.selection = <<pressed, cell>>
      OBVIOUS
    <3>2. ui.selection = <<pressed, ui.pointer>> BY <2>3, <3>1 DEF DragInv
    <3> QED BY <2>1, <3>1, <3>2
  <2>5. ~strayed' /\ Primary \in ui.held /\ ui'.selection # None => drags
    BY <2>1, <2>3
  <2> QED BY <2>1, <2>2, <2>3, <2>4, <2>5 DEF DragInv, SelectionStep, Mouse
<1>4. ASSUME NEW up \in BOOLEAN, Wheel(up) PROVE DragInv' /\ SelectionStep
  BY <1>0, <1>4, WheelIsCalm, CalmDrag
<1> QED BY <1>1, <1>2, <1>3, <1>4 DEF MouseEvents

(* Every step keeps it.                                                     *)
LEMMA NextDrag ==
  ASSUME SearchInv, DragInv, [Next]_vars
  PROVE  DragInv' /\ [SelectionStep]_vars
<1>1. strayed \in BOOLEAN BY DEF SearchInv, Types
<1>2. CASE Next
  <2>1. Strays BY <1>2 DEF Next
  <2>2. CASE Keyboard BY <1>1, <2>1, <2>2, KeyboardIsCalm, CalmDrag
  <2>3. CASE MouseEvents BY <2>1, <2>3, MouseDrag
  <2>4. CASE Environment BY <1>1, <2>1, <2>4, EnvironmentIsCalm, CalmDrag
  <2> QED BY <1>2, <2>2, <2>3, <2>4 DEF Next
<1>3. CASE UNCHANGED vars BY <1>3 DEF vars, DragInv, Mouse
<1> QED BY <1>2, <1>3

(* A selection outlives its drag, and other cells are copied than those     *)
(* from the press to the pointer, only when the drag strayed.               *)
THEOREM SelectionsFollowDrags == Spec => SelectionFollowsDrag
<1>1. Init => DragInv BY DEF Init, DragInv, Mouse
<1>2. SearchInv /\ DragInv /\ [Next]_vars => DragInv' /\ [SelectionStep]_vars BY NextDrag
<1>3. [SelectionStep]_vars =>
        [/\ ui'.selection # None /\ Primary \notin ui'.held => strayed'
         /\ clipboard' # clipboard =>
              /\ Primary \in ui.held \ ui'.held
              /\ strayed \/ clipboard' = <<pressed, ui.pointer>>]_vars
  BY DEF SelectionStep
<1> QED BY <1>1, <1>2, <1>3, SearchInvariance, PTL DEF Spec, SelectionFollowsDrag

(* Only a resize changes the rows.                                          *)
LEMMA RowsKept ==
  ASSUME SearchInv, Next
  PROVE  \/ UNCHANGED <<sizes, refused>> /\ term'.rows = term.rows /\ session' = session
         \/ \E rows \in session.sizes : UpdateViewportGeometry(rows)
<1>0. ScreenTypes /\ session \in Sessions /\ ScreenOK(term)
  BY DEF SearchInv, Types, ScreenTypes, ProgramTypes
<1>1. Unchanged(term).rows = term.rows BY <1>0, UnchangedScreen
<1>2. ASSUME session' = session, term' = Unchanged(term) \/ Silent \/ Notices \/ Writes
      PROVE  term'.rows = term.rows
  BY <1>0, <1>1, <1>2, NoticesKeeps, WritesKeeps DEF Silent, LinesKept
<1>3. ASSUME Writing PROVE UNCHANGED <<sizes, refused>> /\ term'.rows = term.rows /\ session' = session
  BY <1>0, <1>3, OutputScreen
<1>4. ASSUME NEW ok \in Outcomes, session' = session, Calls(ok, Unchanged(term), {})
      PROVE  term'.rows = term.rows
  <2>1. ok \in BOOLEAN BY <1>0, <1>4, SessionFacts
  <2> QED BY <1>0, <1>4, <2>1, CallsKeeps DEF LinesKept
<1>5. CASE Keyboard
  <2>1. KeepProgram BY <1>5, KeyboardIsCalm
  <2>2. CASE HandleClipboardPaste
    <3>1. PICK written \in (IF session.fails = {} THEN {3} ELSE 0..3) : Calls(written = 3, Unchanged(term), {})
      BY <2>2 DEF HandleClipboardPaste
    <3>2. (written = 3) \in BOOLEAN OBVIOUS
    <3>3. term'.rows = term.rows BY <1>0, <2>1, <3>1, <3>2, CallsKeeps DEF LinesKept, KeepProgram
    <3> QED BY <2>1, <3>3 DEF KeepProgram
  <2>3. ASSUME NEW query, SetQuery(query) PROVE term'.rows = term.rows
    BY <1>1, <2>3 DEF SetQuery
  <2>4. CASE ~HandleClipboardPaste
    <3>1. \/ term' = Unchanged(term) \/ Silent \/ Notices \/ Writes
          \/ \E query : SetQuery(query)
      BY <1>5, <2>4 DEF Keyboard, OpenSearch, CloseSearch, AppendSearchText, PopSearchText, MoveSearchMatch,
         TogglePalette, HandlePaletteAction, ScrollPage, TypeKey, CommitText
    <3>2. term'.rows = term.rows BY <1>2, <2>1, <2>3, <3>1 DEF KeepProgram
    <3> QED BY <2>1, <3>2 DEF KeepProgram
  <2> QED BY <2>2, <2>4
<1>6. CASE MouseEvents
  <2>1. KeepProgram BY <1>6 DEF MouseEvents, PressButton, ReleaseButton, MovePointer, Wheel
  <2>2. \/ term' = Unchanged(term) \/ Silent \/ Writes
        \/ \E b, isPress : ReportButton(b, isPress)
    BY <1>6 DEF MouseEvents, PressButton, ReleaseButton, MovePointer, Wheel, NoReport
  <2>3. ASSUME NEW b, NEW isPress, ReportButton(b, isPress) PROVE term'.rows = term.rows
    <3>1. PICK ok \in Outcomes : Calls(ok, Unchanged(term), {}) BY <2>3 DEF ReportButton
    <3> QED BY <1>4, <2>1, <3>1 DEF KeepProgram
  <2>4. term'.rows = term.rows BY <1>2, <2>1, <2>2, <2>3 DEF KeepProgram
  <2> QED BY <2>1, <2>4 DEF KeepProgram
<1>7. CASE Environment
  <2>1. CASE RuntimeNotice BY <1>2, <2>1 DEF RuntimeNotice, KeepProgram
  <2> QED BY <1>3, <1>7, <2>1 DEF Environment, Writing
<1> QED BY <1>5, <1>6, <1>7 DEF Next

(* The size on record is the size of the PTY, and the grid has it too, and  *)
(* the window, unless the PTY refused the last resize.                      *)
LEMMA NextSizes ==
  ASSUME SearchInv, SizesAgree, [Next]_vars
  PROVE  SizesAgree'
<1>0. ScreenTypes /\ ProgramTypes /\ session \in Sessions /\ ScreenOK(term) /\ refused \in BOOLEAN
  BY DEF SearchInv, Types, ScreenTypes, ProgramTypes
<1>1. CASE UNCHANGED vars BY <1>1 DEF vars, SizesAgree
<1>2. CASE UNCHANGED <<sizes, refused>> /\ term'.rows = term.rows BY <1>2 DEF SizesAgree
<1>3. ASSUME NEW rows \in session.sizes, UpdateViewportGeometry(rows) PROVE SizesAgree'
  <2> DEFINE changed == rows # sizes.geometry
             t == SetRows(Unchanged(term), rows)
  <2>1. PICK ok \in (IF changed THEN Outcomes ELSE {TRUE}) :
          /\ sizes' = [window |-> rows,
                       geometry |-> IF ok THEN rows ELSE sizes.geometry,
                       pty |-> IF ok THEN rows ELSE sizes.pty]
          /\ refused' = IF changed THEN ~ok ELSE refused
          /\ IF changed THEN Calls(ok, t, {"resize"}) ELSE Silent
    BY <1>3 DEF UpdateViewportGeometry
  <2>2. ok \in BOOLEAN BY <1>0, <2>1, SessionFacts
  <2>3. session' = session BY <1>3 DEF UpdateViewportGeometry
  <2>4. /\ sizes'.window = rows
        /\ sizes'.geometry = IF ok THEN rows ELSE sizes.geometry
        /\ sizes'.pty = IF ok THEN rows ELSE sizes.pty
    BY <2>1
  <2>5. CASE changed
    <3>1. rows \in Nat \ {0} BY <1>0, <1>3, SessionFacts
    <3>2. ScreenOK(t) /\ t.rows = rows BY <1>0, <3>1, UnchangedScreen, ResizedScreen
    <3> DEFINE happened == {"resize"}
    <3>3. Calls(ok, t, happened) /\ happened \in SUBSET {"wheel", "notice", "resize"} BY <2>1, <2>5
    <3> HIDE DEF t, happened
    <3>4. term'.rows = rows BY <1>0, <1>3, <2>2, <2>3, <3>2, <3>3, CallsScreen
    <3> QED BY <2>1, <2>2, <2>4, <2>5, <3>4 DEF SizesAgree
  <2>6. CASE ~changed
    <3>1. ok = TRUE /\ rows = sizes.geometry /\ Silent /\ refused' = refused BY <2>1, <2>6
    <3>2. term'.rows = term.rows BY <1>0, <3>1, UnchangedScreen DEF Silent
    <3> QED BY <2>4, <3>1, <3>2 DEF SizesAgree
  <2> QED BY <2>5, <2>6
<1> QED BY <1>1, <1>2, <1>3, RowsKept

(* The size on record is the size of the PTY, and unless the PTY refused    *)
(* the last resize, of the grid and the window (update_viewport_geometry).  *)
THEOREM SizesAlwaysAgree == Spec => []SizesAgree
<1>1. Init => SizesAgree BY DEF Init, SizesAgree
<1>2. SearchInv /\ SizesAgree /\ [Next]_vars => SizesAgree' BY NextSizes
<1> QED BY <1>1, <1>2, SearchInvariance, PTL DEF Spec

(* What the program is told is what the buttons are, but for what was lost. *)
LEMMA NextTold ==
  ASSUME SearchInv, ProgramIsTold, [Next]_vars
  PROVE  ProgramIsTold'
<1>0. UiOK(ui) /\ told \in Tellings /\ disputed \in Tellings
  BY DEF SearchInv, Types, UiTypes, MouseTypes
<1>1. ASSUME UNCHANGED <<told, disputed, modes>>, ui'.held = ui.held PROVE ProgramIsTold'
  BY <1>1 DEF ProgramIsTold, Mouse
<1>2. CASE UNCHANGED vars BY <1>1, <1>2 DEF vars
<1>3. ASSUME NEW b, NEW isPress \in BOOLEAN, ReportButton(b, isPress), modes' = modes,
             ui'.held = IF isPress THEN ui.held \cup {b} ELSE ui.held \ {b}
      PROVE  ProgramIsTold'
  <2>1. PICK ok \in Outcomes :
          /\ told' = IF ok /\ (isPress \/ modes.format = "Sgr") /\ Mouse \in Tracked
                     THEN [told EXCEPT !.down = IF isPress THEN @ \cup {b} ELSE @ \ {b}] ELSE told
          /\ disputed' = [disputed EXCEPT !.down = IF ok THEN @ \ {b} ELSE @ \cup {b}]
    BY <1>3 DEF ReportButton
  <2>2. told'.paste = told.paste /\ disputed'.paste = disputed.paste
    BY <1>0, <2>1 DEF Tellings
  <2>3. disputed'.down = IF ok THEN disputed.down \ {b} ELSE disputed.down \cup {b}
    BY <1>0, <2>1 DEF Tellings
  <2>4. told'.down = IF ok /\ (isPress \/ modes.format = "Sgr") /\ Mouse \in Tracked
                     THEN IF isPress THEN told.down \cup {b} ELSE told.down \ {b} ELSE told.down
    BY <1>0, <2>1 DEF Tellings
  <2>5. ASSUME Mouse \in Tracked, modes.format = "Sgr", told.down \ disputed.down = ui.held \ disputed.down
        PROVE  told'.down \ disputed'.down = ui'.held \ disputed'.down
    <3>1. CASE ok /\ isPress BY <1>3, <2>3, <2>4, <2>5, <3>1
    <3>2. CASE ok /\ ~isPress BY <1>3, <2>3, <2>4, <2>5, <3>2
    <3>3. CASE ~ok BY <1>3, <2>3, <2>4, <2>5, <3>3
    <3> QED BY <3>1, <3>2, <3>3
  <2> QED BY <1>3, <2>2, <2>5 DEF ProgramIsTold, Mouse
<1>4. ASSUME NEW b, PressButton(b) PROVE ProgramIsTold'
  <2>1. ui'.held = ui.held \cup {b} BY <1>0, <1>4, PressedUi
  <2>2. modes' = modes /\ IF Mouse = "Off" THEN NoReport ELSE ReportButton(b, TRUE)
    BY <1>4 DEF PressButton, KeepProgram
  <2>3. CASE Mouse = "Off" BY <2>2, <2>3 DEF NoReport, ProgramIsTold, Mouse, Tracked, Reporting
  <2>4. CASE Mouse # "Off" BY <1>3, <2>1, <2>2, <2>4
  <2> QED BY <2>3, <2>4
<1>5. ASSUME NEW b, ReleaseButton(b) PROVE ProgramIsTold'
  <2>1. ui'.held = ui.held \ {b} BY <1>0, <1>5, ReleasedUi
  <2>2. modes' = modes /\ IF Mouse \in Tracked THEN ReportButton(b, FALSE) ELSE NoReport
    BY <1>5 DEF ReleaseButton, KeepProgram
  <2>3. CASE Mouse \notin Tracked BY <2>2, <2>3 DEF NoReport, ProgramIsTold, Mouse
  <2>4. CASE Mouse \in Tracked BY <1>3, <2>1, <2>2, <2>4
  <2> QED BY <2>3, <2>4
<1>6. ASSUME NEW cell, MovePointer(cell) PROVE ProgramIsTold'
  <2>1. ui'.held = ui.held BY <1>0, <1>6, MovedUi
  <2> QED BY <1>1, <1>6, <2>1 DEF MovePointer, KeepMouse, KeepProgram
<1>7. ASSUME NEW up \in BOOLEAN, Wheel(up) PROVE ProgramIsTold'
  <2>1. ui'.held = ui.held BY <1>7, WheelIsCalm DEF Calm
  <2> QED BY <1>1, <1>7, <2>1 DEF Wheel, KeepMouse, KeepProgram
<1>8. CASE Keyboard
  <2>1. ui'.held = ui.held /\ modes' = modes BY <1>8, KeyboardIsCalm DEF Calm, KeepProgram
  <2>2. CASE HandleClipboardPaste
    <3>1. PICK written \in (IF session.fails = {} THEN {3} ELSE 0..3) :
            LET bracketed == modes.bracketedPaste /\ written > 0
            IN /\ told' = IF bracketed THEN [told EXCEPT !.paste = written < 3] ELSE told
               /\ disputed' = IF bracketed THEN [disputed EXCEPT !.paste = written < 3] ELSE disputed
      BY <2>2 DEF HandleClipboardPaste
    <3>2. told'.down = told.down /\ disputed'.down = disputed.down BY <1>0, <3>1 DEF Tellings
    <3>3. (told.paste => disputed.paste) => (told'.paste => disputed'.paste) BY <1>0, <3>1 DEF Tellings
    <3> QED BY <2>1, <3>2, <3>3 DEF ProgramIsTold, Mouse
  <2>3. CASE ~HandleClipboardPaste
    <3>1. KeepMouse
      BY <1>8, <2>3 DEF Keyboard, OpenSearch, CloseSearch, AppendSearchText, PopSearchText, SetQuery,
         MoveSearchMatch, TogglePalette, HandlePaletteAction, ScrollPage, TypeKey, CommitText
    <3> QED BY <1>1, <2>1, <3>1 DEF KeepMouse
  <2> QED BY <2>2, <2>3
<1>9. CASE Environment
  <2>1. ui'.held = ui.held BY <1>9, EnvironmentIsCalm DEF Calm
  <2>2. CASE ProgramSetsModes
    <3>1. told' = [told EXCEPT !.down = {}] /\ disputed' = [disputed EXCEPT !.down = ui.held]
      BY <2>2 DEF ProgramSetsModes
    <3>2. told'.paste = told.paste /\ disputed'.paste = disputed.paste
          /\ told'.down = {} /\ disputed'.down = ui.held
      BY <1>0, <3>1 DEF Tellings
    <3> QED BY <2>1, <3>2 DEF ProgramIsTold
  <2>3. CASE ~ProgramSetsModes
    <3>1. UNCHANGED <<told, disputed, modes>>
      BY <1>9, <2>3 DEF Environment, ProgramPrints, ProgramRewrites, ProgramErasesHistory, RuntimeNotice,
         UpdateViewportGeometry, KeepMouse, KeepProgram
    <3> QED BY <1>1, <2>1, <3>1
  <2> QED BY <2>2, <2>3
<1> QED BY <1>2, <1>4, <1>5, <1>6, <1>7, <1>8, <1>9 DEF Next, MouseEvents

(* A program that reads the SGR format knows the buttons that are down, but *)
(* for lost reports, and is left in no paste but a broken one               *)
(* (encode_mouse_event, write_pty_segments).                                *)
THEOREM ProgramAlwaysTold == Spec => []ProgramIsTold
<1>1. Init => ProgramIsTold BY DEF Init, ProgramIsTold
<1>2. SearchInv /\ ProgramIsTold /\ [Next]_vars => ProgramIsTold' BY NextTold
<1> QED BY <1>1, <1>2, SearchInvariance, PTL DEF Spec

----------------------------------------------------------------------------
(* The active match.                                                        *)

(* An active match is a cell of the lines, one of the matches there are.    *)
LEMMA ActiveIsFound ==
  ASSUME SearchInv, ui.search.index # None
  PROVE  /\ ui.search.active /\ ui.search.matches \in Seq(Cells)
         /\ ui.search.index \in 1..Len(ui.search.matches)
         /\ ui.search.query \in Seq(STRING)
         /\ since = {} => ui.search.matches = Found(ui.search.query, term)
<1>1. SearchOK(ui.search) /\ SearchIsFresh BY DEF SearchInv, Types, UiTypes, UiOK
<1> QED BY <1>1, FreshMeansFound DEF SearchOK, Searches

(* The view that starts at the active match shows it above the search bar.  *)
LEMMA ActiveMatchIsShown == SearchInv => ActiveMatchShown
<1> SUFFICES ASSUME SearchInv, ui.search.index # None, since = {}
             PROVE  LET line == ActiveMatch(ui)[1]
                    IN /\ line - SaturatingSub(Len(term.history), ui.offset) \in 0..(term.rows - 1)
                       /\ \/ IsShown(ui, term, line)
                          \/ line = Len(term.history) + term.rows - 1
                          \/ term.rows = 1
  BY DEF ActiveMatchShown
<1> DEFINE line == ActiveMatch(ui)[1]  H == Len(term.history)  R == term.rows
<1>1. ScreenOK(term) /\ ViewFollows BY DEF SearchInv, Types, ScreenTypes
<1>2. Matches(ui.search.matches, H + Len(term.grid))
  BY <1>1, ActiveIsFound, FoundMatches
<1>3. line \in Nat /\ line < H + Len(term.grid)
  <2>1. ActiveMatch(ui) \in Cells BY ActiveIsFound, ElementOfSeq DEF ActiveMatch
  <2> QED BY <1>2, <2>1, ActiveIsFound DEF Matches, ActiveMatch, Cells
<1>4. H \in Nat /\ R \in Nat \ {0} /\ Len(term.grid) \in 1..R BY <1>1 DEF ScreenOK, Terms
<1>5. ui.offset = SaturatingSub(H, line) BY <1>1 DEF ViewFollows
<1> HIDE DEF line, H, R
<1>6. IsShown(ui, term, line) <=>
        LET top == SaturatingSub(H, ui.offset)
        IN line >= top /\ line - top < SaturatingSub(R, 1)
  BY DEF IsShown, H, R
<1>7. IsShown(ui, term, line) \/ line = H + R - 1 \/ R = 1
  BY <1>3, <1>4, <1>5, <1>6 DEF SaturatingSub
<1>8. line - SaturatingSub(H, ui.offset) \in 0..(R - 1)
  BY <1>3, <1>4, <1>5 DEF SaturatingSub
<1> QED BY <1>7, <1>8 DEF line, H, R

(* The cells of a list in ascending order, a number of rows further down.   *)
Down(m, e) == <<m[1] + e, m[2]>>
Ascends(ms) == \A i \in 1..Len(ms) : \A j \in 1..(i - 1) : Flat(ms[j]) < Flat(ms[i])

(* Lines move down together: the order of their cells stays.                *)
LEMMA DownAscends ==
  ASSUME NEW ms \in Seq(Cells), Ascends(ms), NEW e \in Nat
  PROVE  LET ds == [i \in 1..Len(ms) |-> Down(ms[i], e)]
         IN ds \in Seq(Cells) /\ Len(ds) = Len(ms) /\ Ascends(ds)
<1> DEFINE ds == [i \in 1..Len(ms) |-> Down(ms[i], e)]
<1>1. \A i \in 1..Len(ms) : ms[i] \in Cells OBVIOUS
<1>2. \A m \in Cells : Down(m, e) \in Cells BY DEF Down, Cells
<1>3. ds \in Seq(Cells) /\ Len(ds) = Len(ms) BY <1>1, <1>2
<1>4. ASSUME NEW m \in Cells PROVE Flat(Down(m, e)) = Flat(m) + e * Cols /\ Flat(m) \in Nat
  <2>1. m[1] \in Nat /\ m[2] \in Nat /\ Cols \in Nat BY ScreenAssumption DEF Cells
  <2> DEFINE row == m[1] * Cols  down == e * Cols
  <2>2. (m[1] + e) * Cols = row + down BY <2>1
  <2>3. row \in Nat /\ down \in Nat BY <2>1
  <2>4. Flat(Down(m, e)) = row + down + m[2] BY <2>2 DEF Flat, Down
  <2>5. Flat(m) = row + m[2] BY DEF Flat
  <2> HIDE DEF row
  <2>6. e * Cols = down /\ down \in Nat BY <2>3
  <2> HIDE DEF down
  <2>7. Flat(m) \in Nat /\ Flat(Down(m, e)) = Flat(m) + down BY <2>1, <2>3, <2>4, <2>5
  <2> QED BY <2>6, <2>7, Zenon
<1>5. e * Cols \in Nat BY ScreenAssumption
<1>6. ASSUME NEW i \in 1..Len(ms), NEW j \in 1..(i - 1) PROVE Flat(ds[j]) < Flat(ds[i])
  <2>1. j \in 1..Len(ms) OBVIOUS
  <2>2. Flat(ms[j]) < Flat(ms[i]) BY DEF Ascends
  <2>3. ds[i] = Down(ms[i], e) /\ ds[j] = Down(ms[j], e) BY <2>1
  <2>4. Flat(ds[i]) = Flat(ms[i]) + e * Cols /\ Flat(ms[i]) \in Nat BY <1>1, <1>4, <2>3
  <2>5. Flat(ds[j]) = Flat(ms[j]) + e * Cols /\ Flat(ms[j]) \in Nat BY <1>1, <1>4, <2>1, <2>3
  <2> QED BY <1>5, <2>2, <2>4, <2>5
<1> HIDE DEF ds
<1> QED BY <1>3, <1>6 DEF Ascends, ds

(* Of a list in ascending order, those below one of them are those before   *)
(* it, as many as its index less one.                                       *)
LEMMA EarlierOnes ==
  ASSUME NEW ms \in Seq(Cells), Ascends(ms), NEW k \in 1..Len(ms)
  PROVE  /\ {m \in {ms[i] : i \in 1..Len(ms)} : Flat(m) < Flat(ms[k])} = {ms[i] : i \in 1..(k - 1)}
         /\ Cardinality({ms[i] : i \in 1..(k - 1)}) = k - 1
<1>1. ASSUME NEW i \in 1..Len(ms) PROVE Flat(ms[i]) \in Nat
  <2>1. ms[i] \in Cells BY ElementOfSeq
  <2> QED BY <2>1, FlatAscends
<1>2. ASSUME NEW i \in 1..Len(ms), NEW j \in 1..Len(ms), j < i PROVE Flat(ms[j]) < Flat(ms[i])
  <2>1. j \in 1..(i - 1) BY <1>2
  <2> QED BY <2>1 DEF Ascends
<1>3. ASSUME NEW i \in 1..Len(ms) PROVE Flat(ms[i]) < Flat(ms[k]) <=> i \in 1..(k - 1)
  <2>1. CASE i < k BY <1>2, <2>1
  <2>2. CASE i = k BY <1>1, <2>2
  <2>3. CASE k < i
    <3>1. Flat(ms[k]) < Flat(ms[i]) BY <1>2, <2>3
    <3> QED BY <1>1, <2>3, <3>1
  <2> QED BY <2>1, <2>2, <2>3
<1>4. 1..(k - 1) \subseteq 1..Len(ms) /\ k - 1 \in Nat OBVIOUS
<1>5. \A p, q \in 1..(k - 1) : p # q => ms[p] # ms[q]
  <2>1. SUFFICES ASSUME NEW p \in 1..(k - 1), NEW q \in 1..(k - 1), p < q PROVE ms[p] # ms[q]
    OBVIOUS
  <2>2. p \in 1..Len(ms) /\ q \in 1..Len(ms) BY <1>4
  <2>3. Flat(ms[p]) < Flat(ms[q]) BY <1>2, <2>1, <2>2
  <2> QED BY <1>1, <2>2, <2>3
<1>6. Cardinality({ms[i] : i \in 1..(k - 1)}) = k - 1 BY <1>4, <1>5, DistinctCount
<1> QED BY <1>3, <1>4, <1>6

(* The step of ActiveMatchStays.                                            *)
Shifted(m) == <<m[1] + term'.evicted, m[2]>>
Olds == {ui.search.matches[i] : i \in DOMAIN ui.search.matches}
News == {Shifted(ui'.search.matches[i]) : i \in DOMAIN ui'.search.matches}
Ahead(ms, m) == {o \in ms : Flat(o) < Flat(m)}
KeepsRank(olds, all, was, is) ==
  LET rank == Cardinality(Ahead(all, is))
      ranked == Cardinality(Ahead(olds, was))
  IN /\ rank = ranked \/ (rank < ranked /\ \A m \in all : Flat(m) <= Flat(is))
     /\ was \in all /\ Ahead(all, was) = Ahead(olds, was) => is = was
StaysStep ==
  /\ ui.search.index # None /\ since = {} /\ since' = {}
  /\ term'.history \o term'.grid # term.history \o term.grid
  => News = {} \/ KeepsRank(Olds, News, ActiveMatch(ui), Shifted(ActiveMatch(ui')))

(* Of two lists in ascending order, elements at the same place are of the   *)
(* same rank, and so is the last of a shorter one, but for what it lacks.   *)
LEMMA PlaceIsRank ==
  ASSUME NEW a \in Seq(Cells), Ascends(a), NEW i \in 1..Len(a),
         NEW d \in Seq(Cells), Ascends(d), Len(d) > 0
  PROVE  KeepsRank({a[p] : p \in 1..Len(a)}, {d[p] : p \in 1..Len(d)}, a[i], d[AtMost(i, Len(d))])
<1> DEFINE j == AtMost(i, Len(d))
           A == {a[p] : p \in 1..Len(a)}
           D == {d[p] : p \in 1..Len(d)}
<1>1. /\ j \in 1..Len(d) /\ i \in Nat /\ j \in Nat
      /\ j = i \/ (j = Len(d) /\ j < i)
  BY DEF AtMost
<1> HIDE DEF j
<1>2. ASSUME NEW k \in 1..Len(d)
      PROVE  Ahead(D, d[k]) = {d[p] : p \in 1..(k - 1)} /\ Cardinality(Ahead(D, d[k])) = k - 1
  BY EarlierOnes DEF Ahead
<1>3. Ahead(A, a[i]) = {a[p] : p \in 1..(i - 1)} /\ Cardinality(Ahead(A, a[i])) = i - 1
  BY EarlierOnes DEF Ahead
<1>4. ASSUME j = Len(d) PROVE \A m \in D : Flat(m) <= Flat(d[j])
  <2>1. SUFFICES ASSUME NEW m \in D PROVE Flat(m) <= Flat(d[j]) OBVIOUS
  <2>2. Flat(m) <= Flat(d[j])
    <3>1. PICK p \in 1..Len(d) : m = d[p] OBVIOUS
    <3>2. Flat(d[p]) \in Nat
      <4>1. d[p] \in Cells BY ElementOfSeq
      <4> QED BY <4>1, FlatAscends
    <3>3. CASE p = j BY <3>1, <3>2, <3>3
    <3>4. CASE p # j
      <4>1. p \in 1..(j - 1) BY <1>1, <1>4, <3>4
      <4>2. Flat(d[p]) < Flat(d[j]) BY <1>1, <4>1 DEF Ascends
      <4>3. Flat(d[j]) \in Nat
        <5>1. d[j] \in Cells BY <1>1, ElementOfSeq
        <5> QED BY <5>1, FlatAscends
      <4> QED BY <3>1, <3>2, <4>2, <4>3
    <3> QED BY <3>3, <3>4
  <2> QED BY <2>2
<1>5. ASSUME a[i] \in D, Ahead(D, a[i]) = Ahead(A, a[i]) PROVE d[j] = a[i]
  <2>1. PICK k \in 1..Len(d) : d[k] = a[i] BY <1>5
  <2>2. Cardinality(Ahead(D, a[i])) = k - 1 BY <1>2, <2>1
  <2>3. k = i
    <3>1. k - 1 = i - 1 BY <1>3, <1>5, <2>2
    <3> QED BY <1>1, <2>1, <3>1
  <2>4. j = i BY <1>1, <2>1, <2>3
  <2> QED BY <2>1, <2>3, <2>4
<1>6. KeepsRank(A, D, a[i], d[j])
  <2> DEFINE rank == Cardinality(Ahead(D, d[j]))  ranked == Cardinality(Ahead(A, a[i]))
  <2>1. rank = ranked \/ (rank < ranked /\ \A m \in D : Flat(m) <= Flat(d[j]))
    <3>1. CASE j = i
      <4>1. rank = ranked BY <1>1, <1>2, <1>3, <3>1
      <4> QED BY <4>1
    <3>2. CASE j = Len(d) /\ j < i
      <4>1. rank < ranked
        <5>1. rank = j - 1 BY <1>1, <1>2
        <5>2. ranked = i - 1 BY <1>3
        <5> HIDE DEF rank, ranked
        <5> QED BY <1>1, <3>2, <5>1, <5>2
      <4>2. \A m \in D : Flat(m) <= Flat(d[j]) BY <1>4, <3>2
      <4> QED BY <4>1, <4>2
    <3> QED BY <1>1, <3>1, <3>2
  <2> QED BY <1>5, <2>1 DEF KeepsRank
<1> QED BY <1>6 DEF j

(* A step that changes the lines of a search that is fresh before and after *)
(* it is a step of the program, which the search follows.                   *)
LEMMA LinesChange ==
  ASSUME SearchInv, Next, ui.search.index # None, since' = {},
         term'.history \o term'.grid # term.history \o term.grid
  PROVE  ui' = Refreshed(ui, term', FALSE) /\ ScreenOK(term')
<1>0. ScreenTypes /\ session \in Sessions /\ ScreenOK(term) /\ ui.search.active
  BY ActiveIsFound DEF SearchInv, Types, ScreenTypes, ProgramTypes
<1>1. term' # Unchanged(term) /\ ~LinesKept
  <2>1. ~LinesKept
    BY DEF LinesKept
  <2>2. Unchanged(term).history = term.history /\ Unchanged(term).grid = term.grid
    BY <1>0, UnchangedScreen
  <2> QED BY <2>1, <2>2
<1>2. ~Silent /\ ~Notices
  BY <1>1 DEF Silent, Notices
<1>3. ASSUME NEW ok, Calls(ok, Unchanged(term), {}) PROVE FALSE
  BY <1>1, <1>3 DEF Calls
<1>4. ~Writes BY <1>3 DEF Writes
<1>5. ASSUME NEW b, NEW isPress, ReportButton(b, isPress) PROVE FALSE BY <1>3, <1>5 DEF ReportButton
<1>6. ~Keyboard
  <2>1. ASSUME NEW query, SetQuery(query) PROVE FALSE BY <1>1, <2>1 DEF SetQuery
  <2>2. ~HandleClipboardPaste BY <1>3 DEF HandleClipboardPaste
  <2> QED BY <1>1, <1>2, <1>4, <2>1, <2>2 DEF Keyboard, OpenSearch, CloseSearch, AppendSearchText,
        PopSearchText, MoveSearchMatch, TogglePalette, HandlePaletteAction, ScrollPage, TypeKey, CommitText
<1>7. ~MouseEvents
  BY <1>1, <1>2, <1>4, <1>5 DEF MouseEvents, PressButton, ReleaseButton, MovePointer, Wheel, NoReport
<1>8. ASSUME NEW rows, UpdateViewportGeometry(rows) PROVE FALSE
  <2>1. \/ Silent \/ \E ok, t : Calls(ok, t, {"resize"}) BY <1>8 DEF UpdateViewportGeometry
  <2> QED BY <1>2, <2>1 DEF Calls
<1>9. Writing BY <1>2, <1>6, <1>7, <1>8, SMTT(30) DEF Next, Environment, RuntimeNotice, Writing
<1> QED BY <1>0, <1>9, OutputScreen DEF AfterOutput

(* The place in the list of matches, which the refresh keeps, is the rank.  *)
LEMMA NextStays == SearchInv /\ [Next]_vars => [StaysStep]_vars
<1> SUFFICES ASSUME SearchInv, Next, ui.search.index # None, since = {}, since' = {},
                    term'.history \o term'.grid # term.history \o term.grid, News # {}
             PROVE  KeepsRank(Olds, News, ActiveMatch(ui), Shifted(ActiveMatch(ui')))
  BY DEF StaysStep
<1> DEFINE a == ui.search.matches  i == ui.search.index  q == ui.search.query
           b == ui'.search.matches  j == ui'.search.index
           e == term'.evicted
           d == [p \in 1..Len(b) |-> Down(b[p], e)]
<1>1. ui' = Refreshed(ui, term', FALSE) /\ ScreenOK(term') BY LinesChange
<1>2. ui.search.active /\ a \in Seq(Cells) /\ i \in 1..Len(a) /\ q \in Seq(STRING) /\ a = Found(q, term)
  BY ActiveIsFound
<1>3. UiOK(ui) /\ ScreenOK(term) BY DEF SearchInv, Types, UiTypes, ScreenTypes
<1>4. UiOK(ui') /\ b = Found(q, term') /\ (j # None => j = AtMost(i, Len(b)))
  BY <1>1, <1>2, <1>3, RefreshedUi
<1>5. Ascends(a) BY <1>2, <1>3, FoundMatches DEF Matches, Ascends
<1>6. b \in Seq(Cells) /\ Ascends(b) BY <1>1, <1>2, <1>4, FoundMatches DEF Matches, Ascends
<1>7. e \in Nat BY <1>1 DEF ScreenOK, Terms
<1>8. d \in Seq(Cells) /\ Len(d) = Len(b) /\ Ascends(d) BY <1>6, <1>7, DownAscends
<1>9. \A p \in 1..Len(b) : Shifted(b[p]) = d[p] BY DEF Shifted, Down
<1>10. Olds = {a[p] : p \in 1..Len(a)}
  <2> HIDE DEF a
  <2>1. DOMAIN a = 1..Len(a) BY <1>2, LenProperties
  <2> QED BY <2>1 DEF Olds, a
<1>11. News = {d[p] : p \in 1..Len(d)}
  <2>1. News = {Shifted(b[p]) : p \in DOMAIN b} BY DEF News
  <2> HIDE DEF b, d
  <2>2. DOMAIN b = 1..Len(b) BY <1>6, LenProperties
  <2> QED BY <1>8, <1>9, <2>1, <2>2
<1>12. Len(d) > 0
  <2> HIDE DEF d
  <2> QED BY <1>8, <1>11, LenProperties
<1>13. j = AtMost(i, Len(d)) /\ j \in 1..Len(b)
  <2>1. b # <<>> BY <1>6, <1>8, <1>12
  <2>2. j \in 1..Len(b) BY <1>4, <2>1 DEF UiOK, SearchOK
  <2>3. j # None
    <3> HIDE DEF b, j
    <3> QED BY <2>2, NoneAssumption
  <2> QED BY <1>4, <1>8, <2>2, <2>3
<1>14. ActiveMatch(ui) = a[i] /\ Shifted(ActiveMatch(ui')) = d[j]
  BY <1>9, <1>13 DEF ActiveMatch
<1> HIDE DEF a, b, d, i, j
<1> QED BY <1>2, <1>5, <1>8, <1>10, <1>11, <1>12, <1>13, <1>14, PlaceIsRank

(* While nothing but output arrives, the active match keeps its rank among  *)
(* the matches and its line is in the window, under the search bar only in  *)
(* the last row of the live view and in a grid of one row.                  *)
THEOREM ActiveMatchIsKept == Spec => ActiveMatchKept
<1>1. SearchInv => ActiveMatchShown BY ActiveMatchIsShown
<1>2. SearchInv /\ [Next]_vars => [StaysStep]_vars BY NextStays
<1>3. [StaysStep]_vars =>
        [ LET old == ui.search  new == ui'.search
              Moved(m) == <<m[1] + term'.evicted, m[2]>>
              olds == {old.matches[i] : i \in DOMAIN old.matches}
              all == {Moved(new.matches[i]) : i \in DOMAIN new.matches}
              before(ms, m) == {o \in ms : Flat(o) < Flat(m)}
          IN /\ old.index # None /\ since = {} /\ since' = {}
             /\ term'.history \o term'.grid # term.history \o term.grid
             => \/ all = {}
                \/ LET was == ActiveMatch(ui)  is == Moved(ActiveMatch(ui'))
                       rank == Cardinality(before(all, is))
                       ranked == Cardinality(before(olds, was))
                   IN /\ rank = ranked \/ (rank < ranked /\ \A m \in all : Flat(m) <= Flat(is))
                      /\ was \in all /\ before(all, was) = before(olds, was) => is = was ]_vars
  BY DEF StaysStep, Shifted, Olds, News, Ahead, KeepsRank
<1> QED BY <1>1, <1>2, <1>3, SearchInvariance, PTL DEF Spec, ActiveMatchKept, ActiveMatchStays

===============================================================================
