--------------------------- MODULE SequenceLemmas ---------------------------
(***************************************************************************)
(* Induction and recursion for the other proofs.  The induction theorems   *)
(* of the library take the formula as an operator; here it is the set of   *)
(* the numbers it holds of, and the step of a recursion is a function.     *)
(***************************************************************************)
EXTENDS SequencesExt, SequenceTheorems, FiniteSetTheorems, TLAPS

(* Induction: a number that is not in S would have a least one below it.    *)
LEMMA NatSetInduction ==
  ASSUME NEW S, 0 \in S, \A n \in Nat : n \in S => n + 1 \in S
  PROVE  Nat \subseteq S
<1>1. SUFFICES ASSUME Nat \ S # {} PROVE FALSE
  OBVIOUS
<1>2. PICK x \in Nat \ S : \A y \in Nat \ S : ~ (<<y, x>> \in OpToRel(<, Nat))
  <2>1. Nat \ S \subseteq Nat OBVIOUS
  <2>2. QED BY <1>1, <2>1, NatLessThanWellFounded, WFMin, Zenon
<1>3. x # 0 /\ x - 1 \in Nat /\ x - 1 < x
  OBVIOUS
<1>4. <<x - 1, x>> \in OpToRel(<, Nat)
  BY <1>3, Zenon DEF OpToRel
<1>5. x - 1 \in S
  BY <1>2, <1>3, <1>4
<1> QED
  BY <1>3, <1>5

(* Induction up to a bound.                                                 *)
LEMMA IntervalInduction ==
  ASSUME NEW N \in Nat, NEW S, 0 \in S, \A n \in 0..(N - 1) : n \in S => n + 1 \in S
  PROVE  0..N \subseteq S
<1> DEFINE T == {n \in Nat : n <= N => n \in S}
<1>1. 0 \in T OBVIOUS
<1>2. \A n \in Nat : n \in T => n + 1 \in T OBVIOUS
<1>3. Nat \subseteq T BY <1>1, <1>2, NatSetInduction
<1> QED BY <1>3

(* The functions that start with base and take a step from each number to   *)
(* the next.                                                                *)
Iterations(V, base, N, step) ==
  {f \in [0..N -> V] : f[0] = base /\ \A n \in 0..(N - 1) : f[n + 1] = step[n][f[n]]}

(* Recursion: there is such a function.                                     *)
LEMMA IterationsExist ==
  ASSUME NEW V, NEW base \in V, NEW N \in Nat, NEW step \in [0..N -> [V -> V]]
  PROVE  Iterations(V, base, N, step) # {}
<1> DEFINE Upto(m) == \E f \in [0..m -> V] :
                        f[0] = base /\ \A n \in 0..(m - 1) : f[n + 1] = step[n][f[n]]
           I == {m \in Nat : Upto(m)}
<1>1. 0 \in I
  <2> DEFINE f == [i \in 0..0 |-> base]
  <2>1. f \in [0..0 -> V] /\ f[0] = base /\ 0..(0 - 1) = {} OBVIOUS
  <2> HIDE DEF f
  <2>2. Upto(0) BY <2>1
  <2> QED BY <2>2
<1>2. ASSUME NEW m \in 0..(N - 1), Upto(m) PROVE Upto(m + 1)
  <2>1. PICK f \in [0..m -> V] : f[0] = base /\ \A n \in 0..(m - 1) : f[n + 1] = step[n][f[n]]
    BY <1>2, Zenon
  <2>2. step[m][f[m]] \in V BY <2>1
  <2> DEFINE g == [i \in 0..(m + 1) |-> IF i = m + 1 THEN step[m][f[m]] ELSE f[i]]
  <2>3. g \in [0..(m + 1) -> V] BY <2>2
  <2>4. \A i \in 0..m : g[i] = f[i] OBVIOUS
  <2>5. g[m + 1] = step[m][f[m]] OBVIOUS
  <2> HIDE DEF g
  <2>6. g[0] = base BY <2>1, <2>4
  <2>7. ASSUME NEW n \in 0..m PROVE g[n + 1] = step[n][g[n]]
    <3>1. CASE n = m BY <2>4, <2>5, <3>1
    <3>2. CASE n \in 0..(m - 1)
      <4>1. n + 1 \in 0..m /\ n \in 0..m BY <3>2
      <4> QED BY <2>1, <2>4, <3>2, <4>1
    <3> QED BY <3>1, <3>2
  <2>8. (m + 1) - 1 = m BY <1>2
  <2> QED BY <2>3, <2>6, <2>7, <2>8
<1>3. 0..N \subseteq I
  <2> HIDE DEF Upto
  <2>1. \A m \in 0..(N - 1) : m \in I => m + 1 \in I BY <1>2
  <2> HIDE DEF I
  <2> QED BY <1>1, <2>1, IntervalInduction
<1> QED BY <1>3 DEF Iterations

(* A flattened sequence is made by appending its parts one by one.          *)
LEMMA FlattenSteps ==
  ASSUME NEW S, NEW seqs \in Seq(Seq(S)), seqs # <<>>
  PROVE  \E f \in [1..Len(seqs) -> Seq(S)] :
           /\ FlattenSeq(seqs) = f[Len(seqs)]
           /\ f[1] = seqs[1]
           /\ \A n \in 1..(Len(seqs) - 1) : f[n + 1] = f[n] \o seqs[n + 1]
<1> DEFINE N == Len(seqs)
           F(f) == [i \in 1..N |-> IF i = 1 THEN seqs[i] ELSE f[i - 1] \o seqs[i]]
           flatten == CHOOSE f : f = F(f)
           step == [n \in 0..(N - 1) |-> [s \in Seq(S) |-> s \o (IF n + 2 <= N THEN seqs[n + 2] ELSE <<>>)]]
<1>1. N \in Nat \ {0} /\ \A i \in 1..N : seqs[i] \in Seq(S)
  OBVIOUS
<1>2. step \in [0..(N - 1) -> [Seq(S) -> Seq(S)]]
  BY <1>1
<1>3. PICK g \in [0..(N - 1) -> Seq(S)] :
             g[0] = seqs[1] /\ \A n \in 0..(N - 1 - 1) : g[n + 1] = step[n][g[n]]
  <2> HIDE DEF step
  <2>1. N - 1 \in Nat /\ seqs[1] \in Seq(S) BY <1>1
  <2> HIDE DEF N
  <2>2. Iterations(Seq(S), seqs[1], N - 1, step) # {}
    BY <1>2, <2>1, IterationsExist
  <2> QED BY <2>2 DEF Iterations
<1>4. flatten = F(flatten)
  <2> DEFINE h == [i \in 1..N |-> g[i - 1]]
  <2>1. ASSUME NEW i \in 1..N PROVE h[i] = F(h)[i]
    <3>1. CASE i = 1 BY <1>3, <3>1
    <3>2. CASE i # 1
      <4>1. i - 2 \in 0..(N - 1 - 1) /\ i - 2 \in 0..(N - 1) /\ (i - 2) + 1 = i - 1 /\ (i - 2) + 2 = i /\ i - 1 \in 1..N
        BY <1>1, <3>2
      <4>2. g[i - 1] = step[i - 2][g[i - 2]] BY <1>3, <4>1
      <4>3. step[i - 2][g[i - 2]] = g[i - 2] \o seqs[i]
        <5>1. g[i - 2] \in Seq(S) BY <1>3, <4>1
        <5>2. step[i - 2][g[i - 2]] = g[i - 2] \o (IF (i - 2) + 2 <= N THEN seqs[(i - 2) + 2] ELSE <<>>)
          BY <4>1, <5>1, Zenon
        <5> HIDE DEF step
        <5>3. (i - 2) + 2 <= N /\ (i - 2) + 2 = i BY <1>1, <4>1
        <5> HIDE DEF h, F
        <5>4. (IF (i - 2) + 2 <= N THEN seqs[(i - 2) + 2] ELSE <<>>) = seqs[i] BY <5>3, Zenon
        <5> QED BY <5>2, <5>4, Zenon
      <4>4. h[i - 1] = g[i - 2] BY <4>1
      <4>5. F(h)[i] = h[i - 1] \o seqs[i] BY <3>2
      <4> QED BY <4>2, <4>3, <4>4, <4>5
    <3> QED BY <3>1, <3>2
  <2>2. h = F(h) BY <2>1
  <2> HIDE DEF F
  <2> QED BY <2>2
<1> HIDE DEF flatten
<1>5. flatten[1] = seqs[1]
  BY <1>1, <1>4
<1>6. ASSUME NEW n \in 1..(N - 1) PROVE flatten[n + 1] = flatten[n] \o seqs[n + 1]
  <2>1. n + 1 \in 1..N /\ n + 1 # 1 /\ (n + 1) - 1 = n BY <1>1
  <2>2. flatten[n + 1] = F(flatten)[n + 1] BY <1>4
  <2> QED BY <2>1, <2>2
<1> DEFINE J == {n \in Nat : flatten[n + 1] \in Seq(S)}
<1> HIDE DEF N
<1>7. 0..(N - 1) \subseteq J
  <2>1. 0 \in J BY <1>1, <1>5
  <2>2. \A n \in 0..(N - 1 - 1) : n \in J => n + 1 \in J
    <3> SUFFICES ASSUME NEW n \in 0..(N - 1 - 1), flatten[n + 1] \in Seq(S)
                 PROVE  flatten[n + 1 + 1] \in Seq(S)
      OBVIOUS
    <3>1. n + 1 \in 1..(N - 1) /\ n + 1 + 1 \in 1..N BY <1>1
    <3>2. flatten[n + 1 + 1] = flatten[n + 1] \o seqs[n + 1 + 1] BY <1>6, <3>1
    <3>3. seqs[n + 1 + 1] \in Seq(S) BY <1>1, <3>1
    <3> QED BY <3>2, <3>3
  <2>3. N - 1 \in Nat BY <1>1
  <2> HIDE DEF J
  <2> QED BY <2>1, <2>2, <2>3, IntervalInduction
<1>8. flatten \in [1..N -> Seq(S)]
  <2>1. ASSUME NEW i \in 1..N PROVE flatten[i] \in Seq(S)
    <3>1. i - 1 \in 0..(N - 1) BY <1>1
    <3>2. flatten[(i - 1) + 1] \in Seq(S) BY <1>7, <3>1
    <3> QED BY <3>2
  <2> QED BY <1>4, <2>1
<1>9. FlattenSeq(seqs) = flatten[N]
  BY <1>1 DEF FlattenSeq, flatten, N
<1> QED BY <1>5, <1>6, <1>8, <1>9 DEF N
(* Values that differ from one index to the next are as many as the indices. *)
LEMMA DistinctCount ==
  ASSUME NEW f, NEW n \in Nat, \A p, q \in 1..n : p # q => f[p] # f[q]
  PROVE  Cardinality({f[p] : p \in 1..n}) = n
<1> DEFINE S == {f[p] : p \in 1..n}  g == [p \in 1..n |-> f[p]]
<1>1. g \in [1..n -> S] OBVIOUS
<1>2. g \in Injection(1..n, S) BY <1>1 DEF Injection, IsInjective
<1>3. g \in Surjection(1..n, S) BY <1>1 DEF Surjection
<1>4. ExistsBijection(1..n, S) BY <1>2, <1>3 DEF ExistsBijection, Bijection
<1> HIDE DEF S, g
<1>5. Cardinality(S) = n BY <1>4, FS_CountingElements
<1> QED BY <1>5 DEF S

(* Induction over sequences: a set that holds the empty one, and with each  *)
(* one those that go one element further, holds all.                        *)
LEMMA AppendInduction ==
  ASSUME NEW S, NEW X, <<>> \in X,
         \A s \in Seq(S) : \A e \in S : s \in X => Append(s, e) \in X
  PROVE  Seq(S) \subseteq X
<1> DEFINE T == {n \in Nat : \A s \in Seq(S) : Len(s) = n => s \in X}
<1>1. 0 \in T BY EmptySeq
<1>2. ASSUME NEW n \in Nat, n \in T PROVE n + 1 \in T
  <2> SUFFICES ASSUME NEW s \in Seq(S), Len(s) = n + 1 PROVE s \in X OBVIOUS
  <2> DEFINE front == SubSeq(s, 1, n)  e == s[n + 1]
  <2>1. front \in Seq(S) /\ Len(front) = n /\ e \in S /\ \A i \in 1..n : front[i] = s[i]
    BY ElementOfSeq, SubSeqProperties
  <2> HIDE DEF front
  <2>2. front \in X BY <1>2, <2>1
  <2>3. Append(front, e) \in X BY <2>1, <2>2
  <2>4. s = Append(front, e)
    <3> HIDE DEF e
    <3>1. Append(front, e) \in Seq(S) /\ Len(Append(front, e)) = n + 1 /\ Append(front, e)[n + 1] = e
          /\ \A i \in 1..n : Append(front, e)[i] = front[i]
      BY <2>1, AppendProperties
    <3> DEFINE a == Append(front, e)
    <3> HIDE DEF a
    <3>2. \A i \in 1..(n + 1) : a[i] = s[i] BY <2>1, <3>1 DEF a, e
    <3>3. a = s BY <3>1, <3>2, SeqEqual DEF a
    <3> QED BY <3>3 DEF a
  <2> QED BY <2>3, <2>4
<1>3. Nat \subseteq T
  <2>1. \A n \in Nat : n \in T => n + 1 \in T BY <1>2
  <2> HIDE DEF T
  <2> QED BY <1>1, <2>1, NatSetInduction
<1> QED BY <1>3

(* Two functions that begin and go on alike are alike.                      *)
LEMMA SameSteps ==
  ASSUME NEW N \in Nat, NEW f, NEW g, f[0] = g[0],
         \A n \in 0..(N - 1) : f[n] = g[n] => f[n + 1] = g[n + 1]
  PROVE  f[N] = g[N]
<1> DEFINE I == {n \in Nat : f[n] = g[n]}
<1>1. 0 \in I /\ \A n \in 0..(N - 1) : n \in I => n + 1 \in I OBVIOUS
<1> HIDE DEF I
<1>2. 0..N \subseteq I BY <1>1, IntervalInduction
<1> QED BY <1>2 DEF I

(* Flattening, one part at a time and part by part.                         *)
LEMMA FlattenAppend ==
  ASSUME NEW S, NEW seqs \in Seq(Seq(S)), NEW s \in Seq(S)
  PROVE  /\ FlattenSeq(<<>>) = <<>> /\ FlattenSeq(seqs) \in Seq(S)
         /\ FlattenSeq(Append(seqs, s)) = FlattenSeq(seqs) \o s
<1> DEFINE N == Len(seqs)  more == Append(seqs, s)
<1>1. FlattenSeq(<<>>) = <<>> BY DEF FlattenSeq
<1>2. /\ N \in Nat /\ more \in Seq(Seq(S)) /\ Len(more) = N + 1 /\ more # <<>> /\ more[N + 1] = s
      /\ \A i \in 1..N : more[i] = seqs[i]
  BY AppendProperties
<1> HIDE DEF more
<1>3. PICK g \in [1..Len(more) -> Seq(S)] :
        /\ FlattenSeq(more) = g[Len(more)]
        /\ g[1] = more[1]
        /\ \A n \in 1..(Len(more) - 1) : g[n + 1] = g[n] \o more[n + 1]
  BY <1>2, FlattenSteps
<1>4. CASE seqs = <<>>
  <2>1. N = 0 BY <1>4
  <2>2. FlattenSeq(more) = s BY <1>2, <1>3, <2>1
  <2>3. <<>> \o s = s OBVIOUS
  <2>4. FlattenSeq(seqs) = <<>> BY <1>1, <1>4, Zenon
  <2>5. FlattenSeq(seqs) \o s = s BY <2>3, <2>4
  <2>6. FlattenSeq(seqs) \in Seq(S) BY <2>4
  <2> QED BY <1>1, <2>2, <2>5, <2>6, Zenon DEF more
<1>5. CASE seqs # <<>>
  <2>1. PICK f \in [1..N -> Seq(S)] :
          /\ FlattenSeq(seqs) = f[N]
          /\ f[1] = seqs[1]
          /\ \A n \in 1..(N - 1) : f[n + 1] = f[n] \o seqs[n + 1]
    BY <1>5, FlattenSteps
  <2>2. N \in Nat \ {0} BY <1>5
  <2> DEFINE F == [n \in 0..(N - 1) |-> f[n + 1]]  G == [n \in 0..(N - 1) |-> g[n + 1]]
  <2> HIDE DEF N
  <2>3. F[0] = G[0] BY <1>2, <1>3, <2>1, <2>2
  <2>4. \A n \in 0..(N - 1 - 1) : F[n] = G[n] => F[n + 1] = G[n + 1]
    <3> SUFFICES ASSUME NEW n \in 0..(N - 1 - 1), F[n] = G[n] PROVE F[n + 1] = G[n + 1] OBVIOUS
    <3>1. n + 1 \in 1..(N - 1) /\ n + 1 \in 1..(Len(more) - 1) /\ n + 1 + 1 \in 1..N
          /\ n + 1 \in 0..(N - 1) /\ n \in 0..(N - 1)
      BY <1>2, <2>2
    <3>2. f[n + 1 + 1] = f[n + 1] \o seqs[n + 1 + 1] /\ g[n + 1 + 1] = g[n + 1] \o more[n + 1 + 1]
      BY <1>3, <2>1, <3>1
    <3>3. more[n + 1 + 1] = seqs[n + 1 + 1] BY <1>2, <3>1
    <3>4. f[n + 1] = g[n + 1] BY <3>1
    <3>5. f[n + 1 + 1] = g[n + 1 + 1] BY <3>2, <3>3, <3>4
    <3> QED BY <3>1, <3>5
  <2>5. F[N - 1] = G[N - 1]
    <3>1. N - 1 \in Nat BY <2>2
    <3> HIDE DEF F, G
    <3> QED BY <2>3, <2>4, <3>1, SameSteps
  <2>6. f[N] = g[N]
    <3>1. N - 1 \in 0..(N - 1) /\ (N - 1) + 1 = N BY <2>2
    <3> QED BY <2>5, <3>1
  <2>7. g[N + 1] = g[N] \o more[N + 1]
    <3>1. N \in 1..(Len(more) - 1) BY <1>2, <2>2
    <3> QED BY <1>3, <3>1
  <2>8. FlattenSeq(seqs) \in Seq(S) BY <2>1, <2>2
  <2> QED BY <1>1, <1>2, <1>3, <2>1, <2>6, <2>7, <2>8 DEF more
<1> QED BY <1>1, <1>4, <1>5

LEMMA FlattenConcat ==
  ASSUME NEW S, NEW a \in Seq(Seq(S)), NEW b \in Seq(Seq(S))
  PROVE  FlattenSeq(a \o b) = FlattenSeq(a) \o FlattenSeq(b)
<1> DEFINE T == Seq(S)
           X == {x \in Seq(T) : FlattenSeq(a \o x) = FlattenSeq(a) \o FlattenSeq(x)}
<1>1. \A x \in Seq(T) : FlattenSeq(x) \in T BY FlattenAppend
<1>2. <<>> \in X
  <2>1. a \o <<>> = a /\ <<>> \in Seq(T) OBVIOUS
  <2>2. FlattenSeq(<<>>) = <<>> BY FlattenAppend
  <2>3. FlattenSeq(a) \o <<>> = FlattenSeq(a) BY <1>1
  <2> QED BY <2>1, <2>2, <2>3
<1>3. ASSUME NEW x \in Seq(T), NEW e \in T, x \in X PROVE Append(x, e) \in X
  <2>1. a \o Append(x, e) = Append(a \o x, e) /\ Append(x, e) \in Seq(T) /\ a \o x \in Seq(T)
    <3> HIDE DEF T
    <3> QED BY DEF T
  <2>2. FlattenSeq(Append(a \o x, e)) = FlattenSeq(a \o x) \o e
        /\ FlattenSeq(Append(x, e)) = FlattenSeq(x) \o e
    BY <2>1, FlattenAppend
  <2>3. FlattenSeq(a \o x) = FlattenSeq(a) \o FlattenSeq(x) BY <1>3
  <2>4. FlattenSeq(a) \in T /\ FlattenSeq(x) \in T BY <1>1
  <2>5. (FlattenSeq(a) \o FlattenSeq(x)) \o e = FlattenSeq(a) \o (FlattenSeq(x) \o e)
    BY <2>4, ConcatAssociative
  <2> QED BY <2>1, <2>2, <2>3, <2>5
<1>4. Seq(T) \subseteq X
  <2>1. \A x \in Seq(T) : \A e \in T : x \in X => Append(x, e) \in X BY <1>3
  <2> HIDE DEF X, T
  <2> QED BY <1>2, <2>1, AppendInduction
<1> QED BY <1>4

(* A sequence that is another one and an element, or two others, place by   *)
(* place.                                                                   *)
LEMMA AppendMade ==
  ASSUME NEW S, NEW s \in Seq(S), NEW e \in S, NEW u \in Seq(S),
         Len(u) = Len(s) + 1, \A i \in 1..Len(s) : u[i] = s[i], u[Len(s) + 1] = e
  PROVE  u = Append(s, e)
<1> DEFINE v == Append(s, e)
<1>1. v \in Seq(S) /\ Len(v) = Len(s) + 1 /\ v[Len(s) + 1] = e /\ \A i \in 1..Len(s) : v[i] = s[i]
  BY AppendProperties
<1> HIDE DEF v
<1>2. Len(u) = Len(v) BY <1>1
<1>3. ASSUME NEW i \in 1..Len(u) PROVE u[i] = v[i]
  <2>1. Len(s) \in Nat OBVIOUS
  <2>2. i \in 1..Len(s) \/ i = Len(s) + 1 BY <2>1
  <2> QED BY <1>1, <2>2
<1>4. u = v BY <1>1, <1>2, <1>3, SeqEqual
<1> QED BY <1>4 DEF v

LEMMA ConcatMade ==
  ASSUME NEW S, NEW a \in Seq(S), NEW b \in Seq(S), NEW u \in Seq(S),
         Len(u) = Len(a) + Len(b),
         \A i \in 1..Len(a) : u[i] = a[i],
         \A i \in 1..Len(b) : u[Len(a) + i] = b[i]
  PROVE  u = a \o b
<1> DEFINE v == a \o b
<1>1. /\ v \in Seq(S) /\ Len(v) = Len(a) + Len(b)
      /\ \A i \in 1..(Len(a) + Len(b)) : v[i] = IF i <= Len(a) THEN a[i] ELSE b[i - Len(a)]
  BY ConcatProperties
<1> HIDE DEF v
<1>2. Len(u) = Len(v) BY <1>1
<1>3. ASSUME NEW i \in 1..Len(u) PROVE u[i] = v[i]
  <2>1. Len(a) \in Nat /\ Len(b) \in Nat OBVIOUS
  <2>2. CASE i <= Len(a)
    <3>1. i \in 1..Len(a) BY <2>1, <2>2
    <3>2. v[i] = a[i] BY <1>1, <2>2
    <3> QED BY <3>1, <3>2
  <2>3. CASE ~(i <= Len(a))
    <3>1. i - Len(a) \in 1..Len(b) /\ Len(a) + (i - Len(a)) = i BY <2>1, <2>3
    <3>2. v[i] = b[i - Len(a)] BY <1>1, <2>3
    <3>3. u[Len(a) + (i - Len(a))] = b[i - Len(a)] BY <3>1
    <3> QED BY <3>1, <3>2, <3>3
  <2> QED BY <2>2, <2>3
<1>4. u = v BY <1>1, <1>2, <1>3, SeqEqual
<1> QED BY <1>4 DEF v

(* A sequence that is not empty is one with an element at its end.          *)
LEMMA LastSplit ==
  ASSUME NEW S, NEW s \in Seq(S), s # <<>>
  PROVE  \E r \in Seq(S) : \E e \in S : s = Append(r, e) /\ Len(s) = Len(r) + 1
<1> DEFINE n == Len(s) - 1  r == SubSeq(s, 1, n)  e == s[Len(s)]
<1>1. n \in Nat /\ Len(s) = n + 1 /\ e \in S /\ \A i \in 1..Len(s) : s[i] \in S
  BY EmptySeq, ElementOfSeq
<1>2. r \in Seq(S) /\ Len(r) = n /\ \A i \in 1..n : r[i] = s[i]
  <2>1. \A i \in 1..n : s[i] \in S BY <1>1
  <2> HIDE DEF n
  <2>2. /\ r \in Seq(S) /\ Len(r) = IF 1 <= n THEN n - 1 + 1 ELSE 0
        /\ \A i \in 1..(n - 1 + 1) : r[i] = s[1 + i - 1]
    BY <1>1, <2>1, SubSeqProperties
  <2> HIDE DEF r
  <2>3. \A i \in 1..n : r[i] = s[i]
    <3> SUFFICES ASSUME NEW i \in 1..n PROVE r[i] = s[i] OBVIOUS
    <3>1. i \in 1..(n - 1 + 1) /\ 1 + i - 1 = i BY <1>1
    <3> QED BY <2>2, <3>1
  <2> QED BY <1>1, <2>2, <2>3
<1>3. Len(s) = Len(r) + 1 /\ s[Len(r) + 1] = e BY <1>1, <1>2
<1> HIDE DEF n, r, e
<1>4. s = Append(r, e) BY <1>1, <1>2, <1>3, AppendMade
<1> QED BY <1>1, <1>2, <1>3, <1>4

(* A sequence is what comes up to a place and what comes behind it.         *)
LEMMA SeqSplit ==
  ASSUME NEW S, NEW s \in Seq(S), NEW m \in 0..Len(s)
  PROVE  /\ SubSeq(s, 1, m) \in Seq(S) /\ Len(SubSeq(s, 1, m)) = m
         /\ \A i \in 1..m : SubSeq(s, 1, m)[i] = s[i]
         /\ SubSeq(s, m + 1, Len(s)) \in Seq(S) /\ Len(SubSeq(s, m + 1, Len(s))) = Len(s) - m
         /\ \A i \in 1..(Len(s) - m) : SubSeq(s, m + 1, Len(s))[i] = s[m + i]
         /\ s = SubSeq(s, 1, m) \o SubSeq(s, m + 1, Len(s))
<1> DEFINE N == Len(s)  front == SubSeq(s, 1, m)  rest == SubSeq(s, m + 1, N)
<1>1. N \in Nat /\ m \in Nat /\ m <= N /\ \A i \in 1..N : s[i] \in S
  BY LenProperties, ElementOfSeq
<1> HIDE DEF N
<1>2. front \in Seq(S) /\ Len(front) = m /\ \A i \in 1..m : front[i] = s[i]
  <2>1. \A i \in 1..m : s[i] \in S BY <1>1
  <2>2. /\ front \in Seq(S) /\ Len(front) = IF 1 <= m THEN m - 1 + 1 ELSE 0
        /\ \A i \in 1..(m - 1 + 1) : front[i] = s[1 + i - 1]
    BY <1>1, <2>1, SubSeqProperties
  <2> HIDE DEF front
  <2>3. \A i \in 1..m : front[i] = s[i]
    <3> SUFFICES ASSUME NEW i \in 1..m PROVE front[i] = s[i] OBVIOUS
    <3>1. i \in 1..(m - 1 + 1) /\ 1 + i - 1 = i BY <1>1
    <3> QED BY <2>2, <3>1
  <2> QED BY <1>1, <2>2, <2>3
<1>3. rest \in Seq(S) /\ Len(rest) = N - m /\ \A i \in 1..(N - m) : rest[i] = s[m + i]
  <2>1. \A i \in (m + 1)..N : s[i] \in S BY <1>1
  <2>2. /\ rest \in Seq(S) /\ Len(rest) = IF m + 1 <= N THEN N - (m + 1) + 1 ELSE 0
        /\ \A i \in 1..(N - (m + 1) + 1) : rest[i] = s[(m + 1) + i - 1]
    BY <1>1, <2>1, SubSeqProperties
  <2> HIDE DEF rest
  <2>3. \A i \in 1..(N - m) : rest[i] = s[m + i]
    <3> SUFFICES ASSUME NEW i \in 1..(N - m) PROVE rest[i] = s[m + i] OBVIOUS
    <3>1. i \in 1..(N - (m + 1) + 1) /\ (m + 1) + i - 1 = m + i BY <1>1
    <3> QED BY <2>2, <3>1
  <2> QED BY <1>1, <2>2, <2>3
<1> HIDE DEF front, rest
<1>4. s = front \o rest
  <2>1. /\ Len(s) = Len(front) + Len(rest)
        /\ \A i \in 1..Len(front) : s[i] = front[i]
        /\ \A i \in 1..Len(rest) : s[Len(front) + i] = rest[i]
    BY <1>1, <1>2, <1>3 DEF N
  <2> QED BY <1>2, <1>3, <2>1, ConcatMade
<1> QED BY <1>1, <1>2, <1>3, <1>4 DEF N, front, rest

(* The front of a sequence grows element by element.                        *)
LEMMA FrontGrows ==
  ASSUME NEW S, NEW s \in Seq(S)
  PROVE  /\ SubSeq(s, 1, 0) = <<>> /\ SubSeq(s, 1, Len(s)) = s
         /\ \A n \in 0..(Len(s) - 1) : SubSeq(s, 1, n + 1) = Append(SubSeq(s, 1, n), s[n + 1])
<1>1. ASSUME NEW n \in 0..(Len(s) - 1) PROVE SubSeq(s, 1, n + 1) = Append(SubSeq(s, 1, n), s[n + 1])
  <2> DEFINE a == SubSeq(s, 1, n)  b == SubSeq(s, 1, n + 1)  e == s[n + 1]
  <2>1. n \in 0..Len(s) /\ n + 1 \in 0..Len(s) /\ n + 1 \in 1..Len(s) /\ n \in Nat BY LenProperties
  <2>2. e \in S BY <2>1, ElementOfSeq
  <2>3. a \in Seq(S) /\ Len(a) = n /\ \A i \in 1..n : a[i] = s[i] BY <2>1, SeqSplit
  <2>4. b \in Seq(S) /\ Len(b) = n + 1 /\ \A i \in 1..(n + 1) : b[i] = s[i] BY <2>1, SeqSplit
  <2> HIDE DEF a, b
  <2>5. \A i \in 1..n : b[i] = a[i]
    <3>1. \A i \in 1..n : i \in 1..(n + 1) BY <2>1
    <3> QED BY <2>3, <2>4, <3>1
  <2>6. b[n + 1] = e
    <3>1. n + 1 \in 1..(n + 1) BY <2>1
    <3> QED BY <2>4, <3>1
  <2> HIDE DEF e
  <2>7. Len(b) = Len(a) + 1 /\ (\A i \in 1..Len(a) : b[i] = a[i]) /\ b[Len(a) + 1] = e
    BY <2>3, <2>4, <2>5, <2>6
  <2>8. b = Append(a, e) BY <2>2, <2>3, <2>4, <2>7, AppendMade
  <2> QED BY <2>8 DEF a, b, e
<1> QED BY <1>1

=============================================================================
