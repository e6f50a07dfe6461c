---------------------------- MODULE Registry_proofs ----------------------------
(***************************************************************************)
(* What a program finds in the registry is what the one before it had, for *)
(* all contract ids, classes, locations, entries and values, whatever is   *)
(* registered meanwhile, in whatever order the tables are written, and     *)
(* wherever the writing is stopped.                                        *)
(***************************************************************************)
EXTENDS Registry, FiniteSetTheorems, SequenceTheorems, WellFoundedInduction, TLAPS

(* INDUCTION AND FOLDS *)
LEMMA Smallest ==
  ASSUME NEW T, T \subseteq Nat, T # {}
  PROVE  \E x \in T : \A y \in T : x <= y
<1> DEFINE R == OpToRel(<, Nat)
<1>1. IsWellFoundedOn(R, Nat) BY NatLessThanWellFounded
<1> HIDE DEF R
<1>2. PICK x \in T : \A y \in T : ~(<<y, x>> \in R) BY <1>1, WFMin
<1>3. ASSUME NEW y \in T PROVE x <= y
  <2>1. x \in Nat /\ y \in Nat OBVIOUS
  <2>2. y < x => <<y, x>> \in R BY <2>1 DEF R, OpToRel
  <2> QED BY <1>2, <2>1, <2>2
<1> QED BY <1>3

LEMMA Induction ==
  ASSUME NEW S, 0 \in S, \A n \in Nat : n \in S => n + 1 \in S
  PROVE  Nat \subseteq S
<1> SUFFICES ASSUME Nat \ S # {} PROVE FALSE OBVIOUS
<1>1. PICK x \in Nat \ S : \A y \in Nat \ S : x <= y BY Smallest
<1>2. x # 0 /\ x \in Nat OBVIOUS
<1>3. x - 1 \in Nat /\ ~(x <= x - 1) BY <1>2
<1>4. x - 1 \in S BY <1>1, <1>3
<1>5. (x - 1) + 1 \in S BY <1>3, <1>4
<1> QED BY <1>2, <1>5

LEMMA MaxIsIn ==
  ASSUME NEW n \in Nat, NEW T \in SUBSET (1..n), T # {}
  PROVE  Max(T) \in T
<1> DEFINE U == {n - t : t \in T}
<1>1. U \subseteq Nat /\ U # {}
  <2>1. \A t \in T : n - t \in Nat OBVIOUS
  <2> QED BY <2>1
<1>2. PICK u \in U : \A v \in U : u <= v BY <1>1, Smallest
<1>3. PICK t \in T : u = n - t BY <1>2
<1>4. \A s \in T : t >= s
  <2> TAKE s \in T
  <2>1. n - t <= n - s BY <1>2, <1>3
  <2> QED BY <2>1
<1> QED BY <1>4 DEF Max

(* A fold whose steps stay within sets Iv[T], of what they may find when    *)
(* the elements in T are done: it is defined, and stays within them.        *)
Picks(S, pick) == \A T \in SUBSET S : T # {} => pick[T] \in T
Steps(S, pick, step, Iv) ==
  \A T \in SUBSET S : T # {} => \A x \in Iv[T \ {pick[T]}] : step[T][x] \in Iv[T]
IsFold(g, S, base, pick, step, Iv) ==
  /\ g = [T \in SUBSET S |-> IF T = {} THEN base ELSE step[T][g[T \ {pick[T]}]]]
  /\ \A T \in SUBSET S : g[T] \in Iv[T]
Stays(S, g, pick, Iv) ==
  \A T \in SUBSET S : T # {} /\ g[T \ {pick[T]}] \in Iv[T \ {pick[T]}] => g[T] \in Iv[T]

LEMMA FoldExists ==
  ASSUME NEW S, IsFiniteSet(S), NEW base, NEW pick, NEW step, NEW Iv,
         Picks(S, pick), base \in Iv[{}], Steps(S, pick, step, Iv)
  PROVE  \E g : IsFold(g, S, base, pick, step, Iv)
<1> USE DEF Picks, Steps
<1> DEFINE Next1(h, T) == IF T = {} THEN base ELSE step[T][h[T \ {pick[T]}]]
           Upto(h, n) == \A T \in SUBSET S : Cardinality(T) <= n =>
                                              h[T] \in Iv[T] /\ h[T] = Next1(h, T)
           N == {n \in Nat : \E h : Upto(h, n)}
<1>0. \A T \in SUBSET S : IsFiniteSet(T) /\ Cardinality(T) \in Nat BY FS_Subset, FS_CardinalityType
<1>1. 0 \in N
  <2> DEFINE h == [T \in SUBSET S |-> base]
  <2>1. \A T \in SUBSET S : Cardinality(T) <= 0 => T = {} BY <1>0, FS_EmptySet
  <2>2. Upto(h, 0) BY <2>1
  <2> QED BY <2>2
<1>2. ASSUME NEW n \in Nat, n \in N PROVE n + 1 \in N
  <2> PICK h : Upto(h, n) BY <1>2
  <2> DEFINE k == [T \in SUBSET S |-> IF Cardinality(T) <= n THEN h[T] ELSE Next1(h, T)]
  <2>1. ASSUME NEW T \in SUBSET S, Cardinality(T) <= n + 1
        PROVE  k[T] \in Iv[T] /\ k[T] = Next1(k, T)
    <3>1. CASE T = {}
      <4>1. Cardinality(T) <= n BY <3>1, FS_EmptySet
      <4> QED BY <3>1, <4>1
    <3>2. CASE T # {}
      <4> DEFINE U == T \ {pick[T]}
      <4>1. pick[T] \in T /\ U \in SUBSET S BY <3>2
      <4>2. Cardinality(U) = Cardinality(T) - 1 BY <1>0, <4>1, FS_RemoveElement
      <4>3. Cardinality(U) <= n /\ Cardinality(T) \in Nat BY <1>0, <2>1, <4>2
      <4>4. k[U] = h[U] /\ h[U] \in Iv[U] BY <4>1, <4>3
      <4>5. Next1(k, T) = Next1(h, T) BY <3>2, <4>4
      <4>6. step[T][h[U]] \in Iv[T] BY <3>2, <4>4
      <4>7. CASE Cardinality(T) <= n BY <4>5, <4>7
      <4>8. CASE ~(Cardinality(T) <= n) BY <3>2, <4>5, <4>6, <4>8
      <4> QED BY <4>7, <4>8
    <3> QED BY <3>1, <3>2
  <2>2. Upto(k, n + 1)
    <3> HIDE DEF k, Next1
    <3> QED BY <2>1
  <2>3. \E f : Upto(f, n + 1)
    <3> HIDE DEF k, Upto
    <3> QED BY <2>2
  <2> HIDE DEF Upto
  <2> QED BY <2>3
<1>3. Cardinality(S) \in N
  <2> HIDE DEF N
  <2>1. Nat \subseteq N BY <1>1, <1>2, Induction
  <2> QED BY <1>0, <2>1
<1>4. PICK h : Upto(h, Cardinality(S)) BY <1>3
<1>5. \A T \in SUBSET S : h[T] \in Iv[T] /\ h[T] = Next1(h, T) BY <1>4, FS_Subset
<1> DEFINE g == [T \in SUBSET S |-> h[T]]
<1>6. \A T \in SUBSET S : g[T] \in Iv[T] /\ g[T] = Next1(g, T)
  <2> TAKE T \in SUBSET S
  <2>1. T \ {pick[T]} \in SUBSET S OBVIOUS
  <2> QED BY <1>5, <2>1
<1>7. g = [T \in SUBSET S |-> Next1(g, T)] BY <1>6
<1>8. IsFold(g, S, base, pick, step, Iv) BY <1>6, <1>7 DEF IsFold
<1> HIDE DEF g
<1> QED BY <1>8

LEMMA FoldStays ==
  ASSUME NEW S, IsFiniteSet(S), NEW g, NEW pick, NEW Iv,
         Picks(S, pick), g[{}] \in Iv[{}], Stays(S, g, pick, Iv)
  PROVE  g[S] \in Iv[S]
<1> USE DEF Picks, Stays
<1> DEFINE N == {n \in Nat : \A T \in SUBSET S : Cardinality(T) <= n => g[T] \in Iv[T]}
<1>0. \A T \in SUBSET S : IsFiniteSet(T) /\ Cardinality(T) \in Nat BY FS_Subset, FS_CardinalityType
<1>1. 0 \in N
  <2>1. \A T \in SUBSET S : Cardinality(T) <= 0 => T = {} BY <1>0, FS_EmptySet
  <2> QED BY <2>1
<1>2. ASSUME NEW n \in Nat, n \in N PROVE n + 1 \in N
  <2>1. ASSUME NEW T \in SUBSET S, Cardinality(T) <= n + 1 PROVE g[T] \in Iv[T]
    <3>1. CASE T = {} BY <3>1
    <3>2. CASE T # {}
      <4> DEFINE U == T \ {pick[T]}
      <4>1. pick[T] \in T /\ U \in SUBSET S BY <3>2
      <4>2. Cardinality(U) = Cardinality(T) - 1 BY <1>0, <4>1, FS_RemoveElement
      <4>3. Cardinality(U) <= n BY <1>0, <2>1, <4>2
      <4>4. g[U] \in Iv[U] BY <1>2, <4>1, <4>3
      <4> QED BY <3>2, <4>4
    <3> QED BY <3>1, <3>2
  <2> QED BY <2>1
<1>3. Cardinality(S) \in N
  <2> HIDE DEF N
  <2>1. Nat \subseteq N BY <1>1, <1>2, Induction
  <2> QED BY <1>0, <2>1
<1> QED BY <1>0, <1>3

(* Sequences of sequences: f lists the elements of the first n of ss, each  *)
(* at a row and a column, in the order of the rows.                         *)
Enumerates(f, ss, n, row, col) ==
  /\ row \in [1..Len(f) -> 1..n] /\ col \in [1..Len(f) -> Nat]
  /\ \A x \in 1..Len(f) : col[x] \in 1..Len(ss[row[x]]) /\ f[x] = ss[row[x]][col[x]]
  /\ \A x, y \in 1..Len(f) :
       x < y => row[x] < row[y] \/ (row[x] = row[y] /\ col[x] < col[y])
  /\ \A i \in 1..n : \A j \in 1..Len(ss[i]) :
       \E x \in 1..Len(f) : row[x] = i /\ col[x] = j

FlattenStep(ss, g, i) == IF i = 1 THEN ss[i] ELSE g[i - 1] \o ss[i]

LEMMA FlattenExists ==
  ASSUME NEW ss, NEW n \in Nat
  PROVE  \E g : g = [i \in 1..n |-> FlattenStep(ss, g, i)]
<1> DEFINE S == {m \in Nat : \E g : g = [i \in 1..m |-> FlattenStep(ss, g, i)]}
<1>1. 0 \in S
  <2> DEFINE g == [i \in 1..0 |-> 0]
  <2>1. \A h : g = [i \in 1..0 |-> FlattenStep(ss, h, i)] OBVIOUS
  <2>2. g = [i \in 1..0 |-> FlattenStep(ss, g, i)] BY <2>1
  <2> HIDE DEF g
  <2> QED BY <2>2
<1>2. ASSUME NEW m \in Nat, m \in S PROVE m + 1 \in S
  <2>1. PICK g : g = [i \in 1..m |-> FlattenStep(ss, g, i)] BY <1>2
  <2> DEFINE h == [i \in 1..m + 1 |-> IF i = m + 1 THEN FlattenStep(ss, g, i) ELSE g[i]]
  <2>2. ASSUME NEW i \in 1..m + 1 PROVE h[i] = FlattenStep(ss, h, i)
    <3>1. i # 1 => i - 1 \in 1..m + 1 /\ i - 1 # m + 1 OBVIOUS
    <3>2. i # 1 => h[i - 1] = g[i - 1] BY <3>1
    <3>3. FlattenStep(ss, h, i) = FlattenStep(ss, g, i) BY <3>2 DEF FlattenStep
    <3>4. CASE i = m + 1 BY <3>3, <3>4
    <3>5. CASE i # m + 1
      <4>1. i \in 1..m BY <3>5
      <4>2. g[i] = FlattenStep(ss, g, i) BY <2>1, <4>1
      <4> QED BY <3>3, <3>5, <4>2
    <3> QED BY <3>4, <3>5
  <2>3. h = [i \in 1..m + 1 |-> h[i]] OBVIOUS
  <2>4. h = [i \in 1..m + 1 |-> FlattenStep(ss, h, i)]
    <3> HIDE DEF h
    <3> QED BY <2>2, <2>3
  <2> QED
    <3> HIDE DEF h
    <3> QED BY <2>4
<1>3. Nat \subseteq S
  <2> HIDE DEF S
  <2> QED BY <1>1, <1>2, Induction
<1> QED BY <1>3

LEMMA EnumeratesJoined ==
  ASSUME NEW T, NEW ss \in Seq(Seq(T)), NEW n \in Nat, n + 1 \in 1..Len(ss),
         NEW f \in Seq(T), NEW row, NEW col, Enumerates(f, ss, n, row, col)
  PROVE  /\ f \o ss[n + 1] \in Seq(T)
         /\ \E r, c : Enumerates(f \o ss[n + 1], ss, n + 1, r, c)
<1> DEFINE last == ss[n + 1]
           h == f \o last
           k == Len(f)
           l == Len(last)
           r == [x \in 1..k + l |-> IF x <= k THEN row[x] ELSE n + 1]
           c == [x \in 1..k + l |-> IF x <= k THEN col[x] ELSE x - k]
<1>1. last \in Seq(T) BY ElementOfSeq
<1>2. k \in Nat /\ l \in Nat
  <2> HIDE DEF last
  <2> QED BY <1>1, LenProperties
<1>3. /\ h \in Seq(T) /\ Len(h) = k + l
      /\ \A i \in 1..k + l : h[i] = IF i <= k THEN f[i] ELSE last[i - k]
  <2> HIDE DEF last
  <2> QED BY <1>1, ConcatProperties
<1> HIDE DEF h, l, k
<1>4. /\ row \in [1..k -> 1..n] /\ col \in [1..k -> Nat]
      /\ \A x \in 1..k : col[x] \in 1..Len(ss[row[x]]) /\ f[x] = ss[row[x]][col[x]]
      /\ \A x, y \in 1..k : x < y => row[x] < row[y] \/ (row[x] = row[y] /\ col[x] < col[y])
      /\ \A i \in 1..n : \A j \in 1..Len(ss[i]) : \E x \in 1..k : row[x] = i /\ col[x] = j
  BY DEF Enumerates, k
<1>5. ASSUME NEW x \in 1..k + l
      PROVE  /\ r[x] \in 1..n + 1 /\ c[x] \in Nat
             /\ c[x] \in 1..Len(ss[r[x]]) /\ h[x] = ss[r[x]][c[x]]
  <2>1. CASE x <= k
    <3>1. x \in 1..k /\ r[x] = row[x] /\ c[x] = col[x] BY <1>2, <2>1
    <3>2. h[x] = f[x] BY <1>3, <2>1
    <3>3. row[x] \in 1..n /\ col[x] \in Nat BY <1>4, <3>1
    <3> HIDE DEF r, c
    <3> QED BY <1>4, <3>1, <3>2, <3>3
  <2>2. CASE ~(x <= k)
    <3>1. r[x] = n + 1 /\ c[x] = x - k /\ x - k \in 1..l BY <1>2, <2>2
    <3>2. h[x] = last[x - k] BY <1>3, <2>2
    <3> QED BY <1>2, <3>1, <3>2 DEF l
  <2> QED BY <2>1, <2>2
<1>6. ASSUME NEW x \in 1..k + l, NEW y \in 1..k + l, x < y
      PROVE  r[x] < r[y] \/ (r[x] = r[y] /\ c[x] < c[y])
  <2>1. CASE y <= k
    <3>1. x \in 1..k /\ y \in 1..k /\ x <= k BY <1>2, <1>6, <2>1
    <3>2. r[x] = row[x] /\ c[x] = col[x] /\ r[y] = row[y] /\ c[y] = col[y] BY <2>1, <3>1
    <3> HIDE DEF r, c
    <3> QED BY <1>4, <1>6, <3>1, <3>2
  <2>2. CASE ~(y <= k) /\ x <= k
    <3>1. x \in 1..k /\ r[x] = row[x] /\ r[y] = n + 1 BY <1>2, <2>2
    <3>2. row[x] \in 1..n BY <1>4, <3>1
    <3> QED BY <3>1, <3>2
  <2>3. CASE ~(x <= k)
    <3>1. ~(y <= k) BY <1>2, <1>6, <2>3
    <3>2. r[x] = n + 1 /\ r[y] = n + 1 /\ c[x] = x - k /\ c[y] = y - k BY <2>3, <3>1
    <3>3. x - k < y - k BY <1>2, <1>6
    <3> QED BY <3>2, <3>3
  <2> QED BY <2>1, <2>2, <2>3
<1>7. ASSUME NEW i \in 1..n + 1, NEW j \in 1..Len(ss[i])
      PROVE  \E x \in 1..k + l : r[x] = i /\ c[x] = j
  <2>1. CASE i \in 1..n
    <3>1. PICK x \in 1..k : row[x] = i /\ col[x] = j BY <1>4, <2>1
    <3>2. x \in 1..k + l /\ x <= k BY <1>2
    <3>3. r[x] = i /\ c[x] = j BY <3>1, <3>2
    <3> QED BY <3>2, <3>3
  <2>2. CASE i = n + 1
    <3>1. j \in 1..l BY <2>2 DEF l
    <3> DEFINE x == k + j
    <3>2. x \in 1..k + l /\ ~(x <= k) /\ x - k = j BY <1>2, <3>1
    <3>3. r[x] = i /\ c[x] = j BY <2>2, <3>2
    <3> QED BY <3>2, <3>3
  <2>3. i \in 1..n \/ i = n + 1 OBVIOUS
  <2> QED BY <2>1, <2>2, <2>3
<1>8. r \in [1..k + l -> 1..n + 1] /\ c \in [1..k + l -> Nat]
  <2>1. \A x \in 1..k + l : r[x] \in 1..n + 1 /\ c[x] \in Nat BY <1>5
  <2>2. r = [x \in 1..k + l |-> r[x]] /\ c = [x \in 1..k + l |-> c[x]] OBVIOUS
  <2> HIDE DEF r, c
  <2> QED BY <2>1, <2>2
<1> HIDE DEF r, c
<1>9. Enumerates(h, ss, n + 1, r, c) BY <1>3, <1>5, <1>6, <1>7, <1>8 DEF Enumerates
<1> QED BY <1>3, <1>9 DEF h

LEMMA FlattenFact ==
  ASSUME NEW T, NEW ss \in Seq(Seq(T))
  PROVE  /\ FlattenSeq(ss) \in Seq(T)
         /\ \E row, col : Enumerates(FlattenSeq(ss), ss, Len(ss), row, col)
<1>0. Len(ss) \in Nat BY LenProperties
<1>1. CASE Len(ss) = 0
  <2>1. ss = <<>> BY <1>1, EmptySeq
  <2>2. FlattenSeq(ss) = <<>> BY <1>1, <2>1 DEF FlattenSeq
  <2> DEFINE e == <<>>
             r == [x \in 1..0 |-> 0]
  <2>3. e \in Seq(T) /\ Len(e) = 0 OBVIOUS
  <2> HIDE DEF e
  <2>4. r \in [1..0 -> 1..0] /\ r \in [1..0 -> Nat] OBVIOUS
  <2> HIDE DEF r
  <2>5. \A x \in 1..0 : FALSE OBVIOUS
  <2>6. Enumerates(e, ss, 0, r, r) BY <2>3, <2>4, <2>5 DEF Enumerates
  <2> QED BY <1>1, <2>2, <2>3, <2>6 DEF e
<1>2. CASE Len(ss) # 0
  <2> DEFINE n == Len(ss)
             g == CHOOSE h : h = [i \in 1..n |-> FlattenStep(ss, h, i)]
             S == {m \in Nat : m + 1 <= n =>
                     g[m + 1] \in Seq(T) /\ \E r, c : Enumerates(g[m + 1], ss, m + 1, r, c)}
  <2>1. n \in Nat /\ n # 0 BY <1>0, <1>2
  <2>2. FlattenSeq(ss) = g[n] BY <1>2 DEF FlattenSeq, FlattenStep
  <2> HIDE DEF n
  <2>3. g = [i \in 1..n |-> FlattenStep(ss, g, i)]
    <3>1. \E h : h = [i \in 1..n |-> FlattenStep(ss, h, i)] BY <2>1, FlattenExists
    <3> QED BY <3>1
  <2> HIDE DEF g
  <2>4. \A i \in 1..n : g[i] = FlattenStep(ss, g, i) BY <2>3
  <2>5. 0 \in S
    <3>1. g[1] = ss[1] /\ ss[1] \in Seq(T) BY <2>1, <2>4, ElementOfSeq DEF FlattenStep, n
    <3> DEFINE f == g[1]
               l == Len(f)
               r == [x \in 1..l |-> 1]
               c == [x \in 1..l |-> x]
    <3>2. l \in Nat BY <3>1, LenProperties
    <3>3. f = ss[1] BY <3>1
    <3> HIDE DEF f
    <3>4. /\ r \in [1..l -> 1..1] /\ c \in [1..l -> Nat]
          /\ \A x \in 1..l : r[x] = 1 /\ c[x] = x
      BY <3>2
    <3> HIDE DEF r, c
    <3>5. \A x \in 1..l : c[x] \in 1..Len(ss[r[x]]) /\ f[x] = ss[r[x]][c[x]] BY <3>3, <3>4
    <3>6. \A x, y \in 1..l : x < y => r[x] = r[y] /\ c[x] < c[y] BY <3>4
    <3>7. \A i \in 1..1 : \A j \in 1..Len(ss[i]) : \E x \in 1..l : r[x] = i /\ c[x] = j
      BY <3>3, <3>4
    <3>8. Enumerates(f, ss, 1, r, c) BY <3>4, <3>5, <3>6, <3>7 DEF Enumerates
    <3>9. 0 + 1 = 1 OBVIOUS
    <3> QED BY <3>1, <3>8, <3>9 DEF f
  <2>6. ASSUME NEW m \in Nat, m \in S PROVE m + 1 \in S
    <3>1. SUFFICES ASSUME (m + 1) + 1 <= n
                   PROVE  /\ g[(m + 1) + 1] \in Seq(T)
                          /\ \E r, c : Enumerates(g[(m + 1) + 1], ss, (m + 1) + 1, r, c)
      OBVIOUS
    <3>2. m + 1 <= n /\ (m + 1) + 1 \in 1..n /\ (m + 1) + 1 # 1 /\ ((m + 1) + 1) - 1 = m + 1
      BY <2>1, <3>1
    <3>3. PICK r, c : g[m + 1] \in Seq(T) /\ Enumerates(g[m + 1], ss, m + 1, r, c)
      BY <2>6, <3>2
    <3>4. g[(m + 1) + 1] = g[m + 1] \o ss[(m + 1) + 1]
      BY <2>4, <3>2 DEF FlattenStep
    <3> DEFINE k == m + 1
               f == g[k]
    <3>5. k \in Nat /\ k + 1 \in 1..Len(ss) /\ f \in Seq(T) /\ Enumerates(f, ss, k, r, c)
      BY <3>2, <3>3 DEF n
    <3> HIDE DEF k, f, S
    <3>6. f \o ss[k + 1] \in Seq(T) /\ \E q, p : Enumerates(f \o ss[k + 1], ss, k + 1, q, p)
      BY <3>5, EnumeratesJoined
    <3> QED BY <3>4, <3>6 DEF f, k
  <2>7. n - 1 \in S
    <3> HIDE DEF S
    <3> QED BY <2>1, <2>5, <2>6, Induction
  <2>8. n - 1 + 1 = n BY <2>1
  <2> QED BY <2>1, <2>2, <2>7, <2>8 DEF n
<1> QED BY <1>1, <1>2


-----------------------------------------------------------------------------
(* The elements of a finite set, each once.                                 *)
LEMMA SetToSeqFact ==
  ASSUME NEW S, IsFiniteSet(S)
  PROVE  /\ SetToSeq(S) \in [1..Cardinality(S) -> S] /\ Cardinality(S) \in Nat
         /\ SetToSeq(S) \in Seq(S) /\ Len(SetToSeq(S)) = Cardinality(S)
         /\ \A x \in S : \E i \in 1..Cardinality(S) : SetToSeq(S)[i] = x
<1> DEFINE n == Cardinality(S)
           f == SetToSeq(S)
<1>1. n \in Nat /\ ExistsBijection(1..n, S) BY FS_CardinalityType
<1>2. PICK g : g \in Bijection(1..n, S) BY <1>1 DEF ExistsBijection
<1>3. g \in [1..n -> S] /\ IsInjective(g) BY <1>2 DEF Bijection, Injection
<1>4. f \in [1..n -> S] /\ IsInjective(f) BY <1>3 DEF SetToSeq
<1> HIDE DEF f
<1>5. IsFiniteSet(1..n) /\ Cardinality(1..n) = n
  <2> HIDE DEF n
  <2> QED BY <1>1, FS_Interval
<1>6. f \in Injection(1..n, S) BY <1>4 DEF Injection
<1>7. f \in Surjection(1..n, S) BY <1>5, <1>6, FS_Injection
<1>8. \A x \in S : \E i \in 1..n : f[i] = x BY <1>7 DEF Surjection
<1> HIDE DEF n
<1>9. f \in Seq(S) /\ Len(f) = n BY <1>1, <1>4
<1> QED BY <1>1, <1>4, <1>8, <1>9 DEF f, n

(* What is put in front of a sequence, and the rest of it.                  *)
LEMMA PartFact ==
  ASSUME NEW S, NEW s \in Seq(S), NEW m \in Nat \ {0}, NEW n \in Nat, m <= n + 1, n <= Len(s)
  PROVE  /\ SubSeq(s, m, n) \in Seq(S) /\ Len(SubSeq(s, m, n)) = n - m + 1
         /\ \A i \in 1..n - m + 1 : SubSeq(s, m, n)[i] = s[m + i - 1]
<1>1. Len(s) \in Nat BY LenProperties
<1>2. ASSUME NEW i \in m..n PROVE s[i] \in S
  <2>1. i \in 1..Len(s) BY <1>1
  <2> QED BY <2>1, ElementOfSeq
<1>3. m \in Int /\ n \in Int OBVIOUS
<1>4. /\ SubSeq(s, m, n) \in Seq(S)
      /\ Len(SubSeq(s, m, n)) = IF m <= n THEN n - m + 1 ELSE 0
      /\ \A i \in 1..n - m + 1 : SubSeq(s, m, n)[i] = s[m + i - 1]
  BY <1>2, <1>3, SubSeqProperties
<1> QED BY <1>4

LEMMA FrontFact ==
  ASSUME NEW S, NEW s \in Seq(S), NEW n \in 0..Len(s)
  PROVE  /\ SubSeq(s, 1, n) \in Seq(S) /\ Len(SubSeq(s, 1, n)) = n
         /\ \A i \in 1..n : SubSeq(s, 1, n)[i] = s[i]
<1>1. Len(s) \in Nat /\ n \in Nat /\ n <= Len(s) BY LenProperties
<1> DEFINE m == 1
<1>2. m \in Nat \ {0} /\ m <= n + 1 /\ n - m + 1 = n /\ \A i \in 1..n : m + i - 1 = i BY <1>1
<1> HIDE DEF m
<1>3. /\ SubSeq(s, m, n) \in Seq(S) /\ Len(SubSeq(s, m, n)) = n - m + 1
      /\ \A i \in 1..n - m + 1 : SubSeq(s, m, n)[i] = s[m + i - 1]
  BY <1>1, <1>2, PartFact
<1>4. /\ SubSeq(s, m, n) \in Seq(S) /\ Len(SubSeq(s, m, n)) = n
      /\ \A i \in 1..n : SubSeq(s, m, n)[i] = s[i]
  BY <1>2, <1>3
<1> QED BY <1>4 DEF m

LEMMA BackFact ==
  ASSUME NEW S, NEW s \in Seq(S), NEW k \in 0..Len(s)
  PROVE  /\ SubSeq(s, k + 1, Len(s)) \in Seq(S) /\ Len(SubSeq(s, k + 1, Len(s))) = Len(s) - k
         /\ \A i \in 1..Len(s) - k : SubSeq(s, k + 1, Len(s))[i] = s[k + i]
<1> DEFINE m == k + 1
           n == Len(s)
<1>1. n \in Nat /\ k \in Nat /\ k <= n BY LenProperties
<1>2. m \in Nat \ {0} /\ m <= n + 1 /\ n - m + 1 = n - k
      /\ \A i \in 1..n - k : m + i - 1 = k + i
  BY <1>1
<1>3. n <= Len(s) BY <1>1
<1> HIDE DEF m, n
<1>4. /\ SubSeq(s, m, n) \in Seq(S) /\ Len(SubSeq(s, m, n)) = n - m + 1
      /\ \A i \in 1..n - m + 1 : SubSeq(s, m, n)[i] = s[m + i - 1]
  BY <1>1, <1>2, <1>3, PartFact
<1>5. /\ SubSeq(s, m, n) \in Seq(S) /\ Len(SubSeq(s, m, n)) = n - k
      /\ \A i \in 1..n - k : SubSeq(s, m, n)[i] = s[k + i]
  BY <1>2, <1>4
<1> QED BY <1>5 DEF m, n

-----------------------------------------------------------------------------
(* LINES *)
(* A word is any string. (That a string is in STRING has to be said.)       *)
Word == STRING \cup {"", "[HEADER]", "Version", "0", "1", "[CONTRACTIDS]", "[CATEGORIES]"}
Line == Seq(Word)
Phrase == Line \ {<<>>}

LEMMA TextIsPhrase == Text \subseteq Phrase
<1> SUFFICES ASSUME NEW t \in Text PROVE t \in Phrase OBVIOUS
<1>1. t \in Seq(STRING) /\ t # <<>> BY DEF Text
<1>2. STRING \subseteq Word BY DEF Word
<1>3. t \in Seq(Word) BY <1>1, <1>2, SeqMonotonic
<1> QED BY <1>1, <1>3 DEF Phrase, Line

LEMMA PhraseFact ==
  ASSUME NEW t \in Phrase
  PROVE  t \in Line /\ Len(t) \in Nat \ {0}
<1>1. t \in Seq(Word) /\ t # <<>> BY DEF Phrase, Line
<1> QED BY <1>1, EmptySeq DEF Line

LEMMA LineIsPhrase ==
  ASSUME NEW l \in Line, Len(l) # 0
  PROVE  l \in Phrase
<1>1. l # <<>> BY EmptySeq
<1> QED BY <1>1 DEF Phrase

LEMMA OneWord ==
  ASSUME NEW w \in Word
  PROVE  <<w>> \in Line /\ Len(<<w>>) = 1 /\ <<w>>[1] = w /\ <<w>> \in Phrase
<1>1. <<w>> \in Line /\ Len(<<w>>) = 1 /\ <<w>>[1] = w BY DEF Line
<1> QED BY <1>1, LineIsPhrase

(* Three sequences of words, one after the other.                           *)
Joins(l, a, b, c) ==
  /\ l \in Line /\ Len(l) = Len(a) + Len(b) + Len(c)
  /\ \A i \in 1..Len(a) : l[i] = a[i]
  /\ \A i \in 1..Len(b) : l[Len(a) + i] = b[i]
  /\ \A i \in 1..Len(c) : l[Len(a) + Len(b) + i] = c[i]

LEMMA JoinedThree ==
  ASSUME NEW a \in Line, NEW b \in Line, NEW c \in Line
  PROVE  Joins((a \o b) \o c, a, b, c)
<1> DEFINE p == Len(a)
           q == Len(b)
           r == Len(c)
           ab == a \o b
           l == ab \o c
<1>1. p \in Nat /\ q \in Nat /\ r \in Nat BY LenProperties DEF Line
<1>2. /\ ab \in Line /\ Len(ab) = p + q
      /\ \A i \in 1..p + q : ab[i] = IF i <= p THEN a[i] ELSE b[i - p]
  BY ConcatProperties DEF Line
<1> HIDE DEF ab
<1>3. /\ l \in Line /\ Len(l) = Len(ab) + r
      /\ \A i \in 1..Len(ab) + r : l[i] = IF i <= Len(ab) THEN ab[i] ELSE c[i - Len(ab)]
  <2>1. ab \in Seq(Word) /\ c \in Seq(Word) BY <1>2 DEF Line
  <2>2. /\ ab \o c \in Seq(Word) /\ Len(ab \o c) = Len(ab) + Len(c)
        /\ \A i \in 1..Len(ab) + Len(c) :
             (ab \o c)[i] = IF i <= Len(ab) THEN ab[i] ELSE c[i - Len(ab)]
    BY <2>1, ConcatProperties
  <2> QED BY <2>2 DEF Line
<1> HIDE DEF l, p, q, r
<1>4. Len(l) = p + q + r BY <1>1, <1>2, <1>3
<1>5. ASSUME NEW i \in 1..p PROVE l[i] = a[i] BY <1>1, <1>2, <1>3
<1>6. ASSUME NEW i \in 1..q PROVE l[p + i] = b[i]
  <2>1. p + i \in 1..p + q /\ ~(p + i <= p) /\ (p + i) - p = i BY <1>1
  <2>2. l[p + i] = ab[p + i] BY <1>1, <1>2, <1>3, <2>1
  <2> QED BY <1>2, <2>1, <2>2
<1>7. ASSUME NEW i \in 1..r PROVE l[p + q + i] = c[i]
  <2>1. p + q + i \in 1..p + q + r /\ ~(p + q + i <= p + q) /\ (p + q + i) - (p + q) = i
    BY <1>1
  <2> QED BY <1>1, <1>2, <1>3, <2>1
<1> QED BY <1>1, <1>3, <1>4, <1>5, <1>6, <1>7 DEF p, q, r, l, ab, Joins

-----------------------------------------------------------------------------
(* MANAGERS *)
(* Contracts are of classes with a location; what leaves are has no word of *)
(* its own: one that was read has a name of one word.                       *)
IsManager(m) ==
  /\ m = [contracts |-> m.contracts, locations |-> m.locations, leaves |-> m.leaves]
  /\ DOMAIN m.contracts \subseteq Contract /\ IsFiniteSet(DOMAIN m.contracts)
  /\ m.contracts \in [DOMAIN m.contracts -> DOMAIN m.locations]
  /\ DOMAIN m.locations \subseteq CID /\ m.locations \in [DOMAIN m.locations -> Phrase]
  /\ DOMAIN m.leaves \subseteq Phrase \X Phrase /\ IsFiniteSet(DOMAIN m.leaves)
  /\ m.leaves \in [DOMAIN m.leaves -> Phrase]

LEMMA WithFact ==
  ASSUME NEW S, NEW f, f \in [DOMAIN f -> S], NEW x, NEW y \in S
  PROVE  /\ DOMAIN With(f, x, y) = DOMAIN f \cup {x}
         /\ With(f, x, y) \in [DOMAIN With(f, x, y) -> S]
         /\ With(f, x, y)[x] = y
         /\ \A z \in DOMAIN f : z # x => With(f, x, y)[z] = f[z]
BY DEF With

LEMMA RegisterIs ==
  ASSUME NEW m, IsManager(m), NEW k, NEW c, NEW t
  PROVE  LET r == FactoryLocationRegistered(m, k, c, t)
         IN /\ r = [contracts |-> r.contracts, locations |-> r.locations, leaves |-> r.leaves]
            /\ r.contracts = With(m.contracts, k, c) /\ r.leaves = m.leaves
            /\ r.locations = IF c \in DOMAIN m.locations THEN m.locations
                             ELSE With(m.locations, c, t)
<1> DEFINE a == m.contracts
           b == m.locations
           d == m.leaves
<1>1. m = [contracts |-> a, locations |-> b, leaves |-> d] BY DEF IsManager
<1> HIDE DEF a, b, d
<1>2. FactoryLocationRegistered(m, k, c, t) =
        [contracts |-> With(a, k, c),
         locations |-> IF c \in DOMAIN b THEN b ELSE With(b, c, t), leaves |-> d]
  <2>1. m.contracts = a /\ m.locations = b BY <1>1
  <2>2. FactoryLocationRegistered(m, k, c, t) =
          [m EXCEPT !.contracts = With(a, k, c),
                    !.locations = IF c \in DOMAIN b THEN b ELSE With(b, c, t)]
    BY <2>1 DEF FactoryLocationRegistered
  <2> QED BY <1>1, <2>2
<1> QED BY <1>2 DEF a, b, d

LEMMA RegisterKeeps ==
  ASSUME NEW m, IsManager(m), NEW k \in Contract, NEW c \in CID, NEW t \in Phrase
  PROVE  IsManager(FactoryLocationRegistered(m, k, c, t))
<1> DEFINE r == FactoryLocationRegistered(m, k, c, t)
           D == DOMAIN m.locations
<1>1. /\ r = [contracts |-> r.contracts, locations |-> r.locations, leaves |-> r.leaves]
      /\ r.contracts = With(m.contracts, k, c) /\ r.leaves = m.leaves
      /\ r.locations = IF c \in D THEN m.locations ELSE With(m.locations, c, t)
  BY RegisterIs
<1> HIDE DEF r
<1>2. /\ DOMAIN r.locations = D \cup {c} /\ DOMAIN r.locations \subseteq CID
      /\ r.locations \in [DOMAIN r.locations -> Phrase]
  <2>1. m.locations \in [D -> Phrase] /\ D \subseteq CID BY DEF IsManager
  <2>2. DOMAIN With(m.locations, c, t) = D \cup {c}
        /\ With(m.locations, c, t) \in [D \cup {c} -> Phrase]
    <3> DEFINE f == m.locations
    <3>1. f \in [DOMAIN f -> Phrase] BY <2>1
    <3> HIDE DEF f
    <3>2. /\ DOMAIN With(f, c, t) = DOMAIN f \cup {c}
          /\ With(f, c, t) \in [DOMAIN With(f, c, t) -> Phrase]
      BY <3>1 DEF With
    <3> QED BY <3>2 DEF f
  <2>3. CASE c \in D BY <1>1, <2>1, <2>3
  <2>4. CASE c \notin D BY <1>1, <2>1, <2>2, <2>4
  <2> QED BY <2>3, <2>4
<1>3. m.contracts \in [DOMAIN m.contracts -> DOMAIN r.locations] BY <1>2 DEF IsManager
<1>4. /\ DOMAIN r.contracts = DOMAIN m.contracts \cup {k}
      /\ r.contracts \in [DOMAIN r.contracts -> DOMAIN r.locations]
  <2> DEFINE f == m.contracts
             S == DOMAIN r.locations
  <2>1. c \in S /\ f \in [DOMAIN f -> S] BY <1>2, <1>3
  <2> HIDE DEF f, S
  <2>2. /\ DOMAIN With(f, k, c) = DOMAIN f \cup {k}
        /\ With(f, k, c) \in [DOMAIN With(f, k, c) -> S]
    BY <2>1 DEF With
  <2> QED BY <1>1, <2>2 DEF f, S
<1>5. DOMAIN r.contracts \subseteq Contract /\ IsFiniteSet(DOMAIN r.contracts)
  BY <1>4, FS_AddElement DEF IsManager
<1>6. /\ DOMAIN r.leaves \subseteq Phrase \X Phrase /\ IsFiniteSet(DOMAIN r.leaves)
      /\ r.leaves \in [DOMAIN r.leaves -> Phrase]
  BY <1>1 DEF IsManager
<1>7. IsManager(r) BY <1>1, <1>2, <1>4, <1>5, <1>6 DEF IsManager
<1> QED BY <1>7 DEF r

LEMMA UnregisterKeeps ==
  ASSUME NEW m, IsManager(m), NEW c
  PROVE  IsManager(FactoryUnregistered(m, c))
<1> DEFINE a == m.contracts
           b == m.locations
           d == m.leaves
           K == {k \in DOMAIN a : a[k] # c}
           r == FactoryUnregistered(m, c)
<1>1. /\ m = [contracts |-> a, locations |-> b, leaves |-> d]
      /\ DOMAIN a \subseteq Contract /\ IsFiniteSet(DOMAIN a) /\ a \in [DOMAIN a -> DOMAIN b]
      /\ DOMAIN b \subseteq CID /\ b \in [DOMAIN b -> Phrase]
      /\ DOMAIN d \subseteq Phrase \X Phrase /\ IsFiniteSet(DOMAIN d) /\ d \in [DOMAIN d -> Phrase]
  BY DEF IsManager
<1> HIDE DEF a, b, d
<1>2. r = [contracts |-> Restrict(a, K), locations |-> Restrict(b, DOMAIN b \ {c}), leaves |-> d]
  <2>1. m.contracts = a /\ m.locations = b BY <1>1
  <2>2. FactoryUnregistered(m, c) =
          [m EXCEPT !.contracts = Restrict(a, K), !.locations = Restrict(b, DOMAIN b \ {c})]
    BY <2>1 DEF FactoryUnregistered
  <2> HIDE DEF K
  <2> QED BY <1>1, <2>2
<1>3. K \subseteq DOMAIN a /\ IsFiniteSet(K) BY <1>1, FS_Subset
<1>4. \A k \in K : a[k] \in DOMAIN b \ {c} BY <1>1
<1>5. Restrict(a, K) \in [K -> DOMAIN b \ {c}] BY <1>4 DEF Restrict
<1>6. Restrict(b, DOMAIN b \ {c}) \in [DOMAIN b \ {c} -> Phrase] BY <1>1 DEF Restrict
<1> HIDE DEF r, K
<1>7. /\ DOMAIN r.contracts = K /\ r.contracts = Restrict(a, K) /\ r.leaves = d
      /\ DOMAIN r.locations = DOMAIN b \ {c} /\ r.locations = Restrict(b, DOMAIN b \ {c})
      /\ r = [contracts |-> r.contracts, locations |-> r.locations, leaves |-> r.leaves]
  BY <1>2, <1>5, <1>6
<1>8. K \subseteq Contract /\ DOMAIN b \ {c} \subseteq CID BY <1>1, <1>3
<1>9. IsManager(r) BY <1>1, <1>3, <1>5, <1>6, <1>7, <1>8 DEF IsManager
<1> QED BY <1>9 DEF r

(* The value a leaf gets, if it gets one.                                   *)
LEMMA AddIs ==
  ASSUME NEW m, IsManager(m), NEW e, NEW v, NEW persist \in BOOLEAN, NEW replace \in BOOLEAN
  PROVE  LET r == AddCategoryEntry(m, e, v, persist, replace)
         IN /\ r = [contracts |-> r.contracts, locations |-> r.locations, leaves |-> r.leaves]
            /\ r.contracts = m.contracts /\ r.locations = m.locations
            /\ r.leaves = IF e \notin DOMAIN m.leaves
                          THEN With(m.leaves, e, IF persist THEN v ELSE Empty)
                          ELSE IF replace /\ persist THEN With(m.leaves, e, v) ELSE m.leaves
<1> DEFINE a == m.contracts
           b == m.locations
           d == m.leaves
<1>1. m = [contracts |-> a, locations |-> b, leaves |-> d] BY DEF IsManager
<1> HIDE DEF a, b, d
<1>2. AddCategoryEntry(m, e, v, persist, replace) =
        [contracts |-> a, locations |-> b,
         leaves |-> IF e \notin DOMAIN d THEN With(d, e, IF persist THEN v ELSE Empty)
                    ELSE IF replace /\ persist THEN With(d, e, v) ELSE d]
  BY <1>1 DEF AddCategoryEntry
<1> QED BY <1>2 DEF a, b, d

LEMMA LeavesKeep ==
  ASSUME NEW m, IsManager(m), NEW e \in Phrase \X Phrase, NEW v \in Phrase, NEW r,
         r = [contracts |-> r.contracts, locations |-> r.locations, leaves |-> r.leaves],
         r.contracts = m.contracts, r.locations = m.locations,
         r.leaves = With(m.leaves, e, v)
  PROVE  IsManager(r)
<1>1. /\ DOMAIN m.leaves \subseteq Phrase \X Phrase /\ IsFiniteSet(DOMAIN m.leaves)
      /\ m.leaves \in [DOMAIN m.leaves -> Phrase]
  BY DEF IsManager
<1>2. /\ DOMAIN r.leaves = DOMAIN m.leaves \cup {e} /\ r.leaves \in [DOMAIN r.leaves -> Phrase]
  <2> DEFINE f == m.leaves
  <2>1. f \in [DOMAIN f -> Phrase] BY <1>1
  <2> HIDE DEF f
  <2>2. /\ DOMAIN With(f, e, v) = DOMAIN f \cup {e}
        /\ With(f, e, v) \in [DOMAIN With(f, e, v) -> Phrase]
    BY <2>1 DEF With
  <2> QED BY <2>2 DEF f
<1>3. DOMAIN r.leaves \subseteq Phrase \X Phrase /\ IsFiniteSet(DOMAIN r.leaves)
  BY <1>1, <1>2, FS_AddElement
<1> QED BY <1>2, <1>3 DEF IsManager

LEMMA AddKeeps ==
  ASSUME NEW m, IsManager(m), NEW e \in Phrase \X Phrase, NEW v \in Phrase,
         NEW persist \in BOOLEAN, NEW replace \in BOOLEAN
  PROVE  IsManager(AddCategoryEntry(m, e, v, persist, replace))
<1> DEFINE r == AddCategoryEntry(m, e, v, persist, replace)
           u == IF persist THEN v ELSE Empty
<1>1. Empty \in Phrase
  <2>1. "" \in Word BY DEF Word
  <2> QED BY <2>1, OneWord DEF Empty
<1>2. u \in Phrase BY <1>1
<1>3. /\ r = [contracts |-> r.contracts, locations |-> r.locations, leaves |-> r.leaves]
      /\ r.contracts = m.contracts /\ r.locations = m.locations
      /\ r.leaves = IF e \notin DOMAIN m.leaves THEN With(m.leaves, e, u)
                    ELSE IF replace /\ persist THEN With(m.leaves, e, v) ELSE m.leaves
  BY AddIs
<1> HIDE DEF r, u
<1>4. r.leaves = With(m.leaves, e, u) \/ r.leaves = With(m.leaves, e, v) \/ r.leaves = m.leaves
  BY <1>3
<1>5. CASE r.leaves = With(m.leaves, e, u) BY <1>2, <1>3, <1>5, LeavesKeep DEF r
<1>6. CASE r.leaves = With(m.leaves, e, v) BY <1>3, <1>6, LeavesKeep DEF r
<1>7. CASE r.leaves = m.leaves
  <2>1. IsManager(r) BY <1>3, <1>7 DEF IsManager
  <2> QED BY <2>1 DEF r
<1> QED BY <1>4, <1>5, <1>6, <1>7

LEMMA DeleteKeeps ==
  ASSUME NEW m, IsManager(m), NEW e
  PROVE  IsManager(DeleteCategoryEntry(m, e))
<1> DEFINE a == m.contracts
           b == m.locations
           d == m.leaves
           r == DeleteCategoryEntry(m, e)
           D == DOMAIN d \ {e}
<1>1. /\ m = [contracts |-> a, locations |-> b, leaves |-> d]
      /\ DOMAIN a \subseteq Contract /\ IsFiniteSet(DOMAIN a) /\ a \in [DOMAIN a -> DOMAIN b]
      /\ DOMAIN b \subseteq CID /\ b \in [DOMAIN b -> Phrase]
      /\ DOMAIN d \subseteq Phrase \X Phrase /\ IsFiniteSet(DOMAIN d) /\ d \in [DOMAIN d -> Phrase]
  BY DEF IsManager
<1> HIDE DEF a, b, d
<1>2. r = [contracts |-> a, locations |-> b, leaves |-> Restrict(d, D)]
  BY <1>1 DEF DeleteCategoryEntry
<1>3. Restrict(d, D) \in [D -> Phrase] BY <1>1 DEF Restrict
<1>4. D \subseteq Phrase \X Phrase /\ IsFiniteSet(D) BY <1>1, FS_Subset
<1> HIDE DEF r, D
<1>5. /\ r.contracts = a /\ r.locations = b /\ DOMAIN r.leaves = D
      /\ r.leaves \in [DOMAIN r.leaves -> Phrase]
      /\ r = [contracts |-> r.contracts, locations |-> r.locations, leaves |-> r.leaves]
  BY <1>2, <1>3
<1>6. IsManager(r) BY <1>1, <1>4, <1>5 DEF IsManager
<1> QED BY <1>6 DEF r

-----------------------------------------------------------------------------
(* THE LINES OF A MANAGER *)
(* A contract with a comma in its name has no class in its line's place of  *)
(* the class; any other is read as it was.                                  *)
LEMMA ContractLineFact ==
  ASSUME NEW m, IsManager(m), NEW k \in DOMAIN m.contracts
  PROVE  LET l == ContractLine(m, k)
             c == m.contracts[k]
         IN /\ k \in Contract /\ c \in CID /\ c \in DOMAIN m.locations
            /\ l \in Line /\ Len(l) \in Nat /\ Len(l) >= 3
            /\ Len(k) = 1 => <<l[1]>> = k /\ l[2] = c /\ Third(l) = m.locations[c]
            /\ Len(k) # 1 => l[2] \notin CID
<1> DEFINE l == ContractLine(m, k)
           c == m.contracts[k]
           o == <<c>>
           t == m.locations[c]
           n == Len(k)
<1>1. k \in Contract /\ c \in CID /\ c \in DOMAIN m.locations /\ t \in Phrase
  <2>1. c \in DOMAIN m.locations BY DEF IsManager
  <2> QED BY <2>1 DEF IsManager
<1>2. k \in Phrase BY <1>1, TextIsPhrase, RegistryAssumption
<1>3. c \in Word BY <1>1, RegistryAssumption DEF Word
<1> HIDE DEF c
<1>4. o \in Line /\ Len(o) = 1 /\ o[1] = c BY <1>3, OneWord
<1>5. k \in Line /\ n \in Nat \ {0} /\ t \in Line /\ Len(t) \in Nat \ {0} BY <1>1, <1>2, PhraseFact
<1>6. l = (k \o o) \o t BY DEF ContractLine, c
<1> HIDE DEF o, t, l
<1>7. /\ l \in Line /\ Len(l) = n + Len(o) + Len(t)
      /\ \A i \in 1..n : l[i] = k[i]
      /\ \A i \in 1..Len(o) : l[n + i] = o[i]
      /\ \A i \in 1..Len(t) : l[n + Len(o) + i] = t[i]
  <2>1. Joins(l, k, o, t) BY <1>4, <1>5, <1>6, JoinedThree
  <2> QED BY <2>1 DEF Joins, n
<1> HIDE DEF n
<1>8. Len(l) \in Nat /\ Len(l) >= 3 BY <1>4, <1>5, <1>7
<1>9. ASSUME n = 1 PROVE <<l[1]>> = k /\ l[2] = c /\ Third(l) = t
  <2>1. l[1] = k[1] /\ l[2] = c BY <1>4, <1>5, <1>7, <1>9
  <2>2. k[1] \in Word
    <3>1. k \in Seq(Word) /\ 1 \in 1..Len(k) BY <1>5, <1>9 DEF Line, n
    <3> QED BY <3>1, ElementOfSeq
  <2>3. <<k[1]>> \in Line /\ Len(<<k[1]>>) = 1 /\ <<k[1]>>[1] = k[1] BY <2>2, OneWord
  <2>4. <<k[1]>> = k
    <3> DEFINE s == <<k[1]>>
    <3>1. s \in Line /\ Len(s) = 1 /\ s[1] = k[1] BY <2>3
    <3> HIDE DEF s
    <3>2. \A i \in 1..Len(s) : s[i] = k[i] BY <3>1
    <3>3. s = k BY <1>5, <1>9, <3>1, <3>2, SeqEqual DEF n, Line
    <3> QED BY <3>3 DEF s
  <2>5. Third(l) \in Line /\ Len(Third(l)) = Len(l) - 2
        /\ \A i \in 1..Len(l) - 2 : Third(l)[i] = l[2 + i]
    <3>1. 3 \in Nat \ {0} /\ 3 <= Len(l) + 1 /\ l \in Seq(Word) BY <1>7, <1>8 DEF Line
    <3>2. /\ SubSeq(l, 3, Len(l)) \in Seq(Word) /\ Len(SubSeq(l, 3, Len(l))) = Len(l) - 3 + 1
          /\ \A i \in 1..Len(l) - 3 + 1 : SubSeq(l, 3, Len(l))[i] = l[3 + i - 1]
      BY <1>8, <3>1, PartFact
    <3>3. \A i \in 1..Len(l) - 2 : i \in 1..Len(l) - 3 + 1 /\ 3 + i - 1 = 2 + i BY <1>8
    <3>4. Len(l) - 3 + 1 = Len(l) - 2 BY <1>8
    <3> QED BY <3>2, <3>3, <3>4 DEF Third, Line
  <2>6. Len(Third(l)) = Len(t) /\ \A i \in 1..Len(t) : Third(l)[i] = t[i]
    BY <1>4, <1>5, <1>7, <1>9, <2>5
  <2>7. Third(l) = t BY <1>5, <2>5, <2>6, SeqEqual DEF Line
  <2> QED BY <2>1, <2>4, <2>7
<1>10. ASSUME n # 1 PROVE l[2] \notin CID
  <2>1. n > 1 /\ 2 \in 1..n BY <1>5, <1>10
  <2>2. k[2] \notin CID BY <1>1, <2>1, RegistryAssumption DEF n
  <2> QED BY <1>7, <2>1, <2>2
<1> QED BY <1>1, <1>7, <1>8, <1>9, <1>10 DEF c, t, n, l

(* The line of an entry, and what comes of it when it is read.              *)
NameIn(l) == << <<l[1]>>, <<l[2]>> >>

LEMMA LineSplit ==
  ASSUME NEW l \in Line, Len(l) >= 3
  PROVE  /\ NameIn(l) \in Phrase \X Phrase /\ Third(l) \in Phrase
         /\ Len(<<l[1]>>) = 1 /\ Len(<<l[2]>>) = 1
         /\ (<<l[1]>> \o <<l[2]>>) \o Third(l) = l
<1> DEFINE a == <<l[1]>>
           b == <<l[2]>>
           t == Third(l)
<1>1. Len(l) \in Nat /\ l \in Seq(Word) BY LenProperties DEF Line
<1>2. l[1] \in Word /\ l[2] \in Word
  <2>1. 1 \in 1..Len(l) /\ 2 \in 1..Len(l) BY <1>1
  <2> QED BY <1>1, <2>1, ElementOfSeq
<1>3. /\ a \in Line /\ Len(a) = 1 /\ a[1] = l[1] /\ a \in Phrase
      /\ b \in Line /\ Len(b) = 1 /\ b[1] = l[2] /\ b \in Phrase
  BY <1>2, OneWord
<1>4. t \in Line /\ Len(t) = Len(l) - 2 /\ \A i \in 1..Len(l) - 2 : t[i] = l[2 + i]
  <2>1. 3 \in Nat \ {0} /\ 3 <= Len(l) + 1 BY <1>1
  <2>2. /\ SubSeq(l, 3, Len(l)) \in Seq(Word) /\ Len(SubSeq(l, 3, Len(l))) = Len(l) - 3 + 1
        /\ \A i \in 1..Len(l) - 3 + 1 : SubSeq(l, 3, Len(l))[i] = l[3 + i - 1]
    BY <1>1, <2>1, PartFact
  <2>3. \A i \in 1..Len(l) - 2 : i \in 1..Len(l) - 3 + 1 /\ 3 + i - 1 = 2 + i BY <1>1
  <2>4. Len(l) - 3 + 1 = Len(l) - 2 BY <1>1
  <2> QED BY <2>2, <2>3, <2>4 DEF Third, Line
<1>5. t \in Phrase BY <1>1, <1>4, LineIsPhrase
<1>6. NameIn(l) \in Phrase \X Phrase BY <1>3 DEF NameIn
<1> HIDE DEF a, b, t
<1> DEFINE j == (a \o b) \o t
<1>7. /\ j \in Line /\ Len(j) = Len(a) + Len(b) + Len(t)
      /\ \A i \in 1..Len(a) : j[i] = a[i]
      /\ \A i \in 1..Len(b) : j[Len(a) + i] = b[i]
      /\ \A i \in 1..Len(t) : j[Len(a) + Len(b) + i] = t[i]
  <2>1. Joins(j, a, b, t) BY <1>3, <1>4, JoinedThree
  <2> HIDE DEF j
  <2> QED BY <2>1 DEF Joins
<1> HIDE DEF j
<1>8. Len(j) = Len(l) BY <1>1, <1>3, <1>4, <1>7
<1>9. ASSUME NEW i \in 1..Len(j) PROVE j[i] = l[i]
  <2>1. CASE i = 1 BY <1>3, <1>7, <2>1
  <2>2. CASE i = 2 BY <1>3, <1>7, <2>2
  <2>3. CASE i > 2
    <3>1. i - 2 \in 1..Len(l) - 2 /\ 1 + 1 + (i - 2) = i /\ 2 + (i - 2) = i BY <1>1, <1>8, <2>3
    <3>2. j[1 + 1 + (i - 2)] = t[i - 2] BY <1>3, <1>4, <1>7, <3>1
    <3>3. t[i - 2] = l[2 + (i - 2)] BY <1>4, <3>1
    <3> QED BY <3>1, <3>2, <3>3
  <2> QED BY <1>1, <1>8, <2>1, <2>2, <2>3
<1>10. j = l BY <1>7, <1>8, <1>9, SeqEqual DEF Line
<1> QED BY <1>3, <1>5, <1>6, <1>10 DEF j, a, b, t

(* A line has what it is the line of: a name, which is two phrases, and     *)
(* then a value.                                                            *)
Spells(l, e, v) ==
  /\ e = <<e[1], e[2]>> /\ e[1] \in Phrase /\ e[2] \in Phrase /\ v \in Phrase
  /\ Joins(l, e[1], e[2], v)

LEMMA EntrySpells ==
  ASSUME NEW m, IsManager(m), NEW e \in DOMAIN m.leaves
  PROVE  Spells(EntryLine(m, e), e, m.leaves[e])
<1> DEFINE a == e[1]
           b == e[2]
           v == m.leaves[e]
           l == EntryLine(m, e)
<1>1. e \in Phrase \X Phrase /\ v \in Phrase BY DEF IsManager
<1>2. e = <<a, b>> /\ a \in Phrase /\ b \in Phrase BY <1>1
<1>3. l = (a \o b) \o v BY DEF EntryLine
<1> HIDE DEF a, b, v, l
<1>4. a \in Line /\ b \in Line /\ v \in Line BY <1>1, <1>2, PhraseFact
<1>5. Joins(l, a, b, v) BY <1>3, <1>4, JoinedThree
<1> QED BY <1>1, <1>2, <1>5 DEF a, b, v, l, Spells

LEMMA EntryLineFact ==
  ASSUME NEW m, IsManager(m), NEW e \in DOMAIN m.leaves
  PROVE  EntryLine(m, e) \in Line /\ Len(EntryLine(m, e)) >= 3
<1> DEFINE l == EntryLine(m, e)
           v == m.leaves[e]
<1>1. Spells(l, e, v) BY EntrySpells
<1> HIDE DEF l, v
<1>2. e[1] \in Phrase /\ e[2] \in Phrase /\ v \in Phrase BY <1>1 DEF Spells
<1>3. Len(e[1]) \in Nat \ {0} /\ Len(e[2]) \in Nat \ {0} /\ Len(v) \in Nat \ {0}
  BY <1>2, PhraseFact
<1>4. l \in Line /\ Len(l) = Len(e[1]) + Len(e[2]) + Len(v) BY <1>1 DEF Spells, Joins
<1>5. ASSUME NEW i \in Nat \ {0}, NEW j \in Nat \ {0}, NEW k \in Nat \ {0} PROVE i + j + k >= 3
  BY <1>5
<1>6. Len(l) >= 3 BY <1>3, <1>4, <1>5
<1> QED BY <1>4, <1>6 DEF l

-----------------------------------------------------------------------------
(* READING *)
(* The sets that managers are in.                                           *)
Managers ==
  [contracts : UNION {[D -> CID] : D \in SUBSET Contract},
   locations : UNION {[D -> Phrase] : D \in SUBSET CID},
   leaves : UNION {[D -> Phrase] : D \in SUBSET (Phrase \X Phrase)}]

LEMMA ManagerIsOne ==
  ASSUME NEW m, IsManager(m)
  PROVE  m \in Managers
<1> DEFINE a == m.contracts
           b == m.locations
           d == m.leaves
<1>1. /\ m = [contracts |-> a, locations |-> b, leaves |-> d]
      /\ DOMAIN a \subseteq Contract /\ a \in [DOMAIN a -> DOMAIN b]
      /\ DOMAIN b \subseteq CID /\ b \in [DOMAIN b -> Phrase]
      /\ DOMAIN d \subseteq Phrase \X Phrase /\ d \in [DOMAIN d -> Phrase]
  BY DEF IsManager
<1> HIDE DEF a, b, d
<1>2. a \in [DOMAIN a -> CID] BY <1>1
<1>3. a \in UNION {[D -> CID] : D \in SUBSET Contract} BY <1>1, <1>2
<1>4. b \in UNION {[D -> Phrase] : D \in SUBSET CID} BY <1>1
<1>5. d \in UNION {[D -> Phrase] : D \in SUBSET (Phrase \X Phrase)} BY <1>1
<1> QED BY <1>1, <1>3, <1>4, <1>5 DEF Managers

(* The lines of the contracts ks[i], i in T, are read into x.               *)
Bound(r, m, k) == Len(k) = 1 => k \in DOMAIN r.contracts /\ r.contracts[k] = m.contracts[k]
ContractsRead(r, m, x, ks, T) ==
  /\ IsManager(r) /\ r.leaves = x.leaves
  /\ Within(r.contracts, m.contracts, x.contracts)
  /\ Within(r.locations, m.locations, x.locations)
  /\ \A i \in T : Bound(r, m, ks[i])

LEMMA WithinWith ==
  ASSUME NEW f, NEW g, NEW h, Within(f, g, h), NEW x \in DOMAIN g
  PROVE  Within(With(f, x, g[x]), g, h)
BY DEF Within, With

LEMMA ContractStep ==
  ASSUME NEW m, IsManager(m), NEW x, NEW n \in Nat,
         NEW ks \in [1..n -> DOMAIN m.contracts], NEW T \in SUBSET (1..n), NEW p \in T,
         NEW r, ContractsRead(r, m, x, ks, T \ {p})
  PROVE  ContractsRead(ReadContract(r, ContractLine(m, ks[p])), m, x, ks, T)
<1> DEFINE k == ks[p]
           l == ContractLine(m, k)
           c == m.contracts[k]
           t == m.locations[c]
           q == ReadContract(r, l)
<1>1. k \in DOMAIN m.contracts OBVIOUS
<1> HIDE DEF k
<1>2. /\ k \in Contract /\ c \in CID /\ c \in DOMAIN m.locations
      /\ Len(k) = 1 => <<l[1]>> = k /\ l[2] = c /\ Third(l) = t
      /\ Len(k) # 1 => l[2] \notin CID
  BY <1>1, ContractLineFact
<1>3. t \in Phrase BY <1>2 DEF IsManager
<1>4. IsManager(r) BY DEF ContractsRead
<1>5. CASE Len(k) = 1
  <2>1. q = FactoryLocationRegistered(r, k, c, t) BY <1>2, <1>5 DEF ReadContract
  <2> HIDE DEF q, l, t
  <2>2. IsManager(q) BY <1>2, <1>3, <1>4, <2>1, RegisterKeeps
  <2>3. /\ q.contracts = With(r.contracts, k, c) /\ q.leaves = r.leaves
        /\ q.locations = IF c \in DOMAIN r.locations THEN r.locations
                         ELSE With(r.locations, c, t)
    BY <1>4, <2>1, RegisterIs
  <2>4. Within(q.contracts, m.contracts, x.contracts)
    <3>1. Within(r.contracts, m.contracts, x.contracts) BY DEF ContractsRead
    <3> QED BY <1>1, <2>3, <3>1, WithinWith
  <2>5. Within(q.locations, m.locations, x.locations)
    <3>1. Within(r.locations, m.locations, x.locations) BY DEF ContractsRead
    <3>2. Within(With(r.locations, c, t), m.locations, x.locations)
      BY <1>2, <3>1, WithinWith DEF t
    <3> QED BY <2>3, <3>1, <3>2
  <2>6. ASSUME NEW i \in T, Len(ks[i]) = 1
        PROVE  ks[i] \in DOMAIN q.contracts /\ q.contracts[ks[i]] = m.contracts[ks[i]]
    <3>1. CASE ks[i] = k BY <2>3, <3>1 DEF With
    <3>2. CASE ks[i] # k
      <4>1. i \in T \ {p} BY <3>2 DEF k
      <4>2. ks[i] \in DOMAIN r.contracts /\ r.contracts[ks[i]] = m.contracts[ks[i]]
        BY <2>6, <4>1 DEF ContractsRead, Bound
      <4> QED BY <2>3, <3>2, <4>2 DEF With
    <3> QED BY <3>1, <3>2
  <2>7. \A i \in T : Bound(q, m, ks[i]) BY <2>6 DEF Bound
  <2>8. q.leaves = x.leaves BY <2>3 DEF ContractsRead
  <2>9. ContractsRead(q, m, x, ks, T) BY <2>2, <2>4, <2>5, <2>7, <2>8 DEF ContractsRead
  <2> QED BY <2>9 DEF q, l, k
<1>6. CASE Len(k) # 1
  <2>1. q = r BY <1>2, <1>6 DEF ReadContract
  <2>2. ASSUME NEW i \in T PROVE Bound(r, m, ks[i])
    <3>1. CASE i = p BY <1>6, <3>1 DEF Bound, k
    <3>2. CASE i # p BY <3>2 DEF ContractsRead
    <3> QED BY <3>1, <3>2
  <2>3. ContractsRead(r, m, x, ks, T) BY <2>2 DEF ContractsRead
  <2> QED BY <2>1, <2>3 DEF q, l, k
<1> QED BY <1>5, <1>6

LEMMA ContractsFold ==
  ASSUME NEW m, IsManager(m), NEW x, IsManager(x), NEW n \in Nat,
         NEW ks \in [1..n -> DOMAIN m.contracts], NEW s \in Seq(Line), Len(s) = n,
         \A i \in 1..n : s[i] = ContractLine(m, ks[i])
  PROVE  ContractsRead(FoldLeft(ReadContract, x, s), m, x, ks, 1..n)
<1> DEFINE S == DOMAIN s
           pick == [T \in SUBSET S |-> Max(T)]
           Iv == [T \in SUBSET S |-> {r \in Managers : ContractsRead(r, m, x, ks, T)}]
<1>1. S = 1..n /\ IsFiniteSet(S)
  <2>1. S = 1..n BY LenProperties
  <2> QED BY <2>1, FS_Interval
<1>2. Picks(S, pick)
  <2>1. \A T \in SUBSET S : T # {} => Max(T) \in T BY <1>1, MaxIsIn
  <2> QED BY <2>1 DEF Picks
<1>3. x \in Iv[{}]
  <2>1. ContractsRead(x, m, x, ks, {}) BY DEF ContractsRead, Within
  <2> QED BY <2>1, ManagerIsOne
<1>4. ASSUME NEW T \in SUBSET S, T # {}, NEW r \in Iv[T \ {pick[T]}]
      PROVE  ReadContract(r, s[pick[T]]) \in Iv[T]
  <2> DEFINE p == pick[T]
  <2>1. p \in T /\ T \in SUBSET (1..n) BY <1>1, <1>2, <1>4 DEF Picks
  <2>2. s[p] = ContractLine(m, ks[p]) BY <2>1
  <2>3. T \ {p} \in SUBSET S OBVIOUS
  <2>4. ContractsRead(r, m, x, ks, T \ {p}) BY <1>4, <2>3
  <2> DEFINE q == ReadContract(r, s[p])
  <2> HIDE DEF p, pick
  <2>5. ContractsRead(q, m, x, ks, T) BY <2>1, <2>2, <2>4, ContractStep
  <2> HIDE DEF q
  <2>6. q \in Managers BY <2>5, ManagerIsOne DEF ContractsRead
  <2> QED BY <2>5, <2>6 DEF q, p
<1> DEFINE Folds(g) == g = [T \in SUBSET S |-> IF T = {} THEN x
                                               ELSE ReadContract(g[T \ {Max(T)}], s[Max(T)])]
           it == CHOOSE g : Folds(g)
           step == [T \in SUBSET S |-> [r \in Iv[T \ {pick[T]}] |->
                     ReadContract(r, s[pick[T]])]]
<1>5. \E g : Folds(g)
  <2>1. \A T \in SUBSET S : T \ {Max(T)} \in SUBSET S /\ pick[T] = Max(T) OBVIOUS
  <2>2. \A T \in SUBSET S : T # {} =>
          \A r \in Iv[T \ {pick[T]}] :
            /\ step[T][r] = ReadContract(r, s[pick[T]])
            /\ step[T][r] \in Iv[T]
    <3> HIDE DEF Iv
    <3> QED BY <1>4
  <2> HIDE DEF Iv, step
  <2>3. Steps(S, pick, step, Iv) BY <2>2 DEF Steps
  <2> HIDE DEF pick, Folds
  <2>4. PICK g : IsFold(g, S, x, pick, step, Iv) BY <1>1, <1>3, <1>2, <2>3, FoldExists
  <2>5. /\ g = [T \in SUBSET S |-> IF T = {} THEN x ELSE step[T][g[T \ {pick[T]}]]]
        /\ \A T \in SUBSET S : g[T] \in Iv[T]
    BY <2>4 DEF IsFold
  <2>6. ASSUME NEW T \in SUBSET S, T # {}
        PROVE  g[T] = ReadContract(g[T \ {Max(T)}], s[Max(T)])
    <3>1. g[T] = step[T][g[T \ {pick[T]}]] BY <2>5, <2>6
    <3>2. g[T \ {pick[T]}] \in Iv[T \ {pick[T]}] BY <2>1, <2>5
    <3>3. g[T] = ReadContract(g[T \ {pick[T]}], s[pick[T]]) BY <2>2, <2>6, <3>1, <3>2
    <3>4. pick[T] = Max(T) BY <2>1
    <3> QED BY <3>3, <3>4
  <2>7. g = [T \in SUBSET S |-> g[T]] /\ g[{}] = x BY <2>5
  <2>8. Folds(g) BY <2>6, <2>7 DEF Folds
  <2> QED BY <2>8
<1>6. FoldLeft(ReadContract, x, s) = it[S] BY DEF FoldLeft, MapThenFoldSet
<1>7. Folds(it) BY <1>5
<1>8. FoldLeft(ReadContract, x, s) \in Iv[S]
  <2>1. it[{}] = x BY <1>7
  <2>2. \A T \in SUBSET S : T # {} => it[T] = ReadContract(it[T \ {pick[T]}], s[pick[T]])
    BY <1>7
  <2> HIDE DEF it, Iv, pick
  <2>3. Stays(S, it, pick, Iv) BY <1>4, <2>2 DEF Stays
  <2>4. it[{}] \in Iv[{}] BY <1>3, <2>1
  <2>5. it[S] \in Iv[S] BY <1>1, <1>2, <2>3, <2>4, FoldStays
  <2> QED BY <1>6, <2>5
<1> DEFINE f == FoldLeft(ReadContract, x, s)
<1>9. f \in Iv[S] BY <1>8
<1> HIDE DEF f
<1>10. ContractsRead(f, m, x, ks, S) BY <1>9
<1> QED BY <1>1, <1>10 DEF f

(* The lines of the entries es[i], i in T, are read into x, which had none. *)
EntriesRead(r, m, x, n, es, T) ==
  /\ IsManager(r) /\ r.contracts = x.contracts /\ r.locations = x.locations
  /\ \A e \in DOMAIN r.leaves :
       /\ Len(e[1]) = 1 /\ Len(e[2]) = 1
       /\ \E i \in 1..n : EntryLine(r, e) = EntryLine(m, es[i])
  /\ \A i \in T : NameIn(EntryLine(m, es[i])) \in DOMAIN r.leaves

LEMMA RestoreIs ==
  ASSUME NEW m, IsManager(m), NEW e, NEW v
  PROVE  LET r == AddCategoryEntry(m, e, v, TRUE, TRUE)
         IN /\ r.contracts = m.contracts /\ r.locations = m.locations
            /\ r.leaves = With(m.leaves, e, v)
<1> DEFINE a == m.contracts
           b == m.locations
           d == m.leaves
<1>1. m = [contracts |-> a, locations |-> b, leaves |-> d] BY DEF IsManager
<1> HIDE DEF a, b, d
<1>2. AddCategoryEntry(m, e, v, TRUE, TRUE) =
        [contracts |-> a, locations |-> b, leaves |-> With(d, e, v)]
  BY <1>1 DEF AddCategoryEntry
<1> DEFINE q == AddCategoryEntry(m, e, v, TRUE, TRUE)
           f == With(d, e, v)
<1>3. q = [contracts |-> a, locations |-> b, leaves |-> f] BY <1>2
<1>4. q.contracts = a /\ q.locations = b /\ q.leaves = f
  <2> HIDE DEF q, f
  <2> QED BY <1>3
<1> QED BY <1>4 DEF a, b, d

LEMMA EntryStep ==
  ASSUME NEW m, IsManager(m), NEW x, NEW n \in Nat,
         NEW es \in [1..n -> DOMAIN m.leaves], NEW T \in SUBSET (1..n), NEW p \in T,
         NEW r, EntriesRead(r, m, x, n, es, T \ {p})
  PROVE  EntriesRead(ReadEntry(r, EntryLine(m, es[p])), m, x, n, es, T)
<1> DEFINE l == EntryLine(m, es[p])
           d == NameIn(l)
           t == Third(l)
           q == ReadEntry(r, l)
<1>1. es[p] \in DOMAIN m.leaves /\ p \in 1..n OBVIOUS
<1>2. l \in Line /\ Len(l) >= 3 BY <1>1, EntryLineFact
<1> HIDE DEF l
<1>3. /\ d \in Phrase \X Phrase /\ t \in Phrase
      /\ Len(<<l[1]>>) = 1 /\ Len(<<l[2]>>) = 1
      /\ (<<l[1]>> \o <<l[2]>>) \o t = l
  BY <1>2, LineSplit
<1>4. d[1] = <<l[1]>> /\ d[2] = <<l[2]>> BY DEF NameIn
<1>5. IsManager(r) BY DEF EntriesRead
<1>6. q = AddCategoryEntry(r, d, t, TRUE, TRUE) BY DEF ReadEntry, NameIn
<1> HIDE DEF d, t, q
<1>7. IsManager(q) BY <1>3, <1>5, <1>6, AddKeeps
<1>8. q.contracts = r.contracts /\ q.locations = r.locations /\ q.leaves = With(r.leaves, d, t)
  BY <1>5, <1>6, RestoreIs
<1>9. q.contracts = x.contracts /\ q.locations = x.locations BY <1>8 DEF EntriesRead
<1>10. DOMAIN q.leaves = DOMAIN r.leaves \cup {d} /\ q.leaves[d] = t
       /\ \A e \in DOMAIN r.leaves : e # d => q.leaves[e] = r.leaves[e]
  BY <1>8 DEF With
<1>11. ASSUME NEW e \in DOMAIN q.leaves
       PROVE  /\ Len(e[1]) = 1 /\ Len(e[2]) = 1
              /\ \E i \in 1..n : EntryLine(q, e) = EntryLine(m, es[i])
  <2>1. CASE e = d
    <3>1. Len(e[1]) = 1 /\ Len(e[2]) = 1 BY <1>3, <1>4, <2>1
    <3>2. EntryLine(q, e) = l BY <1>3, <1>4, <1>10, <2>1 DEF EntryLine
    <3> QED BY <1>1, <3>1, <3>2 DEF l
  <2>2. CASE e # d
    <3>1. e \in DOMAIN r.leaves /\ q.leaves[e] = r.leaves[e] BY <1>10, <2>2
    <3>2. EntryLine(q, e) = EntryLine(r, e) BY <3>1 DEF EntryLine
    <3> QED BY <3>1, <3>2 DEF EntriesRead
  <2> QED BY <2>1, <2>2
<1>12. ASSUME NEW i \in T PROVE NameIn(EntryLine(m, es[i])) \in DOMAIN q.leaves
  <2>1. CASE i = p BY <1>10, <2>1 DEF d, l
  <2>2. CASE i # p BY <1>10, <2>2 DEF EntriesRead
  <2> QED BY <2>1, <2>2
<1>13. EntriesRead(q, m, x, n, es, T) BY <1>7, <1>9, <1>11, <1>12 DEF EntriesRead
<1> QED BY <1>13 DEF q, l

LEMMA EntriesFold ==
  ASSUME NEW m, IsManager(m), NEW x, IsManager(x), DOMAIN x.leaves = {}, NEW n \in Nat,
         NEW es \in [1..n -> DOMAIN m.leaves], NEW s \in Seq(Line), Len(s) = n,
         \A i \in 1..n : s[i] = EntryLine(m, es[i])
  PROVE  EntriesRead(FoldLeft(ReadEntry, x, s), m, x, n, es, 1..n)
<1> DEFINE S == DOMAIN s
           pick == [T \in SUBSET S |-> Max(T)]
           Iv == [T \in SUBSET S |-> {r \in Managers : EntriesRead(r, m, x, n, es, T)}]
<1>1. S = 1..n /\ IsFiniteSet(S)
  <2>1. S = 1..n BY LenProperties
  <2> QED BY <2>1, FS_Interval
<1>2. Picks(S, pick)
  <2>1. \A T \in SUBSET S : T # {} => Max(T) \in T BY <1>1, MaxIsIn
  <2> QED BY <2>1 DEF Picks
<1>3. x \in Iv[{}]
  <2>1. EntriesRead(x, m, x, n, es, {}) BY DEF EntriesRead
  <2> QED BY <2>1, ManagerIsOne
<1>4. ASSUME NEW T \in SUBSET S, T # {}, NEW r \in Iv[T \ {pick[T]}]
      PROVE  ReadEntry(r, s[pick[T]]) \in Iv[T]
  <2> DEFINE p == pick[T]
  <2>1. p \in T /\ T \in SUBSET (1..n) BY <1>1, <1>2, <1>4 DEF Picks
  <2>2. s[p] = EntryLine(m, es[p]) BY <2>1
  <2>3. T \ {p} \in SUBSET S OBVIOUS
  <2>4. EntriesRead(r, m, x, n, es, T \ {p}) BY <1>4, <2>3
  <2> DEFINE q == ReadEntry(r, s[p])
  <2> HIDE DEF p, pick
  <2>5. EntriesRead(q, m, x, n, es, T) BY <2>1, <2>2, <2>4, EntryStep
  <2> HIDE DEF q
  <2>6. q \in Managers BY <2>5, ManagerIsOne DEF EntriesRead
  <2> QED BY <2>5, <2>6 DEF q, p
<1> DEFINE Folds(g) == g = [T \in SUBSET S |-> IF T = {} THEN x
                                               ELSE ReadEntry(g[T \ {Max(T)}], s[Max(T)])]
           it == CHOOSE g : Folds(g)
           step == [T \in SUBSET S |-> [r \in Iv[T \ {pick[T]}] |->
                     ReadEntry(r, s[pick[T]])]]
<1>5. \E g : Folds(g)
  <2>1. \A T \in SUBSET S : T \ {Max(T)} \in SUBSET S /\ pick[T] = Max(T) OBVIOUS
  <2>2. \A T \in SUBSET S : T # {} =>
          \A r \in Iv[T \ {pick[T]}] :
            /\ step[T][r] = ReadEntry(r, s[pick[T]])
            /\ step[T][r] \in Iv[T]
    <3> HIDE DEF Iv
    <3> QED BY <1>4
  <2> HIDE DEF Iv, step
  <2>3. Steps(S, pick, step, Iv) BY <2>2 DEF Steps
  <2> HIDE DEF pick, Folds
  <2>4. PICK g : IsFold(g, S, x, pick, step, Iv) BY <1>1, <1>3, <1>2, <2>3, FoldExists
  <2>5. /\ g = [T \in SUBSET S |-> IF T = {} THEN x ELSE step[T][g[T \ {pick[T]}]]]
        /\ \A T \in SUBSET S : g[T] \in Iv[T]
    BY <2>4 DEF IsFold
  <2>6. ASSUME NEW T \in SUBSET S, T # {}
        PROVE  g[T] = ReadEntry(g[T \ {Max(T)}], s[Max(T)])
    <3>1. g[T] = step[T][g[T \ {pick[T]}]] BY <2>5, <2>6
    <3>2. g[T \ {pick[T]}] \in Iv[T \ {pick[T]}] BY <2>1, <2>5
    <3>3. g[T] = ReadEntry(g[T \ {pick[T]}], s[pick[T]]) BY <2>2, <2>6, <3>1, <3>2
    <3>4. pick[T] = Max(T) BY <2>1
    <3> QED BY <3>3, <3>4
  <2>7. g = [T \in SUBSET S |-> g[T]] /\ g[{}] = x BY <2>5
  <2>8. Folds(g) BY <2>6, <2>7 DEF Folds
  <2> QED BY <2>8
<1>6. FoldLeft(ReadEntry, x, s) = it[S] BY DEF FoldLeft, MapThenFoldSet
<1>7. Folds(it) BY <1>5
<1>8. FoldLeft(ReadEntry, x, s) \in Iv[S]
  <2>1. it[{}] = x BY <1>7
  <2>2. \A T \in SUBSET S : T # {} => it[T] = ReadEntry(it[T \ {pick[T]}], s[pick[T]])
    BY <1>7
  <2> HIDE DEF it, Iv, pick
  <2>3. Stays(S, it, pick, Iv) BY <1>4, <2>2 DEF Stays
  <2>4. it[{}] \in Iv[{}] BY <1>3, <2>1
  <2>5. it[S] \in Iv[S] BY <1>1, <1>2, <2>3, <2>4, FoldStays
  <2> QED BY <1>6, <2>5
<1> DEFINE f == FoldLeft(ReadEntry, x, s)
<1>9. f \in Iv[S] BY <1>8
<1> HIDE DEF f
<1>10. EntriesRead(f, m, x, n, es, S) BY <1>9
<1> QED BY <1>1, <1>10 DEF f

-----------------------------------------------------------------------------
(* A section ends with the first line that has not three words.             *)
LEMMA SectionFact ==
  ASSUME NEW s \in Seq(Line), NEW k \in 0..Len(s), \A i \in 1..k : Len(s[i]) >= 3,
         k < Len(s) => Len(s[k + 1]) < 3
  PROVE  Section(s) = IF k = Len(s) THEN [lines |-> s, after |-> <<>>]
                      ELSE [lines |-> SubSeq(s, 1, k), after |-> SubSeq(s, k + 1, Len(s))]
<1> DEFINE I == {i \in 1..Len(s) : Len(s[i]) < 3}
           short == IF I # {} THEN Min(I) ELSE 0
<1>1. Len(s) \in Nat BY LenProperties
<1>2. \A i \in 1..Len(s) : Len(s[i]) \in Nat
  <2> TAKE i \in 1..Len(s)
  <2>1. s[i] \in Line BY ElementOfSeq
  <2> QED BY <2>1, LenProperties DEF Line
<1>3. \A i \in I : i > k BY <1>1, <1>2
<1>4. Section(s) = IF short = 0 THEN [lines |-> s, after |-> <<>>]
                   ELSE [lines |-> SubSeq(s, 1, short - 1), after |-> SubSeq(s, short, Len(s))]
  BY DEF Section, SelectInSeq
<1> HIDE DEF short
<1>5. CASE k = Len(s)
  <2>1. I = {} BY <1>1, <1>3, <1>5
  <2>2. short = 0 BY <2>1 DEF short
  <2> QED BY <1>4, <1>5, <2>2
<1>6. CASE k # Len(s)
  <2>1. k + 1 \in I /\ I \subseteq Nat /\ \A i \in I : k + 1 <= i BY <1>1, <1>3, <1>6
  <2> HIDE DEF I
  <2>2. Min(I) = k + 1
    <3>1. Min(I) \in I /\ \A i \in I : Min(I) <= i BY <2>1 DEF Min
    <3>2. Min(I) <= k + 1 /\ k + 1 <= Min(I) /\ Min(I) \in Nat BY <2>1, <3>1
    <3> QED BY <3>2
  <2>3. short = k + 1 /\ short # 0 /\ short - 1 = k BY <2>1, <2>2 DEF short
  <2> QED BY <1>4, <1>6, <2>3
<1> QED BY <1>5, <1>6

-----------------------------------------------------------------------------
(* THE FILE *)
(* What is written when nothing stops it: C are the contracts, E is entries.*)
Whole(C, E) == ((HeaderLines \o C) \o << <<"[CATEGORIES]">> >>) \o E
Lists(C, E, m, ks, es) ==
  /\ C \in Seq(Line) /\ ks \in [1..Len(C) -> DOMAIN m.contracts]
  /\ \A i \in 1..Len(C) : C[i] = ContractLine(m, ks[i])
  /\ E \in Seq(Line) /\ es \in [1..Len(E) -> DOMAIN m.leaves]
  /\ \A i \in 1..Len(E) : E[i] = EntryLine(m, es[i])

LEMMA HeaderFact ==
  /\ HeaderLines \in Seq(Line) /\ Len(HeaderLines) = 3
  /\ << <<"[CATEGORIES]">> >> \in Seq(Line) /\ Len(<< <<"[CATEGORIES]">> >>) = 1
  /\ <<"[CATEGORIES]">> \in Line /\ Len(<<"[CATEGORIES]">>) = 1
<1> DEFINE a == <<"[HEADER]">>
           b == <<"Version", "0", "1">>
           c == <<"[CONTRACTIDS]">>
           d == <<"[CATEGORIES]">>
<1>1. a \in Line /\ b \in Line /\ c \in Line /\ d \in Line /\ Len(d) = 1
  <2>1. {"", "[HEADER]", "Version", "0", "1", "[CONTRACTIDS]", "[CATEGORIES]"} \subseteq Word
    BY DEF Word
  <2>2. \A v, w, u \in Word : <<v>> \in Seq(Word) /\ Len(<<v>>) = 1 /\ <<v, w, u>> \in Seq(Word)
    OBVIOUS
  <2> QED BY <2>1, <2>2 DEF Line
<1>2. HeaderLines = <<a, b, c>> BY DEF HeaderLines
<1> HIDE DEF a, b, c, d
<1>3. <<a, b, c>> \in Seq(Line) /\ Len(<<a, b, c>>) = 3 /\ <<d>> \in Seq(Line) /\ Len(<<d>>) = 1
  BY <1>1
<1> QED BY <1>1, <1>2, <1>3 DEF d

Follow(l, a, b) ==
  /\ l \in Seq(Line) /\ Len(l) = Len(a) + Len(b)
  /\ \A i \in 1..Len(a) + Len(b) : l[i] = IF i <= Len(a) THEN a[i] ELSE b[i - Len(a)]

LEMMA JoinedTwo ==
  ASSUME NEW a \in Seq(Line), NEW b \in Seq(Line)
  PROVE  Follow(a \o b, a, b)
BY ConcatProperties DEF Follow

LEMMA WholeFact ==
  ASSUME NEW C \in Seq(Line), NEW E \in Seq(Line)
  PROVE  LET w == Whole(C, E)
             c == Len(C)
         IN /\ w \in Seq(Line) /\ c \in Nat /\ Len(E) \in Nat /\ Len(w) = 4 + c + Len(E)
            /\ \A i \in 1..3 : w[i] = HeaderLines[i]
            /\ \A i \in 1..c : w[3 + i] = C[i]
            /\ w[4 + c] = <<"[CATEGORIES]">>
            /\ \A i \in 1..Len(E) : w[4 + c + i] = E[i]
<1> DEFINE H == HeaderLines
           d == <<"[CATEGORIES]">>
           D == <<d>>
           u == H \o C
           v == u \o D
           w == v \o E
           c == Len(C)
           e == Len(E)
<1>1. H \in Seq(Line) /\ Len(H) = 3 /\ D \in Seq(Line) /\ Len(D) = 1 /\ D[1] = d BY HeaderFact
<1>2. c \in Nat /\ e \in Nat BY LenProperties
<1> HIDE DEF H, D, d
<1>3. u \in Seq(Line) /\ Len(u) = 3 + c
      /\ \A i \in 1..Len(H) + Len(C) : u[i] = IF i <= Len(H) THEN H[i] ELSE C[i - Len(H)]
  <2>1. Follow(u, H, C) BY <1>1, JoinedTwo
  <2> HIDE DEF u
  <2> QED BY <1>1, <1>2, <2>1 DEF Follow
<1> HIDE DEF u
<1>4. v \in Seq(Line) /\ Len(v) = 3 + c + 1
      /\ \A i \in 1..Len(u) + Len(D) : v[i] = IF i <= Len(u) THEN u[i] ELSE D[i - Len(u)]
  <2>1. Follow(v, u, D) BY <1>1, <1>3, JoinedTwo
  <2> HIDE DEF v
  <2> QED BY <1>1, <1>3, <1>2, <2>1 DEF Follow
<1> HIDE DEF v
<1>5. w \in Seq(Line) /\ Len(w) = 3 + c + 1 + e
      /\ \A i \in 1..Len(v) + Len(E) : w[i] = IF i <= Len(v) THEN v[i] ELSE E[i - Len(v)]
  <2>1. Follow(w, v, E) BY <1>4, JoinedTwo
  <2> HIDE DEF w
  <2> QED BY <1>4, <1>2, <2>1 DEF Follow
<1> HIDE DEF w, c, e
<1>6. Len(C) = c /\ Len(E) = e BY DEF c, e
<1>7. Len(w) = 4 + c + e BY <1>2, <1>5
<1>8. ASSUME NEW i \in 1..3 PROVE w[i] = H[i]
  <2>1. i \in 1..Len(H) + Len(C) /\ i <= Len(H) BY <1>1, <1>2, <1>6
  <2>2. i \in 1..Len(u) + Len(D) /\ i <= Len(u) BY <1>1, <1>2, <1>3
  <2>3. i \in 1..Len(v) + Len(E) /\ i <= Len(v) BY <1>2, <1>4, <1>6
  <2> QED BY <1>3, <1>4, <1>5, <2>1, <2>2, <2>3
<1>9. ASSUME NEW i \in 1..c PROVE w[3 + i] = C[i]
  <2>1. 3 + i \in 1..Len(H) + Len(C) /\ ~(3 + i <= Len(H)) /\ (3 + i) - Len(H) = i
    BY <1>1, <1>2, <1>6
  <2>2. 3 + i \in 1..Len(u) + Len(D) /\ 3 + i <= Len(u) BY <1>1, <1>2, <1>3
  <2>3. 3 + i \in 1..Len(v) + Len(E) /\ 3 + i <= Len(v) BY <1>2, <1>4, <1>6
  <2> QED BY <1>3, <1>4, <1>5, <2>1, <2>2, <2>3
<1>10. w[4 + c] = d
  <2>1. 4 + c \in 1..Len(u) + Len(D) /\ ~(4 + c <= Len(u)) /\ (4 + c) - Len(u) = 1
    BY <1>1, <1>2, <1>3
  <2>2. 4 + c \in 1..Len(v) + Len(E) /\ 4 + c <= Len(v) BY <1>2, <1>4, <1>6
  <2> QED BY <1>1, <1>4, <1>5, <2>1, <2>2
<1>11. ASSUME NEW i \in 1..e PROVE w[4 + c + i] = E[i]
  <2>1. 4 + c + i \in 1..Len(v) + Len(E) /\ ~(4 + c + i <= Len(v))
        /\ (4 + c + i) - Len(v) = i
    BY <1>2, <1>4, <1>6
  <2> QED BY <1>5, <2>1
<1>12. w = Whole(C, E) BY DEF w, v, u, H, D, d, Whole
<1> QED BY <1>2, <1>5, <1>6, <1>7, <1>8, <1>9, <1>10, <1>11, <1>12 DEF H, d

(* A part of it, from the beginning, is read.                               *)
ReadIs(r, m, x, C, E, ks, es, n) ==
  \E p, q, y :
    /\ p \in 0..Len(C) /\ q \in 0..Len(E)
    /\ ContractsRead(y, m, x, ks, 1..p) /\ EntriesRead(r, m, y, Len(E), es, 1..q)
    /\ n = Len(Whole(C, E)) => p = Len(C) /\ q = Len(E)

LEMMA ReadFact ==
  ASSUME NEW m, IsManager(m), NEW x, IsManager(x), DOMAIN x.leaves = {},
         NEW C, NEW E, NEW ks, NEW es, Lists(C, E, m, ks, es),
         NEW f, NEW n \in 0..Len(Whole(C, E)), f.lines = SubSeq(Whole(C, E), 1, n)
  PROVE  ReadIs(ReadPersistentRegistry(x, f), m, x, C, E, ks, es, n)
<1> DEFINE w == Whole(C, E)
           c == Len(C)
           e == Len(E)
           l == SubSeq(w, 1, n)
           r == ReadPersistentRegistry(x, f)
           Done(p, q, y) == /\ ContractsRead(y, m, x, ks, 1..p)
                            /\ EntriesRead(r, m, y, e, es, 1..q)
                            /\ n = Len(w) => p = c /\ q = e
<1>1. /\ C \in Seq(Line) /\ ks \in [1..c -> DOMAIN m.contracts]
      /\ \A i \in 1..c : C[i] = ContractLine(m, ks[i])
      /\ E \in Seq(Line) /\ es \in [1..e -> DOMAIN m.leaves]
      /\ \A i \in 1..e : E[i] = EntryLine(m, es[i])
  BY DEF Lists
<1>2. /\ w \in Seq(Line) /\ c \in Nat /\ e \in Nat /\ Len(w) = 4 + c + e
      /\ \A i \in 1..3 : w[i] = HeaderLines[i]
      /\ \A i \in 1..c : w[3 + i] = C[i]
      /\ w[4 + c] = <<"[CATEGORIES]">>
      /\ \A i \in 1..e : w[4 + c + i] = E[i]
  BY <1>1, WholeFact
<1>3. \A i \in 1..c : C[i] \in Line /\ Len(C[i]) >= 3
  <2> TAKE i \in 1..c
  <2>1. ks[i] \in DOMAIN m.contracts /\ C[i] = ContractLine(m, ks[i]) BY <1>1
  <2> QED BY <2>1, ContractLineFact
<1>4. \A i \in 1..e : E[i] \in Line /\ Len(E[i]) >= 3
  <2> TAKE i \in 1..e
  <2> DEFINE d == es[i]
  <2>1. d \in DOMAIN m.leaves /\ E[i] = EntryLine(m, d) BY <1>1
  <2> HIDE DEF d
  <2>2. EntryLine(m, d) \in Line /\ Len(EntryLine(m, d)) >= 3 BY <2>1, EntryLineFact
  <2> QED BY <2>1, <2>2
<1>5. n \in Nat /\ n <= Len(w) BY <1>2
<1> HIDE DEF w, c, e
<1>6. l \in Seq(Line) /\ Len(l) = n /\ \A i \in 1..n : l[i] = w[i]
  BY <1>2, <1>5, FrontFact
<1>7. ReadLines(f) = l BY DEF ReadLines, w
<1> DEFINE R == SubSeq(l, 4, Len(l))
           first == Section(R)
           second == Section(IF first.after = <<>> THEN <<>> ELSE Tail(first.after))
           contracts == FoldLeft(ReadContract, x, first.lines)
<1>8. r = IF ~IsPrefix(HeaderLines, l) THEN x
          ELSE IF first.after = <<>> \/ Head(first.after) # <<"[CATEGORIES]">> THEN contracts
          ELSE FoldLeft(ReadEntry, contracts, second.lines)
  BY <1>7 DEF ReadPersistentRegistry
<1> HIDE DEF l, r
<1>9. SUFFICES \E p, q, y : p \in 0..c /\ q \in 0..e /\ Done(p, q, y)
  BY DEF w, c, e, r, ReadIs
<1>10. ASSUME NEW y, IsManager(y), DOMAIN y.leaves = {}
       PROVE  EntriesRead(y, m, y, e, es, 1..0)
  BY <1>10 DEF EntriesRead
<1>11. CASE n < 3
  <2>1. ~IsPrefix(HeaderLines, l)
    <3>1. Len(HeaderLines) = 3 /\ Len(l) = n /\ ~(3 <= n) BY <1>5, <1>6, <1>11, HeaderFact
    <3> QED BY <3>1 DEF IsPrefix
  <2>2. r = x BY <1>8, <2>1
  <2>3. ContractsRead(x, m, x, ks, 1..0) BY DEF ContractsRead, Within
  <2>4. n # Len(w) BY <1>2, <1>11
  <2>5. Done(0, 0, x) BY <1>10, <2>2, <2>3, <2>4
  <2>6. 0 \in 0..c /\ 0 \in 0..e BY <1>2
  <2> HIDE DEF Done
  <2> QED BY <2>5, <2>6
<1>12. CASE n >= 3
  <2>1. IsPrefix(HeaderLines, l)
    <3> DEFINE H == HeaderLines
    <3>1. H \in Seq(Line) /\ Len(H) = 3 BY HeaderFact
    <3>2. \A i \in 1..3 : l[i] = H[i]
      <4> TAKE i \in 1..3
      <4>1. i \in 1..n BY <1>5, <1>12
      <4> QED BY <1>2, <1>6, <4>1
    <3> HIDE DEF H
    <3> DEFINE a == SubSeq(H, 1, 3)
               b == SubSeq(l, 1, 3)
    <3>3. 3 \in 0..Len(H) /\ 3 \in 0..Len(l) /\ 3 <= Len(l) BY <1>5, <1>6, <1>12, <3>1
    <3>4. a \in Seq(Line) /\ Len(a) = 3 /\ \A i \in 1..3 : a[i] = H[i] BY <3>1, <3>3, FrontFact
    <3>5. b \in Seq(Line) /\ Len(b) = 3 /\ \A i \in 1..3 : b[i] = l[i] BY <1>6, <3>3, FrontFact
    <3> HIDE DEF a, b
    <3>6. Len(a) = Len(b) BY <3>4, <3>5
    <3>7. \A i \in 1..Len(a) : a[i] = b[i] BY <3>2, <3>4, <3>5
    <3>8. a = b BY <3>4, <3>5, <3>6, <3>7, SeqEqual
    <3> QED BY <3>1, <3>3, <3>8 DEF IsPrefix, a, b, H
  <2> DEFINE k == n - 3
  <2>2. k \in Nat /\ n = 3 + k BY <1>5, <1>12
  <2>3. R \in Seq(Line) /\ Len(R) = k /\ \A i \in 1..k : R[i] = w[3 + i]
    <3>1. 3 \in 0..Len(l) /\ Len(l) - 3 = k /\ 3 + 1 = 4 BY <1>5, <1>6, <1>12
    <3> DEFINE a == 3
               Q == SubSeq(l, a + 1, Len(l))
    <3>2. a \in 0..Len(l) BY <3>1
    <3> HIDE DEF a, k
    <3>3. Q \in Seq(Line) /\ Len(Q) = Len(l) - a /\ \A i \in 1..Len(l) - a : Q[i] = l[a + i]
      BY <1>6, <3>2, BackFact
    <3>4. Q = R BY <3>1 DEF a
    <3> HIDE DEF Q, R
    <3>5. R \in Seq(Line) /\ Len(R) = k /\ \A i \in 1..k : R[i] = l[3 + i] BY <3>1, <3>3, <3>4 DEF a
    <3>6. \A i \in 1..k : 3 + i \in 1..n BY <2>2
    <3> QED BY <1>6, <3>5, <3>6
  <2> HIDE DEF R, k
  <2>4. \A i \in 1..k : i <= c => R[i] = C[i]
    <3> TAKE i \in 1..k
    <3>1. i <= c => i \in 1..c BY <1>2
    <3> QED BY <1>2, <2>3, <3>1
  <2>5. CASE k <= c
    <3>1. \A i \in 1..k : Len(R[i]) >= 3
      <4> TAKE i \in 1..k
      <4>1. i \in 1..c BY <1>2, <2>2, <2>5
      <4> QED BY <1>3, <2>4, <4>1
    <3>2. k \in 0..Len(R) /\ ~(k < Len(R)) /\ k = Len(R) BY <2>2, <2>3
    <3>3. first = [lines |-> R, after |-> <<>>] BY <2>3, <3>1, <3>2, SectionFact
    <3> DEFINE y == FoldLeft(ReadContract, x, R)
               js == [i \in 1..k |-> ks[i]]
    <3>4. r = y BY <1>8, <2>1, <3>3
    <3>5. js \in [1..k -> DOMAIN m.contracts] /\ \A i \in 1..k : js[i] = ks[i]
      <4>1. \A i \in 1..k : ks[i] \in DOMAIN m.contracts
        <5> TAKE i \in 1..k
        <5>1. i \in 1..c BY <1>2, <2>2, <2>5
        <5> QED BY <1>1, <5>1
      <4> QED BY <4>1
    <3> HIDE DEF js
    <3>6. \A i \in 1..k : R[i] = ContractLine(m, js[i])
      <4> TAKE i \in 1..k
      <4>1. i \in 1..c BY <1>2, <2>2, <2>5
      <4> QED BY <1>1, <2>4, <3>5, <4>1
    <3>7. ContractsRead(y, m, x, js, 1..k) BY <2>2, <2>3, <3>5, <3>6, ContractsFold
    <3> HIDE DEF y
    <3>8. ContractsRead(y, m, x, ks, 1..k) BY <3>5, <3>7 DEF ContractsRead
    <3>9. IsManager(y) /\ DOMAIN y.leaves = {} BY <3>8 DEF ContractsRead
    <3>10. EntriesRead(r, m, y, e, es, 1..0) BY <1>10, <3>4, <3>9
    <3>11. n # Len(w) BY <1>2, <2>2, <2>5
    <3>12. Done(k, 0, y) BY <3>8, <3>10, <3>11
    <3>13. k \in 0..c /\ 0 \in 0..e BY <1>2, <2>2, <2>5
    <3> HIDE DEF Done
    <3> QED BY <3>12, <3>13
  <2>6. CASE k > c
    <3> DEFINE A == SubSeq(R, c + 1, Len(R))
               B == SubSeq(R, 1, c)
               j == k - c - 1
    <3>0. j \in Nat /\ k = c + 1 + j /\ j <= e BY <1>2, <1>5, <2>2, <2>6
    <3>1. \A i \in 1..c : Len(R[i]) >= 3
      <4> TAKE i \in 1..c
      <4>1. i \in 1..k BY <1>2, <2>2, <2>6
      <4> QED BY <1>3, <2>4, <4>1
    <3>2. R[c + 1] = <<"[CATEGORIES]">>
      <4>1. c + 1 \in 1..k /\ 3 + (c + 1) = 4 + c BY <1>2, <2>2, <2>6
      <4> QED BY <1>2, <2>3, <4>1
    <3>3. Len(R[c + 1]) < 3 BY <3>2, HeaderFact
    <3>4. c \in 0..Len(R) /\ c # Len(R) BY <1>2, <2>2, <2>3, <2>6
    <3>5. first = [lines |-> B, after |-> A] BY <2>3, <3>1, <3>3, <3>4, SectionFact
    <3>6. B = C
      <4>1. B \in Seq(Line) /\ Len(B) = c /\ \A i \in 1..c : B[i] = R[i]
        BY <2>3, <3>4, FrontFact
      <4> HIDE DEF B
      <4>2. ASSUME NEW i \in 1..c PROVE B[i] = C[i]
        <5>1. i \in 1..k BY <1>2, <2>2, <2>6
        <5> QED BY <2>4, <4>1, <5>1
      <4>3. \A i \in 1..Len(B) : B[i] = C[i] BY <4>1, <4>2
      <4> QED BY <1>1, <4>1, <4>3, SeqEqual DEF c
    <3>7. A \in Seq(Line) /\ Len(A) = j + 1 /\ A[1] = <<"[CATEGORIES]">>
          /\ \A i \in 1..j : A[i + 1] = E[i]
      <4>1. c \in 0..Len(R) /\ Len(R) - c = j + 1 BY <1>2, <2>3, <3>0, <3>4
      <4>2. A \in Seq(Line) /\ Len(A) = Len(R) - c /\ \A i \in 1..Len(R) - c : A[i] = R[c + i]
        BY <2>3, <4>1, BackFact
      <4> HIDE DEF A, j
      <4>3. A[1] = R[c + 1] BY <3>0, <4>1, <4>2
      <4>4. ASSUME NEW i \in 1..j PROVE A[i + 1] = E[i]
        <5>1. i \in Nat /\ i + 1 \in 1..j + 1 BY <3>0
        <5>2. A[i + 1] = R[c + (i + 1)] BY <4>1, <4>2, <5>1
        <5>3. c + (i + 1) \in 1..k /\ 3 + (c + (i + 1)) = 4 + c + i /\ i \in 1..e
          BY <1>2, <3>0, <5>1
        <5>4. R[c + (i + 1)] = w[4 + c + i] BY <2>3, <5>3
        <5> QED BY <1>2, <5>2, <5>3, <5>4
      <4> QED BY <3>2, <4>1, <4>2, <4>3, <4>4
    <3> HIDE DEF A, B, j
    <3> DEFINE Z == Tail(A)
    <3>8. A # <<>> /\ Head(A) = <<"[CATEGORIES]">> /\ Z \in Seq(Line) /\ Len(Z) = j
          /\ \A i \in 1..j : Z[i] = E[i]
      <4>1. A # <<>> BY <3>0, <3>7, EmptySeq
      <4>2. Z \in Seq(Line) /\ Len(Z) = Len(A) - 1 /\ \A i \in 1..Len(Z) : Z[i] = A[i + 1]
        BY <3>7, <4>1, HeadTailProperties
      <4> HIDE DEF Z
      <4>3. Len(Z) = j BY <3>0, <3>7, <4>2
      <4>4. Head(A) = A[1] BY <3>7, <4>1
      <4> QED BY <3>7, <4>1, <4>2, <4>3, <4>4
    <3>9. Section(Z) = [lines |-> Z, after |-> <<>>]
      <4>1. j \in 0..Len(Z) /\ j = Len(Z) /\ ~(j < Len(Z)) BY <3>0, <3>8
      <4>2. \A i \in 1..j : Len(Z[i]) >= 3
        <5> TAKE i \in 1..j
        <5>1. i \in 1..e BY <1>2, <3>0
        <5> QED BY <1>4, <3>8, <5>1
      <4> HIDE DEF Z
      <4> QED BY <3>8, <4>1, <4>2, SectionFact
    <3> DEFINE y == FoldLeft(ReadContract, x, C)
               z == FoldLeft(ReadEntry, y, Z)
               ds == [i \in 1..j |-> es[i]]
    <3>10. r = z
      <4>1. first.after = A /\ first.lines = C BY <3>5, <3>6
      <4>2. second = Section(Z) BY <3>8, <4>1
      <4>3. second.lines = Z BY <3>9, <4>2
      <4> HIDE DEF Z, first, second
      <4> QED BY <1>8, <2>1, <3>8, <4>1, <4>3
    <3>11. ContractsRead(y, m, x, ks, 1..c) BY <1>1, <1>2, ContractsFold DEF c
    <3> HIDE DEF y, Z
    <3>12. IsManager(y) /\ DOMAIN y.leaves = {} BY <3>11 DEF ContractsRead
    <3>13. ds \in [1..j -> DOMAIN m.leaves] /\ \A i \in 1..j : ds[i] = es[i]
      <4>1. \A i \in 1..j : es[i] \in DOMAIN m.leaves
        <5> TAKE i \in 1..j
        <5>1. i \in 1..e BY <1>2, <3>0
        <5> QED BY <1>1, <5>1
      <4> QED BY <4>1
    <3> HIDE DEF ds
    <3>14. \A i \in 1..j : Z[i] = EntryLine(m, ds[i])
      <4> TAKE i \in 1..j
      <4>1. i \in 1..e BY <1>2, <3>0
      <4> QED BY <1>1, <3>8, <3>13, <4>1
    <3>15. EntriesRead(z, m, y, j, ds, 1..j) BY <3>0, <3>8, <3>12, <3>13, <3>14, EntriesFold
    <3> HIDE DEF z
    <3>16. EntriesRead(z, m, y, e, es, 1..j)
      <4>1. IsManager(z) /\ z.contracts = y.contracts /\ z.locations = y.locations
        BY <3>15 DEF EntriesRead
      <4>2. ASSUME NEW d \in DOMAIN z.leaves
            PROVE  /\ Len(d[1]) = 1 /\ Len(d[2]) = 1
                   /\ \E i \in 1..e : EntryLine(z, d) = EntryLine(m, es[i])
        <5>1. Len(d[1]) = 1 /\ Len(d[2]) = 1 BY <3>15 DEF EntriesRead
        <5>2. PICK i \in 1..j : EntryLine(z, d) = EntryLine(m, ds[i]) BY <3>15 DEF EntriesRead
        <5>3. i \in 1..e BY <1>2, <3>0
        <5> QED BY <3>13, <5>1, <5>2, <5>3
      <4>3. \A i \in 1..j : NameIn(EntryLine(m, es[i])) \in DOMAIN z.leaves
        BY <3>13, <3>15 DEF EntriesRead
      <4> QED BY <4>1, <4>2, <4>3 DEF EntriesRead
    <3>17. n = Len(w) => j = e BY <1>2, <2>2, <3>0
    <3>18. Done(c, j, y) BY <3>10, <3>11, <3>16, <3>17
    <3>19. c \in 0..c /\ j \in 0..e BY <1>2, <3>0
    <3> HIDE DEF Done
    <3> QED BY <3>18, <3>19
  <2> QED BY <1>2, <2>2, <2>5, <2>6
<1> QED BY <1>5, <1>11, <1>12

-----------------------------------------------------------------------------
(* WRITING *)
(* All contracts are listed, and entries of a value; all of these unless a  *)
(* category was given up.                                                   *)
AllContracts(m, C, ks) == \A k \in DOMAIN m.contracts : \E i \in 1..Len(C) : ks[i] = k
Persistent(m, E, es) == \A i \in 1..Len(E) : m.leaves[es[i]] # Empty
AllEntries(m, E, es) ==
  \A e \in DOMAIN m.leaves : m.leaves[e] # Empty => \E i \in 1..Len(E) : es[i] = e
CategoriesOf(m) == {e[1] : e \in DOMAIN m.leaves}

LEMMA ContractLinesFact ==
  ASSUME NEW m, IsManager(m)
  PROVE  LET C == ContractLines(m)
         IN /\ C \in Seq(Line)
            /\ \E ks \in [1..Len(C) -> DOMAIN m.contracts] :
                 /\ \A i \in 1..Len(C) : C[i] = ContractLine(m, ks[i])
                 /\ AllContracts(m, C, ks)
<1> DEFINE D == DOMAIN m.contracts
           ks == SetToSeq(D)
           n == Cardinality(D)
           C == ContractLines(m)
<1>1. IsFiniteSet(D) BY DEF IsManager
<1>2. ks \in [1..n -> D] /\ n \in Nat /\ \A k \in D : \E i \in 1..n : ks[i] = k
  BY <1>1, SetToSeqFact
<1>3. C = [i \in DOMAIN ks |-> ContractLine(m, ks[i])] BY DEF ContractLines
<1> HIDE DEF ks, n, C
<1>4. C = [i \in 1..n |-> ContractLine(m, ks[i])] BY <1>2, <1>3
<1>5. \A i \in 1..n : C[i] = ContractLine(m, ks[i]) /\ C[i] \in Line
  <2> TAKE i \in 1..n
  <2>1. ks[i] \in D /\ C[i] = ContractLine(m, ks[i]) BY <1>2, <1>4
  <2> QED BY <2>1, ContractLineFact
<1>6. C \in Seq(Line) /\ Len(C) = n
  <2>1. C \in [1..n -> Line] BY <1>4, <1>5
  <2> QED BY <1>2, <2>1
<1>7. AllContracts(m, C, ks) BY <1>2, <1>6 DEF AllContracts
<1> QED BY <1>2, <1>5, <1>6, <1>7 DEF C

(* The lines of one category.                                               *)
Few(m, written, t) ==
  IF Len(PersistentOf(m, t)) > written[t] THEN written[t] ELSE Len(PersistentOf(m, t))
PartOf(m, written, t) == [i \in 1..Few(m, written, t) |-> EntryLine(m, PersistentOf(m, t)[i])]

LEMMA PartOfFact ==
  ASSUME NEW m, IsManager(m), NEW written, NEW t, written[t] \in Nat
  PROVE  LET l == PartOf(m, written, t)
             ks == PersistentOf(m, t)
         IN /\ l \in Seq(Line) /\ Len(l) \in Nat
            /\ \A i \in 1..Len(l) : /\ ks[i] \in DOMAIN m.leaves /\ m.leaves[ks[i]] # Empty
                                    /\ l[i] = EntryLine(m, ks[i])
            /\ written[t] = Cardinality(DOMAIN m.leaves) =>
                 \A e \in DOMAIN m.leaves :
                   e[1] = t /\ m.leaves[e] # Empty => \E i \in 1..Len(l) : ks[i] = e
<1> DEFINE D == DOMAIN m.leaves
           S == {e \in D : e[1] = t /\ m.leaves[e] # Empty}
           ks == PersistentOf(m, t)
           n == Cardinality(S)
           f == Few(m, written, t)
           l == PartOf(m, written, t)
<1>1. IsFiniteSet(D) /\ Cardinality(D) \in Nat BY FS_CardinalityType DEF IsManager
<1>2. IsFiniteSet(S) /\ n <= Cardinality(D) BY <1>1, FS_Subset
<1>3. ks = SetToSeq(S) BY DEF PersistentOf
<1> HIDE DEF S, ks
<1>4. ks \in [1..n -> S] /\ n \in Nat /\ Len(ks) = n /\ \A e \in S : \E i \in 1..n : ks[i] = e
  BY <1>2, <1>3, SetToSeqFact
<1> HIDE DEF n
<1>5. f = IF n > written[t] THEN written[t] ELSE n BY <1>4 DEF Few, ks
<1>6. l = [i \in 1..f |-> EntryLine(m, ks[i])] BY DEF PartOf, ks
<1> HIDE DEF f, l
<1>7. f \in Nat /\ f <= n BY <1>4, <1>5
<1>8. ASSUME NEW i \in 1..f
      PROVE  ks[i] \in D /\ m.leaves[ks[i]] # Empty /\ l[i] = EntryLine(m, ks[i]) /\ l[i] \in Line
  <2>1. i \in 1..n BY <1>4, <1>7
  <2> DEFINE d == ks[i]
  <2>2. d \in S /\ l[i] = EntryLine(m, d) BY <1>4, <1>6, <2>1
  <2> HIDE DEF d
  <2>3. d \in D /\ m.leaves[d] # Empty BY <2>2 DEF S
  <2>4. EntryLine(m, d) \in Line BY <2>3, EntryLineFact
  <2> QED BY <2>2, <2>3, <2>4 DEF d
<1>9. l \in Seq(Line) /\ Len(l) = f
  <2>1. l \in [1..f -> Line] BY <1>6, <1>8
  <2> QED BY <1>7, <2>1
<1>10. ASSUME written[t] = Cardinality(D), NEW e \in D, e[1] = t, m.leaves[e] # Empty
       PROVE  \E i \in 1..f : ks[i] = e
  <2>1. f = n BY <1>1, <1>2, <1>4, <1>5, <1>10
  <2>2. e \in S BY <1>10 DEF S
  <2> QED BY <1>4, <2>1, <2>2
<1> QED BY <1>7, <1>8, <1>9, <1>10 DEF l, ks

LEMMA CategoryLinesFact ==
  ASSUME NEW m, IsManager(m), NEW written \in [CategoriesOf(m) -> Nat]
  PROVE  LET E == CategoryLines(m, written)
         IN /\ E \in Seq(Line)
            /\ \E es \in [1..Len(E) -> DOMAIN m.leaves] :
                 /\ \A i \in 1..Len(E) : E[i] = EntryLine(m, es[i])
                 /\ Persistent(m, E, es)
                 /\ (\A t \in CategoriesOf(m) : written[t] = Cardinality(DOMAIN m.leaves)) =>
                      AllEntries(m, E, es)
<1> DEFINE T == CategoriesOf(m)
           cs == SetToSeq(T)
           n == Cardinality(T)
           ss == [i \in 1..n |-> PartOf(m, written, cs[i])]
           E == CategoryLines(m, written)
<1>1. IsFiniteSet(T)
  <2> DEFINE D == DOMAIN m.leaves
             f == [e \in D |-> e[1]]
  <2>1. IsFiniteSet(D) BY DEF IsManager
  <2>2. f \in [D -> T] /\ \A t \in T : \E e \in D : f[e] = t BY DEF CategoriesOf
  <2> HIDE DEF f, D, T
  <2>3. f \in Surjection(D, T) BY <2>2 DEF Surjection
  <2> QED BY <2>1, <2>3, FS_Surjection
<1>2. cs \in [1..n -> T] /\ n \in Nat /\ \A t \in T : \E i \in 1..n : cs[i] = t
  BY <1>1, SetToSeqFact
<1>3. E = FlattenSeq([i \in DOMAIN cs |-> PartOf(m, written, cs[i])])
  BY DEF CategoryLines, PartOf, Few, CategoriesOf
<1> HIDE DEF cs, n, E
<1>4. E = FlattenSeq(ss) BY <1>2, <1>3
<1>5. ASSUME NEW i \in 1..n
      PROVE  /\ ss[i] = PartOf(m, written, cs[i]) /\ cs[i] \in T /\ written[cs[i]] \in Nat
             /\ ss[i] \in Seq(Line)
  <2> DEFINE t == cs[i]
  <2>1. ss[i] = PartOf(m, written, t) /\ t \in T /\ written[t] \in Nat BY <1>2
  <2> HIDE DEF t, T
  <2>2. PartOf(m, written, t) \in Seq(Line) BY <2>1, PartOfFact
  <2> HIDE DEF ss
  <2> QED BY <2>1, <2>2 DEF t
<1>6. ss \in Seq(Seq(Line)) /\ Len(ss) = n
  <2>1. ss \in [1..n -> Seq(Line)] BY <1>5
  <2> HIDE DEF ss
  <2> QED BY <1>2, <2>1
<1> HIDE DEF ss, T
<1>7. E \in Seq(Line) /\ \E row, col : Enumerates(E, ss, n, row, col) BY <1>4, <1>6, FlattenFact
<1>8. PICK row, col : Enumerates(E, ss, n, row, col) BY <1>7
<1>9. /\ row \in [1..Len(E) -> 1..n]
      /\ \A x \in 1..Len(E) : col[x] \in 1..Len(ss[row[x]]) /\ E[x] = ss[row[x]][col[x]]
      /\ \A i \in 1..n : \A j \in 1..Len(ss[i]) : \E x \in 1..Len(E) : row[x] = i /\ col[x] = j
  BY <1>8 DEF Enumerates
<1> DEFINE at(i, j) == PersistentOf(m, cs[i])[j]
           es == [x \in 1..Len(E) |-> at(row[x], col[x])]
<1>10. ASSUME NEW i \in 1..n
       PROVE  /\ \A j \in 1..Len(ss[i]) : /\ at(i, j) \in DOMAIN m.leaves
                                          /\ m.leaves[at(i, j)] # Empty
                                          /\ ss[i][j] = EntryLine(m, at(i, j))
              /\ written[cs[i]] = Cardinality(DOMAIN m.leaves) =>
                   \A e \in DOMAIN m.leaves :
                     e[1] = cs[i] /\ m.leaves[e] # Empty => \E j \in 1..Len(ss[i]) : at(i, j) = e
  <2> DEFINE t == cs[i]
             l == PartOf(m, written, t)
             ks == PersistentOf(m, t)
  <2>1. written[t] \in Nat /\ ss[i] = l BY <1>5
  <2> HIDE DEF t
  <2>2. /\ \A j \in 1..Len(l) : /\ ks[j] \in DOMAIN m.leaves /\ m.leaves[ks[j]] # Empty
                                /\ l[j] = EntryLine(m, ks[j])
        /\ written[t] = Cardinality(DOMAIN m.leaves) =>
             \A e \in DOMAIN m.leaves :
               e[1] = t /\ m.leaves[e] # Empty => \E j \in 1..Len(l) : ks[j] = e
    BY <2>1, PartOfFact
  <2>3. \A j : at(i, j) = ks[j] BY DEF t
  <2> HIDE DEF l, ks, at
  <2> QED BY <2>1, <2>2, <2>3 DEF t
<1> HIDE DEF at
<1>11. ASSUME NEW x \in 1..Len(E)
       PROVE  /\ es[x] \in DOMAIN m.leaves /\ m.leaves[es[x]] # Empty
              /\ E[x] = EntryLine(m, es[x])
  <2>1. /\ row[x] \in 1..n /\ col[x] \in 1..Len(ss[row[x]]) /\ E[x] = ss[row[x]][col[x]]
        /\ es[x] = at(row[x], col[x])
    BY <1>9
  <2> HIDE DEF es
  <2> QED BY <1>10, <2>1
<1>12. es \in [1..Len(E) -> DOMAIN m.leaves] BY <1>11
<1>13. Persistent(m, E, es) BY <1>11 DEF Persistent
<1>14. ASSUME \A t \in T : written[t] = Cardinality(DOMAIN m.leaves),
              NEW e \in DOMAIN m.leaves, m.leaves[e] # Empty
       PROVE  \E x \in 1..Len(E) : es[x] = e
  <2>1. e[1] \in T BY DEF T, CategoriesOf
  <2>2. PICK i \in 1..n : cs[i] = e[1] BY <1>2, <2>1
  <2>3. written[cs[i]] = Cardinality(DOMAIN m.leaves) BY <1>14, <2>1, <2>2
  <2>4. PICK j \in 1..Len(ss[i]) : at(i, j) = e BY <1>10, <1>14, <2>2, <2>3
  <2>5. PICK x \in 1..Len(E) : row[x] = i /\ col[x] = j BY <1>9
  <2> QED BY <2>4, <2>5
<1>15. (\A t \in T : written[t] = Cardinality(DOMAIN m.leaves)) => AllEntries(m, E, es)
  <2> HIDE DEF es
  <2> QED BY <1>14 DEF AllEntries
<1> HIDE DEF es
<1> QED BY <1>7, <1>11, <1>12, <1>13, <1>15 DEF E, T

LEMMA LinesFact ==
  ASSUME NEW m, IsManager(m), NEW written \in [CategoriesOf(m) -> Nat]
  PROVE  \E C, E, ks, es :
           /\ Lists(C, E, m, ks, es) /\ Lines(m, written) = Whole(C, E)
           /\ AllContracts(m, C, ks) /\ Persistent(m, E, es)
           /\ (\A t \in CategoriesOf(m) : written[t] = Cardinality(DOMAIN m.leaves)) =>
                AllEntries(m, E, es)
<1> DEFINE C == ContractLines(m)
           E == CategoryLines(m, written)
<1>1. C \in Seq(Line) /\ E \in Seq(Line) BY ContractLinesFact, CategoryLinesFact
<1>2. PICK ks \in [1..Len(C) -> DOMAIN m.contracts] :
        (\A i \in 1..Len(C) : C[i] = ContractLine(m, ks[i])) /\ AllContracts(m, C, ks)
  BY ContractLinesFact
<1>3. PICK es \in [1..Len(E) -> DOMAIN m.leaves] :
        /\ \A i \in 1..Len(E) : E[i] = EntryLine(m, es[i])
        /\ Persistent(m, E, es)
        /\ (\A t \in CategoriesOf(m) : written[t] = Cardinality(DOMAIN m.leaves)) =>
             AllEntries(m, E, es)
  BY CategoryLinesFact
<1>4. Lines(m, written) = Whole(C, E) BY DEF Lines, Whole
<1> HIDE DEF C, E
<1>5. Lists(C, E, m, ks, es) BY <1>1, <1>2, <1>3 DEF Lists
<1> QED BY <1>2, <1>3, <1>4, <1>5

-----------------------------------------------------------------------------
(* THE NEXT PROGRAM *)
(* What is in the file, and what the next program makes of it.              *)
FileOf(f, m, how) ==
  \E C, E, ks, es :
    /\ Lists(C, E, m, ks, es) /\ AllContracts(m, C, ks) /\ Persistent(m, E, es)
    /\ how = "written" => AllEntries(m, E, es)
    /\ \E n \in 0..Len(Whole(C, E)) :
         f.lines = SubSeq(Whole(C, E), 1, n) /\ (how # "torn" => n = Len(Whole(C, E)))

Restored(r, m, x, how) ==
  /\ Within(r.contracts, m.contracts, x.contracts)
  /\ Within(r.locations, m.locations, x.locations)
  /\ \A e \in DOMAIN r.leaves :
       \E f \in DOMAIN m.leaves : EntryLine(r, e) = EntryLine(m, f) /\ m.leaves[f] # Empty
  /\ how \in {"written", "short"} =>
       \A k \in DOMAIN m.contracts :
         Len(k) = 1 => k \in DOMAIN r.contracts /\ r.contracts[k] = m.contracts[k]
  /\ how = "written" =>
       \A e \in DOMAIN m.leaves :
         m.leaves[e] # Empty /\ ~Comma(e) =>
           /\ e \in DOMAIN r.leaves
           /\ \/ r.leaves[e] = m.leaves[e]
              \/ \E f \in DOMAIN m.leaves : Comma(f) /\ m.leaves[f] # Empty
                                            /\ IsPrefix(e[1] \o e[2], f[1] \o f[2])

(* The line of an entry begins with its name.                               *)
Begins(s, e, l) ==
  /\ s \in Line /\ Len(s) = Len(e[1]) + Len(e[2]) /\ Len(s) \in Nat
  /\ Len(e[1]) \in Nat \ {0} /\ Len(e[2]) \in Nat \ {0}
  /\ \A i \in 1..Len(s) : s[i] = l[i]

LEMMA NameFact ==
  ASSUME NEW l, NEW e, NEW v, Spells(l, e, v)
  PROVE  Begins(e[1] \o e[2], e, l)
<1> DEFINE a == e[1]
           b == e[2]
           s == a \o b
<1>1. /\ a \in Phrase /\ b \in Phrase
      /\ \A i \in 1..Len(a) : l[i] = a[i]
      /\ \A i \in 1..Len(b) : l[Len(a) + i] = b[i]
  BY DEF Spells, Joins
<1> HIDE DEF a, b
<1>2. a \in Line /\ b \in Line /\ Len(a) \in Nat \ {0} /\ Len(b) \in Nat \ {0} BY <1>1, PhraseFact
<1>3. a \in Seq(Word) /\ b \in Seq(Word) BY <1>2 DEF Line
<1>4. s \in Seq(Word) /\ Len(s) = Len(a) + Len(b)
      /\ \A i \in 1..Len(a) + Len(b) : s[i] = IF i <= Len(a) THEN a[i] ELSE b[i - Len(a)]
  BY <1>3, ConcatProperties
<1> HIDE DEF s
<1>5. ASSUME NEW i \in 1..Len(a) PROVE s[i] = l[i]
  <2>1. i \in 1..Len(a) + Len(b) /\ i <= Len(a) BY <1>2
  <2> QED BY <1>1, <1>4, <2>1
<1>6. ASSUME NEW i \in 1..Len(s), ~(i <= Len(a)) PROVE s[i] = l[i]
  <2> DEFINE j == i - Len(a)
  <2>1. j \in 1..Len(b) /\ Len(a) + j = i /\ i \in 1..Len(a) + Len(b) BY <1>2, <1>4, <1>6
  <2>2. s[i] = b[j] BY <1>4, <1>6, <2>1
  <2> HIDE DEF j
  <2>3. l[Len(a) + j] = b[j] BY <1>1, <2>1
  <2> QED BY <2>1, <2>2, <2>3
<1>7. \A i \in 1..Len(s) : s[i] = l[i]
  <2> TAKE i \in 1..Len(s)
  <2>1. i <= Len(a) => i \in 1..Len(a) BY <1>2, <1>4
  <2> QED BY <1>5, <1>6, <2>1
<1>8. s \in Line /\ Len(s) \in Nat BY <1>2, <1>4 DEF Line
<1>9. Begins(s, e, l) BY <1>2, <1>4, <1>7, <1>8 DEF Begins, a, b
<1> QED BY <1>9 DEF s, a, b

LEMMA PlainName ==
  ASSUME NEW l, NEW e, NEW v, Spells(l, e, v), ~Comma(e)
  PROVE  e = NameIn(l) /\ Len(e[1]) = 1 /\ Len(e[2]) = 1
<1> DEFINE a == e[1]
           b == e[2]
           s == a \o b
<1>1. Begins(s, e, l) BY NameFact
<1>2. ~(Len(s) > 2) BY DEF Comma
<1> HIDE DEF s
<1>3. Len(s) = Len(a) + Len(b) /\ Len(a) \in Nat \ {0} /\ Len(b) \in Nat \ {0}
  BY <1>1 DEF Begins
<1>4. /\ e = <<a, b>> /\ a \in Phrase /\ b \in Phrase
      /\ \A i \in 1..Len(a) : l[i] = a[i]
      /\ \A i \in 1..Len(b) : l[Len(a) + i] = b[i]
  BY DEF Spells, Joins
<1> HIDE DEF a, b
<1>5. Len(a) = 1 /\ Len(b) = 1
  <2>1. ASSUME NEW i \in Nat \ {0}, NEW j \in Nat \ {0}, ~(i + j > 2) PROVE i = 1 /\ j = 1
    BY <2>1
  <2> QED BY <1>2, <1>3, <2>1
<1>6. l[1] = a[1] /\ l[2] = b[1] BY <1>4, <1>5
<1>7. ASSUME NEW t \in Phrase, Len(t) = 1 PROVE t = <<t[1]>>
  <2>1. t \in Seq(Word) /\ 1 \in 1..Len(t) BY <1>7, PhraseFact DEF Line
  <2>2. t[1] \in Word BY <2>1, ElementOfSeq
  <2> DEFINE o == <<t[1]>>
  <2>3. o \in Line /\ Len(o) = 1 /\ o[1] = t[1] BY <2>2, OneWord
  <2> HIDE DEF o
  <2>4. o \in Seq(Word) /\ Len(t) = Len(o) /\ \A i \in 1..Len(t) : t[i] = o[i]
    BY <1>7, <2>3 DEF Line
  <2>5. t = o BY <2>1, <2>4, SeqEqual
  <2> QED BY <2>5 DEF o
<1>8. a = <<a[1]>> /\ b = <<b[1]>> BY <1>4, <1>5, <1>7
<1>9. e = NameIn(l) BY <1>4, <1>6, <1>8 DEF NameIn
<1> QED BY <1>5, <1>9 DEF a, b

(* An entry is read with its value, or with the rest of a line that begins  *)
(* with its name.                                                           *)
LEMMA EntryRestored ==
  ASSUME NEW u, NEW e, NEW v, Spells(u, e, v), ~Comma(e), NEW f, NEW w, Spells(u, f, w)
  PROVE  (e = f /\ v = w) \/ (Comma(f) /\ IsPrefix(e[1] \o e[2], f[1] \o f[2]))
<1> DEFINE s == e[1] \o e[2]
           t == f[1] \o f[2]
<1>1. e = NameIn(u) /\ Len(e[1]) = 1 /\ Len(e[2]) = 1 BY PlainName
<1>2. Begins(s, e, u) /\ Begins(t, f, u) BY NameFact
<1>3. CASE Comma(f)
  <2>1. Len(t) > 2 BY <1>3 DEF Comma
  <2> HIDE DEF s, t
  <2>2. /\ s \in Seq(Word) /\ Len(s) = 2 /\ t \in Seq(Word) /\ Len(t) \in Nat
        /\ \A i \in 1..2 : s[i] = u[i]
        /\ \A i \in 1..Len(t) : t[i] = u[i]
    <3>1. /\ s \in Seq(Word) /\ t \in Seq(Word) /\ Len(t) \in Nat
          /\ Len(s) = Len(e[1]) + Len(e[2])
          /\ \A i \in 1..Len(s) : s[i] = u[i]
          /\ \A i \in 1..Len(t) : t[i] = u[i]
      BY <1>2 DEF Begins, Line
    <3>2. Len(s) = 2 BY <1>1, <3>1
    <3> QED BY <3>1, <3>2
  <2> DEFINE a == SubSeq(s, 1, 2)
             b == SubSeq(t, 1, 2)
  <2>3. 2 \in 0..Len(s) /\ 2 \in 0..Len(t) BY <2>1, <2>2
  <2>4. a \in Seq(Word) /\ Len(a) = 2 /\ \A i \in 1..2 : a[i] = s[i] BY <2>2, <2>3, FrontFact
  <2>5. b \in Seq(Word) /\ Len(b) = 2 /\ \A i \in 1..2 : b[i] = t[i] BY <2>2, <2>3, FrontFact
  <2> HIDE DEF a, b
  <2>6. Len(a) = Len(b) /\ \A i \in 1..Len(a) : a[i] = b[i]
    <3>1. \A i \in 1..2 : i \in 1..Len(t) BY <2>1, <2>2
    <3> QED BY <2>2, <2>4, <2>5, <3>1
  <2>7. a = b BY <2>4, <2>5, <2>6, SeqEqual
  <2>8. IsPrefix(s, t) BY <2>1, <2>2, <2>7 DEF IsPrefix, a, b
  <2> QED BY <1>3, <2>8 DEF s, t
<1>4. CASE ~Comma(f)
  <2>1. f = NameIn(u) /\ Len(f[1]) = 1 /\ Len(f[2]) = 1 BY <1>4, PlainName
  <2>2. f = e BY <1>1, <2>1
  <2>3. /\ v \in Phrase /\ Len(u) = 1 + 1 + Len(v)
        /\ \A i \in 1..Len(v) : u[1 + 1 + i] = v[i]
    BY <1>1 DEF Spells, Joins
  <2>4. /\ w \in Phrase /\ Len(u) = 1 + 1 + Len(w)
        /\ \A i \in 1..Len(w) : u[1 + 1 + i] = w[i]
    BY <2>1 DEF Spells, Joins
  <2>5. Len(v) \in Nat /\ Len(w) \in Nat /\ v \in Seq(Word) /\ w \in Seq(Word)
    BY <2>3, <2>4, PhraseFact DEF Line
  <2>6. Len(v) = Len(w) BY <2>3, <2>4, <2>5
  <2>7. \A i \in 1..Len(v) : v[i] = w[i] BY <2>3, <2>4, <2>6
  <2>8. v = w BY <2>5, <2>6, <2>7, SeqEqual
  <2> QED BY <2>2, <2>8
<1> QED BY <1>3, <1>4

LEMMA ReadRestores ==
  ASSUME NEW m, IsManager(m), NEW x, IsManager(x), DOMAIN x.leaves = {},
         NEW f, NEW how, FileOf(f, m, how)
  PROVE  /\ IsManager(ReadPersistentRegistry(x, f))
         /\ Restored(ReadPersistentRegistry(x, f), m, x, how)
<1> DEFINE r == ReadPersistentRegistry(x, f)
<1>1. PICK C, E, ks, es :
        /\ Lists(C, E, m, ks, es) /\ AllContracts(m, C, ks) /\ Persistent(m, E, es)
        /\ how = "written" => AllEntries(m, E, es)
        /\ \E n \in 0..Len(Whole(C, E)) :
             f.lines = SubSeq(Whole(C, E), 1, n) /\ (how # "torn" => n = Len(Whole(C, E)))
  BY DEF FileOf
<1>2. PICK n \in 0..Len(Whole(C, E)) :
        f.lines = SubSeq(Whole(C, E), 1, n) /\ (how # "torn" => n = Len(Whole(C, E)))
  BY <1>1
<1>3. PICK p, q, y :
        /\ p \in 0..Len(C) /\ q \in 0..Len(E)
        /\ ContractsRead(y, m, x, ks, 1..p) /\ EntriesRead(r, m, y, Len(E), es, 1..q)
        /\ n = Len(Whole(C, E)) => p = Len(C) /\ q = Len(E)
  <2>1. Lists(C, E, m, ks, es) /\ f.lines = SubSeq(Whole(C, E), 1, n) BY <1>1, <1>2
  <2>2. ReadIs(r, m, x, C, E, ks, es, n) BY <2>1, ReadFact
  <2> HIDE DEF r
  <2> QED BY <2>2 DEF ReadIs
<1> HIDE DEF r
<1>4. es \in [1..Len(E) -> DOMAIN m.leaves] BY <1>1 DEF Lists
<1>5. IsManager(r) /\ r.contracts = y.contracts /\ r.locations = y.locations
  BY <1>3 DEF EntriesRead
<1>6. Within(r.contracts, m.contracts, x.contracts) /\ Within(r.locations, m.locations, x.locations)
  BY <1>3, <1>5 DEF ContractsRead
<1>7. ASSUME NEW e \in DOMAIN r.leaves
      PROVE  \E g \in DOMAIN m.leaves : EntryLine(r, e) = EntryLine(m, g) /\ m.leaves[g] # Empty
  <2>1. PICK i \in 1..Len(E) : EntryLine(r, e) = EntryLine(m, es[i]) BY <1>3 DEF EntriesRead
  <2>2. es[i] \in DOMAIN m.leaves /\ m.leaves[es[i]] # Empty BY <1>1, <1>4 DEF Persistent
  <2> QED BY <2>1, <2>2
<1>8. ASSUME how \in {"written", "short"}, NEW k \in DOMAIN m.contracts, Len(k) = 1
      PROVE  k \in DOMAIN r.contracts /\ r.contracts[k] = m.contracts[k]
  <2>1. p = Len(C) BY <1>2, <1>3, <1>8
  <2>2. PICK i \in 1..Len(C) : ks[i] = k BY <1>1 DEF AllContracts
  <2>3. Bound(y, m, k) BY <1>3, <2>1, <2>2 DEF ContractsRead
  <2> QED BY <1>5, <1>8, <2>3 DEF Bound
<1>9. ASSUME how = "written", NEW e \in DOMAIN m.leaves, m.leaves[e] # Empty, ~Comma(e)
      PROVE  /\ e \in DOMAIN r.leaves
             /\ \/ r.leaves[e] = m.leaves[e]
                \/ \E g \in DOMAIN m.leaves : Comma(g) /\ m.leaves[g] # Empty
                                              /\ IsPrefix(e[1] \o e[2], g[1] \o g[2])
  <2>1. q = Len(E) BY <1>2, <1>3, <1>9
  <2>2. PICK i \in 1..Len(E) : es[i] = e BY <1>1, <1>9 DEF AllEntries
  <2>3. NameIn(EntryLine(m, e)) \in DOMAIN r.leaves BY <1>3, <2>1, <2>2 DEF EntriesRead
  <2>4. e \in DOMAIN r.leaves
    <3>1. Spells(EntryLine(m, e), e, m.leaves[e]) BY EntrySpells
    <3>2. e = NameIn(EntryLine(m, e)) BY <1>9, <3>1, PlainName
    <3> QED BY <2>3, <3>2
  <2>5. PICK g \in DOMAIN m.leaves : EntryLine(r, e) = EntryLine(m, g) /\ m.leaves[g] # Empty
    BY <1>7, <2>4
  <2>6. r.leaves[e] = m.leaves[e] \/ (Comma(g) /\ IsPrefix(e[1] \o e[2], g[1] \o g[2]))
    <3>1. Spells(EntryLine(r, e), e, r.leaves[e]) BY <1>5, <2>4, EntrySpells
    <3>2. Spells(EntryLine(m, g), g, m.leaves[g]) BY EntrySpells
    <3> DEFINE u == EntryLine(m, g)
               v == r.leaves[e]
               w == m.leaves[g]
    <3>3. Spells(u, e, v) /\ Spells(u, g, w) BY <2>5, <3>1, <3>2
    <3> HIDE DEF u, v, w
    <3>4. (e = g /\ v = w) \/ (Comma(g) /\ IsPrefix(e[1] \o e[2], g[1] \o g[2]))
      BY <1>9, <3>3, EntryRestored
    <3> QED BY <3>4 DEF v, w
  <2> QED BY <2>4, <2>5, <2>6
<1>10. Restored(r, m, x, how) BY <1>6, <1>7, <1>8, <1>9 DEF Restored
<1> QED BY <1>5, <1>10 DEF r

-----------------------------------------------------------------------------
(* THE INVARIANT *)
(* The managers are as registrations and AddCategoryEntry make              *)
(* them; a file that was begun has lines of what the manager had, from the  *)
(* first on; and one who has read it has what it could find there.          *)
Ways == {"written", "short", "torn"}
RegistryInv ==
  /\ IsManager(manager) /\ IsManager(was) /\ IsManager(own)
  /\ \/ state = <<"running">>
     \/ \E how \in Ways : state = <<how>> /\ FileOf(file, was, how)
     \/ \E how \in Ways : state = <<"read", how>> /\ Restored(manager, was, own, how)

LEMMA NoManagerFact == IsManager(NoManager) /\ DOMAIN NoManager.leaves = {}
<1> DEFINE o == <<>>
           m == NoManager
<1>1. DOMAIN o = {} /\ \A S : o \in [DOMAIN o -> S] OBVIOUS
<1>2. IsFiniteSet({}) BY FS_EmptySet
<1>3. m = [contracts |-> o, locations |-> o, leaves |-> o] BY DEF NoManager
<1> HIDE DEF o, m
<1>4. /\ m.contracts = o /\ m.locations = o /\ m.leaves = o
      /\ m = [contracts |-> m.contracts, locations |-> m.locations, leaves |-> m.leaves]
  BY <1>3
<1>5. IsManager(m) BY <1>1, <1>2, <1>4 DEF IsManager
<1> QED BY <1>1, <1>4, <1>5 DEF m

LEMMA InitIsRegistry == RegistryInit => RegistryInv
BY NoManagerFact DEF RegistryInit, RegistryInv

LEMMA EmptyIsPhrase == Empty \in Phrase
<1>1. "" \in Word BY DEF Word
<1> QED BY <1>1, OneWord DEF Empty

LEMMA BecomeKeeps ==
  ASSUME NEW m, IsManager(m), Become(m)
  PROVE  RegistryInv'
BY NoManagerFact DEF Become, RegistryInv

LEMMA ChangeKeeps ==
  ASSUME RegistryInv, Change
  PROVE  RegistryInv'
<1>1. IsManager(manager) BY DEF RegistryInv
<1>2. /\ Contract \subseteq Phrase /\ Location \subseteq Phrase /\ Value \subseteq Phrase
      /\ Entry \subseteq Phrase \X Phrase
  BY TextIsPhrase, RegistryAssumption
<1>3. CASE \E k \in Contract, c \in CID : Become(FactoryRegistered(manager, k, c))
  <2>1. PICK k \in Contract, c \in CID : Become(FactoryRegistered(manager, k, c)) BY <1>3
  <2>2. IsManager(FactoryRegistered(manager, k, c))
    BY <1>1, EmptyIsPhrase, RegisterKeeps DEF FactoryRegistered
  <2> QED BY <2>1, <2>2, BecomeKeeps
<1>4. CASE \E k \in Contract, c \in CID : \E location \in Location :
             Become(FactoryLocationRegistered(manager, k, c, location))
  <2>1. PICK k \in Contract, c \in CID, location \in Location :
          Become(FactoryLocationRegistered(manager, k, c, location))
    BY <1>4
  <2>2. IsManager(FactoryLocationRegistered(manager, k, c, location))
    BY <1>1, <1>2, RegisterKeeps
  <2> QED BY <2>1, <2>2, BecomeKeeps
<1>5. CASE \E c \in CID : Become(FactoryUnregistered(manager, c))
  BY <1>1, <1>5, UnregisterKeeps, BecomeKeeps
<1>6. CASE \E e \in Entry : \E value \in Value, persist, replace \in BOOLEAN :
             Become(AddCategoryEntry(manager, e, value, persist, replace))
  <2>1. PICK e \in Entry, value \in Value, persist \in BOOLEAN, replace \in BOOLEAN :
          Become(AddCategoryEntry(manager, e, value, persist, replace))
    BY <1>6
  <2>2. e \in Phrase \X Phrase /\ value \in Phrase BY <1>2
  <2>3. IsManager(AddCategoryEntry(manager, e, value, persist, replace))
    BY <1>1, <2>2, AddKeeps
  <2> QED BY <2>1, <2>3, BecomeKeeps
<1>7. CASE \E e \in Entry : Become(DeleteCategoryEntry(manager, e))
  BY <1>1, <1>7, DeleteKeeps, BecomeKeeps
<1> QED BY <1>3, <1>4, <1>5, <1>6, <1>7 DEF Change

(* What is written is a file of the manager, whichever way it goes.         *)
LEMMA FileIsOf ==
  ASSUME NEW m, IsManager(m), NEW written \in [CategoriesOf(m) -> Nat],
         NEW how, how = "written" =>
                    \A t \in CategoriesOf(m) : written[t] = Cardinality(DOMAIN m.leaves),
         NEW n \in 0..Len(Lines(m, written)), how # "torn" => n = Len(Lines(m, written)),
         NEW f, f.lines = SubSeq(Lines(m, written), 1, n)
  PROVE  FileOf(f, m, how)
<1>1. PICK C, E, ks, es :
        /\ Lists(C, E, m, ks, es) /\ Lines(m, written) = Whole(C, E)
        /\ AllContracts(m, C, ks) /\ Persistent(m, E, es)
        /\ (\A t \in CategoriesOf(m) : written[t] = Cardinality(DOMAIN m.leaves)) =>
             AllEntries(m, E, es)
  BY LinesFact
<1>2. n \in 0..Len(Whole(C, E)) /\ f.lines = SubSeq(Whole(C, E), 1, n)
      /\ (how # "torn" => n = Len(Whole(C, E)))
  BY <1>1
<1> QED BY <1>1, <1>2 DEF FileOf

LEMMA LinesAre ==
  ASSUME NEW m, IsManager(m), NEW written \in [CategoriesOf(m) -> Nat]
  PROVE  LET l == Lines(m, written)
         IN Len(l) \in Nat /\ SubSeq(l, 1, Len(l)) = l
<1> DEFINE l == Lines(m, written)
<1>1. PICK C, E, ks, es : Lists(C, E, m, ks, es) /\ l = Whole(C, E) BY LinesFact
<1> HIDE DEF l
<1>2. C \in Seq(Line) /\ E \in Seq(Line) BY <1>1 DEF Lists
<1>3. l \in Seq(Line) BY <1>1, <1>2, WholeFact
<1>4. Len(l) \in Nat BY <1>3, LenProperties
<1> DEFINE s == SubSeq(l, 1, Len(l))
<1>5. Len(l) \in 0..Len(l) BY <1>4
<1>6. s \in Seq(Line) /\ Len(s) = Len(l) /\ \A i \in 1..Len(l) : s[i] = l[i]
  BY <1>3, <1>5, FrontFact
<1> HIDE DEF s
<1>7. s = l BY <1>3, <1>6, SeqEqual
<1> QED BY <1>4, <1>7 DEF s, l

LEMMA WriteKeeps ==
  ASSUME RegistryInv, WritePersistentRegistry
  PROVE  RegistryInv'
<1> DEFINE T == CategoriesOf(manager)
           most == Cardinality(DOMAIN manager.leaves)
           full == [t \in T |-> most]
           all == Lines(manager, full)
<1>1. IsManager(manager) /\ IsManager(own) BY DEF RegistryInv
<1>2. most \in Nat BY <1>1, FS_CardinalityType DEF IsManager
<1>3. /\ was' = manager /\ manager' = manager /\ own' = own
      /\ \/ Written(all)
         \/ \E written \in [T -> 0..most] :
              /\ state' = <<"short">>
              /\ file' = [lines |-> Lines(manager, written), rest |-> <<>>]
  BY DEF WritePersistentRegistry, CategoriesOf
<1>4. full \in [T -> Nat] /\ \A t \in T : full[t] = most BY <1>2
<1> HIDE DEF full
<1>5. Len(all) \in Nat /\ SubSeq(all, 1, Len(all)) = all BY <1>1, <1>4, LinesAre
<1>6. SUFFICES \E how \in Ways : state' = <<how>> /\ FileOf(file', manager, how)
  BY <1>1, <1>3 DEF RegistryInv
<1>7. CASE state' = <<"written">> /\ file' = [lines |-> all, rest |-> <<>>]
  <2> DEFINE n == Len(all)
             f == file'
  <2>1. n \in 0..Len(all) /\ f.lines = SubSeq(all, 1, n) /\ n = Len(all) BY <1>5, <1>7
  <2> HIDE DEF n, f
  <2>2. FileOf(f, manager, "written") BY <1>1, <1>4, <2>1, FileIsOf
  <2> QED BY <1>7, <2>2 DEF f, Ways
<1>8. CASE /\ state' = <<"torn">>
           /\ \E n \in 0..Len(all) - 1 : \E rest \in Cuts(all[n + 1]) :
                file' = [lines |-> SubSeq(all, 1, n), rest |-> rest]
  <2>1. PICK n \in 0..Len(all) - 1 : \E rest \in Cuts(all[n + 1]) :
               file' = [lines |-> SubSeq(all, 1, n), rest |-> rest]
    BY <1>8
  <2> DEFINE f == file'
  <2>2. n \in 0..Len(all) /\ f.lines = SubSeq(all, 1, n) BY <1>5, <2>1
  <2> HIDE DEF f
  <2>3. FileOf(f, manager, "torn") BY <1>1, <1>4, <2>2, FileIsOf
  <2> QED BY <1>8, <2>3 DEF f, Ways
<1>9. CASE \E written \in [T -> 0..most] :
             /\ state' = <<"short">>
             /\ file' = [lines |-> Lines(manager, written), rest |-> <<>>]
  <2>1. PICK written \in [T -> 0..most] :
          /\ state' = <<"short">>
          /\ file' = [lines |-> Lines(manager, written), rest |-> <<>>]
    BY <1>9
  <2>2. written \in [T -> Nat] BY <1>2
  <2> DEFINE l == Lines(manager, written)
             n == Len(l)
             f == file'
  <2>3. Len(l) \in Nat /\ SubSeq(l, 1, Len(l)) = l BY <1>1, <2>2, LinesAre
  <2>4. n \in 0..Len(l) /\ f.lines = SubSeq(l, 1, n) /\ n = Len(l) BY <2>1, <2>3
  <2> HIDE DEF n, f
  <2>5. FileOf(f, manager, "short") BY <1>1, <2>2, <2>4, FileIsOf
  <2> QED BY <2>1, <2>5 DEF f, Ways
<1> QED BY <1>3, <1>7, <1>8, <1>9 DEF Written

LEMMA RestartKeeps ==
  ASSUME RegistryInv, Restart
  PROVE  RegistryInv'
<1> DEFINE x == own'
           r == ReadPersistentRegistry(x, file)
<1>1. /\ ~Runs /\ state' = <<"read", state[1]>> /\ manager' = r /\ was' = was
      /\ x \in {NoManager} \cup {FactoryRegistered(NoManager, k, c) : k \in Contract, c \in CID}
  BY DEF Restart
<1>2. IsManager(x) /\ DOMAIN x.leaves = {}
  <2>1. CASE x = NoManager BY <2>1, NoManagerFact
  <2>2. CASE \E k \in Contract, c \in CID : x = FactoryRegistered(NoManager, k, c)
    <3>1. PICK k \in Contract, c \in CID : x = FactoryLocationRegistered(NoManager, k, c, Empty)
      BY <2>2 DEF FactoryRegistered
    <3> DEFINE o == NoManager
    <3>2. IsManager(o) /\ DOMAIN o.leaves = {} BY NoManagerFact
    <3> HIDE DEF o, x
    <3>3. x = FactoryLocationRegistered(o, k, c, Empty) BY <3>1 DEF o
    <3>4. IsManager(x) BY <3>2, <3>3, EmptyIsPhrase, RegisterKeeps
    <3>5. x.leaves = o.leaves BY <3>2, <3>3, RegisterIs
    <3> QED BY <3>2, <3>4, <3>5 DEF x
  <2> QED BY <1>1, <2>1, <2>2
<1>3. PICK how \in Ways : state = <<how>> /\ FileOf(file, was, how)
  <2>1. state # <<"running">> BY <1>1 DEF Runs
  <2>2. \A how : state # <<"read", how>> BY <1>1 DEF Runs
  <2> QED BY <2>1, <2>2 DEF RegistryInv
<1>4. IsManager(was) BY DEF RegistryInv
<1> HIDE DEF x
<1>5. IsManager(r) /\ Restored(r, was, x, how) BY <1>2, <1>3, <1>4, ReadRestores
<1> HIDE DEF r
<1>6. state' = <<"read", how>> BY <1>1, <1>3
<1> QED BY <1>1, <1>2, <1>4, <1>5, <1>6 DEF RegistryInv, x

(* What is restored is what the property says.                              *)
LEMMA RestoredIsThere == RegistryInv => RestoredWasThere
<1> SUFFICES ASSUME RegistryInv, state[1] = "read" PROVE RestoredWasThere
  BY DEF RestoredWasThere
<1>1. PICK how \in Ways : state = <<"read", how>> /\ Restored(manager, was, own, how)
  <2>1. state # <<"running">> OBVIOUS
  <2>2. \A how \in Ways : state # <<how>> BY DEF Ways
  <2> QED BY <2>1, <2>2 DEF RegistryInv
<1>2. state[2] = how BY <1>1
<1> QED BY <1>1, <1>2 DEF Restored, RestoredWasThere

(* A program finds in the registry what the one before it had, wherever     *)
(* that was stopped while writing it (WritePersistentRegistry and           *)
(* ReadPersistentRegistry of cciComponentManager.cpp): for any contract     *)
(* ids, classes, locations and entries, as long as no contract id has a     *)
(* comma and then what reads as a class id.                                 *)
THEOREM RegistryIsRestored == RegistrySpec => []RestoredWasThere
<1>1. RegistryInit => RegistryInv BY InitIsRegistry
<1>2. RegistryInv /\ [RegistryNext]_<<manager, file, was, own, state>> => RegistryInv'
  <2> SUFFICES ASSUME RegistryInv, [RegistryNext]_<<manager, file, was, own, state>>
               PROVE  RegistryInv'
    OBVIOUS
  <2>1. CASE Change BY <2>1, ChangeKeeps
  <2>2. CASE WritePersistentRegistry BY <2>2, WriteKeeps
  <2>3. CASE Restart BY <2>3, RestartKeeps
  <2>4. CASE UNCHANGED <<manager, file, was, own, state>> BY <2>4 DEF RegistryInv
  <2> QED BY <2>1, <2>2, <2>3, <2>4 DEF RegistryNext
<1>3. RegistryInv => RestoredWasThere BY RestoredIsThere
<1> QED BY <1>1, <1>2, <1>3, PTL DEF RegistrySpec
=============================================================================
