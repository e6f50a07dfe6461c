---------------------------- MODULE HashTable_proofs ----------------------------
(***************************************************************************)
(* The hash table keeps its elements, answers by them, lets a traversal    *)
(* see them all, and implements a multiset, for every size and every list  *)
(* of primes.                                                              *)
(***************************************************************************)
EXTENDS HashTable, FiniteSetTheorems, SequenceTheorems, TLAPS

(* INDUCTION *)
LEMMA Smallest ==
  ASSUME NEW T, T \subseteq Nat, T # {}
  PROVE  \E x \in T : \A y \in T : x <= y
<1> DEFINE R == OpToRel(<, Nat)
<1>1. IsWellFoundedOn(R, Nat) BY NatLessThanWellFounded
<1> HIDE DEF R
<1>2. PICK x \in T : \A y \in T : ~(<<y, x>> \in R) BY <1>1, WFMin
<1>3. ASSUME NEW y \in T PROVE x <= y
  <2>1. x \in Nat /\ y \in Nat OBVIOUS
  <2>2. y < x => <<y, x>> \in R BY <2>1 DEF R, OpToRel
  <2> QED BY <1>2, <2>1, <2>2
<1> QED BY <1>3

LEMMA Induction ==
  ASSUME NEW S, 0 \in S, \A n \in Nat : n \in S => n + 1 \in S
  PROVE  Nat \subseteq S
<1> SUFFICES ASSUME Nat \ S # {} PROVE FALSE OBVIOUS
<1>1. PICK x \in Nat \ S : \A y \in Nat \ S : x <= y BY Smallest
<1>2. x # 0 /\ x \in Nat OBVIOUS
<1>3. x - 1 \in Nat /\ ~(x <= x - 1) BY <1>2
<1>4. x - 1 \in S BY <1>1, <1>3
<1>5. (x - 1) + 1 \in S BY <1>3, <1>4
<1> QED BY <1>2, <1>5
-----------------------------------------------------------------------------
(* Sequences of sequences: f lists the elements of the first n of ss, each  *)
(* at a row and a column, in the order of the rows.                         *)
Enumerates(f, ss, n, row, col) ==
  /\ row \in [1..Len(f) -> 1..n] /\ col \in [1..Len(f) -> Nat]
  /\ \A x \in 1..Len(f) : col[x] \in 1..Len(ss[row[x]]) /\ f[x] = ss[row[x]][col[x]]
  /\ \A x, y \in 1..Len(f) :
       x < y => row[x] < row[y] \/ (row[x] = row[y] /\ col[x] < col[y])
  /\ \A i \in 1..n : \A j \in 1..Len(ss[i]) :
       \E x \in 1..Len(f) : row[x] = i /\ col[x] = j

FlattenStep(ss, g, i) == IF i = 1 THEN ss[i] ELSE g[i - 1] \o ss[i]

LEMMA FlattenExists ==
  ASSUME NEW ss, NEW n \in Nat
  PROVE  \E g : g = [i \in 1..n |-> FlattenStep(ss, g, i)]
<1> DEFINE S == {m \in Nat : \E g : g = [i \in 1..m |-> FlattenStep(ss, g, i)]}
<1>1. 0 \in S
  <2> DEFINE g == [i \in 1..0 |-> 0]
  <2>1. \A h : g = [i \in 1..0 |-> FlattenStep(ss, h, i)] OBVIOUS
  <2>2. g = [i \in 1..0 |-> FlattenStep(ss, g, i)] BY <2>1
  <2> HIDE DEF g
  <2> QED BY <2>2
<1>2. ASSUME NEW m \in Nat, m \in S PROVE m + 1 \in S
  <2>1. PICK g : g = [i \in 1..m |-> FlattenStep(ss, g, i)] BY <1>2
  <2> DEFINE h == [i \in 1..m + 1 |-> IF i = m + 1 THEN FlattenStep(ss, g, i) ELSE g[i]]
  <2>2. ASSUME NEW i \in 1..m + 1 PROVE h[i] = FlattenStep(ss, h, i)
    <3>1. i # 1 => i - 1 \in 1..m + 1 /\ i - 1 # m + 1 OBVIOUS
    <3>2. i # 1 => h[i - 1] = g[i - 1] BY <3>1
    <3>3. FlattenStep(ss, h, i) = FlattenStep(ss, g, i) BY <3>2 DEF FlattenStep
    <3>4. CASE i = m + 1 BY <3>3, <3>4
    <3>5. CASE i # m + 1
      <4>1. i \in 1..m BY <3>5
      <4>2. g[i] = FlattenStep(ss, g, i) BY <2>1, <4>1
      <4> QED BY <3>3, <3>5, <4>2
    <3> QED BY <3>4, <3>5
  <2>3. h = [i \in 1..m + 1 |-> h[i]] OBVIOUS
  <2>4. h = [i \in 1..m + 1 |-> FlattenStep(ss, h, i)]
    <3> HIDE DEF h
    <3> QED BY <2>2, <2>3
  <2> QED
    <3> HIDE DEF h
    <3> QED BY <2>4
<1>3. Nat \subseteq S
  <2> HIDE DEF S
  <2> QED BY <1>1, <1>2, Induction
<1> QED BY <1>3

LEMMA EnumeratesJoined ==
  ASSUME NEW T, NEW ss \in Seq(Seq(T)), NEW n \in Nat, n + 1 \in 1..Len(ss),
         NEW f \in Seq(T), NEW row, NEW col, Enumerates(f, ss, n, row, col)
  PROVE  /\ f \o ss[n + 1] \in Seq(T)
         /\ \E r, c : Enumerates(f \o ss[n + 1], ss, n + 1, r, c)
<1> DEFINE last == ss[n + 1]
           h == f \o last
           k == Len(f)
           l == Len(last)
           r == [x \in 1..k + l |-> IF x <= k THEN row[x] ELSE n + 1]
           c == [x \in 1..k + l |-> IF x <= k THEN col[x] ELSE x - k]
<1>1. last \in Seq(T) BY ElementOfSeq
<1>2. k \in Nat /\ l \in Nat
  <2> HIDE DEF last
  <2> QED BY <1>1, LenProperties
<1>3. /\ h \in Seq(T) /\ Len(h) = k + l
      /\ \A i \in 1..k + l : h[i] = IF i <= k THEN f[i] ELSE last[i - k]
  <2> HIDE DEF last
  <2> QED BY <1>1, ConcatProperties
<1> HIDE DEF h, l, k
<1>4. /\ row \in [1..k -> 1..n] /\ col \in [1..k -> Nat]
      /\ \A x \in 1..k : col[x] \in 1..Len(ss[row[x]]) /\ f[x] = ss[row[x]][col[x]]
      /\ \A x, y \in 1..k : x < y => row[x] < row[y] \/ (row[x] = row[y] /\ col[x] < col[y])
      /\ \A i \in 1..n : \A j \in 1..Len(ss[i]) : \E x \in 1..k : row[x] = i /\ col[x] = j
  BY DEF Enumerates, k
<1>5. ASSUME NEW x \in 1..k + l
      PROVE  /\ r[x] \in 1..n + 1 /\ c[x] \in Nat
             /\ c[x] \in 1..Len(ss[r[x]]) /\ h[x] = ss[r[x]][c[x]]
  <2>1. CASE x <= k
    <3>1. x \in 1..k /\ r[x] = row[x] /\ c[x] = col[x] BY <1>2, <2>1
    <3>2. h[x] = f[x] BY <1>3, <2>1
    <3>3. row[x] \in 1..n /\ col[x] \in Nat BY <1>4, <3>1
    <3> HIDE DEF r, c
    <3> QED BY <1>4, <3>1, <3>2, <3>3
  <2>2. CASE ~(x <= k)
    <3>1. r[x] = n + 1 /\ c[x] = x - k /\ x - k \in 1..l BY <1>2, <2>2
    <3>2. h[x] = last[x - k] BY <1>3, <2>2
    <3> QED BY <1>2, <3>1, <3>2 DEF l
  <2> QED BY <2>1, <2>2
<1>6. ASSUME NEW x \in 1..k + l, NEW y \in 1..k + l, x < y
      PROVE  r[x] < r[y] \/ (r[x] = r[y] /\ c[x] < c[y])
  <2>1. CASE y <= k
    <3>1. x \in 1..k /\ y \in 1..k /\ x <= k BY <1>2, <1>6, <2>1
    <3>2. r[x] = row[x] /\ c[x] = col[x] /\ r[y] = row[y] /\ c[y] = col[y] BY <2>1, <3>1
    <3> HIDE DEF r, c
    <3> QED BY <1>4, <1>6, <3>1, <3>2
  <2>2. CASE ~(y <= k) /\ x <= k
    <3>1. x \in 1..k /\ r[x] = row[x] /\ r[y] = n + 1 BY <1>2, <2>2
    <3>2. row[x] \in 1..n BY <1>4, <3>1
    <3> QED BY <3>1, <3>2
  <2>3. CASE ~(x <= k)
    <3>1. ~(y <= k) BY <1>2, <1>6, <2>3
    <3>2. r[x] = n + 1 /\ r[y] = n + 1 /\ c[x] = x - k /\ c[y] = y - k BY <2>3, <3>1
    <3>3. x - k < y - k BY <1>2, <1>6
    <3> QED BY <3>2, <3>3
  <2> QED BY <2>1, <2>2, <2>3
<1>7. ASSUME NEW i \in 1..n + 1, NEW j \in 1..Len(ss[i])
      PROVE  \E x \in 1..k + l : r[x] = i /\ c[x] = j
  <2>1. CASE i \in 1..n
    <3>1. PICK x \in 1..k : row[x] = i /\ col[x] = j BY <1>4, <2>1
    <3>2. x \in 1..k + l /\ x <= k BY <1>2
    <3>3. r[x] = i /\ c[x] = j BY <3>1, <3>2
    <3> QED BY <3>2, <3>3
  <2>2. CASE i = n + 1
    <3>1. j \in 1..l BY <2>2 DEF l
    <3> DEFINE x == k + j
    <3>2. x \in 1..k + l /\ ~(x <= k) /\ x - k = j BY <1>2, <3>1
    <3>3. r[x] = i /\ c[x] = j BY <2>2, <3>2
    <3> QED BY <3>2, <3>3
  <2>3. i \in 1..n \/ i = n + 1 OBVIOUS
  <2> QED BY <2>1, <2>2, <2>3
<1>8. r \in [1..k + l -> 1..n + 1] /\ c \in [1..k + l -> Nat]
  <2>1. \A x \in 1..k + l : r[x] \in 1..n + 1 /\ c[x] \in Nat BY <1>5
  <2>2. r = [x \in 1..k + l |-> r[x]] /\ c = [x \in 1..k + l |-> c[x]] OBVIOUS
  <2> HIDE DEF r, c
  <2> QED BY <2>1, <2>2
<1> HIDE DEF r, c
<1>9. Enumerates(h, ss, n + 1, r, c) BY <1>3, <1>5, <1>6, <1>7, <1>8 DEF Enumerates
<1> QED BY <1>3, <1>9 DEF h

LEMMA FlattenFact ==
  ASSUME NEW T, NEW ss \in Seq(Seq(T))
  PROVE  /\ FlattenSeq(ss) \in Seq(T)
         /\ \E row, col : Enumerates(FlattenSeq(ss), ss, Len(ss), row, col)
<1>0. Len(ss) \in Nat BY LenProperties
<1>1. CASE Len(ss) = 0
  <2>1. ss = <<>> BY <1>1, EmptySeq
  <2>2. FlattenSeq(ss) = <<>> BY <1>1, <2>1 DEF FlattenSeq
  <2> DEFINE e == <<>>
             r == [x \in 1..0 |-> 0]
  <2>3. e \in Seq(T) /\ Len(e) = 0 OBVIOUS
  <2> HIDE DEF e
  <2>4. r \in [1..0 -> 1..0] /\ r \in [1..0 -> Nat] OBVIOUS
  <2> HIDE DEF r
  <2>5. \A x \in 1..0 : FALSE OBVIOUS
  <2>6. Enumerates(e, ss, 0, r, r) BY <2>3, <2>4, <2>5 DEF Enumerates
  <2> QED BY <1>1, <2>2, <2>3, <2>6 DEF e
<1>2. CASE Len(ss) # 0
  <2> DEFINE n == Len(ss)
             g == CHOOSE h : h = [i \in 1..n |-> FlattenStep(ss, h, i)]
             S == {m \in Nat : m + 1 <= n =>
                     g[m + 1] \in Seq(T) /\ \E r, c : Enumerates(g[m + 1], ss, m + 1, r, c)}
  <2>1. n \in Nat /\ n # 0 BY <1>0, <1>2
  <2>2. FlattenSeq(ss) = g[n] BY <1>2 DEF FlattenSeq, FlattenStep
  <2> HIDE DEF n
  <2>3. g = [i \in 1..n |-> FlattenStep(ss, g, i)]
    <3>1. \E h : h = [i \in 1..n |-> FlattenStep(ss, h, i)] BY <2>1, FlattenExists
    <3> QED BY <3>1
  <2> HIDE DEF g
  <2>4. \A i \in 1..n : g[i] = FlattenStep(ss, g, i) BY <2>3
  <2>5. 0 \in S
    <3>1. g[1] = ss[1] /\ ss[1] \in Seq(T) BY <2>1, <2>4, ElementOfSeq DEF FlattenStep, n
    <3> DEFINE f == g[1]
               l == Len(f)
               r == [x \in 1..l |-> 1]
               c == [x \in 1..l |-> x]
    <3>2. l \in Nat BY <3>1, LenProperties
    <3>3. f = ss[1] BY <3>1
    <3> HIDE DEF f
    <3>4. /\ r \in [1..l -> 1..1] /\ c \in [1..l -> Nat]
          /\ \A x \in 1..l : r[x] = 1 /\ c[x] = x
      BY <3>2
    <3> HIDE DEF r, c
    <3>5. \A x \in 1..l : c[x] \in 1..Len(ss[r[x]]) /\ f[x] = ss[r[x]][c[x]] BY <3>3, <3>4
    <3>6. \A x, y \in 1..l : x < y => r[x] = r[y] /\ c[x] < c[y] BY <3>4
    <3>7. \A i \in 1..1 : \A j \in 1..Len(ss[i]) : \E x \in 1..l : r[x] = i /\ c[x] = j
      BY <3>3, <3>4
    <3>8. Enumerates(f, ss, 1, r, c) BY <3>4, <3>5, <3>6, <3>7 DEF Enumerates
    <3>9. 0 + 1 = 1 OBVIOUS
    <3> QED BY <3>1, <3>8, <3>9 DEF f
  <2>6. ASSUME NEW m \in Nat, m \in S PROVE m + 1 \in S
    <3>1. SUFFICES ASSUME (m + 1) + 1 <= n
                   PROVE  /\ g[(m + 1) + 1] \in Seq(T)
                          /\ \E r, c : Enumerates(g[(m + 1) + 1], ss, (m + 1) + 1, r, c)
      OBVIOUS
    <3>2. m + 1 <= n /\ (m + 1) + 1 \in 1..n /\ (m + 1) + 1 # 1 /\ ((m + 1) + 1) - 1 = m + 1
      BY <2>1, <3>1
    <3>3. PICK r, c : g[m + 1] \in Seq(T) /\ Enumerates(g[m + 1], ss, m + 1, r, c)
      BY <2>6, <3>2
    <3>4. g[(m + 1) + 1] = g[m + 1] \o ss[(m + 1) + 1]
      BY <2>4, <3>2 DEF FlattenStep
    <3> DEFINE k == m + 1
               f == g[k]
    <3>5. k \in Nat /\ k + 1 \in 1..Len(ss) /\ f \in Seq(T) /\ Enumerates(f, ss, k, r, c)
      BY <3>2, <3>3 DEF n
    <3> HIDE DEF k, f, S
    <3>6. f \o ss[k + 1] \in Seq(T) /\ \E q, p : Enumerates(f \o ss[k + 1], ss, k + 1, q, p)
      BY <3>5, EnumeratesJoined
    <3> QED BY <3>4, <3>6 DEF f, k
  <2>7. n - 1 \in S
    <3> HIDE DEF S
    <3> QED BY <2>1, <2>5, <2>6, Induction
  <2>8. n - 1 + 1 = n BY <2>1
  <2> QED BY <2>1, <2>2, <2>7, <2>8 DEF n
<1> QED BY <1>1, <1>2

-----------------------------------------------------------------------------
(* What is kept of a chain stands in its order.                             *)
Picks(kept, s, S, pos) ==
  /\ pos \in [1..Len(kept) -> 1..Len(s)]
  /\ \A x \in 1..Len(kept) : kept[x] = s[pos[x]] /\ kept[x] \in S
  /\ \A x, y \in 1..Len(kept) : x < y => pos[x] < pos[y]
  /\ \A i \in 1..Len(s) : s[i] \in S => \E x \in 1..Len(kept) : pos[x] = i

LEMMA KeptFact ==
  ASSUME NEW T, NEW s \in Seq(T), NEW S
  PROVE  Kept(s, S) \in Seq(T) /\ \E pos : Picks(Kept(s, S), s, S, pos)
<1> DEFINE n == Len(s)
           ss == [i \in 1..n |-> IF s[i] \in S THEN <<s[i]>> ELSE <<>>]
           f == Kept(s, S)
<1>1. n \in Nat BY LenProperties
<1>2. ASSUME NEW i \in 1..n PROVE s[i] \in T BY ElementOfSeq
<1> HIDE DEF n
<1>3. ASSUME NEW i \in 1..n
      PROVE  ss[i] \in Seq(T) /\ (s[i] \in S => Len(ss[i]) = 1 /\ ss[i][1] = s[i])
             /\ (s[i] \notin S => Len(ss[i]) = 0)
  <2>1. s[i] \in T BY <1>2
  <2> DEFINE a == s[i]
  <2> HIDE DEF a
  <2>2. a \in T => <<a>> \in Seq(T) /\ Len(<<a>>) = 1 /\ <<a>>[1] = a OBVIOUS
  <2>3. <<>> \in Seq(T) /\ Len(<<>>) = 0 BY EmptySeq
  <2> QED BY <2>1, <2>2, <2>3 DEF a
<1>4. ss \in Seq(Seq(T)) /\ Len(ss) = n
  <2>1. ss \in [1..n -> Seq(T)] BY <1>3
  <2> HIDE DEF ss
  <2> QED BY <1>1, <2>1
<1>5. f = FlattenSeq(ss) BY DEF Kept, n
<1> HIDE DEF ss, f
<1>6. f \in Seq(T) /\ \E row, col : Enumerates(f, ss, n, row, col) BY <1>4, <1>5, FlattenFact
<1>7. PICK row, col : Enumerates(f, ss, n, row, col) BY <1>6
<1>8. /\ row \in [1..Len(f) -> 1..n] /\ col \in [1..Len(f) -> Nat]
      /\ \A x \in 1..Len(f) : col[x] \in 1..Len(ss[row[x]]) /\ f[x] = ss[row[x]][col[x]]
      /\ \A x, y \in 1..Len(f) :
           x < y => row[x] < row[y] \/ (row[x] = row[y] /\ col[x] < col[y])
      /\ \A i \in 1..n : \A j \in 1..Len(ss[i]) :
           \E x \in 1..Len(f) : row[x] = i /\ col[x] = j
  BY <1>7 DEF Enumerates
<1>9. ASSUME NEW x \in 1..Len(f) PROVE f[x] = s[row[x]] /\ f[x] \in S /\ col[x] = 1
  <2>1. row[x] \in 1..n /\ col[x] \in 1..Len(ss[row[x]]) /\ f[x] = ss[row[x]][col[x]] BY <1>8
  <2>2. s[row[x]] \in S
    <3> SUFFICES ASSUME s[row[x]] \notin S PROVE FALSE OBVIOUS
    <3>1. Len(ss[row[x]]) = 0 BY <1>3, <2>1
    <3> QED BY <2>1, <3>1
  <2>3. Len(ss[row[x]]) = 1 /\ ss[row[x]][1] = s[row[x]] BY <1>3, <2>1, <2>2
  <2>4. col[x] = 1 BY <2>1, <2>3
  <2> QED BY <2>1, <2>2, <2>3, <2>4
<1>10. ASSUME NEW x \in 1..Len(f), NEW y \in 1..Len(f), x < y PROVE row[x] < row[y]
  <2>1. col[x] = 1 /\ col[y] = 1 BY <1>9
  <2>2. ~(col[x] < col[y]) BY <2>1
  <2> QED BY <1>8, <1>10, <2>2
<1>11. ASSUME NEW i \in 1..n, s[i] \in S PROVE \E x \in 1..Len(f) : row[x] = i
  <2>1. 1 \in 1..Len(ss[i]) BY <1>3, <1>11
  <2> QED BY <1>8, <2>1
<1>12. Picks(f, s, S, row) BY <1>8, <1>9, <1>10, <1>11 DEF Picks, n
<1> QED BY <1>6, <1>12 DEF f

(* A sequence without repetitions has as many elements as places.           *)
LEMMA LengthIsCardinality ==
  ASSUME NEW T, NEW s \in Seq(T), \A i, j \in 1..Len(s) : s[i] = s[j] => i = j
  PROVE  IsFiniteSet(Range(s)) /\ Cardinality(Range(s)) = Len(s)
<1>1. Len(s) \in Nat /\ Range(s) = {s[i] : i \in 1..Len(s)} BY LenProperties, RangeEquality
<1> DEFINE n == Len(s)
           f == [i \in 1..n |-> s[i]]
<1>2. n \in Nat BY <1>1
<1>3. IsFiniteSet(1..n) /\ Cardinality(1..n) = n
  <2> HIDE DEF n
  <2> QED BY <1>2, FS_Interval
<1>4. f \in Bijection(1..n, Range(s))
  <2>1. f \in [1..n -> Range(s)] BY <1>1
  <2>2. \A i, j \in 1..n : f[i] = f[j] => i = j OBVIOUS
  <2>3. \A t \in Range(s) : \E i \in 1..n : f[i] = t BY <1>1
  <2> HIDE DEF f
  <2> QED BY <2>1, <2>2, <2>3 DEF Bijection, Injection, Surjection, IsInjective
<1>5. ExistsBijection(1..n, Range(s)) BY <1>4 DEF ExistsBijection
<1> QED BY <1>3, <1>5, FS_Bijection

-----------------------------------------------------------------------------
(* THE CHAINS                                                               *)
(* Nodes are in the chain of their keys, none twice, those of a key next to *)
(* each other; and every node with a key is in a chain.                     *)
ChainsType(B, N) == N \in Nat \ {0} /\ B \in [0..N - 1 -> Seq(Node)]
InBucket(B, N, key) ==
  \A b \in 0..N - 1 : \A i \in 1..Len(B[b]) :
    key[B[b][i]] \in Key /\ BktNum(key[B[b][i]], N) = b
Once(B, N) ==
  \A b \in 0..N - 1 : \A i, j \in 1..Len(B[b]) : B[b][i] = B[b][j] => i = j
Together(B, N, key) ==
  \A b \in 0..N - 1 : \A i, m, j \in 1..Len(B[b]) :
    i < m /\ m < j /\ key[B[b][i]] = key[B[b][j]] => key[B[b][m]] = key[B[b][i]]
Present(B, N, key) ==
  \A n \in Node : key[n] \in Key =>
    LET b == BktNum(key[n], N) IN \E i \in 1..Len(B[b]) : B[b][i] = n
Chains(B, N, key) ==
  ChainsType(B, N) /\ InBucket(B, N, key) /\ Once(B, N) /\ Together(B, N, key)
  /\ Present(B, N, key)

Used(key) == {n \in Node : key[n] \in Key}

IsTable(t) == t = [buckets |-> t.buckets, num |-> t.num]

(* The order of a traversal: f lists the nodes at a bucket and an index.    *)
InOrder(f, B, N, bkt, idx) ==
  /\ bkt \in [1..Len(f) -> 0..N - 1] /\ idx \in [1..Len(f) -> Nat]
  /\ \A x \in 1..Len(f) : idx[x] \in 1..Len(B[bkt[x]]) /\ f[x] = B[bkt[x]][idx[x]]
  /\ \A x, y \in 1..Len(f) :
       x < y => bkt[x] < bkt[y] \/ (bkt[x] = bkt[y] /\ idx[x] < idx[y])
  /\ \A b \in 0..N - 1 : \A i \in 1..Len(B[b]) :
       \E x \in 1..Len(f) : bkt[x] = b /\ idx[x] = i

LEMMA ModRange ==
  ASSUME NEW k \in Nat, NEW n \in Nat \ {0}
  PROVE  BktNum(k, n) \in 0..n - 1
BY DEF BktNum

LEMMA NodeType == Node \subseteq Nat /\ IsFiniteSet(Node) /\ Cardinality(Node) = MaxSize
<1> DEFINE m == MaxSize
<1>0. 1 \in Int /\ m \in Nat BY HashTableAssumption
<1> HIDE DEF m
<1>1. IsFiniteSet(1..m) /\ Cardinality(1..m) = IF 1 > m THEN 0 ELSE m - 1 + 1
  BY <1>0, FS_Interval
<1> QED BY <1>0, <1>1 DEF Node, m

LEMMA SizeFact ==
  ASSUME NEW t, NEW N \in Nat, DOMAIN t.buckets = 0..N - 1
  PROVE  Size(t) = N
<1>1. 0 \in Int /\ N - 1 \in Int OBVIOUS
<1>2. Cardinality(0..N - 1) = IF 0 > N - 1 THEN 0 ELSE N - 1 - 0 + 1 BY <1>1, FS_Interval
<1> QED BY <1>2 DEF Size

LEMMA ListingFact ==
  ASSUME NEW T, NEW N \in Nat, NEW B \in [0..N - 1 -> Seq(T)]
  PROVE  LET f == FlattenSeq([i \in 1..N |-> B[i - 1]])
         IN  f \in Seq(T) /\ \E bkt, idx : InOrder(f, B, N, bkt, idx)
<1> DEFINE ss == [i \in 1..N |-> B[i - 1]]
           f == FlattenSeq(ss)
<1>1. \A i \in 1..N : ss[i] = B[i - 1] /\ i - 1 \in 0..N - 1 OBVIOUS
<1>2. ss \in Seq(Seq(T)) /\ Len(ss) = N
  <2>1. \A i \in 1..N : ss[i] \in Seq(T) BY <1>1
  <2>2. ss \in [1..N -> Seq(T)] BY <2>1
  <2> HIDE DEF ss
  <2> QED BY <2>2
<1> HIDE DEF ss, f
<1>3. f \in Seq(T) /\ \E row, col : Enumerates(f, ss, N, row, col) BY <1>2, FlattenFact DEF f
<1>4. PICK row, col : Enumerates(f, ss, N, row, col) BY <1>3
<1>5. /\ row \in [1..Len(f) -> 1..N] /\ col \in [1..Len(f) -> Nat]
      /\ \A x \in 1..Len(f) : col[x] \in 1..Len(ss[row[x]]) /\ f[x] = ss[row[x]][col[x]]
      /\ \A x, y \in 1..Len(f) :
           x < y => row[x] < row[y] \/ (row[x] = row[y] /\ col[x] < col[y])
      /\ \A i \in 1..N : \A j \in 1..Len(ss[i]) :
           \E x \in 1..Len(f) : row[x] = i /\ col[x] = j
  BY <1>4 DEF Enumerates
<1> DEFINE bkt == [x \in 1..Len(f) |-> row[x] - 1]
<1>6. \A x \in 1..Len(f) : bkt[x] = row[x] - 1 /\ row[x] \in 1..N /\ bkt[x] \in 0..N - 1
                           /\ ss[row[x]] = B[bkt[x]]
  <2>1. ASSUME NEW x \in 1..Len(f)
        PROVE  bkt[x] = row[x] - 1 /\ row[x] \in 1..N /\ bkt[x] \in 0..N - 1
               /\ ss[row[x]] = B[bkt[x]]
    <3>1. row[x] \in 1..N BY <1>5
    <3> QED BY <1>1, <3>1
  <2> QED BY <2>1
<1>7. bkt \in [1..Len(f) -> 0..N - 1] BY <1>6
<1> HIDE DEF bkt
<1>8. \A x \in 1..Len(f) : col[x] \in 1..Len(B[bkt[x]]) /\ f[x] = B[bkt[x]][col[x]]
  BY <1>5, <1>6
<1>9. \A x, y \in 1..Len(f) :
         x < y => bkt[x] < bkt[y] \/ (bkt[x] = bkt[y] /\ col[x] < col[y])
  <2>1. ASSUME NEW x \in 1..Len(f), NEW y \in 1..Len(f), x < y
        PROVE  bkt[x] < bkt[y] \/ (bkt[x] = bkt[y] /\ col[x] < col[y])
    <3>1. row[x] < row[y] \/ (row[x] = row[y] /\ col[x] < col[y]) BY <1>5, <2>1
    <3>2. bkt[x] = row[x] - 1 /\ row[x] \in 1..N /\ bkt[y] = row[y] - 1 /\ row[y] \in 1..N
      BY <1>6
    <3> QED BY <3>1, <3>2
  <2> QED BY <2>1
<1>10. ASSUME NEW b \in 0..N - 1, NEW i \in 1..Len(B[b])
       PROVE  \E x \in 1..Len(f) : bkt[x] = b /\ col[x] = i
  <2>1. b + 1 \in 1..N /\ ss[b + 1] = B[b]
    <3>1. b + 1 \in 1..N /\ (b + 1) - 1 = b OBVIOUS
    <3> QED BY <1>1, <3>1
  <2>2. PICK x \in 1..Len(f) : row[x] = b + 1 /\ col[x] = i BY <1>5, <2>1
  <2>3. bkt[x] = b BY <1>6, <2>2
  <2> QED BY <2>2, <2>3
<1>11. InOrder(f, B, N, bkt, col) BY <1>5, <1>7, <1>8, <1>9, <1>10 DEF InOrder
<1> QED BY <1>3, <1>11 DEF f, ss

LEMMA OrderFact ==
  ASSUME NEW t, NEW N, NEW key, Chains(t.buckets, N, key)
  PROVE  /\ Size(t) = N /\ Order(t) \in Seq(Node)
         /\ \E bkt, idx : InOrder(Order(t), t.buckets, N, bkt, idx)
<1>1. N \in Nat \ {0} /\ t.buckets \in [0..N - 1 -> Seq(Node)] BY DEF Chains, ChainsType
<1>2. Size(t) = N BY <1>1, SizeFact
<1> DEFINE B == t.buckets
<1>3. Order(t) = FlattenSeq([i \in 1..N |-> B[i - 1]]) BY <1>2 DEF Order
<1> HIDE DEF B
<1>4. N \in Nat /\ B \in [0..N - 1 -> Seq(Node)] BY <1>1 DEF B
<1>5. LET f == FlattenSeq([i \in 1..N |-> B[i - 1]])
      IN  f \in Seq(Node) /\ \E bkt, idx : InOrder(f, B, N, bkt, idx)
  BY <1>4, ListingFact
<1> QED BY <1>2, <1>3, <1>5 DEF B

(* No node is met twice, and all that have a key are met.                   *)
LEMMA OrderIsOnce ==
  ASSUME NEW B, NEW N, NEW key, Chains(B, N, key), NEW f \in Seq(Node), NEW bkt, NEW idx,
         InOrder(f, B, N, bkt, idx)
  PROVE  \A x, y \in 1..Len(f) : f[x] = f[y] => x = y
<1> SUFFICES ASSUME NEW x \in 1..Len(f), NEW y \in 1..Len(f), f[x] = f[y] PROVE x = y
  OBVIOUS
<1>1. /\ bkt[x] \in 0..N - 1 /\ idx[x] \in 1..Len(B[bkt[x]]) /\ f[x] = B[bkt[x]][idx[x]]
      /\ bkt[y] \in 0..N - 1 /\ idx[y] \in 1..Len(B[bkt[y]]) /\ f[y] = B[bkt[y]][idx[y]]
  BY DEF InOrder
<1>2. bkt[x] = BktNum(key[f[x]], N) /\ bkt[y] = BktNum(key[f[y]], N)
  BY <1>1 DEF Chains, InBucket
<1>3. bkt[x] = bkt[y] BY <1>2
<1>4. idx[x] = idx[y]
  <2> DEFINE b == bkt[x]
  <2>1. b \in 0..N - 1 /\ idx[x] \in 1..Len(B[b]) /\ idx[y] \in 1..Len(B[b])
        /\ B[b][idx[x]] = B[b][idx[y]]
    BY <1>1, <1>3
  <2> HIDE DEF b
  <2> QED BY <2>1 DEF Chains, Once
<1>5. idx[x] \in Nat /\ bkt[x] \in Nat BY <1>1
<1>6. ~(bkt[x] < bkt[y]) /\ ~(idx[x] < idx[y]) /\ ~(bkt[y] < bkt[x]) /\ ~(idx[y] < idx[x])
  BY <1>3, <1>4, <1>5
<1>7. ~(x < y) /\ ~(y < x) BY <1>6 DEF InOrder
<1> QED BY <1>7, LenProperties

LEMMA OrderIsAll ==
  ASSUME NEW B, NEW N, NEW key, Chains(B, N, key), NEW f \in Seq(Node), NEW bkt, NEW idx,
         InOrder(f, B, N, bkt, idx)
  PROVE  Range(f) = Used(key)
<1>1. Range(f) = {f[x] : x \in 1..Len(f)} BY RangeEquality
<1>2. ASSUME NEW x \in 1..Len(f) PROVE f[x] \in Used(key)
  <2>1. f[x] \in Node BY ElementOfSeq
  <2>2. bkt[x] \in 0..N - 1 /\ idx[x] \in 1..Len(B[bkt[x]]) /\ f[x] = B[bkt[x]][idx[x]]
    BY DEF InOrder
  <2>3. key[f[x]] \in Key BY <2>2 DEF Chains, InBucket
  <2> QED BY <2>1, <2>3 DEF Used
<1>3. ASSUME NEW n \in Used(key) PROVE \E x \in 1..Len(f) : f[x] = n
  <2> DEFINE b == BktNum(key[n], N)
  <2>1. n \in Node /\ key[n] \in Key /\ key[n] \in Nat /\ N \in Nat \ {0}
    BY HashTableAssumption DEF Used, Chains, ChainsType
  <2>2. b \in 0..N - 1 BY <2>1, ModRange
  <2>3. PICK i \in 1..Len(B[b]) : B[b][i] = n BY <2>1 DEF Chains, Present
  <2> HIDE DEF b
  <2>4. PICK x \in 1..Len(f) : bkt[x] = b /\ idx[x] = i BY <2>2 DEF InOrder
  <2>5. f[x] = B[b][i] BY <2>4 DEF InOrder
  <2> QED BY <2>3, <2>5
<1> QED BY <1>1, <1>2, <1>3

LEMMA OrderCounts ==
  ASSUME NEW t, NEW N, NEW key, Chains(t.buckets, N, key)
  PROVE  /\ Nodes(t) = Used(key) /\ Len(Order(t)) = Cardinality(Used(key))
         /\ IsFiniteSet(Used(key)) /\ Cardinality(Used(key)) \in Nat
<1>1. Order(t) \in Seq(Node) /\ \E bkt, idx : InOrder(Order(t), t.buckets, N, bkt, idx)
  BY OrderFact
<1> DEFINE f == Order(t)
           B == t.buckets
<1>2. f \in Seq(Node) /\ Chains(B, N, key) BY <1>1
<1>3. PICK bkt, idx : InOrder(f, B, N, bkt, idx) BY <1>1
<1>4. Nodes(t) = Range(f) BY DEF Nodes
<1> HIDE DEF f, B
<1>5. Range(f) = Used(key) BY <1>2, <1>3, OrderIsAll
<1>6. \A x, y \in 1..Len(f) : f[x] = f[y] => x = y BY <1>2, <1>3, OrderIsOnce
<1>7. IsFiniteSet(Range(f)) /\ Cardinality(Range(f)) = Len(f) BY <1>2, <1>6, LengthIsCardinality
<1>8. Len(f) \in Nat BY <1>2, LenProperties
<1> QED BY <1>4, <1>5, <1>7, <1>8 DEF f

-----------------------------------------------------------------------------
(* THE QUERIES                                                              *)
LEMMA MinFact ==
  ASSUME NEW T, T \subseteq Nat, T # {}
  PROVE  Min(T) \in T /\ \A y \in T : Min(T) <= y
BY Smallest DEF Min

(* The first match of a chain, or 0.                                        *)
LEMMA MatchesFact ==
  ASSUME NEW chain \in Seq(Node), NEW k
  PROVE  LET i == Matches(chain, k)
         IN \/ i = 0 /\ \A j \in 1..Len(chain) : keyOf[chain[j]] # k
            \/ /\ i \in 1..Len(chain) /\ keyOf[chain[i]] = k
               /\ \A j \in 1..Len(chain) : j < i => keyOf[chain[j]] # k
<1> DEFINE I == {j \in 1..Len(chain) : keyOf[chain[j]] = k}
<1>1. Len(chain) \in Nat BY LenProperties
<1>2. Matches(chain, k) = IF I # {} THEN Min(I) ELSE 0 BY DEF Matches, SelectInSeq
<1>3. CASE I = {} BY <1>2, <1>3
<1>4. CASE I # {}
  <2>1. I \subseteq Nat BY <1>1
  <2>2. \A j \in I : j \in 1..Len(chain) /\ keyOf[chain[j]] = k OBVIOUS
  <2>3. \A j \in 1..Len(chain) : keyOf[chain[j]] = k => j \in I OBVIOUS
  <2> HIDE DEF I
  <2>4. Min(I) \in I /\ \A y \in I : Min(I) <= y BY <1>4, <2>1, MinFact
  <2>5. Min(I) \in 1..Len(chain) /\ keyOf[chain[Min(I)]] = k BY <2>2, <2>4
  <2>6. \A j \in 1..Len(chain) : j < Min(I) => keyOf[chain[j]] # k
    <3> SUFFICES ASSUME NEW j \in 1..Len(chain), j < Min(I), keyOf[chain[j]] = k PROVE FALSE
      OBVIOUS
    <3>1. Min(I) <= j BY <2>3, <2>4
    <3> QED BY <2>5, <3>1
  <2> QED BY <1>2, <1>4, <2>5, <2>6
<1> QED BY <1>3, <1>4

LEMMA IndexFact ==
  ASSUME NEW T, NEW chain \in Seq(T), NEW n, NEW i \in 1..Len(chain), chain[i] = n,
         \A a, b \in 1..Len(chain) : chain[a] = chain[b] => a = b
  PROVE  IndexOf(chain, n) = i
<1> DEFINE I == {j \in 1..Len(chain) : chain[j] = n}
<1>1. Len(chain) \in Nat BY LenProperties
<1>2. IndexOf(chain, n) = IF I # {} THEN Min(I) ELSE 0 BY DEF IndexOf, SelectInSeq
<1>3. I = {i} OBVIOUS
<1>4. I \subseteq Nat /\ I # {} BY <1>1, <1>3
<1> HIDE DEF I
<1>5. Min(I) \in I BY <1>4, MinFact
<1> QED BY <1>2, <1>3, <1>4, <1>5

(* Where the elements of a key are.                                         *)
IsChainOf(chain, t, N, key, k) ==
  /\ chain \in Seq(Node)
  /\ \A n \in Node : key[n] = k => \E j \in 1..Len(chain) : chain[j] = n
  /\ BktNum(k, N) \in 0..N - 1 /\ chain = t.buckets[BktNum(k, N)]

LEMMA ChainFact ==
  ASSUME NEW t, NEW N, NEW key, Chains(t.buckets, N, key), NEW k \in Key
  PROVE  IsChainOf(Chain(t, k), t, N, key, k)
<1>1. k \in Nat /\ N \in Nat \ {0} BY HashTableAssumption DEF Chains, ChainsType
<1>2. BktNum(k, N) \in 0..N - 1 BY <1>1, ModRange
<1>3. Size(t) = N BY OrderFact
<1>4. Chain(t, k) = t.buckets[BktNum(k, N)] BY <1>3 DEF Chain
<1>5. Chain(t, k) \in Seq(Node) BY <1>2, <1>4 DEF Chains, ChainsType
<1>6. ASSUME NEW n \in Node, key[n] = k
      PROVE  \E i \in 1..Len(Chain(t, k)) : Chain(t, k)[i] = n
  <2>1. key[n] \in Key BY <1>6
  <2> QED BY <1>4, <1>6, <2>1 DEF Chains, Present
<1> QED BY <1>2, <1>4, <1>5, <1>6 DEF IsChainOf

LEMMA FindFact ==
  ASSUME NEW t, NEW N, Chains(t.buckets, N, keyOf), NEW k \in Key
  PROVE  LET all == {n \in Node : keyOf[n] = k}
         IN Find(t, k) \in IF all = {} THEN {End} ELSE all
<1> DEFINE chain == Chain(t, k)
           i == Matches(chain, k)
           all == {n \in Node : keyOf[n] = k}
<1>0. IsChainOf(chain, t, N, keyOf, k) BY ChainFact
<1>1. /\ chain \in Seq(Node)
      /\ \A n \in Node : keyOf[n] = k => \E j \in 1..Len(chain) : chain[j] = n
      /\ BktNum(k, N) \in 0..N - 1 /\ chain = t.buckets[BktNum(k, N)]
  BY <1>0 DEF IsChainOf
<1> HIDE DEF chain
<1>2. \/ i = 0 /\ \A j \in 1..Len(chain) : keyOf[chain[j]] # k
      \/ i \in 1..Len(chain) /\ keyOf[chain[i]] = k
  BY <1>1, MatchesFact
<1>3. Find(t, k) = IF i = 0 THEN End ELSE chain[i] BY DEF Find, chain
<1> HIDE DEF i
<1>4. CASE i = 0 /\ \A j \in 1..Len(chain) : keyOf[chain[j]] # k
  <2>1. all = {} BY <1>1, <1>4
  <2> QED BY <1>3, <1>4, <2>1
<1>5. CASE i \in 1..Len(chain) /\ keyOf[chain[i]] = k
  <2>1. chain[i] \in Node /\ chain[i] \in all BY <1>1, <1>5, ElementOfSeq
  <2>2. i # 0 BY <1>5
  <2> QED BY <1>3, <2>1, <2>2
<1> QED BY <1>2, <1>4, <1>5

(* What is kept of a chain without repetitions: its elements of S.          *)
LEMMA KeptIsOnce ==
  ASSUME NEW T, NEW s \in Seq(T), \A i, j \in 1..Len(s) : s[i] = s[j] => i = j, NEW S
  PROVE  /\ Kept(s, S) \in Seq(T)
         /\ \A x, y \in 1..Len(Kept(s, S)) : Kept(s, S)[x] = Kept(s, S)[y] => x = y
         /\ Range(Kept(s, S)) = Range(s) \cap S
<1> DEFINE f == Kept(s, S)
<1>1. f \in Seq(T) /\ \E pos : Picks(f, s, S, pos) BY KeptFact
<1>2. PICK pos : Picks(f, s, S, pos) BY <1>1
<1> HIDE DEF f
<1>3. Len(f) \in Nat /\ Len(s) \in Nat BY <1>1, LenProperties
<1>4. \A x \in 1..Len(f) : pos[x] \in 1..Len(s) /\ f[x] = s[pos[x]] /\ f[x] \in S
  BY <1>2 DEF Picks
<1>5. ASSUME NEW x \in 1..Len(f), NEW y \in 1..Len(f), f[x] = f[y] PROVE x = y
  <2>1. pos[x] = pos[y] /\ pos[x] \in Nat BY <1>4, <1>5
  <2>2. ~(pos[x] < pos[y]) /\ ~(pos[y] < pos[x]) BY <2>1
  <2>3. ~(x < y) /\ ~(y < x) BY <1>2, <2>2 DEF Picks
  <2> QED BY <1>3, <2>3
<1>6. Range(f) = {f[x] : x \in 1..Len(f)} /\ Range(s) = {s[x] : x \in 1..Len(s)}
  BY <1>1, RangeEquality
<1>7. ASSUME NEW i \in 1..Len(s), s[i] \in S PROVE s[i] \in Range(f)
  <2>1. PICK x \in 1..Len(f) : pos[x] = i BY <1>2, <1>7 DEF Picks
  <2>2. f[x] = s[i] BY <1>4, <2>1
  <2> QED BY <1>6, <2>2
<1>8. ASSUME NEW x \in 1..Len(f) PROVE f[x] \in Range(s) \cap S BY <1>4, <1>6
<1>9. Range(f) = Range(s) \cap S BY <1>6, <1>7, <1>8
<1> QED BY <1>1, <1>5, <1>9 DEF f

LEMMA CountFact ==
  ASSUME NEW t, NEW N, Chains(t.buckets, N, keyOf), NEW k \in Key
  PROVE  Count(t, k) = Cardinality({n \in Node : keyOf[n] = k})
<1> DEFINE chain == Chain(t, k)
           all == {n \in Node : keyOf[n] = k}
           f == Kept(chain, all)
<1>0. IsChainOf(chain, t, N, keyOf, k) BY ChainFact
<1>1. /\ chain \in Seq(Node)
      /\ \A n \in Node : keyOf[n] = k => \E j \in 1..Len(chain) : chain[j] = n
      /\ BktNum(k, N) \in 0..N - 1 /\ chain = t.buckets[BktNum(k, N)]
  BY <1>0 DEF IsChainOf
<1>2. \A i, j \in 1..Len(chain) : chain[i] = chain[j] => i = j BY <1>1 DEF Chains, Once
<1>3. Count(t, k) = Len(f) BY DEF Count
<1> HIDE DEF chain
<1>4. Range(chain) = {chain[i] : i \in 1..Len(chain)} BY <1>1, RangeEquality
<1>5. all \subseteq Range(chain) BY <1>1, <1>4
<1> HIDE DEF all
<1>6. /\ f \in Seq(Node) /\ Range(f) = Range(chain) \cap all
      /\ \A x, y \in 1..Len(f) : f[x] = f[y] => x = y
  BY <1>1, <1>2, KeptIsOnce
<1> HIDE DEF f
<1>7. Cardinality(Range(f)) = Len(f) BY <1>6, LengthIsCardinality
<1>8. Range(f) = all BY <1>5, <1>6
<1> QED BY <1>3, <1>7, <1>8 DEF all

LEMMA EqualRangeFact ==
  ASSUME NEW t, NEW N, Chains(t.buckets, N, keyOf), NEW k \in Key
  PROVE  EqualRange(t, k) = {n \in Node : keyOf[n] = k}
<1> DEFINE chain == Chain(t, k)
           all == {n \in Node : keyOf[n] = k}
           i == Matches(chain, k)
           b == BktNum(k, N)
           rest == {j \in i..Len(chain) : keyOf[chain[j]] # k}
           to == IF rest = {} THEN Len(chain) ELSE Min(rest) - 1
<1>0. IsChainOf(chain, t, N, keyOf, k) BY ChainFact
<1>1. /\ chain \in Seq(Node)
      /\ \A n \in Node : keyOf[n] = k => \E j \in 1..Len(chain) : chain[j] = n
      /\ b \in 0..N - 1 /\ chain = t.buckets[b]
  BY <1>0 DEF IsChainOf
<1>2. EqualRange(t, k) = IF i = 0 THEN {} ELSE {chain[j] : j \in i..to}
  BY DEF EqualRange
<1> HIDE DEF b
<1>3. \A p, m, q \in 1..Len(chain) :
        p < m /\ m < q /\ keyOf[chain[p]] = keyOf[chain[q]] => keyOf[chain[m]] = keyOf[chain[p]]
  BY <1>1 DEF Chains, Together
<1> HIDE DEF chain
<1>4. \/ i = 0 /\ \A j \in 1..Len(chain) : keyOf[chain[j]] # k
      \/ /\ i \in 1..Len(chain) /\ keyOf[chain[i]] = k
         /\ \A j \in 1..Len(chain) : j < i => keyOf[chain[j]] # k
  BY <1>1, MatchesFact
<1>5. Len(chain) \in Nat BY <1>1, LenProperties
<1> HIDE DEF i
<1>6. CASE i = 0 /\ \A j \in 1..Len(chain) : keyOf[chain[j]] # k
  <2>1. all = {} BY <1>1, <1>6
  <2> QED BY <1>2, <1>6, <2>1
<1>7. CASE /\ i \in 1..Len(chain) /\ keyOf[chain[i]] = k
           /\ \A j \in 1..Len(chain) : j < i => keyOf[chain[j]] # k
  <2>1. rest # {} => Min(rest) \in rest /\ \A y \in rest : Min(rest) <= y
    <3>1. rest \subseteq Nat BY <1>5, <1>7
    <3> HIDE DEF rest
    <3> QED BY <3>1, MinFact
  <2>2. \A j \in rest : j \in i..Len(chain) /\ keyOf[chain[j]] # k OBVIOUS
  <2>3. \A j \in i..Len(chain) : keyOf[chain[j]] # k => j \in rest OBVIOUS
  <2> HIDE DEF rest
  <2>4. to \in i - 1..Len(chain) /\ (rest # {} => to < Min(rest))
    <3>1. CASE rest = {} BY <1>5, <1>7, <3>1
    <3>2. CASE rest # {}
      <4>1. Min(rest) \in i..Len(chain) BY <2>1, <2>2, <3>2
      <4>2. to = Min(rest) - 1 BY <3>2
      <4> QED BY <1>5, <1>7, <4>1, <4>2
    <3> QED BY <3>1, <3>2
  <2>5. ASSUME NEW j \in i..to PROVE chain[j] \in all
    <3>1. j \in i..Len(chain) /\ j \in 1..Len(chain) BY <1>5, <1>7, <2>4
    <3>2. j \notin rest
      <4> SUFFICES ASSUME j \in rest PROVE FALSE OBVIOUS
      <4>1. Min(rest) <= j /\ Min(rest) \in i..Len(chain) /\ to < Min(rest) BY <2>1, <2>2, <2>4
      <4> QED BY <1>5, <1>7, <2>4, <4>1
    <3>3. keyOf[chain[j]] = k BY <2>3, <3>1, <3>2
    <3>4. chain[j] \in Node BY <1>1, <3>1, ElementOfSeq
    <3> QED BY <3>3, <3>4
  <2>6. ASSUME NEW n \in all PROVE \E j \in i..to : chain[j] = n
    <3>1. PICK m \in 1..Len(chain) : chain[m] = n /\ keyOf[n] = k BY <1>1
    <3>2. ~(m < i) BY <1>7, <3>1
    <3>3. CASE rest = {}
      <4>1. to = Len(chain) BY <3>3
      <4>2. m \in i..to BY <1>5, <1>7, <3>2, <4>1
      <4> QED BY <3>1, <4>2
    <3>4. CASE rest # {}
      <4> DEFINE r == Min(rest)
      <4>1. r \in i..Len(chain) /\ keyOf[chain[r]] # k /\ to = r - 1 BY <2>1, <2>2, <3>4
      <4> HIDE DEF r
      <4>2. r \in 1..Len(chain) /\ r # i /\ r # m BY <1>5, <1>7, <3>1, <4>1
      <4>3. ~(i < r /\ r < m)
        <5>1. keyOf[chain[i]] = keyOf[chain[m]] BY <1>7, <3>1
        <5> QED BY <1>3, <1>7, <4>1, <4>2, <5>1
      <4>4. m \in i..to BY <1>5, <1>7, <3>2, <4>1, <4>2, <4>3
      <4> QED BY <3>1, <4>4
    <3> QED BY <3>3, <3>4
  <2>7. i # 0 BY <1>7
  <2> HIDE DEF all, to
  <2> QED BY <1>2, <2>5, <2>6, <2>7 DEF all
<1> QED BY <1>4, <1>6, <1>7 DEF all

TableInv ==
  /\ IsTable(table) /\ Chains(table.buckets, Size(table), keyOf)
  /\ table.num = Cardinality(Used(keyOf))
  /\ keyOf \in [Node -> Key \cup {NoKey}]

LEMMA TableAgrees == TableInv => QueriesAgree
<1> SUFFICES ASSUME TableInv PROVE QueriesAgree OBVIOUS
<1> DEFINE N == Size(table)
           t == table
<1>1. Chains(t.buckets, N, keyOf) /\ t.num = Cardinality(Used(keyOf)) BY DEF TableInv
<1> HIDE DEF N
<1>2. Used(keyOf) = {n \in Node : keyOf[n] # NoKey}
  BY HashTableAssumption DEF Used, TableInv
<1>3. Nodes(t) = Used(keyOf) /\ Len(Order(t)) = Cardinality(Used(keyOf)) BY <1>1, OrderCounts
<1>4. ASSUME NEW k \in Key
      PROVE  LET all == {n \in Node : keyOf[n] = k}
             IN  /\ Find(t, k) \in (IF all = {} THEN {End} ELSE all)
                 /\ Count(t, k) = Cardinality(all) /\ EqualRange(t, k) = all
  BY <1>1, FindFact, CountFact, EqualRangeFact
<1> QED BY <1>1, <1>2, <1>3, <1>4 DEF QueriesAgree

-----------------------------------------------------------------------------
(* ERASING                                                                  *)
(* Each chain keeps its nodes of S, and the others lose their keys.         *)
Thinned(C, B, N, S) ==
  /\ C \in [0..N - 1 -> Seq(Node)]
  /\ \A b \in 0..N - 1 : \E pos : Picks(C[b], B[b], S, pos)
KeysIn(key, S) == [n \in Node |-> IF n \in S THEN key[n] ELSE NoKey]

ThinnedAt(pos, c, s, S) ==
  /\ \A x \in 1..Len(c) : /\ pos[x] \in 1..Len(s) /\ c[x] = s[pos[x]]
                          /\ c[x] \in S /\ c[x] \in Node
  /\ \A x, y \in 1..Len(c) : x < y => pos[x] < pos[y]
  /\ \A i \in 1..Len(s) : s[i] \in S => \E x \in 1..Len(c) : pos[x] = i

LEMMA ThinnedFact ==
  ASSUME NEW C, NEW B, NEW N, NEW S, Thinned(C, B, N, S), NEW b \in 0..N - 1
  PROVE  \E pos : ThinnedAt(pos, C[b], B[b], S)
<1>1. PICK pos : Picks(C[b], B[b], S, pos) BY DEF Thinned
<1>2. C[b] \in Seq(Node) BY DEF Thinned
<1> DEFINE c == C[b]
<1>3. \A x \in 1..Len(c) : c[x] \in Node
  <2> HIDE DEF c
  <2>1. c \in Seq(Node) BY <1>2 DEF c
  <2> QED BY <2>1, ElementOfSeq
<1>4. ThinnedAt(pos, C[b], B[b], S) BY <1>1, <1>3 DEF Picks, ThinnedAt
<1> QED BY <1>4

LEMMA ThinnedKeeps ==
  ASSUME NEW C, NEW B, NEW N, NEW S, NEW key, Chains(B, N, key), Thinned(C, B, N, S)
  PROVE  Chains(C, N, KeysIn(key, S))
<1> DEFINE new == KeysIn(key, S)
<1>1. \A n \in Node : (n \in S => new[n] = key[n]) /\ (n \notin S => new[n] = NoKey)
  BY DEF KeysIn
<1> HIDE DEF new
<1>2. ChainsType(C, N) BY DEF Chains, ChainsType, Thinned
<1>3. InBucket(C, N, new)
  <2> SUFFICES ASSUME NEW b \in 0..N - 1, NEW x \in 1..Len(C[b])
               PROVE  new[C[b][x]] \in Key /\ BktNum(new[C[b][x]], N) = b
    BY DEF InBucket
  <2>0. PICK pos : ThinnedAt(pos, C[b], B[b], S) BY ThinnedFact
  <2>1. PICK i \in 1..Len(B[b]) : C[b][x] = B[b][i] /\ C[b][x] \in S /\ C[b][x] \in Node
    BY <2>0 DEF ThinnedAt
  <2>2. new[C[b][x]] = key[B[b][i]] BY <1>1, <2>1
  <2>3. key[B[b][i]] \in Key /\ BktNum(key[B[b][i]], N) = b BY DEF Chains, InBucket
  <2> QED BY <2>2, <2>3
<1>4. Once(C, N)
  <2> SUFFICES ASSUME NEW b \in 0..N - 1, NEW x \in 1..Len(C[b]), NEW y \in 1..Len(C[b]),
                      C[b][x] = C[b][y]
               PROVE  x = y
    BY DEF Once
  <2>1. PICK pos : ThinnedAt(pos, C[b], B[b], S) BY ThinnedFact
  <2> USE DEF ThinnedAt
  <2>2. pos[x] = pos[y]
    <3>1. pos[x] \in 1..Len(B[b]) /\ pos[y] \in 1..Len(B[b]) /\ B[b][pos[x]] = B[b][pos[y]]
      BY <2>1
    <3> QED BY <3>1 DEF Chains, Once
  <2>3. pos[x] \in Nat BY <2>1
  <2>4. ~(pos[x] < pos[y]) /\ ~(pos[y] < pos[x]) BY <2>2, <2>3
  <2>5. ~(x < y) /\ ~(y < x) BY <2>1, <2>4
  <2> QED BY <2>5
<1>5. Together(C, N, new)
  <2> SUFFICES ASSUME NEW b \in 0..N - 1, NEW x \in 1..Len(C[b]), NEW m \in 1..Len(C[b]),
                      NEW y \in 1..Len(C[b]), x < m, m < y, new[C[b][x]] = new[C[b][y]]
               PROVE  new[C[b][m]] = new[C[b][x]]
    BY DEF Together
  <2>1. PICK pos : ThinnedAt(pos, C[b], B[b], S) BY ThinnedFact
  <2> USE DEF ThinnedAt
  <2>2. \A z \in 1..Len(C[b]) : new[C[b][z]] = key[B[b][pos[z]]] BY <1>1, <2>1
  <2>3. pos[x] < pos[m] /\ pos[m] < pos[y] /\ key[B[b][pos[x]]] = key[B[b][pos[y]]]
    BY <2>1, <2>2
  <2>4. pos[x] \in 1..Len(B[b]) /\ pos[m] \in 1..Len(B[b]) /\ pos[y] \in 1..Len(B[b])
    BY <2>1
  <2>5. key[B[b][pos[m]]] = key[B[b][pos[x]]] BY <2>3, <2>4 DEF Chains, Together
  <2> QED BY <2>2, <2>5
<1>6. Present(C, N, new)
  <2> SUFFICES ASSUME NEW n \in Node, new[n] \in Key
               PROVE  \E x \in 1..Len(C[BktNum(new[n], N)]) : C[BktNum(new[n], N)][x] = n
    BY DEF Present
  <2>1. n \in S /\ new[n] = key[n] BY <1>1, HashTableAssumption
  <2> DEFINE b == BktNum(new[n], N)
  <2>2. PICK i \in 1..Len(B[b]) : B[b][i] = n BY <2>1 DEF Chains, Present
  <2>3. b \in 0..N - 1
    <3>1. new[n] \in Nat /\ N \in Nat \ {0} BY HashTableAssumption DEF Chains, ChainsType
    <3> QED BY <3>1, ModRange
  <2> HIDE DEF b
  <2>4. PICK pos : ThinnedAt(pos, C[b], B[b], S) BY <2>3, ThinnedFact
  <2> USE DEF ThinnedAt
  <2>5. PICK x \in 1..Len(C[b]) : pos[x] = i BY <2>1, <2>2, <2>4
  <2>6. C[b][x] = n BY <2>2, <2>4, <2>5
  <2> QED BY <2>6 DEF b
<1> QED BY <1>2, <1>3, <1>4, <1>5, <1>6 DEF Chains, new

(* A chain that loses nothing.                                              *)
LEMMA PicksAll ==
  ASSUME NEW T, NEW s \in Seq(T), NEW S, \A i \in 1..Len(s) : s[i] \in S
  PROVE  \E pos : Picks(s, s, S, pos)
<1> DEFINE n == Len(s)
           pos == [x \in 1..n |-> x]
<1>1. n \in Nat BY LenProperties
<1>2. pos \in [1..n -> 1..n] /\ \A x \in 1..n : pos[x] = x OBVIOUS
<1> HIDE DEF pos
<1>3. Picks(s, s, S, pos) BY <1>2 DEF Picks
<1> QED BY <1>3

(* The place in the order of a traversal.                                   *)
Behind(B, N, key, a, d) ==
  LET p == BktNum(key[a], N)
      q == BktNum(key[d], N)
  IN p < q \/ (p = q /\ \E i, j \in 1..Len(B[p]) : i < j /\ B[p][i] = a /\ B[p][j] = d)

LEMMA ThinnedBehind ==
  ASSUME NEW C, NEW B, NEW N, NEW S, NEW key, Chains(B, N, key), Thinned(C, B, N, S),
         NEW a \in Used(key), NEW d \in Used(key), a \in S, d \in S, Behind(B, N, key, a, d)
  PROVE  Behind(C, N, KeysIn(key, S), a, d)
<1> DEFINE new == KeysIn(key, S)
           p == BktNum(key[a], N)
           q == BktNum(key[d], N)
<1>1. a \in Node /\ d \in Node /\ key[a] \in Key BY DEF Used
<1>2. new[a] = key[a] /\ new[d] = key[d] BY <1>1 DEF KeysIn
<1>3. p \in 0..N - 1
  <2>1. key[a] \in Nat /\ N \in Nat \ {0} BY <1>1, HashTableAssumption DEF Chains, ChainsType
  <2> QED BY <2>1, ModRange
<1>4. p < q \/ (p = q /\ \E i, j \in 1..Len(B[p]) : i < j /\ B[p][i] = a /\ B[p][j] = d)
  BY DEF Behind
<1>5. CASE p < q BY <1>2, <1>5 DEF Behind
<1>6. CASE p = q /\ \E i, j \in 1..Len(B[p]) : i < j /\ B[p][i] = a /\ B[p][j] = d
  <2>1. PICK i \in 1..Len(B[p]), j \in 1..Len(B[p]) : i < j /\ B[p][i] = a /\ B[p][j] = d
    BY <1>6
  <2> HIDE DEF p, q
  <2>2. PICK pos : ThinnedAt(pos, C[p], B[p], S) BY <1>3, ThinnedFact
  <2> USE DEF ThinnedAt
  <2>3. PICK x \in 1..Len(C[p]), y \in 1..Len(C[p]) : pos[x] = i /\ pos[y] = j
    BY <2>1, <2>2
  <2>4. C[p][x] = a /\ C[p][y] = d BY <2>1, <2>2, <2>3
  <2>5. x < y
    <3>1. x # y /\ ~(y < x) BY <2>1, <2>2, <2>3
    <3> QED BY <3>1
  <2>6. \E m, n \in 1..Len(C[p]) : m < n /\ C[p][m] = a /\ C[p][n] = d BY <2>4, <2>5
  <2> QED BY <1>2, <1>6, <2>6 DEF Behind, p, q
<1> QED BY <1>4, <1>5, <1>6

-----------------------------------------------------------------------------
(* GROWING                                                                  *)
LEMMA EmptyChains ==
  ASSUME NEW N \in Nat \ {0}, NEW key, Used(key) = {}
  PROVE  Chains(Buckets(N), N, key)
<1> DEFINE B == Buckets(N)
<1>1. \A b \in 0..N - 1 : B[b] = <<>> BY DEF Buckets
<1>2. <<>> \in Seq(Node) /\ Len(<<>>) = 0 BY EmptySeq
<1>3. B \in [0..N - 1 -> Seq(Node)] BY <1>2 DEF Buckets
<1> HIDE DEF B
<1>4. \A b \in 0..N - 1 : \A i \in 1..Len(B[b]) : FALSE BY <1>1, <1>2
<1>5. ChainsType(B, N) BY <1>3 DEF ChainsType
<1>6. InBucket(B, N, key) /\ Once(B, N) /\ Together(B, N, key)
  BY <1>4 DEF InBucket, Once, Together
<1>7. Present(B, N, key) BY DEF Present, Used
<1> QED BY <1>5, <1>6, <1>7 DEF Chains, B

LEMMA PrimeFact ==
  ASSUME NEW n \in Nat
  PROVE  __stl_next_prime(n) \in Nat \ {0}
<1> DEFINE P == PrimeList
           fit == {p \in Range(P) : p >= n}
<1>1. P \in Seq(Nat \ {0}) /\ P # <<>> BY HashTableAssumption
<1>2. __stl_next_prime(n) = IF fit = {} THEN Last(P)
                            ELSE CHOOSE p \in fit : \A q \in fit : p <= q
  BY DEF __stl_next_prime
<1> HIDE DEF P
<1>3. Len(P) \in Nat /\ Len(P) # 0 BY <1>1, LenProperties, EmptySeq
<1>4. Len(P) \in 1..Len(P) BY <1>3
<1>5. \A i \in 1..Len(P) : P[i] \in Nat \ {0} BY <1>1, ElementOfSeq
<1>6. Last(P) \in Nat \ {0} BY <1>4, <1>5 DEF Last
<1>7. fit \subseteq Nat \ {0} BY <1>1, <1>5, RangeEquality
<1> HIDE DEF fit
<1>8. CASE fit # {}
  <2>1. fit \subseteq Nat BY <1>7
  <2>2. \E p \in fit : \A q \in fit : p <= q BY <1>8, <2>1, Smallest
  <2>3. (CHOOSE p \in fit : \A q \in fit : p <= q) \in fit BY <2>2
  <2> QED BY <1>2, <1>7, <1>8, <2>3
<1> QED BY <1>2, <1>6, <1>8

(* A traversal meets the elements of a key one after the other.             *)
LEMMA OrderTogether ==
  ASSUME NEW B, NEW N, NEW key, Chains(B, N, key), NEW f \in Seq(Node), NEW bkt, NEW idx,
         InOrder(f, B, N, bkt, idx), NEW x \in 1..Len(f), NEW m \in 1..Len(f),
         NEW y \in 1..Len(f), x < m, m < y, key[f[x]] = key[f[y]]
  PROVE  key[f[m]] = key[f[x]]
<1>1. \A z \in 1..Len(f) : bkt[z] \in 0..N - 1 /\ idx[z] \in 1..Len(B[bkt[z]])
                           /\ f[z] = B[bkt[z]][idx[z]]
  BY DEF InOrder
<1>2. \A z \in 1..Len(f) : bkt[z] = BktNum(key[f[z]], N) BY <1>1 DEF Chains, InBucket
<1>3. bkt[x] = bkt[y] BY <1>2
<1>4. /\ bkt[x] < bkt[m] \/ (bkt[x] = bkt[m] /\ idx[x] < idx[m])
      /\ bkt[m] < bkt[y] \/ (bkt[m] = bkt[y] /\ idx[m] < idx[y])
  BY DEF InOrder
<1>5. bkt[x] \in Nat /\ bkt[m] \in Nat BY <1>1
<1>6. bkt[m] = bkt[x] /\ idx[x] < idx[m] /\ idx[m] < idx[y] BY <1>3, <1>4, <1>5
<1> DEFINE b == bkt[x]
<1>7. /\ b \in 0..N - 1 /\ idx[x] \in 1..Len(B[b]) /\ idx[m] \in 1..Len(B[b])
      /\ idx[y] \in 1..Len(B[b])
      /\ f[x] = B[b][idx[x]] /\ f[m] = B[b][idx[m]] /\ f[y] = B[b][idx[y]]
  BY <1>1, <1>3, <1>6
<1> HIDE DEF b
<1>8. key[B[b][idx[x]]] = key[B[b][idx[y]]] BY <1>7
<1>9. key[B[b][idx[m]]] = key[B[b][idx[x]]]
  BY <1>6, <1>7, <1>8 DEF Chains, Together
<1> QED BY <1>7, <1>9

(* The new chain of a bucket: those of the nodes that go there, reversed.   *)
LEMMA ReversedFact ==
  ASSUME NEW T, NEW s \in Seq(T)
  PROVE  /\ Reverse(s) \in Seq(T) /\ Len(Reverse(s)) = Len(s)
         /\ \A i \in 1..Len(s) : Len(s) - i + 1 \in 1..Len(s) /\ Reverse(s)[i] = s[Len(s) - i + 1]
<1> DEFINE n == Len(s)
           r == Reverse(s)
<1>1. n \in Nat BY LenProperties
<1>2. r = [i \in 1..n |-> s[(n - i) + 1]] BY DEF Reverse
<1> HIDE DEF n
<1>3. \A i \in 1..n : (n - i) + 1 \in 1..n BY <1>1
<1>4. \A i \in 1..n : s[i] \in T BY ElementOfSeq DEF n
<1> HIDE DEF r
<1>5. r \in [1..n -> T] BY <1>2, <1>3, <1>4
<1>6. r \in Seq(T) /\ Len(r) = n BY <1>1, <1>5
<1> QED BY <1>2, <1>3, <1>6 DEF n, r

LEMMA RehashedFact ==
  ASSUME NEW t, NEW N, NEW key, Chains(t.buckets, N, key), NEW n \in Nat \ {0}
  PROVE  Chains([i \in 0..n - 1 |-> Reverse(Kept(Order(t), {m \in Node : BktNum(key[m], n) = i}))],
                n, key)
<1> DEFINE f == Order(t)
           S(i) == {m \in Node : BktNum(key[m], n) = i}
           K(i) == Kept(f, S(i))
           C == [i \in 0..n - 1 |-> Reverse(K(i))]
           B == t.buckets
<1>1. f \in Seq(Node) /\ \E bkt, idx : InOrder(f, B, N, bkt, idx) BY OrderFact
<1>2. PICK bkt, idx : InOrder(f, B, N, bkt, idx) BY <1>1
<1>3. Chains(B, N, key) OBVIOUS
<1> HIDE DEF f, B
<1>4. \A x, y \in 1..Len(f) : f[x] = f[y] => x = y BY <1>1, <1>2, <1>3, OrderIsOnce
<1>5. Range(f) = Used(key) BY <1>1, <1>2, <1>3, OrderIsAll
<1>6. \A x, m, y \in 1..Len(f) : x < m /\ m < y /\ key[f[x]] = key[f[y]] => key[f[m]] = key[f[x]]
  BY <1>1, <1>2, <1>3, OrderTogether
<1>7. ASSUME NEW b \in 0..n - 1
      PROVE  /\ C[b] \in Seq(Node)
             /\ \A x, y \in 1..Len(C[b]) : C[b][x] = C[b][y] => x = y
             /\ \A v \in Node : (\E x \in 1..Len(C[b]) : C[b][x] = v)
                                  <=> v \in Used(key) /\ BktNum(key[v], n) = b
             /\ \A x, m, y \in 1..Len(C[b]) :
                  x < m /\ m < y /\ key[C[b][x]] = key[C[b][y]] => key[C[b][m]] = key[C[b][x]]
  <2> DEFINE Q == S(b)
             s == Kept(f, Q)
             r == Reverse(s)
             l == Len(s)
  <2>1. C[b] = r OBVIOUS
  <2> HIDE DEF C, K, Q
  <2>2. s \in Seq(Node) /\ (\A x, y \in 1..l : s[x] = s[y] => x = y)
        /\ Range(s) = Used(key) \cap Q
    <3>1. /\ s \in Seq(Node) /\ (\A x, y \in 1..l : s[x] = s[y] => x = y)
          /\ Range(s) = Range(f) \cap Q
      BY <1>1, <1>4, KeptIsOnce
    <3> QED BY <1>5, <3>1
  <2>3. PICK pos : Picks(s, f, Q, pos) BY <1>1, KeptFact
  <2>4. /\ \A x \in 1..l : pos[x] \in 1..Len(f) /\ s[x] = f[pos[x]]
        /\ \A x, y \in 1..l : x < y => pos[x] < pos[y]
    BY <2>3 DEF Picks
  <2>5. \A v : v \in Q <=> v \in Node /\ BktNum(key[v], n) = b BY DEF Q
  <2> HIDE DEF S, s
  <2>6. l \in Nat BY <2>2, LenProperties
  <2>7. r \in Seq(Node) /\ Len(r) = l
        /\ \A i \in 1..l : l - i + 1 \in 1..l /\ r[i] = s[l - i + 1]
    BY <2>2, ReversedFact
  <2>8. Range(s) = {s[x] : x \in 1..l} BY <2>2, RangeEquality
  <2> HIDE DEF r, l
  <2>9. ASSUME NEW x \in 1..l, NEW y \in 1..l, r[x] = r[y] PROVE x = y
    <3> DEFINE p == l - x + 1
               q == l - y + 1
    <3>1. p \in 1..l /\ q \in 1..l /\ r[x] = s[p] /\ r[y] = s[q] BY <2>7
    <3>2. p = q => x = y BY <2>6
    <3> HIDE DEF p, q
    <3>3. p = q BY <2>2, <2>9, <3>1
    <3> QED BY <3>2, <3>3
  <2>10. ASSUME NEW v \in Node
         PROVE  (\E x \in 1..l : r[x] = v) <=> v \in Used(key) /\ BktNum(key[v], n) = b
    <3>1. ASSUME NEW x \in 1..l, r[x] = v PROVE v \in Range(s) BY <2>7, <2>8, <3>1
    <3>2. ASSUME v \in Range(s) PROVE \E x \in 1..l : r[x] = v
      <4>1. PICK y \in 1..l : s[y] = v BY <2>8, <3>2
      <4> DEFINE x == l - y + 1
      <4>2. x \in 1..l /\ l - x + 1 = y BY <2>6
      <4> HIDE DEF x
      <4>3. r[x] = s[y] BY <2>7, <4>2
      <4> QED BY <4>1, <4>2, <4>3
    <3>3. v \in Range(s) <=> v \in Used(key) /\ BktNum(key[v], n) = b BY <2>2, <2>5
    <3> QED BY <3>1, <3>2, <3>3
  <2>11. ASSUME NEW x \in 1..l, NEW m \in 1..l, NEW y \in 1..l, x < m, m < y,
                key[r[x]] = key[r[y]]
         PROVE  key[r[m]] = key[r[x]]
    <3> DEFINE p == l - x + 1
               q == l - m + 1
               u == l - y + 1
    <3>1. p \in 1..l /\ q \in 1..l /\ u \in 1..l /\ r[x] = s[p] /\ r[m] = s[q] /\ r[y] = s[u]
      BY <2>7
    <3>2. u < q /\ q < p BY <2>6, <2>11
    <3> HIDE DEF p, q, u
    <3>3. /\ pos[u] \in 1..Len(f) /\ pos[q] \in 1..Len(f) /\ pos[p] \in 1..Len(f)
          /\ s[u] = f[pos[u]] /\ s[q] = f[pos[q]] /\ s[p] = f[pos[p]]
          /\ pos[u] < pos[q] /\ pos[q] < pos[p]
      BY <2>4, <3>1, <3>2
    <3>4. key[f[pos[u]]] = key[f[pos[p]]] BY <2>11, <3>1, <3>3
    <3>5. key[f[pos[q]]] = key[f[pos[u]]] BY <1>6, <3>3, <3>4
    <3> QED BY <2>11, <3>1, <3>3, <3>5
  <2> QED BY <2>1, <2>7, <2>9, <2>10, <2>11
<1>8. C = [b \in 0..n - 1 |-> C[b]] OBVIOUS
<1> HIDE DEF C
<1>9. ChainsType(C, n)
  <2>1. C \in [0..n - 1 -> Seq(Node)] BY <1>7, <1>8
  <2> QED BY <2>1 DEF ChainsType
<1>10. InBucket(C, n, key)
  <2> SUFFICES ASSUME NEW b \in 0..n - 1, NEW i \in 1..Len(C[b])
               PROVE  key[C[b][i]] \in Key /\ BktNum(key[C[b][i]], n) = b
    BY DEF InBucket
  <2>1. C[b][i] \in Node BY <1>7, ElementOfSeq
  <2>2. C[b][i] \in Used(key) /\ BktNum(key[C[b][i]], n) = b BY <1>7, <2>1
  <2> QED BY <2>2 DEF Used
<1>11. Once(C, n) BY <1>7 DEF Once
<1>12. Together(C, n, key) BY <1>7 DEF Together
<1>13. Present(C, n, key)
  <2> SUFFICES ASSUME NEW v \in Node, key[v] \in Key
               PROVE  \E i \in 1..Len(C[BktNum(key[v], n)]) : C[BktNum(key[v], n)][i] = v
    BY DEF Present
  <2>1. key[v] \in Nat /\ v \in Used(key) BY HashTableAssumption DEF Used
  <2>2. BktNum(key[v], n) \in 0..n - 1 BY <2>1, ModRange
  <2> QED BY <1>7, <2>1, <2>2
<1>14. Chains(C, n, key) BY <1>9, <1>10, <1>11, <1>12, <1>13 DEF Chains
<1> QED BY <1>14 DEF C, f

LEMMA ResizedFact ==
  ASSUME NEW t, IsTable(t), NEW N, Chains(t.buckets, N, keyOf), NEW hint \in Nat
  PROVE  LET r == Resized(t, hint)
         IN /\ IsTable(r) /\ Chains(r.buckets, Size(r), keyOf) /\ r.num = t.num
            /\ Size(r) = Size(t) => r = t
<1> DEFINE n == __stl_next_prime(hint)
           C == [i \in 0..n - 1 |-> Reverse(Kept(Order(t), {m \in Node : BktNum(keyOf[m], n) = i}))]
           r == Resized(t, hint)
<1>1. Size(t) = N /\ N \in Nat BY OrderFact DEF Chains, ChainsType
<1>2. r = IF hint <= Size(t) \/ n <= Size(t) THEN t ELSE [t EXCEPT !.buckets = C]
  BY DEF Resized
<1>3. n \in Nat \ {0} BY PrimeFact
<1> HIDE DEF n
<1>4. Chains(C, n, keyOf) BY <1>3, RehashedFact
<1> HIDE DEF C, r
<1>5. CASE hint <= Size(t) \/ n <= Size(t)
  <2>1. r = t BY <1>2, <1>5
  <2> QED BY <1>1, <2>1 DEF r
<1>6. CASE ~(hint <= Size(t) \/ n <= Size(t))
  <2>1. t = [buckets |-> t.buckets, num |-> t.num] BY DEF IsTable
  <2> DEFINE u == [buckets |-> C, num |-> t.num]
  <2>2. r = u BY <1>2, <1>6, <2>1
  <2>3. u.buckets = C /\ u.num = t.num /\ IsTable(u) BY DEF IsTable
  <2> HIDE DEF u
  <2>4. Size(r) = n BY <1>4, <2>2, <2>3, OrderFact
  <2>5. Size(r) # Size(t) BY <1>1, <1>3, <1>6, <2>4
  <2> QED BY <1>4, <2>2, <2>3, <2>4, <2>5 DEF r
<1> QED BY <1>5, <1>6

-----------------------------------------------------------------------------
(* INSERTING                                                                *)
Inserted(c, s, p, e) ==
  /\ p \in 1..Len(s) + 1 /\ Len(c) = Len(s) + 1
  /\ \A x \in 1..Len(s) + 1 : /\ x < p => c[x] = s[x]
                              /\ x = p => c[x] = e
                              /\ x > p => c[x] = s[x - 1]

LEMMA Slice ==
  ASSUME NEW T, NEW s \in Seq(T), NEW m \in 1..Len(s) + 1, NEW n \in m - 1..Len(s)
  PROVE  /\ SubSeq(s, m, n) \in Seq(T) /\ Len(SubSeq(s, m, n)) = n - m + 1
         /\ \A i \in 1..n - m + 1 : m + i - 1 \in 1..Len(s) /\ SubSeq(s, m, n)[i] = s[m + i - 1]
<1>1. Len(s) \in Nat BY LenProperties
<1>2. m \in Int /\ n \in Int BY <1>1
<1>3. \A i \in m..n : s[i] \in T
  <2>1. \A i \in m..n : i \in 1..Len(s) BY <1>1
  <2> QED BY <2>1, ElementOfSeq
<1>4. /\ SubSeq(s, m, n) \in Seq(T)
      /\ Len(SubSeq(s, m, n)) = IF m <= n THEN n - m + 1 ELSE 0
      /\ \A i \in 1..n - m + 1 : SubSeq(s, m, n)[i] = s[m + i - 1]
  BY <1>2, <1>3, SubSeqProperties
<1>5. (IF m <= n THEN n - m + 1 ELSE 0) = n - m + 1 BY <1>1
<1>6. \A i \in 1..n - m + 1 : m + i - 1 \in 1..Len(s) BY <1>1
<1> QED BY <1>4, <1>5, <1>6

LEMMA Concat ==
  ASSUME NEW T, NEW a \in Seq(T), NEW b \in Seq(T), NEW l, NEW m, Len(a) = l, Len(b) = m
  PROVE  /\ a \o b \in Seq(T) /\ Len(a \o b) = l + m
         /\ \A i \in 1..l + m : (a \o b)[i] = IF i <= l THEN a[i] ELSE b[i - l]
<1>1. /\ a \o b \in Seq(T) /\ Len(a \o b) = Len(a) + Len(b)
      /\ \A i \in 1..Len(a) + Len(b) : (a \o b)[i] = IF i <= Len(a) THEN a[i] ELSE b[i - Len(a)]
  BY ConcatProperties
<1> QED BY <1>1

LEMMA HeadFact ==
  ASSUME NEW T, NEW s \in Seq(T), NEW e \in T
  PROVE  <<e>> \o s \in Seq(T) /\ Inserted(<<e>> \o s, s, 1, e)
<1> DEFINE h == <<e>>
           c == h \o s
           n == Len(s)
<1>1. h \in Seq(T) /\ Len(h) = 1 /\ h[1] = e OBVIOUS
<1> HIDE DEF h
<1>2. n \in Nat BY LenProperties
<1>3. /\ c \in Seq(T) /\ Len(c) = 1 + n
      /\ \A i \in 1..1 + n : c[i] = IF i <= 1 THEN h[i] ELSE s[i - 1]
  <2> DEFINE one == 1
  <2>1. h \in Seq(T) /\ s \in Seq(T) /\ Len(h) = one /\ Len(s) = n BY <1>1
  <2> HIDE DEF n, one
  <2>2. /\ c \in Seq(T) /\ Len(c) = one + n
        /\ \A i \in 1..one + n : c[i] = IF i <= one THEN h[i] ELSE s[i - one]
    BY ONLY <2>1, Concat DEF c
  <2> QED BY <2>2 DEF one
<1> HIDE DEF c, n
<1>4. \A x \in 1..n + 1 : (x = 1 => c[x] = e) /\ (x > 1 => c[x] = s[x - 1]) /\ ~(x < 1)
  <2>1. ASSUME NEW x \in 1..n + 1
        PROVE  (x = 1 => c[x] = e) /\ (x > 1 => c[x] = s[x - 1]) /\ ~(x < 1)
    <3>1. x \in 1..1 + n /\ (x > 1 => ~(x <= 1)) BY <1>2
    <3> QED BY <1>1, <1>2, <1>3, <3>1
  <2> QED BY <2>1
<1>5. Len(c) = n + 1 /\ 1 \in 1..n + 1 BY <1>2, <1>3
<1> QED BY <1>3, <1>4, <1>5 DEF Inserted, n, c, h

LEMMA InsertedFact ==
  ASSUME NEW T, NEW s \in Seq(T), NEW e \in T, NEW p \in 1..Len(s) + 1
  PROVE  InsertAt(s, p, e) \in Seq(T) /\ Inserted(InsertAt(s, p, e), s, p, e)
<1> DEFINE a == SubSeq(s, 1, p - 1)
           h == <<e>>
           d == SubSeq(s, p, Len(s))
           n == Len(s)
           c == InsertAt(s, p, e)
<1>1. n \in Nat BY LenProperties
<1>2. a \in Seq(T) /\ Len(a) = p - 1 /\ \A i \in 1..p - 1 : a[i] = s[i]
  <2>1. 1 \in 1..Len(s) + 1 /\ p - 1 \in 1 - 1..Len(s) BY <1>1
  <2>2. /\ a \in Seq(T) /\ Len(a) = p - 1 - 1 + 1
        /\ \A i \in 1..p - 1 - 1 + 1 : a[i] = s[1 + i - 1]
    BY <2>1, Slice
  <2>3. p - 1 - 1 + 1 = p - 1 /\ \A i \in 1..p - 1 : 1 + i - 1 = i BY <1>1
  <2> HIDE DEF a
  <2> QED BY <2>2, <2>3
<1>3. d \in Seq(T) /\ Len(d) = n - p + 1 /\ \A i \in 1..n - p + 1 : d[i] = s[p + i - 1]
  <2>1. n \in p - 1..Len(s) BY <1>1
  <2> QED BY <2>1, Slice
<1>4. h \in Seq(T) /\ Len(h) = 1 /\ h[1] = e OBVIOUS
<1>5. c = (a \o h) \o d BY DEF InsertAt
<1> HIDE DEF a, d, h, c
<1> DEFINE g == a \o h
<1>6. /\ g \in Seq(T) /\ Len(g) = p - 1 + 1
      /\ \A i \in 1..p - 1 + 1 : g[i] = IF i <= p - 1 THEN a[i] ELSE h[i - (p - 1)]
  <2>1. a \in Seq(T) /\ h \in Seq(T) /\ Len(a) = p - 1 /\ Len(h) = 1 BY <1>2, <1>4
  <2> DEFINE q == p - 1
             one == 1
  <2>2. a \in Seq(T) /\ h \in Seq(T) /\ Len(a) = q /\ Len(h) = one BY <2>1
  <2>0. g = a \o h OBVIOUS
  <2> HIDE DEF q, one, g
  <2>3. /\ g \in Seq(T) /\ Len(g) = q + one
        /\ \A i \in 1..q + one : g[i] = IF i <= q THEN a[i] ELSE h[i - q]
    BY ONLY <2>0, <2>2, Concat
  <2> QED BY <2>3 DEF q, one
<1>7. c = g \o d BY <1>5
<1> HIDE DEF g
<1>8. /\ c \in Seq(T) /\ Len(c) = (p - 1 + 1) + (n - p + 1)
      /\ \A i \in 1..(p - 1 + 1) + (n - p + 1) :
           c[i] = IF i <= p - 1 + 1 THEN g[i] ELSE d[i - (p - 1 + 1)]
  <2> DEFINE q == p - 1 + 1
             m == n - p + 1
  <2>1. g \in Seq(T) /\ d \in Seq(T) /\ Len(g) = q /\ Len(d) = m BY <1>3, <1>6
  <2> HIDE DEF q, m
  <2>2. /\ c \in Seq(T) /\ Len(c) = q + m
        /\ \A i \in 1..q + m : c[i] = IF i <= q THEN g[i] ELSE d[i - q]
    BY ONLY <1>7, <2>1, Concat
  <2> QED BY <2>2 DEF q, m
<1> HIDE DEF n
<1>9. p \in 1..n + 1 /\ (p - 1 + 1) + (n - p + 1) = n + 1 /\ p - 1 + 1 = p BY <1>1 DEF n
<1>10. ASSUME NEW x \in 1..n + 1
       PROVE  /\ x < p => c[x] = s[x]
              /\ x = p => c[x] = e
              /\ x > p => c[x] = s[x - 1]
  <2>0. c[x] = IF x <= p THEN g[x] ELSE d[x - p] BY <1>8, <1>9
  <2>1. ASSUME x < p PROVE c[x] = s[x]
    <3>1. x \in 1..p - 1 /\ x <= p /\ x <= p - 1 /\ x \in 1..p - 1 + 1 BY <1>1, <1>9, <2>1
    <3> QED BY <1>2, <1>6, <2>0, <3>1
  <2>2. ASSUME x = p PROVE c[x] = e
    <3>1. x <= p /\ ~(x <= p - 1) /\ x - (p - 1) = 1 /\ x \in 1..p - 1 + 1 BY <1>9, <2>2
    <3> QED BY <1>4, <1>6, <2>0, <3>1
  <2>3. ASSUME x > p PROVE c[x] = s[x - 1]
    <3>1. ~(x <= p) /\ x - p \in 1..n - p + 1 /\ p + (x - p) - 1 = x - 1 BY <1>1, <1>9, <2>3
    <3> QED BY <1>3, <2>0, <3>1
  <2> QED BY <2>1, <2>2, <2>3
<1>11. Len(c) = n + 1 BY <1>8, <1>9
<1> QED BY <1>8, <1>9, <1>10, <1>11 DEF Inserted, n, c

(* In one chain: the new node stands at p, the others keep their order.     *)
Place(x, p) == IF x < p THEN x ELSE x - 1

LEMMA PlaceFact ==
  ASSUME NEW T, NEW s \in Seq(T), NEW c \in Seq(T), NEW p, NEW e, Inserted(c, s, p, e)
  PROVE  /\ p \in 1..Len(c) /\ c[p] = e
         /\ \A x \in 1..Len(c) : x # p => Place(x, p) \in 1..Len(s) /\ c[x] = s[Place(x, p)]
         /\ \A x, y \in 1..Len(c) : x # p /\ y # p /\ x < y => Place(x, p) < Place(y, p)
         /\ \A j \in 1..Len(s) : \E x \in 1..Len(c) : x # p /\ Place(x, p) = j
<1> DEFINE n == Len(s)
<1>1. n \in Nat BY LenProperties
<1>2. /\ p \in 1..n + 1 /\ Len(c) = n + 1
      /\ \A x \in 1..n + 1 : /\ x < p => c[x] = s[x]
                             /\ x = p => c[x] = e
                             /\ x > p => c[x] = s[x - 1]
  BY DEF Inserted
<1> HIDE DEF n
<1>3. ASSUME NEW x \in 1..Len(c), x # p
      PROVE  Place(x, p) \in 1..n /\ c[x] = s[Place(x, p)]
  <2>1. CASE x < p
    <3>1. Place(x, p) = x /\ x \in 1..n BY <1>1, <1>2, <2>1 DEF Place
    <3> QED BY <1>2, <2>1, <3>1
  <2>2. CASE ~(x < p)
    <3>1. Place(x, p) = x - 1 /\ x - 1 \in 1..n /\ x > p BY <1>1, <1>2, <1>3, <2>2 DEF Place
    <3> QED BY <1>2, <3>1
  <2> QED BY <2>1, <2>2
<1>4. ASSUME NEW x \in 1..Len(c), NEW y \in 1..Len(c), x # p, y # p, x < y
      PROVE  Place(x, p) < Place(y, p)
  BY <1>1, <1>2, <1>4 DEF Place
<1>5. ASSUME NEW j \in 1..n PROVE \E x \in 1..Len(c) : x # p /\ Place(x, p) = j
  <2> DEFINE x == IF j < p THEN j ELSE j + 1
  <2>1. x \in 1..Len(c) /\ x # p /\ Place(x, p) = j BY <1>1, <1>2 DEF Place
  <2> QED BY <2>1
<1>6. p \in 1..Len(c) /\ c[p] = e BY <1>2
<1> QED BY <1>3, <1>4, <1>5, <1>6 DEF n

(* A node enters: those before it keep their order.                         *)
Enters(C, new, B, N, key, n) ==
  /\ Chains(C, N, new) /\ Used(new) = Used(key) \cup {n} /\ n \notin Used(key)
  /\ \A a, d \in Used(key) : Behind(B, N, key, a, d) => Behind(C, N, new, a, d)

(* Its place: at the head, or after an element of its key.                  *)
MayStandAt(p, s, key, k) ==
  \/ p = 1 /\ \A j \in 1..Len(s) : key[s[j]] # k
  \/ p - 1 \in 1..Len(s) /\ key[s[p - 1]] = k

LEMMA InsertChains ==
  ASSUME NEW B, NEW N, NEW key \in [Node -> Key \cup {NoKey}], Chains(B, N, key),
         NEW k \in Key, NEW n \in Node, key[n] = NoKey, NEW b, b = BktNum(k, N),
         NEW c \in Seq(Node), NEW p, Inserted(c, B[b], p, n), MayStandAt(p, B[b], key, k)
  PROVE  Enters([B EXCEPT ![b] = c], [key EXCEPT ![n] = k], B, N, key, n)
<1> DEFINE C == [B EXCEPT ![b] = c]
           new == [key EXCEPT ![n] = k]
           s == B[b]
<1>1. N \in Nat \ {0} /\ B \in [0..N - 1 -> Seq(Node)] BY DEF Chains, ChainsType
<1>2. k \in Nat /\ NoKey \notin Key BY HashTableAssumption
<1>3. b \in 0..N - 1 BY <1>1, <1>2, ModRange
<1>4. new[n] = k /\ \A m \in Node : m # n => new[m] = key[m] OBVIOUS
<1>5. C[b] = c /\ \A i \in 0..N - 1 : i # b => C[i] = B[i] BY <1>1, <1>3
<1>6. C \in [0..N - 1 -> Seq(Node)] BY <1>1, <1>3
<1>7. s \in Seq(Node) BY <1>1, <1>3
<1> HIDE DEF C, new
<1>8. \A i \in 0..N - 1 : \A j \in 1..Len(B[i]) :
        /\ B[i][j] \in Node /\ B[i][j] # n /\ new[B[i][j]] = key[B[i][j]]
        /\ key[B[i][j]] \in Key /\ BktNum(key[B[i][j]], N) = i
  <2> SUFFICES ASSUME NEW i \in 0..N - 1, NEW j \in 1..Len(B[i])
               PROVE  /\ B[i][j] \in Node /\ B[i][j] # n /\ new[B[i][j]] = key[B[i][j]]
                      /\ key[B[i][j]] \in Key /\ BktNum(key[B[i][j]], N) = i
    OBVIOUS
  <2>1. B[i] \in Seq(Node) BY <1>1
  <2>2. B[i][j] \in Node BY <2>1, ElementOfSeq
  <2>3. key[B[i][j]] \in Key /\ BktNum(key[B[i][j]], N) = i BY DEF Chains, InBucket
  <2> QED BY <1>2, <1>4, <2>2, <2>3
<1>9. /\ p \in 1..Len(c) /\ c[p] = n
      /\ \A x \in 1..Len(c) : x # p => Place(x, p) \in 1..Len(s) /\ c[x] = s[Place(x, p)]
      /\ \A x, y \in 1..Len(c) : x # p /\ y # p /\ x < y => Place(x, p) < Place(y, p)
      /\ \A j \in 1..Len(s) : \E x \in 1..Len(c) : x # p /\ Place(x, p) = j
  <2>1. Inserted(c, s, p, n) OBVIOUS
  <2> HIDE DEF s
  <2> QED BY <1>7, <2>1, PlaceFact
<1>10. /\ \A x, y \in 1..Len(s) : s[x] = s[y] => x = y
       /\ \A x, m, y \in 1..Len(s) : x < m /\ m < y /\ key[s[x]] = key[s[y]] => key[s[m]] = key[s[x]]
       /\ \A x \in 1..Len(s) : s[x] \in Node /\ s[x] # n /\ new[s[x]] = key[s[x]]
                               /\ key[s[x]] \in Key /\ BktNum(key[s[x]], N) = b
  BY <1>3, <1>8 DEF Chains, Once, Together
<1>11. \/ p = 1 /\ \A j \in 1..Len(s) : key[s[j]] # k
       \/ p - 1 \in 1..Len(s) /\ key[s[p - 1]] = k
  BY DEF MayStandAt
<1> HIDE DEF s
<1>12. \A x \in 1..Len(c) : x # p => /\ Place(x, p) \in 1..Len(s) /\ c[x] = s[Place(x, p)]
                                     /\ c[x] # n /\ new[c[x]] = key[s[Place(x, p)]]
                                     /\ new[c[x]] \in Key /\ BktNum(new[c[x]], N) = b
  BY <1>9, <1>10
<1>13. Len(c) \in Nat /\ Len(s) \in Nat BY <1>7, LenProperties
<1>14. ASSUME NEW x \in 1..Len(c), NEW y \in 1..Len(c), c[x] = c[y] PROVE x = y
  <2>1. CASE x = p \/ y = p BY <1>9, <1>12, <1>14, <2>1
  <2>2. CASE x # p /\ y # p
    <3>1. Place(x, p) = Place(y, p) /\ Place(x, p) \in Nat BY <1>10, <1>12, <1>14, <2>2
    <3>2. ~(x < y) /\ ~(y < x) BY <1>9, <2>2, <3>1
    <3> QED BY <1>13, <3>2
  <2> QED BY <2>1, <2>2
<1>15. ASSUME NEW x \in 1..Len(c), NEW m \in 1..Len(c), NEW y \in 1..Len(c), x < m, m < y,
              new[c[x]] = new[c[y]]
       PROVE  new[c[m]] = new[c[x]]
  <2>0. new[c[p]] = k BY <1>4, <1>9
  <2>1. CASE m = p
    <3>1. x # p /\ y # p /\ Place(x, p) = x /\ Place(y, p) = y - 1 /\ y - 1 >= p
      BY <1>9, <1>15, <2>1 DEF Place
    <3>2. x \in 1..Len(s) /\ y - 1 \in 1..Len(s) /\ key[s[x]] = key[s[y - 1]]
          /\ new[c[x]] = key[s[x]]
      BY <1>12, <1>15, <3>1
    <3>3. CASE p = 1 BY <1>9, <1>15, <2>1, <3>3
    <3>4. CASE p - 1 \in 1..Len(s) /\ key[s[p - 1]] = k
      <4>1. x = p - 1 \/ (x < p - 1 /\ p - 1 < y - 1) BY <1>9, <1>13, <1>15, <2>1, <3>1
      <4>2. key[s[p - 1]] = key[s[x]] BY <1>10, <3>2, <3>4, <4>1
      <4> QED BY <2>0, <2>1, <3>2, <3>4, <4>2
    <3> QED BY <1>11, <3>3, <3>4
  <2>2. CASE x = p
    <3>1. m # p /\ y # p /\ Place(m, p) = m - 1 /\ Place(y, p) = y - 1 /\ p - 1 < m - 1 /\ m - 1 < y - 1
      BY <1>9, <1>13, <1>15, <2>2 DEF Place
    <3>2. m - 1 \in 1..Len(s) /\ y - 1 \in 1..Len(s) /\ key[s[y - 1]] = k /\ new[c[m]] = key[s[m - 1]]
      BY <1>12, <1>15, <2>0, <2>2, <3>1
    <3>3. p - 1 \in 1..Len(s) /\ key[s[p - 1]] = k BY <1>11, <3>2
    <3>4. key[s[m - 1]] = k BY <1>10, <3>1, <3>2, <3>3
    <3> QED BY <2>0, <2>2, <3>2, <3>4
  <2>3. CASE y = p
    <3>1. m # p /\ x # p /\ Place(m, p) = m /\ Place(x, p) = x /\ m <= p - 1
      BY <1>9, <1>13, <1>15, <2>3 DEF Place
    <3>2. m \in 1..Len(s) /\ x \in 1..Len(s) /\ key[s[x]] = k /\ new[c[m]] = key[s[m]]
          /\ new[c[x]] = k
      BY <1>12, <1>15, <2>0, <2>3, <3>1
    <3>3. p - 1 \in 1..Len(s) /\ key[s[p - 1]] = k BY <1>11, <3>2
    <3>4. m = p - 1 \/ m < p - 1 BY <1>9, <1>13, <3>1
    <3>5. key[s[m]] = k BY <1>10, <1>15, <3>2, <3>3, <3>4
    <3> QED BY <3>2, <3>5
  <2>4. CASE m # p /\ x # p /\ y # p
    <3>1. Place(x, p) < Place(m, p) /\ Place(m, p) < Place(y, p) BY <1>9, <1>15, <2>4
    <3> QED BY <1>10, <1>12, <1>15, <2>4, <3>1
  <2> QED BY <2>1, <2>2, <2>3, <2>4
<1>16. ChainsType(C, N) BY <1>1, <1>6 DEF ChainsType
<1>17. InBucket(C, N, new)
  <2> SUFFICES ASSUME NEW i \in 0..N - 1, NEW j \in 1..Len(C[i])
               PROVE  new[C[i][j]] \in Key /\ BktNum(new[C[i][j]], N) = i
    BY DEF InBucket
  <2>1. CASE i # b BY <1>5, <1>8, <2>1
  <2>2. CASE i = b
    <3>1. C[i] = c BY <1>5, <2>2
    <3>2. CASE j = p BY <1>4, <1>9, <2>2, <3>1, <3>2
    <3>3. CASE j # p BY <1>12, <2>2, <3>1, <3>3
    <3> QED BY <3>2, <3>3
  <2> QED BY <2>1, <2>2
<1>18. Once(C, N)
  <2> SUFFICES ASSUME NEW i \in 0..N - 1, NEW x \in 1..Len(C[i]), NEW y \in 1..Len(C[i]),
                      C[i][x] = C[i][y]
               PROVE  x = y
    BY DEF Once
  <2>1. CASE i # b
    <3>1. C[i] = B[i] BY <1>5, <2>1
    <3> QED BY <3>1 DEF Chains, Once
  <2>2. CASE i = b BY <1>5, <1>14, <2>2
  <2> QED BY <2>1, <2>2
<1>19. Together(C, N, new)
  <2> SUFFICES ASSUME NEW i \in 0..N - 1, NEW x \in 1..Len(C[i]), NEW m \in 1..Len(C[i]),
                      NEW y \in 1..Len(C[i]), x < m, m < y, new[C[i][x]] = new[C[i][y]]
               PROVE  new[C[i][m]] = new[C[i][x]]
    BY DEF Together
  <2>1. CASE i # b
    <3>1. C[i] = B[i] BY <1>5, <2>1
    <3>2. key[B[i][x]] = key[B[i][y]] BY <1>8, <3>1
    <3>3. key[B[i][m]] = key[B[i][x]] BY <3>1, <3>2 DEF Chains, Together
    <3> QED BY <1>8, <3>1, <3>3
  <2>2. CASE i = b BY <1>5, <1>15, <2>2
  <2> QED BY <2>1, <2>2
<1>20. Present(C, N, new)
  <2> SUFFICES ASSUME NEW v \in Node, new[v] \in Key
               PROVE  \E x \in 1..Len(C[BktNum(new[v], N)]) : C[BktNum(new[v], N)][x] = v
    BY DEF Present
  <2>1. CASE v = n BY <1>4, <1>5, <1>9, <2>1
  <2>2. CASE v # n
    <3> DEFINE i == BktNum(new[v], N)
    <3>1. new[v] = key[v] /\ key[v] \in Nat BY <1>4, <2>2, HashTableAssumption
    <3>2. i \in 0..N - 1 BY <1>1, <3>1, ModRange
    <3>3. PICK x \in 1..Len(B[i]) : B[i][x] = v BY <3>1 DEF Chains, Present
    <3> HIDE DEF i
    <3>4. CASE i # b
      <4>1. C[i] = B[i] BY <1>5, <3>2, <3>4
      <4> QED BY <3>3, <4>1 DEF i
    <3>5. CASE i = b
      <4>1. x \in 1..Len(s) /\ s[x] = v BY <3>3, <3>5 DEF s
      <4>2. PICK z \in 1..Len(c) : z # p /\ Place(z, p) = x BY <1>9, <4>1
      <4>3. c[z] = v BY <1>9, <4>1, <4>2
      <4> QED BY <1>5, <3>5, <4>3 DEF i
    <3> QED BY <3>4, <3>5
  <2> QED BY <2>1, <2>2
<1>21. Used(new) = Used(key) \cup {n} /\ n \notin Used(key) BY <1>2, <1>4 DEF Used
<1>22. ASSUME NEW a \in Used(key), NEW d \in Used(key), Behind(B, N, key, a, d)
       PROVE  Behind(C, N, new, a, d)
  <2> DEFINE i == BktNum(key[a], N)
             j == BktNum(key[d], N)
  <2>1. new[a] = key[a] /\ new[d] = key[d] BY <1>4, <1>21 DEF Used
  <2>2. i \in 0..N - 1
    <3>1. key[a] \in Nat BY HashTableAssumption DEF Used
    <3> QED BY <1>1, <3>1, ModRange
  <2>3. i < j \/ (i = j /\ \E x, y \in 1..Len(B[i]) : x < y /\ B[i][x] = a /\ B[i][y] = d)
    BY <1>22 DEF Behind
  <2> HIDE DEF i, j
  <2>4. CASE i < j BY <2>1, <2>4 DEF Behind, i, j
  <2>5. CASE i = j /\ \E x, y \in 1..Len(B[i]) : x < y /\ B[i][x] = a /\ B[i][y] = d
    <3>1. PICK x \in 1..Len(B[i]), y \in 1..Len(B[i]) : x < y /\ B[i][x] = a /\ B[i][y] = d
      BY <2>5
    <3>2. \E u, z \in 1..Len(C[i]) : u < z /\ C[i][u] = a /\ C[i][z] = d
      <4>1. CASE i # b
        <5>1. C[i] = B[i] BY <1>5, <2>2, <4>1
        <5> QED BY <3>1, <5>1
      <4>2. CASE i = b
        <5>1. x \in 1..Len(s) /\ y \in 1..Len(s) /\ s[x] = a /\ s[y] = d BY <3>1, <4>2 DEF s
        <5>2. PICK u \in 1..Len(c) : u # p /\ Place(u, p) = x BY <1>9, <5>1
        <5>3. PICK z \in 1..Len(c) : z # p /\ Place(z, p) = y BY <1>9, <5>1
        <5>4. c[u] = a /\ c[z] = d BY <1>9, <5>1, <5>2, <5>3
        <5>5. u < z
          <6>1. u # z /\ ~(z < u) BY <1>9, <3>1, <5>1, <5>2, <5>3
          <6> QED BY <1>13, <6>1
        <5> QED BY <1>5, <4>2, <5>4, <5>5
      <4> QED BY <4>1, <4>2
    <3> QED BY <2>1, <2>5, <3>2 DEF Behind, i, j
  <2> QED BY <2>3, <2>4, <2>5
<1>23. Chains(C, N, new) BY <1>16, <1>17, <1>18, <1>19, <1>20 DEF Chains
<1> QED BY <1>21, <1>22, <1>23 DEF Enters, C, new

LEMMA WithNodeFact ==
  ASSUME NEW t, NEW N, Chains(t.buckets, N, keyOf), keyOf \in [Node -> Key \cup {NoKey}],
         NEW k \in Key, NEW n \in Node, keyOf[n] = NoKey
  PROVE  LET u == WithNode(t, k, n)
             new == [keyOf EXCEPT ![n] = k]
         IN IsTable(u) /\ u.num = t.num + 1 /\ Enters(u.buckets, new, t.buckets, N, keyOf, n)
<1> DEFINE u == WithNode(t, k, n)
           B == t.buckets
           b == BktNum(k, N)
           s == B[b]
           i == Matches(Chain(t, k), k)
           c == IF i = 0 THEN <<n>> \o s ELSE InsertAt(s, i + 1, n)
           p == IF i = 0 THEN 1 ELSE i + 1
           C == [B EXCEPT ![b] = c]
<1>1. b \in 0..N - 1 /\ Chain(t, k) = s /\ s \in Seq(Node)
  <2>1. IsChainOf(Chain(t, k), t, N, keyOf, k) BY ChainFact
  <2> QED BY <2>1 DEF IsChainOf
<1>2. Size(t) = N /\ B \in [0..N - 1 -> Seq(Node)] BY OrderFact DEF Chains, ChainsType
<1>3. u = [buckets |-> C, num |-> t.num + 1] BY <1>2 DEF WithNode
<1>4. IsTable(u) /\ u.num = t.num + 1 /\ u.buckets = C BY <1>3 DEF IsTable
<1>5. \/ i = 0 /\ \A j \in 1..Len(s) : keyOf[s[j]] # k
      \/ i \in 1..Len(s) /\ keyOf[s[i]] = k
  <2> HIDE DEF s
  <2> QED BY <1>1, MatchesFact
<1> HIDE DEF i, u, b
<1>6. Len(s) \in Nat
  <2> HIDE DEF s
  <2> QED BY <1>1, LenProperties
<1>7. MayStandAt(p, s, keyOf, k) /\ p \in 1..Len(s) + 1
  <2>1. CASE i = 0 /\ \A j \in 1..Len(s) : keyOf[s[j]] # k BY <1>6, <2>1 DEF MayStandAt
  <2>2. CASE i \in 1..Len(s) /\ keyOf[s[i]] = k
    <3>1. p = i + 1 /\ p - 1 = i /\ p \in 1..Len(s) + 1 BY <1>6, <2>2
    <3> QED BY <2>2, <3>1 DEF MayStandAt
  <2> QED BY <1>5, <2>1, <2>2
<1>8. c \in Seq(Node) /\ Inserted(c, s, p, n)
  <2>1. CASE i = 0
    <3>1. c = <<n>> \o s /\ p = 1 BY <2>1
    <3> HIDE DEF c, p, s
    <3> QED BY <1>1, <3>1, HeadFact
  <2>2. CASE i # 0
    <3>1. c = InsertAt(s, p, n) BY <2>2
    <3> HIDE DEF c, p, s
    <3> QED BY <1>1, <1>7, <3>1, InsertedFact
  <2> QED BY <2>1, <2>2
<1>9. /\ Chains(B, N, keyOf) /\ b = BktNum(k, N) /\ c \in Seq(Node) /\ Inserted(c, B[b], p, n)
      /\ MayStandAt(p, B[b], keyOf, k)
  BY <1>7, <1>8 DEF b
<1> HIDE DEF c, p, B
<1>10. Enters([B EXCEPT ![b] = c], [keyOf EXCEPT ![n] = k], B, N, keyOf, n)
  BY <1>9, InsertChains
<1> QED BY <1>4, <1>10 DEF u, B

-----------------------------------------------------------------------------
(* THE TRAVERSAL                                                            *)
LEMMA PlaceOf ==
  ASSUME NEW B, NEW N, NEW key, Chains(B, N, key), NEW a \in Used(key)
  PROVE  LET b == BktNum(key[a], N)
         IN /\ a \in Node /\ key[a] \in Key /\ b \in 0..N - 1 /\ B[b] \in Seq(Node)
            /\ \E i \in 1..Len(B[b]) : B[b][i] = a
<1>1. a \in Node /\ key[a] \in Key /\ key[a] \in Nat /\ N \in Nat \ {0}
  BY HashTableAssumption DEF Used, Chains, ChainsType
<1>2. BktNum(key[a], N) \in 0..N - 1 BY <1>1, ModRange
<1> QED BY <1>1, <1>2 DEF Chains, ChainsType, Present

IsFirstFrom(e, B, N, key, b) ==
  \/ e = End /\ \A d \in Used(key) : ~(BktNum(key[d], N) >= b)
  \/ /\ e \in Used(key) /\ BktNum(key[e], N) >= b
     /\ \A d \in Used(key) : BktNum(key[d], N) >= b /\ d # e => Behind(B, N, key, e, d)
IsAfter(e, B, N, key, a) ==
  \/ e = End /\ \A d \in Used(key) : ~Behind(B, N, key, a, d)
  \/ /\ e \in Used(key) /\ Behind(B, N, key, a, e)
     /\ \A d \in Used(key) : Behind(B, N, key, a, d) /\ d # e => Behind(B, N, key, e, d)

LEMMA FirstFromFact ==
  ASSUME NEW t, NEW N, NEW key, Chains(t.buckets, N, key), NEW b \in Nat
  PROVE  IsFirstFrom(FirstFrom(t, b), t.buckets, N, key, b)
<1> DEFINE e == FirstFrom(t, b)
           B == t.buckets
           full == {i \in DOMAIN B : i >= b /\ B[i] # <<>>}
           m == Min(full)
<1>1. N \in Nat \ {0} /\ B \in [0..N - 1 -> Seq(Node)] BY DEF Chains, ChainsType
<1>2. e = IF full = {} THEN End ELSE Head(B[m]) BY DEF FirstFrom
<1>3. \A i : i \in full <=> i \in 0..N - 1 /\ i >= b /\ B[i] # <<>> BY <1>1
<1> HIDE DEF full
<1>4. \A d \in Used(key) : BktNum(key[d], N) >= b => BktNum(key[d], N) \in full
  <2> SUFFICES ASSUME NEW d \in Used(key), BktNum(key[d], N) >= b
               PROVE  BktNum(key[d], N) \in full
    OBVIOUS
  <2> DEFINE q == BktNum(key[d], N)
  <2>1. q \in 0..N - 1 /\ B[q] \in Seq(Node) /\ \E i \in 1..Len(B[q]) : B[q][i] = d BY PlaceOf
  <2>2. B[q] # <<>> BY <2>1, EmptySeq
  <2> QED BY <1>3, <2>1, <2>2
<1> HIDE DEF e
<1>5. CASE full = {} BY <1>2, <1>4, <1>5 DEF IsFirstFrom, e
<1>6. CASE full # {}
  <2>1. full \subseteq Nat BY <1>1, <1>3
  <2>2. m \in full /\ \A y \in full : m <= y BY <1>6, <2>1, MinFact
  <2> HIDE DEF m
  <2>3. m \in 0..N - 1 /\ m >= b /\ B[m] # <<>> /\ B[m] \in Seq(Node) BY <1>1, <1>3, <2>2
  <2>4. Len(B[m]) \in Nat /\ Len(B[m]) # 0 BY <2>3, LenProperties, EmptySeq
  <2>5. 1 \in 1..Len(B[m]) /\ e = B[m][1] BY <1>2, <1>6, <2>3, <2>4, HeadTailProperties
  <2>6. e \in Node BY <2>3, <2>5, ElementOfSeq
  <2>7. key[e] \in Key /\ BktNum(key[e], N) = m BY <2>3, <2>5 DEF Chains, InBucket
  <2>8. e \in Used(key) BY <2>6, <2>7 DEF Used
  <2>9. ASSUME NEW d \in Used(key), BktNum(key[d], N) >= b, d # e
        PROVE  Behind(B, N, key, e, d)
    <3> DEFINE q == BktNum(key[d], N)
    <3>1. q \in 0..N - 1 /\ \E i \in 1..Len(B[q]) : B[q][i] = d BY PlaceOf
    <3>2. m <= q BY <1>4, <2>2, <2>9
    <3> HIDE DEF q
    <3>3. CASE m < q BY <2>7, <3>3 DEF Behind, q
    <3>4. CASE m = q
      <4>1. PICK i \in 1..Len(B[m]) : B[m][i] = d BY <3>1, <3>4
      <4>2. i # 1 BY <2>5, <2>9, <4>1
      <4>3. 1 < i BY <4>2
      <4> QED BY <2>5, <2>7, <3>4, <4>1, <4>3 DEF Behind, q
    <3> QED BY <2>3, <3>1, <3>2, <3>3, <3>4
  <2> QED BY <2>3, <2>7, <2>8, <2>9 DEF IsFirstFrom, e
<1> QED BY <1>5, <1>6

LEMMA NotBehindItself ==
  ASSUME NEW B, NEW N, NEW key, Chains(B, N, key), NEW a \in Used(key)
  PROVE  ~Behind(B, N, key, a, a)
<1> DEFINE p == BktNum(key[a], N)
<1>1. p \in 0..N - 1 BY PlaceOf
<1>2. \A i, j \in 1..Len(B[p]) : B[p][i] = a /\ B[p][j] = a => i = j
  BY <1>1 DEF Chains, Once
<1> HIDE DEF p
<1>3. ~(p < p) BY <1>1
<1>4. ~ \E i, j \in 1..Len(B[p]) : i < j /\ B[p][i] = a /\ B[p][j] = a BY <1>2
<1> QED BY <1>3, <1>4 DEF Behind, p

LEMMA AfterFact ==
  ASSUME NEW t, NEW N, Chains(t.buckets, N, keyOf), NEW a \in Used(keyOf)
  PROVE  IsAfter(After(t, a), t.buckets, N, keyOf, a)
<1> DEFINE e == After(t, a)
           B == t.buckets
           b == BktNum(keyOf[a], N)
           s == B[b]
           i == IndexOf(s, a)
<1>1. Size(t) = N /\ N \in Nat \ {0} BY OrderFact DEF Chains, ChainsType
<1>2. e = IF i < Len(s) THEN s[i + 1] ELSE FirstFrom(t, b + 1) BY <1>1 DEF After
<1>3. b \in 0..N - 1 /\ s \in Seq(Node) /\ \E j \in 1..Len(s) : s[j] = a BY PlaceOf
<1>4. \A x, y \in 1..Len(s) : s[x] = s[y] => x = y BY <1>3 DEF Chains, Once
<1>5. \A x \in 1..Len(s) : s[x] \in Used(keyOf) /\ BktNum(keyOf[s[x]], N) = b
  <2> SUFFICES ASSUME NEW x \in 1..Len(s)
               PROVE  s[x] \in Used(keyOf) /\ BktNum(keyOf[s[x]], N) = b
    OBVIOUS
  <2>1. keyOf[s[x]] \in Key /\ BktNum(keyOf[s[x]], N) = b BY <1>3 DEF Chains, InBucket
  <2> HIDE DEF s
  <2>2. s[x] \in Node BY <1>3, ElementOfSeq
  <2> QED BY <2>1, <2>2 DEF Used
<1>6. \A c, d : Behind(B, N, keyOf, c, d) <=>
         \/ BktNum(keyOf[c], N) < BktNum(keyOf[d], N)
         \/ /\ BktNum(keyOf[c], N) = BktNum(keyOf[d], N)
            /\ \E x, y \in 1..Len(B[BktNum(keyOf[c], N)]) :
                 x < y /\ B[BktNum(keyOf[c], N)][x] = c /\ B[BktNum(keyOf[c], N)][y] = d
  BY DEF Behind
<1>7. \A c, d : BktNum(keyOf[c], N) = b => (Behind(B, N, keyOf, c, d) <=>
         \/ b < BktNum(keyOf[d], N)
         \/ b = BktNum(keyOf[d], N) /\ \E x, y \in 1..Len(s) : x < y /\ s[x] = c /\ s[y] = d)
  BY <1>6
<1>8. PICK j \in 1..Len(s) : s[j] = a BY <1>3
<1>9. \A d \in Used(keyOf) : BktNum(keyOf[d], N) \in 0..N - 1 BY PlaceOf
<1>10. BktNum(keyOf[a], N) = b OBVIOUS
<1> HIDE DEF s, b, e
<1>11. Len(s) \in Nat BY <1>3, LenProperties
<1>12. i = j
  <2> HIDE DEF i
  <2>1. IndexOf(s, a) = j BY <1>3, <1>4, <1>8, IndexFact
  <2> QED BY <2>1 DEF i
<1> HIDE DEF i
<1>13. CASE i < Len(s)
  <2>1. j + 1 \in 1..Len(s) /\ e = s[j + 1] BY <1>2, <1>11, <1>12, <1>13
  <2>2. e \in Used(keyOf) /\ BktNum(keyOf[e], N) = b BY <1>5, <2>1
  <2>3. Behind(B, N, keyOf, a, e)
    <3>1. j < j + 1 BY <1>11
    <3>2. \E x, y \in 1..Len(s) : x < y /\ s[x] = a /\ s[y] = e BY <1>8, <2>1, <3>1
    <3> QED BY <1>7, <1>10, <2>2, <3>2
  <2>4. ASSUME NEW d \in Used(keyOf), Behind(B, N, keyOf, a, d), d # e
        PROVE  Behind(B, N, keyOf, e, d)
    <3>1. CASE b < BktNum(keyOf[d], N) BY <1>7, <2>2, <3>1
    <3>2. CASE b = BktNum(keyOf[d], N) /\ \E x, y \in 1..Len(s) : x < y /\ s[x] = a /\ s[y] = d
      <4>1. PICK x \in 1..Len(s), y \in 1..Len(s) : x < y /\ s[x] = a /\ s[y] = d BY <3>2
      <4>2. x = j BY <1>4, <1>8, <4>1
      <4>3. y # j + 1 BY <2>1, <2>4, <4>1
      <4>4. j + 1 < y BY <1>11, <4>1, <4>2, <4>3
      <4>5. \E u, z \in 1..Len(s) : u < z /\ s[u] = e /\ s[z] = d BY <2>1, <4>1, <4>4
      <4> QED BY <1>7, <2>2, <3>2, <4>5
    <3> QED BY <1>7, <1>10, <2>4, <3>1, <3>2
  <2> QED BY <2>2, <2>3, <2>4 DEF IsAfter, e
<1>14. CASE ~(i < Len(s))
  <2>1. e = FirstFrom(t, b + 1) /\ j = Len(s) /\ b + 1 \in Nat BY <1>2, <1>3, <1>11, <1>12, <1>14
  <2>2. \A d \in Used(keyOf) : Behind(B, N, keyOf, a, d) <=> BktNum(keyOf[d], N) >= b + 1
    <3> SUFFICES ASSUME NEW d \in Used(keyOf)
                 PROVE  Behind(B, N, keyOf, a, d) <=> BktNum(keyOf[d], N) >= b + 1
      OBVIOUS
    <3>1. ~ \E x, y \in 1..Len(s) : x < y /\ s[x] = a /\ s[y] = d
      <4> SUFFICES ASSUME NEW x \in 1..Len(s), NEW y \in 1..Len(s), x < y, s[x] = a
                   PROVE  FALSE
        OBVIOUS
      <4>1. x = Len(s) BY <1>4, <1>8, <2>1
      <4> QED BY <1>11, <4>1
    <3>2. Behind(B, N, keyOf, a, d) <=> b < BktNum(keyOf[d], N) BY <1>7, <1>10, <3>1
    <3>3. BktNum(keyOf[d], N) \in Nat /\ b \in Nat BY <1>3, <1>9
    <3> QED BY <3>2, <3>3
  <2>3. IsFirstFrom(e, B, N, keyOf, b + 1) BY <2>1, FirstFromFact
  <2> QED BY <2>2, <2>3 DEF IsFirstFrom, IsAfter, e
<1> QED BY <1>13, <1>14

-----------------------------------------------------------------------------
(* CUTTING RANGES OUT                                                       *)
LEMMA CutFact ==
  ASSUME NEW T, NEW s \in Seq(T), NEW from \in 1..Len(s) + 1, NEW to \in from..Len(s) + 1, NEW S,
         \A i \in 1..Len(s) : s[i] \in S <=> i < from \/ i >= to
  PROVE  LET c == SubSeq(s, 1, from - 1) \o SubSeq(s, to, Len(s))
         IN c \in Seq(T) /\ \E pos : Picks(c, s, S, pos)
<1> DEFINE a == SubSeq(s, 1, from - 1)
           d == SubSeq(s, to, Len(s))
           c == a \o d
           n == Len(s)
           k == from - 1
           l == n - to + 1
<1>1. n \in Nat BY LenProperties
<1>2. a \in Seq(T) /\ Len(a) = k /\ \A i \in 1..k : a[i] = s[i]
  <2>1. 1 \in 1..Len(s) + 1 /\ from - 1 \in 1 - 1..Len(s) BY <1>1
  <2>2. /\ a \in Seq(T) /\ Len(a) = from - 1 - 1 + 1
        /\ \A i \in 1..from - 1 - 1 + 1 : a[i] = s[1 + i - 1]
    BY <2>1, Slice
  <2>3. from - 1 - 1 + 1 = from - 1 /\ \A i \in 1..from - 1 : 1 + i - 1 = i BY <1>1
  <2> HIDE DEF a
  <2> QED BY <2>2, <2>3
<1>3. d \in Seq(T) /\ Len(d) = l /\ \A i \in 1..l : d[i] = s[to + i - 1]
  <2>1. to \in 1..Len(s) + 1 /\ n \in to - 1..Len(s) BY <1>1
  <2> QED BY <2>1, Slice
<1>4. c = a \o d OBVIOUS
<1>5. /\ from \in 1..n + 1 /\ to \in from..n + 1
      /\ \A i \in 1..n : s[i] \in S <=> i < from \/ i >= to
  OBVIOUS
<1>6. k \in Nat /\ l \in Nat /\ k = from - 1 /\ l = n - to + 1 BY <1>1
<1> HIDE DEF a, d, c, k, l
<1>7. /\ c \in Seq(T) /\ Len(c) = k + l
      /\ \A i \in 1..k + l : c[i] = IF i <= k THEN a[i] ELSE d[i - k]
  <2>1. a \in Seq(T) /\ d \in Seq(T) /\ Len(a) = k /\ Len(d) = l BY <1>2, <1>3
  <2> QED BY ONLY <1>4, <2>1, Concat
<1> HIDE DEF n
<1> DEFINE pos == [x \in 1..k + l |-> IF x <= k THEN x ELSE x - k + to - 1]
<1>8. ASSUME NEW x \in 1..k + l
      PROVE  /\ pos[x] = (IF x <= k THEN x ELSE x - k + to - 1) /\ pos[x] \in 1..n
             /\ c[x] = s[pos[x]] /\ c[x] \in S
  <2>1. pos[x] = (IF x <= k THEN x ELSE x - k + to - 1) OBVIOUS
  <2> HIDE DEF pos
  <2>2. CASE x <= k
    <3>1. x \in 1..k /\ x \in 1..n /\ x < from BY <1>1, <1>5, <1>6, <2>2
    <3>2. c[x] = s[x] BY <1>2, <1>7, <2>2, <3>1
    <3> QED BY <1>5, <2>1, <2>2, <3>1, <3>2
  <2>3. CASE ~(x <= k)
    <3>1. x - k \in 1..l /\ to + (x - k) - 1 = x - k + to - 1 /\ x - k + to - 1 \in 1..n
          /\ x - k + to - 1 >= to
      BY <1>1, <1>5, <1>6, <2>3
    <3>2. c[x] = s[to + (x - k) - 1] BY <1>3, <1>7, <2>3, <3>1
    <3> QED BY <1>5, <2>1, <2>3, <3>1, <3>2
  <2> QED BY <2>2, <2>3
<1>9. ASSUME NEW x \in 1..k + l, NEW y \in 1..k + l, x < y PROVE pos[x] < pos[y]
  <2>1. /\ pos[x] = IF x <= k THEN x ELSE x - k + to - 1
        /\ pos[y] = IF y <= k THEN y ELSE y - k + to - 1
    BY <1>8
  <2>2. CASE y <= k
    <3>1. x <= k BY <1>6, <1>9, <2>2
    <3> QED BY <1>9, <2>1, <2>2, <3>1
  <2>3. CASE ~(y <= k)
    <3>1. CASE x <= k
      <4>1. pos[x] = x /\ pos[y] = y - k + to - 1 BY <2>1, <2>3, <3>1
      <4>2. x < y - k + to - 1 BY <1>1, <1>5, <1>6, <2>3, <3>1
      <4> QED BY <4>1, <4>2
    <3>2. CASE ~(x <= k)
      <4>1. pos[x] = x - k + to - 1 /\ pos[y] = y - k + to - 1 BY <2>1, <2>3, <3>2
      <4>2. x - k + to - 1 < y - k + to - 1 BY <1>1, <1>5, <1>6, <1>9
      <4> QED BY <4>1, <4>2
    <3> QED BY <3>1, <3>2
  <2> QED BY <2>2, <2>3
<1>10. ASSUME NEW i \in 1..n, s[i] \in S PROVE \E x \in 1..k + l : pos[x] = i
  <2> DEFINE x == IF i < from THEN i ELSE i + k - to + 1
  <2>1. i < from \/ i >= to BY <1>5, <1>10
  <2>2. x \in 1..k + l /\ (IF x <= k THEN x ELSE x - k + to - 1) = i BY <1>1, <1>5, <1>6, <2>1
  <2> HIDE DEF pos, x
  <2>3. pos[x] = i BY <1>8, <2>2
  <2> QED BY <2>2, <2>3
<1>11. pos \in [1..k + l -> 1..n]
  <2>1. pos = [x \in 1..k + l |-> pos[x]] OBVIOUS
  <2> HIDE DEF pos
  <2> QED BY <1>8, <2>1
<1> HIDE DEF pos
<1>12. Picks(c, s, S, pos) BY <1>7, <1>8, <1>9, <1>10, <1>11 DEF Picks, n
<1> QED BY <1>7, <1>12 DEF c, a, d

(* The order of a traversal is that of buckets and indices.                 *)
LEMMA OrderIsLex ==
  ASSUME NEW B, NEW N, NEW f \in Seq(Node), NEW bkt, NEW idx, InOrder(f, B, N, bkt, idx),
         NEW x \in 1..Len(f), NEW y \in 1..Len(f)
  PROVE  /\ bkt[x] \in Nat /\ idx[x] \in Nat
         /\ x < y <=> bkt[x] < bkt[y] \/ (bkt[x] = bkt[y] /\ idx[x] < idx[y])
<1>1. bkt[x] \in Nat /\ bkt[y] \in Nat /\ idx[x] \in Nat /\ idx[y] \in Nat
  <2>1. bkt[x] \in 0..N - 1 /\ bkt[y] \in 0..N - 1 /\ idx[x] \in Nat /\ idx[y] \in Nat
    BY DEF InOrder
  <2> QED BY <2>1
<1>2. x < y => bkt[x] < bkt[y] \/ (bkt[x] = bkt[y] /\ idx[x] < idx[y]) BY DEF InOrder
<1>3. y < x => bkt[y] < bkt[x] \/ (bkt[y] = bkt[x] /\ idx[y] < idx[x]) BY DEF InOrder
<1>4. x = y => ~(bkt[x] < bkt[y]) /\ ~(idx[x] < idx[y]) BY <1>1
<1>5. x < y \/ y < x \/ x = y BY LenProperties
<1> QED BY <1>1, <1>2, <1>3, <1>4, <1>5

(* What stays in a bucket when the order loses x to y - 1.                  *)
Gone(f, x, y) == {f[z] : z \in x..y - 1}
Before(b, m, p, q) == b < p \/ (b = p /\ m < q)

LEMMA GoneFact ==
  ASSUME NEW B, NEW N, NEW key, Chains(B, N, key), NEW f \in Seq(Node), NEW bkt, NEW idx,
         InOrder(f, B, N, bkt, idx), NEW x \in 1..Len(f), NEW y \in x + 1..Len(f) + 1,
         NEW b \in 0..N - 1, NEW m \in 1..Len(B[b])
  PROVE  B[b][m] \in Node \ Gone(f, x, y) <=>
           \/ Before(b, m, bkt[x], idx[x])
           \/ y <= Len(f) /\ ~Before(b, m, bkt[y], idx[y])
<1>0. PICK z \in 1..Len(f) : bkt[z] = b /\ idx[z] = m BY DEF InOrder
<1>1. z \in 1..Len(f) /\ bkt[z] = b /\ idx[z] = m /\ f[z] = B[b][m] BY <1>0 DEF InOrder
<1>2. B[b][m] \in Node BY <1>1, ElementOfSeq
<1>3. Len(f) \in Nat BY LenProperties
<1>4. z \in x..y - 1 => B[b][m] \in Gone(f, x, y) BY <1>1 DEF Gone
<1>5. B[b][m] \in Gone(f, x, y) => z \in x..y - 1
  <2>1. ASSUME NEW w \in x..y - 1, f[w] = B[b][m] PROVE w = z
    <3>1. w \in 1..Len(f) BY <1>3
    <3>2. \A u, v \in 1..Len(f) : f[u] = f[v] => u = v BY OrderIsOnce
    <3> QED BY <1>1, <2>1, <3>1, <3>2
  <2> QED BY <2>1 DEF Gone
<1>9. \A w \in 1..Len(f) : z < w <=> Before(b, m, bkt[w], idx[w])
  <2>1. \A u, v \in 1..Len(f) :
          u < v <=> bkt[u] < bkt[v] \/ (bkt[u] = bkt[v] /\ idx[u] < idx[v])
    BY OrderIsLex
  <2> QED BY <1>1, <2>1 DEF Before
<1>6. z < x <=> Before(b, m, bkt[x], idx[x]) BY <1>9
<1>7. y <= Len(f) => (z < y <=> Before(b, m, bkt[y], idx[y]))
  <2>1. y <= Len(f) => y \in 1..Len(f) BY <1>3
  <2> QED BY <1>9, <2>1
<1>8. z \in x..y - 1 <=> ~(z < x) /\ (y <= Len(f) => z < y) BY <1>3
<1> QED BY <1>2, <1>4, <1>5, <1>6, <1>7, <1>8

NoTwice(s) == \A x, y \in 1..Len(s) : s[x] = s[y] => x = y
StandsAt(s, x, n, default) == (x \in 1..Len(s) /\ s[x] = n) \/ (x = default /\ n = End)
Outside(s, from, to) == SubSeq(s, 1, from - 1) \o SubSeq(s, to, Len(s))

MayCut(s, first, last, from, to) ==
  /\ s \in Seq(Node) /\ NoTwice(s)
  /\ StandsAt(s, from, first, 1) /\ StandsAt(s, to, last, Len(s) + 1)

LEMMA CutIs ==
  ASSUME NEW t, NEW b, NEW first, NEW last, NEW from, NEW to,
         MayCut(t.buckets[b], first, last, from, to)
  PROVE  Cut(t, b, first, last) = Outside(t.buckets[b], from, to)
<1> DEFINE s == t.buckets[b]
<1>0. /\ s \in Seq(Node) /\ NoTwice(s)
      /\ StandsAt(s, from, first, 1) /\ StandsAt(s, to, last, Len(s) + 1)
  BY DEF MayCut
<1> USE DEF NoTwice, StandsAt, Outside
<1> DEFINE At(n, default) == IF n \in Range(s) THEN IndexOf(s, n) ELSE default
<1>1. Cut(t, b, first, last)
        = SubSeq(s, 1, At(first, 1) - 1) \o SubSeq(s, At(last, Len(s) + 1), Len(s))
  BY DEF Cut
<1> HIDE DEF s
<1>2. Range(s) = {s[x] : x \in 1..Len(s)} BY <1>0, RangeEquality
<1>3. \A x \in 1..Len(s) : s[x] \in Node BY <1>0, ElementOfSeq
<1>4. End \notin Range(s) BY <1>2, <1>3 DEF Node, End
<1>5. ASSUME NEW x \in 1..Len(s) PROVE s[x] \in Range(s) /\ IndexOf(s, s[x]) = x
  <2>1. IndexOf(s, s[x]) = x BY <1>0, IndexFact
  <2> QED BY <1>2, <2>1
<1>6. At(first, 1) = from BY <1>0, <1>4, <1>5
<1>7. At(last, Len(s) + 1) = to BY <1>0, <1>4, <1>5
<1> HIDE DEF At
<1> QED BY <1>1, <1>6, <1>7 DEF s

LEMMA ErasedFact ==
  ASSUME NEW t, NEW N, Chains(t.buckets, N, keyOf), NEW f, f = Order(t),
         NEW i \in 1..Len(f), NEW j \in i + 1..Len(f) + 1, NEW last,
         last = IF j > Len(f) THEN End ELSE f[j]
  PROVE  Thinned(ErasedBuckets(t, f[i], last), t.buckets, N, Node \ Gone(f, i, j))
<1> DEFINE B == t.buckets
           S == Node \ Gone(f, i, j)
           first == f[i]
           E == ErasedBuckets(t, first, last)
<1>1. Size(t) = N /\ f \in Seq(Node) /\ \E bkt, idx : InOrder(f, B, N, bkt, idx)
  <2>1. Chains(t.buckets, N, keyOf) OBVIOUS
  <2>2. /\ Size(t) = N /\ Order(t) \in Seq(Node)
        /\ \E bkt, idx : InOrder(Order(t), t.buckets, N, bkt, idx)
    BY ONLY <2>1, OrderFact
  <2> QED BY <2>2
<1>2. PICK bkt, idx : InOrder(f, B, N, bkt, idx) BY <1>1
<1>3. N \in Nat \ {0} /\ B \in [0..N - 1 -> Seq(Node)] BY DEF Chains, ChainsType
<1>4. Len(f) \in Nat BY <1>1, LenProperties
<1> DEFINE g == bkt[i]
           l == IF j > Len(f) THEN N ELSE bkt[j]
<1>5. \A x \in 1..Len(f) : /\ bkt[x] \in 0..N - 1 /\ idx[x] \in 1..Len(B[bkt[x]])
                           /\ f[x] = B[bkt[x]][idx[x]] /\ f[x] \in Node
                           /\ bkt[x] = BktNum(keyOf[f[x]], N)
  <2> SUFFICES ASSUME NEW x \in 1..Len(f)
               PROVE  /\ bkt[x] \in 0..N - 1 /\ idx[x] \in 1..Len(B[bkt[x]])
                      /\ f[x] = B[bkt[x]][idx[x]] /\ f[x] \in Node
                      /\ bkt[x] = BktNum(keyOf[f[x]], N)
    OBVIOUS
  <2>1. bkt[x] \in 0..N - 1 /\ idx[x] \in 1..Len(B[bkt[x]]) /\ f[x] = B[bkt[x]][idx[x]]
    BY <1>2 DEF InOrder
  <2>2. bkt[x] = BktNum(keyOf[f[x]], N) BY <2>1 DEF Chains, InBucket
  <2>3. f[x] \in Node BY <1>1, ElementOfSeq
  <2> QED BY <2>1, <2>2, <2>3
<1>6. End \notin Node BY DEF End, Node
<1>7. j <= Len(f) => j \in 1..Len(f) BY <1>4
<1>8. j > Len(f) => last = End OBVIOUS
<1>9. j <= Len(f) => last = f[j] /\ last # End /\ bkt[j] = BktNum(keyOf[last], N)
                     /\ l = bkt[j]
  <2> SUFFICES ASSUME j <= Len(f)
               PROVE  last = f[j] /\ last # End /\ bkt[j] = BktNum(keyOf[last], N) /\ l = bkt[j]
    OBVIOUS
  <2>1. ~(j > Len(f)) /\ j \in 1..Len(f) BY <1>4, <1>7
  <2> QED BY <1>5, <1>6, <2>1
<1>10. l = IF last = End THEN N ELSE BktNum(keyOf[last], N)
  <2>1. CASE j > Len(f) BY <1>8, <2>1
  <2>2. CASE j <= Len(f) BY <1>9, <2>2
  <2> QED BY <1>4, <2>1, <2>2
<1>11. g = BktNum(keyOf[first], N) BY <1>5
<1>12. g \in 0..N - 1 /\ l \in g..N /\ (j > Len(f) => l = N) /\ (j <= Len(f) => l \in 0..N - 1)
       /\ (j <= Len(f) /\ l = g => idx[i] < idx[j])
  <2>1. j <= Len(f) => bkt[i] < bkt[j] \/ (bkt[i] = bkt[j] /\ idx[i] < idx[j])
    BY <1>2, <1>4, <1>7 DEF InOrder
  <2>2. bkt[i] \in 0..N - 1 /\ (j <= Len(f) => bkt[j] \in 0..N - 1) BY <1>5, <1>7
  <2>3. CASE j > Len(f) BY <1>3, <1>4, <2>2, <2>3
  <2>4. CASE j <= Len(f) BY <1>3, <1>9, <2>1, <2>2, <2>4
  <2> QED BY <1>4, <2>3, <2>4
<1>13. E = [b \in DOMAIN B |->
              CASE b = g -> Cut(t, b, first, IF g = l THEN last ELSE End)
                [] b > g /\ b < l -> <<>>
                [] b = l /\ b # g -> Cut(t, b, End, last)
                [] OTHER -> B[b]]
  BY <1>1, <1>10, <1>11 DEF ErasedBuckets
<1>14. \A b \in 0..N - 1 : \A m \in 1..Len(B[b]) :
         B[b][m] \in S <=> \/ Before(b, m, g, idx[i])
                           \/ j <= Len(f) /\ ~Before(b, m, bkt[j], idx[j])
  BY <1>1, <1>2, GoneFact
<1> HIDE DEF S, E, l, g
<1>15. DOMAIN B = 0..N - 1 BY <1>3
<1>16. ASSUME NEW b \in 0..N - 1
       PROVE  E[b] \in Seq(Node) /\ \E pos : Picks(E[b], B[b], S, pos)
  <2> DEFINE s == B[b]
             n == Len(s)
  <2>1. s \in Seq(Node) BY <1>3
  <2>2. \A x, y \in 1..n : s[x] = s[y] => x = y BY DEF Chains, Once
  <2>3. \A m \in 1..n : s[m] \in S <=> \/ Before(b, m, g, idx[i])
                                       \/ j <= Len(f) /\ ~Before(b, m, bkt[j], idx[j])
    BY <1>14
  <2>4. s = t.buckets[b] OBVIOUS
  <2>5. b = g => idx[i] \in 1..n /\ s[idx[i]] = first BY <1>5 DEF g
  <2>6. j <= Len(f) /\ b = l => idx[j] \in 1..n /\ s[idx[j]] = last BY <1>5, <1>7, <1>9
  <2> HIDE DEF s
  <2>7. n \in Nat BY <2>1, LenProperties
  <2> HIDE DEF n
  <2>8. CASE b = g
    <3> DEFINE to == IF g = l THEN idx[j] ELSE n + 1
               end == IF g = l THEN last ELSE End
    <3>1. g = l => j <= Len(f) BY <1>4, <1>12
    <3>2. E[b] = Cut(t, b, first, end) BY <1>13, <1>15, <2>8
    <3>3. (to \in 1..n /\ s[to] = end) \/ (to = n + 1 /\ end = End) BY <2>6, <2>8, <3>1
    <3>4. idx[i] \in 1..n + 1 /\ to \in idx[i]..n + 1
      BY <1>12, <2>5, <2>6, <2>7, <2>8, <3>1
    <3>5. \A m \in 1..n : s[m] \in S <=> m < idx[i] \/ m >= to
      <4> SUFFICES ASSUME NEW m \in 1..n PROVE s[m] \in S <=> m < idx[i] \/ m >= to OBVIOUS
      <4>1. Before(b, m, g, idx[i]) <=> m < idx[i] BY <1>12, <2>8 DEF Before
      <4>2. CASE g = l
        <5>1. Before(b, m, bkt[j], idx[j]) <=> m < idx[j] BY <1>9, <1>12, <2>8, <3>1, <4>2 DEF Before
        <5>2. to = idx[j] /\ to \in 1..n BY <2>6, <2>8, <3>1, <4>2
        <5>3. ~(m < to) <=> m >= to BY <2>7, <5>2
        <5> QED BY <2>3, <3>1, <4>1, <4>2, <5>1, <5>2, <5>3
      <4>3. CASE g # l
        <5>1. j <= Len(f) => Before(b, m, bkt[j], idx[j]) BY <1>9, <1>12, <2>8, <4>3 DEF Before
        <5>2. ~(m >= to) BY <2>7, <4>3
        <5> QED BY <2>3, <4>1, <5>1, <5>2
      <4> QED BY <4>2, <4>3
    <3> HIDE DEF to, end
    <3> DEFINE c == SubSeq(s, 1, idx[i] - 1) \o SubSeq(s, to, Len(s))
    <3>6. E[b] = c
      <4> DEFINE from == idx[i]
      <4>1. MayCut(s, first, end, from, to)
        BY <2>1, <2>2, <2>5, <2>8, <3>3 DEF n, NoTwice, StandsAt, MayCut
      <4> HIDE DEF from, first
      <4>2. MayCut(t.buckets[b], first, end, from, to) BY <2>4, <4>1
      <4>3. Cut(t, b, first, end) = Outside(t.buckets[b], from, to) BY ONLY <4>2, CutIs
      <4> QED BY <2>4, <3>2, <4>3 DEF from, first, Outside
    <3>7. c \in Seq(Node) /\ \E pos : Picks(c, s, S, pos)
      <4> DEFINE from == idx[i]
      <4>1. from \in 1..Len(s) + 1 /\ to \in from..Len(s) + 1
            /\ \A m \in 1..Len(s) : s[m] \in S <=> m < from \/ m >= to
        BY <3>4, <3>5 DEF n
      <4> HIDE DEF from
      <4>2. LET h == SubSeq(s, 1, from - 1) \o SubSeq(s, to, Len(s))
            IN h \in Seq(Node) /\ \E pos : Picks(h, s, S, pos)
        BY ONLY <2>1, <4>1, CutFact
      <4> QED BY <4>2 DEF from
    <3> QED BY <3>6, <3>7 DEF s
  <2>9. CASE b > g /\ b < l
    <3>1. E[b] = <<>>
      <4>1. b # g BY <1>12, <2>9
      <4> QED BY <1>13, <1>15, <2>9, <4>1
    <3> DEFINE e == <<>>
               pos == [x \in 1..0 |-> 0]
    <3>2. e \in Seq(Node) /\ Len(e) = 0 BY EmptySeq
    <3>3. \A m \in 1..n : s[m] \notin S
      <4> SUFFICES ASSUME NEW m \in 1..n PROVE s[m] \notin S OBVIOUS
      <4>1. ~Before(b, m, g, idx[i]) BY <1>12, <2>9 DEF Before
      <4>2. j <= Len(f) => Before(b, m, bkt[j], idx[j]) BY <1>9, <2>9 DEF Before
      <4> QED BY <2>3, <4>1, <4>2
    <3>4. \A x \in 1..0 : FALSE OBVIOUS
    <3>5. pos \in [1..0 -> 1..n] OBVIOUS
    <3> HIDE DEF e, pos
    <3>6. Picks(e, s, S, pos) BY <3>2, <3>3, <3>4, <3>5 DEF Picks, n
    <3> QED BY <3>1, <3>2, <3>6 DEF s, e
  <2>10. CASE b = l /\ b # g
    <3>0. ~(b > g /\ b < l) BY <1>12, <2>10
    <3>1. E[b] = Cut(t, b, End, last) BY <1>13, <1>15, <2>10, <3>0
    <3>2. j <= Len(f) BY <1>3, <1>4, <1>12, <2>10
    <3>3. idx[j] \in 1..n /\ s[idx[j]] = last BY <2>6, <2>10, <3>2
    <3>4. \A m \in 1..n : s[m] \in S <=> m < 1 \/ m >= idx[j]
      <4> SUFFICES ASSUME NEW m \in 1..n PROVE s[m] \in S <=> m < 1 \/ m >= idx[j] OBVIOUS
      <4>1. ~Before(b, m, g, idx[i]) BY <1>12, <2>10 DEF Before
      <4>2. Before(b, m, bkt[j], idx[j]) <=> m < idx[j] BY <1>9, <1>12, <2>10, <3>2 DEF Before
      <4>3. ~(m < 1) /\ (~(m < idx[j]) <=> m >= idx[j]) BY <2>7, <3>3
      <4> QED BY <2>3, <3>2, <4>1, <4>2, <4>3
    <3> DEFINE to == idx[j]
               from == 1
    <3>5. MayCut(s, End, last, from, to)
      BY <2>1, <2>2, <3>3 DEF n, NoTwice, StandsAt, MayCut
    <3>6. from \in 1..Len(s) + 1 /\ to \in from..Len(s) + 1
          /\ \A m \in 1..Len(s) : s[m] \in S <=> m < from \/ m >= to
      <4>1. from \in 1..n + 1 /\ to \in from..n + 1 BY <2>7, <3>3
      <4> QED BY <3>4, <4>1 DEF n
    <3> HIDE DEF to, from
    <3> DEFINE c == SubSeq(s, 1, from - 1) \o SubSeq(s, to, Len(s))
    <3>7. E[b] = c
      <4>1. MayCut(t.buckets[b], End, last, from, to) BY <2>4, <3>5
      <4>2. Cut(t, b, End, last) = Outside(t.buckets[b], from, to) BY ONLY <4>1, CutIs
      <4> QED BY <2>4, <3>1, <4>2 DEF Outside
    <3>8. LET h == SubSeq(s, 1, from - 1) \o SubSeq(s, to, Len(s))
          IN h \in Seq(Node) /\ \E pos : Picks(h, s, S, pos)
      BY ONLY <2>1, <3>6, CutFact
    <3> QED BY <3>7, <3>8 DEF s
  <2>11. CASE ~(b = g) /\ ~(b > g /\ b < l) /\ ~(b = l /\ b # g)
    <3>1. E[b] = s BY <1>13, <1>15, <2>11 DEF s
    <3>2. b < g \/ b > l BY <1>12, <2>11
    <3>3. \A m \in 1..n : s[m] \in S
      <4> SUFFICES ASSUME NEW m \in 1..n PROVE s[m] \in S OBVIOUS
      <4>1. CASE b < g
        <5>1. Before(b, m, g, idx[i]) BY <4>1 DEF Before
        <5> QED BY <2>3, <5>1
      <4>2. CASE b > l
        <5>1. j <= Len(f) BY <1>3, <1>4, <1>12, <4>2
        <5>2. ~Before(b, m, bkt[j], idx[j]) BY <1>9, <1>12, <4>2, <5>1 DEF Before
        <5> QED BY <2>3, <5>1, <5>2
      <4> QED BY <3>2, <4>1, <4>2
    <3>4. \E pos : Picks(s, s, S, pos) BY <2>1, <3>3, PicksAll DEF n
    <3> QED BY <2>1, <3>1, <3>4 DEF s
  <2> QED BY <2>8, <2>9, <2>10, <2>11
<1>17. E \in [0..N - 1 -> Seq(Node)]
  <2>1. E = [b \in 0..N - 1 |-> E[b]]
    <3>1. E = [b \in DOMAIN E |-> E[b]] /\ DOMAIN E = 0..N - 1 BY <1>13, <1>15
    <3> QED BY <3>1
  <2> QED BY <1>16, <2>1
<1>18. Thinned(E, B, N, S) BY <1>16, <1>17 DEF Thinned
<1> QED BY <1>18 DEF E, S

-----------------------------------------------------------------------------
(* COPYING                                                                  *)
KeysOfCopy(t) == [n \in Node |-> IF n <= t.num THEN keyOf[Order(t)[n]] ELSE NoKey]

LEMMA CopyFact ==
  ASSUME NEW t, NEW N, Chains(t.buckets, N, keyOf), IsTable(t), t.num = Cardinality(Used(keyOf))
  PROVE  /\ IsTable(CopyOf(t)) /\ CopyOf(t).num = t.num
         /\ Chains(CopyOf(t).buckets, N, KeysOfCopy(t))
         /\ t.num = Cardinality(Used(KeysOfCopy(t)))
         /\ \A k \in Key : Cardinality({n \in Node : KeysOfCopy(t)[n] = k})
                             = Cardinality({n \in Node : keyOf[n] = k})
<1> DEFINE B == t.buckets
           f == Order(t)
           l == Len(f)
           key == KeysOfCopy(t)
           C == [b \in DOMAIN B |-> [i \in 1..Len(B[b]) |-> IndexOf(f, B[b][i])]]
<1>1. f \in Seq(Node) /\ \E bkt, idx : InOrder(f, B, N, bkt, idx) BY OrderFact
<1>2. PICK bkt, idx : InOrder(f, B, N, bkt, idx) BY <1>1
<1>3. N \in Nat \ {0} /\ B \in [0..N - 1 -> Seq(Node)] /\ DOMAIN B = 0..N - 1
  BY DEF Chains, ChainsType
<1>4. l = Cardinality(Used(keyOf)) /\ IsFiniteSet(Used(keyOf)) /\ l \in Nat /\ t.num = l
  BY OrderCounts
<1>5. CopyOf(t) = [buckets |-> C, num |-> t.num]
  <2>1. CopyOf(t) = [t EXCEPT !.buckets = C] BY DEF CopyOf
  <2>2. t = [buckets |-> t.buckets, num |-> t.num] BY DEF IsTable
  <2> HIDE DEF C
  <2> QED BY <2>1, <2>2
<1>6. IsTable(CopyOf(t)) /\ CopyOf(t).num = t.num /\ CopyOf(t).buckets = C BY <1>5 DEF IsTable
<1>7. l <= MaxSize /\ MaxSize \in Nat
  <2>1. Used(keyOf) \in SUBSET Node BY DEF Used
  <2>2. Cardinality(Used(keyOf)) <= Cardinality(Node) BY <2>1, NodeType, FS_Subset
  <2> QED BY <1>4, <2>2, NodeType, HashTableAssumption
<1>8. 1..l \subseteq Node BY <1>4, <1>7 DEF Node
<1>9. \A x, y \in 1..l : f[x] = f[y] => x = y BY <1>1, <1>2, OrderIsOnce
<1>10. Range(f) = Used(keyOf) /\ Range(f) = {f[x] : x \in 1..l}
  <2>1. Range(f) = Used(keyOf) BY <1>1, <1>2, OrderIsAll
  <2>2. Range(f) = {f[x] : x \in 1..Len(f)}
    <3> HIDE DEF f
    <3> QED BY <1>1, RangeEquality
  <2> QED BY <2>1, <2>2
<1>11. \A n \in Node : key[n] = IF n <= t.num THEN keyOf[f[n]] ELSE NoKey BY DEF KeysOfCopy
<1> HIDE DEF key, f
<1>12. \A n \in 1..l : n \in Node /\ key[n] = keyOf[f[n]] /\ key[n] \in Key /\ f[n] \in Node
  <2> SUFFICES ASSUME NEW n \in 1..l
               PROVE  n \in Node /\ key[n] = keyOf[f[n]] /\ key[n] \in Key /\ f[n] \in Node
    OBVIOUS
  <2>1. n \in Node /\ n <= t.num BY <1>4, <1>8
  <2>2. f[n] \in Used(keyOf) BY <1>10
  <2> QED BY <1>11, <2>1, <2>2 DEF Used
<1>13. \A n \in Node : key[n] \in Key => n \in 1..l
  <2> SUFFICES ASSUME NEW n \in Node, key[n] \in Key PROVE n \in 1..l OBVIOUS
  <2>1. n <= l BY <1>4, <1>11, HashTableAssumption
  <2> QED BY <1>4, <2>1 DEF Node
<1> HIDE DEF l
<1>14. ASSUME NEW b \in 0..N - 1
       PROVE  /\ C[b] \in Seq(Node) /\ Len(C[b]) = Len(B[b])
              /\ \A i \in 1..Len(B[b]) : C[b][i] \in 1..l /\ f[C[b][i]] = B[b][i]
  <2> DEFINE s == B[b]
             c == C[b]
  <2>1. s \in Seq(Node) BY <1>3
  <2>2. c = [i \in 1..Len(s) |-> IndexOf(f, s[i])] BY <1>3
  <2>3. \A i \in 1..Len(s) : \E x \in 1..l : f[x] = s[i]
    <3> SUFFICES ASSUME NEW i \in 1..Len(s) PROVE \E x \in 1..l : f[x] = s[i] OBVIOUS
    <3>1. PICK x \in 1..Len(f) : bkt[x] = b /\ idx[x] = i BY <1>2 DEF InOrder
    <3>2. f[x] = B[bkt[x]][idx[x]] BY <1>2 DEF InOrder
    <3> QED BY <3>1, <3>2 DEF l
  <2> HIDE DEF s, c
  <2>4. Len(s) \in Nat BY <2>1, LenProperties
  <2>5. ASSUME NEW i \in 1..Len(s) PROVE c[i] \in 1..l /\ f[c[i]] = s[i]
    <3>1. PICK x \in 1..l : f[x] = s[i] BY <2>3
    <3>2. x \in 1..Len(f) /\ \A u, v \in 1..Len(f) : f[u] = f[v] => u = v BY <1>9 DEF l
    <3>3. IndexOf(f, s[i]) = x BY <1>1, <3>1, <3>2, IndexFact
    <3> QED BY <2>2, <3>1, <3>3
  <2>6. c \in [1..Len(s) -> Node] BY <1>8, <2>2, <2>5
  <2>7. c \in Seq(Node) /\ Len(c) = Len(s) BY <2>4, <2>6
  <2> QED BY <2>5, <2>7 DEF s, c
<1>15. C \in [0..N - 1 -> Seq(Node)]
  <2>1. C = [b \in 0..N - 1 |-> C[b]] BY <1>3
  <2> HIDE DEF C
  <2> QED BY <1>14, <2>1
<1> HIDE DEF C
<1>16. \A b \in 0..N - 1 : \A i \in 1..Len(B[b]) :
         C[b][i] \in 1..l /\ f[C[b][i]] = B[b][i] /\ key[C[b][i]] = keyOf[B[b][i]]
  BY <1>12, <1>14
<1>17. ChainsType(C, N) BY <1>3, <1>15 DEF ChainsType
<1>18. InBucket(C, N, key)
  <2> SUFFICES ASSUME NEW b \in 0..N - 1, NEW i \in 1..Len(C[b])
               PROVE  key[C[b][i]] \in Key /\ BktNum(key[C[b][i]], N) = b
    BY DEF InBucket
  <2>1. i \in 1..Len(B[b]) BY <1>14
  <2>2. keyOf[B[b][i]] \in Key /\ BktNum(keyOf[B[b][i]], N) = b BY <2>1 DEF Chains, InBucket
  <2> QED BY <1>16, <2>1, <2>2
<1>19. Once(C, N)
  <2> SUFFICES ASSUME NEW b \in 0..N - 1, NEW i \in 1..Len(C[b]), NEW j \in 1..Len(C[b]),
                      C[b][i] = C[b][j]
               PROVE  i = j
    BY DEF Once
  <2>1. i \in 1..Len(B[b]) /\ j \in 1..Len(B[b]) BY <1>14
  <2>2. B[b][i] = B[b][j] BY <1>16, <2>1
  <2> QED BY <2>1, <2>2 DEF Chains, Once
<1>20. Together(C, N, key)
  <2> SUFFICES ASSUME NEW b \in 0..N - 1, NEW i \in 1..Len(C[b]), NEW m \in 1..Len(C[b]),
                      NEW j \in 1..Len(C[b]), i < m, m < j, key[C[b][i]] = key[C[b][j]]
               PROVE  key[C[b][m]] = key[C[b][i]]
    BY DEF Together
  <2>1. i \in 1..Len(B[b]) /\ m \in 1..Len(B[b]) /\ j \in 1..Len(B[b]) BY <1>14
  <2>2. keyOf[B[b][i]] = keyOf[B[b][j]] BY <1>16, <2>1
  <2>3. keyOf[B[b][m]] = keyOf[B[b][i]] BY <2>1, <2>2 DEF Chains, Together
  <2> QED BY <1>16, <2>1, <2>3
<1>21. Present(C, N, key)
  <2> SUFFICES ASSUME NEW n \in Node, key[n] \in Key
               PROVE  \E i \in 1..Len(C[BktNum(key[n], N)]) : C[BktNum(key[n], N)][i] = n
    BY DEF Present
  <2> DEFINE b == BktNum(keyOf[f[n]], N)
  <2>1. n \in 1..l /\ key[n] = keyOf[f[n]] /\ f[n] \in Node BY <1>12, <1>13
  <2>2. f[n] \in Used(keyOf) BY <2>1 DEF Used
  <2>3. b \in 0..N - 1 /\ \E i \in 1..Len(B[b]) : B[b][i] = f[n] BY <2>2, PlaceOf
  <2> HIDE DEF b
  <2>4. PICK i \in 1..Len(B[b]) : B[b][i] = f[n] BY <2>3
  <2>5. C[b][i] = n BY <1>9, <1>16, <2>1, <2>3, <2>4
  <2>6. i \in 1..Len(C[b]) BY <1>14, <2>3, <2>4
  <2> QED BY <2>1, <2>5, <2>6 DEF b
<1>22. Chains(C, N, key) BY <1>17, <1>18, <1>19, <1>20, <1>21 DEF Chains
<1>23. Used(key) = 1..l BY <1>12, <1>13 DEF Used
<1>24. Cardinality(1..l) = l
  <2>1. 1 \in Int /\ l \in Int BY <1>4 DEF l
  <2>2. Cardinality(1..l) = IF 1 > l THEN 0 ELSE l - 1 + 1 BY <2>1, FS_Interval
  <2>3. l \in Nat BY <1>4 DEF l
  <2> QED BY <2>2, <2>3
<1>25. ASSUME NEW k \in Key
       PROVE  Cardinality({n \in Node : key[n] = k}) = Cardinality({n \in Node : keyOf[n] = k})
  <2> DEFINE S == {n \in Node : key[n] = k}
             T == {n \in Node : keyOf[n] = k}
             h == [n \in S |-> f[n]]
  <2>1. \A n \in S : n \in 1..l /\ f[n] \in T BY <1>12, <1>13
  <2>2. \A m \in T : \E n \in S : f[n] = m
    <3> SUFFICES ASSUME NEW m \in T PROVE \E n \in S : f[n] = m OBVIOUS
    <3>1. m \in Used(keyOf) BY DEF Used
    <3>2. PICK n \in 1..l : f[n] = m BY <1>10, <3>1 DEF l
    <3>3. n \in S BY <1>12, <3>2
    <3> QED BY <3>2, <3>3
  <2>3. S \subseteq Node OBVIOUS
  <2> HIDE DEF S, T
  <2>4. h \in [S -> T] /\ \A n \in S : h[n] = f[n] BY <2>1
  <2> HIDE DEF h
  <2>5. \A n, m \in S : h[n] = h[m] => n = m BY <1>9, <2>1, <2>4 DEF l
  <2>6. \A m \in T : \E n \in S : h[n] = m BY <2>2, <2>4
  <2>7. h \in Bijection(S, T) BY <2>4, <2>5, <2>6 DEF Bijection, Injection, Surjection, IsInjective
  <2>8. IsFiniteSet(S) BY <2>3, NodeType, FS_Subset
  <2>9. Cardinality(T) = Cardinality(S) BY <2>7, <2>8, FS_Bijection DEF ExistsBijection
  <2> QED BY <2>9 DEF S, T
<1>26. t.num = Cardinality(Used(key)) BY <1>4, <1>23, <1>24 DEF l
<1> QED BY <1>6, <1>22, <1>25, <1>26 DEF key

-----------------------------------------------------------------------------
(* THE STEPS                                                                *)
Loses(C, new, B, N, key, gone) ==
  /\ Chains(C, N, new) /\ Used(new) = Used(key) \ gone
  /\ new \in [Node -> Key \cup {NoKey}]
  /\ \A a, d \in Used(key) \ gone : Behind(B, N, key, a, d) => Behind(C, N, new, a, d)

LEMMA LosesFact ==
  ASSUME NEW B, NEW N, NEW key \in [Node -> Key \cup {NoKey}], Chains(B, N, key), NEW gone, NEW C,
         Thinned(C, B, N, Node \ gone)
  PROVE  Loses(C, KeysIn(key, Node \ gone), B, N, key, gone)
<1> DEFINE S == Node \ gone
           new == KeysIn(key, S)
<1>1. Chains(C, N, new) BY ThinnedKeeps
<1>2. \A n \in Node : new[n] = IF n \in S THEN key[n] ELSE NoKey BY DEF KeysIn
<1>3. new \in [Node -> Key \cup {NoKey}] BY DEF KeysIn
<1>4. Used(new) = Used(key) \ gone BY <1>2, HashTableAssumption DEF Used
<1>5. ASSUME NEW a \in Used(key) \ gone, NEW d \in Used(key) \ gone, Behind(B, N, key, a, d)
      PROVE  Behind(C, N, new, a, d)
  <2>1. a \in S /\ d \in S /\ a \in Used(key) /\ d \in Used(key) BY DEF Used
  <2> HIDE DEF S
  <2> QED BY <1>5, <2>1, ThinnedBehind DEF S
<1> QED BY <1>1, <1>3, <1>4, <1>5 DEF Loses

LEMMA ChainThinned ==
  ASSUME NEW B, NEW N, NEW key, Chains(B, N, key), NEW b \in 0..N - 1, NEW gone,
         \A i \in 0..N - 1 : i # b => \A j \in 1..Len(B[i]) : B[i][j] \notin gone
  PROVE  Thinned([B EXCEPT ![b] = Kept(@, Node \ gone)], B, N, Node \ gone)
<1> DEFINE S == Node \ gone
           C == [B EXCEPT ![b] = Kept(@, S)]
<1>1. B \in [0..N - 1 -> Seq(Node)] BY DEF Chains, ChainsType
<1>2. C = [i \in 0..N - 1 |-> IF i = b THEN Kept(B[b], S) ELSE B[i]] BY <1>1
<1>3. \A i \in 0..N - 1 : \A j \in 1..Len(B[i]) : B[i][j] \in Node
  <2> SUFFICES ASSUME NEW i \in 0..N - 1, NEW j \in 1..Len(B[i]) PROVE B[i][j] \in Node OBVIOUS
  <2>1. B[i] \in Seq(Node) BY <1>1
  <2> QED BY <2>1, ElementOfSeq
<1>4. \A i \in 0..N - 1 : i # b => \A j \in 1..Len(B[i]) : B[i][j] \in S BY <1>3
<1> HIDE DEF S, C
<1>5. ASSUME NEW i \in 0..N - 1
      PROVE  C[i] \in Seq(Node) /\ \E pos : Picks(C[i], B[i], S, pos)
  <2> DEFINE s == B[i]
  <2>1. s \in Seq(Node) BY <1>1
  <2>2. CASE i = b
    <3>1. C[i] = Kept(s, S) BY <1>2, <2>2
    <3> HIDE DEF s
    <3>2. Kept(s, S) \in Seq(Node) /\ \E pos : Picks(Kept(s, S), s, S, pos) BY <2>1, KeptFact
    <3> QED BY <3>1, <3>2 DEF s
  <2>3. CASE i # b
    <3>1. C[i] = s /\ \A j \in 1..Len(s) : s[j] \in S BY <1>2, <1>4, <2>3
    <3> HIDE DEF s
    <3>2. \E pos : Picks(s, s, S, pos) BY <2>1, <3>1, PicksAll
    <3> QED BY <2>1, <3>1, <3>2 DEF s
  <2> QED BY <2>2, <2>3
<1>6. C \in [0..N - 1 -> Seq(Node)]
  <2>1. C = [i \in 0..N - 1 |-> C[i]] BY <1>2
  <2> QED BY <1>5, <2>1
<1>7. Thinned(C, B, N, S) BY <1>5, <1>6 DEF Thinned
<1> QED BY <1>7 DEF C, S

LEMMA DestroyedFact ==
  ASSUME NEW gone
  PROVE  Destroyed(gone) = KeysIn(keyOf, Node \ gone)
<1>1. \A n \in Node : (IF n \in gone THEN NoKey ELSE keyOf[n])
                        = (IF n \in Node \ gone THEN keyOf[n] ELSE NoKey)
  OBVIOUS
<1> QED BY <1>1 DEF Destroyed, KeysIn

TraversalInv ==
  /\ it \in Node \cup {End, None}
  /\ it = End => due = {}
  /\ it \in Node =>
       /\ it \in Used(keyOf)
       /\ \A d \in due : /\ d \in Used(keyOf)
                         /\ Behind(table.buckets, Size(table), keyOf, it, d)

LEMMA Distinct == None \notin Node /\ End \notin Node /\ None # End
BY HashTableAssumption DEF None, End, Node

LEMMA NewTable ==
  ASSUME IsTable(table'), NEW N, Chains(table'.buckets, N, keyOf'),
         table'.num = Cardinality(Used(keyOf')), keyOf' \in [Node -> Key \cup {NoKey}]
  PROVE  TableInv' /\ Size(table') = N
<1>1. Size(table') = N BY OrderFact
<1> QED BY <1>1 DEF TableInv

(* The table that an insertion finds: it may have grown.                    *)
IsGrown(t) ==
  /\ IsTable(t) /\ Chains(t.buckets, Size(t), keyOf) /\ t.num = table.num
  /\ Size(t) = Size(table) => t = table

LEMMA GrownFact ==
  ASSUME TableInv, NEW grow \in BOOLEAN
  PROVE  IsGrown(IF grow THEN Resized(table, table.num + 1) ELSE table)
<1>1. IsTable(table) /\ Chains(table.buckets, Size(table), keyOf) BY DEF TableInv
<1>2. table.num + 1 \in Nat
  <2>1. Cardinality(Used(keyOf)) \in Nat BY <1>1, OrderCounts
  <2> QED BY <2>1 DEF TableInv
<1>3. LET r == Resized(table, table.num + 1)
      IN /\ IsTable(r) /\ Chains(r.buckets, Size(r), keyOf) /\ r.num = table.num
         /\ Size(r) = Size(table) => r = table
  BY <1>1, <1>2, ResizedFact
<1> QED BY <1>1, <1>3 DEF IsGrown

LEMMA KeptStep ==
  ASSUME TableInv, TraversalInv, NEW t, IsGrown(t), table' = t, keyOf' = keyOf, Grown(t)
  PROVE  TableInv' /\ TraversalInv'
<1>1. TableInv' /\ Size(table') = Size(t)
  <2>1. /\ IsTable(table') /\ Chains(table'.buckets, Size(t), keyOf')
        /\ table'.num = Cardinality(Used(keyOf')) /\ keyOf' \in [Node -> Key \cup {NoKey}]
    BY DEF IsGrown, TableInv
  <2> QED BY <2>1, NewTable
<1>2. CASE Size(t) = Size(table)
  <2>1. t = table /\ it' = it /\ due' = due BY <1>2 DEF IsGrown, Grown
  <2> QED BY <1>1, <2>1 DEF TraversalInv
<1>3. CASE Size(t) # Size(table)
  <2>1. it' = None /\ due' = {} BY <1>3 DEF Grown
  <2> QED BY <1>1, <2>1, Distinct DEF TraversalInv
<1> QED BY <1>2, <1>3

LEMMA NewNodeStep ==
  ASSUME TableInv, TraversalInv, NEW t, IsGrown(t), NEW k \in Key, NEW n \in Node,
         keyOf[n] = NoKey, keyOf' = [keyOf EXCEPT ![n] = k], table' = WithNode(t, k, n), Grown(t)
  PROVE  TableInv' /\ TraversalInv'
<1> DEFINE N == Size(t)
           u == WithNode(t, k, n)
           new == [keyOf EXCEPT ![n] = k]
<1>1. Chains(t.buckets, N, keyOf) /\ t.num = table.num BY DEF IsGrown
<1>2. keyOf \in [Node -> Key \cup {NoKey}] /\ table.num = Cardinality(Used(keyOf)) BY DEF TableInv
<1> HIDE DEF N
<1>3. IsTable(u) /\ u.num = t.num + 1 /\ Enters(u.buckets, new, t.buckets, N, keyOf, n)
  BY <1>1, <1>2, WithNodeFact
<1>4. table' = u /\ keyOf' = new OBVIOUS
<1> HIDE DEF u, new
<1>5. /\ Chains(u.buckets, N, new) /\ Used(new) = Used(keyOf) \cup {n} /\ n \notin Used(keyOf)
      /\ \A a, d \in Used(keyOf) :
           Behind(t.buckets, N, keyOf, a, d) => Behind(u.buckets, N, new, a, d)
  BY <1>3 DEF Enters
<1>6. Cardinality(Used(new)) = Cardinality(Used(keyOf)) + 1
  <2>1. IsFiniteSet(Used(keyOf)) BY <1>1, OrderCounts
  <2> QED BY <1>5, <2>1, FS_AddElement
<1>7. new \in [Node -> Key \cup {NoKey}] BY <1>2 DEF new
<1>8. TableInv' /\ Size(table') = N
  <2>1. /\ IsTable(table') /\ Chains(table'.buckets, N, keyOf')
        /\ table'.num = Cardinality(Used(keyOf')) /\ keyOf' \in [Node -> Key \cup {NoKey}]
    BY <1>1, <1>2, <1>3, <1>4, <1>5, <1>6, <1>7
  <2> QED BY <2>1, NewTable
<1>9. CASE Size(t) = Size(table)
  <2>1. t = table /\ it' = it /\ due' = due BY <1>9 DEF IsGrown, Grown
  <2>2. it \in Node \cup {End, None} /\ (it = End => due = {}) BY DEF TraversalInv
  <2>3. ASSUME it \in Node
        PROVE  /\ it \in Used(keyOf')
               /\ \A d \in due : d \in Used(keyOf') /\ Behind(table'.buckets, N, keyOf', it, d)
    <3>1. it \in Used(keyOf) /\ \A d \in due : d \in Used(keyOf) /\ Behind(t.buckets, N, keyOf, it, d)
      BY <2>1, <2>3 DEF TraversalInv, N
    <3> QED BY <1>4, <1>5, <3>1
  <2> QED BY <1>8, <2>1, <2>2, <2>3 DEF TraversalInv
<1>10. CASE Size(t) # Size(table)
  <2>1. it' = None /\ due' = {} BY <1>10 DEF Grown
  <2> QED BY <1>8, <2>1, Distinct DEF TraversalInv
<1> QED BY <1>8, <1>9, <1>10

LEMMA UsedFinite ==
  ASSUME NEW key
  PROVE  IsFiniteSet(Used(key))
<1>1. Used(key) \in SUBSET Node BY DEF Used
<1> QED BY <1>1, NodeType, FS_Subset

LEMMA Difference ==
  ASSUME NEW U, IsFiniteSet(U), NEW V \in SUBSET U
  PROVE  Cardinality(U \ V) = Cardinality(U) - Cardinality(V)
<1> DEFINE W == U \ V
<1>1. W \in SUBSET U /\ W \cup V = U /\ W \cap V = {} OBVIOUS
<1> HIDE DEF W
<1>2. IsFiniteSet(V) /\ IsFiniteSet(W) BY <1>1, FS_Subset
<1>3. Cardinality(W \cup V) = Cardinality(W) + Cardinality(V) - Cardinality(W \cap V)
  BY <1>2, FS_Union
<1>4. Cardinality(V) \in Nat BY <1>2, FS_CardinalityType
<1>5. Cardinality(W) \in Nat BY <1>2, FS_CardinalityType
<1>6. Cardinality({}) = 0 BY FS_EmptySet
<1>7. Cardinality(W \cup V) = Cardinality(U) BY <1>1
<1>8. Cardinality(W \cap V) = 0 BY <1>1, <1>6
<1> DEFINE u == Cardinality(U)
           v == Cardinality(V)
           w == Cardinality(W)
<1>9. u = w + v - 0 /\ v \in Nat /\ w \in Nat BY <1>3, <1>4, <1>5, <1>7, <1>8
<1> HIDE DEF u, v, w
<1>10. w = u - v BY <1>9
<1> QED BY <1>10 DEF W, u, v, w

(* The table without gone.                                                  *)
LEMMA LosesTable ==
  ASSUME TableInv, NEW C, NEW m, NEW gone, gone \subseteq Used(keyOf),
         Thinned(C, table.buckets, Size(table), Node \ gone),
         table' = [buckets |-> C, num |-> m], keyOf' = Destroyed(gone),
         m = table.num - Cardinality(gone)
  PROVE  /\ TableInv' /\ Size(table') = Size(table)
         /\ Loses(table'.buckets, keyOf', table.buckets, Size(table), keyOf, gone)
<1> DEFINE N == Size(table)
           B == table.buckets
           S == Node \ gone
<1>1. /\ Chains(B, N, keyOf) /\ keyOf \in [Node -> Key \cup {NoKey}]
      /\ table.num = Cardinality(Used(keyOf))
  BY DEF TableInv
<1>2. keyOf' = KeysIn(keyOf, S) BY DestroyedFact
<1> HIDE DEF N, B
<1>3. Thinned(C, B, N, Node \ gone) BY DEF B, N
<1>4. Loses(C, KeysIn(keyOf, S), B, N, keyOf, gone) BY <1>1, <1>3, LosesFact
<1> HIDE DEF S
<1>5. table'.buckets = C /\ table'.num = m /\ IsTable(table') BY DEF IsTable
<1>6. Loses(table'.buckets, keyOf', B, N, keyOf, gone) BY <1>2, <1>4, <1>5
<1>7. Cardinality(Used(keyOf')) = Cardinality(Used(keyOf)) - Cardinality(gone)
  <2>1. Used(keyOf') = Used(keyOf) \ gone BY <1>6 DEF Loses
  <2>2. IsFiniteSet(Used(keyOf)) BY UsedFinite
  <2> QED BY <2>1, <2>2, Difference
<1>8. TableInv' /\ Size(table') = N
  <2>1. /\ IsTable(table') /\ Chains(table'.buckets, N, keyOf')
        /\ table'.num = Cardinality(Used(keyOf')) /\ keyOf' \in [Node -> Key \cup {NoKey}]
    BY <1>1, <1>5, <1>6, <1>7 DEF Loses
  <2> QED BY <2>1, NewTable
<1> QED BY <1>6, <1>8 DEF N, B

LEMMA WithoutStep ==
  ASSUME TableInv, TraversalInv, TableInv', NEW gone, Size(table') = Size(table), Without(gone),
         Loses(table'.buckets, keyOf', table.buckets, Size(table), keyOf, gone)
  PROVE  TraversalInv'
<1>1. it' = (IF it \in gone THEN None ELSE it) /\ due' = due \ gone BY DEF Without
<1>2. CASE it \in gone BY <1>1, <1>2, Distinct DEF TraversalInv
<1>3. CASE it \notin gone
  <2>1. it' = it BY <1>1, <1>3
  <2>2. it \in Node \cup {End, None} /\ (it = End => due = {}) BY DEF TraversalInv
  <2>3. ASSUME it \in Node
        PROVE  /\ it \in Used(keyOf')
               /\ \A d \in due \ gone :
                    d \in Used(keyOf') /\ Behind(table'.buckets, Size(table'), keyOf', it, d)
    <3>1. it \in Used(keyOf) \ gone
          /\ \A d \in due : d \in Used(keyOf) /\ Behind(table.buckets, Size(table), keyOf, it, d)
      BY <1>3, <2>3 DEF TraversalInv
    <3> QED BY <3>1 DEF Loses
  <2> QED BY <1>1, <2>1, <2>2, <2>3 DEF TraversalInv
<1> QED BY <1>2, <1>3

LEMMA TableFacts ==
  ASSUME TableInv
  PROVE  /\ Chains(table.buckets, Size(table), keyOf) /\ IsTable(table)
         /\ keyOf \in [Node -> Key \cup {NoKey}]
         /\ table.num = Cardinality(Used(keyOf)) /\ table.num = Len(Order(table)) /\ table.num \in Nat
         /\ Size(table) \in Nat \ {0} /\ Nodes(table) = Used(keyOf)
<1>1. Chains(table.buckets, Size(table), keyOf) BY DEF TableInv
<1>2. /\ Nodes(table) = Used(keyOf) /\ Len(Order(table)) = Cardinality(Used(keyOf))
      /\ IsFiniteSet(Used(keyOf)) /\ Cardinality(Used(keyOf)) \in Nat
  BY <1>1, OrderCounts
<1> QED BY <1>1, <1>2 DEF TableInv, Chains, ChainsType

LEMMA EraseKeyFact ==
  ASSUME TableInv, NEW k \in Key
  PROVE  {n \in Range(Chain(table, k)) : keyOf[n] = k} = {n \in Node : keyOf[n] = k}
<1> DEFINE chain == Chain(table, k)
<1>1. Chains(table.buckets, Size(table), keyOf) BY DEF TableInv
<1>2. IsChainOf(chain, table, Size(table), keyOf, k) BY <1>1, ChainFact
<1> HIDE DEF chain
<1>3. /\ chain \in Seq(Node)
      /\ \A n \in Node : keyOf[n] = k => \E j \in 1..Len(chain) : chain[j] = n
  BY <1>2 DEF IsChainOf
<1>4. Range(chain) = {chain[j] : j \in 1..Len(chain)} BY <1>3, RangeEquality
<1>5. \A j \in 1..Len(chain) : chain[j] \in Node BY <1>3, ElementOfSeq
<1> QED BY <1>3, <1>4, <1>5 DEF chain

LEMMA EraseKeyStep ==
  ASSUME TableInv, TraversalInv, NEW k \in Key, EraseKey(k)
  PROVE  TableInv' /\ TraversalInv'
<1> DEFINE gone == {n \in Node : keyOf[n] = k}
           N == Size(table)
           B == table.buckets
           b == BktNum(k, N)
           C == [B EXCEPT ![b] = Kept(@, Node \ gone)]
           m == table.num - Cardinality(gone)
<1>1. table' = [buckets |-> C, num |-> m] /\ Without(gone) BY EraseKeyFact DEF EraseKey
<1>2. Chains(B, N, keyOf) /\ N \in Nat \ {0} BY TableFacts
<1>3. b \in 0..N - 1
  <2>1. k \in Nat BY HashTableAssumption
  <2> HIDE DEF N
  <2> QED BY <1>2, <2>1, ModRange
<1>4. \A i \in 0..N - 1 : i # b => \A j \in 1..Len(B[i]) : B[i][j] \notin gone
  BY <1>2 DEF Chains, InBucket
<1>5. gone \subseteq Used(keyOf) BY DEF Used
<1> HIDE DEF gone
<1>6. Thinned(C, B, N, Node \ gone)
  <2> HIDE DEF N, B, b
  <2> QED BY <1>2, <1>3, <1>4, ChainThinned
<1>7. keyOf' = Destroyed(gone) BY <1>1 DEF Without
<1> HIDE DEF C
<1>8. /\ TableInv' /\ Size(table') = Size(table)
      /\ Loses(table'.buckets, keyOf', table.buckets, Size(table), keyOf, gone)
  BY <1>1, <1>5, <1>6, <1>7, LosesTable
<1> QED BY <1>1, <1>8, WithoutStep

LEMMA EraseRangeFact ==
  ASSUME TableInv, NEW i \in 1..table.num, NEW j \in i + 1..table.num + 1, EraseRange(i, j)
  PROVE  LET gone == Gone(Order(table), i, j)
         IN /\ gone \subseteq Used(keyOf) /\ Without(gone)
            /\ TableInv' /\ Size(table') = Size(table)
            /\ Loses(table'.buckets, keyOf', table.buckets, Size(table), keyOf, gone)
<1> DEFINE f == Order(table)
           gone == Gone(f, i, j)
           N == Size(table)
           B == table.buckets
           S == Node \ gone
           last == IF j > Len(f) THEN End ELSE f[j]
           C == ErasedBuckets(table, f[i], last)
           left == FlattenSeq([b \in 1..N |-> C[b - 1]])
<1>1. /\ Chains(B, N, keyOf) /\ N \in Nat \ {0} /\ keyOf \in [Node -> Key \cup {NoKey}]
      /\ table.num = Cardinality(Used(keyOf)) /\ table.num = Len(f) /\ table.num \in Nat
      /\ Nodes(table) = Used(keyOf)
  BY TableFacts
<1>2. /\ table' = [buckets |-> C, num |-> table.num - (Len(f) - Len(left))]
      /\ Without(Nodes(table) \ Range(left))
  BY DEF EraseRange
<1>3. i \in 1..Len(f) /\ j \in i + 1..Len(f) + 1 BY <1>1
<1>4. Thinned(C, B, N, S)
  <2> HIDE DEF N, C, S, last
  <2>1. last = IF j > Len(f) THEN End ELSE f[j] BY DEF last
  <2> HIDE DEF f
  <2>2. f = Order(table) BY DEF f
  <2>3. Chains(table.buckets, N, keyOf) BY <1>1
  <2>4. Thinned(ErasedBuckets(table, f[i], last), table.buckets, N, Node \ Gone(f, i, j))
    BY <1>3, <2>1, <2>2, <2>3, ErasedFact
  <2> QED BY <2>4 DEF C, S, f
<1>5. gone \subseteq Used(keyOf)
  <2>1. f \in Seq(Node) BY <1>1, OrderFact
  <2>2. Range(f) = Used(keyOf) BY <1>1 DEF Nodes
  <2> HIDE DEF f
  <2>3. Range(f) = {f[x] : x \in 1..Len(f)} BY <2>1, RangeEquality
  <2>4. \A x \in i..j - 1 : x \in 1..Len(f) BY <1>1, <1>3
  <2> QED BY <2>2, <2>3, <2>4 DEF Gone
<1> HIDE DEF gone, f, C, B, N
<1>6. Loses(C, KeysIn(keyOf, S), B, N, keyOf, gone) BY <1>1, <1>4, LosesFact
<1> DEFINE key == KeysIn(keyOf, S)
           u == [buckets |-> C, num |-> 0]
<1>7. u.buckets = C OBVIOUS
<1> HIDE DEF key, u
<1>8. Chains(u.buckets, N, key) /\ Used(key) = Used(keyOf) \ gone BY <1>6, <1>7 DEF Loses, key
<1>9. Size(u) = N BY <1>8, OrderFact
<1>10. left = Order(u) BY <1>7, <1>9 DEF Order
<1> HIDE DEF left
<1>11. Nodes(u) = Used(key) /\ Len(Order(u)) = Cardinality(Used(key)) BY <1>8, OrderCounts
<1>12. Range(left) = Used(keyOf) \ gone /\ Len(left) = Cardinality(Used(keyOf) \ gone)
  BY <1>8, <1>10, <1>11 DEF Nodes
<1>13. Nodes(table) \ Range(left) = gone BY <1>1, <1>5, <1>12
<1>14. Len(left) = Cardinality(Used(keyOf)) - Cardinality(gone)
  <2>1. IsFiniteSet(Used(keyOf)) /\ gone \in SUBSET Used(keyOf) BY <1>5, UsedFinite
  <2> QED BY <1>12, <2>1, Difference
<1>15. Cardinality(gone) \in Nat
  <2>1. IsFiniteSet(gone) BY <1>5, UsedFinite, FS_Subset
  <2> QED BY <2>1, FS_CardinalityType
<1>16. table.num - (Len(f) - Len(left)) = table.num - Cardinality(gone)
  <2> DEFINE num == table.num
             l == Len(left)
             g == Cardinality(gone)
  <2>1. num = Len(f) /\ num \in Nat /\ l = num - g /\ g \in Nat BY <1>1, <1>14, <1>15
  <2> HIDE DEF num, l, g
  <2>2. num - (num - l) = num - g BY ONLY <2>1
  <2> QED BY <2>1, <2>2 DEF num, l, g
<1>17. Without(gone) BY <1>2, <1>13
<1>18. keyOf' = Destroyed(gone) BY <1>17 DEF Without
<1> DEFINE m == table.num - Cardinality(gone)
<1>19. table' = [buckets |-> C, num |-> m] BY <1>2, <1>16
<1>20. Thinned(C, table.buckets, Size(table), Node \ gone) BY <1>4 DEF B, N
<1>21. /\ TableInv' /\ Size(table') = Size(table)
       /\ Loses(table'.buckets, keyOf', table.buckets, Size(table), keyOf, gone)
  BY <1>5, <1>18, <1>19, <1>20, LosesTable
<1> QED BY <1>5, <1>17, <1>21 DEF gone, f

LEMMA EraseRangeStep ==
  ASSUME TableInv, TraversalInv, NEW i \in 1..table.num, NEW j \in i + 1..table.num + 1,
         EraseRange(i, j)
  PROVE  TableInv' /\ TraversalInv'
<1> DEFINE gone == Gone(Order(table), i, j)
<1>1. /\ Without(gone) /\ TableInv' /\ Size(table') = Size(table)
      /\ Loses(table'.buckets, keyOf', table.buckets, Size(table), keyOf, gone)
  BY EraseRangeFact
<1> HIDE DEF gone
<1> QED BY <1>1, WithoutStep

(* The client erases where it stands and goes on to the node behind it.     *)
LEMMA EraseHereStep ==
  ASSUME TableInv, TraversalInv, EraseHere
  PROVE  TableInv' /\ TraversalInv'
<1> DEFINE gone == {it}
           N == Size(table)
           B == table.buckets
           b == BktNum(keyOf[it], N)
           C == [B EXCEPT ![b] = Kept(@, Node \ gone)]
           m == table.num - 1
<1>1. /\ it \in Node /\ table' = [buckets |-> C, num |-> m]
      /\ it' = After(table, it) /\ due' = due \ {it, it'} /\ keyOf' = Destroyed(gone)
  BY DEF EraseHere
<1>2. Chains(B, N, keyOf) /\ N \in Nat \ {0} BY TableFacts
<1>3. it \in Used(keyOf) /\ gone \subseteq Used(keyOf) BY <1>1 DEF TraversalInv
<1>4. b \in 0..N - 1
  <2> HIDE DEF N, B
  <2> QED BY <1>2, <1>3, PlaceOf
<1>5. \A i \in 0..N - 1 : i # b => \A j \in 1..Len(B[i]) : B[i][j] \notin gone
  BY <1>2 DEF Chains, InBucket
<1>6. Thinned(C, B, N, Node \ gone)
  <2> HIDE DEF N, B, b, gone
  <2> QED BY <1>2, <1>4, <1>5, ChainThinned
<1>7. m = table.num - Cardinality(gone) BY FS_Singleton
<1> HIDE DEF C, m
<1>8. /\ TableInv' /\ Size(table') = N
      /\ Loses(table'.buckets, keyOf', B, N, keyOf, gone)
  BY <1>1, <1>3, <1>6, <1>7, LosesTable
<1>9. IsAfter(it', B, N, keyOf, it)
  <2> HIDE DEF N
  <2> QED BY <1>1, <1>2, <1>3, AfterFact
<1>10. ~Behind(B, N, keyOf, it, it)
  <2> HIDE DEF B, N
  <2> QED BY <1>2, <1>3, NotBehindItself
<1>11. \A d \in due : d \in Used(keyOf) /\ Behind(B, N, keyOf, it, d)
  BY <1>1 DEF TraversalInv
<1> HIDE DEF B, N, b
<1>12. CASE it' = End /\ \A d \in Used(keyOf) : ~Behind(B, N, keyOf, it, d)
  <2>1. due = {} BY <1>11, <1>12
  <2> QED BY <1>1, <1>8, <1>12, <2>1, Distinct DEF TraversalInv
<1>13. CASE /\ it' \in Used(keyOf) /\ Behind(B, N, keyOf, it, it')
            /\ \A d \in Used(keyOf) :
                 Behind(B, N, keyOf, it, d) /\ d # it' => Behind(B, N, keyOf, it', d)
  <2>1. it' # it BY <1>10, <1>13
  <2>2. it' \in Used(keyOf) \ gone BY <1>13, <2>1
  <2>3. it' \in Used(keyOf') /\ it' \in Node BY <1>8, <2>2 DEF Loses, Used
  <2>4. ASSUME NEW d \in due'
        PROVE  d \in Used(keyOf') /\ Behind(table'.buckets, N, keyOf', it', d)
    <3>1. d \in due /\ d # it /\ d # it' BY <1>1
    <3>2. d \in Used(keyOf) \ gone /\ Behind(B, N, keyOf, it', d) BY <1>11, <1>13, <3>1
    <3> QED BY <1>8, <2>2, <3>2 DEF Loses
  <2> QED BY <1>8, <2>3, <2>4, Distinct DEF TraversalInv
<1> QED BY <1>8, <1>9, <1>12, <1>13 DEF IsAfter

(* Clear, and a copy that throws.                                           *)
LEMMA EmptyStep ==
  ASSUME TableInv, table' = [buckets |-> Buckets(Size(table)), num |-> 0],
         keyOf' = Destroyed(Node), it' = None, due' = {}
  PROVE  TableInv' /\ TraversalInv'
<1> DEFINE N == Size(table)
           B == Buckets(N)
<1>1. N \in Nat \ {0} BY TableFacts
<1>2. keyOf' = [n \in Node |-> NoKey] BY DEF Destroyed
<1>3. Used(keyOf') = {} BY <1>2, HashTableAssumption DEF Used
<1> HIDE DEF N
<1>4. Chains(B, N, keyOf') BY <1>1, <1>3, EmptyChains
<1>5. table'.buckets = B /\ table'.num = 0 /\ IsTable(table') BY DEF IsTable, N
<1>6. Cardinality(Used(keyOf')) = 0 BY <1>3, FS_EmptySet
<1>7. keyOf' \in [Node -> Key \cup {NoKey}] BY <1>2
<1> HIDE DEF B
<1>8. TableInv' BY <1>4, <1>5, <1>6, <1>7, NewTable
<1> QED BY <1>8, Distinct DEF TraversalInv

LEMMA AssignStep ==
  ASSUME TableInv, Assign
  PROVE  TableInv' /\ TraversalInv'
<1>1. it' = None /\ due' = {} BY DEF Assign
<1>2. CASE table' = [buckets |-> Buckets(Size(table)), num |-> 0] /\ keyOf' = Destroyed(Node)
  BY <1>1, <1>2, EmptyStep
<1>3. CASE /\ table' = CopyOf(table)
           /\ keyOf' = [n \in Node |-> IF n <= table.num THEN keyOf[Order(table)[n]] ELSE NoKey]
  <2> DEFINE N == Size(table)
  <2>1. /\ Chains(table.buckets, N, keyOf) /\ IsTable(table)
        /\ table.num = Cardinality(Used(keyOf)) /\ table.num = Len(Order(table))
        /\ keyOf \in [Node -> Key \cup {NoKey}]
    BY TableFacts
  <2>2. keyOf' = KeysOfCopy(table) BY <1>3 DEF KeysOfCopy
  <2> HIDE DEF N
  <2>3. /\ IsTable(CopyOf(table)) /\ CopyOf(table).num = table.num
        /\ Chains(CopyOf(table).buckets, N, KeysOfCopy(table))
        /\ table.num = Cardinality(Used(KeysOfCopy(table)))
    BY <2>1, CopyFact
  <2>4. keyOf' \in [Node -> Key \cup {NoKey}]
    <3> DEFINE f == Order(table)
    <3>1. f \in Seq(Node) BY <2>1, OrderFact
    <3>2. table.num = Len(f) BY <2>1
    <3>3. keyOf' = [n \in Node |-> IF n <= table.num THEN keyOf[f[n]] ELSE NoKey] BY <1>3
    <3> HIDE DEF f
    <3>4. \A n \in 1..Len(f) : f[n] \in Node BY <3>1, ElementOfSeq
    <3>5. \A n \in Node : n <= table.num => keyOf[f[n]] \in Key \cup {NoKey}
      <4>1. \A n \in Node : n \in Nat /\ n >= 1 BY HashTableAssumption DEF Node
      <4>2. Len(f) \in Nat BY <3>1, LenProperties
      <4>3. \A n \in Node : n <= table.num => n \in 1..Len(f) BY <3>2, <4>1, <4>2
      <4> QED BY <2>1, <3>4, <4>3
    <3> QED BY <3>3, <3>5
  <2>5. TableInv' BY <1>3, <2>2, <2>3, <2>4, NewTable
  <2> QED BY <1>1, <2>5, Distinct DEF TraversalInv
<1> QED BY <1>2, <1>3 DEF Assign

LEMMA BeginStep ==
  ASSUME TableInv, Begin
  PROVE  TableInv' /\ TraversalInv'
<1> DEFINE N == Size(table)
           B == table.buckets
<1>1. it' = FirstFrom(table, 0) /\ due' = Used(keyOf) \ {it'} /\ table' = table /\ keyOf' = keyOf
  BY TableFacts DEF Begin
<1>2. Chains(B, N, keyOf) BY TableFacts
<1>3. TableInv' BY <1>1 DEF TableInv
<1>4. IsFirstFrom(it', B, N, keyOf, 0)
  <2> HIDE DEF N
  <2> QED BY <1>1, <1>2, FirstFromFact
<1>5. \A d \in Used(keyOf) : BktNum(keyOf[d], N) >= 0
  <2> HIDE DEF B, N
  <2> QED BY <1>2, PlaceOf
<1> HIDE DEF B, N
<1>6. CASE it' = End /\ \A d \in Used(keyOf) : ~(BktNum(keyOf[d], N) >= 0)
  <2>1. Used(keyOf) = {} BY <1>5, <1>6
  <2> QED BY <1>1, <1>3, <1>6, <2>1, Distinct DEF TraversalInv
<1>7. CASE /\ it' \in Used(keyOf)
           /\ \A d \in Used(keyOf) :
                BktNum(keyOf[d], N) >= 0 /\ d # it' => Behind(B, N, keyOf, it', d)
  <2>1. it' \in Node BY <1>7 DEF Used
  <2>2. \A d \in due' : d \in Used(keyOf) /\ Behind(B, N, keyOf, it', d) BY <1>1, <1>5, <1>7
  <2> QED BY <1>1, <1>3, <1>7, <2>1, <2>2, Distinct DEF TraversalInv, B, N
<1> QED BY <1>4, <1>6, <1>7 DEF IsFirstFrom

LEMMA AdvanceStep ==
  ASSUME TableInv, TraversalInv, Advance
  PROVE  TableInv' /\ TraversalInv'
<1> DEFINE N == Size(table)
           B == table.buckets
<1>1. /\ it \in Node /\ it' = After(table, it) /\ due' = due \ {it'}
      /\ table' = table /\ keyOf' = keyOf
  BY DEF Advance
<1>2. Chains(B, N, keyOf) BY TableFacts
<1>3. TableInv' BY <1>1 DEF TableInv
<1>4. it \in Used(keyOf) /\ \A d \in due : d \in Used(keyOf) /\ Behind(B, N, keyOf, it, d)
  BY <1>1 DEF TraversalInv
<1>5. IsAfter(it', B, N, keyOf, it)
  <2> HIDE DEF N
  <2> QED BY <1>1, <1>2, <1>4, AfterFact
<1> HIDE DEF B, N
<1>6. CASE it' = End /\ \A d \in Used(keyOf) : ~Behind(B, N, keyOf, it, d)
  <2>1. due = {} BY <1>4, <1>6
  <2> QED BY <1>1, <1>3, <1>6, <2>1, Distinct DEF TraversalInv
<1>7. CASE /\ it' \in Used(keyOf)
           /\ \A d \in Used(keyOf) :
                Behind(B, N, keyOf, it, d) /\ d # it' => Behind(B, N, keyOf, it', d)
  <2>1. it' \in Node BY <1>7 DEF Used
  <2>2. \A d \in due' : d \in Used(keyOf) /\ Behind(B, N, keyOf, it', d) BY <1>1, <1>4, <1>7
  <2> QED BY <1>1, <1>3, <1>7, <2>1, <2>2, Distinct DEF TraversalInv, B, N
<1> QED BY <1>5, <1>6, <1>7 DEF IsAfter

(* A new node in a table that may have grown, or the table that threw.      *)
LEMMA NewStep ==
  ASSUME TableInv, TraversalInv, NEW k \in Key, NEW t, IsGrown(t), NewNode(t, k), Grown(t)
  PROVE  TableInv' /\ TraversalInv'
<1>1. CASE \E n \in Node : /\ keyOf[n] = NoKey /\ keyOf' = [keyOf EXCEPT ![n] = k]
                           /\ table' = WithNode(t, k, n)
  BY <1>1, NewNodeStep
<1>2. CASE table' = t /\ keyOf' = keyOf BY <1>2, KeptStep
<1> QED BY <1>1, <1>2 DEF NewNode

LEMMA InsertStep ==
  ASSUME TableInv, TraversalInv, NEW k \in Key, NEW grow \in BOOLEAN,
         InsertUnique(k, grow) \/ InsertEqual(k, grow)
  PROVE  TableInv' /\ TraversalInv'
<1> DEFINE t == IF grow THEN Resized(table, table.num + 1) ELSE table
<1>1. IsGrown(t) BY GrownFact
<1>2. Grown(t) /\ ((table' = t /\ keyOf' = keyOf) \/ NewNode(t, k))
  BY DEF InsertUnique, InsertEqual
<1> HIDE DEF t
<1>3. CASE table' = t /\ keyOf' = keyOf BY <1>1, <1>2, <1>3, KeptStep
<1>4. CASE NewNode(t, k) BY <1>1, <1>2, <1>4, NewStep
<1> QED BY <1>2, <1>3, <1>4

LEMMA InitHolds == Init => TableInv /\ TraversalInv
<1> SUFFICES ASSUME Init PROVE TableInv /\ TraversalInv OBVIOUS
<1> DEFINE one == 1
           N == __stl_next_prime(one)
           B == Buckets(N)
<1>1. table = [buckets |-> B, num |-> 0] /\ keyOf = [n \in Node |-> NoKey] BY DEF Init, Empty
<1>2. it = None /\ due = {} BY DEF Init
<1>3. one \in Nat OBVIOUS
<1> HIDE DEF one
<1>4. N \in Nat \ {0} BY <1>3, PrimeFact
<1> HIDE DEF N
<1>5. Used(keyOf) = {} BY <1>1, HashTableAssumption DEF Used
<1>6. Chains(B, N, keyOf) BY <1>4, <1>5, EmptyChains
<1>7. table.buckets = B /\ table.num = 0 /\ IsTable(table) BY <1>1 DEF IsTable
<1>8. Cardinality(Used(keyOf)) = 0 BY <1>5, FS_EmptySet
<1>9. keyOf \in [Node -> Key \cup {NoKey}] BY <1>1
<1> HIDE DEF B
<1>10. Size(table) = N BY <1>6, <1>7, OrderFact
<1> QED BY <1>2, <1>6, <1>7, <1>8, <1>9, <1>10, Distinct DEF TableInv, TraversalInv

LEMMA StepHolds == TableInv /\ TraversalInv /\ [Next]_vars => TableInv' /\ TraversalInv'
<1> SUFFICES ASSUME TableInv, TraversalInv, [Next]_vars PROVE TableInv' /\ TraversalInv'
  OBVIOUS
<1>1. ASSUME NEW k \in Key, NEW grow \in BOOLEAN, InsertUnique(k, grow) \/ InsertEqual(k, grow)
      PROVE  TableInv' /\ TraversalInv'
  BY <1>1, InsertStep
<1>2. ASSUME NEW k \in Key, FindOrInsert(k) PROVE TableInv' /\ TraversalInv'
  BY <1>2, InsertStep DEF FindOrInsert
<1>3. ASSUME NEW k \in Key, EraseKey(k) PROVE TableInv' /\ TraversalInv'
  BY <1>3, EraseKeyStep
<1>4. ASSUME NEW i \in 1..table.num, NEW j \in i + 1..table.num + 1, EraseRange(i, j)
      PROVE  TableInv' /\ TraversalInv'
  BY <1>4, EraseRangeStep
<1>5. CASE EraseHere BY <1>5, EraseHereStep
<1>6. CASE Clear BY <1>6, EmptyStep DEF Clear
<1>7. CASE Assign BY <1>7, AssignStep
<1>8. CASE Begin BY <1>8, BeginStep
<1>9. CASE Advance BY <1>9, AdvanceStep
<1>10. CASE UNCHANGED vars
  <2>1. table' = table /\ keyOf' = keyOf /\ it' = it /\ due' = due BY <1>10 DEF vars
  <2>2. TableInv' BY <2>1 DEF TableInv
  <2>3. TraversalInv' BY <2>1 DEF TraversalInv
  <2> QED BY <2>2, <2>3
<1> QED BY <1>1, <1>2, <1>3, <1>4, <1>5, <1>6, <1>7, <1>8, <1>9, <1>10 DEF Next

LEMMA TableHolds == Spec => [](TableInv /\ TraversalInv)
<1>1. Init => TableInv /\ TraversalInv BY InitHolds
<1>2. (TableInv /\ TraversalInv) /\ [Next]_vars => (TableInv /\ TraversalInv)' BY StepHolds
<1> QED BY <1>1, <1>2, PTL DEF Spec

(* Whatever a table of any size went through, growing, cutting ranges out   *)
(* across buckets, copying itself: every node is in the table once, and     *)
(* find, count, equal_range and size look where the elements are.           *)
THEOREM QueriesAlwaysAgree == Spec => []QueriesAgree
<1>1. TableInv /\ TraversalInv => QueriesAgree BY TableAgrees
<1> QED BY <1>1, TableHolds, PTL

(* A traversal that erases where it stands, while others insert and erase   *)
(* and the table does not grow, meets every element that stays.             *)
THEOREM TraversalsAreComplete == Spec => []TraversalIsComplete
<1>1. TableInv /\ TraversalInv => TraversalIsComplete BY DEF TraversalInv, TraversalIsComplete
<1> QED BY <1>1, TableHolds, PTL

-----------------------------------------------------------------------------
(* THE MULTISET                                                             *)
Holding(key, k) == {n \in Node : key[n] = k}

LEMMA HoldingFact ==
  ASSUME NEW key, NEW k
  PROVE  IsFiniteSet(Holding(key, k)) /\ Cardinality(Holding(key, k)) \in Nat
<1>1. Holding(key, k) \in SUBSET Node BY DEF Holding
<1>2. IsFiniteSet(Holding(key, k)) BY <1>1, NodeType, FS_Subset
<1> QED BY <1>2, FS_CardinalityType

LEMMA ContentIs ==
  /\ content = [k \in Key |-> Cardinality(Holding(keyOf, k))]
  /\ content' = [k \in Key |-> Cardinality(Holding(keyOf', k))]
BY DEF content, Holding

LEMMA SameContent ==
  ASSUME \A k \in Key : Cardinality(Holding(keyOf', k)) = Cardinality(Holding(keyOf, k))
  PROVE  content' = content
BY ContentIs

LEMMA InsertRefines ==
  ASSUME TableInv, NEW k \in Key, NEW n \in Node, keyOf[n] = NoKey,
         keyOf' = [keyOf EXCEPT ![n] = k], result' = Says("inserted")
  PROVE  Promise!Insert(k)
<1>1. keyOf \in [Node -> Key \cup {NoKey}] BY DEF TableInv
<1>2. \A m \in Node : keyOf'[m] = IF m = n THEN k ELSE keyOf[m] BY <1>1
<1>3. k # NoKey BY HashTableAssumption
<1>4. Holding(keyOf', k) = Holding(keyOf, k) \cup {n} /\ n \notin Holding(keyOf, k)
  BY <1>2, <1>3 DEF Holding
<1>5. \A kk \in Key \ {k} : Holding(keyOf', kk) = Holding(keyOf, kk)
  BY <1>2, HashTableAssumption DEF Holding
<1>6. Cardinality(Holding(keyOf', k)) = Cardinality(Holding(keyOf, k)) + 1
  <2>1. IsFiniteSet(Holding(keyOf, k)) BY HoldingFact
  <2> QED BY <1>4, <2>1, FS_AddElement
<1>7. content' = [content EXCEPT ![k] = @ + 1] BY <1>5, <1>6, ContentIs
<1> QED BY <1>7 DEF Promise!Insert, Promise!Says, Says

LEMMA ThereRefines ==
  ASSUME NEW k \in Key, NEW t, IsGrown(t), Find(t, k) # End, keyOf' = keyOf,
         result' = Says("there")
  PROVE  Promise!Find(k)
<1> DEFINE N == Size(t)
           all == {n \in Node : keyOf[n] = k}
<1>1. Chains(t.buckets, N, keyOf) BY DEF IsGrown
<1> HIDE DEF N
<1>2. Find(t, k) \in IF all = {} THEN {End} ELSE all BY <1>1, FindFact
<1>3. Holding(keyOf, k) # {} BY <1>2 DEF Holding
<1>4. Cardinality(Holding(keyOf, k)) > 0
  <2>1. IsFiniteSet(Holding(keyOf, k)) /\ Cardinality(Holding(keyOf, k)) \in Nat BY HoldingFact
  <2>2. Cardinality(Holding(keyOf, k)) # 0 BY <1>3, <2>1, FS_EmptySet
  <2> QED BY <2>1, <2>2
<1>5. content[k] > 0 /\ content' = content BY <1>4, ContentIs
<1> QED BY <1>5 DEF Promise!Find, Promise!Says, Says

LEMMA NewRefines ==
  ASSUME TableInv, NEW k \in Key, NEW t, NewNode(t, k)
  PROVE  Promise!Insert(k) \/ Promise!Threw
<1>1. CASE \E n \in Node : /\ keyOf[n] = NoKey /\ keyOf' = [keyOf EXCEPT ![n] = k]
                           /\ result' = Says("inserted")
  BY <1>1, InsertRefines
<1>2. CASE keyOf' = keyOf /\ result' = Says("threw")
  BY <1>2, SameContent DEF Promise!Threw, Promise!Says, Says
<1> QED BY <1>1, <1>2 DEF NewNode

LEMMA InsertRuns ==
  ASSUME TableInv, NEW k \in Key, NEW grow \in BOOLEAN,
         InsertUnique(k, grow) \/ InsertEqual(k, grow)
  PROVE  Promise!Insert(k) \/ Promise!Find(k) \/ Promise!Threw
<1> DEFINE t == IF grow THEN Resized(table, table.num + 1) ELSE table
<1>1. IsGrown(t) BY GrownFact
<1>2. \/ Find(t, k) # End /\ keyOf' = keyOf /\ result' = Says("there")
      \/ NewNode(t, k)
  BY DEF InsertUnique, InsertEqual
<1> HIDE DEF t
<1> QED BY <1>1, <1>2, ThereRefines, NewRefines

Among(gone, k) == {n \in gone : keyOf[n] = k}
PlacesOf(keys, k) == {x \in DOMAIN keys : keys[x] = k}

(* What the elements that go leave of a key.                                *)
LEMMA LeftOf ==
  ASSUME TableInv, NEW gone \in SUBSET Node, keyOf' = Destroyed(gone), NEW k \in Key
  PROVE  Cardinality(Holding(keyOf', k))
           = Cardinality(Holding(keyOf, k)) - Cardinality(Among(gone, k))
<1> DEFINE V == {n \in gone : keyOf[n] = k}
<1>1. \A n \in Node : keyOf'[n] = IF n \in gone THEN NoKey ELSE keyOf[n] BY DEF Destroyed
<1>2. Holding(keyOf', k) = Holding(keyOf, k) \ V BY <1>1, HashTableAssumption DEF Holding
<1>3. V \in SUBSET Holding(keyOf, k) BY DEF Holding
<1>4. IsFiniteSet(Holding(keyOf, k)) BY HoldingFact
<1> HIDE DEF V
<1>5. Cardinality(Holding(keyOf, k) \ V) = Cardinality(Holding(keyOf, k)) - Cardinality(V)
  BY <1>3, <1>4, Difference
<1> QED BY <1>2, <1>5 DEF V, Among

LEMMA EraseKeyRefines ==
  ASSUME TableInv, NEW k \in Key, EraseKey(k)
  PROVE  Promise!EraseKey(k)
<1> DEFINE gone == Holding(keyOf, k)
<1>1. /\ keyOf' = Destroyed(gone)
      /\ result' = Erased([i \in 1..Cardinality(gone) |-> k])
  BY EraseKeyFact DEF EraseKey, Without, Holding
<1>2. \A n \in Node : keyOf'[n] = IF n \in gone THEN NoKey ELSE keyOf[n] BY <1>1 DEF Destroyed
<1>3. Holding(keyOf', k) = {} BY <1>2, HashTableAssumption DEF Holding
<1>4. \A kk \in Key \ {k} : Holding(keyOf', kk) = Holding(keyOf, kk)
  BY <1>2, HashTableAssumption DEF Holding
<1>5. Cardinality(Holding(keyOf', k)) = 0 BY <1>3, FS_EmptySet
<1>6. content' = [content EXCEPT ![k] = 0] BY <1>4, <1>5, ContentIs
<1>7. content[k] = Cardinality(gone) BY ContentIs
<1> QED BY <1>1, <1>6, <1>7 DEF Promise!EraseKey, Promise!Erased, Erased

(* The keys that erase of a range answers are those of the elements gone.   *)
LEMMA RangeCounts ==
  ASSUME TableInv, NEW i \in 1..table.num, NEW j \in i + 1..table.num + 1, NEW k \in Key,
         NEW keys, keys = [x \in 1..j - i |-> keyOf[Order(table)[i + x - 1]]]
  PROVE  Cardinality(PlacesOf(keys, k)) = Cardinality(Among(Gone(Order(table), i, j), k))
<1> DEFINE f == Order(table)
           N == Size(table)
           S == {x \in DOMAIN keys : keys[x] = k}
           T == {n \in Gone(f, i, j) : keyOf[n] = k}
           h == [x \in S |-> f[i + x - 1]]
<1>1. Chains(table.buckets, N, keyOf) /\ table.num = Len(f) /\ table.num \in Nat BY TableFacts
<1> HIDE DEF N
<1>2. f \in Seq(Node) /\ \E bkt, idx : InOrder(f, table.buckets, N, bkt, idx) BY <1>1, OrderFact
<1>3. \A x, y \in 1..Len(f) : f[x] = f[y] => x = y
  <2> HIDE DEF f
  <2> QED BY <1>1, <1>2, OrderIsOnce
<1>4. i \in Nat /\ j \in Nat /\ j <= Len(f) + 1 /\ i >= 1 /\ Len(f) \in Nat BY <1>1
<1> HIDE DEF f
<1>5. \A x : x \in S <=> x \in 1..j - i /\ keyOf[f[i + x - 1]] = k BY DEF f
<1>6. \A x \in 1..j - i : i + x - 1 \in i..j - 1 /\ i + x - 1 \in 1..Len(f) BY <1>4
<1>7. \A z \in i..j - 1 : z - i + 1 \in 1..j - i /\ i + (z - i + 1) - 1 = z BY <1>4
<1>8. \A x \in S : f[i + x - 1] \in T BY <1>5, <1>6 DEF Gone
<1>9. \A n \in T : \E x \in S : f[i + x - 1] = n
  <2> SUFFICES ASSUME NEW n \in T PROVE \E x \in S : f[i + x - 1] = n OBVIOUS
  <2>1. PICK z \in i..j - 1 : f[z] = n BY DEF Gone
  <2> DEFINE x == z - i + 1
  <2>2. x \in 1..j - i /\ i + x - 1 = z BY <1>7
  <2> HIDE DEF x
  <2>3. x \in S BY <1>5, <2>1, <2>2
  <2> QED BY <2>1, <2>2, <2>3
<1>10. S \subseteq 1..j - i BY <1>5
<1>11. h \in [S -> T] /\ \A x \in S : h[x] = f[i + x - 1] BY <1>8
<1> HIDE DEF S, T, h
<1>12. \A x, y \in S : h[x] = h[y] => x = y
  <2> SUFFICES ASSUME NEW x \in S, NEW y \in S, h[x] = h[y] PROVE x = y OBVIOUS
  <2>1. x \in 1..j - i /\ y \in 1..j - i BY <1>10
  <2>2. f[i + x - 1] = f[i + y - 1] BY <1>11
  <2>3. i + x - 1 = i + y - 1 BY <1>3, <1>6, <2>1, <2>2
  <2> QED BY <1>4, <2>1, <2>3
<1>13. \A n \in T : \E x \in S : h[x] = n BY <1>9, <1>11
<1>14. h \in Bijection(S, T)
  BY <1>11, <1>12, <1>13 DEF Bijection, Injection, Surjection, IsInjective
<1>15. IsFiniteSet(S)
  <2>1. 1 \in Int /\ j - i \in Int BY <1>4
  <2>2. IsFiniteSet(1..j - i) BY <2>1, FS_Interval
  <2> QED BY <1>10, <2>2, FS_Subset
<1>16. Cardinality(T) = Cardinality(S) BY <1>14, <1>15, FS_Bijection DEF ExistsBijection
<1> QED BY <1>16 DEF S, T, f, PlacesOf, Among

LEMMA RangeRefines ==
  ASSUME NEW keys, result' = Erased(keys),
         content' = [k \in Key |-> content[k] - Cardinality(PlacesOf(keys, k))]
  PROVE  Promise!EraseRange
<1>1. result'.what = "erased" /\ result'.keys = keys BY DEF Erased
<1>2. content' = [k \in Key |-> content[k] - Cardinality(PlacesOf(result'.keys, k))] BY <1>1
<1>3. \A S : Promise!Cardinality(S) = Cardinality(S) BY DEF Promise!Cardinality, Cardinality
<1>4. content' = [k \in Key |-> content[k]
                     - Promise!Cardinality({i \in DOMAIN result'.keys : result'.keys[i] = k})]
  BY <1>2, <1>3 DEF PlacesOf
<1> QED BY <1>1, <1>4 DEF Promise!EraseRange

LEMMA EraseRangeRefines ==
  ASSUME TableInv, NEW i \in 1..table.num, NEW j \in i + 1..table.num + 1, EraseRange(i, j)
  PROVE  Promise!EraseRange
<1> DEFINE gone == Gone(Order(table), i, j)
           keys == [x \in 1..j - i |-> keyOf[Order(table)[i + x - 1]]]
<1>1. gone \subseteq Used(keyOf) /\ Without(gone) BY EraseRangeFact
<1>2. gone \in SUBSET Node /\ keyOf' = Destroyed(gone) BY <1>1 DEF Used, Without
<1>3. result' = Erased(keys) BY DEF EraseRange
<1>4. ASSUME NEW k \in Key
      PROVE  Cardinality(PlacesOf(keys, k)) = Cardinality(Among(gone, k))
  <2> DEFINE ks == keys
  <2>1. ks = [x \in 1..j - i |-> keyOf[Order(table)[i + x - 1]]] OBVIOUS
  <2> HIDE DEF ks
  <2> QED BY <2>1, RangeCounts DEF ks
<1> HIDE DEF keys, gone
<1>6. \A k \in Key : Cardinality(Holding(keyOf', k))
        = Cardinality(Holding(keyOf, k)) - Cardinality(Among(gone, k))
  BY <1>2, LeftOf
<1>7. content' = [k \in Key |-> content[k] - Cardinality(PlacesOf(keys, k))]
  BY <1>4, <1>6, ContentIs
<1> QED BY <1>3, <1>7, RangeRefines

LEMMA EraseHereRefines ==
  ASSUME TableInv, TraversalInv, EraseHere
  PROVE  Promise!EraseRange
<1> DEFINE gone == {it}
           keys == <<keyOf[it]>>
<1>1. it \in Node /\ keyOf' = Destroyed(gone) /\ result' = Erased(keys) BY DEF EraseHere
<1>3. \A k \in Key : Cardinality(Holding(keyOf', k))
        = Cardinality(Holding(keyOf, k)) - Cardinality(Among(gone, k))
  BY <1>1, LeftOf
<1>4. ASSUME NEW k \in Key
      PROVE  Cardinality(PlacesOf(keys, k)) = Cardinality(Among(gone, k))
  <2>1. DOMAIN keys = {1} /\ keys[1] = keyOf[it] OBVIOUS
  <2> HIDE DEF keys
  <2>2. CASE keyOf[it] = k
    <3>1. PlacesOf(keys, k) = {1} /\ Among(gone, k) = {it}
      BY <2>1, <2>2 DEF PlacesOf, Among
    <3>2. Cardinality({1}) = 1 /\ Cardinality({it}) = 1 BY FS_Singleton
    <3> QED BY <3>1, <3>2
  <2>3. CASE keyOf[it] # k
    <3>1. PlacesOf(keys, k) = {} /\ Among(gone, k) = {}
      BY <2>1, <2>3 DEF PlacesOf, Among
    <3> QED BY <3>1
  <2> QED BY <2>2, <2>3
<1> HIDE DEF keys, gone
<1>5. content' = [k \in Key |-> content[k] - Cardinality(PlacesOf(keys, k))]
  BY <1>3, <1>4, ContentIs
<1> QED BY <1>1, <1>5, RangeRefines

LEMMA EmptyRefines ==
  ASSUME keyOf' = Destroyed(Node), result' \in {Says("cleared"), Says("threw")}
  PROVE  Promise!Clear
<1>1. \A n \in Node : keyOf'[n] = NoKey BY DEF Destroyed
<1>2. \A k \in Key : Holding(keyOf', k) = {} BY <1>1, HashTableAssumption DEF Holding
<1>3. content' = [k \in Key |-> 0] BY <1>2, FS_EmptySet, ContentIs
<1> QED BY <1>3 DEF Promise!Clear, Promise!Empty, Promise!Says, Says

LEMMA AssignRefines ==
  ASSUME TableInv, Assign
  PROVE  Promise!Copy \/ Promise!Clear
<1>1. CASE keyOf' = Destroyed(Node) /\ result' = Says("threw") BY <1>1, EmptyRefines
<1>2. CASE /\ result' = Says("copied")
           /\ keyOf' = [n \in Node |-> IF n <= table.num THEN keyOf[Order(table)[n]] ELSE NoKey]
  <2> DEFINE N == Size(table)
  <2>1. /\ Chains(table.buckets, N, keyOf) /\ IsTable(table)
        /\ table.num = Cardinality(Used(keyOf))
    BY TableFacts
  <2>2. keyOf' = KeysOfCopy(table) BY <1>2 DEF KeysOfCopy
  <2> HIDE DEF N
  <2>3. \A k \in Key : Cardinality({n \in Node : KeysOfCopy(table)[n] = k})
                         = Cardinality({n \in Node : keyOf[n] = k})
    BY <2>1, CopyFact
  <2>4. \A k \in Key : Cardinality(Holding(keyOf', k)) = Cardinality(Holding(keyOf, k))
    BY <2>2, <2>3 DEF Holding
  <2> QED BY <1>2, <2>4, SameContent DEF Promise!Copy, Promise!Says, Says
<1> QED BY <1>1, <1>2 DEF Assign

LEMMA InitRefines == Init => Promise!Init
<1> SUFFICES ASSUME Init PROVE Promise!Init OBVIOUS
<1>1. keyOf = [n \in Node |-> NoKey] /\ result = Says("none") BY DEF Init
<1>2. \A k \in Key : Holding(keyOf, k) = {} BY <1>1, HashTableAssumption DEF Holding
<1>3. content = [k \in Key |-> 0] BY <1>2, FS_EmptySet, ContentIs
<1> QED BY <1>1, <1>3 DEF Promise!Init, Promise!Empty, Promise!Says, Says

LEMMA StepRefines ==
  TableInv /\ TraversalInv /\ [Next]_vars => [Promise!Next]_<<content, result>>
<1> SUFFICES ASSUME TableInv, TraversalInv, [Next]_vars
             PROVE  Promise!Next \/ UNCHANGED <<content, result>>
  OBVIOUS
<1>1. ASSUME NEW k \in Key, NEW grow \in BOOLEAN, InsertUnique(k, grow) \/ InsertEqual(k, grow)
      PROVE  Promise!Next
  <2>1. Promise!Insert(k) \/ Promise!Find(k) \/ Promise!Threw BY <1>1, InsertRuns
  <2> QED BY <2>1 DEF Promise!Next
<1>2. ASSUME NEW k \in Key, FindOrInsert(k) PROVE Promise!Next
  BY <1>1, <1>2 DEF FindOrInsert
<1>3. ASSUME NEW k \in Key, EraseKey(k) PROVE Promise!Next
  <2>1. Promise!EraseKey(k) BY <1>3, EraseKeyRefines
  <2> QED BY <2>1 DEF Promise!Next
<1>4. ASSUME NEW i \in 1..table.num, NEW j \in i + 1..table.num + 1, EraseRange(i, j)
      PROVE  Promise!Next
  <2>1. Promise!EraseRange BY <1>4, EraseRangeRefines
  <2> QED BY <2>1 DEF Promise!Next
<1>5. CASE EraseHere
  <2>1. Promise!EraseRange BY <1>5, EraseHereRefines
  <2> QED BY <2>1 DEF Promise!Next
<1>6. CASE Clear
  <2>1. Promise!Clear BY <1>6, EmptyRefines DEF Clear
  <2> QED BY <2>1 DEF Promise!Next
<1>7. CASE Assign
  <2>1. Promise!Copy \/ Promise!Clear BY <1>7, AssignRefines
  <2> QED BY <2>1 DEF Promise!Next
<1>8. CASE keyOf' = keyOf /\ result' = result
  <2>1. content' = content BY <1>8, SameContent
  <2> QED BY <1>8, <2>1
<1>9. CASE Begin \/ Advance BY <1>8, <1>9 DEF Begin, Advance
<1>10. CASE UNCHANGED vars BY <1>8, <1>10 DEF vars
<1> QED BY <1>1, <1>2, <1>3, <1>4, <1>5, <1>6, <1>7, <1>9, <1>10 DEF Next

(* A table of any size and any keys is a multiset: an insertion adds one    *)
(* element or finds one, erasing a range takes what a traversal would have  *)
(* met there, growing changes nothing, and a failure adds and loses nothing *)
(* or, in a copy, leaves nothing.                                           *)
THEOREM TablesAreMultisets == Spec => ImplementsMultiset
<1>1. Init => Promise!Init BY InitRefines
<1>2. (TableInv /\ TraversalInv) /\ [Next]_vars => [Promise!Next]_<<content, result>>
  BY StepRefines
<1> QED BY <1>1, <1>2, TableHolds, PTL DEF Spec, ImplementsMultiset, Promise!Spec

=============================================================================
