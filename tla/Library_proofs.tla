------------------------------ MODULE Library_proofs ------------------------------
(***************************************************************************)
(* Vectors, strings, lists, the pool, the streams, and dates. A vector is  *)
(* a sequence, for every set of values and every capacity, wherever its    *)
(* elements are; a string is a value, whoever shares its buffer; a list is *)
(* a sequence, however many lists and nodes there are and whatever moves   *)
(* from one to another; the pool keeps account of its cells, however many  *)
(* chunks it cuts and whatever their sizes; the input streams give their   *)
(* data, of any length that the width of their offsets can count; days     *)
(* have the dates of the calendar, for more than nine thousand years, and  *)
(* times are exact.                                                        *)
(***************************************************************************)
EXTENDS Vector, Strings, Lists, Pool, Streams, Dates, FiniteSetTheorems,
        SequenceTheorems, WellFoundedInduction, TLAPS

(* VECTORS *)
(* Elements are in the cells up to end, and the cells behind it are raw. (A *)
(* text may have the character Raw in it: it is not only memory that has.)  *)
Cell == Value \cup {Raw}
Constructed(w) ==
  /\ w.cells \in Seq(Cell) /\ w.end \in Nat /\ w.end <= Len(w.cells)
  /\ \A i \in 1..Len(w.cells) : i > w.end => w.cells[i] = Raw

(* What a vector is after a call: its elements are s.                       *)
Holds(w, s) == Constructed(w) /\ Elements(w) = s
-----------------------------------------------------------------------------
(* Sequences by their elements.                                             *)
LEMMA ElementsFact ==
  ASSUME NEW w, Constructed(w)
  PROVE  /\ Elements(w) \in Seq(Cell) /\ Len(Elements(w)) = w.end
         /\ \A i \in 1..w.end : Elements(w)[i] = w.cells[i] /\ w.cells[i] \in Cell
<1>1. w.end \in Nat /\ w.end <= Len(w.cells) /\ Len(w.cells) \in Nat
  BY LenProperties DEF Constructed
<1>2. ASSUME NEW i \in 1..w.end PROVE w.cells[i] \in Cell
  <2>1. i \in 1..Len(w.cells) BY <1>1
  <2> QED BY <2>1, ElementOfSeq DEF Constructed
<1>3. 1 \in Int /\ w.end \in Int BY <1>1
<1>4. /\ SubSeq(w.cells, 1, w.end) \in Seq(Cell)
      /\ Len(SubSeq(w.cells, 1, w.end)) = IF 1 <= w.end THEN w.end - 1 + 1 ELSE 0
      /\ \A i \in 1..w.end - 1 + 1 : SubSeq(w.cells, 1, w.end)[i] = w.cells[1 + i - 1]
  BY <1>2, <1>3, SubSeqProperties
<1>5. Len(Elements(w)) = w.end BY <1>1, <1>4 DEF Elements
<1>6. \A i \in 1..w.end : Elements(w)[i] = w.cells[i] BY <1>1, <1>4 DEF Elements
<1> QED BY <1>2, <1>4, <1>5, <1>6 DEF Elements

LEMMA PartFact ==
  ASSUME NEW S, NEW s \in Seq(S), NEW m \in Nat \ {0}, NEW n \in Nat, m <= n + 1, n <= Len(s)
  PROVE  /\ SubSeq(s, m, n) \in Seq(S) /\ Len(SubSeq(s, m, n)) = n - m + 1
         /\ \A i \in 1..n - m + 1 : SubSeq(s, m, n)[i] = s[m + i - 1]
<1>1. Len(s) \in Nat BY LenProperties
<1>2. ASSUME NEW i \in m..n PROVE s[i] \in S
  <2>1. i \in 1..Len(s) BY <1>1
  <2> QED BY <2>1, ElementOfSeq
<1>3. m \in Int /\ n \in Int OBVIOUS
<1>4. /\ SubSeq(s, m, n) \in Seq(S)
      /\ Len(SubSeq(s, m, n)) = IF m <= n THEN n - m + 1 ELSE 0
      /\ \A i \in 1..n - m + 1 : SubSeq(s, m, n)[i] = s[m + i - 1]
  BY <1>2, <1>3, SubSeqProperties
<1> QED BY <1>4

LEMMA Joined ==
  ASSUME NEW S, NEW a \in Seq(S), NEW b \in Seq(S), NEW c \in Seq(S)
  PROVE  /\ a \o b \o c \in Seq(S) /\ Len(a \o b \o c) = Len(a) + Len(b) + Len(c)
         /\ \A i \in 1..Len(a) + Len(b) + Len(c) :
              (a \o b \o c)[i] = IF i <= Len(a) THEN a[i]
                                 ELSE IF i <= Len(a) + Len(b) THEN b[i - Len(a)]
                                 ELSE c[i - Len(a) - Len(b)]
<1>1. Len(a) \in Nat /\ Len(b) \in Nat /\ Len(c) \in Nat BY LenProperties
<1>2. /\ a \o b \in Seq(S) /\ Len(a \o b) = Len(a) + Len(b)
      /\ \A i \in 1..Len(a) + Len(b) : (a \o b)[i] = IF i <= Len(a) THEN a[i] ELSE b[i - Len(a)]
  BY ConcatProperties
<1> DEFINE ab == a \o b
<1>3. /\ ab \o c \in Seq(S) /\ Len(ab \o c) = Len(ab) + Len(c)
      /\ \A i \in 1..Len(ab) + Len(c) : (ab \o c)[i] = IF i <= Len(ab) THEN ab[i] ELSE c[i - Len(ab)]
  BY <1>2, ConcatProperties
<1> HIDE DEF ab
<1>4. Len(ab) = Len(a) + Len(b) BY <1>2 DEF ab
<1>5. ASSUME NEW i \in 1..Len(a) + Len(b) + Len(c)
      PROVE  (ab \o c)[i] = IF i <= Len(a) THEN a[i]
                            ELSE IF i <= Len(a) + Len(b) THEN b[i - Len(a)]
                            ELSE c[i - Len(a) - Len(b)]
  <2>1. (ab \o c)[i] = IF i <= Len(a) + Len(b) THEN ab[i] ELSE c[i - (Len(a) + Len(b))]
    BY <1>3, <1>4
  <2>2. i <= Len(a) + Len(b) => ab[i] = IF i <= Len(a) THEN a[i] ELSE b[i - Len(a)]
    BY <1>1, <1>2 DEF ab
  <2>3. i - (Len(a) + Len(b)) = i - Len(a) - Len(b) BY <1>1
  <2> QED BY <1>1, <2>1, <2>2, <2>3
<1>6. Len(ab \o c) = Len(a) + Len(b) + Len(c) BY <1>3, <1>4
<1> QED BY <1>3, <1>5, <1>6 DEF ab

(* A sequence with another one put in before a place.                       *)
LEMMA WithFact ==
  ASSUME NEW S, NEW s \in Seq(S), NEW given \in Seq(S), NEW p \in 1..Len(s) + 1
  PROVE  /\ With(s, p, given) \in Seq(S) /\ Len(With(s, p, given)) = Len(s) + Len(given)
         /\ \A i \in 1..Len(s) + Len(given) :
              With(s, p, given)[i] = IF i < p THEN s[i]
                                     ELSE IF i < p + Len(given) THEN given[i - p + 1]
                                     ELSE s[i - Len(given)]
<1>1. Len(s) \in Nat /\ Len(given) \in Nat BY LenProperties
<1> DEFINE a == SubSeq(s, 1, p - 1)
           c == SubSeq(s, p, Len(s))
<1>2. /\ a \in Seq(S) /\ Len(a) = p - 1 /\ \A i \in 1..p - 1 : a[i] = s[i]
  <2>1. 1 \in Nat \ {0} /\ p - 1 \in Nat /\ 1 <= (p - 1) + 1 /\ p - 1 <= Len(s) BY <1>1
  <2>2. /\ a \in Seq(S) /\ Len(a) = (p - 1) - 1 + 1
        /\ \A i \in 1..(p - 1) - 1 + 1 : a[i] = s[1 + i - 1]
    BY <2>1, PartFact
  <2> QED BY <2>2
<1>3. /\ c \in Seq(S) /\ Len(c) = Len(s) - p + 1
      /\ \A i \in 1..Len(s) - p + 1 : c[i] = s[p + i - 1]
  <2>1. p \in Nat \ {0} /\ Len(s) \in Nat /\ p <= Len(s) + 1 /\ Len(s) <= Len(s) BY <1>1
  <2>2. /\ SubSeq(s, p, Len(s)) \in Seq(S) /\ Len(SubSeq(s, p, Len(s))) = Len(s) - p + 1
        /\ \A i \in 1..Len(s) - p + 1 : SubSeq(s, p, Len(s))[i] = s[p + i - 1]
    BY <2>1, PartFact
  <2> QED BY <2>2
<1> HIDE DEF a, c
<1>4. /\ a \o given \o c \in Seq(S) /\ Len(a \o given \o c) = Len(a) + Len(given) + Len(c)
      /\ \A i \in 1..Len(a) + Len(given) + Len(c) :
           (a \o given \o c)[i] = IF i <= Len(a) THEN a[i]
                                  ELSE IF i <= Len(a) + Len(given) THEN given[i - Len(a)]
                                  ELSE c[i - Len(a) - Len(given)]
  <2>1. a \in Seq(S) /\ given \in Seq(S) /\ c \in Seq(S) BY <1>2, <1>3
  <2> QED BY ONLY <2>1, Joined
<1>5. With(s, p, given) = a \o given \o c BY DEF With, a, c
<1>6. Len(a) + Len(given) + Len(c) = Len(s) + Len(given) BY <1>1, <1>2, <1>3
<1>7. ASSUME NEW i \in 1..Len(s) + Len(given)
      PROVE  (a \o given \o c)[i] = IF i < p THEN s[i]
                                    ELSE IF i < p + Len(given) THEN given[i - p + 1]
                                    ELSE s[i - Len(given)]
  <2>1. CASE i < p
    <3>1. i <= Len(a) /\ i \in 1..p - 1 BY <1>2, <2>1
    <3> QED BY <1>2, <1>4, <1>6, <2>1, <3>1
  <2>2. CASE i >= p /\ i < p + Len(given)
    <3>1. ~(i <= Len(a)) /\ i <= Len(a) + Len(given) /\ i - Len(a) = i - p + 1 BY <1>1, <1>2, <2>2
    <3>2. i \in 1..Len(a) + Len(given) + Len(c) BY <1>6
    <3>3. (a \o given \o c)[i] = given[i - Len(a)] BY <1>4, <3>1, <3>2
    <3>4. ~(i < p) BY <1>1, <2>2
    <3> QED BY <2>2, <3>1, <3>3, <3>4
  <2>3. CASE i >= p + Len(given)
    <3>1. ~(i <= Len(a)) /\ ~(i <= Len(a) + Len(given)) /\ ~(i < p) /\ ~(i < p + Len(given))
      BY <1>1, <1>2, <2>3
    <3> DEFINE j == i - Len(a) - Len(given)
    <3>2. j \in 1..Len(s) - p + 1 /\ p + j - 1 = i - Len(given) BY <1>1, <1>2, <2>3
    <3>3. (a \o given \o c)[i] = c[j] BY <1>4, <1>6, <3>1
    <3>4. c[j] = s[p + j - 1] BY <1>3, <3>2
    <3> QED BY <3>1, <3>2, <3>3, <3>4
  <2>4. i < p \/ (i >= p /\ i < p + Len(given)) \/ i >= p + Len(given) BY <1>1
  <2> QED BY ONLY <2>1, <2>2, <2>3, <2>4
<1>8. Len(a \o given \o c) = Len(s) + Len(given) BY <1>4, <1>6
<1> QED BY <1>4, <1>5, <1>7, <1>8

-----------------------------------------------------------------------------
(* Memory.                                                                  *)
LEMMA CopiedFact ==
  ASSUME NEW S, NEW cells \in Seq(S), NEW given \in Seq(S), NEW p \in Nat \ {0}
  PROVE  /\ Copied(cells, given, p) \in Seq(S) /\ Len(Copied(cells, given, p)) = Len(cells)
         /\ \A i \in 1..Len(cells) :
              Copied(cells, given, p)[i] = IF p <= i /\ i < p + Len(given) THEN given[i - p + 1]
                                           ELSE cells[i]
<1>1. /\ Len(cells) \in Nat /\ Len(given) \in Nat /\ DOMAIN cells = 1..Len(cells)
  BY LenProperties
<1> DEFINE new == [i \in 1..Len(cells) |->
                     IF i - p + 1 \in 1..Len(given) THEN given[i - p + 1] ELSE cells[i]]
<1>2. Copied(cells, given, p) = new BY <1>1 DEF Copied
<1>3. ASSUME NEW i \in 1..Len(cells)
      PROVE  /\ new[i] \in S
             /\ new[i] = IF p <= i /\ i < p + Len(given) THEN given[i - p + 1] ELSE cells[i]
  <2>1. cells[i] \in S BY ElementOfSeq
  <2>2. i - p + 1 \in 1..Len(given) <=> p <= i /\ i < p + Len(given) BY <1>1
  <2>3. CASE i - p + 1 \in 1..Len(given)
    <3>1. given[i - p + 1] \in S BY <2>3, ElementOfSeq
    <3> QED BY <2>2, <2>3, <3>1
  <2> QED BY <2>1, <2>2, <2>3
<1>4. \A i \in 1..Len(cells) : new[i] \in S BY <1>3
<1>5. new \in [1..Len(cells) -> S] BY <1>4
<1>6. new \in Seq(S) /\ Len(new) = Len(cells)
  <2> HIDE DEF new
  <2> QED BY <1>1, <1>5
<1> QED BY <1>2, <1>3, <1>6

LEMMA AllocatedFact ==
  ASSUME NEW n \in Nat
  PROVE  /\ Allocated(n) \in Seq(Cell) /\ Len(Allocated(n)) = n
         /\ \A i \in 1..n : Allocated(n)[i] = Raw
BY DEF Allocated, Cell

(* Memory that has s up to its length and nothing behind it.                *)
LEMMA Made ==
  ASSUME NEW w, NEW s \in Seq(Cell), w.cells \in Seq(Cell), w.end = Len(s),
         Len(s) <= Len(w.cells),
         \A i \in 1..Len(s) : w.cells[i] = s[i],
         \A i \in 1..Len(w.cells) : i > Len(s) => w.cells[i] = Raw
  PROVE  Holds(w, s)
<1>1. Len(s) \in Nat /\ Len(w.cells) \in Nat BY LenProperties
<1>3. Constructed(w) BY <1>1 DEF Constructed
<1>4. Elements(w) \in Seq(Cell) /\ Len(Elements(w)) = Len(s) BY <1>3, ElementsFact
<1>5. \A i \in 1..Len(Elements(w)) : Elements(w)[i] = s[i] BY <1>3, <1>4, ElementsFact
<1>6. Elements(w) = s BY <1>4, <1>5, SeqEqual
<1> QED BY <1>3, <1>6 DEF Holds

LEMMA MovedHolds ==
  ASSUME NEW s \in Seq(Cell), NEW n \in Nat, Len(s) <= n
  PROVE  Holds(Moved(s, n), s)
<1>1. /\ Allocated(n) \in Seq(Cell) /\ Len(Allocated(n)) = n
      /\ \A i \in 1..n : Allocated(n)[i] = Raw
  BY AllocatedFact
<1>2. s \in Seq(Cell) /\ Len(s) \in Nat BY LenProperties
<1> DEFINE c == Copied(Allocated(n), s, 1)
<1>3. 1 \in Nat \ {0} OBVIOUS
<1>4. /\ c \in Seq(Cell) /\ Len(c) = n
      /\ \A i \in 1..n : c[i] = IF 1 <= i /\ i < 1 + Len(s) THEN s[i - 1 + 1] ELSE Allocated(n)[i]
  <2> DEFINE none == Allocated(n)
  <2>1. none \in Seq(Cell) /\ Len(none) = n BY <1>1
  <2> HIDE DEF none
  <2>2. /\ Copied(none, s, 1) \in Seq(Cell) /\ Len(Copied(none, s, 1)) = Len(none)
        /\ \A i \in 1..Len(none) :
             Copied(none, s, 1)[i] = IF 1 <= i /\ i < 1 + Len(s) THEN s[i - 1 + 1] ELSE none[i]
    BY ONLY <1>2, <1>3, <2>1, CopiedFact
  <2> QED BY <2>1, <2>2 DEF none
<1>5. Moved(s, n).cells = c /\ Moved(s, n).end = Len(s) BY DEF Moved
<1> HIDE DEF c
<1>6. \A i \in 1..Len(s) : c[i] = s[i] BY <1>2, <1>4
<1>7. \A i \in 1..n : i > Len(s) => c[i] = Raw BY <1>1, <1>2, <1>4
<1> DEFINE w == Moved(s, n)
<1>8. w.cells \in Seq(Cell) /\ w.end = Len(s) /\ Len(w.cells) = n /\ w.cells = c BY <1>4, <1>5
<1> HIDE DEF w
<1>9. Holds(w, s) BY <1>6, <1>7, <1>8, Made
<1> QED BY <1>9 DEF w

(* A part of the cells that are constructed is a part of the elements.      *)
LEMMA SubSeqElements ==
  ASSUME NEW w, Constructed(w), NEW m \in Nat \ {0}, NEW n \in Nat, m <= n + 1, n <= w.end
  PROVE  SubSeq(w.cells, m, n) = SubSeq(Elements(w), m, n)
<1> DEFINE s == Elements(w)
<1>1. /\ w.cells \in Seq(Cell) /\ w.end \in Nat /\ w.end <= Len(w.cells)
      /\ Len(w.cells) \in Nat
  BY LenProperties DEF Constructed
<1>2. /\ s \in Seq(Cell) /\ Len(s) = w.end
      /\ \A i \in 1..w.end : s[i] = w.cells[i] /\ w.cells[i] \in Cell
  BY ElementsFact
<1>3. /\ SubSeq(w.cells, m, n) \in Seq(Cell) /\ Len(SubSeq(w.cells, m, n)) = n - m + 1
      /\ \A i \in 1..n - m + 1 : SubSeq(w.cells, m, n)[i] = w.cells[m + i - 1]
  <2>1. n <= Len(w.cells) BY <1>1
  <2> QED BY <1>1, <2>1, PartFact
<1> HIDE DEF s
<1>4. /\ SubSeq(s, m, n) \in Seq(Cell) /\ Len(SubSeq(s, m, n)) = n - m + 1
      /\ \A i \in 1..n - m + 1 : SubSeq(s, m, n)[i] = s[m + i - 1]
  BY <1>2, PartFact
<1>5. ASSUME NEW i \in 1..n - m + 1 PROVE SubSeq(w.cells, m, n)[i] = SubSeq(s, m, n)[i]
  <2>1. m + i - 1 \in 1..w.end BY <1>1
  <2> QED BY <1>2, <1>3, <1>4, <2>1
<1>6. SubSeq(s, m, n) \in Seq(Cell) BY <1>4
<1>7. SubSeq(w.cells, m, n) = SubSeq(s, m, n) BY <1>3, <1>4, <1>5, <1>6, SeqEqual
<1> QED BY <1>7 DEF s
-----------------------------------------------------------------------------
(* New memory.                                                              *)
LEMMA GrownEnough ==
  ASSUME NEW w, NEW n \in Nat, Len(w.cells) \in Nat, w.end \in Nat, w.end <= Len(w.cells)
  PROVE  GrownTo(w, n) \in Nat /\ w.end + n <= GrownTo(w, n)
<1> DEFINE k == Len(w.cells)
           e == w.end
<1>1. GrownTo(w, n) = k + IF k > n THEN k ELSE n BY DEF GrownTo, Capacity
<1>2. k \in Nat /\ e \in Nat /\ e <= k OBVIOUS
<1> HIDE DEF k, e
<1>3. k + (IF k > n THEN k ELSE n) \in Nat /\ e + n <= k + IF k > n THEN k ELSE n BY <1>2
<1> QED BY <1>1, <1>3 DEF e

LEMMA OverflowHolds ==
  ASSUME NEW w, Constructed(w), NEW p \in 1..w.end + 1, NEW given \in Seq(Cell)
  PROVE  Holds(InsertOverflow(w, p, given), With(Elements(w), p, given))
<1> DEFINE s == Elements(w)
<1>1. /\ w.cells \in Seq(Cell) /\ w.end \in Nat /\ w.end <= Len(w.cells)
      /\ Len(w.cells) \in Nat /\ Len(given) \in Nat
  BY LenProperties DEF Constructed
<1>2. /\ s \in Seq(Cell) /\ Len(s) = w.end
      /\ \A i \in 1..w.end : s[i] = w.cells[i] /\ w.cells[i] \in Cell
  BY ElementsFact
<1>3. SubSeq(w.cells, 1, p - 1) = SubSeq(s, 1, p - 1)
  BY <1>1, <1>2, SubSeqElements
<1>4. SubSeq(w.cells, p, w.end) = SubSeq(s, p, Len(s))
  BY <1>1, <1>2, SubSeqElements
<1>5. With(s, p, given) = SubSeq(w.cells, 1, p - 1) \o given \o SubSeq(w.cells, p, w.end)
  BY <1>3, <1>4 DEF With
<1> DEFINE t == With(s, p, given)
<1>6. t \in Seq(Cell) /\ Len(t) = w.end + Len(given)
  <2>1. s \in Seq(Cell) /\ p \in 1..Len(s) + 1 BY <1>2
  <2> HIDE DEF s
  <2>2. With(s, p, given) \in Seq(Cell) /\ Len(With(s, p, given)) = Len(s) + Len(given)
    BY <2>1, WithFact
  <2> QED BY <1>2, <2>2
<1>7. GrownTo(w, Len(given)) \in Nat /\ w.end + Len(given) <= GrownTo(w, Len(given))
  BY <1>1, GrownEnough
<1>8. InsertOverflow(w, p, given) = Moved(t, GrownTo(w, Len(given))) BY <1>5 DEF InsertOverflow
<1> HIDE DEF s, t
<1>9. Holds(Moved(t, GrownTo(w, Len(given))), t) BY <1>6, <1>7, MovedHolds
<1> QED BY <1>8, <1>9 DEF s, t

-----------------------------------------------------------------------------
(* In place. What is behind place p moves by one and x is written there.    *)
LEMMA ShiftedHolds ==
  ASSUME NEW w, Constructed(w), NEW p \in 1..w.end + 1, NEW x \in Cell, w.end < Len(w.cells)
  PROVE  LET up == Copied(w.cells, SubSeq(w.cells, p, w.end), p + 1)
         IN  Holds([cells |-> Copied(up, <<x>>, p), end |-> w.end + 1],
                   With(Elements(w), p, <<x>>))
<1> DEFINE s == Elements(w)
           e == w.end
           back == SubSeq(w.cells, p, e)
           up == Copied(w.cells, back, p + 1)
           one == <<x>>
           c == Copied(up, one, p)
           t == With(s, p, one)
<1>1. w.cells \in Seq(Cell) /\ e \in Nat /\ Len(w.cells) \in Nat /\ e < Len(w.cells)
      /\ p \in Nat \ {0} /\ p <= e + 1
  BY LenProperties DEF Constructed
<1>2. /\ s \in Seq(Cell) /\ Len(s) = e
      /\ \A i \in 1..e : s[i] = w.cells[i] /\ w.cells[i] \in Cell
  BY ElementsFact
<1>3. /\ back \in Seq(Cell) /\ Len(back) = e - p + 1
      /\ \A i \in 1..e - p + 1 : back[i] = w.cells[p + i - 1]
  BY <1>1, PartFact
<1> HIDE DEF s, back
<1>4. /\ up \in Seq(Cell) /\ Len(up) = Len(w.cells)
      /\ \A i \in 1..Len(w.cells) :
           up[i] = IF p + 1 <= i /\ i < p + 1 + Len(back) THEN back[i - (p + 1) + 1]
                   ELSE w.cells[i]
  <2>1. w.cells \in Seq(Cell) /\ back \in Seq(Cell) /\ p + 1 \in Nat \ {0} BY <1>1, <1>3
  <2> QED BY ONLY <2>1, CopiedFact DEF up
<1> HIDE DEF up
<1>5. one \in Seq(Cell) /\ Len(one) = 1 /\ one[1] = x
  BY DEF Cell
<1> HIDE DEF one
<1>6. /\ c \in Seq(Cell) /\ Len(c) = Len(up)
      /\ \A i \in 1..Len(up) :
           c[i] = IF p <= i /\ i < p + Len(one) THEN one[i - p + 1] ELSE up[i]
  <2>1. up \in Seq(Cell) /\ one \in Seq(Cell) /\ p \in Nat \ {0} BY <1>1, <1>4, <1>5
  <2> QED BY ONLY <2>1, CopiedFact DEF c
<1>7. /\ t \in Seq(Cell) /\ Len(t) = Len(s) + Len(one)
      /\ \A i \in 1..Len(s) + Len(one) :
           t[i] = IF i < p THEN s[i]
                  ELSE IF i < p + Len(one) THEN one[i - p + 1] ELSE s[i - Len(one)]
  <2>1. s \in Seq(Cell) /\ one \in Seq(Cell) /\ p \in 1..Len(s) + 1 BY <1>1, <1>2, <1>5
  <2> QED BY ONLY <2>1, WithFact DEF t
<1> HIDE DEF c, t
<1>8. ASSUME NEW i \in 1..e + 1 PROVE c[i] = t[i]
  <2>1. i \in 1..Len(up) /\ i \in 1..Len(w.cells) /\ i \in 1..Len(s) + Len(one)
    BY <1>1, <1>2, <1>4, <1>5
  <2>2. CASE i < p
    <3>1. i \in 1..e BY <1>1, <2>2
    <3>2. c[i] = up[i] BY <1>1, <1>6, <2>1, <2>2
    <3>3. up[i] = w.cells[i] BY <1>1, <1>4, <2>1, <2>2
    <3>4. t[i] = s[i] BY <1>7, <2>1, <2>2
    <3> QED BY <1>2, <3>1, <3>2, <3>3, <3>4
  <2>3. CASE i = p
    <3>1. i - p + 1 = 1 BY <1>1, <2>3
    <3>2. c[i] = one[i - p + 1] BY <1>1, <1>5, <1>6, <2>1, <2>3
    <3>3. t[i] = one[i - p + 1] BY <1>1, <1>5, <1>7, <2>1, <2>3
    <3> QED BY <3>2, <3>3
  <2>4. CASE i > p
    <3>1. i - 1 \in 1..e /\ p + (i - (p + 1) + 1) - 1 = i - 1
          /\ i - (p + 1) + 1 \in 1..e - p + 1
      BY <1>1, <2>4
    <3>2. c[i] = up[i] BY <1>1, <1>5, <1>6, <2>1, <2>4
    <3>3. up[i] = back[i - (p + 1) + 1]
      <4>1. p + 1 <= i /\ i < p + 1 + Len(back) BY <1>1, <1>3, <2>4
      <4> QED BY <1>4, <2>1, <4>1
    <3>4. back[i - (p + 1) + 1] = w.cells[i - 1] BY <1>3, <3>1
    <3>5. t[i] = s[i - 1] BY <1>1, <1>5, <1>7, <2>1, <2>4
    <3> QED BY <1>2, <3>1, <3>2, <3>3, <3>4, <3>5
  <2> QED BY <1>1, <2>2, <2>3, <2>4
<1>9. ASSUME NEW i \in 1..Len(c), i > e + 1 PROVE c[i] = Raw
  <2>1. i \in 1..Len(up) /\ i \in 1..Len(w.cells) BY <1>4, <1>6
  <2>2. c[i] = up[i] BY <1>1, <1>5, <1>6, <1>9, <2>1
  <2>3. up[i] = w.cells[i]
    <3>1. Len(back) \in Nat /\ p + 1 + Len(back) <= i BY <1>1, <1>3, <1>9
    <3> QED BY <1>1, <1>4, <2>1, <3>1
  <2>4. ~(i <= w.end) BY <1>1, <1>9 DEF e
  <2>5. w.cells[i] = Raw BY <2>1, <2>4 DEF Constructed
  <2> QED BY <2>2, <2>3, <2>5
<1> DEFINE r == [cells |-> c, end |-> e + 1]
<1>10. r.cells = c /\ r.end = e + 1 OBVIOUS
<1> HIDE DEF r
<1>11. Len(t) = e + 1 /\ Len(c) = Len(w.cells) BY <1>2, <1>4, <1>5, <1>6, <1>7
<1>12. r.end = Len(t) /\ Len(t) <= Len(r.cells) /\ r.cells \in Seq(Cell)
  BY <1>1, <1>6, <1>10, <1>11
<1>13. \A i \in 1..Len(t) : r.cells[i] = t[i] BY <1>8, <1>10, <1>11
<1>14. \A i \in 1..Len(r.cells) : i > Len(t) => r.cells[i] = Raw BY <1>9, <1>10, <1>11
<1>15. Holds(r, t) BY <1>7, <1>12, <1>13, <1>14, Made
<1> QED BY <1>15 DEF r, t, c, one, up, back, e, s

LEMMA InsertOneHolds ==
  ASSUME NEW w, Constructed(w), NEW p \in 1..w.end + 1, NEW a, ReadCell(w.cells, a) \in Cell
  PROVE  Holds(InsertOne(w, p, a), With(Elements(w), p, <<ReadCell(w.cells, a)>>))
<1> DEFINE x == ReadCell(w.cells, a)
<1> HIDE DEF x
<1>1. x \in Cell BY DEF x
<1>2. CASE w.end = Capacity(w)
  <2>1. <<x>> \in Seq(Cell) BY <1>1
  <2>2. Holds(InsertOverflow(w, p, <<x>>), With(Elements(w), p, <<x>>)) BY <2>1, OverflowHolds
  <2>3. InsertOne(w, p, a) = InsertOverflow(w, p, <<x>>) BY <1>2 DEF InsertOne, x
  <2> QED BY <2>2, <2>3 DEF x
<1>3. CASE w.end # Capacity(w)
  <2>1. w.end < Len(w.cells)
    <3>1. w.end <= Len(w.cells) /\ w.end \in Nat /\ Len(w.cells) \in Nat
      BY LenProperties DEF Constructed
    <3> QED BY <1>3, <3>1 DEF Capacity
  <2> DEFINE up == Copied(w.cells, SubSeq(w.cells, p, w.end), p + 1)
  <2>2. Holds([cells |-> Copied(up, <<x>>, p), end |-> w.end + 1], With(Elements(w), p, <<x>>))
    BY <1>1, <2>1, ShiftedHolds
  <2>3. InsertOne(w, p, a) = [cells |-> Copied(up, <<x>>, p), end |-> w.end + 1]
    BY <1>3 DEF InsertOne, x
  <2> QED BY <2>2, <2>3 DEF x
<1> QED BY <1>2, <1>3

(* At the end, if there is room.                                            *)
LEMMA AppendedHolds ==
  ASSUME NEW w, Constructed(w), NEW given \in Seq(Cell), w.end + Len(given) <= Len(w.cells)
  PROVE  Holds([cells |-> Copied(w.cells, given, w.end + 1), end |-> w.end + Len(given)],
               With(Elements(w), w.end + 1, given))
<1> DEFINE s == Elements(w)
           e == w.end
           c == Copied(w.cells, given, e + 1)
           t == With(s, e + 1, given)
<1>1. /\ w.cells \in Seq(Cell) /\ e \in Nat /\ Len(w.cells) \in Nat
      /\ Len(given) \in Nat /\ e + Len(given) <= Len(w.cells)
  BY LenProperties DEF Constructed
<1>2. /\ s \in Seq(Cell) /\ Len(s) = e
      /\ \A i \in 1..e : s[i] = w.cells[i] /\ w.cells[i] \in Cell
  BY ElementsFact
<1> HIDE DEF s
<1>3. /\ c \in Seq(Cell) /\ Len(c) = Len(w.cells)
      /\ \A i \in 1..Len(w.cells) :
           c[i] = IF e + 1 <= i /\ i < e + 1 + Len(given) THEN given[i - (e + 1) + 1]
                  ELSE w.cells[i]
  <2>1. w.cells \in Seq(Cell) /\ given \in Seq(Cell) /\ e + 1 \in Nat \ {0}
    BY <1>1
  <2> DEFINE q == e + 1
  <2> HIDE DEF q
  <2>2. /\ Copied(w.cells, given, q) \in Seq(Cell)
        /\ Len(Copied(w.cells, given, q)) = Len(w.cells)
        /\ \A i \in 1..Len(w.cells) :
             Copied(w.cells, given, q)[i] = IF q <= i /\ i < q + Len(given) THEN given[i - q + 1]
                                            ELSE w.cells[i]
    BY ONLY <2>1, CopiedFact DEF q
  <2> QED BY ONLY <2>2 DEF c, q
<1>4. /\ t \in Seq(Cell) /\ Len(t) = Len(s) + Len(given)
      /\ \A i \in 1..Len(s) + Len(given) :
           t[i] = IF i < e + 1 THEN s[i]
                  ELSE IF i < e + 1 + Len(given) THEN given[i - (e + 1) + 1] ELSE s[i - Len(given)]
  <2>1. s \in Seq(Cell) /\ given \in Seq(Cell) /\ e + 1 \in 1..Len(s) + 1 BY <1>1, <1>2
  <2> QED BY ONLY <2>1, WithFact DEF t
<1> HIDE DEF c, t
<1>5. ASSUME NEW i \in 1..e + Len(given) PROVE c[i] = t[i]
  <2>1. i \in 1..Len(w.cells) /\ i \in 1..Len(s) + Len(given) BY <1>1, <1>2
  <2>2. CASE i <= e
    <3>1. c[i] = w.cells[i] BY <1>1, <1>3, <2>1, <2>2
    <3>2. t[i] = s[i] BY <1>1, <1>4, <2>1, <2>2
    <3>3. i \in 1..e BY <1>1, <2>2
    <3> QED BY <1>2, <3>1, <3>2, <3>3
  <2>3. CASE i > e
    <3>1. e + 1 <= i /\ i < e + 1 + Len(given) /\ ~(i < e + 1) BY <1>1, <2>3
    <3>2. c[i] = given[i - (e + 1) + 1] BY <1>3, <2>1, <3>1
    <3>3. t[i] = given[i - (e + 1) + 1] BY <1>4, <2>1, <3>1
    <3> QED BY <3>2, <3>3
  <2> QED BY <1>1, <2>2, <2>3
<1>6. ASSUME NEW i \in 1..Len(c), i > e + Len(given) PROVE c[i] = Raw
  <2>1. i \in 1..Len(w.cells) /\ ~(i <= w.end) BY <1>1, <1>3, <1>6
  <2>2. c[i] = w.cells[i] BY <1>1, <1>3, <1>6, <2>1
  <2>3. w.cells[i] = Raw BY <2>1 DEF Constructed
  <2> QED BY <2>2, <2>3
<1> DEFINE r == [cells |-> c, end |-> e + Len(given)]
<1>7. r.cells = c /\ r.end = e + Len(given) OBVIOUS
<1> HIDE DEF r
<1>8. r.end = Len(t) /\ Len(t) <= Len(r.cells) /\ r.cells \in Seq(Cell) /\ t \in Seq(Cell)
  BY <1>1, <1>2, <1>3, <1>4, <1>7
<1>9. \A i \in 1..Len(t) : r.cells[i] = t[i] BY <1>2, <1>4, <1>5, <1>7
<1>10. \A i \in 1..Len(r.cells) : i > Len(t) => r.cells[i] = Raw BY <1>2, <1>4, <1>6, <1>7
<1>11. Holds(r, t) BY <1>8, <1>9, <1>10, Made
<1> QED BY <1>11 DEF r, t, c, e, s

LEMMA InsertSomeHolds ==
  ASSUME NEW w, Constructed(w), NEW p \in 1..w.end + 1, NEW given \in Seq(Cell)
  PROVE  Holds(InsertSome(w, p, given), With(Elements(w), p, given))
<1>1. w.end \in Nat /\ Len(w.cells) \in Nat /\ Len(given) \in Nat
  BY LenProperties DEF Constructed
<1>2. CASE Capacity(w) > w.end + Len(given) /\ p = w.end + 1
  <2>1. w.end + Len(given) <= Len(w.cells) BY <1>1, <1>2 DEF Capacity
  <2>2. Holds([cells |-> Copied(w.cells, given, w.end + 1), end |-> w.end + Len(given)],
              With(Elements(w), w.end + 1, given))
    BY <2>1, AppendedHolds
  <2>3. InsertSome(w, p, given)
        = [cells |-> Copied(w.cells, given, w.end + 1), end |-> w.end + Len(given)]
    BY <1>2 DEF InsertSome
  <2> QED BY <1>2, <2>2, <2>3
<1>3. CASE ~(Capacity(w) > w.end + Len(given) /\ p = w.end + 1)
  <2>1. InsertSome(w, p, given) = InsertOverflow(w, p, given) BY <1>3 DEF InsertSome
  <2> QED BY <2>1, OverflowHolds
<1> QED BY <1>2, <1>3

LEMMA InsertFillHolds ==
  ASSUME NEW w, Constructed(w), NEW p \in 1..w.end + 1, NEW n \in Nat, NEW a,
         ReadCell(w.cells, a) \in Cell
  PROVE  Holds(InsertFill(w, p, n, a),
               With(Elements(w), p, [i \in 1..n |-> ReadCell(w.cells, a)]))
<1> DEFINE x == ReadCell(w.cells, a)
           fill == [i \in 1..n |-> x]
<1> HIDE DEF x
<1>1. x \in Cell BY DEF x
<1>2. fill \in Seq(Cell) /\ Len(fill) = n BY <1>1
<1>3. CASE n # 0
  <2>1. Holds(InsertSome(w, p, fill), With(Elements(w), p, fill))
    BY <1>2, InsertSomeHolds
  <2>2. InsertFill(w, p, n, a) = InsertSome(w, p, fill) BY <1>3 DEF InsertFill, x
  <2> QED BY <2>1, <2>2 DEF x
<1>4. CASE n = 0
  <2>1. InsertFill(w, p, n, a) = w BY <1>4 DEF InsertFill
  <2> DEFINE s == Elements(w)
  <2>2. s \in Seq(Cell) /\ Len(s) = w.end BY ElementsFact
  <2>3. w.end \in Nat BY DEF Constructed
  <2> HIDE DEF s, fill
  <2> DEFINE t == With(s, p, fill)
  <2>4. /\ t \in Seq(Cell) /\ Len(t) = Len(s) + Len(fill)
        /\ \A i \in 1..Len(s) + Len(fill) :
             t[i] = IF i < p THEN s[i]
                    ELSE IF i < p + Len(fill) THEN fill[i - p + 1] ELSE s[i - Len(fill)]
    <3>1. s \in Seq(Cell) /\ fill \in Seq(Cell) /\ p \in 1..Len(s) + 1 BY <1>2, <2>2
    <3> QED BY ONLY <3>1, WithFact DEF t
  <2> HIDE DEF t
  <2>5. Len(t) = Len(s) /\ \A i \in 1..Len(t) : t[i] = s[i] BY <1>2, <1>4, <2>2, <2>3, <2>4
  <2>6. t = s BY <2>2, <2>4, <2>5, SeqEqual
  <2>7. Holds(w, s) BY DEF Holds, s
  <2> QED BY <2>1, <2>6, <2>7 DEF t, fill, x, s
<1> QED BY <1>3, <1>4

-----------------------------------------------------------------------------
(* The elements behind a gap move down, and what they leave is destroyed.   *)
LEMMA EraseCellsHolds ==
  ASSUME NEW w, Constructed(w), NEW first \in 1..w.end + 1, NEW last \in first..w.end + 1
  PROVE  Holds(EraseCells(w, first, last),
               SubSeq(Elements(w), 1, first - 1)
                 \o SubSeq(Elements(w), last, Len(Elements(w))))
<1> DEFINE s == Elements(w)
           e == w.end
           k == last - first
           n == e - k
           back == SubSeq(w.cells, last, e)
           down == Copied(w.cells, back, first)
           none == Allocated(k)
           c == Copied(down, none, n + 1)
           a == SubSeq(s, 1, first - 1)
           b == SubSeq(s, last, Len(s))
           t == a \o b
<1>1. /\ w.cells \in Seq(Cell) /\ e \in Nat /\ Len(w.cells) \in Nat /\ e <= Len(w.cells)
      /\ first \in Nat \ {0} /\ first <= e + 1 /\ last \in Nat \ {0} /\ last <= e + 1
      /\ first <= last /\ k \in Nat /\ n \in Nat
  BY LenProperties DEF Constructed
<1>2. /\ s \in Seq(Cell) /\ Len(s) = e
      /\ \A i \in 1..e : s[i] = w.cells[i] /\ w.cells[i] \in Cell
  BY ElementsFact
<1>3. /\ back \in Seq(Cell) /\ Len(back) = e - last + 1
      /\ \A i \in 1..e - last + 1 : back[i] = w.cells[last + i - 1]
  <2>1. w.cells \in Seq(Cell) /\ last \in Nat \ {0} /\ e \in Nat /\ last <= e + 1
        /\ e <= Len(w.cells)
    BY <1>1
  <2> HIDE DEF e
  <2> QED BY ONLY <2>1, PartFact DEF back
<1>4. /\ a \in Seq(Cell) /\ Len(a) = first - 1 /\ \A i \in 1..first - 1 : a[i] = s[i]
  <2>1. 1 \in Nat \ {0} /\ first - 1 \in Nat /\ 1 <= (first - 1) + 1 /\ first - 1 <= Len(s)
        /\ s \in Seq(Cell)
    BY <1>1, <1>2
  <2> HIDE DEF s
  <2>2. /\ a \in Seq(Cell) /\ Len(a) = (first - 1) - 1 + 1
        /\ \A i \in 1..(first - 1) - 1 + 1 : a[i] = s[1 + i - 1]
    BY <2>1, PartFact
  <2> QED BY <2>2
<1>5. /\ b \in Seq(Cell) /\ Len(b) = e - last + 1
      /\ \A i \in 1..e - last + 1 : b[i] = s[last + i - 1]
  <2>1. last \in Nat \ {0} /\ Len(s) \in Nat /\ last <= Len(s) + 1 /\ Len(s) <= Len(s)
        /\ s \in Seq(Cell)
    BY <1>1, <1>2
  <2> HIDE DEF s
  <2>2. /\ b \in Seq(Cell) /\ Len(b) = Len(s) - last + 1
        /\ \A i \in 1..Len(s) - last + 1 : b[i] = s[last + i - 1]
    BY <2>1, PartFact
  <2> QED BY <1>2, <2>2
<1>5a. /\ e \in Nat /\ k \in Nat /\ n \in Nat /\ first \in Nat /\ last \in Nat
      /\ 1 <= first /\ n + k = e /\ last = first + k /\ last <= e + 1
  BY <1>1
<1> HIDE DEF s, back, a, b, e, k, n
<1>6. /\ down \in Seq(Cell) /\ Len(down) = Len(w.cells)
      /\ \A i \in 1..Len(w.cells) :
           down[i] = IF first <= i /\ i < first + Len(back) THEN back[i - first + 1]
                     ELSE w.cells[i]
  <2>1. w.cells \in Seq(Cell) /\ back \in Seq(Cell) /\ first \in Nat \ {0} BY <1>1, <1>3
  <2> QED BY ONLY <2>1, CopiedFact DEF down
<1>7. none \in Seq(Cell) /\ Len(none) = k /\ \A i \in 1..k : none[i] = Raw
  BY <1>1, AllocatedFact
<1> HIDE DEF down, none
<1>8. /\ c \in Seq(Cell) /\ Len(c) = Len(down)
      /\ \A i \in 1..Len(down) :
           c[i] = IF n + 1 <= i /\ i < n + 1 + Len(none) THEN none[i - (n + 1) + 1]
                  ELSE down[i]
  <2>1. down \in Seq(Cell) /\ none \in Seq(Cell) /\ n + 1 \in Nat \ {0} BY <1>1, <1>6, <1>7
  <2> QED BY ONLY <2>1, CopiedFact DEF c
<1>9. /\ t \in Seq(Cell) /\ Len(t) = Len(a) + Len(b)
      /\ \A i \in 1..Len(a) + Len(b) : t[i] = IF i <= Len(a) THEN a[i] ELSE b[i - Len(a)]
  <2>1. a \in Seq(Cell) /\ b \in Seq(Cell) BY <1>4, <1>5
  <2> QED BY <2>1, ConcatProperties DEF t
<1> HIDE DEF c, t
<1>10. first + Len(back) = n + 1 /\ Len(a) + Len(b) = n /\ n + 1 + Len(none) = e + 1
  <2>1. e - last + 1 = n + 1 - first BY <1>5a
  <2>2. first + (n + 1 - first) = n + 1 /\ (first - 1) + (n + 1 - first) = n
        /\ n + 1 + k = e + 1
    BY <1>5a
  <2> QED BY <1>3, <1>4, <1>5, <1>7, <2>1, <2>2
<1>11. ASSUME NEW i \in 1..n PROVE c[i] = t[i]
  <2>1. i \in 1..Len(down) /\ i \in 1..Len(w.cells) /\ i \in 1..Len(a) + Len(b) /\ ~(n + 1 <= i)
    <3>1. i \in 1..Len(w.cells) /\ ~(n + 1 <= i) BY <1>5a, <1>1
    <3> QED BY <1>6, <1>10, <3>1
  <2>2. c[i] = down[i] BY <1>8, <2>1
  <2>3. CASE i < first
    <3>1. ~(first <= i) /\ i <= Len(a) /\ i \in 1..first - 1 /\ i \in 1..e
      BY <1>5a, <1>4, <2>3
    <3>2. down[i] = w.cells[i] BY <1>6, <2>1, <3>1
    <3>3. t[i] = a[i] /\ a[i] = s[i] BY <1>4, <1>9, <2>1, <3>1
    <3> QED BY <1>2, <2>2, <3>1, <3>2, <3>3
  <2>4. CASE first <= i
    <3>1. i < first + Len(back) /\ ~(i <= Len(a)) /\ i - Len(a) = i - first + 1
      BY <1>5a, <1>4, <1>10, <2>4
    <3> DEFINE j == i - first + 1
    <3>2. j \in 1..e - last + 1 /\ last + j - 1 \in 1..e BY <1>5a, <2>4
    <3>3. down[i] = back[j] BY <1>6, <2>1, <2>4, <3>1
    <3>4. t[i] = b[j] BY <1>9, <2>1, <3>1
    <3> HIDE DEF j
    <3>5. back[j] = w.cells[last + j - 1] /\ b[j] = s[last + j - 1] BY <1>3, <1>5, <3>2
    <3>6. s[last + j - 1] = w.cells[last + j - 1] BY <1>2, <3>2
    <3> QED BY <2>2, <3>3, <3>4, <3>5, <3>6
  <2> QED BY <1>5a, <2>3, <2>4
<1>12. ASSUME NEW i \in 1..Len(c), i > n PROVE c[i] = Raw
  <2>1. i \in 1..Len(down) /\ i \in 1..Len(w.cells) /\ n + 1 <= i BY <1>1, <1>6, <1>8, <1>12
  <2>2. CASE i <= e
    <3>1. i < n + 1 + Len(none) /\ i - (n + 1) + 1 \in 1..k BY <1>5a, <1>10, <2>1, <2>2
    <3>2. c[i] = none[i - (n + 1) + 1] BY <1>8, <2>1, <3>1
    <3> QED BY <1>7, <3>1, <3>2
  <2>3. CASE ~(i <= e)
    <3>1. ~(i < n + 1 + Len(none)) /\ ~(i < first + Len(back)) BY <1>5a, <1>10, <2>3
    <3>2. c[i] = down[i] BY <1>8, <2>1, <3>1
    <3>3. down[i] = w.cells[i] BY <1>6, <2>1, <3>1
    <3>4. w.cells[i] = Raw BY <2>1, <2>3 DEF Constructed, e
    <3> QED BY <3>2, <3>3, <3>4
  <2> QED BY <2>2, <2>3
<1> DEFINE r == [cells |-> c, end |-> n]
<1>13. r.cells = c /\ r.end = n OBVIOUS
<1>14. EraseCells(w, first, last) = r BY DEF EraseCells, c, down, back, none, e, n, k
<1>15. Len(t) = n /\ Len(c) = Len(w.cells) /\ n <= Len(w.cells) BY <1>5a, <1>1, <1>6, <1>8, <1>9, <1>10
<1> HIDE DEF r
<1>16. r.end = Len(t) /\ Len(t) <= Len(r.cells) /\ r.cells \in Seq(Cell) /\ t \in Seq(Cell)
  BY <1>8, <1>6, <1>9, <1>13, <1>15
<1>17. \A i \in 1..Len(t) : r.cells[i] = t[i] BY <1>11, <1>13, <1>15
<1>18. \A i \in 1..Len(r.cells) : i > Len(t) => r.cells[i] = Raw BY <1>12, <1>13, <1>15
<1>19. Holds(r, t) BY <1>16, <1>17, <1>18, Made
<1> QED BY <1>14, <1>19 DEF t, a, b, s

(* Resize cuts the sequence, or fills it up with x.                         *)
LEMMA ResizeHolds ==
  ASSUME NEW w, Constructed(w), NEW n \in Nat, NEW a, ReadCell(w.cells, a) \in Cell
  PROVE  Holds(Resize(w, n, a),
               [i \in 1..n |-> IF i <= Len(Elements(w)) THEN Elements(w)[i]
                               ELSE ReadCell(w.cells, a)])
<1> DEFINE s == Elements(w)
           e == w.end
           x == ReadCell(w.cells, a)
           t == [i \in 1..n |-> IF i <= Len(s) THEN s[i] ELSE x]
<1>1. e \in Nat /\ x \in Cell BY DEF Constructed
<1>2. s \in Seq(Cell) /\ Len(s) = e BY ElementsFact
<1> HIDE DEF s, x
<1>3. t \in Seq(Cell) /\ Len(t) = n
  <2>1. ASSUME NEW i \in 1..n PROVE (IF i <= Len(s) THEN s[i] ELSE x) \in Cell
    <3>1. CASE i <= Len(s)
      <4>1. i \in 1..Len(s) BY <1>1, <1>2, <3>1
      <4>2. s[i] \in Cell BY <1>2, <4>1, ElementOfSeq
      <4> QED BY <3>1, <4>2
    <3> QED BY <1>1, <3>1
  <2>2. t \in [1..n -> Cell] BY <2>1
  <2> HIDE DEF t
  <2> QED BY <2>2
<1>4. \A i \in 1..n : t[i] = IF i <= e THEN s[i] ELSE x BY <1>2
<1>5. CASE n < e
  <2>1. n + 1 \in 1..w.end + 1 /\ w.end + 1 \in n + 1..w.end + 1 BY <1>1, <1>5
  <2> DEFINE p == SubSeq(s, 1, n + 1 - 1)
             q == SubSeq(s, e + 1, Len(s))
  <2>2. Holds(EraseCells(w, n + 1, w.end + 1), p \o q) BY <2>1, EraseCellsHolds DEF s
  <2>3. /\ p \in Seq(Cell) /\ Len(p) = n /\ \A i \in 1..n : p[i] = s[i]
    <3>1. 1 \in Nat \ {0} /\ n \in Nat /\ 1 <= n + 1 /\ n <= Len(s) /\ n + 1 - 1 = n
      BY <1>1, <1>2, <1>5
    <3>2. /\ SubSeq(s, 1, n) \in Seq(Cell) /\ Len(SubSeq(s, 1, n)) = n - 1 + 1
          /\ \A i \in 1..n - 1 + 1 : SubSeq(s, 1, n)[i] = s[1 + i - 1]
      BY <1>2, <3>1, PartFact
    <3> QED BY <3>1, <3>2
  <2>4. q \in Seq(Cell) /\ Len(q) = 0
    <3>1. e + 1 \in Nat \ {0} /\ Len(s) \in Nat /\ e + 1 <= Len(s) + 1 /\ Len(s) <= Len(s)
      BY <1>1, <1>2
    <3>2. q \in Seq(Cell) /\ Len(q) = Len(s) - (e + 1) + 1 BY <1>2, <3>1, PartFact
    <3> QED BY <1>1, <1>2, <3>2
  <2> HIDE DEF p, q
  <2>5. /\ p \o q \in Seq(Cell) /\ Len(p \o q) = Len(p) + Len(q)
        /\ \A i \in 1..Len(p) + Len(q) : (p \o q)[i] = IF i <= Len(p) THEN p[i] ELSE q[i - Len(p)]
    BY <2>3, <2>4, ConcatProperties
  <2> HIDE DEF t
  <2>6. Len(p \o q) = Len(t) /\ \A i \in 1..n : (p \o q)[i] = p[i]
    BY <1>3, <2>3, <2>4, <2>5
  <2>7. \A i \in 1..n : p[i] = t[i] BY <1>1, <1>4, <1>5, <2>3
  <2>8. p \o q = t BY <1>3, <2>5, <2>6, <2>7, SeqEqual
  <2>9. Resize(w, n, a) = EraseCells(w, n + 1, w.end + 1) BY <1>5 DEF Resize
  <2> QED BY <2>2, <2>8, <2>9 DEF t, s, x
<1>6. CASE ~(n < e)
  <2> DEFINE k == n - e
             fill == [i \in 1..k |-> x]
             u == With(s, e + 1, fill)
  <2>1. e + 1 \in 1..e + 1 /\ k \in Nat BY <1>1, <1>6
  <2>2. Holds(InsertFill(w, w.end + 1, n - w.end, a), u)
    BY <1>1, <2>1, InsertFillHolds DEF s, x
  <2>3. fill \in Seq(Cell) /\ Len(fill) = k /\ \A i \in 1..k : fill[i] = x
    <3> HIDE DEF k
    <3> QED BY <1>1, <2>1
  <2> HIDE DEF fill
  <2>4. /\ u \in Seq(Cell) /\ Len(u) = Len(s) + Len(fill)
        /\ \A i \in 1..Len(s) + Len(fill) :
             u[i] = IF i < e + 1 THEN s[i]
                    ELSE IF i < e + 1 + Len(fill) THEN fill[i - (e + 1) + 1]
                    ELSE s[i - Len(fill)]
    <3>1. s \in Seq(Cell) /\ fill \in Seq(Cell) /\ e + 1 \in 1..Len(s) + 1
      BY <1>2, <2>1, <2>3
    <3> QED BY ONLY <3>1, WithFact DEF u
  <2> HIDE DEF u, t
  <2>5. Len(s) + Len(fill) = n BY <1>1, <1>2, <2>3
  <2>6. ASSUME NEW i \in 1..n PROVE u[i] = t[i]
    <3>1. CASE i <= e
      <4>1. i < e + 1 BY <1>1, <3>1
      <4> QED BY <1>4, <2>4, <2>5, <3>1, <4>1
    <3>2. CASE ~(i <= e)
      <4>1. ~(i < e + 1) /\ i < e + 1 + Len(fill) /\ i - (e + 1) + 1 \in 1..k
        BY <1>1, <2>1, <2>3, <3>2
      <4>2. u[i] = fill[i - (e + 1) + 1] BY <2>4, <2>5, <4>1
      <4>3. fill[i - (e + 1) + 1] = x BY <2>3, <4>1
      <4> QED BY <1>4, <3>2, <4>2, <4>3
    <3> QED BY <3>1, <3>2
  <2>7. Len(u) = Len(t) /\ Len(t) = n BY <1>3, <2>4, <2>5
  <2>8. u = t BY <1>3, <2>4, <2>6, <2>7, SeqEqual
  <2>9. Resize(w, n, a) = InsertFill(w, w.end + 1, n - w.end, a) BY <1>6 DEF Resize
  <2> QED BY <2>2, <2>8, <2>9 DEF t, s, x
<1> QED BY <1>5, <1>6

LEMMA ReserveHolds ==
  ASSUME NEW w, Constructed(w), NEW n \in Nat
  PROVE  Holds(Reserve(w, n), Elements(w))
<1> DEFINE s == Elements(w)
<1>1. CASE Capacity(w) < n
  <2>1. s \in Seq(Cell) /\ Len(s) = w.end BY ElementsFact
  <2>2. w.end <= Len(w.cells) /\ w.end \in Nat /\ Len(w.cells) \in Nat
    BY LenProperties DEF Constructed
  <2> HIDE DEF s
  <2>3. Len(s) <= n BY <1>1, <2>1, <2>2 DEF Capacity
  <2>4. Holds(Moved(s, n), s) BY <2>1, <2>3, MovedHolds
  <2>5. Reserve(w, n) = Moved(s, n) BY <1>1 DEF Reserve, s
  <2> QED BY <2>4, <2>5 DEF s
<1>2. CASE ~(Capacity(w) < n)
  <2>1. Reserve(w, n) = w BY <1>2 DEF Reserve
  <2> QED BY <2>1 DEF Holds
<1> QED BY <1>1, <1>2

LEMMA AssignCellsHolds ==
  ASSUME NEW w, Constructed(w), NEW given \in Seq(Cell)
  PROVE  Holds(AssignCells(w, given), given)
<1>1. /\ w.cells \in Seq(Cell) /\ w.end \in Nat /\ Len(w.cells) \in Nat /\ w.end <= Len(w.cells)
      /\ Len(given) \in Nat /\ given \in Seq(Cell)
  BY LenProperties DEF Constructed
<1>2. CASE Len(given) > Capacity(w)
  <2>1. Holds(Moved(given, Len(given)), given) BY <1>1, MovedHolds
  <2> QED BY <1>2, <2>1 DEF AssignCells
<1>3. CASE ~(Len(given) > Capacity(w))
  <2> DEFINE e == w.end
             none == Allocated(e)
             bare == Copied(w.cells, none, 1)
             c == Copied(bare, given, 1)
  <2>1. none \in Seq(Cell) /\ Len(none) = e /\ \A i \in 1..e : none[i] = Raw
    BY <1>1, AllocatedFact
  <2> HIDE DEF none
  <2>2. /\ bare \in Seq(Cell) /\ Len(bare) = Len(w.cells)
        /\ \A i \in 1..Len(w.cells) :
             bare[i] = IF 1 <= i /\ i < 1 + Len(none) THEN none[i - 1 + 1] ELSE w.cells[i]
    <3> DEFINE old == w.cells
    <3>1. old \in Seq(Cell) /\ none \in Seq(Cell) /\ 1 \in Nat \ {0} BY <1>1, <2>1
    <3> HIDE DEF old
    <3>2. /\ Copied(old, none, 1) \in Seq(Cell) /\ Len(Copied(old, none, 1)) = Len(old)
          /\ \A i \in 1..Len(old) :
               Copied(old, none, 1)[i] = IF 1 <= i /\ i < 1 + Len(none) THEN none[i - 1 + 1]
                                         ELSE old[i]
      BY ONLY <3>1, CopiedFact
    <3> QED BY <3>2 DEF bare, old
  <2> HIDE DEF bare
  <2>3. /\ c \in Seq(Cell) /\ Len(c) = Len(bare)
        /\ \A i \in 1..Len(bare) :
             c[i] = IF 1 <= i /\ i < 1 + Len(given) THEN given[i - 1 + 1] ELSE bare[i]
    <3>1. bare \in Seq(Cell) /\ given \in Seq(Cell) /\ 1 \in Nat \ {0} BY <1>1, <2>2
    <3> QED BY ONLY <3>1, CopiedFact DEF c
  <2> HIDE DEF c
  <2>4. Len(c) = Len(w.cells) /\ Len(given) <= Len(c) BY <1>1, <1>3, <2>2, <2>3 DEF Capacity
  <2>5. ASSUME NEW i \in 1..Len(given) PROVE c[i] = given[i]
    <3>1. i \in 1..Len(bare) /\ 1 <= i /\ i < 1 + Len(given) /\ i - 1 + 1 = i
      BY <1>1, <2>3, <2>4
    <3> QED BY <2>3, <3>1
  <2>6. ASSUME NEW i \in 1..Len(c), i > Len(given) PROVE c[i] = Raw
    <3>1. i \in 1..Len(bare) /\ i \in 1..Len(w.cells) /\ ~(i < 1 + Len(given))
      BY <1>1, <2>3, <2>4, <2>6
    <3>2. c[i] = bare[i] BY <2>3, <3>1
    <3>3. CASE i <= e
      <4>1. i \in 1..e /\ 1 <= i /\ i < 1 + Len(none) /\ i - 1 + 1 = i BY <1>1, <2>1, <3>3
      <4>2. bare[i] = none[i] BY <2>2, <3>1, <4>1
      <4> QED BY <2>1, <3>2, <4>1, <4>2
    <3>4. CASE ~(i <= e)
      <4>1. ~(i < 1 + Len(none)) BY <1>1, <2>1, <3>4
      <4>2. bare[i] = w.cells[i] BY <2>2, <3>1, <4>1
      <4>3. w.cells[i] = Raw BY <3>1, <3>4 DEF Constructed
      <4> QED BY <3>2, <4>2, <4>3
    <3> QED BY <3>3, <3>4
  <2> DEFINE r == [cells |-> c, end |-> Len(given)]
  <2>7. r.cells = c /\ r.end = Len(given) OBVIOUS
  <2>8. AssignCells(w, given) = r BY <1>3 DEF AssignCells, c, bare, none
  <2> HIDE DEF r
  <2>9. Holds(r, given) BY <2>3, <2>4, <2>5, <2>6, <2>7, Made
  <2> QED BY <2>8, <2>9
<1> QED BY <1>2, <1>3
-----------------------------------------------------------------------------
(* The invariant: the elements are constructed where they should be, and    *)
(* they are values.                                                         *)
VectorInv == Constructed(v) /\ Elements(v) \in Seq(Value)

LEMMA ReadCellType ==
  ASSUME NEW w, Constructed(w), Elements(w) \in Seq(Value), NEW max, NEW a \in Argument(max), Readable(w, a),
         max \in Nat
  PROVE  ReadCell(w.cells, a) \in Value
<1>1. CASE a \in [own : {FALSE}, value : Value]
  BY <1>1 DEF ReadCell
<1>2. CASE a \in [own : {TRUE}, index : 1..max]
  <2>1. a.own = TRUE /\ a.index \in 1..max BY <1>2
  <2>2. a.index <= w.end BY <2>1 DEF Readable
  <2>3. w.end \in Nat BY DEF Constructed
  <2>4. a.index \in 1..w.end BY <2>1, <2>2, <2>3
  <2>5. w.cells[a.index] \in Value
    <3>1. Len(Elements(w)) = w.end /\ Elements(w)[a.index] = w.cells[a.index] BY <2>4, ElementsFact
    <3>2. Elements(w)[a.index] \in Value BY <2>4, <3>1, ElementOfSeq
    <3> QED BY <3>1, <3>2
  <2> QED BY <2>1, <2>5 DEF ReadCell
<1> QED BY <1>1, <1>2 DEF Argument

LEMMA ValuesAreCells == Seq(Value) \subseteq Seq(Cell)
BY SeqMonotonic DEF Cell

LEMMA SlicesAreValues == VectorInv => Slice \subseteq Seq(Value)
<1> SUFFICES ASSUME VectorInv, NEW s \in Slice PROVE s \in Seq(Value)
  OBVIOUS
<1>0. PICK i \in 1..v.end, j \in 1..v.end : s = SubSeq(v.cells, i, j)
  BY DEF Slice
<1>1. v.end \in Nat /\ i \in Int /\ j \in Int BY DEF VectorInv, Constructed
<1>2. ASSUME NEW k \in i..j PROVE v.cells[k] \in Value
  <2>1. k \in 1..v.end BY <1>1
  <2>2. Len(Elements(v)) = v.end /\ Elements(v)[k] = v.cells[k]
    BY <2>1, ElementsFact DEF VectorInv
  <2>3. Elements(v)[k] \in Value BY <2>1, <2>2, ElementOfSeq DEF VectorInv
  <2> QED BY <2>2, <2>3
<1>3. SubSeq(v.cells, i, j) \in Seq(Value) BY <1>1, <1>2, SubSeqProperties
<1> QED BY <1>0, <1>3

LEMMA ArgumentsAreValues ==
  VectorInv => \A a \in Arguments : ReadCell(v.cells, a) \in Value
<1> SUFFICES ASSUME VectorInv, NEW a \in Arguments PROVE ReadCell(v.cells, a) \in Value
  OBVIOUS
<1>1. a \in Argument(MaxCapacity) /\ Readable(v, a) BY DEF Arguments
<1> QED BY <1>1, ReadCellType, VectorAssumption DEF VectorInv

(* What a call writes, of values.                                           *)
LEMMA CallsWriteValues ==
  ASSUME NEW s \in Seq(Value)
  PROVE  /\ \A p \in 1..Len(s) + 1, given \in Seq(Value) : With(s, p, given) \in Seq(Value)
         /\ \A x \in Value, n \in Nat :
              [i \in 1..n |-> IF i <= Len(s) THEN s[i] ELSE x] \in Seq(Value)
         /\ \A first \in 1..Len(s) + 1 : \A last \in first..Len(s) + 1 :
              SubSeq(s, 1, first - 1) \o SubSeq(s, last, Len(s)) \in Seq(Value)
<1>1. Len(s) \in Nat BY LenProperties
<1>2. ASSUME NEW x \in Value, NEW n \in Nat
      PROVE  [i \in 1..n |-> IF i <= Len(s) THEN s[i] ELSE x] \in Seq(Value)
  <2> DEFINE t == [i \in 1..n |-> IF i <= Len(s) THEN s[i] ELSE x]
  <2>1. ASSUME NEW i \in 1..n PROVE (IF i <= Len(s) THEN s[i] ELSE x) \in Value
    <3>1. CASE i <= Len(s)
      <4>1. i \in 1..Len(s) BY <1>1, <3>1
      <4>2. s[i] \in Value BY <4>1, ElementOfSeq
      <4> QED BY <3>1, <4>2
    <3>2. CASE ~(i <= Len(s)) BY <3>2
    <3> QED BY <3>1, <3>2
  <2>2. t \in [1..n -> Value] BY <2>1
  <2> HIDE DEF t
  <2>3. t \in Seq(Value) BY <2>2
  <2> QED BY <2>3 DEF t
<1>3. ASSUME NEW first \in 1..Len(s) + 1, NEW last \in first..Len(s) + 1
      PROVE  SubSeq(s, 1, first - 1) \o SubSeq(s, last, Len(s)) \in Seq(Value)
  <2>1. SubSeq(s, 1, first - 1) \in Seq(Value) BY <1>1, PartFact
  <2>2. SubSeq(s, last, Len(s)) \in Seq(Value) BY <1>1, PartFact
  <2> QED BY <2>1, <2>2, ConcatProperties
<1> QED BY <1>2, <1>3, WithFact

THEOREM VectorIsConstructed == VectorSpec => []VectorInv
<1>1. VectorInit => VectorInv
  <2> SUFFICES ASSUME VectorInit PROVE VectorInv OBVIOUS
  <2>1. v.cells = <<>> /\ v.end = 0 BY DEF VectorInit, NoCells
  <2>2. Constructed(v) BY <2>1 DEF Constructed
  <2>3. Elements(v) = <<>>
    <3>1. Len(Elements(v)) = 0 /\ Elements(v) \in Seq(Cell) BY <2>1, <2>2, ElementsFact
    <3> QED BY <3>1
  <2> QED BY <2>2, <2>3 DEF VectorInv
<1>2. VectorInv /\ [VectorNext]_v => VectorInv'
  <2> SUFFICES ASSUME VectorInv, [VectorNext]_v PROVE VectorInv' OBVIOUS
  <2> DEFINE s == Elements(v)
  <2>0. Constructed(v) /\ s \in Seq(Value) /\ Len(s) = v.end
    BY ElementsFact DEF VectorInv
  <2>0a. /\ \A p \in Position, given \in Seq(Value) : With(s, p, given) \in Seq(Value)
         /\ \A x \in Value, n \in Nat :
              [i \in 1..n |-> IF i <= Len(s) THEN s[i] ELSE x] \in Seq(Value)
         /\ \A first \in Position : \A last \in first..v.end + 1 :
              SubSeq(s, 1, first - 1) \o SubSeq(s, last, Len(s)) \in Seq(Value)
    BY <2>0, CallsWriteValues DEF Position
  <2> USE SlicesAreValues, ArgumentsAreValues, <2>0
  <2>1. ASSUME NEW w, NEW u \in Seq(Value), Holds(w, u), Become(w) PROVE VectorInv'
    <3>1. v' = w /\ Constructed(w) /\ Elements(w) = u BY <2>1 DEF Become, Holds
    <3> QED BY <3>1 DEF VectorInv, Constructed, Elements
  <2> HIDE DEF s
  <2>3. ASSUME NEW p \in Position, NEW a \in Arguments, Become(InsertOne(v, p, a))
        PROVE  VectorInv'
    <3> DEFINE x == ReadCell(v.cells, a)
    <3>1. Holds(InsertOne(v, p, a), With(s, p, <<x>>))
      BY InsertOneHolds DEF Position, s, Cell
    <3>2. <<x>> \in Seq(Value)
      <4> HIDE DEF x
      <4>1. x \in Value BY DEF x
      <4> QED BY <4>1
    <3> HIDE DEF x
    <3>3. With(s, p, <<x>>) \in Seq(Value) BY <2>0a, <3>2
    <3> QED BY <2>1, <2>3, <3>1, <3>3
  <2>4. ASSUME NEW p \in Position, NEW given \in Slice, Become(InsertSome(v, p, given))
        PROVE  VectorInv'
    <3>1. Holds(InsertSome(v, p, given), With(s, p, given))
      BY InsertSomeHolds, ValuesAreCells DEF Position, s
    <3> QED BY <2>0a, <2>1, <2>4, <3>1
  <2>5. ASSUME NEW p \in Position, NEW n \in 0..2, NEW a \in Arguments,
               Become(InsertFill(v, p, n, a))
        PROVE  VectorInv'
    <3> DEFINE x == ReadCell(v.cells, a)
               fill == [i \in 1..n |-> x]
    <3>1. Holds(InsertFill(v, p, n, a), With(s, p, fill))
      <4>1. p \in 1..v.end + 1 /\ n \in Nat /\ ReadCell(v.cells, a) \in Cell
            /\ Constructed(v)
        BY DEF Position, Cell
      <4> QED BY ONLY <4>1, InsertFillHolds DEF s
    <3>2. x \in Value OBVIOUS
    <3> HIDE DEF x
    <3>3. fill \in Seq(Value) BY <3>2
    <3> HIDE DEF fill
    <3>4. With(s, p, fill) \in Seq(Value) BY <2>0a, <3>3
    <3> QED BY <2>1, <2>5, <3>1, <3>4
  <2>6. ASSUME NEW first \in Position, NEW last \in first..v.end + 1,
               Become(EraseCells(v, first, last))
        PROVE  VectorInv'
    <3>1. Holds(EraseCells(v, first, last), SubSeq(s, 1, first - 1) \o SubSeq(s, last, Len(s)))
      BY EraseCellsHolds DEF Position, s
    <3> QED BY <2>0a, <2>1, <2>6, <3>1
  <2>7. ASSUME NEW n \in 0..MaxCapacity, NEW a \in Arguments, Become(Resize(v, n, a))
        PROVE  VectorInv'
    <3> DEFINE x == ReadCell(v.cells, a)
               t == [i \in 1..n |-> IF i <= Len(s) THEN s[i] ELSE x]
    <3>1. Holds(Resize(v, n, a), t) BY ResizeHolds DEF s, Cell
    <3>2. x \in Value /\ n \in Nat BY VectorAssumption
    <3> HIDE DEF x
    <3>3. t \in Seq(Value) BY <2>0a, <3>2
    <3> HIDE DEF t
    <3> QED BY <2>1, <2>7, <3>1, <3>3
  <2>8. ASSUME NEW n \in 0..MaxCapacity, Become(Reserve(v, n)) PROVE VectorInv'
    <3>1. Holds(Reserve(v, n), s) BY ReserveHolds, VectorAssumption DEF s
    <3> QED BY <2>1, <2>8, <3>1
  <2>9. ASSUME NEW given \in Slice, Become(AssignCells(v, given)) PROVE VectorInv'
    <3>1. Holds(AssignCells(v, given), given) BY AssignCellsHolds, ValuesAreCells
    <3> QED BY <2>1, <2>9, <3>1
  <2>10. CASE UNCHANGED v BY <2>10 DEF VectorInv, Constructed, Elements
  <2> QED BY <2>3, <2>4, <2>5, <2>6, <2>7, <2>8, <2>9, <2>10 DEF VectorNext
<1> QED BY <1>1, <1>2, PTL DEF VectorSpec

(* Whatever its memory does, a vector is a sequence: for every set of       *)
(* values and every capacity.                                               *)
LEMMA SequenceIfConstructed == VectorInv => VectorIsSequence
<1> SUFFICES ASSUME VectorInv PROVE VectorIsSequence OBVIOUS
<1> USE SlicesAreValues, ArgumentsAreValues
<1> DEFINE s == Elements(v)
<1>0. Constructed(v) /\ v.cells \in Seq(Cell) /\ v.end \in Nat BY DEF VectorInv, Constructed
<1>1. \A i \in DOMAIN v.cells : v.cells[i] # Raw <=> i <= v.end
  <2> SUFFICES ASSUME NEW i \in 1..Len(v.cells) PROVE v.cells[i] # Raw <=> i <= v.end
    BY <1>0, LenProperties
  <2>1. CASE i <= v.end
    <3>1. i \in 1..v.end BY <1>0, <2>1
    <3>2. Len(s) = v.end /\ s[i] = v.cells[i] BY <1>0, <3>1, ElementsFact
    <3>3. s[i] \in Value BY <3>1, <3>2, ElementOfSeq DEF VectorInv
    <3> QED BY <2>1, <3>2, <3>3, VectorAssumption
  <2>2. CASE ~(i <= v.end)
    <3>1. Len(v.cells) \in Nat BY <1>0, LenProperties
    <3>2. i > v.end BY <1>0, <2>2, <3>1
    <3> QED BY <1>0, <2>2, <3>2 DEF Constructed
  <2> QED BY <2>1, <2>2
<1>2. ASSUME NEW p \in Position, NEW a \in Arguments
      PROVE  LET x == ReadCell(v.cells, a)
             IN  /\ Elements(InsertOne(v, p, a)) = With(s, p, <<x>>)
                 /\ Elements(InsertFill(v, p, 2, a)) = With(s, p, <<x, x>>)
                 /\ \A n \in 0..MaxCapacity :
                      Elements(Resize(v, n, a)) =
                        [i \in 1..n |-> IF i <= Len(s) THEN s[i] ELSE x]
  <2> DEFINE x == ReadCell(v.cells, a)
  <2>0. ReadCell(v.cells, a) \in Cell BY DEF Cell
  <2>1. Elements(InsertOne(v, p, a)) = With(s, p, <<x>>)
    BY <1>0, <2>0, InsertOneHolds DEF Position, Holds
  <2>2. Elements(InsertFill(v, p, 2, a)) = With(s, p, <<x, x>>)
    <3>1. Elements(InsertFill(v, p, 2, a)) = With(s, p, [i \in 1..2 |-> x])
      <4>1. p \in 1..v.end + 1 /\ 2 \in Nat BY DEF Position
      <4>2. Holds(InsertFill(v, p, 2, a), With(s, p, [i \in 1..2 |-> x]))
        BY ONLY <1>0, <2>0, <4>1, InsertFillHolds
      <4> QED BY <4>2 DEF Holds
    <3>2. [i \in 1..2 |-> x] = <<x, x>> OBVIOUS
    <3> QED BY <3>1, <3>2
  <2>3. ASSUME NEW n \in 0..MaxCapacity
        PROVE  Elements(Resize(v, n, a)) =
                 [i \in 1..n |-> IF i <= Len(s) THEN s[i] ELSE x]
    BY <1>0, <2>0, ResizeHolds, VectorAssumption DEF Holds
  <2> QED BY <2>1, <2>2, <2>3
<1>3. ASSUME NEW p \in Position, NEW given \in Slice
      PROVE  Elements(InsertSome(v, p, given)) = With(s, p, given)
             /\ Elements(AssignCells(v, given)) = given
  BY <1>0, InsertSomeHolds, AssignCellsHolds, ValuesAreCells DEF Position, Holds
<1>4. ASSUME NEW first \in Position, NEW last \in first..v.end + 1
      PROVE  Elements(EraseCells(v, first, last)) =
               SubSeq(s, 1, first - 1) \o SubSeq(s, last, Len(s))
  BY <1>0, EraseCellsHolds DEF Position, Holds
<1>5. ASSUME NEW n \in 0..MaxCapacity PROVE Elements(Reserve(v, n)) = s
  BY <1>0, ReserveHolds, VectorAssumption DEF Holds
<1> QED BY <1>1, <1>2, <1>3, <1>4, <1>5 DEF VectorIsSequence

THEOREM VectorsAreSequences == VectorSpec => []VectorIsSequence
BY VectorIsConstructed, SequenceIfConstructed, PTL
-----------------------------------------------------------------------------
(* STRINGS *)
(* Every buffer has as many references as strings point to it, and in its   *)
(* memory a text and nothing behind it.                                     *)
Texts == [cells : Seq(Cell), end : Nat]
Users(h, b) == {s \in String : h.impl[s] = b}
Heaps ==
  [impl : [String -> Buffer \cup {Null}], refs : [Buffer -> Nat], text : [Buffer -> Texts]]
Counted(h) ==
  /\ h \in Heaps
  /\ \A b \in Buffer : Constructed(h.text[b]) /\ h.refs[b] = Cardinality(Users(h, b))

(* What a call on s does, which leaves it with the text u.                  *)
Makes_Text(h, r, s, u) ==
  /\ Counted(r)
  /\ \A t \in String : Text(r, t) = IF t = s THEN u ELSE Text(h, t)
-----------------------------------------------------------------------------
LEMMA UsersAreFinite ==
  ASSUME NEW h, NEW b
  PROVE  IsFiniteSet(Users(h, b)) /\ Cardinality(Users(h, b)) \in Nat
<1>1. Users(h, b) \in SUBSET String BY DEF Users
<1> QED BY <1>1, FS_Subset, FS_CardinalityType, StringsAssumption

LEMMA BuffersFact == Cardinality(String) \in Nat /\ Null \notin Buffer /\ Buffer \subseteq Nat
BY FS_CardinalityType, StringsAssumption DEF Buffer, Null

(* A buffer somebody points to has references, and one if it is the only    *)
(* one.                                                                     *)
LEMMA ReferencesFact ==
  ASSUME NEW h, Counted(h), NEW s \in String, h.impl[s] # Null
  PROVE  /\ h.impl[s] \in Buffer /\ h.refs[h.impl[s]] \in Nat /\ h.refs[h.impl[s]] > 0
         /\ h.refs[h.impl[s]] = 1 <=> \A t \in String : h.impl[t] = h.impl[s] => t = s
<1> DEFINE b == h.impl[s]
           U == Users(h, b)
<1>1. b \in Buffer /\ h.refs[b] \in Nat BY DEF Counted, Heaps
<1>2. h.refs[b] = Cardinality(U) BY <1>1 DEF Counted
<1>3. s \in U BY DEF Users
<1>4. IsFiniteSet(U) /\ Cardinality(U) \in Nat BY UsersAreFinite
<1>5. Cardinality(U) # 0 BY <1>3, <1>4, FS_EmptySet
<1>6. Cardinality(U) = 1 <=> \E x : U = {x} BY <1>4, FS_Singleton
<1>7. (\E x : U = {x}) <=> \A t \in U : t = s BY <1>3
<1>8. (\A t \in U : t = s) <=> \A t \in String : h.impl[t] = b => t = s BY DEF Users
<1> QED BY <1>1, <1>2, <1>4, <1>5, <1>6, <1>7, <1>8

LEMMA TextFact ==
  ASSUME NEW h, Counted(h), NEW s \in String
  PROVE  Text(h, s) \in Seq(Cell)
<1>1. CASE h.impl[s] = Null BY <1>1 DEF Text
<1>2. CASE h.impl[s] # Null
  <2>1. h.impl[s] \in Buffer BY <1>2, ReferencesFact
  <2>2. Constructed(h.text[h.impl[s]]) BY <2>1 DEF Counted
  <2> QED BY <1>2, <2>2, ElementsFact DEF Text
<1> QED BY <1>1, <1>2

LEMMA NoCellsFact == NoCells \in Texts /\ Holds(NoCells, <<>>)
<1>1. NoCells.cells = <<>> /\ NoCells.end = 0 /\ NoCells \in Texts BY DEF NoCells, Texts
<1>2. Constructed(NoCells) BY <1>1 DEF Constructed
<1>3. Len(Elements(NoCells)) = 0 /\ Elements(NoCells) \in Seq(Cell) BY <1>1, <1>2, ElementsFact
<1>4. Elements(NoCells) = <<>> BY <1>3
<1> QED BY <1>1, <1>2, <1>4 DEF Holds

(* A string lets its buffer go.                                             *)
LEMMA ReleaseFact ==
  ASSUME NEW h, Counted(h), NEW s \in String
  PROVE  /\ Makes_Text(h, Release(h, s), s, <<>>)
         /\ Release(h, s).impl = [h.impl EXCEPT ![s] = Null]
<1> DEFINE r == Release(h, s)
           b == h.impl[s]
<1>0. h \in Heaps BY DEF Counted
<1>1. CASE b = Null
  <2>1. r = h BY <1>1 DEF Release
  <2>2. Text(h, s) = <<>> BY <1>1 DEF Text
  <2>3. h.impl = [h.impl EXCEPT ![s] = Null] BY <1>0, <1>1 DEF Heaps
  <2> QED BY <2>1, <2>2, <2>3 DEF Makes_Text
<1>2. CASE b # Null
  <2>1. /\ b \in Buffer /\ h.refs[b] \in Nat /\ h.refs[b] > 0
        /\ h.refs[b] = 1 <=> \A t \in String : h.impl[t] = b => t = s
    BY <1>2, ReferencesFact
  <2> DEFINE left == IF h.refs[b] = 1 THEN NoCells ELSE h.text[b]
             impl == [h.impl EXCEPT ![s] = Null]
             refs == [h.refs EXCEPT ![b] = h.refs[b] - 1]
             text == [h.text EXCEPT ![b] = left]
  <2>2. r.impl = impl /\ r.refs = refs /\ r.text = text
        /\ r = [impl |-> impl, refs |-> refs, text |-> text]
    BY <1>0, <1>2 DEF Release, Heaps
  <2>3. left \in Texts /\ Constructed(left)
    BY <1>0, <2>1, NoCellsFact DEF Counted, Heaps, Holds
  <2> HIDE DEF r, left
  <2>4. impl \in [String -> Buffer \cup {Null}] BY <1>0 DEF Heaps
  <2>5. refs \in [Buffer -> Nat] BY <1>0, <2>1 DEF Heaps
  <2>6. text \in [Buffer -> Texts] BY <1>0, <2>3 DEF Heaps
  <2>7. r \in Heaps BY <2>2, <2>4, <2>5, <2>6 DEF Heaps
  <2>8. ASSUME NEW c \in Buffer PROVE Constructed(r.text[c]) /\ r.refs[c] = Cardinality(Users(r, c))
    <3>1. CASE c = b
      <4>1. r.text[c] = left BY <1>0, <2>1, <2>2, <3>1 DEF Heaps
      <4>2. r.refs[c] = h.refs[b] - 1 BY <1>0, <2>1, <2>2, <3>1 DEF Heaps
      <4>3. Users(r, c) = Users(h, b) \ {s}
        BY <1>0, <1>2, <2>2, <3>1 DEF Users, Heaps
      <4>4. s \in Users(h, b) /\ IsFiniteSet(Users(h, b)) BY UsersAreFinite DEF Users
      <4>5. Cardinality(Users(h, b) \ {s}) = Cardinality(Users(h, b)) - 1
        BY <4>4, FS_RemoveElement
      <4>6. h.refs[b] = Cardinality(Users(h, b)) BY <2>1 DEF Counted
      <4> QED BY <2>3, <4>1, <4>2, <4>3, <4>5, <4>6
    <3>2. CASE c # b
      <4>1. r.text[c] = h.text[c] /\ r.refs[c] = h.refs[c]
        BY <1>0, <2>2, <3>2 DEF Heaps
      <4>2. Users(r, c) = Users(h, c)
        BY <1>0, <2>2, <3>2, BuffersFact DEF Users, Heaps
      <4> QED BY <4>1, <4>2 DEF Counted
    <3> QED BY <3>1, <3>2
  <2>9. ASSUME NEW t \in String PROVE Text(r, t) = IF t = s THEN <<>> ELSE Text(h, t)
    <3>1. CASE t = s
      <4>1. r.impl[t] = Null BY <1>0, <2>2, <3>1 DEF Heaps
      <4> QED BY <3>1, <4>1 DEF Text
    <3>2. CASE t # s
      <4>1. r.impl[t] = h.impl[t] BY <1>0, <2>2, <3>2 DEF Heaps
      <4>2. ASSUME h.impl[t] # Null PROVE r.text[h.impl[t]] = h.text[h.impl[t]]
        <5>1. h.impl[t] \in Buffer BY <4>2, ReferencesFact
        <5>2. h.impl[t] = b => left = h.text[b] BY <2>1, <3>2 DEF left
        <5> QED BY <1>0, <2>2, <5>1, <5>2 DEF Heaps
      <4> QED BY <3>2, <4>1, <4>2 DEF Text
    <3> QED BY <3>1, <3>2
  <2>10. r.impl = impl BY <2>2
  <2>11. Counted(r) BY <2>7, <2>8 DEF Counted
  <2> QED BY <2>9, <2>10, <2>11 DEF Makes_Text, r
<1> QED BY <1>1, <1>2

(* It gets a buffer others point to.                                        *)
LEMMA ObtainFact ==
  ASSUME NEW h, Counted(h), NEW s \in String, h.impl[s] = Null, NEW b \in Buffer
  PROVE  Makes_Text(h, Obtain(h, s, b), s, Elements(h.text[b]))
<1> DEFINE r == Obtain(h, s, b)
           impl == [h.impl EXCEPT ![s] = b]
           refs == [h.refs EXCEPT ![b] = h.refs[b] + 1]
<1>0. h \in Heaps /\ b # Null BY BuffersFact DEF Counted
<1>1. r = [impl |-> impl, refs |-> refs, text |-> h.text]
      /\ r.impl = impl /\ r.refs = refs /\ r.text = h.text
  BY <1>0 DEF Obtain, Heaps
<1> HIDE DEF r
<1>2. impl \in [String -> Buffer \cup {Null}] BY <1>0 DEF Heaps
<1>3. refs \in [Buffer -> Nat] BY <1>0 DEF Heaps
<1>4. r \in Heaps BY <1>0, <1>1, <1>2, <1>3 DEF Heaps
<1>5. ASSUME NEW c \in Buffer PROVE Constructed(r.text[c]) /\ r.refs[c] = Cardinality(Users(r, c))
  <2>1. Constructed(r.text[c]) /\ h.refs[c] = Cardinality(Users(h, c)) BY <1>1 DEF Counted
  <2>2. CASE c = b
    <3>1. r.refs[c] = h.refs[b] + 1 BY <1>0, <1>1, <2>2 DEF Heaps
    <3>2. Users(r, c) = Users(h, b) \cup {s} BY <1>0, <1>1, <2>2 DEF Users, Heaps
    <3>3. s \notin Users(h, b) BY <1>0 DEF Users
    <3>4. Cardinality(Users(h, b) \cup {s}) = Cardinality(Users(h, b)) + 1
      BY <3>3, UsersAreFinite, FS_AddElement
    <3> QED BY <2>1, <2>2, <3>1, <3>2, <3>4
  <2>3. CASE c # b
    <3>1. r.refs[c] = h.refs[c] BY <1>0, <1>1, <2>3 DEF Heaps
    <3>2. Users(r, c) = Users(h, c) BY <1>0, <1>1, <2>3, BuffersFact DEF Users, Heaps
    <3> QED BY <2>1, <3>1, <3>2
  <2> QED BY <2>2, <2>3
<1>6. ASSUME NEW t \in String
      PROVE  Text(r, t) = IF t = s THEN Elements(h.text[b]) ELSE Text(h, t)
  <2>1. r.impl[t] = IF t = s THEN b ELSE h.impl[t] BY <1>0, <1>1 DEF Heaps
  <2> QED BY <1>0, <1>1, <2>1 DEF Text
<1>7. Counted(r) BY <1>4, <1>5 DEF Counted
<1> QED BY <1>6, <1>7 DEF Makes_Text, r

(* There are as many buffers as strings: a string without one finds one.    *)
LEMMA FreeBuffer ==
  ASSUME NEW h, Counted(h), NEW s \in String, h.impl[s] = Null
  PROVE  \E b \in Buffer : h.refs[b] = 0
<1> SUFFICES ASSUME \A b \in Buffer : h.refs[b] # 0 PROVE FALSE OBVIOUS
<1> DEFINE others == String \ {s}
           user == [b \in Buffer |-> CHOOSE t \in String : h.impl[t] = b]
<1>1. ASSUME NEW b \in Buffer PROVE user[b] \in others /\ h.impl[user[b]] = b
  <2>1. Cardinality(Users(h, b)) # 0 BY DEF Counted
  <2>2. Users(h, b) # {} BY <2>1, FS_EmptySet
  <2>3. \E t \in String : h.impl[t] = b BY <2>2 DEF Users
  <2>4. user[b] \in String /\ h.impl[user[b]] = b BY <2>3
  <2>5. b # Null BY BuffersFact
  <2> QED BY <2>4, <2>5
<1> HIDE DEF user
<1>2. user \in [Buffer -> others]
  <2>1. user = [b \in Buffer |-> user[b]] BY DEF user
  <2> QED BY <1>1, <2>1
<1>3. IsFiniteSet(others) /\ Cardinality(others) = Cardinality(String) - 1
  BY FS_RemoveElement, StringsAssumption
<1>4. IsFiniteSet(Buffer) /\ Cardinality(Buffer) = Cardinality(String)
  <2> DEFINE n == Cardinality(String)
  <2>1. n \in Nat BY BuffersFact
  <2> HIDE DEF n
  <2>2. IsFiniteSet(1..n) /\ Cardinality(1..n) = IF 1 > n THEN 0 ELSE n - 1 + 1
    BY <2>1, FS_Interval
  <2>3. Cardinality(1..n) = n BY <2>1, <2>2
  <2> QED BY <2>2, <2>3 DEF Buffer, n
<1>5. Cardinality(others) < Cardinality(Buffer) BY <1>3, <1>4, BuffersFact
<1>6. PICK x \in Buffer, y \in Buffer : x # y /\ user[x] = user[y]
  <2> HIDE DEF others
  <2> QED BY <1>2, <1>3, <1>4, <1>5, FS_PigeonHole
<1> QED BY <1>1, <1>6

LEMMA NewFact ==
  ASSUME NEW h, Counted(h), NEW s \in String, h.impl[s] = Null,
         NEW w \in Texts, Constructed(w)
  PROVE  LET r == New(h, s, w)
         IN  /\ Makes_Text(h, r, s, Elements(w))
             /\ r.impl[s] \in Buffer /\ r.refs[r.impl[s]] = 1 /\ r.text[r.impl[s]] = w
<1> DEFINE r == New(h, s, w)
           b == CHOOSE b \in Buffer : h.refs[b] = 0
           impl == [h.impl EXCEPT ![s] = b]
           refs == [h.refs EXCEPT ![b] = 1]
           text == [h.text EXCEPT ![b] = w]
<1>0. h \in Heaps BY DEF Counted
<1>1. b \in Buffer /\ h.refs[b] = 0 BY FreeBuffer
<1>2. r = [h EXCEPT !.impl[s] = b, !.refs[b] = 1, !.text[b] = w] BY DEF New
<1> HIDE DEF b, r
<1>3. r = [impl |-> impl, refs |-> refs, text |-> text]
      /\ r.impl = impl /\ r.refs = refs /\ r.text = text
  BY <1>0, <1>2 DEF Heaps
<1>4. impl \in [String -> Buffer \cup {Null}] BY <1>0, <1>1 DEF Heaps
<1>5. refs \in [Buffer -> Nat] BY <1>0 DEF Heaps
<1>6. text \in [Buffer -> Texts] BY <1>0 DEF Heaps
<1>7. r \in Heaps BY <1>3, <1>4, <1>5, <1>6 DEF Heaps
<1>8. \A t \in String : h.impl[t] # b
  <2>1. Cardinality(Users(h, b)) = 0 BY <1>1 DEF Counted
  <2>2. Users(h, b) = {} BY <2>1, UsersAreFinite, FS_EmptySet
  <2> QED BY <2>2 DEF Users
<1>9. ASSUME NEW c \in Buffer PROVE Constructed(r.text[c]) /\ r.refs[c] = Cardinality(Users(r, c))
  <2>1. CASE c = b
    <3>1. r.text[c] = w /\ r.refs[c] = 1 BY <1>0, <1>1, <1>3, <2>1 DEF Heaps
    <3>2. Users(r, c) = {s} BY <1>0, <1>3, <1>8, <2>1 DEF Users, Heaps
    <3> QED BY <3>1, <3>2, FS_Singleton
  <2>2. CASE c # b
    <3>1. r.text[c] = h.text[c] /\ r.refs[c] = h.refs[c] BY <1>0, <1>3, <2>2 DEF Heaps
    <3>2. Users(r, c) = Users(h, c) BY <1>0, <1>3, <2>2, BuffersFact DEF Users, Heaps
    <3> QED BY <3>1, <3>2 DEF Counted
  <2> QED BY <2>1, <2>2
<1>10. ASSUME NEW t \in String PROVE Text(r, t) = IF t = s THEN Elements(w) ELSE Text(h, t)
  <2>1. r.impl[t] = IF t = s THEN b ELSE h.impl[t] BY <1>0, <1>3 DEF Heaps
  <2>2. b # Null BY <1>1, BuffersFact
  <2>3. \A c \in Buffer : r.text[c] = IF c = b THEN w ELSE h.text[c]
    BY <1>0, <1>3 DEF Heaps
  <2>4. h.impl[t] # Null => h.impl[t] \in Buffer BY ReferencesFact
  <2> QED BY <1>1, <1>8, <2>1, <2>2, <2>3, <2>4 DEF Text
<1>11. Counted(r) BY <1>7, <1>9 DEF Counted
<1>12. r.impl[s] = b /\ r.refs[b] = 1 /\ r.text[b] = w BY <1>0, <1>1, <1>3 DEF Heaps
<1>13. Makes_Text(h, r, s, Elements(w)) BY <1>10, <1>11 DEF Makes_Text
<1> QED BY <1>1, <1>12, <1>13 DEF r
-----------------------------------------------------------------------------
(* A copy of its own: only it points to the buffer, and has the text it had. *)
LEMMA CopyFact ==
  ASSUME NEW h, Counted(h), NEW s \in String
  PROVE  LET own == create_local_copy(h, s)
             b == own.impl[s]
         IN  /\ Makes_Text(h, own, s, Text(h, s))
             /\ b \in Buffer /\ own.refs[b] = 1 /\ Elements(own.text[b]) = Text(h, s)
             /\ h.impl[s] # Null /\ ~Shared(h, s) => own = h
<1> DEFINE own == create_local_copy(h, s)
           b == own.impl[s]
<1>1. CASE h.impl[s] = Null
  <2>1. Holds(NoCells, <<>>) /\ NoCells \in Texts /\ Constructed(NoCells)
    BY NoCellsFact DEF Holds
  <2>2. /\ Makes_Text(h, New(h, s, NoCells), s, Elements(NoCells))
        /\ New(h, s, NoCells).impl[s] \in Buffer
        /\ New(h, s, NoCells).refs[New(h, s, NoCells).impl[s]] = 1
        /\ New(h, s, NoCells).text[New(h, s, NoCells).impl[s]] = NoCells
    BY <1>1, <2>1, NewFact
  <2>3. Elements(NoCells) = Text(h, s) BY <1>1, <2>1 DEF Holds, Text
  <2>4. own = New(h, s, NoCells) BY <1>1 DEF create_local_copy
  <2> QED BY <1>1, <2>2, <2>3, <2>4
<1>2. CASE Shared(h, s)
  <2> DEFINE text == Text(h, s)
             w == Moved(text, Len(text))
             r == Release(h, s)
  <2>1. text \in Seq(Cell) /\ Len(text) \in Nat BY TextFact, LenProperties
  <2> HIDE DEF text
  <2>2. Holds(w, text) BY <2>1, MovedHolds
  <2>3. Constructed(w) /\ Elements(w) = text BY <2>2 DEF Holds
  <2>4. w \in Texts BY <2>3 DEF Moved, Constructed, Texts
  <2>5. Makes_Text(h, r, s, <<>>) /\ r.impl = [h.impl EXCEPT ![s] = Null] BY ReleaseFact
  <2>6. r.impl[s] = Null BY <2>5 DEF Counted, Heaps
  <2> HIDE DEF r, w
  <2>7. Counted(r) BY <2>5 DEF Makes_Text
  <2>8. /\ Makes_Text(r, New(r, s, w), s, Elements(w))
        /\ New(r, s, w).impl[s] \in Buffer
        /\ New(r, s, w).refs[New(r, s, w).impl[s]] = 1
        /\ New(r, s, w).text[New(r, s, w).impl[s]] = w
    BY <2>3, <2>4, <2>6, <2>7, NewFact
  <2>9. own = New(r, s, w) BY <1>2 DEF create_local_copy, Shared, r, w, text
  <2> HIDE DEF own
  <2>10. Makes_Text(h, own, s, text) BY <2>3, <2>5, <2>8, <2>9 DEF Makes_Text
  <2> QED BY <1>2, <2>3, <2>8, <2>9, <2>10 DEF text, own
<1>3. CASE h.impl[s] # Null /\ ~Shared(h, s)
  <2>1. own = h BY <1>3 DEF create_local_copy
  <2>2. b \in Buffer /\ h.refs[b] \in Nat /\ h.refs[b] > 0 BY <1>3, <2>1, ReferencesFact
  <2>3. h.refs[b] = 1 BY <1>3, <2>1, <2>2 DEF Shared
  <2>4. Elements(h.text[b]) = Text(h, s) BY <1>3, <2>1 DEF Text
  <2> HIDE DEF own
  <2>5. Makes_Text(h, own, s, Text(h, s)) BY <2>1 DEF Makes_Text
  <2> QED BY <2>1, <2>2, <2>3, <2>4, <2>5 DEF own
<1> QED BY <1>1, <1>2, <1>3 DEF Shared

(* What is written in it, nobody else sees.                                 *)
LEMMA WriteFact ==
  ASSUME NEW h, Counted(h), NEW s \in String, h.impl[s] # Null, h.refs[h.impl[s]] = 1,
         NEW w \in Texts, NEW u, Holds(w, u)
  PROVE  Makes_Text(h, [h EXCEPT !.text[h.impl[s]] = w], s, u)
<1> DEFINE b == h.impl[s]
           text == [h.text EXCEPT ![b] = w]
           r == [h EXCEPT !.text[b] = w]
<1>0. h \in Heaps BY DEF Counted
<1>1. b \in Buffer /\ \A t \in String : h.impl[t] = b => t = s BY ReferencesFact
<1>2. r.impl = h.impl /\ r.refs = h.refs /\ r.text = text
      /\ r = [impl |-> h.impl, refs |-> h.refs, text |-> text]
  BY <1>0 DEF Heaps
<1> HIDE DEF r
<1>3. text \in [Buffer -> Texts] BY <1>0 DEF Heaps
<1>4. r \in Heaps BY <1>0, <1>2, <1>3 DEF Heaps
<1>5. \A c \in Buffer : r.text[c] = IF c = b THEN w ELSE h.text[c] BY <1>0, <1>2 DEF Heaps
<1>6. \A c \in Buffer : Users(r, c) = Users(h, c) BY <1>2 DEF Users
<1>7. Counted(r) BY <1>2, <1>4, <1>5, <1>6 DEF Counted, Holds
<1>8. ASSUME NEW t \in String PROVE Text(r, t) = IF t = s THEN u ELSE Text(h, t)
  <2>1. h.impl[t] # Null => h.impl[t] \in Buffer BY ReferencesFact
  <2> QED BY <1>1, <1>2, <1>5, <2>1 DEF Text, Holds
<1> QED BY <1>7, <1>8 DEF Makes_Text, r

(* So a call that works in a buffer of its own leaves the other strings be. *)
LEMMA OnOwnFact ==
  ASSUME NEW h, Counted(h), NEW s \in String, NEW w \in Texts, NEW u, Holds(w, u)
  PROVE  LET own == create_local_copy(h, s)
         IN  Makes_Text(h, [own EXCEPT !.text[own.impl[s]] = w], s, u)
<1> DEFINE own == create_local_copy(h, s)
<1>1. /\ Makes_Text(h, own, s, Text(h, s))
      /\ own.impl[s] \in Buffer /\ own.refs[own.impl[s]] = 1
  BY CopyFact
<1>2. own.impl[s] # Null BY <1>1, BuffersFact
<1> HIDE DEF own
<1>3. Makes_Text(own, [own EXCEPT !.text[own.impl[s]] = w], s, u)
  BY <1>1, <1>2, WriteFact DEF Makes_Text
<1>4. Makes_Text(h, [own EXCEPT !.text[own.impl[s]] = w], s, u)
  <2> DEFINE r == [own EXCEPT !.text[own.impl[s]] = w]
  <2> HIDE DEF r
  <2>1. Makes_Text(own, r, s, u) => Makes_Text(h, r, s, u) BY <1>1 DEF Makes_Text
  <2> QED BY <1>3, <2>1 DEF r
<1> QED BY <1>4 DEF own
-----------------------------------------------------------------------------
(* Of naturals: a set of some has a smallest, one that 0 is in and that is  *)
(* closed under successor has them all, and what is bounded has a largest.  *)
LEMMA Smallest ==
  ASSUME NEW T, T \subseteq Nat, T # {}
  PROVE  \E x \in T : \A y \in T : x <= y
<1> DEFINE R == OpToRel(<, Nat)
<1>1. IsWellFoundedOn(R, Nat) BY NatLessThanWellFounded
<1> HIDE DEF R
<1>2. PICK x \in T : \A y \in T : ~(<<y, x>> \in R) BY <1>1, WFMin
<1>3. ASSUME NEW y \in T PROVE x <= y
  <2>1. x \in Nat /\ y \in Nat OBVIOUS
  <2>2. y < x => <<y, x>> \in R BY <2>1 DEF R, OpToRel
  <2> QED BY <1>2, <2>1, <2>2
<1> QED BY <1>3

LEMMA Induction ==
  ASSUME NEW S, 0 \in S, \A n \in Nat : n \in S => n + 1 \in S
  PROVE  Nat \subseteq S
<1> SUFFICES ASSUME Nat \ S # {} PROVE FALSE OBVIOUS
<1>1. PICK x \in Nat \ S : \A y \in Nat \ S : x <= y BY Smallest
<1>2. x # 0 /\ x \in Nat OBVIOUS
<1>3. x - 1 \in Nat /\ ~(x <= x - 1) BY <1>2
<1>4. x - 1 \in S BY <1>1, <1>3
<1>5. (x - 1) + 1 \in S BY <1>3, <1>4
<1> QED BY <1>2, <1>5

LEMMA Largest ==
  ASSUME NEW n \in Nat, NEW T \in SUBSET (1..n), T # {}
  PROVE  \E x \in T : \A y \in T : x >= y
<1> DEFINE U == {n - t : t \in T}
<1>1. U \subseteq Nat /\ U # {}
  <2>1. \A t \in T : n - t \in Nat OBVIOUS
  <2> QED BY <2>1
<1>2. PICK u \in U : \A w \in U : u <= w BY <1>1, Smallest
<1>3. PICK t \in T : u = n - t BY <1>2
<1>4. \A s \in T : t >= s
  <2> TAKE s \in T
  <2>1. n - t <= n - s BY <1>2, <1>3
  <2> QED BY <2>1
<1> QED BY <1>4

LEMMA MaxIsIn ==
  ASSUME NEW n \in Nat, NEW T \in SUBSET (1..n), T # {}
  PROVE  Max(T) \in T
BY Largest DEF Max

(* A fold whose steps stay within sets Iv[T], of what they may find when    *)
(* the elements in T are done: it is defined, and stays within them.        *)
Picks(S, pick) == \A T \in SUBSET S : T # {} => pick[T] \in T
Steps(S, pick, step, Iv) ==
  \A T \in SUBSET S : T # {} => \A x \in Iv[T \ {pick[T]}] : step[T][x] \in Iv[T]
IsFold(g, S, base, pick, step, Iv) ==
  /\ g = [T \in SUBSET S |-> IF T = {} THEN base ELSE step[T][g[T \ {pick[T]}]]]
  /\ \A T \in SUBSET S : g[T] \in Iv[T]
Stays(S, g, pick, Iv) ==
  \A T \in SUBSET S : T # {} /\ g[T \ {pick[T]}] \in Iv[T \ {pick[T]}] => g[T] \in Iv[T]

LEMMA FoldExists ==
  ASSUME NEW S, IsFiniteSet(S), NEW base, NEW pick, NEW step, NEW Iv,
         Picks(S, pick), base \in Iv[{}], Steps(S, pick, step, Iv)
  PROVE  \E g : IsFold(g, S, base, pick, step, Iv)
<1> USE DEF Picks, Steps
<1> DEFINE Next1(h, T) == IF T = {} THEN base ELSE step[T][h[T \ {pick[T]}]]
           Upto(h, n) == \A T \in SUBSET S : Cardinality(T) <= n =>
                                              h[T] \in Iv[T] /\ h[T] = Next1(h, T)
           N == {n \in Nat : \E h : Upto(h, n)}
<1>0. \A T \in SUBSET S : IsFiniteSet(T) /\ Cardinality(T) \in Nat BY FS_Subset, FS_CardinalityType
<1>1. 0 \in N
  <2> DEFINE h == [T \in SUBSET S |-> base]
  <2>1. \A T \in SUBSET S : Cardinality(T) <= 0 => T = {} BY <1>0, FS_EmptySet
  <2>2. Upto(h, 0) BY <2>1
  <2> QED BY <2>2
<1>2. ASSUME NEW n \in Nat, n \in N PROVE n + 1 \in N
  <2> PICK h : Upto(h, n) BY <1>2
  <2> DEFINE k == [T \in SUBSET S |-> IF Cardinality(T) <= n THEN h[T] ELSE Next1(h, T)]
  <2>1. ASSUME NEW T \in SUBSET S, Cardinality(T) <= n + 1
        PROVE  k[T] \in Iv[T] /\ k[T] = Next1(k, T)
    <3>1. CASE T = {}
      <4>1. Cardinality(T) <= n BY <3>1, FS_EmptySet
      <4> QED BY <3>1, <4>1
    <3>2. CASE T # {}
      <4> DEFINE U == T \ {pick[T]}
      <4>1. pick[T] \in T /\ U \in SUBSET S BY <3>2
      <4>2. Cardinality(U) = Cardinality(T) - 1 BY <1>0, <4>1, FS_RemoveElement
      <4>3. Cardinality(U) <= n /\ Cardinality(T) \in Nat BY <1>0, <2>1, <4>2
      <4>4. k[U] = h[U] /\ h[U] \in Iv[U] BY <4>1, <4>3
      <4>5. Next1(k, T) = Next1(h, T) BY <3>2, <4>4
      <4>6. step[T][h[U]] \in Iv[T] BY <3>2, <4>4
      <4>7. CASE Cardinality(T) <= n BY <4>5, <4>7
      <4>8. CASE ~(Cardinality(T) <= n) BY <3>2, <4>5, <4>6, <4>8
      <4> QED BY <4>7, <4>8
    <3> QED BY <3>1, <3>2
  <2>2. Upto(k, n + 1)
    <3> HIDE DEF k, Next1
    <3> QED BY <2>1
  <2>3. \E f : Upto(f, n + 1)
    <3> HIDE DEF k, Upto
    <3> QED BY <2>2
  <2> HIDE DEF Upto
  <2> QED BY <2>3
<1>3. Cardinality(S) \in N
  <2> HIDE DEF N
  <2>1. Nat \subseteq N BY <1>1, <1>2, Induction
  <2> QED BY <1>0, <2>1
<1>4. PICK h : Upto(h, Cardinality(S)) BY <1>3
<1>5. \A T \in SUBSET S : h[T] \in Iv[T] /\ h[T] = Next1(h, T) BY <1>4, FS_Subset
<1> DEFINE g == [T \in SUBSET S |-> h[T]]
<1>6. \A T \in SUBSET S : g[T] \in Iv[T] /\ g[T] = Next1(g, T)
  <2> TAKE T \in SUBSET S
  <2>1. T \ {pick[T]} \in SUBSET S OBVIOUS
  <2> QED BY <1>5, <2>1
<1>7. g = [T \in SUBSET S |-> Next1(g, T)] BY <1>6
<1>8. IsFold(g, S, base, pick, step, Iv) BY <1>6, <1>7 DEF IsFold
<1> HIDE DEF g
<1> QED BY <1>8

LEMMA FoldStays ==
  ASSUME NEW S, IsFiniteSet(S), NEW g, NEW pick, NEW Iv,
         Picks(S, pick), g[{}] \in Iv[{}], Stays(S, g, pick, Iv)
  PROVE  g[S] \in Iv[S]
<1> USE DEF Picks, Stays
<1> DEFINE N == {n \in Nat : \A T \in SUBSET S : Cardinality(T) <= n => g[T] \in Iv[T]}
<1>0. \A T \in SUBSET S : IsFiniteSet(T) /\ Cardinality(T) \in Nat BY FS_Subset, FS_CardinalityType
<1>1. 0 \in N
  <2>1. \A T \in SUBSET S : Cardinality(T) <= 0 => T = {} BY <1>0, FS_EmptySet
  <2> QED BY <2>1
<1>2. ASSUME NEW n \in Nat, n \in N PROVE n + 1 \in N
  <2>1. ASSUME NEW T \in SUBSET S, Cardinality(T) <= n + 1 PROVE g[T] \in Iv[T]
    <3>1. CASE T = {} BY <3>1
    <3>2. CASE T # {}
      <4> DEFINE U == T \ {pick[T]}
      <4>1. pick[T] \in T /\ U \in SUBSET S BY <3>2
      <4>2. Cardinality(U) = Cardinality(T) - 1 BY <1>0, <4>1, FS_RemoveElement
      <4>3. Cardinality(U) <= n BY <1>0, <2>1, <4>2
      <4>4. g[U] \in Iv[U] BY <1>2, <4>1, <4>3
      <4> QED BY <3>2, <4>4
    <3> QED BY <3>1, <3>2
  <2> QED BY <2>1
<1>3. Cardinality(S) \in N
  <2> HIDE DEF N
  <2>1. Nat \subseteq N BY <1>1, <1>2, Induction
  <2> QED BY <1>0, <2>1
<1> QED BY <1>0, <1>3

-----------------------------------------------------------------------------
(* A part, read in the memory it is written to (inside) or elsewhere.       *)
PartType(a, cells) ==
  /\ a \in [inside : BOOLEAN, pos : Nat \ {0}, text : Seq(Cell)]
  /\ a.inside => a.pos + Len(a.text) <= Len(cells) + 1
Reads(a, cells) == \A i \in 1..Len(a.text) : cells[a.pos + i - 1] = a.text[i]

(* Written to a place, cell by cell, it does not change what is to be read. *)
InOrderTo(a, cells, to) ==
  a.inside => Reads(a, cells) /\ (to <= a.pos \/ a.pos + Len(a.text) <= to)

(* The first k cells are written.                                           *)
Written(c, cells, a, to, k) ==
  /\ c \in Seq(Cell) /\ Len(c) = Len(cells)
  /\ \A i \in 1..Len(cells) : ~(to <= i /\ i < to + k) => c[i] = cells[i]
  /\ InOrderTo(a, cells, to) =>
       \A i \in 1..Len(cells) : to <= i /\ i < to + k => c[i] = a.text[i - to + 1]

Put(c, a, to, i) == Copied(c, <<IF a.inside THEN c[a.pos + i - 1] ELSE a.text[i]>>, to + i - 1)

LEMMA PutAll ==
  ASSUME NEW cells \in Seq(Cell), NEW a, PartType(a, cells), NEW to \in Nat \ {0},
         NEW c \in Seq(Cell), Len(c) = Len(cells), NEW i \in 1..Len(a.text)
  PROVE  /\ Put(c, a, to, i) \in Seq(Cell) /\ Len(Put(c, a, to, i)) = Len(cells)
         /\ \A j \in 1..Len(cells) :
              Put(c, a, to, i)[j] = IF j # to + i - 1 THEN c[j]
                                    ELSE IF a.inside THEN c[a.pos + i - 1] ELSE a.text[i]
<1> DEFINE x == IF a.inside THEN c[a.pos + i - 1] ELSE a.text[i]
           one == <<x>>
           p == to + i - 1
<1>1. /\ a.inside \in BOOLEAN /\ a.pos \in Nat \ {0} /\ a.text \in Seq(Cell)
      /\ Len(a.text) \in Nat /\ Len(cells) \in Nat
  BY LenProperties DEF PartType
<1>2. x \in Cell
  <2>1. CASE a.inside
    <3>1. a.pos + Len(a.text) <= Len(cells) + 1 BY <2>1 DEF PartType
    <3>2. a.pos + i - 1 \in 1..Len(c) BY <1>1, <3>1
    <3>3. c[a.pos + i - 1] \in Cell BY <3>2, ElementOfSeq
    <3> QED BY <2>1, <3>3
  <2>2. CASE ~a.inside
    <3>1. a.text[i] \in Cell BY <1>1, ElementOfSeq
    <3> QED BY <2>2, <3>1
  <2> QED BY <2>1, <2>2
<1>3. p \in Nat \ {0} BY <1>1
<1> HIDE DEF x, p
<1>4. one \in Seq(Cell) /\ Len(one) = 1 /\ one[1] = x BY <1>2
<1> HIDE DEF one
<1>5. /\ Copied(c, one, p) \in Seq(Cell) /\ Len(Copied(c, one, p)) = Len(c)
      /\ \A j \in 1..Len(c) :
           Copied(c, one, p)[j] = IF p <= j /\ j < p + Len(one) THEN one[j - p + 1] ELSE c[j]
  BY ONLY c \in Seq(Cell), <1>3, <1>4, CopiedFact
<1>6. ASSUME NEW j \in 1..Len(cells) PROVE Copied(c, one, p)[j] = IF j # p THEN c[j] ELSE x
  <2>1. CASE j = p
    <3>1. p <= j /\ j < p + Len(one) /\ j - p + 1 = 1 BY <1>3, <1>4, <2>1
    <3> QED BY <1>4, <1>5, <2>1, <3>1
  <2>2. CASE j # p
    <3>1. ~(p <= j /\ j < p + Len(one)) BY <1>1, <1>3, <1>4, <2>2
    <3> QED BY <1>5, <2>2, <3>1
  <2> QED BY <2>1, <2>2
<1>7. Put(c, a, to, i) = Copied(c, one, p) BY DEF Put, one, x, p
<1> QED BY <1>5, <1>6, <1>7 DEF x, p

LEMMA PutType ==
  ASSUME NEW cells \in Seq(Cell), NEW a, PartType(a, cells), NEW to \in Nat \ {0},
         NEW c \in Seq(Cell), Len(c) = Len(cells), NEW i \in 1..Len(a.text)
  PROVE  Put(c, a, to, i) \in Seq(Cell) /\ Len(Put(c, a, to, i)) = Len(cells)
BY PutAll

LEMMA PutFact ==
  ASSUME NEW cells \in Seq(Cell), NEW a, PartType(a, cells), NEW to \in Nat \ {0},
         NEW c \in Seq(Cell), Len(c) = Len(cells), NEW i \in 1..Len(a.text), NEW j \in 1..Len(cells)
  PROVE  /\ j # to + i - 1 => Put(c, a, to, i)[j] = c[j]
         /\ j = to + i - 1 /\ a.inside => Put(c, a, to, i)[j] = c[a.pos + i - 1]
         /\ j = to + i - 1 /\ ~a.inside => Put(c, a, to, i)[j] = a.text[i]
<1>1. Put(c, a, to, i)[j] = IF j # to + i - 1 THEN c[j]
                            ELSE IF a.inside THEN c[a.pos + i - 1] ELSE a.text[i]
  BY PutAll
<1> QED BY ONLY <1>1

LEMMA PutWrites ==
  ASSUME NEW cells \in Seq(Cell), NEW a, PartType(a, cells), NEW to \in Nat \ {0},
         NEW c, NEW k \in 1..Len(a.text), Written(c, cells, a, to, k - 1)
  PROVE  Written(Put(c, a, to, k), cells, a, to, k)
<1> DEFINE d == Put(c, a, to, k)
           n == Len(cells)
<1>1. /\ a.inside \in BOOLEAN /\ a.pos \in Nat \ {0} /\ a.text \in Seq(Cell)
      /\ Len(a.text) \in Nat /\ n \in Nat
  BY LenProperties DEF PartType
<1>2. c \in Seq(Cell) /\ Len(c) = n BY DEF Written
<1>3. /\ d \in Seq(Cell) /\ Len(d) = n
      /\ \A j \in 1..n : d[j] = IF j # to + k - 1 THEN c[j]
                                ELSE IF a.inside THEN c[a.pos + k - 1] ELSE a.text[k]
  <2>1. c \in Seq(Cell) /\ Len(c) = Len(cells) BY <1>2
  <2>2. d \in Seq(Cell) /\ Len(d) = Len(cells) BY <2>1, PutType
  <2>3. ASSUME NEW j \in 1..Len(cells)
        PROVE  /\ j # to + k - 1 => d[j] = c[j]
               /\ j = to + k - 1 /\ a.inside => d[j] = c[a.pos + k - 1]
               /\ j = to + k - 1 /\ ~a.inside => d[j] = a.text[k]
    BY <2>1, PutFact
  <2> QED BY ONLY <2>2, <2>3, <1>1
<1> HIDE DEF d
<1>4. ASSUME NEW i \in 1..n, ~(to <= i /\ i < to + k) PROVE d[i] = cells[i]
  <2>1. i # to + k - 1 /\ ~(to <= i /\ i < to + (k - 1)) BY <1>1, <1>4
  <2>2. c[i] = cells[i] BY <2>1 DEF Written
  <2> QED BY <1>3, <2>1, <2>2
<1>5. ASSUME InOrderTo(a, cells, to), NEW i \in 1..n, to <= i, i < to + k
      PROVE  d[i] = a.text[i - to + 1]
  <2>1. CASE i # to + k - 1
    <3>1. i < to + (k - 1) BY <1>1, <1>5, <2>1
    <3>2. c[i] = a.text[i - to + 1] BY <1>5, <3>1 DEF Written
    <3> QED BY <1>3, <2>1, <3>2
  <2>2. CASE i = to + k - 1
    <3>0. i - to + 1 = k BY <1>1, <2>2
    <3>1. CASE a.inside
      <4> DEFINE j == a.pos + k - 1
      <4>1. a.pos + Len(a.text) <= n + 1 BY <3>1 DEF PartType
      <4>2. j \in 1..n BY <1>1, <4>1
      <4>3. cells[j] = a.text[k] BY <1>5, <3>1 DEF InOrderTo, Reads
      <4>4. to <= a.pos \/ a.pos + Len(a.text) <= to BY <1>5, <3>1 DEF InOrderTo
      <4>5. ~(to <= j /\ j < to + (k - 1)) BY <1>1, <4>4
      <4> HIDE DEF j
      <4>6. c[j] = cells[j] BY <4>2, <4>5 DEF Written
      <4>7. d[i] = c[j] BY <1>3, <2>2, <3>1 DEF j
      <4> QED BY <3>0, <4>3, <4>6, <4>7
    <3>2. CASE ~a.inside BY <1>3, <2>2, <3>0, <3>2
    <3> QED BY <3>1, <3>2
  <2> QED BY <2>1, <2>2
<1> QED BY <1>3, <1>4, <1>5 DEF Written, d

LEMMA PlacedFact ==
  ASSUME NEW cells \in Seq(Cell), NEW a, PartType(a, cells), NEW to \in Nat \ {0}
  PROVE  Written(Placed(cells, a, to), cells, a, to, Len(a.text))
<1> DEFINE n == Len(a.text)
           ids == [i \in DOMAIN a.text |-> i]
           S == DOMAIN ids
           pick == [T \in SUBSET S |-> Max(T)]
           Iv == [T \in SUBSET S |->
                   {c \in Seq(Cell) : /\ Len(c) = Len(cells)
                                      /\ \A k \in 0..n : T = 1..k => Written(c, cells, a, to, k)}]
<1>1. n \in Nat /\ S = 1..n /\ IsFiniteSet(S) /\ \A i \in S : ids[i] = i
  <2>1. n \in Nat /\ DOMAIN a.text = 1..n BY LenProperties DEF PartType
  <2> QED BY <2>1, FS_Interval
<1> HIDE DEF n, ids
<1>2. Picks(S, pick)
  <2>1. \A T \in SUBSET S : T # {} => Max(T) \in T BY <1>1, MaxIsIn
  <2> QED BY <2>1 DEF Picks
<1>3. cells \in Iv[{}]
  <2>1. ASSUME NEW k \in 0..n, {} = 1..k PROVE Written(cells, cells, a, to, k)
    <3>1. k = 0 BY <1>1, <2>1
    <3>2. \A i \in 1..Len(cells) : ~(to <= i /\ i < to + 0) BY LenProperties
    <3> QED BY <3>1, <3>2 DEF Written
  <2> QED BY <2>1
<1>4. ASSUME NEW T \in SUBSET S, T # {}, NEW c \in Iv[T \ {pick[T]}]
      PROVE  Put(c, a, to, ids[pick[T]]) \in Iv[T]
  <2> DEFINE m == pick[T]
             d == Put(c, a, to, m)
  <2>1. m \in T /\ m \in 1..n /\ ids[m] = m BY <1>1, <1>2, <1>4 DEF Picks
  <2>2. c \in Seq(Cell) /\ Len(c) = Len(cells) BY <1>4
  <2>3. d \in Seq(Cell) /\ Len(d) = Len(cells) BY <2>1, <2>2, PutType DEF n
  <2>4. ASSUME NEW k \in 0..n, T = 1..k PROVE Written(d, cells, a, to, k)
    <3>1. m = k /\ k \in 1..n
      <4>1. m \in 1..k BY <2>1, <2>4
      <4>2. \A i \in 1..k : i <= m
        <5>1. \E x \in T : \A y \in T : x >= y
          <6>1. k \in T /\ \A y \in T : k >= y BY <1>1, <2>4, <4>1
          <6> QED BY <6>1
        <5>2. \A y \in T : Max(T) >= y BY <5>1 DEF Max
        <5> QED BY <1>1, <2>4, <4>1, <5>2
      <4> QED BY <1>1, <4>1, <4>2
    <3>2. T \ {m} = 1..(k - 1) BY <1>1, <2>4, <3>1
    <3>3. k - 1 \in 0..n BY <1>1, <3>1
    <3>4. Written(c, cells, a, to, k - 1) BY <1>4, <3>2, <3>3
    <3> HIDE DEF m
    <3>5. Written(Put(c, a, to, k), cells, a, to, k) BY <3>1, <3>4, PutWrites DEF n
    <3> QED BY <3>1, <3>5
  <2> HIDE DEF d, m
  <2>5. d \in Iv[T] BY <2>3, <2>4
  <2> QED BY <2>1, <2>5 DEF d, m
<1> DEFINE Folds(g) == g = [T \in SUBSET S |-> IF T = {} THEN cells
                                               ELSE Put(g[T \ {Max(T)}], a, to, ids[Max(T)])]
           it == CHOOSE g : Folds(g)
           step == [T \in SUBSET S |-> [c \in Iv[T \ {pick[T]}] |->
                     Put(c, a, to, ids[pick[T]])]]
<1>5. \E g : Folds(g)
  <2>1. \A T \in SUBSET S : T \ {Max(T)} \in SUBSET S /\ pick[T] = Max(T) OBVIOUS
  <2>2. \A T \in SUBSET S : T # {} =>
          \A c \in Iv[T \ {pick[T]}] :
            /\ step[T][c] = Put(c, a, to, ids[pick[T]])
            /\ step[T][c] \in Iv[T]
    <3> HIDE DEF Iv
    <3> QED BY <1>4
  <2> HIDE DEF Iv, step
  <2>3. Steps(S, pick, step, Iv) BY <2>2 DEF Steps
  <2> HIDE DEF pick, Folds
  <2>4. PICK g : IsFold(g, S, cells, pick, step, Iv) BY <1>1, <1>3, <1>2, <2>3, FoldExists
  <2>5. /\ g = [T \in SUBSET S |-> IF T = {} THEN cells ELSE step[T][g[T \ {pick[T]}]]]
        /\ \A T \in SUBSET S : g[T] \in Iv[T]
    BY <2>4 DEF IsFold
  <2>6. ASSUME NEW T \in SUBSET S, T # {}
        PROVE  g[T] = Put(g[T \ {Max(T)}], a, to, ids[Max(T)])
    <3>1. g[T] = step[T][g[T \ {pick[T]}]] BY <2>5, <2>6
    <3>2. g[T \ {pick[T]}] \in Iv[T \ {pick[T]}] BY <2>1, <2>5
    <3>3. g[T] = Put(g[T \ {pick[T]}], a, to, ids[pick[T]]) BY <2>2, <2>6, <3>1, <3>2
    <3>4. pick[T] = Max(T) BY <2>1
    <3> QED BY <3>3, <3>4
  <2>7. g = [T \in SUBSET S |-> g[T]] /\ g[{}] = cells BY <2>5
  <2>8. Folds(g) BY <2>6, <2>7 DEF Folds
  <2> QED BY <2>8
<1>6. Placed(cells, a, to) = it[S]
  BY DEF Placed, FoldLeftDomain, FoldLeft, MapThenFoldSet, Put, ids
<1>7. Folds(it) BY <1>5
<1>8. it[S] \in Iv[S]
  <2>1. it[{}] = cells BY <1>7
  <2>2. \A T \in SUBSET S : T # {} => it[T] = Put(it[T \ {pick[T]}], a, to, ids[pick[T]])
    BY <1>7
  <2> HIDE DEF it, Iv, pick
  <2>3. Stays(S, it, pick, Iv) BY <1>4, <2>2 DEF Stays
  <2>4. it[{}] \in Iv[{}] BY <1>3, <2>1
  <2> QED BY <1>1, <1>2, <2>3, <2>4, FoldStays
<1>9. n \in 0..n BY <1>1
<1> HIDE DEF it
<1>10. Written(it[S], cells, a, to, n) BY <1>1, <1>8, <1>9
<1> QED BY <1>6, <1>10 DEF n
-----------------------------------------------------------------------------
(* A part given to a call on a string with the text u: if it is read there, *)
(* it is a part of u.                                                       *)
GivenTo(a, u) ==
  /\ a \in [inside : BOOLEAN, pos : Nat \ {0}, text : Seq(Cell)]
  /\ a.inside => /\ a.pos + Len(a.text) <= Len(u) + 1
                 /\ \A i \in 1..Len(a.text) : u[a.pos + i - 1] = a.text[i]

LEMMA GivenIsThere ==
  ASSUME NEW w, Constructed(w), NEW a, GivenTo(a, Elements(w))
  PROVE  PartType(a, w.cells) /\ (a.inside => Reads(a, w.cells))
<1>1. w.end \in Nat /\ w.end <= Len(w.cells) /\ Len(w.cells) \in Nat
  BY LenProperties DEF Constructed
<1>2. Len(Elements(w)) = w.end /\ \A i \in 1..w.end : Elements(w)[i] = w.cells[i]
  BY ElementsFact
<1>3. a.pos \in Nat \ {0} /\ Len(a.text) \in Nat BY LenProperties DEF GivenTo
<1>4. PartType(a, w.cells) BY <1>1, <1>2, <1>3 DEF PartType, GivenTo
<1>5. ASSUME a.inside, NEW i \in 1..Len(a.text) PROVE w.cells[a.pos + i - 1] = a.text[i]
  <2>1. a.pos + Len(a.text) <= w.end + 1 BY <1>2, <1>5 DEF GivenTo
  <2>2. a.pos + i - 1 \in 1..w.end BY <1>1, <1>3, <2>1
  <2>3. Elements(w)[a.pos + i - 1] = a.text[i] BY <1>5 DEF GivenTo
  <2> QED BY <1>2, <2>2, <2>3
<1> QED BY <1>4, <1>5 DEF Reads

LEMMA OverwrittenHolds ==
  ASSUME NEW w \in Texts, Constructed(w), NEW a, GivenTo(a, Elements(w))
  PROVE  Overwritten(w, a) \in Texts /\ Holds(Overwritten(w, a), a.text)
<1> DEFINE n == Len(a.text)
           e == w.end
           text == a.text
           r == Reserve(w, n)
           placed == Placed(r.cells, a, 1)
           c == [i \in DOMAIN placed |-> IF i \in n + 1..e THEN Raw ELSE placed[i]]
<1>1. n \in Nat /\ e \in Nat /\ text \in Seq(Cell) BY LenProperties DEF GivenTo, Constructed
<1>2. Holds(r, Elements(w)) BY <1>1, ReserveHolds
<1>3. Constructed(r) /\ GivenTo(a, Elements(r)) BY <1>2 DEF Holds
<1>4. r.cells \in Seq(Cell) /\ Len(r.cells) \in Nat /\ r.end = e
  <2>1. Len(Elements(r)) = r.end /\ Len(Elements(w)) = w.end BY <1>3, ElementsFact
  <2> QED BY <1>2, <1>3, <2>1, LenProperties DEF Constructed, Holds
<1>5. n <= Len(r.cells)
  <2>1. CASE Capacity(w) < n
    <3>1. r.cells = Copied(Allocated(n), Elements(w), 1) BY <2>1 DEF Reserve, Moved
    <3>2. Elements(w) \in Seq(Cell) BY ElementsFact
    <3>3. Allocated(n) \in Seq(Cell) /\ Len(Allocated(n)) = n BY <1>1, AllocatedFact
    <3>4. Len(Copied(Allocated(n), Elements(w), 1)) = n BY <3>2, <3>3, CopiedFact
    <3> QED BY <1>1, <3>1, <3>4
  <2>2. CASE ~(Capacity(w) < n)
    <3>1. r = w /\ Len(w.cells) \in Nat BY <2>2, LenProperties DEF Reserve, Constructed
    <3> QED BY <1>1, <2>2, <3>1 DEF Capacity
  <2> QED BY <2>1, <2>2
<1>6. PartType(a, r.cells) /\ InOrderTo(a, r.cells, 1)
  <2>1. PartType(a, r.cells) /\ (a.inside => Reads(a, r.cells)) BY <1>3, GivenIsThere
  <2>2. 1 <= a.pos BY DEF GivenTo
  <2> QED BY <2>1, <2>2 DEF InOrderTo
<1> HIDE DEF r, n
<1>7. Written(placed, r.cells, a, 1, n) BY <1>4, <1>6, PlacedFact DEF n
<1> HIDE DEF placed
<1>8. /\ placed \in Seq(Cell) /\ Len(placed) = Len(r.cells)
      /\ \A i \in 1..Len(r.cells) : ~(1 <= i /\ i < 1 + n) => placed[i] = r.cells[i]
      /\ \A i \in 1..Len(r.cells) : 1 <= i /\ i < 1 + n => placed[i] = text[i - 1 + 1]
  BY <1>6, <1>7 DEF Written
<1>9. DOMAIN placed = 1..Len(r.cells) BY <1>8, LenProperties
<1>10. ASSUME NEW i \in 1..Len(r.cells)
       PROVE  /\ c[i] \in Cell /\ (i <= n => c[i] = text[i]) /\ (i > n => c[i] = Raw)
  <2>1. c[i] = IF i \in n + 1..e THEN Raw ELSE placed[i] BY <1>9
  <2>2. placed[i] \in Cell BY <1>8, ElementOfSeq
  <2>3. i <= n => i \notin n + 1..e /\ placed[i] = text[i] BY <1>1, <1>4, <1>8
  <2>4. i > n /\ i \notin n + 1..e => i > r.end /\ placed[i] = r.cells[i]
    BY <1>1, <1>4, <1>8
  <2>5. i > r.end => r.cells[i] = Raw BY <1>3 DEF Constructed
  <2> QED BY <2>1, <2>2, <2>3, <2>4, <2>5 DEF Cell
<1>11. c \in Seq(Cell) /\ Len(c) = Len(r.cells)
  <2>1. c = [i \in 1..Len(r.cells) |-> c[i]] BY <1>9
  <2> HIDE DEF c
  <2>2. c \in [1..Len(r.cells) -> Cell] BY <1>10, <2>1
  <2> QED BY <1>4, <2>2
<1> HIDE DEF c
<1> DEFINE o == [cells |-> c, end |-> n]
<1>12. o.cells = c /\ o.end = n /\ o \in Texts BY <1>1, <1>11 DEF Texts
<1> HIDE DEF o
<1>13. \A i \in 1..n : c[i] = text[i]
  <2>1. \A i \in 1..n : i \in 1..Len(r.cells) BY <1>1, <1>4, <1>5
  <2> QED BY <1>10, <2>1
<1>14. Holds(o, text) BY <1>1, <1>4, <1>5, <1>10, <1>11, <1>12, <1>13, Made DEF n
<1>15. Overwritten(w, a) = o BY DEF Overwritten, o, c, placed, r, n
<1> QED BY <1>12, <1>14, <1>15

(* The string's own Insert, which reads the part when it has moved up what  *)
(* is behind: what it makes of it is right but for a part of the string     *)
(* itself that it inserts before the end without growing.                   *)
MovedAway(w, p, a) ==
  a.inside /\ p # w.end + 1 /\ Capacity(w) > w.end + Len(a.text)

LEMMA InsertedPartHolds ==
  ASSUME NEW w \in Texts, Constructed(w), NEW p \in 1..w.end + 1, NEW a, PartType(a, w.cells)
  PROVE  /\ InsertedPart(w, p, a) \in Texts /\ Constructed(InsertedPart(w, p, a))
         /\ (a.inside => Reads(a, w.cells) /\ a.pos + Len(a.text) <= w.end + 1)
              /\ ~MovedAway(w, p, a)
            => Elements(InsertedPart(w, p, a)) = With(Elements(w), p, a.text)
<1> DEFINE n == Len(a.text)
           e == w.end
           u == Elements(w)
           put == IF a.inside THEN SubSeq(w.cells, a.pos, a.pos + n - 1) ELSE a.text
           now == [a EXCEPT !.text = put]
           back == SubSeq(w.cells, p, e)
           up == Copied(w.cells, back, p + n)
           c == Placed(up, now, p)
           i0 == InsertedPart(w, p, a)
           Right == a.inside => Reads(a, w.cells) /\ a.pos + n <= e + 1
<1>1. /\ n \in Nat /\ e \in Nat /\ w.cells \in Seq(Cell) /\ Len(w.cells) \in Nat
      /\ e <= Len(w.cells) /\ p \in Nat \ {0} /\ p <= e + 1
      /\ a.inside \in BOOLEAN /\ a.pos \in Nat \ {0} /\ a.text \in Seq(Cell)
  BY LenProperties DEF PartType, Constructed
<1>2. u \in Seq(Cell) /\ Len(u) = e /\ \A i \in 1..e : u[i] = w.cells[i] BY ElementsFact
<1>3. /\ put \in Seq(Cell) /\ Len(put) = n
      /\ a.inside => \A i \in 1..n : put[i] = w.cells[a.pos + i - 1]
      /\ Right => put = a.text
  <2>1. CASE a.inside
    <3>1. a.pos + n <= Len(w.cells) + 1 BY <2>1 DEF PartType
    <3> DEFINE l == a.pos + n - 1
    <3>2. l \in Nat /\ a.pos <= l + 1 /\ l <= Len(w.cells) /\ l - a.pos + 1 = n
      <4> DEFINE f == a.pos
                 z == Len(w.cells)
      <4>1. n \in Nat /\ f \in Nat \ {0} /\ z \in Nat /\ f + n <= z + 1 BY <1>1, <3>1
      <4> HIDE DEF n, f, z
      <4>2. f + n - 1 \in Nat /\ f <= (f + n - 1) + 1 /\ f + n - 1 <= z /\ (f + n - 1) - f + 1 = n
        BY ONLY <4>1
      <4> QED BY ONLY <4>2 DEF f, z
    <3> HIDE DEF l
    <3>3. /\ SubSeq(w.cells, a.pos, l) \in Seq(Cell) /\ Len(SubSeq(w.cells, a.pos, l)) = n
          /\ \A i \in 1..n : SubSeq(w.cells, a.pos, l)[i] = w.cells[a.pos + i - 1]
      <4> DEFINE mem == w.cells
                 f == a.pos
      <4>1. mem \in Seq(Cell) /\ f \in Nat \ {0} /\ l \in Nat /\ f <= l + 1 /\ l <= Len(mem)
        BY <1>1, <3>2
      <4>2. l - f + 1 = n BY <3>2
      <4> HIDE DEF mem, f, n
      <4>3. /\ SubSeq(mem, f, l) \in Seq(Cell) /\ Len(SubSeq(mem, f, l)) = l - f + 1
            /\ \A i \in 1..l - f + 1 : SubSeq(mem, f, l)[i] = mem[f + i - 1]
        BY ONLY <4>1, PartFact
      <4> QED BY <4>2, <4>3 DEF mem, f
    <3>4. put = SubSeq(w.cells, a.pos, l) BY <2>1 DEF l
    <3> HIDE DEF put
    <3>5. Right => \A i \in 1..n : put[i] = a.text[i] BY <2>1, <3>3, <3>4 DEF Reads
    <3>6. put \in Seq(Cell) /\ Len(put) = Len(a.text) BY <3>3, <3>4
    <3>7. Right => put = a.text BY <1>1, <3>5, <3>6, SeqEqual
    <3> QED BY <3>3, <3>4, <3>7
  <2> QED BY <1>1, <2>1
<1> HIDE DEF put, n, u
<1>4. /\ now.inside = a.inside /\ now.pos = a.pos /\ now.text = put
      /\ now \in [inside : BOOLEAN, pos : Nat \ {0}, text : Seq(Cell)]
  BY <1>3 DEF PartType
<1>5. i0 = IF Len(w.cells) <= e + n THEN InsertOverflow(w, p, put)
           ELSE [cells |-> c, end |-> e + n]
  BY <1>4 DEF InsertedPart, Capacity, put, n
<1> HIDE DEF now, i0
<1>6. CASE Len(w.cells) <= e + n
  <2> DEFINE o == InsertOverflow(w, p, put)
  <2>1. Holds(o, With(u, p, put)) BY <1>3, OverflowHolds DEF u
  <2>2. o.cells \in Seq(Cell) /\ o.end \in Nat BY <2>1 DEF Holds, Constructed
  <2>3. o \in Texts BY <2>2 DEF InsertOverflow, Moved, Texts
  <2> QED BY <1>3, <1>5, <1>6, <2>1, <2>3 DEF Holds, Right, i0, u, n
<1>7. CASE ~(Len(w.cells) <= e + n)
  <2>0. e + n < Len(w.cells) BY <1>1, <1>7
  <2>1. /\ back \in Seq(Cell) /\ Len(back) = e - p + 1
        /\ \A i \in 1..e - p + 1 : back[i] = w.cells[p + i - 1]
    BY <1>1, PartFact
  <2> HIDE DEF back
  <2>2. /\ up \in Seq(Cell) /\ Len(up) = Len(w.cells)
        /\ \A i \in 1..Len(w.cells) :
             up[i] = IF p + n <= i /\ i < p + n + Len(back) THEN back[i - (p + n) + 1]
                     ELSE w.cells[i]
    <3>1. w.cells \in Seq(Cell) /\ back \in Seq(Cell) /\ p + n \in Nat \ {0} BY <1>1, <2>1
    <3> QED BY ONLY <3>1, CopiedFact
  <2> HIDE DEF up
  <2>3. PartType(now, up) BY <1>3, <1>4, <2>2 DEF PartType, n
  <2>4. Written(c, up, now, p, n) BY <1>1, <1>3, <1>4, <2>2, <2>3, PlacedFact
  <2> HIDE DEF c
  <2>5. /\ c \in Seq(Cell) /\ Len(c) = Len(w.cells)
        /\ \A i \in 1..Len(w.cells) : ~(p <= i /\ i < p + n) => c[i] = up[i]
        /\ InOrderTo(now, up, p) =>
             \A i \in 1..Len(w.cells) : p <= i /\ i < p + n => c[i] = put[i - p + 1]
    BY <1>4, <2>2, <2>4 DEF Written
  <2> DEFINE o == [cells |-> c, end |-> e + n]
  <2>6. o.cells = c /\ o.end = e + n /\ o \in Texts BY <1>1, <2>5 DEF Texts
  <2>6a. i0 = o BY <1>5, <1>7
  <2> HIDE DEF o
  <2>7. ASSUME NEW i \in 1..Len(c), i > e + n PROVE c[i] = Raw
    <3>1. i \in 1..Len(w.cells) /\ ~(p <= i /\ i < p + n) /\ i > w.end
          /\ ~(i < p + n + Len(back))
      BY <1>1, <2>1, <2>5, <2>7
    <3>2. c[i] = up[i] BY <2>5, <3>1
    <3>3. up[i] = w.cells[i] BY <2>2, <3>1
    <3>4. w.cells[i] = Raw BY <3>1 DEF Constructed
    <3> QED BY <3>2, <3>3, <3>4
  <2>8. Constructed(o) BY <1>1, <2>0, <2>5, <2>6, <2>7 DEF Constructed
  <2>9. ASSUME Right, ~MovedAway(w, p, a) PROVE Elements(o) = With(u, p, a.text)
    <3> DEFINE t == With(u, p, put)
    <3>1. InOrderTo(now, up, p)
      <4>1. CASE a.inside
        <5>1. p = e + 1 BY <1>1, <1>7, <2>9, <4>1 DEF MovedAway, Capacity, n
        <5>2. Len(back) = 0 BY <1>1, <2>1, <5>1
        <5>3. \A i \in 1..Len(w.cells) : up[i] = w.cells[i] BY <1>1, <2>2, <5>2
        <5>4. a.pos + n <= p BY <2>9, <4>1, <5>1
        <5>5. \A i \in 1..n : a.pos + i - 1 \in 1..Len(w.cells) BY <1>1, <5>1, <5>4
        <5>6. Reads(now, up) BY <1>3, <1>4, <4>1, <5>3, <5>5 DEF Reads
        <5> QED BY <1>3, <1>4, <5>4, <5>6 DEF InOrderTo
      <4>2. CASE ~a.inside BY <1>4, <4>2 DEF InOrderTo
      <4> QED BY <4>1, <4>2
    <3>2. /\ t \in Seq(Cell) /\ Len(t) = e + n
          /\ \A i \in 1..e + n : t[i] = IF i < p THEN u[i]
                                        ELSE IF i < p + n THEN put[i - p + 1] ELSE u[i - n]
      <4>1. u \in Seq(Cell) /\ put \in Seq(Cell) /\ p \in 1..Len(u) + 1 BY <1>1, <1>2, <1>3
      <4>2. /\ t \in Seq(Cell) /\ Len(t) = Len(u) + Len(put)
            /\ \A i \in 1..Len(u) + Len(put) :
                 t[i] = IF i < p THEN u[i]
                        ELSE IF i < p + Len(put) THEN put[i - p + 1] ELSE u[i - Len(put)]
        BY ONLY <4>1, WithFact
      <4> HIDE DEF t
      <4> QED BY <1>2, <1>3, <4>2
    <3> HIDE DEF t
    <3>3. ASSUME NEW i \in 1..e + n PROVE c[i] = t[i]
      <4>0. i \in 1..Len(w.cells) BY <1>1, <2>0
      <4>1. CASE i < p
        <5>1. c[i] = up[i] BY <1>1, <2>5, <4>0, <4>1
        <5>2. up[i] = w.cells[i] BY <1>1, <2>2, <4>0, <4>1
        <5>3. i \in 1..e BY <1>1, <4>1
        <5> QED BY <1>2, <3>2, <4>1, <5>1, <5>2, <5>3
      <4>2. CASE p <= i /\ i < p + n
        <5>1. ~(i < p) BY <1>1, <4>2
        <5> QED BY <2>5, <3>1, <3>2, <4>0, <4>2, <5>1
      <4>3. CASE p + n <= i
        <5>1. ~(i < p) /\ ~(i < p + n) /\ i < p + n + Len(back) BY <1>1, <2>1, <4>3
        <5>2. c[i] = up[i] BY <2>5, <4>0, <5>1
        <5> DEFINE k == i - (p + n) + 1
        <5>3. k \in 1..e - p + 1 /\ p + k - 1 = i - n /\ i - n \in 1..e BY <1>1, <4>3
        <5>4. up[i] = back[k] BY <2>2, <4>0, <4>3, <5>1
        <5> HIDE DEF k
        <5>5. back[k] = w.cells[i - n] BY <2>1, <5>3
        <5>6. t[i] = u[i - n] BY <3>2, <5>1
        <5> QED BY <1>2, <5>2, <5>3, <5>4, <5>5, <5>6
      <4> QED BY <1>1, <4>1, <4>2, <4>3
    <3>4. e + n <= Len(c) BY <1>1, <2>0, <2>5
    <3>5. Holds(o, t) BY <2>5, <2>6, <2>7, <3>2, <3>3, <3>4, Made
    <3>6. put = a.text BY <1>3, <2>9
    <3> QED BY <3>5, <3>6 DEF Holds, t
  <2> QED BY <2>6, <2>6a, <2>8, <2>9 DEF i0, u, n, Right
<1> QED BY <1>6, <1>7
-----------------------------------------------------------------------------
(* Sequences put together and taken apart.                                  *)
LEMMA WithAtEnd ==
  ASSUME NEW S, NEW s \in Seq(S), NEW given \in Seq(S)
  PROVE  With(s, Len(s) + 1, given) = s \o given
<1> DEFINE p == Len(s) + 1
           t == With(s, p, given)
<1>1. Len(s) \in Nat /\ Len(given) \in Nat /\ p \in 1..Len(s) + 1 BY LenProperties
<1>2. /\ t \in Seq(S) /\ Len(t) = Len(s) + Len(given)
      /\ \A i \in 1..Len(s) + Len(given) :
           t[i] = IF i < p THEN s[i]
                  ELSE IF i < p + Len(given) THEN given[i - p + 1] ELSE s[i - Len(given)]
  BY <1>1, WithFact
<1>3. /\ s \o given \in Seq(S) /\ Len(s \o given) = Len(s) + Len(given)
      /\ \A i \in 1..Len(s) + Len(given) :
           (s \o given)[i] = IF i <= Len(s) THEN s[i] ELSE given[i - Len(s)]
  BY ConcatProperties
<1> HIDE DEF t
<1>4. ASSUME NEW i \in 1..Len(s) + Len(given) PROVE t[i] = (s \o given)[i]
  <2>1. CASE i <= Len(s)
    <3>1. i < p BY <1>1, <2>1
    <3> QED BY <1>2, <1>3, <2>1, <3>1
  <2>2. CASE ~(i <= Len(s))
    <3>1. ~(i < p) /\ i < p + Len(given) /\ i - p + 1 = i - Len(s) BY <1>1, <2>2
    <3>2. t[i] = given[i - p + 1] BY <1>2, <3>1
    <3>3. (s \o given)[i] = given[i - Len(s)] BY <1>3, <2>2
    <3> QED BY <3>1, <3>2, <3>3
  <2> QED BY <2>1, <2>2
<1>5. t = s \o given BY <1>2, <1>3, <1>4, SeqEqual
<1> QED BY <1>5 DEF t

LEMMA WithBetween ==
  ASSUME NEW S, NEW a \in Seq(S), NEW b \in Seq(S), NEW given \in Seq(S)
  PROVE  With(a \o b, Len(a) + 1, given) = a \o given \o b
<1> DEFINE s == a \o b
           p == Len(a) + 1
           t == With(s, p, given)
           u == a \o given \o b
<1>1. Len(a) \in Nat /\ Len(b) \in Nat /\ Len(given) \in Nat BY LenProperties
<1>2. /\ s \in Seq(S) /\ Len(s) = Len(a) + Len(b)
      /\ \A i \in 1..Len(a) + Len(b) : s[i] = IF i <= Len(a) THEN a[i] ELSE b[i - Len(a)]
  BY ConcatProperties
<1>3. /\ u \in Seq(S) /\ Len(u) = Len(a) + Len(given) + Len(b)
      /\ \A i \in 1..Len(a) + Len(given) + Len(b) :
           u[i] = IF i <= Len(a) THEN a[i]
                  ELSE IF i <= Len(a) + Len(given) THEN given[i - Len(a)]
                  ELSE b[i - Len(a) - Len(given)]
  BY ONLY a \in Seq(S), b \in Seq(S), given \in Seq(S), Joined
<1> HIDE DEF s, u
<1>4. p \in 1..Len(s) + 1 BY <1>1, <1>2
<1>5. /\ t \in Seq(S) /\ Len(t) = Len(s) + Len(given)
      /\ \A i \in 1..Len(s) + Len(given) :
           t[i] = IF i < p THEN s[i]
                  ELSE IF i < p + Len(given) THEN given[i - p + 1] ELSE s[i - Len(given)]
  <2>1. s \in Seq(S) /\ given \in Seq(S) /\ p \in 1..Len(s) + 1 BY <1>2, <1>4
  <2> HIDE DEF p
  <2> QED BY ONLY <2>1, WithFact DEF t
<1> HIDE DEF t
<1>6. Len(t) = Len(u) BY <1>1, <1>2, <1>3, <1>5
<1>7. ASSUME NEW i \in 1..Len(u) PROVE t[i] = u[i]
  <2>0. i \in 1..Len(s) + Len(given) /\ i \in 1..Len(a) + Len(given) + Len(b)
    BY <1>1, <1>2, <1>3
  <2>1. CASE i <= Len(a)
    <3>1. i < p /\ i \in 1..Len(a) + Len(b) BY <1>1, <2>0, <2>1
    <3>2. t[i] = s[i] BY <1>5, <2>0, <3>1
    <3> QED BY <1>2, <1>3, <2>0, <2>1, <3>1, <3>2
  <2>2. CASE ~(i <= Len(a)) /\ i <= Len(a) + Len(given)
    <3>1. ~(i < p) /\ i < p + Len(given) /\ i - p + 1 = i - Len(a) BY <1>1, <2>0, <2>2
    <3>2. t[i] = given[i - p + 1] BY <1>5, <2>0, <3>1
    <3> QED BY <1>3, <2>0, <2>2, <3>1, <3>2
  <2>3. CASE ~(i <= Len(a) + Len(given))
    <3>1. ~(i < p) /\ ~(i < p + Len(given)) /\ ~(i <= Len(a)) BY <1>1, <2>0, <2>3
    <3> DEFINE k == i - Len(given)
    <3>2. k \in 1..Len(a) + Len(b) /\ ~(k <= Len(a)) /\ k - Len(a) = i - Len(a) - Len(given)
      BY <1>1, <2>0, <2>3
    <3>3. t[i] = s[k] BY <1>5, <2>0, <3>1
    <3> HIDE DEF k
    <3>4. s[k] = b[k - Len(a)] BY <1>2, <3>2
    <3>5. u[i] = b[i - Len(a) - Len(given)] BY <1>3, <2>0, <2>3, <3>1
    <3> QED BY <3>2, <3>3, <3>4, <3>5
  <2> QED BY <2>1, <2>2, <2>3
<1>8. t = u BY <1>3, <1>5, <1>6, <1>7, SeqEqual
<1> QED BY <1>8 DEF t, u, s

LEMMA NothingIsEmpty ==
  ASSUME NEW S, NEW s \in Seq(S), NEW m \in Nat, NEW n \in Nat, m > n
  PROVE  SubSeq(s, m, n) = <<>>
<1>1. m \in Int /\ n \in Int /\ \A i \in m..n : s[i] \in S OBVIOUS
<1>2. /\ SubSeq(s, m, n) \in Seq(S)
      /\ Len(SubSeq(s, m, n)) = IF m <= n THEN n - m + 1 ELSE 0
  BY <1>1, SubSeqProperties
<1>3. Len(SubSeq(s, m, n)) = 0 BY <1>2
<1> QED BY <1>2, <1>3
-----------------------------------------------------------------------------
LEMMA SeqOfFunction ==
  ASSUME NEW S, NEW n \in Nat, NEW f \in [1..n -> S]
  PROVE  f \in Seq(S) /\ Len(f) = n
OBVIOUS

LEMMA NewMemory ==
  ASSUME NEW n \in Nat, NEW s \in Seq(Cell)
  PROVE  Len(Copied(Allocated(n), s, 1)) = n
<1> DEFINE none == Allocated(n)
<1>1. none \in Seq(Cell) /\ Len(none) = n BY AllocatedFact
<1> HIDE DEF none
<1>2. Len(Copied(none, s, 1)) = n BY <1>1, CopiedFact
<1> QED BY <1>2 DEF none

(* Clear keeps the memory.                                                  *)
LEMMA EmptiedHolds ==
  ASSUME NEW w \in Texts, Constructed(w)
  PROVE  LET o == EraseCells(w, 1, w.end + 1) IN o \in Texts /\ Holds(o, <<>>)
<1> DEFINE o == EraseCells(w, 1, w.end + 1)
           s == Elements(w)
<1>1. w.end \in Nat /\ 1 \in 1..w.end + 1 /\ w.end + 1 \in 1..w.end + 1 BY DEF Constructed
<1>2. s \in Seq(Cell) /\ Len(s) = w.end BY ElementsFact
<1>3. Holds(o, SubSeq(s, 1, 1 - 1) \o SubSeq(s, w.end + 1, Len(s))) BY <1>1, EraseCellsHolds
<1> HIDE DEF s
<1>4. SubSeq(s, 1, 1 - 1) = <<>> /\ SubSeq(s, w.end + 1, Len(s)) = <<>>
  <2>1. 1 - 1 \in Nat /\ 1 > 1 - 1 /\ w.end + 1 \in Nat /\ Len(s) \in Nat /\ w.end + 1 > Len(s)
    BY <1>1, <1>2
  <2> QED BY <1>2, <2>1, NothingIsEmpty
<1>5. Holds(o, <<>>)
  <2>1. <<>> \o <<>> = <<>> OBVIOUS
  <2> HIDE DEF o
  <2> QED BY <1>3, <1>4, <2>1
<1>6. o \in Texts BY <1>5 DEF Holds, Constructed, EraseCells, Texts
<1> QED BY <1>5, <1>6

(* n times a character: right at the end, elsewhere the last character of   *)
(* what is behind is lost.                                                  *)
LEMMA FilledHolds ==
  ASSUME NEW w \in Texts, Constructed(w), NEW p \in 1..w.end + 1, NEW n \in Nat \ {0},
         NEW c \in Cell
  PROVE  /\ Filled(w, p, n, c) \in Texts /\ Constructed(Filled(w, p, n, c))
         /\ p = w.end + 1 =>
              Elements(Filled(w, p, n, c)) = Elements(w) \o [i \in 1..n |-> c]
<1> DEFINE e == w.end
           u == Elements(w)
           r == Reserve(w, e + n)
           back == SubSeq(r.cells, p, e - 1)
           up == IF p > e THEN r.cells ELSE Copied(r.cells, back, p + n)
           fill == [i \in 1..n |-> c]
           d == Copied(up, fill, p)
           o == [cells |-> d, end |-> e + n]
<1>1. e \in Nat /\ e + n \in Nat /\ p \in Nat \ {0} /\ p <= e + 1 BY DEF Constructed
<1>2. u \in Seq(Cell) /\ Len(u) = e BY ElementsFact
<1>3. Holds(r, u) BY <1>1, ReserveHolds
<1> HIDE DEF u
<1>4. Constructed(r) /\ r.cells \in Seq(Cell) /\ Len(r.cells) \in Nat /\ r.end = e
  <2>1. Constructed(r) /\ Elements(r) = u BY <1>3 DEF Holds
  <2>2. Len(Elements(r)) = r.end BY <2>1, ElementsFact
  <2> QED BY <1>2, <2>1, <2>2, LenProperties DEF Constructed
<1>5. e + n <= Len(r.cells)
  <2>1. CASE Capacity(w) < e + n
    <3>1. r.cells = Copied(Allocated(e + n), u, 1) BY <2>1 DEF Reserve, Moved, u
    <3>2. Len(Copied(Allocated(e + n), u, 1)) = e + n BY <1>1, <1>2, NewMemory
    <3> QED BY <1>1, <3>1, <3>2
  <2>2. CASE ~(Capacity(w) < e + n)
    <3>1. r = w /\ Len(w.cells) \in Nat BY <2>2, LenProperties DEF Reserve, Constructed
    <3> QED BY <1>1, <2>2, <3>1 DEF Capacity
  <2> QED BY <2>1, <2>2
<1>6. fill \in Seq(Cell) /\ Len(fill) = n
  <2>1. fill \in [1..n -> Cell] OBVIOUS
  <2> QED BY <2>1
<1> HIDE DEF r, fill
<1>7. /\ up \in Seq(Cell) /\ Len(up) = Len(r.cells)
      /\ \A i \in 1..Len(r.cells) : i > e + n => up[i] = r.cells[i]
  <2>1. CASE p > e BY <1>4, <2>1
  <2>2. CASE ~(p > e)
    <3>1. e - 1 \in Nat /\ p <= (e - 1) + 1 /\ e - 1 <= Len(r.cells)
      BY <1>1, <1>5, <1>4, <2>2
    <3>2. back \in Seq(Cell) /\ Len(back) = (e - 1) - p + 1
      <4> DEFINE mem == r.cells
                 l == e - 1
      <4>1. mem \in Seq(Cell) /\ p \in Nat \ {0} /\ l \in Nat /\ p <= l + 1 /\ l <= Len(mem)
        BY <1>1, <1>4, <3>1
      <4> HIDE DEF mem, l
      <4>2. SubSeq(mem, p, l) \in Seq(Cell) /\ Len(SubSeq(mem, p, l)) = l - p + 1
        BY ONLY <4>1, PartFact
      <4> QED BY <4>2 DEF mem, l
    <3> HIDE DEF back
    <3>3. /\ Copied(r.cells, back, p + n) \in Seq(Cell)
          /\ Len(Copied(r.cells, back, p + n)) = Len(r.cells)
          /\ \A i \in 1..Len(r.cells) :
               Copied(r.cells, back, p + n)[i] =
                 IF p + n <= i /\ i < p + n + Len(back) THEN back[i - (p + n) + 1]
                 ELSE r.cells[i]
      <4> DEFINE mem == r.cells
      <4>1. mem \in Seq(Cell) /\ back \in Seq(Cell) /\ p + n \in Nat \ {0} BY <1>1, <1>4, <3>2
      <4> HIDE DEF mem
      <4>2. /\ Copied(mem, back, p + n) \in Seq(Cell)
            /\ Len(Copied(mem, back, p + n)) = Len(mem)
            /\ \A i \in 1..Len(mem) :
                 Copied(mem, back, p + n)[i] =
                   IF p + n <= i /\ i < p + n + Len(back) THEN back[i - (p + n) + 1] ELSE mem[i]
        BY ONLY <4>1, CopiedFact
      <4> QED BY <4>2 DEF mem
    <3>4. up = Copied(r.cells, back, p + n) BY <2>2 DEF back
    <3> HIDE DEF up
    <3>5. ASSUME NEW i \in 1..Len(r.cells), i > e + n PROVE up[i] = r.cells[i]
      <4>1. ~(i < p + n + Len(back)) BY <1>1, <3>2, <3>5
      <4> QED BY <3>3, <3>4, <4>1
    <3> QED BY <3>3, <3>4, <3>5
  <2> QED BY <2>1, <2>2
<1> HIDE DEF up
<1>8. /\ d \in Seq(Cell) /\ Len(d) = Len(up)
      /\ \A i \in 1..Len(up) :
           d[i] = IF p <= i /\ i < p + Len(fill) THEN fill[i - p + 1] ELSE up[i]
  BY ONLY <1>1, <1>6, <1>7, CopiedFact DEF d
<1> HIDE DEF d
<1>9. o.cells = d /\ o.end = e + n /\ o \in Texts BY <1>1, <1>8 DEF Texts
<1>10. Filled(w, p, n, c) = o BY DEF Filled, o, d, up, back, r, fill, e
<1> HIDE DEF o
<1>11. ASSUME NEW i \in 1..Len(d), i > e + n PROVE d[i] = Raw
  <2>1. i \in 1..Len(up) /\ i \in 1..Len(r.cells) /\ ~(i < p + Len(fill)) /\ i > r.end
    BY <1>1, <1>4, <1>6, <1>7, <1>8, <1>11
  <2>2. d[i] = up[i] BY <1>8, <2>1
  <2>3. up[i] = r.cells[i] BY <1>7, <1>11, <2>1
  <2>4. r.cells[i] = Raw BY <1>4, <2>1 DEF Constructed
  <2> QED BY <2>2, <2>3, <2>4
<1>12. Constructed(o) BY <1>1, <1>5, <1>7, <1>8, <1>9, <1>11 DEF Constructed
<1>13. ASSUME p = e + 1 PROVE Elements(o) = u \o fill
  <2>1. up = r.cells /\ p = r.end + 1 BY <1>1, <1>4, <1>13 DEF up
  <2>2. r.end + Len(fill) <= Len(r.cells) BY <1>4, <1>5, <1>6
  <2>3. Holds([cells |-> Copied(r.cells, fill, r.end + 1), end |-> r.end + Len(fill)],
              With(Elements(r), r.end + 1, fill))
    BY <1>4, <1>6, <2>2, AppendedHolds
  <2>4. o = [cells |-> Copied(r.cells, fill, r.end + 1), end |-> r.end + Len(fill)]
    BY <1>4, <1>6, <2>1 DEF o, d
  <2>5. Elements(o) = With(u, Len(u) + 1, fill) BY <1>2, <1>3, <1>4, <2>3, <2>4 DEF Holds
  <2> QED BY <1>2, <1>6, <2>5, WithAtEnd
<1> QED BY <1>9, <1>10, <1>12, <1>13 DEF u, fill, e

(* Characters changed where they are: by case, one of them, or all that are *)
(* c. No text behind the end comes of it.                                   *)
LEMMA ChangedHolds ==
  ASSUME NEW w \in Texts, Constructed(w), NEW u \in Seq(Cell), Len(u) = w.end,
         NEW c \in Seq(Cell), Len(c) = Len(w.cells),
         \A i \in 1..Len(w.cells) : c[i] = IF i <= w.end THEN u[i] ELSE w.cells[i]
  PROVE  [w EXCEPT !.cells = c] \in Texts /\ Holds([w EXCEPT !.cells = c], u)
<1> DEFINE o == [w EXCEPT !.cells = c]
<1>1. o.cells = c /\ o.end = w.end /\ o \in Texts BY DEF Texts
<1> HIDE DEF o
<1>2. w.end \in Nat /\ w.end <= Len(w.cells) /\ Len(w.cells) \in Nat
  BY LenProperties DEF Constructed
<1>3. \A i \in 1..w.end : c[i] = u[i] BY <1>2
<1>4. \A i \in 1..Len(c) : i > w.end => c[i] = Raw BY <1>2 DEF Constructed
<1>5. Holds(o, u) BY <1>1, <1>2, <1>3, <1>4, Made
<1> QED BY <1>1, <1>5 DEF o

LEMMA WrittenCharHolds ==
  ASSUME NEW w \in Texts, Constructed(w), NEW p \in 1..w.end, NEW x \in Cell
  PROVE  LET o == [w EXCEPT !.cells = Copied(@, <<x>>, p)]
         IN  o \in Texts /\ Holds(o, [Elements(w) EXCEPT ![p] = x])
<1> DEFINE s == Elements(w)
           u == [s EXCEPT ![p] = x]
           one == <<x>>
           mem == w.cells
           c == Copied(mem, one, p)
<1>1. w.end \in Nat /\ w.end <= Len(mem) /\ Len(mem) \in Nat /\ mem \in Seq(Cell) /\ p \in Nat \ {0}
  BY LenProperties DEF Constructed
<1>2. s \in Seq(Cell) /\ Len(s) = w.end /\ \A i \in 1..w.end : s[i] = mem[i] BY ElementsFact
<1> HIDE DEF s
<1>3. u \in Seq(Cell) /\ Len(u) = w.end /\ \A i \in 1..w.end : u[i] = IF i = p THEN x ELSE s[i]
  <2>1. DOMAIN s = 1..w.end BY <1>2, LenProperties
  <2> QED BY <1>2, <2>1, ExceptSeq
<1> HIDE DEF u
<1>4. one \in Seq(Cell) /\ Len(one) = 1 /\ one[1] = x OBVIOUS
<1> HIDE DEF one, mem
<1>5. /\ c \in Seq(Cell) /\ Len(c) = Len(mem)
      /\ \A i \in 1..Len(mem) :
           c[i] = IF p <= i /\ i < p + Len(one) THEN one[i - p + 1] ELSE mem[i]
  BY ONLY <1>1, <1>4, CopiedFact DEF c
<1> HIDE DEF c
<1>6. ASSUME NEW i \in 1..Len(mem) PROVE c[i] = IF i <= w.end THEN u[i] ELSE mem[i]
  <2>1. CASE i = p
    <3>1. p <= i /\ i < p + Len(one) /\ i - p + 1 = 1 /\ i <= w.end /\ i \in 1..w.end
      BY <1>1, <1>4, <2>1
    <3> QED BY <1>3, <1>4, <1>5, <2>1, <3>1
  <2>2. CASE i # p
    <3>1. ~(p <= i /\ i < p + Len(one)) BY <1>1, <1>4, <2>2
    <3>2. i <= w.end => i \in 1..w.end BY <1>1
    <3> QED BY <1>2, <1>3, <1>5, <2>2, <3>1, <3>2
  <2> QED BY <2>1, <2>2
<1>7. [w EXCEPT !.cells = c] \in Texts /\ Holds([w EXCEPT !.cells = c], u)
  BY <1>3, <1>5, <1>6, ChangedHolds DEF mem
<1> QED BY <1>7 DEF c, u, s, one, mem

LEMMA CasedHolds ==
  ASSUME NEW w \in Texts, Constructed(w), NEW case \in [Cell -> Cell]
  PROVE  LET o == [w EXCEPT !.cells =
                    [i \in DOMAIN @ |-> IF i <= w.end THEN case[@[i]] ELSE @[i]]]
         IN  o \in Texts /\ Holds(o, [i \in DOMAIN Elements(w) |-> case[Elements(w)[i]]])
<1> DEFINE s == Elements(w)
           mem == w.cells
           u == [i \in DOMAIN s |-> case[s[i]]]
           c == [i \in DOMAIN mem |-> IF i <= w.end THEN case[mem[i]] ELSE mem[i]]
<1>1. w.end \in Nat /\ w.end <= Len(mem) /\ Len(mem) \in Nat /\ mem \in Seq(Cell)
  BY LenProperties DEF Constructed
<1>2. s \in Seq(Cell) /\ Len(s) = w.end /\ \A i \in 1..w.end : s[i] = mem[i] BY ElementsFact
<1> HIDE DEF s, mem
<1>3. DOMAIN s = 1..w.end /\ DOMAIN mem = 1..Len(mem) BY <1>1, <1>2, LenProperties
<1>4. \A i \in 1..Len(mem) : mem[i] \in Cell BY <1>1, ElementOfSeq
<1>5. \A i \in 1..w.end : s[i] \in Cell BY <1>2, ElementOfSeq
<1>6. u \in [1..w.end -> Cell] /\ c \in [1..Len(mem) -> Cell] BY <1>3, <1>4, <1>5
<1>7. \A i \in 1..w.end : u[i] = case[s[i]] BY <1>3
<1>8. \A i \in 1..Len(mem) : c[i] = IF i <= w.end THEN case[mem[i]] ELSE mem[i] BY <1>3
<1> HIDE DEF u, c
<1>9. u \in Seq(Cell) /\ Len(u) = w.end /\ c \in Seq(Cell) /\ Len(c) = Len(mem)
  BY <1>1, <1>6, SeqOfFunction
<1>10. \A i \in 1..Len(mem) : c[i] = IF i <= w.end THEN u[i] ELSE mem[i]
  <2>1. \A i \in 1..Len(mem) : i <= w.end => i \in 1..w.end BY <1>1
  <2> QED BY <1>2, <1>7, <1>8, <2>1
<1>11. [w EXCEPT !.cells = c] \in Texts /\ Holds([w EXCEPT !.cells = c], u)
  BY <1>9, <1>10, ChangedHolds DEF mem
<1> QED BY <1>11 DEF c, u, s, mem

LEMMA ReplacedCharsHolds ==
  ASSUME NEW w \in Texts, Constructed(w), NEW x \in Value, NEW by \in Value
  PROVE  LET o == [w EXCEPT !.cells = [i \in DOMAIN @ |-> IF @[i] = x THEN by ELSE @[i]]]
             s == Elements(w)
         IN  o \in Texts /\ Holds(o, [i \in DOMAIN s |-> IF s[i] = x THEN by ELSE s[i]])
<1> DEFINE s == Elements(w)
           mem == w.cells
           u == [i \in DOMAIN s |-> IF s[i] = x THEN by ELSE s[i]]
           c == [i \in DOMAIN mem |-> IF mem[i] = x THEN by ELSE mem[i]]
<1>1. w.end \in Nat /\ w.end <= Len(mem) /\ Len(mem) \in Nat /\ mem \in Seq(Cell)
  BY LenProperties DEF Constructed
<1>2. s \in Seq(Cell) /\ Len(s) = w.end /\ \A i \in 1..w.end : s[i] = mem[i] BY ElementsFact
<1>2a. \A i \in 1..Len(mem) : i > w.end => mem[i] # x BY StringsAssumption DEF Constructed
<1> HIDE DEF s, mem
<1>3. DOMAIN s = 1..w.end /\ DOMAIN mem = 1..Len(mem) BY <1>1, <1>2, LenProperties
<1>4. \A i \in 1..Len(mem) : mem[i] \in Cell BY <1>1, ElementOfSeq
<1>5. \A i \in 1..w.end : s[i] \in Cell BY <1>2, ElementOfSeq
<1>5a. by \in Cell BY DEF Cell
<1>6. u \in [1..w.end -> Cell] /\ c \in [1..Len(mem) -> Cell] BY <1>3, <1>4, <1>5, <1>5a
<1>7. \A i \in 1..w.end : u[i] = IF s[i] = x THEN by ELSE s[i] BY <1>3
<1>8. \A i \in 1..Len(mem) : c[i] = IF mem[i] = x THEN by ELSE mem[i] BY <1>3
<1> HIDE DEF u, c
<1>9. u \in Seq(Cell) /\ Len(u) = w.end /\ c \in Seq(Cell) /\ Len(c) = Len(mem)
  BY <1>1, <1>6, SeqOfFunction
<1>10. \A i \in 1..Len(mem) : c[i] = IF i <= w.end THEN u[i] ELSE mem[i]
  <2>1. \A i \in 1..Len(mem) : i <= w.end => i \in 1..w.end BY <1>1
  <2>2. \A i \in 1..Len(mem) : ~(i <= w.end) => i > w.end BY <1>1
  <2> QED BY <1>2, <1>2a, <1>7, <1>8, <2>1, <2>2
<1>11. [w EXCEPT !.cells = c] \in Texts /\ Holds([w EXCEPT !.cells = c], u)
  BY <1>9, <1>10, ChangedHolds DEF mem
<1> QED BY <1>11 DEF c, u, s, mem
-----------------------------------------------------------------------------
(* The parts a call can be given are parts.                                 *)
Inside(h, s, a) == a.inside => h.impl[s] # Null /\ ~Shared(h, s)

LEMMA PartsFact ==
  ASSUME NEW h, Counted(h), NEW s \in String, NEW a \in PartsOf(h, s)
  PROVE  GivenTo(a, Text(h, s)) /\ Inside(h, s, a) /\ a.text # <<>>
<1>0. PICK t \in String :
        \E pos \in DOMAIN Text(h, t), n \in 1..Len(Text(h, t)) : a = PartOf(h, s, t, pos, n)
  BY DEF PartsOf
<1>1. PICK pos \in DOMAIN Text(h, t), n \in 1..Len(Text(h, t)) : a = PartOf(h, s, t, pos, n)
  BY <1>0
<1> DEFINE text == Text(h, t)
           last == IF pos + n - 1 > Len(text) THEN Len(text) ELSE pos + n - 1
           some == SubSeq(text, pos, last)
<1>2. text \in Seq(Cell) /\ Len(text) \in Nat /\ DOMAIN text = 1..Len(text)
  BY TextFact, LenProperties
<1>3. a.inside = (s = t /\ ~Shared(h, s)) /\ a.pos = pos /\ a.text = some
      /\ a = [inside |-> (s = t /\ ~Shared(h, s)), pos |-> pos, text |-> some]
  BY <1>1 DEF PartOf
<1>4. pos \in Nat \ {0} /\ pos <= Len(text) /\ n \in Nat \ {0} BY <1>2
<1> HIDE DEF text
<1>5. last \in Nat /\ pos <= last /\ last <= Len(text) BY <1>2, <1>4
<1> HIDE DEF last
<1>6. /\ some \in Seq(Cell) /\ Len(some) = last - pos + 1
      /\ \A i \in 1..last - pos + 1 : some[i] = text[pos + i - 1]
  <2>1. pos <= last + 1 BY <1>4, <1>5
  <2> QED BY ONLY <1>2, <1>4, <1>5, <2>1, PartFact
<1> HIDE DEF some
<1>7. pos + Len(some) <= Len(text) + 1 /\ Len(some) > 0 BY <1>2, <1>4, <1>5, <1>6
<1>8. a.text # <<>> BY <1>3, <1>7
<1>9. a \in [inside : BOOLEAN, pos : Nat \ {0}, text : Seq(Cell)] BY <1>3, <1>4, <1>6
<1>10. ASSUME a.inside PROVE s = t /\ ~Shared(h, s) /\ h.impl[s] # Null
  <2>1. s = t /\ ~Shared(h, s) BY <1>3, <1>10
  <2>2. Len(Text(h, s)) > 0 BY <1>2, <1>4, <2>1 DEF text
  <2> QED BY <2>1, <2>2 DEF Text
<1>11. ASSUME a.inside
       PROVE  /\ a.pos + Len(a.text) <= Len(Text(h, s)) + 1
              /\ \A i \in 1..Len(a.text) : Text(h, s)[a.pos + i - 1] = a.text[i]
  <2>1. Text(h, s) = text BY <1>10, <1>11 DEF text
  <2> QED BY <1>3, <1>6, <1>7, <2>1
<1> QED BY <1>8, <1>9, <1>10, <1>11 DEF GivenTo, Inside

LEMMA GivenFact ==
  ASSUME NEW h, NEW s, NEW text \in Seq(Cell), NEW u
  PROVE  GivenTo(Given(text), u) /\ Inside(h, s, Given(text)) /\ Given(text).text = text
BY DEF Given, GivenTo, Inside

(* The memory of a copy of its own.                                         *)
LEMMA OwnMemory ==
  ASSUME NEW h, Counted(h), NEW s \in String
  PROVE  LET own == create_local_copy(h, s)
             w == own.text[own.impl[s]]
         IN  /\ w \in Texts /\ Constructed(w)
             /\ Elements(w) = Text(h, s) /\ w.end = Len(Text(h, s))
             /\ h.impl[s] # Null /\ ~Shared(h, s) => w = h.text[h.impl[s]]
<1> DEFINE own == create_local_copy(h, s)
           w == own.text[own.impl[s]]
<1>1. /\ Makes_Text(h, own, s, Text(h, s)) /\ own.impl[s] \in Buffer
      /\ Elements(w) = Text(h, s) /\ (h.impl[s] # Null /\ ~Shared(h, s) => own = h)
  BY CopyFact
<1> HIDE DEF own
<1>2. w \in Texts /\ Constructed(w) BY <1>1 DEF Makes_Text, Counted, Heaps
<1>3. w.end = Len(Elements(w)) BY <1>2, ElementsFact
<1> QED BY <1>1, <1>2, <1>3 DEF own
-----------------------------------------------------------------------------
(* The calls, one by one.                                                   *)
LEMMA AssignStringFact ==
  ASSUME NEW h, Counted(h), NEW s \in String, NEW t \in String
  PROVE  Makes_Text(h, AssignString(h, s, t), s, Text(h, t))
<1>1. CASE s = t BY <1>1 DEF AssignString, Makes_Text
<1>2. CASE s # t
  <2> DEFINE r == Release(h, s)
             b == h.impl[t]
  <2>1. Makes_Text(h, r, s, <<>>) /\ r.impl = [h.impl EXCEPT ![s] = Null] BY ReleaseFact
  <2>2. AssignString(h, s, t) = Obtain(r, s, b) BY <1>2 DEF AssignString
  <2> HIDE DEF r
  <2>3. Counted(r) /\ r.impl[s] = Null /\ r.impl[t] = b /\ Text(r, t) = Text(h, t)
    BY <1>2, <2>1 DEF Makes_Text, Counted, Heaps
  <2>4. CASE b = Null
    <3>1. Obtain(r, s, b) = r /\ Text(h, t) = <<>> BY <2>4 DEF Obtain, Text
    <3> QED BY <2>1, <2>2, <3>1
  <2>5. CASE b # Null
    <3>1. b \in Buffer BY <2>5, ReferencesFact
    <3>2. Elements(r.text[b]) = Text(h, t) BY <2>3, <2>5 DEF Text
    <3>3. Makes_Text(r, Obtain(r, s, b), s, Text(h, t)) BY <2>3, <3>1, <3>2, ObtainFact
    <3> QED BY <2>1, <2>2, <3>3 DEF Makes_Text
  <2> QED BY <2>4, <2>5
<1> QED BY <1>1, <1>2

LEMMA ClearFact ==
  ASSUME NEW h, Counted(h), NEW s \in String
  PROVE  Makes_Text(h, ClearString(h, s), s, <<>>)
<1>1. CASE h.impl[s] = Null \/ Shared(h, s) BY <1>1, ReleaseFact DEF ClearString
<1>2. CASE ~(h.impl[s] = Null \/ Shared(h, s))
  <2> DEFINE own == create_local_copy(h, s)
             w == own.text[own.impl[s]]
             o == EraseCells(w, 1, w.end + 1)
  <2>1. w \in Texts /\ Constructed(w) BY OwnMemory
  <2>2. ClearString(h, s) = [own EXCEPT !.text[own.impl[s]] = o] BY <1>2 DEF ClearString, OnOwn
  <2> HIDE DEF w
  <2>3. o \in Texts /\ Holds(o, <<>>) BY <2>1, EmptiedHolds
  <2> HIDE DEF o
  <2>4. Makes_Text(h, [own EXCEPT !.text[own.impl[s]] = o], s, <<>>) BY <2>3, OnOwnFact
  <2> QED BY <2>2, <2>4
<1> QED BY <1>1, <1>2

LEMMA AssignPartFact ==
  ASSUME NEW h, Counted(h), NEW s \in String, NEW a, GivenTo(a, Text(h, s))
  PROVE  Makes_Text(h, AssignPart(h, s, a), s, a.text)
<1>1. CASE a.text = <<>> BY <1>1, ClearFact DEF AssignPart
<1>2. CASE a.text # <<>>
  <2> DEFINE own == create_local_copy(h, s)
             w == own.text[own.impl[s]]
             o == Overwritten(w, a)
  <2>1. w \in Texts /\ Constructed(w) /\ Elements(w) = Text(h, s) BY OwnMemory
  <2>2. AssignPart(h, s, a) = [own EXCEPT !.text[own.impl[s]] = o] BY <1>2 DEF AssignPart, OnOwn
  <2> HIDE DEF w
  <2>3. o \in Texts /\ Holds(o, a.text) BY <2>1, OverwrittenHolds
  <2> HIDE DEF o
  <2>4. Makes_Text(h, [own EXCEPT !.text[own.impl[s]] = o], s, a.text) BY <2>3, OnOwnFact
  <2> QED BY <2>2, <2>4
<1> QED BY <1>1, <1>2

LEMMA AssignCharFact ==
  ASSUME NEW h, Counted(h), NEW s \in String, NEW c \in Value
  PROVE  \E u : Makes_Text(h, AssignChar(h, s, c), s, u)
<1> DEFINE own == create_local_copy(h, s)
           w == own.text[own.impl[s]]
           ones == [i \in 1..c |-> 1]
           a == Given(ones)
           o == Overwritten(w, a)
<1>1. w \in Texts /\ Constructed(w) BY OwnMemory
<1>2. AssignChar(h, s, c) = [own EXCEPT !.text[own.impl[s]] = o] BY DEF AssignChar, OnOwn
<1>3. ones \in Seq(Cell)
  <2>1. c \in Nat /\ 1 \in Cell BY StringsAssumption DEF Cell
  <2> QED BY <2>1
<1> HIDE DEF w, ones
<1>4. GivenTo(a, Elements(w)) /\ a.text = ones BY <1>3, GivenFact
<1>5. o \in Texts /\ Holds(o, ones) BY <1>1, <1>4, OverwrittenHolds
<1> HIDE DEF o
<1>6. Makes_Text(h, [own EXCEPT !.text[own.impl[s]] = o], s, ones) BY <1>5, OnOwnFact
<1> QED BY <1>2, <1>6

LEMMA InsertPartFact ==
  ASSUME NEW h, Counted(h), NEW s \in String, NEW p \in PlaceIn(h, s),
         NEW a, GivenTo(a, Text(h, s)), Inside(h, s, a), a.text # <<>>
  PROVE  \E u : /\ Makes_Text(h, InsertPart(h, s, p, a), s, u)
                /\ ~MovesUpUnderIt(h, s, p, a) =>
                     u = IF is_null_string(a.text) THEN Text(h, s)
                         ELSE With(Text(h, s), p, a.text)
<1> DEFINE own == create_local_copy(h, s)
           w == own.text[own.impl[s]]
           o == InsertedPart(w, p, a)
           u == Elements(o)
<1>0. CASE is_null_string(a.text)
  <2>1. InsertPart(h, s, p, a) = h BY <1>0 DEF InsertPart
  <2>2. Makes_Text(h, h, s, Text(h, s)) BY DEF Makes_Text
  <2> QED BY <1>0, <2>1, <2>2
<1> SUFFICES ASSUME ~is_null_string(a.text)
             PROVE  \E z : /\ Makes_Text(h, InsertPart(h, s, p, a), s, z)
                           /\ ~MovesUpUnderIt(h, s, p, a) => z = With(Text(h, s), p, a.text)
  BY <1>0
<1>1. /\ w \in Texts /\ Constructed(w) /\ Elements(w) = Text(h, s) /\ w.end = Len(Text(h, s))
      /\ h.impl[s] # Null /\ ~Shared(h, s) => w = h.text[h.impl[s]]
  BY OwnMemory
<1>2. InsertPart(h, s, p, a) = [own EXCEPT !.text[own.impl[s]] = o] BY DEF InsertPart, OnOwn
<1> HIDE DEF w
<1>3. PartType(a, w.cells) /\ (a.inside => Reads(a, w.cells)) BY <1>1, GivenIsThere
<1>4. a.inside => a.pos + Len(a.text) <= w.end + 1 BY <1>1 DEF GivenTo
<1>5. p \in 1..w.end + 1 BY <1>1 DEF PlaceIn
<1>6. ~MovesUpUnderIt(h, s, p, a) => ~MovedAway(w, p, a)
  BY <1>1 DEF MovesUpUnderIt, MovedAway, Inside
<1>7. /\ o \in Texts /\ Constructed(o)
      /\ ~MovedAway(w, p, a) => Elements(o) = With(Elements(w), p, a.text)
  BY <1>1, <1>3, <1>4, <1>5, InsertedPartHolds
<1> HIDE DEF o
<1>8. Holds(o, u) BY <1>7 DEF Holds
<1>9. Makes_Text(h, [own EXCEPT !.text[own.impl[s]] = o], s, u) BY <1>7, <1>8, OnOwnFact
<1> QED BY <1>1, <1>2, <1>6, <1>7, <1>9

LEMMA FillFact ==
  ASSUME NEW h, Counted(h), NEW s \in String, NEW p \in PlaceIn(h, s), NEW n \in Nat \ {0},
         NEW c \in Value
  PROVE  \E u : /\ Makes_Text(h, Fill(h, s, p, n, c), s, u)
                /\ p = Len(Text(h, s)) + 1 =>
                     \A fill \in [1..n -> {c}] : u = Text(h, s) \o fill
<1> DEFINE own == create_local_copy(h, s)
           w == own.text[own.impl[s]]
           o == Filled(w, p, n, c)
           u == Elements(o)
<1>1. w \in Texts /\ Constructed(w) /\ Elements(w) = Text(h, s) /\ w.end = Len(Text(h, s))
  BY OwnMemory
<1>2. Fill(h, s, p, n, c) = [own EXCEPT !.text[own.impl[s]] = o] BY DEF Fill, OnOwn
<1> HIDE DEF w
<1>3. p \in 1..w.end + 1 /\ c \in Cell BY <1>1 DEF PlaceIn, Cell
<1>4. /\ o \in Texts /\ Constructed(o)
      /\ p = w.end + 1 => Elements(o) = Elements(w) \o [i \in 1..n |-> c]
  BY ONLY <1>1, <1>3, FilledHolds, n \in Nat \ {0}
<1> HIDE DEF o
<1>5. Holds(o, u) BY <1>4 DEF Holds
<1>6. Makes_Text(h, [own EXCEPT !.text[own.impl[s]] = o], s, u) BY <1>4, <1>5, OnOwnFact
<1>7. p = Len(Text(h, s)) + 1 => u = Text(h, s) \o [i \in 1..n |-> c] BY <1>1, <1>4
<1>8. \A fill \in [1..n -> {c}] : fill = [i \in 1..n |-> c] OBVIOUS
<1> HIDE DEF u
<1>9. p = Len(Text(h, s)) + 1 => \A fill \in [1..n -> {c}] : u = Text(h, s) \o fill
  BY <1>7, <1>8
<1> QED BY <1>2, <1>6, <1>9
-----------------------------------------------------------------------------
(* A part is replaced: the cells that go leave the memory as large as it    *)
(* was, so what is to be read there still is in it.                         *)
LEMMA ErasedMemory ==
  ASSUME NEW w \in Texts, NEW p \in Nat \ {0}, NEW last \in Nat \ {0}
  PROVE  DOMAIN EraseCells(w, p, last).cells = DOMAIN w.cells
BY DEF EraseCells, Copied

LEMMA ReplacedHolds ==
  ASSUME NEW w \in Texts, Constructed(w), NEW p \in 1..w.end, NEW n \in Nat,
         NEW a, GivenTo(a, Elements(w))
  PROVE  LET e == EraseCells(w, p, IF p + n > w.end + 1 THEN w.end + 1 ELSE p + n)
             o == InsertedPart(e, p, a)
         IN  /\ o \in Texts /\ Constructed(o)
             /\ ~a.inside => Elements(o) = SubSeq(Elements(w), 1, p - 1) \o a.text
                                             \o SubSeq(Elements(w), p + n, Len(Elements(w)))
<1> DEFINE s == Elements(w)
           last == IF p + n > w.end + 1 THEN w.end + 1 ELSE p + n
           e == EraseCells(w, p, last)
           o == InsertedPart(e, p, a)
           front == SubSeq(s, 1, p - 1)
           back == SubSeq(s, last, Len(s))
           rest == SubSeq(s, p + n, Len(s))
<1>1. /\ w.end \in Nat /\ w.cells \in Seq(Cell) /\ Len(w.cells) \in Nat
      /\ w.end <= Len(w.cells) /\ p \in Nat \ {0} /\ p <= w.end
  BY LenProperties DEF Constructed
<1>2. s \in Seq(Cell) /\ Len(s) = w.end BY ElementsFact
<1>3. last \in p..w.end + 1 /\ last \in Nat \ {0} BY <1>1
<1>4. p \in 1..w.end + 1 BY <1>1
<1> HIDE DEF last
<1>5. Holds(e, front \o back) BY <1>3, <1>4, EraseCellsHolds
<1> HIDE DEF s
<1>6. front \in Seq(Cell) /\ Len(front) = p - 1
  <2> DEFINE l == p - 1
  <2>1. 1 \in Nat \ {0} /\ l \in Nat /\ 1 <= l + 1 /\ l <= Len(s) /\ l - 1 + 1 = l BY <1>1, <1>2
  <2> HIDE DEF l
  <2>2. SubSeq(s, 1, l) \in Seq(Cell) /\ Len(SubSeq(s, 1, l)) = l - 1 + 1
    BY ONLY <1>2, <2>1, PartFact
  <2> QED BY <2>1, <2>2 DEF l
<1>7. back \in Seq(Cell)
  <2> DEFINE l == Len(s)
  <2>1. l \in Nat /\ last <= l + 1 /\ l <= Len(s) BY <1>1, <1>2, <1>3
  <2> HIDE DEF l
  <2>2. SubSeq(s, last, l) \in Seq(Cell) BY ONLY <1>2, <1>3, <2>1, PartFact
  <2> QED BY <2>2 DEF l
<1>8. back = rest
  <2>1. CASE p + n > w.end + 1
    <3>1. last = w.end + 1 BY <2>1 DEF last
    <3>2. last \in Nat /\ p + n \in Nat /\ Len(s) \in Nat /\ last > Len(s) /\ p + n > Len(s)
      BY <1>1, <1>2, <2>1, <3>1
    <3>3. back = <<>> /\ rest = <<>> BY <1>2, <3>2, NothingIsEmpty
    <3> QED BY <3>3
  <2>2. CASE ~(p + n > w.end + 1) BY <2>2 DEF last
  <2> QED BY <2>1, <2>2
<1>9. DOMAIN e.cells = DOMAIN w.cells BY <1>1, <1>3, ErasedMemory
<1>10. e \in Texts BY <1>5 DEF Holds, Constructed, EraseCells, Texts
<1>11. Constructed(e) /\ Elements(e) = front \o back BY <1>5 DEF Holds
<1> HIDE DEF e, front, back, rest
<1>12. Len(e.cells) = Len(w.cells)
  <2>1. e.cells \in Seq(Cell) BY <1>11 DEF Constructed
  <2>2. DOMAIN e.cells = 1..Len(e.cells) /\ DOMAIN w.cells = 1..Len(w.cells)
        /\ Len(e.cells) \in Nat
    BY <1>1, <2>1, LenProperties
  <2>3. 1..Len(e.cells) = 1..Len(w.cells) BY <1>9, <2>2
  <2> QED BY <1>1, <2>2, <2>3
<1>13. PartType(a, e.cells)
  <2>1. PartType(a, w.cells) BY <1>2, GivenIsThere DEF s
  <2> QED BY <1>12, <2>1 DEF PartType
<1>14. front \o back \in Seq(Cell) /\ Len(front \o back) = Len(front) + Len(back)
       /\ Len(back) \in Nat
  BY <1>6, <1>7, ConcatProperties, LenProperties
<1>15. e.end \in Nat /\ p \in 1..e.end + 1
  <2>1. Len(Elements(e)) = e.end BY <1>11, ElementsFact
  <2>2. e.end \in Nat BY <1>11 DEF Constructed
  <2> QED BY <1>1, <1>6, <1>11, <1>14, <2>1, <2>2
<1>16. /\ o \in Texts /\ Constructed(o)
       /\ (a.inside => Reads(a, e.cells) /\ a.pos + Len(a.text) <= e.end + 1)
            /\ ~MovedAway(e, p, a)
          => Elements(o) = With(Elements(e), p, a.text)
  BY <1>10, <1>11, <1>13, <1>15, InsertedPartHolds
<1> HIDE DEF o
<1>17. ASSUME ~a.inside PROVE Elements(o) = front \o a.text \o rest
  <2>1. ~MovedAway(e, p, a) BY <1>17 DEF MovedAway
  <2>2. Elements(o) = With(front \o back, p, a.text) BY <1>11, <1>16, <1>17, <2>1
  <2>3. p = Len(front) + 1 BY <1>1, <1>6
  <2>4. a.text \in Seq(Cell) BY DEF GivenTo
  <2>5. With(front \o back, Len(front) + 1, a.text) = front \o a.text \o back
    BY <1>6, <1>7, <2>4, WithBetween
  <2> QED BY <1>8, <2>2, <2>3, <2>5
<1> QED BY <1>16, <1>17 DEF o, e, front, rest, s, last

LEMMA ReplaceFact ==
  ASSUME NEW h, Counted(h), NEW s \in String, NEW p \in Nat \ {0}, NEW n \in Nat,
         NEW a, GivenTo(a, Text(h, s))
  PROVE  \E u : /\ Makes_Text(h, Replace(h, s, p, n, a), s, u)
                /\ p \in DOMAIN Text(h, s) /\ ~a.inside =>
                     u = SubSeq(Text(h, s), 1, p - 1) \o a.text
                           \o SubSeq(Text(h, s), p + n, Len(Text(h, s)))
<1>0. Text(h, s) \in Seq(Cell) /\ Len(Text(h, s)) \in Nat /\ DOMAIN Text(h, s) = 1..Len(Text(h, s))
  BY TextFact, LenProperties
<1>1. CASE p > Len(Text(h, s))
  <2>1. Replace(h, s, p, n, a) = h BY <1>1 DEF Replace
  <2>2. Makes_Text(h, Replace(h, s, p, n, a), s, Text(h, s)) BY <2>1 DEF Makes_Text
  <2>3. ~(p \in DOMAIN Text(h, s)) BY <1>0, <1>1
  <2> QED BY <2>2, <2>3
<1>2. CASE ~(p > Len(Text(h, s)))
  <2> DEFINE own == create_local_copy(h, s)
             w == own.text[own.impl[s]]
             e == EraseCells(w, p, IF p + n > w.end + 1 THEN w.end + 1 ELSE p + n)
             o == InsertedPart(e, p, a)
             u == Elements(o)
             text == Text(h, s)
  <2>1. w \in Texts /\ Constructed(w) /\ Elements(w) = text /\ w.end = Len(text)
    BY OwnMemory
  <2>2. Replace(h, s, p, n, a) = [own EXCEPT !.text[own.impl[s]] = o]
    BY <1>2 DEF Replace, OnOwn
  <2>3. p \in 1..w.end BY <1>0, <1>2, <2>1
  <2> HIDE DEF w
  <2>4. /\ o \in Texts /\ Constructed(o)
        /\ ~a.inside => u = SubSeq(Elements(w), 1, p - 1) \o a.text
                              \o SubSeq(Elements(w), p + n, Len(Elements(w)))
    BY <2>1, <2>3, ReplacedHolds
  <2> HIDE DEF o
  <2>5. Holds(o, u) BY <2>4 DEF Holds
  <2>6. Makes_Text(h, [own EXCEPT !.text[own.impl[s]] = o], s, u) BY <2>4, <2>5, OnOwnFact
  <2>7. ~a.inside => u = SubSeq(text, 1, p - 1) \o a.text \o SubSeq(text, p + n, Len(text))
    BY <2>1, <2>4
  <2> HIDE DEF u
  <2> QED BY <2>2, <2>6, <2>7
<1> QED BY <1>1, <1>2

LEMMA WriteCharFact ==
  ASSUME NEW h, Counted(h), NEW s \in String, NEW p \in DOMAIN Text(h, s), NEW c \in Value
  PROVE  Makes_Text(h, Write(h, s, p, c), s, [Text(h, s) EXCEPT ![p] = c])
<1> DEFINE own == create_local_copy(h, s)
           w == own.text[own.impl[s]]
           o == [w EXCEPT !.cells = Copied(@, <<c>>, p)]
           u == [Elements(w) EXCEPT ![p] = c]
<1>1. w \in Texts /\ Constructed(w) /\ Elements(w) = Text(h, s) /\ w.end = Len(Text(h, s))
  BY OwnMemory
<1>2. Write(h, s, p, c) = [own EXCEPT !.text[own.impl[s]] = o] BY DEF Write, OnOwn
<1> HIDE DEF w
<1>3. p \in 1..w.end /\ c \in Cell
  <2>1. DOMAIN Text(h, s) = 1..Len(Text(h, s)) BY TextFact, LenProperties
  <2> QED BY <1>1, <2>1 DEF Cell
<1>4. o \in Texts /\ Holds(o, u) BY <1>1, <1>3, WrittenCharHolds
<1> HIDE DEF o
<1>5. Makes_Text(h, [own EXCEPT !.text[own.impl[s]] = o], s, u) BY <1>4, OnOwnFact
<1> QED BY <1>1, <1>2, <1>5

LEMMA ToLowerUpperFact ==
  ASSUME NEW h, Counted(h), NEW s \in String, NEW case \in [Cell -> Cell]
  PROVE  Makes_Text(h, ToLowerUpper(h, s, case), s,
                    [i \in DOMAIN Text(h, s) |-> case[Text(h, s)[i]]])
<1> DEFINE own == create_local_copy(h, s)
           w == own.text[own.impl[s]]
           o == [w EXCEPT !.cells =
                  [i \in DOMAIN @ |-> IF i <= w.end THEN case[@[i]] ELSE @[i]]]
           text == Text(h, s)
           u == [i \in DOMAIN text |-> case[text[i]]]
<1>1. CASE h.impl[s] = Null
  <2>1. ToLowerUpper(h, s, case) = h /\ text = <<>> BY <1>1 DEF ToLowerUpper, Text
  <2>2. u = <<>> BY <2>1
  <2> HIDE DEF u
  <2>3. Makes_Text(h, h, s, u) BY <2>1, <2>2 DEF Makes_Text
  <2> QED BY <2>1, <2>3 DEF u
<1>2. CASE h.impl[s] # Null
  <2>1. w \in Texts /\ Constructed(w) /\ Elements(w) = text BY OwnMemory
  <2>2. ToLowerUpper(h, s, case) = [own EXCEPT !.text[own.impl[s]] = o]
    BY <1>2 DEF ToLowerUpper, OnOwn
  <2> HIDE DEF w
  <2>3. o \in Texts /\ Holds(o, [i \in DOMAIN Elements(w) |-> case[Elements(w)[i]]])
    BY <2>1, CasedHolds
  <2>4. o \in Texts /\ Holds(o, u) BY <2>1, <2>3
  <2> HIDE DEF o, u
  <2>5. Makes_Text(h, [own EXCEPT !.text[own.impl[s]] = o], s, u) BY <2>4, OnOwnFact
  <2> QED BY <2>2, <2>5 DEF u
<1> QED BY <1>1, <1>2

(* ReplaceChars is the one call that writes where others read.              *)
LEMMA ReplaceCharsFact ==
  ASSUME NEW h, Counted(h), NEW s \in String, NEW c \in Value, NEW by \in Value
  PROVE  /\ Counted(ReplaceChars(h, s, c, by))
         /\ ~Shared(h, s) =>
              Makes_Text(h, ReplaceChars(h, s, c, by), s,
                [i \in DOMAIN Text(h, s) |-> IF Text(h, s)[i] = c THEN by ELSE Text(h, s)[i]])
<1> DEFINE b == h.impl[s]
           w == h.text[b]
           text == Text(h, s)
           u == [i \in DOMAIN text |-> IF text[i] = c THEN by ELSE text[i]]
           o == [w EXCEPT !.cells = [i \in DOMAIN @ |-> IF @[i] = c THEN by ELSE @[i]]]
           r == ReplaceChars(h, s, c, by)
<1>0. h \in Heaps BY DEF Counted
<1>1. CASE b = Null
  <2>1. r = h /\ text = <<>> BY <1>1 DEF ReplaceChars, Text
  <2>2. u = <<>> BY <2>1
  <2> HIDE DEF u, r
  <2>3. Makes_Text(h, h, s, u) BY <2>1, <2>2 DEF Makes_Text
  <2> QED BY <2>1, <2>3 DEF u, r
<1>2. CASE b # Null
  <2>1. b \in Buffer BY <1>2, ReferencesFact
  <2>2. w \in Texts /\ Constructed(w) /\ Elements(w) = text
    BY <1>0, <1>2, <2>1 DEF Counted, Heaps, Text
  <2>3. r = [h EXCEPT !.text[b] = o]
    <3>1. r = [h EXCEPT !.text[b].cells = [i \in DOMAIN @ |-> IF @[i] = c THEN by ELSE @[i]]]
      BY <1>2 DEF ReplaceChars
    <3> QED BY <3>1
  <2>4. /\ o \in Texts
        /\ Holds(o, [i \in DOMAIN Elements(w) |->
                      IF Elements(w)[i] = c THEN by ELSE Elements(w)[i]])
    <3> HIDE DEF w
    <3> QED BY <2>2, ReplacedCharsHolds
  <2>5. Holds(o, u) BY <2>2, <2>4
  <2> HIDE DEF o, u, r
  <2> DEFINE text1 == [h.text EXCEPT ![b] = o]
  <2>6. r.impl = h.impl /\ r.refs = h.refs /\ r.text = text1
        /\ r = [impl |-> h.impl, refs |-> h.refs, text |-> text1]
    BY <1>0, <2>3 DEF Heaps
  <2>7. text1 \in [Buffer -> Texts] BY <1>0, <2>4 DEF Heaps
  <2>8. r \in Heaps BY <1>0, <2>6, <2>7 DEF Heaps
  <2>9. \A x \in Buffer : r.text[x] = IF x = b THEN o ELSE h.text[x] BY <1>0, <2>6 DEF Heaps
  <2>10. \A x \in Buffer : Users(r, x) = Users(h, x) BY <2>6 DEF Users
  <2>11. Counted(r) BY <2>5, <2>6, <2>8, <2>9, <2>10 DEF Counted, Holds
  <2>12. ASSUME ~Shared(h, s) PROVE Makes_Text(h, r, s, u)
    <3>1. h.refs[b] = 1 BY <1>2, <2>12, ReferencesFact DEF Shared
    <3>2. Makes_Text(h, [h EXCEPT !.text[b] = o], s, u) BY <1>2, <2>4, <2>5, <3>1, WriteFact
    <3> QED BY <2>3, <3>2
  <2> QED BY <2>11, <2>12 DEF r, u
<1> QED BY <1>1, <1>2
-----------------------------------------------------------------------------
(* The first place where a text is found, if there is one.                  *)
LEMMA strlenFact ==
  ASSUME NEW text \in Seq(Cell)
  PROVE  strlen(text) \in Nat
<1> DEFINE ends == {i \in DOMAIN text : text[i] = Raw}
           x == CHOOSE i \in ends : \A j \in ends : i <= j
<1>1. Len(text) \in Nat /\ ends \subseteq Nat \ {0} BY LenProperties
<1>2. strlen(text) = IF ends = {} THEN Len(text) ELSE x - 1 BY DEF strlen
<1> HIDE DEF ends
<1>3. ASSUME ends # {} PROVE x \in Nat \ {0}
  <2>1. \E i \in ends : \A j \in ends : i <= j BY <1>1, <1>3, Smallest
  <2> QED BY <1>1, <2>1
<1> HIDE DEF x
<1> QED BY <1>1, <1>2, <1>3

LEMMA FindTextFact ==
  ASSUME NEW text \in Seq(Cell), NEW seq \in Seq(Cell), NEW pos \in Nat \ {0}
  PROVE  FindText(text, seq, pos) \in Nat
<1> DEFINE n == IF strlen(seq) > Len(text) - pos + 1 THEN Len(text) - pos + 1 ELSE strlen(seq)
           at == {i \in pos..Len(text) - n + 1 : SubSeq(text, i, i + n - 1) = SubSeq(seq, 1, n)}
           x == CHOOSE i \in at : \A j \in at : i <= j
<1>1. FindText(text, seq, pos) = IF at = {} \/ n <= 0 THEN 0 ELSE x BY DEF FindText
<1>2. n \in Int /\ Len(text) \in Nat BY LenProperties, strlenFact
<1> HIDE DEF n
<1>3. at \subseteq Nat BY <1>2
<1> HIDE DEF at
<1>4. ASSUME at # {} PROVE x \in Nat
  <2>1. \E i \in at : \A j \in at : i <= j BY <1>3, <1>4, Smallest
  <2> QED BY <1>3, <2>1
<1> QED BY <1>1, <1>4

LEMMA ReplaceNextFact ==
  ASSUME NEW h, NEW s \in String, NEW seq \in Seq(Cell), NEW by, NEW x,
         x \in [h : Heaps, pos : Nat \ {0}], \E u : Makes_Text(h, x.h, s, u),
         \A u : GivenTo(by, u)
  PROVE  LET y == ReplaceNext(x, s, seq, by)
         IN  y \in [h : Heaps, pos : Nat \ {0}] /\ \E u : Makes_Text(h, y.h, s, u)
<1> DEFINE now == x.h
           at == FindText(Text(now, s), seq, x.pos)
           r == Replace(now, s, at, Len(seq), by)
           y == ReplaceNext(x, s, seq, by)
           next == at + Len(by.text)
<1>1. Counted(now) BY DEF Makes_Text
<1>2. at \in Nat BY <1>1, TextFact, FindTextFact
<1>3. y = IF at = 0 THEN x ELSE [h |-> r, pos |-> next] BY DEF ReplaceNext
<1>4. Len(seq) \in Nat /\ Len(by.text) \in Nat BY LenProperties DEF GivenTo
<1> HIDE DEF at, y, now
<1>5. CASE at = 0 BY <1>3, <1>5 DEF y
<1>6. CASE at # 0
  <2>1. at \in Nat \ {0} BY <1>2, <1>6
  <2>2. PICK u : Makes_Text(now, r, s, u) BY <1>1, <1>4, <2>1, ReplaceFact
  <2>3. PICK u0 : Makes_Text(h, now, s, u0) BY DEF now
  <2> HIDE DEF r
  <2>4. Makes_Text(h, r, s, u) BY <2>2, <2>3 DEF Makes_Text
  <2>5. r \in Heaps /\ next \in Nat \ {0} BY <1>4, <2>1, <2>2 DEF Makes_Text, Counted
  <2>6. y = [h |-> r, pos |-> next] BY <1>3, <1>6
  <2> HIDE DEF next
  <2>7. y.h = r /\ y \in [h : Heaps, pos : Nat \ {0}] BY <2>5, <2>6
  <2> QED BY <2>4, <2>7 DEF y
<1> QED BY <1>5, <1>6

(* One replacement after the other, as often as there are characters.       *)
LEMMA ReplaceStringFact ==
  ASSUME NEW h, Counted(h), NEW s \in String, NEW seq \in Seq(Cell), NEW by,
         \A u : GivenTo(by, u)
  PROVE  \E u : Makes_Text(h, ReplaceString(h, s, seq, by), s, u)
<1>1. CASE h.impl[s] = Null \/ is_null_string(seq)
  <2>1. ReplaceString(h, s, seq, by) = h BY <1>1 DEF ReplaceString
  <2>2. Makes_Text(h, h, s, Text(h, s)) BY DEF Makes_Text
  <2> QED BY <2>1, <2>2
<1>2. CASE ~(h.impl[s] = Null \/ is_null_string(seq))
  <2> DEFINE text == Text(h, s)
             S == DOMAIN text
             base == [h |-> create_local_copy(h, s), pos |-> 1]
             Good == {x \in [h : Heaps, pos : Nat \ {0}] : \E u : Makes_Text(h, x.h, s, u)}
             pick == [T \in SUBSET S |-> Max(T)]
             Iv == [T \in SUBSET S |-> Good]
             step == [T \in SUBSET S |-> [x \in Good |-> ReplaceNext(x, s, seq, by)]]
             Folds(g) == g = [T \in SUBSET S |-> IF T = {} THEN base
                                                 ELSE ReplaceNext(g[T \ {Max(T)}], s, seq, by)]
             it == CHOOSE g : Folds(g)
  <2>1. Len(text) \in Nat /\ S = 1..Len(text) /\ IsFiniteSet(S)
    <3>1. Len(text) \in Nat /\ S = 1..Len(text) BY TextFact, LenProperties
    <3> QED BY <3>1, FS_Interval
  <2>2. ReplaceString(h, s, seq, by) = it[S].h
    BY <1>2 DEF ReplaceString, FoldLeft, MapThenFoldSet
  <2> HIDE DEF S
  <2>3. Picks(S, pick)
    <3>1. \A T \in SUBSET S : T # {} => Max(T) \in T BY <2>1, MaxIsIn
    <3> QED BY <3>1 DEF Picks
  <2>4. base \in Good
    <3> DEFINE own == create_local_copy(h, s)
    <3>1. Makes_Text(h, own, s, text) BY CopyFact
    <3> HIDE DEF own
    <3>2. own \in Heaps BY <3>1 DEF Makes_Text, Counted
    <3>3. base.h = own /\ base \in [h : Heaps, pos : Nat \ {0}] BY <3>2 DEF own
    <3> HIDE DEF base
    <3> QED BY <3>1, <3>3
  <2>5. ASSUME NEW x \in Good PROVE ReplaceNext(x, s, seq, by) \in Good
    <3>1. x \in [h : Heaps, pos : Nat \ {0}] /\ \E u : Makes_Text(h, x.h, s, u) OBVIOUS
    <3> DEFINE y == ReplaceNext(x, s, seq, by)
    <3>2. y \in [h : Heaps, pos : Nat \ {0}] /\ \E u : Makes_Text(h, y.h, s, u)
      BY <3>1, ReplaceNextFact
    <3> HIDE DEF y
    <3>3. y \in Good BY <3>2
    <3> QED BY <3>3 DEF y
  <2>6. it[S] \in Good
    <3> HIDE DEF Good, base
    <3>1. \A T \in SUBSET S : T \ {Max(T)} \in SUBSET S /\ pick[T] = Max(T) /\ Iv[T] = Good
      OBVIOUS
    <3>2. \A T \in SUBSET S : \A x \in Good :
            step[T][x] = ReplaceNext(x, s, seq, by) /\ step[T][x] \in Good
      BY <2>5
    <3> HIDE DEF step
    <3>3. Steps(S, pick, step, Iv) BY <3>1, <3>2 DEF Steps
    <3>4. {} \in SUBSET S /\ base \in Iv[{}] BY <2>4, <3>1
    <3> HIDE DEF Iv, pick
    <3>5. \E g : Folds(g)
      <4> HIDE DEF Folds
      <4>1. PICK g : IsFold(g, S, base, pick, step, Iv) BY <2>1, <2>3, <3>3, <3>4, FoldExists
      <4>2. /\ g = [T \in SUBSET S |-> IF T = {} THEN base ELSE step[T][g[T \ {pick[T]}]]]
            /\ \A T \in SUBSET S : g[T] \in Good
        BY <3>1, <4>1 DEF IsFold
      <4>3. ASSUME NEW T \in SUBSET S, T # {}
            PROVE  g[T] = ReplaceNext(g[T \ {Max(T)}], s, seq, by)
        <5>1. g[T] = step[T][g[T \ {Max(T)}]] BY <3>1, <4>2, <4>3
        <5>2. g[T \ {Max(T)}] \in Good BY <3>1, <4>2
        <5> QED BY <3>2, <5>1, <5>2
      <4>4. g = [T \in SUBSET S |-> g[T]] /\ g[{}] = base BY <3>4, <4>2
      <4>5. Folds(g) BY <4>3, <4>4 DEF Folds
      <4> QED BY <4>5
    <3>6. Folds(it) BY <3>5
    <3>7. /\ it[{}] = base
          /\ \A T \in SUBSET S : T # {} => it[T] = ReplaceNext(it[T \ {pick[T]}], s, seq, by)
      BY <3>1, <3>4, <3>6
    <3> HIDE DEF it
    <3>8. Stays(S, it, pick, Iv)
      <4>1. \A T \in SUBSET S : T \ {pick[T]} \in SUBSET S BY <3>1
      <4>2. ASSUME NEW T \in SUBSET S, T # {}, it[T \ {pick[T]}] \in Iv[T \ {pick[T]}]
            PROVE  it[T] \in Iv[T]
        <5>1. it[T \ {pick[T]}] \in Good BY <3>1, <4>1, <4>2
        <5>2. it[T] = ReplaceNext(it[T \ {pick[T]}], s, seq, by) BY <3>7, <4>2
        <5>3. it[T] \in Good BY <2>5, <5>1, <5>2
        <5> QED BY <3>1, <5>3
      <4> QED BY <4>2 DEF Stays
    <3>9. it[S] \in Iv[S] BY <2>1, <2>3, <3>4, <3>7, <3>8, FoldStays
    <3> QED BY <3>1, <3>9
  <2> HIDE DEF it
  <2> QED BY <2>2, <2>6
<1> QED BY <1>1, <1>2

(* What Trim leaves is a part of the text.                                  *)
LEMMA TrimmedFact ==
  ASSUME NEW text \in Seq(Cell), NEW c
  PROVE  TrimmedText(text, c) \in Seq(Cell) /\ Len(TrimmedText(text, c)) <= Len(text)
<1> DEFINE keep == {i \in DOMAIN text : text[i] # c}
           first == CHOOSE i \in keep : \A j \in keep : i <= j
           last == CHOOSE i \in keep : \A j \in keep : i >= j
<1>1. Len(text) \in Nat /\ DOMAIN text = 1..Len(text) BY LenProperties
<1>2. TrimmedText(text, c) = IF keep = {} THEN <<>> ELSE SubSeq(text, first, last)
  BY DEF TrimmedText
<1>3. keep \in SUBSET (1..Len(text)) BY <1>1
<1> HIDE DEF keep
<1>4. CASE keep = {} BY <1>1, <1>2, <1>4
<1>5. CASE keep # {}
  <2>1. first \in keep /\ \A j \in keep : first <= j
    <3>1. keep \subseteq Nat BY <1>1, <1>3
    <3>2. \E i \in keep : \A j \in keep : i <= j BY <1>5, <3>1, Smallest
    <3> QED BY <3>2
  <2>2. last \in keep
    <3>1. Max(keep) \in keep BY <1>1, <1>3, <1>5, MaxIsIn
    <3> QED BY <3>1 DEF Max
  <2> HIDE DEF first, last
  <2>3. first \in Nat \ {0} /\ last \in Nat /\ first <= last + 1 /\ last <= Len(text)
    BY <1>1, <1>3, <2>1, <2>2
  <2>4. SubSeq(text, first, last) \in Seq(Cell) /\ Len(SubSeq(text, first, last)) = last - first + 1
    BY <2>3, PartFact
  <2> QED BY <1>1, <1>2, <1>5, <2>3, <2>4
<1> QED BY <1>4, <1>5

LEMMA TrimFact ==
  ASSUME NEW h, Counted(h), NEW s \in String, NEW c
  PROVE  Makes_Text(h, Trim(h, s, c), s, TrimmedText(Text(h, s), c))
<1> DEFINE own == create_local_copy(h, s)
           w == own.text[own.impl[s]]
           t == TrimmedText(Elements(w), c)
           o == [cells |-> Copied(Allocated(Capacity(w)), t, 1), end |-> Len(t)]
           text == Text(h, s)
<1>1. CASE h.impl[s] = Null \/ TrimmedText(text, c) = text
  <2>1. TrimmedText(text, c) = text
    <3>1. CASE h.impl[s] = Null
      <4>1. text = <<>> BY <3>1 DEF Text
      <4> QED BY <4>1 DEF TrimmedText
    <3> QED BY <1>1, <3>1
  <2>2. Trim(h, s, c) = h BY <1>1 DEF Trim
  <2> QED BY <2>1, <2>2 DEF Makes_Text
<1>2. CASE ~(h.impl[s] = Null \/ TrimmedText(text, c) = text)
  <2>1. w \in Texts /\ Constructed(w) /\ Elements(w) = text /\ w.end = Len(text) BY OwnMemory
  <2>2. Trim(h, s, c) = [own EXCEPT !.text[own.impl[s]] = o] BY <1>2 DEF Trim, OnOwn
  <2> HIDE DEF w
  <2>3. t \in Seq(Cell) /\ Len(t) <= Len(text) /\ Len(t) \in Nat
    BY <2>1, TextFact, TrimmedFact, LenProperties
  <2>4. Capacity(w) \in Nat /\ Len(t) <= Capacity(w)
    BY <2>1, <2>3, LenProperties DEF Constructed, Capacity
  <2>5. o = Moved(t, Capacity(w)) BY DEF Moved
  <2> HIDE DEF t, o
  <2>6. Holds(o, t) BY <2>3, <2>4, <2>5, MovedHolds
  <2>7. o \in Texts BY <2>3, <2>5, <2>6 DEF Moved, Holds, Constructed, Texts
  <2>8. Makes_Text(h, [own EXCEPT !.text[own.impl[s]] = o], s, t) BY <2>6, <2>7, OnOwnFact
  <2> QED BY <2>1, <2>2, <2>8 DEF t
<1> QED BY <1>1, <1>2
-----------------------------------------------------------------------------
LEMMA StartsCounted == StringsInit => Counted(heap)
<1> SUFFICES ASSUME StringsInit PROVE Counted(heap) OBVIOUS
<1>1. /\ heap.impl = [s \in String |-> Null] /\ heap.refs = [b \in Buffer |-> 0]
      /\ heap.text = [b \in Buffer |-> NoCells]
      /\ heap = [impl |-> [s \in String |-> Null], refs |-> [b \in Buffer |-> 0],
                 text |-> [b \in Buffer |-> NoCells]]
  BY DEF StringsInit
<1>2. NoCells \in Texts /\ Constructed(NoCells) BY NoCellsFact DEF Holds
<1>3. heap \in Heaps BY <1>1, <1>2 DEF Heaps
<1>4. ASSUME NEW b \in Buffer PROVE heap.refs[b] = Cardinality(Users(heap, b))
  <2>1. Users(heap, b) = {} BY <1>1, BuffersFact DEF Users
  <2> QED BY <1>1, <2>1, FS_EmptySet
<1> QED BY <1>1, <1>2, <1>3, <1>4 DEF Counted

LEMMA OneChar ==
  ASSUME NEW c \in Value, NEW h, NEW s, NEW u
  PROVE  /\ <<c>> \in Seq(Cell) /\ GivenTo(Given(<<c>>), u) /\ Inside(h, s, Given(<<c>>))
         /\ Given(<<c>>).text # <<>> /\ c \in Cell
         /\ ToCase(c) \in [Cell -> Cell]
<1>1. c \in Cell /\ ToCase(c) \in [Cell -> Cell] BY DEF Cell, ToCase
<1> DEFINE one == <<c>>
<1>2. one \in Seq(Cell) /\ one # <<>> BY <1>1
<1> HIDE DEF one
<1>3. GivenTo(Given(one), u) /\ Inside(h, s, Given(one)) /\ Given(one).text = one
  BY <1>2, GivenFact
<1> QED BY <1>1, <1>2, <1>3 DEF one

LEMMA StaysCounted == Counted(heap) /\ [StringsNext]_heap => Counted(heap')
<1> SUFFICES ASSUME Counted(heap), [StringsNext]_heap PROVE Counted(heap') OBVIOUS
<1>1. ASSUME NEW s, NEW u, NEW r, Makes_Text(heap, r, s, u), Makes(r) PROVE Counted(heap')
  BY <1>1 DEF Makes_Text, Makes
<1>2. CASE UNCHANGED heap BY <1>2
<1>3. ASSUME NEW s \in String, NEW t \in String, Makes(AssignString(heap, s, t))
      PROVE  Counted(heap')
  BY <1>1, <1>3, AssignStringFact
<1>4. ASSUME NEW s \in String, Makes(Release(heap, s)) PROVE Counted(heap')
  BY <1>1, <1>4, ReleaseFact
<1>5. ASSUME NEW s \in String, Makes(ClearString(heap, s)) PROVE Counted(heap')
  BY <1>1, <1>5, ClearFact
<1>6. ASSUME NEW s \in String, NEW c \in Value, Makes(AssignChar(heap, s, c))
      PROVE  Counted(heap')
  BY <1>1, <1>6, AssignCharFact
<1>7. ASSUME NEW s \in String, NEW a, GivenTo(a, Text(heap, s)), Makes(AssignPart(heap, s, a))
      PROVE  Counted(heap')
  BY <1>1, <1>7, AssignPartFact
<1>8. ASSUME NEW s \in String, NEW p \in PlaceIn(heap, s), NEW a, GivenTo(a, Text(heap, s)),
             Inside(heap, s, a), a.text # <<>>, Makes(InsertPart(heap, s, p, a))
      PROVE  Counted(heap')
  <2>1. PICK u : Makes_Text(heap, InsertPart(heap, s, p, a), s, u) BY <1>8, InsertPartFact
  <2> QED BY <1>1, <1>8, <2>1
<1>9. ASSUME NEW s \in String, NEW p \in PlaceIn(heap, s), NEW n \in 0..1,
             NEW a, GivenTo(a, Text(heap, s)), Makes(Replace(heap, s, p, n, a))
      PROVE  Counted(heap')
  <2>1. p \in Nat \ {0} /\ n \in Nat BY TextFact, LenProperties DEF PlaceIn
  <2>2. PICK u : Makes_Text(heap, Replace(heap, s, p, n, a), s, u) BY <1>9, <2>1, ReplaceFact
  <2> QED BY <1>1, <1>9, <2>2
<1>10. ASSUME NEW s \in String, NEW p \in PlaceIn(heap, s), NEW n \in 1..2, NEW c \in Value,
              Makes(Fill(heap, s, p, n, c))
       PROVE  Counted(heap')
  <2>1. n \in Nat \ {0} OBVIOUS
  <2>2. PICK u : Makes_Text(heap, Fill(heap, s, p, n, c), s, u) BY <2>1, FillFact
  <2> QED BY <1>1, <1>10, <2>2
<1>11. ASSUME NEW s \in String, NEW p \in DOMAIN Text(heap, s), NEW c \in Value,
              Makes(Write(heap, s, p, c))
       PROVE  Counted(heap')
  BY <1>1, <1>11, WriteCharFact
<1>12. ASSUME NEW s \in String, NEW c \in Value, NEW by \in Value,
              Makes(ReplaceChars(heap, s, c, by))
       PROVE  Counted(heap')
  BY <1>12, ReplaceCharsFact DEF Makes
<1>13. ASSUME NEW s \in String, NEW c \in Value,
              Makes(ToLowerUpper(heap, s, ToCase(c)))
       PROVE  Counted(heap')
  <2> DEFINE case == ToCase(c)
  <2>1. case \in [Cell -> Cell] BY OneChar
  <2> HIDE DEF case
  <2>2. \E u : Makes_Text(heap, ToLowerUpper(heap, s, case), s, u) BY <2>1, ToLowerUpperFact
  <2>3. Makes(ToLowerUpper(heap, s, case)) BY <1>13 DEF case
  <2> QED BY <1>1, <2>2, <2>3
<1>14. ASSUME NEW s \in String, NEW t \in String, NEW c \in Value,
              Makes(ReplaceString(heap, s, Text(heap, t), Given(<<c>>)))
       PROVE  Counted(heap')
  <2> DEFINE by == Given(<<c>>)
             seq == Text(heap, t)
  <2>1. seq \in Seq(Cell) /\ \A u : GivenTo(by, u) BY OneChar, TextFact
  <2> HIDE DEF by, seq
  <2>2. \E u : Makes_Text(heap, ReplaceString(heap, s, seq, by), s, u)
    BY <2>1, ReplaceStringFact
  <2>3. Makes(ReplaceString(heap, s, seq, by)) BY <1>14 DEF by, seq
  <2> QED BY <1>1, <2>2, <2>3
<1>15. ASSUME NEW s \in String, NEW c \in Value, Makes(Trim(heap, s, c)) PROVE Counted(heap')
  BY <1>1, <1>15, TrimFact
<1>16. \A s \in String : \A a \in PartsOf(heap, s) :
         GivenTo(a, Text(heap, s)) /\ Inside(heap, s, a) /\ a.text # <<>>
  BY PartsFact
<1>17. \A s \in String, c \in Value :
         /\ GivenTo(Given(<<c>>), Text(heap, s)) /\ Inside(heap, s, Given(<<c>>))
         /\ Given(<<c>>).text # <<>>
  BY OneChar
<1>18. ASSUME NEW s \in String, NEW p \in PlaceIn(heap, s),
              \/ \E c \in Value : Makes(InsertPart(heap, s, p, Given(<<c>>)))
              \/ \E a \in PartsOf(heap, s), n \in 0..1 :
                   Makes(InsertPart(heap, s, p, a)) \/ Makes(Replace(heap, s, p, n, a))
              \/ \E c \in Value, n \in 1..2 : Makes(Fill(heap, s, p, n, c))
       PROVE  Counted(heap')
  <2>1. CASE \E c \in Value : Makes(InsertPart(heap, s, p, Given(<<c>>)))
    BY <1>8, <1>17, <2>1
  <2>2. CASE \E a \in PartsOf(heap, s), n \in 0..1 :
               Makes(InsertPart(heap, s, p, a)) \/ Makes(Replace(heap, s, p, n, a))
    <3>1. PICK a \in PartsOf(heap, s) : \E n \in 0..1 :
            Makes(InsertPart(heap, s, p, a)) \/ Makes(Replace(heap, s, p, n, a))
      BY <2>2
    <3>2. GivenTo(a, Text(heap, s)) /\ Inside(heap, s, a) /\ a.text # <<>> BY <1>16
    <3> QED BY <1>8, <1>9, <3>1, <3>2
  <2>3. CASE \E c \in Value, n \in 1..2 : Makes(Fill(heap, s, p, n, c)) BY <1>10, <2>3
  <2> QED BY <1>18, <2>1, <2>2, <2>3
<1>19. CASE StringsNext
  <2>1. PICK s \in String :
          \/ \E t \in String : Makes(AssignString(heap, s, t))
          \/ Makes(Release(heap, s)) \/ Makes(ClearString(heap, s))
          \/ \E c \in Value :
               Makes(AssignChar(heap, s, c)) \/ Makes(AssignPart(heap, s, Given(<<c>>)))
          \/ \E a \in PartsOf(heap, s) : Makes(AssignPart(heap, s, a))
          \/ \E p \in PlaceIn(heap, s) :
               \/ \E c \in Value : Makes(InsertPart(heap, s, p, Given(<<c>>)))
               \/ \E a \in PartsOf(heap, s), n \in 0..1 :
                    Makes(InsertPart(heap, s, p, a)) \/ Makes(Replace(heap, s, p, n, a))
               \/ \E c \in Value, n \in 1..2 : Makes(Fill(heap, s, p, n, c))
          \/ \E p \in DOMAIN Text(heap, s), c \in Value : Makes(Write(heap, s, p, c))
          \/ \E c, by \in Value :
               ReplaceCharsReturns(heap, s, c, by) /\ Makes(ReplaceChars(heap, s, c, by))
          \/ \E c \in Value : Makes(ToLowerUpper(heap, s, ToCase(c)))
          \/ \E t \in String \ {s}, c \in Value :
               Makes(ReplaceString(heap, s, Text(heap, t), Given(<<c>>)))
          \/ \E c \in Value : ~EndsInOther(heap, s, c) /\ Makes(Trim(heap, s, c))
    BY <1>19 DEF StringsNext
  <2>2. CASE \E t \in String : Makes(AssignString(heap, s, t)) BY <1>3, <2>2
  <2>3. CASE Makes(Release(heap, s)) \/ Makes(ClearString(heap, s)) BY <1>4, <1>5, <2>3
  <2>4. CASE \E c \in Value :
               Makes(AssignChar(heap, s, c)) \/ Makes(AssignPart(heap, s, Given(<<c>>)))
    BY <1>6, <1>7, <1>17, <2>4
  <2>5. CASE \E a \in PartsOf(heap, s) : Makes(AssignPart(heap, s, a)) BY <1>7, <1>16, <2>5
  <2>6. CASE \E p \in DOMAIN Text(heap, s), c \in Value : Makes(Write(heap, s, p, c))
    BY <1>11, <2>6
  <2>7. CASE \E c, by \in Value :
               ReplaceCharsReturns(heap, s, c, by) /\ Makes(ReplaceChars(heap, s, c, by))
    BY <1>12, <2>7
  <2>8. CASE \E c \in Value : Makes(ToLowerUpper(heap, s, ToCase(c)))
    BY <1>13, <2>8
  <2>9. CASE \E t \in String \ {s}, c \in Value :
               Makes(ReplaceString(heap, s, Text(heap, t), Given(<<c>>)))
    BY <1>14, <2>9
  <2>10. CASE \E c \in Value : ~EndsInOther(heap, s, c) /\ Makes(Trim(heap, s, c))
    BY <1>15, <2>10
  <2> QED BY <1>18, <2>1, <2>2, <2>3, <2>4, <2>5, <2>6, <2>7, <2>8, <2>9, <2>10
<1> QED BY <1>2, <1>19

StringsInv == Counted(heap)

LEMMA StringsStart == StringsInit => StringsInv
BY StartsCounted DEF StringsInv

LEMMA StringsStay == StringsInv /\ [StringsNext]_heap => StringsInv'
BY StaysCounted DEF StringsInv
-----------------------------------------------------------------------------
(* A buffer of a string has as many references as strings point to it, and  *)
(* after the text in it there are only characters that end texts.           *)
THEOREM BuffersStayCounted == StringsSpec => []BuffersAreCounted
<1>1. Counted(heap) => BuffersAreCounted
  <2> SUFFICES ASSUME Counted(heap), NEW b \in Buffer
               PROVE  /\ heap.refs[b] = Cardinality({s \in String : heap.impl[s] = b})
                      /\ \A i \in heap.text[b].end + 1..Capacity(heap.text[b]) :
                           heap.text[b].cells[i] = Raw
    BY DEF BuffersAreCounted
  <2> DEFINE w == heap.text[b]
  <2>1. heap.refs[b] = Cardinality(Users(heap, b)) /\ Constructed(w) BY DEF Counted
  <2> HIDE DEF w
  <2>2. ASSUME NEW i \in w.end + 1..Capacity(w) PROVE w.cells[i] = Raw
    <3>1. w.end \in Nat /\ Len(w.cells) \in Nat BY <2>1, LenProperties DEF Constructed
    <3>2. i \in 1..Len(w.cells) /\ i > w.end BY <3>1 DEF Capacity
    <3> QED BY <2>1, <3>2 DEF Constructed
  <2> QED BY <2>1, <2>2 DEF Users, w
<1>2. StringsInv => BuffersAreCounted BY <1>1 DEF StringsInv
<1> QED BY <1>2, StringsStart, StringsStay, PTL DEF StringsSpec

LEMMA CountedAreValues == Counted(heap) => StringsAreValues
<1> SUFFICES ASSUME Counted(heap) PROVE StringsAreValues OBVIOUS
<1> DEFINE Only(s, h, new) ==
             \A t \in String : Text(h, t) = IF t = s THEN new ELSE Text(heap, t)
<1>1. ASSUME NEW s, NEW r, NEW u, Makes_Text(heap, r, s, u) PROVE Only(s, r, u)
  BY <1>1 DEF Makes_Text
<1> HIDE DEF Only
<1>2. ASSUME NEW s \in String
      PROVE  /\ \A t \in String : Only(s, AssignString(heap, s, t), Text(heap, t))
             /\ Only(s, ClearString(heap, s), <<>>) /\ Only(s, Release(heap, s), <<>>)
  BY <1>1, AssignStringFact, ClearFact, ReleaseFact
<1>3. ASSUME NEW s \in String, NEW a \in PartsOf(heap, s)
      PROVE  /\ Only(s, AssignPart(heap, s, a), a.text)
             /\ \A p \in PlaceIn(heap, s) : ~MovesUpUnderIt(heap, s, p, a) =>
                  Only(s, InsertPart(heap, s, p, a),
                       IF is_null_string(a.text) THEN Text(heap, s)
                       ELSE With(Text(heap, s), p, a.text))
             /\ \A p \in DOMAIN Text(heap, s), n \in 0..2 : ~a.inside =>
                  Only(s, Replace(heap, s, p, n, a),
                       SubSeq(Text(heap, s), 1, p - 1) \o a.text
                         \o SubSeq(Text(heap, s), p + n, Len(Text(heap, s))))
  <2>1. GivenTo(a, Text(heap, s)) /\ Inside(heap, s, a) /\ a.text # <<>> BY PartsFact
  <2>2. Only(s, AssignPart(heap, s, a), a.text) BY <1>1, <2>1, AssignPartFact
  <2>3. ASSUME NEW p \in PlaceIn(heap, s), ~MovesUpUnderIt(heap, s, p, a)
        PROVE  Only(s, InsertPart(heap, s, p, a),
                    IF is_null_string(a.text) THEN Text(heap, s)
                    ELSE With(Text(heap, s), p, a.text))
    <3>1. PICK u : /\ Makes_Text(heap, InsertPart(heap, s, p, a), s, u)
                   /\ ~MovesUpUnderIt(heap, s, p, a) =>
                        u = IF is_null_string(a.text) THEN Text(heap, s)
                            ELSE With(Text(heap, s), p, a.text)
      BY <2>1, InsertPartFact
    <3> QED BY <1>1, <2>3, <3>1
  <2>4. ASSUME NEW p \in DOMAIN Text(heap, s), NEW n \in 0..2, ~a.inside
        PROVE  Only(s, Replace(heap, s, p, n, a),
                    SubSeq(Text(heap, s), 1, p - 1) \o a.text
                      \o SubSeq(Text(heap, s), p + n, Len(Text(heap, s))))
    <3>0. p \in Nat \ {0} /\ n \in Nat
      <4>1. DOMAIN Text(heap, s) = 1..Len(Text(heap, s)) BY TextFact, LenProperties
      <4> QED BY <4>1
    <3>1. PICK u : /\ Makes_Text(heap, Replace(heap, s, p, n, a), s, u)
                   /\ p \in DOMAIN Text(heap, s) /\ ~a.inside =>
                        u = SubSeq(Text(heap, s), 1, p - 1) \o a.text
                              \o SubSeq(Text(heap, s), p + n, Len(Text(heap, s)))
      BY <2>1, <3>0, ReplaceFact
    <3> QED BY <1>1, <2>4, <3>1
  <2> QED BY <2>2, <2>3, <2>4
<1>4. ASSUME NEW s \in String, NEW c \in Value
      PROVE  /\ Only(s, Fill(heap, s, Len(Text(heap, s)) + 1, 2, c), Text(heap, s) \o <<c, c>>)
             /\ \A p \in DOMAIN Text(heap, s) :
                  Only(s, Write(heap, s, p, c), [Text(heap, s) EXCEPT ![p] = c])
             /\ Only(s, ToLowerUpper(heap, s, ToCase(c)),
                     [i \in DOMAIN Text(heap, s) |-> ToCase(c)[Text(heap, s)[i]]])
             /\ Only(s, Trim(heap, s, c), TrimmedText(Text(heap, s), c))
  <2> DEFINE text == Text(heap, s)
             case == ToCase(c)
  <2>0. text \in Seq(Cell) /\ Len(text) \in Nat BY TextFact, LenProperties
  <2>1. Only(s, Fill(heap, s, Len(text) + 1, 2, c), text \o <<c, c>>)
    <3> DEFINE p == Len(text) + 1
               n == 2
               fill == [i \in 1..n |-> c]
    <3>1. p \in PlaceIn(heap, s) /\ n \in Nat \ {0} BY <2>0 DEF PlaceIn
    <3>2. fill = <<c, c>> OBVIOUS
    <3>3. fill \in [1..n -> {c}] OBVIOUS
    <3> HIDE DEF p, n, fill
    <3>4. PICK u : /\ Makes_Text(heap, Fill(heap, s, p, n, c), s, u)
                   /\ p = Len(Text(heap, s)) + 1 =>
                        \A f \in [1..n -> {c}] : u = Text(heap, s) \o f
      BY <3>1, FillFact
    <3>5. u = text \o fill BY <3>3, <3>4 DEF p
    <3>6. Only(s, Fill(heap, s, p, n, c), u) BY <1>1, <3>4
    <3> QED BY <3>2, <3>5, <3>6 DEF p, n
  <2>2. ASSUME NEW p \in DOMAIN text PROVE Only(s, Write(heap, s, p, c), [text EXCEPT ![p] = c])
    BY <1>1, WriteCharFact
  <2>3. Only(s, ToLowerUpper(heap, s, case), [i \in DOMAIN text |-> case[text[i]]])
    <3>1. case \in [Cell -> Cell] BY OneChar
    <3> HIDE DEF case
    <3> QED BY <1>1, <3>1, ToLowerUpperFact
  <2>4. Only(s, Trim(heap, s, c), TrimmedText(text, c)) BY <1>1, TrimFact
  <2> QED BY <2>1, <2>2, <2>3, <2>4
<1>5. ASSUME NEW s \in String, NEW c \in Value, NEW by \in Value, ~Shared(heap, s)
      PROVE  Only(s, ReplaceChars(heap, s, c, by),
                  [i \in DOMAIN Text(heap, s) |->
                    IF Text(heap, s)[i] = c THEN by ELSE Text(heap, s)[i]])
  BY <1>1, <1>5, ReplaceCharsFact
<1>6. ASSUME NEW s \in String
      PROVE  /\ \A t \in String : Only(s, AssignString(heap, s, t), Text(heap, t))
             /\ Only(s, ClearString(heap, s), <<>>) /\ Only(s, Release(heap, s), <<>>)
             /\ \A a \in PartsOf(heap, s) :
                  /\ Only(s, AssignPart(heap, s, a), a.text)
                  /\ \A p \in PlaceIn(heap, s) : ~MovesUpUnderIt(heap, s, p, a) =>
                       Only(s, InsertPart(heap, s, p, a),
                            IF is_null_string(a.text) THEN Text(heap, s)
                            ELSE With(Text(heap, s), p, a.text))
                  /\ \A p \in DOMAIN Text(heap, s), n \in 0..2 : ~a.inside =>
                       Only(s, Replace(heap, s, p, n, a),
                            SubSeq(Text(heap, s), 1, p - 1) \o a.text
                              \o SubSeq(Text(heap, s), p + n, Len(Text(heap, s))))
             /\ \A c, by \in Value :
                  /\ Only(s, Fill(heap, s, Len(Text(heap, s)) + 1, 2, c),
                          Text(heap, s) \o <<c, c>>)
                  /\ \A p \in DOMAIN Text(heap, s) :
                       Only(s, Write(heap, s, p, c), [Text(heap, s) EXCEPT ![p] = c])
                  /\ Only(s, ToLowerUpper(heap, s, ToCase(c)),
                          [i \in DOMAIN Text(heap, s) |-> ToCase(c)[Text(heap, s)[i]]])
                  /\ ~EndsInOther(heap, s, c) =>
                       Only(s, Trim(heap, s, c), TrimmedText(Text(heap, s), c))
                  /\ ~Shared(heap, s) /\ ReplaceCharsReturns(heap, s, c, by) =>
                       Only(s, ReplaceChars(heap, s, c, by),
                            [i \in DOMAIN Text(heap, s) |->
                              IF Text(heap, s)[i] = c THEN by ELSE Text(heap, s)[i]])
  <2>1. ASSUME NEW c \in Value, NEW by \in Value, ~Shared(heap, s)
        PROVE  Only(s, ReplaceChars(heap, s, c, by),
                    [i \in DOMAIN Text(heap, s) |->
                      IF Text(heap, s)[i] = c THEN by ELSE Text(heap, s)[i]])
    BY <1>5, <2>1
  <2> QED BY <1>2, <1>3, <1>4, <2>1
<1> QED BY <1>6 DEF StringsAreValues, Only

(* Strings are values: whatever shares its buffer, and wherever its         *)
(* argument points, a call changes the text of the string it is called on,  *)
(* as its name says, and no other (but for the calls StringsAreValues       *)
(* names). For any number of strings, any characters and any length.        *)
THEOREM StringsStayValues == StringsSpec => []StringsAreValues
<1>1. StringsInv => StringsAreValues BY CountedAreValues DEF StringsInv
<1> QED BY <1>1, StringsStart, StringsStay, PTL DEF StringsSpec

-----------------------------------------------------------------------------
(* LISTS *)
(* The links of nodes that are in rings lead back.                          *)
Linked(l) ==
  /\ l \in [succ : [Links -> Links], pred : [Links -> Links]]
  /\ \A n \in Links : l.pred[l.succ[n]] = n /\ l.succ[l.pred[n]] = n

(* What the links next lead to from n until they are back: s, which n is    *)
(* the last of.                                                             *)
Turns(next, s, n) ==
  /\ s \in Seq(Links) /\ s # <<>> /\ s[Len(s)] = n /\ s[1] = next[n]
  /\ \A i \in 1..Len(s) - 1 : s[i + 1] = next[s[i]]
  /\ \A i, j \in 1..Len(s) : s[i] = s[j] => i = j

LEMMA LinksAreFinite == IsFiniteSet(Links) /\ Cardinality(Links) \in Nat
<1>1. IsFiniteSet(Links) BY ListsAssumption, FS_Union DEF Links
<1> QED BY <1>1, FS_CardinalityType

LEMMA TurnsFact ==
  ASSUME NEW next, NEW s, NEW n, Turns(next, s, n)
  PROVE  /\ Len(s) \in Nat \ {0} /\ s \in Seq(Links) /\ n \in Links
         /\ \A i \in 1..Len(s) : s[i] \in Links
<1>1. s \in Seq(Links) /\ s # <<>> /\ s[Len(s)] = n BY DEF Turns
<1>2. Len(s) \in Nat \ {0} BY <1>1, EmptySeq
<1>3. ASSUME NEW i \in 1..Len(s) PROVE s[i] \in Links BY <1>1, ElementOfSeq
<1>4. Len(s) \in 1..Len(s) BY <1>2
<1> QED BY <1>1, <1>2, <1>3, <1>4

(* A sequence without repetitions is not longer than there are links.       *)
LEMMA NotTooLong ==
  ASSUME NEW s \in Seq(Links), \A i, j \in 1..Len(s) : s[i] = s[j] => i = j
  PROVE  Len(s) \in Nat /\ Len(s) <= Cardinality(Links)
<1>1. Len(s) \in Nat BY LenProperties
<1>2. IsFiniteSet(1..Len(s)) /\ Cardinality(1..Len(s)) = Len(s)
  <2> DEFINE a == 1
             b == Len(s)
  <2>1. a \in Int /\ b \in Int BY <1>1
  <2> HIDE DEF a, b
  <2>2. IsFiniteSet(a..b) /\ Cardinality(a..b) = IF a > b THEN 0 ELSE b - a + 1
    BY <2>1, FS_Interval
  <2> QED BY <1>1, <2>2 DEF a, b
<1> DEFINE f == [i \in 1..Len(s) |-> s[i]]
<1>3. f \in Injection(1..Len(s), Links)
  <2>1. \A i \in 1..Len(s) : s[i] \in Links BY ElementOfSeq
  <2>2. f \in [1..Len(s) -> Links] BY <2>1
  <2> QED BY <2>2 DEF Injection, IsInjective
<1> HIDE DEF f
<1>4. Cardinality(1..Len(s)) <= Cardinality(Links)
  BY <1>2, <1>3, LinksAreFinite, FS_Injection
<1> QED BY <1>1, <1>2, <1>4

LEMMA LastOfPart ==
  ASSUME NEW s \in Seq(Links), NEW k \in 1..Len(s)
  PROVE  Last(SubSeq(s, 1, k)) = s[k]
<1> DEFINE one == 1
<1>1. Len(s) \in Nat BY LenProperties
<1>2. one \in Nat \ {0} /\ k \in Nat /\ one <= k + 1 /\ k <= Len(s) BY <1>1
<1> HIDE DEF one
<1>3. /\ Len(SubSeq(s, one, k)) = k - one + 1
      /\ \A i \in 1..k - one + 1 : SubSeq(s, one, k)[i] = s[one + i - 1]
  BY ONLY <1>2, s \in Seq(Links), PartFact
<1>4. k - one + 1 = k /\ k \in 1..k - one + 1 /\ one + k - 1 = k BY <1>2 DEF one
<1> QED BY <1>3, <1>4 DEF Last, one

LEMMA OneOnly ==
  ASSUME NEW s \in Seq(Links), NEW k \in 1..Len(s)
  PROVE  SubSeq(s, k, k) = <<s[k]>>
<1>1. Len(s) \in Nat BY LenProperties
<1>2. k \in k..Len(s) /\ k \in Int /\ k - 1 \in Int /\ k - 1 < k BY <1>1
<1>3. SubSeq(s, k, k) = SubSeq(s, k, k - 1) \o <<s[k]>> BY <1>2, SubSeqRecursiveSecond
<1>4. SubSeq(s, k, k - 1) = <<>> BY <1>2, SubSeqEmpty
<1>5. <<s[k]>> \in Seq(Links) BY ElementOfSeq
<1>6. <<>> \o <<s[k]>> = <<s[k]>> BY ONLY <1>5, ConcatEmptySeq
<1> QED BY <1>3, <1>4, <1>6

LEMMA OneMore ==
  ASSUME NEW s \in Seq(Links), NEW k \in 1..Len(s) - 1
  PROVE  Append(SubSeq(s, 1, k), s[k + 1]) = SubSeq(s, 1, k + 1)
<1> DEFINE one == 1
           m == k + 1
           t == SubSeq(s, 1, k)
<1>1. Len(s) \in Nat BY LenProperties
<1>2. one \in 1..Len(s) /\ m \in one..Len(s) /\ m - 1 = k /\ m \in 1..Len(s) BY <1>1
<1>3. t \in Seq(Links)
  <2>1. one \in Nat \ {0} /\ k \in Nat /\ one <= k + 1 /\ k <= Len(s) BY <1>1
  <2> HIDE DEF one
  <2>2. SubSeq(s, one, k) \in Seq(Links) BY ONLY <2>1, s \in Seq(Links), PartFact
  <2> QED BY <2>2 DEF one
<1> HIDE DEF one, m
<1>4. SubSeq(s, one, m) = SubSeq(s, one, m - 1) \o <<s[m]>>
  BY ONLY <1>2, s \in Seq(Links), SubSeqRecursiveSecond
<1>5. s[m] \in Links BY <1>2, ElementOfSeq
<1> HIDE DEF t
<1>6. Append(t, s[m]) = t \o <<s[m]>> BY ONLY <1>3, <1>5, AppendIsConcat
<1> QED BY <1>2, <1>4, <1>6 DEF t, one, m

(* Ring is what it should be wherever there is a ring.                      *)
LEMMA RingIsRead ==
  ASSUME NEW next \in [Links -> Links], NEW n \in Links, NEW s, Turns(next, s, n)
  PROVE  Ring(next, n) = s
<1> DEFINE all == Cardinality(Links)
           Walks(g) == g = [k \in Nat |->
                              IF k = 0 THEN <<next[n]>>
                              ELSE LET t == g[k - 1]
                                   IN IF Last(t) = n THEN t ELSE Append(t, next[Last(t)])]
           walk == CHOOSE g : Walks(g)
           last == [k \in Nat |-> IF k < Len(s) THEN k + 1 ELSE Len(s)]
           upto == [k \in Nat |-> SubSeq(s, 1, last[k])]
<1>1. Ring(next, n) = walk[all] BY DEF Ring
<1>2. /\ Len(s) \in Nat \ {0} /\ s \in Seq(Links) /\ s[Len(s)] = n /\ s[1] = next[n]
      /\ \A i \in 1..Len(s) - 1 : s[i + 1] = next[s[i]]
      /\ \A i, j \in 1..Len(s) : s[i] = s[j] => i = j
  BY TurnsFact DEF Turns
<1>3. upto[0] = <<next[n]>>
  <2>1. last[0] = 1 BY <1>2
  <2>2. SubSeq(s, 1, 1) = <<s[1]>>
    <3> DEFINE one == 1
    <3>1. one \in 1..Len(s) BY <1>2
    <3> HIDE DEF one
    <3>2. SubSeq(s, one, one) = <<s[one]>> BY ONLY <3>1, <1>2, OneOnly
    <3> QED BY <3>2 DEF one
  <2> QED BY <1>2, <2>1, <2>2
<1>4. ASSUME NEW k \in Nat
      PROVE  upto[k + 1] = IF Last(upto[k]) = n THEN upto[k]
                           ELSE Append(upto[k], next[Last(upto[k])])
  <2>1. last[k] \in 1..Len(s) BY <1>2
  <2>2. Last(upto[k]) = s[last[k]]
    <3> DEFINE m == last[k]
    <3>1. m \in 1..Len(s) BY <2>1
    <3> HIDE DEF m
    <3>2. Last(SubSeq(s, 1, m)) = s[m] BY ONLY <3>1, <1>2, LastOfPart
    <3> QED BY <3>2 DEF m
  <2>3. CASE k + 1 < Len(s)
    <3>1. last[k] = k + 1 /\ last[k + 1] = (k + 1) + 1 /\ k + 1 \in 1..Len(s) - 1
          /\ k + 1 \in 1..Len(s) /\ k + 1 # Len(s) /\ Len(s) \in 1..Len(s) /\ k + 1 \in Nat
      BY <1>2, <2>3
    <3>2. s[k + 1] # n BY <1>2, <3>1
    <3>3. next[s[k + 1]] = s[(k + 1) + 1] BY <1>2, <3>1
    <3> DEFINE m == k + 1
    <3>4. m \in 1..Len(s) - 1 BY <3>1
    <3> HIDE DEF m
    <3>5. Append(SubSeq(s, 1, m), s[m + 1]) = SubSeq(s, 1, m + 1)
      BY ONLY <1>2, <3>4, OneMore
    <3>6. upto[k] = SubSeq(s, 1, m) /\ upto[k + 1] = SubSeq(s, 1, m + 1)
      BY <3>1 DEF m
    <3>7. Last(upto[k]) = s[m] /\ s[m] # n /\ next[s[m]] = s[m + 1]
      BY <2>2, <3>1, <3>2, <3>3 DEF m
    <3> HIDE DEF upto
    <3> QED BY <3>5, <3>6, <3>7
  <2>4. CASE ~(k + 1 < Len(s))
    <3>1. last[k] = Len(s) /\ last[k + 1] = Len(s) /\ k + 1 \in Nat BY <1>2, <2>4
    <3>2. upto[k] = SubSeq(s, 1, Len(s)) /\ upto[k + 1] = SubSeq(s, 1, Len(s)) BY <3>1
    <3>3. Last(upto[k]) = n BY <1>2, <2>2, <3>1
    <3> HIDE DEF upto
    <3> QED BY <3>2, <3>3
  <2> QED BY <2>3, <2>4
<1>5. \E g : Walks(g)
  <2> DEFINE f == [k \in Nat |->
                     IF k = 0 THEN <<next[n]>>
                     ELSE LET t == upto[k - 1]
                          IN IF Last(t) = n THEN t ELSE Append(t, next[Last(t)])]
  <2>1. ASSUME NEW k \in Nat PROVE upto[k] = f[k]
    <3>1. CASE k = 0 BY <1>3, <3>1
    <3>2. CASE k # 0
      <4> DEFINE j == k - 1
      <4>1. j \in Nat /\ k = j + 1 BY <3>2
      <4> HIDE DEF j, upto, last
      <4>2. upto[j + 1] = IF Last(upto[j]) = n THEN upto[j]
                          ELSE Append(upto[j], next[Last(upto[j])])
        BY <1>4, <4>1
      <4>3. k - 1 = j BY <4>1
      <4>4. f[k] = IF Last(upto[k - 1]) = n THEN upto[k - 1]
                   ELSE Append(upto[k - 1], next[Last(upto[k - 1])])
        BY <3>2
      <4> QED BY <4>1, <4>2, <4>3, <4>4
    <3> QED BY <3>1, <3>2
  <2>2. upto = f
    <3>1. DOMAIN upto = Nat /\ DOMAIN f = Nat /\ upto = [k \in Nat |-> upto[k]]
          /\ f = [k \in Nat |-> f[k]]
      OBVIOUS
    <3> HIDE DEF upto, f
    <3> QED BY <2>1, <3>1
  <2>3. Walks(upto) BY <2>2
  <2> QED BY <2>3
<1>6. Walks(walk) BY <1>5
<1>7. \A k \in Nat : walk[k] = IF k = 0 THEN <<next[n]>>
                               ELSE LET t == walk[k - 1]
                                    IN IF Last(t) = n THEN t ELSE Append(t, next[Last(t)])
  <2> HIDE DEF walk
  <2> QED BY <1>6
<1> DEFINE S == {k \in Nat : walk[k] = upto[k]}
<1> HIDE DEF walk
<1>8. Nat \subseteq S
  <2>1. 0 \in S BY <1>3, <1>7
  <2>2. ASSUME NEW k \in Nat, k \in S PROVE k + 1 \in S
    <3>1. k + 1 \in Nat /\ k + 1 # 0 /\ (k + 1) - 1 = k OBVIOUS
    <3>2. walk[k + 1] = IF Last(walk[k]) = n THEN walk[k] ELSE Append(walk[k], next[Last(walk[k])])
      BY <1>7, <3>1
    <3>3. walk[k] = upto[k] BY <2>2
    <3> HIDE DEF upto, last
    <3> QED BY <1>4, <3>1, <3>2, <3>3
  <2> HIDE DEF S
  <2> QED BY <2>1, <2>2, Induction
<1>9. all \in Nat /\ Len(s) <= all BY <1>2, NotTooLong, LinksAreFinite
<1>10. upto[all] = s
  <2>1. last[all] = Len(s) BY <1>2, <1>9
  <2>2. SubSeq(s, 1, Len(s)) = s BY <1>2, SubSeqFull
  <2> HIDE DEF last
  <2> QED BY <1>9, <2>1, <2>2
<1>11. walk[all] = upto[all] BY <1>8, <1>9
<1> QED BY <1>1, <1>10, <1>11

(* Every node has a ring: a longest path to n, without repetitions, begins  *)
(* behind n.                                                                *)
Leads(next, s, n) ==
  /\ s \in Seq(Links) /\ s # <<>> /\ s[Len(s)] = n
  /\ \A i \in 1..Len(s) - 1 : s[i + 1] = next[s[i]]
  /\ \A i, j \in 1..Len(s) : s[i] = s[j] => i = j

LEMMA LinkedFact ==
  ASSUME NEW l, Linked(l)
  PROVE  /\ l.succ \in [Links -> Links] /\ l.pred \in [Links -> Links]
         /\ \A n \in Links : /\ l.succ[n] \in Links /\ l.pred[n] \in Links
                             /\ l.pred[l.succ[n]] = n /\ l.succ[l.pred[n]] = n
         /\ \A m, n \in Links : l.succ[m] = l.succ[n] => m = n
BY DEF Linked

LEMMA RingExists ==
  ASSUME NEW l, Linked(l), NEW n \in Links
  PROVE  \E s : Turns(l.succ, s, n)
<1> DEFINE lengths == {k \in 1..Cardinality(Links) : \E s : Leads(l.succ, s, n) /\ Len(s) = k}
<1>0. Cardinality(Links) \in Nat BY LinksAreFinite
<1>1. lengths \in SUBSET (1..Cardinality(Links)) OBVIOUS
<1>2. ASSUME NEW s, Leads(l.succ, s, n) PROVE Len(s) \in lengths
  <2>1. /\ s \in Seq(Links) /\ s # <<>> /\ \A i, j \in 1..Len(s) : s[i] = s[j] => i = j
    BY <1>2 DEF Leads
  <2>2. Len(s) \in Nat \ {0} BY <2>1, EmptySeq
  <2>3. Len(s) <= Cardinality(Links) BY <2>1, NotTooLong
  <2> QED BY <1>0, <1>2, <2>2, <2>3
<1>3. Leads(l.succ, <<n>>, n)
  <2>1. <<n>> \in Seq(Links) /\ Len(<<n>>) = 1 /\ <<n>>[1] = n /\ <<n>> # <<>> OBVIOUS
  <2> QED BY <2>1 DEF Leads
<1>4. lengths # {} BY <1>2, <1>3
<1>5. PICK k \in lengths : \A j \in lengths : k >= j
  <2> HIDE DEF lengths
  <2> QED BY <1>0, <1>1, <1>4, Largest
<1>6. PICK s : Leads(l.succ, s, n) /\ Len(s) = k BY <1>5
<1>7. /\ s \in Seq(Links) /\ s # <<>> /\ s[Len(s)] = n
      /\ \A i \in 1..Len(s) - 1 : s[i + 1] = l.succ[s[i]]
      /\ \A i, j \in 1..Len(s) : s[i] = s[j] => i = j
  BY <1>6 DEF Leads
<1>8. Len(s) \in Nat \ {0} /\ s[1] \in Links
  <2>1. Len(s) \in Nat \ {0} BY <1>7, EmptySeq
  <2>2. 1 \in 1..Len(s) BY <2>1
  <2> QED BY <1>7, <2>1, <2>2, ElementOfSeq
<1> DEFINE p == l.pred[s[1]]
<1>9. p \in Links /\ l.succ[p] = s[1] BY <1>8, LinkedFact
<1>10. \E j \in 1..Len(s) : s[j] = p
  <2> SUFFICES ASSUME \A j \in 1..Len(s) : s[j] # p PROVE FALSE OBVIOUS
  <2> DEFINE t == <<p>> \o s
  <2> HIDE DEF p
  <2>1. <<p>> \in Seq(Links) /\ Len(<<p>>) = 1 /\ <<p>>[1] = p BY <1>9
  <2>2. /\ t \in Seq(Links) /\ Len(t) = Len(s) + 1
        /\ \A i \in 1..Len(s) + 1 : t[i] = IF i <= 1 THEN p ELSE s[i - 1]
    <3> DEFINE first == <<p>>
    <3>1. first \in Seq(Links) /\ Len(first) = 1 /\ first[1] = p BY <2>1
    <3> HIDE DEF first
    <3>2. /\ first \o s \in Seq(Links) /\ Len(first \o s) = Len(first) + Len(s)
          /\ \A i \in 1..Len(first) + Len(s) :
               (first \o s)[i] = IF i <= Len(first) THEN first[i] ELSE s[i - Len(first)]
      BY ONLY <1>7, <3>1, ConcatProperties
    <3>3. Len(first) + Len(s) = Len(s) + 1 BY <1>8, <3>1
    <3>4. ASSUME NEW i \in 1..Len(s) + 1 PROVE (first \o s)[i] = IF i <= 1 THEN p ELSE s[i - 1]
      <4>1. i \in 1..Len(first) + Len(s) BY <3>3
      <4>2. (first \o s)[i] = IF i <= 1 THEN first[i] ELSE s[i - 1] BY <3>1, <3>2, <4>1
      <4>3. i <= 1 => i = 1 BY <1>8
      <4> QED BY <3>1, <4>2, <4>3
    <3> QED BY <3>2, <3>3, <3>4 DEF first
  <2> HIDE DEF t
  <2>3. t # <<>> /\ t[Len(t)] = n
    <3>1. Len(t) \in 1..Len(s) + 1 /\ ~(Len(t) <= 1) /\ Len(t) - 1 = Len(s) BY <1>8, <2>2
    <3> QED BY <1>7, <2>2, <3>1
  <2>4. ASSUME NEW i \in 1..Len(t) - 1 PROVE t[i + 1] = l.succ[t[i]]
    <3>1. i \in 1..Len(s) + 1 /\ i + 1 \in 1..Len(s) + 1 /\ ~(i + 1 <= 1) /\ (i + 1) - 1 = i
      BY <1>8, <2>2
    <3>2. t[i + 1] = s[i] BY <2>2, <3>1
    <3>3. CASE i = 1
      <4>1. t[i] = p BY <2>2, <3>1, <3>3
      <4> QED BY <1>9, <3>2, <3>3, <4>1 DEF p
    <3>4. CASE i # 1
      <4>1. ~(i <= 1) /\ i - 1 \in 1..Len(s) - 1 /\ (i - 1) + 1 = i BY <1>8, <2>2, <3>4
      <4>2. t[i] = s[i - 1] BY <2>2, <3>1, <4>1
      <4>3. s[(i - 1) + 1] = l.succ[s[i - 1]] BY <1>7, <4>1
      <4> QED BY <3>2, <4>1, <4>2, <4>3
    <3> QED BY <3>3, <3>4
  <2>5. ASSUME NEW i \in 1..Len(t), NEW j \in 1..Len(t), t[i] = t[j] PROVE i = j
    <3>1. i \in 1..Len(s) + 1 /\ j \in 1..Len(s) + 1 BY <2>2
    <3>2. /\ t[i] = IF i <= 1 THEN p ELSE s[i - 1]
          /\ t[j] = IF j <= 1 THEN p ELSE s[j - 1]
      BY <2>2, <3>1
    <3>3. /\ ~(i <= 1) => i - 1 \in 1..Len(s)
          /\ ~(j <= 1) => j - 1 \in 1..Len(s)
      BY <1>8, <3>1
    <3>4. CASE i <= 1 /\ j <= 1 BY <1>8, <3>1, <3>4
    <3>5. CASE i <= 1 /\ ~(j <= 1) BY <2>5, <3>2, <3>3, <3>5
    <3>6. CASE ~(i <= 1) /\ j <= 1 BY <2>5, <3>2, <3>3, <3>6
    <3>7. CASE ~(i <= 1) /\ ~(j <= 1)
      <4>1. s[i - 1] = s[j - 1] BY <2>5, <3>2, <3>7
      <4>2. i - 1 = j - 1 BY <1>7, <3>3, <3>7, <4>1
      <4> QED BY <1>8, <3>1, <4>2
    <3> QED BY <3>4, <3>5, <3>6, <3>7
  <2>6. Leads(l.succ, t, n) BY <2>2, <2>3, <2>4, <2>5 DEF Leads
  <2>7. Len(t) \in lengths BY <1>2, <2>6
  <2> HIDE DEF lengths
  <2>8. k >= Len(s) + 1 BY <1>5, <2>2, <2>7
  <2> QED BY <1>6, <1>8, <2>8
<1>11. PICK j \in 1..Len(s) : s[j] = p BY <1>10
<1>12. j = Len(s)
  <2> SUFFICES ASSUME j # Len(s) PROVE FALSE OBVIOUS
  <2>1. j \in 1..Len(s) - 1 /\ j + 1 \in 1..Len(s) /\ 1 \in 1..Len(s) /\ j + 1 # 1 BY <1>8, <1>11
  <2>2. s[j + 1] = l.succ[s[j]] BY <1>7, <2>1
  <2>3. s[j + 1] = s[1] BY <1>9, <1>11, <2>2
  <2> QED BY <1>7, <2>1, <2>3
<1>13. s[1] = l.succ[n] BY <1>7, <1>9, <1>11, <1>12
<1>14. Turns(l.succ, s, n) BY <1>7, <1>13 DEF Turns
<1> QED BY <1>14

LEMMA RingTurns ==
  ASSUME NEW l, Linked(l), NEW n \in Links
  PROVE  Turns(l.succ, Ring(l.succ, n), n)
<1>1. PICK s : Turns(l.succ, s, n) BY RingExists
<1>2. Ring(l.succ, n) = s BY <1>1, LinkedFact, RingIsRead
<1> QED BY <1>1, <1>2

(* Every call exchanges what comes after two nodes: two rings become one,   *)
(* or one becomes two.                                                      *)
Crossed(l, a, b) ==
  [succ |-> [m \in Links |-> IF m = b THEN l.succ[a] ELSE IF m = a THEN l.succ[b] ELSE l.succ[m]],
   pred |-> [m \in Links |-> IF m = l.succ[a] THEN b ELSE IF m = l.succ[b] THEN a ELSE l.pred[m]]]

LEMMA CrossedLinked ==
  ASSUME NEW l, Linked(l), NEW a \in Links, NEW b \in Links
  PROVE  Linked(Crossed(l, a, b))
<1> DEFINE x == Crossed(l, a, b)
<1>1. /\ x.succ = [m \in Links |-> IF m = b THEN l.succ[a] ELSE IF m = a THEN l.succ[b] ELSE l.succ[m]]
      /\ x.pred = [m \in Links |-> IF m = l.succ[a] THEN b ELSE IF m = l.succ[b] THEN a ELSE l.pred[m]]
      /\ x = [succ |-> x.succ, pred |-> x.pred]
  BY DEF Crossed
<1>2. x.succ \in [Links -> Links] /\ x.pred \in [Links -> Links]
  BY <1>1, LinkedFact
<1>3. ASSUME NEW n \in Links PROVE x.pred[x.succ[n]] = n /\ x.succ[x.pred[n]] = n
  <2>1. x.pred[x.succ[n]] = n
    <3>1. CASE n = b BY <1>1, <3>1, LinkedFact
    <3>2. CASE n # b /\ n = a BY <1>1, <3>2, LinkedFact
    <3>3. CASE n # b /\ n # a BY <1>1, <3>3, LinkedFact
    <3> QED BY <3>1, <3>2, <3>3
  <2>2. x.succ[x.pred[n]] = n
    <3>1. CASE n = l.succ[a] BY <1>1, <3>1, LinkedFact
    <3>2. CASE n # l.succ[a] /\ n = l.succ[b] BY <1>1, <3>2, LinkedFact
    <3>3. CASE n # l.succ[a] /\ n # l.succ[b] BY <1>1, <3>3, LinkedFact
    <3> QED BY <3>1, <3>2, <3>3
  <2> QED BY <2>1, <2>2
<1> HIDE DEF x
<1> QED BY <1>1, <1>2, <1>3 DEF Linked, x

LEMMA CrossedAway ==
  ASSUME NEW l, Linked(l), NEW a \in Links, NEW b \in Links, NEW h, NEW r,
         Turns(l.succ, r, h), \A i \in 1..Len(r) : r[i] # a /\ r[i] # b
  PROVE  Turns(Crossed(l, a, b).succ, r, h)
<1> DEFINE next == Crossed(l, a, b).succ
<1>1. \A m \in Links : m # a /\ m # b => next[m] = l.succ[m] BY DEF Crossed
<1>2. Len(r) \in Nat \ {0} /\ \A i \in 1..Len(r) : r[i] \in Links BY TurnsFact
<1> HIDE DEF next
<1>3. r[1] = next[h]
  <2>1. Len(r) \in 1..Len(r) BY <1>2
  <2> QED BY <1>1, <1>2, <2>1 DEF Turns
<1>4. ASSUME NEW i \in 1..Len(r) - 1 PROVE r[i + 1] = next[r[i]]
  <2>1. i \in 1..Len(r) BY <1>2
  <2> QED BY <1>1, <1>2, <2>1 DEF Turns
<1> QED BY <1>3, <1>4 DEF Turns, next

(* The node before place i + 1 of a ring.                                   *)
Ahead(r, i) == IF i = 0 THEN r[Len(r)] ELSE r[i]

LEMMA AheadFact ==
  ASSUME NEW l, Linked(l), NEW h, NEW r, Turns(l.succ, r, h), NEW i \in 0..Len(r) - 1
  PROVE  /\ Ahead(r, i) \in Links /\ i + 1 \in 1..Len(r)
         /\ l.succ[Ahead(r, i)] = r[i + 1] /\ l.pred[r[i + 1]] = Ahead(r, i)
<1>1. Len(r) \in Nat \ {0} /\ \A k \in 1..Len(r) : r[k] \in Links BY TurnsFact
<1>2. Len(r) \in 1..Len(r) /\ i + 1 \in 1..Len(r) /\ (i # 0 => i \in 1..Len(r) - 1 /\ i \in 1..Len(r))
  BY <1>1
<1>3. Ahead(r, i) \in Links BY <1>1, <1>2 DEF Ahead
<1>4. l.succ[Ahead(r, i)] = r[i + 1]
  <2>1. CASE i = 0 BY <2>1 DEF Ahead, Turns
  <2>2. CASE i # 0 BY <1>2, <2>2 DEF Ahead, Turns
  <2> QED BY <2>1, <2>2
<1>5. l.pred[l.succ[Ahead(r, i)]] = Ahead(r, i) BY <1>3, LinkedFact
<1> QED BY <1>2, <1>3, <1>4, <1>5

(* What is left without the nodes behind place i up to place j.             *)
Rest(r, i, j) == SubSeq(r, 1, i) \o SubSeq(r, j + 1, Len(r))

LEMMA RestFact ==
  ASSUME NEW r \in Seq(Links), NEW i \in Nat, NEW j \in i..Len(r)
  PROVE  /\ Rest(r, i, j) \in Seq(Links) /\ Len(Rest(r, i, j)) = Len(r) - (j - i)
         /\ \A q \in 1..Len(r) - (j - i) :
              /\ q <= i => q \in 1..Len(r) /\ Rest(r, i, j)[q] = r[q]
              /\ ~(q <= i) => q + (j - i) \in 1..Len(r) /\ Rest(r, i, j)[q] = r[q + (j - i)]
<1> DEFINE one == 1
           k == j + 1
           x == SubSeq(r, one, i)
           y == SubSeq(r, k, Len(r))
<1>1. Len(r) \in Nat BY LenProperties
<1>2. /\ one \in Nat \ {0} /\ i \in Nat /\ one <= i + 1 /\ i <= Len(r)
      /\ k \in Nat \ {0} /\ Len(r) \in Nat /\ k <= Len(r) + 1 /\ Len(r) <= Len(r)
  BY <1>1
<1> HIDE DEF one, k
<1>3. x \in Seq(Links) /\ Len(x) = i - one + 1 /\ \A q \in 1..i - one + 1 : x[q] = r[one + q - 1]
  BY ONLY <1>2, r \in Seq(Links), PartFact
<1>4. y \in Seq(Links) /\ Len(y) = Len(r) - k + 1 /\ \A q \in 1..Len(r) - k + 1 : y[q] = r[k + q - 1]
  BY ONLY <1>2, r \in Seq(Links), PartFact
<1> HIDE DEF x, y
<1>5. /\ x \o y \in Seq(Links) /\ Len(x \o y) = Len(x) + Len(y)
      /\ \A q \in 1..Len(x) + Len(y) : (x \o y)[q] = IF q <= Len(x) THEN x[q] ELSE y[q - Len(x)]
  BY ONLY <1>3, <1>4, ConcatProperties
<1>6. Len(x) = i /\ Len(y) = Len(r) - j /\ Len(x) + Len(y) = Len(r) - (j - i)
  BY <1>1, <1>3, <1>4 DEF one, k
<1>7. Rest(r, i, j) = x \o y BY DEF Rest, x, y, one, k
<1>8. ASSUME NEW q \in 1..Len(r) - (j - i)
      PROVE  /\ q <= i => q \in 1..Len(r) /\ (x \o y)[q] = r[q]
             /\ ~(q <= i) => q + (j - i) \in 1..Len(r) /\ (x \o y)[q] = r[q + (j - i)]
  <2>1. q \in 1..Len(x) + Len(y) BY <1>6
  <2>2. CASE q <= i
    <3>1. q \in 1..i - one + 1 /\ one + q - 1 = q /\ q \in 1..Len(r) BY <1>1, <1>2, <2>2 DEF one
    <3>2. (x \o y)[q] = x[q] BY <1>5, <1>6, <2>1, <2>2
    <3> QED BY <1>3, <2>2, <3>1, <3>2
  <2>3. CASE ~(q <= i)
    <3> DEFINE p == q - i
    <3>1. p \in 1..Len(r) - k + 1 /\ k + p - 1 = q + (j - i) /\ q + (j - i) \in 1..Len(r)
      BY <1>1, <1>2, <2>3 DEF k
    <3>2. (x \o y)[q] = y[p] BY <1>5, <1>6, <2>1, <2>3
    <3> HIDE DEF p
    <3>3. y[p] = r[k + p - 1] BY <1>4, <3>1
    <3> QED BY <2>3, <3>1, <3>2, <3>3
  <2> QED BY <2>2, <2>3
<1> QED BY <1>5, <1>6, <1>7, <1>8

LEMMA CrossedCuts ==
  ASSUME NEW l, Linked(l), NEW h, NEW r, Turns(l.succ, r, h),
         NEW i \in Nat, NEW j \in i + 1..Len(r) - 1
  PROVE  Turns(Crossed(l, Ahead(r, i), r[j]).succ, Rest(r, i, j), h)
<1> DEFINE a == Ahead(r, i)
           b == r[j]
           next == Crossed(l, a, b).succ
           u == Rest(r, i, j)
           n == Len(r)
           w == n - (j - i)
<1>1. /\ n \in Nat \ {0} /\ r \in Seq(Links) /\ h \in Links /\ \A k \in 1..n : r[k] \in Links
  BY TurnsFact
<1>2. /\ r[n] = h /\ r[1] = l.succ[h]
      /\ \A k \in 1..n - 1 : r[k + 1] = l.succ[r[k]]
      /\ \A p, q \in 1..n : r[p] = r[q] => p = q
  BY DEF Turns
<1>3. /\ j \in i..n /\ j \in 1..n /\ j \in 1..n - 1 /\ i \in 0..n - 1 /\ n \in 1..n /\ w \in Nat \ {0}
      /\ i < j
  BY <1>1
<1>4. /\ u \in Seq(Links) /\ Len(u) = w
      /\ \A q \in 1..w : /\ q <= i => q \in 1..n /\ u[q] = r[q]
                         /\ ~(q <= i) => q + (j - i) \in 1..n /\ u[q] = r[q + (j - i)]
  BY <1>1, <1>3, RestFact
<1>5. a \in Links /\ l.succ[a] = r[i + 1] /\ (i # 0 => a = r[i]) /\ (i = 0 => a = h)
  <2>1. a \in Links /\ l.succ[a] = r[i + 1] BY <1>3, AheadFact
  <2> QED BY <1>2, <2>1 DEF Ahead
<1>6. b \in Links /\ l.succ[b] = r[j + 1] BY <1>1, <1>2, <1>3
<1>7. a # b
  <2>1. CASE i = 0 BY <1>1, <1>2, <1>3, <1>5, <2>1
  <2>2. CASE i # 0
    <3>1. i \in 1..n /\ i # j BY <1>1, <1>3, <2>2
    <3> QED BY <1>2, <1>3, <1>5, <2>2, <3>1
  <2> QED BY <2>1, <2>2
<1>8. /\ next[a] = r[j + 1] /\ \A m \in Links : m # a /\ m # b => next[m] = l.succ[m]
  BY <1>5, <1>6, <1>7 DEF Crossed
<1> HIDE DEF next, u, a, b, w, n
<1>9. u[w] = h
  <2>1. w \in 1..w /\ ~(w <= i) /\ w + (j - i) = n BY <1>1, <1>3 DEF w
  <2> QED BY <1>2, <1>4, <2>1
<1>10. ASSUME NEW q \in 1..w - 1 PROVE u[q + 1] = next[u[q]]
  <2>0. q \in 1..w /\ q + 1 \in 1..w BY <1>3
  <2>1. CASE q + 1 <= i
    <3>1. q <= i /\ q \in 1..n /\ q \in 1..n - 1 /\ q # i /\ q # j /\ i # 0 /\ i \in 1..n BY <1>1, <1>3, <2>0, <2>1
    <3>2. u[q + 1] = r[q + 1] /\ u[q] = r[q] BY <1>4, <2>0, <2>1, <3>1
    <3>3. r[q] # a /\ r[q] # b /\ r[q] \in Links BY <1>1, <1>2, <1>3, <1>5, <3>1 DEF b
    <3> QED BY <1>2, <1>8, <3>1, <3>2, <3>3
  <2>2. CASE q = i
    <3>1. ~(q + 1 <= i) /\ q <= i /\ (q + 1) + (j - i) = j + 1 /\ i # 0 BY <1>1, <1>3, <2>0, <2>2
    <3>2. u[q + 1] = r[j + 1] /\ u[q] = r[q] BY <1>4, <2>0, <3>1
    <3> QED BY <1>5, <1>8, <2>2, <3>1, <3>2
  <2>3. CASE ~(q <= i)
    <3> DEFINE p == q + (j - i)
    <3>1. ~(q + 1 <= i) /\ (q + 1) + (j - i) = p + 1 /\ p \in 1..n - 1 /\ p \in 1..n /\ p > j
      BY <1>1, <1>3, <2>0, <2>3 DEF w
    <3>2. u[q + 1] = r[p + 1] /\ u[q] = r[p] BY <1>4, <2>0, <2>3, <3>1
    <3> HIDE DEF p
    <3>3. p # j /\ p # i /\ p # n BY <1>1, <1>3, <3>1
    <3>4. r[p] # a
      <4>1. CASE i = 0 BY <1>2, <1>3, <1>5, <3>1, <3>3, <4>1
      <4>2. CASE i # 0
        <5>1. i \in 1..n BY <1>1, <1>3, <4>2
        <5> QED BY <1>2, <1>5, <3>1, <3>3, <4>2, <5>1
      <4> QED BY <4>1, <4>2
    <3>5. r[p] # b /\ r[p] \in Links BY <1>1, <1>2, <1>3, <3>1, <3>3 DEF b
    <3> QED BY <1>2, <1>8, <3>1, <3>2, <3>4, <3>5
  <2> QED BY <1>1, <1>3, <2>0, <2>1, <2>2, <2>3
<1>11. u[1] = next[h]
  <2>0. 1 \in 1..w BY <1>3
  <2>1. CASE i = 0
    <3>1. ~(1 <= i) /\ 1 + (j - i) = j + 1 BY <1>3, <2>1
    <3> QED BY <1>4, <1>5, <1>8, <2>0, <2>1, <3>1
  <2>2. CASE i # 0
    <3>1. 1 <= i /\ i # n /\ j # n /\ i \in 1..n BY <1>1, <1>3, <2>2
    <3>2. h # a /\ h # b BY <1>2, <1>3, <1>5, <2>2, <3>1 DEF b
    <3> QED BY <1>1, <1>2, <1>4, <1>8, <2>0, <3>1, <3>2
  <2> QED BY <2>1, <2>2
<1>12. ASSUME NEW p \in 1..w, NEW q \in 1..w, u[p] = u[q] PROVE p = q
  <2>1. CASE p <= i /\ q <= i BY <1>2, <1>4, <1>12, <2>1
  <2>2. CASE p <= i /\ ~(q <= i)
    <3>1. p \in 1..n /\ q + (j - i) \in 1..n /\ r[p] = r[q + (j - i)] BY <1>4, <1>12, <2>2
    <3>2. p = q + (j - i) BY <1>2, <3>1
    <3> QED BY <1>3, <2>2, <3>2
  <2>3. CASE ~(p <= i) /\ q <= i
    <3>1. q \in 1..n /\ p + (j - i) \in 1..n /\ r[q] = r[p + (j - i)] BY <1>4, <1>12, <2>3
    <3>2. q = p + (j - i) BY <1>2, <3>1
    <3> QED BY <1>3, <2>3, <3>2
  <2>4. CASE ~(p <= i) /\ ~(q <= i)
    <3>1. p + (j - i) \in 1..n /\ q + (j - i) \in 1..n /\ r[p + (j - i)] = r[q + (j - i)]
      BY <1>4, <1>12, <2>4
    <3>2. p + (j - i) = q + (j - i) BY <1>2, <3>1
    <3> QED BY <1>3, <3>2
  <2> QED BY <2>1, <2>2, <2>3, <2>4
<1>13. u # <<>> BY <1>3, <1>4
<1>14. Turns(next, u, h) BY <1>4, <1>9, <1>10, <1>11, <1>12, <1>13 DEF Turns
<1> QED BY <1>14 DEF next, u, a, b

LEMMA CrossedCloses ==
  ASSUME NEW l, Linked(l), NEW h, NEW r, Turns(l.succ, r, h),
         NEW i \in Nat, NEW j \in i + 1..Len(r)
  PROVE  Turns(Crossed(l, Ahead(r, i), r[j]).succ, SubSeq(r, i + 1, j), r[j])
<1> DEFINE a == Ahead(r, i)
           b == r[j]
           next == Crossed(l, a, b).succ
           m == i + 1
           u == SubSeq(r, m, j)
           n == Len(r)
<1>1. /\ n \in Nat \ {0} /\ r \in Seq(Links) /\ \A k \in 1..n : r[k] \in Links
  BY TurnsFact
<1>2. /\ r[n] = h /\ \A k \in 1..n - 1 : r[k + 1] = l.succ[r[k]]
      /\ \A p, q \in 1..n : r[p] = r[q] => p = q
  BY DEF Turns
<1>3. /\ j \in 1..n /\ i \in 0..n - 1 /\ m \in 1..n /\ n \in 1..n /\ i < j
      /\ m \in Nat \ {0} /\ j \in Nat /\ m <= j + 1 /\ j <= n /\ j - m + 1 = j - i
  BY <1>1
<1>4. /\ u \in Seq(Links) /\ Len(u) = j - i
      /\ \A q \in 1..j - i : q + i \in 1..n /\ u[q] = r[q + i]
  <2> HIDE DEF m
  <2>1. /\ SubSeq(r, m, j) \in Seq(Links) /\ Len(SubSeq(r, m, j)) = j - m + 1
        /\ \A q \in 1..j - m + 1 : SubSeq(r, m, j)[q] = r[m + q - 1]
    BY ONLY <1>1, <1>3, PartFact
  <2>2. \A q \in 1..j - i : m + q - 1 = q + i /\ q + i \in 1..n BY <1>1, <1>3 DEF m
  <2> QED BY <1>3, <2>1, <2>2
<1>5. a \in Links /\ l.succ[a] = r[i + 1] /\ (i # 0 => a = r[i]) /\ (i = 0 => a = h)
  <2>1. a \in Links /\ l.succ[a] = r[i + 1] BY <1>3, AheadFact
  <2> QED BY <1>2, <2>1 DEF Ahead
<1>6. next[b] = r[i + 1] /\ \A x \in Links : x # a /\ x # b => next[x] = l.succ[x]
  BY <1>1, <1>3, <1>5 DEF Crossed
<1> HIDE DEF next, u, a, b, n, m
<1>7. u[Len(u)] = b
  <2>1. j - i \in 1..j - i /\ (j - i) + i = j BY <1>1, <1>3
  <2> QED BY <1>4, <2>1 DEF b
<1>8. u[1] = next[b]
  <2>1. 1 \in 1..j - i /\ 1 + i = i + 1 BY <1>1, <1>3
  <2> QED BY <1>4, <1>6, <2>1
<1>9. ASSUME NEW q \in 1..Len(u) - 1 PROVE u[q + 1] = next[u[q]]
  <2> DEFINE p == q + i
  <2>1. /\ q \in 1..j - i /\ q + 1 \in 1..j - i /\ (q + 1) + i = p + 1 /\ p \in 1..n - 1 /\ p \in 1..n
        /\ p # j /\ p # i /\ p # n
    BY <1>1, <1>3, <1>4
  <2>2. u[q + 1] = r[p + 1] /\ u[q] = r[p]
    <3>1. u[q] = r[q + i] BY <1>4, <2>1
    <3>2. u[q + 1] = r[(q + 1) + i] BY <1>4, <2>1
    <3> QED BY <2>1, <3>1, <3>2
  <2> HIDE DEF p
  <2>3. r[p] # b /\ r[p] \in Links BY <1>1, <1>2, <1>3, <2>1 DEF b
  <2>4. r[p] # a
    <3>1. CASE i = 0 BY <1>2, <1>3, <1>5, <2>1, <3>1
    <3>2. CASE i # 0
      <4>1. i \in 1..n BY <1>1, <1>3, <3>2
      <4> QED BY <1>2, <1>5, <2>1, <3>2, <4>1
    <3> QED BY <3>1, <3>2
  <2> QED BY <1>2, <1>6, <2>1, <2>2, <2>3, <2>4
<1>10. ASSUME NEW p \in 1..Len(u), NEW q \in 1..Len(u), u[p] = u[q] PROVE p = q
  <2>1. p + i \in 1..n /\ q + i \in 1..n /\ r[p + i] = r[q + i] BY <1>4, <1>10
  <2>2. p + i = q + i BY <1>2, <2>1
  <2> QED BY <1>3, <1>4, <2>2
<1>11. u # <<>>
  <2>1. Len(u) # 0 BY <1>3, <1>4
  <2> QED BY <2>1
<1>12. Turns(next, u, b) BY <1>4, <1>7, <1>8, <1>9, <1>10, <1>11 DEF Turns
<1> QED BY <1>12 DEF next, u, a, b, m

LEMMA CrossedPuts ==
  ASSUME NEW l, Linked(l), NEW h, NEW r, Turns(l.succ, r, h), NEW b, NEW t, Turns(l.succ, t, b),
         \A p \in 1..Len(r), q \in 1..Len(t) : r[p] # t[q],
         NEW i \in 0..Len(r) - 1
  PROVE  Turns(Crossed(l, Ahead(r, i), b).succ, With(r, i + 1, t), h)
<1> DEFINE a == Ahead(r, i)
           next == Crossed(l, a, b).succ
           m == i + 1
           u == With(r, m, t)
           n == Len(r)
           k == Len(t)
<1>1. /\ n \in Nat \ {0} /\ r \in Seq(Links) /\ h \in Links /\ \A p \in 1..n : r[p] \in Links
      /\ k \in Nat \ {0} /\ t \in Seq(Links) /\ b \in Links /\ \A p \in 1..k : t[p] \in Links
  BY TurnsFact
<1>2. /\ r[n] = h /\ r[1] = l.succ[h]
      /\ \A p \in 1..n - 1 : r[p + 1] = l.succ[r[p]]
      /\ \A p, q \in 1..n : r[p] = r[q] => p = q
      /\ t[k] = b /\ t[1] = l.succ[b]
      /\ \A p \in 1..k - 1 : t[p + 1] = l.succ[t[p]]
      /\ \A p, q \in 1..k : t[p] = t[q] => p = q
  BY DEF Turns
<1>3. i \in 0..n - 1 /\ m \in 1..n + 1 /\ m \in 1..n /\ n \in 1..n /\ k \in 1..k /\ 1 \in 1..k /\ 1 \in 1..n
  BY <1>1
<1>4. /\ u \in Seq(Links) /\ Len(u) = n + k
      /\ \A q \in 1..n + k :
           /\ q <= i => q \in 1..n /\ u[q] = r[q]
           /\ ~(q <= i) /\ q <= i + k => q - i \in 1..k /\ u[q] = t[q - i]
           /\ ~(q <= i + k) => q - k \in 1..n /\ u[q] = r[q - k]
  <2> HIDE DEF m
  <2>1. /\ With(r, m, t) \in Seq(Links) /\ Len(With(r, m, t)) = Len(r) + Len(t)
        /\ \A q \in 1..Len(r) + Len(t) :
             With(r, m, t)[q] = IF q < m THEN r[q]
                                ELSE IF q < m + Len(t) THEN t[q - m + 1] ELSE r[q - Len(t)]
    BY ONLY <1>1, <1>3, WithFact
  <2>2. ASSUME NEW q \in 1..n + k
        PROVE  /\ q <= i => q \in 1..n /\ u[q] = r[q]
               /\ ~(q <= i) /\ q <= i + k => q - i \in 1..k /\ u[q] = t[q - i]
               /\ ~(q <= i + k) => q - k \in 1..n /\ u[q] = r[q - k]
    <3>1. /\ q < m <=> q <= i
          /\ q < m + k <=> q <= i + k
          /\ q - m + 1 = q - i
      BY <1>1, <1>3 DEF m
    <3>2. u[q] = IF q <= i THEN r[q] ELSE IF q <= i + k THEN t[q - i] ELSE r[q - k]
      BY <2>1, <3>1
    <3>3. /\ q <= i => q \in 1..n
          /\ ~(q <= i) /\ q <= i + k => q - i \in 1..k
          /\ ~(q <= i + k) => q - k \in 1..n /\ ~(q <= i)
      BY <1>1, <1>3
    <3> QED BY <3>2, <3>3
  <2> QED BY <2>1, <2>2
<1>5. a \in Links /\ l.succ[a] = r[i + 1] /\ (i # 0 => a = r[i]) /\ (i = 0 => a = h)
  <2>1. a \in Links /\ l.succ[a] = r[i + 1]
    BY ONLY Linked(l), Turns(l.succ, r, h), i \in 0..Len(r) - 1, AheadFact
  <2> QED BY <1>2, <2>1 DEF Ahead
<1>6. /\ \A p \in 1..n : r[p] # b
      /\ \A q \in 1..k : t[q] # a
  <2>1. \E p \in 1..n : a = r[p]
    <3>1. CASE i = 0 BY <1>2, <1>3, <1>5, <3>1
    <3>2. CASE i # 0
      <4>1. i \in 1..n BY <1>1, <1>3, <3>2
      <4> QED BY <1>5, <3>2, <4>1
    <3> QED BY <3>1, <3>2
  <2> QED BY <1>2, <1>3, <2>1
<1>7. /\ next[b] = r[i + 1] /\ next[a] = t[1]
      /\ \A x \in Links : x # a /\ x # b => next[x] = l.succ[x]
  <2>1. a # b BY <1>2, <1>3, <1>6
  <2> QED BY <1>1, <1>2, <1>5, <2>1 DEF Crossed
<1> HIDE DEF next, u, a, m, n, k
<1>8. u[n + k] = h
  <2>1. n + k \in 1..n + k /\ ~(n + k <= i + k) /\ (n + k) - k = n BY <1>1, <1>3
  <2> QED BY <1>2, <1>4, <2>1
<1>9. u[1] = next[h]
  <2>0. 1 \in 1..n + k BY <1>1
  <2>1. CASE i = 0
    <3>1. ~(1 <= i) /\ 1 <= i + k /\ 1 - i = 1 BY <1>1, <2>1
    <3> QED BY <1>4, <1>5, <1>7, <2>0, <2>1, <3>1
  <2>2. CASE i # 0
    <3>1. 1 <= i /\ i # n /\ i \in 1..n BY <1>1, <1>3, <2>2
    <3>2. h # a /\ h # b BY <1>2, <1>3, <1>5, <1>6, <2>2, <3>1
    <3> QED BY <1>1, <1>2, <1>4, <1>7, <2>0, <3>1, <3>2
  <2> QED BY <2>1, <2>2
<1>10. ASSUME NEW q \in 1..(n + k) - 1 PROVE u[q + 1] = next[u[q]]
  <2>0. q \in 1..n + k /\ q + 1 \in 1..n + k BY <1>1
  <2>1. CASE q + 1 <= i
    <3>1. q <= i /\ q \in 1..n - 1 /\ q \in 1..n /\ q # i /\ i # 0 /\ i \in 1..n BY <1>1, <1>3, <2>0, <2>1
    <3>2. u[q + 1] = r[q + 1] /\ u[q] = r[q] BY <1>4, <2>0, <2>1, <3>1
    <3>3. r[q] # a /\ r[q] # b /\ r[q] \in Links BY <1>1, <1>2, <1>5, <1>6, <3>1
    <3> QED BY <1>2, <1>7, <3>1, <3>2, <3>3
  <2>2. CASE q = i
    <3>1. ~(q + 1 <= i) /\ q + 1 <= i + k /\ (q + 1) - i = 1 /\ q <= i /\ i # 0 BY <1>1, <1>3, <2>0, <2>2
    <3>2. u[q + 1] = t[1] /\ u[q] = r[i] BY <1>4, <2>0, <2>2, <3>1
    <3> QED BY <1>5, <1>7, <3>1, <3>2
  <2>3. CASE ~(q <= i) /\ q + 1 <= i + k
    <3> DEFINE p == q - i
    <3>1. ~(q + 1 <= i) /\ q <= i + k /\ (q + 1) - i = p + 1 /\ p \in 1..k - 1 /\ p \in 1..k /\ p # k
      BY <1>1, <1>3, <2>0, <2>3
    <3>2. u[q + 1] = t[p + 1] /\ u[q] = t[p] BY <1>4, <2>0, <2>3, <3>1
    <3> HIDE DEF p
    <3>3. t[p] # a /\ t[p] # b /\ t[p] \in Links BY <1>1, <1>2, <1>3, <1>6, <3>1
    <3> QED BY <1>2, <1>7, <3>1, <3>2, <3>3
  <2>4. CASE q = i + k
    <3>1. ~(q <= i) /\ q <= i + k /\ q - i = k /\ ~(q + 1 <= i + k) /\ (q + 1) - k = i + 1
      BY <1>1, <1>3, <2>0, <2>4
    <3>2. u[q + 1] = r[i + 1] /\ u[q] = t[k] BY <1>4, <2>0, <3>1
    <3> QED BY <1>2, <1>7, <3>2
  <2>5. CASE ~(q <= i + k)
    <3> DEFINE p == q - k
    <3>1. ~(q + 1 <= i + k) /\ (q + 1) - k = p + 1 /\ p \in 1..n - 1 /\ p \in 1..n /\ p > i /\ p # n
      BY <1>1, <1>3, <2>0, <2>5
    <3>2. u[q + 1] = r[p + 1] /\ u[q] = r[p] BY <1>4, <2>0, <2>5, <3>1
    <3> HIDE DEF p
    <3>3. r[p] # a
      <4>1. CASE i = 0
        <5>1. a = r[n] /\ n \in 1..n BY <1>2, <1>3, <1>5, <4>1
        <5> QED BY <1>2, <3>1, <5>1
      <4>2. CASE i # 0
        <5>1. i \in 1..n /\ p # i BY <1>1, <1>3, <3>1, <4>2
        <5> QED BY <1>2, <1>5, <3>1, <4>2, <5>1
      <4> QED BY <4>1, <4>2
    <3>4. r[p] # b /\ r[p] \in Links BY <1>1, <1>6, <3>1
    <3> QED BY <1>2, <1>7, <3>1, <3>2, <3>3, <3>4
  <2> QED BY <1>1, <1>3, <2>0, <2>1, <2>2, <2>3, <2>4, <2>5
<1>11. ASSUME NEW p \in 1..n + k, NEW q \in 1..n + k, u[p] = u[q] PROVE p = q
  <2>1. CASE ~(p <= i) /\ p <= i + k
    <3>1. p - i \in 1..k /\ u[p] = t[p - i] BY <1>4, <2>1
    <3>2. CASE ~(q <= i) /\ q <= i + k
      <4>1. q - i \in 1..k /\ u[q] = t[q - i] BY <1>4, <3>2
      <4>2. t[p - i] = t[q - i] BY <1>11, <3>1, <4>1
      <4>3. p - i = q - i BY <1>2, <3>1, <4>1, <4>2
      <4> QED BY <1>3, <4>3
    <3>3. CASE q <= i \/ ~(q <= i + k)
      <4>1. \E x \in 1..n : u[q] = r[x] BY <1>4, <3>3
      <4> QED BY <1>11, <3>1, <4>1 DEF n, k
    <3> QED BY <3>2, <3>3
  <2>2. CASE p <= i
    <3>1. p \in 1..n /\ u[p] = r[p] BY <1>4, <2>2
    <3>2. CASE q <= i
      <4>1. q \in 1..n /\ u[q] = r[q] BY <1>4, <3>2
      <4>2. r[p] = r[q] BY <1>11, <3>1, <4>1
      <4> QED BY <1>2, <3>1, <4>1, <4>2
    <3>3. CASE ~(q <= i) /\ q <= i + k
      <4>1. q - i \in 1..k /\ u[q] = t[q - i] BY <1>4, <3>3
      <4> QED BY <1>11, <3>1, <4>1 DEF n, k
    <3>4. CASE ~(q <= i + k)
      <4>1. q - k \in 1..n /\ u[q] = r[q - k] BY <1>4, <3>4
      <4>2. p = q - k BY <1>2, <1>11, <3>1, <4>1
      <4> QED BY <1>1, <1>3, <2>2, <3>4, <4>2
    <3> QED BY <3>2, <3>3, <3>4
  <2>3. CASE ~(p <= i + k)
    <3>1. p - k \in 1..n /\ u[p] = r[p - k] BY <1>4, <2>3
    <3>2. CASE q <= i
      <4>1. q \in 1..n /\ u[q] = r[q] BY <1>4, <3>2
      <4>2. p - k = q BY <1>2, <1>11, <3>1, <4>1
      <4> QED BY <1>1, <1>3, <2>3, <3>2, <4>2
    <3>3. CASE ~(q <= i) /\ q <= i + k
      <4>1. q - i \in 1..k /\ u[q] = t[q - i] BY <1>4, <3>3
      <4> QED BY <1>11, <3>1, <4>1 DEF n, k
    <3>4. CASE ~(q <= i + k)
      <4>1. q - k \in 1..n /\ u[q] = r[q - k] BY <1>4, <3>4
      <4>2. p - k = q - k BY <1>2, <1>11, <3>1, <4>1
      <4> QED BY <1>1, <4>2
    <3> QED BY <3>2, <3>3, <3>4
  <2> QED BY <2>1, <2>2, <2>3
<1>12. u # <<>>
  <2>1. Len(u) # 0 BY <1>1, <1>4
  <2> QED BY <2>1
<1>13. Turns(next, u, h) BY <1>4, <1>8, <1>9, <1>10, <1>11, <1>12 DEF Turns
<1> QED BY <1>13 DEF next, u, a, m

(* A ring read from another of its nodes.                                   *)
Rotated(r, i) == SubSeq(r, i + 1, Len(r)) \o SubSeq(r, 1, i)

LEMMA RotatedFact ==
  ASSUME NEW r \in Seq(Links), NEW i \in 0..Len(r)
  PROVE  /\ Rotated(r, i) \in Seq(Links) /\ Len(Rotated(r, i)) = Len(r)
         /\ \A q \in 1..Len(r) :
              /\ q <= Len(r) - i => q + i \in 1..Len(r) /\ Rotated(r, i)[q] = r[q + i]
              /\ ~(q <= Len(r) - i) =>
                   q - (Len(r) - i) \in 1..Len(r) /\ Rotated(r, i)[q] = r[q - (Len(r) - i)]
<1> DEFINE one == 1
           k == i + 1
           x == SubSeq(r, k, Len(r))
           y == SubSeq(r, one, i)
<1>1. Len(r) \in Nat BY LenProperties
<1>2. /\ one \in Nat \ {0} /\ i \in Nat /\ one <= i + 1 /\ i <= Len(r)
      /\ k \in Nat \ {0} /\ Len(r) \in Nat /\ k <= Len(r) + 1 /\ Len(r) <= Len(r)
  BY <1>1
<1> HIDE DEF one, k
<1>3. y \in Seq(Links) /\ Len(y) = i - one + 1 /\ \A q \in 1..i - one + 1 : y[q] = r[one + q - 1]
  BY ONLY <1>2, r \in Seq(Links), PartFact
<1>4. x \in Seq(Links) /\ Len(x) = Len(r) - k + 1 /\ \A q \in 1..Len(r) - k + 1 : x[q] = r[k + q - 1]
  BY ONLY <1>2, r \in Seq(Links), PartFact
<1> HIDE DEF x, y
<1>5. /\ x \o y \in Seq(Links) /\ Len(x \o y) = Len(x) + Len(y)
      /\ \A q \in 1..Len(x) + Len(y) : (x \o y)[q] = IF q <= Len(x) THEN x[q] ELSE y[q - Len(x)]
  BY ONLY <1>3, <1>4, ConcatProperties
<1>6. Len(x) = Len(r) - i /\ Len(y) = i /\ Len(x) + Len(y) = Len(r)
  BY <1>1, <1>2, <1>3, <1>4 DEF one, k
<1>7. Rotated(r, i) = x \o y BY DEF Rotated, x, y, one, k
<1>8. ASSUME NEW q \in 1..Len(r)
      PROVE  /\ q <= Len(r) - i => q + i \in 1..Len(r) /\ (x \o y)[q] = r[q + i]
             /\ ~(q <= Len(r) - i) =>
                  q - (Len(r) - i) \in 1..Len(r) /\ (x \o y)[q] = r[q - (Len(r) - i)]
  <2>1. q \in 1..Len(x) + Len(y) BY <1>6
  <2>2. CASE q <= Len(r) - i
    <3>1. q \in 1..Len(r) - k + 1 /\ k + q - 1 = q + i /\ q + i \in 1..Len(r) BY <1>1, <1>2, <2>2 DEF k
    <3>2. (x \o y)[q] = x[q] BY <1>5, <1>6, <2>1, <2>2
    <3> QED BY <1>4, <2>2, <3>1, <3>2
  <2>3. CASE ~(q <= Len(r) - i)
    <3> DEFINE p == q - (Len(r) - i)
    <3>1. p \in 1..i - one + 1 /\ one + p - 1 = p /\ p \in 1..Len(r) BY <1>1, <1>2, <2>3 DEF one
    <3>2. (x \o y)[q] = y[p] BY <1>5, <1>6, <2>1, <2>3
    <3> HIDE DEF p
    <3>3. y[p] = r[p] BY <1>3, <3>1
    <3> QED BY <2>3, <3>1, <3>2, <3>3 DEF p
  <2> QED BY <2>2, <2>3
<1> QED BY <1>5, <1>6, <1>7, <1>8

LEMMA RotatedTurns ==
  ASSUME NEW next, NEW r, NEW h, Turns(next, r, h), NEW i \in 0..Len(r) - 1
  PROVE  Turns(next, Rotated(r, i), Ahead(r, i))
<1> DEFINE n == Len(r)
           u == Rotated(r, i)
           a == Ahead(r, i)
<1>1. n \in Nat \ {0} /\ r \in Seq(Links) /\ \A k \in 1..n : r[k] \in Links BY TurnsFact
<1>2. /\ r[n] = h /\ r[1] = next[h]
      /\ \A p \in 1..n - 1 : r[p + 1] = next[r[p]]
      /\ \A p, q \in 1..n : r[p] = r[q] => p = q
  BY DEF Turns
<1>3. i \in 0..n /\ i \in 0..n - 1 /\ n \in 1..n /\ i + 1 \in 1..n BY <1>1
<1>4. /\ u \in Seq(Links) /\ Len(u) = n
      /\ \A q \in 1..n : /\ q <= n - i => q + i \in 1..n /\ u[q] = r[q + i]
                         /\ ~(q <= n - i) => q - (n - i) \in 1..n /\ u[q] = r[q - (n - i)]
  BY <1>1, <1>3, RotatedFact
<1>5. (i # 0 => a = r[i]) /\ (i = 0 => a = h) BY <1>2 DEF Ahead
<1> HIDE DEF n, u, a
<1>6. u[n] = a
  <2>1. CASE i = 0
    <3>1. n <= n - i /\ n + i = n BY <1>1, <2>1
    <3> QED BY <1>2, <1>3, <1>4, <1>5, <2>1, <3>1
  <2>2. CASE i # 0
    <3>1. ~(n <= n - i) /\ n - (n - i) = i BY <1>1, <1>3, <2>2
    <3> QED BY <1>3, <1>4, <1>5, <2>2, <3>1
  <2> QED BY <2>1, <2>2
<1>7. u[1] = next[a]
  <2>1. 1 \in 1..n /\ 1 <= n - i /\ 1 + i = i + 1 BY <1>1, <1>3
  <2>2. u[1] = r[i + 1] BY <1>4, <2>1
  <2>3. CASE i = 0 BY <1>2, <1>5, <2>2, <2>3
  <2>4. CASE i # 0
    <3>1. i \in 1..n - 1 BY <1>1, <1>3, <2>4
    <3> QED BY <1>2, <1>5, <2>2, <2>4, <3>1
  <2> QED BY <2>3, <2>4
<1>8. ASSUME NEW q \in 1..n - 1 PROVE u[q + 1] = next[u[q]]
  <2>0. q \in 1..n /\ q + 1 \in 1..n BY <1>1
  <2>1. CASE q + 1 <= n - i
    <3>1. q <= n - i /\ (q + 1) + i = (q + i) + 1 /\ q + i \in 1..n - 1 BY <1>1, <1>3, <2>0, <2>1
    <3>2. u[q + 1] = r[(q + i) + 1] /\ u[q] = r[q + i] BY <1>4, <2>0, <2>1, <3>1
    <3> QED BY <1>2, <3>1, <3>2
  <2>2. CASE q = n - i
    <3>1. ~(q + 1 <= n - i) /\ (q + 1) - (n - i) = 1 /\ q <= n - i /\ q + i = n BY <1>1, <1>3, <2>0, <2>2
    <3>2. u[q + 1] = r[1] /\ u[q] = r[n] BY <1>4, <2>0, <3>1
    <3> QED BY <1>2, <3>2
  <2>3. CASE ~(q <= n - i)
    <3> DEFINE p == q - (n - i)
    <3>1. ~(q + 1 <= n - i) /\ (q + 1) - (n - i) = p + 1 /\ p \in 1..n - 1 BY <1>1, <1>3, <2>0, <2>3
    <3>2. u[q + 1] = r[p + 1] /\ u[q] = r[p] BY <1>4, <2>0, <2>3, <3>1
    <3> HIDE DEF p
    <3> QED BY <1>2, <3>1, <3>2
  <2> QED BY <1>1, <1>3, <2>0, <2>1, <2>2, <2>3
<1>9. ASSUME NEW p \in 1..n, NEW q \in 1..n, u[p] = u[q] PROVE p = q
  <2>1. CASE p <= n - i /\ q <= n - i
    <3>1. p + i \in 1..n /\ q + i \in 1..n /\ r[p + i] = r[q + i] BY <1>4, <1>9, <2>1
    <3>2. p + i = q + i BY <1>2, <3>1
    <3> QED BY <1>3, <3>2
  <2>2. CASE p <= n - i /\ ~(q <= n - i)
    <3>1. p + i \in 1..n /\ q - (n - i) \in 1..n /\ r[p + i] = r[q - (n - i)] BY <1>4, <1>9, <2>2
    <3>2. p + i = q - (n - i) BY <1>2, <3>1
    <3> QED BY <1>1, <1>3, <2>2, <3>2
  <2>3. CASE ~(p <= n - i) /\ q <= n - i
    <3>1. q + i \in 1..n /\ p - (n - i) \in 1..n /\ r[q + i] = r[p - (n - i)] BY <1>4, <1>9, <2>3
    <3>2. q + i = p - (n - i) BY <1>2, <3>1
    <3> QED BY <1>1, <1>3, <2>3, <3>2
  <2>4. CASE ~(p <= n - i) /\ ~(q <= n - i)
    <3>1. p - (n - i) \in 1..n /\ q - (n - i) \in 1..n /\ r[p - (n - i)] = r[q - (n - i)]
      BY <1>4, <1>9, <2>4
    <3>2. p - (n - i) = q - (n - i) BY <1>2, <3>1
    <3> QED BY <1>1, <1>3, <3>2
  <2> QED BY <2>1, <2>2, <2>3, <2>4
<1>10. u # <<>> BY <1>1, <1>4
<1>11. Turns(next, u, a) BY <1>4, <1>6, <1>7, <1>8, <1>9, <1>10 DEF Turns, n
<1> QED BY <1>11 DEF u, a

(* The list of h is its ring without it.                                    *)
LEMMA ListFact ==
  ASSUME NEW r, NEW next, NEW h, Turns(next, r, h)
  PROVE  /\ Front(r) \in Seq(Links) /\ Len(Front(r)) = Len(r) - 1 /\ Len(r) \in Nat \ {0}
         /\ r[Len(r)] = h /\ h \in Links
         /\ \A i \in 1..Len(r) - 1 : i \in 1..Len(r) /\ Front(r)[i] = r[i] /\ r[i] # h
<1> DEFINE one == 1
           n == Len(r)
           m == n - 1
<1>1. n \in Nat \ {0} /\ r \in Seq(Links) /\ h \in Links BY TurnsFact
<1>2. r[n] = h /\ \A i, j \in 1..n : r[i] = r[j] => i = j BY DEF Turns
<1>3. one \in Nat \ {0} /\ m \in Nat /\ one <= m + 1 /\ m <= Len(r) /\ m - one + 1 = m BY <1>1
<1>4. Front(r) = SubSeq(r, one, m) BY DEF Front
<1> HIDE DEF one, m
<1>5. /\ SubSeq(r, one, m) \in Seq(Links) /\ Len(SubSeq(r, one, m)) = m - one + 1
      /\ \A i \in 1..m - one + 1 : SubSeq(r, one, m)[i] = r[one + i - 1]
  BY ONLY <1>1, <1>3, PartFact
<1>6. ASSUME NEW i \in 1..n - 1 PROVE i \in 1..n /\ Front(r)[i] = r[i] /\ r[i] # h
  <2>1. i \in 1..m - one + 1 /\ one + i - 1 = i /\ i \in 1..n /\ n \in 1..n /\ i # n
    BY <1>1 DEF one, m
  <2> QED BY <1>2, <1>4, <1>5, <2>1
<1>7. Len(Front(r)) = n - 1 BY <1>3, <1>4, <1>5 DEF m
<1> QED BY <1>1, <1>2, <1>4, <1>5, <1>6, <1>7

LEMMA ListOfRing ==
  ASSUME NEW l, Linked(l), NEW h \in Links, NEW r, Turns(l.succ, r, h)
  PROVE  Ring(l.succ, h) = r /\ ListOf(l, h) = Front(r)
<1>1. Ring(l.succ, h) = r BY LinkedFact, RingIsRead
<1> QED BY <1>1 DEF ListOf

LEMMA RangeFact ==
  ASSUME NEW s \in Seq(Links)
  PROVE  /\ Range(s) \subseteq Links
         /\ \A m : m \in Range(s) <=> \E i \in 1..Len(s) : s[i] = m
<1>1. Range(s) = {s[i] : i \in 1..Len(s)} BY RangeEquality
<1>2. \A i \in 1..Len(s) : s[i] \in Links BY ElementOfSeq
<1> QED BY <1>1, <1>2

(* Nodes in one ring have the same ring.                                    *)
LEMMA RingsMeet ==
  ASSUME NEW l, Linked(l), NEW h \in Links, NEW n \in Range(Ring(l.succ, h))
  PROVE  n \in Links /\ Range(Ring(l.succ, n)) = Range(Ring(l.succ, h))
<1> DEFINE r == Ring(l.succ, h)
           L == Len(r)
<1>1. Turns(l.succ, r, h) BY RingTurns
<1> HIDE DEF r
<1>2. L \in Nat \ {0} /\ r \in Seq(Links) /\ r[L] = h /\ \A i \in 1..L : r[i] \in Links
  BY <1>1, TurnsFact DEF Turns
<1>3. PICK i \in 1..L : r[i] = n BY <1>2, RangeFact DEF r
<1>4. n \in Links BY <1>2, <1>3
<1>5. CASE i = L BY <1>2, <1>3, <1>4, <1>5 DEF r
<1>6. CASE i # L
  <2> DEFINE u == Rotated(r, i)
  <2>1. i \in 0..L - 1 /\ i # 0 /\ i \in 0..L BY <1>2, <1>6
  <2>2. Ahead(r, i) = n BY <1>3, <2>1 DEF Ahead
  <2>3. Turns(l.succ, u, n) BY <1>1, <2>1, <2>2, RotatedTurns
  <2>4. Ring(l.succ, n) = u BY <1>4, <2>3, ListOfRing
  <2>5. /\ u \in Seq(Links) /\ Len(u) = L
        /\ \A q \in 1..L : /\ q <= L - i => q + i \in 1..L /\ u[q] = r[q + i]
                           /\ ~(q <= L - i) => q - (L - i) \in 1..L /\ u[q] = r[q - (L - i)]
    BY <1>2, <2>1, RotatedFact
  <2> HIDE DEF u, L
  <2>6. ASSUME NEW m \in Range(u) PROVE m \in Range(r)
    <3>1. PICK q \in 1..L : u[q] = m BY <2>5, RangeFact
    <3>2. \E p \in 1..L : r[p] = m BY <2>5, <3>1
    <3> QED BY <1>2, <3>2, RangeFact DEF L
  <2>7. ASSUME NEW m \in Range(r) PROVE m \in Range(u)
    <3>1. PICK p \in 1..L : r[p] = m BY <1>2, RangeFact DEF L
    <3>2. \E q \in 1..L : u[q] = m
      <4>1. CASE p > i
        <5>1. p - i \in 1..L /\ p - i <= L - i /\ (p - i) + i = p BY <1>2, <2>1, <4>1
        <5>2. u[p - i] = r[p] BY <2>5, <5>1
        <5> QED BY <3>1, <5>1, <5>2
      <4>2. CASE ~(p > i)
        <5> DEFINE q == p + (L - i)
        <5>1. q \in 1..L /\ ~(q <= L - i) /\ q - (L - i) = p BY <1>2, <2>1, <4>2
        <5>2. u[q] = r[q - (L - i)] BY <2>5, <5>1
        <5> QED BY <3>1, <5>1, <5>2
      <4> QED BY <4>1, <4>2
    <3> QED BY <2>5, <3>2, RangeFact
  <2>8. Range(u) = Range(r) BY <2>6, <2>7
  <2> QED BY <1>4, <2>4, <2>8 DEF r
<1> QED BY <1>5, <1>6

(* So a ring has a node when it has the one before it.                      *)
LEMMA SelfInRing ==
  ASSUME NEW l, Linked(l), NEW h \in Links
  PROVE  h \in Range(Ring(l.succ, h)) /\ Range(Ring(l.succ, h)) \subseteq Links
<1> DEFINE r == Ring(l.succ, h)
<1>1. Turns(l.succ, r, h) BY RingTurns
<1> HIDE DEF r
<1>2. Len(r) \in Nat \ {0} /\ r \in Seq(Links) /\ r[Len(r)] = h BY <1>1, TurnsFact DEF Turns
<1>3. Len(r) \in 1..Len(r) BY <1>2
<1>4. h \in Range(r) /\ Range(r) \subseteq Links BY <1>2, <1>3, RangeFact
<1> QED BY <1>4 DEF r

LEMMA PredInRing ==
  ASSUME NEW l, Linked(l), NEW h \in Links, NEW x \in Links
  PROVE  /\ l.pred[x] \in Range(Ring(l.succ, h)) => x \in Range(Ring(l.succ, h))
         /\ Range(Ring(l.succ, l.pred[x])) = Range(Ring(l.succ, x))
<1> DEFINE p == l.pred[x]
           r == Ring(l.succ, p)
<1>1. p \in Links /\ l.succ[p] = x BY LinkedFact
<1>2. Turns(l.succ, r, p) BY <1>1, RingTurns
<1> HIDE DEF r
<1>3. Len(r) \in Nat \ {0} /\ r \in Seq(Links) /\ r[1] = x
  BY <1>1, <1>2, TurnsFact DEF Turns
<1>4. 1 \in 1..Len(r) BY <1>3
<1>5. x \in Range(r) BY <1>3, <1>4, RangeFact
<1>6. Range(Ring(l.succ, x)) = Range(Ring(l.succ, p)) BY <1>1, <1>5, RingsMeet DEF r
<1>7. ASSUME p \in Range(Ring(l.succ, h)) PROVE x \in Range(Ring(l.succ, h))
  <2>1. Range(Ring(l.succ, p)) = Range(Ring(l.succ, h)) BY <1>7, RingsMeet
  <2> QED BY <1>5, <2>1 DEF r
<1> QED BY <1>6, <1>7

LEMMA PlaceFact ==
  ASSUME NEW s \in Seq(Links), NEW m
  PROVE  \/ PlaceOf(s, m) = 0 /\ m \notin Range(s)
         \/ PlaceOf(s, m) \in 1..Len(s) /\ s[PlaceOf(s, m)] = m /\ m \in Range(s)
<1> DEFINE I == {i \in 1..Len(s) : s[i] = m}
<1>1. PlaceOf(s, m) = IF I # {} THEN Min(I) ELSE 0 BY DEF PlaceOf, SelectInSeq
<1>2. Len(s) \in Nat BY LenProperties
<1>3. I \subseteq Nat BY <1>2
<1>4. CASE I = {}
  <2>1. m \notin Range(s) BY <1>4, RangeFact
  <2> QED BY <1>1, <1>4, <2>1
<1>5. CASE I # {}
  <2> HIDE DEF I
  <2>1. PICK x \in I : \A y \in I : x <= y BY <1>3, <1>5, Smallest
  <2>2. Min(I) \in I BY <2>1 DEF Min
  <2>3. Min(I) \in 1..Len(s) /\ s[Min(I)] = m BY <2>2 DEF I
  <2>4. m \in Range(s) BY <2>3, RangeFact
  <2> QED BY <1>1, <1>5, <2>3, <2>4
<1> QED BY <1>4, <1>5

LEMMA PlaceIs ==
  ASSUME NEW next, NEW r, NEW h, Turns(next, r, h), NEW i \in 1..Len(r) - 1
  PROVE  PlaceOf(Front(r), r[i]) = i
<1> DEFINE s == Front(r)
           k == PlaceOf(s, r[i])
<1>1. /\ s \in Seq(Links) /\ Len(s) = Len(r) - 1 /\ Len(r) \in Nat \ {0}
      /\ \A j \in 1..Len(r) - 1 : j \in 1..Len(r) /\ s[j] = r[j]
  BY ListFact
<1>2. \A p, q \in 1..Len(r) : r[p] = r[q] => p = q BY DEF Turns
<1> HIDE DEF s
<1>3. s[i] = r[i] /\ i \in 1..Len(s) BY <1>1
<1>4. r[i] \in Range(s) BY <1>1, <1>3, RangeFact
<1>5. k \in 1..Len(s) /\ s[k] = r[i] BY <1>1, <1>4, PlaceFact
<1> HIDE DEF k
<1>6. k \in 1..Len(r) /\ r[k] = r[i] /\ i \in 1..Len(r) BY <1>1, <1>5
<1>7. k = i BY <1>2, <1>6
<1> QED BY <1>7 DEF s, k

LEMMA FrontElements ==
  ASSUME NEW s \in Seq(Links), s # <<>>
  PROVE  /\ Front(s) \in Seq(Links) /\ Len(s) \in Nat \ {0} /\ Len(Front(s)) = Len(s) - 1
         /\ \A i \in 1..Len(s) - 1 : Front(s)[i] = s[i]
<1> DEFINE one == 1
           m == Len(s) - 1
<1>1. Len(s) \in Nat \ {0} BY EmptySeq
<1>2. one \in Nat \ {0} /\ m \in Nat /\ one <= m + 1 /\ m <= Len(s) /\ m - one + 1 = m BY <1>1
<1>3. Front(s) = SubSeq(s, one, m) BY DEF Front
<1> HIDE DEF one, m
<1>4. /\ SubSeq(s, one, m) \in Seq(Links) /\ Len(SubSeq(s, one, m)) = m - one + 1
      /\ \A i \in 1..m - one + 1 : SubSeq(s, one, m)[i] = s[one + i - 1]
  BY ONLY s \in Seq(Links), <1>2, PartFact
<1>5. ASSUME NEW i \in 1..Len(s) - 1 PROVE Front(s)[i] = s[i]
  <2>1. i \in 1..m - one + 1 /\ one + i - 1 = i BY <1>1 DEF one, m
  <2> QED BY <1>3, <1>4, <2>1
<1>6. Len(Front(s)) = Len(s) - 1 BY <1>2, <1>3, <1>4 DEF m
<1> QED BY <1>1, <1>3, <1>4, <1>5, <1>6

LEMMA FrontOfRest ==
  ASSUME NEW r \in Seq(Links), r # <<>>, NEW i \in Nat, NEW j \in i + 1..Len(r) - 1
  PROVE  Front(Rest(r, i, j)) = Rest(Front(r), i, j)
<1> DEFINE s == Front(r)
           u == Rest(r, i, j)
           f == Front(u)
           w == Rest(s, i, j)
           n == Len(r)
<1>1. /\ s \in Seq(Links) /\ n \in Nat \ {0} /\ Len(s) = n - 1
      /\ \A q \in 1..n - 1 : s[q] = r[q]
  BY FrontElements
<1> HIDE DEF s
<1>2. j \in i..n /\ j \in i..Len(s) BY <1>1
<1>3. /\ u \in Seq(Links) /\ Len(u) = n - (j - i)
      /\ \A q \in 1..n - (j - i) : /\ q <= i => q \in 1..n /\ u[q] = r[q]
                                   /\ ~(q <= i) => q + (j - i) \in 1..n /\ u[q] = r[q + (j - i)]
  BY <1>2, RestFact
<1>4. /\ w \in Seq(Links) /\ Len(w) = Len(s) - (j - i)
      /\ \A q \in 1..Len(s) - (j - i) :
           /\ q <= i => q \in 1..Len(s) /\ w[q] = s[q]
           /\ ~(q <= i) => q + (j - i) \in 1..Len(s) /\ w[q] = s[q + (j - i)]
  BY <1>1, <1>2, RestFact
<1> HIDE DEF u, w, n
<1>5. u # <<>>
  <2>1. Len(u) # 0 BY <1>1, <1>2, <1>3
  <2> QED BY <2>1
<1>6. /\ f \in Seq(Links) /\ Len(f) = Len(u) - 1 /\ \A q \in 1..Len(u) - 1 : f[q] = u[q]
  BY <1>3, <1>5, FrontElements
<1> HIDE DEF f
<1>7. Len(f) = Len(w) /\ Len(f) \in Nat
  <2> DEFINE d == j - i
  <2>1. d \in Nat /\ d <= n - 1 BY <1>1, <1>2
  <2> HIDE DEF d
  <2>2. Len(f) = (n - d) - 1 /\ Len(w) = (n - 1) - d BY <1>1, <1>3, <1>4, <1>6 DEF d
  <2> QED BY <1>1, <2>1, <2>2
<1>8. ASSUME NEW q \in 1..Len(f) PROVE f[q] = w[q]
  <2>1. q \in 1..Len(u) - 1 /\ q \in 1..n - (j - i) /\ q \in 1..Len(s) - (j - i)
    BY <1>1, <1>2, <1>3, <1>4, <1>6, <1>7
  <2>2. f[q] = u[q] BY <1>6, <2>1
  <2>3. CASE q <= i
    <3>1. u[q] = r[q] /\ w[q] = s[q] /\ q \in 1..n - 1 BY <1>1, <1>3, <1>4, <2>1, <2>3
    <3> QED BY <1>1, <2>2, <3>1
  <2>4. CASE ~(q <= i)
    <3>1. u[q] = r[q + (j - i)] /\ w[q] = s[q + (j - i)] /\ q + (j - i) \in 1..n - 1
      BY <1>1, <1>3, <1>4, <2>1, <2>4
    <3> QED BY <1>1, <2>2, <3>1
  <2> QED BY <2>3, <2>4
<1>9. f = w BY <1>4, <1>6, <1>7, <1>8, SeqEqual
<1> QED BY <1>9 DEF f, u, w, s

LEMMA FrontOfWith ==
  ASSUME NEW r \in Seq(Links), r # <<>>, NEW p \in 1..Len(r), NEW t \in Seq(Links)
  PROVE  Front(With(r, p, t)) = With(Front(r), p, t)
<1> DEFINE s == Front(r)
           u == With(r, p, t)
           f == Front(u)
           w == With(s, p, t)
           n == Len(r)
           k == Len(t)
<1>1. /\ s \in Seq(Links) /\ n \in Nat \ {0} /\ Len(s) = n - 1
      /\ \A q \in 1..n - 1 : s[q] = r[q]
  BY FrontElements
<1>2. k \in Nat BY LenProperties
<1> HIDE DEF s
<1>3. p \in 1..Len(r) + 1 /\ p \in 1..Len(s) + 1 BY <1>1
<1>4. /\ u \in Seq(Links) /\ Len(u) = n + k
      /\ \A q \in 1..n + k : u[q] = IF q < p THEN r[q] ELSE IF q < p + k THEN t[q - p + 1] ELSE r[q - k]
  BY <1>3, WithFact
<1>5. /\ w \in Seq(Links) /\ Len(w) = Len(s) + k
      /\ \A q \in 1..Len(s) + k :
           w[q] = IF q < p THEN s[q] ELSE IF q < p + k THEN t[q - p + 1] ELSE s[q - k]
  <2> HIDE DEF n, k, u
  <2>1. s \in Seq(Links) /\ t \in Seq(Links) /\ p \in 1..Len(s) + 1 BY <1>1, <1>3
  <2>2. /\ With(s, p, t) \in Seq(Links) /\ Len(With(s, p, t)) = Len(s) + Len(t)
        /\ \A q \in 1..Len(s) + Len(t) :
             With(s, p, t)[q] = IF q < p THEN s[q]
                                ELSE IF q < p + Len(t) THEN t[q - p + 1] ELSE s[q - Len(t)]
    BY ONLY <2>1, WithFact
  <2> QED BY <2>2 DEF k
<1> HIDE DEF u, w, n, k
<1>6. u # <<>>
  <2>1. Len(u) # 0 BY <1>1, <1>2, <1>4
  <2> QED BY <2>1
<1>7. /\ f \in Seq(Links) /\ Len(f) = Len(u) - 1 /\ \A q \in 1..Len(u) - 1 : f[q] = u[q]
  BY <1>4, <1>6, FrontElements
<1> HIDE DEF f
<1>8. Len(f) = Len(w) /\ Len(f) = n + k - 1 /\ Len(u) = n + k /\ Len(s) = n - 1 /\ n \in Nat /\ p \in 1..n
  <2>1. p \in 1..n BY DEF n
  <2>2. Len(u) = n + k /\ Len(s) = n - 1 /\ n \in Nat BY <1>1, <1>4
  <2>3. Len(f) = Len(u) - 1 /\ Len(w) = Len(s) + k BY <1>5, <1>7
  <2> QED BY <1>2, <2>1, <2>2, <2>3
<1>9. ASSUME NEW q \in 1..Len(f) PROVE f[q] = w[q]
  <2>1. q \in 1..Len(u) - 1 /\ q \in 1..n + k /\ q \in 1..Len(s) + k
    BY <1>2, <1>8
  <2>2. f[q] = u[q] BY <1>7, <2>1
  <2>3. CASE q < p
    <3>1. u[q] = r[q] /\ w[q] = s[q] /\ q \in 1..n - 1
      <4>1. q \in 1..n - 1 BY <1>8, <2>3
      <4> QED BY <1>4, <1>5, <2>1, <2>3, <4>1
    <3> QED BY <1>1, <2>2, <3>1
  <2>4. CASE ~(q < p) /\ q < p + k
    <3>1. u[q] = t[q - p + 1] /\ w[q] = t[q - p + 1] BY <1>4, <1>5, <2>1, <2>4
    <3> QED BY <2>2, <3>1
  <2>5. CASE ~(q < p + k)
    <3>1. ~(q < p) /\ q - k \in 1..n - 1 BY <1>2, <1>8, <2>5
    <3>2. u[q] = r[q - k] /\ w[q] = s[q - k] BY <1>4, <1>5, <2>1, <2>5, <3>1
    <3> QED BY <1>1, <2>2, <3>1, <3>2
  <2> QED BY <2>3, <2>4, <2>5
<1>10. f = w BY <1>5, <1>7, <1>8, <1>9, SeqEqual
<1> QED BY <1>10 DEF f, u, w, s

LEMMA TakenOutIs ==
  ASSUME NEW next, NEW r, NEW h, Turns(next, r, h), NEW i \in Nat, NEW j \in i + 1..Len(r) - 1
  PROVE  TakenOut(Front(r), r[i + 1], j - i) = Front(Rest(r, i, j))
<1> DEFINE s == Front(r)
           k == i + 1
<1>1. Len(r) \in Nat \ {0} /\ r \in Seq(Links) /\ r # <<>> BY TurnsFact DEF Turns
<1>2. k \in 1..Len(r) - 1 /\ k # 0 /\ k - 1 = i /\ k + (j - i) = j + 1 BY <1>1
<1> HIDE DEF k
<1>3. PlaceOf(s, r[k]) = k BY <1>2, PlaceIs
<1> HIDE DEF s
<1>4. TakenOut(s, r[k], j - i) = SubSeq(s, 1, k - 1) \o SubSeq(s, k + (j - i), Len(s))
  BY <1>2, <1>3 DEF TakenOut
<1>5. TakenOut(s, r[k], j - i) = Rest(s, i, j) BY <1>2, <1>4 DEF Rest
<1>6. Front(Rest(r, i, j)) = Rest(Front(r), i, j) BY <1>1, FrontOfRest
<1> QED BY <1>5, <1>6 DEF s, k

LEMMA BeforeIs ==
  ASSUME NEW next, NEW r, NEW h, Turns(next, r, h), NEW p \in 1..Len(r), NEW t \in Seq(Links)
  PROVE  Before(Front(r), r[p], t) = Front(With(r, p, t))
<1> DEFINE s == Front(r)
<1>1. /\ s \in Seq(Links) /\ Len(s) = Len(r) - 1 /\ Len(r) \in Nat \ {0}
      /\ r[Len(r)] = h /\ \A j \in 1..Len(r) - 1 : s[j] = r[j] /\ r[j] # h
  BY ListFact
<1>2. r \in Seq(Links) /\ r # <<>> BY DEF Turns
<1>3. Before(s, r[p], t) = With(s, p, t)
  <2>1. (IF PlaceOf(s, r[p]) = 0 THEN Len(s) + 1 ELSE PlaceOf(s, r[p])) = p
    <3>1. CASE p = Len(r)
      <4> HIDE DEF s
      <4>1. h \notin Range(s)
        <5>1. \A j \in 1..Len(s) : s[j] # h BY <1>1
        <5> QED BY <1>1, <5>1, RangeFact
      <4>2. PlaceOf(s, h) = 0 BY <1>1, <4>1, PlaceFact
      <4> QED BY <1>1, <3>1, <4>2
    <3>2. CASE p # Len(r)
      <4>1. p \in 1..Len(r) - 1 /\ p # 0 BY <1>1, <3>2
      <4>2. PlaceOf(s, r[p]) = p BY <4>1, PlaceIs
      <4> QED BY <4>1, <4>2
    <3> QED BY <3>1, <3>2
  <2> HIDE DEF s
  <2> QED BY <2>1 DEF Before, With
<1>4. Front(With(r, p, t)) = With(Front(r), p, t) BY <1>2, FrontOfWith
<1> QED BY <1>3, <1>4 DEF s

(* The calls in these terms.                                                *)
LEMMA SetFact ==
  ASSUME NEW l \in [succ : [Links -> Links], pred : [Links -> Links]], NEW n \in Links, NEW m \in Links
  PROVE  /\ SetSucc(l, n, m) = [succ |-> [l.succ EXCEPT ![n] = m], pred |-> l.pred]
         /\ SetPred(l, n, m) = [succ |-> l.succ, pred |-> [l.pred EXCEPT ![n] = m]]
         /\ SetSucc(l, n, m) \in [succ : [Links -> Links], pred : [Links -> Links]]
         /\ SetPred(l, n, m) \in [succ : [Links -> Links], pred : [Links -> Links]]
BY DEF SetSucc, SetPred

LEMMA RemovedIs ==
  ASSUME NEW l, Linked(l), NEW n \in Links
  PROVE  Removed(l, n) = Crossed(l, l.pred[n], n)
<1> DEFINE s == l.succ[n]
           p == l.pred[n]
           l1 == SetSucc(l, p, s)
           l2 == SetPred(l1, s, p)
           l3 == SetSucc(l2, n, n)
           l4 == SetPred(l3, n, n)
           x == Crossed(l, p, n)
<1>0. l \in [succ : [Links -> Links], pred : [Links -> Links]] BY DEF Linked
<1>1. /\ s \in Links /\ p \in Links /\ l.succ[p] = n
  BY LinkedFact
<1>2. Removed(l, n) = l4 BY DEF Removed
<1>3. /\ x.succ = [m \in Links |-> IF m = n THEN l.succ[p] ELSE IF m = p THEN l.succ[n] ELSE l.succ[m]]
      /\ x.pred = [m \in Links |-> IF m = l.succ[p] THEN n ELSE IF m = l.succ[n] THEN p ELSE l.pred[m]]
      /\ x = [succ |-> x.succ, pred |-> x.pred]
  BY DEF Crossed
<1> HIDE DEF x, s, p
<1>4. l1 = [succ |-> [l.succ EXCEPT ![p] = s], pred |-> l.pred] /\ l1 \in [succ : [Links -> Links], pred : [Links -> Links]]
  BY <1>0, <1>1, SetFact
<1> HIDE DEF l1
<1>5. l2 = [succ |-> l1.succ, pred |-> [l1.pred EXCEPT ![s] = p]] /\ l2 \in [succ : [Links -> Links], pred : [Links -> Links]]
  <2>1. l1 \in [succ : [Links -> Links], pred : [Links -> Links]] BY <1>4
  <2>2. s \in Links /\ p \in Links BY <1>1
  <2> QED BY ONLY <2>2, <2>1, n \in Links DEF l2, SetSucc, SetPred
<1> HIDE DEF l2
<1>6. l3 = [succ |-> [l2.succ EXCEPT ![n] = n], pred |-> l2.pred] /\ l3 \in [succ : [Links -> Links], pred : [Links -> Links]]
  <2>1. l2 \in [succ : [Links -> Links], pred : [Links -> Links]] BY <1>5
  <2>2. s \in Links /\ p \in Links BY <1>1
  <2> QED BY ONLY <2>2, <2>1, n \in Links DEF l3, SetSucc, SetPred
<1> HIDE DEF l3
<1>7. l4 = [succ |-> l3.succ, pred |-> [l3.pred EXCEPT ![n] = n]] /\ l4 \in [succ : [Links -> Links], pred : [Links -> Links]]
  <2>1. l3 \in [succ : [Links -> Links], pred : [Links -> Links]] BY <1>6
  <2>2. s \in Links /\ p \in Links BY <1>1
  <2> QED BY ONLY <2>2, <2>1, n \in Links DEF l4, SetSucc, SetPred
<1> HIDE DEF l4
<1>8. l4.succ = [[l.succ EXCEPT ![p] = s] EXCEPT ![n] = n] BY <1>4, <1>5, <1>6, <1>7
<1>9. l4.pred = [[l.pred EXCEPT ![s] = p] EXCEPT ![n] = n] BY <1>4, <1>5, <1>6, <1>7
<1>10. l4.succ = x.succ
  <2>1. \A m \in Links : l4.succ[m] = x.succ[m] BY <1>0, <1>1, <1>3, <1>8 DEF s
  <2>2. l4.succ \in [Links -> Links] /\ DOMAIN x.succ = Links /\ x.succ = [m \in Links |-> x.succ[m]]
    BY <1>3, <1>7
  <2> QED BY <2>1, <2>2
<1>11. l4.pred = x.pred
  <2>1. \A m \in Links : l4.pred[m] = x.pred[m] BY <1>0, <1>1, <1>3, <1>9 DEF s
  <2>2. l4.pred \in [Links -> Links] /\ DOMAIN x.pred = Links /\ x.pred = [m \in Links |-> x.pred[m]]
    BY <1>3, <1>7
  <2> QED BY <2>1, <2>2
<1>12. l4 = [succ |-> l4.succ, pred |-> l4.pred] BY <1>7
<1>13. l4 = x BY <1>3, <1>10, <1>11, <1>12
<1> QED BY <1>2, <1>13 DEF x, p

LEMMA NodeInsertedIs ==
  ASSUME NEW l, Linked(l), NEW this \in Links, NEW n \in Links
  PROVE  NodeInserted(l, this, n) = Crossed(l, l.pred[this], n)
<1> DEFINE s == l.succ[n]
           p == l.pred[this]
           l1 == SetPred(l, s, p)
           l2 == SetSucc(l1, p, s)
           l3 == SetSucc(l2, n, this)
           l4 == SetPred(l3, this, n)
           x == Crossed(l, p, n)
<1>0. l \in [succ : [Links -> Links], pred : [Links -> Links]] BY DEF Linked
<1>1. /\ s \in Links /\ p \in Links /\ l.succ[p] = this
  BY LinkedFact
<1>2. NodeInserted(l, this, n) = l4 BY DEF NodeInserted
<1>3. /\ x.succ = [m \in Links |-> IF m = n THEN l.succ[p] ELSE IF m = p THEN l.succ[n] ELSE l.succ[m]]
      /\ x.pred = [m \in Links |-> IF m = l.succ[p] THEN n ELSE IF m = l.succ[n] THEN p ELSE l.pred[m]]
      /\ x = [succ |-> x.succ, pred |-> x.pred]
  BY DEF Crossed
<1> HIDE DEF x, s, p
<1>4. l1 = [succ |-> l.succ, pred |-> [l.pred EXCEPT ![s] = p]] /\ l1 \in [succ : [Links -> Links], pred : [Links -> Links]]
  BY <1>0, <1>1, SetFact
<1> HIDE DEF l1
<1>5. l2 = [succ |-> [l1.succ EXCEPT ![p] = s], pred |-> l1.pred] /\ l2 \in [succ : [Links -> Links], pred : [Links -> Links]]
  <2>1. l1 \in [succ : [Links -> Links], pred : [Links -> Links]] BY <1>4
  <2>2. s \in Links /\ p \in Links BY <1>1
  <2> QED BY ONLY <2>2, <2>1, this \in Links, n \in Links DEF l2, SetSucc, SetPred
<1> HIDE DEF l2
<1>6. l3 = [succ |-> [l2.succ EXCEPT ![n] = this], pred |-> l2.pred] /\ l3 \in [succ : [Links -> Links], pred : [Links -> Links]]
  <2>1. l2 \in [succ : [Links -> Links], pred : [Links -> Links]] BY <1>5
  <2>2. s \in Links /\ p \in Links BY <1>1
  <2> QED BY ONLY <2>2, <2>1, this \in Links, n \in Links DEF l3, SetSucc, SetPred
<1> HIDE DEF l3
<1>7. l4 = [succ |-> l3.succ, pred |-> [l3.pred EXCEPT ![this] = n]] /\ l4 \in [succ : [Links -> Links], pred : [Links -> Links]]
  <2>1. l3 \in [succ : [Links -> Links], pred : [Links -> Links]] BY <1>6
  <2>2. s \in Links /\ p \in Links BY <1>1
  <2> QED BY ONLY <2>2, <2>1, this \in Links, n \in Links DEF l4, SetSucc, SetPred
<1> HIDE DEF l4
<1>8. l4.succ = [[l.succ EXCEPT ![p] = s] EXCEPT ![n] = this] BY <1>4, <1>5, <1>6, <1>7
<1>9. l4.pred = [[l.pred EXCEPT ![s] = p] EXCEPT ![this] = n] BY <1>4, <1>5, <1>6, <1>7
<1>10. l4.succ = x.succ
  <2>1. \A m \in Links : l4.succ[m] = x.succ[m] BY <1>0, <1>1, <1>3, <1>8 DEF s
  <2>2. l4.succ \in [Links -> Links] /\ DOMAIN x.succ = Links /\ x.succ = [m \in Links |-> x.succ[m]]
    BY <1>3, <1>7
  <2> QED BY <2>1, <2>2
<1>11. l4.pred = x.pred
  <2>1. \A m \in Links : l4.pred[m] = x.pred[m] BY <1>0, <1>1, <1>3, <1>9 DEF s
  <2>2. l4.pred \in [Links -> Links] /\ DOMAIN x.pred = Links /\ x.pred = [m \in Links |-> x.pred[m]]
    BY <1>3, <1>7
  <2> QED BY <2>1, <2>2
<1>12. l4 = [succ |-> l4.succ, pred |-> l4.pred] BY <1>7
<1>13. l4 = x BY <1>3, <1>10, <1>11, <1>12
<1> QED BY <1>2, <1>13 DEF x, p

LEMMA LonelyIsOut ==
  ASSUME NEW l, Linked(l), NEW n \in Links
  PROVE  Lonely(l, n) => Removed(l, n) = l
<1> SUFFICES ASSUME l.succ[n] = n PROVE Removed(l, n) = l BY DEF Lonely
<1>1. l.pred[n] = n BY LinkedFact
<1> DEFINE x == Crossed(l, n, n)
<1>2. x = [succ |-> [m \in Links |-> l.succ[m]], pred |-> [m \in Links |-> l.pred[m]]]
  <2>1. \A m \in Links : m = n => l.pred[m] = n BY <1>1
  <2>2. [m \in Links |-> IF m = n THEN l.succ[n] ELSE IF m = n THEN l.succ[n] ELSE l.succ[m]]
        = [m \in Links |-> l.succ[m]]
    OBVIOUS
  <2>3. [m \in Links |-> IF m = l.succ[n] THEN n ELSE IF m = l.succ[n] THEN n ELSE l.pred[m]]
        = [m \in Links |-> l.pred[m]]
    BY <2>1
  <2> QED BY <2>2, <2>3 DEF Crossed
<1>3. x = l BY <1>2 DEF Linked
<1> QED BY <1>1, <1>3, RemovedIs

LEMMA InsertedIs ==
  ASSUME NEW l, Linked(l), NEW position \in Links, NEW x \in Links, x # position
  PROVE  Inserted(l, position, x) = NodeInserted(Removed(l, x), position, x)
<1> DEFINE out == Removed(l, x)
<1>1. (IF Lonely(l, x) THEN l ELSE Removed(l, x)) = out BY LonelyIsOut
<1>2. out.succ[x] = x
  <2>1. out = Crossed(l, l.pred[x], x) BY RemovedIs
  <2>2. l.succ[l.pred[x]] = x BY LinkedFact
  <2> QED BY <2>1, <2>2 DEF Crossed
<1>3. Inserted(l, position, x) =
        SetPred(SetSucc(SetSucc(SetPred(out, x, out.pred[position]), out.pred[position], x), x, position), position, x)
  <2> HIDE DEF out
  <2> QED BY <1>1 DEF Inserted
<1> HIDE DEF out
<1>4. NodeInserted(out, position, x) =
        SetPred(SetSucc(SetSucc(SetPred(out, x, out.pred[position]), out.pred[position], x), x, position), position, x)
  BY <1>2 DEF NodeInserted
<1> QED BY <1>3, <1>4 DEF out

LEMMA SplicedIs ==
  ASSUME NEW l, Linked(l), NEW pos \in Links, NEW start \in Links, NEW end \in Links, start # end, pos # start
  PROVE  Spliced(l, pos, start, end) = NodeInserted(Crossed(l, l.pred[start], l.pred[end]), pos, l.pred[end])
<1> DEFINE tail == l.pred[end]
           before == l.pred[start]
           l1 == SetPred(l, end, before)
           l2 == SetSucc(l1, before, end)
           p == l2.pred[pos]
           l3 == SetPred(l2, start, p)
           l4 == SetSucc(l3, p, start)
           l5 == SetPred(l4, pos, tail)
           l6 == SetSucc(l5, tail, pos)
           c == Crossed(l, before, tail)
           x == Crossed(c, c.pred[pos], tail)
<1>0. l \in [succ : [Links -> Links], pred : [Links -> Links]] BY DEF Linked
<1>1. /\ tail \in Links /\ before \in Links /\ l.succ[tail] = end /\ l.succ[before] = start
      /\ \A m \in Links : l.succ[m] \in Links /\ l.pred[m] \in Links
      /\ l.pred[end] = tail /\ l.pred[start] = before
  BY LinkedFact
<1>2. Spliced(l, pos, start, end) = l6 BY DEF Spliced
<1>3. /\ c.succ = [m \in Links |-> IF m = tail THEN start ELSE IF m = before THEN end ELSE l.succ[m]]
      /\ c.pred = [m \in Links |-> IF m = start THEN tail ELSE IF m = end THEN before ELSE l.pred[m]]
  BY <1>1 DEF Crossed
<1>4. Linked(c) BY <1>1, CrossedLinked
<1>5. NodeInserted(c, pos, tail) = x BY <1>1, <1>4, NodeInsertedIs
<1>6. /\ x.succ = [m \in Links |-> IF m = tail THEN c.succ[c.pred[pos]] ELSE IF m = c.pred[pos] THEN c.succ[tail] ELSE c.succ[m]]
      /\ x.pred = [m \in Links |-> IF m = c.succ[c.pred[pos]] THEN tail ELSE IF m = c.succ[tail] THEN c.pred[pos] ELSE c.pred[m]]
      /\ x = [succ |-> x.succ, pred |-> x.pred]
  <2> HIDE DEF c
  <2> QED BY DEF Crossed
<1>7. c.succ[c.pred[pos]] = pos /\ c.pred[pos] \in Links BY <1>4, LinkedFact
<1> HIDE DEF x, c, tail, before
<1>8. l1 = [succ |-> l.succ, pred |-> [l.pred EXCEPT ![end] = before]] /\ l1 \in [succ : [Links -> Links], pred : [Links -> Links]]
  <2>1. l \in [succ : [Links -> Links], pred : [Links -> Links]] BY <1>0
  <2>2. end \in Links /\ before \in Links BY <1>1
  <2> QED BY ONLY <2>1, <2>2 DEF l1, SetPred
<1> HIDE DEF l1
<1>9. l2 = [succ |-> [l1.succ EXCEPT ![before] = end], pred |-> l1.pred] /\ l2 \in [succ : [Links -> Links], pred : [Links -> Links]]
  <2>1. l1 \in [succ : [Links -> Links], pred : [Links -> Links]] BY <1>8
  <2>2. before \in Links /\ end \in Links BY <1>1
  <2> QED BY ONLY <2>1, <2>2 DEF l2, SetSucc
<1> HIDE DEF l2
<1>10. p \in Links BY <1>9
<1> HIDE DEF p
<1>11. l3 = [succ |-> l2.succ, pred |-> [l2.pred EXCEPT ![start] = p]] /\ l3 \in [succ : [Links -> Links], pred : [Links -> Links]]
  <2>1. l2 \in [succ : [Links -> Links], pred : [Links -> Links]] BY <1>9
  <2>2. start \in Links /\ p \in Links BY <1>10
  <2> QED BY ONLY <2>1, <2>2 DEF l3, SetPred
<1> HIDE DEF l3
<1>12. l4 = [succ |-> [l3.succ EXCEPT ![p] = start], pred |-> l3.pred] /\ l4 \in [succ : [Links -> Links], pred : [Links -> Links]]
  <2>1. l3 \in [succ : [Links -> Links], pred : [Links -> Links]] BY <1>11
  <2>2. p \in Links /\ start \in Links BY <1>10
  <2> QED BY ONLY <2>1, <2>2 DEF l4, SetSucc
<1> HIDE DEF l4
<1>13. l5 = [succ |-> l4.succ, pred |-> [l4.pred EXCEPT ![pos] = tail]] /\ l5 \in [succ : [Links -> Links], pred : [Links -> Links]]
  <2>1. l4 \in [succ : [Links -> Links], pred : [Links -> Links]] BY <1>12
  <2>2. pos \in Links /\ tail \in Links BY <1>1
  <2> QED BY ONLY <2>1, <2>2 DEF l5, SetPred
<1> HIDE DEF l5
<1>14. l6 = [succ |-> [l5.succ EXCEPT ![tail] = pos], pred |-> l5.pred] /\ l6 \in [succ : [Links -> Links], pred : [Links -> Links]]
  <2>1. l5 \in [succ : [Links -> Links], pred : [Links -> Links]] BY <1>13
  <2>2. tail \in Links /\ pos \in Links BY <1>1
  <2> QED BY ONLY <2>1, <2>2 DEF l6, SetSucc
<1> HIDE DEF l6
<1>15. p = c.pred[pos]
  <2>1. l2.pred = [l.pred EXCEPT ![end] = before] BY <1>8, <1>9
  <2> QED BY <2>1, <1>0, <1>1, <1>3 DEF p
<1>16. l6.succ = [[[l.succ EXCEPT ![before] = end] EXCEPT ![p] = start] EXCEPT ![tail] = pos]
  BY <1>8, <1>9, <1>11, <1>12, <1>13, <1>14
<1>17. l6.pred = [[[l.pred EXCEPT ![end] = before] EXCEPT ![start] = p] EXCEPT ![pos] = tail]
  BY <1>8, <1>9, <1>11, <1>12, <1>13, <1>14
<1>18. l6.succ = x.succ
  <2>1. \A m \in Links : x.succ[m] = IF m = tail THEN pos ELSE IF m = p THEN start ELSE IF m = before THEN end ELSE l.succ[m]
    BY <1>1, <1>3, <1>6, <1>7, <1>15
  <2>2. \A m \in Links : l6.succ[m] = IF m = tail THEN pos ELSE IF m = p THEN start ELSE IF m = before THEN end ELSE l.succ[m]
    BY <1>0, <1>1, <1>10, <1>16
  <2>3. l6.succ \in [Links -> Links] /\ DOMAIN x.succ = Links /\ x.succ = [m \in Links |-> x.succ[m]]
    BY <1>6, <1>14
  <2> QED BY <2>1, <2>2, <2>3
<1>19. l6.pred = x.pred
  <2>1. \A m \in Links : x.pred[m] = IF m = pos THEN tail ELSE IF m = start THEN p ELSE IF m = end THEN before ELSE l.pred[m]
    <3>1. c.succ[tail] = start BY <1>1, <1>3
    <3> QED BY <1>1, <1>3, <1>6, <1>7, <1>15, <3>1
  <2>2. \A m \in Links : l6.pred[m] = IF m = pos THEN tail ELSE IF m = start THEN p ELSE IF m = end THEN before ELSE l.pred[m]
    BY <1>0, <1>1, <1>10, <1>17
  <2>3. l6.pred \in [Links -> Links] /\ DOMAIN x.pred = Links /\ x.pred = [m \in Links |-> x.pred[m]]
    BY <1>6, <1>14
  <2> QED BY <2>1, <2>2, <2>3
<1>20. l6 = [succ |-> l6.succ, pred |-> l6.pred] BY <1>14
<1>21. l6 = x BY <1>6, <1>18, <1>19, <1>20
<1> QED BY <1>2, <1>5, <1>21 DEF c, tail, before

(* What a part of a ring, and a ring that took one in, has.                 *)
LEMMA PartRange ==
  ASSUME NEW r \in Seq(Links), NEW i \in Nat, NEW j \in i..Len(r)
  PROVE  /\ SubSeq(r, i + 1, j) \in Seq(Links) /\ Len(SubSeq(r, i + 1, j)) = j - i
         /\ \A m : m \in Range(SubSeq(r, i + 1, j)) <=> \E q \in 1..Len(r) : i < q /\ q <= j /\ r[q] = m
<1> DEFINE k == i + 1
           t == SubSeq(r, k, j)
<1>1. Len(r) \in Nat BY LenProperties
<1>2. k \in Nat \ {0} /\ j \in Nat /\ k <= j + 1 /\ j <= Len(r) /\ j - k + 1 = j - i BY <1>1
<1> HIDE DEF k
<1>3. /\ t \in Seq(Links) /\ Len(t) = j - k + 1 /\ \A q \in 1..j - k + 1 : t[q] = r[k + q - 1]
  BY ONLY r \in Seq(Links), <1>2, PartFact
<1> HIDE DEF t
<1>4. \A m : m \in Range(t) <=> \E q \in 1..Len(t) : t[q] = m BY <1>3, RangeFact
<1>5. \A q \in 1..j - i : q + i \in 1..Len(r) /\ i < q + i /\ q + i <= j /\ t[q] = r[q + i]
  <2> TAKE q \in 1..j - i
  <2>1. q + i \in 1..Len(r) /\ i < q + i /\ q + i <= j /\ k + q - 1 = q + i BY <1>1 DEF k
  <2> QED BY <1>2, <1>3, <2>1
<1>6. ASSUME NEW q \in 1..Len(r), i < q, q <= j PROVE q - i \in 1..j - i /\ t[q - i] = r[q]
  <2>1. q - i \in 1..j - i /\ (q - i) + i = q BY <1>1, <1>6
  <2> QED BY <1>5, <2>1
<1>7. Len(t) = j - i BY <1>2, <1>3
<1>8. ASSUME NEW m PROVE m \in Range(t) <=> \E q \in 1..Len(r) : i < q /\ q <= j /\ r[q] = m
  <2>1. ASSUME m \in Range(t) PROVE \E q \in 1..Len(r) : i < q /\ q <= j /\ r[q] = m
    <3>1. PICK q \in 1..j - i : t[q] = m BY <1>4, <1>7, <2>1
    <3>2. q + i \in 1..Len(r) /\ i < q + i /\ q + i <= j /\ r[q + i] = m BY <1>5, <3>1
    <3> QED BY <3>2
  <2>2. ASSUME NEW q \in 1..Len(r), i < q, q <= j, r[q] = m PROVE m \in Range(t)
    <3>1. q - i \in 1..j - i /\ t[q - i] = m BY <1>6, <2>2
    <3> QED BY <1>4, <1>7, <3>1
  <2> QED BY <2>1, <2>2
<1> QED BY <1>3, <1>7, <1>8 DEF k, t

LEMMA RestRange ==
  ASSUME NEW r \in Seq(Links), NEW i \in Nat, NEW j \in i..Len(r)
  PROVE  \A m : m \in Range(Rest(r, i, j)) <=> \E q \in 1..Len(r) : (q <= i \/ j < q) /\ r[q] = m
<1> DEFINE u == Rest(r, i, j)
<1>1. Len(r) \in Nat BY LenProperties
<1>2. /\ u \in Seq(Links) /\ Len(u) = Len(r) - (j - i)
      /\ \A q \in 1..Len(r) - (j - i) :
           /\ q <= i => q \in 1..Len(r) /\ u[q] = r[q]
           /\ ~(q <= i) => q + (j - i) \in 1..Len(r) /\ u[q] = r[q + (j - i)]
  BY RestFact
<1> HIDE DEF u
<1>3. \A m : m \in Range(u) <=> \E q \in 1..Len(u) : u[q] = m BY <1>2, RangeFact
<1>4. ASSUME NEW m, m \in Range(u) PROVE \E q \in 1..Len(r) : (q <= i \/ j < q) /\ r[q] = m
  <2>1. PICK q \in 1..Len(r) - (j - i) : u[q] = m BY <1>2, <1>3, <1>4
  <2>2. CASE q <= i
    <3>1. q \in 1..Len(r) /\ r[q] = m BY <1>2, <2>1, <2>2
    <3> QED BY <2>2, <3>1
  <2>3. CASE ~(q <= i)
    <3>1. q + (j - i) \in 1..Len(r) /\ r[q + (j - i)] = m BY <1>2, <2>1, <2>3
    <3>2. j < q + (j - i) BY <1>1, <2>3
    <3> QED BY <3>1, <3>2
  <2> QED BY <2>2, <2>3
<1>5. ASSUME NEW m, NEW q \in 1..Len(r), q <= i \/ j < q, r[q] = m PROVE m \in Range(u)
  <2>1. CASE q <= i
    <3>1. q \in 1..Len(r) - (j - i) BY <1>1, <2>1
    <3>2. u[q] = m BY <1>2, <1>5, <2>1, <3>1
    <3> QED BY <1>2, <1>3, <3>1, <3>2
  <2>2. CASE j < q
    <3> DEFINE k == q - (j - i)
    <3>1. k \in 1..Len(r) - (j - i) /\ ~(k <= i) /\ k + (j - i) = q BY <1>1, <2>2
    <3> HIDE DEF k
    <3>2. u[k] = m BY <1>2, <1>5, <3>1
    <3> QED BY <1>2, <1>3, <3>1, <3>2
  <2> QED BY <1>5, <2>1, <2>2
<1> QED BY <1>4, <1>5 DEF u

LEMMA WithRange ==
  ASSUME NEW r \in Seq(Links), NEW p \in 1..Len(r), NEW t \in Seq(Links)
  PROVE  Range(With(r, p, t)) = Range(r) \cup Range(t)
<1> DEFINE u == With(r, p, t)
           n == Len(r)
           k == Len(t)
<1>1. n \in Nat /\ k \in Nat BY LenProperties
<1>2. p \in 1..n + 1 BY <1>1
<1>3. /\ u \in Seq(Links) /\ Len(u) = n + k
      /\ \A i \in 1..n + k : u[i] = IF i < p THEN r[i] ELSE IF i < p + k THEN t[i - p + 1] ELSE r[i - k]
  BY ONLY r \in Seq(Links), t \in Seq(Links), <1>2, WithFact
<1> HIDE DEF u
<1>4. /\ \A m : m \in Range(u) <=> \E q \in 1..Len(u) : u[q] = m
      /\ \A m : m \in Range(r) <=> \E q \in 1..Len(r) : r[q] = m
      /\ \A m : m \in Range(t) <=> \E q \in 1..Len(t) : t[q] = m
  BY <1>3, RangeFact
<1> HIDE DEF n, k
<1>5. ASSUME NEW m \in Range(u) PROVE m \in Range(r) \cup Range(t)
  <2>1. PICK i \in 1..n + k : u[i] = m BY <1>3, <1>4
  <2>2. CASE i < p
    <3>1. i \in 1..n /\ r[i] = m BY <1>1, <1>2, <1>3, <2>1, <2>2
    <3> QED BY <1>4, <3>1 DEF n
  <2>3. CASE ~(i < p) /\ i < p + k
    <3>1. i - p + 1 \in 1..k /\ t[i - p + 1] = m BY <1>1, <1>3, <2>1, <2>3
    <3> QED BY <1>4, <3>1 DEF k
  <2>4. CASE ~(i < p) /\ ~(i < p + k)
    <3>1. i - k \in 1..n BY <1>1, <2>4
    <3>2. r[i - k] = m BY <1>3, <2>1, <2>4
    <3> QED BY <1>4, <3>1, <3>2 DEF n
  <2> QED BY <2>2, <2>3, <2>4
<1>6. ASSUME NEW m \in Range(r) PROVE m \in Range(u)
  <2>1. PICK i \in 1..n : r[i] = m BY <1>4 DEF n
  <2>2. CASE i < p
    <3>1. i \in 1..n + k /\ u[i] = m BY <1>1, <1>3, <2>1, <2>2
    <3> QED BY <1>3, <1>4, <3>1
  <2>3. CASE ~(i < p)
    <3> DEFINE j == i + k
    <3>1. j \in 1..n + k /\ ~(j < p) /\ ~(j < p + k) /\ j - k = i BY <1>1, <2>3
    <3> HIDE DEF j
    <3>2. u[j] = m BY <1>3, <2>1, <3>1
    <3> QED BY <1>3, <1>4, <3>1, <3>2
  <2> QED BY <2>2, <2>3
<1>7. ASSUME NEW m \in Range(t) PROVE m \in Range(u)
  <2>1. PICK i \in 1..k : t[i] = m BY <1>4 DEF k
  <2> DEFINE j == i + p - 1
  <2>2. j \in 1..n + k /\ ~(j < p) /\ j < p + k /\ j - p + 1 = i BY <1>1, <1>2
  <2> HIDE DEF j
  <2>3. u[j] = m BY <1>3, <2>1, <2>2
  <2> QED BY <1>3, <1>4, <2>2, <2>3
<1> QED BY <1>5, <1>6, <1>7 DEF u

(* The ring of h has the nodes of its list, and h.                          *)
LEMMA ListRange ==
  ASSUME NEW l, Linked(l), NEW h \in Links
  PROVE  /\ ListOf(l, h) \in Seq(Links) /\ h \notin Range(ListOf(l, h))
         /\ Range(Ring(l.succ, h)) = Range(ListOf(l, h)) \cup {h}
<1> DEFINE r == Ring(l.succ, h)
           s == Front(r)
           n == Len(r)
<1>1. Turns(l.succ, r, h) BY RingTurns
<1>2. ListOf(l, h) = s BY DEF ListOf
<1> HIDE DEF r
<1>3. r \in Seq(Links) BY <1>1, TurnsFact
<1>4. /\ s \in Seq(Links) /\ Len(s) = n - 1 /\ n \in Nat \ {0} /\ r[n] = h
      /\ \A i \in 1..n - 1 : i \in 1..n /\ s[i] = r[i] /\ r[i] # h
  <2>1. Turns(l.succ, r, h) BY <1>1
  <2> QED BY ONLY <2>1, ListFact
<1> HIDE DEF s
<1>5. /\ \A m : m \in Range(s) <=> \E q \in 1..Len(s) : s[q] = m
      /\ \A m : m \in Range(r) <=> \E q \in 1..Len(r) : r[q] = m
  BY <1>3, <1>4, RangeFact
<1>6. h \notin Range(s) BY <1>4, <1>5
<1>7. ASSUME NEW m \in Range(r), m # h PROVE m \in Range(s)
  <2>1. PICK q \in 1..n : r[q] = m BY <1>5
  <2>2. q \in 1..n - 1 BY <1>4, <1>7, <2>1
  <2> QED BY <1>4, <1>5, <2>1, <2>2
<1>8. n \in 1..n BY <1>4
<1>9. h \in Range(r) BY <1>4, <1>5, <1>8
<1>10. Range(s) \subseteq Range(r) BY <1>4, <1>5
<1>11. Range(r) = Range(s) \cup {h} BY <1>7, <1>9, <1>10
<1> QED BY <1>2, <1>4, <1>6, <1>11 DEF r

(* A ring that one assignment of two links cuts, takes another into, or     *)
(* does not touch.                                                          *)
LEMMA CutList ==
  ASSUME NEW l, Linked(l), NEW h \in Links, NEW r, Turns(l.succ, r, h),
         NEW i \in Nat, NEW j \in i + 1..Len(r) - 1
  PROVE  LET c == Crossed(l, Ahead(r, i), r[j])
         IN Ring(c.succ, h) = Rest(r, i, j) /\ ListOf(c, h) = TakenOut(ListOf(l, h), r[i + 1], j - i)
<1> DEFINE c == Crossed(l, Ahead(r, i), r[j])
<1>1. Len(r) \in Nat \ {0} /\ \A q \in 1..Len(r) : r[q] \in Links BY TurnsFact
<1>2. i \in 0..Len(r) - 1 /\ j \in 1..Len(r) BY <1>1
<1>3. Ahead(r, i) \in Links BY <1>2, AheadFact
<1>4. Linked(c) BY <1>1, <1>2, <1>3, CrossedLinked
<1>5. Turns(c.succ, Rest(r, i, j), h) BY CrossedCuts
<1>6. ListOf(l, h) = Front(r) BY ListOfRing
<1>7. TakenOut(Front(r), r[i + 1], j - i) = Front(Rest(r, i, j)) BY TakenOutIs
<1> HIDE DEF c
<1>8. Ring(c.succ, h) = Rest(r, i, j) /\ ListOf(c, h) = Front(Rest(r, i, j))
  BY <1>4, <1>5, ListOfRing
<1> QED BY <1>6, <1>7, <1>8 DEF c

LEMMA SameList ==
  ASSUME NEW l, Linked(l), NEW h \in Links, NEW a \in Links, NEW b \in Links,
         a \notin Range(Ring(l.succ, h)), b \notin Range(Ring(l.succ, h))
  PROVE  LET c == Crossed(l, a, b)
         IN Ring(c.succ, h) = Ring(l.succ, h) /\ ListOf(c, h) = ListOf(l, h)
<1> DEFINE c == Crossed(l, a, b)
           r == Ring(l.succ, h)
<1>1. Turns(l.succ, r, h) BY RingTurns
<1>2. a \notin Range(r) /\ b \notin Range(r) OBVIOUS
<1>3. ListOf(l, h) = Front(r) BY DEF ListOf
<1> HIDE DEF r
<1>4. r \in Seq(Links) BY <1>1, TurnsFact
<1>5. \A i \in 1..Len(r) : r[i] # a /\ r[i] # b BY <1>2, <1>4, RangeFact
<1>6. Turns(c.succ, r, h) BY <1>1, <1>5, CrossedAway
<1>7. Linked(c) BY CrossedLinked
<1> HIDE DEF c
<1>8. Ring(c.succ, h) = r /\ ListOf(c, h) = Front(r) BY <1>6, <1>7, ListOfRing
<1> QED BY <1>3, <1>8 DEF r, c

(* The ring of n, put before this: only the ring of this takes it in.       *)
LEMMA NodeInsertedList ==
  ASSUME NEW l, Linked(l), NEW h \in Links, NEW this \in Links, NEW n \in Links,
         h \notin Range(Ring(l.succ, n))
  PROVE  LET x == NodeInserted(l, this, n)
         IN /\ Linked(x)
            /\ ListOf(x, h) = IF this \in Range(Ring(l.succ, h))
                              THEN Before(ListOf(l, h), this, Ring(l.succ, n)) ELSE ListOf(l, h)
            /\ Range(Ring(x.succ, h)) \subseteq Range(Ring(l.succ, h)) \cup Range(Ring(l.succ, n))
<1> DEFINE x == NodeInserted(l, this, n)
           r == Ring(l.succ, h)
           t == Ring(l.succ, n)
           a == l.pred[this]
<1>1. x = Crossed(l, a, n) BY NodeInsertedIs
<1>2. a \in Links BY LinkedFact
<1>3. Linked(x) BY <1>1, <1>2, CrossedLinked
<1>4. Turns(l.succ, r, h) /\ Turns(l.succ, t, n) BY RingTurns
<1>5. Range(r) \cap Range(t) = {}
  <2> SUFFICES ASSUME NEW m \in Range(r), m \in Range(t) PROVE FALSE OBVIOUS
  <2>1. Range(Ring(l.succ, m)) = Range(r) BY RingsMeet
  <2>2. Range(Ring(l.succ, m)) = Range(t) BY RingsMeet
  <2>3. h \in Range(r) BY SelfInRing
  <2> QED BY <2>1, <2>2, <2>3
<1>6. n \in Range(t) BY SelfInRing
<1>7. a \in Range(r) => this \in Range(r) BY PredInRing
<1>8. ListOf(l, h) = Front(r) BY DEF ListOf
<1>9. CASE this \notin Range(r)
  <2>1. a \notin Range(r) /\ n \notin Range(r) BY <1>5, <1>6, <1>7, <1>9
  <2>2. Ring(x.succ, h) = r /\ ListOf(x, h) = ListOf(l, h) BY <1>1, <1>2, <2>1, SameList
  <2> QED BY <1>3, <1>9, <2>2
<1>10. CASE this \in Range(r)
  <2> HIDE DEF r, t, a, x
  <2>1. r \in Seq(Links) /\ t \in Seq(Links) /\ Len(r) \in Nat \ {0} BY <1>4, TurnsFact
  <2>2. PICK p \in 1..Len(r) : r[p] = this BY <1>10, <2>1, RangeFact
  <2>3. \A q \in 1..Len(r), k \in 1..Len(t) : r[q] # t[k]
    <3>1. \A q \in 1..Len(r) : r[q] \in Range(r) BY <2>1, RangeFact
    <3>2. \A q \in 1..Len(t) : t[q] \in Range(t) BY <2>1, RangeFact
    <3> QED BY <1>5, <3>1, <3>2
  <2> DEFINE i == p - 1
  <2>4. i \in 0..Len(r) - 1 /\ i + 1 = p BY <2>1
  <2> HIDE DEF i
  <2>5. Ahead(r, i) = a BY <1>4, <2>2, <2>4, AheadFact DEF a
  <2>6. Turns(Crossed(l, Ahead(r, i), n).succ, With(r, i + 1, t), h)
    BY <1>4, <2>3, <2>4, CrossedPuts
  <2>7. Turns(x.succ, With(r, p, t), h) BY <1>1, <2>4, <2>5, <2>6
  <2>8. Ring(x.succ, h) = With(r, p, t) /\ ListOf(x, h) = Front(With(r, p, t))
    BY <1>3, <2>7, ListOfRing
  <2>9. Before(Front(r), r[p], t) = Front(With(r, p, t)) BY <1>4, <2>1, BeforeIs
  <2>10. Range(With(r, p, t)) = Range(r) \cup Range(t) BY <2>1, WithRange
  <2>11. ListOf(x, h) = Before(ListOf(l, h), this, t) BY <1>8, <2>2, <2>8, <2>9
  <2>12. Range(Ring(x.succ, h)) = Range(r) \cup Range(t) BY <2>8, <2>10
  <2> QED BY <1>3, <1>10, <2>11, <2>12 DEF x, r, t
<1> QED BY <1>9, <1>10

LEMMA NotThere ==
  ASSUME NEW s \in Seq(Links), NEW m, m \notin Range(s), NEW n
  PROVE  TakenOut(s, m, n) = s
<1>1. PlaceOf(s, m) = 0 BY PlaceFact
<1> QED BY <1>1 DEF TakenOut

LEMMA RemovedList ==
  ASSUME NEW l, Linked(l), NEW h \in Links, NEW n \in Links
  PROVE  LET x == Removed(l, n)
         IN /\ Linked(x)
            /\ n = h => Ring(x.succ, h) = <<h>> /\ ListOf(x, h) = <<>>
            /\ n # h => /\ ListOf(x, h) = TakenOut(ListOf(l, h), n, 1)
                        /\ \A m : m \in Range(Ring(x.succ, h)) <=> m \in Range(Ring(l.succ, h)) /\ m # n
<1> DEFINE x == Removed(l, n)
           r == Ring(l.succ, h)
           a == l.pred[n]
           L == Len(r)
<1>1. x = Crossed(l, a, n) BY RemovedIs
<1>2. a \in Links BY LinkedFact
<1>3. Linked(x) BY <1>1, <1>2, CrossedLinked
<1>4. Turns(l.succ, r, h) BY RingTurns
<1>5. ListOf(l, h) \in Seq(Links) /\ Range(r) = Range(ListOf(l, h)) \cup {h} BY ListRange
<1>6. a \in Range(r) => n \in Range(r) BY PredInRing
<1>7. CASE n # h /\ n \notin Range(r)
  <2>1. a \notin Range(r) BY <1>6, <1>7
  <2>2. Ring(x.succ, h) = r /\ ListOf(x, h) = ListOf(l, h) BY <1>1, <1>2, <1>7, <2>1, SameList
  <2>3. TakenOut(ListOf(l, h), n, 1) = ListOf(l, h)
    <3>1. n \notin Range(ListOf(l, h)) BY <1>5, <1>7
    <3> QED BY <1>5, <3>1, NotThere
  <2> QED BY <1>3, <1>7, <2>2, <2>3
<1> HIDE DEF r, x
<1>8. /\ r \in Seq(Links) /\ L \in Nat \ {0} /\ r[L] = h
      /\ \A p, q \in 1..L : r[p] = r[q] => p = q
  BY <1>4, TurnsFact DEF Turns
<1>9. CASE n # h /\ n \in Range(r)
  <2>1. PICK k \in 1..L : r[k] = n BY <1>8, <1>9, RangeFact
  <2> DEFINE i == k - 1
  <2>2. k # L BY <1>8, <1>9, <2>1
  <2>3. i \in Nat /\ i \in 0..L - 1 /\ k \in i + 1..L - 1 /\ i + 1 = k /\ k - i = 1 /\ k \in i..L
    BY <1>8, <2>2
  <2> HIDE DEF i
  <2>4. Ahead(r, i) = a BY <1>4, <2>1, <2>3, AheadFact DEF a
  <2>5. LET c == Crossed(l, Ahead(r, i), r[k])
        IN Ring(c.succ, h) = Rest(r, i, k) /\ ListOf(c, h) = TakenOut(ListOf(l, h), r[i + 1], k - i)
    BY <1>4, <2>3, CutList
  <2>6. Ring(x.succ, h) = Rest(r, i, k) /\ ListOf(x, h) = TakenOut(ListOf(l, h), n, 1)
    BY <1>1, <2>1, <2>3, <2>4, <2>5
  <2>7. \A m : m \in Range(Rest(r, i, k)) <=> \E q \in 1..L : (q <= i \/ k < q) /\ r[q] = m
    BY <1>8, <2>3, RestRange
  <2>8. \A m : m \in Range(r) <=> \E q \in 1..L : r[q] = m BY <1>8, RangeFact
  <2>9. \A q \in 1..L : (q <= i \/ k < q) <=> q # k BY <1>8, <2>3
  <2>10. \A q \in 1..L : q # k <=> r[q] # n BY <1>8, <2>1
  <2>11. \A m : m \in Range(Rest(r, i, k)) <=> m \in Range(r) /\ m # n
    BY <2>7, <2>8, <2>9, <2>10
  <2> QED BY <1>3, <1>9, <2>6, <2>11 DEF r, x
<1>10. CASE n = h
  <2> DEFINE i == L - 1
  <2>1. i \in Nat /\ L \in i + 1..L /\ i \in 0..L - 1 /\ i + 1 = L /\ L \in 1..L BY <1>8
  <2> HIDE DEF i
  <2>2. Ahead(r, i) = a
    <3>1. l.pred[r[i + 1]] = Ahead(r, i) BY <1>4, <2>1, AheadFact
    <3>2. r[i + 1] = n BY <1>8, <1>10, <2>1
    <3> QED BY <3>1, <3>2 DEF a
  <2>3. Turns(Crossed(l, Ahead(r, i), r[L]).succ, SubSeq(r, i + 1, L), r[L])
    BY <1>4, <2>1, CrossedCloses
  <2>4. SubSeq(r, i + 1, L) = <<h>> BY <1>8, <2>1, OneOnly
  <2>5. Turns(x.succ, <<h>>, h) BY <1>1, <1>8, <1>10, <2>2, <2>3, <2>4
  <2>6. Ring(x.succ, h) = <<h>> /\ ListOf(x, h) = Front(<<h>>) BY <1>3, <2>5, ListOfRing
  <2>7. Front(<<h>>) = <<>>
    <3>1. <<h>> \in Seq(Links) /\ <<h>> # <<>> /\ Len(<<h>>) = 1 OBVIOUS
    <3>2. Front(<<h>>) \in Seq(Links) /\ Len(Front(<<h>>)) = Len(<<h>>) - 1 BY <3>1, FrontElements
    <3>3. Len(Front(<<h>>)) = 0 BY <3>1, <3>2
    <3> QED BY <3>2, <3>3
  <2> QED BY <1>3, <1>10, <2>6, <2>7 DEF x
<1> QED BY <1>7, <1>9, <1>10 DEF r, x

LEMMA RemovedRing ==
  ASSUME NEW l, Linked(l), NEW n \in Links
  PROVE  Linked(Removed(l, n)) /\ Ring(Removed(l, n).succ, n) = <<n>>
BY RemovedList

LEMMA BesideOnly ==
  ASSUME NEW n
  PROVE  Range(<<n>>) = {n}
<1>1. Range(<<n>>) = {<<n>>[i] : i \in DOMAIN <<n>>} BY DEF Range
<1> QED BY <1>1

LEMMA InsertedList ==
  ASSUME NEW l, Linked(l), NEW h \in Links, NEW position \in Links, NEW x \in Links,
         x # position, x # h
  PROVE  LET y == Inserted(l, position, x)
             rest == TakenOut(ListOf(l, h), x, 1)
         IN /\ Linked(y)
            /\ ListOf(y, h) = IF position \in Range(Ring(l.succ, h)) THEN Before(rest, position, <<x>>) ELSE rest
            /\ Range(Ring(y.succ, h)) \subseteq Range(Ring(l.succ, h)) \cup {x}
<1> DEFINE y == Inserted(l, position, x)
           rest == TakenOut(ListOf(l, h), x, 1)
           c == Removed(l, x)
<1>1. y = NodeInserted(c, position, x) BY InsertedIs
<1>2. Linked(c) /\ Ring(c.succ, x) = <<x>> BY RemovedRing
<1>3. ListOf(c, h) = rest /\ Range(Ring(c.succ, h)) = Range(Ring(l.succ, h)) \ {x}
  <2>1. x # h => /\ ListOf(Removed(l, x), h) = TakenOut(ListOf(l, h), x, 1)
                 /\ \A m : m \in Range(Ring(Removed(l, x).succ, h)) <=> m \in Range(Ring(l.succ, h)) /\ m # x
    BY RemovedList
  <2> QED BY <2>1
<1>4. Range(<<x>>) = {x} BY BesideOnly
<1> HIDE DEF c, y, rest
<1>5. h \notin Range(Ring(c.succ, x)) BY <1>2, <1>4
<1>6. /\ Linked(y)
      /\ ListOf(y, h) = IF position \in Range(Ring(c.succ, h))
                        THEN Before(ListOf(c, h), position, Ring(c.succ, x)) ELSE ListOf(c, h)
      /\ Range(Ring(y.succ, h)) \subseteq Range(Ring(c.succ, h)) \cup Range(Ring(c.succ, x))
  BY <1>1, <1>2, <1>5, NodeInsertedList
<1>7. position \in Range(Ring(c.succ, h)) <=> position \in Range(Ring(l.succ, h)) BY <1>3
<1>8. Range(Ring(y.succ, h)) \subseteq Range(Ring(l.succ, h)) \cup {x} BY <1>2, <1>3, <1>4, <1>6
<1>9. ListOf(y, h) = IF position \in Range(Ring(l.succ, h)) THEN Before(rest, position, <<x>>) ELSE rest
  BY <1>2, <1>3, <1>6, <1>7
<1> QED BY <1>6, <1>8, <1>9 DEF y, rest

(* The part of the ring of start that ends before end.                      *)
LEMMA StretchIs ==
  ASSUME NEW l, Linked(l), NEW start \in Links, NEW end \in Links, Together(l, start, end)
  PROVE  LET ring == Ring(l.succ, l.pred[start])
             j == PlaceOf(ring, end)
         IN /\ Turns(l.succ, ring, l.pred[start]) /\ ring[1] = start
            /\ j \in 1..Len(ring) /\ ring[j] = end
            /\ Stretch(l, start, end) = SubSeq(ring, 1, j - 1)
            /\ start = end <=> j = 1
<1> DEFINE ring == Ring(l.succ, l.pred[start])
           j == PlaceOf(ring, end)
<1>1. l.pred[start] \in Links /\ l.succ[l.pred[start]] = start BY LinkedFact
<1>2. Turns(l.succ, ring, l.pred[start]) BY <1>1, RingTurns
<1>3. Range(ring) = Range(Ring(l.succ, start)) BY PredInRing
<1>4. end \in Range(ring) BY <1>3 DEF Together
<1>5. Stretch(l, start, end) = SubSeq(ring, 1, j - 1) BY DEF Stretch, PlaceOf
<1> HIDE DEF ring
<1>6. /\ ring \in Seq(Links) /\ Len(ring) \in Nat \ {0} /\ ring[1] = start
      /\ \A p, q \in 1..Len(ring) : ring[p] = ring[q] => p = q
  BY <1>1, <1>2, TurnsFact DEF Turns
<1>7. j \in 1..Len(ring) /\ ring[j] = end BY <1>4, <1>6, PlaceFact
<1> HIDE DEF j
<1>8. 1 \in 1..Len(ring) BY <1>6
<1>9. start = end <=> j = 1 BY <1>6, <1>7, <1>8
<1> QED BY <1>2, <1>5, <1>6, <1>7, <1>9 DEF ring, j

LEMMA BeforeNothing ==
  ASSUME NEW next, NEW r, NEW h, Turns(next, r, h), NEW m \in Range(r)
  PROVE  Before(Front(r), m, <<>>) = Front(r)
<1> DEFINE L == Len(r)
<1>1. r \in Seq(Links) /\ L \in Nat \ {0} /\ r # <<>> BY TurnsFact DEF Turns
<1>2. PICK p \in 1..L : r[p] = m BY <1>1, RangeFact
<1>3. <<>> \in Seq(Links) /\ Len(<<>>) = 0 OBVIOUS
<1> DEFINE none == <<>>
           u == With(r, p, none)
<1> HIDE DEF none
<1>4. none \in Seq(Links) /\ Len(none) = 0 BY <1>3 DEF none
<1>5. Before(Front(r), r[p], none) = Front(u) BY <1>4, BeforeIs
<1>6. p \in 1..Len(r) + 1 BY <1>1
<1>7. /\ u \in Seq(Links) /\ Len(u) = Len(r) + Len(none)
      /\ \A i \in 1..Len(r) + Len(none) :
           u[i] = IF i < p THEN r[i] ELSE IF i < p + Len(none) THEN none[i - p + 1] ELSE r[i - Len(none)]
  <2>1. none \in Seq(Links) /\ r \in Seq(Links) BY <1>1, <1>4
  <2> QED BY ONLY <2>1, <1>6, WithFact DEF u
<1> HIDE DEF u
<1>8. Len(u) = L BY <1>1, <1>4, <1>7
<1>9. \A i \in 1..L : u[i] = r[i]
  <2> TAKE i \in 1..L
  <2>1. i \in 1..Len(r) + Len(none) /\ p + Len(none) = p /\ i - Len(none) = i BY <1>1, <1>4
  <2>2. u[i] = IF i < p THEN r[i] ELSE IF i < p + Len(none) THEN none[i - p + 1] ELSE r[i - Len(none)]
    BY <1>7, <2>1
  <2>3. ~(i < p + Len(none)) \/ i < p BY <2>1
  <2> QED BY <2>1, <2>2, <2>3
<1>10. u = r BY <1>1, <1>7, <1>8, <1>9, SeqEqual
<1> QED BY <1>2, <1>5, <1>10 DEF none

(* The list of h without the nodes from start on, which are not all of it.  *)
LEMMA StretchOut ==
  ASSUME NEW l, Linked(l), NEW h \in Links, NEW start \in Links, NEW end \in Links,
         Together(l, start, end), start # end, h \notin Range(Stretch(l, start, end))
  PROVE  LET some == Stretch(l, start, end)
             c == Crossed(l, l.pred[start], l.pred[end])
         IN /\ Linked(c) /\ Ring(c.succ, l.pred[end]) = some /\ start \in Range(some) /\ some # <<>>
            /\ ListOf(c, h) = TakenOut(ListOf(l, h), start, Len(some))
            /\ \A m : m \in Range(Ring(c.succ, h)) <=> m \in Range(Ring(l.succ, h)) /\ m \notin Range(some)
<1> DEFINE some == Stretch(l, start, end)
           before == l.pred[start]
           tail == l.pred[end]
           c == Crossed(l, before, tail)
           w == Ring(l.succ, before)
           J == PlaceOf(w, end)
           k == J - 1
           r == Ring(l.succ, h)
           L == Len(r)
<1>1. /\ before \in Links /\ tail \in Links /\ l.succ[before] = start /\ l.succ[tail] = end
      /\ \A m, n \in Links : l.succ[m] = l.succ[n] => m = n
  BY LinkedFact
<1>2. /\ Turns(l.succ, w, before) /\ w[1] = start /\ J \in 1..Len(w) /\ w[J] = end
      /\ some = SubSeq(w, 1, J - 1) /\ (start = end <=> J = 1)
  BY StretchIs
<1>3. Turns(l.succ, r, h) /\ ListOf(l, h) = Front(r) BY RingTurns DEF ListOf
<1>4. Linked(c) BY <1>1, CrossedLinked
<1>5. Range(w) = Range(Ring(l.succ, start)) BY PredInRing
<1>6. h \notin Range(some) OBVIOUS
<1>7. before \in Range(r) => start \in Range(r) BY PredInRing
<1>8. ListOf(l, h) \in Seq(Links) /\ Range(r) = Range(ListOf(l, h)) \cup {h} BY ListRange
<1>9. ASSUME before \notin Range(r), tail \notin Range(r)
      PROVE  Ring(c.succ, h) = r /\ ListOf(c, h) = ListOf(l, h)
  BY <1>1, <1>9, SameList
<1> HIDE DEF w, some, before, tail, J, r
<1>10. /\ w \in Seq(Links) /\ Len(w) \in Nat \ {0} /\ w[Len(w)] = before
       /\ \A p, q \in 1..Len(w) : w[p] = w[q] => p = q
       /\ \A p \in 1..Len(w) : w[p] \in Links
       /\ \A p \in 1..Len(w) - 1 : w[p + 1] = l.succ[w[p]]
  BY <1>2, TurnsFact DEF Turns
<1>11. /\ r \in Seq(Links) /\ L \in Nat \ {0} /\ r[L] = h
       /\ \A p, q \in 1..L : r[p] = r[q] => p = q
  BY <1>3, TurnsFact DEF Turns
<1>12. k \in 1..Len(w) - 1 /\ k \in 1..Len(w) /\ k + 1 = J /\ k \in 0..Len(w)
  BY <1>2, <1>10
<1>13. w[k] = tail
  <2>1. l.succ[w[k]] = end /\ w[k] \in Links BY <1>2, <1>10, <1>12
  <2> QED BY <1>1, <2>1
<1>14. some = SubSeq(w, 1, k) BY <1>2
<1> HIDE DEF k
<1>15. /\ some \in Seq(Links) /\ Len(some) = k
       /\ \A m : m \in Range(some) <=> \E q \in 1..Len(w) : 0 < q /\ q <= k /\ w[q] = m
  <2> DEFINE i == 0
  <2>1. i \in Nat /\ k \in i..Len(w) /\ i + 1 = 1 /\ k - i = k /\ i = 0 BY <1>12
  <2> HIDE DEF i
  <2>2. /\ SubSeq(w, i + 1, k) \in Seq(Links) /\ Len(SubSeq(w, i + 1, k)) = k - i
        /\ \A m : m \in Range(SubSeq(w, i + 1, k)) <=> \E q \in 1..Len(w) : i < q /\ q <= k /\ w[q] = m
    <3>1. w \in Seq(Links) /\ i \in Nat /\ k \in i..Len(w) BY <1>10, <2>1
    <3> QED BY ONLY <3>1, PartRange
  <2> QED BY <1>14, <2>1, <2>2
<1>16. start \in Range(some) /\ tail \in Range(some) /\ some # <<>>
  <2>1. 1 \in 1..Len(w) /\ 0 < 1 /\ 1 <= k /\ 0 < k /\ k <= k /\ k # 0 BY <1>12
  <2>2. start \in Range(some) BY <1>2, <1>15, <2>1
  <2>3. tail \in Range(some) BY <1>12, <1>13, <1>15, <2>1
  <2>4. some # <<>> BY <1>15, <2>1
  <2> QED BY <2>2, <2>3, <2>4
<1>17. Ring(c.succ, tail) = some
  <2> DEFINE i == 0
  <2>1. i \in Nat /\ k \in i + 1..Len(w) /\ i + 1 = 1 /\ i = 0 BY <1>12
  <2> HIDE DEF i
  <2>2. Ahead(w, i) = before BY <1>10, <2>1 DEF Ahead
  <2>3. Turns(Crossed(l, Ahead(w, i), w[k]).succ, SubSeq(w, i + 1, k), w[k])
    BY <1>2, <2>1, CrossedCloses
  <2>4. Turns(c.succ, some, tail) BY <1>13, <1>14, <2>1, <2>2, <2>3
  <2> HIDE DEF c
  <2> QED BY <1>1, <1>4, <2>4, ListOfRing
<1>18. start # h BY <1>6, <1>16
<1>19. CASE start \notin Range(r)
  <2>1. Range(w) \cap Range(r) = {}
    <3> SUFFICES ASSUME NEW m \in Range(w), m \in Range(r) PROVE FALSE OBVIOUS
    <3>1. Range(Ring(l.succ, m)) = Range(r) BY RingsMeet DEF r
    <3>2. Range(Ring(l.succ, m)) = Range(w) BY <1>1, RingsMeet DEF w
    <3>3. start \in Range(w) BY <1>5, SelfInRing
    <3> QED BY <1>19, <3>1, <3>2, <3>3
  <2>2. Range(some) \subseteq Range(w)
    <3>1. \A m : m \in Range(w) <=> \E q \in 1..Len(w) : w[q] = m BY <1>10, RangeFact
    <3> QED BY <1>15, <3>1
  <2>3. before \notin Range(r) /\ tail \notin Range(r) BY <1>7, <1>16, <1>19, <2>1, <2>2
  <2>4. Ring(c.succ, h) = r /\ ListOf(c, h) = ListOf(l, h) BY <1>9, <2>3
  <2>5. TakenOut(ListOf(l, h), start, Len(some)) = ListOf(l, h)
    <3>1. start \notin Range(ListOf(l, h)) BY <1>8, <1>19
    <3> QED BY <1>8, <3>1, NotThere
  <2>6. \A m : m \in Range(Ring(c.succ, h)) <=> m \in Range(r) /\ m \notin Range(some)
    BY <2>1, <2>2, <2>4
  <2> QED BY <1>4, <1>16, <1>17, <2>4, <2>5, <2>6 DEF some, before, tail, r
<1>20. CASE start \in Range(r)
  <2>1. PICK p \in 1..L : r[p] = start BY <1>11, <1>20, RangeFact
  <2> DEFINE i == p - 1
             j == i + k
  <2>2. p # L BY <1>11, <1>18, <2>1
  <2>3. i \in Nat /\ i \in 0..L - 1 /\ i \in 0..L /\ i + 1 = p BY <1>11
  <2> HIDE DEF i
  <2>4. Ahead(r, i) = before
    <3>1. l.pred[r[i + 1]] = Ahead(r, i) BY <1>3, <2>3, AheadFact
    <3> QED BY <2>1, <2>3, <3>1 DEF before
  <2>5. w = Rotated(r, i)
    <3>1. Turns(l.succ, Rotated(r, i), Ahead(r, i)) BY <1>3, <2>3, RotatedTurns
    <3> QED BY <1>1, <2>4, <3>1, ListOfRing DEF w
  <2>6. /\ Len(w) = L
        /\ \A q \in 1..L : /\ q <= L - i => q + i \in 1..L /\ w[q] = r[q + i]
                           /\ ~(q <= L - i) => q - (L - i) \in 1..L /\ w[q] = r[q - (L - i)]
    BY <1>11, <2>3, <2>5, RotatedFact
  <2>7. k < L - i
    <3> SUFFICES ASSUME L - i <= k PROVE FALSE BY <1>11, <1>12, <2>3
    <3> DEFINE q == L - i
    <3>1. q \in 1..L /\ q <= L - i /\ q + i = L /\ 0 < q /\ q <= k BY <1>11, <2>3
    <3> HIDE DEF q
    <3>2. w[q] = h BY <1>11, <2>6, <3>1
    <3> QED BY <1>6, <1>15, <2>6, <3>1, <3>2
  <2>8. j \in i + 1..L - 1 /\ j \in i..L /\ j - i = k BY <1>11, <1>12, <2>3, <2>7
  <2>9. r[j] = tail
    <3>1. k \in 1..L /\ k <= L - i /\ k + i = j BY <1>11, <1>12, <2>3, <2>6, <2>7
    <3> QED BY <1>13, <2>6, <3>1
  <2> HIDE DEF j
  <2>10. LET d == Crossed(l, Ahead(r, i), r[j])
         IN Ring(d.succ, h) = Rest(r, i, j) /\ ListOf(d, h) = TakenOut(ListOf(l, h), r[i + 1], j - i)
    BY <1>3, <2>8, <2>3, CutList
  <2>11. Ring(c.succ, h) = Rest(r, i, j) /\ ListOf(c, h) = TakenOut(ListOf(l, h), start, Len(some))
    BY <1>15, <2>1, <2>3, <2>4, <2>8, <2>9, <2>10
  <2>12. \A m : m \in Range(Rest(r, i, j)) <=> \E q \in 1..L : (q <= i \/ j < q) /\ r[q] = m
    BY <1>11, <2>3, <2>8, RestRange
  <2>13. \A m : m \in Range(r) <=> \E q \in 1..L : r[q] = m BY <1>11, RangeFact
  <2>14. \A q \in 1..L : r[q] \in Range(some) <=> (i < q /\ q <= j)
    <3> TAKE q \in 1..L
    <3>1. ASSUME i < q, q <= j PROVE r[q] \in Range(some)
      <4>1. q - i \in 1..L /\ q - i <= L - i /\ (q - i) + i = q /\ 0 < q - i /\ q - i <= k
        BY <1>11, <2>3, <2>8, <3>1
      <4>2. w[q - i] = r[q] BY <2>6, <4>1
      <4> QED BY <1>15, <2>6, <4>1, <4>2
    <3>2. ASSUME r[q] \in Range(some) PROVE i < q /\ q <= j
      <4>1. PICK x \in 1..L : x <= k /\ w[x] = r[q] BY <1>15, <2>6, <3>2
      <4>2. x <= L - i BY <1>11, <1>12, <2>3, <2>7, <4>1
      <4>3. x + i \in 1..L /\ r[x + i] = r[q] BY <2>6, <4>1, <4>2
      <4>4. x + i = q BY <1>11, <4>3
      <4> QED BY <1>11, <1>12, <2>3, <2>8, <4>1, <4>4
    <3> QED BY <3>1, <3>2
  <2>15. \A q \in 1..L : (q <= i \/ j < q) <=> ~(i < q /\ q <= j) BY <1>11, <2>3, <2>8
  <2>16. \A m : m \in Range(Rest(r, i, j)) <=> m \in Range(r) /\ m \notin Range(some)
    BY <2>12, <2>13, <2>14, <2>15
  <2>17. \A m : m \in Range(Ring(c.succ, h)) <=> m \in Range(r) /\ m \notin Range(some)
    BY <2>11, <2>16
  <2> QED BY <1>4, <1>16, <1>17, <2>11, <2>17 DEF some, before, tail, r
<1> QED BY <1>19, <1>20

LEMMA SplicedList ==
  ASSUME NEW l, Linked(l), NEW h \in Links, NEW start \in Links, NEW end \in Links,
         Together(l, start, end), h \notin Range(Stretch(l, start, end)),
         NEW pos \in Links, pos \notin Range(Stretch(l, start, end))
  PROVE  LET some == Stretch(l, start, end)
             y == Spliced(l, pos, start, end)
             rest == IF some = <<>> THEN ListOf(l, h) ELSE TakenOut(ListOf(l, h), start, Len(some))
         IN /\ Linked(y)
            /\ ListOf(y, h) = IF pos \in Range(Ring(l.succ, h)) THEN Before(rest, pos, some) ELSE rest
            /\ \A m : m \in Range(Ring(y.succ, h)) => m \in Range(Ring(l.succ, h)) \/ m \in Range(some)
<1> DEFINE some == Stretch(l, start, end)
           y == Spliced(l, pos, start, end)
           rest == IF some = <<>> THEN ListOf(l, h) ELSE TakenOut(ListOf(l, h), start, Len(some))
           r == Ring(l.succ, h)
           before == l.pred[start]
           tail == l.pred[end]
           c == Crossed(l, before, tail)
<1>1. before \in Links /\ tail \in Links BY LinkedFact
<1>2. CASE start = end
  <2>1. y = l BY <1>2 DEF Spliced
  <2>2. some = <<>>
    <3> DEFINE w == Ring(l.succ, before)
    <3>1. Turns(l.succ, w, before) /\ PlaceOf(w, end) = 1 /\ some = SubSeq(w, 1, PlaceOf(w, end) - 1)
      BY <1>2, StretchIs
    <3> HIDE DEF w, some
    <3>2. w \in Seq(Links) BY <3>1, TurnsFact
    <3> DEFINE one == 1
               zero == 0
    <3>3. one \in Nat /\ zero \in Nat /\ one > zero OBVIOUS
    <3>4. some = SubSeq(w, one, zero) BY <3>1
    <3> HIDE DEF one, zero
    <3> QED BY <3>2, <3>3, <3>4, NothingIsEmpty
  <2>3. Turns(l.succ, r, h) /\ ListOf(l, h) = Front(r) BY RingTurns DEF ListOf
  <2>4. pos \in Range(r) => Before(Front(r), pos, <<>>) = Front(r)
    <3> HIDE DEF r
    <3> QED BY <2>3, BeforeNothing
  <2> HIDE DEF some, y, r
  <2>5. rest = ListOf(l, h) BY <2>2
  <2> HIDE DEF rest
  <2>6. ListOf(y, h) = IF pos \in Range(r) THEN Before(rest, pos, some) ELSE rest
    BY <2>1, <2>2, <2>3, <2>4, <2>5
  <2>7. \A m : m \in Range(Ring(y.succ, h)) => m \in Range(r) \/ m \in Range(some) BY <2>1 DEF r
  <2>8. Linked(y) BY <2>1
  <2> QED BY <2>6, <2>7, <2>8 DEF some, y, r, rest
<1>3. CASE start # end
  <2>1. /\ Linked(c) /\ Ring(c.succ, tail) = some /\ start \in Range(some) /\ some # <<>>
        /\ ListOf(c, h) = TakenOut(ListOf(l, h), start, Len(some))
        /\ \A m : m \in Range(Ring(c.succ, h)) <=> m \in Range(r) /\ m \notin Range(some)
    BY <1>3, StretchOut
  <2>2. h \notin Range(some) /\ pos \notin Range(some) OBVIOUS
  <2>3. pos # start BY <2>1, <2>2
  <2>4. y = NodeInserted(c, pos, tail) BY <1>3, <2>3, SplicedIs
  <2> HIDE DEF some, y, r, c, tail, before
  <2>5. rest = ListOf(c, h) BY <2>1
  <2> HIDE DEF rest
  <2>6. h \notin Range(Ring(c.succ, tail)) BY <2>1, <2>2
  <2>7. /\ Linked(y)
        /\ ListOf(y, h) = IF pos \in Range(Ring(c.succ, h))
                          THEN Before(ListOf(c, h), pos, Ring(c.succ, tail)) ELSE ListOf(c, h)
        /\ Range(Ring(y.succ, h)) \subseteq Range(Ring(c.succ, h)) \cup Range(Ring(c.succ, tail))
    BY <1>1, <2>1, <2>4, <2>6, NodeInsertedList
  <2>8. pos \in Range(Ring(c.succ, h)) <=> pos \in Range(r) BY <2>1, <2>2
  <2>9. ListOf(y, h) = IF pos \in Range(r) THEN Before(rest, pos, some) ELSE rest
    BY <2>1, <2>5, <2>7, <2>8
  <2>10. \A m : m \in Range(Ring(y.succ, h)) => m \in Range(r) \/ m \in Range(some) BY <2>1, <2>7
  <2> QED BY <2>7, <2>9, <2>10 DEF some, y, r, rest
<1> QED BY <1>2, <1>3

(* The list read backwards.                                                 *)
LEMMA BackwardsTurns ==
  ASSUME NEW l, Linked(l), NEW h \in Links
  PROVE  Reverse(ListOf(l, h)) = Front(Ring(l.pred, h))
<1> DEFINE r == Ring(l.succ, h)
           s == Front(r)
           L == Len(r)
           b == [i \in 1..L |-> IF i = L THEN h ELSE r[L - i]]
<1>1. Turns(l.succ, r, h) /\ ListOf(l, h) = s BY RingTurns DEF ListOf
<1> HIDE DEF r
<1>2. /\ r \in Seq(Links) /\ L \in Nat \ {0} /\ r[L] = h
      /\ \A i \in 1..L : r[i] \in Links
      /\ \A p, q \in 1..L : r[p] = r[q] => p = q
  BY <1>1, TurnsFact DEF Turns
<1>3. s \in Seq(Links) /\ Len(s) = L - 1 /\ \A i \in 1..L - 1 : s[i] = r[i]
  <2>1. Turns(l.succ, r, h) BY <1>1
  <2>2. /\ Front(r) \in Seq(Links) /\ Len(Front(r)) = Len(r) - 1
        /\ \A i \in 1..Len(r) - 1 : i \in 1..Len(r) /\ Front(r)[i] = r[i] /\ r[i] # h
    BY ONLY <2>1, ListFact
  <2> QED BY ONLY <2>2
<1>4. \A i \in 0..L - 1 : l.pred[r[i + 1]] = Ahead(r, i) BY <1>1, AheadFact
<1>5. b \in Seq(Links) /\ Len(b) = L /\ \A i \in 1..L : b[i] = IF i = L THEN h ELSE r[L - i]
  <2>1. \A i \in 1..L : (IF i = L THEN h ELSE r[L - i]) \in Links
    <3> TAKE i \in 1..L
    <3>1. i # L => L - i \in 1..L BY <1>2
    <3> QED BY <1>2, <3>1
  <2>2. b \in [1..L -> Links] BY <2>1
  <2> QED BY <1>2, <2>2
<1> HIDE DEF b, s
<1>6. Turns(l.pred, b, h)
  <2>1. b # <<>> /\ b[Len(b)] = h
    <3>1. L \in 1..L /\ L # 0 BY <1>2
    <3> QED BY <1>5, <3>1
  <2>2. b[1] = l.pred[h]
    <3> DEFINE i == L - 1
    <3>1. i \in 0..L - 1 /\ i + 1 = L /\ 1 \in 1..L BY <1>2
    <3>2. l.pred[h] = Ahead(r, i)
      <4> HIDE DEF i
      <4> QED BY <1>2, <1>4, <3>1
    <3>3. CASE L = 1 BY <1>2, <1>5, <3>1, <3>2, <3>3 DEF Ahead
    <3>4. CASE L # 1
      <4>1. i # 0 /\ 1 # L BY <1>2, <3>4
      <4>2. b[1] = r[i] BY <1>5, <3>1, <4>1
      <4> QED BY <3>2, <4>1, <4>2 DEF Ahead
    <3> QED BY <3>3, <3>4
  <2>3. ASSUME NEW i \in 1..Len(b) - 1 PROVE b[i + 1] = l.pred[b[i]]
    <3> DEFINE k == L - i - 1
    <3>1. i \in 1..L /\ i + 1 \in 1..L /\ i # L /\ L - i = k + 1 /\ k \in 0..L - 1 BY <1>2, <1>5
    <3>2. b[i] = r[k + 1] BY <1>5, <3>1
    <3>3. l.pred[b[i]] = Ahead(r, k)
      <4> HIDE DEF k
      <4> QED BY <1>4, <3>1, <3>2
    <3>4. CASE i + 1 = L
      <4>1. k = 0 BY <1>2, <3>4
      <4>2. b[i + 1] = h BY <1>5, <3>1, <3>4
      <4> QED BY <1>2, <3>3, <4>1, <4>2 DEF Ahead
    <3>5. CASE i + 1 # L
      <4>0. i \in Nat /\ L \in Nat
        <5>1. i \in 1..L BY <3>1
        <5>2. L \in Nat BY <1>2
        <5> QED BY ONLY <5>1, <5>2
      <4>1. k # 0 /\ L - (i + 1) = k
        <5> HIDE DEF L
        <5> QED BY ONLY <4>0, <3>5 DEF k
      <4>2. b[i + 1] = r[k] BY <1>5, <3>1, <3>5, <4>1
      <4> QED BY <3>3, <4>1, <4>2 DEF Ahead
    <3> QED BY <3>4, <3>5
  <2>4. ASSUME NEW i \in 1..Len(b), NEW j \in 1..Len(b), b[i] = b[j] PROVE i = j
    <3> DEFINE at(x) == IF x = L THEN L ELSE L - x
    <3>1. \A x \in 1..L : b[x] = r[at(x)] /\ at(x) \in 1..L
      <4> TAKE x \in 1..L
      <4>1. x # L => L - x \in 1..L BY <1>2
      <4> QED BY <1>2, <1>5, <4>1
    <3>2. at(i) = at(j) BY <1>2, <1>5, <2>4, <3>1
    <3> QED BY <1>2, <1>5, <3>2
  <2> QED BY <1>5, <2>1, <2>2, <2>3, <2>4 DEF Turns
<1>7. Ring(l.pred, h) = b
  <2>1. l.pred \in [Links -> Links] BY LinkedFact
  <2> QED BY <1>6, <2>1, RingIsRead
<1>8. /\ Front(b) \in Seq(Links) /\ Len(Front(b)) = L - 1
      /\ \A i \in 1..L - 1 : Front(b)[i] = b[i]
  <2>1. b # <<>> BY <1>2, <1>5
  <2>2. /\ Front(b) \in Seq(Links) /\ Len(Front(b)) = Len(b) - 1
        /\ \A i \in 1..Len(b) - 1 : Front(b)[i] = b[i]
    BY <1>5, <2>1, FrontElements
  <2> QED BY <1>5, <2>2
<1>9. Reverse(s) = [i \in 1..L - 1 |-> s[(L - 1 - i) + 1]] BY <1>3 DEF Reverse
<1>10. Reverse(s) \in Seq(Links) /\ Len(Reverse(s)) = L - 1 /\ \A i \in 1..L - 1 : Reverse(s)[i] = r[L - i]
  <2>1. \A i \in 1..L - 1 : (L - 1 - i) + 1 = L - i /\ L - i \in 1..L - 1 /\ L - i \in 1..L BY <1>2
  <2>2. \A i \in 1..L - 1 : s[(L - 1 - i) + 1] = r[L - i] /\ r[L - i] \in Links BY <1>2, <1>3, <2>1
  <2>3. Reverse(s) \in [1..L - 1 -> Links] BY <1>9, <2>2
  <2>4. L - 1 \in Nat BY <1>2
  <2> QED BY <1>9, <2>2, <2>3, <2>4
<1>11. \A i \in 1..L - 1 : Front(b)[i] = r[L - i]
  <2> TAKE i \in 1..L - 1
  <2>1. i \in 1..L /\ i # L BY <1>2
  <2> QED BY <1>5, <1>8, <2>1
<1>12. Reverse(s) = Front(b)
  <2>1. \A i \in 1..Len(Reverse(s)) : Reverse(s)[i] = Front(b)[i] BY <1>10, <1>11
  <2> QED BY <1>8, <1>10, <2>1, SeqEqual
<1> QED BY <1>1, <1>7, <1>12

-----------------------------------------------------------------------------
(* The invariant: the links of both directions agree, and no two lists      *)
(* share a node.                                                            *)
Apart(l) == \A h, k \in Heads : h # k => k \notin Range(Ring(l.succ, h))
ListsInv == Linked(Pair) /\ Apart(Pair)

(* What a call does to a list is what the sequence of its nodes says.       *)
LEMMA ListsAreLinked == ListsInv => ListsAreSequences
<1> SUFFICES ASSUME ListsInv, NEW h \in Heads
             PROVE  LET list == ListOf(Pair, h)
                        Has(m) == m = h \/ m \in Range(list)
                    IN /\ Reverse(list) = Front(Ring(ln_Pred, h))
                       /\ \A n \in Elems : ListOf(Removed(Pair, n), h) = TakenOut(list, n, 1)
                       /\ \A x \in Elems, position \in Links :
                            x # position =>
                              ListOf(Inserted(Pair, position, x), h) =
                                IF Has(position) THEN Before(TakenOut(list, x, 1), position, <<x>>) ELSE TakenOut(list, x, 1)
                       /\ \A n \in Elems, this \in Links :
                            Loose(Pair, n) /\ ~Together(Pair, n, this) =>
                              ListOf(NodeInserted(Pair, this, n), h) =
                                IF Has(this) THEN Before(list, this, Ring(ln_Succ, n)) ELSE list
                       /\ \A start, end \in Links :
                            MayMove(Pair, start, end) =>
                              LET some == Stretch(Pair, start, end)
                                  rest == IF some = <<>> THEN list ELSE TakenOut(list, start, Len(some))
                              IN \A pos \in Links \ Range(some) :
                                   ListOf(Spliced(Pair, pos, start, end), h) =
                                     IF Has(pos) THEN Before(rest, pos, some) ELSE rest
                       /\ \A other \in Heads :
                            ListOf(Cleared(Pair, other), h) = IF other = h THEN <<>> ELSE list
  BY DEF ListsAreSequences
<1> DEFINE l == Pair
           list == ListOf(l, h)
           Has(m) == m = h \/ m \in Range(list)
<1>1. Linked(l) /\ Apart(l) BY DEF ListsInv
<1>2. l.succ = ln_Succ /\ l.pred = ln_Pred BY DEF Pair
<1>3. h \in Links /\ Elems \subseteq Links /\ Heads \subseteq Links /\ \A n \in Elems : n # h
  BY ListsAssumption DEF Links
<1> HIDE DEF l
<1>4. list \in Seq(Links) /\ Range(Ring(l.succ, h)) = Range(list) \cup {h} BY <1>1, <1>3, ListRange
<1>5. \A m : Has(m) <=> m \in Range(Ring(l.succ, h)) BY <1>4
<1> HIDE DEF list
<1>6. Reverse(list) = Front(Ring(ln_Pred, h)) BY <1>1, <1>2, <1>3, BackwardsTurns DEF list
<1>7. \A n \in Elems : ListOf(Removed(l, n), h) = TakenOut(list, n, 1)
  <2> TAKE n \in Elems
  <2>1. n # h /\ n \in Links BY <1>3
  <2>2. n # h => ListOf(Removed(l, n), h) = TakenOut(ListOf(l, h), n, 1) BY <1>1, <1>3, <2>1, RemovedList
  <2> QED BY <2>1, <2>2 DEF list
<1>8. \A x \in Elems, position \in Links :
        x # position =>
          ListOf(Inserted(l, position, x), h) =
            IF Has(position) THEN Before(TakenOut(list, x, 1), position, <<x>>) ELSE TakenOut(list, x, 1)
  <2> SUFFICES ASSUME NEW x \in Elems, NEW position \in Links, x # position
               PROVE  ListOf(Inserted(l, position, x), h) =
                        IF Has(position) THEN Before(TakenOut(list, x, 1), position, <<x>>) ELSE TakenOut(list, x, 1)
    OBVIOUS
  <2>1. x \in Links /\ x # h BY <1>3
  <2> DEFINE rest == TakenOut(ListOf(l, h), x, 1)
  <2>2. ListOf(Inserted(l, position, x), h) =
          IF position \in Range(Ring(l.succ, h)) THEN Before(rest, position, <<x>>) ELSE rest
    BY <1>1, <1>3, <2>1, InsertedList
  <2> HIDE DEF Has
  <2> QED BY <1>5, <2>2 DEF list
<1>9. \A n \in Elems, this \in Links :
        Loose(l, n) /\ ~Together(l, n, this) =>
          ListOf(NodeInserted(l, this, n), h) =
            IF Has(this) THEN Before(list, this, Ring(ln_Succ, n)) ELSE list
  <2> SUFFICES ASSUME NEW n \in Elems, NEW this \in Links, Loose(l, n)
               PROVE  ListOf(NodeInserted(l, this, n), h) =
                        IF Has(this) THEN Before(list, this, Ring(l.succ, n)) ELSE list
    BY <1>2
  <2>1. n \in Links /\ h \notin Range(Ring(l.succ, n)) BY <1>3 DEF Loose
  <2>2. ListOf(NodeInserted(l, this, n), h) =
          IF this \in Range(Ring(l.succ, h)) THEN Before(ListOf(l, h), this, Ring(l.succ, n)) ELSE ListOf(l, h)
    BY <1>1, <1>3, <2>1, NodeInsertedList
  <2> HIDE DEF Has
  <2> QED BY <1>5, <2>2 DEF list
<1>10. \A start, end \in Links :
         MayMove(l, start, end) =>
           LET some == Stretch(l, start, end)
               rest == IF some = <<>> THEN list ELSE TakenOut(list, start, Len(some))
           IN \A pos \in Links \ Range(some) :
                ListOf(Spliced(l, pos, start, end), h) =
                  IF Has(pos) THEN Before(rest, pos, some) ELSE rest
  <2> SUFFICES ASSUME NEW start \in Links, NEW end \in Links, MayMove(l, start, end),
                      NEW pos \in Links \ Range(Stretch(l, start, end))
               PROVE  LET some == Stretch(l, start, end)
                          rest == IF some = <<>> THEN list ELSE TakenOut(list, start, Len(some))
                      IN ListOf(Spliced(l, pos, start, end), h) =
                           IF Has(pos) THEN Before(rest, pos, some) ELSE rest
    OBVIOUS
  <2> DEFINE some == Stretch(l, start, end)
             rest == IF some = <<>> THEN ListOf(l, h) ELSE TakenOut(ListOf(l, h), start, Len(some))
  <2>1. /\ Together(l, start, end) /\ h \notin Range(Stretch(l, start, end))
        /\ pos \in Links /\ pos \notin Range(Stretch(l, start, end))
    BY DEF MayMove
  <2>2. ListOf(Spliced(l, pos, start, end), h) =
          IF pos \in Range(Ring(l.succ, h)) THEN Before(rest, pos, some) ELSE rest
    BY <1>1, <1>3, <2>1, SplicedList
  <2> HIDE DEF Has
  <2> QED BY <1>5, <2>2 DEF list
<1>11. \A other \in Heads : ListOf(Cleared(l, other), h) = IF other = h THEN <<>> ELSE list
  <2> TAKE other \in Heads
  <2>1. other \in Links /\ (other # h => other \notin Range(Ring(l.succ, h))) BY <1>1, <1>3 DEF Apart
  <2>2. /\ other = h => ListOf(Removed(l, other), h) = <<>>
        /\ other # h => ListOf(Removed(l, other), h) = TakenOut(ListOf(l, h), other, 1)
    BY <1>1, <1>3, <2>1, RemovedList
  <2>3. other # h => TakenOut(list, other, 1) = list
    <3>1. other # h => other \notin Range(list) BY <1>4, <2>1
    <3> QED BY <1>4, <3>1, NotThere
  <2> QED BY <2>2, <2>3 DEF Cleared, list
<1> QED BY <1>6, <1>7, <1>8, <1>9, <1>10, <1>11 DEF l, list

LEMMA NodeInsertedLinked ==
  ASSUME NEW l, Linked(l), NEW this \in Links, NEW n \in Links
  PROVE  Linked(NodeInserted(l, this, n))
<1>1. NodeInserted(l, this, n) = Crossed(l, l.pred[this], n) BY NodeInsertedIs
<1>2. l.pred[this] \in Links BY LinkedFact
<1> QED BY <1>1, <1>2, CrossedLinked

LEMMA InsertedLinked ==
  ASSUME NEW l, Linked(l), NEW position \in Links, NEW x \in Links, x # position
  PROVE  Linked(Inserted(l, position, x))
<1> DEFINE c == Removed(l, x)
<1>1. Inserted(l, position, x) = NodeInserted(c, position, x) BY InsertedIs
<1>2. Linked(c) BY RemovedRing
<1> HIDE DEF c
<1>3. Linked(NodeInserted(c, position, x)) BY <1>2, NodeInsertedLinked
<1> QED BY <1>1, <1>3

LEMMA StretchStarts ==
  ASSUME NEW l, Linked(l), NEW start \in Links, NEW end \in Links, Together(l, start, end), start # end
  PROVE  start \in Range(Stretch(l, start, end))
<1> DEFINE w == Ring(l.succ, l.pred[start])
           J == PlaceOf(w, end)
           k == J - 1
           i == 0
<1>1. /\ Turns(l.succ, w, l.pred[start]) /\ w[1] = start /\ J \in 1..Len(w)
      /\ Stretch(l, start, end) = SubSeq(w, 1, J - 1) /\ (start = end <=> J = 1)
  BY StretchIs
<1> HIDE DEF w, J
<1>2. w \in Seq(Links) /\ Len(w) \in Nat BY <1>1, TurnsFact
<1>3. k \in i..Len(w) /\ i \in Nat /\ i + 1 = 1 /\ 1 \in 1..Len(w) /\ i < 1 /\ 1 <= k BY <1>1, <1>2
<1>4. Stretch(l, start, end) = SubSeq(w, i + 1, k) BY <1>1
<1> HIDE DEF i, k
<1>5. \A m : m \in Range(SubSeq(w, i + 1, k)) <=> \E q \in 1..Len(w) : i < q /\ q <= k /\ w[q] = m
  <2>1. w \in Seq(Links) /\ i \in Nat /\ k \in i..Len(w) BY <1>2, <1>3
  <2> QED BY ONLY <2>1, PartRange
<1> QED BY <1>1, <1>3, <1>4, <1>5

LEMMA SplicedLinked ==
  ASSUME NEW l, Linked(l), NEW pos \in Links, NEW start \in Links, NEW end \in Links,
         Together(l, start, end), pos \notin Range(Stretch(l, start, end))
  PROVE  Linked(Spliced(l, pos, start, end))
<1>1. CASE start = end BY <1>1 DEF Spliced
<1>2. CASE start # end
  <2> DEFINE c == Crossed(l, l.pred[start], l.pred[end])
             tail == l.pred[end]
  <2>1. l.pred[start] \in Links /\ tail \in Links BY LinkedFact
  <2>2. Linked(c) BY <2>1, CrossedLinked
  <2>3. pos # start BY <1>2, StretchStarts
  <2>4. Spliced(l, pos, start, end) = NodeInserted(c, pos, tail) BY <1>2, <2>3, SplicedIs
  <2> HIDE DEF c, tail
  <2>5. Linked(NodeInserted(c, pos, tail)) BY <2>1, <2>2, NodeInsertedLinked
  <2> QED BY <2>4, <2>5
<1> QED BY <1>1, <1>2

LEMMA Relinks ==
  ASSUME NEW x, Linked(x), Apart(x), Relinked(x)
  PROVE  ListsInv'
<1>1. x = [succ |-> x.succ, pred |-> x.pred] BY DEF Linked
<1>2. Pair' = x BY <1>1 DEF Relinked, Pair
<1> QED BY <1>2 DEF ListsInv

(* A call leaves the lists apart that takes nodes without a head along.     *)
LEMMA StaysApart ==
  ASSUME NEW l, Apart(l), NEW x, NEW S, S \cap Heads = {},
         \A h \in Heads : \A m : m \in Range(Ring(x.succ, h)) => m = h \/ m \in Range(Ring(l.succ, h)) \/ m \in S
  PROVE  Apart(x)
<1> SUFFICES ASSUME NEW h \in Heads, NEW k \in Heads, h # k, k \in Range(Ring(x.succ, h)) PROVE FALSE
  BY DEF Apart
<1>1. k \in Range(Ring(l.succ, h)) \/ k \in S OBVIOUS
<1> QED BY <1>1 DEF Apart

LEMMA ListsBegin == ListsInit => ListsInv
<1> SUFFICES ASSUME ListsInit PROVE ListsInv OBVIOUS
<1> DEFINE l == Pair
<1>1. l = [succ |-> Alone, pred |-> Alone] BY DEF ListsInit, Pair
<1>2. Linked(l) BY <1>1 DEF Linked, Alone
<1>3. ASSUME NEW h \in Links PROVE Ring(l.succ, h) = <<h>>
  <2>1. l.succ[h] = h BY <1>1 DEF Alone
  <2>2. Turns(l.succ, <<h>>, h)
    <3> DEFINE s == <<h>>
    <3>1. s \in Seq(Links) /\ s # <<>> /\ Len(s) = 1 /\ s[1] = h OBVIOUS
    <3> HIDE DEF s, l
    <3>2. Turns(l.succ, s, h) BY <2>1, <3>1 DEF Turns
    <3> QED BY <3>2 DEF s
  <2> HIDE DEF l
  <2> QED BY <1>2, <2>2, ListOfRing
<1>4. Apart(l)
  <2> SUFFICES ASSUME NEW h \in Heads, NEW k \in Heads, h # k PROVE k \notin Range(Ring(l.succ, h))
    BY DEF Apart
  <2>1. h \in Links BY DEF Links
  <2>2. Range(<<h>>) = {h} BY BesideOnly
  <2> QED BY <1>3, <2>1, <2>2
<1> QED BY <1>2, <1>4 DEF ListsInv

LEMMA ListsStep == ListsInv /\ [ListsNext]_<<ln_Succ, ln_Pred>> => ListsInv'
<1> SUFFICES ASSUME ListsInv, [ListsNext]_<<ln_Succ, ln_Pred>> PROVE ListsInv' OBVIOUS
<1> DEFINE l == Pair
<1>1. Linked(l) /\ Apart(l) BY DEF ListsInv
<1>2. Elems \subseteq Links /\ Heads \subseteq Links /\ Heads \cap Elems = {} BY ListsAssumption DEF Links
<1>3. ASSUME NEW n \in Links, Relinked(Removed(l, n)) PROVE ListsInv'
  <2> HIDE DEF l
  <2> DEFINE x == Removed(l, n)
  <2>1. Linked(x) BY <1>1, RemovedRing
  <2>2. ASSUME NEW h \in Heads, NEW m \in Range(Ring(x.succ, h)) PROVE m = h \/ m \in Range(Ring(l.succ, h))
    <3>1. h \in Links BY <1>2
    <3>2. /\ n = h => Ring(Removed(l, n).succ, h) = <<h>>
          /\ n # h => \A q : q \in Range(Ring(Removed(l, n).succ, h)) <=> q \in Range(Ring(l.succ, h)) /\ q # n
      BY <1>1, <3>1, RemovedList
    <3>3. Range(<<h>>) = {h} BY BesideOnly
    <3> QED BY <2>2, <3>2, <3>3
  <2> HIDE DEF x
  <2>3. Apart(x)
    <3> DEFINE S == {}
    <3>1. S \cap Heads = {} OBVIOUS
    <3>2. \A h \in Heads : \A m : m \in Range(Ring(x.succ, h)) => m = h \/ m \in Range(Ring(l.succ, h)) \/ m \in S
      BY <2>2
    <3> HIDE DEF S
    <3> QED BY <1>1, <3>1, <3>2, StaysApart
  <2>4. Relinked(x) BY <1>3 DEF x
  <2> QED BY ONLY <2>1, <2>3, <2>4, Relinks
<1>4. ASSUME NEW n \in Elems, NEW this \in Links, Loose(l, n), Relinked(NodeInserted(l, this, n)) PROVE ListsInv'
  <2> HIDE DEF l
  <2> DEFINE x == NodeInserted(l, this, n)
             S == Range(Ring(l.succ, n))
  <2>1. n \in Links /\ S \cap Heads = {} BY <1>2, <1>4 DEF Loose
  <2>2. Linked(x) BY <1>1, <2>1, NodeInsertedLinked
  <2>3. ASSUME NEW h \in Heads, NEW m \in Range(Ring(x.succ, h))
        PROVE  m = h \/ m \in Range(Ring(l.succ, h)) \/ m \in S
    <3>1. h \in Links /\ h \notin Range(Ring(l.succ, n)) BY <1>2, <2>1
    <3>2. Range(Ring(x.succ, h)) \subseteq Range(Ring(l.succ, h)) \cup Range(Ring(l.succ, n))
      BY <1>1, <2>1, <3>1, NodeInsertedList
    <3> QED BY <2>3, <3>2
  <2> HIDE DEF x, S
  <2>4. Apart(x) BY <1>1, <2>1, <2>3, StaysApart
  <2>5. Relinked(x) BY <1>4 DEF x
  <2> QED BY ONLY <2>2, <2>4, <2>5, Relinks
<1>5. ASSUME NEW x \in Elems, NEW position \in Links, x # position, Relinked(Inserted(l, position, x)) PROVE ListsInv'
  <2> HIDE DEF l
  <2> DEFINE y == Inserted(l, position, x)
             S == {x}
  <2>1. x \in Links /\ S \cap Heads = {} BY <1>2
  <2>2. ASSUME NEW h \in Heads
        PROVE  Linked(y) /\ \A m : m \in Range(Ring(y.succ, h)) => m = h \/ m \in Range(Ring(l.succ, h)) \/ m \in S
    <3>1. h \in Links /\ x # h BY <1>2
    <3>2. Linked(y) /\ Range(Ring(y.succ, h)) \subseteq Range(Ring(l.succ, h)) \cup {x}
      BY <1>1, <1>5, <2>1, <3>1, InsertedList
    <3> QED BY <3>2
  <2>3. Linked(y) BY <1>1, <1>5, <2>1, InsertedLinked
  <2> HIDE DEF y, S
  <2>4. Apart(y) BY <1>1, <2>1, <2>2, StaysApart
  <2>5. Relinked(y) BY <1>5 DEF y
  <2> QED BY ONLY <2>3, <2>4, <2>5, Relinks
<1>6. ASSUME NEW pos \in Links, NEW start \in Links, NEW end \in Links, MayMove(l, start, end),
             pos \notin Range(Stretch(l, start, end)), Relinked(Spliced(l, pos, start, end))
      PROVE  ListsInv'
  <2> HIDE DEF l
  <2> DEFINE y == Spliced(l, pos, start, end)
             S == Range(Stretch(l, start, end))
  <2>1. S \cap Heads = {} /\ Together(l, start, end) BY <1>6 DEF MayMove
  <2>2. ASSUME NEW h \in Heads
        PROVE  Linked(y) /\ \A m : m \in Range(Ring(y.succ, h)) => m = h \/ m \in Range(Ring(l.succ, h)) \/ m \in S
    <3>1. h \in Links /\ h \notin Range(Stretch(l, start, end)) BY <1>2, <2>1
    <3>2. /\ Linked(y)
          /\ \A m : m \in Range(Ring(y.succ, h)) => m \in Range(Ring(l.succ, h)) \/ m \in Range(Stretch(l, start, end))
      BY <1>1, <1>6, <2>1, <3>1, SplicedList
    <3> QED BY <3>2
  <2>3. Linked(y) BY <1>1, <1>6, <2>1, SplicedLinked
  <2> HIDE DEF y, S
  <2>4. Apart(y) BY <1>1, <2>1, <2>2, StaysApart
  <2>5. Relinked(y) BY <1>6 DEF y
  <2> QED BY ONLY <2>3, <2>4, <2>5, Relinks
<1>7. ASSUME UNCHANGED <<ln_Succ, ln_Pred>> PROVE ListsInv'
  <2>1. Pair' = Pair BY <1>7 DEF Pair
  <2> QED BY <2>1 DEF ListsInv
<1> QED BY <1>2, <1>3, <1>4, <1>5, <1>6, <1>7
        DEF ListsNext, RemoveNode, InsertBefore, InsertNode, Splice, ClearList, Cleared

(* Whatever calls are made, in any order: read forwards and backwards the   *)
(* lists agree, and each call does to every list what the sequence of its   *)
(* nodes says.                                                              *)
THEOREM ListsStaySequences == ListsSpec => []ListsAreSequences
<1>1. ListsInit => ListsInv BY ListsBegin
<1>2. ListsInv /\ [ListsNext]_<<ln_Succ, ln_Pred>> => ListsInv' BY ListsStep
<1>3. ListsInv => ListsAreSequences BY ListsAreLinked
<1> QED BY <1>1, <1>2, <1>3, PTL DEF ListsSpec

-----------------------------------------------------------------------------
(* THE POOL *)
AllCells == UNION {Range(CellsOf(b, chunks[b])) : b \in DOMAIN chunks}

PoolTypeInv ==
  /\ chunks \in Seq(Nat) /\ freeStore \in Seq(Nat \X Nat)
  /\ IsFiniteSet(used) /\ count \in Nat /\ release_when_unused \in BOOLEAN

PoolInv == PoolTypeInv /\ CellsAreSomewhere
-----------------------------------------------------------------------------
(* The cells of some chunks: pairs of a chunk and an index in it.           *)
LEMMA CellsOfChunks ==
  ASSUME NEW ch \in Seq(Nat), NEW c
  PROVE  c \in UNION {Range(CellsOf(b, ch[b])) : b \in DOMAIN ch}
         <=> \E b \in 1..Len(ch) : \E i \in 1..ch[b] : c = <<b, i>>
BY DEF Range, CellsOf

LEMMA CellsArePairs ==
  ASSUME PoolTypeInv
  PROVE  AllCells \subseteq Nat \X Nat
<1>1. ASSUME NEW c \in AllCells PROVE c \in Nat \X Nat
  <2>1. PICK b \in 1..Len(chunks) : \E i \in 1..chunks[b] : c = <<b, i>>
    BY <1>1, CellsOfChunks DEF PoolTypeInv, AllCells
  <2>2. Len(chunks) \in Nat /\ chunks[b] \in Nat BY DEF PoolTypeInv
  <2> QED BY <2>1, <2>2
<1> QED BY <1>1

(* Taking the first of a list without repetitions.                          *)
LEMMA HeadAndTail ==
  ASSUME NEW S, NEW s \in Seq(S), s # <<>>, IsInjective(s)
  PROVE  /\ Head(s) \in S /\ Tail(s) \in Seq(S) /\ IsInjective(Tail(s))
         /\ Range(s) = {Head(s)} \cup Range(Tail(s)) /\ Head(s) \notin Range(Tail(s))
<1>1. Len(s) \in Nat /\ Len(s) > 0 /\ DOMAIN s = 1..Len(s) OBVIOUS
<1>2. Head(s) = s[1] /\ s[1] \in S BY <1>1
<1>3. /\ Tail(s) \in Seq(S) /\ Len(Tail(s)) = Len(s) - 1
      /\ \A i \in 1..(Len(s) - 1) : Tail(s)[i] = s[i + 1]
  BY <1>1
<1>4. DOMAIN Tail(s) = 1..(Len(s) - 1) BY <1>3
<1>5. \A i, j \in 1..Len(s) : s[i] = s[j] => i = j BY <1>1 DEF IsInjective
<1>6. IsInjective(Tail(s))
  <2>1. ASSUME NEW i \in 1..(Len(s) - 1), NEW j \in 1..(Len(s) - 1), Tail(s)[i] = Tail(s)[j]
        PROVE  i = j
    <3>1. s[i + 1] = s[j + 1] /\ i + 1 \in 1..Len(s) /\ j + 1 \in 1..Len(s) BY <1>1, <1>3, <2>1
    <3>2. i + 1 = j + 1 BY <1>5, <3>1
    <3> QED BY <3>2
  <2> QED BY <1>4, <2>1 DEF IsInjective
<1>7. Head(s) \notin Range(Tail(s))
  <2>1. ASSUME NEW i \in 1..(Len(s) - 1) PROVE Tail(s)[i] # s[1]
    <3>1. Tail(s)[i] = s[i + 1] /\ i + 1 \in 1..Len(s) /\ i + 1 # 1 /\ 1 \in 1..Len(s)
      BY <1>1, <1>3
    <3> QED BY <1>5, <3>1
  <2> QED BY <1>2, <1>4, <2>1 DEF Range
<1>8. Range(s) = {Head(s)} \cup Range(Tail(s))
  <2>1. ASSUME NEW x \in Range(s) PROVE x \in {Head(s)} \cup Range(Tail(s))
    <3>1. PICK i \in 1..Len(s) : x = s[i] BY <1>1, <2>1 DEF Range
    <3>2. CASE i = 1 BY <1>2, <3>1, <3>2
    <3>3. CASE i # 1
      <4>1. i - 1 \in 1..(Len(s) - 1) /\ (i - 1) + 1 = i BY <1>1, <3>3
      <4>2. Tail(s)[i - 1] = s[i] BY <1>3, <4>1
      <4> QED BY <1>4, <3>1, <4>1, <4>2 DEF Range
    <3> QED BY <3>2, <3>3
  <2>2. ASSUME NEW x \in Range(Tail(s)) PROVE x \in Range(s)
    <3>1. PICK i \in 1..(Len(s) - 1) : x = Tail(s)[i] BY <1>4, <2>2 DEF Range
    <3>2. x = s[i + 1] /\ i + 1 \in 1..Len(s) BY <1>1, <1>3, <3>1
    <3> QED BY <1>1, <3>2 DEF Range
  <2>3. Head(s) \in Range(s) BY <1>1, <1>2 DEF Range
  <2> QED BY <2>1, <2>2, <2>3
<1> QED BY <1>2, <1>3, <1>6, <1>7, <1>8

(* Putting one in front of a list that does not have it.                    *)
LEMMA PutInFront ==
  ASSUME NEW S, NEW s \in Seq(S), NEW p \in S, IsInjective(s), p \notin Range(s)
  PROVE  /\ <<p>> \o s \in Seq(S) /\ IsInjective(<<p>> \o s)
         /\ Range(<<p>> \o s) = {p} \cup Range(s)
<1> DEFINE t == <<p>> \o s
<1>1. /\ t \in Seq(S) /\ Len(t) = Len(s) + 1 /\ t[1] = p /\ Len(s) \in Nat
      /\ \A i \in 2..(Len(s) + 1) : t[i] = s[i - 1]
  OBVIOUS
<1>2. DOMAIN t = 1..(Len(s) + 1) /\ DOMAIN s = 1..Len(s) BY <1>1
<1> HIDE DEF t
<1>3. \A i \in 2..(Len(s) + 1) : i - 1 \in 1..Len(s) /\ t[i] \in Range(s) /\ t[i] # p
  BY <1>1, <1>2 DEF Range
<1>4. IsInjective(t)
  <2>1. ASSUME NEW i \in 1..(Len(s) + 1), NEW j \in 1..(Len(s) + 1), t[i] = t[j]
        PROVE  i = j
    <3>1. CASE i = 1 \/ j = 1 BY <1>1, <1>3, <2>1, <3>1
    <3>2. CASE i # 1 /\ j # 1
      <4>1. i \in 2..(Len(s) + 1) /\ j \in 2..(Len(s) + 1) BY <1>1, <3>2
      <4>2. s[i - 1] = s[j - 1] /\ i - 1 \in 1..Len(s) /\ j - 1 \in 1..Len(s)
        BY <1>1, <1>3, <2>1, <4>1
      <4>3. i - 1 = j - 1 BY <1>2, <4>2 DEF IsInjective
      <4> QED BY <4>1, <4>3
    <3> QED BY <3>1, <3>2
  <2> QED BY <1>2, <2>1 DEF IsInjective
<1>5. Range(t) = {p} \cup Range(s)
  <2>1. ASSUME NEW x \in Range(t) PROVE x \in {p} \cup Range(s)
    <3>1. PICK i \in 1..(Len(s) + 1) : x = t[i] BY <1>2, <2>1 DEF Range
    <3>2. i = 1 \/ i \in 2..(Len(s) + 1) BY <1>1
    <3> QED BY <1>1, <1>3, <3>1, <3>2
  <2>2. ASSUME NEW x \in Range(s) PROVE x \in Range(t)
    <3>1. PICK i \in 1..Len(s) : x = s[i] BY <1>2, <2>2 DEF Range
    <3>2. /\ i + 1 \in 2..(Len(s) + 1) /\ i + 1 \in 1..(Len(s) + 1) /\ (i + 1) - 1 = i
      BY <1>1
    <3>3. t[i + 1] = x BY <1>1, <3>1, <3>2
    <3> QED BY <1>2, <3>2, <3>3 DEF Range
  <2>3. p \in Range(t) BY <1>1, <1>2 DEF Range
  <2> QED BY <2>1, <2>2, <2>3
<1> QED BY <1>1, <1>4, <1>5 DEF t
-----------------------------------------------------------------------------

(* A cell is handed out: from the free ones, or the first of a new chunk.   *)
LEMMA AllocateKeeps ==
  ASSUME PoolInv, NEW n \in 1..MaxCells, Allocate(n)
  PROVE  PoolInv'
<1>1. n \in Nat /\ n >= 1 OBVIOUS
<1>2. /\ chunks \in Seq(Nat) /\ Len(chunks) \in Nat /\ freeStore \in Seq(Nat \X Nat)
      /\ IsFiniteSet(used) /\ count \in Nat /\ release_when_unused \in BOOLEAN
      /\ AllCells = used \cup Range(freeStore) /\ used \cap Range(freeStore) = {}
      /\ IsInjective(freeStore) /\ count = Cardinality(used)
  BY DEF PoolInv, PoolTypeInv, CellsAreSomewhere, AllCells
<1> DEFINE free == IF freeStore = <<>> THEN CellsOf(Len(chunks) + 1, n) ELSE freeStore
<1>3. /\ freeStore' = Tail(free) /\ used' = used \cup {Head(free)} /\ count' = count + 1
      /\ release_when_unused' = release_when_unused
      /\ chunks' = IF freeStore = <<>> THEN Append(chunks, n) ELSE chunks
  BY DEF Allocate
<1>4. /\ free \in Seq(Nat \X Nat) /\ free # <<>> /\ IsInjective(free)
      /\ chunks' \in Seq(Nat) /\ chunks' # <<>>
      /\ AllCells' = used \cup Range(free) /\ used \cap Range(free) = {}
  <2>1. CASE freeStore = <<>>
    <3>1. free = [i \in 1..n |-> <<Len(chunks) + 1, i>>] BY <2>1 DEF CellsOf
    <3>2. chunks' = Append(chunks, n) BY <1>3, <2>1
    <3> HIDE DEF free
    <3>3. /\ free \in Seq(Nat \X Nat) /\ Len(free) = n /\ DOMAIN free = 1..n
          /\ \A i \in 1..n : free[i] = <<Len(chunks) + 1, i>>
      BY <1>1, <1>2, <3>1
    <3>4. free # <<>> BY <1>1, <3>3
    <3>5. IsInjective(free) BY <3>3 DEF IsInjective
    <3>6. /\ chunks' \in Seq(Nat) /\ Len(chunks') = Len(chunks) + 1
          /\ chunks'[Len(chunks) + 1] = n
          /\ \A b \in 1..Len(chunks) : chunks'[b] = chunks[b]
      BY <1>1, <1>2, <3>2
    <3>7. AllCells = used BY <1>2, <2>1 DEF Range
    <3>8. \A c : c \in Range(free) <=> \E i \in 1..n : c = <<Len(chunks) + 1, i>>
      BY <3>3 DEF Range
    <3>9. \A c : c \in AllCells' <=> \E b \in 1..Len(chunks') : \E i \in 1..chunks'[b] : c = <<b, i>>
      BY <3>6, CellsOfChunks DEF AllCells
    <3>10. \A c : c \in AllCells <=> \E b \in 1..Len(chunks) : \E i \in 1..chunks[b] : c = <<b, i>>
      BY <1>2, CellsOfChunks DEF AllCells
    <3>11. ASSUME NEW c PROVE c \in AllCells' <=> c \in AllCells \cup Range(free)
      <4>1. ASSUME c \in AllCells' PROVE c \in AllCells \cup Range(free)
        <5>1. PICK b \in 1..Len(chunks') : \E i \in 1..chunks'[b] : c = <<b, i>> BY <3>9, <4>1
        <5>2. CASE b = Len(chunks) + 1 BY <3>6, <3>8, <5>1, <5>2
        <5>3. CASE b # Len(chunks) + 1
          <6>1. b \in 1..Len(chunks)
            <7>1. Len(chunks) \in Nat BY <1>2
            <7> QED BY <3>6, <5>3, <7>1
          <6>2. chunks'[b] = chunks[b] BY <3>6, <6>1
          <6> QED BY <3>10, <5>1, <6>1, <6>2
        <5> QED BY <5>2, <5>3
      <4>2. ASSUME c \in AllCells PROVE c \in AllCells'
        <5>1. PICK b \in 1..Len(chunks) : \E i \in 1..chunks[b] : c = <<b, i>> BY <3>10, <4>2
        <5>2. b \in 1..Len(chunks') /\ chunks'[b] = chunks[b] BY <1>2, <3>6
        <5> QED BY <3>9, <5>1, <5>2
      <4>3. ASSUME c \in Range(free) PROVE c \in AllCells'
        <5>1. PICK i \in 1..n : c = <<Len(chunks) + 1, i>> BY <3>8, <4>3
        <5>2. Len(chunks) + 1 \in 1..Len(chunks') BY <1>2, <3>6
        <5> QED BY <3>6, <3>9, <5>1, <5>2
      <4> QED BY <4>1, <4>2, <4>3
    <3>12. ASSUME NEW c \in AllCells, c \in Range(free) PROVE FALSE
      <4>1. PICK b \in 1..Len(chunks) : \E i \in 1..chunks[b] : c = <<b, i>> BY <3>10
      <4>2. PICK j \in 1..n : c = <<Len(chunks) + 1, j>> BY <3>8, <3>12
      <4>3. b = Len(chunks) + 1 BY <4>1, <4>2
      <4> QED BY <1>2, <4>3
    <3>13. chunks' # <<>> BY <1>2, <3>6
    <3> QED BY <3>3, <3>4, <3>5, <3>6, <3>7, <3>11, <3>12, <3>13
  <2>2. CASE freeStore # <<>>
    <3>1. free = freeStore /\ chunks' = chunks BY <1>3, <2>2
    <3>2. AllCells' = AllCells BY <3>1 DEF AllCells
    <3>3. chunks # <<>>
      <4>0. 1 \in DOMAIN freeStore BY <1>2, <2>2
      <4>1. PICK c : c \in Range(freeStore)
        <5>1. freeStore[1] \in Range(freeStore) BY <4>0 DEF Range
        <5> QED BY <5>1
      <4>2. PICK b \in 1..Len(chunks) : \E i \in 1..chunks[b] : c = <<b, i>>
        BY <1>2, <4>1, CellsOfChunks DEF AllCells
      <4> QED BY <4>2
    <3> QED BY <1>2, <2>2, <3>1, <3>2, <3>3
  <2> QED BY <2>1, <2>2
<1> HIDE DEF free
<1>5. /\ Head(free) \in Nat \X Nat /\ Tail(free) \in Seq(Nat \X Nat) /\ IsInjective(Tail(free))
      /\ Range(free) = {Head(free)} \cup Range(Tail(free)) /\ Head(free) \notin Range(Tail(free))
  BY <1>4, HeadAndTail
<1>6. Head(free) \notin used BY <1>4, <1>5
<1>7. IsFiniteSet(used') /\ Cardinality(used') = Cardinality(used) + 1
  BY <1>2, <1>3, <1>6, FS_AddElement
<1>8. PoolTypeInv'
  <2>1. chunks' \in Seq(Nat) BY <1>4
  <2>2. freeStore' \in Seq(Nat \X Nat) BY <1>3, <1>5
  <2>3. count' \in Nat BY <1>2, <1>3
  <2> QED BY <1>2, <1>3, <1>7, <2>1, <2>2, <2>3 DEF PoolTypeInv
<1>9. AllCells' = used' \cup Range(freeStore') /\ used' \cap Range(freeStore') = {}
  BY <1>3, <1>4, <1>5
<1>10. count' = Cardinality(used') BY <1>2, <1>3, <1>7
<1>11. CellsAreSomewhere'
  BY <1>3, <1>5, <1>9, <1>10 DEF CellsAreSomewhere, AllCells
<1> QED BY <1>8, <1>11 DEF PoolInv

(* Nothing is left of a pool without chunks.                                *)
LEMMA EmptyPool ==
  ASSUME NEW r \in BOOLEAN, chunks' = <<>>, freeStore' = <<>>, count' = 0, used' = {},
         release_when_unused' = r
  PROVE  PoolInv'
<1>1. PoolTypeInv' BY FS_EmptySet DEF PoolTypeInv
<1>2. Range(freeStore') = {} /\ IsInjective(freeStore') BY DEF Range, IsInjective
<1>3. UNION {Range(CellsOf(b, chunks'[b])) : b \in DOMAIN chunks'} = {} OBVIOUS
<1>4. count' = Cardinality(used') BY FS_EmptySet
<1>5. CellsAreSomewhere' BY <1>2, <1>3, <1>4 DEF CellsAreSomewhere
<1> QED BY <1>1, <1>5 DEF PoolInv

(* A cell is given back, and every chunk with the last one.                 *)
LEMMA FreeCellKeeps ==
  ASSUME PoolInv, NEW p \in used, FreeCell(p)
  PROVE  PoolInv'
<1>1. /\ chunks \in Seq(Nat) /\ freeStore \in Seq(Nat \X Nat)
      /\ IsFiniteSet(used) /\ count \in Nat /\ release_when_unused \in BOOLEAN
      /\ AllCells = used \cup Range(freeStore) /\ used \cap Range(freeStore) = {}
      /\ IsInjective(freeStore) /\ count = Cardinality(used)
  BY DEF PoolInv, PoolTypeInv, CellsAreSomewhere, AllCells
<1>2. /\ count' = count - 1 /\ used' = used \ {p} /\ release_when_unused' = release_when_unused
  BY DEF FreeCell
<1>3. IsFiniteSet(used') /\ Cardinality(used') = Cardinality(used) - 1
  BY <1>1, <1>2, FS_RemoveElement
<1>4. Cardinality(used') \in Nat BY <1>3, FS_CardinalityType
<1>5. count' \in Nat /\ count' = Cardinality(used') BY <1>1, <1>2, <1>3, <1>4
<1>6. used' = {} <=> count' = 0 BY <1>3, <1>5, FS_EmptySet
<1>7. CASE GivesBack(count - 1)
  <2>1. chunks' = <<>> /\ freeStore' = <<>> /\ count' = 0 BY <1>2, <1>7 DEF FreeCell, GivesBack
  <2> QED BY <1>1, <1>2, <1>6, <2>1, EmptyPool
<1>8. CASE ~GivesBack(count - 1)
  <2>1. chunks' = chunks /\ freeStore' = <<p>> \o freeStore BY <1>8 DEF FreeCell
  <2>2. ~(release_when_unused' /\ used' = {}) BY <1>2, <1>6, <1>8 DEF GivesBack
  <2>3. p \in Nat \X Nat /\ p \notin Range(freeStore)
    BY <1>1, CellsArePairs DEF PoolInv
  <2>4. /\ freeStore' \in Seq(Nat \X Nat) /\ IsInjective(freeStore')
        /\ Range(freeStore') = {p} \cup Range(freeStore)
    BY <1>1, <2>1, <2>3, PutInFront
  <2>5. AllCells' = AllCells BY <2>1 DEF AllCells
  <2>6. AllCells' = used' \cup Range(freeStore') /\ used' \cap Range(freeStore') = {}
    BY <1>1, <1>2, <2>4, <2>5
  <2>7. PoolTypeInv' BY <1>1, <1>2, <1>3, <1>5, <2>1, <2>4 DEF PoolTypeInv
  <2>8. CellsAreSomewhere'
    BY <1>5, <2>2, <2>4, <2>6 DEF CellsAreSomewhere, AllCells
  <2> QED BY <2>7, <2>8 DEF PoolInv
<1> QED BY <1>7, <1>8

LEMMA DestroyedKeeps ==
  ASSUME PoolInv, PoolDestroyed
  PROVE  PoolInv'
<1>1. CASE count = 0
  <2>1. used = {}
    BY <1>1, FS_EmptySet DEF PoolInv, PoolTypeInv, CellsAreSomewhere
  <2>2. chunks' = <<>> /\ freeStore' = <<>> /\ count' = 0 /\ used' = {}
        /\ release_when_unused' = release_when_unused
    BY <1>1, <2>1 DEF PoolDestroyed
  <2> QED BY <2>2, EmptyPool DEF PoolInv, PoolTypeInv
<1>2. CASE count # 0
  <2>1. UNCHANGED pool BY <1>2 DEF PoolDestroyed, pool
  <2> QED BY <2>1 DEF pool, PoolInv, PoolTypeInv, CellsAreSomewhere
<1> QED BY <1>1, <1>2
-----------------------------------------------------------------------------
(* A cell is in use or in the list of free cells, there once, as long as    *)
(* its chunk is there; no chunk goes under a cell in use, and a pool that   *)
(* gives back keeps nothing when the last cell is free (dmFastMemory.cpp),  *)
(* for any number of chunks of any sizes.                                   *)
THEOREM CellsAreKept == PoolSpec => []CellsAreSomewhere
<1>1. PoolInit => PoolInv
  <2> SUFFICES ASSUME PoolInit PROVE PoolInv OBVIOUS
  <2>1. PoolTypeInv BY FS_EmptySet DEF PoolInit, PoolTypeInv
  <2>2. Range(freeStore) = {} /\ IsInjective(freeStore) BY DEF PoolInit, Range, IsInjective
  <2>3. UNION {Range(CellsOf(b, chunks[b])) : b \in DOMAIN chunks} = {} BY DEF PoolInit
  <2>4. CellsAreSomewhere
    BY <2>2, <2>3, FS_EmptySet DEF PoolInit, CellsAreSomewhere
  <2> QED BY <2>1, <2>4 DEF PoolInv
<1>2. PoolInv /\ [PoolNext]_pool => PoolInv'
  <2> SUFFICES ASSUME PoolInv, [PoolNext]_pool PROVE PoolInv' OBVIOUS
  <2>1. ASSUME NEW n \in 1..MaxCells, Allocate(n) PROVE PoolInv' BY <2>1, AllocateKeeps
  <2>2. ASSUME NEW p \in used, FreeCell(p) PROVE PoolInv' BY <2>2, FreeCellKeeps
  <2>3. CASE PoolDestroyed BY <2>3, DestroyedKeeps
  <2>4. CASE UNCHANGED pool BY <2>4 DEF pool, PoolInv, PoolTypeInv, CellsAreSomewhere
  <2> QED BY <2>1, <2>2, <2>3, <2>4 DEF PoolNext
<1>3. PoolInv => CellsAreSomewhere BY DEF PoolInv
<1> QED BY <1>1, <1>2, <1>3, PTL DEF PoolSpec

-----------------------------------------------------------------------------
(* STREAMS *)

(* Until a consumer calls back: the offsets are in the data, the bytes      *)
(* delivered are those from where the stream was set to where it stands,    *)
(* and a consumer is offered no more than there is left.                    *)
OffsetsInv ==
  /\ open \in BOOLEAN /\ apart \in BOOLEAN
  /\ mOffset \in Nat /\ mLeft \in Nat /\ mFile \in Nat
  /\ mLength = IF open THEN Length ELSE 0
  /\ mOffset + mLeft = mLength
GotInv == from \in Nat /\ from <= mOffset /\ got = Bytes(from, mOffset - from)
FileInv == open /\ ~apart => mFile = mOffset
ConsumerInv ==
  consumer # Nobody =>
    /\ consumer.amount \in Nat /\ consumer.wanted \in Nat
    /\ consumer.amount <= mLeft /\ consumer.amount <= consumer.wanted

StreamsInv ==
  /\ reentered \in BOOLEAN
  /\ ~reentered => OffsetsInv /\ GotInv /\ FileInv /\ ConsumerInv
-----------------------------------------------------------------------------
(* A number below Wrap is not changed by it.                                *)
LEMMA NoWrap ==
  ASSUME NEW n \in Nat, n <= Length
  PROVE  Up(n) = n
BY Widths DEF Up

LEMMA UpType ==
  ASSUME NEW n \in Int
  PROVE  Up(n) \in Nat
BY Widths DEF Up

(* Bytes in two pieces.                                                     *)
LEMMA BytesJoin ==
  ASSUME NEW a \in Nat, NEW n \in Nat, NEW k \in Nat
  PROVE  /\ Bytes(a, n) \o Bytes(a + n, k) = Bytes(a, n + k)
         /\ Len(Bytes(a, n)) = n /\ Bytes(a, 0) = <<>>
<1>1. Bytes(a, n) \in Seq(Nat) /\ Len(Bytes(a, n)) = n BY DEF Bytes
<1>2. Bytes(a + n, k) \in Seq(Nat) /\ Len(Bytes(a + n, k)) = k BY DEF Bytes
<1>3. Bytes(a, n + k) \in Seq(Nat) /\ Len(Bytes(a, n + k)) = n + k BY DEF Bytes
<1>4. Bytes(a, 0) = <<>> BY DEF Bytes
<1> DEFINE j == Bytes(a, n) \o Bytes(a + n, k)
<1>5. j \in Seq(Nat) /\ Len(j) = n + k BY <1>1, <1>2
<1>6. ASSUME NEW i \in 1..(n + k) PROVE j[i] = Bytes(a, n + k)[i]
  <2>1. Bytes(a, n + k)[i] = a + i BY DEF Bytes
  <2>2. CASE i <= n
    <3>1. j[i] = Bytes(a, n)[i] BY <1>1, <1>2, <2>2
    <3> QED BY <2>1, <2>2, <3>1 DEF Bytes
  <2>3. CASE i > n
    <3>1. i - n \in 1..k BY <2>3
    <3>2. j[i] = Bytes(a + n, k)[i - n] BY <1>1, <1>2, <2>3, <3>1
    <3>3. Bytes(a + n, k)[i - n] = a + n + (i - n) BY <3>1 DEF Bytes
    <3>4. a + n + (i - n) = a + i OBVIOUS
    <3> QED BY <2>1, <3>2, <3>3, <3>4
  <2>4. i \in Int /\ (i <= n \/ i > n) OBVIOUS
  <2> QED BY <2>2, <2>3, <2>4
<1> HIDE DEF j
<1>7. j = Bytes(a, n + k) BY <1>3, <1>5, <1>6
<1> QED BY <1>1, <1>4, <1>7 DEF j
-----------------------------------------------------------------------------

(* Bytes that are passed are delivered.                                     *)
LEMMA PassedKeeps ==
  ASSUME OffsetsInv, GotInv, NEW n \in Nat, n <= mLeft, Passed(n),
         got' = got \o Bytes(mOffset, n), from' = from, open' = open, mLength' = mLength,
         apart' \in BOOLEAN, mFile' \in Nat
  PROVE  OffsetsInv' /\ GotInv' /\ mOffset' = mOffset + n /\ mLeft' = mLeft - n
<1>1. /\ mOffset \in Nat /\ mLeft \in Nat /\ mLength \in Nat /\ mLength <= Length
      /\ mOffset + mLeft = mLength /\ Length \in Nat
  BY Widths DEF OffsetsInv
<1>2. /\ mOffset + n \in Nat /\ mOffset + n <= Length /\ mLeft - n \in Nat /\ mLeft - n <= Length
  BY <1>1
<1>3. mOffset' = mOffset + n /\ mLeft' = mLeft - n
  BY <1>2, NoWrap DEF Passed
<1>4. OffsetsInv' BY <1>1, <1>2, <1>3 DEF OffsetsInv
<1>5. GotInv'
  <2>1. from \in Nat /\ mOffset - from \in Nat /\ from + (mOffset - from) = mOffset
    BY <1>1 DEF GotInv
  <2> DEFINE k == mOffset - from
  <2>2. Bytes(from, k) \o Bytes(from + k, n) = Bytes(from, k + n)
    <3>1. k \in Nat BY <2>1
    <3> HIDE DEF k
    <3> QED BY <2>1, <3>1, BytesJoin
  <2>3. got' = Bytes(from, (mOffset - from) + n) BY <2>1, <2>2 DEF GotInv
  <2>4. (mOffset - from) + n = mOffset' - from' BY <1>1, <1>3, <2>1
  <2>5. from' \in Nat /\ from' <= mOffset' BY <1>1, <1>3, <2>1
  <2> QED BY <2>3, <2>4, <2>5 DEF GotInv
<1> QED BY <1>3, <1>4, <1>5

(* The stream is set to a place in its data.                                *)
LEMMA SetKeeps ==
  ASSUME NEW at \in Nat, open' \in BOOLEAN, apart' \in BOOLEAN, mFile' \in Nat,
         mLength' = (IF open' THEN Length ELSE 0), at <= mLength',
         mOffset' = at, mLeft' = mLength' - at, got' = <<>>, from' = at
  PROVE  OffsetsInv' /\ GotInv'
<1>1. mLength' \in Nat BY Widths
<1>2. OffsetsInv' BY <1>1 DEF OffsetsInv
<1>3. Bytes(at, at - at) = <<>> BY BytesJoin
<1>4. GotInv' BY <1>3 DEF GotInv
<1> QED BY <1>2, <1>4

(* No call is made while a consumer runs, as long as none has been.         *)
LEMMA CallsFact ==
  ASSUME Calls, ~reentered'
  PROVE  ~reentered /\ consumer = Nobody
BY DEF Calls

LEMMA OfferKeeps ==
  ASSUME NEW left \in Nat, NEW wanted \in Nat, Offer(left, wanted), mLeft' = left
  PROVE  ConsumerInv'
<1>1. Smaller(left, wanted) \in Nat /\ Smaller(left, wanted) <= left
      /\ Smaller(left, wanted) <= wanted
  BY DEF Smaller
<1>2. CASE Smaller(left, wanted) = 0
  BY <1>2 DEF Offer, ConsumerInv
<1>3. CASE Smaller(left, wanted) # 0
  <2>1. consumer' = [amount |-> Smaller(left, wanted), wanted |-> wanted]
    BY <1>3 DEF Offer
  <2>2. consumer'.amount = Smaller(left, wanted) /\ consumer'.wanted = wanted BY <2>1
  <2> QED BY <1>1, <2>2 DEF ConsumerInv
<1> QED BY <1>2, <1>3

(* What the file passes: no more than it has.                               *)
LEMMA FilePassedFact ==
  ASSUME NEW n \in Nat, mFile \in Nat, FilePassed(n)
  PROVE  /\ mFile' \in Nat
         /\ mFile <= Length => mFile' = mFile + Smaller(Length - mFile, n)
BY Widths DEF FilePassed, Smaller
-----------------------------------------------------------------------------
LEMMA StreamsInitHolds ==
  ASSUME StreamsInit
  PROVE  StreamsInv
<1>1. Bytes(0, 0) = <<>> BY DEF Bytes
<1>2. OffsetsInv
  <2>1. open \in BOOLEAN /\ apart \in BOOLEAN BY DEF StreamsInit
  <2>2. mLength = IF open THEN Length ELSE 0 BY DEF StreamsInit
  <2>3. /\ mOffset \in Nat /\ mLeft \in Nat /\ mFile \in Nat
        /\ mOffset + mLeft = mLength
    BY DEF StreamsInit
  <2> QED BY <2>1, <2>2, <2>3 DEF OffsetsInv
<1>3. GotInv BY <1>1 DEF StreamsInit, GotInv
<1> QED BY <1>2, <1>3 DEF StreamsInit, StreamsInv, FileInv, ConsumerInv

LEMMA InitStreamsKeeps ==
  ASSUME StreamsInv, InitStreams, ~reentered'
  PROVE  OffsetsInv' /\ GotInv' /\ FileInv' /\ ConsumerInv'
<1>1. ~reentered /\ consumer = Nobody BY CallsFact DEF InitStreams
<1>2. OffsetsInv BY <1>1 DEF StreamsInv
<1>3. /\ ~open /\ open' = TRUE /\ mLength' = Length /\ mLeft' = Length /\ mFile' = 0
      /\ got' = <<>> /\ from' = mOffset /\ apart' = FALSE /\ mOffset' = mOffset
      /\ consumer' = consumer
  BY DEF InitStreams, Starts
<1>4. mOffset = 0 BY <1>2, <1>3 DEF OffsetsInv
<1>5. Length \in Nat /\ Length - 0 = Length BY Widths
<1>6. OffsetsInv' /\ GotInv'
  <2>1. open' \in BOOLEAN /\ apart' \in BOOLEAN BY <1>3
  <2>2. mLength' = (IF open' THEN Length ELSE 0) BY <1>3
  <2>3. /\ mFile' \in Nat /\ 0 <= mLength' /\ mOffset' = 0 /\ mLeft' = mLength' - 0
        /\ got' = <<>> /\ from' = 0
    BY <1>3, <1>4, <1>5
  <2> QED BY <2>1, <2>2, <2>3, SetKeeps
<1>7. FileInv' BY <1>3, <1>4 DEF FileInv
<1> QED BY <1>1, <1>3, <1>6, <1>7 DEF ConsumerInv

LEMMA CloseKeeps ==
  ASSUME StreamsInv, Close, ~reentered'
  PROVE  OffsetsInv' /\ GotInv' /\ FileInv' /\ ConsumerInv'
<1>1. ~reentered /\ consumer = Nobody BY CallsFact DEF Close
<1>2. OffsetsInv BY <1>1 DEF StreamsInv
<1>3. /\ open' = FALSE /\ mLength' = 0 /\ mOffset' = 0 /\ mLeft' = 0
      /\ got' = <<>> /\ from' = 0 /\ mFile' = mFile /\ consumer' = consumer /\ apart' = apart
  BY DEF Close, Starts
<1>4. mFile' \in Nat /\ apart' \in BOOLEAN BY <1>2, <1>3 DEF OffsetsInv
<1>5. OffsetsInv' /\ GotInv'
  <2>1. open' \in BOOLEAN BY <1>3
  <2>2. mLength' = (IF open' THEN Length ELSE 0) BY <1>3
  <2>3. 0 <= mLength' /\ mOffset' = 0 /\ mLeft' = mLength' - 0 /\ got' = <<>> /\ from' = 0
    BY <1>3
  <2> QED BY <1>4, <2>1, <2>2, <2>3, SetKeeps
<1> QED BY <1>1, <1>3, <1>5 DEF FileInv, ConsumerInv

LEMMA SetEOFKeeps ==
  ASSUME StreamsInv, SetEOF, ~reentered'
  PROVE  OffsetsInv' /\ GotInv' /\ FileInv' /\ ConsumerInv'
<1>1. ~reentered /\ consumer = Nobody BY CallsFact DEF SetEOF
<1>2. OffsetsInv BY <1>1 DEF StreamsInv
<1>3. /\ open /\ open' = open /\ mLength' = mLength /\ mLeft' = 0 /\ mOffset' = mLength
      /\ mFile' = Length /\ got' = <<>> /\ from' = mLength /\ consumer' = consumer
      /\ apart' = apart
  BY DEF SetEOF, Starts
<1>4. Length \in Nat /\ mLength = Length /\ mLength - mLength = 0
  BY <1>2, <1>3, Widths DEF OffsetsInv
<1>5. open' \in BOOLEAN /\ apart' \in BOOLEAN BY <1>2, <1>3 DEF OffsetsInv
<1>6. OffsetsInv' /\ GotInv' BY <1>3, <1>4, <1>5, SetKeeps
<1>7. FileInv' BY <1>3, <1>4 DEF FileInv
<1> QED BY <1>1, <1>3, <1>6, <1>7 DEF ConsumerInv

LEMMA ReadKeeps ==
  ASSUME StreamsInv, NEW asked \in Nat, Read(asked), ~reentered'
  PROVE  OffsetsInv' /\ GotInv' /\ FileInv' /\ ConsumerInv'
<1>1. ~reentered /\ consumer = Nobody BY CallsFact DEF Read
<1>2. OffsetsInv /\ GotInv /\ FileInv BY <1>1 DEF StreamsInv
<1> DEFINE n == Smaller(mLeft, asked)
<1>3. /\ open /\ Passed(n) /\ got' = got \o Bytes(mOffset, n) /\ FilePassed(asked)
      /\ open' = open /\ mLength' = mLength /\ consumer' = consumer /\ from' = from
      /\ apart' = apart
  BY DEF Read
<1>4. n \in Nat /\ n <= mLeft BY <1>2 DEF OffsetsInv, Smaller
<1>5. /\ mFile \in Nat /\ mOffset \in Nat /\ mLeft \in Nat /\ Length \in Nat
      /\ mOffset + mLeft = Length /\ apart \in BOOLEAN
  BY <1>2, <1>3, Widths DEF OffsetsInv
<1>6. mFile' \in Nat /\ (mFile <= Length => mFile' = mFile + Smaller(Length - mFile, asked))
  BY <1>3, <1>5, FilePassedFact
<1>7. ~apart => mFile' = mOffset + n
  <2> SUFFICES ASSUME ~apart PROVE mFile' = mOffset + n OBVIOUS
  <2>1. mFile = mOffset BY <1>2, <1>3 DEF FileInv
  <2>2. mFile <= Length /\ Length - mFile = mLeft BY <1>5, <2>1
  <2> QED BY <1>6, <2>1, <2>2
<1> HIDE DEF n
<1>8. apart' \in BOOLEAN BY <1>3, <1>5
<1>9. OffsetsInv' /\ GotInv' /\ mOffset' = mOffset + n
  BY <1>2, <1>3, <1>4, <1>6, <1>8, PassedKeeps
<1>10. FileInv' BY <1>3, <1>7, <1>9 DEF FileInv
<1> QED BY <1>1, <1>3, <1>9, <1>10 DEF ConsumerInv

LEMMA SkipKeeps ==
  ASSUME StreamsInv, NEW asked \in Nat, Skip(asked), ~reentered'
  PROVE  OffsetsInv' /\ GotInv' /\ FileInv' /\ ConsumerInv'
<1>1. ~reentered /\ consumer = Nobody BY CallsFact DEF Skip
<1>2. OffsetsInv /\ GotInv /\ FileInv BY <1>1 DEF StreamsInv
<1> DEFINE n == Smaller(mLeft, asked)
<1>3. /\ open /\ Passed(n) /\ got' = got \o Bytes(mOffset, n) /\ mFile' = mFile + asked
      /\ open' = open /\ mLength' = mLength /\ consumer' = consumer /\ from' = from
      /\ apart' = (apart \/ mFile + asked > Length)
  BY DEF Skip
<1>4. n \in Nat /\ n <= mLeft BY <1>2 DEF OffsetsInv, Smaller
<1>5. /\ mFile \in Nat /\ mOffset \in Nat /\ mLeft \in Nat /\ Length \in Nat
      /\ mOffset + mLeft = Length
  BY <1>2, <1>3, Widths DEF OffsetsInv
<1>6. ASSUME ~apart' PROVE mFile' = mOffset + n
  <2>1. mFile = mOffset BY <1>2, <1>3, <1>6 DEF FileInv
  <2>2. ~(mFile + asked > Length) BY <1>3, <1>6
  <2>3. asked <= mLeft BY <1>5, <2>1, <2>2
  <2>4. n = asked BY <1>5, <2>3 DEF Smaller
  <2> QED BY <1>3, <2>1, <2>4
<1> HIDE DEF n
<1>7. apart' \in BOOLEAN BY <1>3
<1>8. mFile' \in Nat BY <1>3, <1>5
<1>9. OffsetsInv' /\ GotInv' /\ mOffset' = mOffset + n
  BY <1>2, <1>3, <1>4, <1>7, <1>8, PassedKeeps
<1>10. FileInv' BY <1>6, <1>9 DEF FileInv
<1> QED BY <1>1, <1>3, <1>9, <1>10 DEF ConsumerInv

(* Seeking from the end goes backwards in memory and forwards in the file:  *)
(* only the end itself is the same place.                                   *)
LEMMA SeekKeeps ==
  ASSUME StreamsInv, NEW whence \in {"SET", "CUR", "END"}, NEW offset \in 0..Wrap - 1,
         Seek(whence, offset), ~reentered'
  PROVE  OffsetsInv' /\ GotInv' /\ FileInv' /\ ConsumerInv'
<1>1. ~reentered /\ consumer = Nobody BY CallsFact DEF Seek
<1>2. OffsetsInv /\ GotInv /\ FileInv BY <1>1 DEF StreamsInv
<1> DEFINE at == InMemory(whence, offset)
           file == InFile(whence, offset)
<1>3. /\ open /\ mFile' = file /\ apart' = (apart \/ file > Length)
      /\ open' = open /\ mLength' = mLength /\ consumer' = consumer
      /\ IF at <= mLength THEN mOffset' = at /\ mLeft' = Up(mLength - at) /\ got' = <<>> /\ from' = at
         ELSE UNCHANGED <<mOffset, mLeft, got, from>>
  BY DEF Seek, Starts
<1>4. /\ mFile \in Nat /\ mOffset \in Nat /\ mLeft \in Nat /\ Length \in Nat
      /\ mOffset + mLeft = Length /\ mLength = Length /\ open \in BOOLEAN
      /\ offset \in Nat /\ offset + mOffset \in Int /\ Length - offset \in Int
  BY <1>2, <1>3, Widths DEF OffsetsInv
<1>5. /\ whence = "SET" => at = offset /\ file = offset
      /\ whence = "CUR" => at = Up(offset + mOffset) /\ file = mFile + offset
      /\ whence = "END" => at = Up(Length - offset) /\ file = Length + offset
  BY <1>4 DEF InMemory, InFile
<1>6. at \in Nat /\ file \in Nat
  <2>1. CASE whence = "SET" BY <1>4, <1>5, <2>1
  <2>2. CASE whence = "CUR" BY <1>4, <1>5, <2>2, UpType
  <2>3. CASE whence = "END" BY <1>4, <1>5, <2>3, UpType
  <2> QED BY <2>1, <2>2, <2>3
<1>7. ASSUME ~apart, file <= Length PROVE at = file
  <2>1. mFile = mOffset BY <1>2, <1>3, <1>7 DEF FileInv
  <2>2. CASE whence = "SET" BY <1>5, <2>2
  <2>3. CASE whence = "CUR"
    <3>1. offset + mOffset \in Nat /\ offset + mOffset <= Length BY <1>4, <1>5, <1>7, <2>1, <2>3
    <3>2. at = offset + mOffset BY <1>5, <2>3, <3>1, NoWrap
    <3> QED BY <1>4, <1>5, <2>1, <2>3, <3>2
  <2>4. CASE whence = "END"
    <3>1. offset = 0 BY <1>4, <1>5, <1>7, <2>4
    <3>2. Length - offset \in Nat /\ Length - offset <= Length BY <1>4, <3>1
    <3>3. at = Length - offset BY <1>5, <2>4, <3>2, NoWrap
    <3> QED BY <1>4, <1>5, <2>4, <3>1, <3>3
  <2> QED BY <2>2, <2>3, <2>4
<1> HIDE DEF at, file
<1>8. apart' \in BOOLEAN /\ open' \in BOOLEAN BY <1>3, <1>4
<1>9. mFile' \in Nat BY <1>3, <1>6
<1>10. OffsetsInv' /\ GotInv'
  <2>1. CASE at <= mLength
    <3>1. mLength - at \in Nat /\ mLength - at <= Length BY <1>4, <1>6, <2>1
    <3>2. mLeft' = mLength' - at BY <1>3, <2>1, <3>1, NoWrap
    <3>3. mLength' = IF open' THEN Length ELSE 0 BY <1>3, <1>4
    <3>4. at <= mLength' /\ mOffset' = at /\ got' = <<>> /\ from' = at BY <1>3, <2>1
    <3> QED BY <1>6, <1>8, <1>9, <3>2, <3>3, <3>4, SetKeeps
  <2>2. CASE ~(at <= mLength)
    <3>1. UNCHANGED <<mOffset, mLeft, got, from>> BY <1>3, <2>2
    <3>2. mLength' = IF open' THEN Length ELSE 0 BY <1>3, <1>4
    <3>3. OffsetsInv' BY <1>3, <1>4, <1>8, <1>9, <3>1, <3>2 DEF OffsetsInv
    <3>4. GotInv' BY <1>2, <3>1 DEF GotInv
    <3> QED BY <3>3, <3>4
  <2> QED BY <2>1, <2>2
<1>11. FileInv'
  <2>1. ASSUME ~apart' PROVE mFile' = mOffset'
    <3>1. ~apart /\ ~(file > Length) BY <1>3, <2>1
    <3>2. file <= Length BY <1>4, <1>6, <3>1
    <3>3. at = file BY <1>7, <3>1, <3>2
    <3> QED BY <1>3, <1>4, <3>2, <3>3
  <2> QED BY <2>1 DEF FileInv
<1> QED BY <1>1, <1>3, <1>10, <1>11 DEF ConsumerInv

LEMMA ReadSegmentsKeeps ==
  ASSUME StreamsInv, NEW asked \in Nat, ReadSegments(asked), ~reentered'
  PROVE  OffsetsInv' /\ GotInv' /\ FileInv' /\ ConsumerInv'
<1>1. /\ Offer(mLeft, asked)
      /\ UNCHANGED <<open, mLength, mOffset, mLeft, mFile, got, from, reentered, apart>>
  BY DEF ReadSegments
<1>2. OffsetsInv /\ GotInv /\ FileInv BY <1>1 DEF StreamsInv
<1>3. ConsumerInv' BY <1>1, <1>2, OfferKeeps DEF OffsetsInv
<1>4. OffsetsInv' BY <1>1, <1>2 DEF OffsetsInv
<1>5. GotInv' BY <1>1, <1>2 DEF GotInv
<1>6. FileInv' BY <1>1, <1>2 DEF FileInv
<1> QED BY <1>3, <1>4, <1>5, <1>6

(* A consumer that has not called the stream takes no more than there is.   *)
LEMMA SegmentKeeps ==
  ASSUME StreamsInv, NEW took \in Nat, Segment(took), ~reentered'
  PROVE  OffsetsInv' /\ GotInv' /\ FileInv' /\ ConsumerInv'
<1>1. /\ consumer # Nobody /\ took \in 1..consumer.amount
      /\ Passed(took) /\ got' = got \o Bytes(mOffset, took) /\ FilePassed(took)
      /\ Offer(mLeft', consumer.wanted - took)
      /\ open' = open /\ mLength' = mLength /\ from' = from /\ reentered' = reentered
      /\ apart' = apart
  BY DEF Segment
<1>2. OffsetsInv /\ GotInv /\ FileInv /\ ConsumerInv BY <1>1 DEF StreamsInv
<1>3. /\ consumer.amount \in Nat /\ consumer.wanted \in Nat
      /\ consumer.amount <= mLeft /\ consumer.amount <= consumer.wanted
  BY <1>1, <1>2 DEF ConsumerInv
<1>4. /\ mFile \in Nat /\ mOffset \in Nat /\ mLeft \in Nat /\ Length \in Nat
      /\ apart \in BOOLEAN /\ mOffset + mLeft = mLength
      /\ mLength = IF open THEN Length ELSE 0
  BY <1>2, Widths DEF OffsetsInv
<1>5. took <= mLeft /\ consumer.wanted - took \in Nat BY <1>1, <1>3, <1>4
<1>6. mFile' \in Nat /\ (mFile <= Length => mFile' = mFile + Smaller(Length - mFile, took))
  BY <1>1, <1>4, FilePassedFact
<1>7. apart' \in BOOLEAN BY <1>1, <1>4
<1>8. OffsetsInv' /\ GotInv' /\ mOffset' = mOffset + took /\ mLeft' = mLeft - took
  BY <1>1, <1>2, <1>5, <1>6, <1>7, PassedKeeps
<1>9. FileInv'
  <2>1. ASSUME open, ~apart PROVE mFile' = mOffset + took
    <3>1. mFile = mOffset BY <1>2, <2>1 DEF FileInv
    <3>2. mFile <= Length /\ Length - mFile = mLeft BY <1>4, <2>1, <3>1
    <3>3. Smaller(mLeft, took) = took BY <1>4, <1>5 DEF Smaller
    <3> QED BY <1>6, <3>1, <3>2, <3>3
  <2> QED BY <1>1, <1>8, <2>1 DEF FileInv
<1>10. mLeft' \in Nat BY <1>8 DEF OffsetsInv
<1>11. ConsumerInv' BY <1>1, <1>5, <1>10, OfferKeeps
<1> QED BY <1>8, <1>9, <1>11

LEMMA RefusedKeeps ==
  ASSUME StreamsInv, Refused, ~reentered'
  PROVE  OffsetsInv' /\ GotInv' /\ FileInv' /\ ConsumerInv'
<1>1. /\ consumer' = Nobody
      /\ UNCHANGED <<open, mLength, mOffset, mLeft, mFile, got, from, reentered, apart>>
  BY DEF Refused
<1>2. OffsetsInv /\ GotInv /\ FileInv BY <1>1 DEF StreamsInv
<1>3. OffsetsInv' BY <1>1, <1>2 DEF OffsetsInv
<1>4. GotInv' BY <1>1, <1>2 DEF GotInv
<1>5. FileInv' BY <1>1, <1>2 DEF FileInv
<1> QED BY <1>1, <1>3, <1>4, <1>5 DEF ConsumerInv
-----------------------------------------------------------------------------
(* However reads, skips, seeks and segments are mixed, each byte is given   *)
(* once and in order, never more than there is, and the two streams stand   *)
(* at the same byte until one of them is moved where the other cannot be    *)
(* (cciMemoryInputStream.cpp, cciFileStreams.cpp): for every length of the data  *)
(* that is below 2^32.                                                      *)
THEOREM EveryByteOnce == StreamsSpec => []StreamsGiveTheData
<1>1. StreamsInit => StreamsInv BY StreamsInitHolds
<1>2. StreamsInv /\ [StreamsNext]_streams => StreamsInv'
  <2> SUFFICES ASSUME StreamsInv, [StreamsNext]_streams PROVE StreamsInv' OBVIOUS
  <2>1. reentered' \in BOOLEAN
    <3>1. reentered \in BOOLEAN BY DEF StreamsInv
    <3> QED
      BY <3>1 DEF StreamsNext, streams, InitStreams, Close, SetEOF, Refused, Read, Skip, ReadSegments,
                  Segment, Seek, Calls
  <2>2. ASSUME ~reentered' PROVE OffsetsInv' /\ GotInv' /\ FileInv' /\ ConsumerInv'
    <3>1. CASE InitStreams BY <2>2, <3>1, InitStreamsKeeps
    <3>2. CASE Close BY <2>2, <3>2, CloseKeeps
    <3>3. CASE SetEOF BY <2>2, <3>3, SetEOFKeeps
    <3>4. CASE Refused BY <2>2, <3>4, RefusedKeeps
    <3>5. ASSUME NEW n \in 0..Length, Read(n) \/ Skip(n) \/ ReadSegments(n) \/ Segment(n)
          PROVE  OffsetsInv' /\ GotInv' /\ FileInv' /\ ConsumerInv'
      <4>1. n \in Nat OBVIOUS
      <4> QED BY <2>2, <3>5, <4>1, ReadKeeps, SkipKeeps, ReadSegmentsKeeps, SegmentKeeps
    <3>6. ASSUME NEW whence \in {"SET", "CUR", "END"}, NEW n \in 0..Wrap - 1, Seek(whence, n)
          PROVE  OffsetsInv' /\ GotInv' /\ FileInv' /\ ConsumerInv'
      BY <2>2, <3>6, SeekKeeps
    <3>7. CASE UNCHANGED streams
      <4>1. ~reentered BY <2>2, <3>7 DEF streams
      <4> QED
        BY <3>7, <4>1 DEF streams, StreamsInv, OffsetsInv, GotInv, FileInv, ConsumerInv
    <3> QED BY <3>1, <3>2, <3>3, <3>4, <3>5, <3>6, <3>7 DEF StreamsNext
  <2> QED BY <2>1, <2>2 DEF StreamsInv
<1>3. StreamsInv => StreamsGiveTheData
  <2> SUFFICES ASSUME StreamsInv, ~reentered PROVE
         /\ mOffset + mLeft = mLength /\ mLength = IF open THEN Length ELSE 0
         /\ got = Bytes(from, Len(got)) /\ from + Len(got) = mOffset
         /\ open /\ ~apart => mFile = mOffset
    BY DEF StreamsGiveTheData
  <2>1. OffsetsInv /\ GotInv /\ FileInv BY DEF StreamsInv
  <2>2. mOffset - from \in Nat /\ from \in Nat /\ mOffset \in Nat
    BY <2>1 DEF OffsetsInv, GotInv
  <2>3. Len(got) = mOffset - from BY <2>1, <2>2, BytesJoin DEF GotInv
  <2> QED BY <2>1, <2>2, <2>3 DEF OffsetsInv, GotInv, FileInv
<1> QED BY <1>1, <1>2, <1>3, PTL DEF StreamsSpec
-----------------------------------------------------------------------------
(* DATES AND TIMES *)
(* How the code reads a Julian number: it makes every century one of the    *)
(* Julian calendar (Base), and has years that begin with March: year c, and *)
(* day d of it, counted from the 123rd on.                                  *)
Days == {n \in Int : 2299151 <= n /\ n <= 5738829}
Alpha(n) == (100 * (n - 1867216) - 25) \div 3652465
Base(n) == 1525 + n + Alpha(n) - Alpha(n) \div 4
YearOf(n) == (100 * Base(n) - 12210) \div 36525
DayOf(n) == Base(n) - (1461 * YearOf(n)) \div 4
LastDay(c) == IF c % 4 = 3 THEN 488 ELSE 487

MonthOf(d) == (10000 * d) \div 306001
DateOf(c, d) ==
  LET e == MonthOf(d)
      month == IF e - 1 > 12 THEN e - 13 ELSE e - 1
  IN [day |-> d - (306001 * e) \div 10000, month |-> month,
      year |-> IF month > 2 THEN c - 4716 ELSE c - 4715]

LEMMA AlphaFact ==
  ASSUME NEW n \in Days
  PROVE  /\ Alpha(n) \in 11..106
         /\ 3652465 * Alpha(n) <= 100 * (n - 1867216) - 25
         /\ 100 * (n - 1867216) - 25 < 3652465 * (Alpha(n) + 1)
         /\ Base(n) \in Int /\ YearOf(n) \in Int
<1>1. /\ Alpha(n) \in 11..106
      /\ 3652465 * Alpha(n) <= 100 * (n - 1867216) - 25
      /\ 100 * (n - 1867216) - 25 < 3652465 * (Alpha(n) + 1)
  BY SMT DEF Alpha, Days
<1>2. Base(n) \in Int BY SMT, <1>1 DEF Base, Days
<1>3. YearOf(n) \in Int BY SMT, <1>2 DEF YearOf
<1> QED BY SMT, <1>1, <1>2, <1>3

LEMMA ReadAs ==
  ASSUME NEW n \in Days
  PROVE  __dm_jultod(n) = DateOf(YearOf(n), DayOf(n))
<1> DEFINE b == Base(n)
           a == Alpha(n)
           c == YearOf(n)
           d == DayOf(n)
<1>1. a \in Int /\ b \in Int /\ c \in Int BY SMT, AlphaFact
<1>2. 1524 + (n + 1 + a - a \div 4) = b BY SMT, <1>1 DEF Base, Days
<1>3. n >= IGREG BY SMT DEF IGREG, Days
<1>4. 6680 + (100 * (b - 2439870) - 12210) \div 36525 = c BY SMT, <1>1 DEF YearOf
<1>5. b - (1461 * c) \div 4 = d BY SMT DEF DayOf
<1> DEFINE jc == 6680 + (100 * (b - 2439870) - 12210) \div 36525
           jd == (1461 * jc) \div 4
           je == (10000 * (b - jd)) \div 306001
           month == IF je - 1 > 12 THEN je - 13 ELSE je - 1
<1>6. __dm_jultod(n) =
        [day |-> b - jd - (306001 * je) \div 10000, month |-> month,
         year |-> IF month > 2 THEN jc - 4716 ELSE jc - 4715]
  BY SMT, <1>2, <1>3 DEF __dm_jultod, Alpha
<1>7. jc = c /\ b - jd = d BY SMT, <1>4, <1>5
<1> HIDE DEF jc, c, d, b
<1> QED BY SMT, <1>6, <1>7 DEF DateOf, MonthOf, c, d

LEMMA YearFact ==
  ASSUME NEW n \in Days
  PROVE  DayOf(n) \in 123..LastDay(YearOf(n))
<1> DEFINE b == Base(n)
           c == YearOf(n)
<1>1. b \in Int /\ c = (100 * b - 12210) \div 36525 BY SMT, AlphaFact DEF YearOf
<1> HIDE DEF b, c
<1>2. b - (1461 * c) \div 4 \in 123..IF c % 4 = 3 THEN 488 ELSE 487 BY SMT, <1>1
<1> QED BY SMT, <1>2 DEF DayOf, LastDay, b, c

LEMMA NextYearFact ==
  ASSUME NEW n \in Days, n + 1 \in Days, Base(n + 1) = Base(n) + 1
  PROVE  IF DayOf(n) = LastDay(YearOf(n))
         THEN YearOf(n + 1) = YearOf(n) + 1 /\ DayOf(n + 1) = 123
         ELSE YearOf(n + 1) = YearOf(n) /\ DayOf(n + 1) = DayOf(n) + 1
<1> DEFINE b == Base(n)
           c == YearOf(n)
           d == DayOf(n)
           g == YearOf(n + 1)
<1>1. b \in Int /\ c = (100 * b - 12210) \div 36525 /\ d = b - (1461 * c) \div 4
      /\ g = (100 * (b + 1) - 12210) \div 36525
      /\ DayOf(n + 1) = (b + 1) - (1461 * g) \div 4
  BY SMT, AlphaFact DEF YearOf, DayOf
<1> HIDE DEF b, c, d, g
<1>2. IF d = (IF c % 4 = 3 THEN 488 ELSE 487)
      THEN g = c + 1 /\ (b + 1) - (1461 * g) \div 4 = 123
      ELSE g = c /\ (b + 1) - (1461 * g) \div 4 = d + 1
  BY SMT, <1>1
<1> QED BY SMT, <1>1, <1>2 DEF LastDay, c, d, g

(* The new century begins at last, which is when the code's does not in the *)
(* first weeks of its March.                                                *)
LEMMA CenturyFact ==
  ASSUME NEW n \in Days, NEW a, a = Alpha(n), NEW c, c = YearOf(n)
  PROVE  /\ c >= 5116 + 100 * a /\ c <= 5216 + 100 * a
         /\ c = 5216 + 100 * a => DayOf(n) \in 123..164
         /\ c = 5216 + 100 * a /\ n <= 5738828 => DayOf(n) \in 123..163
<1>1. /\ a \in 11..106
      /\ 3652465 * a <= 100 * (n - 1867216) - 25
      /\ 100 * (n - 1867216) - 25 < 3652465 * (a + 1)
  BY SMT, AlphaFact
<1> DEFINE p == a \div 4
           r == a % 4
<1>2. p \in 2..26 /\ r \in 0..3 /\ a = 4 * p + r BY SMT, <1>1
<1>3. c = (100 * (1525 + n + a - p) - 12210) \div 36525 BY SMT DEF YearOf, Base
<1>4. DayOf(n) = (1525 + n + a - p) - (1461 * c) \div 4 BY SMT DEF DayOf, Base
<1>5. n \in Int BY SMT DEF Days
<1> HIDE DEF p, r
<1> QED BY SMT, <1>1, <1>2, <1>3, <1>4, <1>5

(* The days of the theorem, and those on which the code has begun the       *)
(* century, or has none to begin that differs from a Julian one.            *)
Covered == {n \in Days : 2299161 <= n /\ n <= 5738828}
OnTime(n) == YearOf(n) # 5216 + 100 * Alpha(n) \/ Alpha(n) % 4 = 3

(* Otherwise it is one of the days that MarchOfCentury leaves out.          *)
LEMMA LateIsNamed ==
  ASSUME NEW n \in Covered, ~OnTime(n)
  PROVE  MarchOfCentury(n)
<1> DEFINE a == Alpha(n)
           c == YearOf(n)
           d == DayOf(n)
           e == MonthOf(d)
           y == 500 + 100 * a
           february == __dm_dtojul(28, 2, y)
           late == (2 * (y \div 100) - 4) \div 5
<1>1. n \in Days /\ n <= 5738828 BY SMT DEF Covered
<1>2. a \in 11..106 /\ c = 5216 + 100 * a /\ d \in 123..163 /\ a % 4 # 3
  BY SMT, <1>1, AlphaFact, CenturyFact DEF OnTime
<1>3. __dm_jultod(n).year = y
  <2>1. __dm_jultod(n) = DateOf(c, d) BY <1>1, ReadAs
  <2>2. e \in {4, 5} BY SMT, <1>2 DEF MonthOf
  <2>3. DateOf(c, d).year = IF (IF e - 1 > 12 THEN e - 13 ELSE e - 1) > 2 THEN c - 4716 ELSE c - 4715
    BY DEF DateOf
  <2> HIDE DEF a, c, d, e
  <2> QED BY SMT, <1>2, <2>1, <2>2, <2>3
<1>4. y % 100 = 0 /\ ~Leap(y)
  <2>1. y % 100 = 0 /\ y % 400 # 0 BY SMT, <1>2
  <2> QED BY SMT, <2>1 DEF Leap
<1>5. n - february \in 0..late
  <2> DEFINE p == a \div 4
             r == a % 4
  <2>1. p \in 2..26 /\ r \in 0..2 /\ a = 4 * p + r BY SMT, <1>2
  <2>2. 28 + 31 * (2 + 12 * y) >= IGREG BY SMT, <1>2 DEF IGREG
  <2>3. february = (1461 * (y - 1)) \div 4 + 459 + 28 + 1720995 + 2 - (y - 1) \div 100
                   + ((y - 1) \div 100) \div 4
    BY SMT, <1>2, <2>2 DEF __dm_dtojul
  <2>4. (y - 1) \div 100 = a + 4 /\ (1461 * (y - 1)) \div 4 = 182259 + 36525 * a /\ y \div 100 = a + 5
    BY SMT, <1>2
  <2>5. /\ 3652465 * a <= 100 * (n - 1867216) - 25
        /\ 100 * (n - 1867216) - 25 < 3652465 * (a + 1)
    BY SMT, <1>1, AlphaFact
  <2>6. c = (100 * (1525 + n + a - p) - 12210) \div 36525 BY SMT DEF YearOf, Base
  <2>7. n \in Int BY SMT, <1>1 DEF Days
  <2>8. late = (2 * (a + 5) - 4) \div 5 BY <2>4
  <2> HIDE DEF a, c, y, february, late
  <2>9. (a + 4) \div 4 = p + 1 BY SMT, <2>1
  <2>10. february = 1903740 + 36524 * a + p BY SMT, <2>1, <2>3, <2>4, <2>9
  <2> HIDE DEF p, r
  <2>11. n - february >= 0 BY SMT, <1>2, <2>1, <2>6, <2>7, <2>10
  <2>12. n - february <= late BY SMT, <2>1, <2>5, <2>7, <2>8, <2>10
  <2>13. n - february \in Int /\ late \in Int BY SMT, <2>1, <2>7, <2>8, <2>10
  <2> QED BY SMT, <2>11, <2>12, <2>13
<1> QED BY <1>3, <1>4, <1>5 DEF MarchOfCentury

(* Otherwise the code counts the centuries right, the days of the calendar  *)
(* that were left out since, and days.                                      *)
LEMMA CenturiesAreRight ==
  ASSUME NEW n \in Covered, OnTime(n), NEW j, j = (YearOf(n) - 4716) \div 100
  PROVE  j \in Int /\ j - j \div 4 = Alpha(n) - Alpha(n) \div 4 + 3
<1> DEFINE a == Alpha(n)
           c == YearOf(n)
<1>1. n \in Days BY DEF Covered
<1>2. a \in Int /\ c \in Int /\ c >= 5116 + 100 * a /\ c <= 5216 + 100 * a
  BY SMT, <1>1, AlphaFact, CenturyFact
<1>3. c # 5216 + 100 * a \/ a % 4 = 3 BY DEF OnTime
<1>4. j = (c - 4716) \div 100 OBVIOUS
<1> HIDE DEF a, c
<1>5. j \in Int BY SMT, <1>2, <1>4
<1>6. j - j \div 4 = a - a \div 4 + 3 BY SMT, <1>2, <1>3, <1>4
<1> QED BY <1>5, <1>6 DEF a

LEMMA NextIsBehind ==
  ASSUME NEW n \in Covered, OnTime(n)
  PROVE  n + 1 \in Days /\ Base(n + 1) = Base(n) + 1
<1> DEFINE a == Alpha(n)
           b == Base(n)
           c == YearOf(n)
           h == Alpha(n + 1)
<1>1. n \in Days /\ n + 1 \in Days BY SMT DEF Covered, Days
<1>2. /\ a \in 11..106 /\ b = 1525 + n + a - a \div 4 /\ c = (100 * b - 12210) \div 36525
      /\ 3652465 * a <= 100 * (n - 1867216) - 25
      /\ 100 * (n - 1867216) - 25 < 3652465 * (a + 1)
  BY SMT, <1>1, AlphaFact DEF Base, YearOf
<1>3. c # 5216 + 100 * a \/ a % 4 = 3 BY DEF OnTime
<1>4. n \in Int BY SMT, <1>1 DEF Days
<1>5. h = (100 * (n + 1 - 1867216) - 25) \div 3652465
      /\ Base(n + 1) = 1525 + n + 1 + h - h \div 4
  BY SMT, <1>4 DEF Alpha, Base
<1> HIDE DEF a, b, c, h
<1>6. h = a \/ (h = a + 1 /\ a % 4 = 3) BY SMT, <1>2, <1>3, <1>4, <1>5
<1>7. h - h \div 4 = a - a \div 4 BY SMT, <1>2, <1>6
<1> QED BY SMT, <1>1, <1>2, <1>4, <1>5, <1>7 DEF b

LEMMA DateIsRead ==
  ASSUME NEW n \in Covered, OnTime(n), NEW t, t = __dm_jultod(n)
  PROVE  __dm_dtojul(t.day, t.month, t.year) = n
<1> DEFINE a == Alpha(n)
           b == Base(n)
           c == YearOf(n)
           d == DayOf(n)
           e == MonthOf(d)
           y == c - 4716
           j == y \div 100
           month == IF e - 1 > 12 THEN e - 13 ELSE e - 1
           year == IF month > 2 THEN c - 4716 ELSE c - 4715
           day == d - (306001 * e) \div 10000
<1>1. n \in Days /\ n \in Int /\ 2299161 <= n BY SMT DEF Covered, Days
<1>2. /\ a \in Int /\ a >= 11 /\ b = 1525 + n + a - a \div 4 /\ c = (100 * b - 12210) \div 36525
      /\ d = b - (1461 * c) \div 4
  BY SMT, <1>1, AlphaFact DEF Base, YearOf, DayOf
<1>3. j \in Int /\ j - j \div 4 = a - a \div 4 + 3 BY CenturiesAreRight
<1>4. d \in 123..488
  <2>1. d \in 123..LastDay(c) BY <1>1, YearFact
  <2>2. LastDay(c) = 487 \/ LastDay(c) = 488 BY DEF LastDay
  <2> HIDE DEF d, c
  <2> QED BY SMT, <2>1, <2>2
<1>5. t = [day |-> day, month |-> month, year |-> year] BY <1>1, ReadAs DEF DateOf
<1>6. e = (10000 * d) \div 306001 BY DEF MonthOf
<1> HIDE DEF a, b, c, d, e, j
<1>7. b \in Int /\ c \in Int BY SMT, <1>1, <1>2
<1>8. c >= 6298 /\ (c = 6298 => d >= 351) BY SMT, <1>1, <1>2
<1>9. e \in 4..15 /\ day \in 1..31 BY SMT, <1>4, <1>6
<1>10. /\ month \in 1..12 /\ (IF month > 2 THEN year ELSE year - 1) = y
       /\ (IF month > 2 THEN month + 1 ELSE month + 13) = e
  BY SMT, <1>7, <1>9
<1>11. day + 31 * (month + 12 * year) >= IGREG
  <2>1. CASE c = 6298 /\ month > 2
    <3>1. e >= 11 /\ (e = 11 => day >= 15) BY SMT, <1>4, <1>6, <1>8, <2>1
    <3> HIDE DEF day
    <3> QED BY SMT, <1>7, <1>9, <2>1, <3>1 DEF IGREG
  <2>2. CASE ~(c = 6298 /\ month > 2)
    <3>1. year >= 1583 /\ year \in Int BY SMT, <1>7, <1>8, <1>9, <2>2
    <3> HIDE DEF day, month, year
    <3> QED BY SMT, <1>9, <1>10, <3>1 DEF IGREG
  <2> QED BY <2>1, <2>2
<1>12. (1461 * y) \div 4 + (306001 * e) \div 10000 + day + 1720995 + 2 - j + j \div 4 = n
  BY SMT, <1>1, <1>2, <1>3, <1>4, <1>7, <1>9
<1> HIDE DEF day, month, year, y
<1>13. __dm_dtojul(day, month, year) =
         (1461 * y) \div 4 + (306001 * e) \div 10000 + day + 1720995 + 2 - j + j \div 4
  BY SMT, <1>9, <1>10, <1>11 DEF __dm_dtojul, j
<1> QED BY <1>5, <1>12, <1>13

(* The day after a day, in a year from its March on.                        *)
LEMMA DayAfterFact ==
  ASSUME NEW c \in Int, NEW d \in 123..LastDay(c), NEW t, t = DateOf(c, d),
         t.month = 2 /\ t.day >= 28 => (Leap(t.year) <=> t.year % 4 = 0)
  PROVE  DayAfter(t) = IF d = LastDay(c) THEN DateOf(c + 1, 123) ELSE DateOf(c, d + 1)
<1> DEFINE e == MonthOf(d)
           month == IF e - 1 > 12 THEN e - 13 ELSE e - 1
           year == IF month > 2 THEN c - 4716 ELSE c - 4715
           day == d - (306001 * e) \div 10000
           g == MonthOf(d + 1)
           length == DaysIn(month, year)
<1>1. d \in 123..488 BY SMT DEF LastDay
<1>2. t = [day |-> day, month |-> month, year |-> year] BY DEF DateOf
<1>3. e = (10000 * d) \div 306001 /\ g = (10000 * (d + 1)) \div 306001 BY DEF MonthOf
<1> HIDE DEF e, g
<1>4. e \in 4..15 /\ day \in 1..31 BY SMT, <1>1, <1>3
<1>5. month = 2 => /\ day < 28 => length \in {28, 29}
                   /\ day >= 28 => length = IF c % 4 = 3 THEN 29 ELSE 28
  <2>1. month = 2 => year = c - 4715 BY SMT, <1>4
  <2>2. month = 2 /\ day >= 28 => (Leap(year) <=> year % 4 = 0) BY <1>2
  <2>3. (c - 4715) % 4 = 0 <=> c % 4 = 3 BY SMT
  <2>4. month = 2 => length = IF Leap(year) THEN 29 ELSE 28 BY DEF DaysIn
  <2> HIDE DEF month, year, day, length
  <2>5. CASE Leap(year) BY SMT, <2>1, <2>2, <2>3, <2>4, <2>5
  <2>6. CASE ~Leap(year) BY SMT, <2>1, <2>2, <2>3, <2>4, <2>6
  <2> QED BY <2>5, <2>6
<1>6. month # 2 => length = IF e \in {5, 7, 10, 12} THEN 30 ELSE 31
  <2>1. month # 2 => (month \in {4, 6, 9, 11} <=> e \in {5, 7, 10, 12}) BY SMT, <1>4
  <2> HIDE DEF month, year
  <2> QED BY SMT, <2>1 DEF DaysIn
<1> HIDE DEF length
<1>7. CASE d = LastDay(c)
  <2>1. e = 15 /\ day = length /\ month = 2 BY SMT, <1>1, <1>3, <1>5, <1>7 DEF LastDay
  <2>2. year = c - 4715 BY SMT, <2>1
  <2>3. DayAfter(t) = [day |-> 1, month |-> 3, year |-> c - 4715]
    BY SMT, <1>2, <1>4, <2>1, <2>2 DEF DayAfter, length
  <2>4. DateOf(c + 1, 123) = [day |-> 1, month |-> 3, year |-> c - 4715]
    <3>1. MonthOf(123) = 4 BY SMT DEF MonthOf
    <3> QED BY SMT, <3>1 DEF DateOf
  <2> QED BY <1>7, <2>3, <2>4
<1>8. CASE d # LastDay(c)
  <2>1. IF day < length THEN g = e ELSE e < 15 /\ g = e + 1 /\ d + 1 - (306001 * g) \div 10000 = 1
    BY SMT, <1>1, <1>3, <1>4, <1>5, <1>6, <1>8 DEF LastDay
  <2>2. CASE day < length
    <3>1. DateOf(c, d + 1) = [day |-> day + 1, month |-> month, year |-> year]
      BY SMT, <1>1, <1>4, <2>1, <2>2 DEF DateOf, g, e
    <3>2. DayAfter(t) = [day |-> day + 1, month |-> month, year |-> year]
      BY <1>2, <2>2 DEF DayAfter, length
    <3> QED BY <1>8, <3>1, <3>2
  <2>3. CASE ~(day < length)
    <3>1. e \in 4..14 /\ g = e + 1 BY SMT, <1>4, <2>1, <2>3
    <3>2. DateOf(c, d + 1) = [day |-> 1, month |-> IF g - 1 > 12 THEN g - 13 ELSE g - 1,
                              year |-> IF g - 1 > 12 THEN c - 4715 ELSE c - 4716]
      BY SMT, <1>1, <2>1, <2>3, <3>1 DEF DateOf, g
    <3>3. DayAfter(t) = IF month < 12 THEN [day |-> 1, month |-> month + 1, year |-> year]
                        ELSE [day |-> 1, month |-> 1, year |-> year + 1]
      BY <1>2, <2>3 DEF DayAfter, length
    <3> QED BY SMT, <1>8, <3>1, <3>2, <3>3
  <2> QED BY <2>2, <2>3
<1> QED BY <1>7, <1>8

(* A February is of the Gregorian calendar, and has no more than 31 days.   *)
LEMMA FebruaryFact ==
  ASSUME NEW n \in Covered, NEW t, t = __dm_jultod(n), t.month = 2, t.year % 100 = 0
  PROVE  t.year \in Int /\ t.year >= 1600 /\ t.day \in 1..31
<1> DEFINE b == Base(n)
           c == YearOf(n)
           d == DayOf(n)
           e == MonthOf(d)
           month == IF e - 1 > 12 THEN e - 13 ELSE e - 1
           day == d - (306001 * e) \div 10000
<1>1. n \in Days /\ n \in Int /\ 2299161 <= n BY SMT DEF Covered, Days
<1>2. t = [day |-> day, month |-> month, year |-> IF month > 2 THEN c - 4716 ELSE c - 4715]
  BY <1>1, ReadAs DEF DateOf
<1>3. d \in 123..488
  <2>1. d \in 123..LastDay(c) BY <1>1, YearFact
  <2>2. LastDay(c) = 487 \/ LastDay(c) = 488 BY DEF LastDay
  <2> HIDE DEF d, c
  <2> QED BY SMT, <2>1, <2>2
<1>4. e = (10000 * d) \div 306001 BY DEF MonthOf
<1>5. Alpha(n) \in Int /\ Alpha(n) >= 11 /\ b = 1525 + n + Alpha(n) - Alpha(n) \div 4
      /\ c = (100 * b - 12210) \div 36525
  BY SMT, <1>1, AlphaFact DEF Base, YearOf
<1> HIDE DEF b, c, d, e
<1>6. day \in 1..31 BY SMT, <1>3, <1>4
<1>7. c \in Int /\ c >= 6298 BY SMT, <1>1, <1>5
<1>8. t.year = c - 4715 /\ t.day = day BY SMT, <1>2
<1> HIDE DEF day
<1> QED BY SMT, <1>6, <1>7, <1>8

LEMMA DatesFollow ==
  ASSUME NEW n \in Covered, ~MarchOfCentury(n), NEW t, t = __dm_jultod(n)
  PROVE  /\ __dm_jultod(n + 1) = DayAfter(t)
         /\ __dm_dtojul(t.day, t.month, t.year) = n
         /\ WeekDay(n + 1) = (WeekDay(n) + 1) % 7
<1> DEFINE c == YearOf(n)
           d == DayOf(n)
<1>0. OnTime(n) BY LateIsNamed
<1>1. n \in Days /\ n \in Int /\ n + 1 \in Days /\ Base(n + 1) = Base(n) + 1
  BY SMT, <1>0, NextIsBehind DEF Covered, Days
<1>2. c \in Int /\ d \in 123..LastDay(c) /\ t = DateOf(c, d) BY <1>1, AlphaFact, YearFact, ReadAs
<1>3. t.month = 2 /\ t.day >= 28 => (Leap(t.year) <=> t.year % 4 = 0)
  <2> SUFFICES ASSUME t.month = 2, t.day >= 28, t.year % 4 = 0, ~Leap(t.year) PROVE FALSE
    BY DEF Leap
  <2> HIDE DEF c, d
  <2>1. t.year % 100 = 0 BY DEF Leap
  <2>2. __dm_dtojul(t.day, 2, t.year) = n BY <1>0, DateIsRead
  <2> DEFINE y == t.year
             day == t.day
             late == (2 * (y \div 100) - 4) \div 5
  <2>3. y \in Int /\ y >= 1600 /\ day \in 1..31 BY <2>1, FebruaryFact
  <2> HIDE DEF y, day
  <2>4. late \in Int /\ late >= 3 BY SMT, <2>3
  <2>5. n - __dm_dtojul(28, 2, y) = day - 28
    <3>1. 28 + 31 * (2 + 12 * y) >= IGREG /\ day + 31 * (2 + 12 * y) >= IGREG BY SMT, <2>3 DEF IGREG
    <3>2. __dm_dtojul(28, 2, y) = __dm_dtojul(day, 2, y) - (day - 28)
      BY SMT, <2>3, <3>1 DEF __dm_dtojul
    <3> QED BY SMT, <2>2, <2>3, <3>2, <1>1 DEF y, day
  <2>6. n - __dm_dtojul(28, 2, y) \in 0..late BY SMT, <2>3, <2>4, <2>5 DEF day
  <2> HIDE DEF late
  <2> QED BY <2>1, <2>6 DEF MarchOfCentury, y, late
<1>4. __dm_jultod(n + 1) = DateOf(YearOf(n + 1), DayOf(n + 1)) BY <1>1, ReadAs
<1>5. __dm_jultod(n + 1) = IF d = LastDay(c) THEN DateOf(c + 1, 123) ELSE DateOf(c, d + 1)
  BY <1>1, <1>4, NextYearFact
<1> HIDE DEF c, d
<1>6. __dm_jultod(n + 1) = DayAfter(t) BY <1>2, <1>3, <1>5, DayAfterFact
<1>7. WeekDay(n + 1) = (WeekDay(n) + 1) % 7 BY SMT, <1>1 DEF WeekDay
<1> QED BY <1>0, <1>6, <1>7, DateIsRead

(* What is added to a time, in days and seconds.                            *)
LEMMA PlusFact ==
  ASSUME NEW t, t.ndays \in Int, t.nsecs \in Int, NEW n \in Int
  PROVE  LET u == Plus(t, n)
         IN /\ u = [ndays |-> u.ndays, nsecs |-> u.nsecs] /\ u.ndays \in Int /\ u.nsecs \in Int
            /\ (u.ndays - t.ndays) * SECONDS_PER_DAY + u.nsecs = t.nsecs + n
            /\ IF t.nsecs + n < 0 THEN 1 <= u.nsecs /\ u.nsecs <= SECONDS_PER_DAY
               ELSE 0 <= u.nsecs /\ u.nsecs < SECONDS_PER_DAY
<1> DEFINE s == t.nsecs + n
           u == Plus(t, n)
<1>1. s \in Int BY SMT
<1>2. CASE s < 0
  <2> DEFINE r == -s
             q == r \div 86400
             m == r % 86400
  <2>1. u = [ndays |-> t.ndays - (1 + q), nsecs |-> 86400 - m]
    BY SMT, <1>2 DEF Plus, SECONDS_PER_DAY
  <2>2. r \in Nat BY SMT, <1>1, <1>2
  <2> HIDE DEF r
  <2>3. q \in Nat /\ m \in Nat /\ m < 86400 /\ r = 86400 * q + m BY SMT, <2>2
  <2> HIDE DEF u, s, q, m
  <2>4. r = -s BY DEF r
  <2>5. (u.ndays - t.ndays) * 86400 + u.nsecs = s BY SMT, <1>1, <2>1, <2>3, <2>4
  <2>6. /\ u = [ndays |-> u.ndays, nsecs |-> u.nsecs] /\ u.ndays \in Int /\ u.nsecs \in Int
        /\ 1 <= u.nsecs /\ u.nsecs <= 86400
    BY SMT, <2>1, <2>3
  <2> QED BY SMT, <1>2, <2>5, <2>6 DEF u, s, SECONDS_PER_DAY
<1>3. CASE s >= 0
  <2> DEFINE q == s \div 86400
             m == s % 86400
  <2>1. u = [ndays |-> t.ndays + q, nsecs |-> m]
    BY SMT, <1>1, <1>3 DEF Plus, SECONDS_PER_DAY
  <2> HIDE DEF s, u
  <2>2. q \in Nat /\ m \in Nat /\ m < 86400 /\ s = 86400 * q + m BY SMT, <1>1, <1>3
  <2> HIDE DEF q, m
  <2>3. (u.ndays - t.ndays) * 86400 + u.nsecs = s BY SMT, <1>1, <2>1, <2>2
  <2>4. /\ u = [ndays |-> u.ndays, nsecs |-> u.nsecs] /\ u.ndays \in Int /\ u.nsecs \in Int
        /\ 0 <= u.nsecs /\ u.nsecs < 86400
    BY SMT, <2>1, <2>2
  <2> QED BY SMT, <1>1, <1>3, <2>3, <2>4 DEF u, s, SECONDS_PER_DAY
<1> QED BY SMT, <1>1, <1>2, <1>3

LEMMA WithinADay ==
  ASSUME NEW day \in Int, NEW x \in Int
  PROVE  x \in 0..day - 1 <=> 0 <= x /\ x < day
BY SMT

LEMMA SumsAreExact ==
  ASSUME ndays \in Int, nsecs \in Nat, nsecs < SECONDS_PER_DAY, NEW n \in Int,
         NEW t, t = Plus(Now, n)
  PROVE  /\ (t.ndays - ndays) * SECONDS_PER_DAY + t.nsecs = nsecs + n
         /\ \/ t.nsecs \in 0..SECONDS_PER_DAY - 1
            \/ nsecs + n < 0 /\ t.nsecs = SECONDS_PER_DAY
         /\ t.nsecs \in 0..SECONDS_PER_DAY - 1 =>
              (Compare(t, Now) > 0 <=> n > 0) /\ (Compare(t, Now) = 0 <=> n = 0)
<1>1. Now.ndays = ndays /\ Now.nsecs = nsecs BY DEF Now
<1> DEFINE day == SECONDS_PER_DAY
           i == t.ndays
           j == t.nsecs
<1>2. /\ i \in Int /\ j \in Int
      /\ (i - ndays) * day + j = nsecs + n
      /\ IF nsecs + n < 0 THEN 1 <= j /\ j <= day
         ELSE 0 <= j /\ j < day
  <2> DEFINE o == Now
  <2>1. o.ndays = ndays /\ o.nsecs = nsecs /\ o.ndays \in Int /\ o.nsecs \in Int BY SMT, <1>1
  <2> HIDE DEF o
  <2>2. /\ Plus(o, n).ndays \in Int /\ Plus(o, n).nsecs \in Int
        /\ (Plus(o, n).ndays - o.ndays) * SECONDS_PER_DAY + Plus(o, n).nsecs = o.nsecs + n
        /\ IF o.nsecs + n < 0 THEN 1 <= Plus(o, n).nsecs /\ Plus(o, n).nsecs <= SECONDS_PER_DAY
           ELSE 0 <= Plus(o, n).nsecs /\ Plus(o, n).nsecs < SECONDS_PER_DAY
    BY <2>1, PlusFact
  <2> QED BY <2>1, <2>2 DEF o
<1>3. day = 86400 BY DEF SECONDS_PER_DAY
<1>4. Compare(t, Now) = IF i = ndays THEN j - nsecs ELSE i - ndays
  BY <1>1 DEF Compare
<1>5. nsecs < day OBVIOUS
<1> HIDE DEF day, i, j
<1>6. j \in 0..day - 1 <=> 0 <= j /\ j < day
  <2>1. day \in Int BY SMT, <1>3
  <2> QED BY <1>2, <2>1, WithinADay
<1>7. (0 <= j /\ j < day) \/ (nsecs + n < 0 /\ j = day)
  BY SMT, <1>2, <1>3
<1>8. ASSUME 0 <= j /\ j < day
      PROVE  (Compare(t, Now) > 0 <=> n > 0) /\ (Compare(t, Now) = 0 <=> n = 0)
  <2> DEFINE x == i - ndays
             y == j - nsecs
  <2>1. x \in Int /\ y \in Int /\ y < 86400 /\ y > -86400 /\ x * 86400 + y = n
    BY SMT, <1>2, <1>3, <1>5, <1>8
  <2>2. Compare(t, Now) = IF x = 0 THEN y ELSE x BY SMT, <1>2, <1>4
  <2> HIDE DEF x, y
  <2> QED BY SMT, <2>1, <2>2
<1> QED BY <1>2, <1>6, <1>7, <1>8 DEF day, i, j

(* One second more, and a time set to what it is.                           *)
LEMMA SameSeconds ==
  ASSUME ndays \in Int, nsecs \in Nat, nsecs < SECONDS_PER_DAY
  PROVE  /\ Plus(Now, 1) = Increment(Now)
         /\ SetTime(Now, Hour(Now), Minutes(Now), Seconds(Now)) = Now
<1>1. nsecs \in Nat /\ nsecs < 86400 /\ ndays \in Int BY SMT DEF SECONDS_PER_DAY
<1>2. Plus(Now, 1) = Increment(Now)
  <2> DEFINE q == (nsecs + 1) \div 86400
             m == (nsecs + 1) % 86400
  <2>1. Plus(Now, 1) = [ndays |-> ndays + q, nsecs |-> m]
    BY SMT, <1>1 DEF Plus, Now, SECONDS_PER_DAY
  <2>2. IF nsecs + 1 = 86400 THEN q = 1 /\ m = 0 ELSE q = 0 /\ m = nsecs + 1 BY SMT, <1>1
  <2>3. Increment(Now) = IF nsecs + 1 = 86400 THEN [ndays |-> ndays + 1, nsecs |-> 0]
                         ELSE [ndays |-> ndays, nsecs |-> nsecs + 1]
    BY SMT DEF Increment, Now, SECONDS_PER_DAY
  <2> HIDE DEF q, m
  <2> QED BY SMT, <1>1, <2>1, <2>2, <2>3
<1>3. SetTime(Now, Hour(Now), Minutes(Now), Seconds(Now)) = Now
  <2> DEFINE h == nsecs \div 3600
             r == nsecs % 3600
             m == r \div 60
             s == r % 60
             z == h * 3600 + m * 60 + s
             o == [ndays |-> ndays, nsecs |-> 0]
  <2>1. Hour(Now) = h /\ Minutes(Now) = m /\ Seconds(Now) = s
    BY DEF Hour, Minutes, Seconds, Now
  <2>2. SetTime(Now, h, m, s) = Plus(o, z) BY DEF SetTime, Now
  <2>3. z = nsecs
    <3>1. h \in Nat /\ r \in Nat /\ nsecs = h * 3600 + r BY SMT, <1>1
    <3> HIDE DEF h, r
    <3>2. r = m * 60 + s /\ m \in Nat /\ s \in Nat BY SMT, <3>1
    <3> HIDE DEF m, s
    <3> QED BY SMT, <3>1, <3>2
  <2> HIDE DEF z
  <2>4. Plus(o, z) = [ndays |-> ndays + nsecs \div 86400, nsecs |-> nsecs % 86400]
    BY SMT, <1>1, <2>3 DEF Plus, SECONDS_PER_DAY
  <2>5. nsecs \div 86400 = 0 /\ nsecs % 86400 = nsecs BY SMT, <1>1
  <2>6. Plus(o, z) = Now BY SMT, <1>1, <2>4, <2>5 DEF Now
  <2> HIDE DEF h, m, s, o
  <2> QED BY <2>1, <2>2, <2>6
<1> QED BY <1>2, <1>3

(* Times stay within the days a behaviour goes through, and are not before  *)
(* midnight.                                                                *)
DatesInv == firstDay \in FirstDays /\ ndays \in firstDay..firstDay + Span /\ nsecs \in Nat

LEMMA AmountsFact == Amounts \subseteq Int
<1> SUFFICES ASSUME NEW n \in Amounts PROVE n \in Int OBVIOUS
<1>1. PICK k \in -2..2, e \in -1..1 : n = k * SECONDS_PER_DAY + e BY DEF Amounts
<1>2. SECONDS_PER_DAY \in Int BY SMT DEF SECONDS_PER_DAY
<1> QED BY SMT, <1>1, <1>2

LEMMA TimeKeeps ==
  ASSUME DatesInv, NEW t, BecomeTime(t), t.nsecs \in Int, t.nsecs >= 0
  PROVE  DatesInv'
BY SMT DEF DatesInv, BecomeTime

LEMMA StepKeepsDates ==
  ASSUME DatesInv, [DatesNext]_<<ndays, nsecs, firstDay>>
  PROVE  DatesInv'
<1>1. ndays \in Int /\ nsecs \in Nat /\ firstDay \in Int
  BY SMT, DatesAssumption DEF DatesInv
<1>2. ASSUME NEW o, o.ndays \in Int, o.nsecs \in Int, NEW n \in Int
      PROVE  Plus(o, n).nsecs \in Int /\ Plus(o, n).nsecs >= 0
  <2>1. /\ Plus(o, n).nsecs \in Int
        /\ IF o.nsecs + n < 0 THEN 1 <= Plus(o, n).nsecs /\ Plus(o, n).nsecs <= SECONDS_PER_DAY
           ELSE 0 <= Plus(o, n).nsecs /\ Plus(o, n).nsecs < SECONDS_PER_DAY
    BY <1>2, PlusFact
  <2> QED BY SMT, <2>1 DEF SECONDS_PER_DAY
<1>3. Now.ndays = ndays /\ Now.nsecs = nsecs BY DEF Now
<1>4. CASE \E n \in Amounts : BecomeTime(Plus(Now, n))
  <2>1. PICK n \in Amounts : BecomeTime(Plus(Now, n)) BY <1>4
  <2>2. n \in Int /\ Now.ndays \in Int /\ Now.nsecs \in Int BY <1>1, <1>3, <2>1, AmountsFact
  <2>3. Plus(Now, n).nsecs \in Int /\ Plus(Now, n).nsecs >= 0 BY <1>2, <2>2
  <2> QED BY <2>1, <2>3, TimeKeeps
<1>5. CASE BecomeTime(Increment(Now))
  <2>1. Increment(Now).nsecs \in Int /\ Increment(Now).nsecs >= 0
    BY SMT, <1>1 DEF Increment, Now, SECONDS_PER_DAY
  <2> QED BY <1>5, <2>1, TimeKeeps
<1>6. CASE BecomeTime(Decrement(Now))
  <2>1. Decrement(Now).nsecs \in Int /\ Decrement(Now).nsecs >= 0
    BY SMT, <1>1 DEF Decrement, Now, SECONDS_PER_DAY
  <2> QED BY <1>6, <2>1, TimeKeeps
<1>7. CASE BecomeTime(SetTime(Now, Hour(Now), Minutes(Now), Seconds(Now)))
  <2> DEFINE o == [Now EXCEPT !.nsecs = 0]
             n == Hour(Now) * 3600 + Minutes(Now) * 60 + Seconds(Now)
  <2>1. o.ndays \in Int /\ o.nsecs \in Int BY SMT, <1>1 DEF Now
  <2>2. n \in Int
    <3>1. Hour(Now) \in Int /\ Minutes(Now) \in Int /\ Seconds(Now) \in Int
      BY SMT, <1>1, <1>3 DEF Hour, Minutes, Seconds
    <3> QED BY SMT, <3>1
  <2>3. SetTime(Now, Hour(Now), Minutes(Now), Seconds(Now)) = Plus(o, n) BY DEF SetTime
  <2> HIDE DEF o, n
  <2>4. Plus(o, n).nsecs \in Int /\ Plus(o, n).nsecs >= 0 BY <1>2, <2>1, <2>2
  <2> QED BY <1>7, <2>3, <2>4, TimeKeeps
<1>8. CASE UNCHANGED <<ndays, nsecs, firstDay>> BY <1>8 DEF DatesInv
<1> QED BY <1>4, <1>5, <1>6, <1>7, <1>8 DEF DatesNext

(* Dates are those of the calendar, and times are counted exactly (dmDate   *)
(* and dmTime): on every day from 15 October 1582 to 10 April 11000, except *)
(* in the weeks that MarchOfCentury names.                                  *)
THEOREM TimesAreRight == DatesSpec => []TimesFollowCalendar
<1>1. DatesInit => DatesInv
  BY SMT, DatesAssumption DEF DatesInit, DatesInv
<1>2. DatesInv /\ [DatesNext]_<<ndays, nsecs, firstDay>> => DatesInv' BY StepKeepsDates
<1>3. DatesInv => TimesFollowCalendar
  <2> SUFFICES ASSUME DatesInv PROVE TimesFollowCalendar OBVIOUS
  <2>1. ndays \in Covered /\ ndays \in Int /\ nsecs \in Nat
    BY SMT, DatesAssumption DEF DatesInv, Covered, Days
  <2> DEFINE d == __dm_jultod(ndays)
  <2>2. ~MarchOfCentury(ndays) =>
          /\ __dm_jultod(ndays + 1) = DayAfter(d)
          /\ __dm_dtojul(d.day, d.month, d.year) = ndays
          /\ WeekDay(ndays + 1) = (WeekDay(ndays) + 1) % 7
    BY <2>1, DatesFollow
  <2>3. ASSUME nsecs < SECONDS_PER_DAY, NEW n \in Amounts
        PROVE  LET t == Plus(Now, n)
                   Normal(u) == u.nsecs \in 0..SECONDS_PER_DAY - 1
               IN /\ (t.ndays - ndays) * SECONDS_PER_DAY + t.nsecs = nsecs + n
                  /\ Normal(t) \/ (nsecs + n < 0 /\ t.nsecs = SECONDS_PER_DAY)
                  /\ Normal(t) => (Compare(t, Now) > 0 <=> n > 0)
                                  /\ (Compare(t, Now) = 0 <=> n = 0)
    BY <2>1, <2>3, AmountsFact, SumsAreExact
  <2>4. nsecs < SECONDS_PER_DAY =>
          /\ Plus(Now, 1) = Increment(Now)
          /\ SetTime(Now, Hour(Now), Minutes(Now), Seconds(Now)) = Now
    BY <2>1, SameSeconds
  <2> QED BY <2>2, <2>3, <2>4 DEF TimesFollowCalendar
<1> QED BY <1>1, <1>2, <1>3, PTL DEF DatesSpec
=============================================================================
