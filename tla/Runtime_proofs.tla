------------------------------ MODULE Runtime_proofs ------------------------------
(***************************************************************************)
(* The count of the runtime's callers, for any number of embedders that    *)
(* start and stop it, fail and force; and the factories of the modules,    *)
(* from its start over the calls of its clients to its end.                *)
(***************************************************************************)
EXTENDS Runtime, FiniteSetTheorems, SequenceTheorems, WellFoundedInduction, TLAPS

Inside == {e \in Embedder : glue[e] = "initialized"}

TypeInv ==
  /\ gDaimRefcount \in Nat /\ up \in {"down", "half", "up"}
  /\ glue \in [Embedder -> {"closed", "opened", "initialized"}] /\ served \subseteq Inside

(* Forced releases leave the count too high, never too low; and as long as  *)
(* the runtime is not down there was none, and the count is exact.          *)
CountInv ==
  /\ gDaimRefcount >= Cardinality(Inside)
  /\ up # "down" => gDaimRefcount = Cardinality(Inside) /\ gDaimRefcount > 0
ServedInv == served # {} => up = "up"

IInv == TypeInv /\ CountInv /\ ServedInv
-----------------------------------------------------------------------------
LEMMA InsideIsFinite == IsFiniteSet(Inside) /\ Cardinality(Inside) \in Nat
BY EmbedderAssumption, FS_Subset, FS_CardinalityType DEF Inside

(* One more embedder is in: the first may find the runtime up or half       *)
(* started, the others find it as it was.                                   *)
LEMMA EntersKeeps ==
  ASSUME IInv, NEW e \in Embedder, glue[e] # "initialized",
         glue' = [glue EXCEPT ![e] = "initialized"], gDaimRefcount' = gDaimRefcount + 1,
         gDaimRefcount' >= 2 => up' = up,
         ~(gDaimRefcount' >= 2) => up' \in {"half", "up"},
         served' \in {served, served \cup {e}}, served' # served => up' = "up"
  PROVE  IInv'
<1>1. /\ gDaimRefcount \in Nat /\ up \in {"down", "half", "up"}
      /\ glue \in [Embedder -> {"closed", "opened", "initialized"}] /\ served \subseteq Inside
  BY DEF IInv, TypeInv
<1>2. e \notin Inside BY DEF Inside
<1>3. Inside' = Inside \cup {e} BY <1>1 DEF Inside
<1>4. Cardinality(Inside') = Cardinality(Inside) + 1 /\ Cardinality(Inside) \in Nat
  BY <1>2, <1>3, InsideIsFinite, FS_AddElement
<1>5. served' \subseteq Inside' BY <1>1, <1>3
<1>6. TypeInv'
  <2>1. gDaimRefcount' \in Nat BY <1>1
  <2>2. up' \in {"down", "half", "up"} BY <1>1
  <2>3. glue' \in [Embedder -> {"closed", "opened", "initialized"}] BY <1>1
  <2> QED BY <1>5, <2>1, <2>2, <2>3 DEF TypeInv
<1>7. CASE gDaimRefcount = 0
  <2>1. up' # "down" BY <1>7
  <2>2. Cardinality(Inside) = 0 BY <1>4, <1>7 DEF IInv, CountInv
  <2>3. Inside = {} BY <2>2, InsideIsFinite, FS_EmptySet
  <2>4. served = {} BY <1>1, <2>3
  <2>5. CountInv' BY <1>4, <1>7, <2>2 DEF CountInv
  <2>6. ServedInv' BY <2>4 DEF ServedInv
  <2> QED BY <1>6, <2>5, <2>6 DEF IInv
<1>8. CASE gDaimRefcount # 0
  <2>1. up' = up BY <1>1, <1>8
  <2>2. CountInv' BY <1>1, <1>4, <2>1 DEF IInv, CountInv
  <2>3. ServedInv' BY <2>1 DEF IInv, ServedInv
  <2> QED BY <1>6, <2>2, <2>3 DEF IInv
<1> QED BY <1>7, <1>8

LEMMA InitGlueKeeps ==
  ASSUME IInv, NEW e \in Embedder,
         NEW how \in {"no library", "no symbol", "starts", "no registry", "fails"},
         InitGlue(e, how)
  PROVE  IInv'
<1>1. glue[e] # "initialized" BY DEF InitGlue
<1>2. CASE how = "no library"
  <2>1. UNCHANGED runtime BY <1>2 DEF InitGlue
  <2> QED BY <2>1 DEF runtime, IInv, TypeInv, CountInv, ServedInv, Inside
<1>3. CASE how = "no symbol"
  <2>1. /\ glue' = [glue EXCEPT ![e] = "opened"] /\ gDaimRefcount' = gDaimRefcount
        /\ up' = up /\ served' = served
    BY <1>3 DEF InitGlue
  <2>2. glue \in [Embedder -> {"closed", "opened", "initialized"}] BY DEF IInv, TypeInv
  <2>3. Inside' = Inside BY <1>1, <2>1, <2>2 DEF Inside
  <2>4. TypeInv' BY <2>1, <2>2, <2>3 DEF IInv, TypeInv
  <2> QED BY <2>1, <2>3, <2>4 DEF IInv, CountInv, ServedInv
<1>4. CASE how \in {"starts", "no registry", "fails"}
  <2>1. /\ DM_Initialize(how) /\ glue' = [glue EXCEPT ![e] = "initialized"]
        /\ served' = IF up' = "up" /\ (gDaimRefcount > 0 \/ how = "starts")
                     THEN served \cup {e} ELSE served
    BY <1>4 DEF InitGlue
  <2>2. gDaimRefcount' = gDaimRefcount + 1 BY <2>1 DEF DM_Initialize
  <2>3. gDaimRefcount' >= 2 => up' = up BY <2>1 DEF DM_Initialize
  <2>4. ~(gDaimRefcount' >= 2) => up' \in {"half", "up"} BY <2>1 DEF DM_Initialize
  <2>5. served' \in {served, served \cup {e}} BY <2>1
  <2>6. served' # served => up' = "up" BY <2>1
  <2> QED BY <1>1, <2>1, <2>2, <2>3, <2>4, <2>5, <2>6, EntersKeeps
<1> QED BY <1>2, <1>3, <1>4

LEMMA ReleaseGlueKeeps ==
  ASSUME IInv, NEW e \in Embedder, NEW force \in BOOLEAN,
         ReleaseGlue(e, force)
  PROVE  IInv'
<1>1. /\ gDaimRefcount \in Nat /\ up \in {"down", "half", "up"}
      /\ glue \in [Embedder -> {"closed", "opened", "initialized"}] /\ served \subseteq Inside
  BY DEF IInv, TypeInv
<1>2. glue[e] = "initialized" /\ (force => served \subseteq {e})
  BY DEF ReleaseGlue
<1>3. glue' = [glue EXCEPT ![e] = "closed"] /\ served' = served \ {e}
  BY DEF ReleaseGlue
<1>4. e \in Inside BY <1>2 DEF Inside
<1>5. Inside' = Inside \ {e} BY <1>1, <1>3 DEF Inside
<1>6. /\ Cardinality(Inside') = Cardinality(Inside) - 1
      /\ Cardinality(Inside) \in Nat /\ Cardinality(Inside') \in Nat
  <2>1. IsFiniteSet(Inside) /\ Cardinality(Inside) \in Nat BY InsideIsFinite
  <2>2. IsFiniteSet(Inside \ {e}) /\ Cardinality(Inside \ {e}) = Cardinality(Inside) - 1
    BY <1>4, <2>1, FS_RemoveElement
  <2> QED BY <1>5, <2>1, <2>2, FS_CardinalityType
<1>7. gDaimRefcount >= 1 BY <1>1, <1>6 DEF IInv, CountInv
<1>8. glue' \in [Embedder -> {"closed", "opened", "initialized"}] /\ served' \subseteq Inside'
  BY <1>1, <1>3, <1>5
<1>9. CASE force
  <2>1. gDaimRefcount' = gDaimRefcount /\ up' = "down" BY <1>9 DEF ReleaseGlue, DM_Finalize
  <2>2. served' = {} BY <1>2, <1>3, <1>9
  <2>3. CountInv' BY <1>1, <1>6, <2>1 DEF IInv, CountInv
  <2> QED BY <1>1, <1>8, <2>1, <2>2, <2>3 DEF IInv, TypeInv, ServedInv
<1>10. CASE ~force /\ gDaimRefcount = 1
  <2>1. gDaimRefcount' = 0 /\ up' = "down" BY <1>10 DEF ReleaseGlue, DM_Finalize
  <2>2. Cardinality(Inside') = 0 BY <1>6, <1>10 DEF IInv, CountInv
  <2>3. Inside' = {}
    <3>1. IsFiniteSet(Inside) BY InsideIsFinite
    <3>2. IsFiniteSet(Inside') BY <1>5, <3>1, FS_Subset
    <3> QED BY <2>2, <3>2, FS_EmptySet
  <2>4. served' = {} BY <1>8, <2>3
  <2>5. CountInv' BY <2>1, <2>2 DEF CountInv
  <2> QED BY <1>8, <2>1, <2>4, <2>5 DEF IInv, TypeInv, ServedInv
<1>11. CASE ~force /\ gDaimRefcount # 1
  <2>1. gDaimRefcount' = gDaimRefcount - 1 /\ up' = up
    BY <1>1, <1>11 DEF ReleaseGlue, DM_Finalize
  <2>2. gDaimRefcount' \in Nat /\ gDaimRefcount' > 0 BY <1>1, <1>7, <1>11, <2>1
  <2>3. CountInv' BY <1>1, <1>6, <2>1, <2>2 DEF IInv, CountInv
  <2>4. ServedInv' BY <1>3, <2>1 DEF IInv, ServedInv
  <2> QED BY <1>1, <1>8, <2>1, <2>2, <2>3, <2>4 DEF IInv, TypeInv
<1> QED BY <1>9, <1>10, <1>11
LEMMA InitIsIn == Init => IInv
<1> SUFFICES ASSUME Init PROVE IInv OBVIOUS
<1>1. Inside = {} BY DEF Init, Inside
<1>2. Cardinality(Inside) = 0 BY <1>1, FS_EmptySet
<1> QED BY <1>1, <1>2 DEF Init, IInv, TypeInv, CountInv, ServedInv

LEMMA NextKeeps ==
  ASSUME IInv, [Next]_<<w, runtime>>
  PROVE  IInv'
<1>1. ASSUME NEW e \in Embedder,
             NEW how \in {"no library", "no symbol", "starts", "no registry", "fails"},
             InitGlue(e, how)
      PROVE  IInv'
  BY <1>1, InitGlueKeeps
<1>2. ASSUME NEW e \in Embedder, NEW force \in BOOLEAN, ReleaseGlue(e, force) PROVE IInv'
  BY <1>2, ReleaseGlueKeeps
<1>3. CASE UNCHANGED runtime
  BY <1>3 DEF runtime, IInv, TypeInv, CountInv, ServedInv, Inside
<1> QED BY <1>1, <1>2, <1>3 DEF Next

LEMMA LeftIsDown ==
  ASSUME IInv, Left
  PROVE  up = "down"
<1>1. Inside = {} BY DEF Left, Inside
<1>2. Cardinality(Inside) = 0 BY <1>1, FS_EmptySet
<1> QED BY <1>2 DEF IInv, CountInv
-----------------------------------------------------------------------------
(* An embedder that was told that the runtime runs has it until it releases *)
(* it, and nothing runs when all have released (xpcci.cpp, xpcciglue.cpp),  *)
(* for any number of embedders and although failures and forced releases    *)
(* leave the count too high.                                                *)
THEOREM RuntimeIsKept == Spec => []RunsWhileInUse
<1>1. Init => IInv BY InitIsIn
<1>2. IInv /\ [Next]_<<w, runtime>> => IInv' BY NextKeeps
<1>3. IInv => RunsWhileInUse BY LeftIsDown DEF IInv, ServedInv, RunsWhileInUse
<1> QED BY <1>1, <1>2, <1>3, PTL DEF Spec

-----------------------------------------------------------------------------
(* The modules and their factories. What holds between two calls, and, with *)
(* the references that the steps of one hold (loose) and the lists of nodes *)
(* as it has left them (nodes), inside a call.                              *)
States ==
  [class : [Factory -> Class \cup {Null}], refs : [Factory -> Nat],
   info : [Class -> Factory \cup {Null}], known : [Class -> {"no", "direct", "located"}],
   made : [Class -> Factory \cup {Null}], loaded : SUBSET Module, ready : SUBSET Module,
   nodes : [Module -> Seq(Factory)], held : SUBSET Factory, lost : SUBSET Factory,
   late : SUBSET Factory]

LiveInv(x) == \A f \in Factory : x.class[f] = Null <=> x.refs[f] = 0

PointersInv(x) ==
  /\ \A c \in Class : x.info[c] # Null => x.class[x.info[c]] = c
  /\ \A c \in Class : x.made[c] # Null => x.class[x.made[c]] = c /\ x.made[c] \notin x.lost

(* The nodes of a module are factories of its classes, each once.           *)
NodesInv(x, nodes) ==
  \A m \in Module :
    /\ nodes[m] # <<>> => m \in x.loaded
    /\ \A i \in 1..Len(nodes[m]) : x.class[nodes[m][i]] \in Range(Components[m])
    /\ \A i, j \in 1..Len(nodes[m]) : nodes[m][i] = nodes[m][j] => i = j

(* A factory is there only as long as its library, unless it is lost.       *)
PlacesInv(x) ==
  /\ \A f \in Factory : x.class[f] # Null => f \in x.lost \/ Mapped(x, Home(x.class[f]))
  /\ x.late \subseteq x.lost /\ \A f \in x.lost : x.class[f] # Null

Entries(x, f) == {c \in Class : x.made[c] = f}
Lists(nodes, f) == {m \in Module : f \in Range(nodes[m])}
In(f, A) == Cardinality({f} \cap A)

Owners(x, nodes, f) ==
  Cardinality(Entries(x, f)) + Cardinality(Lists(nodes, f))
  + In(f, x.held) + In(f, x.lost \ Unused(x))
RefsInv(x, nodes, loose) ==
  \A f \in Factory : x.refs[f] = Owners(x, nodes, f) + loose[f]

Sound(x, nodes, loose) ==
  /\ x \in States /\ nodes \in [Module -> Seq(Factory)] /\ loose \in [Factory -> Nat]
  /\ LiveInv(x) /\ PointersInv(x) /\ NodesInv(x, nodes) /\ PlacesInv(x)
  /\ RefsInv(x, nodes, loose)
-----------------------------------------------------------------------------
(* Of naturals: a set of some has a smallest, one that 0 is in and that is  *)
(* closed under successor has them all, and what is bounded has a largest.  *)
LEMMA Smallest ==
  ASSUME NEW T, T \subseteq Nat, T # {}
  PROVE  \E x \in T : \A y \in T : x <= y
<1> DEFINE R == OpToRel(<, Nat)
<1>1. IsWellFoundedOn(R, Nat) BY NatLessThanWellFounded
<1> HIDE DEF R
<1>2. PICK x \in T : \A y \in T : ~(<<y, x>> \in R) BY <1>1, WFMin
<1>3. ASSUME NEW y \in T PROVE x <= y
  <2>1. x \in Nat /\ y \in Nat OBVIOUS
  <2>2. y < x => <<y, x>> \in R BY <2>1 DEF R, OpToRel
  <2> QED BY <1>2, <2>1, <2>2
<1> QED BY <1>3

LEMMA Induction ==
  ASSUME NEW S, 0 \in S, \A n \in Nat : n \in S => n + 1 \in S
  PROVE  Nat \subseteq S
<1> SUFFICES ASSUME Nat \ S # {} PROVE FALSE OBVIOUS
<1>1. PICK x \in Nat \ S : \A y \in Nat \ S : x <= y BY Smallest
<1>2. x # 0 /\ x \in Nat OBVIOUS
<1>3. x - 1 \in Nat /\ ~(x <= x - 1) BY <1>2
<1>4. x - 1 \in S BY <1>1, <1>3
<1>5. (x - 1) + 1 \in S BY <1>3, <1>4
<1> QED BY <1>2, <1>5

LEMMA MaxIsIn ==
  ASSUME NEW n \in Nat, NEW T \in SUBSET (1..n), T # {}
  PROVE  Max(T) \in T
<1> DEFINE U == {n - t : t \in T}
<1>1. U \subseteq Nat /\ U # {}
  <2>1. \A t \in T : n - t \in Nat OBVIOUS
  <2> QED BY <2>1
<1>2. PICK u \in U : \A v \in U : u <= v BY <1>1, Smallest
<1>3. PICK t \in T : u = n - t BY <1>2
<1>4. \A s \in T : t >= s
  <2> TAKE s \in T
  <2>1. n - t <= n - s BY <1>2, <1>3
  <2> QED BY <2>1
<1> QED BY <1>4 DEF Max

(* A fold whose steps stay within sets Iv[T], of what they may find when    *)
(* the elements in T are done: it is defined, and stays within them.        *)
Picks(S, pick) == \A T \in SUBSET S : T # {} => pick[T] \in T
Steps(S, pick, step, Iv) ==
  \A T \in SUBSET S : T # {} => \A x \in Iv[T \ {pick[T]}] : step[T][x] \in Iv[T]
IsFold(g, S, base, pick, step, Iv) ==
  /\ g = [T \in SUBSET S |-> IF T = {} THEN base ELSE step[T][g[T \ {pick[T]}]]]
  /\ \A T \in SUBSET S : g[T] \in Iv[T]
Stays(S, g, pick, Iv) ==
  \A T \in SUBSET S : T # {} /\ g[T \ {pick[T]}] \in Iv[T \ {pick[T]}] => g[T] \in Iv[T]

LEMMA FoldExists ==
  ASSUME NEW S, IsFiniteSet(S), NEW base, NEW pick, NEW step, NEW Iv,
         Picks(S, pick), base \in Iv[{}], Steps(S, pick, step, Iv)
  PROVE  \E g : IsFold(g, S, base, pick, step, Iv)
<1> USE DEF Picks, Steps
<1> DEFINE Next1(h, T) == IF T = {} THEN base ELSE step[T][h[T \ {pick[T]}]]
           Upto(h, n) == \A T \in SUBSET S : Cardinality(T) <= n =>
                                              h[T] \in Iv[T] /\ h[T] = Next1(h, T)
           N == {n \in Nat : \E h : Upto(h, n)}
<1>0. \A T \in SUBSET S : IsFiniteSet(T) /\ Cardinality(T) \in Nat BY FS_Subset, FS_CardinalityType
<1>1. 0 \in N
  <2> DEFINE h == [T \in SUBSET S |-> base]
  <2>1. \A T \in SUBSET S : Cardinality(T) <= 0 => T = {} BY <1>0, FS_EmptySet
  <2>2. Upto(h, 0) BY <2>1
  <2> QED BY <2>2
<1>2. ASSUME NEW n \in Nat, n \in N PROVE n + 1 \in N
  <2> PICK h : Upto(h, n) BY <1>2
  <2> DEFINE k == [T \in SUBSET S |-> IF Cardinality(T) <= n THEN h[T] ELSE Next1(h, T)]
  <2>1. ASSUME NEW T \in SUBSET S, Cardinality(T) <= n + 1
        PROVE  k[T] \in Iv[T] /\ k[T] = Next1(k, T)
    <3>1. CASE T = {}
      <4>1. Cardinality(T) <= n BY <3>1, FS_EmptySet
      <4> QED BY <3>1, <4>1
    <3>2. CASE T # {}
      <4> DEFINE U == T \ {pick[T]}
      <4>1. pick[T] \in T /\ U \in SUBSET S BY <3>2
      <4>2. Cardinality(U) = Cardinality(T) - 1 BY <1>0, <4>1, FS_RemoveElement
      <4>3. Cardinality(U) <= n /\ Cardinality(T) \in Nat BY <1>0, <2>1, <4>2
      <4>4. k[U] = h[U] /\ h[U] \in Iv[U] BY <4>1, <4>3
      <4>5. Next1(k, T) = Next1(h, T) BY <3>2, <4>4
      <4>6. step[T][h[U]] \in Iv[T] BY <3>2, <4>4
      <4>7. CASE Cardinality(T) <= n BY <4>5, <4>7
      <4>8. CASE ~(Cardinality(T) <= n) BY <3>2, <4>5, <4>6, <4>8
      <4> QED BY <4>7, <4>8
    <3> QED BY <3>1, <3>2
  <2>2. Upto(k, n + 1)
    <3> HIDE DEF k, Next1
    <3> QED BY <2>1
  <2>3. \E f : Upto(f, n + 1)
    <3> HIDE DEF k, Upto
    <3> QED BY <2>2
  <2> HIDE DEF Upto
  <2> QED BY <2>3
<1>3. Cardinality(S) \in N
  <2> HIDE DEF N
  <2>1. Nat \subseteq N BY <1>1, <1>2, Induction
  <2> QED BY <1>0, <2>1
<1>4. PICK h : Upto(h, Cardinality(S)) BY <1>3
<1>5. \A T \in SUBSET S : h[T] \in Iv[T] /\ h[T] = Next1(h, T) BY <1>4, FS_Subset
<1> DEFINE g == [T \in SUBSET S |-> h[T]]
<1>6. \A T \in SUBSET S : g[T] \in Iv[T] /\ g[T] = Next1(g, T)
  <2> TAKE T \in SUBSET S
  <2>1. T \ {pick[T]} \in SUBSET S OBVIOUS
  <2> QED BY <1>5, <2>1
<1>7. g = [T \in SUBSET S |-> Next1(g, T)] BY <1>6
<1>8. IsFold(g, S, base, pick, step, Iv) BY <1>6, <1>7 DEF IsFold
<1> HIDE DEF g
<1> QED BY <1>8

LEMMA FoldStays ==
  ASSUME NEW S, IsFiniteSet(S), NEW g, NEW pick, NEW Iv,
         Picks(S, pick), g[{}] \in Iv[{}], Stays(S, g, pick, Iv)
  PROVE  g[S] \in Iv[S]
<1> USE DEF Picks, Stays
<1> DEFINE N == {n \in Nat : \A T \in SUBSET S : Cardinality(T) <= n => g[T] \in Iv[T]}
<1>0. \A T \in SUBSET S : IsFiniteSet(T) /\ Cardinality(T) \in Nat BY FS_Subset, FS_CardinalityType
<1>1. 0 \in N
  <2>1. \A T \in SUBSET S : Cardinality(T) <= 0 => T = {} BY <1>0, FS_EmptySet
  <2> QED BY <2>1
<1>2. ASSUME NEW n \in Nat, n \in N PROVE n + 1 \in N
  <2>1. ASSUME NEW T \in SUBSET S, Cardinality(T) <= n + 1 PROVE g[T] \in Iv[T]
    <3>1. CASE T = {} BY <3>1
    <3>2. CASE T # {}
      <4> DEFINE U == T \ {pick[T]}
      <4>1. pick[T] \in T /\ U \in SUBSET S BY <3>2
      <4>2. Cardinality(U) = Cardinality(T) - 1 BY <1>0, <4>1, FS_RemoveElement
      <4>3. Cardinality(U) <= n BY <1>0, <2>1, <4>2
      <4>4. g[U] \in Iv[U] BY <1>2, <4>1, <4>3
      <4> QED BY <3>2, <4>4
    <3> QED BY <3>1, <3>2
  <2> QED BY <2>1
<1>3. Cardinality(S) \in N
  <2> HIDE DEF N
  <2>1. Nat \subseteq N BY <1>1, <1>2, Induction
  <2> QED BY <1>0, <2>1
<1> QED BY <1>0, <1>3

-----------------------------------------------------------------------------
LEMMA ClassFacts ==
  /\ IsFiniteSet(Class)
  /\ \A m \in Module : Range(Components[m]) \subseteq Class
  /\ \A c \in Class : Home(c) \in Module /\ c \in Range(Components[Home(c)])
  /\ \A m \in Module : \A c \in Range(Components[m]) : Home(c) = m
<1>1. \A m \in Module : Range(Components[m]) \subseteq Class BY DEF Class
<1>2. \A c \in Class : Home(c) \in Module /\ c \in Range(Components[Home(c)])
  <2> TAKE c \in Class
  <2>1. \E m \in Module : c \in Range(Components[m]) BY DEF Class
  <2> QED BY <2>1 DEF Home
<1>3. ASSUME NEW m \in Module, NEW c \in Range(Components[m]) PROVE Home(c) = m
  <2>1. c \in Range(Components[Home(c)]) /\ Home(c) \in Module BY <1>1, <1>2
  <2>2. Range(Components[Home(c)]) \cap Range(Components[m]) # {} BY <2>1
  <2> QED BY <2>1, <2>2, ModulesAssumption
<1>4. \A m \in Module : IsFiniteSet(Range(Components[m]))
  <2> TAKE m \in Module
  <2> DEFINE s == Components[m]
  <2>1. s \in Seq(Class) BY ModulesAssumption
  <2>2. s \in [1..Len(s) -> Range(s)] /\ Len(s) \in Nat BY <2>1 DEF Range
  <2>3. s \in Surjection(1..Len(s), Range(s)) BY <2>1, <2>2 DEF Surjection, Range
  <2>4. IsFiniteSet(1..Len(s)) BY <2>2, FS_Interval
  <2> QED BY <2>3, <2>4, FS_Surjection
<1>5. IsFiniteSet(Class)
  <2> DEFINE Tables == {Range(Components[m]) : m \in Module}
             table == [m \in Module |-> Range(Components[m])]
  <2>1. table \in Surjection(Module, Tables) BY DEF Surjection
  <2>2. IsFiniteSet(Tables) BY <2>1, ModulesAssumption, FS_Surjection
  <2>3. \A T \in Tables : IsFiniteSet(T) BY <1>4
  <2>4. IsFiniteSet(UNION Tables) BY <2>2, <2>3, FS_UNION
  <2> QED BY <2>4 DEF Class
<1> QED BY <1>1, <1>2, <1>3, <1>5

LEMMA PositiveIsNotEmpty ==
  ASSUME NEW A, Cardinality(A) > 0
  PROVE  A # {}
<1> SUFFICES ASSUME A = {} PROVE FALSE OBVIOUS
<1>1. Cardinality(A) = 0 BY FS_EmptySet
<1> QED BY <1>1

LEMMA InFact ==
  ASSUME NEW f, NEW A
  PROVE  /\ f \in A => In(f, A) = 1
         /\ f \notin A => In(f, A) = 0
         /\ In(f, A) \in Nat
<1>1. f \in A => {f} \cap A = {f} OBVIOUS
<1>2. f \notin A => {f} \cap A = {} OBVIOUS
<1>3. Cardinality({f}) = 1 /\ Cardinality({}) = 0 BY FS_Singleton, FS_EmptySet
<1>4. f \in A => In(f, A) = 1 BY <1>1, <1>3 DEF In
<1>5. f \notin A => In(f, A) = 0 BY <1>2, <1>3 DEF In
<1> QED BY <1>4, <1>5

LEMMA OwnersFact ==
  ASSUME NEW x, NEW nodes, NEW f
  PROVE  /\ IsFiniteSet(Entries(x, f)) /\ IsFiniteSet(Lists(nodes, f))
         /\ Cardinality(Entries(x, f)) \in Nat /\ Cardinality(Lists(nodes, f)) \in Nat
         /\ Owners(x, nodes, f) \in Nat
         /\ Owners(x, nodes, f) = 0 => /\ Entries(x, f) = {} /\ Lists(nodes, f) = {}
                                       /\ f \notin x.held /\ f \notin x.lost \ Unused(x)
<1>1. IsFiniteSet(Entries(x, f)) BY ClassFacts, FS_Subset DEF Entries
<1>2. IsFiniteSet(Lists(nodes, f)) BY ModulesAssumption, FS_Subset DEF Lists
<1>3. Cardinality(Entries(x, f)) \in Nat /\ Cardinality(Lists(nodes, f)) \in Nat
  BY <1>1, <1>2, FS_CardinalityType
<1>4. In(f, x.held) \in Nat /\ In(f, x.lost \ Unused(x)) \in Nat BY InFact
<1>5. Owners(x, nodes, f) \in Nat BY <1>3, <1>4 DEF Owners
<1>6. ASSUME Owners(x, nodes, f) = 0
      PROVE  /\ Entries(x, f) = {} /\ Lists(nodes, f) = {}
             /\ f \notin x.held /\ f \notin x.lost \ Unused(x)
  <2>1. /\ Cardinality(Entries(x, f)) = 0 /\ Cardinality(Lists(nodes, f)) = 0
        /\ In(f, x.held) = 0 /\ In(f, x.lost \ Unused(x)) = 0
    BY <1>3, <1>4, <1>6 DEF Owners
  <2> QED BY <1>1, <1>2, <2>1, FS_EmptySet, InFact
<1> QED BY <1>1, <1>2, <1>3, <1>5, <1>6

(* What an owner has is there.                                              *)
LEMMA OwnedIsLive ==
  ASSUME NEW x, NEW nodes, NEW loose, Sound(x, nodes, loose), NEW f \in Factory,
         Entries(x, f) # {} \/ Lists(nodes, f) # {} \/ f \in x.held \/ loose[f] > 0
  PROVE  x.class[f] # Null /\ x.refs[f] > 0 /\ x.refs[f] \in Nat
<1>1. x.refs[f] = Owners(x, nodes, f) + loose[f] /\ loose[f] \in Nat BY DEF Sound, RefsInv
<1>2. Owners(x, nodes, f) \in Nat /\ (Owners(x, nodes, f) > 0 \/ loose[f] > 0) BY OwnersFact
<1>3. x.refs[f] > 0 /\ x.refs[f] \in Nat BY <1>1, <1>2
<1> QED BY <1>3 DEF Sound, LiveInv

(* One reference more, one reference less.                                  *)
More(loose, f) == [loose EXCEPT ![f] = @ + 1]
Less(loose, f) == [loose EXCEPT ![f] = @ - 1]

(* What a release leaves as it was.                                         *)
Kept(x, y) ==
  /\ y.known = x.known /\ y.made = x.made /\ y.loaded = x.loaded /\ y.ready = x.ready
  /\ y.nodes = x.nodes /\ y.held = x.held /\ y.lost = x.lost
  /\ Unused(x) \subseteq Unused(y)

LEMMA ReleaseKeeps ==
  ASSUME NEW x, NEW nodes, NEW loose, Sound(x, nodes, loose), NEW f \in Factory, loose[f] > 0
  PROVE  Sound(Release(x, f), nodes, Less(loose, f)) /\ Kept(x, Release(x, f))
<1> DEFINE y == Release(x, f)
           after == Less(loose, f)
<1>1. /\ x \in States /\ nodes \in [Module -> Seq(Factory)] /\ loose \in [Factory -> Nat]
      /\ LiveInv(x) /\ PointersInv(x) /\ NodesInv(x, nodes) /\ PlacesInv(x)
      /\ RefsInv(x, nodes, loose)
  BY DEF Sound
<1>2. x.class[f] # Null /\ x.refs[f] > 0 /\ x.refs[f] \in Nat BY OwnedIsLive
<1>3. f # Null BY ModulesAssumption
<1>4. /\ after \in [Factory -> Nat] /\ after[f] = loose[f] - 1
      /\ \A g \in Factory \ {f} : after[g] = loose[g]
  BY <1>1 DEF Less
<1>5. CASE x.refs[f] > 1
  <2>1. y = [x EXCEPT !.refs[f] = @ - 1] BY <1>3, <1>5 DEF Release
  <2>2. /\ y \in States /\ y.class = x.class /\ y.info = x.info /\ y.late = x.late
        /\ y.known = x.known /\ y.made = x.made /\ y.loaded = x.loaded /\ y.ready = x.ready
        /\ y.nodes = x.nodes /\ y.held = x.held /\ y.lost = x.lost
        /\ y.refs[f] = x.refs[f] - 1 /\ \A g \in Factory \ {f} : y.refs[g] = x.refs[g]
    <3>1. /\ y.class = x.class /\ y.info = x.info /\ y.late = x.late
          /\ y.known = x.known /\ y.made = x.made /\ y.loaded = x.loaded /\ y.ready = x.ready
          /\ y.nodes = x.nodes /\ y.held = x.held /\ y.lost = x.lost
          /\ y.refs = [x.refs EXCEPT ![f] = @ - 1]
      BY <1>1, <2>1 DEF States
    <3>2. x.refs \in [Factory -> Nat] BY <1>1 DEF States
    <3>3. x.refs[f] - 1 \in Nat BY <1>2
    <3> DEFINE r == [x.refs EXCEPT ![f] = @ - 1]
    <3>4. r \in [Factory -> Nat] BY <3>2, <3>3
    <3>5. y = [x EXCEPT !.refs = r] BY <2>1
    <3> HIDE DEF r, y
    <3>6. y \in States BY <1>1, <3>4, <3>5 DEF States
    <3> QED BY <1>2, <3>1, <3>2, <3>6
  <2> HIDE DEF y, after
  <2>3. Unused(y) = Unused(x) BY <2>2 DEF Unused
  <2>4. \A g \in Factory : Owners(y, nodes, g) = Owners(x, nodes, g)
    BY <2>2, <2>3 DEF Owners, Entries
  <2>5. LiveInv(y) BY <1>1, <1>2, <1>5, <2>2 DEF LiveInv
  <2>6. PointersInv(y) /\ NodesInv(y, nodes) /\ PlacesInv(y)
    BY <1>1, <2>2 DEF PointersInv, NodesInv, PlacesInv, Mapped
  <2>7. RefsInv(y, nodes, after)
    <3> SUFFICES ASSUME NEW g \in Factory PROVE y.refs[g] = Owners(y, nodes, g) + after[g]
      BY DEF RefsInv
    <3>1. x.refs[g] = Owners(x, nodes, g) + loose[g] BY <1>1 DEF RefsInv
    <3>2. Owners(x, nodes, g) \in Nat /\ loose[g] \in Nat BY <1>1, OwnersFact
    <3>3. CASE g = f BY <1>4, <2>2, <2>4, <3>1, <3>2, <3>3
    <3>4. CASE g # f BY <1>4, <2>2, <2>4, <3>1, <3>2, <3>4
    <3> QED BY <3>3, <3>4
  <2>8. Sound(y, nodes, after) BY <1>1, <1>4, <2>2, <2>5, <2>6, <2>7 DEF Sound
  <2>9. Kept(x, y) BY <2>2, <2>3 DEF Kept
  <2> QED BY <2>8, <2>9 DEF y, after
<1>6. CASE ~(x.refs[f] > 1)
  <2> DEFINE c == x.class[f]
  <2>0. x.refs[f] = 1 /\ Owners(x, nodes, f) = 0 /\ loose[f] = 1
    <3>1. x.refs[f] = Owners(x, nodes, f) + loose[f] BY <1>1 DEF RefsInv
    <3>2. Owners(x, nodes, f) \in Nat /\ loose[f] \in Nat BY <1>1, OwnersFact
    <3> QED BY <1>2, <1>6, <3>1, <3>2
  <2>1. c \in Class /\ f \notin x.lost
    <3>1. c \in Class BY <1>1, <1>2 DEF States
    <3>2. f \notin x.lost \ Unused(x) BY <2>0, OwnersFact
    <3> QED BY <1>2, <3>1, <3>2 DEF Unused
  <2>2. Mapped(x, Home(c)) BY <1>1, <1>2, <2>1 DEF PlacesInv
  <2>3. y = [x EXCEPT !.class[f] = Null, !.refs[f] = 0, !.info[c] = Null, !.late = x.late]
    BY <1>3, <1>6, <2>2 DEF Release, Destroyed
  <2> HIDE DEF c
  <2>4. /\ y \in States /\ y.late = x.late
        /\ y.known = x.known /\ y.made = x.made /\ y.loaded = x.loaded /\ y.ready = x.ready
        /\ y.nodes = x.nodes /\ y.held = x.held /\ y.lost = x.lost
        /\ y.refs[f] = 0 /\ \A g \in Factory \ {f} : y.refs[g] = x.refs[g]
        /\ y.class[f] = Null /\ \A g \in Factory \ {f} : y.class[g] = x.class[g]
        /\ y.info[c] = Null /\ \A d \in Class \ {c} : y.info[d] = x.info[d]
    <3> DEFINE r == [x.refs EXCEPT ![f] = 0]
               k == [x.class EXCEPT ![f] = Null]
               i == [x.info EXCEPT ![c] = Null]
    <3>1. y = [x EXCEPT !.class = k, !.refs = r, !.info = i, !.late = x.late] BY <2>3
    <3>2. /\ x.refs \in [Factory -> Nat] /\ x.class \in [Factory -> Class \cup {Null}]
          /\ x.info \in [Class -> Factory \cup {Null}]
      BY <1>1 DEF States
    <3>3. /\ r \in [Factory -> Nat] /\ k \in [Factory -> Class \cup {Null}]
          /\ i \in [Class -> Factory \cup {Null}]
          /\ r[f] = 0 /\ \A g \in Factory \ {f} : r[g] = x.refs[g]
          /\ k[f] = Null /\ \A g \in Factory \ {f} : k[g] = x.class[g]
          /\ i[c] = Null /\ \A d \in Class \ {c} : i[d] = x.info[d]
      BY <2>1, <3>2
    <3> HIDE DEF r, k, i, y
    <3>4. y \in States BY <1>1, <3>1, <3>3 DEF States
    <3>5. /\ y.late = x.late
          /\ y.known = x.known /\ y.made = x.made /\ y.loaded = x.loaded /\ y.ready = x.ready
          /\ y.nodes = x.nodes /\ y.held = x.held /\ y.lost = x.lost
          /\ y.refs = r /\ y.class = k /\ y.info = i
      BY <1>1, <3>1 DEF States
    <3> QED BY <3>3, <3>4, <3>5
  <2> HIDE DEF y, after
  <2>5. Unused(y) = Unused(x) \cup {f} BY <2>4 DEF Unused
  <2>6. /\ Entries(x, f) = {} /\ Lists(nodes, f) = {} /\ f \notin x.held /\ f \notin x.lost
    BY <2>0, <2>1, OwnersFact
  <2>7. \A g \in Factory : Owners(y, nodes, g) = Owners(x, nodes, g)
    <3>1. y.lost \ Unused(y) = x.lost \ Unused(x) BY <2>4, <2>5, <2>6
    <3> QED BY <2>4, <3>1 DEF Owners, Entries
  <2>8. LiveInv(y) BY <1>1, <2>4 DEF LiveInv
  <2>9. PointersInv(y)
    <3>1. ASSUME NEW d \in Class, y.info[d] # Null PROVE y.class[y.info[d]] = d
      <4>1. d # c /\ y.info[d] = x.info[d] BY <2>4, <3>1
      <4>2. x.class[x.info[d]] = d /\ x.info[d] \in Factory
        BY <1>1, <3>1, <4>1 DEF PointersInv, States
      <4>3. x.info[d] # f BY <4>1, <4>2 DEF c
      <4> QED BY <2>4, <4>1, <4>2, <4>3
    <3>2. ASSUME NEW d \in Class, y.made[d] # Null
          PROVE  y.class[y.made[d]] = d /\ y.made[d] \notin y.lost
      <4>1. y.made[d] = x.made[d] /\ x.made[d] # f BY <2>4, <2>6 DEF Entries
      <4>2. x.class[x.made[d]] = d /\ x.made[d] \in Factory /\ x.made[d] \notin x.lost
        BY <1>1, <3>2, <4>1 DEF PointersInv, States
      <4> QED BY <2>4, <4>1, <4>2
    <3> QED BY <3>1, <3>2 DEF PointersInv
  <2>10. NodesInv(y, nodes)
    <3> SUFFICES ASSUME NEW m \in Module
                 PROVE  /\ nodes[m] # <<>> => m \in y.loaded
                        /\ \A i \in 1..Len(nodes[m]) : y.class[nodes[m][i]] \in Range(Components[m])
                        /\ \A i, j \in 1..Len(nodes[m]) : nodes[m][i] = nodes[m][j] => i = j
      BY DEF NodesInv
    <3>1. nodes[m] \in Seq(Factory) BY <1>1
    <3>2. f \notin Range(nodes[m]) BY <2>6 DEF Lists
    <3>3. \A i \in 1..Len(nodes[m]) : nodes[m][i] \in Factory \ {f} BY <3>1, <3>2 DEF Range
    <3> QED BY <1>1, <2>4, <3>3 DEF NodesInv
  <2>11. PlacesInv(y)
    <3>1. \A g \in Factory : y.class[g] # Null => g # f /\ y.class[g] = x.class[g] BY <2>4
    <3>2. \A g \in x.lost : g \in Factory /\ y.class[g] = x.class[g] BY <1>1, <2>4, <2>6 DEF States
    <3> QED BY <1>1, <2>4, <3>1, <3>2 DEF PlacesInv, Mapped
  <2>12. RefsInv(y, nodes, after)
    <3> SUFFICES ASSUME NEW g \in Factory PROVE y.refs[g] = Owners(y, nodes, g) + after[g]
      BY DEF RefsInv
    <3>1. CASE g = f BY <1>4, <2>0, <2>4, <2>7, <3>1
    <3>2. CASE g # f
      <4>1. x.refs[g] = Owners(x, nodes, g) + loose[g] BY <1>1 DEF RefsInv
      <4> QED BY <1>4, <2>4, <2>7, <3>2, <4>1
    <3> QED BY <3>1, <3>2
  <2>13. Sound(y, nodes, after) BY <1>1, <1>4, <2>4, <2>8, <2>9, <2>10, <2>11, <2>12 DEF Sound
  <2>14. Kept(x, y) BY <2>4, <2>5 DEF Kept
  <2> QED BY <2>13, <2>14 DEF y, after
<1> QED BY <1>5, <1>6

-----------------------------------------------------------------------------
(* An entry is given another factory, or none: the one it had is loose.     *)
Swapped(x, c, k, n) == [x EXCEPT !.known[c] = k, !.made[c] = n, !.refs[n] = @ + 1]

LEMMA MoreFact ==
  ASSUME NEW loose \in [Factory -> Nat], NEW f
  PROVE  /\ More(loose, f) \in [Factory -> Nat]
         /\ \A g \in Factory : More(loose, f)[g] = IF g = f THEN loose[g] + 1 ELSE loose[g]
         /\ f \notin Factory => More(loose, f) = loose
         /\ Less(More(loose, f), f) = loose
<1> DEFINE more == [loose EXCEPT ![f] = @ + 1]
<1>2. \A g \in Factory : more[g] = IF g = f THEN loose[g] + 1 ELSE loose[g] OBVIOUS
<1>1. more \in [Factory -> Nat]
  <2>1. \A g \in Factory : more[g] \in Nat BY <1>2
  <2>2. more = [g \in Factory |-> more[g]] OBVIOUS
  <2> HIDE DEF more
  <2> QED BY <2>1, <2>2
<1>3. f \notin Factory => more = loose BY <1>2
<1>4. [more EXCEPT ![f] = @ - 1] = loose
  <2> DEFINE less == [more EXCEPT ![f] = @ - 1]
  <2>1. \A g \in Factory : less[g] = IF g = f THEN more[g] - 1 ELSE more[g] BY <1>1
  <2>2. \A g \in Factory : less[g] = loose[g] BY <1>2, <2>1
  <2>3. less = [g \in Factory |-> less[g]] /\ loose = [g \in Factory |-> loose[g]] BY <1>1
  <2> HIDE DEF less, more
  <2>4. less = loose BY <2>2, <2>3
  <2> QED BY <2>4 DEF less
<1> HIDE DEF more
<1> QED BY <1>1, <1>2, <1>3, <1>4 DEF More, Less, more

LEMMA SwapKeeps ==
  ASSUME NEW x, NEW nodes, NEW loose, Sound(x, nodes, loose), NEW c \in Class,
         NEW k \in {"no", "direct", "located"}, NEW n \in Factory \cup {Null},
         n # Null => x.class[n] = c /\ n \notin x.lost
  PROVE  LET y == Swapped(x, c, k, n)
         IN /\ Sound(y, nodes, More(loose, x.made[c]))
            /\ y.made = [x.made EXCEPT ![c] = n]
            /\ y.loaded = x.loaded /\ y.ready = x.ready /\ y.nodes = x.nodes
            /\ y.held = x.held /\ y.lost = x.lost /\ Unused(y) = Unused(x)
            /\ y.class = x.class
<1> DEFINE y == Swapped(x, c, k, n)
           old == x.made[c]
           after == More(loose, old)
           kn == [x.known EXCEPT ![c] = k]
           ma == [x.made EXCEPT ![c] = n]
           re == More(x.refs, n)
<1>1. /\ x \in States /\ nodes \in [Module -> Seq(Factory)] /\ loose \in [Factory -> Nat]
      /\ LiveInv(x) /\ PointersInv(x) /\ NodesInv(x, nodes) /\ PlacesInv(x)
      /\ RefsInv(x, nodes, loose)
  BY DEF Sound
<1>2. /\ x.known \in [Class -> {"no", "direct", "located"}]
      /\ x.made \in [Class -> Factory \cup {Null}] /\ x.refs \in [Factory -> Nat]
  BY <1>1 DEF States
<1>3. /\ kn \in [Class -> {"no", "direct", "located"}] /\ ma \in [Class -> Factory \cup {Null}]
      /\ ma[c] = n /\ \A d \in Class \ {c} : ma[d] = x.made[d]
  BY <1>2
<1>4. /\ re \in [Factory -> Nat]
      /\ \A g \in Factory : re[g] = IF g = n THEN x.refs[g] + 1 ELSE x.refs[g]
  BY <1>2, MoreFact
<1>5. y = [x EXCEPT !.known = kn, !.made = ma, !.refs = re] BY DEF Swapped, More
<1>6. /\ after \in [Factory -> Nat]
      /\ \A g \in Factory : after[g] = IF g = old THEN loose[g] + 1 ELSE loose[g]
  BY <1>1, MoreFact
<1>7. old = x.made[c] /\ ma = [x.made EXCEPT ![c] = n] OBVIOUS
<1> HIDE DEF kn, ma, re, y, after, old
<1>8. y \in States BY <1>1, <1>3, <1>4, <1>5 DEF States
<1>9. /\ y.known = kn /\ y.made = ma /\ y.refs = re /\ y.class = x.class /\ y.info = x.info
      /\ y.loaded = x.loaded /\ y.ready = x.ready /\ y.nodes = x.nodes
      /\ y.held = x.held /\ y.lost = x.lost /\ y.late = x.late
  BY <1>1, <1>5 DEF States
<1>10. Unused(y) = Unused(x) BY <1>9 DEF Unused
<1>11. LiveInv(y)
  <2> SUFFICES ASSUME NEW g \in Factory PROVE y.class[g] = Null <=> y.refs[g] = 0 BY DEF LiveInv
  <2>1. x.class[g] = Null <=> x.refs[g] = 0 BY <1>1 DEF LiveInv
  <2>2. x.refs[g] \in Nat BY <1>2
  <2>3. CASE g = n
    <3>1. x.class[g] = c /\ c # Null BY <2>3, ModulesAssumption
    <3>2. y.refs[g] = x.refs[g] + 1 BY <1>4, <1>9, <2>3
    <3> QED BY <1>9, <2>2, <3>1, <3>2
  <2>4. CASE g # n BY <1>4, <1>9, <2>1, <2>4
  <2> QED BY <2>3, <2>4
<1>12. PointersInv(y) BY <1>1, <1>3, <1>9 DEF PointersInv
<1>13. NodesInv(y, nodes) /\ PlacesInv(y) BY <1>1, <1>9 DEF NodesInv, PlacesInv, Mapped
<1>14. RefsInv(y, nodes, after)
  <2> SUFFICES ASSUME NEW g \in Factory PROVE y.refs[g] = Owners(y, nodes, g) + after[g]
    BY DEF RefsInv
  <2> DEFINE a == Cardinality(Entries(x, g))
             b == Cardinality(Entries(y, g))
             rest == Cardinality(Lists(nodes, g)) + In(g, x.held) + In(g, x.lost \ Unused(x))
  <2>1. IsFiniteSet(Entries(x, g)) /\ a \in Nat /\ b \in Nat BY OwnersFact
  <2>2. rest \in Nat
    <3>1. /\ Cardinality(Lists(nodes, g)) \in Nat /\ In(g, x.held) \in Nat
          /\ In(g, x.lost \ Unused(x)) \in Nat
      BY OwnersFact, InFact
    <3> QED BY <3>1
  <2>3. Owners(x, nodes, g) = a + rest
    <3>1. /\ Cardinality(Lists(nodes, g)) \in Nat /\ In(g, x.held) \in Nat
          /\ In(g, x.lost \ Unused(x)) \in Nat
      BY OwnersFact, InFact
    <3> QED BY <2>1, <3>1 DEF Owners
  <2>4. Owners(y, nodes, g) = b + rest
    <3>1. /\ Cardinality(Lists(nodes, g)) \in Nat /\ In(g, x.held) \in Nat
          /\ In(g, x.lost \ Unused(x)) \in Nat
      BY OwnersFact, InFact
    <3> QED BY <1>9, <1>10, <2>1, <3>1 DEF Owners
  <2>5. x.refs[g] = a + rest + loose[g] /\ loose[g] \in Nat
    BY <1>1, <2>3 DEF RefsInv
  <2>6. c \in Entries(x, g) <=> g = old BY <1>7 DEF Entries
  <2>7. CASE g = n
    <3>1. Entries(y, g) = Entries(x, g) \cup {c} BY <1>3, <1>9, <2>7 DEF Entries
    <3>2. b = IF g = old THEN a ELSE a + 1 BY <2>1, <2>6, <3>1, FS_AddElement
    <3>3. y.refs[g] = x.refs[g] + 1 BY <1>4, <1>9, <2>7
    <3>4. after[g] = IF g = old THEN loose[g] + 1 ELSE loose[g] BY <1>6
    <3> HIDE DEF a, b, rest
    <3> QED BY <2>1, <2>2, <2>4, <2>5, <3>2, <3>3, <3>4
  <2>8. CASE g # n
    <3>1. Entries(y, g) = Entries(x, g) \ {c} BY <1>3, <1>9, <2>8 DEF Entries
    <3>2. b = IF g = old THEN a - 1 ELSE a BY <2>1, <2>6, <3>1, FS_RemoveElement
    <3>3. y.refs[g] = x.refs[g] BY <1>4, <1>9, <2>8
    <3>4. after[g] = IF g = old THEN loose[g] + 1 ELSE loose[g] BY <1>6
    <3> HIDE DEF a, b, rest
    <3> QED BY <2>1, <2>2, <2>4, <2>5, <3>2, <3>3, <3>4
  <2> QED BY <2>7, <2>8
<1>15. Sound(y, nodes, after) BY <1>1, <1>6, <1>8, <1>11, <1>12, <1>13, <1>14 DEF Sound
<1> QED BY <1>7, <1>9, <1>10, <1>15 DEF y, after, old

(* What a registration leaves as it was.                                    *)
KeptBut(x, y, made) ==
  /\ y.made = made /\ y.loaded = x.loaded /\ y.ready = x.ready
  /\ y.nodes = x.nodes /\ y.held = x.held /\ y.lost = x.lost
  /\ Unused(x) \subseteq Unused(y)

LEMMA SwapReleaseKeeps ==
  ASSUME NEW x, NEW nodes, NEW loose, Sound(x, nodes, loose), NEW c \in Class,
         NEW k \in {"no", "direct", "located"}, NEW n \in Factory \cup {Null},
         n # Null => x.class[n] = c /\ n \notin x.lost
  PROVE  LET y == Release(Swapped(x, c, k, n), x.made[c])
         IN Sound(y, nodes, loose) /\ KeptBut(x, y, [x.made EXCEPT ![c] = n])
<1> DEFINE z == Swapped(x, c, k, n)
           old == x.made[c]
<1>1. /\ Sound(z, nodes, More(loose, old)) /\ z.made = [x.made EXCEPT ![c] = n]
      /\ z.loaded = x.loaded /\ z.ready = x.ready /\ z.nodes = x.nodes
      /\ z.held = x.held /\ z.lost = x.lost /\ Unused(z) = Unused(x)
  BY SwapKeeps
<1>2. loose \in [Factory -> Nat] /\ old \in Factory \cup {Null} BY DEF Sound, States
<1> HIDE DEF z, old
<1>3. CASE old = Null
  <2>1. Release(z, old) = z BY <1>3 DEF Release
  <2>2. More(loose, old) = loose BY <1>2, <1>3, MoreFact, ModulesAssumption
  <2> QED BY <1>1, <2>1, <2>2 DEF KeptBut, z, old
<1>4. CASE old # Null
  <2>1. old \in Factory /\ More(loose, old)[old] > 0
    <3>1. old \in Factory /\ loose[old] \in Nat BY <1>2, <1>4
    <3> QED BY <1>2, <3>1, MoreFact
  <2>2. Sound(Release(z, old), nodes, Less(More(loose, old), old)) /\ Kept(z, Release(z, old))
    BY <1>1, <2>1, ReleaseKeeps
  <2>3. Less(More(loose, old), old) = loose BY <1>2, MoreFact
  <2> QED BY <1>1, <2>2, <2>3 DEF Kept, KeptBut, z, old
<1> QED BY <1>3, <1>4

LEMMA RegisterFactoryKeeps ==
  ASSUME NEW x, NEW nodes, NEW loose, Sound(x, nodes, loose), NEW c \in Class,
         NEW f \in Factory, x.class[f] = c, f \notin x.lost
  PROVE  /\ Sound(RegisterFactory(x, c, f), nodes, loose)
         /\ KeptBut(x, RegisterFactory(x, c, f), [x.made EXCEPT ![c] = f])
<1> DEFINE k == IF x.known[c] = "no" THEN "direct" ELSE x.known[c]
<1>1. k \in {"no", "direct", "located"} BY DEF Sound, States
<1>2. RegisterFactory(x, c, f) = Release(Swapped(x, c, k, f), x.made[c])
  BY DEF RegisterFactory, Swapped
<1> HIDE DEF k
<1> QED BY <1>1, <1>2, SwapReleaseKeeps

LEMMA UnregisterFactoryKeeps ==
  ASSUME NEW x, NEW nodes, NEW loose, Sound(x, nodes, loose), NEW c \in Class
  PROVE  /\ Sound(UnregisterFactory(x, c), nodes, loose)
         /\ KeptBut(x, UnregisterFactory(x, c), [x.made EXCEPT ![c] = Null])
<1>1. x.refs \in [Factory -> Nat] /\ x \in States BY DEF Sound, States
<1>2. [x.refs EXCEPT ![Null] = @ + 1] = x.refs BY <1>1, ModulesAssumption
<1>3. Swapped(x, c, "no", Null) = [x EXCEPT !.known[c] = "no", !.made[c] = Null]
  <2>1. [x EXCEPT !.known[c] = "no", !.made[c] = Null, !.refs = x.refs]
        = [x EXCEPT !.known[c] = "no", !.made[c] = Null]
    BY <1>1 DEF States
  <2> QED BY <1>2, <2>1 DEF Swapped
<1>4. UnregisterFactory(x, c) = Release(Swapped(x, c, "no", Null), x.made[c])
  BY <1>3 DEF UnregisterFactory
<1> QED BY <1>4, SwapReleaseKeeps

-----------------------------------------------------------------------------
(* A new factory, which its maker holds.                                    *)
Fresh(x, y, c, f) ==
  /\ f \in Factory /\ f \notin x.lost /\ x.class[f] = Null /\ y.class[f] = c /\ y.info[c] = f
  /\ y.made = x.made /\ y.loaded = x.loaded /\ y.ready = x.ready
  /\ y.nodes = x.nodes /\ y.held = x.held /\ y.lost = x.lost
  /\ Unused(y) = Unused(x) \ {f}

LEMMA NewKeeps ==
  ASSUME NEW x, NEW nodes, NEW loose, Sound(x, nodes, loose), NEW c \in Class,
         Unused(x) # {}, Mapped(x, Home(c))
  PROVE  /\ Sound(CCI_NewGenericFactory(x, c), nodes, More(loose, NextUnused(x)))
         /\ Fresh(x, CCI_NewGenericFactory(x, c), c, NextUnused(x))
<1> DEFINE f == NextUnused(x)
           y == CCI_NewGenericFactory(x, c)
           after == More(loose, f)
           k == [x.class EXCEPT ![f] = c]
           r == [x.refs EXCEPT ![f] = 1]
           i == [x.info EXCEPT ![c] = f]
<1>1. /\ x \in States /\ nodes \in [Module -> Seq(Factory)] /\ loose \in [Factory -> Nat]
      /\ LiveInv(x) /\ PointersInv(x) /\ NodesInv(x, nodes) /\ PlacesInv(x)
      /\ RefsInv(x, nodes, loose)
  BY DEF Sound
<1>2. f \in Factory /\ x.class[f] = Null
  <2>1. f \in Unused(x) BY DEF NextUnused
  <2> QED BY <2>1 DEF Unused
<1>3. c # Null BY ModulesAssumption
<1>4. y = [x EXCEPT !.class = k, !.refs = r, !.info = i] BY DEF CCI_NewGenericFactory
<1>5. /\ after \in [Factory -> Nat]
      /\ \A g \in Factory : after[g] = IF g = f THEN loose[g] + 1 ELSE loose[g]
  BY <1>1, MoreFact
<1> HIDE DEF f, after
<1>6. /\ x.refs \in [Factory -> Nat] /\ x.class \in [Factory -> Class \cup {Null}]
      /\ x.info \in [Class -> Factory \cup {Null}]
  BY <1>1 DEF States
<1>7. /\ r \in [Factory -> Nat] /\ k \in [Factory -> Class \cup {Null}]
      /\ i \in [Class -> Factory \cup {Null}]
      /\ r[f] = 1 /\ \A g \in Factory \ {f} : r[g] = x.refs[g]
      /\ k[f] = c /\ \A g \in Factory \ {f} : k[g] = x.class[g]
      /\ i[c] = f /\ \A d \in Class \ {c} : i[d] = x.info[d]
  BY <1>2, <1>6
<1> HIDE DEF r, k, i, y
<1>8. y \in States BY <1>1, <1>4, <1>7 DEF States
<1>9. /\ y.late = x.late
      /\ y.known = x.known /\ y.made = x.made /\ y.loaded = x.loaded /\ y.ready = x.ready
      /\ y.nodes = x.nodes /\ y.held = x.held /\ y.lost = x.lost
      /\ y.refs = r /\ y.class = k /\ y.info = i
  BY <1>1, <1>4 DEF States
<1>10. Unused(y) = Unused(x) \ {f} BY <1>3, <1>7, <1>9 DEF Unused
<1>11. x.refs[f] = 0 BY <1>1, <1>2 DEF LiveInv
<1>12. Owners(x, nodes, f) = 0 /\ loose[f] = 0
  <2>1. x.refs[f] = Owners(x, nodes, f) + loose[f] BY <1>1, <1>2 DEF RefsInv
  <2> QED BY <1>1, <1>2, <1>11, <2>1, OwnersFact
<1>13. Entries(x, f) = {} /\ Lists(nodes, f) = {} /\ f \notin x.lost
  <2>1. \A g \in x.lost : x.class[g] # Null BY <1>1 DEF PlacesInv
  <2> QED BY <1>2, <1>12, <2>1, OwnersFact
<1>14. \A g \in Factory : Owners(y, nodes, g) = Owners(x, nodes, g)
  <2>1. y.lost \ Unused(y) = x.lost \ Unused(x) BY <1>9, <1>10, <1>13
  <2> QED BY <1>9, <2>1 DEF Owners, Entries
<1>15. LiveInv(y)
  <2> SUFFICES ASSUME NEW g \in Factory PROVE y.class[g] = Null <=> y.refs[g] = 0 BY DEF LiveInv
  <2>1. x.class[g] = Null <=> x.refs[g] = 0 BY <1>1 DEF LiveInv
  <2>2. CASE g = f BY <1>3, <1>7, <1>9, <2>2
  <2>3. CASE g # f BY <1>7, <1>9, <2>1, <2>3
  <2> QED BY <2>2, <2>3
<1>16. PointersInv(y)
  <2>1. ASSUME NEW d \in Class, y.info[d] # Null PROVE y.class[y.info[d]] = d
    <3>1. CASE d = c BY <1>7, <1>9, <3>1
    <3>2. CASE d # c
      <4>1. y.info[d] = x.info[d] BY <1>7, <1>9, <3>2
      <4>2. x.class[x.info[d]] = d /\ x.info[d] \in Factory
        BY <1>1, <1>6, <2>1, <4>1 DEF PointersInv
      <4>3. d # Null BY ModulesAssumption
      <4>4. x.info[d] # f BY <1>2, <4>2, <4>3
      <4> QED BY <1>7, <1>9, <4>1, <4>2, <4>4
    <3> QED BY <3>1, <3>2
  <2>2. ASSUME NEW d \in Class, y.made[d] # Null
        PROVE  y.class[y.made[d]] = d /\ y.made[d] \notin y.lost
    <3>1. y.made[d] = x.made[d] /\ x.made[d] # f BY <1>9, <1>13 DEF Entries
    <3>2. x.class[x.made[d]] = d /\ x.made[d] \in Factory /\ x.made[d] \notin x.lost
      BY <1>1, <2>2, <3>1 DEF PointersInv, States
    <3> QED BY <1>7, <1>9, <3>1, <3>2
  <2> QED BY <2>1, <2>2 DEF PointersInv
<1>17. NodesInv(y, nodes)
  <2> SUFFICES ASSUME NEW m \in Module
               PROVE  /\ nodes[m] # <<>> => m \in y.loaded
                      /\ \A j \in 1..Len(nodes[m]) : y.class[nodes[m][j]] \in Range(Components[m])
                      /\ \A j, l \in 1..Len(nodes[m]) : nodes[m][j] = nodes[m][l] => j = l
    BY DEF NodesInv
  <2>1. nodes[m] \in Seq(Factory) BY <1>1
  <2>2. f \notin Range(nodes[m]) BY <1>13 DEF Lists
  <2>3. \A j \in 1..Len(nodes[m]) : nodes[m][j] \in Factory \ {f} BY <2>1, <2>2 DEF Range
  <2> QED BY <1>1, <1>7, <1>9, <2>3 DEF NodesInv
<1>18. PlacesInv(y)
  <2>1. \A g \in x.lost : g \in Factory /\ y.class[g] = x.class[g]
    BY <1>1, <1>7, <1>9, <1>13 DEF States
  <2>2. ASSUME NEW g \in Factory, y.class[g] # Null
        PROVE  g \in y.lost \/ Mapped(y, Home(y.class[g]))
    BY <1>1, <1>7, <1>9, <2>2 DEF PlacesInv, Mapped
  <2> QED BY <1>1, <1>9, <2>1, <2>2 DEF PlacesInv
<1>19. RefsInv(y, nodes, after)
  <2> SUFFICES ASSUME NEW g \in Factory PROVE y.refs[g] = Owners(y, nodes, g) + after[g]
    BY DEF RefsInv
  <2>1. CASE g = f BY <1>5, <1>7, <1>9, <1>12, <1>14, <2>1
  <2>2. CASE g # f
    <3>1. x.refs[g] = Owners(x, nodes, g) + loose[g] BY <1>1 DEF RefsInv
    <3> QED BY <1>5, <1>7, <1>9, <1>14, <2>2, <3>1
  <2> QED BY <2>1, <2>2
<1>20. Sound(y, nodes, after) BY <1>1, <1>5, <1>8, <1>15, <1>16, <1>17, <1>18, <1>19 DEF Sound
<1>21. Fresh(x, y, c, f) BY <1>2, <1>7, <1>9, <1>10, <1>13 DEF Fresh
<1> QED BY <1>20, <1>21 DEF y, f, after

(* It becomes a node of its module.                                         *)
LEMMA AddFactoryNodeKeeps ==
  ASSUME NEW x, NEW loose, Sound(x, x.nodes, loose), NEW f \in Factory,
         x.class[f] # Null, Home(x.class[f]) \in x.loaded, Lists(x.nodes, f) = {}
  PROVE  LET y == AddFactoryNode(x, f)
         IN /\ Sound(y, y.nodes, loose)
            /\ y.made = x.made /\ y.loaded = x.loaded /\ y.held = x.held /\ y.lost = x.lost
            /\ y.class = x.class
<1> DEFINE y == AddFactoryNode(x, f)
           c == x.class[f]
           h == Home(c)
           list == <<f>> \o x.nodes[h]
           n == [x.nodes EXCEPT ![h] = list]
           r == [x.refs EXCEPT ![f] = @ + 1]
<1>1. /\ x \in States /\ x.nodes \in [Module -> Seq(Factory)] /\ loose \in [Factory -> Nat]
      /\ LiveInv(x) /\ PointersInv(x) /\ NodesInv(x, x.nodes) /\ PlacesInv(x)
      /\ RefsInv(x, x.nodes, loose)
  BY DEF Sound
<1>2. x.refs \in [Factory -> Nat] /\ c \in Class BY <1>1 DEF States
<1>3. h \in Module /\ c \in Range(Components[h]) BY <1>2, ClassFacts
<1>4. y = [x EXCEPT !.nodes = n, !.refs = r] BY DEF AddFactoryNode
<1>5. h \in x.loaded OBVIOUS
<1> HIDE DEF h
<1>6. /\ list \in Seq(Factory) /\ Len(list) = Len(x.nodes[h]) + 1
      /\ list[1] = f /\ \A j \in 2..Len(list) : list[j] = x.nodes[h][j - 1]
  BY <1>1, <1>3
<1> HIDE DEF list
<1>7. /\ n \in [Module -> Seq(Factory)] /\ n[h] = list
      /\ \A m \in Module \ {h} : n[m] = x.nodes[m]
      /\ r \in [Factory -> Nat] /\ r[f] = x.refs[f] + 1 /\ \A g \in Factory \ {f} : r[g] = x.refs[g]
  <2>1. /\ n \in [Module -> Seq(Factory)] /\ n[h] = list
        /\ \A m \in Module \ {h} : n[m] = x.nodes[m]
    BY <1>1, <1>3, <1>6
  <2>2. /\ r \in [Factory -> Nat] /\ r[f] = x.refs[f] + 1
        /\ \A g \in Factory \ {f} : r[g] = x.refs[g]
    BY <1>2
  <2> QED BY <2>1, <2>2
<1> HIDE DEF n, r, y
<1>8. y \in States BY <1>1, <1>4, <1>7 DEF States
<1>9. /\ y.known = x.known /\ y.made = x.made /\ y.loaded = x.loaded /\ y.ready = x.ready
      /\ y.nodes = n /\ y.held = x.held /\ y.lost = x.lost /\ y.late = x.late
      /\ y.refs = r /\ y.class = x.class /\ y.info = x.info
  BY <1>1, <1>4 DEF States
<1>10. Unused(y) = Unused(x) BY <1>9 DEF Unused
<1>11. \A m \in Module : f \notin Range(x.nodes[m]) BY DEF Lists
<1>12. \A m \in Module \ {h} : Range(n[m]) = Range(x.nodes[m]) BY <1>7
<1>13. Range(n[h]) = Range(x.nodes[h]) \cup {f}
  <2> DEFINE old == x.nodes[h]
  <2>1. old \in Seq(Factory) /\ Len(old) \in Nat BY <1>1, <1>3
  <2>2. Range(list) = {list[j] : j \in 1..Len(list)} BY <1>6 DEF Range
  <2>3. Range(old) = {old[j] : j \in 1..Len(old)} BY <2>1 DEF Range
  <2> HIDE DEF old
  <2>4. \A e \in Range(list) : e = f \/ e \in Range(old)
    <3> TAKE e \in Range(list)
    <3> PICK j \in 1..Len(list) : e = list[j] BY <2>2
    <3>1. CASE j = 1 BY <1>6, <3>1
    <3>2. CASE j # 1
      <4>1. j \in 2..Len(list) /\ j - 1 \in 1..Len(old) BY <1>6, <2>1, <3>2 DEF old
      <4> QED BY <1>6, <2>3, <4>1 DEF old
    <3> QED BY <3>1, <3>2
  <2>5. f \in Range(list)
    <3>1. 1 \in 1..Len(list) BY <1>6, <2>1 DEF old
    <3> QED BY <1>6, <2>2, <3>1
  <2>6. \A e \in Range(old) : e \in Range(list)
    <3> TAKE e \in Range(old)
    <3> PICK j \in 1..Len(old) : e = old[j] BY <2>3
    <3>1. j + 1 \in 2..Len(list) /\ j + 1 \in 1..Len(list) /\ (j + 1) - 1 = j BY <1>6, <2>1 DEF old
    <3>2. list[j + 1] = old[j] BY <1>6, <3>1 DEF old
    <3> QED BY <2>2, <3>1, <3>2
  <2> QED BY <1>7, <2>4, <2>5, <2>6 DEF old
<1>14. /\ Lists(n, f) = {h}
       /\ \A g \in Factory \ {f} : Lists(n, g) = Lists(x.nodes, g)
  <2>1. Lists(n, f) = {h} BY <1>3, <1>11, <1>12, <1>13 DEF Lists
  <2>2. ASSUME NEW g \in Factory \ {f} PROVE Lists(n, g) = Lists(x.nodes, g)
    <3>1. \A m \in Module : g \in Range(n[m]) <=> g \in Range(x.nodes[m]) BY <1>12, <1>13
    <3> QED BY <3>1 DEF Lists
  <2> QED BY <2>1, <2>2
<1>15. LiveInv(y)
  <2> SUFFICES ASSUME NEW g \in Factory PROVE y.class[g] = Null <=> y.refs[g] = 0 BY DEF LiveInv
  <2>1. (x.class[g] = Null <=> x.refs[g] = 0) /\ x.refs[g] \in Nat BY <1>1, <1>2 DEF LiveInv
  <2>2. CASE g = f BY <1>7, <1>9, <2>1, <2>2
  <2>3. CASE g # f BY <1>7, <1>9, <2>1, <2>3
  <2> QED BY <2>2, <2>3
<1>16. PointersInv(y) /\ PlacesInv(y) BY <1>1, <1>9 DEF PointersInv, PlacesInv, Mapped
<1>17. NodesInv(y, n)
  <2> SUFFICES ASSUME NEW m \in Module
               PROVE  /\ n[m] # <<>> => m \in y.loaded
                      /\ \A i \in 1..Len(n[m]) : y.class[n[m][i]] \in Range(Components[m])
                      /\ \A i, j \in 1..Len(n[m]) : n[m][i] = n[m][j] => i = j
    BY DEF NodesInv
  <2>1. CASE m # h
    <3>1. n[m] = x.nodes[m] BY <1>7, <2>1
    <3>2. /\ x.nodes[m] # <<>> => m \in x.loaded
          /\ \A i \in 1..Len(x.nodes[m]) : x.class[x.nodes[m][i]] \in Range(Components[m])
          /\ \A i, j \in 1..Len(x.nodes[m]) : x.nodes[m][i] = x.nodes[m][j] => i = j
      BY <1>1 DEF NodesInv
    <3> QED BY <1>9, <3>1, <3>2
  <2>2. CASE m = h
    <3> DEFINE old == x.nodes[h]
    <3>1. /\ \A i \in 1..Len(old) : x.class[old[i]] \in Range(Components[h])
          /\ \A i, j \in 1..Len(old) : old[i] = old[j] => i = j
          /\ old \in Seq(Factory) /\ Len(old) \in Nat
      BY <1>1, <1>3 DEF NodesInv
    <3>2. \A i \in 1..Len(old) : old[i] # f BY <1>3, <1>11, <3>1 DEF Range
    <3>3. /\ Len(list) = Len(old) + 1 /\ list[1] = f
          /\ \A j \in 2..Len(list) : list[j] = old[j - 1]
      BY <1>6
    <3>4. x.class[f] \in Range(Components[h]) BY <1>3
    <3> HIDE DEF old, c
    <3>5. \A i \in 1..Len(list) : i = 1 \/ (i \in 2..Len(list) /\ i - 1 \in 1..Len(old))
      BY <3>1, <3>3
    <3>6. \A i \in 1..Len(list) : x.class[list[i]] \in Range(Components[h])
      BY <3>1, <3>3, <3>4, <3>5
    <3>7. \A i, j \in 1..Len(list) : list[i] = list[j] => i = j
      <4> SUFFICES ASSUME NEW i \in 1..Len(list), NEW j \in 1..Len(list), list[i] = list[j]
                   PROVE  i = j
        OBVIOUS
      <4>1. CASE i = 1 BY <3>2, <3>3, <3>5, <4>1
      <4>2. CASE j = 1 BY <3>2, <3>3, <3>5, <4>2
      <4>3. CASE i # 1 /\ j # 1
        <5>1. i - 1 \in 1..Len(old) /\ j - 1 \in 1..Len(old) /\ old[i - 1] = old[j - 1]
          BY <3>3, <3>5, <4>3
        <5>2. i - 1 = j - 1 BY <3>1, <5>1
        <5> QED BY <3>1, <3>3, <5>2
      <4> QED BY <4>1, <4>2, <4>3
    <3> QED BY <1>5, <1>7, <1>9, <2>2, <3>6, <3>7
  <2> QED BY <2>1, <2>2
<1>18. RefsInv(y, n, loose)
  <2> SUFFICES ASSUME NEW g \in Factory PROVE y.refs[g] = Owners(y, n, g) + loose[g]
    BY DEF RefsInv
  <2>1. x.refs[g] = Owners(x, x.nodes, g) + loose[g] /\ loose[g] \in Nat BY <1>1 DEF RefsInv
  <2> DEFINE rest == Cardinality(Entries(x, g)) + In(g, x.held) + In(g, x.lost \ Unused(x))
  <2>2. /\ Cardinality(Entries(x, g)) \in Nat /\ In(g, x.held) \in Nat
        /\ In(g, x.lost \ Unused(x)) \in Nat /\ Cardinality(Lists(x.nodes, g)) \in Nat
        /\ Cardinality(Lists(n, g)) \in Nat
    BY OwnersFact, InFact
  <2>3. rest \in Nat BY <2>2
  <2>4. Owners(x, x.nodes, g) = Cardinality(Lists(x.nodes, g)) + rest BY <2>2 DEF Owners
  <2>5. Owners(y, n, g) = Cardinality(Lists(n, g)) + rest
    BY <1>9, <1>10, <2>2 DEF Owners, Entries
  <2> HIDE DEF rest
  <2>6. CASE g = f
    <3>1. Cardinality(Lists(n, g)) = 1 BY <1>14, <2>6, FS_Singleton
    <3>2. Cardinality(Lists(x.nodes, g)) = 0 BY <2>6, FS_EmptySet
    <3> QED BY <1>7, <1>9, <2>1, <2>3, <2>4, <2>5, <2>6, <3>1, <3>2
  <2>7. CASE g # f BY <1>7, <1>9, <1>14, <2>1, <2>4, <2>5, <2>7
  <2> QED BY <2>6, <2>7
<1>19. Sound(y, y.nodes, loose) BY <1>1, <1>7, <1>8, <1>9, <1>15, <1>16, <1>17, <1>18 DEF Sound
<1> QED BY <1>9, <1>19 DEF y

-----------------------------------------------------------------------------
(* What the calls of the module leave as it was.                            *)
Grown(x, y) == y.loaded = x.loaded /\ y.held = x.held /\ y.lost = x.lost

Result == [ok : BOOLEAN, x : States]
Between(x) == Sound(x, x.nodes, NoFactories)

LEMMA NoFactoriesFact == NoFactories \in [Factory -> Nat] /\ \A f \in Factory : NoFactories[f] = 0
BY DEF NoFactories

LEMMA ResultFact ==
  ASSUME NEW y \in States
  PROVE  Done(y) \in Result /\ Failed(y) \in Result /\ Done(y).x = y /\ Failed(y).x = y
         /\ Done(y).ok = TRUE /\ Failed(y).ok = FALSE
BY DEF Done, Failed, Result

(* The maker of a factory has handed it on, or gives it up.                 *)
LEMMA ReleaseOwn ==
  ASSUME NEW x, NEW f \in Factory, Sound(x, x.nodes, More(NoFactories, f))
  PROVE  Between(Release(x, f)) /\ Kept(x, Release(x, f))
<1>1. More(NoFactories, f)[f] > 0 /\ Less(More(NoFactories, f), f) = NoFactories
  BY NoFactoriesFact, MoreFact
<1>2. Sound(Release(x, f), x.nodes, NoFactories) /\ Kept(x, Release(x, f))
  <2>1. /\ Sound(Release(x, f), x.nodes, Less(More(NoFactories, f), f))
        /\ Kept(x, Release(x, f))
    BY <1>1, ReleaseKeeps
  <2> QED BY <1>1, <2>1
<1> QED BY <1>2 DEF Between, Kept

LEMMA EagerlyKeeps ==
  ASSUME NEW done \in Result, Between(done.x), NEW c \in Class, NEW fail,
         Home(c) \in done.x.loaded, Unused(done.x) # {}
  PROVE  LET r == Eagerly(done, c, fail)
         IN /\ r \in Result /\ Between(r.x) /\ Grown(done.x, r.x)
            /\ \E f : Unused(done.x) \ {f} \subseteq Unused(r.x)
<1> DEFINE x == done.x
           f == NextUnused(x)
           made == CCI_NewGenericFactory(x, c)
           r == Eagerly(done, c, fail)
<1>1. x \in States /\ done.ok \in BOOLEAN BY DEF Result
<1>2. Mapped(x, Home(c)) BY DEF Mapped
<1>3. Sound(x, x.nodes, NoFactories) BY DEF Between
<1>4. Sound(made, x.nodes, More(NoFactories, f)) /\ Fresh(x, made, c, f)
  <2> HIDE DEF x
  <2>1. Unused(x) # {} BY DEF x
  <2> QED BY <1>2, <1>3, <2>1, NewKeeps
<1>5. /\ f \in Factory /\ f \notin x.lost /\ x.class[f] = Null /\ made.class[f] = c
      /\ made.made = x.made /\ made.loaded = x.loaded
      /\ made.nodes = x.nodes /\ made.held = x.held /\ made.lost = x.lost
      /\ Unused(made) = Unused(x) \ {f}
  BY <1>4 DEF Fresh
<1>6. c # Null /\ Home(c) \in x.loaded BY ModulesAssumption
<1> DEFINE None == ~done.ok \/ c \notin Early(Home(c))
           Good(y) == /\ Sound(y, y.nodes, More(NoFactories, f)) /\ Grown(x, y)
                      /\ Unused(made) \subseteq Unused(y)
<1>7. CASE None
  <2>1. r = done BY <1>7 DEF Eagerly
  <2> QED BY <1>1, <2>1 DEF Grown
<1>8. CASE ~None /\ fail = <<"new", c>>
  <2>1. r = Failed(x) BY <1>8 DEF Eagerly
  <2>2. r \in Result /\ r.x = x BY <1>1, <2>1, ResultFact
  <2> QED BY <2>2 DEF Grown
<1>9. ASSUME NEW y, NEW ok \in BOOLEAN, Good(y), r = [ok |-> ok, x |-> Release(y, f)]
      PROVE  /\ r \in Result /\ Between(r.x) /\ Grown(done.x, r.x)
             /\ \E g : Unused(done.x) \ {g} \subseteq Unused(r.x)
  <2> HIDE DEF f, made, r, x
  <2>1. Sound(y, y.nodes, More(NoFactories, f)) /\ Grown(x, y) /\ Unused(made) \subseteq Unused(y)
    BY <1>9
  <2>2. Between(Release(y, f)) /\ Kept(y, Release(y, f)) BY <1>5, <2>1, ReleaseOwn
  <2>3. r.x = Release(y, f) /\ r.ok = ok BY <1>9
  <2>4. Release(y, f) \in States BY <2>2 DEF Between, Sound
  <2>5. r \in Result BY <1>9, <2>4 DEF Result
  <2>6. Grown(x, r.x) BY <2>1, <2>2, <2>3 DEF Grown, Kept
  <2>7. Unused(x) \ {f} \subseteq Unused(r.x) BY <1>5, <2>1, <2>2, <2>3 DEF Kept
  <2> QED BY <2>2, <2>3, <2>5, <2>6, <2>7 DEF x
<1> HIDE DEF f
<1>10. CASE ~None /\ fail # <<"new", c>> /\ c \notin Bare
  <2> DEFINE y == RegisterFactory(made, c, f)
  <2>1. Sound(y, x.nodes, More(NoFactories, f)) /\ KeptBut(made, y, [made.made EXCEPT ![c] = f])
    <3> HIDE DEF made
    <3> QED BY <1>4, <1>5, RegisterFactoryKeeps
  <2>2. Good(y)
    <3> HIDE DEF y, made
    <3> QED BY <1>5, <2>1 DEF KeptBut, Grown
  <2>3. r = [ok |-> fail # <<"keep", c>>, x |-> Release(y, f)] BY <1>10 DEF Eagerly, f
  <2> HIDE DEF y, Good, r
  <2>5. /\ r \in Result /\ Between(r.x) /\ Grown(done.x, r.x)
        /\ \E g : Unused(done.x) \ {g} \subseteq Unused(r.x)
    BY <1>9, <2>2, <2>3
  <2> QED BY <2>5 DEF r
<1>11. CASE ~None /\ fail # <<"new", c>> /\ c \in Bare /\ fail = <<"keep", c>>
  <2>1. Good(made)
    <3> HIDE DEF made
    <3> QED BY <1>4, <1>5 DEF Grown
  <2>2. r = [ok |-> fail # <<"keep", c>>, x |-> Release(made, f)] BY <1>11 DEF Eagerly, f
  <2> HIDE DEF made, Good, r
  <2>5. /\ r \in Result /\ Between(r.x) /\ Grown(done.x, r.x)
        /\ \E g : Unused(done.x) \ {g} \subseteq Unused(r.x)
    BY <1>9, <2>1, <2>2
  <2> QED BY <2>5 DEF r
<1>12. CASE ~None /\ fail # <<"new", c>> /\ c \in Bare /\ fail # <<"keep", c>>
  <2> DEFINE y == AddFactoryNode(made, f)
  <2>1. Lists(made.nodes, f) = {}
    <3> HIDE DEF x, made
    <3>1. Lists(x.nodes, f) = {} BY <1>3, <1>5, OwnedIsLive
    <3> QED BY <1>5, <3>1
  <2>2. /\ Sound(y, y.nodes, More(NoFactories, f)) /\ y.loaded = made.loaded
        /\ y.held = made.held /\ y.lost = made.lost /\ y.class = made.class
    <3> HIDE DEF made, x
    <3> DEFINE loose == More(NoFactories, f)
    <3>1. Sound(made, made.nodes, loose) BY <1>4, <1>5
    <3>2. made.class[f] # Null /\ Home(made.class[f]) \in made.loaded BY <1>5, <1>6
    <3> HIDE DEF loose
    <3> QED BY <1>5, <2>1, <3>1, <3>2, AddFactoryNodeKeeps DEF loose
  <2>3. Good(y)
    <3> HIDE DEF y, made, x
    <3> QED BY <1>5, <2>2 DEF Grown, Unused
  <2>4. r = [ok |-> fail # <<"keep", c>>, x |-> Release(y, f)] BY <1>12 DEF Eagerly, f
  <2> HIDE DEF y, Good, r
  <2>5. /\ r \in Result /\ Between(r.x) /\ Grown(done.x, r.x)
        /\ \E g : Unused(done.x) \ {g} \subseteq Unused(r.x)
    BY <1>9, <2>3, <2>4
  <2> QED BY <2>5 DEF r
<1> QED BY <1>7, <1>8, <1>10, <1>11, <1>12

(* As many factories are there as the table has rows, at most.              *)
LEMMA InitializeKeeps ==
  ASSUME NEW x, Between(x), NEW m \in Module, m \in x.loaded, NEW fail,
         Cardinality(Unused(x)) > Len(Components[m])
  PROVE  LET r == Initialize(x, m, fail)
         IN /\ r \in Result /\ Between(r.x) /\ Grown(x, r.x) /\ Unused(r.x) # {}
<1> DEFINE s == Components[m]
           n == Len(s)
           S == DOMAIN s
           pick == [T \in SUBSET S |-> Max(T)]
           Iv == [T \in SUBSET S |->
                    {r \in Result : /\ Between(r.x) /\ Grown(x, r.x)
                                    /\ Cardinality(Unused(r.x)) + Cardinality(T)
                                         >= Cardinality(Unused(x))}]
           step == [T \in SUBSET S |-> [r \in Iv[T \ {pick[T]}] |-> Eagerly(r, s[pick[T]], fail)]]
           all == FoldLeft(LAMBDA done, c : Eagerly(done, c, fail), Done(x), s)
<1>0. x \in States /\ \A y : IsFiniteSet(Unused(y)) /\ Cardinality(Unused(y)) \in Nat
  <2>1. \A y : IsFiniteSet(Unused(y)) BY ModulesAssumption, FS_Subset DEF Unused
  <2> QED BY <2>1, FS_CardinalityType DEF Between, Sound
<1>1. s \in Seq(Class) /\ n \in Nat /\ S = 1..n /\ IsFiniteSet(S) /\ Cardinality(S) = n
  <2>1. s \in Seq(Class) BY ModulesAssumption
  <2>2. n \in Nat /\ S = 1..n BY <2>1
  <2> QED BY <2>1, <2>2, FS_Interval
<1>2. \A i \in S : s[i] \in Class /\ Home(s[i]) = m
  <2> TAKE i \in S
  <2>1. s[i] \in Range(s) BY DEF Range
  <2> QED BY <2>1, ClassFacts
<1>3. \A T \in SUBSET S : /\ T # {} => pick[T] \in T
                          /\ IsFiniteSet(T) /\ Cardinality(T) \in Nat /\ Cardinality(T) <= n
  <2> TAKE T \in SUBSET S
  <2>1. T # {} => Max(T) \in T BY <1>1, MaxIsIn
  <2> QED BY <1>1, <2>1, FS_Subset, FS_CardinalityType
<1> HIDE DEF s, n
<1>4. Done(x) \in Iv[{}]
  <2>1. Done(x) \in Result /\ Done(x).x = x BY <1>0, ResultFact
  <2>2. Cardinality({}) = 0 /\ Cardinality(Unused(x)) \in Nat BY <1>0, FS_EmptySet
  <2> QED BY <2>1, <2>2 DEF Grown
<1>5. ASSUME NEW T \in SUBSET S, T # {}, NEW r \in Iv[T \ {pick[T]}]
      PROVE  Eagerly(r, s[pick[T]], fail) \in Iv[T]
  <2> DEFINE U == T \ {pick[T]}
             i == pick[T]
             z == Eagerly(r, s[i], fail)
  <2>1. i \in T /\ U \in SUBSET S BY <1>3, <1>5
  <2>2. Cardinality(U) = Cardinality(T) - 1 /\ Cardinality(U) \in Nat
    BY <1>3, <2>1, FS_RemoveElement
  <2>3. /\ r \in Result /\ Between(r.x) /\ Grown(x, r.x)
        /\ Cardinality(Unused(r.x)) + Cardinality(U) >= Cardinality(Unused(x))
    BY <1>5, <2>1
  <2> HIDE DEF U, i
  <2>4. Cardinality(T) <= n /\ Cardinality(T) \in Nat BY <1>3
  <2>5. Cardinality(Unused(x)) > n BY DEF n, s
  <2>6. Cardinality(Unused(r.x)) > 0 BY <1>0, <1>1, <2>2, <2>3, <2>4, <2>5
  <2>7. Unused(r.x) # {} BY <2>6, PositiveIsNotEmpty
  <2>8. s[i] \in Class /\ Home(s[i]) \in r.x.loaded BY <1>2, <2>1, <2>3 DEF Grown
  <2>9. /\ z \in Result /\ Between(z.x) /\ Grown(r.x, z.x)
        /\ \E f : Unused(r.x) \ {f} \subseteq Unused(z.x)
    BY <2>3, <2>7, <2>8, EagerlyKeeps
  <2> HIDE DEF z
  <2>10. PICK f : Unused(r.x) \ {f} \subseteq Unused(z.x) BY <2>9
  <2>11. Cardinality(Unused(r.x) \ {f}) >= Cardinality(Unused(r.x)) - 1
    <3> DEFINE A == Unused(r.x)
    <3>1. IsFiniteSet(A) /\ Cardinality(A) \in Nat BY <1>0
    <3> HIDE DEF A
    <3>2. Cardinality(A \ {f}) = IF f \in A THEN Cardinality(A) - 1 ELSE Cardinality(A)
      BY <3>1, FS_RemoveElement
    <3>3. Cardinality(A \ {f}) >= Cardinality(A) - 1 BY <3>1, <3>2
    <3> QED BY <3>3 DEF A
  <2>12. Cardinality(Unused(r.x) \ {f}) <= Cardinality(Unused(z.x)) BY <1>0, <2>10, FS_Subset
  <2>13. Cardinality(Unused(r.x) \ {f}) \in Nat BY <1>0, FS_RemoveElement, FS_CardinalityType
  <2>14. Cardinality(Unused(z.x)) + Cardinality(T) >= Cardinality(Unused(x))
    BY <1>0, <2>2, <2>3, <2>4, <2>11, <2>12, <2>13
  <2>15. Grown(x, z.x) BY <2>3, <2>9 DEF Grown
  <2>16. z \in Iv[T] BY <2>9, <2>14, <2>15
  <2> QED BY <2>16 DEF z, i
<1>6. \A T \in SUBSET S : T # {} =>
        \A r \in Iv[T \ {pick[T]}] :
          step[T][r] = Eagerly(r, s[Max(T)], fail) /\ step[T][r] \in Iv[T]
  <2> HIDE DEF Iv
  <2> QED BY <1>5
<1> DEFINE Folds(g) == g = [T \in SUBSET S |-> IF T = {} THEN Done(x)
                                               ELSE Eagerly(g[T \ {Max(T)}], s[Max(T)], fail)]
           it == CHOOSE g : Folds(g)
<1>7. \E g : Folds(g)
  <2> HIDE DEF Iv, step
  <2>1. Steps(S, pick, step, Iv) BY <1>6 DEF Steps
  <2>2. Picks(S, pick) BY <1>3 DEF Picks
  <2>3. \A T \in SUBSET S : T \ {Max(T)} \in SUBSET S /\ pick[T] = Max(T) OBVIOUS
  <2> HIDE DEF pick, Folds
  <2>4. PICK g : IsFold(g, S, Done(x), pick, step, Iv)
    BY <1>1, <1>4, <2>1, <2>2, FoldExists
  <2>8. /\ g = [T \in SUBSET S |-> IF T = {} THEN Done(x) ELSE step[T][g[T \ {pick[T]}]]]
        /\ \A T \in SUBSET S : g[T] \in Iv[T]
    BY <2>4 DEF IsFold
  <2>5. ASSUME NEW T \in SUBSET S
        PROVE  g[T] = IF T = {} THEN Done(x) ELSE Eagerly(g[T \ {Max(T)}], s[Max(T)], fail)
    <3>1. CASE T = {} BY <2>8, <3>1
    <3>2. CASE T # {}
      <4>1. g[T] = step[T][g[T \ {pick[T]}]] BY <2>8, <3>2
      <4>2. pick[T] = Max(T) /\ g[T \ {pick[T]}] \in Iv[T \ {pick[T]}] BY <2>3, <2>8
      <4> QED BY <1>6, <3>2, <4>1, <4>2
    <3> QED BY <3>1, <3>2
  <2>6. g = [T \in SUBSET S |-> g[T]] BY <2>8
  <2>7. Folds(g) BY <2>5, <2>6 DEF Folds
  <2> QED BY <2>7
<1>8. all = it[S] BY DEF FoldLeft, MapThenFoldSet
<1>9. Folds(it) BY <1>7
<1>10. all \in Iv[S]
  <2>1. it[{}] = Done(x) BY <1>9
  <2>2. \A T \in SUBSET S : T # {} => it[T] = Eagerly(it[T \ {pick[T]}], s[pick[T]], fail) BY <1>9
  <2> HIDE DEF it, Iv, pick
  <2>3. Stays(S, it, pick, Iv) BY <1>5, <2>2 DEF Stays
  <2>4. it[{}] \in Iv[{}] BY <1>4, <2>1
  <2>5. Picks(S, pick) BY <1>3 DEF Picks
  <2>6. it[S] \in Iv[S] BY <1>1, <2>3, <2>4, <2>5, FoldStays
  <2> QED BY <1>8, <2>6
<1>11. /\ all \in Result /\ Between(all.x) /\ Grown(x, all.x)
       /\ Cardinality(Unused(all.x)) + n >= Cardinality(Unused(x))
  BY <1>1, <1>10
<1>12. Cardinality(Unused(x)) > n BY DEF n, s
<1>13. Unused(x) # {} /\ Unused(all.x) # {}
  <2> HIDE DEF all
  <2>1. Cardinality(Unused(all.x)) > 0 BY <1>0, <1>1, <1>11, <1>12
  <2>2. Cardinality(Unused(x)) > 0 BY <1>0, <1>1, <1>12
  <2>3. Unused(all.x) # {} BY <2>1, PositiveIsNotEmpty
  <2>4. Unused(x) # {} BY <2>2, PositiveIsNotEmpty
  <2> QED BY <2>3, <2>4
<1> DEFINE r == Initialize(x, m, fail)
           made == [all.x EXCEPT !.ready = @ \cup {m}]
<1>14. r \in {Done(x), Failed(x), all, Done(made)} BY DEF Initialize, s
<1> HIDE DEF all
<1>15. Grown(x, x) BY DEF Grown
<1>16. made \in States /\ Between(made) /\ Grown(x, made) /\ Unused(made) = Unused(all.x)
  <2>1. all.x \in States BY <1>11 DEF Result
  <2>2. all.x.ready \cup {m} \in SUBSET Module BY <2>1 DEF States
  <2>3. made \in States BY <2>1, <2>2 DEF States
  <2>4. /\ made.class = all.x.class /\ made.refs = all.x.refs /\ made.info = all.x.info
        /\ made.made = all.x.made /\ made.loaded = all.x.loaded /\ made.nodes = all.x.nodes
        /\ made.held = all.x.held /\ made.lost = all.x.lost /\ made.late = all.x.late
    BY <2>1 DEF States
  <2> HIDE DEF made
  <2>5. Unused(made) = Unused(all.x) BY <2>4 DEF Unused
  <2>6. \A f : Owners(made, made.nodes, f) = Owners(all.x, all.x.nodes, f)
    BY <2>4, <2>5 DEF Owners, Entries
  <2>7. Between(made)
    BY <1>11, <2>3, <2>4, <2>6
       DEF Between, Sound, LiveInv, PointersInv, NodesInv, PlacesInv, Mapped, RefsInv
  <2> QED BY <1>11, <2>3, <2>4, <2>5, <2>7 DEF Grown
<1> HIDE DEF made, r
<1>17. CASE r = Done(x) \/ r = Failed(x)
  <2>1. r \in Result /\ r.x = x BY <1>0, <1>17, ResultFact
  <2> QED BY <1>13, <1>15, <2>1 DEF r
<1>18. CASE r = all BY <1>11, <1>13, <1>18 DEF r
<1>19. CASE r = Done(made)
  <2>1. r \in Result /\ r.x = made BY <1>16, <1>19, ResultFact
  <2> QED BY <1>13, <1>16, <2>1 DEF r
<1> QED BY <1>14, <1>17, <1>18, <1>19

-----------------------------------------------------------------------------
(* The calls of the loaders and of GetFactory.                              *)
LEMMA LoadModuleKeeps ==
  ASSUME NEW x, Between(x), NEW m \in Module, NEW fail
  PROVE  LET r == LoadModule(x, m, fail)
         IN /\ r \in Result /\ Between(r.x) /\ (r.ok => m \in r.x.loaded)
            /\ r.x.class = x.class /\ r.x.made = x.made /\ r.x.held = x.held /\ r.x.lost = x.lost
            /\ r.x.known = x.known
<1> DEFINE y == [x EXCEPT !.loaded = @ \cup {m}]
           r == LoadModule(x, m, fail)
<1>1. /\ x \in States /\ LiveInv(x) /\ PointersInv(x) /\ NodesInv(x, x.nodes) /\ PlacesInv(x)
      /\ RefsInv(x, x.nodes, NoFactories)
  BY DEF Between, Sound
<1>2. (r = Done(x) /\ m \in x.loaded) \/ r = Failed(x) \/ r = Done(y) BY DEF LoadModule
<1>3. x.loaded \cup {m} \in SUBSET Module BY <1>1 DEF States
<1>4. y \in States BY <1>1, <1>3 DEF States
<1>5. /\ y.class = x.class /\ y.refs = x.refs /\ y.info = x.info /\ y.made = x.made
      /\ y.loaded = x.loaded \cup {m} /\ y.nodes = x.nodes /\ y.held = x.held
      /\ y.lost = x.lost /\ y.late = x.late /\ y.known = x.known
  BY <1>1 DEF States
<1> HIDE DEF y, r
<1>6. \A f : Owners(y, y.nodes, f) = Owners(x, x.nodes, f) BY <1>5 DEF Owners, Entries, Unused
<1>7. LiveInv(y) /\ PointersInv(y) /\ RefsInv(y, y.nodes, NoFactories)
  BY <1>1, <1>5, <1>6 DEF LiveInv, PointersInv, RefsInv
<1>8. NodesInv(y, y.nodes) BY <1>1, <1>5 DEF NodesInv
<1>9. PlacesInv(y) BY <1>1, <1>5 DEF PlacesInv, Mapped
<1>10. Between(y)
  <2>1. y.nodes \in [Module -> Seq(Factory)] BY <1>4 DEF States
  <2> QED BY <1>4, <1>7, <1>8, <1>9, <2>1, NoFactoriesFact DEF Between, Sound
<1>11. CASE r = Done(x) /\ m \in x.loaded
  <2>1. r \in Result /\ r.x = x BY <1>1, <1>11, ResultFact
  <2> QED BY <1>11, <2>1 DEF r
<1>12. CASE r = Failed(x)
  <2>1. r \in Result /\ r.x = x /\ r.ok = FALSE BY <1>1, <1>12, ResultFact
  <2> QED BY <2>1 DEF r
<1>13. CASE r = Done(y)
  <2>1. r \in Result /\ r.x = y BY <1>4, <1>13, ResultFact
  <2> QED BY <1>5, <1>10, <2>1 DEF r
<1> QED BY <1>2, <1>11, <1>12, <1>13

(* Its answer is owned by the one that has asked.                           *)
LEMMA GetClassObjectKeeps ==
  ASSUME NEW x, Between(x), NEW c \in Class, Home(c) \in x.loaded, NEW fail,
         Cardinality(Unused(x)) > Len(Components[Home(c)])
  PROVE  LET r == GetClassObject(x, c, fail)
         IN /\ r \in Result /\ Grown(x, r.x)
            /\ ~r.ok => Between(r.x)
            /\ r.ok => \E f \in Factory :
                 /\ r.x.info[c] = f /\ r.x.class[f] = c /\ f \notin r.x.lost
                 /\ Entries(r.x, f) = {} /\ Sound(r.x, r.x.nodes, More(NoFactories, f))
<1> DEFINE ready == Initialize(x, Home(c), fail)
           y == ready.x
           f == NextUnused(y)
           z == CCI_NewGenericFactory(y, c)
           r == GetClassObject(x, c, fail)
<1>1. Home(c) \in Module BY ClassFacts
<1>2. ready \in Result /\ Between(y) /\ Grown(x, y) /\ Unused(y) # {} BY <1>1, InitializeKeeps
<1>3. (r = ready /\ ~ready.ok) \/ r = Failed(y) \/ r = Done(z) BY DEF GetClassObject
<1> HIDE DEF ready, r
<1>4. Mapped(y, Home(c)) BY <1>2 DEF Grown, Mapped
<1>5. y \in States /\ Sound(y, y.nodes, NoFactories) BY <1>2 DEF Between, Sound
<1>6. Sound(z, y.nodes, More(NoFactories, f)) /\ Fresh(y, z, c, f)
  <2> HIDE DEF y
  <2> QED BY <1>2, <1>4, <1>5, NewKeeps
<1>7. CASE r = ready /\ ~ready.ok BY <1>2, <1>7 DEF r
<1>8. CASE r = Failed(y)
  <2>1. r \in Result /\ r.x = y /\ r.ok = FALSE BY <1>5, <1>8, ResultFact
  <2> QED BY <1>2, <2>1 DEF r
<1>9. CASE r = Done(z)
  <2> HIDE DEF z, f
  <2>1. z \in States BY <1>6 DEF Sound
  <2>2. r \in Result /\ r.x = z /\ r.ok = TRUE BY <1>9, <2>1, ResultFact
  <2>3. /\ f \in Factory /\ f \notin y.lost /\ y.class[f] = Null /\ z.class[f] = c
        /\ z.info[c] = f /\ z.made = y.made /\ z.nodes = y.nodes /\ z.lost = y.lost
        /\ z.loaded = y.loaded /\ z.held = y.held
    BY <1>6 DEF Fresh
  <2>4. Grown(x, z) BY <1>2, <2>3 DEF Grown
  <2>5. Entries(z, f) = {}
    <3>1. Entries(y, f) = {}
      <4> HIDE DEF y
      <4> QED BY <1>5, <2>3, OwnedIsLive
    <3> QED BY <2>3, <3>1 DEF Entries
  <2>6. Sound(z, z.nodes, More(NoFactories, f)) BY <1>6, <2>3
  <2> QED BY <2>2, <2>3, <2>4, <2>5, <2>6 DEF r
<1> QED BY <1>3, <1>7, <1>8, <1>9

(* What was there is lost.                                                  *)
Overwritten(x, c, f) == [x EXCEPT !.lost = @ \cup ({x.made[c]} \ {Null}), !.made[c] = f]

LEMMA OverwrittenKeeps ==
  ASSUME NEW x, NEW c \in Class, NEW f \in Factory, Sound(x, x.nodes, More(NoFactories, f)),
         x.class[f] = c, f \notin x.lost, Entries(x, f) = {}
  PROVE  LET y == Overwritten(x, c, f)
         IN /\ Between(y) /\ y.made[c] = f /\ y.held = x.held
<1> DEFINE old == x.made[c]
           more == x.lost \cup ({old} \ {Null})
           ma == [x.made EXCEPT ![c] = f]
           y == Overwritten(x, c, f)
<1>1. /\ x \in States /\ x.nodes \in [Module -> Seq(Factory)]
      /\ LiveInv(x) /\ PointersInv(x) /\ NodesInv(x, x.nodes) /\ PlacesInv(x)
      /\ RefsInv(x, x.nodes, More(NoFactories, f))
  BY DEF Sound
<1>2. x.made \in [Class -> Factory \cup {Null}] /\ x.lost \in SUBSET Factory
  BY <1>1 DEF States
<1>3. /\ ma \in [Class -> Factory \cup {Null}] /\ ma[c] = f
      /\ \A d \in Class \ {c} : ma[d] = x.made[d]
  BY <1>2
<1>4. old \in Factory \cup {Null} /\ more \in SUBSET Factory BY <1>2
<1>5. y = [x EXCEPT !.lost = more, !.made = ma]
  BY DEF Overwritten
<1>6. old # f /\ (old # Null => x.class[old] = c /\ old \notin x.lost)
  BY <1>1 DEF Entries, PointersInv
<1> HIDE DEF ma, more, old
<1>7. y \in States BY <1>1, <1>3, <1>4, <1>5 DEF States
<1>8. /\ y.class = x.class /\ y.refs = x.refs /\ y.info = x.info /\ y.made = ma
      /\ y.loaded = x.loaded /\ y.nodes = x.nodes /\ y.held = x.held
      /\ y.lost = more /\ y.late = x.late
  BY <1>1, <1>5 DEF States
<1> HIDE DEF y
<1>9. c # Null /\ Null \notin Factory BY ModulesAssumption
<1>10. more = x.lost \cup ({old} \ {Null}) /\ f \notin more BY <1>6 DEF more
<1>11. PointersInv(y)
  <2>1. ASSUME NEW d \in Class, y.made[d] # Null
        PROVE  y.class[y.made[d]] = d /\ y.made[d] \notin y.lost
    <3>1. CASE d = c BY <1>3, <1>8, <1>10, <3>1
    <3>2. CASE d # c
      <4>1. y.made[d] = x.made[d] /\ x.made[d] # Null BY <1>3, <1>8, <2>1, <3>2
      <4>2. x.class[x.made[d]] = d /\ x.made[d] \notin x.lost BY <1>1, <4>1 DEF PointersInv
      <4>3. x.made[d] # old BY <1>6, <3>2, <4>1, <4>2
      <4> QED BY <1>8, <1>10, <4>1, <4>2, <4>3
    <3> QED BY <3>1, <3>2
  <2> QED BY <1>1, <1>8, <2>1 DEF PointersInv
<1>12. PlacesInv(y)
  <2>1. \A g \in y.lost : y.class[g] # Null BY <1>1, <1>6, <1>8, <1>9, <1>10 DEF PlacesInv
  <2>2. y.late \subseteq y.lost BY <1>1, <1>8, <1>10 DEF PlacesInv
  <2> QED BY <1>1, <1>8, <1>10, <2>1, <2>2 DEF PlacesInv, Mapped
<1>13. LiveInv(y) /\ NodesInv(y, y.nodes) BY <1>1, <1>8 DEF LiveInv, NodesInv
<1>14. Unused(y) = Unused(x) BY <1>8 DEF Unused
<1>15. RefsInv(y, y.nodes, NoFactories)
  <2> SUFFICES ASSUME NEW g \in Factory
               PROVE  y.refs[g] = Owners(y, y.nodes, g) + NoFactories[g]
    BY DEF RefsInv
  <2> DEFINE e0 == Cardinality(Entries(x, g))
             e1 == Cardinality(Entries(y, g))
             l == Cardinality(Lists(x.nodes, g))
             h == In(g, x.held)
             i0 == In(g, x.lost \ Unused(x))
             i1 == In(g, y.lost \ Unused(y))
  <2>1. /\ e0 \in Nat /\ e1 \in Nat /\ l \in Nat /\ h \in Nat /\ i0 \in Nat /\ i1 \in Nat
        /\ IsFiniteSet(Entries(x, g)) /\ IsFiniteSet(Entries(y, g))
    BY OwnersFact, InFact
  <2>2. NoFactories[g] = 0 /\ More(NoFactories, f)[g] = IF g = f THEN 1 ELSE 0
    BY NoFactoriesFact, MoreFact
  <2>3. /\ Owners(x, x.nodes, g) = e0 + l + h + i0 /\ Owners(y, y.nodes, g) = e1 + l + h + i1
        /\ y.refs[g] = x.refs[g] /\ x.refs[g] = Owners(x, x.nodes, g) + More(NoFactories, f)[g]
    BY <1>1, <1>8 DEF Owners, RefsInv
  <2>4. CASE g = f
    <3>1. Entries(y, f) = {c}
      <4>1. c \in Entries(y, f) BY <1>3, <1>8 DEF Entries
      <4>2. \A d \in Entries(y, f) : d = c BY <1>3, <1>8 DEF Entries
      <4> QED BY <4>1, <4>2
    <3>2. e0 = 0 /\ e1 = 1 BY <2>4, <3>1, FS_EmptySet, FS_Singleton
    <3>3. i0 = 0 /\ i1 = 0 BY <1>8, <1>10, <2>4, InFact
    <3> HIDE DEF e0, e1, l, h, i0, i1
    <3> QED BY <2>1, <2>2, <2>3, <2>4, <3>2, <3>3
  <2>5. CASE g = old
    <3>1. g # f /\ g # Null BY <1>6, <1>9, <2>5
    <3>2. c \in Entries(x, g) /\ Entries(y, g) = Entries(x, g) \ {c}
      <4>1. c \in Entries(x, g) BY <2>5 DEF Entries, old
      <4>2. \A d \in Class : d \in Entries(y, g) <=> d \in Entries(x, g) \ {c}
        BY <1>3, <1>8, <3>1 DEF Entries
      <4>3. Entries(y, g) \subseteq Class /\ Entries(x, g) \subseteq Class BY DEF Entries
      <4> QED BY <4>1, <4>2, <4>3
    <3>3. e1 = e0 - 1 BY <2>1, <3>2, FS_RemoveElement
    <3>4. g \notin x.lost /\ g \in y.lost \ Unused(y)
      BY <1>6, <1>8, <1>9, <1>10, <2>5, <3>1 DEF Unused
    <3>5. i0 = 0 /\ i1 = 1 BY <3>4, InFact
    <3>6. More(NoFactories, f)[g] = 0 BY <2>2, <3>1
    <3> HIDE DEF e0, e1, l, h, i0, i1
    <3> QED BY <2>1, <2>2, <2>3, <3>3, <3>5, <3>6
  <2>6. CASE g # f /\ g # old
    <3>1. Entries(y, g) = Entries(x, g)
      <4>1. \A d \in Class : d \in Entries(y, g) <=> d \in Entries(x, g)
        BY <1>3, <1>8, <2>6 DEF Entries, old
      <4>2. Entries(y, g) \subseteq Class /\ Entries(x, g) \subseteq Class BY DEF Entries
      <4> QED BY <4>1, <4>2
    <3>2. g \in y.lost \ Unused(y) <=> g \in x.lost \ Unused(x) BY <1>8, <1>10, <1>14, <2>6
    <3>3. e1 = e0 BY <3>1
    <3>4. i1 = i0 BY <3>2, InFact
    <3>5. More(NoFactories, f)[g] = 0 BY <2>2, <2>6
    <3> HIDE DEF e0, e1, l, h, i0, i1
    <3> QED BY <2>1, <2>2, <2>3, <3>3, <3>4, <3>5
  <2> QED BY <2>4, <2>5, <2>6
<1>16. y.nodes \in [Module -> Seq(Factory)] BY <1>7 DEF States
<1>17. Between(y)
  BY <1>7, <1>11, <1>12, <1>13, <1>15, <1>16, NoFactoriesFact DEF Between, Sound
<1>18. y.made[c] = f /\ y.held = x.held BY <1>3, <1>8
<1> QED BY <1>17, <1>18 DEF y

-----------------------------------------------------------------------------
LEMMA GetFactoryKeeps ==
  ASSUME NEW x, Between(x), NEW c \in Class, NEW fail,
         Cardinality(Unused(x)) > Len(Components[Home(c)])
  PROVE  LET r == GetFactory(x, c, fail)
         IN /\ r \in Result /\ Between(r.x) /\ r.x.held = x.held
            /\ r.ok => r.x.made[c] \in Factory
<1> DEFINE module == LoadModule(x, Home(c), fail)
           object == GetClassObject(module.x, c, fail)
           y == object.x
           z == Overwritten(y, c, y.info[c])
           r == GetFactory(x, c, fail)
<1>1. x \in States /\ Home(c) \in Module BY ClassFacts DEF Between, Sound
<1>2. \/ r = Done(x) /\ x.made[c] # Null
      \/ r = Failed(module.x)
      \/ module.ok /\ ~object.ok /\ r = object
      \/ module.ok /\ object.ok /\ r = Done(z)
  BY DEF GetFactory, Overwritten
<1>3. /\ module \in Result /\ Between(module.x) /\ (module.ok => Home(c) \in module.x.loaded)
      /\ module.x.class = x.class /\ module.x.held = x.held
  BY <1>1, LoadModuleKeeps
<1> HIDE DEF module
<1>4. Unused(module.x) = Unused(x) BY <1>3 DEF Unused
<1>5. ASSUME module.ok
      PROVE  /\ object \in Result /\ Grown(module.x, y) /\ (~object.ok => Between(y))
             /\ object.ok => \E f \in Factory :
                  /\ y.info[c] = f /\ y.class[f] = c /\ f \notin y.lost
                  /\ Entries(y, f) = {} /\ Sound(y, y.nodes, More(NoFactories, f))
  BY <1>3, <1>4, <1>5, GetClassObjectKeeps
<1> HIDE DEF object, r
<1>6. CASE r = Done(x) /\ x.made[c] # Null
  <2>1. r \in Result /\ r.x = x BY <1>1, <1>6, ResultFact
  <2>2. x.made[c] \in Factory BY <1>1, <1>6 DEF States
  <2> QED BY <2>1, <2>2 DEF r
<1>7. CASE r = Failed(module.x)
  <2>1. module.x \in States BY <1>3 DEF Result
  <2>2. r \in Result /\ r.x = module.x /\ r.ok = FALSE BY <1>7, <2>1, ResultFact
  <2> QED BY <1>3, <2>2 DEF r
<1>8. CASE module.ok /\ ~object.ok /\ r = object BY <1>3, <1>5, <1>8 DEF Grown, r
<1>9. CASE module.ok /\ object.ok /\ r = Done(z)
  <2>1. PICK f \in Factory : /\ y.info[c] = f /\ y.class[f] = c /\ f \notin y.lost
                             /\ Entries(y, f) = {} /\ Sound(y, y.nodes, More(NoFactories, f))
    BY <1>5, <1>9
  <2> HIDE DEF y
  <2>2. Between(z) /\ z.made[c] = f /\ z.held = y.held BY <2>1, OverwrittenKeeps
  <2>3. z \in States BY <2>2 DEF Between, Sound
  <2> HIDE DEF z
  <2>4. r \in Result /\ r.x = z BY <1>9, <2>3, ResultFact
  <2>5. y.held = x.held BY <1>3, <1>5, <1>9 DEF Grown, y
  <2> QED BY <2>2, <2>4, <2>5 DEF r
<1> QED BY <1>2, <1>6, <1>7, <1>8, <1>9

(* The entries of a module come and go.                                     *)
LEMMA LocationKeeps ==
  ASSUME NEW x, Between(x), NEW c \in Class
  PROVE  Between(RegisterFactoryLocation(x, c))
<1> DEFINE k == [x.known EXCEPT ![c] = IF x.known[c] = "no" THEN "located" ELSE x.known[c]]
           y == [x EXCEPT !.known = k]
<1>1. x \in States /\ Sound(x, x.nodes, NoFactories) BY DEF Between, Sound
<1>2. k \in [Class -> {"no", "direct", "located"}] BY <1>1 DEF States
<1>3. RegisterFactoryLocation(x, c) = y BY DEF RegisterFactoryLocation
<1> HIDE DEF k
<1>4. y \in States BY <1>1, <1>2 DEF States
<1>5. /\ y.class = x.class /\ y.refs = x.refs /\ y.info = x.info /\ y.made = x.made
      /\ y.loaded = x.loaded /\ y.nodes = x.nodes /\ y.held = x.held
      /\ y.lost = x.lost /\ y.late = x.late
  BY <1>1 DEF States
<1> HIDE DEF y
<1>6. \A f : Owners(y, y.nodes, f) = Owners(x, x.nodes, f) BY <1>5 DEF Owners, Entries, Unused
<1>7. Between(y)
  BY <1>1, <1>4, <1>5, <1>6
     DEF Between, Sound, LiveInv, PointersInv, NodesInv, PlacesInv, Mapped, RefsInv
<1> QED BY <1>3, <1>7

LEMMA UnregisterKeeps ==
  ASSUME NEW x, Between(x), NEW c \in Class
  PROVE  Between(UnregisterFactory(x, c))
<1>1. Sound(x, x.nodes, NoFactories) BY DEF Between
<1>2. /\ Sound(UnregisterFactory(x, c), x.nodes, NoFactories)
      /\ KeptBut(x, UnregisterFactory(x, c), [x.made EXCEPT ![c] = Null])
  BY <1>1, UnregisterFactoryKeeps
<1> QED BY <1>2 DEF Between, KeptBut

States_Between == {x \in States : Between(x)}
One(T) == CHOOSE e \in T : TRUE
Located(x, c) == IF c \in Bare THEN x ELSE RegisterFactoryLocation(x, c)

LEMMA RegisterSelfKeeps ==
  ASSUME NEW x, Between(x), NEW m \in Module
  PROVE  Between(RegisterSelf(x, m))
<1> DEFINE s == Components[m]
           S == DOMAIN s
           pick == [T \in SUBSET S |-> Max(T)]
           Iv == [T \in SUBSET S |-> States_Between]
<1>1. s \in Seq(Class) /\ Len(s) \in Nat /\ S = 1..Len(s) /\ IsFiniteSet(S)
  <2>1. s \in Seq(Class) BY ModulesAssumption
  <2>2. Len(s) \in Nat /\ S = 1..Len(s) BY <2>1
  <2> QED BY <2>1, <2>2, FS_Interval
<1>2. Picks(S, pick)
  <2> HIDE DEF s
  <2>1. \A T \in SUBSET S : T # {} => Max(T) \in T BY <1>1, MaxIsIn
  <2> QED BY <2>1 DEF Picks
<1>3. x \in Iv[{}] BY DEF Between, Sound, States_Between
<1>4. ASSUME NEW T \in SUBSET S, T # {}, NEW r \in Iv[T \ {pick[T]}]
      PROVE  Located(r, s[pick[T]]) \in Iv[T]
  <2>1. pick[T] \in S BY <1>2, <1>4 DEF Picks
  <2>2. s[pick[T]] \in Class BY <1>1, <2>1
  <2>3. Between(r) BY <1>4 DEF States_Between
  <2> HIDE DEF pick, s
  <2>4. Between(Located(r, s[pick[T]])) BY <2>2, <2>3, LocationKeeps DEF Located
  <2> QED BY <2>4 DEF Between, Sound, States_Between
<1> DEFINE Folds(g) == g = [T \in SUBSET S |-> IF T = {} THEN x
                                               ELSE Located(g[T \ {Max(T)}], s[Max(T)])]
           it == CHOOSE g : Folds(g)
           step == [T \in SUBSET S |-> [r \in Iv[T \ {pick[T]}] |->
                     Located(r, s[pick[T]])]]
<1>5. \E g : Folds(g)
  <2>1. \A T \in SUBSET S : T \ {Max(T)} \in SUBSET S /\ pick[T] = Max(T) OBVIOUS
  <2>2. \A T \in SUBSET S : T # {} =>
          \A r \in Iv[T \ {pick[T]}] :
            /\ step[T][r] = Located(r, s[pick[T]])
            /\ step[T][r] \in Iv[T]
    <3> HIDE DEF Iv
    <3> QED BY <1>4
  <2> HIDE DEF Iv, step
  <2>3. Steps(S, pick, step, Iv) BY <2>2 DEF Steps
  <2> HIDE DEF pick, Folds
  <2>4. PICK g : IsFold(g, S, x, pick, step, Iv) BY <1>1, <1>3, <1>2, <2>3, FoldExists
  <2>5. /\ g = [T \in SUBSET S |-> IF T = {} THEN x ELSE step[T][g[T \ {pick[T]}]]]
        /\ \A T \in SUBSET S : g[T] \in Iv[T]
    BY <2>4 DEF IsFold
  <2>6. ASSUME NEW T \in SUBSET S, T # {} PROVE g[T] = Located(g[T \ {Max(T)}], s[Max(T)])
    <3>1. g[T] = step[T][g[T \ {pick[T]}]] BY <2>5, <2>6
    <3>2. g[T \ {pick[T]}] \in Iv[T \ {pick[T]}] BY <2>1, <2>5
    <3>3. g[T] = Located(g[T \ {pick[T]}], s[pick[T]]) BY <2>2, <2>6, <3>1, <3>2
    <3>4. pick[T] = Max(T) BY <2>1
    <3> QED BY <3>3, <3>4
  <2>7. g = [T \in SUBSET S |-> g[T]] /\ g[{}] = x BY <2>5
  <2>8. Folds(g) BY <2>6, <2>7 DEF Folds
  <2> QED BY <2>8
<1>6. FoldLeft(Located, x, s) = it[S] BY DEF FoldLeft, MapThenFoldSet
<1>7. Folds(it) BY <1>5
<1>8. FoldLeft(Located, x, s) \in Iv[S]
  <2>1. it[{}] = x BY <1>7
  <2>2. \A T \in SUBSET S : T # {} => it[T] = Located(it[T \ {pick[T]}], s[pick[T]])
    BY <1>7
  <2> HIDE DEF it, Iv, pick
  <2>3. Stays(S, it, pick, Iv) BY <1>4, <2>2 DEF Stays
  <2>4. it[{}] \in Iv[{}] BY <1>3, <2>1
  <2>5. it[S] \in Iv[S] BY <1>1, <1>2, <2>3, <2>4, FoldStays
  <2> QED BY <1>6, <2>5
<1>9. FoldLeft(Located, x, s) = RegisterSelf(x, m) BY DEF RegisterSelf, Located
<1> QED BY <1>8, <1>9 DEF States_Between

LEMMA UnregisterSelfKeeps ==
  ASSUME NEW x, Between(x), NEW m \in Module
  PROVE  Between(UnregisterSelf(x, m))
<1> DEFINE s == Components[m]
           S == DOMAIN s
           pick == [T \in SUBSET S |-> Max(T)]
           Iv == [T \in SUBSET S |-> States_Between]
<1>1. s \in Seq(Class) /\ Len(s) \in Nat /\ S = 1..Len(s) /\ IsFiniteSet(S)
  <2>1. s \in Seq(Class) BY ModulesAssumption
  <2>2. Len(s) \in Nat /\ S = 1..Len(s) BY <2>1
  <2> QED BY <2>1, <2>2, FS_Interval
<1>2. Picks(S, pick)
  <2> HIDE DEF s
  <2>1. \A T \in SUBSET S : T # {} => Max(T) \in T BY <1>1, MaxIsIn
  <2> QED BY <2>1 DEF Picks
<1>3. x \in Iv[{}] BY DEF Between, Sound, States_Between
<1>4. ASSUME NEW T \in SUBSET S, T # {}, NEW r \in Iv[T \ {pick[T]}]
      PROVE  UnregisterFactory(r, s[pick[T]]) \in Iv[T]
  <2>1. pick[T] \in S BY <1>2, <1>4 DEF Picks
  <2>2. s[pick[T]] \in Class BY <1>1, <2>1
  <2>3. Between(r) BY <1>4 DEF States_Between
  <2> HIDE DEF pick, s
  <2>4. Between(UnregisterFactory(r, s[pick[T]])) BY <2>2, <2>3, UnregisterKeeps
  <2> QED BY <2>4 DEF Between, Sound, States_Between
<1> DEFINE Folds(g) == g = [T \in SUBSET S |-> IF T = {} THEN x
                                               ELSE UnregisterFactory(g[T \ {Max(T)}], s[Max(T)])]
           it == CHOOSE g : Folds(g)
           step == [T \in SUBSET S |-> [r \in Iv[T \ {pick[T]}] |->
                     UnregisterFactory(r, s[pick[T]])]]
<1>5. \E g : Folds(g)
  <2>1. \A T \in SUBSET S : T \ {Max(T)} \in SUBSET S /\ pick[T] = Max(T) OBVIOUS
  <2>2. \A T \in SUBSET S : T # {} =>
          \A r \in Iv[T \ {pick[T]}] :
            /\ step[T][r] = UnregisterFactory(r, s[pick[T]])
            /\ step[T][r] \in Iv[T]
    <3> HIDE DEF Iv
    <3> QED BY <1>4
  <2> HIDE DEF Iv, step
  <2>3. Steps(S, pick, step, Iv) BY <2>2 DEF Steps
  <2> HIDE DEF pick, Folds
  <2>4. PICK g : IsFold(g, S, x, pick, step, Iv) BY <1>1, <1>3, <1>2, <2>3, FoldExists
  <2>5. /\ g = [T \in SUBSET S |-> IF T = {} THEN x ELSE step[T][g[T \ {pick[T]}]]]
        /\ \A T \in SUBSET S : g[T] \in Iv[T]
    BY <2>4 DEF IsFold
  <2>6. ASSUME NEW T \in SUBSET S, T # {} PROVE g[T] = UnregisterFactory(g[T \ {Max(T)}], s[Max(T)])
    <3>1. g[T] = step[T][g[T \ {pick[T]}]] BY <2>5, <2>6
    <3>2. g[T \ {pick[T]}] \in Iv[T \ {pick[T]}] BY <2>1, <2>5
    <3>3. g[T] = UnregisterFactory(g[T \ {pick[T]}], s[pick[T]]) BY <2>2, <2>6, <3>1, <3>2
    <3>4. pick[T] = Max(T) BY <2>1
    <3> QED BY <3>3, <3>4
  <2>7. g = [T \in SUBSET S |-> g[T]] /\ g[{}] = x BY <2>5
  <2>8. Folds(g) BY <2>6, <2>7 DEF Folds
  <2> QED BY <2>8
<1>6. FoldLeft(UnregisterFactory, x, s) = it[S] BY DEF FoldLeft, MapThenFoldSet
<1>7. Folds(it) BY <1>5
<1>8. FoldLeft(UnregisterFactory, x, s) \in Iv[S]
  <2>1. it[{}] = x BY <1>7
  <2>2. \A T \in SUBSET S : T # {} => it[T] = UnregisterFactory(it[T \ {pick[T]}], s[pick[T]])
    BY <1>7
  <2> HIDE DEF it, Iv, pick
  <2>3. Stays(S, it, pick, Iv) BY <1>4, <2>2 DEF Stays
  <2>4. it[{}] \in Iv[{}] BY <1>3, <2>1
  <2>5. it[S] \in Iv[S] BY <1>1, <1>2, <2>3, <2>4, FoldStays
  <2> QED BY <1>6, <2>5
<1>9. FoldLeft(UnregisterFactory, x, s) = UnregisterSelf(x, m) BY DEF UnregisterSelf, Located
<1> QED BY <1>8, <1>9 DEF States_Between

(* The manager starts with the entries of the modules that are linked in.   *)
LEMMA NothingIsSound == Nothing \in States /\ Between(Nothing)
<1>1. NoFactories \in [Factory -> Nat] /\ \A f \in Factory : NoFactories[f] = 0 BY NoFactoriesFact
<1>2. Nothing \in States
  <2>1. \A m \in Module : <<>> \in Seq(Factory) OBVIOUS
  <2> QED BY <1>1, <2>1 DEF Nothing, States
<1>3. /\ Nothing.class = [f \in Factory |-> Null] /\ Nothing.refs = NoFactories
      /\ Nothing.info = [c \in Class |-> Null] /\ Nothing.made = [c \in Class |-> Null]
      /\ Nothing.nodes = [m \in Module |-> <<>>] /\ Nothing.held = {} /\ Nothing.lost = {}
      /\ Nothing.late = {}
  BY DEF Nothing
<1> DEFINE x == Nothing
<1>4. LiveInv(x) /\ PointersInv(x) /\ NodesInv(x, x.nodes) /\ PlacesInv(x)
  <2>1. LiveInv(x) BY <1>1, <1>3 DEF LiveInv
  <2>2. PointersInv(x) BY <1>3 DEF PointersInv
  <2>3. \A m \in Module : x.nodes[m] = <<>> /\ 1..Len(x.nodes[m]) = {} BY <1>3
  <2>4. NodesInv(x, x.nodes) BY <2>3 DEF NodesInv
  <2>5. PlacesInv(x) BY <1>3 DEF PlacesInv
  <2> QED BY <2>1, <2>2, <2>4, <2>5
<1>5. ASSUME NEW f \in Factory PROVE x.refs[f] = Owners(x, x.nodes, f) + NoFactories[f]
  <2>1. Entries(x, f) = {} BY <1>3, ModulesAssumption DEF Entries
  <2>2. Lists(x.nodes, f) = {}
    <3>1. \A m \in Module : x.nodes[m] = <<>> BY <1>3
    <3>2. Range(<<>>) = {} BY DEF Range
    <3> QED BY <3>1, <3>2 DEF Lists
  <2>3. In(f, x.held) = 0 /\ In(f, x.lost \ Unused(x)) = 0 BY <1>3, InFact
  <2>4. Cardinality(Entries(x, f)) = 0 /\ Cardinality(Lists(x.nodes, f)) = 0
    BY <2>1, <2>2, FS_EmptySet
  <2>5. x.refs[f] = 0 BY <1>1, <1>3
  <2> QED BY <1>1, <2>3, <2>4, <2>5 DEF Owners
<1>6. x.nodes \in [Module -> Seq(Factory)] BY <1>2 DEF States
<1> HIDE DEF x
<1>7. RefsInv(x, x.nodes, NoFactories) BY <1>5 DEF RefsInv
<1>8. x \in States BY <1>2 DEF x
<1>9. Between(x) BY <1>1, <1>4, <1>6, <1>7, <1>8 DEF Between, Sound
<1> QED BY <1>8, <1>9 DEF x

LEMMA StartedIsSound == Between(Started)
<1> DEFINE S == Module \ Native
           pick == [T \in SUBSET S |-> One(T)]
           Iv == [T \in SUBSET S |-> States_Between]
<1>1. IsFiniteSet(S) BY ModulesAssumption, FS_Subset
<1>2. Picks(S, pick)
  <2>1. \A T \in SUBSET S : T # {} => One(T) \in T BY DEF One
  <2> QED BY <2>1 DEF Picks
<1>3. Nothing \in Iv[{}] BY NothingIsSound DEF States_Between
<1>4. ASSUME NEW T \in SUBSET S, T # {}, NEW r \in Iv[T \ {pick[T]}]
      PROVE  RegisterSelf(r, pick[T]) \in Iv[T]
  <2>1. pick[T] \in Module BY <1>2, <1>4 DEF Picks
  <2>2. Between(r) BY <1>4 DEF States_Between
  <2> HIDE DEF pick
  <2>3. Between(RegisterSelf(r, pick[T])) BY <2>1, <2>2, RegisterSelfKeeps
  <2> QED BY <2>3 DEF Between, Sound, States_Between
<1> DEFINE Folds(g) == g = [T \in SUBSET S |-> IF T = {} THEN Nothing
                                               ELSE RegisterSelf(g[T \ {One(T)}], One(T))]
           it == CHOOSE g : Folds(g)
           step == [T \in SUBSET S |-> [r \in Iv[T \ {pick[T]}] |->
                     RegisterSelf(r, pick[T])]]
<1>5. \E g : Folds(g)
  <2>1. \A T \in SUBSET S : T \ {One(T)} \in SUBSET S /\ pick[T] = One(T) OBVIOUS
  <2>2. \A T \in SUBSET S : T # {} =>
          \A r \in Iv[T \ {pick[T]}] :
            /\ step[T][r] = RegisterSelf(r, pick[T])
            /\ step[T][r] \in Iv[T]
    <3> HIDE DEF Iv
    <3> QED BY <1>4
  <2> HIDE DEF Iv, step
  <2>3. Steps(S, pick, step, Iv) BY <2>2 DEF Steps
  <2> HIDE DEF pick, Folds
  <2>4. PICK g : IsFold(g, S, Nothing, pick, step, Iv) BY <1>1, <1>3, <1>2, <2>3, FoldExists
  <2>5. /\ g = [T \in SUBSET S |-> IF T = {} THEN Nothing ELSE step[T][g[T \ {pick[T]}]]]
        /\ \A T \in SUBSET S : g[T] \in Iv[T]
    BY <2>4 DEF IsFold
  <2>6. ASSUME NEW T \in SUBSET S, T # {} PROVE g[T] = RegisterSelf(g[T \ {One(T)}], One(T))
    <3>1. g[T] = step[T][g[T \ {pick[T]}]] BY <2>5, <2>6
    <3>2. g[T \ {pick[T]}] \in Iv[T \ {pick[T]}] BY <2>1, <2>5
    <3>3. g[T] = RegisterSelf(g[T \ {pick[T]}], pick[T]) BY <2>2, <2>6, <3>1, <3>2
    <3>4. pick[T] = One(T) BY <2>1
    <3> QED BY <3>3, <3>4
  <2>7. g = [T \in SUBSET S |-> g[T]] /\ g[{}] = Nothing BY <2>5
  <2>8. Folds(g) BY <2>6, <2>7 DEF Folds
  <2> QED BY <2>8
<1>6. Started = it[S] BY DEF Started, FoldSet, MapThenFoldSet, One
<1>7. Folds(it) BY <1>5
<1>8. Started \in Iv[S]
  <2>1. it[{}] = Nothing BY <1>7
  <2>2. \A T \in SUBSET S : T # {} => it[T] = RegisterSelf(it[T \ {pick[T]}], pick[T])
    BY <1>7
  <2> HIDE DEF it, Iv, pick
  <2>3. Stays(S, it, pick, Iv) BY <1>4, <2>2 DEF Stays
  <2>4. it[{}] \in Iv[{}] BY <1>3, <2>1
  <2>5. it[S] \in Iv[S] BY <1>1, <1>2, <2>3, <2>4, FoldStays
  <2> QED BY <1>6, <2>5
<1> QED BY <1>8 DEF States_Between

-----------------------------------------------------------------------------
(* A client takes a reference to a factory that is there, and gives it back. *)
Taken(x, f) == [x EXCEPT !.held = @ \cup {f}, !.refs[f] = @ + 1]
GivenUp(x, f) == [x EXCEPT !.held = @ \ {f}]

LEMMA TakenKeeps ==
  ASSUME NEW x, Between(x), NEW f \in Factory, x.class[f] # Null, f \notin x.held
  PROVE  Between(Taken(x, f))
<1> DEFINE h == x.held \cup {f}
           r == More(x.refs, f)
           y == [x EXCEPT !.held = h, !.refs = r]
<1>1. /\ x \in States /\ LiveInv(x) /\ PointersInv(x) /\ NodesInv(x, x.nodes) /\ PlacesInv(x)
      /\ RefsInv(x, x.nodes, NoFactories) /\ x.nodes \in [Module -> Seq(Factory)]
  BY DEF Between, Sound
<1>2. x.refs \in [Factory -> Nat] /\ h \in SUBSET Factory BY <1>1 DEF States
<1>3. /\ r \in [Factory -> Nat]
      /\ \A g \in Factory : r[g] = IF g = f THEN x.refs[g] + 1 ELSE x.refs[g]
  BY <1>2, MoreFact
<1>4. Taken(x, f) = y
  <2>1. [x EXCEPT !.held = h, !.refs[f] = @ + 1]
        = [x EXCEPT !.held = h, !.refs = [x.refs EXCEPT ![f] = @ + 1]]
    OBVIOUS
  <2> QED BY <2>1 DEF Taken, More
<1> HIDE DEF r
<1>5. y \in States BY <1>1, <1>2, <1>3 DEF States
<1>6. /\ y.class = x.class /\ y.refs = r /\ y.info = x.info /\ y.made = x.made
      /\ y.loaded = x.loaded /\ y.nodes = x.nodes /\ y.held = h
      /\ y.lost = x.lost /\ y.late = x.late
  BY <1>1 DEF States
<1> HIDE DEF y
<1>7. \A g \in Factory : x.refs[g] \in Nat /\ (y.class[g] = Null <=> y.refs[g] = 0)
  <2> TAKE g \in Factory
  <2>1. x.refs[g] \in Nat BY <1>2
  <2>2. x.class[g] = Null <=> x.refs[g] = 0 BY <1>1 DEF LiveInv
  <2>3. CASE g = f BY <1>3, <1>6, <2>1, <2>2, <2>3
  <2>4. CASE g # f BY <1>3, <1>6, <2>1, <2>2, <2>4
  <2> QED BY <2>3, <2>4
<1>8. ASSUME NEW g \in Factory PROVE y.refs[g] = Owners(y, y.nodes, g) + NoFactories[g]
  <2> DEFINE e == Cardinality(Entries(x, g))
             l == Cardinality(Lists(x.nodes, g))
             i == In(g, x.lost \ Unused(x))
             h0 == In(g, x.held)
             h1 == In(g, y.held)
  <2>1. e \in Nat /\ l \in Nat /\ i \in Nat /\ h0 \in Nat /\ h1 \in Nat BY OwnersFact, InFact
  <2>2. /\ Owners(x, x.nodes, g) = e + l + h0 + i /\ Owners(y, y.nodes, g) = e + l + h1 + i
        /\ x.refs[g] = Owners(x, x.nodes, g) + NoFactories[g] /\ NoFactories[g] = 0
    BY <1>1, <1>6, NoFactoriesFact DEF Owners, Entries, RefsInv, Unused
  <2>3. g = f => h0 = 0 /\ h1 = 1 BY <1>6, InFact
  <2>4. g # f => h0 = h1
    <3>1. g # f => (g \in x.held <=> g \in y.held) BY <1>6
    <3> QED BY <3>1, InFact
  <2>5. y.refs[g] = IF g = f THEN x.refs[g] + 1 ELSE x.refs[g] BY <1>3, <1>6
  <2> HIDE DEF e, l, i, h0, h1
  <2> QED BY <2>1, <2>2, <2>3, <2>4, <2>5
<1>9. RefsInv(y, y.nodes, NoFactories) BY <1>8 DEF RefsInv
<1>10. LiveInv(y) BY <1>7 DEF LiveInv
<1>11. PointersInv(y) /\ NodesInv(y, y.nodes) /\ PlacesInv(y)
  BY <1>1, <1>6 DEF PointersInv, NodesInv, PlacesInv, Mapped
<1>12. Between(y) BY <1>1, <1>5, <1>6, <1>9, <1>10, <1>11, NoFactoriesFact DEF Between, Sound
<1> QED BY <1>4, <1>12

LEMMA GivenUpKeeps ==
  ASSUME NEW x, Between(x), NEW f \in x.held
  PROVE  LET y == GivenUp(x, f) IN f \in Factory /\ Sound(y, y.nodes, More(NoFactories, f))
<1> DEFINE h == x.held \ {f}
           y == [x EXCEPT !.held = h]
<1>1. /\ x \in States /\ LiveInv(x) /\ PointersInv(x) /\ NodesInv(x, x.nodes) /\ PlacesInv(x)
      /\ RefsInv(x, x.nodes, NoFactories) /\ x.nodes \in [Module -> Seq(Factory)]
  BY DEF Between, Sound
<1>2. h \in SUBSET Factory /\ f \in Factory BY <1>1 DEF States
<1>3. y \in States BY <1>1, <1>2 DEF States
<1>4. /\ y.class = x.class /\ y.refs = x.refs /\ y.info = x.info /\ y.made = x.made
      /\ y.loaded = x.loaded /\ y.nodes = x.nodes /\ y.held = h
      /\ y.lost = x.lost /\ y.late = x.late
  BY <1>1 DEF States
<1>5. GivenUp(x, f) = y BY DEF GivenUp
<1> HIDE DEF y
<1>6. ASSUME NEW g \in Factory PROVE y.refs[g] = Owners(y, y.nodes, g) + More(NoFactories, f)[g]
  <2> DEFINE e == Cardinality(Entries(x, g))
             l == Cardinality(Lists(x.nodes, g))
             i == In(g, x.lost \ Unused(x))
             h0 == In(g, x.held)
             h1 == In(g, y.held)
  <2>1. e \in Nat /\ l \in Nat /\ i \in Nat /\ h0 \in Nat /\ h1 \in Nat BY OwnersFact, InFact
  <2>2. /\ Owners(x, x.nodes, g) = e + l + h0 + i /\ Owners(y, y.nodes, g) = e + l + h1 + i
        /\ x.refs[g] = Owners(x, x.nodes, g) + NoFactories[g] /\ NoFactories[g] = 0
        /\ y.refs[g] = x.refs[g]
    BY <1>1, <1>4, NoFactoriesFact DEF Owners, Entries, RefsInv, Unused
  <2>3. g = f => h0 = 1 /\ h1 = 0 BY <1>4, InFact
  <2>4. g # f => h0 = h1
    <3>1. g # f => (g \in x.held <=> g \in y.held) BY <1>4
    <3> QED BY <3>1, InFact
  <2>5. More(NoFactories, f)[g] = IF g = f THEN 1 ELSE 0 BY <2>2, NoFactoriesFact, MoreFact
  <2> HIDE DEF e, l, i, h0, h1
  <2> QED BY <2>1, <2>2, <2>3, <2>4, <2>5
<1>7. RefsInv(y, y.nodes, More(NoFactories, f)) BY <1>6 DEF RefsInv
<1>8. LiveInv(y) /\ PointersInv(y) /\ NodesInv(y, y.nodes) /\ PlacesInv(y)
  BY <1>1, <1>4 DEF LiveInv, PointersInv, NodesInv, PlacesInv, Mapped
<1>9. More(NoFactories, f) \in [Factory -> Nat] BY NoFactoriesFact, MoreFact
<1>10. Sound(y, y.nodes, More(NoFactories, f)) BY <1>1, <1>3, <1>4, <1>7, <1>8, <1>9 DEF Sound
<1> QED BY <1>2, <1>5, <1>10

LEMMA ClassObjectKeeps ==
  ASSUME Between(w), NEW c \in Class, ClassObject(c)
  PROVE  Between(w')
<1> PICK fail \in Fault(Home(c)), hold \in BOOLEAN :
      LET got == GetFactory(w, c, fail)
          f == got.x.made[c]
      IN /\ Room(c)
         /\ w' = IF got.ok /\ hold /\ f \notin w.held
                 THEN [got.x EXCEPT !.held = @ \cup {f}, !.refs[f] = @ + 1] ELSE got.x
  BY DEF ClassObject
<1> DEFINE got == GetFactory(w, c, fail)
           y == got.x
           f == y.made[c]
<1>1. Cardinality(Unused(w)) > Len(Components[Home(c)]) BY DEF Room
<1>2. Between(y) /\ y.held = w.held /\ (got.ok => f \in Factory) BY <1>1, GetFactoryKeeps
<1>3. w' = y \/ (got.ok /\ f \notin w.held /\ w' = Taken(y, f)) BY DEF Taken
<1> HIDE DEF got
<1>4. ASSUME f \in Factory PROVE y.class[f] # Null
  <2>1. f # Null BY <1>4, ModulesAssumption
  <2>2. y.class[f] = c BY <1>2, <2>1 DEF Between, Sound, PointersInv
  <2> QED BY <2>2, ModulesAssumption
<1>5. CASE w' = y BY <1>2, <1>5
<1>6. CASE got.ok /\ f \notin w.held /\ w' = Taken(y, f)
  <2>1. f \in Factory /\ y.class[f] # Null /\ f \notin y.held BY <1>2, <1>4, <1>6
  <2> HIDE DEF f, y
  <2>2. Between(Taken(y, f)) BY <1>2, <2>1, TakenKeeps
  <2> QED BY <1>6, <2>2
<1> QED BY <1>3, <1>5, <1>6

LEMMA RegisterMadeKeeps ==
  ASSUME Between(w), NEW c \in Class, RegisterMade(c)
  PROVE  Between(w')
<1> DEFINE f == NextUnused(w)
           made == CCI_NewGenericFactory(w, c)
           y == RegisterFactory(made, c, f)
<1>1. Room(c) /\ Mapped(w, Home(c)) /\ w' = Release(y, f) BY DEF RegisterMade
<1>2. Unused(w) # {}
  <2>1. Cardinality(Unused(w)) > Len(Components[Home(c)]) BY <1>1 DEF Room
  <2>2. Home(c) \in Module /\ Components[Home(c)] \in Seq(Class) BY ClassFacts, ModulesAssumption
  <2>3. Len(Components[Home(c)]) \in Nat BY <2>2
  <2>4. IsFiniteSet(Unused(w)) BY ModulesAssumption, FS_Subset DEF Unused
  <2>5. Cardinality(Unused(w)) \in Nat BY <2>4, FS_CardinalityType
  <2>6. Cardinality(Unused(w)) > 0 BY <2>1, <2>3, <2>5
  <2> QED BY <2>6, PositiveIsNotEmpty
<1>3. Sound(w, w.nodes, NoFactories) BY DEF Between
<1>4. Sound(made, w.nodes, More(NoFactories, f)) /\ Fresh(w, made, c, f)
  BY <1>1, <1>2, <1>3, NewKeeps
<1> HIDE DEF f, made, y
<1>5. f \in Factory /\ made.class[f] = c /\ f \notin made.lost /\ made.nodes = w.nodes
  BY <1>4 DEF Fresh
<1>6. Sound(y, w.nodes, More(NoFactories, f)) /\ KeptBut(made, y, [made.made EXCEPT ![c] = f])
  BY <1>4, <1>5, RegisterFactoryKeeps DEF y
<1>7. Sound(y, y.nodes, More(NoFactories, f)) BY <1>5, <1>6 DEF KeptBut
<1>8. Between(Release(y, f)) BY <1>5, <1>7, ReleaseOwn
<1> QED BY <1>1, <1>8

(* No call of a client, whatever of it fails, disturbs them.                *)
LEMMA CallKeeps ==
  ASSUME Between(w), Call
  PROVE  Between(w')
<1>1. ASSUME NEW m \in Module, AutoRegister(m) \/ AutoUnregister(m) PROVE Between(w')
  <2>1. PICK fail \in {<<"none">>, <<"load">>} :
          LET module == LoadModule(w, m, fail)
          IN w' \in {module.x, RegisterSelf(module.x, m), UnregisterSelf(module.x, m)}
    BY <1>1 DEF AutoRegister, AutoUnregister
  <2> DEFINE x == LoadModule(w, m, fail).x
  <2>2. Between(x) BY LoadModuleKeeps
  <2>3. w' \in {x, RegisterSelf(x, m), UnregisterSelf(x, m)} BY <2>1
  <2> HIDE DEF x
  <2>4. Between(RegisterSelf(x, m)) BY <2>2, RegisterSelfKeeps
  <2>5. Between(UnregisterSelf(x, m)) BY <2>2, UnregisterSelfKeeps
  <2> QED BY <2>2, <2>3, <2>4, <2>5
<1>2. ASSUME NEW c \in Class, ClassObject(c) PROVE Between(w') BY <1>2, ClassObjectKeeps
<1>3. ASSUME NEW c \in Class, RegisterMade(c) PROVE Between(w') BY <1>3, RegisterMadeKeeps
<1>4. ASSUME NEW c \in Class, Unregister(c) PROVE Between(w')
  <2>1. w' = UnregisterFactory(w, c) BY <1>4 DEF Unregister
  <2> QED BY <2>1, UnregisterKeeps
<1>5. ASSUME NEW f \in Factory, GiveBack(f) PROVE Between(w')
  <2> DEFINE y == GivenUp(w, f)
  <2>1. f \in w.held /\ w' = Release(y, f) BY <1>5 DEF GiveBack, GivenUp
  <2>2. Sound(y, y.nodes, More(NoFactories, f)) BY <2>1, GivenUpKeeps
  <2> HIDE DEF y
  <2>3. Between(Release(y, f)) BY <2>2, ReleaseOwn
  <2> QED BY <2>1, <2>3
<1> QED BY <1>1, <1>2, <1>3, <1>4, <1>5 DEF Call

-----------------------------------------------------------------------------
(* The destructor of a module. Each of its nodes holds one reference, which *)
(* is loose from the time its list is given up until the node is.           *)
Without(x, m) == [x.nodes EXCEPT ![m] = <<>>]
Waiting(x, m, T) ==
  [f \in Factory |-> IF \E i \in (1..Len(x.nodes[m])) \ T : x.nodes[m][i] = f THEN 1 ELSE 0]

LEMMA WithoutKeeps ==
  ASSUME NEW x, Between(x), NEW m \in Module
  PROVE  /\ Sound(x, Without(x, m), Waiting(x, m, {}))
         /\ x.nodes[m] \in Seq(Factory) /\ Len(x.nodes[m]) \in Nat
         /\ DOMAIN x.nodes[m] = 1..Len(x.nodes[m])
<1> DEFINE n == Without(x, m)
           s == x.nodes[m]
           loose == Waiting(x, m, {})
<1>1. /\ x \in States /\ LiveInv(x) /\ PointersInv(x) /\ NodesInv(x, x.nodes) /\ PlacesInv(x)
      /\ RefsInv(x, x.nodes, NoFactories) /\ x.nodes \in [Module -> Seq(Factory)]
  BY DEF Between, Sound
<1>2. s \in Seq(Factory) BY <1>1
<1>3. Len(s) \in Nat /\ DOMAIN s = 1..Len(s) BY <1>2
<1>4. n \in [Module -> Seq(Factory)] /\ n[m] = <<>> /\ \A k \in Module \ {m} : n[k] = x.nodes[k]
  <2>1. <<>> \in Seq(Factory) OBVIOUS
  <2> QED BY <1>1, <2>1 DEF Without
<1>5. loose \in [Factory -> Nat] BY DEF Waiting
<1>6. \A f \in Factory : loose[f] = IF f \in Range(s) THEN 1 ELSE 0
  <2> TAKE f \in Factory
  <2>1. f \in Range(s) <=> \E i \in (1..Len(s)) \ {} : s[i] = f BY <1>3 DEF Range
  <2> QED BY <2>1 DEF Waiting
<1> HIDE DEF n, loose
<1>7. NodesInv(x, n)
  <2>1. ASSUME NEW k \in Module
        PROVE  /\ n[k] # <<>> => k \in x.loaded
               /\ \A i \in 1..Len(n[k]) : x.class[n[k][i]] \in Range(Components[k])
               /\ \A i, j \in 1..Len(n[k]) : n[k][i] = n[k][j] => i = j
    <3>1. CASE k = m
      <4>1. n[k] = <<>> /\ 1..Len(n[k]) = {} BY <1>4, <3>1
      <4> QED BY <4>1
    <3>2. CASE k # m
      <4>1. n[k] = x.nodes[k] BY <1>4, <3>2
      <4> QED BY <1>1, <4>1 DEF NodesInv
    <3> QED BY <3>1, <3>2
  <2> QED BY <2>1 DEF NodesInv
<1>8. ASSUME NEW f \in Factory PROVE x.refs[f] = Owners(x, n, f) + loose[f]
  <2> DEFINE l0 == Cardinality(Lists(x.nodes, f))
             l1 == Cardinality(Lists(n, f))
             e == Cardinality(Entries(x, f))
             h == In(f, x.held)
             i == In(f, x.lost \ Unused(x))
  <2>1. /\ l0 \in Nat /\ l1 \in Nat /\ e \in Nat /\ h \in Nat /\ i \in Nat
        /\ IsFiniteSet(Lists(x.nodes, f))
    BY OwnersFact, InFact
  <2>2. /\ x.refs[f] = Owners(x, x.nodes, f) + NoFactories[f] /\ NoFactories[f] = 0
        /\ Owners(x, x.nodes, f) = e + l0 + h + i /\ Owners(x, n, f) = e + l1 + h + i
    BY <1>1, NoFactoriesFact DEF RefsInv, Owners
  <2>3. Lists(n, f) = Lists(x.nodes, f) \ {m}
    <3>1. Range(<<>>) = {} BY DEF Range
    <3>2. m \notin Lists(n, f) BY <1>4, <3>1 DEF Lists
    <3>3. \A k \in Module \ {m} : k \in Lists(n, f) <=> k \in Lists(x.nodes, f) BY <1>4 DEF Lists
    <3>4. Lists(n, f) \subseteq Module /\ Lists(x.nodes, f) \subseteq Module BY DEF Lists
    <3> QED BY <3>2, <3>3, <3>4
  <2>4. m \in Lists(x.nodes, f) <=> f \in Range(s) BY DEF Lists
  <2>5. l1 = IF m \in Lists(x.nodes, f) THEN l0 - 1 ELSE l0 BY <2>1, <2>3, FS_RemoveElement
  <2>6. CASE f \in Range(s)
    <3>1. loose[f] = 1 /\ l1 = l0 - 1 BY <1>6, <2>4, <2>5, <2>6
    <3> HIDE DEF l0, l1, e, h, i
    <3> QED BY <2>1, <2>2, <3>1
  <2>7. CASE f \notin Range(s)
    <3>1. loose[f] = 0 /\ l1 = l0 BY <1>6, <2>4, <2>5, <2>7
    <3> HIDE DEF l0, l1, e, h, i
    <3> QED BY <2>1, <2>2, <3>1
  <2> QED BY <2>6, <2>7
<1>9. RefsInv(x, n, loose) BY <1>8 DEF RefsInv
<1>10. Sound(x, n, loose) BY <1>1, <1>4, <1>5, <1>7, <1>9 DEF Sound
<1> QED BY <1>2, <1>3, <1>10 DEF n, loose

LEMMA WaitsNoMore ==
  ASSUME NEW x, Between(x), NEW m \in Module, NEW T \in SUBSET (1..Len(x.nodes[m])), NEW i \in T
  PROVE  LET f == x.nodes[m][i]
         IN /\ f \in Factory /\ Waiting(x, m, T \ {i})[f] > 0
            /\ Less(Waiting(x, m, T \ {i}), f) = Waiting(x, m, T)
<1> DEFINE s == x.nodes[m]
           f == s[i]
           a == Waiting(x, m, T \ {i})
           b == Waiting(x, m, T)
<1>1. s \in Seq(Factory) /\ Len(s) \in Nat /\ DOMAIN s = 1..Len(s) BY WithoutKeeps
<1>2. i \in 1..Len(s) /\ f \in Factory BY <1>1
<1>3. \A j \in 1..Len(s) : s[j] = f => j = i
  <2>1. NodesInv(x, x.nodes) BY DEF Between, Sound
  <2> QED BY <1>2, <2>1 DEF NodesInv
<1>4. a \in [Factory -> Nat] /\ b \in [Factory -> Nat] BY DEF Waiting
<1>5. a[f] = 1
  <2>1. i \in (1..Len(s)) \ (T \ {i}) BY <1>2
  <2> QED BY <1>2, <2>1 DEF Waiting
<1>6. b[f] = 0
  <2>1. ~\E j \in (1..Len(s)) \ T : s[j] = f BY <1>3
  <2> QED BY <1>2, <2>1 DEF Waiting
<1>7. ASSUME NEW g \in Factory, g # f PROVE b[g] = a[g]
  <2>1. (\E j \in (1..Len(s)) \ T : s[j] = g) <=> (\E j \in (1..Len(s)) \ (T \ {i}) : s[j] = g)
    BY <1>7
  <2> QED BY <2>1 DEF Waiting
<1> HIDE DEF a, b, f
<1>8. Less(a, f) \in [Factory -> Int] /\ \A g \in Factory : Less(a, f)[g] = b[g]
  <2>1. \A g \in Factory : Less(a, f)[g] = IF g = f THEN a[g] - 1 ELSE a[g] BY <1>2, <1>4 DEF Less
  <2>2. \A g \in Factory : Less(a, f)[g] = b[g] BY <1>5, <1>6, <1>7, <2>1
  <2>3. DOMAIN Less(a, f) = Factory BY <1>4 DEF Less
  <2>4. Less(a, f) = [g \in Factory |-> Less(a, f)[g]] BY <1>4, <2>3 DEF Less
  <2> QED BY <1>4, <2>2, <2>4
<1>9. Less(a, f) = b BY <1>4, <1>8
<1>10. a[f] > 0 BY <1>5
<1> QED BY <1>2, <1>9, <1>10 DEF a, b, f

Same(x, y) ==
  /\ y.made = x.made /\ y.loaded = x.loaded /\ y.held = x.held /\ y.lost = x.lost

LEMMA ShutdownKeeps ==
  ASSUME NEW x, Between(x), NEW m \in Module
  PROVE  LET y == Shutdown(x, m) IN Between(y) /\ Same(x, y) /\ y.nodes[m] = <<>>
<1> DEFINE s == x.nodes[m]
           S == DOMAIN s
           pick == [T \in SUBSET S |-> Max(T)]
           n == Without(x, m)
           Iv == [T \in SUBSET S |->
                    {y \in States : /\ Sound(y, n, Waiting(x, m, T)) /\ Same(x, y)
                                    /\ y.nodes = x.nodes}]
           freed == FoldLeft(Release, x, s)
<1>1. s \in Seq(Factory) /\ Len(s) \in Nat /\ S = 1..Len(s) /\ IsFiniteSet(S)
  <2>1. s \in Seq(Factory) /\ Len(s) \in Nat /\ S = 1..Len(s) BY WithoutKeeps
  <2> QED BY <2>1, FS_Interval
<1>2. Picks(S, pick)
  <2> HIDE DEF s
  <2>1. \A T \in SUBSET S : T # {} => Max(T) \in T BY <1>1, MaxIsIn
  <2> QED BY <2>1 DEF Picks
<1>3. x \in Iv[{}]
  <2>1. Sound(x, n, Waiting(x, m, {})) BY WithoutKeeps
  <2>2. x \in States BY DEF Between, Sound
  <2> HIDE DEF n
  <2> QED BY <2>1, <2>2 DEF Same
<1>4. ASSUME NEW T \in SUBSET S, T # {}, NEW y \in Iv[T \ {pick[T]}]
      PROVE  Release(y, s[pick[T]]) \in Iv[T]
  <2> DEFINE i == pick[T]
             f == s[i]
             z == Release(y, f)
  <2>1. i \in T /\ T \ {i} \in SUBSET S BY <1>2, <1>4 DEF Picks
  <2>2. Sound(y, n, Waiting(x, m, T \ {i})) /\ Same(x, y) /\ y.nodes = x.nodes BY <1>4, <2>1
  <2>3. /\ f \in Factory /\ Waiting(x, m, T \ {i})[f] > 0
        /\ Less(Waiting(x, m, T \ {i}), f) = Waiting(x, m, T)
    <3> HIDE DEF i
    <3> QED BY <1>1, <2>1, WaitsNoMore
  <2>4. Sound(z, n, Waiting(x, m, T)) /\ Kept(y, z)
    <3> HIDE DEF i, f, n
    <3>1. Sound(z, n, Less(Waiting(x, m, T \ {i}), f)) /\ Kept(y, z)
      BY <2>2, <2>3, ReleaseKeeps DEF z
    <3> QED BY <2>3, <3>1
  <2>5. z \in States BY <2>4 DEF Sound
  <2> HIDE DEF z, n
  <2>6. Same(x, z) /\ z.nodes = x.nodes BY <2>2, <2>4 DEF Same, Kept
  <2>7. z \in Iv[T] BY <2>4, <2>5, <2>6
  <2> QED BY <2>7 DEF z
<1> DEFINE Folds(g) == g = [T \in SUBSET S |-> IF T = {} THEN x
                                               ELSE Release(g[T \ {Max(T)}], s[Max(T)])]
           it == CHOOSE g : Folds(g)
           step == [T \in SUBSET S |-> [r \in Iv[T \ {pick[T]}] |->
                     Release(r, s[pick[T]])]]
<1>5. \E g : Folds(g)
  <2>1. \A T \in SUBSET S : T \ {Max(T)} \in SUBSET S /\ pick[T] = Max(T) OBVIOUS
  <2>2. \A T \in SUBSET S : T # {} =>
          \A r \in Iv[T \ {pick[T]}] :
            /\ step[T][r] = Release(r, s[pick[T]])
            /\ step[T][r] \in Iv[T]
    <3> HIDE DEF Iv
    <3> QED BY <1>4
  <2> HIDE DEF Iv, step
  <2>3. Steps(S, pick, step, Iv) BY <2>2 DEF Steps
  <2> HIDE DEF pick, Folds
  <2>4. PICK g : IsFold(g, S, x, pick, step, Iv) BY <1>1, <1>3, <1>2, <2>3, FoldExists
  <2>5. /\ g = [T \in SUBSET S |-> IF T = {} THEN x ELSE step[T][g[T \ {pick[T]}]]]
        /\ \A T \in SUBSET S : g[T] \in Iv[T]
    BY <2>4 DEF IsFold
  <2>6. ASSUME NEW T \in SUBSET S, T # {} PROVE g[T] = Release(g[T \ {Max(T)}], s[Max(T)])
    <3>1. g[T] = step[T][g[T \ {pick[T]}]] BY <2>5, <2>6
    <3>2. g[T \ {pick[T]}] \in Iv[T \ {pick[T]}] BY <2>1, <2>5
    <3>3. g[T] = Release(g[T \ {pick[T]}], s[pick[T]]) BY <2>2, <2>6, <3>1, <3>2
    <3>4. pick[T] = Max(T) BY <2>1
    <3> QED BY <3>3, <3>4
  <2>7. g = [T \in SUBSET S |-> g[T]] /\ g[{}] = x BY <2>5
  <2>8. Folds(g) BY <2>6, <2>7 DEF Folds
  <2> QED BY <2>8
<1>6. freed = it[S] BY DEF FoldLeft, MapThenFoldSet
<1>7. Folds(it) BY <1>5
<1>8. freed \in Iv[S]
  <2>1. it[{}] = x BY <1>7
  <2>2. \A T \in SUBSET S : T # {} => it[T] = Release(it[T \ {pick[T]}], s[pick[T]])
    BY <1>7
  <2> HIDE DEF it, Iv, pick
  <2>3. Stays(S, it, pick, Iv) BY <1>4, <2>2 DEF Stays
  <2>4. it[{}] \in Iv[{}] BY <1>3, <2>1
  <2>5. it[S] \in Iv[S] BY <1>1, <1>2, <2>3, <2>4, FoldStays
  <2> QED BY <1>6, <2>5
<1>9. Sound(freed, n, NoFactories) /\ Same(x, freed) /\ freed.nodes = x.nodes
  <2>1. Sound(freed, n, Waiting(x, m, S)) /\ Same(x, freed) /\ freed.nodes = x.nodes BY <1>8
  <2>2. Waiting(x, m, S) = NoFactories BY <1>1 DEF Waiting, NoFactories
  <2> QED BY <2>1, <2>2
<1> DEFINE r == freed.ready \ {m}
           y == [freed EXCEPT !.nodes = n, !.ready = r]
<1>10. Shutdown(x, m) = y
  <2>1. Shutdown(x, m) = [freed EXCEPT !.nodes[m] = <<>>, !.ready = @ \ {m}] BY DEF Shutdown
  <2>2. n = [freed.nodes EXCEPT ![m] = <<>>] BY <1>9 DEF Without
  <2> HIDE DEF n, freed
  <2>3. y = [freed EXCEPT !.nodes[m] = <<>>, !.ready = @ \ {m}] BY <2>2
  <2> QED BY <2>1, <2>3
<1> HIDE DEF freed
<1>11. /\ n \in [Module -> Seq(Factory)] /\ freed \in States
       /\ LiveInv(freed) /\ PointersInv(freed) /\ NodesInv(freed, n) /\ PlacesInv(freed)
       /\ RefsInv(freed, n, NoFactories)
  BY <1>9 DEF Sound
<1>12. n[m] = <<>>
  <2>1. x.nodes \in [Module -> Seq(Factory)] BY DEF Between, Sound
  <2> QED BY <2>1 DEF Without
<1> HIDE DEF n
<1>13. y \in States BY <1>11 DEF States
<1>14. /\ y.class = freed.class /\ y.refs = freed.refs /\ y.info = freed.info
       /\ y.made = freed.made /\ y.loaded = freed.loaded /\ y.nodes = n /\ y.held = freed.held
       /\ y.lost = freed.lost /\ y.late = freed.late
  BY <1>11 DEF States
<1> HIDE DEF y
<1>15. \A f : Owners(y, n, f) = Owners(freed, n, f) BY <1>14 DEF Owners, Entries, Unused
<1>16. Between(y)
  BY <1>11, <1>13, <1>14, <1>15, NoFactoriesFact
     DEF Between, Sound, LiveInv, PointersInv, NodesInv, PlacesInv, Mapped, RefsInv
<1>17. Same(x, y) /\ y.nodes[m] = <<>> BY <1>9, <1>12, <1>14 DEF Same
<1> QED BY <1>10, <1>16, <1>17

(* When no entry and no client has a factory, those of a module go with it. *)
LEMMA UnloadedKeeps ==
  ASSUME NEW x, Between(x), NEW m \in Module, x.held = {}, \A c \in Class : x.made[c] = Null
  PROVE  LET y == Unloaded(x, m)
         IN /\ Between(y) /\ y.held = {} /\ y.made = x.made /\ y.loaded = x.loaded \ {m}
<1> DEFINE z == Shutdown(x, m)
           l == z.loaded \ {m}
           k == [c \in Class |-> IF m \in Native /\ Home(c) = m THEN Null ELSE z.info[c]]
           y == [z EXCEPT !.loaded = l, !.info = k]
<1>1. Between(z) /\ Same(x, z) /\ z.nodes[m] = <<>> BY ShutdownKeeps
<1>2. Unloaded(x, m) = y BY DEF Unloaded
<1> HIDE DEF z
<1>3. /\ z \in States /\ LiveInv(z) /\ PointersInv(z) /\ NodesInv(z, z.nodes) /\ PlacesInv(z)
      /\ RefsInv(z, z.nodes, NoFactories) /\ z.nodes \in [Module -> Seq(Factory)]
  BY <1>1 DEF Between, Sound
<1>4. l \in SUBSET Module /\ k \in [Class -> Factory \cup {Null}]
      /\ \A c \in Class : k[c] \in {Null, z.info[c]}
  BY <1>3 DEF States
<1> HIDE DEF k
<1>5. y \in States BY <1>3, <1>4 DEF States
<1>6. /\ y.class = z.class /\ y.refs = z.refs /\ y.info = k /\ y.made = z.made
      /\ y.loaded = z.loaded \ {m} /\ y.nodes = z.nodes /\ y.held = z.held
      /\ y.lost = z.lost /\ y.late = z.late
  BY <1>3 DEF States
<1> HIDE DEF y
<1>7. LiveInv(y) BY <1>3, <1>6 DEF LiveInv
<1>8. PointersInv(y)
  <2>1. ASSUME NEW c \in Class, y.info[c] # Null PROVE y.class[y.info[c]] = c
    <3>1. z.info[c] = y.info[c] BY <1>4, <1>6, <2>1
    <3> QED BY <1>3, <1>6, <2>1, <3>1 DEF PointersInv
  <2> QED BY <1>3, <1>6, <2>1 DEF PointersInv
<1>9. NodesInv(y, y.nodes)
  <2>1. \A j \in Module : y.nodes[j] # <<>> => j \in y.loaded BY <1>1, <1>3, <1>6 DEF NodesInv
  <2> QED BY <1>3, <1>6, <2>1 DEF NodesInv
<1>10. ASSUME NEW f \in Factory, z.class[f] # Null, f \notin z.lost
       PROVE  Home(z.class[f]) # m
  <2>1. Entries(z, f) = {}
    <3>1. \A c \in Class : z.made[c] = Null BY <1>1 DEF Same
    <3> QED BY <3>1, ModulesAssumption DEF Entries
  <2>2. Lists(z.nodes, f) # {}
    <3> SUFFICES ASSUME Lists(z.nodes, f) = {} PROVE FALSE OBVIOUS
    <3>1. In(f, z.held) = 0 /\ In(f, z.lost \ Unused(z)) = 0 BY <1>1, <1>10, InFact DEF Same
    <3>2. Owners(z, z.nodes, f) = 0 BY <2>1, <3>1, FS_EmptySet DEF Owners
    <3>3. z.refs[f] = 0 + NoFactories[f] /\ NoFactories[f] = 0
      BY <1>3, <3>2, NoFactoriesFact DEF RefsInv
    <3>4. z.refs[f] = 0 BY <3>3
    <3> QED BY <1>3, <1>10, <3>4 DEF LiveInv
  <2>3. PICK j \in Module : f \in Range(z.nodes[j]) BY <2>2 DEF Lists
  <2>4. z.nodes[j] \in Seq(Factory) BY <1>3
  <2>5. PICK i \in 1..Len(z.nodes[j]) : z.nodes[j][i] = f BY <2>3, <2>4 DEF Range
  <2>6. z.class[f] \in Range(Components[j]) BY <1>3, <2>5 DEF NodesInv
  <2>7. Home(z.class[f]) = j BY <2>6, ClassFacts
  <2>8. j # m BY <1>1, <2>5
  <2> QED BY <2>7, <2>8
<1>11. PlacesInv(y)
  <2>1. ASSUME NEW f \in Factory, y.class[f] # Null
        PROVE  f \in y.lost \/ Mapped(y, Home(y.class[f]))
    <3>1. f \in z.lost \/ Mapped(z, Home(z.class[f])) BY <1>3, <1>6, <2>1 DEF PlacesInv
    <3>2. f \in z.lost \/ Home(z.class[f]) # m BY <1>6, <1>10, <2>1
    <3> QED BY <1>6, <3>1, <3>2 DEF Mapped
  <2> QED BY <1>3, <1>6, <2>1 DEF PlacesInv
<1>12. \A f : Owners(y, y.nodes, f) = Owners(z, z.nodes, f) BY <1>6 DEF Owners, Entries, Unused
<1>13. RefsInv(y, y.nodes, NoFactories) BY <1>3, <1>6, <1>12 DEF RefsInv
<1>14. Between(y)
  BY <1>3, <1>5, <1>6, <1>7, <1>8, <1>9, <1>11, <1>13, NoFactoriesFact DEF Between, Sound
<1>15. y.held = {} /\ y.made = x.made /\ y.loaded = x.loaded \ {m} BY <1>1, <1>6 DEF Same
<1> QED BY <1>2, <1>14, <1>15

-----------------------------------------------------------------------------
(* The end: the entries, then the modules, then what is left.               *)
GoLast(x) ==
  /\ x.late \subseteq x.lost
  /\ \A c \in Class : x.info[c] # Null => x.class[x.info[c]] = c
  /\ \A f \in Factory :
       x.refs[f] = Cardinality({c \in Class : x.made[c] = f})
                   + Cardinality({m \in Module : f \in Range(x.nodes[m])})
                   + Cardinality({f} \cap x.held) + Cardinality({f} \cap (x.lost \ Unused(x)))
Ended(x) == GoLast(x) /\ x.loaded = {}

LEMMA BetweenGoesLast ==
  ASSUME NEW x, Between(x)
  PROVE  GoLast(x)
<1>1. /\ PointersInv(x) /\ PlacesInv(x) /\ RefsInv(x, x.nodes, NoFactories)
  BY DEF Between, Sound
<1>2. ASSUME NEW f \in Factory
      PROVE  x.refs[f] = Cardinality({c \in Class : x.made[c] = f})
                   + Cardinality({m \in Module : f \in Range(x.nodes[m])})
                   + Cardinality({f} \cap x.held) + Cardinality({f} \cap (x.lost \ Unused(x)))
  <2>1. x.refs[f] = Owners(x, x.nodes, f) + NoFactories[f] /\ NoFactories[f] = 0
    BY <1>1, NoFactoriesFact DEF RefsInv
  <2>2. Owners(x, x.nodes, f) \in Nat BY OwnersFact
  <2>3. x.refs[f] = Owners(x, x.nodes, f) BY <2>1, <2>2
  <2> QED BY <2>3 DEF Owners, Entries, Lists, In
<1> QED BY <1>1, <1>2 DEF GoLast, PointersInv, PlacesInv

(* The state of a stop, x, after the entries of the classes in T; then,     *)
(* after the modules in T.                                                  *)
WithoutEntries(x, T) ==
  {y \in States : /\ Between(y) /\ y.held = {} /\ y.loaded = x.loaded
                  /\ \A c \in T : y.made[c] = Null}
WithoutModules(x, T) ==
  {y \in States : /\ Between(y) /\ y.held = {} /\ y.loaded = x.loaded \ T
                  /\ \A c \in Class : y.made[c] = Null}

LEMMA EntriesGo ==
  ASSUME NEW x, Between(x), x.held = {}
  PROVE  FoldSet(LAMBDA c, y : UnregisterFactory(y, c), x, Class) \in WithoutEntries(x, Class)
<1> DEFINE S == Class
           pick == [T \in SUBSET S |-> One(T)]
           Iv == [T \in SUBSET S |-> WithoutEntries(x, T)]
           all == FoldSet(LAMBDA c, y : UnregisterFactory(y, c), x, S)
<1>1. IsFiniteSet(S) BY ClassFacts
<1>2. Picks(S, pick)
  <2>1. \A T \in SUBSET S : T # {} => One(T) \in T BY DEF One
  <2> QED BY <2>1 DEF Picks
<1>3. x \in Iv[{}] BY DEF Between, Sound, WithoutEntries
<1>4. ASSUME NEW T \in SUBSET S, T # {}, NEW r \in Iv[T \ {pick[T]}]
      PROVE  UnregisterFactory(r, pick[T]) \in Iv[T]
  <2> DEFINE c == pick[T]
             z == UnregisterFactory(r, c)
  <2>1. c \in Class /\ c \in T /\ T \ {c} \in SUBSET S BY <1>2, <1>4 DEF Picks
  <2>2. /\ r \in States /\ Between(r) /\ r.held = {} /\ r.loaded = x.loaded
        /\ \A d \in T \ {c} : r.made[d] = Null
    BY <2>1 DEF WithoutEntries
  <2> HIDE DEF c
  <2>3. Between(z) BY <2>1, <2>2, UnregisterKeeps
  <2>4. KeptBut(r, z, [r.made EXCEPT ![c] = Null])
    <3>1. Sound(r, r.nodes, NoFactories) BY <2>2 DEF Between
    <3> QED BY <2>1, <3>1, UnregisterFactoryKeeps
  <2> HIDE DEF z
  <2>5. z.held = {} /\ z.loaded = x.loaded /\ z.made = [r.made EXCEPT ![c] = Null]
    BY <2>2, <2>4 DEF KeptBut
  <2>6. \A d \in T : z.made[d] = Null
    <3>1. r.made \in [Class -> Factory \cup {Null}] BY <2>2 DEF States
    <3> QED BY <2>1, <2>2, <2>5, <3>1
  <2>7. z \in States BY <2>3 DEF Between, Sound
  <2>8. z \in Iv[T] BY <2>3, <2>5, <2>6, <2>7 DEF WithoutEntries
  <2> QED BY <2>8 DEF z, c
<1> DEFINE Folds(g) == g = [T \in SUBSET S |-> IF T = {} THEN x
                                               ELSE UnregisterFactory(g[T \ {One(T)}], One(T))]
           it == CHOOSE g : Folds(g)
           step == [T \in SUBSET S |-> [r \in Iv[T \ {pick[T]}] |->
                     UnregisterFactory(r, pick[T])]]
<1>5. \E g : Folds(g)
  <2>1. \A T \in SUBSET S : T \ {One(T)} \in SUBSET S /\ pick[T] = One(T) OBVIOUS
  <2>2. \A T \in SUBSET S : T # {} =>
          \A r \in Iv[T \ {pick[T]}] :
            /\ step[T][r] = UnregisterFactory(r, pick[T])
            /\ step[T][r] \in Iv[T]
    <3> HIDE DEF Iv
    <3> QED BY <1>4
  <2> HIDE DEF Iv, step
  <2>3. Steps(S, pick, step, Iv) BY <2>2 DEF Steps
  <2> HIDE DEF pick, Folds
  <2>4. PICK g : IsFold(g, S, x, pick, step, Iv) BY <1>1, <1>3, <1>2, <2>3, FoldExists
  <2>5. /\ g = [T \in SUBSET S |-> IF T = {} THEN x ELSE step[T][g[T \ {pick[T]}]]]
        /\ \A T \in SUBSET S : g[T] \in Iv[T]
    BY <2>4 DEF IsFold
  <2>6. ASSUME NEW T \in SUBSET S, T # {} PROVE g[T] = UnregisterFactory(g[T \ {One(T)}], One(T))
    <3>1. g[T] = step[T][g[T \ {pick[T]}]] BY <2>5, <2>6
    <3>2. g[T \ {pick[T]}] \in Iv[T \ {pick[T]}] BY <2>1, <2>5
    <3>3. g[T] = UnregisterFactory(g[T \ {pick[T]}], pick[T]) BY <2>2, <2>6, <3>1, <3>2
    <3>4. pick[T] = One(T) BY <2>1
    <3> QED BY <3>3, <3>4
  <2>7. g = [T \in SUBSET S |-> g[T]] /\ g[{}] = x BY <2>5
  <2>8. Folds(g) BY <2>6, <2>7 DEF Folds
  <2> QED BY <2>8
<1>6. all = it[S] BY DEF FoldSet, MapThenFoldSet, One
<1>7. Folds(it) BY <1>5
<1>8. all \in Iv[S]
  <2>1. it[{}] = x BY <1>7
  <2>2. \A T \in SUBSET S : T # {} => it[T] = UnregisterFactory(it[T \ {pick[T]}], pick[T])
    BY <1>7
  <2> HIDE DEF it, Iv, pick
  <2>3. Stays(S, it, pick, Iv) BY <1>4, <2>2 DEF Stays
  <2>4. it[{}] \in Iv[{}] BY <1>3, <2>1
  <2>5. it[S] \in Iv[S] BY <1>1, <1>2, <2>3, <2>4, FoldStays
  <2> QED BY <1>6, <2>5
<1> QED BY <1>8

LEMMA ModulesGo ==
  ASSUME NEW x, Between(x), x.held = {}, \A c \in Class : x.made[c] = Null
  PROVE  FoldSet(LAMBDA m, y : Unloaded(y, m), x, x.loaded) \in WithoutModules(x, x.loaded)
<1> DEFINE S == x.loaded
           pick == [T \in SUBSET S |-> One(T)]
           Iv == [T \in SUBSET S |-> WithoutModules(x, T)]
           all == FoldSet(LAMBDA m, y : Unloaded(y, m), x, S)
<1>1. S \subseteq Module /\ IsFiniteSet(S)
  <2>1. S \subseteq Module BY DEF Between, Sound, States
  <2> QED BY <2>1, ModulesAssumption, FS_Subset
<1>2. Picks(S, pick)
  <2>1. \A T \in SUBSET S : T # {} => One(T) \in T BY DEF One
  <2> QED BY <2>1 DEF Picks
<1>3. x \in Iv[{}] BY DEF Between, Sound, WithoutModules
<1>4. ASSUME NEW T \in SUBSET S, T # {}, NEW r \in Iv[T \ {pick[T]}]
      PROVE  Unloaded(r, pick[T]) \in Iv[T]
  <2> DEFINE m == pick[T]
             z == Unloaded(r, m)
  <2>1. m \in Module /\ m \in T /\ T \ {m} \in SUBSET S BY <1>1, <1>2, <1>4 DEF Picks
  <2>2. /\ r \in States /\ Between(r) /\ r.held = {} /\ r.loaded = x.loaded \ (T \ {m})
        /\ \A c \in Class : r.made[c] = Null
    BY <2>1 DEF WithoutModules
  <2> HIDE DEF m
  <2>3. Between(z) /\ z.held = {} /\ z.made = r.made /\ z.loaded = r.loaded \ {m}
    BY <2>1, <2>2, UnloadedKeeps
  <2> HIDE DEF z
  <2>4. z.loaded = x.loaded \ T BY <2>1, <2>2, <2>3
  <2>5. z \in States BY <2>3 DEF Between, Sound
  <2>6. z \in Iv[T] BY <2>2, <2>3, <2>4, <2>5 DEF WithoutModules
  <2> QED BY <2>6 DEF z, m
<1> DEFINE Folds(g) == g = [T \in SUBSET S |-> IF T = {} THEN x
                                               ELSE Unloaded(g[T \ {One(T)}], One(T))]
           it == CHOOSE g : Folds(g)
           step == [T \in SUBSET S |-> [r \in Iv[T \ {pick[T]}] |->
                     Unloaded(r, pick[T])]]
<1>5. \E g : Folds(g)
  <2>1. \A T \in SUBSET S : T \ {One(T)} \in SUBSET S /\ pick[T] = One(T) OBVIOUS
  <2>2. \A T \in SUBSET S : T # {} =>
          \A r \in Iv[T \ {pick[T]}] :
            /\ step[T][r] = Unloaded(r, pick[T])
            /\ step[T][r] \in Iv[T]
    <3> HIDE DEF Iv
    <3> QED BY <1>4
  <2> HIDE DEF Iv, step
  <2>3. Steps(S, pick, step, Iv) BY <2>2 DEF Steps
  <2> HIDE DEF pick, Folds
  <2>4. PICK g : IsFold(g, S, x, pick, step, Iv) BY <1>1, <1>3, <1>2, <2>3, FoldExists
  <2>5. /\ g = [T \in SUBSET S |-> IF T = {} THEN x ELSE step[T][g[T \ {pick[T]}]]]
        /\ \A T \in SUBSET S : g[T] \in Iv[T]
    BY <2>4 DEF IsFold
  <2>6. ASSUME NEW T \in SUBSET S, T # {} PROVE g[T] = Unloaded(g[T \ {One(T)}], One(T))
    <3>1. g[T] = step[T][g[T \ {pick[T]}]] BY <2>5, <2>6
    <3>2. g[T \ {pick[T]}] \in Iv[T \ {pick[T]}] BY <2>1, <2>5
    <3>3. g[T] = Unloaded(g[T \ {pick[T]}], pick[T]) BY <2>2, <2>6, <3>1, <3>2
    <3>4. pick[T] = One(T) BY <2>1
    <3> QED BY <3>3, <3>4
  <2>7. g = [T \in SUBSET S |-> g[T]] /\ g[{}] = x BY <2>5
  <2>8. Folds(g) BY <2>6, <2>7 DEF Folds
  <2> QED BY <2>8
<1>6. all = it[S] BY DEF FoldSet, MapThenFoldSet, One
<1>7. Folds(it) BY <1>5
<1>8. all \in Iv[S]
  <2>1. it[{}] = x BY <1>7
  <2>2. \A T \in SUBSET S : T # {} => it[T] = Unloaded(it[T \ {pick[T]}], pick[T])
    BY <1>7
  <2> HIDE DEF it, Iv, pick
  <2>3. Stays(S, it, pick, Iv) BY <1>4, <2>2 DEF Stays
  <2>4. it[{}] \in Iv[{}] BY <1>3, <2>1
  <2>5. it[S] \in Iv[S] BY <1>1, <1>2, <2>3, <2>4, FoldStays
  <2> QED BY <1>6, <2>5
<1> QED BY <1>8

(* What is left are the factories that a pointer was overwritten to: the    *)
(* allocator destroys those in T.                                           *)
WithoutFactories(x, T) ==
  {y \in States :
     /\ y.made = x.made /\ y.loaded = x.loaded /\ y.nodes = x.nodes
     /\ y.held = x.held /\ y.lost = x.lost /\ y.late \subseteq y.lost
     /\ \A c \in Class : y.info[c] # Null => y.class[y.info[c]] = c
     /\ \A f \in Factory : /\ y.class[f] = IF f \in T THEN Null ELSE x.class[f]
                           /\ y.refs[f] = IF f \in T THEN 0 ELSE x.refs[f]}

LEMMA DestroyedKeeps ==
  ASSUME NEW x, NEW T \in SUBSET Factory, NEW f \in T, x.class[f] \in Class, f \in x.lost,
         NEW y \in WithoutFactories(x, T \ {f})
  PROVE  Destroyed(y, f) \in WithoutFactories(x, T)
<1> DEFINE c == y.class[f]
           k == [y.class EXCEPT ![f] = Null]
           r == [y.refs EXCEPT ![f] = 0]
           i == [y.info EXCEPT ![c] = Null]
           l == IF Mapped(y, Home(c)) THEN y.late ELSE y.late \cup {f}
           z == [y EXCEPT !.class = k, !.refs = r, !.info = i, !.late = l]
<1>1. /\ y \in States
      /\ y.made = x.made /\ y.loaded = x.loaded /\ y.nodes = x.nodes
      /\ y.held = x.held /\ y.lost = x.lost /\ y.late \subseteq y.lost
      /\ \A d \in Class : y.info[d] # Null => y.class[y.info[d]] = d
      /\ \A g \in Factory : /\ y.class[g] = IF g \in T \ {f} THEN Null ELSE x.class[g]
                            /\ y.refs[g] = IF g \in T \ {f} THEN 0 ELSE x.refs[g]
  BY DEF WithoutFactories
<1>2. f \in Factory /\ f \in y.lost /\ c \in Class BY <1>1
<1>3. Destroyed(y, f) = z BY DEF Destroyed
<1>4. /\ k \in [Factory -> Class \cup {Null}] /\ r \in [Factory -> Nat]
      /\ i \in [Class -> Factory \cup {Null}] /\ l \in SUBSET Factory
  BY <1>1, <1>2 DEF States
<1>5. /\ \A g \in Factory : k[g] = IF g = f THEN Null ELSE y.class[g]
      /\ \A g \in Factory : r[g] = IF g = f THEN 0 ELSE y.refs[g]
      /\ \A d \in Class : i[d] = IF d = c THEN Null ELSE y.info[d]
      /\ l \subseteq y.lost
  BY <1>1, <1>2 DEF States
<1> HIDE DEF k, r, i, l
<1>6. z \in States BY <1>1, <1>4 DEF States
<1>7. /\ z.class = k /\ z.refs = r /\ z.info = i /\ z.late = l /\ z.made = y.made
      /\ z.loaded = y.loaded /\ z.nodes = y.nodes /\ z.held = y.held /\ z.lost = y.lost
  BY <1>1 DEF States
<1> HIDE DEF z
<1>8. ASSUME NEW d \in Class, z.info[d] # Null PROVE z.class[z.info[d]] = d
  <2>1. d # c /\ z.info[d] = y.info[d] BY <1>5, <1>7, <1>8
  <2>2. y.class[y.info[d]] = d /\ y.info[d] \in Factory BY <1>1, <1>8, <2>1 DEF States
  <2>3. y.info[d] # f BY <2>1, <2>2
  <2> QED BY <1>5, <1>7, <2>1, <2>2, <2>3
<1>9. ASSUME NEW g \in Factory
      PROVE  /\ z.class[g] = IF g \in T THEN Null ELSE x.class[g]
             /\ z.refs[g] = IF g \in T THEN 0 ELSE x.refs[g]
  <2>1. CASE g = f BY <1>5, <1>7, <2>1
  <2>2. CASE g # f
    <3>1. g \in T \ {f} <=> g \in T BY <2>2
    <3>2. z.class[g] = y.class[g] /\ z.refs[g] = y.refs[g] BY <1>5, <1>7, <2>2
    <3> QED BY <1>1, <3>1, <3>2
  <2> QED BY <2>1, <2>2
<1>10. z \in WithoutFactories(x, T) BY <1>1, <1>5, <1>6, <1>7, <1>8, <1>9 DEF WithoutFactories
<1> QED BY <1>3, <1>10

LEMMA FactoriesGo ==
  ASSUME NEW x, Between(x), x.held = {}, x.loaded = {}, \A c \in Class : x.made[c] = Null
  PROVE  Ended(FoldSet(LAMBDA f, y : Destroyed(y, f), x, Factory \ Unused(x)))
<1> DEFINE S == Factory \ Unused(x)
           pick == [T \in SUBSET S |-> One(T)]
           Iv == [T \in SUBSET S |-> WithoutFactories(x, T)]
           all == FoldSet(LAMBDA f, y : Destroyed(y, f), x, S)
<1>1. IsFiniteSet(S) BY ModulesAssumption, FS_Subset
<1>2. Picks(S, pick)
  <2>1. \A T \in SUBSET S : T # {} => One(T) \in T BY DEF One
  <2> QED BY <2>1 DEF Picks
<1>0. /\ x \in States /\ LiveInv(x) /\ PointersInv(x) /\ NodesInv(x, x.nodes) /\ PlacesInv(x)
      /\ RefsInv(x, x.nodes, NoFactories) /\ x.nodes \in [Module -> Seq(Factory)]
  BY DEF Between, Sound
<1>3. x \in Iv[{}]
  <2>1. x \in WithoutFactories(x, {}) BY <1>0 DEF PointersInv, PlacesInv, WithoutFactories
  <2> QED BY <2>1
<1>9. \A m \in Module : x.nodes[m] = <<>> BY <1>0 DEF NodesInv
<1>10. \A y, f : y.made = x.made /\ y.nodes = x.nodes /\ y.held = x.held /\ f \in Factory =>
         Owners(y, y.nodes, f) = In(f, y.lost \ Unused(y))
  <2> SUFFICES ASSUME NEW y, NEW f \in Factory, y.made = x.made, y.nodes = x.nodes, y.held = x.held
               PROVE  Owners(y, y.nodes, f) = In(f, y.lost \ Unused(y))
    OBVIOUS
  <2>1. Entries(y, f) = {} BY ModulesAssumption DEF Entries
  <2>2. Lists(y.nodes, f) = {}
    <3>1. Range(<<>>) = {} BY DEF Range
    <3> QED BY <1>9, <3>1 DEF Lists
  <2>3. Cardinality(Entries(y, f)) = 0 /\ Cardinality(Lists(y.nodes, f)) = 0
    BY <2>1, <2>2, FS_EmptySet
  <2>4. In(f, y.held) = 0 /\ In(f, y.lost \ Unused(y)) \in Nat BY InFact
  <2> QED BY <2>3, <2>4 DEF Owners
<1>11. ASSUME NEW f \in S PROVE f \in x.lost /\ x.class[f] \in Class
  <2>1. f \in Factory /\ x.class[f] # Null BY DEF Unused
  <2>2. x.refs[f] # 0 /\ x.class[f] \in Class BY <1>0, <2>1 DEF LiveInv, States
  <2>3. x.refs[f] = Owners(x, x.nodes, f) + NoFactories[f] /\ NoFactories[f] = 0
    BY <1>0, <2>1, NoFactoriesFact DEF RefsInv
  <2>4. Owners(x, x.nodes, f) = In(f, x.lost \ Unused(x)) BY <1>10, <2>1
  <2>5. In(f, x.lost \ Unused(x)) # 0
    <3> SUFFICES ASSUME In(f, x.lost \ Unused(x)) = 0 PROVE FALSE OBVIOUS
    <3>1. x.refs[f] = 0 + 0 BY <2>3, <2>4
    <3> QED BY <2>2, <3>1
  <2> QED BY <2>2, <2>5, InFact
<1>4. ASSUME NEW T \in SUBSET S, T # {}, NEW r \in Iv[T \ {pick[T]}]
      PROVE  Destroyed(r, pick[T]) \in Iv[T]
  <2> DEFINE f == pick[T]
  <2>1. f \in T /\ T \ {f} \in SUBSET S /\ f \in S BY <1>2, <1>4 DEF Picks
  <2>2. r \in WithoutFactories(x, T \ {f}) BY <2>1
  <2> HIDE DEF f
  <2>3. T \in SUBSET Factory /\ f \in x.lost /\ x.class[f] \in Class BY <1>11, <2>1
  <2>4. Destroyed(r, f) \in WithoutFactories(x, T) BY <2>1, <2>2, <2>3, DestroyedKeeps
  <2> QED BY <2>4 DEF f
<1> DEFINE Folds(g) == g = [T \in SUBSET S |-> IF T = {} THEN x
                                               ELSE Destroyed(g[T \ {One(T)}], One(T))]
           it == CHOOSE g : Folds(g)
           step == [T \in SUBSET S |-> [r \in Iv[T \ {pick[T]}] |->
                     Destroyed(r, pick[T])]]
<1>5. \E g : Folds(g)
  <2>1. \A T \in SUBSET S : T \ {One(T)} \in SUBSET S /\ pick[T] = One(T) OBVIOUS
  <2>2. \A T \in SUBSET S : T # {} =>
          \A r \in Iv[T \ {pick[T]}] :
            /\ step[T][r] = Destroyed(r, pick[T])
            /\ step[T][r] \in Iv[T]
    <3> HIDE DEF Iv
    <3> QED BY <1>4
  <2> HIDE DEF Iv, step
  <2>3. Steps(S, pick, step, Iv) BY <2>2 DEF Steps
  <2> HIDE DEF pick, Folds
  <2>4. PICK g : IsFold(g, S, x, pick, step, Iv) BY <1>1, <1>3, <1>2, <2>3, FoldExists
  <2>5. /\ g = [T \in SUBSET S |-> IF T = {} THEN x ELSE step[T][g[T \ {pick[T]}]]]
        /\ \A T \in SUBSET S : g[T] \in Iv[T]
    BY <2>4 DEF IsFold
  <2>6. ASSUME NEW T \in SUBSET S, T # {} PROVE g[T] = Destroyed(g[T \ {One(T)}], One(T))
    <3>1. g[T] = step[T][g[T \ {pick[T]}]] BY <2>5, <2>6
    <3>2. g[T \ {pick[T]}] \in Iv[T \ {pick[T]}] BY <2>1, <2>5
    <3>3. g[T] = Destroyed(g[T \ {pick[T]}], pick[T]) BY <2>2, <2>6, <3>1, <3>2
    <3>4. pick[T] = One(T) BY <2>1
    <3> QED BY <3>3, <3>4
  <2>7. g = [T \in SUBSET S |-> g[T]] /\ g[{}] = x BY <2>5
  <2>8. Folds(g) BY <2>6, <2>7 DEF Folds
  <2> QED BY <2>8
<1>6. all = it[S] BY DEF FoldSet, MapThenFoldSet, One
<1>7. Folds(it) BY <1>5
<1>8. all \in Iv[S]
  <2>1. it[{}] = x BY <1>7
  <2>2. \A T \in SUBSET S : T # {} => it[T] = Destroyed(it[T \ {pick[T]}], pick[T])
    BY <1>7
  <2> HIDE DEF it, Iv, pick
  <2>3. Stays(S, it, pick, Iv) BY <1>4, <2>2 DEF Stays
  <2>4. it[{}] \in Iv[{}] BY <1>3, <2>1
  <2>5. it[S] \in Iv[S] BY <1>1, <1>2, <2>3, <2>4, FoldStays
  <2> QED BY <1>6, <2>5
<1> HIDE DEF all
<1>12. /\ all \in States
       /\ all.made = x.made /\ all.loaded = x.loaded /\ all.nodes = x.nodes
       /\ all.held = x.held /\ all.lost = x.lost /\ all.late \subseteq all.lost
       /\ \A c \in Class : all.info[c] # Null => all.class[all.info[c]] = c
       /\ \A f \in Factory : /\ all.class[f] = IF f \in S THEN Null ELSE x.class[f]
                             /\ all.refs[f] = IF f \in S THEN 0 ELSE x.refs[f]
  <2>1. all \in WithoutFactories(x, S) BY <1>8
  <2> QED BY <2>1 DEF WithoutFactories
<1>13. \A f \in Factory : all.class[f] = Null /\ all.refs[f] = 0
  <2> TAKE f \in Factory
  <2>1. CASE f \in S BY <1>12, <2>1
  <2>2. CASE f \notin S
    <3>1. x.class[f] = Null BY <2>2 DEF Unused
    <3>2. x.refs[f] = 0 BY <1>0, <3>1 DEF LiveInv
    <3> QED BY <1>12, <2>2, <3>1, <3>2
  <2> QED BY <2>1, <2>2
<1>14. ASSUME NEW f \in Factory
       PROVE  all.refs[f] = Cardinality({c \in Class : all.made[c] = f})
                   + Cardinality({m \in Module : f \in Range(all.nodes[m])})
                   + Cardinality({f} \cap all.held) + Cardinality({f} \cap (all.lost \ Unused(all)))
  <2>1. f \notin all.lost \ Unused(all) BY <1>13 DEF Unused
  <2>2. In(f, all.lost \ Unused(all)) = 0 BY <2>1, InFact
  <2>3. all.made = x.made /\ all.nodes = x.nodes /\ all.held = x.held BY <1>12
  <2>4. Owners(all, all.nodes, f) = In(f, all.lost \ Unused(all)) BY <1>10, <2>3
  <2>5. Owners(all, all.nodes, f) = 0 BY <2>2, <2>4
  <2>6. all.refs[f] = Owners(all, all.nodes, f) BY <1>13, <2>5
  <2> QED BY <2>6 DEF Owners, Entries, Lists, In
<1>15. Ended(all) BY <1>12, <1>14 DEF Ended, GoLast
<1> QED BY <1>15 DEF all

LEMMA StoppedEnds ==
  ASSUME NEW x, Between(x), x.held = {}
  PROVE  Ended(Stopped(x))
<1> DEFINE y == FoldSet(LAMBDA c, v : UnregisterFactory(v, c), x, Class)
           z == FoldSet(LAMBDA m, v : Unloaded(v, m), y, y.loaded)
           end == FoldSet(LAMBDA f, v : Destroyed(v, f), z, Factory \ Unused(z))
<1>1. y \in WithoutEntries(x, Class) BY EntriesGo
<1> HIDE DEF y
<1>2. Between(y) /\ y.held = {} /\ y.loaded = x.loaded /\ \A c \in Class : y.made[c] = Null
  BY <1>1 DEF WithoutEntries
<1>3. z \in WithoutModules(y, y.loaded) BY <1>2, ModulesGo
<1> HIDE DEF z
<1>4. Between(z) /\ z.held = {} /\ z.loaded = {} /\ \A c \in Class : z.made[c] = Null
  BY <1>3 DEF WithoutModules
<1>5. Ended(end) BY <1>4, FactoriesGo
<1>6. Stopped(x) = FoldSet(LAMBDA f, v : Destroyed(v, f),
                       FoldSet(LAMBDA m, v : Unloaded(v, m), y, x.loaded),
                       Factory \ Unused(FoldSet(LAMBDA m, v : Unloaded(v, m), y, x.loaded)))
  BY DEF Stopped, y
<1>7. FoldSet(LAMBDA m, v : Unloaded(v, m), y, x.loaded) = z BY <1>2 DEF z
<1>8. Stopped(x) = end BY <1>6, <1>7
<1> QED BY <1>5, <1>8

-----------------------------------------------------------------------------
(* While the runtime is up its factories are sound between two calls, and   *)
(* when it is not nothing is loaded.                                        *)
FactoriesInv == IF up = "up" THEN Between(w) ELSE Ended(w)

LEMMA NothingHasEnded == Ended(Nothing)
<1>1. Between(Nothing) BY NothingIsSound
<1>2. GoLast(Nothing) BY <1>1, BetweenGoesLast
<1>3. Nothing.loaded = {} BY DEF Nothing
<1> QED BY <1>2, <1>3 DEF Ended

LEMMA InitializeKeepsFactories ==
  ASSUME TypeInv, CountInv, FactoriesInv, NEW how, DM_Initialize(how)
  PROVE  FactoriesInv'
<1>1. gDaimRefcount \in Nat /\ gDaimRefcount' = gDaimRefcount + 1 BY DEF TypeInv, DM_Initialize
<1>2. CASE gDaimRefcount' >= 2
  <2>1. w' = w /\ up' = up BY <1>2 DEF DM_Initialize
  <2> QED BY <2>1 DEF FactoriesInv
<1>3. CASE ~(gDaimRefcount' >= 2)
  <2>1. \/ up' = "half" /\ w' = Nothing
        \/ up' = "up" /\ w' = Started
    BY <1>3 DEF DM_Initialize
  <2>2. CASE up' = "half" /\ w' = Nothing BY <2>2, NothingHasEnded DEF FactoriesInv
  <2>3. CASE up' = "up" /\ w' = Started BY <2>3, StartedIsSound DEF FactoriesInv
  <2> QED BY <2>1, <2>2, <2>3
<1> QED BY <1>2, <1>3

LEMMA FinalizeKeepsFactories ==
  ASSUME FactoriesInv, w.held = {}, NEW force \in BOOLEAN, DM_Finalize(force)
  PROVE  FactoriesInv'
<1>1. \/ up' = up /\ w' = w
      \/ up' = "down" /\ up = "up" /\ w' = Stopped(w)
      \/ up' = "down" /\ up # "up" /\ w' = w
  BY DEF DM_Finalize
<1>2. CASE up' = up /\ w' = w BY <1>2 DEF FactoriesInv
<1>3. CASE up' = "down" /\ up = "up" /\ w' = Stopped(w)
  <2>1. Between(w) BY <1>3 DEF FactoriesInv
  <2>2. Ended(Stopped(w)) BY <2>1, StoppedEnds
  <2> QED BY <1>3, <2>2 DEF FactoriesInv
<1>4. CASE up' = "down" /\ up # "up" /\ w' = w BY <1>4 DEF FactoriesInv
<1> QED BY <1>1, <1>2, <1>3, <1>4

LEMMA FactoriesInvariant == Spec => [](IInv /\ FactoriesInv)
<1>1. Init => IInv /\ FactoriesInv
  <2> SUFFICES ASSUME Init PROVE IInv /\ FactoriesInv OBVIOUS
  <2>1. IInv BY InitIsIn
  <2>2. w = Nothing /\ up = "down" BY DEF Init
  <2> QED BY <2>1, <2>2, NothingHasEnded DEF FactoriesInv
<1>2. IInv /\ FactoriesInv /\ [Next]_<<w, runtime>> => IInv' /\ FactoriesInv'
  <2> SUFFICES ASSUME IInv, FactoriesInv, [Next]_<<w, runtime>> PROVE IInv' /\ FactoriesInv' OBVIOUS
  <2>1. IInv' BY NextKeeps
  <2>2. ASSUME NEW e \in Embedder,
               NEW how \in {"no library", "no symbol", "starts", "no registry", "fails"},
               InitGlue(e, how)
        PROVE  FactoriesInv'
    <3>1. CASE how \in {"no library", "no symbol"}
      <4>1. w' = w /\ up' = up BY <2>2, <3>1 DEF InitGlue, runtime
      <4> QED BY <4>1 DEF FactoriesInv
    <3>2. CASE how \in {"starts", "no registry", "fails"}
      <4>1. DM_Initialize(how) BY <2>2, <3>2 DEF InitGlue
      <4> QED BY <4>1, InitializeKeepsFactories DEF IInv
    <3> QED BY <3>1, <3>2
  <2>3. ASSUME NEW e \in Embedder, NEW force \in BOOLEAN, ReleaseGlue(e, force)
        PROVE  FactoriesInv'
    <3>1. w.held = {} /\ DM_Finalize(force) BY <2>3 DEF ReleaseGlue
    <3> QED BY <3>1, FinalizeKeepsFactories
  <2>4. ASSUME up = "up", Call, UNCHANGED runtime PROVE FactoriesInv'
    <3>1. Between(w) BY <2>4 DEF FactoriesInv
    <3>2. Between(w') /\ up' = up BY <2>4, <3>1, CallKeeps DEF runtime
    <3> QED BY <2>4, <3>2 DEF FactoriesInv
  <2>5. ASSUME UNCHANGED <<w, runtime>> PROVE FactoriesInv' BY <2>5 DEF runtime, FactoriesInv
  <2> QED BY <2>1, <2>2, <2>3, <2>4, <2>5 DEF Next
<1> QED BY <1>1, <1>2, PTL DEF Spec

(* Every reference to a factory is that of an entry, of a module's list, of *)
(* a client or of a pointer that GetFactory has overwritten; the variable   *)
(* of a class points to a factory of that class; and none but the           *)
(* overwritten ones outlives its library: for any modules, tables and calls *)
(* (cciGenericFactory.cpp, cciComponentManager.cpp), failed ones among them. *)
THEOREM LibrariesDoGoLast == Spec => []LibrariesGoLast
<1>1. IInv /\ FactoriesInv => LibrariesGoLast
  <2> SUFFICES ASSUME IInv, FactoriesInv PROVE LibrariesGoLast OBVIOUS
  <2>1. GoLast(w) BY BetweenGoesLast DEF FactoriesInv, Ended
  <2> QED BY <2>1 DEF GoLast, LibrariesGoLast
<1> QED BY <1>1, FactoriesInvariant, PTL

(* Whichever release stops the runtime, and whether or not its start had    *)
(* failed, no module is loaded when the last embedder has left (CCI_Shutdown, *)
(* cciCOMInit.cpp; cciComponentManagerImpl::Shutdown).                      *)
THEOREM AllIsUnloaded == Spec => []UnloadedAtTheEnd
<1>1. IInv /\ FactoriesInv => UnloadedAtTheEnd
  <2> SUFFICES ASSUME IInv, FactoriesInv, Left PROVE w.loaded = {} BY DEF UnloadedAtTheEnd
  <2>1. up = "down" BY LeftIsDown
  <2> QED BY <2>1 DEF FactoriesInv, Ended
<1> QED BY <1>1, FactoriesInvariant, PTL

=============================================================================
