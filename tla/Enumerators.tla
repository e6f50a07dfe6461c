------------------------------ MODULE Enumerators ------------------------------
(***************************************************************************)
(* The enumerator adaptors of cciEnumeratorUtils.cpp: the empty one, the   *)
(* singleton, and the union of two, here a union of a union. The client    *)
(* calls HasMoreElements and GetNext in any order.                         *)
(***************************************************************************)
EXTENDS Sequences, SequencesExt, Naturals

CONSTANTS Value, NoValue

ASSUME NoValueAssumption == NoValue \notin Value

VARIABLES
  mValue,      \* what a part was made with: a value, or NoValue
  mConsumed,   \* of each part
  unions,      \* the state of the union of 1 and 2, and of that with 3
  delivered,   \* what the client has been given
  answered     \* the last answer of HasMoreElements, forgotten by a GetNext

enumerators == <<mValue, mConsumed, unions, delivered, answered>>

Part == 1..3
Fresh == [mConsumed |-> FALSE, mAtSecond |-> FALSE]

(* A singleton of nothing is consumed at once, as the empty enumerator is.  *)
EnumeratorsInit ==
  /\ mValue \in [Part -> Value \cup {NoValue}]
  /\ mConsumed = [p \in Part |-> mValue[p] = NoValue]
  /\ unions = [inner |-> Fresh, outer |-> Fresh]
  /\ delivered = <<>> /\ answered = "nothing"

-----------------------------------------------------------------------------
(* HasMoreElements of a union whose parts answer first and second: the      *)
(* answer, and the state it is left in.                                     *)
UnionHasMore(u, first, second) ==
  ~u.mConsumed /\ IF u.mAtSecond THEN second ELSE first \/ second
UnionAfter_Forgets(u, first, second) ==
  IF u.mConsumed \/ (~u.mAtSecond /\ first) THEN u
  ELSE [mAtSecond |-> u.mAtSecond, mConsumed |-> ~second]
UnionAfter(u, first, second) ==
  IF u.mConsumed \/ (~u.mAtSecond /\ first) THEN u
  ELSE [mAtSecond |-> TRUE, mConsumed |-> ~second]

PartHasMore(p) == ~mConsumed[p]

HasMoreElements ==
  LET inner == UnionHasMore(unions.inner, PartHasMore(1), PartHasMore(2))
      asked == ~unions.outer.mConsumed /\ ~unions.outer.mAtSecond
  IN /\ answered' = IF UnionHasMore(unions.outer, inner, PartHasMore(3)) THEN "more" ELSE "done"
     /\ unions' =
          [inner |-> IF asked THEN UnionAfter(unions.inner, PartHasMore(1), PartHasMore(2))
                     ELSE unions.inner,
           outer |-> UnionAfter(unions.outer, inner, PartHasMore(3))]
     /\ UNCHANGED <<mValue, mConsumed, delivered>>

(* GetNext of a union goes to the part it stands at, which may have nothing *)
(* left: only HasMoreElements moves on.                                     *)
UnionAt(u, first, second) ==
  IF u.mConsumed THEN {} ELSE IF u.mAtSecond THEN second ELSE first
Target == UnionAt(unions.outer, UnionAt(unions.inner, {1}, {2}), {3})
Ready == {p \in Target : ~mConsumed[p]}

Consumed_Never(p) == mConsumed
Consumed(p) == [mConsumed EXCEPT ![p] = TRUE]
GetNext ==
  /\ \E p \in Ready : mConsumed' = Consumed(p) /\ delivered' = Append(delivered, mValue[p])
  /\ answered' = "nothing" /\ UNCHANGED <<mValue, unions>>
GetNextFails == Ready = {} /\ answered' = "nothing" /\ UNCHANGED <<mValue, mConsumed, unions, delivered>>

EnumeratorsNext == HasMoreElements \/ GetNext \/ GetNextFails

EnumeratorsSpec == EnumeratorsInit /\ [][EnumeratorsNext]_enumerators
-----------------------------------------------------------------------------
OfPart(p) == IF mValue[p] = NoValue THEN <<>> ELSE <<mValue[p]>>
Everything == OfPart(1) \o OfPart(2) \o OfPart(3)

(* However the calls are mixed, the client is given the elements of the     *)
(* first enumerator and then of the second, each once (cciUnionEnumerator). *)
InOrder == IsPrefix(delivered, Everything)

(* An answer of HasMoreElements is kept: after "more" the next GetNext      *)
(* succeeds, after "done" nothing has been left out.                        *)
AnswersAreKept ==
  /\ answered = "more" => Ready # {}
  /\ answered = "done" => Ready = {} /\ delivered = Everything
=============================================================================
