---------------------------------- MODULE Lists ----------------------------------
(***************************************************************************)
(* The linked lists (dmList.h, dmList.cpp): nodes that carry their own     *)
(* links, in rings; a list is the ring of its head, without the head. A    *)
(* node that is nowhere is a ring of its own. dmOList and dmTList are the  *)
(* same calls on nodes with a type; the nodes of a dmTList belong to it.   *)
(***************************************************************************)
EXTENDS Naturals, Sequences, SequencesExt, FiniteSets, FiniteSetsExt

CONSTANTS
  Heads,        \* lists
  Elems         \* nodes
Links == Heads \cup Elems

ASSUME ListsAssumption ==
  IsFiniteSet(Heads) /\ IsFiniteSet(Elems) /\ Heads \cap Elems = {}

VARIABLES
  ln_Succ, ln_Pred

Pair == [succ |-> ln_Succ, pred |-> ln_Pred]
Alone == [n \in Links |-> n]
ListsInit == ln_Succ = Alone /\ ln_Pred = Alone

Lonely(l, n) == l.succ[n] = n

-----------------------------------------------------------------------------
(* Assignments to the links, in the order of the code: f[n] becomes m.      *)
SetSucc(l, n, m) == [l EXCEPT !.succ[n] = m]
SetPred(l, n, m) == [l EXCEPT !.pred[n] = m]

Removed(l, n) ==
  LET s == l.succ[n]
      p == l.pred[n]
  IN SetPred(SetSucc(SetPred(SetSucc(l, p, s), s, p), n, n), n, n)

(* dmNode::Insert: the ring of n, from its second node on, before this one. *)
NodeInserted(l, this, n) ==
  LET s == l.succ[n]
      p == l.pred[this]
  IN SetPred(SetSucc(SetSucc(SetPred(l, s, p), p, s), n, this), this, n)

(* dmList::Insert: a node that is somewhere is taken out first.             *)
Inserted_NotRemoved(l, position, x) ==
  LET p == l.pred[position]
  IN SetPred(SetSucc(SetSucc(SetPred(l, x, p), p, x), x, position), position, x)
Inserted(l, position, x) ==
  LET out == IF Lonely(l, x) THEN l ELSE Removed(l, x)
      p == out.pred[position]
  IN SetPred(SetSucc(SetSucc(SetPred(out, x, p), p, x), x, position), position, x)

Spliced(l, pos, start, end) ==
  LET tail == l.pred[end]
      before == l.pred[start]
      out == SetSucc(SetPred(l, end, before), before, end)
      p == out.pred[pos]
      in == SetSucc(SetPred(out, start, p), p, start)
  IN IF start = end THEN l ELSE SetSucc(SetPred(in, pos, tail), tail, pos)

Cleared(l, h) == Removed(l, h)

-----------------------------------------------------------------------------
(* The ring of a node, beginning with the one after it. (Links that lead    *)
(* nowhere are followed as many times as there are nodes.)                  *)
Ring(next, n) ==
  LET walk[k \in Nat] ==
        IF k = 0 THEN <<next[n]>>
        ELSE LET s == walk[k - 1]
             IN IF Last(s) = n THEN s ELSE Append(s, next[Last(s)])
  IN walk[Cardinality(Links)]
ListOf(l, h) == Front(Ring(l.succ, h))
Together(l, n, m) == m \in Range(Ring(l.succ, n))

(* The nodes from start to the one before end, which is in the same ring.   *)
Stretch(l, start, end) ==
  LET ring == Ring(l.succ, l.pred[start])
  IN SubSeq(ring, 1, SelectInSeq(ring, LAMBDA n : n = end) - 1)

(* What the callers see to: a node goes before another one; a ring that is  *)
(* put into another has no head; a stretch that moves takes no head along,  *)
(* and goes before a node that is not in it.                                *)
Loose(l, n) == Range(Ring(l.succ, n)) \cap Heads = {}
MayMove(l, start, end) ==
  Together(l, start, end) /\ Heads \cap Range(Stretch(l, start, end)) = {}

Relinked(l) == ln_Succ' = l.succ /\ ln_Pred' = l.pred

RemoveNode(n) == Relinked(Removed(Pair, n))
InsertBefore(n, this) ==
  Loose(Pair, n) /\ ~Together(Pair, n, this) /\ Relinked(NodeInserted(Pair, this, n))
InsertNode(position, x) == x # position /\ Relinked(Inserted(Pair, position, x))
Splice(pos, start, end) ==
  /\ MayMove(Pair, start, end) /\ pos \notin Range(Stretch(Pair, start, end))
  /\ Relinked(Spliced(Pair, pos, start, end))
ClearList(h) == Relinked(Cleared(Pair, h))

ListsNext ==
  \/ \E n \in Elems : RemoveNode(n)
  \/ \E n \in Elems, this \in Links : InsertBefore(n, this)
  \/ \E x \in Elems, position \in Links : InsertNode(position, x)
  \/ \E pos, start, end \in Links : Splice(pos, start, end)
  \/ \E h \in Heads : ClearList(h)

ListsSpec == ListsInit /\ [][ListsNext]_<<ln_Succ, ln_Pred>>
-----------------------------------------------------------------------------
PlaceOf(s, m) == SelectInSeq(s, LAMBDA n : n = m)
Before(s, m, some) ==
  LET i == IF PlaceOf(s, m) = 0 THEN Len(s) + 1 ELSE PlaceOf(s, m)
  IN SubSeq(s, 1, i - 1) \o some \o SubSeq(s, i, Len(s))
(* Without n nodes from m on, if m is there.                                *)
TakenOut(s, m, n) ==
  LET i == PlaceOf(s, m)
  IN IF i = 0 THEN s ELSE SubSeq(s, 1, i - 1) \o SubSeq(s, i + n, Len(s))

(* A list read forwards and backwards is the same, and each call does to it *)
(* what its name says: a node that is inserted, wherever it was, leaves     *)
(* there and stands before the position; a stretch of nodes changes place   *)
(* or list as it is; and no other list changes.                             *)
ListsAreSequences ==
  \A h \in Heads :
    LET list == ListOf(Pair, h)
        Has(m) == m = h \/ m \in Range(list)
    IN /\ Reverse(list) = Front(Ring(ln_Pred, h))
       /\ \A n \in Elems : ListOf(Removed(Pair, n), h) = TakenOut(list, n, 1)
       /\ \A x \in Elems, position \in Links :
            x # position =>
              ListOf(Inserted(Pair, position, x), h) =
                IF Has(position) THEN Before(TakenOut(list, x, 1), position, <<x>>) ELSE TakenOut(list, x, 1)
       /\ \A n \in Elems, this \in Links :
            Loose(Pair, n) /\ ~Together(Pair, n, this) =>
              ListOf(NodeInserted(Pair, this, n), h) =
                IF Has(this) THEN Before(list, this, Ring(ln_Succ, n)) ELSE list
       /\ \A start, end \in Links :
            MayMove(Pair, start, end) =>
              LET some == Stretch(Pair, start, end)
                  rest == IF some = <<>> THEN list ELSE TakenOut(list, start, Len(some))
              IN \A pos \in Links \ Range(some) :
                   ListOf(Spliced(Pair, pos, start, end), h) =
                     IF Has(pos) THEN Before(rest, pos, some) ELSE rest
       /\ \A other \in Heads :
            ListOf(Cleared(Pair, other), h) = IF other = h THEN <<>> ELSE list
=============================================================================
