--------------------------------- MODULE Vector ---------------------------------
(* A vector and every call on it.                                           *)
EXTENDS Cells

CONSTANT MaxCapacity   \* bound on the memory of a vector

ASSUME VectorAssumption == MaxCapacity \in Nat /\ Raw \notin Value

VARIABLE v

VectorInit == v = NoCells

Become(w) == Capacity(w) <= MaxCapacity /\ v' = w
Arguments == {a \in Argument(MaxCapacity) : Readable(v, a)}
Position == 1..v.end + 1
Slice == {SubSeq(v.cells, i, j) : i, j \in 1..v.end}

VectorNext ==
  \/ \E p \in Position, a \in Arguments : Become(InsertOne(v, p, a))
  \/ \E p \in Position, from \in Slice : Become(InsertSome(v, p, from))
  \/ \E p \in Position, n \in 0..2, a \in Arguments : Become(InsertFill(v, p, n, a))
  \/ \E first \in Position : \E last \in first..v.end + 1 : Become(EraseCells(v, first, last))
  \/ \E n \in 0..MaxCapacity, a \in Arguments : Become(Resize(v, n, a))
  \/ \E n \in 0..MaxCapacity : Become(Reserve(v, n))
  \/ \E from \in Slice : Become(AssignCells(v, from))

VectorSpec == VectorInit /\ [][VectorNext]_v
-----------------------------------------------------------------------------
(* Every call does to the elements what its name says of a sequence,        *)
(* whether it works in place or grows, also when the argument is an element *)
(* of the vector: nothing raw is read and nothing is overwritten before it  *)
(* is read. And elements are constructed from _M_Begin to _M_End and        *)
(* nowhere else, so each is destroyed once.                                 *)
VectorIsSequence ==
  LET s == Elements(v)
  IN /\ \A i \in DOMAIN v.cells : v.cells[i] # Raw <=> i <= v.end
     /\ \A p \in Position, a \in Arguments :
          LET x == ReadCell(v.cells, a)
          IN /\ Elements(InsertOne(v, p, a)) = With(s, p, <<x>>)
             /\ Elements(InsertFill(v, p, 2, a)) = With(s, p, <<x, x>>)
             /\ \A n \in 0..MaxCapacity :
                  Elements(Resize(v, n, a)) =
                    [i \in 1..n |-> IF i <= Len(s) THEN s[i] ELSE x]
     /\ \A p \in Position, from \in Slice :
          Elements(InsertSome(v, p, from)) = With(s, p, from) /\ Elements(AssignCells(v, from)) = from
     /\ \A first \in Position : \A last \in first..v.end + 1 :
          Elements(EraseCells(v, first, last)) =
            SubSeq(s, 1, first - 1) \o SubSeq(s, last, Len(s))
     /\ \A n \in 0..MaxCapacity : Elements(Reserve(v, n)) = s
=============================================================================
