---------------------------------- MODULE Cells ----------------------------------
(***************************************************************************)
(* dmVector.h: what the operations of a growing array do to its memory. A  *)
(* vector is its cells, from _M_Begin to _M_Last, and end, which is        *)
(* _M_End - _M_Begin; the cells behind end are raw memory until an element *)
(* is constructed in them. The value to insert may be a reference to an    *)
(* element of the vector itself, which the insertion moves.                *)
(***************************************************************************)
EXTENDS Naturals, Sequences, SequencesExt

CONSTANTS
  Value,
  Raw           \* what a cell without an element holds

NoCells == [cells |-> <<>>, end |-> 0]

Capacity(w) == Len(w.cells)
Elements(w) == SubSeq(w.cells, 1, w.end)
Allocated(n) == [i \in 1..n |-> Raw]

(* Copies into the cells from position p on.                                *)
Copied(cells, from, p) ==
  [i \in DOMAIN cells |-> IF i - p + 1 \in 1..Len(from) THEN from[i - p + 1] ELSE cells[i]]

(* Elements go to new memory, then the old one is released.                 *)
Moved(elements, n) == [cells |-> Copied(Allocated(n), elements, 1), end |-> Len(elements)]

GrownTo(w, fill) == Capacity(w) + IF Capacity(w) > fill THEN Capacity(w) ELSE fill
InsertOverflow(w, p, from) ==
  Moved(SubSeq(w.cells, 1, p - 1) \o from \o SubSeq(w.cells, p, w.end), GrownTo(w, Len(from)))

(* What the argument refers to when it is read: a value of the caller, or   *)
(* the element of the vector at an index.                                   *)
Argument(max) == [own : {FALSE}, value : Value] \cup [own : {TRUE}, index : 1..max]
ReadCell(cells, a) == IF a.own THEN cells[a.index] ELSE a.value
Readable(w, a) == a.own => a.index <= w.end

(* In place: the last element is constructed again behind itself, the value *)
(* is read before the others move up.                                       *)
InsertOne_ReadsLate(w, p, a) ==
  IF w.end = Capacity(w) THEN InsertOverflow(w, p, <<ReadCell(w.cells, a)>>)
  ELSE LET up == Copied(w.cells, SubSeq(w.cells, p, w.end), p + 1)
       IN [cells |-> Copied(up, <<ReadCell(up, a)>>, p), end |-> w.end + 1]
InsertOne(w, p, a) ==
  IF w.end = Capacity(w) THEN InsertOverflow(w, p, <<ReadCell(w.cells, a)>>)
  ELSE LET up == Copied(w.cells, SubSeq(w.cells, p, w.end), p + 1)
       IN [cells |-> Copied(up, <<ReadCell(w.cells, a)>>, p), end |-> w.end + 1]

(* Insert of a range, and of n copies: in place only at the end.            *)
InsertSome(w, p, from) ==
  IF Capacity(w) > w.end + Len(from) /\ p = w.end + 1
  THEN [cells |-> Copied(w.cells, from, p), end |-> w.end + Len(from)]
  ELSE InsertOverflow(w, p, from)
InsertFill(w, p, n, a) ==
  IF n = 0 THEN w ELSE InsertSome(w, p, [i \in 1..n |-> ReadCell(w.cells, a)])

(* The elements behind move down; what is left at the end is destroyed.     *)
EraseCells(w, first, last) ==
  LET end == w.end - (last - first)
      down == Copied(w.cells, SubSeq(w.cells, last, w.end), first)
  IN [cells |-> Copied(down, Allocated(last - first), end + 1), end |-> end]

Resize(w, n, a) ==
  IF n < w.end THEN EraseCells(w, n + 1, w.end + 1) ELSE InsertFill(w, w.end + 1, n - w.end, a)

Reserve(w, n) == IF Capacity(w) < n THEN Moved(Elements(w), n) ELSE w

AssignCells(w, from) ==
  IF Len(from) > Capacity(w) THEN Moved(from, Len(from))
  ELSE [cells |-> Copied(Copied(w.cells, Allocated(w.end), 1), from, 1), end |-> Len(from)]

(* A sequence with another put in before a place.                           *)
With(s, p, from) == SubSeq(s, 1, p - 1) \o from \o SubSeq(s, p, Len(s))
=================================================================================
