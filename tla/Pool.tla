---------------------------------- MODULE Pool ----------------------------------
(***************************************************************************)
(* dmMemoryManager (dmFastMemory.h, dmFastMemory.cpp): cells of one size,  *)
(* cut from chunks and kept in a list of free cells. Every call holds the  *)
(* lock from beginning to end. The pools of the strings give all chunks    *)
(* back when the last cell is free; those of dmFastAllocator keep them.    *)
(***************************************************************************)
EXTENDS Naturals, Sequences, SequencesExt, FiniteSets

CONSTANTS
  MaxBlocks,    \* bound on the chunks
  MaxCells      \* bound on the cells of a chunk

VARIABLES
  chunks,       \* how many cells each chunk has
  freeStore,    \* the list of free cells: a cell is a chunk and an index
  count,        \* how many cells are in use
  used,         \* which: the callers know
  release_when_unused

pool == <<chunks, freeStore, count, used, release_when_unused>>

PoolInit ==
  /\ chunks = <<>> /\ freeStore = <<>> /\ count = 0 /\ used = {}
  /\ release_when_unused \in BOOLEAN

CellsOf(b, n) == [i \in 1..n |-> <<b, i>>]

Allocate(_count) ==
  LET more == freeStore = <<>>
      free == IF more THEN CellsOf(Len(chunks) + 1, _count) ELSE freeStore
  IN /\ more => Len(chunks) < MaxBlocks
     /\ chunks' = IF more THEN Append(chunks, _count) ELSE chunks
     /\ freeStore' = Tail(free) /\ used' = used \cup {Head(free)}
     /\ count' = count + 1 /\ UNCHANGED release_when_unused

(* Free(p); at zero, Free(): every chunk goes.                              *)
GivesBack_Early(n) == release_when_unused /\ n <= 1
GivesBack(n) == release_when_unused /\ n = 0
FreeCell(p) ==
  /\ count' = count - 1 /\ used' = used \ {p} /\ UNCHANGED release_when_unused
  /\ IF GivesBack(count - 1) THEN chunks' = <<>> /\ freeStore' = <<>>
     ELSE chunks' = chunks /\ freeStore' = <<p>> \o freeStore

(* The destructor: nothing is given back under cells in use.                *)
PoolDestroyed ==
  /\ IF count = 0 THEN chunks' = <<>> /\ freeStore' = <<>> ELSE UNCHANGED <<chunks, freeStore>>
  /\ UNCHANGED <<count, used, release_when_unused>>

PoolNext ==
  \/ \E n \in 1..MaxCells : Allocate(n)
  \/ \E p \in used : FreeCell(p)
  \/ PoolDestroyed

PoolSpec == PoolInit /\ [][PoolNext]_pool
-----------------------------------------------------------------------------
(* A cell is in use, or once in the list of free cells, as long as its      *)
(* chunk is there; a chunk that is gone had no cell in use; and once all    *)
(* is freed a pool that gives back has nothing left.                        *)
CellsAreSomewhere ==
  LET all == UNION {Range(CellsOf(b, chunks[b])) : b \in DOMAIN chunks}
  IN /\ all = used \cup Range(freeStore) /\ used \cap Range(freeStore) = {}
     /\ IsInjective(freeStore) /\ count = Cardinality(used)
     /\ release_when_unused /\ used = {} => chunks = <<>>
=============================================================================
