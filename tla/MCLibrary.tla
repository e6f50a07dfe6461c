------------------------------- MODULE MCLibrary -------------------------------
(***************************************************************************)
(* The utility library: hash table, vector, strings, lists, pools, dates   *)
(* and streams. They share no state: a behaviour is one of one of them,    *)
(* and the others stand still.                                             *)
(***************************************************************************)
EXTENDS HashTable, Vector, Strings, Lists, Pool, Dates, Streams, TLC

CONSTANTS
  Parts                                               \* which of them

VARIABLES
  part

lists == <<ln_Succ, ln_Pred>>
dates == <<ndays, nsecs, firstDay>>

(* The list of primes of the table begins with 53 in the code.              *)
Primes == <<2, 3, 5>>

(* The strings of the client differ in their names only.                    *)
StringNames == Permutations(String)

MCInit ==
  /\ part \in Parts
  /\ Init /\ VectorInit /\ PoolInit /\ StreamsInit /\ StringsInit /\ ListsInit /\ DatesInit
  /\ part # "pool" => ~release_when_unused
  /\ part # "dates" => \A d \in FirstDays : firstDay <= d

MCNext ==
  /\ UNCHANGED part
  /\ \/ part = "table" /\ Next /\ UNCHANGED <<v, heap, lists, pool, dates, streams>>
     \/ part = "vector" /\ VectorNext /\ UNCHANGED <<vars, heap, lists, pool, dates, streams>>
     \/ part = "strings" /\ StringsNext /\ UNCHANGED <<vars, v, lists, pool, dates, streams>>
     \/ part = "lists" /\ ListsNext /\ UNCHANGED <<vars, v, heap, pool, dates, streams>>
     \/ part = "dates" /\ DatesNext /\ UNCHANGED <<vars, v, heap, lists, pool, streams>>
     \/ part = "pool" /\ PoolNext /\ UNCHANGED <<vars, v, heap, lists, dates, streams>>
     \/ part = "streams" /\ StreamsNext /\ UNCHANGED <<vars, v, heap, lists, pool, dates>>

MCSpec == MCInit /\ [][MCNext]_<<vars, v, heap, lists, pool, dates, streams, part>>
=============================================================================
