------------------------------- MODULE MCObjects -------------------------------
(***************************************************************************)
(* Objects, the interfaces of objects, and the enumerators over them. The  *)
(* three share no state: a behaviour is one of Objects, of Interfaces or   *)
(* of Enumerators, and the other two stand still.                          *)
(***************************************************************************)
EXTENDS Objects, Interfaces, Enumerators, TLC

VARIABLE part

(* Addresses and variables of Objects are interchangeable.                  *)
Symmetry == Permutations(Object) \cup Permutations(Slot)

MCInit ==
  /\ part \in {"objects", "interfaces", "enumerators"}
  /\ Init /\ InterfacesInit /\ EnumeratorsInit
  /\ part # "enumerators" => mValue = [p \in Part |-> NoValue]

MCNext ==
  \/ part = "objects" /\ Next /\ UNCHANGED <<interfaces, enumerators, part>>
  \/ part = "interfaces" /\ InterfacesNext /\ UNCHANGED <<vars, enumerators, part>>
  \/ part = "enumerators" /\ EnumeratorsNext /\ UNCHANGED <<vars, interfaces, part>>

MCSpec == MCInit /\ [][MCNext]_<<vars, interfaces, enumerators, part>>
=============================================================================
