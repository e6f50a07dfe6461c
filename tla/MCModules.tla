------------------------------- MODULE MCModules -------------------------------
(***************************************************************************)
(* The runtime with its modules and factories, and, apart from it, the     *)
(* registry that one program leaves to the next.                           *)
(***************************************************************************)
EXTENDS Runtime, Registry

CONSTANT Parts

VARIABLE part

registry == <<manager, file, was, own, state>>

(* A library with two classes, and a module that is linked in with one.     *)
LibraryAndStatic == [m \in Module |-> IF m \in Native THEN <<1, 2>> ELSE <<3>>]

(* Names with a comma, and names that are what is before it.                *)
CommaContracts == {<<"k">>, <<"k", "x">>}
CommaLocations == {<<"m", "n">>}
CommaEntries == {<< <<"t">>, <<"n">> >>, << <<"t">>, <<"n", "y">> >>}
PlainValues == {<<"v">>}

MCInit == part \in Parts /\ Init /\ RegistryInit

MCNext ==
  /\ UNCHANGED part
  /\ \/ part = "runtime" /\ Next /\ UNCHANGED registry
     \/ part = "registry" /\ RegistryNext /\ UNCHANGED <<w, runtime>>

MCSpec == MCInit /\ [][MCNext]_<<w, runtime, registry, part>>
=============================================================================
