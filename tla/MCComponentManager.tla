-------------------------- MODULE MCComponentManager --------------------------
(* Instances of ComponentManager: who calls what, and which component needs *)
(* which service.                                                           *)
EXTENDS ComponentManager

CONSTANTS cat, a, main

(* The constructor of component a asks for the category manager.            *)
MCNeeds == [c \in CID |-> IF c = a THEN cat ELSE NoCID]

(* The main thread registers, the two others use the components.            *)
Clients == [t \in Thread |->
  IF t = main THEN {"RegisterFactory", "RegisterFactoryLocation"}
              ELSE {"CreateInstance", "GetService"}]

(* A registrar that also unregisters, and a client of services.             *)
Unregistering == [t \in Thread |->
  IF t = main THEN WriteCall ELSE {"GetService", "GetClassObject"}]
=============================================================================
