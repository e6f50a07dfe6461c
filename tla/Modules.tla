--------------------------------- MODULE Modules ---------------------------------
(***************************************************************************)
(* Modules and their factories: the loaders of libraries and of modules    *)
(* that are linked in (cciNativeModuleLoader.cpp, cciStaticModuleLoader    *)
(* .cpp), the generic module and the generic factory (cciGenericFactory    *)
(* .cpp), and what the component manager does to them when it creates,     *)
(* registers, unregisters and shuts down, one call at a time.              *)
(*                                                                         *)
(* A generic factory points into the tables of the module it is for, and a *)
(* variable of the module (mClassInfoGlobal) points to it. The operators   *)
(* map the memory of the process before a call to that after it.           *)
(***************************************************************************)
EXTENDS Naturals, FiniteSets, FiniteSetsExt, Sequences, SequencesExt

CONSTANTS
  Module,
  Native,       \* the modules that are libraries, with a glue of their own
  Components,   \* the table of each module: a sequence of classes
  Bare,         \* the classes without a constructor
  Eager,        \* those with EAGER_CLASSINFO
  Factory,      \* addresses
  Null

Class == UNION {Range(Components[m]) : m \in Module}
Home(c) == CHOOSE m \in Module : c \in Range(Components[m])

(* A class is in the table of one module.                                   *)
ASSUME ModulesAssumption ==
  /\ IsFiniteSet(Module) /\ IsFiniteSet(Factory)
  /\ Null \notin Factory /\ Null \notin Class
  /\ \A m \in Module : Components[m] \in Seq(Class)
  /\ \A m, n \in Module : Range(Components[m]) \cap Range(Components[n]) # {} => m = n

VARIABLE w

NoFactories == [f \in Factory |-> 0]
Nothing ==
  [class |-> [f \in Factory |-> Null],     \* what a factory is for, Null if it is not there
   refs |-> NoFactories,
   info |-> [c \in Class |-> Null],        \* mClassInfoGlobal
   known |-> [c \in Class |-> "no"],       \* the entries of the manager: no, direct, located
   made |-> [c \in Class |-> Null],        \* their mFactory
   loaded |-> {},                          \* the modules the loaders hold
   ready |-> {},                           \* mInitialized
   nodes |-> [m \in Module |-> <<>>],      \* mFactoriesNotToBeRegistered
   held |-> {},                            \* the factories the client holds
   lost |-> {},                            \* those a pointer was overwritten to
   late |-> {}]                            \* those destroyed when their library was away

-----------------------------------------------------------------------------
(* cciGenericFactory.                                                       *)
Unused(x) == {f \in Factory : x.class[f] = Null}
NextUnused(x) == CHOOSE f \in Unused(x) : TRUE

(* SetComponentInfo, called once, points the variable of the module to it.  *)
CCI_NewGenericFactory(x, c) ==
  LET f == NextUnused(x) IN [x EXCEPT !.class[f] = c, !.refs[f] = 1, !.info[c] = f]

(* The library of a module is there as long as its loader holds it.         *)
Mapped(x, m) == m \in Native => m \in x.loaded

Destroyed_KeepsInfo(x, f) ==
  LET c == x.class[f]
  IN [x EXCEPT !.class[f] = Null, !.refs[f] = 0,
               !.late = IF Mapped(x, Home(c)) THEN @ ELSE @ \cup {f}]
Destroyed(x, f) ==
  LET c == x.class[f]
  IN [x EXCEPT !.class[f] = Null, !.refs[f] = 0, !.info[c] = Null,
               !.late = IF Mapped(x, Home(c)) THEN @ ELSE @ \cup {f}]
Release(x, f) ==
  IF f = Null THEN x
  ELSE IF x.refs[f] > 1 THEN [x EXCEPT !.refs[f] = @ - 1] ELSE Destroyed(x, f)

-----------------------------------------------------------------------------
(* Registration in the component manager.                                   *)
RegisterFactory(x, c, f) ==
  Release([x EXCEPT !.known[c] = IF @ = "no" THEN "direct" ELSE @,
                    !.made[c] = f, !.refs[f] = @ + 1], x.made[c])
RegisterFactoryLocation(x, c) == [x EXCEPT !.known[c] = IF @ = "no" THEN "located" ELSE @]
UnregisterFactory(x, c) == Release([x EXCEPT !.known[c] = "no", !.made[c] = Null], x.made[c])

-----------------------------------------------------------------------------
(* cciGenericModule. A call may fail: the library or its entry point, the   *)
(* module's own constructor, the memory for a factory that is made early    *)
(* (fail = <<"new", c>>) or keeping it (<<"keep", c>>), or the factory that *)
(* is asked for.                                                            *)
Early(m) == Range(Components[m]) \cap (Bare \cup Eager)
Fault(m) ==
  {<<"none">>, <<"load">>, <<"ctor">>, <<"object">>} \cup ({"new", "keep"} \X Early(m))
Done(x) == [ok |-> TRUE, x |-> x]
Failed(x) == [ok |-> FALSE, x |-> x]

AddFactoryNode(x, f) == [x EXCEPT !.nodes[Home(x.class[f])] = <<f>> \o @, !.refs[f] = @ + 1]

(* A factory that has a constructor is registered even if that fails: only  *)
(* its contract id is missing then.                                         *)
Eagerly(done, c, fail) ==
  LET made == CCI_NewGenericFactory(done.x, c)
      f == NextUnused(done.x)
      kept == IF c \notin Bare THEN RegisterFactory(made, c, f)
              ELSE IF fail = <<"keep", c>> THEN made ELSE AddFactoryNode(made, f)
  IN IF ~done.ok \/ c \notin Early(Home(c)) THEN done
     ELSE IF fail = <<"new", c>> THEN Failed(done.x)
     ELSE [ok |-> fail # <<"keep", c>>, x |-> Release(kept, f)]

Initialize(x, m, fail) ==
  LET all == FoldLeft(LAMBDA done, c : Eagerly(done, c, fail), Done(x), Components[m])
  IN IF m \in x.ready THEN Done(x)
     ELSE IF fail = <<"ctor">> THEN Failed(x)
     ELSE IF all.ok THEN Done([all.x EXCEPT !.ready = @ \cup {m}]) ELSE all

(* Its destructor: Shutdown.                                                *)
Shutdown(x, m) ==
  LET freed == FoldLeft(Release, x, x.nodes[m])
  IN [freed EXCEPT !.nodes[m] = <<>>, !.ready = @ \ {m}]

(* The answer is a new factory, which the caller owns.                      *)
GetClassObject(x, c, fail) ==
  LET ready == Initialize(x, Home(c), fail)
  IN IF ~ready.ok THEN ready
     ELSE IF fail = <<"object">> THEN Failed(ready.x)
     ELSE Done(CCI_NewGenericFactory(ready.x, c))

-----------------------------------------------------------------------------
LoadModule(x, m, fail) ==
  IF m \in x.loaded THEN Done(x)
  ELSE IF fail = <<"load">> THEN Failed(x)
  ELSE Done([x EXCEPT !.loaded = @ \cup {m}])

(* UnloadModuleEntry: the module, then its library, whose variables go with *)
(* it. A module that is linked in keeps them.                               *)
Unloaded(x, m) ==
  LET down == Shutdown(x, m)
  IN [down EXCEPT !.loaded = @ \ {m},
                  !.info = [c \in Class |-> IF m \in Native /\ Home(c) = m THEN Null ELSE @[c]]]

(* cciFactoryEntry::GetFactory gives the module the address of mFactory,    *)
(* and whatever the module has registered there is overwritten.             *)
GetFactory(x, c, fail) ==
  LET module == LoadModule(x, Home(c), fail)
      object == GetClassObject(module.x, c, fail)
  IN IF x.made[c] # Null THEN Done(x)
     ELSE IF x.known[c] # "located" \/ ~module.ok THEN Failed(module.x)
     ELSE IF ~object.ok THEN object
     ELSE Done([object.x EXCEPT !.lost = @ \cup ({object.x.made[c]} \ {Null}), !.made[c] = object.x.info[c]])

RegisterSelf(x, m) ==
  FoldLeft(LAMBDA y, c : IF c \in Bare THEN y ELSE RegisterFactoryLocation(y, c), x, Components[m])
UnregisterSelf(x, m) == FoldLeft(UnregisterFactory, x, Components[m])

-----------------------------------------------------------------------------
(* cciComponentManagerImpl::Init and Shutdown, and the end of CCI_Shutdown, *)
(* where the allocator destroys what is left.                               *)
Started ==
  FoldSet(LAMBDA m, x : RegisterSelf(x, m), Nothing, Module \ Native)

Stopped_UnloadsFirst(x) ==
  LET unloaded == FoldSet(LAMBDA m, y : Unloaded(y, m), x, x.loaded)
      entries == FoldSet(LAMBDA c, y : UnregisterFactory(y, c), unloaded, Class)
  IN FoldSet(LAMBDA f, y : Destroyed(y, f), entries, Factory \ Unused(entries))
Stopped(x) ==
  LET entries == FoldSet(LAMBDA c, y : UnregisterFactory(y, c), x, Class)
      unloaded == FoldSet(LAMBDA m, y : Unloaded(y, m), entries, x.loaded)
  IN FoldSet(LAMBDA f, y : Destroyed(y, f), unloaded, Factory \ Unused(unloaded))

-----------------------------------------------------------------------------
(* What a client does. The bound on Factory leaves room for a module's own. *)
Room(c) == Cardinality(Unused(w)) > Len(Components[Home(c)])

AutoRegister(m) ==
  \E fail \in {<<"none">>, <<"load">>} :
    LET module == LoadModule(w, m, fail)
    IN m \in Native /\ w' = IF module.ok THEN RegisterSelf(module.x, m) ELSE module.x
AutoUnregister(m) ==
  \E fail \in {<<"none">>, <<"load">>} :
    LET module == LoadModule(w, m, fail)
    IN m \in Native /\ w' = IF module.ok THEN UnregisterSelf(module.x, m) ELSE module.x

(* GetClassObject; CreateInstance does the same and holds nothing after it. *)
ClassObject(c) ==
  \E fail \in Fault(Home(c)), hold \in BOOLEAN :
    LET got == GetFactory(w, c, fail)
        f == got.x.made[c]
    IN /\ Room(c)
       /\ w' = IF got.ok /\ hold /\ f \notin w.held
               THEN [got.x EXCEPT !.held = @ \cup {f}, !.refs[f] = @ + 1] ELSE got.x

(* A client registers a factory it has made (CCI_RegisterFactoryComponents  *)
(* does for a table of them), or unregisters a class.                       *)
RegisterMade(c) ==
  /\ Room(c) /\ Mapped(w, Home(c)) /\ c \notin Bare
  /\ LET f == NextUnused(w) IN w' = Release(RegisterFactory(CCI_NewGenericFactory(w, c), c, f), f)
Unregister(c) == w.known[c] # "no" /\ w' = UnregisterFactory(w, c)

GiveBack(f) == f \in w.held /\ w' = Release([w EXCEPT !.held = @ \ {f}], f)

Call ==
  \/ \E m \in Module : AutoRegister(m) \/ AutoUnregister(m)
  \/ \E c \in Class : ClassObject(c) \/ RegisterMade(c) \/ Unregister(c)
  \/ \E f \in Factory : GiveBack(f)
-----------------------------------------------------------------------------
(* Every reference is somebody's, a class info is a factory of its class,   *)
(* and a factory is destroyed before the library it points into goes: the   *)
(* entries before the modules, the modules before their libraries. (But for *)
(* the factories that GetFactory overwrites: see FactoriesGoFirst.)         *)
LibrariesGoLast ==
  /\ w.late \subseteq w.lost
  /\ \A c \in Class : w.info[c] # Null => w.class[w.info[c]] = c
  /\ \A f \in Factory :
       w.refs[f] = Cardinality({c \in Class : w.made[c] = f})
                   + Cardinality({m \in Module : f \in Range(w.nodes[m])})
                   + Cardinality({f} \cap w.held) + Cardinality({f} \cap (w.lost \ Unused(w)))

(* "Clear factory entries: Factory destructor (if any) will be called here",*)
(* and then "Unload libraries".                                             *)
FactoriesGoFirst == w.late = {}
=============================================================================
