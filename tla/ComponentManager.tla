--------------------------- MODULE ComponentManager ---------------------------
(***************************************************************************)
(* The component manager of cci/components/cciComponentManager.cpp and its *)
(* start and stop in cciCOMInit.cpp: two tables of factory entries, a      *)
(* read/write lock (mLock) taken by the registrar and by CreateInstance, a *)
(* recursive mutex (mMutex) taken by GetService and GetClassObject, and a  *)
(* shutdown flag.                                                          *)
(*                                                                         *)
(* The entries are raw pointers shared by the two tables and by the calls  *)
(* in progress, so an entry is an address of a heap: what a call does that *)
(* uses an address whose entry has been deleted is undefined (Undefined).  *)
(***************************************************************************)
EXTENDS Naturals, Sequences, FiniteSets

CONSTANTS
  Thread,        \* the threads of the program
  Main,          \* the one that calls CCI_Init and CCI_Shutdown
  CID,           \* class identifiers
  ContractID,    \* non-empty contract identifiers
  Factory,       \* factory objects
  Entry,         \* addresses an entry may be allocated at
  CatCID, CatContract, CatFactory, \* what CCI_Init registers
  Needs,         \* the class whose service a constructor asks for, if any
  MayCall,       \* the operations each thread calls
  NoThread, NoEntry, NoFactory, NoCID,
  NullID, EmptyID  \* the contract id arguments dm_null and ""

ReadCall  == {"CreateInstance", "GetService", "GetClassObject"}
WriteCall == {"RegisterFactory", "RegisterFactoryLocation", "UnregisterFactory"}

ASSUME ConstantsAssumption ==
  /\ Main \in Thread /\ NoThread \notin Thread
  /\ NoEntry \notin Entry /\ NoFactory \notin Factory
  /\ NoCID \notin CID /\ CID \cap ContractID = {}
  /\ {NullID, EmptyID} \cap ContractID = {} /\ NullID # EmptyID
  /\ CatCID \in CID /\ CatContract \in ContractID /\ CatFactory \in Factory
  /\ Needs \in [CID -> CID \cup {NoCID}]
  /\ MayCall \in [Thread -> SUBSET (ReadCall \cup WriteCall)]

(* No component needs itself, through others or directly: such a constructor *)
(* would call itself until the stack ends.                                  *)
ASSUME NeedsAcyclic ==
  \E rank \in [CID -> 1..Cardinality(CID)] :
    \A c \in CID : Needs[c] # NoCID => rank[Needs[c]] < rank[c]

VARIABLES
  mFactories,        \* class id -> entry
  mContractIds,      \* contract id -> entry
  heap,              \* the entries at their addresses
  lock,              \* mLock: its writer and where the writer is
  mMutex,            \* mMutex: owner and recursion depth
  stack,             \* per thread, the calls in progress, innermost last
  gComponentManager, \* is there a manager
  gCCIShuttingDown,  \* the flag of cciCOMInit.cpp
  exit               \* where CCI_Shutdown is, and what its loop has left

vars == <<mFactories, mContractIds, heap, lock, mMutex, stack,
          gComponentManager, gCCIShuttingDown, exit>>

Pointer == Entry \cup {NoEntry}
MaybeFactory == Factory \cup {NoFactory}

(* cciFactoryEntry. "located" tells the {CID, dll} entries, whose factory   *)
(* a module loader supplies, from the {CID, factory} ones. A service object *)
(* is known by the factory that made it; "made" counts the objects made to  *)
(* be the service of this entry.                                            *)
FactoryEntry == [live : BOOLEAN, mCID : CID, located : BOOLEAN,
                 mFactory : MaybeFactory, mServiceObject : MaybeFactory,
                 made : Nat]

(* A CreateInstance, GetService or GetClassObject in progress.              *)
ReadPc == {"lookup", "service", "factory", "load", "loading", "loaded",
           "take", "construct", "nested", "store"}
Frame == {fr \in [op : ReadCall, key : CID \cup ContractID, pc : ReadPc,
                  e : Pointer, f : MaybeFactory] :
            fr.pc # "lookup" => fr.e \in Entry}

(* The critical section of mLock's writer.                                  *)
Unlocked == [owner |-> NoThread, pc |-> "free", e |-> NoEntry, id |-> NullID]
WriteSection == [owner : Thread \cup {NoThread},
                 pc : {"free", "hash", "erase", "delete"},
                 e : Pointer, id : ContractID \cup {NullID, EmptyID}]

ExitPc == {"down", "up", "free", "delete"}

TypeOK ==
  /\ mFactories \in [CID -> Pointer]
  /\ mContractIds \in [ContractID -> Pointer]
  /\ heap \in [Entry -> FactoryEntry]
  /\ lock \in WriteSection
  /\ mMutex \in [owner : Thread \cup {NoThread}, depth : Nat]
  /\ stack \in [Thread -> Seq(Frame)]
  /\ gComponentManager \in BOOLEAN
  /\ gCCIShuttingDown \in BOOLEAN
  /\ exit \in [pc : ExitPc, todo : SUBSET CID]

-----------------------------------------------------------------------------
NewEntry(c, f) == [live |-> TRUE, mCID |-> c, located |-> (f = NoFactory),
                   mFactory |-> f, mServiceObject |-> NoFactory, made |-> 0]

(* A deleted entry, still recognised as the one of class c.                 *)
Deleted(c) == [live |-> FALSE, mCID |-> c, located |-> FALSE,
               mFactory |-> NoFactory, mServiceObject |-> NoFactory, made |-> 0]

Init ==
  /\ mFactories = [c \in CID |-> NoEntry]
  /\ mContractIds = [k \in ContractID |-> NoEntry]
  /\ heap = [e \in Entry |-> Deleted(CatCID)]
  /\ lock = Unlocked
  /\ mMutex = [owner |-> NoThread, depth |-> 0]
  /\ stack = [t \in Thread |-> <<>>]
  /\ gComponentManager = FALSE
  /\ gCCIShuttingDown = TRUE
  /\ exit = [pc |-> "down", todo |-> {}]

Top(t) == stack[t][Len(stack[t])]
Idle(t) == stack[t] = <<>>

(* An address no call in progress still holds. Memory is reused in reality  *)
(* even when one does: here such a call keeps seeing a deleted entry.       *)
Held(e) == \E t \in Thread : \E i \in DOMAIN stack[t] : stack[t][i].e = e
Allocatable(e) == ~heap[e].live /\ ~Held(e)

(***************************************************************************)
(* Calls in progress.                                                      *)
(***************************************************************************)
Mutexed(op) == op \in {"GetService", "GetClassObject"}

(* Faulty variant: no critical section at all.                              *)
MutexFree_Unguarded(t) == t \in Thread

(* dmCRITICAL_SECTION(mMutex): the mutex is recursive.                      *)
MutexFree(t) == mMutex.owner \in {t, NoThread}
Acquired(t) == [owner |-> t, depth |-> mMutex.depth + 1]
Released == [owner |-> IF mMutex.depth = 1 THEN NoThread ELSE mMutex.owner,
             depth |-> mMutex.depth - 1]

(* Faulty variant: the shutdown flag is not tested.                         *)
Refused_Never(op) == op \notin ReadCall

(* GetClassObject has no such test.                                         *)
Refused(op) == gCCIShuttingDown /\ op # "GetClassObject"

NewFrame(op, key) == [op |-> op, key |-> key, pc |-> "lookup", e |-> NoEntry,
                      f |-> NoFactory]

Pop(s) == SubSeq(s, 1, Len(s) - 1)
SetTop(s, fr) == [s EXCEPT ![Len(s)] = fr]

(* Faulty variant: every call leaves the critical section.                  *)
Return_Unlocks(t) ==
  /\ stack' = [stack EXCEPT ![t] = Pop(@)]
  /\ mMutex' = Released

(* The innermost call of t goes on at pc; it returns.                       *)
Goto(t, pc) == stack' = [stack EXCEPT ![t] = SetTop(@, [Top(t) EXCEPT !.pc = pc])]
GotoWith(t, pc, f) ==
  stack' = [stack EXCEPT ![t] = SetTop(@, [Top(t) EXCEPT !.pc = pc, !.f = f])]
Return(t) ==
  /\ stack' = [stack EXCEPT ![t] = Pop(@)]
  /\ mMutex' = IF Mutexed(Top(t).op) THEN Released ELSE mMutex

(* t is where the destructor of a service object or a factory runs: in      *)
(* delete entry of UnregisterFactory, in FreeServices, in Shutdown.         *)
InDestructor(t) ==
  \/ lock.owner = t /\ lock.pc = "delete"
  \/ t = Main /\ exit.pc \in {"free", "delete"}

(* A client calls only while CCI is up; a destructor calls what does not    *)
(* take mLock, which its thread may hold.                                   *)
CanCall(t, op) ==
  /\ gComponentManager /\ Idle(t)
  /\ \/ op \in MayCall[t] /\ lock.owner # t /\ exit.pc = "up"
     \/ Mutexed(op) /\ InDestructor(t)

(* Entering CreateInstance, GetService, GetClassObject and their            *)
(* ByContractID variants. A refused call returns an error and changes       *)
(* nothing.                                                                 *)
BeginCall(t, op, key) ==
  /\ CanCall(t, op)
  /\ ~Refused(op)
  /\ Mutexed(op) => MutexFree(t)
  /\ stack' = [stack EXCEPT ![t] = Append(@, NewFrame(op, key))]
  /\ mMutex' = IF Mutexed(op) THEN Acquired(t) ELSE mMutex
  /\ UNCHANGED <<mFactories, mContractIds, heap, lock, gComponentManager,
                 gCCIShuttingDown, exit>>

At(t, pc) == ~Idle(t) /\ Top(t).pc = pc

(* A step that follows the call's entry pointer.                            *)
Using(t, pc) == At(t, pc) /\ heap[Top(t).e].live

FindEntry(key) == IF key \in CID THEN mFactories[key] ELSE mContractIds[key]

(* GetFactoryEntry, under mLock for CreateInstance and under mMutex alone   *)
(* for the two others. The lock is released before the entry is used.       *)
LookUp(t) ==
  LET found == FindEntry(Top(t).key) IN
  /\ At(t, "lookup")
  /\ Top(t).op = "CreateInstance" => lock.owner = NoThread
  /\ IF found = NoEntry
       THEN Return(t)
       ELSE /\ stack' = [stack EXCEPT ![t] = SetTop(@,
                 [Top(t) EXCEPT !.e = found,
                    !.pc = IF Top(t).op = "GetService" THEN "service"
                                                        ELSE "factory"])]
            /\ UNCHANGED mMutex
  /\ UNCHANGED <<mFactories, mContractIds, heap, lock, gComponentManager,
                 gCCIShuttingDown, exit>>

(* Faulty variant: the service object is made anew by every call.           *)
TestService_Always(t) ==
  /\ Using(t, "service")
  /\ Goto(t, "factory")
  /\ UNCHANGED <<mFactories, mContractIds, heap, lock, mMutex,
                 gComponentManager, gCCIShuttingDown, exit>>

(* cciFactoryEntry::GetService: the service object if there is one.         *)
TestService(t) ==
  /\ Using(t, "service")
  /\ IF heap[Top(t).e].mServiceObject # NoFactory
       THEN Return(t)
       ELSE Goto(t, "factory") /\ UNCHANGED mMutex
  /\ UNCHANGED <<mFactories, mContractIds, heap, lock, gComponentManager,
                 gCCIShuttingDown, exit>>

(* GetFactory: if(!mFactory), load the module.                              *)
TestFactory(t) ==
  /\ Using(t, "factory")
  /\ Goto(t, IF heap[Top(t).e].mFactory # NoFactory THEN "take" ELSE "load")
  /\ UNCHANGED <<mFactories, mContractIds, heap, lock, mMutex,
                 gComponentManager, gCCIShuttingDown, exit>>

(* LoadModule fails, or getter_AddRefs(mFactory) clears the member for      *)
(* GetClassObject to fill.                                                  *)
Load(t) ==
  /\ Using(t, "load")
  /\ \/ Return(t) /\ UNCHANGED heap
     \/ /\ heap' = [heap EXCEPT ![Top(t).e].mFactory = NoFactory]
        /\ Goto(t, "loading") /\ UNCHANGED mMutex
  /\ UNCHANGED <<mFactories, mContractIds, lock, gComponentManager,
                 gCCIShuttingDown, exit>>

(* The module's GetClassObject fails, or stores a factory in the member.    *)
Loading(t) ==
  /\ Using(t, "loading")
  /\ \/ Return(t) /\ UNCHANGED heap
     \/ /\ \E f \in Factory : heap' = [heap EXCEPT ![Top(t).e].mFactory = f]
        /\ Goto(t, "loaded") /\ UNCHANGED mMutex
  /\ UNCHANGED <<mFactories, mContractIds, lock, gComponentManager,
                 gCCIShuttingDown, exit>>

(* The member read back: null is an error.                                  *)
Loaded(t) ==
  /\ Using(t, "loaded")
  /\ IF heap[Top(t).e].mFactory = NoFactory
       THEN Return(t)
       ELSE Goto(t, "take") /\ UNCHANGED mMutex
  /\ UNCHANGED <<mFactories, mContractIds, heap, lock, gComponentManager,
                 gCCIShuttingDown, exit>>

(* The member is read once more, and the factory there gets a reference:    *)
(* GetClassObject hands it out, the others call its CreateInstance.         *)
TakeFactory(t) ==
  LET f == heap[Top(t).e].mFactory IN
  /\ Using(t, "take") /\ f # NoFactory
  /\ IF Top(t).op = "GetClassObject"
       THEN Return(t)
       ELSE GotoWith(t, "construct", f) /\ UNCHANGED mMutex
  /\ UNCHANGED <<mFactories, mContractIds, heap, lock, gComponentManager,
                 gCCIShuttingDown, exit>>

Wants(t) == Needs[heap[Top(t).e].mCID]

(* The constructor asks for the service it needs. The factory is held: the  *)
(* entry is not used again before StoreService.                             *)
RequestNeeded(t) ==
  /\ At(t, "construct")
  /\ Wants(t) # NoCID /\ ~Refused("GetService") /\ MutexFree(t)
  /\ stack' = [stack EXCEPT ![t] =
       Append(SetTop(@, [Top(t) EXCEPT !.pc = "nested"]),
              NewFrame("GetService", Wants(t)))]
  /\ mMutex' = Acquired(t)
  /\ UNCHANGED <<mFactories, mContractIds, heap, lock, gComponentManager,
                 gCCIShuttingDown, exit>>

(* factory->CreateInstance fails, or gives the object CreateInstance        *)
(* returns and GetService keeps.                                            *)
Construct(t) ==
  /\ At(t, "nested") \/ (At(t, "construct") /\ Wants(t) = NoCID)
  /\ \/ Return(t)
     \/ Top(t).op = "GetService" /\ Goto(t, "store") /\ UNCHANGED mMutex
  /\ UNCHANGED <<mFactories, mContractIds, heap, lock, gComponentManager,
                 gCCIShuttingDown, exit>>

(* mServiceObject = service, replacing what is there.                       *)
StoreService(t) ==
  /\ Using(t, "store")
  /\ heap' = [heap EXCEPT ![Top(t).e].mServiceObject = Top(t).f,
                          ![Top(t).e].made = @ + 1]
  /\ Return(t)
  /\ UNCHANGED <<mFactories, mContractIds, lock, gComponentManager,
                 gCCIShuttingDown, exit>>

CallStep(t) == \/ LookUp(t) \/ TestService(t) \/ TestFactory(t) \/ Load(t)
               \/ Loading(t) \/ Loaded(t) \/ TakeFactory(t)
               \/ RequestNeeded(t) \/ Construct(t) \/ StoreService(t)

(* The innermost call of t is about to use an entry that has been deleted,  *)
(* or the factory another thread has just cleared away. Such a call comes   *)
(* back with anything, or never.                                            *)
UsesDeleted(t) ==
  /\ ~Idle(t) /\ Top(t).pc \notin {"lookup", "construct", "nested"}
  /\ ~heap[Top(t).e].live
UsesNull(t) == Using(t, "take") /\ heap[Top(t).e].mFactory = NoFactory
Undefined(t) ==
  /\ UsesDeleted(t) \/ UsesNull(t)
  /\ Return(t)
  /\ UNCHANGED <<mFactories, mContractIds, heap, lock, gComponentManager,
                 gCCIShuttingDown, exit>>

-----------------------------------------------------------------------------
(***************************************************************************)
(* The registrar, under dmWRITE_LOCK(mLock).                               *)
(***************************************************************************)
CanRegister(t, op) ==
  /\ gComponentManager /\ exit.pc = "up" /\ Idle(t)
  /\ op \in MayCall[t] /\ lock.owner = NoThread

Writing(t, pc) == lock.owner = t /\ lock.pc = pc
WriteAt(t, pc, e, id) == lock' = [owner |-> t, pc |-> pc, e |-> e, id |-> id]

AddFactoryEntry(e, c, f) ==
  /\ heap' = [heap EXCEPT ![e] = NewEntry(c, f)]
  /\ mFactories' = [mFactories EXCEPT ![c] = e]

(* RegisterFactory: a new entry, or the factory of the existing one         *)
(* replaced (its service object stays).                                     *)
RegisterFactory(t, c, id, f) ==
  /\ CanRegister(t, "RegisterFactory")
  /\ \/ /\ mFactories[c] = NoEntry
        /\ \E e \in Entry : /\ Allocatable(e)
                            /\ AddFactoryEntry(e, c, f)
                            /\ WriteAt(t, "hash", e, id)
     \/ /\ mFactories[c] # NoEntry
        /\ heap' = [heap EXCEPT ![mFactories[c]].mFactory = f]
        /\ WriteAt(t, "hash", mFactories[c], id)
        /\ UNCHANGED mFactories
  /\ UNCHANGED <<mContractIds, mMutex, stack, gComponentManager,
                 gCCIShuttingDown, exit>>

(* Faulty variant: the class table is not searched first.                   *)
RegisterFactoryLocation_Blind(t, c, id) ==
  /\ CanRegister(t, "RegisterFactoryLocation")
  /\ \E e \in Entry : /\ Allocatable(e)
                      /\ AddFactoryEntry(e, c, NoFactory)
                      /\ WriteAt(t, "hash", e, id)
  /\ UNCHANGED <<mContractIds, mMutex, stack, gComponentManager,
                 gCCIShuttingDown, exit>>

(* RegisterFactoryLocation: an existing entry keeps its location.           *)
RegisterFactoryLocation(t, c, id) ==
  /\ CanRegister(t, "RegisterFactoryLocation")
  /\ \/ /\ mFactories[c] = NoEntry
        /\ \E e \in Entry : /\ Allocatable(e)
                            /\ AddFactoryEntry(e, c, NoFactory)
                            /\ WriteAt(t, "hash", e, id)
     \/ /\ mFactories[c] # NoEntry
        /\ WriteAt(t, "hash", mFactories[c], id)
        /\ UNCHANGED <<heap, mFactories>>
  /\ UNCHANGED <<mContractIds, mMutex, stack, gComponentManager,
                 gCCIShuttingDown, exit>>

(* HashContractID, if there is a contract id: an empty one is refused, with *)
(* the entry already in place.                                              *)
HashContractID(t) ==
  /\ Writing(t, "hash")
  /\ mContractIds' = IF lock.id \in ContractID
                       THEN [mContractIds EXCEPT ![lock.id] = lock.e]
                       ELSE mContractIds
  /\ lock' = Unlocked
  /\ UNCHANGED <<mFactories, heap, mMutex, stack, gComponentManager,
                 gCCIShuttingDown, exit>>

(* UnregisterFactory and UnregisterFactoryLocation: the contract ids of the *)
(* entry go first, one by one, then the entry, which is then deleted. An    *)
(* unknown class is an error that changes nothing.                          *)
UnregisterFactory(t, c) ==
  /\ CanRegister(t, "UnregisterFactory")
  /\ mFactories[c] # NoEntry
  /\ WriteAt(t, "erase", mFactories[c], NullID)
  /\ UNCHANGED <<mFactories, mContractIds, heap, mMutex, stack,
                 gComponentManager, gCCIShuttingDown, exit>>

ContractsOf(e) == {k \in ContractID : mContractIds[k] = e}

EraseContractID(t, k) ==
  /\ Writing(t, "erase")
  /\ k \in ContractsOf(lock.e)
  /\ mContractIds' = [mContractIds EXCEPT ![k] = NoEntry]
  /\ UNCHANGED <<mFactories, heap, lock, mMutex, stack, gComponentManager,
                 gCCIShuttingDown, exit>>

(* Faulty variant: contract ids that map to the entry are left.             *)
RemoveFactoryEntry_Early(t) ==
  /\ Writing(t, "erase")
  /\ mFactories' = [mFactories EXCEPT ![heap[lock.e].mCID] = NoEntry]
  /\ lock' = [lock EXCEPT !.pc = "delete"]
  /\ UNCHANGED <<mContractIds, heap, mMutex, stack, gComponentManager,
                 gCCIShuttingDown, exit>>

RemoveFactoryEntry(t) ==
  /\ Writing(t, "erase")
  /\ ContractsOf(lock.e) = {}
  /\ mFactories' = [mFactories EXCEPT ![heap[lock.e].mCID] = NoEntry]
  /\ lock' = [lock EXCEPT !.pc = "delete"]
  /\ UNCHANGED <<mContractIds, heap, mMutex, stack, gComponentManager,
                 gCCIShuttingDown, exit>>

DeleteEntry(t) ==
  /\ Writing(t, "delete") /\ Idle(t)
  /\ heap' = [heap EXCEPT ![lock.e] = Deleted(@.mCID)]
  /\ lock' = Unlocked
  /\ UNCHANGED <<mFactories, mContractIds, mMutex, stack, gComponentManager,
                 gCCIShuttingDown, exit>>

RegistrarStep(t) == \/ HashContractID(t)
                    \/ \E k \in ContractID : EraseContractID(t, k)
                    \/ RemoveFactoryEntry(t)
                    \/ DeleteEntry(t)

-----------------------------------------------------------------------------
(***************************************************************************)
(* CCI_Init and CCI_Shutdown.                                              *)
(***************************************************************************)
Registered == {c \in CID : mFactories[c] # NoEntry}

(* A new manager, with the factory of the category manager.                 *)
CCI_Init ==
  /\ exit.pc = "down"
  /\ \E e \in Entry :
       /\ Allocatable(e)
       /\ heap' = [heap EXCEPT ![e] = NewEntry(CatCID, CatFactory)]
       /\ mFactories' = [c \in CID |-> IF c = CatCID THEN e ELSE NoEntry]
       /\ mContractIds' = [k \in ContractID |-> IF k = CatContract THEN e ELSE NoEntry]
  /\ gComponentManager' = TRUE
  /\ gCCIShuttingDown' = FALSE
  /\ exit' = [pc |-> "up", todo |-> {}]
  /\ UNCHANGED <<lock, mMutex, stack>>

(* Faulty variant: the flag stays down while the services are freed.        *)
CCI_Shutdown_FlagLate ==
  /\ exit.pc = "up"
  /\ \A t \in Thread : Idle(t)
  /\ lock.owner = NoThread
  /\ exit' = [pc |-> "free", todo |-> Registered]
  /\ UNCHANGED <<mFactories, mContractIds, heap, lock, mMutex, stack,
                 gComponentManager, gCCIShuttingDown>>

(* The manager is released to zero only if no call of another thread holds  *)
(* it, which CCI_Shutdown asserts: the clients have stopped. The flag is    *)
(* set first; FreeServices then goes through the entries.                   *)
CCI_Shutdown ==
  /\ exit.pc = "up"
  /\ \A t \in Thread : Idle(t)
  /\ lock.owner = NoThread
  /\ gCCIShuttingDown' = TRUE
  /\ exit' = [pc |-> "free", todo |-> Registered]
  /\ UNCHANGED <<mFactories, mContractIds, heap, lock, mMutex, stack,
                 gComponentManager>>

(* Faulty variant: the iterator is not advanced.                            *)
Visited_Stays(c) == exit' = [exit EXCEPT !.todo = @ \cup {c}]

(* Main is out of the destructor it ran last.                               *)
ExitAt(pc) == exit.pc = pc /\ Idle(Main)
Visited(c) == exit' = [exit EXCEPT !.todo = @ \ {c}]

FreeServices(c) ==
  /\ ExitAt("free") /\ c \in exit.todo
  /\ heap' = [heap EXCEPT ![mFactories[c]].mServiceObject = NoFactory]
  /\ Visited(c)
  /\ UNCHANGED <<mFactories, mContractIds, lock, mMutex, stack,
                 gComponentManager, gCCIShuttingDown>>

(* The last reference goes: the destructor runs Shutdown, which forgets the *)
(* contract ids and deletes the entries; the class table keeps their        *)
(* addresses until the end.                                                 *)
ReleaseManager ==
  /\ ExitAt("free") /\ exit.todo = {}
  /\ mContractIds' = [k \in ContractID |-> NoEntry]
  /\ exit' = [pc |-> "delete", todo |-> Registered]
  /\ UNCHANGED <<mFactories, heap, lock, mMutex, stack, gComponentManager,
                 gCCIShuttingDown>>

ShutdownEntry(c) ==
  /\ ExitAt("delete") /\ c \in exit.todo
  /\ heap' = [heap EXCEPT ![mFactories[c]] = Deleted(@.mCID)]
  /\ Visited(c)
  /\ UNCHANGED <<mFactories, mContractIds, lock, mMutex, stack,
                 gComponentManager, gCCIShuttingDown>>

ShutdownComplete ==
  /\ ExitAt("delete") /\ exit.todo = {}
  /\ mFactories' = [c \in CID |-> NoEntry]
  /\ gComponentManager' = FALSE
  /\ exit' = [pc |-> "down", todo |-> {}]
  /\ UNCHANGED <<mContractIds, heap, lock, mMutex, stack, gCCIShuttingDown>>

ExitStep == \/ \E c \in CID : FreeServices(c) \/ ShutdownEntry(c)
            \/ ReleaseManager
            \/ ShutdownComplete

Next ==
  \/ \E t \in Thread :
       \/ \E op \in ReadCall, key \in CID \cup ContractID : BeginCall(t, op, key)
       \/ CallStep(t) \/ Undefined(t)
       \/ \E c \in CID, id \in ContractID \cup {NullID, EmptyID} :
            \/ \E f \in Factory : RegisterFactory(t, c, id, f)
            \/ RegisterFactoryLocation(t, c, id)
       \/ \E c \in CID : UnregisterFactory(t, c)
       \/ RegistrarStep(t)
  \/ CCI_Init
  \/ CCI_Shutdown
  \/ ExitStep

Spec == Init /\ [][Next]_vars

(* The thread in CCI_Shutdown keeps running: its loops take no lock, and    *)
(* each destructor they run comes to an end, as do the calls it makes.      *)
FairSpec == Spec /\ SF_vars(ExitStep) /\ WF_vars(CallStep(Main))

-----------------------------------------------------------------------------
(***************************************************************************)
(* Properties.                                                             *)
(***************************************************************************)

(* Until Shutdown deletes them, the class table holds live entries, each    *)
(* under its own class, and a contract id maps to an entry that is still    *)
(* registered: an unregistration or a failed registration leaves no         *)
(* dangling pointer behind (UnregisterFactory, HashContractID, Shutdown).   *)
ClassTableSound ==
  \A c \in CID : mFactories[c] # NoEntry /\ exit.pc # "delete" =>
    heap[mFactories[c]].live /\ heap[mFactories[c]].mCID = c
ContractTableSound ==
  \A k \in ContractID : mContractIds[k] # NoEntry =>
    /\ heap[mContractIds[k]].live
    /\ mFactories[heap[mContractIds[k]].mCID] = mContractIds[k]
TablesSound == ClassTableSound /\ ContractTableSound

(* A live entry is in the class table, or is the one UnregisterFactory is   *)
(* deleting: no step order loses an entry.                                  *)
NoEntryLeaks ==
  \A e \in Entry : heap[e].live =>
    \/ mFactories[heap[e].mCID] = e
    \/ lock.pc = "delete" /\ lock.e = e

(* A call follows an entry pointer only while the entry is allocated. It    *)
(* drops mLock before it uses the entry, so this holds when no other thread *)
(* unregisters (cciComponentManager.cpp:436-445). In the end it is the test *)
(* of the flag and the clearing of mContractIds that keep a destructor from *)
(* the entries Shutdown has deleted; nothing keeps it from them when it     *)
(* asks for the factory of a class (GetClassObject, 361-383).               *)
WillUseEntry(fr) ==
  fr.e # NoEntry /\ ~(fr.op = "CreateInstance" /\ fr.pc \in {"construct", "nested"})
AsksForClassInShutdown(t, fr) ==
  t = Main /\ exit.pc = "delete" /\ fr.op = "GetClassObject" /\ fr.key \in CID
EntriesInUseAreLive ==
  \A t \in Thread : \A i \in DOMAIN stack[t] :
    WillUseEntry(stack[t][i]) =>
      heap[stack[t][i].e].live \/ AsksForClassInShutdown(t, stack[t][i])

(* A registration makes one service object, however many threads ask for it *)
(* and whatever services its constructor asks for (GetService's mutex).     *)
OneServicePerEntry == \A e \in Entry : heap[e].made <= 1

(* When the entries and then the modules go, no service object is left, and *)
(* none is made again: the flag is up before FreeServices, so what the      *)
(* destructors ask for is refused (CCI_Shutdown).                           *)
ServicesGoFirst ==
  exit.pc = "delete" => \A e \in Entry : heap[e].mServiceObject = NoFactory

(* A service, once kept, is the one every later caller gets until it is     *)
(* freed by CCI_Shutdown or its class is unregistered.                      *)
ServiceStable ==
  [][\A e \in Entry :
       LET old == heap[e].mServiceObject IN
       old # NoFactory =>
         \/ heap[e]'.mServiceObject = old
         \/ gCCIShuttingDown
         \/ ~heap[e]'.live]_vars

(* CCI_Shutdown comes to its end, whatever the destructors call, unless one *)
(* of them asks for the factory of a class whose entry is gone.             *)
ShutdownTerminates == (exit.pc = "free") ~> (exit.pc = "down" \/ UsesDeleted(Main))

(* CCI_ASSERTION(mFactory,"Loader says it succeeded; got null factory!"),   *)
(* cciComponentManager.cpp:149: the factory a module's GetClassObject has   *)
(* just stored is there when GetFactory reads it back.                      *)
LoaderGaveFactory ==
  \A t \in Thread : At(t, "loaded") /\ heap[Top(t).e].live =>
    heap[Top(t).e].mFactory # NoFactory
=============================================================================
