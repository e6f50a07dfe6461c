------------------------ MODULE ComponentManager_proofs ------------------------
(* Theorems about the component manager: its types and the mutual exclusion *)
(* of mMutex, and the soundness of its two tables.                          *)
EXTENDS ComponentManager, FiniteSetTheorems, TLAPS

(* How often t is inside mMutex's critical section.                         *)
Inside(s) == {i \in DOMAIN s : Mutexed(s[i].op)}

(* The mutex counts the calls in progress of its owner, and nobody else has *)
(* one that needs it.                                                       *)
MutexInv ==
  /\ \A t \in Thread :
       Cardinality(Inside(stack[t])) = IF mMutex.owner = t THEN mMutex.depth ELSE 0
  /\ mMutex.owner = NoThread => mMutex.depth = 0

(* The strengthening of TablesSound and NoEntryLeaks: what Shutdown has not *)
(* reached yet is sound, the writer's entry is where its step assumes, and  *)
(* a writer excludes shutdown.                                              *)
Sound(c) == heap[mFactories[c]].live /\ heap[mFactories[c]].mCID = c

ClassesSound ==
  \A c \in CID : mFactories[c] # NoEntry /\ (exit.pc = "delete" => c \in exit.todo)
                   => Sound(c)

EntriesKept ==
  \A e \in Entry : heap[e].live =>
    \/ /\ mFactories[heap[e].mCID] = e
       /\ exit.pc = "delete" => heap[e].mCID \in exit.todo
    \/ lock.pc = "delete" /\ lock.e = e

WriterInv ==
  /\ lock.pc = "free" <=> lock.owner = NoThread
  /\ lock.pc # "free" => /\ exit.pc = "up"
                         /\ lock.e \in Entry
                         /\ heap[lock.e].live
  /\ lock.pc \in {"hash", "erase"} => mFactories[heap[lock.e].mCID] = lock.e
  /\ lock.pc = "delete" => \A c \in CID : mFactories[c] # lock.e

ExitInv ==
  /\ exit.pc \in {"delete", "down"} => \A k \in ContractID : mContractIds[k] = NoEntry
  /\ exit.pc = "down" => \A c \in CID : mFactories[c] = NoEntry

RegistryInv == /\ ClassesSound /\ ContractTableSound /\ EntriesKept
               /\ WriterInv /\ ExitInv

-----------------------------------------------------------------------------
(* Sequences of frames: replacing, popping and pushing the innermost call.  *)
LEMMA InsideFinite ==
  ASSUME NEW s \in Seq(Frame)
  PROVE  IsFiniteSet(Inside(s)) /\ Cardinality(Inside(s)) \in Nat
<1>1. IsFiniteSet(1..Len(s))
  BY FS_Interval
<1>2. Inside(s) \subseteq 1..Len(s)
  BY DEF Inside
<1>3. QED
  BY <1>1, <1>2, FS_Subset, FS_CardinalityType

LEMMA SetTopFacts ==
  ASSUME NEW s \in Seq(Frame), s # <<>>, NEW fr \in Frame, fr.op = s[Len(s)].op
  PROVE  SetTop(s, fr) \in Seq(Frame) /\ Inside(SetTop(s, fr)) = Inside(s)
<1>1. SetTop(s, fr) \in Seq(Frame) /\ DOMAIN SetTop(s, fr) = DOMAIN s
  BY DEF SetTop
<1>2. \A i \in DOMAIN s : SetTop(s, fr)[i].op = s[i].op
  BY DEF SetTop
<1>3. QED
  BY <1>1, <1>2 DEF Inside

LEMMA PopFacts ==
  ASSUME NEW s \in Seq(Frame), s # <<>>
  PROVE  Pop(s) \in Seq(Frame) /\ Inside(Pop(s)) = Inside(s) \ {Len(s)}
<1>1. Pop(s) \in Seq(Frame) /\ DOMAIN Pop(s) = 1..(Len(s) - 1)
  BY DEF Pop
<1>2. \A i \in 1..(Len(s) - 1) : Pop(s)[i] = s[i]
  BY DEF Pop
<1>3. DOMAIN s = 1..Len(s) /\ Len(s) \in Nat
  OBVIOUS
<1>4. QED
  BY <1>1, <1>2, <1>3 DEF Inside

LEMMA PushFacts ==
  ASSUME NEW s \in Seq(Frame), NEW fr \in Frame
  PROVE  /\ Append(s, fr) \in Seq(Frame)
         /\ Inside(Append(s, fr)) =
              Inside(s) \cup (IF Mutexed(fr.op) THEN {Len(s) + 1} ELSE {})
         /\ Len(s) + 1 \notin Inside(s)
<1>1. Append(s, fr) \in Seq(Frame) /\ DOMAIN Append(s, fr) = 1..(Len(s) + 1)
  OBVIOUS
<1>2. \A i \in 1..Len(s) : Append(s, fr)[i] = s[i]
  OBVIOUS
<1>3. Append(s, fr)[Len(s) + 1] = fr
  OBVIOUS
<1>4. DOMAIN s = 1..Len(s) /\ Len(s) \in Nat
  OBVIOUS
<1>5. QED
  BY <1>1, <1>2, <1>3, <1>4 DEF Inside

-----------------------------------------------------------------------------
(* What every call keeps: typed frames, a typed mutex that counts them.     *)
CallsInv ==
  /\ stack \in [Thread -> Seq(Frame)]
  /\ mMutex \in [owner : Thread \cup {NoThread}, depth : Nat]
  /\ MutexInv

LEMMA TopFrame ==
  ASSUME CallsInv, NEW t \in Thread, ~Idle(t)
  PROVE  /\ stack[t] \in Seq(Frame) /\ stack[t] # <<>>
         /\ Len(stack[t]) \in DOMAIN stack[t]
         /\ Top(t) \in Frame
  BY DEF CallsInv, Idle, Top

(* The innermost call moves on.                                             *)
LEMMA MoveKeeps ==
  ASSUME CallsInv, NEW t \in Thread, ~Idle(t),
         NEW fr \in Frame, fr.op = Top(t).op,
         stack' = [stack EXCEPT ![t] = SetTop(@, fr)], UNCHANGED mMutex
  PROVE  CallsInv'
<1>1. stack[t] \in Seq(Frame) /\ stack[t] # <<>>
  BY TopFrame
<1>2. SetTop(stack[t], fr) \in Seq(Frame) /\ Inside(SetTop(stack[t], fr)) = Inside(stack[t])
  BY <1>1, SetTopFacts DEF Top
<1>3. stack' \in [Thread -> Seq(Frame)]
  BY <1>2 DEF CallsInv
<1>4. \A u \in Thread : Inside(stack'[u]) = Inside(stack[u])
  BY <1>2 DEF CallsInv
<1>5. MutexInv'
  BY <1>4 DEF CallsInv, MutexInv
<1>6. QED
  BY <1>3, <1>5 DEF CallsInv

(* The innermost call returns.                                              *)
LEMMA ReturnKeeps ==
  ASSUME CallsInv, NEW t \in Thread, ~Idle(t), Return(t)
  PROVE  CallsInv'
<1> DEFINE s == stack[t]
<1>1. s \in Seq(Frame) /\ s # <<>> /\ Len(s) \in DOMAIN s
  BY TopFrame
<1>2. Pop(s) \in Seq(Frame) /\ Inside(Pop(s)) = Inside(s) \ {Len(s)}
  BY <1>1, PopFacts
<1>3. stack' = [stack EXCEPT ![t] = Pop(s)] /\ stack' \in [Thread -> Seq(Frame)]
  BY <1>2 DEF CallsInv, Return
<1>4. IsFiniteSet(Inside(s)) /\ Cardinality(Inside(s)) \in Nat
  BY <1>1, InsideFinite
<1>5. CASE Mutexed(Top(t).op)
  <2>1. Len(s) \in Inside(s)
    BY <1>1, <1>5 DEF Inside, Top
  <2>2. Cardinality(Inside(Pop(s))) = Cardinality(Inside(s)) - 1 /\ Cardinality(Inside(s)) > 0
    <3>1. Cardinality(Inside(Pop(s))) = Cardinality(Inside(s)) - 1
      BY <1>2, <1>4, <2>1, FS_RemoveElement
    <3>2. Cardinality(Inside(Pop(s))) \in Nat
      BY <1>2, InsideFinite
    <3>3. QED
      BY <1>4, <3>1, <3>2
  <2>3. mMutex.owner = t /\ mMutex.depth = Cardinality(Inside(s))
    BY <2>2 DEF CallsInv, MutexInv
  <2>4. mMutex' = Released
    BY <1>5 DEF Return
  <2>5. mMutex' \in [owner : Thread \cup {NoThread}, depth : Nat]
    BY <2>2, <2>3, <2>4, <1>4 DEF Released, CallsInv
  <2>6. t # NoThread
    BY ConstantsAssumption
  <2>7. \A u \in Thread \ {t} : stack'[u] = stack[u] /\ Cardinality(Inside(stack[u])) = 0
    BY <1>3, <2>3 DEF CallsInv, MutexInv
  <2>8. MutexInv'
    <3>1. mMutex'.depth = mMutex.depth - 1
      BY <2>4 DEF Released
    <3>2. mMutex'.owner = (IF mMutex.depth = 1 THEN NoThread ELSE t)
      BY <2>3, <2>4 DEF Released
    <3>3. Cardinality(Inside(stack'[t])) = mMutex'.depth
      BY <1>3, <2>2, <2>3, <3>1 DEF CallsInv
    <3>4. QED
      BY <1>4, <2>3, <2>6, <2>7, <3>1, <3>2, <3>3 DEF MutexInv
  <2>9. QED
    BY <1>3, <2>5, <2>8 DEF CallsInv
<1>6. CASE ~Mutexed(Top(t).op)
  <2>1. Inside(Pop(s)) = Inside(s)
    BY <1>1, <1>2, <1>6 DEF Inside, Top
  <2>2. mMutex' = mMutex
    BY <1>6 DEF Return
  <2>3. \A u \in Thread : Inside(stack'[u]) = Inside(stack[u])
    BY <1>3, <2>1 DEF CallsInv
  <2>4. QED
    BY <1>3, <2>2, <2>3 DEF CallsInv, MutexInv
<1>7. QED
  BY <1>5, <1>6

(* A call begins, from a stack s that is that of t or differs from it in    *)
(* the place of its innermost call only.                                    *)
LEMMA PushKeeps ==
  ASSUME CallsInv, NEW t \in Thread, NEW s \in Seq(Frame),
         Inside(s) = Inside(stack[t]),
         NEW op \in ReadCall, NEW key \in CID \cup ContractID,
         Mutexed(op) => MutexFree(t),
         stack' = [stack EXCEPT ![t] = Append(s, NewFrame(op, key))],
         mMutex' = IF Mutexed(op) THEN Acquired(t) ELSE mMutex
  PROVE  CallsInv'
<1> DEFINE fr == NewFrame(op, key)
<1>1. fr \in Frame /\ fr.op = op
  BY DEF NewFrame, Frame, ReadPc, Pointer, MaybeFactory
<1>2. /\ Append(s, fr) \in Seq(Frame)
      /\ Inside(Append(s, fr)) = Inside(s) \cup (IF Mutexed(op) THEN {Len(s) + 1} ELSE {})
      /\ Len(s) + 1 \notin Inside(s)
  BY <1>1, PushFacts
<1>3. stack' \in [Thread -> Seq(Frame)] /\ stack'[t] = Append(s, fr)
  BY <1>2 DEF CallsInv
<1>4. mMutex' \in [owner : Thread \cup {NoThread}, depth : Nat]
  BY DEF Acquired, CallsInv
<1>5. t # NoThread
  BY ConstantsAssumption
<1>6. \A u \in Thread \ {t} : stack'[u] = stack[u]
  BY DEF CallsInv
<1>7. IsFiniteSet(Inside(s)) /\ Cardinality(Inside(s)) \in Nat
  BY InsideFinite
<1>8. CASE Mutexed(op)
  <2>1. Cardinality(Inside(stack'[t])) = Cardinality(Inside(stack[t])) + 1
    <3>1. Inside(stack'[t]) = Inside(s) \cup {Len(s) + 1}
      BY <1>2, <1>3, <1>8
    <3>2. QED
      BY <1>2, <1>7, <3>1, FS_AddElement
  <2>2. mMutex'.owner = t /\ mMutex'.depth = mMutex.depth + 1 /\ mMutex.owner \in {t, NoThread}
    BY <1>8 DEF Acquired, MutexFree
  <2>3. Cardinality(Inside(stack[t])) = mMutex.depth
    BY <2>2, <1>5 DEF CallsInv, MutexInv
  <2>4. MutexInv'
    BY <1>5, <1>6, <2>1, <2>2, <2>3 DEF CallsInv, MutexInv
  <2>5. QED
    BY <1>3, <1>4, <2>4 DEF CallsInv
<1>9. CASE ~Mutexed(op)
  <2>1. \A u \in Thread : Inside(stack'[u]) = Inside(stack[u])
    BY <1>2, <1>3, <1>6, <1>9
  <2>2. QED
    BY <1>3, <1>4, <1>9, <2>1 DEF CallsInv, MutexInv
<1>10. QED
  BY <1>8, <1>9

-----------------------------------------------------------------------------
(* A call never touches the tables, the lock or the shutdown state, and     *)
(* leaves every entry where and what it is.                                 *)
SameEntries == \A e \in Entry : /\ heap'[e].live = heap[e].live
                                /\ heap'[e].mCID = heap[e].mCID

CallKeeps ==
  /\ CallsInv'
  /\ UNCHANGED <<mFactories, mContractIds, lock, gComponentManager,
                 gCCIShuttingDown, exit>>
  /\ heap' \in [Entry -> FactoryEntry]
  /\ SameEntries

LEMMA GotoFrame ==
  ASSUME CallsInv, NEW t \in Thread, ~Idle(t), Top(t).pc # "lookup",
         NEW pc \in ReadPc, NEW f \in MaybeFactory
  PROVE  /\ [Top(t) EXCEPT !.pc = pc] \in Frame
         /\ [Top(t) EXCEPT !.pc = pc].op = Top(t).op
         /\ [Top(t) EXCEPT !.pc = pc, !.f = f] \in Frame
         /\ [Top(t) EXCEPT !.pc = pc, !.f = f].op = Top(t).op
  BY TopFrame DEF Frame

LEMMA GotoKeeps ==
  ASSUME CallsInv, NEW t \in Thread, ~Idle(t), Top(t).pc # "lookup",
         NEW pc \in ReadPc, NEW f \in MaybeFactory,
         Goto(t, pc) \/ GotoWith(t, pc, f), UNCHANGED mMutex
  PROVE  CallsInv'
<1>1. CASE Goto(t, pc)
  BY <1>1, GotoFrame, MoveKeeps DEF Goto
<1>2. CASE GotoWith(t, pc, f)
  BY <1>2, GotoFrame, MoveKeeps DEF GotoWith
<1>3. QED
  BY <1>1, <1>2

LEMMA CallStepKeeps ==
  ASSUME TypeOK, CallsInv, NEW t \in Thread, CallStep(t)
  PROVE  CallKeeps
<1> USE DEF CallKeeps, SameEntries
<1>a. heap \in [Entry -> FactoryEntry] /\ mFactories \in [CID -> Pointer]
      /\ mContractIds \in [ContractID -> Pointer]
  BY DEF TypeOK
<1>b. /\ {"lookup", "service", "factory", "load", "loading", "loaded",
           "take", "construct", "nested", "store"} = ReadPc
      /\ NoFactory \in MaybeFactory
  BY DEF ReadPc, MaybeFactory
<1>c. \A e \in Entry : heap[e] \in FactoryEntry /\ heap[e].mFactory \in MaybeFactory
                       /\ heap[e].made + 1 \in Nat
  BY <1>a DEF FactoryEntry
<1>d. ~Idle(t) => /\ Top(t) \in Frame /\ Top(t).f \in MaybeFactory
                  /\ Top(t).pc # "lookup" => Top(t).e \in Entry
  BY TopFrame DEF Frame
<1>1. CASE LookUp(t)
  <2> DEFINE found == FindEntry(Top(t).key)
             fr == [Top(t) EXCEPT !.e = found,
                      !.pc = IF Top(t).op = "GetService" THEN "service" ELSE "factory"]
  <2>1. ~Idle(t)
    BY <1>1 DEF LookUp, At
  <2>2. Top(t) \in Frame
    BY <2>1, TopFrame
  <2>3. found \in Pointer
    BY <1>a, <2>2 DEF FindEntry, Frame
  <2>5. CASE found = NoEntry
    BY <1>1, <1>a, <2>1, <2>5, ReturnKeeps DEF LookUp
  <2>6. CASE found # NoEntry
    <3>1. stack' = [stack EXCEPT ![t] = SetTop(@, fr)] /\ UNCHANGED mMutex
      BY <1>1, <2>6 DEF LookUp
    <3>2. fr \in Frame /\ fr.op = Top(t).op
      BY <2>2, <2>3, <2>6, <1>b DEF Frame, Pointer
    <3>3. CallsInv'
      BY <2>1, <3>1, <3>2, MoveKeeps
    <3>4. QED
      BY <1>1, <1>a, <3>3 DEF LookUp
  <2>7. QED
    BY <2>5, <2>6
<1>2. CASE TestService(t)
  <2>1. ~Idle(t) /\ Top(t).pc # "lookup"
    BY <1>2 DEF TestService, Using, At
  <2>2. CallsInv'
    BY <1>2, <1>b, <2>1, ReturnKeeps, GotoKeeps DEF TestService
  <2>3. QED
    BY <1>2, <1>a, <2>2 DEF TestService
<1>3. CASE TestFactory(t)
  <2>1. ~Idle(t) /\ Top(t).pc # "lookup"
    BY <1>3 DEF TestFactory, Using, At
  <2>2. CallsInv'
    BY <1>3, <1>b, <2>1, GotoKeeps DEF TestFactory
  <2>3. QED
    BY <1>3, <1>a, <2>2 DEF TestFactory
<1>4. CASE Load(t)
  <2>1. ~Idle(t) /\ Top(t).pc # "lookup"
    BY <1>4 DEF Load, Using, At
  <2>2. CallsInv'
    BY <1>4, <1>b, <2>1, ReturnKeeps, GotoKeeps DEF Load
  <2>3. Top(t).e \in Entry
    BY <1>d, <2>1
  <2>4. heap' \in [Entry -> FactoryEntry] /\ SameEntries
    BY <1>4, <1>a, <1>b, <1>c, <2>3 DEF Load, FactoryEntry
  <2>5. QED
    BY <1>4, <2>2, <2>4 DEF Load
<1>5. CASE Loading(t)
  <2>1. ~Idle(t) /\ Top(t).pc # "lookup"
    BY <1>5 DEF Loading, Using, At
  <2>2. CallsInv'
    BY <1>5, <1>b, <2>1, ReturnKeeps, GotoKeeps DEF Loading
  <2>3. Top(t).e \in Entry
    BY <1>d, <2>1
  <2>4. heap' \in [Entry -> FactoryEntry] /\ SameEntries
    <3>1. CASE heap' = heap
      BY <3>1, <1>a
    <3>2. CASE heap' # heap
      <4>1. PICK f \in Factory : heap' = [heap EXCEPT ![Top(t).e].mFactory = f]
        BY <1>5, <3>2 DEF Loading
      <4>2. f \in MaybeFactory
        BY DEF MaybeFactory
      <4>3. QED
        BY <4>1, <4>2, <1>a, <1>c, <2>3 DEF FactoryEntry
    <3>3. QED
      BY <3>1, <3>2
  <2>5. QED
    BY <1>5, <2>2, <2>4 DEF Loading
<1>6. CASE Loaded(t)
  <2>1. ~Idle(t) /\ Top(t).pc # "lookup"
    BY <1>6 DEF Loaded, Using, At
  <2>2. CallsInv'
    BY <1>6, <1>b, <2>1, ReturnKeeps, GotoKeeps DEF Loaded
  <2>3. QED
    BY <1>6, <1>a, <2>2 DEF Loaded
<1>7. CASE RequestNeeded(t)
  <2> DEFINE fr == [Top(t) EXCEPT !.pc = "nested"]
             s  == SetTop(stack[t], fr)
  <2>1. ~Idle(t) /\ Top(t).pc # "lookup"
    BY <1>7 DEF RequestNeeded, At
  <2>2. fr \in Frame /\ fr.op = Top(t).op
    BY <2>1, <1>b, GotoFrame
  <2>3. stack[t] \in Seq(Frame) /\ stack[t] # <<>>
    BY <2>1, TopFrame
  <2>4. s \in Seq(Frame) /\ Inside(s) = Inside(stack[t])
    BY <2>2, <2>3, SetTopFacts DEF Top
  <2>5. Wants(t) \in CID /\ "GetService" \in ReadCall /\ Mutexed("GetService")
    <3>1. Top(t).e \in Entry
      BY <1>d, <2>1
    <3>2. heap[Top(t).e].mCID \in CID
      BY <3>1, <1>c DEF FactoryEntry
    <3>3. QED
      BY <1>7, <3>2, ConstantsAssumption DEF RequestNeeded, Wants, ReadCall, Mutexed
  <2>6. /\ stack' = [stack EXCEPT ![t] = Append(s, NewFrame("GetService", Wants(t)))]
        /\ mMutex' = Acquired(t) /\ MutexFree(t)
    BY <1>7 DEF RequestNeeded, CallsInv
  <2>7. CallsInv'
    BY <2>4, <2>5, <2>6, PushKeeps
  <2>8. QED
    BY <1>7, <1>a, <2>7 DEF RequestNeeded
<1>8. CASE Construct(t)
  <2>1. ~Idle(t) /\ Top(t).pc # "lookup"
    BY <1>8 DEF Construct, At
  <2>2. CallsInv'
    BY <1>8, <1>b, <2>1, ReturnKeeps, GotoKeeps DEF Construct
  <2>3. QED
    BY <1>8, <1>a, <2>2 DEF Construct
<1>9. CASE StoreService(t)
  <2>1. ~Idle(t) /\ Top(t).pc # "lookup"
    BY <1>9 DEF StoreService, Using, At
  <2>2. CallsInv'
    BY <1>9, <2>1, ReturnKeeps DEF StoreService
  <2>3. Top(t).e \in Entry /\ Top(t).f \in MaybeFactory
    BY <1>d, <2>1
  <2>4. heap' \in [Entry -> FactoryEntry] /\ SameEntries
    BY <1>9, <1>a, <1>c, <2>3 DEF StoreService, FactoryEntry
  <2>5. QED
    BY <1>9, <2>2, <2>4 DEF StoreService
<1>10. CASE TakeFactory(t)
  <2>1. ~Idle(t) /\ Top(t).pc # "lookup"
    BY <1>10 DEF TakeFactory, Using, At
  <2>2. heap[Top(t).e].mFactory \in MaybeFactory
    BY <2>1, <1>c, <1>d
  <2>3. CallsInv'
    BY <1>10, <1>b, <2>1, <2>2, ReturnKeeps, GotoKeeps DEF TakeFactory
  <2>4. QED
    BY <1>10, <1>a, <2>3 DEF TakeFactory
<1>11. QED
  BY <1>1, <1>2, <1>3, <1>4, <1>5, <1>6, <1>7, <1>8, <1>9, <1>10 DEF CallStep

(* A call that used what is no longer there.                                *)
LEMMA UndefinedKeeps ==
  ASSUME TypeOK, CallsInv, NEW t \in Thread, Undefined(t)
  PROVE  CallKeeps
<1>1. ~Idle(t)
  BY DEF Undefined, UsesDeleted, UsesNull, Using, At
<1>2. CallsInv'
  BY <1>1, ReturnKeeps DEF Undefined
<1>3. QED
  BY <1>2 DEF Undefined, CallKeeps, SameEntries, TypeOK

LEMMA BeginCallKeeps ==
  ASSUME TypeOK, CallsInv, NEW t \in Thread,
         NEW op \in ReadCall, NEW key \in CID \cup ContractID, BeginCall(t, op, key)
  PROVE  CallKeeps
<1>1. stack[t] \in Seq(Frame)
  BY DEF CallsInv
<1>2. CallsInv'
  BY <1>1, PushKeeps DEF BeginCall
<1>3. QED
  BY <1>2 DEF BeginCall, CallKeeps, SameEntries, TypeOK

-----------------------------------------------------------------------------
(* The tables, the heap and the rest of the shared state, typed.            *)
SharedTypes ==
  /\ mFactories \in [CID -> Pointer]
  /\ mContractIds \in [ContractID -> Pointer]
  /\ heap \in [Entry -> FactoryEntry]
  /\ lock \in WriteSection
  /\ gComponentManager \in BOOLEAN
  /\ gCCIShuttingDown \in BOOLEAN
  /\ exit \in [pc : ExitPc, todo : SUBSET CID]

IInv == TypeOK /\ MutexInv /\ RegistryInv

(* A call leaves the invariant of the tables alone: it does not change what *)
(* the invariant reads.                                                     *)
LEMMA CallKeepsInv ==
  ASSUME IInv, CallKeeps
  PROVE  IInv'
<1>1. /\ mFactories' = mFactories /\ mContractIds' = mContractIds /\ lock' = lock
      /\ exit' = exit /\ gComponentManager' = gComponentManager
      /\ gCCIShuttingDown' = gCCIShuttingDown
      /\ heap' \in [Entry -> FactoryEntry] /\ SameEntries /\ CallsInv'
  BY DEF CallKeeps
<1>2. TypeOK' /\ MutexInv'
  BY <1>1 DEF IInv, TypeOK, CallsInv
<1>3. \A e \in Entry : heap'[e].live = heap[e].live /\ heap'[e].mCID = heap[e].mCID
  BY <1>1 DEF SameEntries
<1>4. /\ \A c \in CID : mFactories[c] # NoEntry => mFactories[c] \in Entry
      /\ \A k \in ContractID : mContractIds[k] # NoEntry => mContractIds[k] \in Entry
  BY DEF IInv, TypeOK, Pointer
<1>5. ClassesSound'
  BY <1>1, <1>3, <1>4 DEF IInv, RegistryInv, ClassesSound, Sound
<1>6. ContractTableSound'
  BY <1>1, <1>3, <1>4 DEF IInv, RegistryInv, ContractTableSound
<1>7. EntriesKept'
  BY <1>1, <1>3 DEF IInv, RegistryInv, EntriesKept
<1>8. WriterInv'
  BY <1>1, <1>3 DEF IInv, RegistryInv, WriterInv
<1>9. ExitInv'
  BY <1>1 DEF IInv, RegistryInv, ExitInv
<1>10. QED
  BY <1>2, <1>5, <1>6, <1>7, <1>8, <1>9 DEF IInv, RegistryInv

(* The registrar and the exit leave the calls in progress alone.            *)
LEMMA CallsUntouched ==
  ASSUME IInv, UNCHANGED <<mMutex, stack>>, SharedTypes'
  PROVE  TypeOK' /\ MutexInv'
<1>1. MutexInv'
  BY DEF IInv, MutexInv
<1>2. QED
  BY <1>1 DEF IInv, TypeOK, SharedTypes

LEMMA InitInv ==
  ASSUME Init
  PROVE  IInv
<1>1. \A c \in CID : Deleted(c) \in FactoryEntry
  BY DEF Deleted, FactoryEntry, MaybeFactory
<1>2. CatCID \in CID /\ NoThread \notin Thread /\ EmptyID # NullID
  BY ConstantsAssumption
<1>3. Unlocked \in WriteSection
  BY DEF Unlocked, WriteSection, Pointer
<1>4. \A t \in Thread : stack[t] \in Seq(Frame) /\ Inside(stack[t]) = {}
  BY DEF Init, Inside
<1>5. TypeOK
  BY <1>1, <1>2, <1>3, <1>4 DEF Init, TypeOK, Pointer, ExitPc
<1>6. MutexInv
  BY <1>2, <1>4, FS_EmptySet DEF Init, MutexInv
<1>7. \A e \in Entry : ~heap[e].live
  BY DEF Init, Deleted
<1>8. RegistryInv
  BY <1>2, <1>7 DEF Init, RegistryInv, ClassesSound, ContractTableSound, EntriesKept,
                    WriterInv, ExitInv, Unlocked
<1>9. QED
  BY <1>5, <1>6, <1>8 DEF IInv

-----------------------------------------------------------------------------
(* The registrar.                                                           *)
LEMMA CanRegisterFacts ==
  ASSUME IInv, NEW t \in Thread, NEW op, CanRegister(t, op)
  PROVE  /\ exit.pc = "up" /\ lock.pc = "free" /\ lock.owner = NoThread /\ t # NoThread
         /\ \A c \in CID : mFactories[c] # NoEntry => mFactories[c] \in Entry /\ Sound(c)
         /\ \A k \in ContractID : mContractIds[k] # NoEntry =>
              mContractIds[k] \in Entry /\ heap[mContractIds[k]].live
         /\ \A e \in Entry : heap[e].live =>
              heap[e].mCID \in CID /\ mFactories[heap[e].mCID] = e
         /\ \A e \in Entry : heap[e] \in FactoryEntry
<1>1. exit.pc = "up" /\ lock.owner = NoThread /\ t # NoThread
  BY ConstantsAssumption DEF CanRegister
<1>2. lock.pc = "free"
  BY <1>1 DEF IInv, RegistryInv, WriterInv
<1>3. \A e \in Entry : heap[e] \in FactoryEntry /\ heap[e].mCID \in CID
  BY DEF IInv, TypeOK, FactoryEntry
<1>4. QED
  BY <1>1, <1>2, <1>3 DEF IInv, TypeOK, Pointer, RegistryInv, ClassesSound,
     ContractTableSound, EntriesKept

LEMMA NewEntryKeepsInv ==
  ASSUME IInv, NEW t \in Thread, NEW op, CanRegister(t, op),
         NEW c \in CID, NEW id \in ContractID \cup {NullID, EmptyID},
         NEW f \in MaybeFactory, NEW e \in Entry,
         mFactories[c] = NoEntry, Allocatable(e),
         AddFactoryEntry(e, c, f), WriteAt(t, "hash", e, id),
         UNCHANGED <<mContractIds, mMutex, stack, gComponentManager,
                     gCCIShuttingDown, exit>>
  PROVE  IInv'
<1> DEFINE new == NewEntry(c, f)
<1>1. new \in FactoryEntry /\ new.live /\ new.mCID = c
  BY DEF NewEntry, FactoryEntry, MaybeFactory
<1>2. /\ ~heap[e].live /\ e # NoEntry
      /\ heap' = [heap EXCEPT ![e] = new] /\ mFactories' = [mFactories EXCEPT ![c] = e]
      /\ lock' = [owner |-> t, pc |-> "hash", e |-> e, id |-> id]
  BY ConstantsAssumption DEF Allocatable, AddFactoryEntry, WriteAt
<1>3. heap \in [Entry -> FactoryEntry] /\ mFactories \in [CID -> Pointer]
  BY DEF IInv, TypeOK
<1>4. /\ heap'[e] = new /\ \A x \in Entry \ {e} : heap'[x] = heap[x]
      /\ mFactories'[c] = e /\ \A d \in CID \ {c} : mFactories'[d] = mFactories[d]
  BY <1>2, <1>3
<1>5. SharedTypes'
  BY <1>1, <1>2, <1>3 DEF IInv, TypeOK, SharedTypes, Pointer, WriteSection
<1>6. ClassesSound'
  BY <1>1, <1>2, <1>4, CanRegisterFacts DEF ClassesSound, Sound
<1>7. ContractTableSound'
  BY <1>1, <1>2, <1>4, CanRegisterFacts DEF ContractTableSound, IInv, RegistryInv
<1>8. EntriesKept'
  <2>1. exit'.pc = "up"
    BY CanRegisterFacts
  <2>2. ASSUME NEW x \in Entry, x # e, heap'[x].live
        PROVE  mFactories'[heap'[x].mCID] = x
    <3>1. heap[x].live /\ heap'[x].mCID = heap[x].mCID /\ x # NoEntry
      BY <1>4, <2>2, ConstantsAssumption
    <3>2. heap[x].mCID \in CID /\ mFactories[heap[x].mCID] = x
      BY <3>1, CanRegisterFacts
    <3>3. QED
      BY <1>4, <3>1, <3>2
  <2>3. mFactories'[heap'[e].mCID] = e
    BY <1>1, <1>4
  <2>4. QED
    BY <2>1, <2>2, <2>3 DEF EntriesKept
<1>9. WriterInv'
  BY <1>1, <1>2, <1>4, CanRegisterFacts DEF WriterInv
<1>10. ExitInv'
  BY CanRegisterFacts DEF ExitInv
<1>11. QED
  BY <1>5, <1>6, <1>7, <1>8, <1>9, <1>10, CallsUntouched DEF IInv, RegistryInv

(* An entry is found: at most its factory changes.                          *)
LEMMA FoundEntryKeepsInv ==
  ASSUME IInv, NEW t \in Thread, NEW op, CanRegister(t, op),
         NEW c \in CID, NEW id \in ContractID \cup {NullID, EmptyID},
         mFactories[c] # NoEntry, WriteAt(t, "hash", mFactories[c], id),
         heap' \in [Entry -> FactoryEntry], SameEntries,
         UNCHANGED <<mFactories, mContractIds, mMutex, stack, gComponentManager,
                     gCCIShuttingDown, exit>>
  PROVE  IInv'
<1>1. /\ mFactories[c] \in Entry /\ Sound(c)
      /\ exit.pc = "up" /\ lock.pc = "free" /\ t # NoThread
  BY CanRegisterFacts
<1>2. lock' = [owner |-> t, pc |-> "hash", e |-> mFactories[c], id |-> id]
  BY DEF WriteAt
<1>3. SharedTypes'
  BY <1>1, <1>2 DEF IInv, TypeOK, SharedTypes, Pointer, WriteSection
<1>4. ClassesSound'
  BY CanRegisterFacts DEF ClassesSound, Sound, SameEntries
<1>5. ContractTableSound'
  BY CanRegisterFacts DEF ContractTableSound, SameEntries, IInv, RegistryInv
<1>6. EntriesKept'
  BY <1>1, <1>2, CanRegisterFacts DEF EntriesKept, SameEntries
<1>7. WriterInv'
  BY <1>1, <1>2 DEF WriterInv, SameEntries, Sound
<1>8. ExitInv'
  BY <1>1 DEF ExitInv
<1>9. QED
  BY <1>3, <1>4, <1>5, <1>6, <1>7, <1>8, CallsUntouched DEF IInv, RegistryInv

LEMMA RegisterFactoryKeepsInv ==
  ASSUME IInv, NEW t \in Thread, NEW c \in CID, NEW f \in Factory,
         NEW id \in ContractID \cup {NullID, EmptyID}, RegisterFactory(t, c, id, f)
  PROVE  IInv'
<1>1. f \in MaybeFactory
  BY DEF MaybeFactory
<1>2. CASE mFactories[c] = NoEntry
  <2>1. PICK e \in Entry : /\ Allocatable(e) /\ AddFactoryEntry(e, c, f)
                           /\ WriteAt(t, "hash", e, id)
    BY <1>2 DEF RegisterFactory
  <2>2. QED
    BY <1>1, <1>2, <2>1, NewEntryKeepsInv DEF RegisterFactory
<1>3. CASE mFactories[c] # NoEntry
  <2>1. heap' = [heap EXCEPT ![mFactories[c]].mFactory = f]
    BY <1>3 DEF RegisterFactory
  <2>2. mFactories[c] \in Entry /\ heap \in [Entry -> FactoryEntry]
    BY <1>3 DEF IInv, TypeOK, Pointer
  <2>3. heap' \in [Entry -> FactoryEntry] /\ SameEntries
    BY <1>1, <2>1, <2>2 DEF FactoryEntry, SameEntries
  <2>4. QED
    BY <1>3, <2>3, FoundEntryKeepsInv DEF RegisterFactory
<1>4. QED
  BY <1>2, <1>3

LEMMA RegisterFactoryLocationKeepsInv ==
  ASSUME IInv, NEW t \in Thread, NEW c \in CID,
         NEW id \in ContractID \cup {NullID, EmptyID}, RegisterFactoryLocation(t, c, id)
  PROVE  IInv'
<1>1. NoFactory \in MaybeFactory
  BY DEF MaybeFactory
<1>2. CASE mFactories[c] = NoEntry
  <2>1. PICK e \in Entry : /\ Allocatable(e) /\ AddFactoryEntry(e, c, NoFactory)
                           /\ WriteAt(t, "hash", e, id)
    BY <1>2 DEF RegisterFactoryLocation
  <2>2. QED
    BY <1>1, <1>2, <2>1, NewEntryKeepsInv DEF RegisterFactoryLocation
<1>3. CASE mFactories[c] # NoEntry
  <2>1. heap' \in [Entry -> FactoryEntry] /\ SameEntries
    BY <1>3 DEF RegisterFactoryLocation, SameEntries, IInv, TypeOK
  <2>2. QED
    BY <1>3, <2>1, FoundEntryKeepsInv DEF RegisterFactoryLocation
<1>4. QED
  BY <1>2, <1>3

(* Of the steps of a critical section: where its writer and its entry are.  *)
LEMMA WriterFacts ==
  ASSUME IInv, NEW t \in Thread, NEW pc \in {"hash", "erase", "delete"}, Writing(t, pc)
  PROVE  /\ exit.pc = "up" /\ lock.pc = pc /\ lock.e \in Entry /\ lock.e # NoEntry
         /\ heap[lock.e].live /\ heap[lock.e].mCID \in CID
         /\ Unlocked \in WriteSection
         /\ pc \in {"hash", "erase"} => mFactories[heap[lock.e].mCID] = lock.e
         /\ pc = "delete" => \A c \in CID : mFactories[c] # lock.e
         /\ \A c \in CID : mFactories[c] # NoEntry => mFactories[c] \in Entry /\ Sound(c)
         /\ \A e \in Entry : heap[e] \in FactoryEntry /\ heap[e].mCID \in CID
<1>1. lock.pc = pc /\ exit.pc = "up" /\ lock.e \in Entry /\ heap[lock.e].live
  BY DEF Writing, IInv, RegistryInv, WriterInv
<1>2. \A e \in Entry : heap[e] \in FactoryEntry /\ heap[e].mCID \in CID
  BY DEF IInv, TypeOK, FactoryEntry
<1>3. Unlocked \in WriteSection
  BY DEF Unlocked, WriteSection, Pointer
<1>4. QED
  BY <1>1, <1>2, <1>3, ConstantsAssumption
  DEF IInv, TypeOK, Pointer, RegistryInv, WriterInv, ClassesSound

LEMMA HashContractIDKeepsInv ==
  ASSUME IInv, NEW t \in Thread, HashContractID(t)
  PROVE  IInv'
<1> Writing(t, "hash")
  BY DEF HashContractID
<1>1. /\ lock' = Unlocked /\ mFactories' = mFactories /\ heap' = heap /\ exit' = exit
      /\ mContractIds' = IF lock.id \in ContractID
                           THEN [mContractIds EXCEPT ![lock.id] = lock.e]
                           ELSE mContractIds
  BY DEF HashContractID
<1>2. SharedTypes'
  BY <1>1, WriterFacts DEF HashContractID, IInv, TypeOK, SharedTypes, Pointer
<1>3. ContractTableSound'
  BY <1>1, WriterFacts DEF ContractTableSound, IInv, RegistryInv, TypeOK
<1>4. ClassesSound'
  BY <1>1 DEF ClassesSound, Sound, IInv, RegistryInv
<1>5. EntriesKept'
  BY <1>1, WriterFacts DEF EntriesKept, IInv, RegistryInv
<1>6. WriterInv' /\ ExitInv'
  BY <1>1, WriterFacts DEF WriterInv, ExitInv, Unlocked
<1>7. QED
  BY <1>2, <1>3, <1>4, <1>5, <1>6, CallsUntouched DEF HashContractID, IInv, RegistryInv

LEMMA UnregisterFactoryKeepsInv ==
  ASSUME IInv, NEW t \in Thread, NEW c \in CID, UnregisterFactory(t, c)
  PROVE  IInv'
<1>1. /\ mFactories[c] \in Entry /\ Sound(c)
      /\ exit.pc = "up" /\ lock.pc = "free" /\ t # NoThread
  BY CanRegisterFacts DEF UnregisterFactory
<1>2. /\ lock' = [owner |-> t, pc |-> "erase", e |-> mFactories[c], id |-> NullID]
      /\ mFactories' = mFactories /\ mContractIds' = mContractIds
      /\ heap' = heap /\ exit' = exit
  BY DEF UnregisterFactory, WriteAt
<1>3. SharedTypes'
  BY <1>1, <1>2 DEF UnregisterFactory, IInv, TypeOK, SharedTypes, Pointer, WriteSection
<1>4. ClassesSound' /\ ContractTableSound' /\ ExitInv'
  BY <1>2 DEF ClassesSound, Sound, ContractTableSound, ExitInv, IInv, RegistryInv
<1>5. EntriesKept'
  BY <1>1, <1>2 DEF EntriesKept, IInv, RegistryInv
<1>6. WriterInv'
  BY <1>1, <1>2 DEF WriterInv, Sound
<1>7. QED
  BY <1>3, <1>4, <1>5, <1>6, CallsUntouched DEF UnregisterFactory, IInv, RegistryInv

LEMMA EraseContractIDKeepsInv ==
  ASSUME IInv, NEW t \in Thread, NEW k \in ContractID, EraseContractID(t, k)
  PROVE  IInv'
<1> Writing(t, "erase")
  BY DEF EraseContractID
<1>1. /\ mContractIds' = [mContractIds EXCEPT ![k] = NoEntry]
      /\ lock' = lock /\ mFactories' = mFactories /\ heap' = heap /\ exit' = exit
  BY DEF EraseContractID
<1>2. SharedTypes'
  BY <1>1 DEF EraseContractID, IInv, TypeOK, SharedTypes, Pointer
<1>3. ContractTableSound' /\ ExitInv'
  BY <1>1, WriterFacts DEF ContractTableSound, ExitInv, IInv, RegistryInv, TypeOK
<1>4. ClassesSound' /\ EntriesKept' /\ WriterInv'
  BY <1>1 DEF ClassesSound, Sound, EntriesKept, WriterInv, IInv, RegistryInv
<1>5. QED
  BY <1>2, <1>3, <1>4, CallsUntouched DEF EraseContractID, IInv, RegistryInv

LEMMA RemoveFactoryEntryKeepsInv ==
  ASSUME IInv, NEW t \in Thread, RemoveFactoryEntry(t)
  PROVE  IInv'
<1> Writing(t, "erase")
  BY DEF RemoveFactoryEntry
<1> DEFINE d == heap[lock.e].mCID
<1>1. /\ mFactories' = [mFactories EXCEPT ![d] = NoEntry]
      /\ lock' = [lock EXCEPT !.pc = "delete"]
      /\ mContractIds' = mContractIds /\ heap' = heap /\ exit' = exit
      /\ \A k \in ContractID : mContractIds[k] # lock.e
  BY DEF RemoveFactoryEntry, ContractsOf
<1>2. d \in CID /\ lock.e \in Entry /\ mFactories[d] = lock.e /\ exit.pc = "up"
      /\ mFactories \in [CID -> Pointer] /\ lock \in WriteSection
      /\ mContractIds \in [ContractID -> Pointer]
  BY WriterFacts DEF IInv, TypeOK
<1>3. lock' \in WriteSection /\ lock'.pc = "delete" /\ lock'.e = lock.e /\ lock'.owner = lock.owner
  BY <1>1, <1>2 DEF WriteSection
<1>4. SharedTypes'
  BY <1>1, <1>2, <1>3 DEF RemoveFactoryEntry, IInv, TypeOK, SharedTypes, Pointer
<1>5. \A c \in CID : mFactories'[c] = IF c = d THEN NoEntry ELSE mFactories[c]
  BY <1>1, <1>2
<1>6. ClassesSound'
  BY <1>1, <1>5, WriterFacts DEF ClassesSound, Sound
<1>7. ContractTableSound'
  <2>1. ASSUME NEW k \in ContractID, mContractIds[k] # NoEntry
        PROVE  /\ heap[mContractIds[k]].live
               /\ mFactories'[heap[mContractIds[k]].mCID] = mContractIds[k]
    <3>1. /\ mContractIds[k] \in Entry /\ heap[mContractIds[k]].live
          /\ mFactories[heap[mContractIds[k]].mCID] = mContractIds[k]
      BY <1>2, <2>1 DEF IInv, RegistryInv, ContractTableSound, Pointer
    <3>2. heap[mContractIds[k]].mCID \in CID \ {d}
      BY <1>1, <1>2, <3>1, WriterFacts
    <3>3. QED
      BY <1>5, <3>1, <3>2
  <2>2. QED
    BY <1>1, <2>1 DEF ContractTableSound
<1>8. EntriesKept'
  <2>1. ASSUME NEW e \in Entry, heap[e].live, e # lock.e
        PROVE  mFactories'[heap[e].mCID] = e
    <3>1. heap[e].mCID \in CID /\ mFactories[heap[e].mCID] = e
      BY <2>1, WriterFacts DEF IInv, RegistryInv, EntriesKept
    <3>2. QED
      BY <1>2, <1>5, <2>1, <3>1
  <2>2. QED
    BY <1>1, <1>2, <1>3, <2>1 DEF EntriesKept
<1>9. WriterInv'
  <2>1. \A c \in CID : mFactories'[c] # lock.e
    BY <1>5, WriterFacts DEF Sound
  <2>2. QED
    BY <1>1, <1>2, <1>3, <2>1, WriterFacts DEF WriterInv, IInv, RegistryInv
<1>10. ExitInv'
  BY <1>1, <1>2 DEF ExitInv
<1>11. QED
  BY <1>4, <1>6, <1>7, <1>8, <1>9, <1>10, CallsUntouched
  DEF RemoveFactoryEntry, IInv, RegistryInv

LEMMA DeleteEntryKeepsInv ==
  ASSUME IInv, NEW t \in Thread, DeleteEntry(t)
  PROVE  IInv'
<1> Writing(t, "delete")
  BY DEF DeleteEntry
<1> DEFINE gone == Deleted(heap[lock.e].mCID)
<1>1. /\ heap' = [heap EXCEPT ![lock.e] = gone] /\ lock' = Unlocked
      /\ mFactories' = mFactories /\ mContractIds' = mContractIds /\ exit' = exit
  BY DEF DeleteEntry
<1>2. gone \in FactoryEntry /\ ~gone.live
  BY WriterFacts DEF Deleted, FactoryEntry, MaybeFactory
<1>3. lock.e \in Entry /\ exit.pc = "up" /\ heap \in [Entry -> FactoryEntry]
      /\ mContractIds \in [ContractID -> Pointer]
  BY WriterFacts DEF IInv, TypeOK
<1>4. heap'[lock.e] = gone /\ \A e \in Entry \ {lock.e} : heap'[e] = heap[e]
  BY <1>1, <1>3
<1>5. SharedTypes'
  BY <1>1, <1>2, <1>3, WriterFacts DEF DeleteEntry, IInv, TypeOK, SharedTypes
<1>6. ClassesSound'
  BY <1>1, <1>4, WriterFacts DEF ClassesSound, Sound
<1>7. ContractTableSound'
  <2>1. ASSUME NEW k \in ContractID, mContractIds[k] # NoEntry
        PROVE  mContractIds[k] \in Entry \ {lock.e}
    <3>1. mContractIds[k] \in Entry
      BY <1>3, <2>1 DEF Pointer
    <3>2. mFactories[heap[mContractIds[k]].mCID] = mContractIds[k]
      BY <2>1 DEF IInv, RegistryInv, ContractTableSound
    <3>3. QED
      BY <3>1, <3>2, WriterFacts
  <2>2. QED
    BY <1>1, <1>4, <2>1 DEF ContractTableSound, IInv, RegistryInv
<1>8. EntriesKept'
  <2>1. \A e \in Entry \ {lock.e} : heap[e].live => mFactories[heap[e].mCID] = e
    BY DEF IInv, RegistryInv, EntriesKept
  <2>2. QED
    BY <1>1, <1>2, <1>3, <1>4, <2>1 DEF EntriesKept
<1>9. WriterInv' /\ ExitInv'
  BY <1>1, <1>3 DEF WriterInv, ExitInv, Unlocked
<1>10. QED
  BY <1>5, <1>6, <1>7, <1>8, <1>9, CallsUntouched DEF DeleteEntry, IInv, RegistryInv

-----------------------------------------------------------------------------
(* CCI_Init and CCI_Shutdown.                                               *)
LEMMA NoWriter ==
  ASSUME IInv, exit.pc # "up"
  PROVE  lock.pc = "free" /\ lock.owner = NoThread
  BY DEF IInv, RegistryInv, WriterInv

LEMMA CCI_InitKeepsInv ==
  ASSUME IInv, CCI_Init
  PROVE  IInv'
<1>1. PICK e \in Entry :
        /\ Allocatable(e)
        /\ heap' = [heap EXCEPT ![e] = NewEntry(CatCID, CatFactory)]
        /\ mFactories' = [c \in CID |-> IF c = CatCID THEN e ELSE NoEntry]
        /\ mContractIds' = [k \in ContractID |-> IF k = CatContract THEN e ELSE NoEntry]
  BY DEF CCI_Init
<1> DEFINE new == NewEntry(CatCID, CatFactory)
<1>2. CatCID \in CID /\ CatContract \in ContractID /\ CatFactory \in Factory /\ e # NoEntry
  BY ConstantsAssumption
<1>3. new \in FactoryEntry /\ new.live /\ new.mCID = CatCID
  BY <1>2 DEF NewEntry, FactoryEntry, MaybeFactory
<1>4. exit.pc = "down" /\ exit' = [pc |-> "up", todo |-> {}] /\ lock' = lock
  BY DEF CCI_Init
<1>5. lock.pc = "free" /\ lock.owner = NoThread
  BY <1>4, NoWriter
<1>6. heap \in [Entry -> FactoryEntry] /\ \A x \in Entry : heap[x].mCID \in CID
  BY DEF IInv, TypeOK, FactoryEntry
<1>7. \A x \in Entry : ~heap[x].live
  <2>1. \A c \in CID : mFactories[c] = NoEntry
    BY <1>4 DEF IInv, RegistryInv, ExitInv
  <2>2. \A x \in Entry : heap[x].live => mFactories[heap[x].mCID] = x
    BY <1>5 DEF IInv, RegistryInv, EntriesKept
  <2>3. QED
    BY <1>6, <2>1, <2>2, ConstantsAssumption
<1>8. heap'[e] = new /\ \A x \in Entry \ {e} : heap'[x] = heap[x]
  BY <1>1, <1>6
<1>9. SharedTypes'
  <2>1. heap' \in [Entry -> FactoryEntry]
    BY <1>1, <1>3, <1>6
  <2>2. /\ mFactories' \in [CID -> Pointer] /\ mContractIds' \in [ContractID -> Pointer]
        /\ exit' \in [pc : ExitPc, todo : SUBSET CID]
    BY <1>1, <1>4 DEF Pointer, ExitPc
  <2>3. QED
    BY <2>1, <2>2 DEF CCI_Init, IInv, TypeOK, SharedTypes
<1>10. ClassesSound' /\ ContractTableSound'
  BY <1>1, <1>2, <1>3, <1>8 DEF ClassesSound, ContractTableSound, Sound
<1>11. EntriesKept'
  BY <1>1, <1>2, <1>3, <1>4, <1>7, <1>8 DEF EntriesKept
<1>12. WriterInv' /\ ExitInv'
  BY <1>4, <1>5 DEF WriterInv, ExitInv
<1>13. QED
  BY <1>9, <1>10, <1>11, <1>12, CallsUntouched DEF CCI_Init, IInv, RegistryInv

LEMMA CCI_ShutdownKeepsInv ==
  ASSUME IInv, CCI_Shutdown
  PROVE  IInv'
<1>1. /\ exit.pc = "up" /\ exit' = [pc |-> "free", todo |-> Registered]
      /\ lock.owner = NoThread /\ gCCIShuttingDown' = TRUE
      /\ UNCHANGED <<mFactories, mContractIds, heap, lock, mMutex, stack, gComponentManager>>
  BY DEF CCI_Shutdown
<1>2. lock.pc = "free"
  BY <1>1 DEF IInv, RegistryInv, WriterInv
<1>3. SharedTypes'
  BY <1>1 DEF IInv, TypeOK, SharedTypes, ExitPc, Registered
<1>4. ClassesSound' /\ ContractTableSound' /\ EntriesKept'
  BY <1>1, <1>2 DEF ClassesSound, Sound, ContractTableSound, EntriesKept, IInv, RegistryInv
<1>5. WriterInv' /\ ExitInv'
  BY <1>1, <1>2 DEF WriterInv, ExitInv
<1>6. QED
  BY <1>1, <1>3, <1>4, <1>5, CallsUntouched DEF IInv, RegistryInv

LEMMA FreeServicesKeepsInv ==
  ASSUME IInv, NEW c \in CID, FreeServices(c)
  PROVE  IInv'
<1>1. /\ exit.pc = "free" /\ exit' = [exit EXCEPT !.todo = @ \ {c}]
      /\ heap' = [heap EXCEPT ![mFactories[c]].mServiceObject = NoFactory]
      /\ UNCHANGED <<mFactories, mContractIds, lock, mMutex, stack, gComponentManager,
                     gCCIShuttingDown>>
  BY DEF FreeServices, ExitAt, Visited
<1>2. exit \in [pc : ExitPc, todo : SUBSET CID] /\ heap \in [Entry -> FactoryEntry]
  BY DEF IInv, TypeOK
<1>3. exit'.pc = "free" /\ exit' \in [pc : ExitPc, todo : SUBSET CID]
  BY <1>1, <1>2
<1>4. heap' \in [Entry -> FactoryEntry] /\ SameEntries
  <2>1. ASSUME NEW x \in Entry
        PROVE  heap'[x] \in {heap[x], [heap[x] EXCEPT !.mServiceObject = NoFactory]}
    BY <1>1, <1>2
  <2>2. \A x \in Entry : [heap[x] EXCEPT !.mServiceObject = NoFactory] \in FactoryEntry
    BY <1>2 DEF FactoryEntry, MaybeFactory
  <2>3. \A x \in Entry : heap[x] \in FactoryEntry /\ heap'[x] \in FactoryEntry
    BY <1>2, <2>1, <2>2
  <2>4. \A x \in Entry : heap'[x].live = heap[x].live /\ heap'[x].mCID = heap[x].mCID
    BY <2>1, <2>3 DEF FactoryEntry
  <2>5. QED
    BY <1>1, <1>2, <2>3, <2>4 DEF SameEntries
<1>5. SharedTypes'
  BY <1>1, <1>3, <1>4 DEF IInv, TypeOK, SharedTypes
<1>6. mFactories \in [CID -> Pointer] /\ mContractIds \in [ContractID -> Pointer]
  BY DEF IInv, TypeOK
<1>7. ClassesSound'
  BY <1>1, <1>3, <1>4, <1>6 DEF ClassesSound, Sound, SameEntries, Pointer, IInv, RegistryInv
<1>8. ContractTableSound'
  BY <1>1, <1>4, <1>6 DEF ContractTableSound, SameEntries, Pointer, IInv, RegistryInv
<1>9. lock.pc = "free" /\ lock.owner = NoThread
  BY <1>1, NoWriter
<1>10. EntriesKept' /\ WriterInv' /\ ExitInv'
  BY <1>1, <1>3, <1>4, <1>9 DEF EntriesKept, WriterInv, ExitInv, SameEntries, IInv, RegistryInv
<1>11. QED
  BY <1>1, <1>5, <1>7, <1>8, <1>10, CallsUntouched DEF IInv, RegistryInv

LEMMA ReleaseManagerKeepsInv ==
  ASSUME IInv, ReleaseManager
  PROVE  IInv'
<1>1. /\ exit.pc = "free" /\ exit' = [pc |-> "delete", todo |-> Registered]
      /\ mContractIds' = [k \in ContractID |-> NoEntry]
      /\ UNCHANGED <<mFactories, heap, lock, mMutex, stack, gComponentManager, gCCIShuttingDown>>
  BY DEF ReleaseManager, ExitAt
<1>2. lock.pc = "free" /\ lock.owner = NoThread
  BY <1>1, NoWriter
<1>3. SharedTypes'
  BY <1>1 DEF IInv, TypeOK, SharedTypes, ExitPc, Registered, Pointer
<1>4. ClassesSound' /\ ContractTableSound'
  BY <1>1 DEF ClassesSound, Sound, ContractTableSound, IInv, RegistryInv
<1>5. EntriesKept'
  <2>1. ASSUME NEW e \in Entry, heap[e].live
        PROVE  mFactories[heap[e].mCID] = e /\ heap[e].mCID \in Registered
    <3>1. heap[e].mCID \in CID /\ e # NoEntry
      BY ConstantsAssumption DEF IInv, TypeOK, FactoryEntry
    <3>2. mFactories[heap[e].mCID] = e
      BY <1>2, <2>1 DEF IInv, RegistryInv, EntriesKept
    <3>3. QED
      BY <3>1, <3>2 DEF Registered
  <2>2. QED
    BY <1>1, <2>1 DEF EntriesKept
<1>6. WriterInv' /\ ExitInv'
  BY <1>1, <1>2 DEF WriterInv, ExitInv
<1>7. QED
  BY <1>1, <1>3, <1>4, <1>5, <1>6, CallsUntouched DEF IInv, RegistryInv

LEMMA ShutdownEntryKeepsInv ==
  ASSUME IInv, NEW c \in CID, ShutdownEntry(c)
  PROVE  IInv'
<1> DEFINE e == mFactories[c]
           gone == Deleted(heap[e].mCID)
<1>1. /\ exit.pc = "delete" /\ c \in exit.todo /\ exit' = [exit EXCEPT !.todo = @ \ {c}]
      /\ heap' = [heap EXCEPT ![e] = gone]
      /\ UNCHANGED <<mFactories, mContractIds, lock, mMutex, stack, gComponentManager,
                     gCCIShuttingDown>>
  BY DEF ShutdownEntry, ExitAt, Visited
<1>2. exit \in [pc : ExitPc, todo : SUBSET CID] /\ heap \in [Entry -> FactoryEntry]
      /\ mFactories \in [CID -> Pointer] /\ \A x \in Entry : heap[x].mCID \in CID
  BY DEF IInv, TypeOK, FactoryEntry
<1>3. exit'.pc = "delete" /\ exit'.todo = exit.todo \ {c}
      /\ exit' \in [pc : ExitPc, todo : SUBSET CID]
  BY <1>1, <1>2
<1>4. /\ \A x \in Entry : heap'[x] = IF x = e THEN gone ELSE heap[x]
      /\ ~gone.live
      /\ heap' \in [Entry -> FactoryEntry]
  <2>1. \A d \in CID : Deleted(d) \in FactoryEntry
    BY DEF Deleted, FactoryEntry, MaybeFactory
  <2>2. ~gone.live
    BY DEF Deleted
  <2>3. e \in Entry => gone \in FactoryEntry
    BY <1>2, <2>1
  <2>4. QED
    BY <1>1, <1>2, <2>2, <2>3
<1>5. SharedTypes'
  BY <1>1, <1>3, <1>4 DEF IInv, TypeOK, SharedTypes
<1>6. lock.pc = "free" /\ lock.owner = NoThread
  BY <1>1, NoWriter
<1>7. ClassesSound'
  <2>1. ASSUME NEW d \in CID, mFactories[d] # NoEntry, d \in exit'.todo
        PROVE  heap'[mFactories[d]].live /\ heap'[mFactories[d]].mCID = d
    <3>1. d \in exit.todo /\ d # c /\ mFactories[d] \in Entry
      BY <1>2, <1>3, <2>1 DEF Pointer
    <3>2. Sound(d) /\ (e # NoEntry => Sound(c))
      BY <1>1, <2>1, <3>1 DEF IInv, RegistryInv, ClassesSound
    <3>3. mFactories[d] # e
      BY <2>1, <3>1, <3>2 DEF Sound
    <3>4. QED
      BY <1>4, <3>1, <3>2, <3>3 DEF Sound
  <2>2. QED
    BY <1>1, <1>3, <2>1 DEF ClassesSound, Sound
<1>8. ContractTableSound' /\ ExitInv'
  BY <1>1, <1>3 DEF ContractTableSound, ExitInv, IInv, RegistryInv
<1>9. EntriesKept'
  <2>1. ASSUME NEW x \in Entry, heap'[x].live
        PROVE  mFactories[heap'[x].mCID] = x /\ heap'[x].mCID \in exit'.todo
    <3>1. x # e /\ heap'[x] = heap[x] /\ heap[x].live
      BY <1>4, <2>1
    <3>2. mFactories[heap[x].mCID] = x /\ heap[x].mCID \in exit.todo
      BY <1>1, <1>6, <3>1 DEF IInv, RegistryInv, EntriesKept
    <3>3. QED
      BY <1>3, <3>1, <3>2
  <2>2. QED
    BY <1>1, <1>3, <2>1 DEF EntriesKept
<1>10. WriterInv'
  BY <1>1, <1>6 DEF WriterInv
<1>11. QED
  BY <1>1, <1>5, <1>7, <1>8, <1>9, <1>10, CallsUntouched DEF IInv, RegistryInv

LEMMA ShutdownCompleteKeepsInv ==
  ASSUME IInv, ShutdownComplete
  PROVE  IInv'
<1>1. /\ exit.pc = "delete" /\ exit.todo = {} /\ exit' = [pc |-> "down", todo |-> {}]
      /\ mFactories' = [c \in CID |-> NoEntry] /\ gComponentManager' = FALSE
      /\ UNCHANGED <<mContractIds, heap, lock, mMutex, stack, gCCIShuttingDown>>
  BY DEF ShutdownComplete, ExitAt
<1>2. lock.pc = "free" /\ lock.owner = NoThread
  BY <1>1, NoWriter
<1>3. SharedTypes'
  BY <1>1 DEF IInv, TypeOK, SharedTypes, ExitPc, Pointer
<1>4. ClassesSound' /\ ContractTableSound' /\ ExitInv' /\ WriterInv'
  BY <1>1, <1>2 DEF ClassesSound, ContractTableSound, ExitInv, WriterInv, IInv, RegistryInv
<1>5. EntriesKept'
  BY <1>1, <1>2 DEF EntriesKept, IInv, RegistryInv
<1>6. QED
  BY <1>1, <1>3, <1>4, <1>5, CallsUntouched DEF IInv, RegistryInv

-----------------------------------------------------------------------------
(* Every step keeps the invariant.                                          *)
LEMMA NextKeepsInv ==
  ASSUME IInv, [Next]_vars
  PROVE  IInv'
<1>1. TypeOK /\ CallsInv
  BY DEF IInv, TypeOK, CallsInv
<1>2. ASSUME NEW t \in Thread, NEW op \in ReadCall, NEW key \in CID \cup ContractID,
             BeginCall(t, op, key)
      PROVE  IInv'
  BY <1>1, <1>2, BeginCallKeeps, CallKeepsInv
<1>3. ASSUME NEW t \in Thread, CallStep(t) \/ Undefined(t)
      PROVE  IInv'
  BY <1>1, <1>3, CallStepKeeps, UndefinedKeeps, CallKeepsInv
<1>4. ASSUME NEW t \in Thread, RegistrarStep(t)
      PROVE  IInv'
  BY <1>4, HashContractIDKeepsInv, EraseContractIDKeepsInv, RemoveFactoryEntryKeepsInv,
     DeleteEntryKeepsInv DEF RegistrarStep
<1>5. ASSUME ExitStep
      PROVE  IInv'
  BY <1>5, FreeServicesKeepsInv, ShutdownEntryKeepsInv, ReleaseManagerKeepsInv,
     ShutdownCompleteKeepsInv DEF ExitStep
<1>6. CASE UNCHANGED vars
  BY <1>6 DEF vars, IInv, TypeOK, MutexInv, RegistryInv, ClassesSound, Sound,
     ContractTableSound, EntriesKept, WriterInv, ExitInv
<1>7. QED
  BY <1>2, <1>3, <1>4, <1>5, <1>6, RegisterFactoryKeepsInv, RegisterFactoryLocationKeepsInv,
     UnregisterFactoryKeepsInv, CCI_InitKeepsInv, CCI_ShutdownKeepsInv DEF Next

(* IInv is an inductive invariant of the component manager.                 *)
THEOREM Invariance == Spec => []IInv
<1>1. Init => IInv
  BY InitInv
<1>2. IInv /\ [Next]_vars => IInv'
  BY NextKeepsInv
<1>3. QED
  BY <1>1, <1>2, PTL DEF Spec

(* Tables, entries, locks and calls in progress always have their types; in *)
(* particular a call past its look-up holds the address of an entry.        *)
THEOREM TypeCorrect == Spec => []TypeOK
<1>1. IInv => TypeOK
  BY DEF IInv
<1>2. QED
  BY <1>1, Invariance, PTL

(* No step order, of any number of threads, leaves a table with a dangling  *)
(* pointer or with an entry under the wrong class.                          *)
THEOREM TablesAreSound == Spec => []TablesSound
<1>1. IInv => TablesSound
  BY DEF IInv, RegistryInv, TablesSound, ClassTableSound, ClassesSound, Sound
<1>2. QED
  BY <1>1, Invariance, PTL

(* No registration, replacement, unregistration or shutdown loses an entry. *)
THEOREM EntriesDoNotLeak == Spec => []NoEntryLeaks
<1>1. IInv => NoEntryLeaks
  BY DEF IInv, RegistryInv, NoEntryLeaks, EntriesKept
<1>2. QED
  BY <1>1, Invariance, PTL

(* mMutex counts the calls its owner is inside of, and no other thread is   *)
(* inside GetService or GetClassObject: its acquisitions and its releases   *)
(* match on every path, the early returns and nested requests included.     *)
THEOREM MutexIsExclusive == Spec => []MutexInv
<1>1. IInv => MutexInv
  BY DEF IInv
<1>2. QED
  BY <1>1, Invariance, PTL
-----------------------------------------------------------------------------
(* Services: an entry makes one service, keeps it, and has none when it     *)
(* goes; and a call in progress has a live entry under its feet as long as  *)
(* nobody unregisters.                                                      *)

(* A component is above those its constructor asks for.                     *)
Rank == CHOOSE rank \in [CID -> 1..Cardinality(CID)] :
          \A c \in CID : Needs[c] # NoCID => rank[Needs[c]] < rank[c]

(* A GetService that has found no service object and will make one.         *)
Making(fr) == fr.op = "GetService" /\ fr.pc \notin {"lookup", "service"}

(* What a call knows of its entry, and has in its hands.                    *)
FrameInv(h, fr) ==
  /\ fr.op = "GetService" /\ fr.pc # "lookup" /\ fr.key \in CID =>
       h[fr.e].mCID = fr.key
  /\ fr.pc \in {"construct", "nested", "store"} => fr.f # NoFactory
  /\ fr.pc = "store" => fr.op = "GetService"
  /\ Making(fr) => h[fr.e].mServiceObject = NoFactory

(* Every call of a stack but the innermost is a constructor that waits for  *)
(* a service, and the calls above it are for components of lower rank.      *)
Nested(h, s) ==
  \A i, j \in DOMAIN s : i < j =>
    /\ s[i].pc = "nested" /\ s[j].op = "GetService" /\ s[j].key \in CID
    /\ Rank[s[j].key] < Rank[h[s[i].e].mCID]

StackInv(h, s) == (\A i \in DOMAIN s : FrameInv(h, s[i])) /\ Nested(h, s)
StacksInv == \A t \in Thread : StackInv(heap, stack[t])

(* From the moment the flag is up until CCI_Init no call is in progress     *)
(* that could make a service: the refused ones never begin, and what is     *)
(* left is the GetClassObject of a destructor.                              *)
AllLate(t, s) ==
  \A i \in DOMAIN s : t = Main /\ exit.pc # "down" /\ s[i].op = "GetClassObject"
FlagInv ==
  /\ gCCIShuttingDown <=> exit.pc # "up"
  /\ gCCIShuttingDown => \A t \in Thread : AllLate(t, stack[t])

(* The service object of an entry tells whether it has made one.            *)
MadeInv ==
  \A e \in Entry :
    /\ heap[e].made <= 1
    /\ ~heap[e].live => heap[e].mServiceObject = NoFactory /\ heap[e].made = 0
    /\ heap[e].mServiceObject = NoFactory /\ ~gCCIShuttingDown => heap[e].made = 0

(* FreeServices has freed what it has visited.                              *)
FreedInv ==
  /\ exit.pc = "free" =>
       \A c \in CID \ exit.todo :
         mFactories[c] # NoEntry => heap[mFactories[c]].mServiceObject = NoFactory
  /\ ServicesGoFirst

ServicesInv == StacksInv /\ FlagInv /\ MadeInv /\ FreedInv

SInv == IInv /\ ServicesInv

-----------------------------------------------------------------------------
LEMMA RankFacts ==
  /\ Rank \in [CID -> 1..Cardinality(CID)]
  /\ \A c \in CID : Needs[c] # NoCID => Rank[Needs[c]] < Rank[c]
  BY NeedsAcyclic DEF Rank

LEMMA RankOrders ==
  ASSUME NEW a \in CID, NEW b \in CID
  PROVE  /\ Rank[a] < Rank[b] => a # b
         /\ \A c \in CID : Rank[a] < Rank[b] /\ Rank[b] < Rank[c] => Rank[a] < Rank[c]
<1>1. \A c \in CID : Rank[c] \in Int
  BY RankFacts
<1>2. QED
  BY <1>1

(* Stacks: the innermost call moves, returns, or calls.                     *)
LEMMA MoveStack ==
  ASSUME NEW h, NEW s \in Seq(Frame), s # <<>>, StackInv(h, s),
         NEW fr \in Frame, fr.op = s[Len(s)].op, fr.key = s[Len(s)].key, FrameInv(h, fr)
  PROVE  StackInv(h, SetTop(s, fr))
<1>1. /\ DOMAIN SetTop(s, fr) = DOMAIN s /\ DOMAIN s = 1..Len(s) /\ Len(s) \in Nat
      /\ \A i \in DOMAIN s : SetTop(s, fr)[i] = IF i = Len(s) THEN fr ELSE s[i]
  BY DEF SetTop
<1>2. \A i, j \in DOMAIN s : i < j => i # Len(s)
  BY <1>1
<1>3. QED
  BY <1>1, <1>2 DEF StackInv, Nested

LEMMA PopStack ==
  ASSUME NEW h, NEW s \in Seq(Frame), s # <<>>, StackInv(h, s)
  PROVE  StackInv(h, Pop(s))
<1>1. /\ DOMAIN Pop(s) = 1..(Len(s) - 1) /\ DOMAIN s = 1..Len(s) /\ Len(s) \in Nat
      /\ \A i \in 1..(Len(s) - 1) : Pop(s)[i] = s[i]
  BY DEF Pop
<1>2. DOMAIN Pop(s) \subseteq DOMAIN s
  BY <1>1
<1>3. QED
  BY <1>1, <1>2 DEF StackInv, Nested

LEMMA PushStack ==
  ASSUME NEW h, NEW s \in Seq(Frame), StackInv(h, s),
         \A i \in DOMAIN s : h[s[i].e].mCID \in CID,
         NEW op, NEW key,
         s # <<>> => /\ s[Len(s)].pc = "nested" /\ op = "GetService" /\ key \in CID
                     /\ Rank[key] < Rank[h[s[Len(s)].e].mCID]
  PROVE  StackInv(h, Append(s, NewFrame(op, key)))
<1> DEFINE fr == NewFrame(op, key)
           s2 == Append(s, fr)
<1>1. /\ DOMAIN s2 = 1..(Len(s) + 1) /\ DOMAIN s = 1..Len(s) /\ Len(s) \in Nat
      /\ \A i \in 1..Len(s) : s2[i] = s[i]
      /\ s2[Len(s) + 1] = fr
  OBVIOUS
<1>2. FrameInv(h, fr) /\ fr.op = op /\ fr.key = key
  BY DEF NewFrame, FrameInv, Making
<1>3. ASSUME NEW i \in DOMAIN s
      PROVE  /\ s[i].pc = "nested" /\ op = "GetService" /\ key \in CID
             /\ Rank[key] < Rank[h[s[i].e].mCID]
  <2>1. s # <<>> /\ Len(s) \in DOMAIN s
    BY <1>1, <1>3
  <2>2. CASE i = Len(s)
    BY <2>1, <2>2
  <2>3. CASE i # Len(s)
    <3>1. i < Len(s)
      BY <1>1, <2>3
    <3>2. /\ s[i].pc = "nested" /\ s[Len(s)].key \in CID
          /\ Rank[s[Len(s)].key] < Rank[h[s[i].e].mCID]
      BY <2>1, <3>1 DEF StackInv, Nested
    <3>3. h[s[Len(s)].e].mCID = s[Len(s)].key
      <4>1. s[Len(s)].op = "GetService"
        BY <2>1, <3>1 DEF StackInv, Nested
      <4>2. QED
        BY <2>1, <3>2, <4>1 DEF StackInv, FrameInv
    <3>4. QED
      BY <2>1, <3>2, <3>3, RankOrders
  <2>4. QED
    BY <2>2, <2>3
<1>4. \A i \in DOMAIN s2 : FrameInv(h, s2[i])
  BY <1>1, <1>2 DEF StackInv
<1>5. ASSUME NEW i \in DOMAIN s2, NEW j \in DOMAIN s2, i < j
      PROVE  /\ s2[i].pc = "nested" /\ s2[j].op = "GetService" /\ s2[j].key \in CID
             /\ Rank[s2[j].key] < Rank[h[s2[i].e].mCID]
  <2>1. i \in DOMAIN s
    BY <1>1, <1>5
  <2>2. CASE j \in DOMAIN s
    BY <1>1, <1>5, <2>1, <2>2 DEF StackInv, Nested
  <2>3. CASE j = Len(s) + 1
    BY <1>1, <1>2, <1>3, <2>1, <2>3
  <2>4. QED
    BY <1>1, <2>2, <2>3
<1>6. QED
  BY <1>4, <1>5 DEF StackInv, Nested

(* The heap changes under a stack: not in what its calls rely on.           *)
LEMMA HeapUnderStack ==
  ASSUME NEW h, NEW h2, NEW s \in Seq(Frame), StackInv(h, s),
         \A i \in DOMAIN s : s[i].pc # "lookup" =>
           /\ h2[s[i].e].mCID = h[s[i].e].mCID
           /\ Making(s[i]) => h2[s[i].e].mServiceObject = NoFactory
  PROVE  StackInv(h2, s)
  BY DEF StackInv, FrameInv, Nested, Making

-----------------------------------------------------------------------------
(* Calls in progress.                                                       *)
SameServices ==
  \A e \in Entry : /\ heap'[e].mCID = heap[e].mCID /\ heap'[e].live = heap[e].live
                   /\ heap'[e].mServiceObject = heap[e].mServiceObject
                   /\ heap'[e].made = heap[e].made

LEMMA FrameFacts ==
  ASSUME SInv
  PROVE  /\ \A t \in Thread : stack[t] \in Seq(Frame) /\ StackInv(heap, stack[t])
         /\ \A t \in Thread : \A i \in DOMAIN stack[t] :
              /\ stack[t][i] \in Frame
              /\ stack[t][i].pc # "lookup" => stack[t][i].e \in Entry
         /\ \A e \in Entry : heap[e] \in FactoryEntry /\ heap[e].mCID \in CID
<1>1. \A t \in Thread : stack[t] \in Seq(Frame)
  BY DEF SInv, IInv, TypeOK
<1>2. \A fr \in Frame : fr.pc # "lookup" => fr.e \in Entry
  BY DEF Frame
<1>3. \A e \in Entry : heap[e] \in FactoryEntry /\ heap[e].mCID \in CID
  BY DEF SInv, IInv, TypeOK, FactoryEntry
<1>4. QED
  BY <1>1, <1>2, <1>3 DEF SInv, ServicesInv, StacksInv

LEMMA SameServicesKeep ==
  ASSUME SInv, SameServices, UNCHANGED gCCIShuttingDown
  PROVE  MadeInv' /\ \A t \in Thread : StackInv(heap', stack[t])
<1>1. MadeInv'
  BY DEF SInv, ServicesInv, MadeInv, SameServices
<1>2. ASSUME NEW t \in Thread
      PROVE  StackInv(heap', stack[t])
  <2>1. \A i \in DOMAIN stack[t] : stack[t][i].pc # "lookup" =>
          /\ heap'[stack[t][i].e].mCID = heap[stack[t][i].e].mCID
          /\ Making(stack[t][i]) => heap'[stack[t][i].e].mServiceObject = NoFactory
    BY FrameFacts DEF SameServices, StackInv, FrameInv
  <2>2. QED
    BY <2>1, FrameFacts, HeapUnderStack
<1>3. QED
  BY <1>1, <1>2

(* While a call that is not a GetClassObject is in progress CCI is up.      *)
LEMMA CallIsUp ==
  ASSUME SInv, NEW t \in Thread, ~Idle(t), Top(t).op # "GetClassObject"
  PROVE  ~gCCIShuttingDown /\ exit.pc = "up"
<1>1. Len(stack[t]) \in DOMAIN stack[t]
  BY FrameFacts DEF Idle
<1>2. QED
  BY <1>1 DEF SInv, ServicesInv, FlagInv, AllLate, Top

(* When Main runs no destructor, and when CCI is down, nobody calls.        *)
LEMMA NoneLate ==
  ASSUME SInv, gCCIShuttingDown, Idle(Main) \/ exit.pc = "down"
  PROVE  \A t \in Thread : Idle(t)
<1>1. SUFFICES ASSUME NEW t \in Thread, ~Idle(t)
               PROVE  FALSE
  OBVIOUS
<1>2. Len(stack[t]) \in DOMAIN stack[t]
  BY <1>1, FrameFacts DEF Idle
<1>3. t = Main /\ exit.pc # "down"
  BY <1>2 DEF SInv, ServicesInv, FlagInv, AllLate
<1>4. QED
  BY <1>1, <1>3

LEMMA LateStack ==
  ASSUME NEW t, NEW s \in Seq(Frame), s # <<>>, AllLate(t, s)
  PROVE  /\ AllLate(t, Pop(s))
         /\ \A fr : fr.op = s[Len(s)].op => AllLate(t, SetTop(s, fr))
<1>1. /\ DOMAIN Pop(s) \subseteq DOMAIN s /\ Len(s) \in DOMAIN s
      /\ \A i \in DOMAIN Pop(s) : Pop(s)[i] = s[i]
  BY DEF Pop
<1>2. \A fr : /\ DOMAIN SetTop(s, fr) = DOMAIN s
              /\ \A i \in DOMAIN s : SetTop(s, fr)[i] = IF i = Len(s) THEN fr ELSE s[i]
  BY DEF SetTop
<1>3. AllLate(t, Pop(s))
  BY <1>1 DEF AllLate
<1>4. ASSUME NEW fr, fr.op = s[Len(s)].op
      PROVE  AllLate(t, SetTop(s, fr))
  BY <1>1, <1>2, <1>4 DEF AllLate
<1>5. QED
  BY <1>3, <1>4

(* A step of t's calls, when it has been seen what it does to t's stack and *)
(* to the heap.                                                             *)
LEMMA CallKeepsServices ==
  ASSUME SInv, NEW t \in Thread, NEW s,
         gCCIShuttingDown => AllLate(t, s) /\ SameServices,
         UNCHANGED <<gCCIShuttingDown, exit, mFactories>>,
         stack' = [stack EXCEPT ![t] = s], StackInv(heap', s),
         \A u \in Thread \ {t} : StackInv(heap', stack[u]), MadeInv'
  PROVE  ServicesInv'
<1>1. stack'[t] = s /\ \A u \in Thread \ {t} : stack'[u] = stack[u]
  BY DEF SInv, IInv, TypeOK
<1>2. StacksInv'
  BY <1>1 DEF StacksInv
<1>3. FlagInv'
  BY <1>1 DEF SInv, ServicesInv, FlagInv, AllLate
<1>4. FreedInv'
  <2>1. CASE ~gCCIShuttingDown
    BY <2>1 DEF SInv, ServicesInv, FlagInv, FreedInv, ServicesGoFirst
  <2>2. CASE gCCIShuttingDown
    <3>1. \A c \in CID : mFactories[c] # NoEntry => mFactories[c] \in Entry
      BY DEF SInv, IInv, TypeOK, Pointer
    <3>2. QED
      BY <2>2, <3>1 DEF SInv, ServicesInv, FreedInv, ServicesGoFirst, SameServices
  <2>3. QED
    BY <2>1, <2>2
<1>5. QED
  BY <1>2, <1>3, <1>4 DEF ServicesInv

LEMMA TopFacts ==
  ASSUME SInv, NEW t \in Thread, ~Idle(t)
  PROVE  /\ stack[t] \in Seq(Frame) /\ stack[t] # <<>> /\ Len(stack[t]) \in DOMAIN stack[t]
         /\ Top(t) \in Frame /\ Top(t) = stack[t][Len(stack[t])]
         /\ Top(t).pc # "lookup" => Top(t).e \in Entry
         /\ FrameInv(heap, Top(t))
<1>1. stack[t] \in Seq(Frame) /\ stack[t] # <<>> /\ Len(stack[t]) \in DOMAIN stack[t]
  BY FrameFacts DEF Idle
<1>2. QED
  BY <1>1, FrameFacts DEF Top, StackInv

LEMMA ReturnKeepsServices ==
  ASSUME SInv, NEW t \in Thread, ~Idle(t), Return(t), SameServices,
         UNCHANGED <<gCCIShuttingDown, exit, mFactories>>
  PROVE  ServicesInv'
<1>1. StackInv(heap', Pop(stack[t]))
  BY TopFacts, SameServicesKeep, PopStack
<1>2. stack' = [stack EXCEPT ![t] = Pop(stack[t])]
  BY DEF Return, SInv, IInv, TypeOK
<1>3. gCCIShuttingDown => AllLate(t, Pop(stack[t]))
  BY TopFacts, LateStack DEF SInv, ServicesInv, FlagInv
<1>4. QED
  BY <1>1, <1>2, <1>3, SameServicesKeep, CallKeepsServices

(* The innermost call goes on to pc, with the factory f.                    *)
LEMMA GotoKeepsServices ==
  ASSUME SInv, NEW t \in Thread, ~Idle(t), Top(t).pc # "lookup", SameServices,
         NEW pc \in ReadPc, NEW f \in MaybeFactory,
         \/ Goto(t, pc) /\ f = Top(t).f
         \/ GotoWith(t, pc, f),
         pc \in {"construct", "nested", "store"} => f # NoFactory,
         pc = "store" => Top(t).op = "GetService",
         Top(t).op = "GetService" => heap[Top(t).e].mServiceObject = NoFactory,
         UNCHANGED <<gCCIShuttingDown, exit, mFactories>>
  PROVE  ServicesInv'
<1> DEFINE fr == [Top(t) EXCEPT !.pc = pc, !.f = f]
<1>1. /\ Top(t) \in Frame /\ Top(t) = stack[t][Len(stack[t])] /\ Top(t).e \in Entry
      /\ stack[t] \in Seq(Frame) /\ stack[t] # <<>>
  BY TopFacts
<1>2. fr \in Frame /\ fr.op = Top(t).op /\ fr.key = Top(t).key /\ fr.e = Top(t).e
      /\ fr.pc = pc /\ fr.f = f
  BY <1>1 DEF Frame
<1>3. stack' = [stack EXCEPT ![t] = SetTop(stack[t], fr)]
  <2>1. CASE GotoWith(t, pc, f)
    BY <2>1 DEF GotoWith, SInv, IInv, TypeOK
  <2>2. CASE Goto(t, pc) /\ f = Top(t).f
    <3>1. fr = [Top(t) EXCEPT !.pc = pc]
      BY <1>1, <2>2 DEF Frame
    <3>2. QED
      BY <2>2, <3>1 DEF Goto, SInv, IInv, TypeOK
  <2>3. QED
    BY <2>1, <2>2
<1>4. FrameInv(heap', fr)
  <2>1. fr.op = "GetService" /\ fr.key \in CID => heap'[fr.e].mCID = fr.key
    BY <1>1, <1>2, TopFacts DEF FrameInv, SameServices
  <2>2. Making(fr) => heap'[fr.e].mServiceObject = NoFactory
    BY <1>1, <1>2 DEF Making, SameServices
  <2>3. QED
    BY <1>2, <2>1, <2>2 DEF FrameInv
<1>5. StackInv(heap', SetTop(stack[t], fr))
  BY <1>1, <1>2, <1>4, SameServicesKeep, MoveStack
<1>6. gCCIShuttingDown => AllLate(t, SetTop(stack[t], fr))
  BY <1>1, <1>2, LateStack DEF SInv, ServicesInv, FlagInv
<1>7. QED
  BY <1>3, <1>5, <1>6, SameServicesKeep, CallKeepsServices

LEMMA LookUpKeepsServices ==
  ASSUME SInv, NEW t \in Thread, LookUp(t)
  PROVE  ServicesInv'
<1> DEFINE found == FindEntry(Top(t).key)
           fr == [Top(t) EXCEPT !.e = found,
                    !.pc = IF Top(t).op = "GetService" THEN "service" ELSE "factory"]
<1>1. /\ ~Idle(t) /\ SameServices /\ heap' = heap
      /\ UNCHANGED <<gCCIShuttingDown, exit, mFactories>>
  BY DEF LookUp, At, SameServices
<1>2. CASE found = NoEntry
  BY <1>1, <1>2, ReturnKeepsServices DEF LookUp
<1>3. CASE found # NoEntry
  <2>1. Top(t) \in Frame /\ stack[t] \in Seq(Frame) /\ stack[t] # <<>>
        /\ Top(t) = stack[t][Len(stack[t])]
    BY <1>1, TopFacts
  <2>2. found \in Entry
    BY <1>3, <2>1 DEF FindEntry, SInv, IInv, TypeOK, Pointer, Frame
  <2>3. fr \in Frame /\ fr.op = Top(t).op /\ fr.key = Top(t).key /\ fr.e = found
        /\ fr.pc = IF Top(t).op = "GetService" THEN "service" ELSE "factory"
    BY <2>1, <2>2 DEF Frame, Pointer, ReadPc
  <2>4. Top(t).op = "GetService" /\ Top(t).key \in CID => heap[found].mCID = Top(t).key
    BY <1>1, <1>3, CallIsUp DEF FindEntry, SInv, IInv, RegistryInv, ClassesSound, Sound
  <2>5. FrameInv(heap, fr)
    BY <2>3, <2>4 DEF FrameInv, Making
  <2>6. StackInv(heap, SetTop(stack[t], fr))
    BY <2>1, <2>3, <2>5, FrameFacts, MoveStack
  <2>7. stack' = [stack EXCEPT ![t] = SetTop(stack[t], fr)]
    BY <1>3 DEF LookUp, SInv, IInv, TypeOK
  <2>8. gCCIShuttingDown => AllLate(t, SetTop(stack[t], fr))
    BY <2>1, <2>3, LateStack DEF SInv, ServicesInv, FlagInv
  <2>9. QED
    BY <1>1, <2>6, <2>7, <2>8, SameServicesKeep, CallKeepsServices
<1>4. QED
  BY <1>2, <1>3

(* The one step that makes a service: no other call is making one for the   *)
(* same entry. Another thread's would need the mutex; an outer call of the  *)
(* same thread is for a component of higher rank.                           *)
LEMMA StoreServiceKeepsServices ==
  ASSUME SInv, NEW t \in Thread, StoreService(t)
  PROVE  ServicesInv'
<1> DEFINE s == stack[t]
           e == Top(t).e
<1>1. /\ ~Idle(t) /\ Top(t).pc = "store" /\ heap[e].live /\ Return(t)
      /\ UNCHANGED <<gCCIShuttingDown, exit, mFactories>>
      /\ heap' = [heap EXCEPT ![e].mServiceObject = Top(t).f, ![e].made = @ + 1]
  BY DEF StoreService, Using, At
<1>2. /\ s \in Seq(Frame) /\ s # <<>> /\ Len(s) \in DOMAIN s
      /\ Top(t) \in Frame /\ Top(t) = s[Len(s)] /\ e \in Entry
      /\ FrameInv(heap, Top(t)) /\ Top(t).f # NoFactory
  BY <1>1, TopFacts DEF FrameInv
<1>3. /\ heap'[e].mServiceObject = Top(t).f /\ heap'[e].made = heap[e].made + 1
      /\ heap'[e].mCID = heap[e].mCID /\ heap'[e].live
      /\ \A x \in Entry \ {e} : heap'[x] = heap[x]
  <2>1. heap \in [Entry -> FactoryEntry]
    BY DEF SInv, IInv, TypeOK
  <2>2. QED
    BY <1>1, <1>2, <2>1 DEF FactoryEntry
<1>4. Top(t).op = "GetService"
  BY <1>1, <1>2 DEF FrameInv
<1>5. heap[e].mServiceObject = NoFactory /\ heap[e].made = 0
  <2>1. Making(Top(t))
    BY <1>1, <1>4 DEF Making
  <2>2. QED
    BY <1>1, <1>2, <1>4, <2>1, CallIsUp DEF FrameInv, SInv, ServicesInv, MadeInv
<1>6. MadeInv'
  <2>1. gCCIShuttingDown' = gCCIShuttingDown
    BY <1>1
  <2>2. \A x \in Entry \ {e} : heap'[x] = heap[x]
    BY <1>3
  <2>3. /\ heap'[e].made = 1 /\ heap'[e].mServiceObject # NoFactory /\ heap'[e].live
    BY <1>2, <1>3, <1>5
  <2>4. QED
    BY <2>1, <2>2, <2>3 DEF MadeInv, SInv, ServicesInv
<1>7. ASSUME NEW i \in DOMAIN s, i # Len(s)
      PROVE  s[i].e # e
  <2>1. i < Len(s)
    BY <1>2, <1>7
  <2>2. /\ s[i].pc = "nested" /\ s[Len(s)].key \in CID
        /\ Rank[s[Len(s)].key] < Rank[heap[s[i].e].mCID]
    BY <1>2, <2>1, FrameFacts DEF StackInv, Nested
  <2>3. heap[e].mCID = s[Len(s)].key
    BY <1>1, <1>2, <1>4, <2>2 DEF FrameInv
  <2>4. QED
    BY <1>2, <1>7, <2>2, <2>3, FrameFacts, RankOrders
<1>8. StackInv(heap', Pop(s))
  <2>1. Pop(s) \in Seq(Frame) /\ StackInv(heap, Pop(s))
    BY <1>2, FrameFacts, PopFacts, PopStack
  <2>2. ASSUME NEW i \in DOMAIN Pop(s)
        PROVE  Pop(s)[i] = s[i] /\ i \in DOMAIN s /\ i # Len(s)
    BY <1>2 DEF Pop
  <2>3. \A i \in DOMAIN Pop(s) : Pop(s)[i].pc # "lookup" =>
          heap'[Pop(s)[i].e] = heap[Pop(s)[i].e]
    BY <1>3, <1>7, <2>2, FrameFacts
  <2>4. \A i \in DOMAIN Pop(s) : FrameInv(heap, Pop(s)[i])
    BY <2>1 DEF StackInv
  <2>5. \A i \in DOMAIN Pop(s) : Pop(s)[i].pc # "lookup" =>
          /\ heap'[Pop(s)[i].e].mCID = heap[Pop(s)[i].e].mCID
          /\ Making(Pop(s)[i]) => heap'[Pop(s)[i].e].mServiceObject = NoFactory
    BY <2>3, <2>4 DEF FrameInv, Making
  <2>6. QED
    BY <2>1, <2>5, HeapUnderStack
<1>9. ASSUME NEW u \in Thread \ {t}
      PROVE  StackInv(heap', stack[u])
  <2>1. Inside(stack[u]) = {}
    <3>1. Len(s) \in Inside(s)
      BY <1>2, <1>4 DEF Inside, Mutexed
    <3>2. IsFiniteSet(Inside(s)) /\ Cardinality(Inside(s)) # 0
      BY <1>2, <3>1, InsideFinite, FS_EmptySet
    <3>3. mMutex.owner = t
      BY <3>2 DEF SInv, IInv, MutexInv
    <3>4. Cardinality(Inside(stack[u])) = 0 /\ IsFiniteSet(Inside(stack[u]))
      BY <3>3, FrameFacts, InsideFinite DEF SInv, IInv, MutexInv
    <3>5. QED
      BY <3>4, FS_EmptySet
  <2>2. \A i \in DOMAIN stack[u] : ~Making(stack[u][i])
    BY <2>1 DEF Inside, Making, Mutexed
  <2>3. \A i \in DOMAIN stack[u] : stack[u][i].pc # "lookup" =>
          heap'[stack[u][i].e].mCID = heap[stack[u][i].e].mCID
    BY <1>3, FrameFacts
  <2>4. QED
    BY <2>2, <2>3, FrameFacts, HeapUnderStack
<1>10. stack' = [stack EXCEPT ![t] = Pop(s)]
  BY <1>1 DEF Return, SInv, IInv, TypeOK
<1>11. QED
  BY <1>1, <1>4, <1>6, <1>8, <1>9, <1>10, CallIsUp, CallKeepsServices

LEMMA RequestNeededKeepsServices ==
  ASSUME SInv, NEW t \in Thread, RequestNeeded(t)
  PROVE  ServicesInv'
<1> DEFINE fr == [Top(t) EXCEPT !.pc = "nested"]
           s == SetTop(stack[t], fr)
<1>1. /\ ~Idle(t) /\ Top(t).pc = "construct" /\ Wants(t) # NoCID
      /\ heap' = heap /\ SameServices /\ ~gCCIShuttingDown
      /\ UNCHANGED <<gCCIShuttingDown, exit, mFactories>>
  BY DEF RequestNeeded, At, SameServices, Refused
<1>2. /\ Top(t) \in Frame /\ Top(t) = stack[t][Len(stack[t])] /\ Top(t).e \in Entry
      /\ stack[t] \in Seq(Frame) /\ stack[t] # <<>> /\ Len(stack[t]) \in DOMAIN stack[t]
      /\ FrameInv(heap, Top(t))
  BY <1>1, TopFacts
<1>3. fr \in Frame /\ fr.op = Top(t).op /\ fr.key = Top(t).key /\ fr.e = Top(t).e
      /\ fr.pc = "nested" /\ fr.f = Top(t).f
  BY <1>1, <1>2 DEF Frame, ReadPc
<1>4. FrameInv(heap, fr)
  BY <1>1, <1>2, <1>3 DEF FrameInv, Making
<1>5. StackInv(heap, s) /\ s \in Seq(Frame)
  BY <1>2, <1>3, <1>4, FrameFacts, MoveStack, SetTopFacts
<1>6. s # <<>> /\ s[Len(s)] = fr
  BY <1>2 DEF SetTop
<1>7. Wants(t) \in CID /\ Rank[Wants(t)] < Rank[heap[fr.e].mCID]
  <2>1. heap[fr.e].mCID \in CID
    BY <1>2, <1>3, FrameFacts
  <2>2. Needs[heap[fr.e].mCID] = Wants(t) /\ Needs \in [CID -> CID \cup {NoCID}]
    BY <1>3, ConstantsAssumption DEF Wants
  <2>3. QED
    BY <1>1, <2>1, <2>2, RankFacts
<1>8. \A i \in DOMAIN s : heap[s[i].e].mCID \in CID
  <2>1. \A i \in DOMAIN s : s[i].pc # "lookup"
    <3>1. \A i \in DOMAIN s : i = Len(s) \/ i < Len(s)
      BY <1>5
    <3>2. Len(s) \in DOMAIN s
      BY <1>5, <1>6
    <3>3. QED
      BY <1>3, <1>5, <1>6, <3>1, <3>2 DEF StackInv, Nested
  <2>2. \A i \in DOMAIN s : s[i] \in Frame
    BY <1>5
  <2>3. \A i \in DOMAIN s : s[i].e \in Entry
    BY <2>1, <2>2 DEF Frame
  <2>4. QED
    BY <2>3, FrameFacts
<1>9. StackInv(heap, Append(s, NewFrame("GetService", Wants(t))))
  BY <1>3, <1>5, <1>6, <1>7, <1>8, PushStack
<1>10. stack' = [stack EXCEPT ![t] = Append(s, NewFrame("GetService", Wants(t)))]
  BY DEF RequestNeeded, SInv, IInv, TypeOK
<1>11. QED
  BY <1>1, <1>9, <1>10, SameServicesKeep, CallKeepsServices

LEMMA BeginCallKeepsServices ==
  ASSUME SInv, NEW t \in Thread, NEW op \in ReadCall, NEW key \in CID \cup ContractID,
         BeginCall(t, op, key)
  PROVE  ServicesInv'
<1>1. /\ stack[t] = <<>> /\ heap' = heap /\ SameServices
      /\ UNCHANGED <<gCCIShuttingDown, exit, mFactories>>
  BY DEF BeginCall, CanCall, Idle, SameServices
<1>2. StackInv(heap, Append(stack[t], NewFrame(op, key)))
  <2>1. stack[t] \in Seq(Frame) /\ StackInv(heap, stack[t]) /\ DOMAIN stack[t] = {}
    BY <1>1, FrameFacts
  <2>2. QED
    BY <1>1, <2>1, PushStack
<1>3. stack' = [stack EXCEPT ![t] = Append(stack[t], NewFrame(op, key))]
  BY DEF BeginCall, SInv, IInv, TypeOK
<1>4. gCCIShuttingDown => AllLate(t, Append(stack[t], NewFrame(op, key)))
  <2>1. SUFFICES ASSUME gCCIShuttingDown
                 PROVE  AllLate(t, Append(stack[t], NewFrame(op, key)))
    OBVIOUS
  <2>2. op = "GetClassObject" /\ InDestructor(t) /\ exit.pc # "up"
    BY <2>1 DEF BeginCall, CanCall, Refused, SInv, ServicesInv, FlagInv
  <2>3. t = Main /\ exit.pc # "down"
    BY <2>2 DEF InDestructor, SInv, IInv, RegistryInv, WriterInv
  <2>4. \A i \in DOMAIN Append(stack[t], NewFrame(op, key)) :
          Append(stack[t], NewFrame(op, key))[i].op = op
    BY <1>1 DEF NewFrame
  <2>5. QED
    BY <2>2, <2>3, <2>4 DEF AllLate
<1>5. QED
  BY <1>1, <1>2, <1>3, <1>4, SameServicesKeep, CallKeepsServices

LEMMA CallStepKeepsServices ==
  ASSUME SInv, NEW t \in Thread, CallStep(t)
  PROVE  ServicesInv'
<1>a. {"lookup", "service", "factory", "load", "loading", "loaded",
       "take", "construct", "nested", "store"} = ReadPc
  BY DEF ReadPc
<1>b. ~Idle(t) => /\ Top(t).f \in MaybeFactory
                  /\ Making(Top(t)) => heap[Top(t).e].mServiceObject = NoFactory
                  /\ Top(t).pc \in {"construct", "nested"} => Top(t).f # NoFactory
                  /\ Top(t).pc # "lookup" => heap[Top(t).e].mFactory \in MaybeFactory
  BY TopFacts, FrameFacts DEF Frame, FrameInv, FactoryEntry
<1>d. heap \in [Entry -> FactoryEntry]
  BY DEF SInv, IInv, TypeOK
<1>1. CASE LookUp(t)
  BY <1>1, LookUpKeepsServices
<1>2. CASE TestService(t)
  <2>1. ~Idle(t) /\ Top(t).pc = "service" /\ SameServices
        /\ UNCHANGED <<gCCIShuttingDown, exit, mFactories>>
    BY <1>2 DEF TestService, Using, At, SameServices
  <2>2. QED
    BY <1>2, <1>a, <1>b, <2>1, ReturnKeepsServices, GotoKeepsServices DEF TestService
<1>3. CASE TestFactory(t)
  <2>1. ~Idle(t) /\ Top(t).pc = "factory" /\ SameServices
        /\ UNCHANGED <<gCCIShuttingDown, exit, mFactories>>
    BY <1>3 DEF TestFactory, Using, At, SameServices
  <2>2. Top(t).op = "GetService" => heap[Top(t).e].mServiceObject = NoFactory
    BY <1>b, <2>1 DEF Making
  <2>3. QED
    BY <1>3, <1>a, <1>b, <2>1, <2>2, GotoKeepsServices DEF TestFactory
<1>4. CASE Load(t)
  <2>1. ~Idle(t) /\ Top(t).pc = "load" /\ UNCHANGED <<gCCIShuttingDown, exit, mFactories>>
    BY <1>4 DEF Load, Using, At
  <2>2. Top(t).op = "GetService" => heap[Top(t).e].mServiceObject = NoFactory
    BY <1>b, <2>1 DEF Making
  <2>3. SameServices
    BY <1>4, <1>d, <2>1, TopFacts DEF Load, SameServices, FactoryEntry
  <2>4. QED
    BY <1>4, <1>a, <1>b, <2>1, <2>2, <2>3, ReturnKeepsServices, GotoKeepsServices DEF Load
<1>5. CASE Loading(t)
  <2>1. ~Idle(t) /\ Top(t).pc = "loading" /\ UNCHANGED <<gCCIShuttingDown, exit, mFactories>>
    BY <1>5 DEF Loading, Using, At
  <2>2. Top(t).op = "GetService" => heap[Top(t).e].mServiceObject = NoFactory
    BY <1>b, <2>1 DEF Making
  <2>3. SameServices
    <3>1. CASE heap' = heap
      BY <3>1 DEF SameServices
    <3>2. ASSUME NEW f \in Factory, heap' = [heap EXCEPT ![Top(t).e].mFactory = f]
          PROVE  SameServices
      BY <3>2, <1>d, <2>1, TopFacts DEF SameServices, FactoryEntry
    <3>3. QED
      BY <1>5, <3>1, <3>2 DEF Loading
  <2>4. QED
    BY <1>5, <1>a, <1>b, <2>1, <2>2, <2>3, ReturnKeepsServices, GotoKeepsServices DEF Loading
<1>6. CASE Loaded(t)
  <2>1. ~Idle(t) /\ Top(t).pc = "loaded" /\ SameServices
        /\ UNCHANGED <<gCCIShuttingDown, exit, mFactories>>
    BY <1>6 DEF Loaded, Using, At, SameServices
  <2>2. Top(t).op = "GetService" => heap[Top(t).e].mServiceObject = NoFactory
    BY <1>b, <2>1 DEF Making
  <2>3. QED
    BY <1>6, <1>a, <1>b, <2>1, <2>2, ReturnKeepsServices, GotoKeepsServices DEF Loaded
<1>7. CASE RequestNeeded(t)
  BY <1>7, RequestNeededKeepsServices
<1>8. CASE Construct(t)
  <2>1. ~Idle(t) /\ Top(t).pc \in {"construct", "nested"} /\ SameServices
        /\ UNCHANGED <<gCCIShuttingDown, exit, mFactories>>
    BY <1>8 DEF Construct, At, SameServices
  <2>2. Top(t).op = "GetService" => heap[Top(t).e].mServiceObject = NoFactory
    BY <1>b, <2>1 DEF Making
  <2>3. QED
    BY <1>8, <1>a, <1>b, <2>1, <2>2, ReturnKeepsServices, GotoKeepsServices DEF Construct
<1>9. CASE StoreService(t)
  BY <1>9, StoreServiceKeepsServices
<1>10. CASE TakeFactory(t)
  <2>1. ~Idle(t) /\ Top(t).pc = "take" /\ SameServices
        /\ UNCHANGED <<gCCIShuttingDown, exit, mFactories>>
    BY <1>10 DEF TakeFactory, Using, At, SameServices
  <2>2. Top(t).op = "GetService" => heap[Top(t).e].mServiceObject = NoFactory
    BY <1>b, <2>1 DEF Making
  <2>3. QED
    BY <1>10, <1>a, <1>b, <2>1, <2>2, ReturnKeepsServices, GotoKeepsServices
    DEF TakeFactory
<1>11. QED
  BY <1>1, <1>2, <1>3, <1>4, <1>5, <1>6, <1>7, <1>8, <1>9, <1>10 DEF CallStep

LEMMA UndefinedKeepsServices ==
  ASSUME SInv, NEW t \in Thread, Undefined(t)
  PROVE  ServicesInv'
<1>1. /\ ~Idle(t) /\ Return(t) /\ SameServices
      /\ UNCHANGED <<gCCIShuttingDown, exit, mFactories>>
  BY DEF Undefined, UsesDeleted, UsesNull, Using, At, SameServices
<1>2. QED
  BY <1>1, ReturnKeepsServices

-----------------------------------------------------------------------------
(* The registrar: it leaves the calls alone, and the entries they use keep  *)
(* their class.                                                             *)
LEMMA RegistrarKeepsServices ==
  ASSUME SInv, exit.pc = "up", UNCHANGED <<stack, gCCIShuttingDown, exit>>, MadeInv',
         \A e \in Entry : Held(e) =>
           /\ heap'[e].mCID = heap[e].mCID
           /\ heap[e].mServiceObject = NoFactory => heap'[e].mServiceObject = NoFactory
  PROVE  ServicesInv'
<1>1. ASSUME NEW t \in Thread
      PROVE  StackInv(heap', stack[t])
  <2>1. \A i \in DOMAIN stack[t] : stack[t][i].pc # "lookup" =>
          stack[t][i].e \in Entry /\ Held(stack[t][i].e)
    BY FrameFacts DEF Held
  <2>2. \A i \in DOMAIN stack[t] : stack[t][i].pc # "lookup" =>
          /\ heap'[stack[t][i].e].mCID = heap[stack[t][i].e].mCID
          /\ Making(stack[t][i]) => heap'[stack[t][i].e].mServiceObject = NoFactory
    BY <2>1, FrameFacts DEF StackInv, FrameInv
  <2>3. QED
    BY <2>2, FrameFacts, HeapUnderStack
<1>2. StacksInv'
  BY <1>1 DEF StacksInv
<1>3. FlagInv' /\ FreedInv'
  BY DEF FlagInv, AllLate, FreedInv, ServicesGoFirst, SInv, ServicesInv
<1>4. QED
  BY <1>2, <1>3 DEF ServicesInv

(* Without a change to an entry but its factory.                            *)
LEMMA RegistrarSame ==
  ASSUME SInv, exit.pc = "up", UNCHANGED <<stack, gCCIShuttingDown, exit>>, SameServices
  PROVE  ServicesInv'
<1>1. MadeInv'
  BY SameServicesKeep
<1>2. QED
  BY <1>1, RegistrarKeepsServices DEF SameServices

LEMMA NewEntryKeepsServices ==
  ASSUME SInv, exit.pc = "up", UNCHANGED <<stack, gCCIShuttingDown, exit>>,
         NEW c \in CID, NEW f \in MaybeFactory, NEW e \in Entry,
         Allocatable(e), AddFactoryEntry(e, c, f)
  PROVE  ServicesInv'
<1>1. heap' = [heap EXCEPT ![e] = NewEntry(c, f)] /\ heap \in [Entry -> FactoryEntry]
  BY DEF AddFactoryEntry, SInv, IInv, TypeOK
<1>2. heap'[e] = NewEntry(c, f) /\ \A x \in Entry \ {e} : heap'[x] = heap[x]
  BY <1>1
<1>3. MadeInv'
  BY <1>2 DEF MadeInv, NewEntry, SInv, ServicesInv
<1>4. QED
  BY <1>2, <1>3, RegistrarKeepsServices DEF Allocatable

LEMMA RegisterKeepsServices ==
  ASSUME SInv, NEW t \in Thread, NEW c \in CID, NEW f \in Factory,
         NEW id \in ContractID \cup {NullID, EmptyID},
         RegisterFactory(t, c, id, f) \/ RegisterFactoryLocation(t, c, id)
  PROVE  ServicesInv'
<1>1. exit.pc = "up" /\ UNCHANGED <<stack, gCCIShuttingDown, exit>>
  BY DEF RegisterFactory, RegisterFactoryLocation, CanRegister
<1>2. f \in MaybeFactory /\ NoFactory \in MaybeFactory
  BY DEF MaybeFactory
<1>3. CASE mFactories[c] = NoEntry
  <2>1. PICK e \in Entry, g \in MaybeFactory : Allocatable(e) /\ AddFactoryEntry(e, c, g)
    BY <1>2, <1>3 DEF RegisterFactory, RegisterFactoryLocation
  <2>2. QED
    BY <1>1, <2>1, NewEntryKeepsServices
<1>4. CASE mFactories[c] # NoEntry
  <2>1. heap' = heap \/ heap' = [heap EXCEPT ![mFactories[c]].mFactory = f]
    BY <1>4 DEF RegisterFactory, RegisterFactoryLocation
  <2>2. mFactories[c] \in Entry /\ heap \in [Entry -> FactoryEntry]
    BY <1>4 DEF SInv, IInv, TypeOK, Pointer
  <2>3. SameServices
    BY <2>1, <2>2 DEF SameServices, FactoryEntry
  <2>4. QED
    BY <1>1, <2>3, RegistrarSame
<1>5. QED
  BY <1>3, <1>4

LEMMA RegistrarStepKeepsServices ==
  ASSUME SInv, NEW t \in Thread,
         RegistrarStep(t) \/ \E c \in CID : UnregisterFactory(t, c)
  PROVE  ServicesInv'
<1>1. CASE DeleteEntry(t)
  <2>1. /\ lock.e \in Entry /\ exit.pc = "up" /\ UNCHANGED <<stack, gCCIShuttingDown, exit>>
        /\ heap' = [heap EXCEPT ![lock.e] = Deleted(heap[lock.e].mCID)]
    BY <1>1, WriterFacts DEF DeleteEntry, SInv
  <2>2. /\ heap'[lock.e] = Deleted(heap[lock.e].mCID)
        /\ \A x \in Entry \ {lock.e} : heap'[x] = heap[x]
    BY <2>1 DEF SInv, IInv, TypeOK
  <2>3. MadeInv'
    BY <2>1, <2>2 DEF MadeInv, Deleted, SInv, ServicesInv
  <2>4. \A e \in Entry :
           /\ heap'[e].mCID = heap[e].mCID
           /\ heap[e].mServiceObject = NoFactory => heap'[e].mServiceObject = NoFactory
    BY <2>2 DEF Deleted
  <2>5. QED
    BY <2>1, <2>3, <2>4, RegistrarKeepsServices
<1>2. ASSUME heap' = heap, exit.pc = "up", UNCHANGED <<stack, gCCIShuttingDown, exit>>
      PROVE  ServicesInv'
  BY <1>2, RegistrarSame DEF SameServices
<1>3. CASE HashContractID(t)
  BY <1>2, <1>3, WriterFacts DEF HashContractID, SInv
<1>4. ASSUME NEW k \in ContractID, EraseContractID(t, k)
      PROVE  ServicesInv'
  BY <1>2, <1>4, WriterFacts DEF EraseContractID, SInv
<1>5. CASE RemoveFactoryEntry(t)
  BY <1>2, <1>5, WriterFacts DEF RemoveFactoryEntry, SInv
<1>6. ASSUME NEW c \in CID, UnregisterFactory(t, c)
      PROVE  ServicesInv'
  BY <1>2, <1>6 DEF UnregisterFactory, CanRegister
<1>7. QED
  BY <1>1, <1>3, <1>4, <1>5, <1>6 DEF RegistrarStep

-----------------------------------------------------------------------------
(* CCI_Init and CCI_Shutdown: no call is in progress.                       *)
LEMMA EmptyStacks ==
  ASSUME SInv, \A t \in Thread : Idle(t), UNCHANGED stack
  PROVE  StacksInv'
  BY DEF Idle, StacksInv, StackInv, Nested

LEMMA CCI_InitKeepsServices ==
  ASSUME SInv, CCI_Init
  PROVE  ServicesInv'
<1>1. PICK e \in Entry : heap' = [heap EXCEPT ![e] = NewEntry(CatCID, CatFactory)]
  BY DEF CCI_Init
<1>2. /\ exit.pc = "down" /\ exit' = [pc |-> "up", todo |-> {}] /\ gCCIShuttingDown' = FALSE
      /\ UNCHANGED stack /\ lock.pc = "free"
      /\ \A c \in CID : mFactories[c] = NoEntry
  BY NoWriter DEF CCI_Init, SInv, IInv, RegistryInv, ExitInv
<1>3. StacksInv'
  <2>1. gCCIShuttingDown
    BY <1>2 DEF SInv, ServicesInv, FlagInv
  <2>2. QED
    BY <1>2, <2>1, NoneLate, EmptyStacks
<1>4. \A x \in Entry : ~heap[x].live
  <2>1. \A x \in Entry : heap[x].live => mFactories[heap[x].mCID] = x
    BY <1>2 DEF SInv, IInv, RegistryInv, EntriesKept
  <2>2. QED
    BY <1>2, <2>1, FrameFacts, ConstantsAssumption
<1>5. heap'[e] = NewEntry(CatCID, CatFactory) /\ \A x \in Entry \ {e} : heap'[x] = heap[x]
  BY <1>1 DEF SInv, IInv, TypeOK
<1>6. MadeInv'
  BY <1>4, <1>5 DEF MadeInv, NewEntry, SInv, ServicesInv
<1>7. FlagInv' /\ FreedInv'
  BY <1>2 DEF FlagInv, FreedInv, ServicesGoFirst
<1>8. QED
  BY <1>3, <1>6, <1>7 DEF ServicesInv

LEMMA CCI_ShutdownKeepsServices ==
  ASSUME SInv, CCI_Shutdown
  PROVE  ServicesInv'
<1>1. /\ exit' = [pc |-> "free", todo |-> Registered] /\ gCCIShuttingDown' = TRUE
      /\ \A t \in Thread : Idle(t)
      /\ UNCHANGED <<mFactories, heap, stack>>
  BY DEF CCI_Shutdown
<1>2. StacksInv' /\ FlagInv'
  BY <1>1, EmptyStacks DEF FlagInv, AllLate, Idle
<1>3. MadeInv'
  BY <1>1 DEF MadeInv, SInv, ServicesInv
<1>4. FreedInv'
  BY <1>1 DEF FreedInv, ServicesGoFirst, Registered
<1>5. QED
  BY <1>2, <1>3, <1>4 DEF ServicesInv

LEMMA ExitStepKeepsServices ==
  ASSUME SInv, ExitStep
  PROVE  ServicesInv'
<1>a. exit \in [pc : ExitPc, todo : SUBSET CID]
  BY DEF SInv, IInv, TypeOK
<1>1. /\ exit.pc \in {"free", "delete"} /\ exit'.pc # "up" /\ Idle(Main)
      /\ stack' = stack /\ gCCIShuttingDown' = gCCIShuttingDown
  <2>1. ASSUME NEW c \in CID, FreeServices(c) \/ ShutdownEntry(c)
        PROVE  /\ exit.pc \in {"free", "delete"} /\ exit'.pc # "up" /\ Idle(Main)
               /\ stack' = stack /\ gCCIShuttingDown' = gCCIShuttingDown
    BY <1>a, <2>1 DEF FreeServices, ShutdownEntry, ExitAt, Visited
  <2>2. CASE ReleaseManager \/ ShutdownComplete
    BY <2>2 DEF ReleaseManager, ShutdownComplete, ExitAt
  <2>3. QED
    BY <2>1, <2>2 DEF ExitStep
<1>2. gCCIShuttingDown /\ \A t \in Thread : Idle(t)
  BY <1>1, NoneLate DEF SInv, ServicesInv, FlagInv
<1>3. StacksInv' /\ FlagInv'
  BY <1>1, <1>2, EmptyStacks DEF FlagInv, AllLate, Idle
<1>4. heap \in [Entry -> FactoryEntry] /\ mFactories \in [CID -> Pointer]
      /\ exit \in [pc : ExitPc, todo : SUBSET CID]
  BY DEF SInv, IInv, TypeOK
<1>5. ASSUME NEW c \in CID, FreeServices(c)
      PROVE  MadeInv' /\ FreedInv'
  <2>1. /\ exit.pc = "free" /\ exit'.pc = "free" /\ exit'.todo = exit.todo \ {c}
        /\ heap' = [heap EXCEPT ![mFactories[c]].mServiceObject = NoFactory]
        /\ mFactories' = mFactories
    BY <1>4, <1>5 DEF FreeServices, ExitAt, Visited
  <2>2. \A x \in Entry :
           /\ heap'[x].live = heap[x].live /\ heap'[x].made = heap[x].made
           /\ heap'[x].mServiceObject =
                IF x = mFactories[c] THEN NoFactory ELSE heap[x].mServiceObject
    BY <1>4, <2>1 DEF FactoryEntry
  <2>3. MadeInv'
    BY <1>1, <1>2, <2>2 DEF MadeInv, SInv, ServicesInv
  <2>4. FreedInv'
    BY <1>4, <2>1, <2>2 DEF FreedInv, ServicesGoFirst, SInv, ServicesInv, Pointer
  <2>5. QED
    BY <2>3, <2>4
<1>6. ASSUME ReleaseManager
      PROVE  MadeInv' /\ FreedInv'
  <2>1. /\ exit.pc = "free" /\ exit.todo = {} /\ UNCHANGED <<heap, mFactories>>
        /\ exit'.pc = "delete"
    BY <1>6 DEF ReleaseManager, ExitAt
  <2>2. \A e \in Entry : heap[e].mServiceObject = NoFactory
    <3>1. ASSUME NEW e \in Entry, heap[e].live
          PROVE  heap[e].mCID \in CID /\ mFactories[heap[e].mCID] = e /\ e # NoEntry
      BY <3>1, <2>1, NoWriter, FrameFacts, ConstantsAssumption
      DEF SInv, IInv, RegistryInv, EntriesKept
    <3>2. QED
      BY <2>1, <3>1 DEF SInv, ServicesInv, FreedInv, MadeInv
  <2>3. MadeInv'
    BY <1>1, <2>1, SameServicesKeep DEF SameServices
  <2>4. FreedInv'
    BY <2>1, <2>2 DEF FreedInv, ServicesGoFirst
  <2>5. QED
    BY <2>3, <2>4
<1>7. ASSUME NEW c \in CID, ShutdownEntry(c)
      PROVE  MadeInv' /\ FreedInv'
  <2>1. /\ exit.pc = "delete" /\ exit'.pc = "delete"
        /\ heap' = [heap EXCEPT ![mFactories[c]] = Deleted(heap[mFactories[c]].mCID)]
    BY <1>4, <1>7 DEF ShutdownEntry, ExitAt, Visited
  <2>2. \A x \in Entry :
           heap'[x] = IF x = mFactories[c] THEN Deleted(heap[mFactories[c]].mCID) ELSE heap[x]
    BY <1>4, <2>1
  <2>3. MadeInv'
    BY <1>1, <1>2, <2>2 DEF MadeInv, Deleted, SInv, ServicesInv
  <2>4. FreedInv'
    BY <2>1, <2>2 DEF FreedInv, ServicesGoFirst, Deleted, SInv, ServicesInv
  <2>5. QED
    BY <2>3, <2>4
<1>8. ASSUME ShutdownComplete
      PROVE  MadeInv' /\ FreedInv'
  <2>1. exit'.pc = "down" /\ heap' = heap
    BY <1>8 DEF ShutdownComplete
  <2>2. MadeInv'
    BY <1>1, <2>1, SameServicesKeep DEF SameServices
  <2>3. FreedInv'
    BY <2>1 DEF FreedInv, ServicesGoFirst
  <2>4. QED
    BY <2>2, <2>3
<1>9. QED
  BY <1>3, <1>5, <1>6, <1>7, <1>8 DEF ExitStep, ServicesInv

-----------------------------------------------------------------------------
LEMMA NextKeepsServices ==
  ASSUME SInv, [Next]_vars
  PROVE  SInv'
<1>1. IInv'
  BY NextKeepsInv DEF SInv
<1>2. ASSUME NEW t \in Thread, NEW op \in ReadCall, NEW key \in CID \cup ContractID,
             BeginCall(t, op, key)
      PROVE  ServicesInv'
  BY <1>2, BeginCallKeepsServices
<1>3. ASSUME NEW t \in Thread, CallStep(t) \/ Undefined(t)
      PROVE  ServicesInv'
  BY <1>3, CallStepKeepsServices, UndefinedKeepsServices
<1>4. ASSUME NEW t \in Thread, NEW c \in CID, NEW id \in ContractID \cup {NullID, EmptyID},
             NEW f \in Factory, RegisterFactory(t, c, id, f)
      PROVE  ServicesInv'
  BY <1>4, RegisterKeepsServices
<1>5. ASSUME NEW t \in Thread, NEW c \in CID, NEW id \in ContractID \cup {NullID, EmptyID},
             RegisterFactoryLocation(t, c, id)
      PROVE  ServicesInv'
  BY <1>5, RegisterKeepsServices, ConstantsAssumption
<1>6. ASSUME NEW t \in Thread,
             RegistrarStep(t) \/ \E c \in CID : UnregisterFactory(t, c)
      PROVE  ServicesInv'
  BY <1>6, RegistrarStepKeepsServices
<1>7. ASSUME CCI_Init
      PROVE  ServicesInv'
  BY <1>7, CCI_InitKeepsServices
<1>8. ASSUME CCI_Shutdown
      PROVE  ServicesInv'
  BY <1>8, CCI_ShutdownKeepsServices
<1>9. ASSUME ExitStep
      PROVE  ServicesInv'
  BY <1>9, ExitStepKeepsServices
<1>10. ASSUME UNCHANGED vars
       PROVE  ServicesInv'
  BY <1>10 DEF vars, SInv, ServicesInv, StacksInv, FlagInv, AllLate, MadeInv, FreedInv,
     ServicesGoFirst
<1>11. QED
  BY <1>1, <1>2, <1>3, <1>4, <1>5, <1>6, <1>7, <1>8, <1>9, <1>10 DEF Next, SInv

LEMMA InitServices ==
  ASSUME Init
  PROVE  SInv
<1>1. IInv
  BY InitInv
<1>2. StacksInv
  BY DEF Init, StacksInv, StackInv, Nested
<1>3. exit.pc = "down" /\ gCCIShuttingDown = TRUE /\ \A t \in Thread : Idle(t)
  BY DEF Init, Idle
<1>4. FlagInv /\ FreedInv
  BY <1>3 DEF FlagInv, AllLate, Idle, FreedInv, ServicesGoFirst
<1>5. MadeInv
  BY DEF Init, MadeInv, Deleted
<1>6. QED
  BY <1>1, <1>2, <1>4, <1>5 DEF SInv, ServicesInv

(* The invariant of the services: what each call in progress knows of its   *)
(* entry, that nested calls are for components of lower rank, that only     *)
(* GetClassObject is still called when the flag is up, and what made counts.*)
THEOREM ServicesInvariant == Spec => []SInv
<1>1. Init => SInv
  BY InitServices
<1>2. SInv /\ [Next]_vars => SInv'
  BY NextKeepsServices
<1>3. QED
  BY <1>1, <1>2, PTL DEF Spec

(* An entry makes one service object, however many threads ask for it       *)
(* (cciComponentManager.cpp: GetService holds mMutex across the factory).   *)
THEOREM OneService == Spec => []OneServicePerEntry
<1>1. SInv => OneServicePerEntry
  BY DEF SInv, ServicesInv, MadeInv, OneServicePerEntry
<1>2. QED
  BY <1>1, ServicesInvariant, PTL

(* No service object is left when the entries and the modules go, and none  *)
(* is made again by what the destructors ask for (CCI_Shutdown).            *)
THEOREM NoServiceAfterFree == Spec => []ServicesGoFirst
<1>1. SInv => ServicesGoFirst
  BY DEF SInv, ServicesInv, FreedInv
<1>2. QED
  BY <1>1, ServicesInvariant, PTL

-----------------------------------------------------------------------------
(* What a step does to a service object that is kept.                       *)
KeepsService(e) ==
  heap[e].mServiceObject # NoFactory =>
    \/ heap[e]'.mServiceObject = heap[e].mServiceObject
    \/ gCCIShuttingDown
    \/ ~heap[e]'.live

LEMMA OneEntryKeepsService ==
  ASSUME SInv, NEW e \in Pointer, NEW new, heap' = [heap EXCEPT ![e] = new],
         e \in Entry => \/ heap[e].mServiceObject = NoFactory
                        \/ new.mServiceObject = heap[e].mServiceObject
                        \/ gCCIShuttingDown
                        \/ ~new.live
  PROVE  \A x \in Entry : KeepsService(x)
<1>1. heap \in [Entry -> FactoryEntry]
  BY DEF SInv, IInv, TypeOK
<1>2. \A x \in Entry : heap'[x] = IF x = e THEN new ELSE heap[x]
  BY <1>1
<1>3. QED
  BY <1>2 DEF KeepsService

LEMMA CallStepKeepsService ==
  ASSUME SInv, NEW t \in Thread, CallStep(t)
  PROVE  \A x \in Entry : KeepsService(x)
<1>1. CASE heap' = heap
  BY <1>1 DEF KeepsService
<1>2. heap \in [Entry -> FactoryEntry]
  BY DEF SInv, IInv, TypeOK
<1>3. ASSUME NEW f, ~Idle(t), Top(t).pc # "lookup", heap' = [heap EXCEPT ![Top(t).e].mFactory = f]
      PROVE  \A x \in Entry : KeepsService(x)
  <2>1. Top(t).e \in Entry /\ Top(t).e \in Pointer
    BY <1>3, TopFacts DEF Pointer
  <2>2. heap' = [heap EXCEPT ![Top(t).e] = [heap[Top(t).e] EXCEPT !.mFactory = f]]
    BY <1>3
  <2>3. [heap[Top(t).e] EXCEPT !.mFactory = f].mServiceObject = heap[Top(t).e].mServiceObject
    BY <1>2, <2>1 DEF FactoryEntry
  <2>4. QED
    BY <2>1, <2>2, <2>3, OneEntryKeepsService
<1>4. CASE StoreService(t)
  <2>1. ~Idle(t) /\ Top(t).pc = "store"
    BY <1>4 DEF StoreService, Using, At
  <2>2. Top(t).e \in Entry /\ Top(t).e \in Pointer /\ heap[Top(t).e].mServiceObject = NoFactory
    BY <2>1, TopFacts DEF Pointer, FrameInv, Making
  <2>3. heap' = [heap EXCEPT ![Top(t).e] =
           [heap[Top(t).e] EXCEPT !.mServiceObject = Top(t).f, !.made = @ + 1]]
    BY <1>2, <1>4, <2>2 DEF StoreService
  <2>4. QED
    BY <2>2, <2>3, OneEntryKeepsService
<1>5. \/ heap' = heap
      \/ StoreService(t)
      \/ /\ ~Idle(t) /\ Top(t).pc # "lookup"
         /\ \E f \in MaybeFactory : heap' = [heap EXCEPT ![Top(t).e].mFactory = f]
  <2>1. CASE Load(t)
    BY <2>1 DEF Load, Using, At, MaybeFactory
  <2>2. CASE Loading(t)
    BY <2>2 DEF Loading, Using, At, MaybeFactory
  <2>3. CASE LookUp(t) \/ TestService(t) \/ TestFactory(t) \/ Loaded(t)
             \/ TakeFactory(t) \/ RequestNeeded(t) \/ Construct(t)
    BY <2>3 DEF LookUp, TestService, TestFactory, Loaded, TakeFactory, RequestNeeded,
       Construct
  <2>4. QED
    BY <2>1, <2>2, <2>3 DEF CallStep
<1>6. QED
  BY <1>1, <1>3, <1>4, <1>5

LEMMA RegistrarKeepsService ==
  ASSUME SInv, NEW t \in Thread,
         \/ \E c \in CID, id \in ContractID \cup {NullID, EmptyID} :
              \/ \E f \in Factory : RegisterFactory(t, c, id, f)
              \/ RegisterFactoryLocation(t, c, id)
         \/ \E c \in CID : UnregisterFactory(t, c)
         \/ RegistrarStep(t)
  PROVE  \A x \in Entry : KeepsService(x)
<1>1. CASE heap' = heap
  BY <1>1 DEF KeepsService
<1>2. ASSUME NEW e \in Entry, NEW c \in CID, NEW f, Allocatable(e), AddFactoryEntry(e, c, f)
      PROVE  \A x \in Entry : KeepsService(x)
  <2>1. heap[e].mServiceObject = NoFactory /\ e \in Pointer
    BY <1>2 DEF Allocatable, SInv, ServicesInv, MadeInv, Pointer
  <2>2. QED
    BY <1>2, <2>1, OneEntryKeepsService DEF AddFactoryEntry
<1>3. ASSUME NEW c \in CID, NEW f, heap' = [heap EXCEPT ![mFactories[c]].mFactory = f]
      PROVE  \A x \in Entry : KeepsService(x)
  <2>1. heap' = [heap EXCEPT ![mFactories[c]] = [heap[mFactories[c]] EXCEPT !.mFactory = f]]
    BY <1>3
  <2>2. mFactories[c] \in Pointer
    BY DEF SInv, IInv, TypeOK
  <2>3. mFactories[c] \in Entry =>
          [heap[mFactories[c]] EXCEPT !.mFactory = f].mServiceObject
            = heap[mFactories[c]].mServiceObject
    BY DEF SInv, IInv, TypeOK, FactoryEntry
  <2>4. QED
    BY <2>1, <2>2, <2>3, OneEntryKeepsService
<1>4. CASE DeleteEntry(t)
  <2>1. lock.e \in Pointer /\ heap' = [heap EXCEPT ![lock.e] = Deleted(heap[lock.e].mCID)]
    BY <1>4 DEF DeleteEntry, SInv, IInv, TypeOK, WriteSection
  <2>2. ~Deleted(heap[lock.e].mCID).live
    BY DEF Deleted
  <2>3. QED
    BY <2>1, <2>2, OneEntryKeepsService
<1>5. CASE \/ \E c \in CID : UnregisterFactory(t, c)
           \/ HashContractID(t) \/ RemoveFactoryEntry(t)
           \/ \E k \in ContractID : EraseContractID(t, k)
  BY <1>1, <1>5 DEF UnregisterFactory, HashContractID, RemoveFactoryEntry, EraseContractID
<1>6. ASSUME NEW c \in CID, NEW id \in ContractID \cup {NullID, EmptyID},
             \/ \E f \in Factory : RegisterFactory(t, c, id, f)
             \/ RegisterFactoryLocation(t, c, id)
      PROVE  \A x \in Entry : KeepsService(x)
  BY <1>1, <1>2, <1>3, <1>6 DEF RegisterFactory, RegisterFactoryLocation
<1>7. QED
  BY <1>4, <1>5, <1>6 DEF RegistrarStep

LEMMA ExitKeepsService ==
  ASSUME SInv, CCI_Init \/ CCI_Shutdown \/ ExitStep
  PROVE  \A x \in Entry : KeepsService(x)
<1>1. CASE CCI_Init
  <2>1. PICK e \in Entry : /\ Allocatable(e)
                           /\ heap' = [heap EXCEPT ![e] = NewEntry(CatCID, CatFactory)]
    BY <1>1 DEF CCI_Init
  <2>2. heap[e].mServiceObject = NoFactory /\ e \in Pointer
    BY <2>1 DEF Allocatable, SInv, ServicesInv, MadeInv, Pointer
  <2>3. QED
    BY <2>1, <2>2, OneEntryKeepsService
<1>2. CASE CCI_Shutdown
  BY <1>2 DEF CCI_Shutdown, KeepsService
<1>3. CASE ExitStep
  <2>1. exit.pc # "up"
    BY <1>3 DEF ExitStep, FreeServices, ShutdownEntry, ReleaseManager, ShutdownComplete, ExitAt
  <2>2. gCCIShuttingDown
    BY <2>1 DEF SInv, ServicesInv, FlagInv
  <2>3. QED
    BY <2>2 DEF KeepsService
<1>4. QED
  BY <1>1, <1>2, <1>3

(* A service, once kept, is the one every later caller gets until CCI is    *)
(* shut down or its class is unregistered (cciFactoryEntry::GetService).    *)
THEOREM ServicesAreStable == Spec => ServiceStable
<1>1. SInv /\ [Next]_vars => [\A e \in Entry : KeepsService(e)]_vars
  <2>1. SUFFICES ASSUME SInv, Next
                 PROVE  \A e \in Entry : KeepsService(e)
    OBVIOUS
  <2>2. ASSUME NEW t \in Thread, NEW op \in ReadCall, NEW key \in CID \cup ContractID,
               BeginCall(t, op, key)
        PROVE  \A e \in Entry : KeepsService(e)
    BY <2>2 DEF BeginCall, KeepsService
  <2>a. ASSUME NEW t \in Thread, Undefined(t)
        PROVE  \A e \in Entry : KeepsService(e)
    BY <2>a DEF Undefined, KeepsService
  <2>3. QED
    BY <2>1, <2>2, <2>a, CallStepKeepsService, RegistrarKeepsService, ExitKeepsService DEF Next
<1>2. (\A e \in Entry : KeepsService(e)) =>
        \A e \in Entry : LET old == heap[e].mServiceObject IN
          old # NoFactory =>
            \/ heap[e]'.mServiceObject = old
            \/ gCCIShuttingDown
            \/ ~heap[e]'.live
  BY DEF KeepsService
<1>3. QED
  BY <1>1, <1>2, ServicesInvariant, PTL DEF Spec, ServiceStable

-----------------------------------------------------------------------------
(* The calls' entry pointers, while nobody unregisters. pc is that of exit. *)
Late(pc, fr) == pc = "delete" /\ fr.op = "GetClassObject" /\ fr.key \in CID
LiveFrame(h, pc, fr) == fr.e \in Entry => h[fr.e].live \/ Late(pc, fr)
LiveStack(h, pc, s) == \A i \in DOMAIN s : LiveFrame(h, pc, s[i])

LiveInv ==
  /\ SInv
  /\ lock.pc \in {"free", "hash"}
  /\ \A t \in Thread : LiveStack(heap, exit.pc, stack[t])

LEMMA LiveStackFacts ==
  ASSUME NEW h, NEW pc, NEW s \in Seq(Frame), LiveStack(h, pc, s)
  PROVE  /\ s # <<>> => LiveStack(h, pc, Pop(s))
         /\ \A op, key : LiveStack(h, pc, Append(s, NewFrame(op, key)))
         /\ \A fr : s # <<>> /\ LiveFrame(h, pc, fr) => LiveStack(h, pc, SetTop(s, fr))
<1>1. s # <<>> => LiveStack(h, pc, Pop(s))
  <2>1. s # <<>> => /\ DOMAIN Pop(s) \subseteq DOMAIN s
                    /\ \A i \in DOMAIN Pop(s) : Pop(s)[i] = s[i]
    BY DEF Pop
  <2>2. QED
    BY <2>1 DEF LiveStack
<1>2. ASSUME NEW op, NEW key
      PROVE  LiveStack(h, pc, Append(s, NewFrame(op, key)))
  <2> DEFINE s2 == Append(s, NewFrame(op, key))
  <2>1. \A i \in DOMAIN s2 : (i \in DOMAIN s /\ s2[i] = s[i]) \/ s2[i] = NewFrame(op, key)
    OBVIOUS
  <2>2. NewFrame(op, key).e \notin Entry
    BY ConstantsAssumption DEF NewFrame
  <2>3. QED
    BY <2>1, <2>2 DEF LiveStack, LiveFrame
<1>3. ASSUME NEW fr, s # <<>>, LiveFrame(h, pc, fr)
      PROVE  LiveStack(h, pc, SetTop(s, fr))
  <2>1. DOMAIN SetTop(s, fr) = DOMAIN s
        /\ \A i \in DOMAIN s : SetTop(s, fr)[i] = IF i = Len(s) THEN fr ELSE s[i]
    BY DEF SetTop
  <2>2. QED
    BY <1>3, <2>1 DEF LiveStack
<1>4. QED
  BY <1>1, <1>2, <1>3

(* What a step of a call does to its stack, and that it deletes nothing.    *)
LEMMA CallStepEntries ==
  ASSUME SInv, NEW t \in Thread, CallStep(t) \/ Undefined(t)
  PROVE  /\ ~Idle(t) /\ UNCHANGED <<lock, exit>>
         /\ \A e \in Entry : heap'[e].live = heap[e].live
         /\ \/ stack' = [stack EXCEPT ![t] = Pop(stack[t])]
            \/ \E fr : /\ fr.op = Top(t).op /\ fr.key = Top(t).key
                       /\ fr.e \in Entry => fr.e = Top(t).e \/ fr.e = FindEntry(Top(t).key)
                       /\ \/ stack' = [stack EXCEPT ![t] = SetTop(stack[t], fr)]
                          \/ \E op, key : stack' = [stack EXCEPT ![t] =
                               Append(SetTop(stack[t], fr), NewFrame(op, key))]
<1>1. ~Idle(t) /\ UNCHANGED <<lock, exit>>
  BY DEF CallStep, LookUp, TestService, TestFactory, Load, Loading, Loaded, TakeFactory,
     RequestNeeded, Construct, StoreService, Undefined, UsesDeleted, UsesNull, Using, At
<1>2. stack \in [Thread -> Seq(Frame)] /\ heap \in [Entry -> FactoryEntry] /\ Top(t) \in Frame
  BY <1>1, TopFacts DEF SInv, IInv, TypeOK
<1>3. \A e \in Entry : heap'[e].live = heap[e].live
  <2>1. CASE heap' = heap
    BY <2>1
  <2>2. ASSUME NEW f, heap' = [heap EXCEPT ![Top(t).e].mFactory = f]
        PROVE  \A e \in Entry : heap'[e].live = heap[e].live
    BY <1>2, <2>2 DEF FactoryEntry
  <2>3. CASE StoreService(t)
    BY <1>2, <2>3 DEF StoreService, FactoryEntry
  <2>4. QED
    BY <2>1, <2>2, <2>3 DEF CallStep, LookUp, TestService, TestFactory, Load, Loading, Loaded,
       TakeFactory, RequestNeeded, Construct, Undefined
<1>4. ASSUME Return(t)
      PROVE  stack' = [stack EXCEPT ![t] = Pop(stack[t])]
  BY <1>2, <1>4 DEF Return
<1>5. ASSUME NEW pc, NEW f, Goto(t, pc) \/ GotoWith(t, pc, f)
      PROVE  \E fr : /\ fr.op = Top(t).op /\ fr.key = Top(t).key /\ fr.e = Top(t).e
                     /\ stack' = [stack EXCEPT ![t] = SetTop(stack[t], fr)]
  <2>1. CASE Goto(t, pc)
    <3> DEFINE fr == [Top(t) EXCEPT !.pc = pc]
    <3>1. fr.op = Top(t).op /\ fr.key = Top(t).key /\ fr.e = Top(t).e
      BY <1>2 DEF Frame
    <3>2. QED
      BY <1>2, <2>1, <3>1 DEF Goto
  <2>2. CASE GotoWith(t, pc, f)
    <3> DEFINE fr == [Top(t) EXCEPT !.pc = pc, !.f = f]
    <3>1. fr.op = Top(t).op /\ fr.key = Top(t).key /\ fr.e = Top(t).e
      BY <1>2 DEF Frame
    <3>2. QED
      BY <1>2, <2>2, <3>1 DEF GotoWith
  <2>3. QED
    BY <1>5, <2>1, <2>2
<1>6. CASE LookUp(t)
  <2>1. CASE FindEntry(Top(t).key) = NoEntry
    BY <1>1, <1>3, <1>4, <1>6, <2>1 DEF LookUp
  <2>2. CASE FindEntry(Top(t).key) # NoEntry
    <3> DEFINE fr == [Top(t) EXCEPT !.e = FindEntry(Top(t).key),
                        !.pc = IF Top(t).op = "GetService" THEN "service" ELSE "factory"]
    <3>1. fr.op = Top(t).op /\ fr.key = Top(t).key /\ fr.e = FindEntry(Top(t).key)
      BY <1>2 DEF Frame
    <3>2. stack' = [stack EXCEPT ![t] = SetTop(stack[t], fr)]
      BY <1>2, <1>6, <2>2 DEF LookUp
    <3>3. QED
      BY <1>1, <1>3, <3>1, <3>2
  <2>3. QED
    BY <2>1, <2>2
<1>7. CASE RequestNeeded(t)
  <2> DEFINE fr == [Top(t) EXCEPT !.pc = "nested"]
  <2>1. fr.op = Top(t).op /\ fr.key = Top(t).key /\ fr.e = Top(t).e
    BY <1>2 DEF Frame
  <2>2. stack' = [stack EXCEPT ![t] =
                    Append(SetTop(stack[t], fr), NewFrame("GetService", Wants(t)))]
    BY <1>2, <1>7 DEF RequestNeeded
  <2>3. QED
    BY <1>1, <1>3, <2>1, <2>2
<1>8. CASE \/ TestService(t) \/ TestFactory(t) \/ Load(t) \/ Loading(t) \/ Loaded(t)
           \/ TakeFactory(t) \/ Construct(t) \/ StoreService(t) \/ Undefined(t)
  <2>1. Return(t) \/ \E pc, f : Goto(t, pc) \/ GotoWith(t, pc, f)
    BY <1>8 DEF TestService, TestFactory, Load, Loading, Loaded, TakeFactory, Construct,
       StoreService, Undefined
  <2>2. QED
    BY <1>1, <1>3, <1>4, <1>5, <2>1
<1>9. QED
  BY <1>6, <1>7, <1>8 DEF CallStep

LEMMA CallStepKeepsLive ==
  ASSUME LiveInv, NEW t \in Thread, CallStep(t) \/ Undefined(t), SInv'
  PROVE  LiveInv'
<1> DEFINE pc == exit.pc
           AsTop(fr) == /\ fr.op = Top(t).op /\ fr.key = Top(t).key
                        /\ fr.e \in Entry => fr.e = Top(t).e \/ fr.e = FindEntry(Top(t).key)
<1>1. SInv
  BY DEF LiveInv
<1>2. /\ ~Idle(t) /\ UNCHANGED <<lock, exit>> /\ stack[t] \in Seq(Frame) /\ stack[t] # <<>>
      /\ Top(t) = stack[t][Len(stack[t])] /\ Len(stack[t]) \in DOMAIN stack[t]
      /\ Top(t) \in Frame /\ stack \in [Thread -> Seq(Frame)]
      /\ \A e \in Entry : heap'[e].live = heap[e].live
  BY <1>1, CallStepEntries, TopFacts DEF SInv, IInv, TypeOK
<1>3. ASSUME NEW u \in Thread
      PROVE  LiveStack(heap', pc, stack[u])
  BY <1>2 DEF LiveInv, LiveStack, LiveFrame
<1>4. ASSUME FindEntry(Top(t).key) \in Entry
      PROVE  heap[FindEntry(Top(t).key)].live \/ Late(pc, Top(t))
  <2>1. CASE pc # "delete"
    BY <1>1, <1>2, <1>4, <2>1, ConstantsAssumption
    DEF FindEntry, Frame, SInv, IInv, RegistryInv, ClassesSound, Sound, ContractTableSound
  <2>2. CASE pc = "delete"
    <3>1. Top(t).op = "GetClassObject"
      BY <1>1, <1>2, <2>2, CallIsUp
    <3>2. Top(t).key \in CID
      BY <1>1, <1>2, <1>4, <2>2, ConstantsAssumption
      DEF FindEntry, Frame, SInv, IInv, RegistryInv, ExitInv
    <3>3. QED
      BY <2>2, <3>1, <3>2 DEF Late
  <2>3. QED
    BY <2>1, <2>2
<1>5. Top(t).e \in Entry => heap[Top(t).e].live \/ Late(pc, Top(t))
  BY <1>2 DEF LiveInv, LiveStack, LiveFrame
<1>6. LiveStack(heap', pc, stack'[t])
  <2>1. CASE stack' = [stack EXCEPT ![t] = Pop(stack[t])]
    <3>1. LiveStack(heap', pc, Pop(stack[t]))
      BY <1>2, <1>3, LiveStackFacts
    <3>2. stack'[t] = Pop(stack[t])
      BY <1>2, <2>1
    <3>3. QED
      BY <3>1, <3>2
  <2>2. ASSUME NEW fr, AsTop(fr)
        PROVE  /\ LiveStack(heap', pc, SetTop(stack[t], fr))
               /\ stack' = [stack EXCEPT ![t] = SetTop(stack[t], fr)] =>
                    LiveStack(heap', pc, stack'[t])
    <3>1. LiveFrame(heap', pc, fr)
      BY <1>2, <1>4, <1>5, <2>2 DEF LiveFrame, Late
    <3>2. LiveStack(heap', pc, SetTop(stack[t], fr))
      BY <1>2, <1>3, <3>1, LiveStackFacts
    <3>3. QED
      BY <1>2, <3>2
  <2>3. ASSUME NEW fr, NEW op, NEW key, AsTop(fr),
               stack' = [stack EXCEPT ![t] = Append(SetTop(stack[t], fr), NewFrame(op, key))]
        PROVE  LiveStack(heap', pc, stack'[t])
    <3> DEFINE s == SetTop(stack[t], fr)
               s2 == Append(s, NewFrame(op, key))
    <3>1. LiveStack(heap', pc, s)
      BY <2>2, <2>3
    <3>2. stack'[t] = s2
      BY <1>2, <2>3
    <3>a. stack[t] \in Seq(Frame \cup {fr})
      BY <1>2
    <3>3. s \in Seq(Frame \cup {fr})
      BY <1>2, <3>a DEF SetTop
    <3>4. \A i \in DOMAIN s2 : (i \in DOMAIN s /\ s2[i] = s[i]) \/ s2[i] = NewFrame(op, key)
      BY <3>3
    <3>5. NewFrame(op, key).e \notin Entry
      BY ConstantsAssumption DEF NewFrame
    <3>6. QED
      BY <3>1, <3>2, <3>4, <3>5 DEF LiveStack, LiveFrame
  <2>4. CASE stack' # [stack EXCEPT ![t] = Pop(stack[t])]
    <3>1. PICK fr :
            /\ AsTop(fr)
            /\ \/ stack' = [stack EXCEPT ![t] = SetTop(stack[t], fr)]
               \/ \E op, key : stack' = [stack EXCEPT ![t] =
                    Append(SetTop(stack[t], fr), NewFrame(op, key))]
      BY <1>1, <2>4, CallStepEntries
    <3>2. QED
      BY <2>2, <2>3, <3>1
  <2>5. QED
    BY <2>1, <2>4
<1>7. \A u \in Thread \ {t} : stack'[u] = stack[u]
  BY <1>1, <1>2, CallStepEntries
<1>8. QED
  BY <1>2, <1>3, <1>6, <1>7 DEF LiveInv

(* The registrar deletes no entry it has not unregistered.                  *)
LEMMA RegistrarKeepsLive ==
  ASSUME LiveInv, \A t \in Thread : "UnregisterFactory" \notin MayCall[t], NEW t \in Thread,
         \/ \E c \in CID, id \in ContractID \cup {NullID, EmptyID} :
              \/ \E f \in Factory : RegisterFactory(t, c, id, f)
              \/ RegisterFactoryLocation(t, c, id)
         \/ \E c \in CID : UnregisterFactory(t, c)
         \/ RegistrarStep(t),
         SInv'
  PROVE  LiveInv'
<1>1. heap \in [Entry -> FactoryEntry]
  BY DEF LiveInv, SInv, IInv, TypeOK
<1>2. ASSUME NEW c \in CID, NEW id \in ContractID \cup {NullID, EmptyID},
             \/ \E f \in Factory : RegisterFactory(t, c, id, f)
             \/ RegisterFactoryLocation(t, c, id)
      PROVE  /\ UNCHANGED <<stack, exit>> /\ lock'.pc = "hash"
             /\ \A e \in Entry : heap[e].live => heap'[e].live
  <2>1. UNCHANGED <<stack, exit>> /\ lock'.pc = "hash"
    <3>1. ASSUME NEW f \in Factory, RegisterFactory(t, c, id, f)
          PROVE  UNCHANGED <<stack, exit>> /\ lock'.pc = "hash"
      BY <3>1 DEF RegisterFactory, WriteAt
    <3>2. ASSUME RegisterFactoryLocation(t, c, id)
          PROVE  UNCHANGED <<stack, exit>> /\ lock'.pc = "hash"
      BY <3>2 DEF RegisterFactoryLocation, WriteAt
    <3>3. QED
      BY <1>2, <3>1, <3>2
  <2>2. \/ heap' = heap
        \/ \E e \in Entry, f \in MaybeFactory : heap' = [heap EXCEPT ![e] = NewEntry(c, f)]
        \/ \E f \in Factory : heap' = [heap EXCEPT ![mFactories[c]].mFactory = f]
    BY <1>2 DEF RegisterFactory, RegisterFactoryLocation, AddFactoryEntry, MaybeFactory
  <2>3. \A f : NewEntry(c, f).live
    BY DEF NewEntry
  <2>4. ASSUME NEW f, heap' = [heap EXCEPT ![mFactories[c]].mFactory = f]
        PROVE  \A e \in Entry : heap'[e].live = heap[e].live
    BY <1>1, <2>4 DEF FactoryEntry
  <2>5. QED
    BY <1>1, <2>1, <2>2, <2>3, <2>4
<1>3. ASSUME NEW c \in CID
      PROVE  ~UnregisterFactory(t, c)
  BY DEF UnregisterFactory, CanRegister
<1>4. ASSUME RegistrarStep(t)
      PROVE  UNCHANGED <<stack, exit>> /\ lock'.pc = "free" /\ heap' = heap
  BY <1>4 DEF RegistrarStep, HashContractID, EraseContractID, RemoveFactoryEntry, DeleteEntry,
     Writing, Unlocked, LiveInv
<1>5. /\ UNCHANGED <<stack, exit>> /\ lock'.pc \in {"free", "hash"}
      /\ \A e \in Entry : heap[e].live => heap'[e].live
  BY <1>2, <1>3, <1>4
<1>6. QED
  BY <1>5 DEF LiveInv, LiveStack, LiveFrame

(* When no thread unregisters, a call in progress has a live entry under    *)
(* its feet although it dropped mLock before it uses the entry              *)
(* (cciComponentManager.cpp:436-445), the calls of the destructors that run *)
(* in CCI_Shutdown included: the flag refuses them CreateInstance and       *)
(* GetService, the cleared mContractIds the rest. The one call that may     *)
(* meet a deleted entry is a GetClassObject by class (361-383) made while   *)
(* Shutdown deletes the entries.                                            *)
THEOREM EntriesInUse ==
  ASSUME \A t \in Thread : "UnregisterFactory" \notin MayCall[t]
  PROVE  Spec => []EntriesInUseAreLive
<1>1. Init => LiveInv
  <2>1. Init => SInv
    BY InitServices
  <2>2. Init => lock.pc = "free" /\ \A t \in Thread : LiveStack(heap, exit.pc, stack[t])
    BY DEF LiveStack, Init, Unlocked
  <2>3. QED
    BY <2>1, <2>2 DEF LiveInv
<1>2. LiveInv /\ [Next]_vars => LiveInv'
  <2>1. SUFFICES ASSUME LiveInv, [Next]_vars
                 PROVE  LiveInv'
    OBVIOUS
  <2>2. SInv /\ SInv'
    BY <2>1, NextKeepsServices DEF LiveInv
  <2>3. ASSUME NEW t \in Thread, NEW op \in ReadCall, NEW key \in CID \cup ContractID,
               BeginCall(t, op, key)
        PROVE  LiveInv'
    <3>1. stack' = [stack EXCEPT ![t] = Append(stack[t], NewFrame(op, key))]
          /\ stack \in [Thread -> Seq(Frame)] /\ UNCHANGED <<lock, exit, heap>>
      BY <2>2, <2>3 DEF BeginCall, SInv, IInv, TypeOK
    <3>2. LiveStack(heap, exit.pc, stack'[t]) /\ \A u \in Thread \ {t} : stack'[u] = stack[u]
      BY <2>1, <3>1, LiveStackFacts DEF LiveInv
    <3>3. QED
      BY <2>1, <2>2, <3>1, <3>2 DEF LiveInv
  <2>4. ASSUME CCI_Init \/ CCI_Shutdown \/ ExitStep
        PROVE  LiveInv'
    <3>1. stack' = stack /\ lock' = lock
      BY <2>4 DEF CCI_Init, CCI_Shutdown, ExitStep, FreeServices, ShutdownEntry, ReleaseManager,
         ShutdownComplete
    <3>2. \A t \in Thread : stack[t] = <<>>
      <4>1. CASE CCI_Shutdown
        BY <4>1 DEF CCI_Shutdown, Idle
      <4>2. CASE CCI_Init \/ ExitStep
        <5>1. exit.pc # "up" /\ (Idle(Main) \/ exit.pc = "down")
          BY <4>2 DEF CCI_Init, ExitStep, FreeServices, ShutdownEntry, ReleaseManager,
             ShutdownComplete, ExitAt
        <5>2. gCCIShuttingDown
          BY <2>2, <5>1 DEF SInv, ServicesInv, FlagInv
        <5>3. QED
          BY <2>2, <5>1, <5>2, NoneLate DEF Idle
      <4>3. QED
        BY <2>4, <4>1, <4>2
    <3>3. QED
      BY <2>1, <2>2, <3>1, <3>2 DEF LiveInv, LiveStack
  <2>5. CASE UNCHANGED vars
    BY <2>1, <2>2, <2>5 DEF vars, LiveInv
  <2>6. QED
    BY <2>1, <2>2, <2>3, <2>4, <2>5, CallStepKeepsLive, RegistrarKeepsLive DEF Next
<1>3. LiveInv => EntriesInUseAreLive
  <2>1. SUFFICES ASSUME LiveInv, NEW t \in Thread, NEW i \in DOMAIN stack[t],
                        WillUseEntry(stack[t][i])
                 PROVE  heap[stack[t][i].e].live \/ AsksForClassInShutdown(t, stack[t][i])
    BY DEF EntriesInUseAreLive
  <2>2. stack[t][i] \in Frame
    BY <2>1, FrameFacts DEF LiveInv
  <2>3. stack[t][i].e \in Entry
    BY <2>1, <2>2 DEF Frame, Pointer, WillUseEntry
  <2>4. heap[stack[t][i].e].live \/ Late(exit.pc, stack[t][i])
    BY <2>1, <2>3 DEF LiveInv, LiveStack, LiveFrame
  <2>5. exit.pc = "delete" => t = Main
    BY <2>1 DEF LiveInv, SInv, ServicesInv, FlagInv, AllLate
  <2>6. QED
    BY <2>4, <2>5 DEF Late, AsksForClassInShutdown
<1>4. QED
  BY <1>1, <1>2, <1>3, PTL DEF Spec

===============================================================================
