-------------------------------- MODULE Objects --------------------------------
(***************************************************************************)
(* The life of cci objects: reference counts (cciSupportsImpl.h), owning   *)
(* pointers (cciCOMPtr.h), weak references (cciWeakReference.cpp), and the *)
(* allocator that knows every object and destroys, at its end, the ones    *)
(* that are still alive (cciAllocatorImpl.cpp).                            *)
(*                                                                         *)
(* Counts are not atomic: objects are used by one thread. What makes them  *)
(* hard is the destructor, which releases other objects in the middle of   *)
(* an assignment. Destructors in progress are frames of a stack.           *)
(*                                                                         *)
(* An object is a plain one (a cci_Ptr as member, weak references to it),  *)
(* a holder (a raw pointer that it owns, as cciSingletonEnumerator), or    *)
(* the proxy of a plain one (cciWeakReference).                            *)
(***************************************************************************)
EXTENDS Naturals, Sequences, FiniteSets, SequencesExt

CONSTANTS
  Object,     \* the addresses objects may have
  Slot,       \* the cci_Ptr variables of the program
  NULL

ASSUME ObjectAssumption == IsFiniteSet(Object) /\ IsFiniteSet(Slot) /\ NULL \notin Object

VARIABLES
  heap,       \* the memory of each object
  mInstances, \* the allocator's list of objects, oldest first
  slot,
  loose,      \* a reference in an already_AddRefed
  filling,    \* the variable a getter_AddRefs refers to, while the callee runs
  stack,      \* destructors in progress, the innermost one last
  phase       \* of the allocator

vars == <<heap, mInstances, slot, loose, filling, stack, phase>>

Pointer == Object \cup {NULL}
Class == {"plain", "holder", "proxy"}

(* "live": the magic number is there. "revoked": the collector has taken   *)
(* it off and the destructor runs. "rotted": and the destructor is done.   *)
Memory == [state : {"free", "live", "revoked", "rotted"}, class : Class,
           mRefCnt : Nat, member : Pointer, proxy : Pointer, mReferent : Pointer]
Free == [state |-> "free", class |-> "plain", mRefCnt |-> 0,
         member |-> NULL, proxy |-> NULL, mReferent |-> NULL]

Step == {"body", "members", "bases", "memory"}
Frame == [object : Object, step : Step, by : {"delete", "collector"}]

Init ==
  /\ heap = [o \in Object |-> Free] /\ mInstances = <<>>
  /\ slot = [s \in Slot |-> NULL] /\ loose = NULL /\ filling = NULL
  /\ stack = <<>> /\ phase = "running"

-----------------------------------------------------------------------------
(* Counting. Each of these is a heap, h the heap before.                    *)
AddRef_Lost(h, o) == h
AddRef(h, o) == IF o = NULL THEN h ELSE [h EXCEPT ![o].mRefCnt = @ + 1]

CCI_VerifyObject(h, o) == h[o].state = "live"

LastRelease(h, o) == o # NULL /\ CCI_VerifyObject(h, o) /\ h[o].mRefCnt = 1

(* The last release leaves the count at one, for the destructor.            *)
Stabilized_Not(h, o) == [h EXCEPT ![o].mRefCnt = 0]
Stabilized(h, o) == h
Release(h, o) ==
  IF o = NULL \/ ~CCI_VerifyObject(h, o) THEN h
  ELSE IF LastRelease(h, o) THEN Stabilized(h, o)
  ELSE [h EXCEPT ![o].mRefCnt = @ - 1]

(* The destructor the release of o begins.                                  *)
Destructor(o, by) == [object |-> o, step |-> "body", by |-> by]
Delete(h, o) == IF LastRelease(h, o) THEN <<Destructor(o, "delete")>> ELSE <<>>

(* NewObject: the address o, at the end of the list.                        *)
NewObject(h, o, class, value, referent) ==
  [h EXCEPT ![o] = [Free EXCEPT !.state = "live", !.class = class,
                                !.member = value, !.mReferent = referent]]

(* cci_Ptr_base::assign_assuming_AddRef on a variable: h has the new value  *)
(* counted. The variable is written before the old value is released.       *)
AssignAssumingAddRef_NoRelease(h, s, new) ==
  slot' = [slot EXCEPT ![s] = new] /\ heap' = h /\ stack' = stack
AssignAssumingAddRef(h, s, new) ==
  /\ slot' = [slot EXCEPT ![s] = new]
  /\ heap' = Release(h, slot[s])
  /\ stack' = stack \o Delete(h, slot[s])

(* The same on the member of an object.                                     *)
AssignMember(h, o, new) ==
  LET written == [h EXCEPT ![o].member = new]
  IN /\ heap' = Release(written, h[o].member)
     /\ stack' = stack \o Delete(written, h[o].member)

-----------------------------------------------------------------------------
(* The program. It runs when no destructor does, and holds no variable in   *)
(* a getter_AddRefs while it does something else.                           *)
Running == phase = "running" /\ stack = <<>> /\ filling = NULL
Live(o) == o \in Object /\ heap[o].state = "live"
Kept == UNCHANGED <<loose, filling, phase>>

(* cci_Ptr<T> p = new T(...);                                               *)
Create(s) ==
  /\ Running /\ Kept
  /\ \E o \in Object, class \in {"plain", "holder"}, value \in Pointer :
       /\ heap[o].state = "free"
       /\ value # NULL => class = "holder" /\ value \in Range(slot)
       /\ mInstances' = Append(mInstances, o)
       /\ AssignAssumingAddRef(
            AddRef(AddRef(NewObject(heap, o, class, value, NULL), value), o), s, o)

(* cci_Ptr<T>::operator=( const cci_Ptr<T>& ), operator=( T* ), and the     *)
(* copy constructor on an empty variable.                                   *)
Assign_ReleasesFirst(s, new) ==
  /\ Running /\ Kept /\ new \in Range(slot) \cup {NULL}
  /\ slot' = [slot EXCEPT ![s] = new]
  /\ heap' = AddRef(Release(heap, slot[s]), new) /\ stack' = Delete(heap, slot[s])
  /\ UNCHANGED mInstances
Assign(s, new) ==
  /\ Running /\ Kept /\ new \in Range(slot) \cup {NULL}
  /\ AssignAssumingAddRef(AddRef(heap, new), s, new)
  /\ UNCHANGED mInstances

(* do_QueryInterface, do_GetService and the other helpers: the answer has   *)
(* its reference already. When the call fails the variable becomes null.    *)
AssignFromCall(s, answer) ==
  /\ Running /\ Kept /\ (answer = NULL \/ Live(answer))
  /\ AssignAssumingAddRef(AddRef(heap, answer), s, answer)
  /\ UNCHANGED mInstances

Swap(s, t) ==
  /\ Running /\ Kept /\ s # t
  /\ slot' = [slot EXCEPT ![s] = slot[t], ![t] = slot[s]]
  /\ UNCHANGED <<heap, mInstances, stack>>

(* already_AddRefed<T> r = p.forget();                                      *)
Forget(s) ==
  /\ Running /\ loose = NULL /\ slot[s] # NULL
  /\ loose' = slot[s] /\ slot' = [slot EXCEPT ![s] = NULL]
  /\ UNCHANGED <<heap, mInstances, filling, stack, phase>>

(* p = r; with an already_AddRefed r.                                       *)
AssignAddRefed(s) ==
  /\ Running /\ loose # NULL /\ loose' = NULL
  /\ AssignAssumingAddRef(heap, s, loose)
  /\ UNCHANGED <<mInstances, filling, phase>>

(* getter_AddRefs(p): the variable is emptied when the argument is made,    *)
StartAssignment(s) ==
  /\ Running /\ filling' = s
  /\ AssignAssumingAddRef(heap, s, NULL)
  /\ UNCHANGED <<mInstances, loose, phase>>

(* and the callee, if it succeeds, stores a reference in it.                *)
CalleeReturns(answer) ==
  /\ phase = "running" /\ stack = <<>> /\ filling # NULL /\ filling' = NULL
  /\ answer = NULL \/ Live(answer)
  /\ slot' = [slot EXCEPT ![filling] = answer]
  /\ heap' = AddRef(heap, answer)
  /\ UNCHANGED <<mInstances, loose, stack, phase>>

(* A plain object assigns its member: it was called by somebody who does    *)
(* not own it, so the release of the old value may destroy it.              *)
SetMember(o, new) ==
  /\ Running /\ Kept /\ Live(o) /\ heap[o].class = "plain"
  /\ new \in Range(slot) \cup {NULL} /\ heap[o].member # new
  /\ AssignMember(AddRef(heap, new), o, new)
  /\ UNCHANGED <<mInstances, slot>>

(* p = do_GetWeakReference(q), q # null: the referent's only proxy, made by *)
(* the first call. Objects without weak references give null.               *)
GetWeakReference(s, t) ==
  /\ Running /\ Kept /\ slot[t] # NULL
  /\ LET o == slot[t] IN
     IF heap[o].class # "plain" THEN AssignAssumingAddRef(heap, s, NULL) /\ UNCHANGED mInstances
     ELSE IF heap[o].proxy # NULL
     THEN AssignAssumingAddRef(AddRef(heap, heap[o].proxy), s, heap[o].proxy) /\ UNCHANGED mInstances
     ELSE \E p \in Object :
            /\ heap[p].state = "free"
            /\ mInstances' = Append(mInstances, p)
            /\ AssignAssumingAddRef(
                 AddRef([NewObject(heap, p, "proxy", NULL, o) EXCEPT ![o].proxy = p], p), s, p)

(* p = do_QueryReferent(w)                                                  *)
QueryReferent(s, t) ==
  /\ Running /\ Kept /\ slot[t] # NULL /\ heap[slot[t]].class = "proxy"
  /\ LET o == heap[slot[t]].mReferent IN AssignAssumingAddRef(AddRef(heap, o), s, o)
  /\ UNCHANGED mInstances

-----------------------------------------------------------------------------
(* Destructors. Top is the innermost one.                                   *)
Top == stack[Len(stack)]
At(step) == stack # <<>> /\ Top.step = step
Below(step) == [stack EXCEPT ![Len(stack)].step = step]
DestructorKept == UNCHANGED <<slot, loose, filling, phase>>

(* The destructor hands its object to somebody, who keeps it for a while.   *)
DestructorBody ==
  /\ At("body") /\ DestructorKept /\ UNCHANGED mInstances
  /\ LET o == Top.object
         held == AddRef(heap, o)
     IN heap' = Release(held, o) /\ stack' = Below("members") \o Delete(held, o)

(* ~cci_Ptr_base leaves rotted objects alone, CCI_IF_RELEASE does not look. *)
Released_Anyhow(o) == heap[o].member
Released(o) ==
  LET v == heap[o].member
  IN IF v # NULL /\ heap[o].class = "plain" /\ heap[v].state = "rotted" THEN NULL ELSE v

DestroyMembers ==
  /\ At("members") /\ DestructorKept /\ UNCHANGED mInstances
  /\ LET o == Top.object
         v == Released(o)
         written == [heap EXCEPT ![o].member = NULL]
     IN heap' = Release(written, v) /\ stack' = Below("bases") \o Delete(written, v)

(* ~cciSupportsWeakReference and ~cciWeakReference: the one tells the other.*)
Separated_ProxySilent(h, o) ==
  IF h[o].proxy = NULL THEN h
  ELSE [h EXCEPT ![o].proxy = NULL, ![h[o].proxy].mReferent = NULL]
Separated(h, o) ==
  LET p == h[o].proxy
      r == h[o].mReferent
  IN IF p # NULL THEN [h EXCEPT ![o].proxy = NULL, ![p].mReferent = NULL]
     ELSE IF r # NULL THEN [h EXCEPT ![o].mReferent = NULL, ![r].proxy = NULL]
     ELSE h
ClearWeakReferences ==
  /\ At("bases") /\ DestructorKept /\ UNCHANGED mInstances
  /\ heap' = Separated(heap, Top.object)
  /\ stack' = Below("memory")

(* After the destructor: operator delete revokes and frees, the collector   *)
(* keeps the memory and marks it.                                           *)
RevokeObject_KeepsListed ==
  /\ At("memory") /\ DestructorKept /\ UNCHANGED mInstances
  /\ heap' = [heap EXCEPT ![Top.object] =
                 [Free EXCEPT !.state = IF Top.by = "delete" THEN "free" ELSE "rotted"]]
  /\ stack' = Front(stack)
RevokeObject ==
  /\ At("memory") /\ DestructorKept
  /\ LET o == Top.object
         left == IF Top.by = "delete" THEN "free" ELSE "rotted"
     IN /\ heap' = [heap EXCEPT ![o] = [Free EXCEPT !.state = left]]
        /\ mInstances' = RemoveFirst(mInstances, o)
  /\ stack' = Front(stack)

-----------------------------------------------------------------------------
(* ReleaseAllocatorState: the last act of the program.                      *)
ReleaseAllocatorState ==
  /\ Running /\ phase' = "collecting"
  /\ UNCHANGED <<heap, mInstances, slot, loose, filling, stack>>

(* The next object to collect: Pop_Back, the youngest.                      *)
Popped == Last(mInstances)
FreeObject ==
  /\ phase = "collecting" /\ stack = <<>> /\ mInstances # <<>>
  /\ mInstances' = Front(mInstances)
  /\ heap' = [heap EXCEPT ![Popped].state = "revoked"]
  /\ stack' = <<Destructor(Popped, "collector")>>
  /\ DestructorKept

FreeGarbageList ==
  /\ phase = "collecting" /\ stack = <<>> /\ mInstances = <<>>
  /\ heap' = [o \in Object |-> IF heap[o].state = "rotted" THEN Free ELSE heap[o]]
  /\ phase' = "released"
  /\ UNCHANGED <<mInstances, slot, loose, filling, stack>>

Terminated == phase = "released" /\ UNCHANGED vars

-----------------------------------------------------------------------------
Program ==
  \/ \E s \in Slot : Create(s) \/ Forget(s) \/ AssignAddRefed(s) \/ StartAssignment(s)
  \/ \E s \in Slot, o \in Pointer : Assign(s, o) \/ AssignFromCall(s, o)
  \/ \E s, t \in Slot : Swap(s, t) \/ GetWeakReference(s, t) \/ QueryReferent(s, t)
  \/ \E o \in Pointer : CalleeReturns(o)
  \/ \E o \in Object, new \in Pointer : SetMember(o, new)
Destruction == DestructorBody \/ DestroyMembers \/ ClearWeakReferences \/ RevokeObject
Collection == ReleaseAllocatorState \/ FreeObject \/ FreeGarbageList
Next == Program \/ Destruction \/ Collection \/ Terminated

Spec == Init /\ [][Next]_vars
-----------------------------------------------------------------------------
(* The types of the variables.                                              *)
TypeOK ==
  /\ heap \in [Object -> Memory] /\ mInstances \in Seq(Object)
  /\ slot \in [Slot -> Pointer] /\ loose \in Pointer /\ filling \in Slot \cup {NULL}
  /\ stack \in Seq(Frame) /\ phase \in {"running", "collecting", "released"}

Dying(o) == \E i \in DOMAIN stack : stack[i].object = o

Owners(o) == Cardinality({s \in Slot : slot[s] = o}) + (IF loose = o THEN 1 ELSE 0)
             + Cardinality({p \in Object : heap[p].member = o})

(* The count of an object that lives is the number of its owners, also in   *)
(* the middle of the destructors of others: no reference is lost on any     *)
(* path through the owning pointers (cciCOMPtr.h).                          *)
CountsOwners == \A o \in Object : Live(o) /\ ~Dying(o) => heap[o].mRefCnt = Owners(o)

(* No owner is left behind: until the allocator is released, whoever owns   *)
(* an object owns one whose destructor has not begun.                       *)
OwnersHoldLive ==
  phase = "running" => \A o \in Object : Owners(o) > 0 => Live(o) /\ ~Dying(o)

(* A destructor is entered once (stabilisation of the count in              *)
(* CCI_IMPL_RELEASE_WITH_DESTROY, order of the writes in                    *)
(* assign_assuming_AddRef), by delete as long as the object is live.        *)
DestroyedOnce ==
  /\ \A i, j \in DOMAIN stack : stack[i].object = stack[j].object => i = j
  /\ \A i \in DOMAIN stack :
       heap[stack[i].object].state = IF stack[i].by = "delete" THEN "live" ELSE "revoked"

(* Release is a virtual call: a destructor never makes it on memory that is *)
(* free or marked 0xDEADBEEF, not even while the collector destroys objects *)
(* that own each other (~cci_Ptr_base, FreeAllObjects).                     *)
CallsReachObjects ==
  At("members") =>
    LET v == Released(Top.object) IN v # NULL => heap[v].state \in {"live", "revoked"}

(* A proxy and its referent know each other until one of them goes, so no   *)
(* weak reference leads to freed memory (cciWeakReference.cpp).             *)
WeakIsMutual ==
  \A o \in Object :
    /\ heap[o].proxy # NULL =>
         heap[heap[o].proxy].mReferent = o /\ heap[heap[o].proxy].state \in {"live", "revoked"}
    /\ heap[o].mReferent # NULL =>
         heap[heap[o].mReferent].proxy = o /\ heap[heap[o].mReferent].state \in {"live", "revoked"}

(* The allocator knows every live object, and at its end, whatever cycles   *)
(* the program has left, every destructor has run and no memory is left     *)
(* (ReleaseAllocatorState).                                                 *)
NothingLeaks ==
  /\ Range(mInstances) = {o \in Object : Live(o)}
  /\ Len(mInstances) = Cardinality(Range(mInstances))
  /\ phase = "released" => heap = [o \in Object |-> Free]
=============================================================================
