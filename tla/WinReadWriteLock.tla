--------------------------- MODULE WinReadWriteLock ---------------------------
(***************************************************************************)
(* dmRWLock for Windows (utilities/include/plateform/win/_dmRWLocks.cpp):  *)
(* a critical section, the count of readers, and a semaphore that the      *)
(* first reader takes and the last one gives back. A writer keeps the      *)
(* critical section for as long as it writes.                              *)
(*                                                                         *)
(* A thread that takes several read locks is modelled by several threads:  *)
(* nothing but the critical section knows who its owner is, and no thread  *)
(* calls RdLock from within a call. Nobody asks for a second lock while it *)
(* writes, or for a write lock while it reads.                             *)
(***************************************************************************)
EXTENDS Naturals, FiniteSets

CONSTANTS
  Thread,      \* the threads that use the lock
  NoThread

ASSUME ThreadAssumption == IsFiniteSet(Thread) /\ NoThread \notin Thread

VARIABLES
  _ExclusiveMutex,         \* the owner of the critical section
  _SharedAccessCompleted,  \* the semaphore's count
  _SharedAccessCount,
  pc                       \* per thread, where it is in its call

vars == <<_ExclusiveMutex, _SharedAccessCompleted, _SharedAccessCount, pc>>

Outside == {"idle", "RdLock", "WrLock", "Unlock", "reading"}
Inside  == {"count", "take", "shared", "test", "try", "wait", "restore", "writing",
            "uncount", "signal", "done"}

TypeOK ==
  /\ _ExclusiveMutex \in Thread \cup {NoThread}
  /\ _SharedAccessCompleted \in {0, 1}
  /\ _SharedAccessCount \in 0..Cardinality(Thread)
  /\ pc \in [Thread -> Outside \cup Inside]

Init ==
  /\ _ExclusiveMutex = NoThread
  /\ _SharedAccessCompleted = 1
  /\ _SharedAccessCount = 0
  /\ pc = [t \in Thread |-> "idle"]

-----------------------------------------------------------------------------
At(t, label) == pc[t] = label
Goto(t, label) == pc' = [pc EXCEPT ![t] = label]

Call(t) ==
  /\ At(t, "idle")
  /\ \E op \in {"RdLock", "WrLock"} : Goto(t, op)
  /\ UNCHANGED <<_ExclusiveMutex, _SharedAccessCompleted, _SharedAccessCount>>

(* EnterCriticalSection, and where the call goes on.                        *)
Entered == [RdLock |-> "count", WrLock |-> "test", Unlock |-> "uncount"]
EnterCriticalSection(t) ==
  /\ pc[t] \in DOMAIN Entered /\ _ExclusiveMutex = NoThread
  /\ _ExclusiveMutex' = t
  /\ Goto(t, Entered[pc[t]])
  /\ UNCHANGED <<_SharedAccessCompleted, _SharedAccessCount>>

(* TryRdLock and TryWrLock. If somebody is inside they return false.        *)
TryEnterCriticalSection(t) ==
  /\ At(t, "idle") /\ _ExclusiveMutex = NoThread
  /\ _ExclusiveMutex' = t
  /\ \E label \in {"count", "try"} : Goto(t, label)
  /\ UNCHANGED <<_SharedAccessCompleted, _SharedAccessCount>>

(* ++_SharedAccessCount == 1                                                *)
Count(t) ==
  /\ At(t, "count")
  /\ _SharedAccessCount' = _SharedAccessCount + 1
  /\ Goto(t, IF _SharedAccessCount' = 1 THEN "take" ELSE "shared")
  /\ UNCHANGED <<_ExclusiveMutex, _SharedAccessCompleted>>

(* The first reader takes the semaphore, and a writer waits for the last    *)
(* one to give it back.                                                     *)
WaitForSemaphore(t) ==
  /\ pc[t] \in {"take", "wait"} /\ _SharedAccessCompleted = 1
  /\ _SharedAccessCompleted' = 0
  /\ Goto(t, IF At(t, "take") THEN "shared" ELSE "restore")
  /\ UNCHANGED <<_ExclusiveMutex, _SharedAccessCount>>

ReleaseSemaphore(t) ==
  /\ pc[t] \in {"restore", "signal"}
  /\ _SharedAccessCompleted' = 1
  /\ Goto(t, IF At(t, "restore") THEN "writing" ELSE "done")
  /\ UNCHANGED <<_ExclusiveMutex, _SharedAccessCount>>

LeaveCriticalSection(t) ==
  /\ pc[t] \in {"shared", "done"}
  /\ _ExclusiveMutex' = NoThread
  /\ Goto(t, IF At(t, "shared") THEN "reading" ELSE "idle")
  /\ UNCHANGED <<_SharedAccessCompleted, _SharedAccessCount>>

(* Faulty variant: the readers are not looked for.                          *)
TestCount_Never(t) ==
  /\ pc[t] \in {"test", "try"}
  /\ Goto(t, "writing")
  /\ UNCHANGED <<_ExclusiveMutex, _SharedAccessCompleted, _SharedAccessCount>>

(* Without readers the critical section is the write lock. With readers,    *)
(* WrLock waits where it is, and TryWrLock gives up.                        *)
TestCount(t) ==
  /\ pc[t] \in {"test", "try"}
  /\ \/ /\ _SharedAccessCount = 0
        /\ Goto(t, "writing") /\ UNCHANGED _ExclusiveMutex
     \/ /\ _SharedAccessCount > 0 /\ At(t, "test")
        /\ Goto(t, "wait") /\ UNCHANGED _ExclusiveMutex
     \/ /\ _SharedAccessCount > 0 /\ At(t, "try")
        /\ Goto(t, "idle") /\ _ExclusiveMutex' = NoThread
  /\ UNCHANGED <<_SharedAccessCompleted, _SharedAccessCount>>

(* Unlock reads the count outside the critical section to know which lock   *)
(* it gives back: a writer leaves the critical section, a reader enters it. *)
Unlock(t) ==
  /\ pc[t] \in {"reading", "writing"}
  /\ IF _SharedAccessCount > 0
       THEN Goto(t, "Unlock") /\ UNCHANGED _ExclusiveMutex
       ELSE Goto(t, "idle") /\ _ExclusiveMutex' = NoThread
  /\ UNCHANGED <<_SharedAccessCompleted, _SharedAccessCount>>

(* Faulty variant: the critical section is left before the semaphore is     *)
(* given back.                                                              *)
Uncount_LeavesFirst(t) ==
  /\ At(t, "uncount")
  /\ _SharedAccessCount' = _SharedAccessCount - 1
  /\ Goto(t, IF _SharedAccessCount' = 0 THEN "signal" ELSE "idle")
  /\ _ExclusiveMutex' = NoThread
  /\ UNCHANGED _SharedAccessCompleted

(* --_SharedAccessCount == 0                                                *)
Uncount(t) ==
  /\ At(t, "uncount")
  /\ _SharedAccessCount' = _SharedAccessCount - 1
  /\ Goto(t, IF _SharedAccessCount' = 0 THEN "signal" ELSE "done")
  /\ UNCHANGED <<_ExclusiveMutex, _SharedAccessCompleted>>

Step(t) == \/ EnterCriticalSection(t) \/ Count(t) \/ WaitForSemaphore(t)
           \/ ReleaseSemaphore(t) \/ LeaveCriticalSection(t) \/ TestCount(t)
           \/ Uncount(t)

Next == \E t \in Thread : Call(t) \/ TryEnterCriticalSection(t) \/ Step(t) \/ Unlock(t)

Spec == Init /\ [][Next]_vars

(* Whoever is in a call goes on, whoever has a lock gives it back, and      *)
(* whoever waits for the critical section gets it if it is free again and   *)
(* again.                                                                   *)
FairSpec ==
  /\ Spec
  /\ \A t \in Thread : /\ WF_vars(Step(t)) /\ WF_vars(Unlock(t))
                       /\ SF_vars(EnterCriticalSection(t))

-----------------------------------------------------------------------------
(***************************************************************************)
(* Properties.                                                             *)
(***************************************************************************)

(* A writer excludes readers and other writers, from the return of WrLock   *)
(* or TryWrLock until it calls Unlock.                                      *)
Holding(label) ==
  IF label = "reading" THEN "read" ELSE IF label = "writing" THEN "write" ELSE "none"
Holder == [t \in Thread |-> Holding(pc[t])]
Lock == INSTANCE ReadWriteLock WITH holder <- Holder
ImplementsLock == Lock!Spec

(* "if _SharedAccessCount > we unlock a read lock" (Unlock): the count that *)
(* Unlock reads without protection tells a writer from a reader, whatever   *)
(* the other threads do meanwhile.                                          *)
UnlockKnows ==
  \A t \in Thread : /\ At(t, "reading") => _SharedAccessCount > 0
                    /\ At(t, "writing") => _SharedAccessCount = 0

(* The first reader finds the semaphore open, so TryRdLock does not wait,   *)
(* and the last one finds it taken, so that ReleaseSemaphore stays within   *)
(* the maximum of one given to CreateSemaphore.                             *)
SemaphoreInStep ==
  \A t \in Thread : /\ At(t, "take") => _SharedAccessCompleted = 1
                    /\ At(t, "signal") => _SharedAccessCompleted = 0

(* "Wait until read lock becomes available then lock" (dmRWLocks.h:53):     *)
(* WrLock returns when the readers give their locks back.                   *)
WrLockReturns == \A t \in Thread : At(t, "WrLock") ~> At(t, "writing")
=============================================================================
