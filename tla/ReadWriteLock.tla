----------------------------- MODULE ReadWriteLock -----------------------------
(***************************************************************************)
(* What dmRWLock promises (utilities/include/dmRWLocks.h): any number of   *)
(* readers, or one writer.                                                 *)
(***************************************************************************)
CONSTANT Thread

VARIABLE holder      \* per thread, what it holds

Init == holder = [t \in Thread |-> "none"]

ReadLocked(t) ==
  /\ holder[t] = "none" /\ \A u \in Thread : holder[u] # "write"
  /\ holder' = [holder EXCEPT ![t] = "read"]

WriteLocked(t) ==
  /\ \A u \in Thread : holder[u] = "none"
  /\ holder' = [holder EXCEPT ![t] = "write"]

Unlocked(t) ==
  /\ holder[t] # "none"
  /\ holder' = [holder EXCEPT ![t] = "none"]

Next == \E t \in Thread : ReadLocked(t) \/ WriteLocked(t) \/ Unlocked(t)

Spec == Init /\ [][Next]_holder
=============================================================================
