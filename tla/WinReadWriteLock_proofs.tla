----------------------- MODULE WinReadWriteLock_proofs -----------------------
(* Theorems about the Windows read/write lock: it implements the lock that *)
(* dmRWLock promises, and a WrLock that meets a reader never returns.      *)
EXTENDS WinReadWriteLock, FiniteSetTheorems, TLAPS

(* The readers that are counted.                                            *)
Counted == {"take", "shared", "reading", "Unlock", "uncount"}
Readers == {t \in Thread : pc[t] \in Counted}
CountInv == _SharedAccessCount = Cardinality(Readers)

(* The owner of the critical section is where it may be, and alone.         *)
SectionInv == \A t \in Thread : pc[t] \in Inside <=> _ExclusiveMutex = t

(* The semaphore is open when nobody reads. The thread in the critical      *)
(* section may be about to take it, or to give it back.                     *)
Busy == \E t \in Thread : pc[t] \in {"take", "signal"}
SemaphoreInv ==
  /\ ~Busy => (_SharedAccessCompleted = 1 <=> _SharedAccessCount = 0)
  /\ \A t \in Thread :
       /\ At(t, "take") => _SharedAccessCompleted = 1 /\ _SharedAccessCount = 1
       /\ At(t, "signal") => _SharedAccessCompleted = 0 /\ _SharedAccessCount = 0

WriterInv ==
  \A t \in Thread : /\ At(t, "writing") => _SharedAccessCount = 0
                    /\ At(t, "wait") => _SharedAccessCount > 0
                    /\ ~At(t, "restore")

IInv == TypeOK /\ CountInv /\ SectionInv /\ SemaphoreInv /\ WriterInv

-----------------------------------------------------------------------------
(* The set of readers is finite, and grows and shrinks one by one.          *)
LEMMA ReadersFinite ==
  ASSUME TypeOK, CountInv
  PROVE  /\ IsFiniteSet(Readers) /\ Cardinality(Readers) \in Nat
         /\ Cardinality(Readers) <= Cardinality(Thread)
         /\ Cardinality(Thread) \in Nat
         /\ _SharedAccessCount = 0 <=> Readers = {}
<1>1. Readers \subseteq Thread
  BY DEF Readers
<1>2. IsFiniteSet(Readers) /\ Cardinality(Readers) <= Cardinality(Thread)
  BY <1>1, FS_Subset, ThreadAssumption
<1>3. Cardinality(Readers) \in Nat /\ Cardinality(Thread) \in Nat
  BY <1>2, FS_CardinalityType, ThreadAssumption
<1>4. Cardinality(Readers) = 0 <=> Readers = {}
  BY <1>2, FS_EmptySet
<1>5. QED
  BY <1>2, <1>3, <1>4 DEF CountInv

(* A step of t that is counted neither before nor after it, or both times.  *)
LEMMA SameReaders ==
  ASSUME TypeOK, CountInv, NEW t \in Thread, NEW label \in Outside \cup Inside,
         Goto(t, label), UNCHANGED _SharedAccessCount,
         label \in Counted <=> pc[t] \in Counted
  PROVE  CountInv' /\ Readers' = Readers
<1>1. \A u \in Thread : pc'[u] \in Counted <=> pc[u] \in Counted
  BY DEF TypeOK, Goto
<1>2. Readers' = Readers
  BY <1>1 DEF Readers
<1>3. QED
  BY <1>2 DEF CountInv

(* One more reader.                                                         *)
LEMMA OneMore ==
  ASSUME TypeOK, CountInv, NEW t \in Thread, NEW label \in Counted,
         Goto(t, label), pc[t] \notin Counted,
         _SharedAccessCount' = _SharedAccessCount + 1
  PROVE  CountInv' /\ _SharedAccessCount' \in 0..Cardinality(Thread)
<1>1. Readers' = Readers \cup {t} /\ t \notin Readers
  BY DEF Readers, TypeOK, Goto
<1>2. IsFiniteSet(Readers) /\ Cardinality(Readers) \in Nat /\ Cardinality(Thread) \in Nat
  BY ReadersFinite
<1>3. Cardinality(Readers') = Cardinality(Readers) + 1
  BY <1>1, <1>2, FS_AddElement
<1>4. CountInv'
  BY <1>3 DEF CountInv
<1>5. Readers' \subseteq Thread
  BY DEF Readers
<1>6. Cardinality(Readers') <= Cardinality(Thread)
  BY <1>5, FS_Subset, ThreadAssumption
<1>7. QED
  BY <1>2, <1>3, <1>4, <1>6 DEF CountInv

(* One less.                                                                *)
LEMMA OneLess ==
  ASSUME TypeOK, CountInv, NEW t \in Thread, NEW label \in (Outside \cup Inside) \ Counted,
         Goto(t, label), pc[t] \in Counted,
         _SharedAccessCount' = _SharedAccessCount - 1
  PROVE  CountInv' /\ _SharedAccessCount > 0 /\ _SharedAccessCount' \in 0..Cardinality(Thread)
<1>1. Readers' = Readers \ {t} /\ t \in Readers
  BY DEF Readers, TypeOK, Goto
<1>2. /\ IsFiniteSet(Readers) /\ Cardinality(Readers) \in Nat /\ Cardinality(Thread) \in Nat
      /\ Cardinality(Readers) <= Cardinality(Thread)
      /\ _SharedAccessCount = 0 <=> Readers = {}
  BY ReadersFinite
<1>3. Cardinality(Readers') = Cardinality(Readers) - 1
  BY <1>1, <1>2, FS_RemoveElement
<1>4. CountInv'
  BY <1>3 DEF CountInv
<1>5. _SharedAccessCount > 0
  BY <1>1, <1>2 DEF CountInv
<1>6. QED
  BY <1>2, <1>4, <1>5 DEF CountInv

-----------------------------------------------------------------------------
LEMMA InitInv ==
  ASSUME Init
  PROVE  IInv
<1>1. Readers = {}
  BY DEF Init, Readers, Counted
<1>2. Cardinality(Readers) = 0
  BY <1>1, FS_EmptySet
<1>3. Cardinality(Thread) \in Nat
  BY FS_CardinalityType, ThreadAssumption
<1>4. TypeOK
  BY <1>3 DEF Init, TypeOK, Outside
<1>5. CountInv
  BY <1>2 DEF Init, CountInv
<1>6. SectionInv
  BY ThreadAssumption DEF Init, SectionInv, Inside
<1>7. SemaphoreInv /\ WriterInv
  BY DEF Init, SemaphoreInv, WriterInv, At, Busy
<1>8. QED
  BY <1>4, <1>5, <1>6, <1>7 DEF IInv

(* Only one thread is inside at a time: what one does there, the invariant  *)
(* of the others does not see.                                              *)
LEMMA Alone ==
  ASSUME IInv, NEW t \in Thread, NEW u \in Thread, pc[t] \in Inside, u # t
  PROVE  pc[u] \notin Inside
BY DEF IInv, SectionInv

(* A reader knows that it is counted.                                       *)
LEMMA ReaderCounted ==
  ASSUME IInv, NEW t \in Thread, pc[t] \in Counted
  PROVE  _SharedAccessCount > 0
<1>1. t \in Readers
  BY DEF Readers
<1>2. _SharedAccessCount # 0 /\ _SharedAccessCount \in Nat
  BY <1>1, ReadersFinite DEF IInv, CountInv
<1>3. QED
  BY <1>2

(* A WrLock that has met a reader finds the semaphore taken.                *)
LEMMA WaiterStuck ==
  ASSUME IInv, NEW t \in Thread, At(t, "wait")
  PROVE  _SharedAccessCompleted = 0
<1>1. pc[t] = "wait" /\ pc[t] \in Inside /\ _SharedAccessCount > 0
  BY DEF At, Inside, IInv, WriterInv
<1>2. ~Busy
  BY <1>1, Alone DEF Busy, Inside
<1>3. QED
  BY <1>1, <1>2 DEF IInv, SemaphoreInv, TypeOK

LEMMA CallKeepsInv ==
  ASSUME IInv, NEW t \in Thread, Call(t)
  PROVE  IInv'
<1>1. PICK op \in {"RdLock", "WrLock"} : Goto(t, op)
  BY DEF Call
<1>2. /\ pc[t] = "idle"
      /\ UNCHANGED <<_ExclusiveMutex, _SharedAccessCompleted, _SharedAccessCount>>
  BY DEF Call, At
<1>3. TypeOK /\ CountInv /\ SectionInv /\ SemaphoreInv /\ WriterInv
  BY DEF IInv
<1>4. pc' = [pc EXCEPT ![t] = op] /\ pc' \in [Thread -> Outside \cup Inside]
  BY <1>1, <1>3 DEF Goto, TypeOK, Outside
<1>5. TypeOK'
  BY <1>2, <1>3, <1>4 DEF TypeOK
<1>6. CountInv'
  BY <1>1, <1>2, <1>3, SameReaders DEF Counted, Outside
<1>7. SectionInv'
  BY <1>2, <1>3, <1>4 DEF SectionInv, TypeOK, Inside
<1>8. SemaphoreInv'
  BY <1>2, <1>3, <1>4 DEF SemaphoreInv, TypeOK, At, Busy
<1>9. WriterInv'
  BY <1>2, <1>3, <1>4 DEF WriterInv, TypeOK, At
<1>10. QED
  BY <1>5, <1>6, <1>7, <1>8, <1>9 DEF IInv

LEMMA EnterKeepsInv ==
  ASSUME IInv, NEW t \in Thread, EnterCriticalSection(t)
  PROVE  IInv'
<1> DEFINE label == Entered[pc[t]]
<1>1. /\ Goto(t, label)
      /\ \/ pc[t] = "RdLock" /\ label = "count"
         \/ pc[t] = "WrLock" /\ label = "test"
         \/ pc[t] = "Unlock" /\ label = "uncount"
      /\ label \in Outside \cup Inside
  BY DEF EnterCriticalSection, Entered, Inside
<1>2. /\ _ExclusiveMutex = NoThread /\ _ExclusiveMutex' = t
      /\ UNCHANGED <<_SharedAccessCompleted, _SharedAccessCount>>
  BY DEF EnterCriticalSection
<1>3. TypeOK /\ CountInv /\ SectionInv /\ SemaphoreInv /\ WriterInv
  BY DEF IInv
<1>4. pc' = [pc EXCEPT ![t] = label] /\ pc' \in [Thread -> Outside \cup Inside]
  BY <1>1, <1>3 DEF Goto, TypeOK
<1>5. \A u \in Thread : u # t => pc[u] \notin Inside /\ pc'[u] = pc[u]
  BY <1>2, <1>3, <1>4, ThreadAssumption DEF SectionInv, TypeOK, Inside
<1>6. CountInv' /\ _SharedAccessCount' \in 0..Cardinality(Thread)
  BY <1>1, <1>2, <1>3, SameReaders DEF Counted, Outside, Inside, TypeOK
<1>7. TypeOK'
  BY <1>2, <1>3, <1>4, <1>6 DEF TypeOK
<1>8. SectionInv'
  BY <1>1, <1>2, <1>3, <1>4, <1>5, ThreadAssumption DEF SectionInv, TypeOK, Inside, Outside
<1>9. SemaphoreInv'
  BY <1>1, <1>2, <1>3, <1>4, <1>5, <1>6 DEF SemaphoreInv, TypeOK, At, Busy, Inside
<1>10. WriterInv'
  BY <1>1, <1>2, <1>3, <1>4, <1>5, <1>6 DEF WriterInv, SemaphoreInv, TypeOK, At, Inside
<1>11. QED
  BY <1>6, <1>7, <1>8, <1>9, <1>10 DEF IInv

LEMMA TryKeepsInv ==
  ASSUME IInv, NEW t \in Thread, TryEnterCriticalSection(t)
  PROVE  IInv'
<1>1. PICK label \in {"count", "try"} : Goto(t, label)
  BY DEF TryEnterCriticalSection
<1>2. /\ pc[t] = "idle" /\ _ExclusiveMutex = NoThread /\ _ExclusiveMutex' = t
      /\ UNCHANGED <<_SharedAccessCompleted, _SharedAccessCount>>
  BY DEF TryEnterCriticalSection, At
<1>3. TypeOK /\ CountInv /\ SectionInv /\ SemaphoreInv /\ WriterInv
  BY DEF IInv
<1>4. pc' = [pc EXCEPT ![t] = label] /\ pc' \in [Thread -> Outside \cup Inside]
  BY <1>1, <1>3 DEF Goto, TypeOK, Inside, Outside
<1>5. \A u \in Thread : u # t => pc[u] \notin Inside /\ pc'[u] = pc[u]
  BY <1>2, <1>3, <1>4, ThreadAssumption DEF SectionInv, TypeOK, Inside
<1>6. CountInv' /\ _SharedAccessCount' \in 0..Cardinality(Thread)
  BY <1>1, <1>2, <1>3, SameReaders DEF Counted, Outside, Inside, TypeOK
<1>7. TypeOK'
  BY <1>2, <1>3, <1>4, <1>6 DEF TypeOK
<1>8. SectionInv'
  BY <1>1, <1>2, <1>3, <1>4, <1>5, ThreadAssumption DEF SectionInv, TypeOK, Inside, Outside
<1>9. SemaphoreInv'
  BY <1>1, <1>2, <1>3, <1>4, <1>5, <1>6 DEF SemaphoreInv, TypeOK, At, Busy, Inside
<1>10. WriterInv'
  BY <1>1, <1>2, <1>3, <1>4, <1>5, <1>6 DEF WriterInv, SemaphoreInv, TypeOK, At, Inside
<1>11. QED
  BY <1>6, <1>7, <1>8, <1>9, <1>10 DEF IInv

LEMMA CountKeepsInv ==
  ASSUME IInv, NEW t \in Thread, Count(t)
  PROVE  IInv'
<1> DEFINE label == IF _SharedAccessCount' = 1 THEN "take" ELSE "shared"
<1>1. Goto(t, label) /\ label \in Counted /\ label \in Inside
  BY DEF Count, Counted, Inside
<1>2. /\ pc[t] = "count" /\ pc[t] \in Inside /\ pc[t] \notin Counted
      /\ _SharedAccessCount' = _SharedAccessCount + 1
      /\ UNCHANGED <<_ExclusiveMutex, _SharedAccessCompleted>>
  BY DEF Count, At, Inside, Counted
<1>3. TypeOK /\ CountInv /\ SectionInv /\ SemaphoreInv /\ WriterInv
  BY DEF IInv
<1>4. pc' = [pc EXCEPT ![t] = label] /\ pc' \in [Thread -> Outside \cup Inside]
  BY <1>1, <1>3 DEF Goto, TypeOK
<1>5. \A u \in Thread : u # t => pc[u] \notin Inside /\ pc'[u] = pc[u]
  BY <1>2, <1>3, <1>4, ThreadAssumption DEF SectionInv, TypeOK, Inside
<1>6. CountInv' /\ _SharedAccessCount' \in 0..Cardinality(Thread)
  BY <1>1, <1>2, <1>3, OneMore
<1>7. TypeOK'
  BY <1>2, <1>3, <1>4, <1>6 DEF TypeOK
<1>8. SectionInv'
  BY <1>1, <1>2, <1>3, <1>4, <1>5, ThreadAssumption DEF SectionInv, TypeOK, Inside, Outside
<1>9. SemaphoreInv'
  BY <1>1, <1>2, <1>3, <1>4, <1>5, <1>6 DEF SemaphoreInv, TypeOK, At, Busy, Inside
<1>10. WriterInv'
  BY <1>1, <1>2, <1>3, <1>4, <1>5, <1>6 DEF WriterInv, SemaphoreInv, TypeOK, At, Inside
<1>11. QED
  BY <1>6, <1>7, <1>8, <1>9, <1>10 DEF IInv

LEMMA WaitKeepsInv ==
  ASSUME IInv, NEW t \in Thread, WaitForSemaphore(t)
  PROVE  IInv'
<1> DEFINE label == IF At(t, "take") THEN "shared" ELSE "restore"
<1>1. Goto(t, label) /\ label \in Inside
  BY DEF WaitForSemaphore, Inside
<1>2. /\ pc[t] = "take" /\ pc[t] \in Inside
      /\ _SharedAccessCompleted = 1 /\ _SharedAccessCompleted' = 0
      /\ UNCHANGED <<_ExclusiveMutex, _SharedAccessCount>>
  BY WaiterStuck DEF WaitForSemaphore, At, Inside
<1>3. TypeOK /\ CountInv /\ SectionInv /\ SemaphoreInv /\ WriterInv
  BY DEF IInv
<1>4. pc' = [pc EXCEPT ![t] = label] /\ pc' \in [Thread -> Outside \cup Inside]
  BY <1>1, <1>3 DEF Goto, TypeOK
<1>5. \A u \in Thread : u # t => pc[u] \notin Inside /\ pc'[u] = pc[u]
  BY <1>2, <1>3, <1>4, ThreadAssumption DEF SectionInv, TypeOK, Inside
<1>6. CountInv' /\ _SharedAccessCount' \in 0..Cardinality(Thread)
  BY <1>1, <1>2, <1>3, SameReaders DEF Counted, Outside, Inside, TypeOK, At
<1>7. TypeOK'
  BY <1>2, <1>3, <1>4, <1>6 DEF TypeOK
<1>8. SectionInv'
  BY <1>1, <1>2, <1>3, <1>4, <1>5, ThreadAssumption DEF SectionInv, TypeOK, Inside, Outside
<1>9. SemaphoreInv'
  BY <1>1, <1>2, <1>3, <1>4, <1>5, <1>6 DEF SemaphoreInv, TypeOK, At, Busy, Inside
<1>10. WriterInv'
  BY <1>1, <1>2, <1>3, <1>4, <1>5, <1>6 DEF WriterInv, SemaphoreInv, TypeOK, At, Inside
<1>11. QED
  BY <1>6, <1>7, <1>8, <1>9, <1>10 DEF IInv

LEMMA ReleaseKeepsInv ==
  ASSUME IInv, NEW t \in Thread, ReleaseSemaphore(t)
  PROVE  IInv'
<1> DEFINE label == IF At(t, "restore") THEN "writing" ELSE "done"
<1>1. Goto(t, label) /\ label \in Inside
  BY DEF ReleaseSemaphore, Inside
<1>2. /\ pc[t] = "signal" /\ pc[t] \in Inside
      /\ _SharedAccessCompleted' = 1
      /\ UNCHANGED <<_ExclusiveMutex, _SharedAccessCount>>
  BY DEF ReleaseSemaphore, At, Inside, IInv, WriterInv
<1>3. TypeOK /\ CountInv /\ SectionInv /\ SemaphoreInv /\ WriterInv
  BY DEF IInv
<1>4. pc' = [pc EXCEPT ![t] = label] /\ pc' \in [Thread -> Outside \cup Inside]
  BY <1>1, <1>3 DEF Goto, TypeOK
<1>5. \A u \in Thread : u # t => pc[u] \notin Inside /\ pc'[u] = pc[u]
  BY <1>2, <1>3, <1>4, ThreadAssumption DEF SectionInv, TypeOK, Inside
<1>6. CountInv' /\ _SharedAccessCount' \in 0..Cardinality(Thread)
  BY <1>1, <1>2, <1>3, SameReaders DEF Counted, Outside, Inside, TypeOK, At
<1>7. TypeOK'
  BY <1>2, <1>3, <1>4, <1>6 DEF TypeOK
<1>8. SectionInv'
  BY <1>1, <1>2, <1>3, <1>4, <1>5, ThreadAssumption DEF SectionInv, TypeOK, Inside, Outside
<1>9. SemaphoreInv'
  BY <1>1, <1>2, <1>3, <1>4, <1>5, <1>6 DEF SemaphoreInv, TypeOK, At, Busy, Inside
<1>10. WriterInv'
  BY <1>1, <1>2, <1>3, <1>4, <1>5, <1>6 DEF WriterInv, SemaphoreInv, TypeOK, At, Inside
<1>11. QED
  BY <1>6, <1>7, <1>8, <1>9, <1>10 DEF IInv

LEMMA LeaveKeepsInv ==
  ASSUME IInv, NEW t \in Thread, LeaveCriticalSection(t)
  PROVE  IInv'
<1> DEFINE label == IF At(t, "shared") THEN "reading" ELSE "idle"
<1>1. Goto(t, label) /\ label \in Outside
  BY DEF LeaveCriticalSection, Outside
<1>2. /\ pc[t] \in {"shared", "done"} /\ pc[t] \in Inside
      /\ _ExclusiveMutex' = NoThread
      /\ UNCHANGED <<_SharedAccessCompleted, _SharedAccessCount>>
  BY DEF LeaveCriticalSection, Inside
<1>3. TypeOK /\ CountInv /\ SectionInv /\ SemaphoreInv /\ WriterInv
  BY DEF IInv
<1>4. pc' = [pc EXCEPT ![t] = label] /\ pc' \in [Thread -> Outside \cup Inside]
  BY <1>1, <1>3 DEF Goto, TypeOK
<1>5. \A u \in Thread : u # t => pc[u] \notin Inside /\ pc'[u] = pc[u]
  BY <1>2, <1>3, <1>4, ThreadAssumption DEF SectionInv, TypeOK, Inside
<1>6. CountInv' /\ _SharedAccessCount' \in 0..Cardinality(Thread)
  BY <1>1, <1>2, <1>3, SameReaders DEF Counted, Outside, Inside, TypeOK, At
<1>7. TypeOK'
  BY <1>2, <1>3, <1>4, <1>6 DEF TypeOK
<1>8. SectionInv'
  BY <1>1, <1>2, <1>3, <1>4, <1>5, ThreadAssumption DEF SectionInv, TypeOK, Inside, Outside
<1>9. SemaphoreInv'
  BY <1>1, <1>2, <1>3, <1>4, <1>5, <1>6 DEF SemaphoreInv, TypeOK, At, Busy, Inside
<1>10. WriterInv'
  BY <1>1, <1>2, <1>3, <1>4, <1>5, <1>6 DEF WriterInv, SemaphoreInv, TypeOK, At, Inside
<1>11. QED
  BY <1>6, <1>7, <1>8, <1>9, <1>10 DEF IInv

LEMMA TestCountKeepsInv ==
  ASSUME IInv, NEW t \in Thread, TestCount(t)
  PROVE  IInv'
<1>1. PICK label \in {"writing", "wait", "idle"} :
        /\ Goto(t, label)
        /\ label = "writing" => _SharedAccessCount = 0
        /\ label = "wait" => _SharedAccessCount > 0
        /\ IF label = "idle" THEN _ExclusiveMutex' = NoThread
                             ELSE UNCHANGED _ExclusiveMutex
  BY DEF TestCount
<1>2. /\ pc[t] \in {"test", "try"} /\ pc[t] \in Inside
      /\ UNCHANGED <<_SharedAccessCompleted, _SharedAccessCount>>
  BY DEF TestCount, Inside
<1>3. TypeOK /\ CountInv /\ SectionInv /\ SemaphoreInv /\ WriterInv
  BY DEF IInv
<1>4. pc' = [pc EXCEPT ![t] = label] /\ pc' \in [Thread -> Outside \cup Inside]
  BY <1>1, <1>3 DEF Goto, TypeOK, Inside, Outside
<1>5. \A u \in Thread : u # t => pc[u] \notin Inside /\ pc'[u] = pc[u]
  BY <1>2, <1>3, <1>4, ThreadAssumption DEF SectionInv, TypeOK, Inside
<1>6. CountInv' /\ _SharedAccessCount' \in 0..Cardinality(Thread)
  BY <1>1, <1>2, <1>3, SameReaders DEF Counted, Outside, Inside, TypeOK
<1>7. TypeOK'
  BY <1>1, <1>2, <1>3, <1>4, <1>6 DEF TypeOK
<1>8. SectionInv'
  BY <1>1, <1>2, <1>3, <1>4, <1>5, ThreadAssumption DEF SectionInv, TypeOK, Inside, Outside
<1>9. SemaphoreInv'
  BY <1>1, <1>2, <1>3, <1>4, <1>5, <1>6 DEF SemaphoreInv, TypeOK, At, Busy, Inside
<1>10. WriterInv'
  BY <1>1, <1>2, <1>3, <1>4, <1>5, <1>6 DEF WriterInv, SemaphoreInv, TypeOK, At, Inside
<1>11. QED
  BY <1>6, <1>7, <1>8, <1>9, <1>10 DEF IInv

LEMMA UncountKeepsInv ==
  ASSUME IInv, NEW t \in Thread, Uncount(t)
  PROVE  IInv'
<1> DEFINE label == IF _SharedAccessCount' = 0 THEN "signal" ELSE "done"
<1>1. Goto(t, label) /\ label \in Inside \ Counted
  BY DEF Uncount, Inside, Counted
<1>2. /\ pc[t] = "uncount" /\ pc[t] \in Inside /\ pc[t] \in Counted
      /\ _SharedAccessCount' = _SharedAccessCount - 1
      /\ UNCHANGED <<_ExclusiveMutex, _SharedAccessCompleted>>
  BY DEF Uncount, At, Inside, Counted
<1>3. TypeOK /\ CountInv /\ SectionInv /\ SemaphoreInv /\ WriterInv
  BY DEF IInv
<1>4. pc' = [pc EXCEPT ![t] = label] /\ pc' \in [Thread -> Outside \cup Inside]
  BY <1>1, <1>3 DEF Goto, TypeOK
<1>5. \A u \in Thread : u # t => pc[u] \notin Inside /\ pc'[u] = pc[u]
  BY <1>2, <1>3, <1>4, ThreadAssumption DEF SectionInv, TypeOK, Inside
<1>6. CountInv' /\ _SharedAccessCount' \in 0..Cardinality(Thread)
  BY <1>1, <1>2, <1>3, OneLess
<1>7. TypeOK'
  BY <1>2, <1>3, <1>4, <1>6 DEF TypeOK
<1>8. SectionInv'
  BY <1>1, <1>2, <1>3, <1>4, <1>5, ThreadAssumption DEF SectionInv, TypeOK, Inside, Outside
<1>9. SemaphoreInv'
  BY <1>1, <1>2, <1>3, <1>4, <1>5, <1>6 DEF SemaphoreInv, TypeOK, At, Busy, Inside
<1>10. WriterInv'
  BY <1>1, <1>2, <1>3, <1>4, <1>5, <1>6 DEF WriterInv, SemaphoreInv, TypeOK, At, Inside
<1>11. QED
  BY <1>6, <1>7, <1>8, <1>9, <1>10 DEF IInv

(* Unlock of a reader, and of a writer.                                     *)
LEMMA UnlockKeepsInv ==
  ASSUME IInv, NEW t \in Thread, Unlock(t)
  PROVE  IInv'
<1>1. /\ UNCHANGED <<_SharedAccessCompleted, _SharedAccessCount>>
      /\ TypeOK /\ CountInv /\ SectionInv /\ SemaphoreInv /\ WriterInv
  BY DEF Unlock, IInv
<1>2. CASE pc[t] = "reading"
  <2>1. _SharedAccessCount > 0
    BY <1>2, ReaderCounted DEF Counted
  <2>2. Goto(t, "Unlock") /\ UNCHANGED _ExclusiveMutex
    BY <2>1 DEF Unlock
  <2>3. pc' = [pc EXCEPT ![t] = "Unlock"] /\ pc' \in [Thread -> Outside \cup Inside]
    BY <1>1, <2>2 DEF Goto, TypeOK, Outside
  <2>4. CountInv'
    BY <1>1, <1>2, <2>2, SameReaders DEF Counted, Outside
  <2>5. TypeOK'
    BY <1>1, <2>2, <2>3 DEF TypeOK
  <2>6. SectionInv'
    BY <1>1, <1>2, <2>2, <2>3 DEF SectionInv, TypeOK, Inside
  <2>7. SemaphoreInv'
    BY <1>1, <1>2, <2>3 DEF SemaphoreInv, TypeOK, At, Busy
  <2>8. WriterInv'
    BY <1>1, <1>2, <2>3 DEF WriterInv, TypeOK, At
  <2>9. QED
    BY <2>4, <2>5, <2>6, <2>7, <2>8 DEF IInv
<1>3. CASE pc[t] = "writing"
  <2>1. ~(_SharedAccessCount > 0)
    BY <1>1, <1>3 DEF WriterInv, At
  <2>2. Goto(t, "idle") /\ _ExclusiveMutex' = NoThread
    BY <2>1 DEF Unlock
  <2>3. pc' = [pc EXCEPT ![t] = "idle"] /\ pc' \in [Thread -> Outside \cup Inside]
    BY <1>1, <2>2 DEF Goto, TypeOK, Outside
  <2>4. \A u \in Thread : u # t => pc[u] \notin Inside
    BY <1>3, Alone DEF Inside
  <2>5. CountInv'
    BY <1>1, <1>3, <2>2, SameReaders DEF Counted, Outside
  <2>6. TypeOK'
    BY <1>1, <2>2, <2>3 DEF TypeOK
  <2>7. SectionInv'
    BY <1>1, <2>2, <2>3, <2>4, ThreadAssumption DEF SectionInv, TypeOK, Inside
  <2>8. SemaphoreInv'
    BY <1>1, <1>3, <2>3 DEF SemaphoreInv, TypeOK, At, Busy
  <2>9. WriterInv'
    BY <1>1, <1>3, <2>3 DEF WriterInv, TypeOK, At
  <2>10. QED
    BY <2>5, <2>6, <2>7, <2>8, <2>9 DEF IInv
<1>4. QED
  BY <1>2, <1>3 DEF Unlock

LEMMA NextKeepsInv ==
  ASSUME IInv, [Next]_vars
  PROVE  IInv'
<1>1. ASSUME NEW t \in Thread, Step(t)
      PROVE  IInv'
  BY <1>1, EnterKeepsInv, CountKeepsInv, WaitKeepsInv, ReleaseKeepsInv, LeaveKeepsInv,
     TestCountKeepsInv, UncountKeepsInv DEF Step
<1>2. CASE UNCHANGED vars
  BY <1>2 DEF IInv, TypeOK, CountInv, Readers, SectionInv, SemaphoreInv, Busy, WriterInv,
              At, vars
<1>3. QED
  BY <1>1, <1>2, CallKeepsInv, TryKeepsInv, UnlockKeepsInv DEF Next

-----------------------------------------------------------------------------
(* IInv holds in every state: the count is that of the readers, and one     *)
(* thread at most is inside the critical section.                           *)
THEOREM Invariance == Spec => []IInv
<1>1. Init => IInv
  BY InitInv
<1>2. IInv /\ [Next]_vars => IInv'
  BY NextKeepsInv
<1>3. QED
  BY <1>1, <1>2, PTL DEF Spec

(* The variables keep their types; no count exceeds the number of threads.  *)
THEOREM TypeCorrect == Spec => []TypeOK
<1>1. IInv => TypeOK
  BY DEF IInv
<1>2. QED
  BY <1>1, Invariance, PTL

(* The count that Unlock reads outside the critical section is positive for *)
(* a reader and zero for a writer.                                          *)
THEOREM UnlockKnowsItsLock == Spec => []UnlockKnows
<1>1. IInv => UnlockKnows
  BY ReaderCounted DEF IInv, WriterInv, UnlockKnows, At, Counted
<1>2. QED
  BY <1>1, Invariance, PTL

(* The semaphore follows the first and the last reader.                     *)
THEOREM SemaphoreFollows == Spec => []SemaphoreInStep
<1>1. IInv => SemaphoreInStep
  BY DEF IInv, SemaphoreInv, SemaphoreInStep
<1>2. QED
  BY <1>1, Invariance, PTL

(* A WrLock that has met a reader waits for a semaphore that nobody can     *)
(* give back: it has the critical section that Unlock needs.                *)
WaitIsForEver == [][\A t \in Thread : At(t, "wait") => At(t, "wait")']_vars
THEOREM WriterWaitsForEver == Spec => WaitIsForEver
<1>1. ASSUME IInv, Next, NEW t \in Thread, At(t, "wait")
      PROVE  At(t, "wait")'
  <2>1. _SharedAccessCompleted = 0 /\ pc \in [Thread -> Outside \cup Inside]
    BY <1>1, WaiterStuck DEF IInv, TypeOK
  <2>2. PICK u \in Thread : Call(u) \/ TryEnterCriticalSection(u) \/ Step(u) \/ Unlock(u)
    BY <1>1 DEF Next
  <2>3. u # t
    BY <1>1, <2>1, <2>2 DEF At, Call, TryEnterCriticalSection, Step, Unlock,
       EnterCriticalSection, Entered, Count, WaitForSemaphore, ReleaseSemaphore,
       LeaveCriticalSection, TestCount, Uncount
  <2>4. \E label : Goto(u, label)
    BY <2>2 DEF Call, TryEnterCriticalSection, Step, Unlock, EnterCriticalSection, Count,
       WaitForSemaphore, ReleaseSemaphore, LeaveCriticalSection, TestCount, Uncount
  <2>5. QED
    BY <1>1, <2>1, <2>3, <2>4 DEF Goto, At
<1>2. IInv /\ [Next]_vars => [\A t \in Thread : At(t, "wait") => At(t, "wait")']_vars
  BY <1>1
<1>3. QED
  BY <1>2, Invariance, PTL DEF Spec, WaitIsForEver

-----------------------------------------------------------------------------
(* The refinement: a step of t changes what t holds, and nothing else.      *)
LEMMA HolderChange ==
  ASSUME IInv, NEW t \in Thread, NEW label, Goto(t, label)
  PROVE  Holder' = [Holder EXCEPT ![t] = Holding(label)]
<1>1. pc' = [pc EXCEPT ![t] = label] /\ pc \in [Thread -> Outside \cup Inside]
  BY DEF IInv, TypeOK, Goto
<1>2. \A u \in Thread : pc'[u] = IF u = t THEN label ELSE pc[u]
  BY <1>1
<1>3. QED
  BY <1>2 DEF Holder

LEMMA SameHolder ==
  ASSUME IInv, NEW t \in Thread, NEW label, Goto(t, label),
         Holding(label) = Holding(pc[t])
  PROVE  UNCHANGED Holder
<1>1. Holder' = [Holder EXCEPT ![t] = Holder[t]]
  BY HolderChange DEF Holder
<1>2. QED
  BY <1>1 DEF Holder

LEMMA LeaveLocks ==
  ASSUME IInv, NEW t \in Thread, LeaveCriticalSection(t)
  PROVE  Lock!ReadLocked(t) \/ UNCHANGED Holder
<1>1. CASE At(t, "shared")
  <2>1. Goto(t, "reading") /\ pc[t] = "shared" /\ pc[t] \in Inside
    BY <1>1 DEF LeaveCriticalSection, At, Inside
  <2>2. \A u \in Thread : Holder[u] # "write"
    BY <2>1, Alone DEF Holder, Holding, Inside
  <2>3. Holder' = [Holder EXCEPT ![t] = "read"] /\ Holder[t] = "none"
    BY <2>1, HolderChange DEF Holder, Holding
  <2>4. QED
    BY <2>2, <2>3 DEF Lock!ReadLocked
<1>2. CASE ~At(t, "shared")
  <2>1. Goto(t, "idle") /\ pc[t] = "done"
    BY <1>2 DEF LeaveCriticalSection, At
  <2>2. QED
    BY <2>1, SameHolder DEF Holding
<1>3. QED
  BY <1>1, <1>2

LEMMA TestLocks ==
  ASSUME IInv, NEW t \in Thread, TestCount(t)
  PROVE  Lock!WriteLocked(t) \/ UNCHANGED Holder
<1>1. pc[t] \in {"test", "try"} /\ pc[t] \in Inside
  BY DEF TestCount, Inside
<1>2. CASE _SharedAccessCount = 0
  <2>1. Goto(t, "writing")
    BY <1>2 DEF TestCount
  <2>2. \A u \in Thread : pc[u] # "reading"
    BY <1>2, ReaderCounted DEF Counted
  <2>3. \A u \in Thread : Holder[u] = "none"
    BY <1>1, <2>2, Alone DEF Holder, Holding, Inside
  <2>4. QED
    BY <2>1, <2>3, HolderChange DEF Holding, Lock!WriteLocked
<1>3. CASE _SharedAccessCount # 0
  <2>1. Goto(t, "wait") \/ Goto(t, "idle")
    BY <1>3 DEF TestCount
  <2>2. QED
    BY <1>1, <2>1, SameHolder DEF Holding
<1>4. QED
  BY <1>2, <1>3

LEMMA UnlockUnlocks ==
  ASSUME IInv, NEW t \in Thread, Unlock(t)
  PROVE  Lock!Unlocked(t)
<1>1. pc[t] \in {"reading", "writing"} /\ (Goto(t, "Unlock") \/ Goto(t, "idle"))
  BY DEF Unlock
<1>2. Holder' = [Holder EXCEPT ![t] = "none"]
  BY <1>1, HolderChange DEF Holding
<1>3. Holder[t] # "none"
  BY <1>1 DEF Holder, Holding
<1>4. QED
  BY <1>2, <1>3 DEF Lock!Unlocked

(* The steps that change what nobody holds.                                 *)
LEMMA OtherSteps ==
  ASSUME IInv, NEW t \in Thread,
         \/ Call(t) \/ TryEnterCriticalSection(t) \/ EnterCriticalSection(t) \/ Count(t)
         \/ WaitForSemaphore(t) \/ ReleaseSemaphore(t) \/ Uncount(t)
  PROVE  UNCHANGED Holder
<1>1. pc[t] \notin {"reading", "writing"}
  BY DEF Call, TryEnterCriticalSection, EnterCriticalSection, Entered, Count,
     WaitForSemaphore, ReleaseSemaphore, Uncount, At
<1>2. \E label \in (Outside \cup Inside) \ {"reading", "writing"} : Goto(t, label)
  <2>1. CASE Call(t)
    BY <2>1 DEF Call, Outside
  <2>2. CASE TryEnterCriticalSection(t)
    BY <2>2 DEF TryEnterCriticalSection, Inside
  <2>3. CASE EnterCriticalSection(t)
    BY <2>3 DEF EnterCriticalSection, Entered, Inside
  <2>4. CASE Count(t)
    BY <2>4 DEF Count, Inside
  <2>5. CASE WaitForSemaphore(t)
    BY <2>5 DEF WaitForSemaphore, Inside
  <2>6. CASE ReleaseSemaphore(t)
    BY <2>6 DEF ReleaseSemaphore, Inside, IInv, WriterInv
  <2>7. CASE Uncount(t)
    BY <2>7 DEF Uncount, Inside
  <2>8. QED
    BY <2>1, <2>2, <2>3, <2>4, <2>5, <2>6, <2>7
<1>3. QED
  BY <1>1, <1>2, SameHolder DEF Holding

(* The Windows lock is a read/write lock: a thread that has returned from   *)
(* WrLock or TryWrLock excludes every other one until it calls Unlock.      *)
THEOREM Implementation == Spec => ImplementsLock
<1>1. Init => Lock!Init
  BY DEF Init, Lock!Init, Holder, Holding
<1>2. IInv /\ [Next]_vars => [Lock!Next]_Holder
  <2>1. SUFFICES ASSUME IInv, [Next]_vars
                 PROVE  Lock!Next \/ UNCHANGED Holder
    BY DEF Lock!Next
  <2>2. CASE UNCHANGED vars
    BY <2>2 DEF vars, Holder
  <2>3. ASSUME NEW t \in Thread, Step(t)
        PROVE  Lock!Next \/ UNCHANGED Holder
    BY <2>1, <2>3, LeaveLocks, TestLocks, OtherSteps DEF Step, Lock!Next
  <2>4. ASSUME NEW t \in Thread, Call(t) \/ TryEnterCriticalSection(t) \/ Unlock(t)
        PROVE  Lock!Next \/ UNCHANGED Holder
    BY <2>1, <2>4, UnlockUnlocks, OtherSteps DEF Lock!Next
  <2>5. QED
    BY <2>1, <2>2, <2>3, <2>4 DEF Next
<1>3. QED
  BY <1>1, <1>2, Invariance, PTL DEF Spec, ImplementsLock, Lock!Spec
=============================================================================
