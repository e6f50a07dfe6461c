------------------------- MODULE CategoryManager_proofs -------------------------
(* Theorems about the category manager: its types, what an enumerator sees, *)
(* and that its calls are atomic when nobody deletes a category another     *)
(* thread adds to.                                                          *)
EXTENDS CategoryManager, TLAPS

(* The calls that have the lock of their node to themselves.                *)
Inside == {"inside", "insert", "set", "clear"}

USE DEF InNode, Inside

(* Who has the manager's lock: every call from its look-up on, but          *)
(* AddCategoryEntry, which has given it back when it goes to the node.      *)
Holding(t) ==
  \/ call[t].pc \in {"find", "create"}
  \/ call[t].pc \in InNode \cup {"leave"} /\ ~Calling(t, "AddCategoryEntry")

ManagerLockInv ==
  /\ mLock.writer # NoThread => mLock.readers = {}
  /\ \A t \in Thread : Holding(t) /\ Writes(t) => mLock.writer = t
  /\ \A t \in Thread : Holding(t) /\ ~Writes(t) => <<t, "call">> \in mLock.readers
  /\ \A t \in Thread : enumerator[t] = Manager => <<t, "enumerator">> \in mLock.readers

(* A node that is used or enumerated is live, and its lock says by whom.    *)
NodeLocksInv ==
  /\ \A n \in Node : node[n].mLock.writer # NoThread => node[n].mLock.readers = {}
  /\ \A t \in Thread : call[t].pc \in Inside =>
       node[call[t].n].live /\ node[call[t].n].mLock.writer = t
  /\ \A t \in Thread : enumerator[t] \in Node =>
       /\ node[enumerator[t]].live
       /\ <<t, "enumerator">> \in node[enumerator[t]].mLock.readers

(* Each category has a live node of its own.                                *)
CategoriesInv ==
  /\ \A c \in Category : mCategories[c] # NoNode => node[mCategories[c]].live
  /\ \A c, d \in Category : mCategories[c] # NoNode /\ mCategories[c] = mCategories[d] => c = d

(* What a call has found is still so.                                       *)
Fits(op, pc) ==
  /\ pc \in {"create", "insert", "set"} => op = "AddCategoryEntry"
  /\ pc = "copy" => op = "GetCategoryEntry"
  /\ pc = "begun" => op = "EnumerateCategory"
  /\ pc = "clear" => op = "DeleteCategory"
  /\ pc = "inside" => op \in {"AddCategoryEntry", "DeleteCategoryEntry", "DeleteCategory"}
  /\ pc = "node" => op \in {"AddCategoryEntry", "DeleteCategoryEntry", "DeleteCategory",
                            "EnumerateCategory"}

FoundInv ==
  \A t \in Thread :
    /\ Fits(call[t].req.op, call[t].pc)
    /\ call[t].pc = "create" => mCategories[call[t].req.cat] = NoNode
    /\ call[t].pc \in InNode /\ call[t].req.op # "AddCategoryEntry" =>
         mCategories[call[t].req.cat] = call[t].n
    /\ call[t].pc = "insert" => node[call[t].n].mEntries[call[t].req.name] = NoLeaf
    /\ call[t].pc \in {"copy", "set"} => node[call[t].n].mEntries[call[t].req.name] # NoLeaf
    /\ call[t].pc = "set" => call[t].req.replace

CInv == TypeOK /\ ManagerLockInv /\ NodeLocksInv /\ CategoriesInv /\ FoundInv

-----------------------------------------------------------------------------
LEMMA RequestFacts ==
  ASSUME NEW req \in Table!Request
  PROVE  /\ req.op \in Op /\ req # Idle
         /\ req.op # "EnumerateCategories" => req.cat \in Category
         /\ req.op \in {"AddCategoryEntry", "DeleteCategoryEntry", "GetCategoryEntry"} =>
              req.name \in Name
         /\ req.op \in {"AddCategoryEntry", "DeleteCategoryEntry"} => req.persist \in BOOLEAN
         /\ req.op = "AddCategoryEntry" => req.value \in Value /\ req.replace \in BOOLEAN
         /\ \A x : req # [answer |-> x]
<1>1. req.op \in Op
  BY DEF Table!Request, Op
<1>2. req # Idle
  BY ConstantsAssumption
<1>3. req.op # "EnumerateCategories" => req.cat \in Category
  BY DEF Table!Request
<1>4. /\ req.op \in {"AddCategoryEntry", "DeleteCategoryEntry", "GetCategoryEntry"} =>
           req.name \in Name
      /\ req.op \in {"AddCategoryEntry", "DeleteCategoryEntry"} => req.persist \in BOOLEAN
      /\ req.op = "AddCategoryEntry" => req.value \in Value /\ req.replace \in BOOLEAN
  BY DEF Table!Request
<1>5. "op" \in DOMAIN req
  BY DEF Table!Request
<1>6. \A x : "op" \notin DOMAIN [answer |-> x]
  OBVIOUS
<1>7. QED
  BY <1>1, <1>2, <1>3, <1>4, <1>5, <1>6

LEMMA LeafFacts ==
  /\ \A value \in Value, persist \in BOOLEAN : Table!NewLeaf(value, persist) \in Table!Leaf
  /\ \A leaf \in Table!Leaf, value \in Value, persist \in BOOLEAN :
       Table!SetValue(leaf, value, persist) \in Table!Leaf
  /\ \A leaf \in Table!Leaf : [leaf EXCEPT !.mValue = Empty] \in Table!Leaf
  /\ \A leaf \in Table!Leaf : leaf.mValue \in Value \cup {Empty}
  /\ NoLeaf \in Table!MaybeLeaf /\ Table!Leaf \subseteq Table!MaybeLeaf
  /\ \A leaf \in Table!MaybeLeaf : leaf # NoLeaf => leaf \in Table!Leaf
  BY DEF Table!NewLeaf, Table!SetValue, Table!Leaf, Table!MaybeLeaf

-----------------------------------------------------------------------------
(* What a step does to the call of t.                                       *)
Moved(t, pc, n, x) ==
  /\ call'[t].req = call[t].req /\ call'[t].pc = pc
  /\ call'[t].n = n /\ call'[t].answer = x
  /\ \A u \in Thread \ {t} : call'[u] = call[u]
  /\ call' \in [Thread -> Frame]

LEMMA FrameFacts ==
  ASSUME TypeOK, NEW t \in Thread
  PROVE  /\ call[t] \in Frame
         /\ call[t].req = Idle <=> call[t].pc = "idle"
         /\ call[t].req # Idle => call[t].req \in Table!Request
         /\ call[t].pc \in CallPc
         /\ call[t].n \in Node \cup {NoNode}
         /\ call[t].pc \in InNode => call[t].n \in Node
         /\ call[t].answer \in Value \cup {Empty, NoLeaf, Torn}
<1>1. call[t] \in Frame
  BY DEF TypeOK
<1>2. QED
  BY <1>1 DEF Frame

LEMMA MoveFacts ==
  ASSUME TypeOK, NEW t \in Thread, call[t].req # Idle, NEW pc \in CallPc \ {"idle"}
  PROVE  /\ Goto(t, pc) /\ (pc \in InNode => call[t].n \in Node)
              => Moved(t, pc, call[t].n, call[t].answer)
         /\ \A n \in Node : GotoNode(t, pc, n) => Moved(t, pc, n, call[t].answer)
         /\ \A x \in Value \cup {Empty, NoLeaf, Torn} : Answered(t, x) => Moved(t, "leave", call[t].n, x)
<1>1. /\ call \in [Thread -> Frame] /\ call[t] \in Frame /\ DOMAIN call = Thread
      /\ call[t].req \in Table!Request /\ call[t].n \in Node \cup {NoNode}
      /\ call[t].answer \in Value \cup {Empty, NoLeaf, Torn}
  BY FrameFacts DEF TypeOK
<1>2. ASSUME NEW p \in CallPc \ {"idle"}, NEW n \in Node \cup {NoNode},
             NEW x \in Value \cup {Empty, NoLeaf, Torn},
             p \in InNode => n \in Node,
             NEW fr \in Frame, fr.req = call[t].req, fr.pc = p, fr.n = n, fr.answer = x,
             call' = [call EXCEPT ![t] = fr]
      PROVE  Moved(t, p, n, x)
  <2>2. call' \in [Thread -> Frame] /\ call'[t] = fr
        /\ \A u \in Thread \ {t} : call'[u] = call[u]
    BY <1>1, <1>2
  <2>3. QED
    BY <1>2, <2>2 DEF Moved
<1>3. ASSUME Goto(t, pc), pc \in InNode => call[t].n \in Node
      PROVE  Moved(t, pc, call[t].n, call[t].answer)
  <2> DEFINE fr == [call[t] EXCEPT !.pc = pc]
  <2>1. /\ fr \in Frame /\ fr.req = call[t].req /\ fr.pc = pc
        /\ fr.n = call[t].n /\ fr.answer = call[t].answer
    BY <1>1, <1>3 DEF Frame
  <2>2. call' = [call EXCEPT ![t] = fr]
    BY <1>1, <1>3 DEF Goto
  <2>3. QED
    BY <1>1, <1>2, <1>3, <2>1, <2>2
<1>4. ASSUME NEW n \in Node, GotoNode(t, pc, n)
      PROVE  Moved(t, pc, n, call[t].answer)
  <2> DEFINE fr == [call[t] EXCEPT !.pc = pc, !.n = n]
  <2>1. /\ fr \in Frame /\ fr.req = call[t].req /\ fr.pc = pc
        /\ fr.n = n /\ fr.answer = call[t].answer
    BY <1>1 DEF Frame
  <2>2. call' = [call EXCEPT ![t] = fr]
    BY <1>1, <1>4 DEF GotoNode
  <2>3. QED
    BY <1>1, <1>2, <1>4, <2>1, <2>2
<1>5. ASSUME NEW x \in Value \cup {Empty, NoLeaf, Torn}, Answered(t, x)
      PROVE  Moved(t, "leave", call[t].n, x)
  <2> DEFINE fr == [call[t] EXCEPT !.pc = "leave", !.answer = x]
  <2>1. /\ fr \in [req : Table!Request \cup {Idle}, pc : CallPc, n : Node \cup {NoNode},
                   answer : Value \cup {Empty, NoLeaf, Torn}]
        /\ fr.req = call[t].req /\ fr.pc = "leave" /\ fr.n = call[t].n /\ fr.answer = x
    BY <1>1 DEF Frame, CallPc
  <2>2. call' = [call EXCEPT ![t] = fr]
    BY <1>1, <1>5 DEF Answered
  <2>3. "leave" \in CallPc \ {"idle"} /\ "leave" \notin InNode
    BY DEF CallPc
  <2>4. fr \in Frame
    BY <1>1, <2>1, <2>3 DEF Frame
  <2>5. QED
    BY <1>1, <1>2, <1>5, <2>1, <2>2, <2>3, <2>4
<1>6. QED
  BY <1>3, <1>4, <1>5

(* The locks, as records.                                                   *)
LEMMA LockType ==
  ASSUME NEW lock \in RWLock, NEW t \in Thread
  PROVE  /\ lock.readers \in SUBSET (Thread \X {"call", "enumerator"})
         /\ lock.writer \in Thread \cup {NoThread}
         /\ <<t, "call">> \in Thread \X {"call", "enumerator"}
         /\ <<t, "enumerator">> \in Thread \X {"call", "enumerator"}
  BY DEF RWLock

LEMMA TakenFacts ==
  ASSUME NEW lock \in RWLock, NEW t \in Thread
  PROVE  /\ Taken(lock, t) \in RWLock
         /\ Taken(lock, t).writer = IF Writes(t) THEN t ELSE lock.writer
         /\ Taken(lock, t).readers =
              IF Writes(t) THEN lock.readers ELSE lock.readers \cup {<<t, "call">>}
  BY LockType DEF RWLock, Taken

LEMMA GivenFacts ==
  ASSUME NEW lock \in RWLock, NEW t \in Thread
  PROVE  /\ Given(lock, t) \in RWLock
         /\ Given(lock, t).writer = IF lock.writer = t THEN NoThread ELSE lock.writer
         /\ Given(lock, t).readers = lock.readers \ {<<t, "call">>}
  BY LockType DEF RWLock, Given

LEMMA KeptFacts ==
  ASSUME NEW lock \in RWLock, NEW t \in Thread
  PROVE  /\ Kept(lock, t) \in RWLock
         /\ Kept(lock, t).writer = lock.writer
         /\ Kept(lock, t).readers = lock.readers \cup {<<t, "enumerator">>}
  BY LockType DEF RWLock, Kept

LEMMA DroppedFacts ==
  ASSUME NEW lock \in RWLock, NEW t \in Thread
  PROVE  /\ Dropped(lock, t) \in RWLock
         /\ Dropped(lock, t).writer = lock.writer
         /\ Dropped(lock, t).readers = lock.readers \ {<<t, "enumerator">>}
  BY LockType DEF RWLock, Dropped

(* What a step does to a node.                                              *)
NodeRecord == [live : BOOLEAN, mLock : RWLock, mEntries : [Name -> Table!MaybeLeaf]]

Relocked(n, lock) ==
  /\ node'[n].live = node[n].live /\ node'[n].mEntries = node[n].mEntries
  /\ node'[n].mLock = lock
  /\ \A m \in Node \ {n} : node'[m] = node[m]
  /\ node' \in [Node -> NodeRecord]

Rewritten(n, x, leaf) ==
  /\ node'[n].live = node[n].live /\ node'[n].mLock = node[n].mLock
  /\ node'[n].mEntries = [node[n].mEntries EXCEPT ![x] = leaf]
  /\ \A m \in Node \ {n} : node'[m] = node[m]
  /\ node' \in [Node -> NodeRecord]

LEMMA NodeFacts ==
  ASSUME TypeOK, NEW n \in Node
  PROVE  /\ node \in [Node -> NodeRecord] /\ node[n] \in NodeRecord
         /\ node[n].mLock \in RWLock /\ node[n].mEntries \in [Name -> Table!MaybeLeaf]
         /\ \A lock \in RWLock :
              node' = [node EXCEPT ![n].mLock = lock] => Relocked(n, lock)
         /\ \A x \in Name, leaf \in Table!MaybeLeaf :
              node' = [node EXCEPT ![n].mEntries[x] = leaf] => Rewritten(n, x, leaf)
<1>1. node \in [Node -> NodeRecord] /\ node[n] \in NodeRecord
  BY DEF TypeOK, NodeRecord
<1>2. node[n].mLock \in RWLock /\ node[n].mEntries \in [Name -> Table!MaybeLeaf]
  BY <1>1 DEF NodeRecord
<1>3. ASSUME NEW lock \in RWLock, node' = [node EXCEPT ![n].mLock = lock]
      PROVE  Relocked(n, lock)
  <2> DEFINE new == [node[n] EXCEPT !.mLock = lock]
  <2>1. new \in NodeRecord /\ new.mLock = lock /\ new.live = node[n].live
        /\ new.mEntries = node[n].mEntries
    BY <1>1, <1>3 DEF NodeRecord
  <2>2. node' \in [Node -> NodeRecord] /\ node'[n] = new
        /\ \A m \in Node \ {n} : node'[m] = node[m]
    BY <1>1, <1>3, <2>1
  <2>3. QED
    BY <2>1, <2>2 DEF Relocked
<1>4. ASSUME NEW x \in Name, NEW leaf \in Table!MaybeLeaf,
             node' = [node EXCEPT ![n].mEntries[x] = leaf]
      PROVE  Rewritten(n, x, leaf)
  <2> DEFINE entries == [node[n].mEntries EXCEPT ![x] = leaf]
             new == [node[n] EXCEPT !.mEntries = entries]
  <2>1. entries \in [Name -> Table!MaybeLeaf]
    BY <1>2, <1>4
  <2>2. new \in NodeRecord /\ new.mEntries = entries /\ new.live = node[n].live
        /\ new.mLock = node[n].mLock
    BY <1>1, <2>1 DEF NodeRecord
  <2>3. node' \in [Node -> NodeRecord] /\ node'[n] = new
        /\ \A m \in Node \ {n} : node'[m] = node[m]
    BY <1>1, <1>4, <2>2
  <2>4. QED
    BY <2>2, <2>3 DEF Rewritten
<1>5. QED
  BY <1>1, <1>2, <1>3, <1>4

-----------------------------------------------------------------------------
(* The steps that move a call without a change to the tables.               *)
LEMMA CallKeepsInv ==
  ASSUME CInv, NEW t \in Thread, NEW req \in Table!Request, Call(t, req)
  PROVE  CInv'
<1> DEFINE fr == [NoCall EXCEPT !.req = req, !.pc = "manager"]
<1>1. fr \in Frame /\ fr.req = req /\ fr.pc = "manager"
  <2>1. /\ fr.req = req /\ fr.pc = "manager" /\ fr.n = NoNode /\ fr.answer = NoLeaf
        /\ fr \in [req : Table!Request \cup {Idle}, pc : CallPc, n : Node \cup {NoNode},
                   answer : Value \cup {Empty, NoLeaf, Torn}]
    <3>1. /\ NoCall \in [req : Table!Request \cup {Idle}, pc : CallPc, n : Node \cup {NoNode},
                         answer : Value \cup {Empty, NoLeaf, Torn}]
          /\ NoCall.n = NoNode /\ NoCall.answer = NoLeaf /\ "manager" \in CallPc
      BY DEF NoCall, CallPc
    <3>2. QED
      BY <3>1
  <2>2. req # Idle
    BY RequestFacts
  <2>3. QED
    BY <2>1, <2>2 DEF Frame
<1>2. call' \in [Thread -> Frame] /\ call'[t] = fr /\ \A u \in Thread \ {t} : call'[u] = call[u]
  BY <1>1 DEF Call, CInv, TypeOK
<1>3. call'[t].req = req /\ call'[t].pc = "manager" /\ \A u \in Thread \ {t} : call'[u] = call[u]
  BY <1>1, <1>2
<1>4. UNCHANGED <<mCategories, node, mLock, enumerator>>
  BY DEF Call
<1>5. TypeOK'
  BY <1>2, <1>4 DEF CInv, TypeOK
<1>6. ManagerLockInv'
  BY <1>3, <1>4 DEF CInv, ManagerLockInv, Holding, Writes, Calling
<1>7. NodeLocksInv'
  BY <1>3, <1>4 DEF CInv, NodeLocksInv
<1>8. CategoriesInv' /\ FoundInv'
  BY <1>3, <1>4 DEF CInv, CategoriesInv, FoundInv, Fits
<1>9. QED
  BY <1>5, <1>6, <1>7, <1>8 DEF CInv

LEMMA EnterManagerKeepsInv ==
  ASSUME CInv, NEW t \in Thread, EnterManager(t)
  PROVE  CInv'
<1>1. /\ Moved(t, "find", call[t].n, call[t].answer) /\ call[t].req # Idle
      /\ call[t].pc = "manager"
  BY MoveFacts, FrameFacts DEF EnterManager, At, CInv, CallPc
<1>2. UNCHANGED <<mCategories, node, enumerator>> /\ mLock' = Taken(mLock, t)
      /\ mLock \in RWLock /\ Free(mLock, Writes(t))
  BY DEF EnterManager, CInv, TypeOK
<1>3. TypeOK'
  BY <1>1, <1>2, TakenFacts DEF CInv, TypeOK, Moved
<1>4. ManagerLockInv'
  <2>1. Writes(t)' <=> Writes(t)
    BY <1>1 DEF Moved, Writes
  <2>2. \A u \in Thread \ {t} : (Writes(u)' <=> Writes(u)) /\ (Holding(u)' <=> Holding(u))
    BY <1>1 DEF Moved, Writes, Holding, Calling
  <2>3. mLock.writer = NoThread /\ (Writes(t) => mLock.readers = {})
    BY <1>2 DEF Free
  <2>4. mLock'.writer = (IF Writes(t) THEN t ELSE mLock.writer)
        /\ mLock'.readers = IF Writes(t) THEN mLock.readers
                                         ELSE mLock.readers \cup {<<t, "call">>}
    BY <1>2, TakenFacts
  <2>5. t # NoThread /\ \A u \in Thread : u # NoThread
    BY ConstantsAssumption
  <2>6. CASE Writes(t)
    BY <1>2, <2>1, <2>2, <2>3, <2>4, <2>5, <2>6 DEF CInv, ManagerLockInv
  <2>7. CASE ~Writes(t)
    BY <1>2, <2>1, <2>2, <2>3, <2>4, <2>5, <2>7 DEF CInv, ManagerLockInv
  <2>8. QED
    BY <2>6, <2>7
<1>5. NodeLocksInv' /\ CategoriesInv'
  BY <1>1, <1>2 DEF CInv, NodeLocksInv, CategoriesInv, Moved
<1>6. FoundInv'
  BY <1>1, <1>2 DEF CInv, FoundInv, Fits, Moved
<1>7. QED
  BY <1>3, <1>4, <1>5, <1>6 DEF CInv

(* A call that holds its locks and goes on, or gives its answer: nothing    *)
(* but the call changes.                                                    *)
LEMMA MoveKeepsInv ==
  ASSUME CInv, NEW t \in Thread, call[t].req # Idle, NEW pc, NEW n, NEW x,
         Moved(t, pc, n, x), Holding(t)' => Holding(t),
         UNCHANGED <<mCategories, node, mLock, enumerator>>,
         pc \in Inside => call[t].pc \in Inside /\ n = call[t].n,
         pc = "leave" \/ Fits(call[t].req.op, pc),
         pc = "create" => mCategories[call[t].req.cat] = NoNode,
         pc \in InNode /\ call[t].req.op # "AddCategoryEntry" =>
           mCategories[call[t].req.cat] = n,
         pc = "insert" => node[n].mEntries[call[t].req.name] = NoLeaf,
         pc \in {"copy", "set"} => node[n].mEntries[call[t].req.name] # NoLeaf,
         pc = "set" => call[t].req.replace
  PROVE  CInv'
<1>1. \A u \in Thread : (Writes(u)' <=> Writes(u)) /\ (Holding(u)' => Holding(u))
  BY DEF Moved, Writes, Holding, Calling
<1>2. TypeOK'
  BY DEF Moved, CInv, TypeOK
<1>3. ManagerLockInv'
  BY <1>1 DEF CInv, ManagerLockInv
<1>4. NodeLocksInv' /\ CategoriesInv'
  BY DEF Moved, CInv, NodeLocksInv, CategoriesInv
<1>5. FoundInv'
  BY DEF Moved, CInv, FoundInv, Fits
<1>6. QED
  BY <1>2, <1>3, <1>4, <1>5 DEF CInv

LEMMA LookUpEntryKeepsInv ==
  ASSUME CInv, NEW t \in Thread, LookUpEntry(t)
  PROVE  CInv'
<1> DEFINE n == Found(t)
           name == call[t].req.name
<1>1. /\ call[t].pc = "find" /\ call[t].req # Idle /\ call[t].req.op = "GetCategoryEntry"
      /\ UNCHANGED <<mCategories, node, mLock, enumerator>>
  BY DEF LookUpEntry, At, Calling
<1>2. /\ call[t].req.cat \in Category /\ name \in Name /\ Holding(t)
      /\ n = mCategories[call[t].req.cat] /\ n \in Node \cup {NoNode}
  BY <1>1, FrameFacts, RequestFacts DEF CInv, TypeOK, Holding, Found
<1>3. ASSUME NEW x \in {NoLeaf, Torn}, Answered(t, x)
      PROVE  CInv'
  <2>1. Moved(t, "leave", call[t].n, x)
    BY <1>1, <1>3, MoveFacts DEF CInv, CallPc
  <2>2. QED
    BY <1>1, <1>2, <2>1, MoveKeepsInv
<1>4. ASSUME EntriesOf(n)[name] # NoLeaf, GotoNode(t, "copy", n)
      PROVE  CInv'
  <2>1. n \in Node /\ node[n].mEntries[name] # NoLeaf
    BY <1>2, <1>4 DEF EntriesOf
  <2>2. Moved(t, "copy", n, call[t].answer)
    BY <1>1, <1>4, <2>1, MoveFacts DEF CInv, CallPc
  <2>3. Fits(call[t].req.op, "copy")
    BY <1>1 DEF Fits
  <2>4. QED
    BY <1>1, <1>2, <2>1, <2>2, <2>3, MoveKeepsInv
<1>5. QED
  BY <1>3, <1>4 DEF LookUpEntry

LEMMA CopyValueKeepsInv ==
  ASSUME CInv, NEW t \in Thread, CopyValue(t)
  PROVE  CInv'
<1> DEFINE leaf == node[call[t].n].mEntries[call[t].req.name]
<1>1. /\ call[t].pc = "copy" /\ (Answered(t, leaf.mValue) \/ Answered(t, Torn))
      /\ UNCHANGED <<mCategories, node, mLock, enumerator>>
  BY DEF CopyValue, At
<1>2. /\ call[t].req # Idle /\ call[t].req.op = "GetCategoryEntry"
      /\ call[t].n \in Node /\ leaf # NoLeaf
  <2>1. call[t].req # Idle /\ call[t].n \in Node
    BY <1>1, FrameFacts DEF CInv
  <2>2. leaf # NoLeaf
    BY <1>1 DEF CInv, FoundInv
  <2>3. call[t].req.op = "GetCategoryEntry"
    BY <1>1 DEF CInv, FoundInv, Fits
  <2>4. QED
    BY <2>1, <2>2, <2>3
<1>3. call[t].req.name \in Name
  BY <1>2, FrameFacts, RequestFacts DEF CInv
<1>4. leaf \in Table!MaybeLeaf
  BY <1>2, <1>3, NodeFacts DEF CInv
<1>5. PICK x \in Value \cup {Empty, NoLeaf, Torn} : Answered(t, x)
  BY <1>1, <1>2, <1>4, LeafFacts
<1>6. Moved(t, "leave", call[t].n, x)
  BY <1>2, <1>5, MoveFacts DEF CInv, CallPc
<1>7. Holding(t)
  BY <1>1, <1>2 DEF Holding, Calling
<1>8. UNCHANGED <<mCategories, node, mLock, enumerator>>
  BY <1>1
<1>9. QED
  BY <1>2, <1>6, <1>7, <1>8, MoveKeepsInv

(* The iterators are taken, and a DeleteCategory begins to wait for itself. *)
LEMMA TakeIteratorsKeepsInv ==
  ASSUME CInv, NEW t \in Thread, TakeIterators(t)
  PROVE  CInv'
<1>1. /\ call[t].pc = "node" /\ call[t].req # Idle /\ call[t].req.op = "EnumerateCategory"
      /\ call[t].n \in Node /\ UNCHANGED <<mCategories, node, mLock, enumerator>>
  BY FrameFacts DEF TakeIterators, At, Calling, CInv
<1>2. Moved(t, "begun", call[t].n, call[t].answer)
  BY <1>1, MoveFacts DEF TakeIterators, CInv, CallPc
<1>3. /\ Holding(t) /\ Fits(call[t].req.op, "begun")
      /\ mCategories[call[t].req.cat] = call[t].n
  BY <1>1 DEF Holding, Calling, Fits, CInv, FoundInv
<1>4. QED
  BY <1>1, <1>2, <1>3, MoveKeepsInv

LEMMA ClearWaitsKeepsInv ==
  ASSUME CInv, NEW t \in Thread, ClearWaits(t)
  PROVE  CInv'
<1>1. /\ call[t].pc = "inside" /\ call[t].req # Idle /\ call[t].req.op = "DeleteCategory"
      /\ call[t].n \in Node /\ UNCHANGED <<mCategories, node, mLock, enumerator>>
  BY FrameFacts DEF ClearWaits, At, Calling, CInv
<1>2. Moved(t, "clear", call[t].n, call[t].answer)
  BY <1>1, MoveFacts DEF ClearWaits, CInv, CallPc
<1>3. /\ Holding(t) /\ Fits(call[t].req.op, "clear")
      /\ mCategories[call[t].req.cat] = call[t].n
  BY <1>1 DEF Holding, Calling, Fits, CInv, FoundInv
<1>4. QED
  BY <1>1, <1>2, <1>3, MoveKeepsInv

LEMMA FindCategoryKeepsInv ==
  ASSUME CInv, NEW t \in Thread, FindCategory(t)
  PROVE  CInv'
<1>1. /\ call[t].pc = "find" /\ call[t].req # Idle
      /\ call[t].req.op \in {"DeleteCategoryEntry", "DeleteCategory", "EnumerateCategory"}
      /\ UNCHANGED <<mCategories, node, mLock, enumerator>>
  BY DEF FindCategory, At, Calling
<1>2. call[t].req.cat \in Category
  BY <1>1, FrameFacts, RequestFacts DEF CInv
<1>3. Holding(t)
  BY <1>1 DEF Holding
<1>4. CASE Found(t) = NoNode
  <2>1. Moved(t, "leave", call[t].n, NoLeaf)
    BY <1>1, <1>4, MoveFacts DEF FindCategory, CInv, CallPc
  <2>2. QED
    BY <1>1, <1>3, <2>1, MoveKeepsInv
<1>5. CASE Found(t) # NoNode
  <2>1. Found(t) \in Node /\ Found(t) = mCategories[call[t].req.cat]
    BY <1>2, <1>5 DEF Found, CInv, TypeOK
  <2>2. Moved(t, "node", Found(t), call[t].answer)
    BY <1>1, <1>5, <2>1, MoveFacts DEF FindCategory, CInv, CallPc
  <2>3. Fits(call[t].req.op, "node")
    BY <1>1 DEF Fits
  <2>4. QED
    BY <1>1, <1>3, <2>1, <2>2, <2>3, MoveKeepsInv
<1>6. QED
  BY <1>4, <1>5

(* The manager's lock is given back: AddCategoryEntry goes to the node.     *)
LEMMA FindToAddKeepsInv ==
  ASSUME CInv, NEW t \in Thread, FindToAdd(t)
  PROVE  CInv'
<1>1. /\ call[t].pc = "find" /\ call[t].req # Idle /\ call[t].req.op = "AddCategoryEntry"
      /\ UNCHANGED <<mCategories, node, enumerator>>
  BY DEF FindToAdd, At, Calling
<1>2. call[t].req.cat \in Category /\ Writes(t) /\ Holding(t)
  BY <1>1, FrameFacts, RequestFacts DEF CInv, Writes, Writer, Holding
<1>3. CASE Found(t) = NoNode
  <2>1. Moved(t, "create", call[t].n, call[t].answer) /\ mLock' = mLock
    BY <1>1, <1>3, MoveFacts DEF FindToAdd, CInv, CallPc
  <2>2. Fits(call[t].req.op, "create") /\ mCategories[call[t].req.cat] = NoNode
    BY <1>1, <1>3 DEF Fits, Found
  <2>3. QED
    BY <1>1, <1>2, <2>1, <2>2, MoveKeepsInv
<1>4. CASE Found(t) # NoNode
  <2>1. Found(t) \in Node /\ Found(t) = mCategories[call[t].req.cat]
    BY <1>2, <1>4 DEF Found, CInv, TypeOK
  <2>2. Moved(t, "node", Found(t), call[t].answer)
    BY <1>1, <1>4, <2>1, MoveFacts DEF FindToAdd, CInv, CallPc
  <2>3. mLock' = Given(mLock, t) /\ mLock \in RWLock
    BY <1>4 DEF FindToAdd, CInv, TypeOK
  <2>4. mLock' \in RWLock /\ mLock'.writer = NoThread /\ mLock'.readers = {}
    <3>1. mLock.writer = t /\ mLock.readers = {}
      BY <1>2, ConstantsAssumption DEF CInv, ManagerLockInv
    <3>2. QED
      BY <2>3, <3>1, GivenFacts
  <2>5. TypeOK'
    BY <1>1, <2>2, <2>4 DEF CInv, TypeOK, Moved
  <2>6. ManagerLockInv'
    <3>1. ~Holding(t)'
      BY <1>1, <2>2 DEF Holding, Moved, Calling
    <3>2. mLock.writer = t /\ mLock.readers = {}
      BY <1>2, ConstantsAssumption DEF CInv, ManagerLockInv
    <3>3. \A u \in Thread \ {t} : ~Holding(u)
      BY <3>2 DEF CInv, ManagerLockInv
    <3>4. \A u \in Thread \ {t} : ~Holding(u)'
      BY <2>2, <3>3 DEF Holding, Moved, Calling
    <3>5. \A u \in Thread : enumerator[u] # Manager
      BY <3>2 DEF CInv, ManagerLockInv
    <3>6. QED
      BY <1>1, <2>4, <3>1, <3>4, <3>5 DEF ManagerLockInv
  <2>7. NodeLocksInv' /\ CategoriesInv'
    BY <1>1, <2>2 DEF Moved, CInv, NodeLocksInv, CategoriesInv
  <2>8. FoundInv'
    BY <1>1, <2>2 DEF Moved, CInv, FoundInv, Fits
  <2>9. QED
    BY <2>5, <2>6, <2>7, <2>8 DEF CInv
<1>5. QED
  BY <1>3, <1>4

-----------------------------------------------------------------------------
(* While t has the manager's lock to write, nobody else does anything with  *)
(* the table of categories.                                                 *)
LEMMA AloneInManager ==
  ASSUME CInv, NEW t \in Thread, Holding(t), Writes(t)
  PROVE  /\ mLock.writer = t /\ mLock.readers = {}
         /\ \A u \in Thread \ {t} : ~Holding(u)
         /\ \A u \in Thread : enumerator[u] # Manager
<1>1. mLock.writer = t /\ t # NoThread /\ mLock.readers = {}
  BY ConstantsAssumption DEF CInv, ManagerLockInv
<1>2. QED
  BY <1>1 DEF CInv, ManagerLockInv

LEMMA CreateKeepsInv ==
  ASSUME CInv, NEW t \in Thread, Create(t)
  PROVE  CInv'
<1>1. /\ call[t].pc = "create" /\ call[t].req # Idle /\ call[t].req.op = "AddCategoryEntry"
      /\ mLock' = Given(mLock, t) /\ enumerator' = enumerator
      /\ mCategories[call[t].req.cat] = NoNode
  BY FrameFacts DEF Create, At, CInv, FoundInv, Fits
<1>2. /\ call[t].req.cat \in Category /\ Writes(t) /\ Holding(t)
      /\ mCategories \in [Category -> Node \cup {NoNode}] /\ mLock \in RWLock
      /\ node \in [Node -> NodeRecord]
  BY <1>1, FrameFacts, RequestFacts DEF CInv, TypeOK, Writes, Writer, Holding, NodeRecord
<1> DEFINE c == call[t].req.cat
<1>3. PICK n \in Node :
        /\ ~node[n].live /\ \A u \in Thread : call[u].n # n
        /\ node' = [node EXCEPT ![n] = NewNode]
        /\ mCategories' = [mCategories EXCEPT ![c] = n]
        /\ GotoNode(t, "node", n)
  BY DEF Create
<1>4. Moved(t, "node", n, call[t].answer)
  BY <1>1, <1>3, MoveFacts DEF CInv, CallPc
<1>5. mLock' \in RWLock /\ mLock'.writer = NoThread /\ mLock'.readers = {}
  BY <1>1, <1>2, AloneInManager, GivenFacts
<1>6. /\ NewNode \in NodeRecord /\ NewNode.live /\ NewNode.mLock = Unheld
      /\ Unheld.writer = NoThread /\ Unheld.readers = {}
  BY DEF NewNode, NodeRecord, Unheld, RWLock, Table!MaybeLeaf
<1>7. /\ node' \in [Node -> NodeRecord] /\ node'[n] = NewNode
      /\ \A m \in Node \ {n} : node'[m] = node[m]
  BY <1>2, <1>3, <1>6
<1>8. /\ mCategories' \in [Category -> Node \cup {NoNode}] /\ mCategories'[c] = n
      /\ \A d \in Category \ {c} : mCategories'[d] = mCategories[d]
  BY <1>2, <1>3
<1>9. TypeOK'
  BY <1>1, <1>4, <1>5, <1>7, <1>8 DEF CInv, TypeOK, Moved, NodeRecord
<1>10. ManagerLockInv'
  <2>1. ~Holding(t)'
    BY <1>1, <1>4 DEF Holding, Moved, Calling
  <2>2. \A u \in Thread \ {t} : ~Holding(u)'
    BY <1>2, <1>4, AloneInManager DEF Holding, Moved, Calling
  <2>3. QED
    BY <1>1, <1>2, <1>5, <2>1, <2>2, AloneInManager DEF ManagerLockInv
<1>11. NodeLocksInv'
  <2>1. \A u \in Thread : call'[u].pc \in Inside =>
          call'[u] = call[u] /\ call[u].n # n /\ call[u].n \in Node
    BY <1>3, <1>4, FrameFacts DEF Moved, CInv
  <2>2. \A u \in Thread : enumerator[u] # n
    <3>1. n \in Node /\ ~node[n].live
      BY <1>3
    <3>2. ASSUME NEW u \in Thread, enumerator[u] \in Node
          PROVE  node[enumerator[u]].live
      BY <3>2 DEF CInv, NodeLocksInv
    <3>3. QED
      BY <3>1, <3>2
  <2>3. QED
    BY <1>1, <1>6, <1>7, <2>1, <2>2 DEF CInv, NodeLocksInv
<1>12. CategoriesInv'
  <2>1. \A d \in Category : mCategories[d] # n /\ mCategories[d] \in Node \cup {NoNode}
    BY <1>2, <1>3, ConstantsAssumption DEF CInv, CategoriesInv
  <2>2. QED
    BY <1>6, <1>7, <1>8, <2>1 DEF CInv, CategoriesInv
<1>13. FoundInv'
  <2>1. ASSUME NEW u \in Thread \ {t}, call[u].pc \in InNode \cup {"create"}
        PROVE  /\ Fits(call[u].req.op, call[u].pc) /\ call[u].pc \notin {"create", "copy"}
               /\ call[u].req.op = "AddCategoryEntry"
    <3>1. ~Holding(u)
      BY <1>2, AloneInManager
    <3>2. call[u].req # Idle
      BY <2>1, FrameFacts DEF CInv
    <3>3. QED
      BY <2>1, <3>1, <3>2 DEF CInv, FoundInv, Fits, Holding, Calling
  <2>2. \A u \in Thread \ {t} : call[u].pc \in {"insert", "set"} =>
          call[u].n \in Node /\ call[u].n # n
    BY <1>3, FrameFacts DEF CInv
  <2>3. call'[t].pc = "node" /\ call'[t].req.op = "AddCategoryEntry" /\ call'[t].n = n
        /\ \A u \in Thread \ {t} : call'[u] = call[u]
    BY <1>1, <1>4 DEF Moved
  <2>4. Fits("AddCategoryEntry", "node")
    BY DEF Fits
  <2>5. QED
    BY <1>7, <2>1, <2>2, <2>3, <2>4 DEF CInv, FoundInv
<1>14. QED
  BY <1>9, <1>10, <1>11, <1>12, <1>13 DEF CInv

(* The node's lock.                                                         *)
LEMMA EnterNodeKeepsInv ==
  ASSUME CInv, NEW t \in Thread, EnterNode(t)
  PROVE  CInv'
<1> DEFINE n == call[t].n
           lock == Taken(node[n].mLock, t)
<1>1. /\ call[t].pc = "node" /\ call[t].req # Idle /\ n \in Node /\ Writes(t)
      /\ node[n].live /\ node[n].mLock.writer = NoThread /\ node[n].mLock.readers = {}
      /\ UNCHANGED <<mCategories, mLock, enumerator>>
  BY FrameFacts DEF EnterNode, At, CInv, Free
<1>2. Moved(t, "inside", n, call[t].answer)
  BY <1>1, MoveFacts DEF EnterNode, CInv, CallPc
<1>3. lock \in RWLock /\ lock.writer = t /\ lock.readers = {}
  <2>1. node[n].mLock \in RWLock
    BY <1>1, NodeFacts DEF CInv
  <2>2. QED
    BY <1>1, <2>1, TakenFacts
<1>4. Relocked(n, lock)
  BY <1>1, <1>3, NodeFacts DEF EnterNode, CInv
<1>5. TypeOK'
  BY <1>1, <1>2, <1>4 DEF CInv, TypeOK, Moved, Relocked, NodeRecord
<1>6. ManagerLockInv'
  BY <1>1, <1>2 DEF CInv, ManagerLockInv, Moved, Holding, Writes, Calling
<1>7. NodeLocksInv'
  <2>1. \A u \in Thread \ {t} : call[u].pc \in Inside =>
          call[u].n \in Node /\ call[u].n # n
    BY <1>1, FrameFacts, ConstantsAssumption DEF CInv, NodeLocksInv
  <2>2. \A u \in Thread : enumerator[u] # n
    <3>1. n \in Node /\ node[n].mLock.readers = {}
      BY <1>1
    <3>2. QED
      BY <3>1 DEF CInv, NodeLocksInv
  <2>3. QED
    <3>1. \A m \in Node : node'[m].mLock.writer # NoThread => node'[m].mLock.readers = {}
      BY <1>3, <1>4 DEF CInv, NodeLocksInv, Relocked
    <3>2. \A u \in Thread : call'[u].pc \in Inside =>
            node'[call'[u].n].live /\ node'[call'[u].n].mLock.writer = u
      <4>1. call'[t].n = n /\ node'[n].live /\ node'[n].mLock.writer = t
        BY <1>1, <1>2, <1>3, <1>4 DEF Moved, Relocked
      <4>2. ASSUME NEW u \in Thread \ {t}, call'[u].pc \in Inside
            PROVE  node'[call'[u].n].live /\ node'[call'[u].n].mLock.writer = u
        <5>1. call'[u] = call[u]
          BY <1>2 DEF Moved
        <5>2. node'[call[u].n] = node[call[u].n]
          BY <1>4, <2>1, <4>2, <5>1 DEF Relocked
        <5>3. QED
          BY <4>2, <5>1, <5>2 DEF CInv, NodeLocksInv
      <4>3. QED
        BY <4>1, <4>2
    <3>3. \A u \in Thread : enumerator'[u] \in Node =>
            /\ node'[enumerator'[u]].live
            /\ <<u, "enumerator">> \in node'[enumerator'[u]].mLock.readers
      BY <1>1, <1>4, <2>2 DEF CInv, NodeLocksInv, Relocked
    <3>4. QED
      BY <3>1, <3>2, <3>3 DEF NodeLocksInv
<1>8. CategoriesInv'
  <2>1. \A m \in Node : node'[m].live = node[m].live
    BY <1>4 DEF Relocked
  <2>2. QED
    BY <1>1, <2>1 DEF CInv, TypeOK, CategoriesInv
<1>9. FoundInv'
  <2>1. \A m \in Node : node'[m].mEntries = node[m].mEntries
    BY <1>4 DEF Relocked
  <2>2. Fits(call[t].req.op, "inside")
    BY <1>1 DEF CInv, FoundInv, Fits, Writes, Writer
  <2>3. \A u \in Thread : call[u].pc \in InNode => call[u].n \in Node
    BY FrameFacts DEF CInv
  <2>4. QED
    BY <1>1, <1>2, <2>1, <2>2, <2>3 DEF CInv, FoundInv, Moved
<1>10. QED
  BY <1>5, <1>6, <1>7, <1>8, <1>9 DEF CInv

(* Inside its lock, a node is changed by one thread.                        *)
LEMMA AloneInNode ==
  ASSUME CInv, NEW t \in Thread, call[t].pc \in Inside
  PROVE  /\ call[t].n \in Node /\ node[call[t].n].live
         /\ node[call[t].n].mLock.writer = t /\ node[call[t].n].mLock.readers = {}
         /\ \A u \in Thread \ {t} : call[u].pc \in Inside =>
              call[u].n \in Node /\ call[u].n # call[t].n
         /\ \A u \in Thread : enumerator[u] # call[t].n
<1>1. call[t].n \in Node
  BY FrameFacts DEF CInv
<1>2. node[call[t].n].live /\ node[call[t].n].mLock.writer = t
  BY DEF CInv, NodeLocksInv
<1>3. node[call[t].n].mLock.readers = {}
  BY <1>1, <1>2, ConstantsAssumption DEF CInv, NodeLocksInv
<1>4. ASSUME NEW u \in Thread \ {t}, call[u].pc \in Inside
      PROVE  call[u].n \in Node /\ call[u].n # call[t].n
  <2>1. call[u].n \in Node
    BY <1>4, FrameFacts DEF CInv
  <2>2. node[call[u].n].mLock.writer = u
    BY <1>4 DEF CInv, NodeLocksInv
  <2>3. QED
    BY <1>2, <2>1, <2>2
<1>5. ASSUME NEW u \in Thread, enumerator[u] = call[t].n
      PROVE  FALSE
  BY <1>1, <1>3, <1>5 DEF CInv, NodeLocksInv
<1>6. QED
  BY <1>1, <1>2, <1>3, <1>4, <1>5

LEMMA RewriteKeepsInv ==
  ASSUME CInv, NEW t \in Thread, call[t].req # Idle, call[t].pc \in Inside,
         NEW leaf, Rewritten(call[t].n, call[t].req.name, leaf),
         leaf # NoLeaf \/ call[t].req.op = "DeleteCategoryEntry",
         Moved(t, "leave", call[t].n, NoLeaf), UNCHANGED <<mCategories, mLock, enumerator>>
  PROVE  CInv'
<1> DEFINE n == call[t].n
<1>1. n \in Node /\ \A u \in Thread \ {t} : call[u].pc \in Inside =>
                      call[u].n \in Node /\ call[u].n # n
  BY AloneInNode
<1>2. /\ node' \in [Node -> NodeRecord]
      /\ \A m \in Node : node'[m].live = node[m].live /\ node'[m].mLock = node[m].mLock
      /\ \A m \in Node \ {n} : node'[m] = node[m]
  BY <1>1 DEF Rewritten
<1>3. TypeOK'
  BY <1>2 DEF CInv, TypeOK, Moved, NodeRecord
<1>4. ManagerLockInv'
  <2>1. \A u \in Thread : (Writes(u)' <=> Writes(u)) /\ (Holding(u)' => Holding(u))
    BY DEF Moved, Writes, Holding, Calling
  <2>2. QED
    BY <2>1 DEF CInv, ManagerLockInv
<1>5. NodeLocksInv'
  <2>1. \A u \in Thread : call'[u].pc \in Inside =>
          call'[u] = call[u] /\ call[u].n \in Node
    BY <1>1 DEF Moved
  <2>2. QED
    BY <1>2, <2>1 DEF CInv, NodeLocksInv
<1>6. CategoriesInv'
  BY <1>2 DEF CInv, TypeOK, CategoriesInv
<1>7. FoundInv'
  <2>1. ASSUME NEW u \in Thread \ {t}, call[u].pc \in {"copy", "set"}
        PROVE  node'[call[u].n].mEntries[call[u].req.name] # NoLeaf
    <3>1. call[u].n \in Node /\ node[call[u].n].mEntries[call[u].req.name] # NoLeaf
      BY <2>1, FrameFacts DEF CInv, FoundInv
    <3>2. CASE leaf # NoLeaf
      <4>1. node[n].mEntries \in [Name -> Table!MaybeLeaf]
        BY <1>1, NodeFacts DEF CInv
      <4>2. CASE call[u].n # n
        BY <1>2, <3>1, <4>2
      <4>3. CASE call[u].n = n
        <5>1. node'[n].mEntries = [node[n].mEntries EXCEPT ![call[t].req.name] = leaf]
          BY DEF Rewritten
        <5>2. call[u].req.name \in Name
          <6>1. call[u].req \in Table!Request
                /\ call[u].req.op \in {"AddCategoryEntry", "GetCategoryEntry"}
            BY <2>1, FrameFacts DEF CInv, FoundInv, Fits
          <6>2. QED
            BY <6>1, RequestFacts
        <5>3. QED
          BY <3>1, <3>2, <4>1, <4>3, <5>1, <5>2
      <4>4. QED
        BY <4>2, <4>3
    <3>3. CASE call[t].req.op = "DeleteCategoryEntry"
      <4>1. Holding(t) /\ Writes(t)
        BY <3>3 DEF Holding, Calling, Writes, Writer
      <4>2. ~Holding(u) /\ call[u].req # Idle
        BY <2>1, <4>1, AloneInManager, FrameFacts DEF CInv
      <4>3. call[u].pc = "set"
        BY <2>1, <4>2 DEF Holding, Calling, CInv, FoundInv, Fits
      <4>4. QED
        BY <1>1, <1>2, <3>1, <4>3
    <3>4. QED
      BY <3>2, <3>3
  <2>2. \A u \in Thread \ {t} : call[u].pc = "insert" => node'[call[u].n] = node[call[u].n]
    BY <1>1, <1>2
  <2>3. call'[t].pc = "leave" /\ \A u \in Thread \ {t} : call'[u] = call[u]
    BY DEF Moved
  <2>4. QED
    BY <2>1, <2>2, <2>3 DEF CInv, FoundInv, Fits
<1>8. QED
  BY <1>3, <1>4, <1>5, <1>6, <1>7 DEF CInv

LEMMA AddEntryKeepsInv ==
  ASSUME CInv, NEW t \in Thread, AddEntry(t)
  PROVE  CInv'
<1> DEFINE n == call[t].n
           req == call[t].req
           leaf == node[n].mEntries[req.name]
<1>1. /\ call[t].pc = "inside" /\ req # Idle /\ req.op = "AddCategoryEntry"
      /\ UNCHANGED <<mCategories, node, mLock, enumerator>> /\ n \in Node
  BY FrameFacts DEF AddEntry, At, Calling, CInv
<1>2. ASSUME NEW pc \in {"insert", "set", "leave"}, NEW x, Moved(t, pc, n, x),
             pc = "insert" => leaf = NoLeaf, pc = "set" => leaf # NoLeaf /\ req.replace
      PROVE  CInv'
  <2>1. Fits(req.op, pc)
    BY <1>1, <1>2 DEF Fits
  <2>2. Holding(t)' => Holding(t)
    BY <1>1, <1>2 DEF Holding, Moved, Calling
  <2>3. QED
    BY <1>1, <1>2, <2>1, <2>2, MoveKeepsInv
<1>3. CASE leaf = NoLeaf
  <2>1. Moved(t, "insert", n, call[t].answer)
    BY <1>1, <1>3, MoveFacts DEF AddEntry, CInv, CallPc
  <2>2. QED
    BY <1>2, <1>3, <2>1
<1>4. CASE leaf # NoLeaf /\ req.replace
  <2>1. Moved(t, "set", n, call[t].answer)
    BY <1>1, <1>4, MoveFacts DEF AddEntry, CInv, CallPc
  <2>2. QED
    BY <1>2, <1>4, <2>1
<1>5. CASE leaf # NoLeaf /\ ~req.replace
  <2>1. Moved(t, "leave", n, NoLeaf)
    BY <1>1, <1>5, MoveFacts DEF AddEntry, CInv, CallPc
  <2>2. QED
    BY <1>2, <1>5, <2>1
<1>6. QED
  BY <1>3, <1>4, <1>5

LEMMA InsertLeafKeepsInv ==
  ASSUME CInv, NEW t \in Thread, InsertLeaf(t)
  PROVE  CInv'
<1> DEFINE req == call[t].req
           leaf == Table!NewLeaf(req.value, req.persist)
<1>1. /\ call[t].pc = "insert" /\ req # Idle /\ req.op = "AddCategoryEntry"
      /\ UNCHANGED <<mCategories, mLock, enumerator>>
      /\ node' = [node EXCEPT ![call[t].n].mEntries[req.name] = leaf]
  BY FrameFacts DEF InsertLeaf, At, CInv, FoundInv, Fits
<1>2. /\ call[t].n \in Node /\ req.name \in Name
      /\ leaf \in Table!MaybeLeaf /\ leaf # NoLeaf
  BY <1>1, FrameFacts, RequestFacts, LeafFacts, ConstantsAssumption DEF CInv
<1>3. Moved(t, "leave", call[t].n, NoLeaf)
  BY <1>1, MoveFacts DEF InsertLeaf, CInv, CallPc
<1>4. Rewritten(call[t].n, req.name, leaf)
  BY <1>1, <1>2, NodeFacts DEF CInv
<1>5. call[t].req # Idle /\ UNCHANGED <<mCategories, mLock, enumerator>>
      /\ call[t].pc \in Inside
  BY <1>1
<1> HIDE DEF leaf
<1>6. QED
  BY <1>2, <1>3, <1>4, <1>5, RewriteKeepsInv

LEMMA SetLeafKeepsInv ==
  ASSUME CInv, NEW t \in Thread, SetLeaf(t)
  PROVE  CInv'
<1> DEFINE req == call[t].req
           old == node[call[t].n].mEntries[req.name]
           leaf == Table!SetValue(old, req.value, req.persist)
<1>1. /\ call[t].pc = "set" /\ req # Idle /\ req.op = "AddCategoryEntry" /\ old # NoLeaf
      /\ UNCHANGED <<mCategories, mLock, enumerator>>
  BY FrameFacts DEF SetLeaf, At, CInv, FoundInv, Fits
<1>2. /\ call[t].n \in Node /\ req.name \in Name /\ old \in Table!MaybeLeaf
      /\ req.value \in Value /\ req.persist \in BOOLEAN
  BY <1>1, FrameFacts, RequestFacts, NodeFacts DEF CInv
<1>3. leaf \in Table!Leaf /\ leaf \in Table!MaybeLeaf /\ leaf # NoLeaf
  BY <1>1, <1>2, LeafFacts, ConstantsAssumption
<1>4. Moved(t, "leave", call[t].n, NoLeaf)
  BY <1>1, MoveFacts DEF SetLeaf, CInv, CallPc
<1>5. Rewritten(call[t].n, req.name, leaf)
  BY <1>2, <1>3, NodeFacts DEF SetLeaf, CInv
<1>6. QED
  BY <1>1, <1>3, <1>4, <1>5, RewriteKeepsInv

LEMMA RemoveEntryKeepsInv ==
  ASSUME CInv, NEW t \in Thread, RemoveEntry(t)
  PROVE  CInv'
<1> DEFINE req == call[t].req
           old == node[call[t].n].mEntries[req.name]
           leaf == IF old = NoLeaf \/ req.persist THEN NoLeaf ELSE [old EXCEPT !.mValue = Empty]
<1>1. /\ call[t].pc = "inside" /\ req # Idle /\ req.op = "DeleteCategoryEntry"
      /\ UNCHANGED <<mCategories, mLock, enumerator>>
      /\ node' = [node EXCEPT ![call[t].n].mEntries[req.name] = leaf]
  BY DEF RemoveEntry, At, Calling
<1>2. call[t].n \in Node /\ req.name \in Name
  BY <1>1, FrameFacts, RequestFacts DEF CInv
<1>3. leaf \in Table!MaybeLeaf
  <2>1. old \in Table!MaybeLeaf
    BY <1>2, NodeFacts DEF CInv
  <2>2. QED
    BY <2>1, LeafFacts
<1>4. Moved(t, "leave", call[t].n, NoLeaf)
  BY <1>1, MoveFacts DEF RemoveEntry, CInv, CallPc
<1>5. Rewritten(call[t].n, req.name, leaf)
  BY <1>1, <1>2, <1>3, NodeFacts DEF CInv
<1>6. QED
  BY <1>1, <1>4, <1>5, RewriteKeepsInv

(* The node is deleted with its category, which nobody else may look up.    *)
LEMMA DeleteNodeKeepsInv ==
  ASSUME CInv, NEW t \in Thread, DeleteNode(t)
  PROVE  CInv'
<1> DEFINE n == call[t].n
           c == call[t].req.cat
           dead == [NewNode EXCEPT !.live = FALSE]
<1>1. /\ call[t].pc = "inside" /\ call[t].req # Idle /\ call[t].req.op = "DeleteCategory"
      /\ node' = [node EXCEPT ![n] = dead] /\ mCategories' = [mCategories EXCEPT ![c] = NoNode]
      /\ UNCHANGED <<mLock, enumerator>>
  BY DEF DeleteNode, At, Calling
<1>2. /\ n \in Node /\ c \in Category /\ mCategories[c] = n /\ Writes(t) /\ Holding(t)
      /\ mCategories \in [Category -> Node \cup {NoNode}] /\ node \in [Node -> NodeRecord]
  BY <1>1, FrameFacts, RequestFacts
  DEF CInv, TypeOK, FoundInv, Writes, Writer, Holding, Calling, NodeRecord
<1>3. Moved(t, "leave", n, NoLeaf)
  BY <1>1, MoveFacts DEF DeleteNode, CInv, CallPc
<1>4. /\ dead \in NodeRecord /\ dead.mLock = Unheld
      /\ Unheld.writer = NoThread /\ Unheld.readers = {}
  <2>1. NewNode \in NodeRecord /\ NewNode.mLock = Unheld
    BY DEF NewNode, NodeRecord, Unheld, RWLock, Table!MaybeLeaf
  <2>2. QED
    BY <2>1 DEF NodeRecord, Unheld
<1>5. /\ node' \in [Node -> NodeRecord] /\ node'[n] = dead
      /\ \A m \in Node \ {n} : node'[m] = node[m]
  BY <1>1, <1>2, <1>4
<1>6. /\ mCategories' \in [Category -> Node \cup {NoNode}] /\ mCategories'[c] = NoNode
      /\ \A d \in Category \ {c} : mCategories'[d] = mCategories[d]
  BY <1>1, <1>2
<1>7. TypeOK'
  BY <1>1, <1>3, <1>5, <1>6 DEF CInv, TypeOK, Moved, NodeRecord
<1>8. ManagerLockInv'
  <2>1. \A u \in Thread : (Writes(u)' <=> Writes(u)) /\ (Holding(u)' => Holding(u))
    BY <1>2, <1>3 DEF Moved, Writes, Holding, Calling
  <2>2. QED
    BY <1>1, <2>1 DEF CInv, ManagerLockInv
<1>9. NodeLocksInv'
  <2>1. ASSUME NEW u \in Thread, call'[u].pc \in Inside
        PROVE  call'[u] = call[u] /\ node'[call[u].n] = node[call[u].n]
    BY <1>1, <1>3, <1>5, <2>1, AloneInNode DEF Moved
  <2>2. \A u \in Thread : enumerator[u] # n
    BY <1>1, AloneInNode
  <2>3. \A m \in Node : node'[m].mLock.writer # NoThread => node'[m].mLock.readers = {}
    BY <1>4, <1>5 DEF CInv, NodeLocksInv
  <2>4. \A u \in Thread : call'[u].pc \in Inside =>
          node'[call'[u].n].live /\ node'[call'[u].n].mLock.writer = u
    BY <2>1 DEF CInv, NodeLocksInv
  <2>5. \A u \in Thread : enumerator'[u] \in Node =>
          /\ node'[enumerator'[u]].live
          /\ <<u, "enumerator">> \in node'[enumerator'[u]].mLock.readers
    BY <1>1, <1>5, <2>2 DEF CInv, NodeLocksInv
  <2>6. QED
    BY <2>3, <2>4, <2>5 DEF NodeLocksInv
<1>10. CategoriesInv'
  <2>1. \A d \in Category \ {c} : mCategories[d] # n
    BY <1>2, ConstantsAssumption DEF CInv, CategoriesInv
  <2>2. ASSUME NEW d \in Category, mCategories'[d] # NoNode
        PROVE  d # c /\ mCategories'[d] = mCategories[d] /\ node'[mCategories[d]] = node[mCategories[d]]
    BY <1>2, <1>5, <1>6, <2>1, <2>2
  <2>3. \A d \in Category : mCategories'[d] # NoNode => node'[mCategories'[d]].live
    BY <2>2 DEF CInv, CategoriesInv
  <2>4. \A d, e \in Category : mCategories'[d] # NoNode /\ mCategories'[d] = mCategories'[e] => d = e
    BY <2>2 DEF CInv, CategoriesInv
  <2>5. QED
    BY <2>3, <2>4 DEF CategoriesInv
<1>11. FoundInv'
  <2>1. ASSUME NEW u \in Thread \ {t}, call[u].pc \in InNode \cup {"create"}
        PROVE  /\ call[u].pc \notin {"create", "copy"} /\ call[u].req.op = "AddCategoryEntry"
               /\ call[u].pc \in {"insert", "set"} => node'[call[u].n] = node[call[u].n]
    <3>1. ~Holding(u)
      BY <1>2, AloneInManager
    <3>2. call[u].req # Idle
      BY <2>1, FrameFacts DEF CInv
    <3>3. call[u].pc \in {"insert", "set"} => node'[call[u].n] = node[call[u].n]
      BY <1>1, <1>5, AloneInNode
    <3>4. QED
      BY <2>1, <3>1, <3>2, <3>3 DEF CInv, FoundInv, Fits, Holding, Calling
  <2>2. call'[t].pc = "leave" /\ \A u \in Thread \ {t} : call'[u] = call[u]
    BY <1>3 DEF Moved
  <2>3. QED
    BY <2>1, <2>2 DEF CInv, FoundInv, Fits
<1>12. QED
  BY <1>7, <1>8, <1>9, <1>10, <1>11 DEF CInv

-----------------------------------------------------------------------------
(* A read lock comes or goes, or the lock of a call that leaves.            *)
LEMMA RelockKeepsInv ==
  ASSUME CInv, NEW t \in Thread, NEW n \in Node, NEW lock, Relocked(n, lock),
         call' \in [Thread -> Frame], \A u \in Thread \ {t} : call'[u] = call[u],
         call'[t].pc \in {"idle", "leave"},
         mCategories' = mCategories,
         enumerator' \in [Thread -> Node \cup {Manager, NotFound}],
         mLock' \in RWLock, ManagerLockInv',
         lock.writer # NoThread => lock.readers = {},
         \A u \in Thread \ {t} : node[n].mLock.writer = u => lock.writer = u,
         \A u \in Thread : enumerator'[u] = n =>
           node[n].live /\ <<u, "enumerator">> \in lock.readers,
         \A u \in Thread : enumerator'[u] # n => enumerator'[u] \in {enumerator[u], NotFound}
  PROVE  CInv'
<1>1. /\ node' \in [Node -> NodeRecord]
      /\ \A m \in Node : node'[m].live = node[m].live /\ node'[m].mEntries = node[m].mEntries
      /\ node'[n].mLock = lock /\ \A m \in Node \ {n} : node'[m].mLock = node[m].mLock
  BY DEF Relocked
<1>2. TypeOK'
  BY <1>1 DEF CInv, TypeOK, NodeRecord
<1>3. NodeLocksInv'
  <2>1. \A m \in Node : node'[m].mLock.writer # NoThread => node'[m].mLock.readers = {}
    BY <1>1 DEF CInv, NodeLocksInv
  <2>2. ASSUME NEW u \in Thread, call'[u].pc \in Inside
        PROVE  node'[call'[u].n].live /\ node'[call'[u].n].mLock.writer = u
    <3>1. u # t /\ call'[u] = call[u] /\ call[u].n \in Node
      BY <2>2, FrameFacts DEF CInv
    <3>2. node[call[u].n].live /\ node[call[u].n].mLock.writer = u
      BY <2>2, <3>1 DEF CInv, NodeLocksInv
    <3>3. QED
      BY <1>1, <3>1, <3>2
  <2>3. ASSUME NEW u \in Thread, enumerator'[u] \in Node
        PROVE  /\ node'[enumerator'[u]].live
               /\ <<u, "enumerator">> \in node'[enumerator'[u]].mLock.readers
    <3>1. CASE enumerator'[u] = n
      BY <1>1, <3>1
    <3>2. CASE enumerator'[u] # n
      <4>1. enumerator'[u] = enumerator[u]
        BY <2>3, <3>2, ConstantsAssumption
      <4>2. node[enumerator[u]].live /\ <<u, "enumerator">> \in node[enumerator[u]].mLock.readers
        BY <2>3, <4>1 DEF CInv, NodeLocksInv
      <4>3. QED
        BY <1>1, <2>3, <3>2, <4>1, <4>2
    <3>3. QED
      BY <3>1, <3>2
  <2>4. QED
    BY <2>1, <2>2, <2>3 DEF NodeLocksInv
<1>4. CategoriesInv'
  BY <1>1 DEF CInv, TypeOK, CategoriesInv
<1>5. FoundInv'
  <2>1. \A u \in Thread \ {t} : call[u].pc \in InNode => call[u].n \in Node
    BY FrameFacts DEF CInv
  <2>2. QED
    BY <1>1, <2>1 DEF CInv, FoundInv, Fits
<1>6. QED
  BY <1>2, <1>3, <1>4, <1>5 DEF CInv

LEMMA ManagerOnlyKeepsInv ==
  ASSUME CInv, NEW t \in Thread, UNCHANGED <<node, mCategories>>,
         call' \in [Thread -> Frame], \A u \in Thread \ {t} : call'[u] = call[u],
         call'[t].pc \in {"idle", "leave"} \/ call'[t] = call[t],
         enumerator' \in [Thread -> Node \cup {Manager, NotFound}],
         \A u \in Thread : enumerator'[u] \in {enumerator[u], Manager, NotFound},
         mLock' \in RWLock, ManagerLockInv'
  PROVE  CInv'
<1>1. TypeOK'
  BY DEF CInv, TypeOK
<1>2. NodeLocksInv'
  <2>1. \A u \in Thread : call'[u].pc \in Inside => call'[u] = call[u]
    OBVIOUS
  <2>2. \A u \in Thread : enumerator'[u] \in Node => enumerator'[u] = enumerator[u]
    BY ConstantsAssumption
  <2>3. QED
    BY <2>1, <2>2 DEF CInv, NodeLocksInv
<1>3. CategoriesInv'
  BY DEF CInv, CategoriesInv
<1>4. FoundInv'
  BY DEF CInv, FoundInv, Fits
<1>5. QED
  BY <1>1, <1>2, <1>3, <1>4 DEF CInv

LEMMA EnumerateNodeKeepsInv ==
  ASSUME CInv, NEW t \in Thread, EnumerateNode(t)
  PROVE  CInv'
<1> DEFINE n == call[t].n
           lock == Kept(node[n].mLock, t)
<1>1. /\ call[t].pc = "begun" /\ call[t].req # Idle /\ call[t].req.op = "EnumerateCategory"
      /\ node[n].live /\ node[n].mLock.writer = NoThread
      /\ node' = [node EXCEPT ![n].mLock = lock] /\ enumerator' = [enumerator EXCEPT ![t] = n]
      /\ UNCHANGED <<mCategories, mLock>> /\ Answered(t, NoLeaf)
  BY FrameFacts DEF EnumerateNode, At, Free, CInv, FoundInv, Fits
<1>2. n \in Node /\ n # Manager /\ enumerator \in [Thread -> Node \cup {Manager, NotFound}]
  BY <1>1, FrameFacts, ConstantsAssumption DEF CInv, TypeOK
<1>3. /\ enumerator' \in [Thread -> Node \cup {Manager, NotFound}] /\ enumerator'[t] = n
      /\ \A u \in Thread \ {t} : enumerator'[u] = enumerator[u]
  BY <1>1, <1>2
<1>4. Moved(t, "leave", n, NoLeaf)
  BY <1>1, MoveFacts DEF CInv, CallPc
<1>5. /\ lock \in RWLock /\ lock.writer = node[n].mLock.writer
      /\ lock.readers = node[n].mLock.readers \cup {<<t, "enumerator">>}
  BY <1>2, NodeFacts, KeptFacts DEF CInv
<1>6. Relocked(n, lock)
  BY <1>1, <1>2, <1>5, NodeFacts DEF CInv
<1>7. ManagerLockInv'
  <2>1. \A u \in Thread : (Writes(u)' <=> Writes(u)) /\ (Holding(u)' => Holding(u))
    BY <1>1, <1>4 DEF Moved, Writes, Holding, Calling
  <2>2. \A u \in Thread : enumerator'[u] = Manager => enumerator[u] = Manager
    BY <1>2, <1>3
  <2>3. QED
    BY <1>1, <2>1, <2>2 DEF CInv, ManagerLockInv
<1>8. \A u \in Thread : enumerator'[u] = n =>
        node[n].live /\ <<u, "enumerator">> \in lock.readers
  <2>1. ASSUME NEW u \in Thread \ {t}, enumerator'[u] = n
        PROVE  <<u, "enumerator">> \in node[n].mLock.readers
    BY <1>2, <1>3, <2>1 DEF CInv, NodeLocksInv
  <2>2. QED
    BY <1>1, <1>5, <2>1
<1>9. mLock' \in RWLock /\ call' \in [Thread -> Frame] /\ call'[t].pc = "leave"
      /\ \A u \in Thread \ {t} : call'[u] = call[u]
  BY <1>1, <1>4 DEF CInv, TypeOK, Moved
<1>10. /\ lock.writer # NoThread => lock.readers = {}
       /\ \A u \in Thread \ {t} : node[n].mLock.writer = u => lock.writer = u
       /\ \A u \in Thread : enumerator'[u] # n => enumerator'[u] \in {enumerator[u], NotFound}
       /\ mCategories' = mCategories
  BY <1>1, <1>3, <1>5
<1>11. QED
  BY <1>2, <1>3, <1>6, <1>7, <1>8, <1>9, <1>10, RelockKeepsInv

LEMMA EnumerateManagerKeepsInv ==
  ASSUME CInv, NEW t \in Thread, EnumerateManager(t)
  PROVE  CInv'
<1>1. /\ call[t].pc = "find" /\ call[t].req # Idle /\ call[t].req.op = "EnumerateCategories"
      /\ mLock' = Kept(mLock, t) /\ enumerator' = [enumerator EXCEPT ![t] = Manager]
      /\ UNCHANGED <<mCategories, node>> /\ Answered(t, NoLeaf)
  BY DEF EnumerateManager, At, Calling
<1>2. /\ enumerator' \in [Thread -> Node \cup {Manager, NotFound}] /\ enumerator'[t] = Manager
      /\ \A u \in Thread \ {t} : enumerator'[u] = enumerator[u]
  BY <1>1 DEF CInv, TypeOK
<1>3. Moved(t, "leave", call[t].n, NoLeaf)
  BY <1>1, MoveFacts DEF CInv, CallPc
<1>4. /\ mLock' \in RWLock /\ mLock'.writer = mLock.writer
      /\ mLock'.readers = mLock.readers \cup {<<t, "enumerator">>}
  BY <1>1, KeptFacts DEF CInv, TypeOK
<1>5. ManagerLockInv'
  <2>1. \A u \in Thread : (Writes(u)' <=> Writes(u)) /\ (Holding(u)' => Holding(u))
    BY <1>1, <1>3 DEF Moved, Writes, Holding, Calling
  <2>2. Holding(t) /\ ~Writes(t)
    BY <1>1 DEF Holding, Writes, Writer
  <2>3. <<t, "call">> \in mLock.readers
    BY <2>2 DEF CInv, ManagerLockInv
  <2>4. mLock.writer = NoThread
    BY <2>3 DEF CInv, ManagerLockInv
  <2>5. QED
    BY <1>2, <1>4, <2>1, <2>4 DEF CInv, ManagerLockInv
<1>6. call' \in [Thread -> Frame] /\ call'[t].pc = "leave"
      /\ \A u \in Thread \ {t} : call'[u] = call[u]
  BY <1>3 DEF Moved
<1>7. QED
  BY <1>1, <1>2, <1>4, <1>5, <1>6, ManagerOnlyKeepsInv

LEMMA LeaveKeepsInv ==
  ASSUME CInv, NEW t \in Thread, Leave(t)
  PROVE  CInv'
<1> DEFINE n == call[t].n
<1>1. /\ call[t].pc = "leave" /\ mLock' = Given(mLock, t)
      /\ node' = IF n = NoNode THEN node ELSE [node EXCEPT ![n].mLock = Given(@, t)]
      /\ call' = [call EXCEPT ![t] = NoCall] /\ UNCHANGED <<mCategories, enumerator>>
  BY DEF Leave, At
<1>2. NoCall \in Frame /\ NoCall.pc = "idle" /\ NoCall.req = Idle
  BY DEF NoCall, Frame, CallPc
<1>3. call' \in [Thread -> Frame] /\ call'[t] = NoCall /\ \A u \in Thread \ {t} : call'[u] = call[u]
  BY <1>1, <1>2 DEF CInv, TypeOK
<1>4. /\ mLock' \in RWLock
      /\ mLock'.writer = IF mLock.writer = t THEN NoThread ELSE mLock.writer
      /\ mLock'.readers = mLock.readers \ {<<t, "call">>}
  <2>1. mLock \in RWLock
    BY DEF CInv, TypeOK
  <2>2. QED
    BY <1>1, <2>1, GivenFacts
<1>5. ManagerLockInv'
  <2>1. ~Holding(t)'
    BY <1>2, <1>3 DEF Holding
  <2>2. \A u \in Thread \ {t} : (Writes(u)' <=> Writes(u)) /\ (Holding(u)' <=> Holding(u))
    BY <1>3 DEF Writes, Holding, Calling
  <2>3. \A u \in Thread : <<u, "enumerator">> # <<t, "call">>
    OBVIOUS
  <2>4. \A u \in Thread \ {t} : <<u, "call">> # <<t, "call">>
    OBVIOUS
  <2>5. QED
    BY <1>1, <1>4, <2>1, <2>2, <2>3, <2>4 DEF CInv, ManagerLockInv
<1>6. enumerator' \in [Thread -> Node \cup {Manager, NotFound}]
  BY <1>1 DEF CInv, TypeOK
<1>7. CASE n = NoNode
  <2>1. node' = node /\ mCategories' = mCategories /\ enumerator' = enumerator
    BY <1>1, <1>7
  <2>2. QED
    BY <1>2, <1>3, <1>4, <1>5, <1>6, <2>1, ManagerOnlyKeepsInv
<1>8. CASE n # NoNode
  <2> DEFINE lock == Given(node[n].mLock, t)
  <2>1. n \in Node /\ node' = [node EXCEPT ![n].mLock = lock]
    <3>1. n \in Node
      BY <1>8, FrameFacts DEF CInv
    <3>2. QED
      BY <1>1, <1>8, <3>1 DEF CInv, TypeOK
  <2>2. /\ lock \in RWLock
        /\ lock.writer = IF node[n].mLock.writer = t THEN NoThread ELSE node[n].mLock.writer
        /\ lock.readers = node[n].mLock.readers \ {<<t, "call">>}
    <3>1. node[n].mLock \in RWLock
      BY <2>1, NodeFacts DEF CInv
    <3>2. QED
      BY <3>1, GivenFacts
  <2>3. Relocked(n, lock)
    BY <2>1, <2>2, NodeFacts DEF CInv
  <2>4. lock.writer # NoThread => lock.readers = {}
    BY <2>1, <2>2 DEF CInv, NodeLocksInv
  <2>5. \A u \in Thread : enumerator'[u] = n =>
          node[n].live /\ <<u, "enumerator">> \in lock.readers
    BY <1>1, <2>1, <2>2 DEF CInv, NodeLocksInv
  <2>6. call'[t].pc = "idle" /\ mCategories' = mCategories /\ enumerator' = enumerator
    BY <1>1, <1>2, <1>3
  <2>7. \A u \in Thread \ {t} : node[n].mLock.writer = u => lock.writer = u
    BY <2>2
  <2>8. QED
    BY <1>3, <1>4, <1>5, <1>6, <2>1, <2>3, <2>4, <2>5, <2>6, <2>7, RelockKeepsInv
<1>9. QED
  BY <1>7, <1>8

LEMMA ReleaseEnumeratorKeepsInv ==
  ASSUME CInv, NEW t \in Thread, ReleaseEnumerator(t)
  PROVE  CInv'
<1> DEFINE e == enumerator[t]
<1>1. /\ call[t].pc = "idle" /\ e # NotFound /\ UNCHANGED <<mCategories, call>>
      /\ enumerator' = [enumerator EXCEPT ![t] = NotFound]
  BY DEF ReleaseEnumerator, At
<1>2. /\ enumerator' \in [Thread -> Node \cup {Manager, NotFound}] /\ enumerator'[t] = NotFound
      /\ \A u \in Thread \ {t} : enumerator'[u] = enumerator[u]
      /\ call' \in [Thread -> Frame] /\ mLock \in RWLock /\ e \in Node \cup {Manager}
      /\ NotFound # Manager /\ NotFound \notin Node
  BY <1>1, ConstantsAssumption DEF CInv, TypeOK
<1>3. \A u \in Thread \ {t} : <<u, "enumerator">> # <<t, "enumerator">>
  OBVIOUS
<1>4. \A u \in Thread : <<u, "call">> # <<t, "enumerator">>
  OBVIOUS
<1>5. \A u \in Thread : (Writes(u)' <=> Writes(u)) /\ (Holding(u)' <=> Holding(u))
  BY <1>1 DEF Writes, Holding, Calling
<1>6. CASE e = Manager
  <2>1. mLock' = Dropped(mLock, t) /\ node' = node
    BY <1>6 DEF ReleaseEnumerator
  <2>2. /\ mLock' \in RWLock /\ mLock'.writer = mLock.writer
        /\ mLock'.readers = mLock.readers \ {<<t, "enumerator">>}
    BY <1>2, <2>1, DroppedFacts
  <2>3. ManagerLockInv'
    BY <1>2, <1>3, <1>4, <1>5, <2>2 DEF CInv, ManagerLockInv
  <2>4. \A u \in Thread : enumerator'[u] \in {enumerator[u], Manager, NotFound}
    BY <1>2
  <2>5. QED
    BY <1>1, <1>2, <2>1, <2>2, <2>3, <2>4, ManagerOnlyKeepsInv
<1>7. CASE e # Manager
  <2> DEFINE lock == Dropped(node[e].mLock, t)
  <2>1. e \in Node /\ mLock' = mLock /\ node' = [node EXCEPT ![e].mLock = lock]
    <3>1. e \in Node
      BY <1>2, <1>7
    <3>2. QED
      BY <1>7, <3>1 DEF ReleaseEnumerator, CInv, TypeOK
  <2>2. /\ lock \in RWLock /\ lock.writer = node[e].mLock.writer
        /\ lock.readers = node[e].mLock.readers \ {<<t, "enumerator">>}
    <3>1. node[e].mLock \in RWLock
      BY <2>1, NodeFacts DEF CInv
    <3>2. QED
      BY <3>1, DroppedFacts
  <2>3. Relocked(e, lock)
    BY <2>1, <2>2, NodeFacts DEF CInv
  <2>4. ManagerLockInv'
    <3>1. \A u \in Thread : enumerator'[u] = Manager => enumerator[u] = Manager
      BY <1>2
    <3>2. QED
      BY <1>5, <2>1, <3>1 DEF CInv, ManagerLockInv
  <2>5. lock.writer # NoThread => lock.readers = {}
    BY <2>1, <2>2 DEF CInv, NodeLocksInv
  <2>6. \A u \in Thread : enumerator'[u] = e =>
          node[e].live /\ <<u, "enumerator">> \in lock.readers
    <3>1. ASSUME NEW u \in Thread, enumerator'[u] = e
          PROVE  u # t /\ node[e].live /\ <<u, "enumerator">> \in node[e].mLock.readers
      BY <1>1, <1>2, <2>1, <3>1 DEF CInv, NodeLocksInv
    <3>2. QED
      BY <1>3, <2>2, <3>1
  <2>7. \A u \in Thread : enumerator'[u] # e => enumerator'[u] \in {enumerator[u], NotFound}
    BY <1>2
  <2>8. /\ call'[t].pc = "idle" /\ mCategories' = mCategories /\ mLock' \in RWLock
        /\ \A u \in Thread \ {t} : call'[u] = call[u]
    BY <1>1, <1>2, <2>1
  <2>9. \A u \in Thread \ {t} : node[e].mLock.writer = u => lock.writer = u
    BY <2>2
  <2>10. QED
    BY <1>2, <2>1, <2>3, <2>4, <2>5, <2>6, <2>7, <2>8, <2>9, RelockKeepsInv
<1>8. QED
  BY <1>6, <1>7

-----------------------------------------------------------------------------
LEMMA InitCInv ==
  ASSUME Init
  PROVE  CInv
<1>1. NoCall \in Frame /\ NoCall.pc = "idle" /\ NoCall.req = Idle
  BY DEF NoCall, Frame, CallPc
<1>2. Unheld \in RWLock /\ Unheld.writer = NoThread /\ Unheld.readers = {}
  BY DEF Unheld, RWLock
<1>3. /\ [NewNode EXCEPT !.live = FALSE] \in NodeRecord
      /\ [NewNode EXCEPT !.live = FALSE].mLock = Unheld
  <2>1. NewNode \in NodeRecord /\ NewNode.mLock = Unheld
    BY <1>2 DEF NewNode, NodeRecord, Table!MaybeLeaf
  <2>2. QED
    BY <2>1 DEF NodeRecord
<1>4. \A t \in Thread : call[t] = NoCall /\ enumerator[t] = NotFound
  BY DEF Init
<1>5. TypeOK
  BY <1>1, <1>2, <1>3 DEF Init, TypeOK, NodeRecord
<1>6. ManagerLockInv
  BY <1>1, <1>2, <1>4, ConstantsAssumption DEF Init, ManagerLockInv, Holding
<1>7. NodeLocksInv
  BY <1>1, <1>2, <1>3, <1>4, ConstantsAssumption DEF Init, NodeLocksInv
<1>8. CategoriesInv /\ FoundInv
  BY <1>1, <1>4 DEF Init, CategoriesInv, FoundInv, Fits
<1>9. QED
  BY <1>5, <1>6, <1>7, <1>8 DEF CInv

LEMMA NextKeepsCInv ==
  ASSUME CInv, [Next]_vars
  PROVE  CInv'
<1>1. ASSUME NEW t \in Thread, CallStep(t)
      PROVE  CInv'
  BY <1>1, EnterManagerKeepsInv, LookUpEntryKeepsInv, CopyValueKeepsInv, FindToAddKeepsInv,
     CreateKeepsInv, FindCategoryKeepsInv, EnterNodeKeepsInv, AddEntryKeepsInv,
     InsertLeafKeepsInv, SetLeafKeepsInv, RemoveEntryKeepsInv, ClearWaitsKeepsInv,
     DeleteNodeKeepsInv, TakeIteratorsKeepsInv, EnumerateNodeKeepsInv, EnumerateManagerKeepsInv,
     LeaveKeepsInv DEF CallStep
<1>2. ASSUME UNCHANGED vars
      PROVE  CInv'
  BY <1>2 DEF vars, CInv, TypeOK, ManagerLockInv, NodeLocksInv, CategoriesInv, FoundInv,
     Holding, Writes, Calling
<1>3. QED
  BY <1>1, <1>2, CallKeepsInv, ReleaseEnumeratorKeepsInv DEF Next

(* CInv is an inductive invariant of the category manager.                  *)
THEOREM Invariance == Spec => []CInv
<1>1. Init => CInv
  BY InitCInv
<1>2. CInv /\ [Next]_vars => CInv'
  BY NextKeepsCInv
<1>3. QED
  BY <1>1, <1>2, PTL DEF Spec

(* The tables, the nodes, their locks and the calls keep their types; a     *)
(* call that is at a node has the address of one.                           *)
THEOREM TypeCorrect == Spec => []TypeOK
<1>1. CInv => TypeOK
  BY DEF CInv
<1>2. QED
  BY <1>1, Invariance, PTL

-----------------------------------------------------------------------------
(* What an enumerator enumerates.                                           *)
Untouched ==
  /\ mCategories' = mCategories \/ \A u \in Thread : enumerator[u] # Manager
  /\ \A m \in Node : node'[m].mEntries = node[m].mEntries \/ \A u \in Thread : enumerator[u] # m

LEMMA StepsLeaveEnumerated ==
  ASSUME CInv, NEW t \in Thread, CallStep(t) \/ ReleaseEnumerator(t)
  PROVE  Untouched
<1>1. node \in [Node -> NodeRecord] /\ \A n \in Node : node[n] \in NodeRecord
  BY DEF CInv, TypeOK, NodeRecord
<1>2. ASSUME node' = node, mCategories' = mCategories
      PROVE  Untouched
  BY <1>2 DEF Untouched
<1>3. ASSUME NEW n, NEW lock, node' = [node EXCEPT ![n].mLock = lock], mCategories' = mCategories
      PROVE  Untouched
  BY <1>1, <1>3 DEF Untouched, NodeRecord
<1>4. ASSUME NEW new, node' = [node EXCEPT ![call[t].n] = new], mCategories' = mCategories,
             call[t].pc \in Inside
      PROVE  Untouched
  BY <1>1, <1>4, AloneInNode DEF Untouched
<1>5. ASSUME NEW x, NEW leaf, node' = [node EXCEPT ![call[t].n].mEntries[x] = leaf],
             mCategories' = mCategories, call[t].pc \in Inside
      PROVE  Untouched
  <2> DEFINE new == [node[call[t].n] EXCEPT !.mEntries[x] = leaf]
  <2>1. node' = [node EXCEPT ![call[t].n] = new]
    BY <1>5
  <2>2. QED
    BY <1>4, <1>5, <2>1
<1>6. CASE Create(t)
  <2>1. PICK n \in Node : ~node[n].live /\ node' = [node EXCEPT ![n] = NewNode]
    BY <1>6 DEF Create
  <2>2. Holding(t) /\ Writes(t)
    BY <1>6, FrameFacts DEF Create, At, Holding, Writes, Writer, CInv, FoundInv, Fits
  <2>3. \A u \in Thread : enumerator[u] # Manager
    BY <2>2, AloneInManager
  <2>4. ASSUME NEW u \in Thread, enumerator[u] = n
        PROVE  FALSE
    <3>1. enumerator[u] \in Node => node[enumerator[u]].live
      BY DEF CInv, NodeLocksInv
    <3>2. QED
      BY <2>1, <2>4, <3>1
  <2>5. \A m \in Node \ {n} : node'[m] = node[m]
    BY <1>1, <2>1
  <2>6. QED
    BY <2>3, <2>4, <2>5 DEF Untouched
<1>7. CASE DeleteNode(t)
  <2>1. /\ call[t].pc = "inside" /\ Holding(t) /\ Writes(t)
        /\ node' = [node EXCEPT ![call[t].n] = [NewNode EXCEPT !.live = FALSE]]
    BY <1>7 DEF DeleteNode, At, Holding, Writes, Writer, Calling
  <2>2. \A u \in Thread : enumerator[u] # Manager
    BY <2>1, AloneInManager
  <2>3. \A u \in Thread : enumerator[u] # call[t].n
    BY <2>1, AloneInNode
  <2>4. \A m \in Node \ {call[t].n} : node'[m] = node[m]
    BY <1>1, <2>1
  <2>5. QED
    BY <2>2, <2>3, <2>4 DEF Untouched
<1>8. CASE EnterNode(t) \/ EnumerateNode(t)
  BY <1>3, <1>8 DEF EnterNode, EnumerateNode
<1>9. CASE Leave(t)
  BY <1>2, <1>3, <1>9 DEF Leave
<1>10. CASE ReleaseEnumerator(t)
  BY <1>2, <1>3, <1>10 DEF ReleaseEnumerator
<1>11. CASE InsertLeaf(t) \/ SetLeaf(t) \/ RemoveEntry(t)
  <2>1. CASE InsertLeaf(t)
    BY <1>5, <2>1 DEF InsertLeaf, At
  <2>2. CASE SetLeaf(t)
    <3>1. PICK leaf : node' = [node EXCEPT ![call[t].n].mEntries[call[t].req.name] = leaf]
      BY <2>2 DEF SetLeaf
    <3>2. call[t].pc = "set" /\ mCategories' = mCategories
      BY <2>2 DEF SetLeaf, At
    <3>3. QED
      BY <1>5, <3>1, <3>2
  <2>3. CASE RemoveEntry(t)
    <3>1. PICK leaf : node' = [node EXCEPT ![call[t].n].mEntries[call[t].req.name] = leaf]
      BY <2>3 DEF RemoveEntry
    <3>2. call[t].pc = "inside" /\ mCategories' = mCategories
      BY <2>3 DEF RemoveEntry, At
    <3>3. QED
      BY <1>5, <3>1, <3>2
  <2>4. QED
    BY <1>11, <2>1, <2>2, <2>3
<1>12. CASE EnterManager(t) \/ LookUpEntry(t) \/ CopyValue(t) \/ FindToAdd(t)
            \/ FindCategory(t)
  BY <1>2, <1>12 DEF EnterManager, LookUpEntry, CopyValue, FindToAdd, FindCategory
<1>13. CASE AddEntry(t) \/ ClearWaits(t) \/ TakeIterators(t) \/ EnumerateManager(t)
  BY <1>2, <1>13 DEF AddEntry, ClearWaits, TakeIterators, EnumerateManager
<1>14. QED
  BY <1>6, <1>7, <1>8, <1>9, <1>10, <1>11, <1>12, <1>13 DEF CallStep

(* Between its iterators and its lock an enumerator has the manager's lock, *)
(* which keeps everybody off the category but the additions under way.      *)
LEMMA BegunFacts ==
  ASSUME CInv, NEW t \in Thread, call[t].pc = "begun"
  PROVE  /\ call[t].n \in Node /\ node[call[t].n].live
         /\ \A u \in Thread : ~(Holding(u) /\ Writes(u))
<1>1. /\ call[t].n \in Node /\ call[t].req \in Table!Request
      /\ call[t].req.op = "EnumerateCategory" /\ call[t].req # Idle
      /\ mCategories[call[t].req.cat] = call[t].n
  BY FrameFacts DEF CInv, FoundInv, Fits
<1>2. node[call[t].n].live
  BY <1>1, RequestFacts, ConstantsAssumption DEF CInv, CategoriesInv
<1>3. Holding(t) /\ ~Writes(t)
  BY <1>1 DEF Holding, Calling, Writes, Writer
<1>4. mLock.writer = NoThread
  <2>1. <<t, "call">> \in mLock.readers
    BY <1>3 DEF CInv, ManagerLockInv
  <2>2. QED
    BY <2>1 DEF CInv, ManagerLockInv
<1>5. QED
  BY <1>1, <1>2, <1>4, ConstantsAssumption DEF CInv, ManagerLockInv

Grown(n) ==
  \E x, leaf : leaf # NoLeaf /\ node'[n].mEntries = [node[n].mEntries EXCEPT ![x] = leaf]

LEMMA BegunTable ==
  ASSUME CInv, NEW t \in Thread, call[t].pc = "begun", NEW n, n = call[t].n,
         NEW u \in Thread, CallStep(u) \/ ReleaseEnumerator(u)
  PROVE  node'[n].mEntries = node[n].mEntries \/ (u \in Adders(n) /\ Grown(n))
<1>1. node \in [Node -> NodeRecord] /\ node[n] \in NodeRecord /\ n \in Node
  BY BegunFacts DEF CInv, TypeOK, NodeRecord
<1>2. ASSUME NEW m, NEW lock, node' = [node EXCEPT ![m].mLock = lock]
      PROVE  node'[n].mEntries = node[n].mEntries
  BY <1>1, <1>2 DEF NodeRecord
<1>3. CASE Create(u) \/ RemoveEntry(u) \/ DeleteNode(u)
  <2>1. Holding(u) /\ Writes(u)
    <3>1. CASE Create(u)
      <4>1. call[u].pc = "create" /\ call[u].req # Idle
        BY <3>1, FrameFacts DEF Create, At, CInv
      <4>2. call[u].req.op = "AddCategoryEntry"
        BY <4>1 DEF CInv, FoundInv, Fits
      <4>3. QED
        BY <4>1, <4>2 DEF Holding, Writes, Writer
    <3>2. CASE RemoveEntry(u) \/ DeleteNode(u)
      <4>1. /\ call[u].pc = "inside" /\ call[u].req # Idle
            /\ call[u].req.op \in {"DeleteCategoryEntry", "DeleteCategory"}
        <5>1. CASE RemoveEntry(u)
          BY <5>1 DEF RemoveEntry, At, Calling
        <5>2. CASE DeleteNode(u)
          BY <5>2 DEF DeleteNode, At, Calling
        <5>3. QED
          BY <3>2, <5>1, <5>2
      <4>2. QED
        BY <4>1 DEF Holding, Writes, Writer, Calling
    <3>3. QED
      BY <1>3, <3>1, <3>2
  <2>2. QED
    BY <2>1, BegunFacts
<1>4. ASSUME NEW leaf, leaf # NoLeaf, call[u].pc \in {"insert", "set"},
             node' = [node EXCEPT ![call[u].n].mEntries[call[u].req.name] = leaf]
      PROVE  node'[n].mEntries = node[n].mEntries \/ (u \in Adders(n) /\ Grown(n))
  <2>1. CASE call[u].n # n
    BY <1>1, <1>4, <2>1
  <2>2. CASE call[u].n = n
    <3>1. Grown(n)
      BY <1>1, <1>4, <2>2 DEF Grown, NodeRecord
    <3>2. Calling(u, "AddCategoryEntry")
      BY <1>4, FrameFacts DEF Calling, CInv, FoundInv, Fits
    <3>3. QED
      BY <1>4, <2>2, <3>1, <3>2 DEF Adders
  <2>3. QED
    BY <2>1, <2>2
<1>5. CASE InsertLeaf(u)
  <2> DEFINE leaf == Table!NewLeaf(call[u].req.value, call[u].req.persist)
  <2>1. /\ call[u].pc = "insert"
        /\ node' = [node EXCEPT ![call[u].n].mEntries[call[u].req.name] = leaf]
    BY <1>5 DEF InsertLeaf, At
  <2>2. /\ call[u].req \in Table!Request /\ call[u].req.op = "AddCategoryEntry"
    BY <2>1, FrameFacts DEF CInv, FoundInv, Fits
  <2>3. leaf # NoLeaf
    BY <2>2, RequestFacts, LeafFacts, ConstantsAssumption
  <2>4. QED
    BY <1>4, <2>1, <2>3
<1>6. CASE SetLeaf(u)
  <2> DEFINE old == node[call[u].n].mEntries[call[u].req.name]
             leaf == Table!SetValue(old, call[u].req.value, call[u].req.persist)
  <2>1. call[u].pc = "set" /\ call[u].n \in Node /\ old # NoLeaf
    BY <1>6, FrameFacts DEF SetLeaf, At, CInv, FoundInv
  <2>2. /\ call[u].req \in Table!Request /\ call[u].req.op = "AddCategoryEntry"
    BY <2>1, FrameFacts DEF CInv, FoundInv, Fits
  <2>3. call[u].req.name \in Name /\ node[call[u].n].mEntries \in [Name -> Table!MaybeLeaf]
    BY <2>1, <2>2, RequestFacts, NodeFacts DEF CInv
  <2>4. old \in Table!Leaf
    BY <2>1, <2>3, LeafFacts
  <2>5. leaf # NoLeaf
    BY <2>2, <2>4, RequestFacts, LeafFacts, ConstantsAssumption
  <2>6. node' = [node EXCEPT ![call[u].n].mEntries[call[u].req.name] = leaf]
    BY <1>1, <1>6, <2>1, <2>3 DEF SetLeaf, NodeRecord
  <2>7. call[u].pc \in {"insert", "set"}
    BY <1>6 DEF SetLeaf, At
  <2> HIDE DEF leaf
  <2>8. QED
    BY <1>4, <2>5, <2>6, <2>7
<1>7. CASE EnterNode(u) \/ EnumerateNode(u) \/ Leave(u) \/ ReleaseEnumerator(u)
  BY <1>2, <1>7 DEF EnterNode, EnumerateNode, Leave, ReleaseEnumerator
<1>8. CASE EnterManager(u) \/ LookUpEntry(u) \/ CopyValue(u) \/ FindToAdd(u)
           \/ FindCategory(u)
  BY <1>8 DEF EnterManager, LookUpEntry, CopyValue, FindToAdd, FindCategory
<1>9. CASE AddEntry(u) \/ ClearWaits(u) \/ TakeIterators(u) \/ EnumerateManager(u)
  BY <1>9 DEF AddEntry, ClearWaits, TakeIterators, EnumerateManager
<1>10. QED
  BY <1>3, <1>5, <1>6, <1>7, <1>8, <1>9 DEF CallStep

(* Where a call goes.                                                       *)
LEMMA PcFacts ==
  ASSUME TypeOK, NEW t \in Thread
  PROVE  /\ \A pc : Goto(t, pc) =>
              /\ call'[t].pc = pc /\ call'[t].n = call[t].n /\ call'[t].req = call[t].req
              /\ \A u \in Thread \ {t} : call'[u] = call[u]
         /\ \A pc, n : GotoNode(t, pc, n) =>
              /\ call'[t].pc = pc /\ call'[t].n = n /\ call'[t].req = call[t].req
              /\ \A u \in Thread \ {t} : call'[u] = call[u]
         /\ \A x : Answered(t, x) =>
              /\ call'[t].pc = "leave"
              /\ \A u \in Thread \ {t} : call'[u] = call[u]
<1>1. call \in [Thread -> Frame] /\ call[t] \in Frame
  BY DEF TypeOK
<1>2. Frame \subseteq [req : Table!Request \cup {Idle}, pc : CallPc, n : Node \cup {NoNode},
                      answer : Value \cup {Empty, NoLeaf, Torn}]
  BY DEF Frame
<1>3. QED
  BY <1>1, <1>2 DEF Goto, GotoNode, Answered

LEMMA BegunAdders ==
  ASSUME CInv, NEW t \in Thread, call[t].pc = "begun", NEW n, NEW u \in Thread,
         CallStep(u) \/ ReleaseEnumerator(u) \/ \E req \in Table!Request : Call(u, req)
  PROVE  Adders(n)' \subseteq Adders(n)
<1> DEFINE Adding(pc) == pc \in {"node", "inside", "insert", "set"}
<1>1. SUFFICES /\ \A v \in Thread \ {u} : call'[v] = call[v]
               /\ Adding(call'[u].pc) /\ Calling(u, "AddCategoryEntry")' =>
                    /\ Adding(call[u].pc) /\ call'[u].n = call[u].n
                    /\ call'[u].req = call[u].req
  BY DEF Adders, Calling
<1>2. CASE EnterManager(u) \/ CopyValue(u) \/ InsertLeaf(u) \/ SetLeaf(u) \/ RemoveEntry(u)
  <2>1. CASE EnterManager(u)
    BY <2>1, PcFacts DEF EnterManager, CInv
  <2>2. CASE CopyValue(u)
    BY <2>2, PcFacts DEF CopyValue, CInv
  <2>3. CASE InsertLeaf(u)
    BY <2>3, PcFacts DEF InsertLeaf, CInv
  <2>4. CASE SetLeaf(u)
    BY <2>4, PcFacts DEF SetLeaf, CInv
  <2>5. CASE RemoveEntry(u)
    BY <2>5, PcFacts DEF RemoveEntry, CInv
  <2>6. QED
    BY <1>2, <2>1, <2>2, <2>3, <2>4, <2>5
<1>3. CASE LookUpEntry(u) \/ ClearWaits(u) \/ DeleteNode(u) \/ TakeIterators(u)
           \/ EnumerateNode(u) \/ EnumerateManager(u)
  BY <1>3, PcFacts DEF LookUpEntry, ClearWaits, DeleteNode, TakeIterators, EnumerateNode,
     EnumerateManager, CInv
<1>4. CASE EnterNode(u) \/ AddEntry(u)
  BY <1>4, PcFacts DEF EnterNode, AddEntry, At, CInv
<1>5. CASE FindCategory(u)
  BY <1>5, PcFacts DEF FindCategory, Calling, CInv
<1>6. CASE FindToAdd(u) \/ Create(u)
  <2>1. Holding(u) /\ Writes(u)
    BY <1>6, FrameFacts DEF FindToAdd, Create, At, Holding, Writes, Writer, Calling, CInv,
       FoundInv, Fits
  <2>2. QED
    BY <2>1, BegunFacts
<1>7. CASE Leave(u)
  BY <1>7 DEF Leave, NoCall, CInv, TypeOK
<1>8. CASE ReleaseEnumerator(u)
  BY <1>8 DEF ReleaseEnumerator
<1>9. CASE \E req \in Table!Request : Call(u, req)
  <2>1. PICK req \in Table!Request : Call(u, req)
    BY <1>9
  <2>2. call'[u].pc = "manager" /\ \A v \in Thread \ {u} : call'[v] = call[v]
    BY <2>1 DEF Call, NoCall, CInv, TypeOK
  <2>3. QED
    BY <2>2
<1>10. QED
  BY <1>2, <1>3, <1>4, <1>5, <1>6, <1>7, <1>8, <1>9 DEF CallStep

BegunLive == \A t \in Thread : call[t].pc = "begun" => node[call[t].n].live

(* From the time an enumerator's iterators are taken, its category stays    *)
(* and no entry goes; none comes either, but from an addition that is       *)
(* already under way, and with the lock not even from that. For an          *)
(* enumerator of the categories, none comes or goes (the iterators, the     *)
(* manager's lock and the one the enumerator keeps, cciCategoryManager.cpp: *)
(* 63, 178, 421-425).                                                       *)
THEOREM EnumeratedIsStable == Spec => EnumerationStable
<1> DEFINE Quiet ==
      \A t \in Thread :
        /\ \A n \in Node : Iterates(t, n) /\ Iterates(t, n)' => Undisturbed(t, n)
        /\ enumerator[t] = Manager /\ enumerator'[t] = Manager =>
             mCategories' = mCategories
<1>1. CInv => BegunLive
  BY BegunFacts DEF BegunLive
<1>2. CInv' => BegunLive'
  BY <1>1, PTL
<1>3. ASSUME CInv, CInv', BegunLive', Next
      PROVE  Quiet
  <2>1. PICK u \in Thread :
          (\E req \in Table!Request : Call(u, req)) \/ CallStep(u) \/ ReleaseEnumerator(u)
    BY <1>3 DEF Next
  <2>2. Untouched
    <3>1. CASE \E req \in Table!Request : Call(u, req)
      BY <3>1 DEF Call, Untouched
    <3>2. CASE CallStep(u) \/ ReleaseEnumerator(u)
      BY <1>3, <3>2, StepsLeaveEnumerated
    <3>3. QED
      BY <2>1, <3>1, <3>2
  <2>3. ASSUME NEW t \in Thread, NEW n \in Node, Iterates(t, n), Iterates(t, n)'
        PROVE  Undisturbed(t, n)
    <3>1. node'[n].live
      <4>1. CASE enumerator'[t] = n
        BY <1>3, <4>1 DEF CInv, NodeLocksInv
      <4>2. CASE call'[t].pc = "begun" /\ call'[t].n = n
        BY <1>3, <4>2 DEF BegunLive
      <4>3. QED
        BY <2>3, <4>1, <4>2 DEF Iterates, At
    <3>2. \/ node'[n].mEntries = node[n].mEntries
          \/ enumerator[t] # n /\ Adders(n) # {} /\ Grown(n)
      <4>1. CASE enumerator[t] = n
        BY <2>2, <4>1 DEF Untouched
      <4>2. CASE enumerator[t] # n
        <5>1. call[t].pc = "begun" /\ n = call[t].n
          BY <2>3, <4>2 DEF Iterates, At
        <5>2. CASE \E req \in Table!Request : Call(u, req)
          BY <5>2 DEF Call
        <5>3. CASE CallStep(u) \/ ReleaseEnumerator(u)
          BY <1>3, <4>2, <5>1, <5>3, BegunTable
        <5>4. QED
          BY <2>1, <5>2, <5>3
      <4>3. QED
        BY <4>1, <4>2
    <3>3. Listed(n) \subseteq Listed(n)'
      <4>1. CASE node'[n].mEntries = node[n].mEntries
        BY <4>1 DEF Listed
      <4>2. CASE Grown(n)
        <5>1. node[n].mEntries \in [Name -> Table!MaybeLeaf]
          BY <1>3, NodeFacts DEF CInv
        <5>2. QED
          BY <4>2, <5>1 DEF Grown, Listed
      <4>3. QED
        BY <3>2, <4>1, <4>2
    <3>4. At(t, "begun") => Adders(n)' \subseteq Adders(n)
      BY <1>3, <2>1, BegunAdders DEF At
    <3>5. QED
      BY <3>1, <3>2, <3>3, <3>4 DEF Undisturbed
  <2>4. ASSUME NEW t \in Thread, enumerator[t] = Manager
        PROVE  mCategories' = mCategories
    BY <2>2, <2>4 DEF Untouched
  <2>5. QED
    BY <2>3, <2>4
<1>4. CInv /\ CInv' /\ [Next]_vars => [Quiet]_vars
  BY <1>2, <1>3
<1>5. QED
  BY <1>4, Invariance, PTL DEF Spec, EnumerationStable

-----------------------------------------------------------------------------
(* The calls are atomic. Between the two locks of AddCategoryEntry the      *)
(* category it has found must not go: this is what DeletersWait says.       *)
AddInv ==
  /\ \A t, u \in Thread : ~(Calling(t, "AddCategoryEntry") /\ Calling(u, "DeleteCategory"))
  /\ \A t \in Thread : call[t].pc \in InNode =>
       mCategories[call[t].req.cat] = call[t].n

AInv == CInv /\ AddInv

(* The variables of CategoryTable.                                          *)
TableNow == [c \in Category |-> EntriesOf(mCategories[c])]
PendingNow ==
  [t \in Thread |-> IF call[t].pc = "leave" THEN [answer |-> call[t].answer] ELSE call[t].req]

Simulated(t) ==
  \/ TableNow' = TableNow /\ PendingNow' = PendingNow
  \/ Table!TakeEffect(t)
  \/ Table!Return(t)

LEMMA EntriesKept ==
  ASSUME TypeOK, mCategories' = mCategories,
         \A m \in Node : node'[m].mEntries = node[m].mEntries
  PROVE  TableNow' = TableNow
<1>1. \A c \in Category : mCategories[c] \in Node \cup {NoNode}
  BY DEF TypeOK
<1>2. \A c \in Category : EntriesOf(mCategories[c])' = EntriesOf(mCategories[c])
  BY <1>1 DEF EntriesOf
<1>3. QED
  BY <1>2 DEF TableNow

LEMMA StutterStep ==
  ASSUME NEW t \in Thread, NEW pc, NEW n, NEW x, Moved(t, pc, n, x),
         call[t].pc # "leave", pc # "leave", TableNow' = TableNow
  PROVE  Simulated(t)
<1>1. PendingNow' = PendingNow
  BY DEF PendingNow, Moved
<1>2. QED
  BY <1>1 DEF Simulated

(* t takes effect on the entries of its category, and on nothing else.      *)
LEMMA EffectStep ==
  ASSUME NEW t \in Thread, NEW n, NEW x, Moved(t, "leave", n, x),
         call[t].pc # "leave", call[t].req \in Table!Request,
         x = IF call[t].req.op = "GetCategoryEntry"
                  /\ TableNow[call[t].req.cat][call[t].req.name] # NoLeaf
               THEN TableNow[call[t].req.cat][call[t].req.name].mValue
               ELSE NoLeaf,
         TableNow' = IF call[t].req.op = "EnumerateCategories" THEN TableNow
                     ELSE [TableNow EXCEPT ![call[t].req.cat] =
                             Table!After(TableNow[call[t].req.cat], call[t].req)]
  PROVE  Simulated(t)
<1>1. PendingNow[t] = call[t].req
  BY DEF PendingNow
<1>2. PendingNow' = [PendingNow EXCEPT ![t] = [answer |-> x]]
  BY DEF PendingNow, Moved
<1>3. /\ PendingNow[t] \in Table!Request
      /\ TableNow' = IF PendingNow[t].op = "EnumerateCategories" THEN TableNow
                     ELSE [TableNow EXCEPT ![PendingNow[t].cat] =
                             Table!After(TableNow[PendingNow[t].cat], PendingNow[t])]
      /\ PendingNow' = [PendingNow EXCEPT ![t] =
           [answer |-> IF PendingNow[t].op = "GetCategoryEntry"
                            /\ TableNow[PendingNow[t].cat][PendingNow[t].name] # NoLeaf
                         THEN TableNow[PendingNow[t].cat][PendingNow[t].name].mValue
                         ELSE NoLeaf]]
  BY <1>1, <1>2
<1>4. Table!TakeEffect(t)
  BY <1>3 DEF Table!TakeEffect, Table!Answer, TableNow, PendingNow
<1>5. QED
  BY <1>4 DEF Simulated

(* A look-up reads the entries while u adds one to the same category.       *)
LEMMA TornStep ==
  ASSUME NEW t \in Thread, NEW n, Moved(t, "leave", n, Torn),
         call[t].pc # "leave", call[t].req \in Table!Request,
         call[t].req.op = "GetCategoryEntry",
         NEW u \in Thread, call[u].pc # "leave", call[u].req \in Table!Request,
         call[u].req.op = "AddCategoryEntry", call[u].req.cat = call[t].req.cat,
         TableNow' = [TableNow EXCEPT ![call[t].req.cat] = TableNow[call[t].req.cat]]
  PROVE  Simulated(t)
<1>1. PendingNow[t] = call[t].req /\ PendingNow[u] = call[u].req
  BY DEF PendingNow
<1>2. PendingNow' = [PendingNow EXCEPT ![t] = [answer |-> Torn]]
  BY DEF PendingNow, Moved
<1>3. TableNow' = IF PendingNow[t].op = "EnumerateCategories" THEN TableNow
                  ELSE [TableNow EXCEPT ![PendingNow[t].cat] =
                          Table!After(TableNow[PendingNow[t].cat], PendingNow[t])]
  BY <1>1 DEF Table!After
<1>4. /\ PendingNow[t].op = "GetCategoryEntry"
      /\ PendingNow[u] \in Table!Request /\ PendingNow[u].op = "AddCategoryEntry"
      /\ PendingNow[u].cat = PendingNow[t].cat /\ PendingNow[t] \in Table!Request
  BY <1>1
<1>5. Table!MayBeTorn(t)
  BY <1>4 DEF Table!MayBeTorn, PendingNow
<1>6. Table!TakeEffect(t)
  BY <1>2, <1>3, <1>4, <1>5 DEF Table!TakeEffect, TableNow, PendingNow
<1>7. QED
  BY <1>6 DEF Simulated

LEMMA AddKeeps ==
  ASSUME AddInv, NEW t \in Thread, \A u \in Thread \ {t} : call'[u] = call[u],
         call'[t].req = call[t].req \/ call'[t].req = Idle,
         call'[t].pc \in InNode =>
           mCategories'[call'[t].req.cat] = call'[t].n,
         \A u \in Thread \ {t} : call[u].pc \in InNode =>
           mCategories'[call[u].req.cat] = mCategories[call[u].req.cat]
  PROVE  AddInv'
<1>1. ASSUME NEW u \in Thread, NEW op, Calling(u, op)'
      PROVE  Calling(u, op)
  BY <1>1 DEF Calling
<1>2. \A u, v \in Thread : ~(Calling(u, "AddCategoryEntry")' /\ Calling(v, "DeleteCategory")')
  BY <1>1 DEF AddInv
<1>3. \A u \in Thread : call'[u].pc \in InNode =>
        mCategories'[call'[u].req.cat] = call'[u].n
  BY DEF AddInv
<1>4. QED
  BY <1>2, <1>3 DEF AddInv

LEMMA TableFacts ==
  ASSUME TypeOK, NEW c \in Category
  PROVE  /\ TableNow[c] = EntriesOf(mCategories[c]) /\ TableNow[c] \in [Name -> Table!MaybeLeaf]
         /\ mCategories[c] = NoNode => TableNow[c] = [x \in Name |-> NoLeaf]
         /\ mCategories[c] # NoNode => TableNow[c] = node[mCategories[c]].mEntries
         /\ [TableNow EXCEPT ![c] = TableNow[c]] = TableNow
<1>1. TableNow[c] = EntriesOf(mCategories[c])
  BY DEF TableNow
<1>2. mCategories[c] = NoNode => TableNow[c] = [x \in Name |-> NoLeaf]
  BY <1>1 DEF EntriesOf
<1>3. mCategories[c] # NoNode => TableNow[c] = node[mCategories[c]].mEntries
  BY <1>1 DEF EntriesOf
<1>4. TableNow[c] \in [Name -> Table!MaybeLeaf]
  <2>1. CASE mCategories[c] = NoNode
    BY <1>2, <2>1, LeafFacts
  <2>2. CASE mCategories[c] # NoNode
    <3>1. mCategories[c] \in Node
      BY <2>2 DEF TypeOK
    <3>2. QED
      BY <1>3, <2>2, <3>1, NodeFacts
  <2>3. QED
    BY <2>1, <2>2
<1>5. [TableNow EXCEPT ![c] = TableNow[c]] = TableNow
  BY DEF TableNow
<1>6. QED
  BY <1>1, <1>2, <1>3, <1>4, <1>5

(* The entries of one category change.                                      *)
LEMMA OneCategory ==
  ASSUME NEW c \in Category, NEW entries, EntriesOf(mCategories[c])' = entries,
         \A d \in Category \ {c} : EntriesOf(mCategories[d])' = EntriesOf(mCategories[d])
  PROVE  TableNow' = [TableNow EXCEPT ![c] = entries]
  BY DEF TableNow

LEMMA RewrittenTable ==
  ASSUME CInv, NEW c \in Category, mCategories[c] \in Node, NEW x, NEW leaf,
         Rewritten(mCategories[c], x, leaf), mCategories' = mCategories
  PROVE  TableNow' = [TableNow EXCEPT ![c] = [TableNow[c] EXCEPT ![x] = leaf]]
<1>1. mCategories[c] # NoNode
  BY ConstantsAssumption
<1>2. EntriesOf(mCategories[c])' = [TableNow[c] EXCEPT ![x] = leaf]
  BY <1>1, TableFacts DEF CInv, EntriesOf, Rewritten
<1>3. ASSUME NEW d \in Category \ {c}
      PROVE  EntriesOf(mCategories[d])' = EntriesOf(mCategories[d])
  <2>1. CASE mCategories[d] = NoNode
    BY <2>1 DEF EntriesOf
  <2>2. CASE mCategories[d] # NoNode
    <3>1. mCategories[d] \in Node /\ mCategories[d] # mCategories[c]
      BY <2>2 DEF CInv, TypeOK, CategoriesInv
    <3>2. QED
      BY <2>2, <3>1 DEF EntriesOf, Rewritten
  <2>3. QED
    BY <2>1, <2>2
<1>4. QED
  BY <1>2, <1>3, OneCategory

(* One action at a time.                                                    *)
LEMMA WaitingSimulates ==
  ASSUME AInv, NEW t \in Thread, EnterManager(t) \/ TakeIterators(t) \/ ClearWaits(t)
  PROVE  AddInv' /\ Simulated(t)
<1>1. call[t].req # Idle /\ UNCHANGED <<mCategories, node>>
  BY FrameFacts DEF EnterManager, TakeIterators, ClearWaits, At, Calling, AInv, CInv
<1>2. TableNow' = TableNow
  BY <1>1, EntriesKept DEF AInv, CInv
<1>3. PICK pc \in {"find", "begun", "clear"} :
        /\ Moved(t, pc, call[t].n, call[t].answer) /\ call[t].pc # "leave"
        /\ pc = "find" \/ (call[t].pc \in InNode /\ mCategories[call[t].req.cat] = call[t].n)
  <2>1. CASE EnterManager(t)
    <3>1. Goto(t, "find") /\ call[t].pc = "manager"
      BY <2>1 DEF EnterManager, At
    <3>2. QED
      BY <1>1, <3>1, MoveFacts DEF AInv, CInv, CallPc
  <2>2. CASE TakeIterators(t)
    <3>1. Goto(t, "begun") /\ call[t].pc = "node"
      BY <2>2 DEF TakeIterators, At
    <3>2. call[t].n \in Node /\ mCategories[call[t].req.cat] = call[t].n
      BY <3>1, FrameFacts DEF AInv, AddInv, CInv
    <3>3. QED
      BY <1>1, <3>1, <3>2, MoveFacts DEF AInv, CInv, CallPc
  <2>3. CASE ClearWaits(t)
    <3>1. Goto(t, "clear") /\ call[t].pc = "inside"
      BY <2>3 DEF ClearWaits, At
    <3>2. call[t].n \in Node /\ mCategories[call[t].req.cat] = call[t].n
      BY <3>1, FrameFacts DEF AInv, AddInv, CInv
    <3>3. QED
      BY <1>1, <3>1, <3>2, MoveFacts DEF AInv, CInv, CallPc
  <2>4. QED
    BY <2>1, <2>2, <2>3
<1>4. AddInv'
  BY <1>1, <1>3, AddKeeps DEF AInv, Moved
<1>5. QED
  BY <1>2, <1>3, <1>4, StutterStep

(* Another thread at the node of a look-up is adding to the same category.  *)
LEMMA SameCategory ==
  ASSUME AInv, NEW t \in Thread, NEW u \in Thread, call[u].pc \in {"insert", "set"},
         call[t].req.cat \in Category, call[u].n = mCategories[call[t].req.cat]
  PROVE  /\ call[u].req \in Table!Request /\ call[u].req.op = "AddCategoryEntry"
         /\ call[u].req.cat = call[t].req.cat
<1>1. /\ call[u].req \in Table!Request /\ call[u].req.op = "AddCategoryEntry"
      /\ call[u].n \in Node
  BY FrameFacts DEF AInv, CInv, FoundInv, Fits
<1>2. call[u].req.cat \in Category /\ mCategories[call[u].req.cat] = call[u].n
  BY <1>1, RequestFacts DEF AInv, AddInv
<1>3. QED
  BY <1>1, <1>2, ConstantsAssumption DEF AInv, CInv, CategoriesInv

LEMMA LookingSimulates ==
  ASSUME AInv, NEW t \in Thread, LookUpEntry(t) \/ CopyValue(t)
  PROVE  AddInv' /\ Simulated(t)
<1> SUFFICES ASSUME NEW c, c = call[t].req.cat, NEW name, name = call[t].req.name
             PROVE  AddInv' /\ Simulated(t)
  OBVIOUS
<1>1. /\ call[t].pc \in {"find", "copy"} /\ UNCHANGED <<mCategories, node>>
      /\ call[t].req # Idle /\ call[t].req.op = "GetCategoryEntry"
  <2>1. CASE LookUpEntry(t)
    BY <2>1 DEF LookUpEntry, At, Calling
  <2>2. CASE CopyValue(t)
    <3>1. call[t].pc = "copy" /\ UNCHANGED <<mCategories, node>>
      BY <2>2 DEF CopyValue, At
    <3>2. call[t].req # Idle /\ call[t].req.op = "GetCategoryEntry"
      BY <3>1, FrameFacts DEF AInv, CInv, FoundInv, Fits
    <3>3. QED
      BY <3>1, <3>2
  <2>3. QED
    BY <2>1, <2>2
<1>2. call[t].req \in Table!Request /\ c \in Category /\ name \in Name
  BY <1>1, FrameFacts, RequestFacts DEF AInv, CInv
<1>3. TableNow' = TableNow /\ TableNow' = [TableNow EXCEPT ![c] = TableNow[c]]
  BY <1>1, <1>2, EntriesKept, TableFacts DEF AInv, CInv
<1>4. ASSUME NEW x, Moved(t, "leave", call[t].n, x)
      PROVE  AddInv'
  BY <1>1, <1>4, AddKeeps DEF AInv, Moved
<1>5. ASSUME NEW x \in Value \cup {Empty, NoLeaf}, Answered(t, x),
             x = IF TableNow[c][name] = NoLeaf THEN NoLeaf ELSE TableNow[c][name].mValue
      PROVE  AddInv' /\ Simulated(t)
  <2>1. Moved(t, "leave", call[t].n, x)
    BY <1>1, <1>5, MoveFacts DEF AInv, CInv, CallPc
  <2>2. Table!After(TableNow[c], call[t].req) = TableNow[c]
    BY <1>1 DEF Table!After
  <2>3. Simulated(t)
    BY <1>1, <1>2, <1>3, <1>5, <2>1, <2>2, EffectStep
  <2>4. QED
    BY <1>4, <2>1, <2>3
<1>6. ASSUME NEW u \in Thread, call[u].pc \in {"insert", "set"}, call[u].n = mCategories[c],
             Answered(t, Torn)
      PROVE  AddInv' /\ Simulated(t)
  <2>1. Moved(t, "leave", call[t].n, Torn)
    BY <1>1, <1>6, MoveFacts DEF AInv, CInv, CallPc
  <2>2. /\ call[u].req \in Table!Request /\ call[u].req.op = "AddCategoryEntry"
        /\ call[u].req.cat = c
    BY <1>2, <1>6, SameCategory
  <2>3. Simulated(t)
    BY <1>1, <1>2, <1>3, <1>6, <2>1, <2>2, TornStep
  <2>4. QED
    BY <1>4, <2>1, <2>3
<1>7. CASE LookUpEntry(t)
  <2>1. Found(t) = mCategories[c] /\ EntriesOf(Found(t))[name] = TableNow[c][name]
    BY <1>2, TableFacts DEF Found, AInv, CInv
  <2>2. CASE TableNow[c][name] = NoLeaf /\ Answered(t, NoLeaf)
    BY <1>5, <2>2
  <2>3. CASE TableNow[c][name] # NoLeaf /\ GotoNode(t, "copy", Found(t))
    <3>1. Found(t) \in Node
      BY <1>2, <2>1, <2>3, TableFacts DEF AInv, CInv, TypeOK
    <3>2. Moved(t, "copy", Found(t), call[t].answer)
      BY <1>1, <2>3, <3>1, MoveFacts DEF AInv, CInv, CallPc
    <3>3. AddInv'
      BY <1>1, <2>1, <3>2, AddKeeps DEF AInv, Moved
    <3>4. call[t].pc # "leave"
      BY <1>1
    <3>5. QED
      BY <1>3, <3>2, <3>3, <3>4, StutterStep
  <2>4. CASE Beside(t, "insert", Found(t)) /\ Answered(t, Torn)
    BY <1>6, <2>1, <2>4 DEF Beside, At
  <2>5. QED
    BY <1>7, <2>1, <2>2, <2>3, <2>4 DEF LookUpEntry
<1>8. CASE CopyValue(t)
  <2>1. call[t].pc = "copy"
    BY <1>8 DEF CopyValue, At
  <2>2. call[t].n \in Node /\ mCategories[c] = call[t].n
    BY <2>1, FrameFacts DEF AInv, AddInv, CInv
  <2>3. /\ TableNow[c] = node[call[t].n].mEntries
        /\ TableNow[c][name] # NoLeaf /\ TableNow[c][name] \in Table!MaybeLeaf
    BY <1>2, <2>1, <2>2, TableFacts, ConstantsAssumption DEF AInv, CInv, FoundInv
  <2>4. CASE Answered(t, node[call[t].n].mEntries[name].mValue)
    BY <1>5, <2>3, <2>4, LeafFacts
  <2>5. CASE Answered(t, Torn) /\ \E u \in Thread : call[u].pc = "set" /\ call[u].n = call[t].n
    BY <1>6, <2>2, <2>5
  <2>6. QED
    BY <1>8, <2>4, <2>5 DEF CopyValue, At
<1>9. QED
  BY <1>7, <1>8

(* A call that changes nothing takes effect as it answers.                  *)
LEMMA AnswerSimulates ==
  ASSUME AInv, NEW t \in Thread, call[t].pc # "leave", call[t].req \in Table!Request,
         call[t].req.op \in {"DeleteCategoryEntry", "DeleteCategory", "EnumerateCategory",
                             "EnumerateCategories"},
         call[t].req.op \in {"DeleteCategoryEntry", "DeleteCategory"} =>
           mCategories[call[t].req.cat] = NoNode,
         Moved(t, "leave", call[t].n, NoLeaf), TableNow' = TableNow
  PROVE  Simulated(t)
<1> DEFINE req == call[t].req
           entries == TableNow[req.cat]
<1>1. CASE req.op = "EnumerateCategories"
  BY <1>1, EffectStep
<1>2. CASE req.op # "EnumerateCategories"
  <2>1. req.cat \in Category
    BY <1>2, RequestFacts
  <2>2. [TableNow EXCEPT ![req.cat] = entries] = TableNow
    BY <2>1, TableFacts DEF AInv, CInv
  <2>3. Table!After(entries, req) = entries
    <3>1. CASE req.op = "EnumerateCategory"
      BY <3>1 DEF Table!After
    <3>2. CASE req.op = "DeleteCategory"
      <4>1. entries = [x \in Name |-> NoLeaf]
        BY <2>1, <3>2, TableFacts DEF AInv, CInv
      <4>2. QED
        BY <3>2, <4>1 DEF Table!After
    <3>3. CASE req.op = "DeleteCategoryEntry"
      <4>1. entries = [x \in Name |-> NoLeaf] /\ req.name \in Name
        BY <2>1, <3>3, TableFacts, RequestFacts DEF AInv, CInv
      <4>2. Table!Removed(entries[req.name], req.persist) = NoLeaf
        BY <4>1 DEF Table!Removed
      <4>3. [entries EXCEPT ![req.name] = NoLeaf] = entries
        BY <4>1
      <4>4. QED
        BY <3>3, <4>2, <4>3 DEF Table!After
    <3>4. QED
      BY <1>2, <3>1, <3>2, <3>3
  <2>4. QED
    BY <1>2, <2>2, <2>3, EffectStep
<1>3. QED
  BY <1>1, <1>2

LEMMA FindingSimulates ==
  ASSUME AInv, NEW t \in Thread, FindToAdd(t) \/ FindCategory(t)
  PROVE  AddInv' /\ Simulated(t)
<1>1. /\ call[t].pc = "find" /\ call[t].req # Idle /\ UNCHANGED <<mCategories, node>>
      /\ call[t].req.op \in {"AddCategoryEntry", "DeleteCategoryEntry", "DeleteCategory",
                             "EnumerateCategory"}
  BY DEF FindToAdd, FindCategory, At, Calling
<1>2. call[t].req \in Table!Request /\ call[t].req.cat \in Category
  BY <1>1, FrameFacts, RequestFacts DEF AInv, CInv
<1>3. TableNow' = TableNow
  BY <1>1, EntriesKept DEF AInv, CInv
<1>4. CASE Found(t) # NoNode
  <2>1. Found(t) \in Node /\ Found(t) = mCategories[call[t].req.cat]
    BY <1>2, <1>4 DEF Found, AInv, CInv, TypeOK
  <2>2. GotoNode(t, "node", Found(t))
    BY <1>4 DEF FindToAdd, FindCategory
  <2>3. Moved(t, "node", Found(t), call[t].answer)
    BY <1>1, <2>1, <2>2, MoveFacts DEF AInv, CInv, CallPc
  <2>4. AddInv'
    BY <1>1, <2>1, <2>3, AddKeeps DEF AInv, Moved
  <2>5. QED
    BY <1>1, <1>3, <2>3, <2>4, StutterStep
<1>5. CASE Found(t) = NoNode /\ FindToAdd(t)
  <2>1. Moved(t, "create", call[t].n, call[t].answer)
    BY <1>1, <1>5, MoveFacts DEF FindToAdd, AInv, CInv, CallPc
  <2>2. AddInv'
    BY <1>1, <2>1, AddKeeps DEF AInv, Moved
  <2>3. QED
    BY <1>1, <1>3, <2>1, <2>2, StutterStep
<1>6. CASE Found(t) = NoNode /\ FindCategory(t)
  <2>1. /\ Moved(t, "leave", call[t].n, NoLeaf)
        /\ call[t].req.op \in {"DeleteCategoryEntry", "DeleteCategory", "EnumerateCategory"}
    BY <1>1, <1>6, MoveFacts DEF FindCategory, Calling, AInv, CInv, CallPc
  <2>2. AddInv'
    BY <1>1, <2>1, AddKeeps DEF AInv, Moved
  <2>3. Simulated(t)
    BY <1>1, <1>2, <1>3, <1>6, <2>1, AnswerSimulates DEF Found
  <2>4. QED
    BY <2>2, <2>3
<1>7. QED
  BY <1>4, <1>5, <1>6

LEMMA LockingSimulates ==
  ASSUME AInv, NEW t \in Thread, EnterNode(t) \/ EnumerateNode(t) \/ EnumerateManager(t)
  PROVE  AddInv' /\ Simulated(t)
<1>1. /\ call[t].pc \in {"node", "begun", "find"} /\ call[t].req # Idle
      /\ call[t].req \in Table!Request /\ mCategories' = mCategories
  BY FrameFacts DEF EnterNode, EnumerateNode, EnumerateManager, At, Calling, AInv, CInv
<1>2. TableNow' = TableNow
  <2>1. \A m \in Node : node'[m].mEntries = node[m].mEntries
    <3>1. ASSUME NEW n, NEW lock, node' = [node EXCEPT ![n].mLock = lock]
          PROVE  \A m \in Node : node'[m].mEntries = node[m].mEntries
      <4>1. node \in [Node -> NodeRecord] /\ \A m \in Node : node[m] \in NodeRecord
        BY DEF AInv, CInv, TypeOK, NodeRecord
      <4>2. QED
        BY <3>1, <4>1 DEF NodeRecord
    <3>2. QED
      BY <3>1 DEF EnterNode, EnumerateNode, EnumerateManager
  <2>2. QED
    BY <1>1, <2>1, EntriesKept DEF AInv, CInv
<1>3. CASE EnterNode(t)
  <2>1. call[t].pc = "node" /\ call[t].n \in Node
    BY <1>3, FrameFacts DEF EnterNode, At, AInv, CInv
  <2>2. Moved(t, "inside", call[t].n, call[t].answer)
    BY <1>1, <1>3, <2>1, MoveFacts DEF EnterNode, AInv, CInv, CallPc
  <2>3. mCategories[call[t].req.cat] = call[t].n
    BY <2>1 DEF AInv, AddInv
  <2>4. AddInv'
    BY <1>1, <2>2, <2>3, AddKeeps DEF AInv, Moved
  <2>5. QED
    BY <1>1, <1>2, <2>2, <2>4, StutterStep
<1>4. CASE EnumerateNode(t) \/ EnumerateManager(t)
  <2>1. /\ Moved(t, "leave", call[t].n, NoLeaf)
        /\ call[t].req.op \in {"EnumerateCategory", "EnumerateCategories"}
    <3>1. CASE EnumerateNode(t)
      BY <1>1, <3>1, MoveFacts DEF EnumerateNode, At, AInv, CInv, CallPc, FoundInv, Fits
    <3>2. CASE EnumerateManager(t)
      BY <1>1, <3>2, MoveFacts DEF EnumerateManager, Calling, AInv, CInv, CallPc
    <3>3. QED
      BY <1>4, <3>1, <3>2
  <2>2. AddInv'
    BY <1>1, <2>1, AddKeeps DEF AInv, Moved
  <2>3. Simulated(t)
    BY <1>1, <1>2, <2>1, AnswerSimulates
  <2>4. QED
    BY <2>2, <2>3
<1>5. QED
  BY <1>3, <1>4

(* The entry changes under the node's lock: here AddCategoryEntry and       *)
(* DeleteCategoryEntry take effect.                                         *)
LEMMA RewriteSimulates ==
  ASSUME AInv, NEW t \in Thread, call[t].pc \in Inside,
         call[t].req \in Table!Request,
         call[t].req.op \in {"AddCategoryEntry", "DeleteCategoryEntry"},
         NEW leaf, Rewritten(call[t].n, call[t].req.name, leaf), mCategories' = mCategories,
         Moved(t, "leave", call[t].n, NoLeaf),
         Table!After(node[call[t].n].mEntries, call[t].req)
           = [node[call[t].n].mEntries EXCEPT ![call[t].req.name] = leaf]
  PROVE  AddInv' /\ Simulated(t)
<1> DEFINE c == call[t].req.cat
<1>1. c \in Category /\ call[t].n \in Node /\ mCategories[c] = call[t].n
  BY RequestFacts, FrameFacts DEF AInv, AddInv, CInv
<1>2. TableNow[c] = node[call[t].n].mEntries
  BY <1>1, TableFacts, ConstantsAssumption DEF AInv, CInv
<1>3. TableNow' = [TableNow EXCEPT ![c] = [TableNow[c] EXCEPT ![call[t].req.name] = leaf]]
  BY <1>1, RewrittenTable DEF AInv
<1>4. TableNow' = [TableNow EXCEPT ![c] = Table!After(TableNow[c], call[t].req)]
  BY <1>2, <1>3
<1>5. Simulated(t)
  BY <1>4, EffectStep
<1>6. AddInv'
  BY AddKeeps DEF AInv, Moved
<1>7. QED
  BY <1>5, <1>6

LEMMA AddingSimulates ==
  ASSUME AInv, NEW t \in Thread, AddEntry(t) \/ InsertLeaf(t) \/ SetLeaf(t)
  PROVE  AddInv' /\ Simulated(t)
<1> DEFINE n == call[t].n
           req == call[t].req
           entries == node[n].mEntries
           leaf == entries[req.name]
<1>1. /\ call[t].pc \in Inside /\ req # Idle /\ req.op = "AddCategoryEntry"
      /\ mCategories' = mCategories /\ req \in Table!Request
  <2>1. CASE AddEntry(t)
    BY <2>1, FrameFacts DEF AddEntry, At, Calling, AInv, CInv
  <2>2. CASE InsertLeaf(t) \/ SetLeaf(t)
    <3>1. call[t].pc \in {"insert", "set"} /\ mCategories' = mCategories
      BY <2>2 DEF InsertLeaf, SetLeaf, At
    <3>2. QED
      BY <3>1, FrameFacts DEF AInv, CInv, FoundInv, Fits
  <2>3. QED
    BY <2>1, <2>2
<1>2. /\ n \in Node /\ req.name \in Name /\ req.value \in Value /\ req.persist \in BOOLEAN
      /\ req.replace \in BOOLEAN /\ entries \in [Name -> Table!MaybeLeaf]
      /\ leaf \in Table!MaybeLeaf
  BY <1>1, FrameFacts, RequestFacts, NodeFacts DEF AInv, CInv
<1>3. Table!After(entries, req) = [entries EXCEPT ![req.name] =
        IF leaf = NoLeaf THEN Table!NewLeaf(req.value, req.persist)
        ELSE IF req.replace THEN Table!SetValue(leaf, req.value, req.persist)
        ELSE leaf]
  BY <1>1 DEF Table!After
<1>4. CASE InsertLeaf(t)
  <2> DEFINE new == Table!NewLeaf(req.value, req.persist)
  <2>1. leaf = NoLeaf
    BY <1>4 DEF InsertLeaf, At, AInv, CInv, FoundInv
  <2>2. new \in Table!MaybeLeaf
    BY <1>2, LeafFacts
  <2>3. Rewritten(n, req.name, new)
    BY <1>2, <1>4, <2>2, NodeFacts DEF InsertLeaf, AInv, CInv
  <2>4. Moved(t, "leave", n, NoLeaf)
    BY <1>1, <1>4, MoveFacts DEF InsertLeaf, AInv, CInv, CallPc
  <2>5. Table!After(entries, req) = [entries EXCEPT ![req.name] = new]
    BY <1>3, <2>1
  <2>6. QED
    BY <1>1, <2>3, <2>4, <2>5, RewriteSimulates
<1>5. CASE AddEntry(t) /\ (leaf = NoLeaf \/ req.replace)
  <2>1. PICK pc \in {"insert", "set"} :
          node' = node /\ call[t].pc # "leave" /\ Moved(t, pc, n, call[t].answer)
    <3>1. PICK pc \in {"insert", "set"} : Goto(t, pc)
      BY <1>5 DEF AddEntry
    <3>2. node' = node /\ call[t].pc # "leave"
      BY <1>1, <1>5 DEF AddEntry
    <3>3. Moved(t, pc, n, call[t].answer)
      BY <1>1, <1>2, <3>1, MoveFacts DEF AInv, CInv, CallPc
    <3>4. QED
      BY <3>2, <3>3
  <2>2. TableNow' = TableNow
    BY <1>1, <2>1, EntriesKept DEF AInv, CInv
  <2>3. mCategories[req.cat] = n
    BY <1>1 DEF AInv, AddInv
  <2>4. AddInv'
    BY <1>1, <2>1, <2>3, AddKeeps DEF AInv, Moved
  <2>5. QED
    BY <2>1, <2>2, <2>4, StutterStep
<1>6. CASE SetLeaf(t)
  <2> DEFINE new == Table!SetValue(leaf, req.value, req.persist)
  <2>1. leaf # NoLeaf
    BY <1>6 DEF SetLeaf, At, AInv, CInv, FoundInv
  <2>2. new \in Table!MaybeLeaf
    BY <1>2, <2>1, LeafFacts
  <2>3. Rewritten(n, req.name, new)
    BY <1>2, <1>6, <2>2, NodeFacts DEF SetLeaf, AInv, CInv
  <2>4. Moved(t, "leave", n, NoLeaf)
    BY <1>1, <1>6, MoveFacts DEF SetLeaf, AInv, CInv, CallPc
  <2>5. req.replace
    BY <1>6 DEF SetLeaf, At, AInv, CInv, FoundInv
  <2>6. Table!After(entries, req) = [entries EXCEPT ![req.name] = new]
    BY <1>3, <2>1, <2>5
  <2>7. QED
    BY <1>1, <2>3, <2>4, <2>6, RewriteSimulates
<1>7. CASE AddEntry(t) /\ leaf # NoLeaf /\ ~req.replace
  <2>1. node' = node /\ Moved(t, "leave", n, NoLeaf)
    BY <1>1, <1>7, MoveFacts DEF AddEntry, AInv, CInv, CallPc
  <2>2. [entries EXCEPT ![req.name] = leaf] = entries
    BY <1>2
  <2>3. Table!After(entries, req) = [entries EXCEPT ![req.name] = leaf]
    BY <1>3, <1>7
  <2>4. Rewritten(n, req.name, leaf)
    BY <1>2, <2>1, <2>2, NodeFacts DEF Rewritten, AInv, CInv
  <2>5. QED
    BY <1>1, <2>1, <2>3, <2>4, RewriteSimulates
<1>8. QED
  BY <1>4, <1>5, <1>6, <1>7

LEMMA RemovingSimulates ==
  ASSUME AInv, NEW t \in Thread, RemoveEntry(t)
  PROVE  AddInv' /\ Simulated(t)
<1> DEFINE req == call[t].req
           entries == node[call[t].n].mEntries
           leaf == Table!Removed(entries[req.name], req.persist)
<1>1. /\ call[t].pc = "inside" /\ req # Idle /\ req.op = "DeleteCategoryEntry"
      /\ mCategories' = mCategories /\ req \in Table!Request
      /\ node' = [node EXCEPT ![call[t].n].mEntries[req.name] = leaf]
  BY FrameFacts DEF RemoveEntry, At, Calling, AInv, CInv, Table!Removed
<1>2. call[t].n \in Node /\ req.name \in Name /\ entries \in [Name -> Table!MaybeLeaf]
  BY <1>1, FrameFacts, RequestFacts, NodeFacts DEF AInv, CInv
<1>3. leaf \in Table!MaybeLeaf
  BY <1>2, LeafFacts DEF Table!Removed
<1>4. Moved(t, "leave", call[t].n, NoLeaf)
  BY <1>1, MoveFacts DEF RemoveEntry, AInv, CInv, CallPc
<1>5. Rewritten(call[t].n, req.name, leaf)
  BY <1>1, <1>2, <1>3, NodeFacts DEF AInv, CInv
<1>6. Table!After(entries, req) = [entries EXCEPT ![req.name] = leaf]
  BY <1>1 DEF Table!After
<1>7. QED
  BY <1>1, <1>4, <1>5, <1>6, RewriteSimulates

(* A category's node comes or goes.                                         *)
LEMMA CreateSimulates ==
  ASSUME AInv, NEW t \in Thread, Create(t)
  PROVE  AddInv' /\ Simulated(t)
<1> SUFFICES ASSUME NEW c, c = call[t].req.cat
             PROVE  AddInv' /\ Simulated(t)
  OBVIOUS
<1>1. /\ call[t].pc = "create" /\ call[t].req # Idle /\ call[t].req.op = "AddCategoryEntry"
      /\ mCategories[c] = NoNode /\ c \in Category
      /\ mCategories \in [Category -> Node \cup {NoNode}] /\ node \in [Node -> NodeRecord]
  BY FrameFacts, RequestFacts DEF Create, At, AInv, CInv, TypeOK, NodeRecord, FoundInv, Fits
<1>2. PICK n \in Node :
        /\ ~node[n].live
        /\ node' = [node EXCEPT ![n] = NewNode]
        /\ mCategories' = [mCategories EXCEPT ![c] = n]
        /\ GotoNode(t, "node", n)
  BY DEF Create
<1>3. Moved(t, "node", n, call[t].answer)
  BY <1>1, <1>2, MoveFacts DEF AInv, CInv, CallPc
<1>4. /\ mCategories'[c] = n /\ \A d \in Category \ {c} : mCategories'[d] = mCategories[d]
      /\ node'[n].mEntries = [x \in Name |-> NoLeaf]
      /\ \A m \in Node \ {n} : node'[m] = node[m]
  BY <1>1, <1>2 DEF NewNode
<1>5. n # NoNode
  BY ConstantsAssumption
<1>6. EntriesOf(mCategories[c])' = TableNow[c]
  <2>1. TableNow[c] = [x \in Name |-> NoLeaf]
    BY <1>1, TableFacts DEF AInv, CInv
  <2>2. QED
    BY <1>4, <1>5, <2>1 DEF EntriesOf
<1>7. ASSUME NEW d \in Category \ {c}
      PROVE  EntriesOf(mCategories[d])' = EntriesOf(mCategories[d])
  <2>1. mCategories[d] # n
    BY <1>2, <1>5 DEF AInv, CInv, CategoriesInv
  <2>2. mCategories[d] \in Node \cup {NoNode}
    BY <1>1
  <2>3. QED
    BY <1>4, <2>1, <2>2 DEF EntriesOf
<1>8. TableNow' = TableNow
  <2>1. TableNow' = [TableNow EXCEPT ![c] = TableNow[c]]
    BY <1>1, <1>6, <1>7, OneCategory
  <2>2. QED
    BY <1>1, <2>1, TableFacts DEF AInv, CInv
<1>9. ASSUME NEW u \in Thread \ {t}, call[u].pc \in InNode
      PROVE  mCategories'[call[u].req.cat] = mCategories[call[u].req.cat]
  <2>1. mCategories[call[u].req.cat] = call[u].n /\ call[u].n \in Node
    BY <1>9, FrameFacts DEF AInv, AddInv, CInv
  <2>2. call[u].req.cat # c
    BY <1>1, <2>1, ConstantsAssumption
  <2>3. QED
    BY <1>1, <1>2, <2>2
<1>10. AddInv'
  BY <1>1, <1>3, <1>4, <1>9, AddKeeps DEF AInv, Moved
<1>11. QED
  BY <1>1, <1>3, <1>8, <1>10, StutterStep

LEMMA DeleteNodeSimulates ==
  ASSUME AInv, NEW t \in Thread, DeleteNode(t)
  PROVE  AddInv' /\ Simulated(t)
<1> SUFFICES ASSUME NEW c, c = call[t].req.cat
             PROVE  AddInv' /\ Simulated(t)
  OBVIOUS
<1> DEFINE n == call[t].n
           none == [x \in Name |-> NoLeaf]
<1>1. /\ call[t].pc = "inside" /\ call[t].req # Idle /\ call[t].req.op = "DeleteCategory"
      /\ Calling(t, "DeleteCategory") /\ Answered(t, NoLeaf)
      /\ mCategories' = [mCategories EXCEPT ![c] = NoNode]
      /\ \A m \in Node \ {n} : node'[m] = node[m]
  BY DEF DeleteNode, At, Calling, AInv, CInv, TypeOK
<1>2. /\ c \in Category /\ call[t].req \in Table!Request /\ mCategories[c] = n /\ n \in Node
      /\ Writes(t) /\ Holding(t) /\ mCategories \in [Category -> Node \cup {NoNode}]
  BY <1>1, FrameFacts, RequestFacts
  DEF AInv, CInv, TypeOK, FoundInv, Writes, Writer, Holding, Calling
<1>3. Moved(t, "leave", n, NoLeaf)
  BY <1>1, MoveFacts DEF AInv, CInv, CallPc
<1>4. /\ mCategories'[c] = NoNode
      /\ \A d \in Category \ {c} : mCategories'[d] = mCategories[d]
  BY <1>1, <1>2
<1>5. EntriesOf(mCategories[c])' = none
  BY <1>4 DEF EntriesOf
<1>6. ASSUME NEW d \in Category \ {c}
      PROVE  EntriesOf(mCategories[d])' = EntriesOf(mCategories[d])
  <2>1. mCategories[d] # n
    BY <1>2, ConstantsAssumption DEF AInv, CInv, CategoriesInv
  <2>2. mCategories[d] \in Node \cup {NoNode}
    BY <1>2
  <2>3. QED
    BY <1>1, <1>4, <2>1, <2>2 DEF EntriesOf
<1>7. TableNow' = [TableNow EXCEPT ![c] = none]
  BY <1>2, <1>5, <1>6, OneCategory
<1>8. Table!After(TableNow[c], call[t].req) = none
  BY <1>1 DEF Table!After
<1>9. Simulated(t)
  BY <1>1, <1>2, <1>3, <1>7, <1>8, EffectStep
<1>10. ASSUME NEW u \in Thread \ {t}, call[u].pc \in InNode
       PROVE  FALSE
  <2>1. ~Calling(u, "AddCategoryEntry")
    BY <1>1 DEF AInv, AddInv
  <2>2. Holding(u)
    BY <1>10, <2>1 DEF Holding
  <2>3. QED
    BY <1>2, <2>2, AloneInManager DEF AInv
<1>11. AddInv'
  BY <1>1, <1>3, <1>10, AddKeeps DEF AInv, Moved
<1>12. QED
  BY <1>9, <1>11

(* The answer is given.                                                     *)
LEMMA LeaveSimulates ==
  ASSUME AInv, NEW t \in Thread, Leave(t)
  PROVE  AddInv' /\ Simulated(t)
<1>1. /\ call[t].pc = "leave" /\ call' = [call EXCEPT ![t] = NoCall]
      /\ mCategories' = mCategories
  BY DEF Leave, At
<1>2. /\ NoCall.pc = "idle" /\ NoCall.req = Idle
      /\ call'[t] = NoCall /\ \A u \in Thread \ {t} : call'[u] = call[u]
  BY <1>1 DEF NoCall, AInv, CInv, TypeOK
<1>3. TableNow' = TableNow
  <2>1. \A m \in Node : node[m] \in NodeRecord
    BY DEF AInv, CInv, TypeOK, NodeRecord
  <2>2. \A m \in Node : node'[m].mEntries = node[m].mEntries
    BY <2>1 DEF Leave, NodeRecord, AInv, CInv, TypeOK
  <2>3. QED
    BY <1>1, <2>2, EntriesKept DEF AInv, CInv
<1>4. PendingNow[t] = [answer |-> call[t].answer]
  BY <1>1 DEF PendingNow
<1>5. PendingNow[t] \notin Table!Request \cup {Idle}
  <2>1. call[t].answer \in Value \cup {Empty, NoLeaf, Torn}
    BY FrameFacts DEF AInv, CInv
  <2>2. PendingNow[t] # Idle
    BY <1>4, <2>1, ConstantsAssumption
  <2>3. \A req \in Table!Request : req # PendingNow[t]
    BY <1>4, RequestFacts
  <2>4. QED
    BY <2>2, <2>3
<1>6. PendingNow' = [PendingNow EXCEPT ![t] = Idle]
  BY <1>2 DEF PendingNow
<1>7. Simulated(t)
  BY <1>3, <1>5, <1>6 DEF Simulated, Table!Return, TableNow, PendingNow
<1>8. AddInv'
  BY <1>1, <1>2, AddKeeps DEF AInv
<1>9. QED
  BY <1>7, <1>8

LEMMA ReleaseSimulates ==
  ASSUME AInv, NEW t \in Thread, ReleaseEnumerator(t)
  PROVE  AddInv' /\ Simulated(t)
<1>1. call' = call /\ mCategories' = mCategories
  BY DEF ReleaseEnumerator
<1>2. TableNow' = TableNow
  <2>1. \A m \in Node : node[m] \in NodeRecord
    BY DEF AInv, CInv, TypeOK, NodeRecord
  <2>2. \A m \in Node : node'[m].mEntries = node[m].mEntries
    BY <2>1 DEF ReleaseEnumerator, NodeRecord, AInv, CInv, TypeOK
  <2>3. QED
    BY <1>1, <2>2, EntriesKept DEF AInv, CInv
<1>3. PendingNow' = PendingNow
  BY <1>1 DEF PendingNow
<1>4. AddInv'
  BY <1>1 DEF AInv, AddInv, Calling
<1>5. QED
  BY <1>2, <1>3, <1>4 DEF Simulated

(* A call begins: a deletion waits for the additions, and they for it.      *)
LEMMA CallSimulates ==
  ASSUME AInv, DeletersWait, NEW t \in Thread, NEW req \in Table!Request, Call(t, req)
  PROVE  AddInv' /\ Table!Call(t, req)
<1> DEFINE fr == [NoCall EXCEPT !.req = req, !.pc = "manager"]
<1>1. fr.req = req /\ fr.pc = "manager"
  BY DEF NoCall
<1>2. /\ call[t].pc = "idle" /\ call[t].req = Idle /\ Apart(req.op)
      /\ call'[t] = fr /\ \A u \in Thread \ {t} : call'[u] = call[u]
      /\ mCategories' = mCategories /\ node' = node
  BY FrameFacts DEF Call, At, AInv, CInv, TypeOK
<1>3. TableNow' = TableNow
  BY <1>2, EntriesKept DEF AInv, CInv
<1>4. PendingNow[t] = Idle /\ PendingNow' = [PendingNow EXCEPT ![t] = req]
  <2> HIDE DEF fr
  <2>1. PendingNow[t] = Idle
    BY <1>2 DEF PendingNow
  <2>2. /\ PendingNow'[t] = req
        /\ \A u \in Thread \ {t} : PendingNow'[u] = PendingNow[u]
    BY <1>1, <1>2 DEF PendingNow
  <2>3. /\ PendingNow' = [u \in Thread |-> PendingNow'[u]]
        /\ PendingNow = [u \in Thread |-> PendingNow[u]]
    BY DEF PendingNow
  <2>4. QED
    BY ONLY <2>1, <2>2, <2>3, t \in Thread
<1>5. Table!Call(t, req)
  <2> HIDE DEF fr
  <2>1. PendingNow[t] = Idle /\ PendingNow' = [PendingNow EXCEPT ![t] = req] /\ TableNow' = TableNow
    BY <1>3, <1>4
  <2>2. QED
    BY ONLY <2>1 DEF Table!Call, TableNow, PendingNow
<1>6. ASSUME NEW u \in Thread, NEW v \in Thread, Calling(u, "AddCategoryEntry")',
             Calling(v, "DeleteCategory")'
      PROVE  FALSE
  <2>1. \A op : \A w \in Thread \ {t} : Calling(w, op)' <=> Calling(w, op)
    BY <1>2 DEF Calling
  <2>2. \A op : Calling(t, op)' => req.op = op
    BY <1>1, <1>2 DEF Calling
  <2>3. CASE u = t /\ v = t
    BY <1>6, <2>2, <2>3
  <2>4. CASE u = t /\ v # t
    BY <1>2, <1>6, <2>1, <2>2, <2>4 DEF Apart
  <2>5. CASE u # t /\ v = t
    BY <1>2, <1>6, <2>1, <2>2, <2>5 DEF Apart
  <2>6. CASE u # t /\ v # t
    BY <1>6, <2>1, <2>6 DEF AInv, AddInv
  <2>7. QED
    BY <2>3, <2>4, <2>5, <2>6
<1>7. \A u \in Thread : call'[u].pc \in InNode =>
        mCategories'[call'[u].req.cat] = call'[u].n
  BY <1>1, <1>2 DEF AInv, AddInv
<1>8. AddInv'
  BY <1>6, <1>7 DEF AddInv
<1>9. QED
  BY <1>5, <1>8

LEMMA CallStepSimulates ==
  ASSUME AInv, NEW t \in Thread, CallStep(t)
  PROVE  AddInv' /\ Simulated(t)
  BY WaitingSimulates, LookingSimulates, FindingSimulates, LockingSimulates, AddingSimulates,
     RemovingSimulates, CreateSimulates, DeleteNodeSimulates, LeaveSimulates DEF CallStep

(* The calls of the category manager are atomic: when no client deletes a   *)
(* category while another one adds to it, every behaviour is one of a table *)
(* whose calls take effect at one instant between their start and their     *)
(* return.                                                                  *)
THEOREM AtomicCalls ==
  ASSUME DeletersWait
  PROVE  Spec => Linearizable
<1>1. Init => AInv /\ Table!Init
  <2> SUFFICES ASSUME Init PROVE AInv /\ Table!Init
    OBVIOUS
  <2>1. CInv
    BY InitCInv
  <2>2. \A t \in Thread : call[t].req = Idle /\ call[t].pc = "idle"
    BY DEF Init, NoCall
  <2>3. AddInv
    BY <2>2 DEF AddInv, Calling
  <2>4. TableNow = [c \in Category |-> [x \in Name |-> NoLeaf]]
    BY DEF Init, TableNow, EntriesOf
  <2>5. PendingNow = [t \in Thread |-> Idle]
    BY <2>2 DEF PendingNow
  <2>6. QED
    BY <2>1, <2>3, <2>4, <2>5 DEF AInv, Table!Init, TableNow, PendingNow
<1>2. AInv /\ [Next]_vars =>
        AInv' /\ (Table!Next \/ (TableNow' = TableNow /\ PendingNow' = PendingNow))
  <2> SUFFICES ASSUME AInv, [Next]_vars
               PROVE  AInv' /\ (Table!Next \/ (TableNow' = TableNow /\ PendingNow' = PendingNow))
    OBVIOUS
  <2>1. CInv'
    BY NextKeepsCInv DEF AInv
  <2>2. CASE UNCHANGED vars
    <3>1. AddInv'
      BY <2>2 DEF vars, AInv, AddInv, Calling
    <3>2. TableNow' = TableNow /\ PendingNow' = PendingNow
      BY <2>2 DEF vars, TableNow, PendingNow, EntriesOf
    <3>3. QED
      BY <2>1, <3>1, <3>2 DEF AInv
  <2>3. CASE Next
    <3>1. PICK t \in Thread :
            (\E req \in Table!Request : Call(t, req)) \/ CallStep(t) \/ ReleaseEnumerator(t)
      BY <2>3 DEF Next
    <3>2. CASE \E req \in Table!Request : Call(t, req)
      BY <2>1, <3>2, CallSimulates DEF AInv, Table!Next
    <3>3. CASE CallStep(t) \/ ReleaseEnumerator(t)
      BY <2>1, <3>3, CallStepSimulates, ReleaseSimulates DEF AInv, Simulated, Table!Next
    <3>4. QED
      BY <3>1, <3>2, <3>3
  <2>4. QED
    BY <2>2, <2>3
<1>3. AInv /\ [Next]_vars => AInv' /\ [Table!Next]_<<TableNow, PendingNow>>
  BY <1>2
<1>4. QED
  BY <1>1, <1>3, PTL DEF Spec, Linearizable, Table!Spec, TableNow, PendingNow

=============================================================================
