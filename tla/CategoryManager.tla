--------------------------- MODULE CategoryManager ---------------------------
(***************************************************************************)
(* The category manager of cci/components/cciCategoryManager.cpp: a table  *)
(* of categories under a read/write lock (mLock of the manager), and in    *)
(* each category a table of entries under a lock of its own (mLock of the  *)
(* node). An enumerator holds a read lock until it is released.            *)
(*                                                                         *)
(* The locks are those of POSIX threads: any number of read locks, also    *)
(* several of one thread, or one write lock; a waiting writer does not     *)
(* hold readers back.                                                      *)
(***************************************************************************)
EXTENDS FiniteSets

CONSTANTS
  Thread, Category, Name, Value, Empty, NoLeaf, Torn, Idle,
  Node,              \* addresses of category nodes
  NoNode, NoThread, NotFound,
  Manager,           \* what an enumerator of the categories holds
  MayCall,           \* the operations each thread calls
  WhileEnumerating,  \* and those it calls while it holds an enumerator
  DeletersWait       \* no client deletes a category while another one adds

VARIABLES
  mCategories,  \* category -> node
  node,         \* the nodes at their addresses
  mLock,        \* the manager's lock
  call,         \* per thread, the call in progress
  enumerator    \* per thread, what its enumerator enumerates

vars == <<mCategories, node, mLock, call, enumerator>>

(* The promise, with this module's tables and calls for its variables.      *)
EntriesOf(n) == IF n = NoNode THEN [x \in Name |-> NoLeaf] ELSE node[n].mEntries
Table == INSTANCE CategoryTable WITH
  table   <- [c \in Category |-> EntriesOf(mCategories[c])],
  pending <- [t \in Thread |->
               IF call[t].pc = "leave" THEN [answer |-> call[t].answer] ELSE call[t].req]

Op == {"AddCategoryEntry", "DeleteCategoryEntry", "GetCategoryEntry",
       "DeleteCategory", "EnumerateCategory", "EnumerateCategories"}
Writer == {"AddCategoryEntry", "DeleteCategoryEntry", "DeleteCategory"}

ASSUME ConstantsAssumption ==
  /\ NoThread \notin Thread /\ NoNode \notin Node /\ Manager \notin Node
  /\ NotFound \notin Node \cup {Manager}
  /\ Empty \notin Value /\ NoLeaf \notin Table!Leaf /\ Idle \notin Table!Request
  /\ \A x \in Value \cup {Empty, NoLeaf, Torn} : Idle # [answer |-> x]
  /\ MayCall \in [Thread -> SUBSET Op]
  /\ WhileEnumerating \subseteq Op \ {"EnumerateCategory", "EnumerateCategories"}
  /\ DeletersWait \in BOOLEAN

RWLock == [writer : Thread \cup {NoThread},
           readers : SUBSET (Thread \X {"call", "enumerator"})]
CallPc == {"idle", "manager", "find", "create", "copy", "node", "begun",
           "inside", "insert", "set", "clear", "leave"}
InNode == {"copy", "node", "begun", "inside", "insert", "set", "clear"}

Frame == {fr \in [req : Table!Request \cup {Idle}, pc : CallPc, n : Node \cup {NoNode},
                  answer : Value \cup {Empty, NoLeaf, Torn}] :
            /\ fr.req = Idle <=> fr.pc = "idle"
            /\ fr.pc \in InNode => fr.n \in Node}

TypeOK ==
  /\ mCategories \in [Category -> Node \cup {NoNode}]
  /\ node \in [Node -> [live : BOOLEAN, mLock : RWLock,
                        mEntries : [Name -> Table!MaybeLeaf]]]
  /\ mLock \in RWLock
  /\ call \in [Thread -> Frame]
  /\ enumerator \in [Thread -> Node \cup {Manager, NotFound}]

-----------------------------------------------------------------------------
NoCall == [req |-> Idle, pc |-> "idle", n |-> NoNode, answer |-> NoLeaf]
Unheld == [writer |-> NoThread, readers |-> {}]
NewNode == [live |-> TRUE, mLock |-> Unheld, mEntries |-> [x \in Name |-> NoLeaf]]

Init ==
  /\ mCategories = [c \in Category |-> NoNode]
  /\ node = [n \in Node |-> [NewNode EXCEPT !.live = FALSE]]
  /\ mLock = Unheld
  /\ call = [t \in Thread |-> NoCall]
  /\ enumerator = [t \in Thread |-> NotFound]

(***************************************************************************)
(* The locks.                                                              *)
(***************************************************************************)
Writes(t) == call[t].req # Idle /\ call[t].req.op \in Writer

(* Faulty variant: a writer does not wait.                                  *)
Free_Unguarded(lock, exclusive) == exclusive \/ lock.writer = NoThread

Free(lock, exclusive) ==
  /\ lock.writer = NoThread
  /\ exclusive => lock.readers = {}

Taken(lock, t) ==
  IF Writes(t) THEN [lock EXCEPT !.writer = t]
               ELSE [lock EXCEPT !.readers = @ \cup {<<t, "call">>}]
Given(lock, t) ==
  [writer |-> IF lock.writer = t THEN NoThread ELSE lock.writer,
   readers |-> lock.readers \ {<<t, "call">>}]
Kept(lock, t) == [lock EXCEPT !.readers = @ \cup {<<t, "enumerator">>}]

(***************************************************************************)
(* Calls.                                                                  *)
(***************************************************************************)
At(t, pc) == call[t].pc = pc
Calling(t, op) == call[t].req # Idle /\ call[t].req.op = op
Goto(t, pc) == call' = [call EXCEPT ![t].pc = pc]
GotoNode(t, pc, n) == call' = [call EXCEPT ![t].pc = pc, ![t].n = n]
Answered(t, x) == call' = [call EXCEPT ![t].pc = "leave", ![t].answer = x]

(* Clients that do not wait for each other delete categories whenever they  *)
(* like.                                                                    *)
Apart(op) ==
  DeletersWait => \A u \in Thread :
    /\ op = "DeleteCategory"   => ~Calling(u, "AddCategoryEntry")
    /\ op = "AddCategoryEntry" => ~Calling(u, "DeleteCategory")

Call(t, req) ==
  /\ At(t, "idle") /\ req.op \in MayCall[t]
  /\ enumerator[t] # NotFound => req.op \in WhileEnumerating
  /\ Apart(req.op)
  /\ call' = [call EXCEPT ![t] = [NoCall EXCEPT !.req = req, !.pc = "manager"]]
  /\ UNCHANGED <<mCategories, node, mLock, enumerator>>

EnterManager(t) ==
  /\ At(t, "manager") /\ Free(mLock, Writes(t))
  /\ mLock' = Taken(mLock, t)
  /\ Goto(t, "find")
  /\ UNCHANGED <<mCategories, node, enumerator>>

Found(t) == mCategories[call[t].req.cat]

(* GetCategoryEntry looks for the leaf, and then copies its value, under    *)
(* the manager's lock only: another thread may be inserting into the same   *)
(* table of entries, or assigning the same value.                           *)
Beside(t, pc, n) == \E u \in Thread \ {t} : At(u, pc) /\ call[u].n = n

LookUpEntry(t) ==
  /\ At(t, "find") /\ Calling(t, "GetCategoryEntry")
  /\ \/ /\ EntriesOf(Found(t))[call[t].req.name] = NoLeaf
        /\ Answered(t, NoLeaf)
     \/ /\ EntriesOf(Found(t))[call[t].req.name] # NoLeaf
        /\ GotoNode(t, "copy", Found(t))
     \/ Beside(t, "insert", Found(t)) /\ Answered(t, Torn)
  /\ UNCHANGED <<mCategories, node, mLock, enumerator>>

CopyValue(t) ==
  LET n == call[t].n  name == call[t].req.name IN
  /\ At(t, "copy")
  /\ \/ Answered(t, node[n].mEntries[name].mValue)
     \/ /\ \E u \in Thread \ {t} : At(u, "set") /\ call[u].n = n /\ call[u].req.name = name
        /\ Answered(t, Torn)
  /\ UNCHANGED <<mCategories, node, mLock, enumerator>>

(* AddCategoryEntry gives the manager's lock back before it uses the node.  *)
FindToAdd(t) ==
  /\ At(t, "find") /\ Calling(t, "AddCategoryEntry")
  /\ IF Found(t) = NoNode
       THEN Goto(t, "create") /\ UNCHANGED mLock
       ELSE GotoNode(t, "node", Found(t)) /\ mLock' = Given(mLock, t)
  /\ UNCHANGED <<mCategories, node, enumerator>>

Create(t) ==
  /\ At(t, "create")
  /\ \E n \in Node :
       /\ ~node[n].live /\ \A u \in Thread : call[u].n # n
       /\ node' = [node EXCEPT ![n] = NewNode]
       /\ mCategories' = [mCategories EXCEPT ![call[t].req.cat] = n]
       /\ GotoNode(t, "node", n)
  /\ mLock' = Given(mLock, t)
  /\ UNCHANGED enumerator

(* Faulty variant: the category is not tested.                              *)
FindCategory_Untested(t) ==
  /\ At(t, "find")
  /\ \E op \in {"DeleteCategoryEntry", "DeleteCategory", "EnumerateCategory"} : Calling(t, op)
  /\ GotoNode(t, "node", Found(t))
  /\ UNCHANGED <<mCategories, node, mLock, enumerator>>

(* The others keep it. A category that is not there is no error for a       *)
(* deletion.                                                                *)
FindCategory(t) ==
  /\ At(t, "find")
  /\ \E op \in {"DeleteCategoryEntry", "DeleteCategory", "EnumerateCategory"} : Calling(t, op)
  /\ IF Found(t) = NoNode THEN Answered(t, NoLeaf) ELSE GotoNode(t, "node", Found(t))
  /\ UNCHANGED <<mCategories, node, mLock, enumerator>>

(* Faulty variant: the node is changed while it is enumerated.              *)
EnterNode_Regardless(t) ==
  LET n == call[t].n IN
  /\ At(t, "node") /\ Writes(t)
  /\ node[n].live
  /\ node' = [node EXCEPT ![n].mLock = Taken(@, t)]
  /\ Goto(t, "inside")
  /\ UNCHANGED <<mCategories, mLock, enumerator>>

(* A call that waits for the lock of a deleted node goes nowhere.           *)
EnterNode(t) ==
  LET n == call[t].n IN
  /\ At(t, "node") /\ Writes(t)
  /\ node[n].live /\ Free(node[n].mLock, TRUE)
  /\ node' = [node EXCEPT ![n].mLock = Taken(@, t)]
  /\ Goto(t, "inside")
  /\ UNCHANGED <<mCategories, mLock, enumerator>>

(* AddEntry: GetEntry, then the leaf found is set, if it may be, or a new   *)
(* one is inserted. A write goes on until the step that ends it, and whoever *)
(* reads at that time reads what is half written.                           *)
AddEntry(t) ==
  LET req == call[t].req  leaf == node[call[t].n].mEntries[req.name] IN
  /\ At(t, "inside") /\ Calling(t, "AddCategoryEntry")
  /\ IF leaf = NoLeaf THEN Goto(t, "insert")
     ELSE IF req.replace THEN Goto(t, "set")
     ELSE Answered(t, NoLeaf)
  /\ UNCHANGED <<mCategories, node, mLock, enumerator>>

InsertLeaf(t) ==
  LET req == call[t].req IN
  /\ At(t, "insert")
  /\ node' = [node EXCEPT ![call[t].n].mEntries[req.name] =
                Table!NewLeaf(req.value, req.persist)]
  /\ Answered(t, NoLeaf)
  /\ UNCHANGED <<mCategories, mLock, enumerator>>

SetLeaf(t) ==
  LET req == call[t].req IN
  /\ At(t, "set")
  /\ node' = [node EXCEPT ![call[t].n].mEntries[req.name] =
                Table!SetValue(@, req.value, req.persist)]
  /\ Answered(t, NoLeaf)
  /\ UNCHANGED <<mCategories, mLock, enumerator>>

(* Without persist, the value goes and the entry stays.                     *)
RemoveEntry(t) ==
  LET req == call[t].req  leaf == node[call[t].n].mEntries[req.name] IN
  /\ At(t, "inside") /\ Calling(t, "DeleteCategoryEntry")
  /\ node' = [node EXCEPT ![call[t].n].mEntries[req.name] =
                IF leaf = NoLeaf \/ req.persist THEN NoLeaf
                                                ELSE [leaf EXCEPT !.mValue = Empty]]
  /\ Answered(t, NoLeaf)
  /\ UNCHANGED <<mCategories, mLock, enumerator>>

(* delete category, then the erasure from the manager's table. The          *)
(* destructor, through Clear, asks for the node's lock that the thread has  *)
(* already: where that is reported, or granted, it goes on, as the result   *)
(* is not tested; POSIX allows it to wait for itself, for ever.             *)
ClearWaits(t) ==
  /\ At(t, "inside") /\ Calling(t, "DeleteCategory")
  /\ Goto(t, "clear")
  /\ UNCHANGED <<mCategories, node, mLock, enumerator>>

DeleteNode(t) ==
  /\ At(t, "inside") /\ Calling(t, "DeleteCategory")
  /\ node' = [node EXCEPT ![call[t].n] = [NewNode EXCEPT !.live = FALSE]]
  /\ mCategories' = [mCategories EXCEPT ![call[t].req.cat] = NoNode]
  /\ Answered(t, NoLeaf)
  /\ UNCHANGED <<mLock, enumerator>>

(* Enumerate takes the iterators of the table of entries; then the          *)
(* enumerator takes the node's lock, and keeps it.                          *)
TakeIterators(t) ==
  /\ At(t, "node") /\ Calling(t, "EnumerateCategory")
  /\ Goto(t, "begun")
  /\ UNCHANGED <<mCategories, node, mLock, enumerator>>

EnumerateNode(t) ==
  LET n == call[t].n IN
  /\ At(t, "begun")
  /\ node[n].live /\ Free(node[n].mLock, FALSE)
  /\ node' = [node EXCEPT ![n].mLock = Kept(@, t)]
  /\ enumerator' = [enumerator EXCEPT ![t] = n]
  /\ Answered(t, NoLeaf)
  /\ UNCHANGED <<mCategories, mLock>>

(* That of the categories takes the manager's lock once more.               *)
EnumerateManager(t) ==
  /\ At(t, "find") /\ Calling(t, "EnumerateCategories")
  /\ mLock' = Kept(mLock, t)
  /\ enumerator' = [enumerator EXCEPT ![t] = Manager]
  /\ Answered(t, NoLeaf)
  /\ UNCHANGED <<mCategories, node>>

(* Faulty variant: the node's lock is not given back.                       *)
Leave_Holding(t) ==
  /\ At(t, "leave")
  /\ mLock' = Given(mLock, t)
  /\ call' = [call EXCEPT ![t] = NoCall]
  /\ UNCHANGED <<mCategories, node, enumerator>>

(* The locks go out of scope.                                               *)
Leave(t) ==
  LET n == call[t].n IN
  /\ At(t, "leave")
  /\ mLock' = Given(mLock, t)
  /\ node' = IF n = NoNode THEN node ELSE [node EXCEPT ![n].mLock = Given(@, t)]
  /\ call' = [call EXCEPT ![t] = NoCall]
  /\ UNCHANGED <<mCategories, enumerator>>

CallStep(t) == \/ EnterManager(t) \/ LookUpEntry(t) \/ CopyValue(t) \/ FindToAdd(t)
               \/ Create(t) \/ FindCategory(t) \/ EnterNode(t) \/ AddEntry(t)
               \/ InsertLeaf(t) \/ SetLeaf(t) \/ RemoveEntry(t) \/ ClearWaits(t)
               \/ DeleteNode(t) \/ TakeIterators(t) \/ EnumerateNode(t)
               \/ EnumerateManager(t) \/ Leave(t)

(* The enumerator is released, and its read lock with it.                   *)
Dropped(lock, t) == [lock EXCEPT !.readers = @ \ {<<t, "enumerator">>}]
ReleaseEnumerator(t) ==
  LET e == enumerator[t] IN
  /\ At(t, "idle") /\ e # NotFound
  /\ IF e = Manager
       THEN mLock' = Dropped(mLock, t) /\ UNCHANGED node
       ELSE node' = [node EXCEPT ![e].mLock = Dropped(@, t)] /\ UNCHANGED mLock
  /\ enumerator' = [enumerator EXCEPT ![t] = NotFound]
  /\ UNCHANGED <<mCategories, call>>

Next ==
  \E t \in Thread :
    \/ \E req \in Table!Request : Call(t, req)
    \/ CallStep(t)
    \/ ReleaseEnumerator(t)

Spec == Init /\ [][Next]_vars

(* Threads run, clients release their enumerators, and a reader that waits  *)
(* gets its turn when a writer leaves (the readers' preference of a POSIX   *)
(* read/write lock). Nothing is assumed for the writers.                    *)
FairSpec ==
  /\ Spec
  /\ \A t \in Thread : /\ WF_vars(CallStep(t))
                       /\ WF_vars(ReleaseEnumerator(t))
                       /\ SF_vars(EnterManager(t) /\ ~Writes(t))

-----------------------------------------------------------------------------
(***************************************************************************)
(* Properties.                                                             *)
(***************************************************************************)

(* The calls that change a category are atomic: whatever two threads add,   *)
(* replace and delete in it, no entry is lost, although AddCategoryEntry    *)
(* gives up one lock before it takes the other. A look-up, which does not   *)
(* take the second one, gives back the entry as it was at one instant,      *)
(* unless an addition to the same category is under way.                    *)
Linearizable == Table!Spec

(* What is enumerated does not change from the time its iterators are       *)
(* taken, although the lock is taken after them, unless an addition to the  *)
(* category was already under way then. No other one comes, such an         *)
(* addition takes nothing away, and with the lock it is over too. For       *)
(* EnumerateCategories, the categories themselves do not change.            *)
Iterates(t, n) == enumerator[t] = n \/ (At(t, "begun") /\ call[t].n = n)
Adders(n) ==
  {u \in Thread : /\ Calling(u, "AddCategoryEntry") /\ call[u].n = n
                  /\ call[u].pc \in {"node", "inside", "insert", "set"}}
Listed(n) == {x \in Name : node[n].mEntries[x] # NoLeaf}

Undisturbed(t, n) ==
  /\ node'[n].live
  /\ Listed(n) \subseteq Listed(n)'
  /\ At(t, "begun") => Adders(n)' \subseteq Adders(n)
  /\ Adders(n) = {} \/ enumerator[t] = n => node'[n].mEntries = node[n].mEntries

EnumerationStable ==
  [][\A t \in Thread :
       /\ \A n \in Node : Iterates(t, n) /\ Iterates(t, n)' => Undisturbed(t, n)
       /\ enumerator[t] = Manager /\ enumerator'[t] = Manager =>
            mCategories' = mCategories]_vars

(* A look-up or an enumeration that has begun comes back, although a        *)
(* deletion waits for a node's lock with the manager's lock in its hands,   *)
(* unless one waits for ever for the lock it has.                           *)
LookupsReturn ==
  \A t \in Thread :
    call[t].req # Idle /\ ~Writes(t) ~> At(t, "idle") \/ \E u \in Thread : At(u, "clear")

(* "This implementation is thread-safe" (cciCategoryManager.h:66): no call  *)
(* uses a category that another one has deleted.                            *)
NodesInUseAreLive ==
  \A t \in Thread : call[t].pc \in InNode => node[call[t].n].live

(* "This implementation is thread-safe" (cciCategoryManager.h:66): no two   *)
(* threads wait for a lock of each other.                                   *)
Holds(t, lock) == lock.writer = t \/ \E k \in {"call", "enumerator"} : <<t, k>> \in lock.readers
WaitsForManager(t) == At(t, "manager") /\ ~Free(mLock, Writes(t))
WaitsForNode(t) ==
  /\ (At(t, "node") /\ Writes(t)) \/ At(t, "begun")
  /\ node[call[t].n].live /\ ~Free(node[call[t].n].mLock, Writes(t))
NoCircularWait ==
  \A t, u \in Thread :
    WaitsForManager(t) /\ Holds(u, mLock) =>
      ~(WaitsForNode(u) /\ Holds(t, node[call[u].n].mLock))
=============================================================================
