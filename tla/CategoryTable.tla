----------------------------- MODULE CategoryTable -----------------------------
(***************************************************************************)
(* What the category manager promises to its callers (cciICategoryManager  *)
(* and cciCategoryManager.cpp): a table of entries, and calls that each    *)
(* take effect at one instant between their start and their return. A      *)
(* look-up may give back anything while an entry is added to its category. *)
(***************************************************************************)
CONSTANTS
  Thread, Category, Name,
  Value,         \* non-empty values
  Empty,         \* the empty value
  NoLeaf,        \* no such entry
  Torn,          \* whatever a read finds in the middle of a write
  Idle           \* no call in progress

VARIABLES
  table,         \* the leaf of each entry of each category
  pending        \* per thread: Idle, a request, or the answer to it

Request ==
  [op : {"AddCategoryEntry"}, cat : Category, name : Name, value : Value,
   persist : BOOLEAN, replace : BOOLEAN]
  \cup [op : {"DeleteCategoryEntry"}, cat : Category, name : Name, persist : BOOLEAN]
  \cup [op : {"GetCategoryEntry"}, cat : Category, name : Name]
  \cup [op : {"DeleteCategory", "EnumerateCategory"}, cat : Category]
  \cup [op : {"EnumerateCategories"}]

Leaf == [mValue : Value \cup {Empty}, mPersistentValue : Value \cup {Empty}]
MaybeLeaf == Leaf \cup {NoLeaf}

(* cciCategoryLeaf: its constructor, and SetValue, which leaves the         *)
(* persistent value of an entry that is replaced for this session only.     *)
NewLeaf(value, persist) ==
  [mValue |-> value, mPersistentValue |-> IF persist THEN value ELSE Empty]
SetValue(leaf, value, persist) ==
  [mValue |-> value,
   mPersistentValue |-> IF persist THEN value ELSE leaf.mPersistentValue]

(* cciCategoryNode::RemoveEntry.                                            *)
Removed(leaf, persist) ==
  IF leaf = NoLeaf \/ persist THEN NoLeaf ELSE [leaf EXCEPT !.mValue = Empty]

(* The entries of a category after req.                                     *)
After(entries, req) ==
  CASE req.op = "AddCategoryEntry" ->
         LET leaf == entries[req.name] IN
         [entries EXCEPT ![req.name] =
            IF leaf = NoLeaf THEN NewLeaf(req.value, req.persist)
            ELSE IF req.replace THEN SetValue(leaf, req.value, req.persist)
            ELSE leaf]
    [] req.op = "DeleteCategoryEntry" ->
         [entries EXCEPT ![req.name] = Removed(@, req.persist)]
    [] req.op = "DeleteCategory" -> [n \in Name |-> NoLeaf]
    [] OTHER -> entries

(* What GetCategoryEntry gives back; nothing is said of the other answers.  *)
Answer(req) ==
  [answer |-> IF req.op = "GetCategoryEntry" /\ table[req.cat][req.name] # NoLeaf
                THEN table[req.cat][req.name].mValue
                ELSE NoLeaf]

(* GetCategoryEntry reads the entries of a category without their lock.     *)
MayBeTorn(t) ==
  /\ pending[t].op = "GetCategoryEntry"
  /\ \E u \in Thread : /\ pending[u] \in Request
                       /\ pending[u].op = "AddCategoryEntry"
                       /\ pending[u].cat = pending[t].cat

-----------------------------------------------------------------------------
Init ==
  /\ table = [c \in Category |-> [n \in Name |-> NoLeaf]]
  /\ pending = [t \in Thread |-> Idle]

Call(t, req) ==
  /\ pending[t] = Idle
  /\ pending' = [pending EXCEPT ![t] = req]
  /\ UNCHANGED table

TakeEffect(t) ==
  /\ pending[t] \in Request
  /\ table' = IF pending[t].op = "EnumerateCategories" THEN table
              ELSE [table EXCEPT ![pending[t].cat] = After(@, pending[t])]
  /\ \/ pending' = [pending EXCEPT ![t] = Answer(pending[t])]
     \/ MayBeTorn(t) /\ pending' = [pending EXCEPT ![t] = [answer |-> Torn]]

Return(t) ==
  /\ pending[t] \notin Request \cup {Idle}
  /\ pending' = [pending EXCEPT ![t] = Idle]
  /\ UNCHANGED table

Next ==
  \E t \in Thread :
    \/ \E req \in Request : Call(t, req)
    \/ TakeEffect(t)
    \/ Return(t)

Spec == Init /\ [][Next]_<<table, pending>>
=============================================================================
