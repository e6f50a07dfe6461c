------------------------------- MODULE HashTable -------------------------------
(***************************************************************************)
(* The hash table under hashmap (dmHashtable.h, dmHashMap.h): buckets that *)
(* are chains of nodes, growing through a list of primes. Hash values are  *)
(* the keys themselves, as hash<int> in dmHashfuncs.h.                     *)
(*                                                                         *)
(* A node is an identity: iterators point to it, and growing moves it to   *)
(* another chain without copying it. One client traverses the table while  *)
(* it inserts and erases.                                                  *)
(***************************************************************************)
EXTENDS Naturals, FiniteSets, FiniteSetsExt, Sequences, SequencesExt

CONSTANTS
  MaxSize,     \* bound on the number of nodes
  Key,         \* numbers
  NoKey,       \* what a node that is not allocated holds
  PrimeList    \* a sequence of numbers that grow

Node == 1..MaxSize
End == 0
None == MaxSize + 1

(* Hash values are numbers. The list of primes begins with one.             *)
ASSUME HashTableAssumption ==
  /\ MaxSize \in Nat /\ Key \subseteq Nat /\ NoKey \notin Key
  /\ PrimeList \in Seq(Nat \ {0}) /\ PrimeList # <<>>

VARIABLES
  table,       \* [buckets, num]
  keyOf,       \* what the nodes hold
  it,          \* an iterator of the client: a node, End, or None
  due,         \* of the nodes that were there when it began, those still there and not visited
  result       \* what the last call answered

vars == <<table, keyOf, it, due, result>>

__stl_next_prime(n) ==
  LET fit == {p \in Range(PrimeList) : p >= n}
  IN IF fit = {} THEN Last(PrimeList) ELSE CHOOSE p \in fit : \A q \in fit : p <= q

Buckets(n) == [i \in 0..n - 1 |-> <<>>]
Empty(hint) == [buckets |-> Buckets(__stl_next_prime(hint)), num |-> 0]

Says(what) == [what |-> what, keys |-> <<>>]
Erased(keys) == [what |-> "erased", keys |-> keys]

Init ==
  /\ table = Empty(1) /\ keyOf = [n \in Node |-> NoKey]
  /\ it = None /\ due = {} /\ result = Says("none")

-----------------------------------------------------------------------------
Size(t) == Cardinality(DOMAIN t.buckets)
BktNum(k, n) == k % n
Chain(t, k) == t.buckets[BktNum(k, Size(t))]

(* The nodes in the order of a traversal: bucket by bucket.                 *)
Order(t) == FlattenSeq([i \in 1..Size(t) |-> t.buckets[i - 1]])
Nodes(t) == Range(Order(t))

(* Those of a chain that are in S, in their order.                          *)
Kept(chain, S) == FlattenSeq([i \in 1..Len(chain) |-> IF chain[i] \in S THEN <<chain[i]>> ELSE <<>>])

IndexOf(chain, n) == SelectInSeq(chain, LAMBDA m : m = n)
Matches(chain, k) == SelectInSeq(chain, LAMBDA n : keyOf[n] = k)  \* 0: none
Find(t, k) == LET i == Matches(Chain(t, k), k) IN IF i = 0 THEN End ELSE Chain(t, k)[i]
Count(t, k) == Len(Kept(Chain(t, k), {n \in Node : keyOf[n] = k}))

(* begin(), and operator++: the chain, then the next bucket that has one.   *)
FirstFrom(t, b) ==
  LET full == {i \in DOMAIN t.buckets : i >= b /\ t.buckets[i] # <<>>}
  IN IF full = {} THEN End ELSE Head(t.buckets[Min(full)])
After_NextBucketOnly(t, n) ==
  LET b == BktNum(keyOf[n], Size(t))
      i == IndexOf(t.buckets[b], n)
  IN IF i < Len(t.buckets[b]) THEN t.buckets[b][i + 1]
     ELSE IF b + 1 < Size(t) /\ t.buckets[b + 1] # <<>> THEN Head(t.buckets[b + 1]) ELSE End
After(t, n) ==
  LET b == BktNum(keyOf[n], Size(t))
      i == IndexOf(t.buckets[b], n)
  IN IF i < Len(t.buckets[b]) THEN t.buckets[b][i + 1] ELSE FirstFrom(t, b + 1)

(* equal_range: from the first match to the first node that is not one.     *)
EqualRange(t, k) ==
  LET chain == Chain(t, k)
      i == Matches(chain, k)
      rest == {j \in i..Len(chain) : keyOf[chain[j]] # k}
  IN IF i = 0 THEN {}
     ELSE {chain[j] : j \in i..(IF rest = {} THEN Len(chain) ELSE Min(rest) - 1)}

-----------------------------------------------------------------------------
(* resize: each node goes to the head of its new chain.                     *)
Resized_OldSize(t, hint) ==
  LET n == __stl_next_prime(hint)
  IN IF hint <= Size(t) \/ n <= Size(t) THEN t
     ELSE [t EXCEPT !.buckets = [i \in 0..n - 1 |-> IF i < Size(t) THEN t.buckets[i] ELSE <<>>]]
Resized(t, hint) ==
  LET n == __stl_next_prime(hint)
  IN IF hint <= Size(t) \/ n <= Size(t) THEN t
     ELSE [t EXCEPT !.buckets =
            [i \in 0..n - 1 |-> Reverse(Kept(Order(t), {m \in Node : BktNum(keyOf[m], n) = i}))]]

(* At the head of its chain, or after the first element of its key.         *)
WithNode(t, k, n) ==
  LET i == Matches(Chain(t, k), k)
  IN [buckets |-> [t.buckets EXCEPT ![BktNum(k, Size(t))] =
                     IF i = 0 THEN <<n>> \o @ ELSE InsertAt(@, i + 1, n)],
      num |-> t.num + 1]

(* A traversal does not survive that the table grows.                       *)
Grown(t) == IF Size(t) = Size(table) THEN UNCHANGED <<it, due>> ELSE it' = None /\ due' = {}

(* A new node, unless its construction throws: the table has then grown.    *)
NewNode(t, k) ==
  \/ \E n \in Node :
       /\ keyOf[n] = NoKey /\ \A m \in 1..n - 1 : keyOf[m] # NoKey
       /\ keyOf' = [keyOf EXCEPT ![n] = k] /\ table' = WithNode(t, k, n)
       /\ result' = Says("inserted")
  \/ table' = t /\ result' = Says("threw") /\ UNCHANGED keyOf

(* insert_unique; with grow = FALSE insert_unique_noresize.                 *)
InsertUnique(k, grow) ==
  LET t == IF grow THEN Resized(table, table.num + 1) ELSE table
  IN /\ IF Find(t, k) # End THEN table' = t /\ result' = Says("there") /\ UNCHANGED keyOf
        ELSE NewNode(t, k)
     /\ Grown(t)

FindOrInsert(k) == InsertUnique(k, TRUE)

InsertEqual(k, grow) ==
  LET t == IF grow THEN Resized(table, table.num + 1) ELSE table
  IN NewNode(t, k) /\ Grown(t)

-----------------------------------------------------------------------------
Destroyed(gone) == [n \in Node |-> IF n \in gone THEN NoKey ELSE keyOf[n]]

(* What was erased is not due any more; an iterator to it is not used.      *)
Without(gone) ==
  /\ it' = IF it \in gone THEN None ELSE it
  /\ due' = due \ gone
  /\ keyOf' = Destroyed(gone)

EraseKey(k) ==
  LET gone == {n \in Range(Chain(table, k)) : keyOf[n] = k}
  IN /\ table' = [buckets |-> [table.buckets EXCEPT ![BktNum(k, Size(table))] =
                                 Kept(@, Node \ gone)],
                  num |-> table.num - Cardinality(gone)]
     /\ result' = Erased([i \in 1..Cardinality(gone) |-> k]) /\ Without(gone)

(* erase(it++): the client of the traversal erases where it stands.         *)
EraseHere ==
  /\ it \in Node
  /\ table' = [buckets |-> [table.buckets EXCEPT ![BktNum(keyOf[it], Size(table))] =
                              Kept(@, Node \ {it})],
               num |-> table.num - 1]
  /\ it' = After(table, it) /\ due' = due \ {it, it'}
  /\ result' = Erased(<<keyOf[it]>>) /\ keyOf' = Destroyed({it})

(* _M_erase_bucket: in the chain of bucket b, from one node (or from its    *)
(* head) up to another (or to its end).                                     *)
Cut(t, b, first, last) ==
  LET chain == t.buckets[b]
      At(n, default) == IF n \in Range(chain) THEN IndexOf(chain, n) ELSE default
      from == At(first, 1)
      to == At(last, Len(chain) + 1)
  IN SubSeq(chain, 1, from - 1) \o SubSeq(chain, to, Len(chain))

(* erase(first, last): the two ends, and all buckets between them.          *)
ErasedBuckets_KeepsLast(t, first, last) ==
  LET f == BktNum(keyOf[first], Size(t))
      l == IF last = End THEN Size(t) ELSE BktNum(keyOf[last], Size(t))
  IN [b \in DOMAIN t.buckets |->
        CASE b = f -> Cut(t, b, first, IF f = l THEN last ELSE End)
          [] b > f /\ b < l -> <<>>
          [] OTHER -> t.buckets[b]]
ErasedBuckets(t, first, last) ==
  LET f == BktNum(keyOf[first], Size(t))
      l == IF last = End THEN Size(t) ELSE BktNum(keyOf[last], Size(t))
  IN [b \in DOMAIN t.buckets |->
        CASE b = f -> Cut(t, b, first, IF f = l THEN last ELSE End)
          [] b > f /\ b < l -> <<>>
          [] b = l /\ b # f -> Cut(t, b, End, last)
          [] OTHER -> t.buckets[b]]
EraseRange(i, j) ==
  LET order == Order(table)
      last == IF j > Len(order) THEN End ELSE order[j]
      buckets == ErasedBuckets(table, order[i], last)
      left == FlattenSeq([b \in 1..Size(table) |-> buckets[b - 1]])
  IN /\ table' = [buckets |-> buckets, num |-> table.num - (Len(order) - Len(left))]
     /\ result' = Erased([x \in 1..j - i |-> keyOf[order[i + x - 1]]])
     /\ Without(Nodes(table) \ Range(left))

Clear ==
  /\ table' = [buckets |-> Buckets(Size(table)), num |-> 0]
  /\ result' = Says("cleared") /\ it' = None /\ due' = {}
  /\ keyOf' = Destroyed(Node)

-----------------------------------------------------------------------------
(* _M_copy_from: chain by chain, in the order of the chains, into new nodes *)
(* (numbered here in that order).                                           *)
CopyOf(t) ==
  [t EXCEPT !.buckets = [b \in DOMAIN t.buckets |->
                           [i \in 1..Len(t.buckets[b]) |-> IndexOf(Order(t), t.buckets[b][i])]]]

(* The table is assigned a table with its own elements; when the copy of a  *)
(* node throws, everything is cleared.                                      *)
Assign ==
  /\ \/ /\ table' = CopyOf(table) /\ result' = Says("copied")
        /\ keyOf' = [n \in Node |-> IF n <= table.num THEN keyOf[Order(table)[n]] ELSE NoKey]
     \/ /\ table' = [buckets |-> Buckets(Size(table)), num |-> 0]
        /\ result' = Says("threw") /\ keyOf' = Destroyed(Node)
  /\ it' = None /\ due' = {}

-----------------------------------------------------------------------------
Begin ==
  /\ it' = FirstFrom(table, 0) /\ due' = Nodes(table) \ {it'}
  /\ UNCHANGED <<table, keyOf, result>>
Advance ==
  /\ it \in Node /\ it' = After(table, it) /\ due' = due \ {it'}
  /\ UNCHANGED <<table, keyOf, result>>

Next ==
  \/ \E k \in Key, grow \in BOOLEAN : InsertUnique(k, grow) \/ InsertEqual(k, grow)
  \/ \E k \in Key : FindOrInsert(k) \/ EraseKey(k)
  \/ \E i \in 1..table.num : \E j \in i + 1..table.num + 1 : EraseRange(i, j)
  \/ EraseHere \/ Clear \/ Assign \/ Begin \/ Advance

Spec == Init /\ [][Next]_vars
-----------------------------------------------------------------------------
content == [k \in Key |-> Cardinality({n \in Node : keyOf[n] = k})]

(* Whatever the table went through, growing, cutting ranges out, copying:   *)
(* every allocated node is in the table once, find, count and equal_range   *)
(* look where the elements are, and the size is theirs.                     *)
QueriesAgree ==
  /\ Nodes(table) = {n \in Node : keyOf[n] # NoKey}
  /\ table.num = Len(Order(table)) /\ table.num = Cardinality(Nodes(table))
  /\ \A k \in Key :
       LET all == {n \in Node : keyOf[n] = k}
       IN /\ Find(table, k) \in (IF all = {} THEN {End} ELSE all)
          /\ Count(table, k) = Cardinality(all) /\ EqualRange(table, k) = all

(* A traversal that erases where it stands, while others insert and erase,  *)
(* ends only when it has been at every element that was there all the time  *)
(* (operator++ takes its bucket from the element it leaves).                *)
TraversalIsComplete == it = End => due = {}

(* The table implements a multiset: an insertion adds one element or finds  *)
(* one, an erased range is the one a traversal would have seen, a failure   *)
(* adds and loses nothing (or, in a copy, leaves the table empty).          *)
Promise == INSTANCE Multiset
ImplementsMultiset == Promise!Spec
=============================================================================
