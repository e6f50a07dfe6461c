----------------------------- MODULE Objects_proofs -----------------------------
(***************************************************************************)
(* Objects and what is made of them. The life of objects: counts,          *)
(* destructors, weak references and what the allocator knows. Composite    *)
(* objects: every reference is counted where its release looks for it, so  *)
(* the composite lives exactly as long as one of its pointers, and its     *)
(* pointers agree on what it is. Enumerators: each element once, in order. *)
(***************************************************************************)
EXTENDS Objects, Interfaces, Enumerators, FiniteSetTheorems, SequenceTheorems, TLAPS

(* OBJECTS *)
(* The invariant is about the heap h, the variables sl, the loose reference *)
(* lo and one more reference, hand: the one an operation holds between two  *)
(* of its steps. D are the objects whose destructors are in progress.       *)
Refs(f, S, o) == Cardinality({x \in S : f[x] = o})
Members(h) == [p \in Object |-> h[p].member]
One(p, o) == IF p = o THEN 1 ELSE 0

OwnersIn(h, sl, lo, o) ==
  Refs(sl, Slot, o) + One(lo, o) + Refs(Members(h), Object, o)

Owned(h, sl, lo, hand, o) ==
  \/ \E s \in Slot : sl[s] = o
  \/ lo = o \/ hand = o
  \/ \E p \in Object : h[p].member = o

(* Counts are right, and nobody owns an object that is gone or going; as    *)
(* long as the program runs, nobody owns one the collector has.             *)
Sound(h, sl, lo, hand, D, ph) ==
  \A o \in Object :
    /\ h[o].state = "live" /\ o \notin D =>
         h[o].mRefCnt = OwnersIn(h, sl, lo, o) + One(hand, o)
    /\ h[o].state = "live" /\ o \in D => h[o].mRefCnt = 1
    /\ Owned(h, sl, lo, hand, o) =>
         /\ h[o].state # "free"
         /\ o \in D => h[o].state # "live"
         /\ ph = "running" => h[o].state = "live"

(* The allocator's list.                                                    *)
Listed(list, o) == \E i \in 1..Len(list) : list[i] = o
Before(list, o, p) ==
  \A i \in 1..Len(list) : list[i] = p => \E j \in 1..Len(list) : j < i /\ list[j] = o

ListInv(h, list) ==
  /\ \A i, j \in 1..Len(list) : list[i] = list[j] => i = j
  /\ \A o \in Object : Listed(list, o) <=> h[o].state = "live"

(* A holder is younger than what it holds, so the collector comes to it     *)
(* first; only plain objects and holders own.                               *)
HolderInv(h, list) ==
  \A o \in Object :
    /\ h[o].class = "holder" /\ h[o].member # NULL =>
         h[h[o].member].state = "live" /\ Before(list, h[o].member, o)
    /\ h[o].class = "proxy" => h[o].member = NULL

(* Weak references, and memory nobody has.                                  *)
WeakInv(h) ==
  \A o \in Object :
    /\ h[o].proxy # NULL =>
         /\ h[o].class = "plain" /\ h[h[o].proxy].mReferent = o
         /\ h[h[o].proxy].state \in {"live", "revoked"}
    /\ h[o].mReferent # NULL =>
         /\ h[o].class = "proxy" /\ h[h[o].mReferent].proxy = o
         /\ h[h[o].mReferent].state \in {"live", "revoked"}

MemoryInv(h, ph) ==
  \A o \in Object :
    /\ h[o].state = "free" => h[o] = Free
    /\ h[o].state = "rotted" => h[o].member = NULL
    /\ ph = "running" => h[o].state \in {"free", "live"}
    /\ ph = "released" => h[o] = Free

(* Destructors in progress.                                                 *)
FrameInv(h, fr, ph) ==
  /\ h[fr.object].state = IF fr.by = "delete" THEN "live" ELSE "revoked"
  /\ fr.by = "collector" => ph = "collecting"
  /\ fr.step \in {"bases", "memory"} => h[fr.object].member = NULL
  /\ fr.step = "memory" => h[fr.object].proxy = NULL /\ h[fr.object].mReferent = NULL

DyingIn(st) == {st[i].object : i \in 1..Len(st)}

StackInv(h, st, ph) ==
  /\ \A i, j \in 1..Len(st) : st[i].object = st[j].object => i = j
  /\ \A i \in 1..Len(st) : FrameInv(h, st[i], ph)
  /\ \A o \in Object : h[o].state = "revoked" => o \in DyingIn(st)
  /\ ph = "released" => st = <<>>

OInv ==
  /\ TypeOK
  /\ phase # "released" => Sound(heap, slot, loose, NULL, DyingIn(stack), phase)
  /\ ListInv(heap, mInstances) /\ HolderInv(heap, mInstances)
  /\ WeakInv(heap) /\ MemoryInv(heap, phase) /\ StackInv(heap, stack, phase)
  /\ filling # NULL => slot[filling] = NULL

-----------------------------------------------------------------------------
(* References are counted one by one.                                       *)
LEMMA RefsFacts ==
  ASSUME NEW S, IsFiniteSet(S), NEW f, NEW o
  PROVE  /\ Refs(f, S, o) \in Nat
         /\ Refs(f, S, o) = 0 <=> \A x \in S : f[x] # o
<1> DEFINE R == {x \in S : f[x] = o}
<1>1. IsFiniteSet(R)
  BY FS_Subset
<1>2. Cardinality(R) \in Nat /\ (Cardinality(R) = 0 <=> R = {})
  BY <1>1, FS_CardinalityType, FS_EmptySet
<1>3. QED
  BY <1>2 DEF Refs

LEMMA RefsStore ==
  ASSUME NEW S, IsFiniteSet(S), NEW f, NEW g, NEW x \in S, NEW o,
         \A y \in S \ {x} : g[y] = f[y]
  PROVE  Refs(g, S, o) + One(f[x], o) = Refs(f, S, o) + One(g[x], o)
<1> DEFINE R == {y \in S : f[y] = o}
           Rest == R \ {x}
<1>1. IsFiniteSet(R) /\ IsFiniteSet(Rest) /\ Cardinality(R) \in Nat /\ Cardinality(Rest) \in Nat
  <2>1. IsFiniteSet(R)
    BY FS_Subset
  <2>2. IsFiniteSet(Rest)
    BY <2>1, FS_RemoveElement
  <2>3. QED
    BY <2>1, <2>2, FS_CardinalityType
<1>2. Cardinality(R) = Cardinality(Rest) + One(f[x], o)
  <2>1. Cardinality(Rest) = IF x \in R THEN Cardinality(R) - 1 ELSE Cardinality(R)
    BY <1>1, FS_RemoveElement
  <2>2. QED
    BY <1>1, <2>1 DEF One
<1>3. Refs(g, S, o) = Cardinality(Rest) + One(g[x], o)
  <2>1. CASE g[x] = o
    <3>1. {y \in S : g[y] = o} = Rest \cup {x} /\ x \notin Rest
      BY <2>1
    <3>2. Cardinality(Rest \cup {x}) = Cardinality(Rest) + 1
      BY <1>1, <3>1, FS_AddElement
    <3>3. QED
      BY <2>1, <3>1, <3>2 DEF Refs, One
  <2>2. CASE g[x] # o
    <3>1. {y \in S : g[y] = o} = Rest
      BY <2>2
    <3>2. One(g[x], o) = 0 /\ Cardinality(Rest) \in Nat
      BY <1>1, <2>2 DEF One
    <3>3. QED
      BY <3>1, <3>2 DEF Refs
  <2>3. QED
    BY <2>1, <2>2
<1>4. One(f[x], o) \in Nat /\ One(g[x], o) \in Nat
  BY DEF One
<1>5. QED
  BY <1>1, <1>2, <1>3, <1>4 DEF Refs

LEMMA OwnersFacts ==
  ASSUME NEW h, NEW sl, NEW lo, NEW hand, NEW o \in Object
  PROVE  /\ OwnersIn(h, sl, lo, o) \in Nat /\ One(hand, o) \in Nat
         /\ Owned(h, sl, lo, hand, o) <=> OwnersIn(h, sl, lo, o) + One(hand, o) > 0
<1>1. /\ Refs(sl, Slot, o) \in Nat /\ Refs(Members(h), Object, o) \in Nat
      /\ Refs(sl, Slot, o) = 0 <=> \A s \in Slot : sl[s] # o
      /\ Refs(Members(h), Object, o) = 0 <=> \A p \in Object : h[p].member # o
  BY RefsFacts, ObjectAssumption DEF Members
<1>2. One(lo, o) \in Nat /\ One(hand, o) \in Nat
      /\ (One(lo, o) = 0 <=> lo # o) /\ (One(hand, o) = 0 <=> hand # o)
  BY DEF One
<1>3. OwnersIn(h, sl, lo, o) = Refs(sl, Slot, o) + One(lo, o) + Refs(Members(h), Object, o)
  BY DEF OwnersIn
<1>4. Owned(h, sl, lo, hand, o) <=>
        ~(Refs(sl, Slot, o) = 0 /\ One(lo, o) = 0 /\ One(hand, o) = 0
          /\ Refs(Members(h), Object, o) = 0)
  BY <1>1, <1>2 DEF Owned
<1>5. OwnersIn(h, sl, lo, o) \in Nat /\ One(hand, o) \in Nat
  BY <1>1, <1>2, <1>3
<1>6. OwnersIn(h, sl, lo, o) + One(hand, o) > 0 <=>
        ~(Refs(sl, Slot, o) = 0 /\ One(lo, o) = 0 /\ One(hand, o) = 0
          /\ Refs(Members(h), Object, o) = 0)
  <2>1. /\ Refs(sl, Slot, o) \in Nat /\ Refs(Members(h), Object, o) \in Nat
        /\ One(lo, o) \in Nat /\ One(hand, o) \in Nat
    BY <1>1, <1>2
  <2>2. QED
    BY <1>3, <2>1
<1>7. QED
  BY <1>4, <1>5, <1>6

-----------------------------------------------------------------------------
(* Heaps.                                                                   *)
Heap == [Object -> Memory]

LEMMA MemoryFacts ==
  ASSUME NEW h \in Heap, NEW o \in Object
  PROVE  /\ h[o] \in Memory /\ h[o].state \in {"free", "live", "revoked", "rotted"}
         /\ h[o].class \in Class /\ h[o].mRefCnt \in Nat
         /\ h[o].member \in Pointer /\ h[o].proxy \in Pointer /\ h[o].mReferent \in Pointer
  BY DEF Heap, Memory

(* g differs from h in its counts only.                                     *)
Recounted(h, g) ==
  /\ g \in Heap
  /\ \A o \in Object :
       /\ g[o].state = h[o].state /\ g[o].class = h[o].class /\ g[o].member = h[o].member
       /\ g[o].proxy = h[o].proxy /\ g[o].mReferent = h[o].mReferent

LEMMA AddRefFacts ==
  ASSUME NEW h \in Heap, NEW x \in Pointer
  PROVE  /\ Recounted(h, AddRef(h, x))
         /\ \A o \in Object : AddRef(h, x)[o].mRefCnt = h[o].mRefCnt + One(x, o)
<1>1. CASE x = NULL
  <2>1. AddRef(h, x) = h /\ \A o \in Object : One(x, o) = 0 /\ h[o].mRefCnt \in Nat
    BY <1>1, ObjectAssumption, MemoryFacts DEF AddRef, One
  <2>2. QED
    BY <2>1 DEF Recounted
<1>2. CASE x # NULL
  <2> DEFINE new == [h[x] EXCEPT !.mRefCnt = h[x].mRefCnt + 1]
  <2>1. x \in Object /\ AddRef(h, x) = [h EXCEPT ![x] = new]
    BY <1>2 DEF AddRef, Pointer
  <2>2. /\ new \in Memory /\ new.mRefCnt = h[x].mRefCnt + 1 /\ new.state = h[x].state
        /\ new.class = h[x].class /\ new.member = h[x].member /\ new.proxy = h[x].proxy
        /\ new.mReferent = h[x].mReferent
    BY <2>1, MemoryFacts DEF Memory
  <2>3. /\ AddRef(h, x) \in Heap /\ AddRef(h, x)[x] = new
        /\ \A o \in Object \ {x} : AddRef(h, x)[o] = h[o]
    BY <2>1, <2>2 DEF Heap
  <2>4. Recounted(h, AddRef(h, x))
    BY <2>2, <2>3 DEF Recounted
  <2>5. ASSUME NEW o \in Object
        PROVE  AddRef(h, x)[o].mRefCnt = h[o].mRefCnt + One(x, o)
    <3>1. h[o].mRefCnt \in Nat
      BY MemoryFacts
    <3>2. CASE o = x
      BY <2>2, <2>3, <3>2 DEF One
    <3>3. CASE o # x
      BY <2>3, <3>1, <3>3 DEF One
    <3>4. QED
      BY <3>2, <3>3
  <2>6. QED
    BY <2>4, <2>5
<1>3. QED
  BY <1>1, <1>2

LEMMA ReleaseFacts ==
  ASSUME NEW h \in Heap, NEW x \in Pointer,
         x # NULL /\ h[x].state = "live" => h[x].mRefCnt > 0
  PROVE  /\ Recounted(h, Release(h, x))
         /\ \A o \in Object :
              Release(h, x)[o].mRefCnt =
                IF o = x /\ h[x].state = "live" /\ h[x].mRefCnt # 1
                  THEN h[x].mRefCnt - 1 ELSE h[o].mRefCnt
<1>1. CASE Release(h, x) = h /\ (x = NULL \/ h[x].state # "live" \/ h[x].mRefCnt = 1)
  <2>1. x = NULL => \A o \in Object : o # x
    BY ObjectAssumption
  <2>2. QED
    BY <1>1, <2>1 DEF Recounted
<1>2. CASE x # NULL /\ h[x].state = "live" /\ h[x].mRefCnt # 1
  <2> DEFINE new == [h[x] EXCEPT !.mRefCnt = h[x].mRefCnt - 1]
  <2>1. x \in Object /\ Release(h, x) = [h EXCEPT ![x] = new]
    BY <1>2 DEF Release, LastRelease, CCI_VerifyObject, Pointer
  <2>2. h[x].mRefCnt - 1 \in Nat
    BY <1>2, <2>1, MemoryFacts
  <2>3. /\ new \in Memory /\ new.mRefCnt = h[x].mRefCnt - 1 /\ new.state = h[x].state
        /\ new.class = h[x].class /\ new.member = h[x].member /\ new.proxy = h[x].proxy
        /\ new.mReferent = h[x].mReferent
    BY <2>1, <2>2, MemoryFacts DEF Memory
  <2>4. /\ Release(h, x) \in Heap /\ Release(h, x)[x] = new
        /\ \A o \in Object \ {x} : Release(h, x)[o] = h[o]
    BY <2>1, <2>3 DEF Heap
  <2>5. QED
    BY <1>2, <2>3, <2>4 DEF Recounted
<1>3. QED
  BY <1>1, <1>2 DEF Release, LastRelease, CCI_VerifyObject, Stabilized

-----------------------------------------------------------------------------
(* The steps of an operation, each with one reference in hand before or     *)
(* after it.                                                                *)
LEMMA SoundTransfer ==
  ASSUME NEW h, NEW sl, NEW lo, NEW x, NEW g, NEW tl, NEW mo, NEW y, NEW D, NEW ph,
         Sound(h, sl, lo, x, D, ph),
         \A o \in Object :
           /\ g[o].state = h[o].state /\ g[o].mRefCnt = h[o].mRefCnt
           /\ OwnersIn(g, tl, mo, o) + One(y, o) = OwnersIn(h, sl, lo, o) + One(x, o)
  PROVE  Sound(g, tl, mo, y, D, ph)
<1> SUFFICES ASSUME NEW o \in Object
             PROVE  /\ g[o].state = "live" /\ o \notin D =>
                         g[o].mRefCnt = OwnersIn(g, tl, mo, o) + One(y, o)
                    /\ g[o].state = "live" /\ o \in D => g[o].mRefCnt = 1
                    /\ Owned(g, tl, mo, y, o) =>
                         /\ g[o].state # "free"
                         /\ o \in D => g[o].state # "live"
                         /\ ph = "running" => g[o].state = "live"
  BY DEF Sound
<1>1. Owned(g, tl, mo, y, o) <=> Owned(h, sl, lo, x, o)
  BY OwnersFacts
<1>2. QED
  BY <1>1 DEF Sound

LEMMA SameMembers ==
  ASSUME NEW h, NEW g, \A o \in Object : g[o].member = h[o].member
  PROVE  /\ Members(g) = Members(h)
         /\ \A sl, lo, o : OwnersIn(g, sl, lo, o) = OwnersIn(h, sl, lo, o)
         /\ \A sl, lo, x, o : Owned(g, sl, lo, x, o) <=> Owned(h, sl, lo, x, o)
<1>1. Members(g) = Members(h)
  BY DEF Members
<1>2. QED
  BY <1>1 DEF OwnersIn, Owned

LEMMA SoundAddRef ==
  ASSUME NEW h \in Heap, NEW x \in Pointer, NEW sl, NEW lo, NEW D, NEW ph,
         Sound(h, sl, lo, NULL, D, ph), x # NULL => h[x].state = "live" /\ x \notin D
  PROVE  Sound(AddRef(h, x), sl, lo, x, D, ph)
<1> DEFINE g == AddRef(h, x)
<1>1. \A o \in Object : g[o].state = h[o].state /\ g[o].member = h[o].member
                        /\ g[o].mRefCnt = h[o].mRefCnt + One(x, o)
  BY AddRefFacts DEF Recounted
<1>2. SUFFICES ASSUME NEW o \in Object
               PROVE  /\ g[o].state = "live" /\ o \notin D =>
                           g[o].mRefCnt = OwnersIn(g, sl, lo, o) + One(x, o)
                      /\ g[o].state = "live" /\ o \in D => g[o].mRefCnt = 1
                      /\ Owned(g, sl, lo, x, o) =>
                           /\ g[o].state # "free"
                           /\ o \in D => g[o].state # "live"
                           /\ ph = "running" => g[o].state = "live"
  BY DEF Sound
<1>3. OwnersIn(g, sl, lo, o) = OwnersIn(h, sl, lo, o)
      /\ (Owned(g, sl, lo, x, o) <=> Owned(h, sl, lo, x, o))
  BY <1>1, SameMembers
<1>4. One(NULL, o) = 0 /\ o # NULL
  BY ObjectAssumption DEF One
<1>5. OwnersIn(h, sl, lo, o) \in Nat /\ One(x, o) \in Nat /\ h[o].mRefCnt \in Nat
  BY OwnersFacts, MemoryFacts
<1>6. g[o].state = "live" /\ o \notin D => g[o].mRefCnt = OwnersIn(g, sl, lo, o) + One(x, o)
  BY <1>1, <1>3, <1>4, <1>5 DEF Sound
<1>7. g[o].state = "live" /\ o \in D => g[o].mRefCnt = 1
  <2>1. o \in D /\ h[o].state = "live" => o # x
    BY <1>4
  <2>2. QED
    BY <1>1, <1>5, <2>1 DEF Sound, One
<1>8. Owned(g, sl, lo, x, o) =>
        g[o].state # "free" /\ (o \in D => g[o].state # "live")
        /\ (ph = "running" => g[o].state = "live")
  <2>1. CASE o = x
    BY <1>1, <1>4, <2>1
  <2>2. CASE o # x
    <3>1. Owned(h, sl, lo, x, o) => Owned(h, sl, lo, NULL, o)
      BY <2>2 DEF Owned
    <3>2. QED
      BY <1>1, <1>3, <3>1 DEF Sound
  <2>3. QED
    BY <2>1, <2>2
<1>9. QED
  BY <1>6, <1>7, <1>8

LEMMA SoundStoreSlot ==
  ASSUME NEW h, NEW sl, NEW lo, NEW x, NEW s \in Slot, NEW D, NEW ph,
         Sound(h, sl, lo, x, D, ph), NEW tl, tl[s] = x, \A t \in Slot \ {s} : tl[t] = sl[t],
         NEW y, y = sl[s]
  PROVE  Sound(h, tl, lo, y, D, ph)
<1>1. ASSUME NEW o \in Object
      PROVE  OwnersIn(h, tl, lo, o) + One(y, o) = OwnersIn(h, sl, lo, o) + One(x, o)
  <2>1. Refs(tl, Slot, o) + One(sl[s], o) = Refs(sl, Slot, o) + One(tl[s], o)
    <3>1. IsFiniteSet(Slot) /\ \A t \in Slot \ {s} : tl[t] = sl[t]
      BY ObjectAssumption
    <3>2. ASSUME NEW S, IsFiniteSet(S), NEW r \in S, \A t \in S \ {r} : tl[t] = sl[t]
          PROVE  Refs(tl, S, o) + One(sl[r], o) = Refs(sl, S, o) + One(tl[r], o)
      BY <3>2, RefsStore
    <3>3. QED
      BY <3>1, <3>2
  <2>2. /\ Refs(tl, Slot, o) \in Nat /\ Refs(sl, Slot, o) \in Nat
        /\ Refs(Members(h), Object, o) \in Nat
    BY RefsFacts, ObjectAssumption
  <2>3. One(lo, o) \in Nat /\ One(x, o) \in Nat /\ One(y, o) \in Nat
    BY DEF One
  <2>4. Refs(tl, Slot, o) + One(y, o) = Refs(sl, Slot, o) + One(x, o)
    BY <2>1
  <2>5. QED
    BY <2>2, <2>3, <2>4 DEF OwnersIn
<1>2. QED
  BY <1>1, SoundTransfer

LEMMA SoundStoreLoose ==
  ASSUME NEW h, NEW sl, NEW lo, NEW x, NEW D, NEW ph, Sound(h, sl, lo, x, D, ph)
  PROVE  Sound(h, sl, x, lo, D, ph)
<1>1. ASSUME NEW o \in Object
      PROVE  OwnersIn(h, sl, x, o) + One(lo, o) = OwnersIn(h, sl, lo, o) + One(x, o)
  <2>1. Refs(sl, Slot, o) \in Nat /\ Refs(Members(h), Object, o) \in Nat
    BY RefsFacts, ObjectAssumption
  <2>2. One(lo, o) \in Nat /\ One(x, o) \in Nat
    BY DEF One
  <2>3. QED
    BY <2>1, <2>2 DEF OwnersIn
<1>2. QED
  BY <1>1, SoundTransfer

Stored(h, g, p, x) ==
  /\ g \in Heap
  /\ \A o \in Object :
       /\ g[o].state = h[o].state /\ g[o].class = h[o].class /\ g[o].mRefCnt = h[o].mRefCnt
       /\ g[o].proxy = h[o].proxy /\ g[o].mReferent = h[o].mReferent
       /\ g[o].member = IF o = p THEN x ELSE h[o].member

LEMMA StoreMember ==
  ASSUME NEW h \in Heap, NEW p \in Object, NEW x \in Pointer,
         NEW g, g = [h EXCEPT ![p].member = x]
  PROVE  Stored(h, g, p, x)
<1> DEFINE new == [h[p] EXCEPT !.member = x]
<1>1. /\ new \in Memory /\ new.member = x /\ new.state = h[p].state
      /\ new.class = h[p].class /\ new.mRefCnt = h[p].mRefCnt /\ new.proxy = h[p].proxy
      /\ new.mReferent = h[p].mReferent
  BY MemoryFacts DEF Memory
<1>2. g = [h EXCEPT ![p] = new]
  OBVIOUS
<1>3. g \in Heap /\ g[p] = new /\ \A o \in Object \ {p} : g[o] = h[o]
  BY <1>1, <1>2 DEF Heap
<1>4. ASSUME NEW o \in Object
      PROVE  /\ g[o].state = h[o].state /\ g[o].class = h[o].class /\ g[o].mRefCnt = h[o].mRefCnt
             /\ g[o].proxy = h[o].proxy /\ g[o].mReferent = h[o].mReferent
             /\ g[o].member = IF o = p THEN x ELSE h[o].member
  <2>1. CASE o = p
    BY <1>1, <1>3, <2>1
  <2>2. CASE o # p
    BY <1>3, <2>2
  <2>3. QED
    BY <2>1, <2>2
<1>5. QED
  BY <1>3, <1>4 DEF Stored

LEMMA SoundStoreMember ==
  ASSUME NEW h \in Heap, NEW p \in Object, NEW x \in Pointer, NEW sl, NEW lo, NEW D, NEW ph,
         Sound(h, sl, lo, x, D, ph), NEW g, Stored(h, g, p, x), NEW y, y = h[p].member
  PROVE  Sound(g, sl, lo, y, D, ph)
<1>1. \A o \in Object : g[o].state = h[o].state /\ g[o].mRefCnt = h[o].mRefCnt
                        /\ g[o].member = IF o = p THEN x ELSE h[o].member
  BY DEF Stored
<1>2. ASSUME NEW o \in Object
      PROVE  OwnersIn(g, sl, lo, o) + One(y, o) = OwnersIn(h, sl, lo, o) + One(x, o)
  <2>1. /\ Members(g)[p] = x /\ Members(h)[p] = y
        /\ \A q \in Object \ {p} : Members(g)[q] = Members(h)[q]
    BY <1>1 DEF Members
  <2>2. Refs(Members(g), Object, o) + One(Members(h)[p], o)
          = Refs(Members(h), Object, o) + One(Members(g)[p], o)
    BY <2>1, RefsStore, ObjectAssumption
  <2>3. /\ Refs(sl, Slot, o) \in Nat /\ Refs(Members(h), Object, o) \in Nat
        /\ Refs(Members(g), Object, o) \in Nat
    BY RefsFacts, ObjectAssumption
  <2>4. One(lo, o) \in Nat /\ One(x, o) \in Nat /\ One(y, o) \in Nat
    BY DEF One
  <2>5. QED
    BY <2>1, <2>2, <2>3, <2>4 DEF OwnersIn
<1>3. QED
  BY <1>1, <1>2, SoundTransfer

Falling(h, x) == IF LastRelease(h, x) THEN {x} ELSE {}

LEMMA SoundRelease ==
  ASSUME NEW h \in Heap, NEW x \in Pointer, NEW sl, NEW lo, NEW D, NEW ph,
         Sound(h, sl, lo, x, D, ph)
  PROVE  /\ Recounted(h, Release(h, x))
         /\ Sound(Release(h, x), sl, lo, NULL, D \cup Falling(h, x), ph)
         /\ LastRelease(h, x) => x \in Object \ D /\ h[x].state = "live"
<1> DEFINE g == Release(h, x)
           E == D \cup Falling(h, x)
<1>1. x # NULL => x \in Object /\ Owned(h, sl, lo, x, x)
  BY DEF Owned, Pointer
<1>2. x # NULL /\ h[x].state = "live" => x \notin D /\ h[x].mRefCnt > 0
  <2> SUFFICES ASSUME x # NULL, h[x].state = "live" PROVE x \notin D /\ h[x].mRefCnt > 0
    OBVIOUS
  <2>1. x \notin D
    BY <1>1 DEF Sound
  <2>2. h[x].mRefCnt = OwnersIn(h, sl, lo, x) + One(x, x)
    BY <1>1, <2>1 DEF Sound
  <2>3. OwnersIn(h, sl, lo, x) \in Nat /\ One(x, x) = 1
    BY <1>1, OwnersFacts DEF One
  <2>4. QED
    BY <2>1, <2>2, <2>3
<1>3. /\ Recounted(h, g)
      /\ \A o \in Object :
           g[o].mRefCnt = IF o = x /\ h[x].state = "live" /\ h[x].mRefCnt # 1
                            THEN h[x].mRefCnt - 1 ELSE h[o].mRefCnt
  BY <1>2, ReleaseFacts
<1>4. LastRelease(h, x) => x \in Object \ D /\ h[x].state = "live" /\ h[x].mRefCnt = 1
  BY <1>1, <1>2 DEF LastRelease, CCI_VerifyObject
<1>5. Sound(g, sl, lo, NULL, E, ph)
  <2> SUFFICES ASSUME NEW o \in Object
               PROVE  /\ g[o].state = "live" /\ o \notin E =>
                           g[o].mRefCnt = OwnersIn(g, sl, lo, o) + One(NULL, o)
                      /\ g[o].state = "live" /\ o \in E => g[o].mRefCnt = 1
                      /\ Owned(g, sl, lo, NULL, o) =>
                           /\ g[o].state # "free"
                           /\ o \in E => g[o].state # "live"
                           /\ ph = "running" => g[o].state = "live"
    BY DEF Sound
  <2>1. /\ OwnersIn(g, sl, lo, o) = OwnersIn(h, sl, lo, o) /\ g[o].state = h[o].state
        /\ Owned(g, sl, lo, NULL, o) <=> Owned(h, sl, lo, NULL, o)
    BY <1>3, SameMembers DEF Recounted
  <2>2. One(NULL, o) = 0 /\ OwnersIn(h, sl, lo, o) \in Nat
        /\ (Owned(h, sl, lo, NULL, o) => Owned(h, sl, lo, x, o)) /\ o # NULL
    BY ObjectAssumption, OwnersFacts DEF One, Owned
  <2>3. CASE o # x
    <3>1. g[o].mRefCnt = h[o].mRefCnt /\ (o \in E <=> o \in D) /\ One(x, o) = 0
      BY <1>3, <2>3 DEF Falling, One
    <3>2. QED
      BY <2>1, <2>2, <3>1 DEF Sound
  <2>4. CASE o = x /\ LastRelease(h, x)
    <3>1. h[o].state = "live" /\ h[o].mRefCnt = 1 /\ o \notin D /\ o \in E /\ One(x, o) = 1
      BY <1>4, <2>4 DEF Falling, One
    <3>2. OwnersIn(h, sl, lo, o) + 1 = 1
      BY <3>1 DEF Sound
    <3>3. ~Owned(h, sl, lo, NULL, o)
      BY <2>2, <3>2, OwnersFacts
    <3>4. QED
      BY <1>3, <2>1, <3>1, <3>3
  <2>5. CASE o = x /\ ~LastRelease(h, x)
    <3>1. (o \in E <=> o \in D) /\ One(x, o) = 1 /\ (h[o].state = "live" => h[o].mRefCnt # 1)
      BY <2>2, <2>5 DEF Falling, One, LastRelease, CCI_VerifyObject
    <3>2. h[o].state = "live" =>
            /\ o \notin D /\ h[o].mRefCnt = OwnersIn(h, sl, lo, o) + 1
            /\ g[o].mRefCnt = h[o].mRefCnt - 1
      BY <1>2, <1>3, <2>2, <2>5, <3>1 DEF Sound
    <3>3. g[o].state = "live" => o \notin E /\ g[o].mRefCnt = OwnersIn(g, sl, lo, o) + One(NULL, o)
      BY <2>1, <2>2, <3>1, <3>2
    <3>4. Owned(g, sl, lo, NULL, o) => Owned(h, sl, lo, x, o)
      BY <2>1, <2>2
    <3>5. QED
      BY <2>1, <3>1, <3>3, <3>4 DEF Sound
  <2>6. QED
    BY <2>3, <2>4, <2>5
<1>6. QED
  BY <1>3, <1>4, <1>5

-----------------------------------------------------------------------------
(* The allocator's list, linked at its end and unlinked anywhere.           *)
Distinct(list) == \A i, j \in 1..Len(list) : list[i] = list[j] => i = j

LEMMA LinkedFacts ==
  ASSUME NEW list \in Seq(Object), Distinct(list), NEW o \in Object, ~Listed(list, o),
         NEW more, more = Append(list, o)
  PROVE  /\ more \in Seq(Object) /\ Distinct(more)
         /\ \A p : Listed(more, p) <=> Listed(list, p) \/ p = o
         /\ \A p, q : Before(list, p, q) /\ q # o => Before(more, p, q)
         /\ \A p : Listed(list, p) => Before(more, p, o)
<1>1. /\ more \in Seq(Object) /\ Len(more) = Len(list) + 1 /\ Len(list) \in Nat
      /\ \A i \in 1..Len(list) : more[i] = list[i]
      /\ more[Len(list) + 1] = o
  BY AppendProperties
<1>2. \A i \in 1..Len(list) : list[i] # o
  BY DEF Listed
<1>3. Distinct(more)
  BY <1>1, <1>2 DEF Distinct
<1>4. ASSUME NEW p PROVE Listed(more, p) <=> Listed(list, p) \/ p = o
  BY <1>1 DEF Listed
<1>5. ASSUME NEW p, NEW q, Before(list, p, q), q # o PROVE Before(more, p, q)
  BY <1>1, <1>5 DEF Before
<1>6. ASSUME NEW p, Listed(list, p) PROVE Before(more, p, o)
  BY <1>1, <1>2, <1>6 DEF Before, Listed
<1>7. QED
  BY <1>1, <1>3, <1>4, <1>5, <1>6

LEMMA CutFacts ==
  ASSUME NEW list \in Seq(Object), Distinct(list), NEW k \in 1..Len(list),
         NEW o, o = list[k],
         NEW rest \in Seq(Object), Len(rest) = Len(list) - 1,
         \A i \in 1..Len(rest) : rest[i] = IF i < k THEN list[i] ELSE list[i + 1]
  PROVE  /\ Distinct(rest)
         /\ \A p : Listed(rest, p) <=> Listed(list, p) /\ p # o
         /\ \A p, q : Before(list, p, q) /\ p # o => Before(rest, p, q)
<1>1. ASSUME NEW i \in 1..Len(rest)
      PROVE  \E j \in 1..Len(list) :
               j # k /\ rest[i] = list[j] /\ j = IF i < k THEN i ELSE i + 1
  BY <1>1
<1>2. ASSUME NEW j \in 1..Len(list), j # k
      PROVE  \E i \in 1..Len(rest) : rest[i] = list[j] /\ i = IF j < k THEN j ELSE j - 1
  <2>1. CASE j < k
    BY <2>1
  <2>2. CASE j > k
    <3>1. j - 1 \in 1..Len(rest) /\ ~(j - 1 < k)
      BY <2>2
    <3>2. rest[j - 1] = list[j - 1 + 1]
      BY <3>1
    <3>3. QED
      BY <2>2, <3>1, <3>2
  <2>3. QED
    BY <1>2, <2>1, <2>2
<1>3. Distinct(rest)
  <2> SUFFICES ASSUME NEW i \in 1..Len(rest), NEW j \in 1..Len(rest), rest[i] = rest[j]
               PROVE  i = j
    BY DEF Distinct
  <2>1. PICK a \in 1..Len(list) : rest[i] = list[a] /\ a = IF i < k THEN i ELSE i + 1
    BY <1>1
  <2>2. PICK b \in 1..Len(list) : rest[j] = list[b] /\ b = IF j < k THEN j ELSE j + 1
    BY <1>1
  <2>3. a = b
    BY <2>1, <2>2 DEF Distinct
  <2>4. QED
    BY <2>1, <2>2, <2>3
<1>4. ASSUME NEW p PROVE Listed(rest, p) <=> Listed(list, p) /\ p # o
  <2>1. ASSUME Listed(rest, p) PROVE Listed(list, p) /\ p # o
    <3>1. PICK i \in 1..Len(rest) : rest[i] = p
      BY <2>1 DEF Listed
    <3>2. PICK j \in 1..Len(list) : j # k /\ p = list[j]
      BY <1>1, <3>1
    <3>3. QED
      BY <3>2 DEF Listed, Distinct
  <2>2. ASSUME Listed(list, p), p # o PROVE Listed(rest, p)
    <3>1. PICK j \in 1..Len(list) : list[j] = p /\ j # k
      BY <2>2 DEF Listed
    <3>2. QED
      BY <1>2, <3>1 DEF Listed
  <2>3. QED
    BY <2>1, <2>2
<1>5. ASSUME NEW p, NEW q, Before(list, p, q), p # o PROVE Before(rest, p, q)
  <2> SUFFICES ASSUME NEW i \in 1..Len(rest), rest[i] = q
               PROVE  \E j \in 1..Len(rest) : j < i /\ rest[j] = p
    BY DEF Before
  <2>1. PICK a \in 1..Len(list) : rest[i] = list[a] /\ a = IF i < k THEN i ELSE i + 1
    BY <1>1
  <2>2. PICK b \in 1..Len(list) : b < a /\ list[b] = p
    BY <1>5, <2>1 DEF Before
  <2>3. b # k
    BY <1>5, <2>2
  <2>4. PICK j \in 1..Len(rest) : rest[j] = list[b] /\ j = IF b < k THEN b ELSE b - 1
    BY <1>2, <2>3
  <2>5. i \in Int /\ b \in Int /\ k \in Int /\ a \in Int /\ j \in Int
    OBVIOUS
  <2>6. j < i
    BY <2>1, <2>2, <2>3, <2>4, <2>5
  <2>7. QED
    BY <2>2, <2>4, <2>6
<1>6. QED
  BY <1>3, <1>4, <1>5

LEMMA UnlinkedFacts ==
  ASSUME NEW list \in Seq(Object), Distinct(list), NEW o \in Object,
         NEW rest, rest = RemoveFirst(list, o)
  PROVE  /\ rest \in Seq(Object) /\ Distinct(rest)
         /\ \A p : Listed(rest, p) <=> Listed(list, p) /\ p # o
         /\ \A p, q : Before(list, p, q) /\ p # o => Before(rest, p, q)
<1>1. CASE ~Listed(list, o)
  <2>1. rest = list
    BY <1>1 DEF RemoveFirst, Listed
  <2>2. QED
    BY <1>1, <2>1 DEF Listed
<1>2. CASE Listed(list, o)
  <2>1. PICK k \in 1..Len(list) : list[k] = o
    BY <1>2 DEF Listed
  <2>2. SelectInSeq(list, LAMBDA v : v = o) = k
    <3>1. {i \in 1..Len(list) : list[i] = o} = {k}
      BY <2>1 DEF Distinct
    <3>2. Min({k}) = k
      BY <2>1 DEF Min
    <3>3. QED
      BY <3>1, <3>2 DEF SelectInSeq
  <2>3. rest = RemoveAt(list, k)
    BY <1>2, <2>2 DEF RemoveFirst, Listed
  <2>4. /\ rest \in Seq(Object) /\ Len(rest) = Len(list) - 1
        /\ \A i \in 1..Len(rest) : rest[i] = IF i < k THEN list[i] ELSE list[i + 1]
    <3> DEFINE one == SubSeq(list, 1, k - 1)
               two == SubSeq(list, k + 1, Len(list))
    <3>1. /\ one \in Seq(Object) /\ Len(one) = k - 1
          /\ \A i \in 1..(k - 1) : one[i] = list[i]
      BY <2>1, SubSeqProperties
    <3>2. /\ two \in Seq(Object) /\ Len(two) = Len(list) - k
          /\ \A i \in 1..(Len(list) - k) : two[i] = list[i + k]
      BY <2>1, SubSeqProperties
    <3>3. rest = one \o two
      BY <2>3 DEF RemoveAt
    <3> HIDE DEF one, two
    <3>4. /\ rest \in Seq(Object) /\ Len(rest) = Len(one) + Len(two)
          /\ \A i \in 1..(Len(one) + Len(two)) :
               rest[i] = IF i <= Len(one) THEN one[i] ELSE two[i - Len(one)]
      <4>1. one \in Seq(Object) /\ two \in Seq(Object)
        BY <3>1, <3>2
      <4>2. /\ one \o two \in Seq(Object) /\ Len(one \o two) = Len(one) + Len(two)
            /\ \A i \in 1..(Len(one) + Len(two)) :
                 (one \o two)[i] = IF i <= Len(one) THEN one[i] ELSE two[i - Len(one)]
        BY <4>1, ConcatProperties
      <4>3. QED
        BY <3>3, <4>2
    <3>5. Len(list) \in Int /\ k \in Int /\ Len(rest) = Len(list) - 1
      BY <2>1, <3>1, <3>2, <3>4
    <3>6. ASSUME NEW i \in 1..Len(rest)
          PROVE  rest[i] = IF i < k THEN list[i] ELSE list[i + 1]
      <4>1. CASE i < k
        BY <3>1, <3>4, <3>5, <4>1
      <4>2. CASE ~(i < k)
        <5>1. rest[i] = two[i - (k - 1)] /\ i - (k - 1) \in 1..(Len(list) - k)
          BY <3>1, <3>2, <3>4, <3>5, <4>2
        <5>2. two[i - (k - 1)] = list[i - (k - 1) + k] /\ i - (k - 1) + k = i + 1
          BY <3>2, <3>5, <5>1
        <5>3. QED
          BY <4>2, <5>1, <5>2
      <4>3. QED
        BY <4>1, <4>2
    <3>7. QED
      BY <3>4, <3>5, <3>6
  <2>5. QED
    BY <2>1, <2>4, CutFacts
<1>3. QED
  BY <1>1, <1>2

LEMMA PoppedFacts ==
  ASSUME NEW list \in Seq(Object), Distinct(list), list # <<>>,
         NEW rest, rest = Front(list)
  PROVE  /\ Last(list) \in Object /\ Listed(list, Last(list))
         /\ rest \in Seq(Object) /\ Distinct(rest)
         /\ \A p : Listed(rest, p) <=> Listed(list, p) /\ p # Last(list)
         /\ \A p, q : Before(list, p, q) /\ p # Last(list) => Before(rest, p, q)
         /\ \A q : ~(Before(list, Last(list), q) /\ Listed(list, q))
<1>1. Len(list) \in Nat \ {0} /\ Last(list) = list[Len(list)] /\ Last(list) \in Object
  BY DEF Last
<1>2. /\ rest \in Seq(Object) /\ Len(rest) = Len(list) - 1
      /\ \A i \in 1..Len(rest) : rest[i] = list[i]
  <2>1. /\ SubSeq(list, 1, Len(list) - 1) \in Seq(Object)
        /\ Len(SubSeq(list, 1, Len(list) - 1)) = Len(list) - 1
        /\ \A i \in 1..(Len(list) - 1) : SubSeq(list, 1, Len(list) - 1)[i] = list[i]
    <3>1. /\ 1 \in Int /\ Len(list) - 1 \in Int /\ \A i \in 1..(Len(list) - 1) : list[i] \in Object
          /\ Len(list) - 1 - 1 + 1 = Len(list) - 1
      BY <1>1
    <3>2. /\ SubSeq(list, 1, Len(list) - 1) \in Seq(Object)
          /\ Len(SubSeq(list, 1, Len(list) - 1)) =
               IF 1 <= Len(list) - 1 THEN Len(list) - 1 - 1 + 1 ELSE 0
          /\ \A i \in 1..(Len(list) - 1 - 1 + 1) :
               SubSeq(list, 1, Len(list) - 1)[i] = list[1 + i - 1]
      BY <3>1, SubSeqProperties
    <3>3. \A i \in 1..(Len(list) - 1) : 1 + i - 1 = i
      BY <1>1
    <3>4. QED
      BY <1>1, <3>1, <3>2, <3>3
  <2>2. QED
    BY <2>1 DEF Front
<1>3. Distinct(rest)
  BY <1>1, <1>2 DEF Distinct
<1>4. ASSUME NEW p PROVE Listed(rest, p) <=> Listed(list, p) /\ p # Last(list)
  BY <1>1, <1>2 DEF Distinct, Listed
<1>5. ASSUME NEW p, NEW q, Before(list, p, q), p # Last(list) PROVE Before(rest, p, q)
  <2>1. SUFFICES ASSUME NEW i \in 1..Len(rest), rest[i] = q
                 PROVE  \E j \in 1..Len(rest) : j < i /\ rest[j] = p
    BY DEF Before
  <2>2. i \in 1..Len(list) /\ list[i] = q
    BY <1>1, <1>2, <2>1
  <2>3. PICK j \in 1..Len(list) : j < i /\ list[j] = p
    BY <1>5, <2>2 DEF Before
  <2>4. j \in 1..Len(rest)
    BY <1>1, <1>2, <2>3
  <2>5. QED
    BY <1>2, <2>3, <2>4
<1>6. ASSUME NEW q PROVE ~(Before(list, Last(list), q) /\ Listed(list, q))
  BY <1>1 DEF Distinct, Before, Listed
<1>7. Listed(list, Last(list))
  BY <1>1 DEF Listed
<1>8. QED
  BY <1>1, <1>2, <1>3, <1>4, <1>5, <1>6, <1>7

-----------------------------------------------------------------------------
(* The state between two steps of an operation that has one reference,      *)
(* hand, to give away.                                                      *)
Structure(h, list, ph) ==
  ListInv(h, list) /\ HolderInv(h, list) /\ WeakInv(h) /\ MemoryInv(h, ph)

Consistent(h, sl, lo, hand, list, st, ph) ==
  /\ h \in Heap /\ list \in Seq(Object) /\ st \in Seq(Frame) /\ ph \in {"running", "collecting"}
  /\ Sound(h, sl, lo, hand, DyingIn(st), ph)
  /\ Structure(h, list, ph) /\ StackInv(h, st, ph)

LEMMA StructureRecounted ==
  ASSUME NEW h \in Heap, NEW g, NEW list, NEW ph, ph # "released",
         Structure(h, list, ph), Recounted(h, g),
         \A o \in Object : h[o].state = "free" => g[o].mRefCnt = h[o].mRefCnt
  PROVE  Structure(g, list, ph)
<1>1. \A o \in Object :
        /\ g[o].state = h[o].state /\ g[o].class = h[o].class /\ g[o].member = h[o].member
        /\ g[o].proxy = h[o].proxy /\ g[o].mReferent = h[o].mReferent
  BY DEF Recounted
<1>2. ListInv(g, list)
  BY <1>1 DEF Structure, ListInv
<1>3. HolderInv(g, list)
  <2> SUFFICES ASSUME NEW o \in Object
               PROVE  /\ g[o].class = "holder" /\ g[o].member # NULL =>
                           g[g[o].member].state = "live" /\ Before(list, g[o].member, o)
                      /\ g[o].class = "proxy" => g[o].member = NULL
    BY DEF HolderInv
  <2>1. h[o].member \in Pointer
    BY MemoryFacts
  <2>2. QED
    BY <1>1, <2>1 DEF Structure, HolderInv, Pointer
<1>4. WeakInv(g)
  <2> SUFFICES ASSUME NEW o \in Object
               PROVE  /\ g[o].proxy # NULL =>
                           /\ g[o].class = "plain" /\ g[g[o].proxy].mReferent = o
                           /\ g[g[o].proxy].state \in {"live", "revoked"}
                      /\ g[o].mReferent # NULL =>
                           /\ g[o].class = "proxy" /\ g[g[o].mReferent].proxy = o
                           /\ g[g[o].mReferent].state \in {"live", "revoked"}
    BY DEF WeakInv
  <2>1. h[o].proxy \in Pointer /\ h[o].mReferent \in Pointer
    BY MemoryFacts
  <2>2. QED
    BY <1>1, <2>1 DEF Structure, WeakInv, Pointer
<1>5. MemoryInv(g, ph)
  <2> SUFFICES ASSUME NEW o \in Object
               PROVE  /\ g[o].state = "free" => g[o] = Free
                      /\ g[o].state = "rotted" => g[o].member = NULL
                      /\ ph = "running" => g[o].state \in {"free", "live"}
    BY DEF MemoryInv
  <2>1. g[o].state = "free" => g[o] = h[o]
    <3>1. g[o] \in Memory /\ h[o] \in Memory
      BY DEF Recounted, Heap
    <3>2. QED
      BY <1>1, <3>1 DEF Memory
  <2>2. QED
    BY <1>1, <2>1 DEF Structure, MemoryInv
<1>6. QED
  BY <1>2, <1>3, <1>4, <1>5 DEF Structure

LEMMA StackRecounted ==
  ASSUME NEW h, NEW g, NEW st \in Seq(Frame), NEW ph, StackInv(h, st, ph), Recounted(h, g)
  PROVE  StackInv(g, st, ph)
<1>1. \A i \in 1..Len(st) : st[i].object \in Object
  <2>1. \A i \in 1..Len(st) : st[i] \in Frame
    OBVIOUS
  <2>2. QED
    BY <2>1 DEF Frame
<1>2. ASSUME NEW i \in 1..Len(st) PROVE FrameInv(g, st[i], ph)
  BY <1>1 DEF StackInv, FrameInv, Recounted
<1>3. \A o \in Object : g[o].state = "revoked" => o \in DyingIn(st)
  BY DEF StackInv, Recounted
<1>4. QED
  BY <1>2, <1>3 DEF StackInv

LEMMA StackPush ==
  ASSUME NEW h, NEW st \in Seq(Frame), NEW ph, ph # "released", StackInv(h, st, ph),
         NEW x \in Object, h[x].state = "live", x \notin DyingIn(st),
         NEW more, more = st \o <<Destructor(x, "delete")>>
  PROVE  /\ more \in Seq(Frame) /\ DyingIn(more) = DyingIn(st) \cup {x}
         /\ StackInv(h, more, ph)
<1> DEFINE fr == Destructor(x, "delete")
<1>1. /\ fr \in Frame /\ fr.object = x /\ fr.step = "body" /\ fr.by = "delete"
  BY DEF Destructor, Frame, Step
<1>2. /\ more \in Seq(Frame) /\ Len(more) = Len(st) + 1 /\ Len(st) \in Nat
      /\ \A i \in 1..Len(st) : more[i] = st[i]
      /\ more[Len(st) + 1] = fr
  <2> HIDE DEF fr
  <2>1. more = Append(st, fr)
    BY <1>1 DEF fr
  <2>2. QED
    BY <1>1, <2>1, AppendProperties
<1> HIDE DEF fr
<1>3. \A i \in 1..Len(more) : i \in 1..Len(st) \/ i = Len(st) + 1
  BY <1>2
<1>4. DyingIn(more) = DyingIn(st) \cup {x}
  <2>1. \A i \in 1..Len(st) : i \in 1..Len(more)
    BY <1>2
  <2>2. Len(st) + 1 \in 1..Len(more)
    BY <1>2
  <2>3. QED
    BY <1>1, <1>2, <1>3, <2>1, <2>2 DEF DyingIn
<1>5. FrameInv(h, fr, ph)
  BY <1>1 DEF FrameInv
<1>6. \A i \in 1..Len(more) : FrameInv(h, more[i], ph)
  BY <1>2, <1>3, <1>5 DEF StackInv
<1>7. \A i, j \in 1..Len(more) : more[i].object = more[j].object => i = j
  <2>1. \A i \in 1..Len(st) : st[i].object # x
    BY DEF DyingIn
  <2>2. QED
    BY <1>1, <1>2, <1>3, <2>1 DEF StackInv
<1>8. QED
  BY <1>2, <1>4, <1>6, <1>7 DEF StackInv

LEMMA AddRefKeeps ==
  ASSUME NEW h, NEW sl, NEW lo, NEW list, NEW st, NEW ph, NEW x \in Pointer,
         Consistent(h, sl, lo, NULL, list, st, ph),
         x # NULL => h[x].state = "live" /\ x \notin DyingIn(st)
  PROVE  Consistent(AddRef(h, x), sl, lo, x, list, st, ph)
<1>1. h \in Heap
  BY DEF Consistent
<1>2. /\ Recounted(h, AddRef(h, x))
      /\ \A o \in Object : AddRef(h, x)[o].mRefCnt = h[o].mRefCnt + One(x, o)
  BY <1>1, AddRefFacts
<1>3. Sound(AddRef(h, x), sl, lo, x, DyingIn(st), ph)
  BY <1>1, SoundAddRef DEF Consistent
<1>4. ASSUME NEW o \in Object, h[o].state = "free"
      PROVE  AddRef(h, x)[o].mRefCnt = h[o].mRefCnt
  <2>1. o # x /\ h[o].mRefCnt \in Nat
    BY <1>1, <1>4, ObjectAssumption, MemoryFacts
  <2>2. QED
    BY <1>2, <2>1 DEF One
<1>5. Structure(AddRef(h, x), list, ph)
  BY <1>1, <1>2, <1>4, StructureRecounted DEF Consistent
<1>6. StackInv(AddRef(h, x), st, ph)
  BY <1>2, StackRecounted DEF Consistent
<1>7. QED
  BY <1>2, <1>3, <1>5, <1>6 DEF Consistent, Recounted

LEMMA ReleaseKeeps ==
  ASSUME NEW h, NEW sl, NEW lo, NEW list, NEW st, NEW ph, NEW x \in Pointer,
         Consistent(h, sl, lo, x, list, st, ph),
         NEW more, more = st \o Delete(h, x)
  PROVE  Consistent(Release(h, x), sl, lo, NULL, list, more, ph)
<1> DEFINE g == Release(h, x)
<1>1. h \in Heap /\ st \in Seq(Frame) /\ ph # "released" /\ Structure(h, list, ph)
      /\ StackInv(h, st, ph) /\ Sound(h, sl, lo, x, DyingIn(st), ph)
  BY DEF Consistent
<1>2. /\ Recounted(h, g)
      /\ Sound(g, sl, lo, NULL, DyingIn(st) \cup Falling(h, x), ph)
      /\ LastRelease(h, x) => x \in Object \ DyingIn(st) /\ h[x].state = "live"
  BY <1>1, SoundRelease
<1>3. \A o \in Object : h[o].state = "free" => g[o].mRefCnt = h[o].mRefCnt
  <2>1. CASE x = NULL \/ h[x].state # "live"
    BY <2>1 DEF Release, CCI_VerifyObject
  <2>2. CASE x # NULL /\ h[x].state = "live"
    <3>1. g = h \/ g = [h EXCEPT ![x].mRefCnt = @ - 1]
      BY DEF Release, Stabilized
    <3>2. \A o \in Object : o # x => g[o] = h[o]
      BY <3>1, <1>1 DEF Heap
    <3>3. QED
      BY <2>2, <3>2
  <2>3. QED
    BY <2>1, <2>2
<1>4. Structure(g, list, ph)
  BY <1>1, <1>2, <1>3, StructureRecounted
<1>5. /\ more \in Seq(Frame) /\ DyingIn(more) = DyingIn(st) \cup Falling(h, x)
      /\ StackInv(h, more, ph)
  <2>1. CASE LastRelease(h, x)
    <3>1. more = st \o <<Destructor(x, "delete")>> /\ Falling(h, x) = {x}
      BY <2>1 DEF Delete, Falling
    <3>2. x \in Object /\ h[x].state = "live" /\ x \notin DyingIn(st)
      BY <1>2, <2>1
    <3>3. /\ more \in Seq(Frame) /\ DyingIn(more) = DyingIn(st) \cup {x}
          /\ StackInv(h, more, ph)
      <4>1. ph # "released" /\ st \in Seq(Frame) /\ StackInv(h, st, ph)
        BY <1>1
      <4>2. QED
        BY <3>1, <3>2, <4>1, StackPush
    <3>4. QED
      BY <3>1, <3>3
  <2>2. CASE ~LastRelease(h, x)
    <3>1. more = st /\ Falling(h, x) = {}
      BY <1>1, <2>2, ConcatEmptySeq DEF Delete, Falling
    <3>2. QED
      BY <1>1, <3>1
  <2>3. QED
    BY <2>1, <2>2
<1>6. StackInv(g, more, ph)
  BY <1>2, <1>5, StackRecounted
<1>7. QED
  BY <1>2, <1>4, <1>5, <1>6 DEF Consistent, Recounted

LEMMA StoreSlotKeeps ==
  ASSUME NEW h, NEW sl, NEW lo, NEW list, NEW st, NEW ph, NEW x, NEW s \in Slot,
         Consistent(h, sl, lo, x, list, st, ph),
         NEW tl, tl[s] = x, \A t \in Slot \ {s} : tl[t] = sl[t], NEW y, y = sl[s]
  PROVE  Consistent(h, tl, lo, y, list, st, ph)
<1>1. Sound(h, sl, lo, x, DyingIn(st), ph)
  BY DEF Consistent
<1>2. Sound(h, tl, lo, y, DyingIn(st), ph)
  BY <1>1, SoundStoreSlot
<1>3. QED
  BY <1>2 DEF Consistent

LEMMA StoreLooseKeeps ==
  ASSUME NEW h, NEW sl, NEW lo, NEW list, NEW st, NEW ph, NEW x,
         Consistent(h, sl, lo, x, list, st, ph)
  PROVE  Consistent(h, sl, x, lo, list, st, ph)
<1>1. Sound(h, sl, lo, x, DyingIn(st), ph)
  BY DEF Consistent
<1>2. Sound(h, sl, x, lo, DyingIn(st), ph)
  BY <1>1, SoundStoreLoose
<1>3. QED
  BY <1>2 DEF Consistent

-----------------------------------------------------------------------------
(* The program.                                                             *)
VariablesInv ==
  /\ slot \in [Slot -> Pointer] /\ loose \in Pointer /\ filling \in Slot \cup {NULL}
  /\ filling # NULL => slot[filling] = NULL

LEMMA Opening ==
  ASSUME OInv, phase # "released"
  PROVE  VariablesInv /\ Consistent(heap, slot, loose, NULL, mInstances, stack, phase)
  BY DEF OInv, TypeOK, VariablesInv, Consistent, Structure, Heap

LEMMA Closing ==
  ASSUME VariablesInv', Consistent(heap', slot', loose', NULL, mInstances', stack', phase')
  PROVE  OInv'
  BY DEF OInv, TypeOK, VariablesInv, Consistent, Structure, Heap

LEMMA NobodyDies == DyingIn(<<>>) = {}
  BY DEF DyingIn

LEMMA OwnedLive ==
  ASSUME NEW h, NEW sl, NEW lo, NEW hand, NEW list, NEW st, NEW o \in Object,
         Consistent(h, sl, lo, hand, list, st, "running"), Owned(h, sl, lo, hand, o)
  PROVE  h[o].state = "live"
  BY DEF Consistent, Sound

LEMMA VariablesOwn ==
  ASSUME NEW h, NEW sl \in [Slot -> Pointer], NEW lo, NEW hand, NEW list, NEW st,
         NEW x \in Range(sl) \cup {NULL}, Consistent(h, sl, lo, hand, list, st, "running")
  PROVE  x \in Pointer /\ (x # NULL => h[x].state = "live")
<1>1. CASE x = NULL
  BY <1>1 DEF Pointer
<1>2. CASE x # NULL
  <2>1. PICK s \in Slot : sl[s] = x
    BY <1>2 DEF Range
  <2>2. x \in Object /\ Owned(h, sl, lo, hand, x)
    BY <1>2, <2>1 DEF Pointer, Owned
  <2>3. QED
    BY <2>2, OwnedLive DEF Pointer
<1>3. QED
  BY <1>1, <1>2

(* The writes of an assignment: the variable first, then the release.       *)
LEMMA AssignKeeps ==
  ASSUME NEW h, NEW sl \in [Slot -> Pointer], NEW lo, NEW list, NEW st, NEW ph,
         NEW s \in Slot, NEW x \in Pointer, Consistent(h, sl, lo, x, list, st, ph)
  PROVE  /\ [sl EXCEPT ![s] = x] \in [Slot -> Pointer]
         /\ Consistent(Release(h, sl[s]), [sl EXCEPT ![s] = x], lo, NULL, list,
                       st \o Delete(h, sl[s]), ph)
<1> DEFINE tl == [sl EXCEPT ![s] = x]
<1>1. tl \in [Slot -> Pointer] /\ tl[s] = x /\ \A t \in Slot \ {s} : tl[t] = sl[t]
  OBVIOUS
<1> HIDE DEF tl
<1>2. ASSUME NEW y, y = sl[s] PROVE Consistent(h, tl, lo, y, list, st, ph)
  BY <1>1, <1>2, StoreSlotKeeps
<1>3. sl[s] \in Pointer /\ Consistent(h, tl, lo, sl[s], list, st, ph)
  BY <1>2
<1>4. Consistent(Release(h, sl[s]), tl, lo, NULL, list, st \o Delete(h, sl[s]), ph)
  BY <1>3, ReleaseKeeps
<1>5. QED
  BY <1>1, <1>4 DEF tl

(* An assignment of a value that is counted for it.                         *)
LEMMA AssignedKeeps ==
  ASSUME OInv, NEW h, NEW s \in Slot, NEW x \in Pointer, filling = NULL,
         AssignAssumingAddRef(h, s, x), Kept,
         Consistent(h, slot, loose, x, mInstances', stack, phase)
  PROVE  OInv'
<1>1. slot \in [Slot -> Pointer] /\ loose \in Pointer
  BY DEF OInv, TypeOK
<1>2. /\ slot' \in [Slot -> Pointer]
      /\ Consistent(heap', slot', loose, NULL, mInstances', stack', phase)
  BY <1>1, AssignKeeps DEF AssignAssumingAddRef
<1>3. QED
  BY <1>1, <1>2, Closing DEF Kept, VariablesInv

LEMMA CountedKeeps ==
  ASSUME OInv, NEW s \in Slot, NEW x \in Pointer, Running, x # NULL => heap[x].state = "live",
         AssignAssumingAddRef(AddRef(heap, x), s, x), Kept, UNCHANGED mInstances
  PROVE  OInv'
<1>1. Consistent(heap, slot, loose, NULL, mInstances, stack, phase)
  BY Opening DEF Running
<1>2. Consistent(AddRef(heap, x), slot, loose, x, mInstances, stack, phase)
  BY <1>1, AddRefKeeps, NobodyDies DEF Running
<1>3. QED
  BY <1>2, AssignedKeeps DEF Running

LEMMA AssignStep ==
  ASSUME OInv, NEW s \in Slot, NEW x \in Pointer, Assign(s, x) PROVE OInv'
<1>1. Consistent(heap, slot, loose, NULL, mInstances, stack, "running")
  BY Opening DEF Assign, Running
<1>2. slot \in [Slot -> Pointer] /\ x \in Range(slot) \cup {NULL}
  BY DEF OInv, TypeOK, Assign
<1>3. x # NULL => heap[x].state = "live"
  BY <1>1, <1>2, VariablesOwn
<1>4. QED
  BY <1>3, CountedKeeps DEF Assign

LEMMA AssignFromCallStep ==
  ASSUME OInv, NEW s \in Slot, NEW x \in Pointer, AssignFromCall(s, x) PROVE OInv'
<1>1. x # NULL => heap[x].state = "live"
  BY DEF AssignFromCall, Live
<1>2. QED
  BY <1>1, CountedKeeps DEF AssignFromCall

LEMMA SwapStep ==
  ASSUME OInv, NEW s \in Slot, NEW t \in Slot, Swap(s, t) PROVE OInv'
<1>1. VariablesInv /\ Consistent(heap, slot, loose, NULL, mInstances, stack, phase)
  BY Opening DEF Swap, Running
<1>2. slot \in [Slot -> Pointer] /\ loose \in Pointer /\ s # t
  BY <1>1 DEF VariablesInv, Swap
<1> DEFINE a == [slot EXCEPT ![s] = NULL]
           b == [a EXCEPT ![t] = slot[s]]
<1>3. /\ a[s] = NULL /\ \A u \in Slot \ {s} : a[u] = slot[u]
      /\ b[t] = slot[s] /\ \A u \in Slot \ {t} : b[u] = a[u]
      /\ slot'[s] = slot[t] /\ \A u \in Slot \ {s} : slot'[u] = b[u]
      /\ slot' \in [Slot -> Pointer] /\ a[t] = slot[t] /\ b[s] = NULL
  BY <1>2 DEF Swap
<1> HIDE DEF a, b
<1>4. ASSUME NEW x, x = slot[s], NEW y, y = slot[t]
      PROVE  Consistent(heap, slot', loose, NULL, mInstances, stack, phase)
  <2>1. Consistent(heap, a, loose, x, mInstances, stack, phase)
    BY <1>1, <1>3, <1>4, StoreSlotKeeps
  <2>2. Consistent(heap, b, loose, y, mInstances, stack, phase)
    BY <1>3, <1>4, <2>1, StoreSlotKeeps
  <2>3. QED
    BY <1>3, <1>4, <2>2, StoreSlotKeeps
<1>5. Consistent(heap, slot', loose, NULL, mInstances, stack, phase)
  BY <1>4
<1>6. QED
  BY <1>2, <1>3, <1>5, Closing DEF Swap, Kept, Running, VariablesInv

LEMMA ForgetStep ==
  ASSUME OInv, NEW s \in Slot, Forget(s) PROVE OInv'
<1>1. VariablesInv /\ Consistent(heap, slot, loose, NULL, mInstances, stack, phase)
  BY Opening DEF Forget, Running
<1>2. /\ slot \in [Slot -> Pointer] /\ loose = NULL /\ filling = NULL
      /\ slot'[s] = NULL /\ \A u \in Slot \ {s} : slot'[u] = slot[u]
      /\ slot' \in [Slot -> Pointer] /\ slot[s] \in Pointer
  BY <1>1 DEF VariablesInv, Forget, Running, Pointer
<1>3. ASSUME NEW x, x = slot[s]
      PROVE  Consistent(heap, slot', x, NULL, mInstances, stack, phase)
  <2>1. Consistent(heap, slot', loose, x, mInstances, stack, phase)
    BY <1>1, <1>2, <1>3, StoreSlotKeeps
  <2>2. QED
    BY <1>2, <2>1, StoreLooseKeeps
<1>4. Consistent(heap, slot', slot[s], NULL, mInstances, stack, phase)
  BY <1>3
<1>5. QED
  BY <1>2, <1>4, Closing DEF Forget, VariablesInv

LEMMA AssignAddRefedStep ==
  ASSUME OInv, NEW s \in Slot, AssignAddRefed(s) PROVE OInv'
<1>1. VariablesInv /\ Consistent(heap, slot, loose, NULL, mInstances, stack, phase)
  BY Opening DEF AssignAddRefed, Running
<1>2. Consistent(heap, slot, NULL, loose, mInstances, stack, phase)
  BY <1>1, StoreLooseKeeps
<1>3. /\ slot' \in [Slot -> Pointer]
      /\ Consistent(heap', slot', NULL, NULL, mInstances, stack', phase)
  BY <1>1, <1>2, AssignKeeps DEF AssignAddRefed, AssignAssumingAddRef, VariablesInv
<1>4. QED
  BY <1>1, <1>3, Closing DEF AssignAddRefed, Running, VariablesInv, Pointer

LEMMA StartAssignmentStep ==
  ASSUME OInv, NEW s \in Slot, StartAssignment(s) PROVE OInv'
<1>1. VariablesInv /\ Consistent(heap, slot, loose, NULL, mInstances, stack, phase)
  BY Opening DEF StartAssignment, Running
<1>2. NULL \in Pointer /\ slot \in [Slot -> Pointer] /\ loose \in Pointer
  BY <1>1 DEF Pointer, VariablesInv
<1>3. /\ slot' \in [Slot -> Pointer] /\ slot'[s] = NULL
      /\ Consistent(heap', slot', loose, NULL, mInstances, stack', phase)
  BY <1>1, <1>2, AssignKeeps DEF StartAssignment, AssignAssumingAddRef
<1>4. QED
  BY <1>2, <1>3, Closing DEF StartAssignment, VariablesInv

LEMMA CalleeReturnsStep ==
  ASSUME OInv, NEW x \in Pointer, CalleeReturns(x) PROVE OInv'
<1>1. VariablesInv /\ Consistent(heap, slot, loose, NULL, mInstances, stack, phase)
  BY Opening DEF CalleeReturns
<1>2. /\ filling \in Slot /\ slot[filling] = NULL /\ slot \in [Slot -> Pointer]
      /\ loose \in Pointer /\ (x # NULL => heap[x].state = "live")
  BY <1>1 DEF VariablesInv, CalleeReturns, Live
<1>3. Consistent(heap', slot, loose, x, mInstances, stack, phase)
  <2>1. heap' = AddRef(heap, x) /\ x \notin DyingIn(stack)
    BY NobodyDies DEF CalleeReturns
  <2>2. Consistent(AddRef(heap, x), slot, loose, x, mInstances, stack, phase)
    BY <1>1, <1>2, <2>1, AddRefKeeps
  <2>3. QED
    BY <2>1, <2>2
<1>4. /\ slot' \in [Slot -> Pointer] /\ slot'[filling] = x
      /\ \A u \in Slot \ {filling} : slot'[u] = slot[u]
  BY <1>2 DEF CalleeReturns
<1>5. ASSUME NEW y, y = slot[filling]
      PROVE  Consistent(heap', slot', loose, y, mInstances, stack, phase)
  BY <1>2, <1>3, <1>4, <1>5, StoreSlotKeeps
<1>6. Consistent(heap', slot', loose', NULL, mInstances', stack', phase')
  <2>1. Consistent(heap', slot', loose, slot[filling], mInstances, stack, phase)
    BY <1>5
  <2>2. QED
    BY <1>2, <2>1 DEF CalleeReturns
<1>7. VariablesInv'
  BY <1>2, <1>4 DEF CalleeReturns, VariablesInv
<1>8. QED
  BY <1>6, <1>7, Closing

(* g is h with the new object o, which owns v and is the proxy of r.        *)
Made(h, g, o, c, v, r) ==
  /\ g \in Heap
  /\ g[o].state = "live" /\ g[o].class = c /\ g[o].mRefCnt = 0 /\ g[o].member = v
  /\ g[o].proxy = NULL /\ g[o].mReferent = r
  /\ \A p \in Object \ {o} :
       /\ g[p].state = h[p].state /\ g[p].class = h[p].class /\ g[p].member = h[p].member
       /\ g[p].mReferent = h[p].mReferent /\ g[p].mRefCnt = h[p].mRefCnt + One(v, p)
       /\ g[p].proxy = IF p = r THEN o ELSE h[p].proxy

LEMMA MadeSound ==
  ASSUME NEW h \in Heap, NEW g, NEW sl, NEW lo, NEW o \in Object, NEW c, NEW v \in Pointer, NEW r,
         Sound(h, sl, lo, NULL, {}, "running"), Made(h, g, o, c, v, r),
         h[o] = Free, v # NULL => h[v].state = "live"
  PROVE  Sound(g, sl, lo, NULL, {}, "running")
<1>1. /\ g[o].state = "live" /\ g[o].member = v /\ g[o].mRefCnt = 0 /\ h[o].member = NULL
      /\ h[o].state = "free"
      /\ \A p \in Object \ {o} : /\ g[p].state = h[p].state /\ g[p].member = h[p].member
                                 /\ g[p].mRefCnt = h[p].mRefCnt + One(v, p)
  BY DEF Made, Free
<1>2. v # o
  BY <1>1, ObjectAssumption
<1> SUFFICES ASSUME NEW p \in Object
             PROVE  /\ g[p].state = "live" => g[p].mRefCnt = OwnersIn(g, sl, lo, p) + One(NULL, p)
                    /\ Owned(g, sl, lo, NULL, p) => g[p].state = "live"
  BY DEF Sound
<1>3. One(NULL, p) = 0 /\ One(v, p) \in Nat /\ One(v, o) = 0 /\ p # NULL
  BY <1>2, ObjectAssumption DEF One
<1>4. OwnersIn(g, sl, lo, p) = OwnersIn(h, sl, lo, p) + One(v, p)
  <2>1. /\ Members(g)[o] = v /\ Members(h)[o] = NULL
        /\ \A q \in Object \ {o} : Members(g)[q] = Members(h)[q]
    BY <1>1 DEF Members
  <2>2. Refs(Members(g), Object, p) + One(Members(h)[o], p)
          = Refs(Members(h), Object, p) + One(Members(g)[o], p)
    <3>1. ASSUME NEW S, IsFiniteSet(S), NEW f, NEW k, NEW x \in S, \A q \in S \ {x} : k[q] = f[q]
          PROVE  Refs(k, S, p) + One(f[x], p) = Refs(f, S, p) + One(k[x], p)
      BY <3>1, RefsStore
    <3>2. QED
      BY <2>1, <3>1, ObjectAssumption
  <2>3. /\ Refs(sl, Slot, p) \in Nat /\ Refs(Members(h), Object, p) \in Nat
        /\ Refs(Members(g), Object, p) \in Nat
    BY RefsFacts, ObjectAssumption
  <2>4. One(lo, p) \in Nat
    BY DEF One
  <2>5. QED
    BY <1>3, <2>1, <2>2, <2>3, <2>4 DEF OwnersIn
<1>5. /\ OwnersIn(h, sl, lo, p) \in Nat /\ OwnersIn(g, sl, lo, p) \in Nat
      /\ Owned(h, sl, lo, NULL, p) <=> OwnersIn(h, sl, lo, p) + One(NULL, p) > 0
      /\ Owned(g, sl, lo, NULL, p) <=> OwnersIn(g, sl, lo, p) + One(NULL, p) > 0
  BY OwnersFacts
<1>6. CASE p = o
  <2>1. ~Owned(h, sl, lo, NULL, p)
    BY <1>1, <1>6 DEF Sound
  <2>2. OwnersIn(g, sl, lo, p) = 0
    BY <1>3, <1>4, <1>5, <1>6, <2>1
  <2>3. QED
    BY <1>1, <1>3, <1>6, <2>2
<1>7. CASE p # o
  <2>1. h[p].mRefCnt \in Nat
    BY MemoryFacts
  <2>2. h[p].state = "live" => h[p].mRefCnt = OwnersIn(h, sl, lo, p) + One(NULL, p)
    BY DEF Sound
  <2>3. g[p].state = h[p].state /\ g[p].mRefCnt = h[p].mRefCnt + One(v, p)
    BY <1>1, <1>7
  <2>4. Owned(g, sl, lo, NULL, p) => g[p].state = "live"
    <3>1. CASE p = v
      BY <1>3, <2>3, <3>1
    <3>2. CASE p # v
      <4>1. One(v, p) = 0
        BY <3>2 DEF One
      <4>2. Owned(g, sl, lo, NULL, p) => Owned(h, sl, lo, NULL, p)
        BY <1>3, <1>4, <1>5, <4>1
      <4>3. QED
        BY <2>3, <4>2 DEF Sound
    <3>3. QED
      BY <3>1, <3>2
  <2>5. QED
    BY <1>3, <1>4, <1>5, <2>1, <2>2, <2>3, <2>4
<1>8. QED
  BY <1>6, <1>7

LEMMA MadeStructure ==
  ASSUME NEW h \in Heap, NEW g, NEW list \in Seq(Object), NEW o \in Object, NEW c,
         NEW v \in Pointer, NEW r \in Pointer,
         Structure(h, list, "running"), Made(h, g, o, c, v, r), h[o] = Free,
         v # NULL => h[v].state = "live" /\ c # "proxy",
         r # NULL => c = "proxy" /\ h[r].state = "live" /\ h[r].class = "plain" /\ h[r].proxy = NULL,
         NEW more, more = Append(list, o)
  PROVE  more \in Seq(Object) /\ Structure(g, more, "running")
<1>1. ListInv(h, list) /\ HolderInv(h, list) /\ WeakInv(h) /\ MemoryInv(h, "running")
  BY DEF Structure
<1>2. /\ h[o].state = "free" /\ h[o].proxy = NULL /\ h[o].mReferent = NULL /\ h[o].class = "plain"
      /\ v # o /\ r # o /\ o # NULL
  BY ObjectAssumption DEF Free
<1>3. Distinct(list) /\ ~Listed(list, o)
  BY <1>1, <1>2 DEF ListInv, Distinct
<1>4. /\ more \in Seq(Object) /\ Distinct(more)
      /\ \A p : Listed(more, p) <=> Listed(list, p) \/ p = o
      /\ \A p, q : Before(list, p, q) /\ q # o => Before(more, p, q)
      /\ \A p : Listed(list, p) => Before(more, p, o)
  BY <1>3, LinkedFacts
<1>5. /\ g[o].state = "live" /\ g[o].class = c /\ g[o].member = v
      /\ g[o].proxy = NULL /\ g[o].mReferent = r
      /\ \A p \in Object \ {o} :
           /\ g[p].state = h[p].state /\ g[p].class = h[p].class /\ g[p].member = h[p].member
           /\ g[p].mReferent = h[p].mReferent /\ g[p].mRefCnt = h[p].mRefCnt + One(v, p)
           /\ g[p].proxy = IF p = r THEN o ELSE h[p].proxy
  BY DEF Made
<1>6. \A p \in Object : /\ h[p].member \in Pointer /\ h[p].proxy \in Pointer
                        /\ h[p].mReferent \in Pointer /\ h[p].mRefCnt \in Nat
  BY MemoryFacts
<1>7. ListInv(g, more)
  BY <1>1, <1>4, <1>5 DEF ListInv, Distinct
<1>8. HolderInv(g, more)
  <2> SUFFICES ASSUME NEW p \in Object
               PROVE  /\ g[p].class = "holder" /\ g[p].member # NULL =>
                           g[g[p].member].state = "live" /\ Before(more, g[p].member, p)
                      /\ g[p].class = "proxy" => g[p].member = NULL
    BY DEF HolderInv
  <2>1. CASE p = o
    <3>1. v # NULL => v \in Object /\ Listed(list, v) /\ g[v].state = "live"
      BY <1>1, <1>2, <1>5 DEF Pointer, ListInv
    <3>2. QED
      BY <1>4, <1>5, <2>1, <3>1
  <2>2. CASE p # o
    <3>1. g[p].class = h[p].class /\ g[p].member = h[p].member
      BY <1>5, <2>2
    <3>2. h[p].class = "holder" /\ h[p].member # NULL =>
            /\ h[p].member \in Object /\ h[h[p].member].state = "live"
            /\ Before(list, h[p].member, p)
      BY <1>1, <1>6 DEF HolderInv, Pointer
    <3>3. h[p].class = "holder" /\ h[p].member # NULL =>
            h[p].member # o /\ g[h[p].member].state = "live" /\ Before(more, h[p].member, p)
      BY <1>2, <1>4, <1>5, <2>2, <3>2
    <3>4. h[p].class = "proxy" => h[p].member = NULL
      BY <1>1 DEF HolderInv
    <3>5. QED
      BY <3>1, <3>3, <3>4
  <2>3. QED
    BY <2>1, <2>2
<1>9. WeakInv(g)
  <2> SUFFICES ASSUME NEW p \in Object
               PROVE  /\ g[p].proxy # NULL =>
                           /\ g[p].class = "plain" /\ g[g[p].proxy].mReferent = p
                           /\ g[g[p].proxy].state \in {"live", "revoked"}
                      /\ g[p].mReferent # NULL =>
                           /\ g[p].class = "proxy" /\ g[g[p].mReferent].proxy = p
                           /\ g[g[p].mReferent].state \in {"live", "revoked"}
    BY DEF WeakInv
  <2>1. h[p].proxy # NULL => /\ h[p].class = "plain" /\ h[h[p].proxy].mReferent = p
                             /\ h[h[p].proxy].state \in {"live", "revoked"}
                             /\ h[p].proxy \in Object /\ h[p].proxy # o
    BY <1>1, <1>2, <1>6 DEF WeakInv, Pointer
  <2>2. h[p].mReferent # NULL => /\ h[p].class = "proxy" /\ h[h[p].mReferent].proxy = p
                                 /\ h[h[p].mReferent].state \in {"live", "revoked"}
                                 /\ h[p].mReferent \in Object /\ h[p].mReferent # o
    BY <1>1, <1>2, <1>6 DEF WeakInv, Pointer
  <2>3. r # NULL => r \in Object /\ g[r].proxy = o /\ g[r].class = "plain" /\ g[r].state = "live"
    BY <1>2, <1>5 DEF Pointer
  <2>4. CASE p = o
    BY <1>5, <2>3, <2>4
  <2>5. CASE p # o
    <3>1. /\ g[p].class = h[p].class /\ g[p].mReferent = h[p].mReferent
          /\ g[p].proxy = IF p = r THEN o ELSE h[p].proxy
      BY <1>5, <2>5
    <3>2. h[p].mReferent # NULL => h[p].mReferent # r
      BY <2>2, ObjectAssumption
    <3>3. h[p].mReferent # NULL =>
            /\ g[h[p].mReferent].proxy = p /\ g[h[p].mReferent].state \in {"live", "revoked"}
      BY <1>5, <2>2, <3>2
    <3>4. h[p].proxy # NULL =>
            g[h[p].proxy].mReferent = p /\ g[h[p].proxy].state \in {"live", "revoked"}
      BY <1>5, <2>1
    <3>5. CASE p = r
      <4>1. r # NULL
        BY <3>5, ObjectAssumption
      <4>2. QED
        BY <1>5, <2>2, <2>3, <3>1, <3>3, <3>5, <4>1
    <3>6. CASE p # r
      BY <2>1, <2>2, <3>1, <3>3, <3>4, <3>6
    <3>7. QED
      BY <3>5, <3>6
  <2>6. QED
    BY <2>4, <2>5
<1>10. MemoryInv(g, "running")
  <2> SUFFICES ASSUME NEW p \in Object
               PROVE  /\ g[p].state = "free" => g[p] = Free
                      /\ g[p].state = "rotted" => g[p].member = NULL
                      /\ g[p].state \in {"free", "live"}
    BY DEF MemoryInv
  <2>1. CASE p = o
    BY <1>5, <2>1
  <2>2. CASE p # o
    <3>1. g[p].state = h[p].state /\ h[p].state \in {"free", "live"} /\ g[p].member = h[p].member
      BY <1>1, <1>5, <2>2 DEF MemoryInv
    <3>2. ASSUME g[p].state = "free" PROVE g[p] = Free
      <4>1. p # v /\ p # r /\ h[p] = Free
        BY <1>1, <3>1, <3>2, ObjectAssumption DEF MemoryInv
      <4>2. One(v, p) = 0 /\ h[p].mRefCnt = 0
        BY <4>1 DEF One, Free
      <4>3. /\ g[p].state = h[p].state /\ g[p].class = h[p].class /\ g[p].member = h[p].member
            /\ g[p].mReferent = h[p].mReferent /\ g[p].mRefCnt = h[p].mRefCnt
            /\ g[p].proxy = h[p].proxy
        BY <1>5, <2>2, <4>1, <4>2
      <4>4. g[p] \in Memory /\ h[p] \in Memory
        BY DEF Made, Heap
      <4>5. g[p] = h[p]
        BY <4>3, <4>4 DEF Memory
      <4>6. QED
        BY <4>1, <4>5
    <3>3. QED
      BY <3>1, <3>2
  <2>3. QED
    BY <2>1, <2>2
<1>11. QED
  BY <1>4, <1>7, <1>8, <1>9, <1>10 DEF Structure

LEMMA MadeKeeps ==
  ASSUME NEW h, NEW g, NEW sl, NEW lo, NEW list, NEW o \in Object, NEW c,
         NEW v \in Pointer, NEW r \in Pointer,
         Consistent(h, sl, lo, NULL, list, <<>>, "running"),
         Made(h, g, o, c, v, r), h[o].state = "free",
         v # NULL => h[v].state = "live" /\ c # "proxy",
         r # NULL => c = "proxy" /\ h[r].state = "live" /\ h[r].class = "plain" /\ h[r].proxy = NULL
  PROVE  Consistent(AddRef(g, o), sl, lo, o, Append(list, o), <<>>, "running")
<1>1. /\ h \in Heap /\ list \in Seq(Object) /\ Structure(h, list, "running")
      /\ StackInv(h, <<>>, "running") /\ <<>> \in Seq(Frame) /\ g \in Heap
      /\ Sound(h, sl, lo, NULL, {}, "running")
  BY NobodyDies DEF Consistent, Made
<1>2. h[o] = Free
  BY <1>1 DEF Structure, MemoryInv
<1>3. Sound(g, sl, lo, NULL, {}, "running")
  BY <1>1, <1>2, MadeSound
<1>4. Append(list, o) \in Seq(Object) /\ Structure(g, Append(list, o), "running")
  <2>1. Structure(h, list, "running") /\ h \in Heap /\ list \in Seq(Object)
    BY <1>1
  <2>2. ASSUME NEW more, more = Append(list, o)
        PROVE  more \in Seq(Object) /\ Structure(g, more, "running")
    BY <1>2, <2>1, <2>2, MadeStructure
  <2>3. QED
    BY <2>2
<1>5. StackInv(g, <<>>, "running")
  <2>1. \A p \in Object : g[p].state # "revoked"
    BY <1>4 DEF Structure, MemoryInv
  <2>2. QED
    BY <2>1 DEF StackInv
<1>6. Consistent(g, sl, lo, NULL, Append(list, o), <<>>, "running")
  BY <1>1, <1>3, <1>4, <1>5, NobodyDies DEF Consistent
<1>7. o \in Pointer /\ g[o].state = "live" /\ o \notin DyingIn(<<>>)
  BY NobodyDies DEF Made, Pointer
<1>8. QED
  BY <1>6, <1>7, AddRefKeeps

LEMMA NewObjectFacts ==
  ASSUME NEW h \in Heap, NEW o \in Object, NEW c \in Class, NEW v \in Pointer, NEW r \in Pointer,
         NEW g, g = NewObject(h, o, c, v, r)
  PROVE  /\ g \in Heap
         /\ g[o].state = "live" /\ g[o].class = c /\ g[o].mRefCnt = 0 /\ g[o].member = v
         /\ g[o].proxy = NULL /\ g[o].mReferent = r
         /\ \A p \in Object \ {o} : g[p] = h[p]
<1> DEFINE new == [Free EXCEPT !.state = "live", !.class = c, !.member = v, !.mReferent = r]
<1>1. /\ new \in Memory /\ new.state = "live" /\ new.class = c /\ new.mRefCnt = 0
      /\ new.member = v /\ new.proxy = NULL /\ new.mReferent = r
  BY DEF Free, Memory, Pointer
<1>2. g = [h EXCEPT ![o] = new]
  BY DEF NewObject
<1>3. g \in Heap /\ g[o] = new /\ \A p \in Object \ {o} : g[p] = h[p]
  BY <1>1, <1>2 DEF Heap
<1>4. QED
  BY <1>1, <1>3

LEMMA CreateStep ==
  ASSUME OInv, NEW s \in Slot, Create(s) PROVE OInv'
<1>1. Consistent(heap, slot, loose, NULL, mInstances, <<>>, "running") /\ slot \in [Slot -> Pointer]
  BY Opening DEF Create, Running, VariablesInv
<1>2. PICK o \in Object, class \in {"plain", "holder"}, value \in Pointer :
        /\ heap[o].state = "free"
        /\ value # NULL => class = "holder" /\ value \in Range(slot)
        /\ mInstances' = Append(mInstances, o)
        /\ AssignAssumingAddRef(
             AddRef(AddRef(NewObject(heap, o, class, value, NULL), value), o), s, o)
  BY DEF Create
<1> DEFINE n == NewObject(heap, o, class, value, NULL)
           g == AddRef(n, value)
<1>3. value # NULL => heap[value].state = "live" /\ class # "proxy"
  <2>1. value \in Range(slot) => (value # NULL => heap[value].state = "live")
    BY <1>1, VariablesOwn
  <2>2. QED
    BY <1>2, <2>1
<1>4. Made(heap, g, o, class, value, NULL)
  <2>1. heap \in Heap /\ class \in Class /\ NULL \in Pointer
    BY <1>1 DEF Consistent, Class, Pointer
  <2>2. /\ n \in Heap
        /\ n[o].state = "live" /\ n[o].class = class /\ n[o].mRefCnt = 0 /\ n[o].member = value
        /\ n[o].proxy = NULL /\ n[o].mReferent = NULL
        /\ \A p \in Object \ {o} : n[p] = heap[p]
    BY <2>1, NewObjectFacts
  <2> HIDE DEF n
  <2>3. /\ Recounted(n, AddRef(n, value))
        /\ \A p \in Object : AddRef(n, value)[p].mRefCnt = n[p].mRefCnt + One(value, p)
    BY <2>2, AddRefFacts
  <2>4. One(value, o) = 0
    BY <1>2, <1>3, ObjectAssumption DEF One
  <2>5. NULL \notin Object
    BY ObjectAssumption
  <2>6. g[o].mRefCnt = 0
    BY <2>2, <2>3, <2>4
  <2>7. QED
    BY <2>2, <2>3, <2>5, <2>6 DEF Made, Recounted
<1> HIDE DEF n, g
<1>5. Consistent(AddRef(g, o), slot, loose, o, mInstances', <<>>, "running")
  <2>1. NULL \in Pointer
    BY DEF Pointer
  <2>2. Consistent(AddRef(g, o), slot, loose, o, Append(mInstances, o), <<>>, "running")
    BY <1>1, <1>2, <1>3, <1>4, <2>1, MadeKeeps
  <2>3. QED
    BY <1>2, <2>2
<1>6. /\ o \in Pointer /\ filling = NULL /\ AssignAssumingAddRef(AddRef(g, o), s, o) /\ Kept
      /\ Consistent(AddRef(g, o), slot, loose, o, mInstances', stack, phase)
  BY <1>2, <1>5 DEF Create, Running, Pointer, g, n
<1>7. QED
  BY <1>6, AssignedKeeps

LEMMA StoreMemberKeeps ==
  ASSUME NEW h, NEW g, NEW sl, NEW lo, NEW list, NEW st, NEW ph, NEW p \in Object, NEW x \in Pointer,
         Consistent(h, sl, lo, x, list, st, ph), Stored(h, g, p, x), NEW y, y = h[p].member,
         x = NULL \/ (h[p].class = "plain" /\ h[p].state = "live" /\ p \notin DyingIn(st))
  PROVE  Consistent(g, sl, lo, y, list, st, ph)
<1>1. h \in Heap /\ st \in Seq(Frame) /\ ph # "released" /\ ListInv(h, list) /\ HolderInv(h, list)
      /\ WeakInv(h) /\ MemoryInv(h, ph) /\ StackInv(h, st, ph)
      /\ Sound(h, sl, lo, x, DyingIn(st), ph)
  BY DEF Consistent, Structure
<1>2. \A o \in Object :
        /\ g[o].state = h[o].state /\ g[o].class = h[o].class /\ g[o].mRefCnt = h[o].mRefCnt
        /\ g[o].proxy = h[o].proxy /\ g[o].mReferent = h[o].mReferent
        /\ g[o].member = IF o = p THEN x ELSE h[o].member
  BY DEF Stored
<1>3. \A o \in Object :
        h[o].member \in Pointer /\ h[o].proxy \in Pointer /\ h[o].mReferent \in Pointer
  BY <1>1, MemoryFacts
<1>4. Sound(g, sl, lo, y, DyingIn(st), ph)
  BY <1>1, SoundStoreMember
<1>5. ListInv(g, list)
  BY <1>1, <1>2 DEF ListInv
<1>6. HolderInv(g, list)
  <2> SUFFICES ASSUME NEW o \in Object
               PROVE  /\ g[o].class = "holder" /\ g[o].member # NULL =>
                           g[g[o].member].state = "live" /\ Before(list, g[o].member, o)
                      /\ g[o].class = "proxy" => g[o].member = NULL
    BY DEF HolderInv
  <2>1. CASE o = p
    BY <1>2, <2>1
  <2>2. CASE o # p
    BY <1>1, <1>2, <1>3, <2>2 DEF HolderInv, Pointer
  <2>3. QED
    BY <2>1, <2>2
<1>7. WeakInv(g)
  <2> SUFFICES ASSUME NEW o \in Object
               PROVE  /\ g[o].proxy # NULL =>
                           /\ g[o].class = "plain" /\ g[g[o].proxy].mReferent = o
                           /\ g[g[o].proxy].state \in {"live", "revoked"}
                      /\ g[o].mReferent # NULL =>
                           /\ g[o].class = "proxy" /\ g[g[o].mReferent].proxy = o
                           /\ g[g[o].mReferent].state \in {"live", "revoked"}
    BY DEF WeakInv
  <2>1. QED
    BY <1>1, <1>2, <1>3 DEF WeakInv, Pointer
<1>8. MemoryInv(g, ph)
  <2> SUFFICES ASSUME NEW o \in Object
               PROVE  /\ g[o].state = "free" => g[o] = Free
                      /\ g[o].state = "rotted" => g[o].member = NULL
                      /\ ph = "running" => g[o].state \in {"free", "live"}
    BY <1>1 DEF MemoryInv
  <2>1. ASSUME g[o].state = "free" PROVE g[o] = Free
    <3>1. h[o] = Free /\ h[o].member = NULL
      BY <1>1, <1>2, <2>1 DEF MemoryInv, Free
    <3>2. g[o].member = h[o].member
      BY <1>2, <2>1, <3>1
    <3>3. g[o] \in Memory /\ h[o] \in Memory
      BY <1>1 DEF Stored, Heap
    <3>4. g[o] = h[o]
      BY <1>2, <3>2, <3>3 DEF Memory
    <3>5. QED
      BY <3>1, <3>4
  <2>2. QED
    BY <1>1, <1>2, <2>1 DEF MemoryInv
<1>9. StackInv(g, st, ph)
  <2>1. \A i \in 1..Len(st) : st[i].object \in Object /\ st[i].object \in DyingIn(st)
    <3>1. \A i \in 1..Len(st) : st[i] \in Frame
      BY <1>1
    <3>2. QED
      BY <3>1 DEF Frame, DyingIn
  <2>2. ASSUME NEW i \in 1..Len(st) PROVE FrameInv(g, st[i], ph)
    <3>1. FrameInv(h, st[i], ph)
      BY <1>1 DEF StackInv
    <3>2. g[st[i].object].member = NULL \/ g[st[i].object].member = h[st[i].object].member
      BY <1>2, <2>1
    <3>3. QED
      BY <1>2, <2>1, <3>1, <3>2 DEF FrameInv
  <2>3. QED
    BY <1>1, <1>2, <2>2 DEF StackInv
<1>10. QED
  BY <1>4, <1>5, <1>6, <1>7, <1>8, <1>9 DEF Consistent, Structure, Stored

LEMMA SetMemberStep ==
  ASSUME OInv, NEW o \in Object, NEW x \in Pointer, SetMember(o, x) PROVE OInv'
<1>1. VariablesInv /\ Consistent(heap, slot, loose, NULL, mInstances, stack, "running")
  BY Opening DEF SetMember, Running
<1>2. x # NULL => heap[x].state = "live"
  <2>1. slot \in [Slot -> Pointer] /\ x \in Range(slot) \cup {NULL}
    BY <1>1 DEF VariablesInv, SetMember
  <2>2. QED
    BY <1>1, <2>1, VariablesOwn
<1> DEFINE g == AddRef(heap, x)
           w == [g EXCEPT ![o].member = x]
<1>3. Consistent(g, slot, loose, x, mInstances, stack, "running")
  <2>1. x \notin DyingIn(stack)
    BY NobodyDies DEF SetMember, Running
  <2>2. QED
    BY <1>1, <1>2, <2>1, AddRefKeeps
<1>4. g \in Heap /\ g[o].state = "live" /\ g[o].class = "plain"
  <2>1. heap \in Heap
    BY <1>1 DEF Consistent
  <2>2. Recounted(heap, g)
    BY <2>1, AddRefFacts
  <2>3. QED
    BY <2>2 DEF Recounted, SetMember, Live
<1> HIDE DEF g
<1>5. g[o].member \in Pointer /\ o \notin DyingIn(stack)
  BY <1>4, MemoryFacts, NobodyDies DEF SetMember, Running
<1>6. Stored(g, w, o, x)
  BY <1>4, StoreMember
<1> HIDE DEF w
<1>7. ASSUME NEW y, y = g[o].member PROVE Consistent(w, slot, loose, y, mInstances, stack, "running")
  BY <1>3, <1>4, <1>5, <1>6, <1>7, StoreMemberKeeps
<1>8. Consistent(Release(w, g[o].member), slot, loose, NULL, mInstances,
                 stack \o Delete(w, g[o].member), "running")
  BY <1>5, <1>7, ReleaseKeeps
<1>9. heap' = Release(w, g[o].member) /\ stack' = stack \o Delete(w, g[o].member)
  BY DEF SetMember, AssignMember, g, w
<1>10. Consistent(heap', slot', loose', NULL, mInstances', stack', phase')
  BY <1>8, <1>9 DEF SetMember, Kept, Running
<1>11. VariablesInv'
  BY <1>1 DEF SetMember, Kept, VariablesInv
<1>12. QED
  BY <1>10, <1>11, Closing

LEMMA QueryReferentStep ==
  ASSUME OInv, NEW s \in Slot, NEW t \in Slot, QueryReferent(s, t) PROVE OInv'
<1> DEFINE w == slot[t]
           o == heap[w].mReferent
<1>1. VariablesInv /\ Consistent(heap, slot, loose, NULL, mInstances, stack, "running")
  BY Opening DEF QueryReferent, Running
<1>2. w \in Object
  BY <1>1 DEF VariablesInv, QueryReferent, Pointer
<1>3. o \in Pointer
  BY <1>1, <1>2, MemoryFacts DEF Consistent
<1>4. o # NULL => heap[o].state = "live"
  <2>1. WeakInv(heap) /\ MemoryInv(heap, "running")
    BY <1>1 DEF Consistent, Structure
  <2>2. o # NULL => o \in Object /\ heap[o].state \in {"live", "revoked"}
    BY <1>2, <1>3, <2>1 DEF WeakInv, Pointer
  <2>3. QED
    BY <2>1, <2>2 DEF MemoryInv
<1>5. /\ Running /\ Kept /\ UNCHANGED mInstances
      /\ AssignAssumingAddRef(AddRef(heap, o), s, o)
  BY DEF QueryReferent
<1> HIDE DEF o
<1>6. QED
  BY <1>3, <1>4, <1>5, CountedKeeps

LEMMA GetWeakReferenceStep ==
  ASSUME OInv, NEW s \in Slot, NEW t \in Slot, GetWeakReference(s, t) PROVE OInv'
<1>1. VariablesInv /\ Consistent(heap, slot, loose, NULL, mInstances, stack, "running")
      /\ Running /\ Kept /\ stack = <<>> /\ phase = "running" /\ filling = NULL
  BY Opening DEF GetWeakReference, Running
<1>2. PICK o \in Object : o = slot[t]
  BY <1>1 DEF VariablesInv, GetWeakReference, Pointer
<1>3. heap \in Heap /\ heap[o].proxy \in Pointer /\ NULL \in Pointer
  BY <1>1, MemoryFacts DEF Consistent, Pointer
<1>4. WeakInv(heap) /\ MemoryInv(heap, "running")
  BY <1>1 DEF Consistent, Structure
<1>5. CASE heap[o].class # "plain"
  <2>1. AssignAssumingAddRef(heap, s, NULL) /\ UNCHANGED mInstances
    BY <1>2, <1>5 DEF GetWeakReference
  <2>2. Consistent(heap, slot, loose, NULL, mInstances', stack, phase)
    BY <1>1, <2>1
  <2>3. QED
    BY <1>1, <1>3, <2>1, <2>2, AssignedKeeps
<1>6. CASE heap[o].class = "plain" /\ heap[o].proxy # NULL
  <2> DEFINE p == heap[o].proxy
  <2>1. AssignAssumingAddRef(AddRef(heap, p), s, p) /\ UNCHANGED mInstances
    BY <1>2, <1>6 DEF GetWeakReference
  <2>2. p \in Object /\ heap[p].state \in {"live", "revoked"}
    BY <1>3, <1>4, <1>6 DEF WeakInv, Pointer
  <2>3. heap[p].state = "live"
    BY <1>4, <2>2 DEF MemoryInv
  <2> HIDE DEF p
  <2>4. QED
    BY <1>1, <2>1, <2>2, <2>3, CountedKeeps DEF Pointer
<1>7. CASE heap[o].class = "plain" /\ heap[o].proxy = NULL
  <2>1. PICK p \in Object :
          /\ heap[p].state = "free"
          /\ mInstances' = Append(mInstances, p)
          /\ AssignAssumingAddRef(
               AddRef([NewObject(heap, p, "proxy", NULL, o) EXCEPT ![o].proxy = p], p), s, p)
    BY <1>2, <1>7 DEF GetWeakReference
  <2> DEFINE n == NewObject(heap, p, "proxy", NULL, o)
             g == [n EXCEPT ![o].proxy = p]
  <2>2. heap[o].state = "live" /\ o # p /\ o # NULL /\ o \in Pointer
    <3>1. Owned(heap, slot, loose, NULL, o)
      BY <1>2 DEF Owned
    <3>2. heap[o].state = "live"
      BY <1>1, <3>1, OwnedLive
    <3>3. QED
      BY <2>1, <3>2, ObjectAssumption DEF Pointer
  <2>3. /\ n \in Heap
        /\ n[p].state = "live" /\ n[p].class = "proxy" /\ n[p].mRefCnt = 0 /\ n[p].member = NULL
        /\ n[p].proxy = NULL /\ n[p].mReferent = o
        /\ \A q \in Object \ {p} : n[q] = heap[q]
    <3>1. "proxy" \in Class
      BY DEF Class
    <3>2. QED
      BY <1>3, <2>2, <3>1, NewObjectFacts
  <2> HIDE DEF n
  <2>4. Made(heap, g, p, "proxy", NULL, o)
    <3> DEFINE m == [n[o] EXCEPT !.proxy = p]
    <3>1. n[o] = heap[o] /\ n[o] \in Memory
      BY <2>2, <2>3, MemoryFacts
    <3>2. /\ m \in Memory /\ m.state = heap[o].state /\ m.class = heap[o].class
          /\ m.member = heap[o].member /\ m.mReferent = heap[o].mReferent
          /\ m.mRefCnt = heap[o].mRefCnt /\ m.proxy = p
      BY <3>1 DEF Memory, Pointer
    <3>3. g = [n EXCEPT ![o] = m]
      OBVIOUS
    <3>4. g \in Heap /\ g[o] = m /\ \A q \in Object \ {o} : g[q] = n[q]
      BY <2>3, <3>2, <3>3 DEF Heap
    <3>5. \A q \in Object : One(NULL, q) = 0 /\ heap[q].mRefCnt + One(NULL, q) = heap[q].mRefCnt
      BY <1>3, MemoryFacts, ObjectAssumption DEF One
    <3> HIDE DEF m, g
    <3>6. ASSUME NEW q \in Object \ {p}
          PROVE  /\ g[q].state = heap[q].state /\ g[q].class = heap[q].class
                 /\ g[q].member = heap[q].member /\ g[q].mReferent = heap[q].mReferent
                 /\ g[q].mRefCnt = heap[q].mRefCnt + One(NULL, q)
                 /\ g[q].proxy = IF q = o THEN p ELSE heap[q].proxy
      <4>1. CASE q = o
        BY <3>2, <3>4, <3>5, <4>1
      <4>2. CASE q # o
        BY <2>3, <3>4, <3>5, <4>2
      <4>3. QED
        BY <4>1, <4>2
    <3>7. g[p] = n[p]
      BY <2>2, <3>4
    <3>8. QED
      BY <2>3, <3>4, <3>6, <3>7 DEF Made
  <2> HIDE DEF g
  <2>5. Consistent(AddRef(g, p), slot, loose, p, mInstances', stack, phase)
    <3>1. Consistent(heap, slot, loose, NULL, mInstances, <<>>, "running")
      BY <1>1
    <3>2. Consistent(AddRef(g, p), slot, loose, p, Append(mInstances, p), <<>>, "running")
      BY <1>3, <1>7, <2>1, <2>2, <2>4, <3>1, MadeKeeps
    <3>3. QED
      BY <1>1, <2>1, <3>2
  <2>6. p \in Pointer /\ AssignAssumingAddRef(AddRef(g, p), s, p)
    BY <2>1 DEF Pointer, g, n
  <2>7. QED
    BY <1>1, <2>5, <2>6, AssignedKeeps
<1>8. QED
  BY <1>5, <1>6, <1>7

-----------------------------------------------------------------------------
(* Destructors.                                                             *)
LEMMA Advanced ==
  ASSUME NEW h, NEW sl, NEW lo, NEW hand, NEW list, NEW st, NEW ph, NEW step \in Step,
         Consistent(h, sl, lo, hand, list, st, ph), st # <<>>,
         NEW fr, fr = [st[Len(st)] EXCEPT !.step = step], FrameInv(h, fr, ph),
         NEW more, more = [st EXCEPT ![Len(st)] = fr]
  PROVE  Consistent(h, sl, lo, hand, list, more, ph)
<1>1. st \in Seq(Frame) /\ StackInv(h, st, ph) /\ ph # "released"
  BY DEF Consistent
<1>2. Len(st) \in 1..Len(st) /\ st[Len(st)] \in Frame
  BY <1>1
<1>3. fr \in Frame /\ fr.object = st[Len(st)].object
  BY <1>2 DEF Frame
<1>4. /\ more \in Seq(Frame) /\ Len(more) = Len(st)
      /\ \A i \in 1..Len(st) : more[i] = IF i = Len(st) THEN fr ELSE st[i]
  BY <1>1, <1>2, <1>3
<1>5. \A i \in 1..Len(st) : more[i].object = st[i].object
  BY <1>3, <1>4
<1>6. DyingIn(more) = DyingIn(st)
  BY <1>4, <1>5 DEF DyingIn
<1>7. \A i \in 1..Len(more) : FrameInv(h, more[i], ph)
  BY <1>1, <1>4 DEF StackInv
<1>8. \A i, j \in 1..Len(more) : more[i].object = more[j].object => i = j
  BY <1>1, <1>4, <1>5 DEF StackInv
<1>9. StackInv(h, more, ph)
  BY <1>1, <1>6, <1>7, <1>8 DEF StackInv
<1>10. QED
  BY <1>4, <1>6, <1>9 DEF Consistent

LEMMA SoundRecounted ==
  ASSUME NEW h, NEW g, NEW sl, NEW lo, NEW hand, NEW D, NEW ph,
         Sound(h, sl, lo, hand, D, ph), Recounted(h, g),
         \A o \in Object : h[o].state = "live" => g[o].mRefCnt = h[o].mRefCnt
  PROVE  Sound(g, sl, lo, hand, D, ph)
<1>1. \A o \in Object : g[o].state = h[o].state /\ g[o].member = h[o].member
  BY DEF Recounted
<1>2. ASSUME NEW o \in Object
      PROVE  /\ OwnersIn(g, sl, lo, o) = OwnersIn(h, sl, lo, o)
             /\ Owned(g, sl, lo, hand, o) <=> Owned(h, sl, lo, hand, o)
  BY <1>1, SameMembers
<1>3. QED
  BY <1>1, <1>2 DEF Sound

(* What the innermost destructor is about.                                  *)
LEMMA TopFacts ==
  ASSUME OInv, stack # <<>>
  PROVE  /\ VariablesInv /\ Consistent(heap, slot, loose, NULL, mInstances, stack, phase)
         /\ Top \in Frame /\ Top.object \in Object /\ Top.object \in DyingIn(stack)
         /\ FrameInv(heap, Top, phase) /\ Len(stack) \in 1..Len(stack)
<1>1. phase # "released"
  BY DEF OInv, StackInv
<1>2. VariablesInv /\ Consistent(heap, slot, loose, NULL, mInstances, stack, phase)
  BY <1>1, Opening
<1>3. stack \in Seq(Frame) /\ StackInv(heap, stack, phase)
  BY <1>2 DEF Consistent
<1>4. Len(stack) \in 1..Len(stack) /\ Top \in Frame
  BY <1>3 DEF Top
<1>5. Top.object \in Object
  BY <1>4 DEF Frame
<1>6. Top.object \in DyingIn(stack) /\ FrameInv(heap, Top, phase)
  BY <1>3, <1>4 DEF Top, DyingIn, StackInv
<1>7. QED
  BY <1>2, <1>4, <1>5, <1>6

LEMMA DestructorBodyStep ==
  ASSUME OInv, DestructorBody PROVE OInv'
<1> DEFINE o == Top.object
           kept == AddRef(heap, o)
           g == Release(kept, o)
           fr == [stack[Len(stack)] EXCEPT !.step = "members"]
<1>1. stack # <<>> /\ Top.step = "body"
  BY DEF DestructorBody, At
<1>2. /\ VariablesInv /\ Consistent(heap, slot, loose, NULL, mInstances, stack, phase)
      /\ Top \in Frame /\ o \in Object /\ o \in DyingIn(stack)
      /\ FrameInv(heap, Top, phase)
  BY <1>1, TopFacts
<1>3. heap \in Heap /\ o \in Pointer /\ heap[o].mRefCnt \in Nat
  BY <1>2, MemoryFacts DEF Consistent, Pointer
<1> HIDE DEF o
<1>4. /\ Recounted(heap, kept)
      /\ \A p \in Object : kept[p].mRefCnt = heap[p].mRefCnt + One(o, p)
  BY <1>3, AddRefFacts
<1>5. kept \in Heap /\ kept[o].mRefCnt = heap[o].mRefCnt + 1 /\ kept[o].state = heap[o].state
  BY <1>2, <1>4 DEF Recounted, One
<1> HIDE DEF kept
<1>6. heap[o].state = "live" => heap[o].mRefCnt = 1
  BY <1>2 DEF Consistent, Sound
<1>7. /\ Recounted(kept, g)
      /\ \A p \in Object :
           g[p].mRefCnt = IF p = o /\ kept[o].state = "live" /\ kept[o].mRefCnt # 1
                            THEN kept[o].mRefCnt - 1 ELSE kept[p].mRefCnt
  <2>1. o # NULL /\ kept[o].state = "live" => kept[o].mRefCnt > 0
    BY <1>3, <1>5
  <2>2. QED
    BY <1>3, <1>5, <2>1, ReleaseFacts
<1>8. Delete(kept, o) = <<>>
  BY <1>5, <1>6 DEF Delete, LastRelease, CCI_VerifyObject
<1> HIDE DEF g
<1>9. Recounted(heap, g)
  BY <1>4, <1>7 DEF Recounted
<1>10. ASSUME NEW p \in Object, p = o => heap[p].state = "live"
       PROVE  g[p].mRefCnt = heap[p].mRefCnt
  <2>1. CASE p = o
    BY <1>5, <1>6, <1>7, <1>10, <2>1
  <2>2. CASE p # o
    <3>1. One(o, p) = 0 /\ heap[p].mRefCnt \in Nat
      BY <1>3, <2>2, MemoryFacts DEF One
    <3>2. QED
      BY <1>4, <1>7, <2>2, <3>1
  <2>3. QED
    BY <2>1, <2>2
<1>11. heap[o].state \in {"live", "revoked"} /\ \A p \in Object :
         heap[p].state \in {"free", "live"} => g[p].mRefCnt = heap[p].mRefCnt
  <2>1. heap[o].state \in {"live", "revoked"}
    BY <1>2 DEF FrameInv, o
  <2>2. QED
    BY <1>10, <2>1
<1>12. Consistent(g, slot, loose, NULL, mInstances, stack, phase)
  <2>1. Sound(g, slot, loose, NULL, DyingIn(stack), phase)
    BY <1>2, <1>9, <1>11, SoundRecounted DEF Consistent
  <2>2. Structure(g, mInstances, phase)
    BY <1>2, <1>3, <1>9, <1>11, StructureRecounted DEF Consistent
  <2>3. StackInv(g, stack, phase)
    BY <1>2, <1>9, StackRecounted DEF Consistent
  <2>4. QED
    BY <1>2, <1>9, <2>1, <2>2, <2>3 DEF Consistent, Recounted
<1>13. FrameInv(g, fr, phase)
  <2>1. /\ fr.object = o /\ fr.by = Top.by /\ fr.step = "members"
        /\ g[o].state = heap[o].state
    BY <1>2, <1>9 DEF Top, Frame, Recounted, o
  <2>2. QED
    BY <1>2, <2>1 DEF FrameInv, o
<1>14. Consistent(g, slot, loose, NULL, mInstances, [stack EXCEPT ![Len(stack)] = fr], phase)
  BY <1>1, <1>12, <1>13, Advanced DEF Step
<1>15. heap' = g /\ stack' = [stack EXCEPT ![Len(stack)] = fr]
  <2>1. stack' = Below("members") \o <<>> /\ heap' = g
    BY <1>8 DEF DestructorBody, g, kept, o
  <2>2. Below("members") = [stack EXCEPT ![Len(stack)] = fr]
    BY DEF Below
  <2>3. [stack EXCEPT ![Len(stack)] = fr] \in Seq(Frame)
    BY <1>14 DEF Consistent
  <2>4. QED
    BY <2>1, <2>2, <2>3, ConcatEmptySeq
<1>16. Consistent(heap', slot', loose', NULL, mInstances', stack', phase')
  BY <1>14, <1>15 DEF DestructorBody, DestructorKept
<1>17. QED
  BY <1>2, <1>16, Closing DEF DestructorBody, DestructorKept, VariablesInv

LEMMA DestroyMembersStep ==
  ASSUME OInv, DestroyMembers PROVE OInv'
<1> DEFINE o == Top.object
           w == [heap EXCEPT ![o].member = NULL]
           fr == [stack[Len(stack)] EXCEPT !.step = "bases"]
           st == [stack EXCEPT ![Len(stack)] = fr]
<1>1. stack # <<>> /\ Top.step = "members"
  BY DEF DestroyMembers, At
<1>2. /\ VariablesInv /\ Consistent(heap, slot, loose, NULL, mInstances, stack, phase)
      /\ Top \in Frame /\ o \in Object /\ FrameInv(heap, Top, phase)
  BY <1>1, TopFacts
<1>3. heap \in Heap /\ NULL \in Pointer /\ heap[o].member \in Pointer
  BY <1>2, MemoryFacts DEF Consistent, Pointer
<1> HIDE DEF o
<1>4. Stored(heap, w, o, NULL)
  BY <1>2, <1>3, StoreMember
<1> HIDE DEF w
<1>5. FrameInv(w, fr, phase)
  <2>1. /\ fr.object = o /\ fr.by = Top.by /\ fr.step = "bases"
        /\ w[o].state = heap[o].state /\ w[o].member = NULL
    BY <1>2, <1>4 DEF Top, Frame, Stored, o
  <2>2. QED
    BY <1>2, <2>1 DEF FrameInv, o
<1>6. ASSUME NEW y, y = heap[o].member
      PROVE  Consistent(w, slot, loose, y, mInstances, st, phase)
  <2>1. Consistent(w, slot, loose, y, mInstances, stack, phase)
    BY <1>2, <1>3, <1>4, <1>6, StoreMemberKeeps
  <2>2. QED
    BY <1>1, <1>5, <2>1, Advanced DEF Step
<1> DEFINE y == heap[o].member
           v == Released(o)
<1>7. Consistent(Release(w, y), slot, loose, NULL, mInstances, st \o Delete(w, y), phase)
  BY <1>3, <1>6, ReleaseKeeps
<1>8. Release(w, v) = Release(w, y) /\ Delete(w, v) = Delete(w, y)
  <2>1. CASE v = y
    BY <2>1
  <2>2. CASE v # y
    <3>1. v = NULL /\ y # NULL /\ heap[y].state = "rotted"
      BY <2>2 DEF Released
    <3>2. w[y].state = "rotted"
      BY <1>3, <1>4, <3>1 DEF Stored, Pointer
    <3>3. Release(w, v) = w /\ Release(w, y) = w
      BY <3>1, <3>2 DEF Release, CCI_VerifyObject
    <3>4. Delete(w, v) = <<>> /\ Delete(w, y) = <<>>
      BY <3>1, <3>2 DEF Delete, LastRelease, CCI_VerifyObject
    <3>5. QED
      BY <3>3, <3>4
  <2>3. QED
    BY <2>1, <2>2
<1>9. heap' = Release(w, v) /\ stack' = Below("bases") \o Delete(w, v) /\ Below("bases") = st
  BY DEF DestroyMembers, Below, o, w
<1>10. Consistent(heap', slot', loose', NULL, mInstances', stack', phase')
  BY <1>7, <1>8, <1>9 DEF DestroyMembers, DestructorKept
<1>11. QED
  BY <1>2, <1>10, Closing DEF DestroyMembers, DestructorKept, VariablesInv

(* g is h with o out of its weak reference.                                 *)
Parted(h, g, o) ==
  /\ g \in Heap
  /\ \A p \in Object :
       /\ g[p].state = h[p].state /\ g[p].class = h[p].class /\ g[p].mRefCnt = h[p].mRefCnt
       /\ g[p].member = h[p].member
       /\ g[p].proxy = IF p = o \/ h[p].proxy = o THEN NULL ELSE h[p].proxy
       /\ g[p].mReferent = IF p = o \/ h[p].mReferent = o THEN NULL ELSE h[p].mReferent

(* One object of two lets go of the other: written as the code does, once   *)
(* for each direction.                                                      *)
LEMMA SeparatedFacts ==
  ASSUME NEW h \in Heap, WeakInv(h), NEW o \in Object, NEW g, g = Separated(h, o)
  PROVE  Parted(h, g, o)
<1> DEFINE p == h[o].proxy
           r == h[o].mReferent
<1>1. /\ p \in Pointer /\ r \in Pointer
      /\ \A q \in Object : h[q].proxy \in Pointer /\ h[q].mReferent \in Pointer
  BY MemoryFacts
<1>2. /\ p # NULL => /\ p \in Object /\ p # o /\ r = NULL /\ h[p].mReferent = o
                     /\ h[p].proxy = NULL
      /\ r # NULL => /\ r \in Object /\ r # o /\ p = NULL /\ h[r].proxy = o
                     /\ h[r].mReferent = NULL
  <2>1. \A q \in Object : /\ h[q].proxy # NULL => h[q].class = "plain"
                          /\ h[q].mReferent # NULL => h[q].class = "proxy"
    BY DEF WeakInv
  <2>2. p # NULL => p \in Object /\ h[p].mReferent = o
    BY <1>1 DEF WeakInv, Pointer
  <2>3. r # NULL => r \in Object /\ h[r].proxy = o
    BY <1>1 DEF WeakInv, Pointer
  <2>4. o # NULL
    BY ObjectAssumption
  <2>5. QED
    BY <2>1, <2>2, <2>3, <2>4
<1>3. \A q \in Object : /\ h[q].proxy = o => r # NULL /\ q = r
                        /\ h[q].mReferent = o => p # NULL /\ q = p
  BY ObjectAssumption DEF WeakInv
<1>4. \A q \in Object : h[q] \in Memory
  BY MemoryFacts
<1> DEFINE a == [h[o] EXCEPT !.proxy = NULL]
           b == [h[o] EXCEPT !.mReferent = NULL]
<1>5. CASE p # NULL
  <2> DEFINE c == [h[p] EXCEPT !.mReferent = NULL]
  <2>1. /\ a \in Memory /\ a.proxy = NULL /\ a.mReferent = h[o].mReferent /\ a.state = h[o].state
        /\ a.class = h[o].class /\ a.mRefCnt = h[o].mRefCnt /\ a.member = h[o].member
    BY <1>4 DEF Memory, Pointer
  <2>2. /\ c \in Memory /\ c.mReferent = NULL /\ c.proxy = h[p].proxy /\ c.state = h[p].state
        /\ c.class = h[p].class /\ c.mRefCnt = h[p].mRefCnt /\ c.member = h[p].member
    BY <1>2, <1>4, <1>5 DEF Memory, Pointer
  <2>3. g = [h EXCEPT ![o] = a, ![p] = c]
    BY <1>2, <1>5 DEF Separated, Heap
  <2>4. g \in Heap /\ g[o] = a /\ g[p] = c /\ \A q \in Object \ {o, p} : g[q] = h[q]
    BY <1>2, <1>5, <2>1, <2>2, <2>3 DEF Heap
  <2> HIDE DEF a, c
  <2>5. ASSUME NEW q \in Object
        PROVE  /\ g[q].state = h[q].state /\ g[q].class = h[q].class /\ g[q].mRefCnt = h[q].mRefCnt
               /\ g[q].member = h[q].member
               /\ g[q].proxy = IF q = o \/ h[q].proxy = o THEN NULL ELSE h[q].proxy
               /\ g[q].mReferent = IF q = o \/ h[q].mReferent = o THEN NULL ELSE h[q].mReferent
    <3>1. CASE q = o
      BY <1>2, <1>5, <2>1, <2>4, <3>1
    <3>2. CASE q = p
      BY <1>2, <1>5, <2>2, <2>4, <3>2, ObjectAssumption
    <3>3. CASE q # o /\ q # p
      BY <1>2, <1>3, <1>5, <2>4, <3>3
    <3>4. QED
      BY <3>1, <3>2, <3>3
  <2>6. QED
    BY <2>4, <2>5 DEF Parted
<1>6. CASE p = NULL /\ r # NULL
  <2> DEFINE c == [h[r] EXCEPT !.proxy = NULL]
  <2>1. /\ b \in Memory /\ b.proxy = h[o].proxy /\ b.mReferent = NULL /\ b.state = h[o].state
        /\ b.class = h[o].class /\ b.mRefCnt = h[o].mRefCnt /\ b.member = h[o].member
    BY <1>4 DEF Memory, Pointer
  <2>2. /\ c \in Memory /\ c.mReferent = h[r].mReferent /\ c.proxy = NULL /\ c.state = h[r].state
        /\ c.class = h[r].class /\ c.mRefCnt = h[r].mRefCnt /\ c.member = h[r].member
    BY <1>2, <1>4, <1>6 DEF Memory, Pointer
  <2>3. g = [h EXCEPT ![o] = b, ![r] = c]
    BY <1>2, <1>6 DEF Separated, Heap
  <2>4. g \in Heap /\ g[o] = b /\ g[r] = c /\ \A q \in Object \ {o, r} : g[q] = h[q]
    BY <1>2, <1>6, <2>1, <2>2, <2>3 DEF Heap
  <2> HIDE DEF b, c
  <2>5. ASSUME NEW q \in Object
        PROVE  /\ g[q].state = h[q].state /\ g[q].class = h[q].class /\ g[q].mRefCnt = h[q].mRefCnt
               /\ g[q].member = h[q].member
               /\ g[q].proxy = IF q = o \/ h[q].proxy = o THEN NULL ELSE h[q].proxy
               /\ g[q].mReferent = IF q = o \/ h[q].mReferent = o THEN NULL ELSE h[q].mReferent
    <3>1. CASE q = o
      BY <1>2, <1>6, <2>1, <2>4, <3>1
    <3>2. CASE q = r
      BY <1>2, <1>6, <2>2, <2>4, <3>2, ObjectAssumption
    <3>3. CASE q # o /\ q # r
      BY <1>2, <1>3, <1>6, <2>4, <3>3
    <3>4. QED
      BY <3>1, <3>2, <3>3
  <2>6. QED
    BY <2>4, <2>5 DEF Parted
<1>7. CASE p = NULL /\ r = NULL
  <2>1. g = h
    BY <1>7 DEF Separated
  <2>2. \A q \in Object : h[q].proxy # o /\ h[q].mReferent # o
    BY <1>3, <1>7
  <2>3. QED
    BY <1>7, <2>1, <2>2 DEF Parted
<1>8. QED
  BY <1>5, <1>6, <1>7

LEMMA PartedKeeps ==
  ASSUME NEW h, NEW g, NEW sl, NEW lo, NEW list, NEW st, NEW ph, NEW o \in Object,
         Consistent(h, sl, lo, NULL, list, st, ph), Parted(h, g, o), h[o].state # "free"
  PROVE  Consistent(g, sl, lo, NULL, list, st, ph)
<1>1. h \in Heap /\ st \in Seq(Frame) /\ ph # "released" /\ ListInv(h, list) /\ HolderInv(h, list)
      /\ WeakInv(h) /\ MemoryInv(h, ph) /\ StackInv(h, st, ph)
      /\ Sound(h, sl, lo, NULL, DyingIn(st), ph)
  BY DEF Consistent, Structure
<1>2. \A p \in Object :
        /\ g[p].state = h[p].state /\ g[p].class = h[p].class /\ g[p].mRefCnt = h[p].mRefCnt
        /\ g[p].member = h[p].member
        /\ g[p].proxy = IF p = o \/ h[p].proxy = o THEN NULL ELSE h[p].proxy
        /\ g[p].mReferent = IF p = o \/ h[p].mReferent = o THEN NULL ELSE h[p].mReferent
  BY DEF Parted
<1>3. \A p \in Object :
        h[p].member \in Pointer /\ h[p].proxy \in Pointer /\ h[p].mReferent \in Pointer
  BY <1>1, MemoryFacts
<1>4. Sound(g, sl, lo, NULL, DyingIn(st), ph)
  <2>1. \A p : OwnersIn(g, sl, lo, p) = OwnersIn(h, sl, lo, p)
    BY <1>2, SameMembers
  <2>2. QED
    BY <1>1, <1>2, <2>1, SoundTransfer
<1>5. ListInv(g, list)
  BY <1>1, <1>2 DEF ListInv
<1>6. HolderInv(g, list)
  BY <1>1, <1>2, <1>3 DEF HolderInv, Pointer
<1>7. WeakInv(g)
  <2> SUFFICES ASSUME NEW p \in Object
               PROVE  /\ g[p].proxy # NULL =>
                           /\ g[p].class = "plain" /\ g[g[p].proxy].mReferent = p
                           /\ g[g[p].proxy].state \in {"live", "revoked"}
                      /\ g[p].mReferent # NULL =>
                           /\ g[p].class = "proxy" /\ g[g[p].mReferent].proxy = p
                           /\ g[g[p].mReferent].state \in {"live", "revoked"}
    BY DEF WeakInv
  <2>1. ASSUME g[p].proxy # NULL
        PROVE  /\ g[p].class = "plain" /\ g[g[p].proxy].mReferent = p
               /\ g[g[p].proxy].state \in {"live", "revoked"}
    <3>1. p # o /\ h[p].proxy # o /\ g[p].proxy = h[p].proxy /\ h[p].proxy \in Object
      BY <1>2, <1>3, <2>1 DEF Pointer
    <3>2. QED
      BY <1>1, <1>2, <2>1, <3>1 DEF WeakInv
  <2>2. ASSUME g[p].mReferent # NULL
        PROVE  /\ g[p].class = "proxy" /\ g[g[p].mReferent].proxy = p
               /\ g[g[p].mReferent].state \in {"live", "revoked"}
    <3>1. p # o /\ h[p].mReferent # o /\ g[p].mReferent = h[p].mReferent /\ h[p].mReferent \in Object
      BY <1>2, <1>3, <2>2 DEF Pointer
    <3>2. QED
      BY <1>1, <1>2, <2>2, <3>1 DEF WeakInv
  <2>3. QED
    BY <2>1, <2>2
<1>8. MemoryInv(g, ph)
  <2> SUFFICES ASSUME NEW p \in Object
               PROVE  /\ g[p].state = "free" => g[p] = Free
                      /\ g[p].state = "rotted" => g[p].member = NULL
                      /\ ph = "running" => g[p].state \in {"free", "live"}
    BY <1>1 DEF MemoryInv
  <2>1. ASSUME g[p].state = "free" PROVE g[p] = Free
    <3>1. h[p] = Free /\ h[p].proxy = NULL /\ h[p].mReferent = NULL
      BY <1>1, <1>2, <2>1 DEF MemoryInv, Free
    <3>2. g[p].proxy = h[p].proxy /\ g[p].mReferent = h[p].mReferent
      BY <1>2, <3>1
    <3>3. g[p] \in Memory /\ h[p] \in Memory
      BY <1>1 DEF Parted, Heap
    <3>4. g[p] = h[p]
      BY <1>2, <3>2, <3>3 DEF Memory
    <3>5. QED
      BY <3>1, <3>4
  <2>2. QED
    BY <1>1, <1>2, <2>1 DEF MemoryInv
<1>9. StackInv(g, st, ph)
  <2>1. \A i \in 1..Len(st) : st[i].object \in Object
    <3>1. \A i \in 1..Len(st) : st[i] \in Frame
      BY <1>1
    <3>2. QED
      BY <3>1 DEF Frame
  <2>2. ASSUME NEW i \in 1..Len(st) PROVE FrameInv(g, st[i], ph)
    <3>1. FrameInv(h, st[i], ph)
      BY <1>1 DEF StackInv
    <3>2. QED
      BY <1>2, <2>1, <3>1 DEF FrameInv
  <2>3. QED
    BY <1>1, <1>2, <2>2 DEF StackInv
<1>10. QED
  BY <1>4, <1>5, <1>6, <1>7, <1>8, <1>9 DEF Consistent, Structure, Parted

LEMMA ClearWeakReferencesStep ==
  ASSUME OInv, ClearWeakReferences PROVE OInv'
<1> DEFINE o == Top.object
           fr == [stack[Len(stack)] EXCEPT !.step = "memory"]
<1>1. stack # <<>> /\ Top.step = "bases"
  BY DEF ClearWeakReferences, At
<1>2. /\ VariablesInv /\ Consistent(heap, slot, loose, NULL, mInstances, stack, phase)
      /\ Top \in Frame /\ o \in Object /\ FrameInv(heap, Top, phase)
  BY <1>1, TopFacts
<1>3. heap \in Heap /\ WeakInv(heap) /\ heap[o].state # "free"
  BY <1>2 DEF Consistent, Structure, FrameInv
<1>4. Parted(heap, heap', o)
  BY <1>2, <1>3, SeparatedFacts DEF ClearWeakReferences
<1>5. Consistent(heap', slot, loose, NULL, mInstances, stack, phase)
  BY <1>2, <1>3, <1>4, PartedKeeps
<1>6. FrameInv(heap', fr, phase)
  <2>1. /\ fr.object = o /\ fr.by = Top.by /\ fr.step = "memory"
        /\ heap'[o].state = heap[o].state /\ heap'[o].member = heap[o].member
        /\ heap'[o].proxy = NULL /\ heap'[o].mReferent = NULL
    BY <1>2, <1>4 DEF Top, Frame, Parted
  <2>2. QED
    BY <1>1, <1>2, <2>1 DEF FrameInv
<1>7. Consistent(heap', slot, loose, NULL, mInstances, [stack EXCEPT ![Len(stack)] = fr], phase)
  BY <1>1, <1>5, <1>6, Advanced DEF Step
<1>8. Consistent(heap', slot', loose', NULL, mInstances', stack', phase')
  BY <1>7 DEF ClearWeakReferences, DestructorKept, Below
<1>9. QED
  BY <1>2, <1>8, Closing DEF ClearWeakReferences, DestructorKept, VariablesInv

(* o is not live any more, and nobody is left who would miss it.            *)
LEMMA SoundGone ==
  ASSUME NEW h, NEW g, NEW sl, NEW lo, NEW D, NEW E, NEW ph, NEW o \in Object,
         Sound(h, sl, lo, NULL, D, ph), \A p \in Object : g[p].member = h[p].member,
         \A p \in Object \ {o} : /\ g[p].state = h[p].state /\ g[p].mRefCnt = h[p].mRefCnt
                                 /\ p \in E <=> p \in D,
         g[o].state # "live",
         Owned(h, sl, lo, NULL, o) => g[o].state # "free" /\ ph # "running"
  PROVE  Sound(g, sl, lo, NULL, E, ph)
<1> SUFFICES ASSUME NEW p \in Object
             PROVE  /\ g[p].state = "live" /\ p \notin E =>
                         g[p].mRefCnt = OwnersIn(g, sl, lo, p) + One(NULL, p)
                    /\ g[p].state = "live" /\ p \in E => g[p].mRefCnt = 1
                    /\ Owned(g, sl, lo, NULL, p) =>
                         /\ g[p].state # "free"
                         /\ p \in E => g[p].state # "live"
                         /\ ph = "running" => g[p].state = "live"
  BY DEF Sound
<1>1. /\ OwnersIn(g, sl, lo, p) = OwnersIn(h, sl, lo, p)
      /\ Owned(g, sl, lo, NULL, p) <=> Owned(h, sl, lo, NULL, p)
  BY SameMembers
<1>2. CASE p = o
  BY <1>1, <1>2
<1>3. CASE p # o
  <2>1. /\ g[p].state = h[p].state /\ g[p].mRefCnt = h[p].mRefCnt
        /\ p \in E <=> p \in D
    BY <1>3
  <2>2. QED
    BY <1>1, <2>1 DEF Sound
<1>4. QED
  BY <1>2, <1>3

LEMMA StackPopped ==
  ASSUME NEW st \in Seq(Frame), st # <<>>, \A i, j \in 1..Len(st) : st[i].object = st[j].object => i = j,
         NEW rest, rest = Front(st)
  PROVE  /\ rest \in Seq(Frame) /\ \A i \in 1..Len(rest) : i \in 1..Len(st) /\ rest[i] = st[i]
         /\ DyingIn(rest) = DyingIn(st) \ {st[Len(st)].object}
<1>1. Len(st) \in Nat \ {0}
  OBVIOUS
<1>2. /\ rest \in Seq(Frame) /\ Len(rest) = Len(st) - 1
      /\ \A i \in 1..Len(rest) : rest[i] = st[i]
  <2>1. /\ 1 \in Int /\ Len(st) - 1 \in Int /\ \A i \in 1..(Len(st) - 1) : st[i] \in Frame
        /\ Len(st) - 1 - 1 + 1 = Len(st) - 1
    BY <1>1
  <2>2. /\ SubSeq(st, 1, Len(st) - 1) \in Seq(Frame)
        /\ Len(SubSeq(st, 1, Len(st) - 1)) =
             IF 1 <= Len(st) - 1 THEN Len(st) - 1 - 1 + 1 ELSE 0
        /\ \A i \in 1..(Len(st) - 1 - 1 + 1) : SubSeq(st, 1, Len(st) - 1)[i] = st[1 + i - 1]
    BY <2>1, SubSeqProperties
  <2>3. \A i \in 1..(Len(st) - 1) : 1 + i - 1 = i
    BY <1>1
  <2>4. /\ SubSeq(st, 1, Len(st) - 1) \in Seq(Frame)
        /\ Len(SubSeq(st, 1, Len(st) - 1)) = Len(st) - 1
        /\ \A i \in 1..(Len(st) - 1) : SubSeq(st, 1, Len(st) - 1)[i] = st[i]
    BY <1>1, <2>1, <2>2, <2>3
  <2>5. QED
    BY <2>4 DEF Front
<1>3. \A i \in 1..Len(rest) : i \in 1..Len(st) /\ i # Len(st)
  BY <1>1, <1>2
<1>4. \A i \in 1..Len(st) : i = Len(st) \/ i \in 1..Len(rest)
  BY <1>1, <1>2
<1>5. DyingIn(rest) = DyingIn(st) \ {st[Len(st)].object}
  <2>1. Len(st) \in 1..Len(st)
    BY <1>1
  <2>2. ASSUME NEW x PROVE x \in DyingIn(rest) <=> x \in DyingIn(st) /\ x # st[Len(st)].object
    <3>1. ASSUME x \in DyingIn(rest) PROVE x \in DyingIn(st) /\ x # st[Len(st)].object
      <4>1. PICK i \in 1..Len(rest) : x = rest[i].object
        BY <3>1 DEF DyingIn
      <4>2. i \in 1..Len(st) /\ i # Len(st) /\ x = st[i].object
        BY <1>2, <1>3, <4>1
      <4>3. QED
        BY <2>1, <4>2 DEF DyingIn
    <3>2. ASSUME x \in DyingIn(st), x # st[Len(st)].object PROVE x \in DyingIn(rest)
      <4>1. PICK i \in 1..Len(st) : x = st[i].object
        BY <3>2 DEF DyingIn
      <4>2. i \in 1..Len(rest) /\ x = rest[i].object
        BY <1>2, <1>4, <3>2, <4>1
      <4>3. QED
        BY <4>2 DEF DyingIn
    <3>3. QED
      BY <3>1, <3>2
  <2>3. QED
    BY <2>2
<1>6. QED
  BY <1>2, <1>3, <1>5

LEMMA RevokeObjectStep ==
  ASSUME OInv, RevokeObject PROVE OInv'
<1> DEFINE left == IF Top.by = "delete" THEN "free" ELSE "rotted"
           gone == [Free EXCEPT !.state = left]
<1>1. PICK o \in Object : o = Top.object
  BY TopFacts DEF RevokeObject, At
<1>2. stack # <<>> /\ Top.step = "memory"
  BY DEF RevokeObject, At
<1>3. /\ VariablesInv /\ Consistent(heap, slot, loose, NULL, mInstances, stack, phase)
      /\ o \in DyingIn(stack) /\ FrameInv(heap, Top, phase) /\ Top \in Frame
  BY <1>1, <1>2, TopFacts
<1>4. /\ heap \in Heap /\ stack \in Seq(Frame) /\ mInstances \in Seq(Object)
      /\ phase # "released" /\ phase \in {"running", "collecting"}
      /\ ListInv(heap, mInstances) /\ HolderInv(heap, mInstances)
      /\ WeakInv(heap) /\ MemoryInv(heap, phase) /\ StackInv(heap, stack, phase)
      /\ Sound(heap, slot, loose, NULL, DyingIn(stack), phase)
  BY <1>3 DEF Consistent, Structure
<1>5. /\ heap[o].member = NULL /\ heap[o].proxy = NULL /\ heap[o].mReferent = NULL
      /\ heap[o].state = (IF Top.by = "delete" THEN "live" ELSE "revoked")
      /\ Top.by \in {"delete", "collector"}
      /\ (Top.by = "collector" => phase = "collecting") /\ o # NULL
  BY <1>1, <1>2, <1>3, ObjectAssumption DEF FrameInv, Frame
<1>6. /\ gone \in Memory /\ gone.state = left /\ gone.class = "plain" /\ gone.member = NULL
      /\ gone.proxy = NULL /\ gone.mReferent = NULL /\ (left = "free" => gone = Free)
      /\ left \in {"free", "rotted"}
  BY DEF Memory, Free, Class, Pointer
<1>7. heap' \in Heap /\ heap'[o] = gone /\ \A p \in Object \ {o} : heap'[p] = heap[p]
  <2>1. heap' = [heap EXCEPT ![o] = gone]
    BY <1>1 DEF RevokeObject
  <2>2. QED
    BY <1>4, <1>6, <2>1 DEF Heap
<1> HIDE DEF gone
<1>8. \A p \in Object :
        heap[p].member \in Pointer /\ heap[p].proxy \in Pointer /\ heap[p].mReferent \in Pointer
  BY <1>4, MemoryFacts
<1>9. /\ stack' \in Seq(Frame)
      /\ \A i \in 1..Len(stack') : i \in 1..Len(stack) /\ stack'[i] = stack[i]
      /\ DyingIn(stack') = DyingIn(stack) \ {o}
  <2>1. \A i, j \in 1..Len(stack) : stack[i].object = stack[j].object => i = j
    BY <1>4 DEF StackInv
  <2>2. stack' = Front(stack)
    BY DEF RevokeObject
  <2>3. ASSUME NEW st \in Seq(Frame), st # <<>>,
               \A i, j \in 1..Len(st) : st[i].object = st[j].object => i = j,
               NEW rest, rest = Front(st)
        PROVE  /\ rest \in Seq(Frame) /\ \A i \in 1..Len(rest) : i \in 1..Len(st) /\ rest[i] = st[i]
               /\ DyingIn(rest) = DyingIn(st) \ {st[Len(st)].object}
    BY <2>3, StackPopped
  <2>4. stack \in Seq(Frame) /\ stack # <<>> /\ stack[Len(stack)].object = o
    BY <1>1, <1>2, <1>4 DEF Top
  <2>5. QED
    BY <2>1, <2>2, <2>3, <2>4
<1>10. /\ mInstances' \in Seq(Object) /\ Distinct(mInstances')
       /\ \A p : Listed(mInstances', p) <=> Listed(mInstances, p) /\ p # o
       /\ \A p, q : Before(mInstances, p, q) /\ p # o => Before(mInstances', p, q)
  <2>1. Distinct(mInstances)
    BY <1>4 DEF ListInv, Distinct
  <2>2. mInstances' = RemoveFirst(mInstances, o)
    BY <1>1 DEF RevokeObject
  <2>3. QED
    BY <1>4, <2>1, <2>2, UnlinkedFacts
<1>11. Owned(heap, slot, loose, NULL, o) => heap[o].state # "live"
  BY <1>3, <1>4 DEF Sound
<1>12. Sound(heap', slot, loose, NULL, DyingIn(stack'), phase)
  <2>1. \A p \in Object : heap'[p].member = heap[p].member
    BY <1>5, <1>6, <1>7
  <2>2. \A p \in Object \ {o} : /\ heap'[p].state = heap[p].state
                                /\ heap'[p].mRefCnt = heap[p].mRefCnt
                                /\ p \in DyingIn(stack') <=> p \in DyingIn(stack)
    BY <1>7, <1>9
  <2>3. heap'[o].state # "live"
    BY <1>6, <1>7
  <2>4. Owned(heap, slot, loose, NULL, o) => heap'[o].state # "free" /\ phase # "running"
    BY <1>5, <1>6, <1>7, <1>11
  <2>5. QED
    BY <1>4, <2>1, <2>2, <2>3, <2>4, SoundGone
<1>13. ListInv(heap', mInstances')
  <2>1. \A p \in Object : Listed(mInstances', p) <=> heap'[p].state = "live"
    BY <1>4, <1>6, <1>7, <1>10 DEF ListInv
  <2>2. QED
    BY <1>10, <2>1 DEF ListInv, Distinct
<1>14. HolderInv(heap', mInstances')
  <2> SUFFICES ASSUME NEW p \in Object
               PROVE  /\ heap'[p].class = "holder" /\ heap'[p].member # NULL =>
                           /\ heap'[heap'[p].member].state = "live"
                           /\ Before(mInstances', heap'[p].member, p)
                      /\ heap'[p].class = "proxy" => heap'[p].member = NULL
    BY DEF HolderInv
  <2>1. CASE p = o
    BY <1>6, <1>7, <2>1
  <2>2. CASE p # o
    <3>1. heap'[p] = heap[p]
      BY <1>7, <2>2
    <3>2. ASSUME heap[p].class = "holder", heap[p].member # NULL
          PROVE  heap'[heap[p].member].state = "live" /\ Before(mInstances', heap[p].member, p)
      <4>1. /\ heap[p].member \in Object /\ heap[heap[p].member].state = "live"
            /\ Before(mInstances, heap[p].member, p)
        BY <1>4, <1>8, <3>2 DEF HolderInv, Pointer
      <4>2. heap[p].member # o
        <5>1. heap[p].member = o => Owned(heap, slot, loose, NULL, o)
          BY DEF Owned
        <5>2. QED
          BY <1>11, <4>1, <5>1
      <4>3. QED
        BY <1>7, <1>10, <4>1, <4>2
    <3>3. heap[p].class = "proxy" => heap[p].member = NULL
      BY <1>4 DEF HolderInv
    <3>4. QED
      BY <3>1, <3>2, <3>3
  <2>3. QED
    BY <2>1, <2>2
<1>15. WeakInv(heap')
  <2> SUFFICES ASSUME NEW p \in Object
               PROVE  /\ heap'[p].proxy # NULL =>
                           /\ heap'[p].class = "plain" /\ heap'[heap'[p].proxy].mReferent = p
                           /\ heap'[heap'[p].proxy].state \in {"live", "revoked"}
                      /\ heap'[p].mReferent # NULL =>
                           /\ heap'[p].class = "proxy" /\ heap'[heap'[p].mReferent].proxy = p
                           /\ heap'[heap'[p].mReferent].state \in {"live", "revoked"}
    BY DEF WeakInv
  <2>1. heap[p].proxy # o /\ heap[p].mReferent # o
    BY <1>4, <1>5, ObjectAssumption DEF WeakInv
  <2>2. CASE p = o
    BY <1>6, <1>7, <2>2
  <2>3. CASE p # o
    <3>1. heap'[p] = heap[p]
      BY <1>7, <2>3
    <3>2. heap[p].proxy # NULL => heap[p].proxy \in Object \ {o}
      BY <1>8, <2>1 DEF Pointer
    <3>3. heap[p].mReferent # NULL => heap[p].mReferent \in Object \ {o}
      BY <1>8, <2>1 DEF Pointer
    <3>4. QED
      BY <1>4, <1>7, <3>1, <3>2, <3>3 DEF WeakInv
  <2>4. QED
    BY <2>2, <2>3
<1>16. MemoryInv(heap', phase)
  <2> SUFFICES ASSUME NEW p \in Object
               PROVE  /\ heap'[p].state = "free" => heap'[p] = Free
                      /\ heap'[p].state = "rotted" => heap'[p].member = NULL
                      /\ phase = "running" => heap'[p].state \in {"free", "live"}
    BY <1>4 DEF MemoryInv
  <2>1. CASE p = o
    BY <1>5, <1>6, <1>7, <2>1
  <2>2. CASE p # o
    BY <1>4, <1>7, <2>2 DEF MemoryInv
  <2>3. QED
    BY <2>1, <2>2
<1>17. StackInv(heap', stack', phase)
  <2>1. ASSUME NEW i \in 1..Len(stack') PROVE stack'[i].object \in Object \ {o}
    <3>1. stack'[i] \in Frame /\ stack'[i].object \in DyingIn(stack')
      BY <1>9 DEF DyingIn
    <3>2. QED
      BY <1>9, <3>1 DEF Frame
  <2>2. ASSUME NEW i \in 1..Len(stack') PROVE FrameInv(heap', stack'[i], phase)
    <3>1. FrameInv(heap, stack'[i], phase)
      BY <1>4, <1>9 DEF StackInv
    <3>2. heap'[stack'[i].object] = heap[stack'[i].object]
      BY <1>7, <2>1
    <3>3. QED
      BY <3>1, <3>2 DEF FrameInv
  <2>3. \A i, j \in 1..Len(stack') : stack'[i].object = stack'[j].object => i = j
    BY <1>4, <1>9 DEF StackInv
  <2>4. \A p \in Object : heap'[p].state = "revoked" => p \in DyingIn(stack')
    <3>1. heap'[o].state # "revoked"
      BY <1>6, <1>7
    <3>2. QED
      BY <1>4, <1>7, <1>9, <3>1 DEF StackInv
  <2>5. QED
    BY <1>4, <2>2, <2>3, <2>4 DEF StackInv
<1>18. Consistent(heap', slot', loose', NULL, mInstances', stack', phase')
  <2>1. UNCHANGED <<slot, loose, phase>>
    BY DEF RevokeObject, DestructorKept
  <2>2. QED
    BY <1>4, <1>7, <1>9, <1>10, <1>12, <1>13, <1>14, <1>15, <1>16, <1>17, <2>1
       DEF Consistent, Structure
<1>19. QED
  BY <1>3, <1>18, Closing DEF RevokeObject, DestructorKept, VariablesInv

-----------------------------------------------------------------------------
(* The allocator.                                                           *)
LEMMA ReleaseAllocatorStateStep ==
  ASSUME OInv, ReleaseAllocatorState PROVE OInv'
<1>1. /\ VariablesInv /\ Consistent(heap, slot, loose, NULL, mInstances, stack, "running")
      /\ stack = <<>>
  BY Opening DEF ReleaseAllocatorState, Running
<1>2. Sound(heap, slot, loose, NULL, DyingIn(stack), "collecting")
  BY <1>1 DEF Consistent, Sound
<1>3. Structure(heap, mInstances, "collecting")
  BY <1>1 DEF Consistent, Structure, MemoryInv
<1>4. StackInv(heap, stack, "collecting")
  BY <1>1 DEF Consistent, StackInv
<1>5. Consistent(heap', slot', loose', NULL, mInstances', stack', phase')
  BY <1>1, <1>2, <1>3, <1>4 DEF ReleaseAllocatorState, Consistent
<1>6. QED
  BY <1>1, <1>5, Closing DEF ReleaseAllocatorState, VariablesInv

LEMMA FreeObjectStep ==
  ASSUME OInv, FreeObject PROVE OInv'
<1>1. /\ VariablesInv /\ Consistent(heap, slot, loose, NULL, mInstances, stack, phase)
      /\ stack = <<>> /\ phase = "collecting" /\ mInstances # <<>>
  BY Opening DEF FreeObject
<1>2. /\ heap \in Heap /\ mInstances \in Seq(Object)
      /\ ListInv(heap, mInstances) /\ HolderInv(heap, mInstances)
      /\ WeakInv(heap) /\ MemoryInv(heap, phase) /\ StackInv(heap, stack, phase)
      /\ Sound(heap, slot, loose, NULL, {}, phase)
  BY <1>1, NobodyDies DEF Consistent, Structure
<1> DEFINE o == Last(mInstances)
<1>3. /\ o \in Object /\ Listed(mInstances, o)
      /\ mInstances' \in Seq(Object) /\ Distinct(mInstances')
      /\ \A p : Listed(mInstances', p) <=> Listed(mInstances, p) /\ p # o
      /\ \A p, q : Before(mInstances, p, q) /\ p # o => Before(mInstances', p, q)
      /\ \A q : ~(Before(mInstances, o, q) /\ Listed(mInstances, q))
  <2>1. Distinct(mInstances)
    BY <1>2 DEF ListInv, Distinct
  <2>2. mInstances' = Front(mInstances)
    BY DEF FreeObject
  <2>3. QED
    BY <1>1, <1>2, <2>1, <2>2, PoppedFacts
<1> DEFINE gone == [heap[o] EXCEPT !.state = "revoked"]
<1>4. /\ heap' = [heap EXCEPT ![o] = gone]
      /\ stack' = <<Destructor(o, "collector")>>
  BY DEF FreeObject, Popped
<1> HIDE DEF o
<1>5. heap[o].state = "live"
  BY <1>2, <1>3 DEF ListInv
<1>6. /\ gone \in Memory /\ gone.state = "revoked" /\ gone.class = heap[o].class
      /\ gone.mRefCnt = heap[o].mRefCnt /\ gone.member = heap[o].member
      /\ gone.proxy = heap[o].proxy /\ gone.mReferent = heap[o].mReferent
  BY <1>2, <1>3, MemoryFacts DEF Memory
<1>7. heap' \in Heap /\ heap'[o] = gone /\ \A p \in Object \ {o} : heap'[p] = heap[p]
  BY <1>2, <1>3, <1>4, <1>6 DEF Heap
<1> HIDE DEF gone
<1>8. /\ heap'[o].state = "revoked"
      /\ \A p \in Object : /\ heap'[p].class = heap[p].class /\ heap'[p].mRefCnt = heap[p].mRefCnt
                           /\ heap'[p].member = heap[p].member /\ heap'[p].proxy = heap[p].proxy
                           /\ heap'[p].mReferent = heap[p].mReferent
                           /\ p # o => heap'[p].state = heap[p].state
  <2>1. ASSUME NEW p \in Object
        PROVE  /\ heap'[p].class = heap[p].class /\ heap'[p].mRefCnt = heap[p].mRefCnt
               /\ heap'[p].member = heap[p].member /\ heap'[p].proxy = heap[p].proxy
               /\ heap'[p].mReferent = heap[p].mReferent
               /\ p # o => heap'[p].state = heap[p].state
    <3>1. CASE p = o
      BY <1>6, <1>7, <3>1
    <3>2. CASE p # o
      BY <1>7, <3>2
    <3>3. QED
      BY <3>1, <3>2
  <2>2. QED
    BY <1>6, <1>7, <2>1
<1>9. \A p \in Object :
        heap[p].member \in Pointer /\ heap[p].proxy \in Pointer /\ heap[p].mReferent \in Pointer
  BY <1>2, MemoryFacts
<1> DEFINE fr == Destructor(o, "collector")
<1>10. /\ fr \in Frame /\ fr.object = o /\ fr.by = "collector" /\ fr.step = "body"
  BY <1>3 DEF Destructor, Frame, Step
<1>11. /\ stack' = <<fr>> /\ stack' \in Seq(Frame) /\ Len(stack') = 1 /\ stack'[1] = fr
       /\ DyingIn(stack') = {o}
  <2> HIDE DEF fr
  <2>1. stack' = <<fr>>
    BY <1>4 DEF fr
  <2>2. stack' \in Seq(Frame) /\ Len(stack') = 1 /\ stack'[1] = fr
    BY <1>10, <2>1
  <2>3. DyingIn(stack') = {o}
    BY <1>10, <2>2 DEF DyingIn
  <2>4. QED
    BY <2>1, <2>2, <2>3
<1> HIDE DEF fr
<1>12. Sound(heap', slot, loose, NULL, DyingIn(stack'), phase)
  <2>1. \A p \in Object : heap'[p].member = heap[p].member
    BY <1>8
  <2>2. \A p \in Object \ {o} : /\ heap'[p].state = heap[p].state
                                /\ heap'[p].mRefCnt = heap[p].mRefCnt
                                /\ p \in DyingIn(stack') <=> p \in DyingIn(stack)
    BY <1>1, <1>8, <1>11, NobodyDies
  <2>3. heap'[o].state # "live"
    BY <1>8
  <2>4. Owned(heap, slot, loose, NULL, o) => heap'[o].state # "free" /\ phase # "running"
    BY <1>1, <1>8
  <2>5. o \in Object /\ Sound(heap, slot, loose, NULL, DyingIn(stack), phase)
    BY <1>1, <1>3 DEF Consistent
  <2>6. QED
    BY <2>1, <2>2, <2>3, <2>4, <2>5, SoundGone
<1>13. ListInv(heap', mInstances')
  <2>1. \A p \in Object : Listed(mInstances', p) <=> heap'[p].state = "live"
    BY <1>2, <1>3, <1>8 DEF ListInv
  <2>2. QED
    BY <1>3, <2>1 DEF ListInv, Distinct
<1>14. HolderInv(heap', mInstances')
  <2> SUFFICES ASSUME NEW p \in Object
               PROVE  /\ heap'[p].class = "holder" /\ heap'[p].member # NULL =>
                           /\ heap'[heap'[p].member].state = "live"
                           /\ Before(mInstances', heap'[p].member, p)
                      /\ heap'[p].class = "proxy" => heap'[p].member = NULL
    BY DEF HolderInv
  <2>1. ASSUME heap[p].class = "holder", heap[p].member # NULL
        PROVE  heap'[heap[p].member].state = "live" /\ Before(mInstances', heap[p].member, p)
    <3>1. /\ heap[p].member \in Object /\ heap[heap[p].member].state = "live"
          /\ Before(mInstances, heap[p].member, p)
      BY <1>2, <1>9, <2>1 DEF HolderInv, Pointer
    <3>2. heap[p].state = "live"
      <4>1. heap[p].state # "free"
        BY <1>2, <2>1 DEF MemoryInv, Free
      <4>2. heap[p].state # "rotted"
        BY <1>2, <2>1 DEF MemoryInv
      <4>3. heap[p].state # "revoked"
        BY <1>1, <1>2, NobodyDies DEF StackInv
      <4>4. heap[p].state \in {"free", "live", "revoked", "rotted"}
        BY <1>2, MemoryFacts
      <4>5. QED
        BY <4>1, <4>2, <4>3, <4>4
    <3>3. heap[p].member # o
      BY <1>2, <1>3, <3>1, <3>2 DEF ListInv
    <3>4. QED
      BY <1>3, <1>8, <3>1, <3>3
  <2>2. heap[p].class = "proxy" => heap[p].member = NULL
    BY <1>2 DEF HolderInv
  <2>3. QED
    BY <1>8, <2>1, <2>2
<1>15. WeakInv(heap')
  <2> SUFFICES ASSUME NEW p \in Object
               PROVE  /\ heap'[p].proxy # NULL =>
                           /\ heap'[p].class = "plain" /\ heap'[heap'[p].proxy].mReferent = p
                           /\ heap'[heap'[p].proxy].state \in {"live", "revoked"}
                      /\ heap'[p].mReferent # NULL =>
                           /\ heap'[p].class = "proxy" /\ heap'[heap'[p].mReferent].proxy = p
                           /\ heap'[heap'[p].mReferent].state \in {"live", "revoked"}
    BY DEF WeakInv
  <2>1. heap[p].proxy # NULL => heap[p].proxy \in Object
    BY <1>9 DEF Pointer
  <2>2. heap[p].mReferent # NULL => heap[p].mReferent \in Object
    BY <1>9 DEF Pointer
  <2>3. \A q \in Object : heap[q].state \in {"live", "revoked"} =>
          heap'[q].state \in {"live", "revoked"}
    BY <1>8
  <2>4. QED
    BY <1>2, <1>8, <2>1, <2>2, <2>3 DEF WeakInv
<1>16. MemoryInv(heap', phase)
  <2> SUFFICES ASSUME NEW p \in Object
               PROVE  /\ heap'[p].state = "free" => heap'[p] = Free
                      /\ heap'[p].state = "rotted" => heap'[p].member = NULL
    BY <1>1 DEF MemoryInv
  <2>1. CASE p = o
    BY <1>8, <2>1
  <2>2. CASE p # o
    BY <1>2, <1>7, <2>2 DEF MemoryInv
  <2>3. QED
    BY <2>1, <2>2
<1>17. StackInv(heap', stack', phase)
  <2>1. FrameInv(heap', fr, phase)
    BY <1>1, <1>8, <1>10 DEF FrameInv
  <2>2. \A i \in 1..Len(stack') : i = 1
    BY <1>11
  <2>3. \A p \in Object : heap'[p].state = "revoked" => p \in DyingIn(stack')
    BY <1>1, <1>2, <1>8, <1>11, NobodyDies DEF StackInv
  <2>4. QED
    BY <1>1, <1>11, <2>1, <2>2, <2>3 DEF StackInv
<1>18. Consistent(heap', slot', loose', NULL, mInstances', stack', phase')
  <2>1. UNCHANGED <<slot, loose, phase>>
    BY DEF FreeObject, DestructorKept
  <2>2. QED
    BY <1>1, <1>3, <1>7, <1>11, <1>12, <1>13, <1>14, <1>15, <1>16, <1>17, <2>1
       DEF Consistent, Structure
<1>19. QED
  BY <1>1, <1>18, Closing DEF FreeObject, DestructorKept, VariablesInv

LEMMA FreeGarbageListStep ==
  ASSUME OInv, FreeGarbageList PROVE OInv'
<1>1. /\ OInv /\ stack = <<>> /\ mInstances = <<>> /\ phase' = "released"
      /\ UNCHANGED <<mInstances, slot, loose, filling, stack>>
      /\ heap' = [o \in Object |-> IF heap[o].state = "rotted" THEN Free ELSE heap[o]]
  BY DEF FreeGarbageList
<1>2. heap \in Heap
  BY <1>1 DEF OInv, TypeOK, Heap
<1>3. ASSUME NEW o \in Object PROVE heap'[o] = Free
  <2>1. heap[o].state # "live"
    BY <1>1 DEF OInv, ListInv, Listed
  <2>2. heap[o].state # "revoked"
    BY <1>1, NobodyDies DEF OInv, StackInv
  <2>3. heap[o].state \in {"free", "live", "revoked", "rotted"}
    BY <1>2, MemoryFacts
  <2>4. heap[o].state = "free" => heap[o] = Free
    BY <1>1 DEF OInv, MemoryInv
  <2>5. QED
    BY <1>1, <2>1, <2>2, <2>3, <2>4
<1>4. /\ Free \in Memory /\ Free.state = "free" /\ Free.class = "plain" /\ Free.member = NULL
      /\ Free.proxy = NULL /\ Free.mReferent = NULL
  BY DEF Free, Memory, Class, Pointer
<1> HIDE DEF Free
<1>5. heap' \in [Object -> Memory]
  <2>1. heap' = [o \in Object |-> heap'[o]]
    BY <1>1
  <2>2. QED
    BY <1>3, <1>4, <2>1
<1>6. TypeOK'
  BY <1>1, <1>5 DEF OInv, TypeOK
<1>7. ListInv(heap', mInstances')
  BY <1>1, <1>3, <1>4 DEF ListInv, Listed
<1>8. HolderInv(heap', mInstances') /\ WeakInv(heap')
  BY <1>3, <1>4 DEF HolderInv, WeakInv
<1>9. MemoryInv(heap', phase')
  BY <1>1, <1>3, <1>4 DEF MemoryInv
<1>10. StackInv(heap', stack', phase')
  BY <1>1, <1>3, <1>4 DEF StackInv
<1>11. (filling # NULL => slot[filling] = NULL)'
  BY <1>1 DEF OInv
<1>12. QED
  BY <1>1, <1>6, <1>7, <1>8, <1>9, <1>10, <1>11 DEF OInv

-----------------------------------------------------------------------------
LEMMA ProgramKeeps ==
  ASSUME OInv, Program PROVE OInv'
<1>1. ASSUME NEW s \in Slot, Create(s) \/ Forget(s) \/ AssignAddRefed(s) \/ StartAssignment(s)
      PROVE  OInv'
  BY <1>1, CreateStep, ForgetStep, AssignAddRefedStep, StartAssignmentStep
<1>2. ASSUME NEW s \in Slot, NEW o \in Pointer, Assign(s, o) \/ AssignFromCall(s, o)
      PROVE  OInv'
  BY <1>2, AssignStep, AssignFromCallStep
<1>3. ASSUME NEW s \in Slot, NEW t \in Slot,
             Swap(s, t) \/ GetWeakReference(s, t) \/ QueryReferent(s, t)
      PROVE  OInv'
  BY <1>3, SwapStep, GetWeakReferenceStep, QueryReferentStep
<1>4. ASSUME NEW o \in Pointer, CalleeReturns(o) PROVE OInv'
  BY <1>4, CalleeReturnsStep
<1>5. ASSUME NEW o \in Object, NEW new \in Pointer, SetMember(o, new) PROVE OInv'
  BY <1>5, SetMemberStep
<1>6. QED
  BY <1>1, <1>2, <1>3, <1>4, <1>5 DEF Program

(* What always holds of heap, variables, list and destructors in progress:  *)
(* counts are exact outside the objects that are being destroyed, nobody    *)
(* owns what is gone, holders are younger than what they hold.              *)
THEOREM Invariance == Spec => []OInv
<1>1. Init => OInv
  <2> SUFFICES ASSUME Init PROVE OInv
    OBVIOUS
  <2>1. /\ heap = [o \in Object |-> Free] /\ mInstances = <<>> /\ stack = <<>> /\ loose = NULL
        /\ slot = [s \in Slot |-> NULL] /\ filling = NULL /\ phase = "running"
    BY DEF Init
  <2>2. /\ Free \in Memory /\ Free.state = "free" /\ Free.class = "plain" /\ Free.member = NULL
        /\ Free.proxy = NULL /\ Free.mReferent = NULL /\ NULL \in Pointer
    BY DEF Free, Memory, Class, Pointer
  <2> HIDE DEF Free
  <2>3. TypeOK
    BY <2>1, <2>2 DEF TypeOK
  <2>4. \A o \in Object : heap[o] = Free /\ o # NULL
    BY <2>1, ObjectAssumption
  <2>5. Sound(heap, slot, loose, NULL, DyingIn(stack), phase)
    <3>1. \A o \in Object : ~Owned(heap, slot, loose, NULL, o)
      BY <2>1, <2>2, <2>4 DEF Owned
    <3>2. QED
      BY <2>2, <2>4, <3>1 DEF Sound
  <2>6. ListInv(heap, mInstances)
    BY <2>1, <2>2, <2>4 DEF ListInv, Listed
  <2>7. HolderInv(heap, mInstances) /\ WeakInv(heap)
    BY <2>2, <2>4 DEF HolderInv, WeakInv
  <2>8. MemoryInv(heap, phase)
    BY <2>1, <2>2, <2>4 DEF MemoryInv
  <2>9. StackInv(heap, stack, phase)
    BY <2>1, <2>2, <2>4 DEF StackInv
  <2>10. QED
    BY <2>1, <2>3, <2>5, <2>6, <2>7, <2>8, <2>9 DEF OInv
<1>2. OInv /\ [Next]_vars => OInv'
  <2> SUFFICES ASSUME OInv, [Next]_vars PROVE OInv'
    OBVIOUS
  <2>1. CASE Program
    BY <2>1, ProgramKeeps
  <2>2. CASE Destruction
    BY <2>2, DestructorBodyStep, DestroyMembersStep, ClearWeakReferencesStep, RevokeObjectStep
       DEF Destruction
  <2>3. CASE Collection
    BY <2>3, ReleaseAllocatorStateStep, FreeObjectStep, FreeGarbageListStep DEF Collection
  <2>4. CASE Terminated \/ UNCHANGED vars
    BY <2>4 DEF Terminated, vars, OInv, TypeOK
  <2>5. QED
    BY <2>1, <2>2, <2>3, <2>4 DEF Next
<1>3. QED
  BY <1>1, <1>2, PTL DEF Spec

(* The variables have their types: a release never takes a count below      *)
(* zero.                                                                    *)
THEOREM TypeCorrect == Spec => []TypeOK
<1>1. OInv => TypeOK
  BY DEF OInv
<1>2. QED
  BY <1>1, Invariance, PTL

LEMMA OwnersCounted ==
  ASSUME NEW o \in Object, OInv
  PROVE  /\ Owners(o) = OwnersIn(heap, slot, loose, o)
         /\ Owned(heap, slot, loose, NULL, o) <=> Owners(o) > 0
         /\ Dying(o) <=> o \in DyingIn(stack)
<1>1. Owners(o) = OwnersIn(heap, slot, loose, o)
  <2>1. {p \in Object : Members(heap)[p] = o} = {p \in Object : heap[p].member = o}
    BY DEF Members
  <2>2. QED
    BY <2>1 DEF Owners, OwnersIn, Refs, One
<1>2. One(NULL, o) = 0 /\ OwnersIn(heap, slot, loose, o) \in Nat
  BY OwnersFacts, ObjectAssumption DEF One
<1>3. Owned(heap, slot, loose, NULL, o) <=> OwnersIn(heap, slot, loose, o) + One(NULL, o) > 0
  BY OwnersFacts
<1>4. stack \in Seq(Frame)
  BY DEF OInv, TypeOK
<1>5. Dying(o) <=> o \in DyingIn(stack)
  BY <1>4 DEF Dying, DyingIn
<1>6. QED
  BY <1>1, <1>2, <1>3, <1>5

(* The count of an object that lives and is not being destroyed is the      *)
(* number of its owners, on every path through the owning pointers          *)
(* (cciCOMPtr.h).                                                           *)
THEOREM CountsAreExact == Spec => []CountsOwners
<1>1. OInv => CountsOwners
  <2> SUFFICES ASSUME OInv, NEW o \in Object, Live(o), ~Dying(o)
               PROVE  heap[o].mRefCnt = Owners(o)
    BY DEF CountsOwners
  <2>1. heap[o].state = "live" /\ o \notin DyingIn(stack)
    BY OwnersCounted DEF Live
  <2>2. phase # "released"
    BY <2>1 DEF OInv, MemoryInv, Free
  <2>3. heap[o].mRefCnt = OwnersIn(heap, slot, loose, o) + One(NULL, o)
    BY <2>1, <2>2 DEF OInv, Sound
  <2>4. One(NULL, o) = 0 /\ OwnersIn(heap, slot, loose, o) \in Nat
    BY OwnersFacts, ObjectAssumption DEF One
  <2>5. QED
    BY <2>3, <2>4, OwnersCounted
<1>2. QED
  BY <1>1, Invariance, PTL

(* As long as the program runs, whoever owns an object owns one that lives  *)
(* and whose destructor has not begun.                                      *)
THEOREM OwnersAreSafe == Spec => []OwnersHoldLive
<1>1. OInv => OwnersHoldLive
  <2> SUFFICES ASSUME OInv, phase = "running", NEW o \in Object, Owners(o) > 0
               PROVE  Live(o) /\ ~Dying(o)
    BY DEF OwnersHoldLive
  <2>1. Owned(heap, slot, loose, NULL, o)
    BY OwnersCounted
  <2>2. heap[o].state = "live" /\ o \notin DyingIn(stack)
    BY <2>1 DEF OInv, Sound
  <2>3. QED
    BY <2>2, OwnersCounted DEF Live
<1>2. QED
  BY <1>1, Invariance, PTL

(* No destructor is entered twice, whatever it calls, and each one runs on  *)
(* memory in the state its caller left it in (cciSupportsImpl.h,            *)
(* cciAllocatorImpl.cpp).                                                   *)
THEOREM DestructorsRunOnce == Spec => []DestroyedOnce
<1>1. OInv => DestroyedOnce
  <2> SUFFICES ASSUME OInv PROVE DestroyedOnce
    OBVIOUS
  <2>1. stack \in Seq(Frame) /\ StackInv(heap, stack, phase)
    BY DEF OInv, TypeOK
  <2>2. DOMAIN stack = 1..Len(stack)
    BY <2>1
  <2>3. QED
    BY <2>1, <2>2 DEF DestroyedOnce, StackInv, FrameInv
<1>2. QED
  BY <1>1, Invariance, PTL

(* What a destructor releases is an object, not free memory and not memory  *)
(* the collector has marked (~cci_Ptr_base, CCI_IF_RELEASE).                *)
THEOREM CallsAreSafe == Spec => []CallsReachObjects
<1>1. OInv => CallsReachObjects
  <2> DEFINE o == Top.object
             v == Released(o)
  <2> SUFFICES ASSUME OInv, At("members"), v # NULL
               PROVE  heap[v].state \in {"live", "revoked"}
    BY DEF CallsReachObjects
  <2>1. o \in Object /\ Consistent(heap, slot, loose, NULL, mInstances, stack, phase)
    BY TopFacts DEF At
  <2> HIDE DEF o
  <2>2. /\ heap \in Heap /\ HolderInv(heap, mInstances)
        /\ Sound(heap, slot, loose, NULL, DyingIn(stack), phase)
    BY <2>1 DEF Consistent, Structure
  <2>3. /\ v = heap[o].member
        /\ ~(heap[o].class = "plain" /\ heap[v].state = "rotted")
    BY DEF Released
  <2> HIDE DEF v
  <2>4. v \in Object
    BY <2>1, <2>2, <2>3, MemoryFacts DEF Pointer
  <2>5. heap[v].state # "free"
    <3>1. Owned(heap, slot, loose, NULL, v)
      BY <2>1, <2>3 DEF Owned
    <3>2. QED
      BY <2>2, <2>4, <3>1 DEF Sound
  <2>6. heap[v].state # "rotted"
    <3>1. heap[o].class \in {"plain", "holder", "proxy"}
      BY <2>1, <2>2, MemoryFacts DEF Class
    <3>2. heap[o].class # "proxy"
      BY <2>1, <2>2, <2>3 DEF HolderInv
    <3>3. heap[o].class = "holder" => heap[v].state = "live"
      BY <2>1, <2>2, <2>3 DEF HolderInv
    <3>4. QED
      BY <2>3, <3>1, <3>2, <3>3
  <2>7. heap[v].state \in {"free", "live", "revoked", "rotted"}
    BY <2>2, <2>4, MemoryFacts
  <2>8. QED
    BY <2>5, <2>6, <2>7
<1>2. QED
  BY <1>1, Invariance, PTL

(* A proxy and its referent know each other or not at all, and neither      *)
(* leads to freed memory (cciWeakReference.cpp).                            *)
THEOREM WeakReferencesAreMutual == Spec => []WeakIsMutual
<1>1. OInv => WeakIsMutual
  BY DEF OInv, WeakInv, WeakIsMutual
<1>2. QED
  BY <1>1, Invariance, PTL

LEMMA DistinctCounted ==
  ASSUME NEW list \in Seq(Object), Distinct(list)
  PROVE  Cardinality(Range(list)) = Len(list)
<1> DEFINE n == Len(list)
           f == [i \in 1..n |-> list[i]]
<1>1. n \in Nat /\ DOMAIN list = 1..n
  OBVIOUS
<1>2. f \in Bijection(1..n, Range(list))
  <2>1. f \in [1..n -> Range(list)]
    BY <1>1 DEF Range
  <2>2. \A i, j \in 1..n : f[i] = f[j] => i = j
    BY DEF Distinct
  <2>3. \A x \in Range(list) : \E i \in 1..n : f[i] = x
    BY <1>1 DEF Range
  <2>4. QED
    BY <2>1, <2>2, <2>3 DEF Bijection, Injection, Surjection, IsInjective
<1>3. ExistsBijection(1..n, Range(list))
  BY <1>2 DEF ExistsBijection
<1>4. QED
  BY <1>1, <1>3, FS_CountingElements

(* The allocator's list is the set of live objects, each once, and when the *)
(* allocator is gone no object and no memory is left                        *)
(* (cciAllocatorImpl.cpp).                                                  *)
THEOREM NothingIsLeft == Spec => []NothingLeaks
<1>1. OInv => NothingLeaks
  <2> SUFFICES ASSUME OInv PROVE NothingLeaks
    OBVIOUS
  <2>1. mInstances \in Seq(Object) /\ heap \in [Object -> Memory]
    BY DEF OInv, TypeOK
  <2>2. Distinct(mInstances)
    BY DEF OInv, ListInv, Distinct
  <2>3. Range(mInstances) = {o \in Object : Live(o)}
    <3>1. DOMAIN mInstances = 1..Len(mInstances)
      BY <2>1
    <3>2. \A o \in Range(mInstances) : o \in Object
      BY <2>1, <3>1 DEF Range
    <3>3. \A o : o \in Range(mInstances) <=> Listed(mInstances, o)
      BY <3>1 DEF Range, Listed
    <3>4. \A o \in Object : Listed(mInstances, o) <=> Live(o)
      BY DEF OInv, ListInv, Live
    <3>5. QED
      BY <3>2, <3>3, <3>4
  <2>4. Len(mInstances) = Cardinality(Range(mInstances))
    BY <2>1, <2>2, DistinctCounted
  <2>5. phase = "released" => heap = [o \in Object |-> Free]
    BY <2>1 DEF OInv, MemoryInv
  <2>6. QED
    BY <2>3, <2>4, <2>5 DEF NothingLeaks
<1>2. QED
  BY <1>1, Invariance, PTL

-----------------------------------------------------------------------------
(* COMPOSITE OBJECTS AND ENUMERATORS *)
(* The six pointers by their names. *)
OuterBase == [object |-> "outer", base |-> "IBase"]
OuterOwn == [object |-> "outer", base |-> "IOuter"]
InnerOwn == [object |-> "inner", base |-> "IInner"]
InnerPart == [object |-> "inner", base |-> "Internal"]
AloneOwn == [object |-> "alone", base |-> "IInner"]
AlonePart == [object |-> "alone", base |-> "Internal"]

(* The pointers that the composite object gives to its clients.             *)
Outside == {OuterBase, OuterOwn, InnerOwn}
Alone == {AloneOwn, AlonePart}

(* What the constructors hold of the outer object.                          *)
OfConstructor == IF stage = "none" THEN 0 ELSE 1
OfOuter == IF "inner" \in alive THEN 1 ELSE 0

TypeInv ==
  /\ mRefCnt \in [Instance -> Nat] /\ alive \subseteq Instance
  /\ held \in [IPointer -> Nat] /\ stage \in {"none", "init", "innerInit", "made"}

(* Only the outer object, or its constructor, holds the inner one by its    *)
(* part; every other reference to the composite is in the outer's count.    *)
CountsInv ==
  /\ mRefCnt["outer"] = held[OuterBase] + held[OuterOwn] + held[InnerOwn] + OfConstructor
  /\ mRefCnt["inner"] = OfOuter /\ held[InnerPart] = 0
  /\ mRefCnt["alone"] = held[AloneOwn] + held[AlonePart]

AliveInv ==
  /\ \A o \in Instance : o \in alive <=> mRefCnt[o] > 0
  /\ "inner" \in alive <=> "outer" \in alive /\ stage # "init"

(* Nobody but its constructor has a pointer to the outer object before there *)
(* is an inner one, nor when the inner one is done with its own Init.       *)
InitInv == stage \in {"init", "made"} => \A p \in Outside : held[p] = 0

IInv == TypeInv /\ CountsInv /\ AliveInv /\ InitInv
-----------------------------------------------------------------------------
(* The pointers are these six, all different.                               *)
LEMMA Pointers ==
  /\ IPointer = Outside \cup Alone \cup {InnerPart}
  /\ Outside \cap Alone = {} /\ InnerPart \notin Outside \cup Alone
  /\ OuterBase # OuterOwn /\ OuterBase # InnerOwn /\ OuterOwn # InnerOwn
  /\ AloneOwn # AlonePart /\ Null \notin IPointer
<1>1. IPointer \subseteq Outside \cup Alone \cup {InnerPart}
  BY DEF IPointer, Outside, Alone, InnerPart, OuterBase, OuterOwn, InnerOwn, AloneOwn, AlonePart
<1>2. Outside \cup Alone \cup {InnerPart} \subseteq IPointer
  BY DEF IPointer, Outside, Alone, InnerPart, OuterBase, OuterOwn, InnerOwn, AloneOwn, AlonePart
<1>3. Null \notin IPointer BY DEF Null, IPointer
<1> QED
  BY <1>1, <1>2, <1>3 DEF Outside, Alone, InnerPart, OuterBase, OuterOwn, InnerOwn, AloneOwn, AlonePart

(* Where a reference is counted.                                            *)
LEMMA Counters ==
  /\ \A p \in Outside : Counter(p) = "outer"
  /\ \A p \in Alone : Counter(p) = "alone"
BY DEF Counter, Outside, Alone, OuterBase, OuterOwn, InnerOwn, AloneOwn, AlonePart

(* The composite answers with its outside, an object by itself with itself. *)
LEMMA Answers ==
  ASSUME NEW iid \in IID
  PROVE  /\ OuterQueryInterface(iid) \in Outside \cup {Null}
         /\ AggregatedQueryInterface("alone", iid) \in Alone \cup {Null}
         /\ \A p \in Outside : Answer(p, iid) = OuterQueryInterface(iid)
         /\ \A p \in Alone : Answer(p, iid) = AggregatedQueryInterface("alone", iid)
<1>1. OuterQueryInterface(iid) \in Outside \cup {Null}
  BY DEF OuterQueryInterface, BaseQueryInterface, Table, OuterTable, BaseTable, IID, Outside,
         AggregatedQueryInterface, InnerObject, OuterBase, OuterOwn, InnerOwn
<1>2. AggregatedQueryInterface("alone", iid) \in Alone \cup {Null}
  BY DEF AggregatedQueryInterface, InnerObject, Alone, AloneOwn, AlonePart, IID
<1>3. \A p \in Outside : Answer(p, iid) = OuterQueryInterface(iid)
  BY Counters DEF Answer
<1>4. \A p \in Alone : p.object = "alone" BY DEF Alone, AloneOwn, AlonePart
<1>5. \A p \in Alone : Answer(p, iid) = AggregatedQueryInterface("alone", iid)
  BY Counters, <1>4 DEF Answer
<1> QED BY <1>1, <1>2, <1>3, <1>5
-----------------------------------------------------------------------------

(* The last release of the outer object takes the inner one with it.        *)
LEMMA OuterReleased ==
  ASSUME IInv, ReleaseOn("outer"), mRefCnt["outer"] > 0
  PROVE  /\ mRefCnt' \in [Instance -> Nat] /\ alive' \subseteq Instance
         /\ mRefCnt'["outer"] = mRefCnt["outer"] - 1 /\ mRefCnt'["alone"] = mRefCnt["alone"]
         /\ mRefCnt["outer"] > 1 => alive' = alive /\ mRefCnt'["inner"] = mRefCnt["inner"]
         /\ mRefCnt["outer"] = 1 => alive' = alive \ {"outer", "inner"} /\ mRefCnt'["inner"] = 0
<1> USE DEF Instance
<1>1. /\ mRefCnt["outer"] \in Nat /\ mRefCnt["alone"] \in Nat
      /\ mRefCnt["inner"] = IF "inner" \in alive THEN 1 ELSE 0
  BY DEF IInv, TypeInv, CountsInv, OfOuter
<1>2. mRefCnt' = After("outer") BY DEF ReleaseOn
<1>3. /\ mRefCnt'["outer"] = mRefCnt["outer"] - 1 /\ mRefCnt'["alone"] = mRefCnt["alone"]
      /\ mRefCnt'["inner"] = IF mRefCnt["outer"] = 1 /\ "inner" \in alive
                             THEN mRefCnt["inner"] - 1 ELSE mRefCnt["inner"]
      /\ DOMAIN mRefCnt' = Instance /\ mRefCnt' = [c \in Instance |-> mRefCnt'[c]]
  BY <1>2 DEF After
<1>4. \A c \in Instance : mRefCnt'[c] \in Nat BY <1>1, <1>3
<1>5. mRefCnt' \in [Instance -> Nat] BY <1>3, <1>4
<1>6. alive' = IF mRefCnt["outer"] > 1 THEN alive
               ELSE alive \ (IF mRefCnt["inner"] = 1 THEN {"outer", "inner"} ELSE {"outer"})
  BY DEF ReleaseOn, Dead
<1>7. alive \subseteq Instance BY DEF IInv, TypeInv
<1>8. mRefCnt["outer"] = 1 => alive' = alive \ {"outer", "inner"} /\ mRefCnt'["inner"] = 0
  <2>1. CASE "inner" \in alive BY <1>1, <1>3, <1>6, <2>1
  <2>2. CASE "inner" \notin alive BY <1>1, <1>3, <1>6, <2>2
  <2> QED BY <2>1, <2>2
<1>9. mRefCnt["outer"] > 1 => alive' = alive /\ mRefCnt'["inner"] = mRefCnt["inner"]
  BY <1>1, <1>3, <1>6
<1>10. alive' \subseteq Instance BY <1>6, <1>7
<1> QED BY <1>3, <1>5, <1>8, <1>9, <1>10

LEMMA OtherReleased ==
  ASSUME IInv, NEW o \in {"inner", "alone"}, ReleaseOn(o), mRefCnt[o] > 0
  PROVE  /\ mRefCnt' \in [Instance -> Nat] /\ alive' \subseteq Instance
         /\ mRefCnt'[o] = mRefCnt[o] - 1 /\ \A c \in Instance \ {o} : mRefCnt'[c] = mRefCnt[c]
         /\ mRefCnt[o] > 1 => alive' = alive
         /\ mRefCnt[o] = 1 => alive' = alive \ {o}
<1> USE DEF Instance
<1>1. \A c \in Instance : mRefCnt[c] \in Nat BY DEF IInv, TypeInv
<1>2. mRefCnt' = [c \in Instance |-> IF c = o THEN mRefCnt[c] - 1 ELSE mRefCnt[c]]
  BY DEF ReleaseOn, After
<1>3. \A c \in Instance : (IF c = o THEN mRefCnt[c] - 1 ELSE mRefCnt[c]) \in Nat BY <1>1
<1>4. mRefCnt' \in [Instance -> Nat] BY <1>2, <1>3
<1>5. alive' = IF mRefCnt[o] > 1 THEN alive ELSE alive \ {o} BY DEF ReleaseOn, Dead
<1>6. alive' \subseteq Instance BY <1>5 DEF IInv, TypeInv
<1>7. /\ mRefCnt'[o] = mRefCnt[o] - 1 /\ \A c \in Instance \ {o} : mRefCnt'[c] = mRefCnt[c]
  BY <1>2
<1> QED BY <1>4, <1>5, <1>6, <1>7

(* What the client holds after it has got or given back one reference.      *)
LEMMA HeldTypes ==
  ASSUME IInv, NEW q \in IPointer, NEW n \in Nat, held' = [held EXCEPT ![q] = n]
  PROVE  held' \in [IPointer -> Nat] /\ held'[q] = n
         /\ \A p \in IPointer \ {q} : held'[p] = held[p]
BY DEF IInv, TypeInv

(* Of the composite somebody has a pointer only if it lives, and of an      *)
(* object by itself likewise.                                               *)
LEMMA HeldLives ==
  ASSUME IInv, NEW p \in IPointer, held[p] > 0
  PROVE  /\ p \in Outside \cup Alone
         /\ p \in Outside => "outer" \in alive /\ stage \notin {"init", "made"} /\ mRefCnt["outer"] > 0
         /\ p \in Alone => "alone" \in alive /\ mRefCnt["alone"] > 0
<1>0. \A q \in IPointer : held[q] \in Nat BY DEF IInv, TypeInv
<1>1. held[InnerPart] = 0 BY DEF IInv, CountsInv
<1>2. p \in Outside \cup Alone BY <1>1, Pointers
<1>3. OfConstructor \in Nat BY DEF OfConstructor
<1>4. ASSUME p \in Outside PROVE mRefCnt["outer"] > 0
  <2>1. held[OuterBase] \in Nat /\ held[OuterOwn] \in Nat /\ held[InnerOwn] \in Nat
    BY <1>0, Pointers DEF Outside
  <2>2. held[OuterBase] > 0 \/ held[OuterOwn] > 0 \/ held[InnerOwn] > 0 BY <1>4 DEF Outside
  <2> QED BY <1>3, <2>1, <2>2 DEF IInv, CountsInv
<1>5. ASSUME p \in Alone PROVE mRefCnt["alone"] > 0
  <2>1. held[AloneOwn] \in Nat /\ held[AlonePart] \in Nat BY <1>0, Pointers DEF Alone
  <2>2. held[AloneOwn] > 0 \/ held[AlonePart] > 0 BY <1>5 DEF Alone
  <2> QED BY <2>1, <2>2 DEF IInv, CountsInv
<1>6. p \in Outside => stage \notin {"init", "made"}
  <2>1. stage \in {"init", "made"} => \A q \in Outside : held[q] = 0 BY DEF IInv, InitInv
  <2> QED BY <2>1
<1> QED BY <1>2, <1>4, <1>5, <1>6 DEF IInv, AliveInv, Instance

-----------------------------------------------------------------------------
(* A client gets a reference, counted where the object is alive.            *)
LEMMA GainKeeps ==
  ASSUME IInv, NEW q \in Outside \cup Alone, NEW n \in Nat, n = held[q] + 1,
         held' = [held EXCEPT ![q] = n], mRefCnt' = Counted(mRefCnt, Counter(q)),
         UNCHANGED <<alive, stage>>, Counter(q) \in alive,
         q \in Outside => stage \notin {"init", "made"}
  PROVE  IInv'
<1>1. q \in IPointer /\ OuterBase \in IPointer /\ OuterOwn \in IPointer /\ InnerOwn \in IPointer
      /\ AloneOwn \in IPointer /\ AlonePart \in IPointer /\ InnerPart \in IPointer /\ q # InnerPart
  BY Pointers DEF Outside, Alone
<1>2. /\ held' \in [IPointer -> Nat] /\ held'[q] = n
      /\ \A p \in IPointer \ {q} : held'[p] = held[p]
  BY <1>1, HeldTypes
<1>3. Counter(q) \in {"outer", "alone"} BY Counters
<1>4. /\ mRefCnt \in [Instance -> Nat] /\ alive \subseteq Instance /\ held \in [IPointer -> Nat]
      /\ stage \in {"none", "init", "innerInit", "made"}
  BY DEF IInv, TypeInv
<1>5. /\ mRefCnt' \in [Instance -> Nat] /\ mRefCnt'[Counter(q)] = mRefCnt[Counter(q)] + 1
      /\ \A c \in Instance \ {Counter(q)} : mRefCnt'[c] = mRefCnt[c]
  BY <1>3, <1>4 DEF Counted, Instance
<1>6. TypeInv' BY <1>2, <1>4, <1>5 DEF TypeInv
<1>7. CountsInv'
  <2>1. OfConstructor' = OfConstructor /\ OfOuter' = OfOuter /\ OfConstructor \in Nat
    BY DEF OfConstructor, OfOuter
  <2>2. held'[InnerPart] = held[InnerPart] BY <1>1, <1>2
  <2>3. mRefCnt'["inner"] = mRefCnt["inner"] BY <1>3, <1>5 DEF Instance
  <2>4. CASE q \in Outside
    <3>1. mRefCnt'["outer"] = mRefCnt["outer"] + 1 /\ mRefCnt'["alone"] = mRefCnt["alone"]
      BY <1>5, <2>4, Counters DEF Instance
    <3>2. held'[AloneOwn] = held[AloneOwn] /\ held'[AlonePart] = held[AlonePart]
      BY <1>1, <1>2, <2>4, Pointers DEF Alone
    <3>3. /\ held[OuterBase] \in Nat /\ held[OuterOwn] \in Nat /\ held[InnerOwn] \in Nat
      BY <1>1, <1>4
    <3>4. held'[OuterBase] + held'[OuterOwn] + held'[InnerOwn]
          = held[OuterBase] + held[OuterOwn] + held[InnerOwn] + 1
      BY <1>1, <1>2, <2>4, <3>3, Pointers DEF Outside
    <3> QED BY <2>1, <2>2, <2>3, <3>1, <3>2, <3>3, <3>4 DEF IInv, CountsInv
  <2>5. CASE q \in Alone
    <3>1. mRefCnt'["alone"] = mRefCnt["alone"] + 1 /\ mRefCnt'["outer"] = mRefCnt["outer"]
      BY <1>5, <2>5, Counters DEF Instance
    <3>2. /\ held'[OuterBase] = held[OuterBase] /\ held'[OuterOwn] = held[OuterOwn]
          /\ held'[InnerOwn] = held[InnerOwn]
      BY <1>1, <1>2, <2>5, Pointers DEF Outside
    <3>3. held[AloneOwn] \in Nat /\ held[AlonePart] \in Nat BY <1>1, <1>4
    <3>4. held'[AloneOwn] + held'[AlonePart] = held[AloneOwn] + held[AlonePart] + 1
      BY <1>1, <1>2, <2>5, <3>3, Pointers DEF Alone
    <3> QED BY <2>1, <2>2, <2>3, <3>1, <3>2, <3>3, <3>4 DEF IInv, CountsInv
  <2> QED BY <2>4, <2>5
<1>8. AliveInv'
  <2>1. ASSUME NEW o \in Instance PROVE o \in alive' <=> mRefCnt'[o] > 0
    <3>1. (o \in alive <=> mRefCnt[o] > 0) /\ mRefCnt[o] \in Nat BY <1>4 DEF IInv, AliveInv
    <3>2. CASE o = Counter(q) BY <1>5, <3>1, <3>2
    <3>3. CASE o # Counter(q) BY <1>5, <3>1, <3>3
    <3> QED BY <3>2, <3>3
  <2> QED BY <2>1 DEF IInv, AliveInv
<1>9. InitInv'
  <2>1. CASE q \in Outside BY <2>1 DEF InitInv
  <2>2. CASE q \in Alone
    <3>1. \A p \in Outside : held'[p] = held[p] BY <1>2, <2>2, Pointers
    <3> QED BY <3>1 DEF IInv, InitInv
  <2> QED BY <2>1, <2>2
<1> QED BY <1>6, <1>7, <1>8, <1>9 DEF IInv

(* A client gives a reference back: the last one takes the object with it.  *)
LEMMA InterfaceReleaseKeeps ==
  ASSUME IInv, NEW q \in IPointer, ReleaseInterface(q)
  PROVE  IInv'
<1>0. /\ held[q] > 0 /\ ReleaseOn(Counter(q)) /\ stage' = stage
  BY DEF ReleaseInterface
<1>1. /\ mRefCnt \in [Instance -> Nat] /\ alive \subseteq Instance /\ held \in [IPointer -> Nat]
      /\ stage \in {"none", "init", "innerInit", "made"}
  BY DEF IInv, TypeInv
<1>2. held[q] \in Nat /\ held[q] - 1 \in Nat BY <1>0, <1>1
<1>3. held' = [held EXCEPT ![q] = held[q] - 1] BY DEF ReleaseInterface
<1>4. /\ held' \in [IPointer -> Nat] /\ held'[q] = held[q] - 1
      /\ \A p \in IPointer \ {q} : held'[p] = held[p]
  BY <1>2, <1>3, HeldTypes
<1>5. /\ OuterBase \in IPointer /\ OuterOwn \in IPointer /\ InnerOwn \in IPointer
      /\ AloneOwn \in IPointer /\ AlonePart \in IPointer /\ InnerPart \in IPointer
  BY Pointers DEF Outside, Alone
<1>6. q \in Outside \cup Alone BY <1>0, HeldLives
<1>7. held'[InnerPart] = held[InnerPart] BY <1>4, <1>5, <1>6, Pointers
<1>8. OfConstructor' = OfConstructor /\ OfConstructor \in Nat BY <1>0 DEF OfConstructor
<1>9. CASE q \in Outside
  <2>1. ReleaseOn("outer") /\ mRefCnt["outer"] > 0 /\ "outer" \in alive
        /\ stage \notin {"init", "made"}
    BY <1>0, <1>9, Counters, HeldLives
  <2>2. /\ mRefCnt' \in [Instance -> Nat] /\ alive' \subseteq Instance
        /\ mRefCnt'["outer"] = mRefCnt["outer"] - 1 /\ mRefCnt'["alone"] = mRefCnt["alone"]
        /\ mRefCnt["outer"] > 1 => alive' = alive /\ mRefCnt'["inner"] = mRefCnt["inner"]
        /\ mRefCnt["outer"] = 1 => alive' = alive \ {"outer", "inner"} /\ mRefCnt'["inner"] = 0
    BY <2>1, OuterReleased
  <2>3. TypeInv' BY <1>0, <1>1, <1>4, <2>2 DEF TypeInv
  <2>4. mRefCnt["outer"] \in Nat BY <1>1 DEF Instance
  <2>5. mRefCnt'["inner"] = OfOuter'
    <3>1. CASE mRefCnt["outer"] > 1 BY <2>2, <3>1 DEF IInv, CountsInv, OfOuter
    <3>2. CASE mRefCnt["outer"] = 1 BY <2>2, <3>2 DEF OfOuter
    <3> QED BY <2>1, <2>4, <3>1, <3>2
  <2>6. CountsInv'
    <3>1. held'[AloneOwn] = held[AloneOwn] /\ held'[AlonePart] = held[AlonePart]
      BY <1>4, <1>5, <1>9, Pointers DEF Alone
    <3>2. /\ held[OuterBase] \in Nat /\ held[OuterOwn] \in Nat /\ held[InnerOwn] \in Nat
      BY <1>1, <1>5
    <3>3. held'[OuterBase] + held'[OuterOwn] + held'[InnerOwn]
          = held[OuterBase] + held[OuterOwn] + held[InnerOwn] - 1
      BY <1>4, <1>5, <1>9, <3>2, Pointers DEF Outside
    <3>4. mRefCnt["outer"] = held[OuterBase] + held[OuterOwn] + held[InnerOwn] + OfConstructor
      BY DEF IInv, CountsInv
    <3>5. /\ held'[OuterBase] \in Nat /\ held'[OuterOwn] \in Nat /\ held'[InnerOwn] \in Nat
      BY <1>4, <1>5
    <3>6. mRefCnt'["outer"] = held'[OuterBase] + held'[OuterOwn] + held'[InnerOwn] + OfConstructor'
      <4> DEFINE count == mRefCnt["outer"]
                 after == mRefCnt'["outer"]
                 sum == held[OuterBase] + held[OuterOwn] + held[InnerOwn]
                 rest == held'[OuterBase] + held'[OuterOwn] + held'[InnerOwn]
                 own == OfConstructor
      <4>1. after = count - 1 BY <2>2
      <4>2. rest = sum - 1 /\ count = sum + own BY <1>8, <3>2, <3>3, <3>4, <3>5
      <4>3. sum \in Nat BY <3>2
      <4>4. own \in Nat BY <1>8
      <4> HIDE DEF count, after, sum, rest, own
      <4>5. after = rest + own BY ONLY <4>1, <4>2, <4>3, <4>4
      <4> QED BY <1>8, <4>5 DEF after, rest, own
    <3> QED BY <1>7, <2>2, <2>5, <3>1, <3>6 DEF IInv, CountsInv
  <2>7. AliveInv'
    <3>1. \A o \in Instance : (o \in alive <=> mRefCnt[o] > 0) /\ mRefCnt[o] \in Nat
      BY <1>1 DEF IInv, AliveInv
    <3>2. "inner" \in alive <=> "outer" \in alive BY <2>1 DEF IInv, AliveInv
    <3>3. CASE mRefCnt["outer"] > 1
      BY <1>0, <2>1, <2>2, <2>4, <3>1, <3>2, <3>3 DEF AliveInv, Instance
    <3>4. CASE mRefCnt["outer"] = 1
      BY <1>0, <2>1, <2>2, <2>4, <3>1, <3>2, <3>4 DEF AliveInv, Instance
    <3> QED BY <2>1, <2>4, <3>3, <3>4
  <2>8. InitInv' BY <1>0, <2>1 DEF InitInv
  <2> QED BY <2>3, <2>6, <2>7, <2>8 DEF IInv
<1>10. CASE q \in Alone
  <2>1. ReleaseOn("alone") /\ mRefCnt["alone"] > 0 /\ "alone" \in alive
    BY <1>0, <1>10, Counters, HeldLives
  <2>2. /\ mRefCnt' \in [Instance -> Nat] /\ alive' \subseteq Instance
        /\ mRefCnt'["alone"] = mRefCnt["alone"] - 1
        /\ \A c \in Instance \ {"alone"} : mRefCnt'[c] = mRefCnt[c]
        /\ mRefCnt["alone"] > 1 => alive' = alive
        /\ mRefCnt["alone"] = 1 => alive' = alive \ {"alone"}
    BY <2>1, OtherReleased
  <2>3. TypeInv' BY <1>0, <1>1, <1>4, <2>2 DEF TypeInv
  <2>4. mRefCnt["alone"] \in Nat BY <1>1 DEF Instance
  <2>5. "inner" \in alive' <=> "inner" \in alive
    BY <2>1, <2>2, <2>4
  <2>6. "outer" \in alive' <=> "outer" \in alive
    BY <2>1, <2>2, <2>4
  <2>7. \A p \in Outside : held'[p] = held[p] BY <1>4, <1>10, Pointers
  <2>8. CountsInv'
    <3>1. mRefCnt'["inner"] = OfOuter' BY <2>2, <2>5 DEF IInv, CountsInv, OfOuter, Instance
    <3>2. /\ held'[OuterBase] = held[OuterBase] /\ held'[OuterOwn] = held[OuterOwn]
          /\ held'[InnerOwn] = held[InnerOwn]
      BY <2>7 DEF Outside
    <3>3. held[AloneOwn] \in Nat /\ held[AlonePart] \in Nat BY <1>1, <1>5
    <3>4. held'[AloneOwn] + held'[AlonePart] = held[AloneOwn] + held[AlonePart] - 1
      BY <1>4, <1>5, <1>10, <3>3, Pointers DEF Alone
    <3>5. mRefCnt'["alone"] = held'[AloneOwn] + held'[AlonePart]
      BY <2>2, <2>4, <3>3, <3>4 DEF IInv, CountsInv
    <3>6. mRefCnt'["outer"] = mRefCnt["outer"] BY <2>2 DEF Instance
    <3> QED BY <1>7, <1>8, <3>1, <3>2, <3>5, <3>6 DEF IInv, CountsInv
  <2>9. AliveInv'
    <3>1. \A o \in Instance : (o \in alive <=> mRefCnt[o] > 0) /\ mRefCnt[o] \in Nat
      BY <1>1 DEF IInv, AliveInv
    <3>2. "inner" \in alive <=> "outer" \in alive /\ stage # "init" BY DEF IInv, AliveInv
    <3>3. "alone" \in alive' <=> mRefCnt'["alone"] > 0 BY <2>1, <2>2, <2>4
    <3> QED BY <1>0, <2>2, <2>5, <2>6, <3>1, <3>2, <3>3 DEF AliveInv, Instance
  <2>10. InitInv' BY <1>0, <2>7 DEF IInv, InitInv
  <2> QED BY <2>3, <2>8, <2>9, <2>10 DEF IInv
<1> QED BY <1>6, <1>9, <1>10

(* The outer object is given up before a client has a pointer to it: the    *)
(* constructor's reference is the last one.                                 *)
LEMMA GivenUpKeeps ==
  ASSUME IInv, stage # "none", ReleaseOn("outer"), stage' = "none", UNCHANGED held,
         \A p \in Outside : held[p] = 0
  PROVE  IInv'
<1>1. mRefCnt["outer"] = 1
  BY DEF IInv, CountsInv, OfConstructor, Outside
<1>2. /\ mRefCnt' \in [Instance -> Nat] /\ alive' \subseteq Instance
      /\ mRefCnt'["outer"] = 0 /\ mRefCnt'["alone"] = mRefCnt["alone"]
      /\ alive' = alive \ {"outer", "inner"} /\ mRefCnt'["inner"] = 0
  BY <1>1, OuterReleased
<1>3. TypeInv' BY <1>2 DEF IInv, TypeInv
<1>4. CountsInv'
  BY <1>2 DEF IInv, CountsInv, OfConstructor, OfOuter, Outside
<1>5. AliveInv'
  <2>1. "alone" \in alive' <=> mRefCnt'["alone"] > 0 BY <1>2 DEF IInv, AliveInv, Instance
  <2> QED BY <1>2, <2>1 DEF AliveInv, Instance
<1> QED BY <1>3, <1>4, <1>5 DEF IInv, InitInv

(* Nobody holds anything of a composite whose constructor holds it alone.   *)
LEMMA NewOuterKeeps ==
  ASSUME IInv, NewOuter
  PROVE  IInv'
<1>1. /\ stage = "none" /\ "outer" \notin alive /\ alive' = alive \cup {"outer"}
      /\ mRefCnt' = [mRefCnt EXCEPT !["outer"] = @ + 1] /\ stage' = "init" /\ held' = held
  BY DEF NewOuter, Counted
<1>2. /\ mRefCnt \in [Instance -> Nat] /\ alive \subseteq Instance /\ held \in [IPointer -> Nat]
  BY DEF IInv, TypeInv
<1>3. "inner" \notin alive BY <1>1 DEF IInv, AliveInv
<1>4. /\ mRefCnt' \in [Instance -> Nat] /\ mRefCnt'["outer"] = mRefCnt["outer"] + 1
      /\ mRefCnt'["inner"] = mRefCnt["inner"] /\ mRefCnt'["alone"] = mRefCnt["alone"]
  BY <1>1, <1>2 DEF Instance
<1>5. ASSUME NEW p \in Outside PROVE held[p] = 0
  <2>1. p \in IPointer /\ held[p] \in Nat BY <1>2, Pointers
  <2> QED BY <1>1, <2>1, HeldLives
<1>6. TypeInv' BY <1>1, <1>2, <1>4 DEF TypeInv, Instance
<1>7. mRefCnt["outer"] = 0
  BY <1>1, <1>2 DEF IInv, AliveInv, Instance
<1>8. CountsInv'
  BY <1>1, <1>3, <1>4, <1>5, <1>7 DEF IInv, CountsInv, OfConstructor, OfOuter, Outside
<1>9. AliveInv'
  BY <1>1, <1>2, <1>3, <1>4, <1>7 DEF IInv, AliveInv, Instance
<1> QED BY <1>1, <1>5, <1>6, <1>8, <1>9 DEF IInv, InitInv

LEMMA NewInnerKeeps ==
  ASSUME IInv, NEW iid \in IID, NewInner(iid)
  PROVE  IInv'
<1>1. stage = "init" /\ held' = held BY DEF NewInner
<1>2. \A p \in Outside : held[p] = 0 BY <1>1 DEF IInv, InitInv
<1>3. CASE iid # "ISupports"
  BY <1>1, <1>2, <1>3, GivenUpKeeps DEF NewInner
<1>4. CASE iid = "ISupports"
  <2>1. /\ alive' = alive \cup {"inner"} /\ stage' = "innerInit"
        /\ mRefCnt' = [mRefCnt EXCEPT !["inner"] = @ + 1]
    BY <1>4 DEF NewInner, Counted
  <2>2. mRefCnt \in [Instance -> Nat] /\ alive \subseteq Instance BY DEF IInv, TypeInv
  <2>3. "inner" \notin alive /\ mRefCnt["inner"] = 0
    BY <1>1 DEF IInv, AliveInv, CountsInv, OfOuter
  <2>4. /\ mRefCnt' \in [Instance -> Nat] /\ mRefCnt'["inner"] = 1
        /\ mRefCnt'["outer"] = mRefCnt["outer"] /\ mRefCnt'["alone"] = mRefCnt["alone"]
    BY <2>1, <2>2, <2>3 DEF Instance
  <2>5. mRefCnt["outer"] = 1
    BY <1>1, <1>2 DEF IInv, CountsInv, OfConstructor, Outside
  <2>6. "outer" \in alive BY <2>5 DEF IInv, AliveInv, Instance
  <2>7. TypeInv' BY <1>1, <2>1, <2>2, <2>4 DEF IInv, TypeInv, Instance
  <2>8. CountsInv'
    BY <1>1, <2>1, <2>4 DEF IInv, CountsInv, OfConstructor, OfOuter
  <2>9. AliveInv'
    BY <2>1, <2>2, <2>4, <2>5, <2>6 DEF IInv, AliveInv, Instance
  <2> QED BY <2>1, <2>7, <2>8, <2>9 DEF IInv, InitInv
<1> QED BY <1>3, <1>4

LEMMA InnerInitKeeps ==
  ASSUME IInv, NEW ok \in BOOLEAN, InnerInit(ok)
  PROVE  IInv'
<1>1. stage = "innerInit" /\ held' = held /\ HeldOn("outer") \cup HeldOn("inner") = {}
  BY DEF InnerInit
<1>2. mRefCnt \in [Instance -> Nat] /\ alive \subseteq Instance /\ held \in [IPointer -> Nat]
  BY DEF IInv, TypeInv
<1>3. ASSUME NEW p \in Outside PROVE held[p] = 0
  <2>1. p \in IPointer /\ p.object \in {"outer", "inner"}
    BY Pointers DEF Outside, OuterBase, OuterOwn, InnerOwn
  <2>2. held[p] \in Nat /\ ~(held[p] > 0) BY <1>1, <1>2, <2>1 DEF HeldOn
  <2> QED BY <2>2
<1>4. CASE ok
  <2>1. stage' = "made" /\ mRefCnt' = mRefCnt /\ alive' = alive BY <1>4 DEF InnerInit
  <2>2. TypeInv' BY <1>1, <2>1 DEF IInv, TypeInv
  <2>3. CountsInv' BY <1>1, <2>1 DEF IInv, CountsInv, OfConstructor, OfOuter
  <2>4. AliveInv' BY <1>1, <2>1 DEF IInv, AliveInv
  <2> QED BY <1>1, <1>3, <2>1, <2>2, <2>3, <2>4 DEF IInv, InitInv
<1>5. CASE ~ok
  <2>1. stage' = "init" /\ ReleaseOn("inner") BY <1>5 DEF InnerInit
  <2>2. mRefCnt["outer"] = 1
    BY <1>1, <1>3 DEF IInv, CountsInv, OfConstructor, Outside
  <2>3. "outer" \in alive BY <2>2 DEF IInv, AliveInv, Instance
  <2>4. "inner" \in alive /\ mRefCnt["inner"] = 1
    BY <1>1, <2>3 DEF IInv, AliveInv, CountsInv, OfOuter
  <2>5. /\ mRefCnt' \in [Instance -> Nat] /\ alive' = alive \ {"inner"}
        /\ mRefCnt'["inner"] = 0
        /\ mRefCnt'["outer"] = mRefCnt["outer"] /\ mRefCnt'["alone"] = mRefCnt["alone"]
    BY <2>1, <2>4, OtherReleased DEF Instance
  <2>6. TypeInv' BY <1>1, <1>2, <2>1, <2>5 DEF TypeInv
  <2>7. CountsInv'
    BY <1>1, <2>1, <2>5 DEF IInv, CountsInv, OfConstructor, OfOuter
  <2>8. AliveInv'
    BY <2>1, <2>3, <2>5 DEF IInv, AliveInv, Instance
  <2> QED BY <1>1, <1>3, <2>1, <2>6, <2>7, <2>8 DEF IInv, InitInv
<1> QED BY <1>4, <1>5

(* The client's reference replaces the constructor's.                       *)
LEMMA OuterMadeKeeps ==
  ASSUME IInv, NEW iid \in IID, OuterMade(iid)
  PROVE  IInv'
<1> DEFINE q == OuterQueryInterface(iid)
<1>1. /\ stage = "made" /\ stage' = "none"
      /\ IF q = Null THEN ReleaseOn("outer") /\ UNCHANGED held
         ELSE held' = [held EXCEPT ![q] = @ + 1]
              /\ mRefCnt' = [Counted(mRefCnt, Counter(q)) EXCEPT !["outer"] = @ - 1]
              /\ UNCHANGED alive
  BY DEF OuterMade
<1>2. q \in Outside \cup {Null} BY Answers
<1> HIDE DEF q
<1>3. /\ mRefCnt \in [Instance -> Nat] /\ alive \subseteq Instance /\ held \in [IPointer -> Nat]
  BY DEF IInv, TypeInv
<1>4. \A p \in Outside : held[p] = 0 BY <1>1 DEF IInv, InitInv
<1>5. mRefCnt["outer"] = 1
  BY <1>1, <1>4 DEF IInv, CountsInv, OfConstructor, Outside
<1>6. CASE q = Null
  <2>1. ReleaseOn("outer") /\ UNCHANGED held BY <1>1, <1>6
  <2> QED BY <1>1, <1>4, <2>1, GivenUpKeeps
<1>7. CASE q \in Outside
  <2>1. q # Null /\ q \in IPointer BY <1>7, Pointers
  <2>2. held[q] = 0 BY <1>4, <1>7
  <2>3. held' = [held EXCEPT ![q] = 1] /\ alive' = alive BY <1>1, <1>3, <2>1, <2>2
  <2>4. /\ held' \in [IPointer -> Nat] /\ held'[q] = 1
        /\ \A p \in IPointer \ {q} : held'[p] = held[p]
    BY <2>1, <2>3, HeldTypes
  <2>5. Counter(q) = "outer" BY <1>7, Counters
  <2>6. mRefCnt' = mRefCnt
    <3>1. mRefCnt' = [[mRefCnt EXCEPT !["outer"] = @ + 1] EXCEPT !["outer"] = @ - 1]
      BY <1>1, <2>1, <2>5 DEF Counted
    <3> QED BY <1>3, <1>5, <3>1 DEF Instance
  <2>7. TypeInv' BY <1>1, <1>3, <2>3, <2>4, <2>6 DEF TypeInv
  <2>8. CountsInv'
    <3>1. /\ OuterBase \in IPointer /\ OuterOwn \in IPointer /\ InnerOwn \in IPointer
          /\ AloneOwn \in IPointer /\ AlonePart \in IPointer /\ InnerPart \in IPointer
      BY Pointers DEF Outside, Alone
    <3>2. /\ held'[AloneOwn] = held[AloneOwn] /\ held'[AlonePart] = held[AlonePart]
          /\ held'[InnerPart] = held[InnerPart]
      BY <1>7, <2>4, <3>1, Pointers DEF Alone
    <3>3. held'[OuterBase] + held'[OuterOwn] + held'[InnerOwn] = 1
      BY <1>4, <1>7, <2>4, <3>1, Pointers DEF Outside
    <3>4. OfConstructor' = 0 /\ OfOuter' = OfOuter
      BY <1>1, <2>3 DEF OfConstructor, OfOuter
    <3> QED BY <1>5, <2>6, <3>2, <3>3, <3>4 DEF IInv, CountsInv
  <2>9. AliveInv' BY <1>1, <2>3, <2>6 DEF IInv, AliveInv
  <2> QED BY <1>1, <2>7, <2>8, <2>9 DEF IInv, InitInv
<1> QED BY <1>2, <1>6, <1>7

LEMMA NewAloneKeeps ==
  ASSUME IInv, NEW iid \in IID, NewAlone(iid)
  PROVE  IInv'
<1> DEFINE q == AggregatedQueryInterface("alone", iid)
<1>1. /\ stage = "none" /\ "alone" \notin alive /\ q # Null /\ stage' = stage
      /\ alive' = alive \cup {"alone"} /\ mRefCnt' = [mRefCnt EXCEPT !["alone"] = @ + 1]
      /\ held' = [held EXCEPT ![q] = @ + 1]
  BY DEF NewAlone, Counted
<1>2. q \in Alone BY <1>1, Answers
<1> HIDE DEF q
<1>3. /\ mRefCnt \in [Instance -> Nat] /\ alive \subseteq Instance /\ held \in [IPointer -> Nat]
  BY DEF IInv, TypeInv
<1>4. mRefCnt["alone"] = 0
  BY <1>1, <1>3 DEF IInv, AliveInv, Instance
<1>5. ASSUME NEW p \in Alone PROVE held[p] = 0
  <2>1. p \in IPointer /\ held[p] \in Nat BY <1>3, Pointers
  <2> QED BY <1>1, <2>1, HeldLives
<1>6. q \in IPointer /\ held[q] = 0 BY <1>2, <1>5, Pointers
<1>7. held' = [held EXCEPT ![q] = 1] BY <1>1, <1>3, <1>6
<1>8. /\ held' \in [IPointer -> Nat] /\ held'[q] = 1
      /\ \A p \in IPointer \ {q} : held'[p] = held[p]
  BY <1>6, <1>7, HeldTypes
<1>9. /\ mRefCnt' \in [Instance -> Nat] /\ mRefCnt'["alone"] = 1
      /\ mRefCnt'["outer"] = mRefCnt["outer"] /\ mRefCnt'["inner"] = mRefCnt["inner"]
  BY <1>1, <1>3, <1>4 DEF Instance
<1>10. TypeInv' BY <1>1, <1>3, <1>8, <1>9 DEF IInv, TypeInv, Instance
<1>11. \A p \in Outside \cup {InnerPart} : held'[p] = held[p]
  BY <1>2, <1>8, Pointers
<1>12. CountsInv'
  <2>1. /\ held'[OuterBase] = held[OuterBase] /\ held'[OuterOwn] = held[OuterOwn]
        /\ held'[InnerOwn] = held[InnerOwn] /\ held'[InnerPart] = held[InnerPart]
    BY <1>11 DEF Outside
  <2>2. AloneOwn \in IPointer /\ AlonePart \in IPointer BY Pointers DEF Alone
  <2>3. held'[AloneOwn] + held'[AlonePart] = 1
    BY <1>2, <1>5, <1>8, <2>2, Pointers DEF Alone
  <2>4. OfConstructor' = OfConstructor /\ OfOuter' = OfOuter
    BY <1>1 DEF OfConstructor, OfOuter
  <2> QED BY <1>9, <2>1, <2>3, <2>4 DEF IInv, CountsInv
<1>13. AliveInv' BY <1>1, <1>9 DEF IInv, AliveInv, Instance
<1> QED BY <1>1, <1>10, <1>11, <1>12, <1>13 DEF IInv, InitInv
-----------------------------------------------------------------------------
LEMMA InitHolds == InterfacesInit => IInv
<1> SUFFICES ASSUME InterfacesInit PROVE IInv OBVIOUS
<1>1. /\ OuterBase \in IPointer /\ OuterOwn \in IPointer /\ InnerOwn \in IPointer
      /\ AloneOwn \in IPointer /\ AlonePart \in IPointer /\ InnerPart \in IPointer
  BY Pointers DEF Outside, Alone
<1>2. TypeInv BY DEF InterfacesInit, TypeInv
<1>3. CountsInv BY <1>1 DEF InterfacesInit, CountsInv, OfConstructor, OfOuter, Instance
<1>4. AliveInv /\ InitInv BY DEF InterfacesInit, AliveInv, InitInv
<1> QED BY <1>2, <1>3, <1>4 DEF IInv

(* A client that asks gives what it gets the count of a living object.      *)
LEMMA QueryInterfaceKeeps ==
  ASSUME IInv, NEW p \in IPointer, NEW iid \in IID, QueryInterface(p, iid)
  PROVE  IInv'
<1> DEFINE q == Answer(p, iid)
<1>1. /\ held[p] > 0 /\ q # Null /\ held' = [held EXCEPT ![q] = @ + 1]
      /\ mRefCnt' = Counted(mRefCnt, Counter(q)) /\ UNCHANGED <<alive, stage>>
  BY DEF QueryInterface
<1>2. /\ p \in Outside \cup Alone
      /\ p \in Outside => "outer" \in alive /\ stage \notin {"init", "made"}
      /\ p \in Alone => "alone" \in alive
  BY <1>1, HeldLives
<1>3. (p \in Outside => q \in Outside) /\ (p \in Alone => q \in Alone)
  BY <1>1, Answers
<1> HIDE DEF q
<1>4. held[q] \in Nat /\ held[q] + 1 \in Nat
  BY <1>2, <1>3, Pointers DEF IInv, TypeInv
<1>5. Counter(q) \in alive BY <1>2, <1>3, Counters
<1>6. q \in Outside => stage \notin {"init", "made"} BY <1>2, <1>3, Pointers
<1>7. held' = [held EXCEPT ![q] = held[q] + 1] BY <1>1
<1> QED BY <1>1, <1>2, <1>3, <1>4, <1>5, <1>6, <1>7, GainKeeps

(* While the inner object is in its Init, the outer one answers for it.     *)
LEMMA InnerInitAsksKeeps ==
  ASSUME IInv, NEW iid \in IID, InnerInitAsks(iid)
  PROVE  IInv'
<1> DEFINE q == Answer(InnerOwn, iid)
<1>1. /\ stage = "innerInit" /\ q # Null /\ held' = [held EXCEPT ![q] = @ + 1]
      /\ mRefCnt' = Counted(mRefCnt, Counter(q)) /\ UNCHANGED <<alive, stage>>
  BY DEF InnerInitAsks, InnerOwn
<1>2. q \in Outside
  <2>1. InnerOwn \in Outside BY DEF Outside
  <2> QED BY <1>1, <2>1, Answers
<1> HIDE DEF q
<1>3. held[q] \in Nat /\ held[q] + 1 \in Nat
  BY <1>2, Pointers DEF IInv, TypeInv
<1>4. mRefCnt["outer"] > 0
  <2>1. /\ held[OuterBase] \in Nat /\ held[OuterOwn] \in Nat /\ held[InnerOwn] \in Nat
    BY Pointers DEF IInv, TypeInv, Outside
  <2> QED BY <1>1, <2>1 DEF IInv, CountsInv, OfConstructor
<1>5. "outer" \in alive BY <1>4 DEF IInv, AliveInv, Instance
<1>6. Counter(q) \in alive BY <1>2, <1>5, Counters
<1>7. held' = [held EXCEPT ![q] = held[q] + 1] BY <1>1
<1> QED BY <1>1, <1>2, <1>3, <1>6, <1>7, GainKeeps

LEMMA OuterInitFailsKeeps ==
  ASSUME IInv, OuterInitFails
  PROVE  IInv'
<1>1. stage = "init" /\ stage' = "none" /\ ReleaseOn("outer") /\ UNCHANGED held
  BY DEF OuterInitFails
<1>2. \A p \in Outside : held[p] = 0 BY <1>1 DEF IInv, InitInv
<1> QED BY <1>1, <1>2, GivenUpKeeps
-----------------------------------------------------------------------------
(* The invariant is inductive.                                              *)
THEOREM InterfacesInvariance == InterfacesSpec => []IInv
<1>1. IInv /\ [InterfacesNext]_interfaces => IInv'
  <2> SUFFICES ASSUME IInv, [InterfacesNext]_interfaces PROVE IInv' OBVIOUS
  <2>1. ASSUME NEW p \in IPointer, ReleaseInterface(p) PROVE IInv' BY <2>1, InterfaceReleaseKeeps
  <2>2. ASSUME NEW p \in IPointer, NEW iid \in IID, QueryInterface(p, iid) PROVE IInv'
    BY <2>2, QueryInterfaceKeeps
  <2>3. ASSUME NEW iid \in IID, NewInner(iid) PROVE IInv' BY <2>3, NewInnerKeeps
  <2>4. ASSUME NEW iid \in IID, InnerInitAsks(iid) PROVE IInv' BY <2>4, InnerInitAsksKeeps
  <2>5. ASSUME NEW iid \in IID, OuterMade(iid) PROVE IInv' BY <2>5, OuterMadeKeeps
  <2>6. ASSUME NEW iid \in IID, NewAlone(iid) PROVE IInv' BY <2>6, NewAloneKeeps
  <2>7. ASSUME NEW ok \in BOOLEAN, InnerInit(ok) PROVE IInv' BY <2>7, InnerInitKeeps
  <2>8. CASE NewOuter BY <2>8, NewOuterKeeps
  <2>9. CASE OuterInitFails BY <2>9, OuterInitFailsKeeps
  <2>10. CASE UNCHANGED interfaces
    BY <2>10 DEF interfaces, IInv, TypeInv, CountsInv, AliveInv, InitInv, OfConstructor, OfOuter
  <2> QED BY <2>1, <2>2, <2>3, <2>4, <2>5, <2>6, <2>7, <2>8, <2>9, <2>10 DEF InterfacesNext
<1> QED BY InitHolds, <1>1, PTL DEF InterfacesSpec

(* A composite object lives exactly as long as its constructor works or a   *)
(* client has a pointer to it, whichever part that points to, and the inner *)
(* object as long as it has been made: no QueryInterface, Release or failed *)
(* construction counts on the wrong object (cciAggregated.h), for any       *)
(* number of references.                                                    *)
THEOREM LivesAsLongAsHeld == InterfacesSpec => []LivesWhileHeld
<1>1. IInv => LivesWhileHeld
  <2> SUFFICES ASSUME IInv PROVE LivesWhileHeld OBVIOUS
  <2>0. /\ \A p \in IPointer : held[p] \in Nat
        /\ \A o \in Instance : (o \in alive <=> mRefCnt[o] > 0)
    BY DEF IInv, TypeInv, AliveInv
  <2>1. \A p \in IPointer : held[p] > 0 => p # InnerPart BY HeldLives, Pointers
  <2>2. "outer" \in alive => HeldOn("outer") \cup HeldOn("inner") # {} \/ stage # "none"
    <3> SUFFICES ASSUME "outer" \in alive, stage = "none"
                 PROVE  \E p \in Outside : held[p] > 0
      BY Pointers DEF HeldOn, Outside, OuterBase, OuterOwn, InnerOwn
    <3>1. /\ held[OuterBase] \in Nat /\ held[OuterOwn] \in Nat /\ held[InnerOwn] \in Nat
      BY <2>0, Pointers DEF Outside
    <3>2. held[OuterBase] + held[OuterOwn] + held[InnerOwn] > 0
      BY <2>0, <3>1 DEF IInv, CountsInv, OfConstructor, Instance
    <3>3. held[OuterBase] > 0 \/ held[OuterOwn] > 0 \/ held[InnerOwn] > 0
      BY <3>1, <3>2
    <3> QED BY <3>3 DEF Outside
  <2>3. stage # "none" => "outer" \in alive
    <3>1. /\ held[OuterBase] \in Nat /\ held[OuterOwn] \in Nat /\ held[InnerOwn] \in Nat
      BY <2>0, Pointers DEF Outside
    <3> QED BY <2>0, <3>1 DEF IInv, CountsInv, OfConstructor, Instance
  <2>4. ASSUME NEW p \in IPointer, held[p] > 0
        PROVE  /\ p.object \in {"outer", "inner"} => "outer" \in alive
               /\ p.object = "alone" => "alone" \in alive
    <3>1. p \in Outside => p.object \in {"outer", "inner"}
      BY DEF Outside, OuterBase, OuterOwn, InnerOwn
    <3>2. p \in Alone => p.object = "alone" BY DEF Alone, AloneOwn, AlonePart
    <3> QED BY <2>4, <3>1, <3>2, HeldLives
  <2>5. "alone" \in alive => HeldOn("alone") # {}
    <3> SUFFICES ASSUME "alone" \in alive PROVE \E p \in Alone : held[p] > 0
      BY Pointers DEF HeldOn, Alone, AloneOwn, AlonePart
    <3>1. held[AloneOwn] + held[AlonePart] > 0 BY <2>0 DEF IInv, CountsInv, Instance
    <3>2. held[AloneOwn] \in Nat /\ held[AlonePart] \in Nat BY <2>0, Pointers DEF Alone
    <3>3. held[AloneOwn] > 0 \/ held[AlonePart] > 0 BY <3>1, <3>2
    <3> QED BY <3>3 DEF Alone
  <2>6. HeldOn("outer") \cup HeldOn("inner") # {} => "outer" \in alive
    BY <2>4 DEF HeldOn
  <2>7. HeldOn("alone") # {} => "alone" \in alive
    BY <2>4 DEF HeldOn
  <2>8. "inner" \in alive <=> "outer" \in alive /\ stage # "init"
    BY DEF IInv, AliveInv
  <2> QED BY <2>2, <2>3, <2>5, <2>6, <2>7, <2>8 DEF LivesWhileHeld
<1> QED BY <1>1, InterfacesInvariance, PTL

(* Whatever pointer a client has got, it answers for the whole composite:   *)
(* the inner object's own cciISupports is never given away                  *)
(* (CCI_IMPL_AGGREGATED QueryInterface).                                    *)
THEOREM IdentityIsOne == InterfacesSpec => []OneIdentity
<1>1. IInv => OneIdentity
  <2> SUFFICES ASSUME IInv PROVE OneIdentity OBVIOUS
  <2>1. \A p \in IPointer : held[p] > 0 => p \in Outside \cup Alone BY HeldLives
  <2>2. /\ \A p \in Outside : p.object # "alone"
        /\ \A p \in Alone : p.object = "alone"
    BY DEF Outside, OuterBase, OuterOwn, InnerOwn, Alone, AloneOwn, AlonePart
  <2>3. ASSUME NEW p \in IPointer, NEW q \in IPointer, held[p] > 0, held[q] > 0,
               p.object = "alone" <=> q.object = "alone", NEW iid \in IID
        PROVE  Answer(p, iid) = Answer(q, iid)
    <3>1. p \in Outside \cup Alone /\ q \in Outside \cup Alone BY <2>1, <2>3
    <3>2. p \in Outside <=> q \in Outside BY <2>2, <2>3, <3>1
    <3> QED BY <3>1, <3>2, Answers
  <2>4. "ISupports" \in IID BY DEF IID
  <2> QED BY <2>3, <2>4 DEF OneIdentity
<1> QED BY <1>1, InterfacesInvariance, PTL

-----------------------------------------------------------------------------
(* The enumerators. A union stands at its second part when the first has    *)
(* nothing left, and is consumed when neither has; a part is not consumed   *)
(* before those in front of it, unless there was nothing in it.             *)
PartsInv ==
  /\ mValue \in [Part -> Value \cup {NoValue}] /\ mConsumed \in [Part -> BOOLEAN]
  /\ \A p \in Part : mValue[p] = NoValue => mConsumed[p]
  /\ mConsumed[2] /\ mValue[2] # NoValue => mConsumed[1]
  /\ mConsumed[3] /\ mValue[3] # NoValue => mConsumed[1] /\ mConsumed[2]

UnionState == [mConsumed : BOOLEAN, mAtSecond : BOOLEAN]
UnionsInv ==
  /\ unions \in [inner : UnionState, outer : UnionState]
  /\ unions.inner.mAtSecond \/ unions.inner.mConsumed => mConsumed[1]
  /\ unions.inner.mConsumed => mConsumed[2]
  /\ unions.outer.mAtSecond \/ unions.outer.mConsumed => mConsumed[1] /\ mConsumed[2]
  /\ unions.outer.mConsumed => mConsumed[3]

(* The client has what the parts up to the first one with something left    *)
(* had in them.                                                             *)
Delivered ==
  IF ~mConsumed[1] THEN <<>>
  ELSE IF ~mConsumed[2] THEN OfPart(1)
  ELSE IF ~mConsumed[3] THEN OfPart(1) \o OfPart(2) ELSE Everything
AnswersInv ==
  /\ answered \in {"nothing", "more", "done"}
  /\ answered = "more" => Ready # {}
  /\ answered = "done" => mConsumed[1] /\ mConsumed[2] /\ mConsumed[3]

EnumeratorsInv == PartsInv /\ UnionsInv /\ delivered = Delivered /\ AnswersInv
-----------------------------------------------------------------------------
LEMMA EnumeratorsInvHoldsAtFirst == EnumeratorsInit => EnumeratorsInv
<1> SUFFICES ASSUME EnumeratorsInit PROVE EnumeratorsInv OBVIOUS
<1>1. /\ mValue \in [Part -> Value \cup {NoValue}] /\ mConsumed \in [Part -> BOOLEAN]
      /\ \A p \in Part : mConsumed[p] <=> mValue[p] = NoValue
  BY DEF EnumeratorsInit
<1>5. PartsInv BY <1>1 DEF PartsInv, Part
<1>2. UnionsInv BY DEF EnumeratorsInit, UnionsInv, UnionState, Fresh
<1>3. delivered = Delivered
  BY <1>1 DEF EnumeratorsInit, Delivered, Everything, OfPart, Part
<1>4. AnswersInv BY DEF EnumeratorsInit, AnswersInv
<1> QED BY <1>5, <1>2, <1>3, <1>4 DEF EnumeratorsInv

(* A question moves the unions on, past parts that have nothing left.       *)
LEMMA HasMoreElementsKeeps ==
  ASSUME EnumeratorsInv, HasMoreElements
  PROVE  EnumeratorsInv'
<1>1. UNCHANGED <<mValue, mConsumed, delivered>> BY DEF HasMoreElements
<1>2. PartsInv' BY <1>1 DEF EnumeratorsInv, PartsInv
<1>3. UnionsInv'
  BY <1>1 DEF EnumeratorsInv, PartsInv, Part, UnionsInv, UnionState, HasMoreElements, UnionAfter,
              UnionHasMore, PartHasMore
<1>4. delivered' = Delivered' BY <1>1 DEF EnumeratorsInv, Delivered, Everything, OfPart
<1>5. AnswersInv'
  <2>1. /\ unions.outer \in UnionState /\ unions.inner \in UnionState
        /\ unions' \in [inner : UnionState, outer : UnionState]
    BY <1>3 DEF EnumeratorsInv, UnionsInv
  <2>2. CASE UnionHasMore(unions.outer, UnionHasMore(unions.inner, PartHasMore(1), PartHasMore(2)), PartHasMore(3))
    <3>1. answered' = "more" BY <2>2 DEF HasMoreElements
    <3>2. Ready' # {}
      BY <1>1, <2>1, <2>2 DEF HasMoreElements, UnionHasMore, UnionAfter, PartHasMore, Ready, Target,
        UnionAt, UnionState, EnumeratorsInv, UnionsInv, PartsInv, Part
    <3> QED BY <3>1, <3>2 DEF AnswersInv
  <2>3. CASE ~UnionHasMore(unions.outer, UnionHasMore(unions.inner, PartHasMore(1), PartHasMore(2)), PartHasMore(3))
    <3>1. answered' = "done" BY <2>3 DEF HasMoreElements
    <3>2. mConsumed[1] /\ mConsumed[2] /\ mConsumed[3]
      BY <2>1, <2>3 DEF UnionHasMore, PartHasMore, UnionState, EnumeratorsInv, UnionsInv, PartsInv, Part
    <3> QED BY <1>1, <3>1, <3>2 DEF AnswersInv
  <2> QED BY <2>2, <2>3
<1> QED BY <1>2, <1>3, <1>4, <1>5 DEF EnumeratorsInv

(* The part the unions stand at is the first that is not consumed.          *)
LEMMA GetNextTakesTheFirst ==
  ASSUME EnumeratorsInv, NEW p \in Ready
  PROVE  /\ p \in 1..3 /\ ~mConsumed[p] /\ mValue[p] # NoValue
         /\ p > 1 => mConsumed[1]
         /\ p > 2 => mConsumed[2]
  BY DEF EnumeratorsInv, PartsInv, UnionsInv, Part, Ready, Target, UnionAt

LEMMA OfPartIsShort ==
  ASSUME EnumeratorsInv
  PROVE  /\ OfPart(1) \in Seq(Value \cup {NoValue}) /\ OfPart(2) \in Seq(Value \cup {NoValue})
         /\ OfPart(3) \in Seq(Value \cup {NoValue})
<1>1. mValue[1] \in Value \cup {NoValue} /\ mValue[2] \in Value \cup {NoValue}
      /\ mValue[3] \in Value \cup {NoValue}
  BY DEF EnumeratorsInv, PartsInv, Part
<1>2. \A p \in 1..3 : OfPart(p) \in Seq(Value \cup {NoValue})
  <2> SUFFICES ASSUME NEW p \in 1..3 PROVE OfPart(p) \in Seq(Value \cup {NoValue}) OBVIOUS
  <2> DEFINE v == mValue[p]
             V == Value \cup {NoValue}
  <2>1. v \in V BY <1>1
  <2>2. OfPart(p) = <<>> \/ OfPart(p) = <<v>> BY DEF OfPart
  <2> HIDE DEF v, V
  <2>3. <<>> \in Seq(V) /\ <<v>> \in Seq(V) BY <2>1
  <2>4. OfPart(p) \in Seq(V) BY <2>2, <2>3
  <2> QED BY <2>4 DEF V
<1> QED BY <1>2

LEMMA GetNextKeeps ==
  ASSUME EnumeratorsInv, GetNext
  PROVE  EnumeratorsInv'
<1> PICK p \in Ready : mConsumed' = Consumed(p) /\ delivered' = Append(delivered, mValue[p])
  BY DEF GetNext
<1>1. UNCHANGED <<mValue, unions>> /\ answered' = "nothing" BY DEF GetNext
<1>2. /\ p \in 1..3 /\ ~mConsumed[p] /\ mValue[p] # NoValue
      /\ p > 1 => mConsumed[1]
      /\ p > 2 => mConsumed[2]
  BY GetNextTakesTheFirst
<1>3. /\ mConsumed' = [mConsumed EXCEPT ![p] = TRUE] /\ mConsumed \in [Part -> BOOLEAN]
      /\ mConsumed' \in [Part -> BOOLEAN]
  BY DEF Consumed, EnumeratorsInv, PartsInv
<1>4. /\ mConsumed'[1] <=> mConsumed[1] \/ p = 1
      /\ mConsumed'[2] <=> mConsumed[2] \/ p = 2
      /\ mConsumed'[3] <=> mConsumed[3] \/ p = 3
  BY <1>3 DEF Part
<1>5. PartsInv' BY <1>1, <1>2, <1>3, <1>4 DEF EnumeratorsInv, PartsInv, Part
<1>6. UnionsInv' BY <1>1, <1>4 DEF EnumeratorsInv, UnionsInv, Part
<1>7. AnswersInv' BY <1>1 DEF AnswersInv
<1>8. delivered' = Delivered'
  <2>1. /\ delivered = Delivered
        /\ p < 2 /\ mConsumed[2] => mValue[2] = NoValue
        /\ p < 3 /\ mConsumed[3] => mValue[3] = NoValue
    BY <1>2 DEF EnumeratorsInv, PartsInv, Part
  <2>2. OfPart(p) = <<mValue[p]>> BY <1>2 DEF OfPart
  <2>3. /\ OfPart(1)' = OfPart(1) /\ OfPart(2)' = OfPart(2) /\ OfPart(3)' = OfPart(3)
        /\ OfPart(1) \in Seq(Value \cup {NoValue}) /\ OfPart(2) \in Seq(Value \cup {NoValue})
        /\ OfPart(3) \in Seq(Value \cup {NoValue})
    BY <1>1, OfPartIsShort DEF OfPart
  <2>4. /\ p < 2 /\ mConsumed[2] => OfPart(2) = <<>>
        /\ p < 3 /\ mConsumed[3] => OfPart(3) = <<>>
    BY <2>1 DEF OfPart
  <2>5. CASE p = 1
    <3>1. delivered' = OfPart(1) BY <1>2, <2>1, <2>2, <2>5 DEF Delivered
    <3>2. mConsumed'[1] BY <1>4, <2>5
    <3>3. CASE ~mConsumed[2]
      <4>1. ~mConsumed'[2] BY <1>4, <2>5, <3>3
      <4> QED BY <2>3, <3>1, <3>2, <4>1 DEF Delivered
    <3>4. CASE mConsumed[2]
      <4>1. OfPart(2) = <<>> BY <2>4, <2>5, <3>4
      <4>2. OfPart(1) \o OfPart(2) = OfPart(1) BY <2>3, <4>1
      <4>3. mConsumed'[2] BY <1>4, <3>4
      <4>4. CASE ~mConsumed[3]
        BY <1>4, <2>3, <2>5, <3>1, <3>2, <4>2, <4>3, <4>4 DEF Delivered
      <4>5. CASE mConsumed[3]
        <5>1. OfPart(3) = <<>> BY <2>4, <2>5, <4>5
        <5>2. Everything = OfPart(1) BY <2>3, <4>2, <5>1 DEF Everything
        <5>3. Everything' = Everything BY <2>3 DEF Everything
        <5> QED BY <1>4, <3>1, <3>2, <4>3, <4>5, <5>2, <5>3 DEF Delivered
      <4> QED BY <4>4, <4>5
    <3> QED BY <3>3, <3>4
  <2>6. CASE p = 2
    <3>1. mConsumed[1] /\ mConsumed'[1] /\ mConsumed'[2] BY <1>2, <1>4, <2>6 DEF Part
    <3>2. delivered' = OfPart(1) \o OfPart(2)
      <4>1. ~mConsumed[2] BY <1>2, <2>6
      <4>4. delivered = OfPart(1) BY <2>1, <3>1, <4>1 DEF Delivered
      <4>2. delivered' = Append(delivered, mValue[2]) BY <2>6
      <4>3. delivered' = delivered \o <<mValue[2]>> BY <2>3, <4>2, <4>4
      <4> QED BY <2>2, <2>6, <4>3, <4>4
    <3>3. CASE ~mConsumed[3]
      <4>1. ~mConsumed'[3] BY <1>4, <2>6, <3>3
      <4> QED BY <2>3, <3>1, <3>2, <4>1 DEF Delivered
    <3>4. CASE mConsumed[3]
      <4>1. OfPart(3) = <<>> BY <2>4, <2>6, <3>4
      <4>2. Everything = OfPart(1) \o OfPart(2) BY <2>3, <4>1 DEF Everything
      <4>3. Everything' = Everything BY <2>3 DEF Everything
      <4> QED BY <1>4, <3>1, <3>2, <3>4, <4>2, <4>3 DEF Delivered
    <3> QED BY <3>3, <3>4
  <2>7. CASE p = 3
    <3>1. /\ mConsumed[1] /\ mConsumed[2] /\ ~mConsumed[3]
          /\ mConsumed'[1] /\ mConsumed'[2] /\ mConsumed'[3]
      BY <1>2, <1>4, <2>7 DEF Part
    <3>2. delivered = OfPart(1) \o OfPart(2) BY <2>1, <3>1 DEF Delivered
    <3>3. delivered' = Everything
      <4>1. delivered \in Seq(Value \cup {NoValue}) BY <2>3, <3>2
      <4>2. delivered' = Append(delivered, mValue[3]) BY <2>7
      <4>3. delivered' = delivered \o <<mValue[3]>> BY <4>1, <4>2
      <4>4. delivered' = delivered \o OfPart(3) BY <2>2, <2>7, <4>3
      <4> QED BY <3>2, <4>4 DEF Everything
    <3>4. Everything' = Everything BY <2>3 DEF Everything
    <3> QED BY <3>1, <3>3, <3>4 DEF Delivered
  <2> QED BY <1>2, <2>5, <2>6, <2>7 DEF Part
<1> QED BY <1>5, <1>6, <1>7, <1>8 DEF EnumeratorsInv

LEMMA EnumeratorsInvIsKept ==
  EnumeratorsInv /\ [EnumeratorsNext]_enumerators => EnumeratorsInv'
<1> SUFFICES ASSUME EnumeratorsInv, [EnumeratorsNext]_enumerators PROVE EnumeratorsInv' OBVIOUS
<1>1. CASE HasMoreElements BY <1>1, HasMoreElementsKeeps
<1>2. CASE GetNext BY <1>2, GetNextKeeps
<1>3. CASE UNCHANGED <<mValue, mConsumed, unions, delivered>> /\ answered' \in {answered, "nothing"}
  BY <1>3 DEF EnumeratorsInv, PartsInv, UnionsInv, Delivered, Everything, OfPart, AnswersInv, Ready, Target
<1> QED BY <1>1, <1>2, <1>3 DEF EnumeratorsNext, GetNextFails, enumerators

(* In whatever order the client asks and takes, it is given the elements of *)
(* the first enumerator and then of the second, each once                   *)
(* (cciUnionEnumerator), whatever the elements are.                         *)
THEOREM UnionDeliversInOrder == EnumeratorsSpec => []InOrder
<1>1. EnumeratorsInv => InOrder
  <2> SUFFICES ASSUME EnumeratorsInv PROVE InOrder OBVIOUS
  <2>1. /\ OfPart(1) \in Seq(Value \cup {NoValue}) /\ OfPart(2) \in Seq(Value \cup {NoValue})
        /\ OfPart(3) \in Seq(Value \cup {NoValue})
    BY OfPartIsShort
  <2> DEFINE rest == IF ~mConsumed[1] THEN Everything
                     ELSE IF ~mConsumed[2] THEN OfPart(2) \o OfPart(3)
                     ELSE IF ~mConsumed[3] THEN OfPart(3) ELSE <<>>
  <2>2. /\ Everything = delivered \o rest
        /\ delivered \in Seq(Value \cup {NoValue}) /\ rest \in Seq(Value \cup {NoValue})
    <3>1. delivered = Delivered BY DEF EnumeratorsInv
    <3>2. CASE ~mConsumed[1] BY <2>1, <3>1, <3>2 DEF Delivered, Everything
    <3>3. CASE mConsumed[1] /\ ~mConsumed[2] BY <2>1, <3>1, <3>3 DEF Delivered, Everything
    <3>4. CASE mConsumed[1] /\ mConsumed[2] /\ ~mConsumed[3]
      BY <2>1, <3>1, <3>4 DEF Delivered, Everything
    <3>5. CASE mConsumed[1] /\ mConsumed[2] /\ mConsumed[3]
      BY <2>1, <3>1, <3>5 DEF Delivered, Everything
    <3> QED BY <3>2, <3>3, <3>4, <3>5
  <2> QED BY <2>2 DEF InOrder, IsPrefix
<1> QED BY <1>1, EnumeratorsInvHoldsAtFirst, EnumeratorsInvIsKept, PTL DEF EnumeratorsSpec

(* After "more" the next GetNext succeeds, and after "done" nothing has     *)
(* been left out (cciUnionEnumerator::HasMoreElements).                     *)
THEOREM UnionKeepsItsAnswers == EnumeratorsSpec => []AnswersAreKept
<1>1. EnumeratorsInv => AnswersAreKept
  <2> SUFFICES ASSUME EnumeratorsInv PROVE AnswersAreKept OBVIOUS
  <2>1. ASSUME answered = "done" PROVE Ready = {} /\ delivered = Everything
    BY <2>1 DEF EnumeratorsInv, AnswersInv, Delivered, Ready, Target, UnionAt
  <2> QED BY <2>1 DEF EnumeratorsInv, AnswersInv, AnswersAreKept
<1> QED BY <1>1, EnumeratorsInvHoldsAtFirst, EnumeratorsInvIsKept, PTL DEF EnumeratorsSpec
=============================================================================
