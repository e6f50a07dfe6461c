------------------------------- MODULE Interfaces -------------------------------
(***************************************************************************)
(* QueryInterface and who counts: interface tables and maps, inherited     *)
(* implementations (cciSupportsImpl.h), and aggregation, where an inner    *)
(* object is a part of its outer object and lets it count and answer       *)
(* (cciAggregated.h).                                                      *)
(*                                                                         *)
(* The classes are ones the macros can make: "outer" implements IOuter,    *)
(* inherits IBase, and sends what it does not know to the "inner" it owns. *)
(* "alone" is an instance of the inner's class that nobody aggregates.     *)
(***************************************************************************)
EXTENDS Naturals, Functions

CONSTANT MaxHeld   \* bound on the references the client holds

Instance == {"outer", "inner", "alone"}
IID == {"ISupports", "IBase", "IOuter", "IInner", "IOther"}

(* An interface pointer: an object, and which of its bases is pointed to.   *)
(* "Internal" is fAggregated, the cciISupports that does not forward.       *)
IPointer == {[object |-> "outer", base |-> b] : b \in {"IBase", "IOuter"}}
            \cup {[object |-> o, base |-> b] : o \in {"inner", "alone"}, b \in {"IInner", "Internal"}}
Null == [object |-> "none", base |-> "none"]

VARIABLES
  mRefCnt,   \* of each object
  alive,
  held,      \* how many references the client holds, by pointer
  stage      \* of the construction of the outer object

interfaces == <<mRefCnt, alive, held, stage>>

InterfacesInit ==
  /\ mRefCnt = [o \in Instance |-> 0] /\ alive = {}
  /\ held = [p \in IPointer |-> 0] /\ stage = "none"

-----------------------------------------------------------------------------
InnerObject(o) == [object |-> o, base |-> "Internal"]

(* The object whose count an interface pointer changes: the public bases of *)
(* an aggregated object forward to fOuter.                                  *)
Counter_OwnCount(p) == p.object
Counter(p) == IF p.object = "inner" /\ p.base # "Internal" THEN "outer" ELSE p.object

(* A table of interfaces, then where the search goes on when it fails.      *)
Table(entries, iid, otherwise) == IF iid \in DOMAIN entries THEN entries[iid] ELSE otherwise

AggregatedQueryInterface(o, iid) ==
  CASE iid = "ISupports" -> InnerObject(o)
    [] iid = "IInner" -> [object |-> o, base |-> "IInner"]
    [] OTHER -> Null

OuterTable == [i \in {"IOuter"} |-> [object |-> "outer", base |-> "IOuter"]]
BaseTable == [i \in {"IBase", "ISupports"} |-> [object |-> "outer", base |-> "IBase"]]
BaseQueryInterface(iid, otherwise) == Table(BaseTable, iid, otherwise)
OuterQueryInterface(iid) ==
  Table(OuterTable, iid, BaseQueryInterface(iid, AggregatedQueryInterface("inner", iid)))

Answer_NotForwarded(p, iid) ==
  IF p.object = "outer" THEN OuterQueryInterface(iid) ELSE AggregatedQueryInterface(p.object, iid)
Answer(p, iid) ==
  IF Counter(p) = "outer" THEN OuterQueryInterface(iid)
  ELSE AggregatedQueryInterface(p.object, iid)

-----------------------------------------------------------------------------
Held == FoldFunction(LAMBDA a, b : a + b, 0, held)
HeldOn(o) == {p \in IPointer : p.object = o /\ held[p] > 0}
Counted(c, o) == [c EXCEPT ![o] = @ + 1]

QueryInterface(p, iid) ==
  /\ held[p] > 0 /\ Held < MaxHeld
  /\ LET q == Answer(p, iid)
     IN /\ q # Null
        /\ held' = [held EXCEPT ![q] = @ + 1]
        /\ mRefCnt' = Counted(mRefCnt, Counter(q))
  /\ UNCHANGED <<alive, stage>>

(* The last release of the outer object destroys it, and with it goes the   *)
(* reference it owns, on InnerObject().                                     *)
Dead(o) == IF o = "outer" /\ mRefCnt["inner"] = 1 THEN {"outer", "inner"} ELSE {o}
After(o) ==
  [c \in Instance |-> IF c = o THEN mRefCnt[c] - 1
                    ELSE IF c = "inner" /\ o = "outer" /\ mRefCnt[o] = 1 /\ c \in alive
                    THEN mRefCnt[c] - 1 ELSE mRefCnt[c]]
ReleaseOn(o) ==
  /\ mRefCnt' = After(o)
  /\ alive' = IF mRefCnt[o] > 1 THEN alive ELSE alive \ Dead(o)

ReleaseInterface(p) ==
  /\ held[p] > 0 /\ held' = [held EXCEPT ![p] = @ - 1]
  /\ ReleaseOn(Counter(p)) /\ UNCHANGED stage

-----------------------------------------------------------------------------
(* Constructors. The outer object is held by its constructor (stage) while  *)
(* its Init creates the inner one and the Init of that asks it for          *)
(* interfaces.                                                              *)
NewOuter ==
  /\ stage = "none" /\ "outer" \notin alive
  /\ alive' = alive \cup {"outer"} /\ mRefCnt' = Counted(mRefCnt, "outer")
  /\ stage' = "init" /\ UNCHANGED held

(* CCI_GENERIC_AGGREGATED_CONSTRUCTOR_INIT: the constructor holds the inner *)
(* object through InnerObject(). Only its cciISupports may be asked for.    *)
NewInner(iid) ==
  /\ stage = "init"
  /\ IF iid # "ISupports"
     THEN ReleaseOn("outer") /\ stage' = "none"
     ELSE /\ alive' = alive \cup {"inner"} /\ mRefCnt' = Counted(mRefCnt, "inner")
          /\ stage' = "innerInit"
  /\ UNCHANGED held

(* The inner's Init keeps an interface of the outer for the time of a call. *)
InnerInitAsks(iid) ==
  /\ stage = "innerInit" /\ Held < MaxHeld
  /\ LET q == Answer([object |-> "inner", base |-> "IInner"], iid)
     IN /\ q # Null
        /\ held' = [held EXCEPT ![q] = @ + 1] /\ mRefCnt' = Counted(mRefCnt, Counter(q))
  /\ UNCHANGED <<alive, stage>>

(* It succeeds: QueryInterface for the outer, then the constructor's own    *)
(* reference goes. Or it fails, the inner goes with it, then the outer.     *)
InnerInit(ok) ==
  /\ stage = "innerInit" /\ HeldOn("outer") \cup HeldOn("inner") = {} /\ UNCHANGED held
  /\ IF ok THEN stage' = "made" /\ UNCHANGED <<mRefCnt, alive>>
     ELSE /\ stage' = "init" /\ ReleaseOn("inner")
OuterInitFails ==
  /\ stage = "init" /\ stage' = "none" /\ ReleaseOn("outer") /\ UNCHANGED held

(* QueryInterface on the outer for the client, then the constructor's own   *)
(* reference goes.                                                          *)
OuterMade(iid) ==
  /\ stage = "made" /\ stage' = "none"
  /\ LET q == OuterQueryInterface(iid)
     IN IF q = Null THEN ReleaseOn("outer") /\ UNCHANGED held
        ELSE held' = [held EXCEPT ![q] = @ + 1]
             /\ mRefCnt' = [Counted(mRefCnt, Counter(q)) EXCEPT !["outer"] = @ - 1]
             /\ UNCHANGED alive

(* CCI_GENERIC_AGGREGATED_CONSTRUCTOR without an outer: the object is       *)
(* deleted when it does not have the interface.                             *)
NewAlone(iid) ==
  /\ stage = "none" /\ "alone" \notin alive /\ Held < MaxHeld
  /\ LET q == AggregatedQueryInterface("alone", iid)
     IN /\ q # Null
        /\ alive' = alive \cup {"alone"} /\ mRefCnt' = Counted(mRefCnt, "alone")
        /\ held' = [held EXCEPT ![q] = @ + 1]
  /\ UNCHANGED stage

InterfacesNext ==
  \/ \E p \in IPointer : ReleaseInterface(p) \/ \E iid \in IID : QueryInterface(p, iid)
  \/ \E iid \in IID : NewInner(iid) \/ InnerInitAsks(iid) \/ OuterMade(iid) \/ NewAlone(iid)
  \/ \E ok \in BOOLEAN : InnerInit(ok)
  \/ NewOuter \/ OuterInitFails

InterfacesSpec == InterfacesInit /\ [][InterfacesNext]_interfaces
-----------------------------------------------------------------------------
InterfacesTypeOK ==
  /\ mRefCnt \in [Instance -> 0..MaxHeld + 1] /\ alive \subseteq Instance
  /\ held \in [IPointer -> 0..MaxHeld] /\ stage \in {"none", "init", "innerInit", "made"}

(* The composite lives exactly as long as one of its pointers, whichever    *)
(* part it points to: every reference is counted where its release will     *)
(* look for it, also while the constructors are at work.                    *)
LivesWhileHeld ==
  /\ "outer" \in alive <=> HeldOn("outer") \cup HeldOn("inner") # {} \/ stage # "none"
  /\ "alone" \in alive <=> HeldOn("alone") # {}
  /\ "inner" \in alive <=> "outer" \in alive /\ stage # "init"

(* The identity of an object: all its pointers give one cciISupports, and   *)
(* from each of them the same interfaces can be reached.                    *)
OneIdentity ==
  \A p, q \in IPointer :
    /\ held[p] > 0 /\ held[q] > 0 /\ (p.object = "alone" <=> q.object = "alone")
    => /\ Answer(p, "ISupports") = Answer(q, "ISupports")
       /\ \A iid \in IID : Answer(p, iid) = Answer(q, iid)
=============================================================================
