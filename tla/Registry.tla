--------------------------------- MODULE Registry ---------------------------------
(***************************************************************************)
(* The persistent registry: contract ids, the classes and locations they   *)
(* stand for, and the persistent entries of categories, written to a file  *)
(* and read back by the next program (ReadPersistentRegistry and           *)
(* WritePersistentRegistry of cciComponentManager.cpp, cciManifestReader.h,*)
(* WritePersistentEntries of cciCategoryManager.cpp).                      *)
(*                                                                         *)
(* A line has fields with commas between them, and nothing keeps a name    *)
(* from having commas itself. So a text is the sequence of its words, a    *)
(* line is the words of its fields one after the other, and a reader takes *)
(* the first, the second, and all the rest.                                *)
(***************************************************************************)
EXTENDS Naturals, FiniteSets, Sequences, SequencesExt, Functions

CONSTANTS
  Contract,     \* texts
  CID,          \* words that are class ids
  Location,     \* texts
  Entry,        \* pairs of a category and a name in it, which are texts
  Value         \* texts

Text == Seq(STRING) \ {<<>>}
Empty == <<"">>

(* No contract id has a comma and then what reads as a class id.            *)
ASSUME RegistryAssumption ==
  /\ Contract \subseteq Text /\ Location \subseteq Text /\ Value \subseteq Text
  /\ CID \subseteq STRING /\ Entry \subseteq Text \X Text
  /\ \A k \in Contract : Len(k) > 1 => k[2] \notin CID

VARIABLES
  manager,      \* contracts: Contract -> CID; locations: CID -> text; leaves: Entry -> text
  file,         \* lines that are complete, and the rest, which is not
  was,          \* the manager when it began to write the file
  own,          \* the manager when it began to read it
  state         \* running; written, short or torn; and after it is read, <<"read", ...>>

NoManager == [contracts |-> <<>>, locations |-> <<>>, leaves |-> <<>>]
NoFile == [lines |-> <<>>, rest |-> <<>>]

With(f, x, y) == [z \in DOMAIN f \cup {x} |-> IF z = x THEN y ELSE f[z]]

-----------------------------------------------------------------------------
(* A class keeps the location it is first registered with; one that is      *)
(* registered with a factory has an empty one. The contract id moves.       *)
FactoryLocationRegistered(m, k, c, location) ==
  [m EXCEPT !.contracts = With(@, k, c),
            !.locations = IF c \in DOMAIN @ THEN @ ELSE With(@, c, location)]
FactoryRegistered(m, k, c) == FactoryLocationRegistered(m, k, c, Empty)
FactoryUnregistered(m, c) ==
  [m EXCEPT !.contracts = Restrict(@, {k \in DOMAIN @ : @[k] # c}),
            !.locations = Restrict(@, DOMAIN @ \ {c})]

(* The persistent values of leaves; one for this session only has none.     *)
AddCategoryEntry(m, e, value, persist, replace) ==
  [m EXCEPT !.leaves = IF e \notin DOMAIN @ THEN With(@, e, IF persist THEN value ELSE Empty)
                       ELSE IF replace /\ persist THEN With(@, e, value) ELSE @]
DeleteCategoryEntry(m, e) == [m EXCEPT !.leaves = Restrict(@, DOMAIN @ \ {e})]

-----------------------------------------------------------------------------
(* WritePersistentRegistry.                                                 *)
HeaderLines == << <<"[HEADER]">>, <<"Version", "0", "1">>, <<"[CONTRACTIDS]">> >>
ContractLine(m, k) == k \o <<m.contracts[k]>> \o m.locations[m.contracts[k]]
EntryLine(m, e) == e[1] \o e[2] \o m.leaves[e]

PersistentOf(m, category) ==
  SetToSeq({e \in DOMAIN m.leaves : e[1] = category /\ m.leaves[e] # Empty})

ContractLines(m) ==
  LET keys == SetToSeq(DOMAIN m.contracts) IN [i \in DOMAIN keys |-> ContractLine(m, keys[i])]
(* When a line of a category cannot be written its others are left out, and *)
(* the caller, who takes false for CCI_OK, goes on with the next category.  *)
CategoryLines(m, written) ==
  LET categories == SetToSeq({e[1] : e \in DOMAIN m.leaves})
      lines(category) ==
        LET keys == PersistentOf(m, category)
            n == IF Len(keys) > written[category] THEN written[category] ELSE Len(keys)
        IN [i \in 1..n |-> EntryLine(m, keys[i])]
  IN FlattenSeq([i \in DOMAIN categories |-> lines(categories[i])])
Lines(m, written) ==
  HeaderLines \o ContractLines(m) \o << <<"[CATEGORIES]">> >> \o CategoryLines(m, written)

-----------------------------------------------------------------------------
(* cciManifestLineReader: a line that does not end is not one (NextLine).   *)
ReadLines_TakesRest(f) == IF f.rest = <<>> THEN f.lines ELSE Append(f.lines, f.rest)
ReadLines(f) == f.lines

(* The lines of a section, up to the first that has not three fields, and   *)
(* what is after them.                                                      *)
Section(lines) ==
  LET short == SelectInSeq(lines, LAMBDA l : Len(l) < 3)
  IN IF short = 0 THEN [lines |-> lines, after |-> <<>>]
     ELSE [lines |-> SubSeq(lines, 1, short - 1), after |-> SubSeq(lines, short, Len(lines))]
Third(line) == SubSeq(line, 3, Len(line))

ReadContract(m, line) ==
  IF line[2] \notin CID THEN m
  ELSE FactoryLocationRegistered(m, <<line[1]>>, line[2], Third(line))
ReadEntry(m, line) ==
  AddCategoryEntry(m, << <<line[1]>>, <<line[2]>> >>, Third(line), TRUE, TRUE)

(* A file without the header, or that ends before a section, is accepted.   *)
ReadPersistentRegistry(m, f) ==
  LET lines == ReadLines(f)
      first == Section(SubSeq(lines, 4, Len(lines)))
      second == Section(IF first.after = <<>> THEN <<>> ELSE Tail(first.after))
      contracts == FoldLeft(ReadContract, m, first.lines)
  IN IF ~IsPrefix(HeaderLines, lines) THEN m
     ELSE IF first.after = <<>> \/ Head(first.after) # <<"[CATEGORIES]">> THEN contracts
     ELSE FoldLeft(ReadEntry, contracts, second.lines)

-----------------------------------------------------------------------------
RegistryInit ==
  /\ manager = NoManager /\ file = NoFile /\ was = NoManager /\ own = NoManager
  /\ state = <<"running">>

(* A program that is not over goes on; what is in the file then is of no    *)
(* use any more, and is forgotten here.                                     *)
Runs == state[1] \in {"running", "read"}
Become(m) ==
  /\ Runs /\ state' = <<"running">>
  /\ manager' = m /\ file' = NoFile /\ was' = NoManager /\ own' = NoManager

Change ==
  \/ \E k \in Contract, c \in CID :
       \/ Become(FactoryRegistered(manager, k, c))
       \/ \E location \in Location : Become(FactoryLocationRegistered(manager, k, c, location))
  \/ \E c \in CID : Become(FactoryUnregistered(manager, c))
  \/ \E e \in Entry :
       \/ \E value \in Value, persist, replace \in BOOLEAN :
            Become(AddCategoryEntry(manager, e, value, persist, replace))
       \/ Become(DeleteCategoryEntry(manager, e))

(* The file is emptied, then written. The program crashes, or a call of it  *)
(* fails, after a number of lines and a part of the next, whose last word   *)
(* may be cut.                                                              *)
Cuts(line) == {SubSeq(line, 1, i) : i \in 0..Len(line) - 1}
              \cup {SubSeq(line, 1, i) \o <<"">> : i \in 0..Len(line) - 1}
Written(lines) ==
  \/ state' = <<"written">> /\ file' = [lines |-> lines, rest |-> <<>>]
  \/ /\ state' = <<"torn">>
     /\ \E n \in 0..Len(lines) - 1 : \E rest \in Cuts(lines[n + 1]) :
          file' = [lines |-> SubSeq(lines, 1, n), rest |-> rest]
WritePersistentRegistry ==
  LET categories == {e[1] : e \in DOMAIN manager.leaves}
      most == Cardinality(DOMAIN manager.leaves)
      all == Lines(manager, [t \in categories |-> most])
  IN /\ Runs /\ was' = manager /\ UNCHANGED <<manager, own>>
     /\ \/ Written(all)
        \/ \E written \in [categories -> 0..most] :
             /\ Lines(manager, written) # all
             /\ state' = <<"short">> /\ file' = [lines |-> Lines(manager, written), rest |-> <<>>]

(* The next program has a class of its own, or none, and then reads.        *)
Restart ==
  /\ ~Runs /\ state' = <<"read", state[1]>>
  /\ own' \in {NoManager} \cup {FactoryRegistered(NoManager, k, c) : k \in Contract, c \in CID}
  /\ manager' = ReadPersistentRegistry(own', file)
  /\ UNCHANGED <<file, was>>

RegistryNext == Change \/ WritePersistentRegistry \/ Restart
RegistrySpec == RegistryInit /\ [][RegistryNext]_<<manager, file, was, own, state>>
-----------------------------------------------------------------------------
(* A program finds in the registry what the one before it had, wherever     *)
(* that was stopped while writing it: no contract gets another class, no    *)
(* class another location, no entry another value; and all of what has no   *)
(* comma in its name when the file was written to its end. An entry with a  *)
(* comma in its name comes back as another, with what is left as its value. *)
Within(f, g, h) ==
  \A x \in DOMAIN f : \/ x \in DOMAIN g /\ f[x] = g[x]
                      \/ x \in DOMAIN h /\ f[x] = h[x]
Comma(e) == Len(e[1] \o e[2]) > 2
RestoredWasThere ==
  state[1] = "read" =>
    /\ Within(manager.contracts, was.contracts, own.contracts)
    /\ Within(manager.locations, was.locations, own.locations)
    /\ \A e \in DOMAIN manager.leaves :
         \E f \in DOMAIN was.leaves :
           EntryLine(manager, e) = EntryLine(was, f) /\ was.leaves[f] # Empty
    /\ state[2] \in {"written", "short"} =>
         \A k \in DOMAIN was.contracts :
           Len(k) = 1 => k \in DOMAIN manager.contracts
                         /\ manager.contracts[k] = was.contracts[k]
    /\ state[2] = "written" =>
         \A e \in DOMAIN was.leaves :
           was.leaves[e] # Empty /\ ~Comma(e) =>
             /\ e \in DOMAIN manager.leaves
             /\ \/ manager.leaves[e] = was.leaves[e]
                \/ \E f \in DOMAIN was.leaves : Comma(f) /\ was.leaves[f] # Empty
                                                 /\ IsPrefix(e[1] \o e[2], f[1] \o f[2])
=============================================================================
