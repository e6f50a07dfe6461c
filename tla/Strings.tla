--------------------------------- MODULE Strings ---------------------------------
(***************************************************************************)
(* The strings (dmString.cpp, dmTString.cpp; cciString.cpp hands them to   *)
(* components): a string is a pointer to a counted buffer which others may *)
(* share; a call that writes makes itself a buffer of its own first. Texts *)
(* given to a call may point into the buffer it is about to change.        *)
(*                                                                         *)
(* Characters are numbers; 0 ends a text.                                  *)
(***************************************************************************)
EXTENDS Cells, FiniteSets

CONSTANTS
  String,      \* variables of the client
  MaxLength    \* bound on the memory of a buffer

ASSUME StringsAssumption ==
  IsFiniteSet(String) /\ Value \subseteq Nat /\ 1 \in Value /\ Raw \notin Value

VARIABLE heap  \* impl: the buffer of each string; refs and text of each buffer

Null == 0
Buffer == 1..Cardinality(String)

StringsInit ==
  heap = [impl |-> [s \in String |-> Null], refs |-> [b \in Buffer |-> 0],
          text |-> [b \in Buffer |-> NoCells]]

Text(h, s) == IF h.impl[s] = Null THEN <<>> ELSE Elements(h.text[h.impl[s]])
Shared(h, s) == h.impl[s] # Null /\ h.refs[h.impl[s]] > 1

-----------------------------------------------------------------------------
(* dmShared: the last reference takes the buffer with it.                   *)
Release(h, s) ==
  LET b == h.impl[s]
  IN IF b = Null THEN h
     ELSE [h EXCEPT !.impl[s] = Null, !.refs[b] = @ - 1,
                    !.text[b] = IF h.refs[b] = 1 THEN NoCells ELSE @]
Obtain(h, s, b) ==
  IF b = Null THEN h ELSE [h EXCEPT !.impl[s] = b, !.refs[b] = @ + 1]

AssignString_NoObtain(h, s, t) ==
  IF s = t THEN h ELSE [Release(h, s) EXCEPT !.impl[s] = h.impl[t]]
AssignString(h, s, t) == IF s = t THEN h ELSE Obtain(Release(h, s), s, h.impl[t])

New(h, s, w) ==
  LET b == CHOOSE b \in Buffer : h.refs[b] = 0
  IN [h EXCEPT !.impl[s] = b, !.refs[b] = 1, !.text[b] = w]

create_local_copy_Never(h, s) == IF h.impl[s] = Null THEN New(h, s, NoCells) ELSE h
create_local_copy(h, s) ==
  IF h.impl[s] = Null THEN New(h, s, NoCells)
  ELSE IF Shared(h, s)
       THEN New(Release(h, s), s, Moved(Text(h, s), Len(Text(h, s))))
       ELSE h

OnOwn(h, s, Op(_)) ==
  LET own == create_local_copy(h, s)
      b == own.impl[s]
  IN [own EXCEPT !.text[b] = Op(own.text[b])]

ClearString(h, s) ==
  IF h.impl[s] = Null \/ Shared(h, s) THEN Release(h, s)
  ELSE OnOwn(h, s, LAMBDA w : EraseCells(w, 1, w.end + 1))

-----------------------------------------------------------------------------
(* A text a call is given: n characters at a position of string t, which    *)
(* are read where they are (inside) when t has the buffer for itself and is *)
(* the string that changes.                                                 *)
PartOf(h, s, t, pos, n) ==
  LET last == IF pos + n - 1 > Len(Text(h, t)) THEN Len(Text(h, t)) ELSE pos + n - 1
  IN [inside |-> s = t /\ ~Shared(h, s), pos |-> pos, text |-> SubSeq(Text(h, t), pos, last)]
Given(text) == [inside |-> FALSE, pos |-> 1, text |-> text]

(* Cell by cell, from the first one on.                                     *)
Placed(cells, a, to) ==
  FoldLeftDomain(LAMBDA c, i : Copied(c, <<IF a.inside THEN c[a.pos + i - 1] ELSE a.text[i]>>, to + i - 1),
                 cells, a.text)

(* The string implementation has an Insert of its own, which moves up in    *)
(* place what is behind.                                                    *)
InsertedPart(w, p, a) ==
  LET n == Len(a.text)
      now == [a EXCEPT !.text = IF a.inside THEN SubSeq(w.cells, a.pos, a.pos + n - 1) ELSE @]
  IN IF Capacity(w) <= w.end + n THEN InsertOverflow(w, p, now.text)
     ELSE [cells |-> Placed(Copied(w.cells, SubSeq(w.cells, p, w.end), p + n), now, p),
           end |-> w.end + n]

Overwritten(w, a) ==
  LET n == Len(a.text)
      placed == Placed(Reserve(w, n).cells, a, 1)
  IN [cells |-> [i \in DOMAIN placed |-> IF i \in n + 1..w.end THEN Raw ELSE placed[i]], end |-> n]

(* Fill moves up all but the last character of what is behind.              *)
Filled(w, p, n, c) ==
  LET r == Reserve(w, w.end + n)
      up == IF p > w.end THEN r.cells ELSE Copied(r.cells, SubSeq(r.cells, p, w.end - 1), p + n)
  IN [cells |-> Copied(up, [i \in 1..n |-> c], p), end |-> w.end + n]

-----------------------------------------------------------------------------
AssignPart(h, s, a) ==
  IF a.text = <<>> THEN ClearString(h, s) ELSE OnOwn(h, s, LAMBDA w : Overwritten(w, a))
(* The arguments of the implementation's Assign(c, n) are given as (1, c).   *)
AssignChar(h, s, c) == OnOwn(h, s, LAMBDA w : Overwritten(w, Given([i \in 1..c |-> 1])))

(* is_null_string, and how long a text is for who reads it to its end: a    *)
(* text may hold the character that ends texts where Fill has left one.     *)
is_null_string(text) == text = <<>> \/ text[1] = Raw
strlen(text) ==
  LET ends == {i \in DOMAIN text : text[i] = Raw}
  IN IF ends = {} THEN Len(text) ELSE (CHOOSE i \in ends : \A j \in ends : i <= j) - 1

InsertPart(h, s, p, a) ==
  IF is_null_string(a.text) THEN h ELSE OnOwn(h, s, LAMBDA w : InsertedPart(w, p, a))
Fill(h, s, p, n, c) == OnOwn(h, s, LAMBDA w : Filled(w, p, n, c))

Replace(h, s, p, n, a) ==
  IF p > Len(Text(h, s)) THEN h
  ELSE OnOwn(h, s, LAMBDA w :
         InsertedPart(EraseCells(w, p, IF p + n > w.end + 1 THEN w.end + 1 ELSE p + n), p, a))

(* operator[]: the caller gets a reference, and writes.                     *)
Write(h, s, p, c) == OnOwn(h, s, LAMBDA w : [w EXCEPT !.cells = Copied(@, <<c>>, p)])

(* The other case of a character; that of the one that ends texts is itself. *)
ToCase(c) == [x \in Value \cup {Raw} |-> IF x = Raw THEN Raw ELSE c]
ToLowerUpper(h, s, case) ==
  IF h.impl[s] = Null THEN h
  ELSE OnOwn(h, s, LAMBDA w : [w EXCEPT !.cells = [i \in DOMAIN @ |-> IF i <= w.end THEN case[@[i]] ELSE @[i]]])

(* ReplaceChars writes where the characters are, in whosever buffer, and    *)
(* looks again from the place it has written to: it does not return when a  *)
(* character it finds replaces itself.                                      *)
ReplaceCharsReturns(h, s, c, by) == c = by => \A i \in DOMAIN Text(h, s) : Text(h, s)[i] # c
ReplaceChars(h, s, c, by) ==
  IF h.impl[s] = Null THEN h
  ELSE [h EXCEPT !.text[h.impl[s]].cells = [i \in DOMAIN @ |-> IF @[i] = c THEN by ELSE @[i]]]

(* Find looks for as much of seq as the rest of the string has room for.    *)
FindText(text, seq, pos) ==
  LET n == IF strlen(seq) > Len(text) - pos + 1 THEN Len(text) - pos + 1 ELSE strlen(seq)
      at == {i \in pos..Len(text) - n + 1 : SubSeq(text, i, i + n - 1) = SubSeq(seq, 1, n)}
  IN IF at = {} \/ n <= 0 THEN 0 ELSE CHOOSE i \in at : \A j \in at : i <= j

(* One replacement, and where to look for the next one.                    *)
ReplaceNext(now, s, seq, by) ==
  LET at == FindText(Text(now.h, s), seq, now.pos)
  IN IF at = 0 THEN now
     ELSE [h |-> Replace(now.h, s, at, Len(seq), by), pos |-> at + Len(by.text)]
(* As many as there are, at most one for each character.                    *)
ReplaceString(h, s, seq, by) ==
  IF h.impl[s] = Null \/ is_null_string(seq) THEN h
  ELSE FoldLeft(LAMBDA now, c : ReplaceNext(now, s, seq, by),
                [h |-> create_local_copy(h, s), pos |-> 1], Text(h, s)).h

(* Trim looks for the ends in the buffer it finds, and erases in its own.   *)
TrimmedText(text, c) ==
  LET keep == {i \in DOMAIN text : text[i] # c}
  IN IF keep = {} THEN <<>>
     ELSE SubSeq(text, CHOOSE i \in keep : \A j \in keep : i <= j,
                       CHOOSE i \in keep : \A j \in keep : i >= j)
EndsInOther(h, s, c) == Shared(h, s) /\ TrimmedText(Text(h, s), c) # Text(h, s)
Trim(h, s, c) ==
  IF h.impl[s] = Null \/ TrimmedText(Text(h, s), c) = Text(h, s) THEN h
  ELSE OnOwn(h, s, LAMBDA w :
         LET t == TrimmedText(Elements(w), c)
         IN [cells |-> Copied(Allocated(Capacity(w)), t, 1), end |-> Len(t)])

-----------------------------------------------------------------------------
PlaceIn(h, s) == 1..Len(Text(h, s)) + 1
PartsOf(h, s) ==
  UNION {{PartOf(h, s, t, pos, n) : pos \in DOMAIN Text(h, t), n \in 1..Len(Text(h, t))} : t \in String}
Fits(h) == \A b \in Buffer : Capacity(h.text[b]) <= MaxLength

Makes(h) == Fits(h) /\ heap' = h

StringsNext ==
  \E s \in String :
    \/ \E t \in String : Makes(AssignString(heap, s, t))
    \/ Makes(Release(heap, s)) \/ Makes(ClearString(heap, s))
    \/ \E c \in Value :
         Makes(AssignChar(heap, s, c)) \/ Makes(AssignPart(heap, s, Given(<<c>>)))
    \/ \E a \in PartsOf(heap, s) : Makes(AssignPart(heap, s, a))
    \/ \E p \in PlaceIn(heap, s) :
         \/ \E c \in Value : Makes(InsertPart(heap, s, p, Given(<<c>>)))
         \/ \E a \in PartsOf(heap, s), n \in 0..1 :
              Makes(InsertPart(heap, s, p, a)) \/ Makes(Replace(heap, s, p, n, a))
         \/ \E c \in Value, n \in 1..2 : Makes(Fill(heap, s, p, n, c))
    \/ \E p \in DOMAIN Text(heap, s), c \in Value : Makes(Write(heap, s, p, c))
    \/ \E c, by \in Value :
         ReplaceCharsReturns(heap, s, c, by) /\ Makes(ReplaceChars(heap, s, c, by))
    \/ \E c \in Value : Makes(ToLowerUpper(heap, s, ToCase(c)))
    \/ \E t \in String \ {s}, c \in Value :
         Makes(ReplaceString(heap, s, Text(heap, t), Given(<<c>>)))
    \/ \E c \in Value : ~EndsInOther(heap, s, c) /\ Makes(Trim(heap, s, c))

StringsSpec == StringsInit /\ [][StringsNext]_heap
-----------------------------------------------------------------------------
MovesUpUnderIt(h, s, p, a) ==
  /\ a.inside /\ p # Len(Text(h, s)) + 1
  /\ Capacity(h.text[h.impl[s]]) > Len(Text(h, s)) + Len(a.text)

(* Strings are values: whatever shares its buffer, and wherever its         *)
(* argument points, a call changes the string it is called on, as its name  *)
(* says, and no other. (The calls that do not keep this are named: a char   *)
(* is assigned, Fill before the end, a text inserted or put into itself     *)
(* before its end, ReplaceChars of a shared buffer or of a character by     *)
(* itself, which does not return, Trim of a shared one. To insert a text    *)
(* that begins with the character that ends texts is to insert nothing.)    *)
StringsAreValues ==
  \A s \in String :
    LET text == Text(heap, s)
        Only(h, new) == \A t \in String : Text(h, t) = IF t = s THEN new ELSE Text(heap, t)
    IN /\ \A t \in String : Only(AssignString(heap, s, t), Text(heap, t))
       /\ Only(ClearString(heap, s), <<>>) /\ Only(Release(heap, s), <<>>)
       /\ \A a \in PartsOf(heap, s) :
            /\ Only(AssignPart(heap, s, a), a.text)
            /\ \A p \in PlaceIn(heap, s) :
                 ~MovesUpUnderIt(heap, s, p, a) =>
                   Only(InsertPart(heap, s, p, a),
                        IF is_null_string(a.text) THEN text ELSE With(text, p, a.text))
            /\ \A p \in DOMAIN text, n \in 0..2 :
                 ~a.inside => Only(Replace(heap, s, p, n, a),
                                   SubSeq(text, 1, p - 1) \o a.text \o SubSeq(text, p + n, Len(text)))
       /\ \A c, by \in Value :
            /\ Only(Fill(heap, s, Len(text) + 1, 2, c), text \o <<c, c>>)
            /\ \A p \in DOMAIN text : Only(Write(heap, s, p, c), [text EXCEPT ![p] = c])
            /\ Only(ToLowerUpper(heap, s, ToCase(c)), [i \in DOMAIN text |-> ToCase(c)[text[i]]])
            /\ ~EndsInOther(heap, s, c) => Only(Trim(heap, s, c), TrimmedText(text, c))
            /\ ~Shared(heap, s) /\ ReplaceCharsReturns(heap, s, c, by) =>
                 Only(ReplaceChars(heap, s, c, by), [i \in DOMAIN text |-> IF text[i] = c THEN by ELSE text[i]])

(* A buffer lives as long as a string points to it, and what follows the    *)
(* text in it is the character that ends texts.                             *)
BuffersAreCounted ==
  \A b \in Buffer :
    /\ heap.refs[b] = Cardinality({s \in String : heap.impl[s] = b})
    /\ \A i \in heap.text[b].end + 1..Capacity(heap.text[b]) : heap.text[b].cells[i] = Raw
=============================================================================
