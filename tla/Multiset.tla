-------------------------------- MODULE Multiset --------------------------------
(* What a hash table promises: so many elements of each key, and answers that *)
(* say what was done.                                                         *)
EXTENDS Naturals, FiniteSets, Sequences

CONSTANT Key
VARIABLES content, result

Says(what) == [what |-> what, keys |-> <<>>]
Erased(keys) == [what |-> "erased", keys |-> keys]
Empty == [k \in Key |-> 0]

Init == content = Empty /\ result = Says("none")

Insert(k) == content' = [content EXCEPT ![k] = @ + 1] /\ result' = Says("inserted")
Find(k) == content[k] > 0 /\ result' = Says("there") /\ UNCHANGED content
EraseKey(k) ==
  /\ content' = [content EXCEPT ![k] = 0]
  /\ result' = Erased([i \in 1..content[k] |-> k])

(* A range goes, and the caller knows from its traversal what was in it.     *)
EraseRange ==
  /\ result'.what = "erased"
  /\ content' = [k \in Key |-> content[k] - Cardinality({i \in DOMAIN result'.keys : result'.keys[i] = k})]

(* Copies; one that fails leaves nothing.                                    *)
Copy == result' = Says("copied") /\ UNCHANGED content
Clear == content' = Empty /\ result' \in {Says("cleared"), Says("threw")}
Threw == result' = Says("threw") /\ UNCHANGED content

Next ==
  \/ \E k \in Key : Insert(k) \/ Find(k) \/ EraseKey(k)
  \/ EraseRange \/ Copy \/ Clear \/ Threw

Spec == Init /\ [][Next]_<<content, result>>
=============================================================================
