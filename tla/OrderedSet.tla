------------------------------ MODULE OrderedSet ------------------------------
(***************************************************************************)
(* What a tree of src/tree.h is for its users (timers.c, tts.c, enums.c): a  *)
(* set of elements with different keys, that can be searched and walked in   *)
(* the order of the keys.                                                   *)
(***************************************************************************)
EXTENDS Integers

CONSTANTS
  Node,   \* the elements there are: positive integers, for NULL is 0
  Key     \* the key of each, an integer

NULL == 0

VARIABLE content

Init == content = {}

(* An element whose key is there already is not inserted.                   *)
Insert(n) ==
  /\ \A m \in content : Key[m] # Key[n]
  /\ content' = content \cup {n}

Remove(n) ==
  /\ n \in content
  /\ content' = content \ {n}

Next == \E n \in Node : Insert(n) \/ Remove(n)

Spec == Init /\ [][Next]_content

-----------------------------------------------------------------------------
(* The answers to searches in a set S with different keys.                  *)
Least(S) == IF S = {} THEN NULL ELSE CHOOSE n \in S : \A m \in S : Key[n] <= Key[m]
Greatest(S) == IF S = {} THEN NULL ELSE CHOOSE n \in S : \A m \in S : Key[m] <= Key[n]

From(S, k) == {n \in S : k <= Key[n]}
Above(S, k) == {n \in S : k < Key[n]}
At(S, k) == {n \in S : Key[n] = k}

=============================================================================
