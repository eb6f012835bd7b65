-------------------------------- MODULE Array --------------------------------
(***************************************************************************)
(* The sets of moonagents/array.lua: a sequence that ipairs() goes through,  *)
(* the index of each of its values, and an info for each.                    *)
(***************************************************************************)
LOCAL INSTANCE Sequences
LOCAL INSTANCE Integers

CONSTANTS Values, NoInfo  \* NoInfo is nil

Empty == [list |-> <<>>, reverse |-> [v \in Values |-> 0], info |-> [v \in Values |-> NoInfo]]

(* A value that is there already only gets another info.                    *)
InsertKeepingInfo(a, value, info) ==  \* a wrong variant: nothing is done for it
  IF a.reverse[value] # 0 THEN a
  ELSE [list |-> Append(a.list, value),
        reverse |-> [a.reverse EXCEPT ![value] = Len(a.list) + 1],
        info |-> [a.info EXCEPT ![value] = info]]

Insert(a, value, info) ==
  IF a.reverse[value] # 0 THEN [a EXCEPT !.info[value] = info]
  ELSE [list |-> Append(a.list, value),
        reverse |-> [a.reverse EXCEPT ![value] = Len(a.list) + 1],
        info |-> [a.info EXCEPT ![value] = info]]

RemoveForgettingTop(a, value) ==  \* a wrong variant: the moved value keeps its index
  LET index == a.reverse[value]
      top == a.list[Len(a.list)]
      shorter == SubSeq(a.list, 1, Len(a.list) - 1)
  IN IF index = 0 THEN a
     ELSE [list |-> IF top = value THEN shorter ELSE [shorter EXCEPT ![index] = top],
           reverse |-> [a.reverse EXCEPT ![value] = 0],
           info |-> [a.info EXCEPT ![value] = NoInfo]]

(* The last value moves into the place of the one that is removed.          *)
Remove(a, value) ==
  LET index == a.reverse[value]
      top == a.list[Len(a.list)]
      shorter == SubSeq(a.list, 1, Len(a.list) - 1)
  IN IF index = 0 THEN a
     ELSE [list |-> IF top = value THEN shorter ELSE [shorter EXCEPT ![index] = top],
           reverse |-> IF top = value THEN [a.reverse EXCEPT ![value] = 0]
                       ELSE [a.reverse EXCEPT ![value] = 0, ![top] = index],
           info |-> [a.info EXCEPT ![value] = NoInfo]]

(* The array is a set, its indices are those of its values, and the info is  *)
(* of no other.                                                             *)
Exact(a) ==
  /\ \A i \in 1 .. Len(a.list) : a.reverse[a.list[i]] = i
  /\ \A v \in Values :
       /\ a.reverse[v] \in 0 .. Len(a.list)
       /\ a.reverse[v] # 0 => a.list[a.reverse[v]] = v
       /\ a.info[v] # NoInfo => a.reverse[v] # 0

=============================================================================
