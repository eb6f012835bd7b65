------------------------------ MODULE RedBlackMC ------------------------------
(***************************************************************************)
(* Ten elements, of which the last has the key of another one.              *)
(***************************************************************************)
EXTENDS RedBlack

CONSTANT Size   \* bound: how many elements there are

Elems == 1 .. Size
KeyOf == [n \in Elems |-> IF n = Size THEN Size \div 2 ELSE n]

=============================================================================
