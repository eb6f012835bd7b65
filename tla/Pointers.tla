------------------------------- MODULE Pointers -------------------------------
(***************************************************************************)
(* What a pointer of C is when it points to nothing.  Elements and records    *)
(* are positive integers.                                                   *)
(***************************************************************************)
NULL == 0

=============================================================================
