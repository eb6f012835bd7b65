------------------------------ MODULE TextStyleMC ------------------------------
(***************************************************************************)
(* The table of the library, under a name of its own: TLC evaluates           *)
(* Enumerations once, but what a constant is defined as each time it is used. *)
(***************************************************************************)
EXTENDS TextStyle

TheTable == Enumerations

=============================================================================
