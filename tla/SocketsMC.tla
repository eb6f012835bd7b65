------------------------------ MODULE SocketsMC ------------------------------
(***************************************************************************)
(* Nothing distinguishes one socket from another.                           *)
(***************************************************************************)
EXTENDS Sockets

AnySocket == Permutations(Socks)

=============================================================================
