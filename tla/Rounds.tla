-------------------------------- MODULE Rounds --------------------------------
(***************************************************************************)
(* What the manual promises of signal dispatching, without queues, copies   *)
(* or counters (doc/signals.adoc, doc/trigger.adoc, doc/fsm.adoc).          *)
(*                                                                          *)
(* Signals are dispatched in rounds, one per trigger().  A round delivers   *)
(* exactly the signals that were sent before it began; within it a higher   *)
(* priority goes first, and signals of one priority go in the order they    *)
(* were sent.                                                               *)
(***************************************************************************)
EXTENDS Integers

CONSTANTS Signals, PrioLevels

VARIABLES
  current,  \* [level -> signals still to be delivered in this round]
  later,    \* [level -> signals sent for the next round]
  older,    \* pairs <<s, t>> of outstanding signals, s sent before t
  open      \* a round is in progress

roundVars == <<current, later, older, open>>

AllLevels == 1 .. PrioLevels + 1  \* the last one is "no priority"

Pending == UNION {current[l] \cup later[l] : l \in AllLevels}

RoundsInit ==
  /\ current = [l \in AllLevels |-> {}]
  /\ later = [l \in AllLevels |-> {}]
  /\ older = {}
  /\ open = FALSE

SendSignal(s) ==
  /\ s \notin Pending
  /\ \E l \in AllLevels : later' = [later EXCEPT ![l] = @ \cup {s}]
  /\ older' = older \cup (Pending \X {s})
  /\ UNCHANGED <<current, open>>

OpenRound ==
  /\ ~open
  /\ open' = TRUE
  /\ current' = later
  /\ later' = [l \in AllLevels |-> {}]
  /\ UNCHANGED older

Deliver(s) ==
  /\ open
  /\ \E l \in AllLevels :
       /\ s \in current[l]
       /\ \A k \in AllLevels : k < l => current[k] = {}
       /\ \A t \in current[l] \ {s} : <<s, t>> \in older
       /\ current' = [current EXCEPT ![l] = @ \ {s}]
  /\ older' = {p \in older : p[1] # s /\ p[2] # s}
  /\ UNCHANGED <<later, open>>

CloseRound ==
  /\ open
  /\ \A l \in AllLevels : current[l] = {}
  /\ open' = FALSE
  /\ UNCHANGED <<current, later, older>>

RoundsNext ==
  \/ \E s \in Signals : SendSignal(s) \/ Deliver(s)
  \/ OpenRound
  \/ CloseRound

RoundsSpec == RoundsInit /\ [][RoundsNext]_roundVars

=============================================================================
