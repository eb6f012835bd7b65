---------------------------- MODULE SchedulerOrder ----------------------------
(***************************************************************************)
(* The schedulers implement Rounds.  The queues forget in which order two   *)
(* signals of different queues were sent, so a history variable remembers   *)
(* it; no guard of the schedulers reads it.                                 *)
(***************************************************************************)
EXTENDS Schedulers

VARIABLE older  \* pairs <<s, t>> of outstanding signals, s sent before t

orderVars == <<schedVars, older>>

OrderInit == SchedInit /\ older = {}

OSend(s, priority) ==
  Send(s, priority) /\ older' = older \cup (Outstanding \X {s})

OPop(s) ==
  Pop(s) /\ older' = {p \in older : p[1] # s /\ p[2] # s}

OBegin == BeginTrigger /\ UNCHANGED older
OEnd == EndTrigger /\ UNCHANGED older

OrderNext ==
  \/ \E s \in Signals, priority \in 0 .. Normal : OSend(s, priority)
  \/ \E s \in Signals : OPop(s)
  \/ OBegin
  \/ OEnd

OrderSpec == OrderInit /\ [][OrderNext]_orderVars

(* The application calls trigger() in its event loop (doc/trigger.adoc),    *)
(* every transition returns (doc/fsm.adoc), so Trigger() proceeds.  Nobody  *)
(* has to send.                                                            *)
FairOrderSpec ==
  /\ OrderSpec
  /\ WF_orderVars(OBegin)
  /\ WF_orderVars(\E s \in Signals : OPop(s))
  /\ WF_orderVars(OEnd)

-----------------------------------------------------------------------------
(* The queue of a level, in each copy: the normal queue is the last level.  *)
Fill(l) == IF l = Normal THEN Scheduler ELSE PrioSchedulers[l]
Flush(l) == IF l = Normal THEN Scheduler1 ELSE PrioSchedulers1[l]

(* The refinement mapping: a round's signals are those of the copy being    *)
(* flushed, the next round's those of the copy being filled.                *)
R == INSTANCE Rounds WITH
       current <- [l \in 1 .. Normal |-> Elements(Flush(l))],
       later <- [l \in 1 .. Normal |-> Elements(Fill(l))],
       open <- (phase = "flush")

(* Trigger's double buffering dispatches in rounds, by priority, first in   *)
(* first out: engine.lua:774-785 against the promise in Rounds.             *)
ImplementsRounds == R!RoundsSpec

=============================================================================
