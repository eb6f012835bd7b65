------------------------------ MODULE Schedulers ------------------------------
(***************************************************************************)
(* The signal schedulers of moonagents/engine.lua: one normal queue and     *)
(* PrioLevels priority queues, each kept twice (Scheduler / Scheduler1).    *)
(* Signals are pushed to the first copy; Trigger() swaps the copies and     *)
(* flushes the second one, so that what is scheduled during a flush waits   *)
(* for the next trigger.                                                    *)
(*                                                                          *)
(* The module is about the queues only.  Who sends, and what the dispatcher *)
(* does with a signal it takes, is left to the environment: in Spec any     *)
(* signal of the pool that is not scheduled may be sent at any moment, also *)
(* by the transition that the dispatcher is running.                        *)
(***************************************************************************)
EXTENDS Integers, Sequences

CONSTANTS
  Signals,    \* the entries { signal, sender, dstpid, ... } that can be scheduled
  PrioLevels  \* number of priority levels, see set_priority_levels()

ASSUME PrioLevelsAssumption == PrioLevels \in 1 .. 16 \* MAX_PRIO_LEVELS

VARIABLES
  Scheduler, Scheduler1,            \* fifo being filled, fifo being flushed
  PrioSchedulers, PrioSchedulers1,  \* the same for each priority level
  NormSignals, PrioSignals,         \* how many signals the trigger will find
  norm, prio,                       \* the locals of Trigger()
  phase                             \* "idle" outside Trigger(), "flush" inside

filling == <<Scheduler, PrioSchedulers, NormSignals, PrioSignals>>
flushing == <<Scheduler1, PrioSchedulers1, norm, prio, phase>>
schedVars == <<filling, flushing>>

Levels == 1 .. PrioLevels           \* 1 is the highest
Normal == PrioLevels + 1            \* the normal queue is the lowest level

Elements(q) == {q[i] : i \in DOMAIN q}
Scheduled == Elements(Scheduler) \cup UNION {Elements(PrioSchedulers[l]) : l \in Levels}
Flushing == Elements(Scheduler1) \cup UNION {Elements(PrioSchedulers1[l]) : l \in Levels}
Outstanding == Scheduled \cup Flushing

(* CreateSystem_: fresh queues.                                            *)
SchedInit ==
  /\ Scheduler = <<>> /\ Scheduler1 = <<>>
  /\ PrioSchedulers = [l \in Levels |-> <<>>]
  /\ PrioSchedulers1 = [l \in Levels |-> <<>>]
  /\ NormSignals = 0 /\ PrioSignals = 0
  /\ norm = FALSE /\ prio = FALSE
  /\ phase = "idle"

(* ResetSystem: the queues and what they hold are dropped.                 *)
DropQueues ==
  /\ Scheduler' = <<>> /\ Scheduler1' = <<>>
  /\ PrioSchedulers' = [l \in Levels |-> <<>>]
  /\ PrioSchedulers1' = [l \in Levels |-> <<>>]
  /\ NormSignals' = 0 /\ PrioSignals' = 0
  /\ norm' = FALSE /\ prio' = FALSE

(* The end of Send1: push to the queue of the priority, or to the normal   *)
(* queue when the priority is absent or out of range.                      *)
PushNormalIntoTheFlush(s) ==  \* a wrong variant: reaches the flush in progress
  /\ IF phase = "flush"
     THEN Scheduler1' = Append(Scheduler1, s) /\ UNCHANGED <<Scheduler, NormSignals>>
     ELSE /\ Scheduler' = Append(Scheduler, s) /\ NormSignals' = NormSignals + 1
          /\ UNCHANGED Scheduler1
  /\ UNCHANGED <<PrioSchedulers, PrioSignals, PrioSchedulers1, norm, prio, phase>>

PushNormal(s) ==
  /\ Scheduler' = Append(Scheduler, s)
  /\ NormSignals' = NormSignals + 1
  /\ UNCHANGED <<PrioSchedulers, PrioSignals, flushing>>

PushPrioUncounted(s, level) ==  \* a wrong variant: PrioSignals forgotten
  /\ PrioSchedulers' = [PrioSchedulers EXCEPT ![level] = Append(@, s)]
  /\ UNCHANGED <<Scheduler, NormSignals, PrioSignals, flushing>>

PushPrio(s, level) ==
  /\ PrioSchedulers' = [PrioSchedulers EXCEPT ![level] = Append(@, s)]
  /\ PrioSignals' = PrioSignals + 1
  /\ UNCHANGED <<Scheduler, NormSignals, flushing>>

Push(s, priority) ==
  \/ priority \in Levels /\ PushPrio(s, priority)
  \/ priority \notin Levels /\ PushNormal(s)

(* Trigger(), up to the flush: swap the copies if anything is scheduled.   *)
BeginTriggerEither ==  \* a wrong variant: "if prio ... elseif norm ..."
  /\ phase = "idle"
  /\ prio' = (PrioSignals > 0)
  /\ norm' = (NormSignals > 0 /\ ~prio')
  /\ phase' = "flush"
  /\ Scheduler' = Scheduler1 /\ Scheduler1' = Scheduler
  /\ PrioSchedulers' = PrioSchedulers1 /\ PrioSchedulers1' = PrioSchedulers
  /\ NormSignals' = 0 /\ PrioSignals' = 0

BeginTrigger ==
  /\ phase = "idle"
  /\ norm' = (NormSignals > 0)
  /\ prio' = (PrioSignals > 0)
  /\ phase' = "flush"
  /\ IF norm' \/ prio'
     THEN /\ Scheduler' = Scheduler1 /\ Scheduler1' = Scheduler
          /\ PrioSchedulers' = PrioSchedulers1 /\ PrioSchedulers1' = PrioSchedulers
          /\ NormSignals' = 0 /\ PrioSignals' = 0
     ELSE UNCHANGED <<filling, Scheduler1, PrioSchedulers1>>

(* FlushScheduler() on each level in turn, highest first: a level is left  *)
(* only when it is empty.                                                  *)
PrioPending == prio /\ \E l \in Levels : PrioSchedulers1[l] # <<>>

PopPrioLowestFirst(s) ==  \* a wrong variant: the levels in reverse order
  /\ phase = "flush" /\ prio
  /\ \E l \in Levels :
       /\ PrioSchedulers1[l] # <<>>
       /\ \A k \in Levels : k > l => PrioSchedulers1[k] = <<>>
       /\ s = Head(PrioSchedulers1[l])
       /\ PrioSchedulers1' = [PrioSchedulers1 EXCEPT ![l] = Tail(@)]
  /\ UNCHANGED <<filling, Scheduler1, norm, prio, phase>>

PopPrio(s) ==
  /\ phase = "flush" /\ prio
  /\ \E l \in Levels :
       /\ PrioSchedulers1[l] # <<>>
       /\ \A k \in Levels : k < l => PrioSchedulers1[k] = <<>>
       /\ s = Head(PrioSchedulers1[l])
       /\ PrioSchedulers1' = [PrioSchedulers1 EXCEPT ![l] = Tail(@)]
  /\ UNCHANGED <<filling, Scheduler1, norm, prio, phase>>

PopNormal(s) ==
  /\ phase = "flush" /\ norm /\ ~PrioPending
  /\ Scheduler1 # <<>>
  /\ s = Head(Scheduler1)
  /\ Scheduler1' = Tail(Scheduler1)
  /\ UNCHANGED <<filling, PrioSchedulers1, norm, prio, phase>>

Pop(s) == PopPrio(s) \/ PopNormal(s)

(* The loops over the queues are done.                                     *)
FlushDone == phase = "flush" /\ ~PrioPending /\ (norm => Scheduler1 = <<>>)

EndTriggerEarly ==  \* a wrong variant: only the highest level is flushed
  /\ phase = "flush"
  /\ prio => PrioSchedulers1[1] = <<>>
  /\ norm => Scheduler1 = <<>>
  /\ phase' = "idle" /\ norm' = FALSE /\ prio' = FALSE
  /\ UNCHANGED <<filling, Scheduler1, PrioSchedulers1>>

EndTrigger ==
  /\ FlushDone
  /\ phase' = "idle" /\ norm' = FALSE /\ prio' = FALSE
  /\ UNCHANGED <<filling, Scheduler1, PrioSchedulers1>>

-----------------------------------------------------------------------------
(* The queues alone: any signal of the pool that is not scheduled may be   *)
(* sent, by the application or by a running transition.                    *)

Send(s, priority) == s \notin Outstanding /\ Push(s, priority)

SchedNext ==
  \/ \E s \in Signals, priority \in 0 .. Normal : Send(s, priority)
  \/ \E s \in Signals : Pop(s)
  \/ BeginTrigger
  \/ EndTrigger

SchedSpec == SchedInit /\ [][SchedNext]_schedVars

-----------------------------------------------------------------------------
(* Queues hold signals; the counters never go below zero.                    *)
SchedTypeOK ==
  /\ Scheduler \in Seq(Signals) /\ Scheduler1 \in Seq(Signals)
  /\ PrioSchedulers \in [Levels -> Seq(Signals)]
  /\ PrioSchedulers1 \in [Levels -> Seq(Signals)]
  /\ NormSignals \in Nat /\ PrioSignals \in Nat
  /\ norm \in BOOLEAN /\ prio \in BOOLEAN
  /\ phase \in {"idle", "flush"}

(* No signal is stranded.  Trigger() decides by the counters alone whether  *)
(* to swap and which copy to flush, and reuses the flushed copy for the     *)
(* signals of the next round: a copy that is not drained, or a queue whose  *)
(* counter reads 0, holds signals that are not dispatched when they should. *)
DrainedBetweenTriggers ==
  /\ phase = "idle" => Flushing = {}
  /\ phase = "flush" => (Scheduler1 # <<>> => norm)
                     /\ ((\E l \in Levels : PrioSchedulers1[l] # <<>>) => prio)

(* The counters tell Trigger() of every queue that holds a signal (line 774). *)
CountersSeeEveryQueue ==
  /\ NormSignals = Len(Scheduler)
  /\ PrioSignals > 0 <=> \E l \in Levels : PrioSchedulers[l] # <<>>

(* Every scheduled signal is dispatched, however many signals of a higher    *)
(* priority keep arriving: the rounds bound how long it can be overtaken.    *)
EveryScheduledSignalIsDispatched ==
  \A s \in Signals : s \in Outstanding ~> s \notin Outstanding

=============================================================================
