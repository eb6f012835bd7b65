-------------------------------- MODULE Engine --------------------------------
(***************************************************************************)
(* The engine put together: the agents and their scripts (Agents) exchange  *)
(* signals through the schedulers (Schedulers).  What this module adds is    *)
(* where the two meet: Send1, Dispatch, the saved queue with Save, Restore   *)
(* and its move from a procedure to its caller, the flush and the end of     *)
(* Trigger, and ResetSystem.                                                 *)
(*                                                                          *)
(* Of what Trigger does besides, the timers and time-triggered signals that  *)
(* it schedules before the flush are sends of the application here, and of   *)
(* the sockets only that select() may block is: who they are and what their  *)
(* callbacks do is in Sockets, when select() may block in EventLoop.         *)
(***************************************************************************)
EXTENDS Agents, SequencesExt

CONSTANTS
  Ids,         \* the signals, as Lua tables: they are sent by reference
  PrioLevels,
  NoSignal     \* signal_ when no transition runs

ASSUME LevelsAssumption == PrioLevels \in 1 .. 16  \* MAX_PRIO_LEVELS

(* What is scheduled: the fields that decide where the signal goes.  `to' is *)
(* not in the code: the destination when the signal was sent.                *)
Entries == [id : Ids, dst : Pids, to : Pids]

VARIABLES
  Scheduler, Scheduler1, PrioSchedulers, PrioSchedulers1, NormSignals, PrioSignals,
  norm, prio,
  saved,       \* moonagents_.saved of each agent
  signal_,     \* the entry that the running transition consumes
  blocked      \* Trigger sleeps in select() until a socket is ready

S == INSTANCE Schedulers WITH Signals <- Entries

queues == <<Scheduler, Scheduler1, PrioSchedulers, PrioSchedulers1, NormSignals,
            PrioSignals, norm, prio>>
signals == <<queues, saved, signal_, blocked>>
engineVars == <<agentVars, signals>>

EngineInit ==
  /\ AgentsInit /\ S!SchedInit
  /\ saved = [p \in Pids |-> <<>>]
  /\ signal_ = NoSignal /\ blocked = FALSE

SavedEntries == UNION {Range(saved[p]) : p \in Pids}
InFlight == {e.id : e \in S!Outstanding \cup SavedEntries \cup ({signal_} \ {NoSignal})}

-----------------------------------------------------------------------------
(* Send1: to any pid that was assigned since the reset.  An agent that has  *)
(* terminated but is not released is a case of its own (SendToTerminated).  *)
Send(id, dst, priority) ==
  /\ Running \/ (Idle /\ SystemRunning)
  /\ id \notin InFlight
  /\ dst < NextPid /\ dst \notin ReleaseQueue
  /\ S!Push([id |-> id, dst |-> dst, to |-> dst], priority)
  /\ UNCHANGED <<agentVars, saved, signal_, blocked>>

(* Save, within the transition that consumes the signal and once for each.  *)
(* What is saved is addressed to who saves it.  No script code follows a     *)
(* procedure_return() (doc/procedures.adoc), so a procedure saves before it.  *)
Save ==
  /\ Running /\ signal_ # NoSignal /\ self_ = frames[1].pid
  /\ caller_[self_] # None => procedure[parent_[self_]] = self_
  /\ signal_.id \notin {e.id : e \in SavedEntries \cup S!Outstanding}
  /\ saved' = [saved EXCEPT ![self_] = Append(@, [signal_ EXCEPT !.dst = self_])]
  /\ UNCHANGED <<agentVars, queues, signal_, blocked>>

(* Restore: what was saved goes to the queue of the highest priority.       *)
RescheduleWithoutCounting(p) ==  \* a wrong variant: PrioSignals forgotten
  /\ PrioSchedulers' = [PrioSchedulers EXCEPT ![1] = @ \o saved[p]]
  /\ saved' = [saved EXCEPT ![p] = <<>>]
  /\ UNCHANGED <<Scheduler, NormSignals, PrioSignals, Scheduler1, PrioSchedulers1, norm, prio, signal_, blocked>>

RescheduleKeeping(p) ==  \* a wrong variant: saved signals are not taken out
  /\ PrioSchedulers' = [PrioSchedulers EXCEPT ![1] = @ \o saved[p]]
  /\ PrioSignals' = PrioSignals + Len(saved[p])
  /\ UNCHANGED <<saved, Scheduler, NormSignals, Scheduler1, PrioSchedulers1, norm, prio, signal_, blocked>>

Reschedule(p) ==
  /\ PrioSchedulers' = [PrioSchedulers EXCEPT ![1] = @ \o saved[p]]
  /\ PrioSignals' = PrioSignals + Len(saved[p])
  /\ saved' = [saved EXCEPT ![p] = <<>>]
  /\ UNCHANGED <<Scheduler, NormSignals, Scheduler1, PrioSchedulers1, norm, prio, signal_, blocked>>

Restore ==
  /\ Running
  /\ Reschedule(self_)
  /\ UNCHANGED agentVars

ChangeState(s) ==
  /\ NextState(s)
  /\ IF s # state_[self_] THEN Reschedule(self_) ELSE UNCHANGED signals

(* The saved queue of an agent that terminates is dropped (line 538).       *)
DropSaved ==
  /\ saved' = [p \in Pids |-> IF p \in moonagents_' THEN saved[p] ELSE <<>>]
  /\ UNCHANGED <<queues, signal_, blocked>>

(* The signals saved by a procedure become its caller's (line 838).         *)
ReturnKeepingDst ==  \* a wrong variant: s[3] is not updated
  /\ ProcedureReturn
  /\ saved' = [saved EXCEPT ![parent_[self_]] = @ \o saved[self_], ![self_] = <<>>]
  /\ UNCHANGED <<queues, signal_, blocked>>

ReturnForgetting ==  \* a wrong variant: saved signals are not moved
  /\ ProcedureReturn
  /\ UNCHANGED signals

Return ==
  /\ ProcedureReturn
  /\ LET caller == parent_[self_]
         moved == [i \in DOMAIN saved[self_] |-> [saved[self_][i] EXCEPT !.dst = caller]]
     IN saved' = [saved EXCEPT ![caller] = @ \o moved, ![self_] = <<>>]
  /\ UNCHANGED <<queues, signal_, blocked>>

-----------------------------------------------------------------------------
(* Trigger, up to the flush; then one signal at a time; then Release.       *)

StartTrigger ==
  /\ BeginTrigger /\ S!BeginTrigger
  /\ UNCHANGED <<saved, signal_, blocked>>

Deliver(e) ==
  /\ S!Pop(e)
  /\ Dispatch(e.dst)
  /\ signal_' = e
  /\ UNCHANGED <<saved, blocked>>

(* Unknown destination, or stopping.                                        *)
Discarded(e) == ~Receiving(e.dst) \/ ~Receiving(Destination(e.dst))

Discard(e) ==
  /\ frames = <<>>
  /\ S!Pop(e) /\ Discarded(e)
  /\ UNCHANGED <<agentVars, saved, signal_, blocked>>

ScriptRaises ==
  /\ Raise
  /\ signal_' = NoSignal
  /\ UNCHANGED <<queues, saved, blocked>>

FinishTransition ==
  /\ TransitionReturn
  /\ signal_' = NoSignal
  /\ UNCHANGED <<queues, saved, blocked>>

DropSignals ==
  /\ S!DropQueues
  /\ saved' = [p \in Pids |-> <<>>]
  /\ signal_' = NoSignal /\ blocked' = FALSE

(* trigger(true), with sockets that are monitored: if nothing is scheduled   *)
(* and nothing is due soon, nobody knows when select() returns.              *)
Block ==
  /\ phase = "flush" /\ frames = <<>> /\ ~blocked
  /\ S!FlushDone /\ NormSignals + PrioSignals = 0
  /\ blocked' = TRUE
  /\ UNCHANGED <<agentVars, queues, saved, signal_>>

FinishTrigger ==
  /\ EndTrigger
  /\ blocked' = FALSE
  /\ IF SystemPid \in ReleaseQueue
     THEN S!FlushDone /\ DropSignals
     ELSE S!EndTrigger /\ UNCHANGED <<saved, signal_>>

ResetSystem == Reset /\ DropSignals

-----------------------------------------------------------------------------
(* The actions of Agents that do not touch a signal.                        *)
WithoutSignals ==
  \/ CreateSystem \/ Create \/ CreateUncompiled \/ CreateDuplicate \/ Procedure
  \/ StartReturn \/ SystemStartFails
  \/ \E pid \in Pids : RemoteCall(pid)
  \/ RemoteReturn

EngineNext ==
  \/ WithoutSignals /\ UNCHANGED signals
  \/ (Stop \/ AtReturnDone \/ StartFails) /\ DropSaved
  \/ \E s \in States : ChangeState(s)
  \/ Return
  \/ \E id \in Ids, dst \in Pids, priority \in 0 .. PrioLevels : Send(id, dst, priority)
  \/ Save \/ Restore
  \/ StartTrigger \/ Block \/ FinishTrigger
  \/ \E e \in Entries : Deliver(e) \/ Discard(e)
  \/ FinishTransition \/ ScriptRaises
  \/ ResetSystem

EngineSpec == EngineInit /\ [][EngineNext]_engineVars

(* A script returns as soon as possible (doc/fsm.adoc, doc/remfunc.adoc),    *)
(* whatever calls it makes on the way, a start transition with a first state *)
(* (a missing one is an error).                                              *)
ScriptReturns ==
  \/ StartReturn \/ StartFails \/ SystemStartFails
  \/ AtReturnDone \/ RemoteReturn \/ TransitionReturn
  \/ InScript("start") /\ state_[self_] = Startup /\ \E s \in States : NextState(s)

(* Besides, the application calls trigger() in its loop and, after an error, *)
(* resets.  That a flush ends is not assumed but follows; that a trigger     *)
(* which blocks in select() ever goes on is not assumed at all.              *)
FairEngineSpec ==
  /\ EngineSpec
  /\ \A d \in 1 .. MaxDepth : SF_engineVars(Len(frames) = d /\ ScriptReturns /\ EngineNext)
  /\ SF_engineVars(StartTrigger)
  /\ WF_engineVars(\E e \in Entries : Deliver(e) \/ Discard(e))
  /\ WF_engineVars(~blocked /\ FinishTrigger)
  /\ WF_engineVars(phase = "error" /\ ResetSystem)

-----------------------------------------------------------------------------
(* The queues that signals wait in, by name: one of the schedulers that are *)
(* filled or flushed, of a priority or the normal one, or a saved queue.     *)
Holders == ({"scheduled", "flushing"} \X (1 .. S!Normal)) \cup ({"saved"} \X Pids)

Queue(h) ==
  CASE h[1] = "scheduled" -> IF h[2] = S!Normal THEN Scheduler ELSE PrioSchedulers[h[2]]
    [] h[1] = "flushing" -> IF h[2] = S!Normal THEN Scheduler1 ELSE PrioSchedulers1[h[2]]
    [] h[1] = "saved" -> saved[h[2]]

(* A signal is in one place only, scheduled once or saved once: restoring    *)
(* saved signals (Restore, line 1026), moving them to a caller and flushing  *)
(* the queues neither copy nor keep it.                                      *)
NeverDuplicated ==
  \A g, h \in Holders : \A i \in DOMAIN Queue(g), j \in DOMAIN Queue(h) :
    Queue(g)[i].id = Queue(h)[j].id => g = h /\ i = j

(* Whoever holds a saved signal is its addressee, and alive: a restored     *)
(* signal is dispatched to the agent that restores it, also after it was     *)
(* saved by a procedure and handed over (ProcedureReturn, line 842).         *)
SavedForItsHolder ==
  \A p \in Pids, i \in 1 .. Cardinality(Ids) :
    i \in DOMAIN saved[p] => p \in moonagents_ /\ saved[p][i].dst = p

(* A transition runs for a signal that was sent to its agent, or to one that *)
(* acts on behalf of the same original caller, whatever was saved, moved to  *)
(* a caller and restored since.                                              *)
DeliveredOnBehalf ==
  signal_ # NoSignal /\ signal_.to \in ENV =>
    OriginalCaller(frames[1].pid) = OriginalCaller(signal_.to)

(* No reset, error or release leaves a signal behind for the next system or  *)
(* the next round (ResetSystem, line 101), and the next Trigger overlooks no  *)
(* queue: restoring counts what it pushes (Restore, line 1033).              *)
NothingStranded ==
  SystemRunning => S!DrainedBetweenTriggers /\ S!CountersSeeEveryQueue

(* A procedure that has returned, although it may have to wait for its own  *)
(* procedures to terminate.                                                 *)
Returned(p) == caller_[p] # None /\ procedure[parent_[p]] # p

(* What is still waiting, and not with a procedure that has returned.        *)
Kept ==
  {e.id : e \in S!Outstanding \cup UNION {Range(saved[p]) : p \in {q \in Pids : ~Returned(q)}}}

(* "all the signal it saved are automatically moved in its caller's saved    *)
(* queue" (doc/procedures.adoc:18): while the agent that a signal was sent    *)
(* to lives, nothing that was saved for it is lost, but by the hand-over to   *)
(* a caller that has itself returned already.                               *)
SavedOutlivesTheProcedure ==
  [][\A p \in Pids : \A e \in Range(saved[p]) :
       ~Returned(p) =>
         \/ e.id \in Kept'
         \/ e.to \notin moonagents_'
         \/ Returned(parent_[p])]_engineVars

(* "the restored signals will be dispatched to the caller"                   *)
(* (doc/procedures.adoc): the dispatcher discards no signal while the agent  *)
(* it was sent to takes signals.                                             *)
DiscardsOnlyForTheStopped ==
  [][\A e \in Entries : Discard(e) => ~Receiving(e.to)]_engineVars

(* Every trigger returns, whatever the transitions it runs send and restore, *)
(* unless it waits for a socket in select(), and then all is dispatched.     *)
TriggerReturns == phase = "flush" ~> phase # "flush" \/ (blocked /\ S!FlushDone)

(* Once the system agent has terminated, the system stops and can be        *)
(* created anew, unless trigger(true) comes to wait for a socket before it    *)
(* releases who terminated (lines 787-807).                                  *)
SystemStops == SystemPid \in ReleaseQueue ~> ~SystemRunning \/ blocked

=============================================================================
