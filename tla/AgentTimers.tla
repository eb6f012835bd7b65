----------------------------- MODULE AgentTimers -----------------------------
(***************************************************************************)
(* The timers in the hands of the agents: who may create one and when, who   *)
(* may start and stop it, who receives its signal, and what is left of it    *)
(* when its owner terminates.  It composes Timers with Agents, each in full. *)
(*                                                                          *)
(* timer() asks one flag for all agents (line 273), whoever calls it, from   *)
(* wherever: scripts that fail to load leave it set, so that a transition or *)
(* a procedure may create a timer, too.  Timer signals are not saved here.   *)
(***************************************************************************)
EXTENDS Agents, Timers, SequencesExt

VARIABLES
  loading,           \* agents whose script runs, before its start transition
  CanCreateTimers,
  owner,             \* the field of a timer, 0 if it was not created
  timersOf           \* moonagents_.timers of each agent

ownership == <<loading, CanCreateTimers, owner, timersOf>>
allVars == <<timersVars, agentVars, ownership>>

AgentTimersInit ==
  /\ TimersInit /\ AgentsInit
  /\ loading = {} /\ CanCreateTimers = FALSE
  /\ owner = Zero /\ timersOf = [p \in Pids |-> <<>>]

-----------------------------------------------------------------------------
(* What the dispatcher knows of an owner: its state_ is nil.                *)
OwnersStop == stopping' = {t \in Tids : owner[t] # None /\ state_'[owner[t]] = Nil}

(* Terminate goes through the array of timers with ipairs(), and TimerDelete *)
(* takes each out of it, which moves the last one into its place: the first  *)
(* half is deleted, the rest is not reached.                                *)
Reached(p) == {timersOf[p][i] : i \in 1 .. (Len(timersOf[p]) + 1) \div 2}

Terminated == moonagents_ \ moonagents_'

TerminateTimers ==
  LET gone == UNION {Reached(p) : p \in Terminated}
      without(f) == [t \in Tids |-> IF t \in gone THEN 0 ELSE f[t]]
  IN /\ timers' = timers \ gone /\ armed' = armed \ gone
     /\ status' = [t \in Tids |-> IF t \in gone THEN "inactive" ELSE status[t]]
     /\ exptime' = without(exptime) /\ discard_count' = without(discard_count)
     /\ timersOf' = [p \in Pids |-> IF p \in Terminated THEN <<>> ELSE timersOf[p]]
     /\ OwnersStop
     /\ UNCHANGED <<now, tphase, tnow, NextTid, Tnext, timerSignals, owner>>

WithoutTimers == UNCHANGED <<timersVars, ownership>>

-----------------------------------------------------------------------------
(* Agents come and go.                                                      *)

(* CreateSystem_ up to where the script of the system agent runs.           *)
CreateSystem_ ==
  /\ CreateSystem /\ InitTimers
  /\ loading' = {NextPid} /\ CanCreateTimers' = TRUE
  /\ UNCHANGED <<owner, timersOf>>

(* NewAgent: `if not caller_' (line 467) asks the new agent, not its creator. *)
NewAgent ==
  /\ \/ Create /\ loading' = loading \cup {NextPid}
     \/ CreateUncompiled /\ UNCHANGED loading
  /\ CanCreateTimers' = TRUE
  /\ UNCHANGED <<timersVars, owner, timersOf>>

NewProcedure ==
  /\ Procedure
  /\ loading' = loading \cup {NextPid}
  /\ UNCHANGED <<timersVars, CanCreateTimers, owner, timersOf>>

(* The script is executed, its start transition begins.                     *)
ScriptDone ==
  /\ InScript("start") /\ self_ \in loading
  /\ loading' = loading \ {self_} /\ CanCreateTimers' = FALSE
  /\ UNCHANGED <<timersVars, agentVars, owner, timersOf>>

(* The timer of a procedure is its own, but TimerDelete asks for one of its  *)
(* original caller (line 298), an error in the midst of Terminate: it is one *)
(* that Raise stands for.                                                    *)
TimersCanBeDeleted == \A p \in Terminated : caller_[p] # None => timersOf[p] = <<>>

Stopped ==
  /\ Stop \/ AtReturnDone \/ (StartFails /\ self_ \notin loading)
  /\ TimersCanBeDeleted
  /\ TerminateTimers
  /\ UNCHANGED <<loading, CanCreateTimers>>

(* The script of the system agent may fail while it is loaded, too.         *)
Other ==
  /\ \/ StartReturn /\ self_ \notin loading
     \/ SystemStartFails
     \/ CreateDuplicate
     \/ \E s \in States : NextState(s)
     \/ ProcedureReturn
     \/ \E pid \in Pids : RemoteCall(pid)
     \/ RemoteReturn \/ TransitionReturn \/ Raise
  /\ WithoutTimers

-----------------------------------------------------------------------------
(* What scripts do with timers.                                             *)

OwnedBy(pid) ==
  /\ owner' = [owner EXCEPT ![NextTid] = pid]
  /\ stopping' = IF state_[pid] = Nil THEN stopping \cup {NextTid} ELSE stopping

TimerUnlisted ==  \* a wrong variant: the agent does not learn of its timer
  /\ Running /\ CanCreateTimers
  /\ Timers_create /\ OwnedBy(self_)
  /\ UNCHANGED <<agentVars, loading, CanCreateTimers, timersOf>>

Timer ==
  /\ Running /\ CanCreateTimers
  /\ Timers_create /\ OwnedBy(self_)
  /\ timersOf' = [timersOf EXCEPT ![self_] = Append(@, NextTid)]
  /\ UNCHANGED <<agentVars, loading, CanCreateTimers>>

(* timers_check_owner(tid, caller_ or self_)                                *)
CheckOwner(t) == Running /\ t \in timers /\ owner[t] = OriginalCaller(self_)

TimerStart(t, at) ==
  /\ CheckOwner(t) /\ Timers_start(t, at)
  /\ UNCHANGED <<agentVars, ownership>>

TimerStop(t) ==
  /\ CheckOwner(t) /\ Timers_stop(t)
  /\ UNCHANGED <<agentVars, ownership>>

(* Both timers_set_duration() and timers_set_signame() stop the timer; when  *)
(* both are called, the second finds it inactive.                            *)
TimerModify(t) ==
  /\ CheckOwner(t)
  /\ SetDuration(t) \/ SetSigname(t)
  /\ UNCHANGED <<agentVars, ownership>>

-----------------------------------------------------------------------------
(* Trigger                                                                  *)

StartTrigger ==
  /\ BeginTrigger /\ BeginExpiries
  /\ UNCHANGED ownership

Expiries ==
  /\ EndExpiries \/ \E t \in Tids : Expire(t)
  /\ UNCHANGED <<agentVars, ownership>>

(* Any other signal.                                                        *)
DispatchSignal(pid) ==
  /\ tphase = "flush" /\ Dispatch(pid)
  /\ WithoutTimers

DispatchToOwner(t) == Dispatch(owner[t])

(* The signal of a timer: it may be discarded because its owner is gone or   *)
(* is stopping, or because the timer was stopped, or after that because the  *)
(* procedure it is redirected to is stopping.                               *)
DispatchTimer(t) ==
  /\ phase = "flush" /\ frames = <<>>
  /\ Receive(t)
  /\ IF Receiving(owner[t]) /\ ~IsDiscarded(t) /\ Receiving(Destination(owner[t]))
     THEN DispatchToOwner(t) ELSE UNCHANGED agentVars
  /\ UNCHANGED ownership

(* Release, and ResetSystem when the system agent is released.              *)
FinishTrigger ==
  /\ EndTrigger /\ EndFlush
  /\ SystemPid \notin ReleaseQueue
  /\ UNCHANGED ownership

ClearTimers ==
  /\ tphase' = "off"
  /\ timers' = {} /\ armed' = {} /\ stopping' = {}
  /\ status' = [t \in Tids |-> "inactive"] /\ exptime' = Zero /\ discard_count' = Zero
  /\ inflight' = Zero /\ stale' = Zero
  /\ loading' = {} /\ owner' = Zero /\ timersOf' = [p \in Pids |-> <<>>]
  /\ UNCHANGED <<now, tnow, NextTid, Tnext>>

(* The CanCreateTimers of line 105 is not the one of line 270.              *)
SystemStops ==
  /\ EndTrigger /\ SystemPid \in ReleaseQueue
  /\ tphase = "flush" /\ inflight = Zero
  /\ ClearTimers /\ UNCHANGED CanCreateTimers

ResetSystem ==
  /\ Reset /\ ClearTimers
  /\ UNCHANGED CanCreateTimers

Passes == Tick /\ UNCHANGED <<agentVars, ownership>>

-----------------------------------------------------------------------------
AgentTimersNext ==
  \/ CreateSystem_ \/ NewAgent \/ NewProcedure \/ ScriptDone \/ Stopped \/ Other
  \/ Timer
  \/ \E t \in Tids, at \in Times : TimerStart(t, at)
  \/ \E t \in Tids : TimerStop(t) \/ TimerModify(t) \/ DispatchTimer(t)
  \/ StartTrigger \/ Expiries
  \/ \E pid \in Pids : DispatchSignal(pid)
  \/ FinishTrigger \/ SystemStops \/ ResetSystem \/ Passes

AgentTimersSpec == AgentTimersInit /\ [][AgentTimersNext]_allVars

-----------------------------------------------------------------------------
(* The array of an agent holds exactly the timers that it owns, until it      *)
(* terminates (Timer, 272; TimerDelete, 301).                               *)
TimersOfTheLiving ==
  \A p \in Pids :
    IF p \in moonagents_
    THEN /\ ToSet(timersOf[p]) = {t \in timers : owner[t] = p}
         /\ IsInjective(timersOf[p])
    ELSE timersOf[p] = <<>>

(* Who receives the signal of a timer can manage the timer: it is the owner  *)
(* or a procedure that acts on its behalf, which have not terminated, and the *)
(* timer exists; a procedure that could create one (line 274 knows self_      *)
(* only) is never sent its signal.  Nor does timers_discard() meet an unknown *)
(* timer, an error that would stop Trigger (timers.c:293), although those     *)
(* that are left behind by their owners do send signals.                     *)
ReceiverManagesTheTimer ==
  [][\A t \in Tids : DispatchTimer(t) =>
       /\ t \in stopping \/ t \in timers
       /\ frames' # frames =>
            t \in timers /\ {owner[t], self_'} \subseteq moonagents_
            /\ OriginalCaller(self_') = owner[t]]_allVars

=============================================================================
