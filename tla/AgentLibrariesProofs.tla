------------------------- MODULE AgentLibrariesProofs -------------------------
(***************************************************************************)
(* Proofs about the libraries in the hands of agents.  AgentTimers: they are  *)
(* the timers of timers.c and the agents of Agents, the arrays of timers are  *)
(* exact, procedures start no timers of their own, and a timeout goes to who  *)
(* manages the timer, for any number of agents and timers and any depth of   *)
(* calls.                                                                   *)
(* Sockets: the sets of array.lua stay sets, with the right indices, for any  *)
(* sockets and any insertions and removals; callbacks run in the _ENV of who  *)
(* added the socket.                                                        *)
(***************************************************************************)
EXTENDS AgentTimers, Sockets, AgentsProofs, TimersProofs

(* What agents own.                                                          *)
OwnersType ==
  /\ owner \in [Tids -> 0 .. MaxPid]
  /\ timersOf \in [Pids -> Seq(Tids)]
  /\ loading \subseteq Pids

(* Every step is one of the agents, or leaves them alone.                    *)
LEMMA AgentTimersStepIsAgentsStep ==
  OwnersType /\ [AgentTimersNext]_allVars => [AgentsNext]_agentVars
<1> SUFFICES ASSUME OwnersType, [AgentTimersNext]_allVars PROVE [AgentsNext]_agentVars
  OBVIOUS
<1>1. CASE CreateSystem_ \/ NewAgent \/ NewProcedure \/ Stopped
  BY <1>1 DEF CreateSystem_, NewAgent, NewProcedure, Stopped, AgentsNext
<1>2. CASE Other
  BY <1>2 DEF Other, AgentsNext
<1>3. CASE ScriptDone \/ Timer \/ Expiries \/ Passes
  BY <1>3 DEF ScriptDone, Timer, Expiries, Passes
<1>4. ASSUME NEW t \in Tids, NEW at \in Times, TimerStart(t, at) PROVE UNCHANGED agentVars
  BY <1>4 DEF TimerStart
<1>5. ASSUME NEW t \in Tids, TimerStop(t) \/ TimerModify(t) PROVE UNCHANGED agentVars
  BY <1>5 DEF TimerStop, TimerModify
<1>6. ASSUME NEW t \in Tids, DispatchTimer(t) PROVE AgentsNext \/ UNCHANGED agentVars
  <2>1. Receiving(owner[t]) => owner[t] \in Pids
    BY BoundsAssumption DEF Receiving, App, Pids, OwnersType
  <2>2. Dispatch(owner[t]) \/ UNCHANGED agentVars
    BY <1>6 DEF DispatchTimer, DispatchToOwner
  <2>3. Dispatch(owner[t]) => Receiving(owner[t])
    BY DEF Dispatch
  <2> QED
    BY <2>1, <2>2, <2>3 DEF AgentsNext
<1>7. CASE StartTrigger \/ FinishTrigger \/ SystemStops \/ ResetSystem
  BY <1>7 DEF StartTrigger, FinishTrigger, SystemStops, ResetSystem, AgentsNext
<1>8. ASSUME NEW pid \in Pids, DispatchSignal(pid) PROVE AgentsNext
  BY <1>8 DEF DispatchSignal, AgentsNext
<1>9. CASE UNCHANGED allVars
  BY <1>9 DEF allVars
<1> QED
  BY <1>1, <1>2, <1>3, <1>4, <1>5, <1>6, <1>7, <1>8, <1>9 DEF AgentTimersNext

-----------------------------------------------------------------------------
(* The steps that make or end no agent and no timer.                         *)
CalmAgents ==
  /\ moonagents_' = moonagents_ /\ NextPid' \in {NextPid, NextPid + 1}
  /\ \A p \in Pids : state_'[p] = Nil <=> state_[p] = Nil
  /\ \A p \in moonagents_ : caller_'[p] = caller_[p]

CalmTimers ==
  /\ UNCHANGED <<owner, timersOf, timers, stopping, NextTid>>
  /\ tphase = "off" <=> tphase' = "off"

(* Scripts that run, call and return.                                        *)
LEMMA CalmCalls ==
  ASSUME AgentsInv,
         \/ UNCHANGED agentVars \/ CreateDuplicate \/ ProcedureReturn \/ Raise
         \/ StartReturn \/ SystemStartFails \/ RemoteReturn \/ TransitionReturn \/ BeginTrigger
         \/ \E pid \in Pids : RemoteCall(pid) \/ Dispatch(pid)
  PROVE  CalmAgents
  BY DEF CalmAgents, agentVars, tree, CreateDuplicate, ProcedureReturn, Raise, StartReturn,
         SystemStartFails, RemoteReturn, TransitionReturn, BeginTrigger, RemoteCall, Dispatch

LEMMA CalmStates ==
  ASSUME AgentsInv, NEW s \in States, NextState(s)
  PROVE  CalmAgents
<1>1. /\ self_ \in Pids /\ state_[self_] # Nil /\ state_' = [state_ EXCEPT ![self_] = s]
      /\ UNCHANGED <<NextPid, tree>> /\ s # Nil
  BY RunningFrames, StatesAssumption DEF NextState
<1>2. \A p \in Pids : state_'[p] = Nil <=> state_[p] = Nil
  BY <1>1 DEF AgentsInv, TablesType
<1> QED
  BY <1>1, <1>2 DEF CalmAgents, tree

(* Release touches the entries of who has terminated.                        *)
LEMMA CalmRelease ==
  ASSUME AgentsInv, ReleaseEntries
  PROVE  CalmAgents
  BY DEF AgentsInv, TablesType, EntriesInv, ReleaseEntries, CalmAgents

(* The steps of Trigger and the calls of scripts that are calm.              *)
LEMMA CalmSteps ==
  ASSUME AgentsInv, OwnersType,
         \/ UNCHANGED allVars \/ ScriptDone \/ Other \/ StartTrigger \/ Expiries \/ FinishTrigger
         \/ Passes
         \/ \E t \in Tids, at \in Times : TimerStart(t, at)
         \/ \E t \in Tids : TimerStop(t) \/ TimerModify(t) \/ DispatchTimer(t)
         \/ \E pid \in Pids : DispatchSignal(pid)
  PROVE  CalmAgents /\ CalmTimers
<1>1. CASE ScriptDone \/ Passes \/ Expiries \/ UNCHANGED allVars
  BY <1>1, CalmCalls
  DEF ScriptDone, Passes, Expiries, allVars, timersVars, timerState, timerSignals, Tick, Expire, EndExpiries,
      ownership, CalmTimers
<1>2. CASE Other
  <2>1. CalmTimers
    BY <1>2 DEF Other, WithoutTimers, timersVars, timerState, ownership, CalmTimers
  <2> QED
    BY <1>2, <2>1, CalmCalls, CalmStates DEF Other
<1>3. CASE StartTrigger
  BY <1>3, CalmCalls DEF StartTrigger, BeginExpiries, timerState, ownership, CalmTimers
<1>4. CASE FinishTrigger
  BY <1>4, CalmRelease
  DEF FinishTrigger, EndTrigger, EndFlush, Release, timerState, ownership, CalmTimers
<1>5. ASSUME NEW t \in Tids, NEW at \in Times, TimerStart(t, at) PROVE CalmAgents /\ CalmTimers
  BY <1>5, CalmCalls DEF TimerStart, Timers_start, ownership, CalmTimers
<1>6. ASSUME NEW t \in Tids, TimerStop(t) \/ TimerModify(t) PROVE CalmAgents /\ CalmTimers
  BY <1>6, CalmCalls
  DEF TimerStop, TimerModify, SetDuration, SetSigname, Timers_stop, ownership, CalmTimers
<1>7. ASSUME NEW t \in Tids, DispatchTimer(t) PROVE CalmAgents /\ CalmTimers
  <2>1. Dispatch(owner[t]) => owner[t] \in Pids
    BY BoundsAssumption DEF Dispatch, Receiving, App, Pids, OwnersType
  <2>2. CalmAgents
    BY <1>7, <2>1, CalmCalls DEF DispatchTimer, DispatchToOwner
  <2> QED
    BY <1>7, <2>2 DEF DispatchTimer, Receive, ownership, CalmTimers
<1>8. ASSUME NEW pid \in Pids, DispatchSignal(pid) PROVE CalmAgents /\ CalmTimers
  BY <1>8, CalmCalls DEF DispatchSignal, WithoutTimers, timersVars, timerState, ownership, CalmTimers
<1> QED
  BY <1>1, <1>2, <1>3, <1>4, <1>5, <1>6, <1>7, <1>8

-----------------------------------------------------------------------------
(* Whom a timer belongs to, and when its owner is stopping.                  *)
Owned ==
  /\ \A t \in Tids : owner[t] # None => owner[t] < NextPid /\ t < NextTid /\ tphase # "off"
  /\ \A t \in timers : owner[t] # None

StoppingExactly == stopping = {t \in Tids : owner[t] # None /\ state_[owner[t]] = Nil}

DeadStop == \A p \in Pids \ moonagents_ : state_[p] = Nil

OwnersInv == Owned /\ StoppingExactly /\ DeadStop /\ TimersOfTheLiving

TimersInUse == timers \subseteq Tids

LEMMA UsedTids == ASSUME TimersInv PROVE TimersInUse
<1>1. timers \subseteq 1 .. NextTid - 1 /\ NextTid \in 1 .. MaxTid + 1
  BY DEF TimersInv, TimersTypeOK
<1> QED
  BY <1>1, TimersAssumption DEF TimersInUse, Tids

(* An owner is an agent.                                                     *)
LEMMA OwnerIsAgent ==
  ASSUME OwnersType, NEW t \in Tids, owner[t] # None
  PROVE  owner[t] \in Pids
  BY BoundsAssumption DEF OwnersType, None, Pids

(* Calm steps change nothing of this.                                        *)
LEMMA CalmOwners ==
  ASSUME AgentsInv, TimersInUse, OwnersType, OwnersInv, CalmAgents, CalmTimers
  PROVE  OwnersInv'
<1>1. NextPid \in Nat /\ NextPid' \in Nat /\ NextPid <= NextPid'
  BY BoundsAssumption DEF AgentsInv, TablesType, CalmAgents
<1>2. Owned'
  BY <1>1, OwnerIsAgent DEF OwnersInv, Owned, CalmAgents, CalmTimers, Pids
<1>3. StoppingExactly'
  BY OwnerIsAgent DEF OwnersInv, StoppingExactly, CalmAgents, CalmTimers
<1>4. DeadStop'
  BY DEF OwnersInv, DeadStop, CalmAgents
<1>5. TimersOfTheLiving'
  BY DEF OwnersInv, TimersOfTheLiving, CalmAgents, CalmTimers
<1> QED
  BY <1>2, <1>3, <1>4, <1>5 DEF OwnersInv

(* An agent that is born has no timers.                                      *)
LEMMA BornOwners ==
  ASSUME AgentsInv, TimersInUse, OwnersType, OwnersInv,
         NEW parent, NEW original, NEW state, Born(NextPid, parent, original, state),
         UNCHANGED <<timers, stopping, owner, timersOf>>,
         \/ UNCHANGED <<tphase, NextTid>>
         \/ tphase = "off"
  PROVE  OwnersInv'
<1>1. /\ NextPid \in Pids /\ NextPid \notin moonagents_ /\ moonagents_' = moonagents_ \cup {NextPid}
      /\ NextPid' = NextPid + 1
      /\ \A p \in Pids \ {NextPid} : state_'[p] = state_[p] /\ caller_'[p] = caller_[p]
      /\ moonagents_ \subseteq Pids
  BY DEF Born, AgentsInv, TablesType, EntriesInv, NothingLeaks, App, Pids
<1>2. \A t \in Tids : owner[t] # None => owner[t] \in Pids /\ owner[t] # NextPid
  BY <1>1, OwnerIsAgent DEF OwnersInv, Owned, Pids
<1>3. Owned'
  BY <1>1, <1>2 DEF OwnersInv, Owned, Pids
<1>4. StoppingExactly'
  BY <1>1, <1>2 DEF OwnersInv, StoppingExactly
<1>5. DeadStop'
  BY <1>1 DEF OwnersInv, DeadStop
<1>6. TimersOfTheLiving'
  <2>1. \A t \in timers : owner[t] # NextPid
    BY <1>1, <1>2 DEF TimersInUse, OwnersInv, Owned, None, Pids
  <2>2. timersOf[NextPid] = <<>>
    BY <1>1 DEF OwnersInv, TimersOfTheLiving
  <2>3. ToSet(timersOf[NextPid]) = {} /\ IsInjective(timersOf[NextPid])
    BY <2>2 DEF ToSet, IsInjective
  <2> QED
    BY <1>1, <2>1, <2>3 DEF OwnersInv, TimersOfTheLiving
<1> QED
  BY <1>3, <1>4, <1>5, <1>6 DEF OwnersInv

LEMMA BirthOwners ==
  ASSUME AgentsInv, TimersInUse, OwnersType, OwnersInv, CreateSystem_ \/ NewAgent \/ NewProcedure
  PROVE  OwnersInv'
<1>1. CASE CreateSystem_
  BY <1>1, BornOwners DEF CreateSystem_, CreateSystem, InitTimers
<1>2. CASE NewAgent
  BY <1>2, BornOwners DEF NewAgent, Create, CreateUncompiled, timersVars, timerState
<1>3. CASE NewProcedure
  BY <1>3, BornOwners DEF NewProcedure, Procedure, timersVars, timerState
<1> QED
  BY <1>1, <1>2, <1>3

(* A new timer is the last one in the array of the agent whose script makes   *)
(* it.                                                                      *)
LEMMA TimerOwners ==
  ASSUME AgentsInv, TimersInv, OwnersType, OwnersInv, Timer
  PROVE  OwnersInv'
<1> DEFINE q == timersOf[self_]
<1>1. /\ self_ \in Pids /\ self_ \in moonagents_ /\ self_ < NextPid
      /\ UNCHANGED <<NextPid, moonagents_, state_, caller_>>
  BY RunningFrames DEF Timer, Running, agentVars, tree
<1>2. /\ NextTid \in Tids /\ NextTid \notin timers /\ NextTid' = NextTid + 1
      /\ timers' = timers \cup {NextTid} /\ tphase' = tphase /\ tphase # "off"
      /\ stopping' = IF state_[self_] = Nil THEN stopping \cup {NextTid} ELSE stopping
      /\ owner' = [owner EXCEPT ![NextTid] = self_]
      /\ timersOf' = [timersOf EXCEPT ![self_] = Append(q, NextTid)]
  BY DEF Timer, Timers_create, OwnedBy, Scripts, TimersInv, TimersTypeOK, Tids
<1>3. \A t \in Tids \ {NextTid} : owner'[t] = owner[t]
  BY <1>2 DEF OwnersType
<1>4. owner'[NextTid] = self_ /\ owner[NextTid] = None /\ self_ # None
  <2>1. ~(NextTid < NextTid)
    BY <1>2 DEF Tids
  <2> QED
    BY <1>1, <1>2, <2>1 DEF OwnersType, OwnersInv, Owned, None, Pids
<1>5. TimersInUse
  BY UsedTids
<1>6. Owned'
  BY <1>1, <1>2, <1>3, <1>4, <1>5 DEF OwnersInv, Owned, TimersInUse, Tids
<1>7. StoppingExactly'
  BY <1>1, <1>2, <1>3, <1>4 DEF OwnersInv, StoppingExactly
<1>8. DeadStop'
  BY <1>1 DEF OwnersInv, DeadStop
<1>9. TimersOfTheLiving'
  <2>1. q \in Seq(Tids) /\ ToSet(q) = {t \in timers : owner[t] = self_} /\ IsInjective(q)
    BY <1>1 DEF OwnersType, OwnersInv, TimersOfTheLiving
  <2>2. Len(q) \in Nat /\ \A i \in 1 .. Len(q) : q[i] \in ToSet(q) /\ q[i] # NextTid
    BY <1>2, <2>1, LenProperties DEF ToSet
  <2>3. /\ timersOf'[self_] = Append(q, NextTid)
        /\ Len(timersOf'[self_]) = Len(q) + 1 /\ DOMAIN timersOf'[self_] = 1 .. Len(q) + 1
        /\ timersOf'[self_][Len(q) + 1] = NextTid
        /\ \A i \in 1 .. Len(q) : timersOf'[self_][i] = q[i]
    BY <1>1, <1>2, <2>1, AppendProperties DEF OwnersType
  <2>4. ToSet(timersOf'[self_]) = ToSet(q) \cup {NextTid}
    <3> HIDE DEF q
    <3>1. \A t : (\E i \in 1 .. Len(q) + 1 : t = timersOf'[self_][i])
                 <=> t = NextTid \/ \E i \in 1 .. Len(q) : t = q[i]
      BY <2>2, <2>3
    <3>2. DOMAIN q = 1 .. Len(q)
      BY <2>1, LenProperties
    <3> QED
      BY <2>3, <3>1, <3>2 DEF ToSet
  <2>5. IsInjective(timersOf'[self_])
    <3> HIDE DEF q
    <3>1. DOMAIN q = 1 .. Len(q)
      BY <2>1, LenProperties
    <3> QED
      BY <2>1, <2>2, <2>3, <3>1 DEF IsInjective
  <2>6. ToSet(timersOf'[self_]) = {t \in timers' : owner'[t] = self_}
    BY <1>2, <1>3, <1>4, <1>5, <2>1, <2>4 DEF TimersInUse
  <2>7. \A p \in Pids \ {self_} :
          /\ timersOf'[p] = timersOf[p]
          /\ {t \in timers' : owner'[t] = p} = {t \in timers : owner[t] = p}
    BY <1>2, <1>3, <1>4, <1>5 DEF OwnersType, TimersInUse
  <2> QED
    BY <1>1, <2>5, <2>6, <2>7 DEF OwnersInv, TimersOfTheLiving
<1> QED
  BY <1>6, <1>7, <1>8, <1>9 DEF OwnersInv

(* After a reset there is nothing.                                           *)
LEMMA ClearingOwners == ASSUME SystemStops \/ ResetSystem PROVE OwnersInv'
<1>1. Cleared /\ ClearTimers
  BY DEF SystemStops, ResetSystem, EndTrigger, Release, Reset
<1>2. /\ moonagents_' = {} /\ timers' = {} /\ stopping' = {} /\ owner' = Zero
      /\ state_' = [p \in Pids |-> Nil] /\ timersOf' = [p \in Pids |-> <<>>]
  BY <1>1 DEF Cleared, ClearTimers
<1>3. \A t \in Tids : owner'[t] = None
  BY <1>2 DEF Zero, None
<1> QED
  BY <1>2, <1>3 DEF OwnersInv, Owned, StoppingExactly, DeadStop, TimersOfTheLiving

-----------------------------------------------------------------------------
(* What agents keep, and lose, when some of them stop.                       *)
LEMMA StoppedAgents ==
  ASSUME AgentsInv, Stop \/ AtReturnDone \/ StartFails
  PROVE  /\ moonagents_' \subseteq moonagents_ /\ NextPid' = NextPid /\ caller_' = caller_
         /\ \A p \in Pids : state_'[p] \in {state_[p], Nil}
         /\ \A p \in moonagents_ \ moonagents_' : state_'[p] = Nil
         /\ moonagents_ \subseteq Pids
<1>1. NextPid' = NextPid /\ moonagents_ \subseteq Pids /\ state_ \in [Pids -> States \cup {Startup, Nil}]
  BY DEF Stop, AtReturnDone, StartFails, AgentsInv, TablesType
<1>2. UNCHANGED <<tree, state_>> \/ \E p : Stopping(p)
  BY DEF Stop, AtReturnDone, StartFails
<1>3. CASE UNCHANGED <<tree, state_>>
  BY <1>1, <1>3 DEF tree
<1>4. ASSUME NEW p, Stopping(p)
      PROVE  /\ moonagents_' \subseteq moonagents_ /\ caller_' = caller_
             /\ \A q \in Pids : state_'[q] \in {state_[q], Nil}
             /\ \A q \in moonagents_ \ moonagents_' : state_'[q] = Nil
  <2>1. \A q \in Pids : state_'[q] = IF q = p THEN Nil ELSE state_[q]
    BY <1>1, <1>4 DEF Stopping
  <2>2. CASE children[p] = {}
    <3>1. PICK T \in SUBSET Pids : IsCascade(p, T) /\ Terminate(T)
      BY <1>4, <2>2 DEF Stopping
    <3> QED
      BY <2>1, <3>1 DEF IsCascade, Terminate
  <2>3. CASE children[p] # {}
    BY <1>4, <2>1, <2>3 DEF Stopping, tree
  <2> QED
    BY <2>2, <2>3
<1> QED
  BY <1>1, <1>2, <1>3, <1>4

(* The timers that are deleted with their owners.                            *)
Gone == UNION {Reached(p) : p \in Terminated}

LEMMA GoneTimers ==
  ASSUME OwnersType, OwnersInv, moonagents_ \subseteq Pids
  PROVE  \A t \in Gone : t \in timers /\ owner[t] \in Terminated
<1> SUFFICES ASSUME NEW p \in Terminated, NEW t \in Reached(p)
             PROVE  t \in timers /\ owner[t] = p
  BY DEF Gone
<1>1. p \in moonagents_ /\ p \in Pids
  BY DEF Terminated
<1>2. timersOf[p] \in Seq(Tids) /\ ToSet(timersOf[p]) = {u \in timers : owner[u] = p}
  BY <1>1 DEF OwnersType, OwnersInv, TimersOfTheLiving
<1>3. PICK i \in 1 .. (Len(timersOf[p]) + 1) \div 2 : t = timersOf[p][i]
  BY DEF Reached
<1>4. Len(timersOf[p]) \in Nat /\ DOMAIN timersOf[p] = 1 .. Len(timersOf[p])
  BY <1>2, LenProperties
<1>5. i \in 1 .. Len(timersOf[p])
  <2> DEFINE n == Len(timersOf[p])
  <2>1. n \in Nat /\ i \in 1 .. (n + 1) \div 2
    BY <1>4
  <2> HIDE DEF n
  <2>2. i \in 1 .. n
    BY <2>1
  <2> QED
    BY <2>2 DEF n
<1>6. t \in ToSet(timersOf[p])
  BY <1>3, <1>4, <1>5 DEF ToSet
<1> QED
  BY <1>2, <1>6

(* The timers that are left behind belong to nobody who lives.               *)
LEMMA StoppedOwners ==
  ASSUME AgentsInv, TimersInUse, OwnersType, OwnersInv, Stopped
  PROVE  OwnersInv'
<1>1. /\ moonagents_' \subseteq moonagents_ /\ NextPid' = NextPid /\ caller_' = caller_
      /\ \A p \in Pids : state_'[p] \in {state_[p], Nil}
      /\ \A p \in moonagents_ \ moonagents_' : state_'[p] = Nil
      /\ moonagents_ \subseteq Pids
  BY StoppedAgents DEF Stopped
<1>2. /\ timers' = timers \ Gone /\ owner' = owner /\ NextTid' = NextTid /\ tphase' = tphase
      /\ timersOf' = [p \in Pids |-> IF p \in Terminated THEN <<>> ELSE timersOf[p]]
      /\ stopping' = {t \in Tids : owner[t] # None /\ state_'[owner[t]] = Nil}
  BY DEF Stopped, TerminateTimers, OwnersStop, Gone
<1>3. \A t \in Gone : t \in timers /\ owner[t] \in Terminated
  BY <1>1, GoneTimers
<1>4. Owned' /\ StoppingExactly'
  BY <1>1, <1>2 DEF OwnersInv, Owned, StoppingExactly
<1>5. DeadStop'
  BY <1>1 DEF OwnersInv, DeadStop
<1>6. TimersOfTheLiving'
  BY <1>1, <1>2, <1>3 DEF OwnersInv, TimersOfTheLiving, Terminated
<1> QED
  BY <1>4, <1>5, <1>6 DEF OwnersInv

-----------------------------------------------------------------------------
(* The timers of agents are those of timers.c, except that many go at once.  *)
LEMMA AgentTimersStepIsTimersStep ==
  [AgentTimersNext]_allVars =>
    [TimersNext]_timersVars \/ Stopped \/ SystemStops \/ ResetSystem
<1> SUFFICES ASSUME [AgentTimersNext]_allVars, ~Stopped, ~SystemStops, ~ResetSystem
             PROVE  [TimersNext]_timersVars
  OBVIOUS
<1>1. CASE CreateSystem_ \/ NewAgent \/ NewProcedure \/ ScriptDone
  BY <1>1 DEF CreateSystem_, NewAgent, NewProcedure, ScriptDone, TimersNext
<1>2. CASE Other
  BY <1>2 DEF Other, WithoutTimers
<1>3. CASE Timer \/ StartTrigger \/ Expiries \/ FinishTrigger \/ Passes
  BY <1>3 DEF Timer, StartTrigger, Expiries, FinishTrigger, Passes, TimersNext
<1>4. ASSUME NEW t \in Tids, NEW at \in Times, TimerStart(t, at) PROVE TimersNext
  BY <1>4 DEF TimerStart, TimersNext
<1>5. ASSUME NEW t \in Tids, TimerStop(t) \/ TimerModify(t) \/ DispatchTimer(t) PROVE TimersNext
  BY <1>5 DEF TimerStop, TimerModify, SetDuration, SetSigname, DispatchTimer, TimersNext
<1>6. ASSUME NEW pid \in Pids, DispatchSignal(pid) PROVE UNCHANGED timersVars
  BY <1>6 DEF DispatchSignal, WithoutTimers
<1>7. CASE UNCHANGED allVars
  BY <1>7 DEF allVars
<1> QED
  BY <1>1, <1>2, <1>3, <1>4, <1>5, <1>6, <1>7 DEF AgentTimersNext

(* When agents terminate, the timers that are deleted are those of agents    *)
(* that stop, so that a signal they have sent reaches nobody.                *)
LEMMA StoppedTimers ==
  ASSUME AgentsInv, TimersInv, NoExpiryMissed, OwnersType, OwnersInv, Stopped
  PROVE  TimersInv' /\ NoExpiryMissed'
<1>1. /\ \A p \in Pids : state_'[p] \in {state_[p], Nil}
      /\ \A p \in Terminated : state_'[p] = Nil
      /\ moonagents_ \subseteq Pids
  BY StoppedAgents DEF Stopped, Terminated
<1>2. /\ timers' = timers \ Gone /\ armed' = armed \ Gone
      /\ status' = [t \in Tids |-> IF t \in Gone THEN "inactive" ELSE status[t]]
      /\ exptime' = [t \in Tids |-> IF t \in Gone THEN 0 ELSE exptime[t]]
      /\ discard_count' = [t \in Tids |-> IF t \in Gone THEN 0 ELSE discard_count[t]]
      /\ stopping' = {t \in Tids : owner[t] # None /\ state_'[owner[t]] = Nil}
      /\ UNCHANGED <<now, tphase, tnow, NextTid, Tnext, inflight, stale>>
  BY DEF Stopped, TerminateTimers, OwnersStop, Gone, timerSignals
<1>3. \A t \in Gone : t \in timers /\ owner[t] \in Terminated
  BY <1>1, GoneTimers
<1>4. TimersInUse
  BY UsedTids
<1>5. Gone \subseteq Tids /\ Gone \subseteq timers
  BY <1>3, <1>4 DEF TimersInUse
<1>6. Gone \subseteq stopping' /\ stopping \subseteq stopping' /\ stopping' \subseteq Tids
  BY <1>1, <1>2, <1>3, <1>5, OwnerIsAgent DEF OwnersInv, Owned, StoppingExactly
<1>7. TimersTypeOK'
  <2>1. exptime' \in [Tids -> Times] /\ discard_count' \in [Tids -> Nat]
    BY <1>2, TimersAssumption DEF TimersInv, TimersTypeOK, Times
  <2>2. status' \in [Tids -> {"inactive", "armed", "not_armed"}]
    BY <1>2 DEF TimersInv, TimersTypeOK
  <2>3. timers' \subseteq 1 .. NextTid' - 1 /\ armed' \subseteq Tids
    BY <1>2 DEF TimersInv, TimersTypeOK
  <2> QED
    BY <1>2, <1>6, <2>1, <2>2, <2>3 DEF TimersInv, TimersTypeOK
<1>8. ArmedExactly'
  BY <1>2, <1>4 DEF TimersInv, ArmedExactly, TimersInUse
<1>9. FlushInv'
  BY <1>2 DEF TimersInv, FlushInv
<1>10. UnusedInv'
  BY <1>2, <1>6 DEF TimersInv, UnusedInv
<1>11. CountInv'
  BY <1>2, <1>4, <1>6 DEF TimersInv, CountInv, TimersInUse
<1>12. NoExpiryMissed'
  BY <1>2 DEF NoExpiryMissed, TimersInv, TimersTypeOK
<1> QED
  BY <1>7, <1>8, <1>9, <1>10, <1>11, <1>12 DEF TimersInv

LEMMA ClearedTimers ==
  ASSUME TimersInv, SystemStops \/ ResetSystem
  PROVE  TimersInv' /\ NoExpiryMissed'
<1>1. ClearTimers
  BY DEF SystemStops, ResetSystem
<1>2. TimersTypeOK'
  BY <1>1, TimersAssumption DEF ClearTimers, TimersInv, TimersTypeOK, Zero, Times
<1> QED
  BY <1>1, <1>2
  DEF ClearTimers, Zero, TimersInv, ArmedExactly, FlushInv, UnusedInv, CountInv, NoExpiryMissed

LEMMA TimersOfAgentsNext ==
  ASSUME AgentsInv, TimersInv, NoExpiryMissed, OwnersType, OwnersInv, [AgentTimersNext]_allVars
  PROVE  TimersInv' /\ NoExpiryMissed'
  BY AgentTimersStepIsTimersStep, StoppedTimers, ClearedTimers, TimersNextInv, TnextInv

-----------------------------------------------------------------------------
(* A procedure may create a timer (line 273 asks CanCreateTimers only), which *)
(* is its own; but it can only start one of its original caller (line 282).   *)
ProceduresStartNone ==
  \A t \in Tids : owner[t] \in moonagents_ /\ caller_[owner[t]] # None =>
    t \notin armed /\ inflight[t] = 0

(* An original caller is no procedure.                                      *)
LEMMA OriginalCallers ==
  ASSUME AgentsInv, TreeInv, Callers, NEW p \in moonagents_
  PROVE  OriginalCaller(p) \in Pids => caller_[OriginalCaller(p)] = None
<1> DEFINE Odd == {q \in moonagents_ : caller_[q] # None /\ caller_[caller_[q]] # None}
<1>1. Odd = {}
  <2> SUFFICES ASSUME Odd # {} PROVE FALSE
    OBVIOUS
  <2>1. moonagents_ \subseteq Nat
    BY DEF AgentsInv, TablesType, Pids
  <2>2. PICK q \in Odd : \A x \in Odd : q <= x
    BY <2>1, LeastElement
  <2>3. q \in moonagents_ /\ q \in Nat /\ caller_[q] # None /\ caller_[caller_[q]] # None
    BY <2>1, <2>2
  <2>4. /\ parent_[q] \in moonagents_ /\ parent_[q] \in Nat
        /\ parent_[q] < q /\ caller_[q] = OriginalCaller(parent_[q])
    BY <2>1, <2>3, ParentOfProcedure DEF Callers, ActsForParent
  <2>5. caller_[parent_[q]] # None /\ caller_[parent_[q]] = caller_[q]
    BY <2>3, <2>4 DEF OriginalCaller
  <2>6. parent_[q] \in Odd
    BY <2>3, <2>4, <2>5
  <2> HIDE DEF Odd
  <2> QED
    BY <2>2, <2>3, <2>4, <2>6
<1> QED
  BY <1>1 DEF OriginalCaller

(* No step starts the timer of a procedure, and one that is not started does  *)
(* not expire.                                                              *)
LEMMA ProceduresStartNoneNext ==
  ASSUME AgentsInv, TreeInv, Callers, TimersInv, OwnersType, OwnersInv, ProceduresStartNone,
         [AgentTimersNext]_allVars
  PROVE  ProceduresStartNone'
<1>1. moonagents_ \subseteq Pids /\ moonagents_' \subseteq Pids
  <2>1. AgentsInv'
    BY AgentTimersStepIsAgentsStep, AgentsNextInv
  <2> QED
    BY <2>1 DEF AgentsInv, TablesType
<1>2. TimersInUse
  BY UsedTids
<1>3. ASSUME owner' = owner,
             \A p \in moonagents_' : p \in moonagents_ /\ caller_'[p] = caller_[p],
             \A t \in Tids : (t \in armed' => t \in armed)
                          /\ (inflight'[t] # 0 => inflight[t] # 0 \/ t \in armed)
      PROVE  ProceduresStartNone'
  BY <1>3 DEF ProceduresStartNone
<1>4. ASSUME CalmAgents, CalmTimers, armed' \subseteq armed,
             \A t \in Tids : inflight'[t] # 0 => inflight[t] # 0 \/ t \in armed
      PROVE  ProceduresStartNone'
  BY <1>1, <1>3, <1>4 DEF CalmAgents, CalmTimers
<1>5. CASE CreateSystem_ \/ NewAgent \/ NewProcedure
  <2>1. PICK parent, original, state : Born(NextPid, parent, original, state)
    BY <1>5
    DEF CreateSystem_, CreateSystem, NewAgent, Create, CreateUncompiled, NewProcedure, Procedure
  <2>2. UNCHANGED <<owner, armed, inflight>>
    BY <1>5
    DEF CreateSystem_, InitTimers, NewAgent, NewProcedure, timersVars, timerState, timerSignals
  <2>3. /\ moonagents_' = moonagents_ \cup {NextPid} /\ NextPid \in Pids
        /\ \A p \in Pids \ {NextPid} : caller_'[p] = caller_[p]
    BY <2>1 DEF Born, AgentsInv, TablesType
  <2>4. \A t \in Tids : owner[t] # NextPid
    <3>1. NextPid # None /\ ~(NextPid < NextPid)
      BY <2>3 DEF Pids, None
    <3> QED
      BY <3>1 DEF OwnersInv, Owned
  <2> QED
    BY <1>1, <2>2, <2>3, <2>4 DEF ProceduresStartNone
<1>6. CASE Timer
  <2>1. /\ NextTid \in Tids /\ UNCHANGED <<armed, inflight, moonagents_, caller_>>
        /\ owner' = [owner EXCEPT ![NextTid] = self_]
    BY <1>6 DEF Timer, Timers_create, OwnedBy, timerSignals, agentVars, tree
  <2>2. owner[NextTid] = None /\ NextTid \notin timers
    <3>1. ~(NextTid < NextTid) /\ NextTid \notin 1 .. NextTid - 1
      BY <2>1 DEF Tids
    <3> QED
      BY <2>1, <3>1 DEF OwnersInv, Owned, TimersInv, TimersTypeOK
  <2>3. NextTid \notin armed /\ inflight[NextTid] = 0
    BY <2>1, <2>2 DEF OwnersInv, StoppingExactly, TimersInv, UnusedInv, ArmedExactly
  <2>4. \A t \in Tids \ {NextTid} : owner'[t] = owner[t]
    BY <2>1 DEF OwnersType
  <2> QED
    BY <2>1, <2>3, <2>4 DEF ProceduresStartNone
<1>7. ASSUME NEW t \in Tids, NEW at \in Times, TimerStart(t, at) PROVE ProceduresStartNone'
  <2>1. /\ self_ \in moonagents_ /\ owner[t] = OriginalCaller(self_)
        /\ armed' \subseteq armed \cup {t}
        /\ UNCHANGED <<owner, inflight, moonagents_, caller_>>
    BY <1>7
    DEF TimerStart, CheckOwner, Running, Timers_start, Deactivate, timerSignals, agentVars, tree, ownership
  <2>2. owner[t] \in moonagents_ => caller_[owner[t]] = None
    BY <1>1, <2>1, OriginalCallers
  <2> QED
    BY <2>1, <2>2 DEF ProceduresStartNone
<1>8. CASE ScriptDone \/ Passes \/ Other \/ StartTrigger \/ FinishTrigger \/ UNCHANGED allVars
  <2>1. armed' = armed /\ inflight' = inflight
    BY <1>8 DEF ScriptDone, Passes, Tick, Other, WithoutTimers, StartTrigger, BeginExpiries,
       FinishTrigger, EndFlush, allVars, timersVars, timerState, timerSignals
  <2> QED
    BY <1>4, <1>8, <2>1, CalmSteps
<1>9. CASE Expiries
  <2>1. armed' \subseteq armed /\ \A t \in Tids : inflight'[t] # 0 => inflight[t] # 0 \/ t \in armed
    <3>1. ASSUME NEW t \in Tids, Expire(t)
          PROVE  armed' = armed \ {t} /\ t \in armed /\ \A u \in Tids \ {t} : inflight'[u] = inflight[u]
      BY <3>1 DEF Expire, IsFirst, Deactivate, TimersInv, TimersTypeOK
    <3>2. CASE EndExpiries
      BY <3>2 DEF EndExpiries, timerState, timerSignals
    <3> QED
      BY <1>9, <3>1, <3>2 DEF Expiries
  <2> QED
    BY <1>4, <1>9, <2>1, CalmSteps
<1>10. ASSUME NEW t \in Tids, TimerStop(t) \/ TimerModify(t) PROVE ProceduresStartNone'
  <2>1. armed' \subseteq armed /\ inflight' = inflight
    BY <1>10 DEF TimerStop, TimerModify, SetDuration, SetSigname, Timers_stop, Deactivate
  <2> QED
    BY <1>4, <1>10, <2>1, CalmSteps
<1>11. ASSUME NEW t \in Tids, DispatchTimer(t) PROVE ProceduresStartNone'
  <2>1. inflight[t] > 0 /\ armed' = armed /\ inflight' = [inflight EXCEPT ![t] = @ - 1]
    BY <1>11 DEF DispatchTimer, Receive
  <2>2. \A u \in Tids : inflight'[u] # 0 => inflight[u] # 0
    BY <2>1 DEF TimersInv, TimersTypeOK
  <2> QED
    BY <1>4, <1>11, <2>1, <2>2, CalmSteps
<1>12. ASSUME NEW pid \in Pids, DispatchSignal(pid) PROVE ProceduresStartNone'
  <2>1. armed' = armed /\ inflight' = inflight
    BY <1>12 DEF DispatchSignal, WithoutTimers, timersVars, timerState, timerSignals
  <2> QED
    BY <1>4, <1>12, <2>1, CalmSteps
<1>13. CASE Stopped
  <2>1. /\ armed' \subseteq armed /\ inflight' = inflight /\ owner' = owner
        /\ moonagents_' \subseteq moonagents_ /\ caller_' = caller_
    BY <1>13, StoppedAgents DEF Stopped, TerminateTimers, timerSignals
  <2> QED
    BY <1>3, <2>1
<1>14. CASE SystemStops \/ ResetSystem
  <2>1. moonagents_' = {}
    BY <1>14 DEF SystemStops, ResetSystem, EndTrigger, Release, Reset, Cleared
  <2> QED
    BY <2>1 DEF ProceduresStartNone
<1> QED
  BY <1>5, <1>6, <1>7, <1>8, <1>9, <1>10, <1>11, <1>12, <1>13, <1>14 DEF AgentTimersNext

-----------------------------------------------------------------------------
(* The invariant of all this together.                                       *)
AgentTimersInv ==
  /\ AgentsInv /\ TimersInv /\ NoExpiryMissed
  /\ OwnersType /\ OwnersInv

(* Types: owners are agents, and arrays hold tids.                           *)
LEMMA OwnersTypeNext ==
  ASSUME AgentsInv, TimersInv, OwnersType, [AgentTimersNext]_allVars
  PROVE  OwnersType'
<1>1. CASE UNCHANGED ownership
  BY <1>1 DEF ownership, OwnersType
<1>2. CASE CreateSystem_ \/ NewAgent \/ NewProcedure
  <2>1. NextPid \in Pids
    BY <1>2 DEF CreateSystem_, NewAgent, NewProcedure, CreateSystem, Create, CreateUncompiled,
       Procedure, Born
  <2> QED
    BY <1>2, <2>1 DEF CreateSystem_, NewAgent, NewProcedure, OwnersType
<1>3. CASE ScriptDone
  BY <1>3 DEF ScriptDone, OwnersType
<1>4. CASE Stopped
  <2>1. \A p \in Pids : timersOf'[p] \in {timersOf[p], <<>>}
    BY <1>4 DEF Stopped, TerminateTimers
  <2>2. <<>> \in Seq(Tids)
    BY EmptySeq
  <2>3. timersOf' \in [Pids -> Seq(Tids)]
    BY <1>4, <2>2 DEF Stopped, TerminateTimers, OwnersType
  <2> QED
    BY <1>4, <2>3 DEF Stopped, TerminateTimers, OwnersType
<1>5. CASE Timer
  <2>1. self_ \in Pids /\ self_ \in 0 .. MaxPid /\ NextTid \in Tids
    BY <1>5, RunningFrames DEF Timer, Timers_create, Pids
  <2>2. Append(timersOf[self_], NextTid) \in Seq(Tids)
    BY <2>1, AppendProperties DEF OwnersType
  <2> QED
    BY <1>5, <2>1, <2>2 DEF Timer, OwnedBy, OwnersType
<1>6. CASE SystemStops \/ ResetSystem
  <2>1. owner' = Zero /\ timersOf' = [p \in Pids |-> <<>>] /\ loading' = {}
    BY <1>6 DEF SystemStops, ResetSystem, ClearTimers
  <2>2. <<>> \in Seq(Tids) /\ 0 \in 0 .. MaxPid
    BY EmptySeq, BoundsAssumption
  <2> QED
    BY <2>1, <2>2 DEF OwnersType, Zero
<1>7. CASE Other \/ StartTrigger \/ Expiries \/ FinishTrigger \/ Passes \/ UNCHANGED allVars
  BY <1>1, <1>7 DEF Other, WithoutTimers, StartTrigger, Expiries, FinishTrigger, Passes, allVars
<1>8. ASSUME NEW t \in Tids, NEW at \in Times, TimerStart(t, at) PROVE OwnersType'
  BY <1>1, <1>8 DEF TimerStart
<1>9. ASSUME NEW t \in Tids, TimerStop(t) \/ TimerModify(t) \/ DispatchTimer(t) PROVE OwnersType'
  BY <1>1, <1>9 DEF TimerStop, TimerModify, DispatchTimer
<1>10. ASSUME NEW pid \in Pids, DispatchSignal(pid) PROVE OwnersType'
  BY <1>1, <1>10 DEF DispatchSignal, WithoutTimers
<1> QED
  BY <1>2, <1>3, <1>4, <1>5, <1>6, <1>7, <1>8, <1>9, <1>10 DEF AgentTimersNext

LEMMA OwnersNext ==
  ASSUME AgentsInv, TimersInv, OwnersType, OwnersInv, [AgentTimersNext]_allVars
  PROVE  OwnersInv'
<1>1. TimersInUse
  BY UsedTids
<1>2. CASE Timer
  BY <1>2, TimerOwners
<1>3. CASE CalmAgents /\ CalmTimers
  BY <1>1, <1>3, CalmOwners
<1>4. CASE \/ UNCHANGED allVars \/ ScriptDone \/ Other \/ StartTrigger \/ Expiries \/ FinishTrigger
           \/ Passes
           \/ \E t \in Tids, at \in Times : TimerStart(t, at)
           \/ \E t \in Tids : TimerStop(t) \/ TimerModify(t) \/ DispatchTimer(t)
           \/ \E pid \in Pids : DispatchSignal(pid)
  BY <1>3, <1>4, CalmSteps
<1>5. CASE CreateSystem_ \/ NewAgent \/ NewProcedure
  BY <1>1, <1>5, BirthOwners
<1>6. CASE Stopped
  BY <1>1, <1>6, StoppedOwners
<1>7. CASE SystemStops \/ ResetSystem
  BY <1>7, ClearingOwners
<1> QED
  BY <1>2, <1>4, <1>5, <1>6, <1>7 DEF AgentTimersNext

LEMMA AgentTimersInitInv == AgentTimersInit => AgentTimersInv
<1> SUFFICES ASSUME AgentTimersInit PROVE AgentTimersInv
  OBVIOUS
<1>1. /\ AgentsInit /\ TimersInit /\ CanCreateTimers = FALSE
      /\ owner = Zero /\ timersOf = [p \in Pids |-> <<>>] /\ loading = {}
  BY DEF AgentTimersInit
<1>2. OwnersType
  <2>1. <<>> \in Seq(Tids) /\ 0 \in 0 .. MaxPid
    BY EmptySeq, BoundsAssumption
  <2> QED
    BY <1>1, <2>1 DEF OwnersType, Zero
<1>3. /\ moonagents_ = {} /\ timers = {} /\ stopping = {} /\ armed = {}
      /\ state_ = [p \in Pids |-> Nil] /\ \A t \in Tids : owner[t] = None
  BY <1>1 DEF AgentsInit, TimersInit, Zero, None
<1>4. OwnersInv
  BY <1>1, <1>3
  DEF OwnersInv, Owned, StoppingExactly, DeadStop, TimersOfTheLiving
<1>5. NoExpiryMissed
  BY <1>1, <1>3 DEF NoExpiryMissed
<1> QED
  BY <1>1, <1>2, <1>4, <1>5, AgentsInitInv, TimersInitInv DEF AgentTimersInv

LEMMA AgentTimersNextInv == AgentTimersInv /\ [AgentTimersNext]_allVars => AgentTimersInv'
<1> SUFFICES ASSUME AgentTimersInv, [AgentTimersNext]_allVars PROVE AgentTimersInv'
  OBVIOUS
<1> USE DEF AgentTimersInv
<1>1. AgentsInv'
  BY AgentTimersStepIsAgentsStep, AgentsNextInv
<1>2. TimersInv' /\ NoExpiryMissed'
  BY TimersOfAgentsNext
<1>3. OwnersType' /\ OwnersInv'
  BY OwnersTypeNext, OwnersNext
<1> QED
  BY <1>1, <1>2, <1>3

LEMMA AgentTimersInvariant == AgentTimersSpec => []AgentTimersInv
  BY AgentTimersInitInv, AgentTimersNextInv, PTL DEF AgentTimersSpec

-----------------------------------------------------------------------------
(* All that is proved of Agents holds while its agents have timers: every     *)
(* step of AgentTimers is one of Agents, or leaves the agents alone.          *)
THEOREM AgentTimersImplementsAgents == AgentTimersSpec => AgentsSpec
<1>1. AgentTimersInit => AgentsInit
  BY DEF AgentTimersInit
<1>2. AgentTimersInv => OwnersType
  BY DEF AgentTimersInv
<1> QED
  BY <1>1, <1>2, AgentTimersStepIsAgentsStep, AgentTimersInvariant, PTL DEF AgentTimersSpec, AgentsSpec

(* What is proved of timers.c holds when agents terminate with timers armed,  *)
(* expired or stopped, and when a deletion loop leaves some of them behind    *)
(* (engine.lua:542).                                                        *)
THEOREM TimersOfAgentsAreExact ==
  AgentTimersSpec => [](ArmedExactly /\ NoExpiryMissed /\ OneSignalPerTimer /\ TimeoutIsOnItsWay)
<1>1. AgentTimersInv => ArmedExactly /\ NoExpiryMissed /\ OneSignalPerTimer /\ TimeoutIsOnItsWay
  BY AtMostOneSignal, ExpiredIsOnItsWay DEF AgentTimersInv, TimersInv
<1> QED
  BY <1>1, AgentTimersInvariant, PTL

(* No timeout of an agent that goes on is discarded by mistake (691).         *)
THEOREM NoTimeoutOfAgentsLost == AgentTimersSpec => DiscardsOnlyStopped
<1>1. AgentTimersInv =>
        [\A t \in Tids : Receive(t) /\ t \notin stopping /\ IsDiscarded(t) => stale[t] > 0]_timersVars
  BY DiscardedIsStale DEF AgentTimersInv
<1> QED
  BY <1>1, AgentTimersInvariant, PTL DEF DiscardsOnlyStopped

(* The array of timers of an agent (272, 301) holds what it owns, each timer  *)
(* once, until it terminates.                                                *)
THEOREM ArraysOfTimersAreExact == AgentTimersSpec => []TimersOfTheLiving
<1>1. AgentTimersInv => TimersOfTheLiving
  BY DEF AgentTimersInv, OwnersInv
<1> QED
  BY <1>1, AgentTimersInvariant, PTL

LEMMA ProceduresStartNoneInvariant == AgentTimersSpec => []ProceduresStartNone
<1>1. AgentTimersInit => ProceduresStartNone
  BY DEF AgentTimersInit, AgentsInit, ProceduresStartNone
<1>2. AgentTimersInv /\ TreeInv /\ Callers /\ ProceduresStartNone /\ [AgentTimersNext]_allVars =>
        ProceduresStartNone'
  BY ProceduresStartNoneNext DEF AgentTimersInv
<1> QED
  BY <1>1, <1>2, AgentTimersInvariant, AgentTimersImplementsAgents, TreeInvariant, CallersInvariant, PTL
  DEF AgentTimersSpec

(* A timeout goes to the owner of the timer or to the procedure that acts for *)
(* it, which can manage the timer, and timers_discard() is asked about no     *)
(* timer that is unknown, although some have outlived their owners.           *)
THEOREM TimeoutsGoToWhoManages == AgentTimersSpec => ReceiverManagesTheTimer
<1>1. ASSUME AgentTimersInv, TreeInv, YoungerProcedures, ProceduresStartNone,
             NEW t \in Tids, DispatchTimer(t)
      PROVE  /\ t \in stopping \/ t \in timers
             /\ frames' # frames =>
                  t \in timers /\ {owner[t], self_'} \subseteq moonagents_
                  /\ OriginalCaller(self_') = owner[t]
  <2> USE DEF AgentTimersInv
  <2>1. t \in stopping \/ t \in timers
    BY <1>1 DEF DispatchTimer, Receive, TimersInv, UnusedInv
  <2>2. CASE frames' = frames
    BY <2>1, <2>2
  <2>3. CASE frames' # frames
    <3> DEFINE p == owner[t]
               d == Destination(owner[t])
    <3>1. Receiving(p) /\ Receiving(d) /\ Dispatch(p)
      BY <1>1, <2>3 DEF DispatchTimer, DispatchToOwner, agentVars, context
    <3>2. p \in Pids /\ p # None /\ state_[p] # Nil /\ p \in moonagents_
      BY <1>1, <3>1, BoundsAssumption
      DEF Receiving, OwnersType, App, None, Pids, OwnersInv, DeadStop
    <3>3. t \in timers
      BY <1>1, <2>1, <3>2 DEF OwnersInv, StoppingExactly
    <3>4. caller_[p] = None
      <4>1. inflight[t] # 0
        BY <1>1 DEF DispatchTimer, Receive
      <4> QED
        BY <1>1, <3>2, <4>1 DEF ProceduresStartNone
    <3>5. d \in Pids /\ OriginalCaller(d) = OriginalCaller(p)
      BY <1>1, <3>2, InnermostProcedure DEF AgentsInv, TreeInv
    <3>6. d \in moonagents_
      BY <1>1, <3>1, <3>5 DEF Receiving, OwnersInv, DeadStop
    <3>7. self_' = d
      BY <3>1 DEF Dispatch, SwitchTo, SwitchFrom
    <3>8. OriginalCaller(p) = p
      BY <3>4 DEF OriginalCaller
    <3> HIDE DEF p, d
    <3>9. OriginalCaller(d) = p
      BY <3>5, <3>8
    <3> QED
      BY <2>1, <3>2, <3>3, <3>6, <3>7, <3>9 DEF p, OriginalCaller
  <2> QED
    BY <2>2, <2>3
<1>2. AgentTimersInv /\ TreeInv /\ YoungerProcedures /\ ProceduresStartNone =>
        [\A t \in Tids : DispatchTimer(t) =>
           /\ t \in stopping \/ t \in timers
           /\ frames' # frames =>
                t \in timers /\ {owner[t], self_'} \subseteq moonagents_
                /\ OriginalCaller(self_') = owner[t]]_allVars
  BY <1>1
<1> QED
  BY <1>2, AgentTimersInvariant, AgentTimersImplementsAgents, TreeInvariant, YoungerInvariant,
     ProceduresStartNoneInvariant, PTL
  DEF ReceiverManagesTheTimer

-----------------------------------------------------------------------------
(* A set with its indices and infos.                                        *)
ArrayOK(a) ==
  /\ a = [list |-> a.list, reverse |-> a.reverse, info |-> a.info]
  /\ a.list \in Seq(Socks)
  /\ a.reverse \in [Socks -> Nat]
  /\ a.info = [s \in Socks |-> a.info[s]]
  /\ Set!Exact(a)

(* The indices tell what is in the array.                                   *)
LEMMA IndexTellsMembers ==
  ASSUME NEW a, ArrayOK(a), NEW s \in Socks
  PROVE  a.reverse[s] # 0 <=> s \in ToSet(a.list)
<1>1. Len(a.list) \in Nat /\ DOMAIN a.list = 1 .. Len(a.list)
  BY LenProperties DEF ArrayOK
<1> QED
  BY <1>1 DEF ArrayOK, Set!Exact, ToSet

(* Insert() adds the value, or only changes its info (array.lua:19).         *)
LEMMA InsertKeepsExact ==
  ASSUME NEW a, ArrayOK(a), NEW s \in Socks, NEW info
  PROVE  LET b == Set!Insert(a, s, info)
         IN ArrayOK(b) /\ ToSet(b.list) = ToSet(a.list) \cup {s}
<1> DEFINE n == Len(a.list)
           b == Set!Insert(a, s, info)
<1>1. n \in Nat /\ DOMAIN a.list = 1 .. n
  BY LenProperties DEF ArrayOK
<1>2. CASE a.reverse[s] # 0
  <2>1. b = [a EXCEPT !.info[s] = info]
    BY <1>2 DEF Set!Insert
  <2>2. /\ b.list = a.list /\ b.reverse = a.reverse
        /\ b.info = [a.info EXCEPT ![s] = info]
        /\ b = [list |-> b.list, reverse |-> b.reverse, info |-> b.info]
    BY <2>1 DEF ArrayOK
  <2>3. s \in ToSet(a.list)
    BY <1>2, IndexTellsMembers
  <2> HIDE DEF b
  <2>4. /\ b.info = [v \in Socks |-> b.info[v]]
        /\ \A v \in Socks : v # s => b.info[v] = a.info[v]
    BY <2>2 DEF ArrayOK
  <2>5. Set!Exact(b)
    BY <1>2, <2>2, <2>4 DEF ArrayOK, Set!Exact
  <2>6. ArrayOK(b)
    BY <2>2, <2>4, <2>5 DEF ArrayOK
  <2> QED
    BY <2>2, <2>3, <2>6 DEF b
<1>3. CASE a.reverse[s] = 0
  <2> DEFINE q == Append(a.list, s)
  <2>1. b = [list |-> q, reverse |-> [a.reverse EXCEPT ![s] = n + 1],
             info |-> [a.info EXCEPT ![s] = info]]
    BY <1>3 DEF Set!Insert
  <2>2. /\ q \in Seq(Socks) /\ Len(q) = n + 1 /\ DOMAIN q = 1 .. n + 1
        /\ \A i \in 1 .. n : q[i] = a.list[i]
        /\ q[n + 1] = s
    BY <1>1, AppendProperties, LenProperties DEF ArrayOK
  <2> HIDE DEF q, b
  <2>3. \A i \in 1 .. n + 1 : i \in 1 .. n \/ i = n + 1
    BY <1>1
  <2>4. \A i \in 1 .. n : a.list[i] \in Socks /\ a.list[i] # s /\ a.reverse[a.list[i]] = i
    BY <1>1, <1>3 DEF ArrayOK, Set!Exact
  <2>5. /\ b.list = q
        /\ b.reverse \in [Socks -> Nat]
        /\ \A v \in Socks : b.reverse[v] = IF v = s THEN n + 1 ELSE a.reverse[v]
        /\ b.info = [v \in Socks |-> b.info[v]]
        /\ \A v \in Socks : v # s => b.info[v] = a.info[v]
        /\ b = [list |-> b.list, reverse |-> b.reverse, info |-> b.info]
    <3>1. /\ b.list = q /\ b.reverse = [a.reverse EXCEPT ![s] = n + 1]
          /\ b.info = [a.info EXCEPT ![s] = info]
          /\ b = [list |-> b.list, reverse |-> b.reverse, info |-> b.info]
      BY <2>1
    <3>2. n + 1 \in Nat
      BY <1>1
    <3> HIDE DEF n
    <3>3. /\ b.reverse \in [Socks -> Nat]
          /\ \A v \in Socks : b.reverse[v] = IF v = s THEN n + 1 ELSE a.reverse[v]
      BY <3>1, <3>2 DEF ArrayOK
    <3>4. /\ b.info = [v \in Socks |-> b.info[v]]
          /\ \A v \in Socks : v # s => b.info[v] = a.info[v]
      BY <3>1 DEF ArrayOK
    <3> QED
      BY <3>1, <3>3, <3>4
  <2>6. \A i \in 1 .. n + 1 : b.reverse[q[i]] = i
    <3> TAKE i \in 1 .. n + 1
    <3>1. CASE i \in 1 .. n
      <4>1. q[i] = a.list[i] /\ a.list[i] \in Socks /\ a.list[i] # s /\ a.reverse[a.list[i]] = i
        BY <2>2, <2>4, <3>1
      <4> QED
        BY <2>5, <4>1
    <3>2. CASE i = n + 1
      BY <2>2, <2>5, <3>2
    <3> QED
      BY <2>3, <3>1, <3>2
  <2>7. ArrayOK(b)
    <3>1. ASSUME NEW v \in Socks
          PROVE  /\ b.reverse[v] \in 0 .. n + 1
                 /\ b.reverse[v] # 0 => q[b.reverse[v]] = v
                 /\ b.info[v] # NoInfo => b.reverse[v] # 0
      <4>1. CASE v = s
        BY <1>1, <2>2, <2>5, <4>1
      <4>2. CASE v # s
        <5>1. b.reverse[v] = a.reverse[v] /\ b.info[v] = a.info[v]
          BY <2>5, <4>2
        <5>2. /\ a.reverse[v] \in 0 .. n /\ (a.reverse[v] # 0 => a.list[a.reverse[v]] = v)
              /\ a.info[v] # NoInfo => a.reverse[v] # 0
          BY DEF ArrayOK, Set!Exact
        <5>3. a.reverse[v] \in 0 .. n + 1 /\ (a.reverse[v] # 0 => a.reverse[v] \in 1 .. n)
          BY <1>1, <5>2
        <5> QED
          BY <2>2, <5>1, <5>2, <5>3
      <4> QED
        BY <4>1, <4>2
    <3>2. Set!Exact(b)
      BY <2>2, <2>5, <2>6, <3>1 DEF Set!Exact
    <3> QED
      BY <2>2, <2>5, <3>2 DEF ArrayOK
  <2>8. ToSet(q) = ToSet(a.list) \cup {s}
    BY <1>1, <2>2, <2>3 DEF ToSet
  <2> QED
    BY <2>5, <2>7, <2>8 DEF b
<1> QED
  BY <1>2, <1>3, <1>1 DEF ArrayOK

(* Remove() takes the value out, and moves the last one into its place        *)
(* (array.lua:29).                                                          *)
LEMMA RemoveKeepsExact ==
  ASSUME NEW a, ArrayOK(a), NEW s \in Socks
  PROVE  LET b == Set!Remove(a, s)
         IN ArrayOK(b) /\ ToSet(b.list) = ToSet(a.list) \ {s}
<1> DEFINE n == Len(a.list)
           index == a.reverse[s]
           top == a.list[n]
           shorter == SubSeq(a.list, 1, n - 1)
           b == Set!Remove(a, s)
<1>1. n \in Nat /\ DOMAIN a.list = 1 .. n
  BY LenProperties DEF ArrayOK
<1>2. CASE index = 0
  <2>1. b = a
    BY <1>2 DEF Set!Remove
  <2> QED
    BY <1>2, <2>1, IndexTellsMembers
<1>3. CASE index # 0
  <2>1. index \in 1 .. n /\ a.list[index] = s
    BY <1>1, <1>3 DEF ArrayOK, Set!Exact
  <2>2. n \in 1 .. n /\ top \in Socks /\ a.reverse[top] = n
    BY <1>1, <2>1 DEF ArrayOK, Set!Exact
  <2>3. /\ shorter \in Seq(Socks) /\ Len(shorter) = n - 1 /\ DOMAIN shorter = 1 .. n - 1
        /\ \A i \in 1 .. n - 1 : shorter[i] = a.list[i]
    <3>1. \A i \in 1 .. n - 1 : a.list[i] \in Socks
      BY <1>1 DEF ArrayOK
    <3>2. shorter = [i \in 1 .. n - 1 |-> a.list[i]]
      BY <1>1, <2>1 DEF ArrayOK
    <3>3. n - 1 \in Nat
      BY <1>1, <2>1
    <3> QED
      BY <3>1, <3>2, <3>3
  <2> DEFINE q == IF top = s THEN shorter ELSE [shorter EXCEPT ![index] = top]
             r == IF top = s THEN [a.reverse EXCEPT ![s] = 0]
                  ELSE [a.reverse EXCEPT ![s] = 0, ![top] = index]
  <2>4. b = [list |-> q, reverse |-> r, info |-> [a.info EXCEPT ![s] = NoInfo]]
    BY <1>3 DEF Set!Remove
  <2>5. top = s <=> index = n
    BY <2>1, <2>2
  <2>6. /\ q \in Seq(Socks) /\ Len(q) = n - 1 /\ DOMAIN q = 1 .. n - 1
        /\ \A i \in 1 .. n - 1 : q[i] = IF i = index THEN top ELSE a.list[i]
    <3>1. CASE top = s
      BY <1>1, <2>3, <2>5, <3>1
    <3>2. CASE top # s
      <4>1. q = [shorter EXCEPT ![index] = top]
        BY <3>2
      <4>2. index \in 1 .. n - 1
        BY <1>1, <2>1, <2>5, <3>2
      <4> HIDE DEF q, shorter, top, index
      <4>3. q \in [1 .. n - 1 -> Socks] /\ DOMAIN q = 1 .. n - 1
        BY <2>2, <2>3, <4>1, <4>2
      <4>4. n - 1 \in Nat
        BY <1>1, <2>1
      <4>5. q \in Seq(Socks) /\ Len(q) = n - 1
        BY <4>3, <4>4
      <4> QED
        BY <2>3, <4>1, <4>2, <4>3, <4>5
    <3> QED
      BY <3>1, <3>2
  <2>7. /\ r \in [Socks -> Nat]
        /\ \A v \in Socks : r[v] = IF v = s THEN 0 ELSE IF v = top THEN index ELSE a.reverse[v]
    BY <2>1, <2>2 DEF ArrayOK
  <2>8. \A i \in 1 .. n - 1 : i \in 1 .. n /\ a.list[i] \in Socks /\ a.list[i] # top
    BY <1>1, <2>2 DEF ArrayOK, Set!Exact
  <2>9. \A i \in 1 .. n - 1 : i # index => a.list[i] # s
    BY <1>1, <2>8 DEF ArrayOK, Set!Exact
  <2>10. \A i \in 1 .. n - 1 : q[i] \in Socks /\ q[i] # s /\ r[q[i]] = i
    <3> TAKE i \in 1 .. n - 1
    <3>1. CASE i = index
      <4>1. index # n
        BY <1>1, <3>1
      <4> QED
        BY <2>2, <2>5, <2>6, <2>7, <3>1, <4>1
    <3>2. CASE i # index
      <4>1. a.reverse[a.list[i]] = i
        BY <2>8 DEF ArrayOK, Set!Exact
      <4>2. q[i] = a.list[i]
        BY <2>6, <3>2
      <4> HIDE DEF q, r, top, index
      <4> QED
        BY <2>7, <2>8, <2>9, <3>2, <4>1, <4>2
    <3> QED
      BY <3>1, <3>2
  <2>11. \A v \in Socks : v # s =>
           /\ r[v] \in 0 .. n - 1
           /\ r[v] # 0 => q[r[v]] = v
           /\ a.reverse[v] # 0 <=> r[v] # 0
    <3> SUFFICES ASSUME NEW v \in Socks, v # s
                 PROVE  /\ r[v] \in 0 .. n - 1
                        /\ r[v] # 0 => q[r[v]] = v
                        /\ a.reverse[v] # 0 <=> r[v] # 0
      OBVIOUS
    <3>1. CASE v = top
      <4>1. r[v] = index /\ index \in 1 .. n - 1 /\ a.reverse[v] = n
        BY <1>1, <2>1, <2>2, <2>5, <2>7, <3>1
      <4> QED
        BY <1>1, <2>1, <2>6, <3>1, <4>1
    <3>2. CASE v # top
      <4>1. r[v] = a.reverse[v] /\ a.reverse[v] \in 0 .. n
            /\ (a.reverse[v] # 0 => a.list[a.reverse[v]] = v)
        BY <2>7, <3>2 DEF ArrayOK, Set!Exact
      <4>2. a.reverse[v] # n /\ a.reverse[v] # index
        BY <1>1, <2>1, <3>2, <4>1
      <4>3. a.reverse[v] \in 0 .. n - 1 /\ (a.reverse[v] # 0 => a.reverse[v] \in 1 .. n - 1)
        BY <1>1, <4>1, <4>2
      <4> HIDE DEF q, r, top, index
      <4> QED
        BY <2>6, <4>1, <4>2, <4>3
    <3> QED
      BY <3>1, <3>2
  <2> HIDE DEF q, r, b
  <2>12. \A v \in Socks : b.info[v] = IF v = s THEN NoInfo ELSE a.info[v]
    BY <2>4 DEF ArrayOK
  <2>13. r[s] = 0 /\ 0 \in 0 .. n - 1
    BY <1>1, <2>1, <2>7
  <2>14. Set!Exact(b)
    BY <2>4, <2>6, <2>10, <2>11, <2>12, <2>13 DEF ArrayOK, Set!Exact
  <2>15. ArrayOK(b)
    BY <2>4, <2>6, <2>7, <2>14 DEF ArrayOK
  <2>16. \A v \in Socks : v \in ToSet(b.list) <=> v \in ToSet(a.list) /\ v # s
    BY <2>4, <2>11, <2>13, <2>15, IndexTellsMembers
  <2>17. ToSet(a.list) \subseteq Socks /\ ToSet(b.list) \subseteq Socks
    BY <1>1, <2>4, <2>6, <2>10 DEF ArrayOK, ToSet
  <2>18. ToSet(b.list) = ToSet(a.list) \ {s}
    BY <2>16, <2>17
  <2> QED
    BY <2>15, <2>18 DEF b
<1> QED
  BY <1>2, <1>3

-----------------------------------------------------------------------------
(* Who monitors a socket is recorded exactly for those in the sets.          *)
Recorded(set, mode) ==
  \A s \in Socks : addedBy[mode][s] # Nobody <=> s \in ToSet(set.list)

SocketsInv ==
  /\ ArrayOK(RdSet) /\ ArrayOK(WrSet)
  /\ addedBy = [m \in Modes |-> [s \in Socks |-> addedBy[m][s]]]
  /\ Recorded(RdSet, "r") /\ Recorded(WrSet, "w")

LEMMA SocketsInitInv == Init => SocketsInv
<1> SUFFICES ASSUME Init PROVE SocketsInv
  OBVIOUS
<1>1. ArrayOK(Set!Empty) /\ ToSet(Set!Empty.list) = {}
  <2>1. <<>> \in Seq(Socks) /\ Len(<<>>) = 0 /\ DOMAIN <<>> = {}
    BY EmptySeq, LenProperties
  <2>2. Set!Exact(Set!Empty)
    BY <2>1 DEF Set!Empty, Set!Exact
  <2> QED
    BY <2>1, <2>2 DEF Set!Empty, ArrayOK, ToSet
<1> QED
  BY <1>1 DEF Init, SocketsInv, Recorded, Modes

(* One set changes by one socket, and so does what is recorded of it.         *)
LEMMA AddInv ==
  ASSUME SocketsInv, NEW s \in Socks, NEW mode \in Modes, SocketAdd(s, mode)
  PROVE  SocketsInv'
<1>1. /\ addedBy' = [addedBy EXCEPT ![mode][s] = {self_}]
      /\ \A m \in Modes, v \in Socks :
           addedBy'[m][v] = IF m = mode /\ v = s THEN {self_} ELSE addedBy[m][v]
  BY DEF SocketAdd, SocketsInv
<1>2. addedBy' = [m \in Modes |-> [v \in Socks |-> addedBy'[m][v]]]
  BY <1>1 DEF SocketsInv
<1>3. CASE mode = "r"
  <2>1. RdSet' = Set!Insert(RdSet, s, Info("r")) /\ WrSet' = WrSet
    BY <1>3 DEF SocketAdd
  <2>2. ArrayOK(RdSet') /\ ToSet(RdSet'.list) = ToSet(RdSet.list) \cup {s}
    BY <2>1, InsertKeepsExact DEF SocketsInv
  <2> QED
    BY <1>1, <1>2, <1>3, <2>1, <2>2 DEF SocketsInv, Recorded, Nobody, Modes
<1>4. CASE mode = "w"
  <2>1. WrSet' = Set!Insert(WrSet, s, Info("w")) /\ RdSet' = RdSet
    BY <1>4 DEF SocketAdd
  <2>2. ArrayOK(WrSet') /\ ToSet(WrSet'.list) = ToSet(WrSet.list) \cup {s}
    BY <2>1, InsertKeepsExact DEF SocketsInv
  <2> QED
    BY <1>1, <1>2, <1>4, <2>1, <2>2 DEF SocketsInv, Recorded, Nobody, Modes
<1> QED
  BY <1>3, <1>4 DEF Modes

(* The same for socket_remove() and for the sockets of agents that are gone.   *)
LEMMA TakeOutInv ==
  ASSUME SocketsInv, NEW s \in Socks, NEW mode \in Modes,
         IF mode = "r" THEN RdSet' = Set!Remove(RdSet, s) /\ UNCHANGED WrSet
                       ELSE WrSet' = Set!Remove(WrSet, s) /\ UNCHANGED RdSet,
         addedBy' = [addedBy EXCEPT ![mode][s] = Nobody]
  PROVE  SocketsInv'
<1>1. \A m \in Modes, v \in Socks :
        addedBy'[m][v] = IF m = mode /\ v = s THEN Nobody ELSE addedBy[m][v]
  BY DEF SocketsInv
<1>2. addedBy' = [m \in Modes |-> [v \in Socks |-> addedBy'[m][v]]]
  BY <1>1 DEF SocketsInv
<1>3. CASE mode = "r"
  <2>1. RdSet' = Set!Remove(RdSet, s) /\ WrSet' = WrSet
    BY <1>3
  <2>2. ArrayOK(RdSet') /\ ToSet(RdSet'.list) = ToSet(RdSet.list) \ {s}
    BY <2>1, RemoveKeepsExact DEF SocketsInv
  <2> QED
    BY <1>1, <1>2, <1>3, <2>1, <2>2 DEF SocketsInv, Recorded, Modes
<1>4. CASE mode = "w"
  <2>1. WrSet' = Set!Remove(WrSet, s) /\ RdSet' = RdSet
    BY <1>4
  <2>2. ArrayOK(WrSet') /\ ToSet(WrSet'.list) = ToSet(WrSet.list) \ {s}
    BY <2>1, RemoveKeepsExact DEF SocketsInv
  <2> QED
    BY <1>1, <1>2, <1>4, <2>1, <2>2 DEF SocketsInv, Recorded, Modes
<1> QED
  BY <1>3, <1>4 DEF Modes

LEMMA SameSockets == ASSUME SocketsInv, UNCHANGED socketVars PROVE SocketsInv'
  BY DEF SocketsInv, socketVars, Recorded, ArrayOK

(* What outlives a reset is monitored as before.                            *)
LEMMA OutlivedInv ==
  ASSUME SocketsInv
  PROVE  /\ Outlived = [m \in Modes |-> [s \in Socks |-> Outlived[m][s]]]
         /\ \A m \in Modes, s \in Socks :
              /\ Outlived[m][s] = Nobody <=> addedBy[m][s] = Nobody
              /\ m = "r" => Outlived[m][s] \in {addedBy[m][s], Former}
<1> DEFINE reading == [s \in Socks |-> IF addedBy["r"][s] \in {Nobody, {App}} THEN addedBy["r"][s]
                                       ELSE Former]
<1>1. Outlived = [addedBy EXCEPT !["r"] = reading] /\ "r" \in Modes
  BY DEF Outlived, Modes, SocketsInv
<1>2. \A m \in Modes, s \in Socks : addedBy[m] = [v \in Socks |-> addedBy[m][v]]
  BY DEF SocketsInv
<1>3. Outlived["r"] = reading /\ \A m \in Modes : m # "r" => Outlived[m] = addedBy[m]
  BY <1>1 DEF SocketsInv
<1>4. Former # Nobody
  BY DEF Former, Nobody
<1>5. Outlived = [m \in Modes |-> Outlived[m]]
  BY <1>1 DEF SocketsInv
<1>6. \A s \in Socks : reading[s] \in {addedBy["r"][s], Former} /\ (reading[s] = Nobody <=> addedBy["r"][s] = Nobody)
  BY <1>4
<1>7. \A m \in Modes : Outlived[m] = [s \in Socks |-> Outlived[m][s]]
  BY <1>3 DEF SocketsInv
<1> HIDE DEF reading
<1> QED
  BY <1>3, <1>5, <1>6, <1>7

LEMMA ResetSockets ==
  ASSUME SocketsInv, UNCHANGED <<RdSet, WrSet>>, addedBy' \in {addedBy, Outlived}
  PROVE  SocketsInv'
<1>1. CASE addedBy' = addedBy
  BY <1>1 DEF SocketsInv, Recorded, ArrayOK
<1>2. CASE addedBy' = Outlived
  <2>1. \A m \in Modes, s \in Socks : addedBy'[m][s] = Nobody <=> addedBy[m][s] = Nobody
    BY <1>2, OutlivedInv
  <2>2. Recorded(RdSet, "r")' /\ Recorded(WrSet, "w")'
    BY <2>1 DEF SocketsInv, Recorded, Modes
  <2>3. addedBy' = [m \in Modes |-> [s \in Socks |-> addedBy'[m][s]]]
    BY <1>2, OutlivedInv
  <2> QED
    BY <2>2, <2>3 DEF SocketsInv, ArrayOK
<1> QED
  BY <1>1, <1>2

LEMMA SocketsNextInv == SocketsInv /\ [Next]_socketsVars => SocketsInv'
<1> SUFFICES ASSUME SocketsInv, [Next]_socketsVars PROVE SocketsInv'
  OBVIOUS
<1>1. ASSUME NEW s \in Socks, NEW mode \in Modes, SocketAdd(s, mode) PROVE SocketsInv'
  BY <1>1, AddInv
<1>2. ASSUME NEW s \in Socks, NEW mode \in Modes, SocketRemove(s, mode) PROVE SocketsInv'
  BY <1>2, TakeOutInv DEF SocketRemove
<1>3. ASSUME NEW s \in Socks, Orphan(s) PROVE SocketsInv'
  <2>1. step \in Modes
    BY <1>3 DEF Orphan, Next_
  <2> QED
    BY <1>3, <2>1, TakeOutInv DEF Orphan
<1>4. ASSUME NEW s \in Socks, Give_up(s) \/ ApplicationCallback(s) \/ AgentCallback(s)
      PROVE  SocketsInv'
  BY <1>4, SameSockets DEF Give_up, ApplicationCallback, AgentCallback
<1>5. CASE AgentStep \/ Select \/ ApplicationReturns \/ CallbackReturns \/ ReadingDone
  BY <1>5, SameSockets
  DEF AgentStep, Select, ApplicationReturns, CallbackReturns, ReadingDone
<1>6. CASE ScriptRaises \/ ApplicationRaises
  BY <1>6, SameSockets DEF ScriptRaises, ApplicationRaises
<1>7. CASE UNCHANGED socketsVars
  BY <1>7, SameSockets DEF socketsVars
<1>8. CASE TriggerReturns \/ ResetAgents
  BY <1>8, ResetSockets DEF TriggerReturns, ResetAgents
<1> QED
  BY <1>1, <1>2, <1>3, <1>4, <1>5, <1>6, <1>7, <1>8 DEF Next

(* The sets of sockets, whatever callbacks add and remove while the result of *)
(* select() is gone through, and whatever is removed from the middle of them,  *)
(* keep the index and the info of each socket (array.lua), and hold exactly    *)
(* those that are monitored.                                                *)
THEOREM SocketSetsAreExact == Spec => []MonitoredExactly
<1>1. SocketsInv => MonitoredExactly
  BY DEF SocketsInv, MonitoredExactly, ArrayOK, Recorded
<1> QED
  BY <1>1, SocketsInitInv, SocketsNextInv, PTL DEF Spec

-----------------------------------------------------------------------------
(* Callbacks run in the _ENV of who added the socket.                        *)

(* The info of a socket that is monitored for reading names who added it, or  *)
(* an agent of a system that was reset had added it.                         *)
AdderInv ==
  \A s \in Socks : RdSet.info[s] # NoInfo => addedBy["r"][s] \in {Former, {RdSet.info[s].pid}}

(* DoSocketCallbacks runs within Trigger, and callbacks of the application    *)
(* within DoSocketCallbacks, when no script runs.                            *)
CallbacksInv ==
  /\ phase = "flush" => SystemRunning
  /\ step \in Modes => phase = "flush"
  /\ calling => frames = <<>> /\ step \in Modes

LEMMA SetsOfInfos ==
  ASSUME NEW a, ArrayOK(a), NEW s \in Socks
  PROVE  /\ \A info : \A v \in Socks :
              Set!Insert(a, s, info).info[v] = IF v = s THEN info ELSE a.info[v]
         /\ \A v \in Socks :
              Set!Remove(a, s).info[v] = IF v = s THEN NoInfo ELSE a.info[v]
<1>1. a.info = [v \in Socks |-> a.info[v]] /\ a.reverse[s] \in Nat
  BY DEF ArrayOK
<1>2. ASSUME NEW info
      PROVE  Set!Insert(a, s, info).info = [a.info EXCEPT ![s] = info]
  <2>1. CASE a.reverse[s] # 0
    <3>1. Set!Insert(a, s, info) = [a EXCEPT !.info[s] = info]
      BY <2>1 DEF Set!Insert
    <3> QED
      BY <3>1 DEF ArrayOK
  <2>2. CASE a.reverse[s] = 0
    BY <2>2 DEF Set!Insert
  <2> QED
    BY <2>1, <2>2
<1> DEFINE Infos == \A info : \A v \in Socks :
                      Set!Insert(a, s, info).info[v] = IF v = s THEN info ELSE a.info[v]
<1>5. Infos
  <2> SUFFICES ASSUME NEW info, NEW v \in Socks
               PROVE  Set!Insert(a, s, info).info[v] = IF v = s THEN info ELSE a.info[v]
    OBVIOUS
  <2>1. Set!Insert(a, s, info).info = [a.info EXCEPT ![s] = info]
    BY <1>2
  <2> QED
    BY <1>1, <2>1
<1> HIDE DEF Infos
<1>3. CASE a.reverse[s] = 0
  <2>1. a.info[s] = NoInfo /\ Set!Remove(a, s) = a
    BY <1>3 DEF ArrayOK, Set!Exact, Set!Remove
  <2> QED
    BY <1>5, <2>1 DEF Infos
<1>4. CASE a.reverse[s] # 0
  <2>1. Set!Remove(a, s).info = [a.info EXCEPT ![s] = NoInfo]
    BY <1>4 DEF Set!Remove
  <2>2. \A v \in Socks : Set!Remove(a, s).info[v] = IF v = s THEN NoInfo ELSE a.info[v]
    BY <1>1, <2>1
  <2> QED
    BY <1>5, <2>2 DEF Infos
<1> QED
  BY <1>3, <1>4

(* What is said of a set changes with the set.                               *)
LEMMA SameAdders == ASSUME AdderInv, UNCHANGED socketVars PROVE AdderInv'
  BY DEF AdderInv, socketVars

LEMMA AdderNext == ASSUME SocketsInv, AdderInv, [Next]_socketsVars PROVE AdderInv'
<1>2. ASSUME NEW s \in Socks, NEW mode \in Modes, SocketAdd(s, mode) PROVE AdderInv'
  <2>1. \A m \in Modes, v \in Socks :
          addedBy'[m][v] = IF m = mode /\ v = s THEN {self_} ELSE addedBy[m][v]
    BY <1>2 DEF SocketAdd, SocketsInv
  <2>2. CASE mode = "r"
    <3>1. RdSet' = Set!Insert(RdSet, s, Info("r"))
      BY <1>2, <2>2 DEF SocketAdd
    <3>2. \A v \in Socks : RdSet'.info[v] = IF v = s THEN Info("r") ELSE RdSet.info[v]
      BY <3>1, SetsOfInfos DEF SocketsInv
    <3> QED
      BY <2>1, <2>2, <3>2 DEF AdderInv, Modes, Info
  <2>3. CASE mode = "w"
    BY <1>2, <2>1, <2>3 DEF SocketAdd, AdderInv, Modes
  <2> QED
    BY <2>2, <2>3 DEF Modes
<1>3. ASSUME NEW s \in Socks, NEW mode \in Modes,
             IF mode = "r" THEN RdSet' = Set!Remove(RdSet, s) /\ UNCHANGED WrSet
                           ELSE WrSet' = Set!Remove(WrSet, s) /\ UNCHANGED RdSet,
             addedBy' = [addedBy EXCEPT ![mode][s] = Nobody]
      PROVE  AdderInv'
  <2>1. \A m \in Modes, v \in Socks :
          addedBy'[m][v] = IF m = mode /\ v = s THEN Nobody ELSE addedBy[m][v]
    BY <1>3 DEF SocketsInv
  <2>2. CASE mode = "r"
    <3>1. \A v \in Socks : RdSet'.info[v] = IF v = s THEN NoInfo ELSE RdSet.info[v]
      BY <1>3, <2>2, SetsOfInfos DEF SocketsInv
    <3> QED
      BY <2>1, <2>2, <3>1 DEF AdderInv, Modes
  <2>3. CASE mode = "w"
    BY <1>3, <2>1, <2>3 DEF AdderInv, Modes
  <2> QED
    BY <2>2, <2>3 DEF Modes
<1>4. ASSUME NEW s \in Socks, NEW mode \in Modes, SocketRemove(s, mode) PROVE AdderInv'
  BY <1>3, <1>4 DEF SocketRemove
<1>5. ASSUME NEW s \in Socks, Orphan(s) PROVE AdderInv'
  BY <1>3, <1>5 DEF Orphan, Next_
<1>6. ASSUME NEW s \in Socks, Give_up(s) \/ ApplicationCallback(s) \/ AgentCallback(s)
      PROVE  AdderInv'
  BY <1>6, SameAdders DEF Give_up, ApplicationCallback, AgentCallback
<1>7. CASE AgentStep \/ Select \/ ApplicationReturns \/ CallbackReturns \/ ReadingDone
  BY <1>7, SameAdders
  DEF AgentStep, Select, ApplicationReturns, CallbackReturns, ReadingDone
<1>8. CASE ScriptRaises \/ ApplicationRaises
  BY <1>8, SameAdders DEF ScriptRaises, ApplicationRaises
<1>9. CASE UNCHANGED socketsVars
  BY <1>9, SameAdders DEF socketsVars
<1>10. CASE TriggerReturns \/ ResetAgents
  <2>1. RdSet' = RdSet /\ addedBy' \in {addedBy, Outlived}
    BY <1>10 DEF TriggerReturns, ResetAgents
  <2>2. \A s \in Socks : addedBy'["r"][s] \in {addedBy["r"][s], Former}
    BY <2>1, OutlivedInv DEF Modes
  <2> QED
    BY <2>1, <2>2 DEF AdderInv
<1> QED
  BY <1>2, <1>4, <1>5, <1>6, <1>7, <1>8, <1>9, <1>10 DEF Next

(* All of ENV but the application are agents.                                *)
LEMMA EntriesAreAgents == ASSUME AgentsInv, NEW p \in ENV \ {App} PROVE p \in Pids
<1>1. p \in 0 .. MaxPid /\ p # 0
  BY DEF AgentsInv, TablesType, App
<1> QED
  BY <1>1, BoundsAssumption DEF Pids

(* A callback of an agent is one more call on the stack, made by the          *)
(* application; every other step is one of the agents, an error, or none.    *)
LEMMA AgentCallbackInv ==
  ASSUME AgentsInv, CallbacksInv, NEW s \in Socks, AgentCallback(s)
  PROVE  AgentsInv'
<1> DEFINE pid == CallbackOf(s).pid
<1>1. pid \in ENV \ {App} /\ frames = <<>> /\ phase = "flush" /\ SystemRunning
  BY DEF AgentCallback, Next_, CallbacksInv
<1>2. SwitchTo(pid, "callback") /\ UNCHANGED <<NextPid, SystemRunning, tree, state_, phase>>
  BY DEF AgentCallback
<1> HIDE DEF pid
<1>3. pid \in Pids
  BY <1>1, EntriesAreAgents
<1>4. self_ = Caller(Len(frames) + 1)
  BY <1>1, EmptySeq DEF AgentsInv, ControlInv, Caller
<1> QED
  BY <1>1, <1>2, <1>3, <1>4, CallInv DEF Kinds, tree, AgentsInv, TablesType

LEMMA ApplicationRaisesInv ==
  ASSUME AgentsInv, CallbacksInv, ApplicationRaises
  PROVE  AgentsInv'
<1>1. ContextType' /\ CallStack'
  BY SameContext DEF AgentsInv, ApplicationRaises
<1>2. frames = <<>> /\ UNCHANGED <<NextPid, SystemRunning, tree, state_, context>> /\ phase' = "error"
  BY DEF ApplicationRaises, CallbacksInv
<1>3. TablesType' /\ FieldsInv'
  BY <1>2 DEF AgentsInv, TablesType, FieldsInv, tree
<1>4. EntriesInv' /\ ControlInv'
  BY <1>2 DEF AgentsInv, EntriesInv, NothingLeaks, ControlInv, tree, context
<1> QED
  BY <1>1, <1>3, <1>4 DEF AgentsInv

LEMMA AgentsOfSocketsNext ==
  ASSUME AgentsInv, CallbacksInv, [Next]_socketsVars
  PROVE  AgentsInv'
<1>1. CASE [AgentsNext]_agentVars
  BY <1>1, AgentsNextInv
<1>2. CASE AgentStep
  <2>1. AgentsNext
    BY <1>2 DEF AgentStep, AgentsNext
  <2> QED
    BY <1>1, <2>1
<1>3. ASSUME NEW s \in Socks, NEW mode \in Modes, SocketAdd(s, mode) \/ SocketRemove(s, mode)
      PROVE  AgentsInv'
  BY <1>1, <1>3 DEF SocketAdd, SocketRemove
<1>4. ASSUME NEW s \in Socks, Give_up(s) \/ ApplicationCallback(s) \/ Orphan(s)
      PROVE  AgentsInv'
  BY <1>1, <1>4 DEF Give_up, ApplicationCallback, Orphan
<1>5. ASSUME NEW s \in Socks, AgentCallback(s) PROVE AgentsInv'
  BY <1>5, AgentCallbackInv
<1>6. CASE Select \/ ApplicationReturns \/ ReadingDone
  BY <1>1, <1>6 DEF Select, ApplicationReturns, ReadingDone
<1>7. CASE CallbackReturns
  BY <1>7, ReturnInv DEF CallbackReturns, InScript
<1>8. CASE TriggerReturns \/ ResetAgents \/ ScriptRaises
  <2>1. AgentsNext
    BY <1>8 DEF TriggerReturns, ResetAgents, ScriptRaises, AgentsNext
  <2> QED
    BY <1>1, <2>1
<1>9. CASE ApplicationRaises
  BY <1>9, ApplicationRaisesInv
<1>10. CASE UNCHANGED socketsVars
  BY <1>1, <1>10 DEF socketsVars
<1> QED
  BY <1>2, <1>3, <1>4, <1>5, <1>6, <1>7, <1>8, <1>9, <1>10 DEF Next

(* The start transition of the system agent is over before the first trigger: *)
(* it cannot fail in one.                                                    *)
SystemStarts ==
  phase = "flush" =>
    \A i \in 1 .. Len(frames) : ~ (frames[i].kind = "start" /\ frames[i].pid = SystemPid)

LEMMA PushStarts ==
  ASSUME ContextType, SystemStarts, NEW current, NEW pid \in Pids, NEW kind \in Kinds,
         ~ (kind = "start" /\ pid = SystemPid), SwitchFrom(current, pid, kind), phase' = phase
  PROVE  SystemStarts'
<1> DEFINE new == [kind |-> kind, pid |-> pid]
<1>1. new \in Frames /\ frames \in Seq(Frames) /\ frames' = Append(frames, new)
  BY DEF Frames, ContextType, SwitchFrom
<1> HIDE DEF new
<1>2. /\ Len(frames) \in Nat /\ Len(frames') = Len(frames) + 1
      /\ \A i \in 1 .. Len(frames) : frames'[i] = frames[i]
      /\ frames'[Len(frames) + 1] = new
  BY <1>1, PushStack, LenProperties
<1>3. \A i \in 1 .. Len(frames') : i \in 1 .. Len(frames) \/ i = Len(frames) + 1
  BY <1>2
<1> QED
  BY <1>2, <1>3 DEF SystemStarts, new

LEMMA PopStarts ==
  ASSUME ContextType, SystemStarts, frames # <<>>, SwitchBack, phase' \in {phase, "error"}
  PROVE  SystemStarts'
<1>1. /\ Len(frames) \in Nat \ {0} /\ Len(frames') = Len(frames) - 1
      /\ \A i \in 1 .. Len(frames) - 1 : frames'[i] = frames[i]
  BY PopStack DEF SwitchBack, ContextType
<1> QED
  BY <1>1 DEF SystemStarts

LEMMA StartsNext ==
  ASSUME AgentsInv, CallbacksInv, SystemStarts, [Next]_socketsVars
  PROVE  SystemStarts'
<1>1. CASE UNCHANGED <<phase, frames>>
  BY <1>1 DEF SystemStarts
<1>2. ASSUME Running PROVE NextPid # SystemPid
  BY <1>2, RunningFrames DEF SystemPid, Pids, AgentsInv, TablesType
<1>3. ContextType
  BY DEF AgentsInv
<1>4. CASE AgentStep
  <2>1. CASE CreateSystem
    BY <2>1 DEF CreateSystem, Idle, Born, SystemStarts
  <2>2. CASE Create \/ Procedure
    <3>1. NextPid \in Pids /\ SwitchTo(NextPid, "start") /\ phase' = phase /\ Running
      BY <2>2 DEF Create, Procedure, Born
    <3> QED
      BY <1>2, <1>3, <3>1, PushStarts DEF SwitchTo, Kinds
  <2>3. CASE ProcedureReturn
    <3>1. parent_[self_] \in Pids
      BY <2>3, RunningFrames DEF ProcedureReturn, AgentsInv, FieldsInv
    <3> QED
      BY <1>3, <2>3, <3>1, PushStarts DEF ProcedureReturn, SwitchTo, Kinds
  <2>4. CASE CreateUncompiled \/ CreateDuplicate \/ Stop
    BY <1>1, <2>4 DEF CreateUncompiled, CreateDuplicate, Born, Stop, Stopping, Terminate, context
  <2>5. CASE AtReturnDone \/ StartReturn \/ StartFails \/ SystemStartFails
             \/ RemoteReturn \/ TransitionReturn
    BY <1>3, <2>5, PopStarts
    DEF AtReturnDone, StartReturn, StartFails, SystemStartFails, RemoteReturn, TransitionReturn, InScript
  <2>6. ASSUME NEW s \in States, NextState(s) PROVE SystemStarts'
    BY <1>1, <2>6 DEF NextState, tree, context
  <2>7. ASSUME NEW pid \in Pids, RemoteCall(pid) PROVE SystemStarts'
    BY <1>3, <2>7, PushStarts DEF RemoteCall, SwitchTo, Kinds
  <2>8. ASSUME NEW pid \in Pids, Dispatch(pid) PROVE SystemStarts'
    <3>1. Destination(pid) \in Pids
      BY <2>8, EntriesAreAgents DEF Dispatch, Receiving
    <3> QED
      BY <1>3, <2>8, <3>1, PushStarts DEF Dispatch, SwitchTo, Kinds
  <2>9. CASE BeginTrigger
    <3>1. frames' = <<>> /\ Len(frames') = 0
      BY <2>9, EmptySeq DEF BeginTrigger, Idle, context
    <3> QED
      BY <3>1 DEF SystemStarts
  <2> QED
    BY <1>4, <2>1, <2>2, <2>3, <2>4, <2>5, <2>6, <2>7, <2>8, <2>9 DEF AgentStep
<1>5. ASSUME NEW s \in Socks, NEW mode \in Modes, SocketAdd(s, mode) \/ SocketRemove(s, mode)
      PROVE  SystemStarts'
  BY <1>1, <1>5 DEF SocketAdd, SocketRemove, agentVars, tree, context
<1>6. ASSUME NEW s \in Socks, Give_up(s) \/ Orphan(s) \/ ApplicationCallback(s) PROVE SystemStarts'
  BY <1>1, <1>6 DEF Give_up, Orphan, ApplicationCallback, agentVars, context
<1>7. ASSUME NEW s \in Socks, AgentCallback(s) PROVE SystemStarts'
  <2>1. CallbackOf(s).pid \in Pids
    BY <1>7, EntriesAreAgents DEF AgentCallback
  <2> QED
    BY <1>3, <1>7, <2>1, PushStarts DEF AgentCallback, SwitchTo, Kinds
<1>8. CASE Select \/ ApplicationReturns \/ ReadingDone \/ UNCHANGED socketsVars
  BY <1>1, <1>8 DEF Select, ApplicationReturns, ReadingDone, socketsVars, agentVars, context
<1>9. CASE CallbackReturns
  BY <1>3, <1>9, PopStarts DEF CallbackReturns, InScript
<1>10. CASE TriggerReturns \/ ResetAgents \/ ScriptRaises \/ ApplicationRaises
  BY <1>10
  DEF TriggerReturns, EndTrigger, ResetAgents, Reset, ScriptRaises, Raise, ApplicationRaises, SystemStarts
<1> QED
  BY <1>4, <1>5, <1>6, <1>7, <1>8, <1>9, <1>10 DEF Next

(* While Trigger goes through the sockets no other step of it is taken.      *)
LEMMA CallbacksNext ==
  ASSUME AgentsInv, SystemStarts, CallbacksInv, [Next]_socketsVars
  PROVE  CallbacksInv'
<1>1. CASE UNCHANGED <<phase, SystemRunning, step, calling>> /\ (calling => UNCHANGED frames)
  BY <1>1 DEF CallbacksInv
<1>2. CASE AgentStep
  <2>1. UNCHANGED <<step, calling>>
    BY <1>2 DEF AgentStep, selectVars
  <2>2. CASE CreateSystem \/ BeginTrigger
    BY <2>1, <2>2 DEF CreateSystem, BeginTrigger, Born, Idle, CallbacksInv, Modes, context
  <2>3. CASE Create \/ CreateUncompiled \/ CreateDuplicate \/ Procedure \/ Stop \/ ProcedureReturn
    BY <1>1, <2>1, <2>3
    DEF Create, CreateUncompiled, CreateDuplicate, Procedure, Stop, Stopping, Terminate, ProcedureReturn, Born,
        Running, CallbacksInv, tree
  <2>4. CASE AtReturnDone \/ StartReturn \/ StartFails \/ RemoteReturn \/ TransitionReturn
    BY <1>1, <2>1, <2>4
    DEF AtReturnDone, StartReturn, StartFails, Stopping, Terminate, RemoteReturn, TransitionReturn,
        InScript, CallbacksInv, tree
  <2>5. CASE SystemStartFails
    <3>1. phase # "flush"
      <4>1. Len(frames) \in Nat \ {0} /\ self_ = Top(frames).pid
        BY <2>5, EmptySeq DEF SystemStartFails, InScript, AgentsInv, ContextType, CallStack
      <4> QED
        BY <2>5, <4>1 DEF SystemStartFails, InScript, SystemStarts, Top
    <3> QED
      BY <2>1, <2>5, <3>1 DEF SystemStartFails, InScript, CallbacksInv
  <2>6. ASSUME NEW s \in States, NextState(s) PROVE CallbacksInv'
    BY <1>1, <2>1, <2>6 DEF NextState, tree, context
  <2>7. ASSUME NEW pid \in Pids, RemoteCall(pid) PROVE CallbacksInv'
    BY <1>1, <2>1, <2>7 DEF RemoteCall, Running, Idle, CallbacksInv
  <2>8. ASSUME NEW pid \in Pids, step = "dispatch", Dispatch(pid) PROVE CallbacksInv'
    BY <1>1, <2>1, <2>8 DEF Dispatch, CallbacksInv, Modes
  <2> QED
    BY <1>2, <2>2, <2>3, <2>4, <2>5, <2>6, <2>7, <2>8 DEF AgentStep
<1>3. ASSUME NEW s \in Socks, NEW mode \in Modes, SocketAdd(s, mode) \/ SocketRemove(s, mode)
      PROVE  CallbacksInv'
  BY <1>1, <1>3 DEF SocketAdd, SocketRemove, agentVars, tree, context, selectVars
<1>4. ASSUME NEW s \in Socks, Give_up(s) \/ Orphan(s) \/ AgentCallback(s)
      PROVE  CallbacksInv'
  BY <1>1, <1>4 DEF Give_up, Orphan, AgentCallback, Next_, agentVars, tree, context, CallbacksInv
<1>5. ASSUME NEW s \in Socks, ApplicationCallback(s) PROVE CallbacksInv'
  BY <1>5 DEF ApplicationCallback, Next_, agentVars, tree, context, CallbacksInv
<1>6. CASE Select \/ ApplicationReturns \/ ReadingDone
  <2>1. SystemRunning' = SystemRunning /\ phase' = phase /\ frames' = frames
    BY <1>6 DEF Select, ApplicationReturns, ReadingDone, agentVars, tree, context
  <2> QED
    BY <1>6, <2>1 DEF Select, ApplicationReturns, ReadingDone, selectVars, CallbacksInv, Modes
<1>7. CASE CallbackReturns
  BY <1>1, <1>7 DEF CallbackReturns, InScript, CallbacksInv, selectVars
<1>8. CASE TriggerReturns
  BY <1>8 DEF TriggerReturns, EndTrigger, CallbacksInv, Modes, context
<1>9. CASE ScriptRaises \/ ApplicationRaises
  BY <1>9 DEF ScriptRaises, Raise, ApplicationRaises, CallbacksInv, Modes, context
<1>10. CASE UNCHANGED socketsVars
  BY <1>1, <1>10 DEF socketsVars, agentVars, tree, context, selectVars
<1>11. CASE ResetAgents
  BY <1>11 DEF ResetAgents, Reset, selectVars, CallbacksInv, context
<1> QED
  BY <1>2, <1>3, <1>4, <1>5, <1>6, <1>7, <1>8, <1>9, <1>10, <1>11 DEF Next

TriggerInv == AgentsInv /\ SocketsInv /\ AdderInv /\ SystemStarts /\ CallbacksInv

LEMMA TriggerInvariant == Spec => []TriggerInv
<1>1. Init => TriggerInv
  <2> SUFFICES ASSUME Init PROVE TriggerInv
    OBVIOUS
  <2>1. AdderInv
    BY DEF Init, AdderInv, Set!Empty
  <2>2. CallbacksInv
    BY DEF Init, AgentsInit, CallbacksInv, Modes
  <2>3. SystemStarts
    BY DEF Init, AgentsInit, SystemStarts
  <2> QED
    BY <2>1, <2>2, <2>3, AgentsInitInv, SocketsInitInv DEF Init, TriggerInv
<1>2. TriggerInv /\ [Next]_socketsVars => TriggerInv'
  BY AgentsOfSocketsNext, SocketsNextInv, AdderNext, StartsNext, CallbacksNext DEF TriggerInv
<1> QED
  BY <1>1, <1>2, PTL DEF Spec

(* When no script runs and no error has left self_ stale, the application is  *)
(* in its own _ENV: in its callbacks and when Trigger returns.               *)
LEMMA ApplicationIsCurrent == TriggerInv /\ calling => self_ = App
  BY DEF TriggerInv, AgentsInv, ControlInv, CallbacksInv, Modes

(* Callbacks of sockets that are ready for reading run in the _ENV of the     *)
(* agent that called socket_add() last, and not for one that was removed      *)
(* after select() reported it, unless it was an agent of a system that was    *)
(* reset since then; whatever they do, stop, call other agents or switch, the *)
(* application is in its own _ENV when they have returned                     *)
(* (engine.lua:630-649).                                                    *)
THEOREM CallbacksRunForTheAdder == Spec => CalledInTheEnvOfTheAdder
<1>1. ASSUME TriggerInv, TriggerInv', NEW s \in Socks, step = "r", AgentCallback(s) \/ ApplicationCallback(s)
      PROVE  addedBy["r"][s] \in {Former, {IF calling' THEN App ELSE self_'}}
  <2>1. addedBy["r"][s] \in {Former, {RdSet.info[s].pid}}
    BY <1>1 DEF TriggerInv, AdderInv, AgentCallback, ApplicationCallback, CallbackOf
  <2>2. CASE AgentCallback(s)
    BY <2>1, <2>2 DEF AgentCallback, Next_, CallbackOf, SwitchTo, SwitchFrom
  <2>3. CASE ApplicationCallback(s)
    BY <2>1, <2>3 DEF ApplicationCallback, CallbackOf
  <2> QED
    BY <1>1, <2>2, <2>3
<1>2. ASSUME TriggerInv, TriggerInv', calling' \/ TriggerReturns
      PROVE  self_' = App
  <2>1. CASE calling'
    <3>1. (TriggerInv /\ calling => self_ = App)'
      BY ApplicationIsCurrent, PTL
    <3> QED
      BY <1>2, <2>1, <3>1
  <2>2. CASE TriggerReturns
    BY <1>2, <2>2
    DEF TriggerReturns, EndTrigger, context, TriggerInv, AgentsInv, ControlInv, CallbacksInv
  <2> QED
    BY <1>2, <2>1, <2>2
<1>3. TriggerInv /\ TriggerInv' =>
        [/\ \A s \in Socks : step = "r" /\ (AgentCallback(s) \/ ApplicationCallback(s)) =>
              addedBy["r"][s] \in {Former, {IF calling' THEN App ELSE self_'}}
         /\ calling' \/ TriggerReturns => self_' = App]_socketsVars
  BY <1>1, <1>2
<1> QED
  BY <1>3, TriggerInvariant, PTL DEF CalledInTheEnvOfTheAdder

(* With callbacks of agents and of the application between the others, every  *)
(* script still runs in its own _ENV, every SwitchBack() finds where to        *)
(* return to, and ENV holds who lives or is to be released: Sockets lets       *)
(* callbacks do all that Agents lets scripts do.                             *)
THEOREM CallbacksKeepTheStack ==
  Spec => [](EnvMatchesCallStack /\ SwitchBackSafe /\ NothingLeaks)
<1>1. TriggerInv => EnvMatchesCallStack /\ SwitchBackSafe /\ NothingLeaks
  BY ScriptsFindTheirEnv, SwitchBacksAreSafe DEF TriggerInv, AgentsInv, EntriesInv
<1> QED
  BY <1>1, TriggerInvariant, PTL

==============================================================================
