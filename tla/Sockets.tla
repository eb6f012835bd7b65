------------------------------- MODULE Sockets -------------------------------
(***************************************************************************)
(* The sockets that Trigger monitors for scripts and for the application     *)
(* (engine.lua:577), with the agents in full: callbacks run in the _ENV of   *)
(* the agent that added the socket, which may stop, in this or another        *)
(* callback, or be gone.  socket.select() is external: it reports any of the *)
(* monitored sockets, in any order; one that is closed is never ready, and    *)
(* one that a script closes is never reported.                              *)
(*                                                                          *)
(* Whether it blocks, and the signals, are in EventLoop and Engine.          *)
(***************************************************************************)
EXTENDS Agents, SequencesExt

CONSTANTS
  Socks,    \* the sockets
  Writers,  \* bound: whose sockets are monitored for writing, 0 the application's
  NoInfo    \* nil

VARIABLES
  RdSet, WrSet,
  step,      \* of Trigger: "dispatch", then "r" and "w", the two DoSocketCallbacks
  fdset,     \* what that one still has to go through
  writable,  \* the result of select() that waits for the other
  calling,   \* a callback of the application runs
  closed,    \* the sockets that the engine has closed
  addedBy    \* not in the engine: who added a socket, for reading and for writing

Set == INSTANCE Array WITH Values <- Socks

socketVars == <<RdSet, WrSet, closed, addedBy>>
selectVars == <<step, fdset, writable, calling>>
socketsVars == <<agentVars, socketVars, selectVars>>

Modes == {"r", "w"}
Nobody == {}
Former == {MaxPid + 1}   \* an agent of a system that has been reset: pids start anew

Init ==
  /\ AgentsInit
  /\ RdSet = Set!Empty /\ WrSet = Set!Empty
  /\ step = "dispatch" /\ fdset = <<>> /\ writable = <<>> /\ calling = FALSE
  /\ closed = {} /\ addedBy = [m \in Modes |-> [s \in Socks |-> Nobody]]

-----------------------------------------------------------------------------
(* What scripts do with sockets, and the application between two triggers    *)
(* and in its callbacks.  (After an error self_ is not 0 until the next       *)
(* create_system(), reset or not: the application adds none there.)          *)
ApplicationRuns == frames = <<>> /\ self_ = App /\ (phase = "idle" \/ calling)
CallerRuns == frames # <<>> \/ ApplicationRuns  \* also after the agent has terminated

(* { callback, pid }: the callback is one for reading or one for writing.    *)
(* The pid is all that the engine knows of who added the socket.             *)
Info(mode) == [callback |-> mode, pid |-> self_]

SocketAdd(s, mode) ==
  /\ CallerRuns /\ s \notin closed
  /\ mode = "w" => self_ \in Writers
  /\ IF mode = "r" THEN RdSet' = Set!Insert(RdSet, s, Info("r")) /\ UNCHANGED WrSet
                   ELSE WrSet' = Set!Insert(WrSet, s, Info("w")) /\ UNCHANGED RdSet
  /\ addedBy' = [addedBy EXCEPT ![mode][s] = {self_}]
  /\ UNCHANGED <<agentVars, closed, selectVars>>

SocketRemove(s, mode) ==
  /\ CallerRuns
  /\ IF mode = "r" THEN RdSet' = Set!Remove(RdSet, s) /\ UNCHANGED WrSet
                   ELSE WrSet' = Set!Remove(WrSet, s) /\ UNCHANGED RdSet
  /\ addedBy' = [addedBy EXCEPT ![mode][s] = Nobody]
  /\ UNCHANGED <<agentVars, closed, selectVars>>

-----------------------------------------------------------------------------
(* Trigger, after the flush.                                                *)

Reported(set) == UNION {SetToSeqs(S) : S \in SUBSET (ToSet(set.list) \ closed)}

Select ==
  /\ phase = "flush" /\ frames = <<>> /\ step = "dispatch"
  /\ RdSet.list # <<>> \/ WrSet.list # <<>>
  /\ fdset' \in Reported(RdSet) /\ writable' \in Reported(WrSet)
  /\ step' = "r"
  /\ UNCHANGED <<agentVars, socketVars, calling>>

(* DoSocketCallbacks, for the first of the sockets that are left.  For both  *)
(* of its calls it looks for the callback among those for reading.           *)
Next_(s) ==
  /\ step \in Modes /\ frames = <<>> /\ ~calling
  /\ fdset # <<>> /\ s = Head(fdset)

CallbackOf(s) == RdSet.info[s]

(* "wtf?": the socket is not monitored any more; the others are left.        *)
Give_up(s) ==
  /\ Next_(s) /\ CallbackOf(s) = NoInfo
  /\ fdset' = <<>>
  /\ UNCHANGED <<agentVars, socketVars, step, writable, calling>>

ApplicationCallback(s) ==
  /\ Next_(s) /\ CallbackOf(s) # NoInfo /\ CallbackOf(s).pid = App
  /\ calling' = TRUE /\ fdset' = Tail(fdset)
  /\ UNCHANGED <<agentVars, socketVars, step, writable>>

ApplicationReturns ==
  /\ calling
  /\ calling' = FALSE
  /\ UNCHANGED <<agentVars, socketVars, step, fdset, writable>>

AgentCallback(s) ==
  /\ Next_(s) /\ CallbackOf(s) # NoInfo
  /\ CallbackOf(s).pid \in ENV \ {App}
  /\ SwitchTo(CallbackOf(s).pid, "callback")
  /\ fdset' = Tail(fdset)
  /\ UNCHANGED <<NextPid, SystemRunning, tree, state_, phase, socketVars, step, writable, calling>>

CallbackReturnsForgetting ==  \* a wrong variant: an early return without SwitchBack()
  /\ InScript("callback")
  /\ frames' = Rest(frames)
  /\ UNCHANGED <<NextPid, SystemRunning, tree, state_, phase, self_, PidStack, socketVars, selectVars>>

CallbackReturns ==
  /\ InScript("callback")
  /\ SwitchBack
  /\ UNCHANGED <<NextPid, SystemRunning, tree, state_, phase, socketVars, selectVars>>

(* The agent is gone: the socket is closed, and removed from the set at hand. *)
Orphan(s) ==
  /\ Next_(s) /\ CallbackOf(s) # NoInfo
  /\ CallbackOf(s).pid \notin ENV
  /\ closed' = closed \cup {s}
  /\ IF step = "r" THEN RdSet' = Set!Remove(RdSet, s) /\ UNCHANGED WrSet
                   ELSE WrSet' = Set!Remove(WrSet, s) /\ UNCHANGED RdSet
  /\ addedBy' = [addedBy EXCEPT ![step][s] = Nobody]
  /\ fdset' = Tail(fdset)
  /\ UNCHANGED <<agentVars, step, writable, calling>>

ReadingDone ==
  /\ step = "r" /\ fdset = <<>> /\ frames = <<>> /\ ~calling
  /\ step' = "w" /\ fdset' = writable /\ writable' = <<>>
  /\ UNCHANGED <<agentVars, socketVars, calling>>

(* The RdSet and WrSet of ResetSystem (line 106) are not those of line 595:  *)
(* the sockets that agents added stay there, with pids that the agents of    *)
(* the next system get.  (For writing it does not matter here who it was.)   *)
Outlived ==
  [addedBy EXCEPT !["r"] =
     [s \in Socks |-> IF @[s] \in {Nobody, {App}} THEN @[s] ELSE Former]]

TriggerReturns ==
  /\ \/ step = "w" /\ fdset = <<>> /\ ~calling
     \/ step = "dispatch" /\ RdSet.list = <<>> /\ WrSet.list = <<>>
  /\ EndTrigger
  /\ step' = "dispatch"
  /\ addedBy' = IF SystemPid \in ReleaseQueue THEN Outlived ELSE addedBy
  /\ UNCHANGED <<RdSet, WrSet, closed, fdset, writable, calling>>

ResetAgents ==
  /\ Reset
  /\ addedBy' = Outlived
  /\ UNCHANGED <<RdSet, WrSet, closed, selectVars>>

(* An error leaves Trigger at once.                                         *)
ScriptRaises ==
  /\ Raise
  /\ step' = "dispatch" /\ fdset' = <<>> /\ writable' = <<>>
  /\ UNCHANGED <<socketVars, calling>>

(* So does one in a callback of the application.                             *)
ApplicationRaises ==
  /\ calling /\ calling' = FALSE
  /\ phase' = "error"
  /\ step' = "dispatch" /\ fdset' = <<>> /\ writable' = <<>>
  /\ UNCHANGED <<NextPid, SystemRunning, tree, state_, context, socketVars>>

-----------------------------------------------------------------------------
AgentStep ==
  /\ \/ CreateSystem \/ Create \/ CreateUncompiled \/ CreateDuplicate \/ Procedure
     \/ Stop \/ ProcedureReturn \/ AtReturnDone
     \/ \E s \in States : NextState(s)
     \/ StartReturn \/ StartFails \/ SystemStartFails
     \/ \E pid \in Pids : RemoteCall(pid) \/ (step = "dispatch" /\ Dispatch(pid))
     \/ RemoteReturn \/ TransitionReturn
     \/ BeginTrigger
  /\ UNCHANGED <<socketVars, selectVars>>

Next ==
  \/ AgentStep
  \/ \E s \in Socks, mode \in Modes : SocketAdd(s, mode) \/ SocketRemove(s, mode)
  \/ Select
  \/ \E s \in Socks : Give_up(s) \/ ApplicationCallback(s) \/ AgentCallback(s) \/ Orphan(s)
  \/ ApplicationReturns \/ CallbackReturns \/ ReadingDone
  \/ TriggerReturns \/ ResetAgents \/ ScriptRaises \/ ApplicationRaises

Spec == Init /\ [][Next]_socketsVars

-----------------------------------------------------------------------------
(* The sets of sockets survive what callbacks add and remove while the result *)
(* of select() is gone through: indices and infos stay those of the sockets   *)
(* that are monitored (array.lua).                                          *)
MonitoredExactly ==
  /\ Set!Exact(RdSet) /\ Set!Exact(WrSet)
  /\ \A s \in Socks :
       /\ addedBy["r"][s] # Nobody <=> s \in ToSet(RdSet.list)
       /\ addedBy["w"][s] # Nobody <=> s \in ToSet(WrSet.list)

(* "executed [...] in the dedicated _ENV of the agent that called this        *)
(* function" (doc/sockets.adoc:10), the last one that did, and not if the     *)
(* socket was removed after select() reported it, by another callback or an   *)
(* agent that stopped: for sockets that are ready for reading and were added  *)
(* by the application or since the last reset.  (One that an agent left       *)
(* behind in a reset is called for whoever has its pid now.)  However         *)
(* callbacks end, the application is in its own _ENV when Trigger returns.    *)
CalledInTheEnvOfTheAdder ==
  [][/\ \A s \in Socks : step = "r" /\ (AgentCallback(s) \/ ApplicationCallback(s)) =>
          addedBy["r"][s] \in {Former, {IF calling' THEN App ELSE self_'}}
     /\ calling' \/ TriggerReturns => self_' = App]_socketsVars

=============================================================================
