-------------------------------- MODULE Agents --------------------------------
(***************************************************************************)
(* The agents of moonagents/engine.lua: their creation, their tree, the     *)
(* procedures that replace them, their termination, and the switching of    *)
(* _ENV between them.                                                       *)
(*                                                                          *)
(* The engine runs in one thread but is re-entrant: the scripts it calls    *)
(* (start transitions, transitions, atreturn functions, exported functions) *)
(* call it back.  A step is what the engine does between two moments when a *)
(* script runs.  `frames' are the engine calls that wait for a script to    *)
(* return, each with the agent in whose _ENV the script must run.           *)
(*                                                                          *)
(* The module leaves out the signals: any pid may be dispatched to.  Names  *)
(* are known only as far as they can clash.                                 *)
(***************************************************************************)
EXTENDS Integers, Sequences, FiniteSets

CONSTANTS
  MaxPid,       \* bound: pids that are assigned between two resets
  MaxDepth,     \* bound: engine calls that can be nested
  MaxLeftover,  \* bound: how far errors may let PidStack grow
  States,       \* names of the scripts' states
  Startup, Nil  \* the special first state, and "no state": stopping

ASSUME BoundsAssumption == MaxPid \in Nat /\ MaxDepth \in Nat \ {0} /\ MaxLeftover \in Nat
ASSUME StatesAssumption == Startup \notin States /\ Nil \notin States /\ Startup # Nil

Pids == 1 .. MaxPid
SystemPid == 1           \* the first pid after a reset
App == 0                 \* the application; also "nobody"
None == 0

VARIABLES
  NextPid, SystemRunning,
  ENV,                   \* the pids with an entry, 0 is the application's
  moonagents_,           \* the pids with a moonagents_ table: not terminated
  state_, parent_, caller_, \* special variables of each agent
  children, procedure,   \* fields of its moonagents_ table
  ReleaseQueue,          \* terminated, entry still to be removed from ENV
  self_, PidStack,       \* whose _ENV is current, and whose are suspended
  frames,                \* the scripts that the engine is running
  phase                  \* "idle", "flush" (in Trigger) or "error" (raised)

tree == <<ENV, moonagents_, parent_, caller_, children, procedure, ReleaseQueue>>
context == <<self_, PidStack, frames>>
agentVars == <<NextPid, SystemRunning, tree, state_, context, phase>>

Top(s) == s[Len(s)]
Rest(s) == SubSeq(s, 1, Len(s) - 1)

Nowhere == [p \in Pids |-> None]

(* ResetSystem, but for self_ and PidStack: that the PidStack it assigns    *)
(* (line 100) is not the one of line 321 is the code's doing.               *)
Cleared ==
  /\ NextPid' = 1 /\ SystemRunning' = FALSE
  /\ ENV' = {} /\ moonagents_' = {} /\ ReleaseQueue' = {}
  /\ state_' = [p \in Pids |-> Nil]
  /\ parent_' = Nowhere /\ caller_' = Nowhere /\ procedure' = Nowhere
  /\ children' = [p \in Pids |-> {}]

AgentsInit ==
  /\ NextPid = 1 /\ SystemRunning = FALSE
  /\ ENV = {} /\ moonagents_ = {} /\ ReleaseQueue = {}
  /\ state_ = [p \in Pids |-> Nil]
  /\ parent_ = Nowhere /\ caller_ = Nowhere /\ procedure = Nowhere
  /\ children = [p \in Pids |-> {}]
  /\ self_ = App /\ PidStack = <<>> /\ frames = <<>>
  /\ phase = "idle"

-----------------------------------------------------------------------------
(* Context switches.                                                       *)

SwitchFrom(current, pid, kind) ==
  /\ Len(frames) < MaxDepth
  /\ PidStack' = Append(PidStack, current)
  /\ self_' = pid
  /\ frames' = Append(frames, [kind |-> kind, pid |-> pid])

SwitchTo(pid, kind) == SwitchFrom(self_, pid, kind)

SwitchBackForgotten ==  \* a wrong variant: an early return without SwitchBack()
  /\ frames' = Rest(frames)
  /\ UNCHANGED <<self_, PidStack>>

SwitchBack ==
  /\ self_' = Top(PidStack)
  /\ PidStack' = Rest(PidStack)
  /\ frames' = Rest(frames)

InScript(kind) == frames # <<>> /\ Top(frames).kind = kind
Idle == frames = <<>> /\ phase = "idle"

(* The script that runs may call the engine: its agent has not terminated. *)
Running == frames # <<>> /\ self_ \in moonagents_

-----------------------------------------------------------------------------
(* NewAgent, up to where the start transition runs.                        *)

Born(pid, parent, original, state) ==
  /\ pid \in Pids
  /\ NextPid' = NextPid + 1
  /\ moonagents_' = moonagents_ \cup {pid}
  /\ parent_' = [parent_ EXCEPT ![pid] = parent]
  /\ caller_' = [caller_ EXCEPT ![pid] = original]
  /\ state_' = [state_ EXCEPT ![pid] = state]
  /\ children' = [p \in Pids |-> IF p = parent THEN children[p] \cup {pid} ELSE children[p]]
  /\ UNCHANGED <<ReleaseQueue, phase>>

CreateSystem ==
  /\ Idle /\ ~SystemRunning
  /\ SystemRunning' = TRUE
  /\ ENV' = {App, NextPid}
  /\ Born(NextPid, App, None, Startup)
  /\ SwitchFrom(App, NextPid, "start")  \* line 1107: self_ = 0
  /\ UNCHANGED procedure

Create ==
  /\ Running
  /\ ENV' = ENV \cup {NextPid}
  /\ Born(NextPid, self_, None, Startup)
  /\ SwitchTo(NextPid, "start")
  /\ UNCHANGED <<SystemRunning, procedure>>

(* The script of the new agent does not compile: state_ is still nil, so     *)
(* that stop() does nothing (line 911), and the error goes to the script     *)
(* that created it, which may catch it.  The agent stays, and never runs.    *)
CreateUncompiled ==
  /\ Running
  /\ ENV' = ENV \cup {NextPid}
  /\ Born(NextPid, self_, None, Nil)
  /\ UNCHANGED <<SystemRunning, procedure, context>>

(* The name of the new agent is the name of a sibling: its pid is lost.     *)
CreateDuplicate ==
  /\ Running /\ children[self_] # {}
  /\ NextPid \in Pids /\ NextPid' = NextPid + 1
  /\ UNCHANGED <<SystemRunning, tree, state_, context, phase>>

OriginalCaller(p) == IF caller_[p] # None THEN caller_[p] ELSE p

ProcedureOfParent ==  \* a wrong variant: caller_ is the direct caller
  /\ Running /\ procedure[self_] = None
  /\ ENV' = ENV \cup {NextPid}
  /\ Born(NextPid, self_, self_, Startup)
  /\ procedure' = [procedure EXCEPT ![self_] = NextPid]
  /\ SwitchTo(NextPid, "start")
  /\ UNCHANGED SystemRunning

Procedure ==
  /\ Running /\ procedure[self_] = None
  /\ ENV' = ENV \cup {NextPid}
  /\ Born(NextPid, self_, OriginalCaller(self_), Startup)
  /\ procedure' = [procedure EXCEPT ![self_] = NextPid]
  /\ SwitchTo(NextPid, "start")
  /\ UNCHANGED SystemRunning

-----------------------------------------------------------------------------
(* Terminate climbs: it frees the agent, then its parent if that is         *)
(* stopping and has lost its last child, and so on.  T is what is freed.    *)

(* It has stopped, or never ran, and no child will terminate in it.         *)
Zombie(p) == state_[p] = Nil /\ children[p] = {}

LastChild(q, c) == c \in children[q] /\ children[q] \ {c} = {}

IsCascadeOfOne(p, T) == T = {p}  \* a wrong variant: does not climb

IsCascade(p, T) ==
  /\ p \in T /\ T \subseteq Pids
  /\ \A q \in T \ {p} : state_[q] = Nil /\ \E c \in T : LastChild(q, c)
  /\ \A c \in T, q \in Pids : state_[q] = Nil /\ LastChild(q, c) => q \in T

TerminateReleasing(T) ==  \* a wrong variant: the line that was commented out
  /\ moonagents_' = moonagents_ \ T
  /\ ENV' = ENV \ T
  /\ ReleaseQueue' = ReleaseQueue \cup T
  /\ children' = [p \in Pids |-> IF p \in T THEN {} ELSE children[p] \ T]
  /\ procedure' = [p \in Pids |-> IF p \in T THEN None ELSE procedure[p]]
  /\ UNCHANGED <<parent_, caller_>>

TerminateUnqueued(T) ==  \* a wrong variant: the entries stay in ENV forever
  /\ moonagents_' = moonagents_ \ T
  /\ children' = [p \in Pids |-> IF p \in T THEN {} ELSE children[p] \ T]
  /\ procedure' = [p \in Pids |-> IF p \in T THEN None ELSE procedure[p]]
  /\ UNCHANGED <<ENV, ReleaseQueue, parent_, caller_>>

Terminate(T) ==
  /\ moonagents_' = moonagents_ \ T
  /\ ReleaseQueue' = ReleaseQueue \cup T
  /\ children' = [p \in Pids |-> IF p \in T THEN {} ELSE children[p] \ T]
  /\ procedure' = [p \in Pids |-> IF p \in T THEN None ELSE procedure[p]]
  /\ UNCHANGED <<ENV, parent_, caller_>>

(* "mark as 'stopping'", and terminate if there are no children             *)
Stopping(p) ==
  /\ state_' = [state_ EXCEPT ![p] = Nil]
  /\ IF children[p] = {}
     THEN \E T \in SUBSET Pids : IsCascade(p, T) /\ Terminate(T)
     ELSE UNCHANGED tree

Stop ==
  /\ Running /\ caller_[self_] = None
  /\ state_[self_] # Nil
  /\ Stopping(self_)
  /\ UNCHANGED <<NextPid, SystemRunning, context, phase>>

ProcedureReturnDangling ==  \* a wrong variant: the caller stays replaced
  /\ Running /\ caller_[self_] # None
  /\ state_[self_] # Nil
  /\ procedure[parent_[self_]] = self_
  /\ SwitchTo(parent_[self_], "atreturn")
  /\ UNCHANGED <<NextPid, SystemRunning, tree, state_, phase>>

(* ProcedureReturn up to the atreturn function, which runs in the caller's  *)
(* _ENV; atreturn = nil returns at once, a string does one NextState.  A    *)
(* procedure returns once: nothing should follow (doc/procedures.adoc).     *)
ProcedureReturn ==
  /\ Running /\ caller_[self_] # None
  /\ state_[self_] # Nil
  /\ procedure[parent_[self_]] = self_
  /\ procedure' = [procedure EXCEPT ![parent_[self_]] = None]
  /\ SwitchTo(parent_[self_], "atreturn")
  /\ UNCHANGED <<NextPid, SystemRunning, ENV, moonagents_, parent_, caller_, children,
                 ReleaseQueue, state_, phase>>

(* ... and from there to its end, in the procedure's _ENV again.            *)
AtReturnDone ==
  /\ InScript("atreturn")
  /\ SwitchBack
  /\ Stopping(Top(PidStack))
  /\ UNCHANGED <<NextPid, SystemRunning, phase>>

NextState(s) ==
  /\ Running
  /\ state_[self_] # Nil
  /\ state_' = [state_ EXCEPT ![self_] = s]
  /\ UNCHANGED <<NextPid, SystemRunning, tree, context, phase>>

-----------------------------------------------------------------------------
(* NewAgent, after the start transition.                                   *)

StartReturn ==
  /\ InScript("start") /\ state_[self_] # Startup
  /\ SwitchBack
  /\ UNCHANGED <<NextPid, SystemRunning, tree, state_, phase>>

(* The start transition raises an error, or returns without a first state:  *)
(* the agent is stopped and the error goes to the script that created it,   *)
(* which may catch it.  For a procedure stop() raises, see Raise.           *)
StartFails ==
  /\ InScript("start") /\ self_ # SystemPid /\ caller_[self_] = None
  /\ SwitchBack
  /\ IF state_[self_] # Nil THEN Stopping(self_) ELSE UNCHANGED <<tree, state_>>
  /\ UNCHANGED <<NextPid, SystemRunning, phase>>

(* The system agent is not stopped: the application is told.  Its script    *)
(* may also not compile, which no later step can tell from this.            *)
SystemStartFails ==
  /\ InScript("start") /\ self_ = SystemPid
  /\ SwitchBack
  /\ phase' = "error"
  /\ UNCHANGED <<NextPid, SystemRunning, tree, state_>>

(* An error goes to the application, which can then only reset the system:   *)
(* nothing is unwound.  That is also the way of one raised while a script    *)
(* is loaded (line 481), and of what a procedure does that does not compile  *)
(* or fails to start, because stop() raises (line 909).  The model stops     *)
(* here, too, if a start transition is pending whose pcall (line 493) would  *)
(* catch the error: what is left out is that NewAgent then goes on in the    *)
(* _ENV of whoever raised it.                                                *)
Raise ==
  /\ frames # <<>>
  /\ Len(PidStack) <= MaxLeftover
  /\ frames' = <<>> /\ phase' = "error"
  /\ UNCHANGED <<NextPid, SystemRunning, tree, state_, self_, PidStack>>

-----------------------------------------------------------------------------
(* RemoteCall, by an agent or by the application, of a function exported by *)
(* an agent that is active or stopping.  One whose script did not compile    *)
(* exports nothing.                                                          *)
RemoteCall(pid) ==
  /\ Running \/ (Idle /\ SystemRunning)
  /\ pid \in moonagents_ /\ ~Zombie(pid)
  /\ SwitchTo(pid, "remote")
  /\ UNCHANGED <<NextPid, SystemRunning, tree, state_, phase>>

RemoteReturn ==
  /\ InScript("remote")
  /\ SwitchBack
  /\ UNCHANGED <<NextPid, SystemRunning, tree, state_, phase>>

-----------------------------------------------------------------------------
(* Trigger, with Dispatch for the signals it takes.                        *)

BeginTrigger ==
  /\ Idle /\ SystemRunning
  /\ phase' = "flush"
  /\ UNCHANGED <<NextPid, SystemRunning, tree, state_, context>>

(* The innermost nested procedure.                                         *)
OnBehalfOf[p \in Pids] == IF procedure[p] = None THEN p ELSE OnBehalfOf[procedure[p]]

DestinationOneLevel(pid) ==  \* a wrong variant: forgets nested procedures
  IF procedure[pid] = None THEN pid ELSE procedure[pid]

Destination(pid) == OnBehalfOf[pid]

ReceivingAnyway(pid) == pid \in ENV \ {App}  \* a wrong variant: also if it is stopping

Receiving(pid) == pid \in ENV \ {App} /\ state_[pid] # Nil

(* A signal that is not discarded runs a transition of the destination, or  *)
(* of the procedure that replaces it.                                       *)
Dispatch(pid) ==
  /\ phase = "flush" /\ frames = <<>>
  /\ Receiving(pid) /\ Receiving(Destination(pid))
  /\ SwitchTo(Destination(pid), "transition")
  /\ UNCHANGED <<NextPid, SystemRunning, tree, state_, phase>>

TransitionReturn ==
  /\ InScript("transition")
  /\ SwitchBack
  /\ UNCHANGED <<NextPid, SystemRunning, tree, state_, phase>>

(* Release, then ResetSystem if the system agent was among the released.    *)
ReleaseEntries ==
  /\ ENV' = ENV \ ReleaseQueue
  /\ ReleaseQueue' = {}
  /\ parent_' = [p \in Pids |-> IF p \in ReleaseQueue THEN None ELSE parent_[p]]
  /\ caller_' = [p \in Pids |-> IF p \in ReleaseQueue THEN None ELSE caller_[p]]
  /\ UNCHANGED <<NextPid, SystemRunning, moonagents_, children, procedure, state_>>

ReleaseWithoutReset == ReleaseEntries  \* a wrong variant: the system never stops

Release == IF SystemPid \in ReleaseQueue THEN Cleared ELSE ReleaseEntries

EndTrigger ==
  /\ phase = "flush" /\ frames = <<>>
  /\ Release
  /\ phase' = "idle"
  /\ UNCHANGED context

(* The application resets the system, "only on system error" or at will.    *)
Reset ==
  /\ frames = <<>> /\ phase # "flush"
  /\ Cleared
  /\ phase' = "idle"
  /\ UNCHANGED context

-----------------------------------------------------------------------------
AgentsNext ==
  \/ CreateSystem \/ Create \/ CreateUncompiled \/ CreateDuplicate \/ Procedure
  \/ Stop \/ ProcedureReturn \/ AtReturnDone
  \/ \E s \in States : NextState(s)
  \/ StartReturn \/ StartFails \/ SystemStartFails \/ Raise
  \/ \E pid \in Pids : RemoteCall(pid) \/ Dispatch(pid)
  \/ RemoteReturn \/ TransitionReturn
  \/ BeginTrigger \/ EndTrigger \/ Reset

AgentsSpec == AgentsInit /\ [][AgentsNext]_agentVars

-----------------------------------------------------------------------------
Kinds == {"start", "transition", "atreturn", "remote", "callback"}  \* the last in Sockets

(* Every variable of the engine keeps its type; the stack of pids does not grow *)
(* beyond the calls that are pending and what errors have left.              *)
AgentsTypeOK ==
  /\ NextPid \in 1 .. MaxPid + 1 /\ SystemRunning \in BOOLEAN
  /\ ENV \subseteq 0 .. MaxPid /\ moonagents_ \subseteq Pids /\ ReleaseQueue \subseteq Pids
  /\ state_ \in [Pids -> States \cup {Startup, Nil}]
  /\ parent_ \in [Pids -> 0 .. MaxPid] /\ caller_ \in [Pids -> 0 .. MaxPid]
  /\ children \in [Pids -> SUBSET Pids] /\ procedure \in [Pids -> 0 .. MaxPid]
  /\ self_ \in 0 .. MaxPid
  /\ PidStack \in Seq(0 .. MaxPid) /\ Len(PidStack) <= MaxLeftover + MaxDepth
  /\ frames \in Seq([kind : Kinds, pid : Pids]) /\ Len(frames) <= MaxDepth
  /\ phase \in {"idle", "flush", "error"}

(* Where the SwitchBack() of the i-th frame returns to.  What errors left    *)
(* on the stack before is never reached.                                     *)
Pending(i) == PidStack[Len(PidStack) - Len(frames) + i]

(* Every pending SwitchBack() (engine.lua:340) finds an environment to      *)
(* return to, although the suspended agent may be stopped, and terminate,   *)
(* while scripts of other agents run on top of it.                          *)
SwitchBackSafe ==
  /\ Len(PidStack) >= Len(frames)
  /\ \A i \in DOMAIN frames : Pending(i) \in ENV
  /\ frames # <<>> => self_ \in ENV

(* When a script runs, every agent that has an entry in ENV has a moonagents_ *)
(* table: "Any signal already scheduled to this pid will be discarded by the  *)
(* dispatcher" (line 563), and one that is sent to it now goes the same way,  *)
(* because Send1 (line 950) finds the priorities that the agent imposes.      *)
SendFindsInputPriority == frames # <<>> => ENV \ {App} \subseteq moonagents_

(* Every script runs in the _ENV of its own agent, and finds it again after *)
(* each call it makes; Trigger and the application run in the application's. *)
EnvMatchesCallStack ==
  /\ frames # <<>> => self_ = Top(frames).pid
  /\ frames = <<>> /\ SystemRunning /\ phase # "error" => self_ = App
  /\ \A i \in DOMAIN frames : Pending(i) = IF i = 1 THEN App ELSE frames[i - 1].pid

(* The agents that have not terminated form a tree rooted in the system     *)
(* agent, and parent_ and children describe the same one: no agent outlives *)
(* its parent.                                                              *)
ParentsAndChildren ==
  \A p \in Pids :
    /\ p \in moonagents_ /\ p # SystemPid => parent_[p] \in moonagents_
    /\ children[p] = {c \in moonagents_ : parent_[c] = p}

(* Following the procedure fields (OnBehalfOf) never meets an agent that is *)
(* stopping or gone, and leads to procedures acting for the same original   *)
(* caller.                                                                  *)
ProcedureChainValid ==
  \A p \in Pids : procedure[p] # None =>
    LET c == procedure[p] IN
      /\ p \in moonagents_ /\ c \in children[p]
      /\ state_[c] # Nil
      /\ caller_[c] = OriginalCaller(p)

(* Whoever stops, returns or fails, and in whatever order: parent_, children *)
(* and procedure are about the same tree of living agents, which the system   *)
(* agent is the last to leave (doc/stop.adoc).                               *)
TreeConsistent == ParentsAndChildren /\ ProcedureChainValid

(* A stopping agent terminates with its last child (Terminate, line 569):    *)
(* no step leaves one without children behind, except that an agent may be   *)
(* born so (CreateUncompiled), and then its parent never terminates either.  *)
NoZombie ==
  [][\A p \in moonagents_' : Zombie(p)' => p \notin moonagents_ \/ Zombie(p)]_agentVars

(* Every entry of ENV is the application's, an agent's that has not         *)
(* terminated, or one that the next trigger releases.                       *)
NothingLeaks == ENV \ {App} = moonagents_ \cup ReleaseQueue

(* While its procedure has not returned, an agent takes no signal: the      *)
(* innermost of its nested procedures takes them, in its place.             *)
InnermostProcedureRuns ==
  [][\A p \in Pids : Dispatch(p) =>
       LET d == frames'[1].pid IN
         /\ procedure[d] = None
         /\ d # p => OriginalCaller(d) = OriginalCaller(p)]_agentVars

=============================================================================
