----------------------------- MODULE AgentsProofs -----------------------------
(***************************************************************************)
(* Proofs about Agents: scripts run in the _ENV of their agent, every        *)
(* SwitchBack() finds where to return to, ENV holds no stray entry, and the   *)
(* tree of agents stays consistent, for any number of agents and any depth of *)
(* calls.                                                                   *)
(***************************************************************************)
EXTENDS Agents, SequenceTheorems, FiniteSetTheorems, FunctionTheorems, WellFoundedInduction, TLAPS

Frames == [kind : Kinds, pid : Pids]

(* The tables of the agents.                                                 *)
TablesType ==
  /\ NextPid \in 1 .. MaxPid + 1 /\ SystemRunning \in BOOLEAN
  /\ ENV \subseteq 0 .. MaxPid /\ moonagents_ \subseteq Pids /\ ReleaseQueue \subseteq Pids
  /\ state_ \in [Pids -> States \cup {Startup, Nil}]
  /\ parent_ \in [Pids -> 0 .. MaxPid] /\ caller_ \in [Pids -> 0 .. MaxPid]
  /\ children \in [Pids -> SUBSET Pids] /\ procedure \in [Pids -> 0 .. MaxPid]
  /\ phase \in {"idle", "flush", "error"}

(* The three variables of the context switches: PidStack is as long as       *)
(* frames, and longer only by what errors left on it.                        *)
ContextType ==
  /\ self_ \in 0 .. MaxPid
  /\ PidStack \in Seq(0 .. MaxPid)
  /\ frames \in Seq(Frames)
  /\ Len(frames) <= MaxDepth
  /\ Len(frames) <= Len(PidStack)
  /\ Len(PidStack) <= MaxLeftover + Len(frames)

Caller(i) == IF i = 1 THEN App ELSE frames[i - 1].pid

CallStack ==
  /\ frames # <<>> => self_ = Top(frames).pid /\ frames[1].kind # "atreturn"
  /\ \A i \in 1 .. Len(frames) : Pending(i) = Caller(i)

(* What is in ENV.  The pids of the frames are in it because entries are     *)
(* removed only when no script runs.                                         *)
EntriesInv ==
  /\ NothingLeaks
  /\ moonagents_ \cap ReleaseQueue = {}
  /\ \A p \in ENV : p < NextPid
  /\ SystemRunning => App \in ENV
  /\ \A i \in 1 .. Len(frames) : frames[i].pid \in ENV

FieldsInv ==
  \A p \in Pids :
    /\ children[p] # {} => p \in moonagents_
    /\ procedure[p] # None => p \in moonagents_
    /\ caller_[p] # None => parent_[p] \in Pids

ControlInv ==
  /\ frames # <<>> => SystemRunning
  /\ frames = <<>> /\ SystemRunning /\ phase # "error" => self_ = App
  /\ ~SystemRunning => ENV = {}

AgentsInv == TablesType /\ ContextType /\ CallStack /\ EntriesInv /\ FieldsInv /\ ControlInv

-----------------------------------------------------------------------------
(* Sequences as stacks.                                                      *)

(* Append puts its element on top and moves nothing.                         *)
LEMMA PushStack ==
  ASSUME NEW Z, NEW s \in Seq(Z), NEW e \in Z
  PROVE  /\ Append(s, e) \in Seq(Z)
         /\ Len(Append(s, e)) = Len(s) + 1
         /\ \A i \in 1 .. Len(s) : Append(s, e)[i] = s[i]
         /\ Append(s, e)[Len(s) + 1] = e
  BY AppendProperties

(* Rest takes the top element off and moves nothing.                         *)
LEMMA PopStack ==
  ASSUME NEW Z, NEW s \in Seq(Z), s # <<>>
  PROVE  /\ Rest(s) \in Seq(Z)
         /\ Len(s) \in Nat \ {0}
         /\ Len(Rest(s)) = Len(s) - 1
         /\ \A i \in 1 .. Len(s) - 1 : Rest(s)[i] = s[i]
         /\ Top(s) \in Z
<1>1. Len(s) \in Nat \ {0}
  BY EmptySeq, LenProperties
<1>2. \A i \in 1 .. Len(s) : s[i] \in Z
  BY ElementOfSeq
<1>3. /\ Rest(s) \in Seq(Z)
      /\ Len(Rest(s)) = Len(s) - 1
      /\ \A i \in 1 .. Len(s) - 1 : Rest(s)[i] = s[i]
  <2>1. PICK n \in Nat : n = Len(s) - 1
    BY <1>1
  <2>2. \A i \in 1 .. n : s[i] \in Z
    BY <1>1, <1>2, <2>1
  <2>3. n \in Int /\ 1 \in Int
    BY <2>1
  <2>4. /\ SubSeq(s, 1, n) \in Seq(Z)
        /\ Len(SubSeq(s, 1, n)) = IF 1 <= n THEN n - 1 + 1 ELSE 0
        /\ \A i \in 1 .. n - 1 + 1 : SubSeq(s, 1, n)[i] = s[1 + i - 1]
    BY <2>2, <2>3, SubSeqProperties
  <2>5. n - 1 + 1 = n /\ \A i \in 1 .. n : 1 + i - 1 = i
    BY <2>1
  <2>6. Len(SubSeq(s, 1, n)) = n
    BY <2>1, <2>4
  <2>7. \A i \in 1 .. n : SubSeq(s, 1, n)[i] = s[i]
    BY <2>4, <2>5, Zenon
  <2> QED
    BY <2>1, <2>4, <2>6, <2>7 DEF Rest
<1>4. Top(s) \in Z
  BY <1>1, ElementOfSeq DEF Top
<1> QED
  BY <1>1, <1>3, <1>4

(* A push of the current agent extends the call stack by the new frame.      *)
LEMMA SwitchFromContext ==
  ASSUME ContextType, CallStack, NEW current \in 0 .. MaxPid,
         NEW pid \in Pids, NEW kind \in Kinds,
         SwitchFrom(current, pid, kind),
         current = Caller(Len(frames) + 1),
         frames = <<>> => kind # "atreturn"
  PROVE  /\ ContextType' /\ CallStack'
         /\ Len(frames') = Len(frames) + 1
         /\ \A i \in 1 .. Len(frames') :
              frames'[i].pid = IF i = Len(frames) + 1 THEN pid ELSE frames[i].pid
<1> DEFINE new == [kind |-> kind, pid |-> pid]
           n == Len(frames)
           m == Len(PidStack)
<1>1. new \in Frames
  BY DEF Frames
<1>2. /\ frames' \in Seq(Frames) /\ Len(frames') = n + 1
      /\ \A i \in 1 .. n : frames'[i] = frames[i]
      /\ frames'[n + 1] = new
  BY <1>1, PushStack DEF SwitchFrom, ContextType
<1>3. /\ PidStack' \in Seq(0 .. MaxPid) /\ Len(PidStack') = m + 1
      /\ \A i \in 1 .. m : PidStack'[i] = PidStack[i]
      /\ PidStack'[m + 1] = current
  BY PushStack DEF SwitchFrom, ContextType
<1>4. n \in Nat /\ m \in Nat /\ n <= m /\ n < MaxDepth /\ self_' = pid
  BY LenProperties DEF ContextType, SwitchFrom
<1>5. ContextType'
  BY <1>2, <1>3, <1>4, BoundsAssumption DEF ContextType, Pids
<1>6. self_' = Top(frames)'.pid
  BY <1>2, <1>4 DEF Top
<1>7. frames'[1].kind # "atreturn"
  <2>1. CASE frames = <<>>
    BY <1>2, <2>1, EmptySeq
  <2>2. CASE frames # <<>>
    BY <1>2, <1>4, <2>2, EmptySeq DEF CallStack, ContextType
  <2> QED
    BY <2>1, <2>2
<1>8. ASSUME NEW i \in 1 .. n + 1
      PROVE  Pending(i)' = Caller(i)'
  <2>1. Pending(i)' = PidStack'[m - n + i]
    BY <1>2, <1>3, <1>4 DEF Pending
  <2>2. CASE i = n + 1
    BY <1>2, <1>3, <1>4, <2>1, <2>2 DEF Caller
  <2>3. CASE i \in 1 .. n
    <3>1. PidStack'[m - n + i] = Pending(i)
      BY <1>3, <1>4, <2>3 DEF Pending
    <3>2. Caller(i)' = Caller(i)
      BY <1>2, <1>4, <2>3 DEF Caller
    <3> QED
      BY <2>1, <2>3, <3>1, <3>2 DEF CallStack
  <2> QED
    BY <1>4, <2>2, <2>3
<1>9. CallStack'
  BY <1>2, <1>6, <1>7, <1>8 DEF CallStack
<1> QED
  BY <1>2, <1>4, <1>5, <1>9

(* A return uncovers the caller's frame and makes its agent current again.   *)
LEMMA SwitchBackContext ==
  ASSUME ContextType, CallStack, frames # <<>>, SwitchBack
  PROVE  /\ ContextType' /\ CallStack'
         /\ Len(frames) \in Nat \ {0}
         /\ Len(frames') = Len(frames) - 1
         /\ \A i \in 1 .. Len(frames') : frames'[i] = frames[i]
         /\ self_' = Caller(Len(frames))
         /\ Top(PidStack) = Caller(Len(frames))
<1> DEFINE n == Len(frames)
           m == Len(PidStack)
<1>1. /\ frames' \in Seq(Frames) /\ n \in Nat \ {0} /\ Len(frames') = n - 1
      /\ \A i \in 1 .. n - 1 : frames'[i] = frames[i]
  BY PopStack DEF SwitchBack, ContextType
<1>2. m \in Nat /\ n <= m /\ PidStack # <<>>
  BY <1>1, LenProperties, EmptySeq DEF ContextType
<1>3. /\ PidStack' \in Seq(0 .. MaxPid) /\ Len(PidStack') = m - 1
      /\ \A i \in 1 .. m - 1 : PidStack'[i] = PidStack[i]
      /\ Top(PidStack) \in 0 .. MaxPid
  BY <1>2, PopStack DEF SwitchBack, ContextType
<1>4. Top(PidStack) = Caller(n)
  <2>1. Pending(n) = PidStack[m]
    BY <1>1, <1>2 DEF Pending
  <2> QED
    BY <1>1, <2>1 DEF CallStack, Top
<1>5. self_' = Caller(n)
  BY <1>4 DEF SwitchBack
<1>6. ContextType'
  BY <1>1, <1>2, <1>3, BoundsAssumption DEF ContextType, SwitchBack
<1>7. ASSUME NEW i \in 1 .. n - 1
      PROVE  Pending(i)' = Caller(i)'
  <2>1. Pending(i)' = Pending(i)
    BY <1>1, <1>2, <1>3 DEF Pending
  <2>2. Caller(i)' = Caller(i)
    BY <1>1 DEF Caller
  <2> QED
    BY <1>1, <2>1, <2>2 DEF CallStack
<1>8. frames' # <<>> => self_' = Top(frames)'.pid /\ frames'[1].kind # "atreturn"
  <2> SUFFICES ASSUME frames' # <<>>
               PROVE  self_' = Top(frames)'.pid /\ frames'[1].kind # "atreturn"
    OBVIOUS
  <2>1. n - 1 \in Nat \ {0}
    BY <1>1, EmptySeq
  <2> QED
    BY <1>1, <1>5, <2>1 DEF Caller, Top, CallStack
<1>9. CallStack'
  BY <1>1, <1>7, <1>8 DEF CallStack
<1> QED
  BY <1>1, <1>4, <1>5, <1>6, <1>9

-----------------------------------------------------------------------------
(* The actions, by what they do to the context.                              *)

(* A step that leaves the context and the tables of entries alone.           *)
LEMMA SameContext ==
  ASSUME ContextType, CallStack, UNCHANGED context
  PROVE  ContextType' /\ CallStack'
  BY DEF ContextType, CallStack, context, Pending, Caller, Top

(* The agent that runs a script has an entry in ENV, and is the one that a   *)
(* call it makes now is to return to.                                        *)
LEMMA RunningFrames ==
  ASSUME AgentsInv, Running
  PROVE  /\ self_ \in Pids /\ self_ \in ENV /\ self_ < NextPid
         /\ self_ = Caller(Len(frames) + 1)
         /\ SystemRunning
<1>1. frames # <<>> /\ self_ \in moonagents_ /\ SystemRunning
  BY DEF AgentsInv, Running, ControlInv
<1>2. self_ \in Pids /\ self_ \in ENV /\ self_ < NextPid
  BY <1>1 DEF AgentsInv, TablesType, EntriesInv, NothingLeaks, App, Pids
<1>3. Len(frames) \in Nat \ {0}
  BY <1>1, EmptySeq DEF AgentsInv, ContextType
<1>4. self_ = Caller(Len(frames) + 1)
  BY <1>1, <1>3 DEF AgentsInv, CallStack, Caller, Top
<1> QED
  BY <1>1, <1>2, <1>4

(* A new agent: the tables grow by a pid that was never used.                *)
LEMMA BornTables ==
  ASSUME AgentsInv, NEW parent \in 0 .. MaxPid, NEW original \in 0 .. MaxPid,
         NEW state \in {Startup, Nil},
         Born(NextPid, parent, original, state),
         parent \in Pids => parent \in moonagents_,
         original # None => parent \in Pids,
         SystemRunning' = TRUE,
         ENV' = ENV \cup {App, NextPid},
         \/ procedure' = procedure
         \/ parent \in Pids /\ procedure' = [procedure EXCEPT ![parent] = NextPid]
  PROVE  /\ TablesType' /\ FieldsInv' /\ NothingLeaks'
         /\ (moonagents_ \cap ReleaseQueue = {})'
         /\ \A p \in ENV' : p < NextPid'
<1>1. NextPid \in Pids /\ NextPid \in 1 .. MaxPid /\ NextPid' = NextPid + 1
  BY DEF Born, Pids
<1>2. TablesType'
  <2>1. moonagents_' \subseteq Pids
    BY <1>1 DEF AgentsInv, TablesType, Born
  <2>2. App \in 0 .. MaxPid /\ NextPid \in 0 .. MaxPid /\ NextPid' \in 1 .. MaxPid + 1
    BY <1>1, BoundsAssumption DEF App
  <2>3. ENV' \subseteq 0 .. MaxPid
    BY <2>2 DEF AgentsInv, TablesType
  <2>4. /\ state_' \in [Pids -> States \cup {Startup, Nil}]
        /\ parent_' \in [Pids -> 0 .. MaxPid]
        /\ caller_' \in [Pids -> 0 .. MaxPid]
    BY <1>1 DEF AgentsInv, TablesType, Born
  <2>5. children' \in [Pids -> SUBSET Pids]
    BY <1>1 DEF AgentsInv, TablesType, Born
  <2>6. procedure' \in [Pids -> 0 .. MaxPid]
    BY <1>1 DEF AgentsInv, TablesType, Pids
  <2> QED
    BY <2>1, <2>2, <2>3, <2>4, <2>5, <2>6 DEF AgentsInv, TablesType, Born
<1>3. NextPid \notin ENV /\ NextPid # App
  BY <1>1 DEF AgentsInv, EntriesInv, TablesType, App
<1>4. NothingLeaks'
  BY <1>1, <1>3 DEF AgentsInv, EntriesInv, NothingLeaks, Born
<1>5. (moonagents_ \cap ReleaseQueue = {})'
  BY <1>3 DEF AgentsInv, EntriesInv, NothingLeaks, Born
<1>6. \A p \in ENV' : p < NextPid'
  BY <1>1 DEF AgentsInv, EntriesInv, TablesType, App
<1>7. FieldsInv'
  <2> SUFFICES ASSUME NEW p \in Pids
               PROVE  /\ children'[p] # {} => p \in moonagents_'
                      /\ procedure'[p] # None => p \in moonagents_'
                      /\ caller_'[p] # None => parent_'[p] \in Pids
    BY DEF FieldsInv
  <2>1. children'[p] # {} => p \in moonagents_'
    BY DEF AgentsInv, FieldsInv, Born
  <2>2. procedure'[p] # None => p \in moonagents_'
    BY DEF AgentsInv, FieldsInv, TablesType, Born
  <2>3. caller_'[p] # None => parent_'[p] \in Pids
    BY <1>1 DEF AgentsInv, FieldsInv, TablesType, Born
  <2> QED
    BY <2>1, <2>2, <2>3
<1> QED
  BY <1>2, <1>4, <1>5, <1>6, <1>7

(* Its script runs on top of who created it.                                *)
LEMMA BornInv ==
  ASSUME AgentsInv, NEW parent \in 0 .. MaxPid, NEW original \in 0 .. MaxPid,
         NEW current \in 0 .. MaxPid,
         Born(NextPid, parent, original, Startup),
         SwitchFrom(current, NextPid, "start"),
         current = Caller(Len(frames) + 1),
         parent \in Pids => parent \in moonagents_,
         original # None => parent \in Pids,
         SystemRunning' = TRUE,
         ENV' = ENV \cup {App, NextPid},
         \/ procedure' = procedure
         \/ parent \in Pids /\ procedure' = [procedure EXCEPT ![parent] = NextPid]
  PROVE  AgentsInv'
<1>1. NextPid \in Pids
  BY DEF Born
<1>2. /\ ContextType' /\ CallStack'
      /\ Len(frames') = Len(frames) + 1
      /\ \A i \in 1 .. Len(frames') :
           frames'[i].pid = IF i = Len(frames) + 1 THEN NextPid ELSE frames[i].pid
  BY <1>1, SwitchFromContext DEF AgentsInv, Kinds
<1>3. Len(frames) \in Nat /\ frames' # <<>>
  BY <1>2, LenProperties, EmptySeq DEF AgentsInv, ContextType
<1>4. /\ TablesType' /\ FieldsInv' /\ NothingLeaks'
      /\ (moonagents_ \cap ReleaseQueue = {})'
      /\ \A p \in ENV' : p < NextPid'
  BY BornTables
<1>5. EntriesInv'
  <2>1. \A i \in 1 .. Len(frames') : frames'[i].pid \in ENV'
    BY <1>2, <1>3 DEF AgentsInv, EntriesInv
  <2> QED
    BY <1>4, <2>1 DEF EntriesInv
<1>6. ControlInv'
  BY <1>3 DEF ControlInv
<1> QED
  BY <1>2, <1>4, <1>5, <1>6 DEF AgentsInv

(* The system agent is created on an empty stack, into an empty ENV.         *)
LEMMA CreateSystemInv == ASSUME AgentsInv, CreateSystem PROVE AgentsInv'
<1>1. frames = <<>> /\ ~SystemRunning /\ Len(frames) = 0
  BY EmptySeq DEF CreateSystem, Idle
<1>2. ENV = {}
  BY <1>1 DEF AgentsInv, ControlInv
<1>3. App \in 0 .. MaxPid /\ App \notin Pids /\ App = Caller(Len(frames) + 1) /\ None = App
  BY <1>1, BoundsAssumption DEF App, None, Pids, Caller
<1>4. Born(NextPid, App, None, Startup) /\ SwitchFrom(App, NextPid, "start") /\ procedure' = procedure
      /\ SystemRunning' = TRUE /\ ENV' = ENV \cup {App, NextPid}
  BY <1>2 DEF CreateSystem
<1> QED
  BY <1>3, <1>4, BornInv

(* create() adds one entry, and its script runs on top of the creator's.     *)
LEMMA CreateInv == ASSUME AgentsInv, Create PROVE AgentsInv'
<1>1. /\ self_ \in Pids /\ self_ \in 0 .. MaxPid
      /\ self_ = Caller(Len(frames) + 1) /\ SystemRunning
  BY RunningFrames DEF Create, Pids
<1>2. App \in ENV /\ self_ \in moonagents_
  BY <1>1 DEF AgentsInv, EntriesInv, Create, Running
<1>3. Born(NextPid, self_, None, Startup) /\ SwitchFrom(self_, NextPid, "start")
      /\ procedure' = procedure /\ SystemRunning' = TRUE /\ ENV' = ENV \cup {App, NextPid}
  BY <1>1, <1>2 DEF Create, SwitchTo, AgentsInv, TablesType
<1>4. None \in 0 .. MaxPid
  BY BoundsAssumption DEF None
<1> QED
  BY <1>1, <1>2, <1>3, <1>4, BornInv

(* Who does not compile only adds an entry.                                 *)
LEMMA CreateUncompiledInv == ASSUME AgentsInv, CreateUncompiled PROVE AgentsInv'
<1>1. self_ \in Pids /\ self_ \in 0 .. MaxPid /\ SystemRunning /\ frames # <<>>
  BY RunningFrames DEF CreateUncompiled, Running, Pids
<1>2. App \in ENV /\ self_ \in moonagents_ /\ None \in 0 .. MaxPid
  BY <1>1, BoundsAssumption DEF AgentsInv, EntriesInv, CreateUncompiled, Running, None
<1>3. /\ Born(NextPid, self_, None, Nil) /\ procedure' = procedure
      /\ SystemRunning' = TRUE /\ ENV' = ENV \cup {App, NextPid}
      /\ UNCHANGED context
  BY <1>1, <1>2 DEF CreateUncompiled
<1>4. /\ TablesType' /\ FieldsInv' /\ NothingLeaks'
      /\ (moonagents_ \cap ReleaseQueue = {})'
      /\ \A p \in ENV' : p < NextPid'
  BY <1>1, <1>2, <1>3, BornTables
<1>5. ContextType' /\ CallStack'
  BY <1>3, SameContext DEF AgentsInv
<1>6. EntriesInv' /\ ControlInv'
  BY <1>1, <1>3, <1>4 DEF AgentsInv, EntriesInv, ControlInv, context
<1> QED
  BY <1>4, <1>5, <1>6 DEF AgentsInv

(* procedure() does the same, and links the new agent to its caller.         *)
LEMMA ProcedureInv == ASSUME AgentsInv, Procedure PROVE AgentsInv'
<1>1. /\ self_ \in Pids /\ self_ \in 0 .. MaxPid
      /\ self_ = Caller(Len(frames) + 1) /\ SystemRunning
  BY RunningFrames DEF Procedure, Pids
<1>2. App \in ENV /\ self_ \in moonagents_
  BY <1>1 DEF AgentsInv, EntriesInv, Procedure, Running
<1>3. Born(NextPid, self_, OriginalCaller(self_), Startup) /\ SwitchFrom(self_, NextPid, "start")
      /\ procedure' = [procedure EXCEPT ![self_] = NextPid]
      /\ SystemRunning' = TRUE /\ ENV' = ENV \cup {App, NextPid}
  BY <1>1, <1>2 DEF Procedure, SwitchTo, AgentsInv, TablesType
<1>4. OriginalCaller(self_) \in 0 .. MaxPid
  BY <1>1 DEF OriginalCaller, AgentsInv, TablesType
<1> QED
  BY <1>1, <1>2, <1>3, <1>4, BornInv

(* A call of a script, by whichever way: the tables stay, but for a procedure *)
(* field that may be cleared.                                                *)
LEMMA CallInv ==
  ASSUME AgentsInv, SystemRunning, NEW pid \in Pids, pid \in ENV, NEW kind \in Kinds,
         SwitchTo(pid, kind), self_ = Caller(Len(frames) + 1),
         frames = <<>> => kind # "atreturn",
         UNCHANGED <<NextPid, SystemRunning, ENV, moonagents_, parent_, caller_, children,
                     ReleaseQueue, state_, phase>>,
         procedure' \in [Pids -> 0 .. MaxPid],
         \A p \in Pids : procedure'[p] # None => procedure[p] # None
  PROVE  AgentsInv'
<1>1. self_ \in 0 .. MaxPid
  BY DEF AgentsInv, ContextType
<1>2. /\ ContextType' /\ CallStack'
      /\ Len(frames') = Len(frames) + 1
      /\ \A i \in 1 .. Len(frames') :
           frames'[i].pid = IF i = Len(frames) + 1 THEN pid ELSE frames[i].pid
  BY <1>1, SwitchFromContext DEF AgentsInv, SwitchTo
<1>3. Len(frames) \in Nat /\ frames' # <<>>
  BY <1>2, LenProperties, EmptySeq DEF AgentsInv, ContextType
<1>4. TablesType'
  BY DEF AgentsInv, TablesType
<1>5. EntriesInv'
  BY <1>2, <1>3 DEF AgentsInv, EntriesInv, NothingLeaks
<1>6. FieldsInv'
  BY DEF AgentsInv, FieldsInv
<1>7. ControlInv'
  BY <1>3 DEF ControlInv
<1> QED
  BY <1>2, <1>4, <1>5, <1>6, <1>7 DEF AgentsInv

(* A remote call runs on top of what runs, in an _ENV that exists.           *)
LEMMA RemoteCallInv ==
  ASSUME AgentsInv, NEW pid \in Pids, RemoteCall(pid)
  PROVE  AgentsInv'
<1>1. SystemRunning /\ self_ = Caller(Len(frames) + 1)
  <2>1. CASE Running
    BY <2>1, RunningFrames
  <2>2. CASE Idle /\ SystemRunning
    BY <2>2, EmptySeq DEF Idle, AgentsInv, ControlInv, Caller
  <2> QED
    BY <2>1, <2>2 DEF RemoteCall
<1>2. pid \in ENV
  BY DEF RemoteCall, AgentsInv, EntriesInv, NothingLeaks
<1>3. SwitchTo(pid, "remote") /\ UNCHANGED <<NextPid, SystemRunning, tree, state_, phase>>
  BY DEF RemoteCall
<1> QED
  BY <1>1, <1>2, <1>3, CallInv DEF Kinds, tree, AgentsInv, TablesType

(* A transition is called with an empty stack, by the application.           *)
LEMMA DispatchInv ==
  ASSUME AgentsInv, NEW pid \in Pids, Dispatch(pid)
  PROVE  AgentsInv'
<1> DEFINE d == Destination(pid)
<1>1. frames = <<>> /\ phase = "flush" /\ d \in ENV \ {App}
  BY DEF Dispatch, Receiving
<1> HIDE DEF d
<1>2. SystemRunning /\ d \in Pids
  <2>1. SystemRunning
    BY <1>1 DEF AgentsInv, ControlInv
  <2>2. d \in 0 .. MaxPid /\ d # 0
    BY <1>1 DEF AgentsInv, TablesType, App
  <2> QED
    BY <2>1, <2>2, BoundsAssumption DEF Pids
<1>3. self_ = Caller(Len(frames) + 1)
  BY <1>1, <1>2, EmptySeq DEF AgentsInv, ControlInv, Caller
<1>4. SwitchTo(d, "transition") /\ UNCHANGED <<NextPid, SystemRunning, tree, state_, phase>>
  BY DEF Dispatch, d
<1> QED
  BY <1>1, <1>2, <1>3, <1>4, CallInv DEF Kinds, tree, AgentsInv, TablesType

(* The atreturn function runs on top of the procedure, in its caller.        *)
LEMMA ProcedureReturnInv ==
  ASSUME AgentsInv, ProcedureReturn
  PROVE  AgentsInv'
<1> DEFINE caller == parent_[self_]
<1>1. self_ \in Pids /\ self_ = Caller(Len(frames) + 1) /\ SystemRunning /\ frames # <<>>
  BY RunningFrames DEF ProcedureReturn, Running
<1>2. caller \in Pids
  BY <1>1 DEF ProcedureReturn, AgentsInv, FieldsInv
<1>3. caller \in ENV
  <2>1. procedure[caller] # None
    BY <1>1, <1>2 DEF ProcedureReturn, None, Pids
  <2> QED
    BY <1>2, <2>1 DEF AgentsInv, FieldsInv, EntriesInv, NothingLeaks
<1>4. /\ procedure' = [procedure EXCEPT ![caller] = None]
      /\ SwitchTo(caller, "atreturn")
      /\ UNCHANGED <<NextPid, SystemRunning, ENV, moonagents_, parent_, caller_, children,
                     ReleaseQueue, state_, phase>>
  BY DEF ProcedureReturn
<1>5. procedure' \in [Pids -> 0 .. MaxPid] /\ \A p \in Pids : procedure'[p] # None => procedure[p] # None
  <2>1. procedure' = [procedure EXCEPT ![caller] = None] /\ procedure \in [Pids -> 0 .. MaxPid]
    BY DEF ProcedureReturn, AgentsInv, TablesType
  <2>2. None \in 0 .. MaxPid
    BY BoundsAssumption DEF None
  <2>3. procedure' \in [Pids -> 0 .. MaxPid]
    BY <2>1, <2>2
  <2>4. \A p \in Pids : procedure'[p] \in {procedure[p], None}
    BY <2>1
  <2> QED
    BY <2>3, <2>4
<1> HIDE DEF caller
<1> QED
  BY <1>1, <1>2, <1>3, <1>4, <1>5, CallInv DEF Kinds

-----------------------------------------------------------------------------
(* Termination: what Terminate frees was in ENV, and stays there until the   *)
(* release.                                                                  *)
LEMMA StoppingTables ==
  ASSUME TablesType, EntriesInv, FieldsInv, NEW p \in Pids, p \in ENV, Stopping(p),
         UNCHANGED <<NextPid, SystemRunning, phase>>,
         \A i \in 1 .. Len(frames') : frames'[i].pid \in ENV
  PROVE  TablesType' /\ EntriesInv' /\ FieldsInv' /\ ENV' = ENV
<1>1. state_' \in [Pids -> States \cup {Startup, Nil}]
  BY DEF Stopping, TablesType
<1>2. CASE children[p] = {}
  <2>1. PICK T \in SUBSET Pids : IsCascade(p, T) /\ Terminate(T)
    BY <1>2 DEF Stopping
  <2>2. T \subseteq moonagents_ \cup ReleaseQueue
    <3>1. \A q \in T \ {p} : q \in moonagents_
      BY <2>1 DEF IsCascade, LastChild, FieldsInv
    <3>2. p \in moonagents_ \cup ReleaseQueue
      BY DEF EntriesInv, NothingLeaks, App, Pids
    <3> QED
      BY <3>1, <3>2
  <2>3. TablesType'
    <3>1. children' \in [Pids -> SUBSET Pids]
      BY <2>1 DEF Terminate, TablesType
    <3>2. procedure' \in [Pids -> 0 .. MaxPid]
      BY <2>1, BoundsAssumption DEF Terminate, TablesType, None
    <3>3. moonagents_' \subseteq Pids /\ ReleaseQueue' \subseteq Pids
      BY <2>1 DEF Terminate, TablesType
    <3> QED
      BY <1>1, <2>1, <3>1, <3>2, <3>3 DEF Terminate, TablesType
  <2>4. EntriesInv'
    <3>1. NothingLeaks'
      BY <2>1, <2>2 DEF Terminate, EntriesInv, NothingLeaks
    <3>2. (moonagents_ \cap ReleaseQueue = {})'
      BY <2>1 DEF Terminate, EntriesInv
    <3> QED
      BY <2>1, <3>1, <3>2 DEF Terminate, EntriesInv
  <2>5. FieldsInv'
    BY <2>1 DEF Terminate, FieldsInv
  <2> QED
    BY <2>1, <2>3, <2>4, <2>5 DEF Terminate
<1>3. CASE children[p] # {}
  <2>1. UNCHANGED tree
    BY <1>3 DEF Stopping
  <2> QED
    BY <1>1, <2>1 DEF tree, TablesType, EntriesInv, NothingLeaks, FieldsInv
<1> QED
  BY <1>2, <1>3

(* stop() changes tables only: no entry of ENV goes, so no frame loses its own. *)
LEMMA StopInv == ASSUME AgentsInv, Stop PROVE AgentsInv'
<1>1. self_ \in Pids /\ self_ \in ENV
  BY RunningFrames DEF Stop
<1>2. Stopping(self_) /\ UNCHANGED <<NextPid, SystemRunning, context, phase>>
  BY DEF Stop
<1>3. \A i \in 1 .. Len(frames') : frames'[i].pid \in ENV
  BY <1>2 DEF context, AgentsInv, EntriesInv
<1>4. TablesType' /\ EntriesInv' /\ FieldsInv' /\ ENV' = ENV
  BY <1>1, <1>2, <1>3, StoppingTables DEF AgentsInv
<1>5. ContextType' /\ CallStack'
  BY <1>2, SameContext DEF AgentsInv
<1>6. ControlInv'
  BY <1>2, <1>4 DEF AgentsInv, ControlInv, context
<1> QED
  BY <1>4, <1>5, <1>6 DEF AgentsInv

(* Whatever returns to the caller of a script finds its pid in ENV.          *)
LEMMA SwitchBackFrames ==
  ASSUME AgentsInv, frames # <<>>, SwitchBack
  PROVE  /\ ContextType' /\ CallStack' /\ SystemRunning
         /\ \A i \in 1 .. Len(frames') : frames'[i].pid \in ENV
         /\ frames' = <<>> => self_' = App
<1>1. /\ ContextType' /\ CallStack'
      /\ Len(frames) \in Nat \ {0} /\ Len(frames') = Len(frames) - 1
      /\ \A i \in 1 .. Len(frames') : frames'[i] = frames[i]
      /\ self_' = Caller(Len(frames))
  BY SwitchBackContext DEF AgentsInv
<1>2. \A i \in 1 .. Len(frames') : frames'[i].pid \in ENV
  BY <1>1 DEF AgentsInv, EntriesInv
<1>3. frames' = <<>> => self_' = App
  <2>1. frames' = <<>> => Len(frames') = 0
    BY EmptySeq
  <2> QED
    BY <1>1, <2>1 DEF Caller
<1> QED
  BY <1>1, <1>2, <1>3 DEF AgentsInv, ControlInv

(* A script that returns, and changes nothing else.                          *)
LEMMA ReturnInv ==
  ASSUME AgentsInv, frames # <<>>, SwitchBack,
         UNCHANGED <<NextPid, SystemRunning, tree, state_>>,
         phase' \in {phase, "error"}
  PROVE  AgentsInv'
<1>1. /\ ContextType' /\ CallStack' /\ SystemRunning
      /\ \A i \in 1 .. Len(frames') : frames'[i].pid \in ENV
      /\ frames' = <<>> => self_' = App
  BY SwitchBackFrames
<1>2. TablesType' /\ FieldsInv'
  BY DEF AgentsInv, TablesType, FieldsInv, tree
<1>3. EntriesInv'
  BY <1>1 DEF AgentsInv, EntriesInv, NothingLeaks, tree
<1>4. ControlInv'
  BY <1>1 DEF AgentsInv, ControlInv
<1> QED
  BY <1>1, <1>2, <1>3, <1>4 DEF AgentsInv

(* A script that returns, and an agent that is stopped with it.              *)
LEMMA StopAndReturnInv ==
  ASSUME AgentsInv, frames # <<>>, SwitchBack, NEW p \in Pids, p \in ENV, Stopping(p),
         UNCHANGED <<NextPid, SystemRunning, phase>>
  PROVE  AgentsInv'
<1>1. /\ ContextType' /\ CallStack' /\ SystemRunning
      /\ \A i \in 1 .. Len(frames') : frames'[i].pid \in ENV
      /\ frames' = <<>> => self_' = App
  BY SwitchBackFrames
<1>2. TablesType' /\ EntriesInv' /\ FieldsInv' /\ ENV' = ENV
  BY <1>1, StoppingTables DEF AgentsInv
<1>3. ControlInv'
  BY <1>1 DEF ControlInv
<1> QED
  BY <1>1, <1>2, <1>3 DEF AgentsInv

(* The procedure is stopped when its caller's atreturn function returns.     *)
LEMMA AtReturnDoneInv == ASSUME AgentsInv, AtReturnDone PROVE AgentsInv'
<1>1. frames # <<>> /\ SwitchBack /\ Top(frames).kind = "atreturn"
  BY DEF AtReturnDone, InScript
<1>2. Len(frames) \in Nat \ {0} /\ Top(PidStack) = Caller(Len(frames))
  BY <1>1, SwitchBackContext DEF AgentsInv
<1>3. Len(frames) # 1
  BY <1>1 DEF AgentsInv, CallStack, Top
<1>4. Top(PidStack) = frames[Len(frames) - 1].pid /\ Len(frames) - 1 \in 1 .. Len(frames)
  <2>1. Len(frames) - 1 \in 1 .. Len(frames)
    BY <1>2, <1>3
  <2> QED
    BY <1>2, <1>3, <2>1 DEF Caller
<1>5. Top(PidStack) \in ENV
  BY <1>4 DEF AgentsInv, EntriesInv
<1>6. Top(PidStack) \in Pids
  <2>1. frames[Len(frames) - 1] \in Frames
    BY <1>4, ElementOfSeq DEF AgentsInv, ContextType
  <2> QED
    BY <1>4, <2>1 DEF Frames
<1> QED
  BY <1>1, <1>5, <1>6, StopAndReturnInv DEF AtReturnDone

(* The new agent is stopped, if it is not yet, and its creator goes on.      *)
LEMMA StartFailsInv == ASSUME AgentsInv, StartFails PROVE AgentsInv'
<1>1. frames # <<>> /\ SwitchBack
  BY DEF StartFails, InScript
<1>2. Len(frames) \in Nat \ {0}
  BY <1>1, EmptySeq DEF AgentsInv, ContextType
<1>3. frames[Len(frames)] \in Frames /\ self_ = frames[Len(frames)].pid
  BY <1>1, <1>2, ElementOfSeq DEF AgentsInv, ContextType, CallStack, Top
<1>4. self_ \in Pids /\ self_ \in ENV
  BY <1>2, <1>3 DEF Frames, AgentsInv, EntriesInv
<1>5. CASE state_[self_] # Nil
  BY <1>1, <1>4, <1>5, StopAndReturnInv DEF StartFails
<1>6. CASE state_[self_] = Nil
  BY <1>1, <1>6, ReturnInv DEF StartFails
<1> QED
  BY <1>5, <1>6

(* An error leaves its part of PidStack behind, which nobody reaches.        *)
LEMMA RaiseInv == ASSUME AgentsInv, Raise PROVE AgentsInv'
<1>1. frames' = <<>> /\ Len(frames') = 0 /\ frames' \in Seq(Frames)
  BY EmptySeq DEF Raise
<1>2. ContextType' /\ CallStack'
  BY <1>1, LenProperties, BoundsAssumption DEF AgentsInv, ContextType, CallStack, Raise
<1>3. TablesType' /\ FieldsInv'
  BY DEF AgentsInv, TablesType, FieldsInv, Raise, tree
<1>4. EntriesInv'
  BY <1>1 DEF AgentsInv, EntriesInv, NothingLeaks, Raise, tree
<1>5. ControlInv'
  BY <1>1 DEF AgentsInv, ControlInv, Raise, tree
<1> QED
  BY <1>2, <1>3, <1>4, <1>5 DEF AgentsInv

-----------------------------------------------------------------------------
(* The end of the system, and of a trigger: no script runs.                  *)
LEMMA ClearedInv ==
  ASSUME AgentsInv, frames = <<>>, Cleared, UNCHANGED context, phase' = "idle"
  PROVE  AgentsInv'
<1>1. ContextType' /\ CallStack' /\ Len(frames') = 0
  BY SameContext, EmptySeq DEF AgentsInv, context
<1>2. TablesType'
  <2>1. None \in 0 .. MaxPid /\ 1 \in 1 .. MaxPid + 1
    BY BoundsAssumption DEF None
  <2> QED
    BY <2>1 DEF Cleared, TablesType, Nowhere
<1>3. EntriesInv'
  BY <1>1 DEF EntriesInv, NothingLeaks, Cleared
<1>4. FieldsInv'
  BY DEF FieldsInv, Cleared, Nowhere
<1>5. ControlInv'
  BY DEF ControlInv, Cleared, context
<1> QED
  BY <1>1, <1>2, <1>3, <1>4, <1>5 DEF AgentsInv

(* Entries are removed when no script runs, so no frame needs them.          *)
LEMMA EndTriggerInv == ASSUME AgentsInv, EndTrigger PROVE AgentsInv'
<1>1. frames = <<>> /\ UNCHANGED context /\ phase' = "idle" /\ phase = "flush"
  BY DEF EndTrigger
<1>2. CASE Cleared
  BY <1>1, <1>2, ClearedInv
<1>3. CASE ReleaseEntries
  <2>1. ContextType' /\ CallStack' /\ frames' = <<>> /\ Len(frames') = 0
    BY <1>1, SameContext, EmptySeq DEF AgentsInv, context
  <2>2. TablesType'
    <3>1. None \in 0 .. MaxPid
      BY BoundsAssumption DEF None
    <3>2. parent_' \in [Pids -> 0 .. MaxPid] /\ caller_' \in [Pids -> 0 .. MaxPid]
      BY <1>3, <3>1 DEF ReleaseEntries, AgentsInv, TablesType
    <3> QED
      BY <1>1, <1>3, <3>2 DEF ReleaseEntries, AgentsInv, TablesType
  <2>3. EntriesInv'
    <3>1. App \notin ReleaseQueue
      BY DEF AgentsInv, TablesType, App, Pids
    <3> QED
      BY <1>3, <2>1, <3>1 DEF ReleaseEntries, AgentsInv, EntriesInv, NothingLeaks
  <2>4. FieldsInv'
    BY <1>3 DEF ReleaseEntries, AgentsInv, FieldsInv
  <2>5. ControlInv'
    BY <1>1, <1>3 DEF ReleaseEntries, AgentsInv, ControlInv, context
  <2> QED
    BY <2>1, <2>2, <2>3, <2>4, <2>5 DEF AgentsInv
<1> QED
  BY <1>2, <1>3 DEF EndTrigger, Release

-----------------------------------------------------------------------------
(* Before the first system there is nothing to be wrong.                     *)
LEMMA AgentsInitInv == AgentsInit => AgentsInv
<1> SUFFICES ASSUME AgentsInit PROVE AgentsInv
  OBVIOUS
<1>1. frames = <<>> /\ Len(frames) = 0 /\ PidStack = <<>> /\ Len(PidStack) = 0
  BY EmptySeq DEF AgentsInit
<1>2. None \in 0 .. MaxPid /\ 1 \in 1 .. MaxPid + 1 /\ App \in 0 .. MaxPid
  BY BoundsAssumption DEF None, App
<1>3. ContextType /\ CallStack
  BY <1>1, <1>2, EmptySeq, BoundsAssumption DEF AgentsInit, ContextType, CallStack
<1>4. TablesType /\ FieldsInv
  BY <1>2 DEF AgentsInit, TablesType, FieldsInv, Nowhere
<1>5. EntriesInv /\ ControlInv
  BY <1>1 DEF AgentsInit, EntriesInv, NothingLeaks, ControlInv
<1> QED
  BY <1>3, <1>4, <1>5 DEF AgentsInv

(* The invariant is inductive: one case for each action.                     *)
LEMMA AgentsNextInv == AgentsInv /\ [AgentsNext]_agentVars => AgentsInv'
<1> SUFFICES ASSUME AgentsInv, [AgentsNext]_agentVars PROVE AgentsInv'
  OBVIOUS
<1>1. CASE CreateSystem
  BY <1>1, CreateSystemInv
<1>2. CASE Create \/ CreateUncompiled
  BY <1>2, CreateInv, CreateUncompiledInv
<1>3. CASE CreateDuplicate
  <2>1. ContextType' /\ CallStack'
    BY <1>3, SameContext DEF AgentsInv, CreateDuplicate
  <2>2. TablesType'
    <3>1. NextPid' \in 1 .. MaxPid + 1
      BY <1>3, BoundsAssumption DEF CreateDuplicate, Pids
    <3> QED
      BY <1>3, <3>1 DEF AgentsInv, CreateDuplicate, TablesType, tree
  <2>3. EntriesInv'
    BY <1>3 DEF AgentsInv, CreateDuplicate, EntriesInv, NothingLeaks, TablesType, tree, context
  <2>4. FieldsInv' /\ ControlInv'
    BY <1>3 DEF AgentsInv, CreateDuplicate, FieldsInv, ControlInv, tree, context
  <2> QED
    BY <2>1, <2>2, <2>3, <2>4 DEF AgentsInv
<1>4. CASE Procedure
  BY <1>4, ProcedureInv
<1>5. CASE Stop
  BY <1>5, StopInv
<1>6. CASE ProcedureReturn
  BY <1>6, ProcedureReturnInv
<1>7. CASE AtReturnDone
  BY <1>7, AtReturnDoneInv
<1>8. ASSUME NEW s \in States, NextState(s)
      PROVE  AgentsInv'
  <2>1. ContextType' /\ CallStack'
    BY <1>8, SameContext DEF AgentsInv, NextState
  <2>2. TablesType'
    BY <1>8 DEF AgentsInv, NextState, TablesType, tree
  <2>3. EntriesInv' /\ FieldsInv' /\ ControlInv'
    BY <1>8 DEF AgentsInv, NextState, EntriesInv, NothingLeaks, FieldsInv, ControlInv, tree, context
  <2> QED
    BY <2>1, <2>2, <2>3 DEF AgentsInv
<1>9. CASE StartReturn \/ RemoteReturn \/ TransitionReturn
  BY <1>9, ReturnInv DEF StartReturn, RemoteReturn, TransitionReturn, InScript
<1>10. CASE StartFails
  BY <1>10, StartFailsInv
<1>11. CASE SystemStartFails
  BY <1>11, ReturnInv DEF SystemStartFails, InScript
<1>12. CASE Raise
  BY <1>12, RaiseInv
<1>13. ASSUME NEW pid \in Pids, RemoteCall(pid) \/ Dispatch(pid)
       PROVE  AgentsInv'
  BY <1>13, RemoteCallInv, DispatchInv
<1>14. CASE BeginTrigger
  <2>1. ContextType' /\ CallStack'
    BY <1>14, SameContext DEF AgentsInv, BeginTrigger
  <2> QED
    BY <1>14, <2>1
    DEF AgentsInv, BeginTrigger, Idle, TablesType, EntriesInv, NothingLeaks, FieldsInv, ControlInv,
        tree, context
<1>15. CASE EndTrigger
  BY <1>15, EndTriggerInv
<1>16. CASE Reset
  BY <1>16, ClearedInv DEF Reset
<1>17. CASE UNCHANGED agentVars
  <2>1. ContextType' /\ CallStack'
    BY <1>17, SameContext DEF AgentsInv, agentVars
  <2> QED
    BY <1>17, <2>1
    DEF AgentsInv, agentVars, TablesType, EntriesInv, NothingLeaks, FieldsInv, ControlInv, tree, context
<1> QED
  BY <1>1, <1>2, <1>3, <1>4, <1>5, <1>6, <1>7, <1>8, <1>9, <1>10, <1>11, <1>12, <1>13, <1>14,
     <1>15, <1>16, <1>17
  DEF AgentsNext

(* The invariant holds throughout.                                           *)
LEMMA AgentsInvariant == AgentsSpec => []AgentsInv
  BY AgentsInitInv, AgentsNextInv, PTL DEF AgentsSpec

-----------------------------------------------------------------------------
(* Every variable of the agents keeps its type, and PidStack holds no more   *)
(* than the calls in progress and what errors left on it.                    *)
THEOREM AgentsTypeCorrect == AgentsSpec => []AgentsTypeOK
<1>1. AgentsInv => AgentsTypeOK
  <2> SUFFICES ASSUME AgentsInv PROVE AgentsTypeOK
    OBVIOUS
  <2>1. Len(frames) \in Nat /\ Len(PidStack) \in Nat
    BY LenProperties DEF AgentsInv, ContextType
  <2>2. Len(PidStack) <= MaxLeftover + MaxDepth
    BY <2>1, BoundsAssumption DEF AgentsInv, ContextType
  <2> QED
    BY <2>2 DEF AgentsInv, TablesType, ContextType, Frames, AgentsTypeOK
<1> QED
  BY <1>1, AgentsInvariant, PTL

(* Where a call returns to is an agent with a frame below it, or the         *)
(* application, and these have entries.                                      *)
LEMMA SwitchBacksAreSafe == AgentsInv => SwitchBackSafe
<1> SUFFICES ASSUME AgentsInv PROVE SwitchBackSafe
  OBVIOUS
<1>1. Len(frames) \in Nat /\ DOMAIN frames = 1 .. Len(frames)
      /\ (frames # <<>> => Len(frames) \in Nat \ {0})
  BY LenProperties, EmptySeq DEF AgentsInv, ContextType
<1>2. ASSUME NEW i \in 1 .. Len(frames) PROVE Pending(i) \in ENV
  <2>1. CASE i = 1
    <3>1. frames # <<>>
      BY <1>1, EmptySeq
    <3> QED
      BY <2>1, <3>1 DEF AgentsInv, CallStack, Caller, EntriesInv, ControlInv
  <2>2. CASE i # 1
    <3>1. i - 1 \in 1 .. Len(frames)
      BY <1>1, <2>2
    <3> QED
      BY <2>2, <3>1 DEF AgentsInv, CallStack, Caller, EntriesInv
  <2> QED
    BY <2>1, <2>2
<1>3. frames # <<>> => self_ \in ENV
  BY <1>1 DEF AgentsInv, CallStack, Top, EntriesInv
<1> QED
  BY <1>1, <1>2, <1>3 DEF SwitchBackSafe, AgentsInv, ContextType

(* The current agent is that of the innermost frame.                         *)
LEMMA ScriptsFindTheirEnv == AgentsInv => EnvMatchesCallStack
<1> SUFFICES ASSUME AgentsInv PROVE EnvMatchesCallStack
  OBVIOUS
<1>1. DOMAIN frames = 1 .. Len(frames)
  BY LenProperties DEF AgentsInv, ContextType
<1> QED
  BY <1>1 DEF AgentsInv, CallStack, ControlInv, Caller, EnvMatchesCallStack

(* No SwitchBack() meets an agent that has exited (engine.lua:346), however   *)
(* deep the calls are nested and whoever terminates meanwhile.               *)
THEOREM SwitchBackIsSafe == AgentsSpec => []SwitchBackSafe
  BY SwitchBacksAreSafe, AgentsInvariant, PTL

(* Every script runs in the _ENV of its own agent, and finds it again after   *)
(* each call that it makes.                                                  *)
THEOREM ScriptsRunInTheirEnvironment == AgentsSpec => []EnvMatchesCallStack
  BY ScriptsFindTheirEnv, AgentsInvariant, PTL

(* ENV holds the agents that have not terminated and those that the next     *)
(* trigger releases, and no other.                                           *)
THEOREM NoEntryLeaks == AgentsSpec => []NothingLeaks
<1>1. AgentsInv => NothingLeaks
  BY DEF AgentsInv, EntriesInv
<1> QED
  BY <1>1, AgentsInvariant, PTL

-----------------------------------------------------------------------------
(* The tree of agents: it stays consistent, no stopping agent waits for       *)
(* children that it has lost, and signals find the innermost procedure, for   *)
(* any number of agents, in whatever order they are created, return, stop and *)
(* fail.                                                                    *)

(* Nobody is replaced by a procedure that is being returned from: it will be *)
(* terminated when the atreturn function is done.                           *)
ReturningFree ==
  \A i \in 1 .. Len(frames) : i > 1 /\ frames[i].kind = "atreturn" =>
    \A x \in Pids : procedure[x] # frames[i - 1].pid

(* The system agent is the first of its system, and has no parent.           *)
RootInv ==
  /\ ~SystemRunning => NextPid = 1
  /\ SystemPid \in moonagents_ => parent_[SystemPid] = App

Tree == ParentsAndChildren /\ ProcedureChainValid

TreeInv == Tree /\ ReturningFree /\ RootInv

-----------------------------------------------------------------------------
(* What Terminate frees.                                                    *)

(* A chain of ancestors ends in the agent whose termination began it, so no  *)
(* two of it have a common parent that stays: each but that agent has its    *)
(* only child in the chain, a different one for each, and there are not      *)
(* enough of them if two have none of the chain as a parent.                 *)
LEMMA OneOfTheChain ==
  ASSUME ParentsAndChildren, NEW p \in Pids, NEW T \in SUBSET Pids, IsCascade(p, T),
         NEW q \in Pids \ T, NEW c \in children[q] \cap T, NEW d \in children[q] \cap T
  PROVE  c = d
<1> SUFFICES ASSUME c # d PROVE FALSE
  OBVIOUS
<1> DEFINE f == [x \in T \ {p} |-> CHOOSE e \in T : LastChild(x, e)]
<1>1. \A x \in T \ {p} : f[x] \in T /\ LastChild(x, f[x])
  BY DEF IsCascade
<1>2. \A x \in T \ {p} : f[x] \in T /\ parent_[f[x]] = x
  BY <1>1 DEF LastChild, ParentsAndChildren
<1>3. parent_[c] = q /\ parent_[d] = q
  BY DEF ParentsAndChildren
<1>4. f \in [T \ {p} -> (T \ {c}) \ {d}]
  <2>1. \A x \in T \ {p} : f[x] \in (T \ {c}) \ {d}
    BY <1>2, <1>3
  <2> QED
    BY <2>1
<1>5. \A x, y \in T \ {p} : f[x] = f[y] => x = y
  BY <1>2
<1>6. f \in Injection(T \ {p}, (T \ {c}) \ {d})
  BY <1>4, <1>5 DEF Injection, IsInjective
<1>7. IsFiniteSet(T)
  <2>1. 1 \in Int /\ MaxPid \in Int
    BY BoundsAssumption
  <2>2. IsFiniteSet(1 .. MaxPid)
    BY <2>1, FS_Interval
  <2> QED
    BY <2>2, FS_Subset DEF Pids
<1> HIDE DEF f
<1>8. p \in T /\ c \in T /\ d \in T \ {c}
  BY DEF IsCascade
<1>9. IsFiniteSet(T \ {c}) /\ Cardinality(T \ {c}) = Cardinality(T) - 1
      /\ Cardinality(T \ {p}) = Cardinality(T) - 1
  BY <1>7, <1>8, FS_RemoveElement
<1>10. IsFiniteSet((T \ {c}) \ {d}) /\ Cardinality((T \ {c}) \ {d}) = Cardinality(T) - 1 - 1
  <2> DEFINE U == T \ {c}
  <2>1. IsFiniteSet(U) /\ d \in U /\ Cardinality(U) = Cardinality(T) - 1
    BY <1>8, <1>9
  <2> HIDE DEF U
  <2>2. IsFiniteSet(U \ {d}) /\ Cardinality(U \ {d}) = Cardinality(U) - 1
    BY <2>1, FS_RemoveElement
  <2> QED
    BY <2>1, <2>2 DEF U
<1>11. Cardinality(T \ {p}) <= Cardinality((T \ {c}) \ {d})
  BY <1>6, <1>10, FS_Injection
<1>12. Cardinality(T) \in Nat
  BY <1>7, FS_CardinalityType
<1> QED
  BY <1>9, <1>10, <1>11, <1>12

(* What is freed takes all its children with it.                            *)
LEMMA ChildrenGo ==
  ASSUME NEW p \in Pids, NEW T \in SUBSET Pids, IsCascade(p, T), children[p] = {}
  PROVE  \A q \in T : children[q] \subseteq T
  BY DEF IsCascade, LastChild

(* An agent that stops, and is no procedure of a living agent, leaves a tree. *)
LEMMA StoppingTree ==
  ASSUME TablesType, Tree, NEW p \in Pids, Stopping(p), \A x \in Pids : procedure[x] # p
  PROVE  /\ Tree'
         /\ parent_' = parent_ /\ moonagents_' \subseteq moonagents_
         /\ \A x \in Pids : procedure'[x] \in {procedure[x], None}
<1>1. state_' = [state_ EXCEPT ![p] = Nil]
  BY DEF Stopping
<1>2. CASE children[p] = {}
  <2>1. PICK T \in SUBSET Pids : IsCascade(p, T) /\ Terminate(T)
    BY <1>2 DEF Stopping
  <2>2. \A q \in T : children[q] \subseteq T
    BY <1>2, <2>1, ChildrenGo
  <2>3. ParentsAndChildren'
    <3> SUFFICES ASSUME NEW r \in Pids
                 PROVE  /\ r \in moonagents_' /\ r # SystemPid => parent_'[r] \in moonagents_'
                        /\ children'[r] = {c \in moonagents_' : parent_'[c] = r}
      BY DEF ParentsAndChildren
    <3>1. /\ r \in moonagents_ /\ r # SystemPid => parent_[r] \in moonagents_
          /\ children[r] = {c \in moonagents_ : parent_[c] = r}
      BY DEF Tree, ParentsAndChildren
    <3>2. parent_' = parent_ /\ moonagents_' = moonagents_ \ T
          /\ children'[r] = IF r \in T THEN {} ELSE children[r] \ T
      BY <2>1 DEF Terminate
    <3>3. r \in moonagents_' /\ r # SystemPid => parent_'[r] \in moonagents_'
      <4> SUFFICES ASSUME r \in moonagents_', r # SystemPid, parent_[r] \in T
                   PROVE  FALSE
        BY <3>1, <3>2
      <4>1. r \in children[parent_[r]]
        BY <3>2 DEF Tree, ParentsAndChildren
      <4> QED
        BY <2>2, <3>2, <4>1
    <3> QED
      BY <2>2, <3>1, <3>2, <3>3
  <2>4. ProcedureChainValid'
    <3> SUFFICES ASSUME NEW r \in Pids, procedure'[r] # None
                 PROVE  /\ r \in moonagents_' /\ procedure'[r] \in children'[r]
                        /\ state_'[procedure'[r]] # Nil
                        /\ caller_'[procedure'[r]] = OriginalCaller(r)'
      BY DEF ProcedureChainValid
    <3>1. r \notin T /\ procedure'[r] = procedure[r]
      BY <2>1 DEF Terminate
    <3>2. /\ r \in moonagents_ /\ procedure[r] \in children[r]
          /\ state_[procedure[r]] # Nil /\ caller_[procedure[r]] = OriginalCaller(r)
      BY <3>1 DEF Tree, ProcedureChainValid
    <3>3. procedure[r] # p /\ procedure[r] \notin T
      BY <2>1, <3>2 DEF IsCascade
    <3>4. moonagents_' = moonagents_ \ T /\ caller_' = caller_ /\ children'[r] = children[r] \ T
      BY <2>1, <3>1 DEF Terminate
    <3>5. state_'[procedure[r]] # Nil
      BY <1>1, <3>2, <3>3 DEF TablesType
    <3> QED
      BY <3>1, <3>2, <3>3, <3>4, <3>5 DEF OriginalCaller
  <2> QED
    BY <2>1, <2>3, <2>4 DEF Terminate, Tree
<1>3. CASE children[p] # {}
  <2>1. UNCHANGED tree
    BY <1>3 DEF Stopping
  <2>2. ParentsAndChildren'
    BY <2>1 DEF tree, Tree, ParentsAndChildren
  <2>3. ProcedureChainValid'
    <3> SUFFICES ASSUME NEW r \in Pids, procedure[r] # None
                 PROVE  state_'[procedure[r]] # Nil
      BY <2>1 DEF tree, Tree, ProcedureChainValid, OriginalCaller
    <3>1. state_[procedure[r]] # Nil /\ procedure[r] # p
      BY DEF Tree, ProcedureChainValid
    <3> QED
      BY <1>1, <3>1 DEF TablesType, Tree, ProcedureChainValid
  <2> QED
    BY <2>1, <2>2, <2>3 DEF Tree, tree
<1> QED
  BY <1>2, <1>3

-----------------------------------------------------------------------------
(* New agents.                                                              *)

(* A new agent becomes a leaf of the tree, and at most one procedure field    *)
(* is set, to it.                                                           *)
LEMMA BornTree ==
  ASSUME AgentsInv, Tree, RootInv, NEW parent \in 0 .. MaxPid, NEW original \in 0 .. MaxPid,
         NEW state \in {Startup, Nil},
         Born(NextPid, parent, original, state),
         \/ parent \in moonagents_
         \/ parent = App /\ moonagents_ = {} /\ NextPid = SystemPid,
         \/ procedure' = procedure
         \/ /\ parent \in Pids /\ original = OriginalCaller(parent)
            /\ procedure' = [procedure EXCEPT ![parent] = NextPid] /\ state = Startup
  PROVE  Tree' /\ (SystemPid \in moonagents_' => parent_'[SystemPid] = App)
<1> DEFINE n == NextPid
<1>1. n \in Pids /\ n \notin moonagents_ /\ n # App /\ n # None
      /\ (SystemPid \in moonagents_ => n # SystemPid)
  <2>1. n \in Pids
    BY DEF Born
  <2>2. \A m \in moonagents_ : m < n
    BY DEF AgentsInv, EntriesInv, NothingLeaks, TablesType, App, Pids
  <2> QED
    BY <2>1, <2>2 DEF Pids, App, None, SystemPid
<1>2. /\ moonagents_' = moonagents_ \cup {n}
      /\ \A r \in Pids : parent_'[r] = IF r = n THEN parent ELSE parent_[r]
      /\ \A r \in Pids : caller_'[r] = IF r = n THEN original ELSE caller_[r]
      /\ \A r \in Pids : state_'[r] = IF r = n THEN state ELSE state_[r]
      /\ \A r \in Pids : children'[r] = IF r = parent THEN children[r] \cup {n} ELSE children[r]
  BY DEF Born, AgentsInv, TablesType
<1>3. parent # n /\ moonagents_ \subseteq Pids /\ App \notin Pids
  BY <1>1 DEF AgentsInv, TablesType, App, Pids
<1>4. \A r \in Pids : children[r] \subseteq Pids /\ n \notin children[r]
  BY <1>1 DEF Tree, ParentsAndChildren, AgentsInv, TablesType
<1> HIDE DEF n
<1>5. ParentsAndChildren'
  <2> SUFFICES ASSUME NEW r \in Pids
               PROVE  /\ r \in moonagents_' /\ r # SystemPid => parent_'[r] \in moonagents_'
                      /\ children'[r] = {c \in moonagents_' : parent_'[c] = r}
    BY DEF ParentsAndChildren
  <2>1. /\ r \in moonagents_ /\ r # SystemPid => parent_[r] \in moonagents_
        /\ children[r] = {c \in moonagents_ : parent_[c] = r}
    BY DEF Tree, ParentsAndChildren
  <2>2. r \in moonagents_' /\ r # SystemPid => parent_'[r] \in moonagents_'
    BY <1>2, <2>1 DEF n
  <2>3. {c \in moonagents_' : parent_'[c] = r}
          = {c \in moonagents_ : parent_[c] = r} \cup (IF r = parent THEN {n} ELSE {})
    BY <1>1, <1>2, <1>3
  <2> QED
    BY <1>2, <2>1, <2>2, <2>3
<1>6. ProcedureChainValid'
  <2> SUFFICES ASSUME NEW r \in Pids, procedure'[r] # None
               PROVE  /\ r \in moonagents_' /\ procedure'[r] \in children'[r]
                      /\ state_'[procedure'[r]] # Nil
                      /\ caller_'[procedure'[r]] = OriginalCaller(r)'
    BY DEF ProcedureChainValid
  <2>1. CASE procedure'[r] = procedure[r]
    <3>1. /\ r \in moonagents_ /\ procedure[r] \in children[r] /\ state_[procedure[r]] # Nil
          /\ caller_[procedure[r]] = OriginalCaller(r)
      BY <2>1 DEF Tree, ProcedureChainValid
    <3>2. procedure[r] \in Pids /\ procedure[r] # n /\ r # n
      BY <1>1, <1>4, <3>1
    <3> QED
      BY <1>2, <2>1, <3>1, <3>2 DEF OriginalCaller
  <2>2. CASE procedure'[r] # procedure[r]
    <3>1. r = parent /\ procedure'[r] = n /\ original = OriginalCaller(r) /\ state = Startup
      BY <2>2 DEF n, AgentsInv, TablesType
    <3>2. r \in moonagents_
      BY <1>3, <3>1
    <3>3. OriginalCaller(r)' = OriginalCaller(r)
      BY <1>2, <1>3, <3>1 DEF OriginalCaller
    <3> QED
      BY <1>1, <1>2, <3>1, <3>2, <3>3, StatesAssumption
  <2> QED
    BY <2>1, <2>2
<1>7. SystemPid \in moonagents_' => parent_'[SystemPid] = App
  <2>1. SystemPid \in moonagents_' => SystemPid \in Pids
    BY <1>1, <1>2, <1>3
  <2>2. CASE SystemPid \in moonagents_
    BY <1>1, <1>2, <2>1, <2>2 DEF RootInv
  <2>3. CASE SystemPid \notin moonagents_ /\ SystemPid \in moonagents_'
    <3>1. n = SystemPid
      BY <1>2, <2>3
    <3>2. parent = App \/ parent \in moonagents_
      OBVIOUS
    <3>3. parent \notin moonagents_
      <4>1. \A m \in moonagents_ : m < n /\ m \in 1 .. MaxPid
        BY DEF n, AgentsInv, EntriesInv, NothingLeaks, TablesType, App, Pids
      <4> QED
        BY <3>1, <4>1 DEF SystemPid
    <3> QED
      BY <1>2, <2>1, <2>3, <3>1, <3>2, <3>3
  <2> QED
    BY <2>2, <2>3
<1> QED
  BY <1>5, <1>6, <1>7 DEF Tree

-----------------------------------------------------------------------------
(* What happens to the frames.                                              *)

(* A call of a script that is not an atreturn function, by an agent or with  *)
(* a procedure field set to a pid that no frame has.                         *)
LEMMA CallReturning ==
  ASSUME AgentsInv, ReturningFree, NEW current, NEW pid \in Pids, NEW kind \in Kinds,
         SwitchFrom(current, pid, kind), kind # "atreturn",
         \A x \in Pids : \/ procedure'[x] \in {procedure[x], None}
                         \/ \A i \in 1 .. Len(frames) : procedure'[x] # frames[i].pid
  PROVE  ReturningFree'
<1> DEFINE n == Len(frames)
           new == [kind |-> kind, pid |-> pid]
<1>1. new \in Frames
  BY DEF Frames
<1>2. /\ n \in Nat /\ Len(frames') = n + 1
      /\ \A i \in 1 .. n : frames'[i] = frames[i]
      /\ frames'[n + 1] = new
  BY <1>1, PushStack, LenProperties DEF SwitchFrom, AgentsInv, ContextType
<1>3. \A i \in 1 .. n : frames[i] \in Frames
  BY ElementOfSeq DEF AgentsInv, ContextType
<1> SUFFICES ASSUME NEW i \in 1 .. n + 1, i > 1, frames'[i].kind = "atreturn", NEW x \in Pids
             PROVE  procedure'[x] # frames'[i - 1].pid
  BY <1>2 DEF ReturningFree
<1>4. i \in 1 .. n /\ i - 1 \in 1 .. n
  BY <1>2
<1>5. procedure[x] # frames[i - 1].pid
  BY <1>2, <1>4 DEF ReturningFree
<1>6. frames[i - 1].pid # None
  BY <1>3, <1>4 DEF Frames, Pids, None
<1> QED
  BY <1>2, <1>4, <1>5, <1>6

(* A return, with no procedure field set.                                   *)
LEMMA ReturnReturning ==
  ASSUME AgentsInv, ReturningFree, frames # <<>>, SwitchBack,
         \A x \in Pids : procedure'[x] \in {procedure[x], None}
  PROVE  ReturningFree'
<1>1. /\ Len(frames) \in Nat \ {0} /\ Len(frames') = Len(frames) - 1
      /\ \A i \in 1 .. Len(frames') : frames'[i] = frames[i]
  BY SwitchBackContext DEF AgentsInv
<1> SUFFICES ASSUME NEW i \in 1 .. Len(frames'), i > 1, frames'[i].kind = "atreturn",
                    NEW x \in Pids
             PROVE  procedure'[x] # frames'[i - 1].pid
  BY DEF ReturningFree
<1>2. i \in 1 .. Len(frames) /\ i - 1 \in 1 .. Len(frames) /\ i - 1 \in 1 .. Len(frames')
  BY <1>1
<1>3. procedure[x] # frames[i - 1].pid
  BY <1>1, <1>2 DEF ReturningFree
<1>4. frames[i - 1].pid # None
  <2>1. frames[i - 1] \in Frames
    BY <1>2, ElementOfSeq DEF AgentsInv, ContextType
  <2> QED
    BY <2>1 DEF Frames, Pids, None
<1> QED
  BY <1>1, <1>2, <1>3, <1>4

(* A step that leaves the tree and the frames alone, or clears the frames.   *)
LEMMA SameTree ==
  ASSUME Tree, UNCHANGED <<tree, state_>>
  PROVE  Tree'
  BY DEF Tree, ParentsAndChildren, ProcedureChainValid, OriginalCaller, tree

LEMMA NoFrames == ASSUME frames' = <<>> PROVE ReturningFree'
<1>1. Len(<<>>) = 0
  BY EmptySeq
<1> QED
  BY <1>1 DEF ReturningFree

(* Nothing is left of a system.                                             *)
LEMMA ClearedTree == ASSUME Cleared, frames' = <<>> PROVE TreeInv'
<1>1. ParentsAndChildren' /\ ProcedureChainValid'
  BY DEF Cleared, ParentsAndChildren, ProcedureChainValid, Nowhere
<1> QED
  BY <1>1, NoFrames DEF Cleared, TreeInv, Tree, RootInv

-----------------------------------------------------------------------------
(* The actions.                                                             *)

LEMMA CreateSystemTree == ASSUME AgentsInv, TreeInv, CreateSystem PROVE TreeInv'
<1>1. ~SystemRunning /\ moonagents_ = {} /\ NextPid = SystemPid
  BY DEF CreateSystem, AgentsInv, ControlInv, EntriesInv, NothingLeaks, TreeInv, RootInv, SystemPid
<1>2. App \in 0 .. MaxPid /\ None \in 0 .. MaxPid
  BY BoundsAssumption DEF App, None
<1>3. Born(NextPid, App, None, Startup) /\ SwitchFrom(App, NextPid, "start") /\ procedure' = procedure
      /\ SystemRunning' = TRUE
  BY DEF CreateSystem
<1>4. Tree' /\ (SystemPid \in moonagents_' => parent_'[SystemPid] = App)
  BY <1>1, <1>2, <1>3, BornTree DEF TreeInv
<1>5. ReturningFree'
  BY <1>3, CallReturning DEF TreeInv, Born, Kinds
<1> QED
  BY <1>3, <1>4, <1>5 DEF TreeInv, RootInv

LEMMA CreateTree == ASSUME AgentsInv, TreeInv, Create PROVE TreeInv'
<1>1. self_ \in 0 .. MaxPid /\ self_ \in moonagents_ /\ None \in 0 .. MaxPid /\ SystemRunning
  BY RunningFrames, BoundsAssumption DEF Create, Running, Pids, None
<1>2. Born(NextPid, self_, None, Startup) /\ SwitchFrom(self_, NextPid, "start")
      /\ procedure' = procedure /\ SystemRunning' = SystemRunning
  BY DEF Create, SwitchTo
<1>3. Tree' /\ (SystemPid \in moonagents_' => parent_'[SystemPid] = App)
  BY <1>1, <1>2, BornTree DEF TreeInv
<1>4. ReturningFree'
  BY <1>2, CallReturning DEF TreeInv, Born, Kinds
<1> QED
  BY <1>1, <1>2, <1>3, <1>4 DEF TreeInv, RootInv

LEMMA CreateUncompiledTree == ASSUME AgentsInv, TreeInv, CreateUncompiled PROVE TreeInv'
<1>1. self_ \in 0 .. MaxPid /\ self_ \in moonagents_ /\ None \in 0 .. MaxPid /\ SystemRunning
  BY RunningFrames, BoundsAssumption DEF CreateUncompiled, Running, Pids, None
<1>2. Born(NextPid, self_, None, Nil) /\ UNCHANGED <<procedure, SystemRunning, context>>
  BY DEF CreateUncompiled
<1>3. Tree' /\ (SystemPid \in moonagents_' => parent_'[SystemPid] = App)
  BY <1>1, <1>2, BornTree DEF TreeInv
<1>4. ReturningFree'
  BY <1>2 DEF TreeInv, ReturningFree, context
<1> QED
  BY <1>1, <1>2, <1>3, <1>4 DEF TreeInv, RootInv

LEMMA ProcedureTree == ASSUME AgentsInv, TreeInv, Procedure PROVE TreeInv'
<1>1. self_ \in Pids /\ self_ \in 0 .. MaxPid /\ self_ \in moonagents_ /\ SystemRunning
  BY RunningFrames DEF Procedure, Running, Pids
<1>2. /\ Born(NextPid, self_, OriginalCaller(self_), Startup) /\ SwitchFrom(self_, NextPid, "start")
      /\ procedure' = [procedure EXCEPT ![self_] = NextPid]
      /\ SystemRunning' = SystemRunning
  BY DEF Procedure, SwitchTo
<1>3. OriginalCaller(self_) \in 0 .. MaxPid
  BY <1>1 DEF OriginalCaller, AgentsInv, TablesType
<1>4. Tree' /\ (SystemPid \in moonagents_' => parent_'[SystemPid] = App)
  BY <1>1, <1>2, <1>3, BornTree DEF TreeInv
<1>5. \A x \in Pids : \/ procedure'[x] \in {procedure[x], None}
                      \/ \A i \in 1 .. Len(frames) : procedure'[x] # frames[i].pid
  <2>1. \A i \in 1 .. Len(frames) : frames[i].pid < NextPid
    BY DEF AgentsInv, EntriesInv
  <2>2. NextPid \in Nat /\ ~(NextPid < NextPid)
    BY DEF AgentsInv, TablesType
  <2>3. \A x \in Pids : procedure'[x] \in {procedure[x], NextPid}
    BY <1>2 DEF AgentsInv, TablesType
  <2> QED
    BY <2>1, <2>2, <2>3
<1>6. ReturningFree'
  BY <1>2, <1>5, CallReturning DEF TreeInv, Born, Kinds
<1> QED
  BY <1>1, <1>2, <1>4, <1>6 DEF TreeInv, RootInv

(* A procedure's field of the agent it replaces leads back to itself.        *)
LEMMA NotAProcedure ==
  ASSUME Tree, NEW p \in Pids, caller_[p] = None
  PROVE  \A x \in Pids : procedure[x] # p
  BY DEF Tree, ProcedureChainValid, OriginalCaller, None, Pids

LEMMA StopTree == ASSUME AgentsInv, TreeInv, Stop PROVE TreeInv'
<1>1. self_ \in Pids /\ Stopping(self_) /\ caller_[self_] = None
      /\ UNCHANGED <<NextPid, SystemRunning, context>>
  BY RunningFrames DEF Stop
<1>2. \A x \in Pids : procedure[x] # self_
  BY <1>1, NotAProcedure DEF TreeInv
<1>3. /\ Tree' /\ parent_' = parent_ /\ moonagents_' \subseteq moonagents_
      /\ \A x \in Pids : procedure'[x] \in {procedure[x], None}
  BY <1>1, <1>2, StoppingTree DEF AgentsInv, TreeInv
<1>4. ReturningFree'
  <2>1. frames' = frames
    BY <1>1 DEF context
  <2> SUFFICES ASSUME NEW i \in 1 .. Len(frames), i > 1, frames[i].kind = "atreturn",
                      NEW x \in Pids
               PROVE  procedure'[x] # frames[i - 1].pid
    BY <2>1 DEF ReturningFree
  <2>2. i - 1 \in 1 .. Len(frames)
    OBVIOUS
  <2>3. frames[i - 1] \in Frames
    BY <2>2, ElementOfSeq DEF AgentsInv, ContextType
  <2> QED
    BY <1>3, <2>3 DEF TreeInv, ReturningFree, Frames, Pids, None
<1> QED
  BY <1>1, <1>3, <1>4 DEF TreeInv, RootInv

LEMMA ProcedureReturnTree == ASSUME AgentsInv, TreeInv, ProcedureReturn PROVE TreeInv'
<1> DEFINE q == parent_[self_]
           n == Len(frames)
           new == [kind |-> "atreturn", pid |-> q]
<1>1. /\ self_ \in Pids /\ frames # <<>> /\ SystemRunning
      /\ q \in Pids /\ procedure[q] = self_
  BY RunningFrames DEF ProcedureReturn, Running, AgentsInv, FieldsInv
<1>2. /\ procedure' = [procedure EXCEPT ![q] = None] /\ SwitchFrom(self_, q, "atreturn")
      /\ UNCHANGED <<NextPid, SystemRunning, moonagents_, parent_, caller_, children, state_>>
  BY DEF ProcedureReturn, SwitchTo
<1>3. \A x \in Pids : procedure'[x] = IF x = q THEN None ELSE procedure[x]
  BY <1>2 DEF AgentsInv, TablesType
<1>4. Tree'
  BY <1>2, <1>3 DEF TreeInv, Tree, ParentsAndChildren, ProcedureChainValid, OriginalCaller
<1>5. new \in Frames
  BY <1>1 DEF Frames, Kinds
<1> HIDE DEF q
<1>6. /\ n \in Nat \ {0} /\ Len(frames') = n + 1
      /\ \A i \in 1 .. n : frames'[i] = frames[i]
  BY <1>1, <1>2, <1>5, PushStack, EmptySeq, LenProperties DEF SwitchFrom, AgentsInv, ContextType
<1>7. frames[n].pid = self_
  BY <1>1 DEF AgentsInv, CallStack, Top
<1>8. \A x \in Pids : procedure'[x] # self_
  <2>1. \A x \in Pids : procedure[x] = self_ => x = q
    BY <1>1 DEF TreeInv, Tree, ProcedureChainValid, ParentsAndChildren, None, Pids, q
  <2> QED
    BY <1>1, <1>3, <2>1 DEF None, Pids
<1>9. ReturningFree'
  <2> SUFFICES ASSUME NEW i \in 1 .. n + 1, i > 1, frames'[i].kind = "atreturn", NEW x \in Pids
               PROVE  procedure'[x] # frames'[i - 1].pid
    BY <1>6 DEF ReturningFree
  <2>1. i - 1 \in 1 .. n /\ frames'[i - 1] = frames[i - 1]
    BY <1>6
  <2>2. CASE i = n + 1
    <3>1. i - 1 = n
      BY <1>6, <2>2
    <3> QED
      BY <1>7, <1>8, <2>1, <3>1
  <2>3. CASE i \in 1 .. n
    <3>1. procedure[x] # frames[i - 1].pid
      BY <1>6, <2>3 DEF TreeInv, ReturningFree
    <3>2. frames[i - 1] \in Frames
      BY <2>1, ElementOfSeq DEF AgentsInv, ContextType
    <3> QED
      BY <1>3, <2>1, <3>1, <3>2 DEF Frames, Pids, None
  <2> QED
    BY <1>6, <2>2, <2>3
<1> QED
  BY <1>1, <1>2, <1>4, <1>9 DEF TreeInv, RootInv

(* Who stops when the atreturn function is done is nobody's procedure.       *)
LEMMA ReturnedStops ==
  ASSUME AgentsInv, TreeInv, AtReturnDone
  PROVE  /\ Top(PidStack) \in Pids /\ \A x \in Pids : procedure[x] # Top(PidStack)
         /\ frames # <<>> /\ SwitchBack /\ Stopping(Top(PidStack))
         /\ UNCHANGED <<NextPid, SystemRunning>>
<1> DEFINE n == Len(frames)
<1>1. /\ frames # <<>> /\ SwitchBack /\ Top(frames).kind = "atreturn"
      /\ Stopping(Top(PidStack)) /\ UNCHANGED <<NextPid, SystemRunning>>
  BY DEF AtReturnDone, InScript
<1>2. n \in Nat \ {0} /\ Top(PidStack) = Caller(n)
  BY <1>1, SwitchBackContext DEF AgentsInv
<1>3. n # 1 /\ frames[n].kind = "atreturn"
  BY <1>1 DEF AgentsInv, CallStack, Top
<1>4. n > 1 /\ n \in 1 .. n /\ n - 1 \in 1 .. n /\ Top(PidStack) = frames[n - 1].pid
  <2>1. n \in Nat /\ n # 0 /\ n # 1
    BY <1>2, <1>3
  <2>2. Top(PidStack) = frames[n - 1].pid
    BY <1>2, <1>3 DEF Caller
  <2> HIDE DEF n
  <2>3. n > 1 /\ n \in 1 .. n /\ n - 1 \in 1 .. n
    BY <2>1
  <2> QED
    BY <2>2, <2>3
<1>5. Top(PidStack) \in Pids
  <2>1. frames[n - 1] \in Frames
    BY <1>4, ElementOfSeq DEF AgentsInv, ContextType
  <2> QED
    BY <1>4, <2>1 DEF Frames
<1>6. \A x \in Pids : procedure[x] # Top(PidStack)
  BY <1>3, <1>4 DEF TreeInv, ReturningFree
<1> QED
  BY <1>1, <1>5, <1>6

LEMMA AtReturnDoneTree == ASSUME AgentsInv, TreeInv, AtReturnDone PROVE TreeInv'
<1>1. /\ Tree' /\ parent_' = parent_ /\ moonagents_' \subseteq moonagents_
      /\ \A x \in Pids : procedure'[x] \in {procedure[x], None}
  BY ReturnedStops, StoppingTree DEF AgentsInv, TreeInv
<1>2. ReturningFree'
  BY <1>1, ReturnedStops, ReturnReturning DEF TreeInv
<1> QED
  BY <1>1, <1>2, ReturnedStops DEF TreeInv, RootInv

(* A script returns and the tree stays as it is.                            *)
LEMMA ReturnTree ==
  ASSUME AgentsInv, TreeInv, frames # <<>>, SwitchBack,
         UNCHANGED <<NextPid, SystemRunning, tree, state_>>
  PROVE  TreeInv'
<1>1. Tree'
  BY SameTree DEF TreeInv
<1>2. ReturningFree'
  BY ReturnReturning DEF TreeInv, tree
<1> QED
  BY <1>1, <1>2 DEF TreeInv, RootInv, tree

(* Whoever runs a script is an agent.                                       *)
LEMMA RunnerIsAgent == ASSUME AgentsInv, frames # <<>> PROVE self_ \in Pids
<1>1. Len(frames) \in Nat \ {0}
  BY EmptySeq DEF AgentsInv, ContextType
<1>2. frames[Len(frames)] \in Frames /\ self_ = frames[Len(frames)].pid
  BY <1>1, ElementOfSeq DEF AgentsInv, ContextType, CallStack, Top
<1> QED
  BY <1>2 DEF Frames

LEMMA StartFailsTree == ASSUME AgentsInv, TreeInv, StartFails PROVE TreeInv'
<1>1. frames # <<>> /\ SwitchBack /\ caller_[self_] = None /\ UNCHANGED <<NextPid, SystemRunning>>
  BY DEF StartFails, InScript
<1>2. CASE state_[self_] # Nil
  <2>1. self_ \in Pids /\ Stopping(self_)
    BY <1>1, <1>2, RunnerIsAgent DEF StartFails
  <2>2. \A x \in Pids : procedure[x] # self_
    BY <1>1, <2>1, NotAProcedure DEF TreeInv
  <2>3. /\ Tree' /\ parent_' = parent_ /\ moonagents_' \subseteq moonagents_
        /\ \A x \in Pids : procedure'[x] \in {procedure[x], None}
    BY <2>1, <2>2, StoppingTree DEF AgentsInv, TreeInv
  <2>4. ReturningFree'
    BY <1>1, <2>3, ReturnReturning DEF TreeInv
  <2> QED
    BY <1>1, <2>3, <2>4 DEF TreeInv, RootInv
<1>3. CASE state_[self_] = Nil
  BY <1>1, <1>3, ReturnTree DEF StartFails
<1> QED
  BY <1>2, <1>3

LEMMA CallTree ==
  ASSUME AgentsInv, TreeInv, NEW pid \in Pids, NEW kind \in Kinds, kind # "atreturn",
         SwitchTo(pid, kind), UNCHANGED <<NextPid, SystemRunning, tree, state_>>
  PROVE  TreeInv'
<1>1. Tree'
  BY SameTree DEF TreeInv
<1>2. procedure' = procedure
  BY DEF tree
<1>3. ReturningFree'
  BY <1>2, CallReturning DEF SwitchTo, TreeInv
<1> QED
  BY <1>1, <1>3 DEF TreeInv, RootInv, tree

LEMMA DispatchTree ==
  ASSUME AgentsInv, TreeInv, NEW pid \in Pids, Dispatch(pid)
  PROVE  TreeInv'
<1> DEFINE d == Destination(pid)
<1>1. d \in Pids
  <2>1. d \in 0 .. MaxPid /\ d # 0
    BY DEF Dispatch, Receiving, AgentsInv, TablesType, App
  <2> QED
    BY <2>1, BoundsAssumption DEF Pids
<1>2. SwitchTo(d, "transition") /\ UNCHANGED <<NextPid, SystemRunning, tree, state_>>
  BY DEF Dispatch
<1> HIDE DEF d
<1> QED
  BY <1>1, <1>2, CallTree DEF Kinds

(* The end of a trigger forgets the parents of the released only.            *)
LEMMA EndTriggerTree == ASSUME AgentsInv, TreeInv, EndTrigger PROVE TreeInv'
<1>1. frames = <<>> /\ frames' = <<>>
  BY DEF EndTrigger, context
<1>2. CASE Cleared
  BY <1>1, <1>2, ClearedTree
<1>3. CASE ReleaseEntries
  <2>1. /\ UNCHANGED <<NextPid, SystemRunning, moonagents_, children, procedure, state_>>
        /\ \A p \in moonagents_ : parent_'[p] = parent_[p] /\ caller_'[p] = caller_[p]
        /\ moonagents_ \subseteq Pids
    BY <1>3 DEF ReleaseEntries, AgentsInv, EntriesInv, TablesType
  <2>2. ParentsAndChildren'
    BY <2>1 DEF TreeInv, Tree, ParentsAndChildren
  <2>3. ProcedureChainValid'
    <3>1. \A p \in Pids : procedure[p] # None => p \in moonagents_ /\ procedure[p] \in moonagents_
      BY DEF TreeInv, Tree, ProcedureChainValid, ParentsAndChildren
    <3> QED
      BY <2>1, <3>1 DEF TreeInv, Tree, ProcedureChainValid, OriginalCaller
  <2>4. RootInv'
    BY <2>1 DEF TreeInv, RootInv
  <2> QED
    BY <1>1, <2>2, <2>3, <2>4, NoFrames DEF TreeInv, Tree
<1> QED
  BY <1>2, <1>3 DEF EndTrigger, Release

LEMMA NextStateTree == ASSUME AgentsInv, TreeInv, NEW s \in States, NextState(s) PROVE TreeInv'
<1>1. /\ self_ \in Pids /\ state_[self_] # Nil /\ state_' = [state_ EXCEPT ![self_] = s]
      /\ UNCHANGED <<NextPid, SystemRunning, tree, context>> /\ s # Nil
  BY RunningFrames, StatesAssumption DEF NextState
<1>2. \A p \in Pids : state_'[p] = Nil <=> state_[p] = Nil
  BY <1>1 DEF AgentsInv, TablesType
<1>3. ParentsAndChildren'
  BY <1>1 DEF TreeInv, Tree, ParentsAndChildren, tree
<1>4. ProcedureChainValid'
  <2>1. \A p \in Pids : procedure[p] # None => procedure[p] \in Pids
    BY DEF TreeInv, Tree, ProcedureChainValid, AgentsInv, TablesType
  <2> QED
    BY <1>1, <1>2, <2>1 DEF TreeInv, Tree, ProcedureChainValid, OriginalCaller, tree
<1>5. ReturningFree' /\ RootInv'
  BY <1>1 DEF TreeInv, ReturningFree, RootInv, tree, context
<1> QED
  BY <1>3, <1>4, <1>5 DEF TreeInv, Tree

-----------------------------------------------------------------------------
LEMMA TreeInitInv == AgentsInit => TreeInv
<1> SUFFICES ASSUME AgentsInit PROVE TreeInv
  OBVIOUS
<1>1. Len(frames) = 0
  BY EmptySeq DEF AgentsInit
<1>2. ReturningFree /\ RootInv
  BY <1>1 DEF AgentsInit, ReturningFree, RootInv
<1>3. Tree
  BY DEF AgentsInit, Tree, ParentsAndChildren, ProcedureChainValid, Nowhere
<1> QED
  BY <1>2, <1>3 DEF TreeInv

(* The invariant is inductive: one case for each action.                     *)
LEMMA TreeNextInv == AgentsInv /\ TreeInv /\ [AgentsNext]_agentVars => TreeInv'
<1> SUFFICES ASSUME AgentsInv, TreeInv, [AgentsNext]_agentVars PROVE TreeInv'
  OBVIOUS
<1>1. CASE CreateSystem \/ Create \/ CreateUncompiled \/ Procedure
  BY <1>1, CreateSystemTree, CreateTree, CreateUncompiledTree, ProcedureTree
<1>2. CASE Stop \/ ProcedureReturn \/ AtReturnDone \/ StartFails
  BY <1>2, StopTree, ProcedureReturnTree, AtReturnDoneTree, StartFailsTree
<1>3. ASSUME NEW s \in States, NextState(s) PROVE TreeInv'
  BY <1>3, NextStateTree
<1>4. CASE StartReturn \/ RemoteReturn \/ TransitionReturn \/ SystemStartFails
  BY <1>4, ReturnTree DEF StartReturn, RemoteReturn, TransitionReturn, SystemStartFails, InScript
<1>5. CASE Raise
  <2>1. frames' = <<>> /\ UNCHANGED <<NextPid, SystemRunning, tree, state_>>
    BY <1>5 DEF Raise
  <2> QED
    BY <2>1, SameTree, NoFrames DEF TreeInv, RootInv, tree
<1>6. ASSUME NEW pid \in Pids, RemoteCall(pid) PROVE TreeInv'
  BY <1>6, CallTree DEF RemoteCall, Kinds
<1>7. ASSUME NEW pid \in Pids, Dispatch(pid) PROVE TreeInv'
  BY <1>7, DispatchTree
<1>8. CASE EndTrigger
  BY <1>8, EndTriggerTree
<1>9. CASE Reset
  BY <1>9, ClearedTree DEF Reset, context
<1>10. CASE CreateDuplicate
  <2>1. SystemRunning /\ UNCHANGED <<SystemRunning, tree, state_, context>>
    BY <1>10, RunningFrames DEF CreateDuplicate
  <2> QED
    BY <2>1, SameTree DEF TreeInv, RootInv, ReturningFree, tree, context
<1>11. CASE BeginTrigger \/ UNCHANGED agentVars
  <2>1. UNCHANGED <<NextPid, SystemRunning, tree, state_, context>>
    BY <1>11 DEF BeginTrigger, agentVars
  <2> QED
    BY <2>1, SameTree DEF TreeInv, RootInv, ReturningFree, tree, context
<1> QED
  BY <1>1, <1>2, <1>3, <1>4, <1>5, <1>6, <1>7, <1>8, <1>9, <1>10, <1>11 DEF AgentsNext

LEMMA TreeInvariant == AgentsSpec => []TreeInv
  BY AgentsInvariant, TreeInitInv, TreeNextInv, AgentsInitInv, AgentsNextInv, PTL DEF AgentsSpec

(* Parents, children and procedures are about one tree of living agents, in   *)
(* which nobody is replaced by a procedure that is stopping or gone, however *)
(* create, procedure, stop and procedure_return interleave and fail.         *)
THEOREM TreeIsConsistent == AgentsSpec => []TreeConsistent
<1>1. TreeInv => TreeConsistent
  BY DEF TreeInv, Tree, TreeConsistent
<1> QED
  BY <1>1, TreeInvariant, PTL

-----------------------------------------------------------------------------
(* No step leaves an agent behind that will never terminate.                *)
NoNewZombie == \A p \in moonagents_' : Zombie(p)' => p \notin moonagents_ \/ Zombie(p)

(* Who loses its last child to the chain that Terminate climbs is in it.     *)
LEMMA StoppingLeavesNone ==
  ASSUME TablesType, Tree, NEW p \in Pids, Stopping(p)
  PROVE  NoNewZombie
<1> SUFFICES ASSUME NEW q \in moonagents_', state_'[q] = Nil, children'[q] = {},
                    q \in moonagents_, state_[q] # Nil \/ children[q] # {}
             PROVE  FALSE
  BY DEF NoNewZombie, Zombie
<1>1. q \in Pids /\ (q # p => state_[q] = Nil)
  BY DEF Stopping, TablesType
<1>2. CASE children[p] = {}
  <2>1. PICK T \in SUBSET Pids : IsCascade(p, T) /\ Terminate(T)
    BY <1>2 DEF Stopping
  <2>2. q \notin T /\ children'[q] = children[q] \ T
    BY <1>1, <2>1 DEF Terminate
  <2>3. q # p /\ state_[q] = Nil
    BY <1>1, <2>1, <2>2 DEF IsCascade
  <2>4. PICK c \in children[q] \cap T : TRUE
    BY <2>2, <2>3
  <2>5. \A d \in children[q] : d = c
    BY <1>1, <2>1, <2>2, <2>4, OneOfTheChain DEF Tree
  <2>6. LastChild(q, c)
    BY <2>4, <2>5 DEF LastChild
  <2> QED
    BY <1>1, <2>1, <2>2, <2>3, <2>4, <2>6 DEF IsCascade
<1>3. CASE children[p] # {}
  BY <1>1, <1>3 DEF Stopping, tree
<1> QED
  BY <1>2, <1>3

LEMMA BirthLeavesNone ==
  ASSUME AgentsInv, NEW parent, NEW original, NEW state, Born(NextPid, parent, original, state)
  PROVE  NoNewZombie
<1> SUFFICES ASSUME NEW q \in moonagents_', state_'[q] = Nil, children'[q] = {}, q \in moonagents_
             PROVE  state_[q] = Nil /\ children[q] = {}
  BY DEF NoNewZombie, Zombie
<1>1. q \in Pids /\ q \in ENV
  BY DEF AgentsInv, TablesType, EntriesInv, NothingLeaks
<1>2. q < NextPid /\ NextPid \in Nat
  BY <1>1 DEF AgentsInv, EntriesInv, TablesType
<1>3. state_'[q] = state_[q]
  BY <1>1, <1>2 DEF Born, AgentsInv, TablesType, Pids
<1> QED
  BY <1>1, <1>3 DEF Born

LEMMA ZombiesNext == ASSUME AgentsInv, TreeInv, [AgentsNext]_agentVars PROVE NoNewZombie
<1>1. CASE CreateSystem \/ Create \/ CreateUncompiled \/ Procedure
  BY <1>1, BirthLeavesNone DEF CreateSystem, Create, CreateUncompiled, Procedure
<1>2. CASE Stop \/ StartFails \/ AtReturnDone
  <2>1. CASE Stop
    BY <2>1, RunningFrames, StoppingLeavesNone DEF Stop, AgentsInv, TreeInv
  <2>2. CASE AtReturnDone
    BY <2>2, ReturnedStops, StoppingLeavesNone DEF AgentsInv, TreeInv
  <2>3. CASE StartFails /\ state_[self_] # Nil
    BY <2>3, RunnerIsAgent, StoppingLeavesNone DEF StartFails, InScript, AgentsInv, TreeInv
  <2>4. CASE StartFails /\ state_[self_] = Nil
    BY <2>4 DEF StartFails, tree, NoNewZombie, Zombie
  <2> QED
    BY <1>2, <2>1, <2>2, <2>3, <2>4
<1>3. ASSUME UNCHANGED <<moonagents_, children, state_>> PROVE NoNewZombie
  BY <1>3 DEF NoNewZombie, Zombie
<1>4. ASSUME NEW s \in States, NextState(s) PROVE NoNewZombie
  <2>1. self_ \in Pids /\ s # Nil
    BY <1>4, RunningFrames, StatesAssumption DEF NextState
  <2>2. \A p \in Pids : state_'[p] = Nil => state_[p] = Nil
    BY <1>4, <2>1 DEF NextState, AgentsInv, TablesType
  <2> QED
    BY <1>4, <2>2 DEF NextState, NoNewZombie, Zombie, tree, AgentsInv, TablesType
<1>5. CASE Cleared
  BY <1>5 DEF Cleared, NoNewZombie
<1>6. CASE EndTrigger \/ Reset
  BY <1>3, <1>5, <1>6 DEF EndTrigger, Release, ReleaseEntries, Reset
<1>7. CASE \/ CreateDuplicate \/ ProcedureReturn \/ StartReturn \/ SystemStartFails \/ Raise
           \/ RemoteReturn \/ TransitionReturn \/ BeginTrigger \/ UNCHANGED agentVars
           \/ \E pid \in Pids : RemoteCall(pid) \/ Dispatch(pid)
  BY <1>3, <1>7
  DEF CreateDuplicate, ProcedureReturn, StartReturn, SystemStartFails, Raise, RemoteReturn,
      TransitionReturn, BeginTrigger, RemoteCall, Dispatch, agentVars, tree
<1> QED
  BY <1>1, <1>2, <1>4, <1>6, <1>7 DEF AgentsNext

(* No agent that stops, or loses its last child while it is stopping, stays   *)
(* without having terminated (569): Terminate's climb misses nobody.         *)
THEOREM StoppingEnds == AgentsSpec => NoZombie
<1>1. AgentsInv /\ TreeInv /\ [AgentsNext]_agentVars =>
        [\A p \in moonagents_' : Zombie(p)' => p \notin moonagents_ \/ Zombie(p)]_agentVars
  BY ZombiesNext DEF NoNewZombie
<1> QED
  BY <1>1, AgentsInvariant, TreeInvariant, PTL DEF AgentsSpec, NoZombie

-----------------------------------------------------------------------------
(* The chain of procedures.                                                 *)

(* A set of naturals has a least element: what stands in for induction below, *)
(* as the least counterexample.                                              *)
LEMMA LeastElement ==
  ASSUME NEW T \in SUBSET Nat, T # {}
  PROVE  \E x \in T : \A y \in T : x <= y
<1> DEFINE R == OpToRel(<, Nat)
<1>1. IsWellFoundedOn(R, Nat)
  BY NatLessThanWellFounded
<1>2. \A y, x \in Nat : y < x => <<y, x>> \in R
  BY DEF OpToRel
<1> HIDE DEF R
<1>3. PICK x \in T : \A y \in T : ~ (<<y, x>> \in R)
  BY <1>1, WFMin
<1>4. ASSUME NEW y \in T PROVE x <= y
  <2>1. y \in Nat /\ x \in Nat
    OBVIOUS
  <2>2. ~ (y < x)
    BY <1>2, <1>3, <2>1
  <2> QED
    BY <2>1, <2>2
<1> QED
  BY <1>4

(* A procedure is younger than the agent that it replaces.                   *)
YoungerProcedures == \A p \in Pids : procedure[p] # None => procedure[p] > p

(* Hence the chains of procedures end, and OnBehalfOf, which follows them, is *)
(* defined by its equation.                                                  *)
LEMMA OnBehalfOfDef ==
  ASSUME TablesType, YoungerProcedures
  PROVE  \A p \in Pids :
           OnBehalfOf[p] = IF procedure[p] = None THEN p ELSE OnBehalfOf[procedure[p]]
<1> DEFINE Next1(f) == [p \in Pids |-> IF procedure[p] = None THEN p ELSE f[procedure[p]]]
           Solved(n, f) == \A p \in Pids : p > MaxPid - n => f[p] = Next1(f)[p]
           T == {n \in 0 .. MaxPid : ~ \E f : f \in [Pids -> Pids] /\ Solved(n, f)}
<1>1. \A p \in Pids : procedure[p] \in 0 .. MaxPid /\ (procedure[p] # None => procedure[p] \in Pids)
  BY DEF TablesType, Pids, None
<1>2. MaxPid \in Nat
  BY BoundsAssumption
<1>3. T = {}
  <2> SUFFICES ASSUME T # {} PROVE FALSE
    OBVIOUS
  <2>1. PICK n \in T : \A m \in T : n <= m
    <3>1. T \in SUBSET Nat
      BY <1>2
    <3> HIDE DEF T
    <3> QED
      BY <3>1, LeastElement
  <2>2. n \in 0 .. MaxPid /\ n # 0
    <3> DEFINE id == [p \in Pids |-> p]
    <3>1. id \in [Pids -> Pids] /\ Solved(0, id)
      BY <1>2 DEF Pids
    <3> HIDE DEF id, Solved
    <3> QED
      BY <3>1
  <2>3. n - 1 \in 0 .. MaxPid /\ n - 1 \notin T
    <3>1. T \subseteq Nat /\ n \in Nat
      BY <1>2, <2>2
    <3>2. n - 1 \in 0 .. MaxPid
      BY <1>2, <2>2
    <3> HIDE DEF T
    <3> QED
      BY <2>1, <3>1, <3>2
  <2>4. PICK f : f \in [Pids -> Pids] /\ Solved(n - 1, f)
    <3> HIDE DEF Solved
    <3> QED
      BY <2>3
  <2> DEFINE q == MaxPid - n + 1
             g == [f EXCEPT ![q] = IF procedure[q] = None THEN q ELSE f[procedure[q]]]
  <2>5. q \in Pids /\ q > MaxPid - n
    BY <1>2, <2>2 DEF Pids
  <2>6. g \in [Pids -> Pids]
    BY <1>1, <2>4, <2>5
  <2>7. ASSUME NEW p \in Pids, p > MaxPid - n PROVE g[p] = Next1(g)[p]
    <3>1. p >= q /\ p \in Int
      BY <1>2, <2>2, <2>7 DEF Pids
    <3>2. procedure[p] # None => procedure[p] \in Pids /\ procedure[p] > q /\ g[procedure[p]] = f[procedure[p]]
      <4> SUFFICES ASSUME procedure[p] # None PROVE procedure[p] \in Pids /\ procedure[p] > q /\ g[procedure[p]] = f[procedure[p]]
        OBVIOUS
      <4>1. procedure[p] \in Pids /\ procedure[p] > p
        BY <1>1 DEF YoungerProcedures
      <4>2. procedure[p] > q
        BY <1>2, <2>2, <3>1, <4>1 DEF Pids
      <4> HIDE DEF q
      <4>3. procedure[p] # q
        BY <4>1, <4>2, <2>5 DEF Pids
      <4> QED
        BY <2>4, <4>1, <4>2, <4>3
    <3>3. CASE p = q
      BY <2>4, <2>5, <3>2, <3>3
    <3>4. CASE p # q
      <4>1. p > MaxPid - (n - 1)
        BY <1>2, <2>2, <3>1, <3>4
      <4>2. f[p] = Next1(f)[p]
        BY <2>4, <4>1
      <4> HIDE DEF q
      <4> QED
        BY <2>4, <2>5, <3>2, <3>4, <4>2
    <3> QED
      BY <3>3, <3>4
  <2>8. Solved(n, g)
    <3> HIDE DEF g, Next1
    <3> QED
      BY <2>7
  <2> HIDE DEF g, Solved
  <2> QED
    BY <2>1, <2>6, <2>8
<1>4. \E f : f = Next1(f)
  <2>1. MaxPid \in 0 .. MaxPid /\ MaxPid \notin T
    <3>1. MaxPid \in 0 .. MaxPid
      BY <1>2
    <3> HIDE DEF T
    <3> QED
      BY <1>3, <3>1
  <2>2. PICK f : f \in [Pids -> Pids] /\ Solved(MaxPid, f)
    <3> HIDE DEF Solved
    <3> QED
      BY <2>1
  <2>3. \A p \in Pids : f[p] = Next1(f)[p]
    BY <1>2, <2>2 DEF Pids
  <2>4. f = Next1(f)
    BY <2>2, <2>3
  <2> QED
    BY <2>4
<1>5. OnBehalfOf = CHOOSE f : f = Next1(f)
  BY DEF OnBehalfOf
<1>6. OnBehalfOf = Next1(OnBehalfOf)
  <2> HIDE DEF Next1
  <2> QED
    BY <1>4, <1>5
<1>7. \A p \in Pids : OnBehalfOf[p] = Next1(OnBehalfOf)[p]
  BY <1>6
<1> QED
  BY <1>7

(* Where the chain of procedures that begins at p ends.                       *)
LEMMA InnermostProcedure ==
  ASSUME TablesType, YoungerProcedures, Tree
  PROVE  \A p \in Pids :
           /\ Destination(p) \in Pids
           /\ procedure[Destination(p)] = None
           /\ OriginalCaller(Destination(p)) = OriginalCaller(p)
<1> DEFINE Good(p) == /\ OnBehalfOf[p] \in Pids
                      /\ procedure[OnBehalfOf[p]] = None
                      /\ OriginalCaller(OnBehalfOf[p]) = OriginalCaller(p)
           T == {n \in 0 .. MaxPid : \E p \in Pids : n = MaxPid - p /\ ~ Good(p)}
<1>1. MaxPid \in Nat
  BY BoundsAssumption
<1>2. ASSUME T # {} PROVE FALSE
  <2>1. T \in SUBSET Nat
    BY <1>1
  <2>2. PICK n \in T : \A m \in T : n <= m
    <3> HIDE DEF T
    <3> QED
      BY <1>2, <2>1, LeastElement
  <2>3. PICK p \in Pids : n = MaxPid - p /\ ~ Good(p)
    BY <2>2
  <2>4. procedure[p] # None
    BY <2>3, OnBehalfOfDef
  <2> DEFINE c == procedure[p]
  <2>5. c \in Pids /\ c > p /\ OriginalCaller(c) = OriginalCaller(p)
    <3>1. c \in children[p] /\ caller_[c] = OriginalCaller(p) /\ c > p
      BY <2>4 DEF YoungerProcedures, Tree, ProcedureChainValid
    <3>2. c \in Pids
      BY <3>1 DEF TablesType
    <3>3. OriginalCaller(p) # None
      BY DEF OriginalCaller, Pids, None
    <3> QED
      BY <3>1, <3>2, <3>3 DEF OriginalCaller
  <2>6. OnBehalfOf[p] = OnBehalfOf[c]
    BY <2>4, OnBehalfOfDef
  <2> HIDE DEF c
  <2>7. ~ Good(c)
    BY <2>3, <2>5, <2>6
  <2>8. MaxPid - c \in 0 .. MaxPid /\ MaxPid - c < n
    BY <1>1, <2>3, <2>5 DEF Pids
  <2>9. MaxPid - c \in T
    <3> HIDE DEF Good
    <3> QED
      BY <2>5, <2>7, <2>8
  <2> QED
    BY <2>1, <2>2, <2>8, <2>9
<1> SUFFICES ASSUME NEW p \in Pids PROVE Good(p)
  BY DEF Destination
<1>3. MaxPid - p \in 0 .. MaxPid
  BY <1>1 DEF Pids
<1> HIDE DEF Good
<1> QED
  BY <1>2, <1>3

(* The procedure fields are cleared, but for the one that procedure() sets.   *)
LEMMA YoungerNext ==
  ASSUME AgentsInv, YoungerProcedures, [AgentsNext]_agentVars
  PROVE  YoungerProcedures'
<1>1. SUFFICES \A p \in Pids : \/ procedure'[p] \in {procedure[p], None}
                               \/ p \in moonagents_ /\ procedure'[p] = NextPid
  <2>1. \A p \in moonagents_ : NextPid > p
    BY DEF AgentsInv, EntriesInv, NothingLeaks, TablesType, App, Pids
  <2> QED
    BY <2>1 DEF YoungerProcedures
<1>2. \A p \in Pids : procedure[p] \in 0 .. MaxPid
  BY DEF AgentsInv, TablesType
<1>3. ASSUME NEW p, Stopping(p)
      PROVE  \A q \in Pids : procedure'[q] \in {procedure[q], None}
  BY <1>3 DEF Stopping, Terminate, tree
<1>4. CASE Procedure
  <2>1. self_ \in moonagents_ /\ procedure' = [procedure EXCEPT ![self_] = NextPid]
    BY <1>4 DEF Procedure, Running
  <2> QED
    BY <2>1 DEF AgentsInv, TablesType
<1>5. CASE ProcedureReturn
  BY <1>5 DEF ProcedureReturn, AgentsInv, TablesType
<1>6. CASE Stop \/ AtReturnDone \/ StartFails
  BY <1>3, <1>6 DEF Stop, AtReturnDone, StartFails, tree
<1>7. CASE EndTrigger \/ Reset
  BY <1>7 DEF EndTrigger, Reset, Release, Cleared, ReleaseEntries, Nowhere
<1>8. CASE CreateSystem \/ Create \/ CreateUncompiled \/ CreateDuplicate \/ StartReturn
           \/ SystemStartFails \/ Raise \/ RemoteReturn \/ TransitionReturn \/ BeginTrigger \/ UNCHANGED agentVars
  BY <1>8 DEF CreateSystem, Create, CreateUncompiled, CreateDuplicate, StartReturn,
              SystemStartFails, Raise, RemoteReturn, TransitionReturn, BeginTrigger, agentVars, tree
<1>9. ASSUME NEW s \in States, NextState(s) PROVE procedure' = procedure
  BY <1>9 DEF NextState, tree
<1>10. ASSUME NEW pid \in Pids, RemoteCall(pid) \/ Dispatch(pid) PROVE procedure' = procedure
  BY <1>10 DEF RemoteCall, Dispatch, tree
<1> QED
  BY <1>4, <1>5, <1>6, <1>7, <1>8, <1>9, <1>10 DEF AgentsNext

LEMMA YoungerInvariant == AgentsSpec => []YoungerProcedures
<1>1. AgentsInit => YoungerProcedures
  BY DEF AgentsInit, YoungerProcedures, Nowhere
<1>2. AgentsInv /\ YoungerProcedures /\ [AgentsNext]_agentVars => YoungerProcedures'
  BY YoungerNext
<1> QED
  BY <1>1, <1>2, AgentsInvariant, PTL DEF AgentsSpec

(* While its procedure has not returned, an agent takes no signal: Dispatch   *)
(* (591) runs the transition of the innermost of its nested procedures, one   *)
(* that acts for the same original caller.                                   *)
THEOREM SignalsGoToTheInnermost == AgentsSpec => InnermostProcedureRuns
<1>1. ASSUME AgentsInv, TreeInv, YoungerProcedures, NEW p \in Pids, Dispatch(p)
      PROVE  LET d == frames'[1].pid IN
               /\ procedure[d] = None
               /\ d # p => OriginalCaller(d) = OriginalCaller(p)
  <2>1. /\ procedure[Destination(p)] = None
        /\ OriginalCaller(Destination(p)) = OriginalCaller(p)
    BY <1>1, InnermostProcedure DEF AgentsInv, TreeInv
  <2>2. frames' = <<[kind |-> "transition", pid |-> Destination(p)]>>
    BY <1>1 DEF Dispatch, SwitchTo, SwitchFrom
  <2>3. frames'[1].pid = Destination(p)
    BY <2>2
  <2> QED
    BY <2>1, <2>3
<1>2. AgentsInv /\ TreeInv /\ YoungerProcedures =>
        [\A p \in Pids : Dispatch(p) =>
           LET d == frames'[1].pid IN
             /\ procedure[d] = None
             /\ d # p => OriginalCaller(d) = OriginalCaller(p)]_agentVars
  BY <1>1
<1> QED
  BY <1>2, AgentsInvariant, TreeInvariant, YoungerInvariant, PTL DEF InnermostProcedureRuns

-----------------------------------------------------------------------------
(* A procedure acts for who its parent acts for, or for its parent.          *)

ActsForParent(q) == parent_[q] < q /\ caller_[q] = OriginalCaller(parent_[q])

Callers == \A q \in moonagents_ : caller_[q] # None => ActsForParent(q)

(* The parent of a procedure is alive.                                      *)
LEMMA ParentOfProcedure ==
  ASSUME AgentsInv, TreeInv, NEW q \in moonagents_, caller_[q] # None
  PROVE  parent_[q] \in Pids /\ parent_[q] \in moonagents_ /\ q \in children[parent_[q]]
<1>1. q \in Pids /\ parent_[q] \in Pids
  BY DEF AgentsInv, TablesType, FieldsInv
<1>2. q # SystemPid
  BY <1>1 DEF TreeInv, RootInv, App, Pids
<1>3. parent_[q] \in moonagents_
  BY <1>1, <1>2 DEF TreeInv, Tree, ParentsAndChildren
<1>4. children[parent_[q]] = {c \in moonagents_ : parent_[c] = parent_[q]}
  BY <1>1, Zenon DEF TreeInv, Tree, ParentsAndChildren
<1> QED
  BY <1>1, <1>3, <1>4

LEMMA SameCallers ==
  ASSUME AgentsInv, AgentsInv', TreeInv', Callers, moonagents_' \subseteq moonagents_,
         \A p \in moonagents_' : parent_'[p] = parent_[p] /\ caller_'[p] = caller_[p]
  PROVE  Callers'
<1> SUFFICES ASSUME NEW q \in moonagents_', caller_'[q] # None
             PROVE  ActsForParent(q)'
  BY DEF Callers
<1>1. parent_'[q] \in moonagents_'
  <2>1. q \in Pids /\ parent_'[q] \in Pids
    BY DEF AgentsInv, TablesType, FieldsInv
  <2>2. q # SystemPid
    BY <2>1 DEF TreeInv, RootInv, App, Pids
  <2> QED
    BY <2>1, <2>2 DEF TreeInv, Tree, ParentsAndChildren
<1> QED
  BY <1>1 DEF Callers, ActsForParent, OriginalCaller

LEMMA BornCallers ==
  ASSUME AgentsInv, TreeInv, Callers, NEW parent \in 0 .. MaxPid, NEW original, NEW state,
         Born(NextPid, parent, original, state),
         \/ original = None
         \/ parent \in moonagents_ /\ original = OriginalCaller(parent)
  PROVE  Callers'
<1>1. \A p \in moonagents_ : p \in Pids /\ p < NextPid /\ p # NextPid
  <2>1. \A p \in moonagents_ : p \in Pids /\ p \in ENV
    BY DEF AgentsInv, EntriesInv, NothingLeaks, TablesType
  <2>2. \A p \in moonagents_ : p < NextPid
    BY <2>1 DEF AgentsInv, EntriesInv
  <2>3. NextPid \in Nat
    BY DEF AgentsInv, TablesType
  <2> QED
    BY <2>1, <2>2, <2>3 DEF Pids
<1>2. NextPid \in Pids /\ moonagents_' = moonagents_ \cup {NextPid}
  BY DEF Born
<1>3. \A p \in Pids : /\ parent_'[p] = IF p = NextPid THEN parent ELSE parent_[p]
                      /\ caller_'[p] = IF p = NextPid THEN original ELSE caller_[p]
  BY DEF Born, AgentsInv, TablesType
<1>4. ASSUME NEW q \in moonagents_, caller_'[q] # None
      PROVE  ActsForParent(q)'
  <2>1. caller_[q] # None /\ caller_'[q] = caller_[q] /\ parent_'[q] = parent_[q]
    BY <1>1, <1>3, <1>4
  <2>2. parent_[q] \in moonagents_
    BY <2>1, ParentOfProcedure
  <2>3. caller_'[parent_[q]] = caller_[parent_[q]]
    BY <1>1, <1>3, <2>2
  <2> QED
    BY <2>1, <2>3 DEF Callers, ActsForParent, OriginalCaller
<1>5. ASSUME caller_'[NextPid] # None
      PROVE  \A q : q = NextPid => ActsForParent(q)'
  <2>1. parent \in moonagents_ /\ original = OriginalCaller(parent)
    BY <1>2, <1>3, <1>5
  <2> QED
    BY <1>1, <1>2, <1>3, <2>1 DEF ActsForParent, OriginalCaller
<1> QED
  BY <1>2, <1>4, <1>5 DEF Callers

LEMMA CallersNext ==
  ASSUME AgentsInv, TreeInv, Callers, [AgentsNext]_agentVars
  PROVE  Callers'
<1>1. AgentsInv' /\ TreeInv'
  BY AgentsNextInv, TreeNextInv
<1>2. ASSUME UNCHANGED <<moonagents_, parent_, caller_>> PROVE Callers'
  BY <1>1, <1>2, SameCallers
<1>3. CASE CreateSystem
  BY <1>3, BornCallers, BoundsAssumption DEF CreateSystem, App
<1>4. CASE Create \/ CreateUncompiled \/ Procedure
  <2>1. self_ \in 0 .. MaxPid /\ self_ \in moonagents_
    BY <1>4 DEF Create, CreateUncompiled, Procedure, Running, AgentsInv, ContextType
  <2> QED
    BY <1>4, <2>1, BornCallers DEF Create, CreateUncompiled, Procedure
<1>5. CASE Stop \/ AtReturnDone \/ StartFails
  <2>1. ASSUME NEW p, Stopping(p)
        PROVE  moonagents_' \subseteq moonagents_ /\ UNCHANGED <<parent_, caller_>>
    BY <2>1 DEF Stopping, Terminate, tree
  <2>2. moonagents_' \subseteq moonagents_ /\ UNCHANGED <<parent_, caller_>>
    BY <1>5, <2>1 DEF Stop, AtReturnDone, StartFails, tree
  <2> QED
    BY <1>1, <2>2, SameCallers
<1>6. CASE CreateDuplicate \/ ProcedureReturn \/ (\E s \in States : NextState(s))
  BY <1>2, <1>6 DEF CreateDuplicate, ProcedureReturn, NextState, tree
<1>7. CASE \/ StartReturn \/ SystemStartFails \/ Raise \/ RemoteReturn \/ TransitionReturn
           \/ BeginTrigger \/ \E pid \in Pids : RemoteCall(pid) \/ Dispatch(pid)
  BY <1>2, <1>7 DEF StartReturn, SystemStartFails, Raise, RemoteReturn, TransitionReturn,
     BeginTrigger, RemoteCall, Dispatch, tree
<1>8. CASE Cleared
  BY <1>8 DEF Cleared, Callers
<1>9. CASE EndTrigger
  <2>1. CASE ReleaseEntries
    <3>1. \A p \in moonagents_ : p \notin ReleaseQueue /\ p \in Pids
      BY DEF AgentsInv, EntriesInv, TablesType
    <3> QED
      BY <1>1, <2>1, <3>1, SameCallers DEF ReleaseEntries
  <2> QED
    BY <1>8, <1>9, <2>1 DEF EndTrigger, Release
<1>10. CASE Reset
  BY <1>8, <1>10 DEF Reset
<1>11. CASE UNCHANGED agentVars
  BY <1>2, <1>11 DEF agentVars, tree
<1> QED
  BY <1>3, <1>4, <1>5, <1>6, <1>7, <1>9, <1>10, <1>11 DEF AgentsNext

LEMMA CallersInvariant == AgentsSpec => []Callers
<1>1. AgentsInit => Callers
  BY DEF AgentsInit, Callers
<1>2. AgentsInv /\ TreeInv /\ Callers /\ [AgentsNext]_agentVars => Callers'
  BY CallersNext
<1> QED
  BY <1>1, <1>2, AgentsInvariant, TreeInvariant, PTL DEF AgentsSpec

(* Who acts for an agent that terminates terminates with it.                 *)
LEMMA ProceduresGo ==
  ASSUME AgentsInv, TreeInv, Callers, NEW T \in SUBSET Pids,
         \A q \in T : children[q] \subseteq T, NEW p \in T
  PROVE  \A q \in moonagents_ : caller_[q] = p => q \in T
<1> DEFINE Stray == {q \in moonagents_ : caller_[q] = p /\ q \notin T}
<1> SUFFICES ASSUME Stray # {} PROVE FALSE
  OBVIOUS
<1>1. moonagents_ \subseteq Pids /\ Pids \subseteq Nat /\ p # None
  BY DEF AgentsInv, TablesType, Pids, None
<1>2. Stray \in SUBSET Nat
  BY <1>1
<1>3. PICK q \in Stray : \A x \in Stray : q <= x
  BY <1>2, LeastElement
<1>4. q \in moonagents_ /\ caller_[q] # None /\ q \in Nat /\ caller_[q] = p /\ q \notin T
  BY <1>1, <1>3
<1>5. /\ parent_[q] \in Pids /\ parent_[q] \in moonagents_ /\ q \in children[parent_[q]]
      /\ parent_[q] < q /\ p = OriginalCaller(parent_[q])
  BY <1>4, ParentOfProcedure DEF Callers, ActsForParent
<1>6. parent_[q] \notin T
  BY <1>4, <1>5
<1>7. caller_[parent_[q]] = p
  BY <1>5, <1>6 DEF OriginalCaller
<1>8. parent_[q] \in Stray /\ parent_[q] \in Nat
  BY <1>1, <1>5, <1>6, <1>7
<1> HIDE DEF Stray
<1> QED
  BY <1>3, <1>4, <1>5, <1>8

=============================================================================
