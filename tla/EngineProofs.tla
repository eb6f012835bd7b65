----------------------------- MODULE EngineProofs -----------------------------
(***************************************************************************)
(* Proofs about Engine: what is proved of the agents and of the schedulers   *)
(* holds when they are put together, and saved signals belong to who has     *)
(* them, for any signals, agents, levels and depth of calls.                 *)
(***************************************************************************)
EXTENDS Engine, AgentsProofs

(* Every step of the engine is one of the agents, or leaves them alone.      *)
LEMMA EngineStepIsAgentsStep == [EngineNext]_engineVars => [AgentsNext]_agentVars
<1> SUFFICES ASSUME [EngineNext]_engineVars PROVE [AgentsNext]_agentVars
  OBVIOUS
<1>1. CASE WithoutSignals
  BY <1>1 DEF WithoutSignals, AgentsNext
<1>2. CASE Stop \/ AtReturnDone \/ StartFails
  BY <1>2 DEF AgentsNext
<1>3. ASSUME NEW s \in States, ChangeState(s) PROVE AgentsNext
  BY <1>3 DEF ChangeState, AgentsNext
<1>4. CASE Return \/ StartTrigger \/ FinishTrigger \/ FinishTransition \/ ScriptRaises \/ ResetSystem
  BY <1>4 DEF Return, StartTrigger, FinishTrigger, FinishTransition, ScriptRaises, ResetSystem, AgentsNext
<1>5. ASSUME NEW e \in Entries, Deliver(e) PROVE AgentsNext
  BY <1>5 DEF Deliver, Entries, AgentsNext
<1>6. ASSUME NEW e \in Entries, Discard(e) PROVE UNCHANGED agentVars
  BY <1>6 DEF Discard
<1>7. ASSUME NEW id \in Ids, NEW dst \in Pids, NEW priority \in 0 .. PrioLevels,
             Send(id, dst, priority)
      PROVE  UNCHANGED agentVars
  BY <1>7 DEF Send
<1>8. CASE Save \/ Restore \/ Block
  BY <1>8 DEF Save, Restore, Block
<1>9. CASE UNCHANGED engineVars
  BY <1>9 DEF engineVars
<1> QED
  BY <1>1, <1>2, <1>3, <1>4, <1>5, <1>6, <1>7, <1>8, <1>9 DEF EngineNext

(* All that is proved of Agents holds while signals are sent, saved, restored *)
(* and dispatched.                                                          *)
THEOREM EngineImplementsAgents == EngineSpec => AgentsSpec
<1>1. EngineInit => AgentsInit
  BY DEF EngineInit
<1> QED
  BY <1>1, EngineStepIsAgentsStep, PTL DEF EngineSpec, AgentsSpec

-----------------------------------------------------------------------------
(* Saved signals.                                                           *)

SavedInv ==
  /\ saved \in [Pids -> Seq(Entries)]
  /\ signal_ \in Entries \cup {NoSignal}
  /\ \A p \in Pids : \A i \in DOMAIN saved[p] : p \in moonagents_ /\ saved[p][i].dst = p

(* What an agent saves is addressed to it.                                  *)
LEMMA SaveInv == ASSUME AgentsInv, SavedInv, Save PROVE SavedInv'
<1> DEFINE e == [signal_ EXCEPT !.dst = self_]
           q == saved[self_]
<1>1. self_ \in Pids /\ self_ \in moonagents_
  BY RunningFrames DEF Save, Running
<1>2. saved' = [saved EXCEPT ![self_] = Append(q, e)] /\ moonagents_' = moonagents_ /\ signal_' = signal_
  BY DEF Save, agentVars, tree
<1>3. e \in Entries /\ e.dst = self_
  BY <1>1 DEF Save, SavedInv, Entries
<1>4. q \in Seq(Entries)
  BY <1>1 DEF SavedInv
<1> HIDE DEF e
<1>5. /\ Append(q, e) \in Seq(Entries)
      /\ DOMAIN Append(q, e) = 1 .. Len(q) + 1 /\ DOMAIN q = 1 .. Len(q) /\ Len(q) \in Nat
      /\ \A i \in 1 .. Len(q) : Append(q, e)[i] = q[i]
      /\ Append(q, e)[Len(q) + 1] = e
  BY <1>3, <1>4, AppendProperties, LenProperties
<1>6. \A i \in DOMAIN Append(q, e) : Append(q, e)[i].dst = self_
  BY <1>1, <1>3, <1>5 DEF SavedInv
<1>7. \A p \in Pids : saved'[p] = IF p = self_ THEN Append(q, e) ELSE saved[p]
  BY <1>2 DEF SavedInv
<1>8. saved' \in [Pids -> Seq(Entries)]
  BY <1>2, <1>5 DEF SavedInv
<1> HIDE DEF q
<1> QED
  BY <1>1, <1>2, <1>6, <1>7, <1>8 DEF SavedInv

(* What is taken out is no agent's any more.                                *)
LEMMA RescheduleSaved ==
  ASSUME SavedInv, NEW p \in Pids, Reschedule(p), moonagents_' = moonagents_
  PROVE  SavedInv'
<1>1. <<>> \in Seq(Entries) /\ DOMAIN <<>> = {}
  BY EmptySeq, LenProperties
<1> QED
  BY <1>1 DEF Reschedule, SavedInv

LEMMA DropSavedInv ==
  ASSUME SavedInv, DropSaved
  PROVE  SavedInv'
<1>1. <<>> \in Seq(Entries) /\ DOMAIN <<>> = {}
  BY EmptySeq, LenProperties
<1> QED
  BY <1>1 DEF DropSaved, SavedInv

LEMMA DropSignalsInv == ASSUME DropSignals PROVE SavedInv'
<1>1. <<>> \in Seq(Entries) /\ DOMAIN <<>> = {}
  BY EmptySeq, LenProperties
<1> QED
  BY <1>1 DEF DropSignals, SavedInv

(* The caller that gets them is alive, and they are re-addressed to it.      *)
LEMMA ReturnSaved == ASSUME AgentsInv, SavedInv, Return PROVE SavedInv'
<1> DEFINE caller == parent_[self_]
           q == saved[self_]
           moved == [i \in DOMAIN q |-> [q[i] EXCEPT !.dst = caller]]
           r == saved[caller]
<1>1. /\ self_ \in Pids /\ caller \in Pids /\ caller \in moonagents_
      /\ moonagents_' = moonagents_ /\ signal_' = signal_
  <2>1. self_ \in Pids
    BY RunningFrames DEF Return, ProcedureReturn
  <2>2. caller \in Pids
    BY <2>1 DEF Return, ProcedureReturn, AgentsInv, FieldsInv
  <2>3. procedure[caller] # None
    BY <2>1 DEF Return, ProcedureReturn, None, Pids
  <2> QED
    BY <2>1, <2>2, <2>3 DEF AgentsInv, FieldsInv, Return, ProcedureReturn
<1>2. saved' = [saved EXCEPT ![caller] = @ \o moved, ![self_] = <<>>]
  BY DEF Return
<1>3. q \in Seq(Entries) /\ r \in Seq(Entries)
  BY <1>1 DEF SavedInv
<1>4. /\ DOMAIN q = 1 .. Len(q) /\ Len(q) \in Nat
      /\ DOMAIN r = 1 .. Len(r) /\ Len(r) \in Nat
      /\ \A i \in 1 .. Len(q) : q[i] \in Entries
  BY <1>3, LenProperties, ElementOfSeq
<1> HIDE DEF q, r, caller
<1>5. \A i \in 1 .. Len(q) : [q[i] EXCEPT !.dst = caller] \in Entries
  BY <1>1, <1>4 DEF Entries
<1>6. /\ moved \in Seq(Entries) /\ Len(moved) = Len(q)
      /\ \A i \in 1 .. Len(q) : moved[i].dst = caller
  <2>1. moved = [i \in 1 .. Len(q) |-> [q[i] EXCEPT !.dst = caller]]
    BY <1>4
  <2>2. moved \in [1 .. Len(q) -> Entries]
    BY <1>5, <2>1
  <2>3. moved \in Seq(Entries) /\ Len(moved) = Len(q)
    BY <1>4, <2>2
  <2>4. \A i \in 1 .. Len(q) : moved[i].dst = caller
    BY <1>4, <2>1 DEF Entries
  <2> QED
    BY <2>3, <2>4
<1> HIDE DEF moved
<1>7. /\ r \o moved \in Seq(Entries) /\ DOMAIN (r \o moved) = 1 .. Len(r) + Len(q)
      /\ \A i \in 1 .. Len(r) + Len(q) :
           (r \o moved)[i] = IF i <= Len(r) THEN r[i] ELSE moved[i - Len(r)]
  <2> DEFINE both == r \o moved
  <2>1. /\ both \in Seq(Entries) /\ Len(both) = Len(r) + Len(moved)
        /\ \A i \in 1 .. Len(r) + Len(moved) :
             both[i] = IF i <= Len(r) THEN r[i] ELSE moved[i - Len(r)]
    <3>1. r \in Seq(Entries) /\ moved \in Seq(Entries)
      BY <1>3, <1>6
    <3> QED
      BY <3>1, ConcatProperties, Zenon
  <2> HIDE DEF both
  <2>2. DOMAIN both = 1 .. Len(r) + Len(q)
    BY <1>6, <2>1, LenProperties
  <2> QED
    BY <1>6, <2>1, <2>2 DEF both
<1>8. \A i \in 1 .. Len(r) : r[i].dst = caller
  BY <1>1, <1>4 DEF SavedInv, r
<1>9. \A i \in DOMAIN (r \o moved) : (r \o moved)[i].dst = caller
  <2> TAKE i \in DOMAIN (r \o moved)
  <2>1. i \in 1 .. Len(r) \/ i - Len(r) \in 1 .. Len(q)
    BY <1>4, <1>7
  <2>2. i <= Len(r) <=> i \in 1 .. Len(r)
    BY <1>4, <1>7
  <2> QED
    BY <1>6, <1>7, <1>8, <2>1, <2>2
<1>10. <<>> \in Seq(Entries) /\ DOMAIN <<>> = {}
  BY EmptySeq, LenProperties
<1>11. \A p \in Pids : saved'[p] = IF p = self_ THEN <<>> ELSE IF p = caller THEN r \o moved ELSE saved[p]
  BY <1>1, <1>2 DEF SavedInv, r
<1>12. saved' \in [Pids -> Seq(Entries)]
  BY <1>2, <1>7, <1>10, <1>11 DEF SavedInv
<1> QED
  BY <1>1, <1>9, <1>10, <1>11, <1>12 DEF SavedInv

(* A step that does not touch signals, and lets no agent terminate.          *)
LEMMA SameSaved ==
  ASSUME SavedInv, UNCHANGED <<saved, signal_>>, moonagents_ \subseteq moonagents_'
  PROVE  SavedInv'
  BY DEF SavedInv

LEMMA SavedNextInv == AgentsInv /\ SavedInv /\ [EngineNext]_engineVars => SavedInv'
<1> SUFFICES ASSUME AgentsInv, SavedInv, [EngineNext]_engineVars PROVE SavedInv'
  OBVIOUS
<1>1. CASE WithoutSignals /\ UNCHANGED signals
  <2>1. moonagents_ \subseteq moonagents_'
    BY <1>1 DEF WithoutSignals, CreateSystem, Create, CreateUncompiled, CreateDuplicate, Procedure, Born,
                StartReturn, SystemStartFails, RemoteCall, RemoteReturn, tree
  <2> QED
    BY <1>1, <2>1, SameSaved DEF signals
<1>2. CASE (Stop \/ AtReturnDone \/ StartFails) /\ DropSaved
  BY <1>2, DropSavedInv
<1>3. ASSUME NEW s \in States, ChangeState(s) PROVE SavedInv'
  <2>1. self_ \in Pids /\ moonagents_' = moonagents_
    BY <1>3, RunningFrames DEF ChangeState, NextState, tree
  <2> QED
    BY <1>3, <2>1, RescheduleSaved, SameSaved DEF ChangeState, signals
<1>4. CASE Return
  BY <1>4, ReturnSaved
<1>5. ASSUME NEW id \in Ids, NEW dst \in Pids, NEW priority \in 0 .. PrioLevels,
             Send(id, dst, priority)
      PROVE  SavedInv'
  BY <1>5, SameSaved DEF Send, agentVars, tree
<1>6. CASE Save
  BY <1>6, SaveInv
<1>7. CASE Restore
  <2>1. self_ \in Pids /\ moonagents_' = moonagents_
    BY <1>7, RunningFrames DEF Restore, agentVars, tree
  <2> QED
    BY <1>7, <2>1, RescheduleSaved DEF Restore
<1>8. CASE StartTrigger
  BY <1>8, SameSaved DEF StartTrigger, BeginTrigger, tree
<1>9. CASE FinishTrigger
  <2>1. CASE SystemPid \in ReleaseQueue
    BY <1>9, <2>1, DropSignalsInv DEF FinishTrigger
  <2>2. CASE SystemPid \notin ReleaseQueue
    BY <1>9, <2>2, SameSaved DEF FinishTrigger, EndTrigger, Release, ReleaseEntries
  <2> QED
    BY <2>1, <2>2
<1>10. ASSUME NEW e \in Entries, Deliver(e) PROVE SavedInv'
  BY <1>10 DEF Deliver, Dispatch, tree, SavedInv
<1>11. ASSUME NEW e \in Entries, Discard(e) PROVE SavedInv'
  BY <1>11, SameSaved DEF Discard, agentVars, tree
<1>12. CASE FinishTransition \/ ScriptRaises
  BY <1>12 DEF FinishTransition, TransitionReturn, ScriptRaises, Raise, tree, SavedInv
<1>13. CASE ResetSystem
  BY <1>13, DropSignalsInv DEF ResetSystem
<1>14. CASE Block \/ UNCHANGED engineVars
  BY <1>14, SameSaved DEF Block, engineVars, signals, agentVars, tree
<1> QED
  BY <1>1, <1>2, <1>3, <1>4, <1>5, <1>6, <1>7, <1>8, <1>9, <1>10, <1>11, <1>12, <1>13, <1>14
  DEF EngineNext

LEMMA SavedInitInv == EngineInit => SavedInv
<1>1. <<>> \in Seq(Entries) /\ DOMAIN <<>> = {}
  BY EmptySeq, LenProperties
<1> QED
  BY <1>1 DEF EngineInit, SavedInv

(* Saved signals are held by agents that are alive, and addressed to them:    *)
(* neither a hand-over (842) nor the end of a procedure leaves one behind     *)
(* with the address of an agent that is gone.                               *)
THEOREM SavedBelongsToItsHolder == EngineSpec => []SavedForItsHolder
<1>1. SavedInv => SavedForItsHolder
  BY DEF SavedInv, SavedForItsHolder
<1>2. EngineSpec => []AgentsInv
  BY EngineImplementsAgents, AgentsInvariant, PTL
<1> QED
  BY <1>1, <1>2, SavedInitInv, SavedNextInv, PTL DEF EngineSpec

-----------------------------------------------------------------------------
(* The queues.  They are those of SchedulersProofs, with three things that    *)
(* only the engine does to them: it restores saved signals, drops everything, *)
(* and leaves a flush because of an error.                                  *)

FlushedEmpty == Scheduler1 = <<>> /\ \A l \in S!Levels : PrioSchedulers1[l] = <<>>
PrioEmpty == \A l \in S!Levels : PrioSchedulers[l] = <<>>

QueueTypes ==
  /\ Scheduler \in Seq(Entries) /\ Scheduler1 \in Seq(Entries)
  /\ PrioSchedulers \in [S!Levels -> Seq(Entries)]
  /\ PrioSchedulers1 \in [S!Levels -> Seq(Entries)]
  /\ NormSignals \in Nat /\ PrioSignals \in Nat
  /\ norm \in BOOLEAN /\ prio \in BOOLEAN

Counted ==
  /\ NormSignals = Len(Scheduler)
  /\ PrioSignals = 0 <=> PrioEmpty

Drained ==
  /\ phase = "idle" => FlushedEmpty
  /\ phase = "flush" => /\ ~norm => Scheduler1 = <<>>
                        /\ ~prio => \A l \in S!Levels : PrioSchedulers1[l] = <<>>

QueueInv == QueueTypes /\ Counted /\ Drained

(* What is pushed, or restored, goes to a queue that is counted.             *)
LEMMA PushQueues ==
  ASSUME QueueInv, NEW e \in Entries, NEW priority, S!Push(e, priority)
  PROVE  QueueInv'
<1>1. CASE S!PushNormal(e)
  <2>1. Scheduler' \in Seq(Entries) /\ Len(Scheduler') = Len(Scheduler) + 1
    BY <1>1, AppendProperties DEF S!PushNormal, QueueInv, QueueTypes
  <2> QED
    BY <1>1, <2>1
    DEF S!PushNormal, S!flushing, QueueInv, QueueTypes, Counted, Drained, FlushedEmpty, PrioEmpty
<1>2. CASE priority \in S!Levels /\ S!PushPrio(e, priority)
  <2> DEFINE q == Append(PrioSchedulers[priority], e)
  <2>1. q \in Seq(Entries) /\ q # <<>>
    BY <1>2, AppendProperties DEF QueueInv, QueueTypes
  <2>2. PrioSchedulers' = [PrioSchedulers EXCEPT ![priority] = q]
    BY <1>2 DEF S!PushPrio
  <2> HIDE DEF q
  <2>3. PrioSchedulers' \in [S!Levels -> Seq(Entries)] /\ ~PrioEmpty'
    BY <1>2, <2>1, <2>2 DEF QueueInv, QueueTypes, PrioEmpty
  <2>4. PrioSignals' \in Nat /\ PrioSignals' # 0
    BY <1>2 DEF S!PushPrio, QueueInv, QueueTypes
  <2> QED
    BY <1>2, <2>3, <2>4
    DEF S!PushPrio, S!flushing, QueueInv, QueueTypes, Counted, Drained, FlushedEmpty
<1> QED
  BY <1>1, <1>2 DEF S!Push

LEMMA RescheduleQueues ==
  ASSUME QueueInv, SavedInv, NEW p \in Pids, Reschedule(p), phase' = phase
  PROVE  QueueInv'
<1> DEFINE q == PrioSchedulers[1]
           r == saved[p]
<1>1. 1 \in S!Levels
  BY LevelsAssumption DEF S!Levels
<1>2. q \in Seq(Entries) /\ r \in Seq(Entries)
  BY <1>1 DEF QueueInv, QueueTypes, SavedInv
<1>3. /\ PrioSchedulers' = [PrioSchedulers EXCEPT ![1] = q \o r]
      /\ PrioSignals' = PrioSignals + Len(r)
      /\ UNCHANGED <<Scheduler, NormSignals, Scheduler1, PrioSchedulers1, norm, prio>>
  BY DEF Reschedule
<1> HIDE DEF r
<1>4. q \o r \in Seq(Entries) /\ (q \o r = <<>> <=> q = <<>> /\ r = <<>>)
  BY <1>2, ConcatProperties, ConcatEqualIffEmpty
<1>5. Len(r) \in Nat /\ (Len(r) = 0 <=> r = <<>>)
  BY <1>2, EmptySeq
<1>6. PrioSchedulers' \in [S!Levels -> Seq(Entries)]
  BY <1>1, <1>3, <1>4 DEF QueueInv, QueueTypes
<1>7. PrioEmpty' <=> PrioEmpty /\ r = <<>>
  BY <1>1, <1>3, <1>4 DEF QueueInv, QueueTypes, PrioEmpty
<1>8. PrioSignals' \in Nat /\ (PrioSignals' = 0 <=> PrioSignals = 0 /\ Len(r) = 0)
  BY <1>3, <1>5 DEF QueueInv, QueueTypes
<1>9. QueueTypes' /\ Counted'
  BY <1>3, <1>5, <1>6, <1>7, <1>8 DEF QueueInv, QueueTypes, Counted
<1>10. Drained'
  BY <1>3 DEF QueueInv, Drained, FlushedEmpty
<1> QED
  BY <1>9, <1>10 DEF QueueInv

LEMMA SwapQueues == ASSUME QueueInv, S!BeginTrigger PROVE QueueInv'
<1>1. norm' = (NormSignals > 0) /\ prio' = (PrioSignals > 0) /\ phase' = "flush" /\ FlushedEmpty
  BY DEF S!BeginTrigger, QueueInv, Drained
<1>2. /\ ~(NormSignals > 0) => NormSignals = 0
      /\ ~(PrioSignals > 0) => PrioSignals = 0
  BY DEF QueueInv, QueueTypes
<1>3. CASE norm' \/ prio'
  <2>1. /\ Scheduler' = Scheduler1 /\ Scheduler1' = Scheduler
        /\ PrioSchedulers' = PrioSchedulers1 /\ PrioSchedulers1' = PrioSchedulers
        /\ NormSignals' = 0 /\ PrioSignals' = 0
    BY <1>3 DEF S!BeginTrigger
  <2>2. QueueTypes'
    BY <1>1, <2>1 DEF QueueInv, QueueTypes
  <2>3. Counted'
    BY <1>1, <2>1, EmptySeq DEF FlushedEmpty, PrioEmpty, Counted
  <2>4. ~norm' => Scheduler1' = <<>>
    <3>1. ~norm' => NormSignals = 0
      BY <1>1, <1>2, Zenon
    <3>2. Scheduler \in Seq(Entries) /\ NormSignals = Len(Scheduler)
      BY DEF QueueInv, QueueTypes, Counted
    <3> QED
      BY <3>1, <3>2, <2>1, EmptySeq
  <2>5. ~prio' => \A l \in S!Levels : PrioSchedulers1'[l] = <<>>
    <3>1. ~prio' => PrioSignals = 0
      BY <1>1, <1>2, Zenon
    <3> QED
      BY <3>1, <2>1 DEF QueueInv, Counted, PrioEmpty
  <2> QED
    BY <1>1, <2>2, <2>3, <2>4, <2>5 DEF QueueInv, Drained
<1>4. CASE ~(norm' \/ prio')
  <2>1. UNCHANGED <<S!filling, Scheduler1, PrioSchedulers1>>
    BY <1>4 DEF S!BeginTrigger
  <2> QED
    BY <1>1, <1>4, <2>1
    DEF QueueInv, QueueTypes, Counted, Drained, S!filling, FlushedEmpty, PrioEmpty
<1> QED
  BY <1>3, <1>4

LEMMA PopQueues == ASSUME QueueInv, NEW e, S!Pop(e) PROVE QueueInv'
<1>1. CASE S!PopPrio(e)
  <2>1. PICK l \in S!Levels :
          /\ PrioSchedulers1[l] # <<>>
          /\ PrioSchedulers1' = [PrioSchedulers1 EXCEPT ![l] = Tail(@)]
    BY <1>1 DEF S!PopPrio
  <2>2. Tail(PrioSchedulers1[l]) \in Seq(Entries)
    BY <2>1, HeadTailProperties DEF QueueInv, QueueTypes
  <2>3. PrioSchedulers1' \in [S!Levels -> Seq(Entries)]
    BY <2>1, <2>2 DEF QueueInv, QueueTypes
  <2> QED
    BY <1>1, <2>3
    DEF S!PopPrio, S!filling, QueueInv, QueueTypes, Counted, Drained, FlushedEmpty, PrioEmpty
<1>2. CASE S!PopNormal(e)
  <2>1. Scheduler1' \in Seq(Entries)
    BY <1>2, HeadTailProperties DEF S!PopNormal, QueueInv, QueueTypes
  <2> QED
    BY <1>2, <2>1
    DEF S!PopNormal, S!filling, QueueInv, QueueTypes, Counted, Drained, FlushedEmpty, PrioEmpty
<1> QED
  BY <1>1, <1>2 DEF S!Pop

LEMMA EndQueues == ASSUME QueueInv, S!EndTrigger PROVE QueueInv'
  BY DEF S!EndTrigger, S!FlushDone, S!PrioPending, S!filling, QueueInv, QueueTypes, Counted,
         Drained, FlushedEmpty, PrioEmpty

LEMMA DropQueues == ASSUME S!DropQueues PROVE QueueInv'
<1>1. <<>> \in Seq(Entries) /\ Len(<<>>) = 0
  BY EmptySeq
<1> QED
  BY <1>1
  DEF S!DropQueues, QueueInv, QueueTypes, Counted, Drained, FlushedEmpty, PrioEmpty

(* Nothing happens to the queues; an error may leave a flush.                *)
LEMMA SameQueues ==
  ASSUME QueueInv, UNCHANGED queues, phase' \in {phase, "error"}
  PROVE  QueueInv'
  BY DEF queues, QueueInv, QueueTypes, Counted, Drained, FlushedEmpty, PrioEmpty

LEMMA QueueInitInv == EngineInit => QueueInv
<1> SUFFICES ASSUME S!SchedInit PROVE QueueInv
  BY DEF EngineInit
<1>1. <<>> \in Seq(Entries) /\ Len(<<>>) = 0
  BY EmptySeq
<1>2. QueueTypes
  BY <1>1 DEF S!SchedInit, QueueTypes
<1>3. Counted
  BY <1>1 DEF S!SchedInit, Counted, PrioEmpty
<1>4. Drained
  BY DEF S!SchedInit, Drained, FlushedEmpty
<1> QED
  BY <1>2, <1>3, <1>4 DEF QueueInv

LEMMA QueueNextInv == AgentsInv /\ SavedInv /\ QueueInv /\ [EngineNext]_engineVars => QueueInv'
<1> SUFFICES ASSUME AgentsInv, SavedInv, QueueInv, [EngineNext]_engineVars PROVE QueueInv'
  OBVIOUS
<1>1. CASE WithoutSignals /\ UNCHANGED signals
  <2>1. phase' \in {phase, "error"}
    BY <1>1 DEF WithoutSignals, CreateSystem, Create, CreateUncompiled, CreateDuplicate, Procedure, Born,
                StartReturn, SystemStartFails, RemoteCall, RemoteReturn
  <2> QED
    BY <1>1, <2>1, SameQueues DEF signals
<1>2. CASE (Stop \/ AtReturnDone \/ StartFails) /\ DropSaved
  <2>1. phase' = phase
    BY <1>2 DEF Stop, AtReturnDone, StartFails
  <2> QED
    BY <1>2, <2>1, SameQueues DEF DropSaved
<1>3. ASSUME NEW s \in States, ChangeState(s) PROVE QueueInv'
  <2>1. self_ \in Pids /\ phase' = phase
    BY <1>3, RunningFrames DEF ChangeState, NextState
  <2> QED
    BY <1>3, <2>1, RescheduleQueues, SameQueues DEF ChangeState, signals
<1>4. CASE Return
  BY <1>4, SameQueues DEF Return, ProcedureReturn
<1>5. ASSUME NEW id \in Ids, NEW dst \in Pids, NEW priority \in 0 .. PrioLevels,
             Send(id, dst, priority)
      PROVE  QueueInv'
  <2> DEFINE e == [id |-> id, dst |-> dst, to |-> dst]
  <2>1. e \in Entries
    BY DEF Entries
  <2>2. S!Push(e, priority)
    BY <1>5 DEF Send
  <2> HIDE DEF e
  <2> QED
    BY <2>1, <2>2, PushQueues
<1>6. CASE Save
  BY <1>6, SameQueues DEF Save, agentVars
<1>7. CASE Restore
  <2>1. self_ \in Pids /\ phase' = phase
    BY <1>7, RunningFrames DEF Restore, agentVars
  <2> QED
    BY <1>7, <2>1, RescheduleQueues DEF Restore
<1>8. CASE StartTrigger
  BY <1>8, SwapQueues DEF StartTrigger
<1>9. CASE FinishTrigger
  <2>1. CASE SystemPid \in ReleaseQueue
    BY <1>9, <2>1, DropQueues DEF FinishTrigger, DropSignals
  <2>2. CASE SystemPid \notin ReleaseQueue
    BY <1>9, <2>2, EndQueues DEF FinishTrigger
  <2> QED
    BY <2>1, <2>2
<1>10. ASSUME NEW e \in Entries, Deliver(e) PROVE QueueInv'
  BY <1>10, PopQueues DEF Deliver
<1>11. ASSUME NEW e \in Entries, Discard(e) PROVE QueueInv'
  BY <1>11, PopQueues DEF Discard
<1>12. CASE FinishTransition \/ ScriptRaises
  BY <1>12, SameQueues DEF FinishTransition, TransitionReturn, ScriptRaises, Raise
<1>13. CASE ResetSystem
  BY <1>13, DropQueues DEF ResetSystem, DropSignals
<1>14. CASE Block \/ UNCHANGED engineVars
  BY <1>14, SameQueues DEF Block, engineVars, signals, agentVars
<1> QED
  BY <1>1, <1>2, <1>3, <1>4, <1>5, <1>6, <1>7, <1>8, <1>9, <1>10, <1>11, <1>12, <1>13, <1>14
  DEF EngineNext

LEMMA QueueInvSuffices == QueueInv => NothingStranded
<1> SUFFICES ASSUME QueueInv PROVE S!DrainedBetweenTriggers /\ S!CountersSeeEveryQueue
  BY DEF NothingStranded
<1>1. S!Elements(<<>>) = {}
  <2>1. DOMAIN <<>> = {}
    BY EmptySeq, LenProperties
  <2> QED
    BY <2>1 DEF S!Elements
<1>2. FlushedEmpty => S!Flushing = {}
  BY <1>1 DEF FlushedEmpty, S!Flushing
<1>3. S!DrainedBetweenTriggers
  BY <1>2 DEF QueueInv, Drained, S!DrainedBetweenTriggers
<1>4. PrioSignals > 0 <=> PrioSignals # 0
  BY DEF QueueInv, QueueTypes
<1>5. S!CountersSeeEveryQueue
  BY <1>4 DEF QueueInv, Counted, PrioEmpty, S!CountersSeeEveryQueue
<1> QED
  BY <1>3, <1>5

(* Whatever is restored, dropped or left by an error, the next Trigger finds  *)
(* every signal that is scheduled (1033), and no round or system inherits     *)
(* one of the former (101).                                                 *)
THEOREM NothingIsStranded == EngineSpec => []NothingStranded
<1>1. EngineSpec => []AgentsInv
  BY EngineImplementsAgents, AgentsInvariant, PTL
<1>2. EngineSpec => []SavedInv
  BY <1>1, SavedInitInv, SavedNextInv, PTL DEF EngineSpec
<1> QED
  BY <1>1, <1>2, QueueInitInv, QueueNextInv, QueueInvSuffices, PTL DEF EngineSpec

-----------------------------------------------------------------------------
(* Queues by name.  The next lemmas are about any such family F of queues,    *)
(* and what it becomes, G, when something is appended, moved, taken or        *)
(* dropped: which elements G has, and that equal ids stay in one place.       *)

Has(F, x) == \E h \in DOMAIN F : \E i \in DOMAIN F[h] : F[h][i] = x

Distinct(F) ==
  \A g, h \in DOMAIN F : \A i \in DOMAIN F[g], j \in DOMAIN F[h] :
    F[g][i].id = F[h][j].id => g = h /\ i = j

IsAppended(F, G, k, e) ==
  /\ F \in [Holders -> Seq(Entries)] /\ k \in Holders /\ e \in Entries
  /\ G = [F EXCEPT ![k] = Append(F[k], e)]

LEMMA AppendedQueue ==
  ASSUME NEW F, NEW G, NEW k, NEW e, IsAppended(F, G, k, e)
  PROVE  /\ G \in [Holders -> Seq(Entries)]
         /\ \A x : Has(G, x) => Has(F, x) \/ x = e
         /\ \A x : Has(F, x) => Has(G, x)
         /\ Distinct(F) /\ (\A x : Has(F, x) => x.id # e.id) => Distinct(G)
<1> DEFINE q == F[k]
           a == Append(q, e)
<1>0. /\ F \in [Holders -> Seq(Entries)] /\ k \in Holders /\ e \in Entries
      /\ G = [F EXCEPT ![k] = Append(F[k], e)]
  BY DEF IsAppended
<1> USE <1>0
<1>1. q \in Seq(Entries) /\ Len(q) \in Nat /\ DOMAIN q = 1 .. Len(q)
  BY LenProperties
<1>2. /\ a \in Seq(Entries) /\ DOMAIN a = 1 .. Len(q) + 1
      /\ \A i \in 1 .. Len(q) : a[i] = q[i]
      /\ a[Len(q) + 1] = e
  BY <1>1, AppendProperties, LenProperties
<1>3. G \in [Holders -> Seq(Entries)] /\ \A h \in Holders : G[h] = IF h = k THEN a ELSE F[h]
  BY <1>2
<1> HIDE DEF a
<1>4. \A h \in Holders : \A i \in DOMAIN G[h] :
        \/ i \in DOMAIN F[h] /\ G[h][i] = F[h][i]
        \/ h = k /\ i = Len(q) + 1 /\ G[h][i] = e
  BY <1>1, <1>2, <1>3
<1>5. \A h \in Holders : \A i \in DOMAIN F[h] : i \in DOMAIN G[h] /\ G[h][i] = F[h][i]
  BY <1>1, <1>2, <1>3
<1>6. \A x : Has(G, x) => Has(F, x) \/ x = e
  BY <1>3, <1>4 DEF Has
<1>7. \A x : Has(F, x) => Has(G, x)
  BY <1>3, <1>5 DEF Has
<1>8. ASSUME Distinct(F), \A x : Has(F, x) => x.id # e.id PROVE Distinct(G)
  <2>1. \A h \in Holders : \A i \in DOMAIN F[h] : F[h][i].id # e.id
    BY <1>8 DEF Has
  <2> HIDE DEF q
  <2> QED
    BY <1>3, <1>4, <1>8, <2>1 DEF Distinct
<1> QED
  BY <1>3, <1>6, <1>7, <1>8

(* Each place of G is the place of F of the same element, or one of what was  *)
(* moved, which has the id of its own place in F[m].                         *)
IsMove(F, G, k, m, n, q, l) ==
  /\ DOMAIN G = DOMAIN F /\ k \in DOMAIN F /\ m \in DOMAIN F
  /\ n \in Nat /\ l \in Nat
  /\ DOMAIN F[m] = 1 .. l /\ DOMAIN G[m] = {}
  /\ \A i \in 1 .. l : q[i].id = F[m][i].id
  /\ \A h \in DOMAIN F : \A i \in DOMAIN G[h] :
        \/ h # m /\ i \in DOMAIN F[h] /\ G[h][i] = F[h][i]
        \/ h = k /\ i - n \in 1 .. l /\ i \in Nat /\ G[h][i] = q[i - n]
           /\ ~ (i \in DOMAIN F[k])

LEMMA MovedPlaces ==
  ASSUME NEW F, NEW G, NEW k, NEW m, NEW n, NEW q, NEW l, IsMove(F, G, k, m, n, q, l)
  PROVE  /\ \A x : Has(G, x) => Has(F, x) \/ \E i \in 1 .. l : x = q[i]
         /\ Distinct(F) => Distinct(G)
<1> DEFINE K == DOMAIN F
<1> USE DEF IsMove
<1>1. \A x : Has(G, x) => Has(F, x) \/ \E i \in 1 .. l : x = q[i]
  <2> SUFFICES ASSUME NEW h \in K, NEW i \in DOMAIN G[h]
               PROVE  Has(F, G[h][i]) \/ \E j \in 1 .. l : G[h][i] = q[j]
    BY DEF Has
  <2>1. CASE h # m /\ i \in DOMAIN F[h] /\ G[h][i] = F[h][i]
    BY <2>1 DEF Has
  <2>2. CASE i - n \in 1 .. l /\ G[h][i] = q[i - n]
    BY <2>2
  <2> QED
    BY <2>1, <2>2
<1>2. ASSUME Distinct(F) PROVE Distinct(G)
  <2> DEFINE New(h, i) == h = k /\ ~ (i \in DOMAIN F[k])
             queue(h, i) == IF New(h, i) THEN m ELSE h
             index(h, i) == IF New(h, i) THEN i - n ELSE i
  <2>1. \A h \in K : \A i \in DOMAIN G[h] :
          /\ queue(h, i) \in K /\ index(h, i) \in DOMAIN F[queue(h, i)]
          /\ G[h][i].id = F[queue(h, i)][index(h, i)].id
    <3> TAKE h \in K
    <3> TAKE i \in DOMAIN G[h]
    <3>1. CASE New(h, i)
      <4>1. i - n \in 1 .. l /\ G[h][i] = q[i - n]
        BY <3>1
      <4> QED
        BY <3>1, <4>1
    <3>2. CASE ~ New(h, i)
      BY <3>2
    <3> QED
      BY <3>1, <3>2
  <2>2. \A g, h \in K : \A i \in DOMAIN G[g], j \in DOMAIN G[h] :
          queue(g, i) = queue(h, j) /\ index(g, i) = index(h, j) => g = h /\ i = j
    <3> SUFFICES ASSUME NEW g \in K, NEW h \in K, NEW i \in DOMAIN G[g], NEW j \in DOMAIN G[h],
                        queue(g, i) = queue(h, j), index(g, i) = index(h, j)
                 PROVE  g = h /\ i = j
      OBVIOUS
    <3>1. g # m /\ h # m
      OBVIOUS
    <3>2. CASE New(g, i) /\ New(h, j)
      <4>1. i - n = j - n /\ i \in Nat /\ j \in Nat
        BY <3>2
      <4> QED
        BY <3>2, <4>1
    <3>3. CASE ~ (New(g, i) /\ New(h, j))
      BY <3>1, <3>3
    <3> QED
      BY <3>2, <3>3
  <2> HIDE DEF queue, index
  <2> SUFFICES ASSUME NEW g \in K, NEW h \in K, NEW i \in DOMAIN G[g], NEW j \in DOMAIN G[h],
                      G[g][i].id = G[h][j].id
               PROVE  g = h /\ i = j
    BY DEF Distinct
  <2>3. queue(g, i) = queue(h, j) /\ index(g, i) = index(h, j)
    BY <1>2, <2>1 DEF Distinct
  <2> QED
    BY <2>2, <2>3
<1> QED
  BY <1>1, <1>2

IsMoved(F, G, k, m, q) ==
  /\ F \in [Holders -> Seq(Entries)] /\ k \in Holders /\ m \in Holders /\ k # m
  /\ q \in Seq(Entries) /\ Len(q) = Len(F[m]) /\ \A i \in 1 .. Len(q) : q[i].id = F[m][i].id
  /\ G = [F EXCEPT ![k] = F[k] \o q, ![m] = <<>>]

LEMMA MovedQueue ==
  ASSUME NEW F, NEW G, NEW k, NEW m, NEW q, IsMoved(F, G, k, m, q)
  PROVE  /\ G \in [Holders -> Seq(Entries)]
         /\ \A x : Has(G, x) => Has(F, x) \/ \E i \in 1 .. Len(q) : x = q[i]
         /\ \A h \in Holders : h # m => \A i \in DOMAIN F[h] : i \in DOMAIN G[h] /\ G[h][i] = F[h][i]
         /\ \A i \in 1 .. Len(q) : \E j \in DOMAIN G[k] : G[k][j] = q[i]
         /\ Distinct(F) => Distinct(G)
<1> DEFINE r == F[k]
           a == r \o q
           n == Len(r)
<1>0. /\ F \in [Holders -> Seq(Entries)] /\ k \in Holders /\ m \in Holders /\ k # m
      /\ q \in Seq(Entries) /\ Len(q) = Len(F[m]) /\ \A i \in 1 .. Len(q) : q[i].id = F[m][i].id
      /\ G = [F EXCEPT ![k] = F[k] \o q, ![m] = <<>>]
  BY DEF IsMoved
<1> USE <1>0
<1>1. /\ n \in Nat /\ DOMAIN r = 1 .. n /\ Len(q) \in Nat /\ DOMAIN q = 1 .. Len(q)
      /\ F[m] \in Seq(Entries) /\ DOMAIN F[m] = 1 .. Len(q)
  BY LenProperties
<1>2. r \in Seq(Entries)
  OBVIOUS
<1> HIDE DEF r
<1>3. /\ a \in Seq(Entries) /\ Len(a) = n + Len(q)
      /\ \A i \in 1 .. n + Len(q) : a[i] = IF i <= n THEN r[i] ELSE q[i - n]
  BY <1>2, ConcatProperties, Zenon
<1>4. DOMAIN a = 1 .. n + Len(q)
  BY <1>3, LenProperties
<1>5. <<>> \in Seq(Entries) /\ DOMAIN <<>> = {}
  BY EmptySeq, LenProperties
<1>6. /\ G \in [Holders -> Seq(Entries)]
      /\ \A h \in Holders : G[h] = IF h = m THEN <<>> ELSE IF h = k THEN a ELSE F[h]
  BY <1>3, <1>5 DEF r
<1> HIDE DEF a, n
<1>7. \A h \in Holders : \A i \in DOMAIN G[h] :
        \/ h # m /\ i \in DOMAIN F[h] /\ G[h][i] = F[h][i]
        \/ h = k /\ i - n \in 1 .. Len(q) /\ i \in Nat /\ G[h][i] = q[i - n] /\ ~(i \in DOMAIN F[k])
  <2> SUFFICES ASSUME NEW h \in Holders, NEW i \in DOMAIN G[h]
               PROVE  \/ h # m /\ i \in DOMAIN F[h] /\ G[h][i] = F[h][i]
                      \/ h = k /\ i - n \in 1 .. Len(q) /\ i \in Nat /\ G[h][i] = q[i - n]
                         /\ ~(i \in DOMAIN F[k])
    OBVIOUS
  <2>1. h # m
    BY <1>5, <1>6
  <2>2. CASE h # k
    BY <1>6, <2>1, <2>2
  <2>3. CASE h = k
    <3>1. i \in 1 .. n + Len(q) /\ G[h][i] = IF i <= n THEN r[i] ELSE q[i - n]
      BY <1>3, <1>4, <1>6, <2>1, <2>3
    <3>2. CASE i <= n
      BY <1>1, <2>1, <2>3, <3>1, <3>2 DEF r
    <3>3. CASE ~(i <= n)
      <4>1. i - n \in 1 .. Len(q) /\ i \in Nat /\ i \notin 1 .. n
        BY <1>1, <3>1, <3>3
      <4> QED
        BY <1>1, <2>3, <3>1, <3>3, <4>1 DEF r
    <3> QED
      BY <3>2, <3>3
  <2> QED
    BY <2>2, <2>3
<1>8. \A h \in Holders : h # m => \A i \in DOMAIN F[h] : i \in DOMAIN G[h] /\ G[h][i] = F[h][i]
  <2> SUFFICES ASSUME NEW h \in Holders, h # m, NEW i \in DOMAIN F[h]
               PROVE  i \in DOMAIN G[h] /\ G[h][i] = F[h][i]
    OBVIOUS
  <2>1. CASE h # k
    BY <1>6, <2>1
  <2>2. CASE h = k
    <3>1. i \in 1 .. n
      BY <1>1, <2>2 DEF r
    <3>2. i \in 1 .. n + Len(q) /\ i <= n
      BY <1>1, <3>1
    <3> QED
      BY <1>3, <1>4, <1>6, <2>2, <3>2 DEF r
  <2> QED
    BY <2>1, <2>2
<1>9. \A i \in 1 .. Len(q) : \E j \in DOMAIN G[k] : G[k][j] = q[i]
  <2> SUFFICES ASSUME NEW i \in 1 .. Len(q) PROVE \E j \in DOMAIN G[k] : G[k][j] = q[i]
    OBVIOUS
  <2>1. n + i \in 1 .. n + Len(q) /\ ~(n + i <= n) /\ (n + i) - n = i
    BY <1>1
  <2>2. a[n + i] = q[i]
    BY <1>3, <2>1
  <2> QED
    BY <1>4, <1>6, <2>1, <2>2
<1>10. /\ \A x : Has(G, x) => Has(F, x) \/ \E i \in 1 .. Len(q) : x = q[i]
       /\ Distinct(F) => Distinct(G)
  <2>1. DOMAIN G = Holders /\ DOMAIN F = Holders /\ DOMAIN G[m] = {}
    BY <1>5, <1>6
  <2>2. \A i \in 1 .. Len(q) : q[i].id = F[m][i].id
    OBVIOUS
  <2>3. n \in Nat /\ Len(q) \in Nat /\ DOMAIN F[m] = 1 .. Len(q)
    BY <1>1
  <2>4. IsMove(F, G, k, m, n, q, Len(q))
    BY <1>7, <2>1, <2>2, <2>3 DEF IsMove
  <2> QED
    BY <2>4, MovedPlaces
<1> QED
  BY <1>6, <1>8, <1>9, <1>10

LEMMA ShrunkQueues ==
  ASSUME NEW F \in [Holders -> Seq(Entries)], NEW G, DOMAIN G = Holders,
         \A h \in Holders : G[h] \in {F[h], <<>>} \/ (F[h] # <<>> /\ G[h] = Tail(F[h]))
  PROVE  /\ \A x : Has(G, x) => Has(F, x)
         /\ Distinct(F) => Distinct(G)
<1>1. \A h \in Holders : \/ \A i \in DOMAIN G[h] : i \in DOMAIN F[h] /\ G[h][i] = F[h][i]
                   \/ \A i \in DOMAIN G[h] : i \in Nat /\ i + 1 \in DOMAIN F[h] /\ G[h][i] = F[h][i + 1]
  <2> SUFFICES ASSUME NEW h \in Holders
               PROVE  \/ \A i \in DOMAIN G[h] : i \in DOMAIN F[h] /\ G[h][i] = F[h][i]
                      \/ \A i \in DOMAIN G[h] : i \in Nat /\ i + 1 \in DOMAIN F[h] /\ G[h][i] = F[h][i + 1]
    OBVIOUS
  <2>1. DOMAIN <<>> = {}
    BY EmptySeq, LenProperties
  <2>2. CASE G[h] \in {F[h], <<>>}
    BY <2>1, <2>2
  <2>3. CASE F[h] # <<>> /\ G[h] = Tail(F[h])
    <3> DEFINE q == F[h]
    <3>1. q \in Seq(Entries) /\ q # <<>>
      BY <2>3
    <3> HIDE DEF q
    <3>2. /\ Tail(q) \in Seq(Entries) /\ Len(Tail(q)) = Len(q) - 1 /\ Len(q) \in Nat \ {0}
          /\ \A i \in 1 .. Len(Tail(q)) : Tail(q)[i] = q[i + 1]
      BY <3>1, HeadTailProperties, EmptySeq, LenProperties
    <3>3. DOMAIN Tail(q) = 1 .. Len(q) - 1 /\ DOMAIN q = 1 .. Len(q)
      BY <3>1, <3>2, LenProperties
    <3>4. \A i \in DOMAIN Tail(q) : i \in Nat /\ i + 1 \in DOMAIN q /\ Tail(q)[i] = q[i + 1]
      BY <3>2, <3>3
    <3> QED
      BY <2>3, <3>4 DEF q
  <2> QED
    BY <2>2, <2>3
<1>2. \A x : Has(G, x) => Has(F, x)
  BY <1>1 DEF Has
<1>3. ASSUME Distinct(F) PROVE Distinct(G)
  <2> SUFFICES ASSUME NEW g \in Holders, NEW h \in Holders, NEW i \in DOMAIN G[g], NEW j \in DOMAIN G[h],
                      G[g][i].id = G[h][j].id
               PROVE  g = h /\ i = j
    BY DEF Distinct
  <2>1. PICK u \in DOMAIN F[g] : G[g][i] = F[g][u]
    BY <1>1
  <2>2. PICK v \in DOMAIN F[h] : G[h][j] = F[h][v]
    BY <1>1
  <2>3. g = h /\ u = v
    BY <1>3, <2>1, <2>2 DEF Distinct
  <2>4. \A x, y \in DOMAIN F[g] : F[g][x].id = F[g][y].id => x = y
    BY <1>3 DEF Distinct
  <2> QED
    BY <1>1, <2>3, <2>4
<1> QED
  BY <1>2, <1>3

LEMMA RenamedQueues ==
  ASSUME NEW F, NEW G, DOMAIN F = Holders, DOMAIN G = Holders, NEW b \in [Holders -> Holders],
         \A g, h \in Holders : b[g] = b[h] => g = h,
         \A h \in Holders : G[h] = F[b[h]]
  PROVE  /\ \A x : Has(G, x) => Has(F, x)
         /\ Distinct(F) => Distinct(G)
  BY DEF Has, Distinct

-----------------------------------------------------------------------------
(* What the steps of the engine do to the queues.                           *)

Held == [h \in Holders |-> Queue(h)]

Filling(l) == <<"scheduled", l>>
Flushed(l) == <<"flushing", l>>
SavedBy(p) == <<"saved", p>>

LEMMA LevelsAndNormal ==
  /\ \A l : l \in 1 .. S!Normal <=> l \in S!Levels \/ l = S!Normal
  /\ S!Normal \notin S!Levels /\ 1 \in S!Levels
  BY LevelsAssumption DEF S!Normal, S!Levels

LEMMA HolderNames ==
  /\ \A l \in 1 .. S!Normal : Filling(l) \in Holders /\ Flushed(l) \in Holders
  /\ \A p \in Pids : SavedBy(p) \in Holders
  /\ \A h \in Holders : \/ \E l \in 1 .. S!Normal : h \in {Filling(l), Flushed(l)}
                        \/ \E p \in Pids : h = SavedBy(p)
  /\ \A l, p : /\ Filling(l) # Flushed(p) /\ Filling(l) # SavedBy(p) /\ Flushed(l) # SavedBy(p)
               /\ Filling(l) = Filling(p) => l = p
               /\ Flushed(l) = Flushed(p) => l = p
               /\ SavedBy(l) = SavedBy(p) => l = p
  BY DEF Holders, Filling, Flushed, SavedBy

LEMMA QueueOf ==
  /\ \A l : Queue(Filling(l)) = IF l = S!Normal THEN Scheduler ELSE PrioSchedulers[l]
  /\ \A l : Queue(Flushed(l)) = IF l = S!Normal THEN Scheduler1 ELSE PrioSchedulers1[l]
  /\ \A p : Queue(SavedBy(p)) = saved[p]
  BY DEF Queue, Filling, Flushed, SavedBy

LEMMA QueueOfNext ==
  /\ \A l : Queue(Filling(l))' = IF l = S!Normal THEN Scheduler' ELSE PrioSchedulers'[l]
  /\ \A l : Queue(Flushed(l))' = IF l = S!Normal THEN Scheduler1' ELSE PrioSchedulers1'[l]
  /\ \A p : Queue(SavedBy(p))' = saved'[p]
  BY DEF Queue, Filling, Flushed, SavedBy

LEMMA HeldType == QueueTypes /\ SavedInv => Held \in [Holders -> Seq(Entries)]
<1> SUFFICES ASSUME QueueTypes, SavedInv, NEW h \in Holders PROVE Queue(h) \in Seq(Entries)
  BY DEF Held
<1>1. ASSUME NEW l \in 1 .. S!Normal
      PROVE  Queue(Filling(l)) \in Seq(Entries) /\ Queue(Flushed(l)) \in Seq(Entries)
  <2>1. l = S!Normal \/ (l # S!Normal /\ l \in S!Levels)
    BY LevelsAndNormal
  <2> QED
    BY <2>1, QueueOf DEF QueueTypes
<1>2. ASSUME NEW p \in Pids PROVE Queue(SavedBy(p)) \in Seq(Entries)
  BY QueueOf DEF SavedInv
<1> QED
  BY <1>1, <1>2, HolderNames

(* The entries that are held, and how the model's guards name them.          *)
LEMMA HeldEntries ==
  ASSUME QueueTypes, SavedInv
  PROVE  \A x : Has(Held, x) <=> x \in S!Outstanding \cup SavedEntries
<1>1. \A x : Has(Held, x) <=> \E h \in Holders : \E i \in DOMAIN Queue(h) : Queue(h)[i] = x
  BY DEF Has, Held
<1>2. \A x : x \in SavedEntries <=> \E p \in Pids : \E i \in DOMAIN saved[p] : saved[p][i] = x
  BY DEF SavedEntries, Range
<1>3. \A x : x \in S!Outstanding <=>
        \E l \in 1 .. S!Normal : \/ \E i \in DOMAIN Queue(Filling(l)) : Queue(Filling(l))[i] = x
                                 \/ \E i \in DOMAIN Queue(Flushed(l)) : Queue(Flushed(l))[i] = x
  <2>1. \A x : x \in S!Outstanding <=>
          \/ \E i \in DOMAIN Scheduler : Scheduler[i] = x
          \/ \E l \in S!Levels : \E i \in DOMAIN PrioSchedulers[l] : PrioSchedulers[l][i] = x
          \/ \E i \in DOMAIN Scheduler1 : Scheduler1[i] = x
          \/ \E l \in S!Levels : \E i \in DOMAIN PrioSchedulers1[l] : PrioSchedulers1[l][i] = x
    BY DEF S!Outstanding, S!Scheduled, S!Flushing, S!Elements
  <2>2. /\ Queue(Filling(S!Normal)) = Scheduler /\ Queue(Flushed(S!Normal)) = Scheduler1
        /\ \A l \in S!Levels : /\ Queue(Filling(l)) = PrioSchedulers[l]
                                 /\ Queue(Flushed(l)) = PrioSchedulers1[l]
    BY QueueOf, LevelsAndNormal
  <2> QED
    BY <2>1, <2>2, LevelsAndNormal
<1> QED
  BY <1>1, <1>2, <1>3, HolderNames, QueueOf

LEMMA PushHeld ==
  ASSUME QueueTypes, NEW e \in Entries, NEW priority, S!Push(e, priority), saved' = saved
  PROVE  \E k \in Holders : Held' = [Held EXCEPT ![k] = Append(Held[k], e)]
<1>1. ASSUME NEW l \in 1 .. S!Normal,
             \A h \in Holders : Queue(h)' = IF h = Filling(l) THEN Append(Queue(h), e) ELSE Queue(h)
      PROVE  Held' = [Held EXCEPT ![Filling(l)] = Append(Held[Filling(l)], e)]
  <2>1. Held' = [h \in Holders |-> Queue(h)']
    BY DEF Held
  <2> QED
    BY <1>1, <2>1, HolderNames DEF Held
<1>2. CASE S!PushNormal(e)
  <2>1. Scheduler' = Append(Scheduler, e) /\ UNCHANGED <<PrioSchedulers, Scheduler1, PrioSchedulers1>>
    BY <1>2 DEF S!PushNormal, S!flushing
  <2>2. \A h \in Holders : Queue(h)' = IF h = Filling(S!Normal) THEN Append(Queue(h), e) ELSE Queue(h)
    BY <2>1, HolderNames, QueueOf, QueueOfNext
  <2>3. S!Normal \in 1 .. S!Normal
    BY LevelsAndNormal
  <2> QED
    BY <1>1, <2>2, <2>3, HolderNames
<1>3. CASE priority \in S!Levels /\ S!PushPrio(e, priority)
  <2>1. /\ PrioSchedulers' = [PrioSchedulers EXCEPT ![priority] = Append(PrioSchedulers[priority], e)]
        /\ UNCHANGED <<Scheduler, Scheduler1, PrioSchedulers1>>
    BY <1>3 DEF S!PushPrio, S!flushing
  <2>2. \A l \in S!Levels : PrioSchedulers'[l] = IF l = priority THEN Append(PrioSchedulers[l], e) ELSE PrioSchedulers[l]
    BY <2>1 DEF QueueTypes
  <2>3. \A h \in Holders : Queue(h)' = IF h = Filling(priority) THEN Append(Queue(h), e) ELSE Queue(h)
    <3>1. priority # S!Normal
      BY <1>3, LevelsAndNormal
    <3>2. \A l \in 1 .. S!Normal :
            /\ Queue(Filling(l))' = IF l = priority THEN Append(Queue(Filling(l)), e) ELSE Queue(Filling(l))
            /\ Queue(Flushed(l))' = Queue(Flushed(l))
      <4> TAKE l \in 1 .. S!Normal
      <4>1. CASE l = S!Normal
        BY <2>1, <3>1, <4>1, QueueOf, QueueOfNext
      <4>2. CASE l # S!Normal
        <5>1. PrioSchedulers'[l] = IF l = priority THEN Append(PrioSchedulers[l], e) ELSE PrioSchedulers[l]
          BY <2>2, <4>2, LevelsAndNormal
        <5>2. /\ Queue(Filling(l)) = PrioSchedulers[l] /\ Queue(Filling(l))' = PrioSchedulers'[l]
              /\ Queue(Flushed(l)) = PrioSchedulers1[l] /\ Queue(Flushed(l))' = PrioSchedulers1'[l]
          BY <4>2, QueueOf, QueueOfNext
        <5> QED
          BY <2>1, <5>1, <5>2, Zenon
      <4> QED
        BY <4>1, <4>2
    <3>3. \A p \in Pids : Queue(SavedBy(p))' = Queue(SavedBy(p))
      BY QueueOf, QueueOfNext
    <3> QED
      BY <3>2, <3>3, HolderNames
  <2>4. priority \in 1 .. S!Normal
    BY <1>3, LevelsAndNormal
  <2> QED
    BY <1>1, <2>3, <2>4, HolderNames
<1> QED
  BY <1>2, <1>3 DEF S!Push

LEMMA SaveHeld ==
  ASSUME SavedInv, NEW p \in Pids, NEW e \in Entries,
         saved' = [saved EXCEPT ![p] = Append(@, e)], UNCHANGED queues
  PROVE  Held' = [Held EXCEPT ![SavedBy(p)] = Append(Held[SavedBy(p)], e)]
<1>1. \A q \in Pids : saved'[q] = IF q = p THEN Append(saved[q], e) ELSE saved[q]
  BY DEF SavedInv
<1>2. \A h \in Holders : Queue(h)' = IF h = SavedBy(p) THEN Append(Queue(h), e) ELSE Queue(h)
  <2>1. \A l : Queue(Filling(l))' = Queue(Filling(l)) /\ Queue(Flushed(l))' = Queue(Flushed(l))
    BY QueueOf, QueueOfNext DEF queues
  <2>2. \A q \in Pids : Queue(SavedBy(q))' =
          IF q = p THEN Append(Queue(SavedBy(q)), e) ELSE Queue(SavedBy(q))
    <3> TAKE q \in Pids
    <3>1. Queue(SavedBy(q)) = saved[q] /\ Queue(SavedBy(q))' = saved'[q]
      BY QueueOf, QueueOfNext
    <3>2. saved'[q] = IF q = p THEN Append(saved[q], e) ELSE saved[q]
      BY <1>1
    <3> QED
      BY <3>1, <3>2, Zenon
  <2> QED
    BY <2>1, <2>2, HolderNames
<1>3. Held' = [h \in Holders |-> Queue(h)']
  BY DEF Held
<1> QED
  BY <1>2, <1>3, HolderNames DEF Held

LEMMA RescheduleHeld ==
  ASSUME QueueTypes, SavedInv, NEW p \in Pids, Reschedule(p)
  PROVE  Held' = [Held EXCEPT ![Filling(1)] = Held[Filling(1)] \o Held[SavedBy(p)],
                              ![SavedBy(p)] = <<>>]
<1> DEFINE r == Held[Filling(1)] \o Held[SavedBy(p)]
<1>1. /\ \A q \in Pids : saved'[q] = IF q = p THEN <<>> ELSE saved[q]
      /\ \A l \in S!Levels : PrioSchedulers'[l] = IF l = 1 THEN r ELSE PrioSchedulers[l]
      /\ UNCHANGED <<Scheduler, Scheduler1, PrioSchedulers1>>
  <2>1. r = PrioSchedulers[1] \o saved[p]
    BY HolderNames, QueueOf, LevelsAndNormal DEF Held
  <2> HIDE DEF r
  <2> QED
    BY <2>1 DEF Reschedule, QueueTypes, SavedInv
<1> HIDE DEF r
<1>2. \A h \in Holders : Queue(h)' = IF h = SavedBy(p) THEN <<>> ELSE IF h = Filling(1) THEN r ELSE Queue(h)
  BY <1>1, HolderNames, QueueOf, QueueOfNext, LevelsAndNormal
<1>3. Held' = [h \in Holders |-> Queue(h)']
  BY DEF Held
<1>4. Held' = [Held EXCEPT ![Filling(1)] = r, ![SavedBy(p)] = <<>>]
  BY <1>2, <1>3, HolderNames, LevelsAndNormal DEF Held
<1> QED
  BY <1>4 DEF r

(* The hand-over to a caller: the same ids, to a new address.                *)
Readdressed(q, caller) == [i \in DOMAIN q |-> [q[i] EXCEPT !.dst = caller]]

LEMMA ReaddressedEntries ==
  ASSUME NEW q \in Seq(Entries), NEW caller \in Pids
  PROVE  /\ Readdressed(q, caller) \in Seq(Entries)
         /\ Len(Readdressed(q, caller)) = Len(q) /\ Len(q) \in Nat /\ DOMAIN q = 1 .. Len(q)
         /\ \A i \in 1 .. Len(q) :
              /\ Readdressed(q, caller)[i] = [q[i] EXCEPT !.dst = caller]
              /\ Readdressed(q, caller)[i].id = q[i].id
              /\ Readdressed(q, caller)[i].to = q[i].to
              /\ Readdressed(q, caller)[i].dst = caller
<1>1. DOMAIN q = 1 .. Len(q) /\ Len(q) \in Nat /\ \A i \in 1 .. Len(q) : q[i] \in Entries
  BY LenProperties, ElementOfSeq
<1>2. \A i \in 1 .. Len(q) : LET e == [q[i] EXCEPT !.dst = caller] IN
        e \in Entries /\ e.id = q[i].id /\ e.to = q[i].to /\ e.dst = caller
  BY <1>1 DEF Entries
<1>3. Readdressed(q, caller) \in [1 .. Len(q) -> Entries]
  BY <1>1, <1>2 DEF Readdressed
<1>4. Readdressed(q, caller) \in Seq(Entries) /\ Len(Readdressed(q, caller)) = Len(q)
  BY <1>1, <1>3
<1>5. \A i \in 1 .. Len(q) : Readdressed(q, caller)[i] = [q[i] EXCEPT !.dst = caller]
  BY <1>1 DEF Readdressed
<1> QED
  BY <1>1, <1>2, <1>4, <1>5

LEMMA ReturnHeld ==
  ASSUME AgentsInv, YoungerProcedures, SavedInv, Return
  PROVE  /\ self_ \in Pids /\ parent_[self_] \in Pids /\ self_ # parent_[self_]
         /\ Held' = [Held EXCEPT
                       ![SavedBy(parent_[self_])] =
                         Held[SavedBy(parent_[self_])] \o Readdressed(Held[SavedBy(self_)], parent_[self_]),
                       ![SavedBy(self_)] = <<>>]
<1> DEFINE c == parent_[self_]
           r == Held[SavedBy(c)] \o Readdressed(Held[SavedBy(self_)], c)
<1>1. self_ \in Pids /\ c \in Pids /\ self_ # c
  <2>1. self_ \in Pids
    BY RunningFrames DEF Return, ProcedureReturn
  <2>2. c \in Pids
    BY <2>1 DEF Return, ProcedureReturn, AgentsInv, FieldsInv
  <2>3. self_ # c
    <3>1. procedure[c] = self_
      BY DEF Return, ProcedureReturn
    <3>2. self_ > c
      BY <2>1, <2>2, <3>1 DEF YoungerProcedures, Pids, None
    <3> QED
      BY <2>1, <3>2 DEF Pids
  <2> QED
    BY <2>1, <2>2, <2>3
<1>2. /\ \A q \in Pids : saved'[q] = IF q = self_ THEN <<>> ELSE IF q = c THEN r ELSE saved[q]
      /\ UNCHANGED queues
  <2>1. r = saved[c] \o Readdressed(saved[self_], c)
    BY <1>1, HolderNames, QueueOf DEF Held
  <2>2. /\ saved' = [saved EXCEPT ![c] = saved[c] \o Readdressed(saved[self_], c), ![self_] = <<>>]
        /\ UNCHANGED queues
    BY DEF Return, Readdressed
  <2> HIDE DEF r, c
  <2> QED
    BY <1>1, <2>1, <2>2 DEF SavedInv
<1> HIDE DEF r, c
<1>3. \A h \in Holders :
        Queue(h)' = IF h = SavedBy(self_) THEN <<>> ELSE IF h = SavedBy(c) THEN r ELSE Queue(h)
  <2>1. \A l : Queue(Filling(l))' = Queue(Filling(l)) /\ Queue(Flushed(l))' = Queue(Flushed(l))
    BY <1>2, QueueOf, QueueOfNext DEF queues
  <2>2. \A q \in Pids : Queue(SavedBy(q))' =
          IF q = self_ THEN <<>> ELSE IF q = c THEN r ELSE Queue(SavedBy(q))
    BY <1>2, QueueOf, QueueOfNext
  <2> QED
    BY <1>1, <2>1, <2>2, HolderNames
<1>4. Held' = [h \in Holders |-> Queue(h)']
  BY DEF Held
<1>5. Held' = [Held EXCEPT ![SavedBy(c)] = r, ![SavedBy(self_)] = <<>>]
  BY <1>1, <1>3, <1>4, HolderNames DEF Held
<1> QED
  BY <1>1, <1>5 DEF r, c

(* A flush begins: the schedulers exchange their names, or all stays.        *)
LEMMA SwapHeld ==
  ASSUME S!BeginTrigger, saved' = saved
  PROVE  \E b \in [Holders -> Holders] :
           /\ \A g, h \in Holders : b[g] = b[h] => g = h
           /\ \A h \in Holders : Held'[h] = Held[b[h]]
<1>1. Held' = [h \in Holders |-> Queue(h)']
  BY DEF Held
<1>2. CASE norm' \/ prio'
  <2> DEFINE swap(h) == IF h[1] = "scheduled" THEN Flushed(h[2])
                        ELSE IF h[1] = "flushing" THEN Filling(h[2]) ELSE h
             b == [h \in Holders |-> swap(h)]
  <2>1. /\ \A l : swap(Filling(l)) = Flushed(l) /\ swap(Flushed(l)) = Filling(l)
        /\ \A p : swap(SavedBy(p)) = SavedBy(p)
    BY DEF Filling, Flushed, SavedBy
  <2>2. /\ Scheduler' = Scheduler1 /\ Scheduler1' = Scheduler
        /\ PrioSchedulers' = PrioSchedulers1 /\ PrioSchedulers1' = PrioSchedulers
    BY <1>2 DEF S!BeginTrigger
  <2> HIDE DEF swap
  <2>3. \A h \in Holders : swap(h) \in Holders /\ swap(swap(h)) = h
    BY <2>1, HolderNames
  <2>4. \A h \in Holders : Queue(h)' = Queue(swap(h))
    BY <2>1, <2>2, HolderNames, QueueOf, QueueOfNext
  <2>5. b \in [Holders -> Holders]
    BY <2>3
  <2>6. \A g, h \in Holders : b[g] = b[h] => g = h
    BY <2>3
  <2>7. \A h \in Holders : Held'[h] = Held[b[h]]
    BY <1>1, <2>3, <2>4 DEF Held
  <2> HIDE DEF b
  <2> QED
    BY <2>5, <2>6, <2>7
<1>3. CASE ~ (norm' \/ prio')
  <2> DEFINE b == [h \in Holders |-> h]
  <2>1. UNCHANGED <<Scheduler, PrioSchedulers, Scheduler1, PrioSchedulers1>>
    BY <1>3 DEF S!BeginTrigger, S!filling
  <2>2. \A h \in Holders : Queue(h)' = Queue(h)
    BY <2>1, HolderNames, QueueOf, QueueOfNext
  <2>3. b \in [Holders -> Holders] /\ \A g, h \in Holders : b[g] = b[h] => g = h
    OBVIOUS
  <2>4. \A h \in Holders : Held'[h] = Held[b[h]]
    BY <1>1, <2>2 DEF Held
  <2> HIDE DEF b
  <2> QED
    BY <2>3, <2>4
<1> QED
  BY <1>2, <1>3

(* What is popped was held.                                                 *)
LEMMA PopHeld ==
  ASSUME QueueTypes, SavedInv, NEW e, S!Pop(e), saved' = saved
  PROVE  /\ Has(Held, e)
         /\ \A h \in Holders : \/ Held'[h] = Held[h]
                               \/ Held[h] # <<>> /\ Held'[h] = Tail(Held[h])
<1>1. Held' = [h \in Holders |-> Queue(h)']
  BY DEF Held
<1>2. PICK k \in Holders : /\ Queue(k) # <<>> /\ e = Head(Queue(k))
                           /\ \A h \in Holders : Queue(h)' = IF h = k THEN Tail(Queue(h)) ELSE Queue(h)
  <2>1. CASE S!PopPrio(e)
    <3>1. PICK l \in S!Levels : /\ PrioSchedulers1[l] # <<>> /\ e = Head(PrioSchedulers1[l])
                                /\ PrioSchedulers1' = [PrioSchedulers1 EXCEPT ![l] = Tail(@)]
      BY <2>1 DEF S!PopPrio
    <3>2. UNCHANGED <<Scheduler, PrioSchedulers, Scheduler1>>
      BY <2>1 DEF S!PopPrio, S!filling
    <3>3. l \in 1 .. S!Normal /\ l # S!Normal
      BY LevelsAndNormal
    <3>4. \A i \in S!Levels : PrioSchedulers1'[i] = IF i = l THEN Tail(PrioSchedulers1[i]) ELSE PrioSchedulers1[i]
      BY <3>1 DEF QueueTypes
    <3>5. \A i \in 1 .. S!Normal :
            /\ Queue(Flushed(i))' = IF i = l THEN Tail(Queue(Flushed(i))) ELSE Queue(Flushed(i))
            /\ Queue(Filling(i))' = Queue(Filling(i))
      <4> TAKE i \in 1 .. S!Normal
      <4>1. CASE i = S!Normal
        BY <3>2, <3>3, <4>1, QueueOf, QueueOfNext
      <4>2. CASE i # S!Normal
        <5>1. PrioSchedulers1'[i] = IF i = l THEN Tail(PrioSchedulers1[i]) ELSE PrioSchedulers1[i]
          BY <3>4, <4>2, LevelsAndNormal
        <5>2. /\ Queue(Filling(i)) = PrioSchedulers[i] /\ Queue(Filling(i))' = PrioSchedulers'[i]
              /\ Queue(Flushed(i)) = PrioSchedulers1[i] /\ Queue(Flushed(i))' = PrioSchedulers1'[i]
          BY <4>2, QueueOf, QueueOfNext
        <5> QED
          BY <3>2, <5>1, <5>2, Zenon
      <4> QED
        BY <4>1, <4>2
    <3>6. \A p \in Pids : Queue(SavedBy(p))' = Queue(SavedBy(p))
      BY QueueOf, QueueOfNext
    <3>7. \A h \in Holders : Queue(h)' = IF h = Flushed(l) THEN Tail(Queue(h)) ELSE Queue(h)
      BY <3>5, <3>6, HolderNames
    <3>8. Queue(Flushed(l)) = PrioSchedulers1[l] /\ Flushed(l) \in Holders
      BY <3>3, QueueOf, HolderNames
    <3> QED
      BY <3>1, <3>7, <3>8
  <2>2. CASE S!PopNormal(e)
    <3>1. /\ Scheduler1 # <<>> /\ e = Head(Scheduler1) /\ Scheduler1' = Tail(Scheduler1)
          /\ UNCHANGED <<Scheduler, PrioSchedulers, PrioSchedulers1>>
      BY <2>2 DEF S!PopNormal, S!filling
    <3>2. Flushed(S!Normal) \in Holders /\ Queue(Flushed(S!Normal)) = Scheduler1
      BY QueueOf, HolderNames, LevelsAndNormal
    <3>3. \A h \in Holders : Queue(h)' = IF h = Flushed(S!Normal) THEN Tail(Queue(h)) ELSE Queue(h)
      <4>1. \A l : /\ Queue(Filling(l))' = Queue(Filling(l))
                   /\ l # S!Normal => Queue(Flushed(l))' = Queue(Flushed(l))
                   /\ l = S!Normal => Queue(Flushed(l))' = Tail(Queue(Flushed(l)))
        BY <3>1, <3>2, QueueOf, QueueOfNext
      <4>2. \A p \in Pids : Queue(SavedBy(p))' = Queue(SavedBy(p))
        BY QueueOf, QueueOfNext
      <4> QED
        BY <4>1, <4>2, HolderNames
    <3> QED
      BY <3>1, <3>2, <3>3
  <2> QED
    BY <2>1, <2>2 DEF S!Pop
<1>3. Has(Held, e)
  <2> DEFINE q == Queue(k)
  <2>1. q \in Seq(Entries) /\ q # <<>> /\ e = Head(q)
    BY <1>2, HeldType DEF Held
  <2> HIDE DEF q
  <2>2. 1 \in DOMAIN q /\ e = q[1]
    BY <2>1, EmptySeq, LenProperties
  <2> QED
    BY <2>2 DEF q, Has, Held
<1>4. \A h \in Holders : \/ Held'[h] = Held[h]
                         \/ Held[h] # <<>> /\ Held'[h] = Tail(Held[h])
  BY <1>1, <1>2 DEF Held
<1> QED
  BY <1>3, <1>4

-----------------------------------------------------------------------------
(* A signal is in one place.                                                *)

Once == Distinct(Held)

LEMMA SameHeld ==
  ASSUME UNCHANGED <<Scheduler, Scheduler1, PrioSchedulers, PrioSchedulers1, saved>>
  PROVE  Held' = Held
<1>1. \A h \in Holders : Queue(h)' = Queue(h)
  BY HolderNames, QueueOf, QueueOfNext
<1> QED
  BY <1>1 DEF Held

(* Everything is dropped.                                                   *)
LEMMA DroppedHeld ==
  ASSUME DropSignals
  PROVE  \A x : ~ Has(Held, x)'
<1>1. DOMAIN <<>> = {}
  BY EmptySeq, LenProperties
<1>2. /\ Scheduler' = <<>> /\ Scheduler1' = <<>>
      /\ PrioSchedulers' = [l \in S!Levels |-> <<>>] /\ PrioSchedulers1' = [l \in S!Levels |-> <<>>]
      /\ saved' = [p \in Pids |-> <<>>]
  BY DEF DropSignals, S!DropQueues
<1>3. \A l \in 1 .. S!Normal : Queue(Filling(l))' = <<>> /\ Queue(Flushed(l))' = <<>>
  BY <1>2, QueueOfNext, LevelsAndNormal
<1>4. \A p \in Pids : Queue(SavedBy(p))' = <<>>
  BY <1>2, QueueOfNext
<1>5. \A h \in Holders : Queue(h)' = <<>>
  BY <1>3, <1>4, HolderNames
<1>6. Held' = [h \in Holders |-> Queue(h)']
  BY DEF Held
<1> QED
  BY <1>1, <1>5, <1>6 DEF Has

(* What a step of the engine can do to the queues: nothing is held twice, and *)
(* whatever is held was held, is sent, is what the transition consumes with   *)
(* the address of the agent that saves it, or has the address of a caller.    *)
Sources(x) ==
  \/ Has(Held, x)
  \/ x.to = x.dst /\ x.dst < NextPid
  \/ Save /\ x = [signal_ EXCEPT !.dst = self_]
  \/ Return /\ \E i \in DOMAIN saved[self_] : x = [saved[self_][i] EXCEPT !.dst = parent_[self_]]

LEMMA HeldStep ==
  ASSUME AgentsInv, YoungerProcedures, SavedInv, QueueInv, Once, [EngineNext]_engineVars
  PROVE  Once' /\ \A x : Has(Held, x)' => Sources(x)
<1>1. Held \in [Holders -> Seq(Entries)]
  BY HeldType DEF QueueInv
<1>2. DOMAIN Held' = Holders
  BY DEF Held
<1>3. \A x : Has(Held, x)' <=> Has(Held', x)
  BY DEF Has
<1>4. Once' <=> Distinct(Held')
  BY DEF Once, Distinct
<1>5. ASSUME UNCHANGED <<Scheduler, Scheduler1, PrioSchedulers, PrioSchedulers1, saved>>
      PROVE  Once' /\ \A x : Has(Held, x)' => Has(Held, x)
  BY <1>3, <1>4, <1>5, SameHeld DEF Once
<1>6. ASSUME NEW p \in Pids, Reschedule(p) PROVE Once' /\ \A x : Has(Held, x)' => Has(Held, x)
  <2> DEFINE q == Held[SavedBy(p)]
             k == Filling(1)
             m == SavedBy(p)
  <2>1. k \in Holders /\ m \in Holders /\ k # m
    BY HolderNames, LevelsAndNormal
  <2>2. Held' = [Held EXCEPT ![k] = Held[k] \o q, ![m] = <<>>]
    BY <1>6, RescheduleHeld DEF QueueInv
  <2>3. q \in Seq(Entries) /\ Len(q) = Len(Held[m])
    BY <1>1, <2>1
  <2>4. \A i \in 1 .. Len(q) : q[i].id = Held[m][i].id
    OBVIOUS
  <2>5. \A i \in 1 .. Len(q) : Has(Held, q[i])
    BY <1>1, <2>1, LenProperties DEF Has
  <2> HIDE DEF q, k, m
  <2>6. IsMoved(Held, Held', k, m, q)
    BY <1>1, <2>1, <2>2, <2>3, <2>4 DEF IsMoved
  <2>7. /\ \A x : Has(Held', x) => Has(Held, x) \/ \E i \in 1 .. Len(q) : x = q[i]
        /\ Distinct(Held) => Distinct(Held')
    BY <2>6, MovedQueue
  <2> QED
    BY <1>3, <1>4, <2>5, <2>7 DEF Once
<1>7. ASSUME DropSignals PROVE Once' /\ \A x : ~ Has(Held, x)'
  BY <1>3, <1>4, <1>7, DroppedHeld DEF Has, Distinct
<1>8. ASSUME NEW e, S!Pop(e), saved' = saved PROVE Once' /\ \A x : Has(Held, x)' => Has(Held, x)
  <2>1. \A h \in Holders : Held'[h] \in {Held[h], <<>>} \/ (Held[h] # <<>> /\ Held'[h] = Tail(Held[h]))
    BY <1>8, PopHeld DEF QueueInv
  <2>2. (\A x : Has(Held', x) => Has(Held, x)) /\ (Distinct(Held) => Distinct(Held'))
    BY <1>1, <1>2, <2>1, ShrunkQueues
  <2> QED
    BY <1>3, <1>4, <2>2 DEF Once
<1>9. CASE WithoutSignals /\ UNCHANGED signals
  BY <1>5, <1>9 DEF signals, queues, Sources
<1>10. CASE (Stop \/ AtReturnDone \/ StartFails) /\ DropSaved
  <2>1. \A p \in Pids : saved'[p] \in {saved[p], <<>>}
    BY <1>10 DEF DropSaved
  <2>2. \A h \in Holders : Queue(h)' \in {Queue(h), <<>>}
    <3>1. \A l : Queue(Filling(l))' = Queue(Filling(l)) /\ Queue(Flushed(l))' = Queue(Flushed(l))
      BY <1>10, QueueOf, QueueOfNext DEF DropSaved, queues
    <3> QED
      BY <2>1, <3>1, HolderNames, QueueOf, QueueOfNext
  <2>3. \A h \in Holders : Held'[h] \in {Held[h], <<>>} \/ (Held[h] # <<>> /\ Held'[h] = Tail(Held[h]))
    BY <2>2 DEF Held
  <2>4. (\A x : Has(Held', x) => Has(Held, x)) /\ (Distinct(Held) => Distinct(Held'))
    BY <1>1, <1>2, <2>3, ShrunkQueues
  <2> QED
    BY <1>3, <1>4, <2>4 DEF Once, Sources
<1>11. ASSUME NEW s \in States, ChangeState(s) PROVE Once' /\ \A x : Has(Held, x)' => Sources(x)
  <2>1. self_ \in Pids
    BY <1>11, RunningFrames DEF ChangeState, NextState
  <2> QED
    BY <1>5, <1>6, <1>11, <2>1 DEF ChangeState, signals, queues, Sources
<1>12. CASE Return
  <2> DEFINE c == parent_[self_]
             k == SavedBy(c)
             m == SavedBy(self_)
             q == Readdressed(Held[m], c)
  <2>1. self_ \in Pids /\ c \in Pids /\ self_ # c
    BY <1>12, ReturnHeld
  <2>2. Held' = [Held EXCEPT ![k] = Held[k] \o q, ![m] = <<>>]
    BY <1>12, ReturnHeld
  <2>3. k \in Holders /\ m \in Holders /\ k # m /\ Held[m] = saved[self_]
    BY <2>1, HolderNames, QueueOf DEF Held
  <2>4. Held[m] \in Seq(Entries)
    BY <1>1, <2>3
  <2>5. /\ q \in Seq(Entries) /\ Len(q) = Len(Held[m])
        /\ \A i \in 1 .. Len(q) : q[i].id = Held[m][i].id
        /\ \A i \in 1 .. Len(q) : i \in DOMAIN Held[m] /\ q[i] = [Held[m][i] EXCEPT !.dst = c]
    <3> DEFINE r == Held[m]
    <3>1. r \in Seq(Entries) /\ c \in Pids
      BY <2>1, <2>4
    <3> HIDE DEF r, c
    <3>2. /\ Readdressed(r, c) \in Seq(Entries)
          /\ Len(Readdressed(r, c)) = Len(r) /\ DOMAIN r = 1 .. Len(r)
          /\ \A i \in 1 .. Len(r) : /\ Readdressed(r, c)[i] = [r[i] EXCEPT !.dst = c]
                                   /\ Readdressed(r, c)[i].id = r[i].id
      BY <3>1, ReaddressedEntries
    <3> QED
      BY <3>2 DEF r
  <2>6. \A i \in 1 .. Len(q) : Sources(q[i])
    BY <1>12, <2>3, <2>5 DEF Sources
  <2> HIDE DEF q, k, m, c
  <2>7. IsMoved(Held, Held', k, m, q)
    BY <1>1, <2>2, <2>3, <2>5 DEF IsMoved
  <2>8. /\ \A x : Has(Held', x) => Has(Held, x) \/ \E i \in 1 .. Len(q) : x = q[i]
        /\ Distinct(Held) => Distinct(Held')
    BY <2>7, MovedQueue
  <2>9. \A x : Has(Held, x) => Sources(x)
    BY DEF Sources
  <2> QED
    BY <1>3, <1>4, <2>6, <2>8, <2>9 DEF Once
<1>13. ASSUME NEW id \in Ids, NEW dst \in Pids, NEW priority \in 0 .. PrioLevels,
              Send(id, dst, priority)
       PROVE  Once' /\ \A x : Has(Held, x)' => Sources(x)
  <2> DEFINE e == [id |-> id, dst |-> dst, to |-> dst]
  <2>1. e \in Entries /\ e.id = id /\ e.dst = dst /\ e.to = dst
    BY DEF Entries
  <2>2. S!Push(e, priority) /\ saved' = saved /\ dst < NextPid /\ id \notin InFlight
    BY <1>13 DEF Send
  <2> HIDE DEF e
  <2>3. PICK k \in Holders : Held' = [Held EXCEPT ![k] = Append(Held[k], e)]
    BY <2>1, <2>2, PushHeld DEF QueueInv
  <2>4. \A x : Has(Held, x) => x.id # e.id
    BY <2>1, <2>2, HeldEntries DEF InFlight, QueueInv
  <2>5. IsAppended(Held, Held', k, e)
    BY <1>1, <2>1, <2>3 DEF IsAppended
  <2>6. (\A x : Has(Held', x) => Has(Held, x) \/ x = e) /\ Distinct(Held')
    BY <2>4, <2>5, AppendedQueue DEF Once
  <2> QED
    BY <1>3, <1>4, <2>1, <2>2, <2>6 DEF Sources
<1>14. CASE Save
  <2> DEFINE e == [signal_ EXCEPT !.dst = self_]
  <2>1. self_ \in Pids
    BY <1>14, RunningFrames DEF Save
  <2>2. e \in Entries /\ e.id = signal_.id
    BY <1>14, <2>1 DEF Save, SavedInv, Entries
  <2>3. /\ saved' = [saved EXCEPT ![self_] = Append(@, e)] /\ UNCHANGED queues
        /\ signal_.id \notin {x.id : x \in SavedEntries \cup S!Outstanding}
    BY <1>14 DEF Save
  <2>4. Sources(e)
    BY <1>14 DEF Sources
  <2> HIDE DEF e
  <2>5. Held' = [Held EXCEPT ![SavedBy(self_)] = Append(Held[SavedBy(self_)], e)] /\ SavedBy(self_) \in Holders
    BY <2>1, <2>2, <2>3, SaveHeld, HolderNames
  <2>6. \A x : Has(Held, x) => x.id # e.id
    BY <2>2, <2>3, HeldEntries DEF QueueInv
  <2>7. IsAppended(Held, Held', SavedBy(self_), e)
    BY <1>1, <2>2, <2>5 DEF IsAppended
  <2>8. (\A x : Has(Held', x) => Has(Held, x) \/ x = e) /\ Distinct(Held')
    BY <2>6, <2>7, AppendedQueue DEF Once
  <2> QED
    BY <1>3, <1>4, <2>4, <2>8 DEF Sources
<1>15. CASE Restore
  <2>1. self_ \in Pids
    BY <1>15, RunningFrames DEF Restore
  <2> QED
    BY <1>6, <1>15, <2>1 DEF Restore, Sources
<1>16. CASE StartTrigger
  <2>1. PICK b \in [Holders -> Holders] : /\ \A g, h \in Holders : b[g] = b[h] => g = h
                                          /\ \A h \in Holders : Held'[h] = Held[b[h]]
    BY <1>16, SwapHeld DEF StartTrigger
  <2>2. (\A x : Has(Held', x) => Has(Held, x)) /\ (Distinct(Held) => Distinct(Held'))
    BY <1>1, <1>2, <2>1, RenamedQueues
  <2> QED
    BY <1>3, <1>4, <2>2 DEF Once, Sources
<1>17. CASE FinishTrigger
  <2>1. CASE SystemPid \in ReleaseQueue
    BY <1>7, <1>17, <2>1 DEF FinishTrigger
  <2>2. CASE SystemPid \notin ReleaseQueue
    <3>1. UNCHANGED <<Scheduler, Scheduler1, PrioSchedulers, PrioSchedulers1, saved>>
      BY <1>17, <2>2 DEF FinishTrigger, S!EndTrigger, S!filling
    <3> QED
      BY <1>5, <3>1 DEF Sources
  <2> QED
    BY <2>1, <2>2
<1>18. ASSUME NEW e \in Entries, Deliver(e) \/ Discard(e) PROVE Once' /\ \A x : Has(Held, x)' => Sources(x)
  BY <1>8, <1>18 DEF Deliver, Discard, Sources
<1>19. CASE FinishTransition \/ ScriptRaises
  BY <1>5, <1>19 DEF FinishTransition, ScriptRaises, queues, Sources
<1>20. CASE ResetSystem
  BY <1>7, <1>20 DEF ResetSystem
<1>21. CASE Block \/ UNCHANGED engineVars
  BY <1>5, <1>21 DEF Block, engineVars, signals, queues, Sources
<1> QED
  BY <1>9, <1>10, <1>11, <1>12, <1>13, <1>14, <1>15, <1>16, <1>17, <1>18, <1>19, <1>20, <1>21
  DEF EngineNext

LEMMA EngineInvariants ==
  EngineSpec => [](AgentsInv /\ TreeInv /\ YoungerProcedures /\ SavedInv /\ QueueInv)
<1>1. EngineSpec => [](AgentsInv /\ TreeInv /\ YoungerProcedures)
  BY EngineImplementsAgents, AgentsInvariant, TreeInvariant, YoungerInvariant, PTL
<1> QED
  BY <1>1, SavedInitInv, SavedNextInv, QueueInitInv, QueueNextInv, PTL DEF EngineSpec

LEMMA OnceInit == EngineInit => Once /\ \A x : ~ Has(Held, x)
<1> SUFFICES ASSUME EngineInit PROVE \A h \in Holders : DOMAIN Held[h] = {}
  BY DEF Once, Distinct, Has, Held
<1>1. DOMAIN <<>> = {}
  BY EmptySeq, LenProperties
<1>2. \A l \in 1 .. S!Normal : Queue(Filling(l)) = <<>> /\ Queue(Flushed(l)) = <<>>
  BY QueueOf, LevelsAndNormal DEF EngineInit, S!SchedInit
<1>3. \A p \in Pids : Queue(SavedBy(p)) = <<>>
  BY QueueOf DEF EngineInit
<1>4. \A h \in Holders : Queue(h) = <<>>
  BY <1>2, <1>3, HolderNames
<1> QED
  BY <1>1, <1>4 DEF Held

LEMMA OnceInvariant == EngineSpec => []Once
<1>1. /\ AgentsInv /\ TreeInv /\ YoungerProcedures /\ SavedInv /\ QueueInv /\ Once
      /\ [EngineNext]_engineVars
      => Once'
  BY HeldStep
<1> QED
  BY <1>1, OnceInit, EngineInvariants, PTL DEF EngineSpec

(* Save, restore, the hand-over to a caller and the exchange of the copies of  *)
(* the schedulers neither duplicate a signal nor keep what they move.         *)
THEOREM SignalsAreNeverDuplicated == EngineSpec => []NeverDuplicated
<1>1. Once => NeverDuplicated
  BY DEF Once, Distinct, Held, NeverDuplicated
<1> QED
  BY <1>1, OnceInvariant, PTL

-----------------------------------------------------------------------------
(* On whose behalf.                                                         *)

(* Two agents of this system that act, as long as both have their entries,   *)
(* for the same original caller.                                            *)
SameCaller(p, q) ==
  /\ p < NextPid /\ q < NextPid
  /\ p \in ENV /\ q \in ENV => OriginalCaller(p) = OriginalCaller(q)

SignalInv ==
  signal_ # NoSignal =>
    /\ frames # <<>> /\ frames[1].kind = "transition"
    /\ SameCaller(frames[1].pid, signal_.to)

BehalfInv ==
  /\ \A x : Has(Held, x) => SameCaller(x.dst, x.to)
  /\ SignalInv

(* Nobody who lives changes the caller it acts for.                          *)
Keeping ==
  /\ NextPid' \in Nat /\ NextPid <= NextPid'
  /\ \A p \in Pids : p < NextPid /\ p \in ENV' => p \in ENV /\ caller_'[p] = caller_[p]

LEMMA KeptCallers ==
  ASSUME AgentsInv, [EngineNext]_engineVars
  PROVE  DropSignals \/ Keeping
<1>1. NextPid \in 1 .. MaxPid + 1
  BY DEF AgentsInv, TablesType
<1>2. ASSUME UNCHANGED <<NextPid, ENV, caller_>> PROVE Keeping
  BY <1>1, <1>2 DEF Keeping
<1>3. ASSUME NEW parent, NEW original, NEW state, Born(NextPid, parent, original, state),
             ENV' \subseteq ENV \cup {App, NextPid}
      PROVE  Keeping
  BY <1>1, <1>3 DEF Born, Keeping, AgentsInv, TablesType, App, Pids
<1>4. CASE WithoutSignals /\ UNCHANGED signals
  <2>1. CASE CreateSystem \/ Create \/ CreateUncompiled \/ Procedure
    BY <1>3, <2>1 DEF CreateSystem, Create, CreateUncompiled, Procedure
  <2>2. CASE CreateDuplicate
    BY <1>1, <2>2 DEF CreateDuplicate, tree, Keeping
  <2>3. CASE StartReturn \/ SystemStartFails \/ RemoteReturn \/ \E pid \in Pids : RemoteCall(pid)
    BY <1>2, <2>3 DEF StartReturn, SystemStartFails, RemoteReturn, RemoteCall, tree
  <2> QED
    BY <1>4, <2>1, <2>2, <2>3 DEF WithoutSignals
<1>5. CASE (Stop \/ AtReturnDone \/ StartFails) /\ DropSaved
  <2>1. ASSUME NEW p, Stopping(p) PROVE UNCHANGED <<ENV, caller_>>
    BY <2>1 DEF Stopping, Terminate, tree
  <2> QED
    BY <1>2, <1>5, <2>1 DEF Stop, AtReturnDone, StartFails, tree
<1>6. CASE Return \/ StartTrigger \/ FinishTransition \/ ScriptRaises \/ Save \/ Restore \/ Block
  BY <1>2, <1>6 DEF Return, ProcedureReturn, StartTrigger, BeginTrigger, FinishTransition,
     TransitionReturn, ScriptRaises, Raise, Save, Restore, Block, agentVars, tree
<1>7. ASSUME NEW s \in States, ChangeState(s) PROVE Keeping
  BY <1>2, <1>7 DEF ChangeState, NextState, tree
<1>8. ASSUME NEW id \in Ids, NEW dst \in Pids, NEW priority \in 0 .. PrioLevels,
             Send(id, dst, priority)
      PROVE  Keeping
  BY <1>2, <1>8 DEF Send, agentVars, tree
<1>9. ASSUME NEW e \in Entries, Deliver(e) \/ Discard(e) PROVE Keeping
  BY <1>2, <1>9 DEF Deliver, Dispatch, Discard, agentVars, tree
<1>10. CASE FinishTrigger
  <2>1. CASE SystemPid \in ReleaseQueue
    BY <1>10, <2>1 DEF FinishTrigger
  <2>2. CASE SystemPid \notin ReleaseQueue
    BY <1>1, <1>10, <2>2 DEF FinishTrigger, EndTrigger, Release, ReleaseEntries, Keeping
  <2> QED
    BY <2>1, <2>2
<1>11. CASE ResetSystem
  BY <1>11 DEF ResetSystem
<1>12. CASE UNCHANGED engineVars
  BY <1>2, <1>12 DEF engineVars, agentVars, tree
<1> QED
  BY <1>4, <1>5, <1>6, <1>7, <1>8, <1>9, <1>10, <1>11, <1>12 DEF EngineNext

LEMMA KeptSameCaller ==
  ASSUME AgentsInv, Keeping, NEW p \in Pids, NEW q \in Pids, SameCaller(p, q)
  PROVE  SameCaller(p, q)'
<1>1. NextPid \in Nat /\ p \in Nat /\ q \in Nat
  BY DEF AgentsInv, TablesType, Pids
<1>2. p < NextPid /\ q < NextPid /\ p < NextPid' /\ q < NextPid'
  BY <1>1 DEF Keeping, SameCaller
<1>3. ASSUME p \in ENV', q \in ENV' PROVE OriginalCaller(p)' = OriginalCaller(q)'
  <2>1. /\ p \in ENV /\ q \in ENV
        /\ OriginalCaller(p)' = OriginalCaller(p) /\ OriginalCaller(q)' = OriginalCaller(q)
    BY <1>2, <1>3 DEF Keeping, OriginalCaller
  <2> QED
    BY <2>1 DEF SameCaller
<1> QED
  BY <1>2, <1>3 DEF SameCaller

(* The transition stays at the bottom of the call stack until it ends.      *)
LEMMA CallsOnTop ==
  ASSUME ContextType, frames # <<>>, NEW current, NEW pid, NEW kind, pid \in Pids, kind \in Kinds,
         SwitchFrom(current, pid, kind)
  PROVE  frames' # <<>> /\ frames'[1] = frames[1]
<1>1. frames \in Seq(Frames) /\ Len(frames) \in Nat \ {0} /\ [kind |-> kind, pid |-> pid] \in Frames
  BY EmptySeq, LenProperties DEF ContextType, Frames
<1>2. /\ frames' \in Seq(Frames) /\ Len(frames') = Len(frames) + 1
      /\ \A i \in 1 .. Len(frames) : frames'[i] = frames[i]
  BY <1>1, PushStack DEF SwitchFrom
<1> QED
  BY <1>1, <1>2, EmptySeq

LEMMA ReturnsOnTop ==
  ASSUME ContextType, frames # <<>>, frames[1].kind = "transition", SwitchBack,
         Top(frames).kind # "transition"
  PROVE  frames' # <<>> /\ frames'[1] = frames[1]
<1>1. frames \in Seq(Frames)
  BY DEF ContextType
<1>2. /\ Rest(frames) \in Seq(Frames) /\ Len(frames) \in Nat \ {0}
      /\ Len(Rest(frames)) = Len(frames) - 1
      /\ \A i \in 1 .. Len(frames) - 1 : Rest(frames)[i] = frames[i]
  BY <1>1, PopStack
<1>3. Len(frames) # 1
  BY DEF Top
<1> QED
  BY <1>2, <1>3, EmptySeq DEF SwitchBack

LEMMA TransitionStays ==
  ASSUME AgentsInv, SignalInv, signal_ # NoSignal, signal_' = signal_, [EngineNext]_engineVars
  PROVE  frames' # <<>> /\ frames'[1] = frames[1]
<1>1. ContextType /\ frames # <<>> /\ frames[1].kind = "transition" /\ self_ \in 0 .. MaxPid
  BY DEF AgentsInv, ContextType, SignalInv
<1>2. CASE UNCHANGED frames
  BY <1>1, <1>2
<1>3. CASE WithoutSignals /\ UNCHANGED signals
  <2>1. CASE Create \/ Procedure
    BY <1>1, <2>1, CallsOnTop DEF Create, Procedure, Born, SwitchTo, Kinds
  <2>2. CASE \E pid \in Pids : RemoteCall(pid)
    BY <1>1, <2>2, CallsOnTop DEF RemoteCall, SwitchTo, Kinds
  <2>3. CASE StartReturn \/ SystemStartFails \/ RemoteReturn
    BY <1>1, <2>3, ReturnsOnTop DEF StartReturn, SystemStartFails, RemoteReturn, InScript
  <2>4. CASE CreateSystem \/ CreateUncompiled \/ CreateDuplicate
    BY <1>1, <1>2, <2>4 DEF CreateSystem, CreateUncompiled, CreateDuplicate, Idle, context
  <2> QED
    BY <1>3, <2>1, <2>2, <2>3, <2>4 DEF WithoutSignals
<1>4. CASE (Stop \/ AtReturnDone \/ StartFails) /\ DropSaved
  BY <1>1, <1>2, <1>4, ReturnsOnTop DEF Stop, AtReturnDone, StartFails, InScript, context
<1>5. CASE Return
  <2>1. parent_[self_] \in Pids
    BY <1>5, RunningFrames DEF Return, ProcedureReturn, AgentsInv, FieldsInv
  <2> QED
    BY <1>1, <1>5, <2>1, CallsOnTop DEF Return, ProcedureReturn, SwitchTo, Kinds
<1>6. CASE StartTrigger \/ Save \/ Restore \/ Block
  BY <1>2, <1>6 DEF StartTrigger, BeginTrigger, Save, Restore, Block, agentVars, context
<1>7. ASSUME NEW s \in States, ChangeState(s) PROVE UNCHANGED frames
  BY <1>7 DEF ChangeState, NextState, context
<1>8. ASSUME NEW id \in Ids, NEW dst \in Pids, NEW priority \in 0 .. PrioLevels,
             Send(id, dst, priority)
      PROVE  UNCHANGED frames
  BY <1>8 DEF Send, agentVars, context
<1>9. ASSUME NEW e \in Entries PROVE ~ Deliver(e) /\ ~ Discard(e)
  BY <1>1 DEF Deliver, Dispatch, Discard
<1>10. ~ FinishTransition /\ ~ ScriptRaises /\ ~ FinishTrigger /\ ~ ResetSystem
  BY <1>1 DEF FinishTransition, ScriptRaises, FinishTrigger, EndTrigger, ResetSystem, Reset
<1>11. CASE UNCHANGED engineVars
  BY <1>2, <1>11 DEF engineVars, agentVars, context
<1> QED
  BY <1>2, <1>3, <1>4, <1>5, <1>6, <1>7, <1>8, <1>9, <1>10, <1>11 DEF EngineNext

(* Whatever comes to the queues goes to somebody of the same caller.         *)
LEMMA SourcesOnBehalf ==
  ASSUME AgentsInv, TreeInv, SavedInv, BehalfInv, NEW x \in Entries, Sources(x)
  PROVE  SameCaller(x.dst, x.to)
<1>1. CASE x.to = x.dst /\ x.dst < NextPid
  BY <1>1 DEF SameCaller
<1>2. CASE Save /\ x = [signal_ EXCEPT !.dst = self_]
  <2>1. x.dst = self_ /\ x.to = signal_.to
    BY <1>2 DEF Save, SavedInv, Entries
  <2> QED
    BY <1>2, <2>1 DEF Save, BehalfInv, SignalInv
<1>3. ASSUME Return, NEW i \in DOMAIN saved[self_], x = [saved[self_][i] EXCEPT !.dst = parent_[self_]]
      PROVE  SameCaller(x.dst, x.to)
  <2> DEFINE c == parent_[self_]
             q == saved[self_]
  <2>1. self_ \in Pids /\ frames # <<>>
    BY <1>3, RunningFrames DEF Return, ProcedureReturn, Running
  <2>2. c \in Pids /\ procedure[c] = self_ /\ caller_[self_] # None
    BY <1>3, <2>1 DEF Return, ProcedureReturn, AgentsInv, FieldsInv
  <2>3. caller_[self_] = OriginalCaller(c) /\ c \in moonagents_
    BY <2>1, <2>2 DEF TreeInv, Tree, ProcedureChainValid, Pids, None
  <2>4. OriginalCaller(c) = OriginalCaller(self_)
    BY <2>2, <2>3 DEF OriginalCaller
  <2>5. c < NextPid /\ self_ \in ENV
    BY <2>1, <2>2, <2>3, RunningFrames, SwitchBackContext DEF AgentsInv, EntriesInv, NothingLeaks, CallStack, Top
  <2>6. q \in Seq(Entries) /\ \A j \in DOMAIN q : q[j].dst = self_ /\ Has(Held, q[j])
    <3>1. SavedBy(self_) \in Holders /\ Held[SavedBy(self_)] = q
      BY <2>1, HolderNames, QueueOf DEF Held
    <3>2. \A j \in DOMAIN q : Has(Held, q[j])
      BY <3>1 DEF Has, Held
    <3> QED
      BY <2>1, <3>2 DEF SavedInv
  <2>7. q[i] \in Entries
    BY <2>6, LenProperties, ElementOfSeq
  <2> HIDE DEF q
  <2>8. SameCaller(self_, q[i].to)
    <3>1. Has(Held, q[i]) /\ q[i].dst = self_
      BY <1>3, <2>6 DEF q
    <3> QED
      BY <3>1, Zenon DEF BehalfInv
  <2>9. x.dst = c /\ x.to = q[i].to
    BY <1>3, <2>7 DEF q, Entries
  <2> HIDE DEF c
  <2> QED
    BY <2>4, <2>5, <2>8, <2>9 DEF SameCaller
<1> QED
  BY <1>1, <1>2, <1>3 DEF Sources, BehalfInv

LEMMA DeliverOnBehalf ==
  ASSUME AgentsInv, TreeInv, YoungerProcedures, SavedInv, QueueInv, BehalfInv, Keeping,
         NEW e \in Entries, Deliver(e)
  PROVE  SignalInv'
<1>1. /\ S!Pop(e) /\ Dispatch(e.dst) /\ signal_' = e /\ saved' = saved
      /\ e.dst \in Pids /\ e.to \in Pids
  BY DEF Deliver, Entries
<1>2. PICK d \in Pids : d = Destination(e.dst) /\ OriginalCaller(d) = OriginalCaller(e.dst)
  BY <1>1, InnermostProcedure DEF AgentsInv, TreeInv
<1>3. SameCaller(e.dst, e.to)
  <2>1. Has(Held, e)
    BY <1>1, PopHeld DEF QueueInv
  <2> QED
    BY <2>1 DEF BehalfInv
<1>4. e.dst \in ENV /\ d \in ENV /\ frames = <<>> /\ SwitchTo(d, "transition")
  BY <1>1, <1>2 DEF Dispatch, Receiving
<1>5. d < NextPid
  BY <1>4 DEF AgentsInv, EntriesInv
<1>6. SameCaller(d, e.to)
  BY <1>2, <1>3, <1>4, <1>5 DEF SameCaller
<1>7. SameCaller(d, e.to)'
  BY <1>1, <1>6, KeptSameCaller
<1>8. frames' = <<[kind |-> "transition", pid |-> d]>>
  BY <1>4 DEF SwitchTo, SwitchFrom
<1> QED
  BY <1>1, <1>7, <1>8 DEF SignalInv

LEMMA BehalfNext ==
  ASSUME AgentsInv, TreeInv, YoungerProcedures, SavedInv, QueueInv, Once, BehalfInv,
         [EngineNext]_engineVars
  PROVE  BehalfInv'
<1>1. AgentsInv' /\ SavedInv' /\ QueueInv'
  BY EngineStepIsAgentsStep, AgentsNextInv, SavedNextInv, QueueNextInv
<1>2. \A x : Has(Held, x)' => x \in Entries
  <2>1. (Held \in [Holders -> Seq(Entries)])'
    <3>1. (QueueTypes /\ SavedInv)'
      BY <1>1 DEF QueueInv
    <3> QED
      BY <3>1, HeldType, PTL
  <2> QED
    BY <2>1, LenProperties, ElementOfSeq DEF Has
<1>3. CASE DropSignals
  BY <1>3, DroppedHeld DEF DropSignals, BehalfInv, SignalInv
<1>4. CASE Keeping
  <2>1. ASSUME NEW p \in Pids, NEW q \in Pids, SameCaller(p, q) PROVE SameCaller(p, q)'
    BY <1>4, <2>1, KeptSameCaller
  <2>2. ASSUME NEW x, Has(Held, x)' PROVE SameCaller(x.dst, x.to)'
    <3>1. x \in Entries /\ Sources(x)
      BY <1>2, <2>2, HeldStep
    <3>2. SameCaller(x.dst, x.to) /\ x.dst \in Pids /\ x.to \in Pids
      BY <3>1, SourcesOnBehalf DEF Entries
    <3> QED
      BY <2>1, <3>2
  <2>3. SignalInv'
    <3>1. CASE signal_' = NoSignal
      BY <3>1 DEF SignalInv
    <3>2. CASE signal_' # NoSignal /\ signal_' = signal_
      <4>1. /\ frames' # <<>> /\ frames'[1] = frames[1]
        BY <3>2, TransitionStays DEF BehalfInv
      <4>2. frames[1].pid \in Pids /\ signal_.to \in Pids
        <5>1. frames # <<>> /\ signal_ \in Entries
          BY <3>2 DEF BehalfInv, SignalInv, SavedInv
        <5>2. frames \in Seq(Frames) /\ 1 \in 1 .. Len(frames)
          BY <5>1, EmptySeq, LenProperties DEF AgentsInv, ContextType
        <5>3. frames[1] \in Frames
          BY <5>2, ElementOfSeq
        <5> QED
          BY <5>1, <5>3 DEF Frames, Entries
      <4> QED
        BY <2>1, <3>2, <4>1, <4>2 DEF BehalfInv, SignalInv
    <3>3. ASSUME NEW e \in Entries, Deliver(e) PROVE SignalInv'
      BY <1>4, <3>3, DeliverOnBehalf
    <3>4. \/ signal_' \in {signal_, NoSignal}
          \/ \E e \in Entries : Deliver(e)
      BY DEF EngineNext, signals, WithoutSignals, DropSaved, ChangeState, Reschedule, Return, Send, Save,
             Restore, StartTrigger, Block, FinishTrigger, DropSignals, Discard, FinishTransition, ScriptRaises,
             ResetSystem, engineVars
    <3> QED
      BY <3>1, <3>2, <3>3, <3>4
  <2> QED
    BY <2>2, <2>3 DEF BehalfInv
<1> QED
  BY <1>3, <1>4, KeptCallers

LEMMA BehalfInvariant == EngineSpec => []BehalfInv
<1>1. EngineInit => BehalfInv
  BY OnceInit DEF EngineInit, BehalfInv, SignalInv
<1>2. /\ AgentsInv /\ TreeInv /\ YoungerProcedures /\ SavedInv /\ QueueInv /\ Once /\ BehalfInv
      /\ [EngineNext]_engineVars
      => BehalfInv'
  BY BehalfNext
<1> QED
  BY <1>1, <1>2, OnceInvariant, EngineInvariants, PTL DEF EngineSpec

(* A signal that was sent to an agent is consumed by a transition that acts   *)
(* for the same original caller, although it may have been saved, handed from  *)
(* a procedure to its caller and restored on the way.                        *)
THEOREM SignalsAreConsumedOnBehalf == EngineSpec => []DeliveredOnBehalf
<1>1. AgentsInv /\ BehalfInv => DeliveredOnBehalf
  BY DEF AgentsInv, EntriesInv, BehalfInv, SignalInv, SameCaller, DeliveredOnBehalf
<1> QED
  BY <1>1, EngineInvariants, BehalfInvariant, PTL

-----------------------------------------------------------------------------
(* What is saved for an agent outlives the procedures that saved it.        *)

(* Kept, by place.                                                          *)
HeldStill(id) ==
  \/ \E e \in S!Outstanding : e.id = id
  \/ \E p \in Pids : ~ Returned(p) /\ \E i \in DOMAIN saved[p] : saved[p][i].id = id

LEMMA KeptWhere == \A id : id \in Kept <=> HeldStill(id)
<1> DEFINE Q == {p \in Pids : ~ Returned(p)}
           R == UNION {Range(saved[p]) : p \in Q}
<1>1. \A e : e \in R <=> \E p \in Q : \E i \in DOMAIN saved[p] : saved[p][i] = e
  BY DEF Range
<1>2. Kept = {e.id : e \in S!Outstanding \cup R}
  BY DEF Kept
<1> HIDE DEF R
<1>3. \A id : id \in Kept <=> (\E e \in S!Outstanding : e.id = id) \/ \E e \in R : e.id = id
  BY <1>2
<1> QED
  BY <1>1, <1>3 DEF HeldStill

LEMMA KeptNext ==
  /\ \A p \in Pids : ~ Returned(p)' => \A i \in DOMAIN saved'[p] : saved'[p][i].id \in Kept'
  /\ \A e \in S!Outstanding' : e.id \in Kept'
<1>1. (\A id : id \in Kept <=> HeldStill(id))'
  BY KeptWhere, PTL
<1> QED
  BY <1>1 DEF HeldStill

(* An agent that has not returned stays so while the agent it replaces and   *)
(* itself are left alone.                                                   *)
SamePlace(p) ==
  /\ caller_'[p] = caller_[p] /\ parent_'[p] = parent_[p]
  /\ \A q \in Pids : procedure[q] = p => procedure'[q] = p

LEMMA StillRunning ==
  ASSUME AgentsInv, NEW p \in Pids, ~ Returned(p), SamePlace(p)
  PROVE  ~ Returned(p)'
<1>1. caller_[p] # None => parent_[p] \in Pids
  BY DEF AgentsInv, FieldsInv
<1> QED
  BY <1>1 DEF Returned, SamePlace

LEMMA PlaceOfTheLiving ==
  ASSUME AgentsInv, NEW p \in moonagents_,
         \/ WithoutSignals
         \/ \E s \in States : NextState(s)
         \/ BeginTrigger \/ (\E pid \in Pids : Dispatch(pid)) \/ TransitionReturn \/ Raise
         \/ ReleaseEntries
         \/ UNCHANGED tree
  PROVE  SamePlace(p)
<1>1. p \in Pids /\ p # NextPid /\ p \notin ReleaseQueue /\ p # None
  BY DEF AgentsInv, EntriesInv, NothingLeaks, TablesType, App, Pids, None
<1>2. CASE UNCHANGED <<parent_, caller_, procedure>>
  BY <1>2 DEF SamePlace
<1>3. CASE ReleaseEntries
  BY <1>1, <1>3 DEF ReleaseEntries, SamePlace
<1>4. CASE CreateSystem \/ Create \/ CreateUncompiled
  BY <1>1, <1>4 DEF CreateSystem, Create, CreateUncompiled, Born, SamePlace, AgentsInv, TablesType
<1>5. CASE Procedure
  <2>1. \A q \in Pids : procedure[q] = p => q # self_
    BY <1>1, <1>5 DEF Procedure
  <2> QED
    BY <1>1, <1>5, <2>1 DEF Procedure, Born, SamePlace, AgentsInv, TablesType
<1>6. CASE \/ CreateDuplicate \/ StartReturn \/ SystemStartFails \/ RemoteReturn
           \/ \E pid \in Pids : RemoteCall(pid)
  BY <1>2, <1>6 DEF CreateDuplicate, StartReturn, SystemStartFails, RemoteReturn, RemoteCall, tree
<1>7. CASE \/ \E s \in States : NextState(s)
           \/ BeginTrigger \/ (\E pid \in Pids : Dispatch(pid)) \/ TransitionReturn \/ Raise
           \/ UNCHANGED tree
  BY <1>2, <1>7 DEF NextState, BeginTrigger, Dispatch, TransitionReturn, Raise, tree
<1> QED
  BY <1>3, <1>4, <1>5, <1>6, <1>7 DEF WithoutSignals

(* The end of an agent: what it has saved was sent to it, or to a procedure   *)
(* that goes with it, unless it is a procedure that has returned.            *)
LEMMA DyingSaver ==
  ASSUME AgentsInv, TreeInv, Callers, NEW r \in Pids, Stopping(r), \A x \in Pids : procedure[x] # r,
         NEW p \in moonagents_, ~ Returned(p), NEW q \in Pids, SameCaller(p, q)
  PROVE  (SamePlace(p) /\ p \in moonagents_') \/ q \notin moonagents_'
<1>1. CASE children[r] # {}
  BY <1>1 DEF Stopping, SamePlace, tree
<1>2. CASE children[r] = {}
  <2>1. PICK T \in SUBSET Pids : IsCascade(r, T) /\ Terminate(T)
    BY <1>2 DEF Stopping
  <2>2. \A x \in T : children[x] \subseteq T
    BY <1>2, <2>1, ChildrenGo
  <2>3. p \in Pids /\ p # None
    BY DEF AgentsInv, TablesType, Pids, None
  <2>4. CASE p \notin T
    <3>1. \A x \in Pids : procedure[x] = p => x \notin T
      BY <2>2, <2>3, <2>4 DEF TreeInv, Tree, ProcedureChainValid
    <3> QED
      BY <2>1, <2>4, <3>1 DEF Terminate, SamePlace
  <2>5. CASE p \in T
    <3>1. caller_[p] = None
      <4> SUFFICES ASSUME caller_[p] # None PROVE FALSE
        OBVIOUS
      <4>1. parent_[p] \in Pids /\ procedure[parent_[p]] = p
        BY <2>3 DEF Returned, AgentsInv, FieldsInv
      <4>2. state_[p] # Nil /\ p # r
        BY <2>3, <4>1 DEF TreeInv, Tree, ProcedureChainValid
      <4> QED
        BY <2>1, <2>5, <4>2 DEF IsCascade
    <3> SUFFICES ASSUME q \in moonagents_, q \notin T PROVE FALSE
      BY <2>1 DEF Terminate
    <3>2. p \in ENV /\ q \in ENV
      BY DEF AgentsInv, EntriesInv, NothingLeaks
    <3>3. OriginalCaller(q) = p
      BY <3>1, <3>2 DEF SameCaller, OriginalCaller
    <3>4. caller_[q] = p
      BY <2>5, <3>3 DEF OriginalCaller
    <3> QED
      BY <2>2, <2>5, <3>4, ProceduresGo
  <2> QED
    BY <2>4, <2>5
<1> QED
  BY <1>1, <1>2

(* What happens to a saved signal in a step.                                *)
Lost(p, i) ==
  /\ saved[p][i].id \notin Kept'
  /\ saved[p][i].to \in moonagents_'
  /\ ~ Returned(parent_[p])

LEMMA QuietStep ==
  ASSUME AgentsInv, SavedInv, NEW p \in Pids, NEW i \in DOMAIN saved[p], ~ Returned(p), SamePlace(p),
         i \in DOMAIN saved'[p], saved'[p][i] = saved[p][i]
  PROVE  ~ Lost(p, i)
<1>1. ~ Returned(p)'
  BY StillRunning
<1> QED
  BY <1>1, KeptNext DEF Lost

LEMMA DroppingStep ==
  ASSUME DropSignals, moonagents_' = {}, NEW p, NEW i
  PROVE  ~ Lost(p, i)
  BY DEF Lost

LEMMA RestoringStep ==
  ASSUME AgentsInv, SavedInv, QueueInv, NEW r \in Pids, Reschedule(r), NEW p \in Pids,
         NEW i \in DOMAIN saved[p], ~ Returned(p), SamePlace(p)
  PROVE  ~ Lost(p, i)
<1>1. CASE p # r
  <2>1. saved'[p] = saved[p]
    BY <1>1 DEF Reschedule, SavedInv
  <2> QED
    BY <2>1, QuietStep
<1>2. CASE p = r
  <2> DEFINE q == PrioSchedulers[1]
             s == saved[p]
  <2>1. 1 \in S!Levels /\ q \in Seq(Entries) /\ s \in Seq(Entries)
    BY LevelsAndNormal DEF QueueInv, QueueTypes, SavedInv
  <2>2. PrioSchedulers'[1] = q \o s
    BY <1>2, <2>1 DEF Reschedule, QueueInv, QueueTypes
  <2> HIDE DEF q, s
  <2>3. /\ q \o s \in Seq(Entries) /\ Len(q \o s) = Len(q) + Len(s)
        /\ \A j \in 1 .. Len(q) + Len(s) : (q \o s)[j] = IF j <= Len(q) THEN q[j] ELSE s[j - Len(q)]
    BY <2>1, ConcatProperties, Zenon
  <2>4. Len(q) \in Nat /\ DOMAIN s = 1 .. Len(s) /\ Len(s) \in Nat
    BY <2>1, LenProperties
  <2>5. i \in 1 .. Len(s)
    BY <2>4 DEF s
  <2>6. /\ Len(q) + i \in 1 .. Len(q) + Len(s)
        /\ ~ (Len(q) + i <= Len(q)) /\ (Len(q) + i) - Len(q) = i
    BY <2>4, <2>5
  <2>7. (q \o s)[Len(q) + i] = s[i] /\ Len(q) + i \in DOMAIN (q \o s)
    BY <2>3, <2>6, LenProperties
  <2>8. s[i] \in S!Elements(PrioSchedulers'[1])
    BY <2>2, <2>7 DEF S!Elements
  <2>9. saved[p][i] \in S!Outstanding'
    BY <2>1, <2>8 DEF s, S!Outstanding, S!Scheduled
  <2> QED
    BY <2>9, KeptNext DEF Lost
<1> QED
  BY <1>1, <1>2

LEMMA ReturningStep ==
  ASSUME AgentsInv, YoungerProcedures, SavedInv, Return, NEW p \in Pids,
         NEW i \in DOMAIN saved[p], ~ Returned(p)
  PROVE  ~ Lost(p, i)
<1>1. PICK c \in Pids : c = parent_[self_]
  BY ReturnHeld
<1>2. /\ self_ \in Pids /\ self_ # c /\ procedure[c] = self_ /\ self_ # None
      /\ procedure' = [procedure EXCEPT ![c] = None]
      /\ UNCHANGED <<parent_, caller_>>
  BY <1>1, ReturnHeld DEF Return, ProcedureReturn, Pids, None
<1>3. \A q \in Pids : q # self_ => SamePlace(q)
  BY <1>2 DEF SamePlace, AgentsInv, TablesType
<1> DEFINE q == saved[c]
           s == saved[self_]
           m == Readdressed(s, c)
<1>4. q \in Seq(Entries) /\ s \in Seq(Entries)
  BY <1>2 DEF SavedInv
<1>5. /\ saved'[c] = q \o m
      /\ \A x \in Pids : x # c /\ x # self_ => saved'[x] = saved[x]
  BY <1>1, <1>2 DEF Return, SavedInv, Readdressed
<1> HIDE DEF q, s
<1>6. /\ m \in Seq(Entries) /\ Len(m) = Len(s) /\ Len(s) \in Nat /\ DOMAIN s = 1 .. Len(s)
      /\ \A j \in 1 .. Len(s) : m[j].id = s[j].id
  <2>1. s \in Seq(Entries) /\ c \in Pids
    BY <1>4
  <2>2. /\ Readdressed(s, c) \in Seq(Entries)
        /\ Len(Readdressed(s, c)) = Len(s) /\ Len(s) \in Nat /\ DOMAIN s = 1 .. Len(s)
        /\ \A j \in 1 .. Len(s) : Readdressed(s, c)[j].id = s[j].id
    <3>1. \A j \in 1 .. Len(s) : /\ Readdressed(s, c)[j] = [s[j] EXCEPT !.dst = c]
                                 /\ Readdressed(s, c)[j].id = s[j].id
      BY <2>1, ReaddressedEntries
    <3>2. /\ Readdressed(s, c) \in Seq(Entries)
          /\ Len(Readdressed(s, c)) = Len(s) /\ Len(s) \in Nat /\ DOMAIN s = 1 .. Len(s)
      BY <2>1, ReaddressedEntries
    <3> QED
      BY <3>1, <3>2
  <2> QED
    BY <2>2
<1> HIDE DEF m
<1>7. /\ q \o m \in Seq(Entries) /\ Len(q \o m) = Len(q) + Len(m)
      /\ \A j \in 1 .. Len(q) + Len(m) : (q \o m)[j] = IF j <= Len(q) THEN q[j] ELSE m[j - Len(q)]
  <2>1. q \in Seq(Entries) /\ m \in Seq(Entries)
    BY <1>4, <1>6
  <2> QED
    BY <2>1, ConcatProperties, Zenon
<1>8. DOMAIN (q \o m) = 1 .. Len(q) + Len(m) /\ DOMAIN q = 1 .. Len(q) /\ Len(q) \in Nat
  BY <1>4, <1>7, LenProperties
<1>9. CASE p = self_
  <2> SUFFICES ASSUME ~ Returned(c) PROVE ~ Lost(p, i)
    BY <1>1, <1>9 DEF Lost
  <2>1. ~ Returned(c)'
    BY <1>2, <1>3, StillRunning
  <2>2. i \in 1 .. Len(s) /\ saved[p][i].id = s[i].id
    BY <1>6, <1>9 DEF s
  <2>3. /\ Len(q) + i \in 1 .. Len(q) + Len(m)
        /\ ~ (Len(q) + i <= Len(q)) /\ (Len(q) + i) - Len(q) = i
    BY <1>6, <1>8, <2>2
  <2>4. (q \o m)[Len(q) + i] = m[i]
    BY <1>7, <2>3
  <2>5. Len(q) + i \in DOMAIN saved'[c] /\ saved'[c][Len(q) + i].id = saved[p][i].id
    BY <1>5, <1>6, <1>8, <2>2, <2>3, <2>4
  <2> QED
    BY <2>1, <2>5, KeptNext DEF Lost
<1>10. CASE p = c
  <2>1. i \in 1 .. Len(q) /\ q[i] = saved[p][i]
    BY <1>8, <1>10 DEF q
  <2>2. i \in 1 .. Len(q) + Len(m) /\ i <= Len(q)
    BY <1>6, <1>8, <2>1
  <2>3. i \in DOMAIN saved'[p] /\ saved'[p][i] = saved[p][i]
    BY <1>5, <1>7, <1>8, <1>10, <2>1, <2>2
  <2> QED
    BY <1>2, <1>3, <1>10, <2>3, QuietStep
<1>11. CASE p # c /\ p # self_
  BY <1>3, <1>5, <1>11, QuietStep
<1> QED
  BY <1>9, <1>10, <1>11

(* The agent that stops, returns from its procedure or fails to start.       *)
LEMMA EndingStep ==
  ASSUME AgentsInv, TreeInv, Callers, SavedInv, BehalfInv, Stop \/ AtReturnDone \/ StartFails, DropSaved,
         NEW p \in Pids, NEW i \in DOMAIN saved[p], ~ Returned(p)
  PROVE  ~ Lost(p, i)
<1>1. p \in moonagents_ /\ saved[p][i].dst = p /\ saved[p][i].to \in Pids
  <2> DEFINE q == saved[p]
  <2>1. q \in Seq(Entries) /\ p \in moonagents_ /\ q[i].dst = p
    BY DEF SavedInv
  <2>2. i \in DOMAIN q
    OBVIOUS
  <2> HIDE DEF q
  <2>3. q[i] \in Entries
    BY <2>1, <2>2, LenProperties, ElementOfSeq
  <2> QED
    BY <2>1, <2>3 DEF q, Entries
<1>2. SameCaller(p, saved[p][i].to)
  <2>1. SavedBy(p) \in Holders /\ Held[SavedBy(p)] = saved[p]
    BY HolderNames, QueueOf DEF Held
  <2>2. Has(Held, saved[p][i])
    BY <2>1 DEF Has, Held
  <2> QED
    BY <1>1, <2>2 DEF BehalfInv
<1>3. CASE UNCHANGED tree
  <2>1. SamePlace(p) /\ saved'[p] = saved[p]
    BY <1>1, <1>3, PlaceOfTheLiving DEF DropSaved, tree
  <2> QED
    BY <2>1, QuietStep
<1>4. ASSUME NEW r \in Pids, Stopping(r), \A x \in Pids : procedure[x] # r PROVE ~ Lost(p, i)
  <2>1. CASE SamePlace(p) /\ p \in moonagents_'
    BY <2>1, QuietStep DEF DropSaved
  <2>2. CASE saved[p][i].to \notin moonagents_'
    BY <2>2 DEF Lost
  <2> QED
    BY <1>1, <1>2, <1>4, <2>1, <2>2, DyingSaver
<1>5. UNCHANGED tree \/ \E r \in Pids : Stopping(r) /\ \A x \in Pids : procedure[x] # r
  <2>1. CASE Stop
    <3>1. self_ \in Pids
      BY <2>1, RunningFrames DEF Stop
    <3> QED
      BY <2>1, <3>1, NotAProcedure DEF Stop, TreeInv
  <2>2. CASE AtReturnDone
    BY <2>2, ReturnedStops
  <2>3. CASE StartFails
    <3>1. self_ \in Pids
      BY <2>3, RunnerIsAgent DEF StartFails, InScript
    <3> QED
      BY <2>3, <3>1, NotAProcedure DEF StartFails, TreeInv, tree
  <2> QED
    BY <2>1, <2>2, <2>3
<1> QED
  BY <1>3, <1>4, <1>5

LEMMA OutlivingStep ==
  ASSUME AgentsInv, TreeInv, YoungerProcedures, Callers, SavedInv, QueueInv, BehalfInv, EngineNext,
         NEW p \in Pids, NEW i \in DOMAIN saved[p], ~ Returned(p)
  PROVE  ~ Lost(p, i)
<1>1. p \in moonagents_
  BY DEF SavedInv
<1>2. ASSUME SamePlace(p), saved' = saved PROVE ~ Lost(p, i)
  BY <1>2, QuietStep
<1>3. CASE WithoutSignals /\ UNCHANGED signals
  BY <1>1, <1>2, <1>3, PlaceOfTheLiving DEF signals
<1>4. CASE (Stop \/ AtReturnDone \/ StartFails) /\ DropSaved
  BY <1>4, EndingStep
<1>5. ASSUME NEW s \in States, ChangeState(s) PROVE ~ Lost(p, i)
  <2>1. SamePlace(p) /\ self_ \in Pids
    BY <1>1, <1>5, PlaceOfTheLiving, RunningFrames DEF ChangeState, NextState
  <2> QED
    BY <1>2, <1>5, <2>1, RestoringStep DEF ChangeState, signals
<1>6. CASE Return
  BY <1>6, ReturningStep
<1>7. ASSUME NEW id \in Ids, NEW dst \in Pids, NEW priority \in 0 .. PrioLevels,
             Send(id, dst, priority)
      PROVE  ~ Lost(p, i)
  BY <1>1, <1>2, <1>7, PlaceOfTheLiving DEF Send, agentVars
<1>8. CASE Save
  <2> DEFINE q == saved[self_]
             e == [signal_ EXCEPT !.dst = self_]
  <2>1. SamePlace(p) /\ self_ \in Pids
    BY <1>1, <1>8, PlaceOfTheLiving, RunningFrames DEF Save, agentVars
  <2>2. saved' = [saved EXCEPT ![self_] = Append(q, e)]
    BY <1>8 DEF Save
  <2>3. e \in Entries /\ q \in Seq(Entries)
    BY <1>8, <2>1 DEF Save, SavedInv, Entries
  <2> HIDE DEF e
  <2>4. CASE p = self_
    <3>1. saved'[p] = Append(q, e) /\ q = saved[p]
      BY <2>1, <2>2, <2>4 DEF SavedInv
    <3> HIDE DEF q
    <3>2. /\ DOMAIN Append(q, e) = 1 .. Len(q) + 1 /\ DOMAIN q = 1 .. Len(q) /\ Len(q) \in Nat
          /\ \A j \in 1 .. Len(q) : Append(q, e)[j] = q[j]
      BY <2>3, AppendProperties, LenProperties
    <3>3. i \in 1 .. Len(q) /\ i \in 1 .. Len(q) + 1
      BY <3>1, <3>2
    <3>4. i \in DOMAIN saved'[p] /\ saved'[p][i] = saved[p][i]
      BY <3>1, <3>2, <3>3
    <3> QED
      BY <2>1, <3>4, QuietStep
  <2>5. CASE p # self_
    <3>1. saved'[p] = saved[p]
      BY <2>2, <2>5 DEF SavedInv
    <3> QED
      BY <2>1, <3>1, QuietStep
  <2> QED
    BY <2>4, <2>5
<1>9. CASE Restore
  <2>1. SamePlace(p) /\ self_ \in Pids
    BY <1>1, <1>9, PlaceOfTheLiving, RunningFrames DEF Restore, agentVars
  <2> QED
    BY <1>9, <2>1, RestoringStep DEF Restore
<1>10. CASE StartTrigger \/ FinishTransition \/ ScriptRaises
  BY <1>1, <1>2, <1>10, PlaceOfTheLiving DEF StartTrigger, FinishTransition, ScriptRaises
<1>11. CASE FinishTrigger
  <2>1. CASE SystemPid \in ReleaseQueue
    BY <1>11, <2>1, DroppingStep DEF FinishTrigger, EndTrigger, Release, Cleared
  <2>2. CASE SystemPid \notin ReleaseQueue
    BY <1>1, <1>2, <1>11, <2>2, PlaceOfTheLiving DEF FinishTrigger, EndTrigger, Release
  <2> QED
    BY <2>1, <2>2
<1>12. ASSUME NEW e \in Entries, Deliver(e) \/ Discard(e) PROVE ~ Lost(p, i)
  <2>1. CASE Deliver(e)
    BY <1>1, <1>2, <2>1, PlaceOfTheLiving DEF Deliver, Entries
  <2>2. CASE Discard(e)
    BY <1>1, <1>2, <2>2, PlaceOfTheLiving DEF Discard, agentVars
  <2> QED
    BY <1>12, <2>1, <2>2
<1>13. CASE ResetSystem
  BY <1>13, DroppingStep DEF ResetSystem, Reset, Cleared
<1>14. CASE Block
  BY <1>1, <1>2, <1>14, PlaceOfTheLiving DEF Block, agentVars
<1> QED
  BY <1>3, <1>4, <1>5, <1>6, <1>7, <1>8, <1>9, <1>10, <1>11, <1>12, <1>13, <1>14 DEF EngineNext

(* What a procedure has saved is handed over and waits, with the agent that it *)
(* was sent to, for as long as that agent lives; only a hand-over to a caller  *)
(* that has itself returned (its atreturn function runs) may lose it.         *)
THEOREM SavedSignalsOutliveTheProcedure == EngineSpec => SavedOutlivesTheProcedure
<1> DEFINE Inv == /\ AgentsInv /\ TreeInv /\ YoungerProcedures /\ Callers /\ SavedInv /\ QueueInv
                  /\ BehalfInv
           Outlives == \A p \in Pids : \A e \in Range(saved[p]) :
                         ~Returned(p) =>
                           \/ e.id \in Kept'
                           \/ e.to \notin moonagents_'
                           \/ Returned(parent_[p])
<1>1. ASSUME Inv, EngineNext PROVE Outlives
  <2> TAKE p \in Pids
  <2> TAKE e \in Range(saved[p])
  <2>1. PICK i \in DOMAIN saved[p] : e = saved[p][i]
    BY DEF Range
  <2> QED
    BY <1>1, <2>1, OutlivingStep DEF Lost
<1>2. EngineSpec => []Inv
  BY EngineImplementsAgents, CallersInvariant, EngineInvariants, BehalfInvariant, PTL
<1>3. Inv /\ [EngineNext]_engineVars => [Outlives]_engineVars
  BY <1>1
<1> QED
  BY <1>2, <1>3, PTL DEF EngineSpec, SavedOutlivesTheProcedure

=============================================================================
