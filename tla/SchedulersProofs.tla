--------------------------- MODULE SchedulersProofs ---------------------------
(***************************************************************************)
(* Proofs about Schedulers and SchedulerOrder, for any pool of signals and   *)
(* any legal number of priority levels: what SchedSpec keeps, and that       *)
(* OrderSpec implements Rounds.                                              *)
(***************************************************************************)
EXTENDS SchedulerOrder, SequenceTheorems, TLAPS

(* The queues in plain terms, as the solvers see them best: which copy is   *)
(* empty, and what a counter says of its queue.                             *)
FlushedEmpty == Scheduler1 = <<>> /\ \A l \in Levels : PrioSchedulers1[l] = <<>>
PrioEmpty == \A l \in Levels : PrioSchedulers[l] = <<>>

(* The inductive invariant.  The counters speak of the copy being filled, so *)
(* that the swap turns what they say into what norm and prio say of the copy *)
(* being flushed; the flushed copy must be empty at the swap for the counters *)
(* to be right about it when it becomes the copy being filled.               *)
SchedInv ==
  /\ SchedTypeOK
  /\ phase = "idle" => FlushedEmpty
  /\ phase = "flush" => /\ ~norm => Scheduler1 = <<>>
                        /\ ~prio => \A l \in Levels : PrioSchedulers1[l] = <<>>
  /\ NormSignals = Len(Scheduler)
  /\ PrioSignals = 0 <=> PrioEmpty

(* A queue shows its entries: Elements(q) is empty exactly when q is.        *)
LEMMA ElementsEmpty ==
  ASSUME NEW q \in Seq(Signals)
  PROVE  Elements(q) = {} <=> q = <<>>
<1>1. q = <<>> => Elements(q) = {}
  BY DEF Elements
<1>2. ASSUME q # <<>> PROVE Elements(q) # {}
  <2>1. 1 \in DOMAIN q
    BY <1>2, EmptySeq, LenProperties
  <2> QED
    BY <2>1 DEF Elements
<1> QED
  BY <1>1, <1>2

(* The copy being flushed is drained when each of its queues is empty.       *)
LEMMA FlushingEmpty ==
  ASSUME SchedTypeOK
  PROVE  Flushing = {} <=> FlushedEmpty
<1>1. \A l \in Levels : Elements(PrioSchedulers1[l]) = {} <=> PrioSchedulers1[l] = <<>>
  BY ElementsEmpty DEF SchedTypeOK
<1>2. Elements(Scheduler1) = {} <=> Scheduler1 = <<>>
  BY ElementsEmpty DEF SchedTypeOK
<1> QED
  BY <1>1, <1>2 DEF Flushing, FlushedEmpty

(* What the two facts of the runs say is what the inductive invariant says.  *)
LEMMA SchedInvImplies ==
  SchedInv => DrainedBetweenTriggers /\ CountersSeeEveryQueue
<1> SUFFICES ASSUME SchedInv
             PROVE  DrainedBetweenTriggers /\ CountersSeeEveryQueue
  OBVIOUS
<1>1. DrainedBetweenTriggers
  BY FlushingEmpty DEF SchedInv, DrainedBetweenTriggers
<1>2. CountersSeeEveryQueue
  BY DEF SchedInv, SchedTypeOK, CountersSeeEveryQueue, PrioEmpty
<1> QED
  BY <1>1, <1>2

(* Fresh queues are empty and counted as empty.                              *)
LEMMA SchedInitInv == SchedInit => SchedInv
<1> SUFFICES ASSUME SchedInit PROVE SchedInv
  OBVIOUS
<1>1. <<>> \in Seq(Signals) /\ Len(<<>>) = 0
  BY EmptySeq
<1>2. SchedTypeOK
  BY <1>1 DEF SchedInit, SchedTypeOK
<1> QED
  BY <1>1, <1>2 DEF SchedInit, SchedInv, FlushedEmpty, PrioEmpty

(* Pushing keeps the counters in step with the copy being filled.            *)
LEMMA PushInv ==
  ASSUME SchedInv, NEW s \in Signals, NEW priority, Push(s, priority)
  PROVE  SchedInv'
<1>1. CASE PushNormal(s)
  <2>1. Scheduler' \in Seq(Signals) /\ Len(Scheduler') = Len(Scheduler) + 1
    BY <1>1, AppendProperties DEF PushNormal, SchedInv, SchedTypeOK
  <2> QED
    BY <1>1, <2>1
    DEF PushNormal, SchedInv, SchedTypeOK, FlushedEmpty, PrioEmpty, flushing
<1>2. CASE priority \in Levels /\ PushPrio(s, priority)
  <2>1. Append(PrioSchedulers[priority], s) \in Seq(Signals)
    BY <1>2, AppendProperties DEF SchedInv, SchedTypeOK
  <2>2. Append(PrioSchedulers[priority], s) # <<>>
    BY <1>2, AppendProperties DEF SchedInv, SchedTypeOK
  <2>3. PrioSchedulers'[priority] # <<>>
    BY <1>2, <2>2 DEF PushPrio, SchedInv, SchedTypeOK
  <2>4. PrioSchedulers' \in [Levels -> Seq(Signals)]
    BY <1>2, <2>1 DEF PushPrio, SchedInv, SchedTypeOK
  <2>5. PrioSignals' \in Nat /\ PrioSignals' # 0
    BY <1>2 DEF PushPrio, SchedInv, SchedTypeOK
  <2> QED
    BY <1>2, <2>3, <2>4, <2>5
    DEF PushPrio, SchedInv, SchedTypeOK, FlushedEmpty, PrioEmpty, flushing
<1> QED
  BY <1>1, <1>2 DEF Push

(* Trigger() finds in the flushed copy nothing but what norm and prio cover. *)
LEMMA BeginTriggerInv ==
  ASSUME SchedInv, BeginTrigger
  PROVE  SchedInv'
<1>1. norm' = (NormSignals > 0) /\ prio' = (PrioSignals > 0) /\ phase' = "flush"
      /\ phase = "idle" /\ FlushedEmpty
  BY DEF BeginTrigger, SchedInv
<1>2. /\ ~(NormSignals > 0) => NormSignals = 0
      /\ ~(PrioSignals > 0) => PrioSignals = 0
  BY DEF SchedInv, SchedTypeOK
<1>3. CASE norm' \/ prio'
  <2>1. /\ Scheduler' = Scheduler1 /\ Scheduler1' = Scheduler
        /\ PrioSchedulers' = PrioSchedulers1 /\ PrioSchedulers1' = PrioSchedulers
        /\ NormSignals' = 0 /\ PrioSignals' = 0
    BY <1>3 DEF BeginTrigger
  <2>2. SchedTypeOK'
    BY <1>1, <2>1 DEF SchedInv, SchedTypeOK
  <2>3. NormSignals' = Len(Scheduler') /\ (PrioSignals' = 0 <=> PrioEmpty')
    BY <1>1, <2>1 DEF FlushedEmpty, PrioEmpty
  <2>4. ~norm' => Scheduler1' = <<>>
    <3>1. ~norm' => NormSignals = 0
      BY <1>1, <1>2, Zenon
    <3>2. Scheduler \in Seq(Signals) /\ NormSignals = Len(Scheduler)
      BY DEF SchedInv, SchedTypeOK
    <3> QED
      BY <3>1, <3>2, <2>1, EmptySeq
  <2>5. ~prio' => \A l \in Levels : PrioSchedulers1'[l] = <<>>
    <3>1. ~prio' => PrioSignals = 0
      BY <1>1, <1>2, Zenon
    <3> QED
      BY <3>1, <2>1 DEF SchedInv, PrioEmpty
  <2> QED
    BY <1>1, <2>2, <2>3, <2>4, <2>5 DEF SchedInv
<1>4. CASE ~(norm' \/ prio')
  <2>1. UNCHANGED <<filling, Scheduler1, PrioSchedulers1>>
    BY <1>4 DEF BeginTrigger
  <2> QED
    BY <1>1, <1>4, <2>1 DEF SchedInv, SchedTypeOK, filling, FlushedEmpty, PrioEmpty
<1> QED
  BY <1>3, <1>4

(* A signal is taken from the copy being flushed, which is not counted.      *)
LEMMA PopInv ==
  ASSUME SchedInv, NEW s, Pop(s)
  PROVE  SchedInv'
<1>1. CASE PopPrio(s)
  <2>1. PICK l \in Levels :
          /\ PrioSchedulers1[l] # <<>>
          /\ PrioSchedulers1' = [PrioSchedulers1 EXCEPT ![l] = Tail(@)]
    BY <1>1 DEF PopPrio
  <2>2. Tail(PrioSchedulers1[l]) \in Seq(Signals)
    BY <2>1, HeadTailProperties DEF SchedInv, SchedTypeOK
  <2>3. PrioSchedulers1' \in [Levels -> Seq(Signals)]
    BY <2>1, <2>2 DEF SchedInv, SchedTypeOK
  <2> QED
    BY <1>1, <2>3 DEF PopPrio, SchedInv, SchedTypeOK, filling, FlushedEmpty, PrioEmpty
<1>2. CASE PopNormal(s)
  <2>1. Scheduler1' \in Seq(Signals)
    BY <1>2, HeadTailProperties DEF PopNormal, SchedInv, SchedTypeOK
  <2> QED
    BY <1>2, <2>1 DEF PopNormal, SchedInv, SchedTypeOK, filling, FlushedEmpty, PrioEmpty
<1> QED
  BY <1>1, <1>2 DEF Pop

(* The loops of Trigger end only when the copy is drained.                   *)
LEMMA EndTriggerInv ==
  ASSUME SchedInv, EndTrigger
  PROVE  SchedInv'
  BY DEF EndTrigger, FlushDone, PrioPending, SchedInv, SchedTypeOK, filling, FlushedEmpty, PrioEmpty

(* The invariant is inductive: one case for each action.                     *)
LEMMA SchedNextInv == SchedInv /\ [SchedNext]_schedVars => SchedInv'
<1> SUFFICES ASSUME SchedInv, [SchedNext]_schedVars
             PROVE  SchedInv'
  OBVIOUS
<1>1. ASSUME NEW s \in Signals, NEW priority \in 0 .. Normal, Send(s, priority)
      PROVE  SchedInv'
  BY <1>1, PushInv DEF Send
<1>2. ASSUME NEW s \in Signals, Pop(s)
      PROVE  SchedInv'
  BY <1>2, PopInv
<1>3. CASE BeginTrigger
  BY <1>3, BeginTriggerInv
<1>4. CASE EndTrigger
  BY <1>4, EndTriggerInv
<1>5. CASE UNCHANGED schedVars
  BY <1>5 DEF schedVars, filling, flushing, SchedInv, SchedTypeOK, FlushedEmpty, PrioEmpty
<1> QED
  BY <1>1, <1>2, <1>3, <1>4, <1>5 DEF SchedNext

(* The schedulers' variables keep their types: the counters of engine.lua:90 *)
(* never go negative and every queue holds signals only.                     *)
THEOREM SchedTypeCorrect == SchedSpec => []SchedTypeOK
<1>1. SchedInv => SchedTypeOK
  BY DEF SchedInv
<1> QED
  BY <1>1, SchedInitInv, SchedNextInv, PTL DEF SchedSpec

(* No signal is stranded in a copy that Trigger() will not flush.            *)
THEOREM NothingStranded == SchedSpec => []DrainedBetweenTriggers
  BY SchedInitInv, SchedNextInv, SchedInvImplies, PTL DEF SchedSpec

(* The two counters by which Trigger() decides what to do (engine.lua:776)   *)
(* never overlook a queue.                                                   *)
THEOREM NothingOverlooked == SchedSpec => []CountersSeeEveryQueue
  BY SchedInitInv, SchedNextInv, SchedInvImplies, PTL DEF SchedSpec

-----------------------------------------------------------------------------
(* The schedulers implement Rounds.  Every step is first put in terms of the *)
(* queues of the levels, Fill and Flush, in which both parts of the          *)
(* argument are about one queue.                                            *)

AllLevels == 1 .. Normal

(* Each queue lists its signals once, oldest first, and no signal is in two  *)
(* queues: what is first in a queue is then the oldest of its level.         *)
Sorted(q, order) ==
  \A i, j \in DOMAIN q : i < j => <<q[i], q[j]>> \in order /\ q[i] # q[j]

QueuesSorted ==
  /\ \A l \in AllLevels : Sorted(Fill(l), older) /\ Sorted(Flush(l), older)
  /\ \A k, l \in AllLevels :
       /\ Elements(Fill(k)) \cap Elements(Flush(l)) = {}
       /\ k # l => Elements(Fill(k)) \cap Elements(Fill(l)) = {}
       /\ k # l => Elements(Flush(k)) \cap Elements(Flush(l)) = {}

OrderInv == SchedInv /\ QueuesSorted

-----------------------------------------------------------------------------
(* One queue.                                                               *)

(* A push adds the signal to what the queue holds ...                       *)
LEMMA ElementsAppend ==
  ASSUME NEW q \in Seq(Signals), NEW s \in Signals
  PROVE  Elements(Append(q, s)) = Elements(q) \cup {s}
<1> DEFINE a == Append(q, s)
<1>1. /\ DOMAIN a = 1 .. Len(q) + 1 /\ DOMAIN q = 1 .. Len(q) /\ Len(q) \in Nat
      /\ a[Len(q) + 1] = s
      /\ \A i \in 1 .. Len(q) : a[i] = q[i]
  BY AppendProperties, LenProperties
<1>2. \A i \in 1 .. Len(q) + 1 : i \in 1 .. Len(q) \/ i = Len(q) + 1
  BY <1>1
<1>3. 1 .. Len(q) \subseteq 1 .. Len(q) + 1 /\ Len(q) + 1 \in 1 .. Len(q) + 1
  BY <1>1
<1> HIDE DEF a
<1> QED
  BY <1>1, <1>2, <1>3 DEF Elements, a

(* ... and the queue stays sorted if the signal is younger than all of it.   *)
LEMMA SortedAppend ==
  ASSUME NEW q \in Seq(Signals), NEW s \in Signals, NEW order, NEW order1,
         Sorted(q, order), s \notin Elements(q),
         order \subseteq order1, Elements(q) \X {s} \subseteq order1
  PROVE  Sorted(Append(q, s), order1)
<1> DEFINE a == Append(q, s)
<1>1. /\ DOMAIN a = 1 .. Len(q) + 1 /\ DOMAIN q = 1 .. Len(q) /\ Len(q) \in Nat
      /\ a[Len(q) + 1] = s
      /\ \A i \in 1 .. Len(q) : a[i] = q[i]
  BY AppendProperties, LenProperties
<1> HIDE DEF a
<1> SUFFICES ASSUME NEW i \in DOMAIN a, NEW j \in DOMAIN a, i < j
             PROVE  <<a[i], a[j]>> \in order1 /\ a[i] # a[j]
  BY DEF Sorted, a
<1>2. i \in 1 .. Len(q)
  BY <1>1
<1>3. CASE j \in 1 .. Len(q)
  BY <1>1, <1>2, <1>3 DEF Sorted
<1>4. CASE j = Len(q) + 1
  <2>1. a[i] \in Elements(q) /\ a[j] = s
    BY <1>1, <1>2, <1>4 DEF Elements
  <2> QED
    BY <2>1
<1> QED
  BY <1>1, <1>3, <1>4

(* A pop takes the first signal and no other.                               *)
LEMMA ElementsTail ==
  ASSUME NEW q \in Seq(Signals), NEW order, q # <<>>, Sorted(q, order)
  PROVE  Elements(Tail(q)) = Elements(q) \ {Head(q)} /\ Head(q) \in Elements(q)
<1> DEFINE t == Tail(q)
<1>1. /\ DOMAIN q = 1 .. Len(q) /\ Len(q) \in Nat \ {0}
      /\ DOMAIN t = 1 .. Len(q) - 1
      /\ Head(q) = q[1]
      /\ \A i \in 1 .. Len(q) - 1 : t[i] = q[i + 1]
  BY HeadTailProperties, LenProperties, EmptySeq
<1> HIDE DEF t
<1>2. Elements(t) = {q[i + 1] : i \in 1 .. Len(q) - 1}
  BY <1>1 DEF Elements
<1>3. \A i \in 1 .. Len(q) : i = 1 \/ (i - 1 \in 1 .. Len(q) - 1 /\ i = (i - 1) + 1)
  BY <1>1
<1>5. 1 \in 1 .. Len(q) /\ \A i \in 1 .. Len(q) - 1 : i + 1 \in 1 .. Len(q) /\ 1 < i + 1
  BY <1>1
<1>4. \A i \in 1 .. Len(q) - 1 : i + 1 \in 1 .. Len(q) /\ q[1] # q[i + 1]
  BY <1>1, <1>5 DEF Sorted
<1>6. Elements(t) \subseteq Elements(q) \ {q[1]}
  BY <1>1, <1>2, <1>4 DEF Elements
<1>7. Elements(q) \ {q[1]} \subseteq Elements(t)
  <2> SUFFICES ASSUME NEW i \in 1 .. Len(q), q[i] # q[1]
               PROVE  q[i] \in Elements(t)
    BY <1>1 DEF Elements
  <2>1. i - 1 \in 1 .. Len(q) - 1 /\ (i - 1) + 1 = i
    BY <1>3
  <2>2. q[i] = q[(i - 1) + 1]
    BY <2>1
  <2> QED
    BY <1>2, <2>1, <2>2
<1> QED
  BY <1>1, <1>5, <1>6, <1>7 DEF Elements, t

(* What is left stays sorted, also in an order that forgets the signal.      *)
LEMMA SortedTail ==
  ASSUME NEW q \in Seq(Signals), NEW order, q # <<>>, Sorted(q, order)
  PROVE  Sorted(Tail(q), {p \in order : p[1] # Head(q) /\ p[2] # Head(q)})
<1> DEFINE t == Tail(q)
<1>1. /\ DOMAIN q = 1 .. Len(q) /\ Len(q) \in Nat \ {0}
      /\ DOMAIN t = 1 .. Len(q) - 1
      /\ Head(q) = q[1]
      /\ \A i \in 1 .. Len(q) - 1 : t[i] = q[i + 1]
  BY HeadTailProperties, LenProperties, EmptySeq
<1> HIDE DEF t
<1> SUFFICES ASSUME NEW i \in DOMAIN t, NEW j \in DOMAIN t, i < j
             PROVE  /\ <<t[i], t[j]>> \in order /\ t[i] # t[j]
                    /\ t[i] # q[1] /\ t[j] # q[1]
  BY <1>1 DEF Sorted, t
<1>2. /\ i + 1 \in 1 .. Len(q) /\ j + 1 \in 1 .. Len(q) /\ 1 \in 1 .. Len(q)
      /\ i + 1 < j + 1 /\ 1 < i + 1 /\ 1 < j + 1
  BY <1>1
<1>3. t[i] = q[i + 1] /\ t[j] = q[j + 1]
  BY <1>1
<1> QED
  BY <1>1, <1>2, <1>3 DEF Sorted

(* A queue without the signal does not notice that it is forgotten.          *)
LEMMA SortedForget ==
  ASSUME NEW q, NEW order, NEW s, Sorted(q, order), s \notin Elements(q)
  PROVE  Sorted(q, {p \in order : p[1] # s /\ p[2] # s})
  BY DEF Sorted, Elements

(* The first of a sorted queue is older than the others.                     *)
LEMMA HeadIsOldest ==
  ASSUME NEW q \in Seq(Signals), NEW order, q # <<>>, Sorted(q, order)
  PROVE  \A t \in Elements(q) \ {Head(q)} : <<Head(q), t>> \in order
<1>1. DOMAIN q = 1 .. Len(q) /\ Len(q) \in Nat \ {0} /\ Head(q) = q[1]
  BY HeadTailProperties, LenProperties, EmptySeq
<1> SUFFICES ASSUME NEW i \in DOMAIN q, q[i] # q[1]
             PROVE  <<q[1], q[i]>> \in order
  BY <1>1 DEF Elements
<1>2. 1 \in DOMAIN q /\ 1 < i
  BY <1>1
<1> QED
  BY <1>2 DEF Sorted

(* A larger order sorts what a smaller one does; an empty queue is sorted.   *)
LEMMA SortedMore ==
  ASSUME NEW q, NEW order, NEW order1, Sorted(q, order), order \subseteq order1
  PROVE  Sorted(q, order1)
  BY DEF Sorted

LEMMA EmptyQueue ==
  ASSUME NEW order PROVE Sorted(<<>>, order) /\ Elements(<<>>) = {}
<1>1. DOMAIN <<>> = {}
  BY EmptySeq, LenProperties
<1> QED
  BY <1>1 DEF Sorted, Elements

-----------------------------------------------------------------------------
(* The steps in terms of the queues of the levels.                          *)

AllQueues == \A l \in AllLevels : Fill(l) \in Seq(Signals) /\ Flush(l) \in Seq(Signals)

LEMMA LevelFacts ==
  /\ Normal \in AllLevels /\ Normal \notin Levels /\ Levels \subseteq AllLevels
  /\ \A l \in AllLevels : l \in Levels \/ l = Normal
  /\ \A l \in Levels : l < Normal
  BY PrioLevelsAssumption DEF AllLevels, Levels, Normal

LEMMA QueueTypes == ASSUME SchedTypeOK PROVE AllQueues
  BY LevelFacts DEF SchedTypeOK, AllQueues, Fill, Flush

LEMMA OutstandingIs ==
  Outstanding = UNION {Elements(Flush(l)) \cup Elements(Fill(l)) : l \in AllLevels}
<1>1. Scheduled = UNION {Elements(Fill(l)) : l \in AllLevels}
  BY LevelFacts DEF Scheduled, Fill
<1>2. Flushing = UNION {Elements(Flush(l)) : l \in AllLevels}
  BY LevelFacts DEF Flushing, Flush
<1> QED
  BY <1>1, <1>2 DEF Outstanding

(* A push appends to the queue of one level.                                *)
LEMMA PushIs ==
  ASSUME SchedTypeOK, NEW s \in Signals, NEW priority, Push(s, priority)
  PROVE  /\ \E m \in AllLevels :
              /\ Fill(m)' = Append(Fill(m), s)
              /\ \A l \in AllLevels \ {m} : Fill(l)' = Fill(l)
         /\ \A l \in AllLevels : Flush(l)' = Flush(l)
         /\ phase' = phase
<1>1. CASE PushNormal(s)
  <2>1. Fill(Normal)' = Append(Fill(Normal), s)
    BY <1>1 DEF PushNormal, Fill
  <2>2. \A l \in AllLevels \ {Normal} : Fill(l)' = Fill(l)
    BY <1>1 DEF PushNormal, Fill
  <2>3. \A l \in AllLevels : Flush(l)' = Flush(l)
    BY <1>1 DEF PushNormal, flushing, Flush
  <2> QED
    BY <1>1, <2>1, <2>2, <2>3, LevelFacts DEF PushNormal, flushing
<1>2. CASE priority \in Levels /\ PushPrio(s, priority)
  <2>1. Fill(priority)' = Append(Fill(priority), s)
    BY <1>2, LevelFacts DEF PushPrio, Fill, SchedTypeOK
  <2>2. \A l \in AllLevels \ {priority} : Fill(l)' = Fill(l)
    BY <1>2, LevelFacts DEF PushPrio, Fill, SchedTypeOK
  <2>3. \A l \in AllLevels : Flush(l)' = Flush(l)
    BY <1>2 DEF PushPrio, flushing, Flush
  <2> QED
    BY <1>2, <2>1, <2>2, <2>3, LevelFacts DEF PushPrio, flushing
<1> QED
  BY <1>1, <1>2 DEF Push

(* A pop takes the first signal of the first level that holds any.           *)
LEMMA PopIs ==
  ASSUME SchedInv, NEW s, Pop(s)
  PROVE  /\ \E m \in AllLevels :
              /\ Flush(m) # <<>> /\ s = Head(Flush(m))
              /\ Flush(m)' = Tail(Flush(m))
              /\ \A l \in AllLevels \ {m} : Flush(l)' = Flush(l)
              /\ \A l \in AllLevels : l < m => Flush(l) = <<>>
         /\ \A l \in AllLevels : Fill(l)' = Fill(l)
         /\ phase = "flush" /\ phase' = phase
<1>1. CASE PopPrio(s)
  <2>1. PICK m \in Levels :
          /\ PrioSchedulers1[m] # <<>>
          /\ \A k \in Levels : k < m => PrioSchedulers1[k] = <<>>
          /\ s = Head(PrioSchedulers1[m])
          /\ PrioSchedulers1' = [PrioSchedulers1 EXCEPT ![m] = Tail(@)]
    BY <1>1 DEF PopPrio
  <2>2. m \in AllLevels /\ Flush(m) = PrioSchedulers1[m]
    BY LevelFacts DEF Flush
  <2>3. Flush(m)' = Tail(Flush(m))
    BY <2>1, LevelFacts DEF Flush, SchedInv, SchedTypeOK
  <2>4. \A l \in AllLevels \ {m} : Flush(l)' = Flush(l)
    BY <1>1, <2>1, LevelFacts DEF PopPrio, Flush, SchedInv, SchedTypeOK
  <2>5. \A l \in AllLevels : l < m => Flush(l) = <<>>
    <3>1. \A l \in AllLevels : l < m => l \in Levels /\ l # Normal
      BY PrioLevelsAssumption DEF AllLevels, Levels, Normal
    <3> QED
      BY <2>1, <3>1 DEF Flush
  <2>6. \A l \in AllLevels : Fill(l)' = Fill(l)
    BY <1>1 DEF PopPrio, filling, Fill
  <2> QED
    BY <1>1, <2>1, <2>2, <2>3, <2>4, <2>5, <2>6 DEF PopPrio
<1>2. CASE PopNormal(s)
  <2>1. Flush(Normal) # <<>> /\ s = Head(Flush(Normal)) /\ Flush(Normal)' = Tail(Flush(Normal))
    BY <1>2 DEF PopNormal, Flush
  <2>2. \A l \in Levels : PrioSchedulers1[l] = <<>>
    BY <1>2 DEF PopNormal, PrioPending, SchedInv
  <2>3. \A l \in AllLevels : l < Normal => Flush(l) = <<>>
    <3>1. \A l \in AllLevels : l < Normal => l \in Levels /\ l # Normal
      BY PrioLevelsAssumption DEF AllLevels, Levels, Normal
    <3> QED
      BY <2>2, <3>1 DEF Flush
  <2>4. /\ \A l \in AllLevels \ {Normal} : Flush(l)' = Flush(l)
        /\ \A l \in AllLevels : Fill(l)' = Fill(l)
    BY <1>2 DEF PopNormal, filling, Fill, Flush
  <2> QED
    BY <1>2, <2>1, <2>3, <2>4, LevelFacts DEF PopNormal
<1> QED
  BY <1>1, <1>2 DEF Pop

(* The swap moves all queues, also when Trigger() finds that there is nothing *)
(* to swap: then all are empty.                                              *)
LEMMA BeginTriggerIs ==
  ASSUME SchedInv, BeginTrigger
  PROVE  /\ \A l \in AllLevels : Flush(l)' = Fill(l) /\ Fill(l)' = <<>>
         /\ phase = "idle" /\ phase' = "flush"
<1>1. phase = "idle" /\ phase' = "flush" /\ FlushedEmpty
  BY DEF BeginTrigger, SchedInv
<1>2. CASE norm' \/ prio'
  BY <1>1, <1>2, LevelFacts DEF BeginTrigger, Fill, Flush, FlushedEmpty
<1>3. CASE ~(norm' \/ prio')
  <2>1. ~(NormSignals > 0) /\ ~(PrioSignals > 0) /\ UNCHANGED <<filling, Scheduler1, PrioSchedulers1>>
    BY <1>3 DEF BeginTrigger
  <2>2. NormSignals = 0 /\ PrioSignals = 0
    BY <2>1 DEF SchedInv, SchedTypeOK
  <2>3. Scheduler = <<>> /\ PrioEmpty
    BY <2>2, EmptySeq DEF SchedInv, SchedTypeOK
  <2> QED
    BY <1>1, <2>1, <2>3, LevelFacts DEF filling, Fill, Flush, FlushedEmpty, PrioEmpty
<1> QED
  BY <1>1, <1>2, <1>3

(* The flush ends when all levels are drained.                              *)
LEMMA EndTriggerIs ==
  ASSUME SchedInv, EndTrigger
  PROVE  /\ \A l \in AllLevels : Flush(l) = <<>> /\ Flush(l)' = Flush(l) /\ Fill(l)' = Fill(l)
         /\ phase = "flush" /\ phase' = "idle"
<1>1. Scheduler1 = <<>> /\ \A l \in Levels : PrioSchedulers1[l] = <<>>
  BY DEF EndTrigger, FlushDone, PrioPending, SchedInv
<1> QED
  BY <1>1, LevelFacts DEF EndTrigger, FlushDone, filling, Fill, Flush

-----------------------------------------------------------------------------
(* The order of the queues is kept by every step.                           *)

LEMMA SendSorted ==
  ASSUME OrderInv, NEW s \in Signals, NEW priority, OSend(s, priority)
  PROVE  QueuesSorted'
<1>1. s \notin Outstanding /\ older' = older \cup (Outstanding \X {s}) /\ Push(s, priority)
  BY DEF OSend, Send
<1>2. PICK m \in AllLevels :
        /\ Fill(m)' = Append(Fill(m), s)
        /\ \A l \in AllLevels \ {m} : Fill(l)' = Fill(l)
  BY <1>1, PushIs DEF OrderInv, SchedInv
<1>3. \A l \in AllLevels : Flush(l)' = Flush(l)
  BY <1>1, PushIs DEF OrderInv, SchedInv
<1>4. AllQueues
  BY QueueTypes DEF OrderInv, SchedInv
<1>5. \A l \in AllLevels : Elements(Fill(l)) \subseteq Outstanding /\ Elements(Flush(l)) \subseteq Outstanding
  BY OutstandingIs
<1>6. Elements(Fill(m)') = Elements(Fill(m)) \cup {s}
  BY <1>2, <1>4, ElementsAppend DEF AllQueues
<1>7. \A l \in AllLevels : Sorted(Flush(l)', older')
  BY <1>1, <1>3, SortedMore DEF OrderInv, QueuesSorted
<1>8. \A l \in AllLevels \ {m} : Sorted(Fill(l)', older')
  BY <1>1, <1>2, SortedMore DEF OrderInv, QueuesSorted
<1>9. Sorted(Fill(m)', older')
  <2>1. Elements(Fill(m)) \X {s} \subseteq older' /\ s \notin Elements(Fill(m))
    BY <1>1, <1>5
  <2>2. Sorted(Fill(m), older) /\ Fill(m) \in Seq(Signals) /\ older \subseteq older'
    BY <1>1, <1>4 DEF OrderInv, QueuesSorted, AllQueues
  <2> QED
    BY <1>2, <2>1, <2>2, SortedAppend
<1>10. \A l \in AllLevels : s \notin Elements(Fill(l)) /\ s \notin Elements(Flush(l))
  BY <1>1, <1>5
<1>11. \A k, l \in AllLevels :
         /\ Elements(Fill(k)') \cap Elements(Flush(l)') = {}
         /\ k # l => Elements(Fill(k)') \cap Elements(Fill(l)') = {}
         /\ k # l => Elements(Flush(k)') \cap Elements(Flush(l)') = {}
  <2> TAKE k, l \in AllLevels
  <2>1. /\ Elements(Fill(k)') \subseteq Elements(Fill(k)) \cup (IF k = m THEN {s} ELSE {})
        /\ Elements(Fill(l)') \subseteq Elements(Fill(l)) \cup (IF l = m THEN {s} ELSE {})
    BY <1>2, <1>6
  <2> QED
    BY <1>3, <1>10, <2>1 DEF OrderInv, QueuesSorted
<1> QED
  BY <1>7, <1>8, <1>9, <1>11 DEF QueuesSorted

LEMMA PopSorted ==
  ASSUME OrderInv, NEW s \in Signals, OPop(s)
  PROVE  QueuesSorted'
<1>1. older' = {p \in older : p[1] # s /\ p[2] # s} /\ Pop(s)
  BY DEF OPop
<1>2. PICK m \in AllLevels :
        /\ Flush(m) # <<>> /\ s = Head(Flush(m))
        /\ Flush(m)' = Tail(Flush(m))
        /\ \A l \in AllLevels \ {m} : Flush(l)' = Flush(l)
  BY <1>1, PopIs DEF OrderInv
<1>3. \A l \in AllLevels : Fill(l)' = Fill(l)
  BY <1>1, PopIs DEF OrderInv
<1>4. Flush(m) \in Seq(Signals) /\ Sorted(Flush(m), older)
  BY QueueTypes DEF OrderInv, SchedInv, AllQueues, QueuesSorted
<1>5. Elements(Flush(m)') = Elements(Flush(m)) \ {s} /\ s \in Elements(Flush(m))
  BY <1>2, <1>4, ElementsTail
<1>6. Sorted(Flush(m)', older')
  BY <1>1, <1>2, <1>4, SortedTail
<1>7. \A l \in AllLevels \ {m} : Sorted(Flush(l)', older')
  <2> TAKE l \in AllLevels \ {m}
  <2>1. Sorted(Flush(l), older) /\ s \notin Elements(Flush(l))
    BY <1>5 DEF OrderInv, QueuesSorted
  <2> QED
    BY <1>1, <1>2, <2>1, SortedForget
<1>8. \A l \in AllLevels : Sorted(Fill(l)', older')
  <2> TAKE l \in AllLevels
  <2>1. Sorted(Fill(l), older) /\ s \notin Elements(Fill(l))
    BY <1>5 DEF OrderInv, QueuesSorted
  <2> QED
    BY <1>1, <1>3, <2>1, SortedForget
<1>9. \A l \in AllLevels : Elements(Flush(l)') \subseteq Elements(Flush(l))
  BY <1>2, <1>5
<1>10. \A k, l \in AllLevels :
         /\ Elements(Fill(k)') \cap Elements(Flush(l)') = {}
         /\ k # l => Elements(Fill(k)') \cap Elements(Fill(l)') = {}
         /\ k # l => Elements(Flush(k)') \cap Elements(Flush(l)') = {}
  BY <1>3, <1>9 DEF OrderInv, QueuesSorted
<1> QED
  BY <1>6, <1>7, <1>8, <1>10 DEF QueuesSorted

LEMMA BeginSorted == ASSUME OrderInv, OBegin PROVE QueuesSorted'
<1>1. older' = older /\ \A l \in AllLevels : Flush(l)' = Fill(l) /\ Fill(l)' = <<>>
  BY BeginTriggerIs DEF OBegin, OrderInv
<1> QED
  BY <1>1, EmptyQueue DEF OrderInv, QueuesSorted

LEMMA EndSorted == ASSUME OrderInv, OEnd PROVE QueuesSorted'
<1>1. older' = older /\ \A l \in AllLevels : Flush(l)' = Flush(l) /\ Fill(l)' = Fill(l)
  BY EndTriggerIs DEF OEnd, OrderInv
<1> QED
  BY <1>1 DEF OrderInv, QueuesSorted

LEMMA OrderInitInv == OrderInit => OrderInv
<1> SUFFICES ASSUME OrderInit PROVE OrderInv
  OBVIOUS
<1>1. \A l \in AllLevels : Fill(l) = <<>> /\ Flush(l) = <<>>
  BY LevelFacts DEF OrderInit, SchedInit, Fill, Flush
<1>2. QueuesSorted
  BY <1>1, EmptyQueue DEF QueuesSorted
<1> QED
  BY <1>2, SchedInitInv DEF OrderInit, OrderInv

LEMMA OrderNextInv == OrderInv /\ [OrderNext]_orderVars => OrderInv'
<1> SUFFICES ASSUME OrderInv, [OrderNext]_orderVars
             PROVE  OrderInv'
  OBVIOUS
<1>1. SchedInv'
  <2>1. [SchedNext]_schedVars
    BY DEF OrderNext, OSend, OPop, OBegin, OEnd, orderVars, SchedNext
  <2> QED
    BY <2>1, SchedNextInv DEF OrderInv
<1>2. QueuesSorted'
  <2>1. CASE UNCHANGED orderVars
    <3>1. older' = older /\ \A l \in AllLevels : Flush(l)' = Flush(l) /\ Fill(l)' = Fill(l)
      BY <2>1 DEF orderVars, schedVars, filling, flushing, Fill, Flush
    <3> QED
      BY <3>1 DEF OrderInv, QueuesSorted
  <2> QED
    BY <2>1, SendSorted, PopSorted, BeginSorted, EndSorted DEF OrderNext
<1> QED
  BY <1>1, <1>2 DEF OrderInv

-----------------------------------------------------------------------------
(* Every step is a step of Rounds.                                          *)

current == [l \in 1 .. Normal |-> Elements(Flush(l))]
later == [l \in 1 .. Normal |-> Elements(Fill(l))]
open == phase = "flush"

LEMMA LevelsOfRounds == R!AllLevels = AllLevels
  BY DEF R!AllLevels, AllLevels, Normal

LEMMA PendingIs == R!Pending = Outstanding
<1>1. R!Pending = UNION {current[l] \cup later[l] : l \in R!AllLevels}
  BY DEF R!Pending, current, later
<1>2. \A l \in AllLevels : current[l] = Elements(Flush(l)) /\ later[l] = Elements(Fill(l))
  BY DEF current, later, AllLevels
<1> QED
  BY <1>1, <1>2, LevelsOfRounds, OutstandingIs

(* A send is a send to some level of the next round.                        *)
LEMMA SendIsSend ==
  ASSUME OrderInv, NEW s \in Signals, NEW priority, OSend(s, priority)
  PROVE  R!SendSignal(s)
<1>1. s \notin Outstanding /\ older' = older \cup (Outstanding \X {s}) /\ Push(s, priority)
  BY DEF OSend, Send
<1>2. PICK m \in AllLevels :
        /\ Fill(m)' = Append(Fill(m), s)
        /\ \A l \in AllLevels \ {m} : Fill(l)' = Fill(l)
  BY <1>1, PushIs DEF OrderInv, SchedInv
<1>3. (\A l \in AllLevels : Flush(l)' = Flush(l)) /\ phase' = phase
  BY <1>1, PushIs DEF OrderInv, SchedInv
<1>4. Elements(Fill(m)') = Elements(Fill(m)) \cup {s}
  BY <1>2, QueueTypes, ElementsAppend DEF OrderInv, SchedInv, AllQueues
<1>5. later' = [later EXCEPT ![m] = @ \cup {s}]
  BY <1>2, <1>4 DEF later, AllLevels
<1>6. current' = current /\ open' = open
  BY <1>3 DEF current, open, AllLevels
<1> QED
  BY <1>1, <1>5, <1>6, PendingIs, LevelsOfRounds DEF R!SendSignal, current, later, open

(* A pop is the delivery of the oldest signal of the highest level.          *)
LEMMA PopIsDeliver ==
  ASSUME OrderInv, NEW s \in Signals, OPop(s)
  PROVE  R!Deliver(s)
<1>1. older' = {p \in older : p[1] # s /\ p[2] # s} /\ Pop(s)
  BY DEF OPop
<1>2. PICK m \in AllLevels :
        /\ Flush(m) # <<>> /\ s = Head(Flush(m))
        /\ Flush(m)' = Tail(Flush(m))
        /\ \A l \in AllLevels \ {m} : Flush(l)' = Flush(l)
        /\ \A l \in AllLevels : l < m => Flush(l) = <<>>
  BY <1>1, PopIs DEF OrderInv
<1>3. (\A l \in AllLevels : Fill(l)' = Fill(l)) /\ phase = "flush" /\ phase' = phase
  BY <1>1, PopIs DEF OrderInv
<1>4. Flush(m) \in Seq(Signals) /\ Sorted(Flush(m), older)
  BY QueueTypes DEF OrderInv, SchedInv, AllQueues, QueuesSorted
<1>5. Elements(Flush(m)') = Elements(Flush(m)) \ {s} /\ s \in Elements(Flush(m))
  BY <1>2, <1>4, ElementsTail
<1>6. \A t \in Elements(Flush(m)) \ {s} : <<s, t>> \in older
  BY <1>2, <1>4, HeadIsOldest
<1>7. \A l \in AllLevels : current[l] = Elements(Flush(l))
  BY DEF current, AllLevels
<1>8. \A l \in AllLevels : l < m => current[l] = {}
  BY <1>2, <1>7, EmptyQueue
<1>9. current' = [current EXCEPT ![m] = @ \ {s}]
  BY <1>2, <1>5 DEF current, AllLevels
<1>10. later' = later /\ open /\ open' = open
  BY <1>3 DEF later, open, AllLevels
<1>11. s \in current[m] /\ \A t \in current[m] \ {s} : <<s, t>> \in older
  BY <1>5, <1>6, <1>7
<1> QED
  BY <1>1, <1>8, <1>9, <1>10, <1>11, LevelsOfRounds DEF R!Deliver, current, later, open

LEMMA BeginIsOpen == ASSUME OrderInv, OBegin PROVE R!OpenRound
<1>1. /\ older' = older /\ phase = "idle" /\ phase' = "flush"
      /\ \A l \in AllLevels : Flush(l)' = Fill(l) /\ Fill(l)' = <<>>
  BY BeginTriggerIs DEF OBegin, OrderInv
<1>2. current' = later /\ later' = [l \in R!AllLevels |-> {}]
  BY <1>1, EmptyQueue, LevelsOfRounds DEF current, later, AllLevels
<1> QED
  BY <1>1, <1>2 DEF R!OpenRound, current, later

LEMMA EndIsClose == ASSUME OrderInv, OEnd PROVE R!CloseRound
<1>1. /\ older' = older /\ phase = "flush" /\ phase' = "idle"
      /\ \A l \in AllLevels : Flush(l) = <<>> /\ Flush(l)' = Flush(l) /\ Fill(l)' = Fill(l)
  BY EndTriggerIs DEF OEnd, OrderInv
<1>2. current' = current /\ later' = later /\ \A l \in R!AllLevels : current[l] = {}
  BY <1>1, EmptyQueue, LevelsOfRounds DEF current, later, AllLevels
<1> QED
  BY <1>1, <1>2 DEF R!CloseRound, current, later

LEMMA InitIsInit == OrderInit => R!RoundsInit
<1> SUFFICES ASSUME OrderInit PROVE R!RoundsInit
  OBVIOUS
<1>1. \A l \in AllLevels : Fill(l) = <<>> /\ Flush(l) = <<>>
  BY LevelFacts DEF OrderInit, SchedInit, Fill, Flush
<1>2. current = [l \in R!AllLevels |-> {}] /\ later = [l \in R!AllLevels |-> {}]
  BY <1>1, EmptyQueue, LevelsOfRounds DEF current, later, AllLevels
<1> QED
  BY <1>2 DEF OrderInit, SchedInit, R!RoundsInit, current, later

LEMMA StepIsStep == OrderInv /\ [OrderNext]_orderVars => [R!RoundsNext]_(R!roundVars)
<1> SUFFICES ASSUME OrderInv, [OrderNext]_orderVars
             PROVE  [R!RoundsNext]_(R!roundVars)
  OBVIOUS
<1>1. CASE UNCHANGED orderVars
  <2>1. \A l \in AllLevels : Flush(l)' = Flush(l) /\ Fill(l)' = Fill(l)
    BY <1>1 DEF orderVars, schedVars, filling, flushing, Fill, Flush
  <2>2. current' = current /\ later' = later
    BY <2>1 DEF current, later, AllLevels
  <2> QED
    BY <1>1, <2>2 DEF orderVars, schedVars, flushing, R!roundVars, current, later
<1> QED
  BY <1>1, SendIsSend, PopIsDeliver, BeginIsOpen, EndIsClose DEF OrderNext, R!RoundsNext

(* Trigger()'s double buffering (engine.lua:774-785) keeps the promise of     *)
(* Rounds, whatever is sent while a round is flushed: no signal is dispatched *)
(* in the round in which it was sent, a higher priority goes first, and      *)
(* within one priority the order of sending is kept.                         *)
THEOREM SchedulersImplementRounds == OrderSpec => ImplementsRounds
<1>1. OrderInit => OrderInv /\ R!RoundsInit
  BY OrderInitInv, InitIsInit
<1> QED
  BY <1>1, OrderNextInv, StepIsStep, PTL DEF OrderSpec, ImplementsRounds, R!RoundsSpec

=============================================================================
