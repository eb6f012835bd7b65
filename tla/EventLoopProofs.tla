--------------------------- MODULE EventLoopProofs ----------------------------
(***************************************************************************)
(* Trigger() as a whole uses the timers as Timers says, so what is proved   *)
(* there holds here.  With it: tts.c's Tnext is exact, no time-triggered    *)
(* signal is early, and Trigger never sleeps past what is due.              *)
(***************************************************************************)
EXTENDS EventLoop, TimersProofs

(* Each step of the loop is a step of the timers or leaves them alone.      *)
LEMMA LoopStepIsTimersStep == [LoopNext]_loopVars => [TimersNext]_timersVars
<1> SUFFICES ASSUME [LoopNext]_loopVars
             PROVE  [TimersNext]_timersVars
  OBVIOUS
<1>1. CASE Time
  BY <1>1 DEF Time, TimersNext
<1>2. CASE CreateSystem
  BY <1>2 DEF CreateSystem, TimersNext
<1>3. CASE ResetSystem
  BY <1>3 DEF ResetSystem, TimersNext
<1>4. CASE TimerCalls
  BY <1>4 DEF TimerCalls, TimersNext
<1>5. CASE \E at \in Times, maxdelay \in Delays : SendAt(at, maxdelay)
  BY <1>5 DEF SendAt
<1>6. CASE SendOrdinary \/ Save \/ Restore \/ Monitor \/ SocketReady
  BY <1>6 DEF SendOrdinary, Save, Restore, Monitor, SocketReady
<1>7. CASE TriggerStep
  <2>1. CASE StartTrigger \/ TransitionReturns \/ SelectTimeout \/ CallbacksDone
    BY <2>1 DEF StartTrigger, TransitionReturns, SelectTimeout, CallbacksDone
  <2>2. CASE TriggerTimers
    BY <2>2 DEF TriggerTimers, TimersNext
  <2>3. CASE TimersTriggered
    BY <2>3 DEF TimersTriggered, TimersNext
  <2>4. CASE \E s \in waiting : PopTimed(s)
    BY <2>4 DEF PopTimed
  <2>5. CASE \E t \in Tids : ExpireTimer(t) \/ TakeTimerSignal(t)
    BY <2>5 DEF ExpireTimer, TakeTimerSignal, TimersNext
  <2>6. CASE \E s \in Entries : Take(s)
    BY <2>6 DEF Take
  <2>7. CASE \E canblock \in BOOLEAN : Flushed(canblock)
    BY <2>7 DEF Flushed, TimersNext
  <2> QED
    BY <1>7, <2>1, <2>2, <2>3, <2>4, <2>5, <2>6, <2>7 DEF TriggerStep
<1>8. CASE UNCHANGED loopVars
  BY <1>8 DEF loopVars
<1> QED
  BY <1>1, <1>2, <1>3, <1>4, <1>5, <1>6, <1>7, <1>8 DEF LoopNext

(* The loop gives the timers the life that Timers assumes (Trigger, line 772). *)
THEOREM LoopImplementsTimers == LoopSpec => TimersSpec
<1>1. LoopInit => TimersInit
  BY DEF LoopInit
<1> QED
  BY <1>1, LoopStepIsTimersStep, PTL DEF LoopSpec, TimersSpec

-----------------------------------------------------------------------------
(* The queue of time-triggered signals, as LoopTypeOK and TtsTnextExact say. *)
TtsInv ==
  /\ waiting \subseteq Entries
  /\ \A s \in waiting : s.cnt < NextCnt /\ \A t \in waiting : s.cnt = t.cnt => s = t
  /\ NextCnt \in 0 .. MaxCnt /\ TtsTnext \in Times \cup {Never}
  /\ TtsTnextExact

(* tts_send() with the next counter, which no signal in the tree has.       *)
LEMMA TtsSendInv ==
  ASSUME TtsInv, NEW s \in Entries, Q!TtsSend(s)
  PROVE  TtsInv'
<1>1. s.at \in Times /\ s.at < Never /\ \A t \in waiting : t.at \in Times /\ t.cnt \in 0 .. MaxCnt - 1
  BY TimersAssumption DEF TtsInv, Entries, Times, Never
<1>2. waiting' = waiting \cup {s} /\ s.cnt = NextCnt /\ NextCnt' = NextCnt + 1 /\ NextCnt < MaxCnt
  BY DEF Q!TtsSend
<1>3. TtsTnext' = IF s.at < TtsTnext THEN s.at ELSE TtsTnext
  BY DEF Q!TtsSend
<1>4. NextCnt' \in 0 .. MaxCnt
  BY <1>2, LoopAssumption DEF TtsInv
<1>5. \A u \in waiting' : u.cnt < NextCnt' /\ \A t \in waiting' : u.cnt = t.cnt => u = t
  BY <1>1, <1>2, LoopAssumption DEF TtsInv
<1>6. TtsTnextExact'
  BY <1>1, <1>2, <1>3, TimersAssumption DEF TtsInv, TtsTnextExact, Times, Never
<1> QED
  BY <1>1, <1>2, <1>3, <1>4, <1>5, <1>6 DEF TtsInv

(* tts_pop(): what the exact Tnext lets pass is a signal, and its time has  *)
(* come.                                                                    *)
LEMMA TtsPopInv ==
  ASSUME TtsInv, now \in Times, NEW s, Q!TtsPop(s, now)
  PROVE  TtsInv' /\ s \in Entries /\ s.at <= now
<1>1. /\ s \in waiting /\ waiting' = waiting \ {s} /\ NextCnt' = NextCnt /\ TtsTnext <= now
      /\ \A t \in waiting : s.at <= t.at
  <2>1. \A t \in waiting : t.at \in Times
    BY DEF TtsInv, Entries
  <2> QED
    BY <2>1, TimersAssumption DEF Q!TtsPop, Q!IsFirst, Q!Before, Times
<1>2. \A t \in waiting : t.at \in Times /\ t.at < Never
  BY TimersAssumption DEF TtsInv, Entries, Times, Never
<1>3. PICK u \in waiting : TtsTnext = u.at
  BY <1>1, TimersAssumption DEF TtsInv, TtsTnextExact, Times, Never
<1>4. s \in Entries /\ s.at <= now
  BY <1>1, <1>2, <1>3 DEF TtsInv, Times
<1>5. TtsTnextExact' /\ TtsTnext' \in Times \cup {Never}
  <2>1. CASE waiting' = {} /\ TtsTnext' = Never
    BY <2>1 DEF TtsTnextExact
  <2>2. CASE \E t \in waiting' : Q!IsFirst(t, waiting') /\ TtsTnext' = t.at
    <3>1. PICK t \in waiting' : Q!IsFirst(t, waiting') /\ TtsTnext' = t.at
      BY <2>2
    <3>2. \A v \in waiting' : v.at \in Times
      BY <1>1, <1>2
    <3>3. \A v \in waiting' : t.at <= v.at
      BY <3>1, <3>2, TimersAssumption DEF Q!IsFirst, Q!Before, Times
    <3> QED
      BY <3>1, <3>2, <3>3 DEF TtsTnextExact
  <2> QED
    BY <2>1, <2>2 DEF Q!TtsPop, Never, Q!Never
<1> QED
  BY <1>1, <1>4, <1>5 DEF TtsInv

-----------------------------------------------------------------------------
(* Queues of signals whose time has come.                                    *)
Timely(q) == q \in Seq(Entries) /\ \A i \in DOMAIN q : q[i].at <= now

LEMMA TimelyAppend ==
  ASSUME NEW q, Timely(q), NEW s \in Entries, s.at <= now
  PROVE  Timely(Append(q, s))
<1>1. Append(q, s) \in Seq(Entries) /\ DOMAIN Append(q, s) = 1 .. Len(q) + 1
  BY DEF Timely
<1>2. \A i \in 1 .. Len(q) + 1 : Append(q, s)[i] = IF i = Len(q) + 1 THEN s ELSE q[i]
  BY DEF Timely
<1>3. \A i \in 1 .. Len(q) + 1 : i # Len(q) + 1 => i \in DOMAIN q
  BY DEF Timely
<1> QED
  BY <1>1, <1>2, <1>3 DEF Timely

LEMMA TimelyConcat ==
  ASSUME NEW q, NEW r, Timely(q), Timely(r)
  PROVE  Timely(q \o r)
<1>1. q \o r \in Seq(Entries) /\ DOMAIN (q \o r) = 1 .. Len(q) + Len(r)
  BY DEF Timely
<1>2. \A i \in 1 .. Len(q) + Len(r) :
        \/ i \in DOMAIN q /\ (q \o r)[i] = q[i]
        \/ i - Len(q) \in DOMAIN r /\ (q \o r)[i] = r[i - Len(q)]
  BY DEF Timely
<1> QED
  BY <1>1, <1>2 DEF Timely

LEMMA TimelyTail ==
  ASSUME NEW q, Timely(q), q # <<>>
  PROVE  Timely(Tail(q)) /\ Head(q) \in Entries /\ Head(q).at <= now
<1>1. /\ Tail(q) \in Seq(Entries) /\ DOMAIN Tail(q) = 1 .. Len(q) - 1
      /\ Head(q) = q[1] /\ 1 \in DOMAIN q /\ q[1] \in Entries
  BY DEF Timely
<1>2. \A i \in 1 .. Len(q) - 1 : Tail(q)[i] = q[i + 1] /\ i + 1 \in DOMAIN q
  BY DEF Timely
<1> QED
  BY <1>1, <1>2 DEF Timely

LEMMA TimelyEmpty == Timely(<<>>)
  BY DEF Timely

(* Time passes.                                                              *)
LEMMA TimelyLater ==
  ASSUME NEW q, Timely(q), now \in Nat, now' \in Nat, now <= now'
  PROVE  q \in Seq(Entries) /\ \A i \in DOMAIN q : q[i].at <= now'
<1>1. \A e \in Entries : e.at \in Nat
  BY TimersAssumption DEF Entries, Times
<1>2. \A i \in DOMAIN q : q[i] \in Entries
  BY DEF Timely
<1> QED
  BY <1>1, <1>2 DEF Timely

QueuesInv ==
  /\ Timely(scheduled) /\ Timely(flushing) /\ Timely(saved)
  /\ signal_ \in Entries \cup {None}
  /\ signal_ # None => signal_.at <= now

LoopInv ==
  /\ TtsInv /\ QueuesInv
  /\ stage \in {"app", "popping", "dispatch", "select", "callbacks"}
  /\ ordinary \in BOOLEAN /\ monitored \in BOOLEAN
  /\ wake \in Times \cup {Never}
  /\ SleepsNotPastDue

LEMMA LoopInvImplies == LoopInv => LoopTypeOK /\ TtsTnextExact /\ NotBeforeItsTime /\ SleepsNotPastDue
  BY DEF LoopInv, TtsInv, QueuesInv, Timely, LoopTypeOK, NotBeforeItsTime

LEMMA LoopInitInv == LoopInit => LoopInv
<1> SUFFICES ASSUME LoopInit PROVE LoopInv
  OBVIOUS
<1>1. TtsInv
  BY LoopAssumption, TimersAssumption
  DEF LoopInit, Q!TtsInit, TtsInv, TtsTnextExact, Never, Q!Never, Times
<1>2. QueuesInv
  BY TimelyEmpty DEF LoopInit, QueuesInv
<1>3. SleepsNotPastDue /\ wake \in Times \cup {Never}
  BY TimersAssumption DEF LoopInit, SleepsNotPastDue, Times
<1> QED
  BY <1>1, <1>2, <1>3 DEF LoopInit, LoopInv

-----------------------------------------------------------------------------
(* What a step that leaves the queues alone preserves.                       *)
LEMMA SameQueues ==
  ASSUME QueuesInv, UNCHANGED <<queues, transition>>, now \in Nat, now' \in Nat, now <= now'
  PROVE  QueuesInv'
<1>1. UNCHANGED <<scheduled, flushing, saved, signal_>>
  BY DEF queues, transition
<1>2. Timely(scheduled)' /\ Timely(flushing)' /\ Timely(saved)'
  BY <1>1, TimelyLater DEF QueuesInv, Timely
<1>3. signal_ # None => signal_.at \in Nat
  BY TimersAssumption DEF QueuesInv, Entries, Times
<1> QED
  BY <1>1, <1>2, <1>3 DEF QueuesInv

LEMMA SameTts == ASSUME TtsInv, UNCHANGED ttsVars PROVE TtsInv'
  BY DEF TtsInv, ttsVars, TtsTnextExact

(* The calls of scripts and the application.  None is made while Trigger     *)
(* blocks.                                                                   *)
LEMMA CallsInv ==
  ASSUME LoopInv, now \in Times,
         TimerCalls \/ (\E at \in Times, maxdelay \in Delays : SendAt(at, maxdelay)) \/ SendOrdinary
           \/ Restore \/ Monitor \/ CreateSystem \/ ResetSystem
  PROVE  LoopInv'
<1>1. now' = now /\ now \in Nat /\ now <= now
  <2>1. now' = now
    BY DEF TimerCalls, SendAt, SendOrdinary, Restore, Monitor, CreateSystem, ResetSystem,
           Timers_create, Timers_start, Timers_stop, OwnerStops, Delete, InitTimers, ResetTimers, timersVars
  <2> QED
    BY <2>1, TimersAssumption DEF Times
<1>2. stage # "select" /\ stage' = stage /\ wake' = wake
  BY DEF TimerCalls, SendAt, SendOrdinary, Restore, Monitor, CreateSystem, ResetSystem,
         ScriptsRun, blocking
<1>3. SleepsNotPastDue'
  BY <1>2 DEF SleepsNotPastDue
<1>4. ordinary' \in BOOLEAN /\ monitored' \in BOOLEAN
  BY DEF LoopInv, TimerCalls, SendAt, SendOrdinary, Restore, Monitor, CreateSystem, ResetSystem,
         queues, blocking
<1>5. TtsInv'
  <2>1. CASE UNCHANGED ttsVars
    BY <2>1, SameTts DEF LoopInv
  <2>2. CASE ResetSystem
    BY <2>2, LoopAssumption
    DEF ResetSystem, Q!TtsReset, TtsInv, TtsTnextExact, Never, Q!Never
  <2>3. CASE \E at \in Times, maxdelay \in Delays : SendAt(at, maxdelay)
    <3>1. PICK at \in Times, maxdelay \in Delays : SendAt(at, maxdelay)
      BY <2>3
    <3> DEFINE expiry == IF maxdelay = None \/ at + maxdelay > MaxTime THEN Never ELSE at + maxdelay
               s == [cnt |-> NextCnt, at |-> at, sendtime |-> at, expiry |-> expiry]
    <3>2. Q!TtsSend(s)
      BY <3>1 DEF SendAt
    <3>3. NextCnt \in 0 .. MaxCnt - 1
      BY <3>2, LoopAssumption DEF Q!TtsSend, LoopInv, TtsInv
    <3>4. expiry \in Times \cup {Never}
      <4>1. CASE maxdelay = None
        BY <4>1
      <4>2. CASE maxdelay # None
        <5>1. maxdelay \in Nat
          BY <4>2, LoopAssumption
        <5> QED
          BY <5>1, TimersAssumption DEF Times
      <4> QED
        BY <4>1, <4>2
    <3>5. s \in Entries
      BY <3>3, <3>4 DEF Entries
    <3> HIDE DEF s
    <3> QED
      BY <3>2, <3>5, TtsSendInv DEF LoopInv
  <2> QED
    BY <2>1, <2>2, <2>3
    DEF TimerCalls, SendOrdinary, Restore, Monitor, CreateSystem
<1>6. QueuesInv'
  <2>1. CASE UNCHANGED <<queues, transition>>
    BY <1>1, <2>1, SameQueues DEF LoopInv
  <2>2. CASE SendOrdinary
    BY <1>1, <2>2 DEF SendOrdinary, LoopInv, QueuesInv, Timely, transition
  <2>3. CASE Restore
    <3>1. Timely(scheduled \o saved) /\ Timely(<<>>)
      BY TimelyConcat, TimelyEmpty DEF LoopInv, QueuesInv
    <3> QED
      BY <1>1, <2>3, <3>1 DEF Restore, LoopInv, QueuesInv, Timely
  <2>4. CASE ResetSystem
    BY <1>1, <2>4, TimelyEmpty DEF ResetSystem, LoopInv, QueuesInv, Timely
  <2> QED
    BY <2>1, <2>2, <2>3, <2>4 DEF TimerCalls, SendAt, Monitor, CreateSystem
<1> QED
  BY <1>2, <1>3, <1>4, <1>5, <1>6 DEF LoopInv

(* Time passes in select(), but not beyond its timeout.                      *)
LEMMA TimeInv == ASSUME LoopInv, now \in Times, Time PROVE LoopInv'
<1>1. now \in Nat /\ now' \in Nat /\ now <= now'
  BY TimersAssumption DEF Time, Tick, Times
<1>2. UNCHANGED <<ttsVars, stage, queues, transition, blocking>> /\ UNCHANGED <<armed, exptime>>
  BY DEF Time, Tick, timerState
<1>3. TtsInv' /\ QueuesInv'
  BY <1>1, <1>2, SameTts, SameQueues DEF LoopInv
<1>4. SleepsNotPastDue'
  <2>1. UNCHANGED <<stage, wake, scheduled, ordinary, waiting, armed, exptime>>
    BY <1>2 DEF queues, blocking, ttsVars
  <2>2. stage = "select" => now < wake
    BY DEF Time
  <2> QED
    BY <2>1, <2>2 DEF LoopInv, SleepsNotPastDue
<1> QED
  BY <1>2, <1>3, <1>4 DEF LoopInv, queues, blocking

(* Steps that change neither tts.c nor the clock and do not touch what      *)
(* SleepsNotPastDue is about, or are not taken in select().                  *)
LEMMA DispatchInv ==
  ASSUME LoopInv, now \in Times,
         Save \/ TransitionReturns \/ TimersTriggered
           \/ (\E s \in Entries : Take(s)) \/ (\E t \in Tids : ExpireTimer(t) \/ TakeTimerSignal(t))
  PROVE  LoopInv'
<1>1. now' = now /\ now \in Nat /\ now <= now
  <2>1. now' = now
    BY DEF Save, TransitionReturns, TimersTriggered, Take, ExpireTimer, TakeTimerSignal,
           EndExpiries, Expire, Receive, timersVars
  <2> QED
    BY <2>1, TimersAssumption DEF Times
<1>2. UNCHANGED <<ttsVars, stage, blocking>>
  BY DEF Save, TransitionReturns, TimersTriggered, Take, ExpireTimer, TakeTimerSignal
<1>3. TtsInv'
  BY <1>2, SameTts DEF LoopInv
<1>4. QueuesInv'
  <2>1. CASE Save
    <3> DEFINE e == [signal_ EXCEPT !.sendtime = None]
    <3>1. signal_ \in Entries /\ signal_.at <= now
      BY <2>1 DEF Save, LoopInv, QueuesInv
    <3>2. e \in Entries /\ e.at = signal_.at
      BY <3>1 DEF Entries
    <3> HIDE DEF e
    <3>3. Timely(Append(saved, e))
      BY <3>1, <3>2, TimelyAppend DEF LoopInv, QueuesInv
    <3>4. saved' = Append(saved, e) /\ UNCHANGED <<scheduled, flushing, signal_>>
      BY <2>1 DEF Save, e, queues
    <3> QED
      BY <1>1, <3>3, <3>4 DEF LoopInv, QueuesInv, Timely
  <2>2. CASE TransitionReturns
    BY <1>1, <2>2 DEF TransitionReturns, LoopInv, QueuesInv, Timely, queues
  <2>3. CASE TimersTriggered
    BY <1>1, <2>3, TimelyEmpty DEF TimersTriggered, Swap, LoopInv, QueuesInv, Timely, queues, transition
  <2>4. CASE \E s \in Entries : Take(s)
    <3>1. PICK s \in Entries : Take(s)
      BY <2>4
    <3>2. Timely(Tail(flushing)) /\ s.at <= now
      BY <3>1, TimelyTail DEF Take, LoopInv, QueuesInv
    <3> QED
      BY <1>1, <3>1, <3>2 DEF Take, LoopInv, QueuesInv, Timely
  <2>5. CASE \E t \in Tids : ExpireTimer(t) \/ TakeTimerSignal(t)
    <3>1. UNCHANGED <<queues, transition>>
      BY <2>5 DEF ExpireTimer, TakeTimerSignal
    <3> QED
      BY <1>1, <3>1, SameQueues DEF LoopInv
  <2> QED
    BY <2>1, <2>2, <2>3, <2>4, <2>5
<1>5. SleepsNotPastDue' /\ ordinary' \in BOOLEAN
  <2>1. \/ UNCHANGED <<scheduled, ordinary>>
        \/ scheduled' = <<>> /\ ordinary' = FALSE
    BY DEF Save, TransitionReturns, TimersTriggered, Swap, Take, ExpireTimer, TakeTimerSignal, queues
  <2>2. armed' \subseteq armed /\ exptime' = exptime
    BY DEF Save, TransitionReturns, TimersTriggered, Take, ExpireTimer, TakeTimerSignal,
           EndExpiries, Expire, Receive, Deactivate, timersVars, timerState
  <2>3. UNCHANGED <<stage, wake, waiting>>
    BY <1>2 DEF ttsVars, blocking
  <2>4. ordinary' \in BOOLEAN
    BY <2>1 DEF LoopInv
  <2>5. SUFFICES ASSUME stage = "select", now < wake
                 PROVE  SleepsNotPastDue'
    BY <1>1, <2>3, <2>4 DEF SleepsNotPastDue
  <2>6. scheduled = <<>> /\ ~ordinary /\ (\A t \in armed : wake <= exptime[t]) /\ \A s \in waiting : wake <= s.at
    BY <2>5 DEF LoopInv, SleepsNotPastDue
  <2>7. scheduled' = <<>> /\ ~ordinary'
    BY <2>1, <2>6
  <2> QED
    BY <2>2, <2>3, <2>6, <2>7 DEF SleepsNotPastDue
<1> QED
  BY <1>2, <1>3, <1>4, <1>5 DEF LoopInv, blocking

(* The steps that lead from one part of Trigger to the next.                 *)
LEMMA StageInv ==
  ASSUME LoopInv, now \in Times, TimersTypeOK, NoExpiryMissed,
         StartTrigger \/ TriggerTimers \/ SelectTimeout \/ SocketReady \/ CallbacksDone
           \/ (\E s \in waiting : PopTimed(s)) \/ (\E canblock \in BOOLEAN : Flushed(canblock))
  PROVE  LoopInv'
<1>1. now' = now /\ now \in Nat /\ now <= now
  <2>1. now' = now
    BY DEF StartTrigger, TriggerTimers, SelectTimeout, SocketReady, CallbacksDone, PopTimed,
           Flushed, BeginExpiries, EndFlush, timersVars
  <2> QED
    BY <2>1, TimersAssumption DEF Times
<1>2. CASE StartTrigger \/ SelectTimeout \/ SocketReady \/ CallbacksDone
  <2>1. UNCHANGED <<ttsVars, queues, transition, monitored>> /\ stage' # "select"
    BY <1>2 DEF StartTrigger, SelectTimeout, SocketReady, CallbacksDone, blocking
  <2>2. wake' \in Times \cup {Never}
    BY <1>2, TimersAssumption
    DEF StartTrigger, SelectTimeout, SocketReady, CallbacksDone, blocking, LoopInv, Times
  <2>3. stage' \in {"app", "popping", "dispatch", "select", "callbacks"}
    BY <1>2 DEF StartTrigger, SelectTimeout, SocketReady, CallbacksDone
  <2> QED
    BY <1>1, <2>1, <2>2, <2>3, SameTts, SameQueues DEF LoopInv, SleepsNotPastDue, queues
<1>3. CASE TriggerTimers
  <2>1. QueuesInv' /\ ordinary' \in BOOLEAN
    BY <1>1, <1>3, TimelyEmpty DEF TriggerTimers, Swap, LoopInv, QueuesInv, Timely, queues, transition
  <2> QED
    BY <1>3, <2>1, SameTts DEF TriggerTimers, LoopInv, SleepsNotPastDue, blocking
<1>4. CASE \E s \in waiting : PopTimed(s)
  <2>1. PICK s \in waiting : PopTimed(s)
    BY <1>4
  <2> DEFINE e == [s EXCEPT !.sendtime = now]
  <2>2. TtsInv' /\ s \in Entries /\ s.at <= now
    BY <2>1, TtsPopInv DEF PopTimed, LoopInv
  <2>3. e \in Entries /\ e.at <= now
    BY <2>2 DEF Entries
  <2> HIDE DEF e
  <2>4. Timely(Append(scheduled, e))
    BY <2>3, TimelyAppend DEF LoopInv, QueuesInv
  <2>5. scheduled' = Append(scheduled, e) /\ UNCHANGED <<stage, flushing, ordinary, transition, blocking>>
    BY <2>1 DEF PopTimed, e
  <2>6. QueuesInv'
    BY <1>1, <2>4, <2>5 DEF LoopInv, QueuesInv, Timely, transition
  <2>7. stage = "popping"
    BY <2>1 DEF PopTimed
  <2> QED
    BY <2>2, <2>5, <2>6, <2>7 DEF LoopInv, SleepsNotPastDue, blocking
<1>5. CASE \E canblock \in BOOLEAN : Flushed(canblock)
  <2>1. PICK canblock \in BOOLEAN : Flushed(canblock)
    BY <1>5
  <2>2. UNCHANGED <<ttsVars, queues, transition, monitored>> /\ UNCHANGED <<armed, exptime>>
    BY <2>1 DEF Flushed, EndFlush, timerState
  <2>3. TtsInv' /\ QueuesInv'
    BY <1>1, <2>2, SameTts, SameQueues DEF LoopInv
  <2>4. CASE stage' = "app" /\ UNCHANGED wake
    BY <2>2, <2>3, <2>4 DEF LoopInv, SleepsNotPastDue, queues
  <2>5. CASE stage' = "select" /\ wake' = Wake(canblock)
    <3>1. wake' \in Times \cup {Never}
      BY <2>5 DEF Wake, Earliest, LoopInv, TtsInv, TimersTypeOK
    <3>2. Earliest <= Tnext /\ Earliest <= TtsTnext
      BY TimersAssumption DEF Earliest, LoopInv, TtsInv, TimersTypeOK, Times, Never
    <3>3. SleepsNotPastDue'
      <4>1. CASE canblock /\ scheduled = <<>> /\ ~ordinary
        <5>1. wake' = Earliest
          BY <2>5, <4>1 DEF Wake
        <5>2. \A t \in armed : Tnext <= exptime[t]
          BY DEF NoExpiryMissed
        <5>3. \A s \in waiting : TtsTnext <= s.at
          BY DEF LoopInv, TtsInv, TtsTnextExact
        <5>4. \A s \in waiting : s.at \in Nat
          BY TimersAssumption DEF LoopInv, TtsInv, Entries, Times
        <5>5. /\ Tnext \in Nat /\ TtsTnext \in Nat
              /\ \A t \in armed : exptime[t] \in Nat
          BY TimersAssumption DEF LoopInv, TtsInv, TimersTypeOK, Times, Never
        <5>6. \A s \in waiting : Earliest <= s.at
          BY <3>2, <5>3, <5>4, <5>5 DEF Earliest
        <5>7. \A t \in armed : Earliest <= exptime[t]
          BY <5>2, <5>5 DEF Earliest
        <5> QED
          BY <2>2, <4>1, <5>1, <5>6, <5>7 DEF SleepsNotPastDue, queues, ttsVars
      <4>2. CASE ~(canblock /\ scheduled = <<>> /\ ~ordinary)
        BY <1>1, <2>5, <4>2 DEF Wake, SleepsNotPastDue
      <4> QED
        BY <4>1, <4>2
    <3> QED
      BY <2>2, <2>3, <2>5, <3>1, <3>3 DEF LoopInv, queues
  <2> QED
    BY <2>1, <2>4, <2>5 DEF Flushed
<1> QED
  BY <1>2, <1>3, <1>4, <1>5

LEMMA LoopNextInv ==
  LoopInv /\ TimersTypeOK /\ NoExpiryMissed /\ [LoopNext]_loopVars => LoopInv'
<1> SUFFICES ASSUME LoopInv, TimersTypeOK, NoExpiryMissed, [LoopNext]_loopVars
             PROVE  LoopInv'
  OBVIOUS
<1>1. now \in Times
  BY DEF TimersTypeOK, Times
<1>2. CASE LoopNext
  BY <1>1, <1>2, CallsInv, TimeInv, DispatchInv, StageInv DEF LoopNext, TriggerStep
<1>3. CASE UNCHANGED loopVars
  BY <1>3 DEF loopVars, timersVars, ttsVars, queues, transition, blocking, timerState,
              LoopInv, TtsInv, TtsTnextExact, QueuesInv, Timely, SleepsNotPastDue
<1> QED
  BY <1>2, <1>3

LEMMA LoopInvariant == LoopSpec => []LoopInv
<1>1. LoopSpec => []TimersTypeOK
  BY LoopImplementsTimers, TimersTypeCorrect
<1>2. LoopSpec => []NoExpiryMissed
  BY LoopImplementsTimers, NoExpiryOverlooked
<1> QED
  BY <1>1, <1>2, LoopInitInv, LoopNextInv, PTL DEF LoopSpec

-----------------------------------------------------------------------------
(* Types, and counters that distinguish the signals in the tree.             *)
THEOREM LoopTypeCorrect == LoopSpec => []LoopTypeOK
  BY LoopInvariant, LoopInvImplies, PTL

(* Whenever TtsPop runs, Tnext is the time of the first signal (tts.c:100).  *)
THEOREM TtsTnextIsExact == LoopSpec => []TtsTnextExact
  BY LoopInvariant, LoopInvImplies, PTL

(* send_at() never delivers early, whatever is saved and restored.           *)
THEOREM NeverEarly == LoopSpec => []NotBeforeItsTime
  BY LoopInvariant, LoopInvImplies, PTL

(* Trigger blocks only while nothing is scheduled, and only until the first  *)
(* timer or time-triggered signal is due (lines 789-797).                    *)
THEOREM NeverOversleeps == LoopSpec => []SleepsNotPastDue
  BY LoopInvariant, LoopInvImplies, PTL

-----------------------------------------------------------------------------
(* The order of what is flushed.  Signals that were popped follow those that  *)
(* were restored, which have lost their times, because nothing is restored   *)
(* between the first pop and the swap; and all that is left in the tree       *)
(* follows what was popped.                                                 *)
Follows(s, t) ==
  t.sendtime # None => s.sendtime = None \/ Q!Before(s, t)

Ordered(q) == \A i, j \in DOMAIN q : i < j => Follows(q[i], q[j])
Untimed(q) == \A i \in DOMAIN q : q[i].sendtime = None

OrderInv ==
  /\ Ordered(scheduled) /\ Ordered(flushing) /\ Untimed(saved)
  /\ stage = "dispatch" <=> tphase \in {"expiring", "flush"}
  /\ stage # "popping" /\ tphase # "expiring" => Untimed(scheduled)
  /\ \A i \in DOMAIN scheduled : scheduled[i].sendtime # None =>
       \A s \in waiting : stage = "popping" => Q!Before(scheduled[i], s)

LEMMA UntimedIsOrdered == ASSUME NEW q, Untimed(q) PROVE Ordered(q)
  BY DEF Untimed, Ordered, Follows

LEMMA UntimedEmpty == Untimed(<<>>)
  BY DEF Untimed

LEMMA UntimedConcat ==
  ASSUME NEW q \in Seq(Entries), NEW r \in Seq(Entries), Untimed(q), Untimed(r)
  PROVE  Untimed(q \o r)
<1>1. \A i \in DOMAIN (q \o r) :
        \/ i \in DOMAIN q /\ (q \o r)[i] = q[i]
        \/ i - Len(q) \in DOMAIN r /\ (q \o r)[i] = r[i - Len(q)]
  OBVIOUS
<1> QED
  BY <1>1 DEF Untimed

LEMMA AppendedElements ==
  ASSUME NEW q \in Seq(Entries), NEW e \in Entries
  PROVE  /\ DOMAIN Append(q, e) = 1 .. Len(q) + 1
         /\ \A i \in 1 .. Len(q) + 1 : \/ i \in DOMAIN q /\ Append(q, e)[i] = q[i]
                                       \/ i = Len(q) + 1 /\ Append(q, e)[i] = e
  OBVIOUS

LEMMA OrderedTail == ASSUME NEW q \in Seq(Entries), q # <<>>, Ordered(q) PROVE Ordered(Tail(q))
<1>1. \A i \in DOMAIN Tail(q) : i \in Int /\ i + 1 \in DOMAIN q /\ Tail(q)[i] = q[i + 1]
  OBVIOUS
<1>2. \A i, j \in DOMAIN Tail(q) : i < j => i + 1 < j + 1
  BY <1>1
<1> QED
  BY <1>1, <1>2 DEF Ordered

LEMMA OrderInitInv == LoopInit => OrderInv
  BY UntimedEmpty, UntimedIsOrdered DEF LoopInit, TimersInit, Q!TtsInit, OrderInv, Untimed

(* Steps that leave the queues and the stage alone; only tts_send() outside   *)
(* of the pops changes the tree.                                            *)
LEMMA OrderSame ==
  ASSUME OrderInv, UNCHANGED <<scheduled, flushing, saved, stage, tphase>>,
         waiting' \subseteq waiting \/ stage # "popping"
  PROVE  OrderInv'
  BY DEF OrderInv, Untimed, Ordered, Follows, Q!Before

LEMMA CallsKeepOrder ==
  ASSUME LoopInv, OrderInv,
         Time \/ TimerCalls \/ (\E at \in Times, maxdelay \in Delays : SendAt(at, maxdelay))
           \/ SendOrdinary \/ Save \/ Restore \/ Monitor \/ CreateSystem \/ ResetSystem
  PROVE  OrderInv'
<1>1. CASE Time \/ TimerCalls \/ Monitor \/ SendOrdinary
  <2>1. UNCHANGED <<scheduled, flushing, saved, stage, tphase, waiting>>
    BY <1>1 DEF Time, Tick, TimerCalls, Timers_create, Timers_start, Timers_stop, OwnerStops, Delete, Monitor,
                SendOrdinary, ttsVars, queues, transition, timersVars
  <2> QED
    BY <2>1, OrderSame
<1>2. CASE \E at \in Times, maxdelay \in Delays : SendAt(at, maxdelay)
  <2>1. UNCHANGED <<scheduled, flushing, saved, stage, tphase>> /\ stage # "popping"
    BY <1>2 DEF SendAt, ScriptsRun, queues, transition, timersVars
  <2> QED
    BY <2>1, OrderSame
<1>3. CASE Save
  <2> DEFINE e == [signal_ EXCEPT !.sendtime = None]
  <2>1. /\ UNCHANGED <<scheduled, flushing, stage, tphase, waiting>>
        /\ saved' = Append(saved, e)
    BY <1>3 DEF Save, queues, ttsVars, timersVars
  <2>2. saved \in Seq(Entries) /\ e \in Entries /\ e.sendtime = None
    BY <1>3 DEF Save, LoopInv, QueuesInv, Timely, Entries
  <2> HIDE DEF e
  <2>3. Untimed(saved)'
    BY <2>1, <2>2, AppendedElements DEF OrderInv, Untimed
  <2> QED
    BY <2>1, <2>3 DEF OrderInv, Untimed, Ordered, Follows, Q!Before
<1>4. CASE Restore
  <2>1. /\ UNCHANGED <<flushing, stage, tphase, waiting>>
        /\ scheduled' = scheduled \o saved /\ saved' = <<>>
    BY <1>4 DEF Restore, ttsVars, timersVars
  <2>2. stage # "popping" /\ tphase # "expiring"
    BY <1>4 DEF Restore, ScriptsRun, OrderInv
  <2>3. Untimed(scheduled \o saved)
    BY <2>2, UntimedConcat DEF LoopInv, QueuesInv, Timely, OrderInv
  <2>4. Ordered(scheduled \o saved)
    BY <2>3, UntimedIsOrdered
  <2>5. Untimed(scheduled)' /\ Ordered(scheduled)' /\ Untimed(saved)'
    BY <2>1, <2>3, <2>4, UntimedEmpty DEF Untimed, Ordered, Follows, Q!Before
  <2> QED
    BY <2>1, <2>2, <2>5 DEF OrderInv, Ordered, Follows, Q!Before
<1>5. CASE CreateSystem
  BY <1>5 DEF CreateSystem, InitTimers, OrderInv, Untimed, Ordered, Follows, Q!Before,
              queues, transition, ttsVars
<1>6. CASE ResetSystem
  <2>1. /\ scheduled' = <<>> /\ flushing' = <<>> /\ saved' = <<>>
        /\ stage = "app" /\ stage' = stage /\ tphase' = "off"
    BY <1>6 DEF ResetSystem, ResetTimers
  <2>2. Untimed(scheduled)' /\ Untimed(saved)' /\ Ordered(scheduled)' /\ Ordered(flushing)'
    BY <2>1, UntimedEmpty, UntimedIsOrdered DEF Untimed, Ordered, Follows, Q!Before
  <2> QED
    BY <2>1, <2>2 DEF OrderInv
<1> QED
  BY <1>1, <1>2, <1>3, <1>4, <1>5, <1>6

(* What is popped comes before what is left, and after what was popped.      *)
LEMMA PopKeepsOrder ==
  ASSUME LoopInv, now \in Times, OrderInv, NEW s \in waiting, PopTimed(s)
  PROVE  OrderInv'
<1> DEFINE e == [s EXCEPT !.sendtime = now]
<1>1. /\ stage = "popping" /\ scheduled' = Append(scheduled, e)
      /\ UNCHANGED <<stage, tphase, flushing, saved>>
      /\ waiting' = waiting \ {s} /\ \A t \in waiting' : Q!Before(s, t)
  BY DEF PopTimed, Q!TtsPop, Q!IsFirst, transition, timersVars
<1>2. s \in Entries /\ scheduled \in Seq(Entries)
  BY DEF LoopInv, TtsInv, QueuesInv, Timely
<1>3. e \in Entries /\ e.at = s.at /\ e.cnt = s.cnt
  BY <1>2 DEF Entries
<1> HIDE DEF e
<1>4. /\ DOMAIN scheduled' = 1 .. Len(scheduled) + 1
      /\ \A i \in 1 .. Len(scheduled) + 1 :
           \/ i \in DOMAIN scheduled /\ scheduled'[i] = scheduled[i]
           \/ i = Len(scheduled) + 1 /\ scheduled'[i] = e
      /\ DOMAIN scheduled = 1 .. Len(scheduled) /\ Len(scheduled) \in Nat
  BY <1>1, <1>2, <1>3, AppendedElements
<1>5. \A i \in DOMAIN scheduled : Follows(scheduled[i], e)
  BY <1>1, <1>3 DEF OrderInv, Follows, Q!Before
<1>6. \A i, j \in 1 .. Len(scheduled) + 1 : i < j => Follows(scheduled'[i], scheduled'[j])
  <2> SUFFICES ASSUME NEW i \in 1 .. Len(scheduled) + 1, NEW j \in 1 .. Len(scheduled) + 1, i < j
               PROVE  Follows(scheduled'[i], scheduled'[j])
    OBVIOUS
  <2>1. i \in DOMAIN scheduled /\ scheduled'[i] = scheduled[i]
    BY <1>4
  <2>2. CASE j \in DOMAIN scheduled /\ scheduled'[j] = scheduled[j]
    BY <2>1, <2>2 DEF OrderInv, Ordered
  <2>3. CASE scheduled'[j] = e
    BY <1>5, <2>1, <2>3
  <2> QED
    BY <1>4, <2>2, <2>3
<1>7. Ordered(scheduled)'
  BY <1>4, <1>6 DEF Ordered, Follows, Q!Before
<1>8. \A i \in DOMAIN scheduled' : scheduled'[i].sendtime # None =>
        \A t \in waiting' : Q!Before(scheduled'[i], t)
  <2> SUFFICES ASSUME NEW i \in DOMAIN scheduled', scheduled'[i].sendtime # None,
                      NEW t \in waiting'
               PROVE  Q!Before(scheduled'[i], t)
    OBVIOUS
  <2>1. CASE i \in DOMAIN scheduled /\ scheduled'[i] = scheduled[i]
    BY <1>1, <2>1 DEF OrderInv
  <2>2. CASE scheduled'[i] = e
    BY <1>1, <1>3, <2>2 DEF Q!Before
  <2> QED
    BY <1>4, <2>1, <2>2
<1> QED
  BY <1>1, <1>7, <1>8 DEF OrderInv, Ordered, Untimed, Follows, Q!Before

(* When the copies are swapped, what waits is ordered and nothing is left.    *)
LEMMA SwapKeepsOrder ==
  ASSUME OrderInv, Swap, stage' = "dispatch", tphase' = "flush", saved' = saved
  PROVE  OrderInv'
<1>1. flushing' = scheduled /\ scheduled' = <<>>
  BY DEF Swap
<1>2. Untimed(scheduled)' /\ Ordered(scheduled)' /\ Ordered(flushing)'
  BY <1>1, UntimedEmpty, UntimedIsOrdered DEF OrderInv, Untimed, Ordered, Follows, Q!Before
<1> QED
  BY <1>2 DEF OrderInv, Untimed

LEMMA TriggerKeepsOrder ==
  ASSUME LoopInv, now \in Times, OrderInv, TriggerStep \/ SocketReady PROVE OrderInv'
<1>1. CASE StartTrigger \/ SelectTimeout \/ SocketReady \/ CallbacksDone
  <2>1. /\ UNCHANGED <<scheduled, flushing, saved, tphase, waiting>>
        /\ stage \notin {"popping", "dispatch"} /\ stage' # "dispatch"
    BY <1>1 DEF StartTrigger, SelectTimeout, SocketReady, CallbacksDone, queues, transition,
                ttsVars, timersVars
  <2>2. Untimed(scheduled)
    BY <2>1 DEF OrderInv
  <2> QED
    BY <2>1, <2>2 DEF OrderInv, Untimed, Ordered, Follows, Q!Before
<1>2. ASSUME NEW s \in waiting, PopTimed(s) PROVE OrderInv'
  BY <1>2, PopKeepsOrder
<1>3. CASE TriggerTimers
  <2>1. CASE tphase' = "flush"
    BY <1>3, <2>1, SwapKeepsOrder DEF TriggerTimers, transition
  <2>2. CASE tphase' # "flush"
    <3>1. /\ UNCHANGED <<scheduled, flushing, saved>>
          /\ tphase' = "expiring" /\ stage' = "dispatch"
      BY <1>3, <2>2 DEF TriggerTimers, BeginExpiries, Swap, queues, transition
    <3> QED
      BY <3>1 DEF OrderInv, Untimed, Ordered, Follows, Q!Before
  <2> QED
    BY <2>1, <2>2
<1>4. CASE TimersTriggered
  <2>1. tphase' = "flush" /\ stage' = "dispatch" /\ saved' = saved /\ Swap
    BY <1>4 DEF TimersTriggered, EndExpiries, OrderInv, transition
  <2> QED
    BY <2>1, SwapKeepsOrder
<1>5. ASSUME NEW t \in Tids, ExpireTimer(t) \/ TakeTimerSignal(t) PROVE OrderInv'
  <2>1. UNCHANGED <<scheduled, flushing, saved, stage, tphase, waiting>>
    BY <1>5 DEF ExpireTimer, TakeTimerSignal, Expire, Receive, queues, transition, ttsVars
  <2> QED
    BY <2>1, OrderSame
<1>6. ASSUME NEW s \in Entries, Take(s) PROVE OrderInv'
  <2>1. UNCHANGED <<scheduled, saved, stage, tphase, waiting>> /\ flushing' = Tail(flushing)
    BY <1>6 DEF Take, timersVars, ttsVars
  <2>2. Ordered(Tail(flushing))
    BY <1>6, OrderedTail DEF Take, OrderInv, LoopInv, QueuesInv, Timely
  <2> QED
    BY <2>1, <2>2 DEF OrderInv, Untimed, Ordered, Follows, Q!Before
<1>7. CASE TransitionReturns
  <2>1. UNCHANGED <<scheduled, flushing, saved, stage, tphase, waiting>>
    BY <1>7 DEF TransitionReturns, queues, ttsVars, timersVars
  <2> QED
    BY <2>1, OrderSame
<1>8. ASSUME NEW canblock \in BOOLEAN, Flushed(canblock) PROVE OrderInv'
  <2>1. /\ UNCHANGED <<scheduled, flushing, saved>>
        /\ tphase = "flush" /\ tphase' = "idle" /\ stage' \in {"select", "app"}
    BY <1>8 DEF Flushed, EndFlush, queues, transition
  <2>2. Untimed(scheduled)
    BY <2>1 DEF OrderInv
  <2> QED
    BY <2>1, <2>2 DEF OrderInv, Untimed, Ordered, Follows, Q!Before
<1> QED
  BY <1>1, <1>2, <1>3, <1>4, <1>5, <1>6, <1>7, <1>8 DEF TriggerStep

(* Time-triggered signals are dispatched by their times, also if some were    *)
(* saved and restored and others are equal (tts.c:47, engine.lua:763).        *)
THEOREM DispatchedInOrder == LoopSpec => []InOrderOfTime
<1>1. OrderInv => InOrderOfTime
  BY DEF OrderInv, Ordered, Follows, Q!Before, InOrderOfTime
<1>2. LoopInv /\ TimersTypeOK /\ OrderInv /\ [LoopNext]_loopVars => OrderInv'
  <2> SUFFICES ASSUME LoopInv, TimersTypeOK, OrderInv, [LoopNext]_loopVars PROVE OrderInv'
    OBVIOUS
  <2>1. now \in Times
    BY DEF TimersTypeOK, Times
  <2>2. CASE LoopNext
    BY <2>1, <2>2, CallsKeepOrder, TriggerKeepsOrder DEF LoopNext
  <2>3. CASE UNCHANGED loopVars
    BY <2>3, OrderSame DEF loopVars, timersVars, ttsVars, queues, transition
  <2> QED
    BY <2>2, <2>3
<1>3. LoopSpec => []TimersTypeOK
  BY LoopImplementsTimers, TimersTypeCorrect
<1> QED
  BY <1>1, <1>2, <1>3, LoopInvariant, OrderInitInv, PTL DEF LoopSpec

=============================================================================
