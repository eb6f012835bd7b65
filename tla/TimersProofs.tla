----------------------------- MODULE TimersProofs -----------------------------
(***************************************************************************)
(* Proofs about Timers, for any number of timers and any system time.       *)
(***************************************************************************)
EXTENDS Timers, TLAPS

(* Outside Trigger no timer signal is scheduled; while the timers expire, an *)
(* armed one has none.                                                       *)
FlushInv ==
  /\ tphase \in {"off", "idle"} => \A t \in Tids : inflight[t] = 0
  /\ tphase = "expiring" => \A t \in armed : inflight[t] = 0
  /\ \A t \in Tids : inflight[t] <= 1 /\ stale[t] <= inflight[t]

(* A tid that is not in use is as Timers_create will find it.                *)
UnusedInv ==
  /\ tphase = "off" => timers = {}
  /\ \A t \in Tids \ timers : discard_count[t] = 0 /\ status[t] = "inactive"
  /\ \A t \in Tids \ (timers \cup stopping) : inflight[t] = 0

(* discard_count covers no more than the stopped signals, and not the one of *)
(* a timer that has expired.                                                 *)
CountInv ==
  \A t \in timers \ stopping :
    /\ discard_count[t] <= stale[t]
    /\ status[t] = "not_armed" => inflight[t] = 1 /\ stale[t] = 0

TimersInv == TimersTypeOK /\ ArmedExactly /\ FlushInv /\ UnusedInv /\ CountInv

-----------------------------------------------------------------------------
(* Before timers_init() there are no timers.                                 *)
LEMMA TimersInitInv == TimersInit => TimersInv
  BY TimersAssumption
  DEF TimersInit, TimersInv, TimersTypeOK, ArmedExactly, FlushInv, UnusedInv, CountInv, Zero,
      Tids, Times, Never

(* The steps that touch no timer: time, and the phases of Trigger.           *)
LEMMA PhaseInv ==
  ASSUME TimersInv, Tick \/ BeginExpiries \/ EndFlush
  PROVE  TimersInv'
<1>1. UNCHANGED <<NextTid, Tnext, timers, armed, status, exptime, discard_count, stopping, inflight, stale>>
  BY DEF Tick, BeginExpiries, EndFlush, timerState, timerSignals
<1>2. /\ now' \in 0 .. MaxTime /\ tnow' \in 0 .. MaxTime
      /\ tphase' \in {"off", "idle", "expiring", "flush"}
  BY TimersAssumption DEF TimersInv, TimersTypeOK, Tick, BeginExpiries, EndFlush
<1>3. /\ tphase' \in {"off", "idle"} => \A t \in Tids : inflight[t] = 0
      /\ tphase' = "expiring" => \A t \in armed : inflight[t] = 0
      /\ tphase' = "off" => tphase = "off"
  BY DEF TimersInv, TimersTypeOK, FlushInv, Tick, BeginExpiries, EndFlush, Zero
<1> QED
  BY <1>1, <1>2, <1>3 DEF TimersInv, TimersTypeOK, ArmedExactly, FlushInv, UnusedInv, CountInv

(* timers_init() and timers_reset() leave no timer and no signal.            *)
LEMMA InitResetInv ==
  ASSUME TimersInv, InitTimers \/ ResetTimers
  PROVE  TimersInv'
<1>1. CASE InitTimers
  <2>1. timers = {} /\ tphase = "off"
    BY <1>1 DEF InitTimers, TimersInv, UnusedInv
  <2>2. TimersTypeOK'
    BY <1>1, <2>1, TimersAssumption
    DEF InitTimers, TimersInv, TimersTypeOK, Never, Times, timerSignals
  <2> QED
    BY <1>1, <2>1, <2>2
    DEF InitTimers, TimersInv, ArmedExactly, FlushInv, UnusedInv, CountInv, timerSignals
<1>2. CASE ResetTimers
  <2>1. TimersTypeOK'
    BY <1>2, TimersAssumption DEF ResetTimers, TimersInv, TimersTypeOK, Never, Times, Zero
  <2> QED
    BY <1>2, <2>1
    DEF ResetTimers, TimersInv, ArmedExactly, FlushInv, UnusedInv, CountInv, Zero
<1> QED
  BY <1>1, <1>2

(* A new timer gets a tid that was never in use.                             *)
LEMMA CreateTimerInv ==
  ASSUME TimersInv, Timers_create
  PROVE  TimersInv'
<1>1. NextTid \in Tids /\ NextTid \notin timers
  BY DEF Timers_create, TimersInv, TimersTypeOK, Tids
<1>2. TimersTypeOK'
  BY <1>1, TimersAssumption DEF Timers_create, TimersInv, TimersTypeOK, Tids, timerSignals
<1>3. ArmedExactly'
  BY <1>1 DEF Timers_create, TimersInv, ArmedExactly, UnusedInv
<1>4. FlushInv' /\ UnusedInv'
  BY <1>1 DEF Timers_create, Scripts, TimersInv, FlushInv, UnusedInv, timerSignals
<1>5. CountInv'
  BY <1>1 DEF Timers_create, TimersInv, TimersTypeOK, CountInv, UnusedInv, timerSignals
<1> QED
  BY <1>2, <1>3, <1>4, <1>5 DEF TimersInv

(* A timer that is started anew may leave a signal on its way that no stop   *)
(* will find: CountInv promises nothing for it.                              *)
LEMMA StartInv ==
  ASSUME TimersInv, NEW t \in Tids, NEW at \in Times, Timers_start(t, at)
  PROVE  TimersInv'
<1>1. /\ status' = [status EXCEPT ![t] = "armed"] /\ exptime' = [exptime EXCEPT ![t] = at]
      /\ armed' = armed \cup {t} /\ t \in timers /\ Tnext' \in {at, Tnext}
      /\ tphase \in {"idle", "flush"}
      /\ UNCHANGED <<now, tphase, tnow, NextTid, timers, discard_count, stopping, inflight, stale>>
  BY DEF Timers_start, Scripts, Deactivate, timerSignals
<1>2. TimersTypeOK'
  BY <1>1 DEF TimersInv, TimersTypeOK
<1>3. ArmedExactly'
  BY <1>1 DEF TimersInv, TimersTypeOK, ArmedExactly
<1>4. FlushInv'
  BY <1>1 DEF TimersInv, FlushInv
<1>5. UnusedInv'
  BY <1>1 DEF TimersInv, TimersTypeOK, UnusedInv
<1>6. CountInv'
  BY <1>1 DEF TimersInv, TimersTypeOK, CountInv
<1> QED
  BY <1>2, <1>3, <1>4, <1>5, <1>6 DEF TimersInv

(* A stop is counted exactly when it makes a signal stale.                   *)
LEMMA StopTimerInv ==
  ASSUME TimersInv, NEW t \in Tids, Timers_stop(t)
  PROVE  TimersInv'
<1>1. TimersTypeOK'
  BY DEF Timers_stop, TimersInv, TimersTypeOK, Deactivate
<1>2. ArmedExactly'
  BY DEF Timers_stop, TimersInv, TimersTypeOK, ArmedExactly, Deactivate
<1>3. FlushInv' /\ UnusedInv'
  BY DEF Timers_stop, Scripts, TimersInv, TimersTypeOK, FlushInv, UnusedInv, Deactivate
<1>4. CountInv'
  BY DEF Timers_stop, TimersInv, TimersTypeOK, CountInv, FlushInv
<1> QED
  BY <1>1, <1>2, <1>3, <1>4 DEF TimersInv

(* When the owner stops, less is promised of its timers.                     *)
LEMMA OwnerStopsInv ==
  ASSUME TimersInv, NEW t \in Tids, OwnerStops(t)
  PROVE  TimersInv'
  BY DEF OwnerStops, Scripts, TimersInv, TimersTypeOK, ArmedExactly, FlushInv, UnusedInv, CountInv,
         timerState, timerSignals

(* A timer that is freed is disarmed first.                                  *)
LEMMA DeleteInv ==
  ASSUME TimersInv, NEW t \in Tids, Delete(t)
  PROVE  TimersInv'
<1>1. TimersTypeOK'
  BY TimersAssumption DEF Delete, TimersInv, TimersTypeOK, Deactivate, Times, timerSignals
<1>2. ArmedExactly'
  BY DEF Delete, TimersInv, TimersTypeOK, ArmedExactly, Deactivate
<1>3. FlushInv' /\ UnusedInv'
  BY DEF Delete, Scripts, TimersInv, TimersTypeOK, FlushInv, UnusedInv, Deactivate, timerSignals
<1>4. CountInv'
  BY DEF Delete, TimersInv, TimersTypeOK, CountInv, timerSignals
<1> QED
  BY <1>1, <1>2, <1>3, <1>4 DEF TimersInv

(* A timer that expires has no signal on its way yet.                        *)
LEMMA ExpireInv ==
  ASSUME TimersInv, NEW t \in Tids, Expire(t)
  PROVE  TimersInv'
<1>1. t \in armed /\ t \in timers /\ inflight[t] = 0 /\ stale[t] = 0
  BY DEF Expire, IsFirst, TimersInv, TimersTypeOK, ArmedExactly, FlushInv
<1>2. TimersTypeOK'
  BY <1>1 DEF Expire, TimersInv, TimersTypeOK, Deactivate
<1>3. ArmedExactly'
  BY <1>1 DEF Expire, TimersInv, TimersTypeOK, ArmedExactly, Deactivate
<1>4. FlushInv' /\ UnusedInv'
  BY <1>1 DEF Expire, TimersInv, TimersTypeOK, FlushInv, UnusedInv, Deactivate
<1>5. CountInv'
  BY <1>1 DEF Expire, TimersInv, TimersTypeOK, CountInv
<1> QED
  BY <1>2, <1>3, <1>4, <1>5 DEF TimersInv

(* The end of the expiries touches no timer.                                 *)
LEMMA EndExpiriesInv ==
  ASSUME TimersInv, EndExpiries
  PROVE  TimersInv'
<1>1. UNCHANGED <<now, NextTid, timers, armed, status, exptime, discard_count, stopping, inflight, stale>>
  BY DEF EndExpiries, timerState, timerSignals
<1>2. Tnext' \in Times \cup {Never} /\ tnow' \in 0 .. MaxTime /\ tphase' = "flush"
  BY TimersAssumption DEF EndExpiries, TimersInv, TimersTypeOK
<1> QED
  BY <1>1, <1>2 DEF TimersInv, TimersTypeOK, ArmedExactly, FlushInv, UnusedInv, CountInv

(* The one signal of a timer arrives, and nothing is left to discard.        *)
LEMMA ReceiveInv ==
  ASSUME TimersInv, NEW t \in Tids, Receive(t)
  PROVE  TimersInv'
<1>1. inflight[t] = 1 /\ inflight'[t] = 0 /\ stale'[t] = 0
  BY DEF Receive, TimersInv, TimersTypeOK, FlushInv
<1>2. discard_count'[t] \in Nat /\ (t \in timers \ stopping => discard_count'[t] = 0)
  <2>1. discard_count[t] \in Nat /\ stale[t] \in Nat /\ stale[t] <= 1
    BY <1>1 DEF TimersInv, TimersTypeOK, FlushInv
  <2>2. t \in timers \ stopping => discard_count[t] <= 1
    BY <2>1 DEF TimersInv, CountInv
  <2>3. discard_count'[t] = IF t \notin stopping /\ discard_count[t] > 0
                            THEN discard_count[t] - 1 ELSE discard_count[t]
    BY DEF Receive, IsDiscarded, TimersInv, TimersTypeOK
  <2> QED
    BY <2>1, <2>2, <2>3
<1>3. TimersTypeOK'
  BY <1>1, <1>2 DEF Receive, TimersInv, TimersTypeOK
<1>4. ArmedExactly'
  BY DEF Receive, TimersInv, TimersTypeOK, ArmedExactly
<1>5. FlushInv' /\ UnusedInv'
  BY <1>1, <1>2 DEF Receive, IsDiscarded, TimersInv, TimersTypeOK, FlushInv, UnusedInv
<1>6. CountInv'
  BY <1>1, <1>2 DEF Receive, TimersInv, TimersTypeOK, CountInv
<1> QED
  BY <1>3, <1>4, <1>5, <1>6 DEF TimersInv

(* The invariant is inductive: one case for each action.                     *)
LEMMA TimersNextInv == TimersInv /\ [TimersNext]_timersVars => TimersInv'
<1> SUFFICES ASSUME TimersInv, [TimersNext]_timersVars
             PROVE  TimersInv'
  OBVIOUS
<1>1. CASE Tick \/ BeginExpiries \/ EndFlush
  BY <1>1, PhaseInv
<1>2. CASE InitTimers \/ ResetTimers
  BY <1>2, InitResetInv
<1>3. CASE Timers_create
  BY <1>3, CreateTimerInv
<1>4. ASSUME NEW t \in Tids, NEW at \in Times, Timers_start(t, at)
      PROVE  TimersInv'
  BY <1>4, StartInv
<1>5. ASSUME NEW t \in Tids, Timers_stop(t) \/ OwnerStops(t) \/ Delete(t) \/ Expire(t) \/ Receive(t)
      PROVE  TimersInv'
  BY <1>5, StopTimerInv, OwnerStopsInv, DeleteInv, ExpireInv, ReceiveInv
<1>6. CASE EndExpiries
  BY <1>6, EndExpiriesInv
<1>7. CASE UNCHANGED timersVars
  BY <1>7
  DEF timersVars, timerState, timerSignals, TimersInv, TimersTypeOK, ArmedExactly, FlushInv,
      UnusedInv, CountInv
<1> QED
  BY <1>1, <1>2, <1>3, <1>4, <1>5, <1>6, <1>7 DEF TimersNext

(* The invariant holds throughout.                                           *)
LEMMA TimersInvariant == TimersSpec => []TimersInv
  BY TimersInitInv, TimersNextInv, PTL DEF TimersSpec

-----------------------------------------------------------------------------
(* What the invariant says of one signal, and of what is discarded.          *)
LEMMA AtMostOneSignal == ASSUME TimersInv PROVE OneSignalPerTimer
<1> SUFFICES ASSUME TimersInv, NEW t \in Tids
             PROVE  inflight[t] <= 1 /\ (t \in timers \ stopping => discard_count[t] <= 1)
  BY DEF OneSignalPerTimer
<1>1. /\ inflight[t] \in Nat /\ stale[t] \in Nat /\ discard_count[t] \in Nat
      /\ inflight[t] <= 1 /\ stale[t] <= inflight[t]
  BY DEF TimersInv, TimersTypeOK, FlushInv
<1>2. t \in timers \ stopping => discard_count[t] <= stale[t]
  BY DEF TimersInv, CountInv
<1> QED
  BY <1>1, <1>2

LEMMA ExpiredIsOnItsWay == ASSUME TimersInv PROVE TimeoutIsOnItsWay
<1> SUFFICES ASSUME TimersInv, NEW t \in timers \ stopping, status[t] = "not_armed"
             PROVE  inflight[t] > discard_count[t]
  BY DEF TimeoutIsOnItsWay
<1>1. t \in 1 .. NextTid - 1 /\ NextTid \in 1 .. MaxTid + 1
  BY DEF TimersInv, TimersTypeOK
<1>2. t \in Tids
  BY <1>1, TimersAssumption DEF Tids
<1>3. discard_count[t] \in Nat /\ inflight[t] = 1 /\ stale[t] = 0 /\ discard_count[t] <= stale[t]
  BY <1>2 DEF TimersInv, TimersTypeOK, CountInv
<1> QED
  BY <1>3

LEMMA DiscardedIsStale ==
  ASSUME TimersInv, NEW t \in Tids, Receive(t), t \notin stopping, IsDiscarded(t)
  PROVE  stale[t] > 0
<1>1. discard_count[t] \in Nat /\ stale[t] \in Nat /\ discard_count[t] > 0
  BY DEF TimersInv, TimersTypeOK, IsDiscarded
<1>2. t \in timers
  BY <1>1 DEF TimersInv, UnusedInv
<1> QED
  BY <1>1, <1>2 DEF TimersInv, CountInv

-----------------------------------------------------------------------------
(* Every variable of timers.c keeps its type, and every tid is assigned once. *)
THEOREM TimersTypeCorrect == TimersSpec => []TimersTypeOK
<1>1. TimersInv => TimersTypeOK
  BY DEF TimersInv
<1> QED
  BY <1>1, TimersInvariant, PTL

(* The tree of armed timers (timers.c:78) holds no timer that was stopped or  *)
(* freed, and misses none that is armed.                                      *)
THEOREM ArmedTreeIsExact == TimersSpec => []ArmedExactly
<1>1. TimersInv => ArmedExactly
  BY DEF TimersInv
<1> QED
  BY <1>1, TimersInvariant, PTL

(* However timers are started and stopped between two triggers, each has at   *)
(* most one signal on its way and at most one to discard.                     *)
THEOREM OneSignalAtMost == TimersSpec => []OneSignalPerTimer
  BY AtMostOneSignal, TimersInvariant, PTL

(* The signal of a timer that has expired, and was not stopped since, arrives: *)
(* no earlier stop makes timers_discard() take it.                             *)
THEOREM TimeoutIsKept == TimersSpec => []TimeoutIsOnItsWay
  BY ExpiredIsOnItsWay, TimersInvariant, PTL

(* timers_discard() discards no signal of a timer that was not stopped.       *)
THEOREM NoTimeoutLost == TimersSpec => DiscardsOnlyStopped
<1>1. TimersInv => [\A t \in Tids : Receive(t) /\ t \notin stopping /\ IsDiscarded(t) => stale[t] > 0]_timersVars
  BY DiscardedIsStale
<1> QED
  BY <1>1, TimersInvariant, PTL DEF DiscardsOnlyStopped

-----------------------------------------------------------------------------
(* Every step keeps Tnext at or before the first expiration.                  *)
LEMMA TnextInv == TimersInv /\ NoExpiryMissed /\ [TimersNext]_timersVars => NoExpiryMissed'
<1> SUFFICES ASSUME TimersInv, NoExpiryMissed, [TimersNext]_timersVars
             PROVE  NoExpiryMissed'
  OBVIOUS
<1> USE DEF NoExpiryMissed
<1>1. CASE Tick \/ BeginExpiries \/ EndFlush \/ Timers_create \/ UNCHANGED timersVars
  BY <1>1
  DEF Tick, BeginExpiries, EndFlush, Timers_create, timersVars, timerState, timerSignals
<1>2. CASE InitTimers \/ ResetTimers
  BY <1>2 DEF InitTimers, ResetTimers, TimersInv, ArmedExactly, UnusedInv
<1>3. ASSUME NEW t \in Tids, NEW at \in Times, Timers_start(t, at)
      PROVE  NoExpiryMissed'
  <2>1. /\ at \in Int /\ Tnext \in Int /\ Tnext' = IF at < Tnext THEN at ELSE Tnext
        /\ exptime' = [exptime EXCEPT ![t] = at] /\ armed' = armed \cup {t}
    BY <1>3, TimersAssumption DEF Timers_start, Deactivate, TimersInv, TimersTypeOK, Times, Never
  <2>2. Tnext' <= at /\ Tnext' <= Tnext /\ Tnext' \in Int
    BY <2>1
  <2>3. exptime'[t] = at /\ \A u \in armed' \ {t} : u \in armed /\ exptime'[u] = exptime[u]
    BY <2>1 DEF TimersInv, TimersTypeOK
  <2>4. \A u \in armed : exptime[u] \in Int
    BY DEF TimersInv, TimersTypeOK, Times
  <2> QED
    BY <2>1, <2>2, <2>3, <2>4
<1>4. ASSUME NEW t \in Tids, Timers_stop(t) \/ OwnerStops(t) \/ Expire(t) \/ Receive(t)
      PROVE  NoExpiryMissed'
  BY <1>4 DEF Timers_stop, OwnerStops, Expire, Receive, Deactivate, timerState
<1>5. ASSUME NEW t \in Tids, Delete(t)
      PROVE  NoExpiryMissed'
  BY <1>5 DEF Delete, Deactivate, TimersInv, TimersTypeOK, ArmedExactly
<1>6. CASE EndExpiries
  BY <1>6 DEF EndExpiries, IsFirst, timerState, TimersInv, TimersTypeOK, Times
<1> QED
  BY <1>1, <1>2, <1>3, <1>4, <1>5, <1>6 DEF TimersNext

(* Timers_trigger(), which returns at once before Tnext, passes over no timer *)
(* whose time has come.                                                       *)
THEOREM NoExpiryOverlooked == TimersSpec => []NoExpiryMissed
<1>1. TimersInit => NoExpiryMissed
  BY DEF TimersInit, NoExpiryMissed
<1> QED
  BY <1>1, TnextInv, TimersInvariant, PTL DEF TimersSpec

-----------------------------------------------------------------------------
(* Scripts that stop a timer before they start it again keep the count exact: *)
(* what is to be discarded is what is stale, and a signal that is not stale   *)
(* belongs to a timer that waits for it.                                      *)
ExactCount ==
  \A t \in timers \ stopping :
    /\ discard_count[t] = stale[t]
    /\ inflight[t] = 1 /\ stale[t] = 0 => status[t] = "not_armed"

CarefulInv == TimersInv /\ ExactCount

(* Every step of such scripts keeps the count exact.                          *)
LEMMA CarefulNextInv == CarefulInv /\ [CarefulNext]_timersVars => CarefulInv'
<1> SUFFICES ASSUME CarefulInv, [CarefulNext]_timersVars
             PROVE  ExactCount'
  BY TimersNextInv DEF CarefulInv, CarefulNext
<1> USE DEF CarefulInv, ExactCount
<1>1. CASE Tick \/ BeginExpiries \/ EndFlush \/ EndExpiries \/ InitTimers \/ UNCHANGED timersVars
  BY <1>1
  DEF Tick, BeginExpiries, EndFlush, EndExpiries, InitTimers, timersVars, timerState, timerSignals
<1>2. CASE ResetTimers
  BY <1>2 DEF ResetTimers
<1>3. CASE Timers_create
  <2>1. NextTid \in Tids \ timers
    BY <1>3 DEF Timers_create, TimersInv, TimersTypeOK, Tids
  <2>2. NextTid \notin stopping => /\ inflight[NextTid] = 0 /\ discard_count[NextTid] = 0
                                  /\ stale[NextTid] = 0
    BY <2>1 DEF TimersInv, TimersTypeOK, FlushInv, UnusedInv
  <2> QED
    BY <1>3, <2>2 DEF Timers_create, timerSignals
<1>4. ASSUME NEW t \in Tids, NEW at \in Times, Timers_start(t, at), ~Restarted(t)
      PROVE  ExactCount'
  <2>1. status[t] # "not_armed" /\ status' = [status EXCEPT ![t] = "armed"]
    BY <1>4 DEF Timers_start, Restarted, TimersInv, TimersTypeOK
  <2> QED
    BY <1>4, <2>1 DEF Timers_start, timerSignals, TimersInv, TimersTypeOK
<1>5. ASSUME NEW t \in Tids, Timers_stop(t)
      PROVE  ExactCount'
  <2>1. /\ inflight[t] \in Nat /\ stale[t] \in Nat /\ discard_count[t] \in Nat
        /\ inflight[t] <= 1 /\ stale[t] <= inflight[t]
    BY DEF TimersInv, TimersTypeOK, FlushInv
  <2>2. t \notin stopping =>
          discard_count[t] + (IF status[t] = "not_armed" THEN 1 ELSE 0) = inflight[t]
    BY <1>5, <2>1 DEF Timers_stop, TimersInv, CountInv
  <2>3. t \notin stopping => discard_count'[t] = stale'[t] /\ stale'[t] = inflight'[t]
    BY <1>5, <2>1, <2>2 DEF Timers_stop, TimersInv, TimersTypeOK
  <2>4. \A u \in Tids \ {t} : /\ discard_count'[u] = discard_count[u] /\ stale'[u] = stale[u]
                              /\ inflight'[u] = inflight[u] /\ status'[u] = status[u]
    BY <1>5 DEF Timers_stop, TimersInv, TimersTypeOK
  <2>5. timers' = timers /\ stopping' = stopping /\ timers \subseteq Tids
    BY <1>5, TimersAssumption DEF Timers_stop, TimersInv, TimersTypeOK, Tids
  <2> QED
    BY <2>1, <2>3, <2>4, <2>5
<1>6. ASSUME NEW t \in Tids, OwnerStops(t) \/ Delete(t)
      PROVE  ExactCount'
  <2>1. CASE OwnerStops(t)
    BY <2>1 DEF OwnerStops, timerState, timerSignals
  <2>2. CASE Delete(t)
    BY <2>2 DEF Delete, timerSignals, TimersInv, TimersTypeOK
  <2> QED
    BY <1>6, <2>1, <2>2
<1>7. ASSUME NEW t \in Tids, Expire(t)
      PROVE  ExactCount'
  BY <1>7 DEF Expire, TimersInv, TimersTypeOK
<1>8. ASSUME NEW t \in Tids, Receive(t)
      PROVE  ExactCount'
  <2>1. inflight[t] = 1 /\ stale[t] \in Nat /\ stale[t] <= 1 /\ discard_count[t] \in Nat
    BY <1>8 DEF Receive, TimersInv, TimersTypeOK, FlushInv
  <2>2. inflight'[t] = 0 /\ stale'[t] = 0
    BY <1>8, <2>1 DEF Receive, TimersInv, TimersTypeOK
  <2>3. t \in timers \ stopping => discard_count'[t] = 0
    BY <1>8, <2>1 DEF Receive, IsDiscarded, TimersInv, TimersTypeOK
  <2>4. \A u \in Tids \ {t} : /\ discard_count'[u] = discard_count[u] /\ stale'[u] = stale[u]
                              /\ inflight'[u] = inflight[u] /\ status'[u] = status[u]
    BY <1>8 DEF Receive, TimersInv, TimersTypeOK
  <2>5. timers' = timers /\ stopping' = stopping /\ timers \subseteq Tids
    BY <1>8, TimersAssumption DEF Receive, TimersInv, TimersTypeOK, Tids
  <2> QED
    BY <2>2, <2>3, <2>4, <2>5
<1> QED
  BY <1>1, <1>2, <1>3, <1>4, <1>5, <1>6, <1>7, <1>8 DEF CarefulNext, TimersNext

(* A timer that is stopped after it expired is not heard of, provided it was  *)
(* stopped each time before it was started again (doc/timers.adoc:57).        *)
THEOREM StoppedIsNotHeard == CarefulSpec => StoppedIsDiscarded
<1>1. TimersInit => CarefulInv
  BY TimersInitInv DEF TimersInit, CarefulInv, ExactCount
<1>2. ASSUME CarefulInv, NEW t \in Tids, Receive(t), t \notin stopping, stale[t] > 0
      PROVE  IsDiscarded(t)
  <2>1. inflight[t] # 0
    BY <1>2 DEF Receive
  <2>2. t \in timers
    BY <1>2, <2>1 DEF CarefulInv, TimersInv, UnusedInv
  <2> QED
    BY <1>2, <2>2 DEF CarefulInv, ExactCount, IsDiscarded
<1>3. CarefulInv => [\A t \in Tids : Receive(t) /\ t \notin stopping /\ stale[t] > 0 => IsDiscarded(t)]_timersVars
  BY <1>2
<1> QED
  BY <1>1, <1>3, CarefulNextInv, PTL DEF CarefulSpec, StoppedIsDiscarded

=============================================================================
