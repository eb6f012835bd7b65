-------------------------------- MODULE Timers --------------------------------
(***************************************************************************)
(* The timers of src/timers.c, in the life that engine.lua gives them: they *)
(* expire at the beginning of Trigger, which then dispatches the signals of *)
(* the expired ones with all others.  While it does, the transitions it runs *)
(* start and stop timers, also those whose signal is on its way.            *)
(*                                                                          *)
(* A timer is active "from the moment of setting up to the moment of        *)
(* consumption of the timer signal" (timers.c:28), so a timer that is        *)
(* stopped after it expired must not be heard of: its signal is discarded    *)
(* when it reaches the dispatcher.                                           *)
(*                                                                          *)
(* Durations and signal names make no difference here: timer_modify() is a  *)
(* stop.  Signals of one timer keep their order (Schedulers), so they are    *)
(* counted.                                                                  *)
(***************************************************************************)
EXTENDS Integers

CONSTANTS
  MaxTid,    \* bound: timers created between two resets
  MaxTime,   \* bound: system time; it does not pass
  MaxStops   \* bound: the discard_count of timers whose owner is stopping

ASSUME TimersAssumption ==
  MaxTid \in Nat /\ MaxTime \in Nat /\ MaxStops \in Nat

Tids == 1 .. MaxTid
Times == 0 .. MaxTime
Never == MaxTime + 1  \* HUGE_VAL

VARIABLES
  now,
  tphase,          \* "off" before timers_init(), "idle", "expiring" and "flush" in Trigger
  tnow,           \* the local of Timers_trigger
  NextTid, Tnext,
  timers,         \* the tids in the tree
  armed,          \* those in the tree of armed timers
  status, exptime, discard_count,
  stopping,       \* not in timers.c: timers whose owner is stopping
  inflight,       \* how many signals of each timer are scheduled
  stale           \* not in the code: how many of those were sent before the timer
                  \* was stopped

timerState == <<NextTid, timers, armed, status, exptime, discard_count>>
timerSignals == <<inflight, stale>>
timersVars == <<now, tphase, tnow, Tnext, timerState, stopping, timerSignals>>

Zero == [t \in Tids |-> 0]

TimersInit ==
  /\ now = 0 /\ tphase = "off" /\ tnow = 0
  /\ NextTid = 1 /\ Tnext = Never
  /\ timers = {} /\ armed = {}
  /\ status = [t \in Tids |-> "inactive"] /\ exptime = Zero /\ discard_count = Zero
  /\ stopping = {} /\ inflight = Zero /\ stale = Zero

Tick ==
  /\ now < MaxTime
  /\ now' = now + 1
  /\ UNCHANGED <<tphase, tnow, Tnext, timerState, stopping, timerSignals>>

(* Scripts run, and may manage their timers.                                *)
Scripts == tphase \in {"idle", "flush"}

-----------------------------------------------------------------------------
Deactivate(t) == armed \ {t}

(* timers_init(), called by CreateSystem_: there are no timers.             *)
InitTimers ==
  /\ tphase = "off"
  /\ tphase' = "idle" /\ Tnext' = Never /\ NextTid' = 1
  /\ UNCHANGED <<now, tnow, timers, armed, status, exptime, discard_count, stopping, timerSignals>>

(* timers_reset(), called by ResetSystem, which drops the signals too.      *)
ResetTimers ==
  /\ tphase = "idle"
  /\ tphase' = "off"
  /\ timers' = {} /\ armed' = {} /\ stopping' = {}
  /\ status' = [t \in Tids |-> "inactive"] /\ exptime' = Zero /\ discard_count' = Zero
  /\ inflight' = Zero /\ stale' = Zero
  /\ UNCHANGED <<now, tnow, NextTid, Tnext>>

(* By an agent that may be stopping already.                                *)
Timers_create ==
  /\ Scripts /\ NextTid \in Tids
  /\ NextTid' = NextTid + 1
  /\ timers' = timers \cup {NextTid}
  /\ stopping' \in {stopping, stopping \cup {NextTid}}
  /\ UNCHANGED <<now, tphase, tnow, Tnext, armed, status, exptime, discard_count, timerSignals>>

(* timer_start(), for an expiration time that may be in the past.           *)
StartLeavingTnext(t, at) ==  \* a wrong variant: Tnext is not lowered
  /\ Scripts /\ t \in timers
  /\ exptime' = [exptime EXCEPT ![t] = at]
  /\ armed' = Deactivate(t) \cup {t}
  /\ status' = [status EXCEPT ![t] = "armed"]
  /\ UNCHANGED <<now, tphase, tnow, Tnext, NextTid, timers, discard_count, stopping, timerSignals>>

Timers_start(t, at) ==
  /\ Scripts /\ t \in timers
  /\ exptime' = [exptime EXCEPT ![t] = at]
  /\ armed' = Deactivate(t) \cup {t}
  /\ status' = [status EXCEPT ![t] = "armed"]
  /\ Tnext' = IF at < Tnext THEN at ELSE Tnext
  /\ UNCHANGED <<now, tphase, tnow, NextTid, timers, discard_count, stopping, timerSignals>>

(* By the static Stop() of timers.c, which timer_modify() calls too.  The    *)
(* signals of an owner that is stopping are dropped before timers_discard()  *)
(* is asked (681), so that its counts are never taken back: they are bounded *)
(* by MaxStops, the others by OneSignalPerTimer only.                        *)
StopCountingAlways(t) ==  \* a wrong variant: counts a signal that was not sent
  /\ Scripts /\ t \in timers
  /\ t \in stopping => discard_count[t] < MaxStops
  /\ armed' = IF status[t] = "armed" THEN Deactivate(t) ELSE armed
  /\ discard_count' = IF status[t] # "inactive" THEN [discard_count EXCEPT ![t] = @ + 1]
                                                ELSE discard_count
  /\ status' = [status EXCEPT ![t] = "inactive"]
  /\ stale' = [stale EXCEPT ![t] = inflight[t]]
  /\ UNCHANGED <<now, tphase, tnow, Tnext, NextTid, timers, exptime, stopping, inflight>>

Timers_stop(t) ==
  /\ Scripts /\ t \in timers
  /\ t \in stopping => discard_count[t] < MaxStops
  /\ armed' = IF status[t] = "armed" THEN Deactivate(t) ELSE armed
  /\ discard_count' = IF status[t] = "not_armed" THEN [discard_count EXCEPT ![t] = @ + 1]
                                                 ELSE discard_count
  /\ status' = [status EXCEPT ![t] = "inactive"]
  /\ stale' = [stale EXCEPT ![t] = inflight[t]]
  /\ UNCHANGED <<now, tphase, tnow, Tnext, NextTid, timers, exptime, stopping, inflight>>

(* Neither the duration nor the name is looked at here.                      *)
SetDuration(t) == Timers_stop(t)
SetSigname(t) == Timers_stop(t)

(* The owner stops: Dispatch takes no signal to it any more (line 681), and *)
(* when it terminates its timers are deleted.                               *)
OwnerStops(t) ==
  /\ Scripts /\ t \in timers
  /\ stopping' = stopping \cup {t}
  /\ UNCHANGED <<now, tphase, tnow, Tnext, timerState, timerSignals>>

Delete(t) ==
  /\ Scripts /\ t \in timers \cap stopping
  /\ armed' = IF status[t] = "armed" THEN Deactivate(t) ELSE armed
  /\ timers' = timers \ {t}
  /\ status' = [status EXCEPT ![t] = "inactive"]
  /\ exptime' = [exptime EXCEPT ![t] = 0] /\ discard_count' = [discard_count EXCEPT ![t] = 0]
  /\ UNCHANGED <<now, tphase, tnow, Tnext, NextTid, stopping, timerSignals>>

-----------------------------------------------------------------------------
(* Trigger: timers_trigger(), which executes TimersCallback for each timer  *)
(* that has expired, in the order of their expiration times ...             *)

(* ArmedFirst().  It searches from exptime = 0.0 on: an `at' before that, of *)
(* a timer that would never be found, is left out.                           *)
IsFirst(t) ==
  /\ t \in armed
  /\ \A u \in armed : exptime[t] < exptime[u] \/ (exptime[t] = exptime[u] /\ t <= u)

BeginExpiries ==
  /\ tphase = "idle"
  /\ IF now < Tnext THEN tphase' = "flush" /\ UNCHANGED tnow
                     ELSE tphase' = "expiring" /\ tnow' = now
  /\ UNCHANGED <<now, Tnext, timerState, stopping, timerSignals>>

ExpireStillArmed(t) ==  \* a wrong variant: the status is left for later
  /\ tphase = "expiring"
  /\ IsFirst(t) /\ exptime[t] <= tnow
  /\ armed' = Deactivate(t)
  /\ inflight' = [inflight EXCEPT ![t] = @ + 1]
  /\ UNCHANGED <<now, tphase, tnow, Tnext, NextTid, timers, status, exptime, discard_count, stopping, stale>>

Expire(t) ==
  /\ tphase = "expiring"
  /\ IsFirst(t) /\ exptime[t] <= tnow
  /\ armed' = Deactivate(t)
  /\ status' = [status EXCEPT ![t] = "not_armed"]
  /\ inflight' = [inflight EXCEPT ![t] = @ + 1]
  /\ UNCHANGED <<now, tphase, tnow, Tnext, NextTid, timers, exptime, discard_count, stopping, stale>>

EndExpiries ==
  /\ tphase = "expiring"
  /\ \A t \in armed : exptime[t] > tnow
  /\ \/ \E t \in armed : IsFirst(t) /\ Tnext' = exptime[t]
     \/ armed = {} /\ Tnext' = Never
  /\ tphase' = "flush" /\ tnow' = 0
  /\ UNCHANGED <<now, timerState, stopping, timerSignals>>

(* ... then the flush of all that is scheduled.                             *)
IsDiscarded(t) == discard_count[t] > 0

(* Dispatch of a signal of t: timers_discard() tells if it is stale, unless *)
(* its destination is stopping.                                             *)
ReceiveUncounting(t) ==  \* a wrong variant: what was discarded counts again
  /\ tphase = "flush" /\ inflight[t] > 0
  /\ inflight' = [inflight EXCEPT ![t] = @ - 1]
  /\ stale' = [stale EXCEPT ![t] = IF @ > 0 THEN @ - 1 ELSE 0]
  /\ status' = IF t \notin stopping /\ status[t] # "armed" /\ discard_count[t] = 0
               THEN [status EXCEPT ![t] = "inactive"] ELSE status
  /\ UNCHANGED <<now, tphase, tnow, Tnext, NextTid, timers, armed, exptime, discard_count, stopping>>

Receive(t) ==
  /\ tphase = "flush" /\ inflight[t] > 0
  /\ inflight' = [inflight EXCEPT ![t] = @ - 1]
  /\ stale' = [stale EXCEPT ![t] = IF @ > 0 THEN @ - 1 ELSE 0]
  /\ discard_count' = IF t \notin stopping /\ IsDiscarded(t)
                      THEN [discard_count EXCEPT ![t] = @ - 1] ELSE discard_count
  /\ status' = IF t \notin stopping /\ status[t] # "armed" /\ discard_count'[t] = 0
               THEN [status EXCEPT ![t] = "inactive"] ELSE status
  /\ UNCHANGED <<now, tphase, tnow, Tnext, NextTid, timers, armed, exptime, stopping>>

EndFlushEarly ==  \* a wrong variant: signals may be left for the next trigger
  /\ tphase = "flush"
  /\ tphase' = "idle"
  /\ UNCHANGED <<now, tnow, Tnext, timerState, stopping, timerSignals>>

EndFlush ==
  /\ tphase = "flush" /\ inflight = Zero
  /\ tphase' = "idle"
  /\ UNCHANGED <<now, tnow, Tnext, timerState, stopping, timerSignals>>

-----------------------------------------------------------------------------
TimersNext ==
  \/ Tick \/ InitTimers \/ ResetTimers \/ Timers_create
  \/ \E t \in Tids, at \in Times : Timers_start(t, at)
  \/ \E t \in Tids : Timers_stop(t) \/ OwnerStops(t) \/ Delete(t) \/ Expire(t) \/ Receive(t)
  \/ BeginExpiries \/ EndExpiries \/ EndFlush

TimersSpec == TimersInit /\ [][TimersNext]_timersVars

(* Scripts that stop a timer whose signal is on its way before they start   *)
(* it again.                                                                *)
Restarted(t) == status[t] = "not_armed" /\ status'[t] = "armed"
CarefulNext == TimersNext /\ \A t \in Tids : ~Restarted(t)
CarefulSpec == TimersInit /\ [][CarefulNext]_timersVars

(* The application calls trigger() in its loop, and the loops of Trigger     *)
(* proceed.                                                                 *)
FairTimersSpec ==
  /\ TimersSpec
  /\ WF_timersVars(BeginExpiries) /\ WF_timersVars(EndExpiries) /\ WF_timersVars(EndFlush)
  /\ \A t \in Tids : WF_timersVars(Expire(t)) /\ WF_timersVars(Receive(t))

-----------------------------------------------------------------------------
(* Types; a tid that is in use is below NextTid, so no tid is assigned twice. *)
TimersTypeOK ==
  /\ now \in 0 .. MaxTime /\ tnow \in 0 .. MaxTime
  /\ tphase \in {"off", "idle", "expiring", "flush"}
  /\ NextTid \in 1 .. MaxTid + 1 /\ Tnext \in Times \cup {Never}
  /\ timers \subseteq 1 .. NextTid - 1 /\ armed \subseteq Tids
  /\ status \in [Tids -> {"inactive", "armed", "not_armed"}]
  /\ exptime \in [Tids -> Times]
  /\ stopping \subseteq Tids
  /\ inflight \in [Tids -> Nat] /\ stale \in [Tids -> Nat] /\ discard_count \in [Tids -> Nat]

(* The tree of armed timers holds the timers that are armed, and no other:   *)
(* none that was freed or stopped (Deactivate, timers.c:108).               *)
ArmedExactly == armed = {t \in timers : status[t] = "armed"}

(* Tnext, by which Timers_trigger decides to do nothing at all (timers.c:158) *)
(* is never later than an expiration.                                        *)
NoExpiryMissed == \A t \in armed : Tnext <= exptime[t]

(* A timer has at most one signal on its way and, while its owner receives   *)
(* signals, at most one to discard, however often it is started, stopped and  *)
(* modified (timers.c:244) in however many triggers.                         *)
OneSignalPerTimer ==
  \A t \in Tids : inflight[t] <= 1 /\ (t \in timers \ stopping => discard_count[t] <= 1)

(* A timer that has expired and is not stopped since has its signal on its   *)
(* way, and no stop of the past makes the dispatcher discard it.             *)
TimeoutIsOnItsWay ==
  \A t \in timers \ stopping :
    status[t] = "not_armed" => inflight[t] > discard_count[t]

(* The dispatcher discards no signal of a timer that was not stopped after   *)
(* the signal was sent (engine.lua:691).                                     *)
DiscardsOnlyStopped ==
  [][\A t \in Tids : Receive(t) /\ t \notin stopping /\ IsDiscarded(t) => stale[t] > 0]_timersVars

(* "if the timer is stopped after its expiry but before the signal is         *)
(* received, the signal is discarded" (doc/timers.adoc:57, timers.c:31).     *)
StoppedIsDiscarded ==
  [][\A t \in Tids : Receive(t) /\ t \notin stopping /\ stale[t] > 0 => IsDiscarded(t)]_timersVars

(* A timer whose time has come expires, unless it is stopped or started anew *)
(* before the next trigger finds it.                                         *)
Due(t) == t \in armed /\ exptime[t] <= now

DueTimerExpires == \A t \in Tids : Due(t) ~> ~Due(t)

=============================================================================
