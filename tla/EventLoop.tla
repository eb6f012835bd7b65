------------------------------ MODULE EventLoop -------------------------------
(***************************************************************************)
(* Trigger() as the application's loop calls it, but for the release of      *)
(* agents at its end, which is in Engine: the signals whose time has come    *)
(* (Tts), then the timers that have expired (Timers), the flush, and at last *)
(* select() on the monitored sockets, in which Trigger may block until the   *)
(* next timer or time-triggered signal.                                      *)
(*                                                                          *)
(* One agent receives, saves and restores the time-triggered signals; it    *)
(* lives.  Of the ordinary signals it only matters if some are scheduled, of *)
(* the sockets if some are monitored.  select() is external: it returns when *)
(* a socket is ready or its timeout is over.                                 *)
(***************************************************************************)
EXTENDS Timers, Sequences

CONSTANTS
  MaxCnt,  \* bound: time-triggered signals between two resets
  Delays,  \* the arguments maxdelay of send_at(), which may be missing
  None     \* nil

ASSUME LoopAssumption ==
  MaxCnt \in Nat /\ None \notin Nat /\ Delays \subseteq Nat \cup {None}

VARIABLES
  waiting, NextCnt, TtsTnext,   \* of tts.c; its Tnext is not that of timers.c
  stage,                        \* where Trigger is, "app" if it is not running
  scheduled, flushing,          \* PrioSchedulers[1], PrioSchedulers1[1]
  ordinary,                     \* signals are scheduled by send()
  saved,                        \* moonagents_.saved
  signal_,                      \* the time-triggered signal being consumed
  monitored,                    \* #RdSet > 0 or #WrSet > 0
  wake                          \* when the timeout of select() is over

Q == INSTANCE Tts WITH Tnext <- TtsTnext

ttsVars == <<waiting, NextCnt, TtsTnext>>
queues == <<scheduled, flushing, ordinary>>
transition == <<saved, signal_>>
blocking == <<monitored, wake>>
loopVars == <<timersVars, ttsVars, stage, queues, transition, blocking>>

(* { signal, sender, dstpid, sendtime, expiry }                             *)
Entries == [cnt : 0 .. MaxCnt - 1, at : Times, sendtime : Times \cup {None},
            expiry : Times \cup {Never}]

LoopInit ==
  /\ TimersInit /\ Q!TtsInit
  /\ stage = "app"
  /\ scheduled = <<>> /\ flushing = <<>> /\ ordinary = FALSE
  /\ saved = <<>> /\ signal_ = None
  /\ monitored = FALSE /\ wake = 0

(* The application, a transition or a callback runs.                        *)
ScriptsRun ==
  \/ stage \in {"app", "callbacks"}
  \/ stage = "dispatch" /\ tphase = "flush"

-----------------------------------------------------------------------------
(* What scripts and the application do.                                     *)

TimerCalls ==
  /\ ScriptsRun
  /\ \/ Timers_create
     \/ \E t \in Tids, at \in Times : Timers_start(t, at)
     \/ \E t \in Tids : Timers_stop(t) \/ OwnerStops(t) \/ Delete(t)
  /\ UNCHANGED <<ttsVars, stage, queues, transition, blocking>>

(* send_at(); the application may call it before there is a system.         *)
SendAt(at, maxdelay) ==
  /\ ScriptsRun
  /\ Q!TtsSend([cnt |-> NextCnt, at |-> at, sendtime |-> at,
                expiry |-> IF maxdelay = None \/ at + maxdelay > MaxTime
                           THEN Never ELSE at + maxdelay])
  /\ UNCHANGED <<timersVars, stage, queues, transition, blocking>>

SendOrdinary ==
  /\ ScriptsRun /\ tphase # "off"
  /\ ordinary' = TRUE
  /\ UNCHANGED <<timersVars, ttsVars, stage, scheduled, flushing, transition, blocking>>

(* Save reads a misspelt variable, sendime_, which is nil (line 1023).      *)
Save ==
  /\ signal_ # None
  /\ \A i \in DOMAIN saved : saved[i].cnt # signal_.cnt
  /\ \A i \in DOMAIN scheduled : scheduled[i].cnt # signal_.cnt
  /\ saved' = Append(saved, [signal_ EXCEPT !.sendtime = None])
  /\ UNCHANGED <<timersVars, ttsVars, stage, queues, signal_, blocking>>

Restore ==
  /\ ScriptsRun /\ saved # <<>>
  /\ scheduled' = scheduled \o saved
  /\ saved' = <<>>
  /\ UNCHANGED <<timersVars, ttsVars, stage, flushing, ordinary, signal_, blocking>>

(* socket_add() and socket_remove()                                         *)
Monitor ==
  /\ ScriptsRun
  /\ monitored' \in BOOLEAN
  /\ UNCHANGED <<timersVars, ttsVars, stage, queues, transition, wake>>

CreateSystem ==
  /\ stage = "app" /\ InitTimers
  /\ UNCHANGED <<ttsVars, stage, queues, transition, blocking>>

(* ResetSystem.  It does not reach the RdSet and WrSet of line 595.         *)
ResetSystem ==
  /\ stage = "app" /\ ResetTimers /\ Q!TtsReset
  /\ scheduled' = <<>> /\ flushing' = <<>> /\ ordinary' = FALSE
  /\ saved' = <<>>
  /\ UNCHANGED <<stage, signal_, blocking>>

Time ==
  /\ Tick
  /\ stage = "select" => now < wake
  /\ UNCHANGED <<ttsVars, stage, queues, transition, blocking>>

-----------------------------------------------------------------------------
(* Trigger                                                                  *)

StartTrigger ==
  /\ stage = "app" /\ tphase = "idle"
  /\ stage' = "popping"
  /\ UNCHANGED <<timersVars, ttsVars, queues, transition, blocking>>

(* Scheduled with the highest priority; its sendtime is adjusted.           *)
PopTimed(s) ==
  /\ stage = "popping"
  /\ Q!TtsPop(s, now)
  /\ scheduled' = Append(scheduled, [s EXCEPT !.sendtime = now])
  /\ UNCHANGED <<timersVars, stage, flushing, ordinary, transition, blocking>>

(* The copies are swapped when timers_trigger() is done.                    *)
Swap ==
  IF tphase' = "flush"
  THEN flushing' = scheduled /\ scheduled' = <<>> /\ ordinary' = FALSE
  ELSE UNCHANGED queues

TriggerTimers ==
  /\ stage = "popping" /\ now < TtsTnext
  /\ BeginExpiries /\ Swap
  /\ stage' = "dispatch"
  /\ UNCHANGED <<ttsVars, transition, blocking>>

ExpireTimer(t) ==
  /\ Expire(t)
  /\ UNCHANGED <<ttsVars, stage, queues, transition, blocking>>

TimersTriggered ==
  /\ EndExpiries /\ Swap
  /\ UNCHANGED <<ttsVars, stage, transition, blocking>>

(* Dispatch: a transition, unless the signal is stale.                      *)
Take(s) ==
  /\ tphase = "flush" /\ signal_ = None
  /\ flushing # <<>> /\ s = Head(flushing)
  /\ flushing' = Tail(flushing)
  /\ signal_' = IF now > s.expiry THEN None ELSE s
  /\ UNCHANGED <<timersVars, ttsVars, stage, scheduled, ordinary, saved, blocking>>

TransitionReturns ==
  /\ signal_ # None
  /\ signal_' = None
  /\ UNCHANGED <<timersVars, ttsVars, stage, queues, saved, blocking>>

(* Signals of timers are in the normal queue.                               *)
TakeTimerSignal(t) ==
  /\ signal_ = None /\ flushing = <<>>
  /\ Receive(t)
  /\ UNCHANGED <<ttsVars, stage, queues, transition, blocking>>

(* select() gets a timeout: none, 0 (also for a time that has passed), or   *)
(* until the next timer or time-triggered signal.                           *)
Earliest == IF Tnext < TtsTnext THEN Tnext ELSE TtsTnext

WakeWheneverAllowed(canblock) ==  \* a wrong variant: what is scheduled waits
  IF canblock THEN Earliest ELSE now

WakeForSignalsOnly(canblock) ==  \* a wrong variant: timers_tnext() forgotten
  IF canblock /\ scheduled = <<>> /\ ~ordinary THEN TtsTnext ELSE now

Wake(canblock) ==
  IF canblock /\ scheduled = <<>> /\ ~ordinary THEN Earliest ELSE now

Flushed(canblock) ==
  /\ signal_ = None /\ flushing = <<>>
  /\ EndFlush
  /\ \/ monitored /\ stage' = "select" /\ wake' = Wake(canblock)
     \/ ~monitored /\ stage' = "app" /\ UNCHANGED wake
  /\ UNCHANGED <<ttsVars, queues, transition, monitored>>

SelectTimeout ==
  /\ stage = "select" /\ wake <= now
  /\ stage' = "app" /\ wake' = 0
  /\ UNCHANGED <<timersVars, ttsVars, queues, transition, monitored>>

SocketReady ==
  /\ stage = "select"
  /\ stage' = "callbacks" /\ wake' = 0
  /\ UNCHANGED <<timersVars, ttsVars, queues, transition, monitored>>

CallbacksDone ==
  /\ stage = "callbacks"
  /\ stage' = "app"
  /\ UNCHANGED <<timersVars, ttsVars, queues, transition, blocking>>

TriggerStep ==
  \/ StartTrigger \/ TriggerTimers \/ TimersTriggered
  \/ \E s \in waiting : PopTimed(s)
  \/ \E t \in Tids : ExpireTimer(t) \/ TakeTimerSignal(t)
  \/ \E s \in Entries : Take(s)
  \/ TransitionReturns
  \/ \E canblock \in BOOLEAN : Flushed(canblock)
  \/ SelectTimeout \/ CallbacksDone

-----------------------------------------------------------------------------
LoopNext ==
  \/ Time \/ CreateSystem \/ ResetSystem
  \/ TimerCalls
  \/ \E at \in Times, maxdelay \in Delays : SendAt(at, maxdelay)
  \/ SendOrdinary \/ Save \/ Restore \/ Monitor
  \/ TriggerStep \/ SocketReady

LoopSpec == LoopInit /\ [][LoopNext]_loopVars

(* The application calls trigger() in its loop, transitions and callbacks   *)
(* return, and so does select() when its timeout is over.  No socket has to  *)
(* become ready, and time does not have to pass.                            *)
FairLoopSpec == LoopSpec /\ WF_loopVars(TriggerStep)

-----------------------------------------------------------------------------
(* Types of what the loop adds to the timers; a counter that is in use is    *)
(* below NextCnt, so no two signals of the tree compare equal (tts.c:47).    *)
LoopTypeOK ==
  /\ waiting \subseteq Entries
  /\ \A s \in waiting : s.cnt < NextCnt /\ \A t \in waiting : s.cnt = t.cnt => s = t
  /\ NextCnt \in 0 .. MaxCnt /\ TtsTnext \in Times \cup {Never}
  /\ stage \in {"app", "popping", "dispatch", "select", "callbacks"}
  /\ scheduled \in Seq(Entries) /\ flushing \in Seq(Entries) /\ saved \in Seq(Entries)
  /\ ordinary \in BOOLEAN /\ monitored \in BOOLEAN
  /\ signal_ \in Entries \cup {None}
  /\ wake \in Times \cup {Never}

(* Tnext is the time of the first signal, or never (tts.c:89, 108): TtsPop   *)
(* relies on it to tell that First() returns a signal, and a due one.        *)
TtsTnextExact ==
  /\ \A s \in waiting : TtsTnext <= s.at
  /\ TtsTnext # Never => \E s \in waiting : TtsTnext = s.at

(* No time-triggered signal is scheduled, received or saved before its time. *)
NotBeforeItsTime ==
  /\ \A q \in {scheduled, flushing, saved} : \A i \in DOMAIN q : q[i].at <= now
  /\ signal_ # None => signal_.at <= now

(* Within a trigger, time-triggered signals are dispatched by their times,   *)
(* those of equal times in the order they were sent, and after those that    *)
(* were restored (Trigger, lines 763-769).                                   *)
InOrderOfTime ==
  \A i, j \in DOMAIN flushing :
    i < j /\ flushing[j].sendtime # None =>
      \/ flushing[i].sendtime = None
      \/ flushing[i].at < flushing[j].at
      \/ flushing[i].at = flushing[j].at /\ flushing[i].cnt < flushing[j].cnt

(* Trigger never sleeps past what is due, nor on scheduled signals: while it *)
(* blocks in select(), no signal waits for dispatching and the timeout ends  *)
(* before the first timer or time-triggered signal (line 790).               *)
SleepsNotPastDue ==
  stage = "select" /\ now < wake =>
    /\ scheduled = <<>> /\ ~ordinary
    /\ \A t \in armed : wake <= exptime[t]
    /\ \A s \in waiting : wake <= s.at

(* A signal whose time has come is scheduled, and a timer expires, unless the *)
(* system is reset or the timer is stopped or deleted: Trigger does not wait  *)
(* in select() for ever for what only itself can do (lines 763, 793).         *)
DueIsSent ==
  /\ \A c \in 0 .. MaxCnt - 1 :
       LET IsDue == tphase # "off" /\ \E s \in waiting : s.cnt = c /\ s.at <= now
       IN IsDue ~> ~IsDue
  /\ DueTimerExpires

=============================================================================
