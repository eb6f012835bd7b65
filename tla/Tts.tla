--------------------------------- MODULE Tts ----------------------------------
(***************************************************************************)
(* The queue of time-triggered signals of src/tts.c: signals that wait for  *)
(* their time, ordered by it and, at equal times, by a counter.             *)
(*                                                                          *)
(* A signal is known by its counter.  A time before 0 is left out: First()   *)
(* searches from 0 on and never finds it (tts.c:60).                        *)
(***************************************************************************)
EXTENDS Integers

CONSTANTS
  MaxCnt,   \* bound: signals sent between two resets (64 bits in the code)
  MaxTime   \* bound: system time, and times of delivery

VARIABLES
  waiting,   \* the signals in the tree
  NextCnt, Tnext

ttsVars == <<waiting, NextCnt, Tnext>>

Times == 0 .. MaxTime
Never == MaxTime + 1  \* HUGE_VAL

TtsInit == waiting = {} /\ NextCnt = 0 /\ Tnext = Never

(* The order of the tree, and its first signal.                             *)
BeforeByTime(s, t) ==  \* a wrong variant: equal times in any order
  s.at < t.at \/ (s.at = t.at /\ s.cnt > t.cnt)

Before(s, t) == s.at < t.at \/ (s.at = t.at /\ s.cnt < t.cnt)

IsFirst(s, tree) == s \in tree /\ \A t \in tree \ {s} : Before(s, t)

(* tts_send()                                                               *)
TtsSendLeavingTnext(s) ==  \* a wrong variant: Tnext is not lowered
  /\ NextCnt < MaxCnt /\ s.cnt = NextCnt
  /\ NextCnt' = NextCnt + 1
  /\ waiting' = waiting \cup {s}
  /\ Tnext' = IF waiting = {} THEN s.at ELSE Tnext

TtsSend(s) ==
  /\ NextCnt < MaxCnt /\ s.cnt = NextCnt
  /\ NextCnt' = NextCnt + 1
  /\ waiting' = waiting \cup {s}
  /\ Tnext' = IF s.at < Tnext THEN s.at ELSE Tnext

(* tts_pop(): Tnext alone tells that there is a signal whose time has come. *)
TtsPopLeavingTnext(s, now) ==  \* a wrong variant: Tnext stays that of s
  /\ Tnext <= now
  /\ IsFirst(s, waiting)
  /\ waiting' = waiting \ {s}
  /\ Tnext' = IF waiting' = {} THEN Never ELSE Tnext
  /\ UNCHANGED NextCnt

TtsPop(s, now) ==
  /\ Tnext <= now
  /\ IsFirst(s, waiting)
  /\ waiting' = waiting \ {s}
  /\ \/ waiting' = {} /\ Tnext' = Never
     \/ \E t \in waiting' : IsFirst(t, waiting') /\ Tnext' = t.at
  /\ UNCHANGED NextCnt

(* tts_reset()                                                              *)
TtsReset == waiting' = {} /\ Tnext' = Never /\ NextCnt' = 0

=============================================================================
