----------------------------- MODULE TimeQueue -----------------------------
(***************************************************************************)
(* The timers of one event loop: a set ordered by expiration, and one       *)
(* timerfd that is set for the first of them. All of it runs on the loop's  *)
(* thread; time passes between any two of its steps.                        *)
(*                                                                         *)
(* Timers are kept by the wall clock and the timerfd runs by the monotonic  *)
(* one. An expiration is modelled by how far it lies ahead of the wall      *)
(* clock (0 when it is due), so that time need not be bounded.              *)
(***************************************************************************)
EXTENDS Integers, FiniteSets

CONSTANTS
  Timer,      (* the Timer objects; a deleted one may be allocated again   *)
  Wait,       (* wait times RunAfter and RunEvery are called with, in ticks *)
  MinDelay,   (* the 100 microseconds of ResetTimerFd, in ticks             *)
  Step        (* by how much the wall clock may go on in a tick             *)

ASSUME TimeQueueAssumption ==
  /\ Wait \subseteq Nat \ {0}
  /\ MinDelay \in Nat \ {0}
  /\ Step \subseteq {0, 1}

VARIABLES
  where,      (* Timer -> "none", "timers" or "active" (active_timers)      *)
  left,       (* Timer -> expiration, ahead of the wall clock               *)
  interval,   (* Timer -> 0 for a timer that does not repeat                *)
  fdLeft,     (* when the timerfd expires; 0: it is not set                 *)
  readable,   (* the timerfd has expired and was not read                   *)
  chs,        (* what epoll_wait returned and is not handled yet            *)
  pc

vars == <<where, left, interval, fdLeft, readable, chs, pc>>

Larger(a, b) == IF a < b THEN b ELSE a

timers        == {t \in Timer : where[t] = "timers"}
active_timers == {t \in Timer : where[t] = "active"}

Init ==
  /\ where = [t \in Timer |-> "none"]
  /\ left = [t \in Timer |-> 0]
  /\ interval = [t \in Timer |-> 0]
  /\ fdLeft = 0
  /\ readable = FALSE
  /\ chs = {}
  /\ pc = "poll"

-----------------------------------------------------------------------------

(* A tick of the monotonic clock; the wall clock may lag. The timerfd fires *)
(* once.                                                                    *)
Tick(d) ==
  /\ fdLeft' = Larger(fdLeft - 1, 0)
  /\ readable' = (readable \/ fdLeft = 1)
  /\ left' = [t \in Timer |-> Larger(left[t] - d, 0)]
  /\ UNCHANGED <<where, interval, chs, pc>>

(* epoll_wait, with other channels of the loop; the timerfd is watched      *)
(* level-triggered.                                                         *)
Poll ==
  /\ pc = "poll"
  /\ \E other \in SUBSET {"other"} :
       chs' = other \cup (IF readable THEN {"timer"} ELSE {})
  /\ chs' # {}
  /\ pc' = "events"
  /\ UNCHANGED <<where, left, interval, fdLeft, readable>>

PollAgain ==
  /\ pc = "events"
  /\ chs = {}
  /\ pc' = "poll"
  /\ UNCHANGED <<where, left, interval, fdLeft, readable, chs>>

(* Another channel's callback needs no timer. *)
NoTimer ==
  /\ pc = "events"
  /\ chs' = chs \ {"other"}
  /\ chs' # chs
  /\ UNCHANGED <<where, left, interval, fdLeft, readable, pc>>

(* Mistake (WakesInTime): the timerfd is set for the first timer only. *)
ResetInstantlyIfEmpty(wait) == timers = {}

(* Insert: is the new timer the first? *)
ResetInstantly(wait) == timers = {} \/ \A t \in timers : wait < left[t]

(* RunAfter and RunEvery, from another channel's callback (or from Server's *)
(* constructor, before the loop).                                           *)
AddTimer(t, wait, repeat) ==
  /\ pc = "events"
  /\ "other" \in chs
  /\ where[t] = "none"
  /\ where' = [where EXCEPT ![t] = "timers"]
  /\ left' = [left EXCEPT ![t] = wait]
  /\ interval' = [interval EXCEPT ![t] = IF repeat THEN wait ELSE 0]
  /\ pc' = IF ResetInstantly(wait) THEN "arm" ELSE "events"
  /\ chs' = chs \ {"other"}
  /\ UNCHANGED <<fdLeft, readable>>

(* handleRead begins: read on a non-blocking descriptor. *)
ReadFd ==
  /\ pc = "events"
  /\ "timer" \in chs
  /\ chs' = chs \ {"timer"}
  /\ readable' = FALSE
  /\ pc' = "read"
  /\ UNCHANGED <<where, left, interval, fdLeft>>

(* The timers that are due leave the set and their callbacks run; those of  *)
(* this program (ActiveCloseConn, clear_log) use no timer.                  *)
RunDue ==
  /\ pc = "read"
  /\ where' = [t \in Timer |-> IF t \in timers /\ left[t] = 0
                                 THEN "active" ELSE where[t]]
  /\ pc' = "reset"
  /\ UNCHANGED <<left, interval, fdLeft, readable, chs>>

(* Mistake (RepeatContinues): every timer that ran is deleted. *)
RestartDeletes(t) ==
  /\ where' = [where EXCEPT ![t] = "none"]
  /\ UNCHANGED <<left, interval>>

(* A round of ResetTimers' loop. *)
Restart(t) ==
  \/ /\ interval[t] # 0
     /\ left' = [left EXCEPT ![t] = interval[t]]
     /\ where' = [where EXCEPT ![t] = "timers"]
     /\ UNCHANGED interval
  \/ /\ interval[t] = 0
     /\ where' = [where EXCEPT ![t] = "none"]
     /\ UNCHANGED <<left, interval>>

ResetTimer(t) ==
  /\ pc = "reset"
  /\ t \in active_timers
  /\ Restart(t)
  /\ UNCHANGED <<fdLeft, readable, chs, pc>>

(* Mistake (TimersRun): only a timer that repeats needs the timerfd. *)
TimersLeftRepeat == \E t \in timers : interval[t] # 0

TimersLeft == timers # {}

(* The end of ResetTimers. *)
TimersReset ==
  /\ pc = "reset"
  /\ active_timers = {}
  /\ pc' = IF TimersLeft THEN "arm" ELSE "events"
  /\ UNCHANGED <<where, left, interval, fdLeft, readable, chs>>

Delay(t) == Larger(left[t], MinDelay)

(* ResetTimerFd, for timers.begin(): setting a timerfd takes back an        *)
(* expiration that was not read.                                            *)
ResetTimerFd ==
  /\ pc = "arm"
  /\ \E t \in timers :
       /\ \A u \in timers : left[t] <= left[u]
       /\ fdLeft' = Delay(t)
  /\ readable' = FALSE
  /\ pc' = "events"
  /\ UNCHANGED <<where, left, interval, chs>>

Handle ==
  \/ PollAgain
  \/ NoTimer
  \/ \E t \in Timer, wait \in Wait, repeat \in BOOLEAN :
       AddTimer(t, wait, repeat)
  \/ ReadFd
  \/ RunDue
  \/ \E t \in Timer : ResetTimer(t)
  \/ TimersReset
  \/ ResetTimerFd

Next == Poll \/ Handle \/ \E d \in Step : Tick(d)

Spec == Init /\ [][Next]_vars

(* The thread runs, epoll_wait returns when the timerfd is readable, and    *)
(* both clocks go on.                                                       *)
FairSpec ==
  /\ Spec
  /\ WF_vars(Handle)
  /\ WF_vars(readable /\ Poll)
  /\ WF_vars(1 \in Step /\ Tick(1))

-----------------------------------------------------------------------------

Ahead == UNION {0 .. w : w \in Wait \cup {MinDelay}}

(* Type invariant. *)
TypeOK ==
  /\ where \in [Timer -> {"none", "timers", "active"}]
  /\ left \in [Timer -> Ahead]
  /\ interval \in [Timer -> Wait \cup {0}]
  /\ fdLeft \in Ahead
  /\ readable \in BOOLEAN
  /\ chs \subseteq {"timer", "other"}
  /\ pc \in {"poll", "events", "read", "reset", "arm"}

(* Whenever the loop waits or handles other channels, the timerfd wakes it  *)
(* for every timer: it has fired, or it will not fire after any timer is    *)
(* due (or the least delay from now). It is one-shot, set by whichever of   *)
(* AddTimer and ResetTimers saw that it has to be.                          *)
WakesInTime ==
  pc \in {"poll", "events"} =>
    \A t \in timers :
      \/ readable \/ "timer" \in chs
      \/ fdLeft # 0 /\ fdLeft <= Larger(left[t], MinDelay)

(* Every timer runs in the end, even when the timerfd fires early (the wall *)
(* clock lags) or is taken back by AddTimer after it has fired.             *)
TimersRun == \A t \in Timer : where[t] = "timers" ~> where[t] = "active"

(* A timer that repeats never stops. *)
RepeatContinues ==
  \A t \in Timer :
    [](where[t] = "timers" /\ interval[t] # 0 => []<>(where[t] = "active"))
=============================================================================
