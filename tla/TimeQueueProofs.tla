-------------------------- MODULE TimeQueueProofs --------------------------
(***************************************************************************)
(* For every number of timers and all wait times: the timerfd always wakes  *)
(* the loop for every timer. The type invariant and WakesInTime are         *)
(* inductive together, once it is known that the loop only waits when it    *)
(* has handled all that epoll_wait returned.                                *)
(***************************************************************************)
EXTENDS IdleClose, TLAPS

AllHandled == pc = "poll" => chs = {}

TimeQueueInv == TypeOK /\ WakesInTime /\ AllHandled

(* How far ahead an expiration or the timerfd can be: it stays so when it   *)
(* comes nearer, and by the least delay when the timerfd is set.            *)
LEMMA AheadFacts ==
  /\ Ahead \subseteq Nat
  /\ 0 \in Ahead
  /\ MinDelay \in Ahead
  /\ Wait \subseteq Ahead
  /\ \A a \in Ahead, d \in {0, 1} : Larger(a - d, 0) \in Ahead
<1>1. ASSUME NEW a \in Ahead
      PROVE  \E w \in Wait \cup {MinDelay} : a \in 0 .. w
  BY DEF Ahead
<1>2. ASSUME NEW w \in Wait \cup {MinDelay}, NEW a \in 0 .. w
      PROVE  a \in Ahead
  BY DEF Ahead
<1>3. \A w \in Wait \cup {MinDelay} : w \in Nat \ {0}
  BY TimeQueueAssumption
<1>4. Ahead \subseteq Nat
  BY <1>1, <1>3
<1>5. 0 \in Ahead /\ MinDelay \in Ahead
  <2>1. 0 \in 0 .. MinDelay /\ MinDelay \in 0 .. MinDelay
    BY TimeQueueAssumption
  <2> QED BY <2>1, <1>2
<1>6. Wait \subseteq Ahead
  <2>1. ASSUME NEW w \in Wait PROVE w \in 0 .. w
    BY <1>3
  <2> QED BY <2>1, <1>2
<1>7. ASSUME NEW a \in Ahead, NEW d \in {0, 1}
      PROVE  Larger(a - d, 0) \in Ahead
  <2>1. PICK w \in Wait \cup {MinDelay} : a \in 0 .. w
    BY <1>1
  <2>2. Larger(a - d, 0) \in 0 .. w
    BY <2>1, <1>3 DEF Larger
  <2> QED BY <2>2, <1>2
<1> QED BY <1>4, <1>5, <1>6, <1>7

(* At the start there is no timer. *)
LEMMA TimeQueueInit == Init => TimeQueueInv
BY AheadFacts DEF Init, TimeQueueInv, TypeOK, WakesInTime, AllHandled, timers

(* A tick takes the timerfd and the expirations nearer, the timerfd by one  *)
(* and an expiration by one at most.                                        *)
LEMMA TickStep ==
  ASSUME TimeQueueInv, NEW d \in Step, Tick(d)
  PROVE  TimeQueueInv'
<1>1. d \in {0, 1}
  BY TimeQueueAssumption
<1>2. TypeOK'
  BY <1>1, AheadFacts DEF TimeQueueInv, TypeOK, Tick
<1>3. ASSUME pc' \in {"poll", "events"}, NEW t \in timers',
             ~readable', "timer" \notin chs'
      PROVE  fdLeft' # 0 /\ fdLeft' <= Larger(left'[t], MinDelay)
  <2>1. pc \in {"poll", "events"} /\ t \in timers
    BY <1>3 DEF Tick, timers
  <2>2. fdLeft # 0 /\ fdLeft <= Larger(left[t], MinDelay)
    BY <1>3, <2>1 DEF TimeQueueInv, WakesInTime, Tick
  <2>3. fdLeft \in Nat /\ left[t] \in Nat /\ fdLeft # 1
    BY <1>3, <2>1, AheadFacts DEF TimeQueueInv, TypeOK, Tick, timers
  <2>4. /\ fdLeft' = Larger(fdLeft - 1, 0)
        /\ left'[t] = Larger(left[t] - d, 0)
    BY <2>1 DEF Tick, timers
  <2> QED BY <1>1, <2>2, <2>3, <2>4, TimeQueueAssumption DEF Larger
<1> QED BY <1>2, <1>3 DEF TimeQueueInv, WakesInTime, AllHandled, Tick

(* Where AddTimer leaves the timerfd alone, an earlier timer has set it. *)
LEMMA AddTimerStep ==
  ASSUME TimeQueueInv, NEW t \in Timer, NEW wait \in Wait,
         NEW repeat \in BOOLEAN, AddTimer(t, wait, repeat)
  PROVE  TimeQueueInv'
<1>1. TypeOK'
  BY AheadFacts DEF TimeQueueInv, TypeOK, AddTimer
<1>2. CASE ResetInstantly(wait)
  BY <1>1, <1>2 DEF TimeQueueInv, WakesInTime, AllHandled, AddTimer
<1>3. CASE ~ResetInstantly(wait)
  <2>1. PICK u \in timers : ~(wait < left[u])
    BY <1>3 DEF ResetInstantly
  <2>2. left[u] \in Nat /\ wait \in Nat /\ fdLeft \in Nat
    BY AheadFacts DEF TimeQueueInv, TypeOK, timers
  <2>3. left[u] <= wait
    BY <2>1, <2>2
  <2>4. pc = "events" /\ left \in [Timer -> Ahead]
    BY DEF AddTimer, TimeQueueInv, TypeOK
  <2>5. ASSUME NEW v \in timers', ~readable', "timer" \notin chs'
        PROVE  fdLeft' # 0 /\ fdLeft' <= Larger(left'[v], MinDelay)
    <3>1. ~readable /\ "timer" \notin chs
      BY <2>5 DEF AddTimer
    <3>2. \A x \in timers : fdLeft # 0 /\ fdLeft <= Larger(left[x], MinDelay)
      BY <3>1, <2>4 DEF TimeQueueInv, WakesInTime, AllHandled
    <3>3. CASE v = t
      <4>1. left'[v] = wait
        BY <3>3, <2>4 DEF AddTimer
      <4>2. fdLeft # 0 /\ fdLeft <= Larger(left[u], MinDelay)
        BY <3>2
      <4> QED BY <4>1, <4>2, <2>2, <2>3, TimeQueueAssumption
              DEF AddTimer, Larger
    <3>4. CASE v # t
      <4>1. v \in timers /\ left'[v] = left[v]
        BY <3>4, <2>4, <2>5 DEF AddTimer, timers, TimeQueueInv, TypeOK
      <4> QED BY <4>1, <3>2 DEF AddTimer
    <3> QED BY <3>3, <3>4
  <2> QED BY <1>1, <2>5 DEF TimeQueueInv, WakesInTime, AllHandled, AddTimer
<1> QED BY <1>2, <1>3

(* It is set for the first timer, and so for all. *)
LEMMA ResetTimerFdStep ==
  ASSUME TimeQueueInv, ResetTimerFd
  PROVE  TimeQueueInv'
<1>1. PICK t \in timers : /\ \A u \in timers : left[t] <= left[u]
                          /\ fdLeft' = Delay(t)
  BY DEF ResetTimerFd
<1>2. left[t] \in Ahead /\ left[t] \in Nat
  BY AheadFacts DEF TimeQueueInv, TypeOK, timers
<1>3. fdLeft' \in Ahead
  BY <1>1, <1>2, AheadFacts DEF Delay, Larger
<1>4. TypeOK'
  BY <1>3 DEF TimeQueueInv, TypeOK, ResetTimerFd
<1>5. ASSUME NEW u \in timers'
      PROVE  fdLeft' # 0 /\ fdLeft' <= Larger(left'[u], MinDelay)
  <2>1. u \in timers /\ left'[u] = left[u] /\ left[t] <= left[u]
    BY <1>1 DEF ResetTimerFd, timers
  <2>2. left[u] \in Nat
    BY <2>1, AheadFacts DEF TimeQueueInv, TypeOK, timers
  <2> QED BY <1>1, <1>2, <2>1, <2>2, TimeQueueAssumption DEF Delay, Larger
<1> QED BY <1>4, <1>5 DEF TimeQueueInv, WakesInTime, AllHandled, ResetTimerFd

(* Every step of the loop and of the clocks keeps both. *)
LEMMA TimeQueueStep == TimeQueueInv /\ [Next]_vars => TimeQueueInv'
<1> SUFFICES ASSUME TimeQueueInv, [Next]_vars PROVE TimeQueueInv'
  OBVIOUS
<1>1. CASE Poll
  BY <1>1 DEF Poll, TimeQueueInv, TypeOK, WakesInTime, AllHandled, timers
<1>2. CASE PollAgain
  BY <1>2 DEF PollAgain, TimeQueueInv, TypeOK, WakesInTime, AllHandled, timers
<1>3. CASE NoTimer
  BY <1>3 DEF NoTimer, TimeQueueInv, TypeOK, WakesInTime, AllHandled, timers
<1>4. ASSUME NEW t \in Timer, NEW wait \in Wait, NEW repeat \in BOOLEAN,
             AddTimer(t, wait, repeat)
      PROVE  TimeQueueInv'
  BY <1>4, AddTimerStep
<1>5. CASE ReadFd
  BY <1>5 DEF ReadFd, TimeQueueInv, TypeOK, WakesInTime, AllHandled
<1>6. CASE RunDue
  BY <1>6 DEF RunDue, TimeQueueInv, TypeOK, WakesInTime, AllHandled
<1>7. ASSUME NEW t \in Timer, ResetTimer(t)
      PROVE  TimeQueueInv'
  <2>1. pc = "reset" /\ pc' = "reset"
    BY <1>7 DEF ResetTimer
  <2>2. interval[t] = 0 \/ interval[t] \in Ahead
    BY AheadFacts DEF TimeQueueInv, TypeOK
  <2>3. TypeOK'
    BY <1>7, <2>2 DEF ResetTimer, Restart, TimeQueueInv, TypeOK
  <2> QED BY <2>1, <2>3 DEF TimeQueueInv, WakesInTime, AllHandled
<1>8. CASE TimersReset
  <2>1. TypeOK'
    BY <1>8 DEF TimersReset, TimeQueueInv, TypeOK
  <2>2. pc' \in {"poll", "events"} => timers' = {}
    BY <1>8 DEF TimersReset, TimersLeft, timers
  <2> QED BY <1>8, <2>1, <2>2
          DEF TimersReset, TimeQueueInv, WakesInTime, AllHandled
<1>9. CASE ResetTimerFd
  BY <1>9, ResetTimerFdStep
<1>10. ASSUME NEW d \in Step, Tick(d) PROVE TimeQueueInv'
  BY <1>10, TickStep
<1>11. CASE UNCHANGED vars
  BY <1>11 DEF vars, TimeQueueInv, TypeOK, WakesInTime, AllHandled, timers
<1> QED
  BY <1>1, <1>2, <1>3, <1>4, <1>5, <1>6, <1>7, <1>8, <1>9, <1>10, <1>11
  DEF Next, Handle

(* Type correctness, for any timers, waits and least delay. *)
THEOREM TimeQueueTyped == Spec => []TypeOK
<1>1. TimeQueueInv => TypeOK
  BY DEF TimeQueueInv
<1> QED BY <1>1, TimeQueueInit, TimeQueueStep, PTL DEF Spec

(* WakesInTime: no timer is forgotten by the one-shot timerfd, whatever     *)
(* AddTimer, handleRead and the two clocks do in between.                   *)
THEOREM NoTimerForgotten == Spec => []WakesInTime
<1>1. TimeQueueInv => WakesInTime
  BY DEF TimeQueueInv
<1> QED BY <1>1, TimeQueueInit, TimeQueueStep, PTL DEF Spec

-----------------------------------------------------------------------------
(* For every number of connections and timers and every timeout: the timers *)
(* of the idle connections are those of the TimeQueue, so that its theorems *)
(* hold for them; and an open connection is always watched by a timer that  *)
(* will find it idle, or was missed in the tick of its deadline. That is    *)
(* inductive with the types alone: a timer's expiration and its             *)
(* connection's idle time change together, and only the timer's own run     *)
(* takes it away.                                                           *)

IdleInv == TypeOK /\ IdleTypeOK /\ OpenIsWatched

(* Each step is one of the TimeQueue, or leaves it alone. *)
LEMMA IdleStepIsStep == [IdleNext]_allVars => [Next]_vars
<1> SUFFICES ASSUME [IdleNext]_allVars PROVE [Next]_vars
  OBVIOUS
<1>1. CASE IdleHandle
  <2>1. ASSUME NEW c \in Connection, NEW t \in Timer, HttpOnMessage(c, t)
        PROVE  \E wait \in Wait, repeat \in BOOLEAN : AddTimer(t, wait, repeat)
    BY <2>1, IdleAssumption DEF HttpOnMessage, ScheduleAutoClose
  <2> QED BY <1>1, <2>1
          DEF IdleHandle, OtherTimer, Close, ActiveCloseConns, ForgetTimer,
              Next, Handle
<1>2. CASE Poll \/ \E d \in Step : IdleTick(d)
  BY <1>2 DEF IdleTick, Next
<1>3. CASE (\E c \in Connection : NewConnection(c) \/ Delete(c))
           \/ UNCHANGED allVars
  BY <1>3 DEF NewConnection, Delete, allVars
<1> QED BY <1>1, <1>2, <1>3 DEF IdleNext

(* The timers of idle connections are timers of a TimeQueue                 *)
(* (HttpServer.cpp:115, EventLoop.cpp:51, TimeQueue.cpp:36-86).             *)
THEOREM IdleImplementsTimeQueue == IdleSpec => Spec
<1>1. IdleInit => Init
  BY DEF IdleInit
<1> QED BY <1>1, IdleStepIsStep, PTL DEF IdleSpec, Spec

(* And so the timerfd wakes the loop for every one of them.                 *)
THEOREM IdleTimersWake == IdleSpec => []WakesInTime
BY IdleImplementsTimeQueue, NoTimerForgotten, PTL

-----------------------------------------------------------------------------

LEMMA TimeoutFacts ==
  /\ Timeout \in Nat \ {0}
  /\ Timeout \in Wait
  /\ 0 \in 0 .. Timeout + 1
  /\ Step \subseteq 0 .. Timeout + 1
  /\ Step \subseteq {0, 1}
BY IdleAssumption, TimeQueueAssumption

LEMMA IdleInvInit == IdleInit => IdleInv
BY TimeQueueInit, TimeoutFacts
   DEF IdleInit, IdleInv, TimeQueueInv, IdleTypeOK, OpenIsWatched, Open

(* A tick brings the timer nearer by as much as the connection is idle for. *)
LEMMA IdleTickStep ==
  ASSUME IdleInv, NEW d \in Step, IdleTick(d)
  PROVE  IdleTypeOK' /\ OpenIsWatched'
<1>1. IdleTypeOK'
  BY TimeoutFacts DEF IdleInv, IdleTypeOK, IdleTick, Open, Smaller
<1>2. ASSUME NEW c \in (Open \ missed)'
      PROVE  \E t \in timers' : /\ weak_conn'[t] = c
                                /\ left'[t] + idle'[c] >= Timeout
  <2>1. c \in Open \ missed
    BY <1>2 DEF IdleTick, Open
  <2>2. PICK t \in timers : weak_conn[t] = c /\ left[t] + idle[c] >= Timeout
    BY <2>1 DEF IdleInv, OpenIsWatched
  <2>3. left[t] \in Nat /\ idle[c] \in 0 .. Timeout + 1
    BY <2>1, AheadFacts
       DEF IdleInv, TypeOK, IdleTypeOK, timers, Open
  <2>4. /\ left'[t] = Larger(left[t] - d, 0)
        /\ idle'[c] = Smaller(idle[c] + d, Timeout + 1)
    BY <2>1 DEF IdleTick, Tick, timers, Open
  <2>5. left'[t] + idle'[c] >= Timeout
    BY <2>2, <2>3, <2>4, TimeoutFacts DEF Larger, Smaller
  <2>6. t \in timers' /\ weak_conn'[t] = c
    BY <2>2 DEF IdleTick, Tick, timers
  <2> QED BY <2>5, <2>6
<1> QED BY <1>1, <1>2 DEF OpenIsWatched

(* The message's own timer watches its connection. *)
LEMMA HttpOnMessageStep ==
  ASSUME IdleInv, NEW c \in Connection, NEW t \in Timer, HttpOnMessage(c, t)
  PROVE  IdleTypeOK' /\ OpenIsWatched'
<1> USE DEF HttpOnMessage, ScheduleAutoClose, AddTimer
<1>1. PICK later \in Step : idle' = [idle EXCEPT ![c] = later]
  OBVIOUS
<1>2. IdleTypeOK'
  BY <1>1, TimeoutFacts DEF IdleInv, IdleTypeOK, Open
<1>3. ASSUME NEW o \in (Open \ missed)'
      PROVE  \E u \in timers' : /\ weak_conn'[u] = o
                                /\ left'[u] + idle'[o] >= Timeout
  <2>1. CASE o = c
    <3>1. left'[t] = Timeout /\ idle'[o] = later
      BY <1>1, <2>1 DEF IdleInv, TypeOK, IdleTypeOK
    <3>2. t \in timers' /\ weak_conn'[t] = o
      BY <2>1 DEF IdleInv, TypeOK, IdleTypeOK, timers
    <3> QED BY <3>1, <3>2, TimeoutFacts
  <2>2. CASE o # c
    <3>1. o \in Open \ missed /\ idle'[o] = idle[o]
      BY <1>1, <1>3, <2>2 DEF IdleInv, IdleTypeOK, Open
    <3>2. PICK u \in timers : weak_conn[u] = o /\ left[u] + idle[o] >= Timeout
      BY <3>1 DEF IdleInv, OpenIsWatched
    <3>3. u # t
      BY <3>2 DEF timers
    <3>4. u \in timers' /\ weak_conn'[u] = o /\ left'[u] = left[u]
      BY <3>2, <3>3 DEF IdleInv, TypeOK, IdleTypeOK, timers
    <3> QED BY <3>1, <3>2, <3>4
  <2> QED BY <2>1, <2>2
<1> QED BY <1>2, <1>3 DEF OpenIsWatched

(* A connection's last timer finds it idle, or in the tick of its deadline. *)
LEMMA ActiveCloseConnsStep ==
  ASSUME IdleInv, ActiveCloseConns
  PROVE  IdleTypeOK' /\ OpenIsWatched'
<1>1. PICK later \in [Expired \cap Open -> Step] :
        LET late == {c \in Expired \cap Open : IdleTooLong(c, later[c])}
        IN  /\ Closed(late)
            /\ missed' = (missed \ late) \cup
                           {c \in (Expired \cap Open) \ late : idle[c] = Timeout}
  BY DEF ActiveCloseConns
<1> DEFINE late == {c \in Expired \cap Open : IdleTooLong(c, later[c])}
<1>2. /\ connection' = [c \in Connection |->
                          IF c \in late THEN "closed" ELSE connection[c]]
      /\ idle' = [c \in Connection |-> IF c \in late THEN 0 ELSE idle[c]]
  BY <1>1 DEF Closed
<1>3. missed' = (missed \ late) \cup
                  {c \in (Expired \cap Open) \ late : idle[c] = Timeout}
  BY <1>1
<1>4. UNCHANGED <<weak_conn, left>>
  BY DEF ActiveCloseConns, RunDue
<1>5. IdleTypeOK'
  BY <1>2, <1>3, <1>4, TimeoutFacts DEF IdleInv, IdleTypeOK, Open
<1>6. ASSUME NEW c \in (Open \ missed)'
      PROVE  \E t \in timers' : /\ weak_conn'[t] = c
                                /\ left'[t] + idle'[c] >= Timeout
  <2>1. c \in Open /\ c \notin late /\ idle'[c] = idle[c]
    BY <1>2, <1>6 DEF Open
  <2>2. c \notin missed /\ (c \in Expired => idle[c] # Timeout)
    BY <1>3, <1>6, <2>1
  <2>3. PICK t \in timers : weak_conn[t] = c /\ left[t] + idle[c] >= Timeout
    BY <2>1, <2>2 DEF IdleInv, OpenIsWatched
  <2>4. left[t] \in Nat /\ idle[c] \in 0 .. Timeout + 1
    BY <2>1, AheadFacts DEF IdleInv, TypeOK, IdleTypeOK, timers, Open
  <2>5. left[t] # 0
    <3>1. SUFFICES ASSUME left[t] = 0 PROVE FALSE
      OBVIOUS
    <3>2. c \in Expired
      BY <2>1, <2>3, <3>1, IdleAssumption DEF Expired, Open
    <3>3. later[c] \in {0, 1}
      BY <2>1, <3>2, TimeoutFacts
    <3>4. idle[c] = Timeout + 1
      BY <2>2, <2>3, <2>4, <3>1, <3>2, TimeoutFacts
    <3>5. IdleTooLong(c, later[c])
      BY <3>3, <3>4, TimeoutFacts DEF IdleTooLong
    <3> QED BY <2>1, <3>2, <3>5
  <2>6. t \in timers'
    BY <2>5 DEF ActiveCloseConns, RunDue, timers
  <2> QED BY <1>4, <2>1, <2>3, <2>6
<1> QED BY <1>5, <1>6 DEF OpenIsWatched

(* A deleted or restarted timer was not in the set. *)
LEMMA ForgetTimerStep ==
  ASSUME IdleInv, NEW t \in Timer, ForgetTimer(t)
  PROVE  IdleTypeOK' /\ OpenIsWatched'
<1>1. IdleTypeOK'
  BY DEF IdleInv, IdleTypeOK, ForgetTimer, Open
<1>2. ASSUME NEW u \in timers
      PROVE  u # t /\ u \in timers' /\ weak_conn'[u] = weak_conn[u]
             /\ left'[u] = left[u]
  BY <1>2 DEF ForgetTimer, ResetTimer, Restart, timers, active_timers, IdleInv,
              TypeOK, IdleTypeOK
<1>3. (Open \ missed)' = Open \ missed /\ idle' = idle
  BY DEF ForgetTimer, Open
<1> QED BY <1>1, <1>2, <1>3 DEF IdleInv, OpenIsWatched

(* What adds a timer for something else, or leaves the timers alone. *)
LEMMA OtherTimerStep ==
  ASSUME IdleInv, NEW t \in Timer, NEW wait \in Wait, NEW repeat \in BOOLEAN,
         OtherTimer(t, wait, repeat)
  PROVE  IdleTypeOK' /\ OpenIsWatched'
<1>1. IdleTypeOK' /\ (Open \ missed)' = Open \ missed
  BY DEF IdleInv, IdleTypeOK, OtherTimer, idleVars, Open
<1>2. ASSUME NEW u \in timers
      PROVE  u \in timers' /\ left'[u] = left[u]
  BY <1>2 DEF OtherTimer, AddTimer, timers, IdleInv, TypeOK
<1> QED BY <1>1, <1>2 DEF IdleInv, OpenIsWatched, OtherTimer, idleVars

LEMMA CloseStep ==
  ASSUME IdleInv, NEW c \in Connection, Close(c)
  PROVE  IdleTypeOK' /\ OpenIsWatched'
<1>1. IdleTypeOK'
  BY TimeoutFacts DEF IdleInv, IdleTypeOK, Close, Closed, Open
<1>2. ASSUME NEW o \in (Open \ missed)'
      PROVE  o \in Open \ missed /\ idle'[o] = idle[o]
  BY <1>2 DEF Close, Closed, Open
<1>3. timers' = timers /\ UNCHANGED <<weak_conn, left>>
  BY DEF Close, NoTimer, timers
<1> QED BY <1>1, <1>2, <1>3 DEF IdleInv, OpenIsWatched

(* A connection comes, or its object goes. *)
LEMMA NewOrDeletedStep ==
  ASSUME IdleInv, NEW c \in Connection, NewConnection(c) \/ Delete(c)
  PROVE  IdleTypeOK' /\ OpenIsWatched'
<1>1. IdleTypeOK'
  BY DEF IdleInv, IdleTypeOK, NewConnection, Delete, Open
<1>2. /\ (Open \ missed)' = Open \ missed
      /\ c \notin Open
  BY DEF NewConnection, Delete, Open, IdleInv, IdleTypeOK
<1>3. timers' = timers /\ UNCHANGED <<left, idle>>
  BY DEF NewConnection, Delete, vars, timers
<1>4. \A t \in timers : weak_conn[t] \in Open => weak_conn'[t] = weak_conn[t]
  BY <1>2 DEF NewConnection, Delete, timers
<1> QED BY <1>1, <1>2, <1>3, <1>4 DEF IdleInv, OpenIsWatched

(* Every step keeps the invariant. *)
LEMMA IdleStep == IdleInv /\ TypeOK' /\ [IdleNext]_allVars => IdleInv'
<1> SUFFICES ASSUME IdleInv, [IdleNext]_allVars
             PROVE  IdleTypeOK' /\ OpenIsWatched'
  BY DEF IdleInv
<1>1. CASE UNCHANGED <<where, left>> /\ UNCHANGED idleVars
  BY <1>1 DEF IdleInv, IdleTypeOK, OpenIsWatched, Open, timers, idleVars
<1>2. CASE IdleHandle
  <2>1. CASE (PollAgain \/ NoTimer \/ ReadFd \/ TimersReset \/ ResetTimerFd)
             /\ UNCHANGED idleVars
    BY <1>1, <2>1 DEF PollAgain, NoTimer, ReadFd, TimersReset, ResetTimerFd
  <2> QED BY <1>2, <2>1, OtherTimerStep, CloseStep, HttpOnMessageStep,
             ActiveCloseConnsStep, ForgetTimerStep
          DEF IdleHandle
<1>3. CASE (Poll /\ UNCHANGED idleVars) \/ UNCHANGED allVars
  BY <1>1, <1>3 DEF Poll, allVars, vars
<1>4. CASE \E d \in Step : IdleTick(d)
  BY <1>4, IdleTickStep
<1>5. CASE \E c \in Connection : NewConnection(c) \/ Delete(c)
  BY <1>5, NewOrDeletedStep
<1> QED BY <1>2, <1>3, <1>4, <1>5 DEF IdleNext

(* A connection that has sent a message is closed by a timer, or was missed *)
(* in the tick of its deadline (HttpServer.cpp:115-138).                    *)
THEOREM NoIdleConnectionForgotten == IdleSpec => []OpenIsWatched
<1>1. IdleSpec => []TypeOK
  BY IdleImplementsTimeQueue, TimeQueueTyped, PTL
<1>2. IdleInv => OpenIsWatched
  BY DEF IdleInv
<1> QED BY <1>1, <1>2, IdleInvInit, IdleStep, PTL DEF IdleSpec
=============================================================================
