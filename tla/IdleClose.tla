----------------------------- MODULE IdleClose ------------------------------
(***************************************************************************)
(* The idle connections of one event loop on the clocks of its TimeQueue:   *)
(* every message sets the connection's timestamp and adds a one-shot timer  *)
(* (HttpServer::ScheduleAutoClose); a timer that runs closes the connection *)
(* if its last message is older than the timeout, and no timer is ever      *)
(* taken back. A timer has a weak_ptr to its connection, whose object may   *)
(* be gone, and another one in its place, when it runs.                     *)
(***************************************************************************)
EXTENDS TimeQueue

CONSTANTS
  Connection,   (* the Connection objects; a deleted one may be allocated   *)
                (* again                                                    *)
  NoConnection, (* what an expired weak_ptr, or another callback, has       *)
  Timeout       (* kAutoCloseTimeoutSeconds, in ticks                       *)

ASSUME IdleAssumption ==
  /\ Timeout \in Wait
  /\ NoConnection \notin Connection

VARIABLES
  connection,   (* "none"; "silent", connected without a message so far;    *)
                (* "open"; "closed"                                         *)
  idle,         (* ticks of the wall clock since an open connection's       *)
                (* timestamp, as far as the timeout tells them apart        *)
  weak_conn,    (* Timer -> the connection it was added for                 *)
  missed        (* history: the connections whose last timer ran in the     *)
                (* very tick of the deadline                                *)

idleVars == <<connection, idle, weak_conn, missed>>
allVars  == <<vars, idleVars>>

Open == {c \in Connection : connection[c] = "open"}
Smaller(a, b) == IF a < b THEN a ELSE b

IdleInit ==
  /\ Init
  /\ connection = [c \in Connection |-> "none"]
  /\ idle = [c \in Connection |-> 0]
  /\ weak_conn = [t \in Timer |-> NoConnection]
  /\ missed = {}

IdleTick(d) ==
  /\ Tick(d)
  /\ idle' = [c \in Connection |->
                IF c \in Open THEN Smaller(idle[c] + d, Timeout + 1)
                              ELSE idle[c]]
  /\ UNCHANGED <<connection, weak_conn, missed>>

(* The main thread registers a new connection. *)
NewConnection(c) ==
  /\ connection[c] = "none"
  /\ connection' = [connection EXCEPT ![c] = "silent"]
  /\ UNCHANGED <<vars, idle, weak_conn, missed>>

(* Mistake (OpenIsWatched): a connection that has a timer needs no other.   *)
ScheduleOnce(c, t) ==
  IF \E u \in timers : weak_conn[u] = c
    THEN /\ pc = "events" /\ "other" \in chs
         /\ chs' = chs \ {"other"}
         /\ UNCHANGED <<where, left, interval, fdLeft, readable, pc, weak_conn>>
    ELSE AddTimer(t, Timeout, FALSE)
         /\ weak_conn' = [weak_conn EXCEPT ![t] = c]

ScheduleAutoClose(c, t) ==
  /\ AddTimer(t, Timeout, FALSE)
  /\ weak_conn' = [weak_conn EXCEPT ![t] = c]

(* A message of c. The clock may have gone on between UpdateTimeStamp and   *)
(* RunAfter, which both read it.                                            *)
HttpOnMessage(c, t) ==
  /\ connection[c] \in {"silent", "open"}
  /\ connection' = [connection EXCEPT ![c] = "open"]
  /\ \E later \in Step : idle' = [idle EXCEPT ![c] = later]
  /\ missed' = missed \ {c}
  /\ ScheduleAutoClose(c, t)

Closed(C) ==
  /\ connection' = [c \in Connection |->
                      IF c \in C THEN "closed" ELSE connection[c]]
  /\ idle' = [c \in Connection |-> IF c \in C THEN 0 ELSE idle[c]]

(* The connection closes for another reason: its peer, an error, a response *)
(* that asks for it.                                                        *)
Close(c) ==
  /\ connection[c] \in {"silent", "open"}
  /\ NoTimer
  /\ Closed({c})
  /\ missed' = missed \ {c}
  /\ UNCHANGED weak_conn

(* The last owner lets go: every weak_ptr to c expires. *)
Delete(c) ==
  /\ connection[c] = "closed"
  /\ connection' = [connection EXCEPT ![c] = "none"]
  /\ weak_conn' = [t \in Timer |-> IF weak_conn[t] = c THEN NoConnection
                                                      ELSE weak_conn[t]]
  /\ UNCHANGED <<vars, idle, missed>>

(* The connections whose timers are due. *)
Expired == {weak_conn[t] : t \in {u \in timers : left[u] = 0}} \ {NoConnection}

(* Mistake (IdleClosed): a timer leaves the connection to the other one.    *)
IdleTooLongForLast(c, later) ==
  /\ idle[c] + later > Timeout
  /\ \A t, u \in Timer : weak_conn[t] = c /\ weak_conn[u] = c => t = u

(* expire_time < now; now is read again, after handleRead has chosen what   *)
(* is due.                                                                  *)
IdleTooLong(c, later) == idle[c] + later > Timeout

(* handleRead runs ActiveCloseConn of every timer that is due.              *)
ActiveCloseConns ==
  /\ RunDue
  /\ \E later \in [Expired \cap Open -> Step] :
       LET late == {c \in Expired \cap Open : IdleTooLong(c, later[c])}
       IN  /\ Closed(late)
           /\ missed' = (missed \ late) \cup
                          {c \in (Expired \cap Open) \ late : idle[c] = Timeout}
  /\ UNCHANGED weak_conn

(* A timer that is deleted has no callback any more. *)
ForgetTimer(t) ==
  /\ ResetTimer(t)
  /\ weak_conn' = [weak_conn EXCEPT ![t] =
                     IF interval[t] = 0 THEN NoConnection ELSE weak_conn[t]]
  /\ UNCHANGED <<connection, idle, missed>>

(* clear_log's timer, and whatever else a loop's callbacks wait for. *)
OtherTimer(t, wait, repeat) ==
  /\ AddTimer(t, wait, repeat)
  /\ UNCHANGED idleVars

IdleHandle ==
  \/ /\ PollAgain \/ NoTimer \/ ReadFd \/ TimersReset \/ ResetTimerFd
     /\ UNCHANGED idleVars
  \/ \E t \in Timer, wait \in Wait, repeat \in BOOLEAN :
       OtherTimer(t, wait, repeat)
  \/ \E c \in Connection : Close(c) \/ \E t \in Timer : HttpOnMessage(c, t)
  \/ ActiveCloseConns
  \/ \E t \in Timer : ForgetTimer(t)

IdleNext ==
  \/ IdleHandle
  \/ Poll /\ UNCHANGED idleVars
  \/ \E d \in Step : IdleTick(d)
  \/ \E c \in Connection : NewConnection(c) \/ Delete(c)

IdleSpec == IdleInit /\ [][IdleNext]_allVars

(* As in TimeQueue; nothing makes a peer send or close. *)
IdleFairSpec ==
  /\ IdleSpec
  /\ WF_allVars(IdleHandle)
  /\ WF_allVars(readable /\ Poll /\ UNCHANGED idleVars)
  /\ WF_allVars(1 \in Step /\ IdleTick(1))

-----------------------------------------------------------------------------

(* Type invariant. *)
IdleTypeOK ==
  /\ connection \in [Connection -> {"none", "silent", "open", "closed"}]
  /\ idle \in [Connection -> 0 .. Timeout + 1]
  /\ weak_conn \in [Timer -> Connection \cup {NoConnection}]
  /\ missed \subseteq Open

(* A connection that has sent a message has a timer that will not run       *)
(* before its deadline, unless its last one ran in the very tick of it:     *)
(* then expire_time < now fails (HttpServer.cpp:129), and nothing closes    *)
(* the connection until it sends again.                                     *)
OpenIsWatched ==
  \A c \in Open \ missed :
    \E t \in timers : weak_conn[t] = c /\ left[t] + idle[c] >= Timeout

(* An idle connection is closed in the end: earlier timers that found it    *)
(* active, and timers of objects that are gone, do not take its turn.       *)
IdleClosed ==
  \A c \in Connection :
    (c \in Open \ missed /\ idle[c] > Timeout)
      ~> (c \notin Open \/ c \in missed \/ idle[c] <= Timeout)
=============================================================================
