------------------------------ MODULE Reactor ------------------------------
(***************************************************************************)
(* The life of a TCP connection inside the server: the main reactor        *)
(* accepts it and registers it with the epoll of a sub-reactor, whose       *)
(* thread handles its events, closes it and destroys it.                   *)
(*                                                                         *)
(* Every thread runs step by step; a step is what other threads cannot     *)
(* see the middle of: a mutex-protected section, a system call, the read   *)
(* or the write of one field both threads use.                             *)
(*                                                                         *)
(* What a connection carries is left out (see HttpConnection): a received  *)
(* message leads to any answer, the socket takes any part of it.           *)
(***************************************************************************)
EXTENDS Integers, FiniteSets

CONSTANTS
  Conn,      (* connections, one per accepted peer; never reused           *)
  NoConn,    (* no connection: a null shared_ptr, an absent map entry       *)
  Fd,        (* the descriptors the process has for connections             *)
  NumLoops,  (* number of sub-reactors, one thread each                     *)
  Main       (* the thread of the main reactor                              *)

ASSUME ReactorAssumption ==
  /\ NoConn \notin Conn
  /\ Fd \subseteq Nat
  /\ NumLoops \in Nat \ {0}
  /\ Main \notin 0 .. NumLoops - 1

Loop   == 0 .. NumLoops - 1
Thread == Loop \cup {Main}
NoFd   == -1

Reading == {"in"}
Events  == {"in", "out"}

VARIABLES
  (* the peer and the kernel *)
  peer,         (* "open", or "closed" (it sent FIN or RST)                 *)
  fd,           (* Conn -> its descriptor                                   *)
  interest,     (* Conn -> what the epoll instance watches; {}: not there   *)
  ready,        (* the connections on an epoll instance's ready list        *)
  (* the objects *)
  connections,  (* Server::connections, Fd -> Conn                          *)
  life,         (* memory: "none", "alive", "dying" (no owner, destructor   *)
                (* running), "chFreed" (channel deleted), "gone" (fd closed)*)
  state,        (* Connection::state_; Failed counts as "Closed"            *)
  events,       (* channel::events                                          *)
  revents,      (* channel::revents                                         *)
  inepoll,      (* channel::inepoll                                         *)
  timer,        (* the connections with a pending auto-close timer          *)
  (* the threads *)
  pc,           (* where each thread is                                     *)
  after,        (* where it goes on when the call it is in returns          *)
  cur,          (* the connection it holds a local shared_ptr to            *)
  want,         (* the argument of updateChannel                            *)
  closing,      (* close0 follows updateChannel                             *)
  victim,       (* `con` in Server::deleteConnection                        *)
  chs,          (* the active channels poll returned, not handled yet       *)
  due,          (* the expired timers of the active timerfd, not run yet    *)
  toDo,         (* EventLoop::to_do_list_                                   *)
  functions,    (* DoToDolist: swapped out, not called yet                  *)
  called,       (* DoToDolist: called, still holding their shared_ptr       *)
  reap,         (* the connection whose destructor the thread runs          *)
  (* history *)
  stale,        (* a loop read inepoll = FALSE although epoll has it        *)
  touched       (* its channel was used after it was freed                  *)

kernelVars == <<peer, fd, interest, ready>>
objectVars == <<connections, life, state, events, revents, inepoll, timer>>
threadVars == <<pc, after, cur, want, closing, victim, chs,
                due, toDo, functions, called, reap>>
vars == <<kernelVars, objectVars, threadVars, stale, touched>>

(* The sub-reactor Server::newConnection picks for a descriptor. *)
LoopOf(c) == fd[c] % NumLoops

(* Mistake (HandledIsAlive, DestroyInv): a callback runs without the      *)
(* guard of Tie, newConnection without its local shared_ptr.                *)
HeldUntied(c) ==
  \/ \E f \in Fd : connections[f] = c
  \/ \E t \in Thread : victim[t] = c
  \/ \E l \in Loop : c \in toDo[l] \cup functions[l] \cup called[l]

(* Mistake (LifecycleSpec): the map holds no shared_ptr. *)
HeldOutsideMap(c) ==
  \/ \E t \in Thread : cur[t] = c \/ victim[t] = c
  \/ \E l \in Loop : c \in toDo[l] \cup functions[l] \cup called[l]

(* A shared_ptr to c exists somewhere. *)
Held(c) ==
  \/ \E f \in Fd : connections[f] = c
  \/ \E t \in Thread : cur[t] = c \/ victim[t] = c
  \/ \E l \in Loop : c \in toDo[l] \cup functions[l] \cup called[l]

Freed(c)   == life[c] \in {"chFreed", "gone"}

(* Mistake (DescriptorNotConfused): a connection that fails gives its       *)
(* descriptor back at once, before close0 has taken it out of the map.      *)
HasFdUntilClosed(c) ==
  life[c] \in {"alive", "dying", "chFreed"} /\ state[c] # "Closed"

HasFd(c)   == life[c] \in {"alive", "dying", "chFreed"}
FreeFds    == Fd \ {fd[c] : c \in {d \in Conn : HasFd(d)}}

Init ==
  /\ peer = [c \in Conn |-> "open"]
  /\ fd = [c \in Conn |-> NoFd]
  /\ interest = [c \in Conn |-> {}]
  /\ ready = {}
  /\ connections = [f \in Fd |-> NoConn]
  /\ life = [c \in Conn |-> "none"]
  /\ state = [c \in Conn |-> "Invalid"]
  /\ events = [c \in Conn |-> {}]
  /\ revents = [c \in Conn |-> {}]
  /\ inepoll = [c \in Conn |-> FALSE]
  /\ timer = {}
  /\ pc = [t \in Thread |-> IF t = Main THEN "accept" ELSE "poll"]
  /\ after = [t \in Thread |-> "finish"]
  /\ cur = [t \in Thread |-> NoConn]
  /\ want = [t \in Thread |-> {}]
  /\ closing = [t \in Thread |-> FALSE]
  /\ victim = [t \in Thread |-> NoConn]
  /\ chs = [l \in Loop |-> {}]
  /\ due = [l \in Loop |-> {}]
  /\ toDo = [l \in Loop |-> {}]
  /\ functions = [l \in Loop |-> {}]
  /\ called = [l \in Loop |-> {}]
  /\ reap = [t \in Thread |-> NoConn]
  /\ stale = {}
  /\ touched = {}

Goto(t, label) == pc' = [pc EXCEPT ![t] = label]

(* The call t is in returns. *)
Return(t) ==
  /\ Goto(t, after[t])
  /\ after' = [after EXCEPT ![t] = "finish"]

(* t has just let go of a shared_ptr to c. The last owner runs ~Connection. *)
Dropped(t, c, next) ==
  \/ /\ Held(c)'
     /\ Goto(t, next)
     /\ UNCHANGED <<life, reap, after>>
  \/ /\ ~Held(c)'
     /\ life' = [life EXCEPT ![c] = "dying"]
     /\ reap' = [reap EXCEPT ![t] = c]
     /\ Goto(t, "free")
     /\ after' = [after EXCEPT ![t] = next]

-----------------------------------------------------------------------------
(* The peers. The epoll instance is edge-triggered: a connection gets on    *)
(* its ready list when something happens that it watches.                   *)

PeerSends(c) ==
  /\ peer[c] = "open"
  /\ interest[c] # {}
  /\ ready' = ready \cup {c}
  /\ UNCHANGED <<peer, fd, interest, objectVars, threadVars, stale, touched>>

(* A FIN or a RST: the socket is readable from now on. *)
PeerCloses(c) ==
  /\ peer[c] = "open"
  /\ peer' = [peer EXCEPT ![c] = "closed"]
  /\ ready' = IF interest[c] = {} THEN ready ELSE ready \cup {c}
  /\ UNCHANGED <<fd, interest, objectVars, threadVars, stale, touched>>

(* The peer has read: the send queue has room again. *)
PeerDrains(c) ==
  /\ peer[c] = "open"
  /\ "out" \in interest[c]
  /\ ready' = ready \cup {c}
  /\ UNCHANGED <<peer, fd, interest, objectVars, threadVars, stale, touched>>

Environment ==
  \E c \in Conn : PeerSends(c) \/ PeerCloses(c) \/ PeerDrains(c)

-----------------------------------------------------------------------------
(* The main reactor: Acceptor::accpetNewConnection calls                    *)
(* Server::newConnection for every connection it accepts.                   *)

(* A connection waits in the backlog and accept succeeds: c gets a          *)
(* descriptor nobody else has (with none left, accept fails, the loop       *)
(* breaks and nothing changes); make_shared.                                *)
Accept(c, f) ==
  /\ pc[Main] = "accept"
  /\ life[c] = "none"
  /\ f \in FreeFds
  /\ fd' = [fd EXCEPT ![c] = f]
  /\ life' = [life EXCEPT ![c] = "alive"]
  /\ state' = [state EXCEPT ![c] = "Connected"]
  /\ cur' = [cur EXCEPT ![Main] = c]
  /\ Goto(Main, "insert")
  /\ UNCHANGED <<peer, interest, ready, connections, events, revents,
                 inepoll, timer, after, want, closing, victim, chs, due,
                 toDo, functions, called, reap, stale, touched>>

(* connections[fd] = connection, under connections_mtx. *)
InsertConnection ==
  /\ pc[Main] = "insert"
  /\ connections' = [connections EXCEPT ![fd[cur[Main]]] = cur[Main]]
  /\ Goto(Main, "register")
  /\ UNCHANGED <<kernelVars, life, state, events, revents, inepoll, timer,
                 after, cur, want, closing, victim, chs, due, toDo,
                 functions, called, reap, stale, touched>>

(* registerCallBack up to epoll_ctl(EPOLL_CTL_ADD): from here on the loop   *)
(* may see events; if something came before, c is ready at once.            *)
RegisterCallBack ==
  LET c == cur[Main] IN
  /\ pc[Main] = "register"
  /\ events' = [events EXCEPT ![c] = Reading]
  /\ interest' = [interest EXCEPT ![c] = Reading]
  /\ \/ ready' = ready \cup {c}
     \/ peer[c] # "closed" /\ UNCHANGED ready
  /\ Goto(Main, "setInEpoll")
  /\ UNCHANGED <<peer, fd, connections, life, state, revents, inepoll, timer,
                 after, cur, want, closing, victim, chs, due, toDo,
                 functions, called, reap, stale, touched>>

(* channel::setInEpoll, after epoll_ctl has returned. *)
SetInEpoll ==
  /\ pc[Main] = "setInEpoll"
  /\ inepoll' = [inepoll EXCEPT ![cur[Main]] = TRUE]
  /\ Goto(Main, "release")
  /\ UNCHANGED <<kernelVars, connections, life, state, events, revents,
                 timer, after, cur, want, closing, victim, chs, due, toDo,
                 functions, called, reap, stale, touched>>

(* newConnection returns and its shared_ptr goes out of scope. *)
ReleaseConnection == \E c \in Conn :
  /\ pc[Main] = "release"
  /\ cur[Main] = c
  /\ cur' = [cur EXCEPT ![Main] = NoConn]
  /\ UNCHANGED <<kernelVars, connections, state, events, revents, inepoll,
                 timer, want, closing, victim, chs, due, toDo, functions,
                 called, stale, touched>>
  /\ Dropped(Main, c, "accept")

-----------------------------------------------------------------------------
(* A sub-reactor: EventLoop::beginLoop. *)

(* What epoll_wait can report of a ready connection: some of what is        *)
(* watched, and that it is readable once the peer has closed.               *)
Reports(c) == {ev \in SUBSET interest[c] :
                 ev # {} /\ (peer[c] = "closed" => "in" \in ev)}

(* epoll::poll: epoll_wait returns the ready connections and, through the   *)
(* channel of the timerfd, the expired timers; poll writes revents through  *)
(* the pointers epoll keeps.                                                *)
Poll(l) ==
  LET active  == {c \in ready : LoopOf(c) = l}
      pending == {c \in timer : LoopOf(c) = l}
      bad     == {c \in active : Freed(c)}
  IN
  /\ pc[l] = "poll"
  /\ chs' = [chs EXCEPT ![l] = active]
  /\ ready' = ready \ active
  /\ \E report \in [active -> SUBSET Events] :
        /\ \A c \in active : report[c] \in Reports(c)
        /\ revents' = [c \in Conn |-> IF c \in active \ bad THEN report[c]
                                     ELSE revents[c]]
  /\ \E expired \in SUBSET pending :
        /\ active \cup expired # {}
        /\ due' = [due EXCEPT ![l] = expired]
  /\ touched' = touched \cup bad
  /\ Goto(l, IF bad = {} THEN "dispatch" ELSE "undefined")
  /\ UNCHANGED <<peer, fd, interest, connections, life, state, events,
                 inepoll, timer, after, cur, want, closing, victim, toDo,
                 functions, called, reap, stale>>

(* Mistake (NoDestructorWhileAsleep, ClosedPeerReclaimed): the loop goes    *)
(* back to epoll_wait without DoToDolist.                                   *)
NextChannelNoToDo(left) == IF left = {} THEN "poll" ELSE "dispatch"

(* Where the loop goes on, from the channels and timers left to handle. *)
NextChannel(left) == IF left = {} THEN "toDo" ELSE "dispatch"

(* TimeQueue::handleRead runs the ActiveCloseConn of an expired timer of c. *)
(* c may be dead; or closed, or active since the timer was set, and then a  *)
(* later timer is pending; or c is idle and closed. The lock() makes the    *)
(* loop an owner for as long as the callback runs.                          *)
ActiveCloseConn(l, c) ==
  /\ pc[l] = "dispatch"
  /\ c \in due[l]
  /\ due' = [due EXCEPT ![l] = @ \ {c}]
  /\ \/ /\ life[c] # "alive"
        /\ Goto(l, NextChannel(chs[l] \cup due'[l]))
        /\ UNCHANGED <<cur, timer>>
     \/ /\ life[c] = "alive"
        /\ cur' = [cur EXCEPT ![l] = c]
        /\ Goto(l, "finish")
        /\ UNCHANGED timer
     \/ /\ life[c] = "alive"
        /\ state[c] = "Connected"
        /\ cur' = [cur EXCEPT ![l] = c]
        /\ timer' = timer \ {c}
        /\ Goto(l, "erase")
  /\ UNCHANGED <<kernelVars, connections, life, state, events, revents,
                 inepoll, after, want, closing, victim, chs, toDo, functions,
                 called, reap, stale, touched>>

(* channel::handleEventByCallBack up to the first callback: the channel's   *)
(* weak_ptr is locked, and nothing is done for a connection without owner.  *)
HandleEvent(l, c) ==
  /\ pc[l] = "dispatch"
  /\ c \in chs[l]
  /\ chs' = [chs EXCEPT ![l] = @ \ {c}]
  /\ \/ /\ life[c] = "alive"
        /\ cur' = [cur EXCEPT ![l] = c]
        /\ Goto(l, IF "in" \in revents[c] THEN "recv" ELSE "send")
        /\ UNCHANGED touched
     \/ /\ life[c] = "dying"
        /\ Goto(l, NextChannel(chs'[l] \cup due[l]))
        /\ UNCHANGED <<cur, touched>>
     \/ /\ Freed(c)
        /\ touched' = touched \cup {c}
        /\ Goto(l, "undefined")
        /\ UNCHANGED cur
  /\ UNCHANGED <<kernelVars, objectVars, after, want, closing, victim, due,
                 toDo, functions, called, reap, stale>>

(* The read callback, HttpServer::HttpOnMessage, up to its send0 or close0. *)
HttpOnMessage(l) ==
  LET c == cur[l] IN
  /\ pc[l] = "recv"
  /\ after' = [after EXCEPT ![l] =
                  IF "out" \in revents[c] THEN "send" ELSE "finish"]
  /\ \/ /\ peer[c] = "closed" \/ state[c] # "Connected"
        /\ state' = [state EXCEPT ![c] = "Closed"]
        /\ Goto(l, "erase")
        /\ UNCHANGED timer
     \/ /\ peer[c] # "closed"
        /\ state[c] = "Connected"
        /\ timer' = timer \cup {c}
        /\ Goto(l, "send")
        /\ UNCHANGED state
  /\ UNCHANGED <<kernelVars, connections, life, events, revents, inepoll,
                 cur, want, closing, victim, chs, due, toDo, functions,
                 called, reap, stale, touched>>

(* Connection::send0: everything was sent (and a close may follow), some of *)
(* it was not, or send failed.                                              *)
Send0(l) ==
  LET c == cur[l] IN
  /\ pc[l] = "send"
  /\ \/ /\ state[c] = "Connected"
        /\ \E close_after_write \in BOOLEAN :
              closing' = [closing EXCEPT ![l] = close_after_write]
        /\ want' = [want EXCEPT ![l] = Reading]
        /\ Goto(l, "update")
        /\ UNCHANGED state
     \/ /\ state[c] = "Connected"
        /\ closing' = [closing EXCEPT ![l] = FALSE]
        /\ want' = [want EXCEPT ![l] = events[c] \cup {"out"}]
        /\ Goto(l, "update")
        /\ UNCHANGED state
     \/ /\ peer[c] = "closed" \/ state[c] # "Connected"
        /\ state' = [state EXCEPT ![c] = "Closed"]
        /\ Goto(l, "erase")
        /\ UNCHANGED <<want, closing>>
  /\ UNCHANGED <<kernelVars, connections, life, events, revents, inepoll,
                 timer, after, cur, victim, chs, due, toDo, functions,
                 called, reap, stale, touched>>

(* Mistake (InterestFollowsEvents): the new interest never reaches epoll. *)
UpdateChannelForgets(l) ==
  LET c == cur[l]
      modifies == inepoll[c]
  IN
  /\ pc[l] = "update"
  /\ events' = [events EXCEPT ![c] = want[l]]
  /\ UNCHANGED interest
  /\ \/ modifies /\ ready' = ready \cup {c}
     \/ (modifies => peer[c] # "closed") /\ UNCHANGED ready
  /\ inepoll' = [inepoll EXCEPT ![c] = TRUE]
  /\ stale' = IF modifies THEN stale ELSE stale \cup {c}
  /\ \/ /\ closing[l]
        /\ Goto(l, "erase")
        /\ UNCHANGED after
     \/ /\ ~closing[l]
        /\ Return(l)
  /\ closing' = [closing EXCEPT ![l] = FALSE]
  /\ want' = [want EXCEPT ![l] = {}]
  /\ UNCHANGED <<peer, fd, connections, life, state, revents, timer, cur,
                 victim, chs, due, toDo, functions, called, reap, touched>>

(* epoll::updateChannel: MOD when inepoll is set, else ADD, which fails     *)
(* with EEXIST, unnoticed: the loop only gets here for a channel that is    *)
(* registered. MOD looks at the socket again: c is ready at once if it can  *)
(* be read or written.                                                      *)
UpdateChannel(l) ==
  LET c == cur[l]
      modifies == inepoll[c]
  IN
  /\ pc[l] = "update"
  /\ events' = [events EXCEPT ![c] = want[l]]
  /\ interest' = [interest EXCEPT ![c] = IF modifies THEN want[l] ELSE @]
  /\ \/ modifies /\ ready' = ready \cup {c}
     \/ (modifies => peer[c] # "closed") /\ UNCHANGED ready
  /\ inepoll' = [inepoll EXCEPT ![c] = TRUE]
  /\ stale' = IF modifies THEN stale ELSE stale \cup {c}
  /\ \/ /\ closing[l]
        /\ Goto(l, "erase")
        /\ UNCHANGED after
     \/ /\ ~closing[l]
        /\ Return(l)
  /\ closing' = [closing EXCEPT ![l] = FALSE]
  /\ want' = [want EXCEPT ![l] = {}]
  /\ UNCHANGED <<peer, fd, connections, life, state, revents, timer, cur,
                 victim, chs, due, toDo, functions, called, reap, touched>>

(* Mistake (ClosedOnce): the entry is not erased from the map. *)
EraseConnectionKeeps(l) ==
  LET f == fd[cur[l]] IN
  /\ pc[l] = "erase"
  /\ \/ /\ connections[f] = NoConn
        /\ Return(l)
        /\ UNCHANGED <<connections, victim>>
     \/ /\ connections[f] # NoConn
        /\ victim' = [victim EXCEPT ![l] = connections[f]]
        /\ UNCHANGED connections
        /\ Goto(l, "push")
        /\ UNCHANGED after
  /\ UNCHANGED <<kernelVars, life, state, events, revents, inepoll, timer,
                 cur, want, closing, chs, due, toDo, functions, called, reap,
                 stale, touched>>

(* Server::deleteConnection, its section under connections_mtx. *)
EraseConnection(l) ==
  LET f == fd[cur[l]] IN
  /\ pc[l] = "erase"
  /\ \/ /\ connections[f] = NoConn
        /\ Return(l)
        /\ UNCHANGED <<connections, victim>>
     \/ /\ connections[f] # NoConn
        /\ victim' = [victim EXCEPT ![l] = connections[f]]
        /\ connections' = [connections EXCEPT ![f] = NoConn]
        /\ Goto(l, "push")
        /\ UNCHANGED after
  /\ UNCHANGED <<kernelVars, life, state, events, revents, inepoll, timer,
                 cur, want, closing, chs, due, toDo, functions, called, reap,
                 stale, touched>>

(* PushFuncInToDoList on the connection's own loop, under its mutex_. *)
PushFuncInToDoList(l) ==
  /\ pc[l] = "push"
  /\ toDo' = [toDo EXCEPT ![LoopOf(victim[l])] = @ \cup {victim[l]}]
  /\ victim' = [victim EXCEPT ![l] = NoConn]
  /\ Return(l)
  /\ UNCHANGED <<kernelVars, objectVars, cur, want, closing, chs, due,
                 functions, called, reap, stale, touched>>

(* The callback is over: the guard goes out of scope. (revents is forgotten: *)
(* poll writes it before it is read again.)                                 *)
FinishEvent(l) == \E c \in Conn :
  /\ pc[l] = "finish"
  /\ cur[l] = c
  /\ cur' = [cur EXCEPT ![l] = NoConn]
  /\ revents' = [revents EXCEPT ![c] = IF c \in chs[l] THEN @ ELSE {}]
  /\ UNCHANGED <<kernelVars, connections, state, events, inepoll, timer,
                 want, closing, victim, chs, due, toDo, functions, called,
                 stale, touched>>
  /\ Dropped(l, c, NextChannel(chs[l] \cup due[l]))

(* DoToDolist: the list is swapped out under mutex_. *)
SwapToDoList(l) ==
  /\ pc[l] = "toDo"
  /\ functions' = [functions EXCEPT ![l] = toDo[l]]
  /\ toDo' = [toDo EXCEPT ![l] = {}]
  /\ Goto(l, IF toDo[l] = {} THEN "poll" ELSE "destruct")
  /\ UNCHANGED <<kernelVars, objectVars, after, cur, want, closing, victim,
                 chs, due, called, reap, stale, touched>>

(* Mistake (TouchedOnlyIfStale): the channel is never taken out of epoll. *)
ConnectionDestructorKeeps(l, c) ==
  /\ pc[l] = "destruct"
  /\ c \in functions[l]
  /\ functions' = [functions EXCEPT ![l] = @ \ {c}]
  /\ called' = [called EXCEPT ![l] = @ \cup {c}]
  /\ Goto(l, IF functions'[l] = {} THEN "clear" ELSE "destruct")
  /\ UNCHANGED <<kernelVars, objectVars, after, cur, want, closing, victim,
                 chs, due, toDo, reap, stale, touched>>

(* Connection::connectionDestructor: EPOLL_CTL_DEL if inepoll is set. *)
ConnectionDestructor(l, c) ==
  /\ pc[l] = "destruct"
  /\ c \in functions[l]
  /\ functions' = [functions EXCEPT ![l] = @ \ {c}]
  /\ called' = [called EXCEPT ![l] = @ \cup {c}]
  /\ \/ /\ inepoll[c]
        /\ interest' = [interest EXCEPT ![c] = {}]
        /\ ready' = ready \ {c}
        /\ UNCHANGED stale
     \/ /\ ~inepoll[c]
        /\ stale' = stale \cup {c}
        /\ UNCHANGED <<interest, ready>>
  /\ Goto(l, IF functions'[l] = {} THEN "clear" ELSE "destruct")
  /\ UNCHANGED <<peer, fd, objectVars, after, cur, want, closing, victim,
                 chs, due, toDo, reap, touched>>

(* DoToDolist returns: the functions, and what they own, are destroyed. *)
ClearFunction(l, c) ==
  /\ pc[l] = "clear"
  /\ c \in called[l]
  /\ called' = [called EXCEPT ![l] = @ \ {c}]
  /\ UNCHANGED <<kernelVars, connections, state, events, revents, inepoll,
                 timer, cur, want, closing, victim, chs, due, toDo,
                 functions, stale, touched>>
  /\ Dropped(l, c, IF called'[l] = {} THEN "poll" ELSE "clear")

-----------------------------------------------------------------------------
(* ~Connection, on whatever thread dropped the last shared_ptr: members go  *)
(* in reverse order of declaration, the channel first and then the socket.  *)

(* The channel's memory is returned: its fields are no more. *)
FreeChannel(t) ==
  LET c == reap[t] IN
  /\ pc[t] = "free"
  /\ life' = [life EXCEPT ![c] = "chFreed"]
  /\ events' = [events EXCEPT ![c] = {}]
  /\ revents' = [revents EXCEPT ![c] = {}]
  /\ inepoll' = [inepoll EXCEPT ![c] = FALSE]
  /\ Goto(t, "close")
  /\ UNCHANGED <<kernelVars, connections, state, timer, after, cur, want,
                 closing, victim, chs, due, toDo, functions, called, reap,
                 stale, touched>>

(* ~mysocket closes the descriptor; the kernel drops it from epoll. The     *)
(* timers that outlive c find its weak_ptr expired and do nothing: they are *)
(* forgotten here.                                                          *)
CloseSocket(t) ==
  LET c == reap[t] IN
  /\ pc[t] = "close"
  /\ life' = [life EXCEPT ![c] = "gone"]
  /\ fd' = [fd EXCEPT ![c] = NoFd]
  /\ interest' = [interest EXCEPT ![c] = {}]
  /\ ready' = ready \ {c}
  /\ timer' = timer \ {c}
  /\ reap' = [reap EXCEPT ![t] = NoConn]
  /\ Return(t)
  /\ UNCHANGED <<peer, connections, state, events, revents, inepoll, cur,
                 want, closing, victim, chs, due, toDo, functions, called,
                 stale, touched>>

-----------------------------------------------------------------------------

MainStep ==
  \/ \E c \in Conn, f \in Fd : Accept(c, f)
  \/ InsertConnection
  \/ RegisterCallBack
  \/ SetInEpoll
  \/ ReleaseConnection
  \/ FreeChannel(Main)
  \/ CloseSocket(Main)

LoopStep(l) ==
  \/ Poll(l)
  \/ \E c \in Conn : \/ ActiveCloseConn(l, c)
                     \/ HandleEvent(l, c)
                     \/ ConnectionDestructor(l, c)
                     \/ ClearFunction(l, c)
  \/ HttpOnMessage(l)
  \/ Send0(l)
  \/ UpdateChannel(l)
  \/ EraseConnection(l)
  \/ PushFuncInToDoList(l)
  \/ FinishEvent(l)
  \/ SwapToDoList(l)
  \/ FreeChannel(l)
  \/ CloseSocket(l)

Next == Environment \/ MainStep \/ \E l \in Loop : LoopStep(l)

Spec == Init /\ [][Next]_vars

(* Threads are scheduled; peers do as they like. *)
Fairness == WF_vars(MainStep) /\ \A l \in Loop : WF_vars(LoopStep(l))

FairSpec == Spec /\ Fairness

-----------------------------------------------------------------------------
(* What must hold. *)

Maybe == Conn \cup {NoConn}

MainLabel == {"accept", "insert", "register", "setInEpoll", "release"}
LoopLabel == {"poll", "dispatch", "recv", "send", "update", "erase", "push",
              "finish", "toDo", "destruct", "clear", "undefined"}
Label     == MainLabel \cup LoopLabel \cup {"free", "close"}

(* Type invariant. *)
TypeOK ==
  /\ peer \in [Conn -> {"open", "closed"}]
  /\ fd \in [Conn -> Fd \cup {NoFd}]
  /\ interest \in [Conn -> SUBSET Events]
  /\ ready \in SUBSET Conn
  /\ connections \in [Fd -> Maybe]
  /\ life \in [Conn -> {"none", "alive", "dying", "chFreed", "gone"}]
  /\ state \in [Conn -> {"Invalid", "Connected", "Closed"}]
  /\ events \in [Conn -> SUBSET Events]
  /\ revents \in [Conn -> SUBSET Events]
  /\ inepoll \in [Conn -> BOOLEAN]
  /\ timer \in SUBSET Conn
  /\ pc \in [Thread -> Label]
  /\ after \in [Thread -> Label]
  /\ cur \in [Thread -> Maybe]
  /\ want \in [Thread -> SUBSET Events]
  /\ closing \in [Thread -> BOOLEAN]
  /\ victim \in [Thread -> Maybe]
  /\ chs \in [Loop -> SUBSET Conn]
  /\ due \in [Loop -> SUBSET Conn]
  /\ toDo \in [Loop -> SUBSET Conn]
  /\ functions \in [Loop -> SUBSET Conn]
  /\ called \in [Loop -> SUBSET Conn]
  /\ reap \in [Thread -> Maybe]
  /\ stale \in SUBSET Conn
  /\ touched \in SUBSET Conn

(* A thread in the middle of a callback for a connection (channel::         *)
(* handleEventByCallBack's guard, newConnection's local) never sees it      *)
(* destroyed, whoever else lets go of it meanwhile.                         *)
HandledIsAlive ==
  \A t \in Thread : cur[t] # NoConn => life[cur[t]] = "alive"

(* Connection::close0 names its connection by descriptor only. When         *)
(* deleteConnection looks the descriptor up it finds that connection or     *)
(* nothing, never one that was given the same descriptor since, and         *)
(* newConnection never overwrites the entry of another connection.          *)
DescriptorNotConfused ==
  /\ \A l \in Loop : pc[l] = "erase" =>
        connections[fd[cur[l]]] \in {cur[l], NoConn}
  /\ pc[Main] = "insert" => connections[fd[cur[Main]]] = NoConn

(* However often close0 runs for a connection (timer, read callback, write  *)
(* callback), its destructor callback is queued once: the connection is in  *)
(* one place between the map and the end of DoToDolist.                     *)
Stages(c) ==
  [map |-> Cardinality({f \in Fd : connections[f] = c}),
   con |-> Cardinality({t \in Thread : victim[t] = c}),
   toDo |-> Cardinality({l \in Loop : c \in toDo[l]}),
   functions |-> Cardinality({l \in Loop : c \in functions[l]}),
   called |-> Cardinality({l \in Loop : c \in called[l]})]

ClosedOnce ==
  \A c \in Conn :
     LET s == Stages(c)
     IN s.map + s.con + s.toDo + s.functions + s.called <= 1

(* A loop that goes to sleep in epoll_wait has no destructor left to call:  *)
(* PushFuncInToDoList wakes nobody up (src/src/EventLoop.cpp:45).           *)
NoDestructorWhileAsleep == \A l \in Loop : pc[l] = "poll" => toDo[l] = {}

(* A freed channel is used only when a loop had read inepoll before the     *)
(* main reactor set it.                                                     *)
TouchedOnlyIfStale == touched \subseteq stale

(* What epoll watches is what the channel asked for, except after that same *)
(* early read.                                                              *)
InterestFollowsEvents ==
  \A c \in Conn : life[c] = "alive" /\ interest[c] # {} =>
     interest[c] = events[c] \/ c \in stale

(* The peer of a connection that was accepted closes: the connection is     *)
(* destroyed and its descriptor returned (unless a freed channel was used,  *)
(* after which anything may happen).                                        *)
ClosedPeerReclaimed ==
  \A c \in Conn : (peer[c] = "closed" /\ life[c] = "alive")
                     ~> (life[c] = "gone" \/ touched # {})

(* src/requirements.md:92, of the deletion of connections:                  *)
(* "连接删除应避免 use-after-free": no freed channel is used.               *)
NoUseAfterFree == touched = {}

-----------------------------------------------------------------------------
(* The server implements ConnLifecycle: Accept opens a connection, taking   *)
(* it out of the map closes it, closing the socket reclaims it.             *)

Mapped(c) == \E f \in Fd : connections[f] = c

Entering(c) == pc[Main] = "insert" /\ cur[Main] = c

Status(c) ==
  CASE life[c] = "none" -> "none"
    [] life[c] = "gone" -> "reclaimed"
    [] HasFd(c) /\ (Mapped(c) \/ Entering(c)) -> "open"
    [] HasFd(c) /\ ~(Mapped(c) \/ Entering(c)) -> "closed"

Lifecycle == INSTANCE ConnLifecycle WITH status <- [c \in Conn |-> Status(c)]

(* Every connection is opened on a free descriptor, closed once and then    *)
(* reclaimed, through all the steps of all the threads.                     *)
LifecycleSpec == Lifecycle!Spec

-----------------------------------------------------------------------------
(* The inductive invariant behind HandledIsAlive, DescriptorNotConfused and *)
(* LifecycleSpec.                                                           *)

(* Whoever has a shared_ptr keeps the object alive. *)
HeldIsAlive == \A c \in Conn : Held(c) => life[c] = "alive"

(* The map knows a connection by the descriptor it has. *)
MapKeyedByFd ==
  \A f \in Fd : connections[f] # NoConn => fd[connections[f]] = f

(* No two connections have one descriptor at the same time. *)
FdUnique ==
  \A c \in Conn : HasFd(c) =>
     /\ fd[c] \in Fd
     /\ \A d \in Conn \ {c} : HasFd(d) => fd[d] # fd[c]

(* A thread in a callback works on a connection, one in ~Connection too. *)
InCallback == {"insert", "register", "setInEpoll", "release",
               "recv", "send", "update", "erase", "push", "finish"}

CallbackHasConn ==
  \A t \in Thread :
     /\ pc[t] \in InCallback => cur[t] # NoConn
     /\ pc[t] = "push" => victim[t] # NoConn
     /\ pc[t] \in {"free", "close"} => reap[t] # NoConn

(* What newConnection enters in the map is not there yet. *)
EnteringIsNew == \A c \in Conn : Entering(c) => ~Mapped(c)

(* A thread in ~Connection is the only one that destroys that object. *)
ReapersApart ==
  \A t \in Thread :
     /\ pc[t] = "free" => life[reap[t]] = "dying"
     /\ pc[t] = "close" => life[reap[t]] = "chFreed"
     /\ \A u \in Thread \ {t} :
          pc[t] \in {"free", "close"} /\ pc[u] \in {"free", "close"}
             => reap[t] # reap[u]

(* Each thread keeps to its own code, also when it comes back from a call. *)
OwnCode ==
  /\ pc[Main] \in MainLabel \cup {"free", "close"}
  /\ pc[Main] \in {"free", "close"} => after[Main] = "accept"
  /\ \A l \in Loop :
       /\ pc[l] \in LoopLabel \cup {"free", "close"}
       /\ IF pc[l] \in {"free", "close"}
            THEN after[l] \in {"poll", "dispatch", "toDo", "clear"}
            ELSE after[l] \in {"send", "finish"}

OwnershipInv ==
  /\ TypeOK
  /\ OwnCode
  /\ CallbackHasConn
  /\ HeldIsAlive
  /\ MapKeyedByFd
  /\ FdUnique
  /\ EnteringIsNew
  /\ ReapersApart

-----------------------------------------------------------------------------
(* The inductive invariant behind ClosedOnce, NoDestructorWhileAsleep,      *)
(* TouchedOnlyIfStale and InterestFollowsEvents: the way of a connection    *)
(* from the map to the end of DoToDolist, and what is left of it behind.    *)

(* What deleteConnection has pushed on l's list and DoToDolist still owns.  *)
Pending(l) == toDo[l] \cup functions[l] \cup called[l]

(* deleteConnection holds c, out of the map and not yet on a list.          *)
Moving(c) == \E t \in Thread : victim[t] = c

(* On its way from the map to the end of DoToDolist a connection is in one  *)
(* place, and its destructor waits for its own loop.                        *)
OneStage ==
  /\ \A l \in Loop : \A c \in Pending(l) :
       l = LoopOf(c) /\ ~Mapped(c) /\ ~Moving(c) /\ ~Entering(c)
  /\ \A t, u \in Thread : victim[t] # NoConn /\ victim[t] = victim[u] => t = u
  /\ \A c \in Conn : Moving(c) => ~Mapped(c) /\ ~Entering(c)
  /\ \A l \in Loop : /\ toDo[l] \cap functions[l] = {}
                     /\ toDo[l] \cap called[l] = {}
                     /\ functions[l] \cap called[l] = {}

(* A loop works on its own connections only, and nobody knows a connection  *)
(* before it is accepted.                                                   *)
OwnLoop ==
  /\ \A c \in Conn : life[c] = "none" =>
       /\ interest[c] = {} /\ c \notin ready /\ c \notin timer
       /\ \A l \in Loop : c \notin chs[l] /\ c \notin due[l]
  /\ victim[Main] = NoConn
  /\ \A l \in Loop :
       /\ cur[l] # NoConn => LoopOf(cur[l]) = l
       /\ victim[l] # NoConn => LoopOf(victim[l]) = l
       /\ \A c \in Conn : (c \in chs[l] \/ c \in due[l]) /\ life[c] = "alive"
                             => LoopOf(c) = l

(* Where l is, or comes back to from ~Connection. *)
Place(l) == IF pc[l] \in {"free", "close"} THEN after[l] ELSE pc[l]

(* The phases of a loop's round leave nothing to one another. *)
Rounds ==
  \A l \in Loop :
    /\ Place(l) \in {"poll", "destruct", "clear"} => toDo[l] = {}
    /\ Place(l) \in {"poll", "toDo", "destruct", "clear"} =>
         chs[l] = {} /\ due[l] = {}
    /\ Place(l) # "destruct" => functions[l] = {}
    /\ pc[l] \notin InCallback => cur[l] = NoConn
    /\ pc[l] # "push" => victim[l] = NoConn
    /\ pc[l] \in {"poll", "dispatch", "recv", "finish", "toDo", "destruct",
                  "clear"} => after[l] = "finish"

(* Its destructor callback has run. *)
Deregistered(c) ==
  /\ life[c] # "none"
  /\ ~Mapped(c) /\ ~Entering(c) /\ ~Moving(c)
  /\ \A l \in Loop : c \notin toDo[l] /\ c \notin functions[l]

(* A connection newConnection is still at work on: neither epoll nor a loop *)
(* knows it before it is registered, and it stays in the map until then.    *)
Arriving ==
  pc[Main] \in {"insert", "register"} =>
    \A c \in Conn : cur[Main] = c =>
      /\ interest[c] = {} /\ c \notin ready /\ c \notin timer
      /\ \A l \in Loop : c \notin chs[l] /\ c \notin due[l] /\ cur[l] # c
      /\ pc[Main] = "register" => Mapped(c)

(* Epoll does not report c and no loop is about to register it again. A     *)
(* timer may still find it, and close it a second time.                     *)
Silent(c) ==
  /\ interest[c] = {} /\ c \notin ready
  /\ \A l \in Loop :
       /\ c \notin chs[l]
       /\ cur[l] = c => /\ pc[l] \in {"erase", "push", "finish"}
                        /\ after[l] = "finish"

(* After its destructor callback a connection is silent, unless inepoll was *)
(* read too early; freed channels are touched in no other case.             *)
Forgotten ==
  /\ \A c \in Conn : Deregistered(c) /\ c \notin stale => Silent(c)
  /\ touched \subseteq stale

(* All of it. *)
DestroyInv ==
  /\ OwnershipInv
  /\ OneStage
  /\ OwnLoop
  /\ Rounds
  /\ Arriving
  /\ Forgotten
=============================================================================
