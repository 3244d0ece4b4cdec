--------------------------- MODULE ReactorProofs ---------------------------
(***************************************************************************)
(* Proofs about Reactor, for any number of connections, descriptors and    *)
(* sub-reactors.                                                           *)
(***************************************************************************)
EXTENDS Reactor, FiniteSetTheorems, TLAPS

(* What a thread does when a shared_ptr goes keeps the types. *)
LEMMA DroppedType ==
  ASSUME TypeOK, NEW t \in Thread, NEW c \in Conn, NEW next \in Label,
         Dropped(t, c, next)
  PROVE  /\ life' \in [Conn -> {"none", "alive", "dying", "chFreed", "gone"}]
         /\ pc' \in [Thread -> Label]
         /\ after' \in [Thread -> Label]
         /\ reap' \in [Thread -> Maybe]
<1>1. /\ life \in [Conn -> {"none", "alive", "dying", "chFreed", "gone"}]
      /\ pc \in [Thread -> Label]
      /\ after \in [Thread -> Label]
      /\ reap \in [Thread -> Maybe]
  BY DEF TypeOK
<1>2. "free" \in Label /\ c \in Maybe
  BY DEF Label, Maybe
<1>3. CASE /\ pc' = [pc EXCEPT ![t] = next]
           /\ UNCHANGED <<life, reap, after>>
  BY <1>1, <1>3
<1>4. CASE /\ life' = [life EXCEPT ![c] = "dying"]
           /\ reap' = [reap EXCEPT ![t] = c]
           /\ pc' = [pc EXCEPT ![t] = "free"]
           /\ after' = [after EXCEPT ![t] = next]
  BY <1>1, <1>2, <1>4
<1> QED
  BY <1>3, <1>4 DEF Dropped, Goto

(* A thread in a callback has a live connection with a descriptor. *)
LEMMA CallbackConn ==
  ASSUME OwnershipInv, NEW t \in Thread, pc[t] \in InCallback
  PROVE  cur[t] \in Conn /\ life[cur[t]] = "alive" /\ fd[cur[t]] \in Fd
<1>1. cur[t] \in Conn
  BY DEF OwnershipInv, CallbackHasConn, TypeOK, Maybe
<1>2. life[cur[t]] = "alive"
  BY <1>1 DEF OwnershipInv, HeldIsAlive, Held
<1> QED
  BY <1>1, <1>2 DEF OwnershipInv, FdUnique, HasFd

(* The types hold at the start ... *)
LEMMA TypeInit == Init => TypeOK
BY DEF Init, TypeOK, Label, MainLabel, LoopLabel, Maybe, Events

(* ... and after every step, given the whole invariant before it. *)
LEMMA TypeStep == OwnershipInv /\ [Next]_vars => TypeOK'
<1> SUFFICES ASSUME OwnershipInv, [Next]_vars
             PROVE TypeOK'
  OBVIOUS
<1> USE ReactorAssumption DEF Thread, Label
<1>type. TypeOK
  BY DEF OwnershipInv
<1>labels. /\ pc \in [Thread -> Label]
           /\ after \in [Thread -> Label]
  BY <1>type DEF TypeOK
<1>env. CASE Environment
  BY <1>type, <1>env DEF Environment, PeerSends, PeerCloses, PeerDrains,
     TypeOK, objectVars, threadVars
<1>accept. ASSUME NEW c \in Conn, NEW f \in Fd, Accept(c, f) PROVE TypeOK'
  BY <1>type, <1>accept DEF Accept, Goto, MainLabel, Maybe, TypeOK
<1>insert. CASE InsertConnection
  BY <1>type, <1>insert DEF InsertConnection, Goto, MainLabel, Maybe,
     kernelVars, InCallback, TypeOK
<1>register. CASE RegisterCallBack
  <2>1. cur[Main] \in Conn
    BY <1>register, CallbackConn DEF RegisterCallBack, InCallback
  <2> QED
    BY <1>type, <1>register, <2>1 DEF RegisterCallBack, Goto, MainLabel,
       TypeOK, Reading, Events
<1>set. CASE SetInEpoll
  BY <1>type, <1>set DEF SetInEpoll, Goto, MainLabel, Maybe, kernelVars,
     InCallback, TypeOK
<1>release. CASE ReleaseConnection
  <2>1. PICK c \in Conn :
          /\ cur' = [cur EXCEPT ![Main] = NoConn]
          /\ UNCHANGED <<kernelVars, connections, state, events, revents,
                         inepoll, timer, want, closing, victim, chs, due,
                         toDo, functions, called, stale, touched>>
          /\ Dropped(Main, c, "accept")
    BY <1>release DEF ReleaseConnection
  <2>2. /\ life' \in [Conn -> {"none", "alive", "dying", "chFreed", "gone"}]
        /\ pc' \in [Thread -> Label]
        /\ after' \in [Thread -> Label]
        /\ reap' \in [Thread -> Maybe]
    BY <1>type, <2>1, DroppedType DEF MainLabel
  <2>3. cur' \in [Thread -> Maybe]
    BY <1>type, <2>1 DEF TypeOK, Maybe
  <2> QED
    BY <1>type, <2>1, <2>2, <2>3 DEF TypeOK, kernelVars
<1>poll. ASSUME NEW l \in Loop, Poll(l) PROVE TypeOK'
  BY <1>type, <1>poll DEF Poll, Goto, LoopLabel, TypeOK
<1>timer. ASSUME NEW l \in Loop, NEW c \in Conn, ActiveCloseConn(l, c)
          PROVE TypeOK'
  <2>1. pc' \in [Thread -> Label]
    BY <1>labels, <1>timer DEF ActiveCloseConn, NextChannel, Goto, LoopLabel
  <2>2. cur' \in [Thread -> Maybe] /\ timer' \in SUBSET Conn
    BY <1>type, <1>timer DEF ActiveCloseConn, Maybe, TypeOK
  <2>3. due' \in [Loop -> SUBSET Conn]
    BY <1>type, <1>timer DEF ActiveCloseConn, TypeOK
  <2>4. UNCHANGED <<kernelVars, connections, life, state, events,
                   revents, inepoll, after, want, closing, victim,
                   chs, toDo, functions, called, reap, stale,
                   touched>>
    BY <1>timer DEF ActiveCloseConn
  <2> QED
    BY <1>type, <2>1, <2>2, <2>3, <2>4 DEF TypeOK, kernelVars
<1>handle. ASSUME NEW l \in Loop, NEW c \in Conn, HandleEvent(l, c)
           PROVE TypeOK'
  <2>1. pc' \in [Thread -> Label]
    BY <1>labels, <1>handle DEF HandleEvent, NextChannel, Goto, LoopLabel
  <2>2. cur' \in [Thread -> Maybe] /\ touched' \in SUBSET Conn
    BY <1>type, <1>handle DEF HandleEvent, Maybe, TypeOK
  <2>3. chs' \in [Loop -> SUBSET Conn]
    BY <1>type, <1>handle DEF HandleEvent, TypeOK
  <2>4. UNCHANGED <<kernelVars, objectVars, after, want, closing,
                   victim, due, toDo, functions, called, reap, stale>>
    BY <1>handle DEF HandleEvent
  <2> QED
    BY <1>type, <2>1, <2>2, <2>3, <2>4 DEF TypeOK, kernelVars, objectVars
<1>recv. ASSUME NEW l \in Loop, HttpOnMessage(l) PROVE TypeOK'
  <2>1. cur[l] \in Conn
    BY <1>recv, CallbackConn DEF HttpOnMessage, InCallback
  <2>2. pc' \in [Thread -> Label] /\ after' \in [Thread -> Label]
    BY <1>labels, <1>recv DEF HttpOnMessage, Goto, LoopLabel
  <2>3. /\ state' \in [Conn -> {"Invalid", "Connected", "Closed"}]
        /\ timer' \in SUBSET Conn
    BY <1>type, <1>recv, <2>1 DEF HttpOnMessage, TypeOK
  <2>4. UNCHANGED <<kernelVars, connections, life, events, revents,
                   inepoll, cur, want, closing, victim, chs, due,
                   toDo, functions, called, reap, stale, touched>>
    BY <1>recv DEF HttpOnMessage
  <2> QED
    BY <1>type, <2>2, <2>3, <2>4 DEF TypeOK, kernelVars
<1>send. ASSUME NEW l \in Loop, Send0(l) PROVE TypeOK'
  <2>1. events[cur[l]] \in SUBSET Events
    BY <1>type, <1>send, CallbackConn DEF Send0, InCallback, TypeOK
  <2>2. pc' \in [Thread -> Label]
    BY <1>labels, <1>send DEF Send0, Goto, LoopLabel
  <2>3. /\ state' \in [Conn -> {"Invalid", "Connected", "Closed"}]
        /\ want' \in [Thread -> SUBSET Events]
        /\ closing' \in [Thread -> BOOLEAN]
    <3>1. /\ state \in [Conn -> {"Invalid", "Connected", "Closed"}]
          /\ want \in [Thread -> SUBSET Events]
          /\ closing \in [Thread -> BOOLEAN]
      BY <1>type DEF TypeOK
    <3>2. /\ Reading \in SUBSET Events
          /\ events[cur[l]] \cup {"out"} \in SUBSET Events
      BY <2>1 DEF Reading, Events
    <3>3. state' \in [Conn -> {"Invalid", "Connected", "Closed"}]
      BY <1>send, <3>1 DEF Send0
    <3>4. want' \in [Thread -> SUBSET Events]
      BY <1>send, <3>1, <3>2 DEF Send0
    <3>5. closing' \in [Thread -> BOOLEAN]
      BY <1>send, <3>1 DEF Send0
    <3> QED
      BY <3>3, <3>4, <3>5
  <2>4. UNCHANGED <<kernelVars, connections, life, events, revents,
                   inepoll, timer, after, cur, victim, chs, due, toDo,
                   functions, called, reap, stale, touched>>
    BY <1>send DEF Send0
  <2> QED
    BY <1>type, <2>2, <2>3, <2>4 DEF TypeOK, kernelVars
<1>update. ASSUME NEW l \in Loop, UpdateChannel(l) PROVE TypeOK'
  <2>1. cur[l] \in Conn
    BY <1>update, CallbackConn DEF UpdateChannel, InCallback
  <2>2. pc' \in [Thread -> Label] /\ after' \in [Thread -> Label]
    BY <1>labels, <1>update DEF UpdateChannel, Goto, Return, LoopLabel
  <2>3. /\ interest' \in [Conn -> SUBSET Events]
        /\ events' \in [Conn -> SUBSET Events]
        /\ want' \in [Thread -> SUBSET Events]
    BY <1>type, <1>update, <2>1 DEF UpdateChannel, TypeOK
  <2> QED
    BY <1>type, <1>update, <2>1, <2>2, <2>3 DEF UpdateChannel, TypeOK
<1>erase. ASSUME NEW l \in Loop, EraseConnection(l) PROVE TypeOK'
  <2>1. fd[cur[l]] \in Fd
    BY <1>erase, CallbackConn DEF EraseConnection, InCallback
  <2>2. pc' \in [Thread -> Label] /\ after' \in [Thread -> Label]
    BY <1>labels, <1>erase DEF EraseConnection, Goto, Return, LoopLabel
  <2>3. victim' \in [Thread -> Maybe] /\ connections' \in [Fd -> Maybe]
    <3>1. /\ victim \in [Thread -> Maybe] /\ connections \in [Fd -> Maybe]
          /\ connections[fd[cur[l]]] \in Maybe /\ NoConn \in Maybe
      BY <1>type, <2>1 DEF TypeOK, Maybe
    <3>2. /\ \/ victim' = victim
             \/ victim' = [victim EXCEPT ![l] = connections[fd[cur[l]]]]
          /\ \/ connections' = connections
             \/ connections' = [connections EXCEPT ![fd[cur[l]]] = NoConn]
      BY <1>erase DEF EraseConnection
    <3> QED
      BY <3>1, <3>2
  <2>4. UNCHANGED <<kernelVars, life, state, events, revents, inepoll,
                   timer, cur, want, closing, chs, due, toDo,
                   functions, called, reap, stale, touched>>
    BY <1>erase DEF EraseConnection
  <2> QED
    BY <1>type, <2>2, <2>3, <2>4 DEF TypeOK, kernelVars
<1>push. ASSUME NEW l \in Loop, PushFuncInToDoList(l) PROVE TypeOK'
  <2>1. victim[l] \in Conn
    BY <1>type, <1>push DEF PushFuncInToDoList, OwnershipInv, CallbackHasConn,
       TypeOK, Maybe
  <2> QED
    BY <1>type, <1>push, <2>1 DEF PushFuncInToDoList, Goto, Return, TypeOK,
       LoopLabel, Maybe, kernelVars, objectVars
<1>finish. ASSUME NEW l \in Loop, FinishEvent(l) PROVE TypeOK'
  BY <1>type, <1>finish, DroppedType DEF FinishEvent, NextChannel,
     LoopLabel, Maybe, kernelVars, TypeOK
<1>swap. ASSUME NEW l \in Loop, SwapToDoList(l) PROVE TypeOK'
  BY <1>type, <1>swap DEF SwapToDoList, Goto, LoopLabel, kernelVars,
     objectVars, TypeOK
<1>destruct. ASSUME NEW l \in Loop, NEW c \in Conn, ConnectionDestructor(l, c)
          PROVE TypeOK'
  BY <1>type, <1>destruct DEF ConnectionDestructor, Goto, LoopLabel,
     objectVars, TypeOK
<1>clear. ASSUME NEW l \in Loop, NEW c \in Conn, ClearFunction(l, c)
          PROVE TypeOK'
  BY <1>type, <1>clear, DroppedType DEF ClearFunction, LoopLabel,
     kernelVars, TypeOK
<1>free. ASSUME NEW t \in Thread, FreeChannel(t) PROVE TypeOK'
  BY <1>type, <1>free DEF FreeChannel, Goto, kernelVars, TypeOK
<1>close. ASSUME NEW t \in Thread, CloseSocket(t) PROVE TypeOK'
  <2>1. pc' \in [Thread -> Label] /\ after' \in [Thread -> Label]
    BY <1>labels, <1>close DEF CloseSocket, Return, Goto, LoopLabel
  <2>2. reap' \in [Thread -> Maybe] /\ fd' \in [Conn -> Fd \cup {NoFd}]
    BY <1>type, <1>close DEF CloseSocket, Maybe, TypeOK
  <2> QED
    BY <1>type, <1>close, <2>1, <2>2 DEF CloseSocket, TypeOK
<1>stutter. CASE UNCHANGED vars
  BY <1>type, <1>stutter DEF vars, kernelVars, objectVars, threadVars, TypeOK
<1> QED
  BY <1>env, <1>accept, <1>insert, <1>register, <1>set, <1>release, <1>poll,
     <1>timer, <1>handle, <1>recv, <1>send, <1>update, <1>erase, <1>push,
     <1>finish, <1>swap, <1>destruct, <1>clear, <1>free, <1>close, <1>stutter
     DEF Next, MainStep, LoopStep

(* Every thread keeps to its code and has what it works on. *)
LEMMA ControlStep ==
  OwnershipInv /\ [Next]_vars => CallbackHasConn' /\ OwnCode'
<1> SUFFICES ASSUME OwnershipInv, [Next]_vars
             PROVE  CallbackHasConn' /\ OwnCode'
  OBVIOUS
<1> USE ReactorAssumption DEF Thread, Maybe
<1>types. /\ pc \in [Thread -> Label]
          /\ after \in [Thread -> Label]
          /\ cur \in [Thread -> Maybe]
          /\ victim \in [Thread -> Maybe]
          /\ reap \in [Thread -> Maybe]
          /\ connections \in [Fd -> Maybe]
  BY DEF OwnershipInv, TypeOK
<1>inv. CallbackHasConn /\ OwnCode /\ Main \notin Loop
  BY DEF OwnershipInv, Loop
<1>env. CASE Environment
  <2>1. CallbackHasConn'
    BY <1>types, <1>inv, <1>env DEF Environment, PeerSends, PeerCloses,
       PeerDrains, objectVars, threadVars, CallbackHasConn, InCallback,
       OwnCode
  <2>2. OwnCode'
    BY <1>types, <1>inv, <1>env DEF Environment, PeerSends, PeerCloses,
       PeerDrains, objectVars, threadVars, OwnCode, MainLabel, LoopLabel
  <2> QED
    BY <2>1, <2>2
<1>accept. ASSUME NEW c \in Conn, NEW f \in Fd, Accept(c, f)
           PROVE  CallbackHasConn' /\ OwnCode'
  <2>1. CallbackHasConn'
    BY <1>types, <1>inv, <1>accept DEF Accept, Goto, CallbackHasConn,
       InCallback, OwnCode
  <2>2. OwnCode'
    BY <1>types, <1>inv, <1>accept DEF Accept, Goto, OwnCode, MainLabel,
       LoopLabel
  <2> QED
    BY <2>1, <2>2
<1>insert. CASE InsertConnection
  <2>1. CallbackHasConn'
    BY <1>types, <1>inv, <1>insert DEF InsertConnection, Goto, kernelVars,
       CallbackHasConn, InCallback, OwnCode
  <2>2. OwnCode'
    BY <1>types, <1>inv, <1>insert DEF InsertConnection, Goto, kernelVars,
       OwnCode, MainLabel, LoopLabel
  <2> QED
    BY <2>1, <2>2
<1>register. CASE RegisterCallBack
  <2>1. CallbackHasConn'
    BY <1>types, <1>inv, <1>register DEF RegisterCallBack, Goto,
       CallbackHasConn, InCallback, OwnCode
  <2>2. OwnCode'
    BY <1>types, <1>inv, <1>register DEF RegisterCallBack, Goto, OwnCode,
       MainLabel, LoopLabel
  <2> QED
    BY <2>1, <2>2
<1>set. CASE SetInEpoll
  <2>1. CallbackHasConn'
    BY <1>types, <1>inv, <1>set DEF SetInEpoll, Goto, kernelVars,
       CallbackHasConn, InCallback, OwnCode
  <2>2. OwnCode'
    BY <1>types, <1>inv, <1>set DEF SetInEpoll, Goto, kernelVars, OwnCode,
       MainLabel, LoopLabel
  <2> QED
    BY <2>1, <2>2
<1>release. CASE ReleaseConnection
  <2>1. CallbackHasConn'
    BY <1>types, <1>inv, <1>release DEF ReleaseConnection, Dropped, Goto,
       kernelVars, CallbackHasConn, InCallback, OwnCode
  <2>2. OwnCode'
    BY <1>types, <1>inv, <1>release DEF ReleaseConnection, Dropped, Goto,
       kernelVars, OwnCode, MainLabel, LoopLabel
  <2> QED
    BY <2>1, <2>2
<1>poll. ASSUME NEW l \in Loop, Poll(l) PROVE CallbackHasConn' /\ OwnCode'
  <2>1. CallbackHasConn'
    BY <1>types, <1>inv, <1>poll DEF Poll, Goto, CallbackHasConn, InCallback,
       OwnCode
  <2>2. OwnCode'
    BY <1>types, <1>inv, <1>poll DEF Poll, Goto, OwnCode, MainLabel,
       LoopLabel
  <2> QED
    BY <2>1, <2>2
<1>timer. ASSUME NEW l \in Loop, NEW c \in Conn, ActiveCloseConn(l, c)
          PROVE  CallbackHasConn' /\ OwnCode'
  <2>1. CallbackHasConn'
    BY <1>types, <1>inv, <1>timer DEF ActiveCloseConn, NextChannel, Goto,
       kernelVars, CallbackHasConn, InCallback, OwnCode
  <2>2. OwnCode'
    BY <1>types, <1>inv, <1>timer DEF ActiveCloseConn, NextChannel, Goto,
       kernelVars, OwnCode, MainLabel, LoopLabel
  <2> QED
    BY <2>1, <2>2
<1>handle. ASSUME NEW l \in Loop, NEW c \in Conn, HandleEvent(l, c)
           PROVE  CallbackHasConn' /\ OwnCode'
  <2>1. CallbackHasConn'
    BY <1>types, <1>inv, <1>handle DEF HandleEvent, NextChannel, Goto,
       kernelVars, objectVars, CallbackHasConn, InCallback, OwnCode
  <2>2. OwnCode'
    BY <1>types, <1>inv, <1>handle DEF HandleEvent, NextChannel, Goto,
       kernelVars, objectVars, OwnCode, MainLabel, LoopLabel
  <2> QED
    BY <2>1, <2>2
<1>recv. ASSUME NEW l \in Loop, HttpOnMessage(l)
         PROVE  CallbackHasConn' /\ OwnCode'
  <2>1. CallbackHasConn'
    BY <1>types, <1>inv, <1>recv DEF HttpOnMessage, Goto, kernelVars,
       CallbackHasConn, InCallback, OwnCode
  <2>2. OwnCode'
    BY <1>types, <1>inv, <1>recv DEF HttpOnMessage, Goto, kernelVars,
       OwnCode, MainLabel, LoopLabel
  <2> QED
    BY <2>1, <2>2
<1>send. ASSUME NEW l \in Loop, Send0(l) PROVE CallbackHasConn' /\ OwnCode'
  <2>1. CallbackHasConn'
    BY <1>types, <1>inv, <1>send DEF Send0, Goto, kernelVars,
       CallbackHasConn, InCallback, OwnCode
  <2>2. OwnCode'
    BY <1>types, <1>inv, <1>send DEF Send0, Goto, kernelVars, OwnCode,
       MainLabel, LoopLabel
  <2> QED
    BY <2>1, <2>2
<1>update. ASSUME NEW l \in Loop, UpdateChannel(l)
           PROVE  CallbackHasConn' /\ OwnCode'
  <2>1. CallbackHasConn'
    BY <1>types, <1>inv, <1>update DEF UpdateChannel, Goto, Return,
       CallbackHasConn, InCallback, OwnCode
  <2>2. OwnCode'
    BY <1>types, <1>inv, <1>update DEF UpdateChannel, Goto, Return, OwnCode,
       MainLabel, LoopLabel
  <2> QED
    BY <2>1, <2>2
<1>erase. ASSUME NEW l \in Loop, EraseConnection(l)
          PROVE  CallbackHasConn' /\ OwnCode'
  <2>1. CallbackHasConn'
    BY <1>types, <1>inv, <1>erase DEF EraseConnection, Goto, Return,
       kernelVars, CallbackHasConn, InCallback, OwnCode
  <2>2. OwnCode'
    BY <1>types, <1>inv, <1>erase DEF EraseConnection, Goto, Return,
       kernelVars, OwnCode, MainLabel, LoopLabel
  <2> QED
    BY <2>1, <2>2
<1>push. ASSUME NEW l \in Loop, PushFuncInToDoList(l)
         PROVE  CallbackHasConn' /\ OwnCode'
  <2>1. CallbackHasConn'
    BY <1>types, <1>inv, <1>push DEF PushFuncInToDoList, Goto, Return,
       kernelVars, objectVars, CallbackHasConn, InCallback, OwnCode
  <2>2. OwnCode'
    BY <1>types, <1>inv, <1>push DEF PushFuncInToDoList, Goto, Return,
       kernelVars, objectVars, OwnCode, MainLabel, LoopLabel
  <2> QED
    BY <2>1, <2>2
<1>finish. ASSUME NEW l \in Loop, FinishEvent(l)
           PROVE  CallbackHasConn' /\ OwnCode'
  <2>1. CallbackHasConn'
    BY <1>types, <1>inv, <1>finish DEF FinishEvent, NextChannel, Dropped,
       Goto, kernelVars, CallbackHasConn, InCallback, OwnCode
  <2>2. OwnCode'
    BY <1>types, <1>inv, <1>finish DEF FinishEvent, NextChannel, Dropped,
       Goto, kernelVars, OwnCode, MainLabel, LoopLabel
  <2> QED
    BY <2>1, <2>2
<1>swap. ASSUME NEW l \in Loop, SwapToDoList(l)
         PROVE  CallbackHasConn' /\ OwnCode'
  <2>1. CallbackHasConn'
    BY <1>types, <1>inv, <1>swap DEF SwapToDoList, Goto, kernelVars,
       objectVars, CallbackHasConn, InCallback, OwnCode
  <2>2. OwnCode'
    BY <1>types, <1>inv, <1>swap DEF SwapToDoList, Goto, kernelVars,
       objectVars, OwnCode, MainLabel, LoopLabel
  <2> QED
    BY <2>1, <2>2
<1>destruct. ASSUME NEW l \in Loop, NEW c \in Conn, ConnectionDestructor(l, c)
             PROVE  CallbackHasConn' /\ OwnCode'
  <2>1. CallbackHasConn'
    BY <1>types, <1>inv, <1>destruct DEF ConnectionDestructor, Goto,
       objectVars, CallbackHasConn, InCallback, OwnCode
  <2>2. OwnCode'
    BY <1>types, <1>inv, <1>destruct DEF ConnectionDestructor, Goto,
       objectVars, OwnCode, MainLabel, LoopLabel
  <2> QED
    BY <2>1, <2>2
<1>clear. ASSUME NEW l \in Loop, NEW c \in Conn, ClearFunction(l, c)
          PROVE  CallbackHasConn' /\ OwnCode'
  <2>1. CallbackHasConn'
    BY <1>types, <1>inv, <1>clear DEF ClearFunction, Dropped, Goto,
       kernelVars, CallbackHasConn, InCallback, OwnCode
  <2>2. OwnCode'
    BY <1>types, <1>inv, <1>clear DEF ClearFunction, Dropped, Goto,
       kernelVars, OwnCode, MainLabel, LoopLabel
  <2> QED
    BY <2>1, <2>2
<1>free. ASSUME NEW t \in Thread, FreeChannel(t)
         PROVE  CallbackHasConn' /\ OwnCode'
  <2>1. CallbackHasConn'
    BY <1>types, <1>inv, <1>free DEF FreeChannel, Goto, kernelVars,
       CallbackHasConn, InCallback, OwnCode
  <2>2. OwnCode'
    BY <1>types, <1>inv, <1>free DEF FreeChannel, Goto, kernelVars, OwnCode,
       MainLabel, LoopLabel
  <2> QED
    BY <2>1, <2>2
<1>close. ASSUME NEW t \in Thread, CloseSocket(t)
          PROVE  CallbackHasConn' /\ OwnCode'
  <2>1. CallbackHasConn'
    BY <1>types, <1>inv, <1>close DEF CloseSocket, Return, Goto,
       CallbackHasConn, InCallback, OwnCode
  <2>2. OwnCode'
    BY <1>types, <1>inv, <1>close DEF CloseSocket, Return, Goto, OwnCode,
       MainLabel, LoopLabel
  <2> QED
    BY <2>1, <2>2
<1>stutter. CASE UNCHANGED vars
  <2>1. CallbackHasConn'
    BY <1>types, <1>inv, <1>stutter DEF vars, kernelVars, objectVars,
       threadVars, CallbackHasConn, InCallback, OwnCode
  <2>2. OwnCode'
    BY <1>types, <1>inv, <1>stutter DEF vars, kernelVars, objectVars,
       threadVars, OwnCode, MainLabel, LoopLabel
  <2> QED
    BY <2>1, <2>2
<1> QED
  BY <1>env, <1>accept, <1>insert, <1>register, <1>set, <1>release, <1>poll,
     <1>timer, <1>handle, <1>recv, <1>send, <1>update, <1>erase, <1>push,
     <1>finish, <1>swap, <1>destruct, <1>clear, <1>free, <1>close, <1>stutter
     DEF Next, MainStep, LoopStep

(* Only objects nobody holds a shared_ptr to die. *)
LEMMA HeldStep ==
  OwnershipInv /\ [Next]_vars => HeldIsAlive'
<1> SUFFICES ASSUME OwnershipInv, [Next]_vars
             PROVE  HeldIsAlive'
  OBVIOUS
<1> USE ReactorAssumption DEF Thread, Maybe
<1>types. /\ pc \in [Thread -> Label]
          /\ after \in [Thread -> Label]
          /\ cur \in [Thread -> Maybe]
          /\ victim \in [Thread -> Maybe]
          /\ reap \in [Thread -> Maybe]
          /\ connections \in [Fd -> Maybe]
          /\ fd \in [Conn -> Fd \cup {NoFd}]
          /\ life \in [Conn -> {"none", "alive", "dying", "chFreed", "gone"}]
          /\ toDo \in [Loop -> SUBSET Conn]
          /\ functions \in [Loop -> SUBSET Conn]
          /\ called \in [Loop -> SUBSET Conn]
  BY DEF OwnershipInv, TypeOK
<1>inv. OwnershipInv /\ Main \notin Loop
  BY DEF Loop
<1>own. CallbackHasConn /\ OwnCode /\ HeldIsAlive /\ MapKeyedByFd /\ FdUnique
        /\ EnteringIsNew /\ ReapersApart
  BY DEF OwnershipInv
<1>env. CASE Environment
  BY <1>types, <1>inv, <1>own, <1>env DEF Environment, PeerSends, PeerCloses,
     PeerDrains, objectVars, threadVars, HeldIsAlive, Held, CallbackHasConn,
     InCallback, ReapersApart
<1>accept. ASSUME NEW c \in Conn, NEW f \in Fd, Accept(c, f)
           PROVE  HeldIsAlive'
  BY <1>types, <1>inv, <1>own, <1>accept DEF Accept, Goto, HeldIsAlive, Held,
     CallbackHasConn, InCallback, ReapersApart
<1>insert. CASE InsertConnection
  BY <1>types, <1>inv, <1>own, <1>insert DEF InsertConnection, Goto,
     kernelVars, HeldIsAlive, Held, CallbackHasConn, InCallback, ReapersApart
<1>register. CASE RegisterCallBack
  BY <1>types, <1>inv, <1>own, <1>register DEF RegisterCallBack, Goto,
     HeldIsAlive, Held, CallbackHasConn, InCallback, ReapersApart
<1>set. CASE SetInEpoll
  BY <1>types, <1>inv, <1>own, <1>set DEF SetInEpoll, Goto, kernelVars,
     HeldIsAlive, Held, CallbackHasConn, InCallback, ReapersApart
<1>release. CASE ReleaseConnection
  BY <1>types, <1>inv, <1>own, <1>release DEF ReleaseConnection, Dropped,
     Goto, kernelVars, HeldIsAlive, Held, CallbackHasConn, InCallback,
     ReapersApart
<1>poll. ASSUME NEW l \in Loop, Poll(l) PROVE HeldIsAlive'
  BY <1>types, <1>inv, <1>own, <1>poll DEF Poll, Goto, HeldIsAlive, Held,
     CallbackHasConn, InCallback, ReapersApart
<1>timer. ASSUME NEW l \in Loop, NEW c \in Conn, ActiveCloseConn(l, c)
          PROVE  HeldIsAlive'
  BY <1>types, <1>inv, <1>own, <1>timer DEF ActiveCloseConn, NextChannel,
     Goto, kernelVars, HeldIsAlive, Held, CallbackHasConn, InCallback,
     ReapersApart
<1>handle. ASSUME NEW l \in Loop, NEW c \in Conn, HandleEvent(l, c)
           PROVE  HeldIsAlive'
  BY <1>types, <1>inv, <1>own, <1>handle DEF HandleEvent, NextChannel, Goto,
     kernelVars, objectVars, HeldIsAlive, Held, CallbackHasConn, InCallback,
     ReapersApart
<1>recv. ASSUME NEW l \in Loop, HttpOnMessage(l) PROVE HeldIsAlive'
  BY <1>types, <1>inv, <1>own, <1>recv DEF HttpOnMessage, Goto, kernelVars,
     HeldIsAlive, Held, CallbackHasConn, InCallback, ReapersApart
<1>send. ASSUME NEW l \in Loop, Send0(l) PROVE HeldIsAlive'
  BY <1>types, <1>inv, <1>own, <1>send DEF Send0, Goto, kernelVars,
     HeldIsAlive, Held, CallbackHasConn, InCallback, ReapersApart
<1>update. ASSUME NEW l \in Loop, UpdateChannel(l) PROVE HeldIsAlive'
  BY <1>types, <1>inv, <1>own, <1>update DEF UpdateChannel, Goto, Return,
     HeldIsAlive, Held, CallbackHasConn, InCallback, ReapersApart
<1>erase. ASSUME NEW l \in Loop, EraseConnection(l) PROVE HeldIsAlive'
  <2>1. fd[cur[l]] \in Fd
    BY <1>inv, <1>erase, CallbackConn DEF EraseConnection, InCallback
  <2>2. \A c \in Conn : Held(c)' => Held(c)
    BY <1>types, <1>erase, <2>1 DEF EraseConnection, Held
  <2> QED
    BY <1>own, <1>erase, <2>2 DEF EraseConnection, HeldIsAlive
<1>push. ASSUME NEW l \in Loop, PushFuncInToDoList(l) PROVE HeldIsAlive'
  BY <1>types, <1>inv, <1>own, <1>push DEF PushFuncInToDoList, Goto, Return,
     kernelVars, objectVars, HeldIsAlive, Held, CallbackHasConn, InCallback,
     ReapersApart
<1>finish. ASSUME NEW l \in Loop, FinishEvent(l) PROVE HeldIsAlive'
  BY <1>types, <1>inv, <1>own, <1>finish DEF FinishEvent, NextChannel,
     Dropped, Goto, kernelVars, HeldIsAlive, Held, CallbackHasConn,
     InCallback, ReapersApart
<1>swap. ASSUME NEW l \in Loop, SwapToDoList(l) PROVE HeldIsAlive'
  BY <1>types, <1>inv, <1>own, <1>swap DEF SwapToDoList, Goto, kernelVars,
     objectVars, HeldIsAlive, Held, CallbackHasConn, InCallback, ReapersApart
<1>destruct. ASSUME NEW l \in Loop, NEW c \in Conn, ConnectionDestructor(l, c)
             PROVE  HeldIsAlive'
  BY <1>types, <1>inv, <1>own, <1>destruct DEF ConnectionDestructor, Goto,
     objectVars, HeldIsAlive, Held, CallbackHasConn, InCallback, ReapersApart
<1>clear. ASSUME NEW l \in Loop, NEW c \in Conn, ClearFunction(l, c)
          PROVE  HeldIsAlive'
  BY <1>types, <1>inv, <1>own, <1>clear DEF ClearFunction, Dropped, Goto,
     kernelVars, HeldIsAlive, Held, CallbackHasConn, InCallback, ReapersApart
<1>free. ASSUME NEW t \in Thread, FreeChannel(t) PROVE HeldIsAlive'
  BY <1>types, <1>inv, <1>own, <1>free DEF FreeChannel, Goto, kernelVars,
     HeldIsAlive, Held, CallbackHasConn, InCallback, ReapersApart
<1>close. ASSUME NEW t \in Thread, CloseSocket(t) PROVE HeldIsAlive'
  BY <1>types, <1>inv, <1>own, <1>close DEF CloseSocket, Return, Goto,
     HeldIsAlive, Held, CallbackHasConn, InCallback, ReapersApart
<1>stutter. CASE UNCHANGED vars
  BY <1>types, <1>inv, <1>own, <1>stutter DEF vars, kernelVars, objectVars,
     threadVars, HeldIsAlive, Held, CallbackHasConn, InCallback, ReapersApart
<1> QED
  BY <1>env, <1>accept, <1>insert, <1>register, <1>set, <1>release, <1>poll,
     <1>timer, <1>handle, <1>recv, <1>send, <1>update, <1>erase, <1>push,
     <1>finish, <1>swap, <1>destruct, <1>clear, <1>free, <1>close, <1>stutter
     DEF Next, MainStep, LoopStep

(* The map keeps its key. *)
LEMMA MapStep ==
  OwnershipInv /\ [Next]_vars => MapKeyedByFd'
<1> SUFFICES ASSUME OwnershipInv, [Next]_vars
             PROVE  MapKeyedByFd'
  OBVIOUS
<1> USE ReactorAssumption DEF Thread, Maybe
<1>types. /\ pc \in [Thread -> Label]
          /\ after \in [Thread -> Label]
          /\ cur \in [Thread -> Maybe]
          /\ victim \in [Thread -> Maybe]
          /\ reap \in [Thread -> Maybe]
          /\ connections \in [Fd -> Maybe]
          /\ fd \in [Conn -> Fd \cup {NoFd}]
          /\ life \in [Conn -> {"none", "alive", "dying", "chFreed", "gone"}]
          /\ toDo \in [Loop -> SUBSET Conn]
          /\ functions \in [Loop -> SUBSET Conn]
          /\ called \in [Loop -> SUBSET Conn]
  BY DEF OwnershipInv, TypeOK
<1>inv. OwnershipInv /\ Main \notin Loop
  BY DEF Loop
<1>own. CallbackHasConn /\ OwnCode /\ HeldIsAlive /\ MapKeyedByFd /\ FdUnique
        /\ EnteringIsNew /\ ReapersApart
  BY DEF OwnershipInv
<1>env. CASE Environment
  BY <1>types, <1>inv, <1>own, <1>env DEF Environment, PeerSends, PeerCloses,
     PeerDrains, objectVars, threadVars, MapKeyedByFd, HeldIsAlive, Held,
     CallbackHasConn, InCallback, EnteringIsNew, Entering, ReapersApart
<1>accept. ASSUME NEW c \in Conn, NEW f \in Fd, Accept(c, f)
           PROVE  MapKeyedByFd'
  BY <1>types, <1>inv, <1>own, <1>accept DEF Accept, Goto, MapKeyedByFd,
     HeldIsAlive, Held, CallbackHasConn, InCallback, EnteringIsNew, Entering,
     ReapersApart
<1>insert. CASE InsertConnection
  BY <1>types, <1>inv, <1>own, <1>insert DEF InsertConnection, Goto,
     kernelVars, MapKeyedByFd, HeldIsAlive, Held, CallbackHasConn,
     InCallback, EnteringIsNew, Entering, ReapersApart
<1>register. CASE RegisterCallBack
  BY <1>types, <1>inv, <1>own, <1>register DEF RegisterCallBack, Goto,
     MapKeyedByFd, HeldIsAlive, Held, CallbackHasConn, InCallback,
     EnteringIsNew, Entering, ReapersApart
<1>set. CASE SetInEpoll
  BY <1>types, <1>inv, <1>own, <1>set DEF SetInEpoll, Goto, kernelVars,
     MapKeyedByFd, HeldIsAlive, Held, CallbackHasConn, InCallback,
     EnteringIsNew, Entering, ReapersApart
<1>release. CASE ReleaseConnection
  BY <1>types, <1>inv, <1>own, <1>release DEF ReleaseConnection, Dropped,
     Goto, kernelVars, MapKeyedByFd, HeldIsAlive, Held, CallbackHasConn,
     InCallback, EnteringIsNew, Entering, ReapersApart
<1>poll. ASSUME NEW l \in Loop, Poll(l) PROVE MapKeyedByFd'
  BY <1>types, <1>inv, <1>own, <1>poll DEF Poll, Goto, MapKeyedByFd,
     HeldIsAlive, Held, CallbackHasConn, InCallback, EnteringIsNew, Entering,
     ReapersApart
<1>timer. ASSUME NEW l \in Loop, NEW c \in Conn, ActiveCloseConn(l, c)
          PROVE  MapKeyedByFd'
  BY <1>types, <1>inv, <1>own, <1>timer DEF ActiveCloseConn, NextChannel,
     Goto, kernelVars, MapKeyedByFd, HeldIsAlive, Held, CallbackHasConn,
     InCallback, EnteringIsNew, Entering, ReapersApart
<1>handle. ASSUME NEW l \in Loop, NEW c \in Conn, HandleEvent(l, c)
           PROVE  MapKeyedByFd'
  BY <1>types, <1>inv, <1>own, <1>handle DEF HandleEvent, NextChannel, Goto,
     kernelVars, objectVars, MapKeyedByFd, HeldIsAlive, Held,
     CallbackHasConn, InCallback, EnteringIsNew, Entering, ReapersApart
<1>recv. ASSUME NEW l \in Loop, HttpOnMessage(l) PROVE MapKeyedByFd'
  BY <1>types, <1>inv, <1>own, <1>recv DEF HttpOnMessage, Goto, kernelVars,
     MapKeyedByFd, HeldIsAlive, Held, CallbackHasConn, InCallback,
     EnteringIsNew, Entering, ReapersApart
<1>send. ASSUME NEW l \in Loop, Send0(l) PROVE MapKeyedByFd'
  BY <1>types, <1>inv, <1>own, <1>send DEF Send0, Goto, kernelVars,
     MapKeyedByFd, HeldIsAlive, Held, CallbackHasConn, InCallback,
     EnteringIsNew, Entering, ReapersApart
<1>update. ASSUME NEW l \in Loop, UpdateChannel(l) PROVE MapKeyedByFd'
  BY <1>types, <1>inv, <1>own, <1>update DEF UpdateChannel, Goto, Return,
     MapKeyedByFd, HeldIsAlive, Held, CallbackHasConn, InCallback,
     EnteringIsNew, Entering, ReapersApart
<1>erase. ASSUME NEW l \in Loop, EraseConnection(l) PROVE MapKeyedByFd'
  BY <1>types, <1>inv, <1>own, <1>erase DEF EraseConnection, Goto, Return,
     kernelVars, MapKeyedByFd, HeldIsAlive, Held, CallbackHasConn,
     InCallback, EnteringIsNew, Entering, ReapersApart
<1>push. ASSUME NEW l \in Loop, PushFuncInToDoList(l) PROVE MapKeyedByFd'
  BY <1>types, <1>inv, <1>own, <1>push DEF PushFuncInToDoList, Goto, Return,
     kernelVars, objectVars, MapKeyedByFd, HeldIsAlive, Held,
     CallbackHasConn, InCallback, EnteringIsNew, Entering, ReapersApart
<1>finish. ASSUME NEW l \in Loop, FinishEvent(l) PROVE MapKeyedByFd'
  BY <1>types, <1>inv, <1>own, <1>finish DEF FinishEvent, NextChannel,
     Dropped, Goto, kernelVars, MapKeyedByFd, HeldIsAlive, Held,
     CallbackHasConn, InCallback, EnteringIsNew, Entering, ReapersApart
<1>swap. ASSUME NEW l \in Loop, SwapToDoList(l) PROVE MapKeyedByFd'
  BY <1>types, <1>inv, <1>own, <1>swap DEF SwapToDoList, Goto, kernelVars,
     objectVars, MapKeyedByFd, HeldIsAlive, Held, CallbackHasConn,
     InCallback, EnteringIsNew, Entering, ReapersApart
<1>destruct. ASSUME NEW l \in Loop, NEW c \in Conn, ConnectionDestructor(l, c)
             PROVE  MapKeyedByFd'
  BY <1>types, <1>inv, <1>own, <1>destruct DEF ConnectionDestructor, Goto,
     objectVars, MapKeyedByFd, HeldIsAlive, Held, CallbackHasConn,
     InCallback, EnteringIsNew, Entering, ReapersApart
<1>clear. ASSUME NEW l \in Loop, NEW c \in Conn, ClearFunction(l, c)
          PROVE  MapKeyedByFd'
  BY <1>types, <1>inv, <1>own, <1>clear DEF ClearFunction, Dropped, Goto,
     kernelVars, MapKeyedByFd, HeldIsAlive, Held, CallbackHasConn,
     InCallback, EnteringIsNew, Entering, ReapersApart
<1>free. ASSUME NEW t \in Thread, FreeChannel(t) PROVE MapKeyedByFd'
  BY <1>types, <1>inv, <1>own, <1>free DEF FreeChannel, Goto, kernelVars,
     MapKeyedByFd, HeldIsAlive, Held, CallbackHasConn, InCallback,
     EnteringIsNew, Entering, ReapersApart
<1>close. ASSUME NEW t \in Thread, CloseSocket(t) PROVE MapKeyedByFd'
  BY <1>types, <1>inv, <1>own, <1>close DEF CloseSocket, Return, Goto,
     MapKeyedByFd, HeldIsAlive, Held, CallbackHasConn, InCallback,
     EnteringIsNew, Entering, ReapersApart
<1>stutter. CASE UNCHANGED vars
  BY <1>types, <1>inv, <1>own, <1>stutter DEF vars, kernelVars, objectVars,
     threadVars, MapKeyedByFd, HeldIsAlive, Held, CallbackHasConn,
     InCallback, EnteringIsNew, Entering, ReapersApart
<1> QED
  BY <1>env, <1>accept, <1>insert, <1>register, <1>set, <1>release, <1>poll,
     <1>timer, <1>handle, <1>recv, <1>send, <1>update, <1>erase, <1>push,
     <1>finish, <1>swap, <1>destruct, <1>clear, <1>free, <1>close, <1>stutter
     DEF Next, MainStep, LoopStep

(* Descriptors stay apart. *)
LEMMA FdStep ==
  OwnershipInv /\ [Next]_vars => FdUnique'
<1> SUFFICES ASSUME OwnershipInv, [Next]_vars
             PROVE  FdUnique'
  OBVIOUS
<1> USE ReactorAssumption DEF Thread, Maybe
<1>types. /\ pc \in [Thread -> Label]
          /\ after \in [Thread -> Label]
          /\ cur \in [Thread -> Maybe]
          /\ victim \in [Thread -> Maybe]
          /\ reap \in [Thread -> Maybe]
          /\ connections \in [Fd -> Maybe]
          /\ fd \in [Conn -> Fd \cup {NoFd}]
          /\ life \in [Conn -> {"none", "alive", "dying", "chFreed", "gone"}]
          /\ toDo \in [Loop -> SUBSET Conn]
          /\ functions \in [Loop -> SUBSET Conn]
          /\ called \in [Loop -> SUBSET Conn]
  BY DEF OwnershipInv, TypeOK
<1>inv. OwnershipInv /\ Main \notin Loop
  BY DEF Loop
<1>own. CallbackHasConn /\ OwnCode /\ HeldIsAlive /\ MapKeyedByFd /\ FdUnique
        /\ EnteringIsNew /\ ReapersApart
  BY DEF OwnershipInv
<1>env. CASE Environment
  BY <1>types, <1>inv, <1>own, <1>env DEF Environment, PeerSends, PeerCloses,
     PeerDrains, objectVars, threadVars, FdUnique, HasFd, FreeFds,
     HeldIsAlive, Held, CallbackHasConn, ReapersApart
<1>accept. ASSUME NEW c \in Conn, NEW f \in Fd, Accept(c, f) PROVE FdUnique'
  BY <1>types, <1>inv, <1>own, <1>accept DEF Accept, Goto, FdUnique, HasFd,
     FreeFds, HeldIsAlive, Held, CallbackHasConn, ReapersApart
<1>insert. CASE InsertConnection
  BY <1>types, <1>inv, <1>own, <1>insert DEF InsertConnection, Goto,
     kernelVars, FdUnique, HasFd, FreeFds, HeldIsAlive, Held,
     CallbackHasConn, ReapersApart
<1>register. CASE RegisterCallBack
  BY <1>types, <1>inv, <1>own, <1>register DEF RegisterCallBack, Goto,
     FdUnique, HasFd, FreeFds, HeldIsAlive, Held, CallbackHasConn,
     ReapersApart
<1>set. CASE SetInEpoll
  BY <1>types, <1>inv, <1>own, <1>set DEF SetInEpoll, Goto, kernelVars,
     FdUnique, HasFd, FreeFds, HeldIsAlive, Held, CallbackHasConn,
     ReapersApart
<1>release. CASE ReleaseConnection
  BY <1>types, <1>inv, <1>own, <1>release DEF ReleaseConnection, Dropped,
     Goto, kernelVars, FdUnique, HasFd, FreeFds, HeldIsAlive, Held,
     CallbackHasConn, ReapersApart
<1>poll. ASSUME NEW l \in Loop, Poll(l) PROVE FdUnique'
  BY <1>types, <1>inv, <1>own, <1>poll DEF Poll, Goto, FdUnique, HasFd,
     FreeFds, HeldIsAlive, Held, CallbackHasConn, ReapersApart
<1>timer. ASSUME NEW l \in Loop, NEW c \in Conn, ActiveCloseConn(l, c)
          PROVE  FdUnique'
  BY <1>types, <1>inv, <1>own, <1>timer DEF ActiveCloseConn, NextChannel,
     Goto, kernelVars, FdUnique, HasFd, FreeFds, HeldIsAlive, Held,
     CallbackHasConn, ReapersApart
<1>handle. ASSUME NEW l \in Loop, NEW c \in Conn, HandleEvent(l, c)
           PROVE  FdUnique'
  BY <1>types, <1>inv, <1>own, <1>handle DEF HandleEvent, NextChannel, Goto,
     kernelVars, objectVars, FdUnique, HasFd, FreeFds, HeldIsAlive, Held,
     CallbackHasConn, ReapersApart
<1>recv. ASSUME NEW l \in Loop, HttpOnMessage(l) PROVE FdUnique'
  BY <1>types, <1>inv, <1>own, <1>recv DEF HttpOnMessage, Goto, kernelVars,
     FdUnique, HasFd, FreeFds, HeldIsAlive, Held, CallbackHasConn,
     ReapersApart
<1>send. ASSUME NEW l \in Loop, Send0(l) PROVE FdUnique'
  BY <1>types, <1>inv, <1>own, <1>send DEF Send0, Goto, kernelVars, FdUnique,
     HasFd, FreeFds, HeldIsAlive, Held, CallbackHasConn, ReapersApart
<1>update. ASSUME NEW l \in Loop, UpdateChannel(l) PROVE FdUnique'
  BY <1>types, <1>inv, <1>own, <1>update DEF UpdateChannel, Goto, Return,
     FdUnique, HasFd, FreeFds, HeldIsAlive, Held, CallbackHasConn,
     ReapersApart
<1>erase. ASSUME NEW l \in Loop, EraseConnection(l) PROVE FdUnique'
  BY <1>types, <1>inv, <1>own, <1>erase DEF EraseConnection, Goto, Return,
     kernelVars, FdUnique, HasFd, FreeFds, HeldIsAlive, Held,
     CallbackHasConn, ReapersApart
<1>push. ASSUME NEW l \in Loop, PushFuncInToDoList(l) PROVE FdUnique'
  BY <1>types, <1>inv, <1>own, <1>push DEF PushFuncInToDoList, Goto, Return,
     kernelVars, objectVars, FdUnique, HasFd, FreeFds, HeldIsAlive, Held,
     CallbackHasConn, ReapersApart
<1>finish. ASSUME NEW l \in Loop, FinishEvent(l) PROVE FdUnique'
  BY <1>types, <1>inv, <1>own, <1>finish DEF FinishEvent, NextChannel,
     Dropped, Goto, kernelVars, FdUnique, HasFd, FreeFds, HeldIsAlive, Held,
     CallbackHasConn, ReapersApart
<1>swap. ASSUME NEW l \in Loop, SwapToDoList(l) PROVE FdUnique'
  BY <1>types, <1>inv, <1>own, <1>swap DEF SwapToDoList, Goto, kernelVars,
     objectVars, FdUnique, HasFd, FreeFds, HeldIsAlive, Held,
     CallbackHasConn, ReapersApart
<1>destruct. ASSUME NEW l \in Loop, NEW c \in Conn, ConnectionDestructor(l, c)
             PROVE  FdUnique'
  BY <1>types, <1>inv, <1>own, <1>destruct DEF ConnectionDestructor, Goto,
     objectVars, FdUnique, HasFd, FreeFds, HeldIsAlive, Held,
     CallbackHasConn, ReapersApart
<1>clear. ASSUME NEW l \in Loop, NEW c \in Conn, ClearFunction(l, c)
          PROVE  FdUnique'
  BY <1>types, <1>inv, <1>own, <1>clear DEF ClearFunction, Dropped, Goto,
     kernelVars, FdUnique, HasFd, FreeFds, HeldIsAlive, Held,
     CallbackHasConn, ReapersApart
<1>free. ASSUME NEW t \in Thread, FreeChannel(t) PROVE FdUnique'
  BY <1>types, <1>inv, <1>own, <1>free DEF FreeChannel, Goto, kernelVars,
     FdUnique, HasFd, FreeFds, HeldIsAlive, Held, CallbackHasConn,
     ReapersApart
<1>close. ASSUME NEW t \in Thread, CloseSocket(t) PROVE FdUnique'
  BY <1>types, <1>inv, <1>own, <1>close DEF CloseSocket, Return, Goto,
     FdUnique, HasFd, FreeFds, HeldIsAlive, Held, CallbackHasConn,
     ReapersApart
<1>stutter. CASE UNCHANGED vars
  BY <1>types, <1>inv, <1>own, <1>stutter DEF vars, kernelVars, objectVars,
     threadVars, FdUnique, HasFd, FreeFds, HeldIsAlive, Held,
     CallbackHasConn, ReapersApart
<1> QED
  BY <1>env, <1>accept, <1>insert, <1>register, <1>set, <1>release, <1>poll,
     <1>timer, <1>handle, <1>recv, <1>send, <1>update, <1>erase, <1>push,
     <1>finish, <1>swap, <1>destruct, <1>clear, <1>free, <1>close, <1>stutter
     DEF Next, MainStep, LoopStep

(* A connection is entered in the map once. *)
LEMMA EnteringStep ==
  OwnershipInv /\ [Next]_vars => EnteringIsNew'
<1> SUFFICES ASSUME OwnershipInv, [Next]_vars
             PROVE  EnteringIsNew'
  OBVIOUS
<1> USE ReactorAssumption DEF Thread, Maybe
<1>types. /\ pc \in [Thread -> Label]
          /\ after \in [Thread -> Label]
          /\ cur \in [Thread -> Maybe]
          /\ victim \in [Thread -> Maybe]
          /\ reap \in [Thread -> Maybe]
          /\ connections \in [Fd -> Maybe]
          /\ fd \in [Conn -> Fd \cup {NoFd}]
          /\ life \in [Conn -> {"none", "alive", "dying", "chFreed", "gone"}]
          /\ toDo \in [Loop -> SUBSET Conn]
          /\ functions \in [Loop -> SUBSET Conn]
          /\ called \in [Loop -> SUBSET Conn]
  BY DEF OwnershipInv, TypeOK
<1>inv. OwnershipInv /\ Main \notin Loop
  BY DEF Loop
<1>own. CallbackHasConn /\ OwnCode /\ HeldIsAlive /\ MapKeyedByFd /\ FdUnique
        /\ EnteringIsNew /\ ReapersApart
  BY DEF OwnershipInv
<1>env. CASE Environment
  BY <1>types, <1>inv, <1>own, <1>env DEF Environment, PeerSends, PeerCloses,
     PeerDrains, objectVars, threadVars, EnteringIsNew, Entering, Mapped,
     HeldIsAlive, Held, OwnCode, MainLabel, LoopLabel, MapKeyedByFd
<1>accept. ASSUME NEW c \in Conn, NEW f \in Fd, Accept(c, f)
           PROVE  EnteringIsNew'
  BY <1>types, <1>inv, <1>own, <1>accept DEF Accept, Goto, EnteringIsNew,
     Entering, Mapped, HeldIsAlive, Held, OwnCode, MainLabel, LoopLabel,
     MapKeyedByFd
<1>insert. CASE InsertConnection
  BY <1>types, <1>inv, <1>own, <1>insert DEF InsertConnection, Goto,
     kernelVars, EnteringIsNew, Entering, Mapped, HeldIsAlive, Held, OwnCode,
     MainLabel, LoopLabel, MapKeyedByFd
<1>register. CASE RegisterCallBack
  BY <1>types, <1>inv, <1>own, <1>register DEF RegisterCallBack, Goto,
     EnteringIsNew, Entering, Mapped, HeldIsAlive, Held, OwnCode, MainLabel,
     LoopLabel, MapKeyedByFd
<1>set. CASE SetInEpoll
  BY <1>types, <1>inv, <1>own, <1>set DEF SetInEpoll, Goto, kernelVars,
     EnteringIsNew, Entering, Mapped, HeldIsAlive, Held, OwnCode, MainLabel,
     LoopLabel, MapKeyedByFd
<1>release. CASE ReleaseConnection
  BY <1>types, <1>inv, <1>own, <1>release DEF ReleaseConnection, Dropped,
     Goto, kernelVars, EnteringIsNew, Entering, Mapped, HeldIsAlive, Held,
     OwnCode, MainLabel, LoopLabel, MapKeyedByFd
<1>poll. ASSUME NEW l \in Loop, Poll(l) PROVE EnteringIsNew'
  BY <1>types, <1>inv, <1>own, <1>poll DEF Poll, Goto, EnteringIsNew,
     Entering, Mapped, HeldIsAlive, Held, OwnCode, MainLabel, LoopLabel,
     MapKeyedByFd
<1>timer. ASSUME NEW l \in Loop, NEW c \in Conn, ActiveCloseConn(l, c)
          PROVE  EnteringIsNew'
  BY <1>types, <1>inv, <1>own, <1>timer DEF ActiveCloseConn, NextChannel,
     Goto, kernelVars, EnteringIsNew, Entering, Mapped, HeldIsAlive, Held,
     OwnCode, MainLabel, LoopLabel, MapKeyedByFd
<1>handle. ASSUME NEW l \in Loop, NEW c \in Conn, HandleEvent(l, c)
           PROVE  EnteringIsNew'
  BY <1>types, <1>inv, <1>own, <1>handle DEF HandleEvent, NextChannel, Goto,
     kernelVars, objectVars, EnteringIsNew, Entering, Mapped, HeldIsAlive,
     Held, OwnCode, MainLabel, LoopLabel, MapKeyedByFd
<1>recv. ASSUME NEW l \in Loop, HttpOnMessage(l) PROVE EnteringIsNew'
  BY <1>types, <1>inv, <1>own, <1>recv DEF HttpOnMessage, Goto, kernelVars,
     EnteringIsNew, Entering, Mapped, HeldIsAlive, Held, OwnCode, MainLabel,
     LoopLabel, MapKeyedByFd
<1>send. ASSUME NEW l \in Loop, Send0(l) PROVE EnteringIsNew'
  BY <1>types, <1>inv, <1>own, <1>send DEF Send0, Goto, kernelVars,
     EnteringIsNew, Entering, Mapped, HeldIsAlive, Held, OwnCode, MainLabel,
     LoopLabel, MapKeyedByFd
<1>update. ASSUME NEW l \in Loop, UpdateChannel(l) PROVE EnteringIsNew'
  BY <1>types, <1>inv, <1>own, <1>update DEF UpdateChannel, Goto, Return,
     EnteringIsNew, Entering, Mapped, HeldIsAlive, Held, OwnCode, MainLabel,
     LoopLabel, MapKeyedByFd
<1>erase. ASSUME NEW l \in Loop, EraseConnection(l) PROVE EnteringIsNew'
  BY <1>types, <1>inv, <1>own, <1>erase DEF EraseConnection, Goto, Return,
     kernelVars, EnteringIsNew, Entering, Mapped, HeldIsAlive, Held, OwnCode,
     MainLabel, LoopLabel, MapKeyedByFd
<1>push. ASSUME NEW l \in Loop, PushFuncInToDoList(l) PROVE EnteringIsNew'
  BY <1>types, <1>inv, <1>own, <1>push DEF PushFuncInToDoList, Goto, Return,
     kernelVars, objectVars, EnteringIsNew, Entering, Mapped, HeldIsAlive,
     Held, OwnCode, MainLabel, LoopLabel, MapKeyedByFd
<1>finish. ASSUME NEW l \in Loop, FinishEvent(l) PROVE EnteringIsNew'
  BY <1>types, <1>inv, <1>own, <1>finish DEF FinishEvent, NextChannel,
     Dropped, Goto, kernelVars, EnteringIsNew, Entering, Mapped, HeldIsAlive,
     Held, OwnCode, MainLabel, LoopLabel, MapKeyedByFd
<1>swap. ASSUME NEW l \in Loop, SwapToDoList(l) PROVE EnteringIsNew'
  BY <1>types, <1>inv, <1>own, <1>swap DEF SwapToDoList, Goto, kernelVars,
     objectVars, EnteringIsNew, Entering, Mapped, HeldIsAlive, Held, OwnCode,
     MainLabel, LoopLabel, MapKeyedByFd
<1>destruct. ASSUME NEW l \in Loop, NEW c \in Conn, ConnectionDestructor(l, c)
             PROVE  EnteringIsNew'
  BY <1>types, <1>inv, <1>own, <1>destruct DEF ConnectionDestructor, Goto,
     objectVars, EnteringIsNew, Entering, Mapped, HeldIsAlive, Held, OwnCode,
     MainLabel, LoopLabel, MapKeyedByFd
<1>clear. ASSUME NEW l \in Loop, NEW c \in Conn, ClearFunction(l, c)
          PROVE  EnteringIsNew'
  BY <1>types, <1>inv, <1>own, <1>clear DEF ClearFunction, Dropped, Goto,
     kernelVars, EnteringIsNew, Entering, Mapped, HeldIsAlive, Held, OwnCode,
     MainLabel, LoopLabel, MapKeyedByFd
<1>free. ASSUME NEW t \in Thread, FreeChannel(t) PROVE EnteringIsNew'
  BY <1>types, <1>inv, <1>own, <1>free DEF FreeChannel, Goto, kernelVars,
     EnteringIsNew, Entering, Mapped, HeldIsAlive, Held, OwnCode, MainLabel,
     LoopLabel, MapKeyedByFd
<1>close. ASSUME NEW t \in Thread, CloseSocket(t) PROVE EnteringIsNew'
  BY <1>types, <1>inv, <1>own, <1>close DEF CloseSocket, Return, Goto,
     EnteringIsNew, Entering, Mapped, HeldIsAlive, Held, OwnCode, MainLabel,
     LoopLabel, MapKeyedByFd
<1>stutter. CASE UNCHANGED vars
  BY <1>types, <1>inv, <1>own, <1>stutter DEF vars, kernelVars, objectVars,
     threadVars, EnteringIsNew, Entering, Mapped, HeldIsAlive, Held, OwnCode,
     MainLabel, LoopLabel, MapKeyedByFd
<1> QED
  BY <1>env, <1>accept, <1>insert, <1>register, <1>set, <1>release, <1>poll,
     <1>timer, <1>handle, <1>recv, <1>send, <1>update, <1>erase, <1>push,
     <1>finish, <1>swap, <1>destruct, <1>clear, <1>free, <1>close, <1>stutter
     DEF Next, MainStep, LoopStep

(* Destructors stay apart. *)
LEMMA ReaperStep ==
  OwnershipInv /\ [Next]_vars => ReapersApart'
<1> SUFFICES ASSUME OwnershipInv, [Next]_vars
             PROVE  ReapersApart'
  OBVIOUS
<1> USE ReactorAssumption DEF Thread, Maybe
<1>types. /\ pc \in [Thread -> Label]
          /\ after \in [Thread -> Label]
          /\ cur \in [Thread -> Maybe]
          /\ victim \in [Thread -> Maybe]
          /\ reap \in [Thread -> Maybe]
          /\ connections \in [Fd -> Maybe]
          /\ fd \in [Conn -> Fd \cup {NoFd}]
          /\ life \in [Conn -> {"none", "alive", "dying", "chFreed", "gone"}]
          /\ toDo \in [Loop -> SUBSET Conn]
          /\ functions \in [Loop -> SUBSET Conn]
          /\ called \in [Loop -> SUBSET Conn]
  BY DEF OwnershipInv, TypeOK
<1>inv. OwnershipInv /\ Main \notin Loop
  BY DEF Loop
<1>own. CallbackHasConn /\ OwnCode /\ HeldIsAlive /\ MapKeyedByFd /\ FdUnique
        /\ EnteringIsNew /\ ReapersApart
  BY DEF OwnershipInv
<1>env. CASE Environment
  BY <1>types, <1>inv, <1>own, <1>env DEF Environment, PeerSends, PeerCloses,
     PeerDrains, objectVars, threadVars, ReapersApart, OwnCode, MainLabel,
     LoopLabel, HeldIsAlive, Held, CallbackHasConn, InCallback
<1>accept. ASSUME NEW c \in Conn, NEW f \in Fd, Accept(c, f)
           PROVE  ReapersApart'
  BY <1>types, <1>inv, <1>own, <1>accept DEF Accept, Goto, ReapersApart,
     OwnCode, MainLabel, LoopLabel, HeldIsAlive, Held, CallbackHasConn,
     InCallback
<1>insert. CASE InsertConnection
  BY <1>types, <1>inv, <1>own, <1>insert DEF InsertConnection, Goto,
     kernelVars, ReapersApart, OwnCode, MainLabel, LoopLabel, HeldIsAlive,
     Held, CallbackHasConn, InCallback
<1>register. CASE RegisterCallBack
  BY <1>types, <1>inv, <1>own, <1>register DEF RegisterCallBack, Goto,
     ReapersApart, OwnCode, MainLabel, LoopLabel, HeldIsAlive, Held,
     CallbackHasConn, InCallback
<1>set. CASE SetInEpoll
  BY <1>types, <1>inv, <1>own, <1>set DEF SetInEpoll, Goto, kernelVars,
     ReapersApart, OwnCode, MainLabel, LoopLabel, HeldIsAlive, Held,
     CallbackHasConn, InCallback
<1>release. CASE ReleaseConnection
  BY <1>types, <1>inv, <1>own, <1>release DEF ReleaseConnection, Dropped,
     Goto, kernelVars, ReapersApart, OwnCode, MainLabel, LoopLabel,
     HeldIsAlive, Held, CallbackHasConn, InCallback
<1>poll. ASSUME NEW l \in Loop, Poll(l) PROVE ReapersApart'
  BY <1>types, <1>inv, <1>own, <1>poll DEF Poll, Goto, ReapersApart, OwnCode,
     MainLabel, LoopLabel, HeldIsAlive, Held, CallbackHasConn, InCallback
<1>timer. ASSUME NEW l \in Loop, NEW c \in Conn, ActiveCloseConn(l, c)
          PROVE  ReapersApart'
  BY <1>types, <1>inv, <1>own, <1>timer DEF ActiveCloseConn, NextChannel,
     Goto, kernelVars, ReapersApart, OwnCode, MainLabel, LoopLabel,
     HeldIsAlive, Held, CallbackHasConn, InCallback
<1>handle. ASSUME NEW l \in Loop, NEW c \in Conn, HandleEvent(l, c)
           PROVE  ReapersApart'
  BY <1>types, <1>inv, <1>own, <1>handle DEF HandleEvent, NextChannel, Goto,
     kernelVars, objectVars, ReapersApart, OwnCode, MainLabel, LoopLabel,
     HeldIsAlive, Held, CallbackHasConn, InCallback
<1>recv. ASSUME NEW l \in Loop, HttpOnMessage(l) PROVE ReapersApart'
  BY <1>types, <1>inv, <1>own, <1>recv DEF HttpOnMessage, Goto, kernelVars,
     ReapersApart, OwnCode, MainLabel, LoopLabel, HeldIsAlive, Held,
     CallbackHasConn, InCallback
<1>send. ASSUME NEW l \in Loop, Send0(l) PROVE ReapersApart'
  BY <1>types, <1>inv, <1>own, <1>send DEF Send0, Goto, kernelVars,
     ReapersApart, OwnCode, MainLabel, LoopLabel, HeldIsAlive, Held,
     CallbackHasConn, InCallback
<1>update. ASSUME NEW l \in Loop, UpdateChannel(l) PROVE ReapersApart'
  BY <1>types, <1>inv, <1>own, <1>update DEF UpdateChannel, Goto, Return,
     ReapersApart, OwnCode, MainLabel, LoopLabel, HeldIsAlive, Held,
     CallbackHasConn, InCallback
<1>erase. ASSUME NEW l \in Loop, EraseConnection(l) PROVE ReapersApart'
  BY <1>types, <1>inv, <1>own, <1>erase DEF EraseConnection, Goto, Return,
     kernelVars, ReapersApart, OwnCode, MainLabel, LoopLabel, HeldIsAlive,
     Held, CallbackHasConn, InCallback
<1>push. ASSUME NEW l \in Loop, PushFuncInToDoList(l) PROVE ReapersApart'
  BY <1>types, <1>inv, <1>own, <1>push DEF PushFuncInToDoList, Goto, Return,
     kernelVars, objectVars, ReapersApart, OwnCode, MainLabel, LoopLabel,
     HeldIsAlive, Held, CallbackHasConn, InCallback
<1>finish. ASSUME NEW l \in Loop, FinishEvent(l) PROVE ReapersApart'
  <2>1. PICK c \in Conn :
          /\ pc[l] = "finish" /\ cur[l] = c
          /\ Dropped(l, c, NextChannel(chs[l] \cup due[l]))
    BY <1>finish DEF FinishEvent
  <2>2. life[c] = "alive"
    BY <1>own, <2>1 DEF HeldIsAlive, Held
  <2>3. \/ /\ pc'[l] \notin {"free", "close"}
           /\ \A t \in Thread \ {l} : pc'[t] = pc[t]
           /\ UNCHANGED <<life, reap>>
        \/ /\ pc' = [pc EXCEPT ![l] = "free"]
           /\ reap' = [reap EXCEPT ![l] = c]
           /\ life' = [life EXCEPT ![c] = "dying"]
    BY <1>types, <2>1 DEF Dropped, Goto, NextChannel
  <2> QED
    BY <1>types, <1>own, <2>1, <2>2, <2>3 DEF ReapersApart, CallbackHasConn
<1>swap. ASSUME NEW l \in Loop, SwapToDoList(l) PROVE ReapersApart'
  BY <1>types, <1>inv, <1>own, <1>swap DEF SwapToDoList, Goto, kernelVars,
     objectVars, ReapersApart, OwnCode, MainLabel, LoopLabel, HeldIsAlive,
     Held, CallbackHasConn, InCallback
<1>destruct. ASSUME NEW l \in Loop, NEW c \in Conn, ConnectionDestructor(l, c)
             PROVE  ReapersApart'
  BY <1>types, <1>inv, <1>own, <1>destruct DEF ConnectionDestructor, Goto,
     objectVars, ReapersApart, OwnCode, MainLabel, LoopLabel, HeldIsAlive,
     Held, CallbackHasConn, InCallback
<1>clear. ASSUME NEW l \in Loop, NEW c \in Conn, ClearFunction(l, c)
          PROVE  ReapersApart'
  BY <1>types, <1>inv, <1>own, <1>clear DEF ClearFunction, Dropped, Goto,
     kernelVars, ReapersApart, OwnCode, MainLabel, LoopLabel, HeldIsAlive,
     Held, CallbackHasConn, InCallback
<1>free. ASSUME NEW t \in Thread, FreeChannel(t) PROVE ReapersApart'
  BY <1>types, <1>inv, <1>own, <1>free DEF FreeChannel, Goto, kernelVars,
     ReapersApart, OwnCode, MainLabel, LoopLabel, HeldIsAlive, Held,
     CallbackHasConn, InCallback
<1>close. ASSUME NEW t \in Thread, CloseSocket(t) PROVE ReapersApart'
  BY <1>types, <1>inv, <1>own, <1>close DEF CloseSocket, Return, Goto,
     ReapersApart, OwnCode, MainLabel, LoopLabel, HeldIsAlive, Held,
     CallbackHasConn, InCallback
<1>stutter. CASE UNCHANGED vars
  BY <1>types, <1>inv, <1>own, <1>stutter DEF vars, kernelVars, objectVars,
     threadVars, ReapersApart, OwnCode, MainLabel, LoopLabel, HeldIsAlive,
     Held, CallbackHasConn, InCallback
<1> QED
  BY <1>env, <1>accept, <1>insert, <1>register, <1>set, <1>release, <1>poll,
     <1>timer, <1>handle, <1>recv, <1>send, <1>update, <1>erase, <1>push,
     <1>finish, <1>swap, <1>destruct, <1>clear, <1>free, <1>close, <1>stutter
     DEF Next, MainStep, LoopStep

(* At the start there is no connection to own. *)
LEMMA OwnershipInit == Init => OwnershipInv
<1> SUFFICES ASSUME Init PROVE OwnershipInv
  OBVIOUS
<1>1. TypeOK
  BY TypeInit
<1>2. OwnCode
  BY ReactorAssumption DEF Init, OwnCode, MainLabel, LoopLabel, Thread, Loop
<1>3. CallbackHasConn
  BY ReactorAssumption DEF Init, CallbackHasConn, InCallback
<1>4. HeldIsAlive
  BY ReactorAssumption DEF Init, HeldIsAlive, Held
<1>5. MapKeyedByFd /\ FdUnique /\ EnteringIsNew /\ ReapersApart
  BY DEF Init, MapKeyedByFd, FdUnique, HasFd, EnteringIsNew, Entering, Thread,
     ReapersApart
<1> QED
  BY <1>1, <1>2, <1>3, <1>4, <1>5 DEF OwnershipInv

(* Every thread always keeps to its code, every shared_ptr points to a live *)
(* object, and the map, the descriptors and the destructors fit together.   *)
THEOREM Ownership == Spec => []OwnershipInv
<1>1. OwnershipInv /\ [Next]_vars => OwnershipInv'
  BY TypeStep, ControlStep, HeldStep, MapStep, FdStep, EnteringStep,
     ReaperStep DEF OwnershipInv
<1> QED
  BY OwnershipInit, <1>1, PTL DEF Spec

(* Every variable of the reactor keeps its type. *)
THEOREM TypeCorrect == Spec => []TypeOK
<1>1. OwnershipInv => TypeOK
  BY DEF OwnershipInv
<1> QED
  BY Ownership, <1>1, PTL

(* The connection a callback works on (EventLoop::beginLoop, newConnection) *)
(* is never destroyed under it.                                             *)
THEOREM HandledAlive == Spec => []HandledIsAlive
<1>1. OwnershipInv => HandledIsAlive
  BY DEF OwnershipInv, TypeOK, Maybe, HandledIsAlive, HeldIsAlive, Held
<1> QED
  BY Ownership, <1>1, PTL

(* Whoever holds a descriptor's entry in the map is the connection that has *)
(* the descriptor.                                                          *)
LEMMA NotConfused == OwnershipInv => DescriptorNotConfused
<1>1. ASSUME OwnershipInv, NEW l \in Loop, pc[l] = "erase"
      PROVE  connections[fd[cur[l]]] \in {cur[l], NoConn}
  <2> DEFINE f == fd[cur[l]]
  <2>1. cur[l] \in Conn /\ life[cur[l]] = "alive" /\ f \in Fd
    BY <1>1, CallbackConn DEF InCallback, Thread
  <2>2. SUFFICES ASSUME connections[f] # NoConn, connections[f] # cur[l]
                 PROVE  FALSE
    OBVIOUS
  <2>3. connections[f] \in Conn /\ life[connections[f]] = "alive"
    BY <1>1, <2>1, <2>2 DEF OwnershipInv, TypeOK, Maybe, HeldIsAlive, Held
  <2>4. fd[connections[f]] = f
    BY <1>1, <2>1, <2>2 DEF OwnershipInv, MapKeyedByFd
  <2> QED
    BY <1>1, <2>1, <2>2, <2>3, <2>4 DEF OwnershipInv, FdUnique, HasFd
<1>2. ASSUME OwnershipInv, pc[Main] = "insert"
      PROVE  connections[fd[cur[Main]]] = NoConn
  <2> DEFINE f == fd[cur[Main]]
  <2>1. cur[Main] \in Conn /\ life[cur[Main]] = "alive" /\ f \in Fd
    BY <1>2, CallbackConn DEF InCallback, Thread
  <2>2. SUFFICES ASSUME connections[f] # NoConn PROVE FALSE
    OBVIOUS
  <2>3. connections[f] \in Conn /\ life[connections[f]] = "alive"
    BY <1>2, <2>1, <2>2 DEF OwnershipInv, TypeOK, Maybe, HeldIsAlive, Held
  <2>4. fd[connections[f]] = f /\ connections[f] # cur[Main]
    BY <1>2, <2>1, <2>2 DEF OwnershipInv, MapKeyedByFd, EnteringIsNew,
       Entering, Mapped
  <2> QED
    BY <1>2, <2>1, <2>3, <2>4 DEF OwnershipInv, FdUnique, HasFd
<1> QED
  BY <1>1, <1>2 DEF DescriptorNotConfused

(* deleteConnection(fd) finds the connection that close0 meant or none, and *)
(* newConnection never overwrites an entry of the map.                      *)
THEOREM NoDescriptorConfusion == Spec => []DescriptorNotConfused
<1> QED
  BY Ownership, NotConfused, PTL

(* A step that leaves these alone leaves the abstract state of c alone. *)
LEMMA SameStatus ==
  ASSUME NEW c \in Conn,
         (life[c] = "none")' <=> (life[c] = "none"),
         (life[c] = "gone")' <=> (life[c] = "gone"),
         HasFd(c)' <=> HasFd(c),
         Mapped(c)' <=> Mapped(c),
         Entering(c)' <=> Entering(c)
  PROVE  Status(c)' = Status(c)
BY DEF Status

(* At the start no connection has begun its life. *)
LEMMA LifecycleInit == Init => Lifecycle!Init
BY DEF Init, Lifecycle!Init, Status, HasFd

(* Accept opens, EraseConnection closes, CloseSocket reclaims; no other     *)
(* step shows.                                                              *)
LEMMA LifecycleStep ==
  OwnershipInv /\ [Next]_vars
    => [Lifecycle!Next]_<<[c \in Conn |-> Status(c)], fd>>
<1> DEFINE status == [c \in Conn |-> Status(c)]
           Same(c) == /\ (life[c] = "none")' <=> (life[c] = "none")
                      /\ (life[c] = "gone")' <=> (life[c] = "gone")
                      /\ HasFd(c)' <=> HasFd(c)
                      /\ Mapped(c)' <=> Mapped(c)
                      /\ Entering(c)' <=> Entering(c)
<1> SUFFICES ASSUME OwnershipInv, [Next]_vars
             PROVE  Lifecycle!Next \/ UNCHANGED <<status, fd>>
  OBVIOUS
<1>types. /\ pc \in [Thread -> Label]
          /\ after \in [Thread -> Label]
          /\ cur \in [Thread -> Maybe]
          /\ reap \in [Thread -> Maybe]
          /\ connections \in [Fd -> Maybe]
          /\ fd \in [Conn -> Fd \cup {NoFd}]
          /\ life \in [Conn -> {"none", "alive", "dying", "chFreed", "gone"}]
  BY DEF OwnershipInv, TypeOK
<1>inv. /\ OwnershipInv /\ OwnCode /\ CallbackHasConn /\ HeldIsAlive
        /\ MapKeyedByFd /\ FdUnique /\ EnteringIsNew /\ ReapersApart
        /\ Main \notin Loop
  BY ReactorAssumption DEF OwnershipInv, Loop
<1>same. ASSUME \A c \in Conn : Same(c), UNCHANGED fd
         PROVE  UNCHANGED <<status, fd>>
  BY <1>same, SameStatus
<1> USE DEF Thread, Maybe
<1>env. CASE Environment
  BY <1>env, <1>same DEF Environment, PeerSends, PeerCloses, PeerDrains,
     objectVars, threadVars, HasFd, Mapped, Entering
<1>accept. ASSUME NEW c \in Conn, NEW f \in Fd, Accept(c, f)
           PROVE  Lifecycle!Open(c, f)
  <2>1. \A d \in Conn \ {c} : Same(d)
    BY <1>types, <1>accept DEF Accept, Goto, HasFd, Mapped, Entering
  <2>2. \A d \in Conn \ {c} : Status(d)' = Status(d)
    BY <2>1, SameStatus
  <2>3. Status(c) = "none" /\ Status(c)' = "open"
    BY <1>types, <1>accept, ReactorAssumption
       DEF Accept, Goto, Status, HasFd, Entering
  <2>4. status' = [status EXCEPT ![c] = "open"]
    BY <2>2, <2>3
  <2>5. \A d \in Conn : Lifecycle!HasDescriptor(d) => fd[d] # f
    BY <1>types, <1>accept
       DEF Accept, FreeFds, Lifecycle!HasDescriptor, Status, HasFd
  <2> QED
    BY <1>accept, <2>3, <2>4, <2>5 DEF Accept, Lifecycle!Open
<1>insert. CASE InsertConnection
  <2> DEFINE f == fd[cur[Main]]
  <2>1. cur[Main] \in Conn /\ life[cur[Main]] = "alive" /\ f \in Fd
    BY <1>inv, <1>insert, CallbackConn DEF InsertConnection, InCallback
  <2>2. connections[f] = NoConn
    BY <1>types, <1>inv, <1>insert, <2>1 DEF InsertConnection, MapKeyedByFd,
       EnteringIsNew, Entering, Mapped, FdUnique, HasFd, HeldIsAlive, Held
  <2>3. \A c \in Conn \ {cur[Main]} : Same(c)
    BY <1>types, <1>insert, <2>1, <2>2, ReactorAssumption
       DEF InsertConnection, Goto, kernelVars, HasFd, Mapped, Entering
  <2>4. \A c \in Conn \ {cur[Main]} : Status(c)' = Status(c)
    BY <2>3, SameStatus
  <2>5. Status(cur[Main])' = "open" /\ Status(cur[Main]) = "open"
    BY <1>types, <1>insert, <2>1 DEF InsertConnection, Status, HasFd, Mapped,
       Entering
  <2> QED
    BY <1>insert, <2>4, <2>5 DEF InsertConnection, kernelVars
<1>register. CASE RegisterCallBack
  BY <1>types, <1>register, <1>same DEF RegisterCallBack, Goto, HasFd, Mapped,
     Entering
<1>set. CASE SetInEpoll
  BY <1>types, <1>set, <1>same DEF SetInEpoll, Goto, kernelVars, HasFd, Mapped,
     Entering
<1>drop. ASSUME NEW t \in Thread, NEW c \in Conn, NEW next,
                Dropped(t, c, next), life[c] = "alive", pc[t] # "insert",
                next # "insert", UNCHANGED <<connections, fd>>,
                \/ cur' = [cur EXCEPT ![t] = NoConn]
                \/ UNCHANGED cur
         PROVE  UNCHANGED <<status, fd>>
  <2>1. \A d \in Conn : (Mapped(d)' <=> Mapped(d))
                        /\ (Entering(d)' <=> Entering(d))
    BY <1>types, <1>drop, <1>inv DEF Dropped, Goto, Mapped, Entering
  <2>2. \A d \in Conn : /\ (life[d] = "none")' <=> (life[d] = "none")
                        /\ (life[d] = "gone")' <=> (life[d] = "gone")
                        /\ HasFd(d)' <=> HasFd(d)
    BY <1>types, <1>drop DEF Dropped, HasFd
  <2> QED
    BY <1>drop, <1>same, <2>1, <2>2
<1>release. CASE ReleaseConnection
  BY <1>types, <1>inv, <1>release, <1>drop
     DEF ReleaseConnection, kernelVars, HeldIsAlive, Held
<1>poll. ASSUME NEW l \in Loop, Poll(l) PROVE UNCHANGED <<status, fd>>
  BY <1>types, <1>inv, <1>poll, <1>same DEF Poll, Goto, HasFd, Mapped, Entering
<1>timer. ASSUME NEW l \in Loop, NEW c \in Conn, ActiveCloseConn(l, c)
          PROVE  UNCHANGED <<status, fd>>
  BY <1>types, <1>inv, <1>timer, <1>same DEF ActiveCloseConn, NextChannel,
     Goto, kernelVars, HasFd, Mapped, Entering
<1>handle. ASSUME NEW l \in Loop, NEW c \in Conn, HandleEvent(l, c)
           PROVE  UNCHANGED <<status, fd>>
  BY <1>types, <1>inv, <1>handle, <1>same DEF HandleEvent, NextChannel, Goto,
     kernelVars, objectVars, HasFd, Mapped, Entering
<1>recv. ASSUME NEW l \in Loop, HttpOnMessage(l)
         PROVE  UNCHANGED <<status, fd>>
  BY <1>types, <1>inv, <1>recv, <1>same DEF HttpOnMessage, Goto, kernelVars,
     HasFd, Mapped, Entering
<1>send. ASSUME NEW l \in Loop, Send0(l) PROVE UNCHANGED <<status, fd>>
  BY <1>types, <1>inv, <1>send, <1>same DEF Send0, Goto, kernelVars, HasFd,
     Mapped, Entering
<1>update. ASSUME NEW l \in Loop, UpdateChannel(l)
           PROVE  UNCHANGED <<status, fd>>
  BY <1>types, <1>inv, <1>update, <1>same DEF UpdateChannel, Return, Goto,
     HasFd, Mapped, Entering
<1>erase. ASSUME NEW l \in Loop, EraseConnection(l)
          PROVE  UNCHANGED <<status, fd>> \/ \E c \in Conn : Lifecycle!Close(c)
  <2> DEFINE f == fd[cur[l]]
  <2>1. f \in Fd
    BY <1>inv, <1>erase, CallbackConn DEF EraseConnection, InCallback
  <2>2. CASE connections[f] = NoConn
    BY <1>types, <1>inv, <1>erase, <2>2, <1>same DEF EraseConnection, Return,
       Goto, kernelVars, HasFd, Mapped, Entering
  <2>3. ASSUME NEW c \in Conn, connections[f] = c PROVE Lifecycle!Close(c)
    <3>1. life[c] = "alive" /\ ~Entering(c)
      BY <1>types, <1>inv, <2>1, <2>3 DEF HeldIsAlive, Held, EnteringIsNew,
         Mapped
    <3>2. /\ connections' = [connections EXCEPT ![f] = NoConn]
          /\ pc' = [pc EXCEPT ![l] = "push"]
          /\ UNCHANGED <<fd, life, cur>>
      BY <1>erase, <2>3, ReactorAssumption DEF EraseConnection, Goto,
         kernelVars
    <3>3. \A d \in Conn \ {c} : Same(d)
      BY <1>types, <1>inv, <2>1, <2>3, <3>2, ReactorAssumption
         DEF HasFd, Mapped, Entering
    <3>4. \A d \in Conn \ {c} : Status(d)' = Status(d)
      BY <3>3, SameStatus
    <3>5. ~Mapped(c)' /\ ~Entering(c)'
      <4>1. \A g \in Fd \ {f} : connections[g] # c
        BY <1>inv, <2>1, <2>3, ReactorAssumption DEF MapKeyedByFd
      <4>2. ~Mapped(c)'
        BY <1>types, <2>1, <3>2, <4>1, ReactorAssumption DEF Mapped
      <4>3. ~Entering(c)'
        BY <1>types, <1>inv, <3>1, <3>2 DEF Entering
      <4> QED
        BY <4>2, <4>3
    <3>6. Status(c) = "open" /\ Status(c)' = "closed"
      BY <2>1, <2>3, <3>1, <3>2, <3>5 DEF Status, HasFd, Mapped
    <3>7. status' = [status EXCEPT ![c] = "closed"]
      BY <3>4, <3>6
    <3> QED
      BY <3>2, <3>6, <3>7 DEF Lifecycle!Close
  <2> QED
    BY <1>types, <2>1, <2>2, <2>3
<1>push. ASSUME NEW l \in Loop, PushFuncInToDoList(l)
         PROVE  UNCHANGED <<status, fd>>
  BY <1>types, <1>inv, <1>push, <1>same DEF PushFuncInToDoList, Return, Goto,
     kernelVars, objectVars, HasFd, Mapped, Entering
<1>finish. ASSUME NEW l \in Loop, FinishEvent(l)
           PROVE  UNCHANGED <<status, fd>>
  <2>1. PICK c \in Conn, next \in {"toDo", "dispatch"} :
           /\ cur[l] = c /\ pc[l] = "finish" /\ Dropped(l, c, next)
           /\ cur' = [cur EXCEPT ![l] = NoConn]
           /\ UNCHANGED <<connections, fd>>
    BY <1>finish DEF FinishEvent, NextChannel, kernelVars
  <2>2. life[c] = "alive"
    BY <1>inv, <2>1 DEF HeldIsAlive, Held
  <2> QED
    BY <1>types, <1>inv, <2>1, <2>2, <1>drop
<1>swap. ASSUME NEW l \in Loop, SwapToDoList(l) PROVE UNCHANGED <<status, fd>>
  BY <1>types, <1>inv, <1>swap, <1>same DEF SwapToDoList, Goto, kernelVars,
     objectVars, HasFd, Mapped, Entering
<1>destruct. ASSUME NEW l \in Loop, NEW c \in Conn, ConnectionDestructor(l, c)
             PROVE  UNCHANGED <<status, fd>>
  BY <1>types, <1>inv, <1>destruct, <1>same DEF ConnectionDestructor, Goto,
     objectVars, HasFd, Mapped, Entering
<1>clear. ASSUME NEW l \in Loop, NEW c \in Conn, ClearFunction(l, c)
          PROVE  UNCHANGED <<status, fd>>
  <2>1. PICK next \in {"poll", "clear"} :
           /\ pc[l] = "clear" /\ Dropped(l, c, next)
           /\ UNCHANGED <<connections, fd, cur>>
    BY <1>clear DEF ClearFunction, kernelVars
  <2>2. life[c] = "alive"
    BY <1>inv, <1>clear DEF ClearFunction, HeldIsAlive, Held
  <2> QED
    BY <1>types, <1>inv, <2>1, <2>2, <1>drop
<1>free. ASSUME NEW t \in Thread, FreeChannel(t) PROVE UNCHANGED <<status, fd>>
  BY <1>types, <1>inv, <1>free, <1>same DEF FreeChannel, Goto, kernelVars,
     CallbackHasConn, ReapersApart, HasFd, Mapped, Entering
<1>close. ASSUME NEW t \in Thread, CloseSocket(t),
                 NEW c \in Conn, reap[t] = c
          PROVE  Lifecycle!Reclaim(c)
  <2>1. life[c] = "chFreed"
    BY <1>types, <1>inv, <1>close DEF CloseSocket, ReapersApart
  <2>2. ~Mapped(c) /\ ~Entering(c)
    BY <1>types, <1>inv, <2>1 DEF HeldIsAlive, Held, Mapped, Entering
  <2>3. \A d \in Conn \ {c} : Same(d)
    BY <1>types, <1>inv, <1>close, <2>1 DEF CloseSocket, Return, Goto, OwnCode,
       HasFd, Mapped, Entering
  <2>4. \A d \in Conn \ {c} : Status(d)' = Status(d)
    BY <2>3, SameStatus
  <2>5. Status(c) = "closed"
    BY <2>1, <2>2 DEF Status, HasFd
  <2>6. life'[c] = "gone"
    BY <1>types, <1>close DEF CloseSocket
  <2>7. Status(c)' = "reclaimed"
    BY <2>6 DEF Status, HasFd
  <2>8. status' = [status EXCEPT ![c] = "reclaimed"]
    BY <2>4, <2>7
  <2> QED
    BY <1>close, <2>5, <2>8 DEF CloseSocket, Lifecycle!Reclaim
<1>stutter. CASE UNCHANGED vars
  BY <1>stutter, <1>same DEF vars, kernelVars, objectVars, threadVars, HasFd,
     Mapped, Entering
<1>reclaim. ASSUME NEW t \in Thread, CloseSocket(t) PROVE Lifecycle!Next
  BY <1>types, <1>inv, <1>close, <1>reclaim
     DEF CloseSocket, CallbackHasConn, Lifecycle!Next
<1> QED
  BY <1>env, <1>accept, <1>insert, <1>register, <1>set, <1>release, <1>poll,
     <1>timer, <1>handle, <1>recv, <1>send, <1>update, <1>erase, <1>push,
     <1>finish, <1>swap, <1>destruct, <1>clear, <1>free, <1>reclaim,
     <1>stutter, <1>same
     DEF Next, MainStep, LoopStep, Lifecycle!Next

(* The reactor implements ConnLifecycle: whatever the threads and the peers *)
(* do, a connection is opened on a free descriptor, leaves the map once,    *)
(* and its descriptor is returned only after that.                          *)
THEOREM ImplementsLifecycle == Spec => LifecycleSpec
<1>1. OwnershipInv /\ [Next]_vars
        => [Lifecycle!Next]_<<[c \in Conn |-> Status(c)], fd>>
  BY LifecycleStep
<1> QED
  BY LifecycleInit, <1>1, Ownership, PTL DEF Spec, LifecycleSpec,
     Lifecycle!Spec

-----------------------------------------------------------------------------
(* A connection is destroyed once, and then epoll forgets it. *)

(* A step takes a connection at most one stage further on its way from the  *)
(* map to its destructor.                                                   *)
LEMMA OneStageStep ==
  OwnershipInv /\ OneStage /\ OwnLoop /\ [Next]_vars => OneStage'
<1> SUFFICES ASSUME OwnershipInv, OneStage, OwnLoop, [Next]_vars
             PROVE  OneStage'
  OBVIOUS
<1> USE ReactorAssumption DEF Thread, Maybe
<1>types. /\ pc \in [Thread -> Label]
          /\ after \in [Thread -> Label]
          /\ cur \in [Thread -> Maybe]
          /\ victim \in [Thread -> Maybe]
          /\ reap \in [Thread -> Maybe]
          /\ connections \in [Fd -> Maybe]
          /\ fd \in [Conn -> Fd \cup {NoFd}]
          /\ life \in [Conn -> {"none", "alive", "dying", "chFreed", "gone"}]
          /\ chs \in [Loop -> SUBSET Conn]
          /\ due \in [Loop -> SUBSET Conn]
          /\ toDo \in [Loop -> SUBSET Conn]
          /\ functions \in [Loop -> SUBSET Conn]
          /\ called \in [Loop -> SUBSET Conn]
  BY DEF OwnershipInv, TypeOK
<1>inv. OwnershipInv /\ Main \notin Loop
  BY DEF Loop
<1>own. CallbackHasConn /\ OwnCode /\ HeldIsAlive /\ MapKeyedByFd /\ FdUnique
        /\ EnteringIsNew /\ ReapersApart
  BY DEF OwnershipInv
<1>loop. \A c \in Conn : fd'[c] = fd[c] => LoopOf(c)' = LoopOf(c)
  BY DEF LoopOf
<1>keep. ASSUME \A l \in Loop : /\ toDo'[l] \subseteq toDo[l]
                              /\ functions'[l] \subseteq functions[l]
                              /\ called'[l] \subseteq called[l],
                UNCHANGED <<connections, victim>>,
                \A c \in Conn : Entering(c)' => Entering(c),
                \A c \in Conn : life[c] = "alive" => fd'[c] = fd[c]
         PROVE  OneStage'
  BY <1>types, <1>own, <1>keep, <1>loop DEF OneStage, Pending, Moving, Mapped,
     HeldIsAlive, Held
<1>env. CASE Environment
  BY <1>types, <1>inv, <1>own, <1>keep, <1>env DEF Environment, PeerSends,
     PeerCloses, PeerDrains, objectVars, threadVars, Entering
<1>accept. ASSUME NEW c \in Conn, NEW f \in Fd, Accept(c, f) PROVE OneStage'
  <2>1. ~Held(c)
    BY <1>own, <1>accept DEF Accept, HeldIsAlive
  <2>2. /\ ~Mapped(c) /\ ~Moving(c)
        /\ \A l \in Loop : c \notin Pending(l)
    BY <2>1 DEF Held, Mapped, Moving, Pending
  <2>3. \A d \in Conn : Entering(d)' <=> d = c
    BY <1>types, <1>accept DEF Accept, Goto, Entering
  <2>4. \A d \in Conn \ {c} : LoopOf(d)' = LoopOf(d)
    BY <1>types, <1>loop, <1>accept DEF Accept
  <2>5. UNCHANGED <<connections, victim, toDo, functions, called>>
    BY <1>accept DEF Accept
  <2>6. /\ \A d \in Conn : /\ Mapped(d)' <=> Mapped(d)
                           /\ Moving(d)' <=> Moving(d)
        /\ \A l \in Loop : Pending(l)' = Pending(l) /\ Pending(l) \subseteq Conn
    BY <1>types, <2>5 DEF Mapped, Moving, Pending
  <2>7. \A l \in Loop : \A d \in Pending(l)' :
          l = LoopOf(d)' /\ ~Mapped(d)' /\ ~Moving(d)' /\ ~Entering(d)'
    BY <2>2, <2>3, <2>4, <2>6 DEF OneStage
  <2>8. \A d \in Conn : Moving(d)' => ~Mapped(d)' /\ ~Entering(d)'
    BY <2>2, <2>3, <2>6 DEF OneStage
  <2> QED
    BY <2>5, <2>7, <2>8 DEF OneStage
<1>insert. CASE InsertConnection
  BY <1>types, <1>inv, <1>own, <1>loop, <1>insert DEF InsertConnection, Goto,
     kernelVars, OneStage, Pending, Moving, Mapped, Entering, EnteringIsNew,
     HeldIsAlive, Held
<1>register. CASE RegisterCallBack
  BY <1>types, <1>inv, <1>own, <1>keep, <1>register DEF RegisterCallBack,
     Goto, Entering
<1>set. CASE SetInEpoll
  BY <1>types, <1>inv, <1>own, <1>keep, <1>set DEF SetInEpoll, Goto,
     kernelVars, Entering
<1>release. CASE ReleaseConnection
  BY <1>types, <1>inv, <1>own, <1>keep, <1>release DEF ReleaseConnection,
     Dropped, Goto, kernelVars, Entering
<1>poll. ASSUME NEW l \in Loop, Poll(l) PROVE OneStage'
  BY <1>types, <1>inv, <1>own, <1>keep, <1>poll DEF Poll, Goto, Entering
<1>timer. ASSUME NEW l \in Loop, NEW c \in Conn, ActiveCloseConn(l, c)
          PROVE  OneStage'
  BY <1>types, <1>inv, <1>own, <1>keep, <1>timer DEF ActiveCloseConn,
     NextChannel, Goto, kernelVars, Entering
<1>handle. ASSUME NEW l \in Loop, NEW c \in Conn, HandleEvent(l, c)
           PROVE  OneStage'
  BY <1>types, <1>inv, <1>own, <1>keep, <1>handle DEF HandleEvent,
     NextChannel, Goto, kernelVars, objectVars, Entering
<1>recv. ASSUME NEW l \in Loop, HttpOnMessage(l) PROVE OneStage'
  BY <1>types, <1>inv, <1>own, <1>keep, <1>recv DEF HttpOnMessage, Goto,
     kernelVars, Entering
<1>send. ASSUME NEW l \in Loop, Send0(l) PROVE OneStage'
  BY <1>types, <1>inv, <1>own, <1>keep, <1>send DEF Send0, Goto, kernelVars,
     Entering
<1>update. ASSUME NEW l \in Loop, UpdateChannel(l) PROVE OneStage'
  BY <1>types, <1>inv, <1>own, <1>keep, <1>update DEF UpdateChannel, Goto,
     Return, Entering
<1>erase. ASSUME NEW l \in Loop, EraseConnection(l) PROVE OneStage'
  <2> DEFINE f == fd[cur[l]]
  <2>1. f \in Fd
    BY <1>inv, <1>erase, CallbackConn DEF EraseConnection, InCallback
  <2>2. CASE connections[f] = NoConn
    BY <1>types, <1>inv, <1>erase, <1>keep, <2>2 DEF EraseConnection, Return,
       Goto, kernelVars, Entering
  <2>3. CASE connections[f] # NoConn
    <3> DEFINE c == connections[f]
    <3>1. /\ victim' = [victim EXCEPT ![l] = c]
          /\ connections' = [connections EXCEPT ![f] = NoConn]
          /\ UNCHANGED <<fd, cur, toDo, functions, called>>
          /\ pc' = [pc EXCEPT ![l] = "push"]
      BY <1>erase, <2>3 DEF EraseConnection, Goto, kernelVars
    <3>2. c \in Conn /\ Mapped(c)
      BY <1>types, <2>1, <2>3 DEF Mapped
    <3>3. /\ c \in Conn /\ Mapped(c) /\ ~Moving(c) /\ ~Entering(c)
          /\ \A k \in Loop : c \notin Pending(k)
      BY <1>own, <3>2 DEF OneStage, EnteringIsNew
    <3>4. \A d \in Conn : Mapped(d)' => Mapped(d) /\ d # c
      BY <1>types, <1>own, <2>1, <2>3, <3>1 DEF Mapped, MapKeyedByFd
    <3>5. \A d \in Conn : Entering(d)' <=> Entering(d)
      BY <1>types, <1>inv, <3>1 DEF Entering
    <3>6. /\ \A d \in Conn : Moving(d)' => Moving(d) \/ d = c
          /\ \A t, u \in Thread :
               victim'[t] # NoConn /\ victim'[t] = victim'[u] => t = u
      BY <1>types, <3>1, <3>3 DEF Moving, OneStage
    <3>7. \A k \in Loop : Pending(k)' = Pending(k)
      BY <3>1 DEF Pending
    <3>8. \A d \in Conn : LoopOf(d)' = LoopOf(d)
      BY <1>loop, <3>1
    <3> QED
      BY <1>types, <3>1, <3>3, <3>4, <3>5, <3>6, <3>7, <3>8
         DEF OneStage, Pending
  <2> QED
    BY <2>2, <2>3
<1>push. ASSUME NEW l \in Loop, PushFuncInToDoList(l) PROVE OneStage'
  <2> DEFINE c == victim[l]
  <2>1. c \in Conn /\ LoopOf(c) = l /\ Moving(c)
    BY <1>types, <1>own, <1>push DEF PushFuncInToDoList, CallbackHasConn,
       OwnLoop, Moving
  <2>2. /\ toDo' = [toDo EXCEPT ![l] = @ \cup {c}]
        /\ victim' = [victim EXCEPT ![l] = NoConn]
        /\ UNCHANGED <<fd, cur, connections, functions, called>>
        /\ pc'[Main] = pc[Main]
    BY <1>types, <1>inv, <1>push, <2>1 DEF PushFuncInToDoList, Return, Goto,
       kernelVars, objectVars
  <2>3. /\ ~Mapped(c) /\ ~Entering(c)
        /\ \A k \in Loop : c \notin Pending(k)
    BY <2>1 DEF OneStage
  <2>4. \A d \in Conn : /\ Mapped(d)' <=> Mapped(d)
                        /\ Entering(d)' <=> Entering(d)
                        /\ LoopOf(d)' = LoopOf(d)
    BY <1>loop, <2>2 DEF Mapped, Entering
  <2>5. \A d \in Conn : Moving(d)' => Moving(d) /\ d # c
    BY <1>types, <2>1, <2>2 DEF Moving, OneStage
  <2>6. \A k \in Loop : Pending(k)' = IF k = l THEN Pending(k) \cup {c}
                                             ELSE Pending(k)
    BY <1>types, <2>2 DEF Pending
  <2>7. \A t, u \in Thread :
          victim'[t] # NoConn /\ victim'[t] = victim'[u] => t = u
    BY <1>types, <2>2 DEF OneStage
  <2>8. \A k \in Loop : /\ toDo'[k] \cap functions'[k] = {}
                        /\ toDo'[k] \cap called'[k] = {}
                        /\ functions'[k] \cap called'[k] = {}
    BY <1>types, <2>2, <2>3 DEF OneStage, Pending
  <2>9. \A d \in Conn :
          ~Mapped(d) /\ ~Entering(d) /\ (Moving(d) => d = c) /\ LoopOf(d) = l
            => ~Mapped(d)' /\ ~Entering(d)' /\ ~Moving(d)' /\ LoopOf(d)' = l
    BY <2>4, <2>5
  <2>10. \A k \in Loop : \A d \in Pending(k) :
          k = LoopOf(d)' /\ ~Mapped(d)' /\ ~Moving(d)' /\ ~Entering(d)'
    <3>1. \A k \in Loop : Pending(k) \subseteq Conn
      BY <1>types DEF Pending
    <3> QED
      BY <2>4, <2>5, <3>1 DEF OneStage
  <2>11. \A d \in Conn : Moving(d)' => ~Mapped(d)' /\ ~Entering(d)'
    <3>1. \A d \in Conn : Moving(d) => ~Mapped(d) /\ ~Entering(d)
      BY DEF OneStage
    <3> QED
      BY <2>4, <2>5, <3>1
  <2> QED
    BY <2>1, <2>3, <2>6, <2>7, <2>8, <2>9, <2>11, <2>10 DEF OneStage
<1>finish. ASSUME NEW l \in Loop, FinishEvent(l) PROVE OneStage'
  BY <1>types, <1>inv, <1>own, <1>keep, <1>finish DEF FinishEvent,
     NextChannel, Dropped, Goto, kernelVars, Entering
<1>swap. ASSUME NEW l \in Loop, SwapToDoList(l) PROVE OneStage'
  BY <1>types, <1>inv, <1>own, <1>loop, <1>swap DEF SwapToDoList, Goto,
     kernelVars, objectVars, OneStage, Pending, Moving, Mapped, Entering,
     EnteringIsNew, HeldIsAlive, Held
<1>destruct. ASSUME NEW l \in Loop, NEW c \in Conn, ConnectionDestructor(l, c)
             PROVE  OneStage'
  BY <1>types, <1>inv, <1>own, <1>loop, <1>destruct DEF ConnectionDestructor,
     Goto, objectVars, OneStage, Pending, Moving, Mapped, Entering,
     EnteringIsNew, HeldIsAlive, Held
<1>clear. ASSUME NEW l \in Loop, NEW c \in Conn, ClearFunction(l, c)
          PROVE  OneStage'
  BY <1>types, <1>inv, <1>own, <1>keep, <1>clear DEF ClearFunction, Dropped,
     Goto, kernelVars, Entering
<1>free. ASSUME NEW t \in Thread, FreeChannel(t) PROVE OneStage'
  BY <1>types, <1>inv, <1>own, <1>keep, <1>free DEF FreeChannel, Goto,
     kernelVars, Entering, OwnCode, MainLabel
<1>close. ASSUME NEW t \in Thread, CloseSocket(t) PROVE OneStage'
  <2>1. \A d \in Conn : life[d] = "alive" => fd'[d] = fd[d]
    BY <1>types, <1>own, <1>close DEF CloseSocket, ReapersApart
  <2>2. \A d \in Conn : Entering(d)' => Entering(d)
    BY <1>types, <1>inv, <1>own, <1>close DEF CloseSocket, Return, Goto,
       Entering, OwnCode
  <2> QED
    BY <1>close, <1>keep, <2>1, <2>2 DEF CloseSocket
<1>stutter. CASE UNCHANGED vars
  BY <1>types, <1>inv, <1>own, <1>keep, <1>stutter DEF vars, kernelVars,
     objectVars, threadVars, Entering
<1> QED
  BY <1>env, <1>accept, <1>insert, <1>register, <1>set, <1>release, <1>poll,
     <1>timer, <1>handle, <1>recv, <1>send, <1>update, <1>erase, <1>push,
     <1>finish, <1>swap, <1>destruct, <1>clear, <1>free, <1>close, <1>stutter
     DEF Next, MainStep, LoopStep

(* A loop never gets hold of the connection of another. *)
LEMMA OwnLoopStep ==
  OwnershipInv /\ OwnLoop /\ [Next]_vars => OwnLoop'
<1> SUFFICES ASSUME OwnershipInv, OwnLoop, [Next]_vars
             PROVE  OwnLoop'
  OBVIOUS
<1> USE ReactorAssumption DEF Thread, Maybe
<1>types. /\ pc \in [Thread -> Label]
          /\ after \in [Thread -> Label]
          /\ cur \in [Thread -> Maybe]
          /\ victim \in [Thread -> Maybe]
          /\ reap \in [Thread -> Maybe]
          /\ connections \in [Fd -> Maybe]
          /\ fd \in [Conn -> Fd \cup {NoFd}]
          /\ life \in [Conn -> {"none", "alive", "dying", "chFreed", "gone"}]
          /\ chs \in [Loop -> SUBSET Conn]
          /\ due \in [Loop -> SUBSET Conn]
          /\ toDo \in [Loop -> SUBSET Conn]
          /\ functions \in [Loop -> SUBSET Conn]
          /\ called \in [Loop -> SUBSET Conn]
  BY DEF OwnershipInv, TypeOK
<1>inv. OwnershipInv /\ Main \notin Loop
  BY DEF Loop
<1>own. CallbackHasConn /\ OwnCode /\ HeldIsAlive /\ MapKeyedByFd /\ FdUnique
        /\ EnteringIsNew /\ ReapersApart
  BY DEF OwnershipInv
<1>loop. \A c \in Conn : fd'[c] = fd[c] => LoopOf(c)' = LoopOf(c)
  BY DEF LoopOf
<1>interest. interest \in [Conn -> SUBSET Events] /\ ready \subseteq Conn
  BY DEF OwnershipInv, TypeOK
<1>env. CASE Environment
  BY <1>types, <1>inv, <1>own, <1>loop, <1>env DEF Environment, PeerSends,
     PeerCloses, PeerDrains, objectVars, threadVars, OwnLoop, HeldIsAlive,
     Held, MapKeyedByFd, OwnCode, MainLabel, LoopLabel, CallbackHasConn,
     InCallback, ReapersApart
<1>accept. ASSUME NEW c \in Conn, NEW f \in Fd, Accept(c, f) PROVE OwnLoop'
  BY <1>types, <1>inv, <1>own, <1>loop, <1>accept DEF Accept, Goto, OwnLoop,
     HeldIsAlive, Held, MapKeyedByFd, OwnCode, MainLabel, LoopLabel,
     CallbackHasConn, InCallback, ReapersApart
<1>insert. CASE InsertConnection
  BY <1>types, <1>inv, <1>own, <1>loop, <1>insert DEF InsertConnection, Goto,
     kernelVars, OwnLoop, HeldIsAlive, Held, MapKeyedByFd, OwnCode, MainLabel,
     LoopLabel, CallbackHasConn, InCallback, ReapersApart
<1>register. CASE RegisterCallBack
  BY <1>types, <1>inv, <1>own, <1>loop, <1>register DEF RegisterCallBack,
     Goto, OwnLoop, HeldIsAlive, Held, MapKeyedByFd, OwnCode, MainLabel,
     LoopLabel, CallbackHasConn, InCallback, ReapersApart
<1>set. CASE SetInEpoll
  BY <1>types, <1>inv, <1>own, <1>loop, <1>set DEF SetInEpoll, Goto,
     kernelVars, OwnLoop, HeldIsAlive, Held, MapKeyedByFd, OwnCode, MainLabel,
     LoopLabel, CallbackHasConn, InCallback, ReapersApart
<1>release. CASE ReleaseConnection
  BY <1>types, <1>inv, <1>own, <1>loop, <1>release DEF ReleaseConnection,
     Dropped, Goto, kernelVars, OwnLoop, HeldIsAlive, Held, MapKeyedByFd,
     OwnCode, MainLabel, LoopLabel, CallbackHasConn, InCallback, ReapersApart
<1>poll. ASSUME NEW l \in Loop, Poll(l) PROVE OwnLoop'
  BY <1>types, <1>inv, <1>own, <1>loop, <1>poll DEF Poll, Goto, OwnLoop,
     HeldIsAlive, Held, MapKeyedByFd, OwnCode, MainLabel, LoopLabel,
     CallbackHasConn, InCallback, ReapersApart
<1>timer. ASSUME NEW l \in Loop, NEW c \in Conn, ActiveCloseConn(l, c)
          PROVE  OwnLoop'
  BY <1>types, <1>inv, <1>own, <1>loop, <1>timer DEF ActiveCloseConn,
     NextChannel, Goto, kernelVars, OwnLoop, HeldIsAlive, Held, MapKeyedByFd,
     OwnCode, MainLabel, LoopLabel, CallbackHasConn, InCallback, ReapersApart
<1>handle. ASSUME NEW l \in Loop, NEW c \in Conn, HandleEvent(l, c)
           PROVE  OwnLoop'
  BY <1>types, <1>inv, <1>own, <1>loop, <1>handle DEF HandleEvent,
     NextChannel, Goto, kernelVars, objectVars, OwnLoop, HeldIsAlive, Held,
     MapKeyedByFd, OwnCode, MainLabel, LoopLabel, CallbackHasConn, InCallback,
     ReapersApart
<1>recv. ASSUME NEW l \in Loop, HttpOnMessage(l) PROVE OwnLoop'
  BY <1>types, <1>inv, <1>own, <1>loop, <1>recv DEF HttpOnMessage, Goto,
     kernelVars, OwnLoop, HeldIsAlive, Held, MapKeyedByFd, OwnCode, MainLabel,
     LoopLabel, CallbackHasConn, InCallback, ReapersApart
<1>send. ASSUME NEW l \in Loop, Send0(l) PROVE OwnLoop'
  BY <1>types, <1>inv, <1>own, <1>loop, <1>send DEF Send0, Goto, kernelVars,
     OwnLoop, HeldIsAlive, Held, MapKeyedByFd, OwnCode, MainLabel, LoopLabel,
     CallbackHasConn, InCallback, ReapersApart
<1>update. ASSUME NEW l \in Loop, UpdateChannel(l) PROVE OwnLoop'
  BY <1>types, <1>inv, <1>own, <1>loop, <1>update DEF UpdateChannel, Goto,
     Return, OwnLoop, HeldIsAlive, Held, MapKeyedByFd, OwnCode, MainLabel,
     LoopLabel, CallbackHasConn, InCallback, ReapersApart
<1>erase. ASSUME NEW l \in Loop, EraseConnection(l) PROVE OwnLoop'
  <2> DEFINE f == fd[cur[l]]
  <2>1. cur[l] \in Conn /\ f \in Fd
    BY <1>inv, <1>erase, CallbackConn DEF EraseConnection, InCallback
  <2>2. /\ UNCHANGED <<interest, ready, timer, life, chs, due, cur, fd>>
        /\ victim' \in {victim, [victim EXCEPT ![l] = connections[f]]}
    BY <1>erase DEF EraseConnection, kernelVars
  <2>3. connections[f] # NoConn => LoopOf(connections[f]) = l
    BY <1>types, <1>own, <2>1, <1>inv DEF OwnLoop, LoopOf, MapKeyedByFd
  <2>4. victim'[Main] = NoConn
    BY <1>types, <1>inv, <2>2 DEF OwnLoop
  <2>5. \A k \in Loop : victim'[k] # NoConn => LoopOf(victim'[k]) = k
    BY <1>types, <2>2, <2>3 DEF OwnLoop
  <2>6. \A d \in Conn : LoopOf(d)' = LoopOf(d)
    BY <1>loop, <2>2
  <2>7. victim' \in [Thread -> Maybe]
    BY <1>types, <2>1, <2>2
  <2> QED
    BY <1>types, <2>2, <2>4, <2>5, <2>6, <2>7 DEF OwnLoop
<1>push. ASSUME NEW l \in Loop, PushFuncInToDoList(l) PROVE OwnLoop'
  BY <1>types, <1>inv, <1>own, <1>loop, <1>push DEF PushFuncInToDoList, Goto,
     Return, kernelVars, objectVars, OwnLoop, HeldIsAlive, Held, MapKeyedByFd,
     OwnCode, MainLabel, LoopLabel, CallbackHasConn, InCallback, ReapersApart
<1>finish. ASSUME NEW l \in Loop, FinishEvent(l) PROVE OwnLoop'
  BY <1>types, <1>inv, <1>own, <1>loop, <1>finish DEF FinishEvent,
     NextChannel, Dropped, Goto, kernelVars, OwnLoop, HeldIsAlive, Held,
     MapKeyedByFd, OwnCode, MainLabel, LoopLabel, CallbackHasConn, InCallback,
     ReapersApart
<1>swap. ASSUME NEW l \in Loop, SwapToDoList(l) PROVE OwnLoop'
  BY <1>types, <1>inv, <1>own, <1>loop, <1>swap DEF SwapToDoList, Goto,
     kernelVars, objectVars, OwnLoop, HeldIsAlive, Held, MapKeyedByFd,
     OwnCode, MainLabel, LoopLabel, CallbackHasConn, InCallback, ReapersApart
<1>destruct. ASSUME NEW l \in Loop, NEW c \in Conn, ConnectionDestructor(l, c)
             PROVE  OwnLoop'
  <2>1. /\ UNCHANGED <<timer, life, chs, due, cur, fd, victim>>
        /\ ready' \subseteq ready
        /\ \A d \in Conn : interest'[d] \subseteq interest[d]
    BY <1>interest, <1>destruct DEF ConnectionDestructor, objectVars
  <2>2. \A d \in Conn : LoopOf(d)' = LoopOf(d)
    BY <1>loop, <2>1
  <2> QED
    BY <1>types, <2>1, <2>2 DEF OwnLoop
<1>clear. ASSUME NEW l \in Loop, NEW c \in Conn, ClearFunction(l, c)
          PROVE  OwnLoop'
  BY <1>types, <1>inv, <1>own, <1>loop, <1>clear DEF ClearFunction, Dropped,
     Goto, kernelVars, OwnLoop, HeldIsAlive, Held, MapKeyedByFd, OwnCode,
     MainLabel, LoopLabel, CallbackHasConn, InCallback, ReapersApart
<1>free. ASSUME NEW t \in Thread, FreeChannel(t) PROVE OwnLoop'
  BY <1>types, <1>inv, <1>own, <1>loop, <1>free DEF FreeChannel, Goto,
     kernelVars, OwnLoop, HeldIsAlive, Held, MapKeyedByFd, OwnCode, MainLabel,
     LoopLabel, CallbackHasConn, InCallback, ReapersApart
<1>close. ASSUME NEW t \in Thread, CloseSocket(t) PROVE OwnLoop'
  <2> DEFINE c == reap[t]
  <2>1. c \in Conn /\ life[c] = "chFreed" /\ ~Held(c)
    BY <1>types, <1>own, <1>close DEF CloseSocket, CallbackHasConn,
       ReapersApart, HeldIsAlive
  <2>2. /\ UNCHANGED <<cur, victim, chs, due>>
        /\ ready' \subseteq ready /\ timer' \subseteq timer
        /\ life' = [life EXCEPT ![c] = "gone"]
        /\ \A d \in Conn : interest'[d] \subseteq interest[d]
    BY <1>interest, <1>close DEF CloseSocket
  <2>3. \A d \in Conn \ {c} : LoopOf(d)' = LoopOf(d)
    BY <1>types, <1>loop, <1>close DEF CloseSocket
  <2>4. \A k \in Loop : cur[k] # c /\ victim[k] # c
    BY <2>1 DEF Held
  <2> QED
    BY <1>types, <2>1, <2>2, <2>3, <2>4 DEF OwnLoop
<1>stutter. CASE UNCHANGED vars
  BY <1>types, <1>inv, <1>own, <1>loop, <1>stutter DEF vars, kernelVars,
     objectVars, threadVars, OwnLoop, HeldIsAlive, Held, MapKeyedByFd,
     OwnCode, MainLabel, LoopLabel, CallbackHasConn, InCallback, ReapersApart
<1> QED
  BY <1>env, <1>accept, <1>insert, <1>register, <1>set, <1>release, <1>poll,
     <1>timer, <1>handle, <1>recv, <1>send, <1>update, <1>erase, <1>push,
     <1>finish, <1>swap, <1>destruct, <1>clear, <1>free, <1>close, <1>stutter
     DEF Next, MainStep, LoopStep

(* Every phase of a round finishes what it has begun. *)
LEMMA RoundsStep ==
  OwnershipInv /\ OwnLoop /\ Rounds /\ [Next]_vars => Rounds'
<1> SUFFICES ASSUME OwnershipInv, OwnLoop, Rounds, [Next]_vars
             PROVE  Rounds'
  OBVIOUS
<1> USE ReactorAssumption DEF Thread, Maybe
<1>types. /\ pc \in [Thread -> Label]
          /\ after \in [Thread -> Label]
          /\ cur \in [Thread -> Maybe]
          /\ victim \in [Thread -> Maybe]
          /\ reap \in [Thread -> Maybe]
          /\ connections \in [Fd -> Maybe]
          /\ fd \in [Conn -> Fd \cup {NoFd}]
          /\ life \in [Conn -> {"none", "alive", "dying", "chFreed", "gone"}]
          /\ chs \in [Loop -> SUBSET Conn]
          /\ due \in [Loop -> SUBSET Conn]
          /\ toDo \in [Loop -> SUBSET Conn]
          /\ functions \in [Loop -> SUBSET Conn]
          /\ called \in [Loop -> SUBSET Conn]
  BY DEF OwnershipInv, TypeOK
<1>inv. OwnershipInv /\ Main \notin Loop
  BY DEF Loop
<1>own. CallbackHasConn /\ OwnCode /\ HeldIsAlive /\ MapKeyedByFd /\ FdUnique
        /\ EnteringIsNew /\ ReapersApart
  BY DEF OwnershipInv
<1>env. CASE Environment
  BY <1>types, <1>inv, <1>own, <1>env DEF Environment, PeerSends, PeerCloses,
     PeerDrains, objectVars, threadVars, Rounds, Place, OwnCode, LoopLabel,
     InCallback, CallbackHasConn
<1>accept. ASSUME NEW c \in Conn, NEW f \in Fd, Accept(c, f) PROVE Rounds'
  BY <1>types, <1>inv, <1>own, <1>accept DEF Accept, Goto, Rounds, Place,
     OwnCode, LoopLabel, InCallback, CallbackHasConn
<1>insert. CASE InsertConnection
  BY <1>types, <1>inv, <1>own, <1>insert DEF InsertConnection, Goto,
     kernelVars, Rounds, Place, OwnCode, LoopLabel, InCallback,
     CallbackHasConn
<1>register. CASE RegisterCallBack
  BY <1>types, <1>inv, <1>own, <1>register DEF RegisterCallBack, Goto, Rounds,
     Place, OwnCode, LoopLabel, InCallback, CallbackHasConn
<1>set. CASE SetInEpoll
  BY <1>types, <1>inv, <1>own, <1>set DEF SetInEpoll, Goto, kernelVars,
     Rounds, Place, OwnCode, LoopLabel, InCallback, CallbackHasConn
<1>release. CASE ReleaseConnection
  BY <1>types, <1>inv, <1>own, <1>release DEF ReleaseConnection, Dropped,
     Goto, kernelVars, Rounds, Place, OwnCode, LoopLabel, InCallback,
     CallbackHasConn
<1>poll. ASSUME NEW l \in Loop, Poll(l) PROVE Rounds'
  BY <1>types, <1>inv, <1>own, <1>poll DEF Poll, Goto, Rounds, Place, OwnCode,
     LoopLabel, InCallback, CallbackHasConn
<1>timer. ASSUME NEW l \in Loop, NEW c \in Conn, ActiveCloseConn(l, c)
          PROVE  Rounds'
  BY <1>types, <1>inv, <1>own, <1>timer DEF ActiveCloseConn, NextChannel,
     Goto, kernelVars, Rounds, Place, OwnCode, LoopLabel, InCallback,
     CallbackHasConn
<1>handle. ASSUME NEW l \in Loop, NEW c \in Conn, HandleEvent(l, c)
           PROVE  Rounds'
  BY <1>types, <1>inv, <1>own, <1>handle DEF HandleEvent, NextChannel, Goto,
     kernelVars, objectVars, Rounds, Place, OwnCode, LoopLabel, InCallback,
     CallbackHasConn
<1>recv. ASSUME NEW l \in Loop, HttpOnMessage(l) PROVE Rounds'
  BY <1>types, <1>inv, <1>own, <1>recv DEF HttpOnMessage, Goto, kernelVars,
     Rounds, Place, OwnCode, LoopLabel, InCallback, CallbackHasConn
<1>send. ASSUME NEW l \in Loop, Send0(l) PROVE Rounds'
  BY <1>types, <1>inv, <1>own, <1>send DEF Send0, Goto, kernelVars, Rounds,
     Place, OwnCode, LoopLabel, InCallback, CallbackHasConn
<1>update. ASSUME NEW l \in Loop, UpdateChannel(l) PROVE Rounds'
  BY <1>types, <1>inv, <1>own, <1>update DEF UpdateChannel, Goto, Return,
     Rounds, Place, OwnCode, LoopLabel, InCallback, CallbackHasConn
<1>erase. ASSUME NEW l \in Loop, EraseConnection(l) PROVE Rounds'
  BY <1>types, <1>inv, <1>own, <1>erase DEF EraseConnection, Goto, Return,
     kernelVars, Rounds, Place, OwnCode, LoopLabel, InCallback,
     CallbackHasConn
<1>push. ASSUME NEW l \in Loop, PushFuncInToDoList(l) PROVE Rounds'
  <2>1. victim[l] \in Conn /\ LoopOf(victim[l]) = l
    BY <1>types, <1>own, <1>push DEF PushFuncInToDoList, CallbackHasConn,
       OwnLoop
  <2>2. /\ toDo' = [toDo EXCEPT ![l] = @ \cup {victim[l]}]
        /\ pc' = [pc EXCEPT ![l] = after[l]]
        /\ after' = [after EXCEPT ![l] = "finish"]
        /\ victim' = [victim EXCEPT ![l] = NoConn]
        /\ UNCHANGED <<cur, chs, due, functions>>
    BY <1>push, <2>1 DEF PushFuncInToDoList, Return, Goto
  <2>3. pc[l] = "push" /\ after[l] \in {"send", "finish"}
    BY <1>own, <1>push DEF PushFuncInToDoList, OwnCode
  <2> QED
    BY <1>types, <1>inv, <2>2, <2>3 DEF Rounds, Place, InCallback
<1>finish. ASSUME NEW l \in Loop, FinishEvent(l) PROVE Rounds'
  BY <1>types, <1>inv, <1>own, <1>finish DEF FinishEvent, NextChannel,
     Dropped, Goto, kernelVars, Rounds, Place, OwnCode, LoopLabel, InCallback,
     CallbackHasConn
<1>swap. ASSUME NEW l \in Loop, SwapToDoList(l) PROVE Rounds'
  BY <1>types, <1>inv, <1>own, <1>swap DEF SwapToDoList, Goto, kernelVars,
     objectVars, Rounds, Place, OwnCode, LoopLabel, InCallback,
     CallbackHasConn
<1>destruct. ASSUME NEW l \in Loop, NEW c \in Conn, ConnectionDestructor(l, c)
             PROVE  Rounds'
  BY <1>types, <1>inv, <1>own, <1>destruct DEF ConnectionDestructor, Goto,
     objectVars, Rounds, Place, OwnCode, LoopLabel, InCallback,
     CallbackHasConn
<1>clear. ASSUME NEW l \in Loop, NEW c \in Conn, ClearFunction(l, c)
          PROVE  Rounds'
  BY <1>types, <1>inv, <1>own, <1>clear DEF ClearFunction, Dropped, Goto,
     kernelVars, Rounds, Place, OwnCode, LoopLabel, InCallback,
     CallbackHasConn
<1>free. ASSUME NEW t \in Thread, FreeChannel(t) PROVE Rounds'
  BY <1>types, <1>inv, <1>own, <1>free DEF FreeChannel, Goto, kernelVars,
     Rounds, Place, OwnCode, LoopLabel, InCallback, CallbackHasConn
<1>close. ASSUME NEW t \in Thread, CloseSocket(t) PROVE Rounds'
  BY <1>types, <1>inv, <1>own, <1>close DEF CloseSocket, Return, Goto, Rounds,
     Place, OwnCode, LoopLabel, InCallback, CallbackHasConn
<1>stutter. CASE UNCHANGED vars
  BY <1>types, <1>inv, <1>own, <1>stutter DEF vars, kernelVars, objectVars,
     threadVars, Rounds, Place, OwnCode, LoopLabel, InCallback,
     CallbackHasConn
<1> QED
  BY <1>env, <1>accept, <1>insert, <1>register, <1>set, <1>release, <1>poll,
     <1>timer, <1>handle, <1>recv, <1>send, <1>update, <1>erase, <1>push,
     <1>finish, <1>swap, <1>destruct, <1>clear, <1>free, <1>close, <1>stutter
     DEF Next, MainStep, LoopStep

(* Nobody notices a connection before it is registered. *)
LEMMA ArrivingStep ==
  OwnershipInv /\ OwnLoop /\ Arriving /\ [Next]_vars => Arriving'
<1> SUFFICES ASSUME OwnershipInv, OwnLoop, Arriving, [Next]_vars
             PROVE  Arriving'
  OBVIOUS
<1> USE ReactorAssumption DEF Thread, Maybe
<1>types. /\ pc \in [Thread -> Label]
          /\ after \in [Thread -> Label]
          /\ cur \in [Thread -> Maybe]
          /\ victim \in [Thread -> Maybe]
          /\ reap \in [Thread -> Maybe]
          /\ connections \in [Fd -> Maybe]
          /\ fd \in [Conn -> Fd \cup {NoFd}]
          /\ life \in [Conn -> {"none", "alive", "dying", "chFreed", "gone"}]
          /\ chs \in [Loop -> SUBSET Conn]
          /\ due \in [Loop -> SUBSET Conn]
          /\ toDo \in [Loop -> SUBSET Conn]
          /\ functions \in [Loop -> SUBSET Conn]
          /\ called \in [Loop -> SUBSET Conn]
  BY DEF OwnershipInv, TypeOK
<1>inv. OwnershipInv /\ Main \notin Loop
  BY DEF Loop
<1>own. CallbackHasConn /\ OwnCode /\ HeldIsAlive /\ MapKeyedByFd /\ FdUnique
        /\ EnteringIsNew /\ ReapersApart
  BY DEF OwnershipInv
<1>watch. /\ interest \in [Conn -> SUBSET Events]
          /\ ready \subseteq Conn /\ timer \subseteq Conn
          /\ inepoll \in [Conn -> BOOLEAN]
          /\ stale \subseteq Conn /\ touched \subseteq Conn
  BY DEF OwnershipInv, TypeOK
<1>env. CASE Environment
  <2>1. PICK c \in Conn : PeerSends(c) \/ PeerCloses(c) \/ PeerDrains(c)
    BY <1>env DEF Environment
  <2>2. /\ UNCHANGED <<pc, cur, interest, timer, chs, due, connections>>
        /\ ready' = ready \/ (ready' = ready \cup {c} /\ interest[c] # {})
    BY <2>1 DEF PeerSends, PeerCloses, PeerDrains, objectVars, threadVars
  <2> QED
    BY <2>2 DEF Arriving, Mapped
<1>accept. ASSUME NEW c \in Conn, NEW f \in Fd, Accept(c, f) PROVE Arriving'
  <2>1. \A t \in Thread : cur[t] # c
    BY <1>own, <1>accept DEF Accept, HeldIsAlive, Held
  <2>2. /\ interest[c] = {} /\ c \notin ready /\ c \notin timer
        /\ \A l \in Loop : c \notin chs[l] /\ c \notin due[l]
    BY <1>accept DEF Accept, OwnLoop
  <2>3. /\ cur'[Main] = c /\ pc'[Main] = "insert"
        /\ \A l \in Loop : cur'[l] = cur[l]
        /\ UNCHANGED <<interest, ready, timer, chs, due>>
    BY <1>types, <1>inv, <1>accept DEF Accept, Goto
  <2> QED
    BY <2>1, <2>2, <2>3 DEF Arriving
<1>insert. CASE InsertConnection
  <2>1. fd[cur[Main]] \in Fd
    BY <1>inv, <1>insert, CallbackConn DEF InsertConnection, InCallback
  <2> QED
    BY <1>types, <1>inv, <1>insert, <2>1 DEF InsertConnection, Goto,
       kernelVars, Arriving, Mapped
<1>register. CASE RegisterCallBack
  BY <1>types, <1>inv, <1>own, <1>watch, <1>register DEF RegisterCallBack,
     Goto, Arriving, Mapped
<1>set. CASE SetInEpoll
  BY <1>types, <1>inv, <1>own, <1>watch, <1>set DEF SetInEpoll, Goto,
     kernelVars, Arriving, Mapped
<1>release. CASE ReleaseConnection
  BY <1>types, <1>inv, <1>own, <1>watch, <1>release DEF ReleaseConnection,
     Dropped, Goto, kernelVars, Arriving, Mapped
<1>poll. ASSUME NEW l \in Loop, Poll(l) PROVE Arriving'
  BY <1>types, <1>inv, <1>own, <1>watch, <1>poll DEF Poll, Goto, Arriving,
     Mapped
<1>timer. ASSUME NEW l \in Loop, NEW c \in Conn, ActiveCloseConn(l, c)
          PROVE  Arriving'
  BY <1>types, <1>inv, <1>own, <1>watch, <1>timer DEF ActiveCloseConn,
     NextChannel, Goto, kernelVars, Arriving, Mapped
<1>handle. ASSUME NEW l \in Loop, NEW c \in Conn, HandleEvent(l, c)
           PROVE  Arriving'
  BY <1>types, <1>inv, <1>own, <1>watch, <1>handle DEF HandleEvent,
     NextChannel, Goto, kernelVars, objectVars, Arriving, Mapped
<1>recv. ASSUME NEW l \in Loop, HttpOnMessage(l) PROVE Arriving'
  BY <1>types, <1>inv, <1>own, <1>watch, <1>recv DEF HttpOnMessage, Goto,
     kernelVars, Arriving, Mapped
<1>send. ASSUME NEW l \in Loop, Send0(l) PROVE Arriving'
  BY <1>types, <1>inv, <1>own, <1>watch, <1>send DEF Send0, Goto, kernelVars,
     Arriving, Mapped
<1>update. ASSUME NEW l \in Loop, UpdateChannel(l) PROVE Arriving'
  BY <1>types, <1>inv, <1>own, <1>watch, <1>update DEF UpdateChannel, Goto,
     Return, Arriving, Mapped
<1>erase. ASSUME NEW l \in Loop, EraseConnection(l) PROVE Arriving'
  <2> DEFINE f == fd[cur[l]]
  <2>1. /\ cur[l] \in Conn /\ life[cur[l]] = "alive" /\ f \in Fd
    BY <1>inv, <1>erase, CallbackConn DEF EraseConnection, InCallback
  <2>2. /\ UNCHANGED <<interest, ready, timer, chs, due, cur>>
        /\ pc'[Main] = pc[Main]
        /\ \A g \in Fd \ {f} : connections'[g] = connections[g]
    BY <1>types, <1>inv, <1>erase, <2>1 DEF EraseConnection, Return, Goto,
       kernelVars
  <2>3. ASSUME NEW c \in Conn, cur[Main] = c, pc[Main] = "register"
        PROVE  Mapped(c)'
    <3>1. PICK g \in Fd : connections[g] = c
      BY <2>3 DEF Arriving, Mapped
    <3>2. life[c] = "alive" /\ fd[c] = g /\ cur[l] # c
      BY <1>inv, <1>own, <2>3, <3>1 DEF HeldIsAlive, Held, MapKeyedByFd,
         Arriving
    <3>3. g # f
      BY <1>own, <2>1, <3>2 DEF FdUnique, HasFd
    <3> QED
      BY <2>2, <3>1, <3>3 DEF Mapped
  <2> QED
    BY <2>2, <2>3 DEF Arriving, Mapped
<1>push. ASSUME NEW l \in Loop, PushFuncInToDoList(l) PROVE Arriving'
  BY <1>types, <1>inv, <1>own, <1>watch, <1>push DEF PushFuncInToDoList, Goto,
     Return, kernelVars, objectVars, Arriving, Mapped
<1>finish. ASSUME NEW l \in Loop, FinishEvent(l) PROVE Arriving'
  BY <1>types, <1>inv, <1>own, <1>watch, <1>finish DEF FinishEvent,
     NextChannel, Dropped, Goto, kernelVars, Arriving, Mapped
<1>swap. ASSUME NEW l \in Loop, SwapToDoList(l) PROVE Arriving'
  BY <1>types, <1>inv, <1>own, <1>watch, <1>swap DEF SwapToDoList, Goto,
     kernelVars, objectVars, Arriving, Mapped
<1>destruct. ASSUME NEW l \in Loop, NEW c \in Conn, ConnectionDestructor(l, c)
             PROVE  Arriving'
  BY <1>types, <1>inv, <1>own, <1>watch, <1>destruct DEF ConnectionDestructor,
     Goto, objectVars, Arriving, Mapped
<1>clear. ASSUME NEW l \in Loop, NEW c \in Conn, ClearFunction(l, c)
          PROVE  Arriving'
  BY <1>types, <1>inv, <1>own, <1>watch, <1>clear DEF ClearFunction, Dropped,
     Goto, kernelVars, Arriving, Mapped
<1>free. ASSUME NEW t \in Thread, FreeChannel(t) PROVE Arriving'
  BY <1>types, <1>inv, <1>own, <1>watch, <1>free DEF FreeChannel, Goto,
     kernelVars, Arriving, Mapped
<1>close. ASSUME NEW t \in Thread, CloseSocket(t) PROVE Arriving'
  BY <1>types, <1>inv, <1>own, <1>watch, <1>close DEF CloseSocket, Return,
     Goto, Arriving, Mapped, OwnCode
<1>stutter. CASE UNCHANGED vars
  BY <1>types, <1>inv, <1>own, <1>watch, <1>stutter DEF vars, kernelVars,
     objectVars, threadVars, Arriving, Mapped
<1> QED
  BY <1>env, <1>accept, <1>insert, <1>register, <1>set, <1>release, <1>poll,
     <1>timer, <1>handle, <1>recv, <1>send, <1>update, <1>erase, <1>push,
     <1>finish, <1>swap, <1>destruct, <1>clear, <1>free, <1>close, <1>stutter
     DEF Next, MainStep, LoopStep

(* Only its destructor callback, the one step of DoToDolist, deregisters a  *)
(* connection.                                                              *)
LEMMA DeregisteredStep ==
  OwnershipInv /\ OneStage /\ OwnLoop /\ Rounds /\ [Next]_vars
    => \A c \in Conn :
         Deregistered(c)' =>
           \/ Deregistered(c)
           \/ \E l \in Loop : c \in functions[l] /\ c \notin functions'[l]
<1> DEFINE OnlyDestruct ==
             \A c \in Conn :
               Deregistered(c)' =>
                 \/ Deregistered(c)
                 \/ \E l \in Loop : c \in functions[l] /\ c \notin functions'[l]
<1> SUFFICES ASSUME OwnershipInv, OneStage, OwnLoop, Rounds, [Next]_vars
             PROVE  OnlyDestruct
  OBVIOUS
<1> USE ReactorAssumption DEF Thread, Maybe
<1>types. /\ pc \in [Thread -> Label]
          /\ after \in [Thread -> Label]
          /\ cur \in [Thread -> Maybe]
          /\ victim \in [Thread -> Maybe]
          /\ reap \in [Thread -> Maybe]
          /\ connections \in [Fd -> Maybe]
          /\ fd \in [Conn -> Fd \cup {NoFd}]
          /\ life \in [Conn -> {"none", "alive", "dying", "chFreed", "gone"}]
          /\ chs \in [Loop -> SUBSET Conn]
          /\ due \in [Loop -> SUBSET Conn]
          /\ toDo \in [Loop -> SUBSET Conn]
          /\ functions \in [Loop -> SUBSET Conn]
          /\ called \in [Loop -> SUBSET Conn]
  BY DEF OwnershipInv, TypeOK
<1>inv. OwnershipInv /\ Main \notin Loop
  BY DEF Loop
<1>own. CallbackHasConn /\ OwnCode /\ HeldIsAlive /\ MapKeyedByFd /\ FdUnique
        /\ EnteringIsNew /\ ReapersApart
  BY DEF OwnershipInv
<1>keep. ASSUME UNCHANGED <<connections, victim, toDo, functions>>,
                \A c \in Conn : life[c] = "none" => life'[c] = "none",
                \A c \in Conn : Entering(c)' <=> Entering(c)
         PROVE  OnlyDestruct
  BY <1>keep DEF Deregistered, Mapped, Moving
<1>env. CASE Environment
  BY <1>types, <1>inv, <1>keep, <1>env DEF Environment, PeerSends, PeerCloses,
     PeerDrains, objectVars, threadVars, Entering
<1>accept. ASSUME NEW c \in Conn, NEW f \in Fd, Accept(c, f)
           PROVE  OnlyDestruct
  BY <1>types, <1>inv, <1>own, <1>accept DEF Accept, Goto, Deregistered,
     Entering, Moving, Mapped, OwnCode, MainLabel, LoopLabel
<1>insert. CASE InsertConnection
  <2> DEFINE f == fd[cur[Main]]
  <2>1. cur[Main] \in Conn /\ f \in Fd /\ connections[f] = NoConn
    BY <1>inv, <1>insert, CallbackConn, NotConfused DEF InsertConnection,
       InCallback, DescriptorNotConfused
  <2>2. /\ connections' = [connections EXCEPT ![f] = cur[Main]]
        /\ UNCHANGED <<life, cur, victim, toDo, functions>>
        /\ pc'[Main] = "register"
    BY <1>types, <1>insert DEF InsertConnection, Goto
  <2>3. \A c \in Conn : Mapped(c) \/ Entering(c) => Mapped(c)'
    BY <1>types, <2>1, <2>2 DEF Mapped, Entering
  <2> QED
    BY <2>2, <2>3 DEF Deregistered, Moving
<1>register. CASE RegisterCallBack
  BY <1>types, <1>inv, <1>keep, <1>register DEF RegisterCallBack, Goto,
     Entering
<1>set. CASE SetInEpoll
  BY <1>types, <1>inv, <1>keep, <1>set DEF SetInEpoll, Goto, kernelVars,
     Entering
<1>release. CASE ReleaseConnection
  <2>1. \A c \in Conn : life[c] = "none" => life'[c] = "none"
    BY <1>types, <1>own, <1>release DEF ReleaseConnection, Dropped,
       HeldIsAlive, Held
  <2>2. \A c \in Conn : Entering(c)' <=> Entering(c)
    BY <1>types, <1>release DEF ReleaseConnection, Dropped, Goto, Entering
  <2> QED
    BY <1>release, <1>keep, <2>1, <2>2 DEF ReleaseConnection
<1>poll. ASSUME NEW l \in Loop, Poll(l) PROVE OnlyDestruct
  BY <1>types, <1>inv, <1>keep, <1>poll DEF Poll, Goto, Entering
<1>timer. ASSUME NEW l \in Loop, NEW c \in Conn, ActiveCloseConn(l, c)
          PROVE  OnlyDestruct
  BY <1>types, <1>inv, <1>keep, <1>timer DEF ActiveCloseConn, NextChannel,
     Goto, kernelVars, Entering
<1>handle. ASSUME NEW l \in Loop, NEW c \in Conn, HandleEvent(l, c)
           PROVE  OnlyDestruct
  BY <1>types, <1>inv, <1>keep, <1>handle DEF HandleEvent, NextChannel, Goto,
     kernelVars, objectVars, Entering
<1>recv. ASSUME NEW l \in Loop, HttpOnMessage(l) PROVE OnlyDestruct
  BY <1>types, <1>inv, <1>keep, <1>recv DEF HttpOnMessage, Goto, kernelVars,
     Entering
<1>send. ASSUME NEW l \in Loop, Send0(l) PROVE OnlyDestruct
  BY <1>types, <1>inv, <1>keep, <1>send DEF Send0, Goto, kernelVars, Entering
<1>update. ASSUME NEW l \in Loop, UpdateChannel(l) PROVE OnlyDestruct
  BY <1>types, <1>inv, <1>keep, <1>update DEF UpdateChannel, Goto, Return,
     Entering
<1>erase. ASSUME NEW l \in Loop, EraseConnection(l) PROVE OnlyDestruct
  <2> DEFINE f == fd[cur[l]]
  <2>1. cur[l] \in Conn /\ f \in Fd
    BY <1>inv, <1>erase, CallbackConn DEF EraseConnection, InCallback
  <2>2. UNCHANGED <<life, cur, toDo, functions>> /\ pc'[Main] = pc[Main]
    BY <1>types, <1>inv, <1>erase DEF EraseConnection, Return, Goto
  <2>3. \A c \in Conn : /\ Mapped(c) => Mapped(c)' \/ Moving(c)'
                        /\ Moving(c) => Moving(c)'
    <3>1. victim[l] = NoConn
      BY <1>erase DEF EraseConnection, Rounds
    <3>2. CASE connections[f] = NoConn
      BY <1>erase, <3>2 DEF EraseConnection, Mapped, Moving
    <3>3. CASE connections[f] # NoConn
      BY <1>types, <1>erase, <2>1, <3>1, <3>3 DEF EraseConnection, Mapped,
         Moving
    <3> QED
      BY <3>2, <3>3
  <2> QED
    BY <2>2, <2>3 DEF Deregistered, Entering
<1>push. ASSUME NEW l \in Loop, PushFuncInToDoList(l) PROVE OnlyDestruct
  <2> DEFINE d == victim[l]
  <2>1. d \in Conn /\ LoopOf(d) = l
    BY <1>types, <1>own, <1>push DEF PushFuncInToDoList, CallbackHasConn,
       OwnLoop
  <2>2. /\ toDo' = [toDo EXCEPT ![l] = @ \cup {d}]
        /\ victim' = [victim EXCEPT ![l] = NoConn]
        /\ UNCHANGED <<life, cur, connections, functions>>
        /\ pc'[Main] = pc[Main]
    BY <1>types, <1>inv, <1>push, <2>1 DEF PushFuncInToDoList, Return, Goto,
       objectVars
  <2>3. /\ \A c \in Conn : Moving(c) => Moving(c)' \/ c \in toDo'[l]
        /\ \A k \in Loop : toDo[k] \subseteq toDo'[k]
    BY <1>types, <2>2 DEF Moving
  <2> QED
    BY <2>2, <2>3 DEF Deregistered, Entering, Mapped
<1>finish. ASSUME NEW l \in Loop, FinishEvent(l) PROVE OnlyDestruct
  <2>1. \A c \in Conn : life[c] = "none" => life'[c] = "none"
    BY <1>types, <1>own, <1>finish DEF FinishEvent, Dropped, HeldIsAlive, Held
  <2>2. \A c \in Conn : Entering(c)' <=> Entering(c)
    BY <1>types, <1>inv, <1>finish DEF FinishEvent, Dropped, Goto, Entering
  <2> QED
    BY <1>finish, <1>keep, <2>1, <2>2 DEF FinishEvent
<1>swap. ASSUME NEW l \in Loop, SwapToDoList(l) PROVE OnlyDestruct
  <2>1. functions[l] = {}
    BY <1>own, <1>swap DEF SwapToDoList, Rounds, Place
  <2>2. /\ toDo' = [toDo EXCEPT ![l] = {}]
        /\ functions' = [functions EXCEPT ![l] = toDo[l]]
        /\ UNCHANGED <<life, cur, connections, victim>>
        /\ pc'[Main] = pc[Main]
    BY <1>types, <1>inv, <1>swap DEF SwapToDoList, Goto, objectVars
  <2>3. \A c \in Conn, k \in Loop :
          c \in toDo[k] \/ c \in functions[k]
            => c \in toDo'[k] \/ c \in functions'[k]
    BY <1>types, <2>1, <2>2
  <2> QED
    BY <2>2, <2>3 DEF Deregistered, Entering, Mapped, Moving
<1>destruct. ASSUME NEW l \in Loop, NEW c \in Conn, ConnectionDestructor(l, c)
             PROVE  OnlyDestruct
  BY <1>types, <1>inv, <1>own, <1>destruct DEF ConnectionDestructor, Goto,
     objectVars, Deregistered, Entering, Moving, Mapped, OwnCode, MainLabel,
     LoopLabel
<1>clear. ASSUME NEW l \in Loop, NEW c \in Conn, ClearFunction(l, c)
          PROVE  OnlyDestruct
  <2>1. \A d \in Conn : life[d] = "none" => life'[d] = "none"
    BY <1>types, <1>own, <1>clear DEF ClearFunction, Dropped, HeldIsAlive, Held
  <2>2. \A d \in Conn : Entering(d)' <=> Entering(d)
    BY <1>types, <1>inv, <1>clear DEF ClearFunction, Dropped, Goto, Entering
  <2> QED
    BY <1>clear, <1>keep, <2>1, <2>2 DEF ClearFunction
<1>free. ASSUME NEW t \in Thread, FreeChannel(t) PROVE OnlyDestruct
  BY <1>types, <1>inv, <1>keep, <1>own, <1>free DEF FreeChannel, Goto,
     kernelVars, Entering, OwnCode, MainLabel, CallbackHasConn, ReapersApart
<1>close. ASSUME NEW t \in Thread, CloseSocket(t) PROVE OnlyDestruct
  <2>1. \A c \in Conn : life[c] = "none" => life'[c] = "none"
    BY <1>types, <1>own, <1>close DEF CloseSocket, ReapersApart
  <2>2. \A c \in Conn : Entering(c)' <=> Entering(c)
    BY <1>types, <1>inv, <1>own, <1>close DEF CloseSocket, Return, Goto,
       Entering, OwnCode
  <2> QED
    BY <1>close, <1>keep, <2>1, <2>2 DEF CloseSocket
<1>stutter. CASE UNCHANGED vars
  BY <1>types, <1>inv, <1>keep, <1>stutter DEF vars, kernelVars, objectVars,
     threadVars, Entering
<1> QED
  BY <1>env, <1>accept, <1>insert, <1>register, <1>set, <1>release, <1>poll,
     <1>timer, <1>handle, <1>recv, <1>send, <1>update, <1>erase, <1>push,
     <1>finish, <1>swap, <1>destruct, <1>clear, <1>free, <1>close, <1>stutter
     DEF Next, MainStep, LoopStep

(* What was deregistered stays silent. *)
LEMMA ForgottenStep ==
  OwnershipInv /\ OneStage /\ OwnLoop /\ Rounds /\ Arriving /\ Forgotten
    /\ [Next]_vars => Forgotten'
<1> SUFFICES ASSUME OwnershipInv, OneStage, OwnLoop, Rounds, Arriving,
                    Forgotten, [Next]_vars
             PROVE  Forgotten'
  OBVIOUS
<1> USE ReactorAssumption DEF Thread, Maybe
<1>types. /\ pc \in [Thread -> Label]
          /\ after \in [Thread -> Label]
          /\ cur \in [Thread -> Maybe]
          /\ victim \in [Thread -> Maybe]
          /\ reap \in [Thread -> Maybe]
          /\ connections \in [Fd -> Maybe]
          /\ fd \in [Conn -> Fd \cup {NoFd}]
          /\ life \in [Conn -> {"none", "alive", "dying", "chFreed", "gone"}]
          /\ chs \in [Loop -> SUBSET Conn]
          /\ due \in [Loop -> SUBSET Conn]
          /\ toDo \in [Loop -> SUBSET Conn]
          /\ functions \in [Loop -> SUBSET Conn]
          /\ called \in [Loop -> SUBSET Conn]
  BY DEF OwnershipInv, TypeOK
<1>inv. OwnershipInv /\ Main \notin Loop
  BY DEF Loop
<1>own. CallbackHasConn /\ OwnCode /\ HeldIsAlive /\ MapKeyedByFd /\ FdUnique
        /\ EnteringIsNew /\ ReapersApart
  BY DEF OwnershipInv
<1>watch. /\ interest \in [Conn -> SUBSET Events]
          /\ ready \subseteq Conn /\ timer \subseteq Conn
          /\ inepoll \in [Conn -> BOOLEAN]
          /\ stale \subseteq Conn /\ touched \subseteq Conn
  BY DEF OwnershipInv, TypeOK
<1>touched. touched \subseteq stale
  BY DEF Forgotten
<1>freed. \A c \in Conn : Freed(c) => c \in stale \/ Silent(c)
  BY <1>types, <1>own DEF Freed, Forgotten, Deregistered, Mapped, Entering,
     Moving, HeldIsAlive, Held
<1>keep. ASSUME \A l \in Loop : functions[l] \subseteq functions'[l],
                stale \subseteq stale', touched' \subseteq stale,
                \A c \in Conn : Deregistered(c) /\ Silent(c) => Silent(c)'
         PROVE  Forgotten'
  BY <1>keep, DeregisteredStep DEF Forgotten
<1>env. CASE Environment
  BY <1>types, <1>inv, <1>keep, <1>touched, <1>watch, <1>env DEF Environment,
     PeerSends, PeerCloses, PeerDrains, objectVars, threadVars, Silent
<1>accept. ASSUME NEW c \in Conn, NEW f \in Fd, Accept(c, f) PROVE Forgotten'
  BY <1>types, <1>inv, <1>keep, <1>touched, <1>watch, <1>accept DEF Accept,
     Goto, Silent
<1>insert. CASE InsertConnection
  BY <1>types, <1>inv, <1>keep, <1>touched, <1>watch, <1>insert DEF
     InsertConnection, Goto, kernelVars, Silent
<1>register. CASE RegisterCallBack
  BY <1>types, <1>inv, <1>keep, <1>touched, <1>watch, <1>register DEF
     RegisterCallBack, Goto, Silent, Arriving, Deregistered
<1>set. CASE SetInEpoll
  BY <1>types, <1>inv, <1>keep, <1>touched, <1>watch, <1>set DEF SetInEpoll,
     Goto, kernelVars, Silent
<1>release. CASE ReleaseConnection
  BY <1>types, <1>inv, <1>keep, <1>touched, <1>watch, <1>release DEF
     ReleaseConnection, Dropped, Goto, kernelVars, Silent
<1>poll. ASSUME NEW l \in Loop, Poll(l) PROVE Forgotten'
  BY <1>types, <1>inv, <1>keep, <1>touched, <1>watch, <1>freed, <1>poll DEF
     Poll, Goto, Silent, Rounds, InCallback
<1>timer. ASSUME NEW l \in Loop, NEW c \in Conn, ActiveCloseConn(l, c)
          PROVE  Forgotten'
  BY <1>types, <1>inv, <1>keep, <1>touched, <1>watch, <1>timer DEF
     ActiveCloseConn, NextChannel, Goto, kernelVars, Silent, Rounds, Place,
     InCallback
<1>handle. ASSUME NEW l \in Loop, NEW c \in Conn, HandleEvent(l, c)
           PROVE  Forgotten'
  <2>1. touched' \subseteq stale
    BY <1>touched, <1>freed, <1>handle DEF HandleEvent, Silent
  <2>2. /\ UNCHANGED <<interest, ready, after, functions, stale>>
        /\ chs' = [chs EXCEPT ![l] = @ \ {c}]
        /\ pc[l] = "dispatch" /\ c \in chs[l]
        /\ cur' \in {cur, [cur EXCEPT ![l] = c]}
        /\ \A k \in Loop \ {l} : pc'[k] = pc[k]
    BY <1>types, <1>handle DEF HandleEvent, Goto, kernelVars
  <2>3. \A d \in Conn : Silent(d) => Silent(d)'
    BY <1>types, <2>2 DEF Silent
  <2> QED
    BY <1>keep, <2>1, <2>2, <2>3
<1>recv. ASSUME NEW l \in Loop, HttpOnMessage(l) PROVE Forgotten'
  BY <1>types, <1>inv, <1>keep, <1>touched, <1>watch, <1>recv DEF
     HttpOnMessage, Goto, kernelVars, Silent
<1>send. ASSUME NEW l \in Loop, Send0(l) PROVE Forgotten'
  BY <1>types, <1>inv, <1>keep, <1>touched, <1>watch, <1>send DEF Send0, Goto,
     kernelVars, Silent
<1>update. ASSUME NEW l \in Loop, UpdateChannel(l) PROVE Forgotten'
  BY <1>types, <1>inv, <1>keep, <1>touched, <1>watch, <1>update DEF
     UpdateChannel, Goto, Return, Silent
<1>erase. ASSUME NEW l \in Loop, EraseConnection(l) PROVE Forgotten'
  BY <1>types, <1>inv, <1>keep, <1>touched, <1>watch, <1>erase DEF
     EraseConnection, Goto, Return, kernelVars, Silent
<1>push. ASSUME NEW l \in Loop, PushFuncInToDoList(l) PROVE Forgotten'
  BY <1>types, <1>inv, <1>keep, <1>touched, <1>watch, <1>push DEF
     PushFuncInToDoList, Goto, Return, kernelVars, objectVars, Silent
<1>finish. ASSUME NEW l \in Loop, FinishEvent(l) PROVE Forgotten'
  BY <1>types, <1>inv, <1>keep, <1>touched, <1>watch, <1>finish DEF
     FinishEvent, NextChannel, Dropped, Goto, kernelVars, Silent, Rounds,
     Place, InCallback
<1>swap. ASSUME NEW l \in Loop, SwapToDoList(l) PROVE Forgotten'
  BY <1>types, <1>inv, <1>own, <1>watch, <1>keep, <1>touched, <1>swap DEF
     SwapToDoList, Goto, kernelVars, objectVars, Silent, Rounds, Place,
     InCallback
<1>destruct. ASSUME NEW l \in Loop, NEW c \in Conn, ConnectionDestructor(l, c)
             PROVE  Forgotten'
  <2>1. life[c] = "alive" /\ LoopOf(c) = l
    BY <1>own, <1>destruct DEF ConnectionDestructor, HeldIsAlive, Held,
       OneStage, Pending
  <2>2. \A k \in Loop : c \notin chs[k] /\ cur[k] # c
    BY <1>own, <1>destruct, <2>1 DEF ConnectionDestructor, OwnLoop, Rounds,
       Place, InCallback
  <2>3. /\ UNCHANGED <<chs, cur, after, touched>>
        /\ functions' = [functions EXCEPT ![l] = @ \ {c}]
        /\ stale \subseteq stale' /\ ready' \subseteq ready
        /\ \A d \in Conn : interest'[d] \subseteq interest[d]
        /\ c \in stale' \/ (interest'[c] = {} /\ c \notin ready')
    BY <1>watch, <1>destruct DEF ConnectionDestructor
  <2>4. cur[l] = NoConn /\ \A k \in Loop \ {l} : pc'[k] = pc[k]
    BY <1>types, <1>destruct DEF ConnectionDestructor, Goto, Rounds,
       InCallback
  <2>5. \A d \in Conn : Silent(d) => Silent(d)'
    BY <1>types, <2>3, <2>4 DEF Silent
  <2>6. \A d \in Conn \ {c} : Deregistered(d)' => Deregistered(d)
    BY <1>types, <2>3, DeregisteredStep
  <2>7. \A d \in Conn : Deregistered(d)' /\ d \notin stale' => Silent(d)'
    <3>1. \A d \in Conn \ {c} :
            Deregistered(d)' /\ d \notin stale' => Silent(d)'
      BY <2>3, <2>5, <2>6 DEF Forgotten
    <3>2. \A d \in {c} : d \in stale' \/ Silent(d)'
      BY <2>2, <2>3 DEF Silent
    <3> QED
      BY <3>1, <3>2
  <2> QED
    BY <1>touched, <2>3, <2>7 DEF Forgotten
<1>clear. ASSUME NEW l \in Loop, NEW c \in Conn, ClearFunction(l, c)
          PROVE  Forgotten'
  <2>1. pc[l] = "clear" /\ cur[l] = NoConn
    BY <1>clear DEF ClearFunction, Rounds, InCallback
  <2>2. /\ UNCHANGED <<interest, ready, chs, cur, functions, stale, touched>>
        /\ \A k \in Loop \ {l} : pc'[k] = pc[k] /\ after'[k] = after[k]
    BY <1>types, <1>clear DEF ClearFunction, Dropped, Goto, kernelVars
  <2>3. \A d \in Conn : Silent(d) => Silent(d)'
    BY <2>1, <2>2 DEF Silent
  <2> QED
    BY <1>keep, <1>touched, <2>2, <2>3
<1>free. ASSUME NEW t \in Thread, FreeChannel(t) PROVE Forgotten'
  BY <1>types, <1>inv, <1>keep, <1>touched, <1>watch, <1>free DEF FreeChannel,
     Goto, kernelVars, Silent, Rounds, Place, InCallback
<1>close. ASSUME NEW t \in Thread, CloseSocket(t) PROVE Forgotten'
  BY <1>types, <1>inv, <1>keep, <1>touched, <1>watch, <1>close DEF
     CloseSocket, Return, Goto, Silent, Rounds, Place, InCallback
<1>stutter. CASE UNCHANGED vars
  BY <1>types, <1>inv, <1>keep, <1>touched, <1>watch, <1>stutter DEF vars,
     kernelVars, objectVars, threadVars, Silent
<1> QED
  BY <1>env, <1>accept, <1>insert, <1>register, <1>set, <1>release, <1>poll,
     <1>timer, <1>handle, <1>recv, <1>send, <1>update, <1>erase, <1>push,
     <1>finish, <1>swap, <1>destruct, <1>clear, <1>free, <1>close, <1>stutter
     DEF Next, MainStep, LoopStep

(* Epoll is told what the channel asks for, or the registration was early. *)
LEMMA InterestStep ==
  OwnershipInv /\ OwnLoop /\ InterestFollowsEvents /\ [Next]_vars
    => InterestFollowsEvents'
<1> SUFFICES ASSUME OwnershipInv, OwnLoop, InterestFollowsEvents, [Next]_vars
             PROVE  InterestFollowsEvents'
  OBVIOUS
<1> USE ReactorAssumption DEF Thread, Maybe
<1>types. /\ pc \in [Thread -> Label]
          /\ after \in [Thread -> Label]
          /\ cur \in [Thread -> Maybe]
          /\ victim \in [Thread -> Maybe]
          /\ reap \in [Thread -> Maybe]
          /\ connections \in [Fd -> Maybe]
          /\ fd \in [Conn -> Fd \cup {NoFd}]
          /\ life \in [Conn -> {"none", "alive", "dying", "chFreed", "gone"}]
          /\ chs \in [Loop -> SUBSET Conn]
          /\ due \in [Loop -> SUBSET Conn]
          /\ toDo \in [Loop -> SUBSET Conn]
          /\ functions \in [Loop -> SUBSET Conn]
          /\ called \in [Loop -> SUBSET Conn]
  BY DEF OwnershipInv, TypeOK
<1>inv. OwnershipInv /\ Main \notin Loop
  BY DEF Loop
<1>own. CallbackHasConn /\ OwnCode /\ HeldIsAlive /\ MapKeyedByFd /\ FdUnique
        /\ EnteringIsNew /\ ReapersApart
  BY DEF OwnershipInv
<1>watch. /\ interest \in [Conn -> SUBSET Events]
          /\ events \in [Conn -> SUBSET Events]
  BY DEF OwnershipInv, TypeOK
<1>env. CASE Environment
  BY <1>types, <1>inv, <1>own, <1>watch, <1>env DEF Environment, PeerSends,
     PeerCloses, PeerDrains, objectVars, threadVars, InterestFollowsEvents
<1>accept. ASSUME NEW c \in Conn, NEW f \in Fd, Accept(c, f)
           PROVE  InterestFollowsEvents'
  BY <1>types, <1>inv, <1>own, <1>watch, <1>accept DEF Accept, Goto,
     InterestFollowsEvents, OwnLoop
<1>insert. CASE InsertConnection
  BY <1>types, <1>inv, <1>own, <1>watch, <1>insert DEF InsertConnection, Goto,
     kernelVars, InterestFollowsEvents
<1>register. CASE RegisterCallBack
  BY <1>types, <1>inv, <1>own, <1>watch, <1>register DEF RegisterCallBack,
     Goto, InterestFollowsEvents
<1>set. CASE SetInEpoll
  BY <1>types, <1>inv, <1>own, <1>watch, <1>set DEF SetInEpoll, Goto,
     kernelVars, InterestFollowsEvents
<1>release. CASE ReleaseConnection
  BY <1>types, <1>inv, <1>own, <1>watch, <1>release DEF ReleaseConnection,
     Dropped, Goto, kernelVars, InterestFollowsEvents
<1>poll. ASSUME NEW l \in Loop, Poll(l) PROVE InterestFollowsEvents'
  BY <1>types, <1>inv, <1>own, <1>watch, <1>poll DEF Poll, Goto,
     InterestFollowsEvents
<1>timer. ASSUME NEW l \in Loop, NEW c \in Conn, ActiveCloseConn(l, c)
          PROVE  InterestFollowsEvents'
  BY <1>types, <1>inv, <1>own, <1>watch, <1>timer DEF ActiveCloseConn,
     NextChannel, Goto, kernelVars, InterestFollowsEvents
<1>handle. ASSUME NEW l \in Loop, NEW c \in Conn, HandleEvent(l, c)
           PROVE  InterestFollowsEvents'
  BY <1>types, <1>inv, <1>own, <1>watch, <1>handle DEF HandleEvent,
     NextChannel, Goto, kernelVars, objectVars, InterestFollowsEvents
<1>recv. ASSUME NEW l \in Loop, HttpOnMessage(l) PROVE InterestFollowsEvents'
  BY <1>types, <1>inv, <1>own, <1>watch, <1>recv DEF HttpOnMessage, Goto,
     kernelVars, InterestFollowsEvents
<1>send. ASSUME NEW l \in Loop, Send0(l) PROVE InterestFollowsEvents'
  BY <1>types, <1>inv, <1>own, <1>watch, <1>send DEF Send0, Goto, kernelVars,
     InterestFollowsEvents
<1>update. ASSUME NEW l \in Loop, UpdateChannel(l)
           PROVE  InterestFollowsEvents'
  BY <1>types, <1>inv, <1>own, <1>watch, <1>update DEF UpdateChannel, Goto,
     Return, InterestFollowsEvents
<1>erase. ASSUME NEW l \in Loop, EraseConnection(l)
          PROVE  InterestFollowsEvents'
  BY <1>types, <1>inv, <1>own, <1>watch, <1>erase DEF EraseConnection, Goto,
     Return, kernelVars, InterestFollowsEvents
<1>push. ASSUME NEW l \in Loop, PushFuncInToDoList(l)
         PROVE  InterestFollowsEvents'
  BY <1>types, <1>inv, <1>own, <1>watch, <1>push DEF PushFuncInToDoList, Goto,
     Return, kernelVars, objectVars, InterestFollowsEvents
<1>finish. ASSUME NEW l \in Loop, FinishEvent(l) PROVE InterestFollowsEvents'
  BY <1>types, <1>inv, <1>own, <1>watch, <1>finish DEF FinishEvent,
     NextChannel, Dropped, Goto, kernelVars, InterestFollowsEvents
<1>swap. ASSUME NEW l \in Loop, SwapToDoList(l) PROVE InterestFollowsEvents'
  BY <1>types, <1>inv, <1>own, <1>watch, <1>swap DEF SwapToDoList, Goto,
     kernelVars, objectVars, InterestFollowsEvents
<1>destruct. ASSUME NEW l \in Loop, NEW c \in Conn, ConnectionDestructor(l, c)
             PROVE  InterestFollowsEvents'
  BY <1>types, <1>inv, <1>own, <1>watch, <1>destruct DEF ConnectionDestructor,
     Goto, objectVars, InterestFollowsEvents
<1>clear. ASSUME NEW l \in Loop, NEW c \in Conn, ClearFunction(l, c)
          PROVE  InterestFollowsEvents'
  BY <1>types, <1>inv, <1>own, <1>watch, <1>clear DEF ClearFunction, Dropped,
     Goto, kernelVars, InterestFollowsEvents
<1>free. ASSUME NEW t \in Thread, FreeChannel(t) PROVE InterestFollowsEvents'
  BY <1>types, <1>inv, <1>own, <1>watch, <1>free DEF FreeChannel, Goto,
     kernelVars, InterestFollowsEvents
<1>close. ASSUME NEW t \in Thread, CloseSocket(t) PROVE InterestFollowsEvents'
  BY <1>types, <1>inv, <1>own, <1>watch, <1>close DEF CloseSocket, Return,
     Goto, InterestFollowsEvents
<1>stutter. CASE UNCHANGED vars
  BY <1>types, <1>inv, <1>own, <1>watch, <1>stutter DEF vars, kernelVars,
     objectVars, threadVars, InterestFollowsEvents
<1> QED
  BY <1>env, <1>accept, <1>insert, <1>register, <1>set, <1>release, <1>poll,
     <1>timer, <1>handle, <1>recv, <1>send, <1>update, <1>erase, <1>push,
     <1>finish, <1>swap, <1>destruct, <1>clear, <1>free, <1>close, <1>stutter
     DEF Next, MainStep, LoopStep

(* Nothing is under way at the start. *)
LEMMA DestroyInit == Init => DestroyInv /\ InterestFollowsEvents
<1> SUFFICES ASSUME Init PROVE DestroyInv /\ InterestFollowsEvents
  OBVIOUS
<1> USE ReactorAssumption DEF Thread
<1>1. /\ Main \notin Loop
      /\ \A t \in Thread : cur[t] = NoConn /\ victim[t] = NoConn
      /\ \A f \in Fd : connections[f] = NoConn
      /\ \A l \in Loop : /\ pc[l] = "poll" /\ after[l] = "finish"
                         /\ chs[l] = {} /\ due[l] = {} /\ toDo[l] = {}
                         /\ functions[l] = {} /\ called[l] = {}
      /\ pc[Main] = "accept"
  BY DEF Init, Loop
<1>2. OneStage
  BY <1>1 DEF OneStage, Pending, Moving, Mapped, Entering
<1>3. OwnLoop
  BY <1>1 DEF Init, OwnLoop
<1>4. Rounds
  BY <1>1 DEF Rounds, Place, InCallback
<1>5. Arriving
  BY <1>1 DEF Arriving
<1>6. Forgotten
  BY <1>1 DEF Init, Forgotten, Deregistered
<1>7. InterestFollowsEvents
  BY DEF Init, InterestFollowsEvents
<1> QED
  BY OwnershipInit, <1>2, <1>3, <1>4, <1>5, <1>6, <1>7 DEF DestroyInv

(* From newConnection to the end of DoToDolist every connection is in one   *)
(* place at a time, and afterwards epoll has forgotten it or the race of    *)
(* setInEpoll has struck.                                                   *)
THEOREM Destroy == Spec => []DestroyInv
<1>1. DestroyInv /\ [Next]_vars => OwnershipInv'
  BY TypeStep, ControlStep, HeldStep, MapStep, FdStep, EnteringStep,
     ReaperStep DEF OwnershipInv, DestroyInv
<1>2. DestroyInv /\ [Next]_vars => DestroyInv'
  BY <1>1, OneStageStep, OwnLoopStep, RoundsStep, ArrivingStep, ForgottenStep
     DEF DestroyInv
<1> QED
  BY DestroyInit, <1>2, PTL DEF Spec

(* However often a connection is closed, its destructor callback is queued  *)
(* once (Server::deleteConnection, EventLoop::DoToDolist).                  *)
THEOREM QueuedOnce == Spec => []ClosedOnce
<1>1. ASSUME NEW S, \A x, y \in S : x = y
      PROVE  Cardinality(S) = IF S = {} THEN 0 ELSE 1
  <2>1. CASE S = {}
    BY <2>1, FS_EmptySet
  <2>2. ASSUME NEW x \in S PROVE Cardinality(S) = 1
    <3>1. S = {x}
      BY <1>1
    <3> QED
      BY <3>1, FS_Singleton
  <2> QED
    BY <2>1, <2>2
<1>2. ASSUME DestroyInv, NEW c \in Conn
      PROVE  LET s == Stages(c)
             IN s.map + s.con + s.toDo + s.functions + s.called <= 1
  <2> DEFINE map == {f \in Fd : connections[f] = c}
             con == {t \in Thread : victim[t] = c}
             list == {l \in Loop : c \in toDo[l]}
             func == {l \in Loop : c \in functions[l]}
             call == {l \in Loop : c \in called[l]}
  <2>inv. OwnershipInv /\ MapKeyedByFd /\ OneStage /\ c # NoConn
    BY <1>2, ReactorAssumption DEF DestroyInv, OwnershipInv
  <2>1. /\ \A f, g \in map : f = g
        /\ \A t, u \in con : t = u
    BY <2>inv DEF MapKeyedByFd, OneStage
  <2>2. \A k, l \in list \cup func \cup call : k = l
    BY <2>inv DEF OneStage, Pending
  <2>3. /\ Cardinality(map) = IF map = {} THEN 0 ELSE 1
        /\ Cardinality(con) = IF con = {} THEN 0 ELSE 1
    BY <1>1, <2>1
  <2>4. /\ Cardinality(list) = IF list = {} THEN 0 ELSE 1
        /\ Cardinality(func) = IF func = {} THEN 0 ELSE 1
        /\ Cardinality(call) = IF call = {} THEN 0 ELSE 1
    <3>1. /\ \A k, l \in list : k = l
          /\ \A k, l \in func : k = l
          /\ \A k, l \in call : k = l
      BY <2>2
    <3> QED
      BY <1>1, <3>1
  <2>5. /\ list \cup func \cup call # {} => map = {} /\ con = {}
        /\ con # {} => map = {}
    BY <2>inv DEF OneStage, Pending, Mapped, Moving
  <2>6. /\ list = {} \/ func = {}
        /\ list = {} \/ call = {}
        /\ func = {} \/ call = {}
    BY <2>inv, <2>2 DEF OneStage
  <2>7. Cardinality(map) + Cardinality(con) + Cardinality(list)
          + Cardinality(func) + Cardinality(call) <= 1
    BY <2>3, <2>4, <2>5, <2>6
  <2> QED
    BY <2>7 DEF Stages
<1>3. DestroyInv => ClosedOnce
  BY <1>2 DEF ClosedOnce
<1> QED
  BY Destroy, <1>3, PTL

(* No loop sleeps in epoll_wait while a destructor is on its list, although *)
(* PushFuncInToDoList wakes nobody: only the loop itself adds to the list.  *)
THEOREM NothingLeftToDo == Spec => []NoDestructorWhileAsleep
<1>1. DestroyInv => NoDestructorWhileAsleep
  BY DEF DestroyInv, Rounds, Place, NoDestructorWhileAsleep
<1> QED
  BY Destroy, <1>1, PTL

(* A freed channel is used only after the race of setInEpoll.               *)
THEOREM OnlyStaleTouched == Spec => []TouchedOnlyIfStale
<1>1. DestroyInv => TouchedOnlyIfStale
  BY DEF DestroyInv, Forgotten, TouchedOnlyIfStale
<1> QED
  BY Destroy, <1>1, PTL

(* Epoll watches what the channel asked for, but for that same race.        *)
THEOREM InterestKept == Spec => []InterestFollowsEvents
<1>1. DestroyInv /\ InterestFollowsEvents /\ [Next]_vars
        => InterestFollowsEvents'
  BY InterestStep DEF DestroyInv
<1>2. DestroyInv /\ InterestFollowsEvents /\ [Next]_vars /\ DestroyInv'
        => (DestroyInv /\ InterestFollowsEvents)'
  BY <1>1
<1> QED
  BY DestroyInit, Destroy, <1>2, PTL DEF Spec
=============================================================================
