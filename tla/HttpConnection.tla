--------------------------- MODULE HttpConnection ---------------------------
(***************************************************************************)
(* One HTTP connection in its sub-reactor: recv0 and the parser, the        *)
(* response, send0 with partial writes, EPOLLOUT and close-after-write,     *)
(* against a peer and a kernel that go on meanwhile.                        *)
(*                                                                         *)
(* Who owns the objects is left out (see Reactor): close0 marks the         *)
(* connection closed, and it is gone when its event is over.                *)
(*                                                                         *)
(* A chunk stands for the bytes of one send of the peer, a unit for a part  *)
(* of a response; unit n belongs to response number n.                      *)
(***************************************************************************)
EXTENDS Integers, Sequences, SequencesExt

CONSTANTS
  MaxChunks,   (* bound: the peer sends no more chunks                     *)
  QueueSize,   (* units the socket's send queue holds                      *)
  CatSize,     (* units of cat.jpg; every other response is one            *)
  MayReset     (* the peer may send a RST                                  *)

ASSUME HttpAssumption ==
  /\ MaxChunks \in Nat
  /\ QueueSize \in Nat \ {0}
  /\ CatSize \in Nat \ {0}
  /\ MayReset \in BOOLEAN

(* What a peer sends:                                                      *)
(*   "index", "cat", "missing"  a whole GET request with one header, for   *)
(*                      "/", for "/cat.jpg" and for an undefined path      *)
(*   "head", "tail"     the request line of "/", and the rest of a request *)
(*   "garbage"          neither                                            *)
Whole == {"index", "cat", "missing"}
Chunk == Whole \cup {"head", "tail", "garbage"}

VARIABLES
  (* the peer and the kernel *)
  peer,        (* "open", "fin", "rst", or "reset": the RST was reported   *)
  sent,        (* how many chunks the peer has sent                        *)
  rcv,         (* the socket's receive queue                               *)
  snd,         (* the socket's send queue                                  *)
  got,         (* what the peer has read                                   *)
  interest,    (* what epoll watches, edge-triggered                       *)
  ready,       (* on epoll's ready list                                    *)
  (* Connection *)
  readBuffer,
  sendBuffer,
  state_,
  close_after_write_,
  context,     (* HttpContext: the parser's state_ and the url it has      *)
  timer,       (* an auto-close timer is pending                           *)
  closed,      (* deleteConnection has run                                 *)
  (* the loop thread *)
  pc,
  revents,
  finished,    (* what noBlockedSend returned                              *)
  (* history *)
  queued       (* everything that was put into sendBuffer                  *)

kernelVars == <<peer, sent, rcv, snd, got, interest, ready>>
connVars == <<readBuffer, sendBuffer, state_, close_after_write_, context,
              timer, closed>>
vars == <<kernelVars, connVars, pc, revents, finished, queued>>

Start == [state |-> "START", url |-> "none"]

Init ==
  /\ peer = "open"
  /\ sent = 0
  /\ rcv = <<>>
  /\ snd = <<>>
  /\ got = <<>>
  /\ interest = {"in"}
  /\ ready = FALSE
  /\ readBuffer = <<>>
  /\ sendBuffer = <<>>
  /\ state_ = "Connected"
  /\ close_after_write_ = FALSE
  /\ context = Start
  /\ timer = FALSE
  /\ closed = FALSE
  /\ pc = "poll"
  /\ revents = {}
  /\ finished = FALSE
  /\ queued = <<>>

-----------------------------------------------------------------------------
(* The kernel. *)

Readable == rcv # <<>> \/ peer # "open"
Writable == Len(snd) < QueueSize \/ peer \in {"rst", "reset"}

(* What epoll reports of what is watched. *)
Polled(watched) ==
  {ev \in watched : \/ ev = "in" /\ Readable
                    \/ ev = "out" /\ Writable}

(* The peer. Nothing arrives once the server has closed the socket. *)
PeerSends(chunk) ==
  /\ peer = "open"
  /\ pc # "done"
  /\ sent < MaxChunks
  /\ sent' = sent + 1
  /\ rcv' = Append(rcv, chunk)
  /\ ready' = TRUE
  /\ UNCHANGED <<peer, snd, got, interest, connVars, pc, revents, finished,
                 queued>>

PeerReads ==
  /\ peer \in {"open", "fin"}
  /\ snd # <<>>
  /\ got' = Append(got, Head(snd))
  /\ snd' = Tail(snd)
  /\ ready' = (ready \/ "out" \in interest)
  /\ UNCHANGED <<peer, sent, rcv, interest, connVars, pc, revents, finished,
                 queued>>

(* The peer shuts its side down, or resets the connection. *)
PeerCloses ==
  /\ pc # "done"
  /\ \/ peer = "open" /\ peer' = "fin"
     \/ peer \in {"open", "fin"} /\ MayReset /\ peer' = "rst"
  /\ ready' = TRUE
  /\ UNCHANGED <<sent, rcv, snd, got, interest, connVars, pc, revents,
                 finished, queued>>

-----------------------------------------------------------------------------
(* HttpContext::ParaseRequest, on a chunk. Whatever follows a request in    *)
(* the same buffer becomes its body. The loop also reads the NUL behind the *)
(* buffer, which only matters when there is nothing before it.              *)
Parse(ctx, chunk) ==
  CASE ctx.state = "START" /\ chunk \in Whole ->
         [state |-> "COMPLETE", url |-> chunk]
    [] ctx.state = "START" /\ chunk = "head" ->
         [state |-> "HEADER_KEY", url |-> "index"]
    [] ctx.state = "START" /\ chunk \in {"tail", "garbage"} ->
         [state |-> "kINVALID", url |-> "none"]
    [] ctx.state = "HEADER_KEY" /\ chunk \in Whole \cup {"tail"} ->
         [ctx EXCEPT !.state = "COMPLETE"]
    [] OTHER -> ctx

ParaseRequest(ctx, buffer) ==
  IF buffer = <<>> /\ ctx.state = "START"
    THEN [state |-> "kINVALID", url |-> "none"]
    ELSE FoldLeft(Parse, ctx, buffer)

(* HttpResponse::message and the 400 response, as units: n is their number. *)
Message(url, n) == [i \in 1 .. IF url = "cat" THEN CatSize ELSE 1 |-> n]

(* HttpResponseCallback asks for closing with its 404 response. *)
IsCloseConnection(url) == url = "missing"

Answers == IF queued = <<>> THEN 0 ELSE Last(queued)

-----------------------------------------------------------------------------
(* The loop thread. *)

(* Mistake (AnsweredOnlyIfAsked): the read callback runs for every event.   *)
DispatchReads(evs) ==
  \/ evs # {} /\ pc' = "recv" /\ revents' = evs \ {"in"}
  \/ evs = {} /\ pc' = "finish" /\ revents' = {}

(* channel::handleEventByCallBack: the read callback, then the write one.   *)
(* With nothing (left) to call, the event is over.                          *)
Dispatch(evs) ==
  \/ "in" \in evs /\ pc' = "recv" /\ revents' = evs \ {"in"}
  \/ "in" \notin evs /\ "out" \in evs /\ pc' = "send" /\ revents' = {}
  \/ evs = {} /\ pc' = "finish" /\ revents' = {}

(* epoll::poll returns the connection if something watched is there. *)
Poll ==
  /\ pc = "poll"
  /\ ready
  /\ ready' = FALSE
  /\ Dispatch(Polled(interest))
  /\ UNCHANGED <<peer, sent, rcv, snd, got, interest, connVars, finished,
                 queued>>

(* TimeQueue::handleRead runs ActiveCloseConn, and the connection is idle:  *)
(* the timerfd comes alone, or in one batch with the connection, before it  *)
(* or after it.                                                             *)
ActiveCloseConn ==
  /\ timer
  /\ state_ = "Connected"
  /\ \/ /\ pc \in {"poll", "finish"}
        /\ UNCHANGED <<ready, revents>>
     \/ /\ pc = "poll"
        /\ ready
        /\ ready' = FALSE
        /\ revents' = Polled(interest)
  /\ timer' = FALSE
  /\ pc' = "close"
  /\ UNCHANGED <<peer, sent, rcv, snd, got, interest, readBuffer, sendBuffer,
                 state_, close_after_write_, context, closed, finished,
                 queued>>

(* recv0, and HttpOnMessage when the connection is no longer connected. It  *)
(* reads until EAGAIN, end of stream or an error.                           *)
Recv0 ==
  /\ pc = "recv"
  /\ readBuffer' = rcv
  /\ rcv' = <<>>
  /\ state_' = CASE peer = "open" -> state_
                 [] peer = "fin"  -> "Closed"
                 [] OTHER         -> "Failed"
  /\ peer' = IF peer = "rst" THEN "reset" ELSE peer
  /\ pc' = IF state_' = "Connected" THEN "message" ELSE "close"
  /\ UNCHANGED <<sent, snd, got, interest, ready, sendBuffer,
                 close_after_write_, context, timer, closed, revents,
                 finished, queued>>

(* HttpOnMessage after recv0, and OnRequest: parse and append the response. *)
(* ResetContextStatus comes after send0 in the code; only the parser reads  *)
(* what it resets.                                                          *)
HttpOnMessage ==
  LET ctx      == ParaseRequest(context, readBuffer)
      complete == ctx.state = "COMPLETE"
      closing  == complete => IsCloseConnection(ctx.url)
      message  == Message(IF complete THEN ctx.url ELSE "none", Answers + 1)
  IN
  /\ pc = "message"
  /\ timer' = TRUE
  /\ sendBuffer' = sendBuffer \o message
  /\ queued' = queued \o message
  /\ close_after_write_' = closing
  /\ context' = IF closing THEN ctx ELSE Start
  /\ pc' = "send"
  /\ UNCHANGED <<kernelVars, readBuffer, state_, closed, revents, finished>>

(* Mistake (AnswersIntact): what send did not take is retrieved too. *)
NoBlockedSendAll ==
  LET room == QueueSize - Len(snd)
      n    == Min({Len(sendBuffer), room})
  IN
  /\ pc = "send"
  /\ \/ /\ sendBuffer = <<>>
        /\ finished' = TRUE
        /\ pc' = "sent"
        /\ UNCHANGED <<peer, snd, sendBuffer, state_>>
     \/ /\ sendBuffer # <<>>
        /\ peer \in {"open", "fin"}
        /\ snd' = snd \o SubSeq(sendBuffer, 1, n)
        /\ sendBuffer' = <<>>
        /\ finished' = (sendBuffer' = <<>>)
        /\ pc' = "sent"
        /\ UNCHANGED <<peer, state_>>
     \/ /\ sendBuffer # <<>>
        /\ peer = "rst"
        /\ peer' = "reset"
        /\ state_' = "Failed"
        /\ finished' = FALSE
        /\ pc' = "sent"
        /\ UNCHANGED <<snd, sendBuffer>>
     \/ /\ sendBuffer # <<>>
        /\ peer = "reset"
        /\ pc' = "killed"
        /\ UNCHANGED <<peer, snd, sendBuffer, state_, finished>>
  /\ UNCHANGED <<sent, rcv, got, interest, ready, readBuffer,
                 close_after_write_, context, timer, closed, revents, queued>>

(* noBlockedSend: one send takes what the queue has room for. After a RST   *)
(* it returns the error, unless recv has returned it: then it fails with    *)
(* EPIPE, and SIGPIPE ends the process.                                     *)
NoBlockedSend ==
  LET room == QueueSize - Len(snd)
      n    == Min({Len(sendBuffer), room})
  IN
  /\ pc = "send"
  /\ \/ /\ sendBuffer = <<>>
        /\ finished' = TRUE
        /\ pc' = "sent"
        /\ UNCHANGED <<peer, snd, sendBuffer, state_>>
     \/ /\ sendBuffer # <<>>
        /\ peer \in {"open", "fin"}
        /\ snd' = snd \o SubSeq(sendBuffer, 1, n)
        /\ sendBuffer' = SubSeq(sendBuffer, n + 1, Len(sendBuffer))
        /\ finished' = (sendBuffer' = <<>>)
        /\ pc' = "sent"
        /\ UNCHANGED <<peer, state_>>
     \/ /\ sendBuffer # <<>>
        /\ peer = "rst"
        /\ peer' = "reset"
        /\ state_' = "Failed"
        /\ finished' = FALSE
        /\ pc' = "sent"
        /\ UNCHANGED <<snd, sendBuffer>>
     \/ /\ sendBuffer # <<>>
        /\ peer = "reset"
        /\ pc' = "killed"
        /\ UNCHANGED <<peer, snd, sendBuffer, state_, finished>>
  /\ UNCHANGED <<sent, rcv, got, interest, ready, readBuffer,
                 close_after_write_, context, timer, closed, revents, queued>>

(* EPOLL_CTL_MOD: epoll looks at the socket again. *)
UpdateChannel(events) ==
  /\ interest' = events
  /\ ready' = (Polled(events) # {})

(* Mistake (NoLostEdge, OutputDrains): unfinished output does not ask for   *)
(* EPOLLOUT.                                                                *)
Send0Forgets ==
  /\ pc = "sent"
  /\ \/ /\ state_ # "Connected"
        /\ pc' = "close"
        /\ UNCHANGED <<interest, ready, close_after_write_, revents>>
     \/ /\ state_ = "Connected"
        /\ ~finished
        /\ Dispatch(revents)
        /\ UNCHANGED <<interest, ready, close_after_write_>>
     \/ /\ state_ = "Connected"
        /\ finished
        /\ UpdateChannel({"in"})
        /\ close_after_write_' = FALSE
        /\ \/ close_after_write_ /\ pc' = "close" /\ UNCHANGED revents
           \/ ~close_after_write_ /\ Dispatch(revents)
  /\ UNCHANGED <<peer, sent, rcv, snd, got, readBuffer, sendBuffer, state_,
                 context, timer, closed, finished, queued>>

(* Mistake (ClosesAfterSending): close_after_write_ counts whether or not   *)
(* everything was sent.                                                     *)
Send0Closes ==
  /\ pc = "sent"
  /\ \/ /\ state_ # "Connected"
        /\ pc' = "close"
        /\ UNCHANGED <<interest, ready, close_after_write_, revents>>
     \/ /\ state_ = "Connected"
        /\ ~finished
        /\ ~close_after_write_
        /\ UpdateChannel(interest \cup {"out"})
        /\ Dispatch(revents)
        /\ UNCHANGED close_after_write_
     \/ /\ state_ = "Connected"
        /\ finished \/ close_after_write_
        /\ UpdateChannel({"in"})
        /\ close_after_write_' = FALSE
        /\ \/ close_after_write_ /\ pc' = "close" /\ UNCHANGED revents
           \/ ~close_after_write_ /\ Dispatch(revents)
  /\ UNCHANGED <<peer, sent, rcv, snd, got, readBuffer, sendBuffer, state_,
                 context, timer, closed, finished, queued>>

(* The rest of send0. *)
Send0 ==
  /\ pc = "sent"
  /\ \/ /\ state_ # "Connected"
        /\ pc' = "close"
        /\ UNCHANGED <<interest, ready, close_after_write_, revents>>
     \/ /\ state_ = "Connected"
        /\ ~finished
        /\ UpdateChannel(interest \cup {"out"})
        /\ Dispatch(revents)
        /\ UNCHANGED close_after_write_
     \/ /\ state_ = "Connected"
        /\ finished
        /\ UpdateChannel({"in"})
        /\ close_after_write_' = FALSE
        /\ \/ close_after_write_ /\ pc' = "close" /\ UNCHANGED revents
           \/ ~close_after_write_ /\ Dispatch(revents)
  /\ UNCHANGED <<peer, sent, rcv, snd, got, readBuffer, sendBuffer, state_,
                 context, timer, closed, finished, queued>>

(* close0: deleteConnection does nothing the second time. *)
Close0 ==
  /\ pc = "close"
  /\ closed' = TRUE
  /\ Dispatch(revents)
  /\ UNCHANGED <<kernelVars, readBuffer, sendBuffer, state_,
                 close_after_write_, context, timer, finished, queued>>

(* The event is over; DoToDolist destroys the connection if it was closed:  *)
(* the socket is closed, what is in its send queue may still be read.       *)
DoToDolist ==
  /\ pc = "finish"
  /\ \/ /\ ~closed
        /\ pc' = "poll"
        /\ UNCHANGED <<rcv, interest, ready, timer>>
     \/ /\ closed
        /\ pc' = "done"
        /\ rcv' = <<>>
        /\ interest' = {}
        /\ ready' = FALSE
        /\ timer' = FALSE
  /\ UNCHANGED <<peer, sent, snd, got, readBuffer, sendBuffer, state_,
                 close_after_write_, context, closed, revents, finished,
                 queued>>

-----------------------------------------------------------------------------

PeerStep == (\E chunk \in Chunk : PeerSends(chunk)) \/ PeerReads \/ PeerCloses

LoopStep ==
  \/ Poll
  \/ Recv0
  \/ HttpOnMessage
  \/ NoBlockedSend
  \/ Send0
  \/ Close0
  \/ DoToDolist

Next == PeerStep \/ LoopStep \/ ActiveCloseConn

Spec == Init /\ [][Next]_vars

(* The loop is scheduled, and a peer that is there reads what it is sent.   *)
(* No fairness makes the idle timer expire.                                 *)
Fairness == WF_vars(LoopStep) /\ WF_vars(PeerReads)

FairSpec == Spec /\ Fairness

-----------------------------------------------------------------------------
(* What must hold. *)

Unit == Nat \ {0}

(* Type invariant. *)
TypeOK ==
  /\ peer \in {"open", "fin", "rst", "reset"}
  /\ sent \in 0 .. MaxChunks
  /\ rcv \in Seq(Chunk)
  /\ snd \in Seq(Unit)
  /\ got \in Seq(Unit)
  /\ interest \in SUBSET {"in", "out"}
  /\ ready \in BOOLEAN
  /\ readBuffer \in Seq(Chunk)
  /\ sendBuffer \in Seq(Unit)
  /\ state_ \in {"Connected", "Closed", "Failed"}
  /\ close_after_write_ \in BOOLEAN
  /\ context \in
       [state : {"START", "HEADER_KEY", "COMPLETE", "kINVALID"},
        url   : Whole \cup {"none"}]
  /\ timer \in BOOLEAN
  /\ closed \in BOOLEAN
  /\ pc \in {"poll", "recv", "message", "send", "sent", "close", "finish",
             "done", "killed"}
  /\ revents \in SUBSET {"in", "out"}
  /\ finished \in BOOLEAN
  /\ queued \in Seq(Unit)

(* The peer reads the responses in the order they were made, whole, none    *)
(* twice, however they were cut by partial writes (Connection.cpp:143-166). *)
AnswersIntact == got \o snd \o sendBuffer = queued

(* The loop sleeps in epoll_wait with an edge-triggered descriptor: what is *)
(* there to read, and room for what is there to write, has the connection   *)
(* on the ready list, for no other edge may come.                           *)
NoLostEdge ==
  pc = "poll" =>
    /\ Readable => ready
    /\ sendBuffer # <<>> => "out" \in interest
    /\ sendBuffer # <<>> /\ Writable => ready

(* Nothing is answered that was not asked: no event makes the parser look   *)
(* at an empty buffer, which it would take for a bad request.               *)
AnsweredOnlyIfAsked == Answers <= sent - Len(rcv)

(* A connection that closes on its own accord (not the peer's, not the idle *)
(* timer's) has sent everything first (requirements.md 3.3).                *)
ClosesAfterSending ==
  [][closed' /\ ~closed /\ state_ = "Connected" /\ timer
       => sendBuffer = <<>>]_vars

(* What is in the send buffer gets to the peer's socket as the peer reads,  *)
(* unless the connection ends.                                              *)
OutputDrains ==
  (sendBuffer # <<>>) ~> (sendBuffer = <<>> \/ closed \/ pc = "killed")

(* requirements.md:60, a response that asks for closing is followed by the  *)
(* close once it is sent: the wish is only taken back by carrying it out.   *)
CloseIsCarriedOut ==
  [][close_after_write_ /\ ~close_after_write_' => pc' = "close"]_vars

(* requirements.md:91, a peer that goes away does not end the process. *)
PeerCannotKill == pc # "killed"
=============================================================================
