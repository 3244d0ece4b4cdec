------------------------ MODULE HttpConnectionProofs ------------------------
(***************************************************************************)
(* Four properties of a connection for every number of chunks, every size  *)
(* of the socket's send queue and of a response: the responses reach the   *)
(* peer as they were made, no edge of the edge-triggered descriptor is     *)
(* lost, nothing is answered that was not asked, and a connection that     *)
(* closes of its own accord has sent everything.                           *)
(***************************************************************************)
EXTENDS HttpConnection, SequenceTheorems, TLAPS

-----------------------------------------------------------------------------
(* The responses. *)

(* Partial writes fit the socket's send queue. *)
AnswersInv ==
  /\ got \in Seq(Unit)
  /\ snd \in Seq(Unit)
  /\ sendBuffer \in Seq(Unit)
  /\ queued \in Seq(Unit)
  /\ Len(snd) <= QueueSize
  /\ AnswersIntact

answerVars == <<got, snd, sendBuffer, queued>>

(* The first byte of what lies in the socket goes to the peer. *)
LEMMA HeadMoves ==
  ASSUME NEW S, NEW s \in Seq(S), NEW t \in Seq(S), t # <<>>
  PROVE  /\ Append(s, Head(t)) \in Seq(S)
         /\ Tail(t) \in Seq(S)
         /\ Len(Tail(t)) = Len(t) - 1
         /\ Append(s, Head(t)) \o Tail(t) = s \o t
<1>1. /\ Head(t) \in S /\ Tail(t) \in Seq(S)
      /\ Len(Tail(t)) = Len(t) - 1
      /\ t = <<Head(t)>> \o Tail(t)
  <2>1. Head(t) \in S /\ Tail(t) \in Seq(S) /\ Len(Tail(t)) = Len(t) - 1
    BY HeadTailProperties
  <2>2. Len(t) \in Nat \ {0}
    BY EmptySeq
  <2>3. SubSeq(t, 1, Len(t)) = <<t[1]>> \o SubSeq(t, 2, Len(t))
    BY <2>2, SubSeqRecursiveFirst
  <2>4. SubSeq(t, 1, Len(t)) = t /\ Tail(t) = SubSeq(t, 2, Len(t))
    BY SubSeqFull, TailIsSubSeq
  <2>5. Head(t) = t[1]
    BY <2>2
  <2> QED BY <2>1, <2>3, <2>4, <2>5
<1>2. Append(s, Head(t)) \in Seq(S) /\ Append(s, Head(t)) = s \o <<Head(t)>>
  BY <1>1, AppendProperties, AppendIsConcat
<1>3. <<Head(t)>> \in Seq(S)
  BY <1>1
<1>4. (s \o <<Head(t)>>) \o Tail(t) = s \o (<<Head(t)>> \o Tail(t))
  BY <1>1, <1>3, ConcatAssociative
<1> QED BY <1>1, <1>2, <1>4

(* A part of the buffer goes to the socket, the rest stays. *)
LEMMA PartMoves ==
  ASSUME NEW S, NEW s \in Seq(S), NEW t \in Seq(S), NEW n \in 0 .. Len(t)
  PROVE  /\ SubSeq(t, 1, n) \in Seq(S)
         /\ Len(SubSeq(t, 1, n)) = n
         /\ SubSeq(t, n + 1, Len(t)) \in Seq(S)
         /\ s \o SubSeq(t, 1, n) \in Seq(S)
         /\ Len(s \o SubSeq(t, 1, n)) = Len(s) + n
         /\ SubSeq(t, 1, n) \o SubSeq(t, n + 1, Len(t)) = t
<1> DEFINE a == SubSeq(t, 1, n)
           b == SubSeq(t, n + 1, Len(t))
<1>1. Len(t) \in Nat /\ n \in Nat /\ n <= Len(t)
  BY LenProperties
<1>2. \A i \in 1 .. Len(t) : t[i] \in S
  BY ElementOfSeq
<1>3. /\ a \in Seq(S)
      /\ Len(a) = n
      /\ \A i \in 1 .. n : a[i] = t[i]
  BY <1>1, <1>2, SubSeqProperties
<1>4. /\ b \in Seq(S)
      /\ Len(b) = Len(t) - n
      /\ \A i \in 1 .. Len(t) - n : b[i] = t[n + i]
  BY <1>1, <1>2, SubSeqProperties
<1> HIDE DEF a, b
<1>5. a \o b = t
  <2>1. /\ a \o b \in Seq(S)
        /\ Len(a \o b) = Len(t)
        /\ \A i \in 1 .. Len(t) :
             (a \o b)[i] = IF i <= n THEN a[i] ELSE b[i - n]
    BY <1>1, <1>3, <1>4, ConcatProperties
  <2>2. ASSUME NEW i \in 1 .. Len(t) PROVE (a \o b)[i] = t[i]
    <3>1. CASE i <= n
      BY <3>1, <2>1, <1>1, <1>3
    <3>2. CASE ~(i <= n)
      <4>1. i - n \in 1 .. Len(t) - n /\ n + (i - n) = i
        BY <3>2, <1>1
      <4> QED BY <3>2, <4>1, <2>1, <1>4
    <3> QED BY <3>1, <3>2
  <2> QED BY <2>1, <2>2, SeqEqual
<1>6. s \o a \in Seq(S) /\ Len(s \o a) = Len(s) + n
  BY <1>3, ConcatProperties
<1>7. /\ a \in Seq(S) /\ Len(a) = n /\ b \in Seq(S)
      /\ s \o a \in Seq(S)
      /\ Len(s \o a) = Len(s) + n
      /\ a \o b = t
  BY <1>3, <1>4, <1>5, <1>6, Zenon
<1> QED BY <1>7, Zenon DEF a, b

(* The same for the responses' units. *)
LEMMA UnitsAssociate ==
  \A s, t, u \in Seq(Unit) : (s \o t) \o u = s \o (t \o u)
<1> TAKE s, t, u \in Seq(Unit)
<1> QED BY ConcatAssociative

(* A part of a response moves behind what already lies in the socket. *)
LEMMA UnitsMove ==
  \A s, t \in Seq(Unit) : \A n \in 0 .. Len(t) :
     /\ SubSeq(t, n + 1, Len(t)) \in Seq(Unit)
     /\ s \o SubSeq(t, 1, n) \in Seq(Unit)
     /\ Len(s \o SubSeq(t, 1, n)) = Len(s) + n
     /\ (s \o SubSeq(t, 1, n)) \o SubSeq(t, n + 1, Len(t)) = s \o t
<1> TAKE s, t \in Seq(Unit)
<1> TAKE n \in 0 .. Len(t)
<1>1. /\ SubSeq(t, n + 1, Len(t)) \in Seq(Unit)
      /\ s \o SubSeq(t, 1, n) \in Seq(Unit)
  BY PartMoves
<1>2. Len(s \o SubSeq(t, 1, n)) = Len(s) + n
  BY PartMoves
<1>3. /\ SubSeq(t, 1, n) \in Seq(Unit)
      /\ SubSeq(t, 1, n) \o SubSeq(t, n + 1, Len(t)) = t
  <2>1. SubSeq(t, 1, n) \in Seq(Unit)
    BY PartMoves
  <2>2. SubSeq(t, 1, n) \o SubSeq(t, n + 1, Len(t)) = t
    BY PartMoves
  <2> QED BY <2>1, <2>2
<1>4. (s \o SubSeq(t, 1, n)) \o SubSeq(t, n + 1, Len(t)) = s \o t
  <2>1. \A a, b \in Seq(Unit) : a \o b = t => (s \o a) \o b = s \o t
    <3> TAKE a, b \in Seq(Unit)
    <3>1. (s \o a) \o b = s \o (a \o b)
      BY UnitsAssociate
    <3> QED BY <3>1
  <2>2. SubSeq(t, n + 1, Len(t)) \in Seq(Unit)
    BY <1>1
  <2> QED BY <1>3, <2>1, <2>2, Zenon
<1> QED BY <1>1, <1>2, <1>4

(* A new connection has no response. *)
LEMMA AnswersInit == Init => AnswersInv
<1> SUFFICES ASSUME Init PROVE AnswersInv
  OBVIOUS
<1>1. <<>> \in Seq(Unit) /\ Len(<<>>) = 0 /\ <<>> \o <<>> = <<>>
  BY EmptySeq, ConcatEmptySeq
<1> QED BY <1>1, HttpAssumption DEF Init, AnswersInv, AnswersIntact

(* The peer takes from the socket what was sent first. *)
LEMMA PeerReadsStep ==
  ASSUME AnswersInv, PeerReads
  PROVE  AnswersInv'
<1>1. /\ got' = Append(got, Head(snd)) /\ snd' = Tail(snd) /\ snd # <<>>
      /\ sendBuffer' = sendBuffer /\ queued' = queued
  BY DEF PeerReads, connVars
<1>2. /\ got' \in Seq(Unit) /\ snd' \in Seq(Unit)
      /\ Len(snd') = Len(snd) - 1
      /\ got' \o snd' = got \o snd
  BY <1>1, HeadMoves DEF AnswersInv
<1>3. Len(snd') <= QueueSize
  <2>1. Len(snd) \in Nat
    BY LenProperties DEF AnswersInv
  <2> QED BY <2>1, <1>2, HttpAssumption DEF AnswersInv
<1> QED BY <1>1, <1>2, <1>3 DEF AnswersInv, AnswersIntact

(* The number of responses is a number. *)
LEMMA AnswersNat ==
  ASSUME AnswersInv
  PROVE  Answers \in Nat
<1>1. CASE queued = <<>>
  BY <1>1 DEF Answers
<1>2. CASE queued # <<>>
  <2>1. Len(queued) \in 1 .. Len(queued)
    BY <1>2, EmptySeq, LenProperties DEF AnswersInv
  <2>2. queued[Len(queued)] \in Unit
    BY <2>1, ElementOfSeq DEF AnswersInv
  <2> QED BY <1>2, <2>2 DEF Answers, Last, Unit
<1> QED BY <1>1, <1>2

(* A response goes behind all others. *)
LEMMA MessageStep ==
  ASSUME AnswersInv, HttpOnMessage
  PROVE  AnswersInv'
<1>1. Answers \in Nat
  BY AnswersNat
<1>2. ASSUME NEW u PROVE Message(u, Answers + 1) \in Seq(Unit)
  <2>1. (IF u = "cat" THEN CatSize ELSE 1) \in Nat
    BY HttpAssumption
  <2>2. Answers + 1 \in Unit
    BY <1>1 DEF Unit
  <2> QED BY <2>1, <2>2 DEF Message
<1> DEFINE ctx == ParaseRequest(context, readBuffer)
           url == IF ctx.state = "COMPLETE" THEN ctx.url ELSE "none"
           m   == Message(url, Answers + 1)
<1>3. /\ m \in Seq(Unit)
      /\ sendBuffer' = sendBuffer \o m
      /\ queued' = queued \o m
  <2>1. m \in Seq(Unit)
    BY <1>2, Zenon
  <2>2. sendBuffer' = sendBuffer \o m /\ queued' = queued \o m
    BY Zenon DEF HttpOnMessage
  <2> QED BY <2>1, <2>2
<1> HIDE DEF m
<1>4. UNCHANGED <<got, snd>>
  BY DEF HttpOnMessage, kernelVars
<1>5. /\ got \o snd \in Seq(Unit)
      /\ sendBuffer' \in Seq(Unit)
      /\ queued' \in Seq(Unit)
  BY <1>3, ConcatProperties DEF AnswersInv
<1>6. ((got \o snd) \o sendBuffer) \o m = (got \o snd) \o (sendBuffer \o m)
  <2>1. /\ got \o snd \in Seq(Unit)
        /\ sendBuffer \in Seq(Unit)
        /\ m \in Seq(Unit)
    BY <1>3, <1>5 DEF AnswersInv
  <2> QED BY <2>1, UnitsAssociate
<1> QED BY <1>3, <1>4, <1>5, <1>6 DEF AnswersInv, AnswersIntact

(* send takes a part of the buffer, as long as the queue allows. *)
LEMMA SendStep ==
  ASSUME AnswersInv, NoBlockedSend
  PROVE  AnswersInv'
<1> DEFINE room == QueueSize - Len(snd)
           n    == Min({Len(sendBuffer), room})
<1>1. UNCHANGED <<got, queued>>
  BY DEF NoBlockedSend
<1>2. CASE UNCHANGED <<snd, sendBuffer>>
  BY <1>1, <1>2 DEF AnswersInv, AnswersIntact
<1>3. CASE /\ snd' = snd \o SubSeq(sendBuffer, 1, n)
           /\ sendBuffer' = SubSeq(sendBuffer, n + 1, Len(sendBuffer))
  <2>1. /\ Len(snd) \in Nat /\ Len(sendBuffer) \in Nat
        /\ room \in Nat /\ QueueSize \in Nat
    BY LenProperties, HttpAssumption DEF AnswersInv
  <2>2. n \in {Len(sendBuffer), room} /\ n <= Len(sendBuffer) /\ n <= room
    <3> DEFINE S == {Len(sendBuffer), room}
    <3>1. \E x \in S : \A y \in S : x <= y
      <4>1. CASE Len(sendBuffer) <= room
        BY <4>1, <2>1
      <4>2. CASE ~(Len(sendBuffer) <= room)
        BY <4>2, <2>1
      <4> QED BY <4>1, <4>2
    <3>2. Min(S) = CHOOSE x \in S : \A y \in S : x <= y
      BY Zenon DEF Min
    <3> HIDE DEF S
    <3>3. Min(S) \in S /\ \A y \in S : Min(S) <= y
      BY <3>1, <3>2, Zenon
    <3> QED BY <3>3, Zenon DEF S
  <2>3. n \in 0 .. Len(sendBuffer)
    BY <2>1, <2>2
  <2>4. Len(snd) + n <= QueueSize
    BY <2>1, <2>2
  <2> HIDE DEF n
  <2>5. /\ snd' \in Seq(Unit) /\ sendBuffer' \in Seq(Unit)
        /\ Len(snd') = Len(snd) + n
        /\ snd' \o sendBuffer' = snd \o sendBuffer
    <3> DEFINE a == SubSeq(sendBuffer, 1, n)
               b == SubSeq(sendBuffer, n + 1, Len(sendBuffer))
    <3>1. /\ snd \in Seq(Unit)
          /\ sendBuffer \in Seq(Unit)
          /\ n \in 0 .. Len(sendBuffer)
      BY <2>3 DEF AnswersInv
    <3>2. /\ b \in Seq(Unit)
          /\ snd \o a \in Seq(Unit)
          /\ Len(snd \o a) = Len(snd) + n
          /\ (snd \o a) \o b = snd \o sendBuffer
      BY <3>1, UnitsMove
    <3>3. snd' = snd \o a /\ sendBuffer' = b
      BY <1>3 DEF n
    <3> QED BY <3>2, <3>3, Zenon
  <2>6. /\ (got \o snd') \o sendBuffer' = got \o (snd' \o sendBuffer')
        /\ (got \o snd) \o sendBuffer = got \o (snd \o sendBuffer)
    <3>1. /\ got \in Seq(Unit) /\ snd \in Seq(Unit)
          /\ sendBuffer \in Seq(Unit)
          /\ snd' \in Seq(Unit) /\ sendBuffer' \in Seq(Unit)
      BY <2>5 DEF AnswersInv
    <3>2. (got \o snd) \o sendBuffer = got \o (snd \o sendBuffer)
      BY <3>1, UnitsAssociate
    <3>3. (got \o snd') \o sendBuffer' = got \o (snd' \o sendBuffer')
      BY <3>1, UnitsAssociate
    <3> QED BY <3>2, <3>3
  <2> QED BY <1>1, <2>4, <2>5, <2>6 DEF AnswersInv, AnswersIntact
<1> QED BY <1>2, <1>3 DEF NoBlockedSend

(* Nothing else touches a response. *)
LEMMA AnswersStep == AnswersInv /\ [Next]_vars => AnswersInv'
<1> SUFFICES ASSUME AnswersInv, [Next]_vars PROVE AnswersInv'
  OBVIOUS
<1>1. CASE PeerReads
  BY <1>1, PeerReadsStep
<1>2. CASE HttpOnMessage
  BY <1>2, MessageStep
<1>3. CASE NoBlockedSend
  BY <1>3, SendStep
<1>4. ASSUME UNCHANGED answerVars PROVE AnswersInv'
  BY <1>4 DEF answerVars, AnswersInv, AnswersIntact
<1>5. CASE (\E chunk \in Chunk : PeerSends(chunk)) \/ PeerCloses
  BY <1>5, <1>4 DEF PeerSends, PeerCloses, answerVars, connVars
<1>6. CASE Poll \/ Recv0 \/ Send0 \/ Close0 \/ DoToDolist \/ ActiveCloseConn
  BY <1>6, <1>4
  DEF Poll, Recv0, Send0, Close0, DoToDolist, ActiveCloseConn, answerVars,
      connVars, kernelVars
<1>7. CASE UNCHANGED vars
  BY <1>7, <1>4 DEF vars, answerVars, connVars, kernelVars
<1> QED BY <1>1, <1>2, <1>3, <1>5, <1>6, <1>7 DEF Next, PeerStep, LoopStep

(* AnswersIntact: what the peer has read, what lies in the socket and what  *)
(* is still buffered (Connection.cpp:131-167) are the responses in order.   *)
THEOREM AnswersArrive == Spec => []AnswersIntact
<1>1. AnswersInv => AnswersIntact
  BY DEF AnswersInv
<1> QED BY <1>1, AnswersInit, AnswersStep, PTL DEF Spec

-----------------------------------------------------------------------------
(* The edges. *)

(* The connection is on its way out. *)
Ending == closed \/ state_ # "Connected" \/ pc \in {"close", "done", "killed"}

(* Output is being dealt with: send0 follows. *)
Sending == pc \in {"recv", "message", "send", "sent"}

(* What the loop knows of the descriptor at every point of its round, not   *)
(* only when it sleeps.                                                     *)
EdgeInv ==
  /\ pc \in {"poll", "finish"} \/ Sending \/ Ending
  /\ pc = "poll" => ~Ending
  /\ Ending => closed \/ pc \in {"sent", "close", "done", "killed"}
  /\ ~Ending =>
       /\ "in" \in interest
       /\ Readable => ready \/ pc = "recv"
       /\ pc = "sent" => (finished <=> sendBuffer = <<>>)
       /\ sendBuffer # <<>> /\ pc \notin {"send", "sent"} => "out" \in interest
       /\ sendBuffer # <<>> /\ Writable => ready \/ Sending

(* At the start there is nothing to read and nothing to write. *)
LEMMA EdgeInit == Init => EdgeInv
BY DEF Init, EdgeInv, Ending, Sending, Readable, Writable

(* Whatever the peer does gives an edge, if it is watched. *)
LEMMA EdgePeer ==
  ASSUME EdgeInv, PeerStep
  PROVE  EdgeInv'
<1> USE DEF EdgeInv, Ending, Sending, connVars
<1>1. CASE \E chunk \in Chunk : PeerSends(chunk)
  BY <1>1 DEF PeerSends, Readable, Writable
<1>2. CASE PeerReads
  BY <1>2 DEF PeerReads, Readable, Writable
<1>3. CASE PeerCloses
  BY <1>3 DEF PeerCloses, Readable, Writable
<1> QED BY <1>1, <1>2, <1>3 DEF PeerStep

(* Poll takes the connection off the ready list: what it reports is dealt   *)
(* with in this round, and what it does not report was not there.           *)
LEMMA EdgePoll ==
  ASSUME EdgeInv, Poll
  PROVE  EdgeInv'
BY DEF Poll, Dispatch, Polled, EdgeInv, Ending, Sending, Readable, Writable,
       connVars

(* recv0 reads everything; the end of the stream ends the connection. *)
LEMMA EdgeRecv ==
  ASSUME EdgeInv, Recv0
  PROVE  EdgeInv'
BY DEF Recv0, EdgeInv, Ending, Sending, Readable, Writable

(* A response is buffered, and send0 comes next in this round. *)
LEMMA EdgeMessage ==
  ASSUME EdgeInv, HttpOnMessage
  PROVE  EdgeInv'
<1>1. /\ pc = "message" /\ pc' = "send"
      /\ UNCHANGED <<kernelVars, closed, state_>>
  BY DEF HttpOnMessage
<1> QED
  BY <1>1 DEF EdgeInv, Ending, Sending, Readable, Writable, kernelVars

(* What send leaves is still in this round of the loop: send0 goes on. *)
LEMMA EdgeSend ==
  ASSUME EdgeInv, NoBlockedSend
  PROVE  EdgeInv'
<1>1. /\ pc = "send"
      /\ UNCHANGED <<rcv, interest, ready, closed>>
  BY DEF NoBlockedSend
<1>2. \/ /\ pc' = "sent" /\ state_' = state_ /\ peer' = peer
         /\ finished' = TRUE /\ sendBuffer' = <<>>
      \/ /\ pc' = "sent" /\ state_' = state_ /\ peer' = peer
         /\ finished' = (sendBuffer' = <<>>)
      \/ pc' = "sent" /\ state_' = "Failed"
      \/ pc' = "killed"
  BY DEF NoBlockedSend
<1> QED
  BY <1>1, <1>2 DEF EdgeInv, Ending, Sending, Readable, Writable

(* send0 registers for what is left, and epoll looks at the socket again. *)
LEMMA EdgeSent ==
  ASSUME EdgeInv, Send0
  PROVE  EdgeInv'
<1> USE DEF EdgeInv, Ending, Sending
<1>1. /\ pc = "sent"
      /\ UNCHANGED <<peer, rcv, snd, sendBuffer, state_, closed>>
  BY DEF Send0
<1>2. CASE state_ # "Connected" \/ closed
  <2>1. pc' \in {"close", "recv", "send", "finish"}
    BY DEF Send0, Dispatch
  <2>2. closed \/ pc' = "close"
    BY <1>2 DEF Send0
  <2> QED BY <1>1, <2>1, <2>2
<1>3. CASE state_ = "Connected" /\ ~closed /\ ~finished
  <2>1. /\ UpdateChannel(interest \cup {"out"})
        /\ pc' \in {"recv", "send", "finish"}
    BY <1>3 DEF Send0, Dispatch
  <2> QED
    BY <1>1, <1>3, <2>1 DEF UpdateChannel, Polled, Readable, Writable
<1>4. CASE state_ = "Connected" /\ ~closed /\ finished
  <2>1. /\ UpdateChannel({"in"})
        /\ pc' \in {"close", "recv", "send", "finish"}
    BY <1>4 DEF Send0, Dispatch
  <2>2. sendBuffer = <<>>
    BY <1>1, <1>4
  <2> QED
    BY <1>1, <1>4, <2>1, <2>2 DEF UpdateChannel, Polled, Readable, Writable
<1> QED BY <1>2, <1>3, <1>4

(* With nothing left to call the round is over, and so is the closing. *)
LEMMA EdgeEnd ==
  ASSUME EdgeInv, Close0 \/ DoToDolist \/ ActiveCloseConn
  PROVE  EdgeInv'
<1> USE DEF EdgeInv, Ending, Sending
<1>1. CASE Close0
  <2>1. closed' /\ pc' \in {"recv", "send", "finish"}
    BY <1>1 DEF Close0, Dispatch
  <2> QED BY <2>1
<1>2. CASE DoToDolist
  BY <1>2 DEF DoToDolist, Readable, Writable
<1>3. CASE ActiveCloseConn
  <2>1. pc' = "close"
    BY <1>3 DEF ActiveCloseConn
  <2> QED BY <2>1
<1> QED BY <1>1, <1>2, <1>3

(* Every action keeps the invariant. *)
LEMMA EdgeStep == EdgeInv /\ [Next]_vars => EdgeInv'
<1> SUFFICES ASSUME EdgeInv, [Next]_vars PROVE EdgeInv'
  OBVIOUS
<1>1. CASE UNCHANGED vars
  BY <1>1
  DEF vars, kernelVars, connVars, EdgeInv, Ending, Sending, Readable, Writable
<1> QED
  BY <1>1, EdgePeer, EdgePoll, EdgeRecv, EdgeMessage, EdgeSend, EdgeSent,
     EdgeEnd
  DEF Next, LoopStep

(* NoLostEdge: partial sends, the registration of EPOLLOUT and its removal  *)
(* (Connection.cpp:174-194) never leave the loop asleep with something to   *)
(* do, however they meet the peer's reads and writes.                       *)
THEOREM NoEdgeLost == Spec => []NoLostEdge
<1>1. EdgeInv => NoLostEdge
  BY DEF EdgeInv, Ending, Sending, NoLostEdge
<1> QED BY <1>1, EdgeInit, EdgeStep, PTL DEF Spec

-----------------------------------------------------------------------------
(* The answers. *)

(* The read callback runs only when there is something to read: either the  *)
(* loop is about to call it, or the timer came first and close0 follows.    *)
AskedInv ==
  /\ sent \in Nat
  /\ rcv \in Seq(Chunk)
  /\ pc = "recv" => Readable
  /\ "in" \in revents => pc = "close" /\ Readable
  /\ pc = "message" => Answers + 1 <= sent - Len(rcv)
  /\ Answers <= sent - Len(rcv)

(* Nobody has asked and nobody was answered. *)
LEMMA AskedInit == Init => AskedInv
<1>1. <<>> \in Seq(Chunk) /\ Len(<<>>) = 0
  BY EmptySeq
<1> QED BY <1>1 DEF Init, AskedInv, Answers

(* One message of the code makes one response. *)
LEMMA OneAnswer ==
  ASSUME AnswersInv, HttpOnMessage
  PROVE  Answers' = Answers + 1
<1>1. Answers \in Nat
  BY AnswersNat
<1>2. ASSUME NEW u
      PROVE  /\ Message(u, Answers + 1) \in Seq(Unit)
             /\ Len(Message(u, Answers + 1)) \in Nat \ {0}
             /\ \A i \in 1 .. Len(Message(u, Answers + 1)) :
                  Message(u, Answers + 1)[i] = Answers + 1
  <2>1. (IF u = "cat" THEN CatSize ELSE 1) \in Nat \ {0}
    BY HttpAssumption
  <2>2. Answers + 1 \in Unit
    BY <1>1 DEF Unit
  <2> QED BY <2>1, <2>2 DEF Message
<1> DEFINE ctx == ParaseRequest(context, readBuffer)
           url == IF ctx.state = "COMPLETE" THEN ctx.url ELSE "none"
           m   == Message(url, Answers + 1)
<1>3. queued' = queued \o m
  BY Zenon DEF HttpOnMessage
<1>4. /\ m \in Seq(Unit)
      /\ Len(m) \in Nat \ {0}
      /\ \A i \in 1 .. Len(m) : m[i] = Answers + 1
  BY <1>2, Zenon
<1> HIDE DEF m
<1>5. /\ queued \in Seq(Unit)
      /\ Len(queued) \in Nat
  BY LenProperties DEF AnswersInv
<1>6. /\ Len(queued') = Len(queued) + Len(m)
      /\ queued'[Len(queued) + Len(m)] = m[Len(m)]
  BY <1>3, <1>4, <1>5
<1>7. queued' # <<>>
  BY <1>4, <1>5, <1>6
<1> QED BY <1>4, <1>6, <1>7 DEF Answers, Last

(* What the peer does only adds to what was asked. *)
LEMMA AskedPeer ==
  ASSUME AnswersInv, AskedInv, PeerStep
  PROVE  AskedInv'
<1> USE DEF AskedInv, Readable
<1>1. Answers' = Answers /\ pc' = pc /\ revents' = revents
  BY DEF PeerStep, PeerSends, PeerReads, PeerCloses, Answers
<1>2. CASE \E chunk \in Chunk : PeerSends(chunk)
  <2>1. PICK chunk \in Chunk : PeerSends(chunk)
    BY <1>2
  <2>2. /\ rcv' = Append(rcv, chunk)
        /\ sent' = sent + 1
    BY <2>1 DEF PeerSends
  <2>3. /\ rcv' \in Seq(Chunk)
        /\ Len(rcv') = Len(rcv) + 1
        /\ rcv' # <<>>
    BY <2>2, AppendProperties
  <2>4. Len(rcv) \in Nat /\ Answers \in Nat
    BY LenProperties, AnswersNat
  <2> QED BY <1>1, <2>2, <2>3, <2>4
<1>3. CASE PeerReads \/ PeerCloses
  <2>1. /\ rcv' = rcv /\ sent' = sent
        /\ peer # "open" => peer' # "open"
    BY <1>3 DEF PeerReads, PeerCloses
  <2> QED BY <1>1, <2>1
<1> QED BY <1>2, <1>3 DEF PeerStep

(* The loop calls the read callback for an event that is there. *)
LEMMA AskedRound ==
  ASSUME AskedInv, Poll \/ Send0 \/ Close0 \/ ActiveCloseConn
  PROVE  AskedInv'
<1>1. /\ UNCHANGED <<rcv, sent, peer, queued>>
      /\ Answers' = Answers
  BY DEF Poll, Send0, Close0, ActiveCloseConn, Answers, kernelVars
<1>2. /\ pc' = "recv" => Readable
      /\ pc' # "message"
      /\ "in" \in revents' => pc' = "close" /\ Readable
  <2>1. CASE Poll
    BY <2>1 DEF Poll, Dispatch, Polled, AskedInv
  <2>2. CASE Send0
    BY <2>2 DEF Send0, Dispatch, AskedInv
  <2>3. CASE Close0
    BY <2>3 DEF Close0, Dispatch, AskedInv
  <2>4. CASE ActiveCloseConn
    BY <2>4 DEF ActiveCloseConn, Polled, AskedInv
  <2> QED BY <2>1, <2>2, <2>3, <2>4
<1> QED BY <1>1, <1>2 DEF AskedInv, Readable

(* recv0 takes all that was asked; a connection that goes on had something. *)
LEMMA AskedRecv ==
  ASSUME AnswersInv, AskedInv, Recv0
  PROVE  AskedInv'
<1>1. /\ rcv' = <<>> /\ sent' = sent /\ Answers' = Answers
      /\ revents' = revents /\ pc = "recv"
      /\ pc' \in {"message", "close"}
      /\ pc' = "message" => peer = "open"
  BY DEF Recv0, Answers
<1>2. /\ Len(rcv) \in Nat /\ Answers \in Nat
      /\ rcv # <<>> => Len(rcv) # 0
      /\ <<>> \in Seq(Chunk) /\ Len(<<>>) = 0
  BY LenProperties, EmptySeq, AnswersNat DEF AskedInv
<1>3. "in" \notin revents
  BY <1>1 DEF AskedInv
<1>4. pc' = "message" => Len(rcv) # 0
  BY <1>1, <1>2 DEF AskedInv, Readable
<1> QED BY <1>1, <1>2, <1>3, <1>4 DEF AskedInv

(* The response, its sending and the end of the event. *)
LEMMA AskedRest ==
  ASSUME AnswersInv, AskedInv, HttpOnMessage \/ NoBlockedSend \/ DoToDolist
  PROVE  AskedInv'
<1>1. Len(rcv) \in Nat /\ Answers \in Nat
  BY LenProperties, AnswersNat DEF AskedInv
<1>2. CASE HttpOnMessage
  <2>1. /\ UNCHANGED <<rcv, sent, peer, revents>>
        /\ pc = "message" /\ pc' = "send"
    BY <1>2 DEF HttpOnMessage, kernelVars
  <2> QED BY <1>1, <1>2, <2>1, OneAnswer DEF AskedInv, Readable
<1>3. CASE NoBlockedSend
  <2>1. /\ UNCHANGED <<rcv, sent, revents, queued>>
        /\ pc = "send" /\ pc' \in {"sent", "killed"}
    BY <1>3 DEF NoBlockedSend
  <2> QED BY <1>1, <2>1 DEF AskedInv, Answers
<1>4. CASE DoToDolist
  <2>1. /\ UNCHANGED <<sent, revents, queued>>
        /\ pc = "finish" /\ pc' \in {"poll", "done"}
        /\ rcv' = rcv \/ rcv' = <<>>
    BY <1>4 DEF DoToDolist
  <2>2. <<>> \in Seq(Chunk) /\ Len(<<>>) = 0
    BY EmptySeq
  <2>3. /\ rcv' \in Seq(Chunk)
        /\ Len(rcv') \in Nat
        /\ Len(rcv') <= Len(rcv)
    <3>1. CASE rcv' = rcv
      BY <1>1, <3>1 DEF AskedInv
    <3>2. CASE rcv' = <<>>
      BY <1>1, <2>2, <3>2
    <3> QED BY <2>1, <3>1, <3>2
  <2>4. Answers' = Answers
    BY <2>1 DEF Answers
  <2>5. "in" \notin revents'
    BY <2>1 DEF AskedInv
  <2> QED BY <1>1, <2>1, <2>3, <2>4, <2>5 DEF AskedInv
<1> QED BY <1>2, <1>3, <1>4

(* Every action keeps the invariant. *)
LEMMA AskedStep == AnswersInv /\ AskedInv /\ [Next]_vars => AskedInv'
<1> SUFFICES ASSUME AnswersInv, AskedInv, [Next]_vars PROVE AskedInv'
  OBVIOUS
<1>1. CASE UNCHANGED vars
  BY <1>1 DEF vars, kernelVars, connVars, AskedInv, Readable, Answers
<1> QED
  BY <1>1, AskedPeer, AskedRound, AskedRecv, AskedRest DEF Next, LoopStep

(* AnsweredOnlyIfAsked: no order of events, timers and the peer's doings    *)
(* makes HttpOnMessage (HttpServer.cpp:55-90) answer an empty buffer.       *)
THEOREM OnlyAskedAnswered == Spec => []AnsweredOnlyIfAsked
<1>1. AskedInv => AnsweredOnlyIfAsked
  BY DEF AskedInv, AnsweredOnlyIfAsked
<1>2. AnswersInv /\ AskedInv /\ [Next]_vars => (AnswersInv /\ AskedInv)'
  BY AnswersStep, AskedStep
<1> QED BY <1>1, <1>2, AnswersInit, AskedInit, PTL DEF Spec

-----------------------------------------------------------------------------
(* The close. *)

(* close0 is about to run on the connection's own accord. *)
OwnAccord == pc = "close" /\ ~closed /\ state_ = "Connected" /\ timer

CloseInv == OwnAccord => sendBuffer = <<>>

(* Only send0 leads there, when it has finished. *)
LEMMA CloseStep == EdgeInv /\ CloseInv /\ [Next]_vars => CloseInv'
<1> SUFFICES ASSUME EdgeInv, CloseInv, [Next]_vars PROVE CloseInv'
  OBVIOUS
<1> USE DEF CloseInv, OwnAccord
<1>1. CASE PeerStep
  BY <1>1 DEF PeerStep, PeerSends, PeerReads, PeerCloses, connVars
<1>2. CASE Poll \/ Recv0 \/ ActiveCloseConn
  <2>1. pc' = "close" => state_' # "Connected" \/ ~timer'
    BY <1>2 DEF Poll, Dispatch, Recv0, ActiveCloseConn, connVars
  <2> QED BY <2>1
<1>3. CASE HttpOnMessage \/ NoBlockedSend \/ DoToDolist
  <2>1. pc' # "close"
    BY <1>3 DEF HttpOnMessage, NoBlockedSend, DoToDolist
  <2> QED BY <2>1
<1>4. CASE Close0
  <2>1. closed'
    BY <1>4 DEF Close0
  <2> QED BY <2>1
<1>5. CASE Send0
  <2>1. /\ pc = "sent"
        /\ UNCHANGED <<sendBuffer, state_, closed, timer>>
        /\ pc' = "close" => state_ # "Connected" \/ finished
    BY <1>5 DEF Send0, Dispatch
  <2>2. ~closed /\ state_ = "Connected" /\ finished => sendBuffer = <<>>
    BY <2>1 DEF EdgeInv, Ending
  <2> QED BY <2>1, <2>2
<1>6. CASE UNCHANGED vars
  BY <1>6 DEF vars, connVars
<1> QED
  BY <1>1, <1>2, <1>3, <1>4, <1>5, <1>6 DEF Next, LoopStep

(* ClosesAfterSending: a connection that closes of its own accord           *)
(* (Connection.cpp:174-194) has nothing left to send.                       *)
THEOREM SentBeforeClose == Spec => ClosesAfterSending
<1>1. Init => CloseInv
  BY DEF Init, CloseInv, OwnAccord
<1>2. CloseInv /\ [Next]_vars
        => [closed' /\ ~closed /\ state_ = "Connected" /\ timer
              => sendBuffer = <<>>]_vars
  <2> SUFFICES ASSUME CloseInv, Next, closed', ~closed,
                      state_ = "Connected", timer
               PROVE  sendBuffer = <<>>
    BY Zenon
  <2>1. CASE PeerStep
    BY <2>1 DEF PeerStep, PeerSends, PeerReads, PeerCloses, connVars
  <2>2. CASE Close0
    BY <2>2 DEF Close0, CloseInv, OwnAccord
  <2>3. CASE Poll \/ Recv0 \/ HttpOnMessage \/ NoBlockedSend \/ Send0
               \/ DoToDolist \/ ActiveCloseConn
    BY <2>3 DEF Poll, Recv0, HttpOnMessage, NoBlockedSend, Send0, DoToDolist,
       ActiveCloseConn, connVars
  <2> QED BY <2>1, <2>2, <2>3 DEF Next, LoopStep
<1> QED
  BY <1>1, <1>2, EdgeInit, EdgeStep, CloseStep, PTL
  DEF Spec, ClosesAfterSending
=============================================================================
