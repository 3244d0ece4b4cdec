-------------------------- MODULE ThreadPoolProofs --------------------------
(***************************************************************************)
(* Proofs about ThreadPool, for any number of requests and workers and any  *)
(* size of the queue.                                                       *)
(***************************************************************************)
EXTENDS ThreadPool, FiniteSetTheorems, TLAPS

(* Who is running has a request, who is not has none. *)
BusyHasRequest ==
  \A w \in Worker : worker[w] = "run" => request[w] \in Request

Locking == {w \in Worker : worker[w] = "lock"}

PoolInv ==
  /\ TypeOK
  /\ BusyHasRequest
  /\ OnePlace
  /\ posting \subseteq accepted
  /\ NoRequestStranded

-----------------------------------------------------------------------------
(* Facts about queues and counts. *)

(* Appending to a queue adds the request to what is queued, at the end.     *)
LEMMA QueuedAppend ==
  ASSUME NEW q \in Seq(Request), NEW r \in Request
  PROVE  /\ Append(q, r) \in Seq(Request)
         /\ Len(Append(q, r)) = Len(q) + 1
         /\ \A i \in DOMAIN Append(q, r) :
              Append(q, r)[i] = IF i = Len(q) + 1 THEN r ELSE q[i]
         /\ DOMAIN Append(q, r) = DOMAIN q \cup {Len(q) + 1}
         /\ DOMAIN q = 1 .. Len(q)
         /\ DOMAIN Append(q, r) = 1 .. Len(q) + 1
         /\ Len(q) \in Nat
  OBVIOUS

(* Taking the head leaves the others, one place further to the front.       *)
LEMMA QueuedTail ==
  ASSUME NEW q \in Seq(Request), q # <<>>
  PROVE  /\ Head(q) = q[1]
         /\ Head(q) \in Request
         /\ Tail(q) \in Seq(Request)
         /\ Len(q) \in Nat \ {0}
         /\ Len(Tail(q)) = Len(q) - 1
         /\ DOMAIN Tail(q) = 1 .. Len(q) - 1
         /\ DOMAIN q = 1 .. Len(q)
         /\ \A i \in 1 .. Len(q) - 1 : Tail(q)[i] = q[i + 1]
  OBVIOUS

(* The sets that are counted are finite. *)
LEMMA Finite ==
  ASSUME PoolAssumption, TypeOK
  PROVE  /\ IsFiniteSet(posting) /\ Cardinality(posting) \in Nat
         /\ IsFiniteSet(Locking) /\ Cardinality(Locking) \in Nat
<1>1. IsFiniteSet(posting) /\ IsFiniteSet(Locking)
  BY FS_Subset DEF PoolAssumption, TypeOK, Locking
<1> QED
  BY <1>1, FS_CardinalityType

(* A set with one element more, or one less. *)
LEMMA OneMore ==
  ASSUME NEW S, IsFiniteSet(S), NEW x, x \notin S
  PROVE  /\ IsFiniteSet(S \cup {x})
         /\ Cardinality(S \cup {x}) = Cardinality(S) + 1
  BY FS_AddElement

LEMMA OneLess ==
  ASSUME NEW S, IsFiniteSet(S), NEW x \in S
  PROVE  /\ IsFiniteSet(S \ {x})
         /\ Cardinality(S \ {x}) = Cardinality(S) - 1
  BY FS_RemoveElement

-----------------------------------------------------------------------------
(* Types. *)

LEMMA TypeInit == Init => TypeOK /\ BusyHasRequest
  BY DEF Init, TypeOK, BusyHasRequest

LEMMA TypeStep ==
  ASSUME TypeOK, BusyHasRequest, [Next]_vars
  PROVE  TypeOK' /\ BusyHasRequest'
<1> USE DEF TypeOK, BusyHasRequest
<1>1. ASSUME NEW r \in Request, Push(r) PROVE TypeOK' /\ BusyHasRequest'
  BY <1>1, QueuedAppend DEF Push
<1>2. ASSUME NEW r \in Request, Refuse(r) PROVE TypeOK' /\ BusyHasRequest'
  BY <1>2 DEF Refuse
<1>3. ASSUME NEW r \in Request, Post(r) PROVE TypeOK' /\ BusyHasRequest'
  BY <1>3 DEF Post
<1>4. ASSUME NEW w \in Worker, Wait(w) PROVE TypeOK' /\ BusyHasRequest'
  BY <1>4 DEF Wait, At
<1>5. ASSUME NEW w \in Worker, Interrupted(w) PROVE TypeOK' /\ BusyHasRequest'
  BY <1>5 DEF Interrupted, At
<1>6. ASSUME NEW w \in Worker, Take(w) PROVE TypeOK' /\ BusyHasRequest'
  BY <1>6, QueuedTail DEF Take, At
<1>7. ASSUME NEW w \in Worker, TakeNothing(w) PROVE TypeOK' /\ BusyHasRequest'
  BY <1>7 DEF TakeNothing, At
<1>8. ASSUME NEW w \in Worker, Return(w) PROVE TypeOK' /\ BusyHasRequest'
  BY <1>8 DEF Return, At
<1>9. CASE UNCHANGED vars
  BY <1>9 DEF vars
<1> QED
  BY <1>1, <1>2, <1>3, <1>4, <1>5, <1>6, <1>7, <1>8, <1>9 DEF Next, Run

-----------------------------------------------------------------------------
(* Each request in one place. *)

LEMMA PlaceInit == Init => OnePlace /\ posting \subseteq accepted
  BY DEF Init, OnePlace, Queued, Running

LEMMA PlaceStep ==
  ASSUME TypeOK, BusyHasRequest, OnePlace, posting \subseteq accepted,
         [Next]_vars
  PROVE  OnePlace' /\ (posting \subseteq accepted)'
<1> USE DEF TypeOK, BusyHasRequest, OnePlace
<1> DEFINE Goal == OnePlace' /\ (posting \subseteq accepted)'
<1>1. ASSUME NEW r \in Request, Push(r) PROVE Goal
  <2>1. Queued' = Queued \cup {r}
    BY <1>1, QueuedAppend DEF Push, Queued
  <2>2. Running' = Running
    BY <1>1 DEF Push, Running
  <2>3. r \notin Queued
    BY <1>1 DEF Push
  <2>4. \A i, j \in DOMAIN request_queue' :
          request_queue'[i] = request_queue'[j] => i = j
    BY <1>1, <2>3, QueuedAppend DEF Push, Queued
  <2>5. /\ r \notin Running /\ r \notin finished /\ r \notin refused
        /\ accepted' = accepted \cup {r} /\ posting' = posting \cup {r}
        /\ UNCHANGED <<worker, request, refused, finished>>
    BY <1>1 DEF Push
  <2>6. /\ (accepted = Queued \cup Running \cup finished)'
        /\ (accepted \cap refused = {})'
        /\ (Queued \cap Running = {})'
        /\ (Queued \cap finished = {})'
        /\ (Running \cap finished = {})'
        /\ (posting \subseteq accepted)'
    BY <2>1, <2>2, <2>5
  <2>7. \A u, v \in Worker :
          worker'[u] = "run" /\ worker'[v] = "run"
            /\ request'[u] = request'[v] => u = v
    BY <2>5
  <2> QED
    BY <2>4, <2>6, <2>7
<1>2. ASSUME NEW r \in Request, Refuse(r) PROVE Goal
  BY <1>2 DEF Refuse, Queued, Running
<1>3. ASSUME NEW r \in Request, Post(r) PROVE Goal
  <2>1. UNCHANGED <<request_queue, worker, request, accepted, refused, finished>>
        /\ posting' \subseteq posting
    BY <1>3 DEF Post
  <2>2. Running' = Running /\ Queued' = Queued
    BY <2>1 DEF Running, Queued
  <2> QED
    BY <2>1, <2>2
<1>4. ASSUME NEW w \in Worker,
             Wait(w) \/ Interrupted(w) \/ TakeNothing(w)
      PROVE  Goal
  <2>1. \A v \in Worker : (worker[v] = "run")' <=> worker[v] = "run"
    BY <1>4 DEF Wait, Interrupted, TakeNothing, At
  <2>2. UNCHANGED <<request_queue, request, accepted, refused, finished, posting>>
    BY <1>4 DEF Wait, Interrupted, TakeNothing
  <2>3. Running' = Running /\ Queued' = Queued
    BY <2>1, <2>2 DEF Running, Queued
  <2> QED
    BY <2>1, <2>2, <2>3
<1>5. ASSUME NEW w \in Worker, Take(w) PROVE Goal
  <2> DEFINE r == Head(request_queue)
  <2>1. /\ r \in Queued
        /\ Queued' = Queued \ {r}
        /\ \A i, j \in DOMAIN request_queue' :
             request_queue'[i] = request_queue'[j] => i = j
    <3>1. /\ request_queue \in Seq(Request) /\ request_queue # <<>>
          /\ request_queue' = Tail(request_queue)
      BY <1>5 DEF Take
    <3>2. \A i \in DOMAIN request_queue \ {1} : request_queue[i] # r
      BY <3>1, QueuedTail
    <3>3. \A x : x \in Queued' <=> x \in Queued \ {r}
      <4>1. ASSUME NEW x \in Queued' PROVE x \in Queued \ {r}
        <5>1. PICK i \in 1 .. Len(request_queue) - 1 :
                x = request_queue[i + 1]
          BY <3>1, <4>1, QueuedTail DEF Queued
        <5>2. i + 1 \in DOMAIN request_queue \ {1}
          BY <3>1, QueuedTail
        <5> QED
          BY <5>1, <5>2, <3>2 DEF Queued
      <4>2. ASSUME NEW x \in Queued \ {r} PROVE x \in Queued'
        <5>1. PICK i \in DOMAIN request_queue : x = request_queue[i]
          BY <4>2 DEF Queued
        <5>2. i # 1
          BY <3>1, <4>2, <5>1, QueuedTail
        <5>3. i - 1 \in 1 .. Len(request_queue) - 1
              /\ Tail(request_queue)[i - 1] = x
          BY <3>1, <5>1, <5>2, QueuedTail
        <5> QED
          BY <3>1, <5>3, QueuedTail DEF Queued
      <4> QED
        BY <4>1, <4>2
    <3>4. r \in Queued
      BY <3>1, QueuedTail DEF Queued
    <3>5. \A i, j \in DOMAIN request_queue' :
             request_queue'[i] = request_queue'[j] => i = j
      BY <3>1, QueuedTail
    <3> QED
      BY <3>3, <3>4, <3>5
  <2>2. Running' = Running \cup {r}
    BY <1>5 DEF Take, At, Running
  <2>3. \A u, v \in Worker :
          worker'[u] = "run" /\ worker'[v] = "run"
            /\ request'[u] = request'[v] => u = v
    BY <1>5, <2>1 DEF Take, At, Running
  <2>4. UNCHANGED <<accepted, refused, finished, posting>>
    BY <1>5 DEF Take
  <2> HIDE DEF r
  <2> QED
    BY <2>1, <2>2, <2>3, <2>4
<1>6. ASSUME NEW w \in Worker, Return(w) PROVE Goal
  <2>1. Running' = Running \ {request[w]}
    BY <1>6 DEF Return, At, Running
  <2>2. request[w] \in Running
    BY <1>6 DEF Return, Running
  <2>3. Queued' = Queued
    BY <1>6 DEF Return, Queued
  <2>4. \A u, v \in Worker :
          worker'[u] = "run" /\ worker'[v] = "run"
            /\ request'[u] = request'[v] => u = v
    BY <1>6 DEF Return, At
  <2> QED
    BY <1>6, <2>1, <2>2, <2>3, <2>4 DEF Return
<1>7. CASE UNCHANGED vars
  BY <1>7 DEF vars, Queued, Running
<1> QED
  BY <1>1, <1>2, <1>3, <1>4, <1>5, <1>6, <1>7 DEF Next, Run

-----------------------------------------------------------------------------
(* Somebody is on the way for each request. *)

LEMMA StrandedInit ==
  ASSUME PoolAssumption, Init
  PROVE  NoRequestStranded
<1>1. TypeOK
  BY TypeInit
<1> QED
  BY <1>1, Finite DEF Init, NoRequestStranded, Locking

LEMMA StrandedStep ==
  ASSUME PoolAssumption, TypeOK, NoRequestStranded, posting \subseteq accepted, [Next]_vars,
         TypeOK'
  PROVE  NoRequestStranded'
<1> DEFINE Count == sem0 + Cardinality(posting) + Cardinality(Locking)
<1>1. Len(request_queue) <= Count /\ Len(request_queue) \in Nat /\ Count \in Nat
  BY Finite DEF NoRequestStranded, Locking, TypeOK
<1>2. IsFiniteSet(Locking) /\ IsFiniteSet(posting)
  BY Finite
<1>3. Cardinality(posting) \in Nat /\ Cardinality(Locking) \in Nat /\ sem0 \in Nat
  BY Finite DEF TypeOK
<1> DEFINE Goal == Len(request_queue') <= sem0' + Cardinality(posting')
                                              + Cardinality(Locking')
<1>4. SUFFICES Goal
  BY DEF NoRequestStranded, Locking
<1>5. ASSUME NEW r \in Request, Push(r) PROVE Goal
  <2>1. Locking' = Locking /\ sem0' = sem0 /\ posting' = posting \cup {r}
    BY <1>5 DEF Push, Locking
  <2>2. r \notin posting
    BY <1>5 DEF Push
  <2>3. Cardinality(posting') = Cardinality(posting) + 1
    BY <1>2, <2>1, <2>2, OneMore
  <2>4. Len(request_queue') = Len(request_queue) + 1
    BY <1>5, QueuedAppend DEF Push, TypeOK
  <2> QED
    BY <1>1, <1>3, <2>1, <2>3, <2>4
<1>6. ASSUME NEW r \in Request, Refuse(r) PROVE Goal
  BY <1>1, <1>6 DEF Refuse, Locking
<1>7. ASSUME NEW r \in Request, Post(r) PROVE Goal
  <2>1. Locking' = Locking /\ sem0' = sem0 + 1 /\ posting' = posting \ {r}
        /\ request_queue' = request_queue
    BY <1>7 DEF Post, Locking
  <2>2. Cardinality(posting') = Cardinality(posting) - 1
    BY <1>2, <1>7, <2>1, OneLess DEF Post
  <2> QED
    BY <1>1, <1>3, <2>1, <2>2
<1>8. ASSUME NEW w \in Worker, Wait(w) \/ Interrupted(w) PROVE Goal
  <2>1. Locking' = Locking \cup {w} /\ w \notin Locking
    BY <1>8 DEF Wait, Interrupted, At, Locking, TypeOK
  <2>2. Cardinality(Locking') = Cardinality(Locking) + 1
    BY <1>2, <2>1, OneMore
  <2>3. sem0' >= sem0 - 1 /\ posting' = posting
        /\ request_queue' = request_queue
    BY <1>3, <1>8 DEF Wait, Interrupted
  <2>4. sem0' \in Nat
    BY DEF TypeOK
  <2> QED
    BY <1>1, <1>3, <2>2, <2>3, <2>4
<1>9. ASSUME NEW w \in Worker, Take(w) \/ TakeNothing(w) PROVE Goal
  <2>1. Locking' = Locking \ {w} /\ w \in Locking
    BY <1>9 DEF Take, TakeNothing, At, Locking, TypeOK
  <2>2. Cardinality(Locking') = Cardinality(Locking) - 1
    BY <1>2, <2>1, OneLess
  <2>3. sem0' = sem0 /\ posting' = posting
    BY <1>9 DEF Take, TakeNothing
  <2>4. CASE Take(w)
    <3>1. Len(request_queue') = Len(request_queue) - 1
      BY <2>4, QueuedTail DEF Take, TypeOK
    <3> QED
      BY <1>1, <1>3, <2>2, <2>3, <3>1
  <2>5. CASE TakeNothing(w)
    <3>1. Len(request_queue') = 0
      BY <2>5 DEF TakeNothing
    <3>2. Cardinality(Locking') \in Nat
      BY Finite, <2>2, <1>2, <2>1, OneLess, FS_CardinalityType
    <3> QED
      BY <1>3, <2>3, <3>1, <3>2
  <2> QED
    BY <1>9, <2>4, <2>5
<1>10. ASSUME NEW w \in Worker, Return(w) PROVE Goal
  <2>1. Locking' = Locking
    BY <1>10 DEF Return, At, Locking, TypeOK
  <2> QED
    BY <1>1, <1>10, <2>1 DEF Return
<1>11. CASE UNCHANGED vars
  BY <1>1, <1>11 DEF vars, Locking
<1> QED
  BY <1>5, <1>6, <1>7, <1>8, <1>9, <1>10, <1>11 DEF Next, Run

-----------------------------------------------------------------------------

(* The inductive invariant of the pool (ThreadPoll.h, append and run). *)
THEOREM PoolCorrect ==
  ASSUME PoolAssumption
  PROVE  Spec => []PoolInv
<1>1. Init => PoolInv
  BY TypeInit, PlaceInit, StrandedInit DEF PoolInv
<1>2. PoolInv /\ [Next]_vars => PoolInv'
  BY TypeStep, PlaceStep, StrandedStep DEF PoolInv
<1> QED
  BY <1>1, <1>2, PTL DEF Spec

(* A request that was accepted is in one place, and one worker runs it.     *)
THEOREM EachInOnePlace ==
  ASSUME PoolAssumption
  PROVE  Spec => []OnePlace
<1>1. PoolInv => OnePlace
  BY DEF PoolInv
<1> QED
  BY <1>1, PoolCorrect, PTL

(* No request stays in the queue with nobody to fetch it. *)
THEOREM NobodyStranded ==
  ASSUME PoolAssumption
  PROVE  Spec => []NoRequestStranded
<1>1. PoolInv => NoRequestStranded
  BY DEF PoolInv
<1> QED
  BY <1>1, PoolCorrect, PTL
=============================================================================
