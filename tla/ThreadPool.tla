----------------------------- MODULE ThreadPool -----------------------------
(***************************************************************************)
(* Thread_pool: append puts a request into a queue under a lock and then    *)
(* posts a semaphore; each worker waits for the semaphore, takes a request  *)
(* under the lock and runs it. The push and the post are two steps, and so  *)
(* are the wait and the pop.                                                *)
(*                                                                         *)
(* A request is appended at most once, so that it can be followed. The      *)
(* workers exist from the start: one that has not been scheduled yet looks  *)
(* like one that waits.                                                     *)
(***************************************************************************)
EXTENDS Integers, Sequences, FiniteSets

CONSTANTS
  Request,
  Worker,           (* the threads of the pool                             *)
  NoRequest,        (* what a worker without a request runs                *)
  max_request_num

(* What a pool is made of. Who instantiates the module assumes it.          *)
PoolAssumption ==
  /\ IsFiniteSet(Request)
  /\ IsFiniteSet(Worker)
  /\ NoRequest \notin Request
  /\ max_request_num \in Nat \ {0}

VARIABLES
  request_queue,
  sem0,         (* the value of the semaphore                              *)
  posting,      (* pushed by an append that has not posted yet             *)
  worker,       (* where each worker is: "wait", "lock", "run"             *)
  request,      (* what it runs                                            *)
  accepted,     (* history: append returned true, or will                  *)
  refused,      (* history: append returned false                          *)
  finished      (* history: the request returned                           *)

vars == <<request_queue, sem0, posting, worker, request, accepted, refused,
          finished>>

Init ==
  /\ request_queue = <<>>
  /\ sem0 = 0
  /\ posting = {}
  /\ worker = [w \in Worker |-> "wait"]
  /\ request = [w \in Worker |-> NoRequest]
  /\ accepted = {}
  /\ refused = {}
  /\ finished = {}

-----------------------------------------------------------------------------
(* append. *)

Push(r) ==
  /\ r \notin accepted \cup refused
  /\ Len(request_queue) < max_request_num
  /\ request_queue' = Append(request_queue, r)
  /\ posting' = posting \cup {r}
  /\ accepted' = accepted \cup {r}
  /\ UNCHANGED <<sem0, worker, request, refused, finished>>

Refuse(r) ==
  /\ r \notin accepted \cup refused
  /\ Len(request_queue) >= max_request_num
  /\ refused' = refused \cup {r}
  /\ UNCHANGED <<request_queue, sem0, posting, worker, request, accepted,
                 finished>>

(* Mistake (NoRequestStranded): append returns without the post. *)
PostForgotten(r) ==
  /\ r \in posting
  /\ posting' = posting \ {r}
  /\ UNCHANGED <<request_queue, sem0, worker, request, accepted, refused,
                 finished>>

(* sem0.post, after the lock has been let go. *)
Post(r) ==
  /\ r \in posting
  /\ posting' = posting \ {r}
  /\ sem0' = sem0 + 1
  /\ UNCHANGED <<request_queue, worker, request, accepted, refused, finished>>

-----------------------------------------------------------------------------
(* run. *)

At(w, label) == worker' = [worker EXCEPT ![w] = label]

Wait(w) ==
  /\ worker[w] = "wait"
  /\ sem0 > 0
  /\ sem0' = sem0 - 1
  /\ At(w, "lock")
  /\ UNCHANGED <<request_queue, posting, request, accepted, refused, finished>>

(* sem_wait was interrupted; run does not look at what wait returns.        *)
Interrupted(w) ==
  /\ worker[w] = "wait"
  /\ At(w, "lock")
  /\ UNCHANGED <<request_queue, sem0, posting, request, accepted, refused,
                 finished>>

(* Mistake (OnePlace): front without pop. *)
TakeFront(w) ==
  /\ worker[w] = "lock"
  /\ request_queue # <<>>
  /\ request' = [request EXCEPT ![w] = Head(request_queue)]
  /\ At(w, "run")
  /\ UNCHANGED <<request_queue, sem0, posting, accepted, refused, finished>>

(* Front and pop, under the lock. *)
Take(w) ==
  /\ worker[w] = "lock"
  /\ request_queue # <<>>
  /\ request' = [request EXCEPT ![w] = Head(request_queue)]
  /\ request_queue' = Tail(request_queue)
  /\ At(w, "run")
  /\ UNCHANGED <<sem0, posting, accepted, refused, finished>>

(* Mistake (ConnectionServed): a worker that finds nothing gives up. *)
TakeNothingAndLeave(w) ==
  /\ worker[w] = "lock"
  /\ request_queue = <<>>
  /\ At(w, "left")
  /\ UNCHANGED <<request_queue, sem0, posting, request, accepted, refused,
                 finished>>

(* !has_request: continue. *)
TakeNothing(w) ==
  /\ worker[w] = "lock"
  /\ request_queue = <<>>
  /\ At(w, "wait")
  /\ UNCHANGED <<request_queue, sem0, posting, request, accepted, refused,
                 finished>>

(* request() returns, and is destroyed at the end of the round. *)
Return(w) ==
  /\ worker[w] = "run"
  /\ finished' = finished \cup {request[w]}
  /\ request' = [request EXCEPT ![w] = NoRequest]
  /\ At(w, "wait")
  /\ UNCHANGED <<request_queue, sem0, posting, accepted, refused>>

-----------------------------------------------------------------------------

Run(w) == Wait(w) \/ Interrupted(w) \/ Take(w) \/ TakeNothing(w)

Next ==
  \/ \E r \in Request : Push(r) \/ Refuse(r) \/ Post(r)
  \/ \E w \in Worker : Run(w) \/ Return(w)

Spec == Init /\ [][Next]_vars

-----------------------------------------------------------------------------
(* What must hold. *)

(* Type invariant. *)
TypeOK ==
  /\ request_queue \in Seq(Request)
  /\ sem0 \in Nat
  /\ posting \subseteq Request
  /\ worker \in [Worker -> {"wait", "lock", "run"}]
  /\ request \in [Worker -> Request \cup {NoRequest}]
  /\ accepted \subseteq Request
  /\ refused \subseteq Request
  /\ finished \subseteq Request

Queued  == {request_queue[i] : i \in DOMAIN request_queue}
Running == {request[w] : w \in {v \in Worker : worker[v] = "run"}}

(* A request that was accepted is in one place, waiting, running or done,   *)
(* and no two workers run it, however pushes and pops interleave; one that  *)
(* was refused is nowhere.                                                  *)
OnePlace ==
  /\ accepted = Queued \cup Running \cup finished
  /\ accepted \cap refused = {}
  /\ Queued \cap Running = {}
  /\ Queued \cap finished = {}
  /\ Running \cap finished = {}
  /\ \A i, j \in DOMAIN request_queue :
       request_queue[i] = request_queue[j] => i = j
  /\ \A v, w \in Worker :
       worker[v] = "run" /\ worker[w] = "run" /\ request[v] = request[w] => v = w

(* No request is left in the queue with nobody to fetch it: posts done and  *)
(* under way and workers on their way to the lock are never fewer than the  *)
(* requests, though the push and the post, the wait and the pop are not one *)
(* step and a wait may end without a post.                                  *)
NoRequestStranded ==
  Len(request_queue) <=
    sem0 + Cardinality(posting)
         + Cardinality({w \in Worker : worker[w] = "lock"})
=============================================================================
