------------------------------ MODULE Startup -------------------------------
(***************************************************************************)
(* The HTTP server from its construction to its first connections: main     *)
(* makes the pool and appends the loops to it, sets the output function and *)
(* the response callback, logs, and only then accepts; the workers of the   *)
(* pool find the loops at some time in between and serve what has been      *)
(* registered with them. Main and workers all log.                          *)
(*                                                                         *)
(* It composes ThreadPool, whose requests are the loops, and Logger, whose  *)
(* threads are main and the workers. A loop never returns.                  *)
(***************************************************************************)
EXTENDS Integers, Sequences, FiniteSets

CONSTANTS
  Loop,             (* the sub-reactors                                    *)
  Worker,
  Main,
  Connection,
  NoLoop,           (* what a worker without a loop runs, and where a      *)
                    (* connection is that has not been accepted            *)
  max_request_num, MAX_STREAM_LEN, kMaxNumericSize, Second, Message

VARIABLES
  request_queue, sem0, posting, worker, request, accepted, refused, finished,
  t_last_active_time, t_time, line, logging, g_outputFunc, started, thread_,
  terminated,
  main,                     (* what main does next                         *)
  make_response_callback_,  (* it is set                                   *)
  loop_,                    (* of each connection                          *)
  connection                (* "new", "accepted", "registered", "served"   *)

Thread == {Main} \cup Worker

Pool == INSTANCE ThreadPool WITH Request <- Loop, NoRequest <- NoLoop
Log  == INSTANCE Logger

ASSUME StartupAssumption ==
  /\ Pool!PoolAssumption
  /\ Log!LoggingAssumption
  /\ Main \notin Worker

poolVars == <<request_queue, sem0, posting, worker, request, accepted,
              refused, finished>>
logVars  == <<t_last_active_time, t_time, line, logging, g_outputFunc, started,
              thread_, terminated>>
serverVars == <<main, make_response_callback_, loop_, connection>>
vars == <<poolVars, logVars, serverVars>>

Init ==
  /\ Pool!Init
  /\ Log!Init
  /\ main = "acceptor"
  /\ make_response_callback_ = FALSE
  /\ loop_ = [c \in Connection |-> NoLoop]
  /\ connection = [c \in Connection |-> "new"]

-----------------------------------------------------------------------------
(* Main. *)

MainAt(label, next) ==
  /\ main = label
  /\ logging[Main] = "no"
  /\ main' = next

(* Acceptor: it may have to log that its socket stays blocking.             *)
MakeAcceptor ==
  /\ MainAt("acceptor", "loops")
  /\ Log!Assemble(Main) \/ UNCHANGED logVars
  /\ UNCHANGED <<poolVars, make_response_callback_, loop_, connection>>

(* Server: thread_pool->append for one loop after the other.                *)
AppendLoop(l) ==
  /\ MainAt("loops", "loops")
  /\ posting = {}
  /\ Pool!Push(l) \/ Pool!Refuse(l)
  /\ UNCHANGED <<logVars, make_response_callback_, loop_, connection>>

PostLoop(l) ==
  /\ Pool!Post(l)
  /\ UNCHANGED <<logVars, serverVars>>

LoopsAppended ==
  /\ MainAt("loops", "setOutputFunc")
  /\ accepted \cup refused = Loop
  /\ posting = {}
  /\ UNCHANGED <<poolVars, logVars, make_response_callback_, loop_, connection>>

SetOutputFunc ==
  /\ MainAt("setOutputFunc", "running")
  /\ Log!SetOutputFunc
  /\ UNCHANGED <<poolVars, make_response_callback_, loop_, connection>>

LogRunning ==
  /\ MainAt("running", "setCallback")
  /\ Log!Assemble(Main)
  /\ UNCHANGED <<poolVars, make_response_callback_, loop_, connection>>

SetCallback ==
  /\ MainAt("setCallback", "start")
  /\ make_response_callback_' = TRUE
  /\ UNCHANGED <<poolVars, logVars, loop_, connection>>

(* Server::start. *)
LogStart ==
  /\ MainAt("start", "beginLoop")
  /\ Log!Assemble(Main)
  /\ UNCHANGED <<poolVars, make_response_callback_, loop_, connection>>

(* A client connects; the loop comes from the descriptor's number.          *)
Accept(c) ==
  /\ MainAt("beginLoop", "newConnection")
  /\ connection[c] = "new"
  /\ connection' = [connection EXCEPT ![c] = "accepted"]
  /\ \E l \in Loop : loop_' = [loop_ EXCEPT ![c] = l]
  /\ Log!Assemble(Main)
  /\ UNCHANGED <<poolVars, make_response_callback_>>

(* newConnection: from here on its loop can see the connection.             *)
Register(c) ==
  /\ MainAt("newConnection", "beginLoop")
  /\ connection[c] = "accepted"
  /\ connection' = [connection EXCEPT ![c] = "registered"]
  /\ UNCHANGED <<poolVars, logVars, make_response_callback_, loop_>>

-----------------------------------------------------------------------------
(* Workers. *)

RunWorker(w) ==
  /\ Pool!Run(w)
  /\ UNCHANGED <<logVars, serverVars>>

(* beginLoop hands the connection's message to HttpOnMessage, which logs it *)
(* and calls make_response_callback_; one that is not set throws.           *)
Serve(w, c) ==
  /\ worker[w] = "run"
  /\ connection[c] = "registered"
  /\ loop_[c] = request[w]
  /\ IF make_response_callback_
       THEN Log!Assemble(w)
       ELSE logging[w] = "no" /\ terminated' = TRUE
              /\ UNCHANGED <<t_last_active_time, t_time, line, logging,
                             g_outputFunc, started, thread_>>
  /\ connection' = [connection EXCEPT ![c] = "served"]
  /\ UNCHANGED <<poolVars, main, make_response_callback_, loop_>>

FinishLine(t) ==
  /\ Log!Finish(t)
  /\ UNCHANGED <<poolVars, serverVars>>

-----------------------------------------------------------------------------

MainStep ==
  \/ MakeAcceptor
  \/ \E l \in Loop : AppendLoop(l) \/ PostLoop(l)
  \/ LoopsAppended
  \/ SetOutputFunc
  \/ LogRunning
  \/ SetCallback
  \/ LogStart
  \/ \E c \in Connection : Register(c)
  \/ FinishLine(Main)

WorkerStep(w) ==
  \/ RunWorker(w)
  \/ \E c \in Connection : Serve(w, c)
  \/ FinishLine(w)

(* Nothing happens any more in a process that has ended.                    *)
Next ==
  /\ ~terminated
  /\ \/ MainStep
     \/ \E c \in Connection : Accept(c)
     \/ \E w \in Worker : WorkerStep(w)

Spec == Init /\ [][Next]_vars

(* The threads are scheduled. Clients need not come.                        *)
Fairness ==
  /\ WF_vars(~terminated /\ MainStep)
  /\ \A w \in Worker : WF_vars(~terminated /\ WorkerStep(w))

FairSpec == Spec /\ Fairness

-----------------------------------------------------------------------------
(* What must hold. *)

(* Type invariant. *)
TypeOK ==
  /\ Pool!TypeOK
  /\ Log!TypeOK
  /\ main \in {"acceptor", "loops", "setOutputFunc", "running", "setCallback",
               "start", "beginLoop", "newConnection"}
  /\ make_response_callback_ \in BOOLEAN
  /\ loop_ \in [Connection -> Loop \cup {NoLoop}]
  /\ connection \in [Connection -> {"new", "accepted", "registered", "served"}]

(* A loop that was accepted is in the pool's queue or run by one worker     *)
(* only: no two threads ever run one loop (one loop per thread).            *)
OnePlace == Pool!OnePlace

(* Every loop in the queue has a wakeup on its way (ThreadPoll.h:60-104).   *)
NoRequestStranded == Pool!NoRequestStranded

(* Whoever logs first starts the logger, and its test is not atomic         *)
(* (Logger.cpp:115-120); whoever serves first needs the callback: main has  *)
(* done both before a loop can see a connection.                            *)
NeverTerminates == ~terminated

LineIsSound == Log!LineIsSound

IntegersRight == Log!IntegersRight

(* A connection whose loop the pool took is served, also if it came before  *)
(* a worker had begun that loop: there are as many workers as loops, and    *)
(* none comes back from one (ThreadPoll.h:102).                             *)
ConnectionServed ==
  \A c \in Connection :
    (connection[c] = "registered" /\ loop_[c] \in accepted)
      ~> (connection[c] = "served")
=============================================================================
