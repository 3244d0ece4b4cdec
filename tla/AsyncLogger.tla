---------------------------- MODULE AsyncLogger ----------------------------
(***************************************************************************)
(* asyncLogger: threads append log lines to Buffers_0 under a lock, one     *)
(* consumer thread swaps them out and writes them to the file. It sleeps in *)
(* a timed wait; append signals it when maxBufferBytes_ are reached, the    *)
(* destructor when it is time to stop.                                      *)
(*                                                                         *)
(* append is one critical section, so it does not matter which thread runs  *)
(* it. A line is its size in bytes.                                         *)
(***************************************************************************)
EXTENDS Integers, Sequences

CONSTANTS
  Line,             (* the sizes of the lines                              *)
  MaxLines,         (* bound: no more lines are logged                     *)
  maxBufferBytes_

ASSUME LoggerAssumption ==
  /\ Line \subseteq Nat \ {0}
  /\ MaxLines \in Nat
  /\ maxBufferBytes_ \in Nat \ {0}

VARIABLES
  Buffers_0,      (* appended                                              *)
  Buffers_1,      (* swapped out, the consumer's own                       *)
  buffer0Bytes_,
  running,
  file,           (* what has been flushed to the log file                 *)
  pc,             (* where the consumer is                                 *)
  locked,         (* the consumer holds lock_                              *)
  woken,          (* it has been signalled since it went to wait           *)
  destructor,     (* "no", "stopping", "joining", "done"                   *)
  appended,       (* history: all lines, in the order of their append      *)
  before          (* history: those appended before the destructor began   *)

bufferVars == <<Buffers_0, Buffers_1, buffer0Bytes_>>
vars == <<bufferVars, running, file, pc, locked, woken, destructor,
          appended, before>>

(* After start. *)
Init ==
  /\ Buffers_0 = <<>>
  /\ Buffers_1 = <<>>
  /\ buffer0Bytes_ = 0
  /\ running = TRUE
  /\ file = <<>>
  /\ pc = "top"
  /\ locked = FALSE
  /\ woken = FALSE
  /\ destructor = "no"
  /\ appended = <<>>
  /\ before = 0

(* cond_.signal and cond_.broadcast: only a thread that waits is woken. *)
Signal == woken' = (woken \/ pc \in {"waitLine", "waitMore"})

(* Mistake (NeverSleepsWithWork): only going past the limit signals. *)
AppendPastLimit(line) ==
  /\ ~locked
  /\ destructor # "done"
  /\ Len(appended) < MaxLines
  /\ Buffers_0' = Append(Buffers_0, line)
  /\ buffer0Bytes_' = buffer0Bytes_ + line
  /\ IF buffer0Bytes_' > maxBufferBytes_ THEN Signal ELSE UNCHANGED woken
  /\ appended' = Append(appended, line)
  /\ UNCHANGED <<Buffers_1, running, file, pc, locked, destructor, before>>

(* append. *)
AppendLine(line) ==
  /\ ~locked
  /\ destructor # "done"
  /\ Len(appended) < MaxLines
  /\ Buffers_0' = Append(Buffers_0, line)
  /\ buffer0Bytes_' = buffer0Bytes_ + line
  /\ IF buffer0Bytes_' >= maxBufferBytes_ THEN Signal ELSE UNCHANGED woken
  /\ appended' = Append(appended, line)
  /\ UNCHANGED <<Buffers_1, running, file, pc, locked, destructor, before>>

-----------------------------------------------------------------------------
(* run. *)

(* while (running), lock_.lock() *)
Top ==
  /\ pc = "top"
  /\ \/ /\ running
        /\ pc' = "lock"
     \/ /\ ~running
        /\ pc' = "drain"
  /\ UNCHANGED <<bufferVars, running, file, locked, woken, destructor,
                 appended, before>>

Lock ==
  /\ pc = "lock"
  /\ locked' = TRUE
  /\ pc' = "while"
  /\ UNCHANGED <<bufferVars, running, file, woken, destructor, appended,
                 before>>

(* pthread_cond_timedwait lets go of the lock ... *)
Wait(label) ==
  /\ locked' = FALSE
  /\ woken' = FALSE
  /\ pc' = label

(* Mistake (ShutdownEnds): without lines it waits, running or not. *)
WhileEmptyForever ==
  /\ pc = "while"
  /\ \/ /\ Buffers_0 = <<>>
        /\ Wait("waitLine")
     \/ /\ Buffers_0 # <<>>
        /\ pc' = "if"
        /\ UNCHANGED <<locked, woken>>
  /\ UNCHANGED <<bufferVars, running, file, destructor, appended, before>>

(* while (running && Buffers_0.empty()) time_wait *)
WhileEmpty ==
  /\ pc = "while"
  /\ \/ /\ running /\ Buffers_0 = <<>>
        /\ Wait("waitLine")
     \/ /\ ~ (running /\ Buffers_0 = <<>>)
        /\ pc' = "if"
        /\ UNCHANGED <<locked, woken>>
  /\ UNCHANGED <<bufferVars, running, file, destructor, appended, before>>

(* if (running && buffer0Bytes_ < maxBufferBytes_) time_wait *)
IfBelowLimit ==
  /\ pc = "if"
  /\ \/ /\ running /\ buffer0Bytes_ < maxBufferBytes_
        /\ Wait("waitMore")
     \/ /\ ~ (running /\ buffer0Bytes_ < maxBufferBytes_)
        /\ pc' = "swap"
        /\ UNCHANGED <<locked, woken>>
  /\ UNCHANGED <<bufferVars, running, file, destructor, appended, before>>

(* Mistake (EveryLineWritten): a wait without a timeout. *)
WakeSignalled ==
  /\ pc \in {"waitLine", "waitMore"}
  /\ woken
  /\ locked' = TRUE
  /\ woken' = FALSE
  /\ pc' = IF pc = "waitLine" THEN "while" ELSE "swap"
  /\ UNCHANGED <<bufferVars, running, file, destructor, appended, before>>

(* ... and takes it again, signalled or not: after 3 seconds at the latest. *)
Wake ==
  /\ pc \in {"waitLine", "waitMore"}
  /\ locked' = TRUE
  /\ woken' = FALSE
  /\ pc' = IF pc = "waitLine" THEN "while" ELSE "swap"
  /\ UNCHANGED <<bufferVars, running, file, destructor, appended, before>>

SwapOut ==
  IF Buffers_0 = <<>>
    THEN UNCHANGED bufferVars
    ELSE /\ Buffers_0' = Buffers_1
         /\ Buffers_1' = Buffers_0
         /\ buffer0Bytes_' = 0

(* Swap and unlock. *)
Swap ==
  /\ pc = "swap"
  /\ SwapOut
  /\ locked' = FALSE
  /\ pc' = "write"
  /\ UNCHANGED <<running, file, woken, destructor, appended, before>>

(* Mistake (LinesIntact): the written buffers are not cleared. *)
WriteKeeps ==
  /\ pc \in {"write", "drainWrite"}
  /\ file' = file \o Buffers_1
  /\ pc' = IF pc = "write" THEN "top" ELSE "exited"
  /\ UNCHANGED <<bufferVars, running, locked, woken, destructor, appended,
                 before>>

(* fwrite every buffer, fflush, clear. *)
Write ==
  /\ pc \in {"write", "drainWrite"}
  /\ file' = file \o Buffers_1
  /\ Buffers_1' = <<>>
  /\ pc' = IF pc = "write" THEN "top" ELSE "exited"
  /\ UNCHANGED <<Buffers_0, buffer0Bytes_, running, locked, woken,
                 destructor, appended, before>>

(* Mistake (ShutdownWritesAll): nothing is drained after the loop. *)
DrainNothing ==
  /\ pc = "drain"
  /\ pc' = "exited"
  /\ UNCHANGED <<bufferVars, running, file, locked, woken, destructor,
                 appended, before>>

(* The loop has ended: swap once more, under the lock. *)
Drain ==
  /\ pc = "drain"
  /\ SwapOut
  /\ pc' = "drainWrite"
  /\ UNCHANGED <<running, file, locked, woken, destructor, appended, before>>

-----------------------------------------------------------------------------
(* ~asyncLogger. *)

(* running = false, without the lock. *)
Stop ==
  /\ destructor = "no"
  /\ running' = FALSE
  /\ destructor' = "stopping"
  /\ before' = Len(appended)
  /\ UNCHANGED <<bufferVars, file, pc, locked, woken, appended>>

Broadcast ==
  /\ destructor = "stopping"
  /\ ~locked
  /\ Signal
  /\ destructor' = "joining"
  /\ UNCHANGED <<bufferVars, running, file, pc, locked, appended, before>>

(* thread_.join returns, fclose. *)
Join ==
  /\ destructor = "joining"
  /\ pc = "exited"
  /\ destructor' = "done"
  /\ UNCHANGED <<bufferVars, running, file, pc, locked, woken, appended,
                 before>>

-----------------------------------------------------------------------------

Consumer ==
  Top \/ Lock \/ WhileEmpty \/ IfBelowLimit \/ Wake \/ Swap \/ Write \/ Drain

Next == (\E line \in Line : AppendLine(line)) \/ Consumer
          \/ Stop \/ Broadcast \/ Join

Spec == Init /\ [][Next]_vars

(* The consumer is scheduled and its waits time out; a destructor goes on. *)
Fairness == WF_vars(Consumer) /\ WF_vars(Broadcast) /\ WF_vars(Join)

FairSpec == Spec /\ Fairness

-----------------------------------------------------------------------------
(* What must hold. *)

(* Type invariant. *)
TypeOK ==
  /\ Buffers_0 \in Seq(Line)
  /\ Buffers_1 \in Seq(Line)
  /\ buffer0Bytes_ \in Nat
  /\ running \in BOOLEAN
  /\ file \in Seq(Line)
  /\ pc \in {"top", "lock", "while", "waitLine", "if", "waitMore", "swap",
             "write", "drain", "drainWrite", "exited"}
  /\ locked \in BOOLEAN
  /\ woken \in BOOLEAN
  /\ destructor \in {"no", "stopping", "joining", "done"}
  /\ appended \in Seq(Line)
  /\ before \in 0 .. MaxLines

(* Two buffers and a swap: every line is in the file, with the consumer or  *)
(* waiting for it, once, in the order of the appends.                       *)
LinesIntact == file \o Buffers_1 \o Buffers_0 = appended

(* No wakeup is lost: the consumer does not sleep through its three seconds *)
(* once the limit is reached, nor once the destructor waits for it, though  *)
(* running is cleared without the lock (asyncLogger.cpp:73, 87-90).         *)
NeverSleepsWithWork ==
  pc \in {"waitLine", "waitMore"} /\ ~woken =>
    /\ buffer0Bytes_ < maxBufferBytes_
    /\ destructor \in {"no", "stopping"}

(* A line appended before the destructor began is in the file when it is    *)
(* over, whatever the consumer was doing.                                   *)
ShutdownWritesAll == destructor = "done" => Len(file) >= before

(* Every line logged while the logger lives gets to the file, however few   *)
(* they are.                                                                *)
EveryLineWritten ==
  \A n \in 1 .. MaxLines :
    (Len(appended) >= n /\ destructor = "no") ~> (Len(file) >= n)

(* The destructor returns. *)
ShutdownEnds == (destructor = "stopping") ~> (destructor = "done")
=============================================================================
