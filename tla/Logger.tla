------------------------------- MODULE Logger -------------------------------
(***************************************************************************)
(* Logger: a thread that logs puts its line together alone, with a time it  *)
(* keeps in thread_local storage for as long as the second lasts, and then  *)
(* hands it to g_outputFunc, one for all threads. asyncOutputFunc starts    *)
(* the one asyncLogger when it is called first: it tells by a plain bool.   *)
(*                                                                         *)
(* These are the steps of one thread; Startup says which threads log, and   *)
(* when. AsyncLogger has what becomes of a line. LOG_FATAL, which ends the  *)
(* process after its line, is used nowhere.                                 *)
(***************************************************************************)
EXTENDS LogStream

CONSTANTS
  Thread,
  Second,       (* what gettimeofday can return, in whole seconds          *)
  Message       (* what is logged, as sequences of pieces                  *)

(* Who instantiates the module assumes it. *)
LoggingAssumption ==
  /\ StreamAssumption
  /\ Second \subseteq Nat \ {0}
  /\ Message \subseteq Seq(Piece)

VARIABLES
  t_last_active_time,   (* of each thread: the second it knows the text of *)
  t_time,               (* of each thread: the text, by its second         *)
  line,                 (* of each thread: the line it is logging          *)
  logging,              (* where each thread is: "no", "output", "start",  *)
                        (* "started", "append"                             *)
  g_outputFunc,         (* "default" or "async"                            *)
  started,
  thread_,              (* the asyncLogger has its thread                  *)
  terminated            (* an exception or a second thread ended it all    *)

logVars == <<t_last_active_time, t_time, line, logging, g_outputFunc, started,
             thread_, terminated>>

NoLine == [time |-> 0, now |-> 0, message |-> <<>>]

Init ==
  /\ t_last_active_time = [t \in Thread |-> 0]
  /\ t_time = [t \in Thread |-> 0]
  /\ line = [t \in Thread |-> NoLine]
  /\ logging = [t \in Thread |-> "no"]
  /\ g_outputFunc = "default"
  /\ started = FALSE
  /\ thread_ = FALSE
  /\ terminated = FALSE

Goes(t, label) == logging' = [logging EXCEPT ![t] = label]

(* formatTime, the thread's id and the level in front; a file name and a    *)
(* line number behind.                                                      *)
Heading == <<Text(17), Text(8), Integer(4711, 16), Text(1), Text(4), Text(1)>>
Trailer == <<Text(1), Text(14), Text(1), Integer(114, 16)>>

Pieces(message) == Heading \o message \o Trailer

(* Mistake (LineIsSound): the text is only made anew when time goes on. *)
TimeIsKnownForward(t, now) == t_last_active_time[t] >= now

TimeIsKnown(t, now) == t_last_active_time[t] = now

(* LOG_INFO << ...: the line up to the newline that ~Logger appends.        *)
Assemble(t) ==
  /\ logging[t] = "no"
  /\ \E now \in Second, message \in Message :
       /\ IF TimeIsKnown(t, now)
            THEN UNCHANGED <<t_last_active_time, t_time>>
            ELSE /\ t_time' = [t_time EXCEPT ![t] = now]
                 /\ t_last_active_time' = [t_last_active_time EXCEPT ![t] = now]
       /\ line' = [line EXCEPT ![t] =
                     [time |-> t_time'[t], now |-> now, message |-> message]]
  /\ Goes(t, "output")
  /\ UNCHANGED <<g_outputFunc, started, thread_, terminated>>

(* ~Logger is done with the line. *)
Done(t) ==
  /\ Goes(t, "no")
  /\ line' = [line EXCEPT ![t] = NoLine]

(* g_outputFunc: fwrite, or asyncOutputFunc with its test of started.       *)
Output(t) ==
  /\ logging[t] = "output"
  /\ \/ g_outputFunc = "default" /\ Done(t)
     \/ /\ g_outputFunc = "async"
        /\ Goes(t, IF started THEN "append" ELSE "start")
        /\ UNCHANGED line
  /\ UNCHANGED <<t_last_active_time, t_time, g_outputFunc, started, thread_,
                 terminated>>

(* asynclog.start: to assign to a std::thread that runs ends the process.   *)
Start(t) ==
  /\ logging[t] = "start"
  /\ thread_' = TRUE
  /\ terminated' = (terminated \/ thread_)
  /\ Goes(t, "started")
  /\ UNCHANGED <<t_last_active_time, t_time, line, g_outputFunc, started>>

(* Mistake (NeverTerminates): nobody remembers that it was started. *)
ForgetStarted(t) ==
  /\ logging[t] = "started"
  /\ Goes(t, "append")
  /\ UNCHANGED <<t_last_active_time, t_time, line, g_outputFunc, started,
                 thread_, terminated>>

SetStarted(t) ==
  /\ logging[t] = "started"
  /\ started' = TRUE
  /\ Goes(t, "append")
  /\ UNCHANGED <<t_last_active_time, t_time, line, g_outputFunc, thread_,
                 terminated>>

(* asynclog.append. *)
AppendLine(t) ==
  /\ logging[t] = "append"
  /\ Done(t)
  /\ UNCHANGED <<t_last_active_time, t_time, g_outputFunc, started,
                 thread_, terminated>>

(* ~Logger: the line goes to its output. *)
Finish(t) == Output(t) \/ Start(t) \/ SetStarted(t) \/ AppendLine(t)

SetOutputFunc ==
  /\ g_outputFunc' = "async"
  /\ UNCHANGED <<t_last_active_time, t_time, line, logging, started, thread_,
                 terminated>>

-----------------------------------------------------------------------------
(* What must hold. *)

(* Type invariant. *)
TypeOK ==
  /\ t_last_active_time \in [Thread -> Second \cup {0}]
  /\ t_time \in [Thread -> Second \cup {0}]
  /\ line \in [Thread -> [time : Second \cup {0}, now : Second \cup {0},
                          message : Message \cup {<<>>}]]
  /\ logging \in [Thread -> {"no", "output", "start", "started", "append"}]
  /\ g_outputFunc \in {"default", "async"}
  /\ {started, thread_, terminated} \subseteq BOOLEAN

(* A line has the time at which it was logged, though the text of the time  *)
(* is kept and the clock may go back; it stays inside its buffer whatever   *)
(* is logged, and only a buffer that is full to the last byte costs it its  *)
(* newline.                                                                 *)
LineIsSound ==
  \A t \in Thread :
    LET length == LineLength(Pieces(line[t].message))
    IN  /\ line[t].time = line[t].now
        /\ length <= MAX_STREAM_LEN
        /\ Appended(length, Text(1)) = length => length = MAX_STREAM_LEN

(* What stands for an integer in a line reads as that integer (see          *)
(* WrittenRight for the smallest), of whatever type and number of digits.   *)
IntegersRight ==
  \A t \in Thread : \A i \in DOMAIN line[t].message :
    LET piece == line[t].message[i]
    IN  piece.kind = "integer" => WrittenRight(piece.value, piece.width)
=============================================================================
