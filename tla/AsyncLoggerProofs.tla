------------------------- MODULE AsyncLoggerProofs -------------------------
(***************************************************************************)
(* Proofs about the asynchronous logger for every limit and all lines: no   *)
(* line is lost, doubled or reordered, no wakeup is lost, and what was      *)
(* logged before the destructor began is in the file when it is over.       *)
(***************************************************************************)
EXTENDS AsyncLogger, SequenceTheorems, TLAPS

(* The consumer has the lock from `lock` to `unlock`, waits aside.          *)
LockedInside == locked <=> pc \in {"while", "if", "swap"}

(* Only lines that are being written are in the consumer's buffer, so the   *)
(* swap leaves an empty one.                                                *)
OwnBufferEmpty == pc \notin {"write", "drainWrite"} => Buffers_1 = <<>>

(* The count is reset whenever the buffer is. *)
EmptyIsCounted == Buffers_0 = <<>> => buffer0Bytes_ = 0

(* running is cleared once, by the destructor; the consumer leaves its loop *)
(* for that only, and the destructor is over after it has.                  *)
StopsOnce ==
  /\ running <=> destructor = "no"
  /\ pc \in {"drain", "drainWrite", "exited"} => ~running
  /\ destructor = "done" => pc = "exited"

(* What was logged before the destructor is on its way. *)
BeforeIsDrained ==
  /\ before <= Len(appended)
  /\ pc = "drainWrite" => Len(file \o Buffers_1) >= before
  /\ pc = "exited" => Len(file) >= before

(* The bound of the model. *)
LinesBounded == Len(appended) <= MaxLines

LoggerInv ==
  /\ TypeOK
  /\ LinesBounded
  /\ LinesIntact
  /\ NeverSleepsWithWork
  /\ LockedInside
  /\ OwnBufferEmpty
  /\ EmptyIsCounted
  /\ StopsOnce
  /\ BeforeIsDrained

(* A line is appended behind all that is there. *)
LEMMA AppendBehind ==
  ASSUME NEW S, NEW s \in Seq(S), NEW t \in Seq(S), NEW x \in S
  PROVE  /\ s \o Append(t, x) = Append(s \o t, x)
         /\ Len(Append(t, x)) = Len(t) + 1
         /\ Append(t, x) \in Seq(S)
         /\ Append(t, x) # <<>>
<1>1. /\ Append(t, x) \in Seq(S)
      /\ Len(Append(t, x)) = Len(t) + 1
      /\ Append(t, x) # <<>>
  BY AppendProperties
<1>2. <<x>> \in Seq(S) /\ s \o t \in Seq(S)
  BY ConcatProperties
<1>3. Append(t, x) = t \o <<x>> /\ Append(s \o t, x) = (s \o t) \o <<x>>
  BY <1>2, AppendIsConcat
<1>4. (s \o t) \o <<x>> = s \o (t \o <<x>>)
  BY <1>2, ConcatAssociative
<1> QED BY <1>1, <1>3, <1>4

(* It holds when the consumer starts. *)
LEMMA LoggerInit == Init => LoggerInv
<1> SUFFICES ASSUME Init PROVE LoggerInv
  OBVIOUS
<1>1. <<>> \in Seq(Line) /\ Len(<<>>) = 0
  BY EmptySeq
<1>2. <<>> \o <<>> \o <<>> = <<>>
  BY <1>1, ConcatEmptySeq
<1>3. TypeOK
  <2>1. 0 \in Nat /\ 0 \in 0 .. MaxLines
    BY LoggerAssumption
  <2> QED BY <1>1, <2>1 DEF Init, TypeOK
<1>4. LinesIntact
  BY <1>2 DEF Init, LinesIntact
<1>5. 0 <= MaxLines
  BY LoggerAssumption
<1>6. BeforeIsDrained /\ LinesBounded
  BY <1>1, <1>5 DEF Init, BeforeIsDrained, LinesBounded
<1> QED
  BY <1>3, <1>4, <1>6
  DEF Init, LoggerInv, NeverSleepsWithWork, LockedInside,
      OwnBufferEmpty, EmptyIsCounted, StopsOnce

(* A line keeps the order, and the signal wakes a consumer when the limit   *)
(* is reached.                                                              *)
LEMMA AppendStep ==
  ASSUME LoggerInv, NEW line \in Line, AppendLine(line)
  PROVE  LoggerInv'
<1> USE DEF LoggerInv
<1>1. line \in Nat \ {0}
  BY LoggerAssumption
<1>2. /\ file \in Seq(Line) /\ Buffers_1 \in Seq(Line)
      /\ Buffers_0 \in Seq(Line) /\ appended \in Seq(Line)
      /\ buffer0Bytes_ \in Nat
  BY DEF TypeOK
<1>3. /\ Buffers_0' = Append(Buffers_0, line)
      /\ appended' = Append(appended, line)
      /\ buffer0Bytes_' = buffer0Bytes_ + line
      /\ UNCHANGED <<Buffers_1, running, file, pc, locked, destructor, before>>
  BY DEF AppendLine
<1>4. /\ Buffers_0' \in Seq(Line) /\ Buffers_0' # <<>>
      /\ appended' \in Seq(Line) /\ Len(appended') = Len(appended) + 1
  <2>1. /\ Append(Buffers_0, line) \in Seq(Line)
        /\ Append(Buffers_0, line) # <<>>
    BY <1>2, AppendProperties
  <2>2. /\ Append(appended, line) \in Seq(Line)
        /\ Len(Append(appended, line)) = Len(appended) + 1
    BY <1>2, AppendProperties
  <2> QED BY <2>1, <2>2, <1>3
<1>5. woken' \in BOOLEAN
  BY DEF AppendLine, Signal, TypeOK
<1>6. TypeOK'
  BY <1>1, <1>2, <1>3, <1>4, <1>5 DEF TypeOK
<1>7. LinesIntact'
  <2>1. file \o Buffers_1 \in Seq(Line)
    BY <1>2, ConcatProperties
  <2>2. (file \o Buffers_1) \o Append(Buffers_0, line)
           = Append((file \o Buffers_1) \o Buffers_0, line)
    BY <2>1, <1>2, AppendBehind
  <2> QED BY <2>2, <1>3 DEF LinesIntact
<1>8. NeverSleepsWithWork'
  <2>1. CASE buffer0Bytes_' >= maxBufferBytes_
    BY <2>1, <1>3 DEF AppendLine, Signal, NeverSleepsWithWork
  <2>2. CASE ~(buffer0Bytes_' >= maxBufferBytes_)
    <3>1. buffer0Bytes_' < maxBufferBytes_ /\ woken' = woken
      BY <2>2, <1>1, <1>2, <1>3, LoggerAssumption DEF AppendLine
    <3> QED BY <3>1, <1>3 DEF NeverSleepsWithWork
  <2> QED BY <2>1, <2>2
<1>9. BeforeIsDrained'
  <2>1. Len(appended) \in Nat /\ before \in Nat
    BY <1>2, LenProperties, LoggerAssumption DEF TypeOK
  <2> QED BY <2>1, <1>3, <1>4 DEF BeforeIsDrained
<1>10. Len(appended') <= MaxLines
  BY <1>2, <1>4, LenProperties, LoggerAssumption DEF AppendLine
<1> QED
  BY <1>3, <1>4, <1>6, <1>7, <1>8, <1>9, <1>10
  DEF LockedInside, OwnBufferEmpty, EmptyIsCounted, StopsOnce, LinesBounded

(* The swap moves all lines to the consumer. *)
LEMMA SwapOutMoves ==
  ASSUME LoggerInv, Buffers_1 = <<>>, SwapOut
  PROVE  /\ Buffers_0' = <<>>
         /\ Buffers_1' \in Seq(Line)
         /\ buffer0Bytes_' = 0
         /\ file \o Buffers_1' = appended
         /\ (file \o Buffers_1') \o Buffers_0' = appended
<1> USE DEF LoggerInv
<1>1. file \in Seq(Line) /\ Buffers_0 \in Seq(Line)
  BY DEF TypeOK
<1>2. file \o <<>> = file /\ file \o Buffers_0 \in Seq(Line)
  BY <1>1, ConcatEmptySeq, ConcatProperties
<1>3. file \o Buffers_0 = appended
  BY <1>2 DEF LinesIntact
<1>4. Buffers_0' = <<>> /\ Buffers_1' = Buffers_0 /\ buffer0Bytes_' = 0
  <2>1. CASE Buffers_0 = <<>>
    BY <2>1 DEF SwapOut, bufferVars, EmptyIsCounted
  <2>2. CASE Buffers_0 # <<>>
    BY <2>2 DEF SwapOut
  <2> QED BY <2>1, <2>2
<1>5. (file \o Buffers_0) \o <<>> = file \o Buffers_0
  BY <1>2, ConcatEmptySeq
<1> QED BY <1>1, <1>3, <1>4, <1>5

(* The swap under the lock, in the loop and after it. *)
LEMMA SwapStep ==
  ASSUME LoggerInv, Swap \/ Drain
  PROVE  LoggerInv'
<1> USE DEF LoggerInv
<1>1. Buffers_1 = <<>> /\ SwapOut
  BY DEF OwnBufferEmpty, Swap, Drain
<1>2. /\ Buffers_0' = <<>>
      /\ Buffers_1' \in Seq(Line)
      /\ buffer0Bytes_' = 0
      /\ file \o Buffers_1' = appended
      /\ (file \o Buffers_1') \o Buffers_0' = appended
  BY <1>1, SwapOutMoves
<1>3. UNCHANGED <<running, file, woken, destructor, appended, before>>
  BY DEF Swap, Drain
<1>4. \/ pc = "swap" /\ pc' = "write" /\ locked' = FALSE
      \/ pc = "drain" /\ pc' = "drainWrite" /\ locked' = locked
  BY DEF Swap, Drain
<1>5. TypeOK'
  BY <1>2, <1>3, <1>4, EmptySeq DEF TypeOK
<1>6. LinesIntact'
  BY <1>2, <1>3 DEF LinesIntact
<1>7. BeforeIsDrained'
  BY <1>2, <1>3, <1>4 DEF BeforeIsDrained
<1>8. LockedInside'
  BY <1>4 DEF LockedInside
<1> QED
  BY <1>2, <1>3, <1>4, <1>5, <1>6, <1>7, <1>8
  DEF NeverSleepsWithWork, OwnBufferEmpty, EmptyIsCounted, StopsOnce,
      LinesBounded

(* The write without the lock: nobody else knows the consumer's buffer. *)
LEMMA WriteStep ==
  ASSUME LoggerInv, Write
  PROVE  LoggerInv'
<1> USE DEF LoggerInv
<1>1. /\ file \in Seq(Line) /\ Buffers_1 \in Seq(Line)
      /\ Buffers_0 \in Seq(Line)
  BY DEF TypeOK
<1>2. /\ file' = file \o Buffers_1
      /\ Buffers_1' = <<>>
      /\ UNCHANGED <<Buffers_0, buffer0Bytes_, running, locked, woken,
                     destructor, appended, before>>
      /\ \/ pc = "write" /\ pc' = "top"
         \/ pc = "drainWrite" /\ pc' = "exited"
  BY DEF Write
<1>3. file' \in Seq(Line) /\ file' \o <<>> = file'
  BY <1>1, <1>2, ConcatProperties, ConcatEmptySeq
<1>4. TypeOK'
  BY <1>2, <1>3, EmptySeq DEF TypeOK
<1>5. LinesIntact'
  BY <1>2, <1>3 DEF LinesIntact
<1>6. BeforeIsDrained'
  BY <1>2 DEF BeforeIsDrained
<1>7. LockedInside'
  BY <1>2 DEF LockedInside
<1> QED
  BY <1>2, <1>4, <1>5, <1>6, <1>7
  DEF NeverSleepsWithWork, OwnBufferEmpty, EmptyIsCounted, StopsOnce,
      LinesBounded

(* The consumer's steps that move no line. *)
LEMMA ConsumerStep ==
  ASSUME LoggerInv, Top \/ Lock \/ WhileEmpty \/ IfBelowLimit \/ Wake
  PROVE  LoggerInv'
<1> USE DEF LoggerInv
<1>1. UNCHANGED <<bufferVars, running, file, destructor, appended, before>>
  BY DEF Top, Lock, WhileEmpty, IfBelowLimit, Wake
<1>2. pc' \in {"drain", "lock", "while", "waitLine", "if", "waitMore", "swap"}
  BY DEF Top, Lock, WhileEmpty, IfBelowLimit, Wake, Wait
<1>3. locked' \in BOOLEAN /\ woken' \in BOOLEAN
  BY DEF Top, Lock, WhileEmpty, IfBelowLimit, Wake, Wait, TypeOK
<1>4. TypeOK'
  BY <1>1, <1>2, <1>3 DEF TypeOK, bufferVars
<1>5. LinesIntact' /\ EmptyIsCounted'
  BY <1>1 DEF LinesIntact, EmptyIsCounted, bufferVars
<1>6. OwnBufferEmpty'
  BY <1>1 DEF OwnBufferEmpty, bufferVars, Top, Lock, WhileEmpty, IfBelowLimit,
     Wake
<1>7. NeverSleepsWithWork'
  <2>1. CASE WhileEmpty
    BY <2>1, <1>1, LoggerAssumption
    DEF WhileEmpty, Wait, NeverSleepsWithWork, EmptyIsCounted, StopsOnce,
        bufferVars
  <2>2. CASE IfBelowLimit
    BY <2>2, <1>1
    DEF IfBelowLimit, Wait, NeverSleepsWithWork, StopsOnce, bufferVars
  <2>3. CASE Top \/ Lock \/ Wake
    <3>1. pc' \notin {"waitLine", "waitMore"}
      BY <2>3 DEF Top, Lock, Wake
    <3> QED BY <3>1 DEF NeverSleepsWithWork
  <2> QED BY <2>1, <2>2, <2>3
<1>8. LockedInside'
  BY DEF LockedInside, Top, Lock, WhileEmpty, IfBelowLimit, Wake, Wait
<1>9. StopsOnce'
  BY <1>1 DEF StopsOnce, Top, Lock, WhileEmpty, IfBelowLimit, Wake, Wait
<1>10. BeforeIsDrained' /\ LinesBounded'
  BY <1>1, <1>2 DEF BeforeIsDrained, LinesBounded
<1> QED BY <1>4, <1>5, <1>6, <1>7, <1>8, <1>9, <1>10

(* Clearing running without the lock cannot hide the broadcast: who waits   *)
(* has let go of the lock before.                                           *)
LEMMA DestructorStep ==
  ASSUME LoggerInv, Stop \/ Broadcast \/ Join
  PROVE  LoggerInv'
<1> USE DEF LoggerInv
<1>1. UNCHANGED <<bufferVars, file, pc, locked, appended>>
  BY DEF Stop, Broadcast, Join
<1>2. CASE Stop
  <2>1. /\ destructor = "no" /\ destructor' = "stopping"
        /\ running' = FALSE /\ woken' = woken /\ before' = Len(appended)
    BY <1>2 DEF Stop
  <2>2. running
    BY <2>1 DEF StopsOnce
  <2>3. pc \notin {"drain", "drainWrite", "exited"}
    BY <2>2 DEF StopsOnce
  <2>4. Len(appended) \in Nat
    BY LenProperties DEF TypeOK
  <2>5. TypeOK'
    <3>1. before' \in 0 .. MaxLines
      BY <2>1, <2>4, LoggerAssumption DEF LinesBounded
    <3> QED BY <1>1, <2>1, <3>1 DEF TypeOK, bufferVars
  <2>6. NeverSleepsWithWork'
    BY <1>1, <2>1 DEF NeverSleepsWithWork, bufferVars
  <2>7. StopsOnce' /\ BeforeIsDrained'
    BY <1>1, <2>1, <2>3, <2>4 DEF StopsOnce, BeforeIsDrained
  <2> QED
    BY <1>1, <2>1, <2>5, <2>6, <2>7
    DEF bufferVars, LinesIntact, LockedInside, OwnBufferEmpty, EmptyIsCounted,
        LinesBounded
<1>3. CASE Broadcast
  <2>1. /\ destructor = "stopping" /\ destructor' = "joining"
        /\ UNCHANGED <<running, before>>
        /\ woken' = (woken \/ pc \in {"waitLine", "waitMore"})
    BY <1>3 DEF Broadcast, Signal
  <2> QED
    BY <1>1, <2>1
    DEF TypeOK, bufferVars, LinesIntact, NeverSleepsWithWork, LockedInside,
        OwnBufferEmpty, EmptyIsCounted, StopsOnce, BeforeIsDrained, LinesBounded
<1>4. CASE Join
  <2>1. /\ destructor = "joining" /\ destructor' = "done" /\ pc = "exited"
        /\ UNCHANGED <<running, woken, before>>
    BY <1>4 DEF Join
  <2> QED
    BY <1>1, <2>1
    DEF TypeOK, bufferVars, LinesIntact, NeverSleepsWithWork, LockedInside,
        OwnBufferEmpty, EmptyIsCounted, StopsOnce, BeforeIsDrained, LinesBounded
<1> QED BY <1>2, <1>3, <1>4

(* Every step keeps it. *)
LEMMA LoggerStep == LoggerInv /\ [Next]_vars => LoggerInv'
<1> SUFFICES ASSUME LoggerInv, [Next]_vars PROVE LoggerInv'
  OBVIOUS
<1>1. ASSUME NEW line \in Line, AppendLine(line) PROVE LoggerInv'
  BY <1>1, AppendStep
<1>2. CASE Top \/ Lock \/ WhileEmpty \/ IfBelowLimit \/ Wake
  BY <1>2, ConsumerStep
<1>3. CASE Swap \/ Drain
  BY <1>3, SwapStep
<1>4. CASE Write
  BY <1>4, WriteStep
<1>5. CASE Stop \/ Broadcast \/ Join
  BY <1>5, DestructorStep
<1>6. CASE UNCHANGED vars
  BY <1>6
  DEF vars, bufferVars, LoggerInv, TypeOK, LinesIntact, NeverSleepsWithWork,
      LockedInside, OwnBufferEmpty, EmptyIsCounted, StopsOnce, BeforeIsDrained, LinesBounded
<1> QED BY <1>1, <1>2, <1>3, <1>4, <1>5, <1>6 DEF Next, Consumer

(* The inductive invariant. *)
THEOREM LoggerCorrect == Spec => []LoggerInv
BY LoggerInit, LoggerStep, PTL DEF Spec

(* LinesIntact: the swap of the two buffers and the write without the lock  *)
(* (asyncLogger.cpp:26-44) lose, double and reorder nothing.                *)
THEOREM NoLineLost == Spec => []LinesIntact
<1>1. LoggerInv => LinesIntact
  BY DEF LoggerInv
<1> QED BY <1>1, LoggerCorrect, PTL

(* NeverSleepsWithWork: neither append's signal nor the destructor's        *)
(* broadcast is missed by a consumer on its way to sleep.                   *)
THEOREM NoWakeupLost == Spec => []NeverSleepsWithWork
<1>1. LoggerInv => NeverSleepsWithWork
  BY DEF LoggerInv
<1> QED BY <1>1, LoggerCorrect, PTL

(* ShutdownWritesAll: when ~asyncLogger is over, all that was logged before *)
(* it began is in the file.                                                 *)
THEOREM ShutdownComplete == Spec => []ShutdownWritesAll
<1>1. LoggerInv => ShutdownWritesAll
  BY DEF LoggerInv, StopsOnce, BeforeIsDrained, ShutdownWritesAll
<1> QED BY <1>1, LoggerCorrect, PTL
=============================================================================
