--------------------------- MODULE StartupProofs ---------------------------
(***************************************************************************)
(* Proofs about Startup, for any number of loops, workers and connections   *)
(* and any size of the pool's queue. That Startup implements ThreadPool     *)
(* gives it what ThreadPoolProofs proves of the pool.                       *)
(***************************************************************************)
EXTENDS Startup, SequenceTheorems, WellFoundedInduction, TLAPS

PoolP == INSTANCE ThreadPoolProofs WITH Request <- Loop, NoRequest <- NoLoop

-----------------------------------------------------------------------------
(* The pool. *)

(* The server does with the pool what a pool does: whatever main and the    *)
(* workers do besides, the pool makes one of its steps or none              *)
(* (Server.cpp:7-35, ThreadPoll.h).                                         *)
THEOREM ImplementsPool == Spec => Pool!Spec
<1>1. Init => Pool!Init
  BY DEF Init
<1>2. [Next]_vars => [Pool!Next]_(Pool!vars)
  <2> SUFFICES ASSUME [Next]_vars PROVE Pool!Next \/ UNCHANGED Pool!vars
    OBVIOUS
  <2> USE DEF Pool!vars, poolVars
  <2>1. ASSUME NEW l \in Loop, AppendLoop(l) PROVE Pool!Next
    BY <2>1 DEF AppendLoop, Pool!Next
  <2>2. ASSUME NEW l \in Loop, PostLoop(l) PROVE Pool!Next
    BY <2>2 DEF PostLoop, Pool!Next
  <2>3. ASSUME NEW w \in Worker, RunWorker(w) PROVE Pool!Next
    BY <2>3 DEF RunWorker, Pool!Next
  <2>4. CASE MakeAcceptor \/ LoopsAppended \/ SetOutputFunc \/ LogRunning
               \/ SetCallback \/ LogStart
    BY <2>4 DEF MakeAcceptor, LoopsAppended, SetOutputFunc, LogRunning,
                SetCallback, LogStart
  <2>5. ASSUME NEW c \in Connection, Accept(c) \/ Register(c)
        PROVE  UNCHANGED Pool!vars
    BY <2>5 DEF Accept, Register
  <2>6. ASSUME NEW w \in Worker, NEW c \in Connection, Serve(w, c)
        PROVE  UNCHANGED Pool!vars
    BY <2>6 DEF Serve
  <2>7. ASSUME NEW t, FinishLine(t) PROVE UNCHANGED Pool!vars
    BY <2>7 DEF FinishLine
  <2>8. CASE UNCHANGED vars
    BY <2>8 DEF vars
  <2> QED
    BY <2>1, <2>2, <2>3, <2>4, <2>5, <2>6, <2>7, <2>8
       DEF Next, MainStep, WorkerStep
<1> QED
  BY <1>1, <1>2, PTL DEF Spec, Pool!Spec

(* The instance that has the theorems is of the same pool. *)
LEMMA PoolIsPool ==
  /\ PoolP!PoolAssumption
  /\ Pool!Spec => PoolP!Spec
  /\ PoolP!OnePlace <=> Pool!OnePlace
  /\ PoolP!NoRequestStranded <=> Pool!NoRequestStranded
<1>1. PoolP!PoolAssumption
  BY StartupAssumption
     DEF Pool!PoolAssumption, PoolP!PoolAssumption, Pool!IsFiniteSet,
         PoolP!IsFiniteSet
<1>2. Pool!Init => PoolP!Init
  BY DEF Pool!Init, PoolP!Init
<1>3. Pool!Next <=> PoolP!Next
  BY DEF Pool!Next, PoolP!Next, Pool!Run, PoolP!Run, Pool!Push, PoolP!Push,
         Pool!Refuse, PoolP!Refuse, Pool!Post, PoolP!Post, Pool!At, PoolP!At,
         Pool!Wait, PoolP!Wait, Pool!Interrupted, PoolP!Interrupted,
         Pool!Take, PoolP!Take, Pool!TakeNothing, PoolP!TakeNothing,
         Pool!Return, PoolP!Return
<1>4. Pool!vars = PoolP!vars
  BY DEF Pool!vars, PoolP!vars
<1>5. [Pool!Next]_(Pool!vars) => [PoolP!Next]_(PoolP!vars)
  BY <1>3, <1>4 DEF Pool!vars, PoolP!vars
<1>6. Pool!Spec => PoolP!Spec
  BY <1>2, <1>5, PTL DEF Pool!Spec, PoolP!Spec
<1>7. PoolP!OnePlace <=> Pool!OnePlace
  BY DEF PoolP!OnePlace, Pool!OnePlace, PoolP!Queued, Pool!Queued,
         PoolP!Running, Pool!Running
<1>8. PoolP!NoRequestStranded <=> Pool!NoRequestStranded
  BY DEF PoolP!NoRequestStranded, Pool!NoRequestStranded,
         PoolP!Cardinality, Pool!Cardinality
<1> QED
  BY <1>1, <1>6, <1>7, <1>8

(* No loop is run by two threads, none is lost and none is run twice.       *)
THEOREM OneThreadPerLoop == Spec => []OnePlace
<1>1. PoolP!Spec => []PoolP!OnePlace
  BY PoolIsPool, PoolP!EachInOnePlace
<1>2. PoolP!OnePlace => OnePlace
  BY PoolIsPool DEF OnePlace
<1> QED
  BY <1>1, <1>2, PoolIsPool, ImplementsPool, PTL

(* No loop stays in the queue with nobody to fetch it. *)
THEOREM EachLoopFetched == Spec => []NoRequestStranded
<1>1. PoolP!Spec => []PoolP!NoRequestStranded
  BY PoolIsPool, PoolP!NobodyStranded
<1>2. PoolP!NoRequestStranded => NoRequestStranded
  BY PoolIsPool DEF NoRequestStranded
<1> QED
  BY <1>1, <1>2, PoolIsPool, ImplementsPool, PTL

-----------------------------------------------------------------------------
(* Nothing ends the process. *)

Places == {"no", "output", "start", "started", "append"}

(* Main has not yet accepted anybody. *)
Early == {"acceptor", "loops", "setOutputFunc", "running", "setCallback",
          "start"}
Late  == {"beginLoop", "newConnection"}

(* Before it accepts somebody, main sets the callback and has logged a line *)
(* that the asyncLogger took; until then no worker logs. So main alone      *)
(* starts the asyncLogger, and has done so when a worker asks.              *)
StartInv ==
  /\ logging \in [Thread -> Places]
  /\ ~terminated
  /\ main \in Early \cup Late
  /\ main \in Early =>
       /\ \A c \in Connection : connection[c] = "new"
       /\ \A w \in Worker : logging[w] = "no"
  /\ main \in {"running", "setCallback"} => g_outputFunc = "async"
  /\ main = "setCallback" /\ logging[Main] \in {"no", "append"} => started
  /\ main \in Late \cup {"start"} => started /\ make_response_callback_
  /\ thread_ => started \/ logging[Main] = "started"
  /\ logging[Main] = "start" => ~thread_
  /\ \A w \in Worker : logging[w] \notin {"start", "started"}

LEMMA Assembled ==
  ASSUME NEW t \in Thread, Log!Assemble(t)
  PROVE  /\ logging[t] = "no"
         /\ logging' = [logging EXCEPT ![t] = "output"]
         /\ UNCHANGED <<g_outputFunc, started, thread_, terminated>>
  BY DEF Log!Assemble, Log!Goes

(* Only the last of main's lines ever finds the asyncLogger not started.    *)
LEMMA FinishKeeps ==
  ASSUME StartInv, NEW t \in Thread, FinishLine(t)
  PROVE  StartInv'
<1> USE DEF StartInv, Places, Early, Late, Thread
<1>1. UNCHANGED <<main, make_response_callback_, loop_, connection>>
  BY DEF FinishLine, serverVars
<1>2. CASE Log!Output(t)
  <2>1. UNCHANGED <<g_outputFunc, started, thread_, terminated>>
    BY <1>2 DEF Log!Output
  <2>2. logging[t] = "output"
    BY <1>2 DEF Log!Output
  <2>3. CASE g_outputFunc = "default" /\ logging' = [logging EXCEPT ![t] = "no"]
    BY <1>1, <2>1, <2>2, <2>3
  <2>4. CASE g_outputFunc = "async"
             /\ logging' = [logging EXCEPT
                              ![t] = IF started THEN "append" ELSE "start"]
    <3>1. t \in Worker => started
      BY <2>2
    <3> QED
      BY <1>1, <2>1, <2>2, <2>4, <3>1, StartupAssumption
  <2> QED
    BY <1>2, <2>3, <2>4 DEF Log!Output, Log!Goes, Log!Done
<1>3. CASE Log!Start(t)
  <2>1. t = Main /\ ~thread_
    BY <1>3 DEF Log!Start
  <2> QED
    BY <1>1, <1>3, <2>1, StartupAssumption DEF Log!Start, Log!Goes
<1>4. CASE Log!SetStarted(t)
  <2>1. t = Main
    BY <1>4 DEF Log!SetStarted
  <2> QED
    BY <1>1, <1>4, <2>1, StartupAssumption DEF Log!SetStarted, Log!Goes
<1>5. CASE Log!AppendLine(t)
  BY <1>1, <1>5, StartupAssumption DEF Log!AppendLine, Log!Done, Log!Goes
<1> QED
  BY <1>2, <1>3, <1>4, <1>5 DEF FinishLine, Log!Finish

LEMMA StartStep ==
  ASSUME StartInv, [Next]_vars
  PROVE  StartInv'
<1> USE DEF StartInv, Places, Early, Late, logVars
<1>1. Main \in Thread /\ Main \notin Worker /\ Worker \subseteq Thread
  BY StartupAssumption DEF Thread
<1>2. CASE MakeAcceptor
  <2>1. /\ main = "acceptor" /\ main' = "loops"
        /\ UNCHANGED <<connection, make_response_callback_>>
    BY <1>2 DEF MakeAcceptor, MainAt
  <2>2. CASE UNCHANGED logVars
    BY <2>1, <2>2
  <2>3. CASE Log!Assemble(Main)
    BY <1>1, <2>1, <2>3, Assembled
  <2> QED
    BY <1>2, <2>2, <2>3 DEF MakeAcceptor
<1>3. ASSUME NEW l \in Loop, AppendLoop(l) \/ PostLoop(l) PROVE StartInv'
  BY <1>3 DEF AppendLoop, PostLoop, MainAt, serverVars
<1>4. CASE LoopsAppended
  BY <1>4 DEF LoopsAppended, MainAt
<1>5. CASE SetOutputFunc
  BY <1>5 DEF SetOutputFunc, MainAt, Log!SetOutputFunc
<1>6. CASE LogRunning \/ LogStart
  BY <1>1, <1>6, Assembled DEF LogRunning, LogStart, MainAt
<1>7. CASE SetCallback
  BY <1>7 DEF SetCallback, MainAt
<1>8. ASSUME NEW c \in Connection, Accept(c) PROVE StartInv'
  BY <1>1, <1>8, Assembled DEF Accept, MainAt
<1>9. ASSUME NEW c \in Connection, Register(c) PROVE StartInv'
  BY <1>9 DEF Register, MainAt
<1>10. ASSUME NEW w \in Worker, RunWorker(w) PROVE StartInv'
  BY <1>10 DEF RunWorker, serverVars
<1>11. ASSUME NEW w \in Worker, NEW c \in Connection, Serve(w, c)
       PROVE  StartInv'
  <2>1. main \in Late /\ make_response_callback_
    BY <1>11 DEF Serve
  <2>2. Log!Assemble(w) /\ UNCHANGED <<main, make_response_callback_>>
    BY <1>11, <2>1 DEF Serve
  <2> QED
    BY <1>1, <2>1, <2>2, Assembled
<1>12. ASSUME NEW t \in Thread, FinishLine(t) PROVE StartInv'
  BY <1>12, FinishKeeps
<1>13. CASE UNCHANGED vars
  BY <1>13 DEF vars, serverVars
<1> QED
  BY <1>1, <1>2, <1>3, <1>4, <1>5, <1>6, <1>7, <1>8, <1>9, <1>10, <1>11,
     <1>12, <1>13 DEF Next, MainStep, WorkerStep

(* The asyncLogger is started once, though its test is not atomic, and no   *)
(* message comes before the callback (Logger.cpp:112-124).                  *)
THEOREM StartedOnce == Spec => []NeverTerminates
<1>1. Init => StartInv
  BY StartupAssumption DEF Init, Log!Init, StartInv, Places, Early, Late, Thread
<1>2. StartInv /\ [Next]_vars => StartInv'
  BY StartStep
<1>3. StartInv => NeverTerminates
  BY DEF StartInv, NeverTerminates
<1> QED
  BY <1>1, <1>2, <1>3, PTL DEF Spec

-----------------------------------------------------------------------------
(* Recursive functions. *)

(* A set of numbers has a least one: the provers' induction. *)
LEMMA LeastNat ==
  ASSUME NEW T \in SUBSET Nat, T # {}
  PROVE  \E m \in T : \A k \in T : m <= k
<1>1. PICK m \in T : \A k \in T : <<k, m>> \notin OpToRel(<, Nat)
  BY NatLessThanWellFounded, WFMin, Zenon
<1>2. \A k \in T : ~(k < m)
  BY <1>1, Zenon DEF OpToRel
<1> QED
  BY <1>2

(* A function that starts with c and goes on by G. *)
Follows(f, c, G) == f[0] = c /\ \A i \in Nat \ {0} : f[i] = G[i][f[i - 1]]

(* There is one. *)
LEMMA RecursionExists ==
  ASSUME NEW S, NEW c \in S, NEW G \in [Nat -> [S -> S]]
  PROVE  \E f \in [Nat -> S] : Follows(f, c, G)
<1> DEFINE Upto(n, h) ==
      \A i \in 0 .. n : h[i] = IF i = 0 THEN c ELSE G[i][h[i - 1]]
<1>1. \A n \in Nat : \E h \in [Nat -> S] : Upto(n, h)
  <2> DEFINE T == {n \in Nat : ~ \E h \in [Nat -> S] : Upto(n, h)}
  <2> SUFFICES ASSUME T # {} PROVE FALSE
    OBVIOUS
  <2>1. PICK m \in T : \A k \in T : m <= k
    BY LeastNat
  <2>2. CASE m = 0
    <3>1. Upto(0, [i \in Nat |-> c])
      OBVIOUS
    <3> QED
      BY <2>2, <3>1
  <2>3. CASE m # 0
    <3>1. PICK h \in [Nat -> S] : Upto(m - 1, h)
      <4> HIDE DEF Upto
      <4>1. m \in Nat /\ m - 1 \in Nat
        BY <2>3
      <4>2. m - 1 \notin T
        <5> HIDE DEF T
        <5> QED
          BY <2>1, <4>1
      <4> QED
        BY <4>1, <4>2
    <3> DEFINE last == G[m][h[m - 1]]
    <3> DEFINE h2 == [i \in Nat |-> IF i < m THEN h[i] ELSE last]
    <3>2. m - 1 \in Nat /\ last \in S
      BY <2>3
    <3>3. h2 \in [Nat -> S]
      BY <3>2
    <3>4. Upto(m, h2)
      <4>1. ASSUME NEW i \in 0 .. m - 1
            PROVE  h2[i] = IF i = 0 THEN c ELSE G[i][h2[i - 1]]
        BY <2>3, <3>1
      <4>2. h2[m] = last /\ h2[m - 1] = h[m - 1]
        BY <2>3
      <4> HIDE DEF h2
      <4> QED
        BY <2>3, <4>1, <4>2, SMTT(30)
    <3> QED
      BY <3>3, <3>4
  <2> QED
    BY <2>2, <2>3
<1>2. ASSUME NEW n \in Nat, NEW h, NEW k, Upto(n, h), Upto(n, k)
      PROVE  \A i \in 0 .. n : h[i] = k[i]
  <2> DEFINE T == {i \in 0 .. n : h[i] # k[i]}
  <2> SUFFICES ASSUME T # {} PROVE FALSE
    OBVIOUS
  <2>1. PICK m \in T : \A j \in T : m <= j
    <3>1. T \in SUBSET Nat
      OBVIOUS
    <3> QED
      BY <3>1, LeastNat
  <2>2. m # 0
    BY <1>2
  <2>3. h[m - 1] = k[m - 1]
    BY <2>1, <2>2
  <2> QED
    BY <1>2, <2>2, <2>3
<1>3. PICK a \in [Nat -> [Nat -> S]] : \A n \in Nat : Upto(n, a[n])
  <2> DEFINE a == [n \in Nat |-> CHOOSE h \in [Nat -> S] : Upto(n, h)]
  <2> HIDE DEF Upto
  <2>1. \A n \in Nat : a[n] \in [Nat -> S] /\ Upto(n, a[n])
    BY <1>1
  <2>2. a \in [Nat -> [Nat -> S]]
    BY <2>1
  <2> QED
    BY <2>1, <2>2
<1> DEFINE f == [n \in Nat |-> a[n][n]]
<1>4. f \in [Nat -> S]
  OBVIOUS
<1>5. ASSUME NEW n \in Nat
      PROVE  f[n] = IF n = 0 THEN c ELSE G[n][f[n - 1]]
  <2>upto. Upto(n, a[n]) /\ n \in 0 .. n
    BY <1>3
  <2>1. CASE n = 0
    BY <2>upto, <2>1
  <2>2. CASE n # 0
    <3>1. Upto(n - 1, a[n])
      BY <2>upto, <2>2
    <3>2. n - 1 \in Nat /\ Upto(n - 1, a[n - 1])
      <4> HIDE DEF Upto
      <4> QED
        BY <1>3, <2>2
    <3>3. a[n][n - 1] = a[n - 1][n - 1]
      <4> HIDE DEF Upto
      <4>1. \A i \in 0 .. n - 1 : a[n][i] = a[n - 1][i]
        BY <1>2, <3>1, <3>2
      <4> QED
        BY <3>2, <4>1
    <3>4. a[n][n] = G[n][a[n][n - 1]]
      BY <2>upto, <2>2
    <3> QED
      BY <2>2, <3>2, <3>3, <3>4
  <2> QED
    BY <2>1, <2>2
<1> HIDE DEF f
<1>6. Follows(f, c, G)
  BY <1>5 DEF Follows
<1> QED
  BY <1>4, <1>6

(* Powers of two: they double. *)
LEMMA PowerStep ==
  /\ Log!PowerOfTwo[0] = 1
  /\ \A n \in Nat \ {0} : Log!PowerOfTwo[n] = 2 * Log!PowerOfTwo[n - 1]
  /\ \A n \in Nat : /\ Log!PowerOfTwo[n] \in Nat \ {0}
                    /\ Log!PowerOfTwo[n + 1] = 2 * Log!PowerOfTwo[n]
<1> DEFINE p == CHOOSE p : p = [n \in Nat |-> IF n = 0 THEN 1 ELSE 2 * p[n - 1]]
<1> DEFINE G == [n \in Nat |-> [x \in Nat |-> 2 * x]]
<1>1. PICK f \in [Nat -> Nat] : Follows(f, 1, G)
  <2>1. G \in [Nat -> [Nat -> Nat]] /\ 1 \in Nat
    OBVIOUS
  <2> HIDE DEF G
  <2> QED
    BY <2>1, RecursionExists
<1>2. f = [i \in Nat |-> IF i = 0 THEN 1 ELSE 2 * f[i - 1]]
  <2>1. ASSUME NEW i \in Nat \ {0} PROVE f[i] = 2 * f[i - 1]
    <3>1. i - 1 \in Nat /\ f[i - 1] \in Nat
      OBVIOUS
    <3>2. G[i][f[i - 1]] = 2 * f[i - 1]
      BY <3>1
    <3> QED
      BY <1>1, <3>2 DEF Follows
  <2>2. f[0] = 1
    BY <1>1 DEF Follows
  <2> HIDE DEF G
  <2> QED
    BY <2>1, <2>2
<1>3. p = [n \in Nat |-> IF n = 0 THEN 1 ELSE 2 * p[n - 1]]
  BY <1>2, Zenon
<1>4. Log!PowerOfTwo = p
  BY Zenon DEF Log!PowerOfTwo
<1> HIDE DEF p
<1>5. \A n \in Nat : p[n] \in Nat \ {0}
  <2> DEFINE T == {n \in Nat : p[n] \notin Nat \ {0}}
  <2> SUFFICES ASSUME T # {} PROVE FALSE
    OBVIOUS
  <2>1. PICK m \in T : \A k \in T : m <= k
    BY LeastNat
  <2>2. m # 0
    BY <1>3
  <2>3. p[m - 1] \in Nat \ {0}
    BY <2>1, <2>2
  <2> QED
    BY <1>3, <2>2, <2>3
<1> QED
  BY <1>3, <1>4, <1>5

-----------------------------------------------------------------------------
(* The digits of an integer. *)

Abs(n) == IF n < 0 THEN -n ELSE n

(* Division by ten. *)
LEMMA DivisionFacts ==
  ASSUME NEW n \in Int
  PROVE  /\ Log!Quotient(n) \in Int /\ Log!Remainder(n) \in Int
         /\ n = 10 * Log!Quotient(n) + Log!Remainder(n)
         /\ n >= 0 => Log!Quotient(n) \in Nat /\ Log!Remainder(n) \in 0 .. 9
         /\ n <= 0 => Log!Quotient(n) <= 0 /\ Log!Remainder(n) \in -9 .. 0
         /\ 10 * Abs(Log!Quotient(n)) <= Abs(n)
         /\ Log!Quotient(n) # 0 => /\ Abs(Log!Quotient(n)) < Abs(n)
                                   /\ Abs(Log!Quotient(n)) >= 1
         /\ Abs(n) \in Nat
<1>1. CASE n >= 0
  <2>1. n \div 10 \in Nat /\ n - 10 * (n \div 10) \in 0 .. 9
    BY <1>1
  <2>2. n >= 0 /\ Log!Quotient(n) = n \div 10
    BY <1>1 DEF Log!Quotient
  <2>3. n = 0 => n \div 10 = 0
    BY <2>1
  <2> QED
    BY <2>1, <2>2, <2>3 DEF Log!Remainder, Abs
<1>2. CASE n < 0
  <2>1. (-n) \div 10 \in Nat /\ (-n) - 10 * ((-n) \div 10) \in 0 .. 9
    BY <1>2
  <2>2. Log!Quotient(n) = -((-n) \div 10)
    BY <1>2 DEF Log!Quotient
  <2> QED
    BY <1>2, <2>1, <2>2 DEF Log!Remainder, Abs
<1> QED
  BY <1>1, <1>2

(* What the loop writes for a number: its last digit, and what it writes    *)
(* for the rest.                                                            *)
LEMMA DigitsExist ==
  \E d \in [Int -> Seq(Int)] :
    d = [m \in Int |->
           IF Log!Quotient(m) = 0
             THEN <<Log!Remainder(m)>>
             ELSE <<Log!Remainder(m)>> \o d[Log!Quotient(m)]]
<1> DEFINE S == [Int -> Seq(Int)]
<1> DEFINE Write(d) == [m \in Int |->
                          IF Log!Quotient(m) = 0
                            THEN <<Log!Remainder(m)>>
                            ELSE <<Log!Remainder(m)>> \o d[Log!Quotient(m)]]
<1> DEFINE start == [m \in Int |-> <<>>]
<1> DEFINE G == [k \in Nat |-> [d \in S |-> Write(d)]]
<1>1. start \in S
  OBVIOUS
<1>2. ASSUME NEW d \in S PROVE Write(d) \in S
  <2>1. ASSUME NEW m \in Int
        PROVE  /\ Log!Remainder(m) \in Int /\ d[Log!Quotient(m)] \in Seq(Int)
    BY DivisionFacts
  <2> QED
    BY <2>1
<1>3. G \in [Nat -> [S -> S]]
  <2> HIDE DEF S, Write
  <2> QED
    BY <1>2
<1>4. PICK f \in [Nat -> S] : Follows(f, start, G)
  <2> HIDE DEF S, G, start
  <2> QED
    BY <1>1, <1>3, RecursionExists
<1>5. \A k \in Nat : f[k] \in S /\ f[k + 1] = Write(f[k])
  <2> HIDE DEF S, Write
  <2>1. ASSUME NEW k \in Nat PROVE f[k + 1] = Write(f[k])
    <3>1. k + 1 \in Nat \ {0} /\ (k + 1) - 1 = k /\ f[k] \in S
      OBVIOUS
    <3>2. f[k + 1] = G[k + 1][f[k]]
      <4> HIDE DEF G
      <4> QED
        BY <1>4, <3>1 DEF Follows
    <3> QED
      BY <3>1, <3>2
  <2> QED
    BY <2>1
<1>6. \A k \in Nat : \A m \in Int : Abs(m) < k => f[k][m] = f[k + 1][m]
  <2> DEFINE T == {k \in Nat : \E m \in Int : Abs(m) < k /\ f[k][m] # f[k + 1][m]}
  <2> SUFFICES ASSUME T # {} PROVE FALSE
    OBVIOUS
  <2>1. PICK k \in T : \A j \in T : k <= j
    BY LeastNat
  <2>2. PICK m \in Int : Abs(m) < k /\ f[k][m] # f[k + 1][m]
    OBVIOUS
  <2>0. k \in Nat /\ Abs(m) \in Nat
    BY DivisionFacts
  <2>3. k \in Nat /\ k - 1 \in Nat /\ k - 1 \notin T /\ (k - 1) + 1 = k
    <3> HIDE DEF T
    <3> QED
      BY <2>0, <2>1, <2>2
  <2>4. f[k] = Write(f[k - 1]) /\ f[k + 1] = Write(f[k])
    <3> HIDE DEF Write, T
    <3> QED
      BY <1>5, <2>3
  <2>5. CASE Log!Quotient(m) = 0
    BY <2>2, <2>4, <2>5
  <2>6. CASE Log!Quotient(m) # 0
    <3>1. /\ Log!Quotient(m) \in Int
          /\ Abs(Log!Quotient(m)) \in Nat /\ Abs(m) \in Nat
          /\ Abs(Log!Quotient(m)) < Abs(m)
      BY <2>6, DivisionFacts
    <3>2. Abs(Log!Quotient(m)) < k - 1
      BY <2>2, <2>3, <3>1
    <3>3. f[k - 1][Log!Quotient(m)] = f[k][Log!Quotient(m)]
      <4>1. \A j \in Nat : j \notin T =>
              \A q \in Int : Abs(q) < j => f[j][q] = f[j + 1][q]
        OBVIOUS
      <4> HIDE DEF T
      <4> QED
        BY <2>3, <3>1, <3>2, <4>1
    <3>4. /\ f[k][m] = <<Log!Remainder(m)>> \o f[k - 1][Log!Quotient(m)]
          /\ f[k + 1][m] = <<Log!Remainder(m)>> \o f[k][Log!Quotient(m)]
      <4> HIDE DEF T
      <4> QED
        BY <2>4, <2>6
    <3> QED
      BY <2>2, <3>3, <3>4, Zenon
  <2> QED
    BY <2>5, <2>6
<1>7. \A m \in Int : \A k \in Nat :
        Abs(m) < k => f[k][m] = f[Abs(m) + 1][m]
  <2> SUFFICES ASSUME NEW m \in Int
               PROVE  \A k \in Nat : Abs(m) < k => f[k][m] = f[Abs(m) + 1][m]
    OBVIOUS
  <2> DEFINE T == {k \in Nat : Abs(m) < k /\ f[k][m] # f[Abs(m) + 1][m]}
  <2> SUFFICES ASSUME T # {} PROVE FALSE
    OBVIOUS
  <2>1. PICK k \in T : \A j \in T : k <= j
    BY LeastNat
  <2>2. Abs(m) \in Nat /\ k \in Nat
    BY DivisionFacts
  <2>3. k # Abs(m) + 1 /\ Abs(m) < k
    <3>1. k \in Nat /\ Abs(m) < k /\ f[k][m] # f[Abs(m) + 1][m]
      OBVIOUS
    <3> QED
      BY <3>1
  <2>4. k - 1 \in Nat /\ Abs(m) < k - 1 /\ (k - 1) + 1 = k
    <3>1. \A a, b \in Nat : b # a + 1 /\ a < b =>
            b - 1 \in Nat /\ a < b - 1 /\ (b - 1) + 1 = b
      OBVIOUS
    <3> HIDE DEF T
    <3> QED
      BY <2>2, <2>3, <3>1, Zenon
  <2>5. k - 1 \notin T
    <3> HIDE DEF T
    <3> QED
      BY <2>1, <2>2
  <2>6. f[k - 1][m] = f[Abs(m) + 1][m]
    BY <2>4, <2>5
  <2>7. f[k - 1][m] = f[k][m]
    BY <1>6, <2>4
  <2> QED
    BY <2>6, <2>7
<1> DEFINE d == [m \in Int |-> f[Abs(m) + 1][m]]
<1>8. d \in S
  <2>1. ASSUME NEW m \in Int PROVE f[Abs(m) + 1][m] \in Seq(Int)
    <3>1. Abs(m) + 1 \in Nat
      BY DivisionFacts
    <3> QED
      BY <1>5, <3>1
  <2> QED
    BY <2>1
<1>9. ASSUME NEW m \in Int
      PROVE  d[m] = IF Log!Quotient(m) = 0
                      THEN <<Log!Remainder(m)>>
                      ELSE <<Log!Remainder(m)>> \o d[Log!Quotient(m)]
  <2>1. Abs(m) \in Nat /\ Log!Quotient(m) \in Int
    BY DivisionFacts
  <2>2. f[Abs(m) + 1] = Write(f[Abs(m)])
    <3> HIDE DEF Write
    <3> QED
      BY <1>5, <2>1
  <2>3. CASE Log!Quotient(m) = 0
    BY <2>2, <2>3
  <2>4. CASE Log!Quotient(m) # 0
    <3>1. f[Abs(m)][Log!Quotient(m)] = d[Log!Quotient(m)]
      BY <1>7, <2>1, <2>4, DivisionFacts
    <3> QED
      BY <2>2, <2>4, <3>1
  <2> QED
    BY <2>3, <2>4
<1>10. d = [m \in Int |->
              IF Log!Quotient(m) = 0
                THEN <<Log!Remainder(m)>>
                ELSE <<Log!Remainder(m)>> \o d[Log!Quotient(m)]]
  <2> HIDE DEF d
  <2> QED
    BY <1>8, <1>9
<1> QED
  <2> HIDE DEF d
  <2> QED
    BY <1>8, <1>10

LEMMA DigitsStep ==
  ASSUME NEW n \in Int
  PROVE  Log!Digits(n) = IF Log!Quotient(n) = 0
                           THEN <<Log!Remainder(n)>>
                           ELSE <<Log!Remainder(n)>> \o Log!Digits(Log!Quotient(n))
<1> DEFINE d == CHOOSE d : d = [m \in Int |->
                                 IF Log!Quotient(m) = 0
                                   THEN <<Log!Remainder(m)>>
                                   ELSE <<Log!Remainder(m)>> \o d[Log!Quotient(m)]]
<1>1. d = [m \in Int |->
             IF Log!Quotient(m) = 0
               THEN <<Log!Remainder(m)>>
               ELSE <<Log!Remainder(m)>> \o d[Log!Quotient(m)]]
  BY DigitsExist, Zenon
<1>2. \A m : Log!Digits(m) = d[m]
  BY Zenon DEF Log!Digits
<1> HIDE DEF d
<1>3. d[n] = IF Log!Quotient(n) = 0
               THEN <<Log!Remainder(n)>>
               ELSE <<Log!Remainder(n)>> \o d[Log!Quotient(n)]
  BY <1>1, Zenon
<1> QED
  BY <1>2, <1>3, Zenon

LEMMA DigitsAreInts == \A n \in Int : Log!Digits(n) \in Seq(Int)
<1>1. ASSUME NEW n \in Int,
             \A m \in Int : Abs(m) < Abs(n) => Log!Digits(m) \in Seq(Int)
      PROVE  Log!Digits(n) \in Seq(Int)
  <2>1. PICK q \in Int, r \in Int : q = Log!Quotient(n) /\ r = Log!Remainder(n)
    BY DivisionFacts
  <2>2. PICK e : e = Log!Digits(q)
    OBVIOUS
  <2>3. q # 0 => e \in Seq(Int)
    BY <1>1, <2>1, <2>2, DivisionFacts
  <2>4. Log!Digits(n) = IF q = 0 THEN <<r>> ELSE <<r>> \o e
    BY <2>1, <2>2, DigitsStep
  <2> QED
    BY <2>1, <2>3, <2>4
<1> DEFINE T == {k \in Nat : \E n \in Int : Abs(n) = k /\ Log!Digits(n) \notin Seq(Int)}
<1>2. ASSUME T # {} PROVE FALSE
  <2>1. PICK k \in T : \A j \in T : k <= j
    BY <1>2, LeastNat
  <2>2. PICK n \in Int : Abs(n) = k /\ Log!Digits(n) \notin Seq(Int)
    OBVIOUS
  <2>3. \A m \in Int : Abs(m) \in Nat /\ (Log!Digits(m) \in Seq(Int) \/ Abs(m) \in T)
    BY DivisionFacts
  <2>4. k \in Nat
    OBVIOUS
  <2> HIDE DEF T
  <2>5. \A m \in Int : Abs(m) < Abs(n) => Log!Digits(m) \in Seq(Int)
    BY <2>1, <2>2, <2>3, <2>4
  <2> QED
    BY <1>1, <2>2, <2>5
<1> SUFFICES ASSUME NEW n \in Int PROVE Log!Digits(n) \in Seq(Int)
  OBVIOUS
<1>3. Abs(n) \in Nat
  BY DivisionFacts
<1> QED
  BY <1>2, <1>3

LEMMA DigitsLength ==
  ASSUME NEW n \in Int
  PROVE  /\ Len(Log!Digits(n)) \in Nat /\ Len(Log!Digits(n)) >= 1
         /\ Log!Quotient(n) = 0 => Len(Log!Digits(n)) = 1
         /\ Log!Quotient(n) # 0 =>
              Len(Log!Digits(n)) = 1 + Len(Log!Digits(Log!Quotient(n)))
<1>1. PICK q \in Int, r \in Int : q = Log!Quotient(n) /\ r = Log!Remainder(n)
  BY DivisionFacts
<1>2. PICK e \in Seq(Int) : e = Log!Digits(q)
  BY DigitsAreInts
<1>3. Log!Digits(n) = IF q = 0 THEN <<r>> ELSE <<r>> \o e
  BY <1>1, <1>2, DigitsStep
<1>4. Len(<<r>>) = 1 /\ Len(<<r>> \o e) = 1 + Len(e)
  BY <1>1, <1>2
<1>5. Len(Log!Digits(n)) \in Nat
  BY DigitsAreInts
<1> QED
  BY <1>1, <1>2, <1>3, <1>4, <1>5

(* An integer of k bits has at most k digits. *)
HasDigits(n, k) == Abs(n) <= Log!PowerOfTwo[k] => Len(Log!Digits(n)) <= k

LEMMA DigitsBound == \A k \in Nat \ {0} : \A n \in Int : HasDigits(n, k)
<1>1. ASSUME NEW k \in Nat \ {0},
             k - 1 \in Nat \ {0} => \A m \in Int : HasDigits(m, k - 1),
             NEW n \in Int, Abs(n) <= Log!PowerOfTwo[k]
      PROVE  Len(Log!Digits(n)) <= k
  <2>1. PICK q \in Int : q = Log!Quotient(n)
    BY DivisionFacts
  <2>2. PICK a \in Nat, b \in Nat :
          a = Abs(n) /\ b = Abs(q) /\ 10 * b <= a /\ (q # 0 => b >= 1)
    BY <2>1, DivisionFacts
  <2>3. /\ Log!PowerOfTwo[k] \in Nat /\ Log!PowerOfTwo[k - 1] \in Nat
        /\ Log!PowerOfTwo[k] = 2 * Log!PowerOfTwo[k - 1]
    <3>1. k - 1 \in Nat /\ k \in Nat
      OBVIOUS
    <3> QED
      BY <3>1, PowerStep
  <2>4. CASE q = 0
    <3>1. Len(Log!Digits(n)) = 1
      BY <2>1, <2>4, DigitsLength
    <3> QED
      BY <3>1
  <2>5. CASE q # 0
    <3>1. k # 1
      <4>1. Log!PowerOfTwo[1] = 2 * Log!PowerOfTwo[1 - 1]
        BY PowerStep
      <4>2. Log!PowerOfTwo[1] = 2
        BY <4>1, PowerStep
      <4> QED
        BY <1>1, <2>2, <2>5, <4>2
    <3>2. b <= Log!PowerOfTwo[k - 1]
      BY <1>1, <2>2, <2>3
    <3>3. k - 1 \in Nat \ {0}
      BY <3>1
    <3>4. Len(Log!Digits(q)) <= k - 1
      BY <1>1, <2>2, <3>2, <3>3 DEF HasDigits
    <3>5. /\ Len(Log!Digits(n)) = 1 + Len(Log!Digits(q))
          /\ Len(Log!Digits(q)) \in Nat
      BY <2>1, <2>5, DigitsLength
    <3> QED
      BY <3>4, <3>5
  <2> QED
    BY <2>4, <2>5
<1>2. ASSUME NEW k \in Nat \ {0},
             k - 1 \in Nat \ {0} => \A m \in Int : HasDigits(m, k - 1)
      PROVE  \A n \in Int : HasDigits(n, k)
  BY <1>1, <1>2 DEF HasDigits
<1> DEFINE T == {k \in Nat \ {0} : ~ \A n \in Int : HasDigits(n, k)}
<1> SUFFICES ASSUME T # {} PROVE FALSE
  OBVIOUS
<1>3. T \in SUBSET Nat
  OBVIOUS
<1>4. PICK k \in T : \A j \in T : k <= j
  BY <1>3, LeastNat
<1>5. k \in Nat \ {0} /\ ~ \A n \in Int : HasDigits(n, k)
  OBVIOUS
<1>6. \A j \in Nat \ {0} : j \in T \/ \A m \in Int : HasDigits(m, j)
  OBVIOUS
<1> HIDE DEF T
<1>7. k - 1 \notin T
  BY <1>4, <1>5
<1>8. k - 1 \in Nat \ {0} => \A m \in Int : HasDigits(m, k - 1)
  BY <1>6, <1>7
<1> QED
  BY <1>2, <1>5, <1>8

(* q has the number and what is left of it behind each digit of d. *)
Chain(d, q, n) ==
  /\ d \in Seq(Int) /\ Len(d) \in Nat /\ Len(d) >= 1
  /\ q \in [Nat -> Nat]
  /\ q[0] = n /\ q[Len(d)] = 0
  /\ \A j \in 1 .. Len(d) : q[j - 1] = 10 * q[j] + d[j] /\ d[j] \in 0 .. 9
  /\ Len(d) > 1 => d[Len(d)] # 0

Chained(n) == \E q : Chain(Log!Digits(n), q, n)

LEMMA ChainStep ==
  ASSUME NEW n \in Nat, \A m \in Nat : m < n => Chained(m)
  PROVE  Chained(n)
<1>1. PICK m \in Nat, r \in 0 .. 9 :
        /\ m = Log!Quotient(n) /\ r = Log!Remainder(n)
        /\ n = 10 * m + r
  <2>1. n \in Int /\ n >= 0
    OBVIOUS
  <2> QED
    BY <2>1, DivisionFacts
<1>d. Log!Digits(n) = IF m = 0 THEN <<r>> ELSE <<r>> \o Log!Digits(m)
  <2>1. n \in Int
    OBVIOUS
  <2> QED
    BY <1>1, <2>1, DigitsStep, Zenon
<1>2. CASE m = 0
  <2> DEFINE q == [j \in Nat |-> IF j = 0 THEN n ELSE 0]
  <2>1. Log!Digits(n) = <<r>>
    BY <1>1, <1>2, <1>d
  <2>2. q \in [Nat -> Nat]
    OBVIOUS
  <2>3. Chain(<<r>>, q, n)
    BY <1>1, <1>2, <2>2 DEF Chain
  <2> QED
    BY <2>1, <2>3 DEF Chained
<1>3. CASE m # 0
  <2>1. m < n
    BY <1>1, <1>3
  <2>2. PICK p : Chain(Log!Digits(m), p, m)
    BY <2>1 DEF Chained
  <2>3. PICK e : e = Log!Digits(m)
    OBVIOUS
  <2>4. /\ e \in Seq(Int) /\ Len(e) \in Nat /\ Len(e) >= 1
        /\ p \in [Nat -> Nat] /\ p[0] = m /\ p[Len(e)] = 0
        /\ \A j \in 1 .. Len(e) : p[j - 1] = 10 * p[j] + e[j] /\ e[j] \in 0 .. 9
        /\ Len(e) > 1 => e[Len(e)] # 0
    BY <2>2, <2>3 DEF Chain
  <2> DEFINE d == <<r>> \o e
  <2> DEFINE q == [j \in Nat |-> IF j = 0 THEN n ELSE p[j - 1]]
  <2>5. /\ d \in Seq(Int) /\ Len(d) = Len(e) + 1 /\ d[1] = r
        /\ \A j \in 1 .. Len(e) : d[j + 1] = e[j]
    <3>1. <<r>> \in Seq(Int) /\ Len(<<r>>) = 1 /\ <<r>>[1] = r
      OBVIOUS
    <3> QED
      BY <2>4, <3>1
  <2>6. /\ q \in [Nat -> Nat] /\ q[0] = n
        /\ \A j \in Nat \ {0} : q[j] = p[j - 1]
    BY <2>4, SMTT(30)
  <2>d. Log!Digits(n) = d
    BY <1>d, <1>3, <2>3, Zenon
  <2> HIDE DEF d, q
  <2>7. q[Len(d)] = 0
    BY <2>4, <2>5, <2>6
  <2>8. ASSUME NEW j \in 1 .. Len(d)
        PROVE  q[j - 1] = 10 * q[j] + d[j] /\ d[j] \in 0 .. 9
    <3>1. CASE j = 1
      BY <1>1, <2>4, <2>5, <2>6, <3>1
    <3>2. CASE j # 1
      <4>1. PICK i \in 1 .. Len(e) : j = i + 1 /\ j - 1 = i /\ i \in Nat \ {0}
        BY <2>4, <2>5, <3>2
      <4>2. q[i] = p[i - 1] /\ d[i + 1] = e[i]
        BY <2>5, <2>6, <4>1
      <4>3. q[i + 1] = p[i]
        <5>1. i + 1 \in Nat \ {0} /\ (i + 1) - 1 = i
          BY <4>1
        <5> QED
          BY <2>6, <5>1
      <4> QED
        BY <2>4, <4>1, <4>2, <4>3
    <3> QED
      BY <3>1, <3>2
  <2>9. d[Len(d)] # 0
    <3>1. PICK i \in 1 .. Len(e) : i = Len(e) /\ i + 1 = Len(d)
      BY <2>4, <2>5
    <3>2. d[i + 1] = e[i]
      BY <2>5
    <3>3. p[i - 1] = 10 * p[i] + e[i] /\ p[i] = 0 /\ e[i] \in 0 .. 9
      BY <2>4, <3>1
    <3>4. p[i - 1] = e[i]
      BY <3>3
    <3>5. CASE i = 1
      <4>1. i - 1 = 0
        BY <3>5
      <4>2. e[i] = m
        BY <2>4, <3>4, <4>1
      <4> QED
        BY <1>3, <3>1, <3>2, <4>2
    <3>6. CASE i # 1
      <4>1. Len(e) > 1
        BY <3>1, <3>6
      <4>2. e[i] # 0
        BY <2>4, <3>1, <4>1, Zenon
      <4> QED
        BY <3>1, <3>2, <4>2, Zenon
    <3> QED
      BY <3>5, <3>6
  <2>10. Chain(d, q, n)
    <3>1. Len(d) \in Nat /\ Len(d) >= 1
      BY <2>4, <2>5
    <3> QED
      BY <3>1, <2>5, <2>6, <2>7, <2>8, <2>9 DEF Chain
  <2> QED
    BY <2>10, <2>d DEF Chained
<1> QED
  BY <1>2, <1>3

LEMMA DigitsChain == \A n \in Nat : Chained(n)
<1> DEFINE T == {n \in Nat : ~Chained(n)}
<1> SUFFICES ASSUME T # {} PROVE FALSE
  OBVIOUS
<1>1. PICK n \in T : \A j \in T : n <= j
  BY LeastNat
<1>2. n \in Nat /\ ~Chained(n) /\ \A m \in Nat : m \in T \/ Chained(m)
  OBVIOUS
<1> HIDE DEF T
<1>3. \A m \in Nat : m < n => Chained(m)
  BY <1>1, <1>2
<1> QED
  BY <1>2, <1>3, ChainStep

-----------------------------------------------------------------------------
(* What is written for an integer. *)

(* The digits of a number, turned around, read as the number.               *)
LEMMA ReadsBack ==
  ASSUME NEW n \in Nat, NEW minus \in BOOLEAN,
         NEW text, text = [minus  |-> minus, digits |-> Log!Reverse(Log!Digits(n))]
  PROVE  /\ Log!IsNumber(text)
         /\ Log!NumberOf(text) = IF minus THEN -n ELSE n
         /\ Len(text.digits) = Len(Log!Digits(n))
         /\ Len(text.digits) > 1 => Head(text.digits) # 0
<1>1. PICK d, q : d = Log!Digits(n) /\ Chain(d, q, n)
  BY DigitsChain DEF Chained
<1>2. PICK L \in Nat : L = Len(d) /\ L >= 1
  BY <1>1 DEF Chain
<1>3. PICK t : t = Log!Reverse(d)
  OBVIOUS
<1>4. t = [i \in 1 .. L |-> d[(L - i) + 1]]
  BY <1>2, <1>3 DEF Log!Reverse
<1>5. /\ d \in Seq(Int) /\ q \in [Nat -> Nat] /\ q[0] = n /\ q[L] = 0
      /\ \A j \in 1 .. L : q[j - 1] = 10 * q[j] + d[j] /\ d[j] \in 0 .. 9
      /\ L > 1 => d[L] # 0
  BY <1>1, <1>2, Zenon DEF Chain
<1>6. /\ t \in Seq(Int) /\ Len(t) = L
      /\ \A i \in 1 .. L : t[i] = d[(L - i) + 1] /\ t[i] \in 0 .. 9
  <2>1. \A i \in 1 .. L : (L - i) + 1 \in 1 .. L
    OBVIOUS
  <2>2. \A i \in 1 .. L : d[(L - i) + 1] \in 0 .. 9
    BY <1>5, <2>1
  <2> QED
    BY <1>4, <2>2
<1>7. text.digits = t /\ text.minus = minus
  BY <1>1, <1>3
<1>8. Log!IsNumber(text)
  <2>1. t # <<>> /\ DOMAIN t = 1 .. L
    BY <1>2, <1>6
  <2> QED
    BY <1>6, <1>7, <2>1 DEF Log!IsNumber
<1>9. L > 1 => Head(t) # 0
  <2>1. 1 \in 1 .. L /\ (L - 1) + 1 = L
    BY <1>2
  <2>2. Head(t) = t[1]
    BY <1>2, <1>6
  <2>3. t[1] = d[L]
    BY <1>6, <2>1
  <2> QED
    BY <1>5, <2>2, <2>3
<1>10. Log!NumberOf(text) = IF minus THEN -n ELSE n
  <2> DEFINE magnitude == CHOOSE magnitude : magnitude =
        [i \in 0 .. Len(text.digits) |->
           IF i = 0 THEN 0 ELSE 10 * magnitude[i - 1] + text.digits[i]]
  <2> DEFINE g == [i \in 0 .. Len(text.digits) |-> q[L - i]]
  <2>1. Len(text.digits) = L
    BY <1>6, <1>7
  <2>2. ASSUME NEW i \in 0 .. Len(text.digits)
        PROVE  g[i] = IF i = 0 THEN 0 ELSE 10 * g[i - 1] + text.digits[i]
    <3>1. CASE i = 0
      BY <1>5, <2>1, <3>1
    <3>2. CASE i # 0
      <4>1. PICK j \in 1 .. L : j = (L - i) + 1 /\ j - 1 = L - i /\ j = L - (i - 1)
        BY <2>1, <3>2
      <4>2. g[i] = q[j - 1] /\ g[i - 1] = q[j]
        BY <2>1, <3>2, <4>1
      <4>3. i \in 1 .. L
        BY <2>1, <3>2
      <4>4. text.digits[i] = d[j]
        BY <1>6, <1>7, <4>1, <4>3
      <4> HIDE DEF g
      <4> QED
        BY <1>5, <3>2, <4>2, <4>4
    <3> QED
      BY <3>1, <3>2
  <2>3. g = [i \in 0 .. Len(text.digits) |->
               IF i = 0 THEN 0 ELSE 10 * g[i - 1] + text.digits[i]]
    <3>1. g = [i \in 0 .. Len(text.digits) |-> g[i]]
      OBVIOUS
    <3> HIDE DEF g
    <3> QED
      BY <2>2, <3>1
  <2>4. magnitude = [i \in 0 .. Len(text.digits) |->
               IF i = 0 THEN 0 ELSE 10 * magnitude[i - 1] + text.digits[i]]
    <3> HIDE DEF g
    <3> QED
      BY <2>3, Zenon
  <2>5. Log!NumberOf(text) =
          IF text.minus THEN -magnitude[Len(text.digits)]
                        ELSE magnitude[Len(text.digits)]
    BY Zenon DEF Log!NumberOf
  <2> HIDE DEF magnitude
  <2>6. \A i \in 0 .. L : magnitude[i] = q[L - i]
    <3> DEFINE T == {i \in 0 .. L : magnitude[i] # q[L - i]}
    <3> SUFFICES ASSUME T # {} PROVE FALSE
      OBVIOUS
    <3>1. T \in SUBSET Nat
      OBVIOUS
    <3>2. PICK i \in T : \A k \in T : i <= k
      BY <3>1, LeastNat
    <3>3. i \in 0 .. L /\ magnitude[i] # q[L - i]
      OBVIOUS
    <3>4. i # 0
      BY <1>5, <2>1, <2>4, <3>3
    <3>5. \A k \in 0 .. L : k \in T \/ magnitude[k] = q[L - k]
      OBVIOUS
    <3> HIDE DEF T
    <3>6. i - 1 \in 0 .. L /\ i - 1 \notin T
      BY <3>2, <3>3, <3>4
    <3>7. magnitude[i - 1] = q[L - (i - 1)]
      BY <3>5, <3>6
    <3>8. PICK j \in 1 .. L : j = (L - i) + 1 /\ j - 1 = L - i /\ j = L - (i - 1)
      BY <3>3, <3>4
    <3>9. i \in 1 .. L
      BY <3>3, <3>4
    <3>10. text.digits[i] = d[j]
      BY <1>6, <1>7, <3>8, <3>9
    <3>11. magnitude[i] = 10 * magnitude[i - 1] + text.digits[i]
      BY <2>1, <2>4, <3>3, <3>4
    <3> QED
      BY <1>5, <3>3, <3>7, <3>8, <3>10, <3>11
  <2>7. magnitude[L] = n
    BY <1>5, <2>6
  <2> QED
    BY <1>7, <2>1, <2>5, <2>7
<1> QED
  BY <1>1, <1>6, <1>7, <1>2, <1>8, <1>9, <1>10

(* A power of two is no multiple of five. *)
Fives(k) == \E a \in Nat, r \in 1 .. 4 : Log!PowerOfTwo[k] = 5 * a + r

LEMMA PowerNotOfFive == \A k \in Nat : Fives(k)
<1>1. ASSUME NEW k \in Nat, k # 0 => Fives(k - 1) PROVE Fives(k)
  <2>1. CASE k = 0
    <3>1. Log!PowerOfTwo[0] = 5 * 0 + 1
      BY PowerStep
    <3> QED
      BY <2>1, <3>1 DEF Fives
  <2>2. CASE k # 0
    <3>1. PICK a \in Nat, r \in 1 .. 4 : Log!PowerOfTwo[k - 1] = 5 * a + r
      BY <1>1, <2>2 DEF Fives
    <3>2. Log!PowerOfTwo[k] = 2 * Log!PowerOfTwo[k - 1]
      BY <2>2, PowerStep
    <3>3. CASE r \in 1 .. 2
      <4>1. Log!PowerOfTwo[k] = 5 * (2 * a) + 2 * r /\ 2 * a \in Nat /\ 2 * r \in 1 .. 4
        BY <3>1, <3>2, <3>3
      <4> QED
        BY <4>1 DEF Fives
    <3>4. CASE r \in 3 .. 4
      <4>1. /\ Log!PowerOfTwo[k] = 5 * (2 * a + 1) + (2 * r - 5)
            /\ 2 * a + 1 \in Nat /\ 2 * r - 5 \in 1 .. 4
        BY <3>1, <3>2, <3>4
      <4> QED
        BY <4>1 DEF Fives
    <3> QED
      BY <3>3, <3>4
  <2> QED
    BY <2>1, <2>2
<1> DEFINE T == {k \in Nat : ~Fives(k)}
<1> SUFFICES ASSUME T # {} PROVE FALSE
  OBVIOUS
<1>2. PICK k \in T : \A j \in T : k <= j
  BY LeastNat
<1>3. k \in Nat /\ ~Fives(k) /\ \A j \in Nat : j \in T \/ Fives(j)
  OBVIOUS
<1> HIDE DEF T
<1>4. k # 0 => k - 1 \in Nat /\ k - 1 \notin T
  BY <1>2, <1>3
<1> QED
  BY <1>1, <1>3, <1>4

(* Negated, the smallest value of a type stays what it is; each other one   *)
(* becomes its magnitude.                                                   *)
LEMMA WrapFacts ==
  ASSUME NEW width \in 2 .. 64, NEW value \in Log!Smallest(width) .. -1
  PROVE  Log!Wrap(-value, width) =
           IF value = Log!Smallest(width) THEN value ELSE -value
<1>1. PICK p \in Nat \ {0} :
        /\ p = Log!PowerOfTwo[width - 1] /\ Log!PowerOfTwo[width] = 2 * p
        /\ Log!Smallest(width) = -p
  <2>1. width - 1 \in Nat /\ width \in Nat \ {0}
    OBVIOUS
  <2> QED
    BY <2>1, PowerStep DEF Log!Smallest
<1>2. Log!Wrap(-value, width) = ((-value + p) % (2 * p)) - p
  BY <1>1 DEF Log!Wrap
<1>3. CASE value = -p
  <2>1. (p + p) % (2 * p) = 0
    OBVIOUS
  <2> QED
    BY <1>1, <1>2, <1>3, <2>1
<1>4. CASE value # -p
  <2>1. -value + p \in 0 .. 2 * p - 1
    BY <1>1, <1>4
  <2>2. \A m \in Nat \ {0} : \A x \in 0 .. m - 1 : x % m = x
    OBVIOUS
  <2>3. (-value + p) % (2 * p) = -value + p
    BY <2>1, <2>2
  <2> QED
    BY <1>1, <1>2, <1>4, <2>3
<1> QED
  BY <1>1, <1>3, <1>4

LEMMA Written ==
  ASSUME Log!StreamAssumption, NEW width \in 2 .. 64,
         NEW value \in Log!Smallest(width) .. Log!PowerOfTwo[width] - 1
  PROVE  Log!WrittenRight(value, width)
<1> DEFINE text == Log!FormatInteger(value, width)
<1>0. /\ Log!PowerOfTwo[width - 1] \in Nat \ {0} /\ Log!PowerOfTwo[width] \in Nat \ {0}
      /\ Log!Smallest(width) = -Log!PowerOfTwo[width - 1]
      /\ width - 1 \in Nat \ {0} /\ width \in Nat \ {0}
      /\ value \in Int /\ width <= kMaxNumericSize /\ kMaxNumericSize \in Nat
  <2>1. width - 1 \in Nat \ {0} /\ width \in Nat \ {0}
    OBVIOUS
  <2>2. Log!PowerOfTwo[width - 1] \in Nat \ {0} /\ Log!PowerOfTwo[width] \in Nat \ {0}
    BY <2>1, PowerStep
  <2> QED
    BY <2>1, <2>2 DEF Log!Smallest, Log!StreamAssumption
<1>1. CASE value >= 0
  <2>1. text = [minus |-> FALSE, digits |-> Log!Reverse(Log!Digits(value))]
    <3>1. (value < 0) = FALSE
      BY <1>0, <1>1
    <3> QED
      BY <3>1, Zenon DEF Log!FormatInteger
  <2> HIDE DEF text
  <2>2. value \in Nat
    BY <1>0, <1>1
  <2>3. /\ Log!IsNumber(text) /\ Log!NumberOf(text) = value
        /\ Len(text.digits) = Len(Log!Digits(value))
        /\ Len(text.digits) > 1 => Head(text.digits) # 0
    BY <2>1, <2>2, ReadsBack
  <2>4. Len(Log!Digits(value)) <= width
    <3>1. Abs(value) <= Log!PowerOfTwo[width]
      BY <1>0, <1>1 DEF Abs
    <3> QED
      BY <1>0, <3>1, DigitsBound DEF HasDigits
  <2>5. Len(text.digits) + 0 <= kMaxNumericSize
    BY <1>0, <2>3, <2>4, DigitsLength
  <2>6. value # Log!Smallest(width) /\ ~text.minus
    BY <1>0, <1>1, <2>1
  <2> QED
    BY <2>3, <2>5, <2>6 DEF Log!WrittenRight, text
<1>2. CASE value < 0
  <2>0. value \in Log!Smallest(width) .. -1
    BY <1>0, <1>2
  <2>bound. /\ Abs(value) <= Log!PowerOfTwo[width - 1]
            /\ Abs(-value) <= Log!PowerOfTwo[width - 1]
    BY <1>0, <1>2 DEF Abs
  <2>1. CASE value = Log!Smallest(width)
    <3>1. text = [minus |-> TRUE, digits |-> Log!Reverse(Log!Digits(value))]
      BY <1>2, <2>0, <2>1, WrapFacts DEF Log!FormatInteger
    <3> HIDE DEF text
    <3>2. PICK d \in Seq(Int) : d = Log!Digits(value)
      BY <1>0, DigitsAreInts
    <3>3. Len(d) <= width - 1 /\ Len(d) \in Nat /\ Len(d) >= 1
      <4>1. Len(d) <= width - 1
        BY <1>0, <2>bound, <3>2, DigitsBound DEF HasDigits
      <4>2. Len(d) \in Nat /\ Len(d) >= 1
        BY <1>0, <3>2, DigitsLength
      <4> QED
        BY <4>1, <4>2
    <3>4. d[1] = Log!Remainder(value)
      <4>1. PICK q \in Int, r \in Int : q = Log!Quotient(value) /\ r = Log!Remainder(value)
        BY <1>0, DivisionFacts
      <4>2. PICK e \in Seq(Int) : e = Log!Digits(q)
        BY DigitsAreInts
      <4>3. d = IF q = 0 THEN <<r>> ELSE <<r>> \o e
        BY <1>0, <3>2, <4>1, <4>2, DigitsStep
      <4>4. <<r>>[1] = r /\ (<<r>> \o e)[1] = r
        OBVIOUS
      <4> QED
        BY <4>1, <4>3, <4>4
    <3>5. Log!Remainder(value) \notin 0 .. 9
      <4>1. PICK a \in Nat, b \in 1 .. 4 : Log!PowerOfTwo[width - 1] = 5 * a + b
        BY <1>0, PowerNotOfFive DEF Fives
      <4>2. PICK q \in Int, r \in -9 .. 0 : value = 10 * q + r /\ r = Log!Remainder(value)
        <5>1. value \in Int /\ value <= 0
          BY <1>0, <1>2
        <5>2. /\ Log!Quotient(value) \in Int /\ Log!Remainder(value) \in -9 .. 0
              /\ value = 10 * Log!Quotient(value) + Log!Remainder(value)
          BY <5>1, DivisionFacts
        <5> QED
          BY <5>2, Zenon
      <4>3. -(5 * a + b) = 10 * q + r
        BY <1>0, <2>1, <4>1, <4>2
      <4>4. r # 0
        BY <4>3
      <4>5. r \notin 0 .. 9
        BY <4>4
      <4> QED
        BY <4>2, <4>5, Zenon
    <3>6. /\ Len(text.digits) = Len(d)
          /\ Len(d) \in DOMAIN text.digits /\ text.digits[Len(d)] = d[1]
      <4>1. text.digits = [i \in 1 .. Len(d) |-> d[(Len(d) - i) + 1]]
        BY <3>1, <3>2 DEF Log!Reverse
      <4>2. Len(d) \in 1 .. Len(d) /\ (Len(d) - Len(d)) + 1 = 1
        BY <3>3
      <4> QED
        BY <3>3, <4>1, <4>2
    <3>7. ~Log!IsNumber(text)
      BY <3>4, <3>5, <3>6 DEF Log!IsNumber
    <3>8. text.minus /\ Len(text.digits) + 1 <= kMaxNumericSize
      BY <1>0, <3>1, <3>3, <3>6
    <3> QED
      BY <2>1, <3>7, <3>8 DEF Log!WrittenRight, text
  <2>2. CASE value # Log!Smallest(width)
    <3>1. text = [minus |-> TRUE, digits |-> Log!Reverse(Log!Digits(-value))]
      BY <1>2, <2>0, <2>2, WrapFacts DEF Log!FormatInteger
    <3> HIDE DEF text
    <3>2. -value \in Nat /\ -(-value) = value
      BY <1>0, <1>2
    <3>3. /\ Log!IsNumber(text) /\ Log!NumberOf(text) = value
          /\ Len(text.digits) = Len(Log!Digits(-value))
          /\ Len(text.digits) > 1 => Head(text.digits) # 0
      BY <3>1, <3>2, ReadsBack
    <3>4. Len(Log!Digits(-value)) <= width - 1
      BY <1>0, <2>bound, <3>2, DigitsBound DEF HasDigits
    <3>5. text.minus /\ Len(text.digits) + 1 <= kMaxNumericSize
      BY <1>0, <3>1, <3>2, <3>3, <3>4, DigitsLength
    <3> QED
      BY <2>2, <3>3, <3>5 DEF Log!WrittenRight, text
  <2> QED
    BY <2>1, <2>2
<1> QED
  BY <1>0, <1>1, <1>2

-----------------------------------------------------------------------------
(* The line in its buffer. *)

(* What is written for an integer has the room it asked for. *)
LEMMA PieceFits ==
  ASSUME Log!StreamAssumption, NEW piece \in Log!Piece
  PROVE  /\ Log!PieceLength(piece) \in Nat /\ Log!Room(piece) \in Nat
         /\ Log!PieceLength(piece) <= Log!Room(piece)
<1>1. CASE piece.kind = "text"
  <2>1. piece.length \in Nat
    BY <1>1 DEF Log!Piece
  <2> QED
    BY <1>1, <2>1 DEF Log!PieceLength, Log!Room
<1>2. CASE piece.kind # "text"
  <2>1. /\ piece.width \in 2 .. 64
        /\ piece.value \in
             Log!Smallest(piece.width) .. Log!PowerOfTwo[piece.width] - 1
    BY <1>2 DEF Log!Piece
  <2>2a. PICK width \in 2 .. 64 : width = piece.width
    BY <2>1
  <2>2b. PICK value \in Log!Smallest(width) .. Log!PowerOfTwo[width] - 1 :
           value = piece.value
    BY <2>1, <2>2a
  <2> DEFINE text == Log!FormatInteger(value, width)
  <2>3. Len(text.digits) + (IF text.minus THEN 1 ELSE 0) <= kMaxNumericSize
    BY Written, Zenon DEF Log!WrittenRight
  <2>4. Len(text.digits) \in Nat
    <3>1. value \in Int /\ -value \in Int
      OBVIOUS
    <3>2. value < 0 => Log!Wrap(-value, width) \in Int
      <4>1. value < 0 => value \in Log!Smallest(width) .. -1
        <5>1. width - 1 \in Nat
          OBVIOUS
        <5>2. Log!Smallest(width) \in Int
          BY <5>1, PowerStep DEF Log!Smallest
        <5> QED
          BY <3>1, <5>2
      <4> QED
        BY <3>1, <4>1, WrapFacts
    <3>3. PICK n \in Int : text.digits = Log!Reverse(Log!Digits(n))
      BY <3>1, <3>2 DEF Log!FormatInteger
    <3>4. Len(Log!Digits(n)) \in Nat
      BY DigitsLength
    <3>5. Len(Log!Reverse(Log!Digits(n))) = Len(Log!Digits(n))
      BY <3>4 DEF Log!Reverse
    <3> QED
      BY <3>3, <3>4, <3>5
  <2>5. Log!PieceLength(piece) = Len(text.digits) + (IF text.minus THEN 1 ELSE 0)
    BY <1>2, <2>2a, <2>2b DEF Log!PieceLength
  <2>6. Log!Room(piece) = kMaxNumericSize
    BY <1>2 DEF Log!Room
  <2> DEFINE sign == IF text.minus THEN 1 ELSE 0
  <2>7. sign \in Nat
    OBVIOUS
  <2>8. Log!PieceLength(piece) = Len(text.digits) + sign
        /\ Len(text.digits) + sign <= kMaxNumericSize
    BY <2>3, <2>5
  <2>9. kMaxNumericSize \in Nat
    BY DEF Log!StreamAssumption
  <2> HIDE DEF text, sign
  <2> QED
    BY <2>4, <2>6, <2>7, <2>8, <2>9
<1> QED
  BY <1>1, <1>2

(* So a piece does not lead out of the buffer. *)
LEMMA AppendedFits ==
  ASSUME Log!StreamAssumption, NEW piece \in Log!Piece,
         NEW len \in 0 .. MAX_STREAM_LEN
  PROVE  Log!Appended(len, piece) \in 0 .. MAX_STREAM_LEN
<1>1. MAX_STREAM_LEN \in Nat
  BY DEF Log!StreamAssumption
<1> QED
  BY <1>1, PieceFits DEF Log!Appended

LEMMA LineFits ==
  ASSUME Log!StreamAssumption, NEW pieces \in Seq(Log!Piece)
  PROVE  Log!LineLength(pieces) \in 0 .. MAX_STREAM_LEN
<1> DEFINE Buf == 0 .. MAX_STREAM_LEN
<1> DEFINE N == Len(pieces)
<1> DEFINE G == [i \in Nat |-> [x \in Buf |->
                  IF i \in 1 .. N THEN Log!Appended(x, pieces[i]) ELSE x]]
<1>0. 0 \in Buf /\ N \in Nat
  BY DEF Log!StreamAssumption
<1>a. ASSUME NEW i \in 1 .. N, NEW x \in Buf
      PROVE  Log!Appended(x, pieces[i]) \in Buf
  <2>1. pieces[i] \in Log!Piece
    OBVIOUS
  <2> QED
    BY <2>1, AppendedFits
<1>1. G \in [Nat -> [Buf -> Buf]]
  <2> HIDE DEF Buf, N
  <2> QED
    BY <1>a
<1>2. PICK f \in [Nat -> Buf] : Follows(f, 0, G)
  <2> HIDE DEF G, Buf
  <2> QED
    BY <1>0, <1>1, RecursionExists
<1>3. /\ f[0] = 0
      /\ \A i \in 1 .. N : f[i] = Log!Appended(f[i - 1], pieces[i])
  <2>1. f[0] = 0
    BY <1>2, Zenon DEF Follows
  <2>2. ASSUME NEW i \in 1 .. N PROVE f[i] = Log!Appended(f[i - 1], pieces[i])
    <3>1. i \in Nat \ {0} /\ i \in Nat /\ i - 1 \in Nat
      BY <1>0
    <3>2. f[i] = G[i][f[i - 1]] /\ f[i - 1] \in Buf
      <4> HIDE DEF G, Buf
      <4> QED
        BY <1>2, <3>1 DEF Follows
    <3> HIDE DEF Buf, N
    <3> QED
      BY <3>1, <3>2
  <2> QED
    BY <2>1, <2>2
<1> DEFINE g == [i \in 0 .. N |-> f[i]]
<1>4. g = [i \in 0 .. N |->
             IF i = 0 THEN 0 ELSE Log!Appended(g[i - 1], pieces[i])]
  <2>1. ASSUME NEW i \in 0 .. N
        PROVE  g[i] = IF i = 0 THEN 0 ELSE Log!Appended(g[i - 1], pieces[i])
    <3>1. i # 0 => i \in 1 .. N /\ i - 1 \in 0 .. N
      BY <1>0
    <3> HIDE DEF N, G
    <3> QED
      BY <1>3, <3>1
  <2>2. g = [i \in 0 .. N |-> g[i]]
    OBVIOUS
  <2> HIDE DEF g, N, G
  <2> QED
    BY <2>1, <2>2
<1> DEFINE length == CHOOSE length : length =
      [i \in 0 .. N |-> IF i = 0 THEN 0 ELSE Log!Appended(length[i - 1], pieces[i])]
<1>5. length = [i \in 0 .. N |->
                  IF i = 0 THEN 0 ELSE Log!Appended(length[i - 1], pieces[i])]
  <2> HIDE DEF g, N
  <2> QED
    BY <1>4, Zenon
<1>6. Log!LineLength(pieces) = length[N]
  BY Zenon DEF Log!LineLength
<1> HIDE DEF length, g, G, N
<1>7. \A i \in 0 .. N : length[i] \in Buf
  <2> DEFINE T == {i \in 0 .. N : length[i] \notin Buf}
  <2> SUFFICES ASSUME T # {} PROVE FALSE
    OBVIOUS
  <2>1. T \in SUBSET Nat
    BY <1>0
  <2>2. PICK i \in T : \A k \in T : i <= k
    BY <2>1, LeastNat
  <2>3. i \in 0 .. N /\ length[i] \notin Buf
    OBVIOUS
  <2>4. \A k \in 0 .. N : k \in T \/ length[k] \in Buf
    OBVIOUS
  <2> HIDE DEF T, Buf
  <2>5. i # 0
    BY <1>0, <1>5, <2>3
  <2>6. i - 1 \in 0 .. N /\ i - 1 \notin T /\ i \in 1 .. N
    BY <1>0, <2>2, <2>3, <2>5
  <2>7. length[i - 1] \in Buf
    BY <2>4, <2>6
  <2>8. length[i] = Log!Appended(length[i - 1], pieces[i])
    BY <1>5, <2>3, <2>5
  <2> QED
    BY <1>a, <2>3, <2>6, <2>7, <2>8
<1> QED
  BY <1>0, <1>6, <1>7

(* The heading and the trailer are pieces: their integers are in the type.  *)
LEMMA PiecesArePieces ==
  ASSUME NEW message \in Seq(Log!Piece)
  PROVE  Log!Pieces(message) \in Seq(Log!Piece)
<1>1. Log!PowerOfTwo[16] = 65536
  <2>1. ASSUME NEW n \in Nat \ {0}, n >= 4
        PROVE  Log!PowerOfTwo[n] = 16 * Log!PowerOfTwo[n - 4]
    <3>1. /\ Log!PowerOfTwo[n] = 2 * Log!PowerOfTwo[n - 1]
          /\ Log!PowerOfTwo[n - 1] = 2 * Log!PowerOfTwo[(n - 1) - 1]
          /\ Log!PowerOfTwo[n - 2] = 2 * Log!PowerOfTwo[(n - 2) - 1]
          /\ Log!PowerOfTwo[n - 3] = 2 * Log!PowerOfTwo[(n - 3) - 1]
      <4>1. /\ n - 1 \in Nat \ {0} /\ n - 2 \in Nat \ {0} /\ n - 3 \in Nat \ {0}
        BY <2>1
      <4> QED
        BY <4>1, PowerStep
    <3>2. (n - 1) - 1 = n - 2 /\ (n - 2) - 1 = n - 3 /\ (n - 3) - 1 = n - 4
      OBVIOUS
    <3>3. Log!PowerOfTwo[n - 4] \in Nat
      <4>1. n - 4 \in Nat
        BY <2>1
      <4> QED
        BY <4>1, PowerStep
    <3> QED
      BY <3>1, <3>2, <3>3
  <2>2. /\ Log!PowerOfTwo[4] = 16 * Log!PowerOfTwo[0]
        /\ Log!PowerOfTwo[8] = 16 * Log!PowerOfTwo[4]
        /\ Log!PowerOfTwo[12] = 16 * Log!PowerOfTwo[8]
        /\ Log!PowerOfTwo[16] = 16 * Log!PowerOfTwo[12]
    <3>1. 4 - 4 = 0 /\ 8 - 4 = 4 /\ 12 - 4 = 8 /\ 16 - 4 = 12
      OBVIOUS
    <3>2. {4, 8, 12, 16} \subseteq {n \in Nat \ {0} : n >= 4}
      OBVIOUS
    <3> QED
      BY <2>1, <3>1, <3>2
  <2>3. Log!PowerOfTwo[0] = 1
    BY PowerStep
  <2> QED
    BY <2>2, <2>3
<1>2. Log!Smallest(16) <= 0 /\ Log!Smallest(16) \in Int
  <2>1. 16 - 1 \in Nat
    OBVIOUS
  <2>2. Log!PowerOfTwo[16 - 1] \in Nat
    BY <2>1, PowerStep
  <2> QED
    BY <2>2 DEF Log!Smallest
<1>3. \A n \in Nat : Log!Text(n) \in Log!Piece
  BY DEF Log!Text, Log!Piece
<1>4. ASSUME NEW n \in 0 .. 4711 PROVE Log!Integer(n, 16) \in Log!Piece
  <2>1. n \in Log!Smallest(16) .. Log!PowerOfTwo[16] - 1
    BY <1>1, <1>2
  <2> QED
    BY <2>1 DEF Log!Integer, Log!Piece
<1>5. Log!Heading \in Seq(Log!Piece)
  <2>1. Log!Integer(4711, 16) \in Log!Piece
    BY <1>4
  <2> QED
    BY <1>3, <2>1 DEF Log!Heading
<1>6. Log!Trailer \in Seq(Log!Piece)
  <2>1. Log!Integer(114, 16) \in Log!Piece
    BY <1>4
  <2> QED
    BY <1>3, <2>1 DEF Log!Trailer
<1> HIDE DEF Log!Heading
<1> QED
  BY <1>5, <1>6 DEF Log!Pieces

-----------------------------------------------------------------------------
(* What the threads log. *)

(* The second whose text a thread keeps is the second that text is of, and  *)
(* a line has the text of the second it is logged in.                       *)
LogInv ==
  /\ t_last_active_time \in [Thread -> Second \cup {0}]
  /\ t_time = t_last_active_time
  /\ line \in [Thread -> [time : Second \cup {0}, now : Second \cup {0},
                          message : Message \cup {<<>>}]]
  /\ \A t \in Thread : line[t].time = line[t].now

LogState == <<t_last_active_time, t_time, line>>

LEMMA AssembleKeepsLog ==
  ASSUME LogInv, NEW t \in Thread, Log!Assemble(t)
  PROVE  LogInv'
<1>1. PICK now \in Second, message \in Message :
        /\ IF Log!TimeIsKnown(t, now)
             THEN UNCHANGED <<t_last_active_time, t_time>>
             ELSE /\ t_time' = [t_time EXCEPT ![t] = now]
                  /\ t_last_active_time' = [t_last_active_time EXCEPT ![t] = now]
        /\ line' = [line EXCEPT ![t] =
                      [time |-> t_time'[t], now |-> now, message |-> message]]
  BY DEF Log!Assemble
<1>2. /\ t_last_active_time' \in [Thread -> Second \cup {0}]
      /\ t_time' = t_last_active_time'
      /\ t_time'[t] = now
  <2>1. CASE Log!TimeIsKnown(t, now)
    BY <1>1, <2>1 DEF LogInv, Log!TimeIsKnown
  <2>2. CASE ~Log!TimeIsKnown(t, now)
    BY <1>1, <2>2 DEF LogInv
  <2> QED
    BY <2>1, <2>2
<1>3. line' = [line EXCEPT ![t] = [time |-> now, now |-> now, message |-> message]]
  BY <1>1, <1>2
<1> QED
  BY <1>2, <1>3 DEF LogInv

LEMMA FinishKeepsLog ==
  ASSUME LogInv, NEW t \in Thread, FinishLine(t)
  PROVE  LogInv'
<1>1. UNCHANGED <<t_last_active_time, t_time>>
      /\ (UNCHANGED line \/ line' = [line EXCEPT ![t] = Log!NoLine])
  BY DEF FinishLine, Log!Finish, Log!Output, Log!Start, Log!SetStarted,
         Log!AppendLine, Log!Done
<1>2. Log!NoLine \in [time : Second \cup {0}, now : Second \cup {0},
                      message : Message \cup {<<>>}]
      /\ Log!NoLine.time = Log!NoLine.now
  BY DEF Log!NoLine
<1> QED
  BY <1>1, <1>2 DEF LogInv

LEMMA LogStep ==
  ASSUME LogInv, [Next]_vars
  PROVE  LogInv'
<1> USE DEF LogState, logVars
<1>1. Main \in Thread /\ Worker \subseteq Thread
  BY DEF Thread
<1>2. ASSUME UNCHANGED LogState PROVE LogInv'
  BY <1>2 DEF LogInv
<1>3. CASE MakeAcceptor \/ LogRunning \/ LogStart
  <2>1. UNCHANGED LogState \/ Log!Assemble(Main)
    BY <1>3 DEF MakeAcceptor, LogRunning, LogStart
  <2> QED
    BY <1>1, <1>2, <2>1, AssembleKeepsLog
<1>4. ASSUME NEW c \in Connection, Accept(c) PROVE LogInv'
  BY <1>1, <1>4, AssembleKeepsLog DEF Accept
<1>5. ASSUME NEW w \in Worker, NEW c \in Connection, Serve(w, c) PROVE LogInv'
  <2>1. UNCHANGED LogState \/ Log!Assemble(w)
    BY <1>5 DEF Serve
  <2> QED
    BY <1>1, <1>2, <2>1, AssembleKeepsLog
<1>6. ASSUME NEW t \in Thread, FinishLine(t) PROVE LogInv'
  BY <1>6, FinishKeepsLog
<1>7. ASSUME NEW l \in Loop, AppendLoop(l) \/ PostLoop(l) PROVE LogInv'
  BY <1>2, <1>7 DEF AppendLoop, PostLoop
<1>8. CASE LoopsAppended \/ SetOutputFunc \/ SetCallback
  BY <1>2, <1>8 DEF LoopsAppended, SetOutputFunc, SetCallback, Log!SetOutputFunc
<1>9. ASSUME NEW c \in Connection, Register(c) PROVE LogInv'
  BY <1>2, <1>9 DEF Register
<1>10. ASSUME NEW w \in Worker, RunWorker(w) PROVE LogInv'
  BY <1>2, <1>10 DEF RunWorker
<1>11. CASE UNCHANGED vars
  BY <1>2, <1>11 DEF vars
<1> HIDE DEF LogState, logVars
<1> QED
  BY <1>1, <1>3, <1>4, <1>5, <1>6, <1>7, <1>8, <1>9, <1>10, <1>11
     DEF Next, MainStep, WorkerStep

LEMMA LogAlways == Spec => []LogInv
<1>1. Init => LogInv
  <2>1. Log!NoLine \in [time : Second \cup {0}, now : Second \cup {0},
                        message : Message \cup {<<>>}]
        /\ Log!NoLine.time = Log!NoLine.now
    BY DEF Log!NoLine
  <2> QED
    BY <2>1 DEF Init, Log!Init, LogInv
<1> QED
  BY <1>1, LogStep, PTL DEF Spec

(* What a thread logs are pieces. *)
LEMMA MessagesArePieces ==
  ASSUME LogInv, NEW t \in Thread
  PROVE  line[t].message \in Seq(Log!Piece)
<1>1. line[t].message \in Message \cup {<<>>}
  BY DEF LogInv
<1>2. Message \subseteq Seq(Log!Piece)
  BY StartupAssumption DEF Log!LoggingAssumption
<1>3. <<>> \in Seq(Log!Piece)
  OBVIOUS
<1> QED
  BY <1>1, <1>2, <1>3

(* Whatever is logged and however the clock goes, a line has the time of    *)
(* its own second and stays in its buffer, and keeps its newline unless the *)
(* buffer is full to the last byte (Logger.cpp:85-112, LogStream.cpp).      *)
THEOREM LinesAreSound == Spec => []LineIsSound
<1>1. ASSUME LogInv PROVE LineIsSound
  <2> SUFFICES ASSUME NEW t \in Thread
      PROVE  LET length == Log!LineLength(Log!Pieces(line[t].message))
             IN  /\ line[t].time = line[t].now
                 /\ length <= MAX_STREAM_LEN
                 /\ Log!Appended(length, Log!Text(1)) = length
                      => length = MAX_STREAM_LEN
    BY DEF LineIsSound, Log!LineIsSound, Thread
  <2>1. line[t].time = line[t].now
    BY <1>1 DEF LogInv
  <2>2. Log!StreamAssumption
    BY StartupAssumption DEF Log!LoggingAssumption
  <2>3. PICK length \in 0 .. MAX_STREAM_LEN :
          length = Log!LineLength(Log!Pieces(line[t].message))
    BY <1>1, <2>2, MessagesArePieces, PiecesArePieces, LineFits
  <2>4. MAX_STREAM_LEN \in Nat
    BY <2>2 DEF Log!StreamAssumption
  <2>5. Log!Appended(length, Log!Text(1))
          = IF MAX_STREAM_LEN - length >= 1 THEN length + 1 ELSE length
    BY DEF Log!Appended, Log!Text, Log!Room, Log!PieceLength
  <2>6. /\ length <= MAX_STREAM_LEN
        /\ Log!Appended(length, Log!Text(1)) = length
             => length = MAX_STREAM_LEN
    BY <2>4, <2>5
  <2> QED
    BY <2>1, <2>3, <2>6
<1> QED
  BY <1>1, LogAlways, PTL

(* Whatever integer of whatever type of up to 64 bits is logged, the line   *)
(* has its decimal digits, all but for the smallest value of a signed type, *)
(* whose line has none (LogStream.h:111-136).                               *)
THEOREM IntegersAreRight == Spec => []IntegersRight
<1>1. ASSUME LogInv PROVE IntegersRight
  <2> SUFFICES ASSUME NEW t \in Thread, NEW i \in DOMAIN line[t].message,
                      line[t].message[i].kind = "integer"
      PROVE  Log!WrittenRight(line[t].message[i].value,
                              line[t].message[i].width)
    BY DEF IntegersRight, Log!IntegersRight, Thread
  <2>1. PICK piece \in Log!Piece : piece = line[t].message[i]
    BY <1>1, MessagesArePieces
  <2>2. /\ piece.width \in 2 .. 64
        /\ piece.value \in
             Log!Smallest(piece.width) .. Log!PowerOfTwo[piece.width] - 1
    BY <2>1 DEF Log!Piece
  <2>3. Log!StreamAssumption
    BY StartupAssumption DEF Log!LoggingAssumption
  <2> QED
    BY <2>1, <2>2, <2>3, Written
<1> QED
  BY <1>1, LogAlways, PTL
=============================================================================
