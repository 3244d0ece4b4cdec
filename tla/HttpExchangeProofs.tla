------------------------- MODULE HttpExchangeProofs -------------------------
(***************************************************************************)
(* Proofs about HttpParser and HttpExchange, for every pair of reads, every *)
(* set of well-formed requests and every set of files.                      *)
(***************************************************************************)
EXTENDS HttpExchange, SequenceTheorems, WellFoundedInduction, TLAPS

-----------------------------------------------------------------------------
(* Recursive functions. *)

(* A set of numbers has a least one: the provers' induction. *)
LEMMA LeastNat ==
  ASSUME NEW T \in SUBSET Nat, T # {}
  PROVE  \E m \in T : \A k \in T : m <= k
<1>1. PICK m \in T : \A k \in T : <<k, m>> \notin OpToRel(<, Nat)
  BY NatLessThanWellFounded, WFMin, Zenon
<1>2. \A k \in T : ~(k < m)
  BY <1>1, Zenon DEF OpToRel
<1> QED
  BY <1>2

(* A function that starts with c and goes on by G. *)
Follows(f, c, G) == f[0] = c /\ \A i \in Nat \ {0} : f[i] = G[i][f[i - 1]]

(* There is one. *)
LEMMA RecursionExists ==
  ASSUME NEW S, NEW c \in S, NEW G \in [Nat -> [S -> S]]
  PROVE  \E f \in [Nat -> S] : Follows(f, c, G)
<1> DEFINE Upto(n, h) ==
      \A i \in 0 .. n : h[i] = IF i = 0 THEN c ELSE G[i][h[i - 1]]
<1>1. \A n \in Nat : \E h \in [Nat -> S] : Upto(n, h)
  <2> DEFINE T == {n \in Nat : ~ \E h \in [Nat -> S] : Upto(n, h)}
  <2> SUFFICES ASSUME T # {} PROVE FALSE
    OBVIOUS
  <2>1. PICK m \in T : \A k \in T : m <= k
    BY LeastNat
  <2>2. CASE m = 0
    <3>1. Upto(0, [i \in Nat |-> c])
      OBVIOUS
    <3> QED
      BY <2>2, <3>1
  <2>3. CASE m # 0
    <3>1. PICK h \in [Nat -> S] : Upto(m - 1, h)
      <4> HIDE DEF Upto
      <4>1. m \in Nat /\ m - 1 \in Nat
        BY <2>3
      <4>2. m - 1 \notin T
        <5> HIDE DEF T
        <5> QED
          BY <2>1, <4>1
      <4> QED
        BY <4>1, <4>2
    <3> DEFINE last == G[m][h[m - 1]]
    <3> DEFINE h2 == [i \in Nat |-> IF i < m THEN h[i] ELSE last]
    <3>2. m - 1 \in Nat /\ last \in S
      BY <2>3
    <3>3. h2 \in [Nat -> S]
      BY <3>2
    <3>4. Upto(m, h2)
      <4>1. ASSUME NEW i \in 0 .. m - 1
            PROVE  h2[i] = IF i = 0 THEN c ELSE G[i][h2[i - 1]]
        BY <2>3, <3>1
      <4>2. h2[m] = last /\ h2[m - 1] = h[m - 1]
        BY <2>3
      <4> HIDE DEF h2
      <4> QED
        BY <2>3, <4>1, <4>2, SMTT(30)
    <3> QED
      BY <3>3, <3>4
  <2> QED
    BY <2>2, <2>3
<1>2. ASSUME NEW n \in Nat, NEW h, NEW k, Upto(n, h), Upto(n, k)
      PROVE  \A i \in 0 .. n : h[i] = k[i]
  <2> DEFINE T == {i \in 0 .. n : h[i] # k[i]}
  <2> SUFFICES ASSUME T # {} PROVE FALSE
    OBVIOUS
  <2>1. PICK m \in T : \A j \in T : m <= j
    <3>1. T \in SUBSET Nat
      OBVIOUS
    <3> QED
      BY <3>1, LeastNat
  <2>2. m # 0
    BY <1>2
  <2>3. h[m - 1] = k[m - 1]
    BY <2>1, <2>2
  <2> QED
    BY <1>2, <2>2, <2>3
<1>3. PICK a \in [Nat -> [Nat -> S]] : \A n \in Nat : Upto(n, a[n])
  <2> DEFINE a == [n \in Nat |-> CHOOSE h \in [Nat -> S] : Upto(n, h)]
  <2> HIDE DEF Upto
  <2>1. \A n \in Nat : a[n] \in [Nat -> S] /\ Upto(n, a[n])
    BY <1>1
  <2>2. a \in [Nat -> [Nat -> S]]
    BY <2>1
  <2> QED
    BY <2>1, <2>2
<1> DEFINE f == [n \in Nat |-> a[n][n]]
<1>4. f \in [Nat -> S]
  OBVIOUS
<1>5. ASSUME NEW n \in Nat
      PROVE  f[n] = IF n = 0 THEN c ELSE G[n][f[n - 1]]
  <2>upto. Upto(n, a[n]) /\ n \in 0 .. n
    BY <1>3
  <2>1. CASE n = 0
    BY <2>upto, <2>1
  <2>2. CASE n # 0
    <3>1. Upto(n - 1, a[n])
      BY <2>upto, <2>2
    <3>2. n - 1 \in Nat /\ Upto(n - 1, a[n - 1])
      <4> HIDE DEF Upto
      <4> QED
        BY <1>3, <2>2
    <3>3. a[n][n - 1] = a[n - 1][n - 1]
      <4> HIDE DEF Upto
      <4>1. \A i \in 0 .. n - 1 : a[n][i] = a[n - 1][i]
        BY <1>2, <3>1, <3>2
      <4> QED
        BY <3>2, <4>1
    <3>4. a[n][n] = G[n][a[n][n - 1]]
      BY <2>upto, <2>2
    <3> QED
      BY <2>2, <3>2, <3>3, <3>4
  <2> QED
    BY <2>1, <2>2
<1> HIDE DEF f
<1>6. Follows(f, c, G)
  BY <1>5 DEF Follows
<1> QED
  BY <1>4, <1>6

-----------------------------------------------------------------------------
(* Rows of strings. *)

(* A row of strings, behind one another. *)
LEMMA JoinsStep ==
  ASSUME NEW S, NEW strs \in Seq(Seq(S))
  PROVE  /\ Joins(strs)[0] = <<>>
         /\ \A i \in 1 .. Len(strs) : Joins(strs)[i] = Joins(strs)[i - 1] \o strs[i]
         /\ \A i \in 0 .. Len(strs) : Joins(strs)[i] \in Seq(S)
<1> DEFINE G == [i \in Nat |-> [x \in Seq(S) |->
                   IF i \in 1 .. Len(strs) THEN x \o strs[i] ELSE x]]
<1> DEFINE text == CHOOSE text : text =
      [i \in 0 .. Len(strs) |-> IF i = 0 THEN <<>> ELSE text[i - 1] \o strs[i]]
<1>0. Len(strs) \in Nat /\ \A i \in 1 .. Len(strs) : strs[i] \in Seq(S)
  OBVIOUS
<1>1. G \in [Nat -> [Seq(S) -> Seq(S)]]
  BY <1>0
<1>2. <<>> \in Seq(S)
  OBVIOUS
<1>3. PICK f \in [Nat -> Seq(S)] : Follows(f, <<>>, G)
  <2> HIDE DEF G
  <2> QED
    BY <1>1, <1>2, RecursionExists
<1>4. \A i \in 1 .. Len(strs) : f[i] = f[i - 1] \o strs[i]
  <2> SUFFICES ASSUME NEW i \in 1 .. Len(strs) PROVE f[i] = f[i - 1] \o strs[i]
    OBVIOUS
  <2>1. i \in Nat \ {0} /\ i - 1 \in Nat
    BY <1>0
  <2>2. f[i] = G[i][f[i - 1]]
    BY <1>3, <2>1 DEF Follows
  <2> QED
    BY <2>1, <2>2
<1> DEFINE g == [i \in 0 .. Len(strs) |-> f[i]]
<1>5. g = [i \in 0 .. Len(strs) |-> IF i = 0 THEN <<>> ELSE g[i - 1] \o strs[i]]
  <2>1. \A i \in 0 .. Len(strs) : f[i] = IF i = 0 THEN <<>> ELSE g[i - 1] \o strs[i]
    <3> SUFFICES ASSUME NEW i \in 0 .. Len(strs)
                 PROVE  f[i] = IF i = 0 THEN <<>> ELSE g[i - 1] \o strs[i]
      OBVIOUS
    <3>1. CASE i = 0
      BY <1>3, <3>1 DEF Follows
    <3>2. CASE i # 0
      <4>1. i \in 1 .. Len(strs) /\ i - 1 \in 0 .. Len(strs)
        BY <1>0, <3>2
      <4>2. g[i - 1] = f[i - 1]
        BY <4>1
      <4> QED
        BY <1>4, <3>2, <4>1, <4>2
    <3> QED
      BY <3>1, <3>2
  <2> QED
    BY <2>1
<1>6. text = [i \in 0 .. Len(strs) |-> IF i = 0 THEN <<>> ELSE text[i - 1] \o strs[i]]
  <2> HIDE DEF g
  <2> QED
    BY <1>5, Zenon
<1>7. Joins(strs) = text
  BY Zenon DEF Joins
<1> HIDE DEF text, g, G
<1>8. text[0] = <<>>
  BY <1>0, <1>6
<1>9. \A i \in 1 .. Len(strs) : text[i] = text[i - 1] \o strs[i]
  <2> SUFFICES ASSUME NEW i \in 1 .. Len(strs)
               PROVE  text[i] = text[i - 1] \o strs[i]
    OBVIOUS
  <2>1. i \in 0 .. Len(strs) /\ i # 0
    BY <1>0
  <2>2. text[i] = IF i = 0 THEN <<>> ELSE text[i - 1] \o strs[i]
    BY <1>6, <2>1, Zenon
  <2> QED
    BY <2>1, <2>2
<1>10. \A i \in 0 .. Len(strs) : text[i] \in Seq(S)
  <2> DEFINE T == {i \in 0 .. Len(strs) : text[i] \notin Seq(S)}
  <2> SUFFICES ASSUME T # {} PROVE FALSE
    OBVIOUS
  <2>1. PICK m \in T : \A k \in T : m <= k
    <3>1. T \in SUBSET Nat
      BY <1>0
    <3> QED
      BY <3>1, LeastNat
  <2>2. m # 0
    BY <1>2, <1>8
  <2>3. m \in 1 .. Len(strs) /\ m - 1 \in 0 .. Len(strs)
    BY <1>0, <2>2
  <2>4. text[m - 1] \in Seq(S)
    <3>1. ~ (m <= m - 1)
      BY <2>3
    <3>2. m - 1 \notin T
      <4> HIDE DEF T
      <4> QED
        BY <2>1, <3>1
    <3> QED
      BY <2>3, <3>2
  <2>5. text[m] = text[m - 1] \o strs[m] /\ strs[m] \in Seq(S)
    BY <1>0, <1>9, <2>3
  <2>6. text[m] \in Seq(S)
    BY <2>4, <2>5
  <2> QED
    BY <2>6
<1> QED
  BY <1>7, <1>8, <1>9, <1>10

(* What two sequences are one behind the other. *)
LEMMA BehindFacts ==
  ASSUME NEW S, NEW s \in Seq(S), NEW t \in Seq(S)
  PROVE  /\ s \o t \in Seq(S)
         /\ Len(s) \in Nat /\ Len(t) \in Nat
         /\ Len(s \o t) = Len(s) + Len(t)
         /\ \A i \in 1 .. Len(s) : (s \o t)[i] = s[i]
         /\ \A i \in 1 .. Len(t) : (s \o t)[Len(s) + i] = t[i]
OBVIOUS

(* Each of them is where those before it end. *)
LEMMA JoinedAt ==
  ASSUME NEW S, NEW strs \in Seq(Seq(S))
  PROVE  /\ Joined(strs) \in Seq(S)
         /\ Len(Joins(strs)[0]) = 0
         /\ Len(Joined(strs)) = Len(Joins(strs)[Len(strs)])
         /\ \A i \in 1 .. Len(strs) :
              /\ Len(strs[i]) \in Nat
              /\ Len(Joins(strs)[i - 1]) \in Nat
              /\ Len(Joins(strs)[i]) = Len(Joins(strs)[i - 1]) + Len(strs[i])
              /\ Len(Joins(strs)[i]) <= Len(Joined(strs))
              /\ \A j \in 1 .. Len(strs[i]) :
                   Joined(strs)[Len(Joins(strs)[i - 1]) + j] = strs[i][j]
<1> DEFINE text == Joins(strs)
<1> DEFINE n == Len(strs)
<1>0. n \in Nat /\ \A i \in 1 .. n : strs[i] \in Seq(S)
  OBVIOUS
<1>1. /\ text[0] = <<>>
      /\ \A i \in 1 .. n : text[i] = text[i - 1] \o strs[i]
      /\ \A i \in 0 .. n : text[i] \in Seq(S)
  BY JoinsStep, Zenon
<1>2. Joined(strs) = text[n]
  BY DEF Joined
<1> HIDE DEF text, n
<1>3. \A i \in 1 .. n :
        /\ text[i - 1] \in Seq(S) /\ text[i] \in Seq(S) /\ strs[i] \in Seq(S)
        /\ text[i] = text[i - 1] \o strs[i]
  <2> SUFFICES ASSUME NEW i \in 1 .. n
               PROVE  /\ text[i - 1] \in Seq(S) /\ text[i] \in Seq(S)
                      /\ strs[i] \in Seq(S)
                      /\ text[i] = text[i - 1] \o strs[i]
    OBVIOUS
  <2>1. i \in 0 .. n /\ i - 1 \in 0 .. n
    BY <1>0
  <2> QED
    BY <1>0, <1>1, <2>1, Zenon
<1>4. \A i \in 1 .. n :
        /\ Len(strs[i]) \in Nat /\ Len(text[i - 1]) \in Nat /\ Len(text[i]) \in Nat
        /\ Len(text[i]) = Len(text[i - 1]) + Len(strs[i])
        /\ \A x \in 1 .. Len(text[i - 1]) : text[i][x] = text[i - 1][x]
        /\ \A j \in 1 .. Len(strs[i]) : text[i][Len(text[i - 1]) + j] = strs[i][j]
  <2> SUFFICES ASSUME NEW i \in 1 .. n
               PROVE  /\ Len(strs[i]) \in Nat /\ Len(text[i - 1]) \in Nat
                      /\ Len(text[i]) \in Nat
                      /\ Len(text[i]) = Len(text[i - 1]) + Len(strs[i])
                      /\ \A x \in 1 .. Len(text[i - 1]) :
                           text[i][x] = text[i - 1][x]
                      /\ \A j \in 1 .. Len(strs[i]) :
                           text[i][Len(text[i - 1]) + j] = strs[i][j]
    OBVIOUS
  <2>1. PICK s \in Seq(S), t \in Seq(S) :
          s = text[i - 1] /\ t = strs[i] /\ text[i] = s \o t
    BY <1>3
  <2>2. /\ Len(s) \in Nat /\ Len(t) \in Nat /\ Len(s \o t) \in Nat
        /\ Len(s \o t) = Len(s) + Len(t)
        /\ \A x \in 1 .. Len(s) : (s \o t)[x] = s[x]
        /\ \A j \in 1 .. Len(t) : (s \o t)[Len(s) + j] = t[j]
    OBVIOUS
  <2> QED
    BY <2>1, <2>2, Zenon
(* Later strings leave those before them where they are. *)
<1> DEFINE Kept(i, m) == /\ Len(text[i]) <= Len(text[m])
                         /\ \A x \in 1 .. Len(text[i]) : text[m][x] = text[i][x]
<1>5. ASSUME NEW i \in 1 .. n PROVE Kept(i, n)
  <2> DEFINE T == {m \in i .. n : ~ Kept(i, m)}
  <2>0. \A m \in i .. n : m \notin T => Kept(i, m)
    OBVIOUS
  <2>t. T \in SUBSET Nat /\ \A m \in T : m \in i .. n /\ ~ Kept(i, m)
    BY <1>0
  <2>n. n \in i .. n
    BY <1>0
  <2> HIDE DEF T
  <2>1. CASE T = {}
    <3> HIDE DEF Kept
    <3> QED
      BY <2>0, <2>1, <2>n
  <2>2. CASE T # {}
    <3>1. PICK m \in T : \A k \in T : m <= k
      BY <2>2, <2>t, LeastNat
    <3>2. m # i
      <4>1. Kept(i, i)
        BY <1>4
      <4> HIDE DEF Kept
      <4> QED
        BY <2>t, <4>1
    <3>3. m \in 1 .. n /\ m - 1 \in i .. n /\ ~ (m <= m - 1)
      <4>1. m \in i .. n
        BY <2>t
      <4> QED
        BY <1>0, <3>2, <4>1
    <3>4. Kept(i, m - 1)
      <4>1. m - 1 \notin T
        BY <3>1, <3>3
      <4> HIDE DEF Kept
      <4> QED
        BY <2>0, <3>3, <4>1
    <3>5. /\ Len(text[m - 1]) \in Nat /\ Len(strs[m]) \in Nat
          /\ Len(text[m]) = Len(text[m - 1]) + Len(strs[m])
          /\ \A x \in 1 .. Len(text[m - 1]) : text[m][x] = text[m - 1][x]
      BY <1>4, <3>3
    <3>6. Len(text[i]) \in Nat
      BY <1>4
    <3>7. Kept(i, m)
      <4>1. Len(text[i]) <= Len(text[m - 1])
        BY <3>4, Zenon
      <4>3. Len(text[i]) <= Len(text[m])
        <5>1. /\ Len(text[m - 1]) \in Nat /\ Len(strs[m]) \in Nat
              /\ Len(text[m]) = Len(text[m - 1]) + Len(strs[m])
          BY <3>5, Zenon
        <5>2. PICK a, b, c, d :
                 /\ a = Len(text[i]) /\ b = Len(text[m - 1])
                 /\ c = Len(strs[m]) /\ d = Len(text[m])
          OBVIOUS
        <5>3. a \in Nat /\ b \in Nat /\ c \in Nat /\ a <= b /\ d = b + c
          BY <3>6, <4>1, <5>1, <5>2, Zenon
        <5>4. a <= d
          BY <5>3
        <5> QED
          BY <5>2, <5>4, Zenon
      <4>2. ASSUME NEW x \in 1 .. Len(text[i]) PROVE text[m][x] = text[i][x]
        <5>0. \A a, b \in Nat : a <= b => 1 .. a \subseteq 1 .. b
          OBVIOUS
        <5>1. x \in 1 .. Len(text[m - 1])
          BY <3>5, <3>6, <4>1, <5>0
        <5>2. text[m][x] = text[m - 1][x]
          BY <3>5, <5>1
        <5>3. text[m - 1][x] = text[i][x]
          BY <3>4
        <5> QED
          BY <5>2, <5>3
      <4> QED
        BY <4>2, <4>3
    <3> HIDE DEF Kept
    <3> QED
      BY <2>t, <3>7
  <2> QED
    BY <2>1, <2>2
<1>6. ASSUME NEW i \in 1 .. n
      PROVE  /\ Len(strs[i]) \in Nat
             /\ Len(text[i - 1]) \in Nat
             /\ Len(text[i]) = Len(text[i - 1]) + Len(strs[i])
             /\ Len(text[i]) <= Len(text[n])
             /\ \A j \in 1 .. Len(strs[i]) :
                  text[n][Len(text[i - 1]) + j] = strs[i][j]
  <2>1. Kept(i, n)
    BY <1>5
  <2>2. /\ Len(strs[i]) \in Nat /\ Len(text[i - 1]) \in Nat
        /\ Len(text[i]) = Len(text[i - 1]) + Len(strs[i])
        /\ \A j \in 1 .. Len(strs[i]) : text[i][Len(text[i - 1]) + j] = strs[i][j]
    BY <1>4
  <2>3. ASSUME NEW j \in 1 .. Len(strs[i])
        PROVE  text[n][Len(text[i - 1]) + j] = strs[i][j]
    <3>1. \A a, b \in Nat : \A x \in 1 .. b : a + x \in 1 .. a + b
      OBVIOUS
    <3>2. Len(text[i - 1]) + j \in 1 .. Len(text[i])
      BY <2>2, <3>1
    <3> QED
      BY <2>1, <2>2, <3>2, Zenon
  <2> QED
    BY <2>1, <2>2, <2>3
<1>7. text[n] \in Seq(S) /\ Len(text[0]) = 0
  BY <1>0, <1>1
<1> HIDE DEF Kept
<1>8. /\ Joined(strs) \in Seq(S)
      /\ Len(text[0]) = 0
      /\ Len(Joined(strs)) = Len(text[n])
      /\ \A i \in 1 .. n :
           /\ Len(strs[i]) \in Nat
           /\ Len(text[i - 1]) \in Nat
           /\ Len(text[i]) = Len(text[i - 1]) + Len(strs[i])
           /\ Len(text[i]) <= Len(Joined(strs))
           /\ \A j \in 1 .. Len(strs[i]) :
                Joined(strs)[Len(text[i - 1]) + j] = strs[i][j]
  BY <1>2, <1>6, <1>7
<1> QED
  BY <1>8 DEF text, n

(* Four sequences, one behind the other. *)
AreParts(t, a, b, c, d) ==
  /\ Len(a) \in Nat /\ Len(b) \in Nat /\ Len(c) \in Nat /\ Len(d) \in Nat
  /\ Len(t) = Len(a) + Len(b) + Len(c) + Len(d)
  /\ \A i \in 1 .. Len(a) : t[i] = a[i]
  /\ \A i \in 1 .. Len(b) : t[Len(a) + i] = b[i]
  /\ \A i \in 1 .. Len(c) : t[Len(a) + Len(b) + i] = c[i]
  /\ \A i \in 1 .. Len(d) : t[Len(a) + Len(b) + Len(c) + i] = d[i]

LEMMA FourParts ==
  ASSUME NEW S, NEW a \in Seq(S), NEW b \in Seq(S), NEW c \in Seq(S),
         NEW d \in Seq(S), NEW t, t = a \o b \o c \o d
  PROVE  t \in Seq(S) /\ AreParts(t, a, b, c, d)
<1>1. PICK u : u = a \o b
  OBVIOUS
<1>2. PICK v : v = u \o c
  OBVIOUS
<1>3. t = v \o d
  BY <1>1, <1>2
<1>s. u \in Seq(S) /\ v \in Seq(S) /\ t \in Seq(S)
  <2>1. u \in Seq(S)
    BY <1>1
  <2>2. v \in Seq(S)
    BY <1>2, <2>1
  <2> QED
    BY <1>3, <2>1, <2>2
<1>4. /\ u \in Seq(S) /\ Len(a) \in Nat /\ Len(b) \in Nat
      /\ Len(u) = Len(a) + Len(b)
      /\ \A i \in 1 .. Len(a) : u[i] = a[i]
      /\ \A i \in 1 .. Len(b) : u[Len(a) + i] = b[i]
  BY <1>1, BehindFacts
<1>5. /\ v \in Seq(S) /\ Len(c) \in Nat
      /\ Len(v) = Len(u) + Len(c)
      /\ \A i \in 1 .. Len(u) : v[i] = u[i]
      /\ \A i \in 1 .. Len(c) : v[Len(u) + i] = c[i]
  BY <1>2, <1>s, BehindFacts
<1>6. /\ t \in Seq(S) /\ Len(d) \in Nat
      /\ Len(t) = Len(v) + Len(d)
      /\ \A i \in 1 .. Len(v) : t[i] = v[i]
      /\ \A i \in 1 .. Len(d) : t[Len(v) + i] = d[i]
  BY <1>3, <1>s, BehindFacts
<1>7. PICK la, lb, lc, ld : la = Len(a) /\ lb = Len(b) /\ lc = Len(c) /\ ld = Len(d)
  OBVIOUS
<1>8. /\ la \in Nat /\ lb \in Nat /\ lc \in Nat /\ ld \in Nat
      /\ Len(u) = la + lb /\ Len(v) = la + lb + lc /\ Len(t) = la + lb + lc + ld
  BY <1>4, <1>5, <1>6, <1>7
<1>9. \A i \in 1 .. la : t[i] = a[i]
  <2> SUFFICES ASSUME NEW i \in 1 .. la PROVE t[i] = a[i]
    OBVIOUS
  <2>1. i \in 1 .. la + lb /\ i \in 1 .. la + lb + lc
    BY <1>8
  <2> QED
    BY <1>4, <1>5, <1>6, <1>7, <1>8, <2>1
<1>10. \A i \in 1 .. lb : t[la + i] = b[i]
  <2> SUFFICES ASSUME NEW i \in 1 .. lb PROVE t[la + i] = b[i]
    OBVIOUS
  <2>1. la + i \in 1 .. la + lb /\ la + i \in 1 .. la + lb + lc
    BY <1>8
  <2> QED
    BY <1>4, <1>5, <1>6, <1>7, <1>8, <2>1
<1>11. \A i \in 1 .. lc : t[la + lb + i] = c[i]
  <2> SUFFICES ASSUME NEW i \in 1 .. lc PROVE t[la + lb + i] = c[i]
    OBVIOUS
  <2>1. la + lb + i \in 1 .. la + lb + lc
    BY <1>8
  <2> QED
    BY <1>5, <1>6, <1>7, <1>8, <2>1
<1>12. \A i \in 1 .. ld : t[la + lb + lc + i] = d[i]
  BY <1>6, <1>7, <1>8
<1> QED
  BY <1>s, <1>7, <1>8, <1>9, <1>10, <1>11, <1>12, Zenon DEF AreParts

(* The text of a parameter, and the line of a header. *)
IsParamText(t, i, k, v) ==
  /\ Len(k) \in Nat /\ Len(v) \in Nat
  /\ Len(t) = Len(k) + Len(v) + 2
  /\ t[1] = IF i = 1 THEN "?" ELSE "&"
  /\ \A j \in 1 .. Len(k) : t[1 + j] = k[j]
  /\ t[Len(k) + 2] = "="
  /\ \A j \in 1 .. Len(v) : t[Len(k) + 2 + j] = v[j]

IsHeaderLine(t, k, v) ==
  /\ Len(k) \in Nat /\ Len(v) \in Nat
  /\ Len(t) = Len(k) + Len(v) + 4
  /\ \A j \in 1 .. Len(k) : t[j] = k[j]
  /\ t[Len(k) + 1] = ":" /\ t[Len(k) + 2] = " "
  /\ \A j \in 1 .. Len(v) : t[Len(k) + 2 + j] = v[j]
  /\ t[Len(k) + Len(v) + 3] = "CR" /\ t[Len(k) + Len(v) + 4] = "LF"

LEMMA ParamTextAt ==
  ASSUME NEW ps \in Seq(Seq(Token) \X Seq(Token))
  PROVE  /\ ParamTexts(ps) \in Seq(Seq(Token))
         /\ Len(ParamTexts(ps)) = Len(ps)
         /\ \A i \in 1 .. Len(ps) :
              IsParamText(ParamTexts(ps)[i], i, ps[i][1], ps[i][2])
<1> DEFINE P(i) ==
      <<IF i = 1 THEN "?" ELSE "&">> \o ps[i][1] \o <<"=">> \o ps[i][2]
<1>1. ASSUME NEW i \in 1 .. Len(ps)
      PROVE  P(i) \in Seq(Token) /\ IsParamText(P(i), i, ps[i][1], ps[i][2])
  <2>1. PICK a, k, e, v, t : /\ a = <<IF i = 1 THEN "?" ELSE "&">>
                             /\ k = ps[i][1] /\ e = <<"=">> /\ v = ps[i][2]
                             /\ t = P(i)
    OBVIOUS
  <2>3. k \in Seq(Token) /\ v \in Seq(Token) /\ t = a \o k \o e \o v
    BY <2>1
  <2> HIDE DEF P
  <2>2. /\ a \in Seq(Token) /\ Len(a) = 1 /\ a[1] = IF i = 1 THEN "?" ELSE "&"
        /\ e \in Seq(Token) /\ Len(e) = 1 /\ e[1] = "="
    <3>1. {"?", "&", "="} \subseteq Token
      BY DEF Token
    <3> QED
      BY <2>1, <3>1
  <2>4. /\ t \in Seq(Token) /\ Len(k) \in Nat /\ Len(v) \in Nat
        /\ Len(t) = Len(a) + Len(k) + Len(e) + Len(v)
        /\ \A j \in 1 .. Len(a) : t[j] = a[j]
        /\ \A j \in 1 .. Len(k) : t[Len(a) + j] = k[j]
        /\ \A j \in 1 .. Len(e) : t[Len(a) + Len(k) + j] = e[j]
        /\ \A j \in 1 .. Len(v) : t[Len(a) + Len(k) + Len(e) + j] = v[j]
    <3>1. t \in Seq(Token)
      BY <2>2, <2>3, FourParts, Zenon
    <3>2. AreParts(t, a, k, e, v)
      BY <2>2, <2>3, FourParts, Zenon
    <3> QED
      BY <3>1, <3>2, Zenon DEF AreParts
  <2>5. IsParamText(t, i, k, v)
    <3>1. PICK x \in Nat, y \in Nat : x = Len(k) /\ y = Len(v)
      BY <2>4
    <3>2. 1 + x + 1 + y = x + y + 2 /\ 1 + x + 1 = x + 2
      OBVIOUS
    <3>3. 1 \in 1 .. 1
      OBVIOUS
    <3>4. Len(t) = x + y + 2 /\ t[1] = a[1] /\ t[x + 2] = e[1]
      <4>1. Len(a) = 1 /\ Len(e) = 1
        BY <2>2
      <4>2. /\ Len(t) = 1 + x + 1 + y
            /\ \A j \in 1 .. 1 : t[j] = a[j]
            /\ \A j \in 1 .. 1 : t[1 + x + j] = e[j]
        BY <2>4, <3>1, <4>1, Zenon
      <4>3. t[1] = a[1]
        BY <3>3, <4>2, Zenon
      <4>4. t[1 + x + 1] = e[1]
        BY <3>3, <4>2, Zenon
      <4>5. t[x + 2] = e[1]
        BY <3>2, <4>4, Zenon
      <4>6. Len(t) = x + y + 2
        BY <3>2, <4>2, Zenon
      <4> QED
        BY <4>3, <4>5, <4>6, Zenon
    <3>5. /\ \A j \in 1 .. x : t[1 + j] = k[j]
          /\ \A j \in 1 .. y : t[x + 2 + j] = v[j]
      <4>1. Len(a) = 1 /\ Len(e) = 1
        BY <2>2
      <4>2. \A j \in 1 .. x : t[1 + j] = k[j]
        BY <2>4, <3>1, <4>1, Zenon
      <4>3. \A j \in 1 .. y : t[1 + x + 1 + j] = v[j]
        BY <2>4, <3>1, <4>1, Zenon
      <4>4. \A j \in 1 .. y : t[x + 2 + j] = v[j]
        BY <3>2, <4>3, Zenon
      <4> QED
        BY <4>2, <4>4, Zenon
    <3> QED
      BY <2>2, <2>4, <3>1, <3>4, <3>5, Zenon DEF IsParamText
  <2> QED
    BY <2>1, <2>4, <2>5, Zenon
<1>2. ParamTexts(ps) = [i \in 1 .. Len(ps) |-> P(i)]
  BY DEF ParamTexts
<1> HIDE DEF P
<1>3. ParamTexts(ps) \in Seq(Seq(Token))
  <2>1. \A i \in 1 .. Len(ps) : P(i) \in Seq(Token)
    BY <1>1
  <2> QED
    BY <1>2, <2>1
<1>4. Len(ParamTexts(ps)) = Len(ps)
  BY <1>2
<1>5. \A i \in 1 .. Len(ps) : ParamTexts(ps)[i] = P(i)
  BY <1>2
<1> QED
  BY <1>1, <1>3, <1>4, <1>5

LEMMA HeaderLineAt ==
  ASSUME NEW hs \in Seq(Seq(Token) \X Seq(Token))
  PROVE  /\ HeaderLines(hs) \in Seq(Seq(Token))
         /\ Len(HeaderLines(hs)) = Len(hs)
         /\ \A i \in 1 .. Len(hs) :
              IsHeaderLine(HeaderLines(hs)[i], hs[i][1], hs[i][2])
<1> DEFINE P(i) == hs[i][1] \o <<":", " ">> \o hs[i][2] \o <<"CR", "LF">>
<1>1. ASSUME NEW i \in 1 .. Len(hs)
      PROVE  P(i) \in Seq(Token) /\ IsHeaderLine(P(i), hs[i][1], hs[i][2])
  <2>1. PICK k, a, v, e, t : /\ k = hs[i][1] /\ a = <<":", " ">>
                             /\ v = hs[i][2] /\ e = <<"CR", "LF">>
                             /\ t = P(i)
    OBVIOUS
  <2>t. t = k \o a \o v \o e
    BY <2>1, Zenon
  <2> HIDE DEF P
  <2>3. k \in Seq(Token) /\ v \in Seq(Token) /\ t = k \o a \o v \o e
    <3>1. hs[i] \in Seq(Token) \X Seq(Token)
      OBVIOUS
    <3>2. hs[i][1] \in Seq(Token) /\ hs[i][2] \in Seq(Token)
      BY <3>1
    <3> QED
      BY <2>1, <2>t, <3>2, Zenon
  <2>2. /\ a \in Seq(Token) /\ Len(a) = 2 /\ a[1] = ":" /\ a[2] = " "
        /\ e \in Seq(Token) /\ Len(e) = 2 /\ e[1] = "CR" /\ e[2] = "LF"
    <3>1. ":" \in Token /\ " " \in Token /\ "CR" \in Token /\ "LF" \in Token
      BY DEF Token, Blank, LineEnd
    <3>2. a = <<":", " ">> /\ e = <<"CR", "LF">>
      BY <2>1, Zenon
    <3>3. a \in Seq(Token) /\ e \in Seq(Token)
      <4>1. \A x, y \in Token : <<x, y>> \in Seq(Token)
        OBVIOUS
      <4> QED
        BY <3>1, <3>2, <4>1, Zenon
    <3>4. /\ Len(a) = 2 /\ a[1] = ":" /\ a[2] = " "
          /\ Len(e) = 2 /\ e[1] = "CR" /\ e[2] = "LF"
      BY <3>2
    <3> QED
      BY <3>3, <3>4
  <2>4. /\ t \in Seq(Token) /\ Len(k) \in Nat /\ Len(v) \in Nat
        /\ Len(t) = Len(k) + Len(a) + Len(v) + Len(e)
        /\ \A j \in 1 .. Len(k) : t[j] = k[j]
        /\ \A j \in 1 .. Len(a) : t[Len(k) + j] = a[j]
        /\ \A j \in 1 .. Len(v) : t[Len(k) + Len(a) + j] = v[j]
        /\ \A j \in 1 .. Len(e) : t[Len(k) + Len(a) + Len(v) + j] = e[j]
    <3>1. t \in Seq(Token)
      BY <2>2, <2>3, FourParts, Zenon
    <3>2. AreParts(t, k, a, v, e)
      BY <2>2, <2>3, FourParts, Zenon
    <3> QED
      BY <3>1, <3>2, Zenon DEF AreParts
  <2>5. IsHeaderLine(t, k, v)
    <3>1. PICK x \in Nat, y \in Nat : x = Len(k) /\ y = Len(v)
      BY <2>4
    <3>2. /\ x + 2 + y + 2 = x + y + 4
          /\ x + 2 + y + 1 = x + y + 3
      OBVIOUS
    <3>3. 1 \in 1 .. 2 /\ 2 \in 1 .. 2
      OBVIOUS
    <3>4. /\ Len(t) = x + y + 4 /\ t[x + 1] = a[1] /\ t[x + 2] = a[2]
          /\ t[x + y + 3] = e[1] /\ t[x + y + 4] = e[2]
      <4>1. Len(a) = 2 /\ Len(e) = 2
        BY <2>2
      <4>2. /\ Len(t) = x + 2 + y + 2
            /\ \A j \in 1 .. 2 : t[x + j] = a[j]
            /\ \A j \in 1 .. 2 : t[x + 2 + y + j] = e[j]
        BY <2>4, <3>1, <4>1, Zenon
      <4> QED
        BY <3>2, <3>3, <4>2, Zenon
    <3>5. /\ \A j \in 1 .. x : t[j] = k[j]
          /\ \A j \in 1 .. y : t[x + 2 + j] = v[j]
      BY <2>2, <2>4, <3>1, <3>2, Zenon
    <3> QED
      BY <2>2, <2>4, <3>1, <3>4, <3>5, Zenon DEF IsHeaderLine
  <2> QED
    BY <2>1, <2>4, <2>5, Zenon
<1>2. HeaderLines(hs) = [i \in 1 .. Len(hs) |-> P(i)]
  BY DEF HeaderLines
<1> HIDE DEF P
<1>3. HeaderLines(hs) \in Seq(Seq(Token))
  <2>1. \A i \in 1 .. Len(hs) : P(i) \in Seq(Token)
    BY <1>1
  <2> QED
    BY <1>2, <2>1
<1>4. Len(HeaderLines(hs)) = Len(hs)
  BY <1>2
<1>5. \A i \in 1 .. Len(hs) : HeaderLines(hs)[i] = P(i)
  BY <1>2
<1> QED
  BY <1>1, <1>3, <1>4, <1>5

-----------------------------------------------------------------------------
(* The text the parser looks at. *)

(* The buffer's tokens, and behind them the NUL, which is none. *)
LEMMA TextFacts ==
  ASSUME buffer \in Seq(Token)
  PROVE  /\ Len(buffer) \in Nat
         /\ Len(Text) = Len(buffer) + 1
         /\ \A i \in 1 .. Len(buffer) : Text[i] = buffer[i] /\ Text[i] \in Token
         /\ Text[Len(buffer) + 1] = "NUL"
         /\ "NUL" \notin Token
<1>1. "NUL" \notin Token
  BY DEF Token, Methods, Upper, Blank, Digit, LineEnd
<1>2. buffer \in Seq(Token \cup {"NUL"})
  OBVIOUS
<1>3. /\ Len(Text) = Len(buffer) + 1
      /\ \A i \in 1 .. Len(buffer) : Text[i] = buffer[i]
      /\ Text[Len(buffer) + 1] = "NUL"
  BY <1>2, AppendProperties DEF Text
<1> QED
  BY <1>1, <1>3

(* A string that ends before the NUL is made of tokens. *)
LEMMA StrIsRead ==
  ASSUME buffer \in Seq(Token), NEW from \in Nat \ {0}, NEW to \in Int,
         to <= Len(buffer) + 1
  PROVE  Str(from, to) \in Seq(Token)
<1>1. \A i \in from .. to - 1 : Text[i] \in Token
  BY TextFacts
<1> QED
  BY <1>1, SubSeqProperties DEF Str

(* Adding to a map of strings. *)
LEMMA PutIsMap ==
  ASSUME NEW m, IsMap(m), NEW k \in Seq(Token), NEW v \in Seq(Token)
  PROVE  IsMap(Put(m, k, v))
BY DEF IsMap, Put

(* A field of a request may be replaced. *)
LEMMA RequestFields ==
  ASSUME NEW r, IsRequest(r)
  PROVE  /\ \A v \in Methods \cup {"kInvalid"} :
              IsRequest([r EXCEPT !.method = v])
         /\ \A v \in {"kHttp10", "kHttp11", "kUnknown"} :
              IsRequest([r EXCEPT !.version = v])
         /\ \A v \in Seq(Token) : /\ IsRequest([r EXCEPT !.url = v])
                                  /\ IsRequest([r EXCEPT !.protocol = v])
                                  /\ IsRequest([r EXCEPT !.body = v])
         /\ \A k, v \in Seq(Token) :
              /\ IsRequest([r EXCEPT !["params"] = Put(@, k, v)])
              /\ IsRequest([r EXCEPT !["headers"] = Put(@, k, v)])
<1>1. ASSUME NEW v \in Methods \cup {"kInvalid"}
      PROVE  IsRequest([r EXCEPT !.method = v])
  BY DEF IsRequest
<1>2. ASSUME NEW v \in {"kHttp10", "kHttp11", "kUnknown"}
      PROVE  IsRequest([r EXCEPT !.version = v])
  BY DEF IsRequest
<1>3. ASSUME NEW v \in Seq(Token) PROVE IsRequest([r EXCEPT !.url = v])
  BY DEF IsRequest
<1>4. ASSUME NEW v \in Seq(Token) PROVE IsRequest([r EXCEPT !.protocol = v])
  BY DEF IsRequest
<1>5. ASSUME NEW v \in Seq(Token) PROVE IsRequest([r EXCEPT !.body = v])
  BY DEF IsRequest
<1>6. ASSUME NEW k \in Seq(Token), NEW v \in Seq(Token)
      PROVE  IsRequest([r EXCEPT !["params"] = Put(@, k, v)])
  BY PutIsMap DEF IsRequest
<1>7. ASSUME NEW k \in Seq(Token), NEW v \in Seq(Token)
      PROVE  IsRequest([r EXCEPT !["headers"] = Put(@, k, v)])
  BY PutIsMap DEF IsRequest
<1> QED
  BY <1>1, <1>2, <1>3, <1>4, <1>5, <1>6, <1>7

(* What a disjunct of the loop is for the request: it stays, or one field of *)
(* it gets a string that was read.                                          *)
LEMMA ParseType == ParserInv /\ ParaseRequest => TypeOK'
<1> SUFFICES ASSUME ParserInv, ParaseRequest PROVE TypeOK'
  OBVIOUS
<1>types. /\ buffer \in Seq(Token) /\ Len(buffer) \in Nat
          /\ start \in 1 .. Len(buffer) + 2
          /\ end \in 1 .. Len(buffer) + 1
          /\ colon \in 1 .. Len(buffer) + 2
          /\ start <= end /\ end' = end + 1 /\ buffer' = buffer
          /\ IsRequest(request_) /\ state_ \in State /\ thrown \in BOOLEAN
  BY DEF ParserInv, TypeOK, BufferIsRead, PairInOrder, ParaseRequest, Reading
<1>str. \A from \in 1 .. Len(buffer) + 2 : \A to \in 1 .. Len(buffer) + 1 :
          Str(from, to) \in Seq(Token)
  BY <1>types, StrIsRead, SMTT(30)
<1>keep. ASSUME request_' = request_, state_' \in State, thrown' \in BOOLEAN,
                start' \in {start, end + 1}, colon' \in {colon, end}
         PROVE  TypeOK'
  BY <1>types, <1>keep DEF TypeOK
<1>cut. ASSUME IsRequest(request_'), state_' \in State, thrown' = thrown,
               start' \in {start, end + 1}, colon' = colon
        PROVE  TypeOK'
  BY <1>types, <1>cut DEF TypeOK
<1>1. CASE StartState
  BY <1>types, <1>keep, <1>1 DEF StartState, Move, State
<1>2. CASE Method
  <2>1. MethodOf(Str(start, end)) \in Methods \cup {"kInvalid"}
    BY DEF MethodOf
  <2>2. IsRequest([request_ EXCEPT !.method = MethodOf(Str(start, end))])
    BY <1>types, <2>1, RequestFields
  <2> QED
    BY <1>types, <1>keep, <1>cut, <1>2, <2>2 DEF Method, Move, Cut, State
<1>3. CASE Url
  <2>1. IsRequest([request_ EXCEPT !.url = Str(start, end)])
    BY <1>types, <1>str, RequestFields
  <2> QED
    BY <1>types, <1>keep, <1>cut, <1>3, <2>1 DEF Url, Move, Cut, State
<1>pair. ASSUME NEW s \in State, NEW field \in {"params", "headers"},
                NEW skip \in 1 .. 2, CutPair(s, field, skip)
         PROVE  TypeOK'
  <2>1. CASE ~ (start <= colon /\ colon + skip <= end)
    BY <1>types, <1>keep, <1>pair, <2>1 DEF CutPair
  <2>2. CASE start <= colon /\ colon + skip <= end
    <3>1. Str(start, colon) \in Seq(Token) /\ Str(colon + skip, end) \in Seq(Token)
      <4>1. /\ colon \in 1 .. Len(buffer) + 1
            /\ colon + skip \in 1 .. Len(buffer) + 2
        BY <1>types, <2>2
      <4> QED
        BY <1>types, <1>str, <4>1
    <3>2. IsRequest([request_ EXCEPT ![field] =
                       Put(@, Str(start, colon), Str(colon + skip, end))])
      BY <1>types, <1>pair, <3>1, RequestFields
    <3> QED
      BY <1>types, <1>cut, <1>pair, <2>2, <3>2 DEF CutPair, Cut
  <2> QED
    BY <2>1, <2>2
<1>4. CASE UrlParams
  BY <1>types, <1>keep, <1>pair, <1>4 DEF UrlParams, Move, State
<1>5. CASE Protocol
  <2>1. IsRequest([request_ EXCEPT !.protocol = Str(start, end)])
    BY <1>types, <1>str, RequestFields
  <2> QED
    BY <1>types, <1>keep, <1>cut, <1>5, <2>1 DEF Protocol, Move, Cut, State
<1>6. CASE Version
  <2>1. VersionOf(Str(start, end)) \in {"kHttp10", "kHttp11", "kUnknown"}
    BY DEF VersionOf
  <2>2. IsRequest([request_ EXCEPT !.version = VersionOf(Str(start, end))])
    BY <1>types, <2>1, RequestFields
  <2> QED
    BY <1>types, <1>keep, <1>cut, <1>6, <2>2 DEF Version, Move, Cut, State
<1>7. CASE Header
  BY <1>types, <1>keep, <1>pair, <1>7 DEF Header, Move, State
<1>8. CASE Lines
  BY <1>types, <1>keep, <1>cut, <1>8 DEF Lines, Move, Cut, State
<1>9. CASE Body
  <2>1. Str(start, start + (Len(buffer) - (end - 1))) \in Seq(Token)
    <3>1. /\ start \in Nat \ {0}
          /\ start + (Len(buffer) - (end - 1)) \in Int
          /\ start + (Len(buffer) - (end - 1)) <= Len(buffer) + 1
      BY <1>types
    <3> QED
      BY <1>types, <3>1, StrIsRead
  <2>2. IsRequest(request_')
    BY <1>types, <1>9, <2>1, RequestFields DEF Body
  <2> QED
    BY <1>types, <1>cut, <1>9, <2>2 DEF Body, State
<1> QED
  BY <1>1, <1>2, <1>3, <1>4, <1>5, <1>6, <1>7, <1>8, <1>9 DEF ParaseRequest

-----------------------------------------------------------------------------
(* The read and what was sent. *)

LEMMA SubSeqOfTwo ==
  ASSUME NEW S, NEW s \in Seq(S), NEW i \in 1 .. Len(s) - 1
  PROVE  SubSeq(s, i, i + 1) = <<s[i], s[i + 1]>>
<1> DEFINE p == SubSeq(s, i, i + 1)
<1> DEFINE q == <<s[i], s[i + 1]>>
<1>1. /\ p \in Seq(S) /\ Len(p) = 2
      /\ \A j \in 1 .. 2 : p[j] = s[i + j - 1]
  <2>1. i \in Int /\ i + 1 \in Int /\ i <= i + 1 /\ (i + 1) - i + 1 = 2
    OBVIOUS
  <2>2. \A j \in i .. i + 1 : s[j] \in S
    OBVIOUS
  <2>3. p \in Seq(S) /\ Len(p) = 2
    BY <2>1, <2>2, SubSeqProperties
  <2>4. \A j \in 1 .. 2 : p[j] = s[i + j - 1]
    BY <2>1, <2>2, SubSeqProperties
  <2> QED
    BY <2>3, <2>4
<1>2. p[1] = s[i] /\ p[2] = s[i + 1]
  BY <1>1
<1>3. q \in Seq(S) /\ Len(q) = 2 /\ q[1] = s[i] /\ q[2] = s[i + 1]
  OBVIOUS
<1> HIDE DEF p, q
<1>4. \A j \in 1 .. Len(p) : p[j] = q[j]
  BY <1>1, <1>2, <1>3
<1>5. p = q
  BY <1>1, <1>3, <1>4, SeqEqual
<1> QED
  BY <1>5 DEF p, q

LEMMA SubSeqOfFour ==
  ASSUME NEW S, NEW s \in Seq(S), NEW i \in 1 .. Len(s) - 3
  PROVE  SubSeq(s, i, i + 3) = <<s[i], s[i + 1], s[i + 2], s[i + 3]>>
<1> DEFINE p == SubSeq(s, i, i + 3)
<1> DEFINE q == <<s[i], s[i + 1], s[i + 2], s[i + 3]>>
<1>1. /\ p \in Seq(S) /\ Len(p) = 4
      /\ \A j \in 1 .. 4 : p[j] = s[i + j - 1]
  <2>1. i \in Int /\ i + 3 \in Int /\ i <= i + 3 /\ (i + 3) - i + 1 = 4
    OBVIOUS
  <2>2. \A j \in i .. i + 3 : s[j] \in S
    OBVIOUS
  <2>3. p \in Seq(S) /\ Len(p) = 4
    BY <2>1, <2>2, SubSeqProperties
  <2>4. \A j \in 1 .. 4 : p[j] = s[i + j - 1]
    BY <2>1, <2>2, SubSeqProperties
  <2> QED
    BY <2>3, <2>4
<1>2. /\ p[1] = s[i] /\ p[2] = s[i + 1]
      /\ p[3] = s[i + 2] /\ p[4] = s[i + 3]
  BY <1>1
<1>3. /\ q \in Seq(S) /\ Len(q) = 4
      /\ q[1] = s[i] /\ q[2] = s[i + 1] /\ q[3] = s[i + 2] /\ q[4] = s[i + 3]
  OBVIOUS
<1> HIDE DEF p, q
<1>4. \A j \in 1 .. Len(p) : p[j] = q[j]
  BY <1>1, <1>2, <1>3
<1>5. p = q
  BY <1>1, <1>3, <1>4, SeqEqual
<1> QED
  BY <1>5 DEF p, q

(* A read is a part of what was sent. *)
LEMMA ReadInText ==
  ASSUME BufferIsRead
  PROVE  /\ buffer \in Seq(Token)
         /\ input[1] \o input[2] \in Seq(Token)
         /\ \E k \in Nat :
              /\ k + Len(buffer) <= Len(input[1] \o input[2])
              /\ \A i \in 1 .. Len(buffer) :
                   (input[1] \o input[2])[k + i] = buffer[i]
<1>1. PICK s \in Seq(Token), t \in Seq(Token) : s = input[1] /\ t = input[2]
  BY DEF BufferIsRead
<1>2. buffer = s \/ buffer = t
  BY <1>1 DEF BufferIsRead
<1>3. /\ s \o t \in Seq(Token)
      /\ Len(s) \in Nat /\ Len(t) \in Nat
      /\ Len(s \o t) = Len(s) + Len(t)
      /\ \A i \in 1 .. Len(s) : (s \o t)[i] = s[i]
      /\ \A i \in 1 .. Len(t) : (s \o t)[Len(s) + i] = t[i]
  OBVIOUS
<1> DEFINE Part(b) == \E k \in Nat : /\ k + Len(b) <= Len(s \o t)
                                     /\ \A i \in 1 .. Len(b) :
                                          (s \o t)[k + i] = b[i]
<1>4. Part(s)
  <2>1. /\ 0 + Len(s) <= Len(s \o t)
        /\ \A i \in 1 .. Len(s) : (s \o t)[0 + i] = s[i]
    BY <1>3
  <2> QED
    BY <2>1
<1>5. Part(t)
  <2>1. Len(s) + Len(t) <= Len(s \o t)
    BY <1>3
  <2> QED
    BY <1>3, <2>1
<1>6. buffer \in Seq(Token) /\ Part(buffer)
  <2> HIDE DEF Part
  <2> QED
    BY <1>2, <1>4, <1>5
<1> QED
  BY <1>1, <1>3, <1>6, Zenon

(* Two characters of the read in a row are two of what was sent ... *)
LEMMA TwoInText ==
  ASSUME BufferIsRead, NEW e \in 2 .. Len(buffer),
         buffer[e - 1] = ":", buffer[e] = "CR"
  PROVE  EmptyValue
<1>1. PICK text : text = input[1] \o input[2] /\ text \in Seq(Token)
  BY ReadInText
<1>2. PICK k \in Nat : /\ k + Len(buffer) <= Len(text)
                       /\ \A i \in 1 .. Len(buffer) : text[k + i] = buffer[i]
  BY <1>1, ReadInText
<1>3. /\ k + (e - 1) \in 1 .. Len(text) - 1
      /\ text[k + (e - 1)] = ":" /\ text[k + (e - 1) + 1] = "CR"
  <2>1. Len(text) \in Nat /\ Len(buffer) \in Nat
    BY <1>1, ReadInText, LenProperties
  <2>2. e - 1 \in 1 .. Len(buffer) /\ e \in 1 .. Len(buffer)
    BY <2>1
  <2>3. k + (e - 1) + 1 = k + e /\ k + (e - 1) \in 1 .. Len(text) - 1
    BY <1>2, <2>1
  <2> QED
    BY <1>2, <2>2, <2>3
<1>4. SubSeq(text, k + (e - 1), k + (e - 1) + 1) = <<":", "CR">>
  BY <1>1, <1>3, SubSeqOfTwo
<1> QED
  BY <1>1, <1>3, <1>4 DEF EmptyValue

(* ... and so are four. *)
LEMMA FourInText ==
  ASSUME BufferIsRead, NEW e \in 4 .. Len(buffer),
         buffer[e - 3] = "CR", buffer[e - 2] = "LF",
         buffer[e - 1] = "CR", buffer[e] = "LF"
  PROVE  Ended
<1>1. PICK text : text = input[1] \o input[2] /\ text \in Seq(Token)
  BY ReadInText
<1>2. PICK k \in Nat : /\ k + Len(buffer) <= Len(text)
                       /\ \A i \in 1 .. Len(buffer) : text[k + i] = buffer[i]
  BY <1>1, ReadInText
<1>3. PICK i : i = k + (e - 3)
  OBVIOUS
<1>4. /\ i \in 1 .. Len(text) - 3
      /\ text[i] = "CR" /\ text[i + 1] = "LF"
      /\ text[i + 2] = "CR" /\ text[i + 3] = "LF"
  <2>1. Len(text) \in Nat /\ Len(buffer) \in Nat
    BY <1>1, ReadInText, LenProperties
  <2>2. /\ e - 3 \in 1 .. Len(buffer) /\ e - 2 \in 1 .. Len(buffer)
        /\ e - 1 \in 1 .. Len(buffer) /\ e \in 1 .. Len(buffer)
    BY <2>1
  <2>3. i + 1 = k + (e - 2) /\ i + 2 = k + (e - 1) /\ i + 3 = k + e
    BY <1>3
  <2>4. i \in 1 .. Len(text) - 3
    BY <1>2, <1>3, <2>1
  <2> QED
    BY <1>2, <1>3, <2>2, <2>3, <2>4
<1>5. SubSeq(text, i, i + 3) = <<"CR", "LF", "CR", "LF">>
  BY <1>1, <1>4, SubSeqOfFour
<1> QED
  BY <1>1, <1>4, <1>5 DEF Ended

-----------------------------------------------------------------------------
(* One round of the parser's loop. *)

(* It leaves the buffer alone and moves one on; the character it looks at is *)
(* the buffer's unless it is the NUL.                                       *)
LEMMA RoundFacts ==
  ASSUME ParserInv, ParaseRequest
  PROVE  /\ buffer \in Seq(Token) /\ Len(buffer) \in Nat
         /\ start \in Nat \ {0} /\ end \in 1 .. Len(buffer) + 1
         /\ colon \in Nat \ {0}
         /\ start <= end /\ end' = end + 1
         /\ ~thrown
         /\ Text' = Text
         /\ Ch # "NUL" => end \in 1 .. Len(buffer) /\ buffer[end] = Ch
<1>1. /\ buffer \in Seq(Token) /\ Len(buffer) \in Nat
      /\ start \in Nat \ {0} /\ end \in 1 .. Len(buffer) + 1
      /\ colon \in Nat \ {0}
      /\ start <= end /\ end' = end + 1
      /\ ~thrown /\ buffer' = buffer
  BY DEF ParserInv, TypeOK, BufferIsRead, PairInOrder, ParaseRequest, Reading
<1>2. Text' = Text
  BY <1>1 DEF Text
<1>3. Ch # "NUL" => end \in 1 .. Len(buffer) /\ buffer[end] = Ch
  BY <1>1, TextFacts DEF Ch
<1> QED
  BY <1>1, <1>2, <1>3

(* The pointers of a part and of a pair stay in order. *)
LEMMA ParseOrder == ParserInv /\ ParaseRequest => PairInOrder'
<1> SUFFICES ASSUME ParserInv, ParaseRequest PROVE PairInOrder'
  OBVIOUS
<1> DEFINE InPair(s) ==
      s \in {"BEFORE_URL_PARAM_VALUE", "URL_PARAM_VALUE", "HEADER_VALUE"}
<1>facts. /\ start \in Nat /\ end \in Nat /\ colon \in Nat
          /\ start <= end /\ end' = end + 1
          /\ Text' = Text /\ second' = second
  BY RoundFacts DEF ParaseRequest
<1>inv. PairInOrder
  BY DEF ParserInv
<1>go. ASSUME InPair(state_), start' = start, colon' = colon,
              state_' = "HEADER_VALUE" => state_ = "HEADER_VALUE"
       PROVE  PairInOrder'
  BY <1>facts, <1>inv, <1>go DEF PairInOrder
<1>out. ASSUME ~InPair(state_'), start' \in {start, end + 1}
        PROVE  PairInOrder'
  BY <1>facts, <1>out DEF PairInOrder
<1>in. ASSUME start' = start, colon' = end,
              state_' = "HEADER_VALUE" => Ch = ":"
       PROVE  PairInOrder'
  BY <1>facts, <1>in DEF PairInOrder, Ch
<1>1. CASE StartState
  BY <1>out, <1>1 DEF StartState, Move
<1>2. CASE Method
  BY <1>out, <1>2 DEF Method, Move, Cut
<1>3. CASE Url
  BY <1>out, <1>3 DEF Url, Move, Cut
<1>4. CASE UrlParams
  BY <1>go, <1>out, <1>in, <1>4 DEF UrlParams, Move, CutPair, Cut
<1>5. CASE Protocol
  BY <1>out, <1>5 DEF Protocol, Move, Cut
<1>6. CASE Version
  BY <1>out, <1>6 DEF Version, Move, Cut
<1>7. CASE Header
  BY <1>go, <1>out, <1>in, <1>7 DEF Header, Move, CutPair, Cut
<1>8. CASE Lines
  BY <1>out, <1>8 DEF Lines, Move, Cut
<1>9. CASE Body
  BY <1>out, <1>9 DEF Body
<1> QED
  BY <1>1, <1>2, <1>3, <1>4, <1>5, <1>6, <1>7, <1>8, <1>9 DEF ParaseRequest

(* Line ends are read one character at a time, the fourth completes an      *)
(* empty line.                                                              *)
LEMMA ParseLines == ParserInv /\ ParaseRequest => LineEndsRead'
<1> SUFFICES ASSUME ParserInv, ParaseRequest PROVE LineEndsRead'
  OBVIOUS
<1>facts. /\ end \in Nat \ {0} /\ end' = end + 1
          /\ end' - 1 = end /\ end' - 2 = end - 1 /\ end' - 3 = end - 2
          /\ Text' = Text /\ input' = input
  BY RoundFacts DEF ParaseRequest
<1>ended. Ended' <=> Ended
  BY <1>facts DEF Ended
<1>inv. LineEndsRead
  BY DEF ParserInv
<1>away. ASSUME state_' \notin {"WHEN_CR", "CR_LF", "CR_LF_CR", "BODY", "COMPLETE"}
         PROVE  LineEndsRead'
  BY <1>away DEF LineEndsRead
<1>cr. ASSUME state_' = "WHEN_CR", Ch = "CR"
       PROVE  LineEndsRead'
  BY <1>facts, <1>cr DEF LineEndsRead, Ch
<1>4. CASE UrlParams
  <2>1. state_' \notin {"WHEN_CR", "CR_LF", "CR_LF_CR", "BODY", "COMPLETE"}
    BY <1>4 DEF UrlParams, Move, CutPair, Cut
  <2> QED
    BY <1>away, <2>1
<1>1. CASE StartState
  BY <1>away, <1>1 DEF StartState, Move
<1>2. CASE Method
  BY <1>away, <1>2 DEF Method, Move, Cut
<1>3. CASE Url
  BY <1>away, <1>3 DEF Url, Move, Cut
<1>5. CASE Protocol
  BY <1>away, <1>5 DEF Protocol, Move, Cut
<1>6. CASE Version
  BY <1>away, <1>cr, <1>6 DEF Version, Move, Cut
<1>7. CASE Header
  BY <1>away, <1>cr, <1>7 DEF Header, Move, CutPair, Cut
<1>8. CASE Lines
  <2>1. CASE state_ = "WHEN_CR"
    <3>1. CASE Ch = "LF" /\ Cut("CR_LF", request_)
      BY <1>facts, <1>inv, <2>1, <3>1 DEF Cut, LineEndsRead, Ch
    <3>2. CASE Move("kINVALID")
      BY <1>away, <3>2 DEF Move
    <3> QED
      BY <1>8, <2>1, <3>1, <3>2 DEF Lines
  <2>2. CASE state_ = "CR_LF"
    <3>1. CASE Ch = "CR" /\ state_' = "CR_LF_CR"
      BY <1>facts, <1>inv, <2>2, <3>1 DEF LineEndsRead, Ch
    <3>2. CASE state_' \in {"kINVALID", "HEADER_KEY"}
      BY <1>away, <3>2
    <3> QED
      BY <1>8, <2>2, <3>1, <3>2 DEF Lines, Move
  <2>3. CASE state_ = "CR_LF_CR"
    <3>1. CASE Ch = "LF" /\ state_' \in {"BODY", "COMPLETE"}
      <4>1. /\ Text[end - 3] = "CR" /\ Text[end - 2] = "LF"
            /\ Text[end - 1] = "CR" /\ end > 3
        BY <1>inv, <2>3 DEF LineEndsRead
      <4>2. end \in 4 .. Len(buffer) /\ buffer[end] = "LF"
        BY <3>1, <4>1, RoundFacts
      <4>3. /\ buffer[end - 3] = "CR" /\ buffer[end - 2] = "LF"
            /\ buffer[end - 1] = "CR"
        BY <4>1, <4>2, RoundFacts, TextFacts, SMTT(30)
      <4>4. Ended
        BY <4>2, <4>3, FourInText DEF ParserInv
      <4> QED
        BY <1>ended, <3>1, <4>4 DEF LineEndsRead
    <3>2. CASE Move("kINVALID")
      BY <1>away, <3>2 DEF Move
    <3> QED
      BY <1>8, <2>3, <3>1, <3>2 DEF Lines, Cut
  <2> QED
    BY <1>8, <2>1, <2>2, <2>3 DEF Lines
<1>9. CASE Body
  <2>1. Ended /\ state_' = "COMPLETE"
    BY <1>inv, <1>9 DEF Body, LineEndsRead
  <2> QED
    BY <1>ended, <2>1 DEF LineEndsRead
<1> QED
  BY <1>1, <1>2, <1>3, <1>4, <1>5, <1>6, <1>7, <1>8, <1>9 DEF ParaseRequest

(* The loop throws for two reasons only: a header without a value, and a    *)
(* value that ended with the first read.                                    *)
LEMMA ParseThrows ==
  ParserInv /\ ParaseRequest /\ thrown' => EmptyValue \/ EndInFront
<1> SUFFICES ASSUME ParserInv, ParaseRequest, thrown'
             PROVE  EmptyValue \/ EndInFront
  OBVIOUS
<1>facts. /\ start \in Nat /\ end \in Nat \ {0} /\ colon \in Nat \ {0}
          /\ Len(buffer) \in Nat /\ ~thrown /\ second \in BOOLEAN
  BY RoundFacts DEF ParserInv, BufferIsRead
<1>inv. PairInOrder
  BY DEF ParserInv
<1>1. CASE /\ state_ = "URL_PARAM_VALUE" /\ Ch \in {"&", " "}
           /\ ~(start <= colon /\ colon + 1 <= end)
  <2>1. second /\ end = 1
    <3>1. start <= colon
      BY <1>inv, <1>1 DEF PairInOrder
    <3>2. colon < end \/ (second /\ end = 1)
      BY <1>inv, <1>1 DEF PairInOrder
    <3>3. ~(colon + 1 <= end)
      BY <1>1, <3>1
    <3>4. ~(colon < end)
      <4>1. end \in Nat /\ colon \in Nat
        BY <1>facts
      <4> QED
        BY <3>3, <4>1
    <3> QED
      BY <3>2, <3>4, Zenon
  <2>2. buffer[1] = Ch
    BY <1>1, <2>1, RoundFacts
  <2> QED
    BY <1>1, <2>1, <2>2 DEF EndInFront
<1>2. CASE /\ state_ = "HEADER_VALUE" /\ Ch = "CR"
           /\ ~(start <= colon /\ colon + 2 <= end)
  <2>1. end \in 1 .. Len(buffer) /\ buffer[end] = "CR"
    BY <1>2, RoundFacts
  <2>2. CASE second /\ end \in {1, 2}
    <3>1. buffer[1] = "CR" \/ (Len(buffer) > 1 /\ buffer[2] = "CR")
      BY <1>facts, <2>1, <2>2
    <3> QED
      BY <2>2, <3>1 DEF EndInFront
  <2>3. CASE ~(second /\ end \in {1, 2})
    <3>1. colon + 1 = end /\ Text[colon] = ":"
      BY <1>facts, <1>inv, <1>2, <2>3 DEF PairInOrder
    <3>2. /\ end \in 2 .. Len(buffer) /\ end - 1 = colon
          /\ colon \in 1 .. Len(buffer)
      BY <1>facts, <2>1, <3>1
    <3>3. buffer[end - 1] = ":"
      BY <3>1, <3>2, RoundFacts, TextFacts
    <3> QED
      BY <2>1, <3>2, <3>3, TwoInText DEF ParserInv
  <2> QED
    BY <2>2, <2>3
<1>3. CASE UrlParams
  BY <1>1, <1>3, <1>facts DEF UrlParams, Move, CutPair, Cut, Blank
<1>4. CASE Header
  BY <1>2, <1>4, <1>facts DEF Header, Move, CutPair, Cut
<1>5. ~(StartState \/ Method \/ Url \/ Protocol \/ Version \/ Lines \/ Body)
  BY <1>facts DEF StartState, Method, Url, Protocol, Version, Lines, Body,
                  Move, Cut
<1> QED
  BY <1>3, <1>4, <1>5 DEF ParaseRequest

-----------------------------------------------------------------------------
(* Where everything in a request's text stands. *)

RequestLineStands(t, p) ==
  /\ t[1] = p.method /\ t[2] = " "
  /\ Len(p.url) \in Nat
  /\ \A j \in 1 .. Len(p.url) : t[2 + j] = p.url[j]
  /\ ParamAt(p, 1) = 3 + Len(p.url)
  /\ HttpAt(p) \in Nat /\ ParamAt(p, 1) <= HttpAt(p)
  /\ t[HttpAt(p)] = " " /\ t[HttpAt(p) + 1] = "HTTP" /\ t[HttpAt(p) + 2] = "/"
  /\ t[HttpAt(p) + 3] = p.version /\ t[HttpAt(p) + 4] = "CR"
  /\ t[HttpAt(p) + 5] = "LF"

ParamStands(t, p, i) ==
  LET at == ParamAt(p, i)
      k  == p.params[i][1]
      v  == p.params[i][2]
  IN  /\ at \in Nat /\ 3 <= at /\ Len(k) \in Nat /\ Len(v) \in Nat
      /\ ParamAt(p, i + 1) = at + Len(k) + Len(v) + 2
      /\ ParamAt(p, i + 1) <= HttpAt(p)
      /\ t[at] = IF i = 1 THEN "?" ELSE "&"
      /\ \A j \in 1 .. Len(k) : t[at + j] = k[j]
      /\ t[at + Len(k) + 1] = "="
      /\ \A j \in 1 .. Len(v) : t[at + Len(k) + 1 + j] = v[j]

IsHeaderIn(t, at, k, v) ==
  /\ \A j \in 1 .. Len(k) : t[at + j - 1] = k[j]
  /\ t[at + Len(k)] = ":" /\ t[at + Len(k) + 1] = " "
  /\ \A j \in 1 .. Len(v) : t[at + Len(k) + 1 + j] = v[j]
  /\ t[at + Len(k) + Len(v) + 2] = "CR" /\ t[at + Len(k) + Len(v) + 3] = "LF"

HeaderStands(t, p, i) ==
  LET at == HeaderAt(p, i)
      k  == p.headers[i][1]
      v  == p.headers[i][2]
  IN  /\ at \in Nat /\ 9 <= at /\ Len(k) \in Nat /\ Len(v) \in Nat
      /\ HeaderAt(p, i + 1) = at + Len(k) + Len(v) + 4
      /\ HeaderAt(p, i + 1) <= EmptyAt(p)
      /\ IsHeaderIn(t, at, k, v)

EndStands(t, p) ==
  /\ EmptyAt(p) \in Nat /\ HeaderAt(p, 1) <= EmptyAt(p)
  /\ HeaderAt(p, 1) = HttpAt(p) + 6
  /\ Len(p.body) \in Nat
  /\ Len(t) = EmptyAt(p) + 1 + Len(p.body)
  /\ t[EmptyAt(p)] = "CR" /\ t[EmptyAt(p) + 1] = "LF"
  /\ \A j \in 1 .. Len(p.body) : t[EmptyAt(p) + 1 + j] = p.body[j]

Stands(t, p) ==
  /\ t \in Seq(Token)
  /\ RequestLineStands(t, p)
  /\ \A i \in 1 .. Len(p.params) : ParamStands(t, p, i)
  /\ \A i \in 1 .. Len(p.headers) : HeaderStands(t, p, i)
  /\ EndStands(t, p)

LEMMA TokenFacts ==
  /\ {" ", "HTTP", "/", "1.0", "1.1", "CR", "LF"} \subseteq Token
  /\ Methods \subseteq Token
  /\ "NUL" \notin Token
BY DEF Token, Methods, Upper, Blank, Digit, LineEnd

LEMMA Layout ==
  ASSUME NEW p, WellFormed(p)
  PROVE  Stands(RequestText(p), p)
<1> DEFINE ps == ParamTexts(p.params)
<1> DEFINE hs == HeaderLines(p.headers)
<1>1. PICK m, pj, line, hj, e, u, t :
        /\ m = <<p.method, " ">> /\ pj = Joined(ps)
        /\ line = <<" ", "HTTP", "/", p.version, "CR", "LF">>
        /\ hj = Joined(hs) /\ e = <<"CR", "LF">>
        /\ u = m \o p.url \o pj \o line
        /\ t = u \o hj \o e \o p.body /\ t = RequestText(p)
  BY DEF RequestText
<1>2. /\ m \in Seq(Token) /\ line \in Seq(Token) /\ e \in Seq(Token)
      /\ p.url \in Seq(Token) /\ p.body \in Seq(Token)
  <2>1. \A a, b, c, d, f, g \in Token :
          <<a, b>> \in Seq(Token) /\ <<a, b, c, d, f, g>> \in Seq(Token)
    OBVIOUS
  <2>2. p.method \in Token
    BY TokenFacts DEF WellFormed
  <2>3. /\ " " \in Token /\ "HTTP" \in Token /\ "/" \in Token /\ p.version \in Token
        /\ "CR" \in Token /\ "LF" \in Token
    BY TokenFacts DEF WellFormed
  <2>4. m \in Seq(Token) /\ line \in Seq(Token) /\ e \in Seq(Token)
    BY <1>1, <2>1, <2>2, <2>3, Zenon
  <2> QED
    BY <2>4 DEF WellFormed, IsWord
<1>3. /\ Len(m) = 2 /\ m[1] = p.method /\ m[2] = " "
      /\ Len(line) = 6 /\ line[1] = " " /\ line[2] = "HTTP" /\ line[3] = "/"
      /\ line[4] = p.version /\ line[5] = "CR" /\ line[6] = "LF"
      /\ Len(e) = 2 /\ e[1] = "CR" /\ e[2] = "LF"
  <2>1. /\ m = <<p.method, " ">> /\ e = <<"CR", "LF">>
        /\ line = <<" ", "HTTP", "/", p.version, "CR", "LF">>
    BY <1>1, Zenon
  <2> QED
    BY <2>1
<1>4. /\ p.params \in Seq(Seq(Token) \X Seq(Token))
      /\ p.headers \in Seq(Seq(Token) \X Seq(Token))
  BY DEF WellFormed
<1>5. /\ ps \in Seq(Seq(Token)) /\ Len(ps) = Len(p.params)
      /\ \A i \in 1 .. Len(p.params) :
           IsParamText(ps[i], i, p.params[i][1], p.params[i][2])
      /\ hs \in Seq(Seq(Token)) /\ Len(hs) = Len(p.headers)
      /\ \A i \in 1 .. Len(p.headers) :
           IsHeaderLine(hs[i], p.headers[i][1], p.headers[i][2])
  BY <1>4, ParamTextAt, HeaderLineAt, Zenon
<1>6. /\ \A i : ParamAt(p, i) = 3 + Len(p.url) + Len(Joins(ps)[i - 1])
      /\ \A i : HeaderAt(p, i) = HttpAt(p) + 6 + Len(Joins(hs)[i - 1])
  BY DEF ParamAt, HeaderAt
<1>7. HttpAt(p) = ParamAt(p, Len(ps) + 1) /\ EmptyAt(p) = HeaderAt(p, Len(hs) + 1)
  BY <1>5 DEF HttpAt, EmptyAt
<1> HIDE DEF ps, hs
<1>8. pj \in Seq(Token) /\ hj \in Seq(Token)
  BY <1>1, <1>5, JoinedAt, Zenon
<1>9. u \in Seq(Token) /\ AreParts(u, m, p.url, pj, line)
  BY <1>1, <1>2, <1>8, FourParts, Zenon
<1>10. t \in Seq(Token) /\ AreParts(t, u, hj, e, p.body)
  <2>1. t = u \o hj \o e \o p.body
    BY <1>1, Zenon
  <2>2. u \in Seq(Token) /\ hj \in Seq(Token) /\ e \in Seq(Token)
    BY <1>2, <1>8, <1>9, Zenon
  <2>3. p.body \in Seq(Token)
    BY <1>2, Zenon
  <2> QED
    BY <2>1, <2>2, <2>3, FourParts, Zenon
<1>11. PICK x, a, b, y : /\ x = Len(p.url) /\ a = Len(pj) /\ b = Len(hj)
                         /\ y = Len(p.body)
  OBVIOUS
<1>12. /\ x \in Nat /\ a \in Nat /\ b \in Nat /\ y \in Nat
       /\ Len(u) = 2 + x + a + 6
       /\ Len(t) = (2 + x + a + 6) + b + 2 + y
       /\ \A j \in 1 .. 2 : u[j] = m[j]
       /\ \A j \in 1 .. x : u[2 + j] = p.url[j]
       /\ \A j \in 1 .. a : u[2 + x + j] = pj[j]
       /\ \A j \in 1 .. 6 : u[2 + x + a + j] = line[j]
       /\ \A j \in 1 .. 2 + x + a + 6 : t[j] = u[j]
       /\ \A j \in 1 .. b : t[(2 + x + a + 6) + j] = hj[j]
       /\ \A j \in 1 .. 2 : t[(2 + x + a + 6) + b + j] = e[j]
       /\ \A j \in 1 .. y : t[(2 + x + a + 6) + b + 2 + j] = p.body[j]
  <2>1. Len(m) = 2 /\ Len(line) = 6 /\ Len(e) = 2
    BY <1>3, Zenon
  <2>2. /\ x \in Nat /\ a \in Nat
        /\ Len(u) = 2 + x + a + 6
        /\ \A j \in 1 .. 2 : u[j] = m[j]
        /\ \A j \in 1 .. x : u[2 + j] = p.url[j]
        /\ \A j \in 1 .. a : u[2 + x + j] = pj[j]
        /\ \A j \in 1 .. 6 : u[2 + x + a + j] = line[j]
    BY <1>9, <1>11, <2>1, Zenon DEF AreParts
  <2>3. /\ b \in Nat /\ y \in Nat
        /\ Len(t) = Len(u) + b + 2 + y
        /\ \A j \in 1 .. Len(u) : t[j] = u[j]
        /\ \A j \in 1 .. b : t[Len(u) + j] = hj[j]
        /\ \A j \in 1 .. 2 : t[Len(u) + b + j] = e[j]
        /\ \A j \in 1 .. y : t[Len(u) + b + 2 + j] = p.body[j]
    BY <1>10, <1>11, <2>1, Zenon DEF AreParts
  <2> QED
    BY <2>2, <2>3, Zenon
<1>num. x \in Nat /\ a \in Nat /\ b \in Nat /\ y \in Nat
  BY <1>12, Zenon
<1>13. /\ t[1] = p.method /\ t[2] = " "
       /\ \A j \in 1 .. x : t[2 + j] = p.url[j]
       /\ \A j \in 1 .. a : t[2 + x + j] = pj[j]
       /\ \A j \in 1 .. 6 : t[2 + x + a + j] = line[j]
  <2>1. /\ \A j \in 1 .. 2 : t[j] = m[j]
        /\ \A j \in 1 .. x : t[2 + j] = p.url[j]
        /\ \A j \in 1 .. a : t[2 + x + j] = pj[j]
        /\ \A j \in 1 .. 6 : t[2 + x + a + j] = line[j]
    BY <1>12
  <2>2. t[1] = m[1] /\ t[2] = m[2]
    BY <2>1
  <2> QED
    BY <1>3, <2>1, <2>2, Zenon
<1>14. Len(Joins(ps)[0]) = 0 /\ Len(Joins(hs)[0]) = 0
  BY <1>5, JoinedAt, Zenon
<1>15. a = Len(Joins(ps)[Len(ps)]) /\ b = Len(Joins(hs)[Len(hs)])
  BY <1>1, <1>5, <1>11, JoinedAt, Zenon
<1>16. Len(ps) \in Nat /\ Len(hs) \in Nat
  BY <1>5
<1>17. HttpAt(p) = 3 + x + a /\ EmptyAt(p) = (3 + x + a) + 6 + b
  <2>1. (Len(ps) + 1) - 1 = Len(ps) /\ (Len(hs) + 1) - 1 = Len(hs)
    BY <1>16
  <2>2. HttpAt(p) = 3 + x + a
    BY <1>6, <1>7, <1>11, <1>15, <2>1, Zenon
  <2>3. EmptyAt(p) = HttpAt(p) + 6 + b
    BY <1>6, <1>7, <1>15, <2>1, Zenon
  <2> QED
    BY <2>2, <2>3, Zenon
<1>18. ParamAt(p, 1) = 3 + x /\ HeaderAt(p, 1) = (3 + x + a) + 6
  <2>1. 1 - 1 = 0 /\ 3 + x + 0 = 3 + x /\ (3 + x + a) + 6 + 0 = (3 + x + a) + 6
    BY <1>num
  <2> QED
    BY <1>6, <1>11, <1>14, <1>17, <2>1, Zenon
<1>19. RequestLineStands(t, p)
  <2>1. /\ 2 + x + a + 1 = 3 + x + a
        /\ 2 + x + a + 2 = (3 + x + a) + 1
        /\ 2 + x + a + 3 = (3 + x + a) + 2
        /\ 2 + x + a + 4 = (3 + x + a) + 3
        /\ 2 + x + a + 5 = (3 + x + a) + 4
        /\ 2 + x + a + 6 = (3 + x + a) + 5
        /\ 3 + x + a \in Nat /\ 3 + x <= 3 + x + a
    BY <1>num
  <2>2. /\ 1 \in 1 .. 6 /\ 2 \in 1 .. 6 /\ 3 \in 1 .. 6
        /\ 4 \in 1 .. 6 /\ 5 \in 1 .. 6 /\ 6 \in 1 .. 6
    OBVIOUS
  <2>3. /\ t[3 + x + a] = " " /\ t[(3 + x + a) + 1] = "HTTP"
        /\ t[(3 + x + a) + 2] = "/" /\ t[(3 + x + a) + 3] = p.version
        /\ t[(3 + x + a) + 4] = "CR" /\ t[(3 + x + a) + 5] = "LF"
    BY <1>3, <1>13, <2>1, <2>2, Zenon
  <2>4. PICK http : http = 3 + x + a
    OBVIOUS
  <2>5. /\ t[http] = " " /\ t[http + 1] = "HTTP" /\ t[http + 2] = "/"
        /\ t[http + 3] = p.version /\ t[http + 4] = "CR" /\ t[http + 5] = "LF"
    BY <2>3, <2>4, Zenon
  <2>6. HttpAt(p) = http /\ http \in Nat /\ 3 + x <= http
    BY <1>17, <2>1, <2>4, Zenon
  <2>7. ParamAt(p, 1) = 3 + x /\ x = Len(p.url)
    BY <1>11, <1>18, Zenon
  <2>8. /\ t[1] = p.method /\ t[2] = " "
        /\ \A j \in 1 .. x : t[2 + j] = p.url[j]
    BY <1>13, Zenon
  <2> QED
    BY <1>num, <2>5, <2>6, <2>7, <2>8, Zenon DEF RequestLineStands
<1>20. EndStands(t, p)
  <2>1. /\ (2 + x + a + 6) + b + 1 = (3 + x + a) + 6 + b
        /\ (2 + x + a + 6) + b + 2 = ((3 + x + a) + 6 + b) + 1
        /\ (2 + x + a + 6) + b + 2 + y = ((3 + x + a) + 6 + b) + 1 + y
        /\ (3 + x + a) + 6 + b \in Nat
        /\ (3 + x + a) + 6 <= (3 + x + a) + 6 + b
    BY <1>num
  <2>2. 1 \in 1 .. 2 /\ 2 \in 1 .. 2
    OBVIOUS
  <2>3. /\ t[(3 + x + a) + 6 + b] = "CR"
        /\ t[((3 + x + a) + 6 + b) + 1] = "LF"
    BY <1>3, <1>12, <2>1, <2>2, Zenon
  <2>4. \A j \in 1 .. y : t[((3 + x + a) + 6 + b) + 1 + j] = p.body[j]
    BY <1>12, <2>1, Zenon
  <2>5. PICK empty : empty = (3 + x + a) + 6 + b
    OBVIOUS
  <2>6. /\ t[empty] = "CR" /\ t[empty + 1] = "LF"
        /\ \A j \in 1 .. y : t[empty + 1 + j] = p.body[j]
    BY <2>3, <2>4, <2>5, Zenon
  <2>7. EmptyAt(p) = empty /\ empty \in Nat /\ y = Len(p.body)
    BY <1>11, <1>17, <2>1, <2>5, Zenon
  <2>8. Len(t) = empty + 1 + y
    BY <1>12, <2>1, <2>5, Zenon
  <2>9. HeaderAt(p, 1) = HttpAt(p) + 6 /\ HeaderAt(p, 1) <= empty
    BY <1>17, <1>18, <2>1, <2>5, Zenon
  <2> QED
    BY <1>num, <2>6, <2>7, <2>8, <2>9, Zenon DEF EndStands
<1>21. ASSUME NEW i \in 1 .. Len(ps) PROVE ParamStands(t, p, i)
  <2>1. PICK text, k, v, c, d, n : /\ text = ps[i]
                           /\ k = p.params[i][1] /\ v = p.params[i][2]
                           /\ c = Len(k) /\ d = Len(v)
                           /\ n = Len(Joins(ps)[i - 1])
    OBVIOUS
  <2>2. /\ c \in Nat /\ d \in Nat /\ Len(text) = c + d + 2
        /\ text[1] = IF i = 1 THEN "?" ELSE "&"
        /\ \A j \in 1 .. c : text[1 + j] = k[j]
        /\ text[c + 2] = "="
        /\ \A j \in 1 .. d : text[c + 2 + j] = v[j]
    <3>1. IsParamText(ps[i], i, p.params[i][1], p.params[i][2])
      BY <1>5
    <3> QED
      BY <2>1, <3>1, Zenon DEF IsParamText
  <2>3. /\ n \in Nat
        /\ Len(Joins(ps)[i]) = n + Len(text)
        /\ Len(Joins(ps)[i]) <= a
        /\ \A j \in 1 .. Len(text) : pj[n + j] = text[j]
    <3>1. /\ Len(ps[i]) \in Nat
          /\ Len(Joins(ps)[i - 1]) \in Nat
          /\ Len(Joins(ps)[i]) = Len(Joins(ps)[i - 1]) + Len(ps[i])
          /\ Len(Joins(ps)[i]) <= Len(Joined(ps))
          /\ \A j \in 1 .. Len(ps[i]) :
               Joined(ps)[Len(Joins(ps)[i - 1]) + j] = ps[i][j]
      BY <1>5, JoinedAt, Zenon
    <3>2. pj = Joined(ps) /\ a = Len(Joined(ps))
      BY <1>1, <1>11, Zenon
    <3> QED
      BY <2>1, <3>1, <3>2, Zenon
  <2>4. /\ n + (c + d + 2) <= a
        /\ Len(Joins(ps)[i]) = n + (c + d + 2)
        /\ \A j \in 1 .. c + d + 2 : pj[n + j] = text[j]
    BY <2>2, <2>3, Zenon
  <2>num. c \in Nat /\ d \in Nat /\ n \in Nat /\ n + (c + d + 2) <= a
    BY <2>2, <2>3, <2>4, Zenon
  <2>5. \A j \in 1 .. c + d + 2 : t[2 + x + n + j] = text[j]
    <3> SUFFICES ASSUME NEW j \in 1 .. c + d + 2 PROVE t[2 + x + n + j] = text[j]
      OBVIOUS
    <3>1. n + j \in 1 .. a /\ 2 + x + (n + j) = 2 + x + n + j
      BY <1>num, <2>num
    <3>2. t[2 + x + (n + j)] = pj[n + j]
      BY <1>13, <3>1, Zenon
    <3> QED
      BY <2>4, <3>1, <3>2, Zenon
  <2>6. ParamAt(p, i) = 3 + x + n
    BY <1>6, <1>11, <2>1, Zenon
  <2>7. ParamAt(p, i + 1) = (3 + x + n) + c + d + 2
    <3>1. (i + 1) - 1 = i
      OBVIOUS
    <3>2. ParamAt(p, i + 1) = 3 + x + (n + (c + d + 2))
      BY <1>6, <1>11, <2>4, <3>1, Zenon
    <3> QED
      BY <1>num, <2>num, <3>2
  <2>8. /\ t[3 + x + n] = text[1]
        /\ \A j \in 1 .. c : t[(3 + x + n) + j] = text[1 + j]
        /\ t[(3 + x + n) + c + 1] = text[c + 2]
        /\ \A j \in 1 .. d : t[(3 + x + n) + c + 1 + j] = text[c + 2 + j]
    <3>1. 1 \in 1 .. c + d + 2 /\ 2 + x + n + 1 = 3 + x + n
      BY <1>num, <2>num
    <3>2. \A j \in 1 .. c : /\ 1 + j \in 1 .. c + d + 2
                            /\ 2 + x + n + (1 + j) = (3 + x + n) + j
      BY <1>num, <2>num
    <3>3. /\ c + 2 \in 1 .. c + d + 2
          /\ 2 + x + n + (c + 2) = (3 + x + n) + c + 1
      BY <1>num, <2>num
    <3>4. \A j \in 1 .. d : /\ c + 2 + j \in 1 .. c + d + 2
                            /\ 2 + x + n + (c + 2 + j) = (3 + x + n) + c + 1 + j
      BY <1>num, <2>num
    <3> QED
      BY <2>5, <3>1, <3>2, <3>3, <3>4, Zenon
  <2>9. /\ 3 + x + n \in Nat /\ 3 <= 3 + x + n
        /\ (3 + x + n) + c + d + 2 <= 3 + x + a
    BY <1>num, <2>num
  <2>10. PICK at : at = 3 + x + n
    OBVIOUS
  <2>11. /\ t[at] = IF i = 1 THEN "?" ELSE "&"
         /\ \A j \in 1 .. c : t[at + j] = k[j]
         /\ t[at + c + 1] = "="
         /\ \A j \in 1 .. d : t[at + c + 1 + j] = v[j]
    <3>1. t[at] = text[1] /\ t[at + c + 1] = text[c + 2]
      BY <2>8, <2>10, Zenon
    <3>2. /\ \A j \in 1 .. c : t[at + j] = text[1 + j]
          /\ \A j \in 1 .. d : t[at + c + 1 + j] = text[c + 2 + j]
      BY <2>8, <2>10, Zenon
    <3> QED
      BY <2>2, <3>1, <3>2, Zenon
  <2>12. /\ ParamAt(p, i) = at /\ ParamAt(p, i + 1) = at + c + d + 2
         /\ at \in Nat /\ 3 <= at /\ at + c + d + 2 <= HttpAt(p)
    BY <1>17, <2>6, <2>7, <2>9, <2>10, Zenon
  <2> QED
    BY <2>1, <2>2, <2>11, <2>12, Zenon DEF ParamStands
<1>22. ASSUME NEW i \in 1 .. Len(hs) PROVE HeaderStands(t, p, i)
  <2>1. PICK text, k, v, c, d, n : /\ text = hs[i]
                           /\ k = p.headers[i][1] /\ v = p.headers[i][2]
                           /\ c = Len(k) /\ d = Len(v)
                           /\ n = Len(Joins(hs)[i - 1])
    OBVIOUS
  <2>2. /\ c \in Nat /\ d \in Nat /\ Len(text) = c + d + 4
        /\ \A j \in 1 .. c : text[j] = k[j]
        /\ text[c + 1] = ":" /\ text[c + 2] = " "
        /\ \A j \in 1 .. d : text[c + 2 + j] = v[j]
        /\ text[c + d + 3] = "CR" /\ text[c + d + 4] = "LF"
    <3>1. IsHeaderLine(hs[i], p.headers[i][1], p.headers[i][2])
      BY <1>5
    <3> QED
      BY <2>1, <3>1, Zenon DEF IsHeaderLine
  <2>3. /\ n \in Nat
        /\ Len(Joins(hs)[i]) = n + Len(text)
        /\ Len(Joins(hs)[i]) <= b
        /\ \A j \in 1 .. Len(text) : hj[n + j] = text[j]
    <3>1. /\ Len(hs[i]) \in Nat
          /\ Len(Joins(hs)[i - 1]) \in Nat
          /\ Len(Joins(hs)[i]) = Len(Joins(hs)[i - 1]) + Len(hs[i])
          /\ Len(Joins(hs)[i]) <= Len(Joined(hs))
          /\ \A j \in 1 .. Len(hs[i]) :
               Joined(hs)[Len(Joins(hs)[i - 1]) + j] = hs[i][j]
      BY <1>5, JoinedAt, Zenon
    <3>2. hj = Joined(hs) /\ b = Len(Joined(hs))
      BY <1>1, <1>11, Zenon
    <3> QED
      BY <2>1, <3>1, <3>2, Zenon
  <2>4. /\ n + (c + d + 4) <= b
        /\ Len(Joins(hs)[i]) = n + (c + d + 4)
        /\ \A j \in 1 .. c + d + 4 : hj[n + j] = text[j]
    BY <2>2, <2>3, Zenon
  <2>num. c \in Nat /\ d \in Nat /\ n \in Nat /\ n + (c + d + 4) <= b
    BY <2>2, <2>3, <2>4, Zenon
  <2>at. PICK at \in Nat : at = (3 + x + a) + 6 + n
    BY <1>num, <2>num
  <2>5. \A j \in 1 .. c + d + 4 : t[at - 1 + j] = text[j]
    <3> SUFFICES ASSUME NEW j \in 1 .. c + d + 4 PROVE t[at - 1 + j] = text[j]
      OBVIOUS
    <3>1. n + j \in 1 .. b /\ (2 + x + a + 6) + (n + j) = at - 1 + j
      BY <1>num, <2>num, <2>at
    <3>2. t[(2 + x + a + 6) + (n + j)] = hj[n + j]
      BY <1>12, <3>1, Zenon
    <3> QED
      BY <2>4, <3>1, <3>2, Zenon
  <2>6. HeaderAt(p, i) = at
    BY <1>6, <1>17, <2>1, <2>at, Zenon
  <2>7. HeaderAt(p, i + 1) = at + c + d + 4
    <3>1. (i + 1) - 1 = i
      OBVIOUS
    <3>2. HeaderAt(p, i + 1) = (3 + x + a) + 6 + (n + (c + d + 4))
      BY <1>6, <1>17, <2>4, <3>1, Zenon
    <3> QED
      BY <1>num, <2>num, <2>at, <3>2
  <2>8. /\ \A j \in 1 .. c : t[at + j - 1] = text[j]
        /\ t[at + c] = text[c + 1]
        /\ t[at + c + 1] = text[c + 2]
        /\ \A j \in 1 .. d : t[at + c + 1 + j] = text[c + 2 + j]
        /\ t[at + c + d + 2] = text[c + d + 3]
        /\ t[at + c + d + 3] = text[c + d + 4]
    <3>1. \A j \in 1 .. c : j \in 1 .. c + d + 4 /\ at - 1 + j = at + j - 1
      BY <2>num
    <3>2. /\ c + 1 \in 1 .. c + d + 4 /\ at - 1 + (c + 1) = at + c
          /\ c + 2 \in 1 .. c + d + 4 /\ at - 1 + (c + 2) = at + c + 1
      BY <2>num
    <3>3. \A j \in 1 .. d : /\ c + 2 + j \in 1 .. c + d + 4
                            /\ at - 1 + (c + 2 + j) = at + c + 1 + j
      BY <2>num
    <3>4. /\ c + d + 3 \in 1 .. c + d + 4
          /\ at - 1 + (c + d + 3) = at + c + d + 2
          /\ c + d + 4 \in 1 .. c + d + 4
          /\ at - 1 + (c + d + 4) = at + c + d + 3
      BY <2>num
    <3>5. \A j \in 1 .. c : t[at + j - 1] = text[j]
      BY <2>5, <3>1, Zenon
    <3>6. t[at + c] = text[c + 1] /\ t[at + c + 1] = text[c + 2]
      BY <2>5, <3>2, Zenon
    <3>7. \A j \in 1 .. d : t[at + c + 1 + j] = text[c + 2 + j]
      BY <2>5, <3>3, Zenon
    <3>8. t[at + c + d + 2] = text[c + d + 3] /\ t[at + c + d + 3] = text[c + d + 4]
      BY <2>5, <3>4, Zenon
    <3> QED
      BY <3>5, <3>6, <3>7, <3>8, Zenon
  <2>9. 9 <= at /\ at + c + d + 4 <= (3 + x + a) + 6 + b
    BY <1>num, <2>num, <2>at
  <2>10. /\ HeaderAt(p, i) \in Nat /\ 9 <= HeaderAt(p, i)
         /\ HeaderAt(p, i + 1) = HeaderAt(p, i) + c + d + 4
         /\ HeaderAt(p, i + 1) <= EmptyAt(p)
    BY <1>17, <2>6, <2>7, <2>9, Zenon
  <2>11. /\ \A j \in 1 .. c : t[at + j - 1] = k[j]
         /\ t[at + c] = ":" /\ t[at + c + 1] = " "
         /\ \A j \in 1 .. d : t[at + c + 1 + j] = v[j]
         /\ t[at + c + d + 2] = "CR" /\ t[at + c + d + 3] = "LF"
    BY <2>2, <2>8, Zenon
  <2> QED
    <3>1. IsHeaderIn(t, at, k, v)
      BY <2>1, <2>11, Zenon DEF IsHeaderIn
    <3>2. Len(k) \in Nat /\ Len(v) \in Nat
      BY <2>1, <2>2, Zenon
    <3> QED
      BY <2>1, <2>6, <2>10, <3>1, <3>2, Zenon DEF HeaderStands
<1> QED
  BY <1>1, <1>5, <1>10, <1>19, <1>20, <1>21, <1>22 DEF Stands

-----------------------------------------------------------------------------
(* What is made of the strings. *)

LEMMA StrIs ==
  ASSUME buffer \in Seq(Token), NEW s \in Seq(Token), NEW from \in Nat \ {0},
         from + Len(s) <= Len(buffer) + 1,
         \A j \in 1 .. Len(s) : buffer[from + j - 1] = s[j]
  PROVE  Str(from, from + Len(s)) = s
<1>1. PICK n \in Nat, l \in Nat : n = Len(s) /\ l = Len(buffer)
  OBVIOUS
<1>2. PICK to \in Int : to = from + n - 1
  OBVIOUS
<1>3. /\ to <= l /\ to - from + 1 = n
      /\ \A i \in from .. to : i \in 1 .. l
      /\ \A j \in 1 .. n : from + j - 1 \in 1 .. l
  BY <1>1, <1>2
<1>4. \A i \in from .. to : Text[i] \in Token
  BY <1>1, <1>3, TextFacts
<1>5. PICK t : t = Str(from, from + n)
  OBVIOUS
<1>6. t = SubSeq(Text, from, to)
  BY <1>2, <1>5 DEF Str
<1>7. from <= to + 1
  BY <1>2
<1>8. /\ t \in Seq(Token) /\ Len(t) = n
      /\ \A j \in 1 .. n : t[j] = Text[from + j - 1]
  <2>1. /\ t \in Seq(Token)
        /\ Len(t) = IF from <= to THEN to - from + 1 ELSE 0
        /\ \A j \in 1 .. to - from + 1 : t[j] = Text[from + j - 1]
    BY <1>4, <1>6, SubSeqProperties
  <2> QED
    BY <1>3, <1>7, <2>1
<1>9. \A j \in 1 .. n : t[j] = s[j]
  <2> SUFFICES ASSUME NEW j \in 1 .. n PROVE t[j] = s[j]
    OBVIOUS
  <2>1. Text[from + j - 1] = buffer[from + j - 1]
    BY <1>1, <1>3, TextFacts
  <2> QED
    BY <1>1, <1>8, <2>1
<1>10. t = s
  BY <1>1, <1>8, <1>9, SeqEqual
<1> QED
  BY <1>1, <1>5, <1>10

(* A key has a last pair. *)
LEMMA LastPair ==
  ASSUME NEW pairs, NEW n \in Nat, NEW k \in {pairs[i][1] : i \in 1 .. n}
  PROVE  \E i \in 1 .. n : /\ pairs[i][1] = k
                           /\ \A j \in 1 .. n : pairs[j][1] = k => j <= i
<1> DEFINE T == {m \in 0 .. n - 1 : pairs[n - m][1] = k}
<1>1. PICK i \in 1 .. n : pairs[i][1] = k
  OBVIOUS
<1>2. n - i \in 0 .. n - 1 /\ n - (n - i) = i
  OBVIOUS
<1>3. n - i \in T
  BY <1>1, <1>2
<1>4. PICK m \in T : \A h \in T : m <= h
  <2>1. T \in SUBSET Nat
    OBVIOUS
  <2>2. T # {}
    <3> HIDE DEF T
    <3> QED
      BY <1>3
  <2> HIDE DEF T
  <2> QED
    BY <2>1, <2>2, LeastNat
<1>5. n - m \in 1 .. n /\ pairs[n - m][1] = k
  BY <1>4
<1>6. \A j \in 1 .. n : pairs[j][1] = k => j <= n - m
  <2> SUFFICES ASSUME NEW j \in 1 .. n, pairs[j][1] = k PROVE j <= n - m
    OBVIOUS
  <2>1. n - j \in 0 .. n - 1 /\ n - (n - j) = j
    OBVIOUS
  <2>2. n - j \in T
    BY <2>1
  <2>3. m <= n - j /\ m \in Nat
    BY <1>4, <2>2
  <2> QED
    BY <2>3
<1> QED
  BY <1>5, <1>6

(* A map's pairs go in one after the other. *)
IsLast(pairs, n, k, i) ==
  /\ i \in 1 .. n /\ pairs[i][1] = k
  /\ \A j \in 1 .. n : pairs[j][1] = k => j <= i

LEMMA MapOfAt ==
  ASSUME NEW pairs, NEW n \in Nat, NEW i, NEW k, IsLast(pairs, n, k, i)
  PROVE  k \in DOMAIN MapOf(pairs, n) /\ MapOf(pairs, n)[k] = pairs[i][2]
<1> DEFINE c == CHOOSE h \in 1 .. n :
                  /\ pairs[h][1] = k
                  /\ \A j \in 1 .. n : pairs[j][1] = k => j <= h
<1>1. /\ i \in 1 .. n /\ pairs[i][1] = k
      /\ \A j \in 1 .. n : pairs[j][1] = k => j <= i
  BY DEF IsLast
<1>2. /\ c \in 1 .. n /\ pairs[c][1] = k
      /\ \A j \in 1 .. n : pairs[j][1] = k => j <= c
  BY <1>1
<1>3. k \in {pairs[h][1] : h \in 1 .. n}
  BY <1>1
<1>4. MapOf(pairs, n)[k] = pairs[c][2] /\ k \in DOMAIN MapOf(pairs, n)
  BY <1>3 DEF MapOf
<1> HIDE DEF c
<1>5. c = i
  <2>1. c <= i /\ i <= c
    BY <1>1, <1>2
  <2> QED
    BY <1>1, <1>2, <2>1
<1> QED
  BY <1>4, <1>5

LEMMA MapStep ==
  ASSUME NEW pairs, NEW n \in Nat \ {0}
  PROVE  Put(MapOf(pairs, n - 1), pairs[n][1], pairs[n][2]) = MapOf(pairs, n)
<1> DEFINE K(m) == {pairs[i][1] : i \in 1 .. m}
<1>1. DOMAIN MapOf(pairs, n - 1) = K(n - 1) /\ DOMAIN MapOf(pairs, n) = K(n)
  BY DEF MapOf
<1>2. K(n) = K(n - 1) \cup {pairs[n][1]}
  <2>1. /\ \A i \in 1 .. n : i \in 1 .. n - 1 \/ i = n
        /\ \A i \in 1 .. n - 1 : i \in 1 .. n
        /\ n \in 1 .. n
    OBVIOUS
  <2> QED
    BY <2>1
<1>3. PICK old, new : old = MapOf(pairs, n - 1) /\ new = MapOf(pairs, n)
  OBVIOUS
<1>4. new = [k \in K(n) |-> new[k]]
  BY <1>3 DEF MapOf
<1>5. ASSUME NEW k \in K(n)
      PROVE  new[k] = IF k = pairs[n][1] THEN pairs[n][2] ELSE old[k]
  <2>1. CASE k = pairs[n][1]
    <3>1. IsLast(pairs, n, k, n)
      BY <2>1 DEF IsLast
    <3> QED
      BY <1>3, <2>1, <3>1, MapOfAt
  <2>2. CASE k # pairs[n][1]
    <3>1. n - 1 \in Nat /\ k \in {pairs[i][1] : i \in 1 .. n - 1}
      BY <1>2, <2>2
    <3>2. PICK i \in 1 .. n - 1 :
            /\ pairs[i][1] = k
            /\ \A j \in 1 .. n - 1 : pairs[j][1] = k => j <= i
      BY <3>1, LastPair
    <3>3. IsLast(pairs, n - 1, k, i)
      BY <3>2 DEF IsLast
    <3>4. IsLast(pairs, n, k, i)
      <4>1. \A j \in 1 .. n : pairs[j][1] = k => j \in 1 .. n - 1
        BY <2>2
      <4> QED
        BY <3>2, <4>1 DEF IsLast
    <3>5. old[k] = pairs[i][2] /\ new[k] = pairs[i][2]
      BY <1>3, <3>1, <3>3, <3>4, MapOfAt
    <3> QED
      BY <2>2, <3>5
  <2> QED
    BY <2>1, <2>2
<1>6. Put(old, pairs[n][1], pairs[n][2])
        = [k \in K(n) |-> IF k = pairs[n][1] THEN pairs[n][2] ELSE old[k]]
  BY <1>1, <1>2, <1>3 DEF Put
<1> HIDE DEF K
<1>7. Put(old, pairs[n][1], pairs[n][2]) = new
  BY <1>4, <1>5, <1>6
<1> QED
  BY <1>3, <1>7

LEMMA MapOfNone == \A pairs : MapOf(pairs, 0) = <<>>
<1> SUFFICES ASSUME NEW pairs PROVE MapOf(pairs, 0) = <<>>
  OBVIOUS
<1>1. {pairs[i][1] : i \in 1 .. 0} = {}
  OBVIOUS
<1>2. DOMAIN MapOf(pairs, 0) = {} /\ MapOf(pairs, 0) \in [{} -> {}]
  BY <1>1 DEF MapOf
<1> QED
  BY <1>2

(* A request, by its fields. *)
Fields(method, url, params, protocol, version, headers, body) ==
  [method |-> method, url |-> url, params |-> params, protocol |-> protocol,
   version |-> version, headers |-> headers, body |-> body]

LEMMA FieldsOf ==
  ASSUME NEW p
  PROVE  /\ Empty = Fields("kInvalid", <<>>, <<>>, <<>>, "kUnknown", <<>>, <<>>)
         /\ MethodRead(p)
              = Fields(p.method, <<>>, <<>>, <<>>, "kUnknown", <<>>, <<>>)
         /\ \A n : ParamsRead(p, n)
              = Fields(p.method, p.url, MapOf(p.params, n), <<>>, "kUnknown",
                       <<>>, <<>>)
         /\ ProtocolRead(p)
              = Fields(p.method, p.url, MapOf(p.params, Len(p.params)),
                       <<"HTTP">>, "kUnknown", <<>>, <<>>)
         /\ \A n : HeadersRead(p, n)
              = Fields(p.method, p.url, MapOf(p.params, Len(p.params)),
                       <<"HTTP">>, SentVersion(p), MapOf(p.headers, n), <<>>)
<1>1. Empty = Fields("kInvalid", <<>>, <<>>, <<>>, "kUnknown", <<>>, <<>>)
  BY DEF Empty, Fields
<1>2. MethodRead(p) = Fields(p.method, <<>>, <<>>, <<>>, "kUnknown", <<>>, <<>>)
  BY <1>1 DEF MethodRead, Fields
<1>3. ASSUME NEW n
      PROVE  ParamsRead(p, n) = Fields(p.method, p.url, MapOf(p.params, n), <<>>,
                                       "kUnknown", <<>>, <<>>)
  <2>1. ParamsRead(p, n) = [[MethodRead(p) EXCEPT !.url = p.url]
                               EXCEPT !.params = MapOf(p.params, n)]
    BY DEF ParamsRead
  <2>2. PICK r : r = [MethodRead(p) EXCEPT !.url = p.url]
    OBVIOUS
  <2>3. r = Fields(p.method, p.url, <<>>, <<>>, "kUnknown", <<>>, <<>>)
    BY <1>2, <2>2 DEF Fields
  <2>4. ParamsRead(p, n) = [r EXCEPT !.params = MapOf(p.params, n)]
    BY <2>1, <2>2, Zenon
  <2> QED
    BY <2>3, <2>4 DEF Fields
<1>4. ProtocolRead(p)
        = Fields(p.method, p.url, MapOf(p.params, Len(p.params)), <<"HTTP">>,
                 "kUnknown", <<>>, <<>>)
  BY <1>3 DEF ProtocolRead, Fields
<1>5. ASSUME NEW n
      PROVE  HeadersRead(p, n)
               = Fields(p.method, p.url, MapOf(p.params, Len(p.params)),
                        <<"HTTP">>, SentVersion(p), MapOf(p.headers, n), <<>>)
  <2>1. HeadersRead(p, n) = [[ProtocolRead(p) EXCEPT !.version = SentVersion(p)]
                               EXCEPT !.headers = MapOf(p.headers, n)]
    BY DEF HeadersRead
  <2>2. PICK r : r = [ProtocolRead(p) EXCEPT !.version = SentVersion(p)]
    OBVIOUS
  <2>3. r = Fields(p.method, p.url, MapOf(p.params, Len(p.params)),
                   <<"HTTP">>, SentVersion(p), <<>>, <<>>)
    BY <1>4, <2>2 DEF Fields
  <2>4. HeadersRead(p, n) = [r EXCEPT !.headers = MapOf(p.headers, n)]
    BY <2>1, <2>2, Zenon
  <2> QED
    BY <2>3, <2>4 DEF Fields
<1> QED
  BY <1>1, <1>2, <1>3, <1>4, <1>5

(* A Content-Length is zero if all its digits are. *)
ZeroLength(p) ==
  LET headers == MapOf(p.headers, Len(p.headers))
      length  == <<"Content-Length">>
  IN  /\ length \in DOMAIN headers
      /\ \A i \in DOMAIN headers[length] : headers[length][i] = "0"

LEMMA LengthOf ==
  ASSUME NEW p, WellFormed(p),
         request_.headers = MapOf(p.headers, Len(p.headers))
  PROVE  HasLength /\ LengthIsZero <=> ZeroLength(p)
<1> DEFINE length == <<"Content-Length">>
<1>1. PICK map : map = MapOf(p.headers, Len(p.headers)) /\ map = request_.headers
  OBVIOUS
<1>2. /\ HasLength <=> length \in DOMAIN map
      /\ ZeroLength(p) <=> /\ length \in DOMAIN map
                           /\ \A i \in DOMAIN map[length] : map[length][i] = "0"
  BY <1>1 DEF HasLength, ZeroLength
<1>3. CASE length \notin DOMAIN map
  BY <1>2, <1>3
<1>4. CASE length \in DOMAIN map
  <2>1. /\ Len(p.headers) \in Nat
        /\ p.headers \in Seq(Seq(Token) \X Seq(Token))
    BY DEF WellFormed
  <2>2. length \in {p.headers[i][1] : i \in 1 .. Len(p.headers)}
    BY <1>1, <1>4 DEF MapOf
  <2>3. PICK i \in 1 .. Len(p.headers) : IsLast(p.headers, Len(p.headers), length, i)
    <3> HIDE DEF length
    <3> QED
      BY <2>1, <2>2, LastPair DEF IsLast
  <2>4. PICK value : value = p.headers[i][2]
    OBVIOUS
  <2>5. map[length] = value
    <3> HIDE DEF length
    <3> QED
      BY <1>1, <2>1, <2>3, <2>4, MapOfAt
  <2>6. value \in Seq(Token) /\ IsNumeral(value)
    <3>1. p.headers[i][1] = length
      BY <2>3 DEF IsLast
    <3>2. i \in DOMAIN p.headers /\ p.headers[i] \in Seq(Token) \X Seq(Token)
      BY <2>1
    <3> QED
      BY <2>4, <3>1, <3>2 DEF WellFormed
  <2>7. /\ DOMAIN value = 1 .. Len(value) /\ Len(value) \in Nat
        /\ \A h \in DOMAIN value : value[h] \in {"7", "0"}
    BY <2>6 DEF IsNumeral
  <2>8. LengthIsZero <=>
          ~ \E h \in DOMAIN value : \E j \in 1 .. h :
              /\ value[h] \in {"7", "1.0", "1.1"}
              /\ \A k \in 1 .. j - 1 : value[k] \in {" ", "LF"}
              /\ \A k \in j .. h - 1 : value[k] = "0"
    <3>1. value = request_.headers[<<"Content-Length">>]
      BY <1>1, <2>5
    <3> QED
      BY <3>1, Zenon DEF LengthIsZero
  <2>9. ASSUME \A h \in DOMAIN value : value[h] = "0" PROVE LengthIsZero
    BY <2>8, <2>9
  <2>10. ASSUME ~ \A h \in DOMAIN value : value[h] = "0" PROVE ~LengthIsZero
    <3> DEFINE T == {h \in DOMAIN value : value[h] # "0"}
    <3>1. T \in SUBSET Nat /\ T # {}
      BY <2>7, <2>10
    <3>2. PICK h \in T : \A k \in T : h <= k
      <4> HIDE DEF T
      <4> QED
        BY <3>1, LeastNat
    <3>3. h \in DOMAIN value /\ value[h] = "7" /\ 1 \in 1 .. h
      BY <2>7
    <3>4. \A k \in 1 .. h - 1 : value[k] = "0"
      <4> SUFFICES ASSUME NEW k \in 1 .. h - 1 PROVE value[k] = "0"
        OBVIOUS
      <4>1. k \in DOMAIN value /\ ~ (h <= k)
        BY <2>7, <3>3
      <4> QED
        BY <3>2, <4>1
    <3>5. \A k \in 1 .. 1 - 1 : value[k] \in {" ", "LF"}
      <4>1. 1 .. 1 - 1 = {}
        OBVIOUS
      <4> QED
        BY <4>1
    <3> QED
      BY <2>8, <3>3, <3>4, <3>5, Zenon
  <2> QED
    BY <1>2, <1>4, <2>5, <2>9, <2>10
<1> QED
  BY <1>3, <1>4

LEMMA RequestOfIs ==
  ASSUME NEW p
  PROVE  RequestOf(p)
           = Fields(p.method, p.url, MapOf(p.params, Len(p.params)), <<"HTTP">>,
                    SentVersion(p), MapOf(p.headers, Len(p.headers)),
                    IF ZeroLength(p) THEN <<>> ELSE p.body)
BY DEF RequestOf, Fields, ZeroLength

-----------------------------------------------------------------------------
(* The parser on its way through a whole request. *)

(* The state tells which part of the loop runs. *)
LEMMA RoundOf ==
  ASSUME ParaseRequest
  PROVE  /\ state_ = "START" => StartState
         /\ state_ = "METHOD" => Method
         /\ state_ \in {"BEFORE_URL", "IN_URL"} => Url
         /\ state_ \in {"BEFORE_URL_PARAM_KEY", "URL_PARAM_KEY",
                        "BEFORE_URL_PARAM_VALUE", "URL_PARAM_VALUE"} => UrlParams
         /\ state_ \in {"BEFORE_PROTOCOL", "PROTOCOL"} => Protocol
         /\ state_ \in {"BEFORE_VERSION", "VERSION"} => Version
         /\ state_ \in {"HEADER_KEY", "HEADER_VALUE"} => Header
         /\ state_ \in {"WHEN_CR", "CR_LF", "CR_LF_CR"} => Lines
         /\ state_ = "BODY" => Body
<1>1. \/ StartState \/ Method \/ Url \/ UrlParams \/ Protocol \/ Version
      \/ Header \/ Lines \/ Body
  BY DEF ParaseRequest
<1>2. /\ StartState => state_ = "START"
      /\ Method => state_ = "METHOD"
      /\ Url => state_ \in {"BEFORE_URL", "IN_URL"}
      /\ UrlParams => state_ \in {"BEFORE_URL_PARAM_KEY", "URL_PARAM_KEY",
                                  "BEFORE_URL_PARAM_VALUE", "URL_PARAM_VALUE"}
  BY DEF StartState, Method, Url, UrlParams
<1>3. /\ Protocol => state_ \in {"BEFORE_PROTOCOL", "PROTOCOL"}
      /\ Version => state_ \in {"BEFORE_VERSION", "VERSION"}
      /\ Header => state_ \in {"HEADER_KEY", "HEADER_VALUE"}
      /\ Lines => state_ \in {"WHEN_CR", "CR_LF", "CR_LF_CR"}
      /\ Body => state_ = "BODY"
  BY DEF Protocol, Version, Header, Lines, Body
<1> QED
  BY <1>1, <1>2, <1>3

(* Before a request's parser: the text in the buffer, and the loop going on. *)
Round(p) ==
  /\ WellFormed(p)
  /\ buffer \in Seq(Token)
  /\ Stands(buffer, p)
  /\ ParaseRequest
  /\ ~thrown /\ end' = end + 1

LEMMA RoundIs ==
  ASSUME NEW p, Round(p)
  PROVE  /\ Len(buffer) \in Nat
         /\ Len(buffer) = EmptyAt(p) + 1 + Len(p.body)
         /\ HttpAt(p) \in Nat /\ EmptyAt(p) \in Nat /\ Len(p.body) \in Nat
         /\ 3 <= HttpAt(p) /\ HttpAt(p) + 6 <= EmptyAt(p)
         /\ \A i \in 1 .. Len(buffer) : end = i => Ch = buffer[i]
<1>1. \A i \in 1 .. Len(buffer) : end = i => Ch = buffer[i]
  BY TextFacts DEF Round, Ch
<1>2. /\ Len(buffer) = EmptyAt(p) + 1 + Len(p.body)
      /\ HttpAt(p) \in Nat /\ EmptyAt(p) \in Nat /\ Len(p.body) \in Nat
      /\ HttpAt(p) + 6 <= EmptyAt(p)
  BY DEF Round, Stands, EndStands, RequestLineStands
<1>3. 3 <= HttpAt(p)
  <2>1. /\ Len(p.url) \in Nat /\ ParamAt(p, 1) = 3 + Len(p.url)
        /\ ParamAt(p, 1) <= HttpAt(p)
    BY DEF Round, Stands, RequestLineStands
  <2> QED
    BY <1>2, <2>1
<1> QED
  BY <1>1, <1>2, <1>3 DEF Round

-----------------------------------------------------------------------------
(* A round of the loop in a whole request, state by state. *)

LEMMA StartRound ==
  ASSUME NEW p, Round(p), state_ = "START", start = 1, end = 1, request_ = Empty
  PROVE  InRequest(p)'
<1>1. StartState
  BY RoundOf DEF Round
<1>2. Ch = p.method
  <2>1. 1 \in 1 .. Len(buffer) /\ buffer[1] = p.method
    <3>1. buffer[1] = p.method
      BY DEF Round, Stands, RequestLineStands
    <3>2. 1 \in 1 .. Len(buffer)
      BY RoundIs
    <3> QED
      BY <3>1, <3>2
  <2> QED
    BY <2>1, RoundIs
<1>3. Ch \in Upper /\ Ch \notin LineEnd \cup Blank
  BY <1>2 DEF Round, WellFormed, Methods, Upper, LineEnd, Blank
<1>4. /\ state_' = "METHOD" /\ start' = 1 /\ end' = 2 /\ request_' = Empty
      /\ thrown' = thrown
  BY <1>1, <1>3 DEF StartState, Move, Round
<1> QED
  BY <1>4 DEF InRequest, InRequestLine, Round

LEMMA MethodRound ==
  ASSUME NEW p, Round(p), state_ = "METHOD", start = 1, end = 2, request_ = Empty
  PROVE  InRequest(p)'
<1>1. Method
  BY RoundOf DEF Round
<1>2. /\ 2 \in 1 .. Len(buffer) /\ Len(buffer) \in Nat /\ buffer \in Seq(Token)
      /\ buffer[1] = p.method /\ buffer[2] = " "
  <2>1. buffer[1] = p.method /\ buffer[2] = " " /\ buffer \in Seq(Token)
    BY DEF Round, Stands, RequestLineStands
  <2>2. 2 \in 1 .. Len(buffer) /\ Len(buffer) \in Nat
    BY RoundIs
  <2> QED
    BY <2>1, <2>2
<1>3. Ch = " "
  BY <1>2, RoundIs
<1>4. Ch \notin Upper /\ Ch \in Blank
  BY <1>3 DEF Methods, Upper, Blank
<1>5. Str(start, end) = <<p.method>>
  <2>1. PICK s : s = <<p.method>>
    OBVIOUS
  <2>2. p.method \in Token
    BY TokenFacts DEF Round, WellFormed
  <2>3. s \in Seq(Token) /\ Len(s) = 1 /\ s[1] = p.method
    BY <2>1, <2>2
  <2>4. /\ 1 \in Nat \ {0} /\ 1 + Len(s) = 2 /\ 1 + Len(s) <= Len(buffer) + 1
        /\ \A j \in 1 .. Len(s) : buffer[1 + j - 1] = s[j]
    <3>1. 1 + 1 - 1 = 1 /\ 1 + 1 = 2
      OBVIOUS
    <3>2. \A j \in 1 .. 1 : buffer[1 + j - 1] = s[j]
      <4>1. \A j \in 1 .. 1 : j = 1
        OBVIOUS
      <4> QED
        BY <1>2, <2>3, <3>1, <4>1
    <3>3. 2 <= Len(buffer) + 1
      <4>1. \A l \in Nat : 2 \in 1 .. l => 2 <= l + 1
        OBVIOUS
      <4> QED
        BY <1>2, <4>1, Zenon
    <3> QED
      BY <2>3, <3>1, <3>2, <3>3
  <2>5. Str(1, 1 + Len(s)) = s
    BY <1>2, <2>3, <2>4, StrIs
  <2> QED
    BY <2>1, <2>4, <2>5
<1>6. MethodOf(Str(start, end)) = p.method
  BY <1>5 DEF MethodOf, Methods, Round, WellFormed
<1>7. /\ state_' = "BEFORE_URL" /\ start' = 3 /\ end' = 3
      /\ request_' = MethodRead(p) /\ thrown' = thrown
  BY <1>1, <1>4, <1>6 DEF Method, Cut, Move, MethodRead, Round
<1> QED
  BY <1>7 DEF InRequest, InRequestLine, Round

(* A word has none of the characters that end it. *)
LEMMA WordAt ==
  ASSUME NEW s, NEW tokens, IsWord(s, tokens), NEW j \in 1 .. Len(s)
  PROVE  s[j] \in Token /\ s[j] \notin tokens \cup Blank \cup LineEnd
BY DEF IsWord, Without

LEMMA WordLength ==
  ASSUME NEW s, NEW tokens, IsWord(s, tokens)
  PROVE  s \in Seq(Token) /\ Len(s) \in Nat /\ 1 <= Len(s)
BY DEF IsWord

LEMMA UrlRound ==
  ASSUME NEW p, Round(p), request_ = MethodRead(p), start = 3,
         \/ state_ = "BEFORE_URL" /\ end = 3
         \/ state_ = "IN_URL" /\ end \in 4 .. ParamAt(p, 1)
  PROVE  InRequest(p)'
<1>0. Url
  BY RoundOf DEF Round
<1>1. /\ IsWord(p.url, {"?"}) /\ p.url[1] = "/" /\ p.params \in Seq(Seq(Token) \X Seq(Token))
  BY DEF Round, WellFormed
<1>2. PICK n \in Nat : n = Len(p.url) /\ 1 <= n /\ ParamAt(p, 1) = 3 + n
  BY <1>1, WordLength DEF Round, Stands, RequestLineStands
<1>3. /\ \A j \in 1 .. n : buffer[2 + j] = p.url[j]
      /\ buffer \in Seq(Token) /\ Len(buffer) \in Nat /\ 3 + n <= HttpAt(p)
      /\ HttpAt(p) \in Nat /\ HttpAt(p) + 5 <= Len(buffer)
  <2>1. /\ HttpAt(p) \in Nat /\ EmptyAt(p) \in Nat /\ HttpAt(p) + 6 <= EmptyAt(p)
        /\ Len(buffer) = EmptyAt(p) + 1 + Len(p.body) /\ Len(p.body) \in Nat
    BY RoundIs
  <2>2. HttpAt(p) + 5 <= Len(buffer)
    BY <2>1
  <2>3. /\ \A j \in 1 .. Len(p.url) : buffer[2 + j] = p.url[j]
        /\ buffer \in Seq(Token) /\ ParamAt(p, 1) <= HttpAt(p)
    BY DEF Round, Stands, RequestLineStands
  <2> QED
    BY <1>2, <2>1, <2>2, <2>3
<1>4. CASE state_ = "BEFORE_URL"
  <2>1. end = 3 /\ 3 \in 1 .. Len(buffer) /\ buffer[3] = p.url[1]
    <3>1. 1 \in 1 .. n /\ 2 + 1 = 3 /\ 3 \in 1 .. Len(buffer)
      BY <1>2, <1>3
    <3> QED
      BY <1>3, <1>4, <3>1
  <2>2. Ch = "/" /\ Ch \notin Blank
    BY <1>1, <2>1, RoundIs DEF Blank
  <2>3. /\ state_' = "IN_URL" /\ start' = 3 /\ end' = 4
        /\ request_' = MethodRead(p) /\ thrown' = thrown
    BY <1>0, <1>4, <2>1, <2>2 DEF Url, Move, Round
  <2>4. end' \in 4 .. ParamAt(p, 1)
    BY <1>2, <2>3
  <2> QED
    BY <2>3, <2>4 DEF InRequest, InRequestLine, Round
<1>5. CASE state_ = "IN_URL" /\ end < ParamAt(p, 1)
  <2>1. PICK j \in 1 .. n : j = end - 2 /\ end = 2 + j /\ end \in 1 .. Len(buffer)
    <3>1. end \in 4 .. 2 + n
      BY <1>2, <1>5
    <3>2. end - 2 \in 1 .. n /\ end = 2 + (end - 2) /\ end \in 1 .. Len(buffer)
      BY <1>2, <1>3, <3>1
    <3> QED
      BY <3>2
  <2>2. Ch = p.url[j]
    BY <1>3, <2>1, RoundIs
  <2>3. Ch \notin Blank \cup {"?"}
    BY <1>1, <1>2, <2>2, WordAt
  <2>4. /\ state_' = "IN_URL" /\ start' = 3 /\ end' = end + 1
        /\ request_' = MethodRead(p) /\ thrown' = thrown
    BY <1>0, <1>5, <2>3 DEF Url, Move, Round
  <2>5. end' \in 4 .. ParamAt(p, 1)
    BY <1>2, <1>5, <2>4
  <2> QED
    BY <2>4, <2>5 DEF InRequest, InRequestLine, Round
<1>6. CASE state_ = "IN_URL" /\ end = ParamAt(p, 1)
  <2>1. Str(3, 3 + n) = p.url
    <3>1. 3 \in Nat \ {0} /\ \A j \in 1 .. n : 3 + j - 1 = 2 + j
      OBVIOUS
    <3>2. 3 + n <= Len(buffer) + 1 /\ \A j \in 1 .. n : buffer[3 + j - 1] = p.url[j]
      BY <1>2, <1>3, <3>1
    <3>3. p.url \in Seq(Token)
      BY <1>1, WordLength
    <3> QED
      BY <1>2, <1>3, <3>1, <3>2, <3>3, StrIs
  <2>2. Str(start, end) = p.url
    BY <1>2, <1>6, <2>1
  <2>3. [request_ EXCEPT !.url = Str(start, end)] = ParamsRead(p, 0)
    <3>1. request_ = Fields(p.method, <<>>, <<>>, <<>>, "kUnknown", <<>>, <<>>)
      BY FieldsOf
    <3>2. ParamsRead(p, 0)
            = Fields(p.method, p.url, <<>>, <<>>, "kUnknown", <<>>, <<>>)
      BY FieldsOf, MapOfNone
    <3> QED
      BY <2>2, <3>1, <3>2 DEF Fields
  <2>4. end \in 1 .. Len(buffer)
    BY <1>2, <1>3, <1>6
  <2>5. CASE p.params # <<>>
    <3>1. Len(p.params) \in Nat /\ 1 \in 1 .. Len(p.params)
      BY <1>1, <2>5
    <3>2. ParamStands(buffer, p, 1)
      BY <3>1 DEF Round, Stands
    <3>3. Ch = "?"
      BY <1>6, <2>4, <3>2, RoundIs DEF ParamStands
    <3>4. /\ state_' = "BEFORE_URL_PARAM_KEY" /\ start' = ParamAt(p, 1) + 1
          /\ end' = start' /\ request_' = ParamsRead(p, 0) /\ thrown' = thrown
      BY <1>0, <1>6, <2>3, <3>3 DEF Url, Cut, Move, Round
    <3>5. 1 - 1 = 0 /\ 1 \in DOMAIN p.params
      BY <1>1, <3>1
    <3> QED
      BY <3>4, <3>5 DEF InRequest, InRequestLine, Round
  <2>6. CASE p.params = <<>>
    <3>1. Len(p.params) = 0 /\ Len(p.params) + 1 = 1
      BY <2>6
    <3>2. HttpAt(p) = ParamAt(p, 1)
      BY <3>1 DEF HttpAt
    <3>3. Ch = " "
      BY <1>6, <2>4, <3>2, RoundIs DEF Round, Stands, RequestLineStands
    <3>4. Ch # "?" /\ Ch \in Blank
      BY <3>3 DEF Blank
    <3>5. /\ state_' = "BEFORE_PROTOCOL" /\ start' = HttpAt(p) + 1
          /\ end' = start' /\ request_' = ParamsRead(p, Len(p.params))
          /\ thrown' = thrown
      BY <1>0, <1>6, <2>3, <3>1, <3>2, <3>4 DEF Url, Cut, Move, Round
    <3> QED
      BY <3>5 DEF InRequest, InRequestLine, Round
  <2> QED
    BY <2>5, <2>6
<1> QED
  <2>1. state_ = "IN_URL" => end < ParamAt(p, 1) \/ end = ParamAt(p, 1)
    BY <1>2
  <2> QED
    BY <1>4, <1>5, <1>6, <2>1

(* Before a parameter, in it and behind it. *)
ParamsLeft(p, i) ==
  LET equals == ParamAt(p, i) + Len(p.params[i][1]) + 1
  IN  /\ request_ = ParamsRead(p, i - 1) /\ start = ParamAt(p, i) + 1 /\ ~thrown
      /\ \/ state_ = "BEFORE_URL_PARAM_KEY" /\ end = start
         \/ state_ = "URL_PARAM_KEY" /\ end \in start + 1 .. equals
         \/ state_ = "BEFORE_URL_PARAM_VALUE" /\ colon = equals /\ end = colon + 1
         \/ /\ state_ = "URL_PARAM_VALUE"
            /\ colon = equals /\ end \in colon + 2 .. ParamAt(p, i + 1)

LEMMA InParams ==
  ASSUME NEW p, NEW i \in DOMAIN p.params, ParamsLeft(p, i)'
  PROVE  InRequest(p)'
BY DEF ParamsLeft, InRequest, InRequestLine

LEMMA ParamRound ==
  ASSUME NEW p, Round(p), NEW i \in DOMAIN p.params, ParamsLeft(p, i)
  PROVE  InRequest(p)'
<1>0. UrlParams
  BY RoundOf DEF Round, ParamsLeft
<1>1. PICK k, v, n : /\ k = p.params[i][1] /\ v = p.params[i][2]
                     /\ n = Len(p.params)
  OBVIOUS
<1>2. IsWord(k, {"="}) /\ IsWord(v, {"&"})
  BY <1>1 DEF Round, WellFormed
<1>3. n \in Nat /\ i \in 1 .. n
  <2>1. p.params \in Seq(Seq(Token) \X Seq(Token))
    BY DEF Round, WellFormed
  <2> QED
    BY <1>1, <2>1
<1>4. ParamStands(buffer, p, i)
  BY <1>1, <1>3 DEF Round, Stands
<1>5. PICK at, x, y, next, http, len :
        /\ at = ParamAt(p, i) /\ x = Len(k) /\ y = Len(v)
        /\ next = ParamAt(p, i + 1) /\ http = HttpAt(p) /\ len = Len(buffer)
  OBVIOUS
<1>6. /\ at \in Nat /\ x \in Nat /\ y \in Nat /\ 3 <= at
      /\ next = at + x + y + 2 /\ next <= http
      /\ buffer[at] = IF i = 1 THEN "?" ELSE "&"
      /\ \A j \in 1 .. x : buffer[at + j] = k[j]
      /\ buffer[at + x + 1] = "="
      /\ \A j \in 1 .. y : buffer[at + x + 1 + j] = v[j]
  BY <1>1, <1>4, <1>5, Zenon DEF ParamStands
<1>7. /\ 1 <= x /\ 1 <= y
      /\ k \in Seq(Token) /\ v \in Seq(Token)
  BY <1>2, <1>5, WordLength
<1>8. http \in Nat /\ len \in Nat /\ http + 5 <= len
  <2>1. /\ HttpAt(p) \in Nat /\ EmptyAt(p) \in Nat /\ HttpAt(p) + 6 <= EmptyAt(p)
        /\ Len(buffer) = EmptyAt(p) + 1 + Len(p.body) /\ Len(p.body) \in Nat
    BY RoundIs
  <2> QED
    BY <1>5, <2>1
<1>9. \A j \in 1 .. len : end = j => Ch = buffer[j]
  BY <1>5, RoundIs
<1>num. /\ at \in Nat /\ x \in Nat /\ y \in Nat /\ len \in Nat /\ 3 <= at
        /\ 1 <= x /\ 1 <= y
        /\ next = at + x + y + 2 /\ next + 5 <= len
  BY <1>6, <1>7, <1>8
<1>10. /\ request_ = ParamsRead(p, i - 1) /\ start = at + 1
       /\ end' = end + 1 /\ thrown = FALSE
       /\ \/ state_ = "BEFORE_URL_PARAM_KEY" /\ end = at + 1
          \/ state_ = "URL_PARAM_KEY" /\ end \in at + 1 + 1 .. at + x + 1
          \/ /\ state_ = "BEFORE_URL_PARAM_VALUE"
             /\ colon = at + x + 1 /\ end = at + x + 1 + 1
          \/ /\ state_ = "URL_PARAM_VALUE"
             /\ colon = at + x + 1 /\ end \in at + x + 1 + 2 .. next
  <2>2. thrown = FALSE
    BY DEF Round, ParaseRequest, Reading
  <2> QED
    BY <1>1, <1>5, <2>2 DEF ParamsLeft, Round
<1>in. ASSUME request_' = ParamsRead(p, i - 1), start' = at + 1, ~thrown',
              \/ state_' = "URL_PARAM_KEY" /\ end' \in at + 1 + 1 .. at + x + 1
              \/ /\ state_' = "BEFORE_URL_PARAM_VALUE"
                 /\ colon' = at + x + 1 /\ end' = at + x + 1 + 1
              \/ /\ state_' = "URL_PARAM_VALUE"
                 /\ colon' = at + x + 1 /\ end' \in at + x + 1 + 2 .. next
       PROVE  InRequest(p)'
  <2>1. ParamsLeft(p, i)'
    BY <1>1, <1>5, <1>in DEF ParamsLeft
  <2> QED
    BY <2>1, InParams
<1>11. CASE state_ = "BEFORE_URL_PARAM_KEY"
  <2>1. end = at + 1 /\ at + 1 \in 1 .. len /\ 1 \in 1 .. x
    BY <1>num, <1>10, <1>11
  <2>2. Ch = k[1]
    BY <1>6, <1>9, <2>1
  <2>3. Ch \notin Blank \cup LineEnd
    BY <1>2, <1>5, <2>1, <2>2, WordAt
  <2>4. /\ state_' = "URL_PARAM_KEY" /\ start' = at + 1 /\ thrown' = thrown
        /\ request_' = ParamsRead(p, i - 1)
    BY <1>0, <1>10, <1>11, <2>3 DEF UrlParams, Move
  <2>5. end' \in at + 1 + 1 .. at + x + 1
    BY <1>num, <1>10, <2>1
  <2> QED
    BY <1>in, <1>10, <2>4, <2>5
<1>12. CASE state_ = "URL_PARAM_KEY"
  <2>1. end \in at + 1 + 1 .. at + x + 1
    BY <1>10, <1>12
  <2>2. CASE end = at + x + 1
    <3>1. end \in 1 .. len
      BY <1>num, <2>2
    <3>2. Ch = "="
      BY <1>6, <1>9, <2>2, <3>1
    <3>3. Ch \notin Blank
      BY <3>2 DEF Blank
    <3>4. /\ state_' = "BEFORE_URL_PARAM_VALUE" /\ start' = at + 1
          /\ colon' = end /\ thrown' = thrown /\ request_' = ParamsRead(p, i - 1)
      BY <1>0, <1>10, <1>12, <3>2, <3>3 DEF UrlParams
    <3> QED
      BY <1>in, <1>10, <2>2, <3>4
  <2>3. CASE end # at + x + 1
    <3>1. /\ end \in 1 .. len /\ end - at \in 1 .. x /\ at + (end - at) = end
          /\ end + 1 \in at + 1 + 1 .. at + x + 1
      BY <1>num, <2>1, <2>3
    <3>2. Ch = k[end - at]
      <4>1. buffer[at + (end - at)] = k[end - at]
        BY <1>6, <3>1, Zenon
      <4> QED
        BY <1>9, <3>1, <4>1
    <3>3. Ch \notin Blank \cup {"="}
      BY <1>2, <1>5, <3>1, <3>2, WordAt
    <3>4. /\ state_' = "URL_PARAM_KEY" /\ start' = at + 1 /\ thrown' = thrown
          /\ request_' = ParamsRead(p, i - 1)
      BY <1>0, <1>10, <1>12, <3>3 DEF UrlParams, Move
    <3> QED
      BY <1>in, <1>10, <3>1, <3>4
  <2> QED
    BY <2>2, <2>3
<1>13. CASE state_ = "BEFORE_URL_PARAM_VALUE"
  <2>1. /\ colon = at + x + 1 /\ end = at + x + 1 + 1
        /\ at + x + 1 + 1 \in 1 .. len /\ 1 \in 1 .. y
    BY <1>num, <1>10, <1>13
  <2>2. Ch = v[1]
    BY <1>6, <1>9, <2>1
  <2>3. Ch \notin Blank \cup LineEnd
    BY <1>2, <1>5, <2>1, <2>2, WordAt
  <2>4. /\ state_' = "URL_PARAM_VALUE" /\ start' = at + 1 /\ colon' = colon
        /\ thrown' = thrown /\ request_' = ParamsRead(p, i - 1)
    BY <1>0, <1>10, <1>13, <2>3 DEF UrlParams, Move
  <2>5. end' \in at + x + 1 + 2 .. next
    BY <1>num, <1>10, <2>1
  <2> QED
    BY <1>in, <1>10, <2>1, <2>4, <2>5
<1>14. CASE state_ = "URL_PARAM_VALUE"
  <2>1. colon = at + x + 1 /\ end \in at + x + 1 + 2 .. next
    BY <1>10, <1>14
  <2>2. CASE end # next
    <3>1. /\ end \in 1 .. len /\ end - (at + x + 1) \in 1 .. y
          /\ at + x + 1 + (end - (at + x + 1)) = end
          /\ end + 1 \in at + x + 1 + 2 .. next
      BY <1>num, <2>1, <2>2
    <3>2. Ch = v[end - (at + x + 1)]
      <4>1. buffer[at + x + 1 + (end - (at + x + 1))] = v[end - (at + x + 1)]
        BY <1>6, <3>1, Zenon
      <4> QED
        BY <1>9, <3>1, <4>1
    <3>3. Ch \notin Blank \cup {"&"}
      BY <1>2, <1>5, <3>1, <3>2, WordAt
    <3>4. /\ state_' = "URL_PARAM_VALUE" /\ start' = at + 1 /\ thrown' = thrown
          /\ colon' = colon /\ request_' = ParamsRead(p, i - 1)
      BY <1>0, <1>10, <1>14, <3>3 DEF UrlParams, Move
    <3> QED
      BY <1>in, <1>10, <2>1, <3>1, <3>4
  <2>3. CASE end = next
    <3>1. Str(start, colon) = k
      <4>1. /\ at + 1 \in Nat \ {0} /\ at + 1 + x <= len + 1
            /\ at + x + 1 = at + 1 + x
            /\ \A j \in 1 .. x : at + 1 + j - 1 = at + j
        BY <1>num
      <4>2. \A j \in 1 .. x : buffer[at + 1 + j - 1] = k[j]
        BY <1>6, <4>1
      <4>3. Str(at + 1, at + 1 + x) = k
        BY <1>5, <1>7, <4>1, <4>2, StrIs DEF Round
      <4> QED
        BY <1>10, <2>1, <4>1, <4>3
    <3>2. Str(colon + 1, end) = v
      <4>1. /\ at + x + 1 + 1 \in Nat \ {0} /\ at + x + 1 + 1 + y <= len + 1
            /\ next = at + x + 1 + 1 + y
            /\ \A j \in 1 .. y : at + x + 1 + 1 + j - 1 = at + x + 1 + j
        BY <1>num
      <4>2. \A j \in 1 .. y : buffer[at + x + 1 + 1 + j - 1] = v[j]
        BY <1>6, <4>1
      <4>3. Str(at + x + 1 + 1, at + x + 1 + 1 + y) = v
        BY <1>5, <1>7, <4>1, <4>2, StrIs DEF Round
      <4> QED
        BY <2>1, <2>3, <4>1, <4>3
    <3>3. start <= colon /\ colon + 1 <= end
      BY <1>num, <1>10, <2>1, <2>3
    <3>4. [request_ EXCEPT !["params"] = Put(@, Str(start, colon), Str(colon + 1, end))]
            = ParamsRead(p, i)
      <4>1. request_ = Fields(p.method, p.url, MapOf(p.params, i - 1), <<>>,
                              "kUnknown", <<>>, <<>>)
        BY <1>10, FieldsOf
      <4>2. request_.params = MapOf(p.params, i - 1)
        BY <4>1 DEF Fields
      <4>3. Put(request_.params, k, v) = MapOf(p.params, i)
        BY <1>1, <1>3, <4>2, MapStep
      <4>4. ParamsRead(p, i) = Fields(p.method, p.url, MapOf(p.params, i), <<>>,
                                      "kUnknown", <<>>, <<>>)
        BY FieldsOf
      <4>5. [request_ EXCEPT !["params"] = MapOf(p.params, i)] = ParamsRead(p, i)
        BY <4>1, <4>4 DEF Fields
      <4> QED
        BY <3>1, <3>2, <4>3, <4>5
    <3>5. end \in 1 .. len
      BY <1>num, <2>3
    <3>cut. ASSUME NEW s, CutPair(s, "params", 1)
            PROVE  /\ state_' = s /\ start' = end + 1 /\ thrown' = thrown
                   /\ request_' = ParamsRead(p, i)
      BY <3>3, <3>4, <3>cut DEF CutPair, Cut
    <3>6. CASE i = n
      <4>1. HttpAt(p) = next
        BY <1>1, <1>5, <3>6 DEF HttpAt
      <4>2. Ch = " "
        BY <1>9, <2>3, <3>5, <4>1 DEF Round, Stands, RequestLineStands
      <4>3. Ch \in Blank /\ Ch # "&"
        BY <4>2 DEF Blank
      <4>4. CutPair("BEFORE_PROTOCOL", "params", 1)
        BY <1>0, <1>14, <4>3 DEF UrlParams
      <4>5. /\ state_' = "BEFORE_PROTOCOL" /\ start' = HttpAt(p) + 1
            /\ end' = start' /\ request_' = ParamsRead(p, Len(p.params)) /\ ~thrown'
        BY <1>1, <1>10, <2>3, <3>6, <3>cut, <4>1, <4>4
      <4> QED
        BY <4>5 DEF InRequest, InRequestLine
    <3>7. CASE i # n
      <4>1. i + 1 \in 1 .. n /\ i + 1 # 1 /\ (i + 1) - 1 = i
        BY <1>3, <3>7
      <4>2. ParamStands(buffer, p, i + 1)
        BY <1>1, <4>1 DEF Round, Stands
      <4>3. Ch = "&"
        <5>1. buffer[next] = "&"
          BY <1>5, <4>1, <4>2 DEF ParamStands
        <5> QED
          BY <1>9, <2>3, <3>5, <5>1
      <4>4. Ch \notin Blank
        BY <4>3 DEF Blank
      <4>5. CutPair("BEFORE_URL_PARAM_KEY", "params", 1)
        BY <1>0, <1>14, <4>3, <4>4 DEF UrlParams
      <4>6. /\ state_' = "BEFORE_URL_PARAM_KEY" /\ start' = ParamAt(p, i + 1) + 1
            /\ end' = start' /\ request_' = ParamsRead(p, (i + 1) - 1) /\ ~thrown'
        BY <1>5, <1>10, <2>3, <3>cut, <4>1, <4>5
      <4>7. ParamsLeft(p, i + 1)'
        BY <4>6 DEF ParamsLeft
      <4>8. i + 1 \in DOMAIN p.params
        <5>1. p.params \in Seq(Seq(Token) \X Seq(Token))
          BY DEF Round, WellFormed
        <5> QED
          BY <1>1, <4>1, <5>1
      <4> QED
        BY <4>7, <4>8, InParams
    <3> QED
      BY <3>6, <3>7
  <2> QED
    BY <2>2, <2>3
<1> QED
  BY <1>10, <1>11, <1>12, <1>13, <1>14

LEMMA ProtocolRound ==
  ASSUME NEW p, Round(p), request_ = ParamsRead(p, Len(p.params)),
         start = HttpAt(p) + 1,
         \/ state_ = "BEFORE_PROTOCOL" /\ end = start
         \/ state_ = "PROTOCOL" /\ end = start + 1
  PROVE  InRequest(p)'
<1>0. Protocol
  BY RoundOf DEF Round
<1>1. PICK http, len : http = HttpAt(p) /\ len = Len(buffer)
  OBVIOUS
<1>2. http \in Nat /\ len \in Nat /\ 3 <= http /\ http + 5 <= len
  <2>1. /\ HttpAt(p) \in Nat /\ EmptyAt(p) \in Nat /\ HttpAt(p) + 6 <= EmptyAt(p)
        /\ Len(buffer) = EmptyAt(p) + 1 + Len(p.body) /\ Len(p.body) \in Nat
        /\ 3 <= HttpAt(p)
    BY RoundIs
  <2> QED
    BY <1>1, <2>1
<1>3. buffer[http + 1] = "HTTP" /\ buffer[http + 2] = "/"
  BY <1>1 DEF Round, Stands, RequestLineStands
<1>4. \A j \in 1 .. len : end = j => Ch = buffer[j]
  BY <1>1, RoundIs
<1>5. end' = end + 1 /\ thrown = FALSE
  BY DEF Round, ParaseRequest, Reading
<1>6. CASE state_ = "BEFORE_PROTOCOL"
  <2>1. end = http + 1 /\ http + 1 \in 1 .. len
    BY <1>1, <1>2, <1>6
  <2>2. Ch = "HTTP" /\ Ch \notin Blank
    BY <1>3, <1>4, <2>1 DEF Blank
  <2>3. /\ state_' = "PROTOCOL" /\ start' = http + 1 /\ thrown' = FALSE
        /\ request_' = ParamsRead(p, Len(p.params))
    BY <1>0, <1>1, <1>5, <1>6, <2>2 DEF Protocol, Move
  <2>4. end' = start' + 1
    BY <1>5, <2>1, <2>3
  <2> QED
    BY <1>1, <2>3, <2>4 DEF InRequest, InRequestLine
<1>7. CASE state_ = "PROTOCOL"
  <2>1. /\ end = http + 1 + 1 /\ http + 1 + 1 = http + 2 /\ http + 2 \in 1 .. len
        /\ start = http + 1
    BY <1>1, <1>2, <1>7
  <2>2. Ch = "/"
    BY <1>3, <1>4, <2>1
  <2>3. Str(start, end) = <<"HTTP">>
    <3>1. PICK s : s = <<"HTTP">>
      OBVIOUS
    <3>2. s \in Seq(Token) /\ Len(s) = 1 /\ s[1] = "HTTP"
      <4>1. "HTTP" \in Token
        BY TokenFacts
      <4> QED
        BY <3>1, <4>1
    <3>3. /\ http + 1 \in Nat \ {0} /\ http + 1 + 1 <= len + 1
          /\ \A j \in 1 .. 1 : j = 1 /\ http + 1 + j - 1 = http + 1
      BY <1>2
    <3>4. \A j \in 1 .. 1 : buffer[http + 1 + j - 1] = s[j]
      BY <1>3, <3>2, <3>3
    <3>5. Str(http + 1, http + 1 + 1) = s
      BY <1>1, <3>2, <3>3, <3>4, StrIs DEF Round
    <3> QED
      BY <2>1, <3>1, <3>5
  <2>4. [request_ EXCEPT !.protocol = Str(start, end)] = ProtocolRead(p)
    BY <2>3 DEF ProtocolRead
  <2>5. /\ state_' = "BEFORE_VERSION" /\ start' = end + 1 /\ thrown' = FALSE
        /\ request_' = ProtocolRead(p)
    BY <1>0, <1>5, <1>7, <2>2, <2>4 DEF Protocol, Cut
  <2>6. start' = HttpAt(p) + 3 /\ end' = start'
    <3>1. http + 2 + 1 = http + 3
      BY <1>2
    <3> QED
      BY <1>1, <1>5, <2>1, <2>5, <3>1
  <2> QED
    BY <2>5, <2>6 DEF InRequest, InRequestLine
<1> QED
  BY <1>6, <1>7

(* Before a header or the empty line. *)
LinesLeft(p, i) ==
  /\ request_ = HeadersRead(p, i - 1) /\ ~thrown
  /\ \/ state_ = "WHEN_CR" /\ end = HeaderAt(p, i) - 1
     \/ state_ = "CR_LF" /\ start = HeaderAt(p, i) /\ end = start

LEMMA InLines ==
  ASSUME NEW p, NEW i \in 1 .. Len(p.headers) + 1, LinesLeft(p, i)'
  PROVE  InRequest(p)'
BY DEF LinesLeft, InRequest, InHeaders

LEMMA VersionRound ==
  ASSUME NEW p, Round(p), request_ = ProtocolRead(p), start = HttpAt(p) + 3,
         \/ state_ = "BEFORE_VERSION" /\ end = start
         \/ state_ = "VERSION" /\ end = start + 1
  PROVE  InRequest(p)'
<1>0. Version
  BY RoundOf DEF Round
<1>1. PICK http, len : http = HttpAt(p) /\ len = Len(buffer)
  OBVIOUS
<1>2. http \in Nat /\ len \in Nat /\ 3 <= http /\ http + 5 <= len
  <2>1. /\ HttpAt(p) \in Nat /\ EmptyAt(p) \in Nat /\ HttpAt(p) + 6 <= EmptyAt(p)
        /\ Len(buffer) = EmptyAt(p) + 1 + Len(p.body) /\ Len(p.body) \in Nat
        /\ 3 <= HttpAt(p)
    BY RoundIs
  <2> QED
    BY <1>1, <2>1
<1>3. buffer[http + 3] = p.version /\ buffer[http + 4] = "CR"
  BY <1>1 DEF Round, Stands, RequestLineStands
<1>4. \A j \in 1 .. len : end = j => Ch = buffer[j]
  BY <1>1, RoundIs
<1>5. end' = end + 1 /\ thrown = FALSE
  BY DEF Round, ParaseRequest, Reading
<1>6. CASE state_ = "BEFORE_VERSION"
  <2>1. end = http + 3 /\ http + 3 \in 1 .. len
    BY <1>1, <1>2, <1>6
  <2>2. Ch \in Digit
    BY <1>3, <1>4, <2>1 DEF Digit, Round, WellFormed
  <2>3. /\ state_' = "VERSION" /\ start' = http + 3 /\ thrown' = FALSE
        /\ request_' = ProtocolRead(p)
    BY <1>0, <1>1, <1>5, <1>6, <2>2 DEF Version, Move
  <2>4. end' = start' + 1
    BY <1>5, <2>1, <2>3
  <2> QED
    BY <1>1, <2>3, <2>4 DEF InRequest, InRequestLine
<1>7. CASE state_ = "VERSION"
  <2>1. /\ end = http + 3 + 1 /\ http + 3 + 1 = http + 4 /\ http + 4 \in 1 .. len
        /\ start = http + 3
    BY <1>1, <1>2, <1>7
  <2>2. Ch = "CR" /\ Ch \notin Digit
    BY <1>3, <1>4, <2>1 DEF Digit
  <2>3. Str(start, end) = <<p.version>>
    <3>1. PICK s : s = <<p.version>>
      OBVIOUS
    <3>2. s \in Seq(Token) /\ Len(s) = 1 /\ s[1] = p.version
      <4>1. p.version \in Token
        BY TokenFacts DEF Round, WellFormed
      <4> QED
        BY <3>1, <4>1
    <3>3. /\ http + 3 \in Nat \ {0} /\ http + 3 + 1 <= len + 1
          /\ \A j \in 1 .. 1 : j = 1 /\ http + 3 + j - 1 = http + 3
      BY <1>2
    <3>4. \A j \in 1 .. 1 : buffer[http + 3 + j - 1] = s[j]
      BY <1>3, <3>2, <3>3
    <3>5. Str(http + 3, http + 3 + 1) = s
      BY <1>1, <3>2, <3>3, <3>4, StrIs DEF Round
    <3> QED
      BY <2>1, <3>1, <3>5
  <2>4. [request_ EXCEPT !.version = VersionOf(Str(start, end))] = HeadersRead(p, 0)
    <3>1. VersionOf(Str(start, end)) = SentVersion(p)
      BY <2>3 DEF SentVersion
    <3>2. request_ = Fields(p.method, p.url, MapOf(p.params, Len(p.params)),
                            <<"HTTP">>, "kUnknown", <<>>, <<>>)
      BY FieldsOf
    <3>3. HeadersRead(p, 0)
            = Fields(p.method, p.url, MapOf(p.params, Len(p.params)), <<"HTTP">>,
                     SentVersion(p), <<>>, <<>>)
      BY FieldsOf, MapOfNone
    <3> QED
      BY <3>1, <3>2, <3>3 DEF Fields
  <2>5. /\ state_' = "WHEN_CR" /\ thrown' = FALSE /\ request_' = HeadersRead(p, 0)
    BY <1>0, <1>5, <1>7, <2>2, <2>4 DEF Version, Cut
  <2>6. end' = HeaderAt(p, 1) - 1
    <3>1. HeaderAt(p, 1) = http + 6
      BY <1>1 DEF Round, Stands, EndStands
    <3>2. http + 4 + 1 = http + 6 - 1
      BY <1>2
    <3>3. end' = http + 4 + 1
      BY <1>5, <2>1, Zenon
    <3> QED
      BY <1>2, <3>1, <3>2, <3>3
  <2>7. LinesLeft(p, 1)'
    <3>1. 1 - 1 = 0
      OBVIOUS
    <3> QED
      BY <2>5, <2>6, <3>1 DEF LinesLeft
  <2>8. 1 \in 1 .. Len(p.headers) + 1
    <3>1. p.headers \in Seq(Seq(Token) \X Seq(Token))
      BY DEF Round, WellFormed
    <3> QED
      BY <3>1
  <2> QED
    BY <2>7, <2>8, InLines
<1> QED
  BY <1>6, <1>7

HeaderLeft(p, i) ==
  LET colonAt == HeaderAt(p, i) + Len(p.headers[i][1])
  IN  /\ request_ = HeadersRead(p, i - 1) /\ start = HeaderAt(p, i) /\ ~thrown
      /\ \/ state_ = "HEADER_KEY" /\ end \in start + 1 .. colonAt
         \/ /\ state_ = "HEADER_VALUE"
            /\ colon = colonAt /\ end \in colon + 1 .. HeaderAt(p, i + 1) - 2

LEMMA InHeader ==
  ASSUME NEW p, NEW i \in DOMAIN p.headers, HeaderLeft(p, i)'
  PROVE  InRequest(p)'
BY DEF HeaderLeft, InRequest, InHeaders

(* What precedes a header is a line end. *)
LEMMA LineBefore ==
  ASSUME NEW p, Round(p), NEW i \in 1 .. Len(p.headers) + 1
  PROVE  /\ Len(p.headers) \in Nat
         /\ HeaderAt(p, i) \in Nat /\ 9 <= HeaderAt(p, i)
         /\ HeaderAt(p, i) <= EmptyAt(p)
         /\ EmptyAt(p) \in Nat /\ Len(buffer) \in Nat
         /\ EmptyAt(p) + 1 <= Len(buffer)
         /\ buffer[HeaderAt(p, i) - 1] = "LF"
<1>1. p.headers \in Seq(Seq(Token) \X Seq(Token)) /\ Len(p.headers) \in Nat
  <2>1. p.headers \in Seq(Seq(Token) \X Seq(Token))
    BY DEF Round, WellFormed
  <2> QED
    BY <2>1
<1>2. /\ HttpAt(p) \in Nat /\ EmptyAt(p) \in Nat /\ HttpAt(p) + 6 <= EmptyAt(p)
      /\ Len(buffer) = EmptyAt(p) + 1 + Len(p.body) /\ Len(p.body) \in Nat
      /\ 3 <= HttpAt(p) /\ Len(buffer) \in Nat
  BY RoundIs
<1>3. EmptyAt(p) + 1 <= Len(buffer)
  BY <1>2
<1>4. CASE i = 1
  <2>1. HeaderAt(p, 1) = HttpAt(p) + 6
    BY DEF Round, Stands, EndStands
  <2>2. buffer[HttpAt(p) + 5] = "LF"
    BY DEF Round, Stands, RequestLineStands
  <2>3. HttpAt(p) + 6 - 1 = HttpAt(p) + 5 /\ HttpAt(p) + 6 \in Nat /\ 9 <= HttpAt(p) + 6
    BY <1>2
  <2>4. buffer[HeaderAt(p, 1) - 1] = "LF"
    <3>1. HeaderAt(p, 1) - 1 = HttpAt(p) + 5
      BY <1>2, <2>1
    <3> QED
      BY <2>2, <3>1
  <2> QED
    BY <1>1, <1>2, <1>3, <1>4, <2>1, <2>3, <2>4
<1>5. CASE i # 1
  <2>1. PICK h \in 1 .. Len(p.headers) : h + 1 = i
    <3>1. i - 1 \in 1 .. Len(p.headers) /\ (i - 1) + 1 = i
      BY <1>1, <1>5
    <3> QED
      BY <3>1
  <2>2. HeaderStands(buffer, p, h)
    BY DEF Round, Stands
  <2>3. PICK at, x, y, next : /\ at = HeaderAt(p, h) /\ next = HeaderAt(p, h + 1)
                              /\ x = Len(p.headers[h][1])
                              /\ y = Len(p.headers[h][2])
    OBVIOUS
  <2>4. /\ at \in Nat /\ x \in Nat /\ y \in Nat /\ 9 <= at
        /\ next = at + x + y + 4 /\ next <= EmptyAt(p)
        /\ buffer[at + x + y + 3] = "LF"
    BY <2>2, <2>3, Zenon DEF HeaderStands, IsHeaderIn
  <2>5. next \in Nat /\ 9 <= next /\ next - 1 = at + x + y + 3
    BY <2>4
  <2>6. buffer[next - 1] = "LF"
    BY <2>4, <2>5
  <2> QED
    BY <1>1, <1>2, <1>3, <2>1, <2>3, <2>4, <2>5, <2>6
<1> QED
  BY <1>4, <1>5

LEMMA LineRound ==
  ASSUME NEW p, Round(p), NEW i \in 1 .. Len(p.headers) + 1, LinesLeft(p, i)
  PROVE  InRequest(p)'
<1>0. Lines
  BY RoundOf DEF Round, LinesLeft
<1>1. PICK at, empty, len, n :
        /\ at = HeaderAt(p, i) /\ empty = EmptyAt(p)
        /\ len = Len(buffer) /\ n = Len(p.headers)
  OBVIOUS
<1>2. /\ at \in Nat /\ empty \in Nat /\ len \in Nat /\ n \in Nat
      /\ 9 <= at /\ at <= empty /\ empty + 1 <= len
      /\ buffer[at - 1] = "LF"
  BY <1>1, LineBefore, Zenon
<1>3. \A j \in 1 .. len : end = j => Ch = buffer[j]
  BY <1>1, RoundIs
<1>4. end' = end + 1 /\ thrown = FALSE
  BY DEF Round, ParaseRequest, Reading
<1>5. /\ request_ = HeadersRead(p, i - 1)
      /\ \/ state_ = "WHEN_CR" /\ end = at - 1
         \/ state_ = "CR_LF" /\ start = at /\ end = at
  BY <1>1 DEF LinesLeft
<1>6. CASE state_ = "WHEN_CR"
  <2>1. end = at - 1 /\ at - 1 \in 1 .. len /\ (at - 1) + 1 = at
    BY <1>2, <1>5, <1>6
  <2>2. Ch = "LF"
    BY <1>2, <1>3, <2>1
  <2>3. /\ state_' = "CR_LF" /\ start' = end + 1 /\ request_' = request_
        /\ thrown' = FALSE
    BY <1>0, <1>4, <1>6, <2>2 DEF Lines, Cut
  <2>4. start' = at /\ end' = at
    BY <1>4, <2>1, <2>3
  <2>5. LinesLeft(p, i)'
    BY <1>1, <1>5, <2>3, <2>4 DEF LinesLeft
  <2> QED
    BY <2>5, InLines
<1>7. CASE state_ = "CR_LF" /\ i = n + 1
  <2>1. at = empty /\ HeadersRead(p, i - 1) = HeadersRead(p, Len(p.headers))
    <3>1. (n + 1) - 1 = n
      BY <1>2
    <3> QED
      BY <1>1, <1>7, <3>1 DEF EmptyAt
  <2>2. end = empty /\ empty \in 1 .. len
    BY <1>2, <1>5, <1>7, <2>1
  <2>3. buffer[empty] = "CR"
    BY <1>1 DEF Round, Stands, EndStands
  <2>4. Ch = "CR" /\ Ch \notin Blank
    BY <1>3, <2>2, <2>3 DEF Blank
  <2>5. /\ state_' = "CR_LF_CR" /\ request_' = request_ /\ thrown' = FALSE
    BY <1>0, <1>4, <1>7, <2>4 DEF Lines, Move
  <2>6. end' = EmptyAt(p) + 1
    BY <1>1, <1>4, <2>2
  <2>7. request_' = HeadersRead(p, Len(p.headers))
    BY <1>5, <2>1, <2>5
  <2> QED
    BY <2>5, <2>6, <2>7 DEF InRequest, InHeaders
<1>8. CASE state_ = "CR_LF" /\ i # n + 1
  <2>1. i \in 1 .. n
    BY <1>1, <1>2, <1>8
  <2>2. PICK k, x : k = p.headers[i][1] /\ x = Len(k)
    OBVIOUS
  <2>3. i \in DOMAIN p.headers
    <3>1. p.headers \in Seq(Seq(Token) \X Seq(Token))
      BY DEF Round, WellFormed
    <3> QED
      BY <1>1, <2>1, <3>1
  <2>4. IsWord(k, {":"})
    BY <2>2, <2>3 DEF Round, WellFormed
  <2>5. x \in Nat /\ 1 <= x
    BY <2>2, <2>4, WordLength
  <2>6. /\ at + x + 1 <= len
        /\ \A j \in 1 .. x : buffer[at + j - 1] = k[j]
    <3>1. HeaderStands(buffer, p, i)
      BY <1>1, <2>1 DEF Round, Stands
    <3>2. PICK y, next : y = Len(p.headers[i][2]) /\ next = HeaderAt(p, i + 1)
      OBVIOUS
    <3>3. /\ y \in Nat /\ next = at + x + y + 4 /\ next <= empty
          /\ \A j \in 1 .. x : buffer[at + j - 1] = k[j]
      BY <1>1, <2>2, <3>1, <3>2, Zenon DEF HeaderStands, IsHeaderIn
    <3>4. at + x + 1 <= len
      BY <1>2, <2>5, <3>3
    <3> QED
      BY <3>3, <3>4
  <2>7. end = at /\ at \in 1 .. len /\ 1 \in 1 .. x /\ at + 1 - 1 = at
    BY <1>2, <1>5, <1>8, <2>5
  <2>8. Ch = k[1]
    BY <1>3, <2>6, <2>7
  <2>9. Ch \notin Blank \cup LineEnd
    BY <2>2, <2>4, <2>7, <2>8, WordAt
  <2>10. Ch # "CR" /\ Ch \notin Blank
    BY <2>9 DEF LineEnd
  <2>11. /\ state_' = "HEADER_KEY" /\ start' = at /\ request_' = request_
         /\ thrown' = FALSE
    BY <1>0, <1>4, <1>5, <1>8, <2>10 DEF Lines, Move
  <2>12. end' \in at + 1 .. at + x
    BY <1>2, <1>4, <2>5, <2>7
  <2>13. HeaderLeft(p, i)'
    BY <1>1, <1>5, <2>2, <2>11, <2>12 DEF HeaderLeft
  <2> QED
    BY <2>3, <2>13, InHeader
<1> QED
  BY <1>5, <1>6, <1>7, <1>8

LEMMA HeaderRound ==
  ASSUME NEW p, Round(p), NEW i \in DOMAIN p.headers, HeaderLeft(p, i)
  PROVE  InRequest(p)'
<1>0. Header
  BY RoundOf DEF Round, HeaderLeft
<1>1. PICK k, v, n : /\ k = p.headers[i][1] /\ v = p.headers[i][2]
                     /\ n = Len(p.headers)
  OBVIOUS
<1>2. p.headers \in Seq(Seq(Token) \X Seq(Token))
  BY DEF Round, WellFormed
<1>3. n \in Nat /\ i \in 1 .. n
  BY <1>1, <1>2
<1>4. HeaderStands(buffer, p, i)
  BY <1>1, <1>3 DEF Round, Stands
<1>5. PICK at, x, y, next, len :
        /\ at = HeaderAt(p, i) /\ x = Len(k) /\ y = Len(v)
        /\ next = HeaderAt(p, i + 1) /\ len = Len(buffer)
  OBVIOUS
<1>6. /\ at \in Nat /\ x \in Nat /\ y \in Nat /\ 9 <= at
      /\ next = at + x + y + 4 /\ next <= EmptyAt(p)
      /\ IsHeaderIn(buffer, at, k, v)
  BY <1>1, <1>4, <1>5, Zenon DEF HeaderStands
<1>7. /\ \A j \in 1 .. x : buffer[at + j - 1] = k[j]
      /\ buffer[at + x] = ":" /\ buffer[at + x + 1] = " "
      /\ \A j \in 1 .. y : buffer[at + x + 1 + j] = v[j]
      /\ buffer[at + x + y + 2] = "CR"
  BY <1>5, <1>6, Zenon DEF IsHeaderIn
<1>8. IsWord(k, {":"}) /\ Without(v, LineEnd) /\ v \in Seq(Token)
  <2>1. p.headers[i] \in Seq(Token) \X Seq(Token)
    BY <1>1, <1>2, <1>3
  <2> QED
    BY <1>1, <2>1 DEF Round, WellFormed
<1>9. 1 <= x /\ k \in Seq(Token)
  BY <1>5, <1>8, WordLength
<1>10. len \in Nat /\ next + 1 <= len
  <2>1. /\ EmptyAt(p) \in Nat /\ Len(buffer) \in Nat
        /\ Len(buffer) = EmptyAt(p) + 1 + Len(p.body) /\ Len(p.body) \in Nat
    BY RoundIs
  <2>2. PICK empty \in Nat, z \in Nat : empty = EmptyAt(p) /\ z = Len(p.body)
    BY <2>1
  <2>3. len = empty + 1 + z
    BY <1>5, <2>1, <2>2, Zenon
  <2>4. /\ at \in Nat /\ x \in Nat /\ y \in Nat
        /\ next = at + x + y + 4 /\ next <= empty
    BY <1>6, <2>2, Zenon
  <2> QED
    BY <2>3, <2>4
<1>num. /\ at \in Nat /\ x \in Nat /\ y \in Nat /\ len \in Nat /\ 9 <= at
        /\ 1 <= x /\ next = at + x + y + 4 /\ next + 1 <= len
  BY <1>6, <1>9, <1>10, Zenon
<1>11. \A j \in 1 .. len : end = j => Ch = buffer[j]
  BY <1>5, RoundIs
<1>12. end' = end + 1 /\ thrown = FALSE
  BY DEF Round, ParaseRequest, Reading
<1>13. /\ request_ = HeadersRead(p, i - 1) /\ start = at
       /\ \/ state_ = "HEADER_KEY" /\ end \in at + 1 .. at + x
          \/ /\ state_ = "HEADER_VALUE" /\ colon = at + x
             /\ end \in at + x + 1 .. next - 2
  BY <1>1, <1>5 DEF HeaderLeft
<1>in. ASSUME request_' = HeadersRead(p, i - 1), start' = at, ~thrown',
              \/ state_' = "HEADER_KEY" /\ end' \in at + 1 .. at + x
              \/ /\ state_' = "HEADER_VALUE" /\ colon' = at + x
                 /\ end' \in at + x + 1 .. next - 2
       PROVE  InRequest(p)'
  <2>1. HeaderLeft(p, i)'
    BY <1>1, <1>5, <1>in DEF HeaderLeft
  <2> QED
    BY <2>1, InHeader
<1>14. CASE state_ = "HEADER_KEY"
  <2>1. end \in at + 1 .. at + x
    BY <1>13, <1>14
  <2>2. CASE end = at + x
    <3>1. /\ end \in 1 .. len /\ at + x + 1 \in at + x + 1 .. next - 2
      BY <1>num, <2>2
    <3>2. Ch = ":"
      BY <1>7, <1>11, <2>2, <3>1
    <3>3. /\ state_' = "HEADER_VALUE" /\ start' = at /\ colon' = end
          /\ thrown' = FALSE /\ request_' = request_
      BY <1>0, <1>12, <1>13, <1>14, <3>2 DEF Header
    <3> QED
      BY <1>in, <1>12, <1>13, <2>2, <3>1, <3>3
  <2>3. CASE end # at + x
    <3>1. /\ end \in 1 .. len /\ end - at + 1 \in 1 .. x
          /\ at + (end - at + 1) - 1 = end
          /\ end + 1 \in at + 1 .. at + x
      BY <1>num, <2>1, <2>3
    <3>2. Ch = k[end - at + 1]
      <4>1. buffer[at + (end - at + 1) - 1] = k[end - at + 1]
        BY <1>7, <3>1, Zenon
      <4> QED
        BY <1>11, <3>1, <4>1
    <3>3. Ch # ":"
      <4>1. Ch \notin {":"} \cup Blank \cup LineEnd
        BY <1>5, <1>8, <3>1, <3>2, WordAt
      <4> QED
        BY <4>1
    <3>4. /\ state_' = "HEADER_KEY" /\ start' = at
          /\ thrown' = FALSE /\ request_' = request_
      BY <1>0, <1>12, <1>13, <1>14, <3>3 DEF Header, Move
    <3> QED
      BY <1>in, <1>12, <1>13, <3>1, <3>4
  <2> QED
    BY <2>2, <2>3
<1>15. CASE state_ = "HEADER_VALUE"
  <2>1. colon = at + x /\ end \in at + x + 1 .. next - 2
    BY <1>13, <1>15
  <2>2. CASE end # next - 2
    <3>1. end \in 1 .. len /\ end + 1 \in at + x + 1 .. next - 2
      BY <1>num, <2>1, <2>2
    <3>2. Ch # "CR"
      <4>1. CASE end = at + x + 1
        BY <1>7, <1>11, <3>1, <4>1
      <4>2. CASE end # at + x + 1
        <5>1. /\ end - (at + x + 1) \in 1 .. y
              /\ at + x + 1 + (end - (at + x + 1)) = end
          BY <1>num, <2>1, <2>2, <4>2
        <5>2. buffer[at + x + 1 + (end - (at + x + 1))] = v[end - (at + x + 1)]
          BY <1>7, <5>1, Zenon
        <5>3. Ch = v[end - (at + x + 1)]
          BY <1>11, <3>1, <5>1, <5>2
        <5>4. end - (at + x + 1) \in DOMAIN v
          BY <1>5, <1>8, <5>1
        <5> QED
          BY <1>8, <5>3, <5>4 DEF Without, LineEnd
      <4> QED
        BY <4>1, <4>2
    <3>3. /\ state_' = "HEADER_VALUE" /\ start' = at /\ colon' = colon
          /\ thrown' = FALSE /\ request_' = request_
      BY <1>0, <1>12, <1>13, <1>15, <3>2 DEF Header, Move
    <3> QED
      BY <1>in, <1>12, <1>13, <2>1, <3>1, <3>3
  <2>3. CASE end = next - 2
    <3>1. end \in 1 .. len /\ end = at + x + y + 2 /\ end + 1 = next - 1
      BY <1>num, <2>3
    <3>2. Ch = "CR"
      BY <1>7, <1>11, <3>1
    <3>3. Str(start, colon) = k
      <4>1. /\ at \in Nat \ {0} /\ at + x <= len + 1
        BY <1>num
      <4>2. Str(at, at + x) = k
        BY <1>5, <1>7, <1>9, <4>1, StrIs DEF Round
      <4> QED
        BY <1>13, <2>1, <4>2
    <3>4. Str(colon + 2, end) = v
      <4>1. /\ at + x + 2 \in Nat \ {0} /\ at + x + 2 + y <= len + 1
            /\ at + x + y + 2 = at + x + 2 + y
            /\ \A j \in 1 .. y : at + x + 2 + j - 1 = at + x + 1 + j
        BY <1>num
      <4>2. \A j \in 1 .. y : buffer[at + x + 2 + j - 1] = v[j]
        BY <1>7, <4>1
      <4>3. Str(at + x + 2, at + x + 2 + y) = v
        BY <1>5, <1>8, <4>1, <4>2, StrIs DEF Round
      <4> QED
        BY <2>1, <3>1, <4>1, <4>3
    <3>5. start <= colon /\ colon + 2 <= end
      BY <1>num, <1>13, <2>1, <3>1
    <3>6. [request_ EXCEPT !["headers"] = Put(@, Str(start, colon), Str(colon + 2, end))]
            = HeadersRead(p, i)
      <4>1. request_ = Fields(p.method, p.url, MapOf(p.params, Len(p.params)),
                              <<"HTTP">>, SentVersion(p), MapOf(p.headers, i - 1), <<>>)
        BY <1>13, FieldsOf
      <4>2. request_.headers = MapOf(p.headers, i - 1)
        BY <4>1 DEF Fields
      <4>3. Put(request_.headers, k, v) = MapOf(p.headers, i)
        BY <1>1, <1>3, <4>2, MapStep
      <4>4. HeadersRead(p, i)
              = Fields(p.method, p.url, MapOf(p.params, Len(p.params)),
                       <<"HTTP">>, SentVersion(p), MapOf(p.headers, i), <<>>)
        BY FieldsOf
      <4>5. [request_ EXCEPT !["headers"] = MapOf(p.headers, i)] = HeadersRead(p, i)
        BY <4>1, <4>4 DEF Fields
      <4> QED
        BY <3>3, <3>4, <4>3, <4>5
    <3>7. CutPair("WHEN_CR", "headers", 2)
      BY <1>0, <1>15, <3>2 DEF Header
    <3>8. /\ state_' = "WHEN_CR" /\ thrown' = FALSE /\ request_' = HeadersRead(p, i)
      BY <1>12, <3>5, <3>6, <3>7 DEF CutPair, Cut
    <3>9. i + 1 \in 1 .. Len(p.headers) + 1 /\ (i + 1) - 1 = i
      BY <1>1, <1>3
    <3>10. end' = HeaderAt(p, i + 1) - 1
      BY <1>5, <1>12, <3>1
    <3>11. LinesLeft(p, i + 1)'
      BY <3>8, <3>9, <3>10 DEF LinesLeft
    <3> QED
      BY <3>9, <3>11, InLines
  <2> QED
    BY <2>2, <2>3
<1> QED
  BY <1>13, <1>14, <1>15

(* The empty line, and the body. *)
LEMMA EmptyRound ==
  ASSUME NEW p, Round(p), request_ = HeadersRead(p, Len(p.headers)),
         state_ = "CR_LF_CR", end = EmptyAt(p) + 1
  PROVE  InRequest(p)'
<1>0. Lines
  BY RoundOf DEF Round
<1>1. PICK empty, len : empty = EmptyAt(p) /\ len = Len(buffer)
  OBVIOUS
<1>2. empty \in Nat /\ len \in Nat /\ empty + 1 <= len
  <2>1. /\ EmptyAt(p) \in Nat /\ Len(buffer) \in Nat
        /\ Len(buffer) = EmptyAt(p) + 1 + Len(p.body) /\ Len(p.body) \in Nat
    BY RoundIs
  <2> QED
    BY <1>1, <2>1
<1>3. end' = end + 1 /\ thrown = FALSE
  BY DEF Round, ParaseRequest, Reading
<1>4. end = empty + 1 /\ empty + 1 \in 1 .. len /\ end + 1 = empty + 2
  BY <1>1, <1>2
<1>5. Ch = "LF"
  <2>1. buffer[empty + 1] = "LF"
    BY <1>1 DEF Round, Stands, EndStands
  <2>2. \A j \in 1 .. len : end = j => Ch = buffer[j]
    BY <1>1, RoundIs
  <2> QED
    BY <1>4, <2>1, <2>2
<1>6. Cut(IF HasLength THEN IF LengthIsZero THEN "COMPLETE" ELSE "BODY"
            ELSE IF end - 1 < Len(buffer) THEN "BODY" ELSE "COMPLETE", request_)
  BY <1>0, <1>5 DEF Lines
<1>7. end - 1 < Len(buffer)
  BY <1>1, <1>2, <1>4
<1>8. HasLength /\ LengthIsZero <=> ZeroLength(p)
  <2>1. request_ = Fields(p.method, p.url, MapOf(p.params, Len(p.params)),
                          <<"HTTP">>, SentVersion(p),
                          MapOf(p.headers, Len(p.headers)), <<>>)
    BY FieldsOf
  <2>2. request_.headers = MapOf(p.headers, Len(p.headers))
    BY <2>1 DEF Fields
  <2> QED
    BY <2>2, LengthOf DEF Round
<1>9. CASE ZeroLength(p)
  <2>1. state_' = "COMPLETE" /\ request_' = request_
    BY <1>6, <1>8, <1>9 DEF Cut
  <2>2. request_ = RequestOf(p)
    BY <1>9, FieldsOf, RequestOfIs
  <2> QED
    BY <2>1, <2>2 DEF InRequest
<1>10. CASE ~ZeroLength(p)
  <2>1. /\ state_' = "BODY" /\ request_' = request_ /\ thrown' = FALSE
        /\ start' = end + 1
    BY <1>3, <1>6, <1>7, <1>8, <1>10 DEF Cut
  <2>2. start' = EmptyAt(p) + 2 /\ end' = start'
    BY <1>1, <1>3, <1>4, <2>1
  <2>3. RequestOf(p).body = p.body
    BY <1>10, RequestOfIs DEF Fields
  <2> QED
    BY <2>1, <2>2, <2>3 DEF InRequest, InHeaders
<1> QED
  BY <1>9, <1>10

LEMMA BodyRound ==
  ASSUME NEW p, Round(p), request_ = HeadersRead(p, Len(p.headers)),
         state_ = "BODY", start = EmptyAt(p) + 2, end = start,
         RequestOf(p).body = p.body
  PROVE  InRequest(p)'
<1>0. Body
  BY RoundOf DEF Round
<1>1. PICK empty, len, y :
        empty = EmptyAt(p) /\ len = Len(buffer) /\ y = Len(p.body)
  OBVIOUS
<1>2. empty \in Nat /\ y \in Nat /\ len = empty + 1 + y
  <2>1. /\ EmptyAt(p) \in Nat
        /\ Len(buffer) = EmptyAt(p) + 1 + Len(p.body) /\ Len(p.body) \in Nat
    BY RoundIs
  <2> QED
    BY <1>1, <2>1
<1>3. \A j \in 1 .. y : buffer[empty + 1 + j] = p.body[j]
  BY <1>1 DEF Round, Stands, EndStands
<1>4. /\ start = empty + 2 /\ empty + 2 \in Nat \ {0} /\ empty + 2 + y <= len + 1
      /\ start + (len - (end - 1)) = empty + 2 + y
      /\ \A j \in 1 .. y : empty + 2 + j - 1 = empty + 1 + j
  <2>1. start = empty + 2 /\ end = empty + 2
    BY <1>1
  <2>2. /\ empty + 2 \in Nat \ {0} /\ empty + 2 + y <= len + 1
        /\ (empty + 2) + (len - ((empty + 2) - 1)) = empty + 2 + y
        /\ \A j \in 1 .. y : empty + 2 + j - 1 = empty + 1 + j
    BY <1>2
  <2> QED
    BY <2>1, <2>2, Zenon
<1>5. Str(empty + 2, empty + 2 + y) = p.body
  <2>1. p.body \in Seq(Token)
    BY DEF Round, WellFormed
  <2>2. \A j \in 1 .. y : buffer[empty + 2 + j - 1] = p.body[j]
    BY <1>3, <1>4
  <2> QED
    BY <1>1, <1>4, <2>1, <2>2, StrIs DEF Round
<1>6. Str(start, start + (Len(buffer) - (end - 1))) = p.body
  BY <1>1, <1>4, <1>5
<1>7. state_' = "COMPLETE" /\ request_' = [request_ EXCEPT !.body = p.body]
  BY <1>0, <1>6 DEF Body
<1>8. request_' = RequestOf(p)
  <2>1. request_ = Fields(p.method, p.url, MapOf(p.params, Len(p.params)),
                          <<"HTTP">>, SentVersion(p),
                          MapOf(p.headers, Len(p.headers)), <<>>)
    BY FieldsOf
  <2>2. RequestOf(p) = Fields(p.method, p.url, MapOf(p.params, Len(p.params)),
                              <<"HTTP">>, SentVersion(p),
                              MapOf(p.headers, Len(p.headers)),
                              RequestOf(p).body)
    <3>1. PICK b : b = IF ZeroLength(p) THEN <<>> ELSE p.body
      OBVIOUS
    <3>2. RequestOf(p) = Fields(p.method, p.url, MapOf(p.params, Len(p.params)),
                                <<"HTTP">>, SentVersion(p),
                                MapOf(p.headers, Len(p.headers)), b)
      BY <3>1, RequestOfIs
    <3> QED
      BY <3>2 DEF Fields
  <2> QED
    BY <1>7, <2>1, <2>2 DEF Fields
<1> QED
  BY <1>7, <1>8 DEF InRequest

(* The round of a whole request in the first read. *)
LEMMA SaidIs ==
  ASSUME ParserInv, ~second, NEW p \in Said(input[1])
  PROVE  /\ WellFormed(p) /\ buffer \in Seq(Token) /\ buffer = input[1]
         /\ Stands(buffer, p)
<1>1. p \in Parts /\ RequestText(p) = input[1]
  BY DEF Said, TextOf
<1>2. buffer = input[1] /\ buffer \in Seq(Token)
  BY DEF ParserInv, BufferIsRead
<1>3. WellFormed(p)
  BY <1>1, PartsAssumption
<1> QED
  BY <1>1, <1>2, <1>3, Layout

LEMMA RequestRound ==
  ASSUME ParserInv, ~second, NEW p \in Said(input[1]), ParaseRequest, InRequest(p)
  PROVE  InRequest(p)'
<1>1. Round(p)
  BY SaidIs DEF Round, ParaseRequest, Reading
<1>2. InRequestLine(p) \/ InHeaders(p)
  BY DEF InRequest, ParaseRequest, Reading
<1>t. ~thrown
  BY <1>1 DEF Round
<1>3. CASE InRequestLine(p)
  <2>1. ASSUME NEW i \in DOMAIN p.params, ParamsLeft(p, i) PROVE InRequest(p)'
    BY <1>1, <2>1, ParamRound
  <2>2. \/ state_ = "START" /\ start = 1 /\ end = 1 /\ request_ = Empty
        \/ state_ = "METHOD" /\ start = 1 /\ end = 2 /\ request_ = Empty
        \/ /\ request_ = MethodRead(p) /\ start = 3
           /\ \/ state_ = "BEFORE_URL" /\ end = 3
              \/ state_ = "IN_URL" /\ end \in 4 .. ParamAt(p, 1)
        \/ \E i \in DOMAIN p.params : ParamsLeft(p, i)
        \/ /\ request_ = ParamsRead(p, Len(p.params)) /\ start = HttpAt(p) + 1
           /\ \/ state_ = "BEFORE_PROTOCOL" /\ end = start
              \/ state_ = "PROTOCOL" /\ end = start + 1
        \/ /\ request_ = ProtocolRead(p) /\ start = HttpAt(p) + 3
           /\ \/ state_ = "BEFORE_VERSION" /\ end = start
              \/ state_ = "VERSION" /\ end = start + 1
    BY <1>3, <1>t, Zenon DEF InRequestLine, ParamsLeft
  <2> QED
    BY <1>1, <2>1, <2>2, StartRound, MethodRound, UrlRound, ProtocolRound,
       VersionRound, Zenon
<1>4. CASE InHeaders(p)
  <2>1. ASSUME NEW i \in 1 .. Len(p.headers) + 1, LinesLeft(p, i)
        PROVE  InRequest(p)'
    BY <1>1, <2>1, LineRound
  <2>2. ASSUME NEW i \in DOMAIN p.headers, HeaderLeft(p, i) PROVE InRequest(p)'
    BY <1>1, <2>2, HeaderRound
  <2>3. \/ \E i \in 1 .. Len(p.headers) + 1 : LinesLeft(p, i)
        \/ \E i \in DOMAIN p.headers : HeaderLeft(p, i)
        \/ /\ request_ = HeadersRead(p, Len(p.headers))
           /\ \/ state_ = "CR_LF_CR" /\ end = EmptyAt(p) + 1
              \/ /\ state_ = "BODY" /\ start = EmptyAt(p) + 2 /\ end = start
                 /\ RequestOf(p).body = p.body
    BY <1>4, <1>t, Zenon DEF InHeaders, LinesLeft, HeaderLeft
  <2> QED
    BY <1>1, <2>1, <2>2, <2>3, EmptyRound, BodyRound, Zenon
<1> QED
  BY <1>2, <1>3, <1>4

(* On its way the parser does not stop. *)
LEMMA PlaceInText ==
  ASSUME NEW p, WellFormed(p), NEW t, Stands(t, p), InRequestLine(p) \/ InHeaders(p)
  PROVE  end <= Len(t) + 1
<1>1. PICK http, empty, len, y, first :
        /\ http = HttpAt(p) /\ empty = EmptyAt(p) /\ len = Len(t)
        /\ y = Len(p.body) /\ first = ParamAt(p, 1)
  OBVIOUS
<1>2. /\ http \in Nat /\ first <= http /\ empty \in Nat /\ y \in Nat
      /\ len = empty + 1 + y /\ HeaderAt(p, 1) = http + 6 /\ HeaderAt(p, 1) <= empty
      /\ \E n \in Nat : first = 3 + n
  BY <1>1 DEF Stands, RequestLineStands, EndStands
<1>3. 3 <= http /\ http + 6 <= empty /\ empty + 1 <= len /\ len \in Nat
  BY <1>2
<1>4. Len(p.headers) \in Nat /\ DOMAIN p.headers = 1 .. Len(p.headers)
  <2>1. p.headers \in Seq(Seq(Token) \X Seq(Token))
    BY DEF WellFormed
  <2> QED
    BY <2>1
<1>5. DOMAIN p.params = 1 .. Len(p.params)
  <2>1. p.params \in Seq(Seq(Token) \X Seq(Token))
    BY DEF WellFormed
  <2> QED
    BY <2>1
<1>6. ASSUME NEW i \in DOMAIN p.params
      PROVE  LET equals == ParamAt(p, i) + Len(p.params[i][1]) + 1
             IN  /\ ParamAt(p, i) \in Nat /\ ParamAt(p, i) + 2 <= http
                 /\ equals \in Nat /\ equals + 1 <= http
                 /\ ParamAt(p, i + 1) \in Nat /\ ParamAt(p, i + 1) <= http
  <2>1. PICK at, x, z, next : /\ at = ParamAt(p, i) /\ next = ParamAt(p, i + 1)
                              /\ x = Len(p.params[i][1]) /\ z = Len(p.params[i][2])
    OBVIOUS
  <2>2. /\ at \in Nat /\ x \in Nat /\ z \in Nat
        /\ next = at + x + z + 2 /\ next <= http
    BY <1>1, <1>5, <2>1 DEF Stands, ParamStands
  <2>3. /\ at + 2 <= http /\ at + x + 1 \in Nat /\ at + x + 1 + 1 <= http
        /\ next \in Nat
    BY <1>2, <2>2
  <2> QED
    BY <2>1, <2>2, <2>3, Zenon
<1>7. ASSUME NEW i \in DOMAIN p.headers
      PROVE  LET colonAt == HeaderAt(p, i) + Len(p.headers[i][1])
             IN  /\ HeaderAt(p, i) \in Nat /\ HeaderAt(p, i) <= empty
                 /\ colonAt \in Nat /\ colonAt <= empty
                 /\ HeaderAt(p, i + 1) \in Nat /\ HeaderAt(p, i + 1) <= empty
  <2>1. PICK at, x, z, next : /\ at = HeaderAt(p, i) /\ next = HeaderAt(p, i + 1)
                              /\ x = Len(p.headers[i][1]) /\ z = Len(p.headers[i][2])
    OBVIOUS
  <2>2. /\ at \in Nat /\ x \in Nat /\ z \in Nat
        /\ next = at + x + z + 4 /\ next <= empty
    BY <1>1, <1>4, <2>1 DEF Stands, HeaderStands
  <2>3. at <= empty /\ at + x \in Nat /\ at + x <= empty /\ next \in Nat
    BY <1>2, <2>2
  <2> QED
    BY <2>1, <2>2, <2>3, Zenon
<1>8. ASSUME NEW i \in 1 .. Len(p.headers) + 1
      PROVE  HeaderAt(p, i) \in Nat /\ HeaderAt(p, i) <= empty
  <2>1. CASE i = 1
    BY <1>2, <2>1
  <2>2. CASE i # 1
    <3>1. i - 1 \in DOMAIN p.headers /\ (i - 1) + 1 = i
      BY <1>4, <2>2
    <3> QED
      BY <1>7, <3>1
  <2> QED
    BY <2>1, <2>2
<1>9. CASE InRequestLine(p)
  <2>1. ASSUME NEW i \in DOMAIN p.params,
               LET equals == ParamAt(p, i) + Len(p.params[i][1]) + 1
               IN  /\ start = ParamAt(p, i) + 1
                   /\ \/ end = start
                      \/ end \in start + 1 .. equals
                      \/ colon = equals /\ end = colon + 1
                      \/ colon = equals /\ end \in colon + 2 .. ParamAt(p, i + 1)
        PROVE  end <= len + 1
    <3>1. PICK at, equals, next : /\ at = ParamAt(p, i) /\ next = ParamAt(p, i + 1)
                                  /\ equals = at + Len(p.params[i][1]) + 1
      OBVIOUS
    <3>2. /\ at \in Nat /\ at + 2 <= http /\ equals \in Nat /\ equals + 1 <= http
          /\ next \in Nat /\ next <= http
      BY <1>6, <3>1, Zenon
    <3>3. \/ end = at + 1
          \/ end \in at + 1 + 1 .. equals
          \/ end = equals + 1
          \/ end \in equals + 2 .. next
      BY <2>1, <3>1, Zenon
    <3> QED
      BY <1>2, <1>3, <3>2, <3>3
  <2>2. \/ end \in {1, 2, 3, http + 1, http + 1 + 1, http + 3, http + 3 + 1}
        \/ end \in 4 .. first
        \/ end <= len + 1
    BY <1>1, <1>9, <2>1, Zenon DEF InRequestLine
  <2>3. end <= len + 1
    BY <1>2, <1>3, <2>2
  <2> QED
    BY <1>1, <2>3
<1>10. CASE InHeaders(p)
  <2>1. ASSUME NEW i \in 1 .. Len(p.headers) + 1,
               end = HeaderAt(p, i) - 1 \/ (start = HeaderAt(p, i) /\ end = start)
        PROVE  end <= len + 1
    BY <1>2, <1>3, <1>8, <2>1
  <2>2. ASSUME NEW i \in DOMAIN p.headers,
               LET colonAt == HeaderAt(p, i) + Len(p.headers[i][1])
               IN  /\ start = HeaderAt(p, i)
                   /\ \/ end \in start + 1 .. colonAt
                      \/ /\ colon = colonAt
                         /\ end \in colon + 1 .. HeaderAt(p, i + 1) - 2
        PROVE  end <= len + 1
    <3>1. PICK at, colonAt, next :
            /\ at = HeaderAt(p, i) /\ next = HeaderAt(p, i + 1)
            /\ colonAt = at + Len(p.headers[i][1])
      OBVIOUS
    <3>2. /\ at \in Nat /\ at <= empty /\ colonAt \in Nat /\ colonAt <= empty
          /\ next \in Nat /\ next <= empty
      BY <1>7, <3>1, Zenon
    <3>3. end \in at + 1 .. colonAt \/ end \in colonAt + 1 .. next - 2
      BY <2>2, <3>1, Zenon
    <3> QED
      BY <1>2, <1>3, <3>2, <3>3
  <2>3. end \in {empty + 1, empty + 2} \/ end <= len + 1
    BY <1>1, <1>10, <2>1, <2>2, Zenon DEF InHeaders
  <2>4. end <= len + 1
    BY <1>2, <1>3, <2>3
  <2> QED
    BY <1>1, <2>4
<1> QED
  BY <1>9, <1>10

(* When it stops, it has it. *)
LEMMA WholeRead ==
  ASSUME ParserInv, ~second, ~Reading, NEW p \in Said(input[1]), InRequest(p)
  PROVE  state_ = "COMPLETE" /\ request_ = RequestOf(p)
<1>1. CASE ~thrown /\ (InRequestLine(p) \/ InHeaders(p))
  <2>1. end <= Len(buffer) + 1
    BY <1>1, SaidIs, PlaceInText
  <2>2. end \in Nat /\ Len(buffer) \in Nat
    BY SaidIs DEF ParserInv, TypeOK
  <2>3. end - 1 <= Len(buffer)
    BY <2>1, <2>2
  <2>4. state_ \notin {"kINVALID", "COMPLETE"}
    BY <1>1 DEF InRequestLine, InHeaders
  <2> QED
    BY <1>1, <2>3, <2>4 DEF Reading
<1> QED
  BY <1>1 DEF InRequest

-----------------------------------------------------------------------------
(* Positions in a body. *)

LEMMA WidthIsNat == \A token : Width(token) \in Nat /\ Width(token) >= 1
BY DEF Width

(* Positions start at 0 and go on by the token's width. *)
LEMMA PositionStep ==
  ASSUME NEW body
  PROVE  /\ Position(body, 0) = 0
         /\ \A n \in Nat :
              /\ Position(body, n) \in Nat
              /\ Position(body, n + 1) = Position(body, n) + Width(body[n + 1])
<1> DEFINE G == [i \in Nat |-> [x \in Nat |-> x + Width(body[i])]]
<1> DEFINE length == CHOOSE length : length =
      [i \in Nat |-> IF i = 0 THEN 0 ELSE length[i - 1] + Width(body[i])]
<1>1. G \in [Nat -> [Nat -> Nat]]
  BY WidthIsNat
<1>2. PICK f \in [Nat -> Nat] : Follows(f, 0, G)
  <2> HIDE DEF G
  <2> QED
    BY <1>1, RecursionExists
<1>3. f = [i \in Nat |-> IF i = 0 THEN 0 ELSE f[i - 1] + Width(body[i])]
  <2>1. f[0] = 0
    BY <1>2 DEF Follows
  <2>2. ASSUME NEW i \in Nat \ {0} PROVE f[i] = f[i - 1] + Width(body[i])
    <3>1. f[i] = G[i][f[i - 1]] /\ f[i - 1] \in Nat
      BY <1>2 DEF Follows
    <3> QED
      BY <3>1
  <2> QED
    BY <2>1, <2>2
<1>4. length = [i \in Nat |-> IF i = 0 THEN 0 ELSE length[i - 1] + Width(body[i])]
  BY <1>3, Zenon
<1>5. \A n : Position(body, n) = length[n]
  BY Zenon DEF Position
<1> HIDE DEF length
<1>6. \A n \in Nat : length[n] \in Nat
  <2> DEFINE T == {n \in Nat : length[n] \notin Nat}
  <2> SUFFICES ASSUME T # {} PROVE FALSE
    OBVIOUS
  <2>1. PICK m \in T : \A k \in T : m <= k
    BY LeastNat
  <2>2. m # 0
    BY <1>4
  <2>3. length[m - 1] \in Nat
    BY <2>1, <2>2
  <2> QED
    BY <1>4, <2>2, <2>3, WidthIsNat
<1>7. length[0] = 0
  BY <1>4
<1>8. \A n \in Nat : length[n + 1] = length[n] + Width(body[n + 1])
  BY <1>4
<1> QED
  BY <1>5, <1>6, <1>7, <1>8

(* They grow. *)
LEMMA PositionGrows ==
  ASSUME NEW body, NEW m \in Nat, NEW n \in Nat, m <= n
  PROVE  Position(body, m) <= Position(body, n)
<1> DEFINE T == {i \in Nat : m <= i /\ ~(Position(body, m) <= Position(body, i))}
<1> SUFFICES ASSUME T # {} PROVE FALSE
  OBVIOUS
<1>1. PICK i \in T : \A k \in T : i <= k
  BY LeastNat
<1>2. Position(body, m) \in Nat
  BY PositionStep
<1>3. i # m
  BY <1>2
<1>4. i - 1 \in Nat /\ m <= i - 1 /\ (i - 1) + 1 = i
  BY <1>3
<1>5. i - 1 \notin T
  BY <1>1
<1>6. Position(body, m) <= Position(body, i - 1)
  BY <1>4, <1>5
<1>7. /\ Position(body, i - 1) \in Nat
      /\ Position(body, i) = Position(body, i - 1) + Width(body[i])
  BY <1>4, PositionStep
<1> QED
  BY <1>2, <1>6, <1>7, WidthIsNat

(* So no two are the same. *)
LEMMA PositionApart ==
  ASSUME NEW body, NEW m \in Nat, NEW n \in Nat,
         Position(body, m) = Position(body, n)
  PROVE  m = n
<1>1. ASSUME NEW a \in Nat, NEW b \in Nat, a < b
      PROVE  Position(body, a) < Position(body, b)
  <2>1. a + 1 \in Nat /\ a + 1 <= b
    BY <1>1
  <2>2. Position(body, a + 1) <= Position(body, b)
    BY <2>1, PositionGrows
  <2>3. /\ Position(body, a) \in Nat /\ Position(body, b) \in Nat
        /\ Position(body, a + 1) = Position(body, a) + Width(body[a + 1])
    BY PositionStep
  <2>4. Width(body[a + 1]) \in Nat /\ Width(body[a + 1]) >= 1
    BY WidthIsNat
  <2> QED
    BY <2>2, <2>3, <2>4
<1>2. Position(body, m) \in Nat
  BY PositionStep
<1>3. ~ (m < n) /\ ~ (n < m)
  BY <1>1, <1>2
<1> QED
  BY <1>3

LEMMA SubSeqOfOne ==
  ASSUME NEW S, NEW s \in Seq(S), NEW i \in 1 .. Len(s)
  PROVE  SubSeq(s, i, i) = <<s[i]>>
<1> DEFINE p == SubSeq(s, i, i)
<1> DEFINE q == <<s[i]>>
<1>1. /\ p \in Seq(S) /\ Len(p) = 1
      /\ \A j \in 1 .. 1 : p[j] = s[i + j - 1]
  <2>1. i \in Int /\ i <= i /\ i - i + 1 = 1
    OBVIOUS
  <2>2. \A j \in i .. i : s[j] \in S
    OBVIOUS
  <2>3. p \in Seq(S) /\ Len(p) = 1
    BY <2>1, <2>2, SubSeqProperties
  <2>4. \A j \in 1 .. 1 : p[j] = s[i + j - 1]
    BY <2>1, <2>2, SubSeqProperties
  <2> QED
    BY <2>3, <2>4
<1>2. p[1] = s[i]
  BY <1>1
<1>3. q \in Seq(S) /\ Len(q) = 1 /\ q[1] = s[i]
  OBVIOUS
<1> HIDE DEF p, q
<1>4. \A j \in 1 .. Len(p) : p[j] = q[j]
  BY <1>1, <1>2, <1>3
<1>5. p = q
  BY <1>1, <1>3, <1>4, SeqEqual
<1> QED
  BY <1>5 DEF p, q

(* What is behind the first n tokens, up to the next "&". *)
UpToAnd(body, n, user) ==
  LET rest == SubSeq(body, n + 1, Len(body))
      ends == {i \in DOMAIN rest : rest[i] = "&"}
  IN  IF ends = {}
        THEN rest = user
        ELSE SubSeq(rest, 1, (CHOOSE i \in ends : \A j \in ends : i <= j) - 1)
               = user

UserStands(body, n, user) ==
  /\ n + Len(user) <= Len(body)
  /\ SubSeq(body, n + 1, n + Len(user)) = user
  /\ n + Len(user) = Len(body) \/ body[n + Len(user) + 1] = "&"

LEMMA UserThere ==
  ASSUME NEW body \in Seq(Token), NEW n \in 0 .. Len(body)
  PROVE  UpToAnd(body, n, <<"wlgls">>) <=> UserStands(body, n, <<"wlgls">>)
<1> DEFINE rest == SubSeq(body, n + 1, Len(body))
<1> DEFINE ends == {i \in DOMAIN rest : rest[i] = "&"}
<1> DEFINE user == <<"wlgls">>
<1>1. PICK len \in Nat : len = Len(body)
  OBVIOUS
<1>2. /\ rest \in Seq(Token) /\ Len(rest) = len - n
      /\ \A j \in 1 .. len - n : rest[j] = body[n + j]
  <2>1. n + 1 \in Int /\ len \in Int
    BY <1>1
  <2>2. \A j \in n + 1 .. len : body[j] \in Token
    BY <1>1
  <2>3. /\ rest \in Seq(Token)
        /\ Len(rest) = IF n + 1 <= len THEN len - (n + 1) + 1 ELSE 0
        /\ \A j \in 1 .. len - (n + 1) + 1 : rest[j] = body[n + 1 + j - 1]
    BY <1>1, <2>1, <2>2, SubSeqProperties
  <2>4. /\ (IF n + 1 <= len THEN len - (n + 1) + 1 ELSE 0) = len - n
        /\ len - (n + 1) + 1 = len - n
        /\ \A j \in 1 .. len - n : n + 1 + j - 1 = n + j
    BY <1>1
  <2> QED
    BY <2>3, <2>4
<1>3. Len(user) = 1 /\ user[1] = "wlgls"
  OBVIOUS
<1>4. DOMAIN rest = 1 .. len - n
  BY <1>2
<1>5. UpToAnd(body, n, user)
        <=> IF ends = {}
              THEN rest = user
              ELSE SubSeq(rest, 1, (CHOOSE i \in ends : \A j \in ends : i <= j) - 1)
                     = user
  BY DEF UpToAnd
<1>6. UserStands(body, n, user)
        <=> /\ n + 1 <= len /\ body[n + 1] = "wlgls"
            /\ n + 1 = len \/ body[n + 2] = "&"
  <2>1. UserStands(body, n, user)
          <=> /\ n + 1 <= len /\ SubSeq(body, n + 1, n + 1) = user
              /\ n + 1 = len \/ body[n + 1 + 1] = "&"
    BY <1>1, <1>3 DEF UserStands
  <2>2. n + 1 + 1 = n + 2
    OBVIOUS
  <2>3. ASSUME n + 1 <= len
        PROVE  SubSeq(body, n + 1, n + 1) = user <=> body[n + 1] = "wlgls"
    <3>1. n + 1 \in 1 .. Len(body)
      BY <1>1, <2>3
    <3>2. SubSeq(body, n + 1, n + 1) = <<body[n + 1]>>
      BY <3>1, SubSeqOfOne
    <3> QED
      BY <3>2
  <2> QED
    BY <2>1, <2>2, <2>3
<1>7. rest = user <=> len - n = 1 /\ rest[1] = "wlgls"
  <2>1. ASSUME len - n = 1, rest[1] = "wlgls" PROVE rest = user
    <3>1. "wlgls" \in Token
      BY DEF Token
    <3>2. user \in Seq(Token)
      BY <3>1
    <3>3. \A i \in 1 .. Len(rest) : rest[i] = user[i]
      <4>1. \A i \in 1 .. 1 : i = 1
        OBVIOUS
      <4> HIDE DEF rest, user
      <4> QED
        BY <1>2, <1>3, <2>1, <4>1
    <3> HIDE DEF rest, user
    <3> QED
      BY <1>2, <1>3, <2>1, <3>2, <3>3, SeqEqual
  <2>2. ASSUME rest = user PROVE len - n = 1 /\ rest[1] = "wlgls"
    <3> HIDE DEF rest, user
    <3> QED
      BY <1>2, <1>3, <2>2
  <2> QED
    BY <2>1, <2>2
<1>8. /\ \A i \in ends : i \in 1 .. len - n /\ rest[i] = "&"
      /\ \A i \in 1 .. len - n : rest[i] = "&" => i \in ends
      /\ ends \in SUBSET Nat
  <2> HIDE DEF rest
  <2> QED
    BY <1>1, <1>4
<1>9. CASE ends = {}
  <2>1. UpToAnd(body, n, user) <=> len - n = 1 /\ rest[1] = "wlgls"
    BY <1>5, <1>7, <1>9, Zenon
  <2>2. ASSUME len - n = 1, rest[1] = "wlgls" PROVE UserStands(body, n, user)
    <3>1. n + 1 = len /\ 1 \in 1 .. len - n
      BY <1>1, <2>2
    <3>2. body[n + 1] = "wlgls" /\ n + 1 <= len
      BY <1>2, <2>2, <3>1
    <3> QED
      BY <1>6, <3>1, <3>2, Zenon
  <2>3. ASSUME UserStands(body, n, user) PROVE len - n = 1 /\ rest[1] = "wlgls"
    <3>1. /\ n + 1 <= len /\ body[n + 1] = "wlgls"
          /\ n + 1 = len \/ body[n + 2] = "&"
      BY <1>6, <2>3, Zenon
    <3>2. rest[1] = "wlgls"
      <4>1. 1 \in 1 .. len - n
        BY <1>1, <3>1
      <4> QED
        BY <1>2, <3>1, <4>1, Zenon
    <3>3. CASE n + 1 # len
      <4>1. 2 \in 1 .. len - n
        BY <1>1, <3>1, <3>3
      <4>2. rest[2] = "&"
        BY <1>2, <3>1, <3>3, <4>1, Zenon
      <4> HIDE DEF ends
      <4> QED
        BY <1>8, <1>9, <4>1, <4>2
    <3>4. CASE n + 1 = len
      <4>1. len - n = 1
        BY <1>1, <3>4
      <4> QED
        BY <3>2, <4>1
    <3> QED
      BY <3>3, <3>4
  <2> HIDE DEF user
  <2>4. UpToAnd(body, n, user) <=> UserStands(body, n, user)
    BY <2>1, <2>2, <2>3, Zenon
  <2> QED
    BY <2>4 DEF user
<1>10. CASE ends # {}
  <2> DEFINE e == CHOOSE i \in ends : \A j \in ends : i <= j
  <2>1. e \in ends /\ \A j \in ends : e <= j
    <3>1. \E i \in ends : \A j \in ends : i <= j
      <4> HIDE DEF ends
      <4> QED
        BY <1>8, <1>10, LeastNat
    <3> HIDE DEF ends
    <3> QED
      BY <3>1, Zenon
  <2>2. UpToAnd(body, n, user) <=> SubSeq(rest, 1, e - 1) = user
    BY <1>5, <1>10, Zenon
  <2> HIDE DEF e
  <2>3. e \in 1 .. len - n /\ rest[e] = "&" /\ e \in Nat
    <3> HIDE DEF ends
    <3> QED
      BY <1>1, <1>8, <2>1
  <2>4. PICK s : s = SubSeq(rest, 1, e - 1)
    OBVIOUS
  <2>5. s \in Seq(Token) /\ Len(s) = e - 1
    <3> HIDE DEF rest
    <3>1. 1 \in Int /\ e - 1 \in Int
      BY <2>3
    <3>2. \A j \in 1 .. e - 1 : rest[j] \in Token
      <4> SUFFICES ASSUME NEW j \in 1 .. e - 1 PROVE rest[j] \in Token
        OBVIOUS
      <4>1. j \in 1 .. len - n
        BY <1>1, <2>3
      <4> QED
        BY <1>2, <1>4, <4>1
    <3>3. /\ s \in Seq(Token)
          /\ Len(s) = IF 1 <= e - 1 THEN (e - 1) - 1 + 1 ELSE 0
      BY <2>4, <3>1, <3>2, SubSeqProperties
    <3> QED
      BY <2>3, <3>3
  <2>6. ASSUME s = user PROVE UserStands(body, n, user)
    <3>1. e = 2
      <4> HIDE DEF user
      <4>1. Len(s) = 1
        BY <1>3, <2>6, Zenon
      <4>2. e - 1 = 1
        BY <2>5, <4>1, Zenon
      <4> QED
        BY <2>3, <4>2
    <3>2. 1 \in 1 .. len - n /\ 2 \in 1 .. len - n /\ n + 1 <= len
      BY <1>1, <2>3, <3>1
    <3>3. s = <<rest[1]>>
      <4> HIDE DEF rest
      <4>1. 1 \in 1 .. Len(rest) /\ e - 1 = 1
        BY <1>2, <3>1, <3>2
      <4> QED
        BY <1>2, <2>4, <4>1, SubSeqOfOne
    <3>4. rest[1] = "wlgls"
      <4> HIDE DEF rest
      <4> QED
        BY <2>6, <3>3
    <3>5. body[n + 1] = "wlgls" /\ body[n + 2] = "&"
      <4> HIDE DEF rest
      <4> QED
        BY <1>2, <2>3, <3>1, <3>2, <3>4, Zenon
    <3> QED
      BY <1>6, <3>2, <3>5, Zenon
  <2>7. ASSUME UserStands(body, n, user) PROVE s = user
    <3>1. /\ n + 1 <= len /\ body[n + 1] = "wlgls"
          /\ n + 1 = len \/ body[n + 2] = "&"
      BY <1>6, <2>7, Zenon
    <3>2. 1 \in 1 .. len - n
      BY <1>1, <3>1
    <3>3. rest[1] = "wlgls"
      <4> HIDE DEF rest
      <4> QED
        BY <1>2, <3>1, <3>2, Zenon
    <3>4. e # 1
      <4> HIDE DEF rest
      <4> QED
        BY <2>3, <3>3
    <3>5. n + 1 # len /\ 2 \in 1 .. len - n
      BY <1>1, <2>3, <3>1, <3>4
    <3>6. rest[2] = "&"
      <4> HIDE DEF rest
      <4> QED
        BY <1>2, <3>1, <3>5, Zenon
    <3>7. e <= 2
      <4> HIDE DEF rest, ends
      <4> QED
        BY <1>8, <2>1, <3>5, <3>6
    <3>8. e - 1 = 1
      BY <2>3, <3>4, <3>7
    <3> HIDE DEF rest
    <3>9. s = <<rest[1]>>
      <4>1. 1 \in 1 .. Len(rest)
        BY <1>2, <3>2
      <4> QED
        BY <1>2, <2>4, <3>8, <4>1, SubSeqOfOne
    <3> QED
      BY <3>3, <3>9
  <2> HIDE DEF user
  <2>8. UpToAnd(body, n, user) <=> UserStands(body, n, user)
    BY <2>2, <2>4, <2>6, <2>7, Zenon
  <2> QED
    BY <2>8 DEF user
<1> QED
  BY <1>9, <1>10

(* substr throws only for a body with neither field and fewer than eight    *)
(* characters: a field that find finds has room for its nine.               *)
LEMMA LoginThrowsOnlyIf ==
  ASSUME NEW body, Len(body) \in Nat, LoginThrows(body)
  PROVE  /\ Position(body, Len(body)) < 8
         /\ \A i \in 1 .. Len(body) : body[i] \notin {"username", "password"}
<1>0. Position(body, Len(body)) \in Nat
  BY PositionStep
<1>1. PICK field \in {"username", "password"} :
        Position(body, Len(body)) < ValuePos(body, field)
  BY DEF LoginThrows
<1> DEFINE found == {i \in 1 .. Len(body) - 1 :
                       body[i] = field /\ body[i + 1] = "="}
<1>2. CASE found # {}
  <2>1. PICK first \in found : \A j \in found : first <= j
    <3>1. found \in SUBSET Nat
      OBVIOUS
    <3> QED
      BY <1>2, <3>1, LeastNat
  <2> DEFINE i == CHOOSE i \in found : \A j \in found : i <= j
  <2>2. i \in found
    BY <2>1
  <2>3. ValuePos(body, field) = 9 + Position(body, i - 1)
    BY <1>2 DEF ValuePos
  <2> HIDE DEF i
  <2>4. /\ i - 1 \in Nat /\ i \in Nat /\ (i - 1) + 1 = i
        /\ i + 1 \in Nat /\ i + 1 <= Len(body)
        /\ body[i] = field /\ body[i + 1] = "="
    BY <2>2
  <2>5. /\ Position(body, i - 1) \in Nat
        /\ Position(body, i) = Position(body, i - 1) + Width(body[i])
        /\ Position(body, i + 1) = Position(body, i) + Width(body[i + 1])
    BY <2>4, PositionStep
  <2>6. Width(body[i]) = 8 /\ Width(body[i + 1]) = 1
    BY <2>4 DEF Width
  <2>7. Position(body, i + 1) <= Position(body, Len(body))
    BY <2>4, PositionGrows
  <2> QED
    BY <1>0, <1>1, <2>3, <2>5, <2>6, <2>7
<1>3. CASE found = {}
  <2>1. ValuePos(body, field) = 9 + (-1)
    BY <1>3 DEF ValuePos
  <2>2. Position(body, Len(body)) < 8
    BY <1>0, <1>1, <2>1
  <2>3. ASSUME NEW i \in 1 .. Len(body), body[i] \in {"username", "password"}
        PROVE  FALSE
    <3>1. i - 1 \in Nat /\ i \in Nat /\ (i - 1) + 1 = i /\ i <= Len(body)
      OBVIOUS
    <3>2. /\ Position(body, i - 1) \in Nat
          /\ Position(body, i) = Position(body, i - 1) + Width(body[i])
      BY <3>1, PositionStep
    <3>3. Width(body[i]) = 8
      BY <2>3 DEF Width
    <3>4. Position(body, i) <= Position(body, Len(body))
      BY <3>1, PositionGrows
    <3> QED
      BY <1>0, <2>2, <3>2, <3>3, <3>4
  <2> QED
    BY <2>2, <2>3
<1> QED
  BY <1>2, <1>3

FieldAt(body, i) == i < Len(body) /\ body[i] = "username" /\ body[i + 1] = "="

(* Searching by position finds the form's user. *)
LEMMA UserNamed ==
  ASSUME NEW body \in Seq(Token)
  PROVE  UserIs(body, <<"wlgls">>) <=> NamesUser(body, <<"wlgls">>)
<1> DEFINE user == <<"wlgls">>
<1> DEFINE found == {i \in 1 .. Len(body) - 1 :
                       body[i] = "username" /\ body[i + 1] = "="}
<1> DEFINE pos == ValuePos(body, "username")
<1>1. PICK len \in Nat : len = Len(body) /\ DOMAIN body = 1 .. len
  OBVIOUS
<1>2. UserIs(body, user)
        <=> \E n \in 0 .. Len(body) :
              Position(body, n) = pos /\ UpToAnd(body, n, user)
  BY Zenon DEF UserIs, UpToAnd
<1>3. \A n \in 0 .. Len(body) : UpToAnd(body, n, user) <=> UserStands(body, n, user)
  BY UserThere
<1>4. NamesUser(body, user)
        <=> IF \E i \in DOMAIN body : FieldAt(body, i)
              THEN \E i \in DOMAIN body :
                     /\ FieldAt(body, i) /\ \A j \in 1 .. i - 1 : ~FieldAt(body, j)
                     /\ UserStands(body, i + 1, user)
              ELSE \E n \in DOMAIN body :
                     Position(body, n) = 8 /\ UserStands(body, n, user)
  BY Zenon DEF NamesUser, FieldAt, UserStands
<1>5. /\ \A i \in DOMAIN body : FieldAt(body, i) => i \in found
      /\ \A i \in found : i \in DOMAIN body /\ FieldAt(body, i)
      /\ found \in SUBSET Nat
  BY <1>1 DEF FieldAt
<1>6. ValuePos(body, "username")
        = 9 + (IF found = {} THEN -1
               ELSE Position(body, (CHOOSE i \in found : \A j \in found : i <= j) - 1))
  BY Zenon DEF ValuePos
<1> HIDE DEF user
<1>7. CASE found = {}
  <2>1. pos = 8
    BY <1>6, <1>7
  <2>2. NamesUser(body, user)
          <=> \E n \in DOMAIN body : Position(body, n) = 8 /\ UserStands(body, n, user)
    <3> HIDE DEF found
    <3> QED
      BY <1>4, <1>5, <1>7, Zenon
  <2> HIDE DEF pos
  <2>3. ASSUME UserIs(body, user) PROVE NamesUser(body, user)
    <3>1. PICK n \in 0 .. Len(body) : Position(body, n) = 8 /\ UserStands(body, n, user)
      BY <1>2, <1>3, <2>1, <2>3, Zenon
    <3>2. Position(body, 0) = 0
      BY PositionStep, Zenon
    <3>3. n # 0
      BY <3>1, <3>2
    <3>4. n \in DOMAIN body
      BY <1>1, <3>3
    <3> QED
      BY <2>2, <3>1, <3>4, Zenon
  <2>4. ASSUME NamesUser(body, user) PROVE UserIs(body, user)
    <3>1. PICK n \in DOMAIN body : Position(body, n) = 8 /\ UserStands(body, n, user)
      BY <2>2, <2>4, Zenon
    <3>2. n \in 0 .. Len(body)
      BY <1>1
    <3> QED
      BY <1>2, <1>3, <2>1, <3>1, <3>2, Zenon
  <2>5. UserIs(body, user) <=> NamesUser(body, user)
    BY <2>3, <2>4, Zenon
  <2> QED
    BY <2>5 DEF user
<1>8. CASE found # {}
  <2> DEFINE f == CHOOSE i \in found : \A j \in found : i <= j
  <2>1. f \in found /\ \A j \in found : f <= j
    <3>1. \E i \in found : \A j \in found : i <= j
      <4> HIDE DEF found
      <4> QED
        BY <1>5, <1>8, LeastNat
    <3> HIDE DEF found
    <3> QED
      BY <3>1, Zenon
  <2>2. pos = 9 + Position(body, f - 1)
    <3> HIDE DEF found
    <3> QED
      BY <1>6, <1>8, Zenon
  <2> HIDE DEF f
  <2>3. /\ f - 1 \in Nat /\ f \in Nat /\ (f - 1) + 1 = f
        /\ f + 1 \in Nat /\ f + 1 \in 0 .. Len(body) /\ f \in DOMAIN body
        /\ body[f] = "username" /\ body[f + 1] = "="
    BY <1>1, <2>1
  <2> HIDE DEF found, pos
  <2>4. /\ Position(body, f - 1) \in Nat
        /\ Position(body, f) = Position(body, f - 1) + Width(body[f])
        /\ Position(body, f + 1) = Position(body, f) + Width(body[f + 1])
    <3>1. Position(body, (f - 1) + 1) = Position(body, f - 1) + Width(body[(f - 1) + 1])
      BY <2>3, PositionStep, Zenon
    <3>2. Position(body, f + 1) = Position(body, f) + Width(body[f + 1])
      BY <2>3, PositionStep, Zenon
    <3> QED
      BY <2>3, <3>1, <3>2, PositionStep, Zenon
  <2>5. Width(body[f]) = 8 /\ Width(body[f + 1]) = 1
    BY <2>3 DEF Width
  <2>6. pos = Position(body, f + 1)
    BY <2>2, <2>4, <2>5
  <2>7. \A n \in 0 .. Len(body) : Position(body, n) = pos => n = f + 1
    <3>1. ASSUME NEW n \in 0 .. Len(body), Position(body, n) = pos PROVE n = f + 1
      <4>1. n \in Nat
        OBVIOUS
      <4>2. Position(body, n) = Position(body, f + 1)
        BY <2>6, <3>1, Zenon
      <4> QED
        BY <2>3, <4>1, <4>2, PositionApart, Zenon
    <3> QED
      BY <3>1
  <2>8. UserIs(body, user) <=> UserStands(body, f + 1, user)
    BY <1>2, <1>3, <2>3, <2>6, <2>7, Zenon
  <2>9. FieldAt(body, f) /\ \A j \in 1 .. f - 1 : ~FieldAt(body, j)
    <3>1. FieldAt(body, f)
      BY <1>5, <2>1, Zenon
    <3>2. ASSUME NEW j \in 1 .. f - 1, FieldAt(body, j) PROVE FALSE
      <4>1. j \in DOMAIN body /\ ~(f <= j)
        BY <1>1, <2>3
      <4>2. j \in found
        BY <1>5, <3>2, <4>1, Zenon
      <4> QED
        BY <2>1, <4>1, <4>2, Zenon
    <3> QED
      BY <3>1, <3>2, Zenon
  <2>10. ASSUME NEW i \in DOMAIN body, FieldAt(body, i),
                \A j \in 1 .. i - 1 : ~FieldAt(body, j)
         PROVE  i = f
    <3>1. f <= i
      BY <1>5, <2>1, <2>10, Zenon
    <3>2. f \notin 1 .. i - 1
      BY <2>9, <2>10, Zenon
    <3> QED
      BY <1>1, <2>3, <3>1, <3>2
  <2>11. NamesUser(body, user) <=> UserStands(body, f + 1, user)
    BY <1>4, <2>3, <2>9, <2>10, Zenon
  <2>12. UserIs(body, user) <=> NamesUser(body, user)
    BY <2>8, <2>11, Zenon
  <2> QED
    BY <2>12 DEF user
<1> QED
  BY <1>7, <1>8

-----------------------------------------------------------------------------
(* The parser's invariant. *)

LEMMA EmptyIsRequest == IsRequest(Empty)
<1>1. IsMap(<<>>)
  BY DEF IsMap
<1> QED
  BY <1>1 DEF IsRequest, Empty

LEMMA ParserInit == Init => ParserInv
<1> SUFFICES ASSUME Init PROVE ParserInv
  OBVIOUS
<1>1. input \in Seq(Token) \X Seq(Token)
  BY InputAssumption DEF Init
<1>2. BufferIsRead
  BY <1>1 DEF Init, BufferIsRead
<1>3. TypeOK
  <2>1. Len(buffer) \in Nat
    BY <1>1 DEF Init
  <2>2. IsRequest(request_)
    BY EmptyIsRequest, Zenon DEF Init
  <2>3. state_ \in State /\ thrown \in BOOLEAN
    BY DEF Init, State
  <2>4. {start, end, colon} \subseteq 1 .. Len(buffer) + 2
    BY <2>1 DEF Init
  <2> QED
    BY <2>2, <2>3, <2>4 DEF TypeOK
<1>4. PairInOrder
  BY DEF Init, PairInOrder
<1>5. LineEndsRead
  BY DEF Init, LineEndsRead
<1> QED
  BY <1>2, <1>3, <1>4, <1>5 DEF ParserInv

LEMMA ParseStep == ParserInv /\ ParaseRequest => ParserInv'
<1> SUFFICES ASSUME ParserInv, ParaseRequest PROVE ParserInv'
  OBVIOUS
<1>1. BufferIsRead'
  BY DEF ParserInv, BufferIsRead, ParaseRequest
<1> QED
  BY <1>1, ParseType, ParseOrder, ParseLines DEF ParserInv

(* Another read is only parsed when the last one is: the parser does not    *)
(* take the NUL for a line end, so it does not remember one of the old      *)
(* buffer.                                                                  *)
LEMMA ReadStep ==
  ASSUME ParserInv, NextRead, ~Reading \/ state_ = "START"
  PROVE  ParserInv'
<1>1. /\ input \in Seq(Token) \X Seq(Token)
      /\ input' = input /\ second' = TRUE /\ buffer' = input[2]
      /\ start' = 1 /\ end' = 1 /\ colon' = 1
      /\ state_' = state_ /\ request_' = request_ /\ thrown' = thrown /\ ~thrown
      /\ input[2] # <<>>
  BY DEF ParserInv, BufferIsRead, NextRead
<1>2. BufferIsRead'
  BY <1>1 DEF BufferIsRead
<1>3. TypeOK'
  <2>1. Len(buffer') \in Nat
    BY <1>1
  <2> QED
    BY <1>1, <2>1 DEF ParserInv, TypeOK
<1>4. PairInOrder'
  BY <1>1 DEF PairInOrder
<1>5. LineEndsRead'
  <2>1. state_ \notin {"WHEN_CR", "CR_LF", "CR_LF_CR"}
    <3> SUFFICES ASSUME state_ \in {"WHEN_CR", "CR_LF", "CR_LF_CR"} PROVE FALSE
      OBVIOUS
    <3>1. /\ end \in 1 .. Len(buffer) + 2 /\ Len(buffer) \in Nat
          /\ Text[Len(buffer) + 1] = "NUL"
      BY TextFacts DEF ParserInv, TypeOK, BufferIsRead
    <3>2. ~(end - 1 <= Len(buffer))
      BY <1>1 DEF Reading
    <3>3. end - 1 = Len(buffer) + 1
      BY <3>1, <3>2
    <3> QED
      BY <3>1, <3>3 DEF ParserInv, LineEndsRead
  <2>2. Ended' <=> Ended
    BY <1>1 DEF Ended
  <2> QED
    BY <1>1, <2>1, <2>2 DEF ParserInv, LineEndsRead
<1> QED
  BY <1>2, <1>3, <1>4, <1>5 DEF ParserInv

-----------------------------------------------------------------------------
(* The answer to a whole request. *)

Reply(r, status, reason, type, body, close) ==
  /\ DOMAIN r = {"status", "reason", "type", "body", "close"}
  /\ r.status = status /\ r.reason = reason /\ r.type = type
  /\ r.body = body /\ r.close = close

(* Setting a field. *)
LEMMA SetStatus ==
  ASSUME NEW r, NEW status, NEW reason, NEW type, NEW body, NEW close, NEW x,
         Reply(r, status, reason, type, body, close)
  PROVE  Reply([r EXCEPT !.status = x], x, reason, type, body, close)
BY DEF Reply

LEMMA SetReason ==
  ASSUME NEW r, NEW status, NEW reason, NEW type, NEW body, NEW close, NEW x,
         Reply(r, status, reason, type, body, close)
  PROVE  Reply([r EXCEPT !.reason = x], status, x, type, body, close)
BY DEF Reply

LEMMA SetType ==
  ASSUME NEW r, NEW status, NEW reason, NEW type, NEW body, NEW close, NEW x,
         Reply(r, status, reason, type, body, close)
  PROVE  Reply([r EXCEPT !.type = x], status, reason, x, body, close)
BY DEF Reply

LEMMA SetBody ==
  ASSUME NEW r, NEW status, NEW reason, NEW type, NEW body, NEW close, NEW x,
         Reply(r, status, reason, type, body, close)
  PROVE  Reply([r EXCEPT !.body = x], status, reason, type, x, close)
BY DEF Reply

LEMMA SetClose ==
  ASSUME NEW r, NEW status, NEW reason, NEW type, NEW body, NEW close, NEW x,
         Reply(r, status, reason, type, body, close)
  PROVE  Reply([r EXCEPT !.close = x], status, reason, type, body, x)
BY DEF Reply

(* The responses the application makes. *)
LEMMA EmptyReply == Reply(HttpResponse, Unset, "", "", "", FALSE)
BY DEF HttpResponse, Reply

(* The numbers, named: Zenon would count them. *)
Fine    == 200
Missing == 404

LEMMA PageReply ==
  ASSUME NEW file, NEW type
  PROVE  Reply(Page(file, type), Fine, "", type, ReadFile(file), FALSE)
<1>1. Reply([HttpResponse EXCEPT !.status = Fine], Fine, "", "", "", FALSE)
  BY EmptyReply, SetStatus, Zenon
<1>2. Reply([[HttpResponse EXCEPT !.status = Fine] EXCEPT !.body = ReadFile(file)],
            Fine, "", "", ReadFile(file), FALSE)
  BY <1>1, SetBody, Zenon
<1>3. Reply([[[HttpResponse EXCEPT !.status = Fine] EXCEPT !.body = ReadFile(file)]
               EXCEPT !.type = type],
            Fine, "", type, ReadFile(file), FALSE)
  BY <1>2, SetType, Zenon
<1> QED
  BY <1>3, Zenon DEF Page, Fine

LEMMA NotFoundReply ==
  Reply(NotFound, Missing, "Not Found", "", "Sorry Not Found", TRUE)
<1>1. Reply([HttpResponse EXCEPT !.status = Missing], Missing, "", "", "", FALSE)
  BY EmptyReply, SetStatus, Zenon
<1>2. Reply([[HttpResponse EXCEPT !.status = Missing] EXCEPT !.reason = "Not Found"],
            Missing, "Not Found", "", "", FALSE)
  BY <1>1, SetReason, Zenon
<1>3. Reply([[[HttpResponse EXCEPT !.status = Missing] EXCEPT !.reason = "Not Found"]
               EXCEPT !.body = "Sorry Not Found"],
            Missing, "Not Found", "", "Sorry Not Found", FALSE)
  BY <1>2, SetBody, Zenon
<1>4. Reply([[[[HttpResponse EXCEPT !.status = Missing] EXCEPT !.reason = "Not Found"]
                EXCEPT !.body = "Sorry Not Found"] EXCEPT !.close = TRUE],
            Missing, "Not Found", "", "Sorry Not Found", TRUE)
  BY <1>3, SetClose, Zenon
<1> QED
  BY <1>4, Zenon DEF NotFound, Missing

LoginText(body) == IF UserIs(body, <<"wlgls">>) THEN "login ok!" ELSE "error!"

LEMMA LoginReply ==
  ASSUME NEW body
  PROVE  Reply(Login(body), Fine, "OK", "text/plain", LoginText(body), FALSE)
<1>1. Reply([HttpResponse EXCEPT !.status = Fine], Fine, "", "", "", FALSE)
  BY EmptyReply, SetStatus, Zenon
<1>2. Reply([[HttpResponse EXCEPT !.status = Fine] EXCEPT !.reason = "OK"],
            Fine, "OK", "", "", FALSE)
  BY <1>1, SetReason, Zenon
<1>3. Reply([[[HttpResponse EXCEPT !.status = Fine] EXCEPT !.reason = "OK"]
               EXCEPT !.type = "text/plain"],
            Fine, "OK", "text/plain", "", FALSE)
  BY <1>2, SetType, Zenon
<1>4. Reply([[[[HttpResponse EXCEPT !.status = Fine] EXCEPT !.reason = "OK"]
                EXCEPT !.type = "text/plain"] EXCEPT !.body = LoginText(body)],
            Fine, "OK", "text/plain", LoginText(body), FALSE)
  BY <1>3, SetBody, Zenon
<1> QED
  BY <1>4, Zenon DEF Login, Fine, LoginText

(* message() fills in the status, if nobody set it, and the reason. *)
Code(status, leftover) == IF status = Unset THEN leftover ELSE status
Words(reason, code)    == IF reason = "" THEN DefaultStatusMessage(code) ELSE reason

LEMMA MessageOf ==
  ASSUME NEW r, NEW status, NEW reason, NEW type, NEW body, NEW close,
         NEW leftover, Reply(r, status, reason, type, body, close)
  PROVE  Reply(Message(r, leftover), Code(status, leftover),
               Words(reason, Code(status, leftover)), type, body, close)
<1> DEFINE code == Code(status, leftover)
<1> DEFINE words == Words(reason, code)
<1>1. r.status = status /\ r.reason = reason
  BY DEF Reply
<1>2. Message(r, leftover) = [[r EXCEPT !.status = code] EXCEPT !.reason = words]
  <2>1. PICK s : s = IF r.status = Unset THEN leftover ELSE r.status
    OBVIOUS
  <2>2. s = code
    BY <1>1, <2>1, Zenon DEF Code
  <2>3. Message(r, leftover)
          = [[r EXCEPT !.status = s]
               EXCEPT !.reason = IF r.reason = "" THEN DefaultStatusMessage(s)
                                                  ELSE r.reason]
    BY <2>1, Zenon DEF Message
  <2> QED
    BY <1>1, <2>2, <2>3, Zenon DEF Words
<1> HIDE DEF code, words
<1>3. Reply([r EXCEPT !.status = code], code, reason, type, body, close)
  BY SetStatus, Zenon
<1>4. Reply([[r EXCEPT !.status = code] EXCEPT !.reason = words],
            code, words, type, body, close)
  BY <1>3, SetReason, Zenon
<1>5. Reply(Message(r, leftover), code, words, type, body, close)
  BY <1>2, <1>4, Zenon
<1> QED
  BY <1>5, Zenon DEF code, words

(* What is sent is a reply. *)
LEMMA MessageSent ==
  ASSUME NEW request, NEW leftover
  PROVE  Message(HttpResponseCallback(request), leftover) # NoResponse
<1> DEFINE callback == HttpResponseCallback(request)
<1>1. \/ callback = HttpResponse
      \/ \E file, type : callback = Page(file, type)
      \/ callback = NotFound
      \/ callback = Login(request.body)
  <2>1. \A url : \/ \E file, type : Get(url) = Page(file, type)
                  \/ Get(url) = NotFound
    <3> SUFFICES ASSUME NEW url
                 PROVE  \/ \E file, type : Get(url) = Page(file, type)
                        \/ Get(url) = NotFound
      OBVIOUS
    <3>1. CASE url = <<"/">>
      BY <3>1 DEF Get
    <3>2. CASE url = <<"/", "mhw">>
      BY <3>2 DEF Get
    <3>3. CASE url = <<"/", "cat.jpg">>
      BY <3>3 DEF Get
    <3>4. CASE url \notin {<<"/">>, <<"/", "mhw">>, <<"/", "cat.jpg">>}
      BY <3>4 DEF Get
    <3> QED
      BY <3>1, <3>2, <3>3, <3>4
  <2> QED
    BY <2>1, Zenon DEF HttpResponseCallback
<1>2. \E status, reason, type, body, close :
        Reply(callback, status, reason, type, body, close)
  <2> HIDE DEF callback
  <2>1. CASE callback = HttpResponse
    BY <2>1, EmptyReply, Zenon
  <2>2. CASE \E file, type : callback = Page(file, type)
    BY <2>2, PageReply, Zenon
  <2>3. CASE callback = NotFound
    BY <2>3, NotFoundReply, Zenon
  <2>4. CASE callback = Login(request.body)
    <3>1. Reply(Login(request.body), Fine, "OK", "text/plain",
                LoginText(request.body), FALSE)
      BY LoginReply, Zenon
    <3> QED
      BY <2>4, <3>1, Zenon
  <2> QED
    BY <1>1, <2>1, <2>2, <2>3, <2>4
<1> HIDE DEF callback
<1>3. "close" \in DOMAIN Message(callback, leftover)
  <2>1. PICK status, reason, type, body, close :
          Reply(callback, status, reason, type, body, close)
    BY <1>2, Zenon
  <2>2. Reply(Message(callback, leftover), Code(status, leftover),
              Words(reason, Code(status, leftover)), type, body, close)
    BY <2>1, MessageOf, Zenon
  <2>3. DOMAIN Message(callback, leftover)
          = {"status", "reason", "type", "body", "close"}
    BY <2>2, Zenon DEF Reply
  <2> QED
    BY <2>3
<1>4. "close" \notin DOMAIN NoResponse
  BY DEF NoResponse
<1> QED
  BY <1>3, <1>4, Zenon DEF callback

(* The promise of RoutedRight for one request. *)
Routed(p, r) ==
  /\ OwnPage(p) =>
       /\ r.status = 200 /\ r.reason = "OK" /\ ~r.close
       /\ r.body = Pages[p.url]
  /\ p.method = "GET" /\ p.url \notin DOMAIN Pages =>
       r.status = 404 /\ r.close
  /\ IsLogin(p) =>
       /\ r.status = 200 /\ ~r.close
       /\ (r.body = "login ok!") <=> NamesUser(RequestOf(p).body, <<"wlgls">>)

LEMMA AnsweredRight ==
  ASSUME NEW p, WellFormed(p), RequestOf(p).body \in Seq(Token), NEW leftover
  PROVE  Routed(p, Message(HttpResponseCallback(RequestOf(p)), leftover))
<1> DEFINE request == RequestOf(p)
<1> DEFINE callback == HttpResponseCallback(request)
<1> DEFINE r == Message(callback, leftover)
<1> DEFINE known == p.method = "GET" /\ p.url \in DOMAIN Pages
<1>1. request.method = p.method /\ request.url = p.url
  BY DEF RequestOf
<1>2. /\ known => p.method = "GET" /\ p.method # "POST"
      /\ "GET" # "POST"
  OBVIOUS
<1>3. /\ <<"/">> # <<"/", "mhw">> /\ <<"/">> # <<"/", "cat.jpg">>
      /\ <<"/", "mhw">> # <<"/", "cat.jpg">>
  OBVIOUS
<1>4. DOMAIN Pages = {<<"/">>, <<"/", "mhw">>, <<"/", "cat.jpg">>}
  BY DEF Pages
<1>5. CASE known
  <2>1. PICK file, type : callback = Page(file, type) /\ Pages[p.url] = file
    <3>1. callback = Get(p.url)
      BY <1>1, <1>5 DEF HttpResponseCallback
    <3>2. CASE p.url = <<"/">>
      <4>1. Get(p.url) = Page("index.htm", "text/html")
        BY <1>3, <3>2 DEF Get
      <4>2. Pages[p.url] = "index.htm"
        BY <1>3, <3>2 DEF Pages
      <4> QED
        BY <3>1, <4>1, <4>2, Zenon
    <3>3. CASE p.url = <<"/", "mhw">>
      <4>1. Get(p.url) = Page("mhw.html", "text/html")
        BY <1>3, <3>3 DEF Get
      <4>2. Pages[p.url] = "mhw.html"
        BY <1>3, <3>3 DEF Pages
      <4> QED
        BY <3>1, <4>1, <4>2, Zenon
    <3>4. CASE p.url = <<"/", "cat.jpg">>
      <4>1. Get(p.url) = Page("cat.jpg", "image/jpeg")
        BY <1>3, <3>4 DEF Get
      <4>2. Pages[p.url] = "cat.jpg"
        BY <1>3, <3>4 DEF Pages
      <4> QED
        BY <3>1, <4>1, <4>2, Zenon
    <3> QED
      BY <1>4, <1>5, <3>2, <3>3, <3>4
  <2>2. Reply(callback, Fine, "", type, ReadFile(file), FALSE)
    BY <2>1, PageReply, Zenon
  <2>3. DefaultStatusMessage(Fine) = "OK" /\ Fine # Unset
    BY DEF DefaultStatusMessage, Unset, Fine
  <2>4. Reply(r, Fine, "OK", type, ReadFile(file), FALSE)
    <3>1. Code(Fine, leftover) = Fine
      BY <2>3 DEF Code
    <3>2. Words("", Fine) = "OK"
      BY <2>3 DEF Words
    <3> HIDE DEF callback
    <3>3. Reply(r, Code(Fine, leftover), Words("", Code(Fine, leftover)),
                type, ReadFile(file), FALSE)
      BY <2>2, MessageOf, Zenon
    <3> HIDE DEF r
    <3> QED
      BY <3>1, <3>2, <3>3, Zenon
  <2> HIDE DEF r
  <2>5. r.status = 200 /\ r.reason = "OK" /\ r.body = ReadFile(file) /\ ~r.close
    BY <2>4, Zenon DEF Reply, Fine
  <2>6. OwnPage(p) => r.body = Pages[p.url]
    BY <2>1, <2>5, Zenon DEF ReadFile, OwnPage
  <2>7. Routed(p, r)
    BY <1>5, <2>5, <2>6 DEF Routed, IsLogin
  <2> QED
    BY <2>7 DEF r
<1>6. CASE p.method = "GET" /\ ~known
  <2>1. callback = NotFound
    BY <1>1, <1>4, <1>6 DEF HttpResponseCallback, Get
  <2>2. Reply(callback, Missing, "Not Found", "", "Sorry Not Found", TRUE)
    BY <2>1, NotFoundReply, Zenon
  <2>3. Reply(r, Missing, "Not Found", "", "Sorry Not Found", TRUE)
    <3>1. Missing # Unset /\ "Not Found" # ""
      BY DEF Unset, Missing
    <3>2. Code(Missing, leftover) = Missing
      BY <3>1 DEF Code
    <3>3. Words("Not Found", Missing) = "Not Found"
      BY <3>1 DEF Words
    <3> HIDE DEF callback
    <3>4. Reply(r, Code(Missing, leftover), Words("Not Found", Code(Missing, leftover)),
                "", "Sorry Not Found", TRUE)
      BY <2>2, MessageOf, Zenon
    <3> HIDE DEF r
    <3> QED
      BY <3>2, <3>3, <3>4, Zenon
  <2> HIDE DEF r
  <2>4. r.status = 404 /\ r.close
    BY <2>3, Zenon DEF Reply, Missing
  <2>5. Routed(p, r)
    BY <1>6, <2>4 DEF Routed, OwnPage, IsLogin
  <2> QED
    BY <2>5 DEF r
<1>7. CASE p.method = "POST" /\ p.url = <<"/", "login">>
  <2> DEFINE form == request.body
  <2> DEFINE text == LoginText(form)
  <2>1. callback = Login(form)
    BY <1>1, <1>7 DEF HttpResponseCallback, IsLogin
  <2>2. Reply(callback, Fine, "OK", "text/plain", text, FALSE)
    BY <2>1, LoginReply, Zenon
  <2>3. Reply(r, Fine, "OK", "text/plain", text, FALSE)
    <3>1. Fine # Unset /\ "OK" # ""
      BY DEF Unset, Fine
    <3>2. Code(Fine, leftover) = Fine /\ Words("OK", Fine) = "OK"
      BY <3>1 DEF Code, Words
    <3> HIDE DEF callback, text
    <3>3. Reply(r, Code(Fine, leftover), Words("OK", Code(Fine, leftover)),
                "text/plain", text, FALSE)
      BY <2>2, MessageOf, Zenon
    <3> HIDE DEF r
    <3> QED
      BY <3>2, <3>3, Zenon
  <2> HIDE DEF r
  <2>4. r.status = 200 /\ ~r.close /\ r.body = text
    <3> HIDE DEF text
    <3> QED
      BY <2>3, Zenon DEF Reply, Fine
  <2>5. UserIs(form, <<"wlgls">>) <=> NamesUser(form, <<"wlgls">>)
    BY UserNamed
  <2>6. (r.body = "login ok!") <=> NamesUser(form, <<"wlgls">>)
    <3>1. "login ok!" # "error!"
      OBVIOUS
    <3>2. CASE UserIs(form, <<"wlgls">>)
      BY <2>4, <2>5, <3>2, Zenon DEF LoginText
    <3>3. CASE ~UserIs(form, <<"wlgls">>)
      BY <2>4, <2>5, <3>1, <3>3, Zenon DEF LoginText
    <3> QED
      BY <3>2, <3>3
  <2>7. ~(p.method = "GET")
    BY <1>7
  <2>8. Routed(p, r)
    <3>1. NamesUser(RequestOf(p).body, <<"wlgls">>) <=> (r.body = "login ok!")
      BY <2>6
    <3> QED
      BY <1>7, <2>4, <2>7, <3>1 DEF Routed, OwnPage, IsLogin
  <2> QED
    BY <2>8 DEF r
<1>8. CASE p.method # "GET" /\ ~(p.method = "POST" /\ p.url = <<"/", "login">>)
  BY <1>8 DEF Routed, OwnPage, IsLogin
<1> QED
  BY <1>5, <1>6, <1>7, <1>8

-----------------------------------------------------------------------------
(* The invariant of the exchange, action by action. *)

LEMMA ExchangeStart == ExchangeInit => ExchangeInv
<1> SUFFICES ASSUME ExchangeInit PROVE ExchangeInv
  OBVIOUS
<1>1. ParserInv
  BY ParserInit DEF ExchangeInit
<1>2. StopsForAnswer
  BY DEF ExchangeInit, StopsForAnswer
<1>3. ThrownOnlyIf
  BY DEF ExchangeInit, Init, ThrownOnlyIf
<1>4. WholeIsRead
  <2>1. \A p : InRequestLine(p) /\ ~thrown
    BY DEF ExchangeInit, Init, InRequestLine
  <2> QED
    BY <2>1 DEF WholeIsRead, InRequest
<1> QED
  BY <1>1, <1>2, <1>3, <1>4 DEF ExchangeInv

(* A whole request is read on, or it is answered, or there is a second read. *)
LEMMA WholeGoesOn ==
  ASSUME ExchangeInv, ExchangeNext
  PROVE  WholeIsRead'
<1> SUFFICES ASSUME response' = NoResponse, ~second', NEW p \in Said(input'[1])
             PROVE  InRequest(p)'
  <2>1. /\ (response = NoResponse)' <=> response' = NoResponse
        /\ (~second)' <=> ~second'
    BY DEF NoResponse
  <2> QED
    BY <2>1 DEF WholeIsRead, Said, TextOf
<1>1. CASE ParaseRequest /\ response = NoResponse /\ UNCHANGED response
  <2>1. input' = input /\ second' = second
    BY <1>1 DEF ParaseRequest
  <2>2. p \in Said(input[1]) /\ ~second
    BY <2>1
  <2>3. ParserInv /\ InRequest(p)
    BY <1>1, <2>2 DEF ExchangeInv, WholeIsRead
  <2> QED
    BY <1>1, <2>2, <2>3, RequestRound
<1>2. CASE OnRequest
  BY <1>2, MessageSent DEF OnRequest
<1>3. CASE LoginWithoutFields
  <2>1. /\ input' = input /\ second' = second /\ response' = response
        /\ state_' = state_ /\ request_' = request_ /\ state_ = "COMPLETE"
    BY <1>3 DEF LoginWithoutFields
  <2>2. InRequest(p)
    BY <2>1 DEF ExchangeInv, WholeIsRead
  <2>3. request_ = RequestOf(p)
    BY <2>1, <2>2 DEF InRequest, InRequestLine, InHeaders
  <2> QED
    BY <2>1, <2>3 DEF InRequest
<1>4. CASE BadRequest
  <2>1. "close" \in DOMAIN response'
    BY <1>4 DEF BadRequest, HttpResponse
  <2>2. "close" \notin DOMAIN NoResponse
    BY DEF NoResponse
  <2> QED
    BY <2>1, <2>2, Zenon
<1>5. CASE NextRead /\ response # NoResponse /\ response' = NoResponse
  BY <1>5 DEF NextRead
<1> QED
  BY <1>1, <1>2, <1>3, <1>4, <1>5 DEF ExchangeNext

LEMMA ExchangeStep ==
  ExchangeInv /\ [ExchangeNext]_exchangeVars => ExchangeInv'
<1> SUFFICES ASSUME ExchangeInv, [ExchangeNext]_exchangeVars
             PROVE  ExchangeInv'
  OBVIOUS
<1>inv. ParserInv /\ StopsForAnswer /\ ThrownOnlyIf
  BY DEF ExchangeInv
<1>whole. ASSUME ExchangeNext PROVE WholeIsRead'
  BY <1>whole, WholeGoesOn
<1>kept. ASSUME ~thrown' PROVE ThrownOnlyIf'
  BY <1>kept DEF ThrownOnlyIf
<1>1. CASE ParaseRequest /\ response = NoResponse /\ UNCHANGED response
  <2>1. ParserInv'
    BY <1>inv, <1>1, ParseStep
  <2>2. StopsForAnswer'
    BY <1>1 DEF StopsForAnswer
  <2>3. ThrownOnlyIf'
    <3>1. thrown' => EmptyValue \/ EndInFront
      BY <1>inv, <1>1, ParseThrows
    <3>2. input' = input /\ buffer' = buffer /\ second' = second
      BY <1>1 DEF ParaseRequest
    <3>3. (EmptyValue' <=> EmptyValue) /\ (EndInFront' <=> EndInFront)
      BY <3>2 DEF EmptyValue, EndInFront
    <3> QED
      BY <3>1, <3>3 DEF ThrownOnlyIf
  <2> QED
    BY <1>1, <1>whole, <2>1, <2>2, <2>3 DEF ExchangeInv, ExchangeNext
<1>2. CASE OnRequest
  <2>1. /\ state_ = "COMPLETE" /\ ~thrown
        /\ \/ state_' = state_ /\ request_' = request_
           \/ state_' = "START" /\ request_' = Empty
        /\ UNCHANGED <<input, buffer, second, start, end, colon, thrown>>
    BY <1>2 DEF OnRequest, Answering
  <2>2. ParserInv'
    <3>1. BufferIsRead'
      BY <1>inv, <2>1 DEF ParserInv, BufferIsRead
    <3>2. TypeOK'
      BY <1>inv, <2>1, EmptyIsRequest DEF ParserInv, TypeOK, State
    <3>3. PairInOrder'
      BY <1>inv, <2>1 DEF ParserInv, PairInOrder
    <3>4. LineEndsRead'
      <4>1. Ended' <=> Ended
        BY <2>1 DEF Ended
      <4> QED
        BY <1>inv, <2>1, <4>1 DEF ParserInv, LineEndsRead
    <3> QED
      BY <3>1, <3>2, <3>3, <3>4 DEF ParserInv
  <2>3. StopsForAnswer'
    BY <2>1 DEF StopsForAnswer, Reading
  <2> QED
    BY <1>2, <1>whole, <1>kept, <2>1, <2>2, <2>3 DEF ExchangeInv, ExchangeNext
<1>3. CASE LoginWithoutFields
  <2>1. /\ thrown' = TRUE /\ IsLogin(request_) /\ LoginThrows(request_.body)
        /\ UNCHANGED <<input, buffer, second, state_, start, end, colon, request_,
                       response>>
    BY <1>3 DEF LoginWithoutFields
  <2>2. ParserInv'
    <3>1. BufferIsRead'
      BY <1>inv, <2>1 DEF ParserInv, BufferIsRead
    <3>2. TypeOK'
      BY <1>inv, <2>1 DEF ParserInv, TypeOK
    <3>3. PairInOrder'
      BY <1>inv, <2>1 DEF ParserInv, PairInOrder, Text
    <3>4. LineEndsRead'
      BY <1>inv, <2>1 DEF ParserInv, LineEndsRead, Text, Ended
    <3> QED
      BY <3>1, <3>2, <3>3, <3>4 DEF ParserInv
  <2>3. StopsForAnswer'
    BY <2>1 DEF StopsForAnswer, Reading
  <2>4. NoFields
    <3>1. request_.body \in Seq(Token)
      BY <1>inv DEF ParserInv, TypeOK, IsRequest
    <3>2. /\ Len(request_.body) \in Nat
          /\ DOMAIN request_.body = 1 .. Len(request_.body)
      BY <3>1
    <3> QED
      BY <2>1, <3>2, LoginThrowsOnlyIf DEF NoFields
  <2>5. NoFields'
    BY <2>1, <2>4 DEF NoFields
  <2> QED
    BY <1>3, <1>whole, <2>2, <2>3, <2>5 DEF ExchangeInv, ExchangeNext, ThrownOnlyIf
<1>4. CASE BadRequest
  <2>1. ParserInv'
    BY <1>inv, <1>4 DEF BadRequest, vars, ParserInv, BufferIsRead, TypeOK,
                        PairInOrder, LineEndsRead, Text, Ended
  <2>2. StopsForAnswer'
    BY <1>4 DEF BadRequest, vars, Answering, Reading, StopsForAnswer
  <2>3. ~thrown'
    BY <1>4 DEF BadRequest, vars, Answering
  <2> QED
    BY <1>4, <1>whole, <1>kept, <2>1, <2>2, <2>3 DEF ExchangeInv, ExchangeNext
<1>5. CASE NextRead /\ response # NoResponse /\ response' = NoResponse
  <2>1. ParserInv'
    BY <1>inv, <1>5, ReadStep DEF StopsForAnswer
  <2>2. StopsForAnswer'
    BY <1>5 DEF StopsForAnswer
  <2>3. ~thrown'
    BY <1>5 DEF NextRead
  <2> QED
    BY <1>5, <1>whole, <1>kept, <2>1, <2>2, <2>3 DEF ExchangeInv, ExchangeNext
<1>6. CASE UNCHANGED exchangeVars
  <2>1. ParserInv'
    BY <1>inv, <1>6 DEF exchangeVars, vars, ParserInv, BufferIsRead, TypeOK,
                        PairInOrder, LineEndsRead, Text, Ended
  <2>2. StopsForAnswer'
    BY <1>inv, <1>6 DEF exchangeVars, vars, Reading, StopsForAnswer
  <2>3. ThrownOnlyIf'
    BY <1>inv, <1>6 DEF exchangeVars, vars, ThrownOnlyIf, EmptyValue,
                        EndInFront, NoFields
  <2>4. WholeIsRead'
    <3>1. WholeIsRead
      BY DEF ExchangeInv
    <3>2. UNCHANGED <<input, second, state_, start, end, colon, request_, thrown,
                      response>>
      BY <1>6 DEF exchangeVars, vars
    <3>3. ASSUME NEW p PROVE InRequestLine(p)' <=> InRequestLine(p)
      BY <3>2 DEF InRequestLine
    <3>4. ASSUME NEW p PROVE InHeaders(p)' <=> InHeaders(p)
      BY <3>2 DEF InHeaders
    <3>5. ASSUME NEW p PROVE InRequest(p)' <=> InRequest(p)
      BY <3>2, <3>3, <3>4 DEF InRequest
    <3> QED
      BY <3>1, <3>2, <3>5 DEF WholeIsRead, Said
  <2> QED
    BY <2>1, <2>2, <2>3, <2>4 DEF ExchangeInv
<1> QED
  BY <1>1, <1>2, <1>3, <1>4, <1>5, <1>6 DEF ExchangeNext

(* The inductive invariant holds of every exchange: for all reads, whether  *)
(* they are requests or not.                                                *)
THEOREM ExchangeInvariant == ExchangeSpec => []ExchangeInv
BY ExchangeStart, ExchangeStep, PTL DEF ExchangeSpec

(* ParaseRequest takes a request for complete only when CR LF CR LF has     *)
(* been read, whatever came, in one read or two.                            *)
THEOREM RequestsEnd == ExchangeSpec => []CompleteMeansEnded
<1>1. ExchangeInv => CompleteMeansEnded
  BY DEF ExchangeInv, ParserInv, LineEndsRead, CompleteMeansEnded
<1> QED
  BY <1>1, ExchangeInvariant, PTL

(* The NUL that the parser's loop looks at never gets into the url, the     *)
(* protocol, a parameter, a header or the body of the request.              *)
THEOREM NulStaysOut == ExchangeSpec => []NothingBehindBuffer
<1>1. ExchangeInv => NothingBehindBuffer
  <2> DEFINE pairs   == {request_.params, request_.headers}
             strings == {request_.url, request_.protocol, request_.body}
                          \cup UNION {DOMAIN m \cup {m[k] : k \in DOMAIN m} :
                                        m \in pairs}
  <2> SUFFICES ASSUME ExchangeInv, NEW s \in strings, NEW i \in DOMAIN s
               PROVE  s[i] # "NUL"
    BY DEF NothingBehindBuffer
  <2>0. IsRequest(request_)
    BY DEF ExchangeInv, ParserInv, TypeOK
  <2>1. s \in Seq(Token)
    <3>1. CASE s \in {request_.url, request_.protocol, request_.body}
      BY <2>0, <3>1 DEF IsRequest
    <3>2. ASSUME NEW m \in pairs, s \in DOMAIN m \cup {m[k] : k \in DOMAIN m}
          PROVE  s \in Seq(Token)
      <4>1. IsMap(m)
        BY <2>0 DEF IsRequest
      <4> QED
        BY <3>2, <4>1 DEF IsMap
    <3> QED
      BY <3>1, <3>2
  <2>2. s[i] \in Token
    BY <2>1
  <2>3. "NUL" \notin Token
    BY DEF Token, Methods, Upper, Blank, Digit, LineEnd
  <2> QED
    BY <2>2, <2>3
<1> QED
  BY <1>1, ExchangeInvariant, PTL

(* An exception leaves the exchange, and the process ends, only for a       *)
(* header without a value, for a read that goes on behind a finished value, *)
(* and for a login without fields and with fewer than eight characters.     *)
THEOREM ThrowsExplained == ExchangeSpec => []ThrownOnlyIf
<1>1. ExchangeInv => ThrownOnlyIf
  BY DEF ExchangeInv
<1> QED
  BY <1>1, ExchangeInvariant, PTL

(* A request that comes whole, with any number of parameters and headers,   *)
(* is parsed to its end, and every part of it is where it belongs: method,  *)
(* url, the maps of parameters and headers, version and body.               *)
THEOREM WholeRequestsRead == ExchangeSpec => []RequestRight
<1>1. ExchangeInv => RequestRight
  <2> SUFFICES ASSUME ExchangeInv, response = NoResponse, ~Reading,
                      input[2] = <<>>, NEW p \in Said(input[1])
               PROVE  state_ = "COMPLETE" /\ request_ = RequestOf(p)
    BY Zenon DEF RequestRight, ParsedRight
  <2>1. ParserInv /\ ~second
    BY DEF ExchangeInv, ParserInv, BufferIsRead
  <2>2. InRequest(p)
    BY <2>1 DEF ExchangeInv, WholeIsRead
  <2> QED
    BY <2>1, <2>2, WholeRead
<1> QED
  BY <1>1, ExchangeInvariant, PTL

LEMMA RoutedStep ==
  ASSUME ExchangeInv, RoutedRight, [ExchangeNext]_exchangeVars
  PROVE  RoutedRight'
<1> SUFFICES ASSUME response' # NoResponse, ~second', NEW p \in Said(input'[1])
             PROVE  Routed(p, response')
  BY Zenon DEF RoutedRight, Routed, Said, TextOf, NoResponse, RequestOf
<1>was. ASSUME input' = input, second' = second, response' = response
        PROVE  Routed(p, response')
  <2>1. Routed(p, response)
    BY <1>was, Zenon DEF RoutedRight, Routed
  <2> QED
    BY <1>was, <2>1, Zenon
<1>whole. ASSUME input' = input, second' = second, Answering
          PROVE  state_ = "COMPLETE" /\ request_ = RequestOf(p) /\ WellFormed(p)
  <2>1. ParserInv /\ ~second /\ ~Reading /\ p \in Said(input[1])
    BY <1>whole DEF ExchangeInv, Answering
  <2>2. InRequest(p)
    BY <1>whole, <2>1 DEF ExchangeInv, WholeIsRead, Answering
  <2> QED
    BY <2>1, <2>2, WholeRead, SaidIs
<1>1. CASE ParaseRequest /\ response = NoResponse /\ UNCHANGED response
  BY <1>1
<1>2. CASE OnRequest
  <2>1. input' = input /\ second' = second /\ Answering
    BY <1>2 DEF OnRequest
  <2>2. request_ = RequestOf(p) /\ WellFormed(p)
    BY <1>whole, <2>1
  <2>3. RequestOf(p).body \in Seq(Token)
    BY <2>2 DEF ExchangeInv, ParserInv, TypeOK, IsRequest
  <2>4. PICK leftover : response' = Message(HttpResponseCallback(RequestOf(p)), leftover)
    BY <1>2, <2>2, Zenon DEF OnRequest
  <2>5. Routed(p, Message(HttpResponseCallback(RequestOf(p)), leftover))
    BY <2>2, <2>3, AnsweredRight, Zenon
  <2> QED
    BY <2>4, <2>5, Zenon
<1>3. CASE LoginWithoutFields
  BY <1>3 DEF LoginWithoutFields, Answering
<1>4. CASE BadRequest
  BY <1>4, <1>whole DEF BadRequest, vars
<1>5. CASE NextRead /\ response # NoResponse /\ response' = NoResponse
  BY <1>5
<1>6. CASE UNCHANGED exchangeVars
  BY <1>6, <1>was DEF exchangeVars, vars
<1> QED
  BY <1>1, <1>2, <1>3, <1>4, <1>5, <1>6 DEF ExchangeNext

(* A request for a page, for a path that is not there, or of a login that   *)
(* comes whole gets the answer its method and path promise: the page if the *)
(* file is there, the 404 that closes, or whether the user is known; never  *)
(* a 400, and never another request's answer. Of what the program has no    *)
(* answer for nothing is said (see UnsupportedRefused).                     *)
THEOREM WholeRequestsRouted == ExchangeSpec => []RoutedRight
<1>1. ExchangeInit => RoutedRight
  BY DEF ExchangeInit, RoutedRight
<1>2. ExchangeInv /\ RoutedRight /\ [ExchangeNext]_exchangeVars => RoutedRight'
  BY RoutedStep
<1> QED
  BY <1>1, <1>2, ExchangeInvariant, PTL DEF ExchangeSpec

-----------------------------------------------------------------------------
(* The parser by itself. *)

(* The parser keeps its invariant with any reader that waits for it.        *)
THEOREM ParserInvariant == Spec => []ParserInv
<1>1. ParserInv /\ [Next]_vars => ParserInv'
  <2> SUFFICES ASSUME ParserInv, [Next]_vars PROVE ParserInv'
    OBVIOUS
  <2>1. CASE ParaseRequest
    BY <2>1, ParseStep
  <2>2. CASE ~Reading /\ NextRead
    BY <2>2, ReadStep
  <2>3. CASE UNCHANGED vars
    BY <2>3 DEF vars, ParserInv, BufferIsRead, TypeOK, PairInOrder,
                LineEndsRead, Text, Ended
  <2> QED
    BY <2>1, <2>2, <2>3 DEF Next
<1> QED
  BY <1>1, ParserInit, PTL DEF Spec
=============================================================================
