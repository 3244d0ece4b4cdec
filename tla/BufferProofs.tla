---------------------------- MODULE BufferProofs ----------------------------
(***************************************************************************)
(* Proofs about Buffer for every vector size, message set and bound: the   *)
(* indices stay inside the vector, and the buffer is a queue of bytes.     *)
(***************************************************************************)
EXTENDS Buffer, SequenceTheorems, TLAPS

BufferInv == TypeOK /\ IndicesInside /\ EmptyIsRewound

(* The sizes are numbers. *)
LEMMA Sizes ==
  ASSUME BufferInv
  PROVE  /\ CanReadSize \in Nat
         /\ CanWriteSize \in Nat
         /\ PrependSize \in Nat
         /\ Len(buffer_) \in Nat
         /\ Len(buffer_) = write_index_ + CanWriteSize
         /\ write_index_ = read_index_ + CanReadSize
BY BufferAssumption
   DEF BufferInv, TypeOK, IndicesInside, CanReadSize, CanWriteSize, PrependSize

(* A vector given by its bytes. *)
LEMMA VectorOf ==
  ASSUME NEW n \in Nat, NEW v \in [1 .. n -> Byte]
  PROVE  v \in Seq(Byte) /\ Len(v) = n
OBVIOUS

(* What EnsureCanAppend leaves: a vector with room for len more bytes, and  *)
(* the same readable bytes.                                                 *)
LEMMA Ensured ==
  ASSUME BufferInv, NEW len \in Nat, NEW r, r = EnsureCanAppend(len)
  PROVE  /\ r.buf \in Seq(Byte)
         /\ r.read \in Nat
         /\ r.write \in Nat
         /\ kPrePendIndex <= r.read
         /\ r.write + len <= Len(r.buf)
         /\ r.write - r.read = CanReadSize
         /\ CanReadSize = 0 => r.read = kPrePendIndex
         /\ \A i \in 1 .. CanReadSize :
              r.buf[r.read + i] = buffer_[read_index_ + i]
<1> USE BufferAssumption, Sizes DEF BufferInv, TypeOK, IndicesInside
<1>1. CASE CanWriteSize >= len
  BY <1>1 DEF EnsureCanAppend, EmptyIsRewound, CanReadSize
<1>2. CASE /\ ~ (CanWriteSize >= len)
           /\ CanWriteSize + PrependSize >= kPrePendIndex + len
  <2>1. r = Moved
    BY <1>2 DEF EnsureCanAppend
  <2>2. kPrePendIndex + CanReadSize + len <= Len(buffer_)
    BY <1>2 DEF PrependSize
  <2>3. /\ r.read = kPrePendIndex
        /\ r.write = kPrePendIndex + CanReadSize
        /\ r.buf = [i \in 1 .. Len(buffer_) |->
                      IF i \in kPrePendIndex + 1 .. kPrePendIndex + CanReadSize
                      THEN buffer_[read_index_ + i - kPrePendIndex]
                      ELSE buffer_[i]]
    BY <2>1 DEF Moved
  <2>4. ASSUME NEW i \in kPrePendIndex + 1 .. kPrePendIndex + CanReadSize
        PROVE  read_index_ + i - kPrePendIndex \in 1 .. Len(buffer_)
    BY <2>2, SMTT(30)
  <2>5. r.buf \in Seq(Byte) /\ Len(r.buf) = Len(buffer_)
    <3>1. Len(buffer_) \in Nat /\ buffer_ \in [1 .. Len(buffer_) -> Byte]
      OBVIOUS
    <3>2. r.buf \in [1 .. Len(buffer_) -> Byte]
      BY <2>3, <2>4, <3>1
    <3> QED  BY <3>1, <3>2, VectorOf
  <2>6. ASSUME NEW i \in 1 .. CanReadSize
        PROVE  r.buf[r.read + i] = buffer_[read_index_ + i]
    <3>n. /\ i \in Nat /\ 1 <= i /\ i <= CanReadSize
          /\ CanReadSize \in Nat /\ read_index_ \in Nat
          /\ kPrePendIndex \in Nat
      OBVIOUS
    <3>1. kPrePendIndex + i \in 1 .. Len(buffer_)
      BY <2>2, <3>n
    <3>2. kPrePendIndex + i
            \in kPrePendIndex + 1 .. kPrePendIndex + CanReadSize
      BY <3>n
    <3>3. read_index_ + (kPrePendIndex + i) - kPrePendIndex = read_index_ + i
      BY <3>n
    <3> QED  BY <2>3, <3>1, <3>2, <3>3
  <2> QED  BY <2>2, <2>3, <2>5, <2>6
<1>3. CASE /\ ~ (CanWriteSize >= len)
           /\ ~ (CanWriteSize + PrependSize >= kPrePendIndex + len)
  <2>1. r = Resized(len)
    BY <1>3 DEF EnsureCanAppend
  <2>2. /\ r.read = read_index_
        /\ r.write = write_index_
        /\ r.buf = [i \in 1 .. write_index_ + len |->
                      IF i <= Len(buffer_) THEN buffer_[i] ELSE Zero]
    BY <2>1 DEF Resized
  <2>3. r.buf \in Seq(Byte) /\ Len(r.buf) = write_index_ + len
    <3>1. ASSUME NEW i \in 1 .. write_index_ + len
          PROVE  (IF i <= Len(buffer_) THEN buffer_[i] ELSE Zero) \in Byte
      BY BufferAssumption
    <3>2. write_index_ + len \in Nat
      OBVIOUS
    <3>3. r.buf \in [1 .. write_index_ + len -> Byte]
      BY <2>2, <3>1
    <3> QED  BY <3>2, <3>3, VectorOf
  <2>4. ASSUME NEW i \in 1 .. CanReadSize
        PROVE  r.buf[r.read + i] = buffer_[read_index_ + i]
    <3>1. /\ read_index_ + i \in 1 .. write_index_ + len
          /\ read_index_ + i <= Len(buffer_)
      OBVIOUS
    <3> QED  BY <2>2, <3>1
  <2> QED  BY <2>2, <2>3, <2>4 DEF EmptyIsRewound, CanReadSize
<1> QED  BY <1>1, <1>2, <1>3

(* An append keeps the invariant, and puts the message after the readable   *)
(* bytes.                                                                   *)
LEMMA AppendStep ==
  ASSUME BufferInv, NEW m \in Message, AppendMessage(m)
  PROVE  BufferInv' /\ Readable' = Readable \o m
<1> USE BufferAssumption
<1>m. m \in Seq(Byte) /\ Len(m) \in Nat
  OBVIOUS
<1> DEFINE r == EnsureCanAppend(Len(m))
<1>r. /\ r.buf \in Seq(Byte)
      /\ r.read \in Nat
      /\ r.write \in Nat
      /\ kPrePendIndex <= r.read
      /\ r.write + Len(m) <= Len(r.buf)
      /\ r.write - r.read = CanReadSize
      /\ CanReadSize = 0 => r.read = kPrePendIndex
      /\ \A i \in 1 .. CanReadSize :
           r.buf[r.read + i] = buffer_[read_index_ + i]
  BY <1>m, Ensured
<1>a. /\ buffer_' = [i \in 1 .. Len(r.buf) |->
                       IF i \in r.write + 1 .. r.write + Len(m)
                       THEN m[i - r.write]
                       ELSE r.buf[i]]
      /\ read_index_' = r.read
      /\ write_index_' = r.write + Len(m)
      /\ result' = result
  BY DEF AppendMessage
<1>n. CanReadSize \in Nat
  BY Sizes
<1> HIDE DEF r
<1>1. buffer_' \in Seq(Byte) /\ Len(buffer_') = Len(r.buf)
  <2>1. ASSUME NEW i \in 1 .. Len(r.buf)
        PROVE  (IF i \in r.write + 1 .. r.write + Len(m)
                THEN m[i - r.write]
                ELSE r.buf[i]) \in Byte
    BY <1>r, <1>m
  <2> QED  BY <2>1, <1>a, <1>r
<1>2. TypeOK'
  BY <1>1, <1>a, <1>r, <1>m DEF TypeOK, BufferInv
<1>3. IndicesInside' /\ EmptyIsRewound'
  BY <1>1, <1>a, <1>r, <1>m, <1>n DEF IndicesInside, EmptyIsRewound
<1>4. CanReadSize' = CanReadSize + Len(m)
  BY <1>a, <1>r, <1>m, <1>n DEF CanReadSize
<1>5. \A k \in 1 .. Len(r.buf) :
        buffer_'[k] = IF k \in r.write + 1 .. r.write + Len(m)
                      THEN m[k - r.write]
                      ELSE r.buf[k]
  BY <1>a
<1>6. /\ Readable \in Seq(Byte)
      /\ Len(Readable) = CanReadSize
      /\ \A i \in 1 .. CanReadSize : Readable[i] = buffer_[read_index_ + i]
  BY <1>n, Sizes DEF Readable, BufferInv, TypeOK, IndicesInside
<1>7. /\ Readable' \in Seq(Byte)
      /\ Len(Readable') = CanReadSize + Len(m)
      /\ \A i \in 1 .. CanReadSize + Len(m) :
           Readable'[i] = buffer_'[r.read + i]
  <2>1. Readable' = [i \in 1 .. CanReadSize + Len(m) |->
                       buffer_'[r.read + i]]
    BY <1>4, <1>a DEF Readable
  <2>2. ASSUME NEW i \in 1 .. CanReadSize + Len(m)
        PROVE  buffer_'[r.read + i] \in Byte
    <3>1. r.read + i \in 1 .. Len(buffer_')
      BY <1>1, <1>r, <1>m, <1>n, SMTT(30)
    <3> QED  BY <3>1, <1>1, ElementOfSeq
  <2> QED  BY <2>1, <2>2, <1>m, <1>n
<1>8. ASSUME NEW i \in 1 .. CanReadSize + Len(m)
      PROVE  buffer_'[r.read + i] = (Readable \o m)[i]
  <2>1. /\ i \in Nat /\ 1 <= i /\ i <= CanReadSize + Len(m)
        /\ r.read \in Nat /\ r.write \in Nat
        /\ r.write = r.read + CanReadSize
    BY <1>r, <1>m, <1>n
  <2>0. r.read + i \in 1 .. Len(r.buf)
    <3>1. Len(r.buf) \in Nat
      BY <1>r
    <3> QED  BY <2>1, <3>1, <1>r, <1>m, <1>n, SMTT(30)
  <2>2. (Readable \o m)[i] = IF i <= CanReadSize THEN Readable[i]
                                                 ELSE m[i - CanReadSize]
    BY <1>6, <1>m, ConcatProperties
  <2>3. CASE i <= CanReadSize
    <3>1. r.read + i \notin r.write + 1 .. r.write + Len(m)
      BY <2>1, <2>3, <1>m, <1>n
    <3>2. buffer_'[r.read + i] = r.buf[r.read + i]
      BY <3>1, <2>0, <1>5
    <3>3. i \in 1 .. CanReadSize
      BY <2>1, <2>3, <1>n
    <3>4. r.buf[r.read + i] = Readable[i]
      BY <3>3, <1>r, <1>6
    <3> QED  BY <3>2, <3>4, <2>2, <2>3
  <2>4. CASE ~ (i <= CanReadSize)
    <3>1. r.read + i \in r.write + 1 .. r.write + Len(m)
      BY <2>1, <2>4, <1>m, <1>n
    <3>2. r.read + i - r.write = i - CanReadSize
      BY <2>1, <1>n
    <3>3. PICK k : k = r.read + i
      OBVIOUS
    <3>4. buffer_'[k] = m[k - r.write]
      BY <3>1, <3>3, <2>0, <1>5, Zenon
    <3>5. buffer_'[r.read + i] = m[i - CanReadSize]
      <4>1. k - r.write = i - CanReadSize
        BY <3>3, <2>1, <1>n
      <4>2. buffer_'[k] = m[i - CanReadSize]
        BY <4>1, <3>4, Zenon
      <4> QED  BY <4>2, <3>3, Zenon
    <3>6. (Readable \o m)[i] = m[i - CanReadSize]
      BY <2>2, <2>4, Zenon
    <3> QED  BY <3>5, <3>6, Zenon
  <2> QED  BY <2>3, <2>4
<1>9. Readable' = Readable \o m
  <2> DEFINE s == Readable'
             t == Readable \o m
  <2>1. /\ t \in Seq(Byte)
        /\ Len(t) = CanReadSize + Len(m)
    BY <1>6, <1>m, ConcatProperties
  <2>2. \A i \in 1 .. Len(s) : s[i] = t[i]
    BY <1>7, <1>8
  <2>3. /\ s \in Seq(Byte)
        /\ Len(s) = Len(t)
    BY <2>1, <1>7
  <2> HIDE DEF s, t
  <2>4. s = t
    BY <2>1, <2>2, <2>3, SeqEqual
  <2> QED  BY <2>4 DEF s, t
<1> QED  BY <1>2, <1>3, <1>9 DEF BufferInv

(* A Retrieve of n bytes keeps the invariant and drops the first n.         *)
LEMMA RetrieveStep ==
  ASSUME BufferInv, NEW n \in 0 .. CanReadSize, Retrieve(n),
         buffer_' = buffer_, result' \in Seq(Byte)
  PROVE  BufferInv' /\ Readable' = SubSeq(Readable, n + 1, CanReadSize)
<1> USE BufferAssumption, Sizes
<1>1. CASE CanReadSize > n /\ read_index_' = read_index_ + n
           /\ write_index_' = write_index_
  <2>1. BufferInv'
    BY <1>1 DEF BufferInv, TypeOK, IndicesInside, EmptyIsRewound, CanReadSize
  <2>2. CanReadSize' = CanReadSize - n
    BY <1>1 DEF CanReadSize, BufferInv, TypeOK
  <2>3. Readable' = [i \in 1 .. CanReadSize - n |-> buffer_[read_index_ + n + i]]
    BY <1>1, <2>2 DEF Readable
  <2>4. SubSeq(Readable, n + 1, CanReadSize)
          = [i \in 1 .. CanReadSize - n |-> buffer_[read_index_ + n + i]]
    BY SMTT(30) DEF Readable, BufferInv, TypeOK, IndicesInside
  <2> QED  BY <2>1, <2>3, <2>4
<1>2. CASE CanReadSize <= n /\ RetrieveAll
  <2>1. BufferInv'
    BY <1>2 DEF RetrieveAll, BufferInv, TypeOK, IndicesInside, EmptyIsRewound
  <2>2. CanReadSize' = 0 /\ n = CanReadSize
    BY <1>2 DEF RetrieveAll, CanReadSize
  <2>3. Readable' = <<>>
    BY <2>2 DEF Readable
  <2>4. SubSeq(Readable, n + 1, CanReadSize) = <<>>
    BY <2>2
  <2> QED  BY <2>1, <2>3, <2>4
<1> QED  BY <1>1, <1>2 DEF Retrieve

(* What Peek_s returns: the first n bytes. *)
LEMMA PeekedBytes ==
  ASSUME BufferInv, NEW n \in 0 .. CanReadSize
  PROVE  /\ [i \in 1 .. n |-> buffer_[read_index_ + i]]
              = SubSeq(Readable, 1, n)
         /\ [i \in 1 .. n |-> buffer_[read_index_ + i]] \in Seq(Byte)
         /\ Len(Readable) = CanReadSize
BY BufferAssumption, Sizes DEF Readable, BufferInv, TypeOK, IndicesInside

(* Every step keeps the invariant and is a step of the queue. *)
LEMMA BufferStep ==
  ASSUME BufferInv, Next
  PROVE  BufferInv' /\ Queue!Next
<1>1. CASE \E m \in Message : AppendMessage(m)
  <2>1. PICK m \in Message : AppendMessage(m)
    BY <1>1
  <2>2. BufferInv' /\ Readable' = Readable \o m
    BY <2>1, AppendStep
  <2>3. Queue!Put(m)
    BY <2>1, <2>2 DEF Queue!Put, AppendMessage
  <2> QED  BY <2>2, <2>3 DEF Queue!Next
<1>2. CASE \E len \in 0 .. CanReadSize : Peek_s(len)
  <2>1. PICK n \in 0 .. CanReadSize : Peek_s(n)
    BY <1>2
  <2>2. /\ result' = SubSeq(Readable, 1, n)
        /\ result' \in Seq(Byte)
        /\ Len(Readable) = CanReadSize
        /\ UNCHANGED <<buffer_, read_index_, write_index_>>
    BY <2>1, PeekedBytes DEF Peek_s
  <2>3. Readable' = Readable
    BY <2>2 DEF Readable, CanReadSize
  <2>4. BufferInv'
    BY <2>2 DEF BufferInv, TypeOK, IndicesInside, EmptyIsRewound
  <2>5. Queue!Peek(n) /\ n \in 0 .. Len(Readable)
    BY <2>1, <2>2, <2>3, Sizes DEF Queue!Peek
  <2> QED  BY <2>4, <2>5 DEF Queue!Next
<1>3. CASE \E len \in 0 .. CanReadSize : Retrieve_s(len)
  <2>1. PICK n \in 0 .. CanReadSize : Retrieve_s(n)
    BY <1>3
  <2>2. /\ result' = SubSeq(Readable, 1, n)
        /\ result' \in Seq(Byte)
        /\ Len(Readable) = CanReadSize
        /\ buffer_' = buffer_
        /\ Retrieve(n)
    BY <2>1, PeekedBytes DEF Retrieve_s
  <2>3. BufferInv' /\ Readable' = SubSeq(Readable, n + 1, CanReadSize)
    BY <2>2, RetrieveStep
  <2>4. Queue!Take(n) /\ n \in 0 .. Len(Readable)
    BY <2>1, <2>2, <2>3, Sizes DEF Queue!Take
  <2> QED  BY <2>3, <2>4 DEF Queue!Next
<1>4. CASE Clear_s
  <2>1. BufferInv'
    BY <1>4, BufferAssumption
       DEF Clear_s, RetrieveAll, BufferInv, TypeOK, IndicesInside,
           EmptyIsRewound
  <2>2. CanReadSize' = 0
    BY <1>4, BufferAssumption DEF Clear_s, RetrieveAll, CanReadSize
  <2>3. Readable' = <<>>
    BY <2>2 DEF Readable
  <2>4. Queue!Clear
    BY <1>4, <2>3 DEF Clear_s, Queue!Clear
  <2> QED  BY <2>1, <2>4 DEF Queue!Next
<1> QED  BY <1>1, <1>2, <1>3, <1>4 DEF Next

(* A new buffer is an empty queue. *)
LEMMA BufferInit == Init => BufferInv /\ Queue!Init
<1> SUFFICES ASSUME Init PROVE BufferInv /\ Queue!Init
  OBVIOUS
<1> USE BufferAssumption DEF Init
<1>1. buffer_ \in Seq(Byte) /\ Len(buffer_) = kInitalSize
  OBVIOUS
<1>2. BufferInv
  BY <1>1 DEF BufferInv, TypeOK, IndicesInside, EmptyIsRewound
<1>3. Readable = <<>>
  BY DEF Readable, CanReadSize
<1> QED  BY <1>2, <1>3 DEF Queue!Init

(* A step that changes nothing changes nothing of the queue either. *)
LEMMA Stutter ==
  ASSUME BufferInv, UNCHANGED vars
  PROVE  BufferInv' /\ UNCHANGED <<Readable, result>>
BY DEF vars, BufferInv, TypeOK, IndicesInside, EmptyIsRewound, Readable,
       CanReadSize

(* In every reachable state the indices bound the readable bytes inside the *)
(* vector and an emptied buffer has its room back (Buffer.cpp:74-126).      *)
THEOREM BufferCorrect == Spec => []BufferInv
<1>1. Init => BufferInv
  BY BufferInit
<1>2. BufferInv /\ [Next]_vars => BufferInv'
  BY BufferStep, Stutter
<1> QED  BY <1>1, <1>2, PTL DEF Spec

(* No access through the indices leaves the vector. *)
THEOREM AccessInside == Spec => []IndicesInside
<1>1. BufferInv => IndicesInside
  BY DEF BufferInv
<1> QED  BY <1>1, BufferCorrect, PTL

(* A buffer read empty is as good as new. *)
THEOREM Rewound == Spec => []EmptyIsRewound
<1>1. BufferInv => EmptyIsRewound
  BY DEF BufferInv
<1> QED  BY <1>1, BufferCorrect, PTL

(* The vector grows only when moving the bytes would not make room. *)
THEOREM NeverGrowsEarly == Spec => GrowsWhenFull
<1> DEFINE A == Len(buffer_') # Len(buffer_)
                  => /\ Len(buffer_') > Len(buffer_)
                     /\ kPrePendIndex + (write_index_' - read_index_')
                          > Len(buffer_)
<1>1. BufferInv /\ [Next]_vars => [A]_vars
  <2> SUFFICES ASSUME BufferInv, Next, Len(buffer_') # Len(buffer_)
               PROVE  /\ Len(buffer_') > Len(buffer_)
                      /\ kPrePendIndex + (write_index_' - read_index_')
                           > Len(buffer_)
    BY DEF vars
  <2>1. PICK m \in Message : AppendMessage(m)
    BY DEF Next, Peek_s, Retrieve_s, Clear_s
  <2> DEFINE len == Len(m)
             r   == EnsureCanAppend(len)
  <2>2. len \in Nat
    BY BufferAssumption
  <2>3. /\ r.buf \in Seq(Byte)
        /\ Len(buffer_') = Len(r.buf)
        /\ read_index_' = r.read
        /\ write_index_' = r.write + len
    <3>1. r.buf \in Seq(Byte)
      BY <2>2, Ensured
    <3>2. Len(buffer_') = Len(r.buf)
      BY <2>1, <3>1 DEF AppendMessage
    <3> QED  BY <2>1, <3>1, <3>2 DEF AppendMessage
  <2>4. Len(Moved.buf) = Len(buffer_)
    BY Sizes DEF Moved
  <2>5. /\ ~ (CanWriteSize >= len)
        /\ ~ (CanWriteSize + PrependSize >= kPrePendIndex + len)
        /\ r = Resized(len)
    BY <2>3, <2>4 DEF EnsureCanAppend
  <2>6. /\ r.read = read_index_
        /\ r.write = write_index_
        /\ Len(r.buf) = write_index_ + len
    BY <2>2, <2>5, Sizes, BufferAssumption DEF Resized, BufferInv, TypeOK
  <2> QED
    BY <2>2, <2>3, <2>5, <2>6, Sizes, BufferAssumption, SMTT(30)
       DEF PrependSize, BufferInv, TypeOK
<1> QED  BY <1>1, BufferCorrect, PTL DEF Spec, GrowsWhenFull

(* Bytes come out in the order they went in, none lost and none twice,      *)
(* whatever moves and growths happen between.                               *)
THEOREM ImplementsQueue == Spec => QueueSpec
<1>1. Init => Queue!Init
  BY BufferInit
<1>2. BufferInv /\ [Next]_vars => [Queue!Next]_<<Readable, result>>
  BY BufferStep, Stutter
<1> QED  BY <1>1, <1>2, BufferCorrect, PTL DEF Spec, QueueSpec, Queue!Spec
=============================================================================
