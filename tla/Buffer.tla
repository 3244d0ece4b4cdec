------------------------------- MODULE Buffer -------------------------------
(***************************************************************************)
(* Buffer (src/src/Buffer.cpp): a vector of bytes with a read and a write  *)
(* index. The bytes between them are readable; what is read leaves room in *)
(* front, which append reuses before it lets the vector grow.              *)
(*                                                                         *)
(* The vector is a sequence: byte number i of the code is buffer_[i + 1].  *)
(***************************************************************************)
EXTENDS Integers, Sequences

CONSTANTS
  Byte,           (* the values of a char                                  *)
  Zero,           (* '\0', what a vector fills new elements with           *)
  Message,        (* what callers append                                   *)
  MaxReadable,    (* bound: callers leave no more bytes unread             *)
  kPrePendIndex,
  kInitalSize

ASSUME BufferAssumption ==
  /\ Zero \in Byte
  /\ Message \subseteq Seq(Byte)
  /\ MaxReadable \in Nat
  /\ kPrePendIndex \in Nat
  /\ kInitalSize \in Nat
  /\ kPrePendIndex <= kInitalSize

VARIABLES
  buffer_,
  read_index_,
  write_index_,
  result        (* what the last call returned, or send took               *)

vars == <<buffer_, read_index_, write_index_, result>>

CanReadSize  == write_index_ - read_index_
CanWriteSize == Len(buffer_) - write_index_
PrependSize  == read_index_

(* What getString and PeekAll_s return. *)
Readable == [i \in 1 .. CanReadSize |-> buffer_[read_index_ + i]]

Init ==
  /\ buffer_ = [i \in 1 .. kInitalSize |-> Zero]
  /\ read_index_ = kPrePendIndex
  /\ write_index_ = kPrePendIndex
  /\ result = <<>>

(* Mistake (QueueSpec): the bytes are copied to the very front. *)
MovedOverPrepend ==
  [buf   |-> [i \in 1 .. Len(buffer_) |->
                IF i \in 1 .. CanReadSize
                THEN buffer_[read_index_ + i]
                ELSE buffer_[i]],
   read  |-> kPrePendIndex,
   write |-> kPrePendIndex + CanReadSize]

(* The readable bytes are copied to the front, after the prepend area. *)
Moved ==
  [buf   |-> [i \in 1 .. Len(buffer_) |->
                IF i \in kPrePendIndex + 1 .. kPrePendIndex + CanReadSize
                THEN buffer_[read_index_ + i - kPrePendIndex]
                ELSE buffer_[i]],
   read  |-> kPrePendIndex,
   write |-> kPrePendIndex + CanReadSize]

(* The vector is resized to end where the message will. *)
Resized(len) ==
  [buf   |-> [i \in 1 .. write_index_ + len |->
                IF i <= Len(buffer_) THEN buffer_[i] ELSE Zero],
   read  |-> read_index_,
   write |-> write_index_]

(* Mistake (IndicesInside): the prepend area counts as room. *)
EnsureCanAppendPrepend(len) ==
  IF CanWriteSize >= len
    THEN [buf |-> buffer_, read |-> read_index_, write |-> write_index_]
  ELSE IF CanWriteSize + PrependSize >= len
    THEN Moved
  ELSE Resized(len)

(* Mistake (GrowsWhenFull): it never moves. *)
EnsureCanAppendGrows(len) ==
  IF CanWriteSize >= len
    THEN [buf |-> buffer_, read |-> read_index_, write |-> write_index_]
  ELSE Resized(len)

EnsureCanAppend(len) ==
  IF CanWriteSize >= len
    THEN [buf |-> buffer_, read |-> read_index_, write |-> write_index_]
  ELSE IF CanWriteSize + PrependSize >= kPrePendIndex + len
    THEN Moved
  ELSE Resized(len)

AppendMessage(m) ==
  LET r == EnsureCanAppend(Len(m)) IN
  /\ CanReadSize + Len(m) <= MaxReadable
  /\ buffer_' = [i \in 1 .. Len(r.buf) |->
                   IF i \in r.write + 1 .. r.write + Len(m)
                   THEN m[i - r.write]
                   ELSE r.buf[i]]
  /\ read_index_' = r.read
  /\ write_index_' = r.write + Len(m)
  /\ UNCHANGED result

(* Peek_s; PeekAll_s and getString with everything. *)
Peek_s(len) ==
  /\ CanReadSize >= len
  /\ result' = [i \in 1 .. len |-> buffer_[read_index_ + i]]
  /\ UNCHANGED <<buffer_, read_index_, write_index_>>

RetrieveAll ==
  /\ read_index_' = kPrePendIndex
  /\ write_index_' = kPrePendIndex

(* Mistake (EmptyIsRewound): reading everything does not rewind. *)
RetrieveKeeps(len) ==
  \/ /\ CanReadSize >= len
     /\ read_index_' = read_index_ + len
     /\ UNCHANGED write_index_
  \/ /\ CanReadSize < len
     /\ RetrieveAll

Retrieve(len) ==
  \/ /\ CanReadSize > len
     /\ read_index_' = read_index_ + len
     /\ UNCHANGED write_index_
  \/ /\ CanReadSize <= len
     /\ RetrieveAll

(* Retrieve_s, and noBlockedSend: send copies len bytes from getChar_c,     *)
(* then Retrieve(len). The assertion on len is the caller's duty.           *)
Retrieve_s(len) ==
  /\ CanReadSize >= len
  /\ result' = [i \in 1 .. len |-> buffer_[read_index_ + i]]
  /\ Retrieve(len)
  /\ UNCHANGED buffer_

(* clear_s, in recv0 and after a complete send. *)
Clear_s ==
  /\ RetrieveAll
  /\ UNCHANGED <<buffer_, result>>

Next ==
  \/ \E m \in Message : AppendMessage(m)
  \/ \E len \in 0 .. CanReadSize : Peek_s(len) \/ Retrieve_s(len)
  \/ Clear_s

Spec == Init /\ [][Next]_vars

-----------------------------------------------------------------------------

(* Type invariant. *)
TypeOK ==
  /\ buffer_ \in Seq(Byte)
  /\ read_index_ \in Nat
  /\ write_index_ \in Nat
  /\ result \in Seq(Byte)

(* Every read and write through the indices stays inside the vector, and    *)
(* the prepend area stays free.                                             *)
IndicesInside ==
  /\ kPrePendIndex <= read_index_
  /\ read_index_ <= write_index_
  /\ write_index_ <= Len(buffer_)

(* A buffer that has been read empty has all its room back, however it was  *)
(* emptied.                                                                 *)
EmptyIsRewound == read_index_ = write_index_ => read_index_ = kPrePendIndex

(* The vector grows only when the bytes would not fit even after moving.    *)
GrowsWhenFull ==
  [][Len(buffer_') # Len(buffer_)
       => /\ Len(buffer_') > Len(buffer_)
          /\ kPrePendIndex + (write_index_' - read_index_') > Len(buffer_)]_vars

(* The buffer is a queue of bytes: moving and growing lose and reorder      *)
(* nothing.                                                                 *)
Queue == INSTANCE ByteQueue WITH contents <- Readable

QueueSpec == Queue!Spec
=============================================================================
