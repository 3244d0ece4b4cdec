----------------------------- MODULE ByteQueue -----------------------------
(***************************************************************************)
(* What a Buffer promises: bytes come out in the order they were put in,   *)
(* none lost, none twice.                                                  *)
(***************************************************************************)
EXTENDS Naturals, Sequences

CONSTANTS Byte, Message

VARIABLES
  contents,  (* the bytes that were put in and not taken                   *)
  result     (* what the last call returned                                *)

Init == contents = <<>> /\ result = <<>>

Put(m) ==
  /\ contents' = contents \o m
  /\ UNCHANGED result

Peek(n) ==
  /\ n <= Len(contents)
  /\ result' = SubSeq(contents, 1, n)
  /\ UNCHANGED contents

Take(n) ==
  /\ n <= Len(contents)
  /\ result' = SubSeq(contents, 1, n)
  /\ contents' = SubSeq(contents, n + 1, Len(contents))

Clear ==
  /\ contents' = <<>>
  /\ UNCHANGED result

Next ==
  \/ \E m \in Message : Put(m)
  \/ \E n \in 0 .. Len(contents) : Peek(n) \/ Take(n)
  \/ Clear

Spec == Init /\ [][Next]_<<contents, result>>
=============================================================================
