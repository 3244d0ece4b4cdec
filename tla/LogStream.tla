----------------------------- MODULE LogStream -----------------------------
(***************************************************************************)
(* LogStream: a line is put together in a buffer of fixed size. A piece     *)
(* that does not fit is left out as a whole, and an integer already if      *)
(* there are fewer than kMaxNumericSize bytes, because its digits are       *)
(* written into the buffer itself.                                          *)
(***************************************************************************)
EXTENDS Integers, Sequences, SequencesExt

CONSTANTS
  MAX_STREAM_LEN,
  kMaxNumericSize

(* Who instantiates the module assumes it: the widest type has 64 bits.     *)
StreamAssumption ==
  /\ MAX_STREAM_LEN \in Nat
  /\ kMaxNumericSize \in Nat
  /\ 64 <= kMaxNumericSize

(* What is streamed, by the overloads of operator<<: a text by its length,  *)
(* an integer by its value and the width of its type in bits.               *)
Text(n)               == [kind |-> "text", length |-> n]
Integer(value, width) == [kind |-> "integer", value |-> value, width |-> width]

(* "true" and "false" *)
Bool(v) == Text(IF v THEN 4 ELSE 5)

(* A double, or a float, whose text by %g has n characters: snprintf has    *)
(* room for 63 of them, and writes nothing if it fails.                     *)
Double(n) == Text(IF n <= 0 THEN 0 ELSE IF n >= 64 THEN 63 ELSE n)

(* A char pointer that is null: "(null)".                                   *)
Null == Text(6)

PowerOfTwo[n \in Nat] == IF n = 0 THEN 1 ELSE 2 * PowerOfTwo[n - 1]

Smallest(width) == -PowerOfTwo[width - 1]

(* A type's values are those of its width, signed or not. *)
Piece ==
  [kind : {"text"}, length : Nat]
    \cup {p \in [kind : {"integer"}, value : Int, width : 2 .. 64] :
            p.value \in Smallest(p.width) .. PowerOfTwo[p.width] - 1}

-----------------------------------------------------------------------------
(* formatInteger. *)

(* The value as its type, which is signed if it is negated, holds it.       *)
Wrap(n, width) ==
  ((n - Smallest(width)) % PowerOfTwo[width]) + Smallest(width)

(* / and % of C++, which truncate. *)
Quotient(n)  == IF n >= 0 THEN n \div 10 ELSE -((-n) \div 10)
Remainder(n) == n - 10 * Quotient(n)

(* Mistake (IntegersRight): zero has no digit, while instead of do. *)
DigitsWhile(n) ==
  LET digits[m \in Int] ==
        IF m = 0 THEN <<>> ELSE <<Remainder(m)>> \o digits[Quotient(m)]
  IN  digits[n]

(* The last digit first, each as its distance from '0'. *)
Digits(n) ==
  LET digits[m \in Int] ==
        IF Quotient(m) = 0
          THEN <<Remainder(m)>>
          ELSE <<Remainder(m)>> \o digits[Quotient(m)]
  IN  digits[n]

(* Sign and digits as they stand in the line, after std::reverse. *)
FormatInteger(value, width) ==
  LET flag == value < 0
  IN  [minus  |-> flag,
       digits |-> Reverse(Digits(IF flag THEN Wrap(-value, width)
                                         ELSE value))]

-----------------------------------------------------------------------------
(* The line. *)

(* Its characters. *)
PieceLength(piece) ==
  IF piece.kind = "text"
    THEN piece.length
    ELSE LET text == FormatInteger(piece.value, piece.width)
         IN  Len(text.digits) + (IF text.minus THEN 1 ELSE 0)

(* Mistake (LineIsSound): digits go into the buffer whether it is full or   *)
(* not.                                                                     *)
RoomUnchecked(piece) == IF piece.kind = "text" THEN piece.length ELSE 0

(* What has to be free for a piece to be taken. *)
Room(piece) == IF piece.kind = "text" THEN piece.length ELSE kMaxNumericSize

(* operator<<: the length of the line behind a piece. *)
Appended(len, piece) ==
  IF MAX_STREAM_LEN - len >= Room(piece) THEN len + PieceLength(piece) ELSE len

(* A line put together from its pieces. *)
LineLength(pieces) ==
  LET length[i \in 0 .. Len(pieces)] ==
        IF i = 0 THEN 0 ELSE Appended(length[i - 1], pieces[i])
  IN  length[Len(pieces)]

-----------------------------------------------------------------------------
(* The number a reader sees, if what stands there are digits. *)
IsNumber(text) ==
  text.digits # <<>> /\ \A i \in DOMAIN text.digits : text.digits[i] \in 0 .. 9

NumberOf(text) ==
  LET magnitude[i \in 0 .. Len(text.digits)] ==
        IF i = 0 THEN 0 ELSE 10 * magnitude[i - 1] + text.digits[i]
      n == magnitude[Len(text.digits)]
  IN  IF text.minus THEN -n ELSE n

(* An integer is written so that it reads as itself, without leading zeros  *)
(* and within the room it asked for; all but the smallest of its type,      *)
(* whose magnitude the type does not have: what is written for it are not   *)
(* digits.                                                                  *)
WrittenRight(value, width) ==
  LET text == FormatInteger(value, width)
  IN  /\ Len(text.digits) + (IF text.minus THEN 1 ELSE 0) <= kMaxNumericSize
      /\ IF value = Smallest(width)
           THEN ~IsNumber(text)
           ELSE /\ IsNumber(text)
                /\ NumberOf(text) = value
                /\ Len(text.digits) > 1 => Head(text.digits) # 0
=============================================================================
