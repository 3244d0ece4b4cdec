----------------------------- MODULE MCStartup ------------------------------
EXTENDS Startup

Stream == INSTANCE LogStream

Bytes ==
  <<-128, -127, -100, -99, -10, -9, -1, 0, 1, 9, 10, 99, 100, 127, 200, 255>>

(* Integers of small types, with their ends and every number of digits; one *)
(* of everything else; and a request whose url leaves none, one or much of  *)
(* the buffer to what follows it.                                           *)
MCMessage ==
  {[i \in DOMAIN Bytes |-> Stream!Integer(Bytes[i], 8)],
   <<Stream!Bool(TRUE), Stream!Bool(FALSE), Stream!Double(13), Stream!Null>>}
    \cup {<<Stream!Text(15), Stream!Integer(12, 16), Stream!Text(n)>> :
            n \in {4024, 4025, 4042}}
=============================================================================
