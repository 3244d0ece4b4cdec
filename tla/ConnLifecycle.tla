--------------------------- MODULE ConnLifecycle ---------------------------
(***************************************************************************)
(* What the server promises about connections and descriptors: a connection*)
(* is opened on a descriptor no other connection has, it is closed once,   *)
(* and only then is it reclaimed and its descriptor free again.            *)
(*                                                                         *)
(* The server is Reactor; this module says nothing of threads.             *)
(***************************************************************************)
CONSTANTS Conn, Fd, NoFd

VARIABLES
  status,  (* "none", "open", "closed" or "reclaimed"                      *)
  fd       (* its descriptor                                               *)

HasDescriptor(c) == status[c] \in {"open", "closed"}

Init ==
  /\ status = [c \in Conn |-> "none"]
  /\ fd = [c \in Conn |-> NoFd]

Open(c, f) ==
  /\ status[c] = "none"
  /\ \A d \in Conn : HasDescriptor(d) => fd[d] # f
  /\ status' = [status EXCEPT ![c] = "open"]
  /\ fd' = [fd EXCEPT ![c] = f]

Close(c) ==
  /\ status[c] = "open"
  /\ status' = [status EXCEPT ![c] = "closed"]
  /\ UNCHANGED fd

Reclaim(c) ==
  /\ status[c] = "closed"
  /\ status' = [status EXCEPT ![c] = "reclaimed"]
  /\ fd' = [fd EXCEPT ![c] = NoFd]

Next == \E c \in Conn : Close(c) \/ Reclaim(c) \/ \E f \in Fd : Open(c, f)

Spec == Init /\ [][Next]_<<status, fd>>
=============================================================================
