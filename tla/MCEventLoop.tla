---------------------------- MODULE MCEventLoop ----------------------------
(***************************************************************************)
(* Two connections of one account, so that the one throws the other out,   *)
(* and two descriptors, which they share with the rest of the process: a   *)
(* client that waits while they are all taken, one that gets a descriptor  *)
(* the loop or another thread is not done with.                            *)
(***************************************************************************)
EXTENDS EventLoop

CONSTANTS c1, c2, acc1

Owners == [c \in Client |-> acc1]

=============================================================================
