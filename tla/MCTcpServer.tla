---------------------------- MODULE MCTcpServer ----------------------------
(***************************************************************************)
(* TcpServer with up to two pool threads, so that one is running while the *)
(* next is started and one ended while the next is destroyed, and three    *)
(* clients, so that the round robin wraps, on two descriptors, so that the *)
(* third client waits for a close.                                         *)
(***************************************************************************)
EXTENDS TcpServer

MCOwner == {"owner"}
MCAnyThread == {"owner", "other"}

=============================================================================
