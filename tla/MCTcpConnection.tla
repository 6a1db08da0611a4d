-------------------------- MODULE MCTcpConnection --------------------------
(***************************************************************************)
(* TcpConnection with messages of two bytes, for each of three uses.       *)
(* Without other threads, one message, a kernel buffer of two bytes and a  *)
(* peer that sends: writes are complete or refused, and message callbacks  *)
(* send and shut down in the middle of a dispatch.  With sends from        *)
(* another thread, two messages and a buffer of one byte: writes are       *)
(* partial, the second message crosses the mark, and the kernel may have   *)
(* room again when it comes, with older bytes still waiting.  With a send  *)
(* and a shutdown from other threads, one message: it leaves a byte behind *)
(* that the shutdown has to wait for, or comes after a close that the      *)
(* shutdown undoes.  The output buffer starts with room for one message,   *)
(* so that makeSpace grows it; that it moves data takes a longer run, and  *)
(* is left to BufferClient.                                                *)
(***************************************************************************)
EXTENDS TcpConnection

MCLens == {2}
MCSndBuf == [calls \in CrossThread |-> IF calls = {} THEN 2 ELSE 1]
MCMaxSent == [calls \in CrossThread |-> IF calls = {"send"} THEN 4 ELSE 2]
MCMaxIn == [calls \in CrossThread |-> IF calls = {} THEN 1 ELSE 0]
MCByte == 0 .. 4

MCCrossThread == {{}, {"send"}, {"send", "shutdown"}}
MCSend == {{"send"}}
MCBoth == {{"send", "shutdown"}}
MCNone == {{}}

MCCallbacks == {"writeComplete", "highWater"}

=============================================================================
