--------------------------- MODULE MCBufferClient ---------------------------
(***************************************************************************)
(* BufferClient with a reserve of one byte, room for two and a stack       *)
(* buffer of two, chunks of up to two bytes over two values: every         *)
(* branch of makeSpace and of readFd is taken, also several times in a     *)
(* row, with the indices at their boundaries.                              *)
(***************************************************************************)
EXTENDS BufferClient

MCByte == 0 .. 1

=============================================================================
