---------------------------- MODULE BufferClient ----------------------------
(***************************************************************************)
(* One Buffer and the calls a connection makes on it, in any order:        *)
(* append (sendInLoop), readFd (handleRead), retrieve (handleWrite) and    *)
(* retrieveAllAsString (a message callback).  stream is the reference: the *)
(* bytes put in and not yet taken out, oldest first.                       *)
(***************************************************************************)
EXTENDS Buffer

CONSTANTS
    MaxChunk,           \* bound: bytes in one append or one readv
    MaxSize             \* bound: bytes the vector, and the reference, may hold

ASSUME BoundsAssumption == MaxChunk \in Nat /\ MaxSize \in Nat

VARIABLES
    buffer,
    stream,
    compacted           \* history: makeSpace has moved the data to the front

vars == <<buffer, stream, compacted>>

Chunks == UNION {[1 .. n -> Byte] : n \in 0 .. MaxChunk}

Room(data) ==
    /\ Len(buffer.mem) + Len(data) <= MaxSize
    /\ Len(stream) + Len(data) <= MaxSize

Init ==
    /\ buffer = NewBuffer
    /\ stream = <<>>
    /\ compacted = FALSE

\* append(data, len).
AppendData(data) ==
    /\ buffer.intact
    /\ Room(data)
    /\ buffer' = append(buffer, data)
    /\ stream' = stream \o data
    /\ compacted' = (compacted \/ Compacts(buffer, Len(data)))

\* readFd, when readv returns data (no byte at all at the end of the stream).
ReadFd(data) ==
    /\ buffer.intact
    /\ Len(data) <= readFdLimit(buffer)
    /\ Room(data)
    /\ buffer' = readFd(buffer, data)
    /\ stream' = stream \o data
    /\ compacted' = (compacted \/ ReadCompacts(buffer, Len(data)))

\* retrieve(len); retrieveAsString(len) and retrieveAllAsString() are this
\* with len at most readableBytes(), returning the bytes they take.
Retrieve(len) ==
    /\ buffer.intact
    /\ buffer' = retrieve(buffer, len)
    /\ stream' = IF len < Len(stream) THEN SubSeq(stream, len + 1, Len(stream)) ELSE <<>>
    /\ UNCHANGED compacted

Next ==
    \/ \E data \in Chunks : AppendData(data) \/ ReadFd(data)
    \/ \E len \in 0 .. MaxSize : Retrieve(len)

Spec == Init /\ [][Next]_vars

-----------------------------------------------------------------------------
(* Properties.                                                             *)

\* The vector holds bytes, the indices are numbers.
TypeOK ==
    /\ buffer \in [mem : Seq(Byte), readerIndex_ : Nat, writerIndex_ : Nat, intact : BOOLEAN]
    /\ stream \in Seq(Byte)
    /\ compacted \in BOOLEAN

(***************************************************************************)
(* The indices stay in order, in every execution: the data starts behind   *)
(* the reserved front and does not end before it starts, so that           *)
(* readableBytes() never wraps around below zero.                          *)
(***************************************************************************)
IndicesOrdered ==
    /\ KCheapPrend <= buffer.readerIndex_
    /\ buffer.readerIndex_ <= buffer.writerIndex_

(***************************************************************************)
(* As long as makeSpace only grows the vector, no write goes past its end, *)
(* through append, readFd's two-part read and the reset of retrieve alike. *)
(***************************************************************************)
InBoundsUntilCompacted ==
    ~compacted => buffer.intact /\ buffer.writerIndex_ <= Len(buffer.mem)

(***************************************************************************)
(* As long as makeSpace only grows the vector, the readable bytes are the  *)
(* bytes put in and not taken out, in order.                               *)
(***************************************************************************)
FifoUntilCompacted == ~compacted => Readable(buffer) = stream

(***************************************************************************)
(* makeSpace moves the data only when part of it has been retrieved and    *)
(* part has not: a buffer that is always emptied in one go (the input      *)
(* buffer of a server whose callback takes everything) only ever grows.    *)
(***************************************************************************)
CompactionNeedsPartialRetrieve ==
    [][compacted' /\ ~compacted => KCheapPrend < buffer.readerIndex_]_vars

(***************************************************************************)
(* append adds the data behind the readable bytes ("[data, data + len] is  *)
(* added to writable()").  Violated: after makeSpace has moved the data to *)
(* the front, writerIndex_ is not the end of the moved data.               *)
(***************************************************************************)
AppendAddsToReadable == buffer.intact /\ Readable(buffer) = stream

=============================================================================
