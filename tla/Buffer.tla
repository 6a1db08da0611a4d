------------------------------- MODULE Buffer -------------------------------
(***************************************************************************)
(* Buffer.h / Buffer.cc: the byte buffer of a connection, as a record      *)
(*                                                                         *)
(*     mem            buffer_, the vector; byte k of the code is mem[k+1]  *)
(*     readerIndex_                                                        *)
(*     writerIndex_                                                        *)
(*     intact         FALSE once append has written past the vector's end  *)
(*                    (undefined behaviour: nothing is claimed after it)   *)
(*                                                                         *)
(* and the member functions as operators that return the record after the  *)
(* call.  Bytes are abstract values; Zero is what resize() fills with.     *)
(***************************************************************************)
EXTENDS Integers, Sequences

CONSTANTS
    KCheapPrend,        \* bytes kept free in front of the data (8)
    kInitialSize,       \* initial room for data (1024)
    ExtraBuf,           \* sizeof extrabuf, the stack buffer of readFd (65536)
    Byte,               \* byte values
    Zero                \* the byte 0

ASSUME BufferAssumption ==
    /\ KCheapPrend \in Nat
    /\ kInitialSize \in Nat
    /\ ExtraBuf \in Nat
    /\ Zero \in Byte

NewBuffer ==
    [mem          |-> [i \in 1 .. KCheapPrend + kInitialSize |-> Zero],
     readerIndex_ |-> KCheapPrend,
     writerIndex_ |-> KCheapPrend,
     intact       |-> TRUE]

readableBytes(b) == b.writerIndex_ - b.readerIndex_

writableBytes(b) == Len(b.mem) - b.writerIndex_

prependableBytes(b) == b.readerIndex_

\* The readable bytes: readableBytes() of them, from peek() on.
Readable(b) == [i \in 1 .. readableBytes(b) |-> b.mem[b.readerIndex_ + i]]

\* Mutant: the reader index is put back and the writer index is not.
MutantRetrieveAll(b) == [b EXCEPT !.readerIndex_ = KCheapPrend]

retrieveAll(b) ==
    [b EXCEPT !.readerIndex_ = KCheapPrend, !.writerIndex_ = KCheapPrend]

\* Mutant: more than is readable may be retrieved.
MutantRetrieve(b, len) == [b EXCEPT !.readerIndex_ = @ + len]

retrieve(b, len) ==
    IF len < readableBytes(b)
    THEN [b EXCEPT !.readerIndex_ = @ + len]
    ELSE retrieveAll(b)

\* buffer_.resize(n), n not below the present size.
Resized(mem, n) == [i \in 1 .. n |-> IF i <= Len(mem) THEN mem[i] ELSE Zero]

\* std::copy of data to begin() + at, as far as the vector reaches.
CopiedTo(mem, at, data) ==
    [i \in 1 .. Len(mem) |->
        IF at < i /\ i <= at + Len(data) THEN data[i - at] ELSE mem[i]]

\* Mutant: the reserve in front is counted as room.
MutantMustGrow(b, len) == writableBytes(b) + prependableBytes(b) < len

\* The test of makeSpace: even with the free space in front, too little room.
MustGrow(b, len) == writableBytes(b) + prependableBytes(b) < len + KCheapPrend

\* Mutant: = where the code has +=.
MutantMovedWriterIndex(b, len) == len - readableBytes(b)

\* writerIndex_ += len - readable.  The sum is never negative, so that size_t
\* arithmetic gives what integers give.
MovedWriterIndex(b, len) == b.writerIndex_ + (len - readableBytes(b))

\* Grow the vector, or move the readable bytes to the front.
makeSpace(b, len) ==
    IF MustGrow(b, len)
    THEN [b EXCEPT !.mem = Resized(b.mem, b.writerIndex_ + len)]
    ELSE [b EXCEPT !.mem = CopiedTo(b.mem, KCheapPrend, Readable(b)),
                   !.readerIndex_ = KCheapPrend,
                   !.writerIndex_ = MovedWriterIndex(b, len)]

\* Mutant: one byte too many is taken to fit.
MutantNeedsSpace(b, len) == writableBytes(b) + 1 < len

NeedsSpace(b, len) == writableBytes(b) < len

ensureWritableBytes(b, len) ==
    IF NeedsSpace(b, len) THEN makeSpace(b, len) ELSE b

append(b, data) ==
    LET e == ensureWritableBytes(b, Len(data))
    IN  [e EXCEPT !.mem = CopiedTo(e.mem, e.writerIndex_, data),
                  !.writerIndex_ = @ + Len(data),
                  !.intact = @ /\ e.writerIndex_ + Len(data) <= Len(e.mem)]

\* The most one readv can return: the writable part, and the stack buffer too
\* unless the writable part is at least as large.
readFdLimit(b) ==
    IF writableBytes(b) < ExtraBuf THEN writableBytes(b) + ExtraBuf ELSE writableBytes(b)

\* readFd when readv returns data, at most readFdLimit(b) bytes of it.  What
\* exceeds the writable part is in extrabuf and is appended.
readFd(b, data) ==
    LET writable == writableBytes(b)
        filled(k) == [b EXCEPT !.mem = CopiedTo(b.mem, b.writerIndex_, SubSeq(data, 1, k)),
                               !.writerIndex_ = @ + k]
    IN  IF Len(data) <= writable
        THEN filled(Len(data))
        ELSE append(filled(writable), SubSeq(data, writable + 1, Len(data)))

\* True when an append of len bytes takes makeSpace's second branch.
Compacts(b, len) == NeedsSpace(b, len) /\ ~MustGrow(b, len)

\* The same for a readFd of len bytes.
ReadCompacts(b, len) ==
    /\ len > writableBytes(b)
    /\ LET full == [b EXCEPT !.writerIndex_ = Len(b.mem)]
       IN  Compacts(full, len - writableBytes(b))

=============================================================================
