---------------------------- MODULE BufferProofs ----------------------------
(***************************************************************************)
(* Proofs about Buffer and its client, for every reserve, initial size and *)
(* stack buffer: the indices never cross, and until makeSpace moves the    *)
(* data the buffer is an in-bounds FIFO of bytes.                          *)
(***************************************************************************)
EXTENDS BufferClient, BufferLemmas

(***************************************************************************)
(* The inductive invariant: the properties, and that writerIndex_ is       *)
(* within the vector as long as no write overran it, moved data or not.    *)
(***************************************************************************)
BInv ==
    /\ TypeOK
    /\ IndicesOrdered
    /\ buffer.intact => buffer.writerIndex_ <= Len(buffer.mem)
    /\ ~compacted => buffer.intact /\ Readable(buffer) = stream

\* What is appended or read at once is a sequence of bytes.
LEMMA ChunkIsSeq == \A data \in Chunks : data \in Seq(Byte)
BY DEF Chunks

\* A new buffer is empty, in bounds and in order.
LEMMA BInvInit == Init => BInv
<1> SUFFICES ASSUME Init PROVE BInv
  OBVIOUS
<1>0. KCheapPrend \in Nat /\ kInitialSize \in Nat /\ Zero \in Byte
  BY BufferAssumption
<1> DEFINE m == [i \in 1 .. KCheapPrend + kInitialSize |-> Zero]
<1>1. m \in Seq(Byte) /\ Len(m) = KCheapPrend + kInitialSize
  BY <1>0
<1>2. buffer = [mem |-> m, readerIndex_ |-> KCheapPrend, writerIndex_ |-> KCheapPrend,
                intact |-> TRUE]
  BY DEF Init, NewBuffer
<1> HIDE DEF m
<1>3. stream = <<>> /\ compacted = FALSE /\ stream \in Seq(Byte)
  BY EmptySeq DEF Init
<1>4. TypeOK
  BY <1>0, <1>1, <1>2, <1>3 DEF TypeOK
<1>5. IndicesOrdered
  BY <1>0, <1>2 DEF IndicesOrdered
<1>6. buffer.writerIndex_ <= Len(buffer.mem) /\ buffer.intact
  BY <1>0, <1>1, <1>2
<1>7. Sound(buffer)
  BY <1>4, <1>5, <1>6 DEF Sound, Ordered, BufferType, TypeOK, IndicesOrdered
<1>8. Readable(buffer) = stream
  <2>1. Readable(buffer) \in Seq(Byte) /\ Len(Readable(buffer)) = 0
    BY <1>0, <1>2, <1>7, ReadableProperties
  <2> QED
    BY <1>3, <2>1, EmptySeq
<1> QED
  BY <1>4, <1>5, <1>6, <1>8 DEF BInv

\* append, readFd and retrieve keep BInv.
LEMMA BInvNext == BInv /\ [Next]_vars => BInv'
<1> SUFFICES ASSUME BInv, [Next]_vars PROVE BInv'
  OBVIOUS
<1>0. buffer \in BufferType /\ stream \in Seq(Byte) /\ compacted \in BOOLEAN
  BY DEF BInv, TypeOK, BufferType
<1>1. ASSUME buffer.intact PROVE Sound(buffer)
  BY <1>0, <1>1 DEF BInv, Sound, Ordered, IndicesOrdered
<1>2. ASSUME NEW data \in Chunks, AppendData(data) PROVE BInv'
  <2>0. data \in Seq(Byte) /\ Len(data) \in Nat /\ Sound(buffer)
    BY <1>1, <1>2, ChunkIsSeq, LenProperties DEF AppendData
  <2>1. /\ buffer' \in BufferType /\ Ordered(buffer')
        /\ buffer'.intact => buffer'.writerIndex_ <= Len(buffer'.mem)
    BY <1>2, <2>0, AppendSound DEF AppendData
  <2>2. stream' \in Seq(Byte)
    BY <1>0, <1>2, <2>0, ConcatProperties DEF AppendData
  <2>3. compacted' = (compacted \/ Compacts(buffer, Len(data)))
    BY <1>2 DEF AppendData
  <2>4. compacted' \in BOOLEAN
    BY <2>3
  <2>5. ASSUME ~compacted' PROVE buffer'.intact /\ Readable(buffer') = stream'
    <3>1. ~compacted /\ ~Compacts(buffer, Len(data))
      BY <2>3, <2>5
    <3> QED
      BY <1>2, <2>0, <3>1, AppendFifo DEF AppendData, BInv
  <2> QED
    BY <2>1, <2>2, <2>4, <2>5 DEF BInv, TypeOK, IndicesOrdered, Ordered, BufferType
<1>3. ASSUME NEW data \in Chunks, ReadFd(data) PROVE BInv'
  <2>0. data \in Seq(Byte) /\ Len(data) \in Nat /\ Sound(buffer) /\ buffer.intact
    BY <1>1, <1>3, ChunkIsSeq, LenProperties DEF ReadFd
  <2>1. /\ buffer' \in BufferType /\ Ordered(buffer')
        /\ buffer'.intact => buffer'.writerIndex_ <= Len(buffer'.mem)
    BY <1>3, <2>0, ReadFdFifo DEF ReadFd
  <2>2. stream' \in Seq(Byte)
    BY <1>0, <1>3, <2>0, ConcatProperties DEF ReadFd
  <2>3. compacted' = (compacted \/ ReadCompacts(buffer, Len(data)))
    BY <1>3 DEF ReadFd
  <2>4. compacted' \in BOOLEAN
    BY <2>3
  <2>5. ASSUME ~compacted' PROVE buffer'.intact /\ Readable(buffer') = stream'
    <3>1. ~compacted /\ ~ReadCompacts(buffer, Len(data))
      BY <2>3, <2>5
    <3> QED
      BY <1>3, <2>0, <3>1, ReadFdFifo DEF ReadFd, BInv
  <2> QED
    BY <2>1, <2>2, <2>4, <2>5 DEF BInv, TypeOK, IndicesOrdered, Ordered, BufferType
<1>4. ASSUME NEW len \in 0 .. MaxSize, Retrieve(len) PROVE BInv'
  <2>0. len \in Nat /\ Sound(buffer) /\ buffer.intact
    BY <1>1, <1>4, BoundsAssumption DEF Retrieve
  <2>1. LET s == Readable(buffer)
        IN  /\ Sound(buffer')
            /\ buffer'.intact = buffer.intact
            /\ Readable(buffer') = IF len < Len(s) THEN SubSeq(s, len + 1, Len(s)) ELSE <<>>
    BY <1>4, <2>0, RetrieveFifo DEF Retrieve
  <2>2. stream' \in Seq(Byte)
    <3>1. CASE len < Len(stream)
      <4>0. Len(stream) \in Nat /\ len <= Len(stream)
        BY <1>0, <2>0, <3>1, LenProperties
      <4> QED
        BY <1>0, <1>4, <2>0, <3>1, <4>0, CutChunk DEF Retrieve
    <3>2. CASE ~(len < Len(stream))
      BY <1>4, <3>2, EmptySeq DEF Retrieve
    <3> QED
      BY <3>1, <3>2
  <2>3. compacted' = compacted
    BY <1>4 DEF Retrieve
  <2>4. ~compacted => Readable(buffer') = stream'
    BY <1>4, <2>1 DEF Retrieve, BInv
  <2> QED
    BY <1>0, <2>0, <2>1, <2>2, <2>3, <2>4
       DEF BInv, TypeOK, IndicesOrdered, Ordered, BufferType, Sound
<1>5. CASE UNCHANGED vars
  BY <1>5 DEF vars, BInv, TypeOK, IndicesOrdered
<1> QED
  BY <1>2, <1>3, <1>4, <1>5 DEF Next

\* BInv holds in every state the client can reach.
LEMMA BInvAlways == Spec => []BInv
BY BInvInit, BInvNext, PTL DEF Spec

\* The vector keeps holding bytes and the indices numbers, also after an append
\* has overrun it.
THEOREM BufferTypeCorrect == Spec => []TypeOK
<1>1. BInv => TypeOK
  BY DEF BInv
<1> QED
  BY <1>1, BInvAlways, PTL

(***************************************************************************)
(* readableBytes() never wraps around: whatever sequence of appends, reads *)
(* and retrieves a connection makes, the indices of its buffer stay in     *)
(* order, even where makeSpace has miscounted writerIndex_.                *)
(***************************************************************************)
THEOREM IndicesStayOrdered == Spec => []IndicesOrdered
<1>1. BInv => IndicesOrdered
  BY DEF BInv
<1> QED
  BY <1>1, BInvAlways, PTL

(***************************************************************************)
(* Until makeSpace first moves the data, append and readFd write within    *)
(* the vector, for every reserve, initial size and stack buffer.           *)
(***************************************************************************)
THEOREM InBounds == Spec => []InBoundsUntilCompacted
<1>1. BInv => InBoundsUntilCompacted
  BY DEF BInv, InBoundsUntilCompacted
<1> QED
  BY <1>1, BInvAlways, PTL

(***************************************************************************)
(* Until makeSpace first moves the data, the buffer is a FIFO of bytes:    *)
(* readFd's read in two parts and the growing vector lose, repeat and      *)
(* reorder nothing.                                                        *)
(***************************************************************************)
THEOREM BufferIsFifo == Spec => []FifoUntilCompacted
<1>1. BInv => FifoUntilCompacted
  BY DEF BInv, FifoUntilCompacted
<1> QED
  BY <1>1, BInvAlways, PTL

(***************************************************************************)
(* makeSpace moves data only in a buffer from which a part has been        *)
(* retrieved, so a user that always takes everything never gets there.     *)
(***************************************************************************)
THEOREM OnlyPartialRetrievesCompact == Spec => CompactionNeedsPartialRetrieve
<1>1. ASSUME BInv, [Next]_vars
      PROVE  [compacted' /\ ~compacted => KCheapPrend < buffer.readerIndex_]_vars
  <2> SUFFICES ASSUME Next, compacted', ~compacted PROVE KCheapPrend < buffer.readerIndex_
    BY <1>1
  <2>0. Sound(buffer)
    BY <1>1 DEF BInv, TypeOK, IndicesOrdered, Sound, Ordered, BufferType
  <2>1. ASSUME NEW data \in Chunks, AppendData(data) PROVE KCheapPrend < buffer.readerIndex_
    <3>0. Len(data) \in Nat /\ KCheapPrend \in Nat
      BY ChunkIsSeq, LenProperties, BufferAssumption
    <3>1. Compacts(buffer, Len(data))
      BY <2>1 DEF AppendData
    <3> QED
      BY <2>0, <3>0, <3>1, SoundFields
         DEF Compacts, NeedsSpace, MustGrow, writableBytes, prependableBytes
  <2>2. ASSUME NEW data \in Chunks, ReadFd(data) PROVE KCheapPrend < buffer.readerIndex_
    <3> DEFINE full == [buffer EXCEPT !.writerIndex_ = Len(buffer.mem)]
               n == Len(data) - writableBytes(buffer)
    <3>0. Len(data) \in Nat /\ KCheapPrend \in Nat
      BY ChunkIsSeq, LenProperties, BufferAssumption
    <3>1. Compacts(full, n) /\ Len(data) > writableBytes(buffer)
      BY <2>2 DEF ReadFd, ReadCompacts
    <3>2. /\ full.mem = buffer.mem /\ full.readerIndex_ = buffer.readerIndex_
          /\ full.writerIndex_ = Len(buffer.mem)
      BY <2>0 DEF Sound, BufferType
    <3>3. n \in Nat
      BY <2>0, <3>0, <3>1, SoundFields DEF writableBytes
    <3> HIDE DEF full, n
    <3> QED
      BY <2>0, <3>0, <3>1, <3>2, <3>3, SoundFields
         DEF Compacts, NeedsSpace, MustGrow, writableBytes, prependableBytes
  <2>3. ASSUME NEW len \in 0 .. MaxSize, Retrieve(len) PROVE KCheapPrend < buffer.readerIndex_
    BY <2>3 DEF Retrieve
  <2> QED
    BY <2>1, <2>2, <2>3 DEF Next
<1> QED
  BY <1>1, BInvAlways, PTL DEF Spec, CompactionNeedsPartialRetrieve

=============================================================================
