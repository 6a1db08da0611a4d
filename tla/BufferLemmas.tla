---------------------------- MODULE BufferLemmas ----------------------------
(***************************************************************************)
(* What the member functions of Buffer do to its indices and its readable  *)
(* bytes, for every reserve, initial size and stack buffer.  The proofs    *)
(* about the buffer's client and about the connection rest on it.          *)
(***************************************************************************)
EXTENDS Buffer, SequenceTheorems, TLAPS

BufferType ==
    [mem : Seq(Byte), readerIndex_ : Nat, writerIndex_ : Nat, intact : BOOLEAN]

Ordered(b) == KCheapPrend <= b.readerIndex_ /\ b.readerIndex_ <= b.writerIndex_

\* What holds of a buffer between two calls, as long as no write overran it.
Sound(b) ==
    /\ b \in BufferType
    /\ Ordered(b)
    /\ b.writerIndex_ <= Len(b.mem)

-----------------------------------------------------------------------------
(* The operations on the vector.                                           *)

\* resize() gives a vector of the size asked for and keeps what was there.
LEMMA ResizedProperties ==
    ASSUME NEW mem \in Seq(Byte), NEW n \in Nat
    PROVE  /\ Resized(mem, n) \in Seq(Byte)
           /\ Len(Resized(mem, n)) = n
           /\ \A i \in 1 .. n : Resized(mem, n)[i] = IF i <= Len(mem) THEN mem[i] ELSE Zero
BY BufferAssumption DEF Resized

\* std::copy changes no size, and no byte outside its target.
LEMMA CopiedToProperties ==
    ASSUME NEW mem \in Seq(Byte), NEW at \in Nat, NEW data \in Seq(Byte)
    PROVE  /\ CopiedTo(mem, at, data) \in Seq(Byte)
           /\ Len(CopiedTo(mem, at, data)) = Len(mem)
           /\ \A i \in 1 .. Len(mem) : CopiedTo(mem, at, data)[i] =
                IF at < i /\ i <= at + Len(data) THEN data[i - at] ELSE mem[i]
BY DEF CopiedTo

\* The fields of a sound buffer.
LEMMA SoundFields ==
    ASSUME NEW b, Sound(b)
    PROVE  /\ b.mem \in Seq(Byte) /\ Len(b.mem) \in Nat
           /\ b.readerIndex_ \in Nat /\ b.writerIndex_ \in Nat
           /\ KCheapPrend <= b.readerIndex_
           /\ b.readerIndex_ <= b.writerIndex_
           /\ b.writerIndex_ <= Len(b.mem)
<1>1. b.mem \in Seq(Byte) /\ b.readerIndex_ \in Nat /\ b.writerIndex_ \in Nat
  BY DEF Sound, BufferType
<1>2. Len(b.mem) \in Nat
  BY <1>1, LenProperties
<1> QED
  BY <1>1, <1>2 DEF Sound, Ordered

\* The readable bytes of a sound buffer are a sequence of readableBytes() bytes.
LEMMA ReadableProperties ==
    ASSUME NEW b, Sound(b)
    PROVE  /\ Readable(b) \in Seq(Byte)
           /\ Len(Readable(b)) = b.writerIndex_ - b.readerIndex_
           /\ \A i \in 1 .. b.writerIndex_ - b.readerIndex_ :
                Readable(b)[i] = b.mem[b.readerIndex_ + i]
<1> DEFINE n == b.writerIndex_ - b.readerIndex_
<1>1. n \in Nat
  BY SoundFields
<1>2. \A i \in 1 .. n : b.readerIndex_ + i \in 1 .. Len(b.mem)
  BY SoundFields
<1>3. \A i \in 1 .. n : b.mem[b.readerIndex_ + i] \in Byte
  BY <1>2, SoundFields, ElementOfSeq
<1>4. Readable(b) = [i \in 1 .. n |-> b.mem[b.readerIndex_ + i]]
  BY DEF Readable, readableBytes
<1> HIDE DEF n
<1>5. Readable(b) \in Seq(Byte) /\ Len(Readable(b)) = n
  BY <1>1, <1>3, <1>4
<1>6. \A i \in 1 .. n : Readable(b)[i] = b.mem[b.readerIndex_ + i]
  BY <1>4
<1> QED
  BY <1>5, <1>6 DEF n

-----------------------------------------------------------------------------
(* ensureWritableBytes and append.                                         *)

\* makeSpace keeps the indices in order on either branch.
LEMMA EnsureWritableType ==
    ASSUME NEW b, Sound(b), NEW len \in Nat
    PROVE  LET e == ensureWritableBytes(b, len)
           IN  e \in BufferType /\ Ordered(e) /\ e.intact = b.intact
<1>0. b \in BufferType /\ Ordered(b)
  BY DEF Sound
<1>1. CASE ~NeedsSpace(b, len)
  BY <1>0, <1>1 DEF ensureWritableBytes
<1>2. CASE NeedsSpace(b, len) /\ MustGrow(b, len)
  <2>0. b.writerIndex_ + len \in Nat
    BY SoundFields
  <2>1. Resized(b.mem, b.writerIndex_ + len) \in Seq(Byte)
    BY <2>0, SoundFields, ResizedProperties
  <2>2. ensureWritableBytes(b, len) = [b EXCEPT !.mem = Resized(b.mem, b.writerIndex_ + len)]
    BY <1>2 DEF ensureWritableBytes, makeSpace
  <2> QED
    BY <1>0, <2>1, <2>2 DEF BufferType, Ordered
<1>3. CASE NeedsSpace(b, len) /\ ~MustGrow(b, len)
  <2>0. KCheapPrend \in Nat
    BY BufferAssumption
  <2>1. CopiedTo(b.mem, KCheapPrend, Readable(b)) \in Seq(Byte)
    BY <2>0, SoundFields, CopiedToProperties, ReadableProperties
  <2>2. /\ MovedWriterIndex(b, len) \in Nat
        /\ KCheapPrend <= MovedWriterIndex(b, len)
    BY <2>0, SoundFields DEF MovedWriterIndex, readableBytes
  <2>3. ensureWritableBytes(b, len) =
          [b EXCEPT !.mem = CopiedTo(b.mem, KCheapPrend, Readable(b)),
                    !.readerIndex_ = KCheapPrend,
                    !.writerIndex_ = MovedWriterIndex(b, len)]
    BY <1>3 DEF ensureWritableBytes, makeSpace
  <2>4. ensureWritableBytes(b, len) \in BufferType
    BY <1>0, <2>0, <2>1, <2>2, <2>3 DEF BufferType
  <2>5. Ordered(ensureWritableBytes(b, len))
    BY <1>0, <2>0, <2>2, <2>3 DEF Ordered, BufferType
  <2>6. ensureWritableBytes(b, len).intact = b.intact
    BY <1>0, <2>3 DEF BufferType
  <2> QED
    BY <2>4, <2>5, <2>6
<1> QED
  BY <1>1, <1>2, <1>3

\* When it does not move the data, ensureWritableBytes makes room for len bytes
\* and keeps every byte and both indices.
LEMMA EnsureWritableKeeps ==
    ASSUME NEW b, Sound(b), NEW len \in Nat, ~Compacts(b, len)
    PROVE  LET e == ensureWritableBytes(b, len)
           IN  /\ e.readerIndex_ = b.readerIndex_
               /\ e.writerIndex_ = b.writerIndex_
               /\ b.writerIndex_ + len <= Len(e.mem)
               /\ \A i \in 1 .. b.writerIndex_ : e.mem[i] = b.mem[i]
<1>1. CASE ~NeedsSpace(b, len)
  BY <1>1, SoundFields DEF ensureWritableBytes, NeedsSpace, writableBytes
<1>2. CASE NeedsSpace(b, len)
  <2> DEFINE m == Resized(b.mem, b.writerIndex_ + len)
  <2>1. ensureWritableBytes(b, len) = [b EXCEPT !.mem = m]
    BY <1>2 DEF ensureWritableBytes, makeSpace, Compacts
  <2>2. b.writerIndex_ + len \in Nat
    BY SoundFields
  <2>3. /\ Len(m) = b.writerIndex_ + len
        /\ \A i \in 1 .. b.writerIndex_ + len :
              m[i] = IF i <= Len(b.mem) THEN b.mem[i] ELSE Zero
    BY <2>2, SoundFields, ResizedProperties
  <2> HIDE DEF m
  <2>4. \A i \in 1 .. b.writerIndex_ : m[i] = b.mem[i]
    BY <2>3, SoundFields
  <2> QED
    BY <2>1, <2>2, <2>3, <2>4 DEF Sound, BufferType
<1> QED
  BY <1>1, <1>2

\* append keeps the indices in order, and within the vector if still intact.
LEMMA AppendSound ==
    ASSUME NEW b, Sound(b), NEW data \in Seq(Byte)
    PROVE  LET a == append(b, data)
           IN  /\ a \in BufferType
               /\ Ordered(a)
               /\ a.intact => a.writerIndex_ <= Len(a.mem)
<1> DEFINE e == ensureWritableBytes(b, Len(data))
           m == CopiedTo(e.mem, e.writerIndex_, data)
           fits == e.writerIndex_ + Len(data) <= Len(e.mem)
           a == append(b, data)
<1>0. Len(data) \in Nat
  BY LenProperties
<1>1. e \in BufferType /\ Ordered(e)
  BY <1>0, EnsureWritableType
<1>2. a = [e EXCEPT !.mem = m, !.writerIndex_ = @ + Len(data), !.intact = @ /\ fits]
  BY DEF append
<1> HIDE DEF e
<1>3. e.mem \in Seq(Byte) /\ e.readerIndex_ \in Nat /\ e.writerIndex_ \in Nat
  BY <1>1 DEF BufferType
<1>4. m \in Seq(Byte) /\ Len(m) = Len(e.mem)
  BY <1>3, CopiedToProperties
<1> DEFINE f == e.intact /\ fits
           w == e.writerIndex_ + Len(data)
<1>5. f \in BOOLEAN
  OBVIOUS
<1>6. w \in Nat
  BY <1>0, <1>3
<1>7. a = [e EXCEPT !.mem = m, !.readerIndex_ = e.readerIndex_, !.writerIndex_ = w,
                    !.intact = f]
  BY <1>1, <1>2 DEF BufferType
<1> HIDE DEF a, m, fits, f, w
<1>8. /\ a \in BufferType
      /\ a.mem = m /\ a.readerIndex_ = e.readerIndex_ /\ a.writerIndex_ = w /\ a.intact = f
  <2>1. e \in BufferType /\ e.readerIndex_ \in Nat /\ m \in Seq(Byte)
    BY <1>1, <1>3, <1>4
  <2> QED
    BY <1>5, <1>6, <1>7, <2>1 DEF BufferType
<1>9. KCheapPrend <= e.readerIndex_ /\ e.readerIndex_ <= w
  BY <1>0, <1>1, <1>3, BufferAssumption DEF Ordered, w
<1>10. Ordered(a)
  BY <1>8, <1>9 DEF Ordered
<1>11. a.intact => a.writerIndex_ <= Len(a.mem)
  BY <1>4, <1>8 DEF f, fits, w
<1> QED
  BY <1>8, <1>10, <1>11 DEF a

\* When makeSpace does not move the data, append overruns nothing and adds the
\* data behind the readable bytes.
LEMMA AppendFifo ==
    ASSUME NEW b, Sound(b), NEW data \in Seq(Byte), ~Compacts(b, Len(data))
    PROVE  LET a == append(b, data)
           IN  /\ Sound(a)
               /\ a.intact = b.intact
               /\ Readable(a) = Readable(b) \o data
<1> DEFINE e == ensureWritableBytes(b, Len(data))
           a == append(b, data)
<1>0. Len(data) \in Nat
  BY LenProperties
<1>1. e \in BufferType /\ Ordered(e) /\ e.intact = b.intact
  BY <1>0, EnsureWritableType
<1>2. /\ e.readerIndex_ = b.readerIndex_
      /\ e.writerIndex_ = b.writerIndex_
      /\ b.writerIndex_ + Len(data) <= Len(e.mem)
      /\ \A i \in 1 .. b.writerIndex_ : e.mem[i] = b.mem[i]
  BY <1>0, EnsureWritableKeeps
<1>3. a = [e EXCEPT !.mem = CopiedTo(e.mem, e.writerIndex_, data),
                    !.writerIndex_ = @ + Len(data),
                    !.intact = @ /\ e.writerIndex_ + Len(data) <= Len(e.mem)]
  BY DEF append
<1>4. a \in BufferType /\ Ordered(a)
  BY AppendSound
<1> HIDE DEF e, a
<1>5. /\ a.mem = CopiedTo(e.mem, b.writerIndex_, data)
      /\ a.readerIndex_ = b.readerIndex_
      /\ a.writerIndex_ = b.writerIndex_ + Len(data)
      /\ a.intact = b.intact
  BY <1>1, <1>2, <1>3 DEF BufferType
<1>6. /\ Len(a.mem) = Len(e.mem)
      /\ \A i \in 1 .. Len(e.mem) : a.mem[i] =
            IF b.writerIndex_ < i /\ i <= b.writerIndex_ + Len(data)
            THEN data[i - b.writerIndex_] ELSE e.mem[i]
  BY <1>1, <1>5, CopiedToProperties DEF BufferType, Sound
<1>7. Sound(a)
  BY <1>2, <1>4, <1>5, <1>6 DEF Sound
<1>8. /\ Readable(a) \in Seq(Byte)
      /\ Len(Readable(a)) = a.writerIndex_ - a.readerIndex_
      /\ \A i \in 1 .. a.writerIndex_ - a.readerIndex_ :
            Readable(a)[i] = a.mem[a.readerIndex_ + i]
  BY <1>7, ReadableProperties
<1>9. /\ Readable(b) \in Seq(Byte)
      /\ Len(Readable(b)) = b.writerIndex_ - b.readerIndex_
      /\ \A i \in 1 .. b.writerIndex_ - b.readerIndex_ :
            Readable(b)[i] = b.mem[b.readerIndex_ + i]
  BY ReadableProperties
<1>10. /\ b.readerIndex_ \in Nat /\ b.writerIndex_ \in Nat
       /\ b.readerIndex_ <= b.writerIndex_
       /\ Len(e.mem) \in Nat
  BY <1>1, LenProperties DEF Sound, BufferType, Ordered
<1> DEFINE rb == Readable(b)
           cat == rb \o data
<1>11. /\ cat \in Seq(Byte)
       /\ Len(cat) = Len(rb) + Len(data)
       /\ \A i \in 1 .. Len(rb) + Len(data) :
             cat[i] = IF i <= Len(rb) THEN rb[i] ELSE data[i - Len(rb)]
  BY <1>9, ConcatProperties
<1> HIDE DEF rb, cat
<1>12. ASSUME NEW i \in 1 .. Len(Readable(a))
       PROVE  Readable(a)[i] = cat[i]
  <2> DEFINE r == b.readerIndex_
             w == b.writerIndex_
             d == Len(data)
             k == r + i
  <2>1. Len(rb) = w - r /\ Len(Readable(a)) = (w - r) + d
    BY <1>0, <1>5, <1>8, <1>9, <1>10 DEF rb
  <2>2. r \in Nat /\ w \in Nat /\ d \in Nat /\ r <= w /\ w + d <= Len(e.mem) /\ Len(e.mem) \in Nat
    BY <1>0, <1>2, <1>10
  <2>3. /\ i \in Nat /\ 1 <= i /\ i <= (w - r) + d
        /\ k \in 1 .. Len(e.mem)
        /\ i \in 1 .. a.writerIndex_ - a.readerIndex_
        /\ i \in 1 .. Len(rb) + Len(data)
    <3>1. i \in Nat /\ 1 <= i /\ i <= (w - r) + d
      BY <2>1, <2>2
    <3>2. k \in 1 .. Len(e.mem)
      BY <2>2, <3>1
    <3>3. i \in 1 .. a.writerIndex_ - a.readerIndex_
      BY <1>8, <2>1
    <3>4. i \in 1 .. Len(rb) + Len(data)
      BY <2>1
    <3> QED
      BY <3>1, <3>2, <3>3, <3>4
  <2>4. Readable(a)[i] = a.mem[k]
    BY <1>5, <1>8, <2>3
  <2>5. a.mem[k] = IF w < k /\ k <= w + d THEN data[k - w] ELSE e.mem[k]
    BY <1>6, <2>3
  <2>6. cat[i] = IF i <= w - r THEN rb[i] ELSE data[i - (w - r)]
    BY <1>11, <2>1, <2>3
  <2> HIDE DEF r, w, d
  <2>7. CASE i <= w - r
    <3>1. k \in 1 .. w /\ ~(w < k) /\ i \in 1 .. w - r
      BY <2>2, <2>3, <2>7
    <3>2. e.mem[k] = b.mem[k]
      BY <1>2, <3>1 DEF w
    <3>3. rb[i] = b.mem[k]
      BY <1>9, <3>1 DEF rb, r, w
    <3> QED
      BY <2>4, <2>5, <2>6, <2>7, <3>1, <3>2, <3>3
  <2>8. CASE ~(i <= w - r)
    <3>1. w < k /\ k <= w + d /\ k - w = i - (w - r)
      BY <2>2, <2>3, <2>8
    <3> QED
      BY <2>4, <2>5, <2>6, <2>8, <3>1
  <2> QED
    BY <2>7, <2>8
<1>13. Readable(a) = cat
  <2>1. Len(Readable(a)) = Len(cat)
    BY <1>0, <1>5, <1>8, <1>9, <1>10, <1>11 DEF rb
  <2> QED
    BY <1>8, <1>11, <1>12, <2>1, SeqEqual
<1> QED
  BY <1>5, <1>7, <1>13 DEF a, cat, rb

-----------------------------------------------------------------------------
(* retrieve.                                                               *)

\* retrieve takes the oldest len bytes, or all of them.
LEMMA RetrieveFifo ==
    ASSUME NEW b, Sound(b), NEW len \in Nat
    PROVE  LET a == retrieve(b, len)
               s == Readable(b)
           IN  /\ Sound(a)
               /\ a.intact = b.intact
               /\ Readable(a) = IF len < Len(s) THEN SubSeq(s, len + 1, Len(s)) ELSE <<>>
<1> DEFINE a == retrieve(b, len)
           s == Readable(b)
           n == b.writerIndex_ - b.readerIndex_
<1>0. b \in BufferType
  BY DEF Sound
<1>1. /\ s \in Seq(Byte) /\ Len(s) = n
      /\ \A i \in 1 .. n : s[i] = b.mem[b.readerIndex_ + i]
  BY ReadableProperties
<1>2. n \in Nat
  BY SoundFields
<1>3. CASE len < n
  <2>1. a = [b EXCEPT !.readerIndex_ = b.readerIndex_ + len]
    BY <1>3 DEF retrieve, readableBytes
  <2>2. b.readerIndex_ + len \in Nat
    BY SoundFields
  <2> HIDE DEF a
  <2>3. /\ a \in BufferType
        /\ a.mem = b.mem /\ a.readerIndex_ = b.readerIndex_ + len
        /\ a.writerIndex_ = b.writerIndex_ /\ a.intact = b.intact
    BY <1>0, <2>1, <2>2 DEF BufferType
  <2>4. Sound(a)
    BY <1>3, <2>2, <2>3, SoundFields, BufferAssumption DEF Sound, Ordered
  <2>5. /\ Readable(a) \in Seq(Byte) /\ Len(Readable(a)) = n - len
        /\ \A i \in 1 .. n - len : Readable(a)[i] = b.mem[(b.readerIndex_ + len) + i]
    <3>1. a.writerIndex_ - a.readerIndex_ = n - len
      BY <2>3, SoundFields
    <3> QED
      BY <2>3, <2>4, <3>1, ReadableProperties
  <2> HIDE DEF s, n
  <2> DEFINE t == SubSeq(s, len + 1, Len(s))
  <2>6. /\ t \in Seq(Byte) /\ Len(t) = n - len
        /\ \A i \in 1 .. n - len : t[i] = s[len + i]
    <3>1. len + 1 \in Int /\ n \in Int /\ len + 1 <= n /\ n - (len + 1) + 1 = n - len
      BY <1>2, <1>3
    <3>2. \A i \in (len + 1) .. n : s[i] \in Byte
      BY <1>1, <1>2, <3>1, ElementOfSeq
    <3>3. /\ t \in Seq(Byte)
          /\ Len(t) = IF len + 1 <= n THEN n - (len + 1) + 1 ELSE 0
          /\ \A i \in 1 .. n - (len + 1) + 1 : t[i] = s[(len + 1) + i - 1]
      BY <1>1, <3>1, <3>2, SubSeqProperties
    <3> HIDE DEF t
    <3>4. \A i \in 1 .. n - len : (len + 1) + i - 1 = len + i
      BY <1>2
    <3> QED
      BY <3>1, <3>3, <3>4
  <2> HIDE DEF t
  <2>7. ASSUME NEW i \in 1 .. n - len
        PROVE  Readable(a)[i] = t[i]
    <3>1. len + i \in 1 .. n /\ (b.readerIndex_ + len) + i = b.readerIndex_ + (len + i)
      BY <1>2, <1>3, SoundFields
    <3> QED
      BY <1>1, <2>5, <2>6, <3>1
  <2>8. Readable(a) = t
    BY <2>5, <2>6, <2>7, SeqEqual
  <2> QED
    BY <1>1, <1>3, <2>3, <2>4, <2>8 DEF a, s, t
<1>4. CASE ~(len < n)
  <2>0. KCheapPrend \in Nat
    BY BufferAssumption
  <2>1. a = [b EXCEPT !.readerIndex_ = KCheapPrend, !.writerIndex_ = KCheapPrend]
    BY <1>4 DEF retrieve, retrieveAll, readableBytes
  <2> HIDE DEF a
  <2>2. /\ a \in BufferType
        /\ a.mem = b.mem /\ a.readerIndex_ = KCheapPrend
        /\ a.writerIndex_ = KCheapPrend /\ a.intact = b.intact
    BY <1>0, <2>0, <2>1 DEF BufferType
  <2>3. Sound(a)
    BY <2>0, <2>2, SoundFields DEF Sound, Ordered
  <2>4. Readable(a) \in Seq(Byte) /\ Len(Readable(a)) = 0
    BY <2>0, <2>2, <2>3, ReadableProperties
  <2>5. Readable(a) = <<>>
    BY <2>4, EmptySeq
  <2> QED
    BY <1>1, <1>4, <2>2, <2>3, <2>5 DEF a
<1> QED
  BY <1>3, <1>4

-----------------------------------------------------------------------------
(* readFd.                                                                 *)

\* What readv puts into the writable part is what append would put there.
LEMMA FilledIsAppend ==
    ASSUME NEW b, Sound(b), NEW d \in Seq(Byte), Len(d) <= writableBytes(b)
    PROVE  /\ ~Compacts(b, Len(d))
           /\ append(b, d) = [b EXCEPT !.mem = CopiedTo(b.mem, b.writerIndex_, d),
                                       !.writerIndex_ = @ + Len(d)]
<1>0. Len(d) \in Nat
  BY LenProperties
<1>1. ~NeedsSpace(b, Len(d)) /\ b.writerIndex_ + Len(d) <= Len(b.mem)
  BY <1>0, SoundFields DEF NeedsSpace, writableBytes
<1>2. ensureWritableBytes(b, Len(d)) = b
  BY <1>1 DEF ensureWritableBytes
<1>3. b.intact \in BOOLEAN
  BY DEF Sound, BufferType
<1>4. (b.intact /\ b.writerIndex_ + Len(d) <= Len(b.mem)) = b.intact
  BY <1>1, <1>3
<1>5. append(b, d) = [b EXCEPT !.mem = CopiedTo(b.mem, b.writerIndex_, d),
                               !.writerIndex_ = @ + Len(d),
                               !.intact = b.intact]
  BY <1>2, <1>4 DEF append
<1>6. b \in BufferType
  BY DEF Sound
<1> QED
  BY <1>1, <1>5, <1>6 DEF Compacts, BufferType

\* A chunk cut at k is its two parts, one after the other.
LEMMA CutChunk ==
    ASSUME NEW data \in Seq(Byte), NEW k \in Nat, k <= Len(data)
    PROVE  LET d1 == SubSeq(data, 1, k)
               d2 == SubSeq(data, k + 1, Len(data))
           IN  /\ d1 \in Seq(Byte) /\ Len(d1) = k
               /\ d2 \in Seq(Byte) /\ Len(d2) = Len(data) - k
               /\ d1 \o d2 = data
<1>0. Len(data) \in Nat
  BY LenProperties
<1>1. \A i \in 1 .. Len(data) : data[i] \in Byte
  BY ElementOfSeq
<1>2. SubSeq(data, 1, k) \in Seq(Byte) /\ Len(SubSeq(data, 1, k)) = k
  <2>1. \A i \in 1 .. k : data[i] \in Byte
    BY <1>0, <1>1
  <2>2. Len(SubSeq(data, 1, k)) = IF 1 <= k THEN k - 1 + 1 ELSE 0
    BY <2>1, SubSeqProperties
  <2>3. SubSeq(data, 1, k) \in Seq(Byte)
    BY <2>1, SubSeqProperties
  <2> QED
    BY <2>2, <2>3
<1>3. /\ SubSeq(data, k + 1, Len(data)) \in Seq(Byte)
      /\ Len(SubSeq(data, k + 1, Len(data))) = Len(data) - k
  <2>1. \A i \in k + 1 .. Len(data) : data[i] \in Byte
    BY <1>0, <1>1
  <2>2. Len(SubSeq(data, k + 1, Len(data))) =
            IF k + 1 <= Len(data) THEN Len(data) - (k + 1) + 1 ELSE 0
    BY <1>0, <2>1, SubSeqProperties
  <2>3. SubSeq(data, k + 1, Len(data)) \in Seq(Byte)
    BY <1>0, <2>1, SubSeqProperties
  <2> QED
    BY <1>0, <2>2, <2>3
<1>4. SubSeq(data, 1, k) \o SubSeq(data, k + 1, Len(data)) = SubSeq(data, 1, Len(data))
  <2>1. 1 \in 1 .. Len(data) + 1 /\ k \in 1 - 1 .. Len(data) /\ Len(data) \in k .. Len(data)
    BY <1>0
  <2> QED
    BY <2>1, ConcatAdjacentSubSeq
<1> QED
  BY <1>2, <1>3, <1>4, SubSeqFull

\* Joining chunks is associative.
LEMMA JoinAssociative ==
    \A s, t, u \in Seq(Byte) : (s \o t) \o u = s \o (t \o u)
BY ConcatAssociative

\* readFd keeps the indices in order, and within the vector if still intact;
\* and when makeSpace does not move the data it adds the bytes read.
LEMMA ReadFdFifo ==
    ASSUME NEW b, Sound(b), NEW data \in Seq(Byte)
    PROVE  LET a == readFd(b, data)
           IN  /\ a \in BufferType
               /\ Ordered(a)
               /\ b.intact /\ a.intact => a.writerIndex_ <= Len(a.mem)
               /\ ~ReadCompacts(b, Len(data)) =>
                    /\ Sound(a)
                    /\ a.intact = b.intact
                    /\ Readable(a) = Readable(b) \o data
<1> DEFINE a == readFd(b, data)
           k == writableBytes(b)
<1>0. Len(data) \in Nat /\ k \in Nat
  BY SoundFields, LenProperties DEF writableBytes
<1>1. CASE Len(data) <= k
  <2>1. SubSeq(data, 1, Len(data)) = data
    BY SubSeqFull
  <2>2. a = append(b, data) /\ ~Compacts(b, Len(data))
    BY <1>1, <2>1, FilledIsAppend DEF readFd
  <2>3. Sound(a) /\ a.intact = b.intact /\ Readable(a) = Readable(b) \o data
    BY <2>2, AppendFifo
  <2> QED
    BY <2>3 DEF Sound
<1>2. CASE ~(Len(data) <= k)
  <2> DEFINE d1 == SubSeq(data, 1, k)
             d2 == SubSeq(data, k + 1, Len(data))
             f == append(b, d1)
  <2>1. /\ d1 \in Seq(Byte) /\ Len(d1) = k
        /\ d2 \in Seq(Byte) /\ Len(d2) = Len(data) - k
        /\ d1 \o d2 = data
    <3>1. k <= Len(data)
      BY <1>0, <1>2
    <3> HIDE DEF k
    <3> QED
      BY <1>0, <3>1, CutChunk
  <2>2. Len(d1) <= writableBytes(b)
    BY <1>0, <2>1
  <2>3. /\ f = [b EXCEPT !.mem = CopiedTo(b.mem, b.writerIndex_, d1), !.writerIndex_ = @ + k]
        /\ ~Compacts(b, Len(d1))
    BY <2>1, <2>2, FilledIsAppend
  <2>4. a = append(f, d2)
    BY <1>2, <2>3 DEF readFd
  <2>5. Sound(f) /\ f.intact = b.intact /\ Readable(f) = Readable(b) \o d1
    BY <2>1, <2>3, AppendFifo
  <2> HIDE DEF f, d1, d2, a
  <2>6. /\ a \in BufferType /\ Ordered(a)
        /\ a.intact => a.writerIndex_ <= Len(a.mem)
    BY <2>1, <2>4, <2>5, AppendSound
  <2>7. ASSUME ~ReadCompacts(b, Len(data))
        PROVE  Sound(a) /\ a.intact = b.intact /\ Readable(a) = Readable(b) \o data
    <3>1. /\ f.readerIndex_ = b.readerIndex_ /\ f.writerIndex_ = Len(b.mem)
          /\ Len(f.mem) = Len(b.mem)
      <4>1. f.mem = CopiedTo(b.mem, b.writerIndex_, d1)
        BY <2>3 DEF Sound, BufferType
      <4>2. f.readerIndex_ = b.readerIndex_ /\ f.writerIndex_ = b.writerIndex_ + k
        BY <2>3 DEF Sound, BufferType
      <4>3. Len(f.mem) = Len(b.mem)
        BY <2>1, <4>1, CopiedToProperties, SoundFields
      <4>4. b.writerIndex_ + k = Len(b.mem)
        BY SoundFields DEF writableBytes
      <4> QED
        BY <4>2, <4>3, <4>4
    <3>2. ~Compacts(f, Len(d2))
      <4> DEFINE full == [b EXCEPT !.writerIndex_ = Len(b.mem)]
      <4>1. full.mem = b.mem /\ full.readerIndex_ = b.readerIndex_ /\ full.writerIndex_ = Len(b.mem)
        BY DEF Sound, BufferType
      <4>2. ~Compacts(full, Len(data) - k)
        BY <1>0, <1>2, <2>7 DEF ReadCompacts
      <4> HIDE DEF full
      <4> QED
        BY <2>1, <3>1, <4>1, <4>2
           DEF Compacts, NeedsSpace, MustGrow, writableBytes, prependableBytes
    <3>3. Sound(a) /\ a.intact = f.intact /\ Readable(a) = Readable(f) \o d2
      BY <2>1, <2>4, <2>5, <3>2, AppendFifo
    <3>4. (Readable(b) \o d1) \o d2 = Readable(b) \o data
      <4>1. Readable(b) \in Seq(Byte)
        BY ReadableProperties
      <4>2. d1 \in Seq(Byte) /\ d2 \in Seq(Byte)
        BY <2>1
      <4>3. (Readable(b) \o d1) \o d2 = Readable(b) \o (d1 \o d2)
        BY <4>1, <4>2, JoinAssociative
      <4> QED
        BY <2>1, <4>3, Zenon
    <3> QED
      BY <2>5, <3>3, <3>4
  <2> QED
    BY <2>6, <2>7 DEF a
<1> QED
  BY <1>1, <1>2

=============================================================================
