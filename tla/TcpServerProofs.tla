--------------------------- MODULE TcpServerProofs ---------------------------
(***************************************************************************)
(* Proofs about TcpServer, for every number of pool threads, clients and   *)
(* descriptors, and whoever calls start(): the server touches only loops   *)
(* that are there, a connection is reported up before down, destroyed once *)
(* and never during a dispatch of its loop, and nothing outlives the       *)
(* server.                                                                 *)
(***************************************************************************)
EXTENDS TcpServer, FiniteSetTheorems, SequenceTheorems, TLAPS

\* The server is in use: its destructor has not begun.
Serving == owner \in {"outside", "start"} \cup InLoop

\* The body of the destructor is done, the members go.
Destroying == owner \in {"quit", "join", "gone"}

\* The control points of a thread whose loop_ is set.
Published == {"published", "left"} \cup InLoop

\* The pool is between the creation of a thread and the push of its loop.
Creating == {"sem", "lock", "asleep", "push"}

(***************************************************************************)
(* The inductive invariant, first part: types without the bounds that need *)
(* the other parts.                                                        *)
(***************************************************************************)
Types ==
    /\ owner \in OwnerPoints /\ starter \in StarterPoints /\ current \in 0 .. MaxThreads + 1
    /\ started_ \in {-1, 0, 1} /\ listenning_ \in BOOLEAN /\ numThreads_ \in 0 .. MaxThreads
    /\ loops_ \in Seq(Threads) /\ next_ \in Nat
    /\ nextConnId_ \in Nat \ {0} /\ waiting \in Nat
    /\ thread \in [Threads -> ThreadPoints]
    /\ loop_ \in [Threads -> BOOLEAN] /\ quit_ \in [Threads -> BOOLEAN]
    /\ pendingFunctors_ \in [Loops -> Seq(Functors)] /\ functors \in [Loops -> Seq(Functors)]
    /\ calls \in [Loops -> Nat] /\ \A l \in Loops : calls[l] <= Len(functors[l])
    /\ ioLoop \in Seq(Loops)

\* The clients: those accepted are numbered, and there are not too many.
Counts ==
    /\ Len(ioLoop) = nextConnId_ - 1
    /\ nextConnId_ + waiting <= MaxConns + 1
    /\ connections_ \subseteq DOMAIN ioLoop
    /\ ups \subseteq DOMAIN ioLoop /\ removed \subseteq DOMAIN ioLoop

(***************************************************************************)
(* Second part: how far start() and the destructor are.  Thread i is entry *)
(* i of loops_; start() works on the one behind the last.                  *)
(***************************************************************************)
PoolShape ==
    /\ started_ # 1 => starter = "idle" /\ loops_ = <<>>
    /\ starter # "idle" => Serving /\ current = Len(loops_) + 1
    /\ starter \in Creating => current \in Threads
    /\ owner \in {"quit", "join"} => current \in Threads
    /\ Destroying => loops_ = <<>> /\ connections_ = {}
    /\ ~Destroying => IF loops_ = <<>> THEN next_ = 0 ELSE next_ < Len(loops_)
    /\ \A j \in 1 .. Len(loops_) : loops_[j] = j

\* Third part: where each thread may be meanwhile.
ThreadShape ==
    \A i \in Threads :
        /\ loop_[i] <=> thread[i] \in Published
        /\ quit_[i] => thread[i] = "ended" \/ (owner = "join" /\ current = i)
        /\ thread[i] = "left" => quit_[i]
        /\ ~Destroying /\ i <= Len(loops_) => thread[i] \in Published
        /\ ~Destroying /\ i > Len(loops_) /\ ~(starter \in Creating /\ i = current)
                => thread[i] = "none"
        /\ starter = "sem" /\ i = current => thread[i] \in {"spawned", "begun"} \cup Published
        /\ starter = "lock" /\ i = current => thread[i] \in {"begun"} \cup Published
        /\ starter = "asleep" /\ i = current => thread[i] = "begun"
        /\ starter = "push" /\ i = current => thread[i] \in Published
        /\ owner \in {"quit", "join"} /\ i < current => thread[i] = "ended"
        /\ owner = "quit" /\ i = current => thread[i] \in Published
        /\ owner = "join" /\ i = current => thread[i] \in {"ended"} \cup Published
        /\ owner \in {"quit", "join"} /\ i > current => thread[i] \in {"none"} \cup Published
        /\ owner = "gone" => thread[i] \in {"none", "ended"}

\* Threads are created one after the other.
Contiguous ==
    \A i, j \in Threads : i < j /\ thread[i] = "none" => thread[j] = "none"

\* What lies in a loop's vectors belongs there.
QueueShape ==
    /\ \A l \in Loops : ~At(l, "run") => functors[l] = <<>> /\ calls[l] = 0
    /\ \A i \in Threads : pendingFunctors_[i] # <<>> => thread[i] \in Published
    /\ ~Destroying => \A id \in DOMAIN ioLoop : ioLoop[id] \in {Base} \cup 1 .. Len(loops_)

Belongs(f, l, io, down) ==
    /\ f.id \in DOMAIN io
    /\ f.op = "remove" => l = Base /\ io[f.id] # Base
    /\ f.op # "remove" => l = io[f.id]
    /\ f.op = "established" => l # Base
    /\ l = Base => f.id \in down

FunctorsBelong ==
    \A l \in Loops : \A f \in Range(pendingFunctors_[l]) \cup Range(functors[l]) :
        Belongs(f, l, ioLoop, downs)

(***************************************************************************)
(* Fourth part: the life of a connection, in terms of what is queued.  It  *)
(* is in the map, or waits to be destroyed, or is; or the loop that was to *)
(* destroy it has ended.                                                   *)
(***************************************************************************)
Queues == [l \in Loops |-> Queue(l)]

\* Functor f is in the queue q.
Holds(q, f) == \E k \in 1 .. Len(q) : q[k] = f

\* In q a connection that is not up is established before it is destroyed.
Ordered(q, up) ==
    \A k \in 1 .. Len(q) : q[k].op = "destroyed" =>
        q[k].id \in up \/ \E j \in 1 .. k - 1 : q[j] = Functor("established", q[k].id)

\* Nothing is removed or destroyed twice in q.
Distinct(q) == \A j, k \in 1 .. Len(q) : q[j] = q[k] /\ q[j].op # "established" => j = k

Queued(op, id, l) == Holds(Queues[l], Functor(op, id))

\* Nothing is reported down, or destroyed, before it is up; and what is destroyed
\* is down.
UpFirst ==
    /\ downs \subseteq ups /\ removed \subseteq downs
    /\ \A id \in DOMAIN ioLoop :
        /\ ioLoop[id] = Base => id \in ups
        /\ id \in connections_ => id \in ups \/ Queued("established", id, ioLoop[id])
    /\ \A l \in Loops : Ordered(Queues[l], ups)

\* Every connection is somewhere.
Somewhere ==
    \A id \in DOMAIN ioLoop :
        \/ id \in connections_
        \/ id \in removed
        \/ Queued("destroyed", id, ioLoop[id])
        \/ ioLoop[id] # Base /\ thread[ioLoop[id]] = "ended"

\* And nowhere twice.
Once ==
    /\ removed \cap connections_ = {}
    /\ \A id \in DOMAIN ioLoop :
        /\ Serving /\ id \notin downs => id \in connections_
        /\ Serving /\ Queued("remove", id, Base) => id \in connections_
        /\ \A l \in Loops : Queued("destroyed", id, l) => id \notin connections_ \cup removed
    /\ \A l \in Loops : Distinct(Queues[l])

SInv ==
    /\ Types /\ Counts
    /\ PoolShape /\ ThreadShape /\ Contiguous
    /\ QueueShape /\ FunctorsBelong
    /\ UpFirst /\ Somewhere /\ Once
    /\ Cardinality(Open) <= MaxFds

-----------------------------------------------------------------------------
(* Loops, functors and queues.                                             *)

\* The base loop is not the loop of a thread.
LEMMA BaseIsNoThread == Base \notin Threads /\ Base \in Loops /\ Threads = Loops \ {Base}
BY ServerAssumption DEF Base, Threads, Loops

\* Sequences of functors and of loops are functions on an initial segment.
LEMMA SeqOf ==
    ASSUME NEW S, NEW s \in Seq(S)
    PROVE  /\ Len(s) \in Nat /\ DOMAIN s = 1 .. Len(s)
           /\ \A k \in 1 .. Len(s) : s[k] \in S
           /\ Range(s) = {s[k] : k \in 1 .. Len(s)}
           /\ s = <<>> <=> Len(s) = 0
BY LenProperties, ElementOfSeq, EmptySeq, RangeEquality

\* What a queueInLoop does to one vector.
LEMMA RangeOfAppend ==
    ASSUME NEW S, NEW s \in Seq(S), NEW e \in S
    PROVE  Range(Append(s, e)) = Range(s) \cup {e}
<1>1. /\ Append(s, e) \in Seq(S) /\ Len(Append(s, e)) = Len(s) + 1
      /\ \A k \in 1 .. Len(s) : Append(s, e)[k] = s[k]
      /\ Append(s, e)[Len(s) + 1] = e
  BY AppendProperties
<1>2. Range(Append(s, e)) = {Append(s, e)[k] : k \in 1 .. Len(Append(s, e))}
  BY <1>1, RangeEquality
<1>3. Range(s) = {s[k] : k \in 1 .. Len(s)} /\ Len(s) \in Nat
  BY SeqOf
<1>4. 1 .. Len(s) + 1 = (1 .. Len(s)) \cup {Len(s) + 1}
  BY <1>3
<1> QED
  BY <1>1, <1>2, <1>3, <1>4

\* The functors left of batch b after n calls, and those pending.
Rest(b, n, p) == SubSeq(b, n + 1, Len(b)) \o p

\* What is left is a sequence of functors of the two vectors.
LEMMA RestProperties ==
    ASSUME NEW S, NEW b \in Seq(S), NEW p \in Seq(S), NEW n \in 0 .. Len(b)
    PROVE  /\ SubSeq(b, n + 1, Len(b)) \in Seq(S)
           /\ Rest(b, n, p) \in Seq(S)
           /\ Range(Rest(b, n, p)) \subseteq Range(b) \cup Range(p)
<1> DEFINE q == SubSeq(b, n + 1, Len(b))
<1>1. Len(b) \in Nat /\ \A k \in 1 .. Len(b) : b[k] \in S
  BY SeqOf
<1>2. \A k \in n + 1 .. Len(b) : b[k] \in S /\ b[k] \in Range(b)
  BY <1>1, SeqOf
<1>3. q \in Seq(S) /\ q \in Seq(Range(b))
  BY <1>1, <1>2, SubSeqProperties
<1> HIDE DEF q
<1>4. q \o p \in Seq(S) /\ Range(q \o p) = Range(q) \cup Range(p)
  BY <1>3, ConcatProperties, RangeConcatenation
<1>5. Range(q) \subseteq Range(b)
  BY <1>3, RangeOfSeq
<1> QED
  BY <1>3, <1>4, <1>5, Zenon DEF Rest, q

\* Calling a functor takes the first.
LEMMA RestTail ==
    ASSUME NEW S, NEW b \in Seq(S), NEW p \in Seq(S), NEW n \in 0 .. Len(b), n < Len(b)
    PROVE  /\ Rest(b, n + 1, p) \in Seq(S) /\ b[n + 1] \in S
           /\ Rest(b, n, p) = <<b[n + 1]>> \o Rest(b, n + 1, p)
<1> DEFINE q == SubSeq(b, n + 1 + 1, Len(b))
<1>1. Len(b) \in Nat /\ n + 1 \in 0 .. Len(b) /\ b[n + 1] \in S
  BY SeqOf
<1>2. q \in Seq(S) /\ Rest(b, n + 1, p) \in Seq(S)
  BY <1>1, RestProperties
<1>3. SubSeq(b, n + 1, Len(b)) = <<b[n + 1]>> \o q
  BY <1>1, SubSeqRecursiveFirst
<1> HIDE DEF q
<1>4. <<b[n + 1]>> \in Seq(S)
  BY <1>1
<1>5. (<<b[n + 1]>> \o q) \o p = <<b[n + 1]>> \o (q \o p)
  BY <1>2, <1>4, ConcatAssociative
<1> QED
  BY <1>1, <1>2, <1>3, <1>5, Zenon DEF Rest, q

\* The positions of a sequence with one more in front.
LEMMA ConsProperties ==
    ASSUME NEW S, NEW e \in S, NEW r \in Seq(S)
    PROVE  /\ Len(<<e>> \o r) = Len(r) + 1
           /\ (<<e>> \o r)[1] = e
           /\ \A k \in 1 .. Len(r) : (<<e>> \o r)[k + 1] = r[k]
<1>1. <<e>> \in Seq(S) /\ Len(<<e>>) = 1 /\ <<e>>[1] = e /\ Len(r) \in Nat
  BY SeqOf
<1>2. /\ Len(<<e>> \o r) = Len(<<e>>) + Len(r)
      /\ \A k \in 1 .. Len(<<e>>) + Len(r) :
            (<<e>> \o r)[k] = IF k <= Len(<<e>>) THEN <<e>>[k] ELSE r[k - Len(<<e>>)]
  BY <1>1, ConcatProperties
<1>3. \A k \in 1 .. 1 + Len(r) : (<<e>> \o r)[k] = IF k <= 1 THEN <<e>>[k] ELSE r[k - 1]
  BY <1>1, <1>2
<1> QED
  BY <1>1, <1>2, <1>3

\* What is in a queue, and in which order, when a functor is put last.
LEMMA PutInQueue ==
    ASSUME NEW q \in Seq(Functors), NEW f \in Functors, NEW up, NEW r, r = q \o <<f>>
    PROVE  /\ \A g : Holds(r, g) <=> Holds(q, g) \/ g = f
           /\ (f.op = "destroyed" => f.id \in up \/ Holds(q, Functor("established", f.id)))
                /\ Ordered(q, up) => Ordered(r, up)
           /\ (f.op # "established" => ~Holds(q, f)) /\ Distinct(q) => Distinct(r)
<1>1. /\ Len(q) \in Nat /\ Len(r) = Len(q) + 1 /\ r[Len(q) + 1] = f
      /\ \A k \in 1 .. Len(q) : r[k] = q[k]
  <2>1. r = Append(q, f)
    BY AppendIsConcat
  <2> QED
    BY <2>1, SeqOf, AppendProperties
<1>2. \A k \in 1 .. Len(r) : k \in 1 .. Len(q) \/ k = Len(q) + 1
  BY <1>1
<1>3. \A k \in 1 .. Len(q) : k \in 1 .. Len(r) /\ Len(q) + 1 \in 1 .. Len(r)
  BY <1>1
<1>4. Len(q) + 1 \in 1 .. Len(r)
  BY <1>1
<1>5. \A g : Holds(r, g) <=> Holds(q, g) \/ g = f
  BY <1>1, <1>2, <1>3, <1>4 DEF Holds
<1>6. ASSUME f.op = "destroyed" => f.id \in up \/ Holds(q, Functor("established", f.id)),
             Ordered(q, up)
      PROVE  Ordered(r, up)
  <2> SUFFICES ASSUME NEW k \in 1 .. Len(r), r[k].op = "destroyed", r[k].id \notin up
               PROVE  \E j \in 1 .. k - 1 : r[j] = Functor("established", r[k].id)
    BY DEF Ordered
  <2>1. CASE k \in 1 .. Len(q)
    <3>1. PICK j \in 1 .. k - 1 : q[j] = Functor("established", q[k].id)
      BY <1>1, <1>6, <2>1 DEF Ordered
    <3> QED
      BY <1>1, <2>1, <3>1
  <2>2. CASE k = Len(q) + 1
    <3>1. PICK j \in 1 .. Len(q) : q[j] = Functor("established", f.id)
      BY <1>1, <1>6, <2>2 DEF Holds
    <3> QED
      BY <1>1, <2>2, <3>1
  <2> QED
    BY <1>2, <2>1, <2>2
<1>7. ASSUME f.op # "established" => ~Holds(q, f), Distinct(q)
      PROVE  Distinct(r)
  BY <1>1, <1>2, <1>7 DEF Distinct, Holds
<1> QED
  BY <1>5, <1>6, <1>7

\* And when the first functor is taken.
LEMMA TakeFromQueue ==
    ASSUME NEW r \in Seq(Functors), NEW f \in Functors, NEW up, NEW q, q = <<f>> \o r
    PROVE  /\ \A g : Holds(q, g) <=> Holds(r, g) \/ g = f
           /\ Ordered(q, up) => /\ f.op = "destroyed" => f.id \in up
                                /\ f.op # "established" => Ordered(r, up)
                                /\ Ordered(r, up \cup {f.id})
           /\ Distinct(q) => Distinct(r) /\ (f.op # "established" => ~Holds(r, f))
<1>1. /\ Len(r) \in Nat /\ Len(q) = Len(r) + 1 /\ q[1] = f
      /\ \A k \in 1 .. Len(r) : q[k + 1] = r[k]
  BY SeqOf, ConsProperties
<1>2. \A k \in 1 .. Len(q) : k = 1 \/ (k - 1 \in 1 .. Len(r) /\ q[k] = r[k - 1])
  BY <1>1
<1>3. 1 \in 1 .. Len(q) /\ \A k \in 1 .. Len(r) : k + 1 \in 1 .. Len(q)
  BY <1>1
<1>4. \A g : Holds(q, g) <=> Holds(r, g) \/ g = f
  BY <1>1, <1>2, <1>3 DEF Holds
<1>5. ASSUME Ordered(q, up)
      PROVE  /\ f.op = "destroyed" => f.id \in up
             /\ f.op # "established" => Ordered(r, up)
             /\ Ordered(r, up \cup {f.id})
  <2>1. f.op = "destroyed" => f.id \in up
    <3>1. ~ \E j \in 1 .. 1 - 1 : TRUE
      OBVIOUS
    <3> QED
      BY <1>1, <1>3, <1>5, <3>1 DEF Ordered
  <2>2. ASSUME NEW k \in 1 .. Len(r), r[k].op = "destroyed", r[k].id \notin up
        PROVE  \/ \E j \in 1 .. k - 1 : r[j] = Functor("established", r[k].id)
               \/ f = Functor("established", r[k].id)
    <3>0. k + 1 \in 1 .. Len(q) /\ q[k + 1] = r[k]
      BY <1>1, <1>3
    <3> DEFINE m == k + 1
    <3>e. m \in 1 .. Len(q) /\ q[m].op = "destroyed" /\ q[m].id \notin up
      BY <2>2, <3>0
    <3> HIDE DEF m
    <3>x. PICK j \in 1 .. m - 1 : q[j] = Functor("established", q[m].id)
      BY <1>5, <3>e DEF Ordered
    <3>1. j \in 1 .. k + 1 - 1 /\ q[j] = Functor("established", r[k].id)
      BY <3>0, <3>x DEF m
    <3>2. CASE j = 1
      BY <1>1, <3>1, <3>2
    <3>3. CASE j # 1
      <4>1. j - 1 \in 1 .. k - 1 /\ j - 1 \in 1 .. Len(r) /\ q[j] = r[j - 1]
        BY <1>1, <1>2, <3>1, <3>3
      <4> QED
        BY <3>1, <4>1
    <3> QED
      BY <3>2, <3>3
  <2>3. f.op # "established" => Ordered(r, up)
    BY <2>2 DEF Ordered, Functor
  <2>4. Ordered(r, up \cup {f.id})
    BY <2>2 DEF Ordered, Functor
  <2> QED
    BY <2>1, <2>3, <2>4
<1>6. ASSUME Distinct(q)
      PROVE  Distinct(r) /\ (f.op # "established" => ~Holds(r, f))
  <2>1. Distinct(r)
    <3> SUFFICES ASSUME NEW j \in 1 .. Len(r), NEW k \in 1 .. Len(r), r[j] = r[k],
                        r[j].op # "established"
                 PROVE  j = k
      BY DEF Distinct
    <3>1. /\ j + 1 \in 1 .. Len(q) /\ k + 1 \in 1 .. Len(q)
          /\ q[j + 1] = r[j] /\ q[k + 1] = r[k]
      BY <1>1, <1>3
    <3>2. j + 1 = k + 1
      BY <1>6, <3>1 DEF Distinct
    <3> QED
      BY <3>2
  <2>2. f.op # "established" => ~Holds(r, f)
    <3> SUFFICES ASSUME f.op # "established", NEW k \in 1 .. Len(r), r[k] = f
                 PROVE  FALSE
      BY DEF Holds
    <3>1. k + 1 = 1
      BY <1>1, <1>3, <1>6 DEF Distinct
    <3> QED
      BY <3>1
  <2> QED
    BY <2>1, <2>2
<1> QED
  BY <1>4, <1>5, <1>6

\* With no batch, or a whole one and nothing pending, or a batch that is done.
LEMMA RestOfNothing ==
    ASSUME NEW S, NEW p \in Seq(S)
    PROVE  /\ Rest(<<>>, 0, p) = p
           /\ Rest(p, 0, <<>>) = p
           /\ \A b \in Seq(S) : Rest(b, Len(b), p) = p
<1>1. SubSeq(p, 1, Len(p)) = p
  BY SubSeqFull
<1>2. \A b \in Seq(S) : Rest(b, Len(b), p) = p
  <2> SUFFICES ASSUME NEW b \in Seq(S) PROVE Rest(b, Len(b), p) = p
    OBVIOUS
  <2>1. SubSeq(b, Len(b) + 1, Len(b)) = <<>>
    BY SeqOf, SubSeqEmpty
  <2> QED
    BY <2>1, ConcatEmptySeq DEF Rest
<1>3. Rest(<<>>, 0, p) = p
  BY <1>2, EmptySeq
<1>4. Rest(p, 0, <<>>) = p
  BY <1>1, ConcatEmptySeq DEF Rest
<1> QED
  BY <1>2, <1>3, <1>4

-----------------------------------------------------------------------------
(* Types, and the numbers of the clients.                                  *)

\* The connection that is accepted next has a number of its own.
LEMMA IdsProperties ==
    ASSUME Types, Counts
    PROVE  /\ DOMAIN ioLoop = 1 .. nextConnId_ - 1
           /\ DOMAIN ioLoop \subseteq Conns
           /\ \A id \in DOMAIN ioLoop : ioLoop[id] \in Loops
           /\ nextConnId_ \notin DOMAIN ioLoop
           /\ waiting > 0 => nextConnId_ \in Conns
<1>1. Len(ioLoop) \in Nat /\ DOMAIN ioLoop = 1 .. Len(ioLoop)
      /\ \A id \in 1 .. Len(ioLoop) : ioLoop[id] \in Loops
  BY SeqOf DEF Types
<1> QED
  BY <1>1, ServerAssumption DEF Types, Counts, Conns

\* getNextLoop returns a loop that is there.
LEMMA NextLoopExists ==
    ASSUME Types, PoolShape, ~Destroying
    PROVE  /\ getNextLoop \in Loops
           /\ getNextLoop \in {Base} \cup 1 .. Len(loops_)
           /\ getNextLoop # Base => loops_ # <<>> /\ getNextLoop = next_ + 1
<1>1. /\ Len(loops_) \in Nat /\ \A k \in 1 .. Len(loops_) : loops_[k] \in Threads
      /\ loops_ = <<>> <=> Len(loops_) = 0
  BY SeqOf DEF Types
<1> QED
  BY <1>1 DEF Types, PoolShape, getNextLoop, Loops

\* queueInLoop keeps the vectors of the loops what they are.
LEMMA QueueOnTypes ==
    ASSUME Types, NEW l, NEW f \in Functors, QueueOn(l, f)
    PROVE  pendingFunctors_' \in [Loops -> Seq(Functors)]
<1>1. \A s \in Seq(Functors) : Append(s, f) \in Seq(Functors)
  BY AppendProperties
<1> QED
  BY <1>1 DEF Types, QueueOn

\* The functors that are called and queued are of numbered connections.
LEMMA FunctorType ==
    ASSUME NEW id \in Conns
    PROVE  /\ Functor("established", id) \in Functors
           /\ Functor("destroyed", id) \in Functors
           /\ Functor("remove", id) \in Functors
BY DEF Functor, Functors

\* Each call of doPendingFunctors finds a functor.
LEMMA CalledFunctor ==
    ASSUME Types, NEW l \in Loops, calls[l] < Len(functors[l])
    PROVE  /\ functors[l][calls[l] + 1] \in Functors
           /\ functors[l][calls[l] + 1].id \in Conns
           /\ functors[l][calls[l] + 1] \in Range(functors[l])
<1>1. functors[l] \in Seq(Functors) /\ calls[l] \in Nat
  BY DEF Types
<1>2. calls[l] + 1 \in 1 .. Len(functors[l])
  BY <1>1, SeqOf
<1>3. functors[l][calls[l] + 1] \in Functors /\ functors[l][calls[l] + 1] \in Range(functors[l])
  BY <1>1, <1>2, SeqOf
<1> QED
  BY <1>3 DEF Functors

\* The destructor moves on to a thread, or ends.
LEMMA GoOnTypes ==
    ASSUME NEW i, GoOnDestroying(i)
    PROVE  /\ current' \in 0 .. MaxThreads + 1 /\ owner' \in {"quit", "gone"}
           /\ waiting' = 0 \/ waiting' = waiting
           /\ listenning_' = FALSE \/ listenning_' = listenning_
<1>1. 0 \in 0 .. MaxThreads + 1 /\ \A j \in Threads : j \in 0 .. MaxThreads + 1
  BY ServerAssumption DEF Threads
<1> QED
  BY <1>1 DEF GoOnDestroying

\* Acceptor::handleRead, with its accept.
Accepts == PollBase /\ ClientWaits /\ FdLeft

\* Every step leaves the members in their types and the clients numbered.
LEMMA TypesStep ==
    ASSUME Types, Counts, PoolShape, QueueShape, FunctorsBelong, [Next]_vars
    PROVE  Types' /\ Counts'
<1> USE DEF OwnerPoints, StarterPoints, ThreadPoints, InLoop, startVars, poolVars, acceptVars,
            threadVars, functorVars, reportVars, listen
<1>0. /\ MaxThreads \in Nat /\ MaxConns \in Nat
      /\ DOMAIN ioLoop \subseteq Conns /\ \A id \in DOMAIN ioLoop : ioLoop[id] \in Loops
  BY ServerAssumption, IdsProperties
<1> USE <1>0 DEF Types, Counts
<1>1. ASSUME NEW n \in 0 .. MaxThreads, setThreadNum(n) PROVE Types' /\ Counts'
  BY <1>1 DEF setThreadNum
<1>2. ASSUME NEW who \in Starters, start(who) PROVE Types' /\ Counts'
  BY <1>2 DEF start
<1>3. CASE CreateThread
  <2>1. thread' \in [Threads -> ThreadPoints]
    BY <1>3 DEF CreateThread
  <2> QED
    BY <1>3, <2>1 DEF CreateThread, startFrame
<1>4. CASE SemWait
  BY <1>4 DEF SemWait, startFrame
<1>5. CASE StartLoop
  BY <1>5 DEF StartLoop, startFrame
<1>6. CASE PushLoop
  <2>1. current \in Threads
    BY <1>6 DEF PushLoop, PoolShape, Creating
  <2>2. loops_' \in Seq(Threads)
    BY <1>6, <2>1, AppendProperties DEF PushLoop
  <2>3. current' \in 0 .. MaxThreads + 1
    BY <1>6, <2>1 DEF PushLoop, Threads
  <2> QED
    BY <1>6, <2>2, <2>3 DEF PushLoop, startFrame
<1>7. CASE EnterBaseLoop
  BY <1>7 DEF EnterBaseLoop
<1>8. CASE LeaveBaseLoop
  BY <1>8 DEF LeaveBaseLoop
<1>9. CASE PollBase
  <2>1. CASE ClientWaits /\ FdLeft
    <3>1. getNextLoop \in Loops /\ nextConnId_ \in Conns /\ waiting > 0
      BY <1>9, <2>1, NextLoopExists, IdsProperties DEF PollBase, Destroying, ClientWaits
    <3>2. newConnection /\ waiting' = waiting - 1
      BY <1>9, <2>1 DEF PollBase, handleRead
    <3>3. pendingFunctors_' \in [Loops -> Seq(Functors)]
      BY <3>1, <3>2, FunctorType, QueueOnTypes DEF newConnection
    <3>4. ioLoop' \in Seq(Loops) /\ Len(ioLoop') = Len(ioLoop) + 1
      BY <3>1, <3>2, AppendProperties DEF newConnection
    <3>5. DOMAIN ioLoop' = DOMAIN ioLoop \cup {nextConnId_}
      <4>1. DOMAIN ioLoop' = 1 .. Len(ioLoop') /\ DOMAIN ioLoop = 1 .. Len(ioLoop)
            /\ Len(ioLoop) \in Nat
        BY <3>4, SeqOf
      <4> QED
        BY <4>1, <3>4
    <3>6. next_' \in Nat
      BY <3>2 DEF newConnection, NextAfter
    <3> HIDE <1>0
    <3>7. Types'
      BY <1>9, <3>1, <3>2, <3>3, <3>4, <3>6 DEF PollBase, newConnection
    <3>8. Counts'
      BY <1>9, <3>1, <3>2, <3>4, <3>5 DEF PollBase, newConnection
    <3> QED
      BY <3>7, <3>8
  <2>2. CASE ~(ClientWaits /\ FdLeft)
    BY <1>9, <2>2 DEF PollBase, handleRead
  <2> QED
    BY <2>1, <2>2
<1>10. ASSUME NEW l \in Loops, SwapFunctors(l) PROVE Types' /\ Counts'
  <2>1. Len(<<>>) = 0 /\ <<>> \in Seq(Functors)
    BY EmptySeq
  <2>2. owner' \in OwnerPoints /\ thread' \in [Threads -> ThreadPoints]
    BY <1>10 DEF SwapFunctors, Goto
  <2>3. /\ functors' \in [Loops -> Seq(Functors)] /\ pendingFunctors_' \in [Loops -> Seq(Functors)]
        /\ calls' \in [Loops -> Nat] /\ \A m \in Loops : calls'[m] <= Len(functors'[m])
    <3>1. calls[l] = 0
      BY <1>10 DEF SwapFunctors, At, QueueShape
    <3>2. pendingFunctors_[l] \in Seq(Functors) /\ Len(pendingFunctors_[l]) \in Nat
      BY SeqOf
    <3> QED
      BY <1>10, <2>1, <3>1, <3>2 DEF SwapFunctors
  <2> QED
    BY <1>10, <2>2, <2>3 DEF SwapFunctors, roundFrame
<1>11. ASSUME NEW l \in Loops, CallFunctor(l) PROVE Types' /\ Counts'
  <2> DEFINE f == functors[l][calls[l] + 1]
  <2>1. f \in Functors /\ f.id \in DOMAIN ioLoop
    BY <1>11, CalledFunctor DEF CallFunctor, FunctorsBelong, Belongs
  <2> HIDE DEF f
  <2>2. calls' \in [Loops -> Nat] /\ \A m \in Loops : calls'[m] <= Len(functors'[m])
    <3>1. calls[l] + 1 <= Len(functors[l])
      BY <1>11, SeqOf DEF CallFunctor
    <3> QED
      BY <1>11, <3>1 DEF CallFunctor
  <2>3. CASE f.op = "established" /\ ups' = ups \cup {f.id}
             /\ UNCHANGED <<downs, removed, connections_, pendingFunctors_>>
    BY <1>11, <2>1, <2>2, <2>3 DEF CallFunctor, roundFrame
  <2>4. CASE connectionDestroyed(f.id) /\ UNCHANGED <<ups, connections_, pendingFunctors_>>
    BY <1>11, <2>1, <2>2, <2>4 DEF CallFunctor, roundFrame, connectionDestroyed
  <2>5. CASE removeConnectionInLoop(f.id) /\ UNCHANGED reportVars
    <3>1. pendingFunctors_' \in [Loops -> Seq(Functors)]
      BY <2>1, <2>5, FunctorType, QueueOnTypes DEF removeConnectionInLoop, DestroyLater
    <3> QED
      BY <1>11, <2>2, <2>5, <3>1 DEF CallFunctor, roundFrame, removeConnectionInLoop, Erased
  <2> QED
    BY <1>11, <2>3, <2>4, <2>5 DEF CallFunctor, f
<1>12. ASSUME NEW l \in Loops, EndFunctors(l) PROVE Types' /\ Counts'
  <2>1. Len(<<>>) = 0 /\ <<>> \in Seq(Functors)
    BY EmptySeq
  <2>2. owner' \in OwnerPoints /\ thread' \in [Threads -> ThreadPoints]
    BY <1>12 DEF EndFunctors, Goto
  <2>3. /\ functors' \in [Loops -> Seq(Functors)] /\ pendingFunctors_' \in [Loops -> Seq(Functors)]
        /\ calls' \in [Loops -> Nat] /\ \A m \in Loops : calls'[m] <= Len(functors'[m])
    BY <1>12, <2>1 DEF EndFunctors
  <2> QED
    BY <1>12, <2>2, <2>3 DEF EndFunctors, roundFrame
<1>13. ASSUME NEW id \in DOMAIN ioLoop, CloseConnection(id) PROVE Types' /\ Counts'
  <2>1. pendingFunctors_' \in [Loops -> Seq(Functors)]
    BY <1>13, FunctorType, QueueOnTypes
    DEF CloseConnection, removeConnectionInLoop, DestroyLater
  <2> QED
    BY <1>13, <2>1 DEF CloseConnection, roundFrame, removeConnectionInLoop, Erased
<1>14. CASE DestroyServer
  BY <1>14 DEF DestroyServer
<1>15. ASSUME NEW id \in connections_, DestroyConnection(id) PROVE Types' /\ Counts'
  <2>1. pendingFunctors_' \in [Loops -> Seq(Functors)]
    BY <1>15, FunctorType, QueueOnTypes DEF DestroyConnection
  <2> QED
    BY <1>15, <2>1 DEF DestroyConnection, connectionDestroyed
<1>16. CASE DestroyPool
  <2>1. /\ current' \in 0 .. MaxThreads + 1 /\ owner' \in {"quit", "gone"}
        /\ waiting' = 0 \/ waiting' = waiting
        /\ listenning_' = FALSE \/ listenning_' = listenning_
    BY <1>16, GoOnTypes DEF DestroyPool
  <2>2. nextConnId_' + waiting' <= MaxConns + 1 /\ waiting' \in Nat
    BY <1>16, <2>1 DEF DestroyPool
  <2>3. loops_' \in Seq(Threads)
    BY <1>16, EmptySeq DEF DestroyPool, poolVars
  <2> QED
    BY <1>16, <2>1, <2>2, <2>3 DEF DestroyPool
<1>17. CASE QuitThread
  BY <1>17 DEF QuitThread
<1>18. CASE Join
  <2>1. /\ current' \in 0 .. MaxThreads + 1 /\ owner' \in {"quit", "gone"}
        /\ waiting' = 0 \/ waiting' = waiting
        /\ listenning_' = FALSE \/ listenning_' = listenning_
    BY <1>18, GoOnTypes DEF Join
  <2>2. nextConnId_' + waiting' <= MaxConns + 1 /\ waiting' \in Nat
    BY <1>18, <2>1 DEF Join
  <2>3. loops_' \in Seq(Threads)
    BY <1>18, EmptySeq DEF Join, poolVars
  <2> QED
    BY <1>18, <2>1, <2>2, <2>3 DEF Join
<1>19. ASSUME NEW i \in Threads, ThreadBegins(i) PROVE Types' /\ Counts'
  BY <1>19 DEF ThreadBegins, threadFrame
<1>20. ASSUME NEW i \in Threads, Publish(i) PROVE Types' /\ Counts'
  BY <1>20 DEF Publish, threadFrame, NotifyOne
<1>21. ASSUME NEW i \in Threads, EnterLoop(i) PROVE Types' /\ Counts'
  BY <1>21 DEF EnterLoop, threadFrame
<1>22. ASSUME NEW i \in Threads, CheckQuit(i) PROVE Types' /\ Counts'
  BY <1>22 DEF CheckQuit, threadFrame, AfterCheck
<1>23. ASSUME NEW i \in Threads, ThreadEnds(i) PROVE Types' /\ Counts'
  BY <1>23, EmptySeq DEF ThreadEnds, threadFrame
<1>24. CASE ClientConnects
  BY <1>24 DEF ClientConnects
<1>25. CASE UNCHANGED vars
  BY <1>25 DEF vars
<1> HIDE <1>0 DEF Types, Counts
<1> QED
  BY <1>1, <1>2, <1>3, <1>4, <1>5, <1>6, <1>7, <1>8, <1>9, <1>10, <1>11, <1>12, <1>13, <1>14,
     <1>15, <1>16, <1>17, <1>18, <1>19, <1>20, <1>21, <1>22, <1>23, <1>24, <1>25
  DEF Next, OwnerStep, StarterStep, BaseStep, UserStep, ThreadStep, RunFunctors, Loops

-----------------------------------------------------------------------------
(* start(), the pool's threads and the destructor.                         *)

\* The index of the next loop stays one of loops_.
LEMMA NextAfterProperties ==
    ASSUME Types, loops_ # <<>>
    PROVE  NextAfter(next_) \in Nat /\ NextAfter(next_) < Len(loops_)
<1>1. Len(loops_) \in Nat /\ Len(loops_) # 0
  BY SeqOf DEF Types
<1> QED
  BY <1>1 DEF Types, NextAfter

\* Steps of the loops, in which neither start() nor the destructor gets on.
LEMMA PoolKept ==
    ASSUME Types, PoolShape, ThreadShape, Contiguous,
           UNCHANGED <<loops_, starter, started_, current, quit_, loop_>>,
           ~Destroying => IF loops_ = <<>> THEN next_' = 0 ELSE next_' < Len(loops_),
           Destroying => connections_' = {},
           owner' = owner \/ {owner, owner'} \subseteq {"outside"} \cup InLoop,
           thread' \in [Threads -> ThreadPoints],
           \A i \in Threads : thread'[i] = thread[i] \/ {thread[i], thread'[i]} \subseteq InLoop
    PROVE  PoolShape' /\ ThreadShape' /\ Contiguous'
<1> USE DEF Serving, Destroying, Published, Creating, InLoop
<1>1. PoolShape'
  BY DEF PoolShape
<1>2. ThreadShape'
  <2> SUFFICES ASSUME NEW i \in Threads PROVE ThreadShape!(i)'
    BY DEF ThreadShape
  <2> QED
    BY DEF ThreadShape
<1>3. Contiguous'
  BY DEF Contiguous
<1> QED
  BY <1>1, <1>2, <1>3

\* The shape of the pool is kept by every step.
LEMMA ShapeStep ==
    ASSUME Types, Types', Counts, PoolShape, ThreadShape, Contiguous, [Next]_vars
    PROVE  PoolShape' /\ ThreadShape' /\ Contiguous'
<1> DEFINE Goal == PoolShape' /\ ThreadShape' /\ Contiguous'
<1> USE DEF startVars, poolVars, acceptVars, threadVars, functorVars, reportVars
<1>0. thread' \in [Threads -> ThreadPoints]
  BY DEF Types
<1>n. /\ ~Destroying => IF loops_ = <<>> THEN next_ = 0 ELSE next_ < Len(loops_)
      /\ Destroying => connections_ = {}
  BY DEF PoolShape
<1>1. ASSUME NEW n \in 0 .. MaxThreads, setThreadNum(n) PROVE Goal
  BY <1>0, <1>n, <1>1, PoolKept DEF setThreadNum
<1>7. CASE EnterBaseLoop
  BY <1>0, <1>n, <1>7, PoolKept DEF EnterBaseLoop, InLoop
<1>8. CASE LeaveBaseLoop
  BY <1>0, <1>n, <1>8, PoolKept DEF LeaveBaseLoop, InLoop
<1>9. CASE PollBase
  <2>1. /\ ~Destroying => IF loops_ = <<>> THEN next_' = 0 ELSE next_' < Len(loops_)
        /\ ~Destroying
    BY <1>9, <1>n, NextAfterProperties DEF PollBase, handleRead, newConnection, Destroying
  <2> QED
    BY <1>0, <1>9, <2>1, PoolKept DEF PollBase, InLoop
<1>10. ASSUME NEW l \in Loops, SwapFunctors(l) \/ EndFunctors(l) PROVE Goal
  <2>1. \/ owner \in InLoop /\ owner' \in InLoop /\ thread' = thread
        \/ /\ owner' = owner /\ thread[l] \in InLoop
           /\ \E p \in InLoop : thread' = [thread EXCEPT ![l] = p]
    BY <1>10 DEF SwapFunctors, EndFunctors, Goto, At, InLoop
  <2>2. \A i \in Threads : thread'[i] = thread[i] \/ {thread[i], thread'[i]} \subseteq InLoop
    BY <2>1 DEF Types
  <2>3. UNCHANGED <<loops_, starter, started_, current, quit_, loop_, next_, connections_>>
    BY <1>10 DEF SwapFunctors, EndFunctors, roundFrame
  <2>4. owner' = owner \/ {owner, owner'} \subseteq {"outside"} \cup InLoop
    BY <2>1
  <2> QED
    BY <1>0, <1>n, <2>2, <2>3, <2>4, PoolKept
<1>11. ASSUME NEW l \in Loops, CallFunctor(l) PROVE Goal
  <2>1. UNCHANGED <<loops_, starter, started_, current, quit_, loop_, next_, owner, thread>>
    BY <1>11 DEF CallFunctor, roundFrame
  <2>2. connections_' \subseteq connections_
    BY <1>11 DEF CallFunctor, removeConnectionInLoop, Erased
  <2> QED
    BY <1>0, <1>n, <2>1, <2>2, PoolKept
<1>13. ASSUME NEW id \in DOMAIN ioLoop, CloseConnection(id) PROVE Goal
  <2>1. UNCHANGED <<loops_, starter, started_, current, quit_, loop_, next_, owner, thread>>
    BY <1>13 DEF CloseConnection, roundFrame
  <2>2. connections_' \subseteq connections_
    BY <1>13 DEF CloseConnection, removeConnectionInLoop, Erased
  <2> QED
    BY <1>0, <1>n, <2>1, <2>2, PoolKept
<1>15. ASSUME NEW id \in connections_, DestroyConnection(id) PROVE Goal
  BY <1>0, <1>n, <1>15, PoolKept DEF DestroyConnection, Destroying
<1>24. CASE ClientConnects
  BY <1>0, <1>n, <1>24, PoolKept DEF ClientConnects
<1>25. CASE UNCHANGED vars
  BY <1>0, <1>n, <1>25, PoolKept DEF vars
<1> USE DEF Serving, Destroying, Published, Creating, InLoop
<1>l. /\ Len(loops_) \in Nat /\ loops_ = <<>> <=> Len(loops_) = 0
      /\ DOMAIN loops_ = 1 .. Len(loops_)
  BY SeqOf DEF Types
<1>i. \A i \in Threads : i \in Nat \ {0} /\ (i <= Len(loops_) \/ i > Len(loops_))
  BY <1>l DEF Threads
<1>2. ASSUME NEW who \in Starters, start(who) PROVE Goal
  <2>1. PoolShape'
    BY <1>2, <1>l DEF PoolShape, Types, start, MayStart
  <2>2. ThreadShape'
    BY <1>2, <1>l DEF PoolShape, ThreadShape, Types, start, MayStart
  <2>3. Contiguous'
    BY <1>2 DEF Contiguous, start
  <2> QED
    BY <2>1, <2>2, <2>3
<1>3. CASE CreateThread
  <2>0. /\ starter = "create" /\ current = Len(loops_) + 1 /\ Serving /\ started_ = 1
        /\ current <= numThreads_ => current \in Threads
    <3>1. starter = "create" /\ current = Len(loops_) + 1 /\ Serving /\ started_ = 1
      BY <1>3 DEF CreateThread, PoolShape
    <3>2. numThreads_ \in 0 .. MaxThreads /\ MaxThreads \in Nat
      BY ServerAssumption DEF Types
    <3>3. current <= numThreads_ => current \in Threads
      BY <1>l, <3>1, <3>2 DEF Threads
    <3> QED
      BY <3>1, <3>3
  <2>1. PoolShape'
    <3>1. CASE current <= numThreads_
      BY <1>3, <2>0, <3>1 DEF PoolShape, CreateThread, startFrame
    <3>2. CASE ~(current <= numThreads_)
      BY <1>3, <2>0, <3>2 DEF PoolShape, CreateThread, startFrame
    <3> QED
      BY <3>1, <3>2
  <2>2. ThreadShape'
    BY <1>3, <1>l DEF PoolShape, ThreadShape, Types, CreateThread, startFrame, Threads
  <2>3. Contiguous'
    <3>1. CASE current <= numThreads_
      <4>1. \A i \in Threads : thread[i] # "none" <=> i <= Len(loops_)
        BY <1>l, <1>i, <2>0 DEF ThreadShape
      <4>2. \A i \in Threads : thread'[i] # "none" <=> i <= Len(loops_) + 1
        BY <1>3, <1>l, <2>0, <3>1, <4>1 DEF CreateThread, Types, Threads
      <4> QED
        BY <1>l, <4>2 DEF Contiguous, Threads
    <3>2. CASE ~(current <= numThreads_)
      BY <1>3, <3>2 DEF Contiguous, CreateThread
    <3> QED
      BY <3>1, <3>2
  <2> QED
    BY <2>1, <2>2, <2>3
<1>4. CASE SemWait
  <2>1. PoolShape'
    BY <1>4 DEF PoolShape, SemWait, startFrame
  <2>2. ThreadShape'
    BY <1>4 DEF ThreadShape, SemWait, startFrame
  <2>3. Contiguous'
    BY <1>4 DEF Contiguous, SemWait
  <2> QED
    BY <2>1, <2>2, <2>3
<1>5. CASE StartLoop
  <2>1. PoolShape'
    BY <1>5 DEF PoolShape, StartLoop, startFrame
  <2>2. ThreadShape'
    BY <1>5 DEF ThreadShape, StartLoop, startFrame, LoopPublished
  <2>3. Contiguous'
    BY <1>5 DEF Contiguous, StartLoop
  <2> QED
    BY <2>1, <2>2, <2>3
<1>6. CASE PushLoop
  <2>1. /\ Len(loops_') = Len(loops_) + 1 /\ loops_' # <<>> /\ loops_'[Len(loops_) + 1] = current
        /\ \A j \in 1 .. Len(loops_) : loops_'[j] = loops_[j]
    <3>1. current \in Threads /\ loops_ \in Seq(Threads) /\ loops_' = Append(loops_, current)
      BY <1>6 DEF PushLoop, Types, PoolShape
    <3> QED
      BY <3>1, AppendProperties
  <2>2. PoolShape'
    BY <1>6, <1>l, <2>1 DEF PoolShape, PushLoop, startFrame, Types
  <2>3. ThreadShape'
    BY <1>6, <1>l, <2>1 DEF PoolShape, ThreadShape, PushLoop, startFrame, Threads
  <2>4. Contiguous'
    BY <1>6 DEF Contiguous, PushLoop
  <2> QED
    BY <2>2, <2>3, <2>4
<1>14. CASE DestroyServer
  <2>1. PoolShape'
    BY <1>14 DEF PoolShape, DestroyServer
  <2>2. ThreadShape'
    BY <1>14 DEF ThreadShape, DestroyServer
  <2>3. Contiguous'
    BY <1>14 DEF Contiguous, DestroyServer
  <2> QED
    BY <2>1, <2>2, <2>3
<1>16. CASE DestroyPool
  <2>1. PoolShape'
    BY <1>16, <1>l, EmptySeq DEF PoolShape, DestroyPool, GoOnDestroying
  <2>2. ThreadShape'
    <3>1. /\ starter = "idle" /\ owner = "destroy"
          /\ \A i \in Threads : thread[i] \in {"none"} \cup Published /\ ~quit_[i]
      BY <1>16, <1>i DEF DestroyPool, PoolShape, ThreadShape
    <3>3. UNCHANGED <<starter, thread, loop_, quit_>> /\ GoOnDestroying(1)
      BY <1>16 DEF DestroyPool
    <3>4. CASE 1 \in Threads /\ thread[1] # "none"
      <4>1. owner' = "quit" /\ current' = 1
        BY <3>3, <3>4 DEF GoOnDestroying
      <4>2. \A i \in Threads : ~(i < 1)
        BY DEF Threads
      <4> QED
        BY <3>1, <3>3, <3>4, <4>1, <4>2 DEF ThreadShape
    <3>5. CASE ~(1 \in Threads /\ thread[1] # "none")
      <4>1. owner' = "gone" /\ current' = 0
        BY <3>3, <3>5 DEF GoOnDestroying
      <4>2. \A i \in Threads : 1 \in Threads /\ (i = 1 \/ 1 < i)
        BY ServerAssumption DEF Threads
      <4>3. \A i \in Threads : thread[i] = "none"
        BY <3>5, <4>2 DEF Contiguous
      <4> QED
        BY <3>1, <3>3, <4>1, <4>3 DEF ThreadShape
    <3> QED
      BY <3>4, <3>5
  <2>3. Contiguous'
    BY <1>16 DEF Contiguous, DestroyPool
  <2> QED
    BY <2>1, <2>2, <2>3
<1>17. CASE QuitThread
  <2>1. PoolShape'
    BY <1>17 DEF PoolShape, QuitThread
  <2>2. ThreadShape'
    BY <1>17 DEF PoolShape, ThreadShape, QuitThread, Types
  <2>3. Contiguous'
    BY <1>17 DEF Contiguous, QuitThread
  <2> QED
    BY <2>1, <2>2, <2>3
<1>18. CASE Join
  <2>1. PoolShape'
    BY <1>18 DEF PoolShape, Join, GoOnDestroying
  <2>2. ThreadShape'
    <3>1. /\ starter = "idle" /\ owner = "join" /\ current \in Threads /\ thread[current] = "ended"
          /\ \A i \in Threads : /\ i < current => thread[i] = "ended"
                              /\ i > current => thread[i] \in {"none"} \cup Published
      BY <1>18 DEF Join, JoinReturns, PoolShape, ThreadShape
    <3>2. UNCHANGED <<starter, thread, loop_, quit_>> /\ GoOnDestroying(current + 1)
      BY <1>18 DEF Join
    <3>3. CASE current + 1 \in Threads /\ thread[current + 1] # "none"
      <4>1. owner' = "quit" /\ current' = current + 1
        BY <3>2, <3>3 DEF GoOnDestroying
      <4>2. \A i \in Threads : i < current + 1 => i < current \/ i = current
        BY <3>1 DEF Threads
      <4>3. \A i \in Threads : i > current + 1 => i > current
        BY <3>1 DEF Threads
      <4>4. current + 1 > current
        BY <3>1 DEF Threads
      <4> QED
        BY <3>1, <3>2, <3>3, <4>1, <4>2, <4>3, <4>4 DEF ThreadShape
    <3>4. CASE ~(current + 1 \in Threads /\ thread[current + 1] # "none")
      <4>1. owner' = "gone" /\ current' = 0
        BY <3>2, <3>4 DEF GoOnDestroying
      <4>0. \A i \in Threads : i > current =>
                current + 1 \in Threads /\ (i = current + 1 \/ current + 1 < i)
        BY <3>1, ServerAssumption DEF Threads
      <4>2. \A i \in Threads : i > current => thread[i] = "none"
        BY <3>4, <4>0 DEF Contiguous
      <4>3. \A i \in Threads : i < current \/ i = current \/ i > current
        BY <3>1 DEF Threads
      <4> QED
        BY <3>1, <3>2, <4>1, <4>2, <4>3 DEF ThreadShape
    <3> QED
      BY <3>3, <3>4
  <2>3. Contiguous'
    BY <1>18 DEF Contiguous, Join
  <2> QED
    BY <2>1, <2>2, <2>3
<1>19. ASSUME NEW i \in Threads, ThreadBegins(i) PROVE Goal
  <2>1. PoolShape'
    BY <1>19 DEF PoolShape, ThreadBegins, threadFrame
  <2>2. ThreadShape'
    BY <1>19 DEF ThreadShape, ThreadBegins, threadFrame, Types
  <2>3. Contiguous'
    BY <1>19 DEF Contiguous, ThreadBegins, Types
  <2> QED
    BY <2>1, <2>2, <2>3
<1>20. ASSUME NEW i \in Threads, Publish(i) PROVE Goal
  <2>1. PoolShape'
    BY <1>20 DEF PoolShape, Publish, threadFrame, NotifyOne
  <2>2. ThreadShape'
    BY <1>20 DEF ThreadShape, Publish, threadFrame, NotifyOne, Types
  <2>3. Contiguous'
    BY <1>20 DEF Contiguous, Publish, Types
  <2> QED
    BY <2>1, <2>2, <2>3
<1>21. ASSUME NEW i \in Threads, EnterLoop(i) PROVE Goal
  <2>1. PoolShape'
    BY <1>21 DEF PoolShape, EnterLoop, threadFrame
  <2>2. ThreadShape'
    BY <1>21 DEF ThreadShape, EnterLoop, threadFrame, Types
  <2>3. Contiguous'
    BY <1>21 DEF Contiguous, EnterLoop, Types
  <2> QED
    BY <2>1, <2>2, <2>3
<1>22. ASSUME NEW i \in Threads, CheckQuit(i) PROVE Goal
  <2>1. PoolShape'
    BY <1>22 DEF PoolShape, CheckQuit, threadFrame
  <2>2. ThreadShape'
    BY <1>22 DEF ThreadShape, CheckQuit, AfterCheck, threadFrame, Types
  <2>3. Contiguous'
    BY <1>22 DEF Contiguous, CheckQuit, AfterCheck, Types
  <2> QED
    BY <2>1, <2>2, <2>3
<1>23. ASSUME NEW i \in Threads, ThreadEnds(i) PROVE Goal
  <2>1. PoolShape'
    BY <1>23 DEF PoolShape, ThreadEnds, threadFrame
  <2>2. ThreadShape'
    BY <1>23 DEF PoolShape, ThreadShape, ThreadEnds, threadFrame, Types
  <2>3. Contiguous'
    BY <1>23 DEF Contiguous, ThreadEnds, Types
  <2> QED
    BY <2>1, <2>2, <2>3
<1> QED
  BY <1>1, <1>2, <1>3, <1>4, <1>5, <1>6, <1>7, <1>8, <1>9, <1>10, <1>11, <1>13, <1>14,
     <1>15, <1>16, <1>17, <1>18, <1>19, <1>20, <1>21, <1>22, <1>23, <1>24, <1>25
  DEF Next, OwnerStep, StarterStep, BaseStep, UserStep, ThreadStep, RunFunctors, Loops

-----------------------------------------------------------------------------
(* The steps, by what they do to the connections.                          *)

(***************************************************************************)
(* Most steps only move a thread: they touch no connection and no functor, *)
(* none leaves a loop in the middle of a batch, and none takes start() or  *)
(* the destructor back.                                                    *)
(***************************************************************************)
Quiet ==
    /\ UNCHANGED <<connections_, pendingFunctors_, functors, calls, ioLoop, ups, downs, removed>>
    /\ owner = "run" => owner' = "run"
    /\ owner' \in {"outside", "start"} \cup InLoop => Serving
    /\ owner' \notin {"quit", "join", "gone"} => ~Destroying /\ Len(loops_) <= Len(loops_')
    /\ \A i \in Threads :
        /\ thread[i] = "run" => thread'[i] = "run"
        /\ thread[i] \in Published => thread'[i] \in Published
        /\ thread[i] = "ended" => thread'[i] = "ended"

\* The steps that are not quiet.
LEMMA StepKinds ==
    ASSUME Types, PoolShape, ThreadShape, [Next]_vars
    PROVE  \/ Quiet
           \/ Accepts
           \/ \E l \in Loops : SwapFunctors(l) \/ CallFunctor(l) \/ EndFunctors(l)
           \/ \E id \in DOMAIN ioLoop : CloseConnection(id)
           \/ \E id \in connections_ : DestroyConnection(id)
           \/ \E i \in Threads : ThreadEnds(i)
<1> USE DEF startVars, poolVars, acceptVars, threadVars, functorVars, reportVars,
            Serving, Destroying, Published, InLoop
<1>l. Len(loops_) \in Nat
  BY SeqOf DEF Types
<1> USE <1>l
<1>1. ASSUME NEW n \in 0 .. MaxThreads, setThreadNum(n) PROVE Quiet
  BY <1>1 DEF Quiet, setThreadNum
<1>2. ASSUME NEW who \in Starters, start(who) PROVE Quiet
  BY <1>2 DEF Quiet, start, MayStart
<1>3. CASE CreateThread
  <2>1. /\ starter = "create" /\ current = Len(loops_) + 1 /\ Serving
        /\ \A i \in Threads : i = current => thread[i] = "none"
    BY <1>3 DEF CreateThread, PoolShape, ThreadShape, Creating
  <2>2. \A i \in Threads : thread'[i] = thread[i] \/ i = current
    BY <1>3 DEF CreateThread, Types
  <2>3. owner' = owner \/ (owner = "start" /\ owner' = "outside")
    BY <1>3 DEF CreateThread
  <2> QED
    BY <1>3, <2>1, <2>2, <2>3 DEF Quiet, CreateThread, startFrame
<1>4. CASE SemWait \/ StartLoop
  BY <1>4 DEF Quiet, SemWait, StartLoop, startFrame
<1>5. CASE PushLoop
  <2>1. Len(loops_) <= Len(loops_')
    <3>1. current \in Threads /\ loops_ \in Seq(Threads) /\ loops_' = Append(loops_, current)
      BY <1>5 DEF PushLoop, Types, PoolShape, Creating
    <3> QED
      BY <3>1, AppendProperties
  <2> QED
    BY <1>5, <2>1 DEF Quiet, PushLoop, startFrame
<1>6. CASE EnterBaseLoop \/ LeaveBaseLoop
  BY <1>6 DEF Quiet, EnterBaseLoop, LeaveBaseLoop
<1>7. CASE PollBase /\ ~Accepts
  BY <1>7 DEF Quiet, PollBase, Accepts, handleRead
<1>8. CASE DestroyServer
  BY <1>8 DEF Quiet, DestroyServer
<1>9. CASE DestroyPool
  <2>1. owner' \in {"quit", "gone"}
    BY <1>9 DEF DestroyPool, GoOnDestroying
  <2> QED
    BY <1>9, <2>1 DEF Quiet, DestroyPool
<1>10. CASE QuitThread
  BY <1>10 DEF Quiet, QuitThread
<1>11. CASE Join
  <2>1. owner' \in {"quit", "gone"}
    BY <1>11 DEF Join, GoOnDestroying
  <2> QED
    BY <1>11, <2>1 DEF Quiet, Join
<1>12. ASSUME NEW i \in Threads, ThreadBegins(i) \/ Publish(i) \/ EnterLoop(i) \/ CheckQuit(i)
       PROVE  Quiet
  <2>1. /\ UNCHANGED <<threadFrame, pendingFunctors_>>
        /\ thread[i] \notin {"run", "ended"}
        /\ \A j \in Threads : thread'[j] = thread[j] \/ j = i
    BY <1>12 DEF Types, ThreadBegins, Publish, EnterLoop, CheckQuit, threadFrame
  <2>2. thread[i] \in Published => thread'[i] \in Published
    BY <1>12 DEF Types, ThreadBegins, Publish, EnterLoop, CheckQuit, AfterCheck
  <2> QED
    BY <2>1, <2>2 DEF Quiet, threadFrame
<1>13. CASE ClientConnects
  BY <1>13 DEF Quiet, ClientConnects
<1>14. CASE UNCHANGED vars
  BY <1>14 DEF Quiet, vars
<1> QED
  BY <1>1, <1>2, <1>3, <1>4, <1>5, <1>6, <1>7, <1>8, <1>9, <1>10, <1>11, <1>12, <1>13, <1>14,
     BaseIsNoThread
  DEF Next, OwnerStep, StarterStep, BaseStep, UserStep, ThreadStep, RunFunctors

-----------------------------------------------------------------------------
(* Where functors are.                                                     *)

\* The functors of the two vectors of a loop.
LEMMA VectorsProperties ==
    ASSUME Types, NEW l \in Loops
    PROVE  /\ pendingFunctors_[l] \in Seq(Functors) /\ functors[l] \in Seq(Functors)
           /\ calls[l] \in 0 .. Len(functors[l])
           /\ \A f \in Functors : Range(Append(pendingFunctors_[l], f))
                                    = Range(pendingFunctors_[l]) \cup {f}
           /\ Range(<<>>) = {}
<1>1. pendingFunctors_[l] \in Seq(Functors) /\ functors[l] \in Seq(Functors)
      /\ calls[l] \in Nat /\ calls[l] <= Len(functors[l])
  BY DEF Types
<1>2. Len(functors[l]) \in Nat
  BY <1>1, SeqOf
<1>3. \A f \in Functors : Range(Append(pendingFunctors_[l], f))
                            = Range(pendingFunctors_[l]) \cup {f}
  BY <1>1, RangeOfAppend
<1>4. Range(<<>>) = {}
  BY DEF Range
<1> QED
  BY <1>1, <1>2, <1>3, <1>4

\* queueInLoop adds one functor to one loop.
LEMMA QueueOnVectors ==
    ASSUME Types, NEW l \in Loops, NEW f \in Functors, QueueOn(l, f)
    PROVE  \A m \in Loops :
                /\ m # l => pendingFunctors_'[m] = pendingFunctors_[m]
                /\ pendingFunctors_'[l] = Append(pendingFunctors_[l], f)
                /\ \A g \in Range(pendingFunctors_'[m]) :
                        g \in Range(pendingFunctors_[m]) \/ (m = l /\ g = f)
<1>1. \A m \in Loops : pendingFunctors_'[m] = IF m = l THEN Append(pendingFunctors_[l], f)
                                              ELSE pendingFunctors_[m]
  BY DEF QueueOn, Types
<1>2. Range(Append(pendingFunctors_[l], f)) = Range(pendingFunctors_[l]) \cup {f}
  BY VectorsProperties
<1> QED
  BY <1>1, <1>2

\* A functor that a loop has may stay there.
LEMMA BelongsKept ==
    ASSUME NEW f, NEW l, Belongs(f, l, ioLoop, downs),
           DOMAIN ioLoop \subseteq DOMAIN ioLoop',
           \A id \in DOMAIN ioLoop : ioLoop'[id] = ioLoop[id],
           downs \subseteq downs'
    PROVE  Belongs(f, l, ioLoop', downs')
BY DEF Belongs

\* Accepting numbers one more connection.
LEMMA AcceptsIds ==
    ASSUME Types, Counts, PoolShape, Accepts
    PROVE  /\ ~Destroying /\ owner = "check" /\ owner' = "poll"
           /\ getNextLoop \in Loops /\ getNextLoop \in {Base} \cup 1 .. Len(loops_)
           /\ nextConnId_ \in Conns /\ nextConnId_ \notin DOMAIN ioLoop
           /\ newConnection /\ ioLoop' \in Seq(Loops)
           /\ DOMAIN ioLoop' = DOMAIN ioLoop \cup {nextConnId_}
           /\ \A id \in DOMAIN ioLoop : ioLoop'[id] = ioLoop[id]
           /\ ioLoop'[nextConnId_] = getNextLoop
<1>1. owner = "check" /\ owner' = "poll" /\ waiting > 0 /\ newConnection
  BY DEF Accepts, PollBase, ClientWaits, handleRead
<1>2. ~Destroying
  BY <1>1 DEF Destroying
<1>3. /\ getNextLoop \in Loops /\ getNextLoop \in {Base} \cup 1 .. Len(loops_)
      /\ nextConnId_ \in Conns /\ nextConnId_ \notin DOMAIN ioLoop
      /\ DOMAIN ioLoop = 1 .. nextConnId_ - 1
  BY <1>1, <1>2, NextLoopExists, IdsProperties
<1>4. ioLoop \in Seq(Loops) /\ Len(ioLoop) = nextConnId_ - 1 /\ nextConnId_ \in Nat \ {0}
      /\ ioLoop' = Append(ioLoop, getNextLoop)
  BY <1>1 DEF Types, Counts, newConnection
<1>5. /\ ioLoop' \in Seq(Loops) /\ Len(ioLoop') = Len(ioLoop) + 1
      /\ \A id \in 1 .. Len(ioLoop) : ioLoop'[id] = ioLoop[id]
      /\ ioLoop'[Len(ioLoop) + 1] = getNextLoop
  BY <1>3, <1>4, AppendProperties
<1>6. DOMAIN ioLoop' = 1 .. Len(ioLoop')
  BY <1>5, SeqOf
<1>7. DOMAIN ioLoop' = DOMAIN ioLoop \cup {nextConnId_}
  BY <1>3, <1>4, <1>5, <1>6
<1>8. ioLoop'[nextConnId_] = getNextLoop /\ \A id \in DOMAIN ioLoop : ioLoop'[id] = ioLoop[id]
  BY <1>3, <1>4, <1>5
<1> QED
  BY <1>1, <1>2, <1>3, <1>5, <1>7, <1>8

\* A functor goes to a loop that has it called, or to the base loop.
LEMMA TargetIsPublished ==
    ASSUME Types, ThreadShape, ~Destroying, NEW l \in {Base} \cup 1 .. Len(loops_), l \in Loops
    PROVE  l # Base => l \in Threads /\ thread[l] \in Published
<1>1. Len(loops_) \in Nat
  BY SeqOf DEF Types
<1> QED
  BY <1>1, BaseIsNoThread DEF ThreadShape

\* A step that only queues a functor where it belongs.
LEMMA PutVectors ==
    ASSUME Types, QueueShape, FunctorsBelong, NEW t \in Loops, NEW f \in Functors,
           QueueOn(t, f), UNCHANGED <<functors, owner, thread, loops_, ioLoop>>,
           \A l \in Loops : ~At(l, "run") => calls'[l] = calls[l],
           t # Base => thread[t] \in Published,
           downs \subseteq downs', Belongs(f, t, ioLoop, downs')
    PROVE  QueueShape' /\ FunctorsBelong'
<1>1. \A m \in Loops :
            /\ m # t => pendingFunctors_'[m] = pendingFunctors_[m]
            /\ \A g \in Range(pendingFunctors_'[m]) :
                    g \in Range(pendingFunctors_[m]) \/ (m = t /\ g = f)
  BY QueueOnVectors
<1>2. QueueShape'
  BY <1>1, BaseIsNoThread DEF QueueShape, At, Destroying
<1>3. FunctorsBelong'
  BY <1>1, BelongsKept DEF FunctorsBelong
<1> QED
  BY <1>2, <1>3

\* Every step leaves every loop with functors that belong to it.
LEMMA VectorsStep ==
    ASSUME Types, Types', Counts, PoolShape, ThreadShape, QueueShape, FunctorsBelong, [Next]_vars
    PROVE  QueueShape' /\ FunctorsBelong'
<1> DEFINE In(l) == Range(pendingFunctors_[l]) \cup Range(functors[l])
           In1(l) == Range(pendingFunctors_'[l]) \cup Range(functors'[l])
<1> USE DEF startVars, poolVars, acceptVars, threadVars, functorVars, reportVars
<1>b. Base \in Loops /\ Base \notin Threads /\ Threads = Loops \ {Base} /\ Len(loops_) \in Nat
  BY BaseIsNoThread, SeqOf DEF Types
<1>io. DOMAIN ioLoop \subseteq Conns /\ \A id \in DOMAIN ioLoop : ioLoop[id] \in Loops
  BY IdsProperties
<1>g. ASSUME DOMAIN ioLoop \subseteq DOMAIN ioLoop',
             \A id \in DOMAIN ioLoop : ioLoop'[id] = ioLoop[id], downs \subseteq downs',
             \A l \in Loops : \A f \in In1(l) : f \in In(l) \/ Belongs(f, l, ioLoop', downs')
      PROVE  FunctorsBelong'
  BY <1>g, BelongsKept DEF FunctorsBelong
<1>1. CASE Quiet
  <2>1. QueueShape'
    <3>1. \A l \in Loops : At(l, "run") => IF l = Base THEN owner' = "run" ELSE thread'[l] = "run"
      BY <1>1, <1>b DEF Quiet, At
    <3>2. owner' \notin {"quit", "join", "gone"} => 1 .. Len(loops_) \subseteq 1 .. Len(loops_')
      <4>1. Len(loops_') \in Nat
        BY SeqOf DEF Types
      <4> QED
        BY <1>1, <1>b, <4>1 DEF Quiet
    <3> QED
      BY <1>1, <3>1, <3>2 DEF Quiet, QueueShape, At, Destroying
  <2>2. FunctorsBelong'
    BY <1>1, <1>g DEF Quiet
  <2> QED
    BY <2>1, <2>2
<1>2. CASE Accepts
  <2> DEFINE t == getNextLoop  f == Functor("established", nextConnId_)
  <2>1. /\ ~Destroying /\ owner = "check" /\ owner' = "poll"
        /\ t \in Loops /\ t \in {Base} \cup 1 .. Len(loops_)
        /\ nextConnId_ \in Conns /\ newConnection
        /\ DOMAIN ioLoop' = DOMAIN ioLoop \cup {nextConnId_}
        /\ \A id \in DOMAIN ioLoop : ioLoop'[id] = ioLoop[id]
        /\ ioLoop'[nextConnId_] = t
    BY <1>2, AcceptsIds
  <2>2. f \in Functors /\ f.op = "established" /\ f.id = nextConnId_
    BY <2>1, FunctorType DEF Functor
  <2>3. UNCHANGED <<functors, calls, thread, loops_, downs>>
    BY <1>2 DEF Accepts, PollBase
  <2>4. t # Base => t \in Threads /\ thread[t] \in Published
    BY <2>1, TargetIsPublished
  <2>5. CASE t = Base
    <3>1. UNCHANGED pendingFunctors_
      BY <2>1, <2>5 DEF newConnection
    <3>2. QueueShape'
      BY <2>1, <2>3, <2>5, <3>1 DEF QueueShape, At, Destroying
    <3>3. FunctorsBelong'
      BY <2>1, <2>3, <3>1, <1>g
    <3> QED
      BY <3>2, <3>3
  <2>6. CASE t # Base
    <3>1. QueueOn(t, f)
      BY <2>1, <2>6 DEF newConnection
    <3> HIDE DEF t, f
    <3>2. \A m \in Loops :
                /\ m # t => pendingFunctors_'[m] = pendingFunctors_[m]
                /\ \A g \in Range(pendingFunctors_'[m]) :
                        g \in Range(pendingFunctors_[m]) \/ (m = t /\ g = f)
      BY <2>1, <2>2, <3>1, QueueOnVectors
    <3>3. QueueShape'
      BY <2>1, <2>3, <2>4, <2>6, <3>2, <1>b DEF QueueShape, At, Destroying
    <3>4. Belongs(f, t, ioLoop', downs')
      BY <2>1, <2>2, <2>6 DEF Belongs
    <3>5. \A l \in Loops : \A g \in In1(l) : g \in In(l) \/ Belongs(g, l, ioLoop', downs')
      BY <2>3, <3>2, <3>4
    <3>6. FunctorsBelong'
      BY <2>1, <2>3, <3>5, <1>g
    <3> QED
      BY <3>3, <3>6
  <2> QED
    BY <2>5, <2>6
<1>3. ASSUME NEW l \in Loops, SwapFunctors(l) PROVE QueueShape' /\ FunctorsBelong'
  <2>1. /\ \A m \in Loops : functors'[m] = IF m = l THEN pendingFunctors_[l] ELSE functors[m]
        /\ \A m \in Loops : pendingFunctors_'[m] = IF m = l THEN <<>> ELSE pendingFunctors_[m]
        /\ UNCHANGED <<calls, ioLoop, downs, loops_>>
    BY <1>3 DEF SwapFunctors, roundFrame, Types
  <2>2. \A m \in Loops : \A f \in In1(m) : f \in In(m)
    BY <2>1, VectorsProperties
  <2>3. FunctorsBelong'
    BY <2>1, <2>2, <1>g
  <2>4. QueueShape'
    <3>1. CASE l = Base
      <4>1. owner = "poll" /\ owner' = "run" /\ thread' = thread
        BY <1>3, <3>1 DEF SwapFunctors, At, Goto
      <4> QED
        BY <4>1, <3>1, <2>1, <1>b DEF QueueShape, At, Destroying
    <3>2. CASE l # Base
      <4>1. l \in Threads /\ owner' = owner
            /\ \A i \in Threads : thread'[i] = IF i = l THEN "run" ELSE thread[i]
        BY <1>3, <3>2, <1>b, BaseIsNoThread DEF SwapFunctors, At, Goto, Types
      <4> QED
        BY <4>1, <3>2, <2>1, <1>b DEF QueueShape, At, Destroying
    <3> QED
      BY <3>1, <3>2
  <2> QED
    BY <2>3, <2>4
<1>4. ASSUME NEW l \in Loops, EndFunctors(l) PROVE QueueShape' /\ FunctorsBelong'
  <2>1. /\ \A m \in Loops : functors'[m] = IF m = l THEN <<>> ELSE functors[m]
        /\ \A m \in Loops : calls'[m] = IF m = l THEN 0 ELSE calls[m]
        /\ UNCHANGED <<pendingFunctors_, ioLoop, downs, loops_>>
    BY <1>4 DEF EndFunctors, roundFrame, Types
  <2>2. \A m \in Loops : \A f \in In1(m) : f \in In(m)
    BY <2>1, VectorsProperties
  <2>3. FunctorsBelong'
    BY <2>1, <2>2, <1>g
  <2>4. QueueShape'
    <3>1. CASE l = Base
      <4>1. owner = "run" /\ owner' = "check" /\ thread' = thread
        BY <1>4, <3>1 DEF EndFunctors, At, Goto
      <4> QED
        BY <4>1, <3>1, <2>1, <1>b DEF QueueShape, At, Destroying
    <3>2. CASE l # Base
      <4>1. l \in Threads /\ owner' = owner
            /\ \A i \in Threads : thread'[i] = IF i = l THEN "check" ELSE thread[i]
        BY <1>4, <3>2, <1>b, BaseIsNoThread DEF EndFunctors, At, Goto, Types
      <4> QED
        BY <4>1, <3>2, <2>1, <1>b DEF QueueShape, At, Destroying, Published, InLoop
    <3> QED
      BY <3>1, <3>2
  <2> QED
    BY <2>3, <2>4
<1>5. ASSUME NEW l \in Loops, CallFunctor(l) PROVE QueueShape' /\ FunctorsBelong'
  <2> DEFINE f == functors[l][calls[l] + 1]
  <2>1. f \in Functors /\ Belongs(f, l, ioLoop, downs) /\ At(l, "run")
    BY <1>5, CalledFunctor DEF CallFunctor, FunctorsBelong
  <2>2. /\ UNCHANGED <<functors, owner, thread, loops_, ioLoop>> /\ downs \subseteq downs'
        /\ \A m \in Loops : m # l => calls'[m] = calls[m]
    BY <1>5 DEF CallFunctor, roundFrame, connectionDestroyed, Types
  <2>3. CASE f.op = "remove" /\ removeConnectionInLoop(f.id)
    <3>1. /\ l = Base /\ f.id \in DOMAIN ioLoop /\ f.id \in downs /\ ioLoop[f.id] # Base
          /\ ioLoop[f.id] \in Loops
      BY <2>1, <2>3, <1>io DEF Belongs
    <3>2. owner = "run" /\ ~Destroying
      BY <2>1, <3>1 DEF At, Destroying
    <3>3. ioLoop[f.id] \in Threads /\ thread[ioLoop[f.id]] \in Published
      BY <3>1, <3>2, TargetIsPublished DEF QueueShape
    <3> DEFINE d == Functor("destroyed", f.id)
    <3>4. d \in Functors /\ d.op = "destroyed" /\ d.id = f.id /\ QueueOn(ioLoop[f.id], d)
      BY <2>3, <3>1, <1>io, FunctorType DEF removeConnectionInLoop, DestroyLater, Functor
    <3> HIDE DEF f, d
    <3>5. Belongs(d, ioLoop[f.id], ioLoop, downs')
      BY <3>1, <3>4 DEF Belongs
    <3> QED
      BY <2>1, <2>2, <3>1, <3>3, <3>4, <3>5, PutVectors
  <2>4. CASE UNCHANGED pendingFunctors_
    <3> HIDE DEF f
    <3>1. QueueShape'
      BY <2>1, <2>2, <2>4 DEF QueueShape, At, Destroying
    <3>2. FunctorsBelong'
      BY <2>2, <2>4, <1>g
    <3> QED
      BY <3>1, <3>2
  <2> QED
    BY <1>5, <2>3, <2>4 DEF CallFunctor
<1>6. ASSUME NEW id \in DOMAIN ioLoop, CloseConnection(id) PROVE QueueShape' /\ FunctorsBelong'
  <2> DEFINE d == Functor("destroyed", id)  r == Functor("remove", id)
  <2>1. /\ d \in Functors /\ r \in Functors /\ d.id = id /\ r.id = id
        /\ d.op = "destroyed" /\ r.op = "remove"
    BY <1>io, FunctorType DEF Functor
  <2>2. /\ UNCHANGED <<functors, calls, owner, thread, loops_, ioLoop>> /\ downs \subseteq downs'
        /\ id \in downs'
    BY <1>6 DEF CloseConnection, roundFrame
  <2>3. IF ioLoop[id] = Base THEN QueueOn(Base, d) ELSE QueueOn(Base, r)
    BY <1>6 DEF CloseConnection, removeConnectionInLoop, DestroyLater
  <2> HIDE DEF d, r
  <2>4. CASE ioLoop[id] = Base
    <3>1. Belongs(d, Base, ioLoop, downs')
      BY <2>1, <2>2, <2>4 DEF Belongs
    <3> QED
      BY <2>1, <2>2, <2>3, <2>4, <3>1, <1>b, PutVectors
  <2>5. CASE ioLoop[id] # Base
    <3>1. Belongs(r, Base, ioLoop, downs')
      BY <2>1, <2>2, <2>5 DEF Belongs
    <3> QED
      BY <2>1, <2>2, <2>3, <2>5, <3>1, <1>b, PutVectors
  <2> QED
    BY <2>4, <2>5
<1>7. ASSUME NEW id \in connections_, DestroyConnection(id) PROVE QueueShape' /\ FunctorsBelong'
  <2>1. /\ UNCHANGED <<functors, calls, owner, thread, loops_, ioLoop>> /\ downs \subseteq downs'
        /\ owner = "destroy" /\ id \in DOMAIN ioLoop
    BY <1>7 DEF DestroyConnection, connectionDestroyed, Counts
  <2>2. CASE ioLoop[id] = Base
    <3>1. UNCHANGED pendingFunctors_
      BY <1>7, <2>2 DEF DestroyConnection, RunsHere
    <3>2. QueueShape'
      BY <2>1, <3>1 DEF QueueShape, At, Destroying
    <3>3. FunctorsBelong'
      BY <2>1, <3>1, <1>g
    <3> QED
      BY <3>2, <3>3
  <2>3. CASE ioLoop[id] # Base
    <3> DEFINE d == Functor("destroyed", id)
    <3>1. d \in Functors /\ d.id = id /\ d.op = "destroyed" /\ QueueOn(ioLoop[id], d)
      BY <1>7, <2>1, <2>3, <1>io, FunctorType DEF DestroyConnection, RunsHere, Functor
    <3>2. ioLoop[id] \in Loops /\ thread[ioLoop[id]] \in Published
      BY <2>1, <2>3, <1>io, TargetIsPublished DEF QueueShape, Destroying
    <3> HIDE DEF d
    <3>3. Belongs(d, ioLoop[id], ioLoop, downs')
      BY <2>1, <2>3, <3>1 DEF Belongs
    <3> QED
      BY <2>1, <3>1, <3>2, <3>3, PutVectors
  <2> QED
    BY <2>2, <2>3
<1>8. ASSUME NEW i \in Threads, ThreadEnds(i) PROVE QueueShape' /\ FunctorsBelong'
  <2>1. /\ \A l \in Loops : pendingFunctors_'[l] = IF l = i THEN <<>> ELSE pendingFunctors_[l]
        /\ \A j \in Threads : thread'[j] = IF j = i THEN "ended" ELSE thread[j]
        /\ UNCHANGED <<functors, calls, ioLoop, downs, owner, loops_>> /\ thread[i] = "left"
    BY <1>8 DEF ThreadEnds, threadFrame, Types
  <2>2. QueueShape'
    BY <2>1, <1>b DEF QueueShape, At, Destroying
  <2>3. \A l \in Loops : \A f \in In1(l) : f \in In(l)
    BY <2>1, VectorsProperties
  <2>4. FunctorsBelong'
    BY <2>1, <2>3, <1>g
  <2> QED
    BY <2>2, <2>4
<1> QED
  BY <1>1, <1>2, <1>3, <1>4, <1>5, <1>6, <1>7, <1>8, StepKinds

-----------------------------------------------------------------------------
(* What the steps do to the queues.                                        *)

\* One more functor at the end of the queue of l.
PutAt(l, f) == Queues'[l] = Queues[l] \o <<f>>

\* The first functor of the queue of l is gone.
TakenAt(l, f) == Queues[l] = <<f>> \o Queues'[l]

QueuesKept(S) == \A m \in Loops \ S : Queues'[m] = Queues[m]

\* A queue is what is left of a batch, and what is pending.
LEMMA QueuesAre ==
    /\ \A l \in Loops : Queues[l] = Rest(functors[l], calls[l], pendingFunctors_[l])
    /\ \A l \in Loops : Queues'[l] = Rest(functors'[l], calls'[l], pendingFunctors_'[l])
BY DEF Queues, Queue, Rest

\* The queues are sequences of functors that belong to their loops.
LEMMA QueuesProperties ==
    ASSUME Types, NEW l \in Loops
    PROVE  /\ Queues[l] \in Seq(Functors)
           /\ \A f : Holds(Queues[l], f) => f \in Range(pendingFunctors_[l]) \cup Range(functors[l])
           /\ FunctorsBelong =>
                \A f : Holds(Queues[l], f) => f \in Functors /\ Belongs(f, l, ioLoop, downs)
<1>1. /\ pendingFunctors_[l] \in Seq(Functors) /\ functors[l] \in Seq(Functors)
      /\ calls[l] \in 0 .. Len(functors[l])
  BY VectorsProperties
<1>2. /\ Queues[l] \in Seq(Functors)
      /\ Range(Queues[l]) \subseteq Range(functors[l]) \cup Range(pendingFunctors_[l])
  BY <1>1, QueuesAre, RestProperties
<1>3. \A f : Holds(Queues[l], f) => f \in Functors /\ f \in Range(Queues[l])
  BY <1>2, SeqOf DEF Holds
<1> QED
  BY <1>2, <1>3 DEF FunctorsBelong

\* They still are after a step.
LEMMA QueuesPropertiesPrimed ==
    ASSUME Types', NEW l \in Loops
    PROVE  /\ Queues'[l] \in Seq(Functors)
           /\ \A f : Holds(Queues'[l], f) =>
                f \in Range(pendingFunctors_'[l]) \cup Range(functors'[l])
<1>1. /\ pendingFunctors_'[l] \in Seq(Functors) /\ functors'[l] \in Seq(Functors)
      /\ calls'[l] \in Nat /\ calls'[l] <= Len(functors'[l])
  BY DEF Types
<1>2. calls'[l] \in 0 .. Len(functors'[l])
  BY <1>1, SeqOf
<1>3. /\ Queues'[l] \in Seq(Functors)
      /\ Range(Queues'[l]) \subseteq Range(functors'[l]) \cup Range(pendingFunctors_'[l])
  BY <1>1, <1>2, QueuesAre, RestProperties
<1> QED
  BY <1>3, SeqOf DEF Holds

\* Nothing but a swap or the end of a batch, or nothing at all, leaves them alone.
LEMMA QueuesUntouched ==
    ASSUME UNCHANGED <<pendingFunctors_, functors, calls>>
    PROVE  QueuesKept({})
BY QueuesAre DEF QueuesKept

\* doPendingFunctors takes and leaves a batch without changing what is queued.
LEMMA BatchKeepsQueues ==
    ASSUME Types, QueueShape, NEW l \in Loops, SwapFunctors(l) \/ EndFunctors(l)
    PROVE  QueuesKept({})
<1> SUFFICES ASSUME NEW m \in Loops PROVE Queues'[m] = Queues[m]
  BY DEF QueuesKept
<1>1. /\ pendingFunctors_[m] \in Seq(Functors) /\ functors[m] \in Seq(Functors)
      /\ calls[m] \in 0 .. Len(functors[m])
  BY VectorsProperties
<1>2. CASE SwapFunctors(l)
  <2>1. /\ functors'[m] = IF m = l THEN pendingFunctors_[m] ELSE functors[m]
        /\ pendingFunctors_'[m] = IF m = l THEN <<>> ELSE pendingFunctors_[m]
        /\ calls'[m] = calls[m]
    BY <1>2 DEF SwapFunctors, Types
  <2>2. m = l => functors[m] = <<>> /\ calls[m] = 0
    BY <1>2 DEF SwapFunctors, QueueShape, At
  <2>3. /\ Rest(<<>>, 0, pendingFunctors_[m]) = pendingFunctors_[m]
        /\ Rest(pendingFunctors_[m], 0, <<>>) = pendingFunctors_[m]
    BY <1>1, RestOfNothing
  <2> QED
    BY <2>1, <2>2, <2>3, QueuesAre
<1>3. CASE EndFunctors(l)
  <2>1. /\ functors'[m] = IF m = l THEN <<>> ELSE functors[m]
        /\ pendingFunctors_'[m] = pendingFunctors_[m]
        /\ calls'[m] = IF m = l THEN 0 ELSE calls[m]
    BY <1>3 DEF EndFunctors, Types
  <2>2. m = l => calls[m] = Len(functors[m])
    BY <1>3 DEF EndFunctors
  <2>3. /\ Rest(<<>>, 0, pendingFunctors_[m]) = pendingFunctors_[m]
        /\ Rest(functors[m], Len(functors[m]), pendingFunctors_[m]) = pendingFunctors_[m]
    BY <1>1, RestOfNothing
  <2> QED
    BY <2>1, <2>2, <2>3, QueuesAre
<1> QED
  BY <1>2, <1>3

\* queueInLoop puts a functor at the end of one queue.
LEMMA QueueOnPuts ==
    ASSUME Types, NEW l \in Loops, NEW f \in Functors, QueueOn(l, f),
           functors'[l] = functors[l], calls'[l] = calls[l]
    PROVE  PutAt(l, f)
<1>1. /\ pendingFunctors_[l] \in Seq(Functors) /\ functors[l] \in Seq(Functors)
      /\ calls[l] \in 0 .. Len(functors[l])
  BY VectorsProperties
<1>2. pendingFunctors_'[l] = Append(pendingFunctors_[l], f)
  BY QueueOnVectors
<1> DEFINE p == pendingFunctors_[l]
           q == SubSeq(functors[l], calls[l] + 1, Len(functors[l]))
<1>3. p \in Seq(Functors) /\ q \in Seq(Functors) /\ <<f>> \in Seq(Functors)
  <2>1. q \in Seq(Functors)
    BY <1>1, RestProperties
  <2> HIDE DEF q
  <2> QED
    BY <1>1, <2>1
<1>4. Queues[l] = q \o p /\ Queues'[l] = q \o Append(p, f)
  BY <1>2, QueuesAre DEF Rest
<1> HIDE DEF p, q
<1>5. Append(p, f) = p \o <<f>>
  BY <1>3, AppendIsConcat
<1>6. q \o (p \o <<f>>) = (q \o p) \o <<f>>
  BY <1>3, ConcatAssociative
<1> QED
  BY <1>4, <1>5, <1>6, Zenon DEF PutAt

\* A call takes the first functor of one queue.
LEMMA CallTakes ==
    ASSUME Types, NEW l \in Loops, CallFunctor(l), pendingFunctors_'[l] = pendingFunctors_[l]
    PROVE  TakenAt(l, functors[l][calls[l] + 1])
<1> DEFINE f == functors[l][calls[l] + 1]
<1>1. /\ pendingFunctors_[l] \in Seq(Functors) /\ functors[l] \in Seq(Functors)
      /\ calls[l] \in 0 .. Len(functors[l])
  BY VectorsProperties
<1>2. functors'[l] = functors[l] /\ calls'[l] = calls[l] + 1 /\ calls[l] < Len(functors[l])
  BY DEF CallFunctor, Types
<1>3. /\ Rest(functors[l], calls[l] + 1, pendingFunctors_[l]) \in Seq(Functors) /\ f \in Functors
      /\ Rest(functors[l], calls[l], pendingFunctors_[l])
            = <<f>> \o Rest(functors[l], calls[l] + 1, pendingFunctors_[l])
  BY <1>1, <1>2, RestTail
<1> HIDE DEF f
<1>4. TakenAt(l, f)
  BY <1>2, <1>3, QueuesAre DEF TakenAt
<1> QED
  BY <1>4 DEF f

-----------------------------------------------------------------------------
(* The life of a connection.                                               *)

\* A functor is its operation and its connection.
LEMMA FunctorForm ==
    /\ \A f \in Functors : f = Functor(f.op, f.id)
    /\ \A op, id : Functor(op, id).op = op /\ Functor(op, id).id = id
BY DEF Functors, Functor

\* More connections up is no harm to the order.
LEMMA OrderedMonotone ==
    ASSUME NEW q, NEW up, NEW upper, Ordered(q, up), up \subseteq upper
    PROVE  Ordered(q, upper)
BY DEF Ordered

Life == UpFirst /\ Somewhere /\ Once

\* What the life of the connections is about.
LEMMA LifeContext ==
    ASSUME Types, Counts, FunctorsBelong
    PROVE  /\ Base \in Loops /\ Threads = Loops \ {Base}
           /\ \A id \in DOMAIN ioLoop : ioLoop[id] \in Loops /\ id \in Conns
           /\ \A l \in Loops : Queues[l] \in Seq(Functors)
           /\ \A l \in Loops : \A f :
                Holds(Queues[l], f) => f \in Functors /\ Belongs(f, l, ioLoop, downs)
BY BaseIsNoThread, IdsProperties, QueuesProperties

\* Steps that leave connections and queues alone.
LEMMA LifeKept ==
    ASSUME Types, Counts, FunctorsBelong, Life, QueuesKept({}),
           UNCHANGED <<connections_, ioLoop, ups, downs, removed>>,
           owner' \in {"outside", "start"} \cup InLoop => Serving,
           \A i \in Threads : thread[i] = "ended" => thread'[i] = "ended"
    PROVE  Life'
<1>0. /\ Base \in Loops /\ Threads = Loops \ {Base}
      /\ \A id \in DOMAIN ioLoop : ioLoop[id] \in Loops
      /\ \A l \in Loops : Queues'[l] = Queues[l]
  BY LifeContext DEF QueuesKept
<1>1. UpFirst'
  BY <1>0 DEF Life, UpFirst, Queued
<1>2. Somewhere'
  BY <1>0 DEF Life, Somewhere, Queued
<1>3. Once'
  BY <1>0 DEF Life, Once, Serving, Queued
<1> QED
  BY <1>1, <1>2, <1>3 DEF Life

\* What is queued after a functor has been queued.
LEMMA QueuedAfterPut ==
    ASSUME Types, NEW l \in Loops, NEW f \in Functors, PutAt(l, f), QueuesKept({l})
    PROVE  /\ \A m \in Loops : \A g :
                Holds(Queues'[m], g) <=> Holds(Queues[m], g) \/ (m = l /\ g = f)
           /\ \A up : /\ \A m \in Loops : Ordered(Queues[m], up)
                      /\ f.op = "destroyed" => \/ f.id \in up
                                               \/ Holds(Queues[l], Functor("established", f.id))
                      => \A m \in Loops : Ordered(Queues'[m], up)
           /\ /\ \A m \in Loops : Distinct(Queues[m])
              /\ f.op # "established" => ~Holds(Queues[l], f)
              => \A m \in Loops : Distinct(Queues'[m])
<1>1. Queues[l] \in Seq(Functors)
  BY QueuesProperties
<1>2. /\ \A g : Holds(Queues'[l], g) <=> Holds(Queues[l], g) \/ g = f
      /\ \A up : (f.op = "destroyed" => \/ f.id \in up
                                        \/ Holds(Queues[l], Functor("established", f.id)))
                    /\ Ordered(Queues[l], up) => Ordered(Queues'[l], up)
      /\ (f.op # "established" => ~Holds(Queues[l], f)) /\ Distinct(Queues[l])
            => Distinct(Queues'[l])
  BY <1>1, PutInQueue DEF PutAt
<1>3. \A m \in Loops \ {l} : Queues'[m] = Queues[m]
  BY DEF QueuesKept
<1> QED
  BY <1>2, <1>3

\* What is queued after a functor has been taken.
LEMMA QueuedAfterTake ==
    ASSUME Types', NEW l \in Loops, NEW f \in Functors, TakenAt(l, f), NEW up
    PROVE  /\ \A g : Holds(Queues[l], g) <=> Holds(Queues'[l], g) \/ g = f
           /\ Ordered(Queues[l], up) => /\ f.op = "destroyed" => f.id \in up
                                        /\ f.op # "established" => Ordered(Queues'[l], up)
                                        /\ Ordered(Queues'[l], up \cup {f.id})
           /\ Distinct(Queues[l]) => /\ Distinct(Queues'[l])
                                     /\ f.op # "established" => ~Holds(Queues'[l], f)
<1>1. Queues'[l] \in Seq(Functors)
  BY QueuesPropertiesPrimed
<1> QED
  BY <1>1, TakeFromQueue DEF TakenAt

\* queueInLoop in a step that does nothing else to the queues.
LEMMA QueueOnEffect ==
    ASSUME Types, NEW l \in Loops, NEW f \in Functors, QueueOn(l, f), UNCHANGED <<functors, calls>>
    PROVE  PutAt(l, f) /\ QueuesKept({l})
<1>1. PutAt(l, f)
  BY QueueOnPuts
<1>2. \A m \in Loops \ {l} : pendingFunctors_'[m] = pendingFunctors_[m]
  BY QueueOnVectors
<1> QED
  BY <1>1, <1>2, QueuesAre DEF QueuesKept

\* A new connection is in the map, and up or about to be.
LEMMA LifeAccept ==
    ASSUME Types, Counts, PoolShape, FunctorsBelong, Life, Accepts
    PROVE  Life'
<1> DEFINE t == getNextLoop  n == nextConnId_  f == Functor("established", nextConnId_)
<1>1. /\ owner = "check" /\ t \in Loops /\ n \in Conns /\ n \notin DOMAIN ioLoop /\ newConnection
      /\ DOMAIN ioLoop' = DOMAIN ioLoop \cup {n}
      /\ \A id \in DOMAIN ioLoop : ioLoop'[id] = ioLoop[id]
      /\ ioLoop'[n] = t
  BY AcceptsIds
<1>2. UNCHANGED <<functors, calls, thread, downs, removed>> /\ connections_' = connections_ \cup {n}
  BY <1>1 DEF Accepts, PollBase, newConnection, functorVars, threadVars
<1>3. /\ Base \in Loops /\ Threads = Loops \ {Base}
      /\ \A id \in DOMAIN ioLoop : ioLoop[id] \in Loops /\ id \in Conns
      /\ \A l \in Loops : \A g :
            Holds(Queues[l], g) => g \in Functors /\ Belongs(g, l, ioLoop, downs)
  BY LifeContext
<1>4. f \in Functors /\ f.op = "established" /\ f.id = n
  BY <1>1, FunctorType, FunctorForm
<1>5. n \notin removed /\ n \notin downs /\ connections_ \subseteq DOMAIN ioLoop
  BY <1>1 DEF Counts, Life, UpFirst
<1>6. /\ t = Base => n \in ups'
      /\ t # Base => Holds(Queues'[t], f)
      /\ ups \subseteq ups'
      /\ \A m \in Loops : Ordered(Queues'[m], ups') /\ Distinct(Queues'[m])
      /\ \A m \in Loops : \A g : Holds(Queues[m], g) => Holds(Queues'[m], g)
      /\ \A m \in Loops : \A g : Holds(Queues'[m], g) => Holds(Queues[m], g) \/ g = f
  <2>1. CASE t = Base
    <3>1. ups' = ups \cup {n} /\ \A m \in Loops : Queues'[m] = Queues[m]
      BY <1>1, <1>2, <2>1, QueuesUntouched DEF newConnection, QueuesKept
    <3>2. \A m \in Loops : Ordered(Queues'[m], ups')
      BY <3>1, OrderedMonotone DEF Life, UpFirst
    <3> QED
      BY <2>1, <3>1, <3>2 DEF Life, Once
  <2>2. CASE t # Base
    <3>1. ups' = ups /\ QueueOn(t, f)
      BY <1>1, <2>2 DEF newConnection
    <3> HIDE DEF t, f
    <3>2. PutAt(t, f) /\ QueuesKept({t})
      BY <1>1, <1>2, <1>4, <3>1, QueueOnEffect
    <3>3. /\ \A m \in Loops : \A g :
                Holds(Queues'[m], g) <=> Holds(Queues[m], g) \/ (m = t /\ g = f)
          /\ \A m \in Loops : Ordered(Queues'[m], ups) /\ Distinct(Queues'[m])
      BY <1>1, <1>4, <3>2, QueuedAfterPut DEF Life, UpFirst, Once
    <3> QED
      BY <1>1, <2>2, <3>1, <3>3
  <2> QED
    BY <2>1, <2>2
<1>7. UpFirst'
  <2>1. (downs \subseteq ups /\ removed \subseteq downs)'
    BY <1>2, <1>6 DEF Life, UpFirst
  <2>2. ASSUME NEW id \in DOMAIN ioLoop'
        PROVE  /\ ioLoop'[id] = Base => id \in ups'
               /\ id \in connections_' =>
                    id \in ups' \/ Holds(Queues'[ioLoop'[id]], Functor("established", id))
    <3> HIDE DEF t
    <3>1. CASE id = n
      BY <1>1, <1>6, <3>1
    <3>2. CASE id \in DOMAIN ioLoop
      BY <1>1, <1>2, <1>3, <1>5, <1>6, <3>2 DEF Life, UpFirst, Queued
    <3> QED
      BY <1>1, <3>1, <3>2
  <2> QED
    BY <1>6, <2>1, <2>2 DEF UpFirst, Queued
<1> HIDE DEF t, f
<1>8. Somewhere'
  BY <1>1, <1>2, <1>3, <1>6 DEF Life, Somewhere, Queued
<1>9. Once'
  <2>1. (removed \cap connections_ = {})'
    BY <1>2, <1>5 DEF Life, Once
  <2>2. ASSUME NEW id \in DOMAIN ioLoop'
        PROVE  /\ id \notin downs' => id \in connections_'
               /\ Holds(Queues'[Base], Functor("remove", id)) => id \in connections_'
               /\ \A l \in Loops : Holds(Queues'[l], Functor("destroyed", id)) =>
                    id \notin connections_' \cup removed'
    <3>1. \A op, l : l \in Loops /\ op # "established" /\ Holds(Queues'[l], Functor(op, id)) =>
                        Holds(Queues[l], Functor(op, id)) /\ id \in DOMAIN ioLoop
      BY <1>3, <1>4, <1>6, FunctorForm DEF Belongs
    <3>2. Serving
      BY <1>1 DEF Serving, InLoop
    <3> QED
      BY <1>1, <1>2, <1>3, <3>1, <3>2 DEF Life, Once, Queued
  <2> QED
    BY <1>6, <2>1, <2>2 DEF Once, Queued
<1> QED
  BY <1>7, <1>8, <1>9 DEF Life

\* handleClose of a connection of the base loop: from the map to a functor.
LEMMA LifeCloseHere ==
    ASSUME Types, Counts, FunctorsBelong, Life,
           NEW id \in DOMAIN ioLoop, CloseConnection(id), ioLoop[id] = Base
    PROVE  Life'
<1> DEFINE f == Functor("destroyed", id)
<1>1. /\ Base \in Loops /\ Threads = Loops \ {Base}
      /\ \A i \in DOMAIN ioLoop : ioLoop[i] \in Loops /\ i \in Conns
      /\ \A l \in Loops : \A g :
            Holds(Queues[l], g) => g \in Functors /\ Belongs(g, l, ioLoop, downs)
  BY LifeContext
<1>2. /\ owner = "poll" /\ id \in ups /\ id \notin downs /\ downs' = downs \cup {id}
      /\ connections_' = connections_ \ {id} /\ QueueOn(Base, f)
      /\ UNCHANGED <<functors, calls, ioLoop, ups, removed, owner, thread>>
  BY DEF CloseConnection, At, removeConnectionInLoop, Erased, DestroyLater, roundFrame, functorVars
<1>3. f \in Functors /\ f.op = "destroyed" /\ f.id = id
  BY <1>1, FunctorType, FunctorForm
<1> HIDE DEF f
<1>4. Serving /\ id \in connections_ /\ id \notin removed /\ ~Holds(Queues[Base], f)
      /\ ~Holds(Queues[Base], Functor("remove", id))
  <2>1. Serving
    BY <1>2 DEF Serving, InLoop
  <2>2. id \in connections_
    BY <1>2, <2>1 DEF Life, Once
  <2>3. id \notin removed /\ ~Holds(Queues[Base], f)
    BY <1>1, <2>2 DEF Life, Once, Queued, f
  <2>4. ~Holds(Queues[Base], Functor("remove", id))
    BY <1>1, FunctorForm DEF Belongs
  <2> QED
    BY <2>1, <2>2, <2>3, <2>4
<1>5. /\ \A m \in Loops : \A g :
            Holds(Queues'[m], g) <=> Holds(Queues[m], g) \/ (m = Base /\ g = f)
      /\ \A m \in Loops : Ordered(Queues'[m], ups) /\ Distinct(Queues'[m])
  <2>1. PutAt(Base, f) /\ QueuesKept({Base})
    BY <1>1, <1>2, <1>3, QueueOnEffect
  <2>2. \A m \in Loops : Ordered(Queues[m], ups) /\ Distinct(Queues[m])
    BY DEF Life, UpFirst, Once
  <2> QED
    BY <1>1, <1>2, <1>3, <1>4, <2>1, <2>2, QueuedAfterPut
<1>6. UpFirst'
  BY <1>1, <1>2, <1>5 DEF Life, UpFirst, Queued
<1>7. Somewhere'
  BY <1>1, <1>2, <1>5 DEF Life, Somewhere, Queued, f
<1>8. Once'
  <2>1. (removed \cap connections_ = {})'
    BY <1>2 DEF Life, Once
  <2>2. ASSUME NEW i \in DOMAIN ioLoop
        PROVE  /\ i \notin downs' => i \in connections_'
               /\ Holds(Queues'[Base], Functor("remove", i)) => i \in connections_'
               /\ \A l \in Loops : Holds(Queues'[l], Functor("destroyed", i)) =>
                    i \notin connections_' \cup removed'
    <3>1. \A l \in Loops : \A op :
                Holds(Queues'[l], Functor(op, i)) =>
                    Holds(Queues[l], Functor(op, i)) \/ (op = "destroyed" /\ i = id)
      BY <1>3, <1>5, FunctorForm
    <3>2. "remove" # "destroyed"
      OBVIOUS
    <3> QED
      BY <1>1, <1>2, <1>4, <3>1, <3>2 DEF Life, Once, Queued
  <2> QED
    BY <1>2, <1>5, <2>1, <2>2 DEF Once, Queued
<1> QED
  BY <1>6, <1>7, <1>8 DEF Life

\* handleClose of another connection: the base loop is asked to remove it.
LEMMA LifeCloseThere ==
    ASSUME Types, Counts, FunctorsBelong, Life,
           NEW id \in DOMAIN ioLoop, CloseConnection(id), ioLoop[id] # Base
    PROVE  Life'
<1> DEFINE f == Functor("remove", id)
<1>1. /\ Base \in Loops /\ Threads = Loops \ {Base}
      /\ \A i \in DOMAIN ioLoop : ioLoop[i] \in Loops /\ i \in Conns
      /\ \A l \in Loops : \A g :
            Holds(Queues[l], g) => g \in Functors /\ Belongs(g, l, ioLoop, downs)
  BY LifeContext
<1>2. /\ id \in ups /\ id \notin downs /\ downs' = downs \cup {id} /\ QueueOn(Base, f)
      /\ UNCHANGED <<connections_, functors, calls, ioLoop, ups, removed, owner, thread>>
  BY DEF CloseConnection, roundFrame, functorVars
<1>3. f \in Functors /\ f.op = "remove" /\ f.id = id
  BY <1>1, FunctorType, FunctorForm
<1> HIDE DEF f
<1>4. ~Holds(Queues[Base], f)
  BY <1>1, <1>2, <1>3 DEF Belongs
<1>5. /\ \A m \in Loops : \A g :
            Holds(Queues'[m], g) <=> Holds(Queues[m], g) \/ (m = Base /\ g = f)
      /\ \A m \in Loops : Ordered(Queues'[m], ups) /\ Distinct(Queues'[m])
  <2>1. PutAt(Base, f) /\ QueuesKept({Base})
    BY <1>1, <1>2, <1>3, QueueOnEffect
  <2>2. \A m \in Loops : Ordered(Queues[m], ups) /\ Distinct(Queues[m])
    BY DEF Life, UpFirst, Once
  <2> QED
    BY <1>1, <1>2, <1>3, <1>4, <2>1, <2>2, QueuedAfterPut
<1>6. UpFirst'
  BY <1>1, <1>2, <1>5 DEF Life, UpFirst, Queued
<1>7. Somewhere'
  BY <1>1, <1>2, <1>5 DEF Life, Somewhere, Queued
<1>8. Once'
  <2>1. (removed \cap connections_ = {})'
    BY <1>2 DEF Life, Once
  <2>2. ASSUME NEW i \in DOMAIN ioLoop
        PROVE  /\ Serving /\ i \notin downs' => i \in connections_'
               /\ Serving /\ Holds(Queues'[Base], Functor("remove", i)) => i \in connections_'
               /\ \A l \in Loops : Holds(Queues'[l], Functor("destroyed", i)) =>
                    i \notin connections_' \cup removed'
    <3>1. \A l \in Loops : \A op :
                Holds(Queues'[l], Functor(op, i)) =>
                    Holds(Queues[l], Functor(op, i)) \/ (op = "remove" /\ i = id)
      BY <1>3, <1>5, FunctorForm
    <3>2. "remove" # "destroyed" /\ (Serving => id \in connections_)
      BY <1>2 DEF Life, Once
    <3> QED
      BY <1>1, <1>2, <3>1, <3>2 DEF Life, Once, Queued
  <2> QED
    BY <1>2, <1>5, <2>1, <2>2 DEF Once, Queued, Serving
<1> QED
  BY <1>6, <1>7, <1>8 DEF Life

\* connectionEstablished.
LEMMA LifeEstablished ==
    ASSUME Types, Types', Counts, FunctorsBelong, Life, NEW l \in Loops,
           NEW f \in Functors, f.op = "established", TakenAt(l, f), QueuesKept({l}),
           ups' = ups \cup {f.id}, UNCHANGED <<connections_, ioLoop, downs, removed, owner, thread>>
    PROVE  Life'
<1>1. /\ Base \in Loops /\ Threads = Loops \ {Base}
      /\ \A i \in DOMAIN ioLoop : ioLoop[i] \in Loops /\ i \in Conns
  BY LifeContext
<1>2. \A m \in Loops \ {l} : Queues'[m] = Queues[m]
  BY DEF QueuesKept
<1>3. \A m \in Loops : \A g : Holds(Queues[m], g) <=> Holds(Queues'[m], g) \/ (m = l /\ g = f)
  BY <1>2, QueuedAfterTake
<1>4. \A m \in Loops : Ordered(Queues'[m], ups') /\ Distinct(Queues'[m])
  <2>1. Ordered(Queues'[l], ups') /\ Distinct(Queues'[l])
    BY QueuedAfterTake DEF Life, UpFirst, Once
  <2>2. \A m \in Loops \ {l} : Ordered(Queues'[m], ups') /\ Distinct(Queues'[m])
    BY <1>2, OrderedMonotone DEF Life, UpFirst, Once
  <2> QED
    BY <2>1, <2>2
<1>5. \A m \in Loops : \A op, id : Holds(Queues[m], Functor(op, id)) =>
            Holds(Queues'[m], Functor(op, id)) \/ (op = "established" /\ id = f.id)
  BY <1>3, FunctorForm
<1>6. UpFirst'
  BY <1>1, <1>4, <1>5 DEF Life, UpFirst, Queued
<1>7. Somewhere'
  BY <1>1, <1>5 DEF Life, Somewhere, Queued
<1>8. Once'
  BY <1>1, <1>3, <1>4 DEF Life, Once, Queued, Serving
<1> QED
  BY <1>6, <1>7, <1>8 DEF Life

\* connectionDestroyed, called by the connection's loop.
LEMMA LifeDestroyed ==
    ASSUME Types, Types', Counts, FunctorsBelong, Life, NEW l \in Loops,
           NEW f \in Functors, f.op = "destroyed", TakenAt(l, f), QueuesKept({l}),
           connectionDestroyed(f.id), UNCHANGED <<connections_, ioLoop, ups, owner, thread>>
    PROVE  Life'
<1>1. /\ Base \in Loops /\ Threads = Loops \ {Base}
      /\ \A i \in DOMAIN ioLoop : ioLoop[i] \in Loops /\ i \in Conns
      /\ \A m \in Loops : \A g :
            Holds(Queues[m], g) => g \in Functors /\ Belongs(g, m, ioLoop, downs)
  BY LifeContext
<1>2. \A m \in Loops \ {l} : Queues'[m] = Queues[m]
  BY DEF QueuesKept
<1>3. \A m \in Loops : \A g : Holds(Queues[m], g) <=> Holds(Queues'[m], g) \/ (m = l /\ g = f)
  BY <1>2, QueuedAfterTake
<1>4. \A m \in Loops : Ordered(Queues'[m], ups) /\ Distinct(Queues'[m])
  <2>1. Ordered(Queues'[l], ups) /\ Distinct(Queues'[l])
    BY QueuedAfterTake DEF Life, UpFirst, Once
  <2> QED
    BY <1>2, <2>1 DEF Life, UpFirst, Once
<1>5. f.id \in ups /\ ~Holds(Queues'[l], f)
  BY QueuedAfterTake DEF Life, UpFirst, Once
<1>6. f = Functor("destroyed", f.id) /\ f.id \in DOMAIN ioLoop /\ l = ioLoop[f.id]
  BY <1>1, <1>3, FunctorForm DEF Belongs
<1>7. f.id \notin connections_
  BY <1>3, <1>6 DEF Life, Once, Queued
<1>8. downs' = downs \cup {f.id} /\ removed' = removed \cup {f.id}
  BY <1>5 DEF connectionDestroyed
<1>9. \A m \in Loops : \A op, id : Holds(Queues[m], Functor(op, id)) =>
            Holds(Queues'[m], Functor(op, id)) \/ (op = "destroyed" /\ id = f.id)
  BY <1>3, FunctorForm
<1>10. UpFirst'
  BY <1>1, <1>4, <1>5, <1>8, <1>9 DEF Life, UpFirst, Queued
<1>11. Somewhere'
  BY <1>1, <1>8, <1>9 DEF Life, Somewhere, Queued
<1>12. Once'
  <2>1. (removed \cap connections_ = {})'
    BY <1>7, <1>8 DEF Life, Once
  <2>2. \A m \in Loops : ~Holds(Queues'[m], Functor("destroyed", f.id))
    BY <1>1, <1>3, <1>5, <1>6 DEF Belongs
  <2> QED
    BY <1>1, <1>3, <1>4, <1>8, <2>1, <2>2 DEF Life, Once, Queued, Serving
<1> QED
  BY <1>10, <1>11, <1>12 DEF Life

\* removeConnectionInLoop, called by the base loop: from the map to a functor.
LEMMA LifeRemove ==
    ASSUME Types, Types', Counts, FunctorsBelong, Life, NEW f \in Functors, f.op = "remove",
           TakenAt(Base, f), PutAt(ioLoop[f.id], Functor("destroyed", f.id)),
           QueuesKept({Base, ioLoop[f.id]}), connections_' = connections_ \ {f.id}, Serving,
           UNCHANGED <<ioLoop, ups, downs, removed, owner, thread>>
    PROVE  Life'
<1> DEFINE id == f.id  t == ioLoop[f.id]  d == Functor("destroyed", f.id)
<1>1. /\ Base \in Loops /\ Threads = Loops \ {Base}
      /\ \A i \in DOMAIN ioLoop : ioLoop[i] \in Loops /\ i \in Conns
      /\ \A m \in Loops : \A g :
            Holds(Queues[m], g) => g \in Functors /\ Belongs(g, m, ioLoop, downs)
      /\ \A m \in Loops : Queues[m] \in Seq(Functors)
  BY LifeContext
<1>2. /\ \A g : Holds(Queues[Base], g) <=> Holds(Queues'[Base], g) \/ g = f
      /\ Ordered(Queues'[Base], ups) /\ Distinct(Queues'[Base]) /\ ~Holds(Queues'[Base], f)
  BY <1>1, QueuedAfterTake DEF Life, UpFirst, Once
<1>3. f = Functor("remove", f.id) /\ id \in DOMAIN ioLoop /\ t # Base /\ id \in downs /\ t \in Loops
  BY <1>1, <1>2, FunctorForm DEF Belongs
<1>4. id \in connections_ /\ id \notin removed /\ id \in ups
  BY <1>2, <1>3 DEF Life, Once, UpFirst, Queued
<1>5. d \in Functors /\ d.op = "destroyed" /\ d.id = id
  BY <1>1, <1>3, FunctorType, FunctorForm
<1>6. ~Holds(Queues[t], d)
  BY <1>3, <1>4 DEF Life, Once, Queued
<1> HIDE DEF d, t
<1>7. /\ \A g : Holds(Queues'[t], g) <=> Holds(Queues[t], g) \/ g = d
      /\ Ordered(Queues'[t], ups) /\ Distinct(Queues'[t])
  <2>1. Queues'[t] = Queues[t] \o <<d>> /\ Queues[t] \in Seq(Functors)
    BY <1>1, <1>3 DEF PutAt, d, t
  <2>2. Ordered(Queues[t], ups) /\ Distinct(Queues[t])
    BY <1>3 DEF Life, UpFirst, Once
  <2>3. d.op = "destroyed" => d.id \in ups \/ Holds(Queues[t], Functor("established", d.id))
    BY <1>4, <1>5
  <2> QED
    BY <1>5, <1>6, <2>1, <2>2, <2>3, PutInQueue
<1>8. \A m \in Loops : m # Base /\ m # t => Queues'[m] = Queues[m]
  BY DEF QueuesKept, t
<1>9. \A m \in Loops : Ordered(Queues'[m], ups) /\ Distinct(Queues'[m])
  BY <1>2, <1>7, <1>8 DEF Life, UpFirst, Once
<1>10. \A m \in Loops : \A op, i : Holds(Queues'[m], Functor(op, i)) =>
            \/ Holds(Queues[m], Functor(op, i)) /\ (op = "remove" => m # Base \/ i # id)
            \/ op = "destroyed" /\ i = id
  BY <1>2, <1>3, <1>5, <1>7, <1>8, FunctorForm
<1>11. \A m \in Loops : \A op, i : Holds(Queues[m], Functor(op, i)) /\ op # "remove" =>
            Holds(Queues'[m], Functor(op, i))
  BY <1>2, <1>7, <1>8, FunctorForm
<1>12. UpFirst'
  BY <1>1, <1>9, <1>11 DEF Life, UpFirst, Queued
<1>13. Somewhere'
  <2>1. Holds(Queues'[ioLoop[id]], Functor("destroyed", id))
    BY <1>7 DEF d, t
  <2> QED
    BY <1>1, <1>11, <2>1 DEF Life, Somewhere, Queued
<1>14. Once'
  <2>1. (removed \cap connections_ = {})'
    BY DEF Life, Once
  <2>2. ASSUME NEW i \in DOMAIN ioLoop
        PROVE  /\ i \notin downs' => i \in connections_'
               /\ Holds(Queues'[Base], Functor("remove", i)) => i \in connections_'
               /\ \A l \in Loops : Holds(Queues'[l], Functor("destroyed", i)) =>
                    i \notin connections_' \cup removed'
    <3>1. i \notin downs' => i \in connections_'
      BY <1>3 DEF Life, Once
    <3>2. Holds(Queues'[Base], Functor("remove", i)) => i \in connections_'
      BY <1>1, <1>10 DEF Life, Once, Queued
    <3>3. \A l \in Loops : Holds(Queues'[l], Functor("destroyed", i)) =>
                i \notin connections_' \cup removed'
      BY <1>4, <1>10 DEF Life, Once, Queued
    <3> QED
      BY <3>1, <3>2, <3>3
  <2> QED
    BY <1>9, <2>1, <2>2 DEF Once, Queued
<1> QED
  BY <1>12, <1>13, <1>14 DEF Life

\* ~TcpServer, for a connection of the base loop.
LEMMA LifeDestroyHere ==
    ASSUME Types, Counts, FunctorsBelong, Life, NEW id \in connections_,
           DestroyConnection(id), ioLoop[id] = Base
    PROVE  Life'
<1>1. /\ Base \in Loops /\ Threads = Loops \ {Base}
      /\ \A i \in DOMAIN ioLoop : ioLoop[i] \in Loops /\ i \in Conns
  BY LifeContext
<1>2. /\ owner = "destroy" /\ id \in DOMAIN ioLoop
      /\ connections_' = connections_ \ {id}
      /\ downs' = downs \cup {id} /\ removed' = removed \cup {id}
      /\ UNCHANGED <<pendingFunctors_, functors, calls, ioLoop, ups, owner, thread>>
  BY DEF DestroyConnection, RunsHere, connectionDestroyed, functorVars, threadVars, Counts, Life,
         UpFirst
<1>3. \A m \in Loops : Queues'[m] = Queues[m]
  BY <1>2, QueuesUntouched DEF QueuesKept
<1>4. UpFirst'
  BY <1>1, <1>2, <1>3 DEF Life, UpFirst, Queued
<1>5. Somewhere'
  BY <1>1, <1>2, <1>3 DEF Life, Somewhere, Queued
<1>6. Once'
  BY <1>1, <1>2, <1>3 DEF Life, Once, Queued, Serving, InLoop
<1> QED
  BY <1>4, <1>5, <1>6 DEF Life

\* ~TcpServer, for another connection: from the map to a functor.
LEMMA LifeDestroyThere ==
    ASSUME Types, Counts, FunctorsBelong, Life, NEW id \in connections_,
           DestroyConnection(id), ioLoop[id] # Base
    PROVE  Life'
<1> DEFINE f == Functor("destroyed", id)  t == ioLoop[id]
<1>1. /\ Base \in Loops /\ Threads = Loops \ {Base}
      /\ \A i \in DOMAIN ioLoop : ioLoop[i] \in Loops /\ i \in Conns
  BY LifeContext
<1>2. /\ owner = "destroy" /\ id \in DOMAIN ioLoop
      /\ connections_' = connections_ \ {id} /\ QueueOn(t, f)
      /\ UNCHANGED <<functors, calls, ioLoop, ups, downs, removed, owner, thread>>
  BY DEF DestroyConnection, RunsHere, functorVars, threadVars, Counts
<1>3. f \in Functors /\ f.op = "destroyed" /\ f.id = id /\ t \in Loops
  BY <1>1, <1>2, FunctorType, FunctorForm
<1>4. /\ ~Holds(Queues[t], f) /\ id \notin removed
      /\ id \in ups \/ Holds(Queues[t], Functor("established", id))
  BY <1>2, <1>3 DEF Life, Once, UpFirst, Queued
<1> HIDE DEF f, t
<1>5. /\ \A m \in Loops : \A g :
            Holds(Queues'[m], g) <=> Holds(Queues[m], g) \/ (m = t /\ g = f)
      /\ \A m \in Loops : Ordered(Queues'[m], ups) /\ Distinct(Queues'[m])
  BY <1>2, <1>3, <1>4, QueueOnEffect, QueuedAfterPut DEF Life, UpFirst, Once
<1>6. UpFirst'
  BY <1>1, <1>2, <1>5 DEF Life, UpFirst, Queued
<1>7. Somewhere'
  BY <1>1, <1>2, <1>5 DEF Life, Somewhere, Queued, f, t
<1>8. Once'
  <2>1. (removed \cap connections_ = {})'
    BY <1>2 DEF Life, Once
  <2>2. \A l \in Loops : \A i : Holds(Queues'[l], Functor("destroyed", i)) =>
            Holds(Queues[l], Functor("destroyed", i)) \/ i = id
    BY <1>3, <1>5, FunctorForm
  <2>3. \A i \in DOMAIN ioLoop : \A l \in Loops :
            Holds(Queues'[l], Functor("destroyed", i)) => i \notin connections_' \cup removed'
    BY <1>2, <1>4, <2>2 DEF Life, Once, Queued
  <2> QED
    BY <1>2, <1>5, <2>1, <2>3 DEF Once, Queued, Serving, InLoop
<1> QED
  BY <1>6, <1>7, <1>8 DEF Life

\* A thread ends, and what is queued on its loop goes with it.
LEMMA LifeEnds ==
    ASSUME Types, Counts, PoolShape, ThreadShape, QueueShape, FunctorsBelong, Life,
           NEW i \in Threads, ThreadEnds(i)
    PROVE  Life'
<1>1. /\ Base \in Loops /\ Threads = Loops \ {Base}
      /\ \A id \in DOMAIN ioLoop : ioLoop[id] \in Loops /\ id \in Conns
  BY LifeContext
<1>2. /\ \A l \in Loops : pendingFunctors_'[l] = IF l = i THEN <<>> ELSE pendingFunctors_[l]
      /\ \A j \in Threads : thread'[j] = IF j = i THEN "ended" ELSE thread[j]
      /\ UNCHANGED <<functors, calls, connections_, ioLoop, ups, downs, removed, owner>>
      /\ thread[i] = "left"
  BY <1>1 DEF ThreadEnds, threadFrame, functorVars, reportVars, Types
<1>3. connections_ = {} /\ ~Serving
  BY <1>2 DEF ThreadShape, PoolShape, Destroying, Serving, InLoop
<1>4. \A m \in Loops \ {i} : Queues'[m] = Queues[m]
  BY <1>2, QueuesAre
<1>5. Queues'[i] = <<>>
  <2>1. functors[i] = <<>> /\ calls[i] = 0
    BY <1>1, <1>2 DEF QueueShape, At
  <2>2. Rest(<<>>, 0, <<>>) = <<>>
    BY EmptySeq, RestOfNothing
  <2> QED
    BY <1>1, <1>2, <2>1, <2>2, QueuesAre
<1>6. (\A g : ~Holds(<<>>, g)) /\ Ordered(<<>>, ups) /\ Distinct(<<>>)
  <2>1. 1 .. Len(<<>>) = {}
    BY EmptySeq
  <2> QED
    BY <2>1 DEF Holds, Ordered, Distinct
<1>7. UpFirst'
  BY <1>1, <1>2, <1>3, <1>4, <1>5, <1>6 DEF Life, UpFirst, Queued
<1>8. Somewhere'
  BY <1>1, <1>2, <1>3, <1>4 DEF Life, Somewhere, Queued
<1>9. Once'
  BY <1>1, <1>2, <1>3, <1>4, <1>5, <1>6 DEF Life, Once, Queued, Serving
<1> QED
  BY <1>7, <1>8, <1>9 DEF Life

\* A call of doPendingFunctors.
LEMMA LifeCall ==
    ASSUME Types, Types', Counts, FunctorsBelong, Life, NEW l \in Loops, CallFunctor(l)
    PROVE  Life'
<1> DEFINE f == functors[l][calls[l] + 1]
<1>1. f \in Functors /\ Belongs(f, l, ioLoop, downs) /\ At(l, "run")
  BY CalledFunctor DEF CallFunctor, FunctorsBelong
<1>2. /\ UNCHANGED <<functors, ioLoop, owner, thread>>
      /\ \A m \in Loops : m # l => calls'[m] = calls[m]
  BY DEF CallFunctor, roundFrame, Types
<1>3. CASE UNCHANGED pendingFunctors_
  <2>1. TakenAt(l, f)
    BY <1>3, CallTakes
  <2>2. QueuesKept({l})
    BY <1>2, <1>3, QueuesAre DEF QueuesKept
  <2>3. CASE f.op = "established" /\ ups' = ups \cup {f.id}
             /\ UNCHANGED <<downs, removed, connections_>>
    BY <1>1, <1>2, <2>1, <2>2, <2>3, LifeEstablished
  <2>4. CASE f.op = "destroyed" /\ connectionDestroyed(f.id) /\ UNCHANGED <<ups, connections_>>
    BY <1>1, <1>2, <2>1, <2>2, <2>4, LifeDestroyed
  <2>5. CASE f.op = "remove" /\ removeConnectionInLoop(f.id)
    <3>1. f.id \in DOMAIN ioLoop /\ ioLoop[f.id] \in Loops /\ f.id \in Conns
      BY <1>1, LifeContext DEF Belongs
    <3>2. pendingFunctors_'[ioLoop[f.id]]
            = Append(pendingFunctors_[ioLoop[f.id]], Functor("destroyed", f.id))
      BY <2>5, <3>1, FunctorType, QueueOnVectors DEF removeConnectionInLoop, DestroyLater
    <3>3. Append(pendingFunctors_[ioLoop[f.id]], Functor("destroyed", f.id))
            # pendingFunctors_[ioLoop[f.id]]
      <4>1. /\ pendingFunctors_[ioLoop[f.id]] \in Seq(Functors)
            /\ Functor("destroyed", f.id) \in Functors
        BY <3>1, VectorsProperties, FunctorType
      <4>2. /\ Len(Append(pendingFunctors_[ioLoop[f.id]], Functor("destroyed", f.id)))
                = Len(pendingFunctors_[ioLoop[f.id]]) + 1
            /\ Len(pendingFunctors_[ioLoop[f.id]]) \in Nat
        BY <4>1, AppendProperties, SeqOf
      <4> QED
        BY <4>2
    <3> QED
      BY <1>3, <3>2, <3>3
  <2> QED
    BY <1>3, <2>3, <2>4, <2>5 DEF CallFunctor, reportVars
<1>4. CASE f.op = "remove" /\ removeConnectionInLoop(f.id) /\ UNCHANGED reportVars
  <2> DEFINE t == ioLoop[f.id]  d == Functor("destroyed", f.id)
  <2>1. /\ l = Base /\ f.id \in DOMAIN ioLoop /\ t # Base /\ t \in Loops /\ f.id \in Conns
    BY <1>1, <1>4, LifeContext DEF Belongs
  <2>2. d \in Functors /\ QueueOn(t, d) /\ connections_' = connections_ \ {f.id}
    BY <1>4, <2>1, FunctorType DEF removeConnectionInLoop, DestroyLater, Erased
  <2>3. Serving
    BY <1>1, <2>1 DEF At, Serving, InLoop
  <2> HIDE DEF f, d, t
  <2>4. PutAt(t, d)
    BY <1>2, <2>1, <2>2, QueueOnPuts
  <2>5. \A m \in Loops \ {t} : pendingFunctors_'[m] = pendingFunctors_[m]
    BY <2>1, <2>2, QueueOnVectors
  <2>6. TakenAt(Base, f)
    BY <2>1, <2>5, CallTakes DEF f
  <2>7. QueuesKept({Base, t})
    BY <1>2, <2>1, <2>5, QueuesAre DEF QueuesKept
  <2>8. UNCHANGED <<ups, downs, removed>>
    BY <1>4 DEF reportVars
  <2> QED
    BY <1>1, <1>2, <1>4, <2>2, <2>3, <2>4, <2>6, <2>7, <2>8, LifeRemove DEF t, d
<1> QED
  BY <1>3, <1>4 DEF CallFunctor

\* Whatever happens, connections live as they should.
LEMMA LifeStep ==
    ASSUME Types, Types', Counts, PoolShape, ThreadShape, QueueShape, FunctorsBelong, Life,
           [Next]_vars
    PROVE  Life'
<1>1. CASE Quiet
  BY <1>1, QueuesUntouched, LifeKept DEF Quiet
<1>2. ASSUME NEW l \in Loops, SwapFunctors(l) \/ EndFunctors(l) PROVE Life'
  <2>1. QueuesKept({}) /\ UNCHANGED <<connections_, ioLoop, ups, downs, removed>>
    BY <1>2, BatchKeepsQueues DEF SwapFunctors, EndFunctors, roundFrame, reportVars
  <2>2. owner' \in {"outside", "start"} \cup InLoop => Serving
    BY <1>2 DEF SwapFunctors, EndFunctors, Goto, At, Serving, InLoop
  <2>3. \A i \in Threads : thread[i] = "ended" => thread'[i] = "ended"
    BY <1>2 DEF SwapFunctors, EndFunctors, Goto, At, Types
  <2> QED
    BY <2>1, <2>2, <2>3, LifeKept
<1> QED
  BY <1>1, <1>2, StepKinds, LifeAccept, LifeCall, LifeCloseHere, LifeCloseThere, LifeDestroyHere,
     LifeDestroyThere, LifeEnds

-----------------------------------------------------------------------------
(* Descriptors.                                                            *)

\* Connections are finitely many.
LEMMA OpenIsFinite ==
    ASSUME Types, Counts
    PROVE  IsFiniteSet(Open) /\ Cardinality(Open) \in Nat /\ Open \subseteq Conns
<1>1. IsFiniteSet(Conns)
  BY ServerAssumption, FS_Interval DEF Conns
<1>2. Open \subseteq Conns
  BY IdsProperties DEF Open
<1> QED
  BY <1>1, <1>2, FS_Subset, FS_CardinalityType

\* Whose TcpConnectionPtr a step passes on is open already.
LEMMA NothingReopens ==
    ASSUME Types, Types', Counts, PoolShape, ThreadShape, QueueShape, FunctorsBelong, Life,
           [Next]_vars, ~Accepts
    PROVE  Open' \subseteq Open
<1> DEFINE In(l) == Range(pendingFunctors_[l]) \cup Range(functors[l])
           In1(l) == Range(pendingFunctors_'[l]) \cup Range(functors'[l])
<1> USE DEF functorVars, reportVars
<1>c. /\ Base \in Loops /\ Threads = Loops \ {Base}
      /\ \A id \in DOMAIN ioLoop : ioLoop[id] \in Loops /\ id \in Conns
  BY LifeContext
<1>g. ASSUME UNCHANGED ioLoop, connections_' \subseteq connections_,
             \A l \in Loops : \A f \in In1(l) : f \in In(l) \/ f.id \in Open
      PROVE  Open' \subseteq Open
  <2> SUFFICES ASSUME NEW id \in DOMAIN ioLoop,
                      \/ id \in connections_'
                      \/ \E l \in Loops : \E f \in In1(l) : f.id = id
               PROVE  id \in Open
    BY <1>g DEF Open, Held
  <2> QED
    BY <1>g DEF Open, Held
<1>q. ASSUME NEW t \in Loops, NEW f \in Functors, QueueOn(t, f), f.id \in Open, UNCHANGED functors
      PROVE  \A l \in Loops : \A g \in In1(l) : g \in In(l) \/ g.id \in Open
  BY <1>q, QueueOnVectors
<1>1. CASE Quiet
  BY <1>1, <1>g DEF Quiet
<1>2. ASSUME NEW l \in Loops, SwapFunctors(l) \/ EndFunctors(l) PROVE Open' \subseteq Open
  <2>1. \A m \in Loops : functors'[m] \in {functors[m], pendingFunctors_[m], <<>>}
                         /\ pendingFunctors_'[m] \in {pendingFunctors_[m], <<>>}
    BY <1>2 DEF SwapFunctors, EndFunctors, Types
  <2>2. \A m \in Loops : \A f \in In1(m) : f \in In(m)
    BY <2>1, VectorsProperties
  <2> QED
    BY <1>2, <1>g, <2>2 DEF SwapFunctors, EndFunctors, roundFrame
<1>3. ASSUME NEW l \in Loops, CallFunctor(l) PROVE Open' \subseteq Open
  <2> DEFINE f == functors[l][calls[l] + 1]
  <2>1. f \in Range(functors[l]) /\ f.id \in DOMAIN ioLoop /\ f.id \in Open
    BY <1>3, CalledFunctor DEF CallFunctor, FunctorsBelong, Belongs, Open, Held
  <2>2. UNCHANGED <<ioLoop, functors>> /\ connections_' \subseteq connections_
    BY <1>3 DEF CallFunctor, roundFrame, removeConnectionInLoop, Erased
  <2>3. CASE UNCHANGED pendingFunctors_
    BY <1>g, <2>2, <2>3
  <2>4. CASE removeConnectionInLoop(f.id)
    <3> DEFINE d == Functor("destroyed", f.id)
    <3>1. d \in Functors /\ d.id = f.id /\ QueueOn(ioLoop[f.id], d) /\ ioLoop[f.id] \in Loops
      BY <1>c, <2>1, <2>4, FunctorType, FunctorForm DEF removeConnectionInLoop, DestroyLater
    <3> HIDE DEF f, d
    <3> QED
      BY <1>g, <1>q, <2>1, <2>2, <3>1
  <2> QED
    BY <1>3, <2>3, <2>4 DEF CallFunctor
<1>4. ASSUME NEW id \in DOMAIN ioLoop, CloseConnection(id) PROVE Open' \subseteq Open
  <2> DEFINE d == Functor("destroyed", id)  r == Functor("remove", id)
  <2>1. /\ UNCHANGED <<ioLoop, functors>> /\ connections_' \subseteq connections_
        /\ QueueOn(Base, d) \/ QueueOn(Base, r)
        /\ id \notin downs /\ At(ioLoop[id], "poll")
    BY <1>4 DEF CloseConnection, roundFrame, removeConnectionInLoop, Erased, DestroyLater
  <2>2. id \in Open
    <3>1. ~(ioLoop[id] # Base /\ thread[ioLoop[id]] = "ended") /\ id \notin removed
      BY <2>1 DEF At, Life, UpFirst
    <3>2. id \in connections_ \/ Holds(Queues[ioLoop[id]], d)
      BY <3>1 DEF Life, Somewhere, Queued
    <3>3. d.id = id
      BY FunctorForm
    <3> HIDE DEF d
    <3>4. Holds(Queues[ioLoop[id]], d) => d \in In(ioLoop[id])
      BY <1>c, QueuesProperties
    <3> QED
      BY <1>c, <3>2, <3>3, <3>4 DEF Open, Held
  <2>3. d \in Functors /\ r \in Functors /\ d.id = id /\ r.id = id
    BY <1>c, FunctorType, FunctorForm
  <2> HIDE DEF d, r
  <2> QED
    BY <1>c, <1>g, <1>q, <2>1, <2>2, <2>3
<1>5. ASSUME NEW id \in connections_, DestroyConnection(id) PROVE Open' \subseteq Open
  <2> DEFINE d == Functor("destroyed", id)
  <2>1. /\ UNCHANGED <<ioLoop, functors>> /\ connections_' \subseteq connections_
        /\ UNCHANGED pendingFunctors_ \/ QueueOn(ioLoop[id], d)
    BY <1>5 DEF DestroyConnection
  <2>2. id \in DOMAIN ioLoop /\ id \in Open
    BY DEF Open, Held, Counts
  <2>3. d \in Functors /\ d.id = id /\ ioLoop[id] \in Loops
    BY <1>c, <2>2, FunctorType, FunctorForm
  <2> HIDE DEF d
  <2> QED
    BY <1>c, <1>g, <1>q, <2>1, <2>2, <2>3
<1>6. ASSUME NEW i \in Threads, ThreadEnds(i) PROVE Open' \subseteq Open
  <2>1. /\ \A m \in Loops : pendingFunctors_'[m] \in {pendingFunctors_[m], <<>>}
        /\ UNCHANGED <<functors, ioLoop, connections_>>
    BY <1>6 DEF ThreadEnds, threadFrame, Types
  <2>2. \A m \in Loops : \A f \in In1(m) : f \in In(m)
    BY <2>1, VectorsProperties
  <2> QED
    BY <1>g, <2>1, <2>2
<1> QED
  BY <1>1, <1>2, <1>3, <1>4, <1>5, <1>6, StepKinds

\* accept opens one.
LEMMA AcceptOpensOne ==
    ASSUME Types, Counts, PoolShape, Accepts
    PROVE  Open' \subseteq Open \cup {nextConnId_}
<1> DEFINE n == nextConnId_  t == getNextLoop  f == Functor("established", nextConnId_)
<1>1. /\ t \in Loops /\ n \in Conns /\ newConnection
      /\ DOMAIN ioLoop' = DOMAIN ioLoop \cup {n}
  BY AcceptsIds
<1>2. UNCHANGED functors /\ connections_' = connections_ \cup {n}
  BY <1>1 DEF Accepts, PollBase, newConnection, functorVars
<1>3. f \in Functors /\ f.id = n
  BY <1>1, FunctorType, FunctorForm
<1>4. UNCHANGED pendingFunctors_ \/ QueueOn(t, f)
  BY <1>1 DEF newConnection
<1> HIDE DEF t, f
<1>5. \A l \in Loops : \A g \in Range(pendingFunctors_'[l]) :
            g \in Range(pendingFunctors_[l]) \/ g.id = n
  BY <1>1, <1>3, <1>4, QueueOnVectors
<1> QED
  BY <1>1, <1>2, <1>5 DEF Open, Held

\* No more descriptors are open than there are.
LEMMA DescriptorsStep ==
    ASSUME Types, Types', Counts, Counts', PoolShape, ThreadShape, QueueShape, FunctorsBelong, Life,
           Cardinality(Open) <= MaxFds, [Next]_vars
    PROVE  Cardinality(Open') <= MaxFds
<1>0. IsFiniteSet(Open) /\ Cardinality(Open) \in Nat /\ MaxFds \in Nat
  BY OpenIsFinite, ServerAssumption
<1>1. CASE Accepts
  <2> DEFINE S == Open \cup {nextConnId_}
  <2>1. Cardinality(Open) < MaxFds
    BY <1>1 DEF Accepts, FdLeft
  <2>2. IsFiniteSet(S) /\ Cardinality(S) <= Cardinality(Open) + 1 /\ Cardinality(S) \in Nat
    <3>1. /\ IsFiniteSet(S)
          /\ Cardinality(S) = IF nextConnId_ \in Open THEN Cardinality(Open)
                                                     ELSE Cardinality(Open) + 1
      BY <1>0, FS_AddElement, Zenon
    <3> QED
      BY <1>0, <3>1
  <2>3. Open' \in SUBSET S
    BY <1>1, AcceptOpensOne
  <2> HIDE DEF S
  <2>4. Cardinality(Open') <= Cardinality(S) /\ IsFiniteSet(Open')
    BY <2>2, <2>3, FS_Subset
  <2>5. Cardinality(Open') \in Nat
    BY <2>4, FS_CardinalityType
  <2> QED
    BY <1>0, <2>1, <2>2, <2>4, <2>5
<1>2. CASE ~Accepts
  <2>1. Open' \in SUBSET Open
    BY <1>2, NothingReopens
  <2>2. Cardinality(Open') <= Cardinality(Open) /\ IsFiniteSet(Open')
    BY <1>0, <2>1, FS_Subset
  <2>3. Cardinality(Open') \in Nat
    BY <2>2, FS_CardinalityType
  <2> QED
    BY <1>0, <2>2, <2>3
<1> QED
  BY <1>1, <1>2

-----------------------------------------------------------------------------
(* The theorems.                                                           *)

\* The inductive invariant holds at the start.
LEMMA SInvInit == Init => SInv
<1> SUFFICES ASSUME Init PROVE SInv
  OBVIOUS
<1> USE DEF Init
<1>0. /\ Len(<<>>) = 0 /\ DOMAIN <<>> = {} /\ Range(<<>>) = {}
      /\ <<>> \in Seq(Functors) /\ <<>> \in Seq(Loops) /\ <<>> \in Seq(Threads)
  BY EmptySeq DEF Range
<1>1. Types
  <2>1. 0 \in 0 .. MaxThreads + 1 /\ 0 \in 0 .. MaxThreads
    BY ServerAssumption
  <2>2. /\ thread \in [Threads -> ThreadPoints]
        /\ loop_ \in [Threads -> BOOLEAN] /\ quit_ \in [Threads -> BOOLEAN]
    BY DEF ThreadPoints
  <2>3. /\ pendingFunctors_ \in [Loops -> Seq(Functors)] /\ functors \in [Loops -> Seq(Functors)]
        /\ calls \in [Loops -> Nat] /\ \A l \in Loops : calls[l] <= Len(functors[l])
    BY <1>0
  <2> QED
    <3>1. owner \in OwnerPoints /\ starter \in StarterPoints /\ started_ \in {-1, 0, 1}
      BY DEF OwnerPoints, StarterPoints
    <3>2. /\ current \in 0 .. MaxThreads + 1 /\ numThreads_ \in 0 .. MaxThreads
          /\ next_ \in Nat /\ nextConnId_ \in Nat \ {0} /\ waiting \in Nat
      BY <2>1
    <3>3. listenning_ \in BOOLEAN /\ loops_ \in Seq(Threads) /\ ioLoop \in Seq(Loops)
      BY <1>0
    <3> QED
      BY <2>2, <2>3, <3>1, <3>2, <3>3, Zenon DEF Types
<1>2. Counts
  BY <1>0, ServerAssumption DEF Counts
<1>3. PoolShape
  BY <1>0 DEF PoolShape, Serving, Destroying, Creating
<1>4. ThreadShape
  BY <1>0 DEF ThreadShape, Published, InLoop, Creating
<1>5. Contiguous
  BY DEF Contiguous
<1>6. QueueShape /\ FunctorsBelong
  BY <1>0, BaseIsNoThread DEF QueueShape, FunctorsBelong
<1>7. \A l \in Loops : Queues[l] = <<>>
  <2>1. Rest(<<>>, 0, <<>>) = <<>>
    BY EmptySeq, RestOfNothing
  <2> QED
    BY <2>1, QueuesAre
<1>8. (\A g : ~Holds(<<>>, g)) /\ Ordered(<<>>, ups) /\ Distinct(<<>>)
  <2>1. 1 .. Len(<<>>) = {}
    BY EmptySeq
  <2> QED
    BY <2>1 DEF Holds, Ordered, Distinct
<1>9. UpFirst /\ Somewhere /\ Once
  BY <1>0, <1>7, <1>8 DEF UpFirst, Somewhere, Once
<1>10. Cardinality(Open) <= MaxFds
  <2>1. Open = {}
    BY <1>0 DEF Open
  <2> QED
    BY <2>1, FS_EmptySet, ServerAssumption
<1> QED
  BY <1>1, <1>2, <1>3, <1>4, <1>5, <1>6, <1>9, <1>10 DEF SInv

\* Every step keeps it.
LEMMA SInvStep == SInv /\ [Next]_vars => SInv'
<1> SUFFICES ASSUME SInv, [Next]_vars PROVE SInv'
  OBVIOUS
<1> USE DEF SInv
<1>1. Types' /\ Counts'
  BY TypesStep
<1>2. PoolShape' /\ ThreadShape' /\ Contiguous'
  BY <1>1, ShapeStep
<1>3. QueueShape' /\ FunctorsBelong'
  BY <1>1, VectorsStep
<1>4. (UpFirst /\ Somewhere /\ Once)'
  BY <1>1, LifeStep DEF Life
<1>5. Cardinality(Open') <= MaxFds
  BY <1>1, DescriptorsStep DEF Life
<1> QED
  BY <1>1, <1>2, <1>3, <1>4, <1>5

\* The inductive invariant, in every execution.
THEOREM ServerInvariant == Spec => []SInv
BY SInvInit, SInvStep, PTL DEF Spec

\* The members of the server, its acceptor and its pool keep their types, next_
\* is an index of loops_, and no more descriptors are open than there are.
THEOREM TypeCorrect == Spec => []TypeOK
<1>1. SInv => TypeOK
  <2> SUFFICES ASSUME SInv PROVE TypeOK
    OBVIOUS
  <2>1. Types /\ Counts /\ PoolShape /\ UpFirst /\ Cardinality(Open) <= MaxFds
    BY DEF SInv
  <2>2. DOMAIN ioLoop \subseteq Conns
    BY <2>1, IdsProperties
  <2>3. connections_ \subseteq Conns /\ ups \subseteq Conns /\ downs \subseteq Conns
        /\ removed \subseteq Conns
    BY <2>1, <2>2 DEF Counts, UpFirst
  <2>4. nextConnId_ \in 1 .. MaxConns + 1 /\ waiting \in 0 .. MaxConns
    BY <2>1, ServerAssumption DEF Counts, Types
  <2>5. loops_ # <<>> => next_ < Len(loops_)
    BY <2>1 DEF PoolShape
  <2> QED
    BY <2>1, <2>3, <2>4, <2>5 DEF Types, TypeOK
<1> QED
  BY <1>1, ServerInvariant, PTL

\* The server touches only loops of threads that run and have published them:
\* those in loops_, those of its connections and the one the destructor quits.
THEOREM LoopsStayAlive == Spec => []LoopsAreLive
<1>1. SInv => LoopsAreLive
  <2> SUFFICES ASSUME SInv PROVE LoopsAreLive
    OBVIOUS
  <2>1. Types /\ Counts /\ PoolShape /\ ThreadShape /\ QueueShape
    BY DEF SInv
  <2>2. \A i \in Threads : thread[i] \in Published => Alive(i)
    BY <2>1 DEF ThreadShape, Alive, Published
  <2>3. ASSUME NEW i \in Range(loops_) PROVE Alive(i)
    <3>1. PICK j \in 1 .. Len(loops_) : i = loops_[j]
      BY <2>1, SeqOf DEF Types
    <3>2. i = j /\ i \in Threads /\ ~Destroying
      <4>1. loops_[j] \in Threads /\ loops_ # <<>> /\ Len(loops_) \in Nat
        BY <2>1, <3>1, SeqOf DEF Types
      <4> QED
        BY <2>1, <3>1, <4>1 DEF PoolShape
    <3>3. thread[i] \in Published
      BY <2>1, <3>1, <3>2 DEF ThreadShape
    <3> QED
      BY <2>2, <3>2, <3>3
  <2>4. ASSUME NEW id \in connections_, ioLoop[id] # Base PROVE Alive(ioLoop[id])
    <3>1. id \in DOMAIN ioLoop /\ ~Destroying
      BY <2>1 DEF Counts, PoolShape
    <3>2. ioLoop[id] \in {Base} \cup 1 .. Len(loops_) /\ ioLoop[id] \in Loops
      BY <2>1, <3>1, IdsProperties DEF QueueShape
    <3> QED
      BY <2>1, <2>2, <2>4, <3>1, <3>2, TargetIsPublished
  <2>5. owner = "quit" => Alive(current)
    BY <2>1, <2>2 DEF PoolShape, ThreadShape
  <2> QED
    BY <2>3, <2>4, <2>5 DEF LoopsAreLive
<1> QED
  BY <1>1, ServerInvariant, PTL

\* When the destructor has returned, every thread of the pool has ended, their
\* loops hold nothing, and only closed connections are referred to.
THEOREM ServerEndsClean == Spec => []NothingOutlivesServer
<1>1. SInv => NothingOutlivesServer
  <2> SUFFICES ASSUME SInv, owner = "gone"
               PROVE  /\ \A i \in Threads : thread[i] \in {"none", "ended"} /\ Queue(i) = <<>>
                      /\ Open \subseteq downs
    BY DEF NothingOutlivesServer
  <2>1. Types /\ PoolShape /\ ThreadShape /\ QueueShape /\ FunctorsBelong
    BY DEF SInv
  <2>2. \A i \in Threads : thread[i] \in {"none", "ended"}
    BY <2>1 DEF ThreadShape
  <2>3. \A i \in Threads : /\ i \in Loops /\ i # Base
                           /\ pendingFunctors_[i] = <<>> /\ functors[i] = <<>> /\ calls[i] = 0
    BY <2>1, <2>2, BaseIsNoThread DEF QueueShape, At, Published, InLoop
  <2>4. \A i \in Threads : Queue(i) = <<>>
    <3>1. Rest(<<>>, 0, <<>>) = <<>>
      BY EmptySeq, RestOfNothing
    <3> QED
      BY <2>3, <3>1 DEF Queue, Rest
  <2>5. Open \subseteq downs
    <3> SUFFICES ASSUME NEW id \in Open PROVE id \in downs
      OBVIOUS
    <3>1. connections_ = {}
      BY <2>1 DEF PoolShape, Destroying
    <3>2. PICK l \in Loops : \E f \in Range(pendingFunctors_[l]) \cup Range(functors[l]) : f.id = id
      BY <3>1 DEF Open, Held
    <3>3. l = Base
      BY <2>3, <3>2, BaseIsNoThread DEF Range
    <3> QED
      BY <2>1, <3>2, <3>3 DEF FunctorsBelong, Belongs
  <2> QED
    BY <2>2, <2>4, <2>5
<1> QED
  BY <1>1, ServerInvariant, PTL

\* No connection is reported down, or removed from the poller, before it is
\* reported up.
THEOREM UpsComeFirst == Spec => []UpBeforeDown
<1>1. SInv => UpBeforeDown
  BY DEF SInv, UpFirst, UpBeforeDown
<1> QED
  BY <1>1, ServerInvariant, PTL

\* connectionDestroyed is called once at most for each connection, on its own
\* loop, however close and destruction of the server meet.
THEOREM NeverDestroyedTwice == Spec => []DestroyedOnce
<1>1. SInv => DestroyedOnce
  <2> SUFFICES ASSUME SInv, NEW id \in DOMAIN ioLoop
               PROVE  /\ Destructions(id) + (IF id \in removed THEN 1 ELSE 0)
                                          + (IF id \in connections_ THEN 1 ELSE 0) <= 1
                      /\ \A l \in Loops \ {ioLoop[id]} :
                            Functor("destroyed", id) \notin Range(Queue(l))
    BY DEF DestroyedOnce
  <2> DEFINE f == Functor("destroyed", id)
             P == {p \in UNION {{l} \X DOMAIN Queue(l) : l \in Loops} : Queue(p[1])[p[2]] = f}
  <2>1. Types /\ Counts /\ FunctorsBelong /\ Once
    BY DEF SInv
  <2>2. \A l \in Loops : Queues[l] = Queue(l)
    BY DEF Queues
  <2>3. \A l \in Loops : /\ DOMAIN Queue(l) = 1 .. Len(Queue(l))
                         /\ Range(Queue(l)) = {Queue(l)[k] : k \in 1 .. Len(Queue(l))}
    BY <2>1, <2>2, QueuesProperties, SeqOf
  <2>4. \A l \in Loops : \A k \in DOMAIN Queue(l) : Queue(l)[k] = f => Holds(Queues[l], f)
    BY <2>2, <2>3 DEF Holds
  <2>5. f.op = "destroyed" /\ f.id = id
    BY FunctorForm
  <2>6. \A l \in Loops : Holds(Queues[l], f) =>
            l = ioLoop[id] /\ id \notin connections_ /\ id \notin removed
    <3>1. \A l \in Loops : Holds(Queues[l], f) => id \notin connections_ /\ id \notin removed
      BY <2>1 DEF Once, Queued
    <3> HIDE DEF f
    <3>2. \A l \in Loops : Holds(Queues[l], f) => l = ioLoop[id]
      BY <2>1, <2>5, LifeContext DEF Belongs
    <3> QED
      BY <3>1, <3>2
  <2> HIDE DEF f
  <2>7. \A p \in P : /\ p = <<p[1], p[2]>> /\ p[1] \in Loops
                     /\ p[2] \in 1 .. Len(Queues[p[1]]) /\ Queues[p[1]][p[2]] = f
    BY <2>2, <2>3
  <2>8. \A p, r \in P : p = r
    <3> SUFFICES ASSUME NEW p \in P, NEW r \in P PROVE p = r
      OBVIOUS
    <3>1. p[1] = ioLoop[id] /\ r[1] = ioLoop[id]
      BY <2>2, <2>3, <2>4, <2>6, <2>7
    <3>2. p[2] = r[2]
      BY <2>1, <2>5, <2>7, <3>1 DEF Once, Distinct
    <3> QED
      BY <2>7, <3>1, <3>2
  <2>9. CASE P = {}
    <3>1. Destructions(id) = 0
      BY <2>9, FS_EmptySet DEF Destructions, f
    <3>2. ~(id \in removed /\ id \in connections_)
      BY <2>1 DEF Once
    <3>3. \A l \in Loops \ {ioLoop[id]} : f \notin Range(Queue(l))
      BY <2>3, <2>4, <2>6
    <3> QED
      BY <3>1, <3>2, <3>3 DEF f
  <2>10. CASE P # {}
    <3>1. PICK p : P = {p}
      BY <2>8, <2>10
    <3>2. Cardinality(P) = 1
      BY <3>1, FS_Singleton
    <3>3. Destructions(id) = 1
      BY <3>2 DEF Destructions, f
    <3>4. id \notin removed /\ id \notin connections_
      BY <2>2, <2>3, <2>4, <2>6, <2>7, <3>1
    <3>5. \A l \in Loops \ {ioLoop[id]} : f \notin Range(Queue(l))
      BY <2>3, <2>4, <2>6
    <3> QED
      BY <3>3, <3>4, <3>5 DEF f
  <2> QED
    BY <2>9, <2>10
<1> QED
  BY <1>1, ServerInvariant, PTL

\* While a loop dispatches events, nobody runs connectionDestroyed on its
\* connections, and its thread does not end.
LEMMA NothingGoesInDispatch ==
    ASSUME Types, Counts, PoolShape, ThreadShape, FunctorsBelong, [Next]_vars,
           NEW id \in DOMAIN ioLoop, At(ioLoop[id], "poll")
    PROVE  /\ id \in DOMAIN ioLoop' /\ ioLoop'[id] = ioLoop[id]
           /\ id \in removed' => id \in removed
           /\ ioLoop[id] # Base => thread'[ioLoop[id]] # "ended"
<1> USE DEF functorVars, reportVars
<1>0. ioLoop[id] \in Loops /\ (ioLoop[id] # Base => ioLoop[id] \in Threads)
  BY LifeContext
<1>1. CASE Accepts
  <2>1. UNCHANGED <<removed, thread>>
    BY <1>1 DEF Accepts, PollBase, threadVars
  <2> QED
    BY <1>1, <2>1, AcceptsIds DEF At
<1>2. ASSUME ~Accepts PROVE UNCHANGED ioLoop
  BY <1>2, StepKinds
  DEF Quiet, SwapFunctors, CallFunctor, EndFunctors, CloseConnection, DestroyConnection, ThreadEnds,
      roundFrame, threadFrame
<1>3. CASE Quiet
  <2>1. ioLoop[id] # Base => thread'[ioLoop[id]] # "ended"
    BY <1>0, <1>3 DEF Quiet, At, Published, InLoop
  <2> QED
    BY <1>3, <2>1 DEF Quiet
<1>4. ASSUME NEW l \in Loops, SwapFunctors(l) \/ CallFunctor(l) \/ EndFunctors(l), ~Accepts
      PROVE  /\ id \in removed' => id \in removed
             /\ ioLoop[id] # Base => thread'[ioLoop[id]] # "ended"
  <2>1. ioLoop[id] # Base => thread'[ioLoop[id]] # "ended"
    BY <1>0, <1>4 DEF SwapFunctors, CallFunctor, EndFunctors, Goto, At, Types
  <2>2. CASE SwapFunctors(l) \/ EndFunctors(l)
    BY <2>1, <2>2 DEF SwapFunctors, EndFunctors
  <2>3. CASE CallFunctor(l)
    <3> DEFINE f == functors[l][calls[l] + 1]
    <3>1. Belongs(f, l, ioLoop, downs) /\ At(l, "run")
      BY <2>3, CalledFunctor DEF CallFunctor, FunctorsBelong
    <3>2. \/ removed' = removed
          \/ f.op = "destroyed" /\ removed' = removed \cup {f.id}
      BY <2>3 DEF CallFunctor, connectionDestroyed
    <3> HIDE DEF f
    <3>3. f.op = "destroyed" => l = ioLoop[f.id]
      BY <3>1 DEF Belongs
    <3>4. l # ioLoop[id]
      BY <3>1 DEF At
    <3> QED
      BY <2>1, <3>2, <3>3, <3>4
  <2> QED
    BY <1>4, <2>2, <2>3
<1>5. ASSUME NEW c \in DOMAIN ioLoop, CloseConnection(c)
      PROVE  UNCHANGED <<removed, thread>>
  BY <1>5 DEF CloseConnection
<1>6. ASSUME NEW c \in connections_, DestroyConnection(c)
      PROVE  (id \in removed' => id \in removed) /\ UNCHANGED thread
  BY <1>6 DEF DestroyConnection, RunsHere, connectionDestroyed, At, threadVars
<1>7. ASSUME NEW i \in Threads, ThreadEnds(i)
      PROVE  /\ UNCHANGED removed
             /\ ioLoop[id] # Base => thread'[ioLoop[id]] # "ended"
  BY <1>0, <1>7 DEF ThreadEnds, threadFrame, At, Types
<1> QED
  BY <1>1, <1>2, <1>3, <1>4, <1>5, <1>6, <1>7, StepKinds DEF At

\* The connections that a loop's activeChannels_ may point to do not go during
\* its dispatch.
THEOREM DispatchStaysSafe == Spec => DispatchIsSafe
<1>1. ASSUME SInv, SInv', [Next]_vars
      PROVE  \A l \in Loops : At(l, "poll") =>
                {id \in Open \ removed : ioLoop[id] = l} \subseteq Open'
  <2> SUFFICES ASSUME NEW id \in Open, id \notin removed, At(ioLoop[id], "poll")
               PROVE  id \in Open'
    OBVIOUS
  <2>1. id \in DOMAIN ioLoop
    BY DEF Open
  <2>2. /\ id \in DOMAIN ioLoop' /\ ioLoop'[id] = ioLoop[id] /\ id \notin removed'
        /\ ioLoop[id] # Base => thread'[ioLoop[id]] # "ended"
    BY <1>1, <2>1, NothingGoesInDispatch DEF SInv
  <2> DEFINE f == Functor("destroyed", id)  l == ioLoop[id]
  <2>3. id \in connections_' \/ Holds(Queues'[l], f)
    BY <1>1, <2>2 DEF SInv, Somewhere, Queued
  <2>4. l \in Loops /\ f.id = id
    BY <1>1, <2>1, LifeContext, FunctorForm DEF SInv
  <2> HIDE DEF f, l
  <2>5. Holds(Queues'[l], f) => f \in Range(pendingFunctors_'[l]) \cup Range(functors'[l])
    BY <1>1, <2>4, QueuesPropertiesPrimed DEF SInv
  <2> QED
    BY <2>2, <2>3, <2>4, <2>5 DEF Open, Held
<1> QED
  BY <1>1, ServerInvariant, PTL DEF Spec, DispatchIsSafe

-----------------------------------------------------------------------------
(* Round robin, when only the owner calls start().                         *)

(***************************************************************************)
(* The inductive invariant: while the pool is started the owner is in      *)
(* start(), so that no loop of the pool has a connection before all are    *)
(* there; then the first next_ loops are one connection ahead.             *)
(***************************************************************************)
OwnerStarts == starter # "idle" => owner = "start" /\ next_ = 0

NoLoadYet == starter # "idle" \/ started_ # 1 => \A id \in DOMAIN ioLoop : ioLoop[id] = Base

Balance ==
    \E m \in Nat : \A j \in 1 .. Len(loops_) : Load(j) = IF j <= next_ THEN m + 1 ELSE m

RInv == OwnerStarts /\ NoLoadYet /\ Balance

\* The connections of a loop can be counted.
LEMMA LoadIsFinite ==
    ASSUME Types, Counts, NEW i
    PROVE  IsFiniteSet({id \in DOMAIN ioLoop : ioLoop[id] = i}) /\ Load(i) \in Nat
<1> DEFINE S == {id \in DOMAIN ioLoop : ioLoop[id] = i}
<1>0. DOMAIN ioLoop = 1 .. nextConnId_ - 1
  BY IdsProperties
<1>1. S \in SUBSET (1 .. nextConnId_ - 1) /\ nextConnId_ - 1 \in Nat
  BY <1>0 DEF Types
<1>2. IsFiniteSet(1 .. nextConnId_ - 1)
  BY <1>1, FS_Interval
<1>3. IsFiniteSet(S)
  BY <1>1, <1>2, FS_Subset
<1> QED
  BY <1>3, FS_CardinalityType DEF Load

\* A loop that has no connection.
LEMMA NoLoad ==
    ASSUME NEW i, \A id \in DOMAIN ioLoop : ioLoop[id] # i
    PROVE  Load(i) = 0
<1>1. {id \in DOMAIN ioLoop : ioLoop[id] = i} = {}
  OBVIOUS
<1> QED
  BY <1>1, FS_EmptySet DEF Load

\* An accepted connection counts for the loop it goes to, and for no other.
LEMMA AcceptLoads ==
    ASSUME Types, Counts, PoolShape, Accepts, NEW i
    PROVE  Load(i)' = IF i = getNextLoop THEN Load(i) + 1 ELSE Load(i)
<1> DEFINE n == nextConnId_  t == getNextLoop
           S == {id \in DOMAIN ioLoop : ioLoop[id] = i}
           T == {id \in DOMAIN ioLoop' : ioLoop'[id] = i}
<1>1. /\ n \notin DOMAIN ioLoop /\ DOMAIN ioLoop' = DOMAIN ioLoop \cup {n}
      /\ \A id \in DOMAIN ioLoop : ioLoop'[id] = ioLoop[id]
      /\ ioLoop'[n] = t
  BY AcceptsIds
<1>2. IsFiniteSet(S) /\ n \notin S
  BY <1>1, LoadIsFinite
<1>3. T = IF i = t THEN S \cup {n} ELSE S
  BY <1>1
<1>4. Load(i) = Cardinality(S) /\ Load(i)' = Cardinality(T)
  BY DEF Load
<1> HIDE DEF S, T, t, n
<1>5. Cardinality(S \cup {n}) = Cardinality(S) + 1
  BY <1>2, FS_AddElement
<1> QED
  BY <1>3, <1>4, <1>5 DEF t

(***************************************************************************)
(* What a step that accepts nothing does to the pool, when only the owner  *)
(* may start it.                                                           *)
(***************************************************************************)
LEMMA PoolMoves ==
    ASSUME Starters \subseteq {"owner"}, Types, PoolShape, OwnerStarts, [Next]_vars, ~Accepts
    PROVE  /\ UNCHANGED <<ioLoop, next_>>
           /\ loops_' = loops_ \/ loops_' = <<>> \/ starter # "idle"
           /\ starter' # "idle" =>
                \/ starter # "idle" /\ owner' = owner
                \/ starter = "idle" /\ started_ = 0 /\ owner' = "start" /\ next_ = 0
           /\ started_' # 1 => started_ # 1
<1> USE DEF startVars, poolVars, acceptVars, OwnerStarts
<1>1. ASSUME NEW n \in 0 .. MaxThreads, setThreadNum(n) PROVE UNCHANGED <<ioLoop, next_, loops_,
        starter, owner, started_>>
  BY <1>1 DEF setThreadNum
<1>2. ASSUME NEW who \in Starters, start(who)
      PROVE  /\ UNCHANGED <<ioLoop, next_, loops_>>
             /\ started_' # 1 => started_ # 1
             /\ starter' # "idle" =>
                \/ starter # "idle" /\ owner' = owner
                \/ starter = "idle" /\ started_ = 0 /\ owner' = "start" /\ next_ = 0
  <2>1. who = "owner" /\ owner = "outside" /\ starter = "idle"
    BY <1>2 DEF start, MayStart
  <2>2. started_ = 0 => next_ = 0
    BY <2>1 DEF PoolShape, Destroying
  <2> QED
    BY <1>2, <2>1, <2>2 DEF start
<1>3. CASE CreateThread
  BY <1>3 DEF CreateThread, startFrame
<1>4. CASE SemWait \/ StartLoop \/ PushLoop
  BY <1>4 DEF SemWait, StartLoop, PushLoop, startFrame
<1>5. CASE EnterBaseLoop \/ LeaveBaseLoop \/ DestroyServer
  BY <1>5 DEF EnterBaseLoop, LeaveBaseLoop, DestroyServer
<1>6. CASE PollBase
  BY <1>6 DEF PollBase, Accepts, handleRead
<1>7. CASE DestroyPool
  BY <1>7 DEF DestroyPool
<1>8. CASE QuitThread
  BY <1>8 DEF QuitThread
<1>9. CASE Join
  BY <1>9 DEF Join
<1>10. ASSUME NEW id \in connections_, DestroyConnection(id) PROVE UNCHANGED <<ioLoop, next_,
        loops_, starter, owner, started_>>
  BY <1>10 DEF DestroyConnection
<1>11. ASSUME NEW i \in Threads,
              ThreadBegins(i) \/ Publish(i) \/ EnterLoop(i) \/ CheckQuit(i) \/ ThreadEnds(i)
       PROVE  /\ UNCHANGED <<ioLoop, next_, loops_, owner, started_>>
              /\ starter' # "idle" => starter # "idle"
  BY <1>11 DEF ThreadBegins, Publish, EnterLoop, CheckQuit, ThreadEnds, threadFrame, NotifyOne
<1>12. ASSUME NEW l \in Loops, RunFunctors(l)
       PROVE  /\ UNCHANGED <<ioLoop, next_, loops_, starter, started_>>
              /\ starter # "idle" => UNCHANGED owner
  BY <1>12 DEF RunFunctors, SwapFunctors, CallFunctor, EndFunctors, roundFrame, At, Goto
<1>13. CASE ClientConnects
  BY <1>13 DEF ClientConnects
<1>14. ASSUME NEW id \in DOMAIN ioLoop, CloseConnection(id)
       PROVE  UNCHANGED <<ioLoop, next_, loops_, starter, owner, started_>>
  BY <1>14 DEF CloseConnection, roundFrame
<1>15. CASE UNCHANGED vars
  BY <1>15 DEF vars
<1> QED
  BY <1>1, <1>2, <1>3, <1>4, <1>5, <1>6, <1>7, <1>8, <1>9, <1>10, <1>11, <1>12, <1>13, <1>14,
     <1>15, BaseIsNoThread
  DEF Next, OwnerStep, StarterStep, BaseStep, UserStep, ThreadStep

\* The loops are served in turn.
LEMMA AcceptBalances ==
    ASSUME Types, Counts, PoolShape, Balance, Accepts
    PROVE  Balance'
<1>1. loops_' = loops_ /\ newConnection /\ ~Destroying
  BY AcceptsIds DEF Accepts, PollBase
<1>2. Len(loops_) \in Nat /\ (loops_ = <<>> <=> Len(loops_) = 0) /\ next_ \in Nat
  BY SeqOf DEF Types
<1>3. CASE loops_ = <<>>
  BY <1>1, <1>2, <1>3 DEF Balance
<1>4. CASE loops_ # <<>>
  <2>1. next_ < Len(loops_)
    BY <1>1, <1>4 DEF PoolShape
  <2>2. getNextLoop = next_ + 1
    BY <1>2, <1>4, <2>1 DEF getNextLoop, PoolShape
  <2>3. next_' = IF next_ + 1 >= Len(loops_) THEN 0 ELSE next_ + 1
    BY <1>1, <1>4 DEF newConnection, NextAfter
  <2>4. PICK m \in Nat :
            \A j \in 1 .. Len(loops_) : Load(j) = IF j <= next_ THEN m + 1 ELSE m
    BY DEF Balance
  <2>5. ASSUME NEW j \in 1 .. Len(loops_)
        PROVE  Load(j)' = IF j <= next_ + 1 THEN m + 1 ELSE m
    <3>1. Load(j)' = IF j = next_ + 1 THEN Load(j) + 1 ELSE Load(j)
      BY <2>2, AcceptLoads
    <3>2. Load(j) = IF j <= next_ THEN m + 1 ELSE m
      BY <2>4
    <3> QED
      BY <1>2, <3>1, <3>2
  <2>6. CASE next_ + 1 < Len(loops_)
    <3>1. next_' = next_ + 1
      BY <1>2, <2>3, <2>6
    <3> QED
      BY <1>1, <2>4, <2>5, <3>1 DEF Balance
  <2>7. CASE next_ + 1 >= Len(loops_)
    <3>1. next_' = 0 /\ m + 1 \in Nat
      BY <2>3, <2>7
    <3>2. ASSUME NEW j \in 1 .. Len(loops_)
          PROVE  Load(j)' = IF j <= next_' THEN (m + 1) + 1 ELSE m + 1
      <4>1. j <= next_ + 1 /\ ~(j <= next_')
        BY <1>2, <2>7, <3>1
      <4> QED
        BY <2>5, <4>1
    <3> QED
      BY <1>1, <3>1, <3>2 DEF Balance
  <2> QED
    BY <1>2, <2>6, <2>7
<1> QED
  BY <1>3, <1>4

\* The invariant of the round robin holds at the start.
LEMMA RInvInit == Init => RInv
<1> SUFFICES ASSUME Init PROVE RInv
  OBVIOUS
<1>1. DOMAIN ioLoop = {} /\ Len(loops_) = 0 /\ starter = "idle"
  BY DEF Init
<1>2. Balance
  BY <1>1 DEF Balance
<1> QED
  BY <1>1, <1>2 DEF RInv, OwnerStarts, NoLoadYet

\* And it is kept when only the owner may start the pool.
LEMMA RInvStep ==
    ASSUME Starters \subseteq {"owner"}, SInv, SInv', RInv, [Next]_vars
    PROVE  RInv'
<1>0. Types /\ Counts /\ PoolShape /\ Types' /\ PoolShape' /\ QueueShape
  BY DEF SInv
<1>r. OwnerStarts /\ NoLoadYet /\ Balance
  BY DEF RInv
<1>1. CASE Accepts
  <2>1. owner = "check" /\ UNCHANGED <<starter, started_>>
    BY <1>1 DEF Accepts, PollBase, startVars
  <2>2. starter = "idle" /\ starter' = "idle"
    BY <1>r, <2>1 DEF OwnerStarts
  <2>3. NoLoadYet'
    <3> SUFFICES ASSUME started_' # 1, NEW id \in DOMAIN ioLoop' PROVE ioLoop'[id] = Base
      BY <2>2 DEF NoLoadYet
    <3>1. loops_ = <<>> /\ getNextLoop = Base
      BY <1>0, <2>1 DEF PoolShape, getNextLoop
    <3>2. \A c \in DOMAIN ioLoop : ioLoop[c] = Base
      BY <1>r, <2>1 DEF NoLoadYet
    <3> QED
      BY <1>0, <1>1, <3>1, <3>2, AcceptsIds
  <2>4. Balance'
    BY <1>0, <1>r, <1>1, AcceptBalances
  <2> QED
    BY <2>2, <2>3, <2>4 DEF RInv, OwnerStarts
<1>2. CASE ~Accepts
  <2>1. /\ UNCHANGED <<ioLoop, next_>>
        /\ loops_' = loops_ \/ loops_' = <<>> \/ starter # "idle"
        /\ starter' # "idle" =>
             \/ starter # "idle" /\ owner' = owner
             \/ starter = "idle" /\ started_ = 0 /\ owner' = "start" /\ next_ = 0
        /\ started_' # 1 => started_ # 1
    BY <1>0, <1>r, <1>2, PoolMoves
  <2>2. OwnerStarts'
    BY <1>r, <2>1 DEF OwnerStarts
  <2>3. NoLoadYet'
    BY <1>r, <2>1 DEF NoLoadYet
  <2>4. Balance'
    <3>1. \A j : Load(j)' = Load(j)
      BY <2>1 DEF Load
    <3>2. CASE loops_' = loops_
      BY <1>r, <2>1, <3>1, <3>2 DEF Balance
    <3>3. CASE loops_' = <<>>
      <4>1. Len(loops_') = 0
        BY <3>3
      <4> QED
        BY <4>1 DEF Balance
    <3>4. CASE starter # "idle"
      <4>1. next_' = 0 /\ \A id \in DOMAIN ioLoop' : ioLoop'[id] = Base
        BY <1>r, <2>1, <3>4 DEF OwnerStarts, NoLoadYet
      <4>2. ASSUME NEW j \in 1 .. Len(loops_') PROVE Load(j)' = 0 /\ ~(j <= 0)
        <5>1. j # Base /\ \A id \in DOMAIN ioLoop : ioLoop[id] # j
          BY <1>r, <3>4 DEF NoLoadYet, Base
        <5> QED
          BY <3>1, <5>1, NoLoad
      <4> QED
        BY <4>1, <4>2 DEF Balance
    <3> QED
      BY <2>1, <3>2, <3>3, <3>4
  <2> QED
    BY <2>2, <2>3, <2>4 DEF RInv
<1> QED
  BY <1>1, <1>2

(***************************************************************************)
(* When start() is only called by the owner of the base loop, connections  *)
(* are shared out evenly among the loops, however many there are: getNext- *)
(* Loop never favours a loop and never skips one.                          *)
(***************************************************************************)
THEOREM LoadStaysBalanced ==
    ASSUME Starters \subseteq {"owner"}
    PROVE  Spec => []LoadIsBalanced
<1>1. SInv /\ RInv => LoadIsBalanced
  <2> SUFFICES ASSUME SInv, RInv, NEW j \in DOMAIN loops_, NEW k \in DOMAIN loops_
               PROVE  LoadIsBalanced!(j, k)
    BY DEF LoadIsBalanced
  <2>1. Types /\ PoolShape
    BY DEF SInv
  <2>2. DOMAIN loops_ = 1 .. Len(loops_) /\ Len(loops_) \in Nat /\ next_ \in Nat
    BY <2>1, SeqOf DEF Types
  <2>3. loops_[j] = j /\ loops_[k] = k /\ j \in Nat /\ k \in Nat
    BY <2>1, <2>2 DEF PoolShape
  <2>4. PICK m \in Nat :
            \A i \in 1 .. Len(loops_) : Load(i) = IF i <= next_ THEN m + 1 ELSE m
    BY DEF RInv, Balance
  <2>5. /\ Load(j) = IF j <= next_ THEN m + 1 ELSE m
        /\ Load(k) = IF k <= next_ THEN m + 1 ELSE m
    BY <2>2, <2>4
  <2> QED
    BY <2>2, <2>3, <2>5
<1>2. SInv /\ SInv' /\ RInv /\ [Next]_vars => RInv'
  BY RInvStep
<1> QED
  BY <1>1, <1>2, RInvInit, ServerInvariant, PTL DEF Spec

=============================================================================
