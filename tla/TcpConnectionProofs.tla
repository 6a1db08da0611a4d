------------------------- MODULE TcpConnectionProofs -------------------------
(***************************************************************************)
(* Proofs about TcpConnection, for every kernel buffer, message length,    *)
(* high water mark and number of bytes, whichever threads send and shut    *)
(* down, whatever the peer does and whenever the server goes: the user's   *)
(* reports, the interest in EPOLLOUT, the byte stream up to the first move *)
(* of makeSpace, the server that handleClose calls, and the two            *)
(* refinements up to the first late send.                                  *)
(***************************************************************************)
EXTENDS TcpConnection, BufferLemmas

(***************************************************************************)
(* The inductive invariant, first part: types.                             *)
(***************************************************************************)
QueueTypes ==
    /\ queue \in Seq(Functors) /\ batch \in Nat /\ batch <= Len(queue)
    /\ sender \in Functors /\ closer \in Functors

Types ==
    /\ state_ \in States /\ events_ \subseteq {"R", "W"} /\ index_ \in {"kNew", "kAdded"}
    /\ pc \in ControlPoints /\ revents_ \subseteq {"IN", "OUT", "HUP", "ERR"}
    /\ crossing \in CrossThread /\ server \in ServerPoints
    /\ ended \in {"no", "sigpipe", "fatal", "undefined"}

Flags ==
    /\ registered \in BOOLEAN /\ batchHolds \in BOOLEAN
    /\ sameLoop \in BOOLEAN /\ inMap \in BOOLEAN /\ lateSend \in BOOLEAN
    /\ baseHolds \in BOOLEAN /\ held \in BOOLEAN
    /\ wrShut \in BOOLEAN /\ peerFin \in BOOLEAN /\ reset \in BOOLEAN /\ err \in BOOLEAN

Numbers ==
    /\ removals \in Nat
    /\ inData \in Nat /\ inBudget \in Nat /\ inData + inBudget <= MaxIn[crossing]
    /\ sent \in Nat /\ budget \in Nat

\* The kernel's send buffer holds no more than fits.
WireTypes ==
    /\ wire \in Seq(Byte)
    /\ received \in Nat /\ received <= Len(wire) /\ Len(wire) - received <= SndBuf[crossing]

\* The output buffer is sound, unless an append has ended the process.
BufferIsSound ==
    /\ outputBuffer_ \in BufferType /\ compacted \in BOOLEAN
    /\ Ordered(outputBuffer_)
    /\ outputBuffer_.intact => outputBuffer_.writerIndex_ <= Len(outputBuffer_.mem)
    /\ Running \/ ~compacted => outputBuffer_.intact

(***************************************************************************)
(* Second part: no more is sent than users may.  The bytes of a message    *)
(* count when the budget is charged, while the sender holds it, while it   *)
(* is queued, and when sendInLoop takes it on; off[i] is a bound of what   *)
(* has been taken on once the first i functors are called.                 *)
(***************************************************************************)
Accounting(q, first, last) ==
    \E off \in [0 .. Len(q) -> Nat] :
        /\ first <= off[0]
        /\ \A i \in 1 .. Len(q) : off[i - 1] + q[i].len <= off[i]
        /\ \A i \in 0 .. Len(q) : off[i] <= last

Accounted == Accounting(queue, sent, MaxSent[crossing] - budget - sender.len)

\* What the other threads do, and the functors they leave.
Called(f) ==
    /\ f.op = "send" => "send" \in crossing /\ f.len > 0
    /\ f.op \in {"set", "shutdown"} => "shutdown" \in crossing

Calling ==
    /\ \A f \in Range(queue) : f.op \notin {"idle", "set"} /\ Called(f)
    /\ Called(sender) /\ (sender.op = "send" \/ sender = Idle)
    /\ Called(closer) /\ closer \in {Idle, Functor("set"), Functor("shutdown")}

\* They hold the connection meanwhile.
Calls ==
    /\ Calling
    /\ (sender # Idle \/ closer # Idle) => held
    /\ held => ups = 1

\* connectionDestroyed is queued.
Destroying(q) == \E f \in Range(q) : f.op = "destroyed"

(***************************************************************************)
(* Third part: before connectionEstablished nothing can happen but that    *)
(* the server is destroyed.                                                *)
(***************************************************************************)
Fresh ==
    ups = 0 =>
        /\ state_ = "kConnecting" /\ outputBuffer_ = NewBuffer /\ compacted = FALSE
        /\ events_ = {} /\ index_ = "kNew" /\ registered = FALSE
        /\ pc \in {"poll", "swap", "functors", "left"}
        /\ downs = 0 /\ wire = <<>> /\ sent = 0 /\ ~lateSend
        /\ ~LoopGone =>
            /\ queue # <<>> /\ Head(queue).op = "established"
            /\ \A f \in Range(Tail(queue)) : f.op = "destroyed"
            /\ inMap \/ Destroying(queue)

\* ~TcpServer quits and joins the loop of a pool, and none but that.
Leaving ==
    /\ LoopGone => ~sameLoop /\ server \in {"join", "gone"}
    /\ server \in {"quit", "join"} => ~sameLoop
    /\ server = "gone" /\ ~sameLoop => LoopGone
    /\ server # "alive" => ~inMap

(***************************************************************************)
(* Fourth part: the reports, with the state and the registration that go   *)
(* with each.                                                              *)
(***************************************************************************)
Reports ==
    /\ ups \in {0, 1} /\ downs \in Nat
    /\ registered => index_ = "kAdded"
    /\ ups = 1 => \A f \in Range(queue) : f.op # "established"
    /\ ups = 1 /\ downs = 0 =>
        /\ state_ \in {"kConnected", "kDisconnecting"}
        /\ events_ # {}
        /\ index_ = "kAdded" => registered
    /\ downs > 0 => ups = 1 /\ state_ \in {"kDisconnected", "kDisconnecting"}
    /\ downs > 0 /\ ~lateSend => downs = 1 /\ events_ = {} /\ registered = FALSE
    /\ downs > 0 /\ state_ = "kDisconnecting" => "shutdown" \in crossing

\* Where the dispatch may be.
Dispatching ==
    /\ pc \in {"close", "error", "read", "message", "write"} => ups = 1 /\ index_ = "kAdded"
    /\ pc = "remove" => ups = 1 /\ state_ # "kConnected"
    /\ ~lateSend /\ pc \in {"close", "message"} => downs = 0
    /\ ~lateSend /\ pc \in {"error", "read"} => downs = 0 \/ "IN" \notin revents_

\* EPOLLOUT is asked for.
Writing ==
    ups = 1 /\ downs = 0 /\ readableBytes(outputBuffer_) > 0 => isWriting

(***************************************************************************)
(* Fifth part: who is going to remove the channel.                         *)
(***************************************************************************)
Removing ==
    /\ ups = 1 /\ index_ = "kNew" => state_ # "kConnected"
    /\ removals > 0 => downs > 0
    /\ ~inMap /\ server = "alive" => downs > 0
    /\ Running /\ index_ = "kAdded" /\ ~LoopGone /\ ~lateSend =>
        inMap \/ pc = "remove" \/ Destroying(queue)

\* On the base loop itself, ~TcpServer leaves a channel that has no events.
Orphaned ==
    server = "gone" /\ sameLoop /\ ~lateSend =>
        /\ ups = 1 /\ state_ # "kConnected"
        /\ pc \notin {"close", "error", "read", "message", "write"}
        /\ registered => pc = "remove"

\* Sixth part: the byte stream.
Stream ==
    /\ StreamInOrder
    /\ ~compacted => Len(wire) <= sent
    /\ err => reset

CInv ==
    /\ Types /\ Flags /\ Numbers /\ QueueTypes /\ WireTypes /\ BufferIsSound
    /\ Accounted /\ Calls /\ Fresh /\ Leaving
    /\ Reports /\ Dispatching /\ Writing /\ Removing /\ Orphaned
    /\ Stream

-----------------------------------------------------------------------------
(* Queues of functors.                                                     *)

\* What a loop takes from the front of its queue, and what it leaves.
LEMMA TakeFromQueue ==
    ASSUME NEW S, NEW q \in Seq(S), q # <<>>
    PROVE  /\ Head(q) \in S /\ Head(q) \in Range(q)
           /\ Tail(q) \in Seq(S) /\ Len(Tail(q)) = Len(q) - 1 /\ Len(q) \in Nat \ {0}
           /\ \A i \in 1 .. Len(Tail(q)) : Tail(q)[i] = q[i + 1]
           /\ Range(Tail(q)) \subseteq Range(q)
           /\ Range(q) \subseteq {Head(q)} \cup Range(Tail(q))
<1>1. /\ Len(q) \in Nat \ {0} /\ DOMAIN q = 1 .. Len(q) /\ Head(q) = q[1]
      /\ \A i \in 1 .. Len(q) : q[i] \in S
  BY EmptySeq, LenProperties, ElementOfSeq, HeadTailProperties
<1>2. /\ Tail(q) \in Seq(S) /\ Len(Tail(q)) = Len(q) - 1
      /\ \A i \in 1 .. Len(Tail(q)) : Tail(q)[i] = q[i + 1]
  BY HeadTailProperties
<1>3. DOMAIN Tail(q) = 1 .. Len(q) - 1
  BY <1>2, LenProperties
<1>4. Range(Tail(q)) \subseteq Range(q)
  BY <1>1, <1>2, <1>3 DEF Range
<1>5. Range(q) \subseteq {Head(q)} \cup Range(Tail(q))
  <2> SUFFICES ASSUME NEW i \in 1 .. Len(q), i # 1 PROVE q[i] \in Range(Tail(q))
    BY <1>1 DEF Range
  <2>1. i - 1 \in 1 .. Len(Tail(q)) /\ Tail(q)[i - 1] = q[i]
    BY <1>1, <1>2
  <2> QED
    BY <1>2, <1>3, <2>1 DEF Range
<1>6. Head(q) \in S /\ Head(q) \in Range(q)
  <2>1. 1 \in 1 .. Len(q)
    BY <1>1
  <2> QED
    BY <1>1, <2>1 DEF Range
<1> QED
  BY <1>1, <1>2, <1>4, <1>5, <1>6, Zenon

\* A functor is put behind the others.
LEMMA PutInQueue ==
    ASSUME NEW S, NEW q \in Seq(S), NEW f \in S
    PROVE  /\ Append(q, f) \in Seq(S) /\ Len(Append(q, f)) = Len(q) + 1 /\ Len(q) \in Nat
           /\ Append(q, f) # <<>>
           /\ \A i \in 1 .. Len(q) : Append(q, f)[i] = q[i]
           /\ Append(q, f)[Len(q) + 1] = f
           /\ Range(Append(q, f)) = Range(q) \cup {f}
           /\ q # <<>> => /\ Head(Append(q, f)) = Head(q)
                          /\ Range(Tail(Append(q, f))) \subseteq Range(Tail(q)) \cup {f}
<1> DEFINE a == Append(q, f)
<1>1. /\ a \in Seq(S) /\ Len(a) = Len(q) + 1 /\ Len(q) \in Nat
      /\ \A i \in 1 .. Len(q) : a[i] = q[i]
      /\ a[Len(q) + 1] = f
  BY AppendProperties, LenProperties
<1>2. DOMAIN a = 1 .. Len(q) + 1 /\ DOMAIN q = 1 .. Len(q)
  BY <1>1, LenProperties
<1>3. a # <<>>
  BY <1>1, EmptySeq
<1> HIDE DEF a
<1>4. Range(a) = Range(q) \cup {f}
  BY <1>1, <1>2 DEF Range
<1>5. ASSUME q # <<>>
      PROVE  Head(a) = Head(q) /\ Range(Tail(a)) \subseteq Range(Tail(q)) \cup {f}
  <2>1. /\ Len(q) \in Nat \ {0} /\ Len(Tail(q)) = Len(q) - 1 /\ Tail(q) \in Seq(S)
        /\ \A i \in 1 .. Len(Tail(q)) : Tail(q)[i] = q[i + 1]
    BY <1>5, TakeFromQueue
  <2>2. /\ Len(Tail(a)) = Len(q) /\ Tail(a) \in Seq(S)
        /\ \A i \in 1 .. Len(Tail(a)) : Tail(a)[i] = a[i + 1]
    BY <1>1, <1>3, TakeFromQueue
  <2>3. DOMAIN Tail(a) = 1 .. Len(q) /\ DOMAIN Tail(q) = 1 .. Len(q) - 1
    BY <2>1, <2>2, LenProperties
  <2>4. Head(a) = a[1] /\ Head(q) = q[1]
    BY <1>1, <1>3, <1>5, HeadTailProperties
  <2>5. ASSUME NEW i \in 1 .. Len(q) PROVE Tail(a)[i] \in Range(Tail(q)) \cup {f}
    <3>1. CASE i = Len(q)
      BY <1>1, <2>2, <3>1
    <3>2. CASE i # Len(q)
      <4>1. i \in 1 .. Len(q) - 1 /\ i + 1 \in 1 .. Len(q)
        BY <1>1, <3>2
      <4>2. Tail(a)[i] = a[i + 1] /\ Tail(q)[i] = q[i + 1] /\ a[i + 1] = q[i + 1]
        BY <1>1, <2>1, <2>2, <4>1
      <4> QED
        BY <2>3, <4>1, <4>2 DEF Range
    <3> QED
      BY <3>1, <3>2
  <2> QED
    BY <1>1, <2>1, <2>3, <2>4, <2>5 DEF Range
<1> QED
  BY <1>1, <1>3, <1>4, <1>5 DEF a

-----------------------------------------------------------------------------
(* Numbers.                                                                *)

\* Min of two numbers.
LEMMA MinProperties ==
    ASSUME NEW a \in Int, NEW b \in Int
    PROVE  Min({a, b}) = IF a <= b THEN a ELSE b
<1> DEFINE m == IF a <= b THEN a ELSE b
<1>1. m \in {a, b} /\ \A y \in {a, b} : m <= y
  OBVIOUS
<1>2. \A x \in {a, b} : (\A y \in {a, b} : x <= y) => x = m
  OBVIOUS
<1> HIDE DEF m
<1>3. Min({a, b}) = m
  BY <1>1, <1>2 DEF Min
<1> QED
  BY <1>3 DEF m

-----------------------------------------------------------------------------
(* Types.                                                                  *)

\* The functors a connection queues by itself.
LEMMA OwnFunctors ==
    ASSUME Types
    PROVE  /\ MaxSent[crossing] \in Nat /\ SndBuf[crossing] \in Nat \ {0}
           /\ Functor("writeComplete") \in Functors /\ Functor("highWater") \in Functors
           /\ Functor("destroyed") \in Functors /\ Functor("idle") \in Functors
           /\ Functor("set") \in Functors /\ Functor("shutdown") \in Functors
           /\ \A f \in Functors : f.len \in 0 .. MaxSent[crossing]
<1>1. MaxSent[crossing] \in Nat /\ SndBuf[crossing] \in Nat \ {0}
  BY ConnectionAssumption DEF Types
<1> QED
  BY <1>1 DEF Functor, Functors

\* A functor that is called.
LEMMA CalledFunctor ==
    ASSUME Types, QueueTypes, NEW op, NextFunctor(op)
    PROVE  /\ queue # <<>> /\ Head(queue) \in Functors /\ Head(queue).op = op
           /\ Head(queue).len \in Nat /\ Head(queue) \in Range(queue)
           /\ batch' = batch - 1 /\ batch' \in Nat /\ UNCHANGED batchHolds
           /\ Tail(queue) \in Seq(Functors) /\ batch' <= Len(Tail(queue))
           /\ Running /\ pc = "functors"
<1>1. batch > 0 /\ Head(queue).op = op /\ batch' = batch - 1 /\ UNCHANGED batchHolds
      /\ Running /\ pc = "functors"
  BY DEF NextFunctor, At
<1>2. queue \in Seq(Functors) /\ batch \in Nat /\ batch <= Len(queue)
  BY DEF QueueTypes
<1>3. queue # <<>>
  <2>1. Len(queue) \in Nat /\ Len(queue) # 0
    BY <1>1, <1>2, LenProperties
  <2> QED
    BY <1>2, <2>1, EmptySeq
<1>4. /\ Head(queue) \in Functors /\ Head(queue) \in Range(queue)
      /\ Tail(queue) \in Seq(Functors) /\ Len(Tail(queue)) = Len(queue) - 1
      /\ Len(queue) \in Nat
  BY <1>2, <1>3, TakeFromQueue
<1>5. Head(queue).len \in Nat
  BY <1>4, OwnFunctors
<1> QED
  BY <1>1, <1>2, <1>3, <1>4, <1>5

\* Update sets the events of the channel.
LEMMA UpdateTypes ==
    ASSUME NEW events, events \subseteq {"R", "W"}, Update(events)
    PROVE  events_' \subseteq {"R", "W"} /\ index_' \in {"kNew", "kAdded"}
BY DEF Update

(***************************************************************************)
(* What sendInLoop does: it is refused, or its write fails, or it writes a *)
(* part and keeps the rest.                                                *)
(***************************************************************************)
LEMMA SendEffect ==
    ASSUME NEW len \in Nat, NEW q, sendInLoop(len, q)
    PROVE  /\ UNCHANGED wrShut /\ err' \in {err, FALSE}
           /\ sent' \in {sent, sent + len}
           /\ queue' \in {q, Append(q, Functor("writeComplete")), Append(q, Functor("highWater"))}
           /\ UNCHANGED sentVars \/ TakeOn(len)
           /\ \/ UNCHANGED <<bufferVars, channelVars>> /\ ended' \in {ended, "sigpipe"}
              \/ /\ state_ # "kDisconnected" /\ ~(Direct /\ WriteFails)
                 /\ TakeOn(len) /\ \E rest : KeepRest(rest)
<1> USE DEF channelVars, sockVars, bufferVars, sentVars, TakeOn
<1>1. CASE state_ = "kDisconnected"
  BY <1>1 DEF sendInLoop
<1>2. CASE state_ # "kDisconnected" /\ Direct /\ WriteFails
  BY <1>2 DEF sendInLoop, FailedWrite
<1>3. CASE state_ # "kDisconnected" /\ ~(Direct /\ WriteFails)
  <2>1. PICK nwrote \in Written(len) :
          IF nwrote = len
          THEN /\ queue' = QueueCallback(q, "writeComplete")
               /\ UNCHANGED <<bufferVars, channelVars, ended>>
          ELSE /\ queue' \in {QueueCallback(q, "highWater"), q}
               /\ \E rest : KeepRest(rest)
    BY <1>3 DEF sendInLoop
  <2>2. UNCHANGED <<wrShut, err>> /\ TakeOn(len)
    BY <1>3 DEF sendInLoop
  <2> QED
    BY <1>3, <2>1, <2>2 DEF QueueCallback
<1> QED
  BY <1>1, <1>2, <1>3

\* The rest is kept in the output buffer, whose channel is told.
LEMMA KeepEffect ==
    ASSUME NEW rest, KeepRest(rest)
    PROVE  /\ AppendRest(rest)
           /\ ended' \in {"undefined", "fatal", ended}
           /\ \/ isWriting /\ UNCHANGED channelVars
              \/ ~isWriting /\ Update(events_ \cup {"W"})
           /\ outputBuffer_'.intact /\ ~FatalUpdate(events_ \cup {"W"}) => UNCHANGED ended
           /\ ~outputBuffer_'.intact => ended' = "undefined"
BY DEF KeepRest

\* handleWrite: what is left over of the buffer, and the channel.
LEMMA WriteEffect ==
    ASSUME NEW n, WriteOut(n)
    PROVE  /\ UNCHANGED err /\ wrShut' \in {wrShut, TRUE}
           /\ queue' \in {queue, Append(queue, Functor("writeComplete"))}
           /\ UNCHANGED <<channelVars, ended>> \/ SetEvents(events_ \cap {"W"})
BY DEF WriteOut, shutdownInLoop, shutdownWrite, AfterDisableWriting, QueueCallback

\* connectionDestroyed: a connection that is still up is closed.
LEMMA DestroyEffect ==
    ASSUME connectionDestroyed
    PROVE  /\ pc' = "remove"
           /\ \/ state_ = "kConnected" /\ state_' = "kDisconnected" /\ SetEvents({})
                 /\ downs' = downs + 1
              \/ state_ # "kConnected" /\ UNCHANGED <<state_, channelVars, ended, downs>>
           /\ UNCHANGED <<bufferVars, revents_, callerVars, peerVars, sockVars, budget,
                          sentVars, ups>>
BY DEF connectionDestroyed, EndUnreported

\* handleClose: the connection is closed, and asked to be removed.
LEMMA CloseEffect ==
    ASSUME NEW point, handleClose(point)
    PROVE  /\ state_' = "kDisconnected" /\ downs' = downs + 1 /\ pc' = point /\ Update({})
           /\ ended' \in {ended, "undefined"} /\ (server # "gone" => UNCHANGED ended)
           /\ server = "gone" => ended' = "undefined"
           /\ \/ sameLoop /\ inMap' = FALSE /\ queue' = Append(queue, Functor("destroyed"))
                 /\ UNCHANGED removals
              \/ ~sameLoop /\ removals' = removals + 1 /\ UNCHANGED <<inMap, queue>>
           /\ UNCHANGED <<bufferVars, revents_, batchVars, sameLoop, baseHolds, server,
                          callerVars, peerVars, sockVars, budget, sentVars, ups>>
BY DEF handleClose, removeConnection, removeConnectionInLoop

\* DispatchRead, case by case.
LEMMA ReadCases ==
    ASSUME DispatchRead
    PROVE  /\ Running /\ pc = "read"
           /\ \/ /\ "IN" \in revents_ /\ inData' = 0 /\ pc' = "message"
                 /\ UNCHANGED <<connVars, channelVars, revents_, queue, batchVars, serverVars,
                                callerVars, received, peerFin, reset, inBudget, sockVars,
                                historyVars>>
              \/ /\ err' = FALSE /\ pc' = "write"
                 /\ UNCHANGED <<connVars, channelVars, revents_, queue, batchVars, worldVars,
                                wire, wrShut, historyVars>>
              \/ "IN" \in revents_ /\ handleClose("write")
              \/ GoOn("write")
BY DEF DispatchRead, At

\* DispatchWrite, case by case.
LEMMA WriteCases ==
    ASSUME DispatchWrite
    PROVE  /\ Running /\ pc = "write" /\ pc' = "swap" /\ revents_' = {}
           /\ UNCHANGED <<state_, batchVars, worldVars, budget, sentVars, ups, downs>>
           /\ \/ /\ WriteFails /\ FailedWrite
                 /\ UNCHANGED <<bufferVars, channelVars, queue, wire, wrShut>>
              \/ /\ isWriting /\ ~WriteFails
                 /\ WriteOut(Min({readableBytes(outputBuffer_), Space}))
              \/ UNCHANGED <<bufferVars, channelVars, queue, sockVars, ended>>
BY DEF DispatchWrite, At

\* The length of what is sent.
LEMMA SentLength ==
    ASSUME Types, QueueTypes
    PROVE  /\ Lens \subseteq Nat
           /\ RunSend => Head(queue).len \in Nat
BY CalledFunctor, ConnectionAssumption DEF RunSend

\* Every step keeps the types.
LEMMA TypesStep ==
    ASSUME Types, QueueTypes, [Next]_vars
    PROVE  Types'
<1> USE DEF connVars, channelVars, serverVars, callerVars, historyVars, worldVars, loopVars
<1>1. CASE Poll
  BY <1>1 DEF Poll, ReadyEvents, ControlPoints, Types
<1>2. ASSUME NEW point \in {"error", "write"}, handleClose(point) PROVE Types'
  <2>1. events_' \subseteq {"R", "W"} /\ index_' \in {"kNew", "kAdded"}
    BY <1>2, CloseEffect, UpdateTypes
  <2> QED
    BY <1>2, <2>1, CloseEffect DEF Types, States, ControlPoints
<1>3. ASSUME NEW point \in ControlPoints, GoOn(point) PROVE Types'
  BY <1>3 DEF GoOn, Types
<1>4. CASE DispatchClose
  BY <1>2, <1>3, <1>4 DEF DispatchClose, ControlPoints
<1>5. CASE DispatchError
  BY <1>5 DEF DispatchError, ControlPoints, Types
<1>6. CASE DispatchRead
  <2>1. ASSUME UNCHANGED <<connVars, channelVars, revents_, crossing, server, historyVars>>,
               pc' \in {"message", "write"}
        PROVE  Types'
    BY <2>1 DEF ControlPoints, Types
  <2> QED
    BY <1>2, <1>3, <1>6, <2>1, ReadCases DEF ControlPoints
<1>7. CASE DispatchWrite
  <2>1. /\ pc' = "swap" /\ revents_' = {} /\ UNCHANGED <<state_, crossing, server>>
        /\ \/ UNCHANGED channelVars /\ ended' \in {ended, "sigpipe"}
           \/ SetEvents(events_ \cap {"W"})
    BY <1>7, WriteCases, WriteEffect DEF FailedWrite
  <2>2. ASSUME SetEvents(events_ \cap {"W"})
        PROVE  /\ events_' \subseteq {"R", "W"} /\ index_' \in {"kNew", "kAdded"}
               /\ ended' \in {ended, "fatal"}
    BY <2>2, UpdateTypes DEF SetEvents
  <2> QED
    BY <2>1, <2>2 DEF Types, ControlPoints
<1>8. CASE SwapFunctors \/ EndFunctors \/ LeaveLoop
  BY <1>8 DEF SwapFunctors, EndFunctors, LeaveLoop, ControlPoints, Types
<1>9. CASE ConnectionEstablished
  <2>1. /\ SetEvents(events_ \cup {"R"}) /\ UNCHANGED <<revents_, crossing, server>>
        /\ state_' = "kConnected" /\ pc' = "user"
    BY <1>9 DEF ConnectionEstablished
  <2>2. /\ events_' \subseteq {"R", "W"} /\ index_' \in {"kNew", "kAdded"}
        /\ ended' \in {ended, "fatal"}
    BY <2>1, UpdateTypes DEF SetEvents, Types
  <2> QED
    BY <2>1, <2>2 DEF ControlPoints, States, Types
<1>10. CASE RunOnDeleted \/ RunShutdown \/ RunCallback
  BY <1>10 DEF RunOnDeleted, RunShutdown, RunCallback, ControlPoints, Types
<1>11. ASSUME NEW len \in Nat, NEW q, sendInLoop(len, q),
              UNCHANGED <<state_, pc, revents_, crossing, server>>
       PROVE  Types'
  <2>1. \/ UNCHANGED channelVars /\ ended' \in {ended, "sigpipe"}
        \/ \E rest : KeepRest(rest)
    BY <1>11, SendEffect
  <2>2. ASSUME NEW rest, KeepRest(rest)
        PROVE  /\ events_' \subseteq {"R", "W"} /\ index_' \in {"kNew", "kAdded"}
               /\ ended' \in {"undefined", "fatal", ended}
    BY <2>2, KeepEffect, UpdateTypes DEF Types
  <2> QED
    BY <1>11, <2>1, <2>2 DEF Types
<1>12. CASE RunSend \/ \E len \in Lens : UserSend(len)
  BY <1>11, <1>12, SentLength DEF RunSend, UserSend
<1>13. ASSUME connectionDestroyed, server' \in ServerPoints PROVE Types'
  <2>1. /\ events_' \subseteq {"R", "W"} /\ index_' \in {"kNew", "kAdded"}
        /\ ended' \in {ended, "fatal"} /\ state_' \in {state_, "kDisconnected"}
    BY <1>13, DestroyEffect, UpdateTypes DEF SetEvents, Types
  <2> QED
    BY <1>13, <2>1, DestroyEffect DEF Types, States, ControlPoints
<1>14. CASE RunDestroyed
  BY <1>13, <1>14 DEF RunDestroyed, Types
<1>15. CASE RemoveChannel
  BY <1>15 DEF RemoveChannel, removeChannel, ControlPoints, Types
<1>16. CASE UserReturns
  BY <1>3, <1>16 DEF UserReturns, ControlPoints
<1>17. CASE UserShutdown \/ CallerSetState
  BY <1>17 DEF UserShutdown, CallerSetState, States, Types
<1>18. CASE CallerShutdown \/ CallerReleases \/ \E len \in Lens : CallerSend(len)
  BY <1>18 DEF CallerShutdown, CallerReleases, CallerSend, Types
<1>a. CASE SenderQueues \/ CloserQueues
  BY <1>a DEF SenderQueues, CloserQueues, QueueInLoop, Types
<1>19. CASE RunRemoval \/ BaseLoopReleases \/ QuitLoop \/ Join
  BY <1>19 DEF RunRemoval, BaseLoopReleases, QuitLoop, Join, Types, ServerPoints
<1>20. CASE DestroyServer
  <2>1. server' \in ServerPoints
    BY <1>20 DEF DestroyServer, ServerPoints
  <2>2. CASE UNCHANGED <<connVars, channelVars, pc, revents_, callerVars, historyVars>>
    BY <2>1, <2>2 DEF Types
  <2> QED
    BY <1>13, <1>20, <2>1, <2>2 DEF DestroyServer
<1>21. CASE PeerStep
  BY <1>21 DEF PeerStep, PeerReceives, PeerSends, PeerCloses, PeerResets, Types
<1>22. CASE UNCHANGED vars
  BY <1>22 DEF vars, Types
<1> QED
  BY <1>1, <1>4, <1>5, <1>6, <1>7, <1>8, <1>9, <1>10, <1>12, <1>14, <1>15, <1>16, <1>17,
     <1>18, <1>a, <1>19, <1>20, <1>21, <1>22
  DEF Next, LoopStep, UserStep, CallerStep, ServerStep

\* The flags stay Boolean.
LEMMA FlagsStep ==
    ASSUME Types, QueueTypes, Flags, [Next]_vars
    PROVE  Flags'
<1> USE DEF Flags, connVars, channelVars, serverVars, callerVars, peerVars, sockVars, historyVars,
            worldVars, loopVars, batchVars, sentVars
<1>1. CASE Poll
  BY <1>1 DEF Poll
<1>2. ASSUME NEW point, handleClose(point) PROVE Flags'
  <2>1. registered' \in BOOLEAN /\ inMap' \in BOOLEAN
    BY <1>2, CloseEffect, Zenon DEF Update
  <2>2. UNCHANGED <<batchHolds, sameLoop, lateSend, baseHolds, held, wrShut, peerFin, reset, err>>
    BY <1>2, CloseEffect
  <2> QED
    BY <2>1, <2>2, Zenon
<1>3. ASSUME NEW point, GoOn(point) PROVE Flags'
  BY <1>3 DEF GoOn
<1>4. CASE DispatchClose
  BY <1>2, <1>3, <1>4 DEF DispatchClose
<1>5. CASE DispatchError
  <2>1. err' \in BOOLEAN
    BY <1>5, Zenon DEF DispatchError
  <2>2. UNCHANGED <<registered, batchHolds, sameLoop, inMap, lateSend, baseHolds, held, wrShut,
                    peerFin, reset>>
    BY <1>5 DEF DispatchError
  <2> QED
    BY <2>1, <2>2, Zenon
<1>6. CASE DispatchRead
  <2>1. ASSUME err' = err \/ err' = FALSE,
               UNCHANGED <<registered, batchHolds, sameLoop, inMap, lateSend, baseHolds, held,
                           wrShut, peerFin, reset>>
        PROVE  Flags'
    BY <2>1, Zenon
  <2> QED
    BY <1>2, <1>3, <1>6, <2>1, ReadCases
<1>7. CASE DispatchWrite
  <2>1. registered' \in BOOLEAN
    <3>1. UNCHANGED registered \/ SetEvents(events_ \cap {"W"})
      BY <1>7, WriteCases, WriteEffect
    <3> QED
      BY <3>1, Zenon DEF SetEvents, Update
  <2>2. wrShut' \in {wrShut, TRUE} /\ err' \in {err, FALSE}
    BY <1>7, WriteCases, WriteEffect DEF FailedWrite
  <2>3. wrShut' \in BOOLEAN /\ err' \in BOOLEAN
    BY <2>2, Zenon
  <2>4. UNCHANGED <<batchHolds, sameLoop, inMap, lateSend, baseHolds, held, peerFin, reset>>
    BY <1>7, WriteCases
  <2> QED
    BY <2>1, <2>3, <2>4, Zenon
<1>8. CASE SwapFunctors \/ EndFunctors \/ LeaveLoop
  <2>1. batchHolds' \in BOOLEAN
    BY <1>8, Zenon DEF SwapFunctors, EndFunctors, LeaveLoop, QueueHolds
  <2>2. UNCHANGED <<registered, sameLoop, inMap, lateSend, baseHolds, held, wrShut, peerFin,
                    reset, err>>
    BY <1>8 DEF SwapFunctors, EndFunctors, LeaveLoop
  <2> QED
    BY <2>1, <2>2, Zenon
<1>9. CASE ConnectionEstablished
  <2>1. registered' \in BOOLEAN /\ held' \in BOOLEAN
    BY <1>9, Zenon DEF ConnectionEstablished, SetEvents, Update
  <2>2. UNCHANGED <<batchHolds, sameLoop, inMap, lateSend, baseHolds, wrShut, peerFin, reset,
                    err>>
    BY <1>9 DEF ConnectionEstablished, NextFunctor
  <2> QED
    BY <2>1, <2>2, Zenon
<1>10. CASE RunOnDeleted \/ RunShutdown \/ RunCallback \/ UserShutdown
  <2>1. wrShut' \in {wrShut, TRUE}
    BY <1>10 DEF RunOnDeleted, RunShutdown, RunCallback, UserShutdown, shutdownInLoop,
                 shutdownWrite
  <2>2. wrShut' \in BOOLEAN
    BY <2>1, Zenon
  <2>3. UNCHANGED <<registered, batchHolds, sameLoop, inMap, lateSend, baseHolds, held, peerFin,
                    reset, err>>
    BY <1>10 DEF RunOnDeleted, RunShutdown, RunCallback, UserShutdown, NextFunctor
  <2> QED
    BY <2>2, <2>3, Zenon
<1>11. ASSUME NEW len \in Nat, NEW q, sendInLoop(len, q),
              UNCHANGED <<batchHolds, sameLoop, inMap, baseHolds, held, peerFin, reset>>
       PROVE  Flags'
  <2>1. UNCHANGED channelVars \/ \E rest : KeepRest(rest)
    BY <1>11, SendEffect
  <2>2. registered' \in BOOLEAN
    <3>1. UNCHANGED registered \/ Update(events_ \cup {"W"})
      BY <2>1, KeepEffect
    <3> QED
      BY <3>1, Zenon DEF Update
  <2>3. UNCHANGED wrShut /\ err' \in {err, FALSE}
    BY <1>11, SendEffect
  <2>4. wrShut' \in BOOLEAN /\ err' \in BOOLEAN
    BY <2>3, Zenon
  <2>5. UNCHANGED lateSend \/ lateSend' = (lateSend \/ Over)
    BY <1>11, SendEffect DEF TakeOn
  <2>6. lateSend' \in BOOLEAN
    BY <2>5, Zenon
  <2> QED
    BY <1>11, <2>2, <2>4, <2>6, Zenon
<1>12. CASE RunSend \/ \E len \in Lens : UserSend(len)
  <2>1. UNCHANGED <<batchHolds, sameLoop, inMap, baseHolds, held, peerFin, reset>>
    BY <1>12 DEF RunSend, UserSend, NextFunctor
  <2>2. \E len \in Nat, q \in {queue, Tail(queue)} : sendInLoop(len, q)
    BY <1>12, SentLength DEF RunSend, UserSend
  <2> QED
    BY <1>11, <2>1, <2>2
<1>13. ASSUME connectionDestroyed
       PROVE  registered' \in BOOLEAN /\ UNCHANGED <<held, wrShut, peerFin, reset, err, lateSend>>
  <2>1. UNCHANGED registered \/ SetEvents({})
    BY <1>13, DestroyEffect
  <2>2. registered' \in BOOLEAN
    BY <2>1, Zenon DEF SetEvents, Update
  <2> QED
    BY <1>13, <2>2, DestroyEffect
<1>14. CASE RunDestroyed
  <2>1. connectionDestroyed /\ UNCHANGED <<serverVars, batchHolds>>
    BY <1>14 DEF RunDestroyed, NextFunctor
  <2> QED
    BY <1>13, <2>1
<1>15. CASE RemoveChannel
  <2>1. registered' = FALSE
    BY <1>15 DEF RemoveChannel, removeChannel
  <2>2. UNCHANGED <<batchHolds, sameLoop, inMap, lateSend, baseHolds, held, wrShut, peerFin,
                    reset, err>>
    BY <1>15 DEF RemoveChannel
  <2> QED
    BY <2>1, <2>2, Zenon
<1>16. CASE UserReturns
  BY <1>3, <1>16 DEF UserReturns
<1>17. CASE CallerShutdown \/ CallerSetState \/ \E len \in Lens : CallerSend(len)
  BY <1>17 DEF CallerShutdown, CallerSetState, CallerSend
<1>a. CASE SenderQueues \/ CloserQueues
  BY <1>a DEF SenderQueues, CloserQueues, QueueInLoop
<1>18. CASE CallerReleases
  <2>1. held' = FALSE
    BY <1>18 DEF CallerReleases
  <2>2. UNCHANGED <<registered, batchHolds, sameLoop, inMap, lateSend, baseHolds, wrShut, peerFin,
                    reset, err>>
    BY <1>18 DEF CallerReleases
  <2> QED
    BY <2>1, <2>2, Zenon
<1>19. CASE RunRemoval \/ BaseLoopReleases
  <2>1. baseHolds' \in {TRUE, FALSE} /\ inMap' \in {inMap, FALSE}
    BY <1>19 DEF RunRemoval, BaseLoopReleases, removeConnectionInLoop
  <2>2. UNCHANGED <<registered, batchHolds, sameLoop, lateSend, held, wrShut, peerFin, reset,
                    err>>
    BY <1>19 DEF RunRemoval, BaseLoopReleases
  <2> QED
    BY <2>1, <2>2, Zenon
<1>20. CASE DestroyServer
  <2>1. inMap' = FALSE /\ UNCHANGED <<batchHolds, sameLoop, baseHolds>>
    BY <1>20 DEF DestroyServer
  <2>2. registered' \in BOOLEAN /\ UNCHANGED <<held, wrShut, peerFin, reset, err, lateSend>>
    BY <1>13, <1>20, Zenon DEF DestroyServer
  <2> QED
    BY <2>1, <2>2, Zenon
<1>b. CASE QuitLoop \/ Join
  BY <1>b DEF QuitLoop, Join
<1>21. CASE PeerReceives \/ PeerSends
  BY <1>21 DEF PeerReceives, PeerSends
<1>22. CASE PeerCloses \/ PeerResets
  <2>1. peerFin' \in {peerFin, TRUE} /\ reset' \in {reset, TRUE} /\ err' \in {err, TRUE}
    BY <1>22 DEF PeerCloses, PeerResets
  <2>2. UNCHANGED <<registered, batchHolds, sameLoop, inMap, lateSend, baseHolds, held, wrShut>>
    BY <1>22 DEF PeerCloses, PeerResets
  <2> QED
    BY <2>1, <2>2, Zenon
<1>23. CASE UNCHANGED vars
  BY <1>23 DEF vars
<1> QED
  BY <1>1, <1>4, <1>5, <1>6, <1>7, <1>8, <1>9, <1>10, <1>12, <1>14, <1>15, <1>16, <1>17,
     <1>18, <1>a, <1>b, <1>19, <1>20, <1>21, <1>22, <1>23
  DEF Next, LoopStep, UserStep, CallerStep, ServerStep, PeerStep

-----------------------------------------------------------------------------
(* The functors of the queue, and the bytes they stand for.                *)

\* The budget is charged before the bytes are taken on.
LEMMA AccountShift ==
    ASSUME NEW S, NEW q \in Seq(S), \A f \in S : f.len \in Nat,
           NEW a \in Nat, NEW b \in Int, NEW n \in Nat, NEW m \in Nat,
           m <= n, Accounting(q, a, b)
    PROVE  Accounting(q, a + m, b + n)
<1>0. Len(q) \in Nat /\ \A i \in 1 .. Len(q) : q[i].len \in Nat
  BY LenProperties, ElementOfSeq
<1>1. PICK off \in [0 .. Len(q) -> Nat] :
        /\ a <= off[0]
        /\ \A i \in 1 .. Len(q) : off[i - 1] + q[i].len <= off[i]
        /\ \A i \in 0 .. Len(q) : off[i] <= b
  BY DEF Accounting
<1> DEFINE up == [i \in 0 .. Len(q) |-> off[i] + m]
<1>2. up \in [0 .. Len(q) -> Nat]
  OBVIOUS
<1>3. a + m <= up[0]
  BY <1>0, <1>1
<1>4. ASSUME NEW i \in 0 .. Len(q) PROVE up[i] <= b + n
  <2>1. up[i] = off[i] + m /\ off[i] \in Nat /\ off[i] <= b
    BY <1>1
  <2> QED
    BY <2>1
<1>5. ASSUME NEW i \in 1 .. Len(q) PROVE up[i - 1] + q[i].len <= up[i]
  <2>1. i - 1 \in 0 .. Len(q) /\ i \in 0 .. Len(q)
    BY <1>0
  <2>2. up[i - 1] = off[i - 1] + m /\ up[i] = off[i] + m /\ off[i - 1] \in Nat /\ off[i] \in Nat
    BY <2>1
  <2>3. off[i - 1] + q[i].len <= off[i] /\ q[i].len \in Nat
    BY <1>0, <1>1
  <2> QED
    BY <2>2, <2>3
<1> QED
  BY <1>2, <1>3, <1>4, <1>5 DEF Accounting

\* A functor is called: its bytes count as taken on, or are dropped.
LEMMA AccountTake ==
    ASSUME NEW S, NEW q \in Seq(S), q # <<>>, \A f \in S : f.len \in Nat,
           NEW a \in Nat, NEW b \in Int, Accounting(q, a, b)
    PROVE  /\ Accounting(Tail(q), a, b)
           /\ Accounting(Tail(q), a + Head(q).len, b)
           /\ a + Head(q).len <= b
<1>0. /\ Head(q) \in S /\ Tail(q) \in Seq(S) /\ Len(Tail(q)) = Len(q) - 1 /\ Len(q) \in Nat \ {0}
      /\ \A i \in 1 .. Len(Tail(q)) : Tail(q)[i] = q[i + 1]
      /\ Head(q) = q[1]
  BY TakeFromQueue, HeadTailProperties
<1>1. PICK off \in [0 .. Len(q) -> Nat] :
        /\ a <= off[0]
        /\ \A i \in 1 .. Len(q) : off[i - 1] + q[i].len <= off[i]
        /\ \A i \in 0 .. Len(q) : off[i] <= b
  BY DEF Accounting
<1> DEFINE t == Tail(q)
           less == [i \in 0 .. Len(q) - 1 |-> off[i + 1]]
<1>2. less \in [0 .. Len(t) -> Nat]
  BY <1>0
<1>3. a + Head(q).len <= less[0] /\ a <= less[0] /\ less[0] <= b
  <2>1. less[0] = off[1] /\ off[0] \in Nat /\ off[1] \in Nat /\ Head(q).len \in Nat
    BY <1>0
  <2>2. off[1 - 1] + q[1].len <= off[1] /\ off[1] <= b
    BY <1>0, <1>1
  <2> QED
    BY <1>0, <1>1, <2>1, <2>2
<1>4. \A i \in 0 .. Len(t) : less[i] <= b
  BY <1>0, <1>1
<1>5. ASSUME NEW i \in 1 .. Len(t) PROVE less[i - 1] + t[i].len <= less[i]
  <2>1. i + 1 \in 1 .. Len(q) /\ i - 1 \in 0 .. Len(q) - 1 /\ i \in 0 .. Len(q) - 1
    BY <1>0
  <2>2. less[i - 1] = off[(i + 1) - 1] /\ less[i] = off[i + 1] /\ t[i] = q[i + 1]
    BY <1>0, <2>1
  <2>3. off[(i + 1) - 1] + q[i + 1].len <= off[i + 1]
    BY <1>1, <2>1
  <2> QED
    BY <2>2, <2>3
<1>6. less[0] \in Nat /\ a + Head(q).len \in Nat
  BY <1>0, <1>2
<1> HIDE DEF less, t
<1>7. Accounting(t, a, b)
  BY <1>2, <1>3, <1>4, <1>5 DEF Accounting
<1>8. Accounting(t, a + Head(q).len, b)
  BY <1>2, <1>3, <1>4, <1>5 DEF Accounting
<1> QED
  BY <1>3, <1>6, <1>7, <1>8 DEF t

\* A functor is queued.
LEMMA AccountPut ==
    ASSUME NEW S, NEW q \in Seq(S), NEW f \in S, f.len \in Nat,
           NEW a \in Nat, NEW b \in Int, Accounting(q, a, b)
    PROVE  Accounting(Append(q, f), a, b + f.len)
<1> DEFINE p == Append(q, f)
<1>0. /\ Len(p) = Len(q) + 1 /\ Len(q) \in Nat
      /\ \A i \in 1 .. Len(q) : p[i] = q[i]
      /\ p[Len(q) + 1] = f
  BY PutInQueue
<1>1. PICK off \in [0 .. Len(q) -> Nat] :
        /\ a <= off[0]
        /\ \A i \in 1 .. Len(q) : off[i - 1] + q[i].len <= off[i]
        /\ \A i \in 0 .. Len(q) : off[i] <= b
  BY DEF Accounting
<1> HIDE DEF p
<1> DEFINE more == [i \in 0 .. Len(q) + 1 |-> IF i <= Len(q) THEN off[i] ELSE off[Len(q)] + f.len]
<1>m. \A i \in 0 .. Len(q) : more[i] = off[i] /\ off[i] \in Nat
  BY <1>0
<1>n. more[Len(q) + 1] = off[Len(q)] + f.len
  BY <1>0
<1>2. more \in [0 .. Len(p) -> Nat]
  BY <1>0
<1> HIDE DEF more
<1>3. a <= more[0]
  BY <1>0, <1>1, <1>m
<1>4. ASSUME NEW i \in 0 .. Len(p) PROVE more[i] <= b + f.len
  <2>1. CASE i \in 0 .. Len(q)
    <3>1. more[i] = off[i] /\ off[i] \in Nat /\ off[i] <= b
      BY <1>1, <1>m, <2>1
    <3> QED
      BY <3>1
  <2>2. CASE i = Len(q) + 1
    <3>1. Len(q) \in 0 .. Len(q)
      BY <1>0
    <3>2. off[Len(q)] <= b /\ off[Len(q)] \in Nat
      BY <1>1, <1>m, <3>1
    <3> QED
      BY <1>n, <2>2, <3>2
  <2> QED
    BY <1>0, <2>1, <2>2
<1>5. ASSUME NEW i \in 1 .. Len(p) PROVE more[i - 1] + p[i].len <= more[i]
  <2>1. CASE i \in 1 .. Len(q)
    <3>1. more[i - 1] = off[i - 1] /\ more[i] = off[i] /\ p[i] = q[i]
      BY <1>0, <1>m, <2>1
    <3>2. off[i - 1] + q[i].len <= off[i]
      BY <1>1, <2>1
    <3> QED
      BY <3>1, <3>2
  <2>2. CASE i = Len(q) + 1
    <3>1. i - 1 = Len(q) /\ Len(q) \in 0 .. Len(q) /\ p[i] = f
      BY <1>0, <2>2
    <3>2. more[i - 1] = off[Len(q)] /\ off[Len(q)] \in Nat
      BY <1>m, <3>1
    <3> QED
      BY <1>n, <2>2, <3>1, <3>2
  <2> QED
    BY <1>0, <2>1, <2>2
<1> QED
  BY <1>2, <1>3, <1>4, <1>5 DEF Accounting, p

\* The functors that the connection and the server queue.
Own == {Functor("writeComplete"), Functor("highWater"), Functor("destroyed")}

\* q, or q with a functor of the connection's own.
Grown(q) == {q} \cup {Append(q, f) : f \in Own}

\* How a step may change the queue, and what users have been granted.
QueueKept ==
    /\ queue' \in Grown(queue) /\ UNCHANGED <<sender, closer, budget, sent>>
    /\ \/ batch' = batch
       \/ queue' = queue /\ batch' = Len(queue)

Taken(op) ==
    /\ NextFunctor(op)
    /\ queue' \in Grown(Tail(queue)) /\ UNCHANGED <<sender, closer, budget>>
    /\ sent' \in {sent, sent + Head(queue).len}
    /\ op = "destroyed" => pc' = "remove"

UserSends(len) ==
    /\ len <= budget /\ budget' = budget - len
    /\ queue' \in Grown(queue) /\ UNCHANGED <<sender, closer, batch>>
    /\ sent' \in {sent, sent + len}

CallerMoves ==
    /\ "shutdown" \in crossing /\ held
    /\ closer' \in {Functor("set"), Functor("shutdown")}
    /\ UNCHANGED <<queue, batch, sender, budget, sent>>

\* Every step is one of these, or a step of another thread, or the end of the loop.
LEMMA QueueMoves ==
    ASSUME QueueTypes, Types, Calls, [Next]_vars
    PROVE  /\ UNCHANGED crossing
           /\ \/ QueueKept
              \/ \E op : Taken(op)
              \/ \E len \in Lens : UserSends(len)
              \/ \E len \in Lens : CallerSend(len)
              \/ CallerMoves
              \/ SenderQueues \/ CloserQueues
              \/ LeaveLoop
<1> USE DEF connVars, channelVars, serverVars, callerVars, peerVars, sockVars, historyVars,
            worldVars, loopVars, batchVars, sentVars
<1>0. \A q : q \in Grown(q) /\ \A f \in Own : Append(q, f) \in Grown(q)
  BY DEF Grown
<1>1. CASE Poll
  BY <1>0, <1>1 DEF Poll, QueueKept
<1>2. ASSUME NEW point, handleClose(point) PROVE QueueKept /\ UNCHANGED crossing
  BY <1>0, <1>2, CloseEffect DEF QueueKept, Own
<1>3. ASSUME NEW point, GoOn(point) PROVE QueueKept /\ UNCHANGED crossing
  BY <1>0, <1>3 DEF GoOn, QueueKept
<1>4. CASE DispatchClose
  BY <1>2, <1>3, <1>4 DEF DispatchClose
<1>5. CASE DispatchError
  BY <1>0, <1>5 DEF DispatchError, QueueKept
<1>6. CASE DispatchRead
  BY <1>0, <1>2, <1>3, <1>6, ReadCases DEF QueueKept
<1>7. CASE DispatchWrite
  <2>1. queue' \in Grown(queue)
    BY <1>0, <1>7, WriteCases, WriteEffect DEF Own
  <2> QED
    BY <1>7, <2>1, WriteCases DEF QueueKept
<1>8. CASE SwapFunctors \/ EndFunctors
  BY <1>0, <1>8 DEF SwapFunctors, EndFunctors, BatchSize, QueueKept
<1>9. CASE ConnectionEstablished
  BY <1>0, <1>9 DEF ConnectionEstablished, Taken
<1>10. CASE RunOnDeleted \/ RunShutdown \/ RunCallback
  <2>1. PICK op \in {"send", "shutdown", "writeComplete", "highWater"} : NextFunctor(op)
    BY <1>10 DEF RunOnDeleted, RunShutdown, RunCallback
  <2>2. queue' = Tail(queue) /\ UNCHANGED <<crossing, sender, closer, budget, sent>>
    BY <1>10 DEF RunOnDeleted, RunShutdown, RunCallback
  <2>3. Taken(op)
    BY <1>0, <2>1, <2>2 DEF Taken
  <2> QED
    BY <2>2, <2>3
<1>11. CASE RunSend
  <2>1. Head(queue).len \in Nat /\ NextFunctor("send")
    BY <1>11, CalledFunctor DEF RunSend
  <2>2. queue' \in Grown(Tail(queue)) /\ sent' \in {sent, sent + Head(queue).len}
    BY <1>0, <1>11, <2>1, SendEffect DEF RunSend, Own
  <2> QED
    BY <1>11, <2>1, <2>2 DEF RunSend, Taken
<1>12. ASSUME NEW len \in Lens, UserSend(len) PROVE UserSends(len) /\ UNCHANGED crossing
  <2>1. len \in Nat
    BY ConnectionAssumption
  <2>2. queue' \in Grown(queue) /\ sent' \in {sent, sent + len}
    BY <1>0, <1>12, <2>1, SendEffect DEF UserSend, Own
  <2> QED
    BY <1>12, <2>2 DEF UserSend, UserSends
<1>13. CASE RunDestroyed
  <2>1. NextFunctor("destroyed") /\ queue' = Tail(queue) /\ connectionDestroyed
    BY <1>13 DEF RunDestroyed
  <2> QED
    BY <1>0, <2>1, DestroyEffect DEF Taken
<1>14. CASE RemoveChannel
  BY <1>0, <1>14 DEF RemoveChannel, QueueKept
<1>15. CASE UserReturns
  BY <1>3, <1>15 DEF UserReturns
<1>16. CASE UserShutdown \/ CallerReleases \/ BaseLoopReleases \/ QuitLoop \/ Join \/ PeerStep
  BY <1>0, <1>16 DEF UserShutdown, CallerReleases, BaseLoopReleases, QuitLoop, Join, PeerStep,
                     PeerReceives, PeerSends, PeerCloses, PeerResets, QueueKept
<1>17. CASE CallerShutdown
  BY <1>17 DEF CallerShutdown, CallerMoves
<1>18. CASE CallerSetState
  <2>1. closer.op = "set" /\ held /\ "shutdown" \in crossing
    BY <1>18 DEF CallerSetState, Calls, Calling, Called, Functor, Idle
  <2> QED
    BY <1>18, <2>1 DEF CallerSetState, CallerMoves
<1>19. CASE RunRemoval
  BY <1>0, <1>19 DEF RunRemoval, removeConnectionInLoop, QueueKept, Own
<1>20. CASE DestroyServer
  <2>1. ASSUME connectionDestroyed PROVE UNCHANGED <<callerVars, budget, sent>>
    BY <2>1, DestroyEffect
  <2> QED
    BY <1>0, <1>20, <2>1 DEF DestroyServer, QueueKept, Own
<1>21. CASE UNCHANGED vars
  BY <1>0, <1>21 DEF vars, QueueKept
<1>22. CASE SenderQueues \/ CloserQueues \/ LeaveLoop \/ \E len \in Lens : CallerSend(len)
  BY <1>22 DEF SenderQueues, CloserQueues, QueueInLoop, LeaveLoop, CallerSend
<1> QED
  BY <1>1, <1>4, <1>5, <1>6, <1>7, <1>8, <1>9, <1>10, <1>11, <1>12, <1>13, <1>14, <1>15, <1>16,
     <1>17, <1>18, <1>19, <1>20, <1>21, <1>22
  DEF Next, LoopStep, UserStep, CallerStep, ServerStep

\* A functor of its own changes neither the types nor the account.
LEMMA GrownQueue ==
    ASSUME Types, NEW q \in Seq(Functors), NEW p \in Grown(q)
    PROVE  /\ p \in Seq(Functors) /\ Len(q) <= Len(p) /\ Len(q) \in Nat /\ Len(p) \in Nat
           /\ Range(q) \subseteq Range(p) /\ Range(p) \subseteq Range(q) \cup Own
           /\ q # <<>> => /\ p # <<>> /\ Head(p) = Head(q)
                          /\ Range(Tail(p)) \subseteq Range(Tail(q)) \cup Own
           /\ \A a \in Nat, b \in Int : Accounting(q, a, b) => Accounting(p, a, b)
<1>0. Len(q) \in Nat
  BY LenProperties
<1>1. CASE p = q
  BY <1>0, <1>1
<1>2. ASSUME NEW f \in Own, p = Append(q, f)
      PROVE  /\ p \in Seq(Functors) /\ Len(p) = Len(q) + 1
             /\ Range(q) \subseteq Range(p) /\ Range(p) \subseteq Range(q) \cup Own
             /\ q # <<>> => /\ p # <<>> /\ Head(p) = Head(q)
                            /\ Range(Tail(p)) \subseteq Range(Tail(q)) \cup Own
             /\ \A a \in Nat, b \in Int : Accounting(q, a, b) => Accounting(p, a, b)
  <2>1. f \in Functors /\ f.len = 0
    BY OwnFunctors DEF Own, Functor
  <2>2. /\ Append(q, f) \in Seq(Functors) /\ Len(Append(q, f)) = Len(q) + 1
        /\ Append(q, f) # <<>> /\ Range(Append(q, f)) = Range(q) \cup {f}
        /\ q # <<>> => /\ Head(Append(q, f)) = Head(q)
                       /\ Range(Tail(Append(q, f))) \subseteq Range(Tail(q)) \cup {f}
    BY <2>1, PutInQueue
  <2>3. ASSUME NEW a \in Nat, NEW b \in Int, Accounting(q, a, b) PROVE Accounting(p, a, b)
    <3>1. Accounting(Append(q, f), a, b + f.len)
      BY <2>1, <2>3, AccountPut
    <3>2. b + f.len = b
      BY <2>1
    <3> QED
      BY <1>2, <3>1, <3>2
  <2> QED
    BY <1>2, <2>2, <2>3
<1> QED
  BY <1>0, <1>1, <1>2 DEF Grown

\* What has been taken on is within the bound, and so is the next message.
LEMMA AccountBound ==
    ASSUME Types, Numbers, QueueTypes, Accounted
    PROVE  /\ sent <= MaxSent[crossing] - budget - sender.len
           /\ budget <= MaxSent[crossing] /\ sent <= MaxSent[crossing]
           /\ queue # <<>> => sent + Head(queue).len <= MaxSent[crossing]
           /\ MaxSent[crossing] \in Nat /\ sender.len \in Nat
<1>1. /\ MaxSent[crossing] \in Nat /\ sender.len \in Nat /\ sent \in Nat /\ budget \in Nat
      /\ \A f \in Functors : f.len \in Nat
  BY OwnFunctors DEF Numbers, QueueTypes
<1> DEFINE b == MaxSent[crossing] - budget - sender.len
<1>2. b \in Int /\ b <= MaxSent[crossing]
  BY <1>1
<1>3. queue \in Seq(Functors) /\ Len(queue) \in Nat /\ Accounting(queue, sent, b)
  BY LenProperties DEF QueueTypes, Accounted
<1>4. sent <= b
  <2>1. PICK off \in [0 .. Len(queue) -> Nat] :
          sent <= off[0] /\ \A i \in 0 .. Len(queue) : off[i] <= b
    BY <1>3 DEF Accounting
  <2>2. 0 \in 0 .. Len(queue)
    BY <1>3
  <2>3. off[0] \in Nat /\ off[0] <= b
    BY <2>1, <2>2
  <2> QED
    BY <1>1, <1>2, <2>1, <2>3
<1>5. ASSUME queue # <<>> PROVE sent + Head(queue).len <= b /\ Head(queue).len \in Nat
  <2> HIDE DEF b
  <2>1. Head(queue) \in Functors
    BY <1>3, <1>5, TakeFromQueue
  <2> QED
    BY <1>1, <1>2, <1>3, <1>5, <2>1, AccountTake
<1> QED
  BY <1>1, <1>2, <1>4, <1>5

\* The functors of the queue, the message of the other thread, and the account.
LEMMA QueueStep ==
    ASSUME Types, Numbers, QueueTypes, Accounted, Calls, [Next]_vars
    PROVE  /\ QueueTypes' /\ Accounted' /\ sent' \in Nat /\ budget' \in Nat
           /\ Calling'
<1> DEFINE b == MaxSent[crossing] - budget - sender.len
           Goal == /\ QueueTypes' /\ Accounted' /\ sent' \in Nat /\ budget' \in Nat
                   /\ Calling'
<1>1. /\ sent \in Nat /\ budget \in Nat /\ queue \in Seq(Functors) /\ Len(queue) \in Nat
      /\ batch \in Nat /\ batch <= Len(queue) /\ sender \in Functors
      /\ closer \in Functors
      /\ \A f \in Functors : f.len \in Nat
  BY OwnFunctors, LenProperties DEF Numbers, QueueTypes
<1>2. /\ MaxSent[crossing] \in Nat /\ sender.len \in Nat
      /\ budget <= MaxSent[crossing]
  BY AccountBound
<1>3. b \in Int /\ Accounting(queue, sent, b)
  BY <1>1, <1>2 DEF Accounted
<1>4. UNCHANGED crossing /\ Functors' = Functors /\ \A f : Called(f)' <=> Called(f)
  BY QueueMoves DEF Functors, Called
<1>5. \A f \in Own : f.op \notin {"idle", "set"} /\ Called(f)
  BY DEF Own, Called, Functor
<1>6. /\ \A f \in Range(queue) : f.op \notin {"idle", "set"} /\ Called(f)
      /\ Called(sender) /\ (sender.op = "send" \/ sender = Idle)
      /\ Called(closer) /\ closer \in {Idle, Functor("set"), Functor("shutdown")}
  BY DEF Calls, Calling
<1>7. ASSUME UNCHANGED <<sender, closer>>, NEW q \in Seq(Functors), queue' \in Grown(q),
             Range(q) \subseteq Range(queue), batch' \in Nat, batch' <= Len(q),
             sent' \in Nat, budget' \in Nat,
             Accounting(q, sent', MaxSent[crossing] - budget' - sender.len)
      PROVE  Goal
  <2>1. /\ queue' \in Seq(Functors) /\ Len(q) <= Len(queue') /\ Len(q) \in Nat
        /\ Len(queue') \in Nat /\ Range(queue') \subseteq Range(q) \cup Own
        /\ \A x \in Nat, y \in Int : Accounting(q, x, y) => Accounting(queue', x, y)
    BY <1>7, GrownQueue
  <2>2. MaxSent[crossing] - budget' - sender.len \in Int
    BY <1>2, <1>7
  <2>3. Accounted'
    BY <1>4, <1>7, <2>1, <2>2 DEF Accounted
  <2>4. QueueTypes'
    BY <1>1, <1>4, <1>7, <2>1 DEF QueueTypes
  <2>5. \A f \in Range(queue') : f.op \notin {"idle", "set"} /\ Called(f)'
    BY <1>4, <1>5, <1>6, <1>7, <2>1
  <2>6. Calling'
    BY <1>4, <1>6, <1>7, <2>5 DEF Calling, Called, Idle
  <2> QED
    BY <1>7, <2>3, <2>4, <2>6
<1> HIDE DEF b
<1>8. ASSUME QueueKept PROVE Goal
  <2>1. /\ UNCHANGED <<sender, closer, budget, sent>> /\ queue' \in Grown(queue)
        /\ batch' \in {batch, Len(queue)}
    BY <1>8 DEF QueueKept
  <2>2. batch' \in Nat /\ batch' <= Len(queue)
    BY <1>1, <2>1
  <2> HIDE DEF Goal
  <2> QED
    BY <1>1, <1>3, <1>7, <2>1, <2>2 DEF b
<1>9. ASSUME NEW op, Taken(op) PROVE Goal
  <2>1. NextFunctor(op) /\ queue' \in Grown(Tail(queue)) /\ UNCHANGED <<sender, closer, budget>>
        /\ sent' \in {sent, sent + Head(queue).len}
    BY <1>9 DEF Taken
  <2>2. /\ queue # <<>> /\ Head(queue) \in Functors /\ Head(queue).len \in Nat
        /\ Tail(queue) \in Seq(Functors) /\ batch' <= Len(Tail(queue)) /\ batch' \in Nat
    BY <2>1, CalledFunctor
  <2>3. /\ Accounting(Tail(queue), sent, b)
        /\ Accounting(Tail(queue), sent + Head(queue).len, b)
    BY <1>1, <1>3, <2>2, AccountTake
  <2>4. Accounting(Tail(queue), sent', b) /\ sent' \in Nat
    BY <1>1, <2>1, <2>2, <2>3
  <2>5. Range(Tail(queue)) \subseteq Range(queue)
    BY <1>1, <2>2, TakeFromQueue
  <2> HIDE DEF Goal
  <2> QED
    BY <1>1, <1>7, <2>1, <2>2, <2>4, <2>5 DEF b
<1>10. ASSUME NEW len \in Lens, UserSends(len) PROVE Goal
  <2>1. /\ len \in Nat /\ len <= budget /\ budget' = budget - len /\ budget' \in Nat
        /\ queue' \in Grown(queue) /\ UNCHANGED <<sender, closer, batch>>
        /\ sent' \in {sent, sent + len} /\ sent' \in Nat
    BY <1>1, <1>10, ConnectionAssumption DEF UserSends
  <2>2. PICK k \in Nat : k <= len /\ sent' = sent + k
    <3>1. sent' = sent + 0 \/ sent' = sent + len
      BY <1>1, <2>1
    <3> QED
      BY <2>1, <3>1
  <2>3. Accounting(queue, sent + k, b + len)
    BY <1>1, <1>3, <2>1, <2>2, AccountShift
  <2>4. b + len = MaxSent[crossing] - budget' - sender.len
    BY <1>1, <1>2, <2>1 DEF b
  <2>5. Accounting(queue, sent', MaxSent[crossing] - budget' - sender.len)
    BY <2>2, <2>3, <2>4
  <2> HIDE DEF Goal
  <2> QED
    BY <1>1, <1>7, <2>1, <2>5
<1>11. ASSUME NEW len \in Lens, CallerSend(len) PROVE Goal
  <2>1. /\ "send" \in crossing /\ sender = Idle /\ len <= budget
        /\ budget' = budget - len /\ sender' = [op |-> "send", len |-> len]
        /\ UNCHANGED <<queue, batch, sent, closer>>
    BY <1>11 DEF CallerSend, loopVars, batchVars, sentVars
  <2>2. len \in Nat \ {0} /\ budget' \in Nat /\ len \in 0 .. MaxSent[crossing]
    BY <1>1, <1>2, <2>1, ConnectionAssumption
  <2>3. sender' \in Functors /\ sender'.len = len /\ sender.len = 0 /\ sender'.op = "send"
    BY <2>1, <2>2 DEF Functors, Functor, Idle
  <2>4. MaxSent[crossing] - budget' - sender'.len = b
    BY <1>1, <1>2, <2>1, <2>2, <2>3 DEF b
  <2>5. Accounted'
    BY <1>3, <1>4, <2>1, <2>4 DEF Accounted
  <2>6. Called(sender)'
    BY <1>4, <2>1, <2>2, <2>3 DEF Called
  <2>7. QueueTypes'
    BY <1>1, <1>4, <2>1, <2>3 DEF QueueTypes
  <2>8. Calling'
    BY <1>4, <1>6, <2>1, <2>3, <2>6 DEF Calling, Called, Idle
  <2> QED
    BY <1>1, <2>1, <2>2, <2>5, <2>7, <2>8
<1>12. ASSUME CallerMoves PROVE Goal
  <2>1. /\ "shutdown" \in crossing /\ closer' \in {Functor("set"), Functor("shutdown")}
        /\ UNCHANGED <<queue, batch, sender, budget, sent>>
    BY <1>12 DEF CallerMoves
  <2>2. closer' \in Functors /\ closer'.op \in {"set", "shutdown"}
    BY <2>1, OwnFunctors DEF Functor
  <2>3. Accounted'
    BY <1>3, <1>4, <2>1 DEF Accounted, b
  <2>4. Called(closer)'
    BY <1>4, <2>1, <2>2 DEF Called
  <2>5. QueueTypes'
    BY <1>1, <1>4, <2>1, <2>2 DEF QueueTypes
  <2>6. Calling'
    BY <1>4, <1>6, <2>1, <2>4 DEF Calling, Called, Idle
  <2> QED
    BY <1>1, <2>1, <2>3, <2>5, <2>6
<1>13. ASSUME NEW f \in {sender, closer}, QueueInLoop(f), f.op \in {"send", "shutdown"},
              sender' \in {sender, Idle}, closer' \in {closer, Idle},
              f.len = sender.len - sender'.len
       PROVE  Goal
  <2>1. UNCHANGED <<batch, budget, sent>> /\ queue' \in {queue, Append(queue, f)}
    BY <1>13 DEF QueueInLoop, batchVars, sentVars
  <2>2. f \in Functors /\ f.len \in Nat /\ Idle \in Functors /\ Idle.len = 0 /\ Called(f)
        /\ Called(Idle)
    BY <1>1, <1>6, OwnFunctors DEF Idle, Functor, Called
  <2>3. /\ Append(queue, f) \in Seq(Functors)
        /\ Len(Append(queue, f)) = Len(queue) + 1
        /\ Range(Append(queue, f)) = Range(queue) \cup {f}
    BY <1>1, <2>2, PutInQueue
  <2>4. sender' \in Functors /\ closer' \in Functors /\ sender'.len \in Nat
    BY <1>1, <1>2, <1>13, <2>2
  <2>5. Accounting(Append(queue, f), sent, b + f.len) /\ Accounting(queue, sent, b + f.len)
    <3>1. Accounting(Append(queue, f), sent, b + f.len)
      BY <1>1, <1>3, <2>2, AccountPut
    <3>2. \A m \in Nat : m <= f.len => Accounting(queue, sent + m, b + f.len)
      BY <1>1, <1>3, <2>2, AccountShift
    <3>3. sent + 0 = sent /\ 0 \in Nat /\ 0 <= f.len
      BY <1>1, <2>2
    <3>4. Accounting(queue, sent + 0, b + f.len)
      BY <3>2, <3>3
    <3> QED
      BY <3>1, <3>3, <3>4
  <2>6. MaxSent[crossing] - budget' - sender'.len = b + f.len
    BY <1>1, <1>2, <1>13, <2>1, <2>4 DEF b
  <2>7. Accounted'
    BY <1>4, <2>1, <2>5, <2>6 DEF Accounted
  <2>8. batch' \in Nat /\ batch' <= Len(queue') /\ queue' \in Seq(Functors)
    BY <1>1, <2>1, <2>3
  <2>9. QueueTypes'
    BY <1>4, <2>4, <2>8 DEF QueueTypes
  <2>10. \A g \in Range(queue') : g.op \notin {"idle", "set"} /\ Called(g)
    BY <1>6, <1>13, <2>1, <2>2, <2>3
  <2>11. /\ Called(sender') /\ (sender'.op = "send" \/ sender' = Idle)
         /\ Called(closer') /\ closer' \in {Idle, Functor("set"), Functor("shutdown")}
    BY <1>6, <1>13, <2>2
  <2>12. Calling'
    BY <1>4, <2>10, <2>11 DEF Calling, Called, Idle
  <2> QED
    BY <1>1, <2>1, <2>7, <2>9, <2>12
<1>a. ASSUME SenderQueues \/ CloserQueues PROVE Goal
  <2>1. Idle.len = 0 /\ closer.len = 0 /\ closer.op # "send"
    BY <1>6 DEF Idle, Functor
  <2>2. CASE SenderQueues
    <3>1. /\ QueueInLoop(sender) /\ sender' = Idle /\ closer' = closer /\ sender.op = "send"
          /\ sender.len = sender.len - sender'.len
      BY <1>2, <2>1, <2>2 DEF SenderQueues
    <3> HIDE DEF Goal
    <3> QED
      BY <1>13, <3>1
  <2>3. CASE CloserQueues
    <3>1. /\ QueueInLoop(closer) /\ sender' = sender /\ closer' = Idle
          /\ closer.op = "shutdown" /\ closer.len = sender.len - sender'.len
      BY <1>2, <2>1, <2>3 DEF CloserQueues
    <3> HIDE DEF Goal
    <3> QED
      BY <1>13, <3>1
  <2> QED
    BY <1>a, <2>2, <2>3
<1>b. ASSUME LeaveLoop PROVE Goal
  <2>1. queue' = <<>> /\ batch' = 0 /\ UNCHANGED <<sender, closer, budget, sent>>
    BY <1>b DEF LeaveLoop, worldVars, callerVars, historyVars, sentVars
  <2>2. queue' \in Seq(Functors) /\ Len(queue') = 0 /\ Range(queue') = {}
    BY <2>1 DEF Range
  <2>3. sent <= b
    BY AccountBound DEF b
  <2>4. Accounting(queue', sent, b)
    <3> DEFINE off == [i \in 0 .. 0 |-> sent]
    <3>1. off \in [0 .. Len(queue') -> Nat] /\ off[0] = sent
      BY <1>1, <2>2
    <3> HIDE DEF off
    <3>2. /\ sent <= off[0]
          /\ \A i \in 1 .. Len(queue') : off[i - 1] + queue'[i].len <= off[i]
          /\ \A i \in 0 .. Len(queue') : off[i] <= b
      BY <1>1, <2>2, <2>3, <3>1
    <3> QED
      BY <3>1, <3>2 DEF Accounting
  <2>5. Accounted'
    BY <1>4, <2>1, <2>4 DEF Accounted, b
  <2>6. QueueTypes'
    BY <1>1, <1>4, <2>1, <2>2 DEF QueueTypes
  <2>7. Calling'
    BY <1>4, <1>6, <2>1, <2>2 DEF Calling, Called, Idle
  <2> QED
    BY <1>1, <2>1, <2>5, <2>6, <2>7
<1> HIDE DEF Goal
<1>14. Goal
  BY <1>8, <1>9, <1>10, <1>11, <1>12, <1>a, <1>b, QueueMoves
<1> QED
  BY <1>14 DEF Goal

-----------------------------------------------------------------------------
(* The life of the connection: its reports, its channel, its removal.      *)

Control == Fresh /\ Reports /\ Dispatching /\ Writing /\ Removing

(***************************************************************************)
(* What ends stays ended: ~TcpServer goes on, the map is not filled again, *)
(* a loop that has been left is not entered again, a late send is not      *)
(* forgotten.                                                              *)
(***************************************************************************)
Onwards ==
    /\ UNCHANGED sameLoop /\ (inMap' => inMap) /\ (lateSend => lateSend')
    /\ UNCHANGED server \/ DestroyServer \/ QuitLoop \/ Join
    /\ LoopGone => UNCHANGED pc
    /\ LoopGone' => LoopGone \/ LeaveLoop

\* Every step goes on so.
LEMMA GoesOn ==
    ASSUME Types, QueueTypes, [Next]_vars
    PROVE  Onwards
<1> USE DEF connVars, channelVars, serverVars, callerVars, peerVars, sockVars, historyVars,
            worldVars, loopVars, batchVars, sentVars, Onwards, LoopGone
<1>1. ASSUME NEW point \in {"error", "write"}, handleClose(point), pc # "left" PROVE Onwards
  BY <1>1, CloseEffect
<1>2. ASSUME NEW point \in ControlPoints \ {"left"}, GoOn(point), pc # "left" PROVE Onwards
  BY <1>2 DEF GoOn
<1>3. CASE Poll \/ DispatchError \/ SwapFunctors \/ EndFunctors \/ LeaveLoop
  BY <1>3 DEF Poll, DispatchError, SwapFunctors, EndFunctors, LeaveLoop, At
<1>4. CASE DispatchClose \/ UserReturns
  BY <1>1, <1>2, <1>4 DEF DispatchClose, UserReturns, InUserCode, At, ControlPoints
<1>5. CASE DispatchRead
  <2>1. pc = "read"
    BY <1>5, ReadCases
  <2>2. CASE UNCHANGED <<serverVars, historyVars>> /\ pc' \in {"message", "write"}
    BY <2>1, <2>2
  <2>3. CASE handleClose("write") \/ GoOn("write")
    BY <1>1, <1>2, <2>1, <2>3 DEF ControlPoints
  <2> QED
    BY <1>5, <2>2, <2>3, ReadCases
<1>6. CASE DispatchWrite
  BY <1>6, WriteCases
<1>7. CASE ConnectionEstablished \/ RunOnDeleted \/ RunShutdown \/ RunCallback
  BY <1>7 DEF ConnectionEstablished, RunOnDeleted, RunShutdown, RunCallback, NextFunctor, At
<1>8. ASSUME NEW len \in Nat, NEW q, sendInLoop(len, q), UNCHANGED <<pc, serverVars>>
      PROVE  Onwards
  BY <1>8, SendEffect DEF TakeOn
<1>9. CASE RunSend \/ \E len \in Lens : UserSend(len)
  BY <1>8, <1>9, SentLength DEF RunSend, UserSend
<1>10. CASE RunDestroyed
  <2>1. connectionDestroyed /\ UNCHANGED serverVars /\ pc = "functors"
    BY <1>10 DEF RunDestroyed, NextFunctor, At
  <2> QED
    BY <2>1, DestroyEffect
<1>11. CASE RemoveChannel \/ UserShutdown
  BY <1>11 DEF RemoveChannel, UserShutdown, At
<1>12. CASE CallerShutdown \/ CallerReleases \/ CallerStep \/ \E len \in Lens : CallerSend(len)
  BY <1>12 DEF CallerShutdown, CallerReleases, CallerStep, CallerSetState, SenderQueues,
               CloserQueues, QueueInLoop, CallerSend
<1>13. CASE RunRemoval \/ BaseLoopReleases \/ QuitLoop \/ Join
  BY <1>13 DEF RunRemoval, removeConnectionInLoop, BaseLoopReleases, QuitLoop, Join
<1>14. CASE DestroyServer
  <2>1. ASSUME connectionDestroyed, pc = "functors" PROVE UNCHANGED lateSend /\ pc' = "remove"
    BY <2>1, DestroyEffect
  <2> QED
    BY <1>14, <2>1 DEF DestroyServer
<1>15. CASE PeerStep
  BY <1>15 DEF PeerStep, PeerReceives, PeerSends, PeerCloses, PeerResets
<1>16. CASE UNCHANGED vars
  BY <1>16 DEF vars
<1> QED
  BY <1>3, <1>4, <1>5, <1>6, <1>7, <1>9, <1>10, <1>11, <1>12, <1>13, <1>14, <1>15, <1>16
  DEF Next, LoopStep, UserStep, ServerStep

\* The server and the loop leave in step.
LEMMA LeavingStep ==
    ASSUME Types, QueueTypes, Leaving, [Next]_vars
    PROVE  Leaving'
<1>0. Onwards
  BY GoesOn
<1>1. CASE UNCHANGED server
  <2>1. ASSUME LeaveLoop PROVE ~sameLoop /\ server \in {"join", "gone"}
    BY <2>1 DEF LeaveLoop, quit_
  <2> QED
    BY <1>0, <1>1, <2>1 DEF Onwards, Leaving, LoopGone
<1>2. CASE DestroyServer
  <2>1. /\ server = "alive" /\ inMap' = FALSE
        /\ \/ ~sameLoop /\ server' = "quit" /\ UNCHANGED pc
           \/ sameLoop /\ server' = "gone"
    BY <1>2 DEF DestroyServer
  <2>2. ~LeaveLoop
    BY <2>1 DEF LeaveLoop, quit_
  <2> QED
    BY <1>0, <2>1, <2>2 DEF Onwards, Leaving, LoopGone
<1>3. CASE QuitLoop \/ Join
  <2>1. /\ UNCHANGED <<pc, sameLoop, inMap>>
        /\ \/ server = "quit" /\ server' = "join"
           \/ server = "join" /\ server' = "gone" /\ LoopGone
    BY <1>3 DEF QuitLoop, Join, JoinReturns, loopVars
  <2> QED
    BY <2>1 DEF Leaving, LoopGone
<1> QED
  BY <1>0, <1>1, <1>2, <1>3 DEF Onwards

\* connectionEstablished is called once, connectionDestroyed is not forgotten.
LEMMA QueueRange ==
    ASSUME Types, QueueTypes, Calls, Reports, ups = 1, [Next]_vars
    PROVE  /\ \A f \in Range(queue') : f.op # "established"
           /\ Destroying(queue) => Destroying(queue') \/ pc' \in {"remove", "left"}
<1>1. /\ queue \in Seq(Functors) /\ sender \in Functors /\ closer \in Functors
      /\ \A f \in Range(queue) : f.op # "established"
      /\ \A f \in Own : f.op # "established"
      /\ sender.op \notin {"established", "destroyed"}
      /\ closer.op \notin {"established", "destroyed"}
  BY DEF Reports, QueueTypes, Own, Functor, Calls, Calling, Idle
<1>2. ASSUME queue' \in Grown(queue)
      PROVE  /\ \A f \in Range(queue') : f.op # "established"
             /\ Destroying(queue) => Destroying(queue')
  <2>1. Range(queue) \subseteq Range(queue') /\ Range(queue') \subseteq Range(queue) \cup Own
    BY <1>1, <1>2, GrownQueue
  <2> QED
    BY <1>1, <2>1 DEF Destroying
<1>3. CASE QueueKept \/ \E len \in Lens : UserSends(len)
  BY <1>2, <1>3 DEF QueueKept, UserSends
<1>4. ASSUME NEW op, Taken(op)
      PROVE  /\ \A f \in Range(queue') : f.op # "established"
             /\ Destroying(queue) => Destroying(queue') \/ pc' = "remove"
  <2>1. /\ queue' \in Grown(Tail(queue)) /\ NextFunctor(op)
        /\ op = "destroyed" => pc' = "remove"
    BY <1>4 DEF Taken
  <2>2. queue # <<>> /\ Head(queue).op = op /\ Tail(queue) \in Seq(Functors)
    BY <2>1, CalledFunctor
  <2>3. /\ Range(Tail(queue)) \subseteq Range(queue)
        /\ Range(queue) \subseteq {Head(queue)} \cup Range(Tail(queue))
    BY <1>1, <2>2, TakeFromQueue
  <2>4. /\ Range(Tail(queue)) \subseteq Range(queue')
        /\ Range(queue') \subseteq Range(Tail(queue)) \cup Own
    BY <2>1, <2>2, GrownQueue
  <2> QED
    BY <1>1, <2>1, <2>2, <2>3, <2>4 DEF Destroying
<1>5. CASE CallerMoves \/ \E len \in Lens : CallerSend(len)
  <2>1. queue' = queue
    BY <1>5 DEF CallerMoves, CallerSend, loopVars
  <2> QED
    BY <1>1, <2>1 DEF Destroying
<1>6. CASE SenderQueues \/ CloserQueues
  <2>1. PICK f \in {sender, closer} : queue' \in {queue, Append(queue, f)}
    BY <1>6 DEF SenderQueues, CloserQueues, QueueInLoop
  <2>2. Range(Append(queue, f)) = Range(queue) \cup {f}
    BY <1>1, PutInQueue
  <2> QED
    BY <1>1, <2>1, <2>2 DEF Destroying
<1>7. CASE LeaveLoop
  <2>1. queue' = <<>> /\ pc' = "left"
    BY <1>7 DEF LeaveLoop
  <2> QED
    BY <2>1 DEF Range
<1> QED
  BY <1>3, <1>4, <1>5, <1>6, <1>7, QueueMoves

(***************************************************************************)
(* Before the connection is established nothing happens to it but that the *)
(* server goes.                                                            *)
(***************************************************************************)
FreshMove ==
    /\ UNCHANGED <<connVars, channelVars, ups, downs, wire, sentVars, held, sender, closer,
                   removals, crossing, ended>>
    /\ pc' \in {"poll", "swap", "functors", "left"} /\ (LoopGone => LoopGone')
    /\ \/ UNCHANGED <<queue, inMap>> /\ (UNCHANGED server \/ server' # "alive")
       \/ /\ queue' = Append(queue, Functor("destroyed")) /\ ~LoopGone
          /\ server' # "alive" /\ inMap' = FALSE
       \/ LoopGone' /\ UNCHANGED <<inMap, server>>

\* Before it is established the connection is established or moves so.
LEMMA FreshMoves ==
    ASSUME Types, Numbers, QueueTypes, Calls, Fresh, Leaving, Removing, ups = 0, [Next]_vars
    PROVE  ConnectionEstablished \/ FreshMove
<1> USE DEF connVars, channelVars, serverVars, callerVars, peerVars, sockVars, historyVars,
            worldVars, loopVars, batchVars
<1>1. /\ state_ = "kConnecting" /\ registered = FALSE
      /\ pc \in {"poll", "swap", "functors", "left"}
      /\ ~LoopGone => Head(queue).op = "established"
      /\ downs = 0 /\ ~held /\ sender = Idle /\ closer = Idle
  BY DEF Fresh, Calls
<1>2. ~(removals > 0) /\ (server = "alive" => inMap)
  BY <1>1 DEF Removing
<1>3. CASE Poll \/ SwapFunctors \/ EndFunctors \/ LeaveLoop
  BY <1>1, <1>3 DEF Poll, SwapFunctors, EndFunctors, LeaveLoop, FreshMove, LoopGone, At
<1>4. ASSUME NEW op, NextFunctor(op), op # "established" PROVE FALSE
  BY <1>1, <1>4 DEF NextFunctor, At, LoopGone
<1>5. ASSUME DispatchClose \/ DispatchError \/ DispatchRead \/ DispatchWrite \/ RemoveChannel
             \/ UserReturns \/ UserShutdown \/ \E len \in Lens : UserSend(len)
      PROVE  FALSE
  BY <1>1, <1>5 DEF DispatchClose, DispatchError, DispatchRead, DispatchWrite, RemoveChannel,
                    UserReturns, UserShutdown, UserSend, InUserCode, At
<1>6. ASSUME RunOnDeleted \/ RunSend \/ RunShutdown \/ RunCallback \/ RunDestroyed PROVE FALSE
  BY <1>4, <1>6 DEF RunOnDeleted, RunSend, RunShutdown, RunCallback, RunDestroyed
<1>7. ASSUME CallerShutdown \/ CallerReleases \/ CallerStep \/ \E len \in Lens : CallerSend(len)
      PROVE  FALSE
  BY <1>1, <1>7 DEF CallerShutdown, CallerReleases, CallerStep, CallerSetState, SenderQueues,
                    CloserQueues, CallerSend, Idle, Functor
<1>8. ASSUME RunRemoval PROVE FALSE
  BY <1>2, <1>8 DEF RunRemoval
<1>9. CASE BaseLoopReleases \/ PeerStep
  BY <1>1, <1>9 DEF BaseLoopReleases, PeerStep, PeerReceives, PeerSends, PeerCloses, PeerResets,
                    FreshMove, LoopGone
<1>10. CASE DestroyServer
  <2>1. ~LoopGone
    BY <1>10 DEF DestroyServer, Leaving
  <2> QED
    BY <1>1, <1>2, <1>10, <2>1 DEF DestroyServer, FreshMove, LoopGone
<1>11. CASE QuitLoop \/ Join
  BY <1>1, <1>11 DEF QuitLoop, Join, FreshMove, LoopGone
<1>12. CASE UNCHANGED vars
  BY <1>1, <1>12 DEF vars, FreshMove, LoopGone
<1> QED
  BY <1>3, <1>5, <1>6, <1>7, <1>8, <1>9, <1>10, <1>11, <1>12
  DEF Next, LoopStep, UserStep, ServerStep

\* A connection that is not established stays so, and the server's end is kept.
LEMMA FreshStep ==
    ASSUME Types, Numbers, QueueTypes, Calls, Control, FreshMove, ups = 0
    PROVE  Control' /\ held' = held /\ ups' = ups
<1> USE DEF connVars, bufferVars, channelVars, sentVars
<1>1. ASSUME ~LoopGone'
      PROVE  /\ queue' # <<>> /\ Head(queue').op = "established"
             /\ \A f \in Range(Tail(queue')) : f.op = "destroyed"
             /\ inMap' \/ Destroying(queue')
  <2>1. /\ queue \in Seq(Functors) /\ queue # <<>> /\ Head(queue).op = "established"
        /\ \A f \in Range(Tail(queue)) : f.op = "destroyed"
        /\ inMap \/ Destroying(queue)
    BY <1>1 DEF Control, Fresh, FreshMove, QueueTypes
  <2>2. Functor("destroyed") \in Functors /\ Functor("destroyed").op = "destroyed"
    BY OwnFunctors DEF Functor
  <2>3. CASE UNCHANGED <<queue, inMap>>
    BY <2>1, <2>3
  <2>4. CASE queue' = Append(queue, Functor("destroyed"))
    <3> DEFINE p == Append(queue, Functor("destroyed"))
    <3>1. /\ p # <<>> /\ Head(p) = Head(queue)
          /\ Range(Tail(p)) \subseteq Range(Tail(queue)) \cup {Functor("destroyed")}
          /\ Functor("destroyed") \in Range(p)
      BY <2>1, <2>2, PutInQueue
    <3> HIDE DEF p
    <3> QED
      BY <2>1, <2>2, <2>4, <3>1 DEF p, Destroying
  <2> QED
    BY <1>1, <2>3, <2>4 DEF FreshMove
<1>2. Fresh'
  BY <1>1 DEF Control, Fresh, FreshMove
<1>3. Reports'
  BY DEF Control, Fresh, Reports, FreshMove
<1>4. Dispatching' /\ Writing'
  BY DEF Control, Fresh, Dispatching, Writing, FreshMove
<1>5. Removing'
  BY DEF Control, Fresh, Removing, FreshMove
<1> QED
  BY <1>2, <1>3, <1>4, <1>5 DEF Control, FreshMove

\* A new buffer is empty and sound.
LEMMA NewBufferIsEmpty ==
    /\ NewBuffer \in BufferType /\ Sound(NewBuffer)
    /\ readableBytes(NewBuffer) = 0 /\ Readable(NewBuffer) = <<>>
<1> DEFINE m == [i \in 1 .. KCheapPrend + kInitialSize |-> Zero]
<1>1. m \in Seq(Byte) /\ Len(m) = KCheapPrend + kInitialSize
  BY BufferAssumption
<1> HIDE DEF m
<1>2. NewBuffer = [mem |-> m, readerIndex_ |-> KCheapPrend, writerIndex_ |-> KCheapPrend,
                   intact |-> TRUE]
  BY DEF NewBuffer, m
<1>3. NewBuffer \in BufferType /\ Sound(NewBuffer)
  BY <1>1, <1>2, BufferAssumption DEF BufferType, Sound, Ordered
<1>4. readableBytes(NewBuffer) = 0
  BY <1>2, BufferAssumption DEF readableBytes
<1>5. Readable(NewBuffer) = <<>>
  BY <1>4 DEF Readable
<1> QED
  BY <1>3, <1>4, <1>5

\* connectionEstablished.
LEMMA EstablishStep ==
    ASSUME Types, Numbers, QueueTypes, Calls, Control, ConnectionEstablished
    PROVE  Control' /\ ups' = 1 /\ ups = 0 /\ UNCHANGED ended
<1> USE DEF bufferVars, channelVars, serverVars, sentVars
<1>1. NextFunctor("established") /\ queue' = Tail(queue)
  BY DEF ConnectionEstablished
<1>2. /\ queue # <<>> /\ Head(queue).op = "established" /\ Head(queue) \in Range(queue)
      /\ queue \in Seq(Functors) /\ Running
  BY <1>1, CalledFunctor DEF QueueTypes
<1>3. ups = 0
  BY <1>2 DEF Control, Reports
<1>4. /\ \A f \in Range(Tail(queue)) : f.op = "destroyed"
      /\ events_ = {} /\ index_ = "kNew" /\ downs = 0 /\ outputBuffer_ = NewBuffer
      /\ state_ = "kConnecting" /\ ~lateSend
  BY <1>1, <1>3 DEF Control, Fresh, LoopGone, NextFunctor, At
<1>5. ~FatalUpdate(events_ \cup {"R"}) /\ UNCHANGED ended
  BY <1>4 DEF FatalUpdate, ConnectionEstablished, SetEvents
<1>6. events_' = {"R"} /\ index_' = "kAdded" /\ registered' = TRUE
  <2>1. SetEvents(events_ \cup {"R"})
    BY DEF ConnectionEstablished
  <2>2. events_' = events_ \cup {"R"} /\ index_' = "kAdded"
        /\ registered' = (~FatalUpdate(events_ \cup {"R"})
                          /\ (index_ = "kNew" \/ events_ \cup {"R"} # {}))
    BY <2>1 DEF SetEvents, Update
  <2> QED
    BY <1>4, <1>5, <2>2
<1>7. /\ state_' = "kConnected" /\ pc' = "user" /\ ups' = 1 /\ downs' = 0
      /\ outputBuffer_' = NewBuffer
      /\ UNCHANGED <<inMap, removals, server, lateSend>>
  BY <1>3, <1>4 DEF ConnectionEstablished
<1>8. Fresh' /\ Dispatching'
  BY <1>7 DEF Fresh, Dispatching
<1>9. Reports'
  BY <1>1, <1>4, <1>6, <1>7 DEF Reports
<1>10. Writing'
  BY <1>7, NewBufferIsEmpty DEF Writing
<1>11. Removing'
  <2>1. ~(removals > 0) /\ (inMap \/ server # "alive")
    BY <1>4 DEF Control, Removing
  <2>2. inMap' \/ Destroying(queue')
    <3>1. inMap \/ Destroying(queue)
      BY <1>1, <1>3 DEF Control, Fresh, LoopGone, NextFunctor, At
    <3>2. Range(queue) \subseteq {Head(queue)} \cup Range(Tail(queue))
      BY <1>2, TakeFromQueue
    <3> QED
      BY <1>1, <1>2, <1>7, <3>1, <3>2 DEF Destroying
  <2> QED
    BY <1>6, <1>7, <2>1, <2>2 DEF Removing, Destroying
<1> QED
  BY <1>3, <1>5, <1>7, <1>8, <1>9, <1>10, <1>11 DEF Control

(***************************************************************************)
(* A step that leaves the state, the channel and the server alone.         *)
(***************************************************************************)
LEMMA QuietStep ==
    ASSUME Types, QueueTypes, Calls, Control, ups = 1, [Next]_vars, Running,
           UNCHANGED <<state_, channelVars, ups, downs, crossing, removals>>,
           inMap' <=> inMap, UNCHANGED server \/ server' # "alive",
           readableBytes(outputBuffer_') > 0 => readableBytes(outputBuffer_) > 0 \/ isWriting,
           pc = "remove" => pc' = "remove" \/ ended' # "no",
           Dispatching'
    PROVE  Control'
<1> USE DEF channelVars
<1>1. /\ \A f \in Range(queue') : f.op # "established"
      /\ Destroying(queue) => Destroying(queue') \/ pc' \in {"remove", "left"}
      /\ lateSend => lateSend'
      /\ LoopGone => LoopGone'
  BY QueueRange, GoesOn DEF Control, Onwards, LoopGone
<1>2. Fresh'
  BY DEF Fresh
<1>3. Reports'
  BY <1>1 DEF Control, Reports
<1>4. Writing'
  BY DEF Control, Writing, isWriting
<1>5. Removing'
  BY <1>1 DEF Control, Removing, Running, LoopGone
<1> QED
  BY <1>2, <1>3, <1>4, <1>5 DEF Control

\* A step that also leaves the loop's control point alone.
LEMMA DispatchKept ==
    ASSUME Dispatching, UNCHANGED <<state_, ups, downs, pc, revents_>>,
           index_ = "kAdded" => index_' = "kAdded", lateSend => lateSend'
    PROVE  Dispatching'
BY DEF Dispatching

(***************************************************************************)
(* handleClose and connectionDestroyed close a connection that is up; no   *)
(* connection is closed twice.                                             *)
(***************************************************************************)
LEMMA CloseStep ==
    ASSUME Types, Numbers, QueueTypes, Calls, Control, [Next]_vars, Running,
           NEW point \in {"error", "write"}, handleClose(point),
           \/ pc = "close" /\ "IN" \notin revents_
           \/ pc = "read" /\ point = "write" /\ "IN" \in revents_
    PROVE  /\ Control' /\ ups' = 1 /\ ups = 1 /\ downs' = downs + 1
           /\ ~lateSend => downs = 0
<1> USE DEF channelVars, bufferVars, callerVars, sentVars
<1>1. ups = 1 /\ index_ = "kAdded" /\ downs \in Nat /\ (~lateSend => downs = 0)
  BY DEF Control, Dispatching, Reports
<1>2. /\ state_' = "kDisconnected" /\ downs' = downs + 1 /\ pc' = point /\ Update({})
      /\ \/ inMap' = FALSE /\ queue' = Append(queue, Functor("destroyed"))
            /\ UNCHANGED removals
         \/ UNCHANGED <<inMap, queue>>
      /\ UNCHANGED <<revents_, server, crossing, ups, lateSend>>
  <2>1. downs' = downs + 1
    BY CloseEffect
  <2>2. /\ state_' = "kDisconnected" /\ pc' = point /\ Update({})
        /\ \/ inMap' = FALSE /\ queue' = Append(queue, Functor("destroyed"))
              /\ UNCHANGED removals
           \/ UNCHANGED <<inMap, queue>>
    BY CloseEffect
  <2>3. UNCHANGED <<revents_, server, crossing, ups, lateSend>>
    BY CloseEffect
  <2> QED
    BY <1>1, <2>1, <2>2, <2>3
<1>3. events_' = {} /\ index_' = "kAdded" /\ registered' = FALSE
  <2>1. events_' = {} /\ index_' = "kAdded"
        /\ registered' = (~FatalUpdate({}) /\ (index_ = "kNew" \/ {} # {}))
    BY <1>2 DEF Update
  <2> QED
    BY <1>1, <2>1
<1>4. /\ \A f \in Range(queue') : f.op # "established"
      /\ Destroying(queue) => Destroying(queue')
  BY <1>1, <1>2, QueueRange DEF Control
<1>5. queue' = Append(queue, Functor("destroyed")) => Destroying(queue')
  <2>1. queue \in Seq(Functors) /\ Functor("destroyed") \in Functors
        /\ Functor("destroyed").op = "destroyed"
    BY OwnFunctors DEF QueueTypes, Functor
  <2>2. Functor("destroyed") \in Range(Append(queue, Functor("destroyed")))
    BY <2>1, PutInQueue
  <2> QED
    BY <2>1, <2>2 DEF Destroying
<1>6. Fresh'
  BY <1>1, <1>2 DEF Fresh
<1>7. Reports'
  BY <1>1, <1>2, <1>3, <1>4 DEF Reports
<1>8. Writing'
  BY <1>1, <1>2 DEF Writing
<1>9. Dispatching'
  BY <1>1, <1>2, <1>3 DEF Dispatching
<1>10. Removing'
  <2>1. ~lateSend => inMap \/ Destroying(queue)
    BY <1>1 DEF Control, Removing, LoopGone
  <2>2. ~lateSend => inMap' \/ Destroying(queue')
    BY <1>2, <1>4, <1>5, <2>1
  <2> QED
    BY <1>1, <1>2, <2>2 DEF Removing
<1> QED
  BY <1>1, <1>2, <1>6, <1>7, <1>8, <1>9, <1>10 DEF Control

\* connectionDestroyed, called from a functor or by ~TcpServer.
LEMMA DestroyStep ==
    ASSUME Types, Numbers, QueueTypes, Calls, Control, [Next]_vars, Running,
           connectionDestroyed, ups = 1, pc = "functors",
           \/ UNCHANGED <<inMap, server, removals>>
           \/ server' # "alive" /\ UNCHANGED removals
    PROVE  Control' /\ ups' = 1 /\ UNCHANGED ended
<1> USE DEF channelVars, bufferVars, callerVars, sockVars, sentVars
<1>1. /\ pc' = "remove"
      /\ \/ state_ = "kConnected" /\ state_' = "kDisconnected" /\ SetEvents({})
            /\ downs' = downs + 1
         \/ state_ # "kConnected" /\ UNCHANGED <<state_, channelVars, ended, downs>>
      /\ UNCHANGED <<bufferVars, lateSend, crossing, ups>>
  BY DestroyEffect
<1>2. /\ \A f \in Range(queue') : f.op # "established"
  BY QueueRange DEF Control
<1>3. Fresh' /\ ups' = 1
  BY <1>1 DEF Fresh
<1>4. CASE state_ = "kConnected"
  <2>1. index_ = "kAdded" /\ downs = 0
    BY <1>4 DEF Control, Removing, Reports, Types
  <2>2. /\ events_' = {} /\ index_' = "kAdded"
        /\ registered' = (~FatalUpdate({}) /\ (index_ = "kNew" \/ {} # {}))
        /\ UNCHANGED ended /\ downs' = 1 /\ state_' = "kDisconnected"
    BY <1>1, <1>4, <2>1 DEF SetEvents, Update, FatalUpdate
  <2>3. registered' = FALSE
    BY <2>1, <2>2
  <2>4. Reports'
    BY <1>1, <1>2, <2>2, <2>3 DEF Reports
  <2>5. Writing' /\ Dispatching'
    BY <1>1, <2>2 DEF Writing, Dispatching
  <2>6. Removing'
    BY <1>1, <2>2 DEF Removing
  <2> QED
    BY <1>1, <1>3, <2>2, <2>4, <2>5, <2>6 DEF Control
<1>5. CASE state_ # "kConnected"
  <2>1. UNCHANGED <<state_, channelVars, ended, downs>>
    BY <1>1, <1>5
  <2>2. Reports'
    BY <1>1, <1>2, <2>1 DEF Control, Reports
  <2>3. Writing'
    BY <1>1, <2>1 DEF Control, Writing, isWriting
  <2>4. Dispatching'
    BY <1>1, <1>5, <2>1 DEF Dispatching
  <2>5. Removing'
    BY <1>1, <1>5, <2>1 DEF Control, Removing
  <2> QED
    BY <1>1, <1>3, <2>1, <2>2, <2>3, <2>4, <2>5 DEF Control
<1> QED
  BY <1>4, <1>5

(***************************************************************************)
(* A step that leaves the state alone and ends with the channel writing.   *)
(***************************************************************************)
LEMMA WritingStep ==
    ASSUME Types, QueueTypes, Calls, Control, ups = 1, [Next]_vars, Running,
           UNCHANGED <<state_, ups, downs, crossing, inMap, server, removals>>,
           isWriting', index_' \in {"kAdded", index_},
           registered' => index_' = "kAdded", downs = 0 /\ index_' = "kAdded" => registered',
           lateSend' \/ (downs = 0 /\ UNCHANGED index_),
           pc # "remove" \/ UNCHANGED pc, Dispatching'
    PROVE  Control'
<1>1. /\ \A f \in Range(queue') : f.op # "established"
      /\ Destroying(queue) => Destroying(queue') \/ pc' \in {"remove", "left"}
      /\ lateSend => lateSend'
      /\ LoopGone => LoopGone'
  BY QueueRange, GoesOn DEF Control, Onwards, LoopGone
<1>2. Fresh'
  BY DEF Fresh
<1>3. Reports'
  BY <1>1 DEF Control, Reports, isWriting
<1>4. Writing'
  BY DEF Writing
<1>5. Removing'
  BY <1>1 DEF Control, Removing, Running, LoopGone, Types
<1> QED
  BY <1>2, <1>3, <1>4, <1>5 DEF Control

\* handleWrite leaves the channel writing, and registered if it was.
LEMMA WriteOutChannel ==
    ASSUME Flags, Control, ups = 1, index_ = "kAdded", isWriting, NEW n, WriteOut(n)
    PROVE  /\ isWriting' /\ index_' = "kAdded"
           /\ downs = 0 => UNCHANGED <<registered, ended>> /\ registered = TRUE
           /\ ~lateSend => downs = 0
<1> USE DEF channelVars
<1>1. /\ ~lateSend => downs = 0
      /\ downs = 0 => registered = TRUE
  BY DEF Control, Reports, isWriting, Flags
<1>2. CASE UNCHANGED <<channelVars, ended>>
  BY <1>1, <1>2 DEF isWriting
<1>3. CASE SetEvents(events_ \cap {"W"})
  <2>1. /\ events_' = events_ \cap {"W"} /\ index_' = "kAdded"
        /\ registered' = (~FatalUpdate(events_ \cap {"W"})
                          /\ (index_ = "kNew" \/ events_ \cap {"W"} # {}))
        /\ ended' = IF FatalUpdate(events_ \cap {"W"}) THEN "fatal" ELSE ended
    BY <1>3 DEF SetEvents, Update
  <2>2. "W" \in events_'
    BY <2>1 DEF isWriting
  <2>3. ASSUME downs = 0 PROVE UNCHANGED <<registered, ended>>
    <3>1. ~FatalUpdate(events_ \cap {"W"}) /\ registered = TRUE
      BY <1>1, <2>3 DEF FatalUpdate
    <3>2. registered' = TRUE
      BY <2>1, <2>2, <3>1
    <3> QED
      BY <2>1, <3>1, <3>2
  <2> QED
    BY <1>1, <2>1, <2>2, <2>3 DEF isWriting
<1> QED
  BY <1>2, <1>3, WriteEffect

\* What is kept of a message has a channel that writes; it is put back into
\* the poller by a late send only.
LEMMA KeepRestChannel ==
    ASSUME Types, Flags, Control, ups = 1, NEW rest, KeepRest(rest), NEW len, TakeOn(len)
    PROVE  /\ isWriting' /\ index_' \in {"kAdded", index_}
           /\ registered' => index_' = "kAdded"
           /\ downs = 0 /\ index_' = "kAdded" => registered'
           /\ ~lateSend' =>
                /\ downs = 0 /\ UNCHANGED <<index_, registered>> /\ index_ = "kAdded"
                /\ outputBuffer_'.intact => UNCHANGED ended
                /\ ended' \in {ended, "undefined"}
<1> USE DEF channelVars
<1>1. /\ downs \in Nat /\ (registered => index_ = "kAdded")
      /\ downs = 0 /\ index_ = "kAdded" => registered
  BY DEF Control, Reports
<1>2. ASSUME ~lateSend' PROVE downs = 0 /\ index_ = "kAdded" /\ registered = TRUE
  <2>1. ~Over
    BY <1>2 DEF TakeOn
  <2>2. downs = 0 /\ index_ = "kAdded"
    BY <1>1, <2>1 DEF Over, Types
  <2> QED
    BY <1>1, <2>2, Zenon DEF Flags
<1>3. CASE isWriting
  <2>1. UNCHANGED channelVars
    BY <1>3, KeepEffect
  <2>2. ended' = IF ~outputBuffer_'.intact THEN "undefined" ELSE ended
    BY <1>3 DEF KeepRest
  <2> QED
    BY <1>1, <1>2, <1>3, <2>1, <2>2 DEF isWriting
<1>4. CASE ~isWriting
  <2>1. /\ events_' = events_ \cup {"W"} /\ index_' = "kAdded"
        /\ registered' = (~FatalUpdate(events_ \cup {"W"})
                          /\ (index_ = "kNew" \/ events_ \cup {"W"} # {}))
    BY <1>4, KeepEffect DEF Update
  <2>2. "W" \in events_'
    BY <2>1
  <2>3. ASSUME downs = 0 PROVE ~FatalUpdate(events_ \cup {"W"}) /\ registered' = TRUE
    <3>1. ~FatalUpdate(events_ \cup {"W"})
      BY <1>1, <2>3 DEF FatalUpdate
    <3> QED
      BY <2>1, <2>2, <3>1
  <2>4. ASSUME ~lateSend' PROVE ended' = IF ~outputBuffer_'.intact THEN "undefined" ELSE ended
    BY <1>2, <2>3, <2>4 DEF KeepRest
  <2> QED
    BY <1>1, <1>2, <2>1, <2>2, <2>3, <2>4 DEF isWriting
<1> QED
  BY <1>3, <1>4

\* sendInLoop, whoever called it.
LEMMA SendStep ==
    ASSUME Types, Flags, QueueTypes, Calls, Control, ups = 1, [Next]_vars, Running,
           UNCHANGED <<state_, pc, revents_, ups, downs, crossing, inMap, server, removals>>,
           NEW len \in Nat, NEW q, sendInLoop(len, q)
    PROVE  Control'
<1> USE DEF channelVars, bufferVars
<1>0. lateSend => lateSend'
  BY GoesOn DEF Onwards
<1>1. CASE UNCHANGED <<bufferVars, channelVars>>
  BY <1>0, <1>1, QuietStep, DispatchKept DEF Control
<1>2. ASSUME TakeOn(len), NEW rest, KeepRest(rest) PROVE Control'
  <2>1. /\ isWriting' /\ index_' \in {"kAdded", index_}
        /\ registered' => index_' = "kAdded"
        /\ downs = 0 /\ index_' = "kAdded" => registered'
        /\ ~lateSend' => downs = 0 /\ UNCHANGED index_
    BY <1>2, KeepRestChannel
  <2>2. Dispatching'
    BY <1>0, <2>1, DispatchKept DEF Control
  <2> QED
    BY <2>1, <2>2, WritingStep
<1> QED
  BY <1>1, <1>2, SendEffect

\* Every step keeps the reports, the channel and the removal in order.
LEMMA ControlStep ==
    ASSUME Types, Flags, Numbers, QueueTypes, Calls, Leaving, Control, [Next]_vars
    PROVE  Control'
<1> USE DEF connVars, bufferVars, channelVars, serverVars, callerVars, sockVars, historyVars,
            worldVars, loopVars, sentVars
<1>0. /\ Fresh /\ Reports /\ Dispatching /\ Writing /\ Removing
      /\ ups \in {0, 1} /\ (lateSend => lateSend')
  BY GoesOn DEF Control, Reports, Onwards
<1>1. CASE ConnectionEstablished
  BY <1>1, EstablishStep
<1>2. CASE ups = 0 /\ ~ConnectionEstablished
  BY <1>0, <1>2, FreshMoves, FreshStep
<1> SUFFICES ASSUME ups = 1, ~ConnectionEstablished PROVE Control'
  BY <1>0, <1>1, <1>2
<1> DEFINE Kept == <<state_, channelVars, outputBuffer_, ups, downs, crossing, inMap,
                     removals>>
<1>3. ASSUME UNCHANGED Kept, Running, UNCHANGED server \/ server' # "alive",
             pc = "remove" => pc' = "remove" \/ ended' # "no", Dispatching'
      PROVE  Control'
  BY <1>3, QuietStep
<1>4. ASSUME UNCHANGED Kept, Running, UNCHANGED <<pc, revents_>>,
             UNCHANGED server \/ server' # "alive"
      PROVE  Control'
  BY <1>0, <1>3, <1>4, DispatchKept
<1>5. CASE Poll
  <2>1. /\ UNCHANGED Kept /\ Running /\ pc = "poll" /\ UNCHANGED server
        /\ pc' = "swap" \/ (registered /\ pc' = "close")
    BY <1>5 DEF Poll, At
  <2>2. Dispatching'
    BY <1>0, <2>1 DEF Dispatching, Reports
  <2> QED
    BY <1>3, <2>1, <2>2
<1>6. CASE DispatchClose
  <2>1. Running /\ pc = "close"
    BY <1>6 DEF DispatchClose, At
  <2>2. CASE GoOn("error")
    <3>1. UNCHANGED Kept /\ UNCHANGED <<server, revents_>> /\ pc' = "error"
      BY <2>2 DEF GoOn
    <3>2. Dispatching'
      BY <1>0, <2>1, <3>1 DEF Dispatching
    <3> QED
      BY <1>3, <2>1, <3>1, <3>2
  <2>3. CASE handleClose("error") /\ "IN" \notin revents_
    BY <2>1, <2>3, CloseStep
  <2> QED
    BY <1>6, <2>2, <2>3 DEF DispatchClose
<1>7. CASE DispatchError
  <2>1. /\ UNCHANGED Kept /\ UNCHANGED <<server, revents_>> /\ Running /\ pc = "error"
        /\ pc' = "read"
    BY <1>7 DEF DispatchError, At
  <2>2. Dispatching'
    BY <1>0, <2>1 DEF Dispatching
  <2> QED
    BY <1>3, <2>1, <2>2
<1>8. CASE DispatchRead
  <2>1. Running /\ pc = "read"
    BY <1>8, ReadCases
  <2>2. CASE "IN" \in revents_ /\ handleClose("write")
    BY <2>1, <2>2, CloseStep
  <2>3. CASE UNCHANGED Kept /\ UNCHANGED <<server, revents_>>
             /\ (pc' = "write" \/ (pc' = "message" /\ "IN" \in revents_))
    <3>1. Dispatching'
      BY <1>0, <2>1, <2>3 DEF Dispatching
    <3> QED
      BY <1>3, <2>1, <2>3, <3>1
  <2>4. CASE GoOn("write")
    BY <2>3, <2>4 DEF GoOn
  <2> QED
    BY <1>8, <2>2, <2>3, <2>4, ReadCases
<1>9. CASE DispatchWrite
  <2>1. /\ Running /\ pc = "write" /\ pc' = "swap"
        /\ UNCHANGED <<state_, ups, downs, crossing, inMap, server, removals>>
    BY <1>9, WriteCases
  <2>2. Dispatching'
    BY <2>1 DEF Dispatching
  <2>3. CASE UNCHANGED <<bufferVars, channelVars>> /\ UNCHANGED server
    BY <1>3, <2>1, <2>2, <2>3
  <2>4. CASE isWriting /\ WriteOut(Min({readableBytes(outputBuffer_), Space}))
    <3>1. index_ = "kAdded"
      BY <1>0, <2>1 DEF Dispatching
    <3>2. /\ isWriting' /\ index_' = "kAdded"
          /\ downs = 0 => UNCHANGED <<registered, ended>> /\ registered = TRUE
          /\ ~lateSend => downs = 0
      BY <1>0, <2>4, <3>1, WriteOutChannel
    <3>3. downs = 0 => registered'
      BY <3>2
    <3> QED
      BY <1>0, <2>1, <2>2, <3>1, <3>2, <3>3, WritingStep
  <2> QED
    BY <1>9, <2>3, <2>4, WriteCases
<1>10. CASE SwapFunctors \/ EndFunctors \/ LeaveLoop
  <2>1. /\ UNCHANGED Kept /\ UNCHANGED server /\ Running /\ pc # "remove"
        /\ pc' \in {"functors", "poll", "left"}
    BY <1>10 DEF SwapFunctors, EndFunctors, LeaveLoop, At
  <2>2. Dispatching'
    BY <2>1 DEF Dispatching
  <2> QED
    BY <1>3, <2>1, <2>2
<1>11. CASE RunOnDeleted \/ RunShutdown
  <2>1. UNCHANGED Kept /\ UNCHANGED <<pc, revents_, server>> /\ Running
    BY <1>11 DEF RunOnDeleted, RunShutdown, NextFunctor, At
  <2> QED
    BY <1>4, <2>1
<1>12. CASE RunCallback
  <2>1. UNCHANGED Kept /\ UNCHANGED server /\ Running /\ pc = "functors" /\ pc' = "user"
    BY <1>12 DEF RunCallback, NextFunctor, At
  <2>2. Dispatching'
    BY <2>1 DEF Dispatching
  <2> QED
    BY <1>3, <2>1, <2>2
<1>13. CASE RunSend
  <2>1. Running /\ Head(queue).len \in Nat
    BY <1>13, CalledFunctor DEF RunSend
  <2>2. /\ sendInLoop(Head(queue).len, Tail(queue))
        /\ UNCHANGED <<state_, pc, revents_, ups, downs, crossing, inMap, server, removals>>
    BY <1>13 DEF RunSend
  <2> QED
    BY <2>1, <2>2, SendStep
<1>14. ASSUME NEW len \in Lens, UserSend(len) PROVE Control'
  <2>1. /\ sendInLoop(len, queue) /\ Running /\ len \in Nat
        /\ UNCHANGED <<state_, pc, revents_, ups, downs, crossing, inMap, server, removals>>
    BY <1>14, ConnectionAssumption DEF UserSend, InUserCode, At
  <2> QED
    BY <2>1, SendStep
<1>15. CASE RunDestroyed
  <2>1. connectionDestroyed /\ UNCHANGED <<inMap, server, removals>> /\ Running
        /\ pc = "functors"
    BY <1>15 DEF RunDestroyed, NextFunctor, At
  <2> QED
    BY <2>1, DestroyStep
<1>16. CASE RemoveChannel
  <2>1. /\ Running /\ pc = "remove" /\ pc' = "user" /\ index_' = "kNew" /\ registered' = FALSE
        /\ UNCHANGED <<state_, events_, outputBuffer_, ups, downs, crossing, inMap, server,
                       removals>>
    BY <1>16 DEF RemoveChannel, removeChannel, At
  <2>2. state_ # "kConnected"
    BY <1>0, <2>1 DEF Dispatching
  <2>3. \A f \in Range(queue') : f.op # "established"
    BY <1>0, QueueRange
  <2>4. Fresh' /\ Dispatching'
    BY <2>1 DEF Fresh, Dispatching
  <2>5. Reports'
    BY <1>0, <2>1, <2>3 DEF Reports
  <2>6. Writing'
    BY <1>0, <2>1 DEF Writing, isWriting
  <2>7. Removing'
    BY <1>0, <2>1, <2>2 DEF Removing
  <2> QED
    BY <2>4, <2>5, <2>6, <2>7 DEF Control
<1>17. CASE UserReturns
  <2>1. /\ UNCHANGED Kept /\ UNCHANGED <<server, revents_>> /\ Running
        /\ pc \in {"message", "user"}
        /\ pc' = IF pc = "message" THEN "write" ELSE "functors"
    BY <1>17 DEF UserReturns, InUserCode, At, GoOn
  <2>2. Dispatching'
    BY <1>0, <2>1 DEF Dispatching
  <2> QED
    BY <1>3, <2>1, <2>2
<1>18. CASE UserShutdown
  <2>1. /\ Running /\ pc \in {"message", "user"} /\ state_ = "kConnected"
        /\ state_' = "kDisconnecting"
        /\ UNCHANGED <<channelVars, outputBuffer_, pc, revents_, ups, downs, crossing, inMap,
                       server, removals, queue>>
    BY <1>18 DEF UserShutdown, InUserCode, At, MayShutdown
  <2>2. downs = 0
    BY <1>0, <2>1 DEF Reports
  <2>4. Fresh' /\ Dispatching'
    BY <1>0, <2>1 DEF Fresh, Dispatching
  <2>5. Reports'
    BY <1>0, <2>1, <2>2 DEF Reports
  <2>6. Writing'
    BY <1>0, <2>1, <2>2 DEF Writing, isWriting
  <2>7. Removing'
    BY <1>0, <1>18, <2>1 DEF Removing, Running, LoopGone, UserShutdown
  <2> QED
    BY <2>4, <2>5, <2>6, <2>7 DEF Control
<1>19. CASE CallerSetState
  <2>1. /\ Running /\ held /\ "shutdown" \in crossing /\ state_' = "kDisconnecting"
        /\ UNCHANGED <<channelVars, outputBuffer_, pc, revents_, ups, downs, crossing, inMap,
                       server, removals, queue, ended>>
    BY <1>19 DEF CallerSetState, Calls, Calling, Called, Idle, Functor
  <2>2. Fresh' /\ Dispatching'
    BY <1>0, <2>1 DEF Fresh, Dispatching
  <2>3. Reports'
    BY <1>0, <2>1 DEF Reports
  <2>4. Writing'
    BY <1>0, <2>1 DEF Writing, isWriting
  <2>5. Removing'
    BY <1>0, <2>1 DEF Removing, Running, LoopGone
  <2> QED
    BY <2>2, <2>3, <2>4, <2>5 DEF Control
<1>20. CASE CallerShutdown \/ SenderQueues \/ CloserQueues \/ CallerReleases \/ BaseLoopReleases
            \/ QuitLoop \/ Join \/ PeerStep \/ \E len \in Lens : CallerSend(len)
  <2>1. /\ UNCHANGED Kept /\ UNCHANGED <<pc, revents_>> /\ Running
        /\ UNCHANGED server \/ server' # "alive"
    BY <1>20 DEF CallerShutdown, SenderQueues, CloserQueues, QueueInLoop, CallerReleases,
                 BaseLoopReleases, CallerSend, QuitLoop, Join, PeerStep, PeerReceives, PeerSends,
                 PeerCloses, PeerResets
  <2> QED
    BY <1>4, <2>1
<1>21. CASE RunRemoval
  <2>1. /\ Running /\ removals > 0 /\ removals' = removals - 1
        /\ UNCHANGED <<state_, channelVars, outputBuffer_, pc, revents_, ups, downs, crossing,
                       server>>
        /\ \/ ended' = "undefined"
           \/ queue' = Append(queue, Functor("destroyed"))
    BY <1>21 DEF RunRemoval, removeConnectionInLoop
  <2>2. downs > 0
    BY <1>0, <2>1 DEF Removing
  <2>3. \A f \in Range(queue') : f.op # "established"
    BY <1>0, QueueRange
  <2>4. Fresh' /\ Dispatching' /\ Writing'
    BY <1>0, <2>1, <2>2, DispatchKept DEF Fresh, Writing
  <2>5. Reports'
    BY <1>0, <2>1, <2>3 DEF Reports
  <2>6. ended' = "undefined" \/ Destroying(queue')
    <3>1. queue \in Seq(Functors) /\ Functor("destroyed") \in Functors
          /\ Functor("destroyed").op = "destroyed"
      BY OwnFunctors DEF QueueTypes, Functor
    <3>2. Functor("destroyed") \in Range(Append(queue, Functor("destroyed")))
      BY <3>1, PutInQueue
    <3> QED
      BY <2>1, <3>1, <3>2 DEF Destroying
  <2>7. Removing'
    BY <1>0, <2>1, <2>2, <2>6 DEF Removing, Running
  <2> QED
    BY <2>4, <2>5, <2>7 DEF Control
<1>22. CASE DestroyServer
  <2>1. /\ Running /\ server' # "alive" /\ inMap' = FALSE /\ UNCHANGED removals
        /\ \/ /\ queue' = Append(queue, Functor("destroyed"))
              /\ UNCHANGED <<state_, channelVars, outputBuffer_, pc, revents_, ups, downs,
                             crossing>>
           \/ /\ ~inMap
              /\ UNCHANGED <<state_, channelVars, outputBuffer_, pc, revents_, ups, downs,
                             crossing>>
           \/ pc = "functors" /\ connectionDestroyed
    BY <1>22 DEF DestroyServer
  <2>2. CASE connectionDestroyed /\ pc = "functors"
    BY <2>1, <2>2, DestroyStep
  <2>3. CASE /\ ~inMap
             /\ UNCHANGED <<state_, channelVars, outputBuffer_, pc, revents_, ups, downs,
                            crossing>>
    <3>1. Dispatching'
      BY <1>0, <2>3, DispatchKept
    <3> QED
      BY <2>1, <2>3, <3>1, QuietStep
  <2>4. CASE /\ queue' = Append(queue, Functor("destroyed"))
             /\ UNCHANGED <<state_, channelVars, outputBuffer_, pc, revents_, ups, downs,
                            crossing>>
    <3>1. \A f \in Range(queue') : f.op # "established"
      BY <1>0, QueueRange
    <3>2. Fresh' /\ Dispatching'
      BY <1>0, <2>4, DispatchKept DEF Fresh
    <3>3. Reports'
      BY <1>0, <2>4, <3>1 DEF Reports
    <3>4. Writing'
      BY <1>0, <2>4 DEF Writing, isWriting
    <3>5. Destroying(queue')
      <4>1. queue \in Seq(Functors) /\ Functor("destroyed") \in Functors
            /\ Functor("destroyed").op = "destroyed"
        BY OwnFunctors DEF QueueTypes, Functor
      <4>2. Functor("destroyed") \in Range(Append(queue, Functor("destroyed")))
        BY <4>1, PutInQueue
      <4> QED
        BY <2>4, <4>1, <4>2 DEF Destroying
    <3>6. Removing'
      BY <1>0, <2>1, <2>4, <3>5 DEF Removing
    <3> QED
      BY <3>2, <3>3, <3>4, <3>6 DEF Control
  <2> QED
    BY <2>1, <2>2, <2>3, <2>4
<1>23. CASE UNCHANGED vars
  BY <1>0, <1>23 DEF vars, Control, Fresh, Reports, Dispatching, Writing, Removing, isWriting,
                     Running, LoopGone
<1> QED
  BY <1>5, <1>6, <1>7, <1>8, <1>9, <1>10, <1>11, <1>12, <1>13, <1>14, <1>15, <1>16, <1>17,
     <1>18, <1>19, <1>20, <1>21, <1>22, <1>23
  DEF Next, LoopStep, UserStep, CallerStep, ServerStep

(***************************************************************************)
(* Once ~TcpServer has returned on the base loop itself no event of the    *)
(* connection is dispatched any more, unless a late send revives it.       *)
(***************************************************************************)
LEMMA OrphanedStep ==
    ASSUME Types, Flags, QueueTypes, Calls, Leaving, Control, Orphaned, [Next]_vars, Control'
    PROVE  Orphaned'
<1> USE DEF connVars, bufferVars, channelVars, serverVars, callerVars, peerVars, sockVars,
            historyVars, worldVars, loopVars, sentVars
<1> DEFINE Dispatched == {"close", "error", "read", "message", "write"}
           Left == /\ ups = 1 /\ state_ # "kConnected" /\ pc \notin Dispatched
                   /\ registered => pc = "remove"
<1>0. Onwards /\ Fresh /\ Reports /\ Removing /\ Dispatching' /\ Reports'
  BY GoesOn DEF Control
<1> SUFFICES ASSUME server' = "gone", sameLoop', ~lateSend' PROVE Left'
  BY DEF Orphaned
<1>1. sameLoop /\ ~lateSend
  BY <1>0 DEF Onwards
<1>2. ASSUME ups' = 1, pc' = "remove" PROVE Left'
  BY <1>0, <1>2 DEF Dispatching
<1>3. CASE DestroyServer
  <2>1. /\ server = "alive" /\ pc = "functors" /\ state_ # "kConnecting"
        /\ \/ connectionDestroyed
           \/ ~inMap /\ UNCHANGED <<state_, registered, pc, ups>>
    BY <1>1, <1>3 DEF DestroyServer
  <2>2. ups = 1
    BY <1>0, <2>1 DEF Fresh, Reports
  <2>3. CASE connectionDestroyed
    BY <1>2, <2>2, <2>3, DestroyEffect
  <2>4. CASE ~inMap /\ UNCHANGED <<state_, registered, pc, ups>>
    <3>1. registered = FALSE /\ state_ # "kConnected"
      BY <1>0, <1>1, <2>1, <2>4 DEF Removing, Reports
    <3> QED
      BY <2>1, <2>2, <2>4, <3>1
  <2> QED
    BY <2>1, <2>3, <2>4
<1>4. CASE QuitLoop \/ Join
  BY <1>1, <1>4 DEF QuitLoop, Join, Leaving
<1> SUFFICES ASSUME server = "gone", ~DestroyServer, ~QuitLoop, ~Join PROVE Left'
  BY <1>0, <1>3, <1>4 DEF Onwards
<1>5. /\ ups = 1 /\ state_ # "kConnected" /\ pc \notin Dispatched
      /\ registered => pc = "remove"
  BY <1>1 DEF Orphaned
<1>6. ASSUME UNCHANGED <<ups, registered>>, state_' \in {state_, "kDisconnecting"},
             \/ UNCHANGED pc
             \/ pc # "remove" /\ pc' \notin Dispatched
      PROVE  Left'
  BY <1>5, <1>6
<1>7. CASE Poll
  <2>1. pc = "poll" /\ (pc' = "close" => registered) /\ pc' \in {"close", "swap"}
        /\ UNCHANGED <<ups, registered, state_>>
    BY <1>7 DEF Poll, At
  <2> QED
    BY <1>5, <1>6, <2>1
<1>8. ASSUME DispatchClose \/ DispatchError \/ DispatchRead \/ DispatchWrite PROVE FALSE
  BY <1>5, <1>8 DEF DispatchClose, DispatchError, DispatchRead, DispatchWrite, At
<1>9. CASE SwapFunctors \/ EndFunctors \/ LeaveLoop \/ RunOnDeleted \/ RunShutdown \/ RunCallback
  <2>1. pc # "remove" /\ pc' \notin Dispatched /\ UNCHANGED <<ups, registered, state_>>
    BY <1>9 DEF SwapFunctors, EndFunctors, LeaveLoop, RunOnDeleted, RunShutdown, RunCallback,
                NextFunctor, At
  <2> QED
    BY <1>6, <2>1
<1>10. ~ConnectionEstablished
  <2>1. ASSUME NextFunctor("established") PROVE FALSE
    <3>1. Head(queue).op = "established" /\ Head(queue) \in Range(queue)
      BY <2>1, CalledFunctor
    <3> QED
      BY <1>0, <1>5, <3>1 DEF Reports
  <2> QED
    BY <2>1 DEF ConnectionEstablished
<1>11. CASE RunSend
  <2>1. /\ Head(queue).len \in Nat /\ pc = "functors"
        /\ sendInLoop(Head(queue).len, Tail(queue)) /\ UNCHANGED <<state_, pc, ups>>
    BY <1>11, CalledFunctor DEF RunSend
  <2>2. ASSUME NEW rest, KeepRest(rest), TakeOn(Head(queue).len) PROVE FALSE
    <3>1. downs = 0 /\ index_ = "kAdded"
      BY <1>0, <1>5, <2>2, KeepRestChannel DEF Control
    <3>2. registered
      BY <1>0, <1>5, <3>1 DEF Reports
    <3> QED
      BY <1>5, <2>1, <3>2
  <2>3. UNCHANGED channelVars
    BY <2>1, <2>2, SendEffect
  <2> QED
    BY <1>6, <2>1, <2>3
<1>12. ASSUME UserShutdown \/ \E len \in Lens : UserSend(len) PROVE FALSE
  BY <1>5, <1>12 DEF UserShutdown, UserSend, MayShutdown
<1>13. CASE RunDestroyed
  BY <1>2, <1>5, <1>13, DestroyEffect DEF RunDestroyed
<1>14. CASE RemoveChannel
  BY <1>5, <1>14 DEF RemoveChannel, removeChannel
<1>15. CASE UserReturns
  <2>1. pc = "user" /\ pc' = "functors" /\ UNCHANGED <<ups, registered, state_>>
    BY <1>5, <1>15 DEF UserReturns, InUserCode, At, GoOn
  <2> QED
    BY <1>6, <2>1
<1>16. CASE CallerShutdown \/ CallerReleases \/ CallerStep \/ \E len \in Lens : CallerSend(len)
  <2>1. state_' \in {state_, "kDisconnecting"} /\ UNCHANGED <<ups, registered, pc>>
    BY <1>16 DEF CallerShutdown, CallerReleases, CallerStep, CallerSetState, SenderQueues,
                 CloserQueues, QueueInLoop, CallerSend
  <2> QED
    BY <1>6, <2>1
<1>17. CASE RunRemoval \/ BaseLoopReleases \/ PeerStep \/ UNCHANGED vars
  <2>1. UNCHANGED <<ups, registered, pc, state_>>
    BY <1>17 DEF RunRemoval, BaseLoopReleases, PeerStep, PeerReceives, PeerSends, PeerCloses,
                 PeerResets, vars
  <2> QED
    BY <1>6, <2>1
<1> QED
  BY <1>7, <1>8, <1>9, <1>10, <1>11, <1>12, <1>13, <1>14, <1>15, <1>16, <1>17
  DEF Next, LoopStep, UserStep, ServerStep

-----------------------------------------------------------------------------
(* The byte stream.                                                        *)

\* Two sequences joined.
LEMMA JoinProperties ==
    \A s, t \in Seq(Byte) :
        /\ s \o t \in Seq(Byte) /\ Len(s \o t) = Len(s) + Len(t)
        /\ Len(s) \in Nat /\ Len(t) \in Nat /\ DOMAIN s = 1 .. Len(s)
        /\ \A i \in 1 .. Len(s) + Len(t) :
            (s \o t)[i] = IF i <= Len(s) THEN s[i] ELSE t[i - Len(s)]
<1> SUFFICES ASSUME NEW s \in Seq(Byte), NEW t \in Seq(Byte)
             PROVE  /\ s \o t \in Seq(Byte) /\ Len(s \o t) = Len(s) + Len(t)
                    /\ Len(s) \in Nat /\ Len(t) \in Nat /\ DOMAIN s = 1 .. Len(s)
                    /\ \A i \in 1 .. Len(s) + Len(t) :
                        (s \o t)[i] = IF i <= Len(s) THEN s[i] ELSE t[i - Len(s)]
  OBVIOUS
<1>1. /\ s \o t \in Seq(Byte) /\ Len(s \o t) = Len(s) + Len(t)
      /\ \A i \in 1 .. Len(s) + Len(t) :
            (s \o t)[i] = IF i <= Len(s) THEN s[i] ELSE t[i - Len(s)]
  BY ConcatProperties
<1> QED
  BY <1>1, LenProperties

\* The first part of a numbered stream is numbered.
LEMMA StreamPrefix ==
    ASSUME NEW s \in Seq(Byte), NEW t \in Seq(Byte), NEW n \in Nat,
           s \o t = [i \in 1 .. n |-> i]
    PROVE  /\ Len(s) + Len(t) = n /\ Len(s) <= n
           /\ \A i \in DOMAIN s : s[i] = i
<1> DEFINE c == s \o t
<1>1. /\ Len(s) \in Nat /\ Len(t) \in Nat /\ DOMAIN s = 1 .. Len(s)
      /\ c \in Seq(Byte) /\ Len(c) = Len(s) + Len(t)
      /\ \A i \in 1 .. Len(s) + Len(t) : c[i] = IF i <= Len(s) THEN s[i] ELSE t[i - Len(s)]
  BY JoinProperties, Zenon
<1>2. c = [i \in 1 .. n |-> i]
  OBVIOUS
<1> HIDE DEF c
<1>3. Len(c) = n
  BY <1>1, <1>2
<1>4. ASSUME NEW i \in 1 .. Len(s) PROVE s[i] = i
  <2>1. i \in 1 .. n /\ i \in 1 .. Len(s) + Len(t) /\ i <= Len(s)
    BY <1>1, <1>3
  <2>2. c[i] = i
    BY <1>2, <2>1
  <2> QED
    BY <1>1, <2>1, <2>2
<1> QED
  BY <1>1, <1>3, <1>4

\* The stream goes on with the next number.
LEMMA StreamContinues ==
    ASSUME NEW s \in Seq(Byte), NEW n \in Nat, NEW len \in Nat,
           s = [i \in 1 .. n |-> i], [i \in 1 .. len |-> n + i] \in Seq(Byte)
    PROVE  s \o [i \in 1 .. len |-> n + i] = [i \in 1 .. n + len |-> i]
<1> DEFINE m == [i \in 1 .. len |-> n + i]
           c == s \o m
<1>1. m \in Seq(Byte) /\ Len(m) = len /\ Len(s) = n
  OBVIOUS
<1>2. \A i \in 1 .. n : s[i] = i
  OBVIOUS
<1>3. \A i \in 1 .. len : m[i] = n + i
  OBVIOUS
<1> HIDE DEF m
<1>4. /\ c \in Seq(Byte) /\ Len(c) = n + len
      /\ \A i \in 1 .. n + len : c[i] = IF i <= n THEN s[i] ELSE m[i - n]
  <2>1. /\ c \in Seq(Byte) /\ Len(c) = Len(s) + Len(m)
        /\ \A i \in 1 .. Len(s) + Len(m) : c[i] = IF i <= Len(s) THEN s[i] ELSE m[i - Len(s)]
    BY <1>1, JoinProperties, Zenon
  <2> HIDE DEF c
  <2> QED
    BY <1>1, <2>1
<1> HIDE DEF c
<1>5. ASSUME NEW i \in 1 .. n + len PROVE c[i] = i
  <2>1. CASE i <= n
    BY <1>2, <1>4, <2>1
  <2>2. CASE i > n
    <3>1. i - n \in 1 .. len
      BY <2>2
    <3>2. m[i - n] = n + (i - n)
      BY <1>3, <3>1
    <3> QED
      BY <1>4, <2>2, <3>2
  <2> QED
    BY <2>1, <2>2
<1>6. c = [i \in 1 .. Len(c) |-> c[i]]
  BY <1>4
<1>7. c = [i \in 1 .. n + len |-> i]
  BY <1>4, <1>5, <1>6
<1> QED
  BY <1>7 DEF c, m

\* The output buffer, while the process runs.
LEMMA OutputBuffer ==
    ASSUME BufferIsSound, Running
    PROVE  /\ Sound(outputBuffer_) /\ outputBuffer_.intact
           /\ Readable(outputBuffer_) \in Seq(Byte)
           /\ Len(Readable(outputBuffer_)) = readableBytes(outputBuffer_)
           /\ readableBytes(outputBuffer_) \in Nat
<1>1. Sound(outputBuffer_) /\ outputBuffer_.intact
  BY DEF BufferIsSound, Sound
<1>2. /\ Readable(outputBuffer_) \in Seq(Byte)
      /\ Len(Readable(outputBuffer_)) = readableBytes(outputBuffer_)
  BY <1>1, ReadableProperties DEF readableBytes
<1> QED
  BY <1>1, <1>2, LenProperties

\* The room in the kernel's buffer.
LEMMA SpaceType ==
    ASSUME Types, WireTypes
    PROVE  /\ Space \in Nat /\ Space = SndBuf[crossing] - (Len(wire) - received)
           /\ Space <= SndBuf[crossing]
           /\ Len(wire) \in Nat /\ SndBuf[crossing] \in Nat
<1>1. Len(wire) \in Nat /\ received \in Nat /\ received <= Len(wire)
      /\ Len(wire) - received <= SndBuf[crossing]
  BY LenProperties DEF WireTypes
<1>2. SndBuf[crossing] \in Nat
  BY OwnFunctors
<1> QED
  BY <1>1, <1>2 DEF Space

Data == WireTypes /\ BufferIsSound /\ Stream

\* The kernel takes n more bytes, which fit.
LEMMA WireGrows ==
    ASSUME Types, WireTypes, NEW d \in Seq(Byte), Len(d) <= Space, wire' = wire \o d,
           UNCHANGED <<received, crossing>>
    PROVE  WireTypes' /\ Len(wire') = Len(wire) + Len(d) /\ Len(d) \in Nat
<1>1. wire \in Seq(Byte) /\ received \in Nat /\ received <= Len(wire)
  BY DEF WireTypes
<1>2. wire' \in Seq(Byte) /\ Len(wire') = Len(wire) + Len(d) /\ Len(d) \in Nat
      /\ Len(wire) \in Nat
  BY <1>1, ConcatProperties, LenProperties
<1>3. /\ Space \in Nat /\ Space = SndBuf[crossing] - (Len(wire) - received)
      /\ SndBuf[crossing] \in Nat
  BY SpaceType
<1>4. received <= Len(wire') /\ Len(wire') - received <= SndBuf[crossing]
  BY <1>1, <1>2, <1>3
<1> QED
  BY <1>1, <1>2, <1>4 DEF WireTypes

\* handleWrite moves the beginning of the buffer to the kernel.
LEMMA WriteOutData ==
    ASSUME Types, Data, Running, ~WriteFails, sent \in Nat,
           WriteOut(Min({readableBytes(outputBuffer_), Space})),
           UNCHANGED <<received, crossing, reset, sent>>
    PROVE  Data' /\ \E d \in Seq(Byte) : wire' = wire \o d
<1> DEFINE r == Readable(outputBuffer_)
           n == Min({readableBytes(outputBuffer_), Space})
           x == SubSeq(r, 1, n)
           y == SubSeq(r, n + 1, Len(r))
<1>1. /\ Sound(outputBuffer_) /\ outputBuffer_.intact /\ r \in Seq(Byte)
      /\ Len(r) = readableBytes(outputBuffer_) /\ Len(r) \in Nat
  BY OutputBuffer DEF Data
<1>2. Space \in Nat /\ Len(wire) \in Nat
  BY SpaceType DEF Data
<1>3. n \in Nat /\ n <= Len(r) /\ n <= Space
  BY <1>1, <1>2, MinProperties
<1>4. /\ wire' = wire \o x
      /\ outputBuffer_' = IF n > 0 THEN retrieve(outputBuffer_, n) ELSE outputBuffer_
      /\ UNCHANGED <<compacted, err>>
  BY DEF WriteOut, RetrieveSent
<1> HIDE DEF n
<1>5. x \in Seq(Byte) /\ Len(x) = n /\ y \in Seq(Byte) /\ x \o y = r
  BY <1>1, <1>3, CutChunk
<1>6. WireTypes' /\ Len(wire') = Len(wire) + n
  BY <1>3, <1>4, <1>5, WireGrows DEF Data
<1>7. /\ Sound(outputBuffer_') /\ outputBuffer_'.intact = outputBuffer_.intact
      /\ Readable(outputBuffer_') = y
  <2>1. CASE n = 0
    <3>1. y = r
      BY <1>1, <2>1, SubSeqFull
    <3>2. outputBuffer_' = outputBuffer_
      BY <1>4, <2>1
    <3> QED
      BY <1>1, <3>1, <3>2
  <2>2. CASE n > 0
    <3>1. outputBuffer_' = retrieve(outputBuffer_, n)
      BY <1>4, <2>2
    <3>2. LET a == retrieve(outputBuffer_, n)
          IN  /\ Sound(a) /\ a.intact = outputBuffer_.intact
              /\ Readable(a) = IF n < Len(r) THEN y ELSE <<>>
      BY <1>1, <1>3, RetrieveFifo
    <3>3. CASE n < Len(r)
      BY <3>1, <3>2, <3>3
    <3>4. CASE ~(n < Len(r))
      <4>1. y = <<>>
        BY <1>1, <1>3, <3>4, SubSeqEmpty
      <4> QED
        BY <3>1, <3>2, <3>4, <4>1
    <3> QED
      BY <3>3, <3>4
  <2> QED
    BY <1>3, <2>1, <2>2
<1>8. BufferIsSound'
  <2>1. outputBuffer_'.intact
    BY <1>1, <1>7
  <2>2. compacted' \in BOOLEAN
    BY <1>4 DEF Data, BufferIsSound
  <2> QED
    BY <1>7, <2>1, <2>2 DEF BufferIsSound, Sound
<1>9. Stream'
  <2>1. err' => reset'
    BY <1>4 DEF Data, Stream
  <2>2. ASSUME ~compacted'
        PROVE  /\ wire' \o Readable(outputBuffer_') = [i \in 1 .. sent' |-> i]
               /\ \A i \in DOMAIN wire' : wire'[i] = i
               /\ Len(wire') <= sent'
    <3>1. wire \o r = [i \in 1 .. sent |-> i]
      BY <1>4, <2>2 DEF Data, Stream, StreamInOrder, WriteFails
    <3>2. wire' \o y = wire \o (x \o y)
      BY <1>4, <1>5, JoinAssociative DEF Data, WireTypes
    <3>3. wire' \o y = [i \in 1 .. sent |-> i]
      BY <1>5, <3>1, <3>2
    <3>4. wire' \in Seq(Byte)
      BY <1>6 DEF WireTypes
    <3>5. Len(wire') <= sent /\ \A i \in DOMAIN wire' : wire'[i] = i
      BY <1>5, <3>3, <3>4, StreamPrefix
    <3> QED
      BY <1>7, <3>3, <3>5
  <2> QED
    BY <2>1, <2>2 DEF Stream, StreamInOrder
<1> QED
  BY <1>4, <1>5, <1>6, <1>8, <1>9 DEF Data

\* The rest of a message goes into the output buffer.
LEMMA AppendRestData ==
    ASSUME BufferIsSound, Running, NEW rest \in Seq(Byte), AppendRest(rest),
           ~outputBuffer_'.intact => ended' # "no"
    PROVE  /\ BufferIsSound'
           /\ ~compacted' => /\ ~compacted
                             /\ Readable(outputBuffer_') = Readable(outputBuffer_) \o rest
<1>1. Sound(outputBuffer_) /\ outputBuffer_.intact
  BY OutputBuffer
<1>2. /\ outputBuffer_' = append(outputBuffer_, rest)
      /\ compacted' = (compacted \/ Compacts(outputBuffer_, Len(rest)))
  BY DEF AppendRest
<1>3. /\ outputBuffer_' \in BufferType /\ Ordered(outputBuffer_')
      /\ outputBuffer_'.intact => outputBuffer_'.writerIndex_ <= Len(outputBuffer_'.mem)
  BY <1>1, <1>2, AppendSound
<1>4. compacted' \in BOOLEAN
  BY <1>2, Zenon
<1>5. ASSUME ~compacted'
      PROVE  /\ outputBuffer_'.intact /\ ~compacted
             /\ Readable(outputBuffer_') = Readable(outputBuffer_) \o rest
  <2>1. ~compacted /\ ~Compacts(outputBuffer_, Len(rest))
    BY <1>2, <1>5, Zenon
  <2>2. /\ outputBuffer_'.intact = outputBuffer_.intact
        /\ Readable(outputBuffer_') = Readable(outputBuffer_) \o rest
    BY <1>1, <1>2, <2>1, AppendFifo
  <2> QED
    BY <1>1, <2>1, <2>2
<1>6. BufferIsSound'
  BY <1>3, <1>4, <1>5 DEF BufferIsSound, Running
<1> QED
  BY <1>5, <1>6

\* A message of bytes, and its two parts.
LEMMA MessageParts ==
    ASSUME Types, NEW len \in Nat, sent \in Nat, sent + len <= MaxSent[crossing],
           NEW n \in Nat, n <= len
    PROVE  LET m == [i \in 1 .. len |-> sent + i]
           IN  /\ m \in Seq(Byte) /\ Len(m) = len
               /\ SubSeq(m, 1, n) \in Seq(Byte) /\ Len(SubSeq(m, 1, n)) = n
               /\ SubSeq(m, n + 1, len) \in Seq(Byte)
               /\ SubSeq(m, 1, n) \o SubSeq(m, n + 1, len) = m
<1> DEFINE m == [i \in 1 .. len |-> sent + i]
<1>1. MaxSent[crossing] \in Nat /\ 0 .. MaxSent[crossing] \subseteq Byte
  BY ConnectionAssumption DEF Types
<1>2. \A i \in 1 .. len : sent + i \in Byte
  BY <1>1
<1>3. m \in Seq(Byte) /\ Len(m) = len
  BY <1>2
<1> HIDE DEF m
<1>4. /\ SubSeq(m, 1, n) \in Seq(Byte) /\ Len(SubSeq(m, 1, n)) = n
      /\ SubSeq(m, n + 1, len) \in Seq(Byte)
      /\ SubSeq(m, 1, n) \o SubSeq(m, n + 1, len) = m
  BY <1>3, CutChunk
<1> QED
  BY <1>3, <1>4 DEF m

\* sendInLoop gives the kernel the beginning of the message and keeps the rest.
LEMMA SendData ==
    ASSUME Types, Data, Running, sent \in Nat, NEW len \in Nat, NEW q, sendInLoop(len, q),
           sent + len <= MaxSent[crossing], UNCHANGED <<received, crossing, reset>>
    PROVE  Data' /\ \E d \in Seq(Byte) : wire' = wire \o d
<1> USE DEF bufferVars, sockVars
<1>0. /\ wire \in Seq(Byte) /\ Len(wire) \in Nat /\ Space \in Nat
      /\ <<>> \in Seq(Byte) /\ wire \o <<>> = wire
  BY SpaceType, ConcatEmptySeq, EmptySeq DEF Data, WireTypes
<1>1. CASE UNCHANGED <<bufferVars, sockVars, sent, ended>>
  <2>1. Data'
    BY <1>1 DEF Data, WireTypes, BufferIsSound, Stream, StreamInOrder, Running
  <2> QED
    BY <1>0, <1>1, <2>1
<1>2. CASE FailedWrite /\ WriteFails /\ sent' = sent + len /\ UNCHANGED <<bufferVars, wire, wrShut>>
  <2>1. WireTypes' /\ BufferIsSound'
    BY <1>2 DEF Data, WireTypes, BufferIsSound, FailedWrite, Running
  <2>2. err' = FALSE /\ (Running' => reset)
    BY <1>2 DEF FailedWrite, Data, Stream, Running
  <2>3. sent <= sent'
    BY <1>2
  <2>4. ~compacted => Len(wire') <= sent'
    BY <1>0, <1>2, <2>3 DEF Data, Stream
  <2>5. Stream'
    BY <1>2, <2>2, <2>4 DEF Data, Stream, StreamInOrder
  <2> QED
    BY <1>0, <1>2, <2>1, <2>5 DEF Data
<1> DEFINE r == Readable(outputBuffer_)
           m == [i \in 1 .. len |-> sent + i]
           First(n) == SubSeq(m, 1, n)
           Rest(n) == SubSeq(m, n + 1, len)
<1>3. ASSUME NEW n \in Written(len), ~(Direct /\ WriteFails), wire' = wire \o First(n),
             sent' = sent + len, UNCHANGED err,
             \/ n = len /\ UNCHANGED <<bufferVars, ended>>
             \/ KeepRest(Rest(n))
      PROVE  Data' /\ First(n) \in Seq(Byte)
  <2> DEFINE x == First(n)
             y == Rest(n)
  <2>1. /\ Sound(outputBuffer_) /\ r \in Seq(Byte) /\ Len(r) = readableBytes(outputBuffer_)
    BY OutputBuffer DEF Data
  <2>2. n \in Nat /\ n <= len /\ n <= Space /\ (~Direct => n = 0)
    BY <1>0, MinProperties DEF Written
  <2>3. /\ m \in Seq(Byte) /\ Len(m) = len /\ x \in Seq(Byte) /\ Len(x) = n
        /\ y \in Seq(Byte) /\ x \o y = m
    BY <2>2, MessageParts
  <2>4. WireTypes' /\ Len(wire') = Len(wire) + n
    BY <1>3, <2>2, <2>3, WireGrows DEF Data
  <2>5. BufferIsSound' /\ (~compacted' => ~compacted /\ Readable(outputBuffer_') = r \o y)
    <3>1. CASE n = len /\ UNCHANGED <<bufferVars, ended>>
      <4>1. y = <<>>
        BY <2>2, <3>1, SubSeqEmpty
      <4>2. r \o y = r
        BY <2>1, <4>1, ConcatEmptySeq
      <4>3. BufferIsSound'
        BY <3>1 DEF Data, BufferIsSound, Running
      <4> QED
        BY <3>1, <4>2, <4>3
    <3>2. CASE KeepRest(y)
      <4>1. AppendRest(y) /\ (~outputBuffer_'.intact => ended' = "undefined")
        BY <3>2, KeepEffect
      <4> QED
        BY <2>3, <4>1, AppendRestData DEF Data
    <3> QED
      BY <1>3, <3>1, <3>2
  <2>6. x = <<>> \/ r = <<>>
    <3>1. CASE Direct
      <4>1. Len(r) = 0
        BY <2>1, <3>1 DEF Direct
      <4> QED
        BY <2>1, <4>1, EmptySeq
    <3>2. CASE ~Direct
      BY <2>2, <2>3, <3>2, EmptySeq
    <3> QED
      BY <3>1, <3>2
  <2>7. ASSUME ~compacted', ~reset
        PROVE  /\ wire' \o Readable(outputBuffer_') = [i \in 1 .. sent' |-> i]
               /\ \A i \in DOMAIN wire' : wire'[i] = i
               /\ Len(wire') <= sent'
    <3>1. wire \o r = [i \in 1 .. sent |-> i] /\ wire' = wire \o x
      BY <1>3, <2>5, <2>7 DEF Data, Stream, StreamInOrder
    <3> HIDE DEF r, m, x, y
    <3>2. wire' \o Readable(outputBuffer_') = (wire \o r) \o m
      <4>1. wire' = wire \o x /\ Readable(outputBuffer_') = r \o y
        BY <2>5, <2>7, <3>1
      <4>2. wire \in Seq(Byte) /\ x \in Seq(Byte) /\ r \in Seq(Byte) /\ y \in Seq(Byte)
        BY <1>0, <2>1, <2>3
      <4>3. (wire \o x) \o (r \o y) = (wire \o r) \o (x \o y)
        <5>1. CASE x = <<>>
          <6>1. wire \o x = wire /\ x \o y = y
            BY <4>2, <5>1, ConcatEmptySeq
          <6>2. (wire \o r) \o y = wire \o (r \o y)
            BY <4>2, JoinAssociative
          <6> QED
            BY <6>1, <6>2, Zenon
        <5>2. CASE r = <<>>
          <6>1. wire \o r = wire /\ r \o y = y
            BY <4>2, <5>2, ConcatEmptySeq
          <6>2. (wire \o x) \o y = wire \o (x \o y)
            BY <4>2, JoinAssociative
          <6> QED
            BY <6>1, <6>2, Zenon
        <5> QED
          BY <2>6, <5>1, <5>2
      <4> QED
        BY <2>3, <4>1, <4>3
    <3>3. wire \o r \in Seq(Byte)
      BY <1>0, <2>1, JoinProperties
    <3>4. (wire \o r) \o m = [i \in 1 .. sent + len |-> i]
      BY <2>3, <3>1, <3>3, StreamContinues DEF m
    <3>5. wire' \o Readable(outputBuffer_') = [i \in 1 .. sent' |-> i]
      BY <1>3, <3>2, <3>4
    <3>6. wire' \in Seq(Byte) /\ Readable(outputBuffer_') \in Seq(Byte) /\ sent' \in Nat
      <4>1. r \o y \in Seq(Byte)
        BY <2>1, <2>3, JoinProperties
      <4>2. Readable(outputBuffer_') \in Seq(Byte)
        BY <2>5, <2>7, <4>1
      <4>3. sent' \in Nat
        BY <1>3
      <4> QED
        BY <2>4, <4>2, <4>3 DEF WireTypes
    <3> QED
      BY <3>5, <3>6, StreamPrefix
  <2>8. ASSUME ~compacted', reset
        PROVE  (\A i \in DOMAIN wire' : wire'[i] = i) /\ Len(wire') <= sent'
    <3>1. n = 0
      BY <1>3, <2>2, <2>8 DEF WriteFails
    <3>2. x = <<>>
      BY <2>3, <3>1, EmptySeq
    <3>3. wire' = wire
      BY <1>0, <1>3, <3>2
    <3>4. ~compacted /\ sent' = sent + len
      BY <1>3, <2>5, <2>8
    <3>5. Len(wire) <= sent /\ \A i \in DOMAIN wire : wire[i] = i
      BY <3>4 DEF Data, Stream, StreamInOrder
    <3> HIDE DEF r, m, x, y
    <3>6. Len(wire') <= sent'
      BY <1>0, <3>3, <3>4, <3>5
    <3> QED
      BY <3>3, <3>5, <3>6
  <2>9. err' => reset'
    BY <1>3 DEF Data, Stream
  <2>10. Stream'
    <3> HIDE DEF x, y, r, m
    <3> QED
      BY <2>7, <2>8, <2>9 DEF Stream, StreamInOrder
  <2> QED
    BY <2>3, <2>4, <2>5, <2>10 DEF Data
<1>4. CASE state_ # "kDisconnected" /\ ~(Direct /\ WriteFails)
  <2>1. PICK n \in Written(len) :
          /\ wire' = wire \o First(n)
          /\ (n = len /\ UNCHANGED <<bufferVars, ended>>) \/ KeepRest(Rest(n))
    BY <1>4 DEF sendInLoop
  <2>2. sent' = sent + len /\ UNCHANGED err
    BY <1>4 DEF sendInLoop, TakeOn
  <2> HIDE DEF First, Rest
  <2> QED
    BY <1>3, <1>4, <2>1, <2>2
<1>5. CASE state_ # "kDisconnected" /\ Direct /\ WriteFails
  BY <1>2, <1>5 DEF sendInLoop, TakeOn
<1>6. CASE state_ = "kDisconnected"
  BY <1>1, <1>6 DEF sendInLoop, sentVars
<1> QED
  BY <1>4, <1>5, <1>6

\* What the kernel has accepted only grows, and the stream stays in order.
LEMMA DataStep ==
    ASSUME Types, Numbers, QueueTypes, Accounted, Calls, Data, [Next]_vars
    PROVE  /\ Data'
           /\ wire' = wire \/ \E d \in Seq(Byte) : wire' = wire \o d
<1> USE DEF connVars, bufferVars, channelVars, serverVars, callerVars, peerVars, sockVars,
            historyVars, worldVars, loopVars, sentVars
<1>0. /\ sent \in Nat /\ budget \in Nat /\ sender.len \in Nat /\ MaxSent[crossing] \in Nat
      /\ sent <= MaxSent[crossing] - budget - sender.len
      /\ queue # <<>> => sent + Head(queue).len <= MaxSent[crossing]
  BY AccountBound DEF Numbers
<1>1. ASSUME UNCHANGED <<wire, received, bufferVars, sent, reset, crossing>>, err' => err,
             Running' => Running
      PROVE  Data' /\ wire' = wire
  BY <1>1 DEF Data, WireTypes, BufferIsSound, Stream, StreamInOrder
<1>2. ASSUME NEW point, handleClose(point) PROVE Data' /\ wire' = wire
  <2>1. UNCHANGED <<wire, received, bufferVars, sent, reset, crossing, err>>
    BY <1>2, CloseEffect
  <2>2. ended' = ended \/ ended' = "undefined"
    BY <1>2, CloseEffect
  <2> QED
    BY <1>1, <2>1, <2>2 DEF Running
<1>3. CASE Poll \/ SwapFunctors \/ EndFunctors \/ LeaveLoop \/ RunShutdown \/ RunCallback
           \/ RemoveChannel \/ UserReturns \/ UserShutdown
  <2>1. UNCHANGED <<wire, received, bufferVars, sent, reset, crossing, err, ended>>
    BY <1>3 DEF Poll, SwapFunctors, EndFunctors, LeaveLoop, RunShutdown, RunCallback,
                RemoveChannel, UserReturns, UserShutdown, GoOn
  <2> QED
    BY <1>1, <2>1 DEF Running
<1>4. ASSUME NEW point, GoOn(point) PROVE Data' /\ wire' = wire
  BY <1>1, <1>4 DEF GoOn, Running
<1>5. CASE DispatchClose
  BY <1>2, <1>4, <1>5 DEF DispatchClose
<1>6. CASE DispatchError
  <2>1. UNCHANGED <<wire, received, bufferVars, sent, reset, crossing, ended>>
    BY <1>6 DEF DispatchError
  <2>2. err' => err
    BY <1>6, Zenon DEF DispatchError
  <2> QED
    BY <1>1, <2>1, <2>2 DEF Running
<1>7. CASE DispatchRead
  <2>1. ASSUME UNCHANGED <<wire, received, bufferVars, sent, reset, crossing, ended>>,
               err' = err \/ err' = FALSE
        PROVE  Data' /\ wire' = wire
    <3>1. err' => err
      BY <2>1
    <3> QED
      BY <1>1, <2>1, <3>1 DEF Running
  <2> QED
    BY <1>2, <1>4, <1>7, <2>1, ReadCases
<1>8. CASE DispatchWrite
  <2>1. /\ Running /\ UNCHANGED <<received, crossing, reset, sent>>
        /\ \/ WriteFails /\ FailedWrite /\ UNCHANGED <<bufferVars, wire>>
           \/ ~WriteFails /\ WriteOut(Min({readableBytes(outputBuffer_), Space}))
           \/ UNCHANGED <<bufferVars, wire, err, ended>>
    BY <1>8, WriteCases
  <2>2. CASE FailedWrite /\ UNCHANGED <<bufferVars, wire>>
    <3>1. err' = FALSE
      BY <2>2 DEF FailedWrite
    <3> QED
      BY <1>1, <2>1, <2>2, <3>1
  <2>3. CASE ~WriteFails /\ WriteOut(Min({readableBytes(outputBuffer_), Space}))
    BY <1>0, <2>1, <2>3, WriteOutData
  <2>4. CASE UNCHANGED <<bufferVars, wire, err, ended>>
    BY <1>1, <2>1, <2>4
  <2> QED
    BY <2>1, <2>2, <2>3, <2>4
<1>9. CASE ConnectionEstablished
  <2>1. UNCHANGED <<wire, received, bufferVars, sent, reset, crossing, err>> /\ Running
    BY <1>9 DEF ConnectionEstablished, NextFunctor, At
  <2> QED
    BY <1>1, <2>1
<1>10. CASE RunOnDeleted
  <2>1. UNCHANGED <<wire, received, bufferVars, sent, reset, crossing, err>> /\ Running
    BY <1>10 DEF RunOnDeleted, NextFunctor, At
  <2> QED
    BY <1>1, <2>1
<1>11. CASE RunSend
  <2>1. Head(queue).len \in Nat /\ queue # <<>> /\ Running
    BY <1>11, CalledFunctor DEF RunSend
  <2>2. sendInLoop(Head(queue).len, Tail(queue)) /\ UNCHANGED <<received, crossing, reset>>
    BY <1>11 DEF RunSend
  <2> QED
    BY <1>0, <2>1, <2>2, SendData
<1>12. ASSUME NEW len \in Lens, UserSend(len)
       PROVE  Data' /\ \E d \in Seq(Byte) : wire' = wire \o d
  <2>1. /\ len \in Nat /\ Running /\ len <= budget /\ sendInLoop(len, queue)
        /\ UNCHANGED <<received, crossing, reset>>
    BY <1>12, ConnectionAssumption DEF UserSend, InUserCode, At
  <2>2. sent + len <= MaxSent[crossing]
    BY <1>0, <2>1
  <2> QED
    BY <1>0, <2>1, <2>2, SendData
<1>13. ASSUME connectionDestroyed, Running PROVE Data' /\ wire' = wire
  <2>1. UNCHANGED <<wire, received, bufferVars, sent, reset, crossing, err>>
    BY <1>13, DestroyEffect
  <2> QED
    BY <1>1, <1>13, <2>1
<1>14. CASE RunDestroyed
  BY <1>13, <1>14 DEF RunDestroyed, NextFunctor, At
<1>15. CASE CallerShutdown \/ CallerReleases \/ CallerStep \/ BaseLoopReleases \/ QuitLoop \/ Join
            \/ \E len \in Lens : CallerSend(len)
  <2>1. UNCHANGED <<wire, received, bufferVars, sent, reset, crossing, err>> /\ Running
    BY <1>15 DEF CallerShutdown, CallerReleases, CallerStep, CallerSetState, SenderQueues,
                 CloserQueues, QueueInLoop, BaseLoopReleases, QuitLoop, Join, CallerSend
  <2> QED
    BY <1>1, <2>1
<1>16. CASE RunRemoval
  <2>1. UNCHANGED <<wire, received, bufferVars, sent, reset, crossing, err>> /\ Running
    BY <1>16 DEF RunRemoval
  <2> QED
    BY <1>1, <2>1
<1>17. CASE DestroyServer
  <2>1. CASE UNCHANGED <<connVars, callerVars, peerVars, sockVars, historyVars>>
    BY <1>1, <2>1 DEF Running
  <2> QED
    BY <1>13, <1>17, <2>1 DEF DestroyServer
<1>18. CASE PeerReceives
  <2>1. /\ received < Len(wire) /\ received' = received + 1
        /\ UNCHANGED <<wire, bufferVars, sent, reset, crossing, err, ended>>
    BY <1>18 DEF PeerReceives
  <2>2. Len(wire) \in Nat /\ received \in Nat /\ SndBuf[crossing] \in Nat
        /\ Len(wire) - received <= SndBuf[crossing]
    BY SpaceType DEF Data, WireTypes
  <2>3. received' \in Nat /\ received' <= Len(wire) /\ Len(wire) - received' <= SndBuf[crossing]
    BY <2>1, <2>2
  <2>4. WireTypes'
    BY <2>1, <2>3 DEF Data, WireTypes
  <2>5. BufferIsSound' /\ Stream'
    BY <2>1 DEF Data, BufferIsSound, Stream, StreamInOrder, Running
  <2> QED
    BY <2>1, <2>4, <2>5 DEF Data
<1>19. CASE PeerResets
  <2>1. reset' = TRUE /\ UNCHANGED <<wire, received, bufferVars, sent, crossing, ended>>
    BY <1>19 DEF PeerResets
  <2> QED
    BY <2>1 DEF Data, WireTypes, BufferIsSound, Stream, StreamInOrder, Running
<1>20. CASE PeerSends \/ PeerCloses
  <2>1. UNCHANGED <<wire, received, bufferVars, sent, reset, crossing, err, ended>>
    BY <1>20 DEF PeerSends, PeerCloses
  <2> QED
    BY <1>1, <2>1 DEF Running
<1>21. CASE UNCHANGED vars
  BY <1>1, <1>21 DEF vars, Running
<1> QED
  BY <1>3, <1>5, <1>6, <1>7, <1>8, <1>9, <1>10, <1>11, <1>12, <1>14, <1>15, <1>16, <1>17,
     <1>18, <1>19, <1>20, <1>21
  DEF Next, LoopStep, UserStep, CallerStep, ServerStep, PeerStep

\* The counters of the server and the peer.
LEMMA NumbersStep ==
    ASSUME Types, Numbers, QueueTypes, Accounted, Calls, [Next]_vars
    PROVE  Numbers'
<1> USE DEF serverVars, callerVars, peerVars, worldVars, loopVars
<1>1. sent' \in Nat /\ budget' \in Nat
  BY QueueStep
<1>2. /\ MaxIn[crossing] \in Nat /\ removals \in Nat /\ inData \in Nat /\ inBudget \in Nat
      /\ inData + inBudget <= MaxIn[crossing] /\ UNCHANGED crossing
  BY ConnectionAssumption, QueueMoves DEF Numbers, Types
<1>3. ASSUME UNCHANGED <<removals, inData, inBudget>> PROVE Numbers'
  BY <1>1, <1>2, <1>3 DEF Numbers
<1>4. ASSUME NEW point, handleClose(point) PROVE Numbers'
  <2>1. removals' \in {removals, removals + 1} /\ UNCHANGED <<inData, inBudget>>
    BY <1>4, CloseEffect
  <2> QED
    BY <1>1, <1>2, <2>1 DEF Numbers
<1>5. ASSUME NEW point, GoOn(point) PROVE Numbers'
  BY <1>3, <1>5 DEF GoOn
<1>6. CASE DispatchClose
  BY <1>4, <1>5, <1>6 DEF DispatchClose
<1>7. CASE DispatchRead
  <2>1. ASSUME inData' = 0, UNCHANGED <<removals, inBudget>> PROVE Numbers'
    BY <1>1, <1>2, <2>1 DEF Numbers
  <2> QED
    BY <1>3, <1>4, <1>5, <1>7, <2>1, ReadCases
<1>8. CASE PeerSends
  <2>1. inBudget > 0 /\ inBudget' = inBudget - 1 /\ inData' = inData + 1 /\ UNCHANGED removals
    BY <1>8 DEF PeerSends
  <2> QED
    BY <1>1, <1>2, <2>1 DEF Numbers
<1>9. CASE RunRemoval
  <2>1. removals > 0 /\ removals' = removals - 1 /\ UNCHANGED <<inData, inBudget>>
    BY <1>9 DEF RunRemoval
  <2> QED
    BY <1>1, <1>2, <2>1 DEF Numbers
<1>10. CASE Poll \/ DispatchError \/ DispatchWrite \/ SwapFunctors \/ EndFunctors \/ LeaveLoop
  BY <1>3, <1>10 DEF Poll, DispatchError, DispatchWrite, SwapFunctors, EndFunctors, LeaveLoop
<1>11. CASE ConnectionEstablished \/ RunOnDeleted \/ RunSend \/ RunShutdown \/ RunCallback
            \/ RemoveChannel \/ UserReturns \/ UserShutdown \/ \E len \in Lens : UserSend(len)
  BY <1>3, <1>5, <1>11 DEF ConnectionEstablished, RunOnDeleted, RunSend, RunShutdown, RunCallback,
                    RemoveChannel, UserReturns, UserShutdown, UserSend
<1>12. CASE RunDestroyed \/ DestroyServer
  <2>1. ASSUME connectionDestroyed PROVE UNCHANGED <<inData, inBudget>>
    BY <2>1, DestroyEffect
  <2> QED
    BY <1>3, <1>12, <2>1 DEF RunDestroyed, DestroyServer
<1>13. CASE CallerShutdown \/ CallerReleases \/ CallerStep \/ BaseLoopReleases \/ QuitLoop \/ Join
            \/ \E len \in Lens : CallerSend(len)
  BY <1>3, <1>13 DEF CallerShutdown, CallerReleases, CallerStep, CallerSetState, SenderQueues,
                     CloserQueues, QueueInLoop, BaseLoopReleases, QuitLoop, Join, CallerSend
<1>14. CASE PeerReceives \/ PeerCloses \/ PeerResets
  BY <1>3, <1>14 DEF PeerReceives, PeerCloses, PeerResets
<1>15. CASE UNCHANGED vars
  BY <1>3, <1>15 DEF vars
<1> QED
  BY <1>6, <1>7, <1>8, <1>9, <1>10, <1>11, <1>12, <1>13, <1>14, <1>15
  DEF Next, LoopStep, UserStep, ServerStep, PeerStep

\* The other threads call while they hold the connection, and that is up.
LEMMA HeldStep ==
    ASSUME Types, Numbers, QueueTypes, Calls, Control, [Next]_vars
    PROVE  /\ sender' # Idle \/ closer' # Idle => held'
           /\ held' => ups' = 1
<1> USE DEF serverVars, callerVars, historyVars, worldVars, loopVars
<1>0. (sender # Idle \/ closer # Idle => held) /\ (held => ups = 1)
  BY DEF Calls
<1>1. CASE UNCHANGED <<sender, closer, held, ups>>
  BY <1>0, <1>1
<1>2. CASE ConnectionEstablished
  <2>1. ups' = 1 /\ ups = 0
    BY <1>2, EstablishStep
  <2>2. UNCHANGED <<sender, closer>>
    BY <1>2 DEF ConnectionEstablished
  <2> QED
    BY <1>0, <2>1, <2>2
<1>3. CASE CallerReleases
  BY <1>3 DEF CallerReleases
<1>4. CASE CallerShutdown \/ CallerStep \/ \E len \in Lens : CallerSend(len)
  <2>1. held /\ UNCHANGED <<held, ups>>
    BY <1>0, <1>4 DEF CallerShutdown, CallerStep, CallerSetState, SenderQueues, CloserQueues,
                      QueueInLoop, CallerSend, Idle, Functor
  <2> QED
    BY <1>0, <2>1
<1>5. ASSUME NEW point, handleClose(point) PROVE UNCHANGED <<sender, closer, held, ups>>
  BY <1>5, CloseEffect
<1>6. ASSUME NEW point, GoOn(point) PROVE UNCHANGED <<sender, closer, held, ups>>
  BY <1>6 DEF GoOn
<1>7. CASE DispatchClose \/ DispatchRead \/ UserReturns
  BY <1>1, <1>5, <1>6, <1>7, ReadCases DEF DispatchClose, UserReturns
<1>8. CASE Poll \/ DispatchError \/ DispatchWrite \/ SwapFunctors \/ EndFunctors \/ LeaveLoop
  BY <1>1, <1>8 DEF Poll, DispatchError, DispatchWrite, SwapFunctors, EndFunctors, LeaveLoop
<1>9. CASE RunOnDeleted \/ RunSend \/ RunShutdown \/ RunCallback \/ RemoveChannel
           \/ UserShutdown \/ \E len \in Lens : UserSend(len)
  BY <1>1, <1>9 DEF RunOnDeleted, RunSend, RunShutdown, RunCallback, RemoveChannel, UserShutdown,
                    UserSend
<1>10. CASE RunDestroyed \/ DestroyServer
  <2>1. ASSUME connectionDestroyed PROVE UNCHANGED <<sender, closer, held, ups>>
    BY <2>1, DestroyEffect
  <2> QED
    BY <1>1, <1>10, <2>1 DEF RunDestroyed, DestroyServer
<1>11. CASE RunRemoval \/ BaseLoopReleases \/ QuitLoop \/ Join \/ PeerStep
  BY <1>1, <1>11 DEF RunRemoval, BaseLoopReleases, QuitLoop, Join, PeerStep, PeerReceives,
                     PeerSends, PeerCloses, PeerResets
<1>12. CASE UNCHANGED vars
  BY <1>1, <1>12 DEF vars
<1> QED
  BY <1>2, <1>3, <1>4, <1>7, <1>8, <1>9, <1>10, <1>11, <1>12
  DEF Next, LoopStep, UserStep, ServerStep

-----------------------------------------------------------------------------
(* The invariant.                                                          *)

\* The initial states satisfy the invariant.
LEMMA InitInvariant == Init => CInv
<1> SUFFICES ASSUME Init PROVE CInv
  OBVIOUS
<1> USE DEF Init, NewTcpConnection
<1>1. Types
  BY DEF Types, States, ControlPoints, ServerPoints
<1>2. /\ MaxSent[crossing] \in Nat /\ SndBuf[crossing] \in Nat \ {0}
      /\ MaxIn[crossing] \in Nat
  BY <1>1, OwnFunctors, ConnectionAssumption DEF Types
<1>3. Flags
  BY Zenon DEF Flags
<1>4. Numbers
  BY <1>2 DEF Numbers
<1> DEFINE f == Functor("established")
<1>5. /\ f \in Functors /\ f.op = "established" /\ f.len = 0
      /\ sender \in Functors /\ sender = Idle /\ sender.op = "idle" /\ sender.len = 0
      /\ closer \in Functors /\ closer = Idle /\ closer.op = "idle"
  BY <1>2 DEF Functors, Functor, Idle
<1> HIDE DEF f
<1>6. queue = <<f>>
  BY DEF f
<1>7. /\ queue \in Seq(Functors) /\ Len(queue) = 1 /\ queue # <<>> /\ Head(queue) = f
      /\ DOMAIN queue = {1} /\ queue[1] = f
  BY <1>5, <1>6
<1>8. QueueTypes
  BY <1>5, <1>7 DEF QueueTypes
<1>9. WireTypes
  BY <1>2 DEF WireTypes
<1>10. BufferIsSound
  BY NewBufferIsEmpty DEF BufferIsSound, Sound, NewBuffer
<1>11. Range(queue) = {f} /\ Range(Tail(queue)) = {}
  <2>1. Range(queue) = {f}
    BY <1>7 DEF Range
  <2>2. Tail(queue) = <<>>
    BY <1>6
  <2> QED
    BY <2>1, <2>2 DEF Range
<1>12. Accounted
  <2> DEFINE off == [i \in 0 .. 1 |-> 0]
  <2>1. off \in [0 .. Len(queue) -> Nat]
    BY <1>7
  <2>2. sent <= off[0]
    OBVIOUS
  <2>3. \A i \in 1 .. Len(queue) : off[i - 1] + queue[i].len <= off[i]
    BY <1>5, <1>7
  <2>4. \A i \in 0 .. Len(queue) : off[i] <= MaxSent[crossing] - budget - sender.len
    BY <1>2, <1>5, <1>7
  <2> HIDE DEF off
  <2> QED
    BY <2>1, <2>2, <2>3, <2>4 DEF Accounted, Accounting
<1>13. Calls
  BY <1>5, <1>11 DEF Calls, Calling, Called
<1>14. Fresh
  BY <1>5, <1>7, <1>11 DEF Fresh
<1>15. Reports /\ Dispatching /\ Writing /\ Removing /\ Leaving /\ Orphaned
  BY DEF Reports, Dispatching, Writing, Removing, Leaving, Orphaned, LoopGone
<1>16. Stream
  <2>1. wire \o Readable(outputBuffer_) = <<>>
    <3>1. Readable(outputBuffer_) = <<>> /\ wire = <<>>
      BY NewBufferIsEmpty
    <3>2. <<>> \o <<>> = <<>>
      BY ConcatEmptySeq, EmptySeq
    <3> QED
      BY <3>1, <3>2
  <2>2. [i \in 1 .. sent |-> i] = <<>>
    OBVIOUS
  <2>3. StreamInOrder
    BY <2>1, <2>2 DEF StreamInOrder
  <2> QED
    BY <2>3 DEF Stream
<1> QED
  BY <1>1, <1>3, <1>4, <1>8, <1>9, <1>10, <1>12, <1>13, <1>14, <1>15, <1>16 DEF CInv

\* Every step keeps the invariant.
LEMMA NextInvariant == CInv /\ [Next]_vars => CInv'
<1> SUFFICES ASSUME CInv, [Next]_vars PROVE CInv'
  OBVIOUS
<1>1. /\ Types /\ Flags /\ Numbers /\ QueueTypes /\ BufferIsSound /\ Accounted /\ Calls
      /\ Control /\ Data /\ Leaving /\ Orphaned
  BY DEF CInv, Control, Data
<1>2. Types' /\ Flags'
  BY <1>1, TypesStep, FlagsStep
<1>3. Numbers'
  BY <1>1, NumbersStep
<1>4. QueueTypes' /\ Accounted'
  BY <1>1, QueueStep
<1>5. Calls'
  BY <1>1, QueueStep, HeldStep DEF Calls
<1>6. Control'
  BY <1>1, ControlStep
<1>7. Data'
  BY <1>1, DataStep
<1>8. Leaving'
  BY <1>1, LeavingStep
<1>9. Orphaned'
  BY <1>1, <1>6, OrphanedStep
<1> QED
  BY <1>2, <1>3, <1>4, <1>5, <1>6, <1>7, <1>8, <1>9 DEF CInv, Control, Data

\* The invariant holds in every state of every behaviour.
THEOREM ConnectionInvariant == Spec => []CInv
BY InitInvariant, NextInvariant, PTL DEF Spec

(***************************************************************************)
(* Every variable of the connection, its loop, its server, the other       *)
(* threads and its socket keeps its type; the kernel's buffer is never     *)
(* overfilled, a batch never exceeds the queue, and users are never        *)
(* charged more than their budget.                                         *)
(***************************************************************************)
THEOREM ConnectionTypeCorrect == Spec => []TypeOK
<1>1. ASSUME CInv PROVE TypeOK
  <2>1. Types /\ Flags /\ Numbers /\ QueueTypes /\ WireTypes /\ BufferIsSound /\ Accounted
        /\ Reports
    BY <1>1 DEF CInv
  <2>2. Space \in 0 .. SndBuf[crossing]
    BY <2>1, SpaceType
  <2>3. /\ MaxSent[crossing] \in Nat /\ sent \in 0 .. MaxSent[crossing]
        /\ budget \in 0 .. MaxSent[crossing]
    BY <2>1, AccountBound DEF Numbers
  <2>4. inData \in 0 .. MaxIn[crossing] /\ inBudget \in 0 .. MaxIn[crossing]
    <3>1. MaxIn[crossing] \in Nat
      BY <2>1, ConnectionAssumption DEF Types
    <3> QED
      BY <2>1, <3>1 DEF Numbers
  <2>5. batch \in 0 .. Len(queue) /\ \A i \in DOMAIN queue : queue[i] \in Functors
    BY <2>1, LenProperties, ElementOfSeq DEF QueueTypes
  <2>6. ups \in Nat /\ downs \in Nat
    BY <2>1 DEF Reports
  <2>7. /\ compacted \in BOOLEAN /\ (Running => outputBuffer_.intact)
        /\ outputBuffer_ \in [mem : Seq(Byte), readerIndex_ : Nat, writerIndex_ : Nat,
                              intact : BOOLEAN]
    BY <2>1 DEF BufferIsSound, BufferType
  <2> QED
    BY <2>1, <2>2, <2>3, <2>4, <2>5, <2>6, <2>7 DEF TypeOK, Types, Flags, Numbers, QueueTypes
<1> QED
  BY <1>1, ConnectionInvariant, PTL

(***************************************************************************)
(* The byte stream is kept through direct and partial writes, the output   *)
(* buffer and both threads' sends, until makeSpace first moves the data.   *)
(***************************************************************************)
THEOREM StreamStaysInOrder == Spec => []StreamInOrder
<1>1. CInv => StreamInOrder
  BY DEF CInv, Stream
<1> QED
  BY <1>1, ConnectionInvariant, PTL

(***************************************************************************)
(* Bytes in the output buffer of a connection that is up are watched for:  *)
(* no interleaving leaves them behind without EPOLLOUT.                    *)
(***************************************************************************)
THEOREM OutputStaysWatched == Spec => []OutputIsWatched
<1>1. CInv => OutputIsWatched
  BY DEF CInv, OutputIsWatched, Reports, Writing
<1> QED
  BY <1>1, ConnectionInvariant, PTL

(***************************************************************************)
(* A connection that removeConnection took from the server's map has       *)
(* reported its end, and only once unless a late send put its channel back *)
(* (TcpConnection.cc:73 and 222-231, TcpServer.cc:99-112).                 *)
(***************************************************************************)
THEOREM EndStaysReported == Spec => []EndIsReported
<1>1. ASSUME CInv, ~inMap, server = "alive" PROVE downs = 1 \/ (lateSend /\ downs > 1)
  <2>1. downs \in Nat /\ downs > 0
    BY <1>1 DEF CInv, Removing, Reports
  <2>2. CASE lateSend
    BY <2>1, <2>2
  <2>3. CASE ~lateSend
    BY <1>1, <2>1, <2>3 DEF CInv, Reports
  <2> QED
    BY <2>2, <2>3
<1>2. CInv => EndIsReported
  BY <1>1 DEF EndIsReported
<1> QED
  BY <1>2, ConnectionInvariant, PTL

(***************************************************************************)
(* handleClose finds its server.  On a pool's loop because ~TcpServer      *)
(* joins the thread before it returns (Leaving), on the base loop itself   *)
(* because connectionDestroyed leaves the channel no event to be           *)
(* dispatched (Orphaned).                                                  *)
(***************************************************************************)
THEOREM CloseKeepsServer == Spec => []CloseFindsServer
<1>1. ASSUME CInv, pc \in {"close", "error", "read"}, server = "gone" PROVE lateSend
  <2>1. sameLoop
    BY <1>1 DEF CInv, Leaving, LoopGone
  <2> QED
    BY <1>1, <2>1 DEF CInv, Orphaned
<1>2. CInv => CloseFindsServer
  BY <1>1 DEF CloseFindsServer
<1> QED
  BY <1>2, ConnectionInvariant, PTL

(***************************************************************************)
(* Only a shutdown that another thread began before the close stores a     *)
(* state over kDisconnected.                                               *)
(***************************************************************************)
THEOREM OnlyLateShutdown == Spec => OnlyLateShutdownReopens
<1> DEFINE Reopens == state_ = "kDisconnected" /\ state_' # "kDisconnected"
           Late == closer.op = "set"
<1>1. ASSUME CInv, [Next]_vars, Reopens PROVE Late
  <2> USE DEF connVars
  <2>0. /\ Types /\ Numbers /\ QueueTypes /\ Calls /\ Control
    BY <1>1 DEF CInv, Control
  <2>1. CASE ConnectionEstablished
    <3>1. ups = 0
      BY <2>0, <2>1, EstablishStep
    <3> QED
      BY <1>1, <2>0, <3>1 DEF Control, Fresh
  <2>2. CASE UserShutdown
    BY <1>1, <2>2 DEF UserShutdown, MayShutdown
  <2>3. CASE CallerSetState
    BY <2>3 DEF CallerSetState
  <2>4. ASSUME NEW point, handleClose(point) PROVE FALSE
    BY <1>1, <2>4, CloseEffect
  <2>5. ASSUME connectionDestroyed PROVE FALSE
    BY <1>1, <2>5, DestroyEffect
  <2>6. ASSUME NEW point, GoOn(point) PROVE FALSE
    BY <1>1, <2>6 DEF GoOn
  <2>7. CASE DispatchClose \/ DispatchRead \/ UserReturns
    BY <1>1, <2>4, <2>6, <2>7, ReadCases DEF DispatchClose, UserReturns
  <2>8. CASE Poll \/ DispatchError \/ DispatchWrite \/ SwapFunctors \/ EndFunctors
             \/ LeaveLoop
    BY <1>1, <2>8 DEF Poll, DispatchError, DispatchWrite, SwapFunctors, EndFunctors,
                      LeaveLoop
  <2>9. CASE RunOnDeleted \/ RunSend \/ RunShutdown \/ RunCallback \/ RemoveChannel
             \/ \E len \in Lens : UserSend(len)
    BY <1>1, <2>9 DEF RunOnDeleted, RunSend, RunShutdown, RunCallback, RemoveChannel, UserSend
  <2>10. CASE RunDestroyed \/ DestroyServer
    BY <1>1, <2>5, <2>10 DEF RunDestroyed, DestroyServer
  <2>11. CASE CallerShutdown \/ SenderQueues \/ CloserQueues \/ CallerReleases
              \/ \E len \in Lens : CallerSend(len)
    BY <1>1, <2>11 DEF CallerShutdown, SenderQueues, CloserQueues, QueueInLoop,
                       CallerReleases, CallerSend
  <2>12. CASE RunRemoval \/ BaseLoopReleases \/ QuitLoop \/ Join \/ PeerStep
    BY <1>1, <2>12 DEF RunRemoval, BaseLoopReleases, QuitLoop, Join, PeerStep, PeerReceives,
                       PeerSends, PeerCloses, PeerResets
  <2>13. CASE UNCHANGED vars
    BY <1>1, <2>13 DEF vars
  <2> QED
    BY <1>1, <2>1, <2>2, <2>3, <2>7, <2>8, <2>9, <2>10, <2>11, <2>12, <2>13
    DEF Next, LoopStep, UserStep, CallerStep, ServerStep
<1>2. CInv /\ [Next]_vars => [Reopens => Late]_vars
  BY <1>1
<1> QED
  BY <1>2, ConnectionInvariant, PTL DEF Spec, OnlyLateShutdownReopens

-----------------------------------------------------------------------------
(* The connection keeps its promise.                                       *)

\* The peer's part of the stream does not change when the kernel gets more.
LEMMA DeliveredKept ==
    ASSUME WireTypes, UNCHANGED received,
           wire' = wire \/ \E d \in Seq(Byte) : wire' = wire \o d
    PROVE  SubSeq(wire, 1, received)' = SubSeq(wire, 1, received)
<1>1. wire \in Seq(Byte) /\ received \in Nat /\ received <= Len(wire)
  BY DEF WireTypes
<1>2. CASE wire' = wire
  BY <1>2
<1>3. ASSUME NEW d \in Seq(Byte), wire' = wire \o d
      PROVE  SubSeq(wire', 1, received) = SubSeq(wire, 1, received)
  <2>1. /\ Len(wire) \in Nat /\ Len(d) \in Nat /\ wire' \in Seq(Byte)
        /\ \A i \in 1 .. Len(wire) + Len(d) :
            wire'[i] = IF i <= Len(wire) THEN wire[i] ELSE d[i - Len(wire)]
    BY <1>1, <1>3, JoinProperties
  <2>2. \A i \in 1 .. received : wire'[i] = wire[i]
    BY <1>1, <2>1
  <2>3. \A i \in 1 .. received : wire[i] \in Byte
    BY <1>1, ElementOfSeq, LenProperties
  <2>4. /\ SubSeq(wire', 1, received) = [i \in 1 .. received |-> wire'[i]]
        /\ SubSeq(wire, 1, received) = [i \in 1 .. received |-> wire[i]]
    BY <1>1
  <2> QED
    BY <2>2, <2>4
<1> QED
  BY <1>2, <1>3

\* The peer receives the next byte.
LEMMA DeliveredNext ==
    ASSUME WireTypes, received < Len(wire), \A i \in DOMAIN wire : wire[i] = i
    PROVE  /\ Len(SubSeq(wire, 1, received)) = received
           /\ SubSeq(wire, 1, received + 1) = Append(SubSeq(wire, 1, received), received + 1)
<1>1. /\ wire \in Seq(Byte) /\ received \in Nat /\ Len(wire) \in Nat
      /\ DOMAIN wire = 1 .. Len(wire)
  BY LenProperties DEF WireTypes
<1>2. received + 1 \in 1 .. Len(wire) /\ wire[received + 1] = received + 1
  BY <1>1
<1> DEFINE a == SubSeq(wire, 1, received)
           b == SubSeq(wire, 1, received + 1)
<1>3. \A i \in 1 .. received + 1 : wire[i] \in Byte
  BY <1>1, <1>2, ElementOfSeq
<1>4. a \in Seq(Byte) /\ Len(a) = received
  <2>1. \A i \in 1 .. received : wire[i] \in Byte
    BY <1>1, <1>3
  <2>2. a \in Seq(Byte) /\ Len(a) = IF 1 <= received THEN received - 1 + 1 ELSE 0
    BY <1>1, <2>1, SubSeqProperties
  <2> QED
    BY <1>1, <2>2
<1>5. b = Append(a, wire[received + 1])
  <2>1. 1 \in 1 .. Len(wire) /\ received + 1 \in 1 .. Len(wire)
    BY <1>1, <1>2
  <2>2. b = a \o <<wire[received + 1]>>
    BY <1>1, <2>1, SubSeqRecursiveSecond
  <2>3. wire[received + 1] \in Byte
    BY <1>1, <1>2, ElementOfSeq
  <2> HIDE DEF a, b
  <2> QED
    BY <1>4, <2>2, <2>3, AppendIsConcat
<1> QED
  BY <1>2, <1>4, <1>5

\* sendInLoop takes bytes on only while the connection is up.
LEMMA SendAccepts ==
    ASSUME CInv, ups = 1, NEW len \in Nat, NEW q, sendInLoop(len, q), ~lateSend'
    PROVE  /\ UNCHANGED index_
           /\ sent' = sent \/ (downs = 0 /\ sent' = sent + len)
<1> USE DEF channelVars, sentVars
<1>0. Types /\ Flags /\ Control
  BY DEF CInv, Control
<1>1. UNCHANGED index_
  <2>1. ASSUME NEW rest, KeepRest(rest), TakeOn(len) PROVE UNCHANGED index_
    BY <1>0, <2>1, KeepRestChannel
  <2> QED
    BY <2>1, SendEffect
<1>2. CASE UNCHANGED sentVars
  BY <1>1, <1>2
<1>3. CASE TakeOn(len)
  <2>1. ~(downs > 0) /\ sent' = sent + len
    BY <1>3 DEF TakeOn, Over
  <2>2. downs = 0
    BY <1>0, <2>1 DEF Control, Reports
  <2> QED
    BY <1>1, <2>1, <2>2
<1> QED
  BY <1>2, <1>3, SendEffect

\* Every step of the connection is one of its promise, or changes nothing there,
\* unless the output buffer's data has moved or a send has come late.
LEMMA PromiseStep ==
    CInv /\ [Next]_vars => [(~compacted /\ ~lateSend)' => Promise!Next]_(Promise!vars)
<1> SUFFICES ASSUME CInv, ~compacted', ~lateSend', [Next]_vars
             PROVE  Promise!Next \/ UNCHANGED Promise!vars
  OBVIOUS
<1> USE DEF connVars, bufferVars, channelVars, serverVars, callerVars, peerVars, sockVars,
            historyVars, worldVars, loopVars, sentVars
<1> DEFINE delivered == SubSeq(wire, 1, received)
<1>0. /\ Types /\ Flags /\ Numbers /\ QueueTypes /\ BufferIsSound /\ Accounted /\ Calls
      /\ Control /\ Data
  BY DEF CInv, Control, Data
<1>1. /\ ups \in {0, 1} /\ downs \in {0, 1} /\ Reports /\ Dispatching /\ Removing /\ Fresh
      /\ sent \in Nat /\ ~lateSend
  <2>1. ~lateSend
    BY <1>0, GoesOn DEF Onwards
  <2>2. downs \in {0, 1}
    BY <1>0, <2>1 DEF Control, Reports
  <2> QED
    BY <1>0, <2>1, <2>2 DEF Control, Reports, Numbers
<1>2. UNCHANGED received => UNCHANGED delivered
  BY <1>0, DataStep, DeliveredKept DEF Data
<1> HIDE DEF delivered
<1>3. ASSUME UNCHANGED <<ups, downs, sent, received, index_>>,
             (pc = "message") <=> (pc' = "message")
      PROVE  UNCHANGED Promise!vars
  BY <1>2, <1>3 DEF Promise!vars, delivered
<1>4. ASSUME ups' + downs' = ups + downs + 1, ups + downs < 2, UNCHANGED <<sent, received>>,
             pc # "message", pc' # "message", index_ # "kNew" \/ ups = 0, index_' # "kNew"
      PROVE  Promise!Next
  <2>1. ~(index_ = "kNew" /\ ups > 0) /\ ~(index_' = "kNew" /\ ups' > 0)
    BY <1>4
  <2>2. Promise!Report
    BY <1>2, <1>4, <2>1 DEF Promise!Report, delivered
  <2> QED
    BY <2>2 DEF Promise!Next
<1>5. ASSUME NEW point \in {"error", "write"}, handleClose(point), Running,
             \/ pc = "close" /\ "IN" \notin revents_
             \/ pc = "read" /\ point = "write" /\ "IN" \in revents_
      PROVE  Promise!Next
  <2>1. ups = 1 /\ ups' = 1 /\ downs = 0 /\ downs' = 1
    BY <1>0, <1>1, <1>5, CloseStep
  <2>2. index_' = "kAdded" /\ pc' # "message" /\ UNCHANGED <<sent, received>>
    BY <1>5, CloseEffect DEF Update
  <2>3. index_ = "kAdded" /\ pc # "message"
    BY <1>1, <1>5 DEF Dispatching
  <2> QED
    BY <1>4, <2>1, <2>2, <2>3
<1>6. ASSUME connectionDestroyed, pc = "functors", Running
      PROVE  Promise!Next \/ UNCHANGED Promise!vars
  <2>1. pc' = "remove" /\ UNCHANGED <<sent, received, ups>>
    BY <1>6, DestroyEffect
  <2>2. CASE state_ = "kConnected"
    <3>1. SetEvents({}) /\ downs' = downs + 1
      BY <1>6, <2>2, DestroyEffect
    <3>2. ups = 1 /\ downs = 0
      BY <1>1, <2>2 DEF Fresh, Reports
    <3>3. index_ = "kAdded" /\ index_' = "kAdded"
      BY <1>0, <1>1, <2>2, <3>1, <3>2 DEF SetEvents, Update, Removing, Types
    <3> QED
      BY <1>4, <1>6, <2>1, <3>1, <3>2, <3>3
  <2>3. CASE state_ # "kConnected"
    <3>1. UNCHANGED <<index_, downs>>
      BY <1>6, <2>3, DestroyEffect
    <3> QED
      BY <1>3, <1>6, <2>1, <3>1
  <2> QED
    BY <2>2, <2>3
<1>7. ASSUME NEW point, GoOn(point), (pc = "message") <=> (point = "message")
      PROVE  UNCHANGED Promise!vars
  BY <1>3, <1>7 DEF GoOn
<1>8. ASSUME NEW len \in Nat, NEW q, sendInLoop(len, q), ups = 1,
             UNCHANGED <<pc, ups, downs, received>>
      PROVE  Promise!Next \/ UNCHANGED Promise!vars
  <2>1. UNCHANGED index_ /\ (sent' = sent \/ (downs = 0 /\ sent' = sent + len))
    BY <1>8, SendAccepts
  <2>2. CASE sent' = sent
    BY <1>3, <1>8, <2>1, <2>2
  <2>3. CASE downs = 0 /\ sent' = sent + len /\ sent' # sent
    <3>1. sent' \in Nat /\ sent' > sent
      BY <1>1, <2>3
    <3>2. ups + downs = 1
      BY <1>8, <2>3
    <3>3. Promise!Accept
      BY <1>2, <1>8, <2>1, <3>1, <3>2 DEF Promise!Accept, Promise!Up, delivered
    <3> QED
      BY <3>3 DEF Promise!Next
  <2> QED
    BY <2>1, <2>2, <2>3
<1>9. CASE Poll \/ DispatchError \/ SwapFunctors \/ EndFunctors \/ LeaveLoop
  <2>1. UNCHANGED <<ups, downs, sent, received, index_>> /\ pc # "message" /\ pc' # "message"
    BY <1>9 DEF Poll, DispatchError, SwapFunctors, EndFunctors, LeaveLoop, At
  <2> QED
    BY <1>3, <2>1
<1>10. CASE DispatchClose
  BY <1>5, <1>7, <1>10 DEF DispatchClose, At
<1>11. CASE DispatchRead
  <2>1. Running /\ pc = "read"
    BY <1>11, ReadCases
  <2>2. CASE "IN" \in revents_ /\ handleClose("write")
    BY <1>5, <2>1, <2>2
  <2>3. CASE GoOn("write")
    BY <1>7, <2>1, <2>3
  <2>4. CASE pc' = "write" /\ UNCHANGED <<ups, downs, sent, received, index_>>
    BY <1>3, <2>1, <2>4
  <2>5. CASE "IN" \in revents_ /\ pc' = "message"
             /\ UNCHANGED <<ups, downs, sent, received, index_>>
    <3>1. ups = 1 /\ downs = 0 /\ index_ = "kAdded"
      BY <1>1, <2>1, <2>5 DEF Dispatching
    <3>2. ups + downs = 1 /\ ~(index_ = "kNew" /\ ups > 0)
      BY <3>1
    <3>3. Promise!BeginMessage
      BY <1>2, <2>1, <2>5, <3>2 DEF Promise!BeginMessage, Promise!Up, delivered
    <3> QED
      BY <3>3 DEF Promise!Next
  <2> QED
    BY <1>11, <2>2, <2>3, <2>4, <2>5, ReadCases
<1>12. CASE DispatchWrite
  <2>1. /\ pc = "write" /\ pc' = "swap" /\ UNCHANGED <<ups, downs, sent, received>>
        /\ \/ UNCHANGED index_
           \/ isWriting /\ WriteOut(Min({readableBytes(outputBuffer_), Space}))
    BY <1>12, WriteCases
  <2>2. ups = 1 /\ index_ = "kAdded"
    BY <1>1, <2>1 DEF Dispatching
  <2>3. UNCHANGED index_
    BY <1>0, <2>1, <2>2, WriteOutChannel
  <2> QED
    BY <1>3, <2>1, <2>3
<1>13. CASE ConnectionEstablished
  <2>1. ups = 0 /\ ups' = 1
    BY <1>0, <1>13, EstablishStep
  <2>2. pc = "functors" /\ pc' = "user" /\ UNCHANGED <<downs, sent, received>>
        /\ index_' = "kAdded"
    BY <1>13 DEF ConnectionEstablished, NextFunctor, At, SetEvents, Update
  <2>3. downs = 0
    BY <1>1, <2>1 DEF Fresh
  <2> QED
    BY <1>4, <2>1, <2>2, <2>3
<1>14. CASE RunOnDeleted \/ RunShutdown \/ RunCallback
  <2>1. UNCHANGED <<ups, downs, sent, received, index_>> /\ pc = "functors"
        /\ pc' \in {"functors", "user"}
    BY <1>14 DEF RunOnDeleted, RunShutdown, RunCallback, NextFunctor, At
  <2> QED
    BY <1>3, <2>1
<1>15. CASE RunSend
  <2>1. /\ Head(queue).op = "send" /\ Head(queue).len \in Nat /\ pc = "functors"
    BY <1>0, <1>15, CalledFunctor DEF RunSend
  <2>2. ups = 1
    BY <1>1, <2>1 DEF Fresh, LoopGone
  <2>3. sendInLoop(Head(queue).len, Tail(queue)) /\ UNCHANGED <<pc, ups, downs, received>>
    BY <1>15 DEF RunSend
  <2> QED
    BY <1>8, <2>1, <2>2, <2>3
<1>16. ASSUME NEW len \in Lens, UserSend(len) PROVE Promise!Next \/ UNCHANGED Promise!vars
  <2>1. /\ len \in Nat /\ state_ = "kConnected" /\ sendInLoop(len, queue)
        /\ UNCHANGED <<pc, ups, downs, received>>
    BY <1>16, ConnectionAssumption DEF UserSend
  <2>2. ups = 1
    BY <1>1, <2>1 DEF Fresh
  <2> QED
    BY <1>8, <2>1, <2>2
<1>17. CASE RunDestroyed
  BY <1>6, <1>17 DEF RunDestroyed, NextFunctor, At
<1>18. CASE RemoveChannel
  <2>1. pc = "remove" /\ pc' = "user" /\ UNCHANGED <<ups, downs, sent, received>>
        /\ index_' = "kNew"
    BY <1>18 DEF RemoveChannel, removeChannel, At
  <2>2. ups = 1 /\ ups + downs > 0
    BY <1>1, <2>1 DEF Dispatching
  <2>3. index_' = "kNew" /\ ups' > 0
    BY <2>1, <2>2
  <2>4. Promise!Release
    BY <1>2, <2>1, <2>2, <2>3 DEF Promise!Release, delivered
  <2> QED
    BY <2>4 DEF Promise!Next
<1>19. CASE UserReturns
  <2>1. CASE pc # "message"
    BY <1>7, <1>19, <2>1 DEF UserReturns
  <2>2. CASE pc = "message"
    <3>1. pc' = "write" /\ UNCHANGED <<ups, downs, sent, received, index_>>
      BY <1>19, <2>2 DEF UserReturns, GoOn
    <3>2. Promise!EndMessage
      BY <1>2, <2>2, <3>1 DEF Promise!EndMessage, delivered
    <3> QED
      BY <3>2 DEF Promise!Next
  <2> QED
    BY <2>1, <2>2
<1>20. CASE UserShutdown \/ CallerStep \/ CallerShutdown \/ CallerReleases \/ ServerStep
            \/ PeerSends \/ PeerCloses \/ PeerResets \/ \E len \in Lens : CallerSend(len)
  <2>1. UNCHANGED <<ups, downs, sent, received, index_, pc>>
    BY <1>20 DEF UserShutdown, CallerStep, CallerSetState, SenderQueues, CloserQueues,
                 QueueInLoop, CallerShutdown, CallerReleases, ServerStep, RunRemoval,
                 BaseLoopReleases, QuitLoop, Join, PeerSends, PeerCloses, PeerResets, CallerSend
  <2> QED
    BY <1>3, <2>1
<1>21. CASE DestroyServer
  <2>1. \/ UNCHANGED <<ups, downs, sent, received, index_, pc>>
        \/ pc = "functors" /\ connectionDestroyed /\ Running
    BY <1>21 DEF DestroyServer
  <2> QED
    BY <1>3, <1>6, <2>1
<1>22. CASE PeerReceives
  <2>1. /\ received < Len(wire) /\ received' = received + 1
        /\ UNCHANGED <<ups, downs, sent, index_, pc, wire, compacted>>
    BY <1>22 DEF PeerReceives
  <2>2. WireTypes /\ Len(wire) <= sent /\ \A i \in DOMAIN wire : wire[i] = i
    BY <1>0, <2>1 DEF Data, Stream, StreamInOrder
  <2>3. /\ Len(SubSeq(wire, 1, received)) = received
        /\ SubSeq(wire, 1, received + 1) = Append(SubSeq(wire, 1, received), received + 1)
    BY <2>1, <2>2, DeliveredNext
  <2>4. received < sent
    BY <1>0, <1>1, <2>1, <2>2, SpaceType DEF WireTypes
  <2>5. Promise!Deliver
    BY <2>1, <2>3, <2>4 DEF Promise!Deliver
  <2> QED
    BY <2>5 DEF Promise!Next
<1>23. CASE UNCHANGED vars
  BY <1>3, <1>23 DEF vars
<1> QED
  BY <1>9, <1>10, <1>11, <1>12, <1>13, <1>14, <1>15, <1>16, <1>17, <1>18, <1>19, <1>20, <1>21,
     <1>22, <1>23
  DEF Next, LoopStep, UserStep, PeerStep

(***************************************************************************)
(* The connection implements Connection, its user and its peer see what it *)
(* promises, up to the step at which makeSpace first moves the data of the *)
(* output buffer (BufferClient) or sendInLoop first takes bytes on after   *)
(* the end (TcpConnection.cc:73).                                          *)
(***************************************************************************)
THEOREM KeepsItsPromise == Spec => ImplementsConnection
<1>1. Init => Promise!Init
  <2> SUFFICES ASSUME Init PROVE Promise!Init
    OBVIOUS
  <2>1. SubSeq(wire, 1, received) = <<>>
    BY SubSeqEmpty DEF Init
  <2>2. ups + downs = 0 /\ pc # "message" /\ sent = 0 /\ ~(index_ = "kNew" /\ ups > 0)
    BY DEF Init
  <2> QED
    BY <2>1, <2>2 DEF Promise!Init
<1> QED
  BY <1>1, PromiseStep, ConnectionInvariant, PTL DEF Spec, ImplementsConnection

-----------------------------------------------------------------------------
(* The connection uses its poller as the poller requires.                  *)

\* A channel in the poller has an owner, who will remove it.
LEMMA AddedIsOwned ==
    ASSUME inMap \/ pc = "remove" \/ Destroying(queue)
    PROVE  Owned
<1>1. Destroying(queue) => QueueHolds
  BY DEF Destroying, QueueHolds, HoldsConnection, Range
<1> QED
  BY <1>1 DEF Owned

\* setting the events of an owned channel is an operation of the poller.
LEMMA PollerSets ==
    ASSUME NEW ev, Owned, Owned', ended # "fatal", ended' # "fatal",
           index_ \in {"kNew", "kAdded"}, index_ = "kNew" => ~registered,
           ev # {} /\ index_ = "kAdded" => registered,
           events_' = ev, index_' = "kAdded", registered' <=> (index_ = "kNew" \/ ev # {})
    PROVE  Poller!SetEvents("channel", ev)
<1>1. Poller!Usable("channel")
  BY DEF Poller!Usable
<1>2. CASE index_ = "kNew"
  <2>1. Poller!EpollAdd("fd", "channel", ev)
    BY <1>2 DEF Poller!EpollAdd
  <2>2. Poller!updateChannel("channel", ev)
    BY <1>2, <2>1 DEF Poller!updateChannel
  <2> QED
    BY <1>1, <2>2 DEF Poller!SetEvents
<1>3. CASE index_ = "kAdded" /\ ev = {}
  <2>1. Poller!EpollDel("fd")
    BY <1>3 DEF Poller!EpollDel
  <2>2. Poller!updateChannel("channel", ev)
    BY <1>3, <2>1 DEF Poller!updateChannel
  <2> QED
    BY <1>1, <2>2 DEF Poller!SetEvents
<1>4. CASE index_ = "kAdded" /\ ev # {}
  <2>1. Poller!EpollMod("fd", "channel", ev)
    BY <1>4 DEF Poller!EpollMod
  <2>2. Poller!updateChannel("channel", ev)
    BY <1>4, <2>1 DEF Poller!updateChannel
  <2> QED
    BY <1>1, <2>2 DEF Poller!SetEvents
<1> QED
  BY <1>2, <1>3, <1>4

\* removing it is one, too.
LEMMA PollerRemoves ==
    ASSUME Owned, Owned', ended # "fatal", ended' # "fatal",
           index_ \in {"kNew", "kAdded"}, index_ = "kNew" => ~registered,
           index_' = "kNew", registered' = FALSE, UNCHANGED events_
    PROVE  Poller!remove("channel")
<1>1. Poller!Usable("channel")
  BY DEF Poller!Usable
<1>2. CASE index_ = "kNew"
  BY <1>1, <1>2 DEF Poller!remove, Poller!removeChannel
<1>3. CASE index_ = "kAdded"
  <2>1. Poller!DeleteChannel("channel")
    BY <1>3 DEF Poller!DeleteChannel, Poller!EpollDel
  <2> QED
    BY <1>1, <1>3, <2>1 DEF Poller!remove, Poller!removeChannel
<1> QED
  BY <1>2, <1>3

\* The last owner destroys a channel that is out of the poller.
LEMMA PollerDestroys ==
    ASSUME Owned, ~Owned', ended # "fatal", ended' # "fatal",
           index_ = "kNew", ~registered, UNCHANGED <<events_, index_, registered>>
    PROVE  Poller!Destroy("channel")
<1>1. Poller!Usable("channel")
  BY DEF Poller!Usable
<1> QED
  BY <1>1 DEF Poller!Destroy

\* A step that leaves the channel and its owners alone.
LEMMA PollerStutters ==
    ASSUME Owned <=> Owned', ended = "fatal" <=> ended' = "fatal",
           UNCHANGED <<events_, index_, registered>>
    PROVE  UNCHANGED Poller!vars
BY DEF Poller!vars

\* The operations of the channel are steps of the poller.
LEMMA PollerNext ==
    ASSUME \/ Poller!SetEvents("channel", events_ \cup {"R"})
           \/ Poller!SetEvents("channel", events_ \cup {"W"})
           \/ Poller!SetEvents("channel", events_ \cap {"W"})
           \/ Poller!SetEvents("channel", {})
           \/ Poller!remove("channel") \/ Poller!Destroy("channel")
    PROVE  Poller!Next
<1>1. Poller!ChannelStep("channel")
  BY DEF Poller!ChannelStep, Poller!enableReading, Poller!enableWriting, Poller!disableWriting,
         Poller!disableAll, Poller!kReadEvent, Poller!kWriteEvent
<1> QED
  BY <1>1 DEF Poller!Next

\* The functors that hold the connection, by the functors of the queue.
LEMMA HoldsByRange == QueueHolds <=> \E f \in Range(queue) : HoldsConnection(f)
BY DEF QueueHolds, Range

(***************************************************************************)
(* Nothing brings back a connection that nobody owns.                      *)
(***************************************************************************)
LEMMA NotOwnedStep ==
    ASSUME CInv, ~Owned, ~LoopGone, ~lateSend, ~LoopGone', [Next]_vars
    PROVE  ~Owned' /\ UNCHANGED channelVars /\ (ended = "fatal" <=> ended' = "fatal")
<1> USE DEF connVars, channelVars, serverVars, callerVars, historyVars, worldVars, loopVars,
            batchVars, sentVars
<1>1. /\ ~inMap /\ ~(removals > 0) /\ ~baseHolds /\ ~QueueHolds /\ ~batchHolds /\ ~held
      /\ pc \notin {"close", "error", "read", "write", "message", "remove", "user"}
  BY DEF Owned
<1>2. /\ Types /\ QueueTypes /\ Calls /\ Reports /\ Removing
      /\ pc \in {"poll", "swap", "functors"}
  <2>1. Types /\ QueueTypes /\ Calls /\ Reports /\ Removing
    BY DEF CInv
  <2> QED
    BY <1>1, <2>1 DEF Types, ControlPoints, LoopGone
<1>3. Running => index_ = "kNew" /\ ~registered
  <2>1. ~(inMap \/ pc = "remove" \/ Destroying(queue))
    BY AddedIsOwned
  <2>2. Running => index_ # "kAdded"
    BY <1>2, <2>1 DEF Removing
  <2> QED
    BY <1>2, <2>2 DEF Reports, Types
<1>4. ASSUME UNCHANGED <<inMap, removals, baseHolds, held, channelVars>>,
             ~QueueHolds', ~batchHolds', pc' \in {"poll", "swap", "functors"},
             ended' = ended \/ (Running /\ ended' # "fatal")
      PROVE  ~Owned' /\ UNCHANGED channelVars /\ (ended = "fatal" <=> ended' = "fatal")
  BY <1>1, <1>4 DEF Owned, Running
<1>5. UNCHANGED queue => ~QueueHolds'
  BY <1>1 DEF QueueHolds
<1>6. CASE Poll
  <2>1. /\ UNCHANGED <<inMap, removals, baseHolds, held, channelVars, queue, batchHolds, ended>>
        /\ pc' = "swap"
    BY <1>6 DEF Poll
  <2> QED
    BY <1>1, <1>4, <1>5, <2>1
<1>7. CASE SwapFunctors
  <2>1. /\ UNCHANGED <<inMap, removals, baseHolds, held, channelVars, queue, ended>>
        /\ batchHolds' = QueueHolds /\ pc' = "functors"
    BY <1>7 DEF SwapFunctors
  <2>2. ~batchHolds'
    BY <1>1, <2>1, Zenon
  <2> QED
    BY <1>4, <1>5, <2>1, <2>2
<1>8. CASE EndFunctors
  <2>1. /\ UNCHANGED <<inMap, removals, baseHolds, held, channelVars, queue, ended>>
        /\ batchHolds' = FALSE /\ pc' = "poll"
    BY <1>8 DEF EndFunctors
  <2> QED
    BY <1>4, <1>5, <2>1
<1>9. ASSUME NEW op, NextFunctor(op) PROVE op \in {"send", "shutdown"}
  <2>1. Head(queue).op = op /\ Head(queue) \in Range(queue)
    BY <1>2, <1>9, CalledFunctor
  <2>2. ~HoldsConnection(Head(queue))
    BY <1>1, <2>1, HoldsByRange
  <2> QED
    BY <2>1, <2>2 DEF HoldsConnection
<1>10. CASE RunOnDeleted
  <2>1. /\ UNCHANGED <<inMap, removals, baseHolds, held, channelVars, batchHolds, pc>>
        /\ ended' = "undefined" /\ Running /\ pc = "functors" /\ queue' = Tail(queue)
        /\ \E op \in {"send", "shutdown"} : NextFunctor(op)
    BY <1>10 DEF RunOnDeleted, NextFunctor, At
  <2>2. queue # <<>> /\ queue \in Seq(Functors)
    BY <1>2, <2>1, CalledFunctor DEF QueueTypes
  <2>3. Range(queue') \subseteq Range(queue)
    BY <2>1, <2>2, TakeFromQueue
  <2>4. ~QueueHolds'
    <3>1. QueueHolds' <=> \E f \in Range(queue') : HoldsConnection(f)
      BY DEF QueueHolds, Range, HoldsConnection
    <3> QED
      BY <1>1, <2>3, <3>1, HoldsByRange
  <2> QED
    BY <1>1, <1>4, <2>1, <2>4
<1>11. ASSUME RunSend \/ RunShutdown \/ PeerStep PROVE FALSE
  BY <1>11 DEF RunSend, RunShutdown, PeerStep, PeerReceives, PeerSends, PeerCloses, PeerResets
<1>12. ASSUME ConnectionEstablished \/ RunCallback \/ RunDestroyed PROVE FALSE
  BY <1>9, <1>12 DEF ConnectionEstablished, RunCallback, RunDestroyed
<1>13. ASSUME DispatchClose \/ DispatchError \/ DispatchRead \/ DispatchWrite \/ RemoveChannel
             \/ UserReturns \/ UserShutdown \/ \E len \in Lens : UserSend(len)
      PROVE  FALSE
  BY <1>1, <1>13 DEF DispatchClose, DispatchError, DispatchRead, DispatchWrite, RemoveChannel,
                     UserReturns, UserShutdown, UserSend, InUserCode, At
<1>14. ASSUME CallerShutdown \/ CallerReleases \/ CallerStep \/ \E len \in Lens : CallerSend(len)
       PROVE  FALSE
  <2>1. sender.op = "idle" /\ closer.op = "idle"
    BY <1>1, <1>2 DEF Calls, Idle, Functor
  <2> QED
    BY <1>1, <1>14, <2>1 DEF CallerShutdown, CallerReleases, CallerStep, CallerSetState,
                             SenderQueues, CloserQueues, CallerSend
<1>15. CASE ServerStep \/ DestroyServer
  <2>1. UNCHANGED <<inMap, removals, baseHolds, held, channelVars, queue, batchHolds, pc, ended>>
    <3>1. CASE RunRemoval \/ BaseLoopReleases
      BY <1>1, <3>1 DEF RunRemoval, BaseLoopReleases
    <3>2. CASE QuitLoop \/ Join
      BY <3>2 DEF QuitLoop, Join
    <3>3. CASE DestroyServer
      <4>1. inMap = FALSE
        BY <1>1 DEF CInv, Flags
      <4> QED
        BY <3>3, <4>1 DEF DestroyServer
    <3> QED
      BY <1>15, <3>1, <3>2, <3>3 DEF ServerStep
  <2> QED
    BY <1>1, <1>2, <1>4, <1>5, <2>1
<1>17. ASSUME LeaveLoop PROVE FALSE
  BY <1>17 DEF LeaveLoop, LoopGone
<1>16. CASE UNCHANGED vars
  <2>1. ~Owned'
    BY <1>1, <1>5, <1>16 DEF vars, Owned
  <2> QED
    BY <1>16, <2>1 DEF vars
<1> QED
  BY <1>6, <1>7, <1>8, <1>10, <1>11, <1>12, <1>13, <1>14, <1>15, <1>16, <1>17
  DEF Next, LoopStep, UserStep

(***************************************************************************)
(* Every step of the connection is one of its poller: one operation of the *)
(* channel, or its destruction after channel_->remove(), or none; while    *)
(* the loop exists and no send has come late.                              *)
(***************************************************************************)
LEMMA PollerStep ==
    CInv /\ [Next]_vars => [~LoopGone' /\ ~lateSend' => Poller!Next]_(Poller!vars)
<1> SUFFICES ASSUME CInv, [Next]_vars, ~LoopGone', ~lateSend'
             PROVE  Poller!Next \/ UNCHANGED Poller!vars
  OBVIOUS
<1> USE DEF connVars, channelVars, serverVars, callerVars, historyVars, worldVars, loopVars,
            batchVars, sentVars
<1>0. ~LoopGone /\ ~lateSend
  <2>1. Onwards
    BY GoesOn DEF CInv
  <2> QED
    BY <2>1 DEF Onwards, LoopGone
<1>1. CASE ~Owned
  BY <1>0, <1>1, NotOwnedStep, PollerStutters
<1>2. CASE UNCHANGED vars
  <2>1. Owned' <=> Owned
    BY <1>2 DEF vars, Owned, QueueHolds
  <2> QED
    BY <1>2, <2>1, PollerStutters DEF vars
<1> SUFFICES ASSUME Owned, Next PROVE Poller!Next \/ UNCHANGED Poller!vars
  BY <1>1, <1>2
<1>3. /\ Types /\ Flags /\ Numbers /\ QueueTypes /\ BufferIsSound /\ Calls /\ Control
      /\ Reports /\ Dispatching /\ Removing /\ Fresh /\ Leaving
  BY DEF CInv, Control
<1>4. /\ index_ \in {"kNew", "kAdded"}
      /\ index_ = "kNew" => ~registered
      /\ ups \in {0, 1}
  BY <1>3 DEF Types, Reports
<1>5. Running' /\ index_' = "kAdded" => Owned'
  <2>1. Removing'
    BY <1>3, ControlStep DEF Control
  <2>2. Running' /\ index_' = "kAdded" => (inMap \/ pc = "remove" \/ Destroying(queue))'
    BY <2>1 DEF Removing
  <2> SUFFICES ASSUME (inMap \/ pc = "remove" \/ Destroying(queue))' PROVE Owned'
    BY <2>2
  <2>3. Destroying(queue)' => QueueHolds'
    BY DEF Destroying, QueueHolds, HoldsConnection, Range
  <2> QED
    BY <2>3 DEF Owned
<1>6. pc' \in {"close", "error", "read", "write", "message", "remove", "user"} => Owned'
  BY DEF Owned
\* steps that leave the channel alone
<1>7. ASSUME UNCHANGED channelVars, ended # "fatal", ended' # "fatal",
             index_ = "kAdded" => Owned'
      PROVE  Poller!Next \/ UNCHANGED Poller!vars
  <2>1. CASE Owned'
    BY <1>7, <2>1, PollerStutters
  <2>2. CASE ~Owned'
    <3>1. Poller!Destroy("channel")
      BY <1>4, <1>7, <2>2, PollerDestroys
    <3> QED
      BY <3>1, PollerNext
  <2> QED
    BY <2>1, <2>2
<1>8. ASSUME UNCHANGED channelVars, Running, UNCHANGED ended
      PROVE  Poller!Next \/ UNCHANGED Poller!vars
  BY <1>5, <1>7, <1>8 DEF Running
<1>9. ASSUME NEW point \in {"error", "write"}, handleClose(point), Running, index_ = "kAdded"
      PROVE  Poller!Next
  <2>1. events_' = {} /\ index_' = "kAdded" /\ pc' = point /\ ended' \in {ended, "undefined"}
        /\ registered' = (~FatalUpdate({}) /\ (index_ = "kNew" \/ {} # {}))
    BY <1>9, CloseEffect DEF Update
  <2>2. ~registered'
    BY <1>9, <2>1
  <2>3. ended # "fatal" /\ ended' # "fatal"
    BY <1>9, <2>1 DEF Running
  <2>4. Owned'
    BY <1>6, <2>1
  <2>5. Poller!SetEvents("channel", {})
    BY <1>4, <1>9, <2>1, <2>2, <2>3, <2>4, PollerSets
  <2> QED
    BY <2>5, PollerNext
<1>10. ASSUME NEW point, GoOn(point), Running PROVE Poller!Next \/ UNCHANGED Poller!vars
  BY <1>8, <1>10 DEF GoOn
<1>11. CASE Poll \/ DispatchError \/ SwapFunctors \/ EndFunctors
  <2>1. UNCHANGED channelVars /\ Running /\ UNCHANGED ended
    BY <1>11 DEF Poll, DispatchError, SwapFunctors, EndFunctors, At
  <2> QED
    BY <1>8, <2>1
<1>12. CASE DispatchClose
  <2>1. Running /\ pc = "close" /\ index_ = "kAdded"
    BY <1>3, <1>12 DEF DispatchClose, At, Dispatching
  <2> QED
    BY <1>9, <1>10, <1>12, <2>1 DEF DispatchClose
<1>13. CASE DispatchRead
  <2>1. Running /\ pc = "read" /\ index_ = "kAdded"
    BY <1>3, <1>13, ReadCases DEF Dispatching
  <2> QED
    BY <1>8, <1>9, <1>10, <1>13, <2>1, ReadCases
<1>14. CASE DispatchWrite
  <2>1. /\ Running /\ pc = "write" /\ UNCHANGED inMap
        /\ \/ FailedWrite /\ UNCHANGED channelVars /\ UNCHANGED queue
           \/ isWriting /\ WriteOut(Min({readableBytes(outputBuffer_), Space}))
           \/ UNCHANGED channelVars /\ UNCHANGED ended
    BY <1>14, WriteCases
  <2>2. ups = 1 /\ index_ = "kAdded"
    BY <1>3, <2>1 DEF Dispatching
  <2>3. CASE UNCHANGED channelVars /\ UNCHANGED ended
    BY <1>8, <2>1, <2>3
  <2>4. CASE FailedWrite /\ UNCHANGED channelVars /\ UNCHANGED queue
    <3>1. inMap \/ Destroying(queue)
      BY <1>0, <1>3, <2>1, <2>2 DEF Removing
    <3>2. inMap \/ QueueHolds
      BY <3>1 DEF Destroying, QueueHolds, HoldsConnection, Range
    <3>3. Owned'
      BY <2>1, <2>4, <3>2 DEF Owned, QueueHolds
    <3>4. ended # "fatal" /\ ended' # "fatal"
      BY <2>1, <2>4 DEF FailedWrite, Running
    <3> QED
      BY <1>7, <2>4, <3>3, <3>4
  <2>5. CASE isWriting /\ WriteOut(Min({readableBytes(outputBuffer_), Space}))
    <3>1. UNCHANGED <<index_, registered, ended>> /\ registered
      BY <1>0, <1>3, <2>2, <2>5, WriteOutChannel
    <3>2. Owned'
      BY <1>5, <2>1, <2>2, <3>1 DEF Running
    <3>3. CASE UNCHANGED channelVars
      BY <1>8, <2>1, <3>1, <3>3
    <3>4. CASE SetEvents(events_ \cap {"W"})
      <4>1. events_' = events_ \cap {"W"} /\ events_' # {}
        BY <2>5, <3>4 DEF SetEvents, Update, isWriting
      <4>2. Poller!SetEvents("channel", events_ \cap {"W"})
        BY <1>4, <2>1, <2>2, <3>1, <3>2, <4>1, PollerSets DEF Running
      <4> QED
        BY <4>2, PollerNext
    <3> QED
      BY <2>5, <3>3, <3>4, WriteEffect
  <2> QED
    BY <2>1, <2>3, <2>4, <2>5
<1>15. CASE ConnectionEstablished
  <2>1. ups = 0 /\ UNCHANGED ended /\ Running
    BY <1>3, <1>15, EstablishStep, CalledFunctor DEF ConnectionEstablished
  <2>2. index_ = "kNew" /\ ~registered /\ events_ = {}
    BY <1>3, <2>1 DEF Fresh
  <2>3. /\ events_' = events_ \cup {"R"} /\ index_' = "kAdded" /\ pc' = "user"
        /\ registered' = (~FatalUpdate(events_ \cup {"R"})
                          /\ (index_ = "kNew" \/ events_ \cup {"R"} # {}))
    BY <1>15 DEF ConnectionEstablished, SetEvents, Update
  <2>4. registered'
    BY <2>2, <2>3 DEF FatalUpdate
  <2>5. Owned'
    BY <1>6, <2>3
  <2>6. Poller!SetEvents("channel", events_ \cup {"R"})
    BY <2>1, <2>2, <2>3, <2>4, <2>5, PollerSets DEF Running
  <2> QED
    BY <2>6, PollerNext
<1>16. ASSUME RunOnDeleted PROVE FALSE
  BY <1>16 DEF RunOnDeleted
<1>17. CASE RunShutdown \/ RunCallback
  <2>1. UNCHANGED channelVars /\ Running /\ UNCHANGED ended
    BY <1>17 DEF RunShutdown, RunCallback, NextFunctor, At
  <2> QED
    BY <1>8, <2>1
<1>18. ASSUME NEW len \in Nat, NEW q, sendInLoop(len, q), Running, Owned', ups = 1
       PROVE  Poller!Next \/ UNCHANGED Poller!vars
  <2>1. CASE UNCHANGED channelVars /\ ended' \in {ended, "sigpipe"}
    BY <1>7, <1>18, <2>1 DEF Running
  <2>2. ASSUME TakeOn(len), NEW rest, KeepRest(rest)
        PROVE  Poller!Next \/ UNCHANGED Poller!vars
    <3>1. /\ downs = 0 /\ UNCHANGED <<index_, registered>> /\ index_ = "kAdded"
          /\ ended' \in {ended, "undefined"}
      BY <1>3, <1>18, <2>2, KeepRestChannel
    <3>2. ended # "fatal" /\ ended' # "fatal"
      BY <1>18, <3>1 DEF Running
    <3>3. CASE isWriting
      <4>1. UNCHANGED channelVars
        BY <2>2, <3>3, KeepEffect
      <4> QED
        BY <1>7, <1>18, <3>2, <4>1
    <3>4. CASE ~isWriting
      <4>1. events_' = events_ \cup {"W"}
        BY <2>2, <3>4, KeepEffect DEF Update
      <4>2. index_ = "kAdded" /\ registered /\ events_' # {}
        BY <1>3, <1>18, <3>1, <3>4, <4>1 DEF Reports
      <4>3. Poller!SetEvents("channel", events_ \cup {"W"})
        BY <1>18, <3>1, <3>2, <4>1, <4>2, PollerSets
      <4> QED
        BY <4>3, PollerNext
    <3> QED
      BY <3>3, <3>4
  <2> QED
    BY <1>18, <2>1, <2>2, SendEffect
<1>19. CASE RunSend
  <2>1. /\ Head(queue).op = "send" /\ Running
        /\ Head(queue).len \in Nat /\ queue # <<>> /\ Tail(queue) \in Seq(Functors)
        /\ UNCHANGED batchHolds
    BY <1>3, <1>19, CalledFunctor DEF RunSend
  <2>2. /\ sendInLoop(Head(queue).len, Tail(queue))
        /\ UNCHANGED <<pc, inMap, removals, baseHolds, held>>
    BY <1>19 DEF RunSend
  <2>3. ups = 1
    BY <1>0, <1>3, <1>4, <2>1 DEF Fresh
  <2>4. QueueHolds => QueueHolds'
    <3>1. queue' \in Grown(Tail(queue))
      BY <2>1, <2>2, SendEffect DEF Grown, Own
    <3>2. Range(Tail(queue)) \subseteq Range(queue')
      BY <1>3, <2>1, <3>1, GrownQueue
    <3>3. Range(queue) \subseteq {Head(queue)} \cup Range(Tail(queue))
      BY <1>3, <2>1, TakeFromQueue DEF QueueTypes
    <3>4. ~HoldsConnection(Head(queue))
      BY <2>1 DEF HoldsConnection
    <3>5. QueueHolds' <=> \E f \in Range(queue') : HoldsConnection(f)
      BY DEF QueueHolds, Range, HoldsConnection
    <3> QED
      BY <3>2, <3>3, <3>4, <3>5, HoldsByRange
  <2>5. Owned'
    BY <2>1, <2>2, <2>4 DEF Owned
  <2> QED
    BY <1>18, <2>1, <2>2, <2>3, <2>5
<1>20. ASSUME NEW len \in Lens, UserSend(len) PROVE Poller!Next \/ UNCHANGED Poller!vars
  <2>1. /\ len \in Nat /\ state_ = "kConnected" /\ Running /\ sendInLoop(len, queue)
        /\ pc' = pc /\ pc \in {"message", "user"}
    BY <1>20, ConnectionAssumption DEF UserSend, InUserCode, At
  <2>2. ups = 1
    BY <1>3, <1>4, <2>1 DEF Fresh
  <2>3. Owned'
    BY <1>6, <2>1
  <2> QED
    BY <1>18, <2>1, <2>2, <2>3
<1>21. ASSUME connectionDestroyed, Running, ups = 1
       PROVE  Poller!Next \/ UNCHANGED Poller!vars
  <2>1. Owned'
    BY <1>6, <1>21, DestroyEffect
  <2>2. CASE state_ # "kConnected"
    <3>1. UNCHANGED channelVars /\ UNCHANGED ended
      BY <1>21, <2>2, DestroyEffect
    <3> QED
      BY <1>8, <1>21, <3>1
  <2>3. CASE state_ = "kConnected"
    <3>1. index_ = "kAdded"
      BY <1>3, <1>4, <1>21, <2>3 DEF Removing
    <3>2. SetEvents({})
      BY <1>21, <2>3, DestroyEffect
    <3>3. /\ events_' = {} /\ index_' = "kAdded"
          /\ registered' = (~FatalUpdate({}) /\ (index_ = "kNew" \/ {} # {}))
          /\ UNCHANGED ended
      BY <3>2 DEF SetEvents, Update, FatalUpdate
    <3>4. ~registered'
      BY <3>1, <3>3
    <3>5. Poller!SetEvents("channel", {})
      BY <1>21, <2>1, <3>1, <3>3, <3>4, PollerSets DEF Running
    <3> QED
      BY <3>5, PollerNext
  <2> QED
    BY <2>2, <2>3
<1>22. CASE RunDestroyed
  <2>1. Running /\ Head(queue).op = "destroyed" /\ connectionDestroyed
    BY <1>3, <1>22, CalledFunctor DEF RunDestroyed
  <2>2. ups = 1
    <3>1. Head(queue).op # "established"
      BY <2>1
    <3> QED
      BY <1>0, <1>3, <1>4, <3>1 DEF Fresh
  <2> QED
    BY <1>21, <2>1, <2>2
<1>23. CASE RemoveChannel
  <2>1. /\ Running /\ pc' = "user" /\ index_' = "kNew" /\ registered' = FALSE
        /\ UNCHANGED <<events_, ended>>
    BY <1>23 DEF RemoveChannel, removeChannel, At
  <2>2. Owned'
    BY <1>6, <2>1
  <2>3. Poller!remove("channel")
    BY <1>4, <2>1, <2>2, PollerRemoves DEF Running
  <2> QED
    BY <2>3, PollerNext
<1>24. CASE UserReturns
  BY <1>10, <1>24 DEF UserReturns, InUserCode, At
<1>25. CASE UserShutdown \/ CallerStep \/ CallerShutdown \/ CallerReleases \/ BaseLoopReleases
            \/ QuitLoop \/ Join \/ PeerStep \/ \E len \in Lens : CallerSend(len)
  <2>1. UNCHANGED channelVars /\ Running /\ UNCHANGED ended
    BY <1>0, <1>25 DEF UserShutdown, InUserCode, At, CallerStep, CallerSetState, SenderQueues,
                 CloserQueues, QueueInLoop, CallerShutdown, CallerReleases, BaseLoopReleases,
                 CallerSend, QuitLoop, Join, PeerStep, PeerReceives, PeerSends, PeerCloses,
                 PeerResets
  <2> QED
    BY <1>8, <2>1
<1>26. CASE RunRemoval
  <2>1. /\ UNCHANGED channelVars /\ Running /\ baseHolds' = TRUE
        /\ ended' \in {ended, "undefined"}
    BY <1>26 DEF RunRemoval
  <2>2. Owned'
    BY <2>1 DEF Owned
  <2> QED
    BY <1>7, <2>1, <2>2 DEF Running
<1>27. CASE DestroyServer
  <2>1. Running /\ ( \/ UNCHANGED channelVars /\ UNCHANGED ended
                     \/ connectionDestroyed /\ state_ # "kConnecting" )
    BY <1>27 DEF DestroyServer
  <2>2. CASE UNCHANGED channelVars /\ UNCHANGED ended
    BY <1>8, <2>1, <2>2
  <2>3. CASE connectionDestroyed /\ state_ # "kConnecting"
    <3>1. ups = 1
      BY <1>3, <1>4, <2>3 DEF Fresh
    <3> QED
      BY <1>21, <2>1, <2>3, <3>1
  <2> QED
    BY <2>1, <2>2, <2>3
<1>28. ASSUME LeaveLoop PROVE FALSE
  BY <1>28 DEF LeaveLoop, LoopGone
<1> QED
  BY <1>11, <1>12, <1>13, <1>14, <1>15, <1>16, <1>17, <1>19, <1>20, <1>22, <1>23, <1>24, <1>25,
     <1>26, <1>27, <1>28
  DEF Next, LoopStep, UserStep, ServerStep

(***************************************************************************)
(* The connection uses its poller as EPollPoller requires: one operation   *)
(* of the channel at a time, none on a channel that is gone, and the last  *)
(* owner lets go only after channel_->remove(); as long as ~TcpServer has  *)
(* not ended the loop (EventLoopThread.cc:16-24) and no send came late     *)
(* (TcpConnection.cc:73).                                                  *)
(***************************************************************************)
THEOREM UsesItsPoller == Spec => UsesPoller
BY PollerStep, ConnectionInvariant, PTL DEF Spec, UsesPoller

=============================================================================
