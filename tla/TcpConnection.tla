--------------------------- MODULE TcpConnection ---------------------------
(***************************************************************************)
(* TcpConnection.cc with the part of Channel.cc that dispatches its events *)
(* and the part of TcpServer.cc that owns it: one connection, from the     *)
(* moment newConnection has put it into connections_ until its last        *)
(* reference is gone.                                                      *)
(*                                                                         *)
(* Actors: the connection's I/O loop (whose thread also runs the user's    *)
(* callbacks), the server's base loop (the same thread or another one),    *)
(* two user threads that hold a pointer to the connection, one that sends  *)
(* and one that shuts down (and so one that does both, in either order),   *)
(* and the peer behind the kernel's socket.                                *)
(*                                                                         *)
(* The I/O loop is that of EventLoop.tla: poll, dispatch, then the batch   *)
(* of functors that was queued at the swap; its queue is the FIFO that     *)
(* EventLoop.tla is proved to be.  The channel is one of EPollPoller.tla,  *)
(* the output buffer one of Buffer.tla.  What arrives from the peer is     *)
(* only counted; what the user sends is numbered, byte k of the stream is  *)
(* the number k.                                                           *)
(***************************************************************************)
EXTENDS Buffer, FiniteSetsExt

CONSTANTS
    CrossThread,        \* what the other threads may call, sets of "send" and "shutdown"
    Callbacks,          \* the callbacks users have set: "writeComplete", "highWater"
    Lens,               \* lengths of the messages users send
    HighWaterMark,      \* highWaterMark_
    \* for each member of CrossThread
    SndBuf,             \* capacity of the kernel's send buffer
    MaxSent,            \* bound: bytes users ask to send
    MaxIn               \* bound: bytes the peer sends

ASSUME ConnectionAssumption ==
    /\ CrossThread \subseteq SUBSET {"send", "shutdown"}
    /\ Callbacks \subseteq {"writeComplete", "highWater"}
    /\ Lens \subseteq Nat \ {0}
    /\ SndBuf \in [CrossThread -> Nat \ {0}]
    /\ HighWaterMark \in Nat
    /\ MaxSent \in [CrossThread -> Nat]
    /\ MaxIn \in [CrossThread -> Nat]
    /\ \A calls \in CrossThread : 0 .. MaxSent[calls] \subseteq Byte

VARIABLES
    \* TcpConnection and its Channel
    state_,
    outputBuffer_,
    events_,
    index_,
    registered,         \* the kernel's interest list has the channel
    \* the I/O loop
    pc,
    revents_,
    queue,              \* pending functors, oldest first
    batch,              \* how many of them the current batch still has
    batchHolds,         \* the batch, called or not, holds a TcpConnectionPtr
    \* TcpServer and its loop
    sameLoop,           \* the base loop is the I/O loop (no thread pool)
    inMap,              \* connections_ has the connection
    removals,           \* removeConnectionInLoop calls queued on the base loop
    baseHolds,          \* the base loop's batch still holds a TcpConnectionPtr
    server,             \* how far ~TcpServer is
    \* the other threads
    crossing,           \* what they call in this behaviour
    sender,             \* the call of send() under way
    closer,             \* the call of shutdown() under way
    held,               \* they hold a TcpConnectionPtr
    \* the kernel's socket and the peer
    wire,               \* bytes the kernel has accepted
    received,           \* how many of them the peer has received
    wrShut,             \* shutdown(SHUT_WR) was called
    inData,             \* unread bytes in the receive buffer
    peerFin,            \* the peer has closed its side
    reset,              \* a RST has come
    err,                \* the socket's pending error
    \* bounds and histories
    budget,             \* bytes users may still send
    inBudget,           \* bytes the peer may still send
    sent,               \* bytes sendInLoop has taken on
    lateSend,           \* sendInLoop took some on after the connection's end
    compacted,          \* makeSpace has moved the data of outputBuffer_
    ups, downs,         \* connectionCallback_ calls, connected and disconnected
    ended               \* "no", or why the process has no further behaviour

bufferVars == <<outputBuffer_, compacted>>
connVars == <<state_, bufferVars>>
batchVars == <<batch, batchHolds>>
channelVars == <<events_, index_, registered>>
loopVars == <<pc, revents_, queue, batchVars>>
serverVars == <<sameLoop, inMap, removals, baseHolds, server>>
callerVars == <<crossing, sender, closer, held>>
peerVars == <<received, inData, peerFin, reset, inBudget>>
sockVars == <<wire, wrShut, err>>
sentVars == <<sent, lateSend>>
historyVars == <<budget, sentVars, ups, downs, ended>>

\* What most steps of the I/O loop leave alone.
worldVars == <<serverVars, callerVars, peerVars>>

vars == <<connVars, channelVars, loopVars, serverVars, callerVars, peerVars,
          sockVars, historyVars>>

(***************************************************************************)
(* The I/O loop's control points.                                          *)
(*   poll       in epoll_wait                                              *)
(*   close, error, read, write                                             *)
(*              in handleEventWithGuard, before the test of that name      *)
(*   message    in the user's message callback                             *)
(*   swap       after the dispatch, before the swap of the functors        *)
(*   functors   between two functors                                       *)
(*   remove     in connectionDestroyed, before channel_->remove()          *)
(*   user       in a functor that holds the connection, in user code       *)
(*   left       loop() has returned, the EventLoop is destroyed            *)
(***************************************************************************)
ControlPoints ==
    {"poll", "close", "error", "read", "write", "message", "swap", "functors", "remove", "user",
     "left"}

(***************************************************************************)
(* How far ~TcpServer is.                                                  *)
(*   alive      not called                                                 *)
(*   quit       every connection of the map was sent connectionDestroyed;  *)
(*              the pool's destructor is about to quit the I/O loop        *)
(*   join       quit_ is set, the destructor waits for the thread          *)
(*   gone       the destructor has returned                                *)
(***************************************************************************)
ServerPoints == {"alive", "quit", "join", "gone"}

States == {"kConnecting", "kConnected", "kDisconnecting", "kDisconnected"}

\* A functor; len is the length of the message a send has bound.
Functor(op) == [op |-> op, len |-> 0]
Functors == [op : {"idle", "set", "established", "send", "shutdown", "destroyed", "writeComplete",
                  "highWater"},
             len : 0 .. MaxSent[crossing]]

\* The functors that have bound a shared_ptr; send and shutdown bind this.
HoldsConnection(f) == f.op \notin {"send", "shutdown"}

\* The process runs and the I/O loop is at this control point.
Running == ended = "no"
At(point) == Running /\ pc = point

\* The pool's thread has left loop() and destroyed its EventLoop.
LoopGone == pc = "left"

\* quit_ of a pool's loop; the base loop is not the server's to quit.
quit_ == ~sameLoop /\ server \in {"join", "gone"}

QueueHolds == \E i \in DOMAIN queue : HoldsConnection(queue[i])

\* Somebody owns the connection: the server's map, a functor of the base loop
\* or of the I/O loop (the vector of a batch is destroyed after its last call),
\* the guard of handleEvent, the callee's argument, or another thread.
Owned ==
    \/ inMap
    \/ removals > 0 \/ baseHolds
    \/ QueueHolds \/ batchHolds
    \/ pc \in {"close", "error", "read", "write", "message", "remove", "user"}
    \/ held

isWriting == "W" \in events_

\* The connection and its channel as they are constructed.
NewTcpConnection ==
    /\ state_ = "kConnecting"
    /\ outputBuffer_ = NewBuffer /\ compacted = FALSE
    /\ events_ = {} /\ index_ = "kNew" /\ registered = FALSE

\* newConnection has run: the connection is in the map, connectionEstablished
\* is queued on its loop.  (On the base loop itself runInLoop calls it at once;
\* that it is queued there too makes no difference, nothing can happen to the
\* connection before it.)
Init ==
    /\ NewTcpConnection
    /\ pc = "poll" /\ revents_ = {} /\ queue = <<Functor("established")>> /\ batch = 0
    /\ batchHolds = FALSE
    /\ sameLoop \in BOOLEAN
    /\ inMap = TRUE /\ removals = 0 /\ baseHolds = FALSE /\ server = "alive"
    /\ crossing \in CrossThread /\ sender = Functor("idle") /\ closer = Functor("idle")
    /\ held = FALSE
    /\ wire = <<>> /\ received = 0 /\ wrShut = FALSE
    /\ inData = 0 /\ peerFin = FALSE /\ reset = FALSE /\ err = FALSE
    /\ budget = MaxSent[crossing]
    /\ inBudget = MaxIn[crossing]
    /\ sent = 0 /\ lateSend = FALSE /\ ups = 0 /\ downs = 0 /\ ended = "no"

-----------------------------------------------------------------------------
(* The channel, as in EPollPoller: a registered fd is modified, one that   *)
(* was never added is added, and modifying one the kernel does not have is *)
(* fatal.                                                                  *)

\* epoll_ctl(MOD) of an fd the kernel does not have.
FatalUpdate(events) == index_ = "kAdded" /\ events # {} /\ ~registered

Update(events) ==
    /\ events_' = events
    /\ index_' = "kAdded"
    /\ registered' = (~FatalUpdate(events) /\ (index_ = "kNew" \/ events # {}))

SetEvents(events) ==
    /\ Update(events)
    /\ ended' = IF FatalUpdate(events) THEN "fatal" ELSE ended

\* Mutant: the channel is not removed.
MutantRemoveChannel == UNCHANGED <<index_, registered>>

removeChannel == index_' = "kNew" /\ registered' = FALSE

\* Channel::disableWriting, events_ &= kWriteEvent.
AfterDisableWriting(events) == events \cap {"W"}

-----------------------------------------------------------------------------
(* sendInLoop, shutdownInLoop, handleClose: the parts of the connection    *)
(* that several callers reach.                                             *)

\* Room in the kernel's send buffer.
Space == SndBuf[crossing] - (Len(wire) - received)

\* write() fails: with the pending error, which it takes, or with EPIPE and the
\* signal, which nothing in the program catches or ignores.
WriteFails == reset \/ wrShut
FailedWrite ==
    /\ err' = FALSE
    /\ ended' = IF err THEN ended ELSE "sigpipe"

\* outputBuffer_.append.
AppendRest(rest) ==
    /\ outputBuffer_' = append(outputBuffer_, rest)
    /\ compacted' = (compacted \/ Compacts(outputBuffer_, Len(rest)))

\* Mutant: the rest is kept, and nobody asks for EPOLLOUT.
MutantKeepUnwatched(rest) ==
    /\ AppendRest(rest)
    /\ UNCHANGED <<channelVars, ended>>

\* outputBuffer_.append, which may overrun the vector once its data was moved,
\* and enableWriting if need be.
KeepRest(rest) ==
    /\ AppendRest(rest)
    /\ IF isWriting THEN UNCHANGED channelVars ELSE Update(events_ \cup {"W"})
    /\ ended' = IF ~outputBuffer_'.intact THEN "undefined"
                ELSE IF ~isWriting /\ FatalUpdate(events_ \cup {"W"}) THEN "fatal" ELSE ended

\* queueInLoop of a callback, if the user has set it; q is the queue before.
QueueCallback(q, callback) ==
    IF callback \in Callbacks THEN Append(q, Functor(callback)) ELSE q

\* highWaterMarkCallback_ is due when the rest crosses the mark.
CrossesMark(oldlen, remaining) ==
    oldlen + remaining >= HighWaterMark /\ oldlen < HighWaterMark

\* Mutant: a write is tried although older bytes are waiting.
MutantDirect == TRUE

\* Nothing is waiting to be written, the message may go straight to the kernel.
Direct == ~isWriting /\ readableBytes(outputBuffer_) = 0

\* What a write() that does not fail for good takes of a message: what there is
\* room for, or nothing (EINTR, ENOBUFS and the like are logged, the data kept).
Written(len) == IF Direct THEN {0, Min({len, Space})} ELSE {0}

\* The end was reported, or the channel removed: nobody expects bytes any more.
Over == downs > 0 \/ (ups > 0 /\ index_ = "kNew")

\* The connection takes on len bytes more.
TakeOn(len) ==
    /\ sent' = sent + len
    /\ lateSend' = (lateSend \/ Over)

\* sendInLoop of the next len bytes of the stream; q is the loop's queue without
\* the functor that is being called, if one is.
sendInLoop(len, q) ==
    LET message == [i \in 1 .. len |-> sent + i]
        oldlen  == readableBytes(outputBuffer_)
    IN  \/ /\ state_ = "kDisconnected"
           /\ queue' = q
           /\ UNCHANGED <<bufferVars, channelVars, sockVars, sentVars, ended>>
        \/ /\ state_ # "kDisconnected"
           /\ Direct /\ WriteFails
           /\ FailedWrite
           /\ TakeOn(len)
           /\ queue' = q
           /\ UNCHANGED <<bufferVars, channelVars, wire, wrShut>>
        \/ /\ state_ # "kDisconnected"
           /\ ~(Direct /\ WriteFails)
           /\ \E nwrote \in Written(len) :
                /\ wire' = wire \o SubSeq(message, 1, nwrote)
                /\ IF nwrote = len
                   THEN /\ queue' = QueueCallback(q, "writeComplete")
                        /\ UNCHANGED <<bufferVars, channelVars, ended>>
                   ELSE /\ queue' = IF CrossesMark(oldlen, len - nwrote)
                                    THEN QueueCallback(q, "highWater") ELSE q
                        /\ KeepRest(SubSeq(message, nwrote + 1, len))
           /\ TakeOn(len)
           /\ UNCHANGED <<wrShut, err>>

\* Socket::shutdownWrite.
shutdownWrite == wrShut' = TRUE

\* The write end is closed unless the channel is writing.
shutdownInLoop(events) == IF "W" \in events THEN UNCHANGED wrShut ELSE shutdownWrite

\* Mutant: the connection is erased and nothing is asked of its loop.
MutantRemoveConnectionInLoop == inMap' = FALSE /\ UNCHANGED queue

\* connections_.erase, and connectionDestroyed is queued.
removeConnectionInLoop ==
    /\ inMap' = FALSE
    /\ queue' = Append(queue, Functor("destroyed"))

\* TcpServer::removeConnection, bound to the server's this: on the base loop's
\* own thread removeConnectionInLoop runs at once, on another it is queued.  (The
\* pointer to the base loop is good until the destructor returns.)
removeConnection ==
    /\ ended' = IF server = "gone" THEN "undefined" ELSE ended
    /\ IF sameLoop
       THEN removeConnectionInLoop /\ UNCHANGED removals
       ELSE removals' = removals + 1 /\ UNCHANGED <<inMap, queue>>

\* setState(kDisconnected), disableAll, connectionCallback_, closeCallback_,
\* which is removeConnection.  pcAfter is where the dispatch goes on.
handleClose(pcAfter) ==
    /\ state_' = "kDisconnected"
    /\ downs' = downs + 1
    /\ pc' = pcAfter
    /\ Update({})
    /\ removeConnection
    /\ UNCHANGED <<bufferVars, revents_, batchVars, sameLoop, baseHolds, server,
                   callerVars, peerVars, sockVars, budget, sentVars, ups>>

-----------------------------------------------------------------------------
(* The I/O loop: poll and Channel::handleEvent.                            *)

\* What epoll_wait reports of this socket: the conditions that hold, as far as
\* the channel is interested; EPOLLHUP and EPOLLERR always.
ReadyEvents ==
    {e \in {"IN", "OUT", "HUP", "ERR"} :
        \/ e = "IN"  /\ "R" \in events_ /\ (inData > 0 \/ peerFin \/ reset)
        \/ e = "OUT" /\ "W" \in events_ /\ (Space > 0 \/ wrShut \/ reset)
        \/ e = "HUP" /\ (reset \/ (wrShut /\ peerFin))
        \/ e = "ERR" /\ err}

\* epoll_wait returns; handleEvent locks tie_ before it looks at revents_.  The
\* socket of a connection nobody owns is closed, and no longer in the kernel's list.
Poll ==
    /\ At("poll")
    /\ IF registered /\ Owned /\ ReadyEvents # {}
       THEN revents_' = ReadyEvents /\ pc' = "close"
       ELSE revents_' = {} /\ pc' = "swap"
    /\ UNCHANGED <<connVars, channelVars, queue, batchVars, worldVars, sockVars, historyVars>>

GoOn(to) ==
    /\ pc' = to
    /\ UNCHANGED <<connVars, channelVars, revents_, queue, batchVars, worldVars, sockVars,
                   historyVars>>

DispatchClose ==
    /\ At("close")
    /\ IF "HUP" \in revents_ /\ "IN" \notin revents_
       THEN handleClose("error")
       ELSE GoOn("error")

\* handleError asks for SO_ERROR, which takes the pending error.
DispatchError ==
    /\ At("error")
    /\ pc' = "read"
    /\ err' = (err /\ "ERR" \notin revents_)
    /\ UNCHANGED <<connVars, channelVars, revents_, queue, batchVars, worldVars, wire, wrShut,
                   historyVars>>

\* handleRead: data for the message callback, the pending error, or the end of
\* the stream.
DispatchRead ==
    /\ At("read")
    /\ \/ /\ "IN" \in revents_ /\ inData > 0
          /\ inData' = 0
          /\ pc' = "message"
          /\ UNCHANGED <<connVars, channelVars, revents_, queue, batchVars, serverVars,
                         callerVars, received, peerFin, reset, inBudget, sockVars, historyVars>>
       \/ /\ "IN" \in revents_ /\ inData = 0 /\ err
          /\ err' = FALSE
          /\ pc' = "write"
          /\ UNCHANGED <<connVars, channelVars, revents_, queue, batchVars, worldVars, wire,
                         wrShut, historyVars>>
       \/ /\ "IN" \in revents_ /\ inData = 0 /\ ~err
          /\ handleClose("write")
       \/ /\ "IN" \notin revents_
          /\ GoOn("write")

\* Mutant: a full drain is taken for granted.
MutantRetrieveSent(n) == retrieveAll(outputBuffer_)

\* outputBuffer_.retrieve(n).
RetrieveSent(n) == retrieve(outputBuffer_, n)

\* handleWrite, when the channel is writing and write() does not fail: the
\* kernel takes n bytes, and after the last one disableWriting, the callback
\* and a shutdown that was waiting.  (A write() that takes nothing for another
\* reason changes nothing and is repeated in the next round.)
WriteOut(n) ==
    LET out == Readable(outputBuffer_)
        rest == RetrieveSent(n)
        events == AfterDisableWriting(events_)
    IN  /\ wire' = wire \o SubSeq(out, 1, n)
        /\ outputBuffer_' = IF n > 0 THEN rest ELSE outputBuffer_
        /\ UNCHANGED compacted
        /\ IF n > 0 /\ readableBytes(rest) = 0
           THEN /\ SetEvents(events)
                /\ queue' = QueueCallback(queue, "writeComplete")
                /\ IF state_ = "kDisconnecting" THEN shutdownInLoop(events) ELSE UNCHANGED wrShut
           ELSE UNCHANGED <<channelVars, queue, wrShut, ended>>
        /\ UNCHANGED err

\* The last test of the dispatch; revents_ is not looked at again.
DispatchWrite ==
    /\ At("write")
    /\ pc' = "swap" /\ revents_' = {}
    /\ IF "OUT" \in revents_ /\ isWriting
       THEN \/ /\ WriteFails
               /\ FailedWrite
               /\ UNCHANGED <<bufferVars, channelVars, queue, wire, wrShut>>
            \/ /\ ~WriteFails
               /\ WriteOut(Min({readableBytes(outputBuffer_), Space}))
       ELSE UNCHANGED <<bufferVars, channelVars, queue, sockVars, ended>>
    /\ UNCHANGED <<state_, batchVars, worldVars, budget, sentVars, ups, downs>>

-----------------------------------------------------------------------------
(* The I/O loop: the functors.                                             *)

\* Mutant: one call too many.
MutantBatchSize == Len(queue) + 1

\* functors.swap(pendingFunctors_).
BatchSize == Len(queue)

SwapFunctors ==
    /\ At("swap")
    /\ batch' = BatchSize
    /\ batchHolds' = QueueHolds
    /\ pc' = "functors"
    /\ UNCHANGED <<connVars, channelVars, revents_, queue, worldVars, sockVars, historyVars>>

\* The batch is done, its vector is destroyed; while(!quit_) goes round again.
EndFunctors ==
    /\ At("functors")
    /\ batch = 0 /\ ~quit_
    /\ batchHolds' = FALSE
    /\ pc' = "poll"
    /\ UNCHANGED <<connVars, channelVars, revents_, queue, batch, worldVars, sockVars,
                   historyVars>>

\* The batch is done, and the loop was told to quit: loop() returns, and threadFunc
\* destroys the EventLoop with whatever is still queued.
LeaveLoop ==
    /\ At("functors")
    /\ batch = 0 /\ quit_
    /\ batchHolds' = FALSE
    /\ queue' = <<>>
    /\ pc' = "left"
    /\ UNCHANGED <<connVars, channelVars, revents_, batch, worldVars, sockVars, historyVars>>

\* The next functor of the batch is this one.
NextFunctor(op) ==
    /\ At("functors")
    /\ batch > 0
    /\ Head(queue).op = op
    /\ batch' = batch - 1
    /\ UNCHANGED batchHolds

\* connectionEstablished: the user's callback gets the pointer, and the other
\* threads may be given it.
ConnectionEstablished ==
    /\ NextFunctor("established")
    /\ queue' = Tail(queue)
    /\ state_' = "kConnected"
    /\ SetEvents(events_ \cup {"R"})
    /\ ups' = ups + 1
    /\ held' = (crossing # {})
    /\ pc' = "user"
    /\ UNCHANGED <<bufferVars, revents_, serverVars, crossing, sender, closer, peerVars,
                   sockVars, budget, sentVars, downs>>

\* A functor that has bound this is called after the connection was deleted.
RunOnDeleted ==
    /\ \E op \in {"send", "shutdown"} : NextFunctor(op)
    /\ ~Owned
    /\ ended' = "undefined"
    /\ queue' = Tail(queue)
    /\ UNCHANGED <<connVars, channelVars, pc, revents_, worldVars, sockVars, budget, sentVars, ups,
                   downs>>

RunSend ==
    /\ NextFunctor("send")
    /\ Owned
    /\ sendInLoop(Head(queue).len, Tail(queue))
    /\ UNCHANGED <<state_, pc, revents_, worldVars, budget, ups, downs>>

RunShutdown ==
    /\ NextFunctor("shutdown")
    /\ Owned
    /\ queue' = Tail(queue)
    /\ shutdownInLoop(events_)
    /\ UNCHANGED <<connVars, channelVars, pc, revents_, worldVars, wire, err, historyVars>>

\* writeCompleteCallback_ and highWaterMarkCallback_ are user code.
RunCallback ==
    /\ NextFunctor("writeComplete") \/ NextFunctor("highWater")
    /\ queue' = Tail(queue)
    /\ pc' = "user"
    /\ UNCHANGED <<connVars, channelVars, revents_, worldVars, sockVars, historyVars>>

\* Mutant: the end is reported once more.
MutantEndUnreported == TRUE

\* The test of connectionDestroyed.
EndUnreported == state_ = "kConnected"

\* connectionDestroyed, up to channel_->remove().
connectionDestroyed ==
    /\ pc' = "remove"
    /\ IF EndUnreported
       THEN /\ state_' = "kDisconnected"
            /\ SetEvents({})
            /\ downs' = downs + 1
       ELSE UNCHANGED <<state_, channelVars, ended, downs>>
    /\ UNCHANGED <<bufferVars, revents_, callerVars, peerVars, sockVars, budget, sentVars, ups>>

RunDestroyed ==
    /\ NextFunctor("destroyed")
    /\ queue' = Tail(queue)
    /\ connectionDestroyed
    /\ UNCHANGED serverVars

\* channel_->remove(), the end of connectionDestroyed.
RemoveChannel ==
    /\ At("remove")
    /\ pc' = "user"
    /\ removeChannel
    /\ UNCHANGED <<connVars, events_, revents_, queue, batchVars, worldVars, sockVars,
                   historyVars>>

-----------------------------------------------------------------------------
(* User code on the I/O loop's thread.                                     *)

\* Mutant: shutdown does not ask for the state.
MutantMayShutdown == TRUE

\* The test of shutdown.
MayShutdown == state_ = "kConnected"

InUserCode == At("message") \/ At("user")

\* conn->send: sendInLoop at once.
UserSend(len) ==
    /\ InUserCode
    /\ state_ = "kConnected"
    /\ len <= budget
    /\ budget' = budget - len
    /\ sendInLoop(len, queue)
    /\ UNCHANGED <<state_, pc, revents_, batchVars, worldVars, ups, downs>>

\* conn->shutdown: shutdownInLoop at once.
UserShutdown ==
    /\ InUserCode
    /\ MayShutdown
    /\ state_' = "kDisconnecting"
    /\ shutdownInLoop(events_)
    /\ UNCHANGED <<bufferVars, channelVars, loopVars, worldVars, wire, err, historyVars>>

\* A callback returns; after the message callback the dispatch goes on, after a
\* functor its shared_ptr is released.
UserReturns ==
    /\ InUserCode
    /\ GoOn(IF pc = "message" THEN "write" ELSE "functors")

-----------------------------------------------------------------------------
(* The other threads: each operation tests state_ first and acts later.    *)

Idle == Functor("idle")

\* send has seen kConnected.
CallerSend(len) ==
    /\ "send" \in crossing
    /\ Running /\ held /\ sender = Idle
    /\ state_ = "kConnected"
    /\ len <= budget
    /\ budget' = budget - len
    /\ sender' = [op |-> "send", len |-> len]
    /\ UNCHANGED <<connVars, channelVars, loopVars, serverVars, crossing, closer, held,
                   peerVars, sockVars, sentVars, ups, downs, ended>>

\* shutdown has seen kConnected.
CallerShutdown ==
    /\ "shutdown" \in crossing
    /\ Running /\ held /\ closer = Idle
    /\ MayShutdown
    /\ closer' = Functor("set")
    /\ UNCHANGED <<connVars, channelVars, loopVars, serverVars, crossing, sender, held,
                   peerVars, sockVars, historyVars>>

\* shutdown stores kDisconnecting.
CallerSetState ==
    /\ Running /\ closer.op = "set"
    /\ state_' = "kDisconnecting"
    /\ closer' = Functor("shutdown")
    /\ UNCHANGED <<bufferVars, channelVars, loopVars, serverVars, crossing, sender, held, peerVars,
                   sockVars, historyVars>>

\* runInLoop queues the functor, on a loop that had better exist.
QueueInLoop(f) ==
    /\ queue' = IF LoopGone THEN queue ELSE Append(queue, f)
    /\ ended' = IF LoopGone THEN "undefined" ELSE ended
    /\ UNCHANGED <<connVars, channelVars, pc, revents_, batchVars, serverVars, crossing, held,
                   peerVars, sockVars, budget, sentVars, ups, downs>>

SenderQueues ==
    /\ Running /\ sender.op = "send"
    /\ QueueInLoop(sender)
    /\ sender' = Idle
    /\ UNCHANGED closer

CloserQueues ==
    /\ Running /\ closer.op = "shutdown"
    /\ QueueInLoop(closer)
    /\ closer' = Idle
    /\ UNCHANGED sender

CallerReleases ==
    /\ Running /\ held /\ sender = Idle /\ closer = Idle
    /\ held' = FALSE
    /\ UNCHANGED <<connVars, channelVars, loopVars, serverVars, crossing, sender, closer,
                   peerVars, sockVars, historyVars>>

CallerStep == CallerSetState \/ SenderQueues \/ CloserQueues

-----------------------------------------------------------------------------
(* The server on its own loop.                                             *)

\* The base loop's thread is not inside the destructor.
BaseLoopRuns == server \in {"alive", "gone"}

\* removeConnectionInLoop, queued by a close on another thread.
RunRemoval ==
    /\ Running /\ BaseLoopRuns /\ removals > 0
    /\ removals' = removals - 1
    /\ baseHolds' = TRUE
    /\ IF server = "gone"
       THEN ended' = "undefined" /\ UNCHANGED <<inMap, queue>>
       ELSE removeConnectionInLoop /\ UNCHANGED ended
    /\ UNCHANGED <<connVars, channelVars, pc, revents_, batchVars, sameLoop, server,
                   callerVars, peerVars, sockVars, budget, sentVars, ups, downs>>

\* The base loop's batch is done, its vector is destroyed.
BaseLoopReleases ==
    /\ Running /\ BaseLoopRuns /\ baseHolds
    /\ baseHolds' = FALSE
    /\ UNCHANGED <<connVars, channelVars, loopVars, sameLoop, inMap, removals, server,
                   callerVars, peerVars, sockVars, historyVars>>

\* The body of ~TcpServer: if the map has the connection it is taken out and
\* connectionDestroyed is queued on its loop or, when the destructor is called
\* from a functor of the I/O loop itself, called at once.  There is no pool then,
\* and nothing more to destroy.
DestroyServer ==
    /\ Running /\ server = "alive"
    /\ inMap' = FALSE
    /\ UNCHANGED <<batchVars, sameLoop, removals, baseHolds>>
    /\ \/ /\ ~sameLoop
          /\ server' = "quit"
          /\ queue' = IF inMap THEN Append(queue, Functor("destroyed")) ELSE queue
          /\ UNCHANGED <<connVars, channelVars, pc, revents_, callerVars, peerVars, sockVars,
                         historyVars>>
       \/ /\ sameLoop
          /\ pc = "functors" /\ state_ # "kConnecting"
          /\ server' = "gone"
          /\ IF inMap THEN connectionDestroyed
             ELSE UNCHANGED <<connVars, channelVars, pc, revents_, callerVars, peerVars, sockVars,
                              historyVars>>
          /\ UNCHANGED queue

\* ~EventLoopThread: the I/O loop is told to quit.
QuitLoop ==
    /\ Running /\ server = "quit"
    /\ server' = "join"
    /\ UNCHANGED <<connVars, channelVars, loopVars, sameLoop, inMap, removals, baseHolds,
                   callerVars, peerVars, sockVars, historyVars>>

\* Mutant: the destructor does not wait for the thread.
MutantJoinReturns == TRUE

\* thread_.join() returns when the thread has ended.
JoinReturns == LoopGone

Join ==
    /\ Running /\ server = "join"
    /\ JoinReturns
    /\ server' = "gone"
    /\ UNCHANGED <<connVars, channelVars, loopVars, sameLoop, inMap, removals, baseHolds,
                   callerVars, peerVars, sockVars, historyVars>>

ServerStep == RunRemoval \/ BaseLoopReleases \/ QuitLoop \/ Join

-----------------------------------------------------------------------------
(* The peer and the network.                                               *)

PeerReceives ==
    /\ Running /\ Owned /\ ~reset
    /\ received < Len(wire)
    /\ received' = received + 1
    /\ UNCHANGED <<connVars, channelVars, loopVars, serverVars, callerVars, inData, peerFin,
                   reset, inBudget, sockVars, historyVars>>

PeerSends ==
    /\ Running /\ Owned /\ ~reset /\ ~peerFin
    /\ inBudget > 0
    /\ inBudget' = inBudget - 1
    /\ inData' = inData + 1
    /\ UNCHANGED <<connVars, channelVars, loopVars, serverVars, callerVars, received, peerFin,
                   reset, sockVars, historyVars>>

PeerCloses ==
    /\ Running /\ Owned /\ ~reset /\ ~peerFin
    /\ peerFin' = TRUE
    /\ UNCHANGED <<connVars, channelVars, loopVars, serverVars, callerVars, received, inData,
                   reset, inBudget, sockVars, historyVars>>

PeerResets ==
    /\ Running /\ Owned /\ ~reset
    /\ reset' = TRUE
    /\ err' = TRUE
    /\ UNCHANGED <<connVars, channelVars, loopVars, serverVars, callerVars, received, inData,
                   peerFin, inBudget, wire, wrShut, historyVars>>

-----------------------------------------------------------------------------
\* The steps the I/O loop takes by itself.
LoopStep ==
    \/ Poll
    \/ DispatchClose
    \/ DispatchError
    \/ DispatchRead
    \/ DispatchWrite
    \/ SwapFunctors
    \/ EndFunctors
    \/ LeaveLoop
    \/ ConnectionEstablished
    \/ RunOnDeleted
    \/ RunSend
    \/ RunShutdown
    \/ RunCallback
    \/ RunDestroyed
    \/ RemoveChannel
    \/ UserReturns

\* What users may do, and need not.
UserStep ==
    \/ \E len \in Lens : UserSend(len) \/ CallerSend(len)
    \/ UserShutdown
    \/ CallerShutdown
    \/ CallerReleases
    \/ DestroyServer

PeerStep == PeerReceives \/ PeerSends \/ PeerCloses \/ PeerResets

Next ==
    \/ LoopStep
    \/ UserStep
    \/ CallerStep
    \/ ServerStep
    \/ PeerStep

Spec == Init /\ [][Next]_vars

(***************************************************************************)
(* Fairness: the loops keep running (epoll_wait returns when an event is   *)
(* ready or a functor is queued, callbacks return) until they are told to  *)
(* quit, and a thread inside an operation completes it: each of the        *)
(* threads does, and it is enough that some thread that can go on does.    *)
(* Users and the peer need not do anything.                                *)
(***************************************************************************)
FairSpec ==
    /\ Spec
    /\ WF_vars(LoopStep)
    /\ WF_vars(ServerStep \/ CallerStep)

\* The same with a peer that goes on receiving.
ReceivingSpec == FairSpec /\ WF_vars(PeerReceives)

-----------------------------------------------------------------------------
(* Properties.                                                             *)

\* The types of the connection's, the loop's and the kernel's state.
TypeOK ==
    /\ state_ \in States
    /\ outputBuffer_ \in [mem : Seq(Byte), readerIndex_ : Nat, writerIndex_ : Nat,
                          intact : BOOLEAN]
    /\ compacted \in BOOLEAN /\ (Running => outputBuffer_.intact)
    /\ events_ \subseteq {"R", "W"} /\ index_ \in {"kNew", "kAdded"} /\ registered \in BOOLEAN
    /\ pc \in ControlPoints /\ revents_ \subseteq {"IN", "OUT", "HUP", "ERR"}
    /\ \A i \in DOMAIN queue : queue[i] \in Functors
    /\ batch \in 0 .. Len(queue)
    /\ sameLoop \in BOOLEAN /\ inMap \in BOOLEAN /\ server \in ServerPoints
    /\ removals \in Nat /\ baseHolds \in BOOLEAN /\ batchHolds \in BOOLEAN
    /\ crossing \in CrossThread /\ sender \in Functors /\ closer \in Functors
    /\ held \in BOOLEAN /\ lateSend \in BOOLEAN
    /\ Space \in 0 .. SndBuf[crossing]
    /\ wrShut \in BOOLEAN /\ peerFin \in BOOLEAN /\ reset \in BOOLEAN /\ err \in BOOLEAN
    /\ inData \in 0 .. MaxIn[crossing] /\ inBudget \in 0 .. MaxIn[crossing]
    /\ sent \in 0 .. MaxSent[crossing] /\ budget \in 0 .. MaxSent[crossing]
    /\ ups \in Nat /\ downs \in Nat
    /\ ended \in {"no", "sigpipe", "fatal", "undefined"}

(***************************************************************************)
(* The byte stream is kept: what the kernel was given is the beginning of  *)
(* what users sent, in order and without gaps, through direct writes,      *)
(* partial writes, the output buffer and both threads' sends; and unless   *)
(* the connection was reset, all the rest is in the output buffer.  So it  *)
(* is until makeSpace first moves the data (BufferClient shows why).       *)
(***************************************************************************)
StreamInOrder ==
    ~compacted =>
        /\ \A i \in DOMAIN wire : wire[i] = i
        /\ Running /\ ~reset =>
            wire \o Readable(outputBuffer_) = [i \in 1 .. sent |-> i]

(***************************************************************************)
(* Output never gets stuck in the buffer: from the report that the         *)
(* connection is up to the report that it is down, or to its removal,      *)
(* bytes in outputBuffer_ mean that the kernel watches for EPOLLOUT.       *)
(***************************************************************************)
OutputIsWatched ==
    Running /\ ups = 1 /\ downs = 0 /\ index_ = "kAdded" /\ readableBytes(outputBuffer_) > 0
        => isWriting /\ registered

(***************************************************************************)
(* The connection keeps its promise to the user and to the peer            *)
(* (Connection.tla), whichever threads send and shut down, whatever the    *)
(* peer does and whenever the server lets go: up is reported before any    *)
(* message, down at most once and never during one, nothing is taken on    *)
(* outside, and the peer receives what was taken on without a gap, a       *)
(* repetition or a change of order.  It keeps it until makeSpace first     *)
(* moves data, or until a late send: one that another thread had on its    *)
(* way when the connection ended, and that sendInLoop takes on because a   *)
(* shutdown() has kept or put kDisconnecting where it looks for            *)
(* kDisconnected.                                                          *)
(***************************************************************************)
Promise == INSTANCE Connection
    WITH reports <- ups + downs,
         talking <- pc = "message",
         accepted <- sent,
         delivered <- SubSeq(wire, 1, received),
         released <- index_ = "kNew" /\ ups > 0
ImplementsConnection ==
    Promise!Init /\ [][(~compacted /\ ~lateSend)' => Promise!Next]_(Promise!vars)

(***************************************************************************)
(* A connection that the server has let go through removeConnection has    *)
(* reported its end: the user never loses one silently, whichever of the   *)
(* handlers closed it and whichever loop erased it; nor is it told twice,  *)
(* unless a late send has put its channel back.  (When the server is       *)
(* destroyed the code drops the report of a connection in kDisconnecting,  *)
(* and every report if the loop quits first.)                              *)
(***************************************************************************)
EndIsReported ==
    ~inMap /\ server = "alive" => downs = 1 \/ (lateSend /\ downs > 1)

(***************************************************************************)
(* The connection uses its poller as EPollPoller requires: one channel     *)
(* operation at a time, and above all the last owner lets go only after    *)
(* channel_->remove(), so that no registration outlives the channel.  That *)
(* is so as long as the loop exists: when ~TcpServer has ended it with     *)
(* connectionDestroyed still queued, the connection goes unremoved, after  *)
(* its poller.  And it is not so after a late send, which may put the      *)
(* channel back when nobody is left to remove it.                          *)
(***************************************************************************)
Poller == INSTANCE EPollPoller
    WITH Channels <- {"channel"}, Fds <- {"fd"}, NoChannel <- "none", NoFd <- "none",
         kInitEventListSize <- 1,
         fd_ <- [c \in {"channel"} |-> IF Owned THEN "fd" ELSE "none"],
         events_ <- [c \in {"channel"} |-> events_],
         index_ <- [c \in {"channel"} |-> index_],
         channels_ <- [f \in {"fd"} |-> IF index_ = "kAdded" THEN "channel" ELSE "none"],
         registered <- [f \in {"fd"} |-> IF registered THEN "channel" ELSE "none"],
         interest <- [f \in {"fd"} |-> IF registered THEN events_ ELSE {}],
         listSize <- 1,
         activeChannels_ <- {},
         exited <- ended = "fatal"
UsesPoller == [][~LoopGone' /\ ~lateSend' => Poller!Next]_(Poller!vars)

(***************************************************************************)
(* handleClose finds its server: closeCallback_ is bound to the server's   *)
(* this, and whenever a dispatch may still come to handleClose ~TcpServer  *)
(* has not returned.  On a pool's loop it is the join that sees to it, on  *)
(* the base loop itself connectionDestroyed, which leaves no event to be   *)
(* dispatched.  (A connection that a late send has put back into its       *)
(* poller may close after its server.)                                     *)
(***************************************************************************)
CloseFindsServer ==
    Running /\ pc \in {"close", "error", "read"} => server # "gone" \/ lateSend

(***************************************************************************)
(* A closed connection stays closed: no state follows kDisconnected.  The  *)
(* comment in shutdown says that its test and its store need no compare    *)
(* and swap because they are confined to the loop's thread.  Violated when *)
(* another thread calls shutdown.                                          *)
(***************************************************************************)
DisconnectedIsFinal ==
    [][state_ = "kDisconnected" => state_' = "kDisconnected"]_vars

(***************************************************************************)
(* That is the only way back: kDisconnected is left by nothing but the     *)
(* store of a shutdown that another thread began before the close.         *)
(***************************************************************************)
OnlyLateShutdownReopens ==
    [][state_ = "kDisconnected" /\ state_' # "kDisconnected" =>
        closer.op = "set"]_vars

\* The connection is out of the poller and its end was handled.
CleanedUp == index_ = "kNew" /\ state_ # "kConnecting"

(***************************************************************************)
(* A connection that the peer has reset or closed is cleaned up, whatever  *)
(* users and their threads do meanwhile: its end is handled, it leaves the *)
(* server's map, over the server's loop and back, and then the poller.     *)
(* After a reset that is so whatever the channel is interested in; after a *)
(* close unless the channel loses its interest in reading before the end   *)
(* of the stream.  The one thing that can come in between is ~TcpServer,   *)
(* which ends the pool's loop and with it whatever is queued; and nothing  *)
(* is claimed after a late send.                                           *)
(***************************************************************************)
EndIsCleanedUp ==
    (reset \/ (peerFin /\ registered)) ~>
        \/ CleanedUp \/ ~Running \/ LoopGone \/ lateSend
        \/ ~reset /\ state_ # "kDisconnected" /\ "R" \notin events_

(***************************************************************************)
(* Output goes out: when the peer has made room in the kernel's buffer,    *)
(* what waits in the output buffer of an open connection is written until  *)
(* one of the two is exhausted, or the connection or its loop ends.  It is *)
(* EPOLLOUT, asked for by sendInLoop and kept until the buffer is empty,   *)
(* that brings handleWrite back.  (After a late send nobody may be left    *)
(* to own the connection, and nothing is claimed.)                         *)
(***************************************************************************)
OutputDrains ==
    (readableBytes(outputBuffer_) > 0 /\ Space > 0 /\ downs = 0) ~>
        \/ readableBytes(outputBuffer_) = 0 \/ Space = 0
        \/ downs > 0 \/ CleanedUp \/ ~Running \/ LoopGone \/ lateSend

(***************************************************************************)
(* shutdown() closes the write end once the output has gone out.  Violated *)
(* for a shutdown that had to wait: disableWriting leaves the channel      *)
(* writing, so shutdownInLoop never finds it idle.                         *)
(***************************************************************************)
ShutdownClosesWriteEnd ==
    state_ = "kDisconnecting" ~>
        (wrShut \/ state_ = "kDisconnected" \/ CleanedUp \/ ~Running \/ LoopGone)

(***************************************************************************)
(* After shutdown nothing is written.  Violated: sendInLoop gives up in    *)
(* kDisconnected only, and a send queued by another thread before a        *)
(* shutdown on the loop's thread writes to the closed end (EPIPE, and the  *)
(* signal that ends the process).                                          *)
(***************************************************************************)
NoWriteAfterShutdown == wrShut /\ ~reset => ended # "sigpipe"

=============================================================================
