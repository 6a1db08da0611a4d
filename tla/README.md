# Moduo in TLA+

Moduo is a small C++11 network library in the style of muduo: one event loop
per thread, non-blocking sockets behind `epoll`, callbacks for everything. This
directory models its core in TLA+, checks the models with TLC on small
instances, and proves the safety properties of all of them with TLAPS for all
sizes.

## The system

| part (under `src/src/`) | state | operations | talks to |
|---|---|---|---|
| `EventLoop` | `quit_`, `looping_`, `pendingFunctors_`, `callingPendingFunctors_`, the eventfd | `loop`, `quit`, `runInLoop`, `queueInLoop`, `wakeup` | its poller; called by any thread |
| `EPollPoller`, `Poller`, `Channel` | `channels_`, each channel's `events_`, `index_`, `revents_`; the kernel's interest list | `updateChannel`, `removeChannel`, `poll`; `enableReading` ... `disableAll`, `remove`, `handleEvent` | loop thread only |
| `Buffer` | a vector and two indices | `append`, `retrieve*`, `readFd`, `writeFd` | one connection |
| `TcpConnection` | `state_`, input and output buffer, socket, channel | `send`, `shutdown` (any thread); `handleRead/Write/Close/Error`, `connectionEstablished/Destroyed` (its loop) | its loop, the server's close callback |
| `TcpServer`, `Acceptor` | `connections_`, `nextConnId_`, `started_`; `listenning_` | `setThreadNum`, `start`, `newConnection`, `removeConnection`, destructor | base loop, thread pool, connections |
| `EventLoopThreadPool`, `EventLoopThread`, `Thread` | `loops_`, `next_`; `loop_` with mutex and condition | `start`, `getNextLoop`; `startLoop`, `threadFunc`, destructor | loops |
| `Socket`, `InetAddress`, `Logger`, `Timestamp` | - | wrappers of system calls, conversions, output | - |

What is hard in it: functors are queued from any thread and the loop may be
about to sleep; `state_` is tested on one thread and changed on another; the
kernel keeps raw pointers to channels whose owners are reference counted on
several threads; writes are partial; a connection ends through several paths
(peer, reset, server) that cross two loops; loop threads start and stop by a
hand-over of a pointer to a stack object.

What makes it correct: no wakeup is lost and functors run in order, once; the
three tables of the poller agree and hold no dangling pointer; bytes are
neither lost nor reordered; callbacks come in order, every connection that
closes is cleaned up; the server only touches loops that exist. `PROJECT.json`
lists the hazards one by one, with the properties that guard each.

## Modules

| module | models |
|---|---|
| `TaskQueue` | abstract: what `queueInLoop` and `runInLoop` promise, a FIFO with exactly-once calls |
| `EventLoop` | `EventLoop.cc`: the loop thread step by step, any number of other threads |
| `EventLoopProofs` | its theorems |
| `EPollPoller` | `EPollPoller.cc`, `Poller.cc`, the operations of `Channel` |
| `EPollPollerProofs` | its theorems |
| `Buffer` | `Buffer.h`, `Buffer.cc` as operators on a record |
| `BufferClient` | one buffer under any sequence of a connection's calls, beside a reference sequence |
| `BufferLemmas` | what `append`, `retrieve` and `readFd` do to a buffer, for the proofs that use one |
| `BufferProofs` | the theorems of `BufferClient` |
| `Connection` | abstract: what a connection promises its user and the peer, two reports with the messages between them and a byte stream in order |
| `TcpConnection` | `TcpConnection.cc`, `Channel::handleEvent`, the part of `TcpServer` that removes connections; extends `Buffer`, uses `EPollPoller` as the specification of its poller, implements `Connection` |
| `TcpConnectionProofs` | its theorems |
| `TcpServer` | `TcpServer.cc`, `Acceptor.cc`, the thread pool and its threads, the life of the connections from accept to close as the server sees it |
| `TcpServerProofs` | its theorems |
| `MC*` | the instances TLC runs |

Variables and actions keep the names of the members and functions they model
(a class's functions that run on the loop thread in one go are one action).
Operators named `Mutant...` are never part of a specification: each stands
beside the definition it could replace and is a plausible mistake in it.

**EventLoop.** The loop thread has a control point for every place where
another thread can come between; `loop()` begins with two of them, after
`looping_ = true` and after `quit_ = false`, so that a `quit()` that comes before
the second store is erased as it is in the code. Off the loop thread `queueInLoop` and `quit`
are two steps (the push or store, then the write of the eventfd); on the loop
thread they are one, because no other thread could see the difference.
`epoll_wait` may return any part of the ready channels or nothing (timeout,
`EINTR`); the eventfd has a maximum, at which writes fail.

**EPollPoller.** Channel objects are created on free fds, used in any order and
destroyed by owners that have removed them; fds are reused. `epoll_ctl` fails
as the kernel does, and the failure of ADD and MOD is `LOG_FATAL`.
`disableWriting` is what the code says (`events_ &= kWriteEvent`).

**Buffer.** The vector, both indices, growth, the move to the front with the
code's index arithmetic, and `readFd`'s two-part read. A copy past the end of
the vector makes `intact` false, after which nothing is claimed.

**TcpConnection.** One connection from `newConnection` on. The I/O loop polls,
dispatches hangup, error, input and output as separate steps, and runs functors
in batches. User code runs in the callbacks; two more threads may hold the
connection, one that calls `send` (`sender`) and one that calls `shutdown`
(`closer`), which covers one thread that does both in either order. Each call is
a test of `state_` and a later effect on the loop's queue. `crossing` says which
of the two calls the other threads of a behaviour may make at all; one value is
both. Callbacks that users did not set (`Callbacks`) are not queued. The kernel's
socket has a bounded send buffer, FIN, RST and a pending error; a `write()` takes
what there is room for, or nothing and the data is kept (`EWOULDBLOCK`, and the
errors that are only logged), or fails for good after a reset.

The server's loop is the same or another one and may destroy the server at any
time. On the base loop itself `connectionDestroyed` is called at once. With a
pool, `~TcpServer` goes through `server`: it queues `connectionDestroyed`, sets
the I/O loop's `quit_` (`QuitLoop`) and waits for the thread (`Join`); the loop
leaves after its current batch (`LeaveLoop`) and whatever is queued behind it,
`connectionDestroyed` among it, is dropped with the `EventLoop`.

The process may end by SIGPIPE, by `LOG_FATAL`, or reach undefined behaviour (a
functor that bound `this` runs on a deleted connection, a close callback on a
deleted server, a call from another thread on a loop that is gone, an append past
the end of the output buffer); `ended` records it and nothing happens afterwards.
Two histories mark where the promises end. `compacted`: `makeSpace` has moved the
data of the output buffer, after which its index arithmetic may leave a gap in
the stream. `lateSend`: `sendInLoop` has taken on bytes after the end was reported
or the channel removed. The code does that when another thread's `send` is queued
and a `shutdown` has left or put `kDisconnecting` where `sendInLoop` looks for
`kDisconnected` (`TcpConnection.cc:73`, `131-133`, `160`); the rest it keeps then
puts the channel back into the poller.

References are counted by who holds one (`Owned`). The string that a `send` from
another thread points to is assumed to live until it is sent. Reads deliver all
that is there: the input buffer is `BufferClient`'s business.

What it promises is `Connection`, under the mapping
`reports <- ups + downs`, `talking <- pc = "message"`, `accepted <- sent`,
`delivered <- SubSeq(wire, 1, received)` and `released <- index_ = "kNew" /\ ups > 0`.

**TcpServer.** The owner thread configures, starts, runs the base loop and
destroys the server; the pool's threads go through `threadFunc`; another thread
may call `start`. The semaphore of `Thread::start` and the mutex and condition
of `startLoop` are modelled, the loops by their rounds (dispatch, swap,
functors) and `quit_`, the base loop by the same rounds. Clients wait in the
listening socket's backlog; `accept` takes one while a descriptor is left and
fails with `EMFILE` otherwise. A connection closes on its own loop, is removed
on the base loop and destroyed on its own again, and its descriptor is free when
nobody holds it any more (`Held`). `started_` starts out with an arbitrary
value, because nothing initialises it: -1, 0 or more.

## Runs

| run | instance | states | shows |
|---|---|---|---|
| `eventloop` | 2 threads, 3 functors, 1 channel, eventfd full at 2 | 20,830 | `NoLostWakeup`, `NoLostQuit`; the loop implements `TaskQueue`; queued functors are called and `quit` leaves the loop, without help from the timeout |
| `buffer` | reserve 1, size 2, stack buffer 2, chunks up to 2, vector up to 7 | 29,536 | the indices are always in order; until data is moved, in bounds and FIFO; data is moved only after a partial retrieve |
| `poller` | 3 channels, 2 fds, event list of 1 | 4,284 | map, `index_` and kernel agree; no dangling registration |
| `connection` | messages of 2 bytes, mark 2; no other thread (kernel buffer 2, 2 bytes, 1 byte of input), a thread that sends (buffer 1, 4 bytes), one that sends and one that shuts down (buffer 1, 2 bytes) | 468,789 | up to a late send the connection implements `Connection`; the stream is in order and complete; buffered output is watched and goes out when there is room; an end is reported and cleaned up; the channel is removed before it is freed, as long as its loop exists; `handleClose` finds its server; only a late `shutdown` of another thread leaves `kDisconnected` |
| `server` | up to 2 threads, 3 clients, 2 descriptors | 63,363 | only live loops are used, loads are balanced, each connection is destroyed once and never during a dispatch of its loop, up before down, nothing outlives the server; `start` returns, looping threads are joined, a waiting client is served after a close |

The bounds: two outside threads are enough for two wakeups to be in flight at
once, three functors for a batch of two with one queued behind it. The buffer
is small enough that every branch is taken at every boundary and several times
over. In the connection a message fills the kernel's buffer or is larger, so
that writes are whole, partial and refused, the second message is buffered
behind the first, and there may be room for it in the kernel while the first is
still waiting; one message is enough for a send that is overtaken by a close and a
shutdown; the output buffer starts with room for one message, so that
`makeSpace` makes the vector larger. No behaviour of the instance has `makeSpace` move
data (`buffer` and `buffer_append` are about that); what the properties of the
connection say of it is proved. Two threads and three
clients let the round robin wrap and let threads start and stop beside a
running one; with two descriptors the third client has to wait for a close.
The exceptional ends of the process and the destruction of the
server are ordinary final states, so deadlock is checked only for the event
loop.

Seven properties state what the code's own comments say and are violated:

| run | property | what happens |
|---|---|---|
| `buffer_append` | `AppendAddsToReadable` | `Buffer.h:105` adds `len - readable` to `writerIndex_` after moving the data: the new bytes land behind a gap |
| `poller_reenable` | `NeverExits` | `EPollPoller.cc:84` leaves `index_` at `kAdded` when the last event goes; enabling one again is a fatal MOD |
| `shutdown` | `ShutdownClosesWriteEnd` | `Channel.h:48` lacks a `~`: once output was buffered, the channel stays "writing", `shutdownInLoop` never closes, and input is no longer read |
| `send_after_shutdown` | `NoWriteAfterShutdown` | `TcpConnection.cc:73` tests `kDisconnected` only; a queued send writes after shutdown, SIGPIPE |
| `state_race` | `DisconnectedIsFinal` | `TcpConnection.cc:131-133`: test and store with `handleClose` between |
| `server_destroy` | `DestructorReturns` | `EventLoop.cc:56` clears a `quit()` that came before `loop()`; the destructor waits in `join()` for ever |
| `start_race` | `StartIsThreadSafe` | `start()` on another thread grows `loops_` (`EventLoopThreadPool.cc:29`) while `getNextLoop` on the base loop reads it; `TcpServer.h:63` says "Thread safe." |

Other properties are stated around these faults, and say exactly where they
end: `...UntilCompacted` and `CompactionNeedsPartialRetrieve` for the buffer,
`EndIsCleanedUp` (while the channel is interested in reading) for
`disableWriting`, `OnlyLateShutdownReopens` for the race on `state_`,
`LoopingThreadIsJoined` and `QuitLeavesLoop` (from the second store of `loop()`
on) for the lost quit. `ImplementsConnection`, `UsesPoller`, `CloseFindsServer`,
`EndIsCleanedUp` and `OutputDrains` end with a late send, and those that need the
loop end with it: when `~TcpServer` has ended a pool's loop a connection may be
freed without `channel_->remove()`, after its poller. `EndIsReported` excepts a
server's destruction, where `connectionDestroyed` says nothing of a connection in
`kDisconnecting` and may be dropped altogether.

## Fairness

- A thread inside `loop()` keeps going between two calls of `epoll_wait` (callbacks
  are assumed to return), and `epoll_wait` returns when the eventfd is readable:
  weak fairness of `RunStep \/ PollWakeup`. That it also returns after
  `kPollTimeoutMs` is possible but not counted on, so a lost wakeup would violate
  `QueuedIsCalled` and `QuitLeavesLoop`. None for entering `loop()`.
- In `TcpConnection` the rounds of the loop are weakly fair as a whole; that
  functors wake it is what `EventLoop` shows.
- A thread inside `queueInLoop`, `quit`, `send`, `shutdown`, `start` or a
  destructor gets to its next step when that step is not blocked.
- In `TcpServer` that is `BaseStep` and `ThreadStep` (the rounds of the loops),
  `StarterStep` (`start`) and `OwnerStep` (the destructor). Leaving the base
  loop, closing a connection and connecting are the users' and clients' choice.
- Users and peers owe nothing. The `shutdown` run alone assumes a peer that
  goes on receiving, without which no write end could close.

## Proofs

All for arbitrary values of the constants, under the assumptions the modules
name: `EventfdMax > 0` and the wakeup channel is not another channel; sizes are
naturals and `Zero` is a byte; no channel is the null pointer, the event list
is not empty to begin with; messages are not empty, the kernel's send buffer
holds at least a byte, the numbers of the stream's bytes are bytes; the bounds
of the server are numbers.

*EventLoopProofs.* `TypeCorrect`; `WakeupNeverLost`; `QuitNeverLost`;
`QueueIsFifo`, the refinement of `TaskQueue` with
`queue <- functors \o pendingFunctors_`. The wakeup properties speak of the
moment in `epoll_wait` only, and are not inductive: the invariant says for
every control point after the swap that whatever is in `pendingFunctors_` (or a
set `quit_`) has its wakeup due, that `callingPendingFunctors_` is set exactly
while functors are called, and that before the swap nothing is owed, because the
swap takes everything. The refinement needs that the local vector is empty
outside the batch.

*BufferProofs.* `BufferTypeCorrect`, `IndicesStayOrdered`, `InBounds`,
`BufferIsFifo`, `OnlyPartialRetrievesCompact`, from one invariant `BInv`: the
indices are in order, in bounds while `intact`, and until a move of the data the
buffer is intact and its readable bytes are the reference sequence. The work is
in `BufferLemmas`: `append` and `retrieve` are those of a FIFO, and `readFd` is
two appends.

*EPollPollerProofs.* `PollerTypeCorrect`, `MapAgrees`,
`NoDanglingRegistration`, `InterestAgrees`. The invariant joins
the properties with two facts none of them says: two existing channels never
have the same fd, and no channel is ever `kDeleted`.

*TcpServerProofs.* `TypeCorrect`, `LoopsStayAlive`, `ServerEndsClean`,
`UpsComeFirst`, `NeverDestroyedTwice` and the action property
`DispatchStaysSafe`, all from `ServerInvariant`, which says that `SInv` holds
always, for any number of threads, clients and descriptors and whoever calls
`start()`. Its parts, and what they are needed for:

- `Types`, `Counts`: accepted connections are numbered without a gap, and with
  those waiting are never more than the clients.
- `PoolShape`, `ThreadShape`, `Contiguous`: entry `i` of `loops_` is the loop of
  thread `i`; for each point of `start()` and of the destructor, where each thread
  may be. This is the hand-over in `startLoop` and its reverse in
  `~EventLoopThread`: a loop is pushed only after it was published, and is
  published until its `quit_` was set. `LoopsAreLive` and the first half of
  `NothingOutlivesServer` follow.
- `QueueShape`, `FunctorsBelong`: a local vector is empty outside its batch, a loop
  that has ended has no functors, `established` and `destroyed` lie on the
  connection's loop and `remove` on the base loop, there only of connections that
  have closed.
- `UpFirst`: in a queue a `destroyed` of a connection that is not up has its
  `established` in front of it. `UpBeforeDown` alone is not inductive: its second
  half, that no channel is removed before it was added, needs the order of the two
  functors.
- `Somewhere`, `Once`: a connection is in the map, or queued for its destruction,
  or destroyed, or its loop has ended; never two of the first three, and in no
  queue twice. `DestroyedOnce` and `DispatchIsSafe` need both.
- `Cardinality(Open) <= MaxFds`: `accept` takes a descriptor only when one is left.

`LoadStaysBalanced` has the hypothesis that only the owner of the base loop calls
`start()`. When another thread does, the base loop hands out connections while
the pool grows, `getNextLoop` may wrap before all loops are there, and the loads
differ by more than one (the run `start_race` is about the race itself). Its
invariant says that while the pool is started the owner is in `start()` and no
pool loop has a connection, and afterwards that the first `next_` loops have one
connection more than the others.

*TcpConnectionProofs.* `ConnectionTypeCorrect`, `StreamStaysInOrder`,
`OutputStaysWatched`, `EndStaysReported`, `CloseKeepsServer`, the action property
`OnlyLateShutdown`, and two refinements: `KeepsItsPromise` (of `Connection`) and
`UsesItsPoller` (of `EPollPoller`). They rest on `ConnectionInvariant`, which
says that `CInv` holds always, for every message length, mark, kernel buffer and
number of bytes, and whichever calls the other threads make. Its parts:

- `Types`, `Flags`, `Numbers`, `QueueTypes`, `WireTypes`: types, and the kernel
  holds no more than fits. `BufferIsSound`: the indices are in order, and a running
  process has not overrun the vector.
- `Accounted`: what is taken on, queued, in the sender's hands and left of the
  budget never exceeds the bound. It is stated with partial sums, one for each
  functor of the queue, because a sum over a sequence would need induction.
- `Calls`: which functors the other threads may have in flight, and that they hold
  the connection meanwhile.
- `Fresh`: before `connectionEstablished` nothing happens to the connection but
  that the server goes, perhaps with the loop. `Reports`: what state, events and
  registration go with no report, up, and down. A second report, and events after
  one, need a late send.
- `Leaving`: how `~TcpServer` and the loop go together. A pool's loop ends only when
  the destructor has told it to, and the destructor returns only after the loop;
  the base loop is never ended.
- `Dispatching`: at a point of the dispatch the connection is up and added, and
  (without a late send) down only when the rest of the dispatch does nothing that
  reports.
- `Writing`: buffered bytes of an open connection are watched. That needs that
  `handleWrite` keeps the channel writing, which `disableWriting` does by mistake.
- `Removing`: whenever the channel is in the poller of a loop that exists, and no
  send came late, somebody is still to remove it (the map, a queued
  `connectionDestroyed`, or that call itself). Without it `UsesPoller` cannot say
  that the last owner goes after `channel_->remove()`.
- `Orphaned`: when the server was destroyed on the connection's own loop, the
  dispatch is over and the channel is about to be removed or has no registration.
  With `Leaving` it gives `CloseFindsServer`.
- `Stream`: `StreamInOrder`, and the kernel never has more than was taken on.

The two refinements say where they end: `ImplementsConnection` demands a step of
`Connection` of every step after which neither `compacted` nor `lateSend` is
set, `UsesPoller` one of `EPollPoller` of every step after which the loop exists
and `lateSend` is not set. Once set, none of the three is ever unset, so each
refinement holds up to one moment and not only here and there. Beyond it the code
does break the promise: bytes appear that nobody sent (`buffer_append`), bytes are
taken on after the report of the end, a connection is freed with its channel
registered.

Model-checked only: every liveness property (`OutputDrains`, `EndIsCleanedUp`,
`ClientsAreServed`, that queued functors are called, `start` and the destructor
return...), because the prover has no reasoning about fairness; and the
properties that are violated. Every invariant and every action property of a
passing run is a theorem.

## Not modelled

- `InetAddress`, `Logger`, `Timestamp`, `CurrentThread`, and of `Socket` the
  binding and the options: one system call or one conversion each, which change
  nothing the modelled code reads. `LOG_FATAL` ends the process. The logger's
  level is set and used in two unlocked steps, which only mixes up log lines.
- `setThreadNum()` from a thread other than the base loop's; a user's `quit()` on
  a pool loop; the base loop run again after the server is destroyed, when
  functors of closed connections would call the dead server.
- `SIGPIPE`: a write to a reset connection ends the process, since nothing
  ignores the signal. The models do the same; no property claims otherwise.
- Construction and destruction of an `EventLoop` (its poller and its wakeup
  channel), except that a pool thread's loop dies with its queue.
- Destruction of the server from inside a channel callback of its own base loop
  (the connection model lets it happen between functors only), which would free
  channels that `activeChannels_` still holds; `DispatchIsSafe` shows that
  nothing else does.
- Several threads that send on one connection, or several that shut it down: there
  is one of each beside the loop's own thread, and a second call begins when the
  first has returned.
- Data races on plain members are left out where the code's own discipline
  (loop thread only) excludes them.

## Plan

1. Done: event loop, poller, buffer, connection with its abstract promise,
   server with its pool and its connections; proofs of the invariants and action
   properties of all of them, and of the three refinements.
2. Next: a second look at the longest proofs (`TcpServerProofs`,
   `TcpConnectionProofs`), whose lemmas about queues of functors could be
   shared; a weaker promise that the reports alone keep after a late send.
3. Then: the input side of the connection with messages consumed in part.
