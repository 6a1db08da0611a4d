------------------------------ MODULE TcpServer ------------------------------
(***************************************************************************)
(* TcpServer.cc with Acceptor.cc, EventLoopThreadPool.cc,                  *)
(* EventLoopThread.cc and Thread.cc: a server that starts its pool of loop *)
(* threads, accepts connections, hands them out in turn, removes the ones  *)
(* that close, and is destroyed together with its threads.                 *)
(*                                                                         *)
(* Actors: the owner, which is the thread of the base loop and calls the   *)
(* server's operations, the threads of the pool, another thread that may   *)
(* call start(), and the clients.  Of each EventLoop this module keeps     *)
(* what EventLoop.tla shows of it: a FIFO of functors, taken in batches,   *)
(* and quit_, which loop() clears on entry and tests between batches.  Of  *)
(* a connection it keeps who refers to it, the functors and callbacks that *)
(* pass between it and the server, and its file descriptor, which is       *)
(* closed with the last reference; the rest is TcpConnection.tla.          *)
(*                                                                         *)
(* The users of the server do not call quit() on its loops, keep neither   *)
(* the shared_ptr that threadPool() returns nor a TcpConnectionPtr, call   *)
(* neither send() nor shutdown() (those are in TcpConnection.tla), and do  *)
(* not run the base loop once the server is destroyed.                     *)
(***************************************************************************)
EXTENDS Integers, Sequences, FiniteSets, Functions

CONSTANTS
    MaxThreads,         \* bound: argument of setThreadNum
    MaxConns,           \* bound: clients
    MaxFds,             \* descriptors the process may have for connections
    Starters            \* who may call start(): subset of {"owner", "other"}

ASSUME ServerAssumption ==
    /\ MaxThreads \in Nat
    /\ MaxConns \in Nat
    /\ MaxFds \in Nat \ {0}
    /\ Starters \subseteq {"owner", "other"}

Threads == 1 .. MaxThreads
Conns == 1 .. MaxConns

\* The base loop among the loops, the others being those of the threads.
Base == 0
Loops == Threads \cup {Base}

VARIABLES
    \* the owner, and the thread inside EventLoopThreadPool::start
    owner,              \* where the owner is
    starter,            \* where the start of the pool is
    current,            \* the thread that is being started or destroyed
    \* TcpServer, Acceptor, EventLoopThreadPool
    started_,           \* -1, 0, or 1 for all greater values
    listenning_,
    numThreads_,
    loops_,
    next_,
    nextConnId_,
    connections_,       \* the map: ids of its connections
    waiting,            \* clients in the listening socket's backlog
    \* EventLoopThread i
    thread,             \* where the thread is
    loop_,              \* the pointer is not null
    quit_,
    \* the functors of each loop
    pendingFunctors_,
    functors,           \* the vector of the current batch
    calls,              \* how many of its functors have been called
    \* histories
    ioLoop,             \* the loop of each connection accepted so far
    ups, downs,         \* connections reported up, and down
    removed             \* connections whose connectionDestroyed has run

startVars == <<starter, started_>>
poolVars == <<numThreads_, loops_, next_>>
acceptVars == <<nextConnId_, waiting>>
threadVars == <<thread, loop_, quit_>>
functorVars == <<functors, calls>>
reportVars == <<ups, downs, removed>>

vars == <<owner, current, startVars, listenning_, poolVars, acceptVars, connections_,
          threadVars, pendingFunctors_, functorVars, ioLoop, reportVars>>

(***************************************************************************)
(* The owner's control points.                                             *)
(*   outside           in user code, outside the base loop                 *)
(*   start             in start(), see starter                             *)
(*   check, poll, run  in the base loop: before the test of quit_, in the  *)
(*                     dispatch, and between two functors                  *)
(*   destroy           in the loop over connections_ of ~TcpServer         *)
(*   quit              in ~EventLoopThread, before quit()                  *)
(*   join              in Thread::join                                     *)
(*   gone              the server is destroyed                             *)
(***************************************************************************)
InLoop == {"check", "poll", "run"}
OwnerPoints == {"outside", "start", "destroy", "quit", "join", "gone"} \cup InLoop

(***************************************************************************)
(* The control points of EventLoopThreadPool::start.                       *)
(*   idle      nobody is in it                                             *)
(*   create    about to create a thread                                    *)
(*   sem       in Thread::start, waiting for the semaphore                 *)
(*   lock      in startLoop, about to test loop_ under mutex_              *)
(*   asleep    in cond_.wait                                               *)
(*   push      about to put the loop into loops_                           *)
(***************************************************************************)
StarterPoints == {"idle", "create", "sem", "lock", "asleep", "push"}

(***************************************************************************)
(* A pool thread's control points, besides those in its loop.              *)
(*   none       not created                                                *)
(*   spawned    created, not yet running                                   *)
(*   begun      in threadFunc, loop_ not yet published                     *)
(*   published  loop_ published, loop() not yet entered                    *)
(*   left       loop() has returned                                        *)
(*   ended      threadFunc has returned                                    *)
(***************************************************************************)
ThreadPoints == {"none", "spawned", "begun", "published", "left", "ended"} \cup InLoop

\* The thread's EventLoop exists and everybody may be given its address.
Alive(i) == loop_[i] /\ thread[i] \in {"published", "left"} \cup InLoop

Functor(op, id) == [op |-> op, id |-> id]
Functors == [op : {"established", "destroyed", "remove"}, id : Conns]

\* The functors of a loop that have not been called yet.
Queue(l) == SubSeq(functors[l], calls[l] + 1, Len(functors[l])) \o pendingFunctors_[l]

\* Somebody has a TcpConnectionPtr: the map, or a functor of some loop (the
\* vector of a batch goes after its last call).
Held(id) ==
    \/ id \in connections_
    \/ \E l \in Loops : \E f \in Range(pendingFunctors_[l]) \cup Range(functors[l]) : f.id = id

\* The connections whose socket is open: ~Socket closes it.
Open == {id \in DOMAIN ioLoop : Held(id)}

\* started_ is not initialised: it may hold anything.
Init ==
    /\ owner = "outside" /\ starter = "idle" /\ current = 0
    /\ started_ \in {-1, 0, 1}
    /\ listenning_ = FALSE
    /\ numThreads_ = 0 /\ loops_ = <<>> /\ next_ = 0
    /\ nextConnId_ = 1 /\ connections_ = {} /\ waiting = 0
    /\ thread = [i \in Threads |-> "none"]
    /\ loop_ = [i \in Threads |-> FALSE]
    /\ quit_ = [i \in Threads |-> FALSE]
    /\ pendingFunctors_ = [l \in Loops |-> <<>>]
    /\ functors = [l \in Loops |-> <<>>]
    /\ calls = [l \in Loops |-> 0]
    /\ ioLoop = <<>> /\ ups = {} /\ downs = {} /\ removed = {}

-----------------------------------------------------------------------------
(* Configuration and start.                                                *)

\* The acceptor's socket listens and its channel is interested.
listen == listenning_' = TRUE

\* The pool's numThreads_, and listen at once: this is the base loop's thread.
\* (Once the pool is started a further call would change nothing that is read.)
setThreadNum(n) ==
    /\ owner = "outside"
    /\ loops_ = <<>> \/ starter # "idle"
    /\ numThreads_' = n
    /\ listen
    /\ UNCHANGED <<owner, current, startVars, loops_, next_, acceptVars, connections_, threadVars,
                   pendingFunctors_, functorVars, ioLoop, reportVars>>

\* The server exists and the caller is free to call.
MayStart(who) ==
    /\ who = "owner" => owner = "outside"
    /\ owner \in {"outside", "start"} \cup InLoop

\* started_++ == 0: only then threadPool_->start(), without a callback.
start(who) ==
    /\ MayStart(who)
    /\ started_' = IF started_ = 1 THEN 1 ELSE started_ + 1
    /\ IF started_ = 0
       THEN /\ starter' = "create" /\ current' = 1
            /\ owner' = IF who = "owner" THEN "start" ELSE owner
       ELSE UNCHANGED <<starter, owner, current>>
    /\ UNCHANGED <<listenning_, poolVars, acceptVars, connections_, threadVars, pendingFunctors_,
                   functorVars, ioLoop, reportVars>>

\* What the start of the pool leaves alone.
startFrame == <<started_, listenning_, numThreads_, next_, acceptVars, connections_, loop_, quit_,
                pendingFunctors_, functorVars, ioLoop, reportVars>>

\* new EventLoopThread, and Thread::start up to sem_wait; or the loop is done.
CreateThread ==
    /\ starter = "create"
    /\ IF current <= numThreads_
       THEN /\ thread' = [thread EXCEPT ![current] = "spawned"]
            /\ starter' = "sem"
            /\ UNCHANGED <<owner, current>>
       ELSE /\ starter' = "idle" /\ current' = 0
            /\ owner' = IF owner = "start" THEN "outside" ELSE owner
            /\ UNCHANGED thread
    /\ UNCHANGED <<startFrame, loops_>>

\* sem_wait returns.
SemWait ==
    /\ starter = "sem"
    /\ thread[current] # "spawned"
    /\ starter' = "lock"
    /\ UNCHANGED <<startFrame, owner, current, loops_, thread>>

\* Mutant: startLoop does not wait for the thread.
MutantLoopPublished == TRUE

\* cond_.wait's predicate.
LoopPublished == loop_[current]

\* It is tested under mutex_: startLoop returns, or sleeps.
StartLoop ==
    /\ starter = "lock"
    /\ starter' = IF LoopPublished THEN "push" ELSE "asleep"
    /\ UNCHANGED <<startFrame, owner, current, loops_, thread>>

\* loops_.push_back.
PushLoop ==
    /\ starter = "push"
    /\ loops_' = Append(loops_, current)
    /\ current' = current + 1
    /\ starter' = "create"
    /\ UNCHANGED <<startFrame, owner, thread>>

-----------------------------------------------------------------------------
(* The base loop and its acceptor.                                         *)

\* Mutant: the index is not put back.
MutantNeverWraps(next) == next + 1

\* Mutant: the last loop is left out.
MutantNextAfter(next) == IF next + 1 >= Len(loops_) - 1 THEN 0 ELSE next + 1

\* ++next_, back to the first loop after the last.
NextAfter(next) == IF next + 1 >= Len(loops_) THEN 0 ELSE next + 1

\* The loop getNextLoop returns.
getNextLoop == IF loops_ = <<>> THEN Base ELSE loops_[next_ + 1]

\* queueInLoop.
QueueOn(l, f) == pendingFunctors_' = [pendingFunctors_ EXCEPT ![l] = Append(@, f)]

\* The connection goes to the next loop: the base loop calls its
\* connectionEstablished at once, another one gets it as a functor.
newConnection ==
    /\ next_' = IF loops_ = <<>> THEN next_ ELSE NextAfter(next_)
    /\ nextConnId_' = nextConnId_ + 1
    /\ connections_' = connections_ \cup {nextConnId_}
    /\ ioLoop' = Append(ioLoop, getNextLoop)
    /\ IF getNextLoop = Base
       THEN ups' = ups \cup {nextConnId_} /\ UNCHANGED pendingFunctors_
       ELSE QueueOn(getNextLoop, Functor("established", nextConnId_)) /\ UNCHANGED ups

\* The listening socket is readable.
ClientWaits == listenning_ /\ waiting > 0

\* accept4 has a descriptor to give.
FdLeft == Cardinality(Open) < MaxFds

\* Acceptor::handleRead: accept takes a client, newConnection is its callback;
\* or it fails with EMFILE, which is logged, and the client stays.
handleRead ==
    IF ClientWaits /\ FdLeft
    THEN waiting' = waiting - 1 /\ newConnection
    ELSE UNCHANGED <<acceptVars, next_, connections_, ioLoop, ups, pendingFunctors_>>

EnterBaseLoop ==
    /\ owner = "outside"
    /\ owner' = "check"
    /\ UNCHANGED <<current, startVars, listenning_, poolVars, acceptVars, connections_, threadVars,
                   pendingFunctors_, functorVars, ioLoop, reportVars>>

\* quit_ was set, by the user on this thread.
LeaveBaseLoop ==
    /\ owner = "check"
    /\ owner' = "outside"
    /\ UNCHANGED <<current, startVars, listenning_, poolVars, acceptVars, connections_, threadVars,
                   pendingFunctors_, functorVars, ioLoop, reportVars>>

\* poll returns, with the acceptor's channel whenever a client waits.
PollBase ==
    /\ owner = "check"
    /\ owner' = "poll"
    /\ handleRead
    /\ UNCHANGED <<current, startVars, listenning_, numThreads_, loops_, threadVars, functorVars,
                   downs, removed>>

-----------------------------------------------------------------------------
(* A round of any loop: connections close in the dispatch, then the batch  *)
(* of functors.                                                            *)

At(l, point) == IF l = Base THEN owner = point ELSE thread[l] = point

Goto(l, point) ==
    IF l = Base
    THEN owner' = point /\ UNCHANGED thread
    ELSE thread' = [thread EXCEPT ![l] = point] /\ UNCHANGED owner

\* What a round leaves alone.
roundFrame == <<current, startVars, listenning_, poolVars, acceptVars, loop_, quit_, ioLoop>>

\* Mutant: the connection stays in the map.
MutantErased(id) == connections_

\* connections_.erase.
Erased(id) == connections_ \ {id}

\* Mutant: nothing is asked of the connection's loop.
MutantDestroyLater(id) == UNCHANGED pendingFunctors_

\* queueInLoop(connectionDestroyed): never at once, and with a TcpConnectionPtr.
DestroyLater(id) == QueueOn(ioLoop[id], Functor("destroyed", id))

\* removeConnectionInLoop.
removeConnectionInLoop(id) ==
    /\ connections_' = Erased(id)
    /\ DestroyLater(id)

\* handleClose: the end is reported, and removeConnection runs in the base loop.
CloseConnection(id) ==
    /\ At(ioLoop[id], "poll")
    /\ id \in ups \ downs
    /\ downs' = downs \cup {id}
    /\ IF ioLoop[id] = Base
       THEN removeConnectionInLoop(id)
       ELSE QueueOn(Base, Functor("remove", id)) /\ UNCHANGED connections_
    /\ UNCHANGED <<roundFrame, owner, thread, functorVars, ups, removed>>

\* doPendingFunctors takes what is queued.
SwapFunctors(l) ==
    /\ At(l, "poll")
    /\ Goto(l, "run")
    /\ functors' = [functors EXCEPT ![l] = pendingFunctors_[l]]
    /\ pendingFunctors_' = [pendingFunctors_ EXCEPT ![l] = <<>>]
    /\ UNCHANGED <<roundFrame, connections_, calls, reportVars>>

\* connectionDestroyed reports the end of a connection in kConnected, that is one
\* reported up and not yet down, and takes its channel out of the poller.
connectionDestroyed(id) ==
    /\ downs' = downs \cup ({id} \cap ups)
    /\ removed' = removed \cup {id}

\* connectionEstablished, connectionDestroyed or removeConnectionInLoop.
CallFunctor(l) ==
    /\ At(l, "run")
    /\ calls[l] < Len(functors[l])
    /\ calls' = [calls EXCEPT ![l] = @ + 1]
    /\ LET f == functors[l][calls[l] + 1]
       IN  \/ /\ f.op = "established"
              /\ ups' = ups \cup {f.id}
              /\ UNCHANGED <<downs, removed, connections_, pendingFunctors_>>
           \/ /\ f.op = "destroyed"
              /\ connectionDestroyed(f.id)
              /\ UNCHANGED <<ups, connections_, pendingFunctors_>>
           \/ /\ f.op = "remove"
              /\ removeConnectionInLoop(f.id)
              /\ UNCHANGED reportVars
    /\ UNCHANGED <<roundFrame, owner, thread, functors>>

\* The batch is done, and its vector destroyed.
EndFunctors(l) ==
    /\ At(l, "run")
    /\ calls[l] = Len(functors[l])
    /\ Goto(l, "check")
    /\ functors' = [functors EXCEPT ![l] = <<>>]
    /\ calls' = [calls EXCEPT ![l] = 0]
    /\ UNCHANGED <<roundFrame, connections_, pendingFunctors_, reportVars>>

-----------------------------------------------------------------------------
(* The owner: destruction.  The body of ~TcpServer sends every connection  *)
(* connectionDestroyed; then the members go: the pool with its threads     *)
(* (quit and join, one after the other) and the acceptor, which takes its  *)
(* channel out of the base loop's poller and closes the listening socket.  *)

DestroyServer ==
    /\ owner = "outside"
    /\ starter = "idle"
    /\ owner' = "destroy"
    /\ UNCHANGED <<current, startVars, listenning_, poolVars, acceptVars, connections_, threadVars,
                   pendingFunctors_, functorVars, ioLoop, reportVars>>

\* Mutant: connectionDestroyed is called on the spot, whosever loop it is.
MutantRunsHere(id) == TRUE

\* conn->getLoop()->isInLoopThread(), in runInLoop.
RunsHere(id) == ioLoop[id] = Base

\* runInLoop(connectionDestroyed) for one connection of the map.
DestroyConnection(id) ==
    /\ owner = "destroy"
    /\ id \in connections_
    /\ connections_' = connections_ \ {id}
    /\ IF RunsHere(id)
       THEN connectionDestroyed(id) /\ UNCHANGED pendingFunctors_
       ELSE QueueOn(ioLoop[id], Functor("destroyed", id)) /\ UNCHANGED <<downs, removed>>
    /\ UNCHANGED <<owner, current, startVars, listenning_, poolVars, acceptVars, threadVars,
                   functorVars, ioLoop, ups>>

\* The pool's destructor: loops_ goes, then the threads, from the first to the
\* last; after them the acceptor.
GoOnDestroying(i) ==
    IF i \in Threads /\ thread[i] # "none"
    THEN owner' = "quit" /\ current' = i /\ UNCHANGED <<listenning_, waiting>>
    ELSE owner' = "gone" /\ current' = 0 /\ listenning_' = FALSE /\ waiting' = 0

DestroyPool ==
    /\ owner = "destroy"
    /\ connections_ = {}
    /\ loops_' = <<>>
    /\ GoOnDestroying(1)
    /\ UNCHANGED <<startVars, numThreads_, next_, nextConnId_, connections_, threadVars,
                   pendingFunctors_, functorVars, ioLoop, reportVars>>

\* ~EventLoopThread: loop_ is not null (LoopsAreLive), so quit().
QuitThread ==
    /\ owner = "quit"
    /\ loop_[current]
    /\ quit_' = [quit_ EXCEPT ![current] = TRUE]
    /\ owner' = "join"
    /\ UNCHANGED <<current, startVars, listenning_, poolVars, acceptVars, connections_, thread,
                   loop_, pendingFunctors_, functorVars, ioLoop, reportVars>>

\* Mutant: the thread is left to itself.
MutantJoinReturns == TRUE

JoinReturns == thread[current] = "ended"

\* thread_->join().
Join ==
    /\ owner = "join"
    /\ JoinReturns
    /\ GoOnDestroying(current + 1)
    /\ UNCHANGED <<startVars, poolVars, nextConnId_, connections_, threadVars, pendingFunctors_,
                   functorVars, ioLoop, reportVars>>

-----------------------------------------------------------------------------
(* A thread of the pool, outside the rounds of its loop.                   *)

\* What these steps leave alone.
threadFrame == <<owner, current, started_, listenning_, poolVars, acceptVars, connections_,
                 functorVars, ioLoop, reportVars>>

\* The lambda of Thread::start: sem_post, then threadFunc.
ThreadBegins(i) ==
    /\ thread[i] = "spawned"
    /\ thread' = [thread EXCEPT ![i] = "begun"]
    /\ UNCHANGED <<threadFrame, starter, loop_, quit_, pendingFunctors_>>

\* Mutant: nobody is notified.
MutantNotifyOne(i) == UNCHANGED starter

\* cond_.notify_one() of the thread's EventLoopThread.
NotifyOne(i) == starter' = IF starter = "asleep" /\ current = i THEN "lock" ELSE starter

\* loop_ = &loop and notify_one, under mutex_.
Publish(i) ==
    /\ thread[i] = "begun"
    /\ thread' = [thread EXCEPT ![i] = "published"]
    /\ loop_' = [loop_ EXCEPT ![i] = TRUE]
    /\ NotifyOne(i)
    /\ UNCHANGED <<threadFrame, quit_, pendingFunctors_>>

\* loop() begins: quit_ = false.
EnterLoop(i) ==
    /\ thread[i] = "published"
    /\ thread' = [thread EXCEPT ![i] = "check"]
    /\ quit_' = [quit_ EXCEPT ![i] = FALSE]
    /\ UNCHANGED <<threadFrame, starter, loop_, pendingFunctors_>>

\* Mutant: quit_ is not looked at.
MutantAfterCheck(i) == "poll"

\* while(!quit_).
AfterCheck(i) == IF quit_[i] THEN "left" ELSE "poll"

CheckQuit(i) ==
    /\ thread[i] = "check"
    /\ thread' = [thread EXCEPT ![i] = AfterCheck(i)]
    /\ UNCHANGED <<threadFrame, starter, loop_, quit_, pendingFunctors_>>

\* loop_ = nullptr, and the EventLoop on the stack is destroyed, with what is
\* still queued.
ThreadEnds(i) ==
    /\ thread[i] = "left"
    /\ thread' = [thread EXCEPT ![i] = "ended"]
    /\ loop_' = [loop_ EXCEPT ![i] = FALSE]
    /\ pendingFunctors_' = [pendingFunctors_ EXCEPT ![i] = <<>>]
    /\ UNCHANGED <<threadFrame, starter, quit_>>

\* A client connects: the kernel completes the handshake and queues it.
ClientConnects ==
    /\ listenning_
    /\ nextConnId_ + waiting <= MaxConns
    /\ waiting' = waiting + 1
    /\ UNCHANGED <<owner, current, startVars, listenning_, poolVars, nextConnId_, connections_,
                   threadVars, pendingFunctors_, functorVars, ioLoop, reportVars>>

-----------------------------------------------------------------------------
\* What a loop does after the dispatch of its events.
RunFunctors(l) ==
    \/ SwapFunctors(l)
    \/ CallFunctor(l)
    \/ EndFunctors(l)

ThreadStep(i) ==
    \/ ThreadBegins(i)
    \/ Publish(i)
    \/ EnterLoop(i)
    \/ CheckQuit(i)
    \/ RunFunctors(i)
    \/ ThreadEnds(i)

BaseStep ==
    \/ PollBase
    \/ RunFunctors(Base)

\* What the owner does inside the destructor, and what start() does.
OwnerStep ==
    \/ \E id \in connections_ : DestroyConnection(id)
    \/ DestroyPool
    \/ QuitThread
    \/ Join

StarterStep ==
    \/ CreateThread
    \/ SemWait
    \/ StartLoop
    \/ PushLoop

\* What the users of the server and the clients may do, and need not.
UserStep ==
    \/ \E n \in 0 .. MaxThreads : setThreadNum(n)
    \/ \E who \in Starters : start(who)
    \/ EnterBaseLoop
    \/ LeaveBaseLoop
    \/ DestroyServer
    \/ ClientConnects
    \/ \E id \in DOMAIN ioLoop : CloseConnection(id)

Next ==
    \/ OwnerStep
    \/ StarterStep
    \/ BaseStep
    \/ UserStep
    \/ \E i \in Threads : ThreadStep(i)

Spec == Init /\ [][Next]_vars

(***************************************************************************)
(* Fairness: every thread that can run does, the owner in the base loop    *)
(* and the destructor, whoever is in start(), the pool's threads always    *)
(* (epoll_wait returns at the latest after kPollTimeoutMs).  Users and     *)
(* clients need not do anything.                                           *)
(***************************************************************************)
FairSpec ==
    /\ Spec
    /\ WF_vars(OwnerStep)
    /\ WF_vars(StarterStep)
    /\ WF_vars(BaseStep)
    /\ \A i \in Threads : WF_vars(ThreadStep(i))

-----------------------------------------------------------------------------
(* Properties.                                                             *)

\* The types of the server's, the pool's and the threads' members; next_ is an
\* index of loops_, and no more descriptors are open than there are.
TypeOK ==
    /\ owner \in OwnerPoints /\ starter \in StarterPoints /\ current \in 0 .. MaxThreads + 1
    /\ started_ \in {-1, 0, 1} /\ listenning_ \in BOOLEAN /\ numThreads_ \in 0 .. MaxThreads
    /\ loops_ \in Seq(Threads)
    /\ next_ \in Nat /\ (loops_ # <<>> => next_ < Len(loops_))
    /\ nextConnId_ \in 1 .. MaxConns + 1 /\ connections_ \subseteq Conns
    /\ waiting \in 0 .. MaxConns
    /\ thread \in [Threads -> ThreadPoints]
    /\ loop_ \in [Threads -> BOOLEAN] /\ quit_ \in [Threads -> BOOLEAN]
    /\ pendingFunctors_ \in [Loops -> Seq(Functors)] /\ functors \in [Loops -> Seq(Functors)]
    /\ calls \in [Loops -> Nat] /\ \A l \in Loops : calls[l] <= Len(functors[l])
    /\ ioLoop \in Seq(Loops) /\ Cardinality(Open) <= MaxFds
    /\ ups \subseteq Conns /\ downs \subseteq Conns /\ removed \subseteq Conns

(***************************************************************************)
(* The server never touches a loop that is not there: the pointers in      *)
(* loops_ are of running threads that have published their loop, so are    *)
(* the loops of the connections in the map and the loop that the           *)
(* destructor quits.  The hand-over in startLoop, through the semaphore,   *)
(* mutex_ and cond_, is what makes it so.                                  *)
(***************************************************************************)
LoopsAreLive ==
    /\ \A i \in Range(loops_) : Alive(i)
    /\ \A id \in connections_ : ioLoop[id] # Base => Alive(ioLoop[id])
    /\ owner = "quit" => Alive(current)

\* How many connections were given to the loop of thread i.
Load(i) == Cardinality({id \in DOMAIN ioLoop : ioLoop[id] = i})

(***************************************************************************)
(* Round robin: once the pool is started, the loops differ by at most one  *)
(* connection, the earlier ones being ahead, and next_ points at one of    *)
(* those that are behind.                                                  *)
(***************************************************************************)
LoadIsBalanced ==
    \A j, k \in DOMAIN loops_ :
        /\ j < k => Load(loops_[k]) <= Load(loops_[j]) /\ Load(loops_[j]) <= Load(loops_[k]) + 1
        /\ j = next_ + 1 => Load(loops_[j]) <= Load(loops_[k])

(***************************************************************************)
(* When the destructor has returned nothing of the server runs any more:   *)
(* every thread of the pool has ended, no functor is left on its loops,    *)
(* and every connection still up would be one nobody refers to.  Only the  *)
(* base loop may still hold functors, of connections that closed.          *)
(***************************************************************************)
NothingOutlivesServer ==
    owner = "gone" =>
        /\ \A i \in Threads : thread[i] \in {"none", "ended"} /\ Queue(i) = <<>>
        /\ Open \subseteq downs

(***************************************************************************)
(* A connection is reported down, and its channel removed from the poller, *)
(* only after it was reported up, although the two come from different     *)
(* functors, sent at different times to another thread, or from a close in *)
(* between.  (A removal that came first would leave a destroyed connection *)
(* to be established: in the poller, up, and never reported down.)         *)
(***************************************************************************)
UpBeforeDown == downs \cup removed \subseteq ups

\* How many calls of connectionDestroyed are queued for the connection.
Destructions(id) ==
    Cardinality({p \in UNION {{l} \X DOMAIN Queue(l) : l \in Loops} :
                    Queue(p[1])[p[2]] = Functor("destroyed", id)})

(***************************************************************************)
(* connectionDestroyed is called once at most, whether the connection      *)
(* closes, the server is destroyed, or both at once: as long as the map    *)
(* has the connection it is neither queued nor done, and afterwards queued *)
(* once or done, on the connection's own loop.                             *)
(***************************************************************************)
DestroyedOnce ==
    \A id \in DOMAIN ioLoop :
        /\ Destructions(id) + (IF id \in removed THEN 1 ELSE 0)
                            + (IF id \in connections_ THEN 1 ELSE 0) <= 1
        /\ \A l \in Loops \ {ioLoop[id]} : Functor("destroyed", id) \notin Range(Queue(l))

(***************************************************************************)
(* The raw pointers of activeChannels_ stay good for a whole dispatch:     *)
(* while a loop calls handleEvent of its active channels no connection in  *)
(* its poller goes, although a callback may close it, and the base loop    *)
(* may erase it, in the meantime.  The functor that removeConnectionInLoop *)
(* leaves on the connection's own loop sees to it.  (One that has left the *)
(* poller may go at any time: the base loop's batch can be the last to     *)
(* hold it.)                                                               *)
(***************************************************************************)
DispatchIsSafe ==
    [][\A l \in Loops : At(l, "poll") =>
        {id \in Open \ removed : ioLoop[id] = l} \subseteq Open']_vars

(***************************************************************************)
(* start() is thread safe: nobody is about to read loops_, in getNextLoop, *)
(* while start() is about to change it.  Violated when another thread than *)
(* the base loop's calls it while the server accepts.                      *)
(***************************************************************************)
StartIsThreadSafe == ~(starter = "push" /\ owner = "check" /\ ClientWaits /\ FdLeft)

(***************************************************************************)
(* start() returns: its caller does not miss the notification of a thread  *)
(* that publishes its loop before, while or after the caller looks.        *)
(***************************************************************************)
StartReturns == starter # "idle" ~> starter = "idle"

(***************************************************************************)
(* Clients are served: when accept fails for want of a descriptor, the     *)
(* client gets one as soon as a connection has closed; the way of a closed *)
(* connection, from its loop over the base loop and back, always gives its *)
(* descriptor back.                                                        *)
(***************************************************************************)
ClientsAreServed ==
    (ClientWaits /\ owner \in InLoop) ~>
        (~ClientWaits \/ owner \notin InLoop \/ Cardinality(Open \ downs) = MaxFds)

(***************************************************************************)
(* The destructor gets past a thread that is in its loop() when it is told *)
(* to quit.                                                                *)
(***************************************************************************)
LoopingThreadIsJoined ==
    (owner = "join" /\ thread[current] \in InLoop /\ quit_[current]) ~> owner # "join"

(***************************************************************************)
(* The destructor returns: "wakeup loop to terminate".  Violated: a thread *)
(* that has published its loop and not yet entered loop() clears quit_     *)
(* when it does, and join() waits for ever.                                *)
(***************************************************************************)
DestructorReturns == owner \in {"destroy", "quit", "join"} ~> owner = "gone"

=============================================================================
