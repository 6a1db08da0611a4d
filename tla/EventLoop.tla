------------------------------ MODULE EventLoop ------------------------------
(***************************************************************************)
(* EventLoop.h / EventLoop.cc: one event loop, the thread that owns it and *)
(* any number of other threads that call its thread-safe operations.       *)
(*                                                                         *)
(* The loop thread runs loop(): it blocks in epoll_wait, dispatches the    *)
(* active channels, then calls the functors that were queued.  The other   *)
(* threads queue functors under mutex_ and then write the eventfd so that  *)
(* epoll_wait returns.  The push and the write are two steps: every        *)
(* interleaving with the loop thread between them is explored.             *)
(*                                                                         *)
(* User code running on the loop thread (a channel callback, a functor, or *)
(* what the thread does before loop()) calls the same operations; there    *)
(* the push and the write are one step, because the loop thread itself is  *)
(* the eventfd's only reader and callingPendingFunctors_'s only writer, so *)
(* no other thread can tell the two orders apart.                          *)
(*                                                                         *)
(* Construction and destruction belong to the thread that owns the loop    *)
(* and are not part of this module.                                        *)
(***************************************************************************)
EXTENDS Naturals, Sequences, Functions

CONSTANTS
    Callers,            \* threads other than the loop's own
    Tasks,              \* functors; each is queued or run at most once
    IoChannels,         \* channels of the poller other than wakeupChannel_
    WakeupChannel,      \* wakeupChannel_
    EventfdMax          \* largest count an eventfd holds (2^64 - 2)

ASSUME EventfdMaxAssumption == EventfdMax \in Nat \ {0}
ASSUME WakeupChannelAssumption == WakeupChannel \notin IoChannels

VARIABLES
    pc,                 \* where the loop thread is
    caller,             \* where each other thread is
    looping_,
    quit_,
    callingPendingFunctors_,
    pendingFunctors_,
    functors,           \* the local vector of doPendingFunctors, calls left
    activeChannels_,    \* channels left to dispatch in this iteration
    wakeupFd_,          \* count of the eventfd
    called,             \* history: functors called so far, in order
    early               \* history: pendingFunctors_ holds a functor that the
                        \* loop thread queued outside loop(), with no wakeup

vars == <<pc, caller, looping_, quit_, callingPendingFunctors_, pendingFunctors_,
          functors, activeChannels_, wakeupFd_, called, early>>

(***************************************************************************)
(* The loop thread's control points.                                       *)
(*   outside   not in loop(): before it, or after it returned              *)
(*   entering  in loop(), looping_ set, quit_ not yet cleared              *)
(*   check     about to test while(!quit_)                                 *)
(*   poll      in epoll_wait                                               *)
(*   dispatch  between two channels of activeChannels_                     *)
(*   io        in a channel's callback                                     *)
(*   swap      callingPendingFunctors_ set, about to lock and swap         *)
(*   run       between two functors                                        *)
(*   task      in a functor                                                *)
(***************************************************************************)
ControlPoints ==
    {"outside", "entering", "check", "poll", "dispatch", "io", "swap", "run", "task"}

\* The control points at which user code runs on the loop thread.
UserCode == {"outside", "io", "task"}

Fresh(t) ==
    t \notin Range(pendingFunctors_) \cup Range(functors) \cup Range(called)

Init ==
    /\ pc = "outside"
    /\ caller = [c \in Callers |-> "free"]
    /\ looping_ = FALSE
    /\ quit_ = FALSE
    /\ callingPendingFunctors_ = FALSE
    /\ pendingFunctors_ = <<>>
    /\ functors = <<>>
    /\ activeChannels_ = {}
    /\ wakeupFd_ = 0
    /\ called = <<>>
    /\ early = FALSE

-----------------------------------------------------------------------------
(* The eventfd: a write adds one and fails with EAGAIN at the limit (the   *)
(* code logs and goes on); a read takes the whole count.                   *)

EventfdWrite ==
    wakeupFd_' = IF wakeupFd_ < EventfdMax THEN wakeupFd_ + 1 ELSE wakeupFd_

-----------------------------------------------------------------------------
(* Operations of the other threads.                                        *)

\* queueInLoop, and runInLoop off the loop thread: the push under mutex_.
QueueInLoop(c, t) ==
    /\ caller[c] = "free"
    /\ Fresh(t)
    /\ pendingFunctors_' = Append(pendingFunctors_, t)
    /\ caller' = [caller EXCEPT ![c] = "wakeup"]
    /\ UNCHANGED <<pc, looping_, quit_, callingPendingFunctors_, functors,
                   activeChannels_, wakeupFd_, called, early>>

\* Mutant: quit() stores quit_ and wakes nobody.
MutantQuit(c) ==
    /\ caller[c] = "free"
    /\ quit_' = TRUE
    /\ UNCHANGED <<pc, caller, looping_, callingPendingFunctors_, pendingFunctors_,
                   functors, activeChannels_, wakeupFd_, called, early>>

\* quit() off the loop thread: the store; the wakeup is still to come.
Quit(c) ==
    /\ caller[c] = "free"
    /\ quit_' = TRUE
    /\ caller' = [caller EXCEPT ![c] = "wakeup"]
    /\ UNCHANGED <<pc, looping_, callingPendingFunctors_, pendingFunctors_, functors,
                   activeChannels_, wakeupFd_, called, early>>

\* wakeup(), the second half of the two operations above.
Wakeup(c) ==
    /\ caller[c] = "wakeup"
    /\ EventfdWrite
    /\ caller' = [caller EXCEPT ![c] = "free"]
    /\ UNCHANGED <<pc, looping_, quit_, callingPendingFunctors_, pendingFunctors_,
                   functors, activeChannels_, called, early>>

-----------------------------------------------------------------------------
(* Operations called by user code on the loop thread.                      *)

\* Mutant: the loop's own thread is never woken.
MutantOwnNeedsWakeup == FALSE

\* !isInLoopThread() || callingPendingFunctors_, on the loop thread.
OwnNeedsWakeup == callingPendingFunctors_

\* queueInLoop: no wakeup unless the loop is calling pending functors.
QueueInLoopOwn(t) ==
    /\ pc \in UserCode
    /\ Fresh(t)
    /\ pendingFunctors_' = Append(pendingFunctors_, t)
    /\ IF OwnNeedsWakeup THEN EventfdWrite ELSE UNCHANGED wakeupFd_
    /\ early' = (early \/ pc = "outside")
    /\ UNCHANGED <<pc, caller, looping_, quit_, callingPendingFunctors_, functors,
                   activeChannels_, called>>

\* runInLoop: the functor is called on the spot.
RunInLoopOwn(t) ==
    /\ pc \in UserCode
    /\ Fresh(t)
    /\ called' = Append(called, t)
    /\ UNCHANGED <<pc, caller, looping_, quit_, callingPendingFunctors_, pendingFunctors_,
                   functors, activeChannels_, wakeupFd_, early>>

\* quit: no wakeup, the loop sees quit_ when this iteration ends.
QuitOwn ==
    /\ pc \in UserCode
    /\ quit_' = TRUE
    /\ UNCHANGED <<pc, caller, looping_, callingPendingFunctors_, pendingFunctors_,
                   functors, activeChannels_, wakeupFd_, called, early>>

-----------------------------------------------------------------------------
(* loop(), one action per step another thread can observe.                 *)

\* looping_ = true.
EnterLoop ==
    /\ pc = "outside"
    /\ pc' = "entering"
    /\ looping_' = TRUE
    /\ UNCHANGED <<caller, quit_, callingPendingFunctors_, pendingFunctors_, functors,
                   activeChannels_, wakeupFd_, called, early>>

\* quit_ = false: a quit() that came before this store is forgotten.
ClearQuit ==
    /\ pc = "entering"
    /\ pc' = "check"
    /\ quit_' = FALSE
    /\ UNCHANGED <<caller, looping_, callingPendingFunctors_, pendingFunctors_, functors,
                   activeChannels_, wakeupFd_, called, early>>

\* Mutant: loop() iterates for ever.
MutantCheckQuit ==
    /\ pc = "check"
    /\ pc' = "poll"
    /\ activeChannels_' = {}
    /\ UNCHANGED <<caller, looping_, quit_, callingPendingFunctors_, pendingFunctors_,
                   functors, wakeupFd_, called, early>>

\* while(!quit_): one more iteration, or leave the loop.
CheckQuit ==
    /\ pc = "check"
    /\ IF quit_
       THEN /\ pc' = "outside"
            /\ looping_' = FALSE
            /\ UNCHANGED activeChannels_
       ELSE /\ pc' = "poll"
            /\ activeChannels_' = {}
            /\ UNCHANGED looping_
    /\ UNCHANGED <<caller, quit_, callingPendingFunctors_, pendingFunctors_, functors,
                   wakeupFd_, called, early>>

\* epoll_wait returns with some of the ready channels.  The event list may be
\* too short for all of them, so any non-empty part of the ready set may come.
PollEvents(ready) ==
    /\ pc = "poll"
    /\ ready # {}
    /\ WakeupChannel \in ready => wakeupFd_ > 0
    /\ activeChannels_' = ready
    /\ pc' = "dispatch"
    /\ UNCHANGED <<caller, looping_, quit_, callingPendingFunctors_, pendingFunctors_,
                   functors, wakeupFd_, called, early>>

\* epoll_wait returns after kPollTimeoutMs, or interrupted (EINTR): no channel.
PollNothing ==
    /\ pc = "poll"
    /\ activeChannels_' = {}
    /\ pc' = "dispatch"
    /\ UNCHANGED <<caller, looping_, quit_, callingPendingFunctors_, pendingFunctors_,
                   functors, wakeupFd_, called, early>>

\* wakeupChannel_->handleEvent: EventLoop::handleRead empties the eventfd.
HandleRead ==
    /\ pc = "dispatch"
    /\ WakeupChannel \in activeChannels_
    /\ activeChannels_' = activeChannels_ \ {WakeupChannel}
    /\ wakeupFd_' = 0
    /\ UNCHANGED <<pc, caller, looping_, quit_, callingPendingFunctors_, pendingFunctors_,
                   functors, called, early>>

\* channel->handleEvent of another channel: its callback is user code.
HandleEvent(ch) ==
    /\ pc = "dispatch"
    /\ ch \in activeChannels_ \ {WakeupChannel}
    /\ activeChannels_' = activeChannels_ \ {ch}
    /\ pc' = "io"
    /\ UNCHANGED <<caller, looping_, quit_, callingPendingFunctors_, pendingFunctors_,
                   functors, wakeupFd_, called, early>>

HandleEventReturns ==
    /\ pc = "io"
    /\ pc' = "dispatch"
    /\ UNCHANGED <<caller, looping_, quit_, callingPendingFunctors_, pendingFunctors_,
                   functors, activeChannels_, wakeupFd_, called, early>>

\* doPendingFunctors begins: callingPendingFunctors_ = true.
BeginPendingFunctors ==
    /\ pc = "dispatch"
    /\ activeChannels_ = {}
    /\ callingPendingFunctors_' = TRUE
    /\ pc' = "swap"
    /\ UNCHANGED <<caller, looping_, quit_, pendingFunctors_, functors, activeChannels_,
                   wakeupFd_, called, early>>

\* Mutant: the shared vector is copied and not emptied.
MutantSwapFunctors ==
    /\ pc = "swap"
    /\ functors' = pendingFunctors_
    /\ early' = FALSE
    /\ pc' = "run"
    /\ UNCHANGED <<caller, looping_, quit_, callingPendingFunctors_, pendingFunctors_,
                   activeChannels_, wakeupFd_, called>>

\* functors.swap(pendingFunctors_), under mutex_; the local vector was empty.
SwapFunctors ==
    /\ pc = "swap"
    /\ functors' = pendingFunctors_
    /\ pendingFunctors_' = <<>>
    /\ early' = FALSE
    /\ pc' = "run"
    /\ UNCHANGED <<caller, looping_, quit_, callingPendingFunctors_, activeChannels_,
                   wakeupFd_, called>>

\* functor(): the next one of the batch is called.
CallFunctor ==
    /\ pc = "run"
    /\ functors # <<>>
    /\ called' = Append(called, Head(functors))
    /\ functors' = Tail(functors)
    /\ pc' = "task"
    /\ UNCHANGED <<caller, looping_, quit_, callingPendingFunctors_, pendingFunctors_,
                   activeChannels_, wakeupFd_, early>>

FunctorReturns ==
    /\ pc = "task"
    /\ pc' = "run"
    /\ UNCHANGED <<caller, looping_, quit_, callingPendingFunctors_, pendingFunctors_,
                   functors, activeChannels_, wakeupFd_, called, early>>

\* Mutant: callingPendingFunctors_ stays set after the last functor.
MutantKeepsCalling ==
    /\ pc = "run"
    /\ functors = <<>>
    /\ pc' = "check"
    /\ UNCHANGED <<caller, looping_, quit_, callingPendingFunctors_, pendingFunctors_, functors,
                   activeChannels_, wakeupFd_, called, early>>

\* callingPendingFunctors_ = false, and back to the loop's condition.
EndPendingFunctors ==
    /\ pc = "run"
    /\ functors = <<>>
    /\ callingPendingFunctors_' = FALSE
    /\ pc' = "check"
    /\ UNCHANGED <<caller, looping_, quit_, pendingFunctors_, functors, activeChannels_,
                   wakeupFd_, called, early>>

-----------------------------------------------------------------------------
\* What epoll_wait may report.
PollResults == SUBSET (IoChannels \cup {WakeupChannel})

\* The steps loop() takes by itself between two calls of epoll_wait.
RunStep ==
    \/ ClearQuit
    \/ CheckQuit
    \/ HandleRead
    \/ \E ch \in IoChannels : HandleEvent(ch)
    \/ HandleEventReturns
    \/ BeginPendingFunctors
    \/ SwapFunctors
    \/ CallFunctor
    \/ FunctorReturns
    \/ EndPendingFunctors

LoopStep ==
    \/ RunStep
    \/ \E ready \in PollResults : PollEvents(ready)
    \/ PollNothing

\* epoll_wait returns because the eventfd is readable.
PollWakeup == \E ready \in PollResults : WakeupChannel \in ready /\ PollEvents(ready)

\* The steps user code takes on the loop thread.
OwnStep ==
    \/ EnterLoop
    \/ QuitOwn
    \/ \E t \in Tasks : QueueInLoopOwn(t) \/ RunInLoopOwn(t)

CallerStep(c) ==
    \/ Quit(c)
    \/ Wakeup(c)
    \/ \E t \in Tasks : QueueInLoop(c, t)

Next ==
    \/ LoopStep
    \/ OwnStep
    \/ \E c \in Callers : CallerStep(c)

(***************************************************************************)
(* Fairness: a thread inside loop() keeps running (user callbacks return), *)
(* epoll_wait returns when the eventfd is readable, and a thread inside    *)
(* queueInLoop or quit gets to its wakeup().  Nobody has to call anything, *)
(* nobody has to call loop(), no channel has to become ready, and nothing  *)
(* rests on kPollTimeoutMs: the timeout may happen and need not.           *)
(***************************************************************************)
Fairness ==
    /\ WF_vars(RunStep \/ PollWakeup)
    /\ \A c \in Callers : WF_vars(Wakeup(c))

Spec == Init /\ [][Next]_vars

FairSpec == Spec /\ Fairness

-----------------------------------------------------------------------------
(* Properties.                                                             *)

(***************************************************************************)
(* The types of the loop's members and of the threads' control points, and *)
(* the loop's flags tell the truth whenever another thread reads them:     *)
(* looping_ is set from entering loop() to leaving it, and                 *)
(* callingPendingFunctors_ exactly while a batch is swapped out and        *)
(* called, however often loop() is left and entered again.                 *)
(***************************************************************************)
TypeOK ==
    /\ pc \in ControlPoints
    /\ caller \in [Callers -> {"free", "wakeup"}]
    /\ looping_ \in BOOLEAN /\ (looping_ <=> pc # "outside")
    /\ quit_ \in BOOLEAN
    /\ callingPendingFunctors_ \in BOOLEAN
    /\ callingPendingFunctors_ <=> pc \in {"swap", "run", "task"}
    /\ pendingFunctors_ \in Seq(Tasks)
    /\ functors \in Seq(Tasks)
    /\ activeChannels_ \in SUBSET (IoChannels \cup {WakeupChannel})
    /\ wakeupFd_ \in 0 .. EventfdMax
    /\ called \in Seq(Tasks)
    /\ early \in BOOLEAN

\* A write of the eventfd has been made, or a thread is on its way to it.
WakeupDue == wakeupFd_ > 0 \/ \E c \in Callers : caller[c] = "wakeup"

(***************************************************************************)
(* The loop never sleeps on queued work: when it is in epoll_wait and      *)
(* pendingFunctors_ is not empty, the eventfd is readable or some thread   *)
(* is about to write it.  This is what the test of isInLoopThread() and    *)
(* callingPendingFunctors_ in queueInLoop is for.  The one exception is a  *)
(* functor the loop's own thread queued before it called loop().           *)
(***************************************************************************)
NoLostWakeup ==
    pc = "poll" /\ pendingFunctors_ # <<>> /\ ~early => WakeupDue

(***************************************************************************)
(* A quit() that finds the loop running does not leave it asleep either:   *)
(* in epoll_wait with quit_ set, a wakeup has been or is being written.    *)
(***************************************************************************)
NoLostQuit ==
    pc = "poll" /\ quit_ => WakeupDue

(***************************************************************************)
(* queueInLoop is FIFO and exactly once, and runInLoop on the loop thread  *)
(* is immediate: the two vectors of EventLoop, one shared and one local to *)
(* doPendingFunctors, behave like the single queue of TaskQueue.           *)
(***************************************************************************)
Abstract == INSTANCE TaskQueue WITH queue <- functors \o pendingFunctors_
ImplementsTaskQueue == Abstract!Spec

(***************************************************************************)
(* Every functor handed to queueInLoop is called, unless the loop is left  *)
(* (or was never entered): the wakeup brings the loop to it, no timeout    *)
(* has to.  A batch with a functor that the loop's own thread queued       *)
(* before loop() is excepted, that one waits for the timeout.              *)
(***************************************************************************)
QueuedIsCalled ==
    \A t \in Tasks :
        (t \in Range(pendingFunctors_) /\ ~early) ~> (t \in Range(called) \/ pc = "outside")

(***************************************************************************)
(* A quit() stored after loop() has cleared quit_ makes it return, again   *)
(* without the help of a timeout.  (One stored earlier, even with looping_ *)
(* already set, is erased: what comes of that is TcpServer.tla's           *)
(* DestructorReturns.)                                                     *)
(***************************************************************************)
QuitLeavesLoop ==
    (quit_ /\ pc \notin {"outside", "entering"}) ~> pc = "outside"

=============================================================================
