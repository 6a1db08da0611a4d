--------------------------- MODULE EventLoopProofs ---------------------------
(***************************************************************************)
(* Proofs about EventLoop, for every set of threads, functors and channels *)
(* and every eventfd limit: no wakeup is lost, and the loop implements the *)
(* FIFO of TaskQueue.                                                      *)
(***************************************************************************)
EXTENDS EventLoop, SequenceTheorems, TLAPS

(***************************************************************************)
(* The inductive invariant.  NoLostWakeup speaks of epoll_wait only; to be *)
(* preserved it has to be known from the moment doPendingFunctors has      *)
(* swapped the vectors (run, task) over the loop's condition (check) to    *)
(* epoll_wait (poll), and across a loop that is left and entered again     *)
(* (outside, entering).  Between epoll_wait and the swap nothing is claimed: there   *)
(* handleRead may have emptied the eventfd, and the swap will take all.    *)
(***************************************************************************)

\* The local vector of doPendingFunctors is empty outside doPendingFunctors.
BatchIsLocal == pc \notin {"run", "task"} => functors = <<>>

\* After the swap, whatever is queued has been or is being announced.
Announced ==
    pc \in {"outside", "entering", "check", "poll", "run", "task"}
        /\ pendingFunctors_ # <<>> /\ ~early => WakeupDue

IInv ==
    /\ TypeOK
    /\ BatchIsLocal
    /\ Announced
    /\ NoLostQuit

-----------------------------------------------------------------------------
(* TypeOK, the flags' truth included, is inductive by itself.              *)

\* The vectors of functors start out empty.
LEMMA EmptyQueue == <<>> \in Seq(Tasks)
BY EmptySeq

\* Every step of every thread leaves the loop's members in their types, and its
\* flags true.
LEMMA TypeOKStep == TypeOK /\ [Next]_vars => TypeOK'
<1> USE EventfdMaxAssumption DEF TypeOK, ControlPoints, UserCode
<1> SUFFICES ASSUME TypeOK, [Next]_vars
             PROVE  TypeOK'
  OBVIOUS
<1>1. ASSUME NEW c \in Callers, NEW t \in Tasks, QueueInLoop(c, t)
      PROVE  TypeOK'
  BY <1>1 DEF QueueInLoop
<1>2. ASSUME NEW c \in Callers, Quit(c)
      PROVE  TypeOK'
  BY <1>2 DEF Quit
<1>3. ASSUME NEW c \in Callers, Wakeup(c)
      PROVE  TypeOK'
  BY <1>3 DEF Wakeup, EventfdWrite
<1>4. ASSUME NEW t \in Tasks, QueueInLoopOwn(t)
      PROVE  TypeOK'
  BY <1>4 DEF QueueInLoopOwn, OwnNeedsWakeup, EventfdWrite
<1>5. ASSUME NEW t \in Tasks, RunInLoopOwn(t)
      PROVE  TypeOK'
  BY <1>5 DEF RunInLoopOwn
<1>6. CASE QuitOwn
  BY <1>6 DEF QuitOwn
<1>7. CASE EnterLoop
  BY <1>7 DEF EnterLoop
<1>20. CASE ClearQuit
  BY <1>20 DEF ClearQuit
<1>8. CASE CheckQuit
  BY <1>8 DEF CheckQuit
<1>9. ASSUME NEW ready \in SUBSET (IoChannels \cup {WakeupChannel}), PollEvents(ready)
      PROVE  TypeOK'
  BY <1>9 DEF PollEvents
<1>10. CASE PollNothing
  BY <1>10 DEF PollNothing
<1>11. CASE HandleRead
  BY <1>11 DEF HandleRead
<1>12. ASSUME NEW ch \in IoChannels, HandleEvent(ch)
       PROVE  TypeOK'
  BY <1>12 DEF HandleEvent
<1>13. CASE HandleEventReturns
  BY <1>13 DEF HandleEventReturns
<1>14. CASE BeginPendingFunctors
  BY <1>14 DEF BeginPendingFunctors
<1>15. CASE SwapFunctors
  BY <1>15, EmptyQueue DEF SwapFunctors
<1>16. CASE CallFunctor
  BY <1>16, HeadTailProperties DEF CallFunctor
<1>17. CASE FunctorReturns
  BY <1>17 DEF FunctorReturns
<1>18. CASE EndPendingFunctors
  BY <1>18 DEF EndPendingFunctors
<1>19. CASE UNCHANGED vars
  BY <1>19 DEF vars
<1> QED
  BY <1>1, <1>2, <1>3, <1>4, <1>5, <1>6, <1>7, <1>8, <1>9, <1>10, <1>11, <1>12,
     <1>13, <1>14, <1>15, <1>16, <1>17, <1>18, <1>19, <1>20
  DEF Next, LoopStep, RunStep, PollResults, OwnStep, CallerStep

\* The members of EventLoop keep their types, and its flags tell where the loop
\* is, in every execution.
THEOREM TypeCorrect == Spec => []TypeOK
<1>1. Init => TypeOK
  <2>1. 0 \in 0 .. EventfdMax
    BY EventfdMaxAssumption
  <2> QED
    BY <2>1, EmptyQueue, Zenon DEF Init, TypeOK, ControlPoints
<1> QED
  BY <1>1, TypeOKStep, PTL DEF Spec

-----------------------------------------------------------------------------
(* The wakeup protocol.                                                    *)

\* An eventfd that has been written is readable.
LEMMA WriteMakesReadable ==
    ASSUME TypeOK, EventfdWrite
    PROVE  wakeupFd_' > 0
BY EventfdMaxAssumption DEF TypeOK, EventfdWrite

\* A thread that starts towards its wakeup, or gets there, keeps WakeupDue.
LEMMA WakeupDueByCaller ==
    ASSUME TypeOK, NEW c \in Callers,
           \/ caller' = [caller EXCEPT ![c] = "wakeup"]
           \/ EventfdWrite
    PROVE  WakeupDue'
<1>1. CASE caller' = [caller EXCEPT ![c] = "wakeup"]
  <2>1. caller'[c] = "wakeup"
    BY <1>1 DEF TypeOK
  <2> QED
    BY <2>1 DEF WakeupDue
<1>2. CASE EventfdWrite
  BY <1>2, WriteMakesReadable DEF WakeupDue
<1> QED
  BY <1>1, <1>2

\* WakeupDue survives every step that reads no eventfd and moves no caller.
LEMMA WakeupDueKept ==
    ASSUME WakeupDue, UNCHANGED <<wakeupFd_, caller>>
    PROVE  WakeupDue'
BY DEF WakeupDue

\* Every step of every thread preserves the inductive invariant.
LEMMA IInvStep == IInv /\ [Next]_vars => IInv'
<1> SUFFICES ASSUME IInv, [Next]_vars
             PROVE  IInv'
  OBVIOUS
<1> USE DEF IInv, BatchIsLocal, Announced, NoLostQuit, UserCode
<1>0. TypeOK'
  BY TypeOKStep
<1>1. ASSUME NEW c \in Callers, NEW t \in Tasks, QueueInLoop(c, t)
      PROVE  IInv'
  <2>1. WakeupDue'
    BY <1>1, WakeupDueByCaller DEF QueueInLoop
  <2> QED
    BY <1>0, <1>1, <2>1 DEF QueueInLoop
<1>2. ASSUME NEW c \in Callers, Quit(c)
      PROVE  IInv'
  <2>1. WakeupDue'
    BY <1>2, WakeupDueByCaller DEF Quit
  <2> QED
    BY <1>0, <1>2, <2>1 DEF Quit
<1>3. ASSUME NEW c \in Callers, Wakeup(c)
      PROVE  IInv'
  <2>1. WakeupDue'
    BY <1>3, WakeupDueByCaller DEF Wakeup
  <2> QED
    BY <1>0, <1>3, <2>1 DEF Wakeup
<1>4. ASSUME NEW t \in Tasks, QueueInLoopOwn(t)
      PROVE  IInv'
  <2>1. CASE pc = "task"
    <3>1. EventfdWrite
      BY <1>4, <2>1 DEF QueueInLoopOwn, OwnNeedsWakeup, TypeOK
    <3>2. WakeupDue'
      BY <3>1, WriteMakesReadable DEF WakeupDue
    <3> QED
      BY <1>0, <1>4, <2>1, <3>2 DEF QueueInLoopOwn
  <2>2. CASE pc = "outside"
    BY <1>0, <1>4, <2>2 DEF QueueInLoopOwn
  <2>3. CASE pc = "io"
    BY <1>0, <1>4, <2>3 DEF QueueInLoopOwn
  <2> QED
    BY <1>4, <2>1, <2>2, <2>3 DEF QueueInLoopOwn
<1>5. ASSUME NEW t \in Tasks, RunInLoopOwn(t)
      PROVE  IInv'
  BY <1>0, <1>5, WakeupDueKept DEF RunInLoopOwn
<1>6. CASE QuitOwn
  BY <1>0, <1>6, WakeupDueKept DEF QuitOwn
<1>7. CASE EnterLoop
  BY <1>0, <1>7, WakeupDueKept DEF EnterLoop
<1>20. CASE ClearQuit
  BY <1>0, <1>20, WakeupDueKept DEF ClearQuit
<1>8. CASE CheckQuit
  BY <1>0, <1>8, WakeupDueKept DEF CheckQuit
<1>9. ASSUME NEW ready \in SUBSET (IoChannels \cup {WakeupChannel}), PollEvents(ready)
      PROVE  IInv'
  BY <1>0, <1>9 DEF PollEvents
<1>10. CASE PollNothing
  BY <1>0, <1>10 DEF PollNothing
<1>11. CASE HandleRead
  BY <1>0, <1>11 DEF HandleRead
<1>12. ASSUME NEW ch \in IoChannels, HandleEvent(ch)
       PROVE  IInv'
  BY <1>0, <1>12 DEF HandleEvent
<1>13. CASE HandleEventReturns
  BY <1>0, <1>13 DEF HandleEventReturns
<1>14. CASE BeginPendingFunctors
  BY <1>0, <1>14 DEF BeginPendingFunctors
<1>15. CASE SwapFunctors
  BY <1>0, <1>15 DEF SwapFunctors
<1>16. CASE CallFunctor
  BY <1>0, <1>16, WakeupDueKept DEF CallFunctor
<1>17. CASE FunctorReturns
  BY <1>0, <1>17, WakeupDueKept DEF FunctorReturns
<1>18. CASE EndPendingFunctors
  BY <1>0, <1>18, WakeupDueKept DEF EndPendingFunctors
<1>19. CASE UNCHANGED vars
  BY <1>0, <1>19, WakeupDueKept DEF vars
<1> QED
  BY <1>1, <1>2, <1>3, <1>4, <1>5, <1>6, <1>7, <1>8, <1>9, <1>10, <1>11, <1>12,
     <1>13, <1>14, <1>15, <1>16, <1>17, <1>18, <1>19, <1>20
  DEF Next, LoopStep, RunStep, PollResults, OwnStep, CallerStep

\* The inductive invariant holds in every execution.
LEMMA IInvCorrect == Spec => []IInv
<1>1. Init /\ TypeOK => IInv
  BY DEF Init, IInv, BatchIsLocal, Announced, NoLostQuit
<1> QED
  BY <1>1, IInvStep, TypeCorrect, PTL DEF Spec

\* queueInLoop never leaves a functor behind a sleeping loop.
THEOREM WakeupNeverLost == Spec => []NoLostWakeup
<1>1. IInv => NoLostWakeup
  BY DEF IInv, Announced, NoLostWakeup
<1> QED
  BY <1>1, IInvCorrect, PTL

\* quit() never leaves a running loop asleep.
THEOREM QuitNeverLost == Spec => []NoLostQuit
<1>1. IInv => NoLostQuit
  BY DEF IInv
<1> QED
  BY <1>1, IInvCorrect, PTL

-----------------------------------------------------------------------------
(* The refinement of TaskQueue.  The mapping is functors \o pendingFunctors_: *)
(* what is left of the batch, then what was queued behind it.              *)

\* Queueing behind a batch is queueing at the end of the mapped queue.
LEMMA QueueBehindBatch ==
    ASSUME NEW s \in Seq(Tasks), NEW u \in Seq(Tasks), NEW t \in Tasks
    PROVE  s \o Append(u, t) = Append(s \o u, t)
<1>1. <<t>> \in Seq(Tasks) /\ s \o u \in Seq(Tasks)
  BY ConcatProperties
<1>2. Append(u, t) = u \o <<t>> /\ Append(s \o u, t) = (s \o u) \o <<t>>
  BY <1>1, AppendIsConcat
<1> QED
  BY <1>1, <1>2, ConcatAssociative

\* Calling the batch's first functor is calling the mapped queue's first one.
LEMMA CallFromBatch ==
    ASSUME NEW s \in Seq(Tasks), NEW u \in Seq(Tasks), s # <<>>
    PROVE  /\ s \o u # <<>>
           /\ Head(s \o u) = Head(s)
           /\ Tail(s \o u) = Tail(s) \o u
<1>1. /\ s \o u \in Seq(Tasks)
      /\ Len(s \o u) = Len(s) + Len(u)
      /\ Len(s) \in Nat \ {0}
      /\ Len(u) \in Nat
  BY ConcatProperties, LenProperties, EmptySeq
<1>2. s \o u # <<>>
  BY <1>1, EmptySeq
<1>3. Head(s \o u) = Head(s)
  BY <1>1, <1>2, ConcatProperties
<1>4. /\ Tail(s \o u) \in Seq(Tasks)
      /\ Tail(s) \in Seq(Tasks)
      /\ Tail(s) \o u \in Seq(Tasks)
      /\ Len(Tail(s \o u)) = Len(s) + Len(u) - 1
      /\ Len(Tail(s) \o u) = Len(s) + Len(u) - 1
  BY <1>1, <1>2, HeadTailProperties, ConcatProperties
<1>5. ASSUME NEW i \in 1 .. Len(s) + Len(u) - 1
      PROVE  Tail(s \o u)[i] = (Tail(s) \o u)[i]
  BY <1>1, <1>2, <1>4, HeadTailProperties, ConcatProperties
<1>6. Tail(s \o u) = Tail(s) \o u
  BY <1>1, <1>4, <1>5, SeqEqual
<1> QED
  BY <1>2, <1>3, <1>6

\* A functor nobody has handed over is new to the mapped queue too.
LEMMA FreshIsNew ==
    ASSUME TypeOK, NEW t \in Tasks, Fresh(t)
    PROVE  t \notin Abstract!Handed
<1>1. Range(functors \o pendingFunctors_) = Range(functors) \cup Range(pendingFunctors_)
  BY RangeConcatenation DEF TypeOK
<1> QED
  BY <1>1 DEF Fresh, Abstract!Handed, Abstract!Range, Range

\* Every step of EventLoop is a step of TaskQueue, or changes nothing there.
LEMMA RefinementStep == IInv /\ [Next]_vars => [Abstract!Next]_(Abstract!vars)
<1> SUFFICES ASSUME IInv, [Next]_vars
             PROVE  Abstract!Next \/ UNCHANGED Abstract!vars
  OBVIOUS
<1> USE DEF IInv, TypeOK
<1>1. ASSUME NEW c \in Callers, NEW t \in Tasks, QueueInLoop(c, t)
      PROVE  Abstract!Next
  <2>1. Abstract!Post(t)
    BY <1>1, FreshIsNew, QueueBehindBatch DEF QueueInLoop, Abstract!Post
  <2> QED
    BY <2>1 DEF Abstract!Next
<1>2. ASSUME NEW t \in Tasks, QueueInLoopOwn(t)
      PROVE  Abstract!Next
  <2>1. Abstract!Post(t)
    BY <1>2, FreshIsNew, QueueBehindBatch DEF QueueInLoopOwn, Abstract!Post
  <2> QED
    BY <2>1 DEF Abstract!Next
<1>3. ASSUME NEW t \in Tasks, RunInLoopOwn(t)
      PROVE  Abstract!Next
  <2>1. Abstract!CallNow(t)
    BY <1>3, FreshIsNew DEF RunInLoopOwn, Abstract!CallNow
  <2> QED
    BY <2>1 DEF Abstract!Next
<1>4. CASE CallFunctor
  <2>1. Abstract!Call
    BY <1>4, CallFromBatch DEF CallFunctor, Abstract!Call
  <2> QED
    BY <2>1 DEF Abstract!Next
<1>5. CASE SwapFunctors
  <2>1. functors = <<>>
    BY <1>5 DEF SwapFunctors, BatchIsLocal
  <2>2. functors \o pendingFunctors_ = functors' \o pendingFunctors_'
    BY <1>5, <2>1, ConcatEmptySeq DEF SwapFunctors
  <2> QED
    BY <1>5, <2>2 DEF SwapFunctors, Abstract!vars
<1>6. ASSUME UNCHANGED <<functors, pendingFunctors_, called>>
      PROVE  UNCHANGED Abstract!vars
  BY <1>6 DEF Abstract!vars
<1>7. ASSUME \/ \E c \in Callers : Quit(c) \/ Wakeup(c)
             \/ QuitOwn \/ EnterLoop \/ ClearQuit \/ CheckQuit
             \/ \E ready \in SUBSET (IoChannels \cup {WakeupChannel}) : PollEvents(ready)
             \/ PollNothing \/ HandleRead
             \/ \E ch \in IoChannels : HandleEvent(ch)
             \/ HandleEventReturns \/ BeginPendingFunctors
             \/ FunctorReturns \/ EndPendingFunctors
             \/ UNCHANGED vars
      PROVE  UNCHANGED <<functors, pendingFunctors_, called>>
  BY <1>7 DEF Quit, Wakeup, QuitOwn, EnterLoop, ClearQuit, CheckQuit, PollEvents, PollNothing,
              HandleRead, HandleEvent, HandleEventReturns, BeginPendingFunctors,
              FunctorReturns, EndPendingFunctors, vars
<1> QED
  BY <1>1, <1>2, <1>3, <1>4, <1>5, <1>6, <1>7
  DEF Next, LoopStep, RunStep, PollResults, OwnStep, CallerStep

\* The loop's two vectors implement the FIFO, exactly-once queue of TaskQueue.
THEOREM QueueIsFifo == Spec => ImplementsTaskQueue
<1>1. Init => Abstract!Init
  BY EmptyQueue, ConcatEmptySeq DEF Init, Abstract!Init
<1> QED
  BY <1>1, RefinementStep, IInvCorrect, PTL DEF Spec, ImplementsTaskQueue, Abstract!Spec

=============================================================================
