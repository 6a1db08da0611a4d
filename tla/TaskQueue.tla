------------------------------ MODULE TaskQueue ------------------------------
(***************************************************************************)
(* What an EventLoop promises its callers about the functors they hand it: *)
(*                                                                         *)
(*   - queueInLoop appends the functor to one queue;                       *)
(*   - the functors of the queue are called in queue order, one at a time, *)
(*     each exactly once;                                                  *)
(*   - runInLoop called by user code on the loop's own thread calls the    *)
(*     functor on the spot, ahead of everything in the queue.              *)
(*                                                                         *)
(* Nothing here says which thread does what, nor that there are a mutex,   *)
(* an eventfd and two vectors: EventLoop.tla implements this module.       *)
(***************************************************************************)
EXTENDS Sequences, Functions

CONSTANT Tasks          \* the functors, each one handed over at most once

VARIABLES
    queue,              \* functors accepted and not yet called, oldest first
    called              \* functors called so far, in the order of the calls

vars == <<queue, called>>

Init ==
    /\ queue = <<>>
    /\ called = <<>>

Handed == Range(queue) \cup Range(called)

Post(t) ==
    /\ t \notin Handed
    /\ queue' = Append(queue, t)
    /\ UNCHANGED called

Call ==
    /\ queue # <<>>
    /\ called' = Append(called, Head(queue))
    /\ queue' = Tail(queue)

CallNow(t) ==
    /\ t \notin Handed
    /\ called' = Append(called, t)
    /\ UNCHANGED queue

Next ==
    \/ \E t \in Tasks : Post(t) \/ CallNow(t)
    \/ Call

Spec == Init /\ [][Next]_vars

=============================================================================
