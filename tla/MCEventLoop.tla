----------------------------- MODULE MCEventLoop -----------------------------
(***************************************************************************)
(* EventLoop on a small instance: two other threads, so that two of them   *)
(* can be between their push and their wakeup at once; three functors, so  *)
(* that a batch can hold two while a third is queued behind it; one user   *)
(* channel; an eventfd that is full after two writes.                      *)
(***************************************************************************)
EXTENDS EventLoop

CONSTANTS c1, c2, t1, t2, t3, io1, wakeup

MCCallers == {c1, c2}
MCTasks == {t1, t2, t3}
MCIoChannels == {io1}
MCEventfdMax == 2

=============================================================================
