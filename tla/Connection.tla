----------------------------- MODULE Connection -----------------------------
(***************************************************************************)
(* What a TcpConnection promises to its user and to the peer, without its  *)
(* channel, its buffers, its loop and the threads that use it.             *)
(*                                                                         *)
(* connectionCallback_ is called twice: when the connection is up and when *)
(* it is down.  In between the connection takes bytes to send, numbered    *)
(* from 1, and calls messageCallback_.  The peer receives the bytes taken, *)
(* each once and in order, if perhaps not all of them.  Once the           *)
(* connection is out of its poller there are no more callbacks.            *)
(***************************************************************************)
EXTENDS Naturals, Sequences

VARIABLES
    reports,            \* calls of connectionCallback_
    talking,            \* a call of messageCallback_ is under way
    accepted,           \* bytes taken to be sent
    delivered,          \* the bytes the peer has received
    released            \* the connection is out of its poller

vars == <<reports, talking, accepted, delivered, released>>

Init ==
    /\ reports = 0
    /\ talking = FALSE
    /\ accepted = 0
    /\ delivered = <<>>
    /\ released = FALSE

Up == reports = 1

\* The user is told that the connection is up, or down.
Report ==
    /\ reports < 2
    /\ ~talking /\ ~released
    /\ reports' = reports + 1
    /\ UNCHANGED <<talking, accepted, delivered, released>>

BeginMessage ==
    /\ Up
    /\ ~talking /\ ~released
    /\ talking' = TRUE
    /\ UNCHANGED <<reports, accepted, delivered, released>>

EndMessage ==
    /\ talking
    /\ talking' = FALSE
    /\ UNCHANGED <<reports, accepted, delivered, released>>

\* Some bytes are taken on.
Accept ==
    /\ Up
    /\ accepted' \in Nat /\ accepted' > accepted
    /\ UNCHANGED <<reports, talking, delivered, released>>

Deliver ==
    /\ Len(delivered) < accepted
    /\ delivered' = Append(delivered, Len(delivered) + 1)
    /\ UNCHANGED <<reports, talking, accepted, released>>

Release ==
    /\ reports > 0
    /\ ~talking
    /\ released' = TRUE
    /\ UNCHANGED <<reports, talking, accepted, delivered>>

Next ==
    \/ Report
    \/ BeginMessage
    \/ EndMessage
    \/ Accept
    \/ Deliver
    \/ Release

Spec == Init /\ [][Next]_vars

=============================================================================
