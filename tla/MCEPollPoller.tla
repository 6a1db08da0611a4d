--------------------------- MODULE MCEPollPoller ---------------------------
(***************************************************************************)
(* EPollPoller with three channel objects on two fds, so that an fd is     *)
(* closed and given out again to another object, and an event list of      *)
(* length one, so that it is too short and grows.                          *)
(***************************************************************************)
EXTENDS EPollPoller, TLC

CONSTANTS ch1, ch2, ch3, fd1, fd2

MCChannels == {ch1, ch2, ch3}
MCFds == {fd1, fd2}

\* Channels are interchangeable, and so are fds.
Symmetry == Permutations(MCChannels) \cup Permutations(MCFds)

=============================================================================
