---------------------------- MODULE EPollPoller ----------------------------
(***************************************************************************)
(* EPollPoller.cc, Poller.cc and Channel.h: the poller of one event loop   *)
(* and the channels registered with it.  All of this runs on the loop's    *)
(* thread; the callers (acceptor, connections, the wakeup channel) call    *)
(* the channels' operations in any order.                                  *)
(*                                                                         *)
(* Three tables have to agree: events_ and index_ of the channels, the     *)
(* poller's map channels_, and the kernel's interest list, which holds for *)
(* each fd the pointer and the events of the last successful epoll_ctl.    *)
(***************************************************************************)
EXTENDS Naturals, FiniteSets

CONSTANTS
    Channels,           \* Channel objects
    Fds,                \* file descriptors
    NoChannel,          \* no pointer
    NoFd,               \* the object does not exist (yet, or any more)
    kInitEventListSize  \* initial length of the event list (16)

ASSUME NoneAssumption == NoChannel \notin Channels /\ NoFd \notin Fds
ASSUME SizeAssumption == kInitEventListSize \in Nat \ {0}

VARIABLES
    fd_,                \* of each channel; NoFd: not constructed, or destroyed
    events_,            \* of each channel: subset of {"R", "W"}
    index_,             \* of each channel
    channels_,          \* the poller's map from fd to channel
    registered,         \* kernel: data.ptr of the registration of an fd
    interest,           \* kernel: events of the registration of an fd
    listSize,           \* events_.size() of the poller
    activeChannels_,    \* what the last poll returned
    exited              \* LOG_FATAL has ended the process

vars == <<fd_, events_, index_, channels_, registered, interest, listSize,
          activeChannels_, exited>>

kReadEvent == {"R"}
kWriteEvent == {"W"}
Events == {"R", "W"}

Indices == {"kNew", "kAdded", "kDeleted"}

Init ==
    /\ fd_ = [ch \in Channels |-> NoFd]
    /\ events_ = [ch \in Channels |-> {}]
    /\ index_ = [ch \in Channels |-> "kNew"]
    /\ channels_ = [fd \in Fds |-> NoChannel]
    /\ registered = [fd \in Fds |-> NoChannel]
    /\ interest = [fd \in Fds |-> {}]
    /\ listSize = kInitEventListSize
    /\ activeChannels_ = {}
    /\ exited = FALSE

\* The channel exists and the process runs.
Usable(ch) == ~exited /\ fd_[ch] # NoFd

hasChannel(ch) == fd_[ch] # NoFd /\ channels_[fd_[ch]] = ch

-----------------------------------------------------------------------------
(* EPollPoller::update: epoll_ctl.  ADD fails on a registered fd and MOD   *)
(* on an unregistered one, and the failure of either is LOG_FATAL; DEL of  *)
(* an unregistered fd is only logged.                                      *)

EpollAdd(fd, ch, events) ==
    IF registered[fd] = NoChannel
    THEN /\ registered' = [registered EXCEPT ![fd] = ch]
         /\ interest' = [interest EXCEPT ![fd] = events]
         /\ UNCHANGED exited
    ELSE /\ exited' = TRUE
         /\ UNCHANGED <<registered, interest>>

EpollMod(fd, ch, events) ==
    IF registered[fd] # NoChannel
    THEN /\ registered' = [registered EXCEPT ![fd] = ch]
         /\ interest' = [interest EXCEPT ![fd] = events]
         /\ UNCHANGED exited
    ELSE /\ exited' = TRUE
         /\ UNCHANGED <<registered, interest>>

EpollDel(fd) ==
    /\ registered' = [registered EXCEPT ![fd] = NoChannel]
    /\ interest' = [interest EXCEPT ![fd] = {}]
    /\ UNCHANGED exited

-----------------------------------------------------------------------------
(* updateChannel and removeChannel.                                        *)

\* Mutant: the last interest is given up without a call to epoll_ctl.
MutantUpdateChannel(ch, events) ==
    IF index_[ch] \in {"kNew", "kDeleted"}
    THEN /\ channels_' = [channels_ EXCEPT ![fd_[ch]] = ch]
         /\ index_' = [index_ EXCEPT ![ch] = "kAdded"]
         /\ EpollAdd(fd_[ch], ch, events)
    ELSE /\ IF events = {}
            THEN UNCHANGED <<registered, interest, exited>>
            ELSE EpollMod(fd_[ch], ch, events)
         /\ UNCHANGED <<channels_, index_>>

\* index_ stays kAdded when the last interest goes: nothing sets kDeleted.
updateChannel(ch, events) ==
    IF index_[ch] \in {"kNew", "kDeleted"}
    THEN /\ channels_' = IF index_[ch] = "kNew"
                         THEN [channels_ EXCEPT ![fd_[ch]] = ch]
                         ELSE channels_
         /\ index_' = [index_ EXCEPT ![ch] = "kAdded"]
         /\ EpollAdd(fd_[ch], ch, events)
    ELSE /\ IF events = {}
            THEN EpollDel(fd_[ch])
            ELSE EpollMod(fd_[ch], ch, events)
         /\ UNCHANGED <<channels_, index_>>

\* Mutant: the kernel is not told.
MutantRemoveSkipsKernel(ch) ==
    /\ channels_' = [channels_ EXCEPT ![fd_[ch]] = NoChannel]
    /\ UNCHANGED <<registered, interest, exited>>

\* Mutant: the map keeps the channel.
MutantRemoveSkipsMap(ch) ==
    /\ EpollDel(fd_[ch])
    /\ UNCHANGED channels_

\* What removeChannel does for a channel that was added.
DeleteChannel(ch) ==
    /\ EpollDel(fd_[ch])
    /\ channels_' = [channels_ EXCEPT ![fd_[ch]] = NoChannel]

removeChannel(ch) ==
    /\ IF index_[ch] = "kAdded"
       THEN DeleteChannel(ch)
       ELSE UNCHANGED <<channels_, registered, interest, exited>>
    /\ index_' = [index_ EXCEPT ![ch] = "kNew"]

-----------------------------------------------------------------------------
(* The channels' operations.                                               *)

\* Channel(loop, fd), on an fd that no other channel has.
NewChannel(ch, fd) ==
    /\ ~exited
    /\ fd_[ch] = NoFd
    /\ \A other \in Channels : fd_[other] # fd
    /\ fd_' = [fd_ EXCEPT ![ch] = fd]
    /\ events_' = [events_ EXCEPT ![ch] = {}]
    /\ index_' = [index_ EXCEPT ![ch] = "kNew"]
    /\ UNCHANGED <<channels_, registered, interest, listSize, activeChannels_, exited>>

\* events_ = events; update().
SetEvents(ch, events) ==
    /\ Usable(ch)
    /\ events_' = [events_ EXCEPT ![ch] = events]
    /\ updateChannel(ch, events)
    /\ UNCHANGED <<fd_, listSize, activeChannels_>>

enableReading(ch) == SetEvents(ch, events_[ch] \cup kReadEvent)

disableReading(ch) == SetEvents(ch, events_[ch] \ kReadEvent)

enableWriting(ch) == SetEvents(ch, events_[ch] \cup kWriteEvent)

\* events_ &= kWriteEvent, not ~kWriteEvent: it keeps exactly that event.
disableWriting(ch) == SetEvents(ch, events_[ch] \cap kWriteEvent)

disableAll(ch) == SetEvents(ch, {})

remove(ch) ==
    /\ Usable(ch)
    /\ removeChannel(ch)
    /\ UNCHANGED <<fd_, events_, listSize, activeChannels_>>

\* The owner destroys a channel it has removed (or never added) and closes its
\* fd, which takes the fd out of the kernel's list.
Destroy(ch) ==
    /\ Usable(ch)
    /\ index_[ch] = "kNew"
    /\ fd_' = [fd_ EXCEPT ![ch] = NoFd]
    /\ registered' = [registered EXCEPT ![fd_[ch]] = NoChannel]
    /\ interest' = [interest EXCEPT ![fd_[ch]] = {}]
    /\ UNCHANGED <<events_, index_, channels_, listSize, activeChannels_, exited>>

\* Mutant: the list is halved where it should be doubled.
MutantListSizeAfter(numEvents) ==
    IF numEvents = listSize THEN listSize \div 2 ELSE listSize

\* events_.resize(2 * size) once epoll_wait has filled the list.
ListSizeAfter(numEvents) ==
    IF numEvents = listSize THEN 2 * listSize ELSE listSize

\* The pointers the kernel has kept for these fds.
fillActiveChannels(ready) == {registered[fd] : fd \in ready}

\* epoll_wait returns the registrations of some ready fds, at most listSize of
\* them.  (A registration without events still reports EPOLLHUP and EPOLLERR.)
poll(ready) ==
    /\ ~exited
    /\ ready # {}
    /\ \A fd \in ready : registered[fd] # NoChannel
    /\ Cardinality(ready) <= listSize
    /\ activeChannels_' = fillActiveChannels(ready)
    /\ listSize' = ListSizeAfter(Cardinality(ready))
    /\ UNCHANGED <<fd_, events_, index_, channels_, registered, interest, exited>>

\* epoll_wait times out or is interrupted: the loop starts with a clear list.
pollNothing ==
    /\ ~exited
    /\ activeChannels_' = {}
    /\ UNCHANGED <<fd_, events_, index_, channels_, registered, interest, listSize, exited>>

ChannelStep(ch) ==
    \/ \E fd \in Fds : NewChannel(ch, fd)
    \/ enableReading(ch)
    \/ disableReading(ch)
    \/ enableWriting(ch)
    \/ disableWriting(ch)
    \/ disableAll(ch)
    \/ remove(ch)
    \/ Destroy(ch)

Next ==
    \/ \E ch \in Channels : ChannelStep(ch)
    \/ \E ready \in SUBSET Fds : poll(ready)
    \/ pollNothing

Spec == Init /\ [][Next]_vars

-----------------------------------------------------------------------------
(* Properties.                                                             *)

\* The types of the three tables; the event list never has length zero.
TypeOK ==
    /\ fd_ \in [Channels -> Fds \cup {NoFd}]
    /\ events_ \in [Channels -> SUBSET Events]
    /\ index_ \in [Channels -> Indices]
    /\ channels_ \in [Fds -> Channels \cup {NoChannel}]
    /\ registered \in [Fds -> Channels \cup {NoChannel}]
    /\ interest \in [Fds -> SUBSET Events]
    /\ listSize \in Nat \ {0}
    /\ activeChannels_ \in SUBSET Channels
    /\ exited \in BOOLEAN

(***************************************************************************)
(* channels_ holds exactly the existing channels that index_ says were     *)
(* added, each under its own fd: an entry never outlives its channel, also *)
(* when fds are closed and given out again.                                *)
(***************************************************************************)
MapMatchesIndex ==
    /\ \A ch \in Channels :
        fd_[ch] # NoFd => (index_[ch] = "kAdded" <=> channels_[fd_[ch]] = ch)
    /\ \A fd \in Fds :
        channels_[fd] # NoChannel => fd_[channels_[fd]] = fd

(***************************************************************************)
(* The kernel holds no dangling pointer: the pointer registered for an fd  *)
(* is that of an existing channel of this fd, which the poller has.        *)
(***************************************************************************)
RegisteredIsLive ==
    \A fd \in Fds :
        registered[fd] # NoChannel =>
            /\ fd_[registered[fd]] = fd
            /\ hasChannel(registered[fd])

(***************************************************************************)
(* The kernel watches for what the channels are interested in: the events  *)
(* of a registration are its channel's events_, and a channel added with   *)
(* some event wanted is registered (unless the process has exited).        *)
(***************************************************************************)
InterestExact ==
    ~exited =>
        /\ \A fd \in Fds :
            registered[fd] # NoChannel => interest[fd] = events_[registered[fd]]
        /\ \A ch \in Channels :
            fd_[ch] # NoFd /\ index_[ch] = "kAdded" /\ events_[ch] # {}
                => registered[fd_[ch]] = ch

(***************************************************************************)
(* A channel may stop being interested and start again: updateChannel's    *)
(* two branches are for channels with "no registered events" and "with     *)
(* registered events", so epoll_ctl never fails fatally.  Violated: after  *)
(* the last interest went, index_ is still kAdded, the next enable is an   *)
(* EPOLL_CTL_MOD of an fd the kernel does not have, and LOG_FATAL exits.   *)
(***************************************************************************)
NeverExits == ~exited

=============================================================================
