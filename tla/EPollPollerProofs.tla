------------------------- MODULE EPollPollerProofs -------------------------
(***************************************************************************)
(* Proofs about EPollPoller, for any number of channels and fds: the       *)
(* channels, the poller's map and the kernel's list agree after every      *)
(* sequence of calls, up to a fatal exit.                                  *)
(***************************************************************************)
EXTENDS EPollPoller, TLAPS

(***************************************************************************)
(* What the properties need to be inductive: an fd belongs to one channel, *)
(* and no index_ is kDeleted (updateChannel would add such a channel to    *)
(* the kernel and not to the map).                                         *)
(***************************************************************************)

FdsDistinct ==
    \A c, d \in Channels : fd_[c] # NoFd /\ fd_[c] = fd_[d] => c = d

NeverDeleted == \A ch \in Channels : index_[ch] # "kDeleted"

PInv ==
    /\ TypeOK
    /\ FdsDistinct
    /\ NeverDeleted
    /\ MapMatchesIndex
    /\ RegisteredIsLive
    /\ InterestExact

\* The tables are empty at first.
LEMMA PInvInit == Init => PInv
<1> SUFFICES ASSUME Init PROVE PInv
  OBVIOUS
<1> USE NoneAssumption, SizeAssumption DEF Init
<1>1. TypeOK
  BY DEF TypeOK, Events, Indices
<1>2. FdsDistinct /\ NeverDeleted
  BY DEF FdsDistinct, NeverDeleted
<1>3. MapMatchesIndex /\ RegisteredIsLive /\ InterestExact
  BY DEF MapMatchesIndex, RegisteredIsLive, InterestExact
<1> QED
  BY <1>1, <1>2, <1>3 DEF PInv

\* An existing channel has an fd.
LEMMA UsableFd ==
    ASSUME PInv, NEW ch \in Channels, Usable(ch)
    PROVE  fd_[ch] \in Fds /\ ~exited
BY DEF PInv, TypeOK, Usable

\* A channel that was not added is not registered, nor is anything on its fd.
LEMMA NotAddedNotRegistered ==
    ASSUME PInv, NEW ch \in Channels, fd_[ch] \in Fds, index_[ch] # "kAdded"
    PROVE  registered[fd_[ch]] = NoChannel /\ channels_[fd_[ch]] = NoChannel
<1>1. channels_[fd_[ch]] = NoChannel
  BY NoneAssumption
     DEF PInv, TypeOK, FdsDistinct, MapMatchesIndex
<1>2. registered[fd_[ch]] = NoChannel
  BY <1>1, NoneAssumption DEF PInv, TypeOK, RegisteredIsLive, hasChannel
<1> QED
  BY <1>1, <1>2

\* What is registered on an existing channel's fd is the channel itself.
LEMMA RegisteredIsOwn ==
    ASSUME PInv, NEW ch \in Channels, fd_[ch] \in Fds, registered[fd_[ch]] # NoChannel
    PROVE  registered[fd_[ch]] = ch
BY NoneAssumption DEF PInv, TypeOK, FdsDistinct, RegisteredIsLive

-----------------------------------------------------------------------------
\* Every event operation, through updateChannel, keeps the tables in step.
LEMMA SetEventsKeeps ==
    ASSUME PInv, NEW ch \in Channels, NEW events \in SUBSET Events, SetEvents(ch, events)
    PROVE  PInv'
<1> DEFINE fd == fd_[ch]
<1>0. fd \in Fds /\ ~exited /\ fd_' = fd_
  BY UsableFd DEF SetEvents
<1> USE NoneAssumption
<1>1. CASE index_[ch] # "kAdded"
  <2>1. /\ channels_' = [channels_ EXCEPT ![fd] = ch]
        /\ index_' = [index_ EXCEPT ![ch] = "kAdded"]
        /\ registered' = [registered EXCEPT ![fd] = ch]
        /\ interest' = [interest EXCEPT ![fd] = events]
        /\ events_' = [events_ EXCEPT ![ch] = events]
        /\ UNCHANGED <<fd_, exited, listSize, activeChannels_>>
    BY <1>0, <1>1, NotAddedNotRegistered
       DEF PInv, TypeOK, NeverDeleted, Indices, SetEvents, updateChannel, EpollAdd
  <2>2. TypeOK'
    BY <1>0, <2>1 DEF PInv, TypeOK, Indices
  <2>3. FdsDistinct' /\ NeverDeleted'
    BY <2>1 DEF PInv, TypeOK, FdsDistinct, NeverDeleted
  <2>4. MapMatchesIndex'
    BY <1>0, <2>1 DEF PInv, TypeOK, FdsDistinct, MapMatchesIndex
  <2>5. RegisteredIsLive'
    BY <1>0, <2>1 DEF PInv, TypeOK, RegisteredIsLive, hasChannel
  <2>6. InterestExact'
    BY <1>0, <2>1 DEF PInv, TypeOK, FdsDistinct, RegisteredIsLive, InterestExact
  <2> QED
    BY <2>2, <2>3, <2>4, <2>5, <2>6 DEF PInv
<1>2. CASE index_[ch] = "kAdded" /\ events = {}
  <2>1. /\ registered' = [registered EXCEPT ![fd] = NoChannel]
        /\ interest' = [interest EXCEPT ![fd] = {}]
        /\ events_' = [events_ EXCEPT ![ch] = {}]
        /\ UNCHANGED <<fd_, channels_, index_, exited, listSize, activeChannels_>>
    BY <1>2 DEF SetEvents, updateChannel, EpollDel
  <2>2. TypeOK'
    BY <1>0, <2>1 DEF PInv, TypeOK
  <2>3. FdsDistinct' /\ NeverDeleted' /\ MapMatchesIndex'
    BY <2>1 DEF PInv, FdsDistinct, NeverDeleted, MapMatchesIndex
  <2>4. RegisteredIsLive'
    BY <1>0, <2>1 DEF PInv, TypeOK, RegisteredIsLive, hasChannel
  <2>5. InterestExact'
    BY <1>0, <2>1 DEF PInv, TypeOK, FdsDistinct, RegisteredIsLive, InterestExact
  <2> QED
    BY <2>2, <2>3, <2>4, <2>5 DEF PInv
<1>3. CASE index_[ch] = "kAdded" /\ events # {} /\ registered[fd] # NoChannel
  <2>1. /\ registered' = [registered EXCEPT ![fd] = ch]
        /\ interest' = [interest EXCEPT ![fd] = events]
        /\ events_' = [events_ EXCEPT ![ch] = events]
        /\ UNCHANGED <<fd_, channels_, index_, exited, listSize, activeChannels_>>
    BY <1>3 DEF SetEvents, updateChannel, EpollMod
  <2>2. registered' = registered
    BY <1>0, <1>3, <2>1, RegisteredIsOwn DEF PInv, TypeOK
  <2>3. TypeOK'
    BY <1>0, <2>1 DEF PInv, TypeOK
  <2>4. FdsDistinct' /\ NeverDeleted' /\ MapMatchesIndex' /\ RegisteredIsLive'
    BY <2>1, <2>2
       DEF PInv, FdsDistinct, NeverDeleted, MapMatchesIndex, RegisteredIsLive, hasChannel
  <2>5. InterestExact'
    BY <1>0, <2>1, <2>2 DEF PInv, TypeOK, FdsDistinct, RegisteredIsLive, InterestExact
  <2> QED
    BY <2>3, <2>4, <2>5 DEF PInv
<1>4. CASE index_[ch] = "kAdded" /\ events # {} /\ registered[fd] = NoChannel
  <2>1. /\ exited' = TRUE
        /\ events_' = [events_ EXCEPT ![ch] = events]
        /\ UNCHANGED <<fd_, channels_, index_, registered, interest, listSize, activeChannels_>>
    BY <1>4 DEF SetEvents, updateChannel, EpollMod
  <2>2. TypeOK'
    BY <2>1 DEF PInv, TypeOK
  <2>3. FdsDistinct' /\ NeverDeleted' /\ MapMatchesIndex' /\ RegisteredIsLive' /\ InterestExact'
    BY <2>1 DEF PInv, FdsDistinct, NeverDeleted, MapMatchesIndex, RegisteredIsLive,
                hasChannel, InterestExact
  <2> QED
    BY <2>2, <2>3 DEF PInv
<1> QED
  BY <1>1, <1>2, <1>3, <1>4

\* Every step keeps the tables in step.
LEMMA PInvNext == PInv /\ [Next]_vars => PInv'
<1> SUFFICES ASSUME PInv, [Next]_vars PROVE PInv'
  OBVIOUS
<1> USE NoneAssumption
<1>1. ASSUME NEW ch \in Channels, NEW fd \in Fds, NewChannel(ch, fd) PROVE PInv'
  <2>1. /\ channels_[fd] = NoChannel
        /\ registered[fd] = NoChannel
    BY <1>1 DEF PInv, TypeOK, MapMatchesIndex, RegisteredIsLive, NewChannel
  <2>2. TypeOK'
    BY <1>1 DEF PInv, TypeOK, NewChannel, Indices
  <2>3. FdsDistinct' /\ NeverDeleted'
    BY <1>1 DEF PInv, TypeOK, FdsDistinct, NeverDeleted, NewChannel
  <2>4. MapMatchesIndex'
    BY <1>1, <2>1 DEF PInv, TypeOK, MapMatchesIndex, NewChannel
  <2>5. RegisteredIsLive'
    BY <1>1, <2>1 DEF PInv, TypeOK, RegisteredIsLive, hasChannel, NewChannel
  <2>6. InterestExact'
    BY <1>1, <2>1 DEF PInv, TypeOK, RegisteredIsLive, InterestExact, NewChannel
  <2> QED
    BY <2>2, <2>3, <2>4, <2>5, <2>6 DEF PInv
<1>2. ASSUME NEW ch \in Channels, NEW events \in SUBSET Events, SetEvents(ch, events)
      PROVE  PInv'
  BY <1>2, SetEventsKeeps
<1>3. ASSUME NEW ch \in Channels, remove(ch) PROVE PInv'
  <2>0. fd_[ch] \in Fds /\ ~exited
    BY <1>3, UsableFd DEF remove
  <2>1. CASE index_[ch] # "kAdded"
    <3>1. index_[ch] = "kNew"
      BY <2>1 DEF PInv, TypeOK, Indices, NeverDeleted
    <3>2. UNCHANGED vars
      BY <1>3, <2>1, <3>1 DEF remove, removeChannel, PInv, TypeOK, vars
    <3> QED
      BY <3>2 DEF vars, PInv, TypeOK, FdsDistinct, NeverDeleted, MapMatchesIndex,
                  RegisteredIsLive, hasChannel, InterestExact
  <2>2. CASE index_[ch] = "kAdded"
    <3>1. /\ channels_' = [channels_ EXCEPT ![fd_[ch]] = NoChannel]
          /\ registered' = [registered EXCEPT ![fd_[ch]] = NoChannel]
          /\ interest' = [interest EXCEPT ![fd_[ch]] = {}]
          /\ index_' = [index_ EXCEPT ![ch] = "kNew"]
          /\ UNCHANGED <<fd_, events_, exited, listSize, activeChannels_>>
      BY <1>3, <2>2 DEF remove, removeChannel, DeleteChannel, EpollDel
    <3>2. TypeOK'
      BY <2>0, <3>1 DEF PInv, TypeOK, Indices
    <3>3. FdsDistinct' /\ NeverDeleted'
      BY <3>1 DEF PInv, TypeOK, FdsDistinct, NeverDeleted
    <3>4. MapMatchesIndex'
      BY <2>0, <3>1 DEF PInv, TypeOK, FdsDistinct, MapMatchesIndex
    <3>5. RegisteredIsLive'
      BY <2>0, <3>1 DEF PInv, TypeOK, RegisteredIsLive, hasChannel
    <3>6. InterestExact'
      BY <2>0, <3>1 DEF PInv, TypeOK, FdsDistinct, InterestExact
    <3> QED
      BY <3>2, <3>3, <3>4, <3>5, <3>6 DEF PInv
  <2> QED
    BY <2>1, <2>2
<1>4. ASSUME NEW ch \in Channels, Destroy(ch) PROVE PInv'
  <2>0. fd_[ch] \in Fds /\ ~exited /\ index_[ch] = "kNew"
    BY <1>4, UsableFd DEF Destroy
  <2>1. registered[fd_[ch]] = NoChannel /\ channels_[fd_[ch]] = NoChannel
    BY <2>0, NotAddedNotRegistered
  <2>2. registered' = registered
    BY <1>4, <2>1 DEF PInv, TypeOK, Destroy
  <2>3. TypeOK'
    BY <1>4, <2>0 DEF PInv, TypeOK, Destroy
  <2>4. FdsDistinct' /\ NeverDeleted'
    BY <1>4 DEF PInv, TypeOK, FdsDistinct, NeverDeleted, Destroy
  <2>5. MapMatchesIndex'
    BY <1>4, <2>0, <2>1 DEF PInv, TypeOK, MapMatchesIndex, Destroy
  <2>6. RegisteredIsLive'
    BY <1>4, <2>0, <2>1, <2>2 DEF PInv, TypeOK, RegisteredIsLive, hasChannel, Destroy
  <2>7. InterestExact'
    BY <1>4, <2>0, <2>1, <2>2 DEF PInv, TypeOK, RegisteredIsLive, InterestExact, Destroy
  <2> QED
    BY <2>3, <2>4, <2>5, <2>6, <2>7 DEF PInv
<1>5. ASSUME NEW ready \in SUBSET Fds, poll(ready) PROVE PInv'
  <2>1. activeChannels_' \in SUBSET Channels
    BY <1>5 DEF poll, fillActiveChannels, PInv, TypeOK
  <2>2. listSize' \in Nat \ {0}
    BY <1>5 DEF poll, fillActiveChannels, ListSizeAfter, PInv, TypeOK
  <2> QED
    BY <1>5, <2>1, <2>2 DEF poll, PInv, TypeOK, FdsDistinct, NeverDeleted, MapMatchesIndex,
                            RegisteredIsLive, hasChannel, InterestExact
<1>6. CASE pollNothing
  BY <1>6 DEF pollNothing, PInv, TypeOK, FdsDistinct, NeverDeleted, MapMatchesIndex,
              RegisteredIsLive, hasChannel, InterestExact
<1>7. CASE UNCHANGED vars
  BY <1>7 DEF vars, PInv, TypeOK, FdsDistinct, NeverDeleted, MapMatchesIndex,
              RegisteredIsLive, hasChannel, InterestExact
<1>8. ASSUME NEW ch \in Channels, ChannelStep(ch) PROVE PInv'
  <2>1. /\ events_[ch] \cup kReadEvent \in SUBSET Events
        /\ events_[ch] \ kReadEvent \in SUBSET Events
        /\ events_[ch] \cup kWriteEvent \in SUBSET Events
        /\ events_[ch] \cap kWriteEvent \in SUBSET Events
        /\ {} \in SUBSET Events
    BY DEF PInv, TypeOK, Events, kReadEvent, kWriteEvent
  <2> QED
    BY <1>1, <1>2, <1>3, <1>4, <1>8, <2>1
       DEF ChannelStep, enableReading, disableReading, enableWriting, disableWriting, disableAll
<1> QED
  BY <1>5, <1>6, <1>7, <1>8 DEF Next

\* PInv holds in every reachable state.
LEMMA PInvAlways == Spec => []PInv
BY PInvInit, PInvNext, PTL DEF Spec

(***************************************************************************)
(* The types of the poller's tables, and an event list that is never empty *)
(* however often it grows.                                                 *)
(***************************************************************************)
THEOREM PollerTypeCorrect == Spec => []TypeOK
<1>1. PInv => TypeOK
  BY DEF PInv
<1> QED
  BY <1>1, PInvAlways, PTL

(***************************************************************************)
(* channels_ and index_ agree after any sequence of updateChannel,         *)
(* removeChannel, construction and destruction, with fds reused.           *)
(***************************************************************************)
THEOREM MapAgrees == Spec => []MapMatchesIndex
<1>1. PInv => MapMatchesIndex
  BY DEF PInv
<1> QED
  BY <1>1, PInvAlways, PTL

(***************************************************************************)
(* No pointer in the kernel's list dangles, as long as owners remove their *)
(* channels before they destroy them.                                      *)
(***************************************************************************)
THEOREM NoDanglingRegistration == Spec => []RegisteredIsLive
<1>1. PInv => RegisteredIsLive
  BY DEF PInv
<1> QED
  BY <1>1, PInvAlways, PTL

\* The kernel watches for exactly what the channels want.
THEOREM InterestAgrees == Spec => []InterestExact
<1>1. PInv => InterestExact
  BY DEF PInv
<1> QED
  BY <1>1, PInvAlways, PTL

=============================================================================
