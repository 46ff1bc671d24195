------------------------------ MODULE Channel ------------------------------
(***************************************************************************)
(* src/network/Channel and EpollPoller: what one channel's record in the   *)
(* poller and the kernel's interest list become when the channel changes.  *)
(* A channel is a record of m_events, m_index and whether the file is on   *)
(* the kernel's list ("watched"); m_channels holds it unless its index is  *)
(* kNew.                                                                   *)
(***************************************************************************)

Index == {"kNew", "kAdded", "kDeleted"}

Channel == [events : SUBSET {"read", "write"}, index : Index, watched : BOOLEAN]

NewChannel == [events |-> {}, index |-> "kNew", watched |-> FALSE]

isNoneEvent(ch) == ch.events = {}
isWriting(ch)   == "write" \in ch.events

\* Poller::hasChannel: m_channels has it.
hasChannel(ch) == ch.index # "kNew"

EPOLL_CTL_ADD(ch) == [ch EXCEPT !.watched = TRUE]
EPOLL_CTL_DEL(ch) == [ch EXCEPT !.watched = FALSE]

\* Mutant: the index is not set when the file is taken off the list.
updateChannel_KeepsIndex(ch) ==
  IF ch.index \in {"kNew", "kDeleted"}
  THEN [EPOLL_CTL_ADD(ch) EXCEPT !.index = "kAdded"]
  ELSE IF isNoneEvent(ch)
  THEN EPOLL_CTL_DEL(ch)
  ELSE ch

\* EpollPoller::updateChannel; EPOLL_CTL_MOD only changes the events.
updateChannel(ch) ==
  IF ch.index \in {"kNew", "kDeleted"}
  THEN [EPOLL_CTL_ADD(ch) EXCEPT !.index = "kAdded"]
  ELSE IF isNoneEvent(ch)
  THEN [EPOLL_CTL_DEL(ch) EXCEPT !.index = "kDeleted"]
  ELSE ch

\* EpollPoller::removeChannel.
removeChannel(ch) ==
  [IF ch.index = "kAdded" THEN EPOLL_CTL_DEL(ch) ELSE ch EXCEPT !.index = "kNew"]

enableReading(ch)  == updateChannel([ch EXCEPT !.events = @ \cup {"read"}])
enableWriting(ch)  == updateChannel([ch EXCEPT !.events = @ \cup {"write"}])
disableWriting(ch) == updateChannel([ch EXCEPT !.events = @ \ {"write"}])
disableAll(ch)     == updateChannel([ch EXCEPT !.events = {}])

\* The index says what the kernel has: an EPOLL_CTL_ADD of a watched file, or
\* an EPOLL_CTL_MOD of one that is not, is a fatal error of the poller.
IndexMatchesKernel(ch) == ch.watched <=> ch.index = "kAdded"
=============================================================================
