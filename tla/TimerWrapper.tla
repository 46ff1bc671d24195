---------------------------- MODULE TimerWrapper ----------------------------
(***************************************************************************)
(* acm::TimerWrapper (src/src/timer/svr_timer): an object that owns a      *)
(* timer and destroys it when it goes out of scope.  The application hands *)
(* an id that RegisterTimer returned, or one it released, to one wrapper   *)
(* at most; of the timer manager only which timers exist is kept.          *)
(***************************************************************************)
EXTENDS Integers

CONSTANT Wrapper  \* places where a wrapper may live

INVALID_TIMER_ID == 0
TimerId  == Nat \ {INVALID_TIMER_ID}  \* what RegisterTimer returns, nothing twice
NoObject == -1                        \* no wrapper lives there

VARIABLES
  id_,     \* of each wrapper
  timers,  \* the timers that exist
  free,    \* ids RegisterTimer has not returned yet
  loose    \* ids in the application's own hands

vars == <<id_, timers, free, loose>>

TypeOK ==
  /\ id_ \in [Wrapper -> TimerId \cup {INVALID_TIMER_ID, NoObject}]
  /\ timers \subseteq TimerId /\ free \subseteq TimerId /\ loose \subseteq TimerId

Lives(w) == id_[w] # NoObject

\* What the application can pass to a wrapper: no id, or one it holds.
Given == loose \cup {INVALID_TIMER_ID}

RegisterTimer(t) ==
  /\ t \in free
  /\ free' = free \ {t} /\ timers' = timers \cup {t} /\ loose' = loose \cup {t}
  /\ UNCHANGED id_

\* A timer that will not run again, or that is destroyed by its id.
TimerEnds(t) == t \in timers /\ timers' = timers \ {t} /\ UNCHANGED <<id_, free, loose>>

\* Clear(), which leaves id in id_: DestroyTimer ignores an id that timers_ lacks.
ClearTo(w, id) ==
  /\ timers' = timers \ {id_[w]}
  /\ id_' = [id_ EXCEPT ![w] = id]
  /\ UNCHANGED free

Construct(w, t) ==
  /\ ~Lives(w) /\ t \in Given
  /\ id_' = [id_ EXCEPT ![w] = t] /\ loose' = loose \ {t}
  /\ UNCHANGED <<timers, free>>

\* TimerWrapper(TimerWrapper&& other), and release() on the other.
Move(w, other) ==
  /\ ~Lives(w) /\ Lives(other)
  /\ id_' = [id_ EXCEPT ![w] = id_[other], ![other] = INVALID_TIMER_ID]
  /\ UNCHANGED <<timers, free, loose>>

reset(w, t) == Lives(w) /\ t \in Given /\ ClearTo(w, t) /\ loose' = loose \ {t}

release(w) ==
  /\ Lives(w)
  /\ id_' = [id_ EXCEPT ![w] = INVALID_TIMER_ID]
  /\ loose' = loose \cup ({id_[w]} \ {INVALID_TIMER_ID})
  /\ UNCHANGED <<timers, free>>

cancel(w)   == Lives(w) /\ ClearTo(w, INVALID_TIMER_ID) /\ UNCHANGED loose
Destruct(w) == Lives(w) /\ ClearTo(w, NoObject) /\ UNCHANGED loose

Init ==
  /\ id_ = [w \in Wrapper |-> NoObject]
  /\ timers = {} /\ free = TimerId /\ loose = {}

Next ==
  \/ \E t \in TimerId : RegisterTimer(t) \/ TimerEnds(t)
  \/ \E w \in Wrapper :
       \/ release(w) \/ cancel(w) \/ Destruct(w)
       \/ \E t \in Given : Construct(w, t) \/ reset(w, t)
       \/ \E other \in Wrapper : Move(w, other)

Spec == Init /\ [][Next]_vars

\* Whatever is moved, reset, released and goes out of scope, a timer that runs
\* is in the hands of the application or of a wrapper that will destroy it, ...
NoTimerLeaks == \A t \in timers : t \in loose \/ \E w \in Wrapper : id_[w] = t

\* ... and of one only, so that no wrapper destroys a timer another relies on.
OneOwner ==
  \A w \in Wrapper : id_[w] \in TimerId =>
    id_[w] \notin loose /\ \A v \in Wrapper : id_[v] = id_[w] => v = w
=============================================================================
