---------------------------- MODULE MCTimerWheel ----------------------------
(***************************************************************************)
(* Instances of TimerWheel for TLC: levels of 3, 2 and 2 slots, so that a  *)
(* turn of all three takes 12 ticks, and two timers.                       *)
(***************************************************************************)
EXTENDS TimerWheel, TLC

CONSTANTS m1, m2

Two == {m1, m2}

Symmetry == Permutations(TimerId)

Sizes == <<3, 2, 2>>

\* Every timeout that a level treats differently: clamped from below, the
\* first level's last and next, the second's, the largest, clamped from above.
MCTimeouts  == {0, 4, 8, 12}
MCIntervals == {3}
MCRepeats   == 0..2

\* Timeouts around a turn of the first level, for timers that share a slot.
TurnTimeouts == {2, 3}
OftenOrOnce  == {0, 1}

\* What else happens: nothing, or callbacks that destroy timers of their own
\* slot and a system clock that is set back.
Calm     == {}
Anything == {"sweep", "stepback"}
=============================================================================
