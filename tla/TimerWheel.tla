----------------------------- MODULE TimerWheel -----------------------------
(***************************************************************************)
(* src/src/timer: TimerMgr, a timing wheel of three levels.  A timer hangs *)
(* in the list of one slot of one level; a turn of a level moves the       *)
(* timers of one slot of the level above down, by registering them again.  *)
(*                                                                         *)
(* A step is what the manager executes between two callbacks of timers,    *)
(* and callbacks may register and destroy timers.  The clock moves at any  *)
(* time.  Sizes of levels and the width of the 32-bit milliseconds that    *)
(* cal_remain works with are constants, so that TLC can turn every level.  *)
(***************************************************************************)
EXTENDS Integers

CONSTANTS
  TimerId, None,  \* ids GenGUID returns, an id being free once it is deleted; no timer
  WheelSize,      \* wheel_size
  Width,          \* 2^32, the range of the u32 that cal_remain takes
  Epoch,          \* what the clock reads at first
  MaxTime,        \* bound: the clock stops there
  MaxLag,         \* bound: how far Proc may be behind the clock
  Timeouts,       \* the timeouts timers are registered with
  Intervals,      \* the intervals repeating timers are registered with
  Repeats,        \* the repeats they are registered with, 0 for ever
  AppDoes         \* what happens besides: "sweep", "stepback"

Level == 1..3     \* WHEEL_TYPE_SEC, WHEEL_TYPE_HOUR, WHEEL_TYPE_DAY

MAX_TIMEOUT == WheelSize[1] * WheelSize[2] * WheelSize[3] - 1

ASSUME WheelAssumption ==
  /\ None \notin TimerId
  /\ WheelSize \in [Level -> Nat \ {0, 1}]
  /\ Epoch \in Nat /\ MaxTime \in Nat /\ MaxLag \in Nat
  /\ Width \in Nat /\ Width > MAX_TIMEOUT + MaxLag
  /\ Timeouts \cup Intervals \subseteq Nat /\ Repeats \subseteq Nat
  /\ AppDoes \subseteq {"sweep",     \* a callback destroys a timer of its own slot
                        "stepback"}  \* the system clock is set back

VARIABLES
  now,         \* DateTime::GetSystemMSec()
  registered,  \* tick_ is set: there was a first timer
  lasttick,    \* lasttick_
  cur,         \* cur of each level
  tlist,       \* the lists of all slots of all levels (module LinkList)
  timers,      \* timers_: the fields of each Timer, None for a free id
  proc         \* where Proc is

vars == <<now, registered, lasttick, cur, tlist, timers, proc>>

\* Fields of a Timer.  is_in_proc_ is proc.running; wraps (the milliseconds wrap
\* before it expires) and destroyed (DestroyTimer was called during its
\* callback) are history.
Timer == [interval : 1..MAX_TIMEOUT, expire : Nat, repeats : Nat, forever : BOOLEAN,
          wraps : BOOLEAN, destroyed : BOOLEAN]

\* Proc is not executing, at the test of its loop, in the loop of Fire over
\* the slot of the first level, or in a timer's callback there.
Proc == [at : {"idle", "loop", "slot", "callback"}, target : Nat, left : Nat,
         running : TimerId \cup {None}]

Slot(w) == 0..(WheelSize[w] - 1)

\* The elements of tlist of each level.
SlotList == UNION {{<<w, s>> : s \in Slot(w)} : w \in Level}

INSTANCE LinkList WITH Node <- TimerId, List <- SlotList, Null <- None

\* Timers, lists, null and the contents of timers_ are different things.
ASSUME ThingsDiffer == TimerId \cap SlotList = {} /\ None \notin SlotList \cup Timer

Live == {t \in TimerId : timers[t] # None}

TypeOK ==
  /\ now \in Nat /\ lasttick \in Nat /\ registered \in BOOLEAN
  /\ cur \in [Level -> Int] /\ \A w \in Level : cur[w] \in Slot(w) \cup {-1}
  /\ tlist.next \in [Cell -> Cell \cup {None}] /\ tlist.prev \in [Cell -> Cell \cup {None}]
  /\ tlist.owner \in [TimerId -> SlotList \cup {None}]
  /\ tlist.count \in [SlotList -> Nat]
  /\ timers \in [TimerId -> Timer \cup {None}]
  /\ proc \in Proc

-----------------------------------------------------------------------------

\* Mutant: the distance, whichever comes first.
CalRemain_Distance(tick, expire) ==
  LET n == tick % Width
      e == expire % Width
  IN IF n > e THEN n - e ELSE e - n

\* cal_remain on the low halves of its arguments; REWINDING_TIME is all ones.
CalRemain(tick, expire) ==
  LET n == tick % Width
      e == expire % Width
  IN IF n > e THEN (Width - 1 - n) + e ELSE e - n

\* Mutant: remain is not decremented before it is divided.
SlotFor_KeepsRemain(c, expire, tick) ==
  LET sec   == CalRemain(tick, expire)
      hour  == sec \div WheelSize[1]
      day   == hour \div WheelSize[2]
      w     == IF WheelSize[1] >= sec THEN 1 ELSE IF WheelSize[2] >= hour THEN 2 ELSE 3
  IN <<w, ((c[w] + <<sec, hour, day>>[w]) % Width) % WheelSize[w]>>

\* The slot that TimerMgr::Reg chooses from given positions: in the first level
\* that is large enough for what remains.
SlotFor(c, expire, tick) ==
  LET sec   == CalRemain(tick, expire)
      hour  == (sec - 1) \div WheelSize[1]
      day   == (hour - 1) \div WheelSize[2]
      w     == IF WheelSize[1] >= sec THEN 1 ELSE IF WheelSize[2] >= hour THEN 2 ELSE 3
  IN <<w, ((c[w] + <<sec, hour, day>>[w]) % Width) % WheelSize[w]>>

\* TimerMgr::Reg, on given lists.
Reg(lists, c, t, expire, tick) == Push(lists, SlotFor(c, expire, tick), t)

Advance(c, w) == [c EXCEPT ![w] = IF @ + 1 = WheelSize[w] THEN 0 ELSE @ + 1]

Turns(c, w) == c[w] + 1 = WheelSize[w]

\* Once round Fire's loop over a slot of a level above the first: a timer is
\* popped and registered again.
MoveFirst(lists, c, slot) ==
  LET t == GetFirst(lists, slot)
  IN IF IsEmpty(lists, slot) THEN lists
     ELSE Reg(Pop(lists, slot), c, t, timers[t].expire, lasttick)

\* The loop over the current slot goes round as often as there are timers in it.
MoveDown(lists, c, w) ==
  LET slot == <<w, c[w]>>
      moved[i \in 0..Size(lists, slot)] ==
        IF i = 0 THEN lists ELSE MoveFirst(moved[i - 1], c, slot)
  IN moved[Size(lists, slot)]

\* The end of Fire: a level about to turn fires the one above it.
FireAbove ==
  LET c2 == Advance(cur, 2)
      l2 == MoveDown(tlist, c2, 2)
      c3 == Advance(c2, 3)
  IN IF ~Turns(cur, 1) THEN UNCHANGED <<cur, tlist>>
     ELSE IF ~Turns(c2, 2) THEN cur' = c2 /\ tlist' = l2
     ELSE cur' = c3 /\ tlist' = MoveDown(l2, c3, 3)

-----------------------------------------------------------------------------
(* The interface; callers are the main loop and callbacks of timers.       *)

AppRuns == proc.at \in {"idle", "callback"}

Wraps(tick, expire) == tick \div Width # expire \div Width

Clamp(ms) == IF ms < 1 THEN 1 ELSE IF ms > MAX_TIMEOUT THEN MAX_TIMEOUT ELSE ms

RegisterTimer(t, timeout, interval, repeats) ==
  LET tick   == IF registered THEN lasttick ELSE now
      expire == now + Clamp(timeout)
  IN /\ AppRuns
     /\ t \notin Live
     /\ timers' = [timers EXCEPT ![t] =
                     [interval |-> Clamp(interval), expire |-> expire, repeats |-> repeats,
                      forever |-> (repeats = 0), wraps |-> Wraps(tick, expire),
                      destroyed |-> FALSE]]
     /\ tlist' = Reg(tlist, cur, t, expire, tick)
     /\ registered' = TRUE
     /\ lasttick' = tick
     /\ UNCHANGED <<now, cur, proc>>

UnRegisterTimer(t) == Remove(tlist, t)

\* The timer leaves its list, if it hangs in one, is deleted and leaves timers_.
DeleteTimer(t) ==
  /\ timers' = [timers EXCEPT ![t] = None]
  /\ tlist' = Destruct(UnRegisterTimer(t), t)

\* The slot that is being fired; the timer called back has left it.
Fired          == <<1, cur[1]>>
InFiredSlot(t) == proc.at = "callback" /\ tlist.owner[t] = Fired

\* Mutant: a timer for ever goes on.
DestroyTimer_KeepsForever(t) ==
  /\ AppRuns
  /\ t \in Live
  /\ InFiredSlot(t) => "sweep" \in AppDoes
  /\ IF t = proc.running
     THEN /\ timers' = [timers EXCEPT ![t].repeats = 0, ![t].destroyed = TRUE]
          /\ UNCHANGED tlist
     ELSE DeleteTimer(t)
  /\ UNCHANGED <<now, registered, lasttick, cur, proc>>

\* A timer whose callback executes is only marked.  (An id that is not in
\* timers_ changes nothing.)
DestroyTimer(t) ==
  /\ AppRuns
  /\ t \in Live
  /\ InFiredSlot(t) => "sweep" \in AppDoes
  /\ IF t = proc.running
     THEN /\ timers' = [timers EXCEPT ![t].forever = FALSE, ![t].repeats = 0,
                                      ![t].destroyed = TRUE]
          /\ UNCHANGED tlist
     ELSE DeleteTimer(t)
  /\ UNCHANGED <<now, registered, lasttick, cur, proc>>

GetRemainNum(t) ==
  IF t \notin Live THEN 0 ELSE IF timers[t].forever THEN -1 ELSE timers[t].repeats

GetExpireMs(t) == IF t \notin Live THEN 0 ELSE timers[t].expire

GetRemainMs(t) ==
  IF t \notin Live \/ now >= timers[t].expire THEN 0 ELSE timers[t].expire - now

-----------------------------------------------------------------------------
(* Proc.                                                                   *)

Idle == [at |-> "idle", target |-> 0, left |-> 0, running |-> None]

\* Proc reads the clock once, and follows it if it was set back.
ProcStarts ==
  /\ proc.at = "idle" /\ registered
  /\ IF now < lasttick
     THEN lasttick' = now /\ UNCHANGED proc
     ELSE /\ now # lasttick
          /\ proc' = [proc EXCEPT !.at = "loop", !.target = now]
          /\ UNCHANGED lasttick
  /\ UNCHANGED <<now, registered, cur, tlist, timers>>

ProcEnds ==
  /\ proc.at = "loop" /\ lasttick = proc.target
  /\ proc' = Idle
  /\ UNCHANGED <<now, registered, lasttick, cur, tlist, timers>>

\* The next tick, up to the loop of Fire, which goes round as often as there
\* are timers in the slot now.
TickStarts ==
  /\ proc.at = "loop" /\ lasttick # proc.target
  /\ lasttick' = lasttick + 1
  /\ cur' = Advance(cur, 1)
  /\ proc' = [proc EXCEPT !.at = "slot", !.left = Size(tlist, <<1, cur'[1]>>)]
  /\ UNCHANGED <<now, registered, tlist, timers>>

\* The loop pops the next timer and calls it back, or finds the list empty.
TimerFires ==
  /\ proc.at = "slot" /\ proc.left > 0
  /\ proc' = IF IsEmpty(tlist, Fired) THEN [proc EXCEPT !.left = @ - 1]
             ELSE [proc EXCEPT !.at = "callback", !.running = GetFirst(tlist, Fired)]
  /\ tlist' = Pop(tlist, Fired)
  /\ UNCHANGED <<now, registered, lasttick, cur, timers>>

\* Mutant: every timer loses a repeat.
CallbackReturns_CountsForever ==
  LET t     == proc.running
      left  == timers[t].repeats - 1
      again == left > 0 \/ timers[t].forever
      next  == lasttick + timers[t].interval
  IN /\ proc.at = "callback"
     /\ timers' = [timers EXCEPT ![t] =
                     IF again THEN [@ EXCEPT !.expire = next, !.repeats = left,
                                             !.wraps = Wraps(lasttick, next)]
                     ELSE None]
     /\ tlist' = IF again THEN Reg(tlist, cur, t, next, lasttick) ELSE tlist
     /\ proc' = [proc EXCEPT !.at = "slot", !.left = @ - 1, !.running = None]
     /\ UNCHANGED <<now, registered, lasttick, cur>>

\* The rest of the loop's body: the timer is armed again or deleted.
CallbackReturns ==
  LET t     == proc.running
      left  == IF timers[t].forever THEN timers[t].repeats ELSE timers[t].repeats - 1
      again == left > 0 \/ timers[t].forever
      next  == lasttick + timers[t].interval
  IN /\ proc.at = "callback"
     /\ timers' = [timers EXCEPT ![t] =
                     IF again THEN [@ EXCEPT !.expire = next, !.repeats = left,
                                             !.wraps = Wraps(lasttick, next)]
                     ELSE None]
     /\ tlist' = IF again THEN Reg(tlist, cur, t, next, lasttick) ELSE tlist
     /\ proc' = [proc EXCEPT !.at = "slot", !.left = @ - 1, !.running = None]
     /\ UNCHANGED <<now, registered, lasttick, cur>>

SlotEnds ==
  /\ proc.at = "slot" /\ proc.left = 0
  /\ FireAbove
  /\ proc' = [proc EXCEPT !.at = "loop"]
  /\ UNCHANGED <<now, registered, lasttick, timers>>

-----------------------------------------------------------------------------

\* The clock is read where the application runs and by ProcStarts, so that it
\* need not move while Proc is between callbacks.
ClockAdvances ==
  /\ AppRuns
  /\ now < MaxTime
  /\ registered => now < lasttick + MaxLag
  /\ now' = now + 1
  /\ UNCHANGED <<registered, lasttick, cur, tlist, timers, proc>>

ClockStepsBack ==
  /\ "stepback" \in AppDoes
  /\ AppRuns
  /\ now' \in Epoch..(now - 1)
  /\ UNCHANGED <<registered, lasttick, cur, tlist, timers, proc>>

Init ==
  /\ now = Epoch
  /\ registered = FALSE
  /\ lasttick = 0
  /\ cur = [w \in Level |-> IF w = 1 THEN -1 ELSE 0]
  /\ tlist = NoLinks
  /\ timers = [t \in TimerId |-> None]
  /\ proc = Idle

Next ==
  \/ \E t \in TimerId :
       \/ \E timeout \in Timeouts, interval \in Intervals, n \in Repeats :
            RegisterTimer(t, timeout, IF n = 1 THEN timeout ELSE interval, n)
       \/ DestroyTimer(t)
  \/ ProcStarts \/ ProcEnds \/ TickStarts \/ TimerFires \/ CallbackReturns \/ SlotEnds
  \/ ClockAdvances \/ ClockStepsBack

Spec == Init /\ [][Next]_vars

-----------------------------------------------------------------------------

\* The n-th cell after the head of a list.
Nth(l) == LET nth[n \in 0..(tlist.count[l] + 1)] ==
                IF n = 0 THEN l ELSE tlist.next[nth[n - 1]]
          IN nth

\* Whatever callbacks register and destroy while a slot is fired, pointers are
\* sound, count_ nodes lead from the head of each list to its tail, and the
\* timers of timers_ hang in a list, all save the one whose callback executes:
\* no list holds a pointer to a deleted timer, and no timer is lost.
ListsMatchTimers ==
  /\ Sound(tlist)
  /\ \A l \in SlotList :
       {Nth(l)[n] : n \in 1..tlist.count[l]} = {t \in TimerId : tlist.owner[t] = l}
       /\ Nth(l)[tlist.count[l] + 1] = l
  /\ {t \in TimerId : Linked(tlist, t)} = Live \ {proc.running}

\* A timer destroyed in its own callback, a repeating one too, does not
\* outlive that callback (svr_timer.h:139, DestroyTimer is re-entrant), and
\* GetRemainNum says meanwhile that no run is left, never that it runs for ever.
DestroyTakesEffect ==
  \A t \in Live : timers[t].destroyed => proc.running = t /\ GetRemainNum(t) = 0

\* A timer fires on the tick it expires, neither before nor after, from
\* whatever level it had to come down, and however far Proc was behind, and
\* GetRemainMs tells its callback that nothing remains; timers whose life sees
\* the 32-bit milliseconds wrap are the next property's.
FiresOnTime ==
  \A t \in Live : ~timers[t].wraps =>
    \/ proc.running = t /\ lasttick = GetExpireMs(t) /\ GetRemainMs(t) = 0
    \/ proc.running # t /\ lasttick < GetExpireMs(t)
    \/ proc.at \in {"slot", "callback"} /\ lasttick = GetExpireMs(t)

\* When the milliseconds wrap (every 49.7 days), cal_remain is one too small: a
\* timer may fire a tick early or, if nothing remained, one turn of the first
\* level later; but none is lost.
NearlyOnTime ==
  \A t \in Live :
    /\ proc.running = t => lasttick >= GetExpireMs(t) - 1
    /\ lasttick < GetExpireMs(t) + WheelSize[1]
=============================================================================
