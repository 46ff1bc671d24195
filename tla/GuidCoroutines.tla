--------------------------- MODULE GuidCoroutines ---------------------------
(***************************************************************************)
(* CoroutineScheduler with the ids that CreateWorkRoutine really takes:    *)
(* GUIDs of module Guid, whose sequence transactions and timers use too.   *)
(***************************************************************************)
EXTENDS CoroutineScheduler, Guid, FiniteSets

CONSTANT MaxLive  \* bound: coroutines at a time

ASSUME LiveAssumption == MaxLive \in Nat
ASSUME IdAssumption == GUID \subseteq CoId

VARIABLES given,    \* history: the GUIDs that were returned
          reused,   \* history: one of them was returned again
          used,     \* history: GUIDs returned in the present second
          setBack,  \* history: the clock was set back
          wrapped   \* history: a second saw more than SeqSize GUIDs

idHistory == <<given, reused, used, setBack, wrapped>>
allVars   == <<vars, guidVars, idHistory>>

\* A call of GenGUID, with what the histories make of it.
TakesGUID ==
  /\ GenGUID
  /\ given' = given \cup {NextGUID}
  /\ reused' = (reused \/ NextGUID \in given)
  /\ IF used = SeqSize THEN wrapped' = TRUE /\ UNCHANGED used
                          ELSE used' = used + 1 /\ UNCHANGED wrapped
  /\ UNCHANGED setBack

\* CreateWorkRoutine with the id it takes.  When the id is in the map already,
\* the new routine is destroyed again and an error returned.
CreateWithGUID ==
  /\ Cardinality(coroutines) < MaxLive
  /\ TakesGUID
  /\ IF NextGUID \in coroutines THEN UNCHANGED vars ELSE CreateWorkRoutine(NextGUID)

\* A transaction or a timer takes a GUID.
OtherGUID == TakesGUID /\ UNCHANGED vars

\* The system clock goes on, or is set.
Clock(s) ==
  /\ s # now /\ ClockIs(s)
  /\ setBack' = (setBack \/ s < now)
  /\ used' = 0
  /\ UNCHANGED <<vars, given, reused, wrapped>>

Switch == /\ \/ \E c \in CoId : \/ c # cpu /\ DestroyWorkRoutine(c)
                                \/ SwapToWorkRoutine(c)
             \/ SwapToMain
             \/ WorkRoutineExit
          /\ UNCHANGED <<guidVars, idHistory>>

GuidNext == CreateWithGUID \/ OtherGUID \/ Switch \/ \E s \in Second : Clock(s)

AllInit ==
  /\ Init /\ GuidInit
  /\ given = {} /\ reused = FALSE /\ used = 0 /\ setBack = FALSE /\ wrapped = FALSE

GuidSpec == AllInit /\ [][GuidNext]_allVars

-----------------------------------------------------------------------------
\* GenGUID returns no id twice, so that no coroutine is refused for its id and
\* none answers to the id of one destroyed before, unless the clock is set back
\* or a second sees more ids, of all kinds, than the sequence has numbers.
GuidsUnique == reused => setBack \/ wrapped
=============================================================================
