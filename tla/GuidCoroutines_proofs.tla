------------------------ MODULE GuidCoroutines_proofs ------------------------
(***************************************************************************)
(* Proofs about GuidCoroutines: every step with the ids of GenGUID is one  *)
(* of the scheduler, and the ids are unique.  The second argument needs    *)
(* what relates the ids given so far to the two static variables: none is  *)
(* of a later second than the last call's, and those of that second have   *)
(* been counted by cur_seq.                                                *)
(***************************************************************************)
EXTENDS GuidCoroutines, CoroutineScheduler_proofs

GuidTypes ==
  /\ now \in Second /\ last_s \in 0..LastSecond /\ cur_seq \in 0..SeqSize - 1
  /\ given \subseteq GUID /\ used \in Nat

\* No id given is of a later second than last_s, nor last_s than the clock.
GivenBefore ==
  /\ last_s <= now
  /\ \A g \in given : g[1] <= last_s

\* The ids of the clock's second are those that cur_seq has counted.
GivenCounted ==
  IF last_s = now THEN /\ used = cur_seq + 1
                       /\ \A g \in given : g[1] = now => g[2] <= cur_seq
                  ELSE used = 0

GuidInv ==
  /\ GuidTypes
  /\ ~setBack => GivenBefore
  /\ ~setBack /\ ~wrapped => GivenCounted /\ ~reused

LEMMA GuidInitEstablishes == AllInit => GuidInv
  BY GuidAssumption
     DEF AllInit, GuidInit, GuidInv, GuidTypes, GivenBefore, GivenCounted, Second, GUID

\* The id that GenGUID returns is well formed, and is new while neither the
\* clock nor the sequence has betrayed it.
LEMMA NextIsNew ==
  ASSUME GuidInv
  PROVE  /\ NextSeq \in 0..SeqSize - 1 /\ NextGUID \in GUID
         /\ ~setBack /\ ~wrapped /\ used # SeqSize => NextGUID \notin given
<1>1. NextSeq \in 0..SeqSize - 1
  BY GuidAssumption DEF GuidInv, GuidTypes, NextSeq
<1>2. NextGUID \in GUID
  BY <1>1 DEF GuidInv, GuidTypes, NextGUID, GUID
<1>3. ASSUME ~setBack, ~wrapped, used # SeqSize, NextGUID \in given
      PROVE  FALSE
  <2>1. now <= last_s /\ last_s <= now
    BY <1>3 DEF GuidInv, GivenBefore, NextGUID
  <2>2. last_s = now
    BY <2>1 DEF GuidInv, GuidTypes, Second
  <2>3. NextSeq <= cur_seq /\ used = cur_seq + 1
    BY <1>3, <2>2 DEF GuidInv, GivenCounted, NextGUID
  <2> QED
    BY <1>3, <2>2, <2>3 DEF NextSeq, GuidInv, GuidTypes
<1> QED
  BY <1>1, <1>2, <1>3

LEMMA TakesGUIDKeeps ==
  ASSUME GuidInv, TakesGUID
  PROVE  GuidInv'
<1> USE DEF TakesGUID, GenGUID
<1>1. GuidTypes'
  BY NextIsNew DEF GuidInv, GuidTypes, Second
<1>2. ASSUME ~setBack'
      PROVE  GivenBefore'
  <2>1. GivenBefore
    BY <1>2 DEF GuidInv
  <2>2. \A g \in given : g[1] <= now
    BY <2>1 DEF GivenBefore, GuidInv, GuidTypes, GUID, Second
  <2> QED
    BY <2>2 DEF GuidInv, GuidTypes, GivenBefore, NextGUID, Second
<1>3. ASSUME ~setBack', ~wrapped'
      PROVE  GivenCounted' /\ ~reused'
  <2>1. ~setBack /\ ~wrapped /\ used # SeqSize /\ used' = used + 1
    BY <1>3
  <2>2. ~reused'
    BY <2>1, NextIsNew DEF GuidInv
  <2>3. used' = cur_seq' + 1
    BY <2>1, GuidAssumption DEF GuidInv, GivenCounted, GuidTypes, NextSeq
  <2>4. \A g \in given' : g[1] = now => g[2] <= cur_seq'
    <3> SUFFICES ASSUME NEW g \in given, g[1] = now
                 PROVE  g[2] <= cur_seq'
      BY NextIsNew DEF NextGUID
    <3>1. last_s = now
      BY <2>1 DEF GuidInv, GivenBefore, GuidTypes, Second
    <3>2. g[2] <= cur_seq /\ used = cur_seq + 1
      BY <2>1, <3>1 DEF GuidInv, GivenCounted
    <3>3. g[2] \in Nat
      BY DEF GuidInv, GuidTypes, GUID
    <3> QED
      BY <2>1, <3>1, <3>2, <3>3 DEF GuidInv, GuidTypes, NextSeq
  <2> QED
    BY <2>2, <2>3, <2>4 DEF GivenCounted
<1> QED
  BY <1>1, <1>2, <1>3 DEF GuidInv

LEMMA ClockKeeps ==
  ASSUME GuidInv, NEW s \in Second, Clock(s)
  PROVE  GuidInv'
<1> USE DEF Clock, ClockIs
<1>1. GuidTypes'
  BY DEF GuidInv, GuidTypes
<1>2. ASSUME ~setBack'
      PROVE  ~setBack /\ now < s
  <2>1. ~setBack /\ ~(s < now)
    BY <1>2, Zenon
  <2> QED
    BY <2>1 DEF GuidInv, GuidTypes, Second
<1>3. ASSUME ~setBack'
      PROVE  GivenBefore' /\ last_s' # now'
  BY <1>2, <1>3 DEF GuidInv, GuidTypes, GivenBefore, Second
<1>4. ASSUME ~setBack', ~wrapped'
      PROVE  GivenCounted' /\ ~reused'
  BY <1>2, <1>3, <1>4 DEF GuidInv, GivenCounted
<1> QED
  BY <1>1, <1>3, <1>4 DEF GuidInv

LEMMA GuidStepKeeps == GuidInv /\ [GuidNext]_allVars => GuidInv'
<1> SUFFICES ASSUME GuidInv, [GuidNext]_allVars
             PROVE  GuidInv'
  OBVIOUS
<1>1. CASE CreateWithGUID
  BY <1>1, TakesGUIDKeeps DEF CreateWithGUID
<1>2. CASE OtherGUID
  BY <1>2, TakesGUIDKeeps DEF OtherGUID
<1>3. CASE \E s \in Second : Clock(s)
  BY <1>3, ClockKeeps
<1>4. CASE Switch \/ UNCHANGED allVars
  BY <1>4 DEF Switch, allVars, guidVars, idHistory, GuidInv, GuidTypes, GivenBefore, GivenCounted
<1> QED
  BY <1>1, <1>2, <1>3, <1>4 DEF GuidNext

\* GenGUID returns no id twice, however many ids and seconds there are, unless
\* the clock is set back or a second uses its sequence up.
THEOREM GuidsAreUnique == GuidSpec => []GuidsUnique
<1>1. GuidInv => GuidsUnique
  BY DEF GuidInv, GuidsUnique
<1> QED
  BY <1>1, GuidInitEstablishes, GuidStepKeeps, PTL DEF GuidSpec

\* With the ids it takes from GenGUID, repeated ones included, the scheduler
\* takes only steps of its specification, so that whatever is proved about
\* that holds with these ids.
THEOREM GuidsKeepScheduler == GuidSpec => Spec
<1>1. AllInit => Init
  BY DEF AllInit
<1>2. GuidInv /\ [GuidNext]_allVars => [Next]_vars
  <2> SUFFICES ASSUME GuidInv, [GuidNext]_allVars
               PROVE  [Next]_vars
    OBVIOUS
  <2>1. CASE CreateWithGUID
    <3>1. NextGUID \in CoId
      BY NextIsNew, IdAssumption
    <3> QED
      BY <2>1, <3>1 DEF CreateWithGUID, Next
  <2>2. CASE OtherGUID \/ \E s \in Second : Clock(s)
    BY <2>2 DEF OtherGUID, Clock
  <2>3. CASE Switch
    BY <2>3 DEF Switch, Next
  <2>4. CASE UNCHANGED allVars
    BY <2>4 DEF allVars
  <2> QED
    BY <2>1, <2>2, <2>3, <2>4 DEF GuidNext
<1> QED
  BY <1>1, <1>2, GuidInitEstablishes, GuidStepKeeps, PTL DEF GuidSpec, Spec
=============================================================================
