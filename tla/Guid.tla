-------------------------------- MODULE Guid --------------------------------
(***************************************************************************)
(* src/src/common/gen_guid: ids made of a type, the second of the system   *)
(* clock and a sequence number, which all types share.  The second is      *)
(* counted from 2025 in the code; the type, which keeps ids of different   *)
(* kinds apart, is left to the caller.  cur_seq is a u32 of which only the *)
(* low kSeqBits are used: only these are kept, SeqSize being 2^kSeqBits.    *)
(***************************************************************************)
EXTENDS Naturals

CONSTANTS SeqSize,
          LastSecond  \* bound: the clock stops there

ASSUME GuidAssumption == SeqSize \in Nat \ {0} /\ LastSecond \in Nat \ {0}

VARIABLES now,      \* the system clock, in seconds
          last_s,
          cur_seq

guidVars == <<now, last_s, cur_seq>>

Second == 1..LastSecond
GUID   == Second \X (0..SeqSize - 1)

GuidInit == now = 1 /\ last_s = 0 /\ cur_seq = 0

\* What GenGUID will return, and what it leaves behind.
NextSeq  == IF last_s # now \/ cur_seq + 1 = SeqSize THEN 0 ELSE cur_seq + 1
NextGUID == <<now, NextSeq>>

\* Mutant: last_s is never set.
GenGUID_ForgetsSecond ==
  /\ cur_seq' = NextSeq
  /\ UNCHANGED <<now, last_s>>

GenGUID ==
  /\ cur_seq' = NextSeq
  /\ last_s' = now
  /\ UNCHANGED now

\* The clock goes on, or is set.
ClockIs(s) == now' = s /\ UNCHANGED <<last_s, cur_seq>>
=============================================================================
