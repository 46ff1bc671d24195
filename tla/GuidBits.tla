------------------------------ MODULE GuidBits ------------------------------
(***************************************************************************)
(* src/src/common/gen_guid: how type, second and sequence share the 64     *)
(* bits of a GUID (module Guid says which of them GenGUID takes), and how  *)
(* GUIDStr takes it apart.  Shifts are products, a mask is a remainder.    *)
(***************************************************************************)
EXTENDS Integers

\* 2^kTypeBits, 2^kTimestampBits, 2^kSeqBits.
TypeSize      == 256
TimestampSize == 65536 * 65536
SeqSize       == 16777216

kSecFrom19700101To20250101 == 1735689600

\* OBJ_TYPE: transaction instances, coroutines and timers.
OBJ_TYPE == 1..3

\* GenGUID's result for the second cur_s of a u32 and the sequence cur_seq.
Packed(type, cur_s, cur_seq) ==
  LET utype     == type % TypeSize
      timestamp == (cur_s - kSecFrom19700101To20250101) % TimestampSize
      seq       == cur_seq % SeqSize
  IN (utype * TimestampSize + timestamp) * SeqSize + seq

\* What GUIDStr prints of a GUID.
GUIDStr(guid) ==
  [type      |-> (guid \div (TimestampSize * SeqSize)) % TypeSize,
   timestamp |-> kSecFrom19700101To20250101 + ((guid \div SeqSize) % TimestampSize),
   seq       |-> guid % SeqSize]
=============================================================================
