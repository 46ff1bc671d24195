-------------------------------- MODULE Uuid --------------------------------
(***************************************************************************)
(* uuid_t of src/src/common/common_def.h: two 64-bit numbers, and how they *)
(* are compared.                                                           *)
(***************************************************************************)
EXTENDS Naturals

uuid_t == [high_ : Nat, low_ : Nat]

Equal(a, b)    == a.high_ = b.high_ /\ a.low_ = b.low_
NotEqual(a, b) == a.high_ # b.high_ \/ a.low_ # b.low_
Less(a, b)     == a.high_ < b.high_ \/ (~(a.high_ > b.high_) /\ a.low_ < b.low_)
empty(a)       == a.high_ = 0 /\ a.low_ = 0
=============================================================================
