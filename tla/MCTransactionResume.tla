-------------------------- MODULE MCTransactionResume --------------------------
(***************************************************************************)
(* Instance of TransactionResume for TLC.  Type "two" runs two commands,   *)
(* of which the first awaits an event twice, so that a crash may come when *)
(* it has come once, and the second none, and undoes.                      *)
(***************************************************************************)
EXTENDS TransactionResume, TLC

CONSTANTS t1, t2, e1

Trans2   == {t1, t2}
OneEvent == {e1}
Addr2    == 1..2
Timer2   == 1..2

Types    == {"two"}
TypeCmds == [ty \in Types |-> <<(e1 :> 2), (e1 :> 0)>>]
TypeUndo == [ty \in Types |-> TRUE]

ResumableApp == {"update", "nested", "abort", "refuse"}
=============================================================================
