------------------------- MODULE MCTransactionEngine -------------------------
(***************************************************************************)
(* Instances of TransactionEngine for TLC.  Type "trio" runs three         *)
(* commands, of which the second awaits nothing and the third one event    *)
(* twice, and undoes; type "single" runs one command that awaits two       *)
(* different events, without undo.  The violation runs take the types of   *)
(* the demo instead.                                                       *)
(***************************************************************************)
EXTENDS TransactionEngine, DemoTransactions, TLC

CONSTANTS t1, t2, e1, e2

Trans2 == {t1, t2}

Types   == {"trio", "single"}
MCEvent == {e1, e2}

Bag(n1, n2) == (e1 :> n1) @@ (e2 :> n2)

TypeCmds == [ty \in Types |-> IF ty = "trio" THEN <<Bag(1, 0), NoEvents, Bag(0, 2)>>
                              ELSE <<Bag(1, 1)>>]
TypeUndo == [ty \in Types |-> ty = "trio"]

Addr2  == 1..2
Timer2 == 1..2

\* OrderlyApp calls the engine from its main loop only, and only for what is
\* awaited.  WildApp does everything the interface lets it do, and the
\* others what one question needs.
OrderlyApp == {"update", "nested", "refuse", "retry", "abort"}
WildApp     == Abilities
LosingApp   == {"update", "reenter"}
StrayApp    == {"update", "stray"}
AbortApp    == {"update", "abort"}
=============================================================================
