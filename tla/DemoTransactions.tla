--------------------------- MODULE DemoTransactions ---------------------------
(***************************************************************************)
(* src/demo/cmds and src/demo/trans: the commands and the two transaction  *)
(* types of the demo server, as TransactionEngine takes them: a command is *)
(* the bag of the events it awaits, a type its cmd_array_ and whether it   *)
(* is undone.  What Do and OnRecvMsgEvent return is left to the engine,    *)
(* which lets them fail too.                                               *)
(***************************************************************************)
EXTENDS Naturals, Sequences

\* TranEventType and TransactionType without their bounds, which mark what is
\* not valid.
TranEventType   == {"EVENT_DEMO", "EVENT_DEMO_2", "EVENT_DEMO_3"}
TransactionType == {"DEMO", "DEMO_2"}

\* A Command constructed with one event id.
Command(event_id) == [e \in TranEventType |-> IF e = event_id THEN 1 ELSE 0]

TestCmd  == Command("EVENT_DEMO")
TestCmd2 == Command("EVENT_DEMO_2")
TestCmd3 == Command("EVENT_DEMO_3")

DemoTransaction  == <<TestCmd, TestCmd2, TestCmd3>>
DemoTransaction2 == <<TestCmd3, TestCmd2, TestCmd>>

GetTranByType == [type \in TransactionType |->
                    IF type = "DEMO" THEN DemoTransaction ELSE DemoTransaction2]

is_need_undo == [type \in TransactionType |-> TRUE]
=============================================================================
