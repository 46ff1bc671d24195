----------------------------- MODULE TimerFuncs -----------------------------
(***************************************************************************)
(* The table of callback functions of src/src/timer/svr_timer, by number,  *)
(* as a function timer_func_array from the numbers to functions or NoFunc. *)
(* What a method returns is a record of its result and the table it leaves *)
(* or the function it calls.                                               *)
(***************************************************************************)
EXTENDS Integers

CONSTANT TransactionOnTimeout

NoFunc == 0               \* NULL
Func   == Nat \ {NoFunc}  \* where functions are

MAX_TIMER_FUNC_ID_NUM == 64

E_BASE_TIMER_FUNC_ID_INVALID == 0
E_BASE_TIMER_FUNC_ID_TRANSACTION_ON_TIMEOUT == 1

Table == [0..(MAX_TIMER_FUNC_ID_NUM - 1) -> Func \cup {NoFunc}]

ClearTimerFunc == [id \in 0..(MAX_TIMER_FUNC_ID_NUM - 1) |-> NoFunc]

\* What RegisterTimerFunc and RegisterTimer take for a number.
ValidFuncId(id) == E_BASE_TIMER_FUNC_ID_INVALID < id /\ id < MAX_TIMER_FUNC_ID_NUM

RegisterTimerFunc(table, id, func) ==
  IF ~ValidFuncId(id) THEN [ret |-> -1, table |-> table]
  ELSE IF table[id] # NoFunc THEN [ret |-> -2, table |-> table]
  ELSE [ret |-> 0, table |-> [table EXCEPT ![id] = func]]

\* Timer::OnTimeout of a timer with function number id.
OnTimeout(table, id) ==
  IF table[id] = NoFunc THEN [ret |-> -1, calls |-> {}] ELSE [ret |-> 0, calls |-> {table[id]}]

\* TransactionServer::RegisterTimerFunc.
RegisterServerFunc(table) ==
  LET r == RegisterTimerFunc(table, E_BASE_TIMER_FUNC_ID_TRANSACTION_ON_TIMEOUT,
                             TransactionOnTimeout)
  IN [ret |-> IF r.ret # 0 THEN -1 ELSE 0, table |-> r.table]
=============================================================================
