SPECIFICATION Spec
CONSTANTS
  t1 = t1
  t2 = t2
  e1 = e1
  e2 = e2
  Main = Main
  Null = Null
  TranId <- Trans2
  Addr <- Addr2
  TimerId <- Timer2
  Event <- TranEventType
  TranType <- TransactionType
  Cmds <- GetTranByType
  NeedUndo <- is_need_undo
  AppDoes <- StrayApp
INVARIANTS
  SuspendedHasTimer
CHECK_DEADLOCK FALSE
