SPECIFICATION FairSpec
CONSTANTS
  t1 = t1
  t2 = t2
  e1 = e1
  e2 = e2
  Main = Main
  Null = Null
  TranId <- Trans2
  Addr <- Addr2
  TimerId <- Timer2
  Event <- MCEvent
  TranType <- Types
  Cmds <- TypeCmds
  NeedUndo <- TypeUndo
  AppDoes <- OrderlyApp
INVARIANTS
  SuspendedHasTimer
  FinishedWillBeHandled
  ResultIsHonest
PROPERTIES
  FailureIsUndone
  ImplementsTransactions
