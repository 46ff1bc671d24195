SPECIFICATION ResumeSpec
CONSTANTS
  t1 = t1
  t2 = t2
  e1 = e1
  Main = Main
  Null = Null
  TranId <- Trans2
  Addr <- Addr2
  TimerId <- Timer2
  Event <- OneEvent
  TranType <- Types
  Cmds <- TypeCmds
  NeedUndo <- TypeUndo
  AppDoes <- ResumableApp
  MaxCrashes = 2
INVARIANTS
  CommandsDoneOnce
  ResumedCanBeWoken
  ResumedSuccess
PROPERTIES
  InterruptedEnds
CHECK_DEADLOCK FALSE
