SPECIFICATION Spec
CONSTANTS
  m1 = m1
  m2 = m2
  None = None
  TimerId <- Two
  WheelSize <- Sizes
  Width = 32
  Epoch = 30
  MaxTime = 34
  MaxLag = 1
  Timeouts <- TurnTimeouts
  Intervals <- MCIntervals
  Repeats <- OftenOrOnce
  AppDoes <- Anything
INVARIANTS
  TypeOK
  ListsMatchTimers
  DestroyTakesEffect
SYMMETRY Symmetry
