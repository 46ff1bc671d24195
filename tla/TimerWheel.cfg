SPECIFICATION Spec
CONSTANTS
  m1 = m1
  m2 = m2
  None = None
  TimerId <- Two
  WheelSize <- Sizes
  Width = 32
  Epoch = 26
  MaxTime = 38
  MaxLag = 2
  Timeouts <- MCTimeouts
  Intervals <- MCIntervals
  Repeats <- MCRepeats
  AppDoes <- Calm
INVARIANTS
  FiresOnTime
  NearlyOnTime
SYMMETRY Symmetry
