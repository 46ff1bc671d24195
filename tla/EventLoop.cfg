SPECIFICATION Spec
CONSTANTS
  Functors = {"f1", "f2", "f3"}
  Callers = {"c1", "c2"}
  Modes = {TRUE, FALSE}
INVARIANTS TypeOK SleepsOnlyWithoutWork DtorWaitsForThread
PROPERTIES OwnerReturns ImplementsFunctorQueue
CHECK_DEADLOCK FALSE
