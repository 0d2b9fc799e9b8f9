SPECIFICATION Spec
\* MessageLoop
CONSTANTS
  Poster = {p1, p2}
SYMMETRY Symmetric
CONSTANTS
  MaxTasks = 3
  MaxDepth = 3
  MaxTicks = 1
\* FreqFactoryHost
CONSTANTS
  Period = 2
  Late = 1
  ProduceTime = 2
  MaxId = 4
  MaxPending = 2
  MaxTime = 7
  Delta = 3
  MaxAdjust = 1
\* The loop may be deleted, and the clock stops at its bound.
CHECK_DEADLOCK FALSE
INVARIANTS LoopSafe StartsRight KeepsPeriod SpeedLimit KeepsRate
PROPERTIES ImplementsTaskQueue QuitEndsWork ImplementsFactory
