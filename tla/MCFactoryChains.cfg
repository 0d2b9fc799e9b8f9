CONSTANTS
  MaxId = 4
  MaxPending = 2
SPECIFICATION FactorySpec
INVARIANT OneScheduleChain
CHECK_DEADLOCK FALSE
