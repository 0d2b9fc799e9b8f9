SPECIFICATION UISpec
CONSTANTS
  UIPoster = {p1}
  QueueSize = 2
  MaxUITasks = 2
  MaxMessages = 2
  MaxFrames = 4
CHECK_DEADLOCK FALSE
INVARIANT SubPumpServesTasks
