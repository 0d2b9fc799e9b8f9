SPECIFICATION Spec
\* MessageLoop
CONSTANTS
  Poster = {p1, p2}
  MaxTasks = 2
  MaxDepth = 1
  MaxTicks = 1
\* Timer
  Delay = {0, 1, 2}
  MaxTimerTasks = 3
\* WinXPCondVar
  Consumer = {c1, c2}
  Producer = {d1, d2}
  MaxItems = 2
\* WaitableEvent
  Waiting = {w1, w2}
  Signaling = {s1}
  Event = {1, 2}
  ManualReset = {2}
  NoEvent = 0
\* The loop and the timer may be gone, and then nothing is left to do.
CHECK_DEADLOCK FALSE
PROPERTIES PostedTasksStart TimerSound CondVarSound EventsSound
