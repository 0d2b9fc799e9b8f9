SPECIFICATION Spec
\* SequencedWorkerPool
CONSTANTS
  Client = {main}
  Main = main
  max_threads_ = 2
  Name = {n}
  MaxTasks = 2
  MaxTokens = 1
  DeletePosts = FALSE
\* PostTaskAndReply
  Thread = {t1, t2}
  Relay = {r1, r2}
  NONE = NONE
\* AtExit
  UserThread = {u1, u2}
  MainThread = u1
  Instance = {1, 2, 3}
  Uses <- Before
\* PosixDynamicThreadPool and BaseThread
  MaxPoolTasks = 5
  MaxThreadTasks = 3
\* Factory
  MaxId = 4
  MaxPending = 3
\* Watchdog
  Dog = {g1, g2}
  duration_ = 1
  Ago = {0, 1}
  MaxWatchTime = 2
  MaxArms = 1
\* The pools and the loops may be gone, and the exit over, and then nothing is
\* left to do.
CHECK_DEADLOCK FALSE
INVARIANT FactorySafe
PROPERTIES PoolLive CallsAreAnswered InstancesSound EveryTaskBegins ThreadSound
PROPERTIES FactoryLive WatchdogSound
