SPECIFICATION Spec
\* SequencedWorkerPool
CONSTANTS
  Client = {main, c1}
  Main = main
  max_threads_ = 2
  Name = {}
  MaxTasks = 3
  MaxTokens = 1
  DeletePosts = FALSE
\* PostTaskAndReply
  Thread = {t1, t2}
  Relay = {r1, r2, r3}
  NONE = NONE
\* WaitableEventWatcher
  Watcher = {w1, w2}
  Watched = {e1, e2}
  SelfReset = {e1}
  Address = {a1, a2}
  MaxWatches = 3
  NoKernel = none
\* ObserverListThreadSafe
  ListThread = {t1, t2}
  SharedObserver = {o1, o2}
  ContextAddress = {x1, x2}
  NoContext = none
  Hole = hole
  MaxWrappers = 2
  MaxList = 2
\* ObserverList
  Observer = {p1, p2, p3}
  NULL = NULL
  MaxSlots = 5
  MaxDepth = 3
\* WinMessagePump
  UIPoster = {p1, p2}
  QueueSize = 2
  MaxUITasks = 2
  MaxMessages = 2
  MaxFrames = 4
\* WeakPtr
  PtrThread = {f1, f2}
  MaxFlags = 3
  MaxCallbacks = 2
\* WinTicks
  TickUser = {k1, k2, k3}
  Rollover = 3
  MaxBoot = 10
\* TimerLease
  LeasePoster = {l1, l2}
  Owner = l0
  Lease = 1
  MaxLeaseTime = 5
  MaxLeases = 3
\* WinThreadLocal
  TlsThread = {h1, h2}
  SlotObject = {s1, s2}
  kThreadLocalStorageSize = 3
  kMaxDestructorIterations = 2
  MaxValues = 3
\* The pool, the loops and the lists may be gone, and the counters at their
\* bounds, and then nothing is left to do.
CHECK_DEADLOCK FALSE
INVARIANTS PoolSafe DeletedAtOrigin RelaySound SharedListSound PumpSound
INVARIANTS PtrSound LeaseIsPaired TlsSound
PROPERTIES ImplementsSequencedTasks WatchesSound ImplementsObserverSet TicksSound
