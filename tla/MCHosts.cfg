CONSTANTS
  h1 = h1
  h2 = h2
  main = main
  fthread = fthread
  MaxId = 2
  MaxPending = 1
  Host <- Hosts2
  FreqHost <- SecondHost
  Thread <- Threads2
  FactoryThread = fthread
  HostThread <- OneOnFactoryThread
  QuitThread <- Threads2
SPECIFICATION Spec
INVARIANTS TypeOK StubsMatchFactory InitTouchesHostAlone NoLostData HostsEndWell
PROPERTIES CallbacksWhileInitialised DataInOrder
CHECK_DEADLOCK FALSE
