CONSTANTS
  h1 = h1
  h2 = h2
  main = main
  fthread = fthread
  MaxId = 2
  MaxPending = 1
  Host <- Hosts1
  FreqHost <- Nobody
  Thread <- Threads2
  FactoryThread = fthread
  HostThread <- OneOnMain
  QuitThread <- Nobody
SPECIFICATION Spec
INVARIANTS CreateStubHasFactory
CHECK_DEADLOCK FALSE
