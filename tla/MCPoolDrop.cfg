SPECIFICATION PoolSpec
CONSTANTS
  Client = {main, c1}
  Main = main
  max_threads_ = 2
  Name = {n}
  MaxTasks = 2
  MaxTokens = 1
  DeletePosts = TRUE
CHECK_DEADLOCK FALSE
INVARIANT DeletesOutsideLock
