SPECIFICATION FairSpec
CONSTANTS
  ThreadCount = 3
  TaskCount = 3
INVARIANT TasksOnce
INVARIANT PopFindsTask
PROPERTY TasksServed
CHECK_DEADLOCK FALSE
PROPERTY DestroyReturns
