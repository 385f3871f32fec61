SPECIFICATION FairSpec
CONSTANTS
  Clients = {c1, c2}
  HeadLen = 2
  BodyLen = 2
  RespLen = 2
  MaxCalls = 2
  SysMayFail = TRUE
INVARIANT FramesAligned
INVARIANT AbortHasCause
INVARIANT StopsAfterOneBatch
PROPERTY NoFdLeak
PROPERTY ImplementsCalls
CHECK_DEADLOCK FALSE
