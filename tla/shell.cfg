SPECIFICATION FairSpec
CONSTANTS
  MaxWords = 3
  MaxCmds = 3
  MaxOut = 2
INVARIANT PlansSafe
INVARIANT ForegroundWaitedFor
INVARIANT PipeOwnData
PROPERTY PromptReturns
CHECK_DEADLOCK FALSE
