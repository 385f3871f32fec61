SPECIFICATION Spec
CONSTANTS
  MaxMsgs = 4
  Parts = 2
INVARIANT ListsRightUntilAnswer
INVARIANT AnswersWhatWasSeen
INVARIANT CorruptOnlyAfterAnswer
INVARIANT FileInStep
CHECK_DEADLOCK FALSE
