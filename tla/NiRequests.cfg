SPECIFICATION FairSpec
CONSTANTS
  NumRequests = 2
  MaxMsgs = 1
  MaxCrashes = 1
INVARIANTS NoRequestLost AnswerIsOwnIfTimely
PROPERTIES NiEnds
CHECK_DEADLOCK FALSE
