SPECIFICATION FairSpec
CONSTANTS
  Clients = {c1, c2}
  NoOne = NoOne
  NumSlots = 1
  MaxOpens = 2
  MaxChannels = 1
  MaxCalls = 6
INVARIANTS ObjectsKept AnswersMatched
PROPERTIES  DeathTold
CHECK_DEADLOCK FALSE
