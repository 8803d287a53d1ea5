CONSTANTS
  Callers = {c1}
  AppCalls <- AllCalls
  ParamChoices <- Modes
  Devices <- TwoDevices
  Careful = TRUE
  EarlyRestart = FALSE
  MaxEvents = 1
SPECIFICATION FairSpec
INVARIANTS
  NothingLeft
  StatesStream
PROPERTIES
  
  NotifierReturns
CHECK_DEADLOCK FALSE
