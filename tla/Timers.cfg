SPECIFICATION FairSpec
CONSTANTS
  t1 = t1
  t2 = t2
  Timers <- TwoTimers
  NoTimer = NoTimer
  Delays = {0, 1, 3}
  TicksPerSec = 2
  LateStop = FALSE
  MaxTime = 4
INVARIANTS  SoonestArmed
PROPERTIES ImplementsService
