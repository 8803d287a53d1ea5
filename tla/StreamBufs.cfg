SPECIFICATION FairSpec
CONSTANTS
  b1 = b1
  b2 = b2
  b3 = b3
  b4 = b4
  Bufs <- FourBufs
  NoBuf = NoBuf
  InitHeld <- LastBuf
  Bundled = FALSE
  HasCb = TRUE
  RunsDry = FALSE
  BufOpsCanFail = TRUE
  StartCanFail = TRUE
  Spurious = FALSE
  MaxSessions = 2
INVARIANTS RefcntExact KernelExclusive 
PROPERTIES StopEnds
