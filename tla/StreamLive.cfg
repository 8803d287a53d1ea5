SPECIFICATION FairSpec
CONSTANTS
  b1 = b1
  b2 = b2
  b3 = b3
  b4 = b4
  Bufs <- ThreeBufs
  NoBuf = NoBuf
  InitHeld = {}
  Bundled = TRUE
  HasCb = TRUE
  RunsDry = TRUE
  BufOpsCanFail = FALSE
  StartCanFail = TRUE
  Spurious = FALSE
  MaxSessions = 1
INVARIANTS QueuedCountExact
PROPERTIES FrameDelivered
