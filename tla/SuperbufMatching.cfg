SPECIFICATION Spec
CONSTANTS
  meta = meta
  prev = prev
  snap = snap
  Streams = {meta, prev, snap}
  MetaStream = meta
  MetaKinds <- MetaPlain
  NumBufs = 2
  WaterMark = 1
  LookBack = 1
  PostFrameSkip = 1
  MaxUnmatched = 1
  FutureOffset = 2
  InitMode = "BURST"
  MallocCanFail = TRUE
  Requests <- RequestsMatching
  MaxFrame = 3
  MaxCmds = 1
  MaxExpected = 9
SYMMETRY StreamSymmetry
INVARIANTS NoBufferLost QueueOrdered NothingOwed
PROPERTIES ImplementsDelivery
