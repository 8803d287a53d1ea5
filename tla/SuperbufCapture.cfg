SPECIFICATION Spec
CONSTANTS
  meta = meta
  prev = prev
  Streams = {meta, prev}
  MetaStream = meta
  MetaKinds <- MetaCapture
  NumBufs = 2
  WaterMark = 1
  LookBack = 1
  PostFrameSkip = 1
  MaxUnmatched = 1
  FutureOffset = 2
  InitMode = "BURST"
  MallocCanFail = FALSE
  Requests <- RequestsCapture
  MaxFrame = 2
  MaxCmds = 2
  MaxExpected = 9
INVARIANTS LoopsEnd FlashOnlyForRequest
