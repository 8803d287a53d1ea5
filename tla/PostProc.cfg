SPECIFICATION FairSpec
CONSTANTS
  Frames <- TwoFrames
  Sessions <- OneSession
  Handles = 2
  MaxOngoing = 1
  Faults = {"empty", "fill", "error", "encode", "reproc"}
  Pictures <- AllPictures
  MaxStarts = 2
  Prompt = TRUE
INVARIANTS
  
  FramesAccounted
PROPERTIES
  WorkEnds
CHECK_DEADLOCK FALSE
