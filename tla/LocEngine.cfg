SPECIFICATION LocFairSpec
CONSTANTS
  Aiding = {ephemeris}
  MaxMsgs = 2
  MaxCrashes = 2
INVARIANTS EngineOffTold 
 
