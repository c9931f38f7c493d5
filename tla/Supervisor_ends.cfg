SPECIFICATION FairSpec
CONSTANTS
  CaptureLimit = 0
  MaxChunks = 1
  MaxFaults = 1
  MaxInterrupts = 0
INVARIANT TypeOK
PROPERTY EverythingEnds
CHECK_DEADLOCK FALSE
