SPECIFICATION Spec
CONSTANTS
  CaptureLimit = 1
  MaxChunks = 1
  MaxFaults = 1
  MaxInterrupts = 1
INVARIANTS
  Contained
  TrueAnswer
  SignalsItsOwn
  StartsOnlyReleased
CHECK_DEADLOCK FALSE
