SPECIFICATION Spec
CONSTANTS
  None = None
  NumCases = 2
  Ineligible = {1}
  RetryTransport = FALSE
  GlobalLimit = 3
  SlotTimeout = 1
  Answers <- AllAnswers
  CaseBytes = 1
  SlotBytes = 1
  MaxStateBytes = 3
  MaxElapsed = 3
  MaxClockSteps = 1
  MaxStops = 2
INVARIANT NeverWedged
CHECK_DEADLOCK FALSE
