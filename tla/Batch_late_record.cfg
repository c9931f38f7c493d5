SPECIFICATION Spec
CONSTANTS
  None = None
  NumCases = 1
  Ineligible = {}
  RetryTransport = TRUE
  GlobalLimit = 2
  SlotTimeout = 1
  Answers <- CommonAnswers
  CaseBytes = 1
  SlotBytes = 1
  MaxStateBytes = 100
  MaxElapsed = 2
  MaxClockSteps = 0
  MaxStops = 1
INVARIANT LateRecordNeverSucceeds
CHECK_DEADLOCK FALSE
