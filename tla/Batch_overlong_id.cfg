SPECIFICATION Spec
CONSTANTS
  None = None
  NumCases = 2
  Ineligible = {}
  RetryTransport = TRUE
  GlobalLimit = 2
  SlotTimeout = 1
  Answers <- AllAnswers
  CaseBytes = 1
  SlotBytes = 1
  MaxStateBytes = 100
  MaxElapsed = 2
  MaxClockSteps = 0
  MaxStops = 0
INVARIANT AnswerNeverEndsBatch
CHECK_DEADLOCK FALSE
