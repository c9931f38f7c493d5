SPECIFICATION Spec
CONSTANTS
  None = None
  NumCases = 3
  Ineligible = {}
  RetryTransport = TRUE
  GlobalLimit = 2
  SlotTimeout = 1
  Answers <- CommonAnswers
  CaseBytes = 176
  SlotBytes = 350
  MaxStateBytes = 629
  MaxElapsed = 2
  MaxClockSteps = 0
  MaxStops = 0
INVARIANT LedgerStaysReadable
CHECK_DEADLOCK FALSE
