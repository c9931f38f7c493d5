SPECIFICATION FairSpec
CONSTANTS
  None = None
  NumCases = 2
  Ineligible = {}
  RetryTransport = TRUE
  GlobalLimit = 2
  SlotTimeout = 1
  Answers <- CommonAnswers
  CaseBytes = 1
  SlotBytes = 1
  MaxStateBytes = 100
  MaxElapsed = 2
  MaxClockSteps = 0
  MaxStops = 2
INVARIANTS
  TypeOK
  NeverWedged
  InvocationCountHonest
  ReportMatchesFiles
  LateRecordRetracted
PROPERTIES
  SpendsWithinBudget
  SettledCaseFrozen
  BatchCompletes
