SPECIFICATION Spec
CONSTANTS
  Scope <- FourCases
  First = "first"
  Target = "target"
  Segments <- Runs
  Verdicts = {"structured", "metadata", "valid", "unusable"}
  MaxRuns = 3
  MaxFaults = 2
INVARIANTS
  TypeOK
  VerifiedReportIsTrue
PROPERTIES
  CallsAreDue
  EvidenceKept
CHECK_DEADLOCK FALSE
