SPECIFICATION Spec
CONSTANTS
  None = None
  Operator = Operator
  CasePaths = {c1, c2}
  Strangers = {other}
  MaxBuilds = 3
  MaxFaults = 1
  MaxMeddling = 2
SYMMETRY Interchangeable
INVARIANTS
  TypeOK
  OwnsWhatItWrote
  Reclaimable
  NothingStaleAfterFailure
PROPERTIES
  RemovesOnlyOwned
  ReportedIsWhole
CHECK_DEADLOCK FALSE
