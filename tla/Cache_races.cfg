SPECIFICATION Spec
CONSTANTS
  None = None
  Procs = {p1, p2, p3}
  Responses = {r1, r2}
  ReadAttempts = 2
  MaxCalls = 3
  MaxFaults = 1
SYMMETRY Interchangeable
INVARIANTS
  TypeOK
  EntryWhole
  NeverAsksOverEntry
  ReturnedWasEntry
  FailureExplained
  NoResidue
CHECK_DEADLOCK FALSE
