CONSTANTS
    Requests = {"r1", "r2"}
    MaxCalls = 2
    MaxLines = 6
    MaxEvents = 5
    MaxFaults = 1
    Lines = {"thread", "turn", "reasoning", "message", "done", "error", "malformed"}
SPECIFICATION Spec
INVARIANT TypeOK
INVARIANT CommittedIsWhole
INVARIANT AnswersAlone
INVARIANT CleanScanIsComplete
PROPERTY EveryCallEnds
CHECK_DEADLOCK FALSE
