SPECIFICATION Spec

CONSTANTS
    Order <- TwoCases
    Lists <- BothOrOne
    MaxSource = 2
    MaxFaults = 1
    Loads <- AuditOrLive

INVARIANTS
    TypeOK
    PassedPacketWasWhole
    ReportsCiteTheTree
    SignedWasTrue

CHECK_DEADLOCK FALSE
