SPECIFICATION Spec
CONSTANTS
    None = None
    Scans = {s1, s2}
    Stewards = {d1}
    Purges = {x1}
    MaxCrashes = 1
SYMMETRY ScanSymmetry
CHECK_DEADLOCK FALSE
INVARIANTS
    TypeOK
    IndexedRunsHaveAudit
    QuiescentActiveIsAudited
    SerialContributionsKept
    SerialRowsKept
    SerialVersionsNameOneContent
    SerialStampIsCurrent
PROPERTIES
    SerialIdentityLocked
    SerialWritesObeyDecision
    SerialPurgeForgets
