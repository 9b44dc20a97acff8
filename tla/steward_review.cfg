SPECIFICATION Spec
CONSTANTS
    None = None
    Callers = {s, t}
    NumColumns = 2
    Items = {owner}
    Values = {0, 1}
    Rulings = {"approved", "rejected"}
    MaxCalls = 3
CHECK_DEADLOCK FALSE
SYMMETRY Threads
INVARIANTS
    TypeOK
    GuaranteeMatchesVerdicts
PROPERTY
    GuaranteedPageIsCurrent
