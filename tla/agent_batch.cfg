SPECIFICATION Spec
CONSTANTS
    None = None
    NumTables = 2
    Kind <- WritePipeline
    Batches = {b}
    Resumes = {r}
    Recoveries = {v}
    Cancels = {c}
    Modes = {"langgraph", "sequential"}
    SharedStore = TRUE
    MaxFaults = 1
    MaxAnswers = 4
CHECK_DEADLOCK FALSE
INVARIANTS
    TypeOK
    LedgerClaimsOnlyWork
    
    PauseCanBeResumed
    CompletedRanEverything
    
PROPERTIES
    BatchComesToRest
    NothingStartsAfterCancel
