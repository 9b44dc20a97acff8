SPECIFICATION Spec
CONSTANTS
    None = None
    j1 = j1
    j2 = j2
    j3 = j3
    Jobs = {j1, j2, j3}
    Fn <- OneOfEach
    Hands = {h}
    Actors = {j1, j2, j3, h}
    Sessions = {s}
    MaxWorkers = 2
    MaxQueue = 0
    MaxCopies = 1
    NumRuns = 1
    MaxAsks = 2
CHECK_DEADLOCK FALSE
INVARIANTS
    TypeOK
    MergedRunWasFolded
    FoldedRunIsMarked
    SlotsBelongToJobs
    FinishedSessionIsSettled
PROPERTY
    PoolDrains
