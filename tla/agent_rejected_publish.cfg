SPECIFICATION Spec
CONSTANTS
    None = None
    NumTables = 1
    Kind <- PublishPipeline
    Batches = {b}
    Resumes = {r}
    Recoveries = {}
    Cancels = {}
    Modes = {"langgraph"}
    SharedStore = TRUE
    MaxFaults = 0
    MaxAnswers = 1
CHECK_DEADLOCK FALSE
INVARIANTS
    PublishedWereApproved
