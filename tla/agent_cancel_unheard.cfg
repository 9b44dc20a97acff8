SPECIFICATION Spec
CONSTANTS
    None = None
    NumTables = 2
    Kind <- ScanPipeline
    Batches = {b}
    Resumes = {}
    Recoveries = {}
    Cancels = {c}
    Modes = {"langgraph"}
    SharedStore = FALSE
    MaxFaults = 1
    MaxAnswers = 0
CHECK_DEADLOCK FALSE
PROPERTIES
    NothingStartsAfterCancel
