SPECIFICATION Spec
CONSTANTS
    None = None
    Omitted = Omitted
    Columns = {email}
    Tags = {"pii", "billing"}
    Types = {"string", "integer"}
    Rules = {r1}
    Fragments <- MCFragments
    Payloads <- MCPayloads
    TagPatches = {}
    GivenFps = {}
    ValidationMayFail = FALSE
PROPERTY PiiOnlyDemotedByDecision
