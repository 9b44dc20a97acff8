SPECIFICATION Spec
CONSTANTS
    None = None
    Omitted = Omitted
    Columns = {email}
    Tags = {"pii", "billing"}
    Types = {"string", "integer"}
    Rules = {r1}
    Fragments <- MCFragments
    Payloads <- MCPayloads
    TagPatches <- MCTagPatches
    GivenFps = {"evidence"}
    ValidationMayFail = FALSE
PROPERTY DecisionTakesEffect
