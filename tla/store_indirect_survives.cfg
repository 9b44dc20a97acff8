SPECIFICATION Spec
CONSTANTS
    None = None
    Omitted = Omitted
    Columns = {email}
    Tags = {"pii_indirect", "gdpr_personal_data", "pii", "billing"}
    Types = {"string", "integer"}
    Rules = {r1}
    Fragments <- IndirectFragments
    Payloads <- MCPayloads
    TagPatches <- MCTagPatches
    GivenFps = {}
    ValidationMayFail = FALSE
INVARIANT DemotedColumnsAreNotPii
