SPECIFICATION Spec
CONSTANTS
    None = None
    Omitted = Omitted
    Columns = {email}
    Tags = {"pii", "billing"}
    Types = {"string", "integer"}
    Rules = {r1}
    Fragments <- MCFragments
    Payloads <- MCPayloads
    TagPatches <- MCTagPatches
    GivenFps = {"evidence"}
    ValidationMayFail = TRUE
INVARIANTS
    TypeOK
    OverlaysHaveColumns
    AuthorityMatchesType
    DemotedColumnsAreStripped
    PromotedColumnsAreMarked
    SuppressedRulesAbsent
    ManualRulesPresent
    StewardTagsAuthoritative
PROPERTIES
    StaleStaysFlagged
    StaleIsSticky
    DemotionOnlyByDecision
    AutomatedWriteLeaksNothing
    ImplementsPiiAuthority
