SPECIFICATION Spec
CONSTANTS
    Runs = {r1}
    None = None
    Engine = "mysql"
    Tables = {1, 2}
    Columns = {1, 2}
    Types = {1, 2}
    References <- MCReferences
    ForeignFields <- MCForeignFields
    Initial <- MCInitial
    Jobs <- MCJobs
    MaxForeign = 3
    MaxFaults = 1
    MaxCount = 1000000000
    Codes = {"AUDIT_INCOMPLETE", "PARTIAL_FAILURE", "CONFLICT", "BACKEND_ERROR"}
INVARIANTS
    TypeOK
    SnapshotIsPastState
    PlanMatchesSnapshot
    OutcomeHonest
PROPERTIES
    EveryIntentAccounted
