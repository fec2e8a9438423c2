SPECIFICATION Spec
CONSTANTS
    Runs = {r1, r2}
    None = None
    Engine = "postgres"
    Tables = {1, 2}
    Columns = {1, 2}
    Types = {1, 2}
    References <- MCReferences
    ForeignFields <- MCForeignFields
    Initial <- MCKeyedInitial
    Jobs <- MCPairJobs
    MaxForeign = 1
    MaxFaults = 1
    MaxCount = 1000000000
    Codes = {"AUDIT_INCOMPLETE", "PARTIAL_FAILURE", "CONFLICT", "BACKEND_ERROR"}
SYMMETRY Symmetry
INVARIANTS
    PlanReachesDesired
    OutcomeHonest
PROPERTIES
    SuccessMeansDesired
    LossesGranted
