SPECIFICATION Spec
CONSTANTS
    Callers = {p1, p2}
    None = None
    Requests <- MCRequests
    Plans <- MCPlans
    Threshold = 1
    MaxRuns = 2
    MaxForeign = 1
    MaxFaults = 2
    MaxCount = 1000000000
    Codes = {"AUDIT_INCOMPLETE", "PARTIAL_FAILURE", "CONFLICT", "BACKEND_ERROR"}
SYMMETRY Symmetry
INVARIANTS
    TypeOK
    GovernedPlan
    OutcomeHonest
    RetrySafe
