SPECIFICATION Spec
CONSTANTS
    Procs = {p1, p2, p3}
    n1 = n1
    n2 = n2
    a = a
    b = b
    s1 = s1
    s2 = s2
    Names = {n1, n2}
    Operators = {a, b}
    Secrets = {s1, s2}
    None = None
    NoPassword = NoPassword
    Reference = Reference
    Initial <- MCInitial
    Requests <- MCRequests
    KeepLast = 1
    MaxRotated = 3
    MaxFaults = 1
    MaxCount = 1000000000
    Codes = {"AUDIT_INCOMPLETE", "PARTIAL_FAILURE", "CONFLICT", "AUTHORIZATION_REQUIRED", "LOCAL_IO_ERROR", "USAGE_ERROR"}
SYMMETRY Symmetry
INVARIANTS
    TypeOK
    CurrentExists
    CredentialsResolve
    OutcomeHonest
PROPERTIES
    UpdatesCompose
    GovernedChange
    PolicyImmutable
    PrunesAsPreviewed
