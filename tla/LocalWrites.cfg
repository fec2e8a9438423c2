SPECIFICATION Spec
CONSTANTS
    Writers = {w1}
    Savers = {s1, s2}
    Viewers = {v1}
    None = None
    Home = "home"
    Dirs = {"snapshots", "out", "sub"}
    Parent <- MCParent
    SnapshotDir = "snapshots"
    Names = {"a"}
    Requests <- MCRequests
    Initial <- MCInitial
    MaxFaults = 2
    MaxCount = 1000000000
    Codes = {"AUDIT_INCOMPLETE", "PARTIAL_FAILURE", "LOCAL_IO_ERROR"}
SYMMETRY Symmetry
INVARIANTS
    TypeOK
    FilesSurvive
    ProgressHonest
    EveryChangeListed
