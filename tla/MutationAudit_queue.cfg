SPECIFICATION Spec
CONSTANTS
    Mutators = {m1, m2, m3}
    Readers = {}
    None = None
    MaxSeq = 3
    MaxFaults = 3
SYMMETRY Symmetry
INVARIANTS
    DuplicatesAdjacent
    ReplayInQueueOrder
