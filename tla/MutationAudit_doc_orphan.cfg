SPECIFICATION Spec
CONSTANTS
    Mutators = {m1, m2}
    Readers = {r1}
    None = None
    MaxSeq = 3
    MaxFaults = 2
SYMMETRY Symmetry
INVARIANTS
    EveryIntentConcluded
