SPECIFICATION Spec
CONSTANTS
    Mutators = {m1, m2}
    Readers = {r1}
    None = None
    MaxSeq = 3
    MaxFaults = 4
SYMMETRY Symmetry
INVARIANTS
    TypeOK
    IntentBeforeEffect
    OutcomeNotLost
    OutcomesAgree
    StampOrder
PROPERTIES
    NeverQueuesLogged
    FailsClosed
    QueueDrainedFirst
    ImplementsEvidence
