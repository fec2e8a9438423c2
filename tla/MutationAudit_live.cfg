SPECIFICATION FairSpec
CONSTANTS
    Mutators = {m1, m2}
    Readers = {r1}
    None = None
    MaxSeq = 2
    MaxFaults = 2
PROPERTIES
    EveryoneReturns
    QueueRecovers
