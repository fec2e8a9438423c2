SPECIFICATION Spec
CONSTANTS
    Statements <- MCStatements
    Noise <- MCNoise
INVARIANTS
    DMLReadAsWritten
    ReadsAreReads
