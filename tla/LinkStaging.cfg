\* Sixteen-byte blocks on the three calculator models.
SPECIFICATION Spec
CONSTANTS
    BLOCK = 16
    Starts <- MCStarts
    Lengths <- MCLengths
INVARIANTS
    TypeOK
    Contiguous
    ArrivesWhole
    SpillsOneBlock
PROPERTY ReceiveEnds
\* A received payload has nothing left to do.
CHECK_DEADLOCK FALSE
