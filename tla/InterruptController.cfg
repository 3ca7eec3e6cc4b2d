SPECIFICATION LiveSpec
INVARIANT TypeOK
INVARIANT ReadbackTellsTruth
PROPERTY RequestsAreHeard
PROPERTY KeepsContract
PROPERTY PressWakes
