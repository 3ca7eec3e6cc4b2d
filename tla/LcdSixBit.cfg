CONSTANTS
    STRIDE = 4
    ROWS = 2
    VISIBLE = 3
    Values <- MCValues
    MaxWrites = 2
\* The trace ends at data write MaxWrites.
CHECK_DEADLOCK FALSE
SPECIFICATION Spec
PROPERTY OnlyOwnGroup
