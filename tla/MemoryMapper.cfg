CONSTANTS
    FLASH_PAGES = 8
    RAM_PAGES = 4
    RAM_BIT = 4
    REGION = 4
    GRANULE = 2
    Port27Minimum = 15
    Values <- MCValues
    Machines <- MCMachines
SPECIFICATION Spec
INVARIANT TypeOK
INVARIANT ResolutionIsSound
INVARIANT CompleteMeansResolved
INVARIANT ForcedRangesAgree
INVARIANT ReadbackRestores
