\* Two collections over the four sectors the scan sees, with up to three power cuts.
SPECIFICATION Spec
CONSTANTS
    SlotCount = 4
    NoSlot = NoSlot
    Slots <- MCSlots
    ScanWindow = 4
    MaxCuts = 3
    MaxRuns = 2
INVARIANTS
    TypeOK
    PhaseVouchesForWork
    NothingDamaged
    MirrorNotAhead
PROPERTIES
    RetiredOnlyWhenComplete
    FollowsTransitions
    CollectionEnds
\* An idle collector may stay idle.
CHECK_DEADLOCK FALSE
