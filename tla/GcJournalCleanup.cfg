\* The statement of PHASE_WRITES that E0 always precedes the cleanup.
SPECIFICATION Spec
CONSTANTS
    SlotCount = 1
    NoSlot = NoSlot
    Slots <- MCSlots
    ScanWindow = 4
    MaxCuts = 1
    MaxRuns = 1
INVARIANT CleanupAfterE0
CHECK_DEADLOCK FALSE
