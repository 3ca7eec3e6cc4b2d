\* Complete, cut, failed and unmapped recordings in which no command starts
\* after ten writes, and whose clock may wrap or go right round once, on
\* a part whose erase may run into its DQ5 limit.
SPECIFICATION Spec
CONSTANTS
    u1 = u1
    u2 = u2
    journal = journal
    NoAddress = NoAddress
    Addr <- MCAddr
    UNLOCK1 = u1
    UNLOCK2 = u2
    sectorOf <- MCSectorOf
    Source <- MCSource
    Requests <- MCRequests
    EraseTargets <- MCEraseTargets
    EraseMayFail = TRUE
    CLOCK = 2
    MaxTime = 2
    MaxEvents = 10
INVARIANTS
    TypeOK
    ReplayIsExact
    ReplayFollowsChip
    CleanTraceIsReplayed
\* A finished pipeline has nothing left to do.
CHECK_DEADLOCK FALSE
