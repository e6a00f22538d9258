CONSTANTS
    NPROC = 3
    MaxPid = 4
    Signals = {1, 4}
    Limits <- NoLimit
    Laters = {TRUE, FALSE}
    OutOfMemory = FALSE
SPECIFICATION FairSpec
CHECK_DEADLOCK FALSE
INVARIANTS
    NoLostExit
    
    RunningHasCpu
PROPERTIES
    KilledExits
    CpuGivenUp
