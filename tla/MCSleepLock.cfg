CONSTANTS
    Procs = {p1, p2, p3}
    NCPU = 2
    None = None
SPECIFICATION FairLockSpec
INVARIANTS
    NoLostWakeup
PROPERTIES
    Progress
    ImplementsMutex
