\* The parameters of Signal-Scheduler-xv6 (Makefile) but for the table's size.
CONSTANTS
    NPROC = 3
    INIT_PRIORITY = 10
    ALPHA = 1
    BETA = 1
    Limits <- MCLimits
    MaxPid = 4
    MaxTicks = 2
SPECIFICATION Spec
CHECK_DEADLOCK FALSE
INVARIANTS
    WaitBounded
PROPERTIES
    NotPassedOver
