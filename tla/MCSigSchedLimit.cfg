CONSTANTS
    NPROC = 3
    MaxPid = 3
    Signals = {1, 2, 3, 4}
    Limits <- TwoTicks
    Laters = {TRUE, FALSE}
    OutOfMemory = TRUE
SPECIFICATION Spec
CHECK_DEADLOCK FALSE
INVARIANTS
    OutOfTimeExits
