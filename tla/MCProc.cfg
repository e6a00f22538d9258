CONSTANTS
    NPROC = 3
    NCPU = 2
    MaxPid = 3
    MAX_HISTORY = 1
    Ticks = Ticks
    Pipe = Pipe
    Chans = {Ticks}
    Blockable = {"wait"}
    KillPids = {0, 2, 3}
    OutOfMemory = TRUE
SPECIFICATION FairSpec
INVARIANTS
    NoLostExit
    ParentLive
    HistoryOfTheDead
PROPERTIES
    KilledExits
    OrphansReaped
