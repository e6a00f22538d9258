CONSTANTS
    Procs = {p1, p2}
    NINODES = 5
    NINODE = 4
    NBLOCKS = 4
    nx = nx
    ny = ny
    nd = nd
    Names = {nx, ny, nd}
    NoProc = NoProc
    Scripts <- MCScripts
SPECIFICATION Spec
CHECK_DEADLOCK FALSE
INVARIANTS
    LinksExact
    InodesKept
    BlocksOnce
    OnlyIputDeadlocks
