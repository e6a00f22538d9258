CONSTANTS
    Procs = {1, 2}
    InitProcs = {1}
    MaxPages = 2
    Frames = {f1}
    SLOT_TOTAL = 2
    BLOCKS = 1
    Vals = {}
    THRESHOLD = 1
    NPAGES = 1
    LIMIT = 1
    ALPHA = 100
    BETA = 50
    RSS_MOD = 8
    Calls = {"fork","exec","shrink","buffer"}
    Background = TRUE
    Cached = TRUE
SPECIFICATION Spec
CHECK_DEADLOCK FALSE
INVARIANTS
    SlotsExclusive
