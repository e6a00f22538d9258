CONSTANTS
    Procs = {p1, p2}
    Blocks = {b1, b2, b3}
    Vals = {0, 1}
    NBUF = 2
    MaxPinned = 1
    Blank <- MCBlank
    Errors = {FALSE}
    NoProc = NoProc
    NoBlock = NoBlock
    NoVal = NoVal
SPECIFICATION FairSpec
INVARIANTS
    WrittenThrough
    PanicOnlyWhenFull
PROPERTIES
    ImplementsBlockStore
    RequestsServed
