\* Two callers that fill the log: a call leaves one of its two reserved blocks
\* unused, and the header takes one of the four log blocks.
CONSTANTS
    Ops = {o1, o2}
    Blocks = {b1, b2, b3}
    Vals = {0, 1}
    Blank <- MCBlank
    MAXOPBLOCKS = 2
    LOGSIZE = 4
    NLOG = 4
    OpBlocks = 1
    NoVal = NoVal
SPECIFICATION FairSpec
INVARIANTS
    NeverTooBig
PROPERTIES
    ImplementsAtomicDisk
    SleeperWoken
