CONSTANTS
    Procs = {1, 2, 3, 4, 5, 6, 7}
    Readers = {1, 2, 3, 4, 5, 6, 7}
    Init1 = 1
    NFILE = 5
    NOFILE = 6
    NPIPE = 2
    PIPESIZE = 2
    MOD = 4
    Bytes <- MCBytes
    NoByte = NoByte
    NoProc = NoProc
    Nobody = Nobody
    Chars <- MCChars
    INPUT_BUF = 4
    CMOD = 8
    Scripts <- MCScripts
    Command <- MCCommand
    Commands <- MCCommands
    Text <- MCText
    CATBUF = 2
    Kills <- Killing
SPECIFICATION FairSpec
CHECK_DEADLOCK FALSE
INVARIANTS
    RefsExact
    OutputRight
PROPERTIES
    ImplementsTerminal
    PromptBack
