SPECIFICATION Spec
CONSTANTS
    NCPU = 2
    NPROC = 2
    MaxNest = 2
INVARIANTS
    MutualExclusion
    NeverPanics
    InterruptsRight
PROPERTIES
    MyprocIsCaller
