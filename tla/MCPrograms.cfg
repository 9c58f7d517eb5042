SPECIFICATION ProgramsSpec
CONSTANTS
    PROC_MAX = 4
    MaxSpaces = 2
    MaxStacks = 3
    MaxVmas = 3
    Calls <- EveryCall
INVARIANTS
    TypeOK
    LiveResources
    OneLiveProcess
    PlainSpaces
PROPERTIES
    PlainPids
    PlainSleeps
    DeadIsFinal
CHECK_DEADLOCK FALSE
