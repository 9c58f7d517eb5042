SPECIFICATION ProcSpec
CONSTANTS
    PROC_MAX = 4
    MaxSpaces = 3
    MaxStacks = 3
    MaxVmas = 3
    Calls = {"fork"}
INVARIANTS
    RunningHasImage
CHECK_DEADLOCK FALSE
