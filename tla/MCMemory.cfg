SPECIFICATION MemorySpec
CONSTANTS
    HEAP_SIZE = 10
    PAGE_SIZE = 4
    Classes = {1, 2}
    PageAddrs = {1, 2}
    WORD = 8
    Requests = {1, 2, 3}
    Values = {v1, v2}
    LooksLikeSlab = {}
    ENTRIES = 2
    LowRegions = 1
    FarRegions = 1
    Frames = {0, 1, 2, 3, 4}
    Kernel = {0}
    Hints = {0}
    MaxLen = 2
    MaxRest = 1
    VMA_MAX = 1
    Careful = TRUE
INVARIANTS
    PagesAccounted
    ContentsKept
    HeapSound
    FramesAccounted
    
CHECK_DEADLOCK FALSE
