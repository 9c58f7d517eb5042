SPECIFICATION FilesSpec
CONSTANTS
    PIPE_BUF_SIZE = 3
    Bytes = {0, 1, 2}
    Datas <- SomeDatas
    Sizes = {0, 1, 2, 4}
    n1 = n1
    n2 = n2
    w1 = w1
    w2 = w2
    JFS_MAX_INODES = 3
    JFS_MAX_BLOCKS = 2
    FREE_BLOCKS = 12
    PTRS = 1
    SLOTS = 2
    JOURNAL = 1
    Names = {n1, n2}
    Values = {}
    Ranges = {}
    MaxBoots = 0
    FD_MAX = 4
    STDIO = 1
    MAX_INODE = 2
    Pipes = {1, 2}
    MaxOffset = 2
INVARIANTS
    RingConsistent
    BlocksOwned
    NamesLive
    TextsKept
    RefsMatch
    NoPipeLeak
PROPERTY ImplementsStream
CHECK_DEADLOCK FALSE
