SPECIFICATION VfsSpec
CONSTANTS
    JFS_MAX_INODES = 3
    JFS_MAX_BLOCKS = 2
    FREE_BLOCKS = 12
    PTRS = 1
    SLOTS = 2
    JOURNAL = 1
    Names = {a, b}
    Values = {}
    Ranges = {}
    MaxBoots = 0
    FD_MAX = 4
    STDIO = 1
    MAX_INODE = 1
    Pipes = {1}
    MaxOffset = 2
INVARIANT PipeHeld
CHECK_DEADLOCK FALSE
