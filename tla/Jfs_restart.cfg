SPECIFICATION JfsSpec
CONSTANTS
    JFS_MAX_INODES = 3
    JFS_MAX_BLOCKS = 3
    FREE_BLOCKS = 12
    PTRS = 1
    SLOTS = 2
    JOURNAL = 1
    Names = {a}
    Values = {}
    Ranges = {}
    MaxBoots = 1
PROPERTY SurvivesRestart
CHECK_DEADLOCK FALSE
