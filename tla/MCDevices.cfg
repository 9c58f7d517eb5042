SPECIFICATION DevicesSpec
CONSTANTS
    RING = 3
    Frames = {1, 2}
    RX_WORDS = 8
    Words <- FrameWords
    SLOTS = 2
    Patient = TRUE
    DEPTH = 3
    CIDS = 5
    PerBlock = 1
    Blocks = 1
    Values = {1, 2}
    MaxCid = 4
    Faults = {"timeout"}
    CHANNELS = 2
    VOICES = 1
    SAMPLES = 2
    MAX_LEN = 2
    Programs = {"p", "q"}
    Volumes = {2}
    FULL = 1
    Card = TRUE
    Chip = TRUE
    MaxPushed = 3
    Careful = TRUE
    GUI_MAX_WINDOWS = 3
    GUI_MAX_WIDGETS = 2
    SCR_W = 3
    MinW = 2
    Titles = {"T", "A"}
    LINE = 1
    MaxWidgets = 3
    Tidy = TRUE
    KEY_BUF_SIZE = 3
    MOUSE_BUF_SIZE = 2
    DELAY = 2
    RATE = 1
    Readers = {"raw", "gui", "ps2"}
    Letters = {"a"}
    Arrows = {"up"}
    Packet = 4
    Marked = {}
    Loses = FALSE
    MaxWire = 4
    MaxTick = 3
    MaxEvents = 3
INVARIANTS
    ConsoleTrue
    InputKept
    WindowsSound
    SamplesOwn
    AnswerIsOwn
    SectorsKept
    BusSorted
    NothingForgotten
PROPERTY ImplementsCardQueues
CHECK_DEADLOCK FALSE
