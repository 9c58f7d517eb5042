SPECIFICATION ServicesSpec
CONSTANTS
    PROC_MAX = 2
    MaxSpaces = 1
    MaxStacks = 1
    MaxVmas = 1
    Calls <- ExitCalls
    IPC_QUEUE_DEPTH = 2
    IPC_SERVER_MAX = 2
    Types = {t1}
    Stems = {s1, s2}
    Tails = {0, 1}
    TCP_MAX_CONNS = 3
    ACCEPT_QUEUE_SZ = 2
    TCP_RX_BUF_SZ = 1
    Chunk = 1
    Clients <- TwoClients
    Server <- WebServer
    Units = 1
    MaxGets = 1
    MaxRead = 1
    Faulty = TRUE
    Hosts = {"gw", "h", "k"}
    Alive = {"h"}
    Askers = {"h"}
    Macs = {}
    Records <- TwoRecords
    Dotted <- OneDotted
    ARP_TABLE_SIZE = 2
    TXIDS = 8
    Offers = {}
    Tries = 2
    MaxCalls = 2
    MaxMoves = 0
    Late = TRUE
INVARIANTS
    RingConsistent
    NoForgedSender
    LookupFindsLatest
    QueueSound
    OwnData
    TableTrue
    ResolvesRight
    StreamsKept
PROPERTY
    ImplementsMailbox
CHECK_DEADLOCK FALSE
