SPECIFICATION TcpSpec
CONSTANTS
    TCP_MAX_CONNS = 2
    ACCEPT_QUEUE_SZ = 1
    TCP_RX_BUF_SZ = 3
    Chunk = 1
    Clients = {}
    Server = w
    Units = 3
    MaxGets = 2
    MaxRead = 1
    Faulty = FALSE
INVARIANTS
    DownloadHasBody
CHECK_DEADLOCK FALSE
