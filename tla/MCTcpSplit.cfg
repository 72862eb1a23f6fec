SPECIFICATION MCSpec
CONSTANTS
    client = client
    server = server
    Client = client
    Server = server
    Mss = 2
    TcpWnd = 2
    SeqSpace = 32
    Iss <- MCIss
    IssStep = 1
    MaxRtx = 1
    SynMaxRtx = 1
    DupAckThreshold = 1
    NetMax = 2
    MaxFaults = 1
    MaxWrite <- MCWrite
    SendFails = {server}
    Refusers = {server}
    HalfClosers = {client}
CHECK_DEADLOCK FALSE
INVARIANTS
    FinMigrates
