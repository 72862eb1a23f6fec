SPECIFICATION MCSpec
CONSTANTS
    client = client
    server = server
    Client = client
    Server = server
    Mss = 2
    TcpWnd = 4
    SeqSpace = 32
    Iss <- MCIss
    IssStep = 1
    MaxRtx = 1
    SynMaxRtx = 1
    DupAckThreshold = 1
    NetMax = 2
    MaxFaults = 0
    MaxWrite <- MCWrite5
    SendFails = {}
    Refusers = {}
    HalfClosers = {}
CHECK_DEADLOCK FALSE
INVARIANTS
    PersistTicksForText
