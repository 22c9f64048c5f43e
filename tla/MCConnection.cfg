\* Uploads: TCP in both directions, the connection, its text, and the gateway.
CONSTANTS
    Parts = {"send", "recv", "upload", "calm", "gateway", "http_tx", "base64", "http_rx"}
    SeqSpace = 64
    ISS = 61
    MSS = 2
    SndBuf = 4
    QueueLen = 3
    MaxRtx = 3
    U16 = 10
    U8 = 5
    Data = 3
    WriteSizes = {1, 2}
    PeerBuf = 2
    MaxNrtx = 5
    FaultKinds = {"loss", "copy", "memory", "early"}
    MaxFaults = 1
    IRS = 1
    Stream = 7
    RcvMSS = 3
    WND = 5
    Pcbs = {p1, p2}
    NoPcb = NoPcb
    FirstWait = 1
    UploadWait = 3
    WaitBeforeClose = 0
    MaxWriteErr = 1
    MaxBatch = 2
    Pieces = 2
    Troubles = {"refusal", "reset", "silence", "server_closes",
                "late_data", "piggyback", "stall", "no_memory"}
    Readings = {r1, r2}
    NoReading = NoReading
    RxCapacity = 2
    TxCapacity = 1
    Mishaps = {"lost", "damaged", "early", "full", "card", "power"}
    MaxMishaps = 2
    RecordTypes = {5, 59, 60, 61, 62, 63}
    PgaGains = {0, 1, 2, 192, 193, 255}
    ValueDigits = {1, 10}
    TimeDigits = {1, 8}
    MaxRequest = 2
    Octets = {0, 85, 171, 255}
    MaxOctets = 4
    Values <- MCValues
    MaxDocs = 2
    BufferMax = 7
SPECIFICATION MCSpec
CHECK_DEADLOCK FALSE
INVARIANTS SndSound RcvSound UploadSound CalmSound DiscardedIsKept TextSound
PROPERTIES StreamsArrive RecordsArrive UploadsRepeat
