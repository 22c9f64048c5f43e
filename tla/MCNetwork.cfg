\* Safety of every part below TCP.
CONSTANTS
    Parts = {"rx", "tx", "phy", "arp", "heap", "timeouts", "dhcp", "sntp"}
    RxN = 4
    RxBufs = 5
    RxFrames = {f1, f2}
    TxN = 3
    TxFrames = {g1, g2}
    MaxRefs = 3
    MaxChanges = 3
    ARP_TABLE_SIZE = 2
    Hosts = {h1, h2, h3}
    Eths = {e1, e2}
    Pbufs = {b1, b2}
    MaxAge = 3
    MaxPending = 2
    NULL = NULL
    MEM_SIZE_ALIGNED = 26
    SIZEOF_STRUCT_MEM = 2
    MIN_SIZE_ALIGNED = 4
    MEM_ALIGNMENT = 2
    HeapSizes = {0, 1, 5, 8, 13, 40}
    Period <- MCPeriod
    TcpPeriod = 1
    Single = {"sntp"}
    Delays = {1, 3}
    PoolSize = 5
    U32 = 7
    MaxPause = 2
    Addrs = {a1, a2}
    NoAddr = none
    Wrap = 3
    TryWrap = 10
    Forever = 6
    Leases <- MCLeases
    DhcpFaultSets <- MCDhcpFaults
    MaxRetries = 2
    Servers = 2
    Ttls = {0, 2}
    MaxTtl = 1
    TtlWrap = 3
    RetryTimeout = 3
    RetryTimeoutMax = 6
    MaxStarts = 2
    SntpFaultSets <- MCSntpFaults
SPECIFICATION MCSpec
INVARIANTS RxSound TxSound MacAsRemembered ArpSound HeapSound TimersSound DhcpSound SntpSound
PROPERTIES FramesInOrder BoundByAnswer
CHECK_DEADLOCK FALSE
