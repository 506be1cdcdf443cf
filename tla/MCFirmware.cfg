\* The components that share nothing with the others, in one run.
CONSTANTS
    Token = {t1, t2}
    Blank = Blank
    Torn = Torn
    SndBuf = 4
    Chunk = 3
    MaxUnits = 5
    MaxMessages = 2
    Units = 5
    WriteSizes = {1, 3}
    mss = 2
    TCP_MSS = 2
    TCP_SND_BUF = 3
    TCP_WND = 4
    TCP_MAXRTX = 2
    SeqSpace = 28
    MaxFaults = 1
    PAD_ERASED = PAD_ERASED
    Hour = 2
    Week = 9
    Monday = 2
    MaxTime = 12
    TimerLists <- Lists
    Peers = {c1, c2}
    MaxLength = 2
    MaxTotal = 4
    Browsers = {c1, c2}
    MaxPosts = 3
    PAGE = 2
    MaxFound = 5
    DNS_TABLE_SIZE = 2
    DNS_MAX_RETRIES = 2
    DNS_MAX_SERVERS = 2
    SeqWidth = 3
    Names = {n1, n2}
    MaxTtl = 1
    MaxQueries = 3
    Addrs = {a1}
    NO_ADDR = NO_ADDR
    INFINITE = INFINITE
    TickWidth = 3
    TriesWidth = 4
    REQUEST_TRIES = 1
    REBIND_TRIES = 1
    REBOOT_TRIES = 2
    Leases <- LeaseTimes
    Stations = {s1, s2}
    FIRST = 1
    LAST = 2
    MaxXid = 3
    Hosts = {h1, h2, h3}
    Macs = {m1, m2}
    ARP_TABLE_SIZE = 2
    MEMP_NUM_ARP_QUEUE = 2
    ARP_MAXAGE = 2
    ARP_MAXPENDING = 2
    MaxPackets = 2
    UART_RX_FifoFullIntrThresh = 3
    QueueLength = 2
    buf_length = 3
    MaxLine = 4
    HTTPD_MAX_RETRIES = 3
    LWIP_HTTPD_REQ_QUEUELEN = 2
    PBUF_POOL_SIZE = 4
    HttpMss = 2
    HttpSndBuf = 4
    FileSizes = {0, 1, 6}
SPECIFICATION Spec
INVARIANTS
    TypeOK
    LoadIntact
    RamMatchesFlash
    ActiveHasStation
    SendKept
    SegmentsKept
    KeyHeard
    
    WebKept
    TasksKept
    DnsTableKept
    DhcpSound
    LeasesKept
    EtharpKept
    UartKept
    HttpdKept
PROPERTIES
    AtomicSave
    CalledBack
    StreamArrives
    ImplementsStream
    PressNeedsContact
    RepeatsOnlyFixed
    EveryQueryEnds
    LeaseGivenUp
    NoneWaitsForever
    HttpdEnds
\* Runs end at their bounds, and after a null pointer.
CHECK_DEADLOCK FALSE
