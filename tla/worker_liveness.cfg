CONSTANTS
    h1 = h1
    h2 = h2
    type1 = type1
    type2 = type2
    Host = {h1, h2}
    NoHost = NoHost
    Manager = {g1, g2}
    AgentType = {type1, type2}
    DeclaredBy <- MCDeclaredBy
    MaxEvents = 3
    m1 = m1
    m2 = m2
    m3 = m3
    stream1 = stream1
    stream2 = stream2
    Msg = {m1, m2, m3}
    Garbled = {m3}
    Stream = {stream1, stream2}
    CtrlStream = control
    StreamOf <- MCStreamOf
    MaxConcurrency = 1
    FetchCount = 2
    MaxSlotFaults = 1
    Watched = {w1}
    Job = {j1}
    Collector = {c1, c2}
    NoCollector = NoCollector
    Interval = 1
    CollectorTtl = 3
    MaxCycle = 1
    ScanLimit = 3
    Target = 90
    MaxPoints = 1
    MaxFleetEvents = 0
    MaxCycleFaults = 2
    Instance = {i1}
    NoInstance = NoInstance
    HealthThreshold = 2
    BeatEvery = 1
    CacheInterval = 1
    RedisLatency = 0
    MaxAttempts = 2
    InnerAttempts = 1
    MaxSdFaults = 1
SPECIFICATION PartsSpec

INVARIANTS
    ConsumerAccounts
PROPERTIES
    LifecycleConverges
    MembershipHeals
    StreamsAreRead
    ShutdownEnds
    CollectionResumes
    LiveIsDiscovered

CHECK_DEADLOCK FALSE
