CONSTANTS
    plug1 = plug1
    plug2 = plug2
    agent1 = agent1
    Member = {w1, w2}
    Plugins <- MCPlugins
    IdOf <- MCIdOf
    ConflictOf <- MCConflictOf
    Reload = {r1}
    Startup = Startup
    Run = {run1}
    MaxCopies = 1
    a1 = a1
    a2 = a2
    a3 = a3
    msg1 = msg1
    msg2 = msg2
    Activation = {a1, a2, a3}
    NoObs = NoObs
    TaskOf <- MCTaskOf
    Limits = {1, 2}
    WorkflowTtl = 2
    MaxPending = 1
    Horizon = 2
    hop1 = hop1
    hop2 = hop2
    Hop = {hop1, hop2}
    NoHop = NoHop
    Caller <- MCCaller
    Watched = {w3, w4}
    Job = {j1}
    Collector = {c1}
    NoCollector = NoCollector
    Interval = 1
    CollectorTtl = 3
    MaxCycle = 1
    ScanLimit = 3
    Target = 90
    MaxPoints = 2
    MaxFleetEvents = 2
    MaxCycleFaults = 0
    sub1 = sub1
    sub2 = sub2
    local1 = local1
    ask1 = ask1
    ToolCall = {sub1, sub2, local1, ask1}
    KindOf <- MCKindOf
    MaxActivations = 3
    MaxLoopFaults = 1
    Reader = {r3, r4}
    BatchCount = 2
    MaxRootRuns = 2
    MaxEntries = 3
    MaxStreamFaults = 1
    Instance = {i1}
    NoInstance = NoInstance
    HealthThreshold = 2
    BeatEvery = 1
    CacheInterval = 1
    RedisLatency = 1
    MaxAttempts = 2
    InnerAttempts = 2
    MaxSdFaults = 1
SPECIFICATION PartsSpec
SYMMETRY Interchangeable

INVARIANTS
    PartsTypeOK
    OneSnapshotPerRun
    ReloadHolds
    WorkflowLruHolds
    
    
    WaitingTraceNotCompleted
    BuildIsWitnessed
    
    
    
    CommittedWasProcessed
    BodiesAreWhole
PROPERTY PicksBeatRecently

CHECK_DEADLOCK FALSE
