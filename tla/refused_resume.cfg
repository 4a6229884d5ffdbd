CONSTANTS
    Proc = {p1, p2}
    NoProc = NoProc
    BeatInterval = 1
    LeaseTtl = 3
    CallLatency = 1
    ClaimMaxWait = 1
    MaxBeatFaults = 2
    MaxStarts = 1
    e1 = e1
    e2 = e2
    Exec = {e1, e2}
    NoExec = NoExec
    Parent <- MCParent
    Snapshotted = {e2}
    Client = Client
    Control = Control
    Send = {s1, s2}
    Resumes = {s2}
    NoSend = NoSend
    t1 = t1
    AgentType = {t1, t2}
    NoType = NoType
    TargetOf <- MCTargetOf
    RoutePolicies = {"FAIL_FAST", "SEND_ANYWAY", "WAKE_AND_WAIT", "WAKE_AND_QUEUE", "QUEUE_ONLY"}
    MaxPlaneEvents = 1
SPECIFICATION PartsSpec

INVARIANT RefusedResumeKeepsRecord

CHECK_DEADLOCK FALSE
