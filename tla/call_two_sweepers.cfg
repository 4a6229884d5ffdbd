CONSTANTS
    Caller = {c1}
    MaxCalls = 1
    Task = {t1, t2}
    Sweeper = {s1, s2}
    NoCaller = NoCaller
    NoSweeper = NoSweeper
    MaxNested = 0
    MaxStandIns = 1
    MaxFaults = 1
    Environment = {"claim_crash", "redis_error", "reply_lost", "abandon",
                   "lock_expiry"}
SPECIFICATION Spec
SYMMETRY Interchangeable
INVARIANT WakeAccounting
PROPERTY OnlyHolderReleases
