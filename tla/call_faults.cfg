CONSTANTS
    Caller = {c1}
    MaxCalls = 1
    Task = {t1, t2}
    Sweeper = {s1}
    NoCaller = NoCaller
    NoSweeper = NoSweeper
    MaxNested = 1
    MaxStandIns = 2
    MaxFaults = 1
    Environment = {"callee_crash", "claim_crash", "handler_crash", "sweeper_crash",
                   "redis_error", "reply_lost", "lease_flap", "abandon",
                   "cancel_on_timeout"}
SPECIFICATION Spec
SYMMETRY Interchangeable
INVARIANTS TypeOK WakeAccounting 
