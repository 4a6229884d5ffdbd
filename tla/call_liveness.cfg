CONSTANTS
    Caller = {c1}
    MaxCalls = 1
    Task = {t1, t2}
    Sweeper = {s1}
    NoCaller = NoCaller
    NoSweeper = NoSweeper
    MaxNested = 1
    MaxStandIns = 1
    MaxFaults = 1
    Environment = {"callee_crash", "sweeper_crash", "reply_lost", "cancel_on_timeout"}
SPECIFICATION LiveSpec

PROPERTY EveryWaitAnswered
