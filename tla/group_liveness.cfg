CONSTANTS
    Member = {m1, m2}
    Task = {t1, t2}
    NoMember = NoMember
    MaxExtra = 0
    MaxStandIns = 1
    MaxFaults = 1
    Condition = {"unavailable", "flush_lost", "reply_lost"}
SPECIFICATION LiveSpec
PROPERTY GroupIsJoined
CHECK_DEADLOCK FALSE
