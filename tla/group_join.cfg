CONSTANTS
    Member = {m1, m2}
    Task = {t1, t2}
    NoMember = NoMember
    MaxExtra = 1
    MaxStandIns = 1
    MaxFaults = 1
    Condition = {"unavailable", "dispatch_error", "flush_lost", "reply_lost", "join_crash", "group_expiry"}
SPECIFICATION Spec
SYMMETRY Interchangeable
INVARIANTS TypeOK AggregateIsWhole JoinsOnce
CHECK_DEADLOCK FALSE
