CONSTANTS
    Member = {m1, m2}
    Task = {t1, t2}
    NoMember = NoMember
    MaxExtra = 0
    MaxStandIns = 1
    MaxFaults = 0
    Condition = {}
SPECIFICATION Spec
INVARIANT OnlyWhenAll
CHECK_DEADLOCK FALSE
