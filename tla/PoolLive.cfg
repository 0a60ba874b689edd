SPECIFICATION LiveSpec
CONSTANTS
    Callers = {c1, c2}
    Reapers = {reaper}
    Keys = {k1}
    Sids = {s1, s2, s3}
    None = None
    StreakEvict = 2
PROPERTY CallsReturn
PROPERTY FailedAreReaped
