SPECIFICATION Spec
CONSTANTS
    Callers = {c1, c2}
    Reapers = {reaper}
    Keys = {k1}
    Sids = {s1, s2, s3, s4}
    None = None
    StreakEvict = 2
SYMMETRY Symmetry
INVARIANT TypeOK
INVARIANT OneColdStart
INVARIANT PooledSessionsServe
INVARIANT MemoStopsColdStarts
