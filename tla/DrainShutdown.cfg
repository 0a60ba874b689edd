SPECIFICATION FairSpec
CONSTANTS
    Reads = {r1}
    Writes = {w1}
    Batches = {b1}
    QuietSamples = 2
    GlobalIdle = 2
    LsIdle = 1
    NoLs = NoLs
CHECK_DEADLOCK FALSE
INVARIANT TypeOK
INVARIANT CountIsExact
PROPERTY DrainedMeansIdle
PROPERTY WritesRunToTheirEnd
PROPERTY ShutdownEnds
