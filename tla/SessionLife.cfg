SPECIFICATION FairSpec
CONSTANTS
    Callers = {c1}
    Starter = starter
    Stopper = stopper
    None = None
    MaxRetries = 3
    OutboundCap = 1
    MaxFrameBody = 13
CHECK_DEADLOCK FALSE
INVARIANT TypeOK
INVARIANT AnswersMatch
INVARIANT PendingIsWaited
INVARIANT FramesAreWhole
PROPERTY TimeoutIsHonest
PROPERTY DeathIsNoticed
PROPERTY ShutdownEnds
