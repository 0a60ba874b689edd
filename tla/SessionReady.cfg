SPECIFICATION Spec
CONSTANTS
    Callers = {}
    Starter = starter
    Stopper = stopper
    None = None
    MaxRetries = 1
    OutboundCap = 1
    MaxFrameBody = 13
CHECK_DEADLOCK FALSE
INVARIANT EndedIsFailed
