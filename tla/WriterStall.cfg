SPECIFICATION FairSpec
CONSTANTS
    High = {h1}
    Normal = {}
    Background = {}
    Replies = {r1}
    OutboundCap = 2
    ReplyCap = 1
    Burst = 1
CHECK_DEADLOCK FALSE
PROPERTY FramesAreWritten
