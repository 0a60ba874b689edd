SPECIFICATION FairSpec
CONSTANTS
    High = {h1, h2}
    Normal = {n1}
    Background = {b1}
    Replies = {r1, r2}
    OutboundCap = 2
    ReplyCap = 1
    Burst = 1
CHECK_DEADLOCK FALSE
INVARIANT TypeOK
INVARIANT HighInOrder
INVARIANT NoFrameIsLost
PROPERTY BacklogDrains
