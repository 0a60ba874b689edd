SPECIFICATION FairSpec
CONSTANTS
    Daemons = {d1, d2, d3}
    Clients = {c1}
    Ports = {p1, p2}
    DefaultPort = p1
    Elsewhere = {d3}
    None = None
    MaxCrashes = 2
    MaxShutdowns = 1
CHECK_DEADLOCK FALSE
INVARIANT TypeOK
INVARIANT ServersAreFound
PROPERTY TakeoverOfTheDead
PROPERTY CallsEnd
PROPERTY ArbitrationEnds
