SPECIFICATION FairSpec
CONSTANTS
    a = a
    b = b
    s1 = s1
    s2 = s2
    s3 = s3
    c1 = c1
    c2 = c2
    Clients = {a, b}
    Conns = {s1, s2, s3}
    ClientOf <- MCClientOf
    Calls = {c1, c2}
    Streams = {c2}
    StreamCap = 1
    OutboundCap = 1
CONSTRAINT Bound
INVARIANTS
    HubInv
    OfflineWhenQuiet
PROPERTIES
    Implements
    EveryCallEnds
CHECK_DEADLOCK FALSE
