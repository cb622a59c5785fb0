SPECIFICATION Spec
CONSTANTS
    r1 = r1
    h1 = h1
    c1 = c1
    c2 = c2
    Relays = {}
    Homes = {h1}
    Passive = {}
    Credentials = {c1}
    QueueCapacity = 1
    NoConn = NoConn
    NoSnapshot = NoSnapshot
    MaxGeneration = 3
    MaxFailures = 0
    Faults = {}
INVARIANTS
    HomeEndsRevoked
CHECK_DEADLOCK FALSE
