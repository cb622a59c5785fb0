SPECIFICATION FairSpec
CONSTANTS
    r1 = r1
    h1 = h1
    c1 = c1
    c2 = c2
    Relays = {r1}
    Homes = {}
    Passive = {}
    Credentials = {c1}
    QueueCapacity = 1
    NoConn = NoConn
    NoSnapshot = NoSnapshot
    MaxGeneration = 3
    MaxFailures = 1
    Faults = {"cut", "restart", "server_restart"}
INVARIANTS
    TypeOK
    StoredRevocationHolds
PROPERTIES
    RevokedIsCut
CHECK_DEADLOCK FALSE
