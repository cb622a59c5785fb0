SPECIFICATION ControlSpec
CONSTANTS
    Absent = Absent
    r1 = r1
    r2 = r2
    e1 = e1
    h1 = h1
    c1 = c1
    c2 = c2
    p1 = p1
    p2 = p2
    t1 = t1
    t2 = t2
    i1 = i1
    i2 = i2
    o1 = o1
    a1 = a1
    a2 = a2
    g1 = g1
    g2 = g2
    DirectoryRelays = {r1, r2}
    DiallingRelays = {r1}
    Addresses = {e1}
    FirstAddresses <- MCFirstAddresses
    MaxSessions = 3
    MaxMoves = 1
    TravelProcesses = {p1, p2}
    MaxConns = 2
    MaxIds = 4
    MaxSigned = 2
    ControlSnapshots <- MCSnapshots
    SnapshotTasks = {t1, t2}
    InstalledTrusts = {1, 2}
    OldFile <- MCOldFile
    MaxCrashes = 2
    GlobalHomes = {i1, i2}
    HomeOperators = {o1}
    InboxApprovers = {a1, a2}
    MaxDispatches = 2
    MaxApprovals = 2
    MaxCredentials = 2
    MaxQueue = 2
    MaxChanges = 5
    MaxMishaps = 2
    HomeConns = {c1, c2}
    HomeCatalogs = {g1, g2}
    MaxGrants = 2
    MaxFaults = 2
    Relays = {}
    Homes = {h1}
    Passive = {}
    Credentials = {c1}
    QueueCapacity = 1
    NoConn = NoConn
    NoSnapshot = NoSnapshot
    MaxGeneration = 3
    MaxFailures = 1
    Faults = {"cut", "restart", "server_restart", "slow"}
INVARIANTS
    TypesOK
    DirectoryIsSound
    RelaysShareTheDirectory
    OneLogin
    AcceptedIsKept
    ShownTogether
    InstallsTheAuthorized
    TravelHoldsThePublished
    NoMissedScan
    NoLostUpdate
    SessionKeepsCatalog
    AckIsDurable
PROPERTIES
    MarkNeverRegresses
    CacheNeverRegresses
CHECK_DEADLOCK FALSE
