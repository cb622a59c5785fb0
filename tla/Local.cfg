SPECIFICATION LocalSpec
CONSTANTS
    Absent = Absent
    Intents = {"legacy", "directed"}
    IdentityFiles = {"trust", "certificate"}
    PolledRelays = 2
    MaxDeaths = 3
    Buckets = {1, 2}
    SampleSessions = {s1, s2}
    NodeRoles = {"travel", "relay", "home"}
    ScanLimit = 1
    MaxSamples = 2
    MaxQueue = 2
    MaxStoreFaults = 1
    Services = {s1, s2}
    Loopbacks = {b1, b2}
    MaxListeners = 3
    MaxErrors = 1
    MaxCancels = 1
    UdpPeers = {p1}
    UdpApps = {a1}
    Associations = {f1, f2}
    Carriers = {c1, c2}
    QueueLimit = 1
    MaxAttempts = 1
    MaxUp = 2
    MaxDown = 1
    MaxEvents = 1
    StopCallers = {x1, x2}
    MaxTasks = 2
    MaxLoads = 2
    MaxLeft = 1
    Keys = {k1, k2}
    Passwords = {w1, w2, w3}
    FirstPassword = w1
    NoFile = NoFile
    MaxTransactions = 2
    MaxFaults = 3
CONSTRAINT NoCollision
INVARIANTS
    TypesOK
    BindingIsComplete
    RotationIsAtomic
    CountedOnce
    ServesWhatIsShown
    LiveIsRegistered
    QuietAfterStop
CHECK_DEADLOCK FALSE
