SPECIFICATION BothSpec
CONSTANTS
    r1 = r1
    s1 = s1
    s2 = s2
    a = a
    b = b
    None = None
    Relays = {r1}
    MaxCarriersPerFlow = 2
    MaxUnacked = 2
    RaceHistory = 2
    NoCarrier = NoCarrier
    SegLens = {1}
    MaxUp = 1
    MaxDown = 0
    MaxRaces = 2
    MaxIncarnations = 2
    MaxBreaks = 1
    Faults = {"race_timeout", "deadline", "detach", "open"}
INVARIANTS
    UploadReachesOneTarget
PROPERTIES
    ClosedFlowEnds
    HomeReleases
    HomeSettles
CHECK_DEADLOCK FALSE
