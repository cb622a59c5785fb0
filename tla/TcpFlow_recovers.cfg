SPECIFICATION FairSpec
CONSTANTS
    r1 = r1
    r2 = r2
    Relays = {r1}
    MaxCarriersPerFlow = 2
    MaxUnacked = 2
    RaceHistory = 2
    NoCarrier = NoCarrier
    SegLens = {1}
    MaxUp = 1
    MaxDown = 1
    MaxRaces = 3
    MaxIncarnations = 1
    MaxBreaks = 1
    Faults = {}
PROPERTIES
    LossIsRecovered
    IsStream
CHECK_DEADLOCK FALSE
