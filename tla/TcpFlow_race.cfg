SPECIFICATION Spec
CONSTANTS
    r1 = r1
    r2 = r2
    Relays = {r1, r2}
    MaxCarriersPerFlow = 2
    MaxUnacked = 2
    RaceHistory = 2
    NoCarrier = NoCarrier
    SegLens = {1}
    MaxUp = 1
    MaxDown = 0
    MaxRaces = 2
    MaxIncarnations = 1
    MaxBreaks = 0
    Faults = {}
INVARIANTS
    RaceKeepsFlow
CHECK_DEADLOCK FALSE
