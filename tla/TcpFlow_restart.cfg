SPECIFICATION Spec
CONSTANTS
    r1 = r1
    r2 = r2
    Relays = {r1}
    MaxCarriersPerFlow = 2
    MaxUnacked = 2
    RaceHistory = 2
    NoCarrier = NoCarrier
    SegLens = {1}
    MaxUp = 0
    MaxDown = 2
    MaxRaces = 2
    MaxIncarnations = 2
    MaxBreaks = 0
    Faults = {"home_stop"}
INVARIANTS
    OneTargetPerFlow
CHECK_DEADLOCK FALSE
