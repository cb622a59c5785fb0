SPECIFICATION Spec
CONSTANTS
    r1 = r1
    r2 = r2
    Relays = {r1, r2}
    MaxCarriersPerFlow = 2
    MaxUnacked = 2
    RaceHistory = 2
    NoCarrier = NoCarrier
    SegLens = {1, 2}
    MaxUp = 0
    MaxDown = 2
    MaxRaces = 2
    MaxIncarnations = 1
    MaxBreaks = 0
    Faults = {}
SYMMETRY RelaySymmetry
INVARIANTS
    RaceHasOneWinner
    TransferIsExact
    DownloadKeepsFlow
CHECK_DEADLOCK FALSE
