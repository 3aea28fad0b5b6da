SPECIFICATION Spec
CONSTANTS
    Procs = {p1, p2}
    Configs = {k1, k2}
    IsCell = TRUE
    MaxFaults = 2
    MaxOpens = 3
    MaxOverlap = 2
    NoPid = NoPid
    NoMarker = NoMarker
    Down = Down
    Partial = Partial
SYMMETRY Symmetry
INVARIANTS
    OneAgent
    RunningHasServices
    StaticServicesRestored
    DownIsDown
CHECK_DEADLOCK FALSE
