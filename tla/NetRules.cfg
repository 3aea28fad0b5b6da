SPECIFICATION NetSpec
CONSTANTS
    NumLans = 1
    NumVpns = 2
    Masquerade <- MCMasquerade
    Docker = TRUE
    MaxStarts = 3
    MaxFaults = 1
INVARIANTS
    StartedIsComplete
    StopCleansUp
    VpnProtected
    FreshStartAccepted
