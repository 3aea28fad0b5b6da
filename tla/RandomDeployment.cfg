CONSTANTS
    Peers = {c1, c2, c3, c4, c5, c6}
    Privates = {0, 1, 2, 3, 4, 5}
    MaxTries = 3
SPECIFICATION SearchSpec
INVARIANTS ReturnedIsConnected
SYMMETRY PeersSymmetry
CHECK_DEADLOCK FALSE
