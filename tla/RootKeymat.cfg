CONSTANTS
    Cells = {c1, c2, c3}
    Root = root
    MaxKeys = 3
SPECIFICATION Spec
INVARIANTS SyncPushesCurrent
PROPERTIES CommandsKeepReachable
SYMMETRY CellsSymmetry
CHECK_DEADLOCK FALSE
