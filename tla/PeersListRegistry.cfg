SPECIFICATION Spec
CONSTANTS
    c1 = c1
    c2 = c2
    cx = cx
    l1 = l1
    l2 = l2
    Registry = registry
    Cells = {c1, c2, cx}
    Excluded = {cx}
    Particles = {}
    LocalPeer = registry
    Lans = {l1, l2}
    AllowedLans <- MCAllowedLans
    LocalLans = {}
    ConfigIds = {k1, k2}
    CellInfos <- MCCellInfos
    VpnPeers = {}
INVARIANTS
    RoutedDiscoveredAccurate
    ConsistentConfigAccurate
    FullyRoutedNotMissed

