SPECIFICATION FairSpec
CONSTANTS
    c1 = c1
    c2 = c2
    cx = cx
    l1 = l1
    l2 = l2
    Registry = registry
    Cells = {c1, c2, cx}
    Excluded = {cx}
    Particles = {p1}
    LocalPeer = c1
    Lans = {l1, l2}
    AllowedLans <- MCAllowedLans
    LocalLans = {l1}
    ConfigIds = {k1, k2}
    CellInfos <- MCFewCellInfos
    VpnPeers = {p1}
INVARIANTS
    ListenersInSync
    ReachableIsPublished
    KnownNetworksFileAccurate
PROPERTIES
    AttachedIsTested
