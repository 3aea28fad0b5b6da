CONSTANTS
    MaxShuffled = 5
    MaxCells = 8
    PeerIds <- MCPeerIds
    SubnetSize = 32
    Deployments <- AllDeployments
SPECIFICATION Spec
INVARIANTS AddressesUnique LinkEndsAgree RefusedOnlyWhenFull BackboneAsDocumented
CHECK_DEADLOCK FALSE
