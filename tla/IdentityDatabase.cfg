SPECIFICATION IdSpec
CONSTANTS
    Cells = {1, 2}
    Pairs <- MCPairs
    MaxKeys = 2
    Importers = {2}
INVARIANTS
    PackagesFit
    FailsOnlyIfBroken
    AgentsIdentified
