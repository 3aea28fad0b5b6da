SPECIFICATION StoreSpec
CONSTANTS
    cli = cli
    agent = agent
    NoProc = NoProc
    f1 = f1
    Procs = {cli, agent}
    Importers = {agent}
    Fields = {f1}
    MaxId = 2
    MaxSets = 2
    MaxCalls = 3
INVARIANTS
    CleanIsStored
    TransactionIsAtomic
PROPERTY
    ImportIsAtomic
CHECK_DEADLOCK FALSE
