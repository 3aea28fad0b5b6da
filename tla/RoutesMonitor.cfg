SPECIFICATION AgentFairSpec
CONSTANTS
    Routes = {r1}
INVARIANTS
    WakeupNotLost
    ChangeNotLost
PROPERTIES
    TriggerServed
    ChangeIsListed
    AgentStops
CHECK_DEADLOCK FALSE
