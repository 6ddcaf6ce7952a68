SPECIFICATION Spec
CONSTANTS
    MaxIndex = 1
    MaxGen = 1
INVARIANTS
    HandleNeverAliases
    QueryRunsInItsSession
    LiveObjectsReachable
    CapacityNotLost
CHECK_DEADLOCK FALSE
