SPECIFICATION Spec
CONSTANTS
    Runs = {r1, r2, r3}
    NoRun = NoRun
    MaxSuspends = 3
INVARIANTS
    SessionAliveWhenCalled
    BatchIntact
    IdleEngineIsEmpty
PROPERTIES
    WaitersProceed
    CloseEndsEveryCall
CHECK_DEADLOCK FALSE
