SPECIFICATION Spec
CONSTANTS
    BatchSize = 2
    Plans <- UnreachedPlans
    ReadBack <- MCReadBack
    Recorded <- MCRecorded
    RootOf <- MCRootOf
INVARIANT FailsOnlyIfReached
