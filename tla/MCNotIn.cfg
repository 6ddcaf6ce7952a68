SPECIFICATION Spec
CONSTANTS
    BatchSize = 2
    Plans <- StarPlans
    ReadBack <- MCReadBack
    Recorded <- MCRecorded
    RootOf <- MCRootOf
INVARIANT NotInAsDocumented
