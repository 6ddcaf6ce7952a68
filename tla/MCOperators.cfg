SPECIFICATION Spec
CONSTANTS
    BatchSize = 2
    Plans <- MCPlans
    ReadBack <- MCReadBack
    Recorded <- MCRecorded
    RootOf <- MCRootOf
INVARIANTS
    StreamExact
    BlockingExact
    EachRecordOnce
    AllOrNothing
    MatchesLeftmost
PROPERTIES
    Ends
