SPECIFICATION Spec
CONSTANTS
    U64Max = 7
    Pages <- MCPages
    PageCap = 3
    DecodedCap = 4
INVARIANTS
    ServesWhatWasFetched
    MissingIsAnswerable
    DecodedBudget
PROPERTIES
    ImplementsByteStore
CHECK_DEADLOCK FALSE
