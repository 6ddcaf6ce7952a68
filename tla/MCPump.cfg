SPECIFICATION Spec
CONSTANTS
    Size = 4
    Gap = 0
    Queries <- MCQueries
    Spoiled <- MCSpoiled
    MaxJobs = 2
    ResidentLimit = 1
INVARIANTS
    HandsOverTheFile
    NeverDisowned
    BlameIsFair
PROPERTY QueryEnds
