SPECIFICATION Spec
CONSTANTS
    BatchSize = 2
    Plans <- MCTranslations
    ReadBack <- MCReadBack
    Recorded <- MCRecorded
    RootOf <- MCRootOf
INVARIANT MeansTheSame
