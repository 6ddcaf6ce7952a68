SPECIFICATION Spec
CONSTANTS
    narrow = narrow
    full = full
    copy = copy
    parquet = parquet
    empty = empty
    Queries <- MCQueries
    Kind <- MCKind
    Parts <- MCParts
    KnownSize <- MCEmpty
    BigFooter <- MCParquet
    Delegated <- MCParquet
    SplitSeq <- MCSplitSeq
    RuledOut <- MCRuledOut
    Prunes <- MCPrunes
    Keeps <- MCKeeps
    CodecHook = TRUE
INVARIANTS
    RowsExact
    OnlyWantedPagesFetched
PROPERTIES
    OpenStatementKeepsBytes
    ImplementsAnswers
CHECK_DEADLOCK FALSE
