\* Matches: three bytes and at most three matches: every way two of them and a third overlap.
\* Settings: two connections with two workers, two SETs: one before and one during a statement.
\* Scan: three rows, two text columns, chunks of two; two changes by other connections.
CONSTANTS
    Size = 3
    Letterings = {{1}, {0, 1, 2}}
    MaxMatches = 3
    Connections = {c1, c2}
    Workers = {w1, w2}
    None = None
    MaxSets = 2
    Null = Null
    Fails = Fails
    Reading <- MCReading
    Tables <- MCTables
    Requests <- MCRequests
    Settings <- MCSettings
    ChunkSize = 2
    MaxSamples = 1
    MaxChanges = 2
    InferenceFails = TRUE
INIT PIIInit
NEXT PIINext
INVARIANTS
    NothingElseLost
    SkipIsLossless
    MaskedOnce
    OneConfiguration
    CurrentConfiguration
    FoundWasChecked
    PatternsAreMasked
    ReportsOneState
\* A text and a scan are over when they are over.
CHECK_DEADLOCK FALSE
