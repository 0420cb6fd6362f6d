\* One scan of one column, and one step of another connection.
CONSTANTS
    Size = 1
    Letterings = {{}}
    MaxMatches = 0
    Connections = {}
    Workers = {}
    None = None
    MaxSets = 0
    Null = Null
    Fails = Fails
    Reading <- MCReading
    Tables <- MCTables
    Requests <- MCNotes
    Settings <- MCOptional
    ChunkSize = 2
    MaxSamples = 1
    MaxChanges = 1
    InferenceFails = FALSE
INIT PIIInit
NEXT PIINext
INVARIANT CheckedTypesWereApplied
CHECK_DEADLOCK FALSE
