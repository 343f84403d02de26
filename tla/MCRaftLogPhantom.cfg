SPECIFICATION Spec
CONSTANTS
    e1 = e1
    e2 = e2
    NULL = NULL
    Torn = Torn
    NoHeader = NoHeader
    Entries <- MCEntries
    EntrySize <- MCEntrySize
    Nodes <- MCNodes
    NoFsync = FALSE
    TornWrites = TRUE
    IOErrors = FALSE
    DroppedErrors = FALSE
    ContinueAfterError = FALSE
    MaxTerm = 2
    MaxIndex = 4
    MaxSnapshot = 2
    MaxRecords = 4
    MaxCount = 5
INVARIANTS
    OutOfRangeGetIsNull
