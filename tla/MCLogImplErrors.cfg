SPECIFICATION Spec
CONSTANTS
    e1 = e1
    e2 = e2
    NULL = NULL
    Torn = Torn
    NoHeader = NoHeader
    Entries <- MCEntries
    EntrySize <- MCEntrySize
    Nodes <- MCNoNodes
    NoFsync = FALSE
    TornWrites = TRUE
    IOErrors = TRUE
    DroppedErrors = FALSE
    ContinueAfterError = FALSE
    MaxTerm = 1
    MaxIndex = 2
    MaxSnapshot = 1
    MaxRecords = 2
    MaxCount = 3
    InitSize = 2
INVARIANTS
    
    HeldIsCached
