SPECIFICATION Spec
CONSTANTS
    e1 = e1
    e2 = e2
    NULL = NULL
    Torn = Torn
    NoHeader = NoHeader
    Entries <- MCEntries
    EntrySize <- MCEntrySize
    Nodes <- MCNodes
    NoFsync = FALSE
    TornWrites = TRUE
    IOErrors = FALSE
    DroppedErrors = FALSE
    ContinueAfterError = FALSE
    MaxTerm = 1
    MaxIndex = 4
    MaxSnapshot = 1
    MaxRecords = 4
    MaxCount = 5
    InitSize = 2
INVARIANTS
    TypeOK
    BatchesMatchAppended
    HeldIsCached
PROPERTIES
    PopNotifiesRemoved
