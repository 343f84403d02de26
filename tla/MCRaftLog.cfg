SPECIFICATION Spec
CONSTANTS
    e1 = e1
    e2 = e2
    NULL = NULL
    Torn = Torn
    NoHeader = NoHeader
    Entries <- MCEntries
    EntrySize <- MCEntrySize
    Nodes <- MCNodes
    NoFsync = FALSE
    TornWrites = TRUE
    IOErrors = FALSE
    DroppedErrors = TRUE
    ContinueAfterError = FALSE
    MaxTerm = 1
    MaxIndex = 3
    MaxSnapshot = 2
    MaxRecords = 4
    MaxCount = 4
INVARIANTS
    TypeOK
    ReadsMatchAppended
    HeaderDurable
PROPERTIES
    LoadEnds
