SPECIFICATION Spec
CONSTANTS
    e1 = e1
    e2 = e2
    NULL = NULL
    Torn = Torn
    NoHeader = NoHeader
    Entries <- MCEntries
    EntrySize <- MCEntrySize
    Nodes <- MCNodes
    NoFsync = FALSE
    TornWrites = FALSE
    IOErrors = TRUE
    DroppedErrors = FALSE
    ContinueAfterError = FALSE
    MaxTerm = 1
    MaxIndex = 3
    MaxSnapshot = 1
    MaxRecords = 3
    MaxCount = 4
INVARIANTS
    ReadsMatchAppended
PROPERTIES
    RecoveryKeepsAcked
