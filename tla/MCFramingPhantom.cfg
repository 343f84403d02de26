SPECIFICATION Spec
CONSTANTS
    NULL = NULL
    Entries <- MCEntries
    Headers <- MCHeaders
    Dbid <- MCDbid
    MaxRecords = 3
    MaxTorn = 1
INVARIANTS
    LoadsOnlyWritten
