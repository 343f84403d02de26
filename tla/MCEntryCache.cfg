SPECIFICATION Spec
CONSTANTS
    e1 = e1
    e2 = e2
    NULL = NULL
    Entries <- MCEntries
    InitSize = 2
    MaxIdx = 6
INVARIANTS
    TypeOK
    HeldIsWindow
PROPERTIES
    ImplementsWindow
