CONSTANTS
    SeqSpace = 16
    Size = 4
    AckWidth = 6
    MaxId = 34
    Ids <- MCIds
    NoEntry = NoEntry

SPECIFICATION Spec
INVARIANTS
    TypeOK
    WindowInv
    LookupExact
    AckBitsExact
PROPERTY
    ImplementsWindow
