CONSTANTS
    Capacity = 2
    SlotCapacity = 1
    UsizeMod = 8
    Seqs <- MCSeqs
    MaxLen = 2

SPECIFICATION Spec
INVARIANTS
    TypeOK
    PositionsAgree
PROPERTY
    ImplementsFifo
