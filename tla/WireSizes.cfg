CONSTANTS
    Configs <- SmallConfigs
    HeaderSizes <- MCHeaderSizes
    MaxPacketHeaderBytes = 9
    FragmentHeaderBytes = 5
    WireFragments = 4
    LengthMod = 7

SPECIFICATION Spec
INVARIANTS
    TypeOK
    NothingMissing
    CoherentArrivesWhole
CHECK_DEADLOCK FALSE
