CONSTANTS
    Configs <- LargeFragments
    HeaderSizes <- MCHeaderSizes
    MaxPacketHeaderBytes = 9
    FragmentHeaderBytes = 5
    WireFragments = 255
    LengthMod = 65536

SPECIFICATION Spec
INVARIANTS
    AcceptedArrivesWhole
CHECK_DEADLOCK FALSE
