CONSTANTS
    NoEntry = NoEntry
    NoHeader = NoHeader
    NoChunk <- MCNoChunk
    SeqSpace = 16
    SentSize = 4
    ReceivedSize = 4
    ReassemblySize = 2
    AckWidth = 2
    AckBufSize = 3
    OutgoingSize = 2
    IncomingSize = 2
    MaxPacketSize = 2
    FragmentAbove = 1
    MaxFragments = 2
    WireFragments = 2
    PacketHeaderSize = 2
    WireHeader = 1
    RttFactor = 1
    LossFactor = 1
    BandwidthFactor = 1
    Frames = 19
    MaxDrops = 3

SPECIFICATION Spec
CHECK_DEADLOCK FALSE
INVARIANTS
    NoLossWhenAllAcked
