CONSTANTS
    NoEntry = NoEntry
    NoHeader = NoHeader
    NoChunk <- MCNoChunk
    SeqSpace = 16
    SentSize = 4
    ReceivedSize = 4
    ReassemblySize = 2
    AckWidth = 2
    AckBufSize = 2
    OutgoingSize = 4
    IncomingSize = 4
    MaxPacketSize = 2
    FragmentAbove = 1
    MaxFragments = 2
    WireFragments = 2
    PacketHeaderSize = 2
    WireHeader = 1
    RttFactor = 1
    LossFactor = 1
    BandwidthFactor = 1
    Rounds = 3
    MaxLost = 2
    MaxErrors = 1

SPECIFICATION Spec
INVARIANTS
    ReplyIsOwn
