CONSTANTS
    NoEntry = NoEntry
    NoHeader = NoHeader
    A = A
    B = B
    Endpoints <- MCEndpoints
    MaxSends <- MCMaxSends
    NoChunk <- MCNoChunk
    SeqSpace = 8
    SentSize = 2
    ReceivedSize = 2
    ReassemblySize = 2
    AckWidth = 2
    AckBufSize = 2
    OutgoingSize = 2
    IncomingSize = 1
    MaxPacketSize = 3
    FragmentAbove = 1
    MaxFragments = 3
    WireFragments = 2
    PacketHeaderSize = 1
    WireHeader = 1
    RttFactor = 1
    Lens = {0, 1, 2, 3}
    MaxInFlight = 2
    MaxDups = 1
    MaxMishaps = 1
    NoStalePartials = TRUE
    Start = 0
    StartLen = 2
    SendsA = 2
    SendsB = 1

SPECIFICATION Spec
CHECK_DEADLOCK FALSE
INVARIANTS
    AckMeansDelivered
    AckSound
    Integrity
PROPERTY
    AckBatchFits
