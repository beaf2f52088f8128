CONSTANTS
    NoEntry = NoEntry
    NoHeader = NoHeader
    A = A
    B = B
    Endpoints <- MCEndpoints
    MaxSends <- MCMaxSends
    NoChunk <- MCNoChunk
    SeqSpace = 8
    SentSize = 2
    ReceivedSize = 2
    ReassemblySize = 2
    AckWidth = 2
    AckBufSize = 2
    OutgoingSize = 4
    IncomingSize = 2
    MaxPacketSize = 2
    FragmentAbove = 1
    MaxFragments = 2
    WireFragments = 2
    PacketHeaderSize = 1
    WireHeader = 1
    RttFactor = 1
    Lens = {1, 2}
    MaxInFlight = 2
    MaxDups = 0
    MaxMishaps = 0
    NoStalePartials = TRUE
    Start = 5
    StartLen = 1
    SendsA = 1
    SendsB = 0

SPECIFICATION Spec
CHECK_DEADLOCK FALSE
INVARIANTS
    FreshFragmentTaken
