CONSTANTS
    PacketHeaders <- MCPacketHeaders
    FragmentHeaders <- MCFragmentHeaders
    Payloads <- MCPayloads

SPECIFICATION Spec
INVARIANTS
    TypeOK
    HeaderFits
    NothingMisread
    OnlyCutHeaderRefused
CHECK_DEADLOCK FALSE
