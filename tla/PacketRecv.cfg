SPECIFICATION Spec
CONSTANTS
    HeaderSize = 2
    MaxPacket = 4
    BufferSize = 4
    BufferCount = 3
    Sizes = {2, 3, 4}
    MaxPackets = 5
INVARIANTS
    TypeOK
    WindowExact
    RoomToReceive
    NoSpuriousDisconnect
    PacketsInOrder
PROPERTIES
    CopyDisjoint
    EveryPacketDelivered
CHECK_DEADLOCK FALSE
