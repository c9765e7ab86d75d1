CONSTANTS
    RECEIVE_BUFFER_MAX_LENGTH = 3
    MAX_SLOTS = 3
    MaxSymbolId = 4
    MaxSlot = 5
    MaxPacketNumber = 4
    ack_delay_exponent = 3
    DetectFailures = {"none", "state"}
SPECIFICATION Spec
INVARIANTS
    TypeOK
    WindowTracksOutstandingPackets
    SlotFeedbackInOrder
    AckFrameSettlesItsRanges
PROPERTIES
    WindowDrains
