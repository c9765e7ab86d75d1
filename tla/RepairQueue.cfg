CONSTANTS
    MAX_QUEUED_REPAIR_SYMBOLS = 2
    PICOQUIC_MAX_PACKET_SIZE = 4
    FEC_FRAME_HEADER_SIZE = 1
    DataLengths = {2, 3}
    MaxBatch = 3
    MaxRepairSymbols = 5
    MaxSourceId = 2
SPECIFICATION Spec
INVARIANTS
    TypeOK
    EverySymbolAccountedFor
PROPERTIES
    ImplementsRepairFifo
