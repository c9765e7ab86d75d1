SPECIFICATION FairSpec
CONSTANTS
    MAX_QUEUED_REPAIR_SYMBOLS = 3
    BlockNumbers = 5
    DEFAULT_N = 3
    DEFAULT_K = 2
    DataLength = 2
    FEC_FRAME_HEADER_SIZE = 1
    FrameSizes = {0, 2, 3}
CHECK_DEADLOCK FALSE
INVARIANTS
    TypeOK
    HeadIsOldest
PROPERTIES
    OldestSymbolLeaves
