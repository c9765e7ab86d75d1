SPECIFICATION Spec
CONSTANTS
    MaxK = 3
    MaxR = 4
    Elements = {1, 40000}
    SymbolSize = 2
    Allocations = {1, 3, 5}
INVARIANTS
    TypeOK
    CodeWordHasZeroSyndrome
    SyndromeOfReceived
    DecodingRestoresSent
