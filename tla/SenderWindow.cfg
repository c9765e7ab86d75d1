\* The window with the caller that respects window_what_to_send: a new
\* source symbol is sent only while the window is shorter than MAX_SLOTS,
\* and MAX_SLOTS is the size of the ring.  Seven ids wrap a ring of three
\* slots twice.
CONSTANTS
    RECEIVE_BUFFER_MAX_LENGTH = 3
    MAX_SLOTS = 3
    MaxSymbolId = 7
    MaxSlot = 9
    SymbolBytes = {1, 142}
    MaxDataLength = 2
    PrngOutputs = {0, 256, 257, 1023, 70000}
SPECIFICATION Spec
INVARIANTS
    TypeOK
    WindowContiguous
    WindowHoldsExactlyUnacked
    CodedSymbolRestoresInFlight
    IdempotentAck
