CONSTANTS
    MaxSourceId = 3
    MaxRepair = 2
    MaxGenerated = 3
    MaxSymbols = {2}
    Allocations = {TRUE, FALSE}
SPECIFICATION Spec
INVARIANTS
    TypeOK
    UnknownIdsOrdered
    SymbolsCounted
    OneSymbolPerCall
PROPERTIES
    RecoverySound
