CONSTANTS
    MaxSourceId = 3
    MaxRepair = 2
    MaxGenerated = 3
    MaxSymbols = {}
    Allocations = {TRUE}
SPECIFICATION Spec
PROPERTIES
    SourceSymbolTaken
