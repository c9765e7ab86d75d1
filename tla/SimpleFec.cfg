CONSTANTS
    MaxId = 1
    MaxSlot = 6
    MaxProtected = 2
    SourceMaxSize = 1
    RepairMaxSizes = {1, 3}
    MaxConcerned = {0, 1}
SPECIFICATION Spec
INVARIANTS
    TypeOK
    
    PruneLeavesNoStale
