CONSTANTS
    SourceMaxSize = 3
    RepairMaxSize = 3
    MaxSourceId = 5
    MaxSlot = 3
    FirstIds = {1}
    MaxNss = 2
SPECIFICATION Spec
INVARIANT FirstIsOldest
