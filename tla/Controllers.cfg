CONSTANTS
    MaxSourceId = 3
    MaxTime = 2
    Granularity = 1000
    LossRates = {0, 100, 600}
    GemodelP = {0, 500}
    GemodelR = {500, 1000}
    Rtts = {8, 16}
    Bytes = {1200, 2400}
    Mtus = {1200}
    Deadlines = {5, 9}
    Allocations = {TRUE, FALSE}
    SECOND_IN_MICROSEC = 1000
    DEADLINE_CRITICAL_THRESHOLD_MICROSEC = 1
SPECIFICATION Spec
INVARIANTS
    TypeOK
    BlocksPartition
    RepairUnlessNoRoom
