SPECIFICATION FairSpec
CONSTANTS
    MaxApp = 3
    Latest <- MCLatest
    Delta <- MCDelta
    Droppable <- MCDroppable
    Erasable <- MCErasable
    MaxFaults = 3
    MaxInstalls = 4
INVARIANTS SchemaComplete RollbacksRecorded
PROPERTIES DowngradeClean Converges
CHECK_DEADLOCK FALSE
