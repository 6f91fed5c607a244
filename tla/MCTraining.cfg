SPECIFICATION FairSpec
CONSTANTS
    Seeds = {1, 2}
    Epochs = 2
    Scores = {1, 2}
    EarlyDurability = TRUE
    MaxFaults = 2
INVARIANTS
    TypeOK
    CommitsResolve
    DeployableIsBest
PROPERTIES
    RecordsAreKept
    TrainingEnds
CHECK_DEADLOCK FALSE
