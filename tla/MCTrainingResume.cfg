SPECIFICATION Spec
CONSTANTS
    Seeds = {1, 2}
    Epochs = 2
    Scores = {1, 2}
    EarlyDurability = TRUE
    MaxFaults = 1
INVARIANT RerunResumes
CHECK_DEADLOCK FALSE
