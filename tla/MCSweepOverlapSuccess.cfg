\* One case; a command may start while workers of the one before it still run.
SPECIFICATION Spec
CONSTANTS
    Cases = {c1}
    AttemptIds = {1, 2}
    Owners = {1, 2}
    Digests = {d1, d2}
    FailCodes = {"REMOTE_EXECUTION", "SOLVER_UNSTABLE"}
    RetryCodes = {"REMOTE_EXECUTION"}
    LeaseExpired = "LEASE_EXPIRED"
    MaxAttempts = 2
    LeaseDuration = 2
    SolveTimeout = 1
    MaxRuns = 2
    MaxTime = 4
    ForcedCase = c1
    Overlap = TRUE
    None = None
PROPERTIES
    CommittedSuccessIsImmutable
CHECK_DEADLOCK FALSE
