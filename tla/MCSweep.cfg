\* Two cases and two commands that do not overlap; one case is forced to fail once.
SPECIFICATION Spec
CONSTANTS
    Cases = {c1, c2}
    AttemptIds = {1, 2}
    Owners = {1, 2}
    Digests = {d1}
    FailCodes = {"REMOTE_EXECUTION", "SOLVER_UNSTABLE"}
    RetryCodes = {"REMOTE_EXECUTION"}
    LeaseExpired = "LEASE_EXPIRED"
    MaxAttempts = 2
    LeaseDuration = 2
    SolveTimeout = 1
    MaxRuns = 2
    MaxTime = 3
    ForcedCase = c1
    Overlap = FALSE
    None = None
INVARIANTS
    TypeOK
    ResumesAreSafe
    SummariesAreTrue
PROPERTIES
    VolumeImplementsLedger
\* The commands and the clock are bounded, so the instance stops.
CHECK_DEADLOCK FALSE
