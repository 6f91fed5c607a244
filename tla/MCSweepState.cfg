\* One case, three callers with tokens of their own, three attempts of two ticks:
\* every attempt can expire, and a caller's timestamp can lag by one tick.
SPECIFICATION FreshSpec
CONSTANTS
    Cases = {c1}
    Workers = {w1, w2, w3}
    AttemptIds = {a1, a2, a3}
    Owners = {o1, o2}
    Digests = {d1, d2}
    FailCodes = {"REMOTE_EXECUTION", "SOLVER_UNSTABLE"}
    RetryCodes = {"REMOTE_EXECUTION"}
    LeaseExpired = "LEASE_EXPIRED"
    MaxAttempts = 3
    LeaseDuration = 2
    MaxSkew = 1
    MaxTime = 6
    None = None
SYMMETRY Symmetry
INVARIANTS
    TypeOK
    HistoryIsSound
PROPERTIES
    SuccessIsImmutable
    EvidenceGrows
    AttemptsAreFenced
    ImplementsLedger
\* The clock is bounded and every case ends, so the instance stops.
CHECK_DEADLOCK FALSE
