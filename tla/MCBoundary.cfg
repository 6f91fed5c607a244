\* Three clients with maps for two and a day boundary; three handlers of two sessions with
\* a registry for one; two connections with one slot, a budget of two and one key.
SPECIFICATION Spec
CONSTANTS
    Clients = {a1, a2, a3}
    PredictCapacity = 2
    PredictWindow = 3
    SolveCapacity = 1
    SolveWindow = 4
    SolvesPerDay = 5
    Reservation = 2
    GpuLimit = 5
    MaxClientStates = 2
    Second = 2
    Day = 5
    MaxTime = 7
    MaxAdmitted = 3
    Proxies = {"p1", "p2"}
    MaxForwarded = 3
    Sessions = {s1, s2}
    Handlers = {a1, a2, a3}
    Debounce = 1
    TTL = 2
    MaxSessions = 1
    DemoMaxTime = 2
    Connections = {r1, r2}
    Keys = {k1}
    Digests = {d1, d2}
    BodyLimit = 1
    MaxChunk = 1
    Capacity = 1
    Budget = 2
    MaxJobs = 2
    None = None
SYMMETRY Symmetry
INVARIANTS
    TypesOK
    QuotasHold
    LastCommitWinsWhileKept
    StaleIsJustified
    SolvesAreChargedOnce
\* The clocks are bounded, so their instances stop.
CHECK_DEADLOCK FALSE
