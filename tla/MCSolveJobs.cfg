\* One job runs and one waits; records are trimmed while a subscriber follows one.
SPECIFICATION Spec
CONSTANTS
    MaxJobs = 3
    Keys = {k1}
    Digests = {d1}
    Readers = {r1}
    Concurrency = 1
    QueueCapacity = 1
    MaxRetained = 2
    Timeout = 1
    Retention = 1
    MaxProgress = 1
    MaxTime = 4
    None = None
INVARIANTS
    TypeOK
    JobsAreOwned
    StreamsAreExact
PROPERTIES
    ImplementsService
\* The jobs and the clock are bounded, so the instance stops.
CHECK_DEADLOCK FALSE
