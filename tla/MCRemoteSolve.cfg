\* Two jobs over one slot and a queue of one: two batches, their containers, and
\* requests to stop them that take a tick.
SPECIFICATION FairSpec
CONSTANTS
    MaxJobs = 2
    Keys = {}
    Digests = {d1}
    Readers = {}
    Concurrency = 1
    QueueCapacity = 1
    MaxRetained = 2
    Timeout = 1
    Retention = 1
    MaxProgress = 3
    MaxTime = 3
    None = None
    CancelTicks = 1
    MaxRestarts = 1
INVARIANTS
    RemoteTypeOK
    ReturnedRunsOpen
    WorkersAreCancelled
    PromiseIsKept
PROPERTIES
    EveryJobEnds
\* The jobs and the clock are bounded, so the instance stops.
CHECK_DEADLOCK FALSE
