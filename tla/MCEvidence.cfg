\* One case of two sizes and two publishers; two flaws in what a report compares and two
\* runs; two operations and a sink for three events; an acceptance of
\* three roles that is run twice; and small graphs, documents and files.
SPECIFICATION MCSpec
CONSTANTS
    Cases = {c1}
    Sizes = {1, 2}
    Publishers = {a1, a2}
    MaxFaults = 1
    MaxCalls = 6
    None = None
    Invalid = Invalid
    Thresholds <- ThresholdValues
    Measurements <- MeasurementValues
    MaxFlaws = 2
    MaxRuns = 2
    Operations = {a1, a2}
    SinkCapacity = 3
    FieldLimit = 2
    TimingFields = 1
    OutcomeFields <- OutcomeSizes
    MaxClock = 1
    Grids = {"fine"}
    Outcomes = {1, 2}
    InRange = {1, 2}
    Healthy = {1}
    MaxInvocations = 2
    MaxTroubles = 1
    NoRun = NoRun
    Refused = Refused
    Unreadable = Unreadable
    NotAccepted = NotAccepted
SYMMETRY Symmetry
INVARIANTS
    TypesOK
    ArtifactsHold
    ReportsAreEarned
    EventsAreHonest
PROPERTIES
    ImplementsStore
\* Publications, runs and clock readings are bounded, so their instances stop.
CHECK_DEADLOCK FALSE
