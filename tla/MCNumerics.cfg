\* A channel of 7 by 7 with a sponge of three columns, a solve of at most nine steps, two
\* solves of five steps by one stepper, fields
\* of 5 by 7 and of 3 by 4, five cases, and splits of three, one and one.
SPECIFICATION MCSpec
CONSTANTS
    NX = 7
    NY = 7
    Sponge = 3
    U = 5
    Tile = 4
    Omega = 3
    FieldRows = 5
    FieldColumns = 7
    SpongeStart = 6
    Clearance = 2
    MaxSteps = 9
    MaxInterval = 3
    MinWindow = 4
    MinSamples = 2
    ForceWindow = 4
    NoResult = NoResult
    Height = 3
    Width = 4
    ProbeCount = 2
    WorstCount = 2
    Tolerance = 1
    FloorParts = 100
    NoValue = NoValue
    TrainCount = 3
    ValidationCount = 1
    TestCount = 1
    Jitter = 2
    CellCount = 2
    Parts = 120
    NotAccepted = NotAccepted
    MaxAdvances = 5
    MaxSolves = 2
    Warmup = 1
    Every = 2
    NoMask = NoMask
    BatchCount = 2
    EpochCount = 3
    Devices = {"gpu-a", "gpu-b"}
    MaxProcesses = 4
    NoState = NoState
    None = None
INVARIANTS
    StepsAreExact
    RunsAreExact
    MeasurementsAreHonest
    SplitsAreClean
\* A picked input has no further step.
CHECK_DEADLOCK FALSE
