----------------------------- MODULE MCNumerics -----------------------------
(* Small instances of the numerical modules, side by side.  A behaviour picks a subject and
   one input for it, and stops there; the lifecycle of a solve and the calls of a stepper are
   behaviours of their own specifications.  Each subject has an initial state of its own, so that the inputs of
   several are enumerated at once. *)
EXTENDS Stepper, TrainingSession, Geometry, Lifecycle, Metrics, Dataset, Requests, TLC

CONSTANT None

VARIABLES subject, input

Subjects == {"mask", "node", "shape", "dam", "sdf", "solve", "cells", "cases", "probes",
             "slopes", "ensemble", "ratio", "loss", "design", "smoke", "split", "epoch", "fit", "query", "launch",
             "session"}

-----------------------------------------------------------------------------
(* The inputs.                                                             *)

ClearCells == {cell \in Rows \X Columns : Clear({cell})}

\* Channels of 320 rows from too short to long enough, around the smallest obstacles that
\* are resolved, and four rotations up to 28 degrees.
Shapes ==
    {s \in [nx : {46, 126, 136, 146, 156, 256}, ny : {320}, major : 10 .. 20,
            minor : {10, 12, 13, 15, 20},
            rotation : {<<1, 0, 1>>, <<24, 7, 25>>, <<12, 5, 13>>, <<15, 8, 17>>}] :
        s.minor <= s.major}

Middle == (1 .. FieldRows - 2) \X (1 .. 4)
Fields ==
    {[c \in Field |-> IF c = core THEN 0 ELSE IF c \in band THEN 1 ELSE 2] :
        core \in Middle, band \in SUBSET Middle}

\* Three rows, whose designs need not be in order; one may be of another dataset, or have
\* the design of another.
ProbeRows ==
    [dataset : {1}, design : {1}, split : {"train", "test"}, rotation : {0, 1, 29, 30},
     rank : {[ood |-> 1, sensitivity |-> 2], [ood |-> 2, sensitivity |-> 1]}]
ProbeManifests ==
    {<<[a EXCEPT !.design = 2], b, [c EXCEPT !.design = odd[1], !.dataset = odd[2]]>> :
        a, b, c \in ProbeRows, odd \in {<<3, 1>>, <<3, 2>>, <<2, 1>>}}

\* Two cells in one channel, the other channels at rest.
MemberFields == {[x \in Channels \X {1, 2} |-> IF x[1] = 1 THEN f[x[2]] ELSE 0] : f \in [{1, 2} -> 0 .. 2]}
Ensembles == [Members -> [model : 1 .. 3, fields : MemberFields]]

\* Two geometries at four Reynolds numbers; in all but the first, one result is another's.
Probed == [i \in 1 .. 4 * ProbeCount |-> <<(i - 1) \div 4, ((i - 1) % 4) + 1>>]
Copied(k) == IF k = 0 THEN Probed ELSE [Probed EXCEPT ![k] = Probed[(k % 8) + 1]]
OodResults ==
    {[i \in DOMAIN Probed |-> [geometry |-> Copied(k)[i][1], reynolds |-> Copied(k)[i][2],
                               variance |-> v[i]]] :
        k \in 0 .. 8, v \in [DOMAIN Probed -> 0 .. 1]}

Quad == 1 .. 4
Errors ==
    [fluid : SUBSET Quad, shape : [Quad -> 0 .. 1], cell : Quad, channel : Channels, change : {-1, 1}]

Permuted(n) == {p \in [1 .. n -> 1 .. n] : \A i, j \in 1 .. n : i # j => p[i] # p[j]}
Strata == {[i \in 1 .. 3 |-> p[i] - 1] : p \in Permuted(3)}
Places3 ==
    {<<[s \in 0 .. 2 |-> 0], [s \in 0 .. 2 |-> s % 2]>>,
     <<[s \in 0 .. 2 |-> (s + 1) % 2], [s \in 0 .. 2 |-> 1]>>}
Candidates == {LhsCandidate(place, <<a, b>>) : place \in Places3, a \in Strata, b \in Strata}
Ranges == [1 .. 4 -> {r \in [low : 0 .. 2, high : 0 .. 2] : r.low <= r.high}]
Points == [i \in 1 .. Samples |-> i]
Digests == [1 .. Samples -> 1 .. 2]
SampleSet == [split : Splits, values : {<<a, b>> : a \in 0 .. 2, b \in 0 .. 1}]
Designs == {<<a, r, 100, re>> : a \in {50, 100}, r \in {0, 30}, re \in {40, 170}}

-----------------------------------------------------------------------------
solveVars == <<config, step, flow, history, samples, forces, result>>
mcVars == <<subject, input, solveVars, launchVars, sessionVars>>

\* One solve that never starts, for the other subjects.
AtRest ==
    /\ config = None /\ step = -1 /\ flow = None
    /\ history = <<>> /\ samples = <<>> /\ forces = <<>> /\ result = NoResult

Idle ==
    /\ kind = None /\ seed = 0 /\ obstacle = {} /\ completed = -1 /\ solves = 0
    /\ warp = None /\ cache = None /\ oracle = None

NoSession ==
    /\ precision = None /\ phase = "down" /\ session = None
    /\ epochLog = <<>> /\ saved = None /\ processes = 0

MCInit ==
    /\ subject \in Subjects
    /\ input = None
    /\ IF subject = "solve" THEN Init ELSE AtRest
    /\ IF subject = "launch" THEN LaunchInit ELSE Idle
    /\ IF subject = "session" THEN SessionInit ELSE NoSession

Pick(name, inputs) ==
    /\ subject = name /\ input = None
    /\ input' \in inputs
    /\ UNCHANGED <<subject, solveVars, launchVars, sessionVars>>

PickMask == Pick("mask", SUBSET ClearCells)
PickNode == Pick("node", [f : [Directions -> 0 .. 1], a : 0 .. 1])
PickShape == Pick("shape", Shapes)
PickDam == Pick("dam", SUBSET Middle)
PickSdf == Pick("sdf", Fields)
PickCells == Pick("cells", SUBSET Cells)
PickCases == Pick("cases", UNION {[1 .. n -> 0 .. 2 \cup {NoValue}] : n \in 1 .. 5})
PickProbes == Pick("probes", ProbeManifests)
PickSlopes == Pick("slopes", (-3 .. 3) \X (-3 .. 3) \X (-3 .. 3))
PickEnsemble == Pick("ensemble", {e \in Ensembles : e[1].model = 1} \X {{1}, {1, 2}})
PickRatio == Pick("ratio", OodResults)
PickLoss == Pick("loss", Errors)
PickDesign == Pick("design", Candidates \X Candidates)
PickSmoke == Pick("smoke", Ranges)
PickSplit == Pick("split", Permuted(Samples) \X Digests)
PickEpoch == Pick("epoch", Digests \X Digests \X (1 .. 4))
PickFit == Pick("fit", [1 .. 3 -> SampleSet])
PickQuery == Pick("query", [1 .. 3 -> Designs] \X (SUBSET (1 .. 3) \ {{}}) \X (1 .. 3))

Solve == subject = "solve" /\ Next /\ UNCHANGED <<subject, input, launchVars, sessionVars>>

\* No obstacle, two in the clear, and one that reaches the sponge.
Obstacles == {{}, {<<3, 2>>}, {<<3, 2>>, <<3, 3>>}, {<<3, NX - Sponge>>}}
Launch ==
    /\ subject = "launch"
    /\ \/ \E mask \in Obstacles : InitializeSolve(mask)
       \/ \E v \in 1 .. 2 : AdvanceSolve(v)
       \/ AdvanceRefused
    /\ UNCHANGED <<subject, input, solveVars, sessionVars>>

Train == subject = "session" /\ SessionNext /\ UNCHANGED <<subject, input, solveVars, launchVars>>

MCNext ==
    \/ PickMask \/ PickNode \/ PickShape \/ PickDam \/ PickSdf \/ PickCells \/ PickCases
    \/ PickProbes \/ PickSlopes \/ PickEnsemble \/ PickRatio \/ PickLoss
    \/ PickDesign \/ PickSmoke \/ PickSplit \/ PickEpoch \/ PickFit \/ PickQuery
    \/ Solve \/ Launch \/ Train

MCSpec == MCInit /\ [][MCNext]_mcVars

Picked(name) == subject = name /\ input # None

-----------------------------------------------------------------------------
\* Lattice: the fused kernels move every population where the oracle does, nothing is lost
\* or counted twice, and collision and inlet keep what they must; and geometry preflight
\* accepts no obstacle that this would not hold for.  Stepper: the launches run these stages
\* on the buffers and the mask that the oracle does, and measure the force between them.
StepsAreExact ==
    /\ Picked("mask") => StreamingIsExact(input)
    /\ Picked("node") => NodesAreExact(input.f, input.a)
    /\ Picked("shape") => PreflightIsEnough(input)
    /\ subject = "launch" => LaunchesAgree

\* Lifecycle: a completed run averaged the fields of exactly its schedule with a health
\* inspection behind every sample, and a failed one names where it failed.  Training session:
\* one that was killed and resumed is the one that was never interrupted.
RunsAreExact ==
    /\ subject = "solve" => LifecycleTypeOK /\ CompletedIsScheduled /\ FailureIsLocated
    /\ subject = "session" => ResumesAreExact /\ RefusalsAreOwed

\* Metrics and geometry: what a report or a loss measures adds up fluid only, and is a value of
\* finite fields or none; it speaks for every case and every probe, in whatever order they are
\* read, and is taken on the tightest surface around the obstacle.
MeasurementsAreHonest ==
    /\ Picked("dam") => ConnectionIsExact(input)
    /\ Picked("sdf") => SurfaceIsTight(input)
    /\ Picked("cells") => ReadsOnlyFluid(input)
    /\ Picked("cases") => SummaryIsHonest(input) /\ PlotsAreDistinct(input)
    /\ Picked("probes") => ProbesAreStable(input)
    /\ Picked("slopes") => ComparisonsAreFair(input[1], input[2], input[3])
    /\ Picked("ensemble") => DisagreementIsFair(input[1], input[2], <<2, 3, 6>>)
    /\ Picked("ratio") => RatioIsHonest(input)
    /\ Picked("loss") =>
          LossIsMasked(input.fluid, Quad \ input.fluid, input.shape, input.cell, input.channel, input.change)

\* Dataset and requests: the designs are stratified, the splits are stable, an epoch covers its split, and
\* neither statistics nor baselines see anything but training rows.
SplitsAreClean ==
    /\ Picked("design") => DesignIsStratified(input)
    /\ Picked("smoke") => SmokeIsStratified(input)
    /\ Picked("split") => SplitsAreStable(Points, input[1], input[2])
    /\ Picked("epoch") =>
          EpochsCover(Points, input[1], input[2], [i \in 1 .. Samples |-> Samples - i], input[3])
    /\ Picked("fit") => StatisticsAreClean(input, <<3, 1, 2>>)
    /\ Picked("query") => BaselinesAreClean(input[1], input[2], input[3])
=============================================================================
