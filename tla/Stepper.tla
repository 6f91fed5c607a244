------------------------------ MODULE Stepper ------------------------------
(***************************************************************************)
(* The steppers that drive one solve, in two implementations: the arrays   *)
(* of the oracle (solver/lifecycle.py NumpyPeriodicStepper and its heirs)  *)
(* and the buffers of a device (kernels.py WarpKernelAdapter, whose        *)
(* launches _warp_backend.py makes).  Both are given the same calls.       *)
(*                                                                         *)
(* Populations are terms that record which stages made them, of which      *)
(* arguments: what a stage computes is the matter of Lattice, and here it  *)
(* is which buffer it reads and writes, in which order, and what is kept   *)
(* from one call to the next: the uploaded mask, the links, the history.   *)
(***************************************************************************)
EXTENDS Lattice, Sequences

CONSTANTS
    MaxAdvances,    \* bound: the steps of one solve
    MaxSolves,      \* bound: the solves of one stepper
    Warmup,         \* config.warmup_steps
    Every,          \* config.sample_interval
    NoMask          \* no mask was uploaded

ASSUME StepperAssumption == MaxAdvances \in Nat /\ Warmup \in Nat /\ Every \in Nat \ {0}

VARIABLES
    kind,           \* "periodic", "channel" or "obstacle"
    seed,           \* parity of the initial seed of WarpObstacleStepper, or 0
    obstacle,       \* the mask of the solve
    completed,      \* steps of the solve; -1 before it or after an error
    solves,         \* calls of initialize
    warp,           \* device buffers, and the stepper's links and history
    cache,          \* the mask last uploaded: host copy and device copy
    oracle          \* the arrays of the oracle, and its links and history

launchVars == <<kind, seed, obstacle, completed, solves, warp, cache, oracle>>

-----------------------------------------------------------------------------
(* Initial velocities, by cell.                                            *)

Walls == {0, NY - 1} \X Columns
Still(mask) == [cell \in Rows \X Columns |-> IF cell \in mask THEN "zero" ELSE "inlet"]

\* Mutant: the columns are restored after the solid cells.
WakeColumnsLast(mask, sign) ==
    [cell \in Rows \X Columns |->
        IF cell[2] \in {0, NX - 1} THEN "inlet"
        ELSE IF cell \in mask THEN "zero" ELSE <<"wake", sign>>]

\* initialize_wake_perturbed_numpy: a wave everywhere, then the inlet and the outlet column
\* as they were, then the solid cells at rest.
Wake(mask, sign) ==
    [cell \in Rows \X Columns |->
        IF cell \in mask THEN "zero"
        ELSE IF cell[2] \in {0, NX - 1} THEN "inlet" ELSE <<"wake", sign>>]

\* The mask that populations start from: a channel has solid walls.
StartMask(mask) == IF kind = "periodic" THEN mask ELSE mask \cup Walls

Due(step) == step > Warmup /\ (step - Warmup) % Every = 0

\* validate_sponge_mask, over the rows between the walls.
SpongeIsFree(mask) == \A cell \in mask : cell[1] \in 1 .. NY - 2 => cell[2] < NX - Sponge

\* sponge_strengths over apply_sponge_numpy, and sponge_kernel, in parts of
\* (Sponge - 1)^2 of the largest strength.
Strength(y, x) ==
    IF y \in 1 .. NY - 2 /\ x \in NX - Sponge .. NX - 1
    THEN (x - (NX - Sponge)) * (x - (NX - Sponge)) ELSE 0
KernelStrength(y, x) ==
    IF y > 0 /\ y < NY - 1 /\ x >= NX - Sponge
    THEN (x - (NX - Sponge)) * (x - (NX - Sponge)) ELSE 0

-----------------------------------------------------------------------------
(* Stages.  Lattice shows that a streamed term means the same populations  *)
(* on both sides, for an obstacle that preflight accepts.                  *)

Collision(f) == <<"collided", f>>
Damped(v, g) == <<"damped", v, g>>
Rolls(g) == <<"rolled", g>>
Streamed(mask, v, g) == <<"streamed", mask, v, g>>
Moments(f) == <<"moments", f>>
ForceSample(mask, step, g) == [step |-> step, links |-> mask, of |-> g]

\* collide, apply_sponge, pull_stream_periodic, pull_stream_channel and
\* reduce_macroscopic: each reads one buffer and writes another, or its own.
Collide(w) == [w EXCEPT !.next = Collision(w.f)]
ApplySponge(w, v) == [w EXCEPT !.next = Damped(v, w.next)]
PullPeriodic(w) == [w EXCEPT !.f = Rolls(w.next)]
PullChannel(w, mask, v) == [w EXCEPT !.f = Streamed(mask, v, w.next)]
Reduce(w) == [w EXCEPT !.moments = Moments(w.f)]

\* Mutant: a mask is uploaded once.
UploadOnce(c, mask) == IF c.host = NoMask THEN [host |-> mask, device |-> mask] ELSE c

\* The mask cache: the device copy is used again while the host copy is equal.
Upload(c, mask) == IF c.host # mask THEN [host |-> mask, device |-> mask] ELSE c

\* The mask that the kernel is given: a channel without an obstacle pulls with none, even
\* when its sponge was checked against one.
PullMask(mask) == IF kind = "obstacle" THEN mask ELSE {}

\* Mutant: the force is measured on what the pull left to be reduced.
MeasureAfterPull(w, step, v) ==
    IF kind = "obstacle" /\ Due(step)
    THEN [w EXCEPT !.forces = Append(@, ForceSample(w.links, step, Streamed(w.links, v, w.next)))] ELSE w

\* step_obstacle and WarpObstacleStepper.advance: only a step that is due copies the
\* post-collision buffer to the host and reduces it over the links of initialize.
Measure(w, step, v) ==
    IF kind = "obstacle" /\ Due(step)
    THEN [w EXCEPT !.forces = Append(@, ForceSample(w.links, step, w.next))] ELSE w

\* step, step_channel and step_obstacle.
WarpStep(w, device, step, v) ==
    IF kind = "periodic" THEN Reduce(PullPeriodic(Collide(w)))
    ELSE Reduce(PullChannel(Measure(ApplySponge(Collide(w), v), step, v), device, v))

\* numpy_periodic_step, numpy_channel_step and the flow of numpy_obstacle_step.
OracleFlow(f, v) ==
    IF kind = "periodic" THEN Rolls(Collision(f))
    ELSE Streamed(PullMask(obstacle), v, Damped(v, Collision(f)))

\* NumpyObstacleStepper.advance: a force is reduced on every step, and those due are kept.
OracleAdvance(o, step, v) ==
    LET damped == Damped(v, Collision(o.f))
        f == OracleFlow(o.f, v)
        forces == IF kind = "obstacle" /\ Due(step)
                  THEN Append(o.forces, ForceSample(o.links, step, damped)) ELSE o.forces
    IN  [o EXCEPT !.f = f, !.moments = Moments(f), !.forces = forces]

-----------------------------------------------------------------------------
(* The calls.                                                              *)

Zeros == <<"zeros">>
WarpStart(mask, f, moments, forces) ==
    [f |-> f, next |-> Zeros, moments |-> moments, links |-> mask, forces |-> forces]

\* Mutant: the history of the last solve is kept.
StartKeeping(mask, f, moments, forces) == WarpStart(mask, f, moments, warp.forces)

\* The stepper's initialize makes links and history anew; the adapter keeps its mask.
Start(mask, f, moments, forces) == WarpStart(mask, f, moments, forces)

LaunchInit ==
    /\ kind \in {"periodic", "channel", "obstacle"}
    /\ seed \in {-1, 0, 1} /\ (kind # "obstacle" => seed = 0)
    /\ obstacle = {} /\ completed = -1 /\ solves = 0
    /\ warp = WarpStart({}, Zeros, Zeros, <<>>)
    /\ cache = [host |-> NoMask, device |-> NoMask]
    /\ oracle = [f |-> Zeros, moments |-> Zeros, links |-> {}, forces |-> <<>>]

\* initialize: equilibrium at the prescribed velocities, whose moments are uploaded with it;
\* a seeded start goes through from_numpy, which recovers them.
InitializeSolve(mask) ==
    LET start == <<"equilibrium", IF seed = 0 THEN Still(StartMask(mask)) ELSE Wake(StartMask(mask), seed)>>
        still == <<"equilibrium", Still(StartMask(mask))>>
    IN  /\ solves < MaxSolves
        /\ solves' = solves + 1 /\ obstacle' = mask /\ completed' = 0
        /\ warp' = Start(mask, start, IF seed = 0 THEN <<"prescribed", start>> ELSE Moments(start), <<>>)
        /\ oracle' = [f |-> still, moments |-> <<"prescribed", still>>, links |-> mask, forces |-> <<>>]
        /\ UNCHANGED <<kind, seed, cache>>

AdvanceSolve(v) ==
    /\ completed \in 0 .. MaxAdvances - 1
    /\ kind = "periodic" \/ SpongeIsFree(obstacle)
    /\ completed' = completed + 1
    /\ cache' = IF kind = "periodic" THEN cache ELSE Upload(cache, PullMask(obstacle))
    /\ warp' = WarpStep(warp, cache'.device, completed', v)
    /\ oracle' = OracleAdvance(oracle, completed', v)
    /\ UNCHANGED <<kind, seed, obstacle, solves>>

\* The sponge refuses the mask: after the collision on the device.
AdvanceRefused ==
    /\ completed = 0 /\ kind # "periodic" /\ ~SpongeIsFree(obstacle)
    /\ completed' = -1
    /\ warp' = Collide(warp)
    /\ UNCHANGED <<kind, seed, obstacle, solves, cache, oracle>>

-----------------------------------------------------------------------------
(* What the steppers promise.                                              *)

\* The flow of the device is the oracle's, and its moments are of the populations beside
\* them; a seeded start is the only difference.
SameFlow ==
    /\ seed = 0 => warp.f = oracle.f /\ warp.moments = oracle.moments
    /\ completed > 0 => warp.moments = Moments(warp.f)

\* The force samples are the ones due so far in this solve, each of the step it is named
\* for: over the obstacle of the solve, before the pull of the step.
ForcesAreOfTheStep ==
    /\ completed >= 0 /\ kind = "obstacle" =>
          [k \in DOMAIN warp.forces |-> warp.forces[k].step]
              = [k \in 1 .. Cardinality({s \in 1 .. completed : Due(s)}) |-> Warmup + k * Every]
    /\ seed = 0 => warp.forces = oracle.forces
    /\ \A k \in DOMAIN warp.forces :
          /\ warp.forces[k].links = obstacle
          /\ warp.forces[k].step = completed =>
                warp.f[1] = "streamed" /\ warp.f[4] = warp.forces[k].of

\* The device copy of the mask is the one the host would upload again.
MaskIsUploaded == cache.device = cache.host

\* The perturbation leaves walls, obstacle, inlet and outlet as they were, and the sponge
\* damps the same cells by the same strength on both sides, never one of the obstacle.
StartIsClean(mask) ==
    LET solid == mask \cup Walls IN
    /\ \A sign \in {-1, 1}, cell \in solid \cup Rows \X {0, NX - 1} :
          Wake(solid, sign)[cell] = Still(solid)[cell]
    /\ \A cell \in Rows \X Columns :
          /\ KernelStrength(cell[1], cell[2]) = Strength(cell[1], cell[2])
          /\ SpongeIsFree(mask) /\ Strength(cell[1], cell[2]) > 0 => cell \notin mask

LaunchesAgree == SameFlow /\ ForcesAreOfTheStep /\ MaskIsUploaded /\ StartIsClean(obstacle)
=============================================================================
