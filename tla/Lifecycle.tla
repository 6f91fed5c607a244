----------------------------- MODULE Lifecycle -----------------------------
(***************************************************************************)
(* One run of the solver (solver/lifecycle.py run_lifecycle) with the      *)
(* force history its stepper records and the diagnostics derived from it   *)
(* (solver/forces.py, solver/diagnostics.py).                              *)
(*                                                                         *)
(* The flow is a health: sound, outside the runtime bounds, or broken,     *)
(* which is a NaN that no later step heals.  The array oracle raises when  *)
(* a step breaks the flow; the kernels go on, and only an inspection sees  *)
(* it.  Whether the mass has drifted too far is a second fact of the flow. *)
(***************************************************************************)
EXTENDS Integers, Sequences, FiniteSets

CONSTANTS
    MaxSteps,           \* bound: the steps of a configuration
    MaxInterval,        \* bound: its sample interval
    MinWindow,          \* MIN_AVERAGING_STEPS
    MinSamples,         \* MIN_AVERAGING_SAMPLES
    ForceWindow,        \* MEAN_FORCE_WINDOW_STEPS
    NoResult

\* CompletedLatticeRun and FailedSolverRun, with the diagnostics of the first.
Results ==
    [kind : {"stability", "convergence"}, steps : Nat, samples : Nat, last : Nat \cup {NoResult}]
    \cup [kind : {"internal"}]
    \cup [kind : {"completed"}, steps : Nat, samples : Nat,
          strouhal : {"insufficient_samples", "irregular_sampling", "spectrum"}, means : Nat]

ASSUME LifecycleAssumption ==
    /\ MaxSteps \in Nat \ {0} /\ MaxInterval \in Nat \ {0}
    /\ MinWindow \in Nat /\ MinSamples \in Nat \ {0} /\ ForceWindow \in Nat \ {0}
    /\ NoResult \notin Nat /\ NoResult \notin Results

VARIABLES
    config,         \* steps, warmup, interval and the stepper's backend
    step,           \* completed steps; -1 before the initial inspection
    flow,           \* health and drift of the lattice state
    history,        \* inspections, by step
    samples,        \* the steps whose fields were added to the sums
    forces,         \* the steps of the force history
    result

vars == <<config, step, flow, history, samples, forces, result>>

Configs == [steps : 1 .. MaxSteps, warmup : 0 .. MaxSteps - 1, interval : 1 .. MaxInterval,
            backend : {"numpy", "warp"}]
Flows == [health : {"sound", "outside", "broken"}, drifted : BOOLEAN]

\* Mutant: a window that the interval does not divide gets one more sample.
SampleCountUp(c) == (c.steps - c.warmup + c.interval - 1) \div c.interval

\* averaging_sample_steps: the schedule, which a configuration must fill.
SampleCount(c) == (c.steps - c.warmup) \div c.interval
SampleSteps(c) == [k \in 1 .. SampleCount(c) |-> c.warmup + k * c.interval]
Schedules(c) == c.steps - c.warmup >= MinWindow /\ SampleCount(c) >= MinSamples
Sampled(c, s) == \E k \in 1 .. SampleCount(c) : SampleSteps(c)[k] = s

\* The stepper's own test of the same schedule, made when a step advances.
SampleDue(c, s) == s > c.warmup /\ (s - c.warmup) % c.interval = 0

Inspected(c, s) == Sampled(c, s) \/ s % c.interval = 0 \/ s = c.steps

Failure(kind, s, taken) ==
    [kind |-> kind, steps |-> s, samples |-> Len(taken),
     last |-> IF history = <<>> THEN NoResult ELSE history[Len(history)]]

Init ==
    /\ config \in {c \in Configs : Schedules(c)}
    /\ step = -1 /\ flow \in Flows /\ flow.drifted = FALSE
    /\ history = <<>> /\ samples = <<>> /\ forces = <<>> /\ result = NoResult

\* The initial state is inspected before any step.
InspectInitial ==
    /\ step = -1 /\ result = NoResult
    /\ IF flow.health = "sound"
       THEN step' = 0 /\ history' = <<0>> /\ UNCHANGED result
       ELSE step' = step /\ result' = Failure("stability", 0, samples) /\ UNCHANGED history
    /\ UNCHANGED <<config, flow, samples, forces>>

\* What one step may do to the flow.
Flowing(after) == flow.health = "broken" => after.health = "broken"

\* The array oracle refuses a step that breaks the flow; nothing of it is recorded.
AdvanceRaises ==
    /\ result = NoResult /\ step \in 0 .. config.steps - 1
    /\ config.backend = "numpy"
    /\ \E after \in Flows :
          after.health = "broken" /\ flow' = after
    /\ step' = step + 1
    /\ result' = Failure("stability", step + 1, samples)
    /\ UNCHANGED <<config, history, samples, forces>>

\* Mutant: the fields are added to the sums before they are inspected.
AddedFirst(s, sound) == Sampled(config, s)

\* The fields of a sample are added after its inspection.
Added(s, sound) == sound /\ Sampled(config, s)

\* A step: advance with its force sample, inspect when it is due, stop at what is unsound.
Advance ==
    /\ result = NoResult /\ step \in 0 .. config.steps - 1
    /\ \E after \in Flows :
          /\ Flowing(after)
          /\ config.backend = "numpy" => after.health # "broken"
          /\ flow' = after
    /\ LET s == step + 1
           due == Inspected(config, s)
           sound == due /\ flow'.health = "sound"
       IN  /\ step' = s
           /\ forces' = IF SampleDue(config, s) THEN Append(forces, s) ELSE forces
           /\ history' = IF sound THEN Append(history, s) ELSE history
           /\ samples' = IF Added(s, sound) THEN Append(samples, s) ELSE samples
           /\ result' = IF due /\ ~sound THEN Failure("stability", s, samples') ELSE NoResult
    /\ UNCHANGED config

\* StrouhalUnavailableReason as far as the history decides it: too few samples, samples
\* that the interval does not separate, or a spectrum to look into.
Strouhal ==
    IF Len(forces) < 4 THEN "insufficient_samples"
    ELSE IF \E i \in 1 .. Len(forces) - 1 : forces[i + 1] - forces[i] # config.interval
         THEN "irregular_sampling" ELSE "spectrum"

\* The samples of the trailing window (last - ForceWindow, last].
MeanForceSamples ==
    {i \in DOMAIN forces : forces[i] > forces[Len(forces)] - ForceWindow}

\* After the last step: every scheduled sample was seen, and the final drift decides.
Finish ==
    /\ result = NoResult /\ step = config.steps
    /\ result' =
          IF Len(samples) # SampleCount(config) THEN [kind |-> "internal"]
          ELSE IF flow.drifted THEN Failure("convergence", step, samples)
          ELSE [kind |-> "completed", steps |-> step, samples |-> Len(samples),
                strouhal |-> Strouhal, means |-> Cardinality(MeanForceSamples)]
    /\ UNCHANGED <<config, step, flow, history, samples, forces>>

Next == InspectInitial \/ AdvanceRaises \/ Advance \/ Finish
Spec == Init /\ [][Next]_vars

-----------------------------------------------------------------------------
LifecycleTypeOK ==
    /\ config \in Configs /\ step \in -1 .. config.steps /\ flow \in Flows
    /\ history \in Seq(0 .. config.steps)
    /\ samples \in Seq(1 .. config.steps) /\ forces \in Seq(1 .. config.steps)
    /\ result = NoResult \/ result.kind \in {"stability", "convergence", "internal", "completed"}

\* A completed run is what its metadata says (CompletedLatticeRun, ObstacleForceHistory):
\* it covers the schedule, its means hold every sample of it and no other, the force
\* history was taken at those same steps although the stepper works them out by itself,
\* so that the spectrum is evenly sampled, and the flow was sound at the end.
CompletedIsScheduled ==
    result # NoResult =>
        /\ result.kind # "internal"
        /\ result.kind = "completed" =>
              /\ step = config.steps
              /\ flow.health = "sound" /\ ~flow.drifted
              /\ samples = SampleSteps(config) /\ forces = samples
              /\ history[1] = 0 /\ history[Len(history)] = config.steps
              /\ \A i \in DOMAIN samples : \E j \in DOMAIN history : history[j] = samples[i]
              /\ result.strouhal # "irregular_sampling" /\ result.means >= 1

\* A failed run keeps honest evidence (FailedSolverRun): the last step it calls valid was
\* sound and lies before the step that failed, and it counts only samples up to there.
FailureIsLocated ==
    result # NoResult /\ result.kind = "stability" =>
        /\ flow.health # "sound"
        /\ result.last = NoResult <=> history = <<>>
        /\ history # <<>> => /\ result.last = history[Len(history)]
                             /\ result.last < result.steps
        /\ result.samples = Cardinality({k \in 1 .. SampleCount(config) :
                                            history # <<>> /\ SampleSteps(config)[k] <= result.last})
=============================================================================
