# Soufflerie: specifications, model checking and proofs

Soufflerie generates a dataset of two-dimensional flow simulations on a GPU
provider, trains a surrogate network on it with three seeds, validates it, and
serves predictions, a demo and on-demand solves. The modules of this directory
model its behaviour over time (leased sweeps on a shared volume, training that
survives its workers, a job manager with remote containers, admission, a demo,
immutable stores, reports) and the discrete core of its numerics (streaming and
boundaries of the lattice, sampling schedules, geometry, splits, metrics).

Paths are relative to the repository; `sf/` stands for `src/soufflerie/`.

## 1. Inventory

| Component | Source | State | Operations | Interacts with |
|---|---|---|---|---|
| Sweep state store | `sf/datagen/sweep_state.py` | one JSON record per case: state, attempt, token, lease, history | initialize, claim, renew, succeed, fail, reap, resume plan | run store (verifies a success), case lock |
| Sweep orchestrator, solve workers | `infra/{sweep,sweep_execution,solve_execution,solve_worker}.py` | the shared volume, a snapshot in each container | initialize, plan, round, wait, summarize; claim, solve, publish, report | state store, provider volume and timeouts |
| Requests | `infra/remote_execution.py` | documents named by their digest | derive, parse, publish, load | sweep, solves |
| Cylinder acceptance | `infra/solve.py`, `sf/solver/cylinder_acceptance.py` | four case records, their containers, the report | invoke, claim, solve, report, write | state store, run store |
| Training of the seeds | `infra/{train,training_pipeline}.py`, `sf/training/{checkpoint,metrics,loop,runtime}.py` | per seed: model, optimizer, random numbers, epoch log, checkpoints, pointers, metrics, receipt; shared: selection | resume, epochs, barrier, selection, export, index | volume, bundle store |
| Run, dataset and model stores | `sf/datagen/{run_artifact,manifest}.py`, `sf/surrogate/bundle.py` | immutable directories with content addresses | stage, read back, mark, rename, open | all that publishes |
| Readers and lineage | `sf/artifacts.py` | none | read bytes, JSON, archives, tensors; verify a graph of parents | stores, validation |
| Validation and reporting | `infra/{validate,validation_pipeline,train_validate_execution}.py`, `sf/validation/*` | staged request, report directory, receipt | stage, reopen, evaluate, judge, write, receipt | stores, training index |
| Solve job manager | `sf/service/jobs.py` | jobs, idempotency keys, tasks, semaphore queue, streams | submit, status, open events, run, complete, fail, close | executor, admission, HTTP |
| Remote solve | `sf/service/remote.py`, `infra/service_execution.py` | one provider call per job | predict, spawn, wait, verify, cancel | job manager, volume, containers |
| HTTP boundary | `sf/service/app.py` | buffered bodies | bound a body, route, answer | readiness, jobs, admission |
| Public admission | `sf/service/admission.py` | token buckets, daily count and GPU seconds | identify the client, admit prediction, admit solve, snapshot, readiness | jobs, HTTP |
| Demo coordinator | `sf/demo/ui.py` | sessions with sequence numbers | reserve, resolve, release | prediction, handler threads |
| Observability | `sf/observability.py` | a bounded sink, timers | start, segment, annotate, finish | everything |
| Solver | `sf/solver/{lifecycle,kernels,_warp_backend,boundaries,obstacle,forces,numpy_oracle,lattice,diagnostics}.py` | populations, mask cache, force history, sums | initialize, advance, inspect, sample, finish | workers, acceptance |
| Design, geometry, training data | `sf/datagen/design.py`, `sf/geometry.py`, `sf/training/{data,baselines,loss}.py`, `sf/surrogate/preprocessing.py` | none | sample, split, preflight, mask, batch, fit, predict | sweep, solver, training |
| Network, schemas, configuration, CLI, rendering, image, scripts | the rest | none over time | tensors, parsing, text | - |

`PROJECT.json` lists each with its status.

**What is hard here, and what makes each part correct**

* *Sweep.* Callers on hosts with lagging clocks race for a case whose lease may
  expire under its holder; remotely the same store runs on private copies of a
  volume on which the last commit of a file wins. Correct: at most one open
  attempt, no late report reaches a later one, count, history and state agree, a
  success names a verified run and never changes, every retry left is used, the
  summary is true and the command ends.
* *Training.* An epoch is five files that one commit declares equal; a worker
  dies between any two. Correct: pointers resolve, no logged epoch disappears, all
  seeds agree on what is deployed, running the command again ends the experiment,
  and a resumed session is the one that was never interrupted.
* *Stores.* Publishers race to a rename; a process or the host dies between any
  two steps. Correct: a name is whole from the moment it exists and stays bound,
  and what a manifest or a receipt lists can be opened.
* *Jobs and remote solves.* Awaits between steps, trimming of records that tasks
  and streams refer to, deadlines racing answers, containers that outlive their
  caller. Correct: a job ends once, in order, within what was promised; a returned
  run opens; a container that is waited for is told to stop.
* *Edge.* Clients are named by proxies, bounded maps forget them, bodies arrive in chunks, replays must not
  be charged, a registry forgets sessions.
* *Validation, acceptance, events.* Correct: a green report is earned by its
  measurements and its parents, and complete before it is announced; an operation
  that returns or raises an `Exception` records one terminal event that says what happened.
* *Numerics.* One formula written twice, one schedule computed twice, edges of
  grids, ties and missing values. Correct: both writings agree everywhere, windows
  and samples are those named, statistics see training rows only.

## 2. Modules

| Module | Role |
|---|---|
| `CaseRecord` | the record of a case and its pure transitions, shared by `SweepState`, `Sweep` and `Cylinder` |
| `CaseLedger` | abstract: a ledger of attempts with no leases, tokens or clocks |
| `SweepState` | the store, one action per operation |
| `Sweep` | orchestrator, workers and volume over private copies |
| `Requests` | digests, coherence and documents of requests; the smoke design |
| `Cylinder` | the acceptance command over four case records |
| `Training` | workers of all seeds, every file, faults, the command |
| `TrainingSession` | one seed by the batch: what a checkpoint keeps, killed and resumed anywhere |
| `ImmutableStore` | abstract: a name is bound once, first visible, then durable |
| `ArtifactStore` | the run, dataset and model stores, step by step; implements `ImmutableStore` |
| `Readers`, `Lineage` | what a reader accepts; identities, graphs of parents |
| `Gates`, `Validation` | measurements to verdict; the run that publishes a report |
| `JobService` | abstract: the life of a job, first come first served, bounded |
| `SolveJobs` | the job manager; implements `JobService` |
| `RemoteSolve` | executor, backend, worker and provider, composed with `SolveJobs` |
| `HttpBoundary`, `Admission`, `DemoCoordinator` | the public edge |
| `Observability` | contexts, timers and the bounded sink |
| `Lattice` | one time step, in the oracle and in the kernels |
| `Stepper` | the steppers: which buffer, mask, links and history each launch uses |
| `Lifecycle` | a solve: inspections, samples, stops, force window |
| `Geometry`, `Dataset`, `Metrics` | preflight, masks and surfaces; designs, splits, statistics, baselines; measurements, ensembles, the loss |
| `MC*` | the modules TLC runs, each with its `.cfg` |
| `SweepStateProofs`, `SweepProofs` | the case records and the two machines that use them |
| `TrainingProofs` | the training of the seeds |
| `EvidenceProofs` | the stores, the validation, the acceptance and the events, as `MCEvidence` composes them; identities, requests, lineage and readers for every input |
| `SolveJobsProofs`, `RemoteSolveProofs` | the job manager, and the remote solve over its invariant |
| `BoundaryProofs` | the three modules of the public edge |
| `NumericsProofs` | the solver, the lattice, the steppers, the preflight and the training session, as `MCNumerics` composes them |

### How state and actions correspond to the code

`SweepState`. `store[c]` is the published revision of a case file. An operation
holds the case lock and ends in one atomic replacement, so it is one action, at a
timestamp read before the lock, at most `MaxSkew` behind. `held` and `spent` only
observe.

`Sweep`. What a container does up to its commit is private, hence one action; a
commit replaces whole files. Workers may be killed at every step, and at the
latest at the solve timeout, which the code requires to be shorter than the
lease. `Overlap` says whether the command may run again while workers of the
previous one live: the provider does not forbid it.

`Training`. Each written file is an action: epoch log, checkpoint, `latest.json`,
`best.json`, pruning, `validation-metrics.json`, then the commit. A checkpoint's
content address is the sequence of scores that led to it, so that an epoch trained
again may be equal or differ. `EarlyDurability` lets files outlive a worker that
never committed them, which the code's own recovery expects. `Refuse` gathers the
integrity errors; `Rerun` starts the identical command.

`TrainingSession`. What `Training` takes an epoch to be: its batches, the record
appended, the state captured, the model evaluated, the checkpoint published. A
weight is the list of updates that made it, an update what it was computed from
(batch, rate, moments, loss scale, random numbers, device), so any member that a
checkpoint forgets, or a draw of random numbers between capture and publication,
shows as another list. A killed process may be followed by one on another device.
It assumes what `configure_determinism` asks of the framework: equal inputs give
equal updates.

`ArtifactStore`. One action per member written, read-back, marker, `fsync`,
rename and return. A publisher may fail anywhere and clean up or not; the host
may fail and lose what was never forced. Content is its size, because a run's
identity leaves out timestamps and cost: two publishers of a name may differ.

`Validation`, `Cylinder`. One action per file of a report, per claim, run and
record. Measurements are small integers around every threshold; a run's numbers
are functions of its fields.

`SolveJobs`. Everything under the condition lock is one action; `task` gives each
job's place between awaits. The clock moves only when no task can step, as asyncio
runs what is ready first. In that run the executor is any that reports, returns,
raises, or is cancelled at its deadline. `RemoteSolve` puts the real one in its
place: spawn, call id, a wait that may fail while the container goes on, deadline, the
request to stop, and a container that claims, solves, publishes, commits, restarts or is
lost. The observer `abandoned` has the jobs whose wait failed so. `CancelTicks` bounds how long the
provider takes to acknowledge a request to stop.

`HttpBoundary`. One action per message of a client; a handler is one action from
its body to its answer, since submission holds the lock. `Admission`: one action
per method; tokens are integers in units of 1/window, so a refill is exact. The observer
`told` has the last denial and its `Retry-After`, and for a full map its entries. Its
identity, settings and readiness are pure; an address is a name with a spelling.
`DemoCoordinator`: what a handler does under the lock is one action, reading the
clock before it another.

`Observability`. The body of an operation may emit events of its own, and raises an
`Exception` anywhere, or is cancelled or interrupted anywhere, which no handler takes and
which leaves the start alone. Each emission may fail on a full sink, on too many fields
or on a string that redaction has made too long (a flag, `grown`, of the annotations and
of the identities), and the handler of one error may raise another. An interrupt inside
the recorder's own few statements is left out.

`Lattice`. A population is the place it came from; a boundary formula is a name
with the places it reads. Streaming of oracle and kernels is compared place by
place for every obstacle that preflight accepts, and the formulas at one node on
integers scaled so that nothing is divided. `Stepper` keeps populations as terms,
so that a wrong buffer, order, mask or step shows as a different term. `Lifecycle`
knows of the flow only whether it is sound, outside its bounds or broken, and
whether its mass drifted. `Geometry`, `Dataset`, `Metrics`, `Gates`, `Readers`,
`Lineage` and `Requests` are pure: operators compared with a second, direct
definition over all small inputs. In `Metrics` a value of a field is a number or `NoValue`, NaN
or infinity, which makes the metrics of its arrays invalid also inside the obstacle. The rank of a
probe binds the identity of its dataset, and so every row of it: nothing is said of the probes
of another dataset, only that those of one do not depend on the order of its rows.

## 3. Runs

Each run is one question. The longest takes two to three minutes with two workers.

| Run | Instance | Shows |
|---|---|---|
| `sweep_state` | 1 case, 3 callers with tokens of their own, 3 attempts, lease 2, skew 1, time to 6; symmetry on callers, tokens, owners and digests | records coherent and accounted for, successes verified and immutable, attempts fenced, `CaseLedger` implemented |
| `sweep` | 2 cases, 2 commands, 2 attempts, one forced failure, no overlap | the committed files implement `CaseLedger`; resuming is safe; the summary is true and every retry used |
| `sweep_overlap` | 1 case, 2 digests, overlapping commands | the summary validates, the command ends |
| `sweep_overlap_success` | the same | **violated** `CommittedSuccessIsImmutable`, finding 1 |
| `training` | 2 seeds, 2 epochs, 2 scores, 2 faults, early durability | pointers resolve, commits agree, records are kept, the deployed seed is the best, the run ends with an index or its files are torn |
| `training_resume` | the same, 1 fault, safety only | **violated** `RerunResumes`, finding 3 |
| `solve_jobs` | 3 jobs, 1 key, 1 reader, 1 slot, queue of 1, 2 retained | `JobService` implemented; keys, tasks and streams |
| `solve_remote` | 2 jobs over 1 slot, their containers, one restart, stop requests of a tick | a returned run opens, containers that are waited for are told to stop, `expires_at` is kept but for the provider's answers, every job ends |
| `boundary` | admission: 3 clients, maps for 2, 2 days, chains of 3 addresses and 2 proxies; demo: 2 sessions, 3 handlers, registry of 1; HTTP: 2 connections, 1 slot, budget of 2, 1 key | rates, budgets and `Retry-After`; a client charged as itself behind its proxies, whatever it writes before them; readiness never more than owed; the order a session gets; bodies bounded; one charge for one accepted job |
| `demo_last` | 2 sessions, 3 handlers, TTL 9 | **violated** `LastCommitWins`, finding 2 |
| `evidence` | 1 case of 2 sizes, 2 publishers; 2 report flaws, 2 runs; an acceptance of 3 roles, run twice; 2 operations, a sink of 3; all small graphs, files, documents | `ImmutableStore` implemented, names whole, reports earned, events honest; readers, lineage and requests exact |
| `numerics` | a 7 by 7 channel and every obstacle in its clear cells; 2 solves of 5 steps by a stepper; every solve of at most 9 steps; a session of 3 epochs of 2 batches over 4 processes and 2 devices; all small fields, distributions, probes, ensembles, losses, designs, splits, epochs, fits | kernels and oracle agree, also over their buffers; runs sampled as scheduled; a resumed session exactly the uninterrupted one, and no refusal but for a device or a log without a checkpoint; measurements and splits as defined |

`boundary`, `evidence` and `numerics` put independent components side by side: an
initial state chooses the subject, and from then on it is a behaviour of that
component's specification. Components that interact are composed instead
(`RemoteSolve` with `SolveJobs`, `Sweep` and `Cylinder` with `CaseRecord`).

**Why the bounds are enough.** *Store:* cases share nothing but the clock, so one
is every interaction; three callers are a holder, one that lost its lease and a
third that claims between; three attempts is the code's maximum. *Sweep:* two
cases make partial completion visible; two commands are a run and the run that
repairs it. *Training:* two epochs make best differ from latest and leave an
orphan behind a checkpoint; two scores give ties between epochs and seeds; two
faults are a crash and a crash during its recovery; the barrier and the selection
tell a worker from the others only, so two of three show every order. *Stores:* two publishers of
two sizes race and differ; one fault at any step. *Jobs:* one slot, one queued,
one refused; two retained make trimming bite with three. *Remote:* two batches,
since the second starts late when the first is slow to stop. *Admission:* one
client more than the maps hold; the GPU limit, no multiple of the
reservation, is the one that binds. *Demo:* one session more than the registry.
*Validation:* up to two flaws, since a gate could hide another. *Acceptance:* two
invocations and one trouble; one of the two other grids is enough. *Lattice:*
seven columns and rows hold every combination of wall, corner, inlet, outlet, sponge
and obstacle with a clear cell between. *Stepper:* two solves with different masks,
samples due on two of five steps. *Session:* a first epoch without a
checkpoint, one resumed, one resumed again. *Client:* a proxy behind a proxy behind a client
that writes an address of its own. `MaxTime`, `MaxRuns`, `MaxJobs`, `MaxFaults`,
`MaxAdmitted`, `MaxCalls`, `MaxClock`, `MaxProcesses` and their like bound counters only; where
they stop an instance its `.cfg` turns the deadlock check off.

**Fairness.** *Remote jobs:* the event loop runs a ready task (`TaskStep`), time
passes (`Tick`), a deadline is noticed and a request to stop is answered; nothing
is assumed of a container. *Sweep:* a queued request is run and a running
container continues or is killed at its timeout, so `WorkerStep` and the
orchestrator's steps are weakly fair; crashes are not. *Training:* a running
worker goes on, and the operator runs a failed command again; kills are finite
and `Flush` is never forced. Other runs state safety only.

## 4. Findings

1. *A committed success can be replaced* by a worker of an overlapping command,
   since commits have no precondition; `docs/data/sweep-lifecycle.md:50` says
   `succeeded` is immutable. Without overlap it holds as part of
   `VolumeImplementsLedger`.
2. *A forgotten session restarts its numbers,* so an older handler can show its
   outcome after a newer commit (`docs/demo.md:52-56`).
   `LastCommitWinsWhileKept` is what does hold.
3. *Some crashes end an experiment.* If written files outlive a worker killed
   between `latest.json` and `validation-metrics.json`, or between the first
   epoch record and the first `latest.json`, every rerun raises
   `REMOTE_TRAIN_RESUME_MISMATCH`; `docs/operations/training.md:60-61` says that
   rerunning the identical command resumes. `TrainingEnds` shows that these torn
   states are the only obstacle; with nothing durable before a commit they do not
   arise.

*Observations met while modelling, without a run.*

* `claim_case` compares a token with the last attempt's only, so a token of two
  attempts ago is granted again; `docs/data/sweep-lifecycle.md:29` says a reused
  expired token fails closed. The orchestrator derives tokens from the attempt
  number and never does so; fencing is proved for tokens of one caller.
* The cylinder acceptance presents one token per role for ever. A live claim is
  taken by two containers at once, and an operation whose attempt failed or
  outlived its lease is refused for good: the command cannot be resumed from the
  same source (`SpentStaysSpent`). What `docs/operations/remote-runtime.md:84-87`
  says of distinct operation identities holds.
* A deadline that passes while the submission is on its way leaves a container
  whose call nobody holds; `docs/api.md:83` and `docs/operations/service.md:80`
  say a timed-out solve is cancelled. Nor is a container asked to stop when the wait
  for its call fails while it is alive (`service_execution.py:144-145`): the deadline
  and the shutdown find nobody waiting. `WorkersAreCancelled` says that a job over
  leaves a container in these two ways only, and has not succeeded then.
* A publisher that finds its target returns without forcing the parent directory,
  so its answer can be lost with the host until the winner forces it.
* The identity of a dataset includes the bytes of its runs, that of a run leaves
  out timestamps and cost: the same sweep published twice has one set of run
  digests and may have two dataset digests.
* `docs/operations/service.md:26-27` says that an unseen client is denied a full map until
  the earliest entry expires, and that is its `Retry-After` (`admission.py:355-363`). A
  request of that entry's client puts the expiry off, and another client may take the
  place first: the client that waited is denied again. What holds is
  `RetryAfterIsEnough`: with no bucket used in between there is room.
  A rate of zero answers with its window and denies for ever.
* `docs/operations/observability.md:50` says that `case_started` automatically terminates as
  `case_completed` or `case_failed`. The handler takes `Exception` only
  (`observability.py:877`), so a cancelled task or an interrupt leaves the start without
  an end: `EventsTellTheTruth` says so.
* Excursions of the flow between two inspections are not seen, and mass drift is
  judged only at the end (`Lifecycle`).
* The sponge-overlap check of the preflight never decides: the outlet clearance of four
  diameters exceeds the sponge of two.
* The fused kernel and the oracle differ for an obstacle in the columns next to
  inlet or outlet or in the rows next to a wall; preflight rejects those (`Clear`).
* The seeded start depends on the parity of the seed only, as RFC-0002 says.
* A failing job leaves the semaphore before it records its failure, so for a
  moment one record more than the concurrency may say `running`.
* RFC-0008 line 46 lets a metric without valid cells be reported as invalid,
  while the evaluation of a case raises for some of them.

## 5. Proofs

Each theorem holds for every value of the constants: any number of cases, callers,
jobs, seeds, epochs, clients or handlers, any limits and times. The bounds that
keep an instance finite (`MaxTime`, `MaxJobs` and their like) are constants too,
so nothing proved depends on them.

| Module | Theorems, and the property of a run each states |
|---|---|
| `SweepStateProofs` | `TypeCorrect`; `SoundHistory` (`HistoryIsSound`); `ImmutableSuccess` and `GrowingEvidence`, action properties; `Refinement` (`ImplementsLedger`); `FencedAttempts` (`AttemptsAreFenced`) |
| `SweepProofs` | `SweepTypeCorrect`, `SuccessesHaveRoots`, whether commands overlap or not; without overlap `SafeResumes`, `TrueSummaries`, `ImmutableOnVolume` and `VolumeRefinement` (`VolumeImplementsLedger`); with it or not `AcceptedSummaries` (`SummaryIsAccepted`) |
| `TrainingProofs` | `TrainingTypeCorrect`; `CommitsAreWhole` (`CommitsResolve`); `SelectionIsBest` (`DeployableIsBest`); `RecordsKept` (`RecordsAreKept`), an action property |
| `EvidenceProofs` | `StoreTypeCorrect`; `WholeDirectories`, `ReferencesResolve`, `DatasetsResolve`; `ArtifactsAreSound` (`ArtifactsHold`), from these three and nine theorems about every input: `ReadsAreWhole`, `DocumentsAreBounded`, `ArchivesAreDescribed`, `TensorsAreTiled`, `IdentitiesAreLogical`, `LineagesAreOrdered`, `EvidenceRests`, `RequestsAreSeparate`, `DocumentsKept`; `StoreRefinement` and `EvidenceImplementsStore` (`ImplementsStore`); `EvidenceTypeCorrect` (`TypesOK`); `EarnedReports` (`ReportsAreEarned`); `HonestEvents` (`EventsAreHonest`) |
| `SolveJobsProofs` | `JobTypeCorrect`; `JobsOwned` (`JobsAreOwned`); `StreamsExact` (`StreamsAreExact`); `PromisesKept` over any executor; `ServiceRefinement` (`ImplementsService`) |
| `RemoteSolveProofs` | `RemoteTypeCorrect`; `ReturnedOpen` (`ReturnedRunsOpen`); `CallsCancelled` (`WorkersAreCancelled`); `PromisesKept` (`PromiseIsKept`) |
| `BoundaryProofs` | `BoundaryTypeCorrect` (`TypesOK`); `QuotasKept` (`QuotasHold`) with `ClientIsVouchedFor`; `LastCommitWinsKept`; `StaleJustified` (`StaleIsJustified`); `SolvesCharged` (`SolvesAreChargedOnce`) |
| `NumericsProofs` | `ExactRuns` (`RunsAreExact`); `ExactSteps` (`StepsAreExact`) |

None of these invariants is inductive as it stands. What each needed:

*Case records.* Whether a failed attempt may be retried depends on the length of
the history agreeing with the attempt number. `CaseInv` says of one record that it
is typed, coherent, accounted for, and blank when absent; a lemma per transition
of `CaseRecord` keeps it, and both machines rest on it. Fencing needs a second
invariant, `Fence`: the token of an open record belongs to the caller that holds
it, which is inductive only if no two callers share a token (`FreshTokens`, the
initial condition of `FreshSpec`, as the orchestrator guarantees).

*Sweep.* A commit writes whole files of a private copy, so the invariant says what
each worker will write: `SInv` describes it as a transition of the record that is
on the volume now. That holds because the wave that is out has at most one
container per case and no other writer, hence the hypothesis `~Overlap`. The
lease is longer than the solve timeout, so nobody reaps under a live worker.
The sweep and the leased store implement the same ledger under the same mapping.
The summary needs none of this: each record is coherent by itself (`CaseInv`), also
one that replaced another, and `PlannedInv` adds that no case is absent from the
plan. What is left is that a sum over a finite set grows with its terms; the sum is
a recursion over subsets, whose existence is proved by the least size without one.

*Training.* The files of a seed, on the volume and on the mount, belong to one
history `h`: settled on it, one epoch ahead in the log, or one epoch ahead in the
log and in the pointers. Every place a worker may die is one of these; a resumed
worker brings any of them back to the first or refuses. `BestAmong` says without
recursion what the fold over the metrics finds.

*Stores.* The invariant follows a directory from staging to its name: what was
verified is on the disk, what was committed is forced. So a rename binds a
directory that no host failure can wear, and the mapping to `ImmutableStore`
binds and makes durable in one step each.

*Readers, lineage, requests.* These checks keep no state, so the invariant of the whole,
`InputInv`, says only that what was picked is an input of its subject; the theorems are
about one answer each. Where the code loops, the model folds, and `IsFold` names the function of positions
that a fold is; its existence is proved by the least size without one (`FoldsExist`), and
then each loop has an invariant over its rounds. *The sort* (`SortInv`): what is out has
its parents out, and a degree counts the distinct parents that are not; when nothing is
ready, each digest left has a parent left; were they free of cycles, the one with the fewest
ancestors would have a parent with fewer, so one descends from itself (`CycleExists`). Ancestors are the least set closed under parents
(`AncestorsAreLeast`), reached in as many generations as there are nodes. *The walk over a
document* (`WalkStands`): some set of nodes was visited, the stack holds exactly the nodes
inside one of it that are not in it, each once and with the length of its path, and the
count is that of the keys seen; a refusal therefore speaks of the whole document. *The tensors:* ranks in
a strict order number a finite set (`RanksNumber`), so the sorted ranges are all of them,
and between two cursors there is one.

*Reports, acceptance, events.* `ValidationInv` ties the place of a run to the request
it staged and to the flaws it has seen: past a check its flaw is excluded, so what is
written at the end is `Assembled` from the parents of the request, with the verdict
of `Gates` on the measurements, and the files on disk are a prefix of the order of
writing. `CylinderInv` says what each container's place tells of the case record it
claimed, and that a role has one token, so a record that was spent stays spent.
`EventInv` relates the place of an operation to what its sink holds: the events of an
operation are its start, if it was emitted, those of its body, and at most one end, whose
outcome is that of the body unless masking had a cause; one that was interrupted has none.

*Jobs.* A record's events are numbered without a gap, a stream lies within its
record, jobs are numbered as they are accepted, the queue holds the ones that wait
in that order, and each task is where its job's state allows it to be. *Remote:* `SolveJobsProofs` is instantiated and
its invariant taken over: each step is one of the manager, leaves it alone, or
moves its clock. What is added says how far an executor can be, given where its
call, record and run are. *The promise:* `OnTime(k, slack)` holds of every job: one that executes
ends by its deadline plus `k`, and a queued one, behind `i - 1` others, has enough
slots that are free in time, counting `Concurrency` more in every turn of `Timeout + k`.
The manager alone keeps it with `k = 0`, the remote solve with `k = CancelTicks` and a slack of
one `CancelTicks` for each batch.

*Edge.* `HttpInv`: a client that was answered 202 was told of an accepted job, and
live jobs have different keys. `DemoInv`: a ticket whose session was not forgotten
finds it in the registry under its own number or, exactly when superseded, a
later one; and the order of the registry is total and transitive, so that there
is an oldest record to evict. `QuotaInv`: `RateOk` says of every admission that
those since then, with the tokens the bucket would hold now, fit into a full
bucket and its refill. A bucket that is dropped would be full, so
forgetting a client gives it nothing. The day's count is the number of solves
admitted that day, none of which is of a later one, and a client's `Retry-After`
is a time at which its bucket, untouched until then, holds a token, or an entry of the
map that turned it away has expired. A rate of zero is covered here and not by the run,
whose rates are positive.

*Numerics.* `SessionInv` gives in closed form what a session that started on a device and
was never interrupted has after `n` updates (`Trained`); `ResumesAreExact` compares with
the recursion `Uninterrupted`, and a lemma shows by the least update at which they differ
that there is none. What a checkpoint holds is `Trained` at the end of its epoch,
and restoring it gives the session back. `RunInv`: a sample at `warmup + k * interval`
for every `k` that is behind, each with an inspection, in order. `LaunchInv` says after
every advance that the buffers of the kernels hold the oracle's terms and that the
mask on the device is that of the solve; `DueInv` counts the force samples. The
lattice step is a case analysis on the target of a population (cell, wall, obstacle, inlet,
outlet), on any grid of five rows or more whose sponge leaves three columns free, and any set of
solid cells in the clear. The formulas of a node are linear in a few named products, which is how the
solver finds them. The preflight rests on the inequality of Cauchy, in the form of
Lagrange's identity: the extent of a turned ellipse bounds its cells in both directions, for
any axes and any rational rotation, on a grid of at least forty rows.

*Assumptions.* Only those the modules declare about their constants (limits are
numbers and windows are positive, `None` is no key, digest or size, there is a
session; a sweep has finitely many cases, a measurement is a number or `Invalid`, an epoch has
a batch, the value for no result or no checkpoint is none of them), which TLC evaluates in every run, and the two named above, `~Overlap` and
`FreshTokens`. The refusal of a graph is no sequence of numbers and that of a document no
number (`RefusedAssumption`, `NotAcceptedAssumption`): the code raises, and returns
neither. `RemoteSolve` repeats as `ManagerAssumption` what `SolveJobs` assumes,
and `MCBoundary` as `PartsAssumption` what its three modules do.

*Only model-checked:* the liveness properties `CommandEnds`, `EveryJobEnds`
and `TrainingEnds`, which need fairness and ENABLED, out of the prover's reach; and
what the statistics, losses, splits and schedules of `MeasurementsAreHonest` and
`SplitsAreClean` compute, two dozen folds and recursive functions over fields, probes and
designs. The method of *Readers, lineage, requests* would apply to each, one at a time.

## 6. Not modelled

*Floating point.* Rounding is nowhere modelled: the lattice formulas are checked on
integers, statistics and baselines in exact arithmetic, tokens of the admission
controller as whole units. The network and the spectrum behind the
Strouhal number are left to the repository's oracle tests. *Data without behaviour over time:*
configuration and schemas, command line, rendering, the image and the scripts.
*External:* the provider (volumes, kills, timeouts, queues, calls), asyncio,
Gradio's start of handlers, the filesystem's rename and `fsync`; they are modelled
as the code uses them. *Left out inside modelled parts,* as the notes in
`PROJECT.json` say: the packaged model, Parquet,
review of provenance, what redaction replaces in an event, Markdown and plots, the Poiseuille
fixture, the manifest that a complete canonical sweep publishes at its end, and
writes that become durable before their commit in `Sweep` (they are in
`Training`).

## 7. Plan

Done: every module of section 2, and the theorems of section 5. Left:

1. Early durability in `Sweep`, to use one assumption about the volume everywhere.
2. The publication of the dataset manifest at the end of a complete canonical sweep.
