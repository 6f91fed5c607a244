------------------------------- MODULE Sweep --------------------------------
(***************************************************************************)
(* A sweep on the remote provider: the orchestrator of                     *)
(* infra/sweep_execution.py, the solve workers of infra/solve_execution.py *)
(* and the volume they share.                                              *)
(*                                                                         *)
(* The volume is external, modelled as the code uses it: a container works *)
(* on the snapshot of its last reload, a commit publishes the files it has *)
(* changed, and a later commit of a file replaces an earlier one.  Changes *)
(* that are not committed when the container reloads or dies are gone.     *)
(* What a container does between a reload and a commit is private, so that *)
(* stretch is one action; what it carries to its commit is in its record.  *)
(*                                                                         *)
(* The provider kills a worker at any time, and at SolveTimeout at the     *)
(* latest.  It runs one orchestrator at a time and never retries.          *)
(***************************************************************************)
EXTENDS CaseRecord, FiniteSets, FiniteSetsExt

CONSTANTS
    Cases,
    MaxRuns,        \* bound: how often the sweep command is run
    SolveTimeout,   \* SOLVE_TIMEOUT_SECONDS, in ticks
    MaxTime,        \* bound of the explored clock
    ForcedCase,     \* the case whose first attempt is forced to fail, or None
    Overlap         \* whether a command may start while workers of an earlier one live

\* A design of experiments is a list of cases.
ASSUME CasesAssumption == IsFiniteSet(Cases)
ASSUME RunsAssumption == MaxRuns \in Nat /\ MaxTime \in Nat /\ Overlap \in BOOLEAN
ASSUME TimeoutAssumption == SolveTimeout \in Nat /\ SolveTimeout < LeaseDuration
\* The orchestrator names attempt n of a case s<n>-<case>, and its owner by n too.
ASSUME TokensAssumption == AttemptIds = 1..MaxAttempts /\ Owners = AttemptIds

VARIABLES
    volume,     \* the committed files: case states and run roots
    worker,     \* worker[w]: the container that solves w's case for w's command
    orch,       \* the orchestrator of the latest command
    lost,       \* observer: the cases a worker was killed on
    now         \* the clock

vars == <<volume, worker, orch, lost, now>>

Workers == Cases \X (1..MaxRuns)
CaseOf(w) == w[1]

RunRoots == Cases \X Digests
WorkerPCs == {"idle", "queued", "claimed", "solving", "publishing", "published", "reporting"}
OrchPCs == {"down", "initializing", "planning", "waiting", "finishing", "done", "raised"}

TypeOK ==
    /\ volume \in [rec: [Cases -> CaseState], runs: SUBSET RunRoots]
    /\ worker \in [Workers -> [pc: WorkerPCs, n: 0..MaxAttempts, force: BOOLEAN,
                               started: Nat, rec: CaseState, digest: Digests \cup {None}]]
    /\ orch \in [pc: OrchPCs, run: 0..MaxRuns, round: 0..MaxAttempts, at: Nat,
                 absent: SUBSET Cases, plan: [Cases -> CaseState]]
    /\ lost \subseteq Cases
    /\ now \in Nat

Idle ==
    [pc |-> "idle", n |-> 0, force |-> FALSE, started |-> 0, rec |-> NoCase, digest |-> None]

NoPlan == [c \in Cases |-> NoCase]

Down ==
    [pc |-> "down", run |-> 0, round |-> 0, at |-> 0, absent |-> {}, plan |-> NoPlan]

Init ==
    /\ volume = [rec |-> [c \in Cases |-> NoCase], runs |-> {}]
    /\ worker = [w \in Workers |-> Idle]
    /\ orch = Down
    /\ lost = {}
    /\ now = 0

-----------------------------------------------------------------------------
(* The solve worker: execute_solve_request.                                *)

Initialized(s, t) ==
    IF s.state = "absent" THEN [s EXCEPT !.state = "pending", !.updated_at = t] ELSE s

WorkerReloads(w, rec) ==
    worker' = [worker EXCEPT ![w].pc = "claimed", ![w].started = now, ![w].rec = rec]

\* Reload, initialize and claim: a live lease under the worker's own token is granted
\* again, and a case that is not claimable ends the request.
WorkerClaims(w) ==
    LET n == worker[w].n
        seen == Initialized(volume.rec[CaseOf(w)], now)
        s == AfterExpiry(seen, now)
        holds == Live(seen, now) /\ seen.attempt_id = n /\ seen.lease_owner = n
    IN
    /\ worker[w].pc = "queued"
    /\ \/ holds /\ WorkerReloads(w, seen)
       \/ Claimable(s, n, now) /\ WorkerReloads(w, Claimed(s, n, n, now))
       \/ /\ ~holds /\ ~Claimable(s, n, now)
          /\ worker' = [worker EXCEPT ![w] = Idle]
    /\ UNCHANGED <<volume, orch, lost, now>>

\* commit_volume, after the claim and after the report that ends the attempt: the
\* worker's own copy of the state replaces what the volume holds.
CommitState(w) == volume' = [volume EXCEPT !.rec[CaseOf(w)] = worker[w].rec]

WorkerCommitsClaim(w) ==
    /\ worker[w].pc = "claimed"
    /\ CommitState(w)
    /\ worker' = [worker EXCEPT ![w].pc = "solving"]
    /\ UNCHANGED <<orch, lost, now>>

Owns(w) == OwnsLease(worker[w].rec, worker[w].n, worker[w].n, now)

Forced(w) == worker[w].force /\ worker[w].rec.attempt = 1

\* The solver or the publication of its run raises, or the failure is forced: the
\* attempt is failed in the worker's copy, unless its lease is over.
WorkerFails(w, code, retryable) ==
    /\ worker[w].pc = "solving"
    /\ Forced(w) => code \in RetryCodes /\ retryable
    /\ worker' = IF Owns(w)
                 THEN [worker EXCEPT
                        ![w].pc = "reporting",
                        ![w].rec = Failed(@, code, AfterFailure(@, code, retryable), now)]
                 ELSE [worker EXCEPT ![w] = Idle]
    /\ UNCHANGED <<volume, orch, lost, now>>

WorkerPublishes(w, d) ==
    /\ worker[w].pc = "solving"
    /\ ~Forced(w)
    /\ worker' = [worker EXCEPT ![w].pc = "publishing", ![w].digest = d]
    /\ UNCHANGED <<volume, orch, lost, now>>

\* Mutant: the run root is not committed before the success is recorded.
CommitRunLate(w) == UNCHANGED volume

CommitRun(w) == volume' = [volume EXCEPT !.runs = @ \cup {<<CaseOf(w), worker[w].digest>>}]

WorkerCommitsRun(w) ==
    /\ worker[w].pc = "publishing"
    /\ CommitRun(w)
    /\ worker' = [worker EXCEPT ![w].pc = "published"]
    /\ UNCHANGED <<orch, lost, now>>

\* The run this worker published verifies in its copy of the volume.  A lease that is
\* over refuses the success, and then the failure as well.
WorkerSucceeds(w) ==
    /\ worker[w].pc = "published"
    /\ worker' = IF Owns(w)
                 THEN [worker EXCEPT
                        ![w].pc = "reporting", ![w].rec = Succeeded(@, worker[w].digest, now)]
                 ELSE [worker EXCEPT ![w] = Idle]
    /\ UNCHANGED <<volume, orch, lost, now>>

WorkerReports(w) ==
    /\ worker[w].pc = "reporting"
    /\ CommitState(w)
    /\ worker' = [worker EXCEPT ![w] = Idle]
    /\ UNCHANGED <<orch, lost, now>>

WorkerKilled(w) ==
    /\ worker[w].pc # "idle"
    /\ worker' = [worker EXCEPT ![w] = Idle]
    /\ lost' = lost \cup {CaseOf(w)}
    /\ UNCHANGED <<volume, orch, now>>

WorkerStep(w) ==
    \/ WorkerClaims(w)
    \/ WorkerCommitsClaim(w)
    \/ \E code \in FailCodes, retryable \in BOOLEAN : WorkerFails(w, code, retryable)
    \/ \E d \in Digests : WorkerPublishes(w, d)
    \/ WorkerCommitsRun(w)
    \/ WorkerSucceeds(w)
    \/ WorkerReports(w)

-----------------------------------------------------------------------------
(* The orchestrator: orchestrate_sweep.                                    *)

Working(r) == {w \in Workers : w[2] = r /\ worker[w].pc # "idle"}

\* The command is run again after it ended or died.  It reloads and initializes.
OrchStarts ==
    /\ orch.pc \in {"down", "done", "raised"}
    /\ orch.run < MaxRuns
    /\ ~Overlap => \A w \in Workers : worker[w].pc = "idle"
    /\ orch' = [Down EXCEPT !.pc = "initializing", !.run = orch.run + 1, !.at = now,
                            !.absent = {c \in Cases : volume.rec[c].state = "absent"}]
    /\ UNCHANGED <<volume, worker, lost, now>>

OrchCommits ==
    /\ orch.pc = "initializing"
    /\ volume' = [volume EXCEPT !.rec =
            [c \in Cases |-> IF c \in orch.absent THEN Initialized(NoCase, orch.at) ELSE @[c]]]
    /\ orch' = [orch EXCEPT !.pc = "planning", !.at = 0, !.absent = {}]
    /\ UNCHANGED <<worker, lost, now>>

\* build_resume_plan on a fresh reload: what each case is once leases are reaped.
FreshPlan == [c \in Cases |-> AfterExpiry(volume.rec[c], now)]

In(plan, state) == {c \in Cases : plan[c].state = state}

\* Every success of the fresh plan verifies, and every success of the previous plan is
\* in it with the same digest.
PlanHolds ==
    /\ \A c \in In(FreshPlan, "succeeded") : <<c, FreshPlan[c].run_digest>> \in volume.runs
    /\ \A c \in In(orch.plan, "succeeded") :
        FreshPlan[c].state = "succeeded" /\ FreshPlan[c].run_digest = orch.plan[c].run_digest

\* Mutant: one round too few.
RoundsLeftOne == orch.round < MaxAttempts - 1

RoundsLeft == orch.round < MaxAttempts

\* The request of the next attempt of c, in the round that is submitted.
Request(c) ==
    [Idle EXCEPT !.pc = "queued", !.n = FreshPlan[c].attempt + 1,
                 !.force = c = ForcedCase /\ orch.round = 0]

\* Mutant: results are collected while workers of the round still run.
CollectableEarly == orch.pc \in {"planning", "waiting"}

\* Mutant: a round is over when the volume shows no case running any more.
CollectableOnState ==
    \/ orch.pc = "planning"
    \/ orch.pc = "waiting" /\ In(volume.rec, "running") = {} /\ Working(orch.run) = {}

\* submit returns when every request of the round has ended, one way or another.
Collectable == orch.pc = "planning" \/ (orch.pc = "waiting" /\ Working(orch.run) = {})

\* The first plan, and the one after each round: a claimable case is submitted.
OrchSubmits ==
    LET claimable == In(FreshPlan, "pending") IN
    /\ Collectable /\ PlanHolds
    /\ claimable # {} /\ RoundsLeft
    /\ worker' = [w \in Workers |->
            IF w[2] = orch.run /\ CaseOf(w) \in claimable THEN Request(CaseOf(w)) ELSE worker[w]]
    /\ orch' = [orch EXCEPT !.pc = "waiting", !.round = @ + 1, !.plan = FreshPlan]
    /\ UNCHANGED <<volume, lost, now>>

OrchFinishes ==
    /\ Collectable /\ PlanHolds
    /\ In(FreshPlan, "pending") = {} \/ ~RoundsLeft
    /\ orch' = [orch EXCEPT !.pc = "finishing", !.plan = FreshPlan]
    /\ UNCHANGED <<volume, worker, lost, now>>

\* A plan that does not hold, after a round or before the summary, ends the command.
OrchRaises ==
    /\ (Collectable \/ orch.pc = "finishing") /\ ~PlanHolds
    /\ orch' = [orch EXCEPT !.pc = "raised"]
    /\ UNCHANGED <<volume, worker, lost, now>>

\* The last reload and plan, from which the summary is made.
OrchSummarizes ==
    /\ orch.pc = "finishing"
    /\ PlanHolds
    /\ orch' = [orch EXCEPT !.pc = "done", !.plan = FreshPlan]
    /\ UNCHANGED <<volume, worker, lost, now>>

OrchCrashes ==
    /\ orch.pc \in {"initializing", "planning", "waiting", "finishing"}
    /\ orch' = [Down EXCEPT !.run = orch.run]
    /\ UNCHANGED <<volume, worker, lost, now>>

OrchStep ==
    \/ OrchCommits
    \/ OrchSubmits
    \/ OrchFinishes
    \/ OrchSummarizes
    \/ OrchRaises

-----------------------------------------------------------------------------
\* No worker outlives its timeout, which the provider counts from its start.
Tick ==
    /\ now < MaxTime
    /\ \A w \in Workers :
        worker[w].pc \in {"idle", "queued"} \/ now < worker[w].started + SolveTimeout
    /\ now' = now + 1
    /\ UNCHANGED <<volume, worker, orch, lost>>

Next ==
    \/ \E w \in Workers : WorkerStep(w) \/ WorkerKilled(w)
    \/ OrchStarts \/ OrchStep \/ OrchCrashes
    \/ Tick

Spec == Init /\ [][Next]_vars

\* A request that is queued is run, a container that runs goes on until it ends or is
\* killed at its timeout, and the orchestrator goes on once it may.
Fairness == WF_vars(OrchStep) /\ \A w \in Workers : WF_vars(WorkerStep(w))

FairSpec == Spec /\ Fairness

-----------------------------------------------------------------------------
(* Properties.                                                             *)

\* A committed success names a committed run root, so that a command that is run again
\* can verify it: workers commit the run before they commit the success.
SuccessHasRoot ==
    \A c \in In(volume.rec, "succeeded") : <<c, volume.rec[c].run_digest>> \in volume.runs

\* "succeeded is immutable": no commit replaces a committed success.
CommittedSuccessIsImmutable ==
    [][\A c \in In(volume.rec, "succeeded") : volume'.rec[c] = volume.rec[c]]_vars

\* The states on the volume go through the transitions the local store allows, though
\* nothing but private copies and whole-file commits joins the containers.
Ledger == INSTANCE CaseLedger WITH
    ledger <- [c \in Cases |-> Outcomes(volume.rec[c])],
    final <- [c \in Cases |-> Terminal(volume.rec[c])]

VolumeImplementsLedger == Ledger!Spec

\* A command never finds a success of its own earlier plan missing or changed.
NeverRaises == orch.pc # "raised"

\* A command that is run again, after any crash, finds every success it needs.
ResumesAreSafe == SuccessHasRoot /\ NeverRaises

\* The summary says of every case what the volume holds, but for leases it has reaped.
SummaryIsTrue ==
    orch.pc = "done" =>
        \A c \in Cases : \E t \in 0..now : orch.plan[c] = AfterExpiry(volume.rec[c], t)

\* A number of each case, added up.
Total(number) == MapThenSumSet(LAMBDA c : number[c], Cases)

\* What the last plan adds up to.
Summary(plan) ==
    LET Counted(state) == Cardinality(In(plan, state)) IN
    [pending |-> Counted("pending"), running |-> Counted("running"),
     succeeded |-> Counted("succeeded"), failed |-> Counted("failed"),
     references |-> {<<c, plan[c].run_digest>> : c \in In(plan, "succeeded")},
     failures |-> Total([c \in Cases |-> Len(plan[c].failure_codes)]),
     claimed |-> Total([c \in Cases |-> plan[c].attempt]),
     retries |-> Total([c \in Cases |->
         IF plan[c].attempt > 0 THEN plan[c].attempt - 1 ELSE 0])]

\* SweepSummary's validator.
SummaryIsCoherent(s) ==
    /\ s.pending + s.running + s.succeeded + s.failed = Cardinality(Cases)
    /\ Cardinality(s.references) = s.succeeded
    /\ s.failures <= s.claimed
    /\ s.succeeded = Cardinality(Cases) => s.failures <= s.retries

\* The validator of the summary accepts what a command has found, whatever became of its
\* workers: every case in one state, the failed attempts among the claimed ones, and among
\* the retries when every case has succeeded.
SummaryIsAccepted == orch.pc = "done" => SummaryIsCoherent(Summary(orch.plan))

\* A command leaves a case pending only when a worker of the case was killed: its
\* rounds are enough for all the attempts of every case that fails for a while.
RetriesAreUsed ==
    orch.pc = "done" =>
        In(orch.plan, "pending") \subseteq lost

\* What a command reports is what happened, and it has used the attempts it had.
SummariesAreTrue == SummaryIsTrue /\ RetriesAreUsed

\* A command that is started ends, whatever happens to its workers.
CommandEnds ==
    orch.pc = "initializing" ~> orch.pc \in {"done", "raised", "down"}
=============================================================================
