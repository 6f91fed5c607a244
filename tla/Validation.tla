----------------------------- MODULE Validation -----------------------------
(***************************************************************************)
(* The validation of a trained ensemble: infra/validate.py assembles one   *)
(* request from a training index, stages it on the volume, and a container *)
(* reopens it, checks every parent, evaluates the test set, judges the     *)
(* gates and publishes a report (infra/validation_pipeline.py,             *)
(* infra/train_validate_execution.py, validation/reporting.py).            *)
(*                                                                         *)
(* Digests are 1 or 2; every identity that some check compares is one fact *)
(* of the world, chosen at the start with at most MaxFlaws of them off.    *)
(* The container works on its own view of the volume; the provider may     *)
(* stop it at any step, and may have committed what it wrote by then.      *)
(***************************************************************************)
EXTENDS Gates

CONSTANTS
    MaxFlaws,       \* bound: the facts that are off at once
    MaxRuns,        \* bound: how often the command is run
    Measurements    \* bound: what an evaluation may measure

ASSUME ValidationAssumption ==
    /\ MaxFlaws \in Nat /\ MaxRuns \in Nat
    /\ Measurements \subseteq [Summaries -> Nat \cup {Invalid}]

Compare == {"config.dataset", "config.models", "config.baselines", "index.lock",
            "checkout.lock", "checkout.source", "checkout.dirty", "build.lock",
            "build.source", "build.dirty", "dataset.baselines", "dataset.solver",
            "bundle.dataset", "bundle.source", "bundle.lock", "bundle.statistics",
            "bundle.experiment", "bundle.seed", "device", "rows"}

VARIABLES
    digest,     \* what each compared identity is: 1 throughout a sound world
    run,        \* runs of the command so far
    main,       \* the command: its step, and the receipt it got
    worker,     \* the container: its step, its view of the volume, its report
    committed,  \* what the volume has committed: requests, reports
    published   \* the content of each report that was created, by its id

validationVars == <<digest, run, main, worker, committed, published>>

\* render_validation_artifacts: the members of a report, in the order they are written.
Members == <<"report.json", "report.md", "plots", "plots.json">>
WholeReport == {Members[i] : i \in DOMAIN Members}

\* The parents of a report, as the request names them.
Parents(request) == [dataset |-> request.dataset, models |-> request.models,
                     baselines |-> request.baselines, solver |-> 1]

Requests == [dataset: {1, 2}, models: {1, 2}, baselines: {1, 2}, source: {1, 2}, lock: {1, 2}]

\* A member of a directory holds the content of the report of one run, or is absent (0).
NotWritten == [member \in WholeReport |-> 0]
Volumes == [requests: SUBSET Requests, reports: [1..MaxRuns -> [WholeReport -> 0..MaxRuns]],
            tmp: SUBSET (1..MaxRuns)]
Nothing == [requests |-> {}, reports |-> [r \in 1..MaxRuns |-> NotWritten], tmp |-> {}]

NoRequest == [dataset |-> 1, models |-> 1, baselines |-> 1, source |-> 1, lock |-> 1]
NoReport == [status |-> "none", gates |-> <<>>, request |-> NoRequest, measured |-> <<>>]

ValidationTypeOK ==
    /\ digest \in [Compare -> {1, 2}]
    /\ run \in 0..MaxRuns
    /\ main.pc \in {"idle", "stage", "validate", "done", "failed"}
    /\ main.request \in Requests /\ main.receipt \in 0..MaxRuns
    /\ main.status \in {"none", "green", "red"}
    /\ worker.pc \in {"none", "staging", "commit", "opening", "evaluating", "writing",
                      "checking", "committing", "answered"}
    /\ worker.view \in Volumes /\ worker.next \in 1..(Len(Members) + 1)
    /\ committed \in Volumes
    /\ \A r \in 1..MaxRuns : published[r].status \in {"none", "green", "red"}

ValidationInit ==
    /\ \E off \in SUBSET Compare :
        /\ Cardinality(off) <= MaxFlaws
        /\ digest = [f \in Compare |-> IF f \in off THEN 2 ELSE 1]
    /\ run = 0
    /\ main = [pc |-> "idle", request |-> NoRequest, receipt |-> 0, status |-> "none"]
    /\ worker = [pc |-> "none", view |-> Nothing, next |-> 1]
    /\ committed = Nothing
    /\ published = [r \in 1..MaxRuns |-> NoReport]

-----------------------------------------------------------------------------
(* The command.  The training index is coherent: its dataset, models,      *)
(* baselines, solver lineage and source are the 1s of the world.           *)

Same(f, g) == digest[f] = digest[g]
Holds(f) == digest[f] = 1

\* What main checks before it asks for a container.
Assembles ==
    /\ Holds("checkout.dirty") /\ Holds("config.dataset") /\ Holds("config.models")
    /\ Holds("config.baselines") /\ Same("index.lock", "checkout.lock")

Assemble ==
    /\ main.pc \in {"idle", "done", "failed"} /\ worker.pc = "none" /\ run < MaxRuns
    /\ run' = run + 1
    /\ main' = [pc |-> IF Assembles THEN "stage" ELSE "failed", receipt |-> 0, status |-> "none",
                request |-> [dataset |-> digest["config.dataset"],
                             models |-> digest["config.models"],
                             baselines |-> digest["config.baselines"],
                             source |-> digest["checkout.source"],
                             lock |-> digest["checkout.lock"]]]
    /\ UNCHANGED <<digest, worker, committed, published>>

\* assert_request_matches_build.
MatchesBuild(request) ==
    /\ Holds("build.dirty")
    /\ request.source = digest["build.source"] /\ request.lock = digest["build.lock"]

\* A container starts and reloads the volume, or refuses the request.
Start(step, next) ==
    /\ main.pc = step /\ worker.pc = "none"
    /\ IF MatchesBuild(main.request)
       THEN /\ worker' = [pc |-> next, view |-> committed, next |-> 1]
            /\ UNCHANGED main
       ELSE /\ main' = [main EXCEPT !.pc = "failed"]
            /\ UNCHANGED worker
    /\ UNCHANGED <<digest, run, committed, published>>

StartStaging == Start("stage", "staging")
StartValidation == Start("validate", "opening")

Fails ==
    /\ worker' = [worker EXCEPT !.pc = "none"]
    /\ main' = [main EXCEPT !.pc = "failed"]
    /\ UNCHANGED <<digest, run, committed, published>>

\* publish_workflow_request: the request file appears whole under its digest, or the one
\* that is there is verified.
StageRequest ==
    /\ worker.pc = "staging"
    /\ worker' = [worker EXCEPT !.pc = "commit", !.view.requests = @ \cup {main.request}]
    /\ UNCHANGED <<digest, run, main, committed, published>>

CommitRequest ==
    /\ worker.pc = "commit"
    /\ committed' = worker.view
    /\ worker' = [worker EXCEPT !.pc = "none"]
    /\ main' = [main EXCEPT !.pc = "validate"]
    /\ UNCHANGED <<digest, run, published>>

-----------------------------------------------------------------------------
(* execute_validation.                                                     *)

\* Mutant: the lock of the bundles is not compared.
SoundButLock ==
    /\ Holds("bundle.dataset") /\ Holds("bundle.source") /\ Holds("bundle.statistics")
    /\ Holds("bundle.experiment") /\ Holds("bundle.seed")
    /\ Holds("dataset.baselines") /\ Holds("dataset.solver") /\ Holds("device")

\* The bundles are of this dataset, source, lock and preprocessing, of one experiment and
\* three seeds; the baselines fitted again and the solver lineage are the request's.
Sound ==
    /\ Holds("bundle.dataset") /\ Holds("bundle.source")
    /\ digest["bundle.lock"] = main.request.lock /\ Holds("bundle.statistics")
    /\ Holds("bundle.experiment") /\ Holds("bundle.seed")
    /\ digest["dataset.baselines"] = main.request.baselines
    /\ Holds("dataset.solver") /\ Holds("device")

\* load_workflow_request and the lineage checks.
OpenParents ==
    /\ worker.pc = "opening"
    /\ IF main.request \in worker.view.requests /\ Sound
       THEN /\ worker' = [worker EXCEPT !.pc = "evaluating"]
            /\ UNCHANGED <<digest, run, main, committed, published>>
       ELSE Fails

\* The evaluation raises when the test set is short, when an observation it needs is
\* invalid, or when one case is both the representative and the worst; otherwise the
\* gates are judged and the report is created, red or green.
Evaluate(m, distinct) ==
    /\ worker.pc = "evaluating"
    /\ IF Holds("rows") /\ Evaluable(m) /\ distinct
       THEN LET gates == RequiredGates(m)
                report == [status |-> Overall(gates), gates |-> gates,
                           request |-> main.request, measured |-> m]
            IN /\ Coherent(gates, report.status)
               /\ published' = [published EXCEPT ![run] = report]
               /\ worker' = [worker EXCEPT !.pc = "writing"]
               /\ UNCHANGED <<digest, run, main, committed>>
       ELSE Fails

-----------------------------------------------------------------------------
(* _publish_report: the id of a report binds its timestamps.               *)

ReportId == run

Directory == worker.view.reports[ReportId]

\* Mutant: the plot manifest is written with the report, before the plots.
ManifestSecond(i) == IF i = 2 THEN 4 ELSE IF i = 4 THEN 2 ELSE i

\* The member that is written after i - 1 others.
Nth(i) == i

\* The directory has a report already, and it is not this one.
Diverges == Directory["report.json"] \notin {0, run}

\* _atomic_write makes a temporary file and renames it over the member.
WriteReportMember ==
    /\ worker.pc = "writing" /\ worker.next <= Len(Members)
    /\ IF worker.next = 1 /\ ReportId \notin worker.view.tmp /\ Diverges
       THEN Fails
       ELSE /\ worker' =
                IF ReportId \in worker.view.tmp
                THEN [worker EXCEPT !.view.tmp = @ \ {ReportId}, !.next = @ + 1,
                                    !.view.reports[ReportId][Members[Nth(worker.next)]] = run]
                ELSE [worker EXCEPT !.view.tmp = @ \cup {ReportId}]
            /\ UNCHANGED <<digest, run, main, committed, published>>

IsWhole(directory, r) == \A member \in WholeReport : directory[member] = r

\* The report is loaded again and its companions compared; the files are the exact set.
CheckReport ==
    /\ worker.pc = "writing" /\ worker.next > Len(Members)
    /\ IF IsWhole(Directory, run) /\ ReportId \notin worker.view.tmp
       THEN /\ worker' = [worker EXCEPT !.pc = "committing"]
            /\ UNCHANGED <<digest, run, main, committed, published>>
       ELSE Fails

\* Mutant: the receipt is made before the volume is committed.
KeptBack(view) == committed

Commits(view) == view

CommitReport ==
    /\ worker.pc = "committing"
    /\ committed' = Commits(worker.view)
    /\ worker' = [worker EXCEPT !.pc = "answered"]
    /\ UNCHANGED <<digest, run, main, published>>

\* The receipt names the report, its status and the parents of the request.
Answer ==
    /\ worker.pc = "answered"
    /\ worker' = [worker EXCEPT !.pc = "none"]
    /\ main' = [main EXCEPT !.pc = "done", !.receipt = ReportId, !.status = published[run].status]
    /\ UNCHANGED <<digest, run, committed, published>>

\* The provider stops the container, or its deadline passes: the call fails without a
\* retry, and what the container wrote may have been committed in the background.
StopRun ==
    /\ worker.pc # "none"
    /\ \E kept \in {committed, worker.view} : committed' = kept
    /\ worker' = [worker EXCEPT !.pc = "none"]
    /\ main' = [main EXCEPT !.pc = "failed"]
    /\ UNCHANGED <<digest, run, published>>

ValidationNext ==
    \/ Assemble \/ StartStaging \/ StageRequest \/ CommitRequest
    \/ StartValidation \/ OpenParents
    \/ \E m \in Measurements, distinct \in BOOLEAN : Evaluate(m, distinct)
    \/ WriteReportMember \/ CheckReport \/ CommitReport \/ Answer \/ StopRun

ValidationSpec == ValidationInit /\ [][ValidationNext]_validationVars

-----------------------------------------------------------------------------
(* Properties.                                                             *)

\* A green report is earned: every measurement behind it is valid and on the right side
\* of its threshold; and a report that is not earned is published red, never green.
GreenIsEarned ==
    \A r \in 1..MaxRuns : published[r].status # "none" =>
        (published[r].status = "green" <=> Earned(published[r].measured))

\* A receipt stands for a report that every later reader finds whole on the volume, with
\* the status of its gates, of models that were trained on the reported dataset under the
\* same lock and source, and of baselines and solver runs that were computed again.
ReceiptsAreBacked ==
    main.pc = "done" =>
        /\ IsWhole(committed.reports[main.receipt], run)
        /\ main.status = Overall(published[run].gates)
        /\ published[run].request = main.request
        /\ \A f \in {"config.dataset", "config.models", "config.baselines", "bundle.dataset",
                     "bundle.source", "bundle.statistics", "bundle.experiment", "bundle.seed",
                     "dataset.baselines", "dataset.solver", "rows"} : digest[f] = 1
        /\ \A f, g \in {"index.lock", "checkout.lock", "build.lock", "bundle.lock"} : Same(f, g)

\* The plot manifest is the commit marker of a report: wherever a stop leaves a directory,
\* one that has its manifest has every other member, and all of the same report.
ManifestComesLast ==
    \A r \in 1..MaxRuns, v \in {committed, worker.view} :
        v.reports[r]["plots.json"] # 0 =>
            IsWhole(v.reports[r], v.reports[r]["plots.json"])
=============================================================================
