------------------------------ MODULE Training ------------------------------
(***************************************************************************)
(* Remote training of the configured seeds (infra/training_pipeline.py,    *)
(* infra/train.py) over the checkpoint store (training/checkpoint.py) and  *)
(* the epoch log (training/metrics.py).                                    *)
(*                                                                         *)
(* One worker per seed runs execute_training_seed on its own mount of a    *)
(* shared volume.  Every file it writes is a step of its own: the epoch    *)
(* record, the checkpoint directory, the two pointers, the pruning, the    *)
(* validation metrics.  After the last epoch it publishes its completion,  *)
(* waits for the completions of all seeds, freezes the selection, exports  *)
(* its best checkpoint and publishes a receipt.  The command that started  *)
(* the workers fails when one of them fails, and is run again.             *)
(*                                                                         *)
(* What an epoch computes is abstracted to its validation score.  The      *)
(* trained state is then the sequence of the scores so far, its history:   *)
(* the content address of a checkpoint names exactly that history.         *)
(***************************************************************************)
EXTENDS Naturals, Sequences, FiniteSets, SequencesExt

CONSTANTS
    Seeds,            \* TrainingConfig.seeds
    Epochs,           \* TrainingConfig.epochs
    Scores,           \* the validation scores an epoch may reach
    EarlyDurability,  \* may a write outlive its worker without a commit?
    MaxFaults         \* bound: kills, preemptions and barrier timeouts

ASSUME TrainingAssumption ==
    /\ Seeds \subseteq Nat /\ IsFiniteSet(Seeds) /\ Seeds # {}
    /\ Epochs \in Nat \ {0} /\ Scores \subseteq Nat /\ Scores # {}
    /\ EarlyDurability \in BOOLEAN /\ MaxFaults \in Nat

VARIABLES
    durable,    \* the files of each seed's directory on the volume
    selection,  \* selection.json on the volume: no or one decision
    pc,         \* where each worker is
    mount,      \* each running worker's own view of its seed's directory
    seen,       \* each worker's view of selection.json
    session,    \* the history of the state in each worker's memory
    faults,     \* faults so far
    index       \* the TrainingRunIndex the command printed: none or one

vars == <<durable, selection, pc, mount, seen, session, faults, index>>

-----------------------------------------------------------------------------
(* Histories, scores and the choice among checkpoints.  An absent pointer  *)
(* and an absent model are the empty history.                              *)

Histories == UNION {[1..n -> Scores] : n \in 0..Epochs}

ScoreOf(history) == Last(history)

\* The order of selection: the score first, then the earlier epoch.
Better(h, g) ==
    \/ ScoreOf(h) < ScoreOf(g)
    \/ ScoreOf(h) = ScoreOf(g) /\ Len(h) < Len(g)

\* Mutant: an equal score of a later epoch moves the best pointer.
IsBestOnTies(history, metrics) ==
    \A i \in DOMAIN metrics : ScoreOf(history) <= ScoreOf(metrics[i])

\* The strict comparison against the minimum of the earlier metrics.
IsBest(history, metrics) ==
    \A i \in DOMAIN metrics : Better(history, metrics[i])

\* Mutant: a completion is checked against the last of the minimal scores.
BestOfLatest(metrics) ==
    CHOOSE h \in ToSet(metrics) : \A g \in ToSet(metrics) :
        \/ ScoreOf(h) < ScoreOf(g)
        \/ ScoreOf(h) = ScoreOf(g) /\ Len(h) >= Len(g)

BestOf(metrics) ==
    CHOOSE h \in ToSet(metrics) :
        \A g \in ToSet(metrics) \ {h} : Better(h, g)

\* Mutant: the higher of two equally good seeds is deployed.
DeployableOfHigher(selected) ==
    CHOOSE s \in Seeds : \A t \in Seeds :
        \/ ScoreOf(selected[s]) < ScoreOf(selected[t])
        \/ ScoreOf(selected[s]) = ScoreOf(selected[t]) /\ s >= t

DeployableOf(selected) ==
    CHOOSE s \in Seeds : \A t \in Seeds \ {s} :
        \/ ScoreOf(selected[s]) < ScoreOf(selected[t])
        \/ ScoreOf(selected[s]) = ScoreOf(selected[t]) /\ s < t

FreezeSelection(completions) ==
    LET selected == [s \in Seeds |-> BestOf(completions[s])]
    IN  [selected |-> selected, deployable |-> DeployableOf(selected)]

-----------------------------------------------------------------------------
(* The files of one seed.                                                  *)

NoFiles == [
    log        |-> <<>>,   \* epochs.jsonl: the score of each epoch's training
    checkpoints|-> {},     \* complete checkpoint directories, by history
    latest     |-> <<>>,   \* latest.json
    best       |-> <<>>,   \* best.json
    metrics    |-> <<>>,   \* validation-metrics.json: checkpoints in order
    recovered  |-> {},     \* recovery/orphaned-epoch-*.json
    completion |-> <<>>,   \* completion.json: the metrics it froze
    model      |-> <<>>,   \* models/<model-id>: the history it exports
    receipt    |-> {}]     \* receipt.json

\* Whether a restarted worker finds one logged epoch with no checkpoint.
HasOrphan(files) ==
    /\ files.latest # <<>>
    /\ Len(files.log) = Len(files.latest) + 1
    /\ Len(files.metrics) = Len(files.latest)

\* The sizes execute_training_seed compares before it trains.
SizesAgree(files) ==
    Len(files.log) = Len(files.latest) /\ Len(files.metrics) = Len(files.latest)

Resumable(files) ==
    /\ SizesAgree(files) \/ HasOrphan(files)
    /\ files.latest \in files.checkpoints \cup {<<>>}

-----------------------------------------------------------------------------
Resting == {"failed", "refused", "done"}

Init ==
    /\ durable = [s \in Seeds |-> NoFiles] /\ selection = {}
    /\ pc = [s \in Seeds |-> "start"] /\ mount = [s \in Seeds |-> NoFiles]
    /\ seen = [s \in Seeds |-> {}] /\ session = [s \in Seeds |-> <<>>]
    /\ faults = 0 /\ index = {}

GoTo(s, where) == pc' = [pc EXCEPT ![s] = where]

\* The container is gone: its mount and its memory with it.
Leave(s, where) ==
    /\ GoTo(s, where)
    /\ mount' = [mount EXCEPT ![s] = NoFiles]
    /\ seen' = [seen EXCEPT ![s] = {}]
    /\ session' = [session EXCEPT ![s] = <<>>]

Write(s, files) == mount' = [mount EXCEPT ![s] = files]

\* What a commit of s makes durable: the files it wrote.
Persist(s) ==
    /\ durable' = [durable EXCEPT ![s] = mount[s]]
    /\ selection' = IF seen[s] = {} THEN selection ELSE seen[s]

Unpersisted == UNCHANGED <<durable, selection>>
Outside == UNCHANGED <<faults, index>>

-----------------------------------------------------------------------------
(* Start and resume.                                                       *)

\* A committed receipt is verified against its model and returned.
ReceiptOpens(s) ==
    \A r \in durable[s].receipt : r.checkpoint = durable[s].model

ReturnReceipt(s) ==
    /\ pc[s] = "start" /\ durable[s].receipt # {} /\ ReceiptOpens(s)
    /\ Leave(s, "done")
    /\ Unpersisted /\ Outside

\* Reload, restore the latest checkpoint, and compare the evidence.
Resume(s) ==
    LET files == durable[s] IN
    /\ pc[s] = "start" /\ files.receipt = {} /\ Resumable(files)
    /\ Write(s, files)
    /\ session' = [session EXCEPT ![s] = files.latest]
    /\ GoTo(s, IF HasOrphan(files) THEN "preserve" ELSE "train")
    /\ Unpersisted /\ Outside /\ UNCHANGED seen

\* Mutant: the copy is filed under the epoch of the checkpoint.
OrphanOfCheckpoint(log) == [epoch |-> Len(log) - 1, score |-> Last(log)]

Orphan(log) == [epoch |-> Len(log), score |-> Last(log)]

\* The orphaned record is saved under its epoch and digest, ...
Preserve(s) ==
    /\ pc[s] = "preserve"
    /\ Write(s, [mount[s] EXCEPT !.recovered = @ \cup {Orphan(mount[s].log)}])
    /\ GoTo(s, "rollback")
    /\ Unpersisted /\ Outside /\ UNCHANGED <<seen, session>>

\* ... removed from the log by an atomic replacement, ...
Rollback(s) ==
    /\ pc[s] = "rollback"
    /\ Write(s, [mount[s] EXCEPT !.log = Front(@)])
    /\ GoTo(s, "recommit")
    /\ Unpersisted /\ Outside /\ UNCHANGED <<seen, session>>

\* ... and the repaired log committed before training goes on.
Recommit(s) ==
    /\ pc[s] = "recommit"
    /\ Persist(s) /\ GoTo(s, "train")
    /\ Outside /\ UNCHANGED <<mount, seen, session>>

-----------------------------------------------------------------------------
(* One epoch: log, checkpoint, pointers, pruning, metrics, commit.         *)

\* Mutant: the loop runs one epoch too many.
MoreEpochsAndOne(s) == Len(session[s]) <= Epochs

MoreEpochs(s) == Len(session[s]) < Epochs

Train(s) ==
    /\ pc[s] = "train" /\ MoreEpochs(s)
    /\ Len(mount[s].log) = Len(session[s])
    /\ \E score \in Scores :
         /\ session' = [session EXCEPT ![s] = Append(@, score)]
         /\ Write(s, [mount[s] EXCEPT !.log = Append(@, score)])
    /\ GoTo(s, "publish")
    /\ Unpersisted /\ Outside /\ UNCHANGED seen

\* One file operation of the epoch and the step that follows it.
FileStep(s, at, files, then) ==
    /\ pc[s] = at /\ Write(s, files) /\ GoTo(s, then)
    /\ Unpersisted /\ Outside /\ UNCHANGED <<seen, session>>

PublishCheckpoint(s) ==
    FileStep(s, "publish",
             [mount[s] EXCEPT !.checkpoints = @ \cup {session[s]}], "latest")

WriteLatest(s) ==
    FileStep(s, "latest", [mount[s] EXCEPT !.latest = session[s]], "best")

WriteBest(s) ==
    FileStep(s, "best",
             IF IsBest(session[s], mount[s].metrics)
             THEN [mount[s] EXCEPT !.best = session[s]] ELSE mount[s], "prune")

\* Mutant: the best checkpoint is pruned like any other.
RetainedLatest(files) == {files.latest}

\* What both pointers name is kept, and nothing else.
Retained(files) == {files.latest, files.best}

Prune(s) ==
    FileStep(s, "prune", [mount[s] EXCEPT !.checkpoints = @ \cap Retained(mount[s])],
             "metrics")

WriteMetrics(s) ==
    FileStep(s, "metrics", [mount[s] EXCEPT !.metrics = Append(@, session[s])], "commit")

CommitEpoch(s) ==
    /\ pc[s] = "commit"
    /\ Persist(s) /\ GoTo(s, "train")
    /\ Outside /\ UNCHANGED <<mount, seen, session>>

-----------------------------------------------------------------------------
(* Completion, the barrier, and the selection all seeds agree on.          *)

\* SeedCompletion.create validates the evidence; an earlier completion must
\* be the same one.
SoundEvidence(files) ==
    /\ Len(files.log) = Epochs /\ Len(files.metrics) = Epochs
    /\ files.best \in files.checkpoints
    /\ files.best = BestOf(files.metrics)
    /\ files.completion \in {<<>>, files.metrics}

Complete(s) ==
    /\ pc[s] = "train" /\ ~MoreEpochs(s) /\ SoundEvidence(mount[s])
    /\ Write(s, [mount[s] EXCEPT !.completion = mount[s].metrics])
    /\ GoTo(s, "settle")
    /\ Unpersisted /\ Outside /\ UNCHANGED <<seen, session>>

Settle(s) ==
    /\ pc[s] = "settle"
    /\ Persist(s) /\ GoTo(s, "await")
    /\ Outside /\ UNCHANGED <<mount, seen, session>>

AllComplete == \A s \in Seeds : durable[s].completion # <<>>

\* Every poll reloads the volume; only the one that sees all completions
\* matters.  It also fixes the worker's view of selection.json.
Await(s) ==
    /\ pc[s] = "await" /\ AllComplete
    /\ seen' = [seen EXCEPT ![s] = selection]
    /\ GoTo(s, "select")
    /\ Unpersisted /\ Outside /\ UNCHANGED <<mount, session>>

\* A selection already there must be the one this worker computes.
Frozen == FreezeSelection([t \in Seeds |-> durable[t].completion])

Select(s) ==
    /\ pc[s] = "select" /\ seen[s] \subseteq {Frozen}
    /\ seen' = [seen EXCEPT ![s] = {Frozen}]
    /\ GoTo(s, "export")
    /\ Unpersisted /\ Outside /\ UNCHANGED <<mount, session>>

\* Only a checkpoint the selection names crosses into a model bundle.
Exportable(s) ==
    /\ mount[s].best \in mount[s].checkpoints
    /\ \A f \in seen[s] : f.selected[s] = mount[s].best

Export(s) ==
    /\ pc[s] = "export" /\ Exportable(s)
    /\ Write(s, [mount[s] EXCEPT !.model = mount[s].best])
    /\ GoTo(s, "deliver")
    /\ Unpersisted /\ Outside /\ UNCHANGED <<seen, session>>

Deliver(s) ==
    /\ pc[s] = "deliver"
    /\ Persist(s) /\ GoTo(s, "receipt")
    /\ Outside /\ UNCHANGED <<mount, seen, session>>

\* The receipt holds the time it was made: two attempts make two receipts.
WriteReceipt(s) ==
    /\ pc[s] = "receipt"
    /\ \E f \in seen[s] :
         Write(s, [mount[s] EXCEPT !.receipt =
                     {[checkpoint |-> mount[s].best, selection |-> f, at |-> faults]}])
    /\ GoTo(s, "finish")
    /\ Unpersisted /\ Outside /\ UNCHANGED <<seen, session>>

Finish(s) ==
    /\ pc[s] = "finish"
    /\ Persist(s) /\ Leave(s, "done")
    /\ Outside

\* The integrity errors: evidence that differs stops the worker, whose next
\* run meets the same files.
Refuses(s) ==
    CASE pc[s] = "start"  -> IF durable[s].receipt = {}
                             THEN ~Resumable(durable[s]) ELSE ~ReceiptOpens(s)
      [] pc[s] = "train"  -> IF MoreEpochs(s)
                             THEN Len(mount[s].log) # Len(session[s])
                             ELSE ~SoundEvidence(mount[s])
      [] pc[s] = "select" -> ~(seen[s] \subseteq {Frozen})
      [] pc[s] = "export" -> ~Exportable(s)
      [] OTHER -> FALSE

Refuse(s) ==
    /\ Refuses(s) /\ Leave(s, "refused")
    /\ Unpersisted /\ Outside

WorkerStep(s) ==
    \/ ReturnReceipt(s) \/ Resume(s) \/ Preserve(s) \/ Rollback(s) \/ Recommit(s)
    \/ Train(s) \/ PublishCheckpoint(s) \/ WriteLatest(s) \/ WriteBest(s)
    \/ Prune(s) \/ WriteMetrics(s) \/ CommitEpoch(s)
    \/ Complete(s) \/ Settle(s) \/ Await(s) \/ Select(s) \/ Export(s)
    \/ Deliver(s) \/ WriteReceipt(s) \/ Finish(s) \/ Refuse(s)

-----------------------------------------------------------------------------
(* Faults, the volume behind a worker's back, and the command.             *)

\* A kill, a preemption, an error or the provider's timeout: no retries.
Kill(s) ==
    /\ pc[s] \notin Resting /\ faults < MaxFaults
    /\ faults' = faults + 1 /\ Leave(s, "failed")
    /\ Unpersisted /\ UNCHANGED index

\* The barrier's deadline, on a poll that did not see every completion.
BarrierTimeout(s) ==
    /\ pc[s] = "await" /\ ~AllComplete /\ faults < MaxFaults
    /\ faults' = faults + 1 /\ Leave(s, "failed")
    /\ Unpersisted /\ UNCHANGED index

\* External: what a worker wrote becomes durable before it commits, as on a
\* plain directory, or by a background commit of the volume.
Flush(s) ==
    /\ EarlyDurability /\ pc[s] \notin Resting \cup {"start"}
    /\ Persist(s)
    /\ UNCHANGED <<pc, mount, seen, session>> /\ Outside

\* One worker's exception ends the command, whose workers stop with it; the
\* identical command is then run again.
Rerun ==
    /\ \E s \in Seeds : pc[s] \in {"failed", "refused"}
    /\ pc' = [s \in Seeds |-> "start"]
    /\ mount' = [s \in Seeds |-> NoFiles] /\ seen' = [s \in Seeds |-> {}]
    /\ session' = [s \in Seeds |-> <<>>]
    /\ Unpersisted /\ Outside

\* The index is built from coherent receipts only.
BuildIndex ==
    LET receipts == UNION {durable[s].receipt : s \in Seeds}
        decisions == {r.selection : r \in receipts}
    IN  /\ \A s \in Seeds : pc[s] = "done"
        /\ index = {} /\ Cardinality(decisions) = 1
        /\ \A f \in decisions : f.deployable = DeployableOf(f.selected)
        /\ index' = decisions
        /\ Unpersisted /\ UNCHANGED <<pc, mount, seen, session, faults>>

Next ==
    \/ \E s \in Seeds : WorkerStep(s) \/ Kill(s) \/ BarrierTimeout(s) \/ Flush(s)
    \/ Rerun
    \/ BuildIndex

Spec == Init /\ [][Next]_vars

\* A running worker goes on, and a failed command is run again.
FairSpec ==
    /\ Spec
    /\ \A s \in Seeds : WF_vars(WorkerStep(s))
    /\ WF_vars(Rerun) /\ WF_vars(BuildIndex)

-----------------------------------------------------------------------------
Files == [
    log: Histories, checkpoints: SUBSET Histories, latest: Histories,
    best: Histories, metrics: UNION {[1..n -> Histories] : n \in 0..Epochs},
    recovered: SUBSET [epoch: 1..Epochs, score: Scores],
    completion: UNION {[1..n -> Histories] : n \in {0, Epochs}},
    model: Histories,
    receipt: SUBSET [checkpoint: Histories, at: 0..MaxFaults,
                     selection: [selected: [Seeds -> Histories], deployable: Seeds]]]

\* The shape of the files and of the workers; at most one selection, one
\* receipt per seed and one index.
TypeOK ==
    /\ \A s \in Seeds : /\ \A files \in {durable[s], mount[s]} :
                             /\ files \in Files /\ Cardinality(files.receipt) <= 1
                        /\ session[s] \in Histories
                        /\ Cardinality(seen[s]) <= 1
    /\ Cardinality(selection) <= 1 /\ index \subseteq selection
    /\ faults \in 0..MaxFaults

\* A pointer that survives a crash names a complete checkpoint: directories
\* are published before the pointers to them move, and pruned after.
PointersResolve ==
    \A s \in Seeds : \A files \in {durable[s], mount[s]} :
        {files.latest, files.best} \subseteq files.checkpoints \cup {<<>>}

\* docs/operations/training.md:24-26: a commit of an epoch happens only when
\* the epoch record, the scores, the latest checkpoint and the best pointer
\* agree.  All of them then tell one history, whatever was killed, rolled
\* back and trained again before.
CommitsAgree ==
    \A s \in Seeds : pc[s] = "commit" =>
        LET files == mount[s] IN
        /\ files.latest = session[s] /\ files.log = session[s]
        /\ files.metrics = [n \in 1..Len(session[s]) |-> SubSeq(session[s], 1, n)]
        /\ files.best = BestOf(files.metrics)

\* What is committed can be opened and tells one history.
CommitsResolve == PointersResolve /\ CommitsAgree

\* No epoch record that was durable disappears unless its copy is durable.
RecordsAreKept ==
    [][\A s \in Seeds : \A n \in DOMAIN durable[s].log :
         \/ n \in DOMAIN durable'[s].log /\ durable'[s].log[n] = durable[s].log[n]
         \/ [epoch |-> n, score |-> durable[s].log[n]] \in durable'[s].recovered]_vars

\* The frozen selection names, of all checkpoints every seed ever scored in
\* its completion, the best one: least score, then the lower seed.
DeployableIsBest ==
    \A f \in selection : \A s \in Seeds :
        /\ durable[s].completion # <<>>
        /\ \A i \in DOMAIN durable[s].completion :
             LET h == durable[s].completion[i]
                 d == f.selected[f.deployable]
             IN  \/ ScoreOf(d) < ScoreOf(h)
                 \/ ScoreOf(d) = ScoreOf(h) /\ f.deployable <= s

\* The durable states no rerun gets past: the latest pointer is ahead of the
\* metrics, or the first epoch is logged and nothing points at a checkpoint.
Torn(s) ==
    LET files == durable[s]
    IN  /\ files.receipt = {}
        /\ ~SizesAgree(files) /\ ~HasOrphan(files)

\* However often workers are killed or time out, running the command again
\* ends with an index, unless a write outlived its worker at the wrong place.
TrainingEnds == <>(index # {} \/ \E s \in Seeds : Torn(s))

\* docs/operations/training.md:60-61: "Rerunning the identical command
\* verifies and resumes the same experiment."  No worker refuses to resume.
RerunResumes == \A s \in Seeds : pc[s] # "refused"
=============================================================================
