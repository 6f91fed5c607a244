--------------------------- MODULE TrainingSession ---------------------------
(***************************************************************************)
(* One seed's training session (training/loop.py, runtime.py) and what a   *)
(* checkpoint of it keeps (training/checkpoint.py).  Training takes a      *)
(* checkpoint to name the whole history that trained it; here a process is *)
(* killed anywhere, another one restores the checkpoint, and the state it  *)
(* goes on from is the one that an uninterrupted session would hold.       *)
(*                                                                         *)
(* Weights are the list of the updates that made them, and an update is    *)
(* what it was computed from: the batch, the rate, the optimizer's         *)
(* moments, the loss scale, the random numbers and the device.             *)
(***************************************************************************)
EXTENDS Integers, Sequences

CONSTANTS
    BatchCount,     \* batches of an epoch
    EpochCount,     \* TrainingConfig.epochs
    Devices,        \* names of devices of the requested class
    MaxProcesses,   \* bound: the processes that are started
    NoState         \* nothing: no session, no checkpoint, no loss scale

\* What one update was computed from, and the members of a checkpoint.
Updates ==
    [batch : Nat \X Nat, rate : Int, moments : Nat, scale : Nat \cup {NoState}, rng : Nat,
     device : Devices]
Checkpoints ==
    [completed : Nat, step : Nat, device : Devices, precision : {"bf16", "fp16"},
     model : [initial : Nat, weights : Seq(Updates)], optimizer : [moments : Nat, rate : Int],
     scheduler : [completed : Nat, next : Nat, rate : Int], scaler : Nat \cup {NoState}, rng : Nat]

\* An epoch has a batch, and nothing is told from every number and every checkpoint.
ASSUME SessionAssumption ==
    /\ BatchCount \in Nat \ {0} /\ EpochCount \in Nat /\ MaxProcesses \in Nat
    /\ NoState \notin Nat /\ NoState \notin Checkpoints

VARIABLES
    precision,      \* TrainingConfig.precision
    phase,          \* where the process is
    session,        \* the TrainingSession of the process, and its RNGs
    epochLog,       \* the records of epochs.jsonl
    saved,          \* the checkpoint that latest.json names
    processes       \* processes started so far

sessionVars == <<precision, phase, session, epochLog, saved, processes>>

-----------------------------------------------------------------------------
\* learning_rate_for_epoch in fortieths of the maximum: five epochs from a tenth of it to
\* all of it, then down to the floor; the cosine is abstracted to a line.
LearningRate(epoch) ==
    IF epoch <= 5 THEN 4 + 9 * (epoch - 1) ELSE 40 - (epoch - 5)

\* Every process starts with random numbers of its own, which configure_determinism
\* replaces before the model draws its weights.
Seeded(entropy) == 0

\* prepare_training_session: fp32 moments, the configured rate, a scaler for fp16 only.
Prepared(device, entropy) == [
    device |-> device, precision |-> precision, initial |-> Seeded(entropy), weights |-> <<>>,
    moments |-> 0, rate |-> 40, scale |-> IF precision = "fp16" THEN 0 ELSE NoState,
    rng |-> Seeded(entropy) + 1, step |-> 0, mode |-> "train"]

\* A forward pass draws random numbers in training mode only.
Forward(s) == [s EXCEPT !.rng = IF s.mode = "train" THEN @ + 1 ELSE @]

\* train_batch: forward, backward, clip, one optimizer step, one update of the scale.
Updated(s, batch) ==
    [Forward(s) EXCEPT
        !.weights = Append(@, [batch |-> batch, rate |-> s.rate, moments |-> s.moments,
                               scale |-> s.scale, rng |-> s.rng, device |-> s.device]),
        !.moments = @ + 1,
        !.scale = IF @ = NoState THEN NoState ELSE @ + 1,
        !.step = @ + 1]

\* Mutant: the model is evaluated in training mode.
ValidatedInTraining(s) == Forward(s)

\* _validation_metrics: evaluation mode, and back to the mode it found.
Validated(s) == [Forward([s EXCEPT !.mode = "eval"]) EXCEPT !.mode = s.mode]

-----------------------------------------------------------------------------
(* The checkpoint: its metadata and its members.                           *)

\* capture_training_checkpoint; the optimizer's state holds its rate.
Capture(s, epoch) == [
    completed |-> epoch, step |-> s.step, device |-> s.device, precision |-> s.precision,
    model |-> [initial |-> s.initial, weights |-> s.weights],
    optimizer |-> [moments |-> s.moments, rate |-> s.rate],
    scheduler |-> [completed |-> epoch, next |-> epoch + 1, rate |-> s.rate],
    scaler |-> s.scale, rng |-> s.rng]

\* ResumeIdentity, the scaler's contract, and one rate for optimizer and scheduler.
Restorable(checkpoint, s) ==
    /\ checkpoint.device = s.device /\ checkpoint.precision = s.precision
    /\ (checkpoint.scaler = NoState) <=> (s.scale = NoState)
    /\ checkpoint.optimizer.rate = checkpoint.scheduler.rate

\* Mutant: the random numbers go on from the seed.
RestoredReseeded(checkpoint, s) ==
    [s EXCEPT !.initial = checkpoint.model.initial, !.weights = checkpoint.model.weights,
              !.moments = checkpoint.optimizer.moments, !.rate = checkpoint.optimizer.rate,
              !.scale = checkpoint.scaler, !.step = checkpoint.step]

\* restore_training_checkpoint.
Restored(checkpoint, s) ==
    [s EXCEPT !.initial = checkpoint.model.initial, !.weights = checkpoint.model.weights,
              !.moments = checkpoint.optimizer.moments, !.rate = checkpoint.optimizer.rate,
              !.scale = checkpoint.scaler, !.rng = checkpoint.rng, !.step = checkpoint.step]

-----------------------------------------------------------------------------
(* The epoch log.                                                          *)

EpochRecord(epoch, s, batches) ==
    [epoch |-> epoch, batches |-> batches, step |-> s.step, rate |-> s.rate]

\* _validate_sequence: epochs from one without a gap, steps that add up.
SequenceIsValid(records) ==
    \A i \in DOMAIN records :
        /\ records[i].epoch = i
        /\ records[i].step = (IF i = 1 THEN 0 ELSE records[i - 1].step) + records[i].batches

\* The checks of run_training_epoch: the session continues the log.
Continues(s, epoch, records) ==
    /\ epoch = Len(records) + 1
    /\ s.step = IF records = <<>> THEN 0 ELSE records[Len(records)].step

-----------------------------------------------------------------------------
SessionInit ==
    /\ precision \in {"bf16", "fp16"}
    /\ phase = "down" /\ session = NoState /\ epochLog = <<>> /\ saved = NoState
    /\ processes = 0

NextEpoch == IF saved = NoState THEN 1 ELSE saved.scheduler.next
Completed == NextEpoch - 1

\* A worker starts on any device of the class, and resumes what it finds: the checkpoint
\* first, then one record that the checkpoint does not cover.
StartProcess(device) ==
    LET fresh == Prepared(device, processes + 1)
        resumable == IF saved = NoState THEN epochLog = <<>> ELSE Restorable(saved, fresh)
    IN  /\ phase = "down" /\ processes < MaxProcesses
        /\ processes' = processes + 1
        /\ session' = IF saved = NoState \/ ~resumable THEN fresh ELSE Restored(saved, fresh)
        /\ phase' = IF resumable /\ Len(epochLog) = Completed THEN "ready"
                    ELSE IF resumable /\ Len(epochLog) = Completed + 1 THEN "orphan" ELSE "refused"
        /\ UNCHANGED <<precision, epochLog, saved>>

\* rollback_uncheckpointed_tail.
RollbackTail ==
    /\ phase = "orphan"
    /\ epochLog' = SubSeq(epochLog, 1, Completed)
    /\ phase' = "ready"
    /\ UNCHANGED <<precision, session, saved, processes>>

BeginEpoch ==
    /\ phase = "ready" /\ NextEpoch <= EpochCount
    /\ IF Continues(session, NextEpoch, epochLog)
       THEN /\ phase' = "training"
            /\ session' = [session EXCEPT !.rate = LearningRate(NextEpoch), !.mode = "train"]
       ELSE phase' = "refused" /\ UNCHANGED session
    /\ UNCHANGED <<precision, epochLog, saved, processes>>

\* The batches of the epoch that are done.
Done == session.step - Completed * BatchCount

\* The order of batches is a function of the seed and the epoch, not of a generator.
TrainBatch ==
    /\ phase = "training" /\ Done < BatchCount
    /\ session' = Updated(session, <<NextEpoch - 1, Done>>)
    /\ UNCHANGED <<precision, phase, epochLog, saved, processes>>

\* The epoch's record is appended if the log stays valid, ...
AppendRecord ==
    LET records == Append(epochLog, EpochRecord(NextEpoch, session, BatchCount)) IN
    /\ phase = "training" /\ Done = BatchCount
    /\ IF SequenceIsValid(records) THEN epochLog' = records /\ phase' = "logged"
       ELSE UNCHANGED epochLog /\ phase' = "refused"
    /\ UNCHANGED <<precision, session, saved, processes>>

\* ... the state captured, the model evaluated, and the checkpoint published.
Checkpointed ==
    /\ phase = "logged"
    /\ saved' = Capture(session, NextEpoch)
    /\ session' = Validated(session)
    /\ phase' = "ready"
    /\ UNCHANGED <<precision, epochLog, processes>>

\* The process is gone; the record of an epoch without a checkpoint may have gone too.
Killed ==
    /\ phase # "down"
    /\ phase' = "down" /\ session' = NoState
    /\ epochLog' \in {epochLog, SubSeq(epochLog, 1, Completed)}
    /\ UNCHANGED <<precision, saved, processes>>

SessionNext ==
    \/ \E device \in Devices : StartProcess(device)
    \/ RollbackTail \/ BeginEpoch \/ TrainBatch \/ AppendRecord \/ Checkpointed \/ Killed

-----------------------------------------------------------------------------
(* What a resumed session promises.                                        *)

\* The session of one process that is never killed, after n batches.
Uninterrupted(device) ==
    LET after[n \in 0 .. EpochCount * BatchCount] ==
            IF n = 0 THEN Prepared(device, 1)
            ELSE LET epoch == (n - 1) \div BatchCount + 1 IN
                 Updated([after[n - 1] EXCEPT !.rate = LearningRate(epoch)],
                         <<epoch - 1, (n - 1) % BatchCount>>)
    IN  after

\* Wherever its processes were killed, a session that is ready for an epoch is the one that
\* was never interrupted, to the last random number; all of its updates are of one device,
\* and its log has the records of exactly these epochs.
ResumesAreExact ==
    phase = "ready" =>
        /\ session = Uninterrupted(session.device)[Completed * BatchCount]
        /\ epochLog = [i \in 1 .. Completed |->
              [epoch |-> i, batches |-> BatchCount, step |-> i * BatchCount, rate |-> LearningRate(i)]]

\* A process refuses what it finds only on another device, or at an epoch log that has no
\* checkpoint; never because its own checkpoint, session and log do not fit.
RefusalsAreOwed ==
    phase = "refused" =>
        \/ saved = NoState /\ epochLog # <<>>
        \/ saved # NoState /\ session.device # saved.device
=============================================================================
