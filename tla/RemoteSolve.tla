----------------------------- MODULE RemoteSolve ----------------------------
(***************************************************************************)
(* The remote solve of the service: the executor of service/remote.py and  *)
(* its mounted-volume backend, infra/service_execution.py, driven by the   *)
(* job manager (SolveJobs), and the worker of infra/solve_execution.py in  *)
(* its container.                                                          *)
(*                                                                         *)
(* Every job derives a request of its own: the operation digest covers the *)
(* job id, so its case record is private to it, and its run, whose name    *)
(* covers the provenance, is called by its job's number.  The container    *)
(* sees what the volume holds; the service sees what it held at the last   *)
(* reload.  The provider is external: it starts, restarts, loses and stops *)
(* containers when it likes, and a request to stop one may come to nothing.*)
(***************************************************************************)
EXTENDS Integers, Sequences, FiniteSets

CONSTANTS
    MaxJobs, Keys, Digests, Readers, Concurrency, QueueCapacity, MaxRetained,
    Timeout, Retention, MaxProgress, MaxTime, None,   \* of SolveJobs
    CancelTicks,    \* bound: the ticks a request to stop a container takes to answer
    MaxRestarts     \* bound: the containers the provider starts again

ASSUME RemoteAssumption == CancelTicks \in Nat /\ MaxRestarts \in Nat
ASSUME ManagerAssumption ==      \* what SolveJobs assumes of its constants
    /\ Concurrency \in Nat \ {0} /\ QueueCapacity \in Nat
    /\ MaxRetained \in Nat /\ MaxRetained >= Concurrency + QueueCapacity
    /\ Timeout \in Nat \ {0} /\ Retention \in Nat \ {0} /\ MaxTime \in Nat
    /\ MaxJobs \in Nat /\ MaxProgress \in Nat
    /\ None \notin Keys /\ None \notin Digests

VARIABLES
    jobs, binding, task, queue, reader, closed, now,  \* of SolveJobs
    exec,       \* where each job's executor stands
    handles,    \* jobs whose function call the service holds
    asked,      \* jobs whose function call the service has asked to stop
    abandoned,  \* observer: jobs whose wait failed while their container was alive
    call,       \* where each job's function call stands with the provider
    record,     \* the committed state of the job's private case record
    volume,     \* the committed runs
    view,       \* the runs the service's mount shows
    restarts    \* containers started again so far

Manager == INSTANCE SolveJobs

managerVars == <<jobs, binding, task, queue, reader, closed, now>>
serviceVars == <<exec, handles, asked, abandoned, view>>
workerVars == <<call, record, volume, restarts>>
vars == <<managerVars, serviceVars, workerVars>>

Jobs == 1..MaxJobs

Stages == {"idle", "predicting", "spawning", "waiting", "reloading", "opening",
           "comparing", "responding", "cancelling", "over"}
Alive(j) == call[j] \in {"queued", "solving", "published", "committed"}

RemoteTypeOK ==
    /\ Manager!TypeOK
    /\ exec \in [Jobs -> Stages]
    /\ handles \subseteq Jobs /\ asked \subseteq handles /\ abandoned \subseteq handles
    /\ call \in [Jobs -> {"none", "queued", "solving", "published", "committed",
                          "returned", "raised", "stopped"}]
    /\ record \in [Jobs -> {"absent", "running", "succeeded", "failed"}]
    /\ view \subseteq volume /\ volume \subseteq Jobs
    /\ restarts \in 0..MaxRestarts

Init ==
    /\ Manager!Init
    /\ exec = [j \in Jobs |-> "idle"]
    /\ handles = {} /\ asked = {} /\ abandoned = {} /\ volume = {} /\ view = {} /\ restarts = 0
    /\ call = [j \in Jobs |-> "none"]
    /\ record = [j \in Jobs |-> "absent"]

-----------------------------------------------------------------------------
(* RemoteSolveExecutor.execute and MountedVolumeRemoteSolveBackend.solve.   *)

Executing(j) == task[j].pc = "executing"

To(j, stage) == exec' = [exec EXCEPT ![j] = stage]

\* The identity of the request is checked, and the prediction asked for.
Begin(j) ==
    /\ Executing(j) /\ exec[j] = "idle"
    /\ Manager!Progress(j) /\ To(j, "predicting")
    /\ UNCHANGED <<handles, asked, abandoned, view, workerVars>>

\* A prediction with the identities of this job and of this service.
Predicted(j) ==
    /\ Executing(j) /\ exec[j] = "predicting"
    /\ Manager!Progress(j) /\ To(j, "spawning")
    /\ UNCHANGED <<handles, asked, abandoned, view, workerVars>>

\* The provider's answer to the submission: the service holds the call.
Spawned(j) ==
    /\ Executing(j) /\ exec[j] = "spawning" /\ call[j] # "none"
    /\ To(j, "waiting") /\ handles' = handles \cup {j}
    /\ UNCHANGED <<managerVars, asked, abandoned, view, workerVars>>

Answered(j) ==
    /\ Executing(j) /\ exec[j] = "waiting" /\ call[j] = "returned"
    /\ To(j, "reloading")
    /\ UNCHANGED <<managerVars, handles, asked, abandoned, view, workerVars>>

\* Mutant: the mount is used as it is.
Kept == view

Reloaded == volume

Reload(j) ==
    /\ Executing(j) /\ exec[j] = "reloading"
    /\ view' = Reloaded /\ To(j, "opening")
    /\ UNCHANGED <<managerVars, handles, asked, abandoned, workerVars>>

\* open_run and _verify_run: the run of this job's request, and no other.
Opens(j) ==
    /\ Executing(j) /\ exec[j] = "opening" /\ j \in view
    /\ To(j, "comparing")
    /\ UNCHANGED <<managerVars, handles, asked, abandoned, view, workerVars>>

Compared(j) ==
    /\ Executing(j) /\ exec[j] = "comparing"
    /\ Manager!Progress(j) /\ To(j, "responding")
    /\ UNCHANGED <<handles, asked, abandoned, view, workerVars>>

Responds(j) ==
    /\ Executing(j) /\ exec[j] = "responding"
    /\ Manager!Returns(j) /\ To(j, "over")
    /\ UNCHANGED <<handles, asked, abandoned, view, workerVars>>

\* A prediction of another identity, a submission or a reload that fails, a run that does
\* not open or is another's, an invalid metric.
Refuses(j) ==
    /\ Executing(j)
    /\ \/ exec[j] \in {"predicting", "spawning", "reloading", "comparing"}
       \/ exec[j] = "opening" /\ j \notin view
    /\ Manager!Breaks(j) /\ To(j, "over")
    /\ UNCHANGED <<handles, asked, abandoned, view, workerVars>>

\* The wait for the call fails: the call raised or was stopped, or the provider or the way
\* to it failed while the container goes on.  Nobody asks it to stop.
WaitFails(j) ==
    /\ Executing(j) /\ exec[j] = "waiting"
    /\ Manager!Breaks(j) /\ To(j, "over")
    /\ abandoned' = IF Alive(j) THEN abandoned \cup {j} ELSE abandoned
    /\ UNCHANGED <<handles, asked, view, workerVars>>

\* Mutant: the deadline leaves the call as it is.
NothingToStop(j) == FALSE

\* Mutant: the stop is asked for before the call is known.
HoldsCallEarly(j) == exec[j] \in {"spawning", "waiting"}

HoldsCall(j) == exec[j] = "waiting"

\* The deadline of a job that waits for its call: the provider is asked to stop the
\* container, and the task keeps its slot until the provider has answered.
AsksToStop(j) ==
    /\ Executing(j) /\ now = task[j].deadline /\ HoldsCall(j)
    /\ To(j, "cancelling") /\ asked' = asked \cup {j}
    /\ UNCHANGED <<managerVars, handles, abandoned, view, workerVars>>

\* The answer, or the error, to that request: the cancellation goes on.
StopAnswered(j) ==
    /\ Executing(j) /\ exec[j] = "cancelling"
    /\ Manager!Breaks(j) /\ To(j, "over")
    /\ UNCHANGED <<handles, asked, abandoned, view, workerVars>>

\* The deadline of a job that is anywhere else: what it waits for is dropped, a
\* submission without an answer included.
TimesOut(j) ==
    /\ Executing(j) /\ exec[j] # "cancelling" /\ ~HoldsCall(j)
    /\ Manager!TimesOut(j) /\ To(j, "over")
    /\ UNCHANGED <<handles, asked, abandoned, view, workerVars>>

\* Shutdown cancels the tasks: the calls they wait for are asked to stop.
Close ==
    /\ Manager!Close
    /\ exec' = [j \in Jobs |-> IF exec[j] = "idle" THEN exec[j] ELSE "over"]
    /\ asked' = asked \cup {j \in Jobs : HoldsCall(j)}
    /\ UNCHANGED <<handles, abandoned, view, workerVars>>

-----------------------------------------------------------------------------
(* execute_solve_request, in the container, and the provider around it.     *)

Moves(j, from, to) == call[j] = from /\ call' = [call EXCEPT ![j] = to]

Submitted(j) ==
    /\ exec[j] = "spawning" /\ Moves(j, "none", "queued")
    /\ UNCHANGED <<managerVars, serviceVars, record, volume, restarts>>

\* claim_case and its commit.  Only a fresh record is claimed.
Claim(j) ==
    /\ Moves(j, "queued", "solving") /\ record[j] = "absent"
    /\ record' = [record EXCEPT ![j] = "running"]
    /\ UNCHANGED <<managerVars, serviceVars, volume, restarts>>

\* The container starts again: a record that succeeded answers with its verified run, and
\* any other is not claimable.
Replay(j) ==
    /\ record[j] # "absent"
    /\ IF record[j] = "succeeded" /\ j \in volume
       THEN Moves(j, "queued", "returned")
       ELSE Moves(j, "queued", "raised")
    /\ UNCHANGED <<managerVars, serviceVars, record, volume, restarts>>

\* publish_run: the run is on the container's mount.
Publish(j) ==
    /\ Moves(j, "solving", "published")
    /\ UNCHANGED <<managerVars, serviceVars, record, volume, restarts>>

\* Mutant: the run is not committed before its record succeeds.
Uncommitted(j) == volume

Committed(j) == volume \cup {j}

CommitRun(j) ==
    /\ Moves(j, "published", "committed")
    /\ volume' = Committed(j)
    /\ UNCHANGED <<managerVars, serviceVars, record, restarts>>

\* succeed_case and its commit; the reference is on its way back.
Succeed(j) ==
    /\ Moves(j, "committed", "returned")
    /\ record' = [record EXCEPT ![j] = "succeeded"]
    /\ UNCHANGED <<managerVars, serviceVars, volume, restarts>>

\* The image is another build, before any record is touched.
RefusesBuild(j) ==
    /\ Moves(j, "queued", "raised")
    /\ UNCHANGED <<managerVars, serviceVars, record, volume, restarts>>

\* _fail_owned_attempt: the solver, the publication or the success of the record fails.
FailAttempt(j) ==
    /\ \E from \in {"solving", "committed"} : Moves(j, from, "raised")
    /\ record' = [record EXCEPT ![j] = "failed"]
    /\ UNCHANGED <<managerVars, serviceVars, volume, restarts>>

\* The provider loses the container, what it has not committed with it.
Restart(j) ==
    /\ Alive(j) /\ call[j] # "queued" /\ restarts < MaxRestarts
    /\ restarts' = restarts + 1
    /\ call' = [call EXCEPT ![j] = "queued"]
    /\ UNCHANGED <<managerVars, serviceVars, record, volume>>

\* It is restarted after the record succeeded and before the reference got back.
RestartLate(j) ==
    /\ call[j] = "returned" /\ exec[j] \in {"spawning", "waiting"} /\ restarts < MaxRestarts
    /\ restarts' = restarts + 1
    /\ call' = [call EXCEPT ![j] = "queued"]
    /\ UNCHANGED <<managerVars, serviceVars, record, volume>>

Stops(j) ==
    /\ Alive(j) /\ j \in asked
    /\ call' = [call EXCEPT ![j] = "stopped"]
    /\ UNCHANGED <<managerVars, serviceVars, record, volume, restarts>>

Worker(j) ==
    \/ Submitted(j) \/ Claim(j) \/ Replay(j) \/ Publish(j) \/ CommitRun(j) \/ Succeed(j)
    \/ RefusesBuild(j) \/ FailAttempt(j) \/ Restart(j) \/ RestartLate(j) \/ Stops(j)

-----------------------------------------------------------------------------
(* The whole.                                                              *)

\* What the manager does of its own accord.
ManagerStep ==
    /\ \/ Manager!SubmitAnswered
       \/ \E key \in Keys \cup {None}, d \in Digests : Manager!SubmitCreates(key, d)
       \/ \E j \in Jobs : Manager!ExpiresOnLook(j)
    /\ UNCHANGED <<serviceVars, workerVars>>

TaskStep(j) ==
    /\ Manager!Start(j) \/ Manager!Complete(j) \/ Manager!Fail(j)
    /\ UNCHANGED <<serviceVars, workerVars>>

ExecutorStep(j) ==
    \/ Begin(j) \/ Predicted(j) \/ Spawned(j) \/ Answered(j) \/ Reload(j) \/ Opens(j)
    \/ Compared(j) \/ Responds(j) \/ Refuses(j) \/ WaitFails(j)

\* Batches of jobs that one accepted job may wait for, its own included.
Batches == (Concurrency + QueueCapacity - 1) \div Concurrency + 1

\* Deadlines are met, and a request to stop a container is answered in CancelTicks.
Idle ==
    /\ \A j \in Jobs : task[j].pc \notin {"completing", "failing"}
    /\ \A j \in Jobs : Executing(j) =>
        now < task[j].deadline + (IF exec[j] = "cancelling" THEN CancelTicks ELSE 0)
    /\ queue # <<>> => ~Manager!FreeSlot

Tick ==
    /\ now < MaxTime + Batches * CancelTicks
    /\ Idle
    /\ now' = now + 1
    /\ UNCHANGED <<jobs, binding, task, queue, reader, closed, serviceVars, workerVars>>

Next ==
    \/ ManagerStep \/ Close \/ Tick
    \/ \E j \in Jobs : TaskStep(j) \/ ExecutorStep(j) \/ AsksToStop(j) \/ StopAnswered(j)
                       \/ TimesOut(j) \/ Worker(j)

Spec == Init /\ [][Next]_vars

\* The event loop runs what is ready and the provider answers a request to stop; nothing
\* is assumed of predictions, of containers or of the provider's other answers.
FairSpec ==
    /\ Spec /\ WF_vars(Tick)
    /\ \A j \in Jobs : WF_vars(TaskStep(j)) /\ WF_vars(AsksToStop(j) \/ TimesOut(j))
                       /\ WF_vars(StopAnswered(j))

-----------------------------------------------------------------------------
(* Properties.                                                             *)

\* A reference that got back opens: its run was committed before its record succeeded,
\* the service's mount has been reloaded since, and a restart changed neither.  A job
\* that succeeded has its run and its record in the volume.
ReturnedRunsOpen ==
    \A j \in Jobs :
        /\ exec[j] = "opening" => j \in view
        /\ jobs[j].state = "succeeded" => j \in view /\ record[j] = "succeeded"

\* A deadline and a shutdown leave no container that nobody has asked to stop: once a job
\* is over, a call it held is dead, or asked to stop, or its wait failed before either and
\* the job did not succeed.  (A call whose submission was never answered is not held, and
\* nobody asks; nor does anybody when the wait fails while the container is alive.)
WorkersAreCancelled ==
    /\ \A j \in handles : exec[j] = "over" /\ Alive(j) => j \in asked \cup abandoned
    /\ \A j \in abandoned : j \notin asked /\ jobs[j].state # "succeeded"

\* expires_at holds although a task keeps its slot while the provider is asked to stop
\* its container: a job is late by one such request for each batch at most.
PromiseIsKept ==
    \A j \in Jobs :
        ~closed /\ jobs[j].state \in {"queued", "running", "succeeded", "failed"} =>
            LET late == jobs[j].expires_at + Batches * CancelTicks IN
            /\ Manager!Ended(j) => jobs[j].terminal_at + Retention <= late
            /\ now >= late => Manager!Ended(j)

\* An accepted job ends though predictions and containers hang, unless the manager is
\* closed first.
EveryJobEnds ==
    \A j \in Jobs :
        jobs[j].state = "queued" ~> closed \/ jobs[j].state \notin {"queued", "running"}
=============================================================================
