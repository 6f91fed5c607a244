-------------------------- MODULE RemoteSolveProofs --------------------------
(***************************************************************************)
(* Proofs about RemoteSolve for every number of jobs and restarts.  The    *)
(* manager's invariant is taken over from SolveJobsProofs: every step of   *)
(* the remote solve is a step of the manager, leaves it alone, or moves    *)
(* its clock.  What is added says how far a job's executor can be, given   *)
(* where its function call, its record and its run are.  The promise of    *)
(* expires_at is taken over too, with the time a slot is held past its     *)
(* deadline while the provider is asked to stop the container.             *)
(***************************************************************************)
EXTENDS RemoteSolve, TLAPS

Proofs == INSTANCE SolveJobsProofs

Reading == {"reloading", "opening", "comparing", "responding"}

\* The worker's record and run follow its call: a call that came back has a record that
\* succeeded, and that record has its run.
CallsKeepRecords ==
    \A j \in Jobs :
        /\ call[j] \in {"solving", "published", "committed"} => record[j] = "running"
        /\ call[j] = "committed" \/ record[j] = "succeeded" => j \in volume
        /\ call[j] = "returned" => record[j] = "succeeded"

\* An executor that reads has its answer, and its run once the mount is reloaded; a job
\* that completes has kept both.
ReadersHoldRuns ==
    \A j \in Jobs :
        /\ exec[j] \in Reading => call[j] = "returned"
        /\ exec[j] \in Reading \ {"reloading"} => j \in view
        /\ task[j].pc = "completing" \/ jobs[j].state = "succeeded" =>
            j \in view /\ record[j] = "succeeded"

\* The service holds a call from its submission's answer on.
ServiceHoldsCalls ==
    \A j \in Jobs :
        /\ exec[j] \in {"idle", "predicting", "spawning"} => j \notin handles
        /\ exec[j] \in {"waiting", "cancelling"} => j \in handles
        /\ exec[j] = "cancelling" => j \in asked
        /\ exec[j] = "waiting" => j \notin asked

\* A job whose wait failed is over and does not succeed.
AbandonedJobsFail ==
    \A j \in abandoned :
        /\ exec[j] = "over" /\ j \notin asked
        /\ jobs[j].state # "succeeded" /\ task[j].pc # "completing"

RemoteType ==
    /\ exec \in [Jobs -> Stages]
    /\ handles \subseteq Jobs /\ asked \subseteq handles /\ abandoned \subseteq handles
    /\ call \in [Jobs -> {"none", "queued", "solving", "published", "committed",
                          "returned", "raised", "stopped"}]
    /\ record \in [Jobs -> {"absent", "running", "succeeded", "failed"}]
    /\ view \subseteq volume /\ volume \subseteq Jobs
    /\ restarts \in 0..MaxRestarts

IInv ==
    /\ Proofs!IInv
    /\ RemoteType
    /\ CallsKeepRecords
    /\ ReadersHoldRuns
    /\ ServiceHoldsCalls
    /\ AbandonedJobsFail
    /\ WorkersAreCancelled

-----------------------------------------------------------------------------
(* The manager's steps.                                                    *)

LEMMA SameJobs == Proofs!Jobs = Jobs /\ Manager!Jobs = Jobs
  BY DEF Proofs!Jobs, Manager!Jobs, Jobs

LEMMA TasksAreFunctions ==
    ASSUME IInv
    PROVE  /\ task \in [Jobs -> [pc: Proofs!Steps, deadline: Nat]]
           /\ now \in Nat
  BY SameJobs DEF IInv, Proofs!IInv, Proofs!TypeOK

\* A turn of the manager of which the executors see no success of their own.
LEMMA TurnKeeps ==
    ASSUME IInv, NEW i \in Jobs, Proofs!Turn(i)
    PROVE  /\ Proofs!IInv'
           /\ \A j \in Jobs :
                /\ jobs'[j].state = "succeeded" =>
                    jobs[j].state = "succeeded" \/ task[j].pc = "completing"
                /\ task'[j].pc = "completing" => task[j].pc = "completing"
<1>1. Proofs!IInv'
  BY SameJobs, ManagerAssumption, Proofs!NextIInv
     DEF Proofs!Turn, Proofs!Next, Proofs!TaskStep, IInv
<1>2. \A j \in Jobs :
        /\ jobs'[j].state = "succeeded" =>
            jobs[j].state = "succeeded" \/ task[j].pc = "completing"
        /\ task'[j].pc = "completing" => task[j].pc = "completing"
  BY SameJobs, ManagerAssumption, Proofs!Succeeding DEF IInv
<1> QED
  BY <1>1, <1>2

LEMMA SameCardinality ==
    \A S : Manager!Cardinality(S) = Cardinality(S) /\ Proofs!Cardinality(S) = Cardinality(S)
  BY DEF Manager!Cardinality, Proofs!Cardinality, Cardinality

LEMMA SameRecords ==
    /\ Manager!NoJob = Proofs!NoJob /\ Manager!JobStates = Proofs!JobStates
    /\ \A job, name : Manager!WithEvent(job, name) = Proofs!WithEvent(job, name)
    /\ \A j : Manager!Expirable(j) <=> Proofs!Expirable(j)
    /\ \A records, states : Manager!InState(records, states) = Proofs!InState(records, states)
  BY SameJobs DEF Manager!NoJob, Proofs!NoJob, Manager!JobStates, Proofs!JobStates,
     Manager!WithEvent, Proofs!WithEvent, Manager!Expirable, Proofs!Expirable, Manager!Ended,
     Proofs!Ended, Manager!InState, Proofs!InState

LEMMA SameSweep ==
    /\ \A S : Manager!Expire(S) = Proofs!Expire(S) /\ Manager!Unbind(S) = Proofs!Unbind(S)
    /\ \A records : /\ Manager!Active(records) = Proofs!Active(records)
                    /\ Manager!Retained(records) = Proofs!Retained(records)
    /\ Manager!Swept = Proofs!Swept
<1>1. \A S : Manager!Expire(S) = Proofs!Expire(S) /\ Manager!Unbind(S) = Proofs!Unbind(S)
  BY SameJobs, SameRecords DEF Manager!Expire, Proofs!Expire, Manager!Unbind, Proofs!Unbind
<1>2. \A records : /\ Manager!Active(records) = Proofs!Active(records)
                   /\ Manager!Retained(records) = Proofs!Retained(records)
  BY SameRecords DEF Manager!Active, Proofs!Active, Manager!Retained, Proofs!Retained
<1>3. Manager!Swept = Proofs!Swept
  BY <1>1, <1>2, SameJobs, SameRecords, SameCardinality DEF Manager!Swept, Proofs!Swept
<1> QED
  BY <1>1, <1>2, <1>3

\* The two instances of the manager have the same actions.
LEMMA SameSubmissions ==
    /\ Manager!SubmitAnswered => Proofs!SubmitAnswered
    /\ \A key, d : Manager!SubmitCreates(key, d) => Proofs!SubmitCreates(key, d)
    /\ \A j : Manager!ExpiresOnLook(j) => Proofs!ExpiresOnLook(j)
    /\ Manager!Close => Proofs!Close
<1>1. Manager!SubmitAnswered => Proofs!SubmitAnswered
  BY SameJobs, SameSweep DEF Manager!SubmitAnswered, Proofs!SubmitAnswered
<1>2. ASSUME NEW key, NEW d, Manager!SubmitCreates(key, d) PROVE Proofs!SubmitCreates(key, d)
  <2>1. \A active : Manager!ExpiresAt(active) = Proofs!ExpiresAt(active)
    BY DEF Manager!ExpiresAt, Proofs!ExpiresAt
  <2>2. \A records : Manager!HasCapacity(records) <=> Proofs!HasCapacity(records)
    BY SameSweep, SameCardinality DEF Manager!HasCapacity, Proofs!HasCapacity
  <2> QED
    BY <1>2, <2>1, <2>2, SameJobs, SameRecords, SameSweep, SameCardinality
       DEF Manager!SubmitCreates, Proofs!SubmitCreates
<1>3. ASSUME NEW j, Manager!ExpiresOnLook(j) PROVE Proofs!ExpiresOnLook(j)
  BY <1>3, SameRecords, SameSweep DEF Manager!ExpiresOnLook, Proofs!ExpiresOnLook
<1>4. Manager!Close => Proofs!Close
  BY SameJobs DEF Manager!Close, Proofs!Close
<1> QED
  BY <1>1, <1>2, <1>3, <1>4

LEMMA SameTasks ==
    ASSUME NEW j
    PROVE  /\ Manager!Start(j) => Proofs!Start(j)
           /\ Manager!Complete(j) => Proofs!Complete(j)
           /\ Manager!Fail(j) => Proofs!Fail(j)
           /\ Manager!Progress(j) => Proofs!Progress(j)
           /\ Manager!Returns(j) => Proofs!Returns(j)
           /\ Manager!Breaks(j) => Proofs!Breaks(j)
<1>1. Manager!FreeSlot => Proofs!FreeSlot
  BY SameJobs, SameCardinality
     DEF Manager!FreeSlot, Proofs!FreeSlot, Manager!Holding, Proofs!Holding
<1>2. Manager!Start(j) => Proofs!Start(j)
  BY <1>1, SameRecords
     DEF Manager!Start, Proofs!Start, Manager!NextInLine, Proofs!NextInLine
<1>3. Manager!Complete(j) => Proofs!Complete(j)
  BY SameRecords DEF Manager!Complete, Proofs!Complete
<1>4. Manager!Fail(j) => Proofs!Fail(j)
  BY SameRecords DEF Manager!Fail, Proofs!Fail
<1>5. Manager!Progress(j) => Proofs!Progress(j)
  BY SameRecords DEF Manager!Progress, Proofs!Progress, Manager!MayReport, Proofs!MayReport
<1>6. Manager!Returns(j) => Proofs!Returns(j)
  BY DEF Manager!Returns, Proofs!Returns
<1>7. Manager!Breaks(j) => Proofs!Breaks(j)
  BY DEF Manager!Breaks, Proofs!Breaks
<1> QED
  BY <1>2, <1>3, <1>4, <1>5, <1>6, <1>7

LEMMA SameTurns ==
    ASSUME NEW j \in Jobs,
           \/ Manager!SubmitAnswered
           \/ \E key \in Keys \cup {None}, d \in Digests : Manager!SubmitCreates(key, d)
           \/ Manager!ExpiresOnLook(j) \/ Manager!Close
           \/ Manager!Start(j) \/ Manager!Complete(j) \/ Manager!Fail(j)
           \/ Manager!Progress(j) \/ Manager!Breaks(j)
    PROVE  Proofs!Turn(j)
  BY SameSubmissions, SameTasks DEF Proofs!Turn

LEMMA ManagerRests ==
    ASSUME IInv, UNCHANGED managerVars
    PROVE  Proofs!IInv'
<1>1. UNCHANGED Proofs!vars
  BY DEF managerVars, Proofs!vars
<1> QED
  BY <1>1, ManagerAssumption, Proofs!NextIInv DEF IInv

LEMMA ReturnKeeps ==
    ASSUME IInv, NEW j \in Jobs, Manager!Returns(j)
    PROVE  /\ Proofs!IInv'
           /\ jobs' = jobs
           /\ \A i \in Jobs : task'[i].pc = "completing" => task[i].pc = "completing" \/ i = j
<1>1. Proofs!Returns(j)
  BY SameTasks
<1>2. Proofs!IInv'
  BY <1>1, SameJobs, ManagerAssumption, Proofs!ReturnsInv DEF IInv
<1> QED
  BY <1>1, <1>2, TasksAreFunctions DEF Proofs!Returns

-----------------------------------------------------------------------------
(* The executor.                                                           *)

\* One executor moves, with whatever turn its job takes in the manager.
LEMMA ExecutorMoves ==
    ASSUME IInv, Proofs!IInv', NEW j \in Jobs, NEW stage \in Stages,
           To(j, stage), UNCHANGED <<handles, asked, abandoned, view, workerVars>>,
           \A i \in Jobs : jobs'[i].state = "succeeded" \/ task'[i].pc = "completing" =>
                i \in view /\ record[i] = "succeeded",
           \A i \in abandoned : jobs'[i].state # "succeeded" /\ task'[i].pc # "completing",
           exec[j] = "over" => stage = "over",
           stage \in Reading => call[j] = "returned",
           stage \in Reading \ {"reloading"} => j \in view,
           stage \in {"idle", "predicting", "spawning"} => j \notin handles,
           stage = "cancelling" => j \in handles,
           stage = "cancelling" => j \in asked,
           stage # "waiting",
           stage = "over" /\ j \in handles /\ Alive(j) => j \in asked \cup abandoned
    PROVE  IInv'
<1> USE DEF IInv, workerVars
<1>1. RemoteType'
  BY DEF RemoteType, To
<1>2. \A i \in Jobs : exec'[i] = IF i = j THEN stage ELSE exec[i]
  BY DEF RemoteType, To
<1>3. CallsKeepRecords'
  BY DEF CallsKeepRecords
<1>4. ReadersHoldRuns'
  BY <1>2 DEF ReadersHoldRuns
<1>5. ServiceHoldsCalls'
  BY <1>2 DEF ServiceHoldsCalls
<1>6. AbandonedJobsFail'
  BY <1>2 DEF AbandonedJobsFail, RemoteType
<1>7. WorkersAreCancelled'
  BY <1>2, <1>6 DEF WorkersAreCancelled, AbandonedJobsFail, Alive, RemoteType
<1> QED
  BY <1>1, <1>3, <1>4, <1>5, <1>6, <1>7

\* The manager's part of a step in which nobody returns.
LEMMA NobodySucceeds ==
    ASSUME IInv, NEW j \in Jobs, Proofs!Turn(j) \/ UNCHANGED managerVars
    PROVE  /\ Proofs!IInv'
           /\ \A i \in Jobs : jobs'[i].state = "succeeded" \/ task'[i].pc = "completing" =>
                i \in view /\ record[i] = "succeeded"
           /\ \A i \in abandoned : jobs'[i].state # "succeeded" /\ task'[i].pc # "completing"
<1>1. CASE Proofs!Turn(j)
  BY <1>1, TurnKeeps DEF IInv, ReadersHoldRuns, AbandonedJobsFail, RemoteType
<1>2. CASE UNCHANGED managerVars
  BY <1>2, ManagerRests DEF IInv, ReadersHoldRuns, AbandonedJobsFail, managerVars
<1> QED
  BY <1>1, <1>2

LEMMA ExecutorInv ==
    ASSUME IInv, NEW j \in Jobs,
           \/ Begin(j) \/ Predicted(j) \/ Answered(j) \/ Opens(j) \/ Compared(j)
           \/ Refuses(j) \/ StopAnswered(j) \/ TimesOut(j)
    PROVE  IInv'
<1> USE NobodySucceeds, SameTurns
<1>1. CASE Begin(j)
  BY <1>1, ExecutorMoves DEF Begin, IInv, ServiceHoldsCalls, Stages, Reading
<1>2. CASE Predicted(j)
  BY <1>2, ExecutorMoves DEF Predicted, IInv, ServiceHoldsCalls, Stages, Reading
<1>3. CASE Answered(j)
  BY <1>3, ExecutorMoves DEF Answered, IInv, ServiceHoldsCalls, Stages, Reading
<1>4. CASE Opens(j)
  BY <1>4, ExecutorMoves DEF Opens, IInv, ReadersHoldRuns, Stages, Reading
<1>5. CASE Compared(j)
  BY <1>5, ExecutorMoves DEF Compared, IInv, ReadersHoldRuns, Stages, Reading
<1>6. CASE Refuses(j)
  BY <1>6, ExecutorMoves
     DEF Refuses, IInv, ReadersHoldRuns, ServiceHoldsCalls, Alive, Stages, Reading
<1>7. CASE StopAnswered(j)
  BY <1>7, ExecutorMoves DEF StopAnswered, IInv, ServiceHoldsCalls, Stages, Reading
<1>8. CASE TimesOut(j)
  <2>1. Manager!Breaks(j) /\ exec[j] \notin {"waiting", "cancelling"} /\ exec[j] \in Stages
    BY <1>8 DEF TimesOut, Manager!TimesOut, HoldsCall, IInv, RemoteType
  <2>2. j \in handles /\ Alive(j) => j \in asked \cup abandoned
    BY <2>1 DEF IInv, ReadersHoldRuns, ServiceHoldsCalls, WorkersAreCancelled, Alive, Stages, Reading
  <2> QED
    BY <1>8, <2>1, <2>2, ExecutorMoves DEF TimesOut, Stages, Reading
<1> QED
  BY <1>1, <1>2, <1>3, <1>4, <1>5, <1>6, <1>7, <1>8

LEMMA RespondsInv ==
    ASSUME IInv, NEW j \in Jobs, Responds(j)
    PROVE  IInv'
<1>1. exec[j] = "responding" /\ call[j] = "returned" /\ j \in view /\ record[j] = "succeeded"
  BY DEF Responds, IInv, ReadersHoldRuns, CallsKeepRecords, Reading
<1>2. \A i \in Jobs : jobs'[i].state = "succeeded" \/ task'[i].pc = "completing" =>
        i \in view /\ record[i] = "succeeded"
  BY <1>1, ReturnKeeps DEF Responds, IInv, ReadersHoldRuns
<1>3. \A i \in abandoned : jobs'[i].state # "succeeded" /\ task'[i].pc # "completing"
  BY <1>1, ReturnKeeps DEF Responds, IInv, AbandonedJobsFail, RemoteType
<1> QED
  BY <1>1, <1>2, <1>3, ReturnKeeps, ExecutorMoves DEF Responds, Stages, Reading, Alive

\* A wait fails: its job does not succeed, and its container may live on.
LEMMA WaitFailsInv ==
    ASSUME IInv, NEW j \in Jobs, WaitFails(j)
    PROVE  IInv'
<1> USE DEF IInv, workerVars
<1>1. /\ task[j].pc = "executing" /\ exec[j] = "waiting" /\ exec' = [exec EXCEPT ![j] = "over"]
      /\ Manager!Breaks(j) /\ UNCHANGED <<handles, asked, view, workerVars>>
      /\ abandoned' = IF Alive(j) THEN abandoned \cup {j} ELSE abandoned
  BY DEF WaitFails, Executing, To
<1>2. j \in handles /\ j \notin asked
  BY <1>1 DEF ServiceHoldsCalls
<1>3. Proofs!Turn(j)
  BY <1>1, SameTurns
<1>4. jobs[j].state = "running" /\ jobs' = jobs /\ task' = [task EXCEPT ![j].pc = "failing", ![j].deadline = 0]
  BY <1>1, SameJobs DEF Manager!Breaks, Proofs!IInv, Proofs!TasksOwnTheirJobs
<1>5. task'[j].pc # "completing"
  BY <1>4, TasksAreFunctions
<1>6. \A i \in abandoned' : jobs'[i].state # "succeeded" /\ task'[i].pc # "completing"
  BY <1>1, <1>3, <1>4, <1>5, NobodySucceeds
<1>7. \A i \in Jobs : exec'[i] = IF i = j THEN "over" ELSE exec[i]
  BY <1>1 DEF RemoteType
<1>8. RemoteType'
  BY <1>1, <1>2 DEF RemoteType, Stages
<1>9. CallsKeepRecords'
  BY <1>1 DEF CallsKeepRecords
<1>10. ReadersHoldRuns'
  BY <1>1, <1>3, <1>7, NobodySucceeds DEF ReadersHoldRuns, Reading
<1>11. ServiceHoldsCalls'
  BY <1>1, <1>7 DEF ServiceHoldsCalls
<1>12. AbandonedJobsFail'
  BY <1>1, <1>2, <1>6, <1>7 DEF AbandonedJobsFail, RemoteType
<1>13. WorkersAreCancelled'
  BY <1>1, <1>7, <1>12 DEF WorkersAreCancelled, AbandonedJobsFail, Alive, RemoteType
<1> QED
  BY <1>3, <1>8, <1>9, <1>10, <1>11, <1>12, <1>13, NobodySucceeds

\* A submission is answered, and a request to stop made.
LEMMA HoldsInv ==
    ASSUME IInv, NEW j \in Jobs, Spawned(j) \/ AsksToStop(j)
    PROVE  IInv'
<1>1. UNCHANGED managerVars /\ UNCHANGED view /\ UNCHANGED workerVars
  BY DEF Spawned, AsksToStop
<1> USE <1>1, ManagerRests DEF IInv, workerVars, managerVars
<1>2. PICK stage \in {"waiting", "cancelling"} :
        /\ exec' = [exec EXCEPT ![j] = stage]
        /\ IF stage = "waiting"
           THEN j \notin handles /\ handles' = handles \cup {j} /\ asked' = asked
           ELSE j \in handles /\ handles' = handles /\ asked' = asked \cup {j}
        /\ exec[j] # "over" /\ abandoned' = abandoned
  BY DEF Spawned, AsksToStop, To, HoldsCall, ServiceHoldsCalls
<1>3. RemoteType'
  BY <1>2 DEF RemoteType, Stages
<1>4. \A i \in Jobs : exec'[i] = IF i = j THEN stage ELSE exec[i]
  BY <1>2 DEF RemoteType
<1>5. CallsKeepRecords'
  BY DEF CallsKeepRecords
<1>6. ReadersHoldRuns'
  BY <1>4 DEF ReadersHoldRuns, Reading
<1>7. ServiceHoldsCalls'
  BY <1>2, <1>4 DEF ServiceHoldsCalls, RemoteType
<1>8. AbandonedJobsFail'
  BY <1>2, <1>4 DEF AbandonedJobsFail, RemoteType
<1>9. WorkersAreCancelled'
  BY <1>2, <1>4, <1>8 DEF WorkersAreCancelled, AbandonedJobsFail, Alive, RemoteType
<1> QED
  BY <1>3, <1>5, <1>6, <1>7, <1>8, <1>9

LEMMA ReloadInv ==
    ASSUME IInv, NEW j \in Jobs, Reload(j)
    PROVE  IInv'
<1> USE ManagerRests DEF IInv, workerVars, managerVars
<1>1. /\ exec[j] = "reloading" /\ exec' = [exec EXCEPT ![j] = "opening"] /\ view' = volume
      /\ UNCHANGED <<managerVars, handles, asked, abandoned, workerVars>>
  BY DEF Reload, Reloaded, To
<1>2. RemoteType'
  BY <1>1 DEF RemoteType, Stages
<1>3. \A i \in Jobs : exec'[i] = IF i = j THEN "opening" ELSE exec[i]
  BY <1>1 DEF RemoteType
<1>4. CallsKeepRecords'
  BY <1>1 DEF CallsKeepRecords
<1>5. j \in view' /\ view \subseteq view' /\ call[j] = "returned"
  BY <1>1 DEF ReadersHoldRuns, CallsKeepRecords, Reading, RemoteType
<1>6. ReadersHoldRuns'
  BY <1>1, <1>3, <1>5 DEF ReadersHoldRuns, Reading
<1>7. ServiceHoldsCalls'
  BY <1>1, <1>3 DEF ServiceHoldsCalls
<1>8. AbandonedJobsFail'
  BY <1>1, <1>3 DEF AbandonedJobsFail, RemoteType
<1>9. WorkersAreCancelled'
  BY <1>1, <1>3 DEF WorkersAreCancelled, Alive, RemoteType
<1> QED
  BY <1>1, <1>2, <1>4, <1>6, <1>7, <1>8, <1>9

LEMMA CloseInv ==
    ASSUME IInv, Close
    PROVE  IInv'
<1> USE DEF IInv, workerVars
<1>1. /\ exec' = [j \in Jobs |-> IF exec[j] = "idle" THEN exec[j] ELSE "over"]
      /\ asked' = asked \cup {j \in Jobs : HoldsCall(j)}
      /\ UNCHANGED <<handles, abandoned, view, workerVars>>
  BY DEF Close
<1>2. Proofs!Close
  BY SameSubmissions DEF Close
<1>3. Proofs!IInv'
  BY <1>2, ManagerAssumption, Proofs!CloseInv
<1>4. \A j \in Jobs : jobs'[j].state = "succeeded" \/ task'[j].pc = "completing" =>
        j \in view /\ record[j] = "succeeded"
  BY <1>2, SameJobs DEF Proofs!Close, ReadersHoldRuns
<1>10. \A j \in abandoned : jobs'[j].state # "succeeded" /\ task'[j].pc # "completing"
  BY <1>2, SameJobs DEF Proofs!Close, AbandonedJobsFail, RemoteType
<1>5. RemoteType'
  BY <1>1 DEF RemoteType, Stages, HoldsCall, ServiceHoldsCalls
<1>6. CallsKeepRecords'
  BY <1>1 DEF CallsKeepRecords
<1>7. ReadersHoldRuns'
  BY <1>1, <1>4 DEF ReadersHoldRuns, Reading
<1>8. ServiceHoldsCalls'
  BY <1>1 DEF ServiceHoldsCalls
<1>11. AbandonedJobsFail'
  BY <1>1, <1>10 DEF AbandonedJobsFail, RemoteType, HoldsCall
<1>9. WorkersAreCancelled'
  BY <1>1, <1>11 DEF WorkersAreCancelled, AbandonedJobsFail, Alive, RemoteType, HoldsCall,
              ServiceHoldsCalls, ReadersHoldRuns, Reading, Stages
<1> QED
  BY <1>3, <1>5, <1>6, <1>7, <1>8, <1>9, <1>11

-----------------------------------------------------------------------------
(* The worker and its provider.                                            *)

\* A function call moves, with its record and its run; nobody else is concerned.
LEMMA CallMoves ==
    ASSUME IInv, NEW j \in Jobs, NEW to, NEW state,
           UNCHANGED <<managerVars, serviceVars>>,
           call' = [call EXCEPT ![j] = to], record' = [record EXCEPT ![j] = state],
           volume' \in {volume, volume \cup {j}}, restarts' \in 0..MaxRestarts,
           to \in {"queued", "solving", "published", "committed", "returned", "raised",
                   "stopped"},
           state \in {"absent", "running", "succeeded", "failed"},
           to \in {"solving", "published", "committed"} => state = "running",
           to = "committed" \/ state = "succeeded" => j \in volume',
           to = "returned" => state = "succeeded",
           record[j] = "succeeded" => state = "succeeded",
           exec[j] \in Reading => to = "returned",
           Alive(j)' /\ exec[j] = "over" /\ j \in handles => Alive(j) \/ j \in asked
    PROVE  IInv'
<1> USE ManagerRests DEF IInv, serviceVars, managerVars
<1>1. /\ \A i \in Jobs : call'[i] = IF i = j THEN to ELSE call[i]
      /\ \A i \in Jobs : record'[i] = IF i = j THEN state ELSE record[i]
  BY DEF RemoteType
<1>2. RemoteType'
  BY DEF RemoteType
<1>3. CallsKeepRecords'
  BY <1>1 DEF CallsKeepRecords
<1>4. ReadersHoldRuns'
  BY <1>1 DEF ReadersHoldRuns
<1>5. ServiceHoldsCalls'
  BY DEF ServiceHoldsCalls
<1>6. AbandonedJobsFail'
  BY DEF AbandonedJobsFail
<1>7. WorkersAreCancelled'
  BY <1>1 DEF WorkersAreCancelled, Alive, RemoteType
<1> QED
  BY <1>2, <1>3, <1>4, <1>5, <1>6, <1>7

\* A function call moves on its own, to where neither record nor run is asked of it.
LEMMA CallMovesAlone ==
    ASSUME IInv, NEW j \in Jobs, NEW to \in {"queued", "raised", "stopped"},
           UNCHANGED <<managerVars, serviceVars, record, volume>>,
           call' = [call EXCEPT ![j] = to], restarts' \in 0..MaxRestarts,
           exec[j] \notin Reading,
           to = "queued" /\ exec[j] = "over" => Alive(j)
    PROVE  IInv'
<1>1. /\ record' = [record EXCEPT ![j] = record[j]]
      /\ record[j] \in {"absent", "running", "succeeded", "failed"}
  BY DEF IInv, RemoteType
<1>2. record[j] = "succeeded" => j \in volume'
  BY DEF IInv, CallsKeepRecords
<1>3. Alive(j)' => to = "queued"
  BY DEF Alive, IInv, RemoteType
<1>4. UNCHANGED <<managerVars, serviceVars>> /\ volume' \in {volume, volume \cup {j}}
  OBVIOUS
<1>5. /\ to \in {"queued", "solving", "published", "committed", "returned", "raised", "stopped"}
      /\ to \notin {"solving", "published", "committed", "returned"}
  OBVIOUS
<1>6. Alive(j)' /\ exec[j] = "over" /\ j \in handles => Alive(j) \/ j \in asked
  BY <1>3
<1> QED
  BY ONLY IInv, j \in Jobs, call' = [call EXCEPT ![j] = to], restarts' \in 0..MaxRestarts,
          exec[j] \notin Reading, <1>1, <1>2, <1>4, <1>5, <1>6, CallMoves

LEMMA WorkerInv ==
    ASSUME IInv, NEW j \in Jobs, Worker(j)
    PROVE  IInv'
<1> DEFINE states == {"absent", "running", "succeeded", "failed"}
<1>1. /\ record = [record EXCEPT ![j] = record[j]] /\ record[j] \in states
      /\ restarts \in 0..MaxRestarts /\ MaxRestarts \in Nat
      /\ exec[j] \in Stages
      /\ \A to : [call EXCEPT ![j] = to][j] = to
  BY RemoteAssumption DEF IInv, RemoteType
<1>2. /\ call[j] \in {"solving", "published", "committed"} => record[j] = "running"
      /\ call[j] = "committed" \/ record[j] = "succeeded" => j \in volume
      /\ call[j] = "returned" => record[j] = "succeeded"
      /\ exec[j] \in Reading => call[j] = "returned"
  BY DEF IInv, CallsKeepRecords, ReadersHoldRuns
<1>3. CASE Submitted(j)
  <2>1. exec[j] \notin Reading /\ exec[j] # "over"
    BY <1>3 DEF Submitted, Reading
  <2> QED
    BY <1>1, <1>3, <2>1, CallMovesAlone DEF Submitted, Moves
<1>4. CASE Claim(j)
  BY <1>1, <1>2, <1>4, CallMoves DEF Claim, Moves, Alive
<1>5. CASE Replay(j)
  BY <1>1, <1>2, <1>5, CallMoves DEF Replay, Moves, Alive
<1>6. CASE Publish(j)
  BY <1>1, <1>2, <1>6, CallMoves DEF Publish, Moves, Alive
<1>7. CASE CommitRun(j)
  BY <1>1, <1>2, <1>7, CallMoves DEF CommitRun, Committed, Moves, Alive
<1>8. CASE Succeed(j)
  BY <1>1, <1>2, <1>8, CallMoves DEF Succeed, Moves, Alive
<1>9. CASE RefusesBuild(j)
  <2>1. exec[j] \notin Reading
    BY <1>2, <1>9 DEF RefusesBuild, Moves
  <2> QED
    BY <1>1, <1>9, <2>1, CallMovesAlone DEF RefusesBuild, Moves
<1>10. CASE FailAttempt(j)
  BY <1>1, <1>2, <1>10, CallMoves DEF FailAttempt, Moves, Alive
<1>11. CASE Restart(j) \/ RestartLate(j)
  <2>1. /\ call' = [call EXCEPT ![j] = "queued"] /\ restarts' = restarts + 1
        /\ restarts < MaxRestarts
        /\ UNCHANGED <<managerVars, serviceVars, record, volume>>
        /\ exec[j] \notin Reading
        /\ exec[j] = "over" => Alive(j)
    BY <1>2, <1>11 DEF Restart, RestartLate, Alive, Reading
  <2>2. restarts' \in 0..MaxRestarts
    BY <1>1, <2>1
  <2>3. UNCHANGED <<managerVars, serviceVars, record, volume>>
    BY <2>1
  <2> QED
    BY ONLY IInv, j \in Jobs, <2>1, <2>2, <2>3, CallMovesAlone
<1>12. CASE Stops(j)
  <2>1. exec[j] \notin Reading
    BY <1>2, <1>12 DEF Stops, Alive
  <2> QED
    BY <1>1, <1>12, <2>1, CallMovesAlone DEF Stops
<1> QED
  BY <1>3, <1>4, <1>5, <1>6, <1>7, <1>8, <1>9, <1>10, <1>11, <1>12 DEF Worker

-----------------------------------------------------------------------------
(* The whole.                                                              *)

\* The manager and its clock go on while executors and workers rest.
LEMMA OthersRest ==
    ASSUME IInv, Proofs!IInv', UNCHANGED <<serviceVars, workerVars>>,
           \A i \in Jobs : jobs'[i].state = "succeeded" \/ task'[i].pc = "completing" =>
                i \in view /\ record[i] = "succeeded",
           \A i \in abandoned : jobs'[i].state # "succeeded" /\ task'[i].pc # "completing"
    PROVE  IInv'
<1> USE DEF IInv, serviceVars, workerVars
<1>1. RemoteType'
  BY DEF RemoteType
<1>2. CallsKeepRecords'
  BY DEF CallsKeepRecords
<1>3. ReadersHoldRuns'
  BY DEF ReadersHoldRuns
<1>4. AbandonedJobsFail'
  BY DEF AbandonedJobsFail
<1>5. ServiceHoldsCalls' /\ WorkersAreCancelled'
  BY <1>4 DEF ServiceHoldsCalls, WorkersAreCancelled, AbandonedJobsFail, Alive
<1> QED
  BY <1>1, <1>2, <1>3, <1>4, <1>5

LEMMA ManagerStepInv ==
    ASSUME IInv, ManagerStep \/ \E j \in Jobs : TaskStep(j)
    PROVE  IInv'
<1>1. UNCHANGED <<serviceVars, workerVars>>
  BY DEF ManagerStep, TaskStep
<1>2. ASSUME NEW j \in Jobs, Proofs!Turn(j) PROVE IInv'
  BY <1>1, <1>2, NobodySucceeds, OthersRest
<1>3. CASE \E j \in Jobs : TaskStep(j) \/ Manager!ExpiresOnLook(j)
  BY <1>2, <1>3, SameTurns DEF TaskStep
<1>4. CASE Jobs = {} /\ ManagerStep
  <2>1. Proofs!SubmitAnswered \/ \E key \in Keys \cup {None}, d \in Digests : Proofs!SubmitCreates(key, d)
    BY <1>4, SameSubmissions DEF ManagerStep
  <2>2. Proofs!IInv'
    BY <2>1, ManagerAssumption, Proofs!NextIInv DEF IInv, Proofs!Next
  <2> QED
    BY <1>1, <1>4, <2>2, OthersRest DEF IInv, RemoteType
<1>5. CASE Jobs # {} /\ ManagerStep
  BY <1>2, <1>5, SameTurns DEF ManagerStep
<1> QED
  BY <1>3, <1>4, <1>5

LEMMA TickInv ==
    ASSUME IInv, Tick
    PROVE  IInv'
<1>1. /\ UNCHANGED <<jobs, binding, task, queue, reader, closed, serviceVars, workerVars>>
      /\ now' = now + 1
  BY DEF Tick
<1>2. now' \in Nat
  BY <1>1, TasksAreFunctions
<1>3. Proofs!IInv'
  BY <1>1, <1>2, ManagerAssumption, Proofs!ClockInv DEF IInv
<1> QED
  BY <1>1, <1>3, OthersRest DEF IInv, ReadersHoldRuns, AbandonedJobsFail

LEMMA NextIInv == IInv /\ [Next]_vars => IInv'
<1> SUFFICES ASSUME IInv, [Next]_vars PROVE IInv'
  OBVIOUS
<1>1. CASE ManagerStep \/ \E j \in Jobs : TaskStep(j)
  BY <1>1, ManagerStepInv
<1>2. CASE Close
  BY <1>2, CloseInv
<1>3. CASE Tick
  BY <1>3, TickInv
<1>4. ASSUME NEW j \in Jobs, ExecutorStep(j) \/ AsksToStop(j) \/ StopAnswered(j) \/ TimesOut(j)
      PROVE  IInv'
  BY <1>4, ExecutorInv, RespondsInv, HoldsInv, ReloadInv, WaitFailsInv DEF ExecutorStep
<1>5. ASSUME NEW j \in Jobs, Worker(j) PROVE IInv'
  BY <1>5, WorkerInv
<1>6. CASE UNCHANGED vars
  BY <1>6, ManagerRests, OthersRest DEF vars, managerVars, IInv, ReadersHoldRuns, AbandonedJobsFail
<1> QED
  BY <1>1, <1>2, <1>3, <1>4, <1>5, <1>6 DEF Next

LEMMA InitIInv == Init => IInv
<1> SUFFICES ASSUME Init PROVE IInv
  OBVIOUS
<1>1. Proofs!Init
  BY SameJobs, SameRecords DEF Init, Manager!Init, Proofs!Init, Manager!NoReader, Proofs!NoReader
<1>2. Proofs!IInv
  BY <1>1, ManagerAssumption, Proofs!InitIInv
<1>3. \A j \in Jobs : /\ exec[j] = "idle" /\ call[j] = "none" /\ record[j] = "absent"
                      /\ jobs[j].state = "absent" /\ task[j].pc = "none"
  BY SameJobs DEF Init, Manager!Init, Manager!NoJob
<1>4. RemoteType
  BY RemoteAssumption DEF Init, RemoteType, Stages
<1>5. /\ CallsKeepRecords /\ ReadersHoldRuns /\ ServiceHoldsCalls
      /\ AbandonedJobsFail /\ WorkersAreCancelled
  BY <1>3 DEF Init, CallsKeepRecords, ReadersHoldRuns, ServiceHoldsCalls, AbandonedJobsFail,
              WorkersAreCancelled, Reading
<1> QED
  BY <1>2, <1>4, <1>5 DEF IInv

\* Every state of the specification satisfies the inductive invariant, on which the
\* theorems below rest.
THEOREM Invariance == Spec => []IInv
  BY InitIInv, NextIInv, PTL DEF Spec

-----------------------------------------------------------------------------
(* What the runs check.                                                    *)

\* Type correctness of the service with its remote executor: the manager's records, and
\* where executors, calls, records and runs can be.
THEOREM RemoteTypeCorrect == Spec => []RemoteTypeOK
<1>1. IInv => Manager!TypeOK
  BY SameJobs, SameRecords DEF IInv, Proofs!IInv, Manager!TypeOK, Proofs!TypeOK, Manager!EventNames,
     Proofs!EventNames, Manager!Steps, Proofs!Steps
<1>2. IInv => RemoteTypeOK
  BY <1>1 DEF IInv, RemoteType, RemoteTypeOK
<1> QED
  BY <1>2, Invariance, PTL

\* ReturnedRunsOpen: whatever containers are restarted, lost or stopped, a reference that
\* got back opens on the reloaded mount, and a job that succeeded has its run committed
\* and its case record succeeded.
THEOREM ReturnedOpen == Spec => []ReturnedRunsOpen
<1>1. IInv => ReturnedRunsOpen
  BY DEF IInv, ReadersHoldRuns, ReturnedRunsOpen, Reading
<1> QED
  BY <1>1, Invariance, PTL

\* WorkersAreCancelled: a call that the service held and that is still alive when its job
\* is over has been asked to stop, at a deadline, in a shutdown and after every restart,
\* unless the wait for it failed first, and then its job did not succeed.
THEOREM CallsCancelled == Spec => []WorkersAreCancelled
<1>1. IInv => WorkersAreCancelled
  BY DEF IInv
<1> QED
  BY <1>1, Invariance, PTL

-----------------------------------------------------------------------------
(* The promise, with requests to stop a container in the way.              *)

\* The slack a promise allows for: one request for each batch.
Slack == Batches * CancelTicks

LEMMA SlackIsEnough ==
    /\ Slack \in Nat
    /\ Slack >= ((Concurrency + QueueCapacity - 1) \div Concurrency + 1) * CancelTicks
<1>1. (Concurrency + QueueCapacity - 1) \div Concurrency \in Nat
  BY ManagerAssumption
<1>2. Batches \in Nat /\ Batches = (Concurrency + QueueCapacity - 1) \div Concurrency + 1
  BY <1>1 DEF Batches
<1>3. Batches * CancelTicks \in Nat
  BY <1>2, RemoteAssumption
<1> QED
  BY <1>2, <1>3 DEF Slack

\* Records and tasks are in time: an executor that waits for the answer to its request
\* keeps its slot for CancelTicks past its deadline and no longer.
RemoteOnTime == Proofs!OnTime(CancelTicks, Slack)

LEMMA RemoteTurns ==
    ASSUME IInv, IInv', RemoteOnTime, NEW j \in Jobs, Proofs!Turn(j) \/ Proofs!Returns(j)
    PROVE  RemoteOnTime'
<1>1. /\ CancelTicks \in Nat /\ Slack \in Nat /\ j \in Proofs!Jobs
      /\ Slack >= ((Concurrency + QueueCapacity - 1) \div Concurrency + 1) * CancelTicks
  BY SlackIsEnough, RemoteAssumption, SameJobs
<1>2. Proofs!IInv /\ Proofs!IInv'
  BY DEF IInv
<1> HIDE DEF Slack
<1> QED
  BY <1>1, <1>2, ManagerAssumption, Proofs!TurnsOnTime DEF RemoteOnTime

LEMMA RemoteTicks ==
    ASSUME IInv, RemoteOnTime, Tick
    PROVE  RemoteOnTime'
<1>1. CancelTicks \in Nat /\ Slack \in Nat /\ Proofs!IInv
  BY SlackIsEnough, RemoteAssumption DEF IInv
<1>2. now' = now + 1 /\ UNCHANGED <<jobs, task, queue, closed>>
  BY DEF Tick
<1>3. queue # <<>> => ~Proofs!FreeSlot
  BY SameJobs, SameCardinality
     DEF Tick, Idle, Manager!FreeSlot, Proofs!FreeSlot, Manager!Holding, Proofs!Holding
<1>4. ASSUME NEW j \in Proofs!Jobs
      PROVE  /\ task[j].pc \notin {"completing", "failing"}
             /\ task[j].pc = "executing" => now < task[j].deadline + CancelTicks
  <2>1. j \in Jobs /\ now \in Nat /\ task[j].deadline \in Nat
    BY SameJobs, TasksAreFunctions
  <2> QED
    BY <2>1, RemoteAssumption DEF Tick, Idle, Executing
<1> HIDE DEF Slack
<1> QED
  BY <1>1, <1>2, <1>3, <1>4, ManagerAssumption, Proofs!ClockOnTime DEF RemoteOnTime

LEMMA RemoteRests ==
    ASSUME RemoteOnTime, UNCHANGED managerVars
    PROVE  RemoteOnTime'
  BY DEF managerVars, RemoteOnTime, Proofs!OnTime, Proofs!JobOnTime, Proofs!InTime,
         Proofs!HeldPast, Proofs!EndBy, Proofs!StartBy, Proofs!Ended

LEMMA RemoteNext == IInv /\ IInv' /\ RemoteOnTime /\ [Next]_vars => RemoteOnTime'
<1> SUFFICES ASSUME IInv, IInv', RemoteOnTime, [Next]_vars PROVE RemoteOnTime'
  OBVIOUS
<1>1. CASE ManagerStep
  <2>1. ASSUME NEW j \in Jobs, Manager!ExpiresOnLook(j) PROVE RemoteOnTime'
    BY <2>1, SameTurns, RemoteTurns
  <2>2. ASSUME Manager!SubmitAnswered \/ \E key \in Keys \cup {None}, d \in Digests : Manager!SubmitCreates(key, d)
        PROVE  RemoteOnTime'
    <3>1. CASE Jobs = {}
      <4>1. Proofs!Jobs = {} /\ Proofs!IInv'
        BY <3>1, SameJobs DEF IInv
      <4>2. queue' \in Seq({})
        BY <4>1 DEF Proofs!IInv, Proofs!TypeOK
      <4>3. 1..Len(queue') = {}
        BY <4>2
      <4>4. Proofs!OnTime(CancelTicks, Slack)'
        BY <4>1, <4>3 DEF Proofs!OnTime, Proofs!Jobs
      <4> QED
        BY <4>4 DEF RemoteOnTime
    <3>2. CASE Jobs # {}
      BY <2>2, <3>2, SameTurns, RemoteTurns
    <3> QED
      BY <3>1, <3>2
  <2> QED
    BY <1>1, <2>1, <2>2 DEF ManagerStep
<1>2. CASE Close
  <2>1. closed'
    BY <1>2 DEF Close, Manager!Close
  <2> QED
    BY <2>1 DEF RemoteOnTime, Proofs!OnTime
<1>3. CASE Tick
  BY <1>3, RemoteTicks
<1>4. ASSUME NEW j \in Jobs, TaskStep(j) PROVE RemoteOnTime'
  BY <1>4, SameTurns, RemoteTurns DEF TaskStep
<1>5. ASSUME NEW j \in Jobs,
             ExecutorStep(j) \/ AsksToStop(j) \/ StopAnswered(j) \/ TimesOut(j) \/ Worker(j)
      PROVE  RemoteOnTime'
  <2>1. \/ UNCHANGED managerVars
        \/ Manager!Progress(j) \/ Manager!Returns(j) \/ Manager!Breaks(j)
    BY <1>5 DEF ExecutorStep, Begin, Predicted, Spawned, Answered, Reload, Opens, Compared, Responds,
       Refuses, WaitFails, AsksToStop, StopAnswered, TimesOut, Manager!TimesOut, Worker, Submitted, Claim, Replay,
       Publish, CommitRun, Succeed, RefusesBuild, FailAttempt, Restart, RestartLate, Stops
  <2> QED
    BY <2>1, SameTurns, SameTasks, RemoteTurns, RemoteRests
<1>6. CASE UNCHANGED vars
  BY <1>6, RemoteRests DEF vars
<1> QED
  BY <1>1, <1>2, <1>3, <1>4, <1>5, <1>6 DEF Next

\* expires_at holds for every capacity, timeout and retention, although a task keeps its
\* slot while the provider is asked to stop its container: a job is late by one such
\* request for each batch at most.
THEOREM PromisesKept == Spec => []PromiseIsKept
<1>1. Init => RemoteOnTime
  <2> SUFFICES ASSUME Init PROVE RemoteOnTime
    OBVIOUS
  <2>1. queue = <<>> /\ \A j \in Proofs!Jobs : jobs[j].state = "absent" /\ task[j].pc = "none"
    BY SameJobs DEF Init, Manager!Init, Manager!NoJob
  <2>2. 1..Len(queue) = {}
    BY <2>1
  <2> QED
    BY <2>1, <2>2 DEF RemoteOnTime, Proofs!OnTime, Proofs!JobOnTime, Proofs!Ended
<1>2. IInv /\ RemoteOnTime => PromiseIsKept
  <2> SUFFICES ASSUME IInv, RemoteOnTime, NEW j \in Jobs, ~closed,
                      jobs[j].state \in {"queued", "running", "succeeded", "failed"}
               PROVE  LET late == jobs[j].expires_at + Batches * CancelTicks IN
                      /\ Manager!Ended(j) => jobs[j].terminal_at + Retention <= late
                      /\ now >= late => Manager!Ended(j)
    BY DEF PromiseIsKept
  <2>1. /\ CancelTicks \in Nat /\ Slack \in Nat /\ Proofs!IInv /\ j \in Proofs!Jobs
        /\ Proofs!OnTime(CancelTicks, Slack)
        /\ Manager!Ended(j) <=> Proofs!Ended(j)
    BY SlackIsEnough, RemoteAssumption, SameJobs DEF IInv, RemoteOnTime, Manager!Ended, Proofs!Ended
  <2>2. /\ Proofs!Ended(j) => jobs[j].terminal_at + Retention <= jobs[j].expires_at + Slack
        /\ now >= jobs[j].expires_at + Slack => Proofs!Ended(j)
    <3> HIDE DEF Slack
    <3> QED
      BY <2>1, ManagerAssumption, Proofs!OnTimeKeepsPromise
  <2> QED
    BY <2>1, <2>2 DEF Slack
<1> QED
  BY <1>1, <1>2, RemoteNext, Invariance, PTL DEF Spec
=============================================================================
