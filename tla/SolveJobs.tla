------------------------------ MODULE SolveJobs -----------------------------
(***************************************************************************)
(* The in-process solve job manager of service/jobs.py: bounded admission, *)
(* idempotency keys, the lifecycle of a job, replay of its events to       *)
(* subscribers, expiry and shutdown.                                       *)
(*                                                                         *)
(* Everything the manager does under its condition lock is one action, and *)
(* a task may be interleaved at every await between two of them.  asyncio  *)
(* runs what is ready before it waits for a timer, so the clock moves only *)
(* when no task has a step to make, and a deadline is met.  The executor   *)
(* is external: it reports progress, returns or raises when it likes, and  *)
(* ends when it is cancelled.  The wall clock does not run backwards.      *)
(***************************************************************************)
EXTENDS Integers, Sequences, FiniteSets

CONSTANTS
    MaxJobs,        \* bound: the jobs that are accepted
    Keys,           \* idempotency keys
    Digests,        \* digests of canonical requests
    Readers,        \* subscribers to event streams
    Concurrency,    \* config.solve_concurrency
    QueueCapacity,  \* config.solve_queue_capacity
    MaxRetained,    \* max_retained_jobs
    Timeout,        \* timeout_seconds, in ticks
    Retention,      \* retention_seconds, in ticks
    MaxProgress,    \* MAX_PROGRESS_EVENTS
    MaxTime,        \* bound of the explored clock
    None

ASSUME CapacityAssumption ==
    /\ Concurrency \in Nat \ {0} /\ QueueCapacity \in Nat
    /\ MaxRetained \in Nat /\ MaxRetained >= Concurrency + QueueCapacity
ASSUME TimesAssumption == Timeout \in Nat \ {0} /\ Retention \in Nat \ {0} /\ MaxTime \in Nat
ASSUME BoundsAssumption == MaxJobs \in Nat /\ MaxProgress \in Nat
ASSUME NoneAssumption == None \notin Keys /\ None \notin Digests

VARIABLES
    jobs,       \* _records, by the order in which the jobs were accepted
    binding,    \* _idempotency: the job a key is bound to, 0 when it is free
    task,       \* where each job's task stands, and the deadline of its executor
    queue,      \* the tasks that wait for the semaphore
    reader,     \* event streams, and what each one has delivered
    closed,     \* _closed
    now         \* the clock

vars == <<jobs, binding, task, queue, reader, closed, now>>

Jobs == 1..MaxJobs

JobStates == {"absent", "queued", "running", "succeeded", "failed", "expired", "trimmed"}
EventNames == {"queued", "running", "progress", "completed", "failed"}
Steps == {"none", "waiting", "executing", "completing", "failing", "done"}

NoJob ==
    [state |-> "absent", digest |-> None, key |-> None, expires_at |-> 0, terminal_at |-> 0,
     sequence |-> 0, progress |-> 0, events |-> <<>>]

NoReader == [pc |-> "idle", job |-> 0, after |-> 0, got |-> <<>>]

TypeOK ==
    /\ jobs \in [Jobs -> [state: JobStates, digest: Digests \cup {None}, key: Keys \cup {None},
                          expires_at: Nat, terminal_at: Nat, sequence: Nat,
                          progress: 0..MaxProgress, events: Seq([id: Nat, name: EventNames])]]
    /\ binding \in [Keys -> 0..MaxJobs]
    /\ task \in [Jobs -> [pc: Steps, deadline: Nat]]
    /\ queue \in Seq(Jobs)
    /\ reader \in [Readers -> [pc: {"idle", "open", "ended", "expired", "closed", "broken"},
                               job: 0..MaxJobs, after: Nat, got: Seq(Nat)]]
    /\ closed \in BOOLEAN
    /\ now \in Nat

Init ==
    /\ jobs = [j \in Jobs |-> NoJob]
    /\ binding = [k \in Keys |-> 0]
    /\ task = [j \in Jobs |-> [pc |-> "none", deadline |-> 0]]
    /\ queue = <<>>
    /\ reader = [r \in Readers |-> NoReader]
    /\ closed = FALSE
    /\ now = 0

-----------------------------------------------------------------------------
(* Records.                                                                *)

Ended(j) == jobs[j].state \in {"succeeded", "failed"}

InState(records, states) == {j \in Jobs : records[j].state \in states}
Active(records) == InState(records, {"queued", "running"})
Retained(records) == InState(records, JobStates \ {"absent", "trimmed"})

\* _append_event_locked.
WithEvent(job, name) ==
    [job EXCEPT !.sequence = @ + 1,
                !.events = Append(@, [id |-> job.sequence + 1, name |-> name])]

Expirable(j) == Ended(j) /\ now >= jobs[j].terminal_at + Retention

\* _expire_record_locked, of the jobs of a set.
Expire(S) ==
    [j \in Jobs |->
        IF j \in S /\ Expirable(j)
        THEN [jobs[j] EXCEPT !.state = "expired", !.events = <<>>]
        ELSE jobs[j]]

\* Mutant: an expired record leaves its key bound.
UnbindNothing(S) == binding

Unbind(S) ==
    [k \in Keys |->
        IF \E j \in S : Expirable(j) /\ jobs[j].key = k THEN 0 ELSE binding[k]]

\* Mutant: the oldest records go, whatever their state.
TrimOldest ==
    LET records == Expire(Jobs)
        excess == Cardinality(Retained(records)) - MaxRetained + 1
    IN  [j \in Jobs |->
            IF j \in Retained(records)
               /\ Cardinality({i \in Retained(records) : i <= j}) <= excess
            THEN [NoJob EXCEPT !.state = "trimmed"]
            ELSE records[j]]

\* _expire_and_trim_locked: all that may expire does, then the oldest expired records
\* go until there is room for one more.
Swept ==
    LET records == Expire(Jobs)
        expired == InState(records, {"expired"})
        excess == Cardinality(Retained(records)) - MaxRetained + 1
    IN  [j \in Jobs |->
            IF j \in expired /\ Cardinality({i \in expired : i <= j}) <= excess
            THEN [NoJob EXCEPT !.state = "trimmed"]
            ELSE records[j]]

-----------------------------------------------------------------------------
(* submit, status, aclose.                                                 *)

\* A replay, a conflict, exhausted capacity and a denied admission all answer after
\* the sweep and change nothing else.
SubmitAnswered ==
    /\ ~closed
    /\ jobs' = Swept /\ binding' = Unbind(Jobs)
    /\ UNCHANGED <<task, queue, reader, closed, now>>

\* Mutant: a job of the last batch is promised one timeout less.
ExpiresAtRounded(active) == now + (active \div Concurrency) * Timeout + Retention

ExpiresAt(active) == now + (active \div Concurrency + 1) * Timeout + Retention

HasCapacity(records) ==
    /\ Cardinality(Active(records)) < Concurrency + QueueCapacity
    /\ Cardinality(Retained(records)) < MaxRetained

\* A new job: the next number is free, and the bound leaves time to see it expire.
SubmitCreates(key, d) ==
    LET promise == ExpiresAt(Cardinality(Active(Swept))) IN
    /\ ~closed
    /\ key # None => Unbind(Jobs)[key] = 0
    /\ HasCapacity(Swept)
    /\ promise <= MaxTime
    /\ \E j \in Jobs :
        /\ jobs[j].state = "absent"
        /\ \A i \in 1..(j - 1) : jobs[i].state # "absent"
        /\ jobs' = [Swept EXCEPT ![j] = WithEvent(
                [NoJob EXCEPT !.state = "queued", !.digest = d, !.key = key,
                              !.expires_at = promise], "queued")]
        /\ binding' = [k \in Keys |-> IF k = key THEN j ELSE Unbind(Jobs)[k]]
        /\ task' = [task EXCEPT ![j].pc = "waiting"]
        /\ queue' = Append(queue, j)
    /\ UNCHANGED <<reader, closed, now>>

\* status, and an open_events that is refused: either expires the record it looks at.
ExpiresOnLook(j) ==
    /\ Expirable(j)
    /\ jobs' = Expire({j}) /\ binding' = Unbind({j})
    /\ UNCHANGED <<task, queue, reader, closed, now>>

\* Every task is cancelled and leaves its record as it is.
Close ==
    /\ ~closed
    /\ closed' = TRUE
    /\ task' = [j \in Jobs |-> IF task[j].pc = "none" THEN task[j]
                               ELSE [pc |-> "done", deadline |-> 0]]
    /\ queue' = <<>>
    /\ UNCHANGED <<jobs, binding, reader, now>>

-----------------------------------------------------------------------------
(* _execute: the task of a job.                                            *)

\* The tasks inside the semaphore.
Holding == {j \in Jobs : task[j].pc \in {"executing", "completing"}}

\* Mutant: a task that fails keeps its slot.
FreeSlotLeaked == Cardinality(Holding \cup InState(jobs, {"failed"})) < Concurrency

FreeSlot == Cardinality(Holding) < Concurrency

\* Mutant: the semaphore wakes the task that came last.
NextInLineLast(j) == j = queue[Len(queue)]

NextInLine(j) == j = Head(queue)

Start(j) ==
    /\ queue # <<>> /\ NextInLine(j)
    /\ FreeSlot
    /\ jobs[j].state = "queued"
    /\ queue' = Tail(queue)
    /\ jobs' = [jobs EXCEPT ![j] = WithEvent([@ EXCEPT !.state = "running"], "running")]
    /\ task' = [task EXCEPT ![j] = [pc |-> "executing", deadline |-> now + Timeout]]
    /\ UNCHANGED <<binding, reader, closed, now>>

\* Mutant: the count of progress events is compared too late.
MayReportOneMore(j) == jobs[j].progress <= MaxProgress

MayReport(j) == jobs[j].progress < MaxProgress

\* A value that does not grow is ignored or refused; so is one event too many.
Progress(j) ==
    /\ task[j].pc = "executing"
    /\ jobs[j].state = "running"
    /\ MayReport(j)
    /\ jobs' = [jobs EXCEPT ![j] =
            WithEvent([@ EXCEPT !.progress = jobs[j].progress + 1], "progress")]
    /\ UNCHANGED <<binding, task, queue, reader, closed, now>>

Returns(j) ==
    /\ task[j].pc = "executing"
    /\ task' = [task EXCEPT ![j].pc = "completing", ![j].deadline = 0]
    /\ UNCHANGED <<jobs, binding, queue, reader, closed, now>>

\* The executor raises, a progress value is refused, or the result carries another
\* identity.  The exception leaves the semaphore first, so that the next job may be
\* running before this one's record stops saying so.
Breaks(j) ==
    /\ task[j].pc \in {"executing", "completing"}
    /\ task' = [task EXCEPT ![j].pc = "failing", ![j].deadline = 0]
    /\ UNCHANGED <<jobs, binding, queue, reader, closed, now>>

TimesOut(j) ==
    /\ task[j].pc = "executing" /\ now = task[j].deadline
    /\ Breaks(j)

\* _complete.
Complete(j) ==
    /\ task[j].pc = "completing"
    /\ jobs[j].state = "running"
    /\ jobs' = [jobs EXCEPT ![j] =
            WithEvent([@ EXCEPT !.state = "succeeded", !.terminal_at = now], "completed")]
    /\ task' = [task EXCEPT ![j].pc = "done"]
    /\ UNCHANGED <<binding, queue, reader, closed, now>>

\* _fail: a record that is over already is left alone.
Fail(j) ==
    /\ task[j].pc = "failing"
    /\ jobs' = IF jobs[j].state \in {"queued", "running"}
               THEN [jobs EXCEPT ![j] =
                        WithEvent([@ EXCEPT !.state = "failed", !.terminal_at = now], "failed")]
               ELSE jobs
    /\ task' = [task EXCEPT ![j].pc = "done"]
    /\ UNCHANGED <<binding, queue, reader, closed, now>>

\* What the task does of its own accord, without the executor.
TaskStep(j) == Start(j) \/ Complete(j) \/ Fail(j) \/ TimesOut(j)

-----------------------------------------------------------------------------
(* open_events and _event_stream: one stream per reader.                   *)

OpenEvents(r, j) ==
    /\ reader[r].pc = "idle"
    /\ jobs[j].state \notin {"absent", "trimmed", "expired"} /\ ~Expirable(j)
    /\ \E after \in 0..jobs[j].sequence :
        reader' = [reader EXCEPT ![r] =
            [pc |-> "open", job |-> j, after |-> after, got |-> <<>>]]
    /\ UNCHANGED <<jobs, binding, task, queue, closed, now>>

Cursor(r) ==
    IF reader[r].got = <<>> THEN reader[r].after ELSE reader[r].got[Len(reader[r].got)]

\* The places of the events of its job that the stream has not delivered.
Available(r) ==
    LET events == jobs[reader[r].job].events IN
    {i \in DOMAIN events : events[i].id > Cursor(r)}

\* The next event of a live record is yielded.
Deliver(r) ==
    LET j == reader[r].job IN
    /\ reader[r].pc = "open"
    /\ jobs[j].state \notin {"trimmed", "expired"} /\ ~Expirable(j)
    /\ \E i \in Available(r) :
        /\ \A k \in Available(r) : i <= k
        /\ reader' = [reader EXCEPT ![r].got = Append(@, jobs[j].events[i].id)]
    /\ UNCHANGED <<jobs, binding, task, queue, closed, now>>

\* Mutant: a stream ends with its job, before what it has left is delivered.
NothingLeftAnyway(r) == Ended(reader[r].job)

NothingLeft(r) == Ended(reader[r].job) /\ Available(r) = {}

\* The stream ends: all is delivered, or the manager closes, or the record expires
\* under the stream, or it is gone and the lookup raises.
Finish(r) ==
    LET j == reader[r].job IN
    /\ reader[r].pc = "open"
    /\ \/ /\ NothingLeft(r) /\ ~Expirable(j)
          /\ reader' = [reader EXCEPT ![r].pc = "ended"]
       \/ /\ closed /\ jobs[j].state \in {"queued", "running"} /\ Available(r) = {}
          /\ reader' = [reader EXCEPT ![r].pc = "closed"]
       \/ /\ jobs[j].state = "expired" \/ Expirable(j)
          /\ reader' = [reader EXCEPT ![r].pc = "expired"]
       \/ /\ jobs[j].state = "trimmed"
          /\ reader' = [reader EXCEPT ![r].pc = "broken"]
    /\ jobs' = Expire({j}) /\ binding' = Unbind({j})
    /\ UNCHANGED <<task, queue, closed, now>>

\* The subscriber goes away; its job does not notice.
Disconnect(r) ==
    /\ reader[r].pc \in {"open", "ended", "expired", "closed", "broken"}
    /\ reader' = [reader EXCEPT ![r] = NoReader]
    /\ UNCHANGED <<jobs, binding, task, queue, closed, now>>

-----------------------------------------------------------------------------
\* Nothing is ready to run: the event loop waits.
Idle ==
    /\ \A j \in Jobs : task[j].pc \notin {"completing", "failing"}
    /\ \A j \in Jobs : task[j].pc = "executing" => now < task[j].deadline
    /\ queue # <<>> => ~FreeSlot

Tick ==
    /\ now < MaxTime
    /\ Idle
    /\ now' = now + 1
    /\ UNCHANGED <<jobs, binding, task, queue, reader, closed>>

Next ==
    \/ SubmitAnswered
    \/ \E key \in Keys \cup {None}, d \in Digests : SubmitCreates(key, d)
    \/ \E j \in Jobs : ExpiresOnLook(j)
    \/ Close
    \/ \E j \in Jobs : TaskStep(j) \/ Progress(j) \/ Returns(j) \/ Breaks(j)
    \/ \E r \in Readers : (\E j \in Jobs : OpenEvents(r, j)) \/ Deliver(r) \/ Finish(r)
                          \/ Disconnect(r)
    \/ Tick

Spec == Init /\ [][Next]_vars

\* The event loop runs every task that is ready, and the clock goes on.
FairSpec == Spec /\ WF_vars(Tick) /\ \A j \in Jobs : WF_vars(TaskStep(j))

-----------------------------------------------------------------------------
(* Properties.                                                             *)

\* The manager implements the job service: one way through the states, first come
\* first served, bounded work, and no outcome dropped before its retention is over.
Service == INSTANCE JobService WITH
    Capacity <- Concurrency + QueueCapacity,
    life <- [j \in Jobs |-> jobs[j].state],
    kept <- {j \in Jobs : Ended(j) /\ now < jobs[j].terminal_at + Retention}

ImplementsService == Service!Spec

\* A key is bound to the one retained, unexpired job that was accepted with it: a replay
\* finds its record, and a key whose job has expired is free again.
KeysNameLiveJobs ==
    \A k \in Keys :
        LET named == {j \in Jobs : jobs[j].key = k /\ jobs[j].state # "expired"}
        IN  named = IF binding[k] = 0 THEN {} ELSE {binding[k]}

\* Every task that is not over finds its record, in the state its next step needs; only
\* a closed manager has records that no task will end.  Trimming makes room for new jobs
\* without ever taking a record from under its task.
TasksOwnTheirJobs ==
    /\ \A j \in Jobs :
        /\ task[j].pc = "waiting" => jobs[j].state = "queued"
        /\ task[j].pc \in {"executing", "completing", "failing"} => jobs[j].state = "running"
        /\ task[j].pc = "done" /\ ~closed => jobs[j].state \notin {"queued", "running"}
    /\ Cardinality(Retained(jobs)) <= MaxRetained

\* Records, keys and tasks belong together while records expire and are trimmed.
JobsAreOwned == KeysNameLiveJobs /\ TasksOwnTheirJobs

\* A stream delivers consecutive events from its cursor on, each once; one that ends
\* with its job has delivered the last, which is the outcome.
StreamsAreExact ==
    \A r \in Readers :
        LET got == reader[r].got
            job == jobs[reader[r].job]
        IN
        /\ \A i \in 1..Len(got) : got[i] = reader[r].after + i
        /\ reader[r].pc = "ended" /\ job.state \in {"succeeded", "failed"} =>
            /\ reader[r].after + Len(got) = job.sequence
            /\ job.events[job.sequence].name \in {"completed", "failed"}

\* expires_at, promised when a job is accepted, holds: by then, whatever was ahead of it
\* in the queue, the job is over and its outcome was there for the retention.
PromiseIsKept ==
    \A j \in Jobs :
        ~closed /\ jobs[j].state \in {"queued", "running", "succeeded", "failed"} =>
            /\ Ended(j) => jobs[j].terminal_at + Retention <= jobs[j].expires_at
            /\ now >= jobs[j].expires_at => Ended(j)

\* An accepted job ends, unless the manager is closed first.
EveryJobEnds ==
    \A j \in Jobs :
        jobs[j].state = "queued" ~> closed \/ jobs[j].state \notin {"queued", "running"}
=============================================================================
