--------------------------- MODULE SolveJobsProofs ---------------------------
(***************************************************************************)
(* Proofs about SolveJobs for every number of jobs, keys and subscribers,  *)
(* and for every capacity, bound on progress, timeout and retention.  The  *)
(* inductive invariant says of each record that its events are numbered    *)
(* without a gap, of each stream that it lies within its record, and of    *)
(* the queue that it holds the queued jobs in the order of acceptance.     *)
(* OnTime adds when each job starts and ends, and is what the promise of   *)
(* expires_at rests on.                                                    *)
(***************************************************************************)
EXTENDS SolveJobs, FiniteSetTheorems, SequenceTheorems, TLAPS

Event == [id : Nat, name : EventNames]
Record ==
    [state : JobStates, digest : Digests \cup {None}, key : Keys \cup {None},
     expires_at : Nat, terminal_at : Nat, sequence : Nat, progress : 0..MaxProgress,
     events : Seq(Event)]

Trimmed == [NoJob EXCEPT !.state = "trimmed"]
Forgotten(n) == [n EXCEPT !.state = "expired", !.events = <<>>]

\* A record that is there has every event it ever had, and the last is its outcome.
RecordOk(n) ==
    /\ n \in Record
    /\ n.state = "absent" => n = NoJob
    /\ n.state \notin {"expired", "trimmed"} =>
        /\ Len(n.events) = n.sequence
        /\ \A i \in 1..n.sequence : n.events[i].id = i
    /\ n.state \in {"succeeded", "failed"} =>
        n.sequence > 0 /\ n.events[n.sequence].name \in {"completed", "failed"}

\* A stream has delivered what follows its cursor in a record that was once there.
ReaderOk(v, n) ==
    /\ v \in [pc : {"idle", "open", "ended", "expired", "closed", "broken"},
              job : 0..MaxJobs, after : Nat, got : Seq(Nat)]
    /\ \A i \in 1..Len(v.got) : v.got[i] = v.after + i
    /\ v.pc # "idle" =>
        /\ v.job \in Jobs
        /\ n.state # "absent"
        /\ n.state # "trimmed" => v.after + Len(v.got) <= n.sequence
        /\ v.pc = "ended" =>
            /\ n.state \notin {"queued", "running"}
            /\ n.state \in {"succeeded", "failed"} => v.after + Len(v.got) = n.sequence

\* Numbers are given in the order of acceptance.
Numbered == \A j \in Jobs : jobs[j].state = "absent" =>
    \A i \in Jobs : j <= i => jobs[i].state = "absent"

\* The queue holds the jobs that wait, first come first served; closing empties it.
QueueInv ==
    /\ closed => queue = <<>>
    /\ \A i \in 1..Len(queue) : jobs[queue[i]].state # "absent"
    /\ \A i, k \in 1..Len(queue) : i < k => queue[i] < queue[k]
    /\ ~closed => \A j \in Jobs : jobs[j].state = "queued" => \E i \in 1..Len(queue) : queue[i] = j

IInv ==
    /\ TypeOK
    /\ \A j \in Jobs : RecordOk(jobs[j])
    /\ \A r \in Readers : ReaderOk(reader[r], jobs[reader[r].job])
    /\ Numbered
    /\ QueueInv
    /\ KeysNameLiveJobs
    /\ TasksOwnTheirJobs
    /\ Cardinality(Active(jobs)) <= Concurrency + QueueCapacity
-----------------------------------------------------------------------------
(* Records.                                                                *)

LEMMA JobsAreFinite ==
    ASSUME NEW S \in SUBSET Jobs
    PROVE  IsFiniteSet(S) /\ Cardinality(S) \in Nat
<1>1. IsFiniteSet(Jobs)
  BY FS_Interval, BoundsAssumption DEF Jobs
<1> QED
  BY <1>1, FS_Subset, FS_CardinalityType

LEMMA NoJobOk == RecordOk(NoJob)
<1>1. NoJob \in Record
  BY BoundsAssumption DEF NoJob, Record, JobStates
<1> QED
  BY <1>1 DEF RecordOk, NoJob

LEMMA TrimmedOk == RecordOk(Trimmed) /\ Trimmed.state = "trimmed" /\ Trimmed.key = None
<1>1. Trimmed \in Record
  BY NoJobOk DEF RecordOk, Trimmed, Record, JobStates
<1>2. Trimmed.state = "trimmed" /\ Trimmed.key = None
  BY DEF Trimmed, NoJob
<1> QED
  BY <1>1, <1>2 DEF RecordOk

LEMMA ForgottenOk ==
    ASSUME NEW n, RecordOk(n)
    PROVE  LET m == Forgotten(n) IN
           RecordOk(m) /\ m.state = "expired" /\ m.key = n.key /\ m.sequence = n.sequence
<1> DEFINE m == Forgotten(n)
<1>1. m \in Record
  <2>1. n \in Record /\ "expired" \in JobStates /\ <<>> \in Seq(Event)
    BY DEF RecordOk, JobStates
  <2> QED
    BY <2>1 DEF Forgotten, Record
<1>2. m.state = "expired" /\ m.key = n.key /\ m.sequence = n.sequence
  BY DEF RecordOk, Forgotten, Record
<1> QED
  BY <1>1, <1>2 DEF RecordOk

\* Appending the next event to a record that has all of them.
LEMMA WithEventOk ==
    ASSUME NEW m \in Record, Len(m.events) = m.sequence,
           \A i \in 1..m.sequence : m.events[i].id = i,
           m.state \in {"queued", "running", "succeeded", "failed"},
           NEW name \in EventNames,
           m.state \in {"succeeded", "failed"} => name \in {"completed", "failed"}
    PROVE  LET n == WithEvent(m, name) IN
           /\ RecordOk(n)
           /\ n.state = m.state /\ n.key = m.key /\ n.sequence = m.sequence + 1
           /\ n.terminal_at = m.terminal_at
<1> DEFINE e == [id |-> m.sequence + 1, name |-> name]
           events == Append(m.events, e)
           n == WithEvent(m, name)
<1>1. /\ m.sequence \in Nat /\ m.events \in Seq(Event)
      /\ e \in Event /\ e.id = m.sequence + 1 /\ e.name = name
  BY DEF Record, Event
<1>2. /\ events \in Seq(Event) /\ Len(events) = m.sequence + 1
      /\ \A i \in 1..m.sequence : events[i] = m.events[i]
      /\ events[m.sequence + 1] = e
  <2> HIDE DEF e
  <2> QED
    BY <1>1
<1> HIDE DEF e, events
<1>3. /\ n.state = m.state /\ n.key = m.key /\ n.terminal_at = m.terminal_at
      /\ n.sequence = m.sequence + 1 /\ n.events = events
  BY DEF WithEvent, Record, events, e
<1>4. n \in Record
  <2>1. n = [m EXCEPT !.sequence = @ + 1, !.events = events]
    BY DEF WithEvent, Record, events, e
  <2>2. m.sequence + 1 \in Nat
    BY <1>1
  <2> QED
    BY <1>2, <2>1, <2>2 DEF Record
<1> HIDE DEF n
<1>5. /\ Len(n.events) = n.sequence
      /\ \A i \in 1..n.sequence : n.events[i].id = i
      /\ n.sequence > 0 /\ n.events[n.sequence].name = name
  <2>1. \A i \in 1..(m.sequence + 1) : events[i].id = i
    <3> SUFFICES ASSUME NEW i \in 1..(m.sequence + 1) PROVE events[i].id = i
      OBVIOUS
    <3>1. i \in 1..m.sequence \/ i = m.sequence + 1
      BY <1>1
    <3> QED
      BY <1>1, <1>2, <3>1
  <2> QED
    BY <1>1, <1>2, <1>3, <2>1
<1>6. RecordOk(n)
  BY <1>3, <1>4, <1>5 DEF RecordOk
<1> QED
  BY <1>3, <1>6 DEF n

-----------------------------------------------------------------------------
(* How a record may change under a stream.                                 *)

Evolves(m, n) ==
    /\ m.state # "absent" => n.state # "absent"
    /\ m.state # "absent" /\ n.state # "trimmed" =>
        m.state # "trimmed" /\ n.sequence >= m.sequence
    /\ m.state \notin {"absent", "queued", "running"} =>
        /\ n.state \notin {"absent", "queued", "running"}
        /\ n.state \in {"succeeded", "failed"} =>
            m.state \in {"succeeded", "failed"} /\ n.sequence = m.sequence

LEMMA StreamKept ==
    ASSUME NEW v, NEW m, NEW n, RecordOk(m), RecordOk(n), Evolves(m, n), ReaderOk(v, m)
    PROVE  ReaderOk(v, n)
<1>1. m.sequence \in Nat /\ n.sequence \in Nat
  BY DEF RecordOk, Record
<1>2. v.after \in Nat /\ Len(v.got) \in Nat
  BY DEF ReaderOk
<1> QED
  BY <1>1, <1>2 DEF ReaderOk, Evolves

\* Streams that a step leaves alone, while records evolve.
LEMMA StreamsKept ==
    ASSUME IInv, NEW records, \A j \in Jobs : RecordOk(records[j]) /\ Evolves(jobs[j], records[j]),
           NEW r \in Readers
    PROVE  ReaderOk(reader[r], records[reader[r].job])
<1>1. ReaderOk(reader[r], jobs[reader[r].job])
  BY DEF IInv
<1>2. CASE reader[r].pc = "idle"
  BY <1>1, <1>2 DEF ReaderOk
<1>3. CASE reader[r].pc # "idle"
  <2>1. reader[r].job \in Jobs
    BY <1>1, <1>3 DEF ReaderOk
  <2> QED
    BY <1>1, <2>1, StreamKept DEF IInv
<1> QED
  BY <1>2, <1>3

-----------------------------------------------------------------------------
(* Expiry and trimming.                                                    *)

\* The records after a sweep that expires those of the set S that may expire.
Ages(S, records) ==
    \A j \in Jobs :
        IF j \in S /\ Expirable(j)
        THEN records[j] \in {Forgotten(jobs[j]), Trimmed}
        ELSE records[j] = jobs[j] \/ (jobs[j].state = "expired" /\ records[j] = Trimmed)

\* A key names the record that is bound to it.
KeysOk(records, b) ==
    \A k \in Keys :
        {j \in Jobs : records[j].key = k /\ records[j].state # "expired"}
        = IF b[k] = 0 THEN {} ELSE {b[k]}

LEMMA ExpireAges ==
    ASSUME NEW S \in SUBSET Jobs
    PROVE  Ages(S, Expire(S))
<1>1. \A j \in Jobs : Expire(S)[j] = IF j \in S /\ Expirable(j) THEN Forgotten(jobs[j]) ELSE jobs[j]
  BY DEF Expire, Forgotten
<1> QED
  BY <1>1 DEF Ages

LEMMA SweptAges ==
    ASSUME IInv
    PROVE  Ages(Jobs, Swept)
<1> SUFFICES ASSUME NEW j \in Jobs
             PROVE  IF Expirable(j) THEN Swept[j] \in {Forgotten(jobs[j]), Trimmed}
                    ELSE Swept[j] = jobs[j] \/ (jobs[j].state = "expired" /\ Swept[j] = Trimmed)
  BY DEF Ages
<1>1. Expire(Jobs)[j] = IF Expirable(j) THEN Forgotten(jobs[j]) ELSE jobs[j]
  BY DEF Expire, Forgotten
<1>2. Swept[j] \in {Expire(Jobs)[j], Trimmed}
  BY DEF Swept, Trimmed
<1>3. Swept[j] = Expire(Jobs)[j] \/ Expire(Jobs)[j].state = "expired"
  BY DEF Swept, InState
<1>4. CASE Expirable(j)
  BY <1>1, <1>2, <1>4
<1>5. CASE ~Expirable(j)
  BY <1>1, <1>2, <1>3, <1>5
<1> QED
  BY <1>4, <1>5

\* What a sweep keeps.
LEMMA AgedKeep ==
    ASSUME IInv, NEW S \in SUBSET Jobs, NEW records, Ages(S, records)
    PROVE  /\ \A j \in Jobs : RecordOk(records[j]) /\ Evolves(jobs[j], records[j])
           /\ \A j \in Jobs :
                \/ records[j] = jobs[j]
                \/ /\ jobs[j].state \in {"succeeded", "failed", "expired"}
                   /\ records[j].state \in {"expired", "trimmed"}
           /\ KeysOk(records, Unbind(S))
           /\ Active(records) = Active(jobs)
           /\ Retained(records) \subseteq Retained(jobs)
<1>1. \A j \in Jobs : RecordOk(jobs[j])
  BY DEF IInv
<1>2. \A j \in Jobs : Expirable(j) => jobs[j].state \in {"succeeded", "failed"}
  BY DEF Expirable, Ended
<1>3. \A j \in Jobs : RecordOk(records[j])
  BY <1>1, ForgottenOk, TrimmedOk DEF Ages
<1>4. \A j \in Jobs :
         \/ records[j] = jobs[j]
         \/ /\ jobs[j].state \in {"succeeded", "failed", "expired"}
            /\ records[j].state \in {"expired", "trimmed"}
            /\ records[j].state = "expired" => records[j].sequence = jobs[j].sequence
  BY <1>1, <1>2, ForgottenOk, TrimmedOk DEF Ages
<1>5. \A j \in Jobs : Evolves(jobs[j], records[j])
  <2>1. \A j \in Jobs : jobs[j].sequence \in Nat
    BY <1>1 DEF RecordOk, Record
  <2> QED
    BY <1>4, <2>1 DEF Evolves
<1>6. KeysOk(records, Unbind(S))
  <2> SUFFICES ASSUME NEW k \in Keys
               PROVE  {j \in Jobs : records[j].key = k /\ records[j].state # "expired"}
                      = IF Unbind(S)[k] = 0 THEN {} ELSE {Unbind(S)[k]}
    BY DEF KeysOk
  <2>1. k # None
    BY NoneAssumption
  <2>2. \A j \in Jobs : records[j].key = k /\ records[j].state # "expired"
            <=> /\ jobs[j].key = k /\ jobs[j].state # "expired"
                /\ ~(j \in S /\ Expirable(j))
    BY <1>1, <1>2, <2>1, ForgottenOk, TrimmedOk DEF Ages
  <2>3. {j \in Jobs : jobs[j].key = k /\ jobs[j].state # "expired"}
        = IF binding[k] = 0 THEN {} ELSE {binding[k]}
    BY DEF IInv, KeysNameLiveJobs
  <2>4. Unbind(S)[k] = IF \E j \in S : Expirable(j) /\ jobs[j].key = k THEN 0 ELSE binding[k]
    BY DEF Unbind
  <2>5. CASE \E j \in S : Expirable(j) /\ jobs[j].key = k
    BY <1>2, <2>2, <2>3, <2>4, <2>5
  <2>6. CASE ~\E j \in S : Expirable(j) /\ jobs[j].key = k
    BY <2>2, <2>3, <2>4, <2>6
  <2> QED
    BY <2>5, <2>6
<1>7. Active(records) = Active(jobs)
  BY <1>4 DEF Active, InState
<1>8. Retained(records) \subseteq Retained(jobs)
  <2>1. \A j \in Jobs : jobs[j].state \in JobStates
    BY <1>1 DEF RecordOk, Record
  <2> QED
    BY <1>4, <2>1 DEF Retained, InState
<1> QED
  BY <1>3, <1>4, <1>5, <1>6, <1>7, <1>8

-----------------------------------------------------------------------------
(* Parts of a step.                                                        *)

LEMMA JobsAreRecords == TypeOK => jobs \in [Jobs -> Record]
  BY DEF TypeOK, Record, Event

LEMMA InvariantOfParts ==
    ASSUME jobs' \in [Jobs -> Record],
           binding' \in [Keys -> 0..MaxJobs],
           task' \in [Jobs -> [pc: Steps, deadline: Nat]],
           queue' \in Seq(Jobs), closed' \in BOOLEAN, now' \in Nat,
           DOMAIN reader' = Readers, reader' = [r \in Readers |-> reader'[r]],
           \A j \in Jobs : RecordOk(jobs'[j]),
           \A r \in Readers : ReaderOk(reader'[r], jobs'[reader'[r].job]),
           Numbered', QueueInv', KeysOk(jobs', binding'), TasksOwnTheirJobs',
           Cardinality(Active(jobs')) <= Concurrency + QueueCapacity
    PROVE  IInv'
<1>1. \A r \in Readers : reader'[r] \in
        [pc: {"idle", "open", "ended", "expired", "closed", "broken"},
         job: 0..MaxJobs, after: Nat, got: Seq(Nat)]
  BY DEF ReaderOk
<1>2. TypeOK'
  BY <1>1 DEF TypeOK, Record, Event
<1>3. KeysNameLiveJobs'
  BY DEF KeysOk, KeysNameLiveJobs
<1> QED
  BY <1>2, <1>3 DEF IInv

\* What the invariant says, in the form the steps use it.
LEMMA PartsOfInvariant ==
    ASSUME IInv
    PROVE  /\ jobs \in [Jobs -> Record]
           /\ binding \in [Keys -> 0..MaxJobs]
           /\ task \in [Jobs -> [pc: Steps, deadline: Nat]]
           /\ queue \in Seq(Jobs) /\ closed \in BOOLEAN /\ now \in Nat
           /\ DOMAIN reader = Readers /\ reader = [r \in Readers |-> reader[r]]
           /\ \A j \in Jobs : RecordOk(jobs[j])
           /\ \A r \in Readers : ReaderOk(reader[r], jobs[reader[r].job])
           /\ KeysOk(jobs, binding)
  BY JobsAreRecords DEF IInv, TypeOK, KeysOk, KeysNameLiveJobs

LEMMA FewerJobs ==
    ASSUME NEW T \in SUBSET Jobs, NEW S \in SUBSET T
    PROVE  Cardinality(S) <= Cardinality(T)
  BY JobsAreFinite, FS_Subset

LEMMA QueueKept ==
    ASSUME QueueInv, queue' = queue, closed' = closed, queue \in Seq(Jobs),
           \A j \in Jobs :
                /\ jobs'[j].state = "absent" => jobs[j].state = "absent"
                /\ jobs'[j].state = "queued" => jobs[j].state = "queued"
    PROVE  QueueInv'
<1>1. \A i \in 1..Len(queue) : queue[i] \in Jobs
  OBVIOUS
<1>2. \A i \in 1..Len(queue') : jobs'[queue'[i]].state # "absent"
  <2> SUFFICES ASSUME NEW i \in 1..Len(queue) PROVE jobs'[queue[i]].state # "absent"
    OBVIOUS
  <2>1. queue[i] \in Jobs /\ jobs[queue[i]].state # "absent"
    BY <1>1 DEF QueueInv
  <2> QED
    BY <2>1
<1>3. ~closed' => \A j \in Jobs :
        jobs'[j].state = "queued" => \E i \in 1..Len(queue') : queue'[i] = j
  BY DEF QueueInv
<1>4. closed' => queue' = <<>>
  BY DEF QueueInv
<1> QED
  BY <1>2, <1>3, <1>4 DEF QueueInv

\* A step of the task of one job that writes one event.
LEMMA OneRecordStep ==
    ASSUME IInv, NEW j \in Jobs, NEW n, RecordOk(n), jobs' = [jobs EXCEPT ![j] = n],
           jobs[j].state \in {"queued", "running"},
           n.state \in {"running", "succeeded", "failed"}, n.key = jobs[j].key,
           n.sequence = jobs[j].sequence + 1,
           UNCHANGED <<binding, reader, closed, now>>,
           task' \in [Jobs -> [pc: Steps, deadline: Nat]], queue' \in Seq(Jobs), QueueInv',
           \A i \in Jobs \ {j} : task'[i] = task[i],
           task'[j].pc # "waiting",
           task'[j].pc \in {"executing", "completing", "failing"} => n.state = "running",
           task'[j].pc = "done" => n.state # "running"
    PROVE  IInv'
<1> USE PartsOfInvariant
<1>1. /\ \A i \in Jobs : jobs'[i] = IF i = j THEN n ELSE jobs[i]
      /\ n \in Record /\ jobs[j] \in Record
      /\ \A i \in Jobs : RecordOk(jobs'[i])
  BY DEF RecordOk
<1>2. jobs' \in [Jobs -> Record]
  BY <1>1
<1>3. \A i \in Jobs : Evolves(jobs[i], jobs'[i])
  <2>1. \A i \in Jobs : jobs[i].sequence \in Nat
    BY DEF Record
  <2> QED
    BY <1>1, <2>1 DEF Evolves
<1>4. \A r \in Readers : ReaderOk(reader'[r], jobs'[reader'[r].job])
  BY <1>1, <1>3, StreamsKept
<1>5. Numbered'
  BY <1>1 DEF IInv, Numbered
<1>6. KeysOk(jobs', binding')
  BY <1>1 DEF KeysOk
<1>7. Active(jobs') \subseteq Active(jobs) /\ Retained(jobs') \subseteq Retained(jobs)
  <2>1. \A i \in Jobs : jobs[i].state \in JobStates
    BY DEF Record
  <2> QED
    BY <1>1, <2>1 DEF Active, Retained, InState
<1>8. /\ Active(jobs) \subseteq Jobs /\ Retained(jobs) \subseteq Jobs
      /\ Active(jobs') \subseteq Jobs /\ Retained(jobs') \subseteq Jobs
  BY DEF Active, Retained, InState
<1>9. /\ Cardinality(Active(jobs')) <= Concurrency + QueueCapacity
      /\ Cardinality(Retained(jobs')) <= MaxRetained
  <2>1. /\ Cardinality(Active(jobs')) <= Cardinality(Active(jobs))
        /\ Cardinality(Retained(jobs')) <= Cardinality(Retained(jobs))
    BY <1>7, <1>8, FewerJobs
  <2>2. /\ Cardinality(Active(jobs)) \in Nat /\ Cardinality(Active(jobs')) \in Nat
        /\ Cardinality(Retained(jobs)) \in Nat /\ Cardinality(Retained(jobs')) \in Nat
    BY <1>8, JobsAreFinite
  <2>3. /\ Cardinality(Active(jobs)) <= Concurrency + QueueCapacity
        /\ Cardinality(Retained(jobs)) <= MaxRetained
    BY DEF IInv, TasksOwnTheirJobs
  <2> QED
    BY <2>1, <2>2, <2>3, CapacityAssumption
<1>10. TasksOwnTheirJobs'
  <2>1. \A i \in Jobs :
        /\ task'[i].pc = "waiting" => jobs'[i].state = "queued"
        /\ task'[i].pc \in {"executing", "completing", "failing"} => jobs'[i].state = "running"
        /\ task'[i].pc = "done" /\ ~closed => jobs'[i].state \notin {"queued", "running"}
    BY <1>1 DEF IInv, TasksOwnTheirJobs
  <2> QED
    BY <1>9, <2>1 DEF TasksOwnTheirJobs
<1> QED
  BY <1>1, <1>2, <1>4, <1>5, <1>6, <1>9, <1>10, InvariantOfParts

\* A step that only sweeps, and may move one stream.
LEMMA SweepStep ==
    ASSUME IInv, NEW S \in SUBSET Jobs, jobs' \in [Jobs -> Record], Ages(S, jobs'),
           binding' = Unbind(S), UNCHANGED <<task, queue, closed, now>>,
           DOMAIN reader' = Readers, reader' = [r \in Readers |-> reader'[r]],
           \A r \in Readers : reader'[r] = reader[r] \/ ReaderOk(reader'[r], jobs'[reader'[r].job])
    PROVE  IInv'
<1> USE PartsOfInvariant
<1>1. /\ \A j \in Jobs : RecordOk(jobs'[j]) /\ Evolves(jobs[j], jobs'[j])
      /\ \A j \in Jobs :
            \/ jobs'[j] = jobs[j]
            \/ /\ jobs[j].state \in {"succeeded", "failed", "expired"}
               /\ jobs'[j].state \in {"expired", "trimmed"}
      /\ KeysOk(jobs', Unbind(S))
      /\ Active(jobs') = Active(jobs)
      /\ Retained(jobs') \subseteq Retained(jobs)
  BY AgedKeep
<1>2. \A r \in Readers : ReaderOk(reader'[r], jobs'[reader'[r].job])
  BY <1>1, StreamsKept
<1>3. Numbered'
  BY <1>1 DEF IInv, Numbered
<1>4. QueueInv'
  BY <1>1, QueueKept DEF IInv
<1>5. binding' \in [Keys -> 0..MaxJobs]
  BY BoundsAssumption DEF Unbind
<1>6. Retained(jobs) \subseteq Jobs /\ Retained(jobs') \subseteq Jobs
  BY DEF Retained, InState
<1>7. Cardinality(Retained(jobs')) <= MaxRetained
  <2>1. Cardinality(Retained(jobs')) <= Cardinality(Retained(jobs))
    BY <1>1, <1>6, FewerJobs
  <2>2. Cardinality(Retained(jobs)) \in Nat /\ Cardinality(Retained(jobs')) \in Nat
    BY <1>6, JobsAreFinite
  <2>3. Cardinality(Retained(jobs)) <= MaxRetained
    BY DEF IInv, TasksOwnTheirJobs
  <2> QED
    BY <2>1, <2>2, <2>3, CapacityAssumption
<1>8. TasksOwnTheirJobs'
  <2>1. \A j \in Jobs :
        /\ task'[j].pc = "waiting" => jobs'[j].state = "queued"
        /\ task'[j].pc \in {"executing", "completing", "failing"} => jobs'[j].state = "running"
        /\ task'[j].pc = "done" /\ ~closed => jobs'[j].state \notin {"queued", "running"}
    BY <1>1 DEF IInv, TasksOwnTheirJobs
  <2> QED
    BY <1>7, <2>1 DEF TasksOwnTheirJobs
<1>9. Cardinality(Active(jobs')) <= Concurrency + QueueCapacity
  BY <1>1 DEF IInv
<1> QED
  BY <1>1, <1>2, <1>3, <1>4, <1>5, <1>8, <1>9, InvariantOfParts

\* A step that leaves the records and the keys alone.
LEMMA SameRecordsStep ==
    ASSUME IInv, UNCHANGED <<jobs, binding>>,
           task' \in [Jobs -> [pc: Steps, deadline: Nat]], queue' \in Seq(Jobs),
           closed' \in BOOLEAN, now' \in Nat,
           DOMAIN reader' = Readers, reader' = [r \in Readers |-> reader'[r]],
           \A r \in Readers : reader'[r] = reader[r] \/ ReaderOk(reader'[r], jobs[reader'[r].job]),
           QueueInv',
           \A j \in Jobs :
                /\ task'[j].pc = "waiting" => jobs[j].state = "queued"
                /\ task'[j].pc \in {"executing", "completing", "failing"} => jobs[j].state = "running"
                /\ task'[j].pc = "done" /\ ~closed' => jobs[j].state \notin {"queued", "running"}
    PROVE  IInv'
<1> USE PartsOfInvariant
<1>1. TasksOwnTheirJobs'
  BY DEF IInv, TasksOwnTheirJobs
<1>2. \A r \in Readers : ReaderOk(reader'[r], jobs'[reader'[r].job])
  OBVIOUS
<1>3. Numbered' /\ KeysOk(jobs', binding')
      /\ Cardinality(Active(jobs')) <= Concurrency + QueueCapacity
  BY DEF IInv, Numbered
<1> QED
  BY <1>1, <1>2, <1>3, InvariantOfParts

-----------------------------------------------------------------------------
(* Every action.                                                           *)

LEMMA ReaderIsFunction ==
    ASSUME IInv, NEW r \in Readers, NEW v, reader' = [reader EXCEPT ![r] = v]
    PROVE  /\ DOMAIN reader' = Readers /\ reader' = [q \in Readers |-> reader'[q]]
           /\ reader'[r] = v /\ \A q \in Readers \ {r} : reader'[q] = reader[q]
  BY PartsOfInvariant

LEMMA SubmitAnsweredInv == IInv /\ SubmitAnswered => IInv'
<1> SUFFICES ASSUME IInv, SubmitAnswered PROVE IInv'
  OBVIOUS
<1>1. Ages(Jobs, Swept)
  BY SweptAges
<1>2. jobs' \in [Jobs -> Record]
  <2>1. \A j \in Jobs : Swept[j] \in Record
    BY <1>1, AgedKeep DEF RecordOk
  <2> QED
    BY <2>1 DEF SubmitAnswered, Swept
<1>3. jobs' = Swept /\ binding' = Unbind(Jobs) /\ UNCHANGED <<task, queue, reader, closed, now>>
  BY DEF SubmitAnswered
<1> QED
  BY <1>1, <1>2, <1>3, PartsOfInvariant, SweepStep

LEMMA ExpireIsRecords ==
    ASSUME IInv, NEW S \in SUBSET Jobs
    PROVE  Expire(S) \in [Jobs -> Record]
<1>1. \A j \in Jobs : Expire(S)[j] \in Record
  BY ExpireAges, AgedKeep DEF RecordOk
<1> QED
  BY <1>1 DEF Expire

LEMMA ExpiresOnLookInv ==
    ASSUME IInv, NEW j \in Jobs, ExpiresOnLook(j)
    PROVE  IInv'
<1>1. Ages({j}, Expire({j})) /\ Expire({j}) \in [Jobs -> Record]
  BY ExpireAges, ExpireIsRecords
<1>2. /\ jobs' = Expire({j}) /\ binding' = Unbind({j})
      /\ UNCHANGED <<task, queue, reader, closed, now>>
  BY DEF ExpiresOnLook
<1>3. /\ DOMAIN reader' = Readers /\ reader' = [r \in Readers |-> reader'[r]]
      /\ \A r \in Readers : reader'[r] = reader[r]
  BY <1>2, PartsOfInvariant
<1> QED
  BY <1>1, <1>2, <1>3, SweepStep

LEMMA CloseInv == IInv /\ Close => IInv'
<1> SUFFICES ASSUME IInv, Close PROVE IInv'
  OBVIOUS
<1> USE PartsOfInvariant
<1>1. /\ UNCHANGED <<jobs, binding, reader, now>> /\ closed' = TRUE /\ queue' = <<>>
      /\ \A j \in Jobs : task'[j] = IF task[j].pc = "none" THEN task[j]
                                    ELSE [pc |-> "done", deadline |-> 0]
      /\ DOMAIN task' = Jobs
  BY DEF Close
<1>2. task' \in [Jobs -> [pc: Steps, deadline: Nat]]
  BY DEF Close, Steps
<1>3. QueueInv'
  BY <1>1 DEF QueueInv
<1> QED
  BY <1>1, <1>2, <1>3, SameRecordsStep

\* The task of a job takes a step of its own, or its executor does, and writes an event.
LEMMA WritesEvent ==
    ASSUME IInv, NEW j \in Jobs, jobs[j].state \in {"queued", "running"},
           NEW m \in Record, m.events = jobs[j].events, m.sequence = jobs[j].sequence,
           m.key = jobs[j].key, m.state \in {"running", "succeeded", "failed"},
           NEW name \in EventNames,
           m.state \in {"succeeded", "failed"} => name \in {"completed", "failed"}
    PROVE  LET n == WithEvent(m, name) IN
           /\ RecordOk(n) /\ n.key = jobs[j].key /\ n.sequence = jobs[j].sequence + 1
           /\ n.state = m.state
<1>1. RecordOk(jobs[j])
  BY PartsOfInvariant
<1>2. Len(m.events) = m.sequence /\ \A i \in 1..m.sequence : m.events[i].id = i
  BY <1>1 DEF RecordOk
<1> QED
  BY <1>2, WithEventOk

LEMMA StartInv ==
    ASSUME IInv, NEW j \in Jobs, Start(j)
    PROVE  IInv'
<1> USE PartsOfInvariant
<1> DEFINE m == [jobs[j] EXCEPT !.state = "running"]
           n == WithEvent(m, "running")
<1>1. /\ queue # <<>> /\ j = Head(queue) /\ jobs[j].state = "queued"
      /\ queue' = Tail(queue) /\ jobs' = [jobs EXCEPT ![j] = n]
      /\ task' = [task EXCEPT ![j] = [pc |-> "executing", deadline |-> now + Timeout]]
      /\ UNCHANGED <<binding, reader, closed, now>>
  BY DEF Start, NextInLine
<1>2. jobs[j] \in Record
  OBVIOUS
<1>3. /\ m \in Record /\ m.events = jobs[j].events /\ m.sequence = jobs[j].sequence
      /\ m.key = jobs[j].key /\ m.state = "running"
  BY <1>2 DEF Record, JobStates
<1> HIDE DEF m
<1>4. RecordOk(n) /\ n.key = jobs[j].key /\ n.sequence = jobs[j].sequence + 1 /\ n.state = "running"
  BY <1>1, <1>3, WritesEvent DEF EventNames
<1> HIDE DEF n
<1>5. /\ task' \in [Jobs -> [pc: Steps, deadline: Nat]]
      /\ \A i \in Jobs \ {j} : task'[i] = task[i]
      /\ task'[j].pc = "executing"
  BY <1>1, TimesAssumption DEF Steps
<1>6. /\ queue' \in Seq(Jobs) /\ Len(queue') = Len(queue) - 1
      /\ \A i \in 1..Len(queue') : queue'[i] = queue[i + 1] /\ i + 1 \in 1..Len(queue)
      /\ j = queue[1]
  BY <1>1
<1>7. QueueInv'
  <2>1. \A i \in Jobs : jobs'[i] = IF i = j THEN n ELSE jobs[i]
    BY <1>1
  <2>2. \A i \in 1..Len(queue') : jobs'[queue'[i]].state # "absent"
    <3> SUFFICES ASSUME NEW i \in 1..Len(queue') PROVE jobs'[queue'[i]].state # "absent"
      OBVIOUS
    <3>1. queue'[i] = queue[i + 1] /\ i + 1 \in 1..Len(queue)
      BY <1>6
    <3>2. queue[i + 1] \in Jobs /\ jobs[queue[i + 1]].state # "absent"
      BY <3>1 DEF IInv, QueueInv
    <3> QED
      BY <1>4, <2>1, <3>1, <3>2
  <2>3. ASSUME NEW i \in 1..Len(queue'), NEW k \in 1..Len(queue'), i < k
        PROVE  queue'[i] < queue'[k]
    <3>1. /\ queue'[i] = queue[i + 1] /\ queue'[k] = queue[k + 1]
          /\ i + 1 \in 1..Len(queue) /\ k + 1 \in 1..Len(queue)
      BY <1>6
    <3>2. i + 1 < k + 1
      BY <2>3
    <3> QED
      BY <3>1, <3>2 DEF IInv, QueueInv
  <2>4. ASSUME ~closed', NEW i \in Jobs, jobs'[i].state = "queued"
        PROVE  \E k \in 1..Len(queue') : queue'[k] = i
    <3>1. i # j /\ jobs[i].state = "queued" /\ ~closed
      BY <1>1, <1>4, <2>1, <2>4
    <3>2. PICK k \in 1..Len(queue) : queue[k] = i
      BY <3>1 DEF IInv, QueueInv
    <3>3. k # 1 /\ k - 1 \in 1..Len(queue')
      <4>1. k # 1
        BY <1>6, <3>1, <3>2
      <4>2. Len(queue') \in Nat /\ Len(queue) = Len(queue') + 1
        BY <1>6
      <4> QED
        BY <3>2, <4>1, <4>2
    <3>4. queue'[k - 1] = i
      BY <1>6, <3>2, <3>3
    <3> QED
      BY <3>3, <3>4
  <2>5. closed' => queue' = <<>>
    BY <1>1 DEF IInv, QueueInv
  <2> QED
    BY <2>2, <2>3, <2>4, <2>5 DEF QueueInv
<1> QED
  BY <1>1, <1>4, <1>5, <1>6, <1>7, OneRecordStep

\* The queue, when the task of a job that has started writes an event.
LEMMA QueueOfOneStep ==
    ASSUME IInv, NEW j \in Jobs, NEW n, jobs' = [jobs EXCEPT ![j] = n],
           n.state \in {"running", "succeeded", "failed"}, UNCHANGED <<queue, closed>>
    PROVE  QueueInv'
<1>1. \A i \in Jobs : jobs'[i] = IF i = j THEN n ELSE jobs[i]
  BY PartsOfInvariant
<1>2. \A i \in Jobs :
        /\ jobs'[i].state = "absent" => jobs[i].state = "absent"
        /\ jobs'[i].state = "queued" => jobs[i].state = "queued"
  BY <1>1
<1> QED
  BY <1>2, PartsOfInvariant, QueueKept DEF IInv

LEMMA ProgressInv ==
    ASSUME IInv, NEW j \in Jobs, Progress(j)
    PROVE  IInv'
<1> USE PartsOfInvariant
<1> DEFINE m == [jobs[j] EXCEPT !.progress = jobs[j].progress + 1]
           n == WithEvent(m, "progress")
<1>1. /\ task[j].pc = "executing" /\ jobs[j].state = "running" /\ jobs[j].progress < MaxProgress
      /\ jobs' = [jobs EXCEPT ![j] = n]
      /\ UNCHANGED <<binding, task, queue, reader, closed, now>>
  BY DEF Progress, MayReport
<1>2. jobs[j] \in Record
  OBVIOUS
<1>3. /\ m \in Record /\ m.events = jobs[j].events /\ m.sequence = jobs[j].sequence
      /\ m.key = jobs[j].key /\ m.state = "running"
  <2>1. jobs[j].progress + 1 \in 0..MaxProgress
    BY <1>1, <1>2, BoundsAssumption DEF Record
  <2> QED
    BY <1>1, <1>2, <2>1 DEF Record
<1> HIDE DEF m
<1>4. RecordOk(n) /\ n.key = jobs[j].key /\ n.sequence = jobs[j].sequence + 1 /\ n.state = "running"
  BY <1>1, <1>3, WritesEvent DEF EventNames
<1> HIDE DEF n
<1>5. QueueInv'
  BY <1>1, <1>4, QueueOfOneStep
<1> QED
  BY <1>1, <1>4, <1>5, OneRecordStep

LEMMA CompleteInv ==
    ASSUME IInv, NEW j \in Jobs, Complete(j)
    PROVE  IInv'
<1> USE PartsOfInvariant
<1> DEFINE m == [jobs[j] EXCEPT !.state = "succeeded", !.terminal_at = now]
           n == WithEvent(m, "completed")
<1>1. /\ jobs[j].state = "running" /\ jobs' = [jobs EXCEPT ![j] = n]
      /\ task' = [task EXCEPT ![j].pc = "done"]
      /\ UNCHANGED <<binding, queue, reader, closed, now>>
  BY DEF Complete
<1>2. jobs[j] \in Record
  OBVIOUS
<1>3. /\ m \in Record /\ m.events = jobs[j].events /\ m.sequence = jobs[j].sequence
      /\ m.key = jobs[j].key /\ m.state = "succeeded"
  BY <1>2 DEF Record, JobStates
<1> HIDE DEF m
<1>4. RecordOk(n) /\ n.key = jobs[j].key /\ n.sequence = jobs[j].sequence + 1 /\ n.state = "succeeded"
  BY <1>1, <1>3, WritesEvent DEF EventNames
<1> HIDE DEF n
<1>5. QueueInv'
  BY <1>1, <1>4, QueueOfOneStep
<1>6. /\ task' \in [Jobs -> [pc: Steps, deadline: Nat]]
      /\ \A i \in Jobs \ {j} : task'[i] = task[i]
      /\ task'[j].pc = "done"
  BY <1>1 DEF Steps
<1> QED
  BY <1>1, <1>4, <1>5, <1>6, OneRecordStep

LEMMA FailInv ==
    ASSUME IInv, NEW j \in Jobs, Fail(j)
    PROVE  IInv'
<1> USE PartsOfInvariant
<1> DEFINE m == [jobs[j] EXCEPT !.state = "failed", !.terminal_at = now]
           n == WithEvent(m, "failed")
<1>1. jobs[j].state = "running"
  BY DEF Fail, IInv, TasksOwnTheirJobs
<1>2. /\ jobs' = [jobs EXCEPT ![j] = n]
      /\ task' = [task EXCEPT ![j].pc = "done"]
      /\ UNCHANGED <<binding, queue, reader, closed, now>>
  BY <1>1 DEF Fail
<1>3. jobs[j] \in Record
  OBVIOUS
<1>4. /\ m \in Record /\ m.events = jobs[j].events /\ m.sequence = jobs[j].sequence
      /\ m.key = jobs[j].key /\ m.state = "failed"
  BY <1>3 DEF Record, JobStates
<1> HIDE DEF m
<1>5. RecordOk(n) /\ n.key = jobs[j].key /\ n.sequence = jobs[j].sequence + 1 /\ n.state = "failed"
  BY <1>1, <1>4, WritesEvent DEF EventNames
<1> HIDE DEF n
<1>6. QueueInv'
  BY <1>2, <1>5, QueueOfOneStep
<1>7. /\ task' \in [Jobs -> [pc: Steps, deadline: Nat]]
      /\ \A i \in Jobs \ {j} : task'[i] = task[i]
      /\ task'[j].pc = "done"
  BY <1>2 DEF Steps
<1> QED
  BY <1>1, <1>2, <1>5, <1>6, <1>7, OneRecordStep

\* The executor of a job is over; its record is not.
LEMMA LeavesInv ==
    ASSUME IInv, NEW j \in Jobs, NEW pc \in {"completing", "failing"},
           task[j].pc \in {"executing", "completing"},
           task' = [task EXCEPT ![j].pc = pc, ![j].deadline = 0],
           UNCHANGED <<jobs, binding, queue, reader, closed, now>>
    PROVE  IInv'
<1> USE PartsOfInvariant
<1>1. task' \in [Jobs -> [pc: Steps, deadline: Nat]]
  BY DEF Steps
<1>2. /\ \A i \in Jobs \ {j} : task'[i] = task[i]
      /\ task'[j].pc = pc
  OBVIOUS
<1>3. QueueInv'
  BY QueueKept DEF IInv
<1>4. \A i \in Jobs :
        /\ task'[i].pc = "waiting" => jobs[i].state = "queued"
        /\ task'[i].pc \in {"executing", "completing", "failing"} => jobs[i].state = "running"
        /\ task'[i].pc = "done" /\ ~closed' => jobs[i].state \notin {"queued", "running"}
  BY <1>2 DEF IInv, TasksOwnTheirJobs
<1> QED
  BY <1>1, <1>3, <1>4, SameRecordsStep

LEMMA ReturnsInv ==
    ASSUME IInv, NEW j \in Jobs, Returns(j)
    PROVE  IInv'
  BY LeavesInv DEF Returns

LEMMA BreaksInv ==
    ASSUME IInv, NEW j \in Jobs, Breaks(j)
    PROVE  IInv'
  BY LeavesInv DEF Breaks

\* A stream moves on; nothing else does.
LEMMA StreamStep ==
    ASSUME IInv, NEW r \in Readers, NEW v, reader' = [reader EXCEPT ![r] = v],
           ReaderOk(v, jobs[v.job]), UNCHANGED <<jobs, binding, task, queue, closed, now>>
    PROVE  IInv'
<1> USE PartsOfInvariant
<1>1. /\ DOMAIN reader' = Readers /\ reader' = [q \in Readers |-> reader'[q]]
      /\ reader'[r] = v /\ \A q \in Readers \ {r} : reader'[q] = reader[q]
  BY ReaderIsFunction
<1>2. QueueInv'
  BY QueueKept DEF IInv
<1>3. \A i \in Jobs :
        /\ task'[i].pc = "waiting" => jobs[i].state = "queued"
        /\ task'[i].pc \in {"executing", "completing", "failing"} => jobs[i].state = "running"
        /\ task'[i].pc = "done" /\ ~closed' => jobs[i].state \notin {"queued", "running"}
  BY DEF IInv, TasksOwnTheirJobs
<1>4. \A q \in Readers : reader'[q] = reader[q] \/ ReaderOk(reader'[q], jobs[reader'[q].job])
  BY <1>1
<1> QED
  BY <1>1, <1>2, <1>3, <1>4, SameRecordsStep

LEMMA OpenEventsInv ==
    ASSUME IInv, NEW r \in Readers, NEW j \in Jobs, OpenEvents(r, j)
    PROVE  IInv'
<1>1. PICK after \in 0..jobs[j].sequence :
        reader' = [reader EXCEPT ![r] = [pc |-> "open", job |-> j, after |-> after, got |-> <<>>]]
  BY DEF OpenEvents
<1> DEFINE v == [pc |-> "open", job |-> j, after |-> after, got |-> <<>>]
<1>2. jobs[j].sequence \in Nat /\ jobs[j].state # "absent"
  BY PartsOfInvariant DEF Record, OpenEvents
<1>3. /\ v.pc = "open" /\ v.job = j /\ v.after = after /\ v.got = <<>> /\ Len(v.got) = 0
      /\ v \in [pc : {"idle", "open", "ended", "expired", "closed", "broken"},
                job : 0..MaxJobs, after : Nat, got : Seq(Nat)]
  BY <1>2, BoundsAssumption DEF Jobs
<1>4. ReaderOk(v, jobs[v.job])
  BY <1>2, <1>3 DEF ReaderOk
<1> QED
  BY <1>1, <1>4, StreamStep DEF OpenEvents

\* The cursor of a stream, and the events it has not delivered.
LEMMA CursorOf ==
    ASSUME IInv, NEW r \in Readers, reader[r].pc # "idle",
           jobs[reader[r].job].state \notin {"trimmed", "expired"}
    PROVE  LET v == reader[r]
               last == jobs[v.job].sequence
           IN  /\ last \in Nat /\ Cursor(r) \in Nat
               /\ Cursor(r) = v.after + Len(v.got) /\ Cursor(r) <= last
               /\ Available(r) = {i \in 1..last : i > Cursor(r)}
               /\ \A i \in 1..last : jobs[v.job].events[i].id = i
<1> DEFINE v == reader[r]
           n == jobs[v.job]
<1>1. ReaderOk(v, n) /\ v.job \in Jobs
  BY PartsOfInvariant DEF ReaderOk
<1>2. RecordOk(n)
  BY <1>1, PartsOfInvariant
<1>3. /\ v.after \in Nat /\ v.got \in Seq(Nat) /\ v.after + Len(v.got) <= n.sequence
      /\ \A i \in 1..Len(v.got) : v.got[i] = v.after + i
      /\ n.sequence \in Nat /\ n.events \in Seq(Event)
      /\ Len(n.events) = n.sequence /\ \A i \in 1..n.sequence : n.events[i].id = i
  BY <1>1, <1>2 DEF ReaderOk, RecordOk, Record
<1>4. Cursor(r) = v.after + Len(v.got)
  <2>1. CASE v.got = <<>>
    BY <1>3, <2>1 DEF Cursor
  <2>2. CASE v.got # <<>>
    <3>1. Len(v.got) \in 1..Len(v.got)
      BY <1>3, <2>2
    <3> QED
      BY <1>3, <2>2, <3>1 DEF Cursor
  <2> QED
    BY <2>1, <2>2
<1>5. Available(r) = {i \in 1..n.sequence : i > Cursor(r)}
  <2>1. DOMAIN n.events = 1..n.sequence
    BY <1>3
  <2> QED
    BY <1>3, <2>1 DEF Available
<1> QED
  BY <1>3, <1>4, <1>5

LEMMA DeliverInv ==
    ASSUME IInv, NEW r \in Readers, Deliver(r)
    PROVE  IInv'
<1> DEFINE v == reader[r]
           n == jobs[v.job]
<1>1. PICK i \in Available(r) :
        /\ \A k \in Available(r) : i <= k
        /\ reader' = [reader EXCEPT ![r].got = Append(@, n.events[i].id)]
  BY DEF Deliver
<1>2. /\ v.pc = "open" /\ n.state \notin {"trimmed", "expired"}
      /\ UNCHANGED <<jobs, binding, task, queue, closed, now>>
  BY DEF Deliver
<1>3. /\ ReaderOk(v, n)
      /\ v.job \in Jobs /\ n.state # "absent" /\ v.after \in Nat /\ v.got \in Seq(Nat)
      /\ \A k \in 1..Len(v.got) : v.got[k] = v.after + k
  BY <1>2, PartsOfInvariant DEF ReaderOk
<1>4. i = v.after + Len(v.got) + 1 /\ i <= n.sequence /\ n.events[i].id = i
      /\ i \in Nat /\ n.sequence \in Nat
  <2>1. /\ n.sequence \in Nat /\ Cursor(r) \in Nat
        /\ Cursor(r) = v.after + Len(v.got)
        /\ Available(r) = {k \in 1..n.sequence : k > Cursor(r)}
        /\ \A k \in 1..n.sequence : n.events[k].id = k
    BY <1>2, CursorOf
  <2>2. Cursor(r) + 1 \in Available(r)
    BY <1>1, <2>1
  <2> QED
    BY <1>1, <2>1, <2>2
<1> DEFINE got == Append(v.got, i)
           w == [v EXCEPT !.got = got]
<1>5. reader' = [reader EXCEPT ![r] = w]
  BY <1>1, <1>4
<1>6. /\ got \in Seq(Nat) /\ Len(got) = Len(v.got) + 1
      /\ \A k \in 1..Len(got) : got[k] = v.after + k
  <2>1. got \in Seq(Nat) /\ Len(got) = Len(v.got) + 1 /\ got[Len(v.got) + 1] = i
        /\ \A k \in 1..Len(v.got) : got[k] = v.got[k]
    BY <1>3, <1>4
  <2>2. ASSUME NEW k \in 1..Len(got) PROVE got[k] = v.after + k
    <3>1. k \in 1..Len(v.got) \/ k = Len(v.got) + 1
      BY <1>3, <2>1
    <3> HIDE DEF got
    <3>2. CASE k \in 1..Len(v.got)
      BY <1>3, <2>1, <3>2
    <3>3. CASE k = Len(v.got) + 1
      <4>1. got[k] = i
        BY <2>1, <3>3
      <4>2. Len(v.got) \in Nat
        BY <1>3
      <4> QED
        BY <1>3, <1>4, <3>3, <4>1, <4>2
    <3> QED
      BY <3>1, <3>2, <3>3
  <2> QED
    BY <2>1, <2>2
<1> HIDE DEF got
<1>7. /\ w.pc = "open" /\ w.job = v.job /\ w.after = v.after /\ w.got = got
      /\ w \in [pc : {"idle", "open", "ended", "expired", "closed", "broken"},
                job : 0..MaxJobs, after : Nat, got : Seq(Nat)]
  BY <1>2, <1>3, <1>6 DEF ReaderOk
<1> HIDE DEF w
<1>8. ReaderOk(w, jobs[w.job])
  <2>1. w.after + Len(w.got) = i /\ w.after + Len(w.got) <= n.sequence
    <3>1. Len(v.got) \in Nat /\ Len(w.got) = Len(v.got) + 1 /\ w.after = v.after
      BY <1>3, <1>6, <1>7
    <3> QED
      BY <1>3, <1>4, <3>1
  <2>2. \A k \in 1..Len(w.got) : w.got[k] = w.after + k
    BY <1>6, <1>7
  <2> QED
    BY <1>3, <1>7, <2>1, <2>2 DEF ReaderOk
<1> QED
  BY <1>2, <1>5, <1>8, StreamStep

LEMMA DisconnectInv ==
    ASSUME IInv, NEW r \in Readers, Disconnect(r)
    PROVE  IInv'
<1>1. NoReader \in [pc : {"idle", "open", "ended", "expired", "closed", "broken"},
                    job : 0..MaxJobs, after : Nat, got : Seq(Nat)]
  BY BoundsAssumption DEF NoReader
<1>2. ReaderOk(NoReader, jobs[NoReader.job])
  BY <1>1 DEF ReaderOk, NoReader
<1> QED
  BY <1>2, StreamStep DEF Disconnect

LEMMA FinishInv ==
    ASSUME IInv, NEW r \in Readers, Finish(r)
    PROVE  IInv'
<1> USE PartsOfInvariant
<1> DEFINE v == reader[r]
           j == v.job
           n == jobs[j]
<1>1. /\ v.pc = "open" /\ jobs' = Expire({j}) /\ binding' = Unbind({j})
      /\ UNCHANGED <<task, queue, closed, now>>
  BY DEF Finish
<1>2. PICK pc \in {"ended", "closed", "expired", "broken"} :
        /\ reader' = [reader EXCEPT ![r].pc = pc]
        /\ pc = "ended" => NothingLeft(r) /\ ~Expirable(j)
  BY DEF Finish
<1> DEFINE w == [v EXCEPT !.pc = pc]
<1>3. ReaderOk(v, n) /\ j \in Jobs
  BY <1>1 DEF ReaderOk
<1>4. /\ w.pc = pc /\ w.job = j /\ w.after = v.after /\ w.got = v.got
      /\ w \in [pc : {"idle", "open", "ended", "expired", "closed", "broken"},
                job : 0..MaxJobs, after : Nat, got : Seq(Nat)]
  BY <1>3 DEF ReaderOk
<1>5. reader' = [reader EXCEPT ![r] = w]
  BY <1>2
<1>6. ReaderOk(w, n)
  <2>1. CASE pc # "ended"
    BY <1>1, <1>3, <1>4, <2>1 DEF ReaderOk
  <2>2. CASE pc = "ended"
    <3>1. n.state \in {"succeeded", "failed"} /\ Available(r) = {}
      BY <1>2, <2>2 DEF NothingLeft, Ended
    <3>2. /\ n.sequence \in Nat /\ Cursor(r) \in Nat /\ Cursor(r) <= n.sequence
          /\ Cursor(r) = v.after + Len(v.got)
          /\ {k \in 1..n.sequence : k > Cursor(r)} = {}
      BY <1>1, <3>1, CursorOf
    <3>3. Cursor(r) = n.sequence
      <4>1. Cursor(r) < n.sequence => n.sequence \in {k \in 1..n.sequence : k > Cursor(r)}
        BY <3>2
      <4> QED
        BY <3>2, <4>1
    <3> HIDE DEF w
    <3> QED
      BY <1>1, <1>3, <1>4, <2>2, <3>1, <3>2, <3>3 DEF ReaderOk
  <2> QED
    BY <2>1, <2>2
<1>7. Ages({j}, jobs') /\ jobs' \in [Jobs -> Record]
  BY <1>1, <1>3, ExpireAges, ExpireIsRecords
<1>8. ReaderOk(w, jobs'[w.job])
  <2>1. RecordOk(jobs'[j]) /\ Evolves(n, jobs'[j])
    BY <1>3, <1>7, AgedKeep
  <2> QED
    BY <1>3, <1>4, <1>6, <2>1, StreamKept
<1>9. /\ DOMAIN reader' = Readers /\ reader' = [q \in Readers |-> reader'[q]]
      /\ \A q \in Readers : reader'[q] = reader[q] \/ ReaderOk(reader'[q], jobs'[reader'[q].job])
  <2> HIDE DEF w
  <2>1. /\ DOMAIN reader' = Readers /\ reader' = [q \in Readers |-> reader'[q]]
        /\ reader'[r] = w /\ \A q \in Readers \ {r} : reader'[q] = reader[q]
    BY <1>5, ReaderIsFunction
  <2> QED
    BY <1>8, <2>1
<1>10. {j} \in SUBSET Jobs
  BY <1>3
<1> QED
  BY <1>1, <1>7, <1>9, <1>10, SweepStep

LEMMA ExpiresAtIsNat ==
    ASSUME IInv, NEW active \in Nat
    PROVE  ExpiresAt(active) \in Nat
<1> DEFINE batches == active \div Concurrency + 1
<1>1. batches \in Nat
  BY CapacityAssumption
<1>2. now \in Nat
  BY PartsOfInvariant
<1> HIDE DEF batches
<1>3. batches * Timeout \in Nat
  BY <1>1, TimesAssumption
<1>4. now + batches * Timeout + Retention \in Nat
  BY <1>2, <1>3, TimesAssumption
<1> QED
  BY <1>4 DEF ExpiresAt, batches

LEMMA SubmitCreatesInv ==
    ASSUME IInv, NEW key \in Keys \cup {None}, NEW d \in Digests, SubmitCreates(key, d)
    PROVE  IInv'
<1> USE PartsOfInvariant
<1> DEFINE promise == ExpiresAt(Cardinality(Active(Swept)))
           m == [NoJob EXCEPT !.state = "queued", !.digest = d, !.key = key,
                              !.expires_at = promise]
           n == WithEvent(m, "queued")
<1>1. PICK j \in Jobs :
        /\ jobs[j].state = "absent"
        /\ \A i \in 1..(j - 1) : jobs[i].state # "absent"
        /\ jobs' = [Swept EXCEPT ![j] = n]
        /\ binding' = [k \in Keys |-> IF k = key THEN j ELSE Unbind(Jobs)[k]]
        /\ task' = [task EXCEPT ![j].pc = "waiting"]
        /\ queue' = Append(queue, j)
  BY DEF SubmitCreates
<1>2. /\ key # None => Unbind(Jobs)[key] = 0
      /\ HasCapacity(Swept)
      /\ UNCHANGED <<reader, closed, now>> /\ ~closed
  BY DEF SubmitCreates
<1>3. /\ \A i \in Jobs : RecordOk(Swept[i]) /\ Evolves(jobs[i], Swept[i])
      /\ \A i \in Jobs :
            \/ Swept[i] = jobs[i]
            \/ /\ jobs[i].state \in {"succeeded", "failed", "expired"}
               /\ Swept[i].state \in {"expired", "trimmed"}
      /\ KeysOk(Swept, Unbind(Jobs))
  BY SweptAges, AgedKeep
<1>4. /\ Active(Swept) \subseteq Jobs /\ Cardinality(Active(Swept)) \in Nat
      /\ Retained(Swept) \subseteq Jobs /\ Cardinality(Retained(Swept)) \in Nat
      /\ IsFiniteSet(Active(Swept)) /\ IsFiniteSet(Retained(Swept))
  <2>1. Active(Swept) \subseteq Jobs /\ Retained(Swept) \subseteq Jobs
    BY DEF Active, Retained, InState
  <2> QED
    BY <2>1, JobsAreFinite
<1>5. /\ RecordOk(n) /\ n.state = "queued" /\ n.key = key
  <2>1. promise \in Nat
    BY <1>4, ExpiresAtIsNat
  <2>2. NoJob \in Record /\ NoJob.events = <<>> /\ NoJob.sequence = 0
    BY NoJobOk DEF RecordOk, NoJob
  <2> HIDE DEF promise
  <2>3. /\ m \in Record /\ m.events = <<>> /\ m.sequence = 0
        /\ m.state = "queued" /\ m.key = key
    BY <2>1, <2>2 DEF Record, JobStates
  <2> HIDE DEF m
  <2>4. Len(m.events) = m.sequence /\ \A i \in 1..m.sequence : m.events[i].id = i
    BY <2>3
  <2> QED
    BY <2>3, <2>4, WithEventOk DEF EventNames
<1> HIDE DEF n
<1>6. /\ \A i \in Jobs : jobs'[i] = IF i = j THEN n ELSE Swept[i]
      /\ jobs' \in [Jobs -> Record]
      /\ \A i \in Jobs : RecordOk(jobs'[i])
  <2>1. \A i \in Jobs : jobs'[i] = IF i = j THEN n ELSE Swept[i]
    BY <1>1 DEF Swept
  <2>2. \A i \in Jobs : RecordOk(jobs'[i])
    BY <1>3, <1>5, <2>1
  <2>3. jobs' = [i \in Jobs |-> jobs'[i]]
    BY <1>1 DEF Swept
  <2> QED
    BY <2>1, <2>2, <2>3 DEF RecordOk
<1>7. jobs[j] = NoJob /\ Swept[j] = NoJob /\ NoJob.key = None /\ NoJob.state = "absent"
  BY <1>1, <1>3 DEF RecordOk, NoJob
<1>8. \A i \in Jobs : Evolves(jobs[i], jobs'[i])
  <2>1. Evolves(jobs[j], n)
    BY <1>5, <1>7 DEF Evolves
  <2> QED
    BY <1>3, <1>6, <2>1
<1>9. \A r \in Readers : ReaderOk(reader'[r], jobs'[reader'[r].job])
  BY <1>2, <1>6, <1>8, StreamsKept
<1>10. \A i \in Jobs : i < j <=> jobs[i].state # "absent"
  <2>1. \A i \in Jobs : i < j => jobs[i].state # "absent"
    BY <1>1 DEF Jobs
  <2>2. \A i \in Jobs : ~(i < j) => jobs[i].state = "absent"
    BY <1>1 DEF IInv, Numbered, Jobs
  <2> QED
    BY <2>1, <2>2
<1>11. Numbered'
  <2> SUFFICES ASSUME NEW i \in Jobs, jobs'[i].state = "absent", NEW k \in Jobs, i <= k
               PROVE  jobs'[k].state = "absent"
    BY DEF Numbered
  <2>1. i # j /\ jobs[i].state = "absent"
    BY <1>3, <1>5, <1>6
  <2>2. j < k /\ j # k
    BY <1>10, <2>1 DEF Jobs
  <2>3. jobs[k].state = "absent"
    BY <1>10, <2>2 DEF Jobs
  <2>4. Swept[k].state = "absent"
    BY <1>3, <2>3
  <2> QED
    BY <1>6, <2>2, <2>4
<1>12. QueueInv'
  <2>1. /\ queue' \in Seq(Jobs) /\ Len(queue') = Len(queue) + 1 /\ queue'[Len(queue) + 1] = j
        /\ Len(queue) \in Nat
        /\ \A i \in 1..Len(queue) : queue'[i] = queue[i] /\ queue[i] \in Jobs
    BY <1>1
  <2>2. \A i \in 1..Len(queue') : i \in 1..Len(queue) \/ i = Len(queue) + 1
    BY <2>1
  <2>3. \A i \in 1..Len(queue) : jobs[queue[i]].state # "absent" /\ queue[i] < j
    BY <1>10, <2>1 DEF IInv, QueueInv
  <2>4. ASSUME NEW i \in 1..Len(queue') PROVE jobs'[queue'[i]].state # "absent"
    <3>1. CASE i \in 1..Len(queue)
      <4>1. queue'[i] = queue[i] /\ queue[i] \in Jobs /\ jobs[queue[i]].state # "absent"
        BY <2>1, <2>3, <3>1
      <4>2. queue[i] # j
        BY <1>7, <4>1
      <4>3. Swept[queue[i]].state # "absent"
        BY <1>3, <4>1
      <4> QED
        BY <1>6, <4>1, <4>2, <4>3
    <3>2. CASE i = Len(queue) + 1
      BY <1>5, <1>6, <2>1, <3>2
    <3> QED
      BY <2>2, <3>1, <3>2
  <2>5. ASSUME NEW i \in 1..Len(queue'), NEW k \in 1..Len(queue'), i < k
        PROVE  queue'[i] < queue'[k]
    <3>1. i \in 1..Len(queue)
      BY <2>1, <2>5
    <3>2. CASE k \in 1..Len(queue)
      BY <2>1, <2>5, <3>1, <3>2 DEF IInv, QueueInv
    <3>3. CASE k = Len(queue) + 1
      BY <2>1, <2>3, <3>1, <3>3
    <3> QED
      BY <2>2, <3>2, <3>3
  <2>6. ASSUME NEW i \in Jobs, jobs'[i].state = "queued"
        PROVE  \E k \in 1..Len(queue') : queue'[k] = i
    <3>1. CASE i = j
      BY <2>1, <3>1
    <3>2. CASE i # j
      <4>1. jobs[i].state = "queued"
        BY <1>3, <1>6, <2>6, <3>2
      <4>2. PICK k \in 1..Len(queue) : queue[k] = i
        BY <1>2, <4>1 DEF IInv, QueueInv
      <4>3. k \in 1..Len(queue') /\ queue'[k] = i
        BY <2>1, <4>2
      <4> QED
        BY <4>3
    <3> QED
      BY <3>1, <3>2
  <2>7. closed' => queue' = <<>>
    BY <1>1, <1>2
  <2> QED
    BY <2>4, <2>5, <2>6, <2>7 DEF QueueInv
<1>13. KeysOk(jobs', binding')
  <2> SUFFICES ASSUME NEW k \in Keys
               PROVE  {i \in Jobs : jobs'[i].key = k /\ jobs'[i].state # "expired"}
                      = IF binding'[k] = 0 THEN {} ELSE {binding'[k]}
    BY DEF KeysOk
  <2>1. k # None
    BY NoneAssumption
  <2>2. {i \in Jobs : Swept[i].key = k /\ Swept[i].state # "expired"}
        = IF Unbind(Jobs)[k] = 0 THEN {} ELSE {Unbind(Jobs)[k]}
    BY <1>3 DEF KeysOk
  <2>3. binding'[k] = IF k = key THEN j ELSE Unbind(Jobs)[k]
    BY <1>1
  <2>4. CASE k = key
    <3>1. {i \in Jobs : Swept[i].key = k /\ Swept[i].state # "expired"} = {}
      BY <1>2, <2>1, <2>2, <2>4
    <3>2. j # 0
      BY DEF Jobs
    <3>3. {i \in Jobs : jobs'[i].key = k /\ jobs'[i].state # "expired"} = {j}
      BY <1>5, <1>6, <2>4, <3>1
    <3> QED
      BY <2>3, <2>4, <3>2, <3>3
  <2>5. CASE k # key
    <3>1. {i \in Jobs : jobs'[i].key = k /\ jobs'[i].state # "expired"}
          = {i \in Jobs : Swept[i].key = k /\ Swept[i].state # "expired"}
      BY <1>5, <1>6, <1>7, <2>1, <2>5
    <3> QED
      BY <2>2, <2>3, <2>5, <3>1
  <2> QED
    BY <2>4, <2>5
<1>14. binding' \in [Keys -> 0..MaxJobs]
  <2>1. j \in 0..MaxJobs /\ Unbind(Jobs) \in [Keys -> 0..MaxJobs]
    BY BoundsAssumption DEF Unbind, Jobs
  <2> QED
    BY <1>1, <2>1
<1>15. /\ task' \in [Jobs -> [pc: Steps, deadline: Nat]]
       /\ task'[j].pc = "waiting" /\ \A i \in Jobs \ {j} : task'[i] = task[i]
  BY <1>1 DEF Steps
<1>16. /\ Cardinality(Active(jobs')) <= Concurrency + QueueCapacity
       /\ Cardinality(Retained(jobs')) <= MaxRetained
  <2>1. /\ Active(jobs') \subseteq Active(Swept) \cup {j}
        /\ Retained(jobs') \subseteq Retained(Swept) \cup {j}
    BY <1>6 DEF Active, Retained, InState
  <2>2. /\ Cardinality(Active(Swept) \cup {j}) <= Cardinality(Active(Swept)) + 1
        /\ Cardinality(Retained(Swept) \cup {j}) <= Cardinality(Retained(Swept)) + 1
    <3>1. ASSUME NEW S, IsFiniteSet(S), Cardinality(S) \in Nat
          PROVE  Cardinality(S \cup {j}) <= Cardinality(S) + 1
      <4>1. Cardinality(S \cup {j}) = IF j \in S THEN Cardinality(S) ELSE Cardinality(S) + 1
        BY <3>1, FS_AddElement
      <4> QED
        BY <3>1, <4>1
    <3> QED
      BY <1>4, <3>1
  <2>3. /\ Cardinality(Active(jobs')) <= Cardinality(Active(Swept) \cup {j})
        /\ Cardinality(Retained(jobs')) <= Cardinality(Retained(Swept) \cup {j})
    BY <1>4, <2>1, FewerJobs
  <2>4. /\ Cardinality(Active(Swept)) < Concurrency + QueueCapacity
        /\ Cardinality(Retained(Swept)) < MaxRetained
    BY <1>2 DEF HasCapacity
  <2>5. /\ Cardinality(Active(Swept) \cup {j}) \in Nat /\ Cardinality(Retained(Swept) \cup {j}) \in Nat
        /\ Cardinality(Active(jobs')) \in Nat /\ Cardinality(Retained(jobs')) \in Nat
    BY <1>4, <2>1, JobsAreFinite
  <2> QED
    BY <1>4, <2>2, <2>3, <2>4, <2>5, CapacityAssumption
<1>17. TasksOwnTheirJobs'
  <2>1. \A i \in Jobs :
        /\ task'[i].pc = "waiting" => jobs'[i].state = "queued"
        /\ task'[i].pc \in {"executing", "completing", "failing"} => jobs'[i].state = "running"
        /\ task'[i].pc = "done" /\ ~closed' => jobs'[i].state \notin {"queued", "running"}
    BY <1>2, <1>3, <1>5, <1>6, <1>15 DEF IInv, TasksOwnTheirJobs
  <2> QED
    BY <1>16, <2>1 DEF TasksOwnTheirJobs
<1>18. queue' \in Seq(Jobs)
  BY <1>1
<1> QED
  BY <1>2, <1>6, <1>9, <1>11, <1>12, <1>13, <1>14, <1>15, <1>16, <1>17, <1>18, InvariantOfParts

\* A step of the clock, and no step.
LEMMA ClockInv ==
    ASSUME IInv, now' \in Nat, UNCHANGED <<jobs, binding, task, queue, reader, closed>>
    PROVE  IInv'
<1> USE PartsOfInvariant
<1>1. QueueInv'
  BY QueueKept DEF IInv
<1>2. \A j \in Jobs :
        /\ task'[j].pc = "waiting" => jobs[j].state = "queued"
        /\ task'[j].pc \in {"executing", "completing", "failing"} => jobs[j].state = "running"
        /\ task'[j].pc = "done" /\ ~closed' => jobs[j].state \notin {"queued", "running"}
  BY DEF IInv, TasksOwnTheirJobs
<1> QED
  BY <1>1, <1>2, SameRecordsStep

LEMMA InitIInv == Init => IInv
<1> SUFFICES ASSUME Init PROVE IInv
  OBVIOUS
<1>1. NoJob \in Record /\ RecordOk(NoJob) /\ NoJob.state = "absent" /\ NoJob.key = None
  BY NoJobOk DEF RecordOk, NoJob
<1>2. /\ jobs = [j \in Jobs |-> NoJob] /\ binding = [k \in Keys |-> 0]
      /\ task = [j \in Jobs |-> [pc |-> "none", deadline |-> 0]]
      /\ queue = <<>> /\ reader = [r \in Readers |-> NoReader] /\ closed = FALSE /\ now = 0
  BY DEF Init
<1>3. NoReader \in [pc : {"idle", "open", "ended", "expired", "closed", "broken"},
                    job : 0..MaxJobs, after : Nat, got : Seq(Nat)]
  BY BoundsAssumption DEF NoReader
<1>4. \A n : ReaderOk(NoReader, n)
  BY <1>3 DEF ReaderOk, NoReader
<1>5. TypeOK
  <2>1. jobs \in [Jobs -> Record]
    BY <1>1, <1>2
  <2>2. task \in [Jobs -> [pc: Steps, deadline: Nat]]
    BY <1>2 DEF Steps
  <2>3. binding \in [Keys -> 0..MaxJobs] /\ queue \in Seq(Jobs) /\ closed \in BOOLEAN /\ now \in Nat
    <3>1. 0 \in 0..MaxJobs
      BY BoundsAssumption
    <3>2. closed \in BOOLEAN
      BY <1>2
    <3> QED
      BY <1>2, <3>1, <3>2
  <2>4. reader \in [Readers -> [pc : {"idle", "open", "ended", "expired", "closed", "broken"},
                               job : 0..MaxJobs, after : Nat, got : Seq(Nat)]]
    BY <1>2, <1>3
  <2> QED
    BY <2>1, <2>2, <2>3, <2>4 DEF TypeOK, Record, Event
<1>6. Numbered /\ QueueInv
  BY <1>1, <1>2 DEF Numbered, QueueInv
<1>7. KeysNameLiveJobs
  BY <1>1, <1>2, NoneAssumption DEF KeysNameLiveJobs
<1>8. Active(jobs) = {} /\ Retained(jobs) = {}
  BY <1>1, <1>2 DEF Active, Retained, InState
<1>9. /\ Cardinality(Active(jobs)) <= Concurrency + QueueCapacity
      /\ Cardinality(Retained(jobs)) <= MaxRetained
  <2>1. Cardinality({}) = 0
    BY FS_EmptySet
  <2> QED
    BY <1>8, <2>1, CapacityAssumption
<1>10. TasksOwnTheirJobs
  BY <1>2, <1>9 DEF TasksOwnTheirJobs
<1>11. \A r \in Readers : ReaderOk(reader[r], jobs[reader[r].job])
  BY <1>2, <1>4
<1>12. \A j \in Jobs : RecordOk(jobs[j])
  BY <1>1, <1>2
<1> QED
  BY <1>5, <1>6, <1>7, <1>9, <1>10, <1>11, <1>12 DEF IInv

\* The invariant is inductive.
LEMMA NextIInv == IInv /\ [Next]_vars => IInv'
<1> SUFFICES ASSUME IInv, [Next]_vars PROVE IInv'
  OBVIOUS
<1>1. CASE SubmitAnswered
  BY <1>1, SubmitAnsweredInv
<1>2. ASSUME NEW key \in Keys \cup {None}, NEW d \in Digests, SubmitCreates(key, d) PROVE IInv'
  BY <1>2, SubmitCreatesInv
<1>3. ASSUME NEW j \in Jobs, ExpiresOnLook(j) PROVE IInv'
  BY <1>3, ExpiresOnLookInv
<1>4. CASE Close
  BY <1>4, CloseInv
<1>5. ASSUME NEW j \in Jobs, TaskStep(j) \/ Progress(j) \/ Returns(j) \/ Breaks(j) PROVE IInv'
  BY <1>5, StartInv, CompleteInv, FailInv, ProgressInv, ReturnsInv, BreaksInv DEF TaskStep, TimesOut
<1>6. ASSUME NEW r \in Readers,
             (\E j \in Jobs : OpenEvents(r, j)) \/ Deliver(r) \/ Finish(r) \/ Disconnect(r)
      PROVE  IInv'
  BY <1>6, OpenEventsInv, DeliverInv, FinishInv, DisconnectInv
<1>7. CASE Tick
  <2>1. now' \in Nat
    BY <1>7, PartsOfInvariant DEF Tick
  <2> QED
    BY <1>7, <2>1, ClockInv DEF Tick
<1>8. CASE UNCHANGED vars
  BY <1>8, PartsOfInvariant, ClockInv DEF vars
<1> QED
  BY <1>1, <1>2, <1>3, <1>4, <1>5, <1>6, <1>7, <1>8 DEF Next

\* Every state of the specification satisfies the inductive invariant, on which the
\* theorems below rest.
THEOREM Invariance == Spec => []IInv
  BY InitIInv, NextIInv, PTL DEF Spec

-----------------------------------------------------------------------------
(* What the runs check.                                                    *)

\* Type correctness of the manager: every record, key, task, queue entry and stream keeps
\* its type, and no job writes more progress events than MAX_PROGRESS_EVENTS.
THEOREM JobTypeCorrect == Spec => []TypeOK
<1>1. IInv => TypeOK
  BY DEF IInv
<1> QED
  BY <1>1, Invariance, PTL

\* JobsAreOwned: while records expire and are trimmed, a key names exactly the record that
\* is bound to it, every task finds its record in the state its next step needs, and the
\* registry stays within max_retained_jobs.
THEOREM JobsOwned == Spec => []JobsAreOwned
<1>1. IInv => JobsAreOwned
  BY DEF IInv, JobsAreOwned
<1> QED
  BY <1>1, Invariance, PTL

\* StreamsAreExact: every subscriber receives consecutive events from its cursor on, each
\* once, and one whose stream ends with its job has received the outcome last.
THEOREM StreamsExact == Spec => []StreamsAreExact
<1>1. IInv => StreamsAreExact
  <2> SUFFICES ASSUME IInv, NEW r \in Readers
               PROVE  LET got == reader[r].got
                          job == jobs[reader[r].job]
                      IN  /\ \A i \in 1..Len(got) : got[i] = reader[r].after + i
                          /\ reader[r].pc = "ended" /\ job.state \in {"succeeded", "failed"} =>
                              /\ reader[r].after + Len(got) = job.sequence
                              /\ job.events[job.sequence].name \in {"completed", "failed"}
    BY DEF StreamsAreExact
  <2>1. ReaderOk(reader[r], jobs[reader[r].job])
    BY DEF IInv
  <2>2. CASE reader[r].pc = "ended"
    <3>1. reader[r].job \in Jobs
      BY <2>1, <2>2 DEF ReaderOk
    <3>2. RecordOk(jobs[reader[r].job])
      BY <3>1 DEF IInv
    <3> QED
      BY <2>1, <2>2, <3>2 DEF ReaderOk, RecordOk
  <2>3. CASE reader[r].pc # "ended"
    BY <2>1, <2>3 DEF ReaderOk
  <2> QED
    BY <2>2, <2>3
<1> QED
  BY <1>1, Invariance, PTL

-----------------------------------------------------------------------------
(* The manager implements the job service.                                 *)

life == [j \in Jobs |-> jobs[j].state]
kept == {j \in Jobs : Ended(j) /\ now < jobs[j].terminal_at + Retention}

\* Only an outcome that is older than the retention is forgotten.
LEMMA AgedForget ==
    ASSUME IInv, NEW S \in SUBSET Jobs, NEW records, Ages(S, records), NEW j \in Jobs
    PROVE  \/ records[j].state = jobs[j].state
           \/ /\ j \notin kept
              /\ \/ /\ jobs[j].state \in {"succeeded", "failed"}
                    /\ records[j].state \in {"expired", "trimmed"}
                 \/ jobs[j].state = "expired" /\ records[j].state = "trimmed"
<1>1. RecordOk(jobs[j])
  BY DEF IInv
<1>2. jobs[j].terminal_at \in Nat /\ now \in Nat
  BY <1>1, PartsOfInvariant DEF RecordOk, Record
<1>3. Forgotten(jobs[j]).state = "expired" /\ Trimmed.state = "trimmed"
  BY <1>1, ForgottenOk, TrimmedOk
<1>4. CASE Expirable(j)
  BY <1>2, <1>3, <1>4, TimesAssumption DEF Ages, Expirable, Ended, kept
<1>5. CASE ~Expirable(j)
  BY <1>3, <1>5 DEF Ages, kept, Ended
<1> QED
  BY <1>4, <1>5

\* A step of the service, of which at most the job j takes a part of its own.
LEMMA ServiceStep ==
    ASSUME IInv, IInv', NEW j \in Jobs,
           \/ life'[j] = life[j]
           \/ Service!Accepts(j) \/ Service!Starts(j) \/ Service!Ends(j) \/ Service!Forgets(j),
           \A i \in Jobs \ {j} : life'[i] = life[i] \/ Service!Forgets(i)
    PROVE  Service!Next
<1> DEFINE moved == {i \in Jobs : Service!Accepts(i) \/ Service!Starts(i) \/ Service!Ends(i)}
<1>1. moved \subseteq {j}
  <2> SUFFICES ASSUME NEW i \in Jobs \ {j},
                      Service!Accepts(i) \/ Service!Starts(i) \/ Service!Ends(i)
               PROVE  FALSE
    OBVIOUS
  <2>1. life'[i] = life[i] \/ Service!Forgets(i)
    OBVIOUS
  <2> QED
    BY <2>1 DEF Service!Accepts, Service!Starts, Service!Ends, Service!Forgets, Service!Ended, life
<1>2. Cardinality(moved) <= 1
  <2>1. {j} \in SUBSET Jobs /\ moved \in SUBSET {j}
    BY <1>1
  <2>2. Cardinality(moved) <= Cardinality({j})
    BY <2>1, FewerJobs
  <2> QED
    BY <2>2, FS_Singleton
<1>3. Service!Active(life') = Active(jobs')
  BY DEF Service!Active, Active, InState, life, Service!Jobs, Jobs
<1>4. Cardinality(Service!Active(life')) <= Concurrency + QueueCapacity
  BY <1>3 DEF IInv
<1>5. \A i \in Jobs : life'[i] = life[i] \/ Service!Accepts(i) \/ Service!Starts(i)
                       \/ Service!Ends(i) \/ Service!Forgets(i)
  OBVIOUS
<1>6. Service!Jobs = Jobs
  BY DEF Service!Jobs, Jobs
<1>7. \A i \in Service!Jobs :
        life'[i] = life[i] \/ Service!Accepts(i) \/ Service!Starts(i)
        \/ Service!Ends(i) \/ Service!Forgets(i)
  BY <1>5, <1>6
<1>8. Cardinality({i \in Service!Jobs :
                     Service!Accepts(i) \/ Service!Starts(i) \/ Service!Ends(i)}) <= 1
  BY <1>2, <1>6
<1>9. \A S : Service!Cardinality(S) = Cardinality(S)
  BY DEF Service!Cardinality, Cardinality
<1> QED
  BY ONLY <1>4, <1>7, <1>8, <1>9 DEF Service!Next, life

LEMMA ServiceSweeps ==
    ASSUME IInv, IInv', NEW S \in SUBSET Jobs, Ages(S, jobs')
    PROVE  UNCHANGED life \/ Service!Next
<1>1. \A j \in Jobs : life'[j] = life[j] \/ Service!Forgets(j)
  BY AgedForget DEF Service!Forgets, Service!Ended, life, kept
<1>2. CASE Jobs = {}
  BY <1>2 DEF life
<1>3. CASE Jobs # {}
  <2>1. PICK j : j \in Jobs
    BY <1>3
  <2> QED
    BY <1>1, <2>1, ServiceStep
<1> QED
  BY <1>2, <1>3

LEMMA ServiceAccepts ==
    ASSUME IInv, IInv', NEW key, NEW d, SubmitCreates(key, d)
    PROVE  Service!Next
<1> DEFINE promise == ExpiresAt(Cardinality(Active(Swept)))
           n == WithEvent([NoJob EXCEPT !.state = "queued", !.digest = d, !.key = key,
                                        !.expires_at = promise], "queued")
<1>1. PICK j \in Jobs :
        /\ jobs[j].state = "absent"
        /\ \A i \in 1..(j - 1) : jobs[i].state # "absent"
        /\ jobs' = [Swept EXCEPT ![j] = n]
  BY DEF SubmitCreates
<1>2. n.state = "queued"
  BY DEF WithEvent, NoJob
<1> HIDE DEF n
<1>3. \A i \in Jobs : jobs'[i] = IF i = j THEN n ELSE Swept[i]
  BY <1>1 DEF Swept
<1>4. Service!Accepts(j)
  <2>1. \A i \in 1..(j - 1) : i \in Jobs
    BY BoundsAssumption DEF Jobs
  <2>2. life[j] = "absent" /\ life'[j] = "queued" /\ \A i \in 1..(j - 1) : life[i] # "absent"
    BY <1>1, <1>2, <1>3, <2>1 DEF life
  <2> QED
    BY <2>2 DEF Service!Accepts, life
<1>5. \A i \in Jobs \ {j} : life'[i] = life[i] \/ Service!Forgets(i)
  BY <1>3, SweptAges, AgedForget DEF Service!Forgets, Service!Ended, life, kept
<1> QED
  BY <1>4, <1>5, ServiceStep

\* The queue gives the semaphore to the queued job that was accepted first.
LEMMA ServiceStarts ==
    ASSUME IInv, IInv', NEW j \in Jobs, Start(j)
    PROVE  Service!Next
<1> DEFINE n == WithEvent([jobs[j] EXCEPT !.state = "running"], "running")
<1>1. /\ queue # <<>> /\ j = Head(queue) /\ jobs[j].state = "queued"
      /\ jobs' = [jobs EXCEPT ![j] = n]
  BY DEF Start, NextInLine
<1>2. jobs[j] \in Record
  BY PartsOfInvariant
<1>3. n.state = "running"
  BY <1>2 DEF WithEvent, Record
<1> HIDE DEF n
<1>4. \A i \in Jobs : jobs'[i] = IF i = j THEN n ELSE jobs[i]
  BY <1>1, PartsOfInvariant
<1>5. ASSUME NEW i \in 1..(j - 1), jobs[i].state = "queued" PROVE FALSE
  <2>1. i \in Jobs /\ i < j
    BY BoundsAssumption DEF Jobs
  <2>2. queue \in Seq(Jobs) /\ Len(queue) \in Nat /\ 1 \in 1..Len(queue) /\ queue[1] = j
    BY <1>1, PartsOfInvariant
  <2>3. ~closed
    <3>1. closed => queue = <<>>
      BY DEF IInv, QueueInv
    <3> QED
      BY <1>1, <3>1
  <2>4. PICK k \in 1..Len(queue) : queue[k] = i
    BY <1>5, <2>1, <2>3 DEF IInv, QueueInv
  <2>5. k # 1 /\ 1 < k
    BY <2>1, <2>2, <2>4, BoundsAssumption DEF Jobs
  <2>6. queue[1] < queue[k]
    BY <2>2, <2>5 DEF IInv, QueueInv
  <2> QED
    BY <2>1, <2>2, <2>4, <2>6 DEF Jobs
<1>6. Service!Starts(j)
  <2>1. \A i \in 1..(j - 1) : i \in Jobs
    BY BoundsAssumption DEF Jobs
  <2>2. life[j] = "queued" /\ life'[j] = "running" /\ \A i \in 1..(j - 1) : life[i] # "queued"
    BY <1>1, <1>3, <1>4, <1>5, <2>1 DEF life
  <2> QED
    BY <2>2 DEF Service!Starts, life
<1>7. \A i \in Jobs \ {j} : life'[i] = life[i]
  BY <1>4 DEF life
<1> QED
  BY <1>6, <1>7, ServiceStep

\* The outcome of a job that runs.
LEMMA ServiceEnds ==
    ASSUME IInv, IInv', NEW j \in Jobs, jobs[j].state = "running",
           jobs'[j].state \in {"succeeded", "failed"},
           \A i \in Jobs \ {j} : jobs'[i] = jobs[i]
    PROVE  Service!Next
<1>1. life[j] = "running" /\ life'[j] \in Service!Ended
  BY DEF life, Service!Ended
<1>2. Service!Ends(j)
  BY <1>1 DEF Service!Ends, life
<1>3. \A i \in Jobs \ {j} : life'[i] = life[i]
  BY DEF life
<1> QED
  BY <1>2, <1>3, ServiceStep

\* An outcome and a record that expires or is dropped are what the service shows of a
\* task and of a look.
LEMMA ServiceTask ==
    ASSUME IInv, IInv', NEW j \in Jobs, TaskStep(j) \/ Progress(j) \/ Returns(j) \/ Breaks(j)
    PROVE  UNCHANGED life \/ Service!Next
<1>1. jobs[j] \in Record
  BY PartsOfInvariant
<1>2. CASE Start(j)
  BY <1>2, ServiceStarts
<1>3. CASE Complete(j)
  <2> DEFINE n == WithEvent([jobs[j] EXCEPT !.state = "succeeded", !.terminal_at = now],
                            "completed")
  <2>1. n.state = "succeeded"
    BY <1>1 DEF WithEvent, Record
  <2>2. jobs[j].state = "running" /\ jobs' = [jobs EXCEPT ![j] = n]
    BY <1>3 DEF Complete
  <2> HIDE DEF n
  <2>3. /\ jobs'[j].state \in {"succeeded", "failed"}
        /\ \A i \in Jobs \ {j} : jobs'[i] = jobs[i]
    BY <2>1, <2>2, PartsOfInvariant
  <2> QED
    BY <2>2, <2>3, ServiceEnds
<1>4. CASE Fail(j)
  <2> DEFINE n == WithEvent([jobs[j] EXCEPT !.state = "failed", !.terminal_at = now], "failed")
  <2>1. n.state = "failed"
    BY <1>1 DEF WithEvent, Record
  <2>2. jobs[j].state = "running" /\ jobs' = [jobs EXCEPT ![j] = n]
    BY <1>4 DEF Fail, IInv, TasksOwnTheirJobs
  <2> HIDE DEF n
  <2>3. /\ jobs'[j].state \in {"succeeded", "failed"}
        /\ \A i \in Jobs \ {j} : jobs'[i] = jobs[i]
    BY <2>1, <2>2, PartsOfInvariant
  <2> QED
    BY <2>2, <2>3, ServiceEnds
<1>5. CASE Progress(j)
  <2> DEFINE n == WithEvent([jobs[j] EXCEPT !.progress = jobs[j].progress + 1], "progress")
  <2>1. n.state = jobs[j].state
    BY <1>1 DEF WithEvent, Record
  <2>2. jobs' = [jobs EXCEPT ![j] = n]
    BY <1>5 DEF Progress
  <2> HIDE DEF n
  <2>3. \A i \in Jobs : life'[i] = life[i]
    BY <2>1, <2>2 DEF life
  <2> QED
    BY <2>3 DEF life
<1>6. CASE Returns(j) \/ Breaks(j)
  BY <1>6 DEF Returns, Breaks, life
<1> QED
  BY <1>2, <1>3, <1>4, <1>5, <1>6 DEF TaskStep, TimesOut

LEMMA ServiceLooks ==
    ASSUME IInv, IInv', NEW S \in SUBSET Jobs, jobs' = Expire(S)
    PROVE  UNCHANGED life \/ Service!Next
  BY ExpireAges, ServiceSweeps

LEMMA ServiceNext == IInv /\ IInv' /\ [Next]_vars => UNCHANGED life \/ Service!Next
<1> SUFFICES ASSUME IInv, IInv', [Next]_vars PROVE UNCHANGED life \/ Service!Next
  OBVIOUS
<1>1. CASE SubmitAnswered
  BY <1>1, SweptAges, ServiceSweeps DEF SubmitAnswered
<1>2. ASSUME NEW key \in Keys \cup {None}, NEW d \in Digests, SubmitCreates(key, d)
      PROVE  Service!Next
  BY <1>2, ServiceAccepts
<1>3. ASSUME NEW j \in Jobs, ExpiresOnLook(j) PROVE UNCHANGED life \/ Service!Next
  BY <1>3, ServiceLooks DEF ExpiresOnLook
<1>4. CASE Close
  BY <1>4 DEF Close, life
<1>5. ASSUME NEW j \in Jobs, TaskStep(j) \/ Progress(j) \/ Returns(j) \/ Breaks(j)
      PROVE  UNCHANGED life \/ Service!Next
  BY <1>5, ServiceTask
<1>6. ASSUME NEW r \in Readers, NEW j \in Jobs, OpenEvents(r, j) PROVE UNCHANGED life
  BY <1>6 DEF OpenEvents, life
<1>7. ASSUME NEW r \in Readers, Deliver(r) \/ Disconnect(r) PROVE UNCHANGED life
  BY <1>7 DEF Deliver, Disconnect, life
<1>8. ASSUME NEW r \in Readers, Finish(r) PROVE UNCHANGED life \/ Service!Next
  <2>1. reader[r].job \in Jobs
    BY <1>8 DEF Finish, IInv, ReaderOk
  <2>2. jobs' = Expire({reader[r].job})
    BY <1>8 DEF Finish
  <2> QED
    BY <2>1, <2>2, ServiceLooks
<1>9. CASE Tick \/ UNCHANGED vars
  BY <1>9 DEF Tick, vars, life
<1> QED
  BY <1>1, <1>2, <1>3, <1>4, <1>5, <1>6, <1>7, <1>8, <1>9 DEF Next

\* ImplementsService: with every interleaving of submissions, looks, tasks, streams and
\* the shutdown, jobs go one way through their states, start in the order of acceptance,
\* stay within the capacity, and are forgotten only after the retention.
THEOREM ServiceRefinement == Spec => ImplementsService
<1>1. Init => Service!Init
  <2> SUFFICES ASSUME Init PROVE life = [j \in Jobs |-> "absent"] /\ kept = {}
    BY DEF Service!Init, life, kept, Service!Jobs, Jobs
  <2>1. \A j \in Jobs : jobs[j].state = "absent"
    BY DEF Init, NoJob
  <2> QED
    BY <2>1 DEF life, kept, Ended
<1>2. IInv /\ IInv' /\ [Next]_vars => [Service!Next]_life
  BY ServiceNext
<1> QED
  BY <1>1, <1>2, Invariance, PTL DEF Spec, ImplementsService, Service!Spec, life, kept

-----------------------------------------------------------------------------
(* What an executor sees of its manager (used by RemoteSolveProofs).        *)

\* The steps of the manager that are no executor's return and no subscriber's.
Turn(i) ==
    \/ SubmitAnswered
    \/ \E key \in Keys \cup {None}, d \in Digests : SubmitCreates(key, d)
    \/ ExpiresOnLook(i) \/ Close
    \/ Start(i) \/ Complete(i) \/ Fail(i) \/ Progress(i) \/ Breaks(i)

\* No job succeeds but through its completion, and no completion begins but with the
\* return of the executor.
LEMMA Succeeding ==
    ASSUME IInv, NEW i \in Jobs, Turn(i), NEW j \in Jobs
    PROVE  /\ jobs'[j].state = "succeeded" =>
                jobs[j].state = "succeeded" \/ task[j].pc = "completing"
           /\ task'[j].pc = "completing" => task[j].pc = "completing"
<1> USE PartsOfInvariant
<1>1. ASSUME NEW S \in SUBSET Jobs, Ages(S, jobs') PROVE jobs'[j].state = "succeeded" => jobs[j].state = "succeeded"
  <2>1. Forgotten(jobs[j]).state = "expired" /\ Trimmed.state = "trimmed"
    BY ForgottenOk, TrimmedOk
  <2> QED
    BY <1>1, <2>1 DEF Ages
<1>2. CASE SubmitAnswered
  BY <1>1, <1>2, SweptAges DEF SubmitAnswered
<1>3. ASSUME NEW key, NEW d, SubmitCreates(key, d)
      PROVE  /\ jobs'[j].state = "succeeded" => jobs[j].state = "succeeded"
             /\ task'[j].pc = "completing" => task[j].pc = "completing"
  <2> DEFINE n(promise) == WithEvent([NoJob EXCEPT !.state = "queued", !.digest = d, !.key = key,
                                        !.expires_at = promise], "queued")
  <2>1. PICK k \in Jobs, promise \in {ExpiresAt(Cardinality(Active(Swept)))} :
          /\ jobs' = [Swept EXCEPT ![k] = n(promise)]
          /\ task' = [task EXCEPT ![k].pc = "waiting"]
    BY <1>3 DEF SubmitCreates
  <2>2. n(promise).state = "queued"
    BY DEF WithEvent, NoJob
  <2> HIDE DEF n
  <2>3. jobs'[j] = n(promise) \/ jobs'[j] = Swept[j]
    BY <2>1 DEF Swept
  <2>4. Swept[j].state = "succeeded" => jobs[j].state = "succeeded"
    <3>1. Forgotten(jobs[j]).state = "expired" /\ Trimmed.state = "trimmed"
      BY ForgottenOk, TrimmedOk
    <3> QED
      BY <3>1, SweptAges DEF Ages
  <2> QED
    BY <2>1, <2>2, <2>3, <2>4
<1>4. CASE ExpiresOnLook(i)
  BY <1>1, <1>4, ExpireAges DEF ExpiresOnLook
<1>5. CASE Close
  BY <1>5 DEF Close
<1>6. CASE Start(i)
  <2> DEFINE n == WithEvent([jobs[i] EXCEPT !.state = "running"], "running")
  <2>1. n.state = "running"
    BY DEF WithEvent, Record
  <2> HIDE DEF n
  <2>2. /\ jobs' = [jobs EXCEPT ![i] = n]
        /\ task' = [task EXCEPT ![i] = [pc |-> "executing", deadline |-> now + Timeout]]
    BY <1>6 DEF Start, n
  <2> QED
    BY <2>1, <2>2
<1>7. CASE Complete(i)
  BY <1>7 DEF Complete
<1>8. CASE Fail(i)
  <2> DEFINE n == WithEvent([jobs[i] EXCEPT !.state = "failed", !.terminal_at = now], "failed")
  <2>1. n.state = "failed"
    BY DEF WithEvent, Record
  <2> HIDE DEF n
  <2>2. /\ jobs' \in {[jobs EXCEPT ![i] = n], jobs}
        /\ task' = [task EXCEPT ![i].pc = "done"]
    BY <1>8 DEF Fail, n
  <2> QED
    BY <2>1, <2>2
<1>9. CASE Progress(i)
  <2> DEFINE n == WithEvent([jobs[i] EXCEPT !.progress = jobs[i].progress + 1], "progress")
  <2>1. n.state = jobs[i].state
    BY DEF WithEvent, Record
  <2> HIDE DEF n
  <2>2. jobs' = [jobs EXCEPT ![i] = n] /\ task' = task
    BY <1>9 DEF Progress, n
  <2> QED
    BY <2>1, <2>2
<1>10. CASE Breaks(i)
  BY <1>10 DEF Breaks
<1> QED
  BY <1>2, <1>3, <1>4, <1>5, <1>6, <1>7, <1>8, <1>9, <1>10 DEF Turn

-----------------------------------------------------------------------------
(* Every job is over in time.  An executor may keep its slot for k ticks    *)
(* past its deadline, and a promise allows for slack ticks of that: none    *)
(* here, and the requests to stop a container in RemoteSolve.               *)

\* When the job has to be over for its retention to end as promised, and when its executor
\* has to be started for that.
EndBy(j, slack) == jobs[j].expires_at + slack - Retention
StartBy(j, k, slack) == EndBy(j, slack) - Timeout - k

\* The tasks that may still hold their slot at t.
HeldPast(k, t) == {j \in Jobs : task[j].pc = "executing" /\ task[j].deadline + k > t}

\* The i-th in line starts by s: some whole number m of turns before s, the slots that will
\* be free then, with C more in every turn, are enough for it and for those ahead of it.
InTime(k, i, s) ==
    \E m \in Nat :
        /\ now <= s - m * (Timeout + k)
        /\ i + Cardinality(HeldPast(k, s - m * (Timeout + k))) <= Concurrency * (m + 1)

JobOnTime(j, k, slack) ==
    /\ task[j].pc = "executing" =>
        /\ now <= task[j].deadline + k /\ task[j].deadline <= now + Timeout
        /\ task[j].deadline + k <= EndBy(j, slack)
    /\ task[j].pc \in {"completing", "failing"} => now <= EndBy(j, slack)
    /\ Ended(j) => jobs[j].terminal_at <= EndBy(j, slack)
    /\ jobs[j].state = "running" => task[j].pc \in {"executing", "completing", "failing"}

OnTime(k, slack) ==
    ~closed =>
        /\ \A i \in 1..Len(queue) :
            task[queue[i]].pc = "waiting" /\ InTime(k, i, StartBy(queue[i], k, slack))
        /\ \A j \in Jobs : JobOnTime(j, k, slack)

\* One turn less, and one more.
LEMMA Turns ==
    ASSUME NEW k \in Nat, NEW m \in Nat
    PROVE  /\ (m + 1) * (Timeout + k) = m * (Timeout + k) + (Timeout + k)
           /\ Concurrency * (m + 1) = Concurrency * m + Concurrency
           /\ m * (Timeout + k) \in Nat /\ Concurrency * m \in Nat
           /\ m * (Timeout + k) = m * Timeout + m * k /\ m * Timeout \in Nat /\ m * k \in Nat
  BY TimesAssumption, CapacityAssumption

LEMMA HeldIsFinite ==
    ASSUME NEW k, NEW t
    PROVE  HeldPast(k, t) \in SUBSET Jobs /\ Cardinality(HeldPast(k, t)) \in Nat
<1>1. HeldPast(k, t) \in SUBSET Jobs
  BY DEF HeldPast
<1> QED
  BY <1>1, JobsAreFinite

\* The times of records and tasks are numbers.
LEMMA TimesAreNumbers ==
    ASSUME IInv, NEW j \in Jobs
    PROVE  /\ jobs[j].expires_at \in Nat /\ jobs[j].terminal_at \in Nat
           /\ task[j].deadline \in Nat /\ now \in Nat
  BY PartsOfInvariant DEF Record

LEMMA EventKeeps ==
    ASSUME NEW m \in Record, NEW name
    PROVE  LET n == WithEvent(m, name) IN
           n.state = m.state /\ n.expires_at = m.expires_at /\ n.terminal_at = m.terminal_at
  BY DEF WithEvent, Record

\* A step in which the clock and the queue stand still and no slot is taken.
LEMMA SteadyStep ==
    ASSUME IInv, IInv', NEW k \in Nat, NEW slack \in Nat, OnTime(k, slack),
           queue' = queue, now' = now, closed' = closed,
           \A j \in Jobs :
                /\ task'[j].pc = "executing" => task'[j] = task[j]
                /\ task[j].pc = "waiting" => task'[j].pc = "waiting"
                /\ task'[j].pc \in {"completing", "failing"} =>
                    task[j].pc \in {"executing", "completing", "failing"}
                /\ jobs'[j].state \in {"queued", "running", "succeeded", "failed"} =>
                    jobs'[j].expires_at = jobs[j].expires_at
                /\ jobs'[j].state \in {"succeeded", "failed"} =>
                    \/ /\ jobs[j].state \in {"succeeded", "failed"}
                       /\ jobs'[j].terminal_at = jobs[j].terminal_at
                    \/ task[j].pc \in {"completing", "failing"} /\ jobs'[j].terminal_at = now
                /\ jobs'[j].state = "running" =>
                    jobs[j].state = "running" /\ task'[j].pc \in {"executing", "completing", "failing"}
    PROVE  OnTime(k, slack)'
<1> SUFFICES ASSUME ~closed PROVE OnTime(k, slack)'
  BY DEF OnTime
<1>1. queue \in Seq(Jobs) /\ \A i \in 1..Len(queue) : queue[i] \in Jobs
  BY PartsOfInvariant
<1>2. \A j \in Jobs : /\ task'[j].pc = "waiting" => jobs'[j].state = "queued"
                      /\ task'[j].pc \in {"executing", "completing", "failing"} =>
                            jobs'[j].state = "running"
  BY DEF IInv, TasksOwnTheirJobs
<1>3. \A j \in Jobs : task'[j].pc \in {"waiting", "executing", "completing", "failing"} =>
            /\ EndBy(j, slack)' = EndBy(j, slack)
            /\ StartBy(j, k, slack)' = StartBy(j, k, slack)
  BY <1>2 DEF EndBy, StartBy
<1>4. ASSUME NEW i \in 1..Len(queue) PROVE (task[queue[i]].pc = "waiting" /\ InTime(k, i, StartBy(queue[i], k, slack)))'
  <2> DEFINE s == StartBy(queue[i], k, slack)
  <2>1. task[queue[i]].pc = "waiting" /\ task'[queue[i]].pc = "waiting" /\ queue[i] \in Jobs
    BY <1>1 DEF OnTime
  <2>2. s' = s
    BY <1>3, <2>1
  <2>3. InTime(k, i, s)
    BY DEF OnTime
  <2> HIDE DEF s
  <2>4. PICK m \in Nat :
          /\ now <= s - m * (Timeout + k)
          /\ i + Cardinality(HeldPast(k, s - m * (Timeout + k))) <= Concurrency * (m + 1)
    BY <2>3 DEF InTime
  <2> DEFINE t == s - m * (Timeout + k)
  <2>5. HeldPast(k, t)' \subseteq HeldPast(k, t) /\ t' = t
    BY <2>2 DEF HeldPast
  <2>6. /\ Cardinality(HeldPast(k, t)') <= Cardinality(HeldPast(k, t))
        /\ Cardinality(HeldPast(k, t)) \in Nat /\ Cardinality(HeldPast(k, t)') \in Nat
    BY <2>5, HeldIsFinite, FewerJobs, JobsAreFinite
  <2>7. i + Cardinality(HeldPast(k, t)') <= Concurrency * (m + 1)
    <3>1. i + Cardinality(HeldPast(k, t)) <= Concurrency * (m + 1) /\ i \in Nat
      BY <1>1, <2>4
    <3> DEFINE late == Cardinality(HeldPast(k, t))
               later == Cardinality(HeldPast(k, t)')
               room == Concurrency * (m + 1)
    <3>2. later <= late /\ late \in Nat /\ later \in Nat /\ room \in Nat /\ i + late <= room
      BY <2>6, <3>1, CapacityAssumption
    <3> HIDE DEF late, later, room
    <3>3. i + later <= room
      BY <3>1, <3>2
    <3> QED
      BY <3>3 DEF later, room
  <2> QED
    BY <2>1, <2>2, <2>4, <2>5, <2>7 DEF InTime, s
<1>5. ASSUME NEW j \in Jobs PROVE JobOnTime(j, k, slack)'
  <2>1. JobOnTime(j, k, slack) /\ task[j].deadline \in Nat /\ now \in Nat
    BY TimesAreNumbers DEF OnTime
  <2>2. jobs'[j].state \in {"running", "succeeded", "failed"} => EndBy(j, slack)' = EndBy(j, slack)
    BY DEF EndBy
  <2>3. EndBy(j, slack) \in Int
    BY TimesAreNumbers, TimesAssumption DEF EndBy
  <2>4. task[j].pc \in {"executing", "completing", "failing"} => now <= EndBy(j, slack)
    BY <2>1, <2>3 DEF JobOnTime
  <2>5. task'[j].pc = "executing" =>
            /\ now <= task'[j].deadline + k /\ task'[j].deadline <= now + Timeout
            /\ task'[j].deadline + k <= EndBy(j, slack)'
    BY <1>2, <2>1, <2>2 DEF JobOnTime
  <2>6. task'[j].pc \in {"completing", "failing"} => now <= EndBy(j, slack)'
    BY <1>2, <2>2, <2>4
  <2>7. jobs'[j].state \in {"succeeded", "failed"} => jobs'[j].terminal_at <= EndBy(j, slack)'
    BY <2>1, <2>2, <2>4 DEF JobOnTime, Ended
  <2> QED
    BY <2>5, <2>6, <2>7 DEF JobOnTime, Ended
<1> QED
  BY <1>4, <1>5 DEF OnTime

\* The turns of the manager that are steady.
LEMMA SweepsOnTime ==
    ASSUME IInv, IInv', NEW k \in Nat, NEW slack \in Nat, OnTime(k, slack),
           NEW S \in SUBSET Jobs, Ages(S, jobs'), UNCHANGED <<task, queue, closed, now>>
    PROVE  OnTime(k, slack)'
<1>1. \A j \in Jobs :
        \/ jobs'[j] = jobs[j]
        \/ jobs'[j].state \in {"expired", "trimmed"}
  BY AgedKeep
<1>2. CASE closed
  BY <1>2 DEF OnTime
<1>3. CASE ~closed
  <2>1. \A j \in Jobs : jobs[j].state = "running" => task[j].pc \in {"executing", "completing", "failing"}
    BY <1>3 DEF OnTime, JobOnTime
  <2> QED
    BY <1>1, <2>1, SteadyStep
<1> QED
  BY <1>2, <1>3

LEMMA OutcomesOnTime ==
    ASSUME IInv, IInv', NEW k \in Nat, NEW slack \in Nat, OnTime(k, slack), NEW i \in Jobs,
           Complete(i) \/ Fail(i) \/ Progress(i) \/ Breaks(i) \/ Returns(i)
    PROVE  OnTime(k, slack)'
<1> USE PartsOfInvariant
<1>1. SUFFICES ASSUME ~closed PROVE OnTime(k, slack)'
  <2>1. closed' = closed
    BY DEF Complete, Fail, Progress, Breaks, Returns
  <2> QED
    BY <2>1 DEF OnTime
<1>2. \A j \in Jobs : jobs[j].state = "running" => task[j].pc \in {"executing", "completing", "failing"}
  BY <1>1 DEF OnTime, JobOnTime
<1>3. jobs[i] \in Record /\ jobs \in [Jobs -> Record] /\ task \in [Jobs -> [pc: Steps, deadline: Nat]]
  OBVIOUS
<1>4. CASE Complete(i) \/ Fail(i)
  <2>1. PICK state \in {"succeeded", "failed"}, name \in EventNames :
          /\ \/ jobs' = jobs /\ jobs[i].state \notin {"queued", "running"}
             \/ jobs' = [jobs EXCEPT ![i] =
                    WithEvent([@ EXCEPT !.state = state, !.terminal_at = now], name)]
          /\ task[i].pc \in {"completing", "failing"}
          /\ task' = [task EXCEPT ![i].pc = "done"]
          /\ UNCHANGED <<queue, closed, now>>
    BY <1>4 DEF Complete, Fail, EventNames
  <2> DEFINE m == [jobs[i] EXCEPT !.state = state, !.terminal_at = now]
             n == WithEvent(m, name)
  <2>2. /\ m \in Record /\ m.state = state /\ m.terminal_at = now
        /\ m.expires_at = jobs[i].expires_at
    BY <1>3 DEF Record, JobStates
  <2> HIDE DEF m
  <2>3. n.state = state /\ n.terminal_at = now /\ n.expires_at = jobs[i].expires_at
    BY <2>2, EventKeeps
  <2>4. \/ jobs' = jobs /\ jobs[i].state \notin {"queued", "running"}
        \/ jobs' = [jobs EXCEPT ![i] = n]
    BY <2>1 DEF m
  <2> HIDE DEF n
  <2>5. \A j \in Jobs : jobs'[j] = jobs[j] \/ (j = i /\ jobs'[j] = n)
    BY <1>3, <2>4
  <2>6. /\ task'[i].pc = "done" /\ \A j \in Jobs \ {i} : task'[j] = task[j]
        /\ jobs'[i] = n \/ jobs[i].state # "running"
    BY <1>3, <2>1, <2>4
  <2>7. ASSUME NEW j \in Jobs
        PROVE  /\ task'[j].pc = "executing" => task'[j] = task[j]
               /\ task[j].pc = "waiting" => task'[j].pc = "waiting"
               /\ task'[j].pc \in {"completing", "failing"} =>
                   task[j].pc \in {"executing", "completing", "failing"}
    BY <2>1, <2>6
  <2>8. ASSUME NEW j \in Jobs
        PROVE  /\ jobs'[j].expires_at = jobs[j].expires_at
               /\ jobs'[j].state \in {"succeeded", "failed"} =>
                    \/ /\ jobs[j].state \in {"succeeded", "failed"}
                       /\ jobs'[j].terminal_at = jobs[j].terminal_at
                    \/ task[j].pc \in {"completing", "failing"} /\ jobs'[j].terminal_at = now
               /\ jobs'[j].state = "running" =>
                    jobs[j].state = "running" /\ task'[j].pc \in {"executing", "completing", "failing"}
    BY <1>2, <2>1, <2>3, <2>5, <2>6
  <2> QED
    BY <2>1, <2>7, <2>8, SteadyStep
<1>5. CASE Progress(i)
  <2> DEFINE m == [jobs[i] EXCEPT !.progress = jobs[i].progress + 1]
             n == WithEvent(m, "progress")
  <2>1. jobs' = [jobs EXCEPT ![i] = n] /\ UNCHANGED <<task, queue, closed, now>>
        /\ jobs[i].state = "running" /\ MayReport(i)
    BY <1>5 DEF Progress
  <2>2. /\ m \in Record /\ m.state = "running" /\ m.terminal_at = jobs[i].terminal_at
        /\ m.expires_at = jobs[i].expires_at
    <3>1. jobs[i].progress + 1 \in 0..MaxProgress
      BY <1>3, <2>1, BoundsAssumption DEF MayReport, Record
    <3> QED
      BY <1>3, <2>1, <3>1 DEF Record
  <2> HIDE DEF m
  <2>3. n.state = "running" /\ n.expires_at = jobs[i].expires_at
    BY <2>2, EventKeeps
  <2> HIDE DEF n
  <2>4. \A j \in Jobs : jobs'[j] = jobs[j] \/ (j = i /\ jobs'[j] = n)
    BY <1>3, <2>1
  <2> QED
    BY <1>2, <2>1, <2>3, <2>4, SteadyStep
<1>6. CASE Breaks(i) \/ Returns(i)
  <2>1. /\ task'[i].pc \in {"completing", "failing"} /\ \A j \in Jobs \ {i} : task'[j] = task[j]
        /\ task[i].pc \in {"executing", "completing"}
        /\ UNCHANGED <<jobs, queue, closed, now>>
    BY <1>3, <1>6 DEF Breaks, Returns
  <2> QED
    BY <1>2, <2>1, SteadyStep
<1> QED
  BY <1>4, <1>5, <1>6

\* The first in line takes a slot for a whole turn, and those behind it move up.
LEMMA StartsOnTime ==
    ASSUME IInv, IInv', NEW k \in Nat, NEW slack \in Nat, OnTime(k, slack), NEW j \in Jobs, Start(j)
    PROVE  OnTime(k, slack)'
<1> USE PartsOfInvariant
<1> DEFINE m == [jobs[j] EXCEPT !.state = "running"]
           n == WithEvent(m, "running")
<1>1. /\ queue # <<>> /\ j = Head(queue) /\ jobs[j].state = "queued"
      /\ queue' = Tail(queue) /\ jobs' = [jobs EXCEPT ![j] = n]
      /\ task' = [task EXCEPT ![j] = [pc |-> "executing", deadline |-> now + Timeout]]
      /\ UNCHANGED <<closed, now>>
  BY DEF Start, NextInLine
<1>2. /\ jobs \in [Jobs -> Record] /\ task \in [Jobs -> [pc: Steps, deadline: Nat]]
      /\ queue \in Seq(Jobs) /\ jobs[j] \in Record /\ now \in Nat
  OBVIOUS
<1>3. n.state = "running" /\ n.expires_at = jobs[j].expires_at
  <2>1. m \in Record /\ m.state = "running" /\ m.expires_at = jobs[j].expires_at
    BY <1>2 DEF Record, JobStates
  <2> HIDE DEF m
  <2> QED
    BY <2>1, EventKeeps
<1> HIDE DEF n
<1>4. ~closed
  BY <1>1 DEF IInv, QueueInv
<1>5. /\ Len(queue) \in Nat /\ Len(queue) >= 1 /\ queue[1] = j /\ Len(queue') = Len(queue) - 1
      /\ \A i \in 1..Len(queue') : i + 1 \in 1..Len(queue) /\ queue'[i] = queue[i + 1]
  BY <1>1, <1>2
<1>6. /\ task'[j].pc = "executing" /\ task'[j].deadline = now + Timeout
      /\ jobs'[j] = n
      /\ \A i \in Jobs \ {j} : task'[i] = task[i] /\ jobs'[i] = jobs[i]
  BY <1>1, <1>2, TimesAssumption
<1>7. \A i \in Jobs : EndBy(i, slack)' = EndBy(i, slack) /\ StartBy(i, k, slack)' = StartBy(i, k, slack)
  BY <1>3, <1>6 DEF EndBy, StartBy
<1>8. \A i \in Jobs : EndBy(i, slack) \in Int /\ StartBy(i, k, slack) = EndBy(i, slack) - Timeout - k
  BY TimesAreNumbers, TimesAssumption DEF EndBy, StartBy
<1>9. \A t : HeldPast(k, t)' \subseteq HeldPast(k, t) \cup {j}
  BY <1>1, <1>6 DEF HeldPast
<1>10. ASSUME NEW i \in 1..Len(queue')
       PROVE  (task[queue[i]].pc = "waiting" /\ InTime(k, i, StartBy(queue[i], k, slack)))'
  <2>0. 1 \in 1..Len(queue) /\ i + 1 \in 1..Len(queue) /\ 1 < i + 1 /\ i \in Nat
    <3>1. i \in Nat /\ 1 <= i /\ i + 1 \in 1..Len(queue)
      BY <1>5
    <3> QED
      BY <1>5, <3>1
  <2>b. PICK b \in Jobs : b = queue[i + 1]
    BY <1>2, <2>0
  <2> DEFINE s == StartBy(b, k, slack)
  <2>1. queue'[i] = b /\ b # j
    <3>1. \A x, y \in 1..Len(queue) : x < y => queue[x] < queue[y]
      BY DEF IInv, QueueInv
    <3>2. queue[1] < queue[i + 1]
      BY <2>0, <3>1
    <3> QED
      BY <1>5, <2>b, <3>2 DEF Jobs
  <2>2. task[b].pc = "waiting" /\ InTime(k, i + 1, s)
    BY <1>4, <2>0, <2>b DEF OnTime
  <2>3. task'[b].pc = "waiting" /\ s' = s /\ s \in Int
    BY <1>6, <1>7, <1>8, <2>1, <2>2, TimesAssumption
  <2> HIDE DEF s
  <2>4. PICK p \in Nat :
          /\ now <= s - p * (Timeout + k)
          /\ i + 1 + Cardinality(HeldPast(k, s - p * (Timeout + k))) <= Concurrency * (p + 1)
    BY <2>2 DEF InTime
  <2> DEFINE t == s - p * (Timeout + k)
             late == Cardinality(HeldPast(k, t))
             later == Cardinality(HeldPast(k, t)')
             room == Concurrency * (p + 1)
  <2>5. /\ late \in Nat /\ later \in Nat /\ later <= late + 1
    <3>1. HeldPast(k, t) \in SUBSET Jobs /\ HeldPast(k, t)' \in SUBSET Jobs
          /\ HeldPast(k, t) \cup {j} \in SUBSET Jobs
      BY <2>1, <2>3, HeldIsFinite DEF HeldPast
    <3>2. IsFiniteSet(HeldPast(k, t)) /\ late \in Nat /\ later \in Nat
      BY <3>1, JobsAreFinite
    <3>3. Cardinality(HeldPast(k, t) \cup {j}) <= late + 1
      <4> DEFINE held == HeldPast(k, t)
      <4>1. Cardinality(held \cup {j}) = IF j \in held THEN Cardinality(held) ELSE Cardinality(held) + 1
        BY <3>2, FS_AddElement
      <4>2. Cardinality(held) \in Nat
        BY <3>2
      <4> HIDE DEF held
      <4>3. Cardinality(held \cup {j}) <= Cardinality(held) + 1
        BY <4>1, <4>2
      <4> QED
        BY <4>3 DEF held
    <3>4. t' = t
      BY <2>3
    <3>5. later <= Cardinality(HeldPast(k, t) \cup {j})
      BY <1>9, <3>1, <3>4, FewerJobs
    <3>6. Cardinality(HeldPast(k, t) \cup {j}) \in Nat
      BY <3>1, JobsAreFinite
    <3> QED
      BY <3>2, <3>3, <3>5, <3>6
  <2>6. i + 1 + late <= room /\ room \in Nat
    BY <2>4, CapacityAssumption
  <2>7. t' = t /\ now' = now /\ now <= t
    BY <1>1, <2>3, <2>4
  <2>8. i + later <= room
    <3> HIDE DEF late, later, room
    <3> QED
      BY <2>1, <2>5, <2>6
  <2>9. queue'[i] = b /\ StartBy(queue[i], k, slack)' = s
    BY <2>1, <2>3 DEF s
  <2>10. InTime(k, i, s)'
    BY <2>3, <2>7, <2>8 DEF InTime
  <2> QED
    BY <2>1, <2>3, <2>9, <2>10
<1>11. now <= StartBy(j, k, slack)
  <2>1. InTime(k, 1, StartBy(j, k, slack)) /\ 1 \in 1..Len(queue)
    <3>1. 1 \in 1..Len(queue) /\ queue[1] = j
      BY <1>5
    <3> QED
      BY <1>4, <3>1 DEF OnTime
  <2>2. PICK p \in Nat : now <= StartBy(j, k, slack) - p * (Timeout + k)
    BY <2>1 DEF InTime
  <2>3. p * (Timeout + k) \in Nat
    BY Turns
  <2>4. StartBy(j, k, slack) \in Int
    BY <1>8, TimesAssumption
  <2> QED
    BY <1>2, <2>2, <2>3, <2>4
<1>12. JobOnTime(j, k, slack)'
  <2>1. now + Timeout + k <= EndBy(j, slack)
    BY <1>2, <1>8, <1>11, TimesAssumption
  <2> QED
    BY <1>1, <1>2, <1>3, <1>6, <1>7, <1>8, <2>1, TimesAssumption DEF JobOnTime, Ended
<1>13. ASSUME NEW i \in Jobs \ {j} PROVE JobOnTime(i, k, slack)'
  BY <1>1, <1>4, <1>6, <1>7 DEF OnTime, JobOnTime, Ended
<1> QED
  BY <1>10, <1>12, <1>13 DEF OnTime

\* The clock waits for tasks that are at their end or past their deadline, and for a free
\* slot to be taken: what is first in line then has a whole turn more of slots to come.
LEMMA ClockOnTime ==
    ASSUME IInv, NEW k \in Nat, NEW slack \in Nat, OnTime(k, slack),
           now' = now + 1, UNCHANGED <<jobs, task, queue, closed>>,
           \A j \in Jobs : /\ task[j].pc \notin {"completing", "failing"}
                           /\ task[j].pc = "executing" => now < task[j].deadline + k,
           queue # <<>> => ~FreeSlot
    PROVE  OnTime(k, slack)'
<1> USE PartsOfInvariant
<1> SUFFICES ASSUME ~closed PROVE OnTime(k, slack)'
  BY DEF OnTime
<1>1. ASSUME NEW j \in Jobs
      PROVE  /\ EndBy(j, slack)' = EndBy(j, slack) /\ StartBy(j, k, slack)' = StartBy(j, k, slack)
             /\ StartBy(j, k, slack) \in Int
  BY TimesAreNumbers, TimesAssumption DEF EndBy, StartBy
<1>2. ASSUME NEW i \in 1..Len(queue)
      PROVE  (task[queue[i]].pc = "waiting" /\ InTime(k, i, StartBy(queue[i], k, slack)))'
  <2>1. /\ queue[i] \in Jobs /\ i \in Nat /\ i >= 1 /\ now \in Nat
        /\ task[queue[i]].pc = "waiting" /\ InTime(k, i, StartBy(queue[i], k, slack))
    BY DEF OnTime
  <2>2. PICK s \in Int : s = StartBy(queue[i], k, slack) /\ s = StartBy(queue[i], k, slack)'
    BY <1>1, <2>1
  <2> DEFINE Passed(n) == n * (Timeout + k)
  <2>3. PICK m \in Nat :
          now <= s - Passed(m) /\ i + Cardinality(HeldPast(k, s - Passed(m))) <= Concurrency * (m + 1)
    BY <2>1, <2>2 DEF InTime
  <2>4. \A t : HeldPast(k, t)' = HeldPast(k, t)
    BY DEF HeldPast
  <2>5. Passed(m) \in Nat /\ Timeout + k \in Nat /\ Timeout + k > 0
    <3>1. Passed(m) \in Nat
      BY Turns
    <3> QED
      BY <3>1, TimesAssumption
  <2>6. CASE now + 1 <= s - Passed(m)
    BY <2>1, <2>2, <2>3, <2>4, <2>6 DEF InTime
  <2>7. CASE ~(now + 1 <= s - Passed(m))
    <3>1. now = s - Passed(m)
      <4>1. now <= s - Passed(m)
        BY <2>3
      <4> HIDE DEF Passed
      <4> QED
        BY <2>1, <2>5, <2>7, <4>1
    <3>2. HeldPast(k, now) = Holding
      BY DEF HeldPast, Holding
    <3>3. Cardinality(Holding) \in Nat /\ Cardinality(Holding) >= Concurrency
      <4>1. queue # <<>>
        BY <2>1
      <4>2. Holding \in SUBSET Jobs
        BY DEF Holding
      <4> QED
        BY <4>1, <4>2, JobsAreFinite, CapacityAssumption DEF FreeSlot
    <3>4. i + Cardinality(Holding) <= Concurrency * (m + 1)
      BY <2>3, <3>1, <3>2
    <3>5. i <= Concurrency * m
      <4>1. Concurrency * (m + 1) = Concurrency * m + Concurrency /\ Concurrency * m \in Nat
        BY Turns
      <4> DEFINE turns == Concurrency * m
      <4> HIDE DEF turns
      <4>2. Concurrency * (m + 1) = turns + Concurrency /\ turns \in Nat
        BY <4>1 DEF turns
      <4>3. i <= turns
        BY <2>1, <3>3, <3>4, <4>2, CapacityAssumption
      <4> QED
        BY <4>3 DEF turns
    <3>6. m # 0
      <4>1. m = 0 => Concurrency * m = 0
        BY CapacityAssumption
      <4> QED
        BY <2>1, <3>5, <4>1
    <3>7. PICK p \in Nat : m = p + 1
      <4>1. m - 1 \in Nat /\ m = (m - 1) + 1
        BY <3>6
      <4> QED
        BY <4>1
    <3>8. Passed(m) = Passed(p) + (Timeout + k) /\ Passed(p) \in Nat
      BY <3>7, Turns
    <3>9. s - Passed(p) = now + (Timeout + k)
      <4> HIDE DEF Passed
      <4> QED
        BY <2>1, <2>5, <3>1, <3>8
    <3>10. HeldPast(k, s - Passed(p)) = {}
      <4>1. ASSUME NEW j \in Jobs, task[j].pc = "executing" PROVE ~(task[j].deadline + k > now + (Timeout + k))
        <5>1. task[j].deadline <= now + Timeout
          BY <4>1 DEF OnTime, JobOnTime
        <5> QED
          BY <5>1, TimesAreNumbers, TimesAssumption
      <4> QED
        BY <3>9, <4>1 DEF HeldPast
    <3>11. Cardinality(HeldPast(k, s - Passed(p))) = 0
      BY <3>10, FS_EmptySet
    <3>12. now + 1 <= s - Passed(p)
      <4> HIDE DEF Passed
      <4> QED
        BY <2>1, <2>5, <3>9
    <3>13. i + Cardinality(HeldPast(k, s - Passed(p))) <= Concurrency * (p + 1)
      BY <2>1, <3>5, <3>7, <3>11
    <3> QED
      BY <2>1, <2>2, <2>4, <3>12, <3>13 DEF InTime
  <2> QED
    BY <2>6, <2>7
<1>3. ASSUME NEW j \in Jobs PROVE JobOnTime(j, k, slack)'
  <2>1. JobOnTime(j, k, slack) /\ task[j].deadline \in Nat /\ now \in Nat
    BY TimesAreNumbers DEF OnTime
  <2> QED
    BY <1>1, <2>1, TimesAssumption DEF JobOnTime, Ended
<1> QED
  BY <1>2, <1>3 DEF OnTime

\* The queue and the tasks that hold a slot are apart among the active jobs.
LEMMA ActiveCounted ==
    ASSUME IInv, ~closed, \A i \in 1..Len(queue) : task[queue[i]].pc = "waiting",
           NEW S \in SUBSET Jobs, \A j \in S : task[j].pc = "executing"
    PROVE  Len(queue) + Cardinality(S) <= Cardinality(Active(jobs))
<1> USE PartsOfInvariant
<1> DEFINE n == Len(queue)
           W == {queue[i] : i \in 1..n}
           f == [i \in 1..n |-> queue[i]]
<1>1. n \in Nat /\ queue \in Seq(Jobs) /\ W \in SUBSET Jobs
  OBVIOUS
<1>2. \A a, b \in 1..n : a # b => queue[a] # queue[b]
  <2>1. \A a, b \in 1..n : a < b => queue[a] < queue[b]
    BY DEF IInv, QueueInv
  <2>2. \A a \in 1..n : queue[a] \in Nat
    BY <1>1, BoundsAssumption DEF Jobs
  <2>3. ASSUME NEW a \in 1..n, NEW b \in 1..n, a < b PROVE queue[a] # queue[b]
    <3>1. queue[a] < queue[b] /\ queue[a] \in Nat /\ queue[b] \in Nat
      BY <2>1, <2>2, <2>3
    <3> QED
      BY <3>1
  <2> SUFFICES ASSUME NEW a \in 1..n, NEW b \in 1..n, a # b PROVE queue[a] # queue[b]
    OBVIOUS
  <2>4. a < b \/ b < a
    BY <1>1
  <2> QED
    BY <2>3, <2>4
<1>3. f \in Bijection(1..n, W)
  BY <1>2 DEF Bijection, Injection, Surjection, IsInjective
<1>4. Cardinality(W) = n
  <2>1. IsFiniteSet(1..n) /\ Cardinality(1..n) = n
    BY <1>1, FS_Interval
  <2>2. ExistsBijection(1..n, W)
    BY <1>3 DEF ExistsBijection
  <2> QED
    BY <2>1, <2>2, FS_Bijection
<1>5. W \cap S = {} /\ W \cup S \in SUBSET Jobs
  BY <1>1
<1>6. W \cup S \subseteq Active(jobs) /\ Active(jobs) \in SUBSET Jobs
  BY <1>5 DEF IInv, TasksOwnTheirJobs, Active, InState
<1> HIDE DEF W
<1>7. /\ Cardinality(W \cup S) = Cardinality(W) + Cardinality(S) - Cardinality(W \cap S)
      /\ Cardinality(S) \in Nat
  BY <1>1, JobsAreFinite, FS_Union
<1>8. Cardinality(W \cap S) = 0
  BY <1>5, FS_EmptySet
<1>9. Cardinality(W \cup S) <= Cardinality(Active(jobs))
  BY <1>5, <1>6, FewerJobs
<1> QED
  BY <1>1, <1>4, <1>7, <1>8, <1>9

\* Whole batches, and what is left.
LEMMA Batched ==
    ASSUME NEW q \in Nat, q < Concurrency + QueueCapacity
    PROVE  /\ q \div Concurrency \in Nat
           /\ q < Concurrency * (q \div Concurrency + 1)
           /\ q \div Concurrency <= (Concurrency + QueueCapacity - 1) \div Concurrency
           /\ (Concurrency + QueueCapacity - 1) \div Concurrency \in Nat
<1> DEFINE c == Concurrency
           n == Concurrency + QueueCapacity - 1
           h == q \div c
           b == n \div c
<1>1. c \in Nat /\ c > 0 /\ n \in Nat /\ q <= n
  BY CapacityAssumption
<1> HIDE DEF c, n
<1>2. h \in Nat /\ c * h <= q /\ q < c * h + c
  BY <1>1
<1>3. b \in Nat /\ c * b <= n /\ n < c * b + c
  BY <1>1
<1> HIDE DEF h, b
<1>4. q < c * (h + 1)
  BY <1>1, <1>2
<1>5. ~(h > b)
  <2> SUFFICES ASSUME h > b PROVE FALSE
    OBVIOUS
  <2>1. PICK d \in Nat : h = b + 1 + d
    <3>1. h - b - 1 \in Nat /\ h = b + 1 + (h - b - 1)
      BY <1>2, <1>3
    <3> QED
      BY <3>1
  <2>2. c * h = c * b + c + c * d /\ c * d \in Nat
    BY <1>1, <1>3, <2>1
  <2> QED
    BY <1>1, <1>2, <1>3, <2>2
<1> QED
  BY <1>2, <1>3, <1>4, <1>5 DEF c, n, h, b

\* A job that is accepted is promised the batches of the jobs ahead of it, and the manager
\* never accepts more than Batches allow for.
LEMMA AcceptsOnTime ==
    ASSUME IInv, IInv', NEW k \in Nat, NEW slack \in Nat, OnTime(k, slack),
           slack >= ((Concurrency + QueueCapacity - 1) \div Concurrency + 1) * k,
           NEW key, NEW d, SubmitCreates(key, d)
    PROVE  OnTime(k, slack)'
<1> USE PartsOfInvariant
<1> DEFINE q == Cardinality(Active(Swept))
           n(promise) == WithEvent([NoJob EXCEPT !.state = "queued", !.digest = d, !.key = key,
                                        !.expires_at = promise], "queued")
<1>1. PICK j \in Jobs :
        /\ jobs[j].state = "absent"
        /\ jobs' = [Swept EXCEPT ![j] = n(ExpiresAt(q))]
        /\ task' = [task EXCEPT ![j].pc = "waiting"]
        /\ queue' = Append(queue, j)
        /\ UNCHANGED <<closed, now>> /\ ~closed /\ HasCapacity(Swept)
  BY DEF SubmitCreates
<1>2. n(ExpiresAt(q)).state = "queued" /\ n(ExpiresAt(q)).expires_at = ExpiresAt(q)
  BY DEF WithEvent, NoJob
<1> HIDE DEF n
<1>3. /\ Active(Swept) = Active(jobs)
      /\ \A i \in Jobs : Swept[i] = jobs[i] \/ /\ jobs[i].state \in {"succeeded", "failed", "expired"}
                                               /\ Swept[i].state \in {"expired", "trimmed"}
  BY SweptAges, AgedKeep
<1>4. q \in Nat /\ q < Concurrency + QueueCapacity /\ q = Cardinality(Active(jobs))
  <2>1. Active(jobs) \in SUBSET Jobs
    BY DEF Active, InState
  <2> QED
    BY <1>1, <1>3, <2>1, JobsAreFinite DEF HasCapacity
<1> HIDE DEF q
<1>5. /\ DOMAIN Swept = Jobs
      /\ jobs'[j] = n(ExpiresAt(q)) /\ \A i \in Jobs \ {j} : jobs'[i] = Swept[i]
  BY <1>1 DEF Swept
<1>6. /\ task'[j].pc = "waiting" /\ \A i \in Jobs \ {j} : task'[i] = task[i]
      /\ task \in [Jobs -> [pc: Steps, deadline: Nat]]
  BY <1>1
<1>7. \A i \in Jobs : jobs[i].state \in {"queued", "running"} =>
        /\ i # j /\ jobs'[i] = jobs[i]
        /\ EndBy(i, slack)' = EndBy(i, slack) /\ StartBy(i, k, slack)' = StartBy(i, k, slack)
  BY <1>1, <1>3, <1>5 DEF EndBy, StartBy
<1>8. \A t : HeldPast(k, t)' \subseteq HeldPast(k, t)
  BY <1>6 DEF HeldPast
<1>9. ASSUME NEW i \in 1..Len(queue), NEW s, InTime(k, i, s)
      PROVE  \E m \in Nat :
                /\ now <= s - m * (Timeout + k)
                /\ i + Cardinality(HeldPast(k, s - m * (Timeout + k))') <= Concurrency * (m + 1)
  <2>1. PICK m \in Nat :
          /\ now <= s - m * (Timeout + k)
          /\ i + Cardinality(HeldPast(k, s - m * (Timeout + k))) <= Concurrency * (m + 1)
    BY <1>9 DEF InTime
  <2> DEFINE t == s - m * (Timeout + k)
             late == Cardinality(HeldPast(k, t))
             later == Cardinality(HeldPast(k, t)')
             room == Concurrency * (m + 1)
  <2>2. late \in Nat /\ later \in Nat /\ later <= late
    <3>1. HeldPast(k, t) \in SUBSET Jobs /\ HeldPast(k, t)' \in SUBSET HeldPast(k, t)
      BY <1>8, HeldIsFinite
    <3> QED
      BY <3>1, JobsAreFinite, FewerJobs
  <2>3. i + late <= room /\ room \in Nat /\ i \in Nat
    BY <2>1, CapacityAssumption
  <2>4. i + later <= room
    <3> HIDE DEF late, later, room
    <3> QED
      BY <2>2, <2>3
  <2> QED
    BY <2>1, <2>4
<1>10. /\ queue' \in Seq(Jobs) /\ Len(queue') = Len(queue) + 1 /\ Len(queue) \in Nat
       /\ queue'[Len(queue) + 1] = j /\ \A i \in 1..Len(queue) : queue'[i] = queue[i]
  BY <1>1
<1>11. ASSUME NEW i \in 1..Len(queue)
       PROVE  (task[queue[i]].pc = "waiting" /\ InTime(k, i, StartBy(queue[i], k, slack)))'
  <2>1. PICK b \in Jobs : b = queue[i] /\ b = queue'[i]
    BY <1>10
  <2>2. task[b].pc = "waiting" /\ InTime(k, i, StartBy(b, k, slack))
    BY <1>1, <2>1 DEF OnTime
  <2>3. jobs[b].state = "queued"
    BY <2>2 DEF IInv, TasksOwnTheirJobs
  <2>4. task'[b].pc = "waiting" /\ StartBy(b, k, slack)' = StartBy(b, k, slack)
    BY <1>6, <1>7, <2>2, <2>3
  <2>5. PICK s : s = StartBy(b, k, slack) /\ s = StartBy(b, k, slack)'
    BY <2>4
  <2>6. InTime(k, i, s)'
    BY <1>1, <1>9, <2>2, <2>5 DEF InTime
  <2> QED
    BY <2>1, <2>4, <2>5, <2>6
<1>12. ASSUME NEW i \in Jobs PROVE JobOnTime(i, k, slack)'
  <2>1. CASE i = j
    BY <1>2, <1>5, <1>6, <2>1 DEF JobOnTime, Ended
  <2>2. CASE i # j
    <3>1. JobOnTime(i, k, slack) /\ task'[i] = task[i]
      BY <1>1, <1>6, <2>2 DEF OnTime
    <3>2. jobs'[i] = jobs[i] \/ jobs'[i].state \in {"expired", "trimmed"}
      BY <1>3, <1>5, <2>2
    <3>3. task[i].pc \in {"executing", "completing", "failing"} => jobs'[i] = jobs[i]
      BY <1>7 DEF IInv, TasksOwnTheirJobs
    <3> QED
      BY <1>1, <3>1, <3>2, <3>3 DEF JobOnTime, Ended, EndBy
  <2> QED
    BY <2>1, <2>2
<1>13. PICK s : s = StartBy(j, k, slack)'
  OBVIOUS
<1>h. PICK h \in Nat : h = q \div Concurrency
  BY <1>4, Batched
<1>l. PICK l \in Nat : l = Len(queue)
  BY <1>10
<1>14. h \in Nat /\ q < Concurrency * (h + 1) /\ now <= s - h * (Timeout + k) /\ s \in Int
  <2> DEFINE b == (Concurrency + QueueCapacity - 1) \div Concurrency
  <2>1. h \in Nat /\ q < Concurrency * (h + 1) /\ h <= b /\ b \in Nat
    BY <1>4, <1>h, Batched
  <2>2. s = now + (h + 1) * Timeout + Retention + slack - Retention - Timeout - k
    <3>1. s = jobs'[j].expires_at + slack - Retention - Timeout - k
      <4>1. jobs'[j].expires_at \in Nat
        BY <1>2, <1>4, <1>5, ExpiresAtIsNat
      <4>2. StartBy(j, k, slack)' = jobs'[j].expires_at + slack - Retention - Timeout - k
        BY <4>1, TimesAssumption DEF StartBy, EndBy
      <4> QED
        BY <1>13, <4>2
    <3>2. jobs'[j].expires_at = now + (h + 1) * Timeout + Retention
      BY <1>2, <1>5, <1>h DEF ExpiresAt
    <3> QED
      BY <3>1, <3>2
  <2> HIDE DEF b
  <2>3. (h + 1) * Timeout = h * Timeout + Timeout /\ h * (Timeout + k) = h * Timeout + h * k
        /\ h * Timeout \in Nat /\ h * k \in Nat
    BY Turns, TimesAssumption
  <2>4. slack >= b * k + k /\ b * k \in Nat
    BY <2>1 DEF b
  <2>5. h * k <= b * k
    <3>1. PICK e \in Nat : b = h + e
      <4>1. b - h \in Nat /\ b = h + (b - h)
        BY <2>1
      <4> QED
        BY <4>1
    <3>2. b * k = h * k + e * k /\ e * k \in Nat
      BY <2>1, <3>1
    <3> QED
      BY <2>3, <3>2
  <2> DEFINE full == h * Timeout
             stops == h * k
             ahead == h * (Timeout + k)
             allowed == b * k
  <2>6. s = now + full + slack - k
    <3>1. s = now + (full + Timeout) + Retention + slack - Retention - Timeout - k /\ full \in Nat
      BY <2>2, <2>3
    <3> HIDE DEF full
    <3> QED
      BY <3>1, TimesAssumption
  <2>7. s - ahead >= now
    <3>1. /\ full \in Nat /\ stops \in Nat /\ allowed \in Nat
          /\ ahead = full + stops /\ stops <= allowed /\ slack >= allowed + k
      BY <2>3, <2>4, <2>5
    <3> HIDE DEF full, stops, ahead, allowed
    <3> QED
      BY <2>6, <3>1
  <2>8. s \in Int
    BY <2>3, <2>6
  <2> QED
    BY <2>1, <2>3, <2>7, <2>8
<1>15. InTime(k, l + 1, s)'
  <2> DEFINE t == s - h * (Timeout + k)
             late == Cardinality(HeldPast(k, t))
             later == Cardinality(HeldPast(k, t)')
             room == Concurrency * (h + 1)
  <2>1. late \in Nat /\ later \in Nat /\ later <= late
    <3>1. HeldPast(k, t) \in SUBSET Jobs /\ HeldPast(k, t)' \in SUBSET HeldPast(k, t)
      BY <1>8, HeldIsFinite
    <3> QED
      BY <3>1, JobsAreFinite, FewerJobs
  <2>2. l + late <= q
    <3>1. \A i \in 1..Len(queue) : task[queue[i]].pc = "waiting"
      BY <1>1 DEF OnTime
    <3>2. HeldPast(k, t) \in SUBSET Jobs /\ \A i \in HeldPast(k, t) : task[i].pc = "executing"
      BY DEF HeldPast
    <3> QED
      BY <1>1, <1>4, <1>l, <3>1, <3>2, ActiveCounted
  <2>3. q < room /\ room \in Nat
    BY <1>4, <1>14, CapacityAssumption
  <2>4. l + 1 + later <= room
    <3> HIDE DEF late, later, room
    <3> QED
      BY <1>4, <2>1, <2>2, <2>3
  <2>5. now' <= s - h * (Timeout + k)
    BY <1>1, <1>14
  <2> QED
    BY <2>4, <2>5 DEF InTime
<1>16. ASSUME NEW i \in 1..Len(queue')
       PROVE  (task[queue[i]].pc = "waiting" /\ InTime(k, i, StartBy(queue[i], k, slack)))'
  <2>1. i \in 1..Len(queue) \/ i = l + 1
    BY <1>10, <1>l
  <2>2. CASE i = l + 1
    <3>1. queue'[i] = j /\ task'[j].pc = "waiting"
      BY <1>6, <1>10, <1>l, <2>2
    <3> QED
      BY <1>13, <1>15, <2>2, <3>1
  <2> QED
    BY <1>11, <2>1, <2>2
<1> QED
  BY <1>12, <1>16 DEF OnTime

LEMMA TurnsOnTime ==
    ASSUME IInv, IInv', NEW k \in Nat, NEW slack \in Nat, OnTime(k, slack),
           slack >= ((Concurrency + QueueCapacity - 1) \div Concurrency + 1) * k,
           NEW i \in Jobs, Turn(i) \/ Returns(i)
    PROVE  OnTime(k, slack)'
<1>1. CASE SubmitAnswered
  BY <1>1, SweptAges, SweepsOnTime DEF SubmitAnswered
<1>2. CASE ExpiresOnLook(i)
  <2>1. {i} \in SUBSET Jobs
    OBVIOUS
  <2> QED
    BY <1>2, <2>1, ExpireAges, SweepsOnTime DEF ExpiresOnLook
<1>3. CASE Close
  BY <1>3 DEF Close, OnTime
<1>4. ASSUME NEW key, NEW d, SubmitCreates(key, d) PROVE OnTime(k, slack)'
  BY <1>4, AcceptsOnTime
<1> QED
  BY <1>1, <1>2, <1>3, <1>4, StartsOnTime, OutcomesOnTime DEF Turn

\* What OnTime says of a promise that allows for slack.
LEMMA OnTimeKeepsPromise ==
    ASSUME IInv, NEW k \in Nat, NEW slack \in Nat, OnTime(k, slack), ~closed, NEW j \in Jobs,
           jobs[j].state \in {"queued", "running", "succeeded", "failed"}
    PROVE  /\ Ended(j) => jobs[j].terminal_at + Retention <= jobs[j].expires_at + slack
           /\ now >= jobs[j].expires_at + slack => Ended(j)
<1> USE PartsOfInvariant
<1>1. /\ JobOnTime(j, k, slack)
      /\ jobs[j].expires_at \in Nat /\ jobs[j].terminal_at \in Nat /\ task[j].deadline \in Nat
      /\ now \in Nat /\ EndBy(j, slack) = jobs[j].expires_at + slack - Retention
      /\ EndBy(j, slack) \in Int /\ StartBy(j, k, slack) = EndBy(j, slack) - Timeout - k
  BY TimesAreNumbers, TimesAssumption DEF OnTime, EndBy, StartBy
<1>p. jobs[j].expires_at + slack = EndBy(j, slack) + Retention
  BY <1>1, TimesAssumption
<1>2. Ended(j) => jobs[j].terminal_at + Retention <= jobs[j].expires_at + slack
  <2>1. Ended(j) => jobs[j].terminal_at <= EndBy(j, slack)
    BY <1>1 DEF JobOnTime
  <2> DEFINE e == EndBy(j, slack)
             t == jobs[j].terminal_at
  <2>2. e \in Int /\ t \in Nat
    BY <1>1
  <2> HIDE DEF e, t
  <2>3. t <= e => t + Retention <= e + Retention
    BY <2>2, TimesAssumption
  <2> QED
    BY <1>p, <2>1, <2>3 DEF e, t
<1>3. ASSUME ~Ended(j) PROVE now <= EndBy(j, slack)
  <2>1. CASE jobs[j].state = "running"
    BY <1>1, <2>1, TimesAssumption DEF JobOnTime
  <2>2. CASE jobs[j].state = "queued"
    <3>1. PICK i \in 1..Len(queue) : queue[i] = j
      BY <2>2 DEF IInv, QueueInv
    <3>2. InTime(k, i, StartBy(j, k, slack))
      BY <3>1 DEF OnTime
    <3>3. PICK m \in Nat : now <= StartBy(j, k, slack) - m * (Timeout + k)
      BY <3>2 DEF InTime
    <3>4. m * (Timeout + k) \in Nat
      BY Turns
    <3> DEFINE passed == m * (Timeout + k)
    <3> HIDE DEF passed
    <3>5. now <= EndBy(j, slack) - Timeout - k - passed /\ passed \in Nat
      BY <1>1, <3>3, <3>4 DEF passed
    <3> QED
      BY <1>1, <3>5, TimesAssumption
  <2> QED
    BY <1>3, <2>1, <2>2 DEF Ended
<1>4. now >= jobs[j].expires_at + slack => Ended(j)
  <2> DEFINE e == EndBy(j, slack)
  <2>1. e \in Int /\ now \in Nat
    BY <1>1
  <2> HIDE DEF e
  <2>2. ~(now <= e /\ now >= e + Retention)
    BY <2>1, TimesAssumption
  <2> QED
    BY <1>p, <1>3, <2>2 DEF e
<1> QED
  BY <1>2, <1>4

\* expires_at, promised when a job is accepted, holds for every capacity, timeout and
\* retention: by then, whatever was ahead of it in the queue, the job is over and its
\* outcome was there for the retention.
THEOREM PromisesKept == Spec => []PromiseIsKept
<1>1. Init => OnTime(0, 0)
  <2> SUFFICES ASSUME Init PROVE OnTime(0, 0)
    OBVIOUS
  <2>1. queue = <<>> /\ \A j \in Jobs : jobs[j] = NoJob /\ task[j].pc = "none"
    BY DEF Init
  <2>2. \A j \in Jobs : JobOnTime(j, 0, 0)
    BY <2>1 DEF JobOnTime, Ended, NoJob
  <2>3. 1..Len(queue) = {}
    BY <2>1
  <2> QED
    BY <2>2, <2>3 DEF OnTime
<1>2. IInv /\ IInv' /\ OnTime(0, 0) /\ [Next]_vars => OnTime(0, 0)'
  <2> SUFFICES ASSUME IInv, IInv', OnTime(0, 0), [Next]_vars PROVE OnTime(0, 0)'
    OBVIOUS
  <2>1. 0 >= ((Concurrency + QueueCapacity - 1) \div Concurrency + 1) * 0
    <3>1. (Concurrency + QueueCapacity - 1) \div Concurrency + 1 \in Nat
      BY CapacityAssumption
    <3> QED
      BY <3>1
  <2>2. CASE Tick
    <3>1. UNCHANGED <<jobs, task, queue, closed>> /\ now' = now + 1 /\ Idle
      BY <2>2 DEF Tick
    <3>2. \A j \in Jobs : task[j].deadline \in Nat /\ task[j].deadline + 0 = task[j].deadline
      BY TimesAreNumbers
    <3> QED
      BY <3>1, <3>2, ClockOnTime DEF Idle
  <2>3. ASSUME NEW r \in Readers,
               (\E j \in Jobs : OpenEvents(r, j)) \/ Deliver(r) \/ Disconnect(r)
        PROVE  OnTime(0, 0)'
    <3>1. UNCHANGED <<jobs, task, queue, closed, now>>
      BY <2>3 DEF OpenEvents, Deliver, Disconnect
    <3> QED
      BY <3>1 DEF OnTime, JobOnTime, InTime, HeldPast, EndBy, StartBy, Ended
  <2>4. ASSUME NEW r \in Readers, Finish(r) PROVE OnTime(0, 0)'
    <3>1. /\ jobs' = Expire({reader[r].job}) /\ UNCHANGED <<task, queue, closed, now>>
          /\ reader[r].job \in Jobs
      BY <2>4, PartsOfInvariant DEF Finish, ReaderOk
    <3>2. {reader[r].job} \in SUBSET Jobs
      BY <3>1
    <3> QED
      BY <3>1, <3>2, ExpireAges, SweepsOnTime
  <2>5. CASE UNCHANGED vars
    BY <2>5 DEF vars, OnTime, JobOnTime, InTime, HeldPast, EndBy, StartBy, Ended
  <2>6. CASE SubmitAnswered \/ Close \/ \E key \in Keys \cup {None}, d \in Digests : SubmitCreates(key, d)
    <3>1. CASE SubmitAnswered
      BY <3>1, SweptAges, SweepsOnTime DEF SubmitAnswered
    <3>2. CASE Close
      BY <3>2 DEF Close, OnTime
    <3> QED
      BY <2>1, <2>6, <3>1, <3>2, AcceptsOnTime
  <2>7. ASSUME NEW j \in Jobs,
               ExpiresOnLook(j) \/ TaskStep(j) \/ Progress(j) \/ Returns(j) \/ Breaks(j)
        PROVE  OnTime(0, 0)'
    BY <2>1, <2>7, TurnsOnTime DEF TaskStep, TimesOut, Turn
  <2> QED
    BY <2>2, <2>3, <2>4, <2>5, <2>6, <2>7 DEF Next
<1>3. IInv /\ OnTime(0, 0) => PromiseIsKept
  <2> SUFFICES ASSUME IInv, OnTime(0, 0), NEW j \in Jobs, ~closed,
                      jobs[j].state \in {"queued", "running", "succeeded", "failed"}
               PROVE  /\ Ended(j) => jobs[j].terminal_at + Retention <= jobs[j].expires_at
                      /\ now >= jobs[j].expires_at => Ended(j)
    BY DEF PromiseIsKept
  <2>1. jobs[j].expires_at + 0 = jobs[j].expires_at
    BY TimesAreNumbers
  <2> QED
    BY <2>1, OnTimeKeepsPromise
<1> QED
  BY <1>1, <1>2, <1>3, Invariance, PTL DEF Spec
=============================================================================
