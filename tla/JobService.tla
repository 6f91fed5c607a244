----------------------------- MODULE JobService -----------------------------
(***************************************************************************)
(* What the solve job manager promises of the life of its jobs             *)
(* (docs/api.md, "Solve jobs and replay"; service/jobs.py): each job goes  *)
(* one way through its states, jobs start in the order in which they were  *)
(* accepted, at most Capacity of them are on, and a job is forgotten only  *)
(* when its outcome is older than the retention.                           *)
(***************************************************************************)
EXTENDS Integers, FiniteSets

CONSTANTS MaxJobs, Capacity

VARIABLES
    life,   \* the state of every job, by its number in the order of acceptance
    kept    \* the jobs whose outcome must still be there

Jobs == 1..MaxJobs

Active(l) == {j \in Jobs : l[j] \in {"queued", "running"}}
Ended == {"succeeded", "failed"}

Init == life = [j \in Jobs |-> "absent"] /\ kept = {}

Accepts(j) ==
    /\ life[j] = "absent" /\ life'[j] = "queued"
    /\ \A i \in 1..(j - 1) : life[i] # "absent"

Starts(j) ==
    /\ life[j] = "queued" /\ life'[j] = "running"
    /\ \A i \in 1..(j - 1) : life[i] # "queued"

Ends(j) ==
    /\ life[j] = "running" /\ life'[j] \in Ended

\* A submission may expire a record and drop it at once.
Forgets(j) ==
    /\ j \notin kept
    /\ \/ life[j] \in Ended /\ life'[j] \in {"expired", "trimmed"}
       \/ life[j] = "expired" /\ life'[j] = "trimmed"

Next ==
    /\ \A j \in Jobs : life'[j] = life[j] \/ Accepts(j) \/ Starts(j) \/ Ends(j) \/ Forgets(j)
    /\ Cardinality({j \in Jobs : Accepts(j) \/ Starts(j) \/ Ends(j)}) <= 1
    /\ Cardinality(Active(life')) <= Capacity

Spec == Init /\ [][Next]_life
=============================================================================
