------------------------------ MODULE Cylinder ------------------------------
(* The cylinder acceptance: the command of infra/solve.py that maps four solves over the
   cluster, what their case records (CaseRecord) let happen, and the report it derives from
   the committed runs (solver/cylinder_acceptance.py).

   Each solve is an operation of its own, named for its role, and presents one attempt token
   that is the same whenever the command is run.  A run is named for its case and its
   fields; the fields stand for every number derived from them. *)
EXTENDS Integers, FiniteSets

CONSTANTS
    Grids,            \* the other two grids, "coarse" and "fine", or one of them
    Outcomes,         \* the fields a solve may produce
    InRange,          \* those whose coefficients are inside the reference ranges
    Healthy,          \* those whose lift is periodic and whose mass is kept
    MaxInvocations,   \* bound: times the command is run
    MaxTroubles,      \* bound: solves that fail, containers that die, leases that run out
    NoRun

ASSUME CylinderAssumption ==
    InRange \subseteq Outcomes /\ Healthy \subseteq Outcomes /\ MaxInvocations \in Nat

VARIABLES
    ledger,     \* the committed case record of each operation
    container,  \* the container of each invocation and role
    acceptance, \* the command: where it stands and how often it was run
    files,      \* the two files it writes
    executed,   \* history: the fields each operation's solves have produced
    spent,      \* history: operations that lost their only token
    troubles

cylinderVars == <<ledger, container, acceptance, files, executed, spent, troubles>>

AcceptanceRoles == {"canonical", "repeat"} \cup Grids
Invocations == 1 .. MaxInvocations

\* Mutant: the operation digest covers the case and not the role.
OperationOfCase(role) == IF role = "repeat" THEN "canonical" ELSE role

\* The digest a role's case record is filed under: role and case, source, lock and device.
Operation(role) == role

\* The canonical repeat is the canonical case.
CaseOf(role) == IF role = "repeat" THEN "canonical" ELSE role

\* What a worker answers with: the run that is named for its case and its fields.
RunOf(role, fields) == [case |-> CaseOf(role), fields |-> fields]
Runs == [case : {"canonical"} \cup Grids, fields : Outcomes]

-----------------------------------------------------------------------------
(* The report.                                                             *)

\* The evidence of a run recomputes its gates from the numbers of the run: the lift of a
\* grid is periodic and its mass kept, and the canonical one is inside the reference too.
SensitivityHealth(run) == run.fields \in Healthy
ReferencePassed(run) == run.fields \in InRange /\ SensitivityHealth(run)

\* Two operations, and not one record read twice.
Independent(first, second) == Operation(first) # Operation(second)

\* CylinderAcceptanceReport.create: the canonical run inside the reference, three healthy
\* grids, and a repeat with the artifact and the fields of the primary.
Report(run) ==
    LET sensitivity == \A role \in {"canonical"} \cup Grids : SensitivityHealth(run[role])
        determinism == Independent("canonical", "repeat") /\ run["canonical"] = run["repeat"]
    IN [runs |-> run, sensitivity |-> sensitivity, determinism |-> determinism,
        passed |-> ReferencePassed(run["canonical"]) /\ sensitivity /\ determinism]

\* The validator of the report, which recomputes all of it from the runs it holds.
ReportIsCoherent(r) ==
    /\ r.runs["canonical"].case = r.runs["repeat"].case
    /\ r.determinism => r.runs["canonical"] = r.runs["repeat"]
    /\ r = Report(r.runs)

-----------------------------------------------------------------------------
Unreported == [json |-> NoRun, markdown |-> NoRun]
FreshRecord == [state |-> "absent", run |-> NoRun]
NoWorker == [stage |-> "none", run |-> NoRun]

CylinderInit ==
    /\ ledger = [o \in AcceptanceRoles |-> FreshRecord]
    /\ container = [n \in Invocations |-> [role \in AcceptanceRoles |-> NoWorker]]
    /\ acceptance = [pc |-> "idle", n |-> 0]
    /\ files = Unreported
    /\ executed = [o \in AcceptanceRoles |-> {}]
    /\ spent = {}
    /\ troubles = 0

SetWorker(n, role, stage, run) ==
    container' = [container EXCEPT ![n][role] = [stage |-> stage, run |-> run]]

\* The command maps its four requests over the cluster.
Invoke ==
    /\ acceptance.pc = "idle" /\ acceptance.n < MaxInvocations
    /\ acceptance' = [pc |-> "mapping", n |-> acceptance.n + 1]
    /\ container' = [container EXCEPT ![acceptance.n + 1] =
                     [role \in AcceptanceRoles |-> [stage |-> "queued", run |-> NoRun]]]
    /\ UNCHANGED <<ledger, files, executed, spent, troubles>>

\* Mutant: a token is taken again after its attempt has failed.
GrantedAgain(o) == ledger[o].state \in {"absent", "running", "pending"}

\* A case nobody has claimed, or one that runs under the same token.
Granted(o) == ledger[o].state \in {"absent", "running"}

\* A container claims its case.  A record that runs under the same token is claimed again,
\* whoever runs it; a record that succeeded answers with its run; and a token that was used
\* up, or lost its lease, is refused for good.
ClaimRole(n, role) ==
    LET o == Operation(role) IN
    /\ container[n][role].stage = "queued"
    /\ \/ /\ Granted(o)
          /\ ledger' = [ledger EXCEPT ![o].state = "running"]
          /\ SetWorker(n, role, "solving", NoRun)
          /\ UNCHANGED spent
       \/ /\ ledger[o].state = "succeeded"
          /\ SetWorker(n, role, "answered", ledger[o].run)
          /\ UNCHANGED <<ledger, spent>>
       \/ /\ ledger[o].state \in {"expired", "pending", "failed"}
          /\ ledger' = [ledger EXCEPT ![o].state = IF @ = "expired" THEN "pending" ELSE @]
          /\ SetWorker(n, role, "raised", NoRun)
          /\ spent' = spent \cup {o}
    /\ UNCHANGED <<acceptance, files, executed, troubles>>

\* The solve completes and its run is published and committed.
SolveRole(n, role) ==
    /\ container[n][role].stage = "solving"
    /\ \E fields \in Outcomes :
          /\ SetWorker(n, role, "published", RunOf(role, fields))
          /\ executed' = [executed EXCEPT ![Operation(role)] = @ \cup {fields}]
    /\ UNCHANGED <<ledger, acceptance, files, spent, troubles>>

\* Success is recorded while the lease is live, once more for the same run, and never for
\* another: then, and when the lease is over, the worker raises.
SucceedRole(n, role) ==
    LET o == Operation(role)
        run == container[n][role].run
        Kept == ledger[o].state = "running" \/ (ledger[o].state = "succeeded" /\ ledger[o].run = run)
    IN
    /\ container[n][role].stage = "published"
    /\ IF Kept
       THEN /\ ledger' = [ledger EXCEPT ![o] = [state |-> "succeeded", run |-> run]]
            /\ SetWorker(n, role, "answered", run)
       ELSE /\ SetWorker(n, role, "raised", NoRun) /\ UNCHANGED ledger
    /\ UNCHANGED <<acceptance, files, executed, spent, troubles>>

\* A solve fails: an error of a class that is retried leaves the case pending, and any other
\* one failed, when the lease is still that of the attempt.
FailRole(n, role) ==
    LET o == Operation(role) IN
    /\ container[n][role].stage = "solving" /\ troubles < MaxTroubles
    /\ \E next \in {"pending", "failed"} :
          IF ledger[o].state = "running"
          THEN /\ ledger' = [ledger EXCEPT ![o].state = next]
               /\ spent' = spent \cup {o}
          ELSE UNCHANGED <<ledger, spent>>
    /\ SetWorker(n, role, "raised", NoRun)
    /\ troubles' = troubles + 1
    /\ UNCHANGED <<acceptance, files, executed>>

\* A container is lost, and the provider starts no other: the map raises for it.
LoseRole(n, role) ==
    /\ container[n][role].stage \in {"queued", "solving", "published"}
    /\ troubles < MaxTroubles /\ troubles' = troubles + 1
    /\ SetWorker(n, role, "raised", NoRun)
    /\ UNCHANGED <<ledger, acceptance, files, executed, spent>>

\* Nobody renews the lease of a solve: it runs out under it, or under nobody.
LeaseRunsOut(o) ==
    /\ ledger[o].state = "running"
    /\ troubles < MaxTroubles /\ troubles' = troubles + 1
    /\ ledger' = [ledger EXCEPT ![o].state = "expired"]
    /\ spent' = spent \cup {o}
    /\ UNCHANGED <<container, acceptance, files, executed>>

\* The first exception of the map ends the command; the other containers go on.
Abort ==
    /\ acceptance.pc = "mapping"
    /\ \E role \in AcceptanceRoles : container[acceptance.n][role].stage = "raised"
    /\ acceptance' = [acceptance EXCEPT !.pc = "idle"]
    /\ UNCHANGED <<ledger, container, files, executed, spent, troubles>>

\* With four answers in the order of the requests, the report is written as JSON, and then
\* as Markdown; the command may be stopped in between.
Derived == Report([role \in AcceptanceRoles |-> container[acceptance.n][role].run])

WriteJson ==
    /\ acceptance.pc = "mapping"
    /\ \A role \in AcceptanceRoles : container[acceptance.n][role].stage = "answered"
    /\ files' = [files EXCEPT !.json = Derived]
    /\ acceptance' = [acceptance EXCEPT !.pc = "rendering"]
    /\ UNCHANGED <<ledger, container, executed, spent, troubles>>

WriteMarkdown ==
    /\ acceptance.pc = "rendering"
    /\ \/ files' = [files EXCEPT !.markdown = files.json]
       \/ UNCHANGED files
    /\ acceptance' = [acceptance EXCEPT !.pc = "idle"]
    /\ UNCHANGED <<ledger, container, executed, spent, troubles>>

CylinderNext ==
    \/ Invoke \/ Abort \/ WriteJson \/ WriteMarkdown
    \/ \E n \in Invocations, role \in AcceptanceRoles :
          ClaimRole(n, role) \/ SolveRole(n, role) \/ SucceedRole(n, role)
          \/ FailRole(n, role) \/ LoseRole(n, role)
    \/ \E o \in AcceptanceRoles : LeaseRunsOut(o)

-----------------------------------------------------------------------------
(* Properties.                                                             *)

CylinderTypeOK ==
    /\ \A o \in AcceptanceRoles :
          /\ ledger[o].state \in {"absent", "running", "succeeded", "expired", "pending", "failed"}
          /\ ledger[o].run \in Runs \cup {NoRun}
    /\ \A n \in Invocations, role \in AcceptanceRoles :
          container[n][role].stage \in
             {"none", "queued", "solving", "published", "answered", "raised"}
    /\ acceptance.n \in 0 .. MaxInvocations

\* A green report was not read off one record twice: two operations were each solved, and
\* the fields they are reported with are among those each has produced; the report is green
\* exactly when these are equal, in range, and healthy on three grids.
AcceptanceIsEarned ==
    files.json # NoRun =>
        LET r == files.json
            Fields(role) == r.runs[role].fields
        IN /\ \A role \in AcceptanceRoles : Fields(role) \in executed[role]
           /\ ReportIsCoherent(r)
           /\ r.passed <=> /\ Fields("canonical") = Fields("repeat")
                           /\ Fields("canonical") \in InRange
                           /\ \A role \in AcceptanceRoles : Fields(role) \in Healthy

\* A report that was once written is the one every later invocation derives, and the
\* rendered file never shows another one.
AcceptanceIsStable ==
    /\ files.markdown # NoRun => files.markdown = files.json
    /\ (files.json # NoRun /\ \A role \in AcceptanceRoles : ledger[Operation(role)].state = "succeeded") =>
          files.json.runs = [role \in AcceptanceRoles |-> ledger[Operation(role)].run]

\* The only token of an operation that failed, or outlived its lease, is never taken again:
\* such an operation has no run, and no invocation of this source ends in a report.
SpentStaysSpent ==
    /\ \A o \in spent : ledger[o].state # "succeeded" /\ ledger[o].run = NoRun
    /\ files.json # NoRun => spent = {}
=============================================================================
