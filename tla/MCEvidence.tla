----------------------------- MODULE MCEvidence -----------------------------
(* A small instance of each module behind the evidence of an experiment: the artifact
   stores, the validation run that turns them into a report, the acceptance of the solver,
   and the structured events of an operation, side by side.  A behaviour picks one of them and is a behaviour of its
   specification; the others keep one of their initial states.  The checks of artifacts
   that keep no state are subjects of their own: one input is picked, and that is all. *)
EXTENDS ArtifactStore, Validation, Observability, Cylinder, Lineage, Readers, Requests, TLC

VARIABLES which, input

\* Every gate with a threshold between the measurements below, and above, it.
Gated == {"field_error", "cd_head_error", "head_field_consistency", "divergence",
          "obstacle_compliance", "ood_variance_increase", "sensitivity_sign"}
ThresholdValues ==
    [gate \in Gated |->
        CASE gate = "divergence" -> 6 [] gate = "ood_variance_increase" -> 3 [] OTHER -> 2]

\* A report that passes every gate, any one of its summaries replaced, and the ties and the
\* zero of the out-of-distribution ratio.
Passing ==
    [s \in Summaries |->
        IF s \in {"velocity", "cd", "divergence", "obstacle", "solver_divergence", "id_boundary"}
        THEN 1 ELSE 2]
MeasurementValues ==
    {Passing}
    \cup {[Passing EXCEPT ![s] = v] : s \in Summaries, v \in {1, 2, 3, Invalid}}
    \cup {[Passing EXCEPT !["ood"] = v, !["id_boundary"] = 2] : v \in 2 .. 3}
    \cup {[Passing EXCEPT !["id_boundary"] = 0]}

\* An exception adds its summary; the outcome itself is counted with the durations.
OutcomeSizes == [succeeded |-> 0, failed |-> 1]

-----------------------------------------------------------------------------
(* The inputs of the checks.                                               *)

\* Three artifacts of one type that may depend on itself, each with at most two roles;
\* with two identifiers that collide, or with three that do not.
OpenPolicy == [t |-> [required |-> {}, allowed |-> {"t"}]]
Roles == {"first", "second"}
Graphs ==
    UNION {{[i \in 1 .. 3 |->
                [type |-> "t", sha256 |-> digests[i],
                 parents |-> {[role |-> r, type |-> "t", sha256 |-> digests[parent[i][r]]] :
                              r \in {q \in Roles : parent[i][q] # 0}}] ] :
            parent \in [1 .. 3 -> [Roles -> 0 .. 3]]} :
        digests \in {<<30, 20, 10>>, <<20, 11, 10>>}}

\* A run, two datasets, two models and a report, with any parents the policy allows.
Kinds == <<"run", "dataset", "dataset", "model", "model", "report">>
Evidence(parentsOf) ==
    [i \in 1 .. 6 |->
        [type |-> Kinds[i], sha256 |-> 10 * i,
         parents |-> {[role |-> d, type |-> Kinds[d], sha256 |-> 10 * d] : d \in parentsOf[i]}]]
Bindings ==
    {<<{}, a, {1}, b, {2, 3}, c>> :
        a \in SUBSET {1}, b \in SUBSET {2, 3}, c \in SUBSET (2 .. 5)}
    \X {20, 30} \X {40, 50}

Envelopes ==
    [type : {"run"}, metadata : {{}, {"case"}, {"uri"}}, members : {{}, {1}, {2}},
     uri : 0 .. 1, created : {0}, sha256 : {0},
     provenance : [parents : [{"dataset"} -> 1 .. 2], started : 0 .. 1, completed : {1}]]

Files == UNION {[1 .. n -> 1 .. 2] : n \in 0 .. 3}
Looks == {<<sized, read, limit, IF known THEN {sized} ELSE {}>> :
             sized, read \in Files, limit \in 1 .. 3, known \in BOOLEAN}
Documents == {[above |-> a, object |-> o] :
                 a \in {f \in [1 .. 5 -> 0 .. 4] : f[1] = 0 /\ \A n \in 2 .. 5 : f[n] \in 1 .. n - 1},
                 o \in [1 .. 5 -> BOOLEAN]}
SweepRequests ==
    {q \in [design : {"smoke", "canonical"}, samples : {8, 1000}, config : 1 .. 2,
            device : {"L40S", "A10G"}, source : 1 .. 2, lock : 1 .. 2, forced : BOOLEAN,
            digest : {0}] :
        (q.samples = 8) = (q.design = "smoke") /\ (q.forced => q.design = "smoke")}
Papers ==
    {[value |-> v, form |-> f, size |-> v + (IF f = "canonical" THEN 0 ELSE 1)] :
        v \in 1 .. 3, f \in {"canonical", "spaced"}}
Held == {<<>>} \cup UNION {[{d} -> Papers] : d \in Papers}
Names3 == {1, 2, 3}
TensorFiles ==
    {[bytes |-> 10 + data, header |-> 2,
      entries |-> [n \in Names3 |->
          [start |-> start[n], bytes |-> length[n],
           end |-> start[n] + length[n] + (IF n = 1 THEN slack ELSE 0)]]] :
        data \in 3 .. 6, start \in [Names3 -> 0 .. 3], length \in [Names3 -> 1 .. 2],
        slack \in 0 .. 1}
TensorLimits == [header |-> 3, member |-> 2, count |-> 3, total |-> 5]
Member ==
    [name : 1 .. 2, plain : BOOLEAN, size : {3, 5}, packed : 1 .. 2, items : 1 .. 2, header : {1},
     hasObjects : {FALSE}, fortran : {FALSE}]
Described == [1 .. 2 -> {[items |-> n, order |-> "C"] : n \in 1 .. 2}]
ArchiveLimits == [members |-> 2, member |-> 5, ratio |-> 3, total |-> 8]

-----------------------------------------------------------------------------
checked == <<vars, validationVars, eventVars, cylinderVars>>
mcVars == <<which, input, checked>>

MCInit ==
    /\ which \in {"store", "report", "log", "cylinder", "graph", "binding", "envelope", "bytes", "json",
                  "tensors", "archive", "request", "document"}
    /\ input = None
    /\ Init /\ ValidationInit /\ EventInit /\ CylinderInit
    /\ which # "report" => digest = [f \in Compare |-> 1]

Pick(name, inputs) ==
    /\ which = name /\ input = None
    /\ input' \in inputs
    /\ UNCHANGED <<which, checked>>

PickGraph == Pick("graph", Graphs)
PickBinding == Pick("binding", Bindings)
PickEnvelope == Pick("envelope", Envelopes \X Envelopes)
PickBytes == Pick("bytes", Looks)
PickJson == Pick("json", Documents \X (2 .. 4) \X (1 .. 2))
PickTensors == Pick("tensors", TensorFiles)
PickArchive == Pick("archive", [1 .. 2 -> Member] \X Described)
PickRequest == Pick("request", SweepRequests \X SweepRequests \X (1 .. 2))
PickDocument == Pick("document", Papers \X Papers \X Held)

MCNext ==
    \/ /\ UNCHANGED <<which, input>>
       /\ \/ which = "store" /\ Next /\ UNCHANGED <<validationVars, eventVars, cylinderVars>>
          \/ which = "report" /\ ValidationNext /\ UNCHANGED <<vars, eventVars, cylinderVars>>
          \/ which = "log" /\ EventNext /\ UNCHANGED <<vars, validationVars, cylinderVars>>
          \/ which = "cylinder" /\ CylinderNext /\ UNCHANGED <<vars, validationVars, eventVars>>
    \/ PickGraph \/ PickBinding \/ PickEnvelope
    \/ PickBytes \/ PickJson \/ PickTensors \/ PickArchive \/ PickRequest \/ PickDocument

MCSpec == MCInit /\ [][MCNext]_mcVars

\* Publishers and operations are alike, and have the same names.
Symmetry == Permutations(Operations)

-----------------------------------------------------------------------------
\* The state of each module keeps its type.
TypesOK ==
    /\ which = "store" => TypeOK
    /\ which = "report" => ValidationTypeOK
    /\ which = "log" => ObservabilityTypeOK
    /\ which = "cylinder" => CylinderTypeOK

Picked(name) == which = name /\ input # None

\* Stores: a directory that has a name is whole, and what a publisher was told, and what a
\* manifest lists, can be opened.  Lineage: a graph is accepted exactly when it is acyclic,
\* a consumer rests on runs, and an identity stands for content alone.  Readers: what is
\* returned is whole, bounded and, byte for byte, what the caller described.  Requests: a
\* digest stands for the cases and the code, and a document for one request.
ArtifactsHold ==
    /\ which = "store" => CommittedIsWhole /\ ReferencesOpen /\ RowsResolve
    /\ Picked("graph") => LineageIsOrdered(input, OpenPolicy)
    /\ Picked("binding") => EvidenceReachesRuns(Evidence(input[1]), input[2], input[3], 60)
    /\ Picked("envelope") =>
          IdentityIsLogical(input[1], input[2], [dataset |-> "dataset"], {"uri"})
    /\ Picked("bytes") => ReadIsWhole(input[1], input[2], input[3], input[4])
    /\ Picked("json") => WalkIsExact(input[1], input[2], input[3])
    /\ Picked("tensors") => TensorsTile(input, Names3, TensorLimits)
    /\ Picked("archive") => ArchiveIsDescribed(input[1], input[2], 2, ArchiveLimits)
    /\ Picked("request") => IdentitiesSeparate(input[1], input[2], 1, input[3])
    /\ Picked("document") => DocumentsAreKept(input[1], input[2], input[3], 2)

\* Validation: a green report is earned, a receipt is backed by a whole report whose parents
\* are those of the request, and the manifest is the last file to appear.  Acceptance: a
\* green report rests on two solves that agree, and an operation that lost its only token
\* leaves none.
ReportsAreEarned ==
    /\ which = "report" => GreenIsEarned /\ ReceiptsAreBacked /\ ManifestComesLast
    /\ which = "cylinder" => AcceptanceIsEarned /\ AcceptanceIsStable /\ SpentStaysSpent

\* Events: an operation that returns or raises an Exception ends in one terminal event that
\* says what happened, one that is cancelled or interrupted in none; an error of the body is
\* masked only for a reason, and the time is accounted for.
EventsAreHonest == which = "log" => EventsTellTheTruth /\ MaskingHasACause /\ SegmentsFit
=============================================================================
