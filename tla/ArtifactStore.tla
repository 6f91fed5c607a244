---------------------------- MODULE ArtifactStore ----------------------------
(***************************************************************************)
(* The three content-addressed stores on one filesystem: solver runs       *)
(* (soufflerie/datagen/run_artifact.py), the dataset manifest built from   *)
(* them (datagen/manifest.py) and the model bundles trained on a dataset   *)
(* (surrogate/bundle.py).                                                  *)
(*                                                                         *)
(* A publisher stages the members in a private directory, reads them back, *)
(* writes the COMMITTED marker, and renames the directory to its name; who *)
(* loses the rename opens what is there and returns a reference to that.   *)
(* A publisher may raise or die between any two steps, the host may lose   *)
(* what was never forced to the disk, and a staged member may come out     *)
(* wrong.                                                                  *)
(*                                                                         *)
(* Two results of one case share a digest but not their timestamps, so     *)
(* their metadata may differ in size: what a name is bound to is the size. *)
(***************************************************************************)
EXTENDS Naturals, Sequences, FiniteSets, SequencesExt

CONSTANTS
    Cases,          \* the cases of the design; a case has one run digest
    Sizes,          \* bytes a run may come to
    Publishers,     \* processes that publish
    MaxFaults,      \* bound on wrong members and on host failures, each
    MaxCalls,       \* bound on the publications begun
    None

ASSUME SizesAssumption == Sizes \subseteq Nat /\ None \notin Sizes \cup {1}

\* The members in the order they are written; the first two words name the store.
RunMembers == <<"fields.npz", "metadata.json">>
DatasetMembers == <<"manifest.parquet", "metadata.json", "statistics.json">>
ModelMembers == <<"metadata.json", "weights.safetensors", "sidecars">>
Marker == "COMMITTED"

\* The identity of a run leaves its timestamps and its cost out ...
RunName(c) == [kind |-> "run", of |-> {c}]
\* ... that of a dataset takes in the size of every run it lists ...
DatasetName(rows) == [kind |-> "dataset", of |-> rows]
\* ... and that of a model the digest of its dataset.
ModelName(d) == [kind |-> "model", of |-> {d}]

Rows == Cases \X Sizes
\* One run for every case: what the manifest accepts as its rows.
IsDesign(rows) == /\ Cardinality(rows) = Cardinality(Cases)
                  /\ {row[1] : row \in rows} = Cases
Datasets == {DatasetName(rows) : rows \in {r \in SUBSET Rows : IsDesign(r)}}
Names == {RunName(c) : c \in Cases} \cup Datasets \cup {ModelName(d) : d \in Datasets}

MembersOf(n) == CASE n.kind = "run" -> RunMembers
                  [] n.kind = "dataset" -> DatasetMembers
                  [] OTHER -> ModelMembers
FilesOf(n) == Range(MembersOf(n)) \cup {Marker}

\* A file is missing, wrong, in the page cache only, or on the disk.
FileStates == {"missing", "wrong", "cached", "stored"}
Readable == {"cached", "stored"}
Absent == [size |-> 0, files |-> <<>>, forced |-> FALSE]

VARIABLES
    disk,       \* disk[n]: the directory bound to name n, or Absent
    linked,     \* names whose directory entry was forced to the disk
    work,       \* work[p]: what publisher p is doing and its staging directory
    refs,       \* references returned: the name, its size, and whether its entry was forced first
    lost,       \* observer: names a host failure took after they were visible
    faults      \* observer: wrong members, host failures and publications begun

vars == <<disk, linked, work, refs, lost, faults>>

Idle == [step |-> "idle", name |-> None, dir |-> Absent]
Bound(n) == disk[n] # Absent
BoundNames == {n \in Names : Bound(n)}
Size(n) == disk[n].size

-----------------------------------------------------------------------------
\* Reading a directory: the marker, the metadata it names, the members that names.
Whole(dir, files) == \A f \in files : dir.files[f] \in Readable
OpensRun(n, size) == Bound(n) /\ Whole(disk[n], FilesOf(n)) /\ Size(n) = size
\* The manifest and its statistics must also agree with the metadata.
OpensDataset(n, size) == Bound(n) /\ Whole(disk[n], FilesOf(n)) /\ Size(n) = size
\* A bundle holds these files and no others.
OpensModel(n, size) ==
    /\ Bound(n)
    /\ DOMAIN disk[n].files = FilesOf(n)
    /\ Whole(disk[n], FilesOf(n))
    /\ Size(n) = size
Opens(n, size) == CASE n.kind = "run" -> OpensRun(n, size)
                    [] n.kind = "dataset" -> OpensDataset(n, size)
                    [] OTHER -> OpensModel(n, size)

Init ==
    /\ disk = [n \in Names |-> Absent]
    /\ linked = {}
    /\ work = [p \in Publishers |-> Idle]
    /\ refs = {}
    /\ lost = {}
    /\ faults = [wrong |-> 0, host |-> 0, calls |-> 0]

\* Mutant: it answers for its own bytes.
JoinedOwn(n) == [name |-> n, size |-> CHOOSE s \in Sizes : s # Size(n), forced |-> FALSE]

\* A publisher that finds the name bound opens it and answers for what is there.
Joined(n) == [name |-> n, size |-> Size(n), forced |-> FALSE]

Begin(p, n, size) ==
    /\ work[p].step = "idle"
    /\ faults.calls < MaxCalls
    /\ faults' = [faults EXCEPT !.calls = @ + 1]
    /\ IF Bound(n)
       THEN /\ Opens(n, Size(n))
            /\ refs' = refs \cup {Joined(n)}
            /\ UNCHANGED work
       ELSE /\ work' = [work EXCEPT ![p] =
                 [step |-> "staging", name |-> n,
                  dir |-> [size |-> size, files |-> [f \in FilesOf(n) |-> "missing"],
                           forced |-> FALSE]]]
            /\ UNCHANGED refs
    /\ UNCHANGED <<disk, linked, lost>>

\* A solver worker publishes the result of a case.
PublishRun(p) == \E c \in Cases, size \in Sizes : Begin(p, RunName(c), size)

\* The sweep builds the manifest: it opens one reference for every case.
PublishDataset(p) ==
    \E rows \in SUBSET Rows :
        /\ IsDesign(rows)
        /\ \A row \in rows : /\ \E r \in refs : r.name = RunName(row[1]) /\ r.size = row[2]
                             /\ OpensRun(RunName(row[1]), row[2])
        /\ Begin(p, DatasetName(rows), 1)

\* Training exports the selected weights for a dataset it opened.
PublishModel(p) ==
    \E r \in refs : /\ r.name.kind = "dataset"
                    /\ OpensDataset(r.name, r.size)
                    /\ Begin(p, ModelName(r.name), 1)

-----------------------------------------------------------------------------
Missing(p) == {f \in Range(MembersOf(work[p].name)) : work[p].dir.files[f] = "missing"}

\* The first of the members that are missing.
NextMember(p, f) ==
    LET members == MembersOf(work[p].name) IN
    \E i \in DOMAIN members :
        /\ members[i] = f
        /\ \A k \in 1 .. i - 1 : members[k] \notin Missing(p)

\* Mutant: the member is not forced to the disk.
WrittenOnly == "cached"

\* What a member is after write_bytes and fsync_file.
Written == "stored"

\* The next member is written and forced; a wrong byte goes unnoticed here.
WriteMember(p) ==
    /\ work[p].step = "staging"
    /\ \E f \in Missing(p) :
        /\ NextMember(p, f)
        /\ \/ /\ work' = [work EXCEPT ![p].dir.files[f] = Written]
              /\ UNCHANGED faults
           \/ /\ faults.wrong < MaxFaults
              /\ work' = [work EXCEPT ![p].dir.files[f] = "wrong"]
              /\ faults' = [faults EXCEPT !.wrong = @ + 1]
    /\ UNCHANGED <<disk, linked, refs, lost>>

\* The staged members are read back under their own digests.
VerifiesRun(dir) == Whole(dir, Range(RunMembers))
VerifiesDataset(dir) == Whole(dir, Range(DatasetMembers))
VerifiesModel(dir) == Whole(dir, Range(ModelMembers))
\* Mutant: nothing is read back.
VerifiesAnything(n, dir) == TRUE

Verifies(n, dir) == CASE n.kind = "run" -> VerifiesRun(dir)
                      [] n.kind = "dataset" -> VerifiesDataset(dir)
                      [] OTHER -> VerifiesModel(dir)

Verify(p) ==
    /\ work[p].step = "staging"
    /\ Missing(p) = {}
    /\ Verifies(work[p].name, work[p].dir)
    /\ work' = [work EXCEPT ![p].step = "verified"]
    /\ UNCHANGED <<disk, linked, refs, lost, faults>>

\* Mutant: the entries of the staging directory are not forced.
WithMarkerOnly(dir) == [dir EXCEPT !.files[Marker] = "stored"]

\* The marker is written and forced, then the entries of the staging directory.
WithMarker(dir) == [dir EXCEPT !.files[Marker] = "stored", !.forced = TRUE]

Commit(p) ==
    /\ work[p].step = "verified"
    /\ work' = [work EXCEPT ![p].step = "committed", ![p].dir = WithMarker(@)]
    /\ UNCHANGED <<disk, linked, refs, lost, faults>>

\* Mutant: the rename replaces the directory it finds.
NeverTaken(n) == FALSE

\* rename(2) refuses to replace a directory that is not empty.
Taken(n) == Bound(n)

\* The rename binds the name, or finds it taken and the publisher joins it.
Rename(p) ==
    LET n == work[p].name IN
    /\ work[p].step = "committed"
    /\ \/ /\ Taken(n)
          /\ Opens(n, Size(n))
          /\ UNCHANGED disk
       \/ /\ ~Taken(n)
          /\ disk' = [disk EXCEPT ![n] = work[p].dir]
    /\ work' = [work EXCEPT ![p].step = "renamed", ![p].dir = Absent]
    /\ UNCHANGED <<linked, refs, lost, faults>>

\* Winner and loser force the parent directory, and return.
Return(p) ==
    LET n == work[p].name IN
    /\ work[p].step = "renamed"
    /\ linked' = linked \cup {n}
    /\ refs' = refs \cup {[Joined(n) EXCEPT !.forced = TRUE]}
    /\ work' = [work EXCEPT ![p] = Idle]
    /\ UNCHANGED <<disk, lost, faults>>

\* The publisher raises or dies; nobody reads its staging directory again.
Stop(p) ==
    /\ work[p].step # "idle"
    /\ work' = [work EXCEPT ![p] = Idle]
    /\ UNCHANGED <<disk, linked, refs, lost, faults>>

\* The worst a failure of the host does to a directory it leaves in place.
Worn(dir) == [dir EXCEPT !.files = [f \in DOMAIN dir.files |->
    IF ~dir.forced THEN "missing" ELSE IF dir.files[f] = "cached" THEN "wrong" ELSE dir.files[f]]]

\* The host fails: every publisher is gone, and so may be what was never forced.
HostFails ==
    /\ faults.host < MaxFaults
    /\ \E gone \in SUBSET (BoundNames \ linked), worn \in SUBSET BoundNames :
        /\ disk' = [n \in Names |-> IF n \in gone THEN Absent
                                   ELSE IF n \in worn THEN Worn(disk[n]) ELSE disk[n]]
        /\ linked' = BoundNames \ gone
        /\ lost' = lost \cup gone
    /\ faults' = [faults EXCEPT !.host = @ + 1]
    /\ work' = [p \in Publishers |-> Idle]
    /\ UNCHANGED refs

Step(p) == \/ PublishRun(p) \/ PublishDataset(p) \/ PublishModel(p)
           \/ WriteMember(p) \/ Verify(p) \/ Commit(p) \/ Rename(p) \/ Return(p)
           \/ Stop(p)

Next == HostFails \/ \E p \in Publishers : Step(p)

Spec == Init /\ [][Next]_vars

-----------------------------------------------------------------------------
TypeOK ==
    /\ \A n \in Names : Bound(n) =>
        /\ disk[n].size \in Sizes \cup {1}
        /\ disk[n].files \in [FilesOf(n) -> FileStates]
    /\ linked \subseteq BoundNames
    /\ \A p \in Publishers :
        /\ work[p].step \in {"idle", "staging", "verified", "committed", "renamed"}
        /\ work[p].step # "idle" => work[p].name \in Names
    /\ refs \subseteq [name: Names, size: Sizes \cup {1}, forced: BOOLEAN]

(* Whatever stops a publisher or the host, a directory that has a name can *)
(* be opened: the rename comes after the members, their read-back and the  *)
(* marker, and everything in the directory was forced before it.           *)
CommittedIsWhole == \A n \in BoundNames : Opens(n, Size(n))

(* A reference that publish_run or publish returned opens, with the size   *)
(* it names, however many publishers raced for the name; the one exception *)
(* is a name whose entry the publisher who found it there never forced,    *)
(* and which the host then lost.                                           *)
ReferencesOpen == \A r \in refs : Opens(r.name, r.size) \/ (~r.forced /\ r.name \in lost)

(* The rows of a dataset are the runs the store holds: no dataset lists a  *)
(* run that is gone or of another size, unless a host failure took it.     *)
RowsResolve ==
    \A n \in BoundNames : n.kind = "dataset" =>
        \A row \in n.of : OpensRun(RunName(row[1]), row[2]) \/ RunName(row[1]) \in lost

(* The protocol of many steps binds a whole content in one.                *)
Store == INSTANCE ImmutableStore WITH
    Contents <- Sizes \cup {1}, Unbound <- None, durable <- linked,
    content <- [n \in Names |-> IF Bound(n) THEN Size(n) ELSE None]
ImplementsStore == Store!Spec
=============================================================================
