------------------------- MODULE EvidenceProofs ------------------------------
(***************************************************************************)
(* Proofs about the evidence of an experiment, for every value of the      *)
(* constants: the artifact stores, whose directories are followed from     *)
(* staging to their names; the structured events of an operation; the      *)
(* acceptance of the solver; the validation and its gates; all of them     *)
(* side by side, as the run checks them; and the checks of artifacts that  *)
(* keep no state, for every input: identities, requests and documents,     *)
(* archives, lineage, tensors and the walk over a document.                *)
(***************************************************************************)
EXTENDS MCEvidence, FiniteSetTheorems, FunctionTheorems, NaturalsInduction,
        WellFoundedInduction, TLAPS

Published == Sizes \cup {1}

\* A directory whose members and marker are on the disk, as its entries are.
OnDisk(dir, n) ==
    /\ dir.size \in Published
    /\ dir = [size |-> dir.size, files |-> [f \in FilesOf(n) |-> "stored"], forced |-> TRUE]

\* The staging directory of a publisher at a step of its work on the name n.
Staged(w, n) ==
    /\ w.dir.size \in Published
    /\ w.dir.files \in [FilesOf(n) -> {"missing", "wrong", "stored"}]
    /\ w.step = "verified" => \A f \in Range(MembersOf(n)) : w.dir.files[f] = "stored"
    /\ w.step = "committed" => OnDisk(w.dir, n)

\* The runs that a dataset lists are there, or a failure of the host took them.
Resolved(n) ==
    n.kind = "dataset" =>
        \A row \in n.of :
            \/ Bound(RunName(row[1])) /\ Size(RunName(row[1])) = row[2]
            \/ RunName(row[1]) \in lost

DiskInv == \A n \in Names : Bound(n) => OnDisk(disk[n], n) /\ Resolved(n)

\* A publisher between two publications, at work in its staging directory, or
\* about to return the name that is bound.
WorkOk(p) ==
    \/ work[p] = Idle
    \/ /\ work[p] \in [step : {"staging", "verified", "committed"}, name : Names,
                       dir : [size : Published, forced : BOOLEAN,
                              files : UNION {[FilesOf(n) -> FileStates] : n \in Names}]]
       /\ Staged(work[p], work[p].name)
       /\ Resolved(work[p].name)
    \/ /\ work[p] = [step |-> "renamed", name |-> work[p].name, dir |-> Absent]
       /\ work[p].name \in Names
       /\ Bound(work[p].name)

WorkInv == DOMAIN work = Publishers /\ \A p \in Publishers : WorkOk(p)

\* A reference names what is bound, or what was lost before its entry was forced.
RefOk(r) ==
    /\ \/ Bound(r.name) /\ Size(r.name) = r.size
       \/ ~r.forced /\ r.name \in lost
    /\ r.forced => r.name \in linked

RefsInv ==
    /\ refs \subseteq [name : Names, size : Published, forced : BOOLEAN]
    /\ \A r \in refs : RefOk(r)

StoreInv ==
    /\ DOMAIN disk = Names
    /\ linked \subseteq BoundNames
    /\ lost \subseteq Names
    /\ faults \in [wrong : Nat, host : Nat, calls : Nat]
    /\ DiskInv /\ WorkInv /\ RefsInv

-----------------------------------------------------------------------------
(* Names and their files.                                                  *)

LEMMA RunIsName == \A c \in Cases : RunName(c) \in Names
  BY DEF Names

LEMMA RowsOfDataset ==
    ASSUME NEW n \in Names, n.kind = "dataset"
    PROVE  n.of \subseteq Rows
  BY DEF Names, Datasets, DatasetName, RunName, ModelName

\* The marker is the one file that is no member.
LEMMA FilesAreMembers ==
    ASSUME NEW n
    PROVE  /\ Marker \notin Range(MembersOf(n))
           /\ FilesOf(n) = Range(MembersOf(n)) \cup {Marker}
  BY DEF FilesOf, MembersOf, Marker, Range, RunMembers, DatasetMembers, ModelMembers

\* A settled directory opens.
LEMMA SettledOpens ==
    ASSUME NEW n \in Names, Bound(n), OnDisk(disk[n], n)
    PROVE  Opens(n, Size(n))
<1>1. /\ DOMAIN disk[n].files = FilesOf(n)
      /\ \A f \in FilesOf(n) : disk[n].files[f] \in Readable
  BY DEF OnDisk, Readable
<1> QED
  BY <1>1 DEF Opens, OpensRun, OpensDataset, OpensModel, Whole, Size

-----------------------------------------------------------------------------
(* What every step keeps.                                                  *)

\* Bound directories stay as they are unless a failure of the host takes them.
Kept ==
    /\ \A m \in Names : Bound(m) => (Bound(m)' /\ disk'[m] = disk[m]) \/ m \in lost'
    /\ lost \subseteq lost'

LEMMA ResolvedKept ==
    ASSUME Kept, NEW n \in Names, Resolved(n)
    PROVE  Resolved(n)'
<1> SUFFICES ASSUME n.kind = "dataset", NEW row \in n.of,
                    Bound(RunName(row[1])) /\ Size(RunName(row[1])) = row[2]
             PROVE  \/ Bound(RunName(row[1]))' /\ Size(RunName(row[1]))' = row[2]
                    \/ RunName(row[1]) \in lost'
  BY DEF Resolved, Kept, RunName
<1>1. RunName(row[1]) \in Names
  BY RowsOfDataset, RunIsName DEF Rows
<1> QED
  BY <1>1 DEF Kept, Size

LEMMA SameKept == UNCHANGED <<disk, lost>> => Kept
  BY DEF Kept, Bound

\* The entry of a publisher that a step leaves alone, as it does the disk.
LEMMA WorkKept ==
    ASSUME StoreInv, UNCHANGED <<disk, lost>>, NEW q \in Publishers, work'[q] = work[q]
    PROVE  WorkOk(q)'
<1>1. \A n \in Names : Resolved(n) => Resolved(n)'
  BY SameKept, ResolvedKept
<1>2. WorkOk(q)
  BY DEF StoreInv, WorkInv
<1>3. CASE work[q] = Idle
  BY <1>3 DEF WorkOk
<1>4. CASE /\ work[q] \in [step : {"staging", "verified", "committed"}, name : Names,
                       dir : [size : Published, forced : BOOLEAN,
                              files : UNION {[FilesOf(n) -> FileStates] : n \in Names}]]
           /\ Staged(work[q], work[q].name)
           /\ Resolved(work[q].name)
  <2>1. work[q].name \in Names
    BY <1>4
  <2>2. Resolved(work[q].name)'
    BY <1>1, <1>4, <2>1 DEF Resolved
  <2>3. Staged(work[q], work[q].name)'
    BY <1>4 DEF Staged, OnDisk
  <2> QED
    BY <1>4, <2>2, <2>3 DEF WorkOk
<1>5. CASE /\ work[q] = [step |-> "renamed", name |-> work[q].name, dir |-> Absent]
           /\ work[q].name \in Names
           /\ Bound(work[q].name)
  BY <1>5 DEF WorkOk, Bound
<1> QED
  BY <1>2, <1>3, <1>4, <1>5 DEF WorkOk

\* A step that only begins or goes on with the work of one publisher.
LEMMA WorkStep ==
    ASSUME StoreInv, UNCHANGED <<disk, linked, lost>>, refs' = refs,
           faults' \in [wrong : Nat, host : Nat, calls : Nat], WorkInv'
    PROVE  StoreInv'
<1>1. \A n \in Names : Resolved(n) => Resolved(n)'
  BY SameKept, ResolvedKept
<1>2. DiskInv'
  BY <1>1 DEF StoreInv, DiskInv, Bound
<1>3. RefsInv'
  BY DEF StoreInv, RefsInv, RefOk, Bound, Size
<1> QED
  BY <1>2, <1>3 DEF StoreInv, BoundNames, Bound

-----------------------------------------------------------------------------
LEMMA InitStoreInv == Init => StoreInv
  BY DEF Init, StoreInv, DiskInv, WorkInv, WorkOk, RefsInv, Bound, BoundNames


\* A step that changes the work of one publisher only.
LEMMA OneWorkStep ==
    ASSUME StoreInv, UNCHANGED <<disk, linked, lost, refs>>,
           faults' \in [wrong : Nat, host : Nat, calls : Nat],
           NEW p \in Publishers, NEW w, work' = [work EXCEPT ![p] = w], WorkOk(p)'
    PROVE  StoreInv'
<1>1. \A q \in Publishers \ {p} : work'[q] = work[q]
  BY DEF StoreInv, WorkInv
<1>2. \A q \in Publishers : WorkOk(q)'
  BY <1>1, WorkKept
<1>3. WorkInv'
  BY <1>2 DEF StoreInv, WorkInv
<1> QED
  BY <1>3, WorkStep

\* A staging directory and the step of its publisher.
LEMMA StagedOk ==
    ASSUME StoreInv, NEW p \in Publishers, NEW n \in Names, Resolved(n), UNCHANGED <<disk, lost>>,
           NEW step \in {"staging", "verified", "committed"}, NEW dir,
           dir \in [size : Published, forced : BOOLEAN, files : [FilesOf(n) -> FileStates]],
           Staged([step |-> step, name |-> n, dir |-> dir], n),
           work' = [work EXCEPT ![p] = [step |-> step, name |-> n, dir |-> dir]]
    PROVE  WorkOk(p)'
<1> DEFINE w == [step |-> step, name |-> n, dir |-> dir]
<1>1. work'[p] = w
  BY DEF StoreInv, WorkInv
<1>2. w \in [step : {"staging", "verified", "committed"}, name : Names,
              dir : [size : Published, forced : BOOLEAN,
                     files : UNION {[FilesOf(m) -> FileStates] : m \in Names}]]
  OBVIOUS
<1>3. Resolved(n)'
  BY SameKept, ResolvedKept
<1>4. w.name = n
  OBVIOUS
<1>5. Staged(w, n)'
  BY DEF Staged, OnDisk
<1> HIDE DEF w
<1> QED
  BY <1>1, <1>2, <1>3, <1>4, <1>5 DEF WorkOk, Resolved, Staged, OnDisk

LEMMA BeginInv ==
    ASSUME StoreInv, NEW p \in Publishers, NEW n \in Names, NEW size \in Published,
           Resolved(n), Begin(p, n, size)
    PROVE  StoreInv'
<1>0. /\ UNCHANGED <<disk, linked, lost>>
      /\ faults' \in [wrong : Nat, host : Nat, calls : Nat]
  BY DEF Begin, StoreInv
<1>1. CASE Bound(n)
  <2>1. work' = work /\ refs' = refs \cup {Joined(n)}
    BY <1>1 DEF Begin
  <2>2. \A q \in Publishers : WorkOk(q)'
    BY <1>0, <2>1, WorkKept
  <2>3. WorkInv'
    BY <2>1, <2>2 DEF StoreInv, WorkInv
  <2>4. DiskInv'
    BY <1>0, SameKept, ResolvedKept DEF StoreInv, DiskInv, Bound
  <2>5. Joined(n) \in [name : Names, size : Published, forced : BOOLEAN]
    BY <1>1 DEF StoreInv, DiskInv, OnDisk, Joined, Size
  <2>6. \A r \in refs' : RefOk(r)'
    BY <1>0, <1>1, <2>1 DEF StoreInv, RefsInv, RefOk, Joined, Bound, Size
  <2>7. RefsInv'
    BY <2>1, <2>5, <2>6 DEF StoreInv, RefsInv
  <2> QED
    BY <1>0, <2>3, <2>4, <2>7 DEF StoreInv, BoundNames, Bound
<1>2. CASE ~Bound(n)
  <2> DEFINE d == [size |-> size, files |-> [f \in FilesOf(n) |-> "missing"], forced |-> FALSE]
             w == [step |-> "staging", name |-> n, dir |-> d]
  <2>1. work' = [work EXCEPT ![p] = w] /\ refs' = refs
    BY <1>2 DEF Begin
  <2>2. d \in [size : Published, forced : BOOLEAN, files : [FilesOf(n) -> FileStates]]
    BY DEF FileStates
  <2>3. Staged(w, n)
    BY DEF Staged
  <2>4. WorkOk(p)'
    BY <1>0, <2>1, <2>2, <2>3, StagedOk
  <2> QED
    BY <1>0, <2>1, <2>4, OneWorkStep
<1> QED
  BY <1>1, <1>2

-----------------------------------------------------------------------------
(* Every action.                                                           *)

LEMMA PublishRunInv ==
    ASSUME StoreInv, NEW p \in Publishers, PublishRun(p)
    PROVE  StoreInv'
<1>1. PICK c \in Cases, size \in Sizes : Begin(p, RunName(c), size)
  BY DEF PublishRun
<1>2. Resolved(RunName(c))
  BY DEF Resolved, RunName
<1>3. size \in Published
  BY DEF Published
<1> QED
  BY <1>1, <1>2, <1>3, RunIsName, BeginInv

LEMMA PublishDatasetInv ==
    ASSUME StoreInv, NEW p \in Publishers, PublishDataset(p)
    PROVE  StoreInv'
<1>1. PICK rows \in SUBSET Rows :
        /\ IsDesign(rows)
        /\ \A row \in rows : OpensRun(RunName(row[1]), row[2])
        /\ Begin(p, DatasetName(rows), 1)
  BY DEF PublishDataset
<1>2. DatasetName(rows) \in Names
  BY <1>1 DEF Names, Datasets
<1>3. Resolved(DatasetName(rows))
  BY <1>1 DEF Resolved, DatasetName, OpensRun
<1>4. 1 \in Published
  BY DEF Published
<1> QED
  BY <1>1, <1>2, <1>3, <1>4, BeginInv

LEMMA PublishModelInv ==
    ASSUME StoreInv, NEW p \in Publishers, PublishModel(p)
    PROVE  StoreInv'
<1>1. PICK r \in refs : r.name.kind = "dataset" /\ Begin(p, ModelName(r.name), 1)
  BY DEF PublishModel
<1>2. r.name \in Datasets
  BY <1>1 DEF StoreInv, RefsInv, Names, RunName, ModelName
<1>3. ModelName(r.name) \in Names
  BY <1>2 DEF Names
<1>4. Resolved(ModelName(r.name))
  BY DEF Resolved, ModelName
<1>5. 1 \in Published
  BY DEF Published
<1> QED
  BY <1>1, <1>3, <1>4, <1>5, BeginInv

\* What a publisher that is at work has.
LEMMA AtWork ==
    ASSUME StoreInv, NEW p \in Publishers, work[p].step \in {"staging", "verified", "committed"}
    PROVE  /\ work[p].name \in Names
           /\ work[p].dir \in [size : Published, forced : BOOLEAN,
                               files : [FilesOf(work[p].name) -> FileStates]]
           /\ work[p] = [step |-> work[p].step, name |-> work[p].name, dir |-> work[p].dir]
           /\ Staged(work[p], work[p].name)
           /\ Resolved(work[p].name)
<1>1. WorkOk(p)
  BY DEF StoreInv, WorkInv
<1>2. work[p].step \notin {"idle", "renamed"}
  OBVIOUS
<1>3. /\ work[p] \in [step : {"staging", "verified", "committed"}, name : Names,
                       dir : [size : Published, forced : BOOLEAN,
                              files : UNION {[FilesOf(n) -> FileStates] : n \in Names}]]
      /\ Staged(work[p], work[p].name)
      /\ Resolved(work[p].name)
  BY <1>1, <1>2 DEF WorkOk, Idle
<1>4. work[p].dir.files \in [FilesOf(work[p].name) -> FileStates]
  BY <1>3 DEF Staged, FileStates
<1> QED
  BY <1>3, <1>4

LEMMA WriteMemberInv ==
    ASSUME StoreInv, NEW p \in Publishers, WriteMember(p)
    PROVE  StoreInv'
<1> DEFINE n == work[p].name
           d == work[p].dir
<1>1. PICK f \in Missing(p), state \in {Written, "wrong"} :
         /\ work' = [work EXCEPT ![p].dir.files[f] = state]
         /\ faults' \in {faults, [faults EXCEPT !.wrong = @ + 1]}
  BY DEF WriteMember
<1>2. /\ UNCHANGED <<disk, linked, lost, refs>>
      /\ faults' \in [wrong : Nat, host : Nat, calls : Nat]
      /\ work[p].step = "staging"
  BY <1>1 DEF WriteMember, StoreInv
<1>3. /\ n \in Names /\ Resolved(n) /\ Staged(work[p], n)
      /\ d \in [size : Published, forced : BOOLEAN, files : [FilesOf(n) -> FileStates]]
      /\ work[p] = [step |-> "staging", name |-> n, dir |-> d]
  BY <1>2, AtWork
<1> DEFINE e == [d EXCEPT !.files[f] = state]
           w == [step |-> "staging", name |-> n, dir |-> e]
<1>4. work' = [work EXCEPT ![p] = w]
  <2>1. [work[p] EXCEPT !.dir = e] = w
    BY <1>3
  <2> QED
    BY <1>1, <2>1
<1>5. state \in FileStates /\ state \in {"missing", "wrong", "stored"}
  BY DEF Written, FileStates
<1>6. e \in [size : Published, forced : BOOLEAN, files : [FilesOf(n) -> FileStates]]
  BY <1>3, <1>5
<1>7. Staged(w, n)
  BY <1>3, <1>5 DEF Staged
<1>8. WorkOk(p)'
  BY <1>2, <1>3, <1>4, <1>6, <1>7, StagedOk
<1> QED
  BY <1>2, <1>4, <1>8, OneWorkStep

LEMMA VerifyInv ==
    ASSUME StoreInv, NEW p \in Publishers, Verify(p)
    PROVE  StoreInv'
<1> DEFINE n == work[p].name
           d == work[p].dir
           w == [step |-> "verified", name |-> n, dir |-> d]
<1>1. /\ UNCHANGED <<disk, linked, lost, refs>>
      /\ faults' \in [wrong : Nat, host : Nat, calls : Nat]
      /\ work[p].step = "staging"
  BY DEF Verify, StoreInv
<1>2. /\ n \in Names /\ Resolved(n) /\ Staged(work[p], n)
      /\ d \in [size : Published, forced : BOOLEAN, files : [FilesOf(n) -> FileStates]]
      /\ work[p] = [step |-> "staging", name |-> n, dir |-> d]
  BY <1>1, AtWork
<1>3. work' = [work EXCEPT ![p] = w]
  <2>1. [work[p] EXCEPT !.step = "verified"] = w
    BY <1>2
  <2> QED
    BY <2>1 DEF Verify
<1>4. \A f \in Range(MembersOf(n)) : d.files[f] \in Readable
  BY DEF Verify, Verifies, VerifiesRun, VerifiesDataset, VerifiesModel, Whole, MembersOf
<1>5. \A f \in Range(MembersOf(n)) : d.files[f] = "stored"
  BY <1>2, <1>4, FilesAreMembers DEF Staged, Readable
<1>6. Staged(w, n)
  BY <1>2, <1>5 DEF Staged
<1>7. WorkOk(p)'
  BY <1>1, <1>2, <1>3, <1>6, StagedOk
<1> QED
  BY <1>1, <1>3, <1>7, OneWorkStep

LEMMA CommitInv ==
    ASSUME StoreInv, NEW p \in Publishers, Commit(p)
    PROVE  StoreInv'
<1> DEFINE n == work[p].name
           d == work[p].dir
           e == WithMarker(d)
           w == [step |-> "committed", name |-> n, dir |-> e]
<1>1. /\ UNCHANGED <<disk, linked, lost, refs>>
      /\ faults' \in [wrong : Nat, host : Nat, calls : Nat]
      /\ work[p].step = "verified"
  BY DEF Commit, StoreInv
<1>2. /\ n \in Names /\ Resolved(n) /\ Staged(work[p], n)
      /\ d \in [size : Published, forced : BOOLEAN, files : [FilesOf(n) -> FileStates]]
      /\ work[p] = [step |-> "verified", name |-> n, dir |-> d]
  BY <1>1, AtWork
<1>3. work' = [work EXCEPT ![p] = w]
  <2>1. [work[p] EXCEPT !.step = "committed", !.dir = e] = w
    <3>1. work[p] = [step |-> "verified", name |-> n, dir |-> d]
      BY <1>2
    <3> HIDE DEF n, d, e
    <3>2. [work[p] EXCEPT !.step = "committed"] = [step |-> "committed", name |-> n, dir |-> d]
      BY <3>1
    <3>3. [[step |-> "committed", name |-> n, dir |-> d] EXCEPT !.dir = e] = w
      OBVIOUS
    <3> QED
      BY <3>2, <3>3
  <2>2. \A q \in DOMAIN work : work'[q] = IF q = p THEN w ELSE work[q]
    BY <2>1 DEF Commit
  <2> QED
    BY <2>2 DEF Commit
<1>4. e.files = [f \in FilesOf(n) |-> "stored"]
  BY <1>1, <1>2, FilesAreMembers DEF WithMarker, Staged
<1>5. e \in [size : Published, forced : BOOLEAN, files : [FilesOf(n) -> FileStates]]
      /\ e.forced = TRUE
  BY <1>2 DEF WithMarker, FileStates
<1>6. Staged(w, n)
  BY <1>4, <1>5 DEF Staged, OnDisk
<1>7. WorkOk(p)'
  BY <1>1, <1>2, <1>3, <1>5, <1>6, StagedOk
<1> QED
  BY <1>1, <1>3, <1>7, OneWorkStep

LEMMA RenameInv ==
    ASSUME StoreInv, NEW p \in Publishers, Rename(p)
    PROVE  StoreInv'
<1> SUFFICES ASSUME NEW n, NEW d, n = work[p].name, d = work[p].dir
             PROVE  StoreInv'
  OBVIOUS
<1> DEFINE w == [step |-> "renamed", name |-> n, dir |-> Absent]
<1>1. UNCHANGED <<linked, refs, lost, faults>> /\ work[p].step = "committed"
  BY DEF Rename
<1>2. /\ n \in Names /\ Resolved(n) /\ OnDisk(d, n)
      /\ work[p] = [step |-> "committed", name |-> n, dir |-> d]
  BY <1>1, AtWork DEF Staged
<1>3. work' = [work EXCEPT ![p] = w]
  <2>1. [work[p] EXCEPT !.step = "renamed", !.dir = Absent] = w
    <3>1. work[p] = [step |-> "committed", name |-> n, dir |-> d]
      BY <1>2
    <3>2. [work[p] EXCEPT !.step = "renamed"] = [step |-> "renamed", name |-> n, dir |-> d]
      BY <3>1
    <3>3. [[step |-> "renamed", name |-> n, dir |-> d] EXCEPT !.dir = Absent] = w
      OBVIOUS
    <3> QED
      BY <3>2, <3>3
  <2>2. \A q \in DOMAIN work : work'[q] = IF q = p THEN w ELSE work[q]
    BY <2>1 DEF Rename
  <2> QED
    BY <2>2 DEF Rename
<1>4. CASE Bound(n) /\ disk' = disk
  <2>1. WorkOk(p)'
    BY <1>2, <1>3, <1>4 DEF WorkOk, StoreInv, WorkInv, Bound
  <2> QED
    BY <1>1, <1>3, <1>4, <2>1, OneWorkStep DEF StoreInv
<1>5. CASE ~Bound(n) /\ disk' = [disk EXCEPT ![n] = d]
  <2>1. /\ disk'[n] = d
        /\ \A m \in Names \ {n} : disk'[m] = disk[m]
        /\ DOMAIN disk' = Names
    BY <1>2, <1>5 DEF StoreInv
  <2>2. Bound(n)' /\ OnDisk(disk'[n], n)
    <3>1. d.forced = TRUE /\ Absent.forced = FALSE
      BY <1>2 DEF OnDisk, Absent
    <3> QED
      BY <1>2, <2>1, <3>1 DEF Bound
  <2>3. Kept
    BY <1>1, <1>5, <2>1 DEF Kept, Bound
  <2>4. \A m \in Names : Resolved(m) => Resolved(m)'
    BY <2>3, ResolvedKept
  <2>5. DiskInv'
    BY <1>2, <2>1, <2>2, <2>4 DEF StoreInv, DiskInv, Bound, OnDisk
  <2>6. \A q \in Publishers : WorkOk(q)'
    <3> SUFFICES ASSUME NEW q \in Publishers PROVE WorkOk(q)'
      OBVIOUS
    <3>1. CASE q = p
      BY <1>2, <1>3, <2>2, <3>1 DEF WorkOk, StoreInv, WorkInv
    <3>2. CASE q # p
      <4>1. work'[q] = work[q] /\ WorkOk(q)
        BY <1>3, <3>2 DEF StoreInv, WorkInv
      <4>2. \A m \in Names : Bound(m) => Bound(m)'
        BY <2>1, <1>5 DEF Bound
      <4>3. \A m \in Names : Staged(work[q], m) => Staged(work'[q], m)
        BY <4>1
      <4>4. \/ work[q] = Idle
            \/ /\ work[q] \in [step : {"staging", "verified", "committed"}, name : Names,
                               dir : [size : Published, forced : BOOLEAN,
                                      files : UNION {[FilesOf(m) -> FileStates] : m \in Names}]]
               /\ Staged(work[q], work[q].name)
               /\ Resolved(work[q].name)'
            \/ /\ work[q] = [step |-> "renamed", name |-> work[q].name, dir |-> Absent]
               /\ work[q].name \in Names
               /\ Bound(work[q].name)'
        BY <2>4, <4>1, <4>2 DEF WorkOk
      <4> QED
        BY <4>1, <4>4 DEF WorkOk, Staged, OnDisk, Resolved, Bound
    <3> QED
      BY <3>1, <3>2
  <2>7. WorkInv'
    BY <1>3, <2>6 DEF StoreInv, WorkInv
  <2>8. RefsInv'
    BY <1>1, <1>5, <2>1 DEF StoreInv, RefsInv, RefOk, Bound, Size
  <2> QED
    BY <1>1, <2>1, <2>2, <2>5, <2>7, <2>8 DEF StoreInv, BoundNames, Bound
<1> QED
  BY <1>4, <1>5 DEF Rename, Taken

LEMMA ReturnInv ==
    ASSUME StoreInv, NEW p \in Publishers, Return(p)
    PROVE  StoreInv'
<1> SUFFICES ASSUME NEW n, n = work[p].name, NEW r,
                    r = [name |-> n, size |-> Size(n), forced |-> TRUE]
             PROVE  StoreInv'
  OBVIOUS
<1>1. /\ UNCHANGED <<disk, lost, faults>> /\ work[p].step = "renamed"
      /\ linked' = linked \cup {n} /\ refs' = refs \cup {r}
      /\ work' = [work EXCEPT ![p] = Idle]
  BY DEF Return, Joined
<1>2. n \in Names /\ Bound(n)
  BY <1>1 DEF StoreInv, WorkInv, WorkOk, Idle
<1>3. r \in [name : Names, size : Published, forced : BOOLEAN]
  BY <1>2 DEF StoreInv, DiskInv, OnDisk, Size
<1>4. \A q \in Publishers : WorkOk(q)'
  <2>1. WorkOk(p)'
    BY <1>1 DEF WorkOk, StoreInv, WorkInv
  <2>2. \A q \in Publishers \ {p} : work'[q] = work[q]
    BY <1>1 DEF StoreInv, WorkInv
  <2> QED
    BY <1>1, <2>1, <2>2, WorkKept
<1>5. WorkInv'
  BY <1>1, <1>4 DEF StoreInv, WorkInv
<1>6. DiskInv'
  BY <1>1, SameKept, ResolvedKept DEF StoreInv, DiskInv, Bound
<1>7. RefsInv'
  <2>1. \A x \in refs' : RefOk(x)'
    <3>1. RefOk(r)'
      BY <1>1, <1>2 DEF RefOk, Bound, Size
    <3>2. \A x \in refs : RefOk(x)'
      BY <1>1 DEF StoreInv, RefsInv, RefOk, Bound, Size
    <3> QED
      BY <1>1, <3>1, <3>2
  <2> QED
    BY <1>1, <1>3, <2>1 DEF StoreInv, RefsInv
<1> QED
  BY <1>1, <1>2, <1>5, <1>6, <1>7 DEF StoreInv, BoundNames, Bound

LEMMA StopInv ==
    ASSUME StoreInv, NEW p \in Publishers, Stop(p)
    PROVE  StoreInv'
<1>1. /\ UNCHANGED <<disk, linked, lost, refs, faults>>
      /\ work' = [work EXCEPT ![p] = Idle]
  BY DEF Stop
<1>2. WorkOk(p)'
  BY <1>1 DEF WorkOk, StoreInv, WorkInv
<1> QED
  BY <1>1, <1>2, OneWorkStep DEF StoreInv

\* What is settled, a failure of the host cannot wear.
LEMMA SettledIsNotWorn ==
    ASSUME NEW n, NEW dir, OnDisk(dir, n)
    PROVE  Worn(dir) = dir
<1> DEFINE all == [f \in FilesOf(n) |-> "stored"]
<1>1. PICK size : dir = [size |-> size, files |-> all, forced |-> TRUE]
  BY DEF OnDisk
<1>2. [f \in DOMAIN dir.files |->
          IF ~dir.forced THEN "missing"
          ELSE IF dir.files[f] = "cached" THEN "wrong" ELSE dir.files[f]]
      = all
  BY <1>1
<1> HIDE DEF all
<1>3. dir \in [size : {size}, files : {all}, forced : {TRUE}]
  BY <1>1
<1>4. [dir EXCEPT !.files = all] \in [size : {size}, files : {all}, forced : {TRUE}]
  BY <1>3
<1>5. [dir EXCEPT !.files = all] = dir
  BY <1>3, <1>4
<1> QED
  BY <1>2, <1>5 DEF Worn

LEMMA HostFailsInv ==
    ASSUME StoreInv, HostFails
    PROVE  StoreInv'
<1>1. PICK gone \in SUBSET (BoundNames \ linked), worn \in SUBSET BoundNames :
         /\ disk' = [n \in Names |-> IF n \in gone THEN Absent
                                    ELSE IF n \in worn THEN Worn(disk[n]) ELSE disk[n]]
         /\ linked' = BoundNames \ gone
         /\ lost' = lost \cup gone
  BY DEF HostFails
<1>2. /\ UNCHANGED refs
      /\ work' = [p \in Publishers |-> Idle]
      /\ faults' \in [wrong : Nat, host : Nat, calls : Nat]
  BY DEF HostFails, StoreInv
<1>3. \A n \in Names : disk'[n] = IF n \in gone THEN Absent ELSE disk[n]
  BY <1>1, SettledIsNotWorn DEF StoreInv, DiskInv, BoundNames
<1>4. Kept
  BY <1>1, <1>3 DEF Kept, Bound
<1>5. \A n \in Names : Resolved(n) => Resolved(n)'
  BY <1>4, ResolvedKept
<1>6. DiskInv'
  BY <1>3, <1>5 DEF StoreInv, DiskInv, Bound
<1>7. WorkInv'
  BY <1>2 DEF WorkInv, WorkOk
<1>8. linked' = BoundNames' /\ linked \subseteq linked'
  BY <1>1, <1>3 DEF BoundNames, Bound, StoreInv
<1>9. RefsInv'
  <2>1. \A r \in refs : RefOk(r)'
    <3> SUFFICES ASSUME NEW r \in refs PROVE RefOk(r)'
      OBVIOUS
    <3>1. RefOk(r) /\ r.name \in Names
      BY DEF StoreInv, RefsInv
    <3>2. CASE Bound(r.name) /\ Size(r.name) = r.size /\ r.name \notin gone
      BY <1>3, <1>8, <3>1, <3>2 DEF RefOk, Bound, Size
    <3>3. CASE Bound(r.name) /\ Size(r.name) = r.size /\ r.name \in gone
      BY <1>1, <3>1, <3>3 DEF RefOk
    <3>4. CASE ~r.forced /\ r.name \in lost
      BY <1>1, <3>4 DEF RefOk
    <3> QED
      BY <3>1, <3>2, <3>3, <3>4 DEF RefOk
  <2> QED
    BY <1>2, <2>1 DEF StoreInv, RefsInv
<1> QED
  BY <1>1, <1>2, <1>6, <1>7, <1>8, <1>9 DEF StoreInv, BoundNames

\* The invariant is inductive.
LEMMA NextStoreInv == StoreInv /\ [Next]_vars => StoreInv'
<1> SUFFICES ASSUME StoreInv, [Next]_vars PROVE StoreInv'
  OBVIOUS
<1>1. CASE HostFails
  BY <1>1, HostFailsInv
<1>2. ASSUME NEW p \in Publishers, Step(p) PROVE StoreInv'
  BY <1>2, PublishRunInv, PublishDatasetInv, PublishModelInv, WriteMemberInv, VerifyInv,
     CommitInv, RenameInv, ReturnInv, StopInv DEF Step
<1>3. CASE UNCHANGED vars
  <2>1. UNCHANGED <<disk, linked, lost, refs, work, faults>>
    BY <1>3 DEF vars
  <2>2. WorkInv'
    BY <2>1, WorkKept DEF StoreInv, WorkInv
  <2> QED
    BY <2>1, <2>2, WorkStep DEF StoreInv
<1> QED
  BY <1>1, <1>2, <1>3 DEF Next

\* Every state of the specification satisfies the inductive invariant, on which the
\* theorems below rest.
THEOREM Invariance == Spec => []StoreInv
  BY InitStoreInv, NextStoreInv, PTL DEF Spec

-----------------------------------------------------------------------------
(* What the runs check.                                                    *)

LEMMA StoreTypes == StoreInv => TypeOK
<1> SUFFICES ASSUME StoreInv PROVE TypeOK
  OBVIOUS
<1>1. \A n \in Names : Bound(n) =>
          /\ disk[n].size \in Sizes \cup {1}
          /\ disk[n].files \in [FilesOf(n) -> FileStates]
  BY DEF StoreInv, DiskInv, OnDisk, Published, FileStates
<1>2. \A p \in Publishers :
          /\ work[p].step \in {"idle", "staging", "verified", "committed", "renamed"}
          /\ work[p].step # "idle" => work[p].name \in Names
  BY DEF StoreInv, WorkInv, WorkOk, Idle
<1> QED
  BY <1>1, <1>2 DEF TypeOK, StoreInv, RefsInv, Published

\* Type correctness of the stores: every directory that has a name holds the files of its
\* store, whatever the publishers and the host do.
THEOREM StoreTypeCorrect == Spec => []TypeOK
  BY StoreTypes, Invariance, PTL

LEMMA StoreIsWhole == StoreInv => CommittedIsWhole /\ ReferencesOpen /\ RowsResolve
<1>1. StoreInv => CommittedIsWhole
  BY SettledOpens DEF StoreInv, DiskInv, CommittedIsWhole, BoundNames
<1>2. StoreInv => ReferencesOpen
  BY SettledOpens DEF StoreInv, DiskInv, RefsInv, RefOk, ReferencesOpen
<1>3. StoreInv => RowsResolve
  <2> SUFFICES ASSUME StoreInv, NEW n \in Names, Bound(n), n.kind = "dataset", NEW row \in n.of,
                      RunName(row[1]) \notin lost
               PROVE  OpensRun(RunName(row[1]), row[2])
    BY DEF RowsResolve, BoundNames
  <2>1. RunName(row[1]) \in Names
    BY RowsOfDataset, RunIsName DEF Rows
  <2>2. Bound(RunName(row[1])) /\ Size(RunName(row[1])) = row[2]
    BY DEF StoreInv, DiskInv, Resolved
  <2>3. Opens(RunName(row[1]), row[2])
    BY <2>1, <2>2, SettledOpens DEF StoreInv, DiskInv
  <2> QED
    BY <2>3 DEF Opens, RunName
<1> QED
  BY <1>1, <1>2, <1>3

\* CommittedIsWhole: whatever stops a publisher or the host between two steps of a
\* publication (write, read back, marker, fsync, rename), a directory that has a name opens.
THEOREM WholeDirectories == Spec => []CommittedIsWhole
  BY StoreIsWhole, Invariance, PTL

\* ReferencesOpen: a reference that publish_run or publish returned opens with the size it
\* names, except one whose entry was never forced and which a failure of the host took.
THEOREM ReferencesResolve == Spec => []ReferencesOpen
  BY StoreIsWhole, Invariance, PTL

\* RowsResolve: the runs a dataset lists are in the store with the sizes it lists, unless a
\* failure of the host took them.
THEOREM DatasetsResolve == Spec => []RowsResolve
  BY StoreIsWhole, Invariance, PTL

-----------------------------------------------------------------------------
(* The protocol implements the store that binds a name in one step.        *)

\* What the abstract store holds.
content == [n \in Names |-> IF Bound(n) THEN Size(n) ELSE None]

LEMMA SizesAreContents ==
    ASSUME StoreInv, NEW n \in Names
    PROVE  content[n] = None <=> ~Bound(n)
  BY SizesAssumption DEF StoreInv, DiskInv, OnDisk, Published, content, Size

\* A rename that finds its name free binds it; one that finds it taken changes nothing.
LEMMA RenameBinds ==
    ASSUME StoreInv, NEW p \in Publishers, Rename(p)
    PROVE  UNCHANGED <<disk, linked>> \/ Store!Bind(work[p].name)
<1> SUFFICES ASSUME NEW n, n = work[p].name, ~Bound(n), disk' = [disk EXCEPT ![n] = work[p].dir],
                    UNCHANGED linked
             PROVE  Store!Bind(n)
  BY DEF Rename, Taken
<1>1. n \in Names /\ OnDisk(work[p].dir, n)
  BY AtWork DEF Rename, Staged
<1>2. /\ disk'[n] = work[p].dir /\ disk'[n] # Absent /\ disk'[n].size \in Sizes \cup {1}
      /\ \A m \in Names \ {n} : disk'[m] = disk[m]
  <2>1. work[p].dir.forced = TRUE /\ Absent.forced = FALSE
    BY <1>1 DEF OnDisk, Absent
  <2> QED
    BY <1>1, <2>1 DEF StoreInv, OnDisk, Published
<1>3. content' = [content EXCEPT ![n] = disk'[n].size]
  <2>1. \A m \in Names : (IF Bound(m) THEN Size(m) ELSE None)'
                         = IF m = n THEN disk'[n].size ELSE IF Bound(m) THEN Size(m) ELSE None
    BY <1>2 DEF Bound, Size
  <2> QED
    BY <1>1, <2>1 DEF content
<1>4. content[n] = None
  BY <1>1, SizesAreContents
<1> QED
  BY <1>2, <1>3, <1>4 DEF Store!Bind, content

LEMMA ReturnSettles ==
    ASSUME StoreInv, NEW p \in Publishers, Return(p)
    PROVE  work[p].name \in Names /\ Store!Settle(work[p].name)
<1>1. work[p].name \in Names /\ Bound(work[p].name)
  BY DEF StoreInv, WorkInv, WorkOk, Idle, Return
<1>2. content[work[p].name] # None
  BY <1>1, SizesAreContents
<1>3. content' = content
  BY DEF Return, content, Bound, Size
<1> QED
  BY <1>1, <1>2, <1>3 DEF Store!Settle, content, Return

LEMMA HostFailsFails ==
    ASSUME StoreInv, HostFails
    PROVE  Store!Fail
<1>1. PICK gone \in SUBSET (BoundNames \ linked), worn \in SUBSET BoundNames :
         /\ disk' = [n \in Names |-> IF n \in gone THEN Absent
                                    ELSE IF n \in worn THEN Worn(disk[n]) ELSE disk[n]]
         /\ linked' = BoundNames \ gone
  BY DEF HostFails
<1>2. \A n \in Names : disk'[n] = IF n \in gone THEN Absent ELSE disk[n]
  BY <1>1, SettledIsNotWorn DEF StoreInv, DiskInv, BoundNames
<1>3. content' = [n \in Names |-> IF n \in gone THEN None ELSE content[n]]
  BY <1>2 DEF content, Bound, Size
<1>4. linked' = {n \in Names : content'[n] # None}
  BY <1>1, <1>3, SizesAreContents DEF BoundNames
<1>5. gone \in SUBSET (Names \ linked)
  BY DEF BoundNames
<1> QED
  BY <1>3, <1>4, <1>5 DEF Store!Fail, content

\* Every step of the protocol is a step of the abstract store, or leaves it as it is.
LEMMA StepImplementsStore ==
    ASSUME StoreInv, [Next]_vars
    PROVE  [Store!Next]_<<content, linked>>
<1>1. CASE HostFails
  BY <1>1, HostFailsFails DEF Store!Next
<1>2. ASSUME UNCHANGED <<disk, linked>> PROVE UNCHANGED <<content, linked>>
  BY <1>2 DEF content, Bound, Size
<1>3. ASSUME NEW p \in Publishers, Rename(p) PROVE [Store!Next]_<<content, linked>>
  <2>1. work[p].name \in Names
    BY <1>3, AtWork DEF Rename
  <2> QED
    BY <1>2, <1>3, <2>1, RenameBinds DEF Store!Next
<1>4. ASSUME NEW p \in Publishers, Return(p) PROVE Store!Next
  BY <1>4, ReturnSettles DEF Store!Next
<1>5. ASSUME NEW p \in Publishers, Step(p), ~Rename(p), ~Return(p)
      PROVE  UNCHANGED <<disk, linked>>
  BY <1>5 DEF Step, PublishRun, PublishDataset, PublishModel, Begin, WriteMember, Verify, Commit, Stop
<1>6. CASE UNCHANGED vars
  BY <1>2, <1>6 DEF vars
<1> QED
  BY <1>1, <1>2, <1>3, <1>4, <1>5, <1>6 DEF Next

\* ImplementsStore: many publishers in many steps, with their faults, bind a whole content
\* to a name in one step, never replace it, and lose only what was not yet durable.
THEOREM StoreRefinement == Spec => ImplementsStore
<1>1. Init => Store!Init
  BY DEF Init, Store!Init, Bound
<1>2. StoreInv /\ [Next]_vars => [Store!Next]_<<content, linked>>
  BY StepImplementsStore
<1> QED
  BY <1>1, <1>2, Invariance, PTL DEF Spec, ImplementsStore, Store!Spec, content

(***************************************************************************)
(* The structured events.  The invariant follows the timer of an operation *)
(* through its segments and its events through the sink; a full sink stays *)
(* full, and so explains what it has masked.                               *)
(***************************************************************************)

OperationRecord ==
    [pc: {"idle", "open", "ending", "ended"}, started: 0..MaxClock, finished: 0..MaxClock,
     segment: Segments \cup {"none"}, since: 0..MaxClock,
     total: [Segments -> 0..MaxClock], notes: 0..FieldLimit, grown: BOOLEAN,
     body: {"none", "succeeded", "failed", "interrupted"},
     result: {"none", "succeeded", "failed", "interrupted", "BufferError", "ValidationError"}]

Spent(r) == r.total["compute"] + r.total["queue"] + r.total["io"]

\* The segments of a running operation fit in what has passed of it, the active one
\* in what is left.
TimesFit(r) ==
    /\ r.started <= time
    /\ r.segment # "none" => r.started <= r.since /\ r.since <= time
    /\ Spent(r) <= (IF r.segment = "none" THEN time ELSE r.since) - r.started

RunningOk(r) ==
    /\ r.pc = "open" => r.body = "none"
    /\ r.pc = "ending" => r.body \in {"succeeded", "failed"} /\ r.segment = "none"
    /\ r.result = "none"
    /\ TimesFit(r)

EndedOk(r) ==
    /\ r.result = "BufferError" => Full
    /\ r.segment = "none"
    /\ \/ /\ r.body = "none" /\ r.result \in {"BufferError", "ValidationError"}
          /\ r.result = "ValidationError" => r.grown
       \/ r.body = "interrupted" /\ r.result = "interrupted"
       \/ /\ r.body \in {"succeeded", "failed"} /\ Spent(r) <= r.finished - r.started
          /\ r.result \in {r.body, "BufferError", "ValidationError"}
          /\ r.result = "ValidationError" => Oversized(r)

OperationOk(r) ==
    /\ r \in OperationRecord
    /\ r.pc = "idle" => r = Unentered
    /\ r.pc \in {"open", "ending"} => RunningOk(r)
    /\ r.pc = "ended" => EndedOk(r)

\* What the sink has to tell of an operation o in the state r.
Tells(o, r) ==
    /\ r.pc = "idle" => TellsNothing(o)
    /\ r.pc \in {"open", "ending"} => TellsStart(o)
    /\ r.pc = "ended" =>
        /\ r.result \in {"succeeded", "failed"} => TellsOutcome(o, r.body)
        /\ r.result \notin {"succeeded", "failed"} =>
            IF r.body = "none" THEN TellsNothing(o) ELSE TellsStart(o)

EventInv ==
    /\ time \in 0..MaxClock
    /\ sink \in Seq(Events) /\ Len(sink) <= SinkCapacity
    /\ DOMAIN op = Operations /\ op = [o \in Operations |-> op[o]]
    /\ \A o \in Operations : OperationOk(op[o]) /\ Tells(o, op[o])

LEMMA InitEventInv == EventInit => EventInv
<1> SUFFICES ASSUME EventInit PROVE EventInv
  OBVIOUS
<1>1. time \in 0..MaxClock /\ sink \in Seq(Events) /\ Len(sink) <= SinkCapacity
  BY ObservabilityAssumption DEF EventInit
<1>2. Unentered \in OperationRecord /\ Unentered.pc = "idle"
  BY ObservabilityAssumption DEF Unentered, OperationRecord
<1>3. \A o \in Operations : op[o] = Unentered /\ EventsOf(o) = {}
  BY DEF EventInit, EventsOf
<1> QED
  BY <1>1, <1>2, <1>3 DEF EventInit, EventInv, OperationOk, Tells, TellsNothing

\* An event more, and what it adds to what is told.
LEMMA EmitTells ==
    ASSUME EventInv, NEW o \in Operations, NEW kind \in EventKinds, ~Full, Emits(o, kind)
    PROVE  /\ sink' \in Seq(Events) /\ Len(sink') <= SinkCapacity /\ (Full => Full')
           /\ \A p \in Operations \ {o} :
                /\ TellsNothing(p) => TellsNothing(p)'
                /\ TellsStart(p) => TellsStart(p)'
                /\ \A k : TellsOutcome(p, k) => TellsOutcome(p, k)'
           /\ TellsNothing(o) /\ kind = "started" => TellsStart(o)'
           /\ TellsStart(o) /\ kind = "noted" => TellsStart(o)'
           /\ TellsStart(o) => TellsOutcome(o, kind)'
<1> DEFINE e == [operation |-> o, kind |-> kind]
           n == Len(sink) + 1
<1>1. e \in Events
  BY DEF Events
<1>2. sink' = Append(sink, e) /\ sink \in Seq(Events) /\ Len(sink) \in Nat
  BY DEF Emits, EventInv
<1>3. /\ sink' \in Seq(Events) /\ Len(sink') = n /\ DOMAIN sink = 1..Len(sink)
      /\ DOMAIN sink' = 1..n /\ sink'[n] = e
      /\ \A i \in 1..Len(sink) : sink'[i] = sink[i]
  BY <1>1, <1>2
<1>4. Len(sink') <= SinkCapacity /\ (Full => Full')
  BY <1>2, <1>3, ObservabilityAssumption DEF Full
<1>5. ASSUME NEW p \in Operations \ {o}
      PROVE  EventsOf(p)' = EventsOf(p)
  <2>1. \A i \in 1..n : sink'[i].operation = p => i \in 1..Len(sink)
    BY <1>2, <1>3
  <2> QED
    BY <1>2, <1>3, <2>1 DEF EventsOf
<1>6. EventsOf(o)' = EventsOf(o) \cup {n} /\ \A i \in EventsOf(o) : i < n
  BY <1>2, <1>3 DEF EventsOf
<1>7. \A p \in Operations : \A i \in EventsOf(p) : sink'[i] = sink[i]
  BY <1>3 DEF EventsOf
<1>8. ASSUME NEW p \in Operations \ {o}
      PROVE  /\ TellsNothing(p) => TellsNothing(p)'
             /\ TellsStart(p) => TellsStart(p)'
             /\ \A k : TellsOutcome(p, k) => TellsOutcome(p, k)'
  BY <1>5, <1>7 DEF TellsNothing, TellsStart, TellsOutcome
<1>9. TellsNothing(o) /\ kind = "started" => TellsStart(o)'
  BY <1>3, <1>6 DEF TellsNothing, TellsStart
<1>10. ASSUME TellsStart(o)
       PROVE  TellsOutcome(o, kind)' /\ (kind = "noted" => TellsStart(o)')
  <2>1. PICK i \in EventsOf(o) :
            /\ sink[i].kind = "started"
            /\ \A j \in EventsOf(o) \ {i} : i < j /\ sink[j].kind = "noted"
    BY <1>10 DEF TellsStart
  <2>2. i < n /\ sink'[i].kind = "started" /\ sink'[n].kind = kind
    BY <1>3, <1>6, <1>7, <2>1
  <2>3. \A j \in EventsOf(o)' \ {i, n} : i < j /\ j < n /\ sink'[j].kind = "noted"
    BY <1>6, <1>7, <2>1
  <2>4. i \in EventsOf(o)' /\ n \in EventsOf(o)'
    BY <1>6
  <2>5. TellsOutcome(o, kind)'
    BY <2>2, <2>3, <2>4 DEF TellsOutcome
  <2>6. ASSUME kind = "noted" PROVE TellsStart(o)'
    <3>1. \A j \in EventsOf(o)' \ {i} : i < j /\ sink'[j].kind = "noted"
      BY <2>2, <2>3, <2>6
    <3> QED
      BY <2>2, <2>4, <3>1 DEF TellsStart
  <2> QED
    BY <2>5, <2>6
<1> QED
  BY <1>3, <1>4, <1>8, <1>9, <1>10

\* A step of one operation that emits nothing, or an event.
LEMMA OneOperation ==
    ASSUME EventInv, NEW o \in Operations, NEW r, op' = [op EXCEPT ![o] = r], time' = time,
           OperationOk(r)', Tells(o, r)',
           \/ sink' = sink
           \/ ~Full /\ \E kind \in EventKinds : Emits(o, kind)
    PROVE  EventInv'
<1>1. \A p \in Operations : op'[p] = IF p = o THEN r ELSE op[p]
  BY DEF EventInv
<1>2. DOMAIN op' = Operations /\ op' = [p \in Operations |-> op'[p]]
  BY DEF EventInv
<1>3. sink' \in Seq(Events) /\ Len(sink') <= SinkCapacity /\ (Full => Full')
  BY EmitTells DEF EventInv, Full
<1>4. ASSUME NEW p \in Operations \ {o} PROVE Tells(p, op[p])'
  <2>1. p \in Operations /\ op'[p] = op[p] /\ Tells(p, op[p])
    BY <1>1 DEF EventInv
  <2>2. /\ TellsNothing(p) => TellsNothing(p)'
        /\ TellsStart(p) => TellsStart(p)'
        /\ TellsOutcome(p, op[p].body) => TellsOutcome(p, op[p].body)'
    <3>1. CASE sink' = sink
      BY <2>1, <3>1 DEF TellsNothing, TellsStart, TellsOutcome, EventsOf
    <3>2. CASE sink' # sink
      BY <2>1, <3>2, EmitTells
    <3> QED
      BY <3>1, <3>2
  <2> QED
    BY <2>1, <2>2 DEF Tells
<1>5. ASSUME NEW p \in Operations \ {o} PROVE OperationOk(op[p])'
  <2>1. OperationOk(op[p]) /\ op'[p] = op[p]
    BY <1>1 DEF EventInv
  <2> QED
    BY <1>3, <2>1 DEF OperationOk, RunningOk, TimesFit, EndedOk, Oversized, TerminalFields
<1>6. \A p \in Operations : OperationOk(op[p])' /\ Tells(p, op[p])'
  <2> SUFFICES ASSUME NEW p \in Operations PROVE OperationOk(op[p])' /\ Tells(p, op[p])'
    OBVIOUS
  <2>1. CASE p = o
    BY <1>1, <2>1
  <2>2. CASE p # o
    BY <1>4, <1>5, <2>2
  <2> QED
    BY <2>1, <2>2
<1> QED
  BY <1>2, <1>3, <1>6 DEF EventInv

LEMMA EventFacts ==
    ASSUME EventInv, NEW o \in Operations
    PROVE  /\ op[o] \in OperationRecord /\ OperationOk(op[o]) /\ Tells(o, op[o])
           /\ time \in Nat /\ time <= MaxClock /\ MaxClock \in Nat /\ FieldLimit \in Nat
  BY ObservabilityAssumption DEF EventInv, OperationOk

LEMMA TickEventInv ==
    ASSUME EventInv, Tick
    PROVE  EventInv'
<1>1. time' \in 0..MaxClock /\ time \in Nat /\ time' = time + 1 /\ UNCHANGED <<op, sink>>
  BY ObservabilityAssumption DEF Tick, EventInv
<1>2. ASSUME NEW o \in Operations PROVE OperationOk(op[o])' /\ Tells(o, op[o])'
  <2>1. OperationOk(op[o]) /\ Tells(o, op[o]) /\ op'[o] = op[o] /\ (Full' <=> Full)
    BY <1>1 DEF EventInv, Full
  <2>2. Tells(o, op[o])'
    BY <1>1, <2>1 DEF Tells, TellsNothing, TellsStart, TellsOutcome, EventsOf
  <2>3. TimesFit(op[o]) => TimesFit(op[o])'
    <3> SUFFICES ASSUME TimesFit(op[o]) PROVE TimesFit(op[o])'
      OBVIOUS
    <3>1. /\ op[o].started \in Nat /\ op[o].since \in Nat /\ op[o].total \in [Segments -> Nat]
      BY <2>1 DEF OperationOk, OperationRecord
    <3>2. Spent(op[o]) \in Nat /\ Spent(op[o])' = Spent(op[o])
      BY <2>1, <3>1 DEF Spent, Segments
    <3> QED
      BY <1>1, <2>1, <3>1, <3>2 DEF TimesFit
  <2>4. OperationOk(op[o])'
    BY <2>1, <2>3 DEF OperationOk, RunningOk, EndedOk, Oversized, TerminalFields
  <2> QED
    BY <2>2, <2>4
<1> QED
  BY <1>1, <1>2 DEF EventInv

LEMMA EnterInv ==
    ASSUME EventInv, NEW o \in Operations, NEW grown \in BOOLEAN, Enter(o, grown)
    PROVE  EventInv'
<1>1. /\ op[o] = Unentered /\ TellsNothing(o) /\ time \in 0..MaxClock /\ MaxClock \in Nat
      /\ time' = time /\ Unentered \in OperationRecord
  BY EventFacts DEF Enter, EventInv, OperationOk, Tells
<1>2. CASE grown \/ Full
  <2> DEFINE error == IF grown THEN "ValidationError" ELSE "BufferError"
  <2>1. PICK r : r = [Unentered EXCEPT !.pc = "ended", !.grown = grown, !.result = error]
    OBVIOUS
  <2>2. op' = [op EXCEPT ![o] = r] /\ sink' = sink
    BY <1>1, <1>2, <2>1 DEF Enter
  <2>3. /\ r \in OperationRecord /\ r.pc = "ended" /\ r.result = error /\ r.grown = grown
        /\ r.body = "none" /\ r.segment = "none"
    BY <1>1, <2>1 DEF OperationRecord, Unentered
  <2>4. OperationOk(r)'
    BY <1>2, <2>2, <2>3 DEF OperationOk, EndedOk, Full
  <2>5. Tells(o, r)'
    BY <1>1, <2>2, <2>3 DEF Tells, TellsNothing, EventsOf
  <2> QED
    BY <1>1, <2>2, <2>4, <2>5, OneOperation
<1>3. CASE ~grown /\ ~Full
  <2>1. PICK r : r = [Unentered EXCEPT !.pc = "open", !.started = time]
    OBVIOUS
  <2>2. op' = [op EXCEPT ![o] = r] /\ Emits(o, "started")
    BY <1>1, <1>3, <2>1 DEF Enter
  <2>3. /\ r \in OperationRecord /\ r.pc = "open" /\ r.result = "none" /\ r.body = "none"
        /\ r.segment = "none" /\ r.started = time /\ \A s \in Segments : r.total[s] = 0
    BY <1>1, <2>1 DEF OperationRecord, Unentered
  <2>4. OperationOk(r)'
    BY <1>1, <2>3 DEF OperationOk, RunningOk, TimesFit, Spent, Segments
  <2>5. Tells(o, r)'
    BY <1>1, <1>3, <2>2, <2>3, EmitTells DEF Tells, EventKinds
  <2> QED
    BY <1>1, <1>3, <2>2, <2>4, <2>5, OneOperation DEF EventKinds
<1> QED
  BY <1>2, <1>3

\* The body's own event lies between the start and the end.
LEMMA OwnInv ==
    ASSUME EventInv, NEW o \in Operations, Own(o)
    PROVE  EventInv'
<1>1. ~Full /\ Emits(o, "noted") /\ time' = time /\ op' = op /\ "noted" \in EventKinds
  BY DEF Own, EventKinds
<1>2. TellsStart(o) /\ OperationOk(op[o]) /\ op[o].pc = "open"
  BY EventFacts DEF Own, Tells
<1>3. op' = [op EXCEPT ![o] = op[o]]
  BY <1>1 DEF EventInv
<1>4. Tells(o, op[o])'
  BY <1>1, <1>2, EmitTells DEF Tells
<1>5. OperationOk(op[o])'
  BY <1>1, <1>2 DEF OperationOk, RunningOk, TimesFit
<1>6. PICK r : r = op[o]
  OBVIOUS
<1>7. OperationOk(r)' /\ Tells(o, r)' /\ op' = [op EXCEPT ![o] = r]
  BY <1>1, <1>3, <1>4, <1>5, <1>6 DEF OperationOk, RunningOk, TimesFit, Tells
<1> QED
  BY <1>1, <1>7, OneOperation

\* A running operation changes its record and emits nothing.
LEMMA RunningStep ==
    ASSUME EventInv, NEW o \in Operations, NEW r \in OperationRecord,
           op[o].pc = "open", op' = [op EXCEPT ![o] = r], UNCHANGED <<time, sink>>,
           r.pc \in {"open", "ending"}, r.result = "none", TimesFit(r),
           r.pc = "open" => r.body = "none",
           r.pc = "ending" => r.body \in {"succeeded", "failed"} /\ r.segment = "none"
    PROVE  EventInv'
<1>1. TellsStart(o)
  BY EventFacts DEF Tells
<1>2. Tells(o, r)'
  BY <1>1 DEF Tells, TellsStart, EventsOf
<1>3. OperationOk(r)'
  BY DEF OperationOk, RunningOk, TimesFit
<1> QED
  BY <1>2, <1>3, OneOperation

LEMMA OpenFacts ==
    ASSUME EventInv, NEW o \in Operations, op[o].pc = "open"
    PROVE  /\ op[o] \in OperationRecord /\ op[o].body = "none" /\ op[o].result = "none"
           /\ TimesFit(op[o])
  BY EventFacts DEF OperationOk, RunningOk

\* The finally clause of a segment accounts for its time.
LEMMA SettledFits ==
    ASSUME NEW r \in OperationRecord, TimesFit(r), time \in 0..MaxClock, MaxClock \in Nat
    PROVE  /\ Settled(r) \in OperationRecord /\ Settled(r).segment = "none"
           /\ TimesFit(Settled(r))
           /\ \A f \in {"pc", "started", "finished", "notes", "grown", "body", "result"} :
                Settled(r)[f] = r[f]
<1>1. CASE r.segment = "none"
  BY <1>1 DEF Settled
<1>2. CASE r.segment # "none"
  <2> DEFINE s == r.segment
             more == r.total[s] + (time - r.since)
             q == [r EXCEPT !.total[s] = more, !.segment = "none", !.since = 0]
  <2>1. Settled(r) = q /\ s \in Segments
    BY <1>2 DEF Settled, OperationRecord
  <2>2. /\ r.total \in [Segments -> Nat] /\ r.since \in Nat /\ r.started \in Nat /\ time \in Nat
        /\ r.started <= r.since /\ r.since <= time /\ time <= MaxClock
        /\ r.total["compute"] + r.total["queue"] + r.total["io"] <= r.since - r.started
    BY <1>2 DEF OperationRecord, TimesFit, Spent
  <2>3. r.total["compute"] \in Nat /\ r.total["queue"] \in Nat /\ r.total["io"] \in Nat
    BY <2>2 DEF Segments
  <2>4. more \in 0..MaxClock
    BY <2>1, <2>2, <2>3 DEF Segments
  <2> HIDE DEF more
  <2>5. /\ q \in OperationRecord /\ q.segment = "none" /\ q.started = r.started
        /\ q.total = [r.total EXCEPT ![s] = more]
        /\ \A f \in {"pc", "started", "finished", "notes", "grown", "body", "result"} :
                q[f] = r[f]
    <3>1. 0 \in 0..MaxClock
      OBVIOUS
    <3>2. [r.total EXCEPT ![s] = more] \in [Segments -> 0..MaxClock]
      BY <2>1, <2>4 DEF OperationRecord
    <3> QED
      BY <2>1, <3>1, <3>2 DEF OperationRecord
  <2> HIDE DEF q
  <2>6. Spent(q) = Spent(r) + (time - r.since)
    <3>1. CASE s = "compute"
      BY <2>2, <2>3, <2>5, <3>1 DEF Spent, more, Segments
    <3>2. CASE s = "queue"
      BY <2>2, <2>3, <2>5, <3>2 DEF Spent, more, Segments
    <3>3. CASE s = "io"
      BY <2>2, <2>3, <2>5, <3>3 DEF Spent, more, Segments
    <3> QED
      BY <2>1, <3>1, <3>2, <3>3 DEF Segments
  <2>7. TimesFit(q)
    BY <2>2, <2>3, <2>5, <2>6 DEF TimesFit, Spent
  <2> QED
    BY <2>1, <2>5, <2>7
<1> QED
  BY <1>1, <1>2

LEMMA RunInv ==
    ASSUME EventInv, NEW o \in Operations,
           \/ CloseSegment(o) \/ BodyReturns(o) \/ Raise(o)
           \/ \E grown \in BOOLEAN, n \in 0..FieldLimit : Annotate(o, n, grown)
           \/ \E s \in Segments : OpenSegment(o, s)
    PROVE  EventInv'
<1> DEFINE q == op[o]
<1>1. /\ q \in OperationRecord /\ TimesFit(q) /\ q.pc = "open" /\ q.body = "none"
      /\ q.result = "none"
  BY OpenFacts DEF CloseSegment, BodyReturns, Raise, Annotate, OpenSegment
<1>2. /\ time \in 0..MaxClock /\ MaxClock \in Nat /\ FieldLimit \in Nat
      /\ \A r, p : op' = [op EXCEPT ![o] = r] /\ op' = [op EXCEPT ![o] = p] => r = p
  BY ObservabilityAssumption DEF EventInv
<1>3. ASSUME NEW p \in OperationRecord, NEW b \in {"succeeded", "failed"},
             p.segment = "none", TimesFit(p), p.result = "none",
             op' = [op EXCEPT ![o] = [p EXCEPT !.pc = "ending", !.body = b]],
             UNCHANGED <<time, sink>>
      PROVE  EventInv'
  <2>1. PICK r : r = [p EXCEPT !.pc = "ending", !.body = b]
    OBVIOUS
  <2>2. /\ r \in OperationRecord /\ r.pc = "ending" /\ r.body = b /\ r.result = "none"
        /\ r.started = p.started /\ r.segment = p.segment /\ r.since = p.since
        /\ r.total = p.total
    BY <1>3, <2>1 DEF OperationRecord
  <2>3. TimesFit(r)
    BY <1>3, <2>2 DEF TimesFit, Spent
  <2> QED
    BY <1>1, <1>3, <2>1, <2>2, <2>3, RunningStep
<1>4. CASE BodyReturns(o) \/ Raise(o)
  <2>1. CASE BodyReturns(o)
    <3>1. /\ op' = [op EXCEPT ![o] = [q EXCEPT !.pc = "ending", !.body = "succeeded"]]
          /\ UNCHANGED <<time, sink>> /\ q.segment = "none"
      BY <2>1 DEF BodyReturns
    <3> QED
      BY <1>1, <1>3, <3>1
  <2>2. CASE Raise(o)
    <3>1. PICK p : p = Settled(q)
      OBVIOUS
    <3>2. p \in OperationRecord /\ p.segment = "none" /\ TimesFit(p) /\ p.result = "none"
      BY <1>1, <1>2, <3>1, SettledFits
    <3>3. /\ op' = [op EXCEPT ![o] = [p EXCEPT !.pc = "ending", !.body = "failed"]]
          /\ UNCHANGED <<time, sink>>
      BY <2>2, <3>1 DEF Raise
    <3> QED
      BY <1>3, <3>2, <3>3
  <2> QED
    BY <1>4, <2>1, <2>2
<1>5. CASE CloseSegment(o)
  <2>1. PICK r : r = Settled(q)
    OBVIOUS
  <2>2. /\ r \in OperationRecord /\ TimesFit(r) /\ r.pc = "open" /\ r.body = "none"
        /\ r.result = "none"
    BY <1>1, <1>2, <2>1, SettledFits
  <2>3. op' = [op EXCEPT ![o] = r] /\ UNCHANGED <<time, sink>>
    BY <1>5, <2>1 DEF CloseSegment
  <2> QED
    BY <1>1, <2>2, <2>3, RunningStep
<1>6. ASSUME NEW grown \in BOOLEAN, NEW n \in 0..FieldLimit, Annotate(o, n, grown)
      PROVE  EventInv'
  <2>1. PICK r : r = [q EXCEPT !.notes = @ + n, !.grown = grown]
    OBVIOUS
  <2>2. q.notes + n \in 0..FieldLimit
    BY <1>1, <1>2, <1>6 DEF Annotate, OperationRecord
  <2>3. /\ r \in OperationRecord /\ r.pc = "open" /\ r.body = "none" /\ r.result = "none"
        /\ r.started = q.started /\ r.segment = q.segment /\ r.since = q.since
        /\ r.total = q.total
    BY <1>1, <2>1, <2>2 DEF OperationRecord
  <2>4. TimesFit(r)
    BY <1>1, <2>3 DEF TimesFit, Spent
  <2>5. op' = [op EXCEPT ![o] = r] /\ UNCHANGED <<time, sink>>
    BY <1>6, <2>1 DEF Annotate
  <2> QED
    BY <1>1, <2>3, <2>4, <2>5, RunningStep
<1>7. ASSUME NEW s \in Segments, OpenSegment(o, s) PROVE EventInv'
  <2>1. PICK r : r = [q EXCEPT !.segment = s, !.since = time]
    OBVIOUS
  <2>2. /\ r \in OperationRecord /\ r.pc = "open" /\ r.body = "none" /\ r.result = "none"
        /\ r.started = q.started /\ r.segment = s /\ r.since = time /\ s # "none"
        /\ r.total = q.total
    BY <1>1, <1>2, <2>1 DEF OperationRecord, Segments
  <2>3. TimesFit(r)
    BY <1>1, <1>2, <1>7, <2>2 DEF TimesFit, Spent, OpenSegment
  <2>4. op' = [op EXCEPT ![o] = r] /\ UNCHANGED <<time, sink>>
    BY <1>7, <2>1 DEF OpenSegment
  <2> QED
    BY <1>1, <2>2, <2>3, <2>4, RunningStep
<1> QED
  BY <1>4, <1>5, <1>6, <1>7

\* A cancellation or an interrupt leaves the start without an end.
LEMMA InterruptInv ==
    ASSUME EventInv, NEW o \in Operations, Interrupt(o)
    PROVE  EventInv'
<1>1. /\ op[o] \in OperationRecord /\ TimesFit(op[o]) /\ TellsStart(o)
      /\ time \in 0..MaxClock /\ MaxClock \in Nat
  BY OpenFacts, EventFacts DEF Interrupt, EventInv, Tells
<1>2. PICK p : p = Settled(op[o])
  OBVIOUS
<1>3. p \in OperationRecord /\ p.segment = "none"
  BY <1>1, <1>2, SettledFits
<1>4. PICK r : r = [p EXCEPT !.pc = "ended", !.body = "interrupted", !.result = "interrupted"]
  OBVIOUS
<1>5. op' = [op EXCEPT ![o] = r] /\ time' = time /\ sink' = sink
  BY <1>2, <1>4 DEF Interrupt
<1>6. /\ r \in OperationRecord /\ r.pc = "ended" /\ r.segment = "none"
      /\ r.body = "interrupted" /\ r.result = "interrupted"
  BY <1>3, <1>4 DEF OperationRecord
<1>7. OperationOk(r)'
  BY <1>5, <1>6 DEF OperationOk, EndedOk
<1>8. Tells(o, r)'
  <2>1. TellsStart(o)'
    BY <1>1, <1>5 DEF TellsStart, EventsOf
  <2> QED
    BY <1>6, <2>1 DEF Tells
<1> QED
  BY <1>5, <1>7, <1>8, OneOperation

LEMMA EndInv ==
    ASSUME EventInv, NEW o \in Operations, End(o)
    PROVE  EventInv'
<1>0. PICK q : q = op[o]
  OBVIOUS
<1>1. /\ q \in OperationRecord /\ q.pc = "ending" /\ q.body \in {"succeeded", "failed"}
      /\ q.segment = "none" /\ TimesFit(q) /\ TellsStart(o)
      /\ time \in 0..MaxClock /\ MaxClock \in Nat /\ time' = time
  BY <1>0, EventFacts DEF End, OperationOk, RunningOk, Tells, EventInv
<1>2. Spent(q) <= time - q.started
  BY <1>1 DEF TimesFit
<1>3. ASSUME NEW result \in {q.body, "BufferError", "ValidationError"},
             result = "ValidationError" => Oversized(q),
             result = "BufferError" => Full',
             op' = [op EXCEPT ![o] = [q EXCEPT !.pc = "ended", !.finished = time, !.result = result]],
             IF result = q.body THEN ~Full /\ Emits(o, q.body) ELSE sink' = sink
      PROVE  EventInv'
  <2>1. PICK r : r = [q EXCEPT !.pc = "ended", !.finished = time, !.result = result]
    OBVIOUS
  <2>2. /\ r \in OperationRecord /\ r.pc = "ended" /\ r.result = result /\ r.finished = time
        /\ r.body = q.body /\ r.segment = "none" /\ r.started = q.started
        /\ r.total = q.total /\ r.notes = q.notes /\ r.grown = q.grown
    BY <1>1, <2>1 DEF OperationRecord
  <2>3. Spent(r) <= r.finished - r.started /\ (Oversized(r) <=> Oversized(q))
    BY <1>2, <2>2 DEF Spent, Oversized, TerminalFields
  <2>4. OperationOk(r)'
    BY <1>1, <1>3, <2>2, <2>3 DEF OperationOk, EndedOk, Oversized, TerminalFields, Spent
  <2>5. TellsStart(o)' \/ result = q.body
    BY <1>1, <1>3 DEF TellsStart, EventsOf
  <2>6. result = q.body => TellsOutcome(o, q.body)'
    BY <1>1, <1>3, EmitTells DEF EventKinds
  <2>7. Tells(o, r)'
    BY <1>1, <2>2, <2>5, <2>6 DEF Tells
  <2>8. \/ sink' = sink
        \/ ~Full /\ \E kind \in EventKinds : Emits(o, kind)
    BY <1>1, <1>3 DEF EventKinds
  <2> QED
    BY <1>1, <1>3, <2>1, <2>4, <2>7, <2>8, OneOperation
<1>4. CASE Oversized(q)
  <2>1. /\ op' = [op EXCEPT ![o] = [q EXCEPT !.pc = "ended", !.finished = time,
                                           !.result = "ValidationError"]]
        /\ sink' = sink
    BY <1>0, <1>4 DEF End
  <2> QED
    BY <1>1, <1>3, <1>4, <2>1
<1>5. CASE ~Oversized(q) /\ Full
  <2>1. /\ op' = [op EXCEPT ![o] = [q EXCEPT !.pc = "ended", !.finished = time,
                                           !.result = "BufferError"]]
        /\ sink' = sink
    BY <1>0, <1>5 DEF End
  <2> QED
    BY <1>1, <1>3, <1>5, <2>1 DEF Full
<1>6. CASE ~Oversized(q) /\ ~Full
  <2>1. /\ op' = [op EXCEPT ![o] = [q EXCEPT !.pc = "ended", !.finished = time,
                                           !.result = q.body]]
        /\ Emits(o, q.body)
    BY <1>0, <1>6 DEF End, Outcome
  <2> QED
    BY <1>1, <1>3, <1>6, <2>1
<1> QED
  BY <1>4, <1>5, <1>6

LEMMA NextEventInv == EventInv /\ [EventNext]_eventVars => EventInv'
<1> SUFFICES ASSUME EventInv, [EventNext]_eventVars PROVE EventInv'
  OBVIOUS
<1>1. CASE UNCHANGED eventVars
  <2>1. UNCHANGED <<time, op, sink>>
    BY <1>1 DEF eventVars
  <2> QED
    BY <2>1 DEF EventInv, OperationOk, RunningOk, TimesFit, EndedOk, Oversized, TerminalFields,
       Full, Tells, TellsNothing, TellsStart, TellsOutcome, EventsOf
<1> QED
  BY <1>1, TickEventInv, EnterInv, OwnInv, RunInv, InterruptInv, EndInv DEF EventNext

\* The invariant is what the events are said to be.
LEMMA EventsAreTold == EventInv => ObservabilityTypeOK /\ EventsTellTheTruth /\ MaskingHasACause /\ SegmentsFit
<1> SUFFICES ASSUME EventInv
             PROVE  ObservabilityTypeOK /\ EventsTellTheTruth /\ MaskingHasACause /\ SegmentsFit
  OBVIOUS
<1>1. \A o \in Operations : op[o] \in OperationRecord /\ OperationOk(op[o]) /\ Tells(o, op[o])
  BY EventFacts
<1>2. ObservabilityTypeOK
  BY <1>1 DEF EventInv, ObservabilityTypeOK, OperationRecord
<1>3. EventsTellTheTruth
  BY <1>1 DEF EventsTellTheTruth, Tells
<1>4. MaskingHasACause
  <2> SUFFICES ASSUME NEW o \in Operations, op[o].pc = "ended"
               PROVE  /\ op[o].result = "BufferError" => Full
                      /\ op[o].result = "ValidationError" =>
                          \/ op[o].grown
                          \/ /\ op[o].body \in {"succeeded", "failed"}
                             /\ op[o].notes >
                                    FieldLimit - TimingFields - OutcomeFields[op[o].body]
    BY DEF MaskingHasACause
  <2>1. EndedOk(op[o]) /\ op[o].notes \in Nat
    BY <1>1 DEF OperationOk, OperationRecord
  <2>2. /\ TimingFields \in Nat /\ FieldLimit \in Nat
        /\ op[o].body \in {"succeeded", "failed"} => OutcomeFields[op[o].body] \in Nat
    BY <2>1, ObservabilityAssumption
  <2> QED
    BY <2>1, <2>2 DEF EndedOk, Oversized, TerminalFields
<1>5. SegmentsFit
  BY <1>1 DEF SegmentsFit, OperationOk, EndedOk, Spent
<1> QED
  BY <1>2, <1>3, <1>4, <1>5

-----------------------------------------------------------------------------
(* The cylinder acceptance.  A case that has succeeded is never claimed, failed or expired *)
(* again, so that an answer, and a report made of answers, is what the ledger holds for    *)
(* ever.                                                                                   *)

CylinderStates == {"absent", "running", "succeeded", "expired", "pending", "failed"}
CylinderStages == {"none", "queued", "solving", "published", "answered", "raised"}
LedgerRecord == [state : CylinderStates, run : Runs \cup {NoRun}]
WorkerRecord == [stage : CylinderStages, run : Runs \cup {NoRun}]

\* A run that a role's solves have produced.
Produced(role, r) ==
    \E fields \in executed[role] : r = [case |-> CaseOf(role), fields |-> fields]

LedgerOk(o) ==
    /\ ledger[o].state = "succeeded" => Produced(o, ledger[o].run)
    /\ ledger[o].state # "succeeded" => ledger[o].run = NoRun
    /\ o \in spent => ledger[o].state \in {"expired", "pending", "failed"}

WorkerOk(n, role) ==
    /\ container[n][role].stage = "published" => Produced(role, container[n][role].run)
    /\ container[n][role].stage = "answered" =>
        ledger[role].state = "succeeded" /\ ledger[role].run = container[n][role].run

AllSucceeded == \A role \in AcceptanceRoles : ledger[role].state = "succeeded"
LedgerReport == Report([role \in AcceptanceRoles |-> ledger[role].run])

FilesOk ==
    /\ DOMAIN files = {"json", "markdown"}
    /\ files.json # NoRun => AllSucceeded /\ files.json = LedgerReport
    /\ files.markdown # NoRun => files.markdown = files.json

CommandOk ==
    /\ acceptance \in [pc : {"idle", "mapping", "rendering"}, n : 0 .. MaxInvocations]
    /\ acceptance.pc # "idle" => acceptance.n \in Invocations

CylinderInv ==
    /\ ledger \in [AcceptanceRoles -> LedgerRecord]
    /\ container \in [Invocations -> [AcceptanceRoles -> WorkerRecord]]
    /\ executed \in [AcceptanceRoles -> SUBSET Outcomes]
    /\ spent \subseteq AcceptanceRoles
    /\ CommandOk
    /\ \A o \in AcceptanceRoles : LedgerOk(o)
    /\ \A n \in Invocations, role \in AcceptanceRoles : WorkerOk(n, role)
    /\ FilesOk

LEMMA InitCylinderInv == CylinderInit => CylinderInv
<1> SUFFICES ASSUME CylinderInit PROVE CylinderInv
  OBVIOUS
<1> USE DEF CylinderInit
<1>1. ledger \in [AcceptanceRoles -> LedgerRecord]
  BY DEF FreshRecord, LedgerRecord, CylinderStates
<1>2. container \in [Invocations -> [AcceptanceRoles -> WorkerRecord]]
  BY DEF NoWorker, WorkerRecord, CylinderStages
<1>3. executed \in [AcceptanceRoles -> SUBSET Outcomes] /\ spent \subseteq AcceptanceRoles
  OBVIOUS
<1>4. CommandOk
  BY CylinderAssumption DEF CommandOk
<1>5. \A o \in AcceptanceRoles : LedgerOk(o)
  BY DEF LedgerOk, FreshRecord
<1>6. \A n \in Invocations, role \in AcceptanceRoles : WorkerOk(n, role)
  BY DEF WorkerOk, NoWorker
<1>7. FilesOk
  BY DEF FilesOk, Unreported
<1> QED
  BY <1>1, <1>2, <1>3, <1>4, <1>5, <1>6, <1>7 DEF CylinderInv

\* What a step of a worker or of a lease leaves alone: it adds to what was produced, keeps
\* what has succeeded, and neither runs the command nor writes a file.
LEMMA WorkersStep ==
    ASSUME CylinderInv, UNCHANGED <<acceptance, files>>,
           ledger' \in [AcceptanceRoles -> LedgerRecord],
           container' \in [Invocations -> [AcceptanceRoles -> WorkerRecord]],
           executed' \in [AcceptanceRoles -> SUBSET Outcomes],
           spent' \subseteq AcceptanceRoles,
           \A o \in AcceptanceRoles : executed[o] \subseteq executed'[o],
           \A o \in AcceptanceRoles : ledger[o].state = "succeeded" => ledger'[o] = ledger[o],
           \A o \in AcceptanceRoles : LedgerOk(o)',
           \A n \in Invocations, role \in AcceptanceRoles :
              container'[n][role] = container[n][role] \/ WorkerOk(n, role)'
    PROVE  CylinderInv'
<1>1. CommandOk'
  BY DEF CylinderInv, CommandOk
<1>2. ASSUME NEW n \in Invocations, NEW role \in AcceptanceRoles PROVE WorkerOk(n, role)'
  <2>1. CASE container'[n][role] = container[n][role]
    BY <2>1 DEF CylinderInv, WorkerOk, Produced
  <2> QED
    BY <2>1
<1>3. FilesOk'
  <2>1. files.json # NoRun => AllSucceeded' /\ LedgerReport' = LedgerReport
    BY DEF CylinderInv, FilesOk, AllSucceeded, LedgerReport
  <2> QED
    BY <2>1 DEF CylinderInv, FilesOk
<1> QED
  BY <1>1, <1>2, <1>3 DEF CylinderInv

\* A worker's record is replaced by another one.
LEMMA WorkerIsSet ==
    ASSUME CylinderInv, NEW n \in Invocations, NEW role \in AcceptanceRoles,
           NEW stage \in CylinderStages, NEW r \in Runs \cup {NoRun},
           SetWorker(n, role, stage, r)
    PROVE  /\ container' \in [Invocations -> [AcceptanceRoles -> WorkerRecord]]
           /\ container'[n][role].stage = stage /\ container'[n][role].run = r
           /\ \A m \in Invocations, q \in AcceptanceRoles :
                 (m # n \/ q # role) => container'[m][q] = container[m][q]
<1>1. PICK w : w = [stage |-> stage, run |-> r]
  OBVIOUS
<1>2. w \in WorkerRecord /\ w.stage = stage /\ w.run = r
  BY <1>1 DEF WorkerRecord
<1>3. container' = [container EXCEPT ![n][role] = w]
  BY <1>1 DEF SetWorker
<1>4. container \in [Invocations -> [AcceptanceRoles -> WorkerRecord]]
  BY DEF CylinderInv
<1> QED
  BY <1>2, <1>3, <1>4

\* The record of an operation gets another state, and keeps its run.
LEMMA StateIsSet ==
    ASSUME CylinderInv, NEW o \in AcceptanceRoles, NEW state \in CylinderStates,
           ledger' = [ledger EXCEPT ![o].state = state]
    PROVE  /\ ledger' \in [AcceptanceRoles -> LedgerRecord]
           /\ ledger'[o].state = state /\ ledger'[o].run = ledger[o].run
           /\ \A q \in AcceptanceRoles : q # o => ledger'[q] = ledger[q]
<1>1. PICK r : r = [ledger[o] EXCEPT !.state = state]
  OBVIOUS
<1>2. ledger \in [AcceptanceRoles -> LedgerRecord]
  BY DEF CylinderInv
<1>3. r \in LedgerRecord /\ r.state = state /\ r.run = ledger[o].run
  BY <1>1, <1>2 DEF LedgerRecord
<1>4. ledger' = [ledger EXCEPT ![o] = r]
  BY <1>1
<1> QED
  BY <1>2, <1>3, <1>4

\* The facts of the invariant that the steps of the workers use.
LEMMA CylinderFacts ==
    ASSUME CylinderInv
    PROVE  /\ ledger \in [AcceptanceRoles -> LedgerRecord]
           /\ container \in [Invocations -> [AcceptanceRoles -> WorkerRecord]]
           /\ executed \in [AcceptanceRoles -> SUBSET Outcomes]
           /\ spent \subseteq AcceptanceRoles
           /\ \A o \in AcceptanceRoles : LedgerOk(o)
           /\ \A n \in Invocations, role \in AcceptanceRoles : WorkerOk(n, role)
  BY DEF CylinderInv

LEMMA ClaimKeepsInv ==
    ASSUME CylinderInv, NEW n \in Invocations, NEW role \in AcceptanceRoles, ClaimRole(n, role)
    PROVE  CylinderInv'
<1> USE DEF Operation
<1>1. /\ ledger \in [AcceptanceRoles -> LedgerRecord] /\ spent \subseteq AcceptanceRoles
      /\ \A o \in AcceptanceRoles : LedgerOk(o)
      /\ container[n][role].stage = "queued"
      /\ UNCHANGED <<acceptance, files, executed>>
      /\ executed \in [AcceptanceRoles -> SUBSET Outcomes]
  BY CylinderFacts DEF ClaimRole
<1>2. CASE Granted(role) /\ ledger' = [ledger EXCEPT ![role].state = "running"]
           /\ SetWorker(n, role, "solving", NoRun) /\ UNCHANGED spent
  <2>1. /\ ledger' \in [AcceptanceRoles -> LedgerRecord]
        /\ ledger'[role].state = "running" /\ ledger'[role].run = ledger[role].run
        /\ \A q \in AcceptanceRoles : q # role => ledger'[q] = ledger[q]
    BY <1>2, StateIsSet DEF CylinderStates
  <2>2. /\ container' \in [Invocations -> [AcceptanceRoles -> WorkerRecord]]
        /\ container'[n][role].stage = "solving"
        /\ \A m \in Invocations, q \in AcceptanceRoles :
              (m # n \/ q # role) => container'[m][q] = container[m][q]
    BY <1>2, WorkerIsSet DEF CylinderStages
  <2>3. \A o \in AcceptanceRoles : LedgerOk(o)'
    BY <1>1, <1>2, <2>1 DEF LedgerOk, Produced, Granted
  <2>4. \A m \in Invocations, q \in AcceptanceRoles :
            container'[m][q] = container[m][q] \/ WorkerOk(m, q)'
    BY <2>2 DEF WorkerOk
  <2>5. \A o \in AcceptanceRoles : ledger[o].state = "succeeded" => ledger'[o] = ledger[o]
    BY <1>2, <2>1 DEF Granted
  <2> QED
    BY <1>1, <1>2, <2>1, <2>2, <2>3, <2>4, <2>5, WorkersStep
<1>3. CASE ledger[role].state = "succeeded" /\ SetWorker(n, role, "answered", ledger[role].run)
           /\ UNCHANGED <<ledger, spent>>
  <2>1. ledger[role].run \in Runs \cup {NoRun}
    BY <1>1 DEF LedgerRecord
  <2>2. /\ container' \in [Invocations -> [AcceptanceRoles -> WorkerRecord]]
        /\ container'[n][role].stage = "answered" /\ container'[n][role].run = ledger[role].run
        /\ \A m \in Invocations, q \in AcceptanceRoles :
              (m # n \/ q # role) => container'[m][q] = container[m][q]
    BY <1>3, <2>1, WorkerIsSet DEF CylinderStages
  <2>3. \A o \in AcceptanceRoles : LedgerOk(o)'
    BY <1>1, <1>3 DEF LedgerOk, Produced
  <2>4. \A m \in Invocations, q \in AcceptanceRoles :
            container'[m][q] = container[m][q] \/ WorkerOk(m, q)'
    BY <1>3, <2>2 DEF WorkerOk
  <2> QED
    BY <1>1, <1>3, <2>2, <2>3, <2>4, WorkersStep
<1>4. CASE /\ ledger[role].state \in {"expired", "pending", "failed"}
           /\ ledger' = [ledger EXCEPT ![role].state = IF @ = "expired" THEN "pending" ELSE @]
           /\ SetWorker(n, role, "raised", NoRun)
           /\ spent' = spent \cup {role}
  <2>1. PICK next \in {"pending", "failed"} : ledger' = [ledger EXCEPT ![role].state = next]
    BY <1>4
  <2>2. /\ ledger' \in [AcceptanceRoles -> LedgerRecord]
        /\ ledger'[role].state = next /\ ledger'[role].run = ledger[role].run
        /\ \A q \in AcceptanceRoles : q # role => ledger'[q] = ledger[q]
    BY <2>1, StateIsSet DEF CylinderStates
  <2>3. /\ container' \in [Invocations -> [AcceptanceRoles -> WorkerRecord]]
        /\ container'[n][role].stage = "raised"
        /\ \A m \in Invocations, q \in AcceptanceRoles :
              (m # n \/ q # role) => container'[m][q] = container[m][q]
    BY <1>4, WorkerIsSet DEF CylinderStages
  <2>4. \A o \in AcceptanceRoles : LedgerOk(o)'
    BY <1>1, <1>4, <2>2 DEF LedgerOk, Produced
  <2>5. \A m \in Invocations, q \in AcceptanceRoles :
            container'[m][q] = container[m][q] \/ WorkerOk(m, q)'
    BY <2>3 DEF WorkerOk
  <2>6. \A o \in AcceptanceRoles : ledger[o].state = "succeeded" => ledger'[o] = ledger[o]
    BY <1>4, <2>2
  <2> QED
    BY <1>1, <1>4, <2>2, <2>3, <2>4, <2>5, <2>6, WorkersStep
<1> QED
  BY <1>2, <1>3, <1>4 DEF ClaimRole

LEMMA SolveKeepsInv ==
    ASSUME CylinderInv, NEW n \in Invocations, NEW role \in AcceptanceRoles, SolveRole(n, role)
    PROVE  CylinderInv'
<1> USE DEF Operation
<1>1. PICK fields \in Outcomes :
         /\ SetWorker(n, role, "published", RunOf(role, fields))
         /\ executed' = [executed EXCEPT ![role] = @ \cup {fields}]
         /\ UNCHANGED <<ledger, acceptance, files, spent>>
  BY DEF SolveRole
<1>2. /\ ledger \in [AcceptanceRoles -> LedgerRecord] /\ spent \subseteq AcceptanceRoles
      /\ \A o \in AcceptanceRoles : LedgerOk(o)
      /\ executed \in [AcceptanceRoles -> SUBSET Outcomes]
  BY CylinderFacts
<1>3. RunOf(role, fields) \in Runs \cup {NoRun}
  BY DEF RunOf, Runs, CaseOf, AcceptanceRoles
<1>4. /\ container' \in [Invocations -> [AcceptanceRoles -> WorkerRecord]]
      /\ container'[n][role].stage = "published"
      /\ container'[n][role].run = RunOf(role, fields)
      /\ \A m \in Invocations, q \in AcceptanceRoles :
            (m # n \/ q # role) => container'[m][q] = container[m][q]
  BY <1>1, <1>3, WorkerIsSet DEF CylinderStages
<1>5. /\ executed' \in [AcceptanceRoles -> SUBSET Outcomes] /\ fields \in executed'[role]
      /\ \A o \in AcceptanceRoles : executed[o] \subseteq executed'[o]
  BY <1>1, <1>2
<1>6. \A o \in AcceptanceRoles : LedgerOk(o)'
  BY <1>1, <1>2, <1>5 DEF LedgerOk, Produced
<1>7. \A m \in Invocations, q \in AcceptanceRoles :
          container'[m][q] = container[m][q] \/ WorkerOk(m, q)'
  BY <1>4, <1>5 DEF WorkerOk, Produced, RunOf
<1> QED
  BY <1>1, <1>2, <1>4, <1>5, <1>6, <1>7, WorkersStep

LEMMA SucceedKeepsInv ==
    ASSUME CylinderInv, NEW n \in Invocations, NEW role \in AcceptanceRoles, SucceedRole(n, role)
    PROVE  CylinderInv'
<1> USE DEF Operation
<1> DEFINE given == container[n][role].run
           stands == ledger[role].state = "running" \/ (ledger[role].state = "succeeded" /\ ledger[role].run = given)
<1>1. /\ ledger \in [AcceptanceRoles -> LedgerRecord] /\ spent \subseteq AcceptanceRoles
      /\ \A o \in AcceptanceRoles : LedgerOk(o)
      /\ UNCHANGED <<acceptance, files, executed, spent>>
      /\ executed \in [AcceptanceRoles -> SUBSET Outcomes]
      /\ container \in [Invocations -> [AcceptanceRoles -> WorkerRecord]]
  BY CylinderFacts DEF SucceedRole
<1>2. Produced(role, given) /\ given \in Runs \cup {NoRun}
  BY <1>1, CylinderFacts DEF SucceedRole, WorkerOk, WorkerRecord
<1>3. CASE stands
  <2>1. PICK record : record = [state |-> "succeeded", run |-> given]
    OBVIOUS
  <2>2. ledger' = [ledger EXCEPT ![role] = record] /\ SetWorker(n, role, "answered", given)
    BY <1>3, <2>1 DEF SucceedRole
  <2>3. record \in LedgerRecord /\ record.state = "succeeded" /\ record.run = given
    BY <1>2, <2>1 DEF LedgerRecord, CylinderStates
  <2>4. /\ ledger' \in [AcceptanceRoles -> LedgerRecord] /\ ledger'[role] = record
        /\ \A q \in AcceptanceRoles : q # role => ledger'[q] = ledger[q]
    BY <1>1, <2>2, <2>3
  <2>5. /\ container' \in [Invocations -> [AcceptanceRoles -> WorkerRecord]]
        /\ container'[n][role].stage = "answered" /\ container'[n][role].run = given
        /\ \A m \in Invocations, q \in AcceptanceRoles :
              (m # n \/ q # role) => container'[m][q] = container[m][q]
    BY <1>2, <2>2, WorkerIsSet DEF CylinderStages
  <2>6. \A o \in AcceptanceRoles : LedgerOk(o)'
    BY <1>1, <1>2, <1>3, <2>3, <2>4 DEF LedgerOk, Produced
  <2>7. \A m \in Invocations, q \in AcceptanceRoles :
            container'[m][q] = container[m][q] \/ WorkerOk(m, q)'
    BY <2>3, <2>4, <2>5 DEF WorkerOk
  <2>8. \A o \in AcceptanceRoles : ledger[o].state = "succeeded" => ledger'[o] = ledger[o]
    <3>1. ledger[role].state = "succeeded" => ledger[role] = record
      BY <1>1, <1>3, <2>1 DEF LedgerRecord
    <3> QED
      BY <2>4, <3>1
  <2> QED
    BY <1>1, <2>4, <2>5, <2>6, <2>7, <2>8, WorkersStep
<1>4. CASE ~stands
  <2>1. SetWorker(n, role, "raised", NoRun) /\ UNCHANGED ledger
    BY <1>4 DEF SucceedRole
  <2>2. /\ container' \in [Invocations -> [AcceptanceRoles -> WorkerRecord]]
        /\ container'[n][role].stage = "raised"
        /\ \A m \in Invocations, q \in AcceptanceRoles :
              (m # n \/ q # role) => container'[m][q] = container[m][q]
    BY <2>1, WorkerIsSet DEF CylinderStages
  <2>3. \A o \in AcceptanceRoles : LedgerOk(o)'
    BY <1>1, <2>1 DEF LedgerOk, Produced
  <2>4. \A m \in Invocations, q \in AcceptanceRoles :
            container'[m][q] = container[m][q] \/ WorkerOk(m, q)'
    BY <2>2 DEF WorkerOk
  <2> QED
    BY <1>1, <2>1, <2>2, <2>3, <2>4, WorkersStep
<1> QED
  BY <1>3, <1>4

LEMMA FailKeepsInv ==
    ASSUME CylinderInv, NEW n \in Invocations, NEW role \in AcceptanceRoles, FailRole(n, role)
    PROVE  CylinderInv'
<1> USE DEF Operation
<1>1. /\ ledger \in [AcceptanceRoles -> LedgerRecord] /\ spent \subseteq AcceptanceRoles
      /\ \A o \in AcceptanceRoles : LedgerOk(o)
      /\ UNCHANGED <<acceptance, files, executed>>
      /\ executed \in [AcceptanceRoles -> SUBSET Outcomes]
      /\ SetWorker(n, role, "raised", NoRun)
  BY CylinderFacts DEF FailRole
<1>2. /\ container' \in [Invocations -> [AcceptanceRoles -> WorkerRecord]]
      /\ container'[n][role].stage = "raised"
      /\ \A m \in Invocations, q \in AcceptanceRoles :
            (m # n \/ q # role) => container'[m][q] = container[m][q]
  BY <1>1, WorkerIsSet DEF CylinderStages
<1>3. \A m \in Invocations, q \in AcceptanceRoles :
          container'[m][q] = container[m][q] \/ WorkerOk(m, q)'
  BY <1>2 DEF WorkerOk
<1>4. CASE ledger[role].state = "running"
  <2>1. PICK next \in {"pending", "failed"} :
           ledger' = [ledger EXCEPT ![role].state = next] /\ spent' = spent \cup {role}
    BY <1>4 DEF FailRole
  <2>2. /\ ledger' \in [AcceptanceRoles -> LedgerRecord]
        /\ ledger'[role].state = next /\ ledger'[role].run = ledger[role].run
        /\ \A q \in AcceptanceRoles : q # role => ledger'[q] = ledger[q]
    BY <2>1, StateIsSet DEF CylinderStates
  <2>3. \A o \in AcceptanceRoles : LedgerOk(o)'
    BY <1>1, <1>4, <2>1, <2>2 DEF LedgerOk, Produced
  <2>4. \A o \in AcceptanceRoles : ledger[o].state = "succeeded" => ledger'[o] = ledger[o]
    BY <1>4, <2>2
  <2>5. spent' \subseteq AcceptanceRoles
    BY <1>1, <2>1
  <2> QED
    BY <1>1, <1>2, <1>3, <2>2, <2>3, <2>4, <2>5, WorkersStep
<1>5. CASE ledger[role].state # "running"
  <2>1. UNCHANGED <<ledger, spent>>
    BY <1>5 DEF FailRole
  <2>2. \A o \in AcceptanceRoles : LedgerOk(o)'
    BY <1>1, <2>1 DEF LedgerOk, Produced
  <2> QED
    BY <1>1, <1>2, <1>3, <2>1, <2>2, WorkersStep
<1> QED
  BY <1>4, <1>5

LEMMA LoseKeepsInv ==
    ASSUME CylinderInv, NEW n \in Invocations, NEW role \in AcceptanceRoles, LoseRole(n, role)
    PROVE  CylinderInv'
<1>1. /\ ledger \in [AcceptanceRoles -> LedgerRecord] /\ spent \subseteq AcceptanceRoles
      /\ \A o \in AcceptanceRoles : LedgerOk(o)
      /\ UNCHANGED <<ledger, acceptance, files, executed, spent>>
      /\ executed \in [AcceptanceRoles -> SUBSET Outcomes]
      /\ SetWorker(n, role, "raised", NoRun)
  BY CylinderFacts DEF LoseRole
<1>2. /\ container' \in [Invocations -> [AcceptanceRoles -> WorkerRecord]]
      /\ container'[n][role].stage = "raised"
      /\ \A m \in Invocations, q \in AcceptanceRoles :
            (m # n \/ q # role) => container'[m][q] = container[m][q]
  BY <1>1, WorkerIsSet DEF CylinderStages
<1>3. \A m \in Invocations, q \in AcceptanceRoles :
          container'[m][q] = container[m][q] \/ WorkerOk(m, q)'
  BY <1>2 DEF WorkerOk
<1>4. \A o \in AcceptanceRoles : LedgerOk(o)'
  BY <1>1 DEF LedgerOk, Produced
<1> QED
  BY <1>1, <1>2, <1>3, <1>4, WorkersStep

LEMMA LeaseKeepsInv ==
    ASSUME CylinderInv, NEW o \in AcceptanceRoles, LeaseRunsOut(o)
    PROVE  CylinderInv'
<1>1. /\ ledger \in [AcceptanceRoles -> LedgerRecord] /\ spent \subseteq AcceptanceRoles
      /\ \A q \in AcceptanceRoles : LedgerOk(q)
      /\ UNCHANGED <<container, acceptance, files, executed>>
      /\ container \in [Invocations -> [AcceptanceRoles -> WorkerRecord]]
      /\ executed \in [AcceptanceRoles -> SUBSET Outcomes]
      /\ ledger' = [ledger EXCEPT ![o].state = "expired"] /\ spent' = spent \cup {o}
      /\ ledger[o].state = "running"
  BY CylinderFacts DEF LeaseRunsOut
<1>2. /\ ledger' \in [AcceptanceRoles -> LedgerRecord]
      /\ ledger'[o].state = "expired" /\ ledger'[o].run = ledger[o].run
      /\ \A q \in AcceptanceRoles : q # o => ledger'[q] = ledger[q]
  BY <1>1, StateIsSet DEF CylinderStates
<1>3. \A q \in AcceptanceRoles : LedgerOk(q)'
  BY <1>1, <1>2 DEF LedgerOk, Produced
<1>4. \A q \in AcceptanceRoles : ledger[q].state = "succeeded" => ledger'[q] = ledger[q]
  BY <1>1, <1>2
<1>5. spent' \subseteq AcceptanceRoles
  BY <1>1
<1> QED
  BY <1>1, <1>2, <1>3, <1>4, <1>5, WorkersStep

\* What a step of the command leaves alone.
LEMMA CommandStep ==
    ASSUME CylinderInv, UNCHANGED <<ledger, executed, spent>>,
           container' \in [Invocations -> [AcceptanceRoles -> WorkerRecord]],
           \A n \in Invocations, role \in AcceptanceRoles :
              container'[n][role] = container[n][role] \/ container'[n][role].stage = "queued",
           CommandOk', FilesOk'
    PROVE  CylinderInv'
<1>1. \A o \in AcceptanceRoles : LedgerOk(o)'
  BY CylinderFacts DEF LedgerOk, Produced
<1>2. ASSUME NEW n \in Invocations, NEW role \in AcceptanceRoles PROVE WorkerOk(n, role)'
  <2>1. CASE container'[n][role].stage = "queued"
    BY <2>1 DEF WorkerOk
  <2>2. CASE container'[n][role] = container[n][role]
    <3>1. WorkerOk(n, role)
      BY CylinderFacts
    <3> QED
      BY <2>2, <3>1 DEF WorkerOk, Produced
  <2> QED
    BY <2>1, <2>2
<1> QED
  BY <1>1, <1>2, CylinderFacts DEF CylinderInv

LEMMA CommandKeepsInv ==
    ASSUME CylinderInv, Invoke \/ Abort \/ WriteJson \/ WriteMarkdown
    PROVE  CylinderInv'
<1>1. /\ container \in [Invocations -> [AcceptanceRoles -> WorkerRecord]] /\ CommandOk /\ FilesOk
      /\ \A n \in Invocations, role \in AcceptanceRoles : WorkerOk(n, role)
  BY CylinderFacts DEF CylinderInv
<1>2. ASSUME UNCHANGED <<ledger, files>> PROVE FilesOk'
  BY <1>1, <1>2 DEF FilesOk, AllSucceeded, LedgerReport
<1>3. CASE Invoke
  <2>1. PICK fresh : fresh = [role \in AcceptanceRoles |-> [stage |-> "queued", run |-> NoRun]]
    OBVIOUS
  <2>2. acceptance.n + 1 \in Invocations
    BY <1>1, <1>3, CylinderAssumption DEF Invoke, CommandOk, Invocations
  <2>3. PICK m \in Invocations : m = acceptance.n + 1
    BY <2>2
  <2>4. container' = [container EXCEPT ![m] = fresh] /\ UNCHANGED <<ledger, executed, spent, files>>
    BY <1>3, <2>1, <2>3 DEF Invoke
  <2>5. fresh \in [AcceptanceRoles -> WorkerRecord] /\ \A role \in AcceptanceRoles : fresh[role].stage = "queued"
    BY <2>1 DEF WorkerRecord, CylinderStages
  <2>6. container' \in [Invocations -> [AcceptanceRoles -> WorkerRecord]]
    BY <1>1, <2>4, <2>5
  <2>7. \A n \in Invocations, role \in AcceptanceRoles :
            container'[n][role] = container[n][role] \/ container'[n][role].stage = "queued"
    BY <1>1, <2>4, <2>5
  <2>8. CommandOk'
    BY <1>3, <2>3, CylinderAssumption DEF Invoke, CommandOk, Invocations
  <2> QED
    BY <1>2, <2>4, <2>6, <2>7, <2>8, CommandStep
<1>4. CASE Abort
  <2>1. CommandOk' /\ UNCHANGED <<container, ledger, executed, spent, files>>
    BY <1>1, <1>4 DEF Abort, CommandOk
  <2> QED
    BY <1>1, <1>2, <2>1, CommandStep
<1>5. CASE WriteJson
  <2>1. CommandOk' /\ UNCHANGED <<container, ledger, executed, spent>>
        /\ files' = [files EXCEPT !.json = Derived]
    BY <1>1, <1>5 DEF WriteJson, CommandOk
  <2>2. acceptance.n \in Invocations /\ \A role \in AcceptanceRoles : container[acceptance.n][role].stage = "answered"
    BY <1>1, <1>5 DEF WriteJson, CommandOk
  <2>3. \A role \in AcceptanceRoles :
           ledger[role].state = "succeeded" /\ ledger[role].run = container[acceptance.n][role].run
    BY <1>1, <2>2 DEF WorkerOk
  <2>4. AllSucceeded /\ Derived = LedgerReport
    BY <2>3 DEF AllSucceeded, Derived, LedgerReport
  <2>5. AllSucceeded' /\ LedgerReport' = LedgerReport
    BY <2>1, <2>4 DEF AllSucceeded, LedgerReport
  <2>6. FilesOk'
    BY <1>1, <2>1, <2>4, <2>5 DEF FilesOk
  <2> QED
    BY <1>1, <2>1, <2>6, CommandStep
<1>6. CASE WriteMarkdown
  <2>1. CommandOk' /\ UNCHANGED <<container, ledger, executed, spent>>
    BY <1>1, <1>6 DEF WriteMarkdown, CommandOk
  <2>2. AllSucceeded' = AllSucceeded /\ LedgerReport' = LedgerReport
    BY <2>1 DEF AllSucceeded, LedgerReport
  <2>3. files' = [files EXCEPT !.markdown = files.json] \/ UNCHANGED files
    BY <1>6 DEF WriteMarkdown
  <2>4. FilesOk'
    BY <1>1, <2>2, <2>3 DEF FilesOk
  <2> QED
    BY <1>1, <2>1, <2>4, CommandStep
<1> QED
  BY <1>3, <1>4, <1>5, <1>6

LEMMA NextCylinderInv == CylinderInv /\ [CylinderNext]_cylinderVars => CylinderInv'
<1> SUFFICES ASSUME CylinderInv, [CylinderNext]_cylinderVars PROVE CylinderInv'
  OBVIOUS
<1>1. CASE UNCHANGED cylinderVars
  <2>1. UNCHANGED <<ledger, container, acceptance, files, executed, spent>>
    BY <1>1 DEF cylinderVars
  <2> QED
    <3>1. CommandOk'
      BY <2>1 DEF CylinderInv, CommandOk
    <3>2. (\A o \in AcceptanceRoles : LedgerOk(o))'
      <4> SUFFICES ASSUME NEW o \in AcceptanceRoles PROVE LedgerOk(o)'
        OBVIOUS
      <4>1. LedgerOk(o)
        BY DEF CylinderInv
      <4> QED
        BY <2>1, <4>1 DEF LedgerOk, Produced
    <3>3. (\A n \in Invocations, role \in AcceptanceRoles : WorkerOk(n, role))'
      BY <2>1 DEF CylinderInv, WorkerOk, Produced
    <3>4. FilesOk'
      BY <2>1 DEF CylinderInv, FilesOk, AllSucceeded, LedgerReport
    <3> QED
      BY <2>1, <3>1, <3>2, <3>3, <3>4 DEF CylinderInv
<1> QED
  BY <1>1, ClaimKeepsInv, SolveKeepsInv, SucceedKeepsInv, FailKeepsInv, LoseKeepsInv,
     LeaseKeepsInv, CommandKeepsInv DEF CylinderNext

\* The invariant is what the acceptance promises.
LEMMA AcceptanceHolds ==
    CylinderInv => CylinderTypeOK /\ AcceptanceIsEarned /\ AcceptanceIsStable /\ SpentStaysSpent
<1> SUFFICES ASSUME CylinderInv
             PROVE  CylinderTypeOK /\ AcceptanceIsEarned /\ AcceptanceIsStable /\ SpentStaysSpent
  OBVIOUS
<1>1. CylinderTypeOK
  BY CylinderFacts DEF CylinderInv, CommandOk, CylinderTypeOK, LedgerRecord, WorkerRecord,
     CylinderStates, CylinderStages
<1>2. AcceptanceIsStable
  BY DEF CylinderInv, FilesOk, AcceptanceIsStable, LedgerReport, Report, Operation
<1>3. SpentStaysSpent
  BY DEF CylinderInv, FilesOk, LedgerOk, AllSucceeded, SpentStaysSpent
<1>4. AcceptanceIsEarned
  <2> SUFFICES ASSUME files.json # NoRun
               PROVE  LET r == files.json
                          Fields(role) == r.runs[role].fields
                      IN /\ \A role \in AcceptanceRoles : Fields(role) \in executed[role]
                         /\ ReportIsCoherent(r)
                         /\ r.passed <=> /\ Fields("canonical") = Fields("repeat")
                                         /\ Fields("canonical") \in InRange
                                         /\ \A role \in AcceptanceRoles : Fields(role) \in Healthy
    BY DEF AcceptanceIsEarned
  <2>1. PICK runs : runs = [role \in AcceptanceRoles |-> ledger[role].run]
    OBVIOUS
  <2>2. files.json = Report(runs)
    BY <2>1 DEF CylinderInv, FilesOk, LedgerReport
  <2>3. \A role \in AcceptanceRoles : Produced(role, runs[role])
    BY <2>1 DEF CylinderInv, FilesOk, LedgerOk, AllSucceeded
  <2>4. \A role \in AcceptanceRoles :
           /\ runs[role].fields \in executed[role] /\ runs[role].case = CaseOf(role)
           /\ runs[role] = [case |-> CaseOf(role), fields |-> runs[role].fields]
    <3> SUFFICES ASSUME NEW role \in AcceptanceRoles
                 PROVE  /\ runs[role].fields \in executed[role] /\ runs[role].case = CaseOf(role)
                        /\ runs[role] = [case |-> CaseOf(role), fields |-> runs[role].fields]
      OBVIOUS
    <3>1. PICK f \in executed[role] : runs[role] = [case |-> CaseOf(role), fields |-> f]
      BY <2>3 DEF Produced
    <3> QED
      BY <3>1
  <2>5. PICK r : r = Report(runs)
    OBVIOUS
  <2>6. runs["canonical"] = runs["repeat"] <=> runs["canonical"].fields = runs["repeat"].fields
    BY <2>4 DEF CaseOf, AcceptanceRoles
  <2>7. /\ r.runs = runs
        /\ r.determinism <=> runs["canonical"] = runs["repeat"]
        /\ r.passed <=> /\ runs["canonical"].fields \in InRange
                        /\ \A role \in {"canonical"} \cup Grids : runs[role].fields \in Healthy
                        /\ runs["canonical"] = runs["repeat"]
    BY <2>5 DEF Report, ReferencePassed, SensitivityHealth, Independent, Operation
  <2>8. ReportIsCoherent(r)
    <3>1. r = Report(r.runs)
      BY <2>5, <2>7
    <3>2. r.runs["canonical"].case = r.runs["repeat"].case
      BY <2>4, <2>7 DEF CaseOf, AcceptanceRoles
    <3>3. r.determinism => r.runs["canonical"] = r.runs["repeat"]
      BY <2>7
    <3> QED
      BY <3>1, <3>2, <3>3 DEF ReportIsCoherent
  <2> QED
    BY <2>2, <2>4, <2>5, <2>6, <2>7, <2>8 DEF AcceptanceRoles
<1> QED
  BY <1>1, <1>2, <1>3, <1>4

-----------------------------------------------------------------------------
(* The gates.  A report is green exactly when each of the twelve gates is, and each gate   *)
(* says one thing of the measurements.                                                     *)

GateNames == {"field_error", "cd_head_error", "head_field_consistency", "divergence",
              "obstacle_compliance", "mean_baseline_field", "nearest_baseline_field",
              "mean_baseline_cd", "nearest_baseline_cd", "ood_variance_increase",
              "sensitivity_sign", "evidence_integrity"}

IsGreen(m, gate) == Comparison(Operator(gate), Value(m, gate), Threshold(m, gate))

LEMMA RequiredNames ==
    \A gate : (\E i \in DOMAIN Required : Required[i] = gate) <=> gate \in GateNames
<1> USE DEF Required, Fixed, Compared
<1>1. DOMAIN Required = 1 .. 12
  OBVIOUS
<1>2. /\ Required[1] = "field_error" /\ Required[2] = "cd_head_error"
      /\ Required[3] = "head_field_consistency" /\ Required[4] = "divergence"
      /\ Required[5] = "obstacle_compliance"
  OBVIOUS
<1>3. /\ Required[6] = "mean_baseline_field" /\ Required[7] = "nearest_baseline_field"
      /\ Required[8] = "mean_baseline_cd" /\ Required[9] = "nearest_baseline_cd"
  OBVIOUS
<1>4. /\ Required[10] = "ood_variance_increase" /\ Required[11] = "sensitivity_sign"
      /\ Required[12] = "evidence_integrity"
  OBVIOUS
<1> HIDE DEF Required, Fixed, Compared
<1>5. \A gate : (\E i \in 1 .. 12 : Required[i] = gate) <=>
         \/ gate = Required[1] \/ gate = Required[2] \/ gate = Required[3] \/ gate = Required[4]
         \/ gate = Required[5] \/ gate = Required[6] \/ gate = Required[7] \/ gate = Required[8]
         \/ gate = Required[9] \/ gate = Required[10] \/ gate = Required[11] \/ gate = Required[12]
  OBVIOUS
<1> QED
  BY ONLY <1>1, <1>2, <1>3, <1>4, <1>5 DEF GateNames

\* The gates of a report are green together when each is.
LEMMA GreenGates ==
    ASSUME NEW m
    PROVE  Overall(RequiredGates(m)) = "green" <=>
              \A gate \in GateNames : IsGreen(m, gate)
<1>1. Overall(RequiredGates(m)) = "green" <=> \A i \in DOMAIN Required : Gate(m, Required[i]).green
  BY DEF Overall, RequiredGates
<1>2. \A gate : Gate(m, gate).green = IsGreen(m, gate)
  BY DEF Gate, IsGreen
<1> QED
  BY <1>1, <1>2, RequiredNames

\* The two ratios are undefined exactly when they have no denominator.
LEMMA RatioFacts ==
    ASSUME NEW a \in Nat \cup {Invalid}, NEW b \in Nat \cup {Invalid}
    PROVE  /\ Ratio(a, b) # Invalid <=> a # Invalid /\ b # Invalid /\ b > 0
           /\ Ratio(a, b) # Invalid => Ratio(a, b) = (2 * a) \div b
<1>1. CASE a = Invalid \/ b = Invalid \/ b = 0
  <2>1. Ratio(a, b) = Invalid
    BY <1>1 DEF Ratio
  <2>2. ~(a # Invalid /\ b # Invalid /\ b > 0)
    BY <1>1
  <2> QED
    BY <2>1, <2>2
<1>2. CASE ~(a = Invalid \/ b = Invalid \/ b = 0)
  <2>1. Ratio(a, b) = (2 * a) \div b
    BY <1>2 DEF Ratio
  <2>2. a \in Nat /\ b \in Nat /\ b > 0
    BY <1>2
  <2>3. 2 * a \in Nat
    BY <2>2
  <2>4. (2 * a) \div b \in Nat
    <3>1. PICK c \in Nat : c = 2 * a
      BY <2>3
    <3>2. c \div b \in Nat
      BY <2>2
    <3> QED
      BY <3>1, <3>2
  <2> QED
    BY <1>2, <2>1, <2>2, <2>4, GatesAssumption
<1> QED
  BY <1>1, <1>2

\* What each gate says.
LEMMA GateMeanings ==
    ASSUME NEW m \in [Summaries -> Nat \cup {Invalid}], Evaluable(m)
    PROVE  /\ IsGreen(m, "field_error") <=> m["velocity"] < Thresholds["field_error"]
           /\ IsGreen(m, "cd_head_error") <=> m["cd"] < Thresholds["cd_head_error"]
           /\ IsGreen(m, "head_field_consistency") <=>
                m["gap"] # Invalid /\ m["gap"] >= Thresholds["head_field_consistency"]
           /\ IsGreen(m, "divergence") <=>
                /\ Ratio(m["divergence"], m["solver_divergence"]) # Invalid
                /\ Ratio(m["divergence"], m["solver_divergence"]) < Thresholds["divergence"]
           /\ IsGreen(m, "obstacle_compliance") <=>
                m["obstacle"] < Thresholds["obstacle_compliance"]
           /\ IsGreen(m, "mean_baseline_field") <=> m["velocity"] < m["mean_velocity"]
           /\ IsGreen(m, "nearest_baseline_field") <=> m["velocity"] < m["nearest_velocity"]
           /\ IsGreen(m, "mean_baseline_cd") <=> m["cd"] < m["mean_cd"]
           /\ IsGreen(m, "nearest_baseline_cd") <=> m["cd"] < m["nearest_cd"]
           /\ IsGreen(m, "ood_variance_increase") <=>
                /\ Ratio(m["ood"], m["id_boundary"]) # Invalid
                /\ Ratio(m["ood"], m["id_boundary"]) >= Thresholds["ood_variance_increase"]
           /\ IsGreen(m, "sensitivity_sign") <=>
                m["agreed"] # Invalid /\ m["agreed"] >= Thresholds["sensitivity_sign"]
           /\ IsGreen(m, "evidence_integrity")
<1> USE DEF Operator, AtLeast, Value, Threshold
<1>1. \A s \in {"velocity", "cd", "divergence", "obstacle", "mean_velocity", "nearest_velocity",
                "mean_cd", "nearest_cd"} : m[s] # Invalid
  BY DEF Evaluable, Needed, PlotPoints
<1>2. \A v, t : /\ Comparison("lt", v, t) <=> v # Invalid /\ v < t
                /\ Comparison("ge", v, t) <=> v # Invalid /\ v >= t
                /\ Comparison("eq", v, t) <=> v # Invalid /\ v = t
  BY DEF Comparison
<1>3. Operator("field_error") = "lt" /\ Value(m, "field_error") = m["velocity"]
      /\ Threshold(m, "field_error") = Thresholds["field_error"]
  OBVIOUS
<1>4. Operator("cd_head_error") = "lt" /\ Value(m, "cd_head_error") = m["cd"]
      /\ Threshold(m, "cd_head_error") = Thresholds["cd_head_error"]
  OBVIOUS
<1>5. Operator("head_field_consistency") = "ge" /\ Value(m, "head_field_consistency") = m["gap"]
      /\ Threshold(m, "head_field_consistency") = Thresholds["head_field_consistency"]
  OBVIOUS
<1>6. Operator("divergence") = "lt"
      /\ Value(m, "divergence") = Ratio(m["divergence"], m["solver_divergence"])
      /\ Threshold(m, "divergence") = Thresholds["divergence"]
  OBVIOUS
<1>7. Operator("obstacle_compliance") = "lt" /\ Value(m, "obstacle_compliance") = m["obstacle"]
      /\ Threshold(m, "obstacle_compliance") = Thresholds["obstacle_compliance"]
  OBVIOUS
<1>8. Operator("mean_baseline_field") = "lt" /\ Value(m, "mean_baseline_field") = m["velocity"]
      /\ Threshold(m, "mean_baseline_field") = m["mean_velocity"]
  OBVIOUS
<1>9. Operator("nearest_baseline_field") = "lt" /\ Value(m, "nearest_baseline_field") = m["velocity"]
      /\ Threshold(m, "nearest_baseline_field") = m["nearest_velocity"]
  OBVIOUS
<1>10. Operator("mean_baseline_cd") = "lt" /\ Value(m, "mean_baseline_cd") = m["cd"]
       /\ Threshold(m, "mean_baseline_cd") = m["mean_cd"]
  OBVIOUS
<1>11. Operator("nearest_baseline_cd") = "lt" /\ Value(m, "nearest_baseline_cd") = m["cd"]
       /\ Threshold(m, "nearest_baseline_cd") = m["nearest_cd"]
  OBVIOUS
<1>12. Operator("ood_variance_increase") = "ge"
       /\ Value(m, "ood_variance_increase") = Ratio(m["ood"], m["id_boundary"])
       /\ Threshold(m, "ood_variance_increase") = Thresholds["ood_variance_increase"]
  OBVIOUS
<1>13. Operator("sensitivity_sign") = "ge" /\ Value(m, "sensitivity_sign") = m["agreed"]
       /\ Threshold(m, "sensitivity_sign") = Thresholds["sensitivity_sign"]
  OBVIOUS
<1>14. Operator("evidence_integrity") = "eq" /\ Value(m, "evidence_integrity") = TRUE
       /\ Threshold(m, "evidence_integrity") = TRUE
  OBVIOUS
<1> QED
  BY ONLY <1>1, <1>2, <1>3, <1>4, <1>5, <1>6, <1>7, <1>8, <1>9, <1>10, <1>11, <1>12, <1>13,
     <1>14, GatesAssumption DEF IsGreen

\* A verdict is green exactly when the measurements have earned it.
LEMMA GreenMeansEarned ==
    ASSUME NEW m \in [Summaries -> Nat \cup {Invalid}], Evaluable(m)
    PROVE  Overall(RequiredGates(m)) = "green" <=> Earned(m)
<1>1. \A s \in Summaries : m[s] \in Nat \cup {Invalid}
  OBVIOUS
<1>2. \A s \in {"velocity", "cd", "divergence", "obstacle", "mean_velocity", "nearest_velocity",
                "mean_cd", "nearest_cd"} : m[s] # Invalid
  BY DEF Evaluable, Needed, PlotPoints
<1>3. (\A s \in Summaries : m[s] # Invalid) <=>
         /\ m["gap"] # Invalid /\ m["agreed"] # Invalid
         /\ m["solver_divergence"] # Invalid /\ m["ood"] # Invalid /\ m["id_boundary"] # Invalid
  BY <1>2 DEF Summaries
<1>4. /\ Ratio(m["divergence"], m["solver_divergence"]) # Invalid <=>
            m["divergence"] # Invalid /\ m["solver_divergence"] # Invalid /\ m["solver_divergence"] > 0
      /\ Ratio(m["divergence"], m["solver_divergence"]) # Invalid =>
            Ratio(m["divergence"], m["solver_divergence"]) = (2 * m["divergence"]) \div m["solver_divergence"]
  BY <1>1, RatioFacts DEF Summaries
<1>5. /\ Ratio(m["ood"], m["id_boundary"]) # Invalid <=>
            m["ood"] # Invalid /\ m["id_boundary"] # Invalid /\ m["id_boundary"] > 0
      /\ Ratio(m["ood"], m["id_boundary"]) # Invalid =>
            Ratio(m["ood"], m["id_boundary"]) = (2 * m["ood"]) \div m["id_boundary"]
  BY <1>1, RatioFacts DEF Summaries
<1> QED
  BY <1>2, <1>3, <1>4, <1>5, GreenGates, GateMeanings, Zenon DEF Earned, GateNames

-----------------------------------------------------------------------------
(* The validation.  What a container has checked stays true of the request it serves: the  *)
(* facts of the world do not change, and a request is assembled from them once per run.    *)

Assembled == [dataset |-> digest["config.dataset"], models |-> digest["config.models"],
              baselines |-> digest["config.baselines"], source |-> digest["checkout.source"],
              lock |-> digest["checkout.lock"]]

Busy == {"staging", "commit", "opening", "evaluating", "writing", "committing", "answered"}

MainRecord == [pc : {"idle", "stage", "validate", "done", "failed"}, request : Requests,
               receipt : 0 .. MaxRuns, status : {"none", "green", "red"}]
ContainerRecord == [pc : {"none"} \cup Busy, view : Volumes, next : 1 .. 5]

\* A volume where a report directory holds members of its own report only, and its manifest
\* only when it holds all of them.
VolumeOk(v) ==
    /\ v \in Volumes
    /\ \A r \in 1 .. MaxRuns :
        /\ \A member \in WholeReport : v.reports[r][member] \in {0, r}
        /\ v.reports[r]["plots.json"] # 0 => IsWhole(v.reports[r], r)

\* A report says what its measurements give, and of which request.
PublishedOk(r) ==
    /\ published[r].status \in {"none", "green", "red"}
    /\ published[r].status # "none" =>
        /\ published[r].measured \in Measurements /\ Evaluable(published[r].measured)
        /\ published[r].gates = RequiredGates(published[r].measured)
        /\ published[r].status = Overall(published[r].gates)

\* The report of this run is out, and the test set was whole.
Reported ==
    Holds("rows") /\ published[run].status # "none" /\ published[run].request = main.request

RunOk ==
    /\ main.pc # "idle" => run \in 1 .. MaxRuns /\ main.request = Assembled
    /\ main.pc \in {"stage", "validate", "done"} => Assembles
    /\ main.pc = "done" =>
        /\ worker.pc = "none" /\ main.receipt = run /\ Sound /\ MatchesBuild(main.request)
        /\ Reported /\ main.status = published[run].status
        /\ IsWhole(committed.reports[run], run)

WorkerStands ==
    /\ worker.pc # "none" => main.pc \in {"stage", "validate"} /\ MatchesBuild(main.request)
    /\ worker.pc # "none" =>
        \A i \in 1 .. 4 : i < worker.next => worker.view.reports[run][Members[i]] = run
    /\ worker.pc \in {"evaluating", "writing", "committing", "answered"} => Sound
    /\ worker.pc \in {"writing", "committing", "answered"} => Reported
    /\ worker.pc \in {"committing", "answered"} => IsWhole(worker.view.reports[run], run)
    /\ worker.pc = "answered" => committed = worker.view

ValidationInv ==
    /\ digest \in [Compare -> {1, 2}] /\ run \in 0 .. MaxRuns
    /\ main \in MainRecord /\ worker \in ContainerRecord
    /\ VolumeOk(committed) /\ VolumeOk(worker.view)
    /\ DOMAIN published = 1 .. MaxRuns /\ \A r \in 1 .. MaxRuns : PublishedOk(r)
    /\ RunOk /\ WorkerStands

LEMMA RunsAreNumbers == MaxRuns \in Nat /\ \A r \in 1 .. MaxRuns : r # 0 /\ r \in Nat
  BY ValidationAssumption

LEMMA MemberNames ==
    /\ WholeReport = {"report.json", "report.md", "plots", "plots.json"}
    /\ Len(Members) = 4
    /\ Members[1] = "report.json" /\ Members[2] = "report.md" /\ Members[3] = "plots"
    /\ Members[4] = "plots.json"
<1> USE DEF Members
<1>1. DOMAIN Members = 1 .. 4 /\ Len(Members) = 4
  OBVIOUS
<1>2. /\ Members[1] = "report.json" /\ Members[2] = "report.md" /\ Members[3] = "plots"
      /\ Members[4] = "plots.json"
  OBVIOUS
<1> HIDE DEF Members
<1>3. \A member : (\E i \in 1 .. 4 : Members[i] = member) <=>
          \/ member = Members[1] \/ member = Members[2] \/ member = Members[3] \/ member = Members[4]
  OBVIOUS
<1>4. \A member : member \in WholeReport <=> \E i \in 1 .. 4 : Members[i] = member
  BY <1>1 DEF WholeReport
<1> QED
  BY <1>1, <1>2, <1>3, <1>4

LEMMA AssembledIsRequest == digest \in [Compare -> {1, 2}] => Assembled \in Requests
  BY DEF Compare, Assembled, Requests

LEMMA NothingOk == VolumeOk(Nothing)
<1>1. Nothing \in Volumes /\ \A r \in 1 .. MaxRuns, member \in WholeReport : Nothing.reports[r][member] = 0
  BY RunsAreNumbers DEF Nothing, NotWritten, Volumes
<1> QED
  BY <1>1, MemberNames DEF VolumeOk

LEMMA InitValidationInv == ValidationInit => ValidationInv
<1> SUFFICES ASSUME ValidationInit PROVE ValidationInv
  OBVIOUS
<1> USE DEF ValidationInit
<1>1. digest \in [Compare -> {1, 2}] /\ run \in 0 .. MaxRuns
  BY RunsAreNumbers
<1>2. NoRequest \in Requests
  BY DEF NoRequest, Requests
<1>3. main \in MainRecord /\ worker \in ContainerRecord
  BY <1>2, NothingOk, RunsAreNumbers DEF MainRecord, ContainerRecord, VolumeOk
<1>4. VolumeOk(committed) /\ VolumeOk(worker.view)
  BY NothingOk
<1>5. DOMAIN published = 1 .. MaxRuns /\ \A r \in 1 .. MaxRuns : PublishedOk(r)
  BY DEF PublishedOk, NoReport
<1>6. RunOk /\ WorkerStands
  BY DEF RunOk, WorkerStands
<1> QED
  BY <1>1, <1>3, <1>4, <1>5, <1>6 DEF ValidationInv

\* What depends on the facts of the world, the request, the run and its report alone.
LEMMA SameWorld ==
    ASSUME UNCHANGED digest
    PROVE  /\ Assembles' = Assembles /\ Assembled' = Assembled
           /\ \A request : MatchesBuild(request)' = MatchesBuild(request)
           /\ UNCHANGED main => Sound' = Sound
           /\ main'.request = main.request => Sound' = Sound
           /\ (UNCHANGED <<run, published>> /\ main'.request = main.request) => Reported' = Reported
  BY DEF Assembles, Assembled, MatchesBuild, Sound, Reported, Holds, Same

LEMMA SameReports ==
    ASSUME UNCHANGED published, \A r \in 1 .. MaxRuns : PublishedOk(r)
    PROVE  \A r \in 1 .. MaxRuns : PublishedOk(r)'
  BY DEF PublishedOk

LEMMA ValidationFacts ==
    ASSUME ValidationInv
    PROVE  /\ digest \in [Compare -> {1, 2}] /\ run \in 0 .. MaxRuns
           /\ main \in MainRecord /\ worker \in ContainerRecord
           /\ VolumeOk(committed) /\ VolumeOk(worker.view)
           /\ DOMAIN published = 1 .. MaxRuns /\ \A r \in 1 .. MaxRuns : PublishedOk(r)
           /\ RunOk /\ WorkerStands
           /\ worker.pc # "none" => main.pc # "done" /\ run \in 1 .. MaxRuns
  BY DEF ValidationInv, RunOk, WorkerStands

\* A step of the container that leaves the command alone.
LEMMA ContainerStep ==
    ASSUME ValidationInv, main.pc # "done", UNCHANGED <<digest, run, main, published>>,
           worker' \in ContainerRecord, VolumeOk(worker'.view), VolumeOk(committed'),
           WorkerStands'
    PROVE  ValidationInv'
<1>1. RunOk'
  BY ValidationFacts, SameWorld DEF RunOk
<1>2. VolumeOk(committed)' /\ VolumeOk(worker.view)'
  BY DEF VolumeOk
<1> QED
  BY <1>1, <1>2, ValidationFacts, SameReports DEF ValidationInv

\* A step that ends the call of the command with an error.
LEMMA FailingStep ==
    ASSUME ValidationInv, main.pc # "idle", UNCHANGED <<digest, run, published>>,
           main' = [main EXCEPT !.pc = "failed"], worker'.pc = "none",
           worker' \in ContainerRecord, VolumeOk(worker'.view), VolumeOk(committed')
    PROVE  ValidationInv'
<1>1. /\ main' \in MainRecord /\ main'.pc = "failed" /\ main'.request = main.request
  BY ValidationFacts DEF MainRecord
<1>2. RunOk'
  BY <1>1, ValidationFacts, SameWorld DEF RunOk
<1>3. WorkerStands'
  BY DEF WorkerStands
<1>4. VolumeOk(committed)' /\ VolumeOk(worker.view)'
  BY DEF VolumeOk
<1> QED
  BY <1>1, <1>2, <1>3, <1>4, ValidationFacts, SameReports DEF ValidationInv

LEMMA AssembleInv == ValidationInv /\ Assemble => ValidationInv'
<1> SUFFICES ASSUME ValidationInv, Assemble PROVE ValidationInv'
  OBVIOUS
<1>1. PICK m : m = [pc |-> IF Assembles THEN "stage" ELSE "failed", receipt |-> 0,
                    status |-> "none", request |-> Assembled]
  OBVIOUS
<1>2. main' = m /\ run' = run + 1 /\ UNCHANGED <<digest, worker, committed, published>>
      /\ worker.pc = "none" /\ run < MaxRuns
  BY <1>1 DEF Assemble, Assembled
<1>3. m \in MainRecord
  BY <1>1, ValidationFacts, AssembledIsRequest, RunsAreNumbers DEF MainRecord
<1>4. run' \in 1 .. MaxRuns
  BY <1>2, ValidationFacts, RunsAreNumbers
<1>5. m.pc \in {"stage", "failed"} /\ (m.pc = "stage" => Assembles) /\ m.request = Assembled
  BY <1>1
<1>6. RunOk'
  BY <1>2, <1>4, <1>5, SameWorld DEF RunOk
<1>7. WorkerStands'
  BY <1>2 DEF WorkerStands
<1>8. VolumeOk(committed)' /\ VolumeOk(worker.view)'
  BY <1>2, ValidationFacts DEF VolumeOk
<1> QED
  BY <1>2, <1>3, <1>4, <1>6, <1>7, <1>8, ValidationFacts, SameReports, RunsAreNumbers
     DEF ValidationInv

LEMMA StartInv ==
    ASSUME ValidationInv, NEW step \in {"stage", "validate"}, NEW next \in {"staging", "opening"},
           Start(step, next)
    PROVE  ValidationInv'
<1>1. main.pc = step /\ worker.pc = "none" /\ UNCHANGED <<digest, run, committed, published>>
  BY DEF Start
<1>2. CASE MatchesBuild(main.request)
  <2>1. PICK w : w = [pc |-> next, view |-> committed, next |-> 1]
    OBVIOUS
  <2>2. worker' = w /\ UNCHANGED main
    BY <1>2, <2>1 DEF Start
  <2>3. w \in ContainerRecord /\ w.pc = next /\ w.view = committed /\ w.next = 1
    BY <2>1, ValidationFacts DEF ContainerRecord, Busy, VolumeOk
  <2>4. WorkerStands'
    BY <1>1, <1>2, <2>2, <2>3, SameWorld DEF WorkerStands
  <2> QED
    BY <1>1, <2>2, <2>3, <2>4, ValidationFacts, ContainerStep
<1>3. CASE ~MatchesBuild(main.request)
  <2>1. main' = [main EXCEPT !.pc = "failed"] /\ UNCHANGED worker
    BY <1>3 DEF Start
  <2> QED
    BY <1>1, <2>1, ValidationFacts, FailingStep
<1> QED
  BY <1>2, <1>3

LEMMA FailsInv == ValidationInv /\ worker.pc # "none" /\ Fails => ValidationInv'
<1> SUFFICES ASSUME ValidationInv, worker.pc # "none", Fails PROVE ValidationInv'
  OBVIOUS
<1>1. worker' \in ContainerRecord /\ worker'.pc = "none" /\ worker'.view = worker.view
  BY ValidationFacts DEF Fails, ContainerRecord
<1>2. main.pc # "idle"
  BY ValidationFacts DEF WorkerStands
<1> QED
  BY <1>1, <1>2, ValidationFacts, FailingStep DEF Fails

LEMMA StopRunInv == ValidationInv /\ StopRun => ValidationInv'
<1> SUFFICES ASSUME ValidationInv, StopRun PROVE ValidationInv'
  OBVIOUS
<1>1. worker' \in ContainerRecord /\ worker'.pc = "none" /\ worker'.view = worker.view
  BY ValidationFacts DEF StopRun, ContainerRecord
<1>2. main.pc # "idle"
  BY ValidationFacts DEF WorkerStands, StopRun
<1>3. VolumeOk(committed')
  BY ValidationFacts DEF StopRun
<1> QED
  BY <1>1, <1>2, <1>3, ValidationFacts, FailingStep DEF StopRun

LEMMA StageRequestInv == ValidationInv /\ StageRequest => ValidationInv'
<1> SUFFICES ASSUME ValidationInv, StageRequest PROVE ValidationInv'
  OBVIOUS
<1>1. worker.pc = "staging" /\ main.pc # "done" /\ UNCHANGED <<digest, run, main, committed, published>>
  BY ValidationFacts DEF StageRequest
<1>2. PICK v : v = [worker.view EXCEPT !.requests = @ \cup {main.request}]
  OBVIOUS
<1>3. worker' = [worker EXCEPT !.pc = "commit", !.view = v]
  BY <1>2 DEF StageRequest
<1>4. v \in Volumes /\ v.reports = worker.view.reports
  BY <1>2, ValidationFacts DEF VolumeOk, Volumes, MainRecord
<1>5. VolumeOk(v)
  BY <1>4, ValidationFacts DEF VolumeOk
<1>6. worker' \in ContainerRecord /\ worker'.pc = "commit" /\ worker'.view = v /\ worker'.next = worker.next
  BY <1>3, <1>4, ValidationFacts DEF ContainerRecord, Busy
<1>7. WorkerStands'
  BY <1>1, <1>4, <1>6, ValidationFacts, SameWorld DEF WorkerStands
<1> QED
  BY <1>1, <1>5, <1>6, <1>7, ValidationFacts, ContainerStep

LEMMA CommitRequestInv == ValidationInv /\ CommitRequest => ValidationInv'
<1> SUFFICES ASSUME ValidationInv, CommitRequest PROVE ValidationInv'
  OBVIOUS
<1>1. /\ worker.pc = "commit" /\ committed' = worker.view /\ UNCHANGED <<digest, run, published>>
      /\ worker' = [worker EXCEPT !.pc = "none"] /\ main' = [main EXCEPT !.pc = "validate"]
  BY DEF CommitRequest
<1>2. worker' \in ContainerRecord /\ worker'.pc = "none" /\ worker'.view = worker.view
  BY <1>1, ValidationFacts DEF ContainerRecord
<1>3. /\ main.pc \in {"stage", "validate"} /\ main' \in MainRecord /\ main'.pc = "validate"
      /\ main'.request = main.request
  BY <1>1, ValidationFacts DEF MainRecord, WorkerStands
<1>4. RunOk'
  BY <1>1, <1>3, ValidationFacts, SameWorld DEF RunOk
<1>5. WorkerStands'
  BY <1>2 DEF WorkerStands
<1>6. VolumeOk(committed)' /\ VolumeOk(worker.view)'
  BY <1>1, <1>2, ValidationFacts DEF VolumeOk
<1> QED
  BY <1>1, <1>2, <1>3, <1>4, <1>5, <1>6, ValidationFacts, SameReports DEF ValidationInv

LEMMA OpenParentsInv == ValidationInv /\ OpenParents => ValidationInv'
<1> SUFFICES ASSUME ValidationInv, OpenParents PROVE ValidationInv'
  OBVIOUS
<1>1. worker.pc = "opening"
  BY DEF OpenParents
<1>2. CASE main.request \in worker.view.requests /\ Sound
  <2>1. worker' = [worker EXCEPT !.pc = "evaluating"] /\ UNCHANGED <<digest, run, main, committed, published>>
    BY <1>2 DEF OpenParents
  <2>2. worker' \in ContainerRecord /\ worker'.pc = "evaluating" /\ worker'.view = worker.view
        /\ worker'.next = worker.next
    BY <2>1, ValidationFacts DEF ContainerRecord, Busy
  <2>3. WorkerStands'
    BY <1>1, <1>2, <2>1, <2>2, ValidationFacts, SameWorld DEF WorkerStands
  <2> QED
    BY <1>1, <2>1, <2>2, <2>3, ValidationFacts, ContainerStep
<1>3. CASE ~(main.request \in worker.view.requests /\ Sound)
  <2>1. Fails
    BY <1>3 DEF OpenParents
  <2> QED
    BY <1>1, <2>1, FailsInv
<1> QED
  BY <1>2, <1>3

LEMMA EvaluateInv ==
    ASSUME ValidationInv, NEW m \in Measurements, NEW distinct \in BOOLEAN, Evaluate(m, distinct)
    PROVE  ValidationInv'
<1>1. worker.pc = "evaluating" /\ main.pc # "done" /\ run \in 1 .. MaxRuns
  BY ValidationFacts DEF Evaluate
<1>2. CASE Holds("rows") /\ Evaluable(m) /\ distinct
  <2>1. PICK report : report = [status |-> Overall(RequiredGates(m)), gates |-> RequiredGates(m),
                                request |-> main.request, measured |-> m]
    OBVIOUS
  <2>2. /\ published' = [published EXCEPT ![run] = report]
        /\ worker' = [worker EXCEPT !.pc = "writing"]
        /\ UNCHANGED <<digest, run, main, committed>>
    BY <1>2, <2>1 DEF Evaluate
  <2>3. /\ report.status = Overall(RequiredGates(m)) /\ report.status \in {"green", "red"}
        /\ report.gates = RequiredGates(m) /\ report.request = main.request /\ report.measured = m
    BY <2>1 DEF Overall
  <2>4. DOMAIN published' = 1 .. MaxRuns /\ published'[run] = report
        /\ \A r \in 1 .. MaxRuns : r # run => published'[r] = published[r]
    BY <1>1, <2>2, ValidationFacts
  <2>5. \A r \in 1 .. MaxRuns : PublishedOk(r)'
    BY <1>2, <2>3, <2>4, ValidationFacts DEF PublishedOk
  <2>6. worker' \in ContainerRecord /\ worker'.pc = "writing" /\ worker'.view = worker.view
        /\ worker'.next = worker.next
    BY <2>2, ValidationFacts DEF ContainerRecord, Busy
  <2>7. Reported'
    BY <1>2, <2>2, <2>3, <2>4 DEF Reported, Holds
  <2>8. WorkerStands'
    BY <1>1, <2>2, <2>6, <2>7, ValidationFacts, SameWorld DEF WorkerStands
  <2>9. RunOk'
    BY <1>1, <2>2, ValidationFacts, SameWorld DEF RunOk
  <2>10. VolumeOk(committed)' /\ VolumeOk(worker.view)'
    BY <2>2, <2>6, ValidationFacts DEF VolumeOk
  <2> QED
    BY <2>2, <2>4, <2>5, <2>6, <2>8, <2>9, <2>10, ValidationFacts DEF ValidationInv
<1>3. CASE ~(Holds("rows") /\ Evaluable(m) /\ distinct)
  <2>1. Fails
    BY <1>3 DEF Evaluate
  <2> QED
    BY <1>1, <2>1, FailsInv
<1> QED
  BY <1>2, <1>3

LEMMA WriteReportMemberInv == ValidationInv /\ WriteReportMember => ValidationInv'
<1> SUFFICES ASSUME ValidationInv, WriteReportMember PROVE ValidationInv'
  OBVIOUS
<1> DEFINE i == worker.next
           member == Members[i]
<1>1. worker.pc = "writing" /\ main.pc # "done" /\ run \in 1 .. MaxRuns /\ i \in 1 .. 4
  BY ValidationFacts, MemberNames DEF WriteReportMember, ContainerRecord
<1>2. member \in WholeReport
  BY <1>1, MemberNames
<1>3. CASE Fails
  BY <1>1, <1>3, FailsInv
<1>4. CASE /\ UNCHANGED <<digest, run, main, committed, published>>
           /\ worker' = [worker EXCEPT !.view.tmp = @ \cup {run}]
  <2>1. PICK v : v = [worker.view EXCEPT !.tmp = @ \cup {run}]
    OBVIOUS
  <2>2. worker' = [worker EXCEPT !.view = v]
    BY <1>4, <2>1
  <2>3. v \in Volumes /\ v.reports = worker.view.reports
    BY <1>1, <2>1, ValidationFacts DEF VolumeOk, Volumes
  <2>4. VolumeOk(v)
    BY <2>3, ValidationFacts DEF VolumeOk
  <2>5. worker' \in ContainerRecord /\ worker'.pc = "writing" /\ worker'.view = v /\ worker'.next = i
    BY <1>1, <2>2, <2>3, ValidationFacts DEF ContainerRecord
  <2>6. WorkerStands'
    BY <1>1, <1>4, <2>3, <2>5, ValidationFacts, SameWorld DEF WorkerStands
  <2> QED
    BY <1>1, <1>4, <2>4, <2>5, <2>6, ValidationFacts, ContainerStep
<1>5. CASE /\ UNCHANGED <<digest, run, main, committed, published>>
           /\ worker' = [worker EXCEPT !.view.tmp = @ \ {run}, !.next = @ + 1,
                                       !.view.reports[run][member] = run]
  <2>1. PICK d : d = [worker.view.reports[run] EXCEPT ![member] = run]
    OBVIOUS
  <2>2. PICK v : v = [worker.view EXCEPT !.tmp = @ \ {run}, !.reports = [@ EXCEPT ![run] = d]]
    OBVIOUS
  <2>3. worker' = [worker EXCEPT !.view = v, !.next = i + 1]
    BY <1>5, <2>1, <2>2
  <2>4. /\ worker.view \in Volumes
        /\ worker.view.reports \in [1 .. MaxRuns -> [WholeReport -> 0 .. MaxRuns]]
    BY ValidationFacts DEF VolumeOk, Volumes
  <2>5. /\ d \in [WholeReport -> 0 .. MaxRuns] /\ d[member] = run
        /\ \A other \in WholeReport : other # member => d[other] = worker.view.reports[run][other]
    BY <1>1, <1>2, <2>1, <2>4, RunsAreNumbers
  <2>6. /\ v \in Volumes /\ v.reports[run] = d
        /\ \A r \in 1 .. MaxRuns : r # run => v.reports[r] = worker.view.reports[r]
    BY <1>1, <2>2, <2>4, <2>5 DEF Volumes
  <2>7. \A j \in 1 .. 4 : j < i => worker.view.reports[run][Members[j]] = run
    BY <1>1, ValidationFacts DEF WorkerStands
  <2>8. \A j \in 1 .. 4 : j < i + 1 => d[Members[j]] = run
    BY <1>1, <2>5, <2>7, MemberNames
  <2>9. \A other \in WholeReport : d[other] \in {0, run}
    BY <2>5, <1>1, ValidationFacts DEF VolumeOk
  <2>10. d["plots.json"] # 0 => IsWhole(d, run)
    <3>1. CASE member = "plots.json"
      BY <1>1, <2>8, <3>1, MemberNames DEF IsWhole
    <3>2. CASE member # "plots.json"
      <4>1. d["plots.json"] = worker.view.reports[run]["plots.json"]
        BY <2>5, <3>2, MemberNames
      <4>2. worker.view.reports[run]["plots.json"] # 0 => IsWhole(worker.view.reports[run], run)
        BY <1>1, ValidationFacts DEF VolumeOk
      <4> QED
        BY <2>5, <4>1, <4>2 DEF IsWhole
    <3> QED
      BY <3>1, <3>2
  <2>11. VolumeOk(v)
    BY <2>6, <2>9, <2>10, ValidationFacts DEF VolumeOk
  <2>12. worker' \in ContainerRecord /\ worker'.pc = "writing" /\ worker'.view = v /\ worker'.next = i + 1
    <3>1. PICK n \in 1 .. 5 : n = i + 1
      BY <1>1
    <3>2. worker' = [worker EXCEPT !.view = v, !.next = n]
      BY <2>3, <3>1
    <3>3. worker \in ContainerRecord
      BY ValidationFacts
    <3> HIDE DEF i
    <3> QED
      BY <1>1, <2>6, <3>1, <3>2, <3>3 DEF ContainerRecord
  <2>13. WorkerStands'
    BY <1>1, <1>5, <2>6, <2>8, <2>12, ValidationFacts, SameWorld DEF WorkerStands
  <2> QED
    BY <1>1, <1>5, <2>11, <2>12, <2>13, ValidationFacts, ContainerStep
<1> QED
  BY <1>3, <1>4, <1>5 DEF WriteReportMember, ReportId, Nth

LEMMA CheckReportInv == ValidationInv /\ CheckReport => ValidationInv'
<1> SUFFICES ASSUME ValidationInv, CheckReport PROVE ValidationInv'
  OBVIOUS
<1>1. worker.pc = "writing" /\ main.pc # "done"
  BY ValidationFacts DEF CheckReport
<1>2. CASE Fails
  BY <1>1, <1>2, FailsInv
<1>3. CASE /\ IsWhole(worker.view.reports[run], run)
           /\ worker' = [worker EXCEPT !.pc = "committing"]
           /\ UNCHANGED <<digest, run, main, committed, published>>
  <2>1. worker' \in ContainerRecord /\ worker'.pc = "committing" /\ worker'.view = worker.view
        /\ worker'.next = worker.next
    BY <1>3, ValidationFacts DEF ContainerRecord, Busy
  <2>2. WorkerStands'
    BY <1>1, <1>3, <2>1, ValidationFacts, SameWorld DEF WorkerStands, IsWhole
  <2> QED
    BY <1>1, <1>3, <2>1, <2>2, ValidationFacts, ContainerStep
<1> QED
  BY <1>2, <1>3 DEF CheckReport, Directory, ReportId

LEMMA CommitReportInv == ValidationInv /\ CommitReport => ValidationInv'
<1> SUFFICES ASSUME ValidationInv, CommitReport PROVE ValidationInv'
  OBVIOUS
<1>1. /\ worker.pc = "committing" /\ main.pc # "done" /\ committed' = worker.view
      /\ worker' = [worker EXCEPT !.pc = "answered"] /\ UNCHANGED <<digest, run, main, published>>
  BY ValidationFacts DEF CommitReport, Commits
<1>2. worker' \in ContainerRecord /\ worker'.pc = "answered" /\ worker'.view = worker.view
      /\ worker'.next = worker.next
  BY <1>1, ValidationFacts DEF ContainerRecord, Busy
<1>3. WorkerStands'
  BY <1>1, <1>2, ValidationFacts, SameWorld DEF WorkerStands, IsWhole
<1> QED
  BY <1>1, <1>2, <1>3, ValidationFacts, ContainerStep

LEMMA AnswerInv == ValidationInv /\ Answer => ValidationInv'
<1> SUFFICES ASSUME ValidationInv, Answer PROVE ValidationInv'
  OBVIOUS
<1>1. /\ worker.pc = "answered" /\ worker' = [worker EXCEPT !.pc = "none"]
      /\ main' = [main EXCEPT !.pc = "done", !.receipt = run, !.status = published[run].status]
      /\ UNCHANGED <<digest, run, committed, published>> /\ run \in 1 .. MaxRuns
  BY ValidationFacts DEF Answer, ReportId
<1>2. worker' \in ContainerRecord /\ worker'.pc = "none" /\ worker'.view = worker.view
  BY <1>1, ValidationFacts DEF ContainerRecord
<1>3. published[run].status \in {"none", "green", "red"}
  BY <1>1, ValidationFacts DEF PublishedOk
<1>4. /\ main' \in MainRecord /\ main'.pc = "done" /\ main'.request = main.request
      /\ main'.receipt = run /\ main'.status = published[run].status
  BY <1>1, <1>3, ValidationFacts DEF MainRecord
<1>5. /\ Assembles /\ Sound /\ MatchesBuild(main.request) /\ Reported
      /\ IsWhole(committed.reports[run], run) /\ main.request = Assembled
  BY <1>1, ValidationFacts DEF WorkerStands, RunOk
<1>6. RunOk'
  BY <1>1, <1>2, <1>4, <1>5, SameWorld DEF RunOk, IsWhole
<1>7. WorkerStands'
  BY <1>2 DEF WorkerStands
<1>8. VolumeOk(committed)' /\ VolumeOk(worker.view)'
  BY <1>1, <1>2, ValidationFacts DEF VolumeOk
<1> QED
  BY <1>1, <1>2, <1>4, <1>6, <1>7, <1>8, ValidationFacts, SameReports DEF ValidationInv

LEMMA NextValidationInv == ValidationInv /\ [ValidationNext]_validationVars => ValidationInv'
<1> SUFFICES ASSUME ValidationInv, [ValidationNext]_validationVars PROVE ValidationInv'
  OBVIOUS
<1>1. CASE UNCHANGED validationVars
  <2>1. UNCHANGED <<digest, run, main, worker, committed, published>>
    BY <1>1 DEF validationVars
  <2>2. RunOk' /\ WorkerStands'
    BY <2>1, ValidationFacts, SameWorld DEF RunOk, WorkerStands, IsWhole
  <2>3. VolumeOk(committed)' /\ VolumeOk(worker.view)'
    BY <2>1, ValidationFacts DEF VolumeOk
  <2> QED
    BY <2>1, <2>2, <2>3, ValidationFacts, SameReports DEF ValidationInv
<1>2. CASE StartStaging \/ StartValidation
  BY <1>2, StartInv DEF StartStaging, StartValidation
<1> QED
  BY <1>1, <1>2, AssembleInv, StageRequestInv, CommitRequestInv, OpenParentsInv, EvaluateInv,
     WriteReportMemberInv, CheckReportInv, CommitReportInv, AnswerInv, StopRunInv
     DEF ValidationNext

\* The invariant is what the reports, the receipts and the manifests promise.
LEMMA ReportsHold ==
    ValidationInv => ValidationTypeOK /\ GreenIsEarned /\ ReceiptsAreBacked /\ ManifestComesLast
<1> SUFFICES ASSUME ValidationInv
             PROVE  ValidationTypeOK /\ GreenIsEarned /\ ReceiptsAreBacked /\ ManifestComesLast
  OBVIOUS
<1>1. ValidationTypeOK
  BY ValidationFacts, MemberNames DEF ValidationTypeOK, MainRecord, ContainerRecord, Busy,
     VolumeOk, PublishedOk
<1>2. GreenIsEarned
  BY ValidationFacts, GreenMeansEarned, ValidationAssumption DEF PublishedOk, GreenIsEarned
<1>3. ManifestComesLast
  <2> SUFFICES ASSUME NEW r \in 1 .. MaxRuns, NEW v \in {committed, worker.view},
                      v.reports[r]["plots.json"] # 0
               PROVE  IsWhole(v.reports[r], v.reports[r]["plots.json"])
    BY DEF ManifestComesLast
  <2>1. VolumeOk(v)
    BY ValidationFacts
  <2>2. IsWhole(v.reports[r], r)
    BY <2>1 DEF VolumeOk
  <2>3. v.reports[r]["plots.json"] = r
    BY <2>2, MemberNames DEF IsWhole
  <2> QED
    BY <2>2, <2>3
<1>4. ReceiptsAreBacked
  <2> SUFFICES ASSUME main.pc = "done" PROVE ReceiptsAreBacked
    BY DEF ReceiptsAreBacked
  <2>1. /\ Assembles /\ Sound /\ MatchesBuild(main.request) /\ Reported /\ run \in 1 .. MaxRuns
        /\ IsWhole(committed.reports[run], run) /\ main.request = Assembled
        /\ main.receipt = run /\ main.status = published[run].status
    BY ValidationFacts DEF RunOk
  <2>2. main.status = Overall(published[run].gates) /\ published[run].request = main.request
    BY <2>1, ValidationFacts DEF PublishedOk, Reported
  <2>3. /\ main.request.lock = digest["checkout.lock"]
        /\ main.request.baselines = digest["config.baselines"]
    BY <2>1 DEF Assembled
  <2>4. \A f \in {"config.dataset", "config.models", "config.baselines", "bundle.dataset",
                  "bundle.source", "bundle.statistics", "bundle.experiment", "bundle.seed",
                  "dataset.baselines", "dataset.solver", "rows"} : digest[f] = 1
    BY <2>1, <2>3 DEF Assembles, Sound, Reported, Holds
  <2>5. \A f, g \in {"index.lock", "checkout.lock", "build.lock", "bundle.lock"} : Same(f, g)
    BY <2>1, <2>3 DEF Assembles, Sound, MatchesBuild, Same
  <2> QED
    BY <2>1, <2>2, <2>4, <2>5 DEF ReceiptsAreBacked
<1> QED
  BY <1>1, <1>2, <1>3, <1>4

-----------------------------------------------------------------------------
(* The parts side by side: a behaviour of the whole is one of each part, so that what is   *)
(* proved of a part holds in the whole.                                                    *)

LEMMA PartsStep ==
    ASSUME [MCNext]_mcVars
    PROVE  /\ [Next]_vars /\ [ValidationNext]_validationVars
           /\ [EventNext]_eventVars /\ [CylinderNext]_cylinderVars
<1> DEFINE still == /\ UNCHANGED vars /\ UNCHANGED validationVars
                    /\ UNCHANGED eventVars /\ UNCHANGED cylinderVars
<1>1. CASE UNCHANGED mcVars
  <2>1. still
    BY <1>1 DEF mcVars, checked
  <2> QED
    BY <2>1
<1>2. CASE PickGraph \/ PickBinding \/ PickEnvelope \/ PickBytes \/ PickJson \/ PickTensors
           \/ PickArchive \/ PickRequest \/ PickDocument
  <2>1. UNCHANGED checked
    BY ONLY <1>2 DEF PickGraph, PickBinding, PickEnvelope, PickBytes, PickJson, PickTensors,
       PickArchive, PickRequest, PickDocument, Pick
  <2>2. still
    BY <2>1 DEF checked
  <2> QED
    BY <2>2
<1> HIDE DEF still
<1>3. CASE which = "store" /\ Next /\ UNCHANGED <<validationVars, eventVars, cylinderVars>>
  BY <1>3
<1>4. CASE which = "report" /\ ValidationNext /\ UNCHANGED <<vars, eventVars, cylinderVars>>
  BY <1>4
<1>5. CASE which = "log" /\ EventNext /\ UNCHANGED <<vars, validationVars, cylinderVars>>
  BY <1>5
<1>6. CASE which = "cylinder" /\ CylinderNext /\ UNCHANGED <<vars, validationVars, eventVars>>
  BY <1>6
<1> QED
  BY <1>1, <1>2, <1>3, <1>4, <1>5, <1>6 DEF MCNext

EvidenceInv == StoreInv /\ ValidationInv /\ EventInv /\ CylinderInv

\* The invariants of the parts hold together in every state of the whole.
THEOREM EvidenceInvariance == MCSpec => []EvidenceInv
<1>1. MCInit => EvidenceInv
  BY InitStoreInv, InitValidationInv, InitEventInv, InitCylinderInv DEF MCInit, EvidenceInv
<1>2. EvidenceInv /\ [MCNext]_mcVars => EvidenceInv'
  BY PartsStep, NextStoreInv, NextValidationInv, NextEventInv, NextCylinderInv DEF EvidenceInv
<1> QED
  BY <1>1, <1>2, PTL DEF MCSpec

\* TypesOK: the state of the stores, of the validation, of the events and of the acceptance
\* keeps its type.
THEOREM EvidenceTypeCorrect == MCSpec => []TypesOK
<1>1. EvidenceInv => TypesOK
  BY StoreTypes, ReportsHold, EventsAreTold, AcceptanceHolds DEF EvidenceInv, TypesOK
<1> QED
  BY <1>1, EvidenceInvariance, PTL

\* ReportsAreEarned: a report is green exactly when every measurement is there and on the
\* right side of its threshold (evaluate_required_gates, overall_gate_status), a receipt of
\* the command is backed by a whole committed report of the request's parents, and the plot
\* manifest is the last file of a report to appear.  A report of the acceptance is green
\* exactly when two operations were solved and agree, in range and healthy; it is the same in
\* every invocation, and an operation that lost its only token leaves none.
THEOREM EarnedReports == MCSpec => []ReportsAreEarned
<1>1. EvidenceInv => ReportsAreEarned
  BY ReportsHold, AcceptanceHolds DEF EvidenceInv, ReportsAreEarned
<1> QED
  BY <1>1, EvidenceInvariance, PTL

\* EventsAreHonest: one start, the events of the body, and one end with its outcome when its
\* caller saw that outcome, none when it was cancelled or interrupted; the recorder's own
\* failure is seen only for want of room or for a string that redaction made too long; and
\* the segments of an operation fit its wall time, however operations interleave in the sink.
THEOREM HonestEvents == MCSpec => []EventsAreHonest
<1>1. EvidenceInv => EventsAreHonest
  BY EventsAreTold DEF EvidenceInv, EventsAreHonest
<1> QED
  BY <1>1, EvidenceInvariance, PTL

\* ImplementsStore, in the whole: whatever else goes on, the stores bind whole contents to
\* names in one step and never replace one.
THEOREM EvidenceImplementsStore == MCSpec => ImplementsStore
<1>1. MCInit => Init
  BY DEF MCInit
<1>2. [MCNext]_mcVars => [Next]_vars
  BY PartsStep
<1>3. MCSpec => Spec
  BY <1>1, <1>2, PTL DEF MCSpec, Spec
<1> QED
  BY <1>3, StoreRefinement

-----------------------------------------------------------------------------
(* Readers and identities, one look at a time.                            *)

\* What safe_read_bytes returns, whatever the file, the limit and the digest.
THEOREM ReadsAreWhole ==
    ASSUME NEW S, NEW sized \in Seq(S), NEW read \in Seq(S), NEW limit \in Nat, NEW expected
    PROVE  ReadIsWhole(sized, read, limit, expected)
<1> DEFINE size == Min({limit + 1, Len(read)})
           bytes == SubSeq(read, 1, size)
<1>1. size \in Nat /\ size <= limit + 1 /\ size <= Len(read) /\ size \in {limit + 1, Len(read)}
  <2>1. \E m \in {limit + 1, Len(read)} : \A y \in {limit + 1, Len(read)} : m =< y
    OBVIOUS
  <2> QED
    BY <2>1 DEF Min
<1>2. Len(bytes) = size
  BY <1>1
<1>3. size <= limit => bytes = read
  BY <1>1
<1>4. ReadBytes(sized, read, limit, expected) =
        IF Len(sized) <= limit /\ Len(bytes) <= limit /\ Len(bytes) = Len(sized)
           /\ expected \subseteq {bytes}
        THEN bytes ELSE Unreadable
  BY DEF ReadBytes
<1> HIDE DEF bytes
<1> QED
  BY <1>1, <1>2, <1>3, <1>4 DEF ReadIsWhole

\* An envelope before its digest is filled in.
Drafts(T, M, P, C) ==
    [type : T, metadata : M, members : M, uri : C, created : C, sha256 : {0},
     provenance : [parents : P, started : C, completed : C]]

\* A provenance without its two times.
Timeless(p) == [parents |-> p.parents, started |-> 0, completed |-> 0]

LEMMA ClocksAway ==
    ASSUME NEW P, NEW C, NEW p \in [parents : P, started : C, completed : C]
    PROVE  [p EXCEPT !.started = 0, !.completed = 0] = Timeless(p)
<1> DEFINE q == [p EXCEPT !.started = 0]
<1>1. q \in [parents : P, started : {0}, completed : C] /\ q.parents = p.parents
  OBVIOUS
<1>2. [p EXCEPT !.started = 0, !.completed = 0] = [q EXCEPT !.completed = 0]
  OBVIOUS
<1> HIDE DEF q
<1>3. [q EXCEPT !.completed = 0] = [parents |-> q.parents, started |-> q.started, completed |-> 0]
  BY <1>1
<1> QED
  BY <1>1, <1>2, <1>3 DEF Timeless

\* The digest leaves out the place and the clocks, and nothing else, of any two envelopes.
THEOREM IdentitiesAreLogical ==
    ASSUME NEW T, NEW M, NEW P, NEW C, NEW e \in Drafts(T, M, P, C), NEW f \in Drafts(T, M, P, C),
           NEW types, NEW forbidden
    PROVE  IdentityIsLogical(e, f, types, forbidden)
<1> DEFINE Apart(x) == [x EXCEPT !.uri = 0, !.created = 0,
                                 !.provenance.started = 0, !.provenance.completed = 0]
           Sealed(x) == [x EXCEPT !.sha256 = ContentDigest(x)]
<1>1. ASSUME NEW x \in Drafts(T, M, P, C)
      PROVE  /\ Sealed(x).type = x.type /\ Sealed(x).sha256 = ContentDigest(x)
             /\ Sealed(x).provenance = x.provenance
             /\ Apart(x) = [type |-> x.type, metadata |-> x.metadata, members |-> x.members,
                            uri |-> 0, created |-> 0, sha256 |-> 0,
                            provenance |-> Timeless(x.provenance)]
             /\ ContentDigest(x) = <<x.type, x.metadata, x.members, Timeless(x.provenance)>>
  <2> DEFINE p == x.provenance
  <2>1. p \in [parents : P, started : C, completed : C]
    BY DEF Drafts
  <2>2. [p EXCEPT !.started = 0, !.completed = 0] = Timeless(p)
    BY <2>1, ClocksAway
  <2>3. ContentDigest(x) = <<x.type, x.metadata, x.members, Timeless(p)>>
    BY <2>2 DEF ContentDigest
  <2>4. Sealed(x).type = x.type /\ Sealed(x).sha256 = ContentDigest(x) /\ Sealed(x).provenance = p
    BY DEF Drafts
  <2> DEFINE a == [x EXCEPT !.uri = 0]
             b == [a EXCEPT !.created = 0]
             c == [b EXCEPT !.provenance = [@ EXCEPT !.started = 0]]
             d == [c EXCEPT !.provenance = [@ EXCEPT !.completed = 0]]
  <2>5. Apart(x) = d
    OBVIOUS
  <2>6. /\ a \in [type : T, metadata : M, members : M, uri : {0}, created : C, sha256 : {0},
                  provenance : [parents : P, started : C, completed : C]]
        /\ a.type = x.type /\ a.metadata = x.metadata /\ a.members = x.members /\ a.provenance = p
    BY DEF Drafts
  <2> HIDE DEF a
  <2>7. /\ b \in [type : T, metadata : M, members : M, uri : {0}, created : {0}, sha256 : {0},
                  provenance : [parents : P, started : C, completed : C]]
        /\ b.type = x.type /\ b.metadata = x.metadata /\ b.members = x.members /\ b.provenance = p
    BY <2>6
  <2> HIDE DEF b
  <2>8. /\ DOMAIN d = {"type", "metadata", "members", "uri", "created", "sha256", "provenance"}
        /\ d.type = x.type /\ d.metadata = x.metadata /\ d.members = x.members
        /\ d.uri = 0 /\ d.created = 0 /\ d.sha256 = 0
        /\ d.provenance = [[p EXCEPT !.started = 0] EXCEPT !.completed = 0]
        /\ d = [k \in DOMAIN d |-> d[k]]
    BY <2>7
  <2>9. d.provenance = Timeless(p)
    BY <2>2, <2>8
  <2> HIDE DEF d, p
  <2>10. d = [type |-> x.type, metadata |-> x.metadata, members |-> x.members, uri |-> 0,
              created |-> 0, sha256 |-> 0, provenance |-> Timeless(p)]
    BY <2>8, <2>9
  <2> QED
    BY <2>3, <2>4, <2>5, <2>10 DEF p
<1>2. Sealed(e).sha256 = ContentDigest(e) /\ Sealed(f).sha256 = ContentDigest(f)
  BY <1>1
<1>3. Timeless(e.provenance) = Timeless(f.provenance) <=> e.provenance.parents = f.provenance.parents
  <2>1. \A p, q : Timeless(p) = Timeless(q) => Timeless(p).parents = Timeless(q).parents
    OBVIOUS
  <2>2. \A p : Timeless(p).parents = p.parents
    BY DEF Timeless
  <2> QED
    BY <2>1, <2>2 DEF Timeless
<1> HIDE DEF Apart, Sealed
<1>4. Apart(e) = Apart(f) <=>
        /\ e.type = f.type /\ e.metadata = f.metadata /\ e.members = f.members
        /\ Timeless(e.provenance) = Timeless(f.provenance)
  <2>1. Apart(e) = Apart(f) =>
            /\ Apart(e).type = Apart(f).type /\ Apart(e).metadata = Apart(f).metadata
            /\ Apart(e).members = Apart(f).members /\ Apart(e).provenance = Apart(f).provenance
    OBVIOUS
  <2> QED
    BY <1>1, <2>1
<1>5. ContentDigest(e) = ContentDigest(f) <=>
        /\ e.type = f.type /\ e.metadata = f.metadata /\ e.members = f.members
        /\ Timeless(e.provenance) = Timeless(f.provenance)
  BY <1>1
<1>6. ContentDigest(e) = ContentDigest(f) =>
        EnvelopeNode(Sealed(e), types) = EnvelopeNode(Sealed(f), types)
  BY <1>1, <1>3, <1>5 DEF EnvelopeNode
<1>7. ContentDigest(e) = ContentDigest(f) <=> Apart(e) = Apart(f)
  BY <1>4, <1>5
<1> QED
  BY <1>2, <1>6, <1>7 DEF IdentityIsLogical, Apart, Sealed

-----------------------------------------------------------------------------
(* Requests, and their documents.                                          *)

\* A request of a sweep before its digest is filled in.
SweepDrafts(D, V) ==
    [design : D, samples : V, config : V, device : V, source : V, lock : V, forced : BOOLEAN,
     digest : {0}]

\* A sweep's digest covers all of a request but its forced failure, and a solve's digest
\* tells two solves of one point apart exactly when their sweeps differ.
THEOREM RequestsAreSeparate ==
    ASSUME NEW D, NEW V, NEW q1 \in SweepDrafts(D, V), NEW q2 \in SweepDrafts(D, V),
           NEW point, NEW attempt
    PROVE  IdentitiesSeparate(q1, q2, point, attempt)
<1> DEFINE Filled(q) == [q EXCEPT !.digest = SweepDigest(q)]
           Calm(q) == [q EXCEPT !.forced = FALSE]
           a == Filled(q1)
           b == Filled(q2)
           first == SolveRequest(a, point, 1, a.forced)
           again == SolveRequest(b, point, attempt, FALSE)
<1>1. ASSUME NEW q \in SweepDrafts(D, V)
      PROVE  /\ Filled(q) = [design |-> q.design, samples |-> q.samples, config |-> q.config,
                               device |-> q.device, source |-> q.source, lock |-> q.lock,
                               forced |-> q.forced, digest |-> SweepDigest(q)]
             /\ Calm(Filled(q)) =
                   [design |-> q.design, samples |-> q.samples, config |-> q.config,
                    device |-> q.device, source |-> q.source, lock |-> q.lock,
                    forced |-> FALSE, digest |-> SweepDigest(q)]
             /\ Filled(q) \in [design : D, samples : V, config : V, device : V, source : V,
                                 lock : V, forced : BOOLEAN, digest : {SweepDigest(q)}]
             /\ SweepDigest(Filled(q)) = SweepDigest(q)
             /\ SweepRequestIsCoherent(Filled(q)) =>
                   q.samples = (IF q.design = "smoke" THEN 8 ELSE 1000)
                   /\ (q.forced => q.design = "smoke")
  <2> DEFINE r == Filled(q)
             s == Calm(r)
  <2>1. /\ DOMAIN r = {"design", "samples", "config", "device", "source", "lock", "forced",
                       "digest"}
        /\ r.design = q.design /\ r.samples = q.samples /\ r.config = q.config
        /\ r.device = q.device /\ r.source = q.source /\ r.lock = q.lock
        /\ r.forced = q.forced /\ r.digest = SweepDigest(q)
        /\ r = [k \in DOMAIN r |-> r[k]]
        /\ r \in [design : D, samples : V, config : V, device : V, source : V, lock : V,
                  forced : BOOLEAN, digest : {SweepDigest(q)}]
    BY DEF SweepDrafts
  <2> HIDE DEF r
  <2>2. /\ DOMAIN s = {"design", "samples", "config", "device", "source", "lock", "forced",
                       "digest"}
        /\ s.design = q.design /\ s.samples = q.samples /\ s.config = q.config
        /\ s.device = q.device /\ s.source = q.source /\ s.lock = q.lock
        /\ s.forced = FALSE /\ s.digest = SweepDigest(q)
        /\ s = [k \in DOMAIN s |-> s[k]]
    BY <2>1
  <2> HIDE DEF s
  <2>3. r = [design |-> q.design, samples |-> q.samples, config |-> q.config,
             device |-> q.device, source |-> q.source, lock |-> q.lock,
             forced |-> q.forced, digest |-> SweepDigest(q)]
    BY <2>1
  <2>4. s = [design |-> q.design, samples |-> q.samples, config |-> q.config,
             device |-> q.device, source |-> q.source, lock |-> q.lock,
             forced |-> FALSE, digest |-> SweepDigest(q)]
    BY <2>2
  <2>5. SweepDigest(r) = SweepDigest(q)
    BY <2>1 DEF SweepDigest
  <2>6. SweepRequestIsCoherent(r) =>
          q.samples = (IF q.design = "smoke" THEN 8 ELSE 1000) /\ (q.forced => q.design = "smoke")
    BY <2>1 DEF SweepRequestIsCoherent
  <2> QED
    BY <2>1, <2>3, <2>4, <2>5, <2>6 DEF r, s
<1> HIDE DEF Filled, Calm
<1>2. ASSUME NEW q, NEW at, NEW forced
      PROVE  /\ SolveRequest(q, point, at, forced) =
                   [kind |-> q.design, sweep |-> q.digest, point |-> point, device |-> q.device,
                    source |-> q.source, lock |-> q.lock, attempt |-> <<at, point>>,
                    forced |-> forced,
                    digest |-> <<q.design, q.digest, point, q.device, q.source, q.lock>>]
  BY DEF SolveRequest, SolveDigest
<1>3. SweepDigest(q1) = SweepDigest(q2) <=>
        q1.design = q2.design /\ q1.config = q2.config /\ q1.device = q2.device
        /\ q1.source = q2.source /\ q1.lock = q2.lock
  BY DEF SweepDigest
<1>4. /\ a.design = q1.design /\ a.digest = SweepDigest(q1) /\ a.device = q1.device
      /\ a.source = q1.source /\ a.lock = q1.lock /\ a.forced = q1.forced
      /\ b.design = q2.design /\ b.digest = SweepDigest(q2) /\ b.device = q2.device
      /\ b.source = q2.source /\ b.lock = q2.lock /\ b.forced = q2.forced
  BY <1>1
<1>5. Calm(a) = Calm(b) =>
         Calm(a).digest = Calm(b).digest /\ Calm(a).samples = Calm(b).samples
  OBVIOUS
<1>6. Calm(a).digest = SweepDigest(q1) /\ Calm(b).digest = SweepDigest(q2)
  BY <1>1
<1>7. /\ Calm(a) = [design |-> q1.design, samples |-> q1.samples, config |-> q1.config,
                    device |-> q1.device, source |-> q1.source, lock |-> q1.lock,
                    forced |-> FALSE, digest |-> SweepDigest(q1)]
      /\ Calm(b) = [design |-> q2.design, samples |-> q2.samples, config |-> q2.config,
                    device |-> q2.device, source |-> q2.source, lock |-> q2.lock,
                    forced |-> FALSE, digest |-> SweepDigest(q2)]
      /\ SweepRequestIsCoherent(a) => q1.samples = (IF q1.design = "smoke" THEN 8 ELSE 1000)
                                      /\ (q1.forced => q1.design = "smoke")
      /\ SweepRequestIsCoherent(b) => q2.samples = (IF q2.design = "smoke" THEN 8 ELSE 1000)
  BY <1>1
<1>8. /\ first = [kind |-> q1.design, sweep |-> SweepDigest(q1), point |-> point,
                  device |-> q1.device, source |-> q1.source, lock |-> q1.lock,
                  attempt |-> <<1, point>>, forced |-> q1.forced,
                  digest |-> <<q1.design, SweepDigest(q1), point, q1.device, q1.source, q1.lock>>]
      /\ again = [kind |-> q2.design, sweep |-> SweepDigest(q2), point |-> point,
                  device |-> q2.device, source |-> q2.source, lock |-> q2.lock,
                  attempt |-> <<attempt, point>>, forced |-> FALSE,
                  digest |-> <<q2.design, SweepDigest(q2), point, q2.device, q2.source, q2.lock>>]
  BY <1>2, <1>4
<1> HIDE DEF first, again, a, b
<1> SUFFICES ASSUME SweepRequestIsCoherent(a), SweepRequestIsCoherent(b)
             PROVE  /\ a.digest = b.digest <=> Calm(a) = Calm(b)
                    /\ SolveRequestIsCoherent(first) /\ SolveRequestIsCoherent(again)
                    /\ a.digest = b.digest <=> first.digest = again.digest
                    /\ first.attempt = again.attempt <=> attempt = 1
                    /\ a.digest = b.digest =>
                         \A source, lock \in 1 .. 2 :
                            SolveMatchesBuild(first, source, lock)
                               <=> SolveMatchesBuild(again, source, lock)
  BY DEF IdentitiesSeparate, first, again, a, b, Calm, Filled
<1>9. a.digest = b.digest <=> Calm(a) = Calm(b)
  <2>1. Calm(a) = Calm(b) => a.digest = b.digest
    BY <1>4, <1>5, <1>6
  <2>2. ASSUME a.digest = b.digest PROVE Calm(a) = Calm(b)
    <3>1. /\ q1.design = q2.design /\ q1.config = q2.config /\ q1.device = q2.device
          /\ q1.source = q2.source /\ q1.lock = q2.lock /\ SweepDigest(q1) = SweepDigest(q2)
      BY <1>3, <1>4, <2>2
    <3>2. q1.samples = q2.samples
      BY <1>7, <3>1
    <3>3. Calm(a) = [design |-> q1.design, samples |-> q1.samples, config |-> q1.config,
                     device |-> q1.device, source |-> q1.source, lock |-> q1.lock,
                     forced |-> FALSE, digest |-> SweepDigest(q1)]
      BY <1>7, Zenon
    <3>4. Calm(b) = [design |-> q2.design, samples |-> q2.samples, config |-> q2.config,
                     device |-> q2.device, source |-> q2.source, lock |-> q2.lock,
                     forced |-> FALSE, digest |-> SweepDigest(q2)]
      BY <1>7, Zenon
    <3> QED
      BY <3>1, <3>2, <3>3, <3>4, Zenon
  <2> QED
    BY <2>1, <2>2
<1>10. SolveRequestIsCoherent(first) /\ SolveRequestIsCoherent(again)
  BY <1>7, <1>8 DEF SolveRequestIsCoherent, SolveDigest
<1>11. a.digest = b.digest <=> first.digest = again.digest
  BY <1>3, <1>4, <1>8
<1>12. first.attempt = again.attempt <=> attempt = 1
  BY <1>8
<1>13. a.digest = b.digest => first.source = again.source /\ first.lock = again.lock
  BY <1>3, <1>4, <1>8
<1> QED
  BY <1>9, <1>10, <1>11, <1>12, <1>13 DEF SolveMatchesBuild

\* A document answered for is the one loaded, whatever else is on the volume or published.
THEOREM DocumentsKept ==
    ASSUME NEW first, NEW second, NEW held, NEW limit \in Nat,
           first.value # NotAccepted, second.value # NotAccepted,
           first.form = "canonical" /\ second.form = "canonical" /\ first.value = second.value
              => first = second
    PROVE  DocumentsAreKept(first, second, held, limit)
<1> DEFINE one == PublishRequest(held, first, limit)
           two == PublishRequest(one.volume, second, limit)
<1>1. ASSUME NEW volume, NEW d, d.value # NotAccepted
      PROVE  LET p == PublishRequest(volume, d, limit)
             IN /\ \A r \in DOMAIN volume : r \in DOMAIN p.volume /\ p.volume[r] = volume[r]
                /\ p.answer # NotAccepted =>
                      /\ p.answer = d /\ d \in DOMAIN p.volume /\ p.volume[d] = d
                      /\ ParseModel(d, limit) = d.value /\ d.form = "canonical"
  BY <1>1 DEF PublishRequest, RequestReference, ParseModel
<1>2. /\ \A r \in DOMAIN held : r \in DOMAIN one.volume /\ one.volume[r] = held[r]
      /\ one.answer # NotAccepted =>
            /\ one.answer = first /\ first \in DOMAIN one.volume /\ one.volume[first] = first
            /\ ParseModel(first, limit) = first.value /\ first.form = "canonical"
  BY <1>1
<1>3. /\ \A r \in DOMAIN one.volume : r \in DOMAIN two.volume /\ two.volume[r] = one.volume[r]
      /\ two.answer # NotAccepted =>
            /\ two.answer = second /\ second \in DOMAIN two.volume /\ two.volume[second] = second
            /\ ParseModel(second, limit) = second.value /\ second.form = "canonical"
  BY <1>1
<1> HIDE DEF one, two
<1>4. one.answer # NotAccepted => LoadRequest(two.volume, one.answer, limit) = first.value
  BY <1>2, <1>3 DEF LoadRequest
<1>5. one.answer # NotAccepted /\ two.answer # NotAccepted =>
         (LoadRequest(two.volume, two.answer, limit) = first.value <=> two.answer = one.answer)
  BY <1>2, <1>3 DEF LoadRequest
<1> QED
  BY <1>2, <1>3, <1>4, <1>5 DEF DocumentsAreKept, one, two

-----------------------------------------------------------------------------
(* Induction over positions, and what a fold over a sequence is.           *)

Smaller == {p \in Nat \X Nat : p[1] < p[2]}

\* A set of numbers that is not empty has a least one.
LEMMA Least ==
    ASSUME NEW S \in SUBSET Nat, S # {}
    PROVE  \E m \in S : \A n \in S : m <= n
<1>1. IsWellFoundedOn(Smaller, Nat)
  BY NatLessThanWellFounded DEF OpToRel, Smaller
<1>2. PICK m \in S : \A n \in S : <<n, m>> \notin Smaller
  BY <1>1, WFMin
<1>3. ASSUME NEW n \in S PROVE m <= n
  <2>1. <<n, m>> \in Nat \X Nat /\ <<n, m>>[1] = n /\ <<n, m>>[2] = m
    OBVIOUS
  <2> QED
    BY <1>2, <2>1 DEF Smaller
<1> QED
  BY <1>3

LEMMA MaxFacts ==
    ASSUME NEW n \in Nat, NEW s \in SUBSET (1 .. n), s # {}
    PROVE  /\ Max(s) \in s /\ \A y \in s : y <= Max(s)
           /\ s \ {Max(s)} \in SUBSET (1 .. n) /\ IsFiniteSet(s)
           /\ Cardinality(s) \in Nat \ {0}
           /\ Cardinality(s \ {Max(s)}) = Cardinality(s) - 1
<1>1. \E m \in s : \A y \in s : m >= y
  <2> DEFINE B == {n - x : x \in s}
  <2>1. B \in SUBSET Nat
    <3> SUFFICES ASSUME NEW x \in s PROVE n - x \in Nat
      OBVIOUS
    <3> QED
      OBVIOUS
  <2>2. B # {}
    OBVIOUS
  <2>3. PICK b \in B : \A c \in B : b <= c
    <3> HIDE DEF B
    <3> QED
      BY <2>1, <2>2, Least
  <2>4. PICK m \in s : b = n - m
    OBVIOUS
  <2>5. ASSUME NEW y \in s PROVE m >= y
    <3>1. n - m <= n - y
      BY <2>3, <2>4
    <3> QED
      BY <3>1
  <2> QED
    BY <2>5
<1>2. Max(s) \in s /\ \A y \in s : Max(s) >= y
  BY <1>1 DEF Max
<1>3. IsFiniteSet(s)
  <2>1. IsFiniteSet(1 .. n)
    BY FS_Interval
  <2> QED
    BY <2>1, FS_Subset
<1>4. Cardinality(s \ {Max(s)}) = Cardinality(s) - 1 /\ Cardinality(s) \in Nat /\ Cardinality(s) # 0
  BY <1>2, <1>3, FS_RemoveElement, FS_CardinalityType, FS_EmptySet
<1> QED
  BY <1>2, <1>3, <1>4

\* One step of a fold over the positions in s, the last one being folded in last.
FoldStep(step, base, g, s) ==
    IF s = {} THEN base ELSE step[<<g[s \ {Max(s)}], Max(s)>>]

IsFold(n, S, base, step, g) ==
    /\ g \in [SUBSET (1 .. n) -> S]
    /\ \A s \in SUBSET (1 .. n) : g[s] = FoldStep(step, base, g, s)

LEMMA FoldsExist ==
    ASSUME NEW n \in Nat, NEW S, NEW base \in S, NEW step, step \in [S \X (1 .. n) -> S]
    PROVE  \E g : IsFold(n, S, base, step, g)
<1> DEFINE P == SUBSET (1 .. n)
           Upto(k, g) == \A s \in P : Cardinality(s) <= k => g[s] = FoldStep(step, base, g, s)
           Reached(k) == \E g \in [P -> S] : Upto(k, g)
           Missed == {k \in Nat : ~Reached(k)}
<1>1. ASSUME NEW g \in [P -> S], NEW s \in P PROVE FoldStep(step, base, g, s) \in S
  <2>1. CASE s # {}
    <3>1. g[s \ {Max(s)}] \in S /\ Max(s) \in 1 .. n
      BY <2>1, MaxFacts
    <3> QED
      BY <2>1, <3>1 DEF FoldStep
  <2> QED
    BY <2>1 DEF FoldStep
<1>2. Reached(0)
  <2> DEFINE g == [s \in P |-> base]
  <2>1. ASSUME NEW s \in P, Cardinality(s) <= 0 PROVE s = {}
    <3> SUFFICES ASSUME s # {} PROVE FALSE
      OBVIOUS
    <3>1. Cardinality(s) \in Nat \ {0}
      BY MaxFacts
    <3> QED
      BY <2>1, <3>1
  <2>2. ASSUME NEW s \in P, Cardinality(s) <= 0 PROVE g[s] = FoldStep(step, base, g, s)
    BY <2>1, <2>2 DEF FoldStep
  <2>3. g \in [P -> S]
    OBVIOUS
  <2> HIDE DEF g
  <2> QED
    BY <2>2, <2>3
<1>3. ASSUME NEW k \in Nat, Reached(k) PROVE Reached(k + 1)
  <2>1. PICK g \in [P -> S] : Upto(k, g)
    BY <1>3
  <2> DEFINE h == [s \in P |-> FoldStep(step, base, g, s)]
  <2>2. h \in [P -> S]
    BY <1>1
  <2>3. ASSUME NEW s \in P, Cardinality(s) <= k + 1 PROVE h[s] = FoldStep(step, base, h, s)
    <3>1. CASE s # {}
      <4> DEFINE r == s \ {Max(s)}
      <4>1. r \in P /\ Cardinality(r) <= k
        BY <2>3, <3>1, MaxFacts
      <4>2. h[r] = g[r]
        BY <2>1, <4>1
      <4> HIDE DEF r
      <4>3. h[s] = step[<<g[r], Max(s)>>] /\ FoldStep(step, base, h, s) = step[<<h[r], Max(s)>>]
        BY <3>1 DEF FoldStep, r
      <4> QED
        BY <4>2, <4>3
    <3> QED
      BY <3>1 DEF FoldStep
  <2> HIDE DEF h
  <2> QED
    BY <2>2, <2>3
<1> HIDE DEF Reached
<1>4. Missed = {}
  <2> SUFFICES ASSUME Missed # {} PROVE FALSE
    OBVIOUS
  <2>1. PICK m \in Missed : \A k \in Missed : m <= k
    BY Least
  <2>2. m # 0 /\ m - 1 \in Nat /\ m - 1 \notin Missed
    BY <1>2, <2>1
  <2> QED
    BY <1>3, <2>1, <2>2
<1>5. PICK g \in [P -> S] : Upto(n, g)
  BY <1>4 DEF Reached
<1>6. ASSUME NEW s \in P PROVE Cardinality(s) <= n
  <2>1. IsFiniteSet(1 .. n) /\ Cardinality(1 .. n) = (IF 1 > n THEN 0 ELSE n - 1 + 1)
    BY FS_Interval
  <2>2. Cardinality(s) <= Cardinality(1 .. n) /\ Cardinality(s) \in Nat
    BY <2>1, FS_Subset, FS_CardinalityType
  <2> QED
    BY <2>1, <2>2
<1> QED
  BY <1>5, <1>6 DEF IsFold

LEMMA PrefixFacts ==
    ASSUME NEW i \in Nat \ {0}
    PROVE  Max(1 .. i) = i /\ (1 .. i) \ {i} = 1 .. i - 1 /\ 1 .. i # {} /\ 1 .. 0 = {}
<1>1. i \in 1 .. i /\ 1 .. i # {} /\ (1 .. i) \ {i} = 1 .. i - 1 /\ 1 .. 0 = {}
  OBVIOUS
<1>2. Max(1 .. i) \in 1 .. i /\ \A y \in 1 .. i : y <= Max(1 .. i)
  <2> DEFINE s == 1 .. i
  <2>1. s \in SUBSET (1 .. i) /\ s # {}
    BY <1>1
  <2> HIDE DEF s
  <2>2. Max(s) \in s /\ \A y \in s : y <= Max(s)
    BY <2>1, MaxFacts
  <2> QED
    BY <2>2 DEF s
<1>3. Max(1 .. i) = i
  BY <1>1, <1>2
<1> QED
  BY <1>1, <1>3
\* What holds of the empty set, and of each set when it holds of the set without its last
\* position, holds of every set of positions; and the same of numbers up to a bound.
LEMMA SubsetsByLast ==
    ASSUME NEW n \in Nat, NEW Good, {} \in Good,
           \A s \in SUBSET (1 .. n) : s # {} /\ s \ {Max(s)} \in Good => s \in Good
    PROVE  SUBSET (1 .. n) \subseteq Good
<1> DEFINE Missed == {k \in Nat : \E s \in SUBSET (1 .. n) : s \notin Good /\ Cardinality(s) = k}
<1>1. ASSUME Missed # {} PROVE FALSE
  <2>1. PICK m \in Missed : \A k \in Missed : m <= k
    BY <1>1, Least
  <2>2. PICK s \in SUBSET (1 .. n) : s \notin Good /\ Cardinality(s) = m
    BY <2>1
  <2> DEFINE r == s \ {Max(s)}
  <2>3. s # {}
    BY <2>2
  <2>4. r \in SUBSET (1 .. n) /\ Cardinality(r) = m - 1 /\ m - 1 \in Nat
    BY <2>2, <2>3, MaxFacts
  <2>5. r \in Good
    BY <2>1, <2>4
  <2> QED
    BY <2>2, <2>3, <2>5
<1>2. ASSUME NEW s \in SUBSET (1 .. n) PROVE Cardinality(s) \in Nat
  <2>1. s # {} => Cardinality(s) \in Nat
    BY MaxFacts
  <2> QED
    BY <2>1, FS_EmptySet
<1> QED
  BY <1>1, <1>2

LEMMA NumbersUpTo ==
    ASSUME NEW n \in Nat, NEW Good, 0 \in Good, \A i \in 0 .. n - 1 : i \in Good => i + 1 \in Good
    PROVE  0 .. n \subseteq Good
<1> DEFINE Missed == {k \in 0 .. n : k \notin Good}
<1>1. ASSUME Missed # {} PROVE FALSE
  <2>1. PICK m \in Missed : \A k \in Missed : m <= k
    <3>1. Missed \in SUBSET Nat
      OBVIOUS
    <3> HIDE DEF Missed
    <3> QED
      BY <1>1, <3>1, Least
  <2>2. m # 0 /\ m - 1 \in 0 .. n - 1 /\ m - 1 \in Good
    BY <2>1
  <2> QED
    BY <2>1, <2>2
<1> QED
  BY <1>1

-----------------------------------------------------------------------------
(* Archives.                                                               *)

\* The two sums of the property, as functions of the positions that were added.
MemberSizes(members) ==
    LET sum[s \in SUBSET DOMAIN members] ==
        IF s = {} THEN 0 ELSE sum[s \ {Max(s)}] + members[Max(s)].size
    IN  sum

DescribedSizes(members, expected, itemBytes) ==
    LET sum[s \in SUBSET DOMAIN members] ==
        IF s = {} THEN 0
        ELSE sum[s \ {Max(s)}] + members[Max(s)].header
             + expected[members[Max(s)].name].items * itemBytes
    IN  sum

LEMMA MemberSizesFold ==
    \A members : FoldLeft(LAMBDA t, m : t + m.size, 0, members) = MemberSizes(members)[DOMAIN members]
  BY DEF FoldLeft, MapThenFoldSet, MemberSizes

LEMMA DescribedFold ==
    \A members, expected, itemBytes :
        FoldLeft(LAMBDA t, m : t + m.header + expected[m.name].items * itemBytes, 0, members)
            = DescribedSizes(members, expected, itemBytes)[DOMAIN members]
  BY DEF FoldLeft, MapThenFoldSet, DescribedSizes

LEMMA MemberSizesRecur ==
    ASSUME NEW members, NEW n \in Nat, DOMAIN members = 1 .. n,
           \A i \in 1 .. n : members[i].size \in Nat
    PROVE  /\ MemberSizes(members) \in [SUBSET (1 .. n) -> Nat]
           /\ \A s \in SUBSET (1 .. n) :
                 MemberSizes(members)[s] =
                    IF s = {} THEN 0 ELSE MemberSizes(members)[s \ {Max(s)}] + members[Max(s)].size
<1> DEFINE P == SUBSET (1 .. n)
           F == MemberSizes(members)
           step == [p \in Nat \X (1 .. n) |-> p[1] + members[p[2]].size]
           body(g) == [s \in P |-> IF s = {} THEN 0 ELSE g[s \ {Max(s)}] + members[Max(s)].size]
<1>1. step \in [Nat \X (1 .. n) -> Nat]
  OBVIOUS
<1>2. PICK g : IsFold(n, Nat, 0, step, g)
  <2> HIDE DEF step
  <2> QED
    BY <1>1, FoldsExist
<1>3. g = body(g)
  <2>1. ASSUME NEW s \in P, s # {} PROVE g[s] = g[s \ {Max(s)}] + members[Max(s)].size
    <3>1. s \ {Max(s)} \in P /\ Max(s) \in 1 .. n
      BY <2>1, MaxFacts
    <3>2. g[s \ {Max(s)}] \in Nat
      BY <1>2, <3>1 DEF IsFold
    <3>3. g[s] = step[<<g[s \ {Max(s)}], Max(s)>>]
      BY <1>2, <2>1 DEF FoldStep, IsFold
    <3> QED
      BY <3>1, <3>2, <3>3
  <2>2. g[{}] = 0
    BY <1>2 DEF FoldStep, IsFold
  <2> QED
    BY <1>2, <2>1, <2>2 DEF IsFold
<1>4. F = CHOOSE f : f = body(f)
  BY DEF MemberSizes
<1> HIDE DEF step, F
<1>5. F = body(F)
  BY <1>3, <1>4
<1>6. P \subseteq {s \in P : F[s] \in Nat}
  <2> DEFINE Good == {s \in P : F[s] \in Nat}
  <2>1. {} \in Good
    BY <1>5
  <2>2. ASSUME NEW s \in P, s # {}, s \ {Max(s)} \in Good PROVE s \in Good
    <3>1. Max(s) \in 1 .. n /\ s \ {Max(s)} \in P
      BY <2>2, MaxFacts
    <3>2. F[s \ {Max(s)}] \in Nat /\ members[Max(s)].size \in Nat
      BY <2>2, <3>1
    <3>3. F[s] = F[s \ {Max(s)}] + members[Max(s)].size
      BY <1>5, <2>2
    <3> QED
      BY <3>2, <3>3
  <2> HIDE DEF Good
  <2> QED
    BY <2>1, <2>2, SubsetsByLast DEF Good
<1> QED
  BY <1>5, <1>6 DEF F

\* Members whose bytes are those of their described arrays add up to the same.
LEMMA SizesAgree ==
    ASSUME NEW members, NEW n \in Nat, DOMAIN members = 1 .. n, NEW expected, NEW itemBytes,
           \A i \in 1 .. n :
              /\ members[i].size \in Nat /\ members[i].header \in Nat
              /\ expected[members[i].name].items * itemBytes \in Nat
              /\ members[i].size = members[i].header + expected[members[i].name].items * itemBytes
    PROVE  DescribedSizes(members, expected, itemBytes)[1 .. n] = MemberSizes(members)[1 .. n]
<1> DEFINE P == SUBSET (1 .. n)
           F == MemberSizes(members)
           H == DescribedSizes(members, expected, itemBytes)
           data(i) == expected[members[i].name].items * itemBytes
           body(g) == [s \in P |-> IF s = {} THEN 0
                                   ELSE g[s \ {Max(s)}] + members[Max(s)].header + data(Max(s))]
<1>1. /\ F \in [P -> Nat] /\ F[{}] = 0
      /\ \A s \in P : s # {} => F[s] = F[s \ {Max(s)}] + members[Max(s)].size
  BY MemberSizesRecur
<1> HIDE DEF F
<1>0. \A i \in 1 .. n : /\ members[i].header \in Nat /\ data(i) \in Nat
                          /\ members[i].size = members[i].header + data(i)
  OBVIOUS
<1>2. ASSUME NEW s \in P, s # {}
      PROVE  F[s] = F[s \ {Max(s)}] + members[Max(s)].header + data(Max(s))
  <2> HIDE DEF data
  <2>1. s \ {Max(s)} \in P /\ Max(s) \in 1 .. n
    BY <1>2, MaxFacts
  <2>2. /\ F[s \ {Max(s)}] \in Nat /\ members[Max(s)].header \in Nat /\ data(Max(s)) \in Nat
        /\ members[Max(s)].size = members[Max(s)].header + data(Max(s))
    BY <1>0, <1>1, <2>1
  <2>3. F[s] = F[s \ {Max(s)}] + members[Max(s)].size
    BY <1>1, <1>2
  <2> QED
    BY <2>2, <2>3
<1> HIDE DEF data
<1>3. F = body(F)
  BY <1>1, <1>2
<1>4. H = CHOOSE f : f = body(f)
  BY DEF DescribedSizes, data
<1> HIDE DEF H
<1>5. H = body(H)
  BY <1>3, <1>4
<1>6. P \subseteq {s \in P : H[s] = F[s]}
  <2> DEFINE Good == {s \in P : H[s] = F[s]}
  <2>1. {} \in Good
    BY <1>1, <1>5
  <2>2. ASSUME NEW s \in P, s # {}, s \ {Max(s)} \in Good PROVE s \in Good
    BY <1>2, <1>5, <2>2
  <2> HIDE DEF Good
  <2> QED
    BY <2>1, <2>2, SubsetsByLast DEF Good
<1> QED
  BY <1>6 DEF F, H

\* What safe_read_npz accepts: the described members, one of each, and what they unpack to
\* is what was described.
THEOREM ArchivesAreDescribed ==
    ASSUME NEW members, NEW n \in Nat, members \in Seq(Range(members)), Len(members) = n,
           NEW expected, NEW itemBytes \in Nat, NEW limits, limits.total \in Nat,
           \A i \in 1 .. n : /\ members[i].size \in Nat /\ members[i].header \in Nat
                             /\ members[i].items \in Nat
    PROVE  ArchiveIsDescribed(members, expected, itemBytes, limits)
<1> SUFFICES ASSUME ArchiveIsReadable(members, expected, itemBytes, limits)
             PROVE  /\ Len(members) = Cardinality(DOMAIN expected)
                    /\ DescribedSizes(members, expected, itemBytes)[DOMAIN members]
                           <= limits.total
  BY DEF ArchiveIsDescribed, FoldLeft, MapThenFoldSet, DescribedSizes
<1>1. DOMAIN members = 1 .. n
  OBVIOUS
<1>2. /\ \A i, j \in 1 .. n : members[i].name = members[j].name => i = j
      /\ {m.name : m \in Range(members)} = DOMAIN expected
  BY <1>1 DEF ArchiveIsReadable
<1>3. Len(members) = Cardinality(DOMAIN expected)
  <2> DEFINE f == [i \in 1 .. n |-> members[i].name]
  <2>1. f \in Bijection(1 .. n, DOMAIN expected)
    <3>1. \A i \in 1 .. n : f[i] \in DOMAIN expected
      BY <1>1, <1>2 DEF Range
    <3>2. \A name \in DOMAIN expected : \E i \in 1 .. n : f[i] = name
      BY <1>1, <1>2 DEF Range
    <3>3. f \in Injection(1 .. n, DOMAIN expected)
      BY <1>2, <3>1, Fun_IsInj
    <3>4. f \in Surjection(1 .. n, DOMAIN expected)
      BY <3>1, <3>2, Fun_IsSurj
    <3> QED
      BY <3>3, <3>4, Fun_IsBij
  <2>2. ExistsBijection(1 .. n, DOMAIN expected)
    BY <2>1 DEF ExistsBijection
  <2> QED
    BY <2>2, FS_CountingElements
<1>4. ASSUME NEW i \in 1 .. n
      PROVE  /\ expected[members[i].name].items * itemBytes \in Nat
             /\ members[i].size = members[i].header + expected[members[i].name].items * itemBytes
  <2>1. HeaderFits(members[i], expected[members[i].name], itemBytes)
    BY <1>1 DEF ArchiveIsReadable
  <2>2. /\ members[i].items = expected[members[i].name].items
        /\ members[i].size = members[i].header + members[i].items * itemBytes
    BY <2>1 DEF HeaderFits
  <2>3. \A a, b \in Nat : a * b \in Nat
    OBVIOUS
  <2> QED
    BY <2>2, <2>3
<1>5. MemberSizes(members)[1 .. n] <= limits.total
  <2> DEFINE F == MemberSizes(members)
  <2>0. \A s \in SUBSET (1 .. n) :
           F[s] = IF s = {} THEN 0 ELSE F[s \ {Max(s)}] + members[Max(s)].size
    BY <1>1, MemberSizesRecur
  <2>1. CASE n = 0
    <3>1. {} \in SUBSET (1 .. n) /\ 1 .. n = {}
      BY <2>1
    <3> HIDE DEF F
    <3>2. F[{}] = 0
      BY <2>0
    <3> QED
      BY <3>1, <3>2 DEF F
  <2>2. CASE n # 0
    <3>0. \A i \in DOMAIN members :
            MemberSizes(SubSeq(members, 1, i))[DOMAIN SubSeq(members, 1, i)] <= limits.total
      BY DEF ArchiveIsReadable, FoldLeft, MapThenFoldSet, MemberSizes
    <3>1. MemberSizes(SubSeq(members, 1, n))[DOMAIN SubSeq(members, 1, n)] <= limits.total
      BY <1>1, <2>2, <3>0
    <3>2. SubSeq(members, 1, n) = members
      BY <2>2
    <3> QED
      BY <1>1, <3>1, <3>2
  <2> QED
    BY <2>1, <2>2
<1> QED
  BY <1>1, <1>3, <1>4, <1>5, SizesAgree

-----------------------------------------------------------------------------
(* Lineage.                                                                *)

\* The parents of the digests in a set, and one generation more of ancestors.
ParentsIn(R, set) == {p[1] : p \in {q \in R : q[2] \in set}}
ParentsOfOne(R, d) == {p[1] : p \in {q \in R : q[2] = d}}

\* A set that has the parents of all its digests.
Closed(R, set) == \A q \in R : q[2] \in set => q[1] \in set

\* The ancestors of a digest in the generations whose positions are in s.
Generations(nodes, d) ==
    LET back[s \in SUBSET DOMAIN nodes] ==
        IF s = {} THEN ParentsOfOne(Parenthood(nodes), d)
        ELSE back[s \ {Max(s)}] \cup ParentsIn(Parenthood(nodes), back[s \ {Max(s)}])
    IN  back

LEMMA AncestorsFold ==
    \A nodes, d : Ancestors(nodes, d) = Generations(nodes, d)[DOMAIN nodes]
  BY DEF Ancestors, FoldLeft, MapThenFoldSet, Generations, ParentsIn, ParentsOfOne

LEMMA GenerationsRecur ==
    ASSUME NEW nodes, NEW n \in Nat, DOMAIN nodes = 1 .. n, NEW d,
           NEW R, R = Parenthood(nodes), NEW F, F = Generations(nodes, d)
    PROVE  /\ F[{}] = ParentsOfOne(R, d)
           /\ \A s \in SUBSET (1 .. n) : s # {} =>
                 F[s] = F[s \ {Max(s)}] \cup ParentsIn(R, F[s \ {Max(s)}])
<1> DEFINE U == {q[1] : q \in R}
           S == SUBSET U
           P == SUBSET (1 .. n)
           first == ParentsOfOne(R, d)
           step == [p \in S \X (1 .. n) |-> p[1] \cup ParentsIn(R, p[1])]
           body(g) == [s \in P |-> IF s = {} THEN first
                                   ELSE g[s \ {Max(s)}] \cup ParentsIn(R, g[s \ {Max(s)}])]
<1>1. first \in S /\ step \in [S \X (1 .. n) -> S]
  BY DEF ParentsOfOne, ParentsIn
<1>2. PICK g : IsFold(n, S, first, step, g)
  <2> HIDE DEF step, S, first
  <2> QED
    BY <1>1, FoldsExist
<1>3. g = body(g)
  <2>1. ASSUME NEW s \in P, s # {}
        PROVE  g[s] = g[s \ {Max(s)}] \cup ParentsIn(R, g[s \ {Max(s)}])
    <3> HIDE DEF S, first
    <3>1. s \ {Max(s)} \in P /\ Max(s) \in 1 .. n
      BY <2>1, MaxFacts
    <3>2. g[s \ {Max(s)}] \in S
      BY <1>2, <3>1 DEF IsFold
    <3>3. g[s] = step[<<g[s \ {Max(s)}], Max(s)>>]
      BY <1>2, <2>1 DEF FoldStep, IsFold
    <3> QED
      BY <3>1, <3>2, <3>3
  <2>2. g[{}] = first
    BY <1>2 DEF FoldStep, IsFold
  <2> HIDE DEF S, first
  <2> QED
    BY <1>2, <2>1, <2>2 DEF IsFold
<1>4. F = CHOOSE f : f = body(f)
  BY DEF Generations
<1>5. F = body(F)
  BY <1>3, <1>4
<1> QED
  BY <1>5

\* The generations of the first i positions, one after the other.
LEMMA GenerationsGrow ==
    ASSUME NEW nodes, NEW n \in Nat, DOMAIN nodes = 1 .. n, NEW d,
           NEW R, R = Parenthood(nodes), NEW F, F = Generations(nodes, d)
    PROVE  /\ F[1 .. 0] = ParentsOfOne(R, d)
           /\ \A i \in 1 .. n : F[1 .. i] = F[1 .. i - 1] \cup ParentsIn(R, F[1 .. i - 1])
<1>1. /\ F[{}] = ParentsOfOne(R, d)
      /\ \A s \in SUBSET (1 .. n) : s # {} =>
            F[s] = F[s \ {Max(s)}] \cup ParentsIn(R, F[s \ {Max(s)}])
  BY GenerationsRecur
<1>2. ASSUME NEW i \in 1 .. n
      PROVE  F[1 .. i] = F[1 .. i - 1] \cup ParentsIn(R, F[1 .. i - 1])
  <2>1. Max(1 .. i) = i /\ (1 .. i) \ {i} = 1 .. i - 1 /\ 1 .. i # {}
    <3>1. i \in Nat \ {0}
      OBVIOUS
    <3> QED
      BY <3>1, PrefixFacts
  <2>2. 1 .. i \in SUBSET (1 .. n)
    OBVIOUS
  <2> DEFINE s == 1 .. i
             r == 1 .. i - 1
  <2>3. s \in SUBSET (1 .. n) /\ s # {} /\ s \ {Max(s)} = r
    BY <2>1, <2>2
  <2> HIDE DEF s, r
  <2>4. F[s] = F[r] \cup ParentsIn(R, F[r])
    BY <1>1, <2>3
  <2> QED
    BY <2>4 DEF s, r
<1>3. 1 .. 0 = {}
  OBVIOUS
<1> QED
  BY <1>1, <1>2, <1>3

\* Ancestors hold the parents of a digest and lie in every closed set that does.
LEMMA AncestorsAreLeast ==
    ASSUME NEW nodes, NEW n \in Nat, DOMAIN nodes = 1 .. n, NEW d
    PROVE  LET R == Parenthood(nodes)
           IN  /\ ParentsOfOne(R, d) \subseteq Ancestors(nodes, d)
               /\ n # 0 => ParentsIn(R, ParentsOfOne(R, d)) \subseteq Ancestors(nodes, d)
               /\ \A C : ParentsOfOne(R, d) \subseteq C /\ Closed(R, C)
                         => Ancestors(nodes, d) \subseteq C
<1> DEFINE R == Parenthood(nodes)
           F == Generations(nodes, d)
           first == ParentsOfOne(R, d)
<1>1. /\ F[1 .. 0] = first
      /\ \A i \in 1 .. n : F[1 .. i] = F[1 .. i - 1] \cup ParentsIn(R, F[1 .. i - 1])
  <2> HIDE DEF R, F
  <2> QED
    BY GenerationsGrow DEF R, F
<1>2. Ancestors(nodes, d) = F[1 .. n]
  BY AncestorsFold
<1> HIDE DEF R, F, first
<1>3. first \subseteq F[1 .. n] /\ (n # 0 => ParentsIn(R, first) \subseteq F[1 .. n])
  <2> DEFINE Good == {i \in 0 .. n : first \subseteq F[1 .. i]
                                     /\ (i # 0 => ParentsIn(R, first) \subseteq F[1 .. i])}
  <2>1. 0 \in Good
    BY <1>1
  <2>2. ASSUME NEW i \in 0 .. n - 1, i \in Good PROVE i + 1 \in Good
    <3>1. F[1 .. i + 1] = F[1 .. i] \cup ParentsIn(R, F[1 .. i])
      <4>1. i + 1 \in 1 .. n /\ (i + 1) - 1 = i
        OBVIOUS
      <4> QED
        BY <1>1, <4>1
    <3>2. first \subseteq F[1 .. i]
      BY <2>2
    <3>3. ParentsIn(R, first) \subseteq ParentsIn(R, F[1 .. i])
      BY <3>2 DEF ParentsIn
    <3> QED
      BY <3>1, <3>2, <3>3
  <2>3. 0 .. n \subseteq Good
    <3> HIDE DEF Good
    <3> QED
      BY <2>1, <2>2, NumbersUpTo
  <2> QED
    BY <2>3
<1>4. ASSUME NEW C, first \subseteq C, Closed(R, C) PROVE F[1 .. n] \subseteq C
  <2> DEFINE Good == {i \in 0 .. n : F[1 .. i] \subseteq C}
  <2>1. 0 \in Good
    BY <1>1, <1>4
  <2>2. ASSUME NEW i \in 0 .. n - 1, i \in Good PROVE i + 1 \in Good
    <3>1. F[1 .. i + 1] = F[1 .. i] \cup ParentsIn(R, F[1 .. i])
      <4>1. i + 1 \in 1 .. n /\ (i + 1) - 1 = i
        OBVIOUS
      <4> QED
        BY <1>1, <4>1
    <3>2. F[1 .. i] \subseteq C
      BY <2>2
    <3>3. ParentsIn(R, F[1 .. i]) \subseteq C
      BY <1>4, <3>2 DEF ParentsIn, Closed
    <3> QED
      BY <3>1, <3>2, <3>3
  <2>3. 0 .. n \subseteq Good
    <3> HIDE DEF Good
    <3> QED
      BY <2>1, <2>2, NumbersUpTo
  <2> QED
    BY <2>3
<1> QED
  BY <1>2, <1>3, <1>4 DEF R, F, first

\* What a verified graph says of its links: no two nodes share a digest, and each link leads
\* to a node of its type, which the policy allows.
LEMMA VerifiedLinks ==
    ASSUME NEW nodes, NEW policy, NEW max, NEW R, R = Parenthood(nodes),
           VerifyLineage(nodes, policy, max) # Refused
    PROVE  /\ \A i, j \in DOMAIN nodes : nodes[i].sha256 = nodes[j].sha256 => i = j
           /\ \A i \in DOMAIN nodes :
                 /\ nodes[i].type \in DOMAIN policy
                 /\ \A link \in nodes[i].parents :
                       /\ <<link.sha256, nodes[i].sha256>> \in R
                       /\ link.type \in policy[nodes[i].type].allowed
                       /\ \E j \in DOMAIN nodes : nodes[j].sha256 = link.sha256
                                                  /\ nodes[j].type = link.type
                 /\ \A type \in policy[nodes[i].type].required :
                       \E link \in nodes[i].parents : link.type = type
                 /\ \A q \in R : q[2] = nodes[i].sha256 =>
                       \E link \in nodes[i].parents : q[1] = link.sha256
<1>1. /\ NoCollision(nodes)
      /\ \A i \in DOMAIN nodes : LinksHold(nodes, nodes[i], policy)
  BY DEF VerifyLineage
<1>2. \A i, j \in DOMAIN nodes : nodes[i].sha256 = nodes[j].sha256 => i = j
  BY <1>1 DEF NoCollision
<1>3. ASSUME NEW i \in DOMAIN nodes, NEW link \in nodes[i].parents
      PROVE  <<link.sha256, nodes[i].sha256>> \in R
  BY DEF Parenthood, Range
<1>4. ASSUME NEW i \in DOMAIN nodes, NEW q \in R, q[2] = nodes[i].sha256
      PROVE  \E link \in nodes[i].parents : q[1] = link.sha256
  <2>1. PICK j \in DOMAIN nodes : \E link \in nodes[j].parents : q = <<link.sha256, nodes[j].sha256>>
    BY DEF Parenthood, Range
  <2>2. j = i
    BY <1>2, <1>4, <2>1
  <2> QED
    BY <2>1, <2>2
<1>5. ASSUME NEW i \in DOMAIN nodes
      PROVE  /\ nodes[i].type \in DOMAIN policy
             /\ \A link \in nodes[i].parents :
                   /\ link.type \in policy[nodes[i].type].allowed
                   /\ \E j \in DOMAIN nodes : nodes[j].sha256 = link.sha256
                                              /\ nodes[j].type = link.type
             /\ \A type \in policy[nodes[i].type].required :
                   \E link \in nodes[i].parents : link.type = type
  BY <1>1 DEF LinksHold
<1> QED
  BY <1>2, <1>3, <1>4, <1>5

\* A consumer's dataset, model and report descend from runs, and not the other way about.
THEOREM EvidenceRests ==
    ASSUME NEW nodes, NEW n \in Nat, DOMAIN nodes = 1 .. n,
           NEW dataset, NEW model, NEW report
    PROVE  EvidenceReachesRuns(nodes, dataset, model, report)
<1> SUFFICES ASSUME ConsumerIsBound(nodes, dataset, model, report)
             PROVE  /\ \A d \in {dataset, model, report} :
                         \E m \in Range(nodes) : m.type = "run" /\ m.sha256 \in Ancestors(nodes, d)
                    /\ {dataset, model} \subseteq Ancestors(nodes, report)
                    /\ report \notin Ancestors(nodes, dataset) \cup Ancestors(nodes, model)
  BY DEF EvidenceReachesRuns
<1> DEFINE R == Parenthood(nodes)
<1>1. VerifyLineage(nodes, DefaultPolicy, 10) # Refused
  BY DEF ConsumerIsBound
<1>2. /\ \A i, j \in 1 .. n : nodes[i].sha256 = nodes[j].sha256 => i = j
      /\ \A i \in 1 .. n :
            /\ nodes[i].type \in DOMAIN DefaultPolicy
            /\ \A link \in nodes[i].parents :
                  /\ <<link.sha256, nodes[i].sha256>> \in R
                  /\ link.type \in DefaultPolicy[nodes[i].type].allowed
                  /\ \E j \in 1 .. n : nodes[j].sha256 = link.sha256
                                             /\ nodes[j].type = link.type
            /\ \A type \in DefaultPolicy[nodes[i].type].required :
                  \E link \in nodes[i].parents : link.type = type
            /\ \A q \in R : q[2] = nodes[i].sha256 =>
                  \E link \in nodes[i].parents : q[1] = link.sha256
  <2> HIDE DEF R
  <2> QED
    BY <1>1, VerifiedLinks DEF R
<1>3. PICK a, b, c \in 1 .. n :
         /\ nodes[a].sha256 = dataset /\ nodes[a].type = "dataset"
         /\ nodes[b].sha256 = model /\ nodes[b].type = "model"
         /\ nodes[c].sha256 = report /\ nodes[c].type = "report"
  BY DEF ConsumerIsBound, Range
<1>4. ASSUME NEW i \in 1 .. n
      PROVE  ParentDigests(CHOOSE m \in Range(nodes) : m.sha256 = nodes[i].sha256)
                = {link.sha256 : link \in nodes[i].parents}
  <2> DEFINE m == CHOOSE m \in Range(nodes) : m.sha256 = nodes[i].sha256
  <2>1. m \in Range(nodes) /\ m.sha256 = nodes[i].sha256
    BY DEF Range
  <2>2. PICK j \in 1 .. n : m = nodes[j]
    BY <2>1 DEF Range
  <2> QED
    BY <1>2, <2>1, <2>2 DEF ParentDigests
<1>5. /\ \E link \in nodes[b].parents : link.sha256 = dataset
      /\ \E link \in nodes[c].parents : link.sha256 = dataset
      /\ \E link \in nodes[c].parents : link.sha256 = model
  BY <1>3, <1>4 DEF ConsumerIsBound
<1>6. <<dataset, model>> \in R /\ <<dataset, report>> \in R /\ <<model, report>> \in R
  BY <1>2, <1>3, <1>5
<1> HIDE DEF R
<1>7. PICK e \in 1 .. n : nodes[e].type = "run" /\ <<nodes[e].sha256, dataset>> \in R
  <2>1. "run" \in DefaultPolicy[nodes[a].type].required
    BY <1>3 DEF DefaultPolicy
  <2>2. PICK link \in nodes[a].parents : link.type = "run"
    BY <1>2, <2>1
  <2>3. PICK j \in 1 .. n : nodes[j].sha256 = link.sha256 /\ nodes[j].type = link.type
    BY <1>2, <2>2
  <2>4. <<link.sha256, nodes[a].sha256>> \in R
    BY <1>2, <2>2
  <2> QED
    BY <1>3, <2>2, <2>3, <2>4
<1>8. /\ DefaultPolicy["run"].allowed = {} /\ DefaultPolicy["dataset"].allowed = {"run"}
      /\ DefaultPolicy["model"].allowed = {"dataset"}
  BY DEF DefaultPolicy
<1>9. ASSUME NEW i \in 1 .. n, NEW q \in R, q[2] = nodes[i].sha256
      PROVE  \E j \in 1 .. n : /\ q[1] = nodes[j].sha256
                               /\ nodes[j].type \in DefaultPolicy[nodes[i].type].allowed
  <2>1. PICK link \in nodes[i].parents : q[1] = link.sha256
    BY <1>2, <1>9
  <2>2. PICK j \in 1 .. n : nodes[j].sha256 = link.sha256 /\ nodes[j].type = link.type
    BY <1>2, <2>1
  <2>3. link.type \in DefaultPolicy[nodes[i].type].allowed
    BY <1>2, <2>1
  <2> QED
    BY <2>1, <2>2, <2>3
<1> DEFINE origin == nodes[e].sha256
           Origins == {nodes[i].sha256 : i \in {j \in 1 .. n : nodes[j].type = "run"}}
           Bases == {nodes[i].sha256 : i \in {j \in 1 .. n : nodes[j].type \in {"run", "dataset"}}}
<1>10. /\ \A d : /\ ParentsOfOne(R, d) \subseteq Ancestors(nodes, d)
                 /\ ParentsIn(R, ParentsOfOne(R, d)) \subseteq Ancestors(nodes, d)
                 /\ \A C : ParentsOfOne(R, d) \subseteq C /\ Closed(R, C)
                           => Ancestors(nodes, d) \subseteq C
  <2>1. n # 0
    BY <1>3
  <2> QED
    BY <2>1, AncestorsAreLeast DEF R
<1>11. /\ origin \in Ancestors(nodes, dataset) /\ origin \in Ancestors(nodes, model)
       /\ origin \in Ancestors(nodes, report)
       /\ {dataset, model} \subseteq Ancestors(nodes, report)
  <2>1. origin \in ParentsOfOne(R, dataset) /\ dataset \in ParentsOfOne(R, model)
        /\ dataset \in ParentsOfOne(R, report) /\ model \in ParentsOfOne(R, report)
    BY <1>6, <1>7 DEF ParentsOfOne
  <2>2. \A set : dataset \in set => origin \in ParentsIn(R, set)
    BY <1>7 DEF ParentsIn
  <2> QED
    BY <1>10, <2>1, <2>2
<1>12. Closed(R, Origins)
  BY <1>8, <1>9 DEF Closed
<1>13. Closed(R, Bases)
  BY <1>8, <1>9 DEF Closed
<1>14. ParentsOfOne(R, dataset) \subseteq Origins
  BY <1>3, <1>8, <1>9 DEF ParentsOfOne
<1>15. ParentsOfOne(R, model) \subseteq Bases
  BY <1>3, <1>8, <1>9 DEF ParentsOfOne
<1>16. report \notin Origins /\ report \notin Bases
  BY <1>2, <1>3
<1>17. nodes[e] \in Range(nodes)
  BY DEF Range
<1> HIDE DEF Origins, Bases
<1>18. Ancestors(nodes, dataset) \subseteq Origins /\ Ancestors(nodes, model) \subseteq Bases
  BY <1>10, <1>12, <1>13, <1>14, <1>15
<1> QED
  BY <1>7, <1>11, <1>16, <1>17, <1>18

\* n positions hold at most n digests.
LEMMA FewDigests ==
    ASSUME NEW nodes, NEW n \in Nat, DOMAIN nodes = 1 .. n
    PROVE  LET D == {nodes[i].sha256 : i \in 1 .. n}
           IN  IsFiniteSet(D) /\ Cardinality(D) \in Nat /\ Cardinality(D) <= n
<1> DEFINE D == {nodes[i].sha256 : i \in 1 .. n}
           f == [i \in 1 .. n |-> nodes[i].sha256]
<1>1. f \in Surjection(1 .. n, D)
  <2>1. f \in [1 .. n -> D] /\ \A d \in D : \E i \in 1 .. n : f[i] = d
    OBVIOUS
  <2> HIDE DEF f, D
  <2> QED
    BY <2>1, Fun_IsSurj
<1>2. IsFiniteSet(1 .. n) /\ Cardinality(1 .. n) = n
  <2>1. IsFiniteSet(1 .. n) /\ Cardinality(1 .. n) = (IF 1 > n THEN 0 ELSE n - 1 + 1)
    BY FS_Interval
  <2> QED
    BY <2>1
<1> HIDE DEF f, D
<1>3. IsFiniteSet(D) /\ Cardinality(D) <= Cardinality(1 .. n)
  BY <1>1, <1>2, FS_Surjection
<1> QED
  BY <1>2, <1>3, FS_CardinalityType DEF D

\* As many generations as there are nodes are enough: what was not closed has grown in each
\* of them, and there are no more digests than nodes.
LEMMA AncestorsAreClosed ==
    ASSUME NEW nodes, NEW n \in Nat, DOMAIN nodes = 1 .. n, NEW d,
           NEW R, R = Parenthood(nodes),
           \A q \in R : \E i \in 1 .. n : q[1] = nodes[i].sha256
    PROVE  Closed(R, Ancestors(nodes, d))
<1> DEFINE F == Generations(nodes, d)
           D == {nodes[i].sha256 : i \in 1 .. n}
           G(i) == F[1 .. i]
           Good == {i \in 0 .. n : G(i) \subseteq D
                                   /\ (Closed(R, G(i)) \/ Cardinality(G(i)) >= i + 1)}
<1>1. /\ F[1 .. 0] = ParentsOfOne(R, d)
      /\ \A i \in 1 .. n : F[1 .. i] = F[1 .. i - 1] \cup ParentsIn(R, F[1 .. i - 1])
  BY GenerationsGrow
<1>2. /\ G(0) = ParentsOfOne(R, d)
      /\ \A i \in 0 .. n - 1 : G(i + 1) = G(i) \cup ParentsIn(R, G(i))
  <2>1. ASSUME NEW i \in 0 .. n - 1 PROVE G(i + 1) = G(i) \cup ParentsIn(R, G(i))
    <3>1. i + 1 \in 1 .. n /\ (i + 1) - 1 = i
      OBVIOUS
    <3> HIDE DEF F
    <3> QED
      BY <1>1, <3>1
  <2> QED
    BY <1>1, <2>1
<1> HIDE DEF F, G
<1>3. IsFiniteSet(D) /\ Cardinality(D) \in Nat /\ Cardinality(D) <= n
  BY FewDigests
<1>4. \A q \in R : q[1] \in D
  OBVIOUS
<1> HIDE DEF D
<1>5. \A set : ParentsIn(R, set) \subseteq D /\ ParentsOfOne(R, d) \subseteq D
  BY <1>4 DEF ParentsIn, ParentsOfOne
<1>6. ASSUME NEW set, set \subseteq D
      PROVE  /\ IsFiniteSet(set) /\ Cardinality(set) \in Nat
             /\ Cardinality(set) <= Cardinality(D)
             /\ set # {} => Cardinality(set) >= 1
  BY <1>3, <1>6, FS_Subset, FS_CardinalityType, FS_EmptySet
<1>7. 0 \in Good
  <2>1. G(0) \subseteq D
    BY <1>2, <1>5
  <2>2. G(0) = {} => Closed(R, G(0))
    BY DEF Closed
  <2> QED
    BY <1>6, <2>1, <2>2
<1>8. ASSUME NEW i \in 0 .. n - 1, i \in Good PROVE i + 1 \in Good
  <2>1. G(i + 1) = G(i) \cup ParentsIn(R, G(i))
    BY <1>2
  <2>2. G(i) \subseteq D /\ G(i + 1) \subseteq D
    BY <1>5, <1>8, <2>1
  <2>3. CASE Closed(R, G(i))
    <3>1. G(i + 1) = G(i)
      BY <2>1, <2>3 DEF Closed, ParentsIn
    <3> QED
      BY <2>2, <2>3, <3>1
  <2>4. CASE ~Closed(R, G(i))
    <3>1. PICK x \in G(i + 1) : x \notin G(i)
      BY <2>1, <2>4 DEF Closed, ParentsIn
    <3>2. Cardinality(G(i)) >= i + 1
      BY <1>8, <2>4
    <3>3. G(i) \subseteq G(i + 1) \ {x}
      BY <2>1, <3>1
    <3>4. Cardinality(G(i + 1) \ {x}) = Cardinality(G(i + 1)) - 1
      BY <1>6, <2>2, <3>1, FS_RemoveElement
    <3>5. Cardinality(G(i)) <= Cardinality(G(i + 1) \ {x})
      <4>1. IsFiniteSet(G(i + 1) \ {x})
        BY <1>6, <2>2
      <4> QED
        BY <3>3, <4>1, FS_Subset
    <3>6. Cardinality(G(i + 1)) >= (i + 1) + 1
      BY <1>6, <2>2, <3>2, <3>4, <3>5
    <3> QED
      BY <2>2, <3>6
  <2> QED
    BY <2>3, <2>4
<1>9. n \in Good
  <2> HIDE DEF Good
  <2>1. 0 .. n \subseteq Good
    BY <1>7, <1>8, NumbersUpTo
  <2> QED
    BY <2>1
<1>10. Closed(R, G(n))
  BY <1>3, <1>6, <1>9
<1>11. Ancestors(nodes, d) = G(n)
  BY AncestorsFold DEF G, F
<1> QED
  BY <1>10, <1>11

\* A graph of nodes with digests of their own, whose links stay inside it.
GraphIs(nodes, n, D, R) ==
    /\ n \in Nat /\ DOMAIN nodes = 1 .. n
    /\ D = {nodes[i].sha256 : i \in 1 .. n} /\ D \subseteq Nat
    /\ \A i, j \in 1 .. n : nodes[i].sha256 = nodes[j].sha256 => i = j
    /\ R = Parenthood(nodes)
    /\ \A i \in 1 .. n : \A p : <<p, nodes[i].sha256>> \in R <=> p \in ParentDigests(nodes[i])
    /\ \A q \in R : q[1] \in D /\ q[2] \in D /\ q = <<q[1], q[2]>>

LEMMA DigestsCounted ==
    ASSUME NEW nodes, NEW n, NEW D, NEW R, GraphIs(nodes, n, D, R)
    PROVE  IsFiniteSet(D) /\ Cardinality(D) = n
<1> DEFINE f == [i \in 1 .. n |-> nodes[i].sha256]
<1>1. n \in Nat /\ f \in Bijection(1 .. n, D)
  <2>1. /\ f \in [1 .. n -> D] /\ \A d \in D : \E i \in 1 .. n : f[i] = d
        /\ \A i, j \in 1 .. n : f[i] = f[j] => i = j
    BY DEF GraphIs
  <2> HIDE DEF f
  <2>2. f \in Surjection(1 .. n, D)
    BY <2>1, Fun_IsSurj
  <2>3. f \in Injection(1 .. n, D)
    BY <2>1, Fun_IsInj
  <2> QED
    BY <2>2, <2>3, Fun_IsBij DEF GraphIs
<1>2. ExistsBijection(1 .. n, D)
  BY <1>1 DEF ExistsBijection
<1>3. IsFiniteSet(1 .. n)
  BY <1>1, FS_Interval
<1> QED
  BY <1>1, <1>2, <1>3, FS_CountingElements, FS_Bijection

\* Where everybody has a parent, somebody is an ancestor of itself: the one with the fewest
\* ancestors would have a parent with fewer.
LEMMA CycleExists ==
    ASSUME NEW nodes, NEW n, NEW D, NEW R, GraphIs(nodes, n, D, R),
           NEW W, W \subseteq D, W # {}, \A x \in W : \E y \in W : <<y, x>> \in R
    PROVE  \E x \in W : x \in Ancestors(nodes, x)
<1> SUFFICES ASSUME \A x \in W : x \notin Ancestors(nodes, x) PROVE FALSE
  OBVIOUS
<1> DEFINE A(d) == Ancestors(nodes, d) \cap D
           Counts == {Cardinality(A(x)) : x \in W}
<1>1. IsFiniteSet(D)
  BY DigestsCounted
<1>2. \A d : IsFiniteSet(A(d)) /\ Cardinality(A(d)) \in Nat
  BY <1>1, FS_Subset, FS_CardinalityType
<1>3. PICK x \in W : \A y \in W : Cardinality(A(x)) <= Cardinality(A(y))
  <2>1. Counts \in SUBSET Nat /\ Counts # {}
    BY <1>2
  <2>2. PICK m \in Counts : \A k \in Counts : m <= k
    <3> HIDE DEF Counts
    <3> QED
      BY <2>1, Least
  <2> QED
    BY <2>2
<1>4. PICK y \in W : <<y, x>> \in R
  OBVIOUS
<1>5. n \in Nat /\ DOMAIN nodes = 1 .. n /\ R = Parenthood(nodes)
      /\ \A q \in R : \E i \in 1 .. n : q[1] = nodes[i].sha256
  BY DEF GraphIs
<1>6. y \in A(x)
  <2>1. ParentsOfOne(R, x) \subseteq Ancestors(nodes, x)
    BY <1>5, AncestorsAreLeast
  <2> QED
    BY <1>4, <2>1 DEF ParentsOfOne
<1>7. Ancestors(nodes, y) \subseteq Ancestors(nodes, x)
  <2> DEFINE C == Ancestors(nodes, x)
  <2>1. Closed(R, C)
    BY <1>5, AncestorsAreClosed
  <2>2. ParentsOfOne(R, y) \subseteq C
    BY <1>6, <2>1 DEF ParentsOfOne, Closed
  <2> HIDE DEF C
  <2>3. Ancestors(nodes, y) \subseteq C
    BY <1>5, <2>1, <2>2, AncestorsAreLeast
  <2> QED
    BY <2>3 DEF C
<1>8. A(y) \subseteq A(x) \ {y}
  BY <1>7
<1> HIDE DEF A
<1>9. Cardinality(A(y)) <= Cardinality(A(x)) - 1
  <2>1. IsFiniteSet(A(x) \ {y}) /\ Cardinality(A(x) \ {y}) = Cardinality(A(x)) - 1
    BY <1>2, <1>6, FS_RemoveElement
  <2> QED
    BY <1>8, <2>1, FS_Subset
<1> QED
  BY <1>2, <1>3, <1>9

\* The states of the sort over the positions in s.
SortStart(nodes) ==
    [order |-> <<>>,
     degree |-> [d \in {m.sha256 : m \in Range(nodes)} |->
                    InDegree(CHOOSE m \in Range(nodes) : m.sha256 = d)]]

Sorting(nodes) ==
    LET at[s \in SUBSET DOMAIN nodes] ==
        IF s = {} THEN SortStart(nodes) ELSE TakeReady(nodes, at[s \ {Max(s)}])
    IN  at

LEMMA TopologicalFold == \A nodes : Topological(nodes) = Sorting(nodes)[DOMAIN nodes].order
  BY DEF Topological, FoldLeft, MapThenFoldSet, Sorting, SortStart

SortStates(D) == [order : Seq(D), degree : [D -> Int]]

Ready(D, s) == {d \in D : s.degree[d] = 0 /\ d \notin Range(s.order)}

\* A step takes one that is ready, and its children wait for one less.
LEMMA TakeReadyTakes ==
    ASSUME NEW nodes, NEW n, NEW D, NEW R, GraphIs(nodes, n, D, R), NEW s \in SortStates(D)
    PROVE  /\ Ready(D, s) = {} => TakeReady(nodes, s) = s
           /\ Ready(D, s) # {} =>
                \E next \in Ready(D, s) :
                   TakeReady(nodes, s) =
                      [order |-> Append(s.order, next),
                       degree |-> [d \in D |-> s.degree[d] - (IF <<next, d>> \in R THEN 1 ELSE 0)]]
           /\ TakeReady(nodes, s) \in SortStates(D)
<1> DEFINE ready == {d \in DOMAIN s.degree : s.degree[d] = 0 /\ d \notin Range(s.order)}
           next == Min(ready)
           Child(d) == \E i \in DOMAIN nodes :
                          nodes[i].sha256 = d /\ next \in ParentDigests(nodes[i])
           taken == [order |-> Append(s.order, next),
                     degree |-> [d \in DOMAIN s.degree |->
                                    s.degree[d] - (IF Child(d) THEN 1 ELSE 0)]]
<1>1. TakeReady(nodes, s) = IF ready = {} THEN s ELSE taken
  BY DEF TakeReady
<1>2. s.order \in Seq(D) /\ s.degree \in [D -> Int] /\ DOMAIN s.degree = D
  BY DEF SortStates
<1>3. ready = Ready(D, s)
  BY <1>2 DEF Ready
<1>4. ASSUME ready # {} PROVE next \in ready
  <2>1. ready \in SUBSET Nat
    BY <1>2 DEF GraphIs
  <2> HIDE DEF ready
  <2>2. \E m \in ready : \A k \in ready : m <= k
    BY <1>4, <2>1, Least
  <2> QED
    BY <2>2 DEF Min
<1> HIDE DEF ready, next
<1>5. \A d \in D : Child(d) <=> <<next, d>> \in R
  BY DEF GraphIs
<1>6. taken = [order |-> Append(s.order, next),
               degree |-> [d \in D |-> s.degree[d] - (IF <<next, d>> \in R THEN 1 ELSE 0)]]
  BY <1>2, <1>5
<1> HIDE DEF taken
<1>7. ASSUME ready # {} PROVE taken \in SortStates(D)
  <2>1. next \in D
    BY <1>3, <1>4, <1>7 DEF Ready
  <2> QED
    BY <1>2, <1>6, <2>1 DEF SortStates
<1> QED
  BY <1>1, <1>3, <1>4, <1>6, <1>7

\* The parents a digest still waits for.
Waits(D, R, d, placed) == {p \in D : <<p, d>> \in R /\ p \notin placed}

LEMMA SortStartIs ==
    ASSUME NEW nodes, NEW n, NEW D, NEW R, GraphIs(nodes, n, D, R)
    PROVE  /\ SortStart(nodes) \in SortStates(D)
           /\ SortStart(nodes).order = <<>>
           /\ \A d \in D : SortStart(nodes).degree[d] = Cardinality(Waits(D, R, d, {}))
<1> DEFINE Node(d) == CHOOSE m \in Range(nodes) : m.sha256 = d
<1>1. {m.sha256 : m \in Range(nodes)} = D
  BY DEF GraphIs, Range
<1>2. ASSUME NEW d \in D PROVE InDegree(Node(d)) = Cardinality(Waits(D, R, d, {}))
  <2>1. PICK i \in 1 .. n : nodes[i].sha256 = d
    BY DEF GraphIs
  <2>2. nodes[i] \in Range(nodes)
    BY DEF GraphIs, Range
  <2>3. Node(d) \in Range(nodes) /\ Node(d).sha256 = d
    BY <2>1, <2>2
  <2> HIDE DEF Node
  <2>4. Node(d) = nodes[i]
    BY <2>1, <2>3 DEF GraphIs, Range
  <2>5. ParentDigests(nodes[i]) = Waits(D, R, d, {})
    <3>1. \A p : p \in ParentDigests(nodes[i]) <=> <<p, d>> \in R
      BY <2>1 DEF GraphIs
    <3>2. \A p : <<p, d>> \in R => p \in D
      <4>1. \A q \in R : q[1] \in D
        BY DEF GraphIs
      <4> QED
        BY <4>1
    <3> QED
      BY <3>1, <3>2 DEF Waits
  <2> QED
    BY <2>4, <2>5 DEF InDegree
<1>3. SortStart(nodes) = [order |-> <<>>, degree |-> [d \in D |-> Cardinality(Waits(D, R, d, {}))]]
  BY <1>1, <1>2 DEF SortStart
<1>4. \A d \in D : Cardinality(Waits(D, R, d, {})) \in Int
  <2>1. IsFiniteSet(D)
    BY DigestsCounted
  <2>2. \A d \in D : Waits(D, R, d, {}) \subseteq D
    BY DEF Waits
  <2> QED
    BY <2>1, <2>2, FS_Subset, FS_CardinalityType
<1> QED
  BY <1>3, <1>4 DEF SortStates

LEMMA SortingGrows ==
    ASSUME NEW nodes, NEW n, NEW D, NEW R, GraphIs(nodes, n, D, R),
           NEW F, F = Sorting(nodes)
    PROVE  /\ F[1 .. 0] = SortStart(nodes)
           /\ \A i \in 1 .. n : F[1 .. i] = TakeReady(nodes, F[1 .. i - 1])
<1> DEFINE S == SortStates(D)
           P == SUBSET (1 .. n)
           first == SortStart(nodes)
           step == [p \in S \X (1 .. n) |-> TakeReady(nodes, p[1])]
           body(g) == [s \in P |-> IF s = {} THEN first ELSE TakeReady(nodes, g[s \ {Max(s)}])]
<1>0. n \in Nat /\ DOMAIN nodes = 1 .. n
  BY DEF GraphIs
<1>1. first \in S /\ step \in [S \X (1 .. n) -> S]
  BY SortStartIs, TakeReadyTakes
<1>2. PICK g : IsFold(n, S, first, step, g)
  <2> HIDE DEF step, S, first
  <2> QED
    BY <1>0, <1>1, FoldsExist
<1>3. g = body(g)
  <2> HIDE DEF S, first
  <2>1. ASSUME NEW s \in P, s # {} PROVE g[s] = TakeReady(nodes, g[s \ {Max(s)}])
    <3>1. s \ {Max(s)} \in P /\ Max(s) \in 1 .. n
      BY <1>0, <2>1, MaxFacts
    <3>2. g[s \ {Max(s)}] \in S
      BY <1>2, <3>1 DEF IsFold
    <3>3. g[s] = step[<<g[s \ {Max(s)}], Max(s)>>]
      BY <1>2, <2>1 DEF FoldStep, IsFold
    <3> QED
      BY <3>1, <3>2, <3>3
  <2>2. g[{}] = first
    BY <1>2 DEF FoldStep, IsFold
  <2> QED
    BY <1>2, <2>1, <2>2 DEF IsFold
<1>4. F = CHOOSE f : f = body(f)
  BY <1>0 DEF Sorting
<1>5. F = body(F)
  BY <1>3, <1>4
<1>6. ASSUME NEW i \in 1 .. n PROVE F[1 .. i] = TakeReady(nodes, F[1 .. i - 1])
  <2>1. i \in Nat \ {0}
    BY <1>0
  <2>2. Max(1 .. i) = i /\ (1 .. i) \ {i} = 1 .. i - 1 /\ 1 .. i # {}
    BY <2>1, PrefixFacts
  <2>3. 1 .. i \in P
    BY <1>0
  <2> DEFINE s == 1 .. i
             r == 1 .. i - 1
  <2>4. s \in P /\ s # {} /\ s \ {Max(s)} = r
    BY <2>2, <2>3
  <2> HIDE DEF s, r
  <2>5. F[s] = TakeReady(nodes, F[r])
    BY <1>5, <2>4
  <2> QED
    BY <2>5 DEF s, r
<1>7. F[1 .. 0] = first
  <2>1. 1 .. 0 = {}
    OBVIOUS
  <2> QED
    BY <1>5, <2>1
<1> QED
  BY <1>6, <1>7

\* Between two steps: each digest at most once, behind all its parents, and the others wait
\* for the parents that are not placed.
SortInv(D, R, s) ==
    /\ s \in SortStates(D)
    /\ \A i, j \in 1 .. Len(s.order) : s.order[i] = s.order[j] => i = j
    /\ \A d \in D : s.degree[d] = Cardinality(Waits(D, R, d, Range(s.order)))
    /\ \A i \in 1 .. Len(s.order), p \in D :
          <<p, s.order[i]>> \in R => \E j \in 1 .. i - 1 : s.order[j] = p

LEMMA SortStartInv ==
    ASSUME NEW nodes, NEW n, NEW D, NEW R, GraphIs(nodes, n, D, R)
    PROVE  SortInv(D, R, SortStart(nodes))
<1>1. Range(<<>>) = {}
  BY DEF Range
<1> DEFINE s == SortStart(nodes)
<1>2. /\ s \in SortStates(D) /\ s.order = <<>>
      /\ \A d \in D : s.degree[d] = Cardinality(Waits(D, R, d, {}))
  BY SortStartIs
<1> HIDE DEF s
<1>3. Len(s.order) = 0 /\ Range(s.order) = {}
  BY <1>1, <1>2
<1>4. SortInv(D, R, s)
  BY <1>2, <1>3 DEF SortInv
<1> QED
  BY <1>4 DEF s

LEMMA TakeReadyInv ==
    ASSUME NEW nodes, NEW n, NEW D, NEW R, GraphIs(nodes, n, D, R), NEW s, SortInv(D, R, s)
    PROVE  LET t == TakeReady(nodes, s) IN
           /\ SortInv(D, R, t)
           /\ Ready(D, s) # {} => Len(t.order) = Len(s.order) + 1
           /\ Ready(D, s) = {} => t = s
<1> DEFINE t == TakeReady(nodes, s)
<1>1. s \in SortStates(D) /\ s.order \in Seq(D) /\ s.degree \in [D -> Int]
  BY DEF SortInv, SortStates
<1>2. CASE Ready(D, s) = {}
  BY <1>1, <1>2, TakeReadyTakes
<1>3. CASE Ready(D, s) # {}
  <2>1. PICK next \in Ready(D, s) :
          t = [order |-> Append(s.order, next),
               degree |-> [d \in D |-> s.degree[d] - (IF <<next, d>> \in R THEN 1 ELSE 0)]]
    BY <1>1, <1>3, TakeReadyTakes
  <2>2. t \in SortStates(D)
    BY <1>1, TakeReadyTakes
  <2> HIDE DEF t
  <2> DEFINE o == s.order
             u == t.order
             len == Len(o)
  <2>3. next \in D /\ next \notin Range(o) /\ s.degree[next] = 0
    BY DEF Ready
  <2>4. o \in Seq(D) /\ u = Append(o, next) /\ len \in Nat
    BY <1>1, <2>1
  <2>5. Len(u) = len + 1 /\ u[len + 1] = next /\ \A i \in 1 .. len : u[i] = o[i]
    BY <2>4
  <2>6. Range(u) = Range(o) \cup {next}
    <3>1. DOMAIN u = 1 .. len + 1 /\ DOMAIN o = 1 .. len
      BY <2>4
    <3> HIDE DEF u, o, len
    <3> QED
      BY <2>4, <2>5, <3>1 DEF Range
  <2>7. IsFiniteSet(D)
    BY DigestsCounted
  <2>8. \A d \in D : LET w == Waits(D, R, d, Range(o))
                     IN  IsFiniteSet(w) /\ Cardinality(w) \in Nat /\ s.degree[d] = Cardinality(w)
    <3>1. \A d \in D : Waits(D, R, d, Range(o)) \subseteq D
      BY DEF Waits
    <3> QED
      BY <2>7, <3>1, FS_Subset, FS_CardinalityType DEF SortInv
  <2>9. ASSUME NEW d \in D PROVE t.degree[d] = Cardinality(Waits(D, R, d, Range(u)))
    <3> DEFINE w == Waits(D, R, d, Range(o))
    <3>1. Waits(D, R, d, Range(u)) = w \ {next}
      BY <2>6 DEF Waits
    <3>2. next \in w <=> <<next, d>> \in R
      BY <2>3 DEF Waits
    <3>3. t.degree[d] = Cardinality(w) - (IF <<next, d>> \in R THEN 1 ELSE 0)
      BY <2>1, <2>8
    <3>4. IsFiniteSet(w) /\ Cardinality(w) \in Nat
      BY <2>8
    <3> HIDE DEF w
    <3>5. Cardinality(w \ {next}) = Cardinality(w) - (IF next \in w THEN 1 ELSE 0)
      <4>1. next \notin w => w \ {next} = w
        OBVIOUS
      <4>2. next \in w => Cardinality(w \ {next}) = Cardinality(w) - 1
        BY <3>4, FS_RemoveElement
      <4> QED
        BY <3>4, <4>1, <4>2
    <3> QED
      BY <3>1, <3>2, <3>3, <3>5
  <2>10. ASSUME NEW p \in D, <<p, next>> \in R PROVE \E j \in 1 .. len : o[j] = p
    <3>1. Waits(D, R, next, Range(o)) = {}
      BY <2>3, <2>8, FS_EmptySet
    <3>2. p \in Range(o)
      BY <2>10, <3>1 DEF Waits
    <3> QED
      BY <2>4, <3>2 DEF Range
  <2>11. \A i \in 1 .. Len(u), p \in D : <<p, u[i]>> \in R => \E j \in 1 .. i - 1 : u[j] = p
    <3> SUFFICES ASSUME NEW i \in 1 .. Len(u), NEW p \in D, <<p, u[i]>> \in R
                 PROVE  \E j \in 1 .. i - 1 : u[j] = p
      OBVIOUS
    <3>1. CASE i \in 1 .. len
      <4>1. PICK j \in 1 .. i - 1 : o[j] = p
        BY <2>5, <3>1 DEF SortInv
      <4> QED
        BY <2>5, <3>1, <4>1
    <3>2. CASE i = len + 1
      <4>1. PICK j \in 1 .. len : o[j] = p
        BY <2>5, <2>10, <3>2
      <4> QED
        BY <2>5, <3>2, <4>1
    <3> QED
      BY <2>4, <2>5, <3>1, <3>2
  <2>12. \A i, j \in 1 .. Len(u) : u[i] = u[j] => i = j
    <3>1. \A i \in 1 .. len : o[i] \in Range(o)
      BY <2>4 DEF Range
    <3>2. \A i, j \in 1 .. len : o[i] = o[j] => i = j
      BY DEF SortInv
    <3> HIDE DEF o, u, len
    <3> QED
      BY <2>3, <2>4, <2>5, <3>1, <3>2
  <2>13. SortInv(D, R, t)
    BY <2>2, <2>9, <2>11, <2>12 DEF SortInv
  <2> QED
    BY <1>3, <2>5, <2>13 DEF t
<1> QED
  BY <1>2, <1>3

\* The sort has placed as many as it has taken steps, or nothing is ready any more.
LEMMA SortEnds ==
    ASSUME NEW nodes, NEW n, NEW D, NEW R, GraphIs(nodes, n, D, R)
    PROVE  \E s : /\ SortInv(D, R, s) /\ Topological(nodes) = s.order
                  /\ Len(s.order) = n \/ Ready(D, s) = {}
<1> DEFINE F == Sorting(nodes)
           Good == {i \in 0 .. n : /\ SortInv(D, R, F[1 .. i])
                                   /\ Len(F[1 .. i].order) = i \/ Ready(D, F[1 .. i]) = {}}
<1>0. n \in Nat /\ DOMAIN nodes = 1 .. n
  BY DEF GraphIs
<1>1. /\ F[1 .. 0] = SortStart(nodes)
      /\ \A i \in 1 .. n : F[1 .. i] = TakeReady(nodes, F[1 .. i - 1])
  <2> HIDE DEF F
  <2> QED
    BY SortingGrows DEF F
<1> HIDE DEF F
<1>2. 0 \in Good
  <2>1. SortInv(D, R, SortStart(nodes)) /\ SortStart(nodes).order = <<>>
    BY SortStartInv, SortStartIs
  <2> QED
    BY <1>0, <1>1, <2>1
<1>3. ASSUME NEW i \in 0 .. n - 1, i \in Good PROVE i + 1 \in Good
  <2> DEFINE s == F[1 .. i]
             t == F[1 .. i + 1]
  <2>1. t = TakeReady(nodes, s)
    <3>1. i + 1 \in 1 .. n /\ (i + 1) - 1 = i
      BY <1>0
    <3> QED
      BY <1>1, <3>1
  <2>2. SortInv(D, R, s) /\ (Len(s.order) = i \/ Ready(D, s) = {})
    BY <1>3
  <2> HIDE DEF s, t
  <2>3. /\ SortInv(D, R, t)
        /\ Ready(D, s) # {} => Len(t.order) = Len(s.order) + 1
        /\ Ready(D, s) = {} => t = s
    BY <2>1, <2>2, TakeReadyInv
  <2>4. Len(t.order) = i + 1 \/ Ready(D, t) = {}
    BY <2>2, <2>3
  <2> QED
    BY <1>0, <2>3, <2>4 DEF t
<1>4. n \in Good
  <2> HIDE DEF Good
  <2>1. 0 .. n \subseteq Good
    BY <1>0, <1>2, <1>3, NumbersUpTo
  <2> QED
    BY <1>0, <2>1
<1>5. Topological(nodes) = F[1 .. n].order
  BY <1>0, TopologicalFold DEF F
<1> QED
  BY <1>4, <1>5

SortedOut(nodes, n, D, R, order) ==
    /\ order \in Seq(D)
    /\ Len(order) = n <=> \A d \in D : d \notin Ancestors(nodes, d)
    /\ Len(order) = n =>
          /\ Range(order) = D
          /\ \A i, j \in 1 .. n : order[i] = order[j] => i = j
          /\ \A i, j \in 1 .. n : <<order[i], order[j]>> \in R => i < j

\* All are placed exactly when none is its own ancestor, and then each is behind its parents.
LEMMA SortIsExact ==
    ASSUME NEW nodes, NEW n, NEW D, NEW R, GraphIs(nodes, n, D, R),
           NEW order, order = Topological(nodes)
    PROVE  SortedOut(nodes, n, D, R, order)
<1>1. PICK s : /\ SortInv(D, R, s) /\ order = s.order
               /\ Len(s.order) = n \/ Ready(D, s) = {}
  BY SortEnds
<1>2. /\ order \in Seq(D)
      /\ \A i, j \in 1 .. Len(order) : order[i] = order[j] => i = j
      /\ \A d \in D : s.degree[d] = Cardinality(Waits(D, R, d, Range(order)))
      /\ \A i \in 1 .. Len(order), p \in D :
            <<p, order[i]>> \in R => \E j \in 1 .. i - 1 : order[j] = p
  BY <1>1 DEF SortInv, SortStates
<1>3. Len(order) \in Nat /\ DOMAIN order = 1 .. Len(order) /\ Range(order) \subseteq D
  BY <1>2 DEF Range
<1>4. IsFiniteSet(D) /\ Cardinality(D) = n
  BY DigestsCounted
<1>5. /\ n \in Nat /\ DOMAIN nodes = 1 .. n /\ R = Parenthood(nodes)
      /\ \A q \in R : q[1] \in D /\ q[2] \in D /\ q = <<q[1], q[2]>>
  BY DEF GraphIs
<1>6. IsFiniteSet(Range(order)) /\ Cardinality(Range(order)) = Len(order)
  <2>1. /\ order \in [1 .. Len(order) -> Range(order)]
        /\ \A d \in Range(order) : \E i \in 1 .. Len(order) : order[i] = d
    BY <1>2, <1>3 DEF Range
  <2>2. order \in Surjection(1 .. Len(order), Range(order))
    BY <2>1, Fun_IsSurj
  <2>3. order \in Injection(1 .. Len(order), Range(order))
    BY <1>2, <2>1, Fun_IsInj
  <2>4. order \in Bijection(1 .. Len(order), Range(order))
    BY <2>2, <2>3, Fun_IsBij
  <2>5. ExistsBijection(1 .. Len(order), Range(order))
    BY <2>4 DEF ExistsBijection
  <2>6. IsFiniteSet(1 .. Len(order))
    BY <1>3, FS_Interval
  <2> QED
    BY <1>3, <2>5, <2>6, FS_CountingElements, FS_Bijection
<1>7. ASSUME Len(order) = n
      PROVE  /\ Range(order) = D
             /\ \A i, j \in 1 .. n : order[i] = order[j] => i = j
             /\ \A i, j \in 1 .. n : <<order[i], order[j]>> \in R => i < j
             /\ \A d \in D : d \notin Ancestors(nodes, d)
  <2>1. Range(order) = D
    BY <1>3, <1>4, <1>6, <1>7, FS_Subset
  <2>2. \A i, j \in 1 .. n : <<order[i], order[j]>> \in R => i < j
    <3> SUFFICES ASSUME NEW i \in 1 .. n, NEW j \in 1 .. n, <<order[i], order[j]>> \in R
                 PROVE  i < j
      OBVIOUS
    <3>1. order[i] \in D
      BY <1>3, <1>7 DEF Range
    <3>2. PICK k \in 1 .. j - 1 : order[k] = order[i]
      BY <1>2, <1>7, <3>1
    <3>3. k = i
      BY <1>2, <1>7, <3>2
    <3> QED
      BY <3>2, <3>3
  <2>3. ASSUME NEW d \in D PROVE d \notin Ancestors(nodes, d)
    <3>1. PICK i \in 1 .. n : order[i] = d
      BY <1>3, <1>7, <2>1 DEF Range
    <3> DEFINE C == {order[j] : j \in 1 .. i - 1}
    <3>2. ASSUME NEW p, NEW j \in 1 .. i, <<p, order[j]>> \in R PROVE p \in C
      <4>1. p \in D
        <5>1. <<p, order[j]>>[1] = p
          OBVIOUS
        <5> QED
          BY <1>5, <3>2, <5>1
      <4>2. PICK k \in 1 .. j - 1 : order[k] = p
        BY <1>2, <1>7, <3>2, <4>1
      <4> QED
        BY <4>2
    <3>3. Closed(R, C)
      <4> SUFFICES ASSUME NEW q \in R, q[2] \in C PROVE q[1] \in C
        BY DEF Closed
      <4>1. PICK j \in 1 .. i - 1 : q[2] = order[j]
        OBVIOUS
      <4>2. <<q[1], order[j]>> \in R /\ j \in 1 .. i
        BY <1>5, <4>1
      <4> HIDE DEF C
      <4> QED
        BY <3>2, <4>2
    <3>4. ParentsOfOne(R, d) \subseteq C
      <4> SUFFICES ASSUME NEW q \in R, q[2] = d PROVE q[1] \in C
        BY DEF ParentsOfOne
      <4>1. <<q[1], order[i]>> \in R /\ i \in 1 .. i
        BY <1>5, <3>1
      <4> HIDE DEF C
      <4> QED
        BY <3>2, <4>1
    <3>5. d \notin C
      BY <1>2, <1>7, <3>1
    <3> HIDE DEF C
    <3>6. Ancestors(nodes, d) \subseteq C
      BY <1>5, <3>3, <3>4, AncestorsAreLeast
    <3> QED
      BY <3>5, <3>6
  <2> QED
    BY <1>2, <1>7, <2>1, <2>2, <2>3
<1>8. ASSUME Len(order) # n PROVE \E d \in D : d \in Ancestors(nodes, d)
  <2> DEFINE W == D \ Range(order)
  <2>1. W # {}
    <3> SUFFICES ASSUME W = {} PROVE FALSE
      OBVIOUS
    <3>1. Range(order) = D
      BY <1>3
    <3> QED
      BY <1>4, <1>6, <1>8, <3>1
  <2>2. ASSUME NEW x \in W PROVE \E y \in W : <<y, x>> \in R
    <3>1. Ready(D, s) = {}
      BY <1>1, <1>8
    <3>2. s.degree[x] # 0
      BY <1>1, <3>1 DEF Ready
    <3>3. Waits(D, R, x, Range(order)) # {}
      <4>1. x \in D /\ s.degree[x] = Cardinality(Waits(D, R, x, Range(order)))
        BY <1>2
      <4>2. Cardinality({}) = 0
        BY FS_EmptySet
      <4> QED
        BY <3>2, <4>1, <4>2
    <3> QED
      BY <3>3 DEF Waits
  <2> HIDE DEF W
  <2>3. W \subseteq D
    BY DEF W
  <2>4. \E x \in W : x \in Ancestors(nodes, x)
    BY <2>1, <2>2, <2>3, CycleExists
  <2> QED
    BY <2>3, <2>4
<1> QED
  BY <1>2, <1>7, <1>8 DEF SortedOut

\* Another order of the same nodes is the same to every check, and to the sort.
LEMMA OrderOfNodesIsIgnored ==
    ASSUME NEW nodes, NEW n \in Nat, nodes \in Seq(Range(nodes)), Len(nodes) = n,
           NEW policy
    PROVE  VerifyLineage(Reverse(nodes), policy, n) = VerifyLineage(nodes, policy, n)
<1> DEFINE back == Reverse(nodes)
<1>1. /\ DOMAIN nodes = 1 .. n /\ DOMAIN back = 1 .. n /\ Len(back) = n
      /\ \A i \in 1 .. n : (n - i) + 1 \in 1 .. n /\ back[i] = nodes[(n - i) + 1]
      /\ \A i \in 1 .. n : nodes[i] = back[(n - i) + 1]
  <2>1. back = [i \in 1 .. n |-> nodes[(n - i) + 1]]
    BY DEF Reverse
  <2>2. DOMAIN nodes = 1 .. n
    OBVIOUS
  <2>3. \A i \in 1 .. n : (n - i) + 1 \in 1 .. n /\ (n - ((n - i) + 1)) + 1 = i
    OBVIOUS
  <2>4. \A i \in 1 .. n : back[i] \in Range(nodes)
    BY <2>1, <2>2, <2>3 DEF Range
  <2>5. back \in Seq(Range(nodes)) /\ Len(back) = n
    BY <2>1, <2>4
  <2> HIDE DEF back
  <2>6. \A i \in 1 .. n : nodes[i] = back[(n - i) + 1]
    BY <2>1, <2>3
  <2> QED
    BY <2>1, <2>2, <2>3, <2>5, <2>6
<1> HIDE DEF back
<1>2. \A i \in 1 .. n : (\E j \in 1 .. n : back[j] = nodes[i]) /\ (\E j \in 1 .. n : nodes[j] = back[i])
  BY <1>1
<1>3. Range(back) = Range(nodes)
  <2>1. \A x : x \in Range(back) <=> \E j \in 1 .. n : back[j] = x
    BY <1>1 DEF Range
  <2>2. \A x : x \in Range(nodes) <=> \E j \in 1 .. n : nodes[j] = x
    BY <1>1 DEF Range
  <2>3. \A x : x \in Range(back) <=> x \in Range(nodes)
    BY <1>2, <2>1, <2>2
  <2> QED
    BY <2>3
<1>4. ASSUME NEW s PROVE TakeReady(back, s) = TakeReady(nodes, s)
  <2> DEFINE next == Min({d \in DOMAIN s.degree : s.degree[d] = 0 /\ d \notin Range(s.order)})
  <2>1. \A d : (\E i \in DOMAIN back : back[i].sha256 = d /\ next \in ParentDigests(back[i]))
               <=> (\E i \in DOMAIN nodes : nodes[i].sha256 = d /\ next \in ParentDigests(nodes[i]))
    <3> HIDE DEF next
    <3> QED
      BY <1>1, <1>2
  <2> QED
    BY <2>1 DEF TakeReady
<1>5. Topological(back) = Topological(nodes)
  <2>1. SortStart(back) = SortStart(nodes)
    BY <1>3 DEF SortStart
  <2>2. DOMAIN back = DOMAIN nodes
    BY <1>1
  <2>3. Sorting(back) = Sorting(nodes)
    BY <1>4, <2>1, <2>2, Zenon DEF Sorting
  <2> QED
    BY <2>2, <2>3, TopologicalFold
<1>6. NoCollision(back) <=> NoCollision(nodes)
  <2>1. ASSUME NoCollision(nodes), NEW i \in 1 .. n, NEW j \in 1 .. n, i # j
        PROVE  PrefixOf(back[i].sha256) # PrefixOf(back[j].sha256)
    <3>1. (n - i) + 1 # (n - j) + 1 /\ (n - i) + 1 \in 1 .. n /\ (n - j) + 1 \in 1 .. n
      BY <2>1
    <3>2. back[i] = nodes[(n - i) + 1] /\ back[j] = nodes[(n - j) + 1]
      BY <1>1
    <3>3. DOMAIN nodes = 1 .. n
      BY <1>1
    <3> HIDE DEF back
    <3> QED
      BY <2>1, <3>1, <3>2, <3>3 DEF NoCollision
  <2>2. ASSUME NoCollision(back), NEW i \in 1 .. n, NEW j \in 1 .. n, i # j
        PROVE  PrefixOf(nodes[i].sha256) # PrefixOf(nodes[j].sha256)
    <3>1. (n - i) + 1 # (n - j) + 1 /\ (n - i) + 1 \in 1 .. n /\ (n - j) + 1 \in 1 .. n
      BY <2>2
    <3>2. nodes[i] = back[(n - i) + 1] /\ nodes[j] = back[(n - j) + 1]
      BY <1>1
    <3> QED
      BY <1>1, <2>2, <3>1, <3>2 DEF NoCollision
  <2> QED
    BY <1>1, <2>1, <2>2 DEF NoCollision
<1>7. ASSUME NEW m PROVE LinksHold(back, m, policy) <=> LinksHold(nodes, m, policy)
  <2>1. \A link : (\E i \in DOMAIN back : back[i].sha256 = link.sha256 /\ back[i].type = link.type)
                  <=> (\E i \in DOMAIN nodes : nodes[i].sha256 = link.sha256
                                               /\ nodes[i].type = link.type)
    <3>1. ASSUME NEW link, NEW i \in 1 .. n, back[i].sha256 = link.sha256, back[i].type = link.type
          PROVE  \E j \in 1 .. n : nodes[j].sha256 = link.sha256 /\ nodes[j].type = link.type
      <4>1. PICK j \in 1 .. n : nodes[j] = back[i]
        BY <1>2
      <4> QED
        BY <3>1, <4>1
    <3>2. ASSUME NEW link, NEW i \in 1 .. n, nodes[i].sha256 = link.sha256, nodes[i].type = link.type
          PROVE  \E j \in 1 .. n : back[j].sha256 = link.sha256 /\ back[j].type = link.type
      <4>1. PICK j \in 1 .. n : back[j] = nodes[i]
        BY <1>2
      <4> QED
        BY <3>2, <4>1
    <3> QED
      BY <1>1, <3>1, <3>2
  <2> QED
    BY <2>1 DEF LinksHold
<1>8. (\A i \in DOMAIN back : RolesAreUnique(back[i]) /\ LinksHold(back, back[i], policy))
      <=> (\A i \in DOMAIN nodes : RolesAreUnique(nodes[i]) /\ LinksHold(nodes, nodes[i], policy))
  BY <1>1, <1>2, <1>7
<1>9. back # <<>> <=> nodes # <<>>
  BY <1>1
<1>10. VerifyLineage(back, policy, n) = VerifyLineage(nodes, policy, n)
  BY <1>1, <1>5, <1>6, <1>8, <1>9 DEF VerifyLineage
<1> QED
  BY <1>10 DEF back

\* verify_lineage accepts what is acyclic, in an order of its own.
THEOREM LineagesAreOrdered ==
    ASSUME NEW nodes, NEW n \in Nat, nodes \in Seq(Range(nodes)), Len(nodes) = n,
           \A i \in 1 .. n : nodes[i].sha256 \in Nat,
           NEW policy, Refused \notin Seq(Nat)
    PROVE  LineageIsOrdered(nodes, policy)
<1> DEFINE order == VerifyLineage(nodes, policy, n)
           top == Topological(nodes)
           D == {nodes[i].sha256 : i \in 1 .. n}
           R == Parenthood(nodes)
           legal == /\ nodes # <<>> /\ NoCollision(nodes)
                    /\ \A i \in DOMAIN nodes :
                          RolesAreUnique(nodes[i]) /\ LinksHold(nodes, nodes[i], policy)
           acyclic == \A m \in Range(nodes) : m.sha256 \notin Ancestors(nodes, m.sha256)
           Position(d) == CHOOSE i \in DOMAIN order : order[i] = d
<1>1. DOMAIN nodes = 1 .. n
  OBVIOUS
<1>2. {m.sha256 : m \in Range(nodes)} = D
  BY <1>1 DEF Range
<1>3. order = IF legal /\ Len(top) = n THEN top ELSE Refused
  BY DEF VerifyLineage
<1>4. ASSUME legal PROVE GraphIs(nodes, n, D, R)
  <2>1. \A i, j \in 1 .. n : nodes[i].sha256 = nodes[j].sha256 => i = j
    BY <1>1, <1>4 DEF NoCollision
  <2>2. ASSUME NEW q \in R
        PROVE  \E i \in 1 .. n : \E link \in nodes[i].parents :
                  /\ q = <<link.sha256, nodes[i].sha256>>
                  /\ \E j \in 1 .. n : nodes[j].sha256 = link.sha256
    <3>0. PICK i \in 1 .. n : \E link \in nodes[i].parents : q = <<link.sha256, nodes[i].sha256>>
      BY <1>1 DEF Parenthood, Range
    <3>1. PICK link \in nodes[i].parents : q = <<link.sha256, nodes[i].sha256>>
      BY <3>0
    <3>2. \E j \in 1 .. n : nodes[j].sha256 = link.sha256
      BY <1>1, <1>4, <3>1 DEF LinksHold
    <3> QED
      BY <3>1, <3>2
  <2>3. ASSUME NEW q \in R PROVE q[1] \in D /\ q[2] \in D /\ q = <<q[1], q[2]>>
    BY <2>2
  <2>4. ASSUME NEW i \in 1 .. n, NEW p
        PROVE  <<p, nodes[i].sha256>> \in R <=> p \in ParentDigests(nodes[i])
    <3>1. ASSUME <<p, nodes[i].sha256>> \in R PROVE p \in ParentDigests(nodes[i])
      <4>1. PICK j \in 1 .. n : \E link \in nodes[j].parents :
                <<p, nodes[i].sha256>> = <<link.sha256, nodes[j].sha256>>
        BY <2>2, <3>1
      <4>2. j = i
        BY <2>1, <4>1
      <4> QED
        BY <4>1, <4>2 DEF ParentDigests
    <3>2. ASSUME p \in ParentDigests(nodes[i]) PROVE <<p, nodes[i].sha256>> \in R
      BY <1>1, <3>2 DEF Parenthood, ParentDigests, Range
    <3> QED
      BY <3>1, <3>2
  <2> QED
    BY <1>1, <2>1, <2>3, <2>4 DEF GraphIs
<1>5. acyclic <=> \A d \in D : d \notin Ancestors(nodes, d)
  BY <1>2
<1>6. ASSUME legal
      PROVE  /\ top \in Seq(Nat)
             /\ Len(top) = n <=> acyclic
             /\ Len(top) = n =>
                   /\ Range(top) = D
                   /\ \A i, j \in 1 .. n : top[i] = top[j] => i = j
                   /\ \A i, j \in 1 .. n : <<top[i], top[j]>> \in R => i < j
  <2>1. GraphIs(nodes, n, D, R) /\ D \subseteq Nat
    BY <1>4, <1>6
  <2> HIDE DEF D, R, acyclic
  <2>2. SortedOut(nodes, n, D, R, top)
    BY <2>1, SortIsExact
  <2> HIDE DEF top
  <2>3. /\ top \in Seq(D) /\ (Len(top) = n <=> \A d \in D : d \notin Ancestors(nodes, d))
        /\ (Len(top) = n =>
              /\ Range(top) = D
              /\ \A i, j \in 1 .. n : top[i] = top[j] => i = j
              /\ \A i, j \in 1 .. n : <<top[i], top[j]>> \in R => i < j)
    BY <2>2 DEF SortedOut
  <2>4. top \in Seq(Nat)
    <3>1. ASSUME NEW i \in 1 .. Len(top) PROVE top[i] \in Nat
      <4>1. top[i] \in D
        BY <2>3
      <4> QED
        BY <2>1, <4>1
    <3>2. top = [i \in 1 .. Len(top) |-> top[i]] /\ Len(top) \in Nat
      BY <2>3
    <3> QED
      BY <3>1, <3>2
  <2> QED
    BY <1>5, <2>3, <2>4
<1>7. order # Refused <=> legal /\ acyclic
  <2> HIDE DEF legal, acyclic, top, order
  <2> QED
    BY <1>3, <1>6
<1>8. ASSUME order # Refused
      PROVE  /\ Range(order) = D
             /\ \A p \in R : Position(p[1]) < Position(p[2])
             /\ order = VerifyLineage(Reverse(nodes), policy, n)
  <2>0. legal /\ order = top /\ Len(top) = n
    <3> HIDE DEF legal, top, order
    <3> QED
      BY <1>3, <1>8
  <2>1. \A q \in R : q[1] \in D /\ q[2] \in D /\ q = <<q[1], q[2]>>
    <3> HIDE DEF legal
    <3> QED
      BY <1>4, <2>0 DEF GraphIs
  <2> HIDE DEF legal, acyclic, top, D, R
  <2>2. /\ order \in Seq(Nat) /\ Len(order) = n /\ Range(order) = D
        /\ \A i, j \in 1 .. n : order[i] = order[j] => i = j
        /\ \A i, j \in 1 .. n : <<order[i], order[j]>> \in R => i < j
    BY <1>6, <2>0
  <2> HIDE DEF order
  <2>3. DOMAIN order = 1 .. n
    BY <2>2
  <2>4. ASSUME NEW d \in D PROVE Position(d) \in 1 .. n /\ order[Position(d)] = d
    <3>1. \E i \in DOMAIN order : order[i] = d
      BY <2>2, <2>3 DEF Range
    <3> QED
      BY <2>3, <3>1
  <2> HIDE DEF Position
  <2>5. ASSUME NEW p \in R PROVE Position(p[1]) < Position(p[2])
    <3>1. /\ Position(p[1]) \in 1 .. n /\ order[Position(p[1])] = p[1]
          /\ Position(p[2]) \in 1 .. n /\ order[Position(p[2])] = p[2]
          /\ <<p[1], p[2]>> \in R
      BY <2>1, <2>4
    <3> QED
      BY <2>2, <3>1
  <2>6. order = VerifyLineage(Reverse(nodes), policy, n)
    BY OrderOfNodesIsIgnored DEF order
  <2> QED
    BY <2>2, <2>5, <2>6
<1> HIDE DEF R
<1>9. LineageIsOrdered(nodes, policy) <=>
         /\ order # Refused <=> legal /\ acyclic
         /\ order # Refused =>
               /\ Range(order) = {m.sha256 : m \in Range(nodes)}
               /\ \A p \in R : Position(p[1]) < Position(p[2])
               /\ order = VerifyLineage(Reverse(nodes), policy, n)
  BY DEF LineageIsOrdered, R
<1> HIDE DEF order, legal, acyclic, Position, D
<1> QED
  BY <1>2, <1>7, <1>8, <1>9

-----------------------------------------------------------------------------
(* Orders, and the ranges of tensors.                                      *)

\* The rank of each member of a finite set in a strict total order.
Rank(S, before, x) == Cardinality({y \in S : <<y, x>> \in before})

\* A sequence of the members of a finite set, each of them once.
Enumerates(S, q) ==
    /\ Cardinality(S) \in Nat /\ q \in [1 .. Cardinality(S) -> S]
    /\ \A x \in S : \E i \in 1 .. Cardinality(S) : q[i] = x
    /\ \A i, j \in 1 .. Cardinality(S) : q[i] = q[j] => i = j

StrictOrder(S, before) ==
    /\ \A x, y \in S : x # y => (<<x, y>> \in before \/ <<y, x>> \in before)
    /\ \A x \in S : <<x, x>> \notin before
    /\ \A x, y, z \in S : <<x, y>> \in before /\ <<y, z>> \in before => <<x, z>> \in before

PicksRanks(S, before, q) ==
    /\ q = [i \in 1 .. Cardinality(S) |-> q[i]]
    /\ \A i \in 1 .. Cardinality(S) :
          (\E x \in S : Rank(S, before, x) = i - 1) => q[i] \in S /\ Rank(S, before, q[i]) = i - 1

\* Ranks number a finite set: a sequence that picks the member of each rank has each
\* member once.
LEMMA RanksNumber ==
    ASSUME NEW S, IsFiniteSet(S), NEW before, StrictOrder(S, before),
           NEW q, PicksRanks(S, before, q)
    PROVE  Enumerates(S, q)
<1> USE DEF StrictOrder, PicksRanks
<1> DEFINE n == Cardinality(S)
           Below(x) == {y \in S : <<y, x>> \in before}
           r == [x \in S |-> Rank(S, before, x) + 1]
<1>1. n \in Nat
  BY FS_CardinalityType
<1>2. \A x : IsFiniteSet(Below(x)) /\ Cardinality(Below(x)) \in Nat /\ Rank(S, before, x) = Cardinality(Below(x))
  BY FS_Subset, FS_CardinalityType DEF Rank
<1>3. ASSUME NEW x \in S, NEW T, T \subseteq S, Below(x) \subseteq T \ {x}, x \in T
      PROVE  Cardinality(Below(x)) <= Cardinality(T) - 1
  <2>1. IsFiniteSet(T)
    BY <1>3, FS_Subset
  <2>2. IsFiniteSet(T \ {x}) /\ Cardinality(T \ {x}) = Cardinality(T) - 1
    BY <1>3, <2>1, FS_RemoveElement
  <2> HIDE DEF Below
  <2> QED
    BY <1>3, <2>2, FS_Subset
<1>4. \A x \in S : r[x] = Cardinality(Below(x)) + 1 /\ Cardinality(Below(x)) \in Nat
                   /\ Rank(S, before, x) = r[x] - 1
  <2> SUFFICES ASSUME NEW x \in S
               PROVE  r[x] = Cardinality(Below(x)) + 1 /\ Cardinality(Below(x)) \in Nat
                      /\ Rank(S, before, x) = r[x] - 1
    OBVIOUS
  <2>1. r[x] = Rank(S, before, x) + 1
    OBVIOUS
  <2> HIDE DEF r, Below
  <2> QED
    BY <1>2, <2>1
<1>5. \A x \in S : r[x] \in 1 .. n
  <2> SUFFICES ASSUME NEW x \in S PROVE r[x] \in 1 .. n
    OBVIOUS
  <2>1. Cardinality(Below(x)) <= n - 1
    BY <1>3
  <2> HIDE DEF r, Below
  <2> QED
    BY <1>1, <1>4, <2>1
<1>6. ASSUME NEW x \in S, NEW y \in S, <<x, y>> \in before PROVE r[x] < r[y]
  <2>1. Below(x) \subseteq Below(y) \ {x} /\ x \in Below(y) /\ Below(y) \subseteq S
    BY <1>6
  <2>2. Cardinality(Below(x)) <= Cardinality(Below(y)) - 1
    <3> HIDE DEF Below
    <3> QED
      BY <1>3, <2>1
  <2> HIDE DEF r, Below
  <2> QED
    BY <1>4, <2>2
<1> HIDE DEF r, Below
<1>7. ASSUME NEW x \in S, NEW y \in S, r[x] = r[y] PROVE x = y
  <2>1. x # y => r[x] < r[y] \/ r[y] < r[x]
    BY <1>6
  <2>2. r[x] \in 1 .. n
    BY <1>5
  <2> QED
    BY <1>1, <1>7, <2>1, <2>2
<1>8. \A i \in 1 .. n : \E x \in S : r[x] = i
  <2>1. IsFiniteSet(1 .. n) /\ Cardinality(1 .. n) = n
    <3>1. IsFiniteSet(1 .. n) /\ Cardinality(1 .. n) = (IF 1 > n THEN 0 ELSE n - 1 + 1)
      BY ONLY <1>1, 1 \in Int, FS_Interval
    <3> QED
      BY <1>1, <3>1
  <2>2. r \in [S -> 1 .. n]
    BY <1>5 DEF r
  <2>3. r \in Injection(S, 1 .. n)
    BY <1>7, <2>2, Fun_IsInj
  <2>4. r \in Surjection(S, 1 .. n)
    BY <2>1, <2>3, FS_Injection
  <2> QED
    BY <2>4 DEF Surjection
<1>9. ASSUME NEW i \in 1 .. n PROVE q[i] \in S /\ r[q[i]] = i
  <2>1. PICK x \in S : r[x] = i
    BY <1>8
  <2>2. Rank(S, before, x) = i - 1
    BY <1>4, <2>1
  <2>3. q[i] \in S /\ Rank(S, before, q[i]) = i - 1
    BY <2>2
  <2> QED
    BY <1>1, <1>4, <1>5, <2>3
<1>10. q \in [1 .. n -> S]
  BY <1>9
<1>11. \A x \in S : \E i \in 1 .. n : q[i] = x
  BY <1>5, <1>7, <1>9
<1>12. \A i, j \in 1 .. n : q[i] = q[j] => i = j
  BY <1>9
<1> QED
  BY <1>1, <1>10, <1>11, <1>12 DEF Enumerates

\* Where the walk over the sorted ranges is after the positions in s.
CursorAfter(entries) ==
    LET q == Sorted(entries)
        at[s \in SUBSET DOMAIN q] ==
            IF s = {} THEN 0
            ELSE IF entries[q[Max(s)]].start = at[s \ {Max(s)}] THEN entries[q[Max(s)]].end ELSE -1
    IN  at

LEMMA CursorFold == \A entries : Cursor(entries) = CursorAfter(entries)[DOMAIN Sorted(entries)]
  BY DEF Cursor, FoldLeft, MapThenFoldSet, CursorAfter

LEMMA SortedNumbers ==
    ASSUME NEW entries, IsFiniteSet(DOMAIN entries), DOMAIN entries \subseteq Nat,
           \A x \in DOMAIN entries : entries[x].start \in Nat /\ entries[x].end \in Nat,
           NEW q, q = Sorted(entries)
    PROVE  Enumerates(DOMAIN entries, q)
<1> DEFINE S == DOMAIN entries
           m == Cardinality(S)
           before == {p \in S \X S : Before(p[1], p[2], entries)}
<1>1. \A x, y \in S : <<x, y>> \in before <=> Before(x, y, entries)
  OBVIOUS
<1>2. \A x, y \in S : x # y => (Before(x, y, entries) \/ Before(y, x, entries))
  BY DEF Before
<1>3. \A x \in S : ~Before(x, x, entries)
  BY DEF Before
<1>4. ASSUME NEW x \in S, NEW y \in S, NEW z \in S, Before(x, y, entries), Before(y, z, entries)
      PROVE  Before(x, z, entries)
  <2>1. x \in Nat /\ y \in Nat /\ z \in Nat
    OBVIOUS
  <2> QED
    BY <1>4, <2>1 DEF Before
<1>5. q = [i \in 1 .. m |-> CHOOSE x \in S : Cardinality({y \in S : Before(y, x, entries)}) = i - 1]
  BY DEF Sorted, InOrder
<1>6. \A x \in S : {y \in S : Before(y, x, entries)} = {y \in S : <<y, x>> \in before}
  BY <1>1
<1> HIDE DEF before
<1>7. PicksRanks(S, before, q)
  <2>1. ASSUME NEW i \in 1 .. m, NEW x \in S, Rank(S, before, x) = i - 1
        PROVE  q[i] \in S /\ Rank(S, before, q[i]) = i - 1
    <3>1. \A y \in S : Cardinality({z \in S : Before(z, y, entries)}) = Rank(S, before, y)
      BY <1>6 DEF Rank
    <3>2. q[i] = CHOOSE y \in S : Cardinality({z \in S : Before(z, y, entries)}) = i - 1
      BY <1>5
    <3> QED
      BY <2>1, <3>1, <3>2
  <2> QED
    BY <1>5, <2>1 DEF PicksRanks
<1>8. StrictOrder(S, before)
  BY <1>1, <1>2, <1>3, <1>4 DEF StrictOrder
<1>9. IsFiniteSet(S)
  OBVIOUS
<1> SUFFICES Enumerates(S, q)
  OBVIOUS
<1> HIDE DEF S
<1> QED
  BY <1>7, <1>8, <1>9, RanksNumber

WalksOver(entries, q, m, F) ==
    /\ F[1 .. 0] = 0
    /\ \A i \in 1 .. m :
          F[1 .. i] = IF entries[q[i]].start = F[1 .. i - 1] THEN entries[q[i]].end ELSE -1

LEMMA CursorMoves ==
    ASSUME NEW entries, NEW q, q = Sorted(entries), NEW m \in Nat,
           q \in [1 .. m -> DOMAIN entries],
           \A x \in DOMAIN entries : entries[x].start \in Nat /\ entries[x].end \in Nat,
           NEW F, F = CursorAfter(entries)
    PROVE  WalksOver(entries, q, m, F)
<1> DEFINE P == SUBSET (1 .. m)
           step == [p \in Int \X (1 .. m) |->
                       IF entries[q[p[2]]].start = p[1] THEN entries[q[p[2]]].end ELSE -1]
           body(g) == [s \in P |-> IF s = {} THEN 0
                                   ELSE IF entries[q[Max(s)]].start = g[s \ {Max(s)}]
                                        THEN entries[q[Max(s)]].end ELSE -1]
<1>1. step \in [Int \X (1 .. m) -> Int]
  OBVIOUS
<1>2. PICK g : IsFold(m, Int, 0, step, g)
  <2>1. 0 \in Int
    OBVIOUS
  <2> HIDE DEF step
  <2> QED
    BY <1>1, <2>1, FoldsExist
<1>3. g = body(g)
  <2>1. ASSUME NEW s \in P, s # {}
        PROVE  g[s] = IF entries[q[Max(s)]].start = g[s \ {Max(s)}]
                      THEN entries[q[Max(s)]].end ELSE -1
    <3>1. s \ {Max(s)} \in P /\ Max(s) \in 1 .. m
      BY <2>1, MaxFacts
    <3>2. g[s \ {Max(s)}] \in Int
      BY <1>2, <3>1 DEF IsFold
    <3>3. g[s] = step[<<g[s \ {Max(s)}], Max(s)>>]
      BY <1>2, <2>1 DEF FoldStep, IsFold
    <3> QED
      BY <3>1, <3>2, <3>3
  <2>2. g[{}] = 0
    BY <1>2 DEF FoldStep, IsFold
  <2> QED
    BY <1>2, <2>1, <2>2 DEF IsFold
<1>4. F = CHOOSE f : f = body(f)
  BY DEF CursorAfter
<1>5. F = body(F)
  BY <1>3, <1>4
<1>6. ASSUME NEW i \in 1 .. m
      PROVE  F[1 .. i] = IF entries[q[i]].start = F[1 .. i - 1] THEN entries[q[i]].end ELSE -1
  <2>1. i \in Nat \ {0} /\ 1 .. i \in P
    OBVIOUS
  <2>2. Max(1 .. i) = i /\ (1 .. i) \ {i} = 1 .. i - 1 /\ 1 .. i # {}
    BY <2>1, PrefixFacts
  <2> DEFINE s == 1 .. i
             r == 1 .. i - 1
  <2>3. s \in P /\ s # {} /\ s \ {Max(s)} = r /\ Max(s) = i
    BY <2>1, <2>2
  <2> HIDE DEF s, r
  <2>4. F[s] = IF entries[q[i]].start = F[r] THEN entries[q[i]].end ELSE -1
    BY <1>5, <2>3
  <2> QED
    BY <2>4 DEF s, r
<1>7. F[1 .. 0] = 0
  <2>1. 1 .. 0 = {}
    OBVIOUS
  <2> QED
    BY <1>5, <2>1
<1> QED
  BY <1>6, <1>7 DEF WalksOver

\* safe_read_tensors: the ranges of a readable file leave no byte out and share none.
THEOREM TensorsAreTiled ==
    ASSUME NEW file, NEW expected, IsFiniteSet(expected), expected \subseteq Nat, NEW limits,
           file.bytes \in Nat, file.header \in Nat,
           \A x \in DOMAIN file.entries :
              file.entries[x].start \in Nat /\ file.entries[x].end \in Nat
    PROVE  TensorsTile(file, expected, limits)
<1> DEFINE entries == file.entries
           size == file.bytes - (8 + file.header)
           q == Sorted(entries)
           m == Cardinality(DOMAIN entries)
           F == CursorAfter(entries)
           c(i) == F[1 .. i]
           Owners(byte) == {x \in DOMAIN entries : entries[x].start <= byte /\ byte < entries[x].end}
<1> SUFFICES ASSUME TensorsAreReadable(file, expected, limits), NEW byte \in 0 .. size - 1
             PROVE  Cardinality(Owners(byte)) = 1
  BY DEF TensorsTile
<1>1. /\ DOMAIN entries = expected /\ size \in Nat /\ Cursor(entries) = size
      /\ \A x \in DOMAIN entries : entries[x].start <= entries[x].end
  <2>1. HeaderIsWhole(file.bytes, file.header, limits) => size \in Nat
    BY DEF HeaderIsWhole
  <2>2. \A x : RangeFits(entries[x], size, limits) => entries[x].start <= entries[x].end
    BY DEF RangeFits
  <2> HIDE DEF entries
  <2> QED
    BY <2>1, <2>2 DEF TensorsAreReadable, entries
<1>2. \A x \in DOMAIN entries : entries[x].start \in Nat /\ entries[x].end \in Nat
  OBVIOUS
<1> HIDE DEF entries, size, q, m, F
<1>3. /\ m \in Nat /\ q \in [1 .. m -> DOMAIN entries]
      /\ \A x \in DOMAIN entries : \E i \in 1 .. m : q[i] = x
      /\ \A i, j \in 1 .. m : q[i] = q[j] => i = j
  <2>1. Enumerates(DOMAIN entries, q)
    BY <1>1, <1>2, SortedNumbers DEF q
  <2> QED
    BY <2>1 DEF Enumerates, m
<1>4. /\ c(0) = 0
      /\ \A i \in 1 .. m : c(i) = IF entries[q[i]].start = c(i - 1) THEN entries[q[i]].end ELSE -1
  <2>1. WalksOver(entries, q, m, F)
    BY <1>2, <1>3, CursorMoves DEF F, q
  <2> QED
    BY <2>1 DEF WalksOver
<1>5. c(m) = size
  BY <1>1, <1>3, CursorFold DEF F, q
<1> HIDE DEF c
\* Once it has left the ranges, the cursor does not come back.
<1>6. ASSUME NEW i \in 0 .. m PROVE c(i) \in Nat \/ c(i) = -1
  <2>1. CASE i = 0
    BY <1>4, <2>1
  <2>2. CASE i \in 1 .. m
    <3>1. entries[q[i]].end \in Nat
      BY <1>2, <1>3, <2>2
    <3> QED
      BY <1>4, <2>2, <3>1
  <2> QED
    BY <1>3, <2>1, <2>2
<1>7. \A k \in 0 .. m : c(m - k) # -1
  <2> DEFINE Good == {k \in 0 .. m : c(m - k) # -1}
  <2>1. 0 \in Good
    BY <1>1, <1>3, <1>5
  <2>2. ASSUME NEW k \in 0 .. m - 1, k \in Good PROVE k + 1 \in Good
    <3>1. m - k \in 1 .. m /\ (m - k) - 1 = m - (k + 1) /\ k + 1 \in 0 .. m
      BY <1>3
    <3>2. entries[q[m - k]].start = c(m - (k + 1))
      BY <1>4, <2>2, <3>1
    <3>3. entries[q[m - k]].start \in Nat
      BY <1>2, <1>3, <3>1
    <3> QED
      BY <3>1, <3>2, <3>3
  <2>3. 0 .. m \subseteq Good
    <3> HIDE DEF Good
    <3> QED
      BY <1>3, <2>1, <2>2, NumbersUpTo
  <2> QED
    BY <2>3
<1>8. ASSUME NEW i \in 1 .. m
      PROVE  /\ entries[q[i]].start = c(i - 1) /\ entries[q[i]].end = c(i)
             /\ c(i - 1) \in Nat /\ c(i) \in Nat /\ c(i - 1) <= c(i)
  <2>1. m - i \in 0 .. m /\ m - (m - i) = i
    BY <1>3
  <2>2. c(i) # -1
    BY <1>7, <2>1
  <2>3. entries[q[i]].start = c(i - 1) /\ entries[q[i]].end = c(i)
    BY <1>4, <2>2
  <2>4. q[i] \in DOMAIN entries
    BY <1>3
  <2> QED
    BY <1>1, <1>2, <2>3, <2>4
\* The ranges end in the order in which they are walked.
<1>9. \A i \in 0 .. m : c(i) \in Nat
  BY <1>4, <1>3, <1>8
<1>10. ASSUME NEW i \in 0 .. m PROVE \A j \in i .. m : c(i) <= c(j)
  <2> DEFINE Good == {k \in 0 .. m - i : c(i) <= c(i + k)}
  <2>1. 0 \in Good
    BY <1>3, <1>9
  <2>2. ASSUME NEW k \in 0 .. m - i - 1, k \in Good PROVE k + 1 \in Good
    <3>1. i + (k + 1) \in 1 .. m /\ (i + (k + 1)) - 1 = i + k /\ i + k \in 0 .. m
          /\ k + 1 \in 0 .. m - i
      BY <1>3
    <3>2. c(i + k) <= c(i + (k + 1)) /\ c(i) <= c(i + k)
      BY <1>8, <2>2, <3>1
    <3> QED
      BY <1>9, <3>1, <3>2
  <2>3. 0 .. m - i \subseteq Good
    <3>1. m - i \in Nat
      BY <1>3
    <3> HIDE DEF Good
    <3> QED
      BY <2>1, <2>2, <3>1, NumbersUpTo
  <2>4. ASSUME NEW j \in i .. m PROVE c(i) <= c(j)
    <3>1. j - i \in 0 .. m - i /\ i + (j - i) = j
      BY <1>3
    <3>2. j - i \in Good
      <4> HIDE DEF Good
      <4> QED
        BY <2>3, <3>1
    <3> QED
      BY <3>1, <3>2
  <2> QED
    BY <2>4
<1>11. PICK i \in 1 .. m : c(i - 1) <= byte /\ byte < c(i)
  <2> DEFINE Past == {k \in 0 .. m : byte < c(k)}
  <2>1. m \in Past
    BY <1>1, <1>3, <1>5
  <2>2. PICK k \in Past : \A l \in Past : k <= l
    <3>1. Past \in SUBSET Nat /\ Past # {}
      BY <1>3, <2>1
    <3> HIDE DEF Past
    <3> QED
      BY <3>1, Least
  <2>3. k # 0
    BY <1>1, <1>4, <2>2
  <2>4. k \in 1 .. m /\ k - 1 \in 0 .. m /\ k - 1 \notin Past
    BY <1>3, <2>2, <2>3
  <2>5. c(k - 1) <= byte
    BY <1>1, <1>9, <2>4
  <2> QED
    BY <2>2, <2>4, <2>5
<1>12. ASSUME NEW x \in DOMAIN entries PROVE x \in Owners(byte) <=> x = q[i]
  <2>1. PICK j \in 1 .. m : q[j] = x
    BY <1>3
  <2>2. x \in Owners(byte) <=> c(j - 1) <= byte /\ byte < c(j)
    BY <1>8, <2>1
  <2>3. ASSUME j < i PROVE c(j) <= byte
    <3>1. j \in 0 .. m /\ i - 1 \in j .. m /\ i - 1 \in 0 .. m
      BY <1>3, <2>3
    <3>2. c(j) <= c(i - 1)
      BY <1>10, <3>1
    <3> QED
      BY <1>1, <1>9, <1>11, <3>1, <3>2
  <2>4. ASSUME i < j PROVE byte < c(j - 1)
    <3>1. i \in 0 .. m /\ j - 1 \in i .. m /\ j - 1 \in 0 .. m
      BY <1>3, <2>4
    <3>2. c(i) <= c(j - 1)
      BY <1>10, <3>1
    <3> QED
      BY <1>1, <1>9, <1>11, <3>1, <3>2
  <2>5. i = j \/ i < j \/ j < i
    BY <1>3
  <2>6. byte \in Int /\ c(j) \in Nat /\ c(j - 1) \in Nat
    BY <1>1, <1>8
  <2> QED
    BY <1>3, <1>11, <2>1, <2>2, <2>3, <2>4, <2>5, <2>6
<1>13. Owners(byte) = {q[i]}
  <2>1. q[i] \in DOMAIN entries /\ \A x \in Owners(byte) : x \in DOMAIN entries
    BY <1>3
  <2> HIDE DEF Owners
  <2> QED
    BY <1>12, <2>1
<1> QED
  BY <1>13, FS_Singleton

-----------------------------------------------------------------------------
(* The walk over a document.                                               *)

\* A document of n nodes, as the parser leaves it: each node stands behind the one that
\* contains it, and the first one is contained in none.
Tree(doc, n) ==
    /\ n \in Nat \ {0}
    /\ doc.above \in [1 .. n -> 0 .. n - 1] /\ doc.object \in [1 .. n -> BOOLEAN]
    /\ doc.above[1] = 0 /\ \A k \in 2 .. n : doc.above[k] \in 1 .. k - 1

Under(doc, x) == {c \in DOMAIN doc.above : doc.above[c] = x}

LEMMA ChildrenNumbers ==
    ASSUME NEW doc, NEW n, Tree(doc, n), NEW x, NEW q, q = Children(doc, x)
    PROVE  Enumerates(Under(doc, x), q)
<1> DEFINE S == Under(doc, x)
           before == {p \in S \X S : p[1] < p[2]}
<1>1. S \subseteq 1 .. n /\ IsFiniteSet(S) /\ \A y \in S : y \in Nat
  <2>1. DOMAIN doc.above = 1 .. n /\ n \in Nat
    BY DEF Tree
  <2>2. S \subseteq 1 .. n
    BY <2>1 DEF Under
  <2>3. IsFiniteSet(1 .. n)
    BY <2>1, FS_Interval
  <2> HIDE DEF S
  <2>4. IsFiniteSet(S)
    BY <2>2, <2>3, FS_Subset
  <2>5. \A y \in S : y \in Nat
    BY <2>1, <2>2
  <2> QED
    BY <2>2, <2>4, <2>5
<1>2. q = [i \in 1 .. Cardinality(S) |-> CHOOSE y \in S : Cardinality({z \in S : z < y}) = i - 1]
  BY DEF Children, InOrder, Under
<1> HIDE DEF S
<1>3. \A y \in S : {z \in S : z < y} = {z \in S : <<z, y>> \in before}
  OBVIOUS
<1>4. StrictOrder(S, before)
  <2>1. \A y, z \in S : <<y, z>> \in before <=> y < z
    OBVIOUS
  <2> HIDE DEF before
  <2> QED
    BY <1>1, <2>1 DEF StrictOrder
<1> HIDE DEF before
<1>5. PicksRanks(S, before, q)
  <2>1. ASSUME NEW i \in 1 .. Cardinality(S), NEW y \in S, Rank(S, before, y) = i - 1
        PROVE  q[i] \in S /\ Rank(S, before, q[i]) = i - 1
    <3>1. \A z \in S : Cardinality({v \in S : v < z}) = Rank(S, before, z)
      BY <1>3 DEF Rank
    <3>2. q[i] = CHOOSE z \in S : Cardinality({v \in S : v < z}) = i - 1
      BY <1>2
    <3> QED
      BY <2>1, <3>1, <3>2
  <2> QED
    BY <1>2, <2>1 DEF PicksRanks
<1>6. Enumerates(S, q)
  BY <1>1, <1>4, <1>5, RanksNumber
<1> QED
  BY <1>6 DEF S

JoinsTo(a, b, c) ==
    /\ Len(c) = Len(a) + Len(b)
    /\ \A j \in 1 .. Len(a) : c[j] = a[j]
    /\ \A i \in 1 .. Len(b) : c[Len(a) + i] = b[i]

LEMMA SequencesJoin ==
    ASSUME NEW T, NEW a \in Seq(T), NEW b \in Seq(T)
    PROVE  a \o b \in Seq(T) /\ JoinsTo(a, b, a \o b)
  BY DEF JoinsTo

\* The stack when its top gave way to the members of f.
PushesOnto(T, t, m, f, u) ==
    /\ u \in Seq(T) /\ Len(u) = Len(t) - 1 + m
    /\ \A j \in 1 .. Len(t) - 1 : u[j] = t[j]
    /\ \A i \in 1 .. m : u[Len(t) - 1 + i] = f[i]

LEMMA Pushed ==
    ASSUME NEW T, NEW t \in Seq(T), t # <<>>, NEW m \in Nat, NEW f \in [1 .. m -> T]
    PROVE  PushesOnto(T, t, m, f, Front(t) \o f)
<1>1. Len(t) \in Nat \ {0} /\ Front(t) \in Seq(T) /\ Len(Front(t)) = Len(t) - 1
      /\ \A j \in 1 .. Len(t) - 1 : Front(t)[j] = t[j]
  BY DEF Front
<1>2. f \in Seq(T) /\ Len(f) = m
  OBVIOUS
<1> DEFINE g == Front(t)
           u == g \o f
<1> HIDE DEF g, u
<1>3. u = g \o f /\ g \in Seq(T) /\ Len(g) = Len(t) - 1 /\ \A j \in 1 .. Len(t) - 1 : g[j] = t[j]
  BY <1>1 DEF g, u
<1>4. u \in Seq(T) /\ JoinsTo(g, f, u)
  BY <1>2, <1>3, SequencesJoin
<1>5. PushesOnto(T, t, m, f, u)
  BY <1>1, <1>2, <1>3, <1>4 DEF JoinsTo, PushesOnto
<1> QED
  BY <1>5 DEF u, g

\* The path lengths of the property.
PathsOf(doc) ==
    LET Path[n \in DOMAIN doc.above] == IF n = 1 THEN 1 ELSE 1 + Path[doc.above[n]]
    IN  Path

ArePaths(doc, n, g) ==
    /\ g \in [1 .. n -> Nat] /\ g[1] = 1
    /\ \A k \in 2 .. n : g[k] = 1 + g[doc.above[k]]

LEMMA PathsExist == ASSUME NEW doc, NEW n, Tree(doc, n) PROVE ArePaths(doc, n, PathsOf(doc))
<1> DEFINE Upto(k, g) == /\ g \in [1 .. n -> Nat] /\ g[1] = 1
                         /\ \A j \in 2 .. n : j <= k => g[j] = 1 + g[doc.above[j]]
           Good == {k \in 0 .. n : \E g \in [1 .. n -> Nat] : Upto(k, g)}
           body(g) == [k \in 1 .. n |-> IF k = 1 THEN 1 ELSE 1 + g[doc.above[k]]]
<1>1. n \in Nat \ {0} /\ DOMAIN doc.above = 1 .. n /\ \A k \in 2 .. n : doc.above[k] \in 1 .. k - 1
  BY DEF Tree
<1>2. 0 \in Good
  <2> DEFINE g == [k \in 1 .. n |-> 1]
  <2>1. Upto(0, g)
    BY <1>1
  <2> QED
    BY <1>1, <2>1
<1>3. ASSUME NEW k \in 0 .. n - 1, k \in Good PROVE k + 1 \in Good
  <2>1. PICK g \in [1 .. n -> Nat] : Upto(k, g)
    BY <1>3
  <2>2. CASE k = 0
    <3>1. Upto(1, g)
      BY <1>1, <2>1, <2>2
    <3> QED
      BY <1>1, <2>2, <3>1
  <2>3. CASE k # 0
    <3> DEFINE h == [j \in 1 .. n |-> IF j = k + 1 THEN 1 + g[doc.above[k + 1]] ELSE g[j]]
    <3>1. k + 1 \in 2 .. n /\ doc.above[k + 1] \in 1 .. n
      BY <1>1, <2>3
    <3>2. h \in [1 .. n -> Nat] /\ h[1] = 1
      BY <1>1, <2>1, <3>1
    <3>3. ASSUME NEW j \in 2 .. n, j <= k + 1 PROVE h[j] = 1 + h[doc.above[j]]
      <4>1. doc.above[j] \in 1 .. n /\ doc.above[j] # k + 1 /\ doc.above[j] \in 1 .. j - 1
        BY <1>1, <3>3
      <4>2. h[doc.above[j]] = g[doc.above[j]]
        BY <4>1
      <4>3. j # k + 1 => h[j] = g[j] /\ j <= k
        BY <3>3
      <4>4. j = k + 1 => h[j] = 1 + g[doc.above[j]]
        BY <3>1
      <4> QED
        BY <2>1, <4>2, <4>3, <4>4
    <3> HIDE DEF h
    <3>4. Upto(k + 1, h)
      BY <3>2, <3>3
    <3>5. k + 1 \in 0 .. n
      BY <1>1
    <3> HIDE DEF Upto
    <3> QED
      BY <3>2, <3>4, <3>5
  <2> QED
    BY <2>2, <2>3
<1>4. n \in Good
  <2> HIDE DEF Good
  <2>1. 0 .. n \subseteq Good
    BY <1>1, <1>2, <1>3, NumbersUpTo
  <2> QED
    BY <1>1, <2>1
<1>5. PICK g \in [1 .. n -> Nat] : Upto(n, g)
  BY <1>4
<1>6. g = body(g)
  BY <1>1, <1>5
<1> DEFINE F == PathsOf(doc)
<1>7. F = CHOOSE f : f = body(f)
  BY <1>1 DEF PathsOf
<1> HIDE DEF F
<1>8. F = body(F)
  BY <1>6, <1>7
<1>9. F[1] = 1 /\ \A k \in 2 .. n : F[k] = 1 + F[doc.above[k]]
  <2>1. \A k \in 1 .. n : F[k] = IF k = 1 THEN 1 ELSE 1 + F[doc.above[k]]
    BY <1>8
  <2>2. 1 \in 1 .. n /\ \A k \in 2 .. n : k \in 1 .. n /\ k # 1
    BY <1>1
  <2> HIDE DEF body
  <2> QED
    BY <2>1, <2>2
<1>10. \A k \in 0 .. n : k = 0 \/ \A j \in 1 .. k : F[j] \in Nat
  <2> DEFINE Reckoned == {k \in 0 .. n : \A j \in 1 .. k : F[j] \in Nat}
  <2>1. 0 \in Reckoned
    BY <1>1
  <2>2. ASSUME NEW k \in 0 .. n - 1, k \in Reckoned PROVE k + 1 \in Reckoned
    <3>1. F[k + 1] \in Nat
      <4>1. CASE k = 0
        BY <1>9, <4>1
      <4>2. CASE k # 0
        <5>1. k + 1 \in 2 .. n /\ doc.above[k + 1] \in 1 .. k
          BY <1>1, <4>2
        <5>2. F[doc.above[k + 1]] \in Nat
          BY <2>2, <5>1
        <5> QED
          BY <1>9, <5>1, <5>2
      <4> QED
        BY <4>1, <4>2
    <3>2. \A j \in 1 .. k + 1 : j \in 1 .. k \/ j = k + 1
      OBVIOUS
    <3>3. \A j \in 1 .. k + 1 : F[j] \in Nat
      BY <2>2, <3>1, <3>2
    <3>4. k + 1 \in 0 .. n
      BY <1>1
    <3> QED
      BY <3>3, <3>4
  <2>3. 0 .. n \subseteq Reckoned
    <3> HIDE DEF Reckoned
    <3> QED
      BY <1>1, <2>1, <2>2, NumbersUpTo
  <2> QED
    BY <2>3
<1>11. \A j \in 1 .. n : F[j] \in Nat
  <2>1. n \in 0 .. n /\ n # 0
    BY <1>1
  <2> QED
    BY <1>10, <2>1
<1>12. F = [k \in 1 .. n |-> F[k]]
  BY <1>8
<1>13. F \in [1 .. n -> Nat]
  BY <1>11, <1>12
<1> QED
  BY <1>9, <1>13 DEF ArePaths, F

\* The walk after the rounds in s.
WalkAfter(doc, maxDepth, maxKeys) ==
    LET rounds == [n \in DOMAIN doc.above |-> n]
        at[s \in SUBSET DOMAIN rounds] ==
            IF s = {} THEN [refused |-> FALSE, keys |-> 0, stack |-> <<[node |-> 1, depth |-> 1]>>]
            ELSE Visit(doc, at[s \ {Max(s)}], maxDepth, maxKeys)
    IN  at

LEMMA WalkFold ==
    \A doc, maxDepth, maxKeys :
        JsonIsBounded(doc, maxDepth, maxKeys)
            <=> ~WalkAfter(doc, maxDepth, maxKeys)[DOMAIN [n \in DOMAIN doc.above |-> n]].refused
  BY DEF JsonIsBounded, FoldLeft, MapThenFoldSet, WalkAfter

Walks(n) == [refused : BOOLEAN, keys : Nat, stack : Seq([node : 1 .. n, depth : Nat])]

Opened(doc, top, below) ==
    [i \in DOMAIN below |-> [node |-> below[i], depth |-> top.depth + 1]]
KeysAt(doc, w, m) == w.keys + (IF doc.object[Last(w.stack).node] THEN m ELSE 0)

\* What a visit of the top of the stack does, its m children being numbered by q.
VisitsTo(doc, n, w, maxDepth, maxKeys, x, q, m, u, v) ==
    /\ v = [refused |-> Last(w.stack).depth > maxDepth \/ KeysAt(doc, w, m) > maxKeys,
            keys |-> KeysAt(doc, w, m), stack |-> u]
    /\ v \in Walks(n) /\ Enumerates(Under(doc, x), q) /\ m \in Nat /\ m = Cardinality(Under(doc, x))
    /\ Len(w.stack) \in Nat \ {0} /\ x \in 1 .. n /\ x = Last(w.stack).node
    /\ Last(w.stack).depth \in Nat /\ Len(u) = Len(w.stack) - 1 + m
    /\ \A j \in 1 .. Len(w.stack) - 1 : u[j] = w.stack[j]
    /\ \A i \in 1 .. m : u[Len(w.stack) - 1 + i] = [node |-> q[i], depth |-> Last(w.stack).depth + 1]

LEMMA VisitIs ==
    ASSUME NEW doc, NEW n, Tree(doc, n), NEW w \in Walks(n), NEW maxDepth, NEW maxKeys,
           ~w.refused, w.stack # <<>>
    PROVE  \E x, q, m, u : VisitsTo(doc, n, w, maxDepth, maxKeys, x, q, m, u,
                                    Visit(doc, w, maxDepth, maxKeys))
<1> DEFINE x == Last(w.stack).node
           q == Children(doc, x)
           m == Cardinality(Under(doc, x))
           u == Front(w.stack) \o Opened(doc, Last(w.stack), q)
           v == Visit(doc, w, maxDepth, maxKeys)
<1> DEFINE t == w.stack
           top == Last(t)
           f == Opened(doc, top, q)
           T == [node : 1 .. n, depth : Nat]
<1>1. t \in Seq(T) /\ Len(t) \in Nat \ {0} /\ top \in T /\ w.keys \in Nat
  <2>1. t \in Seq(T) /\ w.keys \in Nat /\ t # <<>>
    BY DEF Walks
  <2> HIDE DEF t, T
  <2>2. Len(t) \in Nat \ {0} /\ t[Len(t)] \in T
    BY <2>1
  <2> QED
    BY <2>1, <2>2 DEF Last
<1>2. Enumerates(Under(doc, x), q)
  BY ChildrenNumbers
<1>3. m \in Nat /\ q \in [1 .. m -> Under(doc, x)] /\ Under(doc, x) \subseteq 1 .. n
  BY <1>2 DEF Enumerates, Under, Tree
<1>4. Len(q) = m /\ DOMAIN q = 1 .. m
  BY <1>3
<1>5. v = [refused |-> top.depth > maxDepth \/ KeysAt(doc, w, m) > maxKeys,
           keys |-> KeysAt(doc, w, m), stack |-> u]
  BY <1>4 DEF Visit, KeysAt, Opened
<1>6. f \in [1 .. m -> T] /\ \A i \in 1 .. m : f[i] = [node |-> q[i], depth |-> top.depth + 1]
  <2>1. f = [i \in 1 .. m |-> [node |-> q[i], depth |-> top.depth + 1]]
    BY <1>4 DEF Opened
  <2>2. \A i \in 1 .. m : q[i] \in 1 .. n
    BY <1>3
  <2>3. top.depth + 1 \in Nat
    BY <1>1
  <2> HIDE DEF f, top
  <2> QED
    BY <2>1, <2>2, <2>3
<1>7. /\ u \in Seq(T) /\ Len(u) = Len(t) - 1 + m
      /\ \A j \in 1 .. Len(t) - 1 : u[j] = t[j]
      /\ \A i \in 1 .. m : u[Len(t) - 1 + i] = f[i]
  <2>1. u = Front(t) \o f /\ t # <<>>
    OBVIOUS
  <2>2. \A i \in 1 .. m : f[i] \in T
    BY <1>6
  <2> HIDE DEF f, T, t
  <2> QED
    <3>1. t \in Seq(T) /\ t # <<>> /\ m \in Nat /\ f \in [1 .. m -> T]
      BY <1>1, <1>3, <1>6, <2>1
    <3>2. PushesOnto(T, t, m, f, Front(t) \o f)
      BY ONLY <3>1, Pushed
    <3>3. PushesOnto(T, t, m, f, u)
      BY <2>1, <3>2
    <3> QED
      BY <3>3 DEF PushesOnto
<1>8. KeysAt(doc, w, m) \in Nat
  BY <1>1, <1>3 DEF KeysAt
<1>9. v \in Walks(n)
  <2> HIDE DEF t, top
  <2> QED
    BY <1>5, <1>7, <1>8 DEF Walks
<1>10. \A i \in 1 .. m : u[Len(w.stack) - 1 + i] = [node |-> q[i], depth |-> Last(w.stack).depth + 1]
  BY <1>6, <1>7
<1>11. x \in 1 .. n /\ top.depth \in Nat
  BY <1>1
<1>12. x = Last(w.stack).node /\ m = Cardinality(Under(doc, x))
  OBVIOUS
<1>13. VisitsTo(doc, n, w, maxDepth, maxKeys, x, q, m, u, v)
  <2> HIDE DEF q, m, u, v, x, f, T
  <2> QED
    BY <1>1, <1>2, <1>3, <1>5, <1>7, <1>9, <1>10, <1>11, <1>12 DEF VisitsTo
<1> QED
  BY <1>13

FirstWalk == [refused |-> FALSE, keys |-> 0, stack |-> <<[node |-> 1, depth |-> 1]>>]

WalksThrough(doc, n, maxDepth, maxKeys, F) ==
    /\ F[1 .. 0] = FirstWalk
    /\ \A i \in 1 .. n : F[1 .. i] = Visit(doc, F[1 .. i - 1], maxDepth, maxKeys)

LEMMA VisitIsTyped ==
    ASSUME NEW doc, NEW n, Tree(doc, n), NEW w \in Walks(n), NEW maxDepth, NEW maxKeys
    PROVE  Visit(doc, w, maxDepth, maxKeys) \in Walks(n)
<1>1. CASE w.refused \/ w.stack = <<>>
  BY <1>1 DEF Visit
<1>2. CASE ~w.refused /\ w.stack # <<>>
  <2> DEFINE v == Visit(doc, w, maxDepth, maxKeys)
  <2>1. PICK x, q, m, u : VisitsTo(doc, n, w, maxDepth, maxKeys, x, q, m, u, v)
    BY <1>2, VisitIs
  <2> HIDE DEF v
  <2>2. v \in Walks(n)
    BY <2>1 DEF VisitsTo
  <2> QED
    BY <2>2 DEF v
<1> QED
  BY <1>1, <1>2

LEMMA WalkRecurs ==
    ASSUME NEW doc, NEW n, Tree(doc, n), NEW maxDepth, NEW maxKeys,
           NEW F, F = WalkAfter(doc, maxDepth, maxKeys)
    PROVE  WalksThrough(doc, n, maxDepth, maxKeys, F)
<1> DEFINE P == SUBSET (1 .. n)
           step == [p \in Walks(n) \X (1 .. n) |-> Visit(doc, p[1], maxDepth, maxKeys)]
           body(g) == [s \in P |-> IF s = {} THEN FirstWalk
                                   ELSE Visit(doc, g[s \ {Max(s)}], maxDepth, maxKeys)]
<1>1. step \in [Walks(n) \X (1 .. n) -> Walks(n)]
  <2>1. \A p \in Walks(n) \X (1 .. n) : Visit(doc, p[1], maxDepth, maxKeys) \in Walks(n)
    BY VisitIsTyped
  <2> QED
    BY <2>1
<1>2. n \in Nat \ {0} /\ DOMAIN doc.above = 1 .. n /\ FirstWalk \in Walks(n)
  <2>1. n \in Nat \ {0} /\ DOMAIN doc.above = 1 .. n
    BY DEF Tree
  <2>2. <<[node |-> 1, depth |-> 1]>> \in Seq([node : 1 .. n, depth : Nat])
    <3>1. [node |-> 1, depth |-> 1] \in [node : 1 .. n, depth : Nat]
      BY <2>1
    <3> QED
      BY <3>1
  <2> QED
    BY <2>1, <2>2 DEF FirstWalk, Walks
<1>3. PICK g : IsFold(n, Walks(n), FirstWalk, step, g)
  <2> HIDE DEF step
  <2> QED
    BY <1>1, <1>2, FoldsExist
<1>4. g = body(g)
  <2>1. ASSUME NEW s \in P, s # {} PROVE g[s] = Visit(doc, g[s \ {Max(s)}], maxDepth, maxKeys)
    <3>1. s \ {Max(s)} \in P /\ Max(s) \in 1 .. n
      BY <1>2, <2>1, MaxFacts
    <3>2. g[s \ {Max(s)}] \in Walks(n)
      BY <1>3, <3>1 DEF IsFold
    <3>3. g[s] = step[<<g[s \ {Max(s)}], Max(s)>>]
      BY <1>3, <2>1 DEF FoldStep, IsFold
    <3> QED
      BY <3>1, <3>2, <3>3
  <2>2. g[{}] = FirstWalk
    BY <1>3 DEF FoldStep, IsFold
  <2> QED
    BY <1>3, <2>1, <2>2 DEF IsFold
<1>5. F = CHOOSE f : f = body(f)
  BY <1>2 DEF WalkAfter, FirstWalk
<1>6. F = body(F)
  BY <1>4, <1>5
<1>7. ASSUME NEW i \in 1 .. n PROVE F[1 .. i] = Visit(doc, F[1 .. i - 1], maxDepth, maxKeys)
  <2>1. i \in Nat \ {0} /\ 1 .. i \in P
    BY <1>2
  <2>2. Max(1 .. i) = i /\ (1 .. i) \ {i} = 1 .. i - 1 /\ 1 .. i # {}
    BY <2>1, PrefixFacts
  <2> DEFINE s == 1 .. i
             r == 1 .. i - 1
  <2>3. s \in P /\ s # {} /\ s \ {Max(s)} = r
    BY <2>1, <2>2
  <2> HIDE DEF s, r
  <2>4. F[s] = Visit(doc, F[r], maxDepth, maxKeys)
    BY <1>6, <2>3
  <2> QED
    BY <2>4 DEF s, r
<1>8. F[1 .. 0] = FirstWalk
  <2>1. 1 .. 0 = {}
    OBVIOUS
  <2> QED
    BY <1>6, <2>1
<1> QED
  BY <1>7, <1>8 DEF WalksThrough

\* What the property says of a document.
IsBounded(doc, maxDepth, maxKeys, path) ==
    /\ Cardinality({c \in DOMAIN doc.above \ {1} : doc.object[doc.above[c]]}) <= maxKeys
    /\ \A x \in DOMAIN doc.above : path[x] <= maxDepth

\* The keys of the objects in V, and the nodes on the stack.
KeysOf(doc, V) == {c \in DOMAIN doc.above \ {1} : doc.object[doc.above[c]] /\ doc.above[c] \in V}
Waiting(w) == {w.stack[j].node : j \in 1 .. Len(w.stack)}

\* The walk has been at the nodes of V, and at nothing else, and what is inside one of them
\* waits on the stack unless it is in V.
WalkStands(doc, n, maxDepth, maxKeys, path, w, i, V) ==
    /\ \A j \in 1 .. Len(w.stack) :
          w.stack[j].node \notin V /\ w.stack[j].depth = path[w.stack[j].node]
    /\ \A j, k \in 1 .. Len(w.stack) : w.stack[j].node = w.stack[k].node => j = k
    /\ \A x \in 1 .. n : x \in V \cup Waiting(w) <=> (x = 1 \/ doc.above[x] \in V)
    /\ w.keys = Cardinality(KeysOf(doc, V)) /\ w.keys <= maxKeys
    /\ \A x \in V : path[x] <= maxDepth
    /\ Cardinality(V) = i \/ w.stack = <<>>

WalkInv(doc, n, maxDepth, maxKeys, path, w, i) ==
    /\ w \in Walks(n)
    /\ w.refused => ~IsBounded(doc, maxDepth, maxKeys, path)
    /\ ~w.refused => \E V \in SUBSET (1 .. n) : WalkStands(doc, n, maxDepth, maxKeys, path, w, i, V)

LEMMA WalkBegins ==
    ASSUME NEW doc, NEW n, Tree(doc, n), NEW maxDepth, NEW maxKeys \in Nat,
           NEW path, ArePaths(doc, n, path)
    PROVE  WalkInv(doc, n, maxDepth, maxKeys, path, FirstWalk, 0)
<1> DEFINE w == FirstWalk
<1>1. n \in Nat \ {0} /\ DOMAIN doc.above = 1 .. n /\ \A k \in 2 .. n : doc.above[k] \in 1 .. k - 1
  BY DEF Tree
<1>2. ~w.refused /\ w.keys = 0 /\ Len(w.stack) = 1 /\ w.stack[1] = [node |-> 1, depth |-> 1]
  BY DEF FirstWalk
<1>3. w \in Walks(n)
  <2>1. <<[node |-> 1, depth |-> 1]>> \in Seq([node : 1 .. n, depth : Nat])
    <3>1. [node |-> 1, depth |-> 1] \in [node : 1 .. n, depth : Nat]
      BY <1>1
    <3> QED
      BY <3>1
  <2> QED
    BY <2>1 DEF FirstWalk, Walks
<1>4. KeysOf(doc, {}) = {} /\ Cardinality({}) = 0 /\ Waiting(w) = {1}
  BY <1>2, FS_EmptySet DEF KeysOf, Waiting
<1> HIDE DEF w
<1> DEFINE none == {}
<1>5. none \in SUBSET (1 .. n) /\ \A x : x \notin none
  OBVIOUS
<1>6. KeysOf(doc, none) = {} /\ Cardinality(none) = 0
  BY <1>4
<1> HIDE DEF none
<1>7. \A x \in 1 .. n : x \in none \cup Waiting(w) <=> (x = 1 \/ doc.above[x] \in none)
  BY <1>4, <1>5
<1>8. \A j \in 1 .. Len(w.stack) : j = 1
  BY <1>2
<1>9. \A j \in 1 .. Len(w.stack) : w.stack[j].node \notin none /\ w.stack[j].depth = path[w.stack[j].node]
  BY <1>2, <1>5, <1>8 DEF ArePaths
<1>10. w.keys = Cardinality(KeysOf(doc, none)) /\ w.keys <= maxKeys
  BY <1>2, <1>4, <1>6
<1>11. WalkStands(doc, n, maxDepth, maxKeys, path, w, 0, none)
  BY <1>5, <1>6, <1>7, <1>8, <1>9, <1>10 DEF WalkStands
<1> QED
  BY <1>2, <1>3, <1>5, <1>11 DEF WalkInv, w

LEMMA FiniteTree ==
    ASSUME NEW doc, NEW n, Tree(doc, n)
    PROVE  /\ n \in Nat \ {0} /\ DOMAIN doc.above = 1 .. n /\ IsFiniteSet(1 .. n) /\ Cardinality(1 .. n) = n
           /\ \A k \in 2 .. n : doc.above[k] \in 1 .. k - 1
           /\ doc.above[1] = 0 /\ \A k \in 1 .. n : doc.object[k] \in BOOLEAN
<1>1. n \in Nat \ {0} /\ DOMAIN doc.above = 1 .. n /\ doc.above[1] = 0
      /\ (\A k \in 2 .. n : doc.above[k] \in 1 .. k - 1) /\ \A k \in 1 .. n : doc.object[k] \in BOOLEAN
  BY DEF Tree
<1>2. n \in Int /\ 1 \in Int
  BY <1>1
<1>3. IsFiniteSet(1 .. n) /\ Cardinality(1 .. n) = (IF 1 > n THEN 0 ELSE n - 1 + 1)
  BY ONLY <1>2, FS_Interval
<1>4. Cardinality(1 .. n) = n
  BY <1>1, <1>3
<1> QED
  BY <1>1, <1>3, <1>4

\* The keys of the nodes in V and x are those of V and of x.
LEMMA KeysGrow ==
    ASSUME NEW doc, NEW n, Tree(doc, n), NEW V \in SUBSET (1 .. n), NEW x \in 1 .. n, x \notin V
    PROVE  Cardinality(KeysOf(doc, V \cup {x}))
              = Cardinality(KeysOf(doc, V)) + (IF doc.object[x] THEN Cardinality(Under(doc, x)) ELSE 0)
<1>1. DOMAIN doc.above = 1 .. n /\ IsFiniteSet(1 .. n) /\ n \in Nat \ {0} /\ doc.above[1] = 0
  BY FiniteTree
<1> DEFINE A == KeysOf(doc, V)
           B == Under(doc, x)
           C == KeysOf(doc, V \cup {x})
<1>2. 1 \notin B
  BY <1>1 DEF Under
<1>3. A \subseteq 1 .. n /\ B \subseteq 1 .. n /\ A \cap B = {}
  BY <1>1 DEF KeysOf, Under
<1>4. CASE doc.object[x]
  <2>1. C = A \cup B
    BY <1>1, <1>2, <1>4 DEF KeysOf, Under
  <2> HIDE DEF A, B, C
  <2>2. IsFiniteSet(A) /\ IsFiniteSet(B)
    BY <1>1, <1>3, FS_Subset
  <2>3. Cardinality(A \cup B) = Cardinality(A) + Cardinality(B) - Cardinality(A \cap B)
    BY <2>2, FS_Union
  <2>4. Cardinality(A) \in Nat /\ Cardinality(B) \in Nat /\ Cardinality(A \cap B) = 0
    BY <1>3, <2>2, FS_CardinalityType, FS_EmptySet
  <2>5. Cardinality(C) = Cardinality(A) + Cardinality(B)
    BY <2>1, <2>3, <2>4
  <2> QED
    BY <1>4, <2>5 DEF A, B, C
<1>5. CASE ~doc.object[x]
  <2>1. C = A
    BY <1>1, <1>5 DEF KeysOf
  <2> HIDE DEF A, C
  <2>2. IsFiniteSet(A)
    BY <1>1, <1>3, FS_Subset
  <2>3. Cardinality(C) = Cardinality(A) + 0
    BY <2>1, <2>2, FS_CardinalityType
  <2> QED
    BY <1>5, <2>3 DEF A, C
<1> QED
  BY <1>4, <1>5

LEMMA KeysAreSome ==
    ASSUME NEW doc, NEW n, Tree(doc, n), NEW V \in SUBSET (1 .. n)
    PROVE  /\ Cardinality(KeysOf(doc, V)) \in Nat
           /\ Cardinality({c \in DOMAIN doc.above \ {1} : doc.object[doc.above[c]]}) \in Nat
           /\ Cardinality(KeysOf(doc, V))
                <= Cardinality({c \in DOMAIN doc.above \ {1} : doc.object[doc.above[c]]})
<1> DEFINE A == KeysOf(doc, V)
           B == {c \in DOMAIN doc.above \ {1} : doc.object[doc.above[c]]}
<1>1. A \subseteq B
  BY DEF KeysOf
<1>2. B \subseteq 1 .. n /\ IsFiniteSet(1 .. n)
  BY FiniteTree
<1> HIDE DEF A, B
<1>3. IsFiniteSet(B)
  BY <1>2, FS_Subset
<1>4. IsFiniteSet(A) /\ Cardinality(A) <= Cardinality(B)
  BY <1>1, <1>3, FS_Subset
<1>5. Cardinality(A) \in Nat /\ Cardinality(B) \in Nat
  BY <1>3, <1>4, FS_CardinalityType
<1> QED
  BY <1>4, <1>5 DEF A, B

LEMMA VisitRefuses ==
    ASSUME NEW doc, NEW n, Tree(doc, n), NEW maxDepth \in Nat, NEW maxKeys \in Nat,
           NEW path, ArePaths(doc, n, path), NEW w \in Walks(n), NEW i \in Nat,
           NEW V \in SUBSET (1 .. n), WalkStands(doc, n, maxDepth, maxKeys, path, w, i, V),
           NEW x, NEW q, NEW m, NEW u, NEW v, VisitsTo(doc, n, w, maxDepth, maxKeys, x, q, m, u, v),
           v.refused
    PROVE  ~IsBounded(doc, maxDepth, maxKeys, path)
<1>1. x \in 1 .. n /\ x = w.stack[Len(w.stack)].node /\ Len(w.stack) \in 1 .. Len(w.stack)
  BY DEF VisitsTo, Last
<1>2. x \notin V /\ Last(w.stack).depth = path[x] /\ path[x] \in Nat
  BY <1>1 DEF WalkStands, ArePaths, Last
<1>3. CASE Last(w.stack).depth > maxDepth
  <2>1. DOMAIN doc.above = 1 .. n
    BY FiniteTree
  <2> QED
    BY <1>1, <1>2, <1>3, <2>1 DEF IsBounded
<1>4. CASE KeysAt(doc, w, m) > maxKeys
  <2>1. KeysAt(doc, w, m) = w.keys + (IF doc.object[x] THEN Cardinality(Under(doc, x)) ELSE 0)
    BY DEF VisitsTo, KeysAt
  <2>2. KeysAt(doc, w, m) = Cardinality(KeysOf(doc, V \cup {x}))
    BY <1>1, <1>2, <2>1, KeysGrow DEF WalkStands
  <2>3. V \cup {x} \in SUBSET (1 .. n)
    BY <1>1
  <2>4. KeysAt(doc, w, m) <= Cardinality({c \in DOMAIN doc.above \ {1} : doc.object[doc.above[c]]})
        /\ Cardinality({c \in DOMAIN doc.above \ {1} : doc.object[doc.above[c]]}) \in Nat
        /\ KeysAt(doc, w, m) \in Nat
    BY <2>2, <2>3, KeysAreSome
  <2> QED
    BY <1>4, <2>4 DEF IsBounded
<1> QED
  BY <1>3, <1>4 DEF VisitsTo

LEMMA VisitStands ==
    ASSUME NEW doc, NEW n, Tree(doc, n), NEW maxDepth \in Nat, NEW maxKeys \in Nat,
           NEW path, ArePaths(doc, n, path), NEW w \in Walks(n), NEW i \in Nat,
           NEW V \in SUBSET (1 .. n), WalkStands(doc, n, maxDepth, maxKeys, path, w, i, V),
           NEW x, NEW q, NEW m, NEW u, NEW v, VisitsTo(doc, n, w, maxDepth, maxKeys, x, q, m, u, v),
           w.stack # <<>>, ~v.refused
    PROVE  x \in 1 .. n /\ WalkStands(doc, n, maxDepth, maxKeys, path, v, i + 1, V \cup {x})
<1> DEFINE L == Len(w.stack)
           C == Under(doc, x)
           W == V \cup {x}
<1>1. /\ x \in 1 .. n /\ x = w.stack[L].node /\ L \in Nat \ {0} /\ L \in 1 .. L /\ m \in Nat
      /\ v.stack = u /\ Len(u) = L - 1 + m
      /\ \A j \in 1 .. L - 1 : u[j] = w.stack[j]
  BY DEF VisitsTo, Last
<1>2. x \notin V /\ Last(w.stack).depth = path[x]
  BY <1>1 DEF WalkStands, Last
<1>3. \A k \in 1 .. m : u[L - 1 + k].node = q[k] /\ u[L - 1 + k].depth = path[x] + 1
  <2>1. \A k \in 1 .. m : u[L - 1 + k] = [node |-> q[k], depth |-> Last(w.stack).depth + 1]
    BY DEF VisitsTo
  <2>2. Last(w.stack).depth + 1 = path[x] + 1
    BY <1>2
  <2>3. ASSUME NEW k \in 1 .. m PROVE u[L - 1 + k].node = q[k] /\ u[L - 1 + k].depth = path[x] + 1
    <3>1. u[L - 1 + k] = [node |-> q[k], depth |-> Last(w.stack).depth + 1]
      BY <2>1
    <3> HIDE DEF L
    <3> QED
      BY <2>2, <3>1
  <2> QED
    BY <2>3
<1>4. /\ \A k \in 1 .. m : q[k] \in C
      /\ \A c \in C : \E k \in 1 .. m : q[k] = c
      /\ \A j, k \in 1 .. m : q[j] = q[k] => j = k
  BY DEF VisitsTo, Enumerates
<1>5. \A c : c \in C <=> c \in 1 .. n /\ doc.above[c] = x
  BY FiniteTree DEF Under
<1>6. \A c \in C : c # 1 /\ c \in 2 .. n /\ c # x /\ path[c] = path[x] + 1
  <2> SUFFICES ASSUME NEW c \in C PROVE c # 1 /\ c \in 2 .. n /\ c # x /\ path[c] = path[x] + 1
    OBVIOUS
  <2>1. c \in 1 .. n /\ doc.above[c] = x /\ doc.above[1] = 0 /\ n \in Nat
        /\ \A k \in 2 .. n : doc.above[k] \in 1 .. k - 1
    BY <1>5, FiniteTree
  <2>2. c # 1
    BY <1>1, <2>1
  <2>3. c \in 2 .. n
    BY <2>1, <2>2
  <2>4. c # x
    BY <1>1, <2>1, <2>3
  <2>5. path[c] = 1 + path[x] /\ path[x] \in Nat
    BY <1>1, <2>1, <2>3 DEF ArePaths
  <2> QED
    BY <2>2, <2>3, <2>4, <2>5
<1>7. \A y \in 1 .. n : y \in V \cup Waiting(w) <=> (y = 1 \/ doc.above[y] \in V)
  BY DEF WalkStands
<1>8. \A c \in C : c \notin V /\ c \notin Waiting(w)
  BY <1>2, <1>5, <1>6, <1>7
<1>9. \A j \in 1 .. L : w.stack[j].node \in Waiting(w) /\ w.stack[j].node \notin V
                       /\ w.stack[j].depth = path[w.stack[j].node]
  BY DEF Waiting, WalkStands
<1>10. \A j, k \in 1 .. L : w.stack[j].node = w.stack[k].node => j = k
  BY DEF WalkStands
<1>0. L = Len(w.stack)
  OBVIOUS
<1> HIDE DEF C, L
<1>11. \A j \in 1 .. L - 1 : j \in 1 .. L /\ u[j].node \in Waiting(w) /\ u[j].node \notin W
                            /\ u[j].depth = path[u[j].node]
  <2> SUFFICES ASSUME NEW j \in 1 .. L - 1
               PROVE  j \in 1 .. L /\ u[j].node \in Waiting(w) /\ u[j].node \notin W
                            /\ u[j].depth = path[u[j].node]
    OBVIOUS
  <2>1. j \in 1 .. L /\ j # L /\ u[j] = w.stack[j]
    BY <1>1
  <2> QED
    BY <1>1, <1>9, <1>10, <2>1
<1>12. \A k \in 1 .. m : u[L - 1 + k].node \in C /\ u[L - 1 + k].node \notin W
                        /\ u[L - 1 + k].depth = path[u[L - 1 + k].node]
  BY <1>3, <1>4, <1>6, <1>8
<1>13. \A j \in 1 .. Len(u) : j \in 1 .. L - 1 \/ (j - (L - 1) \in 1 .. m /\ j = L - 1 + (j - (L - 1)))
  BY <1>1
<1>14. \A j \in 1 .. Len(v.stack) :
          v.stack[j].node \notin W /\ v.stack[j].depth = path[v.stack[j].node]
  <2> SUFFICES ASSUME NEW j \in 1 .. Len(u)
               PROVE  u[j].node \notin W /\ u[j].depth = path[u[j].node]
    BY <1>1
  <2>1. CASE j \in 1 .. L - 1
    BY <1>11, <2>1
  <2>2. CASE j - (L - 1) \in 1 .. m /\ j = L - 1 + (j - (L - 1))
    <3> DEFINE k == j - (L - 1)
    <3>1. k \in 1 .. m /\ j = L - 1 + k
      BY <2>2
    <3> HIDE DEF k
    <3> QED
      BY <1>12, <3>1
  <2> QED
    BY <1>13, <2>1, <2>2
<1>15. \A j, k \in 1 .. Len(v.stack) : v.stack[j].node = v.stack[k].node => j = k
  <2> SUFFICES ASSUME NEW j \in 1 .. Len(u), NEW k \in 1 .. Len(u), u[j].node = u[k].node
               PROVE  j = k
    BY <1>1
  <2>1. CASE j \in 1 .. L - 1 /\ k \in 1 .. L - 1
    <3>1. j \in 1 .. L /\ k \in 1 .. L /\ u[j] = w.stack[j] /\ u[k] = w.stack[k]
      BY <1>1, <2>1
    <3> QED
      BY <1>10, <3>1
  <2>2. CASE j \in 1 .. L - 1 /\ k - (L - 1) \in 1 .. m /\ k = L - 1 + (k - (L - 1))
    BY <1>8, <1>11, <1>12, <2>2
  <2>3. CASE k \in 1 .. L - 1 /\ j - (L - 1) \in 1 .. m /\ j = L - 1 + (j - (L - 1))
    BY <1>8, <1>11, <1>12, <2>3
  <2>4. CASE /\ j - (L - 1) \in 1 .. m /\ j = L - 1 + (j - (L - 1))
             /\ k - (L - 1) \in 1 .. m /\ k = L - 1 + (k - (L - 1))
    <3>1. u[j].node = q[j - (L - 1)] /\ u[k].node = q[k - (L - 1)]
      BY <1>3, <2>4
    <3>2. j - (L - 1) = k - (L - 1)
      BY <1>4, <2>4, <3>1
    <3> QED
      BY <1>1, <3>2
  <2> QED
    BY <1>13, <2>1, <2>2, <2>3, <2>4
<1>16. \A y : y \in W \cup Waiting(v) <=> y \in V \cup Waiting(w) \/ y \in C
  <2>1. ASSUME NEW y \in Waiting(v) PROVE y \in Waiting(w) \/ y \in C
    <3>1. PICK j \in 1 .. Len(u) : y = u[j].node
      BY <1>1 DEF Waiting
    <3> QED
      BY <1>11, <1>12, <1>13, <3>1
  <2>2. ASSUME NEW y \in Waiting(w) PROVE y \in W \cup Waiting(v)
    <3>1. PICK j \in 1 .. L : y = w.stack[j].node
      BY <1>0 DEF Waiting
    <3>2. CASE j = L
      BY <1>1, <3>1, <3>2
    <3>3. CASE j # L
      <4>1. j \in 1 .. L - 1 /\ j \in 1 .. Len(u) /\ u[j] = w.stack[j]
        BY <1>1, <3>3
      <4> QED
        BY <1>1, <3>1, <4>1 DEF Waiting
    <3> QED
      BY <3>2, <3>3
  <2>3. ASSUME NEW y \in C PROVE y \in Waiting(v)
    <3>1. PICK k \in 1 .. m : q[k] = y
      BY <1>4
    <3>2. L - 1 + k \in 1 .. Len(u) /\ u[L - 1 + k].node = y
      BY <1>1, <1>3, <3>1
    <3> QED
      BY <1>1, <3>2 DEF Waiting
  <2>4. x \in Waiting(w)
    BY <1>1, <1>9
  <2> QED
    BY <2>1, <2>2, <2>3, <2>4
<1>17. \A y \in 1 .. n : y \in W \cup Waiting(v) <=> (y = 1 \/ doc.above[y] \in W)
  BY <1>5, <1>7, <1>16
<1>18. v.keys = Cardinality(KeysOf(doc, W)) /\ v.keys <= maxKeys /\ path[x] <= maxDepth
  <2>1. v.keys = KeysAt(doc, w, m) /\ ~(Last(w.stack).depth > maxDepth) /\ ~(v.keys > maxKeys)
    BY DEF VisitsTo
  <2>2. KeysAt(doc, w, m) = w.keys + (IF doc.object[x] THEN Cardinality(Under(doc, x)) ELSE 0)
    BY DEF VisitsTo, KeysAt
  <2>3. w.keys = Cardinality(KeysOf(doc, V))
    BY DEF WalkStands
  <2>4. v.keys = Cardinality(KeysOf(doc, W))
    <3>1. Cardinality(KeysOf(doc, W))
            = Cardinality(KeysOf(doc, V)) + (IF doc.object[x] THEN Cardinality(Under(doc, x)) ELSE 0)
      BY <1>1, <1>2, KeysGrow
    <3> QED
      BY <2>1, <2>2, <2>3, <3>1
  <2>5. W \in SUBSET (1 .. n)
    BY <1>1
  <2>6. Cardinality(KeysOf(doc, W)) \in Nat
    <3> HIDE DEF W
    <3> QED
      BY <2>5, KeysAreSome
  <2>7. path[x] \in Nat
    BY <1>1 DEF ArePaths
  <2> QED
    BY <1>2, <2>1, <2>4, <2>6, <2>7
<1>19. \A y \in W : path[y] <= maxDepth
  BY <1>18 DEF WalkStands
<1>20. Cardinality(W) = i + 1
  <2>1. Cardinality(V) = i
    BY DEF WalkStands
  <2>2. IsFiniteSet(V)
    BY FiniteTree, FS_Subset
  <2> QED
    BY <1>2, <2>1, <2>2, FS_AddElement
<1> HIDE DEF W
<1>21. WalkStands(doc, n, maxDepth, maxKeys, path, v, i + 1, W)
  BY <1>14, <1>15, <1>17, <1>18, <1>19, <1>20 DEF WalkStands
<1> QED
  BY <1>1, <1>21 DEF W

LEMMA WalkGoesOn ==
    ASSUME NEW doc, NEW n, Tree(doc, n), NEW maxDepth \in Nat, NEW maxKeys \in Nat,
           NEW path, ArePaths(doc, n, path), NEW w, NEW i \in Nat,
           WalkInv(doc, n, maxDepth, maxKeys, path, w, i)
    PROVE  WalkInv(doc, n, maxDepth, maxKeys, path, Visit(doc, w, maxDepth, maxKeys), i + 1)
<1> DEFINE v == Visit(doc, w, maxDepth, maxKeys)
<1>1. w \in Walks(n)
  BY DEF WalkInv
<1>2. CASE w.refused
  <2>1. v = w
    BY <1>2 DEF Visit
  <2> QED
    BY <1>2, <2>1 DEF WalkInv
<1>3. CASE ~w.refused /\ w.stack = <<>>
  <2>1. v = w
    BY <1>3 DEF Visit
  <2>2. PICK V \in SUBSET (1 .. n) : WalkStands(doc, n, maxDepth, maxKeys, path, w, i, V)
    BY <1>3 DEF WalkInv
  <2>3. WalkStands(doc, n, maxDepth, maxKeys, path, w, i + 1, V)
    BY <1>3, <2>2 DEF WalkStands
  <2> HIDE DEF v
  <2>4. WalkInv(doc, n, maxDepth, maxKeys, path, v, i + 1)
    BY <1>1, <1>3, <2>1, <2>3 DEF WalkInv
  <2> QED
    BY <2>4 DEF v
<1>4. CASE ~w.refused /\ w.stack # <<>>
  <2>1. PICK V \in SUBSET (1 .. n) : WalkStands(doc, n, maxDepth, maxKeys, path, w, i, V)
    BY <1>4 DEF WalkInv
  <2>2. PICK x, q, m, u : VisitsTo(doc, n, w, maxDepth, maxKeys, x, q, m, u, v)
    BY <1>1, <1>4, VisitIs
  <2>3. v \in Walks(n)
    BY <1>1, VisitIsTyped
  <2> HIDE DEF v
  <2>4. v.refused => ~IsBounded(doc, maxDepth, maxKeys, path)
    BY <1>1, <2>1, <2>2, VisitRefuses
  <2>5. ~v.refused => x \in 1 .. n /\ WalkStands(doc, n, maxDepth, maxKeys, path, v, i + 1, V \cup {x})
    BY <1>1, <1>4, <2>1, <2>2, VisitStands
  <2>6. WalkInv(doc, n, maxDepth, maxKeys, path, v, i + 1)
    <3>1. ~v.refused => V \cup {x} \in SUBSET (1 .. n)
      BY <2>5
    <3> QED
      BY <2>3, <2>4, <2>5, <3>1 DEF WalkInv
  <2> QED
    BY <2>6 DEF v
<1> QED
  BY <1>2, <1>3, <1>4

LEMMA WalkEnds ==
    ASSUME NEW doc, NEW n, Tree(doc, n), NEW maxDepth \in Nat, NEW maxKeys \in Nat,
           NEW path, ArePaths(doc, n, path), NEW w, WalkInv(doc, n, maxDepth, maxKeys, path, w, n)
    PROVE  ~w.refused <=> IsBounded(doc, maxDepth, maxKeys, path)
<1>1. w.refused => ~IsBounded(doc, maxDepth, maxKeys, path)
  BY DEF WalkInv
<1>2. ASSUME ~w.refused PROVE IsBounded(doc, maxDepth, maxKeys, path)
  <2>1. PICK V \in SUBSET (1 .. n) : WalkStands(doc, n, maxDepth, maxKeys, path, w, n, V)
    BY <1>2 DEF WalkInv
  <2>2. n \in Nat \ {0} /\ DOMAIN doc.above = 1 .. n /\ IsFiniteSet(1 .. n) /\ Cardinality(1 .. n) = n
        /\ \A k \in 2 .. n : doc.above[k] \in 1 .. k - 1
    BY FiniteTree
  <2>3. ASSUME w.stack = <<>> PROVE V = 1 .. n
    <3>1. Waiting(w) = {}
      BY <2>3 DEF Waiting
    <3>2. \A x \in 1 .. n : x \in V <=> (x = 1 \/ doc.above[x] \in V)
      BY <2>1, <3>1 DEF WalkStands
    <3> DEFINE Good == {k \in 0 .. n : 1 .. k \subseteq V}
    <3>3. 0 \in Good
      BY <2>2
    <3>4. ASSUME NEW k \in 0 .. n - 1, k \in Good PROVE k + 1 \in Good
      <4>1. k + 1 \in 1 .. n /\ (k + 1 = 1 \/ (k + 1 \in 2 .. n /\ k \in Nat))
        BY <2>2
      <4>2. k + 1 = 1 \/ doc.above[k + 1] \in 1 .. k
        BY <2>2, <4>1
      <4>3. k + 1 \in V
        BY <3>2, <3>4, <4>1, <4>2
      <4>4. 1 .. k + 1 \subseteq V
        BY <3>4, <4>3
      <4> QED
        BY <2>2, <4>4
    <3>5. 0 .. n \subseteq Good
      <4> HIDE DEF Good
      <4> QED
        BY <2>2, <3>3, <3>4, NumbersUpTo
    <3>6. n \in 0 .. n
      BY <2>2
    <3> SUFFICES 1 .. n \subseteq V
      OBVIOUS
    <3> QED
      BY <3>5, <3>6
  <2>4. ASSUME w.stack # <<>> PROVE V = 1 .. n
    <3>1. Cardinality(V) = Cardinality(1 .. n)
      BY <2>1, <2>2, <2>4 DEF WalkStands
    <3>2. V = 1 .. n
      BY <2>2, <3>1, FS_Subset
    <3> QED
      BY <3>2
  <2>5. V = 1 .. n
    BY <2>3, <2>4
  <2>6. KeysOf(doc, V) = {c \in DOMAIN doc.above \ {1} : doc.object[doc.above[c]]}
    <3>1. \A c \in DOMAIN doc.above \ {1} : doc.above[c] \in V
      <4> SUFFICES ASSUME NEW c \in 1 .. n, c # 1 PROVE doc.above[c] \in 1 .. n
        BY <2>2, <2>5
      <4>1. c \in 2 .. n
        BY <2>2
      <4> QED
        BY <2>2, <4>1
    <3> QED
      BY <3>1 DEF KeysOf
  <2>7. Cardinality(KeysOf(doc, V)) <= maxKeys /\ \A x \in V : path[x] <= maxDepth
    BY <2>1 DEF WalkStands
  <2>8. \A x \in DOMAIN doc.above : path[x] <= maxDepth
    BY <2>2, <2>5, <2>7
  <2> QED
    BY <2>6, <2>7, <2>8, Zenon DEF IsBounded
<1>3. w.refused \in BOOLEAN
  BY DEF WalkInv, Walks
<1> QED
  BY <1>1, <1>2, <1>3

\* _bounded_json_loads: whatever the order of the walk, a document is refused exactly when
\* it is too deep or has too many keys.
THEOREM DocumentsAreBounded ==
    ASSUME NEW doc, NEW n, Tree(doc, n), NEW maxDepth \in Nat, NEW maxKeys \in Nat
    PROVE  WalkIsExact(doc, maxDepth, maxKeys)
<1> DEFINE path == PathsOf(doc)
           F == WalkAfter(doc, maxDepth, maxKeys)
           Good == {i \in 0 .. n : WalkInv(doc, n, maxDepth, maxKeys, path, F[1 .. i], i)}
<1>1. ArePaths(doc, n, path)
  BY PathsExist
<1>2. n \in Nat \ {0} /\ DOMAIN doc.above = 1 .. n
  BY FiniteTree
<1>3. WalkIsExact(doc, maxDepth, maxKeys)
        <=> (JsonIsBounded(doc, maxDepth, maxKeys) <=> IsBounded(doc, maxDepth, maxKeys, path))
  BY DEF WalkIsExact, IsBounded, PathsOf
<1> HIDE DEF path
<1>4. WalksThrough(doc, n, maxDepth, maxKeys, F)
  BY WalkRecurs
<1>5. JsonIsBounded(doc, maxDepth, maxKeys) <=> ~F[1 .. n].refused
  BY <1>2, WalkFold
<1> HIDE DEF F
<1>6. 0 \in Good
  <2>1. F[1 .. 0] = FirstWalk
    BY <1>4 DEF WalksThrough
  <2>2. WalkInv(doc, n, maxDepth, maxKeys, path, FirstWalk, 0)
    BY <1>1, WalkBegins
  <2> QED
    BY <1>2, <2>1, <2>2
<1>7. ASSUME NEW i \in 0 .. n - 1, i \in Good PROVE i + 1 \in Good
  <2>1. i + 1 \in 1 .. n /\ i + 1 \in 0 .. n /\ i + 1 - 1 = i /\ i \in Nat
    BY <1>2
  <2>2. F[1 .. i + 1] = Visit(doc, F[1 .. i], maxDepth, maxKeys)
    BY <1>4, <2>1 DEF WalksThrough
  <2>3. WalkInv(doc, n, maxDepth, maxKeys, path, Visit(doc, F[1 .. i], maxDepth, maxKeys), i + 1)
    BY <1>1, <1>7, <2>1, WalkGoesOn
  <2> QED
    BY <2>1, <2>2, <2>3
<1>8. n \in Good
  <2>1. 0 .. n \subseteq Good
    <3> HIDE DEF Good
    <3> QED
      BY <1>2, <1>6, <1>7, NumbersUpTo
  <2> QED
    BY <1>2, <2>1
<1>9. ~F[1 .. n].refused <=> IsBounded(doc, maxDepth, maxKeys, path)
  BY <1>1, <1>8, WalkEnds
<1> QED
  BY <1>3, <1>5, <1>9

-----------------------------------------------------------------------------
(* The inputs of the checks, in the whole.                                 *)

\* What was picked is an input of the subject it was picked for.
InputInv ==
    /\ Picked("graph") => input \in Graphs
    /\ Picked("binding") => input \in Bindings
    /\ Picked("envelope") => input \in Envelopes \X Envelopes
    /\ Picked("bytes") => input \in Looks
    /\ Picked("json") => input \in Documents \X (2 .. 4) \X (1 .. 2)
    /\ Picked("tensors") => input \in TensorFiles
    /\ Picked("archive") => input \in [1 .. 2 -> Member] \X Described
    /\ Picked("request") => input \in SweepRequests \X SweepRequests \X (1 .. 2)
    /\ Picked("document") => input \in Papers \X Papers \X Held

LEMMA PickKeepsInput ==
    InputInv /\ [MCNext]_mcVars => InputInv'
<1> SUFFICES ASSUME InputInv, [MCNext]_mcVars PROVE InputInv'
  OBVIOUS
<1>1. CASE UNCHANGED <<which, input>>
  BY <1>1 DEF InputInv, Picked
<1>2. CASE PickGraph
  BY <1>2 DEF InputInv, Picked, PickGraph, Pick
<1>3. CASE PickBinding
  BY <1>3 DEF InputInv, Picked, PickBinding, Pick
<1>4. CASE PickEnvelope
  BY <1>4 DEF InputInv, Picked, PickEnvelope, Pick
<1>5. CASE PickBytes
  BY <1>5 DEF InputInv, Picked, PickBytes, Pick
<1>6. CASE PickJson
  BY <1>6 DEF InputInv, Picked, PickJson, Pick
<1>7. CASE PickTensors
  BY <1>7 DEF InputInv, Picked, PickTensors, Pick
<1>8. CASE PickArchive
  BY <1>8 DEF InputInv, Picked, PickArchive, Pick
<1>9. CASE PickRequest
  BY <1>9 DEF InputInv, Picked, PickRequest, Pick
<1>10. CASE PickDocument
  BY <1>10 DEF InputInv, Picked, PickDocument, Pick
<1> QED
  BY <1>1, <1>2, <1>3, <1>4, <1>5, <1>6, <1>7, <1>8, <1>9, <1>10 DEF MCNext, mcVars

LEMMA TuplesAreSequences ==
    ASSUME NEW S, NEW n \in Nat, NEW f \in [1 .. n -> S] PROVE f \in Seq(S) /\ Len(f) = n
  OBVIOUS

LEMMA GraphsHold == \A g \in Graphs : LineageIsOrdered(g, OpenPolicy)
<1> SUFFICES ASSUME NEW g \in Graphs PROVE LineageIsOrdered(g, OpenPolicy)
  OBVIOUS
<1>1. PICK digests \in {<<30, 20, 10>>, <<20, 11, 10>>}, parent \in [1 .. 3 -> [Roles -> 0 .. 3]] :
         g = [i \in 1 .. 3 |->
                [type |-> "t", sha256 |-> digests[i],
                 parents |-> {[role |-> r, type |-> "t", sha256 |-> digests[parent[i][r]]] :
                              r \in {q \in Roles : parent[i][q] # 0}}] ]
  BY DEF Graphs
<1>2. \A i \in 1 .. 3 : digests[i] \in Nat
  BY <1>1
<1>3. DOMAIN g = 1 .. 3 /\ g = [i \in 1 .. 3 |-> g[i]] /\ \A i \in 1 .. 3 : g[i].sha256 = digests[i]
  BY <1>1
<1>4. g \in Seq(Range(g)) /\ Len(g) = 3
  <2>1. g \in [1 .. 3 -> Range(g)] /\ 3 \in Nat
    BY <1>3 DEF Range
  <2> QED
    BY <2>1, TuplesAreSequences
<1>5. 3 \in Nat /\ \A i \in 1 .. 3 : g[i].sha256 \in Nat
  BY <1>2, <1>3
<1> QED
  BY <1>4, <1>5, LineagesAreOrdered, RefusedAssumption

LEMMA BindingsHold == \A b : EvidenceReachesRuns(Evidence(b[1]), b[2], b[3], 60)
<1> SUFFICES ASSUME NEW b PROVE EvidenceReachesRuns(Evidence(b[1]), b[2], b[3], 60)
  OBVIOUS
<1>1. DOMAIN Evidence(b[1]) = 1 .. 6 /\ 6 \in Nat
  BY DEF Evidence
<1> QED
  BY <1>1, EvidenceRests

LEMMA EnvelopesHold ==
    \A e, f \in Envelopes : IdentityIsLogical(e, f, [dataset |-> "dataset"], {"uri"})
<1> DEFINE P == [{"dataset"} -> 1 .. 2]
           T == {"run"}
           M == {{}, {"case"}, {"uri"}, {1}, {2}}
           C == 0 .. 1
<1>1. Envelopes \subseteq Drafts(T, M, P, C)
  BY DEF Envelopes, Drafts
<1> HIDE DEF P, T, M, C
<1> QED
  BY <1>1, IdentitiesAreLogical

LEMMA LooksHold == \A l \in Looks : ReadIsWhole(l[1], l[2], l[3], l[4])
<1> SUFFICES ASSUME NEW l \in Looks PROVE ReadIsWhole(l[1], l[2], l[3], l[4])
  OBVIOUS
<1>1. PICK sized \in Files, read \in Files, limit \in 1 .. 3, known \in BOOLEAN :
         l = <<sized, read, limit, IF known THEN {sized} ELSE {}>>
  BY DEF Looks
<1>2. Files \subseteq Seq(1 .. 2)
  <2> SUFFICES ASSUME NEW f \in Files PROVE f \in Seq(1 .. 2)
    OBVIOUS
  <2>1. PICK n \in 0 .. 3 : f \in [1 .. n -> 1 .. 2]
    BY DEF Files
  <2>2. n \in Nat
    OBVIOUS
  <2> QED
    BY <2>1, <2>2, TuplesAreSequences
<1>3. l[1] \in Seq(1 .. 2) /\ l[2] \in Seq(1 .. 2) /\ l[3] \in Nat
  BY <1>1, <1>2
<1> QED
  BY <1>3, ReadsAreWhole

LEMMA DocumentsHold == \A d \in Documents, k \in 2 .. 4, m \in 1 .. 2 : WalkIsExact(d, k, m)
<1> SUFFICES ASSUME NEW d \in Documents, NEW k \in 2 .. 4, NEW m \in 1 .. 2
             PROVE  WalkIsExact(d, k, m)
  OBVIOUS
<1>1. /\ d.above \in [1 .. 5 -> 0 .. 4] /\ d.above[1] = 0 /\ \A n \in 2 .. 5 : d.above[n] \in 1 .. n - 1
      /\ d.object \in [1 .. 5 -> BOOLEAN]
  BY DEF Documents
<1>2. 5 - 1 = 4
  OBVIOUS
<1>3. Tree(d, 5)
  BY <1>1, <1>2 DEF Tree
<1> QED
  BY <1>3, DocumentsAreBounded

LEMMA TensorFilesHold == \A f \in TensorFiles : TensorsTile(f, Names3, TensorLimits)
<1> SUFFICES ASSUME NEW f \in TensorFiles PROVE TensorsTile(f, Names3, TensorLimits)
  OBVIOUS
<1>1. PICK data \in 3 .. 6, start \in [Names3 -> 0 .. 3], length \in [Names3 -> 1 .. 2], slack \in 0 .. 1 :
         f = [bytes |-> 10 + data, header |-> 2,
              entries |-> [n \in Names3 |->
                  [start |-> start[n], bytes |-> length[n],
                   end |-> start[n] + length[n] + (IF n = 1 THEN slack ELSE 0)]]]
  BY DEF TensorFiles
<1>2. f.bytes \in Nat /\ f.header \in Nat /\ DOMAIN f.entries = Names3
      /\ \A n \in Names3 : f.entries[n].start = start[n]
                           /\ f.entries[n].end = start[n] + length[n] + (IF n = 1 THEN slack ELSE 0)
  BY <1>1
<1>3. \A n \in Names3 : f.entries[n].start \in Nat /\ f.entries[n].end \in Nat
  BY <1>2
<1>4. IsFiniteSet(Names3) /\ Names3 \subseteq Nat
  <2>1. Names3 = 1 .. 3
    BY DEF Names3
  <2>2. IsFiniteSet(1 .. 3)
    BY ONLY 1 \in Int, 3 \in Int, FS_Interval
  <2> QED
    BY <2>1, <2>2
<1> QED
  BY <1>2, <1>3, <1>4, TensorsAreTiled

LEMMA ArchivesHold ==
    \A a \in [1 .. 2 -> Member], e \in Described : ArchiveIsDescribed(a, e, 2, ArchiveLimits)
<1> SUFFICES ASSUME NEW a \in [1 .. 2 -> Member], NEW e \in Described
             PROVE  ArchiveIsDescribed(a, e, 2, ArchiveLimits)
  OBVIOUS
<1>1. a \in Seq(Range(a)) /\ Len(a) = 2
  <2>1. a \in [1 .. 2 -> Range(a)] /\ 2 \in Nat
    BY DEF Range
  <2> QED
    BY <2>1, TuplesAreSequences
<1>2. \A i \in 1 .. 2 : a[i].size \in Nat /\ a[i].header \in Nat /\ a[i].items \in Nat
  BY DEF Member
<1>3. ArchiveLimits.total \in Nat /\ 2 \in Nat
  BY DEF ArchiveLimits
<1> QED
  BY <1>1, <1>2, <1>3, ArchivesAreDescribed

LEMMA RequestsHold ==
    \A p, q \in SweepRequests, attempt \in 1 .. 2 : IdentitiesSeparate(p, q, 1, attempt)
<1> DEFINE D == {"smoke", "canonical"}
           V == {1, 2, 8, 1000, "L40S", "A10G"}
<1>1. SweepRequests \subseteq SweepDrafts(D, V)
  BY DEF SweepRequests, SweepDrafts
<1> HIDE DEF D, V
<1> QED
  BY <1>1, RequestsAreSeparate

LEMMA PapersHold ==
    \A first, second \in Papers, held \in Held : DocumentsAreKept(first, second, held, 2)
<1> SUFFICES ASSUME NEW first \in Papers, NEW second \in Papers, NEW held \in Held
             PROVE  DocumentsAreKept(first, second, held, 2)
  OBVIOUS
<1>1. \A d \in Papers : \E v \in 1 .. 3, f \in {"canonical", "spaced"} :
         d = [value |-> v, form |-> f, size |-> v + (IF f = "canonical" THEN 0 ELSE 1)]
  BY DEF Papers
<1>2. first.value \in Nat /\ second.value \in Nat
  BY <1>1
<1>3. first.form = "canonical" /\ second.form = "canonical" /\ first.value = second.value
         => first = second
  BY <1>1
<1> QED
  BY <1>2, <1>3, DocumentsKept, NotAcceptedAssumption

\* ArtifactsHold: a directory that has a name is whole, what a publisher was told and what a
\* manifest lists can be opened, and every check of an artifact that keeps no state answers
\* what its property says (verify_lineage, verify_consumer_identities, the content digests,
\* the bounded readers, the requests of sweeps and their documents).
THEOREM ArtifactsAreSound == MCSpec => []ArtifactsHold
<1>1. MCInit => InputInv
  BY DEF MCInit, InputInv, Picked
<1>2. MCSpec => []InputInv
  BY <1>1, PickKeepsInput, PTL DEF MCSpec
<1>3. StoreInv => CommittedIsWhole /\ ReferencesOpen /\ RowsResolve
  BY StoreIsWhole
<1>4. EvidenceInv /\ InputInv => ArtifactsHold
  <2> SUFFICES ASSUME EvidenceInv, InputInv PROVE ArtifactsHold
    OBVIOUS
  <2>1. which = "store" => CommittedIsWhole /\ ReferencesOpen /\ RowsResolve
    BY <1>3 DEF EvidenceInv
  <2>2. Picked("graph") => LineageIsOrdered(input, OpenPolicy)
    BY GraphsHold DEF InputInv
  <2>3. Picked("binding") => EvidenceReachesRuns(Evidence(input[1]), input[2], input[3], 60)
    BY BindingsHold DEF InputInv
  <2>4. Picked("envelope") =>
            IdentityIsLogical(input[1], input[2], [dataset |-> "dataset"], {"uri"})
    BY EnvelopesHold DEF InputInv
  <2>5. Picked("bytes") => ReadIsWhole(input[1], input[2], input[3], input[4])
    BY LooksHold DEF InputInv
  <2>6. Picked("json") => WalkIsExact(input[1], input[2], input[3])
    BY DocumentsHold DEF InputInv
  <2>7. Picked("tensors") => TensorsTile(input, Names3, TensorLimits)
    BY TensorFilesHold DEF InputInv
  <2>8. Picked("archive") => ArchiveIsDescribed(input[1], input[2], 2, ArchiveLimits)
    BY ArchivesHold DEF InputInv
  <2>9. Picked("request") => IdentitiesSeparate(input[1], input[2], 1, input[3])
    BY RequestsHold DEF InputInv
  <2>10. Picked("document") => DocumentsAreKept(input[1], input[2], input[3], 2)
    BY PapersHold DEF InputInv
  <2> QED
    BY <2>1, <2>2, <2>3, <2>4, <2>5, <2>6, <2>7, <2>8, <2>9, <2>10 DEF ArtifactsHold
<1> QED
  BY <1>2, <1>4, EvidenceInvariance, PTL
=============================================================================
