----------------------------- MODULE SweepProofs ----------------------------
(***************************************************************************)
(* Proofs about Sweep for every number of cases, attempts and commands,    *)
(* every lease that is longer than the solve timeout, and every retry      *)
(* policy.  The types, the run roots of committed successes and the totals *)
(* of a summary need no more than the order in which a worker and a        *)
(* command commit, so they hold for commands that overlap too.             *)
(*                                                                         *)
(* For commands that do not, SInv says what each worker carries to its     *)
(* next commit, as a transition of the record that is on the volume: no    *)
(* other container has written that file since the worker read it.         *)
(***************************************************************************)
EXTENDS Sweep, FiniteSetTheorems, SequenceTheorems, TLAPS

-----------------------------------------------------------------------------
(* One record on its own, as in SweepStateProofs.                          *)

\* The failure history accounts for the attempts of the record s.
Accounted(s) ==
    Len(s.failure_codes) = s.attempt - (IF s.state \in {"running", "succeeded"} THEN 1 ELSE 0)

CaseInv(s) ==
    /\ s \in CaseState
    /\ s.state = "absent" => s = NoCase
    /\ Coherent(s)
    /\ Accounted(s)

USE DEF RunStates

-----------------------------------------------------------------------------
(* The transitions of CaseRecord.                                          *)

\* The record of no file.
LEMMA NoCaseInv == CaseInv(NoCase)
<1>1. NoCase \in CaseState
  BY AttemptsAssumption DEF NoCase, CaseState
<1>2. Coherent(NoCase) /\ Accounted(NoCase)
  BY AttemptsAssumption, NoneAssumption DEF NoCase, Coherent, Accounted
<1> QED
  BY <1>1, <1>2 DEF CaseInv

\* The initial revision of a case.
LEMMA InitialInv ==
    ASSUME NEW t \in Nat
    PROVE  CaseInv([NoCase EXCEPT !.state = "pending", !.updated_at = t])
<1> DEFINE n == [NoCase EXCEPT !.state = "pending", !.updated_at = t]
<1>1. NoCase \in CaseState
  BY NoCaseInv DEF CaseInv
<1>2. n \in CaseState
  BY <1>1 DEF CaseState
<1>3. /\ NoCase.attempt = 0 /\ NoCase.attempt_id = None /\ NoCase.lease_owner = None
      /\ NoCase.lease_expires_at = None /\ NoCase.run_digest = None
      /\ NoCase.error_code = None /\ NoCase.failure_codes = <<>>
  BY DEF NoCase
<1>4. /\ n.state = "pending" /\ n.attempt = 0 /\ n.attempt_id = None
      /\ n.lease_owner = None /\ n.lease_expires_at = None /\ n.run_digest = None
      /\ n.error_code = None /\ n.failure_codes = <<>>
  BY <1>1, <1>3 DEF CaseState
<1>5. Coherent(n) /\ Accounted(n)
  BY <1>4, AttemptsAssumption DEF Coherent, Accounted
<1> QED
  BY <1>2, <1>4, <1>5 DEF CaseInv

\* An attempt that ends without a result leaves a record the validator accepts, if it
\* is left pending only while attempts remain.
LEMMA FailedInv ==
    ASSUME NEW s, CaseInv(s), s.state = "running",
           NEW code \in Codes, NEW next \in {"pending", "failed"}, NEW t \in Nat,
           next = "pending" => s.attempt < MaxAttempts
    PROVE  CaseInv(Failed(s, code, next, t))
<1> DEFINE n == Failed(s, code, next, t)
           codes == Append(s.failure_codes, code)
<1>1. s \in CaseState /\ Coherent(s) /\ Len(s.failure_codes) = s.attempt - 1
  BY DEF CaseInv, Accounted
<1>2. codes \in Seq(Codes) /\ Len(codes) = s.attempt /\ codes[Len(codes)] = code
  BY <1>1 DEF CaseState
<1>3. /\ n.state = next /\ n.attempt = s.attempt /\ n.attempt_id = s.attempt_id
      /\ n.lease_owner = None /\ n.lease_expires_at = None /\ n.run_digest = None
      /\ n.error_code = code /\ n.failure_codes = codes /\ n.updated_at = t
  BY <1>1 DEF Failed, CaseState
<1>4. n \in CaseState
  BY <1>1, <1>2 DEF Failed, CaseState
<1>5. code # None
  BY NoneAssumption DEF Codes
<1>6. Coherent(n)
  BY <1>1, <1>2, <1>3, <1>5 DEF Coherent, CaseState
<1>7. Accounted(n)
  BY <1>1, <1>2, <1>3 DEF Accounted, CaseState
<1> QED
  BY <1>3, <1>4, <1>6, <1>7 DEF CaseInv

\* Reaping an expired lease.
LEMMA AfterExpiryInv ==
    ASSUME NEW s, CaseInv(s), NEW t \in Nat
    PROVE  CaseInv(AfterExpiry(s, t))
<1>1. CASE s.state = "running" /\ s.lease_expires_at <= t
  <2> DEFINE next == IF s.attempt >= MaxAttempts THEN "failed" ELSE "pending"
  <2>1. s.attempt \in Nat /\ MaxAttempts \in Nat
    BY AttemptsAssumption DEF CaseInv, CaseState
  <2>2. next = "pending" => s.attempt < MaxAttempts
    BY <2>1
  <2>3. CaseInv(Failed(s, LeaseExpired, next, t))
    BY <1>1, <2>2, FailedInv DEF Codes
  <2> QED
    BY <1>1, <2>3 DEF AfterExpiry
<1>2. CASE ~(s.state = "running" /\ s.lease_expires_at <= t)
  BY <1>2 DEF AfterExpiry
<1> QED
  BY <1>1, <1>2

\* Granting pending work.
LEMMA ClaimedInv ==
    ASSUME NEW s, CaseInv(s), NEW t \in Nat, NEW id \in AttemptIds, NEW owner \in Owners,
           s.state = "pending"
    PROVE  CaseInv(Claimed(s, id, owner, t))
<1> DEFINE n == Claimed(s, id, owner, t)
<1>1. s \in CaseState /\ Coherent(s) /\ Len(s.failure_codes) = s.attempt
  BY DEF CaseInv, Accounted, CaseState
<1>2. s.attempt \in Nat /\ s.attempt < MaxAttempts /\ MaxAttempts \in Nat
  BY <1>1, AttemptsAssumption DEF Coherent, CaseState
<1>3. /\ n.state = "running" /\ n.attempt = s.attempt + 1 /\ n.attempt_id = id
      /\ n.lease_owner = owner /\ n.lease_expires_at = t + LeaseDuration
      /\ n.run_digest = None /\ n.error_code = None
      /\ n.failure_codes = s.failure_codes /\ n.updated_at = t
  BY <1>1 DEF Claimed, CaseState
<1>4. t + LeaseDuration \in Nat /\ t + LeaseDuration > t
  BY LeaseAssumption
<1>5. n \in CaseState
  <2>1. s.attempt + 1 \in 0..MaxAttempts
    BY <1>2
  <2> QED
    BY <1>1, <1>4, <2>1 DEF Claimed, CaseState
<1>6. id # None /\ owner # None /\ t + LeaseDuration # None
  BY <1>4, NoneAssumption
<1>7. Coherent(n)
  BY <1>1, <1>2, <1>3, <1>4, <1>6 DEF Coherent, CaseState
<1>8. Accounted(n)
  BY <1>1, <1>2, <1>3 DEF Accounted, CaseState
<1> QED
  BY <1>3, <1>5, <1>7, <1>8 DEF CaseInv

\* Completing an attempt with a run.
LEMMA SucceededInv ==
    ASSUME NEW s, CaseInv(s), NEW t \in Nat, NEW d \in Digests, s.state = "running"
    PROVE  CaseInv(Succeeded(s, d, t))
<1> DEFINE n == Succeeded(s, d, t)
<1>1. s \in CaseState /\ Coherent(s) /\ Len(s.failure_codes) = s.attempt - 1
  BY DEF CaseInv, Accounted
<1>2. /\ n.state = "succeeded" /\ n.attempt = s.attempt /\ n.attempt_id = s.attempt_id
      /\ n.lease_owner = None /\ n.lease_expires_at = None
      /\ n.run_digest = d /\ n.error_code = None
      /\ n.failure_codes = s.failure_codes /\ n.updated_at = t
  BY <1>1 DEF Succeeded, CaseState
<1>3. n \in CaseState
  BY <1>1 DEF Succeeded, CaseState
<1>4. d # None
  BY NoneAssumption
<1>5. Coherent(n) /\ Accounted(n)
  BY <1>1, <1>2, <1>4 DEF Coherent, Accounted, CaseState
<1> QED
  BY <1>2, <1>3, <1>5 DEF CaseInv

\* Reaping never touches a success and never makes one.
LEMMA AfterExpirySuccess ==
    ASSUME NEW s \in CaseState, NEW t \in Nat,
           s.state = "succeeded" \/ AfterExpiry(s, t).state = "succeeded"
    PROVE  AfterExpiry(s, t) = s
<1>1. ASSUME NEW code, NEW next, next # "succeeded"
      PROVE  Failed(s, code, next, t).state # "succeeded"
  BY <1>1 DEF Failed, CaseState
<1> QED
  BY <1>1 DEF AfterExpiry

\* A report of the owner of a live lease finds a running case.
LEMMA OwnerRuns ==
    ASSUME NEW s, NEW id, NEW owner, NEW t, OwnsLease(s, id, owner, t)
    PROVE  s.state = "running"
  BY DEF OwnsLease, Live

-----------------------------------------------------------------------------
(* What the ledger of attempts sees of a record.                           *)

\* Closing the open attempt at the end of a ledger.
LEMMA ClosedLast ==
    ASSUME NEW f \in Seq(Codes), NEW outcome
    PROVE  LET g == Append(f, "open") IN
           /\ Len(g) = Len(f) + 1
           /\ g[Len(g)] = "open"
           /\ [g EXCEPT ![Len(g)] = outcome] = Append(f, outcome)
<1> DEFINE T == Codes \cup {"open", outcome}
           g == Append(f, "open")
           h == [g EXCEPT ![Len(g)] = outcome]
<1>1. f \in Seq(T)
  BY SeqMonotonic, Codes \subseteq T
<1>2. g \in Seq(T) /\ Len(g) = Len(f) + 1 /\ g[Len(g)] = "open"
      /\ \A i \in 1..Len(f) : g[i] = f[i]
  BY <1>1
<1>3. Append(f, outcome) \in Seq(T) /\ Len(Append(f, outcome)) = Len(f) + 1
      /\ \A i \in 1..(Len(f) + 1) : Append(f, outcome)[i] = IF i = Len(f) + 1 THEN outcome ELSE f[i]
  BY <1>1
<1>4. Len(f) \in Nat /\ Len(g) \in 1..Len(g) /\ outcome \in T
  BY <1>2
<1> HIDE DEF g, T
<1>5. h \in Seq(T) /\ Len(h) = Len(g) /\ \A i \in 1..Len(g) : h[i] = IF i = Len(g) THEN outcome ELSE g[i]
  BY <1>2, <1>4, ExceptSeq
<1> HIDE DEF h
<1>6. \A i \in 1..Len(h) : h[i] = Append(f, outcome)[i]
  BY <1>2, <1>3, <1>4, <1>5
<1>7. h = Append(f, outcome)
  BY <1>2, <1>3, <1>5, <1>6, SeqEqual
<1> QED
  BY <1>2, <1>7 DEF g, h

\* What the ledger shows of a record.
LEMMA OutcomesOf ==
    ASSUME NEW s, CaseInv(s)
    PROVE  /\ s.failure_codes \in Seq(Codes)
           /\ s.state = "running" => Outcomes(s) = Append(s.failure_codes, "open")
           /\ s.state = "succeeded" => Outcomes(s) = Append(s.failure_codes, "success")
           /\ s.state \notin {"running", "succeeded"} => Outcomes(s) = s.failure_codes
           /\ s.state = "pending" => Len(Outcomes(s)) = s.attempt
           /\ s.state = "running" => Len(Outcomes(s)) = s.attempt
  BY DEF Outcomes, CaseInv, Accounted, CaseState

-----------------------------------------------------------------------------
(* The volume and its workers.                                             *)

Rec(c) == volume.rec[c]
Idles(w) == worker[w].pc = "idle"

\* The record names a run the volume holds, once it has succeeded.
Rooted(c, s) == s.state = "succeeded" => <<c, s.run_digest>> \in volume.runs

\* A worker has a request, a record of its own, and a run it has published.
WorkerOk(w, v) ==
    /\ v.pc # "idle" => v.n \in 1..MaxAttempts
    /\ CaseInv(v.rec) /\ Rooted(CaseOf(w), v.rec)
    /\ v.pc \in {"publishing", "published"} => v.digest \in Digests
    /\ v.pc = "published" => <<CaseOf(w), v.digest>> \in volume.runs

IInv ==
    /\ TypeOK
    /\ \A c \in Cases : CaseInv(Rec(c)) /\ Rooted(c, Rec(c))
    /\ \A w \in Workers : WorkerOk(w, worker[w])

WorkerState ==
    [pc: WorkerPCs, n: 0..MaxAttempts, force: BOOLEAN, started: Nat, rec: CaseState,
     digest: Digests \cup {None}]

\* What the types of the volume and the workers say.
LEMMA Parts ==
    ASSUME IInv
    PROVE  /\ volume = [rec |-> volume.rec, runs |-> volume.runs]
           /\ volume.rec \in [Cases -> CaseState] /\ volume.runs \subseteq RunRoots
           /\ worker \in [Workers -> WorkerState]
           /\ now \in Nat /\ lost \subseteq Cases
           /\ \A w \in Workers : CaseOf(w) \in Cases
  BY DEF IInv, TypeOK, WorkerState, Workers, CaseOf

LEMMA IdleOk ==
    ASSUME NEW w \in Workers
    PROVE  Idle \in WorkerState /\ WorkerOk(w, Idle)
<1>1. CaseInv(NoCase) /\ NoCase \in CaseState /\ NoCase.state = "absent"
  BY NoCaseInv DEF CaseInv, NoCase
<1>2. Idle \in WorkerState
  BY <1>1, AttemptsAssumption DEF Idle, WorkerState, WorkerPCs
<1> QED
  BY <1>1, <1>2 DEF Idle, WorkerOk, Rooted

\* A step of one worker, or of none, that adds to the runs what it adds.
LEMMA OneWorkerStep ==
    ASSUME IInv, NEW w \in Workers,
           worker' \in [Workers -> WorkerState],
           \A x \in Workers \ {w} : worker'[x] = worker[x],
           volume.runs \subseteq volume'.runs, WorkerOk(w, worker[w])',
           volume' \in [rec: [Cases -> CaseState], runs: SUBSET RunRoots],
           \A c \in Cases : Rec(c)' = Rec(c) \/ (CaseInv(Rec(c)') /\ Rooted(c, Rec(c))'),
           lost' \subseteq Cases, UNCHANGED <<orch, now>>
    PROVE  IInv'
<1>1. TypeOK'
  BY DEF IInv, TypeOK, WorkerState
<1>2. \A c \in Cases : CaseInv(Rec(c)') /\ Rooted(c, Rec(c))'
  BY DEF IInv, Rooted
<1>3. \A x \in Workers : WorkerOk(x, worker[x])'
  <2> SUFFICES ASSUME NEW x \in Workers PROVE WorkerOk(x, worker[x])'
    OBVIOUS
  <2>1. CASE x = w
    BY <2>1
  <2>2. CASE x # w
    BY <2>2 DEF IInv, WorkerOk, Rooted
  <2> QED
    BY <2>1, <2>2
<1> QED
  BY <1>1, <1>2, <1>3 DEF IInv

\* A worker that moves on in its container.
LEMMA PrivateStep ==
    ASSUME IInv, NEW w \in Workers,
           worker' \in [Workers -> WorkerState],
           \A x \in Workers \ {w} : worker'[x] = worker[x],
           WorkerOk(w, worker'[w]),
           lost' \subseteq Cases, UNCHANGED <<volume, orch, now>>
    PROVE  IInv'
<1>1. WorkerOk(w, worker[w])'
  BY DEF WorkerOk, Rooted
<1>2. volume' \in [rec: [Cases -> CaseState], runs: SUBSET RunRoots]
  BY DEF IInv, TypeOK
<1> QED
  BY <1>1, <1>2, OneWorkerStep DEF Rec

LEMMA GoesIdle ==
    ASSUME IInv, NEW w \in Workers, worker' = [worker EXCEPT ![w] = Idle],
           lost' \subseteq Cases, UNCHANGED <<volume, orch, now>>
    PROVE  IInv'
<1>1. worker' \in [Workers -> WorkerState] /\ worker'[w] = Idle
      /\ \A x \in Workers \ {w} : worker'[x] = worker[x]
  BY Parts, IdleOk
<1> QED
  BY <1>1, IdleOk, PrivateStep

LEMMA ClaimsInv ==
    ASSUME IInv, NEW w \in Workers, WorkerClaims(w)
    PROVE  IInv'
<1> DEFINE n == worker[w].n
           seen == Initialized(Rec(CaseOf(w)), now)
           s == AfterExpiry(seen, now)
<1>1. /\ worker[w].pc = "queued" /\ n \in 1..MaxAttempts /\ n \in AttemptIds /\ n \in Owners
      /\ UNCHANGED <<volume, orch, lost, now>> /\ worker[w] \in WorkerState
      /\ CaseOf(w) \in Cases /\ now \in Nat
  BY Parts, TokensAssumption DEF WorkerClaims, IInv, WorkerOk
<1>2. CaseInv(seen) /\ Rooted(CaseOf(w), seen)
  <2>1. CaseInv(Rec(CaseOf(w))) /\ Rooted(CaseOf(w), Rec(CaseOf(w)))
    BY <1>1 DEF IInv
  <2>2. CASE Rec(CaseOf(w)).state = "absent"
    <3>1. Rec(CaseOf(w)) = NoCase
      BY <2>1, <2>2 DEF CaseInv
    <3>2. seen = [NoCase EXCEPT !.state = "pending", !.updated_at = now]
      BY <2>2, <3>1 DEF Initialized
    <3>3. seen.state = "pending"
      BY <3>2 DEF NoCase
    <3> QED
      BY <1>1, <3>2, <3>3, InitialInv DEF Rooted
  <2>3. CASE Rec(CaseOf(w)).state # "absent"
    BY <2>1, <2>3 DEF Initialized
  <2> QED
    BY <2>2, <2>3
<1> HIDE DEF seen
<1>3. ASSUME NEW rec, CaseInv(rec), Rooted(CaseOf(w), rec), WorkerReloads(w, rec)
      PROVE  IInv'
  <2>1. /\ rec \in CaseState /\ "claimed" \in WorkerPCs
        /\ worker' = [worker EXCEPT ![w].pc = "claimed", ![w].started = now, ![w].rec = rec]
    BY <1>3 DEF WorkerReloads, CaseInv, WorkerPCs
  <2>2. /\ worker' \in [Workers -> WorkerState]
        /\ \A x \in Workers \ {w} : worker'[x] = worker[x]
        /\ worker'[w].pc = "claimed" /\ worker'[w].n = n /\ worker'[w].rec = rec
    BY <1>1, <2>1, Parts DEF WorkerState
  <2> QED
    BY <1>1, <1>3, <2>2, Parts, PrivateStep DEF WorkerOk
<1>4. CASE Claimable(s, n, now) /\ WorkerReloads(w, Claimed(s, n, n, now))
  <2>1. CaseInv(s) /\ s.state = "pending"
    BY <1>1, <1>2, <1>4, AfterExpiryInv DEF Claimable
  <2>2. CaseInv(Claimed(s, n, n, now))
    BY <1>1, <2>1, ClaimedInv
  <2>3. Claimed(s, n, n, now).state = "running"
    BY <2>1 DEF Claimed, CaseInv, CaseState
  <2> QED
    BY <1>3, <1>4, <2>2, <2>3 DEF Rooted
<1>5. CASE worker' = [worker EXCEPT ![w] = Idle]
  BY <1>1, <1>5, Parts, GoesIdle
<1> QED
  BY <1>2, <1>3, <1>4, <1>5 DEF WorkerClaims, seen, Rec

\* A commit of a worker's copy of the state.
LEMMA CommitStep ==
    ASSUME IInv, NEW w \in Workers, CommitState(w),
           worker' \in [Workers -> WorkerState],
           \A x \in Workers \ {w} : worker'[x] = worker[x],
           WorkerOk(w, worker'[w]), UNCHANGED <<orch, lost, now>>
    PROVE  IInv'
<1> DEFINE c == CaseOf(w)
           n == worker[w].rec
<1>1. /\ c \in Cases /\ CaseInv(n) /\ Rooted(c, n) /\ n \in CaseState
  BY Parts DEF IInv, WorkerOk, CaseInv
<1>2. /\ volume'.rec = [volume.rec EXCEPT ![c] = n] /\ volume'.runs = volume.runs
      /\ volume' \in [rec: [Cases -> CaseState], runs: SUBSET RunRoots]
  BY <1>1, Parts DEF CommitState
<1> HIDE DEF n
<1>3. \A x \in Cases : Rec(x)' = Rec(x) \/ (CaseInv(Rec(x)') /\ Rooted(x, Rec(x))')
  BY <1>1, <1>2, Parts DEF Rec, Rooted
<1>4. WorkerOk(w, worker[w])'
  BY <1>2 DEF WorkerOk, Rooted
<1>5. lost' \subseteq Cases
  BY Parts
<1> QED
  BY <1>2, <1>3, <1>4, <1>5, OneWorkerStep

LEMMA CommitsClaimInv ==
    ASSUME IInv, NEW w \in Workers, WorkerCommitsClaim(w)
    PROVE  IInv'
<1>1. /\ worker[w] \in WorkerState /\ worker[w].pc = "claimed" /\ CommitState(w)
      /\ worker' = [worker EXCEPT ![w].pc = "solving"] /\ UNCHANGED <<orch, lost, now>>
  BY Parts DEF WorkerCommitsClaim
<1>2. /\ worker' \in [Workers -> WorkerState]
      /\ \A x \in Workers \ {w} : worker'[x] = worker[x]
      /\ worker'[w].pc = "solving" /\ worker'[w].n = worker[w].n /\ worker'[w].rec = worker[w].rec
  BY <1>1, Parts DEF WorkerState, WorkerPCs
<1>3. WorkerOk(w, worker'[w])
  BY <1>1, <1>2 DEF IInv, WorkerOk
<1> QED
  BY <1>1, <1>2, <1>3, CommitStep

\* The worker writes an outcome into its own copy.
LEMMA OutcomeStep ==
    ASSUME IInv, NEW w \in Workers, NEW rec, worker[w].pc # "idle",
           CaseInv(rec), Rooted(CaseOf(w), rec),
           worker' = [worker EXCEPT ![w].pc = "reporting", ![w].rec = rec],
           UNCHANGED <<volume, orch, lost, now>>
    PROVE  IInv'
<1>1. worker[w] \in WorkerState /\ rec \in CaseState
  BY Parts DEF CaseInv
<1>2. /\ worker' \in [Workers -> WorkerState]
      /\ \A x \in Workers \ {w} : worker'[x] = worker[x]
      /\ worker'[w].pc = "reporting" /\ worker'[w].n = worker[w].n /\ worker'[w].rec = rec
  BY <1>1, Parts DEF WorkerState, WorkerPCs
<1>3. WorkerOk(w, worker'[w])
  BY <1>2 DEF IInv, WorkerOk
<1> QED
  BY <1>2, <1>3, Parts, PrivateStep

\* An error of a running attempt is retried only while attempts remain.
LEMMA FailedAttempt ==
    ASSUME NEW s, CaseInv(s), s.state = "running", NEW code \in FailCodes,
           NEW retryable \in BOOLEAN, NEW t \in Nat
    PROVE  LET n == Failed(s, code, AfterFailure(s, code, retryable), t) IN
           /\ CaseInv(n) /\ n.state \in {"pending", "failed"}
           /\ n.attempt = s.attempt /\ n.attempt_id = s.attempt_id /\ n.updated_at = t
<1> DEFINE next == AfterFailure(s, code, retryable)
<1>1. next \in {"pending", "failed"} /\ (next = "pending" => s.attempt < MaxAttempts)
  BY DEF AfterFailure
<1> HIDE DEF next
<1>2. CaseInv(Failed(s, code, next, t))
  BY <1>1, FailedInv DEF Codes
<1>3. s \in CaseState
  BY DEF CaseInv
<1>4. LET n == Failed(s, code, next, t) IN
        n.state = next /\ n.attempt = s.attempt /\ n.attempt_id = s.attempt_id /\ n.updated_at = t
  BY <1>3 DEF Failed, CaseState
<1> QED
  BY <1>1, <1>2, <1>4 DEF next

LEMMA FailsInv ==
    ASSUME IInv, NEW w \in Workers, NEW code \in FailCodes, NEW retryable \in BOOLEAN,
           WorkerFails(w, code, retryable)
    PROVE  IInv'
<1> DEFINE s == worker[w].rec
           n == Failed(s, code, AfterFailure(s, code, retryable), now)
<1>1. /\ worker[w].pc = "solving" /\ UNCHANGED <<volume, orch, lost, now>>
      /\ CaseInv(s) /\ now \in Nat /\ lost \subseteq Cases
  BY Parts DEF WorkerFails, IInv, WorkerOk
<1>2. CASE Owns(w)
  <2>1. worker' = [worker EXCEPT ![w].pc = "reporting", ![w].rec = n]
    BY <1>2 DEF WorkerFails
  <2>2. s.state = "running"
    BY <1>2, OwnerRuns DEF Owns
  <2>3. CaseInv(n) /\ n.state \in {"pending", "failed"}
    BY <1>1, <2>2, FailedAttempt
  <2> HIDE DEF n
  <2> QED
    BY <1>1, <2>1, <2>3, OutcomeStep DEF Rooted
<1>3. CASE ~Owns(w)
  BY <1>1, <1>3, GoesIdle DEF WorkerFails
<1> QED
  BY <1>2, <1>3

LEMMA PublishesInv ==
    ASSUME IInv, NEW w \in Workers, NEW d \in Digests, WorkerPublishes(w, d)
    PROVE  IInv'
<1>1. /\ worker[w] \in WorkerState /\ worker[w].pc = "solving"
      /\ worker' = [worker EXCEPT ![w].pc = "publishing", ![w].digest = d]
      /\ UNCHANGED <<volume, orch, lost, now>>
  BY Parts DEF WorkerPublishes
<1>2. /\ worker' \in [Workers -> WorkerState]
      /\ \A x \in Workers \ {w} : worker'[x] = worker[x]
      /\ worker'[w].pc = "publishing" /\ worker'[w].n = worker[w].n
      /\ worker'[w].rec = worker[w].rec /\ worker'[w].digest = d
  BY <1>1, Parts DEF WorkerState, WorkerPCs
<1>3. WorkerOk(w, worker'[w])
  BY <1>1, <1>2 DEF IInv, WorkerOk
<1> QED
  BY <1>1, <1>2, <1>3, Parts, PrivateStep

\* The run root is on the volume before a success of its worker is.
LEMMA CommitsRunInv ==
    ASSUME IInv, NEW w \in Workers, WorkerCommitsRun(w)
    PROVE  IInv'
<1> DEFINE root == <<CaseOf(w), worker[w].digest>>
<1>1. /\ worker[w] \in WorkerState /\ worker[w].pc = "publishing"
      /\ volume' = [volume EXCEPT !.runs = @ \cup {root}]
      /\ worker' = [worker EXCEPT ![w].pc = "published"]
      /\ UNCHANGED <<orch, lost, now>>
  BY Parts DEF WorkerCommitsRun, CommitRun
<1>2. root \in RunRoots
  BY <1>1, Parts DEF IInv, WorkerOk, RunRoots
<1>3. /\ worker' \in [Workers -> WorkerState]
      /\ \A x \in Workers \ {w} : worker'[x] = worker[x]
      /\ worker'[w].pc = "published" /\ worker'[w].n = worker[w].n
      /\ worker'[w].rec = worker[w].rec /\ worker'[w].digest = worker[w].digest
  BY <1>1, Parts DEF WorkerState, WorkerPCs
<1>4. /\ volume'.rec = volume.rec /\ volume'.runs = volume.runs \cup {root}
      /\ volume' \in [rec: [Cases -> CaseState], runs: SUBSET RunRoots]
  BY <1>1, <1>2, Parts
<1>5. WorkerOk(w, worker[w])'
  BY <1>1, <1>3, <1>4 DEF IInv, WorkerOk, Rooted
<1> QED
  BY <1>1, <1>3, <1>4, <1>5, Parts, OneWorkerStep DEF Rec

LEMMA SucceedsInv ==
    ASSUME IInv, NEW w \in Workers, WorkerSucceeds(w)
    PROVE  IInv'
<1> DEFINE s == worker[w].rec
           d == worker[w].digest
           n == Succeeded(s, d, now)
<1>1. /\ worker[w].pc = "published" /\ UNCHANGED <<volume, orch, lost, now>>
      /\ CaseInv(s) /\ now \in Nat /\ lost \subseteq Cases
      /\ d \in Digests /\ <<CaseOf(w), d>> \in volume.runs
  BY Parts DEF WorkerSucceeds, IInv, WorkerOk
<1>2. CASE Owns(w)
  <2>1. worker' = [worker EXCEPT ![w].pc = "reporting", ![w].rec = n]
    BY <1>2 DEF WorkerSucceeds
  <2>2. s.state = "running"
    BY <1>2, OwnerRuns DEF Owns
  <2>3. CaseInv(n)
    BY <1>1, <2>2, SucceededInv
  <2>4. n.run_digest = d
    BY <1>1 DEF Succeeded, CaseInv, CaseState
  <2> HIDE DEF n
  <2> QED
    BY <1>1, <2>1, <2>3, <2>4, OutcomeStep DEF Rooted
<1>3. CASE ~Owns(w)
  BY <1>1, <1>3, GoesIdle DEF WorkerSucceeds
<1> QED
  BY <1>2, <1>3

LEMMA ReportsInv ==
    ASSUME IInv, NEW w \in Workers, WorkerReports(w)
    PROVE  IInv'
<1>1. /\ CommitState(w) /\ worker' = [worker EXCEPT ![w] = Idle] /\ UNCHANGED <<orch, lost, now>>
  BY DEF WorkerReports
<1>2. worker' \in [Workers -> WorkerState] /\ worker'[w] = Idle
      /\ \A x \in Workers \ {w} : worker'[x] = worker[x]
  BY <1>1, Parts, IdleOk
<1> QED
  BY <1>1, <1>2, IdleOk, CommitStep

LEMMA WorkerStepInv ==
    ASSUME IInv, NEW w \in Workers, WorkerStep(w) \/ WorkerKilled(w)
    PROVE  IInv'
<1>1. CASE WorkerKilled(w)
  <2>1. lost' \subseteq Cases /\ worker' = [worker EXCEPT ![w] = Idle]
    BY <1>1, Parts DEF WorkerKilled
  <2> QED
    BY <1>1, <2>1, GoesIdle DEF WorkerKilled
<1>2. CASE WorkerStep(w)
  BY <1>2, ClaimsInv, CommitsClaimInv, FailsInv, PublishesInv, CommitsRunInv, SucceedsInv, ReportsInv
  DEF WorkerStep
<1> QED
  BY <1>1, <1>2

OrchState ==
    [pc: OrchPCs, run: 0..MaxRuns, round: 0..MaxAttempts, at: Nat,
     absent: SUBSET Cases, plan: [Cases -> CaseState]]

LEMMA OrchMoves ==
    ASSUME IInv, orch' \in OrchState, UNCHANGED <<volume, worker, lost, now>>
    PROVE  IInv'
<1>1. TypeOK'
  BY DEF IInv, TypeOK, OrchState
<1> QED
  BY <1>1 DEF IInv, WorkerOk, Rooted, Rec

\* The plan of a fresh reload.
LEMMA FreshPlanOk ==
    ASSUME IInv
    PROVE  /\ FreshPlan \in [Cases -> CaseState]
           /\ \A c \in Cases : FreshPlan[c] = AfterExpiry(Rec(c), now) /\ CaseInv(FreshPlan[c])
<1>1. \A c \in Cases : FreshPlan[c] = AfterExpiry(Rec(c), now)
  BY DEF FreshPlan, Rec
<1>2. \A c \in Cases : CaseInv(AfterExpiry(Rec(c), now))
  BY Parts, AfterExpiryInv DEF IInv
<1>3. FreshPlan \in [Cases -> CaseState]
  BY <1>1, <1>2 DEF CaseInv, FreshPlan
<1> QED
  BY <1>1, <1>2, <1>3

LEMMA DownOk == ASSUME NEW r \in 0..MaxRuns PROVE [Down EXCEPT !.run = r] \in OrchState
<1>1. NoPlan \in [Cases -> CaseState]
  BY NoCaseInv DEF NoPlan, CaseInv
<1> QED
  BY <1>1, AttemptsAssumption, RunsAssumption DEF Down, OrchState, OrchPCs

LEMMA StartsInv == IInv /\ OrchStarts => IInv'
<1> SUFFICES ASSUME IInv, OrchStarts PROVE IInv'
  OBVIOUS
<1> DEFINE absent == {c \in Cases : volume.rec[c].state = "absent"}
           down == [Down EXCEPT !.run = orch.run + 1]
<1>1. /\ orch.run + 1 \in 0..MaxRuns /\ now \in Nat
      /\ orch' = [Down EXCEPT !.pc = "initializing", !.run = orch.run + 1, !.at = now, !.absent = absent]
      /\ UNCHANGED <<volume, worker, lost, now>>
  BY RunsAssumption, Parts DEF OrchStarts, IInv, TypeOK
<1>2. down \in OrchState
  BY <1>1, DownOk
<1>3. orch' = [down EXCEPT !.pc = "initializing", !.at = now, !.absent = absent]
  BY <1>1 DEF Down
<1>4. absent \in SUBSET Cases
  OBVIOUS
<1> HIDE DEF absent, down
<1>5. orch' \in OrchState
  BY <1>1, <1>2, <1>3, <1>4 DEF OrchState, OrchPCs
<1> QED
  BY <1>1, <1>5, OrchMoves

\* Initialization writes the first revision of the cases it found absent.
LEMMA OrchCommitsInv == IInv /\ OrchCommits => IInv'
<1> SUFFICES ASSUME IInv, OrchCommits PROVE IInv'
  OBVIOUS
<1> DEFINE n == Initialized(NoCase, orch.at)
<1>1. orch \in OrchState
  BY DEF IInv, TypeOK, OrchState
<1>2. CaseInv(n) /\ n.state = "pending" /\ n \in CaseState
  <2>1. n = [NoCase EXCEPT !.state = "pending", !.updated_at = orch.at] /\ n.state = "pending"
    BY DEF Initialized, NoCase
  <2> QED
    BY <1>1, <2>1, InitialInv DEF CaseInv, OrchState
<1> HIDE DEF n
<1>3. /\ volume'.rec = [c \in Cases |-> IF c \in orch.absent THEN n ELSE volume.rec[c]]
      /\ volume'.runs = volume.runs /\ UNCHANGED <<worker, lost, now>>
      /\ volume' \in [rec: [Cases -> CaseState], runs: SUBSET RunRoots]
  BY <1>2, Parts DEF OrchCommits, n
<1>4. orch' \in OrchState
  BY <1>1 DEF OrchCommits, OrchState, OrchPCs
<1>5. TypeOK'
  BY <1>3, <1>4 DEF IInv, TypeOK, OrchState
<1>6. \A c \in Cases : (CaseInv(Rec(c)) /\ Rooted(c, Rec(c)))'
  BY <1>2, <1>3 DEF IInv, Rec, Rooted
<1>7. \A w \in Workers : WorkerOk(w, worker[w])'
  BY <1>3 DEF IInv, WorkerOk, Rooted
<1> QED
  BY <1>5, <1>6, <1>7 DEF IInv

LEMMA OrchPlansInv ==
    IInv /\ (OrchFinishes \/ OrchSummarizes \/ OrchRaises \/ OrchCrashes) => IInv'
<1> SUFFICES ASSUME IInv, OrchFinishes \/ OrchSummarizes \/ OrchRaises \/ OrchCrashes PROVE IInv'
  OBVIOUS
<1>1. orch \in OrchState /\ UNCHANGED <<volume, worker, lost, now>>
  BY DEF IInv, TypeOK, OrchState, OrchFinishes, OrchSummarizes, OrchRaises, OrchCrashes
<1>2. CASE OrchFinishes \/ OrchSummarizes
  BY <1>1, <1>2, FreshPlanOk, OrchMoves DEF OrchFinishes, OrchSummarizes, OrchState, OrchPCs
<1>3. CASE OrchRaises
  BY <1>1, <1>3, OrchMoves DEF OrchRaises, OrchState, OrchPCs
<1>4. CASE OrchCrashes
  BY <1>1, <1>4, DownOk, OrchMoves DEF OrchCrashes, OrchState
<1> QED
  BY <1>2, <1>3, <1>4

\* A request names the attempt that follows the one of the plan.
LEMMA RequestOk ==
    ASSUME IInv, NEW w \in Workers, FreshPlan[CaseOf(w)].state = "pending"
    PROVE  /\ Request(CaseOf(w)) \in WorkerState /\ WorkerOk(w, Request(CaseOf(w)))
           /\ Request(CaseOf(w)).pc = "queued" /\ Request(CaseOf(w)).rec = NoCase
           /\ Request(CaseOf(w)).n = FreshPlan[CaseOf(w)].attempt + 1
<1> DEFINE c == CaseOf(w)
           s == FreshPlan[c]
           v == Request(c)
<1>1. c \in Cases /\ CaseInv(s)
  BY Parts, FreshPlanOk
<1>2. s.attempt + 1 \in 1..MaxAttempts /\ s.attempt + 1 \in 0..MaxAttempts
  BY <1>1, AttemptsAssumption DEF CaseInv, Coherent, CaseState
<1> HIDE DEF s
<1>3. Idle \in WorkerState /\ Idle.rec = NoCase /\ CaseInv(NoCase) /\ NoCase.state = "absent"
  BY IdleOk, NoCaseInv DEF Idle, NoCase
<1> DEFINE f == c = ForcedCase /\ orch.round = 0
<1>4. v = [Idle EXCEPT !.pc = "queued", !.n = s.attempt + 1, !.force = f] /\ f \in BOOLEAN
  BY DEF Request, s
<1> HIDE DEF f, v
<1>5. v \in WorkerState
  BY <1>2, <1>3, <1>4 DEF WorkerState, WorkerPCs
<1>6. v.pc = "queued" /\ v.rec = NoCase /\ v.n = s.attempt + 1
  BY <1>3, <1>4 DEF WorkerState
<1> QED
  BY <1>2, <1>3, <1>5, <1>6 DEF WorkerOk, Rooted, s, v

LEMMA SubmitsInv == IInv /\ OrchSubmits => IInv'
<1> SUFFICES ASSUME IInv, OrchSubmits PROVE IInv'
  OBVIOUS
<1> DEFINE asked == {w \in Workers : w[2] = orch.run /\ CaseOf(w) \in In(FreshPlan, "pending")}
<1>1. orch \in OrchState /\ UNCHANGED <<volume, lost, now>> /\ orch.round < MaxAttempts
      /\ orch' = [orch EXCEPT !.pc = "waiting", !.round = @ + 1, !.plan = FreshPlan]
  BY DEF IInv, TypeOK, OrchState, OrchSubmits, RoundsLeft
<1>2. orch' \in OrchState
  <2>1. orch.round + 1 \in 0..MaxAttempts
    BY <1>1, AttemptsAssumption DEF OrchState
  <2> QED
    BY <1>1, <2>1, FreshPlanOk DEF OrchState, OrchPCs
<1>3. /\ DOMAIN worker' = Workers /\ worker' = [w \in Workers |-> worker'[w]]
      /\ \A w \in Workers : worker'[w] = IF w \in asked THEN Request(CaseOf(w)) ELSE worker[w]
  BY DEF OrchSubmits
<1>4. \A w \in asked : Request(CaseOf(w)) \in WorkerState /\ WorkerOk(w, Request(CaseOf(w)))
  BY RequestOk DEF In
<1> HIDE DEF asked
<1>5. \A w \in Workers : worker'[w] \in WorkerState /\ WorkerOk(w, worker'[w])
  BY <1>3, <1>4, Parts DEF IInv
<1>6. worker' \in [Workers -> WorkerState]
  BY <1>3, <1>5
<1>7. \A w \in Workers : WorkerOk(w, worker[w])'
  BY <1>1, <1>5 DEF WorkerOk, Rooted
<1>8. TypeOK'
  BY <1>1, <1>2, <1>6 DEF IInv, TypeOK, WorkerState, OrchState
<1> QED
  BY <1>1, <1>7, <1>8 DEF IInv, Rec, Rooted

LEMMA InitIInv == Init => IInv
<1> SUFFICES ASSUME Init PROVE IInv
  OBVIOUS
<1>1. /\ volume = [rec |-> [c \in Cases |-> NoCase], runs |-> {}]
      /\ worker = [w \in Workers |-> Idle] /\ orch = Down /\ lost = {} /\ now = 0
  BY DEF Init
<1>2. CaseInv(NoCase) /\ NoCase \in CaseState /\ NoCase.state = "absent"
  BY NoCaseInv DEF CaseInv, NoCase
<1>3. orch \in OrchState
  <2>1. 0 \in 0..MaxRuns /\ Down = [Down EXCEPT !.run = 0]
    BY RunsAssumption DEF Down
  <2> QED
    BY <1>1, <2>1, DownOk
<1>4. \A w \in Workers : Idle \in WorkerState /\ WorkerOk(w, Idle)
  BY IdleOk
<1>5. TypeOK
  BY <1>1, <1>2, <1>3, <1>4 DEF TypeOK, WorkerState, OrchState
<1> QED
  BY <1>1, <1>2, <1>4, <1>5 DEF IInv, Rec, Rooted

\* The invariant is inductive, whether commands overlap or not.
LEMMA NextIInv == IInv /\ [Next]_vars => IInv'
<1> SUFFICES ASSUME IInv, [Next]_vars PROVE IInv'
  OBVIOUS
<1>1. CASE Tick
  <2>1. TypeOK'
    BY <1>1 DEF Tick, IInv, TypeOK
  <2> QED
    BY <1>1, <2>1 DEF Tick, IInv, Rec, Rooted, WorkerOk
<1>2. CASE UNCHANGED vars
  BY <1>2 DEF vars, IInv, TypeOK, Rec, Rooted, WorkerOk
<1> QED
  BY <1>1, <1>2, WorkerStepInv, StartsInv, OrchCommitsInv, OrchPlansInv, SubmitsInv
  DEF Next, OrchStep

LEMMA Invariant == Spec => []IInv
  BY InitIInv, NextIInv, PTL DEF Spec

\* Type correctness of the sweep: whatever is killed, and whether commands overlap or not,
\* the volume holds records of CaseState, workers and orchestrators keep their types, and
\* no case is asked for more attempts than it may have.
THEOREM SweepTypeCorrect == Spec => []TypeOK
<1>1. IInv => TypeOK
  BY DEF IInv
<1> QED
  BY <1>1, Invariant, PTL

\* A committed success names a committed run root, whether commands overlap or not: the
\* worker commits its run before it records the success.
THEOREM SuccessesHaveRoots == Spec => []SuccessHasRoot
<1>1. IInv => SuccessHasRoot
  BY DEF IInv, SuccessHasRoot, In, Rec, Rooted
<1> QED
  BY <1>1, Invariant, PTL

-----------------------------------------------------------------------------
(* Commands that do not overlap.                                           *)

\* Tokens are the numbers of attempts, and no record is ahead of the clock t.
RecordTimes(s, t) ==
    /\ s.attempt # 0 => s.attempt_id = s.attempt
    /\ s.updated_at <= t
    /\ s.state = "running" => s.lease_owner = s.attempt

\* The request asks for the next attempt of a case that may be claimed.
Queued(v, s, t) ==
    /\ v.n = s.attempt + 1
    /\ s.state # "absent"
    /\ AfterExpiry(s, t).state = "pending"

\* The copy of the worker is the claim that follows what the volume holds.
HasClaimed(v, s) ==
    /\ s.updated_at <= v.started
    /\ Queued(v, s, v.started)
    /\ v.rec = Claimed(AfterExpiry(s, v.started), v.n, v.n, v.started)

\* The volume holds the claim, with a lease that outlives the worker.
Holding(v, s) ==
    /\ s.state = "running" /\ s.attempt = v.n
    /\ s.lease_expires_at = v.started + LeaseDuration

\* A worker that holds the claim s may report rec at t.
IsOutcome(rec, s, t) ==
    \/ \E d \in Digests : rec = Succeeded(s, d, t)
    \/ \E code \in FailCodes, retryable \in BOOLEAN :
        rec = Failed(s, code, AfterFailure(s, code, retryable), t)

\* The copy of the worker is an outcome of the claim on the volume.
HasOutcome(v, s, t) == \E u \in 0..t : u >= s.updated_at /\ IsOutcome(v.rec, s, u)

\* A container lives for SolveTimeout at most.
InTime(v, t) == v.started <= t /\ t <= v.started + SolveTimeout

\* What the worker v carries to its next commit, when the volume holds s at t.
Private(v, s, t) ==
    /\ v.pc = "queued" => Queued(v, s, t)
    /\ v.pc \notin {"idle", "queued"} => InTime(v, t)
    /\ v.pc = "claimed" => HasClaimed(v, s)
    /\ v.pc \in {"solving", "publishing", "published"} => Holding(v, s) /\ v.rec = s
    /\ v.pc = "reporting" => Holding(v, s) /\ HasOutcome(v, s, t)

Privates == \A w \in Workers : Private(worker[w], Rec(CaseOf(w)), now)

\* Only the latest command has workers, and only while it waits for them or has died.
OneCommand ==
    \A w \in Workers : ~Idles(w) => w[2] = orch.run /\ orch.pc \in {"waiting", "down"}

\* The orchestrator initializes exactly the cases it found absent, and plans for all.
Initializing ==
    /\ orch.pc # "down" => orch.run >= 1
    /\ orch.at <= now
    /\ orch.pc = "initializing" =>
        orch.round = 0 /\ orch.absent = {c \in Cases : Rec(c).state = "absent"}
    /\ orch.pc \in {"planning", "waiting", "finishing", "done"} =>
        \A c \in Cases : Rec(c).state # "absent"

\* The successes of the last plan are still there.
PlanKept == \A c \in Cases : orch.plan[c].state = "succeeded" => Rec(c) = orch.plan[c]

HasWorker(c) == \E w \in Workers : CaseOf(w) = c /\ ~Idles(w)

\* A case nobody was killed on has used an attempt in every round of the command so far,
\* or is about to, and runs only while a worker holds it.
Accountable(c) ==
    /\ Rec(c).state = "running" => HasWorker(c) /\ Rec(c).attempt >= orch.round
    /\ Rec(c).state = "pending" =>
        /\ HasWorker(c) => Rec(c).attempt + 1 >= orch.round
        /\ ~HasWorker(c) => Rec(c).attempt >= orch.round
        /\ orch.pc \notin {"finishing", "done"}

SInv ==
    /\ IInv
    /\ \A c \in Cases : RecordTimes(Rec(c), now)
    /\ OneCommand
    /\ Privates
    /\ Initializing
    /\ PlanKept
    /\ \A c \in Cases \ lost : Accountable(c)
    /\ SummariesAreTrue
    /\ orch.pc # "raised"

\* A case has one worker at a time.
LEMMA OneWorker ==
    ASSUME OneCommand, NEW w \in Workers, NEW x \in Workers,
           ~Idles(w), ~Idles(x), CaseOf(w) = CaseOf(x)
    PROVE  x = w
  BY DEF OneCommand, Workers, CaseOf

\* A worker that goes on, or is killed, in its container.
LEMMA PrivateS ==
    ASSUME SInv, IInv', NEW w \in Workers, ~Idles(w),
           \A x \in Workers \ {w} : worker'[x] = worker[x],
           lost \subseteq lost', Idles(w)' => CaseOf(w) \in lost',
           Private(worker'[w], Rec(CaseOf(w)), now),
           volume.rec' = volume.rec, UNCHANGED <<orch, now>>
    PROVE  SInv'
<1>1. \A x \in Workers : Idles(x) => Idles(x)'
  BY DEF Idles
<1>2. OneCommand'
  BY <1>1 DEF SInv, OneCommand
<1>3. Privates'
  BY DEF SInv, Privates, Rec
<1>4. /\ (\A c \in Cases : RecordTimes(Rec(c), now))' /\ Initializing' /\ PlanKept'
      /\ SummariesAreTrue' /\ orch'.pc # "raised"
  BY DEF SInv, Rec, Initializing, PlanKept, SummariesAreTrue, SummaryIsTrue, RetriesAreUsed
<1>5. ASSUME NEW c \in Cases \ lost' PROVE Accountable(c)'
  <2>1. HasWorker(c)' = HasWorker(c)
    <3>1. CASE CaseOf(w) = c
      BY <1>5, <3>1 DEF HasWorker
    <3>2. CASE CaseOf(w) # c
      <4>1. \A x \in Workers : CaseOf(x) = c => Idles(x)' = Idles(x)
        BY <3>2 DEF Idles
      <4> QED
        BY <4>1 DEF HasWorker
    <3> QED
      BY <3>1, <3>2
  <2> QED
    BY <1>5, <2>1 DEF SInv, Accountable, Rec
<1> QED
  BY <1>2, <1>3, <1>4, <1>5 DEF SInv

\* A worker that replaces the record of its case, pending or running so far.
LEMMA CommitS ==
    ASSUME SInv, IInv', NEW w \in Workers, ~Idles(w),
           \A x \in Workers \ {w} : worker'[x] = worker[x],
           NEW n, volume.rec' = [volume.rec EXCEPT ![CaseOf(w)] = n],
           UNCHANGED <<orch, lost, now>>,
           Rec(CaseOf(w)).state \in {"pending", "running"},
           RecordTimes(n, now), n.state # "absent", Private(worker'[w], n, now),
           n.state = "running" => ~Idles(w)',
           CaseOf(w) \notin lost => n.attempt >= orch.round
    PROVE  SInv'
<1> DEFINE c == CaseOf(w)
<1>1. c \in Cases /\ \A x \in Cases : Rec(x)' = IF x = c THEN n ELSE Rec(x)
  BY Parts DEF SInv, Rec
<1> HIDE DEF c
<1>2. orch.pc \in {"waiting", "down"} /\ orch'.pc \in {"waiting", "down"}
  BY DEF SInv, OneCommand
<1>3. \A x \in Workers : Idles(x) => Idles(x)'
  BY DEF Idles
<1>4. OneCommand'
  BY <1>3 DEF SInv, OneCommand
<1>5. ASSUME NEW x \in Workers PROVE Private(worker[x], Rec(CaseOf(x)), now)'
  <2>1. CASE x = w
    BY <1>1, <2>1 DEF c
  <2>2. CASE x # w /\ CaseOf(x) = c
    <3>1. Idles(x)
      BY <2>2, OneWorker DEF SInv, c
    <3> QED
      BY <2>2, <3>1 DEF Private, Idles
  <2>3. CASE CaseOf(x) # c
    <3>1. CaseOf(x) \in Cases /\ x # w
      BY <2>3, Parts DEF SInv, c
    <3> QED
      BY <1>1, <2>3, <3>1 DEF SInv, Privates
  <2> QED
    BY <2>1, <2>2, <2>3
<1>6. (\A x \in Cases : RecordTimes(Rec(x), now))'
  BY <1>1 DEF SInv
<1>7. Initializing'
  BY <1>1, <1>2 DEF SInv, Initializing
<1>8. PlanKept'
  <2>1. ASSUME NEW x \in Cases, orch.plan[x].state = "succeeded"
        PROVE  Rec(x)' = orch.plan[x]
    <3>1. Rec(x) = orch.plan[x] /\ x # c
      BY <2>1 DEF SInv, PlanKept, c
    <3> QED
      BY <1>1, <3>1
  <2> QED
    BY <2>1 DEF PlanKept
<1>9. ASSUME NEW x \in Cases \ lost PROVE Accountable(x)'
  <2>1. CASE x = c
    <3>1. Rec(x)' = n /\ (~Idles(w)' => HasWorker(x)')
      BY <1>1, <2>1 DEF HasWorker, c
    <3>2. n.attempt \in Nat /\ orch.round \in Nat /\ n.attempt >= orch.round
      BY <1>1, <1>9, <2>1, <3>1 DEF IInv, CaseInv, CaseState, SInv, TypeOK, c
    <3> QED
      BY <1>2, <3>1, <3>2 DEF Accountable
  <2>2. CASE x # c
    <3>1. \A y \in Workers : CaseOf(y) = x => Idles(y)' = Idles(y)
      BY <2>2 DEF Idles, c
    <3>2. HasWorker(x)' = HasWorker(x)
      BY <3>1 DEF HasWorker
    <3> QED
      BY <1>1, <1>9, <2>2, <3>2 DEF SInv, Accountable
  <2> QED
    BY <2>1, <2>2
<1>10. SummariesAreTrue' /\ orch'.pc # "raised"
  BY <1>2 DEF SummariesAreTrue, SummaryIsTrue, RetriesAreUsed
<1> QED
  BY <1>4, <1>5, <1>6, <1>7, <1>8, <1>9, <1>10 DEF SInv, Privates

\* What is known of a worker and the record of its case.
LEMMA WorkerFacts ==
    ASSUME SInv, NEW w \in Workers
    PROVE  /\ IInv /\ worker[w] \in WorkerState /\ CaseOf(w) \in Cases /\ now \in Nat
           /\ CaseInv(Rec(CaseOf(w))) /\ Rec(CaseOf(w)) \in CaseState
           /\ RecordTimes(Rec(CaseOf(w)), now)
           /\ Private(worker[w], Rec(CaseOf(w)), now)
           /\ ~Idles(w) => worker[w].n \in 1..MaxAttempts /\ worker[w].n \in Nat
<1>1. IInv /\ worker[w] \in WorkerState /\ CaseOf(w) \in Cases /\ now \in Nat
  BY Parts DEF SInv
<1>2. ~Idles(w) => worker[w].n \in 1..MaxAttempts /\ worker[w].n \in Nat
  <2>1. \A n \in 1..MaxAttempts : n \in Nat
    BY AttemptsAssumption
  <2> QED
    BY <1>1, <2>1 DEF IInv, WorkerOk, Idles
<1> QED
  BY <1>1, <1>2 DEF SInv, Privates, IInv, CaseInv

\* The lease of a worker that solves is live until the worker's timeout.
LEMMA SolverOwns ==
    ASSUME SInv, NEW w \in Workers, worker[w].pc \in {"solving", "publishing", "published"}
    PROVE  Owns(w) /\ worker[w].rec = Rec(CaseOf(w))
<1> DEFINE v == worker[w]
           s == Rec(CaseOf(w))
<1>1. /\ s \in CaseState /\ v \in WorkerState /\ v.n \in 1..MaxAttempts /\ now \in Nat
      /\ RecordTimes(s, now) /\ Holding(v, s) /\ InTime(v, now) /\ v.rec = s
  BY WorkerFacts DEF Private, Idles
<1>2. s.state = "running" /\ s.attempt_id = v.n /\ s.lease_owner = v.n /\ now >= s.updated_at
  BY <1>1 DEF Holding, RecordTimes, CaseState
<1>3. s.lease_expires_at > now
  BY <1>1, TimeoutAssumption, LeaseAssumption DEF Holding, InTime, WorkerState
<1> QED
  BY <1>1, <1>2, <1>3 DEF Owns, OwnsLease, Live

\* A request finds its case claimable with its token.
LEMMA QueuedClaims ==
    ASSUME SInv, NEW w \in Workers, worker[w].pc = "queued"
    PROVE  LET v == worker[w]
               s == Rec(CaseOf(w))
           IN
           /\ Initialized(s, now) = s /\ ~Live(s, now)
           /\ Claimable(AfterExpiry(s, now), v.n, now)
<1> DEFINE v == worker[w]
           s == Rec(CaseOf(w))
           e == AfterExpiry(s, now)
<1>1. /\ CaseInv(s) /\ s \in CaseState /\ v.n \in 1..MaxAttempts /\ now \in Nat
      /\ RecordTimes(s, now) /\ Queued(v, s, now)
  BY WorkerFacts DEF Private, Idles
<1>2. Initialized(s, now) = s
  BY <1>1 DEF Queued, Initialized
<1>3. CASE s.state = "running" /\ s.lease_expires_at <= now
  <2>1. e.attempt_id = s.attempt_id /\ e.updated_at = now /\ e.state = "pending"
    BY <1>1, <1>3 DEF AfterExpiry, Failed, CaseState, Queued
  <2>2. s.attempt >= 1 /\ s.attempt_id # v.n
    BY <1>1, <1>3 DEF CaseInv, Coherent, CaseState, RecordTimes, Queued
  <2>3. ~Live(s, now)
    BY <1>1, <1>3 DEF Live, CaseState, CaseInv, Coherent
  <2> QED
    BY <1>1, <1>2, <2>1, <2>2, <2>3 DEF Claimable
<1>4. CASE ~(s.state = "running" /\ s.lease_expires_at <= now)
  <2>1. e = s /\ s.state = "pending"
    BY <1>1, <1>4 DEF AfterExpiry, Queued
  <2>2. s.attempt_id # v.n
    <3>1. CASE s.attempt = 0
      BY <1>1, <2>1, <3>1, NoneAssumption, TokensAssumption DEF CaseInv, Coherent
    <3>2. CASE s.attempt # 0
      BY <1>1, <3>2 DEF CaseState, RecordTimes, Queued
    <3> QED
      BY <3>1, <3>2
  <2> QED
    BY <1>1, <1>2, <2>1, <2>2 DEF Claimable, RecordTimes, Live
<1> QED
  BY <1>3, <1>4

\* So a request always claims its case.
LEMMA ClaimsS ==
    ASSUME SInv, IInv', NEW w \in Workers, WorkerClaims(w)
    PROVE  SInv'
<1> DEFINE n == worker[w].n
           s == Rec(CaseOf(w))
           rec == Claimed(AfterExpiry(s, now), n, n, now)
<1>1. /\ worker[w].pc = "queued" /\ worker[w] \in WorkerState /\ now \in Nat
      /\ RecordTimes(s, now) /\ Queued(worker[w], s, now) /\ worker \in [Workers -> WorkerState]
      /\ UNCHANGED <<volume, orch, lost, now>>
  BY WorkerFacts, Parts DEF WorkerClaims, Private, Idles
<1>2. WorkerReloads(w, rec)
  BY <1>1, QueuedClaims DEF WorkerClaims, Rec
<1> HIDE DEF rec
<1>3. /\ worker' = [worker EXCEPT ![w].pc = "claimed", ![w].started = now, ![w].rec = rec]
  BY <1>2 DEF WorkerReloads
<1>4. /\ \A x \in Workers \ {w} : worker'[x] = worker[x]
      /\ worker'[w].pc = "claimed" /\ worker'[w].started = now /\ worker'[w].rec = rec
      /\ worker'[w].n = n
  BY <1>1, <1>3 DEF WorkerState
<1>5. InTime(worker'[w], now) /\ HasClaimed(worker'[w], s)
  BY <1>1, <1>4, TimeoutAssumption DEF InTime, HasClaimed, Queued, RecordTimes, rec
<1>6. Private(worker'[w], s, now)
  BY <1>4, <1>5 DEF Private
<1> QED
  BY <1>1, <1>4, <1>6, PrivateS DEF Idles

\* The claim joins the volume as it was made.
LEMMA CommitsClaimS ==
    ASSUME SInv, IInv', NEW w \in Workers, WorkerCommitsClaim(w)
    PROVE  SInv'
<1> DEFINE v == worker[w]
           s == Rec(CaseOf(w))
           e == AfterExpiry(s, v.started)
           n == v.rec
<1>1. /\ v.pc = "claimed" /\ v \in WorkerState /\ now \in Nat /\ v.n \in Nat /\ v.n # 0
      /\ CaseInv(s) /\ s \in CaseState /\ InTime(v, now) /\ HasClaimed(v, s)
      /\ worker \in [Workers -> WorkerState] /\ CaseOf(w) \in Cases
      /\ UNCHANGED <<orch, lost, now>>
  BY WorkerFacts, Parts DEF WorkerCommitsClaim, Private, Idles
<1>2. worker' = [worker EXCEPT ![w].pc = "solving"]
      /\ volume' = [volume EXCEPT !.rec[CaseOf(w)] = n]
  BY DEF WorkerCommitsClaim, CommitState
<1>3. volume.rec' = [volume.rec EXCEPT ![CaseOf(w)] = n]
  BY <1>2, Parts DEF SInv
<1>4. s.state \in {"pending", "running"}
  BY <1>1 DEF HasClaimed, Queued, AfterExpiry
<1>5. e \in CaseState /\ e.attempt = s.attempt
  <2>1. v.started \in Nat
    BY <1>1 DEF WorkerState
  <2>2. CaseInv(e)
    BY <1>1, <2>1, AfterExpiryInv
  <2> QED
    BY <1>1, <2>2 DEF AfterExpiry, Failed, CaseState, CaseInv
<1>6. /\ n.state = "running" /\ n.attempt = v.n /\ n.attempt_id = v.n /\ n.lease_owner = v.n
      /\ n.updated_at = v.started /\ n.lease_expires_at = v.started + LeaseDuration
      /\ v.n = s.attempt + 1
  <2>1. n = Claimed(e, v.n, v.n, v.started) /\ v.n = s.attempt + 1
    BY <1>1 DEF HasClaimed, Queued
  <2> HIDE DEF n, e
  <2> QED
    BY <1>5, <2>1 DEF Claimed, CaseState
<1>7. RecordTimes(n, now)
  BY <1>1, <1>6 DEF RecordTimes, InTime
<1>8. /\ \A x \in Workers \ {w} : worker'[x] = worker[x]
      /\ worker'[w].pc = "solving" /\ worker'[w].started = v.started
      /\ worker'[w].rec = n /\ worker'[w].n = v.n
  BY <1>1, <1>2 DEF WorkerState
<1> HIDE DEF n
<1>9. Private(worker'[w], n, now)
  BY <1>1, <1>6, <1>8 DEF Private, Holding, InTime
<1>10. ASSUME CaseOf(w) \notin lost PROVE n.attempt >= orch.round
  <2>1. s.attempt >= orch.round \/ s.attempt + 1 >= orch.round
    BY <1>1, <1>4, <1>10 DEF SInv, Accountable
  <2>2. s.attempt \in Nat /\ orch.round \in Nat
    BY <1>1 DEF CaseState, SInv, IInv, TypeOK
  <2> QED
    BY <1>6, <2>1, <2>2
<1> QED
  BY <1>1, <1>3, <1>4, <1>6, <1>7, <1>8, <1>9, <1>10, CommitS DEF Idles

\* A worker that solves moves on and keeps its claim.
LEMMA SolvesS ==
    ASSUME SInv, IInv', NEW w \in Workers,
           worker[w].pc \in {"solving", "publishing", "published"},
           \A x \in Workers \ {w} : worker'[x] = worker[x],
           worker'[w].pc \in {"publishing", "published"},
           worker'[w].n = worker[w].n, worker'[w].started = worker[w].started,
           worker'[w].rec = worker[w].rec, volume.rec' = volume.rec,
           UNCHANGED <<orch, lost, now>>
    PROVE  SInv'
<1>1. Private(worker[w], Rec(CaseOf(w)), now)
  BY WorkerFacts
<1>2. Private(worker'[w], Rec(CaseOf(w)), now)
  BY <1>1 DEF Private, Holding, InTime
<1> QED
  BY <1>2, PrivateS DEF Idles

\* A worker that solves ends with an outcome of the claim it holds.
LEMMA EndsS ==
    ASSUME SInv, IInv', NEW w \in Workers,
           worker[w].pc \in {"solving", "publishing", "published"},
           \A x \in Workers \ {w} : worker'[x] = worker[x],
           worker'[w].pc = "reporting",
           worker'[w].n = worker[w].n, worker'[w].started = worker[w].started,
           IsOutcome(worker'[w].rec, worker[w].rec, now),
           UNCHANGED <<volume, orch, lost, now>>
    PROVE  SInv'
<1> DEFINE s == Rec(CaseOf(w))
<1>1. /\ worker[w] \in WorkerState /\ worker[w].rec = s /\ now \in 0..now
      /\ RecordTimes(s, now) /\ Holding(worker[w], s) /\ InTime(worker[w], now)
  BY WorkerFacts DEF Private
<1>2. HasOutcome(worker'[w], s, now)
  <2>1. now >= s.updated_at /\ s.updated_at \in Nat /\ now \in Nat
    BY WorkerFacts DEF RecordTimes, CaseState
  <2> HIDE DEF s
  <2> QED
    BY <1>1, <2>1 DEF HasOutcome
<1>3. Private(worker'[w], s, now)
  BY <1>1, <1>2 DEF Private, Holding, InTime
<1> QED
  BY <1>3, PrivateS DEF Idles

\* What a worker reports closes the attempt that is open on the volume.
LEMMA ReportsS ==
    ASSUME SInv, IInv', NEW w \in Workers, WorkerReports(w)
    PROVE  SInv'
<1> DEFINE v == worker[w]
           s == Rec(CaseOf(w))
           n == v.rec
<1>1. /\ v.pc = "reporting" /\ now \in Nat /\ CaseInv(s) /\ s \in CaseState
      /\ RecordTimes(s, now) /\ Holding(v, s) /\ HasOutcome(v, s, now)
      /\ worker \in [Workers -> WorkerState] /\ CaseOf(w) \in Cases
      /\ UNCHANGED <<orch, lost, now>> /\ s.state = "running"
  BY WorkerFacts, Parts DEF WorkerReports, Private, Idles, Holding
<1>2. worker' = [worker EXCEPT ![w] = Idle] /\ volume' = [volume EXCEPT !.rec[CaseOf(w)] = n]
  BY DEF WorkerReports, CommitState
<1>3. volume.rec' = [volume.rec EXCEPT ![CaseOf(w)] = n]
  BY <1>2, Parts DEF SInv
<1>4. /\ n.state \in {"succeeded", "pending", "failed"} /\ n.attempt = s.attempt
      /\ n.attempt_id = s.attempt_id /\ n.updated_at <= now
  <2>1. PICK u \in 0..now :
            \/ \E d \in Digests : n = Succeeded(s, d, u)
            \/ \E code \in FailCodes, retryable \in BOOLEAN :
                 n = Failed(s, code, AfterFailure(s, code, retryable), u)
    BY <1>1 DEF HasOutcome, IsOutcome
  <2>2. u \in Nat /\ u <= now
    BY <1>1
  <2> HIDE DEF n, s
  <2>3. ASSUME NEW d \in Digests, n = Succeeded(s, d, u)
        PROVE  n.state = "succeeded" /\ n.attempt = s.attempt /\ n.attempt_id = s.attempt_id
               /\ n.updated_at = u
    BY <1>1, <2>3 DEF Succeeded, CaseState
  <2>4. ASSUME NEW code \in FailCodes, NEW retryable \in BOOLEAN,
               n = Failed(s, code, AfterFailure(s, code, retryable), u)
        PROVE  n.state \in {"pending", "failed"} /\ n.attempt = s.attempt
               /\ n.attempt_id = s.attempt_id /\ n.updated_at = u
    BY <1>1, <2>2, <2>4, FailedAttempt
  <2> QED
    BY <2>1, <2>2, <2>3, <2>4
<1>5. RecordTimes(n, now)
  BY <1>1, <1>4 DEF RecordTimes
<1>6. /\ \A x \in Workers \ {w} : worker'[x] = worker[x]
      /\ worker'[w].pc = "idle"
  BY <1>1, <1>2 DEF Idle
<1>7. Private(worker'[w], n, now)
  BY <1>6 DEF Private
<1>8. CaseOf(w) \notin lost => n.attempt >= orch.round
  BY <1>1, <1>4 DEF SInv, Accountable
<1> HIDE DEF n
<1> QED
  BY <1>1, <1>3, <1>4, <1>5, <1>6, <1>7, <1>8, CommitS DEF Idles

LEMMA WorkerStepS ==
    ASSUME SInv, IInv', NEW w \in Workers, WorkerStep(w) \/ WorkerKilled(w)
    PROVE  SInv'
<1>1. IInv /\ worker \in [Workers -> WorkerState] /\ worker[w] \in WorkerState
  BY Parts DEF SInv
<1>2. CASE WorkerKilled(w)
  <2>1. /\ worker[w].pc # "idle" /\ worker'[w].pc = "idle" /\ lost' = lost \cup {CaseOf(w)}
        /\ \A x \in Workers \ {w} : worker'[x] = worker[x]
        /\ UNCHANGED <<volume, orch, now>>
    BY <1>1, <1>2 DEF WorkerKilled, Idle
  <2>2. Private(worker'[w], Rec(CaseOf(w)), now)
    BY <2>1 DEF Private
  <2> QED
    BY <2>1, <2>2, PrivateS DEF Idles
<1>3. ASSUME NEW code \in FailCodes, NEW retryable \in BOOLEAN, WorkerFails(w, code, retryable)
      PROVE  SInv'
  <2> DEFINE rec == Failed(worker[w].rec, code, AfterFailure(worker[w].rec, code, retryable), now)
  <2>1. worker[w].pc = "solving" /\ UNCHANGED <<volume, orch, lost, now>>
    BY <1>3 DEF WorkerFails
  <2>2. worker' = [worker EXCEPT ![w].pc = "reporting", ![w].rec = rec]
    BY <1>3, <2>1, SolverOwns DEF WorkerFails
  <2>3. IsOutcome(rec, worker[w].rec, now)
    BY DEF IsOutcome
  <2> HIDE DEF rec
  <2>4. /\ \A x \in Workers \ {w} : worker'[x] = worker[x]
        /\ worker'[w].pc = "reporting" /\ worker'[w].n = worker[w].n
        /\ worker'[w].started = worker[w].started /\ worker'[w].rec = rec
    BY <1>1, <2>2 DEF WorkerState
  <2> QED
    BY <2>1, <2>3, <2>4, EndsS
<1>4. ASSUME NEW d \in Digests, WorkerPublishes(w, d)
      PROVE  SInv'
  <2>1. /\ worker[w].pc = "solving" /\ UNCHANGED <<volume, orch, lost, now>>
        /\ worker' = [worker EXCEPT ![w].pc = "publishing", ![w].digest = d]
    BY <1>4 DEF WorkerPublishes
  <2>2. /\ \A x \in Workers \ {w} : worker'[x] = worker[x]
        /\ worker'[w].pc = "publishing" /\ worker'[w].n = worker[w].n
        /\ worker'[w].started = worker[w].started /\ worker'[w].rec = worker[w].rec
    BY <1>1, <2>1 DEF WorkerState
  <2> QED
    BY <2>1, <2>2, SolvesS
<1>5. CASE WorkerSucceeds(w)
  <2> DEFINE rec == Succeeded(worker[w].rec, worker[w].digest, now)
  <2>1. worker[w].pc = "published" /\ UNCHANGED <<volume, orch, lost, now>>
    BY <1>5 DEF WorkerSucceeds
  <2>2. worker' = [worker EXCEPT ![w].pc = "reporting", ![w].rec = rec]
    BY <1>5, <2>1, SolverOwns DEF WorkerSucceeds
  <2>3. worker[w].digest \in Digests
    BY <1>1, <2>1 DEF IInv, WorkerOk
  <2>4. IsOutcome(rec, worker[w].rec, now)
    BY <2>3 DEF IsOutcome
  <2> HIDE DEF rec
  <2>5. /\ \A x \in Workers \ {w} : worker'[x] = worker[x]
        /\ worker'[w].pc = "reporting" /\ worker'[w].n = worker[w].n
        /\ worker'[w].started = worker[w].started /\ worker'[w].rec = rec
    BY <1>1, <2>2 DEF WorkerState
  <2> QED
    BY <2>1, <2>4, <2>5, EndsS
<1>6. CASE WorkerCommitsRun(w)
  <2>1. /\ worker[w].pc = "publishing" /\ UNCHANGED <<orch, lost, now>>
        /\ worker' = [worker EXCEPT ![w].pc = "published"] /\ volume.rec' = volume.rec
    BY <1>1, <1>6, Parts DEF WorkerCommitsRun, CommitRun
  <2>2. /\ \A x \in Workers \ {w} : worker'[x] = worker[x]
        /\ worker'[w].pc = "published" /\ worker'[w].n = worker[w].n
        /\ worker'[w].started = worker[w].started /\ worker'[w].rec = worker[w].rec
    BY <1>1, <2>1 DEF WorkerState
  <2> QED
    BY <2>1, <2>2, SolvesS
<1> QED
  BY <1>2, <1>3, <1>4, <1>5, <1>6, ClaimsS, CommitsClaimS, ReportsS DEF WorkerStep

\* The clock moves while every worker is within its timeout.
LEMMA TickS == SInv /\ IInv' /\ Tick => SInv'
<1> SUFFICES ASSUME SInv, IInv', Tick PROVE SInv'
  OBVIOUS
<1>1. now \in Nat /\ now' = now + 1 /\ UNCHANGED <<volume, worker, orch, lost>>
  BY Parts DEF Tick, SInv
<1>2. \A c \in Cases : RecordTimes(Rec(c), now)'
  BY <1>1 DEF SInv, RecordTimes, Rec, IInv, CaseInv, CaseState
<1>3. ASSUME NEW w \in Workers PROVE Private(worker[w], Rec(CaseOf(w)), now)'
  <2> DEFINE v == worker[w]
             s == Rec(CaseOf(w))
  <2>1. v \in WorkerState /\ s \in CaseState /\ CaseInv(s) /\ Private(v, s, now)
        /\ SolveTimeout \in Nat
    BY WorkerFacts, TimeoutAssumption
  <2>2. v.pc \notin {"idle", "queued"} => now < v.started + SolveTimeout
    BY DEF Tick
  <2> HIDE DEF v, s
  <2>3. v.pc \notin {"idle", "queued"} => InTime(v, now + 1)
    BY <1>1, <2>1, <2>2 DEF Private, InTime, WorkerState
  <2>4. AfterExpiry(s, now).state = "pending" => AfterExpiry(s, now + 1).state = "pending"
    <3>1. CASE s.state = "running" /\ s.lease_expires_at <= now
      <4>1. s.lease_expires_at <= now + 1
        BY <1>1, <2>1, <3>1 DEF CaseInv, Coherent, CaseState
      <4> QED
        BY <2>1, <3>1, <4>1 DEF AfterExpiry, Failed, CaseState
    <3>2. CASE ~(s.state = "running" /\ s.lease_expires_at <= now)
      BY <3>2 DEF AfterExpiry
    <3> QED
      BY <3>1, <3>2
  <2>5. v.pc = "queued" => Queued(v, s, now + 1)
    BY <2>1, <2>4 DEF Private, Queued
  <2>6. HasOutcome(v, s, now) => HasOutcome(v, s, now + 1)
    <3>1. \A u \in 0..now : u \in 0..(now + 1)
      BY <1>1
    <3> QED
      BY <3>1 DEF HasOutcome
  <2>7. Private(v, s, now + 1)
    BY <2>1, <2>3, <2>5, <2>6 DEF Private
  <2> QED
    BY <1>1, <2>7 DEF v, s, Rec
<1>4. OneCommand' /\ PlanKept' /\ \A c \in Cases \ lost' : Accountable(c)'
  BY <1>1 DEF SInv, OneCommand, PlanKept, Accountable, HasWorker, Rec, Idles
<1>5. Initializing'
  BY <1>1 DEF SInv, Initializing, Rec, IInv, TypeOK
<1>6. SummariesAreTrue'
  <2>1. \A t \in 0..now : t \in 0..(now + 1)
    BY <1>1
  <2> QED
    BY <1>1, <2>1 DEF SInv, SummariesAreTrue, SummaryIsTrue, RetriesAreUsed
<1> QED
  BY <1>1, <1>2, <1>3, <1>4, <1>5, <1>6 DEF SInv, Privates

\* A plan that may be made finds no worker.
LEMMA AllIdle ==
    ASSUME SInv, Collectable \/ orch.pc \in {"initializing", "finishing", "done"}
    PROVE  \A w \in Workers : Idles(w)
<1>1. ASSUME NEW w \in Workers, ~Idles(w) PROVE FALSE
  <2>1. w[2] = orch.run /\ orch.pc \in {"waiting", "down"}
    BY <1>1 DEF SInv, OneCommand
  <2>2. w \in Working(orch.run)
    BY <1>1, <2>1 DEF Working, Idles
  <2> QED
    BY <2>1, <2>2 DEF Collectable
<1> QED
  BY <1>1

\* What a fresh plan says, and that it always holds.
LEMMA PlanFacts ==
    ASSUME SInv
    PROVE  /\ PlanHolds
           /\ \A c \in Cases :
                /\ FreshPlan[c] = AfterExpiry(Rec(c), now)
                /\ FreshPlan[c].state = "succeeded" => Rec(c) = FreshPlan[c]
                /\ FreshPlan[c].state = "pending" => Rec(c).state \in {"pending", "running"}
                /\ Rec(c).state = "pending" => FreshPlan[c] = Rec(c)
<1>1. IInv /\ now \in Nat /\ \A c \in Cases : CaseInv(Rec(c)) /\ Rec(c) \in CaseState /\ Rooted(c, Rec(c))
  BY Parts DEF SInv, IInv, CaseInv
<1>2. \A c \in Cases : FreshPlan[c] = AfterExpiry(Rec(c), now)
  BY <1>1, FreshPlanOk
<1>3. \A c \in Cases : FreshPlan[c].state = "succeeded" \/ Rec(c).state = "succeeded"
                        => FreshPlan[c] = Rec(c)
  BY <1>1, <1>2, AfterExpirySuccess
<1>4. PlanHolds
  <2>1. ASSUME NEW c \in In(FreshPlan, "succeeded")
        PROVE  <<c, FreshPlan[c].run_digest>> \in volume.runs
    BY <1>1, <1>3 DEF In, Rooted
  <2>2. ASSUME NEW c \in In(orch.plan, "succeeded")
        PROVE  FreshPlan[c].state = "succeeded" /\ FreshPlan[c].run_digest = orch.plan[c].run_digest
    BY <1>3 DEF In, SInv, PlanKept
  <2> QED
    BY <2>1, <2>2 DEF PlanHolds
<1>5. \A c \in Cases : /\ FreshPlan[c].state = "pending" => Rec(c).state \in {"pending", "running"}
                       /\ Rec(c).state = "pending" => FreshPlan[c] = Rec(c)
  BY <1>2 DEF AfterExpiry
<1> QED
  BY <1>2, <1>3, <1>4, <1>5

\* A step of the orchestrator that finds no worker and asks for none.
LEMMA PlanS ==
    ASSUME SInv, IInv', \A w \in Workers : Idles(w),
           UNCHANGED <<volume, worker, lost, now>>,
           Initializing', PlanKept', SummariesAreTrue', orch'.pc # "raised",
           \A c \in Cases \ lost : Accountable(c)'
    PROVE  SInv'
<1>1. \A w \in Workers : Idles(w)'
  BY DEF Idles
<1>2. OneCommand' /\ Privates'
  BY <1>1 DEF OneCommand, Privates, Private, Idles
<1>3. (\A c \in Cases : RecordTimes(Rec(c), now))'
  BY DEF SInv, Rec
<1> QED
  BY <1>2, <1>3 DEF SInv

\* A command that is started finds no worker of an earlier one.
LEMMA StartsS == SInv /\ IInv' /\ ~Overlap /\ OrchStarts => SInv'
<1> SUFFICES ASSUME SInv, IInv', ~Overlap, OrchStarts PROVE SInv'
  OBVIOUS
<1> DEFINE absent == {c \in Cases : Rec(c).state = "absent"}
<1>1. /\ \A w \in Workers : Idles(w)
      /\ orch' = [Down EXCEPT !.pc = "initializing", !.run = orch.run + 1, !.at = now, !.absent = absent]
      /\ UNCHANGED <<volume, worker, lost, now>>
  BY DEF OrchStarts, Idles, Rec
<1>0. now \in Nat /\ orch.run \in Nat
  BY Parts, RunsAssumption DEF SInv, IInv, TypeOK
<1> HIDE DEF absent
<1>2. /\ orch'.pc = "initializing" /\ orch'.run = orch.run + 1 /\ orch'.round = 0
      /\ orch'.at = now /\ orch'.absent = absent /\ orch'.plan = NoPlan
  BY <1>1 DEF Down
<1>3. Initializing'
  BY <1>0, <1>1, <1>2 DEF Initializing, absent, Rec
<1>4. PlanKept' /\ SummariesAreTrue'
  BY <1>1, <1>2 DEF PlanKept, NoPlan, NoCase, SummariesAreTrue, SummaryIsTrue, RetriesAreUsed
<1>5. ASSUME NEW c \in Cases \ lost PROVE Accountable(c)'
  <2>1. Rec(c)' = Rec(c) /\ Rec(c).state # "running" /\ Rec(c).attempt \in Nat
    BY <1>1, <1>5 DEF SInv, Accountable, HasWorker, Rec, IInv, CaseInv, CaseState
  <2> QED
    BY <1>2, <2>1 DEF Accountable
<1> QED
  BY <1>1, <1>2, <1>3, <1>4, <1>5, PlanS

LEMMA OrchCommitsS == SInv /\ IInv' /\ OrchCommits => SInv'
<1> SUFFICES ASSUME SInv, IInv', OrchCommits PROVE SInv'
  OBVIOUS
<1> DEFINE n == Initialized(NoCase, orch.at)
<1>1. /\ orch.pc = "initializing" /\ UNCHANGED <<worker, lost, now>> /\ now \in Nat
      /\ volume.rec' = [c \in Cases |-> IF c \in orch.absent THEN n ELSE volume.rec[c]]
      /\ orch' = [orch EXCEPT !.pc = "planning", !.at = 0, !.absent = {}]
      /\ orch \in OrchState
  BY Parts DEF OrchCommits, SInv, IInv, TypeOK, OrchState
<1>2. /\ n.state = "pending" /\ n.attempt = 0 /\ n.updated_at = orch.at
  BY DEF Initialized, NoCase
<1> HIDE DEF n
<1>3. \A c \in Cases : Rec(c)' = IF Rec(c).state = "absent" THEN n ELSE Rec(c)
  BY <1>1 DEF SInv, Initializing, Rec
<1>4. /\ orch'.pc = "planning" /\ orch'.at = 0 /\ orch'.run = orch.run /\ orch'.round = orch.round
      /\ orch'.plan = orch.plan
  BY <1>1 DEF OrchState
<1>5. orch.round = 0 /\ orch.run >= 1 /\ orch.at <= now
  BY <1>1 DEF SInv, Initializing
<1>6. \A w \in Workers : Idles(w) /\ Idles(w)'
  BY <1>1, AllIdle DEF Idles
<1>7. OneCommand' /\ Privates'
  BY <1>6 DEF OneCommand, Privates, Private, Idles
<1>8. (\A c \in Cases : RecordTimes(Rec(c), now))'
  BY <1>1, <1>2, <1>3, <1>5 DEF SInv, RecordTimes
<1>9. Initializing'
  BY <1>1, <1>2, <1>3, <1>4, <1>5 DEF Initializing
<1>10. PlanKept'
  BY <1>3, <1>4 DEF SInv, PlanKept
<1>11. \A c \in Cases \ lost : Accountable(c)'
  <2>1. \A c \in Cases \ lost : Rec(c).state # "running" /\ Rec(c).attempt \in Nat
    BY <1>6 DEF SInv, Accountable, HasWorker, IInv, CaseInv, CaseState
  <2> QED
    BY <1>2, <1>3, <1>4, <1>5, <2>1 DEF Accountable
<1>12. SummariesAreTrue' /\ orch'.pc # "raised"
  BY <1>4 DEF SummariesAreTrue, SummaryIsTrue, RetriesAreUsed
<1> QED
  BY <1>1, <1>7, <1>8, <1>9, <1>10, <1>11, <1>12 DEF SInv

\* The requests of a round ask for the attempt that follows the one of the plan.
LEMMA SubmitsS == SInv /\ IInv' /\ OrchSubmits => SInv'
<1> SUFFICES ASSUME SInv, IInv', OrchSubmits PROVE SInv'
  OBVIOUS
<1> DEFINE asked == {w \in Workers : w[2] = orch.run /\ FreshPlan[CaseOf(w)].state = "pending"}
<1>1. /\ IInv /\ orch \in OrchState /\ UNCHANGED <<volume, lost, now>> /\ now \in Nat
      /\ orch' = [orch EXCEPT !.pc = "waiting", !.round = @ + 1, !.plan = FreshPlan]
      /\ orch.pc \in {"planning", "waiting"}
  BY Parts DEF OrchSubmits, Collectable, SInv, IInv, TypeOK, OrchState
<1>2. /\ orch'.pc = "waiting" /\ orch'.round = orch.round + 1 /\ orch'.plan = FreshPlan
      /\ orch'.run = orch.run /\ orch'.at = orch.at
  BY <1>1 DEF OrchState
<1>3. \A w \in Workers : Idles(w)
  BY AllIdle DEF OrchSubmits
<1>4. \A w \in Workers : worker'[w] = IF w \in asked THEN Request(CaseOf(w)) ELSE worker[w]
  <2>1. \A w \in Workers : CaseOf(w) \in In(FreshPlan, "pending")
                            <=> FreshPlan[CaseOf(w)].state = "pending"
    BY <1>1, Parts DEF In
  <2> QED
    BY <2>1 DEF OrchSubmits
<1>5. \A w \in asked : /\ Request(CaseOf(w)).pc = "queued"
                       /\ Request(CaseOf(w)).n = FreshPlan[CaseOf(w)].attempt + 1
  BY <1>1, RequestOk
<1>6. OneCommand'
  <2>1. \A w \in Workers : ~Idles(w)' => w \in asked
    BY <1>3, <1>4 DEF Idles
  <2> QED
    BY <1>2, <2>1 DEF OneCommand
<1>7. ASSUME NEW w \in Workers PROVE Private(worker[w], Rec(CaseOf(w)), now)'
  <2> DEFINE s == Rec(CaseOf(w))
  <2>1. CASE w \in asked
    <3>1. /\ worker'[w].pc = "queued" /\ worker'[w].n = FreshPlan[CaseOf(w)].attempt + 1
          /\ FreshPlan[CaseOf(w)].state = "pending"
      BY <1>4, <1>5, <2>1
    <3>2. /\ FreshPlan[CaseOf(w)] = AfterExpiry(s, now) /\ s \in CaseState
          /\ s.state \in {"pending", "running"}
      BY <3>1, WorkerFacts, PlanFacts
    <3>3. AfterExpiry(s, now).attempt = s.attempt
      BY <3>2 DEF AfterExpiry, Failed, CaseState
    <3>4. Queued(worker'[w], s, now)
      BY <3>1, <3>2, <3>3 DEF Queued
    <3>5. Private(worker'[w], s, now)
      BY <3>1, <3>4 DEF Private
    <3> QED
      BY <1>1, <3>5 DEF Rec
  <2>2. CASE w \notin asked
    <3>1. worker'[w].pc = "idle"
      BY <1>3, <1>4, <2>2 DEF Idles
    <3> QED
      BY <3>1 DEF Private
  <2> QED
    BY <2>1, <2>2
<1>8. (\A c \in Cases : RecordTimes(Rec(c), now))'
  BY <1>1 DEF SInv, Rec
<1>9. Initializing'
  BY <1>1, <1>2 DEF SInv, Initializing, Rec
<1>10. PlanKept'
  BY <1>1, <1>2, PlanFacts DEF PlanKept, Rec
<1>11. ASSUME NEW c \in Cases \ lost PROVE Accountable(c)'
  <2>1. Rec(c)' = Rec(c) /\ Rec(c).state # "running" /\ Rec(c).attempt \in Nat /\ orch.round \in Nat
    BY <1>1, <1>3, <1>11 DEF SInv, Accountable, HasWorker, Rec, IInv, CaseInv, CaseState, OrchState
  <2>2. CASE Rec(c).state = "pending"
    <3>1. PICK w \in Workers : CaseOf(w) = c /\ w[2] = orch.run
      <4>1. <<c, orch.run>> \in Workers
        BY <1>1, <1>11, RunsAssumption DEF SInv, Initializing, Workers, OrchState
      <4> QED
        BY <4>1 DEF CaseOf
    <3>2. w \in asked
      BY <2>2, <3>1, PlanFacts
    <3>3. ~Idles(w)'
      BY <1>4, <1>5, <3>1, <3>2 DEF Idles
    <3>4. HasWorker(c)'
      BY <3>1, <3>3 DEF HasWorker
    <3>5. Rec(c).attempt >= orch.round
      BY <1>3, <1>11, <2>2 DEF SInv, Accountable, HasWorker
    <3> QED
      BY <1>2, <2>1, <3>4, <3>5 DEF Accountable
  <2> QED
    BY <2>1, <2>2 DEF Accountable
<1>12. SummariesAreTrue' /\ orch'.pc # "raised"
  BY <1>2 DEF SummariesAreTrue, SummaryIsTrue, RetriesAreUsed
<1> QED
  BY <1>1, <1>6, <1>7, <1>8, <1>9, <1>10, <1>11, <1>12 DEF SInv, Privates

\* A command ends its rounds when no case nobody was killed on has an attempt left.
LEMMA FinishesS == SInv /\ IInv' /\ OrchFinishes => SInv'
<1> SUFFICES ASSUME SInv, IInv', OrchFinishes PROVE SInv'
  OBVIOUS
<1>1. /\ orch \in OrchState /\ UNCHANGED <<volume, worker, lost, now>>
      /\ orch' = [orch EXCEPT !.pc = "finishing", !.plan = FreshPlan]
      /\ orch.pc \in {"planning", "waiting"} /\ \A w \in Workers : Idles(w)
  BY AllIdle DEF OrchFinishes, Collectable, SInv, IInv, TypeOK, OrchState
<1>2. /\ orch'.pc = "finishing" /\ orch'.round = orch.round /\ orch'.plan = FreshPlan
      /\ orch'.run = orch.run /\ orch'.at = orch.at
  BY <1>1 DEF OrchState
<1>3. Initializing'
  BY <1>1, <1>2 DEF SInv, Initializing, Rec
<1>4. PlanKept'
  BY <1>1, <1>2, PlanFacts DEF PlanKept, Rec
<1>5. ASSUME NEW c \in Cases \ lost PROVE Accountable(c)'
  <2>1. Rec(c)' = Rec(c) /\ Rec(c).state # "running"
    BY <1>1, <1>5 DEF SInv, Accountable, HasWorker, Rec
  <2>2. Rec(c).state # "pending"
    <3> SUFFICES ASSUME Rec(c).state = "pending" PROVE FALSE
      OBVIOUS
    <3>1. Rec(c).attempt >= orch.round
      BY <1>1, <1>5 DEF SInv, Accountable, HasWorker
    <3>2. c \in In(FreshPlan, "pending")
      BY <1>5, PlanFacts DEF In
    <3>3. orch.round >= MaxAttempts
      BY <1>1, <3>2, AttemptsAssumption DEF OrchFinishes, RoundsLeft, OrchState
    <3>4. Rec(c).attempt < MaxAttempts /\ Rec(c).attempt \in Nat
      BY <1>5 DEF SInv, IInv, CaseInv, Coherent, CaseState
    <3> QED
      BY <1>1, <3>1, <3>3, <3>4, AttemptsAssumption DEF OrchState
  <2> QED
    BY <2>1, <2>2 DEF Accountable
<1>6. SummariesAreTrue' /\ orch'.pc # "raised"
  BY <1>2 DEF SummariesAreTrue, SummaryIsTrue, RetriesAreUsed
<1> QED
  BY <1>1, <1>3, <1>4, <1>5, <1>6, PlanS

\* The summary is made from what the volume holds, and no case with attempts is left.
LEMMA SummarizesS == SInv /\ IInv' /\ OrchSummarizes => SInv'
<1> SUFFICES ASSUME SInv, IInv', OrchSummarizes PROVE SInv'
  OBVIOUS
<1>1. /\ orch \in OrchState /\ UNCHANGED <<volume, worker, lost, now>> /\ now \in Nat
      /\ orch' = [orch EXCEPT !.pc = "done", !.plan = FreshPlan]
      /\ orch.pc = "finishing" /\ \A w \in Workers : Idles(w)
  BY AllIdle, Parts DEF OrchSummarizes, SInv, IInv, TypeOK, OrchState
<1>2. /\ orch'.pc = "done" /\ orch'.round = orch.round /\ orch'.plan = FreshPlan
      /\ orch'.run = orch.run /\ orch'.at = orch.at
  BY <1>1 DEF OrchState
<1>3. Initializing'
  BY <1>1, <1>2 DEF SInv, Initializing, Rec
<1>4. PlanKept'
  BY <1>1, <1>2, PlanFacts DEF PlanKept, Rec
<1>5. \A c \in Cases \ lost : Rec(c).state \notin {"pending", "running"}
  BY <1>1 DEF SInv, Accountable, HasWorker
<1>6. \A c \in Cases \ lost : Accountable(c)'
  BY <1>1, <1>5 DEF Accountable, Rec
<1>7. SummaryIsTrue'
  <2>1. now \in 0..now
    BY <1>1
  <2> QED
    BY <1>1, <1>2, <2>1, PlanFacts DEF SummaryIsTrue, Rec
<1>8. RetriesAreUsed'
  <2>1. \A c \in Cases : FreshPlan[c].state = "pending" => c \in lost
    BY <1>5, PlanFacts
  <2> QED
    BY <1>1, <1>2, <2>1 DEF RetriesAreUsed, In
<1> QED
  BY <1>1, <1>2, <1>3, <1>4, <1>6, <1>7, <1>8, PlanS DEF SummariesAreTrue

LEMMA CrashesS == SInv /\ IInv' /\ OrchCrashes => SInv'
<1> SUFFICES ASSUME SInv, IInv', OrchCrashes PROVE SInv'
  OBVIOUS
<1>1. orch' = [Down EXCEPT !.run = orch.run] /\ UNCHANGED <<volume, worker, lost, now>> /\ now \in Nat
  BY Parts DEF OrchCrashes, SInv
<1>2. /\ orch'.pc = "down" /\ orch'.run = orch.run /\ orch'.round = 0 /\ orch'.at = 0
      /\ orch'.plan = NoPlan
  BY <1>1 DEF Down
<1>3. OneCommand' /\ Privates' /\ (\A c \in Cases : RecordTimes(Rec(c), now))'
  BY <1>1, <1>2 DEF SInv, OneCommand, Privates, Rec, Idles
<1>4. Initializing' /\ PlanKept' /\ SummariesAreTrue' /\ orch'.pc # "raised"
  BY <1>1, <1>2 DEF Initializing, PlanKept, NoPlan, NoCase, SummariesAreTrue, SummaryIsTrue,
                    RetriesAreUsed
<1>5. ASSUME NEW c \in Cases \ lost PROVE Accountable(c)'
  <2>1. HasWorker(c)' = HasWorker(c) /\ Rec(c)' = Rec(c) /\ Rec(c).attempt \in Nat
    BY <1>1 DEF HasWorker, Rec, Idles, SInv, IInv, CaseInv, CaseState
  <2> QED
    BY <1>2, <1>5, <2>1 DEF SInv, Accountable
<1> QED
  BY <1>1, <1>3, <1>4, <1>5 DEF SInv

LEMMA InitSInv == Init => SInv
<1> SUFFICES ASSUME Init PROVE SInv
  OBVIOUS
<1>1. /\ \A c \in Cases : Rec(c) = NoCase
      /\ \A w \in Workers : worker[w].pc = "idle"
      /\ orch = Down /\ lost = {} /\ now = 0
  BY DEF Init, Rec, Idle
<1>2. NoCase.state = "absent" /\ NoCase.attempt = 0 /\ NoCase.updated_at = 0
  BY DEF NoCase
<1>3. orch.pc = "down" /\ orch.at = 0 /\ orch.plan = NoPlan
  BY <1>1 DEF Down
<1>4. (\A c \in Cases : RecordTimes(Rec(c), now)) /\ OneCommand /\ Privates
  BY <1>1, <1>2 DEF RecordTimes, OneCommand, Idles, Privates, Private
<1>5. Initializing /\ PlanKept /\ (\A c \in Cases \ lost : Accountable(c)) /\ SummariesAreTrue
  BY <1>1, <1>2, <1>3 DEF Initializing, PlanKept, NoPlan, Accountable, SummariesAreTrue,
                          SummaryIsTrue, RetriesAreUsed
<1> QED
  BY <1>3, <1>4, <1>5, InitIInv DEF SInv

\* The invariant is inductive when commands do not overlap.
LEMMA NextSInv == ~Overlap /\ SInv /\ [Next]_vars => SInv'
<1> SUFFICES ASSUME ~Overlap, SInv, [Next]_vars PROVE SInv'
  OBVIOUS
<1>1. IInv'
  BY NextIInv DEF SInv
<1>2. ~OrchRaises
  BY PlanFacts DEF OrchRaises
<1>3. CASE UNCHANGED vars
  BY <1>1, <1>3 DEF vars, SInv, RecordTimes, OneCommand, Idles, Privates, Private, Initializing,
       PlanKept, Accountable, HasWorker, SummariesAreTrue, SummaryIsTrue, RetriesAreUsed, Rec
<1> QED
  BY <1>1, <1>2, <1>3, WorkerStepS, TickS, StartsS, OrchCommitsS, SubmitsS, FinishesS,
     SummarizesS, CrashesS
  DEF Next, OrchStep

LEMMA SweepInvariant == ASSUME ~Overlap PROVE Spec => []SInv
<1>1. SInv /\ [Next]_vars => SInv'
  BY NextSInv
<1> QED
  BY <1>1, InitSInv, PTL DEF Spec

\* Commands that do not overlap resume safely: whatever is killed and whenever, a later
\* command finds every success with its run, and no plan of a command contradicts an
\* earlier one.
THEOREM SafeResumes == ASSUME ~Overlap PROVE Spec => []ResumesAreSafe
<1>1. SInv => ResumesAreSafe
  BY DEF SInv, IInv, ResumesAreSafe, SuccessHasRoot, NeverRaises, In, Rec, Rooted
<1> QED
  BY <1>1, SweepInvariant, PTL

\* A command's summary is what the volume held when it was made, and a case that is left
\* pending is one a worker was killed on: its rounds have used every other attempt.
THEOREM TrueSummaries == ASSUME ~Overlap PROVE Spec => []SummariesAreTrue
<1>1. SInv => SummariesAreTrue
  BY DEF SInv
<1> QED
  BY <1>1, SweepInvariant, PTL

-----------------------------------------------------------------------------
(* The volume implements the ledger of attempts.                           *)

\* How a step may change the record of a case: the file of one case is replaced by a
\* claim or an outcome of what it held, or it is written for the first time.
ClaimedFrom(s, n) ==
    \E t \in Nat :
        /\ AfterExpiry(s, t).state = "pending" /\ s.state # "absent"
        /\ n = Claimed(AfterExpiry(s, t), s.attempt + 1, s.attempt + 1, t)

OutcomeFrom(s, n) == s.state = "running" /\ \E t \in Nat : IsOutcome(n, s, t)

Replaces(w) ==
    LET s == Rec(CaseOf(w))
        n == Rec(CaseOf(w))'
    IN
    /\ CaseOf(w) \in Cases
    /\ \A x \in Cases \ {CaseOf(w)} : Rec(x)' = Rec(x)
    /\ ClaimedFrom(s, n) \/ OutcomeFrom(s, n)

FirstWrites ==
    \A c \in Cases :
        \/ Rec(c)' = Rec(c)
        \/ Rec(c) = NoCase /\ \E t \in Nat : Rec(c)' = [NoCase EXCEPT !.state = "pending", !.updated_at = t]

\* Every step leaves the records, replaces one or writes first revisions.
LEMMA RecordSteps ==
    ASSUME SInv, [Next]_vars
    PROVE  FirstWrites \/ \E w \in Workers : Replaces(w)
<1>1. /\ volume.rec \in [Cases -> CaseState] /\ \A w \in Workers : CaseOf(w) \in Cases
      /\ volume = [rec |-> volume.rec, runs |-> volume.runs]
  BY Parts DEF SInv
<1>2. ASSUME volume.rec' = volume.rec PROVE FirstWrites
  BY <1>2 DEF FirstWrites, Rec
<1>3. ASSUME NEW w \in Workers, WorkerCommitsClaim(w) PROVE Replaces(w)
  <2> DEFINE v == worker[w]
             s == Rec(CaseOf(w))
  <2>1. HasClaimed(v, s) /\ v.started \in Nat /\ CaseOf(w) \in Cases
    BY <1>3, WorkerFacts DEF WorkerCommitsClaim, Private, WorkerState
  <2>2. volume.rec' = [volume.rec EXCEPT ![CaseOf(w)] = v.rec]
    BY <1>1, <1>3 DEF WorkerCommitsClaim, CommitState
  <2>3. Rec(CaseOf(w))' = v.rec /\ \A x \in Cases \ {CaseOf(w)} : Rec(x)' = Rec(x)
    BY <1>1, <2>1, <2>2 DEF Rec
  <2>4. ClaimedFrom(s, v.rec)
    BY <2>1 DEF HasClaimed, Queued, ClaimedFrom
  <2> QED
    BY <2>1, <2>3, <2>4 DEF Replaces
<1>4. ASSUME NEW w \in Workers, WorkerReports(w) PROVE Replaces(w)
  <2> DEFINE v == worker[w]
             s == Rec(CaseOf(w))
  <2>1. HasOutcome(v, s, now) /\ s.state = "running" /\ now \in Nat /\ CaseOf(w) \in Cases
    BY <1>4, WorkerFacts DEF WorkerReports, Private, Holding
  <2>2. volume.rec' = [volume.rec EXCEPT ![CaseOf(w)] = v.rec]
    BY <1>1, <1>4 DEF WorkerReports, CommitState
  <2>3. Rec(CaseOf(w))' = v.rec /\ \A x \in Cases \ {CaseOf(w)} : Rec(x)' = Rec(x)
    BY <1>1, <2>1, <2>2 DEF Rec
  <2>4. OutcomeFrom(s, v.rec)
    BY <2>1 DEF HasOutcome, OutcomeFrom
  <2> QED
    BY <2>1, <2>3, <2>4 DEF Replaces
<1>5. ASSUME OrchCommits PROVE FirstWrites
  <2>1. orch.at \in Nat /\ orch.absent = {c \in Cases : Rec(c).state = "absent"}
    BY <1>5 DEF OrchCommits, SInv, Initializing, IInv, TypeOK
  <2>2. Initialized(NoCase, orch.at) = [NoCase EXCEPT !.state = "pending", !.updated_at = orch.at]
    BY DEF Initialized, NoCase
  <2>3. ASSUME NEW c \in Cases
        PROVE  Rec(c)' = IF c \in orch.absent THEN Initialized(NoCase, orch.at) ELSE Rec(c)
    BY <1>1, <1>5 DEF OrchCommits, Rec
  <2>4. \A c \in orch.absent : Rec(c) = NoCase
    BY <2>1 DEF SInv, IInv, CaseInv
  <2> QED
    BY <2>1, <2>2, <2>3, <2>4 DEF FirstWrites
<1>6. ASSUME NEW w \in Workers, WorkerCommitsRun(w) PROVE volume.rec' = volume.rec
  BY <1>1, <1>6 DEF WorkerCommitsRun, CommitRun
<1>7. ASSUME UNCHANGED volume PROVE FirstWrites
  BY <1>2, <1>7
<1> QED
  BY <1>2, <1>3, <1>4, <1>5, <1>6, <1>7
  DEF Next, WorkerStep, OrchStep, WorkerClaims, WorkerFails, WorkerPublishes, WorkerSucceeds,
      WorkerKilled, OrchStarts, OrchSubmits, OrchFinishes, OrchSummarizes, OrchRaises, OrchCrashes,
      Tick, vars

\* "succeeded is immutable" on the shared volume, for commands that do not overlap: the
\* only files a step replaces are of cases that are pending or running.
THEOREM ImmutableOnVolume == ASSUME ~Overlap PROVE Spec => CommittedSuccessIsImmutable
<1>1. ASSUME SInv, [Next]_vars, NEW c \in Cases, Rec(c).state = "succeeded"
      PROVE  Rec(c)' = Rec(c)
  <2>1. CASE FirstWrites
    <3>1. NoCase.state = "absent"
      BY DEF NoCase
    <3> QED
      BY <1>1, <2>1, <3>1 DEF FirstWrites
  <2>2. ASSUME NEW w \in Workers, Replaces(w), CaseOf(w) = c
        PROVE  FALSE
    <3>1. AfterExpiry(Rec(c), 0) = Rec(c) /\ \A t : AfterExpiry(Rec(c), t) = Rec(c)
      BY <1>1 DEF AfterExpiry
    <3> QED
      BY <1>1, <2>2, <3>1 DEF Replaces, ClaimedFrom, OutcomeFrom
  <2>3. ASSUME NEW w \in Workers, Replaces(w), CaseOf(w) # c
        PROVE  Rec(c)' = Rec(c)
    BY <2>3 DEF Replaces
  <2>4. FirstWrites \/ \E w \in Workers : Replaces(w)
    BY <1>1, RecordSteps
  <2> QED
    BY <2>1, <2>2, <2>3, <2>4
<1>2. SInv /\ [Next]_vars => [\A c \in In(volume.rec, "succeeded") : volume'.rec[c] = volume.rec[c]]_vars
  BY <1>1 DEF In, Rec
<1> QED
  BY <1>2, SweepInvariant, PTL DEF Spec, CommittedSuccessIsImmutable

\* The ledger that the volume shows.
Shown == [c \in Cases |-> Outcomes(volume.rec[c])]
Ended == [c \in Cases |-> Terminal(volume.rec[c])]

LEMMA ShownReplaced ==
    ASSUME NEW c \in Cases, \A x \in Cases \ {c} : Rec(x)' = Rec(x)
    PROVE  /\ Shown' = [Shown EXCEPT ![c] = Outcomes(Rec(c)')]
           /\ Ended' = [Ended EXCEPT ![c] = Terminal(Rec(c)')]
<1>1. \A x \in Cases : Outcomes(Rec(x)') = IF x = c THEN Outcomes(Rec(c)') ELSE Outcomes(Rec(x))
  OBVIOUS
<1>2. \A x \in Cases : Terminal(Rec(x)') = IF x = c THEN Terminal(Rec(c)') ELSE Terminal(Rec(x))
  BY Zenon
<1>3. Shown' = [Shown EXCEPT ![c] = Outcomes(Rec(c)')]
  BY <1>1 DEF Shown, Rec
<1>4. Ended' = [Ended EXCEPT ![c] = Terminal(Rec(c)')]
  BY <1>2, Zenon DEF Ended, Rec
<1> QED
  BY <1>3, <1>4

\* Marking a case as it is already marked.
LEMMA EndedKept ==
    ASSUME NEW c \in Cases, NEW b, Ended[c] = b, Ended' = [Ended EXCEPT ![c] = b]
    PROVE  Ended' = Ended
<1>1. Ended = [x \in Cases |-> Ended[x]]
  BY Zenon DEF Ended
<1> QED
  BY <1>1, Zenon

\* What the ledger says of a case that runs, and of one that is pending.
LEMMA OpenOf ==
    ASSUME SInv, NEW c \in Cases
    PROVE  LET s == Rec(c) IN
           /\ s.failure_codes \in Seq(Codes) /\ s.attempt \in 0..MaxAttempts
           /\ s.state = "running" =>
                /\ Ledger!Open(c) /\ Shown[c] = Append(s.failure_codes, "open")
                /\ Len(Shown[c]) = s.attempt /\ Ended[c] = FALSE
           /\ s.state = "pending" =>
                /\ ~Ledger!Open(c) /\ Shown[c] = s.failure_codes
                /\ Len(Shown[c]) = s.attempt /\ s.attempt < MaxAttempts /\ Ended[c] = FALSE
<1> DEFINE s == Rec(c)
<1>1. CaseInv(s) /\ s.failure_codes \in Seq(Codes) /\ s.attempt \in 0..MaxAttempts
      /\ (s.state = "pending" => s.attempt < MaxAttempts)
  BY DEF SInv, IInv, CaseInv, CaseState, Coherent
<1>2. Shown[c] = Outcomes(s) /\ Ended[c] = Terminal(s)
  <2>1. Shown[c] = Outcomes(s)
    BY DEF Shown, Rec
  <2>2. Ended[c] = Terminal(s)
    BY Zenon DEF Ended, Rec
  <2> QED
    BY <2>1, <2>2
<1>3. s.state \in {"running", "pending"} => Terminal(s) = FALSE
  BY DEF Terminal
<1>4. CASE s.state = "running"
  <2>1. Shown[c] = Append(s.failure_codes, "open") /\ Len(Shown[c]) = s.attempt
    BY <1>1, <1>2, <1>4, OutcomesOf
  <2>2. Ledger!Open(c)
    BY <1>1, <2>1 DEF Ledger!Open, Shown
  <2> QED
    BY <1>1, <1>2, <1>3, <1>4, <2>1, <2>2, Zenon
<1>5. CASE s.state = "pending"
  <2>1. Shown[c] = s.failure_codes /\ Len(Shown[c]) = s.attempt
    BY <1>1, <1>2, <1>5, OutcomesOf
  <2>2. Len(s.failure_codes) > 0 => s.failure_codes[Len(s.failure_codes)] # "open"
    BY <1>1, OutcomesAssumption
  <2>3. ~Ledger!Open(c)
    BY <2>1, <2>2 DEF Ledger!Open, Shown
  <2> QED
    BY <1>1, <1>2, <1>3, <1>5, <2>1, <2>3, Zenon
<1> QED
  BY <1>1, <1>4, <1>5

\* First revisions do not show on the ledger.
LEMMA FirstWritesLedger == FirstWrites => UNCHANGED Ledger!vars
<1> SUFFICES ASSUME FirstWrites PROVE UNCHANGED Ledger!vars
  OBVIOUS
<1>1. ASSUME NEW c \in Cases, NEW t \in Nat,
             Rec(c) = NoCase, Rec(c)' = [NoCase EXCEPT !.state = "pending", !.updated_at = t]
      PROVE  Outcomes(Rec(c)') = Outcomes(Rec(c)) /\ Terminal(Rec(c)') = Terminal(Rec(c))
  <2>1. /\ Rec(c)'.state = "pending" /\ Rec(c)'.failure_codes = NoCase.failure_codes
        /\ NoCase.state = "absent"
    BY <1>1 DEF NoCase
  <2> QED
    BY <1>1, <2>1 DEF Outcomes, Terminal
<1>2. \A c \in Cases : Outcomes(Rec(c)') = Outcomes(Rec(c)) /\ Terminal(Rec(c)') = Terminal(Rec(c))
  BY <1>1 DEF FirstWrites
<1>3. Shown' = Shown
  BY <1>2 DEF Shown, Rec
<1>4. Ended' = Ended
  BY <1>2, Zenon DEF Ended, Rec
<1> QED
  BY <1>3, <1>4 DEF Shown, Ended, Ledger!vars

\* An outcome closes the attempt that is open.
LEMMA OutcomeLedger ==
    ASSUME SInv, NEW w \in Workers, Replaces(w), OutcomeFrom(Rec(CaseOf(w)), Rec(CaseOf(w))')
    PROVE  Ledger!Next
<1> DEFINE c == CaseOf(w)
           s == Rec(c)
           r == volume'.rec[c]
<1>1. c \in Cases /\ CaseInv(s) /\ s \in CaseState /\ s.state = "running"
      /\ r = Rec(c)'
  BY WorkerFacts DEF OutcomeFrom, Rec
<1>2. /\ Shown' = [Shown EXCEPT ![c] = Outcomes(r)]
      /\ Ended' = [Ended EXCEPT ![c] = Terminal(r)]
  BY <1>1, ShownReplaced DEF Replaces
<1>3. /\ s.failure_codes \in Seq(Codes) /\ s.attempt \in 0..MaxAttempts /\ Ledger!Open(c)
      /\ Shown[c] = Append(s.failure_codes, "open") /\ Len(Shown[c]) = s.attempt
  BY <1>1, OpenOf
<1> HIDE DEF s, r
<1>4. ASSUME NEW outcome, Outcomes(r) = Append(s.failure_codes, outcome)
      PROVE  Ledger!Close(c, outcome)
  <2>1. Outcomes(r) = [Shown[c] EXCEPT ![Len(Shown[c])] = outcome]
    BY <1>3, <1>4, ClosedLast
  <2>2. Shown' = [Shown EXCEPT ![c][Len(Shown[c])] = outcome]
    BY <1>2, <2>1
  <2> QED
    BY <1>3, <2>2 DEF Ledger!Close, Shown
<1>5. ASSUME NEW t \in Nat, NEW d \in Digests, r = Succeeded(s, d, t)
      PROVE  Ledger!Next
  <2>1. r.state = "succeeded" /\ r.failure_codes = s.failure_codes
    BY <1>1, <1>5 DEF Succeeded, CaseState
  <2>2. Outcomes(r) = Append(s.failure_codes, "success") /\ Terminal(r) = TRUE
    BY <2>1 DEF Outcomes, Terminal
  <2>3. Ended' = [Ended EXCEPT ![c] = TRUE]
    BY <1>2, <2>2, Zenon
  <2>4. Ledger!Succeed(c)
    BY <1>4, <2>2, <2>3 DEF Ledger!Succeed, Ended
  <2> QED
    BY <1>1, <2>4 DEF Ledger!Next
<1>6. ASSUME NEW t \in Nat, NEW code \in FailCodes, NEW retryable \in BOOLEAN,
             r = Failed(s, code, AfterFailure(s, code, retryable), t)
      PROVE  Ledger!Next
  <2> DEFINE next == AfterFailure(s, code, retryable)
  <2>1. r.state = next /\ r.failure_codes = Append(s.failure_codes, code)
    BY <1>1, <1>6 DEF Failed, CaseState
  <2>2. next \in {"pending", "failed"}
        /\ (code \notin RetryCodes \/ s.attempt >= MaxAttempts => next = "failed")
    BY <1>3, AttemptsAssumption DEF AfterFailure
  <2> HIDE DEF next
  <2>3. Outcomes(r) = Append(s.failure_codes, code) /\ Terminal(r) = (next = "failed")
    BY <2>1, <2>2 DEF Outcomes, Terminal
  <2>4. Ended' = [Ended EXCEPT ![c] = (next = "failed")]
    BY <1>2, <2>3, Zenon
  <2>5. code \notin RetryCodes \/ Len(Shown[c]) = MaxAttempts => (next = "failed")
    BY <1>3, <2>2, AttemptsAssumption
  <2>6. Ledger!Fail(c, code)
    BY <1>4, <2>3, <2>4, <2>5 DEF Ledger!Fail, Ended, Shown
  <2> QED
    BY <1>1, <2>6 DEF Ledger!Next
<1> QED
  BY <1>1, <1>5, <1>6 DEF OutcomeFrom, IsOutcome, s

\* A claim opens an attempt, of a case that has none open or one whose lease is over.
LEMMA ClaimLedger ==
    ASSUME SInv, NEW w \in Workers, Replaces(w), ClaimedFrom(Rec(CaseOf(w)), Rec(CaseOf(w))')
    PROVE  Ledger!Next
<1> DEFINE c == CaseOf(w)
           s == Rec(c)
           r == volume'.rec[c]
<1>1. c \in Cases /\ CaseInv(s) /\ s \in CaseState /\ r = Rec(c)'
  BY WorkerFacts DEF Rec
<1>2. /\ Shown' = [Shown EXCEPT ![c] = Outcomes(r)]
      /\ Ended' = [Ended EXCEPT ![c] = Terminal(r)]
  BY <1>1, ShownReplaced DEF Replaces
<1>3. PICK t \in Nat : /\ AfterExpiry(s, t).state = "pending" /\ s.state # "absent"
                       /\ r = Claimed(AfterExpiry(s, t), s.attempt + 1, s.attempt + 1, t)
  BY <1>1 DEF ClaimedFrom
<1> DEFINE e == AfterExpiry(s, t)
<1>4. CaseInv(e) /\ e \in CaseState
  BY <1>1, AfterExpiryInv DEF CaseInv
<1>5. r.state = "running" /\ r.failure_codes = e.failure_codes
  BY <1>3, <1>4 DEF Claimed, CaseState
<1> HIDE DEF r
<1>6. Outcomes(r) = Append(e.failure_codes, "open") /\ Terminal(r) = FALSE
  BY <1>5 DEF Outcomes, Terminal
<1>7. Ended[c] = FALSE => Ended' = Ended
  <2>1. Ended' = [Ended EXCEPT ![c] = FALSE]
    BY <1>2, <1>6, Zenon
  <2> QED
    BY <1>1, <2>1, EndedKept, Zenon
<1>8. CASE s.state = "running" /\ s.lease_expires_at <= t
  <2>1. /\ Ledger!Open(c) /\ Shown[c] = Append(s.failure_codes, "open") /\ Ended[c] = FALSE
        /\ Len(Shown[c]) = s.attempt /\ s.failure_codes \in Seq(Codes)
    BY <1>1, <1>8, OpenOf
  <2>2. s.attempt < MaxAttempts /\ e.failure_codes = Append(s.failure_codes, LeaseExpired)
    BY <1>1, <1>3, <1>8, AttemptsAssumption DEF AfterExpiry, Failed, CaseState
  <2> DEFINE codes == s.failure_codes
  <2> HIDE DEF e, codes
  <2>3. e.failure_codes = [Shown[c] EXCEPT ![Len(Shown[c])] = LeaseExpired]
    <3>1. codes \in Seq(Codes) /\ Shown[c] = Append(codes, "open")
      BY <2>1 DEF codes
    <3>2. e.failure_codes = Append(codes, LeaseExpired)
      BY <2>2 DEF codes
    <3>3. [Append(codes, "open") EXCEPT ![Len(Append(codes, "open"))] = LeaseExpired]
            = Append(codes, LeaseExpired)
      BY <3>1, ClosedLast
    <3> QED
      BY ONLY <3>1, <3>2, <3>3, Zenon
  <2>4. Shown' = [Shown EXCEPT ![c] = Append([@ EXCEPT ![Len(@)] = LeaseExpired], "open")]
    BY <1>2, <1>6, <2>3
  <2>5. Ledger!Supersede(c)
    BY <1>7, <2>1, <2>2, <2>4 DEF Ledger!Supersede, Shown, Ended
  <2> QED
    BY <1>1, <2>5 DEF Ledger!Next
<1>9. CASE ~(s.state = "running" /\ s.lease_expires_at <= t)
  <2>1. e = s /\ s.state = "pending"
    BY <1>3, <1>9 DEF AfterExpiry
  <2>2. /\ ~Ledger!Open(c) /\ Shown[c] = s.failure_codes /\ Ended[c] = FALSE
        /\ Len(Shown[c]) = s.attempt /\ s.attempt < MaxAttempts
    BY <1>1, <2>1, OpenOf
  <2> HIDE DEF e, s
  <2>3. Shown' = [Shown EXCEPT ![c] = Append(@, "open")]
    BY <1>2, <1>6, <2>1, <2>2
  <2>4. Ledger!Start(c)
    BY <1>7, <2>2, <2>3 DEF Ledger!Start, Shown, Ended
  <2> QED
    BY <1>1, <2>4 DEF Ledger!Next
<1> QED
  BY <1>8, <1>9

\* The states on the volume go through the transitions of the ledger of attempts, when
\* commands do not overlap: a commit replaces exactly what its worker had read.
THEOREM VolumeRefinement == ASSUME ~Overlap PROVE Spec => VolumeImplementsLedger
<1>1. Init => Ledger!Init
  <2> SUFFICES ASSUME Init PROVE Ledger!Init
    OBVIOUS
  <2>1. Outcomes(NoCase) = <<>> /\ Terminal(NoCase) = FALSE
    BY DEF Outcomes, Terminal, NoCase
  <2>2. \A c \in Cases : volume.rec[c] = NoCase
    BY DEF Init
  <2> QED
    BY <2>1, <2>2 DEF Ledger!Init
<1>2. SInv /\ [Next]_vars => [Ledger!Next]_(Ledger!vars)
  <2> SUFFICES ASSUME SInv, [Next]_vars PROVE [Ledger!Next]_(Ledger!vars)
    OBVIOUS
  <2>1. FirstWrites \/ \E w \in Workers : Replaces(w)
    BY RecordSteps
  <2>2. ASSUME NEW w \in Workers, Replaces(w) PROVE Ledger!Next
    <3>1. ClaimedFrom(Rec(CaseOf(w)), Rec(CaseOf(w))') \/ OutcomeFrom(Rec(CaseOf(w)), Rec(CaseOf(w))')
      BY <2>2 DEF Replaces
    <3> QED
      BY <2>2, <3>1, OutcomeLedger, ClaimLedger
  <2> QED
    BY <2>1, <2>2, FirstWritesLedger
<1> QED
  BY <1>1, <1>2, SweepInvariant, PTL DEF Spec, VolumeImplementsLedger, Ledger!Spec

-----------------------------------------------------------------------------
(* The summary is accepted, whether commands overlap or not.               *)

\* No absent case is planned: a command writes the first revision of what it found absent,
\* a worker commits a revision of its own, and nothing removes one.
PlannedInv ==
    /\ \A w \in Workers :
        worker[w].pc \notin {"idle", "queued"} => worker[w].rec.state # "absent"
    /\ orch.pc = "initializing" =>
        \A c \in Cases : Rec(c).state = "absent" => c \in orch.absent
    /\ orch.pc \in {"planning", "waiting", "finishing", "done"} =>
        \A c \in Cases : Rec(c).state # "absent"
    /\ orch.pc = "done" => \A c \in Cases : CaseInv(orch.plan[c]) /\ orch.plan[c].state # "absent"

\* A worker that works on a record it has, and at most commits one it had.
LEMMA WorkerPlanned ==
    ASSUME IInv, PlannedInv, NEW w \in Workers, WorkerStep(w) \/ WorkerKilled(w)
    PROVE  PlannedInv'
<1>1. /\ worker \in [Workers -> WorkerState] /\ CaseOf(w) \in Cases /\ now \in Nat
      /\ volume.rec \in [Cases -> CaseState]
      /\ volume = [rec |-> volume.rec, runs |-> volume.runs]
  BY Parts
<1>2. UNCHANGED orch
  BY DEF WorkerStep, WorkerClaims, WorkerCommitsClaim, WorkerFails, WorkerPublishes,
         WorkerCommitsRun, WorkerSucceeds, WorkerReports, WorkerKilled
<1>3. \A x \in Workers \ {w} : worker'[x] = worker[x]
  BY <1>1 DEF WorkerStep, WorkerClaims, WorkerReloads, WorkerCommitsClaim, WorkerFails,
              WorkerPublishes, WorkerCommitsRun, WorkerSucceeds, WorkerReports, WorkerKilled
<1>4. \/ volume'.rec = volume.rec
      \/ /\ volume'.rec = [volume.rec EXCEPT ![CaseOf(w)] = worker[w].rec]
         /\ worker[w].pc \notin {"idle", "queued"}
  BY <1>1 DEF WorkerStep, WorkerClaims, WorkerReloads, WorkerCommitsClaim, WorkerFails,
              WorkerPublishes, WorkerCommitsRun, WorkerSucceeds, WorkerReports, WorkerKilled,
              CommitState, CommitRun
<1>5. \A c \in Cases : Rec(c).state # "absent" => Rec(c)'.state # "absent"
  BY <1>1, <1>4 DEF Rec, PlannedInv
<1>6. worker'[w].pc \in {"idle", "queued"} \/ worker'[w].rec.state # "absent"
  <2>1. worker[w] \in WorkerState /\ worker[w].rec \in CaseState /\ Idle.pc = "idle"
    BY <1>1 DEF WorkerState, Idle
  <2>2. ASSUME worker' = [worker EXCEPT ![w] = Idle] PROVE worker'[w].pc = "idle"
    BY <1>1, <2>1, <2>2
  <2>3. ASSUME WorkerClaims(w) PROVE worker'[w].pc = "idle" \/ worker'[w].rec.state # "absent"
    <3> DEFINE seen == Initialized(Rec(CaseOf(w)), now)
               s == AfterExpiry(seen, now)
               n == worker[w].n
    <3>1. seen.state # "absent" /\ seen \in CaseState
      BY <1>1 DEF Initialized, Rec, CaseState
    <3>2. Claimed(s, n, n, now).state = "running"
      BY <3>1 DEF AfterExpiry, Claimed, Failed, CaseState
    <3>3. ASSUME NEW rec, WorkerReloads(w, rec) PROVE worker'[w].rec = rec
      <4>1. worker' = [worker EXCEPT ![w].pc = "claimed", ![w].started = now, ![w].rec = rec]
        BY <3>3 DEF WorkerReloads
      <4> QED
        BY <1>1, <2>1, <4>1 DEF WorkerState
    <3> QED
      BY <2>2, <2>3, <3>1, <3>2, <3>3 DEF WorkerClaims, Rec
  <2>4. ASSUME NEW rec, rec.state # "absent",
               worker' = [worker EXCEPT ![w].pc = "reporting", ![w].rec = rec]
        PROVE  worker'[w].rec.state # "absent"
    BY <1>1, <2>1, <2>4 DEF WorkerState
  <2>5. ASSUME NEW code \in FailCodes, NEW retryable \in BOOLEAN, WorkerFails(w, code, retryable)
        PROVE  worker'[w].pc = "idle" \/ worker'[w].rec.state # "absent"
    <3>1. Failed(worker[w].rec, code, AfterFailure(worker[w].rec, code, retryable), now).state # "absent"
      BY <2>1 DEF Failed, AfterFailure, CaseState
    <3> QED
      BY <2>2, <2>4, <2>5, <3>1 DEF WorkerFails
  <2>6. ASSUME WorkerSucceeds(w)
        PROVE  worker'[w].pc = "idle" \/ worker'[w].rec.state # "absent"
    <3>1. Succeeded(worker[w].rec, worker[w].digest, now).state # "absent"
      BY <2>1 DEF Succeeded, CaseState
    <3> QED
      BY <2>2, <2>4, <2>6, <3>1 DEF WorkerSucceeds
  <2>7. ASSUME WorkerCommitsClaim(w) \/ WorkerCommitsRun(w) \/ \E d \in Digests : WorkerPublishes(w, d)
        PROVE  worker'[w].rec = worker[w].rec /\ worker[w].pc \notin {"idle", "queued"}
    BY <1>1, <2>1, <2>7 DEF WorkerState, WorkerCommitsClaim, WorkerCommitsRun, WorkerPublishes
  <2>8. ASSUME WorkerReports(w) \/ WorkerKilled(w) PROVE worker'[w].pc = "idle"
    BY <2>2, <2>8 DEF WorkerReports, WorkerKilled
  <2> QED
    BY <2>3, <2>5, <2>6, <2>7, <2>8 DEF WorkerStep, PlannedInv
<1> QED
  BY <1>2, <1>3, <1>5, <1>6 DEF PlannedInv

\* A plan of records that are there has none that is not.
LEMMA FreshPlanPresent ==
    ASSUME IInv, \A c \in Cases : Rec(c).state # "absent"
    PROVE  \A c \in Cases : CaseInv(FreshPlan[c]) /\ FreshPlan[c].state # "absent"
<1> SUFFICES ASSUME NEW c \in Cases PROVE FreshPlan[c].state # "absent"
  BY FreshPlanOk
<1>1. FreshPlan[c] = AfterExpiry(Rec(c), now) /\ Rec(c) \in CaseState
  BY FreshPlanOk, Parts DEF Rec
<1> QED
  BY <1>1 DEF AfterExpiry, Failed, CaseState

LEMMA OrchPlanned ==
    ASSUME IInv, PlannedInv, OrchStarts \/ OrchStep \/ OrchCrashes \/ Tick \/ UNCHANGED vars
    PROVE  PlannedInv'
<1>1. orch \in OrchState /\ volume = [rec |-> volume.rec, runs |-> volume.runs]
  BY Parts DEF IInv, TypeOK, OrchState
<1>2. CASE OrchStarts
  BY <1>2 DEF OrchStarts, PlannedInv, Rec, Down
<1>3. CASE OrchCommits
  <2>1. volume'.rec = [c \in Cases |-> IF c \in orch.absent THEN Initialized(NoCase, orch.at)
                                                            ELSE volume.rec[c]]
    BY <1>1, <1>3 DEF OrchCommits
  <2>2. Initialized(NoCase, orch.at).state = "pending"
    BY DEF Initialized, NoCase
  <2>3. \A c \in Cases : Rec(c)'.state # "absent"
    BY <1>3, <2>1, <2>2 DEF Rec, PlannedInv, OrchCommits
  <2> QED
    BY <1>1, <1>3, <2>3 DEF OrchCommits, PlannedInv, OrchState
<1>4. CASE OrchSubmits
  <2>1. \A w \in Workers : worker'[w] = worker[w] \/ worker'[w].pc = "queued"
    BY <1>4, RequestOk DEF OrchSubmits, In
  <2>2. orch'.pc = "waiting" /\ UNCHANGED volume /\ orch.pc \in {"planning", "waiting"}
    BY <1>1, <1>4 DEF OrchSubmits, OrchState, Collectable
  <2> QED
    BY <2>1, <2>2 DEF PlannedInv, Rec
<1>5. CASE OrchFinishes
  BY <1>1, <1>5 DEF OrchFinishes, OrchState, Collectable, PlannedInv, Rec
<1>6. CASE OrchSummarizes
  <2>1. \A c \in Cases : Rec(c).state # "absent"
    BY <1>6 DEF OrchSummarizes, PlannedInv
  <2>2. orch'.pc = "done" /\ orch'.plan = FreshPlan /\ UNCHANGED <<volume, worker>>
    BY <1>1, <1>6 DEF OrchSummarizes, OrchState
  <2> QED
    BY <2>1, <2>2, FreshPlanPresent DEF PlannedInv, Rec
<1>7. CASE OrchRaises \/ OrchCrashes
  BY <1>1, <1>7 DEF OrchRaises, OrchCrashes, OrchState, PlannedInv, Rec, Down
<1>8. CASE Tick \/ UNCHANGED vars
  BY <1>8 DEF Tick, vars, PlannedInv, Rec
<1> QED
  BY <1>2, <1>3, <1>4, <1>5, <1>6, <1>7, <1>8 DEF OrchStep

LEMMA PlannedInvariant == Spec => []PlannedInv
<1>1. Init => PlannedInv
  BY DEF Init, PlannedInv, Down, Idle
<1>2. IInv /\ PlannedInv /\ [Next]_vars => PlannedInv'
  BY WorkerPlanned, OrchPlanned DEF Next
<1> QED
  BY <1>1, <1>2, Invariant, PTL DEF Spec

\* The case that a sum over s takes first, and the sums of the subsets of the cases.
Chosen(s) == CHOOSE c \in s : TRUE

SumStep(f, g, s) == IF s = {} THEN 0 ELSE f[Chosen(s)] + g[s \ {Chosen(s)}]

Sums(f) ==
    LET sum[s \in SUBSET Cases] == IF s = {} THEN 0 ELSE f[Chosen(s)] + sum[s \ {Chosen(s)}]
    IN  sum

LEMMA TotalIsSum == \A f : Total(f) = Sums(f)[Cases]
  BY DEF Total, Sums, Chosen, MapThenSumSet, MapThenFoldSet

LEMMA ChosenFacts ==
    ASSUME NEW s \in SUBSET Cases, s # {}
    PROVE  /\ Chosen(s) \in s /\ Chosen(s) \in Cases /\ s \ {Chosen(s)} \in SUBSET Cases
           /\ Cardinality(s) \in Nat /\ Cardinality(s \ {Chosen(s)}) = Cardinality(s) - 1
           /\ Cardinality(s \ {Chosen(s)}) \in Nat
<1>1. Chosen(s) \in s
  BY DEF Chosen
<1>2. IsFiniteSet(s) /\ IsFiniteSet(s \ {Chosen(s)})
  BY CasesAssumption, FS_Subset
<1> QED
  BY <1>1, <1>2, FS_CardinalityType, FS_RemoveElement

Smaller == {p \in Nat \X Nat : p[1] < p[2]}

LEMMA Least ==
    ASSUME NEW S \in SUBSET Nat, S # {}
    PROVE  \E m \in S : \A n \in S : m <= n
<1>1. IsWellFoundedOn(Smaller, Nat)
  BY NatLessThanWellFounded DEF OpToRel, Smaller
<1>2. PICK m \in S : \A n \in S : <<n, m>> \notin Smaller
  BY <1>1, WFMin
<1>3. ASSUME NEW n \in S PROVE m <= n
  <2>1. <<n, m>> \in Nat \X Nat /\ <<n, m>>[1] = n /\ <<n, m>>[2] = m
    OBVIOUS
  <2> QED
    BY <1>2, <2>1 DEF Smaller
<1> QED
  BY <1>3

\* The recursion of the sum is well founded: a function satisfies it on the subsets of each
\* size, the least size without one being reached by one step more.
LEMMA SumsExist ==
    ASSUME NEW f \in [Cases -> Nat]
    PROVE  Sums(f) \in [SUBSET Cases -> Nat]
           /\ \A s \in SUBSET Cases : Sums(f)[s] = SumStep(f, Sums(f), s)
<1> DEFINE Upto(n, g) == \A s \in SUBSET Cases : Cardinality(s) <= n => g[s] = SumStep(f, g, s)
           Reached(n) == \E g \in [SUBSET Cases -> Nat] : Upto(n, g)
           Missed == {n \in Nat : ~Reached(n)}
<1>1. Reached(0)
  <2> DEFINE g == [s \in SUBSET Cases |-> 0]
  <2>1. ASSUME NEW s \in SUBSET Cases, Cardinality(s) <= 0 PROVE s = {}
    <3>1. IsFiniteSet(s) /\ Cardinality(s) \in Nat
      BY CasesAssumption, FS_Subset, FS_CardinalityType
    <3> QED
      BY <2>1, <3>1, FS_EmptySet
  <2>2. ASSUME NEW s \in SUBSET Cases, Cardinality(s) <= 0 PROVE g[s] = SumStep(f, g, s)
    BY <2>1, <2>2 DEF SumStep
  <2>3. g \in [SUBSET Cases -> Nat]
    OBVIOUS
  <2> HIDE DEF g
  <2> QED
    BY <2>2, <2>3
<1>2. ASSUME NEW n \in Nat, Reached(n) PROVE Reached(n + 1)
  <2>1. PICK g \in [SUBSET Cases -> Nat] : Upto(n, g)
    BY <1>2
  <2> DEFINE h == [s \in SUBSET Cases |-> SumStep(f, g, s)]
  <2>2. h \in [SUBSET Cases -> Nat]
    <3> SUFFICES ASSUME NEW s \in SUBSET Cases PROVE SumStep(f, g, s) \in Nat
      OBVIOUS
    <3>1. CASE s # {}
      <4>1. f[Chosen(s)] \in Nat /\ g[s \ {Chosen(s)}] \in Nat
        BY <3>1, ChosenFacts
      <4> QED
        BY <4>1 DEF SumStep
    <3> QED
      BY <3>1 DEF SumStep
  <2>3. ASSUME NEW s \in SUBSET Cases, Cardinality(s) <= n + 1 PROVE h[s] = SumStep(f, h, s)
    <3>1. CASE s # {}
      <4> DEFINE r == s \ {Chosen(s)}
      <4>1. r \in SUBSET Cases /\ Cardinality(r) <= n
        BY <2>3, <3>1, ChosenFacts
      <4>2. h[r] = g[r]
        BY <2>1, <4>1
      <4> HIDE DEF r
      <4>3. h[s] = f[Chosen(s)] + g[r] /\ SumStep(f, h, s) = f[Chosen(s)] + h[r]
        BY <3>1 DEF SumStep, r
      <4> QED
        BY <4>2, <4>3
    <3> QED
      BY <3>1 DEF SumStep
  <2> HIDE DEF h
  <2> QED
    BY <2>2, <2>3
<1> HIDE DEF Reached
<1>3. Missed = {}
  <2> SUFFICES ASSUME Missed # {} PROVE FALSE
    OBVIOUS
  <2>1. PICK m \in Missed : \A n \in Missed : m <= n
    BY Least
  <2>2. m # 0 /\ m - 1 \in Nat /\ m - 1 \notin Missed
    BY <1>1, <2>1
  <2> QED
    BY <1>2, <2>1, <2>2
<1>4. Cardinality(Cases) \in Nat
  BY CasesAssumption, FS_CardinalityType
<1>5. Reached(Cardinality(Cases))
  BY <1>3, <1>4
<1>6. PICK g \in [SUBSET Cases -> Nat] : Upto(Cardinality(Cases), g)
  BY <1>5 DEF Reached
<1>7. \A s \in SUBSET Cases : g[s] = SumStep(f, g, s)
  BY <1>6, CasesAssumption, FS_Subset
<1>8. g = [s \in SUBSET Cases |-> IF s = {} THEN 0 ELSE f[Chosen(s)] + g[s \ {Chosen(s)}]]
  BY <1>7 DEF SumStep
<1> HIDE DEF Upto
<1>9. Sums(f) = [s \in SUBSET Cases |->
                  IF s = {} THEN 0 ELSE f[Chosen(s)] + Sums(f)[s \ {Chosen(s)}]]
  BY <1>8 DEF Sums
<1> QED
  <2>1. \A s \in SUBSET Cases : Sums(f)[s] = SumStep(f, Sums(f), s)
    BY <1>9 DEF SumStep
  <2> DEFINE G == Sums(f)
             Bad == {n \in Nat : \E s \in SUBSET Cases : Cardinality(s) = n /\ G[s] \notin Nat}
  <2>2. Bad = {}
    <3> SUFFICES ASSUME Bad # {} PROVE FALSE
      OBVIOUS
    <3>1. PICK m \in Bad : \A n \in Bad : m <= n
      BY Least
    <3>2. PICK s \in SUBSET Cases : Cardinality(s) = m /\ G[s] \notin Nat
      BY <3>1
    <3>3. s # {}
      BY <2>1, <3>2 DEF SumStep
    <3>4. G[s \ {Chosen(s)}] \in Nat
      BY <3>1, <3>2, <3>3, ChosenFacts
    <3>5. G[s] = f[Chosen(s)] + G[s \ {Chosen(s)}] /\ f[Chosen(s)] \in Nat
      BY <2>1, <3>3, ChosenFacts DEF SumStep
    <3> HIDE DEF G
    <3> QED
      BY <3>2, <3>4, <3>5
  <2>3. \A s \in SUBSET Cases : G[s] \in Nat
    BY <2>2, CasesAssumption, FS_Subset, FS_CardinalityType
  <2>4. DOMAIN G = SUBSET Cases /\ G = [s \in SUBSET Cases |-> G[s]]
    BY <1>9
  <2> QED
    BY <2>1, <2>3, <2>4

\* Totals grow with what is added up.
LEMMA TotalsGrow ==
    ASSUME NEW f \in [Cases -> Nat], NEW h \in [Cases -> Nat], \A c \in Cases : f[c] <= h[c]
    PROVE  Total(f) <= Total(h)
<1> DEFINE F == Sums(f)
           H == Sums(h)
           Bad == {n \in Nat : \E s \in SUBSET Cases : Cardinality(s) = n /\ ~(F[s] <= H[s])}
<1>1. /\ F \in [SUBSET Cases -> Nat] /\ \A s \in SUBSET Cases : F[s] = SumStep(f, F, s)
      /\ H \in [SUBSET Cases -> Nat] /\ \A s \in SUBSET Cases : H[s] = SumStep(h, H, s)
  BY SumsExist
<1> HIDE DEF F, H
<1>2. Bad = {}
  <2> SUFFICES ASSUME Bad # {} PROVE FALSE
    OBVIOUS
  <2>1. PICK m \in Bad : \A n \in Bad : m <= n
    BY Least
  <2>2. PICK s \in SUBSET Cases : Cardinality(s) = m /\ ~(F[s] <= H[s])
    BY <2>1
  <2>3. s # {}
    <3> SUFFICES ASSUME s = {} PROVE F[s] = 0 /\ H[s] = 0
      BY <2>2
    <3>1. F[s] = SumStep(f, F, s) /\ H[s] = SumStep(h, H, s)
      BY <1>1, <2>2
    <3> QED
      BY <3>1 DEF SumStep
  <2> DEFINE r == s \ {Chosen(s)}
  <2>4. F[r] <= H[r] /\ r \in SUBSET Cases /\ f[Chosen(s)] <= h[Chosen(s)] /\ Chosen(s) \in Cases
    BY <2>1, <2>2, <2>3, ChosenFacts
  <2>5. F[s] = f[Chosen(s)] + F[r] /\ H[s] = h[Chosen(s)] + H[r]
    BY <1>1, <2>3 DEF SumStep
  <2>6. F[r] \in Nat /\ H[r] \in Nat /\ f[Chosen(s)] \in Nat /\ h[Chosen(s)] \in Nat
    BY <1>1, <2>4
  <2> HIDE DEF r
  <2> QED
    BY <2>2, <2>4, <2>5, <2>6
<1>3. F[Cases] <= H[Cases]
  BY <1>2, CasesAssumption, FS_CardinalityType
<1> QED
  BY <1>3, TotalIsSum DEF F, H

\* The cases of each state, counted apart, are all the cases.
LEMMA StatesPartition ==
    ASSUME NEW plan, \A c \in Cases : plan[c].state \in RunStates
    PROVE  /\ Cardinality(In(plan, "pending")) + Cardinality(In(plan, "running"))
              + Cardinality(In(plan, "succeeded")) + Cardinality(In(plan, "failed"))
              = Cardinality(Cases)
           /\ \A state : IsFiniteSet(In(plan, state)) /\ Cardinality(In(plan, state)) \in Nat
           /\ Cardinality(In(plan, "succeeded")) = Cardinality(Cases)
              => \A c \in Cases : plan[c].state = "succeeded"
<1> DEFINE P == In(plan, "pending")
           R == In(plan, "running")
           S == In(plan, "succeeded")
           F == In(plan, "failed")
<1>1. \A state : IsFiniteSet(In(plan, state)) /\ Cardinality(In(plan, state)) \in Nat
  BY CasesAssumption, FS_Subset, FS_CardinalityType DEF In
<1>2. /\ Cases = (P \cup R) \cup (S \cup F)
      /\ P \cap R = {} /\ S \cap F = {} /\ (P \cup R) \cap (S \cup F) = {}
      /\ S \in SUBSET Cases
  BY DEF In
<1>3. /\ IsFiniteSet(P) /\ IsFiniteSet(R) /\ IsFiniteSet(S) /\ IsFiniteSet(F)
      /\ Cardinality(P) \in Nat /\ Cardinality(R) \in Nat
      /\ Cardinality(S) \in Nat /\ Cardinality(F) \in Nat
  BY <1>1
<1>4. S = Cases => \A c \in Cases : plan[c].state = "succeeded"
  BY DEF In
<1> HIDE DEF P, R, S, F
<1>5. ASSUME NEW A, NEW B, IsFiniteSet(A), IsFiniteSet(B), A \cap B = {}
      PROVE  IsFiniteSet(A \cup B) /\ Cardinality(A \cup B) = Cardinality(A) + Cardinality(B)
  <2>1. /\ IsFiniteSet(A \cup B)
        /\ Cardinality(A \cup B) = Cardinality(A) + Cardinality(B) - Cardinality(A \cap B)
    BY <1>5, FS_Union
  <2>2. Cardinality(A \cap B) = 0
    BY <1>5, FS_EmptySet
  <2>3. Cardinality(A) \in Nat /\ Cardinality(B) \in Nat
    BY <1>5, FS_CardinalityType
  <2> QED
    BY <2>1, <2>2, <2>3
<1>6. Cardinality(Cases) = Cardinality(P) + Cardinality(R) + (Cardinality(S) + Cardinality(F))
  <2>1. IsFiniteSet(P \cup R) /\ Cardinality(P \cup R) = Cardinality(P) + Cardinality(R)
    BY <1>2, <1>3, <1>5
  <2>2. IsFiniteSet(S \cup F) /\ Cardinality(S \cup F) = Cardinality(S) + Cardinality(F)
    BY <1>2, <1>3, <1>5
  <2>3. Cardinality(Cases) = Cardinality(P \cup R) + Cardinality(S \cup F)
    BY <1>2, <1>5, <2>1, <2>2
  <2> QED
    BY <2>1, <2>2, <2>3
<1>7. Cardinality(S) = Cardinality(Cases) => S = Cases
  BY <1>2, CasesAssumption, FS_Subset
<1> QED
  BY <1>1, <1>3, <1>4, <1>6, <1>7 DEF P, R, S, F

\* Every success is referenced once.
LEMMA ReferencesCounted ==
    ASSUME NEW plan
    PROVE  Cardinality({<<c, plan[c].run_digest>> : c \in In(plan, "succeeded")})
           = Cardinality(In(plan, "succeeded"))
<1> DEFINE S == In(plan, "succeeded")
           T == {<<c, plan[c].run_digest>> : c \in S}
           f == [c \in S |-> <<c, plan[c].run_digest>>]
<1>1. IsFiniteSet(S)
  BY CasesAssumption, FS_Subset DEF In
<1> HIDE DEF S
<1>2. f \in [S -> T]
  OBVIOUS
<1>3. \A a, b \in S : f[a] = f[b] => a = b
  OBVIOUS
<1>4. \A t \in T : \E c \in S : f[c] = t
  OBVIOUS
<1>5. f \in Bijection(S, T)
  BY <1>2, <1>3, <1>4 DEF Bijection, Injection, Surjection, IsInjective
<1> QED
  BY <1>1, <1>5, FS_Bijection DEF ExistsBijection, S

\* The validator accepts what any plan of records adds up to.
LEMMA PlansAreCoherent ==
    ASSUME NEW plan, \A c \in Cases : CaseInv(plan[c]) /\ plan[c].state # "absent"
    PROVE  SummaryIsCoherent(Summary(plan))
<1> DEFINE failures == [c \in Cases |-> Len(plan[c].failure_codes)]
           claimed == [c \in Cases |-> plan[c].attempt]
           retries == [c \in Cases |-> IF plan[c].attempt > 0 THEN plan[c].attempt - 1 ELSE 0]
           s == Summary(plan)
<1>1. ASSUME NEW c \in Cases
      PROVE  /\ plan[c].state \in RunStates
             /\ plan[c].attempt \in Nat /\ Len(plan[c].failure_codes) \in Nat
             /\ Len(plan[c].failure_codes) <= plan[c].attempt
             /\ plan[c].state = "succeeded" => /\ plan[c].attempt > 0
                                               /\ Len(plan[c].failure_codes) = plan[c].attempt - 1
  <2>1. CaseInv(plan[c]) /\ plan[c].state # "absent"
    OBVIOUS
  <2>2. plan[c] \in CaseState
    BY <2>1 DEF CaseInv
  <2>3. plan[c].attempt \in Nat /\ Len(plan[c].failure_codes) \in Nat /\ plan[c].state \in RunStates
    BY <2>1, <2>2, AttemptsAssumption DEF CaseState
  <2> QED
    BY <2>1, <2>3 DEF CaseInv, Coherent, Accounted
<1>2. failures \in [Cases -> Nat] /\ claimed \in [Cases -> Nat] /\ retries \in [Cases -> Nat]
  BY <1>1
<1>3. Total(failures) <= Total(claimed)
  BY <1>1, <1>2, TotalsGrow
<1>4. ASSUME \A c \in Cases : plan[c].state = "succeeded" PROVE Total(failures) <= Total(retries)
  <2>1. \A c \in Cases : failures[c] <= retries[c]
    BY <1>1, <1>4
  <2> HIDE DEF failures, retries
  <2> QED
    BY <1>2, <2>1, TotalsGrow
<1>5. /\ s.pending = Cardinality(In(plan, "pending"))
      /\ s.running = Cardinality(In(plan, "running"))
      /\ s.succeeded = Cardinality(In(plan, "succeeded"))
      /\ s.failed = Cardinality(In(plan, "failed"))
      /\ s.references = {<<c, plan[c].run_digest>> : c \in In(plan, "succeeded")}
      /\ s.failures = Total(failures) /\ s.claimed = Total(claimed) /\ s.retries = Total(retries)
  BY DEF Summary
<1> HIDE DEF s, failures, claimed, retries
<1>6. s.pending + s.running + s.succeeded + s.failed = Cardinality(Cases)
  BY <1>1, <1>5, StatesPartition
<1>7. Cardinality(s.references) = s.succeeded
  BY <1>5, ReferencesCounted
<1>8. s.succeeded = Cardinality(Cases) => s.failures <= s.retries
  BY <1>1, <1>4, <1>5, StatesPartition
<1> QED
  BY <1>3, <1>5, <1>6, <1>7, <1>8 DEF SummaryIsCoherent, s

\* The validator of SweepSummary accepts the summary of every command that ends, for every
\* number of cases, whatever became of the workers and whether commands overlap or not.
THEOREM AcceptedSummaries == Spec => []SummaryIsAccepted
<1>1. PlannedInv => SummaryIsAccepted
  BY PlansAreCoherent DEF PlannedInv, SummaryIsAccepted
<1> QED
  BY <1>1, PlannedInvariant, PTL
=============================================================================
