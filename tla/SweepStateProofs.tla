-------------------------- MODULE SweepStateProofs --------------------------
(***************************************************************************)
(* Proofs about SweepState for every number of cases, callers, tokens and  *)
(* attempts.  The inductive invariant is CaseInv of every record, which    *)
(* the transitions of CaseRecord keep, and that successes have run roots.  *)
(* CaseInv is a fact about one record on its own: its type, what           *)
(* CaseState's validator asks of it, and a failure history that accounts   *)
(* for its attempts.                                                       *)
(***************************************************************************)
EXTENDS SweepState, SequenceTheorems, TLAPS

-----------------------------------------------------------------------------
(* One record on its own.                                                  *)

\* The failure history accounts for the attempts of the record s.
Accounted(s) ==
    Len(s.failure_codes) = s.attempt - (IF s.state \in {"running", "succeeded"} THEN 1 ELSE 0)

CaseInv(s) ==
    /\ s \in CaseState
    /\ s.state = "absent" => s = NoCase
    /\ Coherent(s)
    /\ Accounted(s)

USE DEF RunStates

-----------------------------------------------------------------------------
(* The transitions of CaseRecord.                                          *)

\* The record of no file.
LEMMA NoCaseInv == CaseInv(NoCase)
<1>1. NoCase \in CaseState
  BY AttemptsAssumption DEF NoCase, CaseState
<1>2. Coherent(NoCase) /\ Accounted(NoCase)
  BY AttemptsAssumption, NoneAssumption DEF NoCase, Coherent, Accounted
<1> QED
  BY <1>1, <1>2 DEF CaseInv

\* The initial revision of a case.
LEMMA InitialInv ==
    ASSUME NEW t \in Nat
    PROVE  CaseInv([NoCase EXCEPT !.state = "pending", !.updated_at = t])
<1> DEFINE n == [NoCase EXCEPT !.state = "pending", !.updated_at = t]
<1>1. NoCase \in CaseState
  BY NoCaseInv DEF CaseInv
<1>2. n \in CaseState
  BY <1>1 DEF CaseState
<1>3. /\ NoCase.attempt = 0 /\ NoCase.attempt_id = None /\ NoCase.lease_owner = None
      /\ NoCase.lease_expires_at = None /\ NoCase.run_digest = None
      /\ NoCase.error_code = None /\ NoCase.failure_codes = <<>>
  BY DEF NoCase
<1>4. /\ n.state = "pending" /\ n.attempt = 0 /\ n.attempt_id = None
      /\ n.lease_owner = None /\ n.lease_expires_at = None /\ n.run_digest = None
      /\ n.error_code = None /\ n.failure_codes = <<>>
  BY <1>1, <1>3 DEF CaseState
<1>5. Coherent(n) /\ Accounted(n)
  BY <1>4, AttemptsAssumption DEF Coherent, Accounted
<1> QED
  BY <1>2, <1>4, <1>5 DEF CaseInv

\* An attempt that ends without a result leaves a record the validator accepts, if it
\* is left pending only while attempts remain.
LEMMA FailedInv ==
    ASSUME NEW s, CaseInv(s), s.state = "running",
           NEW code \in Codes, NEW next \in {"pending", "failed"}, NEW t \in Nat,
           next = "pending" => s.attempt < MaxAttempts
    PROVE  CaseInv(Failed(s, code, next, t))
<1> DEFINE n == Failed(s, code, next, t)
           codes == Append(s.failure_codes, code)
<1>1. s \in CaseState /\ Coherent(s) /\ Len(s.failure_codes) = s.attempt - 1
  BY DEF CaseInv, Accounted
<1>2. codes \in Seq(Codes) /\ Len(codes) = s.attempt /\ codes[Len(codes)] = code
  BY <1>1 DEF CaseState
<1>3. /\ n.state = next /\ n.attempt = s.attempt /\ n.attempt_id = s.attempt_id
      /\ n.lease_owner = None /\ n.lease_expires_at = None /\ n.run_digest = None
      /\ n.error_code = code /\ n.failure_codes = codes /\ n.updated_at = t
  BY <1>1 DEF Failed, CaseState
<1>4. n \in CaseState
  BY <1>1, <1>2 DEF Failed, CaseState
<1>5. code # None
  BY NoneAssumption DEF Codes
<1>6. Coherent(n)
  BY <1>1, <1>2, <1>3, <1>5 DEF Coherent, CaseState
<1>7. Accounted(n)
  BY <1>1, <1>2, <1>3 DEF Accounted, CaseState
<1> QED
  BY <1>3, <1>4, <1>6, <1>7 DEF CaseInv

\* Reaping an expired lease.
LEMMA AfterExpiryInv ==
    ASSUME NEW s, CaseInv(s), NEW t \in Nat
    PROVE  CaseInv(AfterExpiry(s, t))
<1>1. CASE s.state = "running" /\ s.lease_expires_at <= t
  <2> DEFINE next == IF s.attempt >= MaxAttempts THEN "failed" ELSE "pending"
  <2>1. s.attempt \in Nat /\ MaxAttempts \in Nat
    BY AttemptsAssumption DEF CaseInv, CaseState
  <2>2. next = "pending" => s.attempt < MaxAttempts
    BY <2>1
  <2>3. CaseInv(Failed(s, LeaseExpired, next, t))
    BY <1>1, <2>2, FailedInv DEF Codes
  <2> QED
    BY <1>1, <2>3 DEF AfterExpiry
<1>2. CASE ~(s.state = "running" /\ s.lease_expires_at <= t)
  BY <1>2 DEF AfterExpiry
<1> QED
  BY <1>1, <1>2

\* Granting pending work.
LEMMA ClaimedInv ==
    ASSUME NEW s, CaseInv(s), NEW t \in Nat, NEW id \in AttemptIds, NEW owner \in Owners,
           s.state = "pending"
    PROVE  CaseInv(Claimed(s, id, owner, t))
<1> DEFINE n == Claimed(s, id, owner, t)
<1>1. s \in CaseState /\ Coherent(s) /\ Len(s.failure_codes) = s.attempt
  BY DEF CaseInv, Accounted, CaseState
<1>2. s.attempt \in Nat /\ s.attempt < MaxAttempts /\ MaxAttempts \in Nat
  BY <1>1, AttemptsAssumption DEF Coherent, CaseState
<1>3. /\ n.state = "running" /\ n.attempt = s.attempt + 1 /\ n.attempt_id = id
      /\ n.lease_owner = owner /\ n.lease_expires_at = t + LeaseDuration
      /\ n.run_digest = None /\ n.error_code = None
      /\ n.failure_codes = s.failure_codes /\ n.updated_at = t
  BY <1>1 DEF Claimed, CaseState
<1>4. t + LeaseDuration \in Nat /\ t + LeaseDuration > t
  BY LeaseAssumption
<1>5. n \in CaseState
  <2>1. s.attempt + 1 \in 0..MaxAttempts
    BY <1>2
  <2> QED
    BY <1>1, <1>4, <2>1 DEF Claimed, CaseState
<1>6. id # None /\ owner # None /\ t + LeaseDuration # None
  BY <1>4, NoneAssumption
<1>7. Coherent(n)
  BY <1>1, <1>2, <1>3, <1>4, <1>6 DEF Coherent, CaseState
<1>8. Accounted(n)
  BY <1>1, <1>2, <1>3 DEF Accounted, CaseState
<1> QED
  BY <1>3, <1>5, <1>7, <1>8 DEF CaseInv

\* Renewing a lease.
LEMMA RenewedInv ==
    ASSUME NEW s, CaseInv(s), NEW t \in Nat, s.state = "running"
    PROVE  CaseInv([s EXCEPT !.lease_expires_at = t + LeaseDuration, !.updated_at = t])
<1> DEFINE n == [s EXCEPT !.lease_expires_at = t + LeaseDuration, !.updated_at = t]
<1>1. s \in CaseState /\ Coherent(s) /\ Accounted(s)
  BY DEF CaseInv
<1>2. t + LeaseDuration \in Nat /\ t + LeaseDuration > t /\ t + LeaseDuration # None
  BY LeaseAssumption, NoneAssumption
<1>3. /\ n.state = "running" /\ n.attempt = s.attempt /\ n.attempt_id = s.attempt_id
      /\ n.lease_owner = s.lease_owner /\ n.lease_expires_at = t + LeaseDuration
      /\ n.run_digest = s.run_digest /\ n.error_code = s.error_code
      /\ n.failure_codes = s.failure_codes /\ n.updated_at = t
  BY <1>1 DEF CaseState
<1>4. n \in CaseState
  BY <1>1, <1>2 DEF CaseState
<1>5. Coherent(n) /\ Accounted(n)
  BY <1>1, <1>2, <1>3 DEF Coherent, Accounted
<1> QED
  BY <1>3, <1>4, <1>5 DEF CaseInv

\* Completing an attempt with a run.
LEMMA SucceededInv ==
    ASSUME NEW s, CaseInv(s), NEW t \in Nat, NEW d \in Digests, s.state = "running"
    PROVE  CaseInv(Succeeded(s, d, t))
<1> DEFINE n == Succeeded(s, d, t)
<1>1. s \in CaseState /\ Coherent(s) /\ Len(s.failure_codes) = s.attempt - 1
  BY DEF CaseInv, Accounted
<1>2. /\ n.state = "succeeded" /\ n.attempt = s.attempt /\ n.attempt_id = s.attempt_id
      /\ n.lease_owner = None /\ n.lease_expires_at = None
      /\ n.run_digest = d /\ n.error_code = None
      /\ n.failure_codes = s.failure_codes /\ n.updated_at = t
  BY <1>1 DEF Succeeded, CaseState
<1>3. n \in CaseState
  BY <1>1 DEF Succeeded, CaseState
<1>4. d # None
  BY NoneAssumption
<1>5. Coherent(n) /\ Accounted(n)
  BY <1>1, <1>2, <1>4 DEF Coherent, Accounted, CaseState
<1> QED
  BY <1>2, <1>3, <1>5 DEF CaseInv

\* Reaping never touches a success and never makes one.
LEMMA AfterExpirySuccess ==
    ASSUME NEW s \in CaseState, NEW t \in Nat,
           s.state = "succeeded" \/ AfterExpiry(s, t).state = "succeeded"
    PROVE  AfterExpiry(s, t) = s
<1>1. ASSUME NEW code, NEW next, next # "succeeded"
      PROVE  Failed(s, code, next, t).state # "succeeded"
  BY <1>1 DEF Failed, CaseState
<1> QED
  BY <1>1 DEF AfterExpiry

\* A report of the owner of a live lease finds a running case.
LEMMA OwnerRuns ==
    ASSUME NEW s, NEW id, NEW owner, NEW t, OwnsLease(s, id, owner, t)
    PROVE  s.state = "running"
  BY DEF OwnsLease, Live

-----------------------------------------------------------------------------
(* What the ledger of attempts sees of a record.                           *)

\* Closing the open attempt at the end of a ledger.
LEMMA ClosedLast ==
    ASSUME NEW f \in Seq(Codes), NEW outcome
    PROVE  LET g == Append(f, "open") IN
           /\ Len(g) = Len(f) + 1
           /\ g[Len(g)] = "open"
           /\ [g EXCEPT ![Len(g)] = outcome] = Append(f, outcome)
<1> DEFINE T == Codes \cup {"open", outcome}
           g == Append(f, "open")
           h == [g EXCEPT ![Len(g)] = outcome]
<1>1. f \in Seq(T)
  BY SeqMonotonic, Codes \subseteq T
<1>2. g \in Seq(T) /\ Len(g) = Len(f) + 1 /\ g[Len(g)] = "open"
      /\ \A i \in 1..Len(f) : g[i] = f[i]
  BY <1>1
<1>3. Append(f, outcome) \in Seq(T) /\ Len(Append(f, outcome)) = Len(f) + 1
      /\ \A i \in 1..(Len(f) + 1) : Append(f, outcome)[i] = IF i = Len(f) + 1 THEN outcome ELSE f[i]
  BY <1>1
<1>4. Len(f) \in Nat /\ Len(g) \in 1..Len(g) /\ outcome \in T
  BY <1>2
<1> HIDE DEF g, T
<1>5. h \in Seq(T) /\ Len(h) = Len(g) /\ \A i \in 1..Len(g) : h[i] = IF i = Len(g) THEN outcome ELSE g[i]
  BY <1>2, <1>4, ExceptSeq
<1> HIDE DEF h
<1>6. \A i \in 1..Len(h) : h[i] = Append(f, outcome)[i]
  BY <1>2, <1>3, <1>4, <1>5
<1>7. h = Append(f, outcome)
  BY <1>2, <1>3, <1>5, <1>6, SeqEqual
<1> QED
  BY <1>2, <1>7 DEF g, h

\* What the ledger shows of a record.
LEMMA OutcomesOf ==
    ASSUME NEW s, CaseInv(s)
    PROVE  /\ s.failure_codes \in Seq(Codes)
           /\ s.state = "running" => Outcomes(s) = Append(s.failure_codes, "open")
           /\ s.state = "succeeded" => Outcomes(s) = Append(s.failure_codes, "success")
           /\ s.state \notin {"running", "succeeded"} => Outcomes(s) = s.failure_codes
           /\ s.state = "pending" => Len(Outcomes(s)) = s.attempt
           /\ s.state = "running" => Len(Outcomes(s)) = s.attempt
  BY DEF Outcomes, CaseInv, Accounted, CaseState

-----------------------------------------------------------------------------
(* The state machine.                                                      *)

IInv ==
    /\ TypeOK
    /\ \A c \in Cases : CaseInv(store[c])
    /\ SuccessIsVerified

\* The parts of IInv that concern one case whose record is replaced.
LEMMA ReplacedCase ==
    ASSUME IInv, NEW c \in Cases, NEW n, CaseInv(n),
           store' = [store EXCEPT ![c] = n],
           runs' = runs,
           n.state = "succeeded" => <<c, n.run_digest>> \in runs
    PROVE  /\ store' \in [Cases -> CaseState]
           /\ \A x \in Cases : CaseInv(store'[x])
           /\ SuccessIsVerified'
<1>1. n \in CaseState /\ store \in [Cases -> CaseState]
  BY DEF CaseInv, IInv, TypeOK
<1>2. store' \in [Cases -> CaseState]
  BY <1>1
<1>3. \A x \in Cases : store'[x] = IF x = c THEN n ELSE store[x]
  BY <1>1
<1>4. \A x \in Cases : CaseInv(store'[x])
  BY <1>3 DEF IInv
<1>5. SuccessIsVerified'
  BY <1>3 DEF IInv, SuccessIsVerified
<1> QED
  BY <1>2, <1>4, <1>5

LEMMA InitIInv == Init => IInv
<1> SUFFICES ASSUME Init PROVE IInv
  OBVIOUS
<1>1. \A c \in Cases : store[c] = NoCase
  BY DEF Init
<1>2. CaseInv(NoCase) /\ NoCase \in CaseState
  BY NoCaseInv DEF CaseInv
<1>3. TypeOK
  BY <1>2, AttemptsAssumption DEF Init, TypeOK
<1>4. SuccessIsVerified
  BY <1>1 DEF SuccessIsVerified, NoCase
<1> QED
  BY <1>1, <1>2, <1>3, <1>4 DEF IInv

LEMMA NextIInv == IInv /\ [Next]_vars => IInv'
<1> SUFFICES ASSUME IInv, [Next]_vars PROVE IInv'
  OBVIOUS
<1> USE DEF IInv
<1>1. ASSUME NEW c \in Cases, NEW t \in Timestamps, InitializeCase(c, t)
      PROVE  IInv'
  <2> DEFINE n == [NoCase EXCEPT !.state = "pending", !.updated_at = t]
  <2>1. t \in Nat
    BY DEF Timestamps, TypeOK
  <2>2. CaseInv(n)
    BY <2>1, InitialInv
  <2>3. n.state = "pending"
    BY DEF NoCase
  <2>4. store' = [store EXCEPT ![c] = n] /\ UNCHANGED <<runs, now, token, held>>
    BY <1>1 DEF InitializeCase
  <2> HIDE DEF n
  <2> QED
    BY <2>2, <2>3, <2>4, ReplacedCase DEF TypeOK
<1>2. ASSUME NEW w \in Workers, NEW t \in Timestamps, ClaimAgain(w, t)
      PROVE  IInv'
  <2>1. store[token[w].case].attempt \in 0..MaxAttempts
    BY DEF TypeOK, CaseState
  <2> QED
    BY <1>2, <2>1 DEF ClaimAgain, TypeOK, SuccessIsVerified
<1>3. ASSUME NEW w \in Workers, NEW t \in Timestamps, ClaimCase(w, t)
      PROVE  IInv'
  <2> DEFINE c == token[w].case
             s == AfterExpiry(store[c], t)
             n == Claimed(s, token[w].id, token[w].owner, t)
  <2>1. t \in Nat /\ c \in Cases /\ token[w].id \in AttemptIds /\ token[w].owner \in Owners
    BY DEF Timestamps, TypeOK
  <2>2. CaseInv(s) /\ s.state = "pending"
    BY <1>3, <2>1, AfterExpiryInv DEF ClaimCase, Claimable
  <2>3. CaseInv(n)
    BY <2>1, <2>2, ClaimedInv
  <2>4. n.state = "running" /\ s.attempt + 1 \in 0..MaxAttempts
    BY <2>2, AttemptsAssumption DEF CaseInv, Coherent, CaseState, Claimed
  <2>5. /\ store' = [store EXCEPT ![c] = n]
        /\ held' = [held EXCEPT ![w] = s.attempt + 1]
            /\ UNCHANGED <<runs, now, token>>
    BY <1>3 DEF ClaimCase
  <2> HIDE DEF n, s
  <2>6. held' \in [Workers -> 0..MaxAttempts]
    BY <2>1, <2>4, <2>5 DEF TypeOK
  <2> QED
    BY <2>1, <2>3, <2>4, <2>5, <2>6, ReplacedCase DEF TypeOK
<1>4. ASSUME NEW c \in Cases, NEW t \in Timestamps, ReapExpired(c, t)
      PROVE  IInv'
  <2> DEFINE n == AfterExpiry(store[c], t)
  <2>1. t \in Nat /\ store[c] \in CaseState
    BY DEF Timestamps, TypeOK
  <2>2. CaseInv(n)
    BY <2>1, AfterExpiryInv
  <2>3. n.state # "succeeded"
    BY <1>4, <2>1, AfterExpirySuccess DEF ReapExpired
  <2>4. store' = [store EXCEPT ![c] = n] /\ UNCHANGED <<runs, now, token, held>>
    BY <1>4 DEF ReapExpired
  <2> HIDE DEF n
  <2> QED
    BY <2>2, <2>3, <2>4, ReplacedCase DEF TypeOK
<1>5. ASSUME NEW w \in Workers, NEW t \in Timestamps, RenewLease(w, t)
      PROVE  IInv'
  <2> DEFINE c == token[w].case
             n == [store[c] EXCEPT !.lease_expires_at = t + LeaseDuration, !.updated_at = t]
  <2>1. t \in Nat /\ c \in Cases /\ store[c] \in CaseState
    BY DEF Timestamps, TypeOK
  <2>2. store[c].state = "running"
    BY <1>5, OwnerRuns DEF RenewLease
  <2>3. CaseInv(n) /\ n.state = "running"
    BY <2>1, <2>2, RenewedInv DEF CaseState
  <2>4. store' = [store EXCEPT ![c] = n] /\ UNCHANGED <<runs, now, token, held>>
    BY <1>5, <2>1 DEF RenewLease, TypeOK
  <2> HIDE DEF n
  <2> QED
    BY <2>1, <2>3, <2>4, ReplacedCase DEF TypeOK
<1>6. ASSUME NEW w \in Workers, NEW t \in Timestamps, NEW d \in Digests, SucceedCase(w, d, t)
      PROVE  IInv'
  <2> DEFINE c == token[w].case
             n == Succeeded(store[c], d, t)
  <2>1. t \in Nat /\ c \in Cases /\ store[c] \in CaseState
    BY DEF Timestamps, TypeOK
  <2>2. store[c].state = "running"
    BY <1>6, OwnerRuns DEF SucceedCase
  <2>3. CaseInv(n) /\ n.run_digest = d
    BY <2>1, <2>2, SucceededInv DEF Succeeded, CaseState
  <2>4. <<c, d>> \in runs
    BY <1>6 DEF SucceedCase, Verified
  <2>5. store' = [store EXCEPT ![c] = n] /\ UNCHANGED <<runs, now, token, held>>
    BY <1>6 DEF SucceedCase
  <2> HIDE DEF n
  <2> QED
    BY <2>1, <2>3, <2>4, <2>5, ReplacedCase DEF TypeOK
<1>7. ASSUME NEW w \in Workers, NEW t \in Timestamps,
             NEW code \in FailCodes, NEW retryable \in BOOLEAN, FailCase(w, code, retryable, t)
      PROVE  IInv'
  <2> DEFINE c == token[w].case
             next == AfterFailure(store[c], code, retryable)
             n == Failed(store[c], code, next, t)
  <2>1. t \in Nat /\ c \in Cases /\ store[c] \in CaseState /\ code \in Codes
    BY DEF Timestamps, TypeOK, Codes
  <2>2. store[c].state = "running"
    BY <1>7, OwnerRuns DEF FailCase
  <2>3. next \in {"pending", "failed"} /\ (next = "pending" => store[c].attempt < MaxAttempts)
    BY DEF AfterFailure
  <2>4. CaseInv(n)
    BY <2>1, <2>2, <2>3, FailedInv
  <2>5. n.state # "succeeded"
    BY <2>1, <2>3 DEF Failed, CaseState
  <2>6. store' = [store EXCEPT ![c] = n] /\ UNCHANGED <<runs, now, token, held>>
    BY <1>7 DEF FailCase
  <2> HIDE DEF n, next
  <2> QED
    BY <2>1, <2>4, <2>5, <2>6, ReplacedCase DEF TypeOK
<1>8. ASSUME NEW c \in Cases, NEW d \in Digests, PublishRun(c, d)
      PROVE  IInv'
  BY <1>8 DEF PublishRun, TypeOK, SuccessIsVerified
<1>9. CASE Tick
  BY <1>9 DEF Tick, TypeOK, SuccessIsVerified
<1>10. CASE UNCHANGED vars
  BY <1>10 DEF vars, TypeOK, SuccessIsVerified
<1> QED
  BY <1>1, <1>2, <1>3, <1>4, <1>5, <1>6, <1>7, <1>8, <1>9, <1>10 DEF Next, WorkerStep

LEMMA Invariant == Spec => []IInv
  BY InitIInv, NextIInv, PTL DEF Spec

-----------------------------------------------------------------------------
(* Theorems.                                                               *)

\* Every variable keeps its type.
THEOREM TypeCorrect == Spec => []TypeOK
<1>1. IInv => TypeOK
  BY DEF IInv
<1> QED
  BY <1>1, Invariant, PTL

\* No transition writes a revision that CaseState's validator refuses.
THEOREM AlwaysCoherent == Spec => []StatesCoherent
<1>1. IInv => StatesCoherent
  BY DEF IInv, CaseInv, StatesCoherent
<1> QED
  BY <1>1, Invariant, PTL

\* failure_codes holds one code for each attempt that is over without a success.
THEOREM AlwaysAccounted == Spec => []AttemptsAccounted
<1>1. IInv => AttemptsAccounted
  BY DEF IInv, CaseInv, Accounted, AttemptsAccounted
<1> QED
  BY <1>1, Invariant, PTL

\* A success always names a committed run root.
THEOREM AlwaysVerified == Spec => []SuccessIsVerified
<1>1. IInv => SuccessIsVerified
  BY DEF IInv
<1> QED
  BY <1>1, Invariant, PTL

\* The record of a case is coherent, accounts for its attempts and claims only verified
\* success, whatever the callers and their clocks do.
THEOREM SoundHistory == Spec => []HistoryIsSound
<1>1. IInv => HistoryIsSound
  BY DEF IInv, CaseInv, Accounted, HistoryIsSound, StatesCoherent, AttemptsAccounted
<1> QED
  BY <1>1, Invariant, PTL

\* The revision of a case that has succeeded is its last.
THEOREM ImmutableSuccess == Spec => SuccessIsImmutable
<1>1. ASSUME IInv, [Next]_vars, NEW x \in Cases, store[x].state = "succeeded"
      PROVE  store'[x] = store[x]
  <2> USE DEF IInv, TypeOK
  <2>1. store[x] \in CaseState /\ store \in [Cases -> CaseState]
    BY <1>1
  <2>2. ASSUME NEW t \in Timestamps
        PROVE  AfterExpiry(store[x], t) = store[x]
    BY <1>1, <2>1, AfterExpirySuccess DEF Timestamps
  <2>3. ASSUME NEW c \in Cases, NEW t \in Timestamps, InitializeCase(c, t)
        PROVE  store'[x] = store[x]
    BY <1>1, <2>1, <2>3 DEF InitializeCase
  <2>4. ASSUME NEW w \in Workers, NEW t \in Timestamps, ClaimCase(w, t)
        PROVE  store'[x] = store[x]
    <3>1. token[w].case # x
      BY <1>1, <2>2, <2>4 DEF ClaimCase, Claimable
    <3> QED
      BY <2>1, <2>4, <3>1 DEF ClaimCase
  <2>5. ASSUME NEW c \in Cases, NEW t \in Timestamps, ReapExpired(c, t)
        PROVE  store'[x] = store[x]
    BY <2>1, <2>2, <2>5 DEF ReapExpired
  <2>6. ASSUME NEW w \in Workers, NEW t \in Timestamps,
               OwnsLease(store[token[w].case], token[w].id, token[w].owner, t)
        PROVE  token[w].case # x
    BY <1>1, <2>6, OwnerRuns
  <2>7. ASSUME NEW w \in Workers, NEW t \in Timestamps, RenewLease(w, t)
        PROVE  store'[x] = store[x]
    BY <2>1, <2>6, <2>7 DEF RenewLease
  <2>8. ASSUME NEW w \in Workers, NEW t \in Timestamps, NEW d \in Digests, SucceedCase(w, d, t)
        PROVE  store'[x] = store[x]
    BY <2>1, <2>6, <2>8 DEF SucceedCase
  <2>9. ASSUME NEW w \in Workers, NEW t \in Timestamps, NEW code \in FailCodes,
               NEW retryable \in BOOLEAN, FailCase(w, code, retryable, t)
        PROVE  store'[x] = store[x]
    BY <2>1, <2>6, <2>9 DEF FailCase
  <2>10. ASSUME NEW w \in Workers, NEW t \in Timestamps, WorkerStep(w, t)
         PROVE  store'[x] = store[x]
    BY <2>4, <2>7, <2>8, <2>9, <2>10 DEF WorkerStep, ClaimAgain
  <2>11. CASE \/ \E c \in Cases, d \in Digests : PublishRun(c, d)
              \/ Tick \/ UNCHANGED vars
    BY <2>11 DEF PublishRun, Tick, vars
  <2> QED
    BY <1>1, <2>3, <2>5, <2>10, <2>11 DEF Next
<1>2. IInv /\ [Next]_vars
        => [\A c \in Cases : store[c].state = "succeeded" => store'[c] = store[c]]_vars
  BY <1>1
<1> QED
  BY <1>2, Invariant, PTL DEF Spec, SuccessIsImmutable

-----------------------------------------------------------------------------
(* The evidence of a case only grows.                                      *)

Grows(s, n) ==
    /\ n.updated_at >= s.updated_at
    /\ n.attempt >= s.attempt
    /\ Len(n.failure_codes) >= Len(s.failure_codes)
    /\ SubSeq(n.failure_codes, 1, Len(s.failure_codes)) = s.failure_codes

\* A sequence is its own prefix, and a prefix of what is appended to it.
LEMMA Prefixes ==
    ASSUME NEW f \in Seq(Codes), NEW code \in Codes
    PROVE  /\ SubSeq(f, 1, Len(f)) = f
           /\ SubSeq(Append(f, code), 1, Len(f)) = f
  OBVIOUS

LEMMA SameGrows ==
    ASSUME NEW s \in CaseState
    PROVE  Grows(s, s)
<1>1. s.failure_codes \in Seq(Codes) /\ LeaseExpired \in Codes
  BY DEF CaseState, Codes
<1>2. SubSeq(s.failure_codes, 1, Len(s.failure_codes)) = s.failure_codes
  BY <1>1, Prefixes
<1> QED
  BY <1>2 DEF Grows, CaseState

LEMMA FailedGrows ==
    ASSUME NEW s \in CaseState, NEW code \in Codes, NEW next, NEW t \in Nat, t >= s.updated_at
    PROVE  Grows(s, Failed(s, code, next, t))
<1> DEFINE n == Failed(s, code, next, t)
<1>1. /\ n.attempt = s.attempt /\ n.updated_at = t
      /\ n.failure_codes = Append(s.failure_codes, code)
  BY DEF Failed, CaseState
<1>2. s.failure_codes \in Seq(Codes) /\ s.attempt \in Nat /\ s.updated_at \in Nat
  BY AttemptsAssumption DEF CaseState
<1>3. SubSeq(Append(s.failure_codes, code), 1, Len(s.failure_codes)) = s.failure_codes
  BY <1>2, Prefixes
<1> QED
  BY <1>1, <1>2, <1>3 DEF Grows

LEMMA AfterExpiryGrows ==
    ASSUME NEW s, CaseInv(s), NEW t \in Nat
    PROVE  Grows(s, AfterExpiry(s, t))
<1>1. s \in CaseState
  BY DEF CaseInv
<1>2. CASE s.state = "running" /\ s.lease_expires_at <= t
  <2>1. s.lease_expires_at \in Nat /\ s.updated_at \in Nat /\ s.lease_expires_at > s.updated_at
    BY <1>2 DEF CaseInv, Coherent, CaseState
  <2>2. t >= s.updated_at
    BY <1>2, <2>1
  <2> QED
    BY <1>1, <1>2, <2>2, FailedGrows DEF AfterExpiry, Codes
<1>3. CASE ~(s.state = "running" /\ s.lease_expires_at <= t)
  BY <1>1, <1>3, SameGrows DEF AfterExpiry
<1> QED
  BY <1>2, <1>3

\* What keeps the history, at a later time and with no fewer attempts, grows as well.
LEMMA KeptGrows ==
    ASSUME NEW s \in CaseState, NEW m \in CaseState, NEW n,
           Grows(s, m), n.failure_codes = m.failure_codes,
           n.updated_at \in Nat, n.updated_at >= m.updated_at,
           n.attempt \in Nat, n.attempt >= m.attempt
    PROVE  Grows(s, n)
  BY AttemptsAssumption DEF Grows, CaseState

\* No operation rewrites or drops the evidence of a case, whatever clocks callers have.
THEOREM GrowingEvidence == Spec => EvidenceGrows
<1>1. ASSUME IInv, [Next]_vars, NEW x \in Cases
      PROVE  Grows(store[x], store'[x])
  <2> USE <1>1 DEF IInv, TypeOK
  <2>1. \A c \in Cases : store[c] \in CaseState /\ CaseInv(store[c]) /\ Grows(store[c], store[c])
    BY SameGrows
  <2>2. ASSUME NEW c \in Cases, NEW n, store' = [store EXCEPT ![c] = n], Grows(store[c], n)
        PROVE  Grows(store[x], store'[x])
    BY <2>1, <2>2
  <2>3. ASSUME NEW c \in Cases, NEW t \in Timestamps, InitializeCase(c, t)
        PROVE  Grows(store[x], store'[x])
    <3> DEFINE n == [NoCase EXCEPT !.state = "pending", !.updated_at = t]
    <3>1. t \in Nat /\ store[c] = NoCase /\ t >= NoCase.updated_at
      BY <2>1, <2>3 DEF Timestamps, InitializeCase, CaseInv, NoCase
    <3>2. NoCase \in CaseState
      BY NoCaseInv DEF CaseInv
    <3>3. /\ n.failure_codes = NoCase.failure_codes /\ n.updated_at = t
          /\ n.attempt = NoCase.attempt /\ NoCase.attempt \in Nat
      BY <3>2, AttemptsAssumption DEF CaseState
    <3>4. store' = [store EXCEPT ![c] = n]
      BY <2>3 DEF InitializeCase
    <3> HIDE DEF n
    <3>5. n.attempt >= NoCase.attempt
      BY <3>3
    <3>6. Grows(NoCase, n)
      BY <2>1, <3>1, <3>2, <3>3, <3>5, KeptGrows
    <3> QED
      BY <2>2, <3>1, <3>4, <3>6
  <2>4. ASSUME NEW w \in Workers, NEW t \in Timestamps, ClaimCase(w, t)
        PROVE  Grows(store[x], store'[x])
    <3> DEFINE c == token[w].case
               s == AfterExpiry(store[c], t)
               n == Claimed(s, token[w].id, token[w].owner, t)
    <3>1. t \in Nat /\ c \in Cases
      BY DEF Timestamps
    <3>2. CaseInv(s) /\ s \in CaseState /\ Grows(store[c], s) /\ t >= s.updated_at
      BY <2>1, <2>4, <3>1, AfterExpiryInv, AfterExpiryGrows DEF CaseInv, ClaimCase, Claimable
    <3>3. n.failure_codes = s.failure_codes /\ n.updated_at = t /\ n.attempt = s.attempt + 1
      BY <3>2 DEF Claimed, CaseState
    <3>4. s.attempt \in Nat
      BY <3>2, AttemptsAssumption DEF CaseState
    <3>5. Grows(store[c], n)
      BY <2>1, <3>1, <3>2, <3>3, <3>4, KeptGrows
    <3> QED
      BY <2>2, <2>4, <3>1, <3>5 DEF ClaimCase
  <2>5. ASSUME NEW c \in Cases, NEW t \in Timestamps, ReapExpired(c, t)
        PROVE  Grows(store[x], store'[x])
    <3>1. t \in Nat
      BY DEF Timestamps
    <3> QED
      BY <2>1, <2>2, <2>5, <3>1, AfterExpiryGrows DEF ReapExpired
  <2>6. ASSUME NEW w \in Workers, NEW t \in Timestamps, RenewLease(w, t)
        PROVE  Grows(store[x], store'[x])
    <3> DEFINE c == token[w].case
               n == [store[c] EXCEPT !.lease_expires_at = t + LeaseDuration, !.updated_at = t]
    <3>1. t \in Nat /\ c \in Cases /\ t >= store[c].updated_at
      BY <2>6 DEF Timestamps, RenewLease, OwnsLease
    <3>2. n.failure_codes = store[c].failure_codes /\ n.updated_at = t /\ n.attempt = store[c].attempt
      BY <2>1, <3>1 DEF CaseState
    <3>3. store[c].attempt \in Nat
      BY <2>1, <3>1, AttemptsAssumption DEF CaseState
    <3>4. store' = [store EXCEPT ![c] = n]
      BY <2>6, <3>1 DEF RenewLease
    <3> HIDE DEF n
    <3>5. Grows(store[c], n)
      BY <2>1, <3>1, <3>2, <3>3, KeptGrows
    <3> QED
      BY <2>2, <3>1, <3>4, <3>5
  <2>7. ASSUME NEW w \in Workers, NEW t \in Timestamps, NEW d \in Digests, SucceedCase(w, d, t)
        PROVE  Grows(store[x], store'[x])
    <3> DEFINE c == token[w].case
               n == Succeeded(store[c], d, t)
    <3>1. t \in Nat /\ c \in Cases /\ t >= store[c].updated_at
      BY <2>7 DEF Timestamps, SucceedCase, OwnsLease
    <3>2. n.failure_codes = store[c].failure_codes /\ n.updated_at = t /\ n.attempt = store[c].attempt
      BY <2>1, <3>1 DEF Succeeded, CaseState
    <3>3. store[c].attempt \in Nat
      BY <2>1, <3>1, AttemptsAssumption DEF CaseState
    <3>4. Grows(store[c], n)
      BY <2>1, <3>1, <3>2, <3>3, KeptGrows
    <3> QED
      BY <2>2, <2>7, <3>1, <3>4 DEF SucceedCase
  <2>8. ASSUME NEW w \in Workers, NEW t \in Timestamps, NEW code \in FailCodes,
               NEW retryable \in BOOLEAN, FailCase(w, code, retryable, t)
        PROVE  Grows(store[x], store'[x])
    <3> DEFINE c == token[w].case
               n == Failed(store[c], code, AfterFailure(store[c], code, retryable), t)
    <3>1. t \in Nat /\ c \in Cases /\ t >= store[c].updated_at /\ code \in Codes
      BY <2>8 DEF Timestamps, FailCase, OwnsLease, Codes
    <3>2. Grows(store[c], n)
      BY <2>1, <3>1, FailedGrows
    <3> QED
      BY <2>2, <2>8, <3>1, <3>2 DEF FailCase
  <2> QED
    BY <2>1, <2>3, <2>4, <2>5, <2>6, <2>7, <2>8
    DEF Next, WorkerStep, ClaimAgain, PublishRun, Tick, vars
<1>2. IInv /\ [Next]_vars
        => [\A c \in Cases :
              LET s == store[c]
                  n == store'[c]
              IN
              /\ n.updated_at >= s.updated_at
              /\ n.attempt >= s.attempt
              /\ Len(n.failure_codes) >= Len(s.failure_codes)
              /\ SubSeq(n.failure_codes, 1, Len(s.failure_codes)) = s.failure_codes]_vars
  BY <1>1 DEF Grows
<1> QED
  BY <1>2, Invariant, PTL DEF Spec, EvidenceGrows

-----------------------------------------------------------------------------
(* The store implements the ledger of attempts.                            *)

\* Open and the ledger's variables, of one case.
LEMMA OpenOf ==
    ASSUME IInv, NEW c \in Cases
    PROVE  /\ store[c].state = "running" => Ledger!Open(c)
           /\ store[c].state = "pending" => ~Ledger!Open(c)
<1>1. CaseInv(store[c])
  BY DEF IInv
<1>2. CASE store[c].state = "running"
  BY <1>1, <1>2, OutcomesOf DEF Ledger!Open
<1>3. CASE store[c].state = "pending"
  <2> DEFINE f == store[c].failure_codes
  <2>1. f \in Seq(Codes) /\ Outcomes(store[c]) = f
    BY <1>1, <1>3, OutcomesOf
  <2>2. Len(f) > 0 => f[Len(f)] # "open"
    BY <2>1, OutcomesAssumption
  <2> QED
    BY <1>3, <2>1, <2>2 DEF Ledger!Open
<1> QED
  BY <1>2, <1>3

\* The ledger that the store shows.
Shown == [c \in Cases |-> Outcomes(store[c])]
Ended == [c \in Cases |-> Terminal(store[c])]

LEMMA ShownReplaced ==
    ASSUME IInv, NEW c \in Cases, NEW n, store' = [store EXCEPT ![c] = n]
    PROVE  /\ Shown' = [Shown EXCEPT ![c] = Outcomes(n)]
           /\ Ended' = [Ended EXCEPT ![c] = Terminal(n)]
<1>1. \A x \in Cases : store'[x] = IF x = c THEN n ELSE store[x]
  BY DEF IInv, TypeOK
<1>2. \A x \in Cases : /\ Outcomes(store[x])' = IF x = c THEN Outcomes(n) ELSE Outcomes(store[x])
                       /\ Terminal(store[x])' = IF x = c THEN Terminal(n) ELSE Terminal(store[x])
  BY <1>1 DEF Outcomes, Terminal
<1>3. Shown' = [Shown EXCEPT ![c] = Outcomes(n)]
  BY <1>2 DEF Shown
<1>4. Ended' = [Ended EXCEPT ![c] = Terminal(n)]
  BY <1>2, Zenon DEF Ended
<1> QED
  BY <1>3, <1>4

\* Marking a case as it is already marked.
LEMMA EndedKept ==
    ASSUME NEW c \in Cases, NEW b, Ended[c] = b, Ended' = [Ended EXCEPT ![c] = b]
    PROVE  Ended' = Ended
<1>1. Ended = [x \in Cases |-> Ended[x]]
  BY Zenon DEF Ended
<1> QED
  BY <1>1, Zenon

\* Every operation of the store is a step of the ledger or leaves it as it is.
LEMMA LedgerStep ==
    ASSUME IInv, [Next]_vars
    PROVE  [Ledger!Next]_(Ledger!vars)
<1> USE DEF IInv, TypeOK
<1>1. \A c \in Cases : CaseInv(store[c]) /\ store[c] \in CaseState
  OBVIOUS
<1>2. ASSUME Shown' = Shown, Ended' = Ended
      PROVE  UNCHANGED Ledger!vars
  BY <1>2 DEF Shown, Ended, Ledger!vars
<1>3. ASSUME UNCHANGED store
      PROVE  UNCHANGED Ledger!vars
  BY <1>2, <1>3 DEF Shown, Ended
<1>4. ASSUME NEW c \in Cases, NEW n, store' = [store EXCEPT ![c] = n],
             Outcomes(n) = Outcomes(store[c]), Terminal(n) = Terminal(store[c])
      PROVE  UNCHANGED Ledger!vars
  <2>1. Shown' = Shown /\ Ended' = Ended
    BY <1>4, ShownReplaced DEF Shown, Ended
  <2> QED
    BY <1>2, <2>1
<1>5. ASSUME NEW c \in Cases, NEW n, NEW outcome,
             store' = [store EXCEPT ![c] = n], store[c].state = "running",
             Outcomes(n) = Append(store[c].failure_codes, outcome)
      PROVE  Ledger!Close(c, outcome)
  <2>1. Ledger!Open(c)
    BY <1>5, OpenOf
  <2>2. Outcomes(store[c]) = Append(store[c].failure_codes, "open")
        /\ store[c].failure_codes \in Seq(Codes)
    BY <1>1, <1>5, OutcomesOf
  <2>3. Outcomes(n) = [Outcomes(store[c]) EXCEPT ![Len(Outcomes(store[c]))] = outcome]
    BY <1>5, <2>2, ClosedLast
  <2>4. Shown' = [Shown EXCEPT ![c][Len(Shown[c])] = outcome]
    BY <1>5, <2>3, ShownReplaced DEF Shown
  <2> QED
    BY <2>1, <2>4 DEF Ledger!Close, Shown
<1>6. ASSUME NEW c \in Cases, NEW t \in Timestamps, InitializeCase(c, t)
      PROVE  UNCHANGED Ledger!vars
  <2> DEFINE n == [NoCase EXCEPT !.state = "pending", !.updated_at = t]
  <2>1. store[c] = NoCase
    BY <1>1, <1>6 DEF InitializeCase, CaseInv
  <2>2. /\ n.state = "pending" /\ n.failure_codes = NoCase.failure_codes
        /\ NoCase.state = "absent"
    BY DEF NoCase
  <2>3. store' = [store EXCEPT ![c] = n]
    BY <1>6 DEF InitializeCase
  <2> HIDE DEF n
  <2>4. Outcomes(n) = Outcomes(store[c]) /\ Terminal(n) = Terminal(store[c])
    BY <2>1, <2>2 DEF Outcomes, Terminal
  <2> QED
    BY <1>4, <2>3, <2>4
<1>7. ASSUME NEW w \in Workers, NEW t \in Timestamps, RenewLease(w, t)
      PROVE  UNCHANGED Ledger!vars
  <2> DEFINE c == token[w].case
             n == [store[c] EXCEPT !.lease_expires_at = t + LeaseDuration, !.updated_at = t]
  <2>1. c \in Cases /\ store' = [store EXCEPT ![c] = n]
    BY <1>1, <1>7 DEF RenewLease
  <2>2. n.state = store[c].state /\ n.failure_codes = store[c].failure_codes
    BY <1>1, <2>1 DEF CaseState
  <2> HIDE DEF n
  <2>3. Outcomes(n) = Outcomes(store[c]) /\ Terminal(n) = Terminal(store[c])
    BY <2>2 DEF Outcomes, Terminal
  <2> QED
    BY <1>4, <2>1, <2>3
<1>8. ASSUME NEW w \in Workers, NEW t \in Timestamps, NEW d \in Digests, SucceedCase(w, d, t)
      PROVE  Ledger!Next
  <2> DEFINE c == token[w].case
             n == Succeeded(store[c], d, t)
  <2>1. c \in Cases /\ store[c].state = "running" /\ store' = [store EXCEPT ![c] = n]
    BY <1>8, OwnerRuns DEF SucceedCase
  <2>2. n.state = "succeeded" /\ n.failure_codes = store[c].failure_codes
    BY <1>1, <2>1 DEF Succeeded, CaseState
  <2> HIDE DEF n
  <2>3. Outcomes(n) = Append(store[c].failure_codes, "success") /\ Terminal(n) = TRUE
    BY <2>2 DEF Outcomes, Terminal
  <2>4. Ledger!Close(c, "success")
    BY <1>5, <2>1, <2>3
  <2>5. Ended' = [Ended EXCEPT ![c] = TRUE]
    <3>1. Ended' = [Ended EXCEPT ![c] = Terminal(n)]
      BY <2>1, ShownReplaced, Zenon
    <3> QED
      BY <2>3, <3>1, Zenon
  <2>6. Ledger!Succeed(c)
    BY <2>4, <2>5 DEF Ledger!Succeed, Ended
  <2> QED
    BY <2>1, <2>6 DEF Ledger!Next
<1>9. ASSUME NEW w \in Workers, NEW t \in Timestamps, NEW code \in FailCodes,
             NEW retryable \in BOOLEAN, FailCase(w, code, retryable, t)
      PROVE  Ledger!Next
  <2> DEFINE c == token[w].case
             next == AfterFailure(store[c], code, retryable)
             n == Failed(store[c], code, next, t)
  <2>1. c \in Cases /\ store[c].state = "running" /\ store' = [store EXCEPT ![c] = n]
    BY <1>9, OwnerRuns DEF FailCase
  <2>2. n.state = next /\ n.failure_codes = Append(store[c].failure_codes, code)
    BY <1>1, <2>1 DEF Failed, CaseState
  <2>3. next \in {"pending", "failed"}
        /\ (code \notin RetryCodes \/ store[c].attempt >= MaxAttempts => next = "failed")
    BY <1>1, <2>1, AttemptsAssumption DEF AfterFailure, CaseState
  <2> HIDE DEF n, next
  <2>4. Outcomes(n) = Append(store[c].failure_codes, code) /\ Terminal(n) = (next = "failed")
    BY <2>2, <2>3 DEF Outcomes, Terminal
  <2>5. Ledger!Close(c, code)
    BY <1>5, <2>1, <2>4
  <2>6. Ended' = [Ended EXCEPT ![c] = (next = "failed")]
    <3>1. Ended' = [Ended EXCEPT ![c] = Terminal(n)]
      BY <2>1, ShownReplaced, Zenon
    <3> QED
      BY <2>4, <3>1, Zenon
  <2>7. Len(Shown[c]) = store[c].attempt
    BY <1>1, <2>1, OutcomesOf DEF Shown
  <2>8. code \notin RetryCodes \/ Len(Shown[c]) = MaxAttempts => (next = "failed")
    BY <2>3, <2>7, AttemptsAssumption
  <2>9. Ledger!Fail(c, code)
    BY <2>5, <2>6, <2>8 DEF Ledger!Fail, Ended, Shown
  <2> QED
    BY <2>1, <2>9 DEF Ledger!Next
<1>10. ASSUME NEW c \in Cases, NEW t \in Timestamps, ReapExpired(c, t)
       PROVE  Ledger!Next
  <2> DEFINE next == IF store[c].attempt >= MaxAttempts THEN "failed" ELSE "pending"
             n == Failed(store[c], LeaseExpired, next, t)
  <2>1. store[c].state = "running" /\ store' = [store EXCEPT ![c] = n]
    BY <1>10 DEF ReapExpired, AfterExpiry
  <2>2. n.state = next /\ n.failure_codes = Append(store[c].failure_codes, LeaseExpired)
    BY <1>1, <2>1 DEF Failed, CaseState
  <2>3. store[c].attempt \in 0..MaxAttempts /\ Len(Shown[c]) = store[c].attempt
    BY <1>1, <2>1, OutcomesOf DEF Shown, CaseState
  <2>4. (next = "failed") = (Len(Shown[c]) = MaxAttempts)
    BY <2>3, AttemptsAssumption
  <2>5. next \in {"pending", "failed"}
    OBVIOUS
  <2> HIDE DEF n, next
  <2>6. Outcomes(n) = Append(store[c].failure_codes, LeaseExpired) /\ Terminal(n) = (next = "failed")
    BY <2>2, <2>5 DEF Outcomes, Terminal
  <2>7. Ledger!Close(c, LeaseExpired)
    BY <1>5, <2>1, <2>6
  <2>8. Ended' = [Ended EXCEPT ![c] = (Len(Shown[c]) = MaxAttempts)]
    <3>1. Terminal(n) = (Len(Shown[c]) = MaxAttempts)
      BY <2>4, <2>6, Zenon
    <3> QED
      BY <2>1, <3>1, ShownReplaced, Zenon
  <2>9. Ledger!Expire(c)
    BY <2>7, <2>8 DEF Ledger!Expire, Ended, Shown
  <2> QED
    BY <2>9 DEF Ledger!Next
<1>11. ASSUME NEW w \in Workers, NEW t \in Timestamps, ClaimCase(w, t)
       PROVE  Ledger!Next
  <2> DEFINE c == token[w].case
             s == AfterExpiry(store[c], t)
             n == Claimed(s, token[w].id, token[w].owner, t)
  <2>1. c \in Cases /\ t \in Nat /\ s.state = "pending" /\ store' = [store EXCEPT ![c] = n]
    BY <1>11 DEF ClaimCase, Claimable, Timestamps
  <2>2. CaseInv(s) /\ s \in CaseState
    BY <1>1, <2>1, AfterExpiryInv DEF CaseInv
  <2>3. n.state = "running" /\ n.failure_codes = s.failure_codes
    BY <2>2 DEF Claimed, CaseState
  <2> HIDE DEF n
  <2>4. Outcomes(n) = Append(s.failure_codes, "open") /\ Terminal(n) = FALSE
    BY <2>3 DEF Outcomes, Terminal
  <2>5. Shown' = [Shown EXCEPT ![c] = Append(s.failure_codes, "open")]
        /\ Ended' = [Ended EXCEPT ![c] = FALSE]
    <3> HIDE DEF s
    <3>1. /\ Shown' = [Shown EXCEPT ![c] = Outcomes(n)]
          /\ Ended' = [Ended EXCEPT ![c] = Terminal(n)]
      BY <2>1, ShownReplaced, Zenon
    <3> QED
      BY <2>4, <3>1, Zenon
  <2>6. CASE store[c].state = "running" /\ store[c].lease_expires_at <= t
    <3>1. store[c].attempt < MaxAttempts /\ s.failure_codes = Append(store[c].failure_codes, LeaseExpired)
      BY <1>1, <2>1, <2>6, AttemptsAssumption DEF AfterExpiry, Failed, CaseState
    <3>2. Len(Shown[c]) = store[c].attempt /\ Shown[c] = Append(store[c].failure_codes, "open")
          /\ store[c].failure_codes \in Seq(Codes)
      BY <1>1, <2>1, <2>6, OutcomesOf DEF Shown
    <3>3. s.failure_codes = [Shown[c] EXCEPT ![Len(Shown[c])] = LeaseExpired]
      BY <3>1, <3>2, ClosedLast
    <3>4. Ended[c] = FALSE /\ Ended' = Ended
      <4>1. Terminal(store[c]) = FALSE
        BY <2>6 DEF Terminal
      <4>2. Ended[c] = FALSE
        BY <2>1, <4>1, Zenon DEF Ended
      <4> QED
        BY <2>1, <2>5, <4>2, EndedKept, Zenon
    <3>5. Ledger!Open(c)
      BY <2>1, <2>6, OpenOf
    <3>6. Shown' = [Shown EXCEPT ![c] = Append([@ EXCEPT ![Len(@)] = LeaseExpired], "open")]
      BY <2>1, <2>5, <3>3 DEF Shown
    <3>7. Ledger!Supersede(c)
      BY <3>1, <3>2, <3>4, <3>5, <3>6 DEF Ledger!Supersede, Shown, Ended
    <3> QED
      BY <2>1, <3>7 DEF Ledger!Next
  <2>7. CASE ~(store[c].state = "running" /\ store[c].lease_expires_at <= t)
    <3>1. s = store[c]
      BY <2>7 DEF AfterExpiry
    <3>2. store[c].attempt < MaxAttempts /\ Len(Shown[c]) = store[c].attempt
          /\ Shown[c] = store[c].failure_codes
      BY <1>1, <2>1, <2>2, <3>1, OutcomesOf DEF Shown, CaseInv, Coherent
    <3>3. Ended[c] = FALSE /\ Ended' = Ended
      <4>1. Terminal(store[c]) = FALSE
        BY <2>1, <3>1 DEF Terminal
      <4>2. Ended[c] = FALSE
        BY <2>1, <4>1, Zenon DEF Ended
      <4> QED
        BY <2>1, <2>5, <4>2, EndedKept, Zenon
    <3>4. ~Ledger!Open(c)
      BY <2>1, <3>1, OpenOf
    <3>5. Shown' = [Shown EXCEPT ![c] = Append(@, "open")]
      BY <2>1, <2>5, <3>1, <3>2 DEF Shown
    <3>6. Ledger!Start(c)
      BY <3>2, <3>3, <3>4, <3>5 DEF Ledger!Start, Shown, Ended
    <3> QED
      BY <2>1, <3>6 DEF Ledger!Next
  <2> QED
    BY <2>6, <2>7
<1> QED
  BY <1>3, <1>6, <1>7, <1>8, <1>9, <1>10, <1>11
  DEF Next, WorkerStep, ClaimAgain, PublishRun, Tick, vars

\* The store of leased case states implements the ledger of attempts.
THEOREM Refinement == Spec => ImplementsLedger
<1>1. Init => Ledger!Init
  <2> SUFFICES ASSUME Init PROVE Ledger!Init
    OBVIOUS
  <2>1. Outcomes(NoCase) = <<>> /\ Terminal(NoCase) = FALSE
    BY DEF Outcomes, Terminal, NoCase
  <2>2. \A c \in Cases : store[c] = NoCase
    BY DEF Init
  <2> QED
    BY <2>1, <2>2 DEF Ledger!Init
<1>2. IInv /\ [Next]_vars => [Ledger!Next]_(Ledger!vars)
  BY LedgerStep
<1> QED
  BY <1>1, <1>2, Invariant, PTL DEF Spec, ImplementsLedger, Ledger!Spec

-----------------------------------------------------------------------------
(* Fencing, for callers that have fresh tokens.                            *)

\* A caller whose token is the one of the case was granted the current attempt.
Fence ==
    \A w \in Workers :
        store[token[w].case].attempt_id = token[w].id => held[w] = store[token[w].case].attempt

FInv == IInv /\ FreshTokens /\ Fence

\* An operation that keeps the token and the number of the attempt keeps the fence.
LEMMA FenceKept ==
    ASSUME IInv, Fence, UNCHANGED <<token, held>>, NEW c \in Cases, NEW n,
           store' = [store EXCEPT ![c] = n],
           n.attempt_id = store[c].attempt_id, n.attempt = store[c].attempt
    PROVE  Fence'
<1>1. \A x \in Cases : store'[x] = IF x = c THEN n ELSE store[x]
  BY DEF IInv, TypeOK
<1>2. \A x \in Cases : /\ store'[x].attempt_id = store[x].attempt_id
                       /\ store'[x].attempt = store[x].attempt
  BY <1>1
<1>3. \A w \in Workers : token[w].case \in Cases
  BY DEF IInv, TypeOK
<1> QED
  BY <1>2, <1>3 DEF Fence

LEMMA NextFence ==
    ASSUME FInv, [Next]_vars
    PROVE  Fence' /\ FreshTokens'
<1> USE DEF FInv
<1>1. FreshTokens'
  BY DEF Next, WorkerStep, InitializeCase, ClaimAgain, ClaimCase, ReapExpired, RenewLease,
         SucceedCase, FailCase, PublishRun, Tick, vars, FreshTokens
<1>2. \A c \in Cases : store[c] \in CaseState /\ CaseInv(store[c])
  BY DEF IInv, TypeOK
<1>3. \A w \in Workers : token[w].case \in Cases /\ token[w].id \in AttemptIds
  BY DEF IInv, TypeOK
<1>4. ASSUME UNCHANGED <<store, token, held>>
      PROVE  Fence'
  BY <1>4 DEF Fence
<1>5. ASSUME NEW c \in Cases, NEW t \in Timestamps, InitializeCase(c, t)
      PROVE  Fence'
  <2> DEFINE n == [NoCase EXCEPT !.state = "pending", !.updated_at = t]
  <2>1. store[c] = NoCase /\ store' = [store EXCEPT ![c] = n] /\ UNCHANGED <<token, held>>
    BY <1>2, <1>5 DEF InitializeCase, CaseInv
  <2>2. n.attempt_id = NoCase.attempt_id /\ n.attempt = NoCase.attempt
    BY DEF NoCase
  <2> HIDE DEF n
  <2> QED
    BY <2>1, <2>2, FenceKept
<1>6. ASSUME NEW w \in Workers, NEW t \in Timestamps, ClaimAgain(w, t)
      PROVE  Fence'
  BY <1>6 DEF ClaimAgain, Fence, IInv, TypeOK
<1>7. ASSUME NEW w \in Workers, NEW t \in Timestamps, ClaimCase(w, t)
      PROVE  Fence'
  <2> DEFINE c == token[w].case
             s == AfterExpiry(store[c], t)
             n == Claimed(s, token[w].id, token[w].owner, t)
  <2>1. c \in Cases /\ t \in Nat
    BY <1>3 DEF Timestamps, IInv, TypeOK
  <2>2. s \in CaseState
    BY <1>2, <2>1, AfterExpiryInv DEF CaseInv
  <2>3. n.attempt_id = token[w].id /\ n.attempt = s.attempt + 1
    BY <2>2 DEF Claimed, CaseState
  <2>4. /\ store' = [store EXCEPT ![c] = n] /\ token' = token
        /\ held' = [held EXCEPT ![w] = s.attempt + 1]
    BY <1>7 DEF ClaimCase
  <2> HIDE DEF n, s
  <2>5. ASSUME NEW v \in Workers, store'[token'[v].case].attempt_id = token'[v].id
        PROVE  held'[v] = store'[token'[v].case].attempt
    <3>1. CASE v = w
      BY <2>1, <2>3, <2>4, <3>1 DEF IInv, TypeOK
    <3>2. CASE v # w /\ token[v].case = c
      <4>1. store'[c] = n /\ token[v].id = token[w].id
        BY <2>1, <2>3, <2>4, <2>5, <3>2 DEF IInv, TypeOK
      <4> QED
        BY <3>2, <4>1 DEF FreshTokens
    <3>3. CASE v # w /\ token[v].case # c
      <4>1. store'[token[v].case] = store[token[v].case] /\ held'[v] = held[v]
        BY <1>3, <2>1, <2>4, <3>3 DEF IInv, TypeOK
      <4> QED
        BY <2>4, <2>5, <4>1 DEF Fence
    <3> QED
      BY <3>1, <3>2, <3>3
  <2> QED
    BY <2>5 DEF Fence
<1>8. ASSUME NEW c \in Cases, NEW t \in Timestamps, ReapExpired(c, t)
      PROVE  Fence'
  <2> DEFINE n == AfterExpiry(store[c], t)
  <2>1. n.attempt_id = store[c].attempt_id /\ n.attempt = store[c].attempt
    BY <1>2 DEF AfterExpiry, Failed, CaseState
  <2> QED
    BY <1>8, <2>1, FenceKept DEF ReapExpired
<1>9. ASSUME NEW w \in Workers, NEW t \in Timestamps, RenewLease(w, t)
      PROVE  Fence'
  <2> DEFINE c == token[w].case
             n == [store[c] EXCEPT !.lease_expires_at = t + LeaseDuration, !.updated_at = t]
  <2>1. n.attempt_id = store[c].attempt_id /\ n.attempt = store[c].attempt
    BY <1>2, <1>3 DEF CaseState
  <2>2. c \in Cases /\ store' = [store EXCEPT ![c] = n] /\ UNCHANGED <<token, held>>
    BY <1>3, <1>9 DEF RenewLease, IInv, TypeOK
  <2> HIDE DEF n
  <2> QED
    BY <2>1, <2>2, FenceKept
<1>10. ASSUME NEW w \in Workers, NEW t \in Timestamps, NEW d \in Digests, SucceedCase(w, d, t)
       PROVE  Fence'
  <2> DEFINE c == token[w].case
             n == Succeeded(store[c], d, t)
  <2>1. n.attempt_id = store[c].attempt_id /\ n.attempt = store[c].attempt
    BY <1>2, <1>3 DEF Succeeded, CaseState
  <2> HIDE DEF n
  <2> QED
    BY <1>3, <1>10, <2>1, FenceKept DEF SucceedCase, n
<1>11. ASSUME NEW w \in Workers, NEW t \in Timestamps, NEW code \in FailCodes,
              NEW retryable \in BOOLEAN, FailCase(w, code, retryable, t)
       PROVE  Fence'
  <2> DEFINE c == token[w].case
             n == Failed(store[c], code, AfterFailure(store[c], code, retryable), t)
  <2>1. n.attempt_id = store[c].attempt_id /\ n.attempt = store[c].attempt
    BY <1>2, <1>3 DEF Failed, CaseState
  <2>2. c \in Cases /\ store' = [store EXCEPT ![c] = n] /\ UNCHANGED <<token, held>>
    BY <1>3, <1>11 DEF FailCase
  <2> HIDE DEF n
  <2> QED
    BY <2>1, <2>2, FenceKept
<1> QED
  BY <1>1, <1>4, <1>5, <1>6, <1>7, <1>8, <1>9, <1>10, <1>11
  DEF Next, WorkerStep, PublishRun, Tick, vars

\* With a fresh token per caller, a caller acts only on the attempt it was granted.
THEOREM FencedAttempts == FreshSpec => AttemptsAreFenced
<1>1. Init /\ FreshTokens => FInv
  <2> SUFFICES ASSUME Init, FreshTokens PROVE FInv
    OBVIOUS
  <2>1. IInv
    BY InitIInv
  <2>2. \A w \in Workers : store[token[w].case].attempt_id = None /\ token[w].id # None
    BY <2>1, NoneAssumption DEF Init, IInv, TypeOK, NoCase
  <2> QED
    BY <2>1, <2>2 DEF FInv, Fence
<1>2. FInv /\ [Next]_vars => FInv'
  BY NextIInv, NextFence DEF FInv
<1>3. FInv /\ [Next]_vars
        => [\A w \in Workers, t \in Timestamps :
              LET c == token[w].case IN
              (\/ RenewLease(w, t)
               \/ \E d \in Digests : SucceedCase(w, d, t)
               \/ \E code \in FailCodes, retryable \in BOOLEAN : FailCase(w, code, retryable, t))
                  => held[w] = store[c].attempt]_vars
  <2> SUFFICES ASSUME FInv, NEW w \in Workers, NEW t \in Timestamps,
                      OwnsLease(store[token[w].case], token[w].id, token[w].owner, t)
               PROVE  held[w] = store[token[w].case].attempt
    BY DEF RenewLease, SucceedCase, FailCase
  <2> QED
    BY DEF FInv, Fence, OwnsLease
<1> QED
  BY <1>1, <1>2, <1>3, PTL DEF FreshSpec, FreshInit, AttemptsAreFenced
=============================================================================
