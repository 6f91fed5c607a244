----------------------------- MODULE CaseRecord -----------------------------
(***************************************************************************)
(* The durable record of one sweep case and the transitions between its    *)
(* revisions, as functions of the record, the token presented and the time *)
(* t the operation carries: CaseState and the pure part of                 *)
(* LocalSweepStateStore in soufflerie/datagen/sweep_state.py.  SweepState  *)
(* puts them behind the case lock, Sweep on a shared volume.               *)
(*                                                                         *)
(* The revision counter is left out: it counts the writes.                 *)
(***************************************************************************)
EXTENDS Integers, Sequences

CONSTANTS
    AttemptIds,     \* attempt tokens
    Owners,         \* lease owners
    Digests,        \* run digests a solve can produce
    FailCodes,      \* stable codes of the errors a worker reports
    RetryCodes,     \* RETRYABLE_SWEEP_ERROR_CODES
    LeaseExpired,   \* LEASE_EXPIRED_CODE
    MaxAttempts,    \* MAX_SWEEP_ATTEMPTS
    LeaseDuration,  \* LEASE_DURATION, in ticks
    None            \* a field that holds no value

ASSUME AttemptsAssumption == MaxAttempts \in Nat \ {0}
ASSUME LeaseAssumption == LeaseDuration \in Nat \ {0}
ASSUME CodesAssumption == RetryCodes \subseteq FailCodes /\ LeaseExpired \notin FailCodes
ASSUME NoneAssumption ==
    /\ None \notin AttemptIds /\ None \notin Owners /\ None \notin Digests
    /\ None \notin FailCodes /\ None # LeaseExpired /\ None \notin Nat

Codes == FailCodes \cup {LeaseExpired}
\* The outcomes of the ledger that are not error codes.
ASSUME OutcomesAssumption == "open" \notin Codes /\ "success" \notin Codes

RunStates == {"pending", "running", "succeeded", "failed"}
CaseState ==
    [state: RunStates \cup {"absent"},
     attempt: 0..MaxAttempts,
     attempt_id: AttemptIds \cup {None},
     lease_owner: Owners \cup {None},
     lease_expires_at: Nat \cup {None},
     run_digest: Digests \cup {None},
     error_code: Codes \cup {None},
     failure_codes: Seq(Codes),
     updated_at: Nat]

-----------------------------------------------------------------------------
NoCase ==
    [state |-> "absent", attempt |-> 0, attempt_id |-> None, lease_owner |-> None,
     lease_expires_at |-> None, run_digest |-> None, error_code |-> None,
     failure_codes |-> <<>>, updated_at |-> 0]

Live(s, t) == s.state = "running" /\ s.lease_expires_at > t

\* Mutant: the attempt id of the lease is not compared.
OwnsLeaseOfOwner(s, id, owner, t) ==
    t >= s.updated_at /\ Live(s, t) /\ s.lease_owner = owner

\* _require_active_lease: the caller's token owns the lease, and it is live at t.
OwnsLease(s, id, owner, t) ==
    /\ t >= s.updated_at
    /\ Live(s, t)
    /\ s.attempt_id = id
    /\ s.lease_owner = owner

\* Mutant: the code is not added to the history.
FailedUnrecorded(s, code, next, t) ==
    [s EXCEPT !.state = next, !.lease_owner = None, !.lease_expires_at = None,
              !.run_digest = None, !.error_code = code, !.updated_at = t]

\* An attempt ends without a result: the lease goes, the code joins the history.
Failed(s, code, next, t) ==
    [s EXCEPT !.state = next, !.lease_owner = None, !.lease_expires_at = None,
              !.run_digest = None, !.error_code = code,
              !.failure_codes = Append(@, code), !.updated_at = t]

\* Mutant: an expired attempt is always retried.
AfterExpiryUncapped(s, t) ==
    IF s.state = "running" /\ s.lease_expires_at <= t
    THEN Failed(s, LeaseExpired, "pending", t)
    ELSE s

\* _expire_unlocked: what the store holds once a lease that is over at t is reaped.
AfterExpiry(s, t) ==
    IF s.state = "running" /\ s.lease_expires_at <= t
    THEN Failed(s, LeaseExpired, IF s.attempt >= MaxAttempts THEN "failed" ELSE "pending", t)
    ELSE s

\* Mutant: the caller's retry flag alone decides.
AfterFailureByFlag(s, code, retryable) ==
    IF retryable /\ s.attempt < MaxAttempts THEN "pending" ELSE "failed"

\* The state fail_case moves a running attempt to: an error is retried when its
\* instance says so, its class may be, and attempts remain.
AfterFailure(s, code, retryable) ==
    IF retryable /\ code \in RetryCodes /\ s.attempt < MaxAttempts
    THEN "pending"
    ELSE "failed"

\* Mutant: any case that does not run is granted.
ClaimableIdle(s, id, t) ==
    /\ s.state \notin {"running", "absent"}
    /\ s.attempt < MaxAttempts
    /\ s.attempt_id # id
    /\ t >= s.updated_at

\* Mutant: a timestamp older than the current revision is accepted.
ClaimableLate(s, id, t) ==
    s.state = "pending" /\ s.attempt_id # id

\* Work is granted when it is pending, to any token but the last one, at a time the
\* current revision does not postdate.
Claimable(s, id, t) ==
    /\ s.state = "pending"
    /\ s.attempt_id # id
    /\ t >= s.updated_at

\* Mutant: the error of the previous attempt is kept.
ClaimedWithError(s, id, owner, t) ==
    [s EXCEPT !.state = "running", !.attempt = @ + 1, !.attempt_id = id,
              !.lease_owner = owner, !.lease_expires_at = t + LeaseDuration,
              !.updated_at = t]

\* Mutant: a retry is not counted.
ClaimedUncounted(s, id, owner, t) ==
    [s EXCEPT !.state = "running", !.attempt = 1, !.attempt_id = id,
              !.lease_owner = owner, !.lease_expires_at = t + LeaseDuration,
              !.run_digest = None, !.error_code = None, !.updated_at = t]

Claimed(s, id, owner, t) ==
    [s EXCEPT !.state = "running", !.attempt = @ + 1, !.attempt_id = id,
              !.lease_owner = owner, !.lease_expires_at = t + LeaseDuration,
              !.run_digest = None, !.error_code = None, !.updated_at = t]

Succeeded(s, d, t) ==
    [s EXCEPT !.state = "succeeded", !.lease_owner = None, !.lease_expires_at = None,
              !.run_digest = d, !.error_code = None, !.updated_at = t]

\* The attempts of the record with their outcomes, and whether it is terminal: what
\* CaseLedger sees of it.
Outcomes(s) ==
    CASE s.state = "running" -> Append(s.failure_codes, "open")
      [] s.state = "succeeded" -> Append(s.failure_codes, "success")
      [] OTHER -> s.failure_codes

Terminal(s) == s.state \in {"succeeded", "failed"}

\* CaseState's validator, _state_is_coherent, accepts the record.
Coherent(s) ==
    /\ Len(s.failure_codes) <= s.attempt
    /\ s.failure_codes # <<>> /\ s.error_code # None
        => s.failure_codes[Len(s.failure_codes)] = s.error_code
    /\ s.state = "running" =>
        /\ s.attempt >= 1 /\ s.attempt_id # None
        /\ s.lease_owner # None /\ s.lease_expires_at # None
        /\ s.lease_expires_at > s.updated_at
        /\ s.run_digest = None /\ s.error_code = None
    /\ s.state # "running" => s.lease_owner = None /\ s.lease_expires_at = None
    /\ s.state = "pending" =>
        /\ s.run_digest = None
        /\ s.attempt < MaxAttempts
        /\ s.attempt = 0 <=> s.attempt_id = None
        /\ s.attempt = 0 <=> s.error_code = None
    /\ s.state = "succeeded" =>
        s.attempt >= 1 /\ s.attempt_id # None /\ s.run_digest # None /\ s.error_code = None
    /\ s.state = "failed" =>
        s.attempt >= 1 /\ s.attempt_id # None /\ s.run_digest = None /\ s.error_code # None
=============================================================================
