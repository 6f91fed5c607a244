----------------------------- MODULE SweepState -----------------------------
(***************************************************************************)
(* The durable case states of one sweep, and the operations callers may    *)
(* apply to them: soufflerie/datagen/sweep_state.py.                       *)
(*                                                                         *)
(* Every operation runs under a per-case file lock and ends in one atomic  *)
(* file replacement, so an operation on a case is one action.  A process   *)
(* that dies inside an operation leaves the old or the new revision, which *)
(* is a step not taken or a step taken; the one operation that writes      *)
(* twice, a claim that first expires a lease, leaves what ReapExpired      *)
(* leaves.                                                                 *)
(*                                                                         *)
(* A caller reads its clock before it waits for the lock, and callers run  *)
(* on different hosts, so an operation carries a timestamp t that may lag  *)
(* the time the lock is granted by up to MaxSkew.                          *)
(***************************************************************************)
EXTENDS CaseRecord

CONSTANTS
    Cases,          \* the expected cases of the frozen design
    Workers,        \* callers; each presents one token for one case
    MaxSkew,        \* the furthest a timestamp lags the clock
    MaxTime         \* bound of the explored clock

ASSUME TimeAssumption == MaxSkew \in Nat /\ MaxTime \in Nat

VARIABLES
    store,      \* store[c]: the last published revision of case c
    runs,       \* committed, verifiable run roots: pairs <<case, digest>>
    now,        \* the clock
    token,      \* token[w]: the case, attempt id and owner w presents
    held        \* observer: the attempt number the store last granted to w, 0 if none

vars == <<store, runs, now, token, held>>

TypeOK ==
    /\ store \in [Cases -> CaseState]
    /\ runs \subseteq Cases \X Digests
    /\ now \in Nat
    /\ token \in [Workers -> [case: Cases, id: AttemptIds, owner: Owners]]
    /\ held \in [Workers -> 0..MaxAttempts]

-----------------------------------------------------------------------------
\* Timestamps an operation that runs now may carry.
Timestamps == {t \in 0..now : t >= now - MaxSkew}

\* Mutant: a missing run root passes.
VerifiedAnyhow(c, d) == TRUE

\* LocalRunArtifactStore.verify_run finds a committed root for the case and digest.
Verified(c, d) == <<c, d>> \in runs

-----------------------------------------------------------------------------
Init ==
    /\ store = [c \in Cases |-> NoCase]
    /\ runs = {}
    /\ now = 0
    /\ token \in [Workers -> [case: Cases, id: AttemptIds, owner: Owners]]
    /\ held = [w \in Workers |-> 0]

InitializeCase(c, t) ==
    /\ store[c].state = "absent"
    /\ store' = [store EXCEPT ![c] = [NoCase EXCEPT !.state = "pending", !.updated_at = t]]
    /\ UNCHANGED <<runs, now, token, held>>

\* A live claim under the same token and owner is granted again and writes nothing.
ClaimAgain(w, t) ==
    LET s == store[token[w].case] IN
    /\ Live(s, t)
    /\ s.attempt_id = token[w].id
    /\ s.lease_owner = token[w].owner
    /\ held' = [held EXCEPT ![w] = s.attempt]
    /\ UNCHANGED <<store, runs, now, token>>

\* Pending work, or work whose lease has just been reaped, is granted to the token.
ClaimCase(w, t) ==
    LET c == token[w].case
        s == AfterExpiry(store[c], t)
    IN
    /\ Claimable(s, token[w].id, t)
    /\ store' = [store EXCEPT ![c] = Claimed(s, token[w].id, token[w].owner, t)]
    /\ held' = [held EXCEPT ![w] = s.attempt + 1]
    /\ UNCHANGED <<runs, now, token>>

\* reap_expired, and a claim that finds an expired lease and is then refused: the
\* attempts are exhausted, or the token is the one that has just expired.
ReapExpired(c, t) ==
    /\ AfterExpiry(store[c], t) # store[c]
    /\ store' = [store EXCEPT ![c] = AfterExpiry(@, t)]
    /\ UNCHANGED <<runs, now, token, held>>

RenewLease(w, t) ==
    LET c == token[w].case IN
    /\ OwnsLease(store[c], token[w].id, token[w].owner, t)
    /\ store[c].lease_expires_at # t + LeaseDuration
    /\ store' = [store EXCEPT ![c].lease_expires_at = t + LeaseDuration, ![c].updated_at = t]
    /\ UNCHANGED <<runs, now, token, held>>

\* A second report of a success verifies the run and writes nothing.
SucceedCase(w, d, t) ==
    LET c == token[w].case IN
    /\ OwnsLease(store[c], token[w].id, token[w].owner, t)
    /\ Verified(c, d)
    /\ store' = [store EXCEPT ![c] = Succeeded(@, d, t)]
    /\ UNCHANGED <<runs, now, token, held>>

\* A second report of a failure under the same token writes nothing or is refused.
FailCase(w, code, retryable, t) ==
    LET c == token[w].case
        s == store[c]
    IN
    /\ OwnsLease(s, token[w].id, token[w].owner, t)
    /\ store' = [store EXCEPT ![c] = Failed(s, code, AfterFailure(s, code, retryable), t)]
    /\ UNCHANGED <<runs, now, token, held>>

\* LocalRunArtifactStore.publish_run commits a run root; roots are never removed.
PublishRun(c, d) ==
    /\ <<c, d>> \notin runs
    /\ runs' = runs \cup {<<c, d>>}
    /\ UNCHANGED <<store, now, token, held>>

Tick ==
    /\ now < MaxTime
    /\ now' = now + 1
    /\ UNCHANGED <<store, runs, token, held>>

WorkerStep(w, t) ==
    \/ ClaimAgain(w, t)
    \/ ClaimCase(w, t)
    \/ RenewLease(w, t)
    \/ \E d \in Digests : SucceedCase(w, d, t)
    \/ \E code \in FailCodes, retryable \in BOOLEAN : FailCase(w, code, retryable, t)

Next ==
    \/ \E t \in Timestamps, w \in Workers : WorkerStep(w, t)
    \/ \E t \in Timestamps, c \in Cases : InitializeCase(c, t) \/ ReapExpired(c, t)
    \/ \E c \in Cases, d \in Digests : PublishRun(c, d)
    \/ Tick

Spec == Init /\ [][Next]_vars

\* The design asks the orchestrator for a fresh token per attempt: no two callers
\* present the same one for a case.
FreshTokens ==
    \A v, w \in Workers :
        v # w /\ token[v].case = token[w].case => token[v].id # token[w].id

FreshInit == Init /\ FreshTokens

FreshSpec == FreshInit /\ [][Next]_vars

-----------------------------------------------------------------------------
(* Properties.                                                             *)

\* CaseState's validator accepts every revision the store writes, so that no
\* transition is stopped by it and every state file can be read back.
StatesCoherent == \A c \in Cases : Coherent(store[c])

\* The failure history accounts for every claimed attempt exactly once: all of them
\* but the one that runs or succeeded.  SweepSummary's retry evidence rests on it.
AttemptsAccounted ==
    \A c \in Cases :
        Len(store[c].failure_codes) =
            store[c].attempt - (IF store[c].state \in {"running", "succeeded"} THEN 1 ELSE 0)

\* A success names a run root that was verified.
SuccessIsVerified ==
    \A c \in Cases : store[c].state = "succeeded" => <<c, store[c].run_digest>> \in runs

\* Together: the record of a case can be read back, tells the whole history of its
\* attempts, and claims no success whose run was not verified.
HistoryIsSound == StatesCoherent /\ AttemptsAccounted /\ SuccessIsVerified

\* "succeeded is immutable": no operation writes another revision of a success.
SuccessIsImmutable ==
    [][\A c \in Cases : store[c].state = "succeeded" => store'[c] = store[c]]_vars

\* Whatever the callers' clocks say, the evidence of a case only grows: its time and
\* attempt count never go back and no failure code is dropped or rewritten.
EvidenceGrows ==
    [][\A c \in Cases :
        LET s == store[c]
            n == store'[c]
        IN
        /\ n.updated_at >= s.updated_at
        /\ n.attempt >= s.attempt
        /\ Len(n.failure_codes) >= Len(s.failure_codes)
        /\ SubSeq(n.failure_codes, 1, Len(s.failure_codes)) = s.failure_codes]_vars

\* A caller renews, completes or fails only the attempt the store granted to it, never
\* one that was claimed after its own lease ran out.
AttemptsAreFenced ==
    [][\A w \in Workers, t \in Timestamps :
        LET c == token[w].case IN
        (\/ RenewLease(w, t)
         \/ \E d \in Digests : SucceedCase(w, d, t)
         \/ \E code \in FailCodes, retryable \in BOOLEAN : FailCase(w, code, retryable, t))
            => held[w] = store[c].attempt]_vars

\* The store implements the ledger of attempts.
Ledger == INSTANCE CaseLedger WITH
    ledger <- [c \in Cases |-> Outcomes(store[c])],
    final <- [c \in Cases |-> Terminal(store[c])]

ImplementsLedger == Ledger!Spec
=============================================================================
