----------------------------- MODULE CaseLedger -----------------------------
(***************************************************************************)
(* What the sweep state store promises about one case, with no leases,     *)
(* tokens or clocks: a ledger of attempts.  At most one attempt is open at *)
(* a time, each ends in exactly one outcome, a case is retried only after  *)
(* a retryable outcome and while attempts remain, and nothing is appended  *)
(* once the case is final.                                                 *)
(***************************************************************************)
EXTENDS Integers, Sequences

CONSTANTS
    Cases,
    FailCodes,      \* outcomes a worker reports
    RetryCodes,     \* outcomes that may be retried
    LeaseExpired,   \* outcome of an attempt nobody reported
    MaxAttempts

VARIABLES
    ledger,         \* ledger[c]: the outcomes of c's attempts, in order
    final           \* final[c]: no further attempt will be made

vars == <<ledger, final>>

Open(c) == Len(ledger[c]) > 0 /\ ledger[c][Len(ledger[c])] = "open"

Init ==
    /\ ledger = [c \in Cases |-> <<>>]
    /\ final = [c \in Cases |-> FALSE]

Start(c) ==
    /\ ~final[c]
    /\ ~Open(c)
    /\ Len(ledger[c]) < MaxAttempts
    /\ ledger' = [ledger EXCEPT ![c] = Append(@, "open")]
    /\ UNCHANGED final

Close(c, outcome) ==
    /\ Open(c)
    /\ ledger' = [ledger EXCEPT ![c][Len(ledger[c])] = outcome]

Succeed(c) ==
    /\ Close(c, "success")
    /\ final' = [final EXCEPT ![c] = TRUE]

\* Only a retryable outcome may leave the case open to another attempt, and only
\* while attempts remain.
Fail(c, code) ==
    /\ Close(c, code)
    /\ \E done \in BOOLEAN :
        /\ code \notin RetryCodes \/ Len(ledger[c]) = MaxAttempts => done
        /\ final' = [final EXCEPT ![c] = done]

\* An abandoned attempt is retried exactly while attempts remain.
Expire(c) ==
    /\ Close(c, LeaseExpired)
    /\ final' = [final EXCEPT ![c] = Len(ledger[c]) = MaxAttempts]

\* An abandoned attempt is closed and the next one opened at once.
Supersede(c) ==
    /\ Open(c)
    /\ Len(ledger[c]) < MaxAttempts
    /\ ledger' = [ledger EXCEPT ![c] = Append([@ EXCEPT ![Len(@)] = LeaseExpired], "open")]
    /\ UNCHANGED final

Next ==
    \E c \in Cases :
        \/ Start(c)
        \/ Succeed(c)
        \/ \E code \in FailCodes : Fail(c, code)
        \/ Expire(c)
        \/ Supersede(c)

Spec == Init /\ [][Next]_vars
=============================================================================
