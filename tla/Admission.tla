------------------------------ MODULE Admission -----------------------------
(***************************************************************************)
(* The admission controller of service/admission.py: a token bucket per    *)
(* client and operation, kept in a bounded map, and the daily solve count  *)
(* and GPU budget.  Every method runs under one lock and is one action.    *)
(*                                                                         *)
(* Tokens are counted in units of 1/window of a request, so that a tick    *)
(* refills exactly `capacity` units and a request costs `window` of them;  *)
(* the rounding of the code's floating point is left out.  A second has    *)
(* several ticks, because Retry-After is rounded up to seconds.  One clock *)
(* stands for the wall clock and the monotonic clock; neither runs back.   *)
(*                                                                         *)
(* Which client a request belongs to, what the environment may override,   *)
(* and what readiness is derived from are functions beside the machine.    *)
(***************************************************************************)
EXTENDS Integers, Sequences, FiniteSets, FiniteSetsExt

CONSTANTS
    Clients,            \* client keys
    PredictCapacity,    \* predictions_per_minute_client
    PredictWindow,      \* one minute, in ticks
    SolveCapacity,      \* solves_per_hour_client
    SolveWindow,        \* one hour, in ticks
    SolvesPerDay,       \* solves_per_day_global
    Reservation,        \* solve_timeout_seconds
    GpuLimit,           \* the GPU-second limit of a day
    MaxClientStates,    \* max_client_states
    Second,             \* ticks in a second
    Day,                \* ticks in a day
    Proxies,            \* the addresses in trusted_proxy_networks
    MaxForwarded,       \* MAX_FORWARDED_ADDRESSES
    MaxTime,            \* bound of the explored clock
    MaxAdmitted         \* bound: the admissions that are recorded

RatesAssumption ==
    /\ PredictCapacity \in Nat \ {0} /\ SolveCapacity \in Nat
    /\ {PredictWindow, SolveWindow, Second, Day, MaxClientStates} \subseteq Nat \ {0}
BudgetAssumption == {SolvesPerDay, Reservation, GpuLimit} \subseteq Nat
BoundsAssumption == MaxTime \in Nat /\ MaxAdmitted \in Nat
ProxiesAssumption == "unknown" \notin Proxies /\ MaxForwarded \in Nat

VARIABLES
    buckets,    \* _prediction_buckets and _solve_buckets
    day,        \* _budget_day
    solves,     \* _solves_today
    reserved,   \* _gpu_seconds_reserved_today
    admitted,   \* observer: when each client was admitted to each operation
    told,       \* observer: the last denial, and when it said to come back
    now         \* the clock

vars == <<buckets, day, solves, reserved, admitted, told, now>>

Ops == {"predict", "solve"}
CapacityOf(op) == IF op = "predict" THEN PredictCapacity ELSE SolveCapacity
WindowOf(op) == IF op = "predict" THEN PredictWindow ELSE SolveWindow

Today == now \div Day

NoBucket == [tokens |-> 0, updated_at |-> 0, expires_at |-> 0]
Known(map) == {c \in Clients : map[c].expires_at > 0}

Bucket == [tokens: Nat, updated_at: Nat, expires_at: Nat]

Nothing == [why |-> "nothing"]

TypeOK ==
    /\ buckets \in [Ops -> [Clients -> Bucket]]
    /\ \A op \in Ops : /\ Cardinality(Known(buckets[op])) <= MaxClientStates
                       /\ \A c \in Clients :
                            buckets[op][c].tokens <= CapacityOf(op) * WindowOf(op)
    /\ day \in Nat /\ solves \in Nat /\ reserved \in Nat
    /\ admitted \in [Ops -> [Clients -> Seq(Nat)]]
    /\ told = Nothing \/ told \in [why: {"rate", "full", "disabled", "budget"}, op: Ops,
                                  client: Clients, at: Nat, until: Nat,
                                  entries: [Clients -> Bucket]]
    /\ now \in Nat

Init ==
    /\ buckets = [op \in Ops |-> [c \in Clients |-> NoBucket]]
    /\ day = 0 /\ solves = 0 /\ reserved = 0
    /\ admitted = [op \in Ops |-> [c \in Clients |-> <<>>]]
    /\ told = Nothing
    /\ now = 0

-----------------------------------------------------------------------------
(* The client of a request: addresses as they are spelled, of the peer and *)
(* of the X-Forwarded-For headers.                                         *)

\* _normalized_address: an IPv4 address and its IPv6 spelling are one.
Normalized(item) == IF item.form = "malformed" THEN "unknown" ELSE item.address

WellFormed(parts) ==
    Len(parts) \in 1 .. MaxForwarded /\ \A i \in DOMAIN parts : parts[i].form # "malformed"

\* Mutant: the address that a header begins with is the client's.
EffectiveFirst(peer, headers) ==
    LET direct == Normalized(peer) IN
    IF direct \notin Proxies \/ Len(headers) # 1 \/ ~WellFormed(headers[1]) THEN direct
    ELSE Normalized(headers[1][1])

\* _effective_address: behind trusted proxies, the last address that is none of them.
EffectiveAddress(peer, headers) ==
    LET direct == Normalized(peer) IN
    IF direct \notin Proxies \/ Len(headers) # 1 \/ ~WellFormed(headers[1]) THEN direct
    ELSE LET chain == [i \in DOMAIN headers[1] |-> Normalized(headers[1][i])]
             outside == {i \in DOMAIN chain : chain[i] \notin Proxies}
         IN  chain[IF outside = {} THEN 1 ELSE Max(outside)]

-----------------------------------------------------------------------------
(* Settings and readiness.  An override is a set: of no or of one value.    *)

\* Mutant: the environment enables what the configuration disables.
EnabledByOverride(configured, override) ==
    IF override = {} THEN configured ELSE TRUE \in override

\* AdmissionController: an override may disable solves, not enable them.
SolveEnabled(configured, override) == configured /\ FALSE \notin override

\* The GPU limit: none when the override exceeds the configuration and is refused.
LimitOf(configured, override) ==
    IF override = {} THEN {configured} ELSE override \cap 0 .. configured

\* Mutant: a red validation is reported before the budget is looked at.
ReadinessRedFirst(probe, enabled, budget) ==
    IF ~(probe.identities /\ probe.integrity) THEN <<FALSE, FALSE, "artifact_invalid">>
    ELSE IF ~probe.device \/ ~probe.warm THEN <<FALSE, FALSE, "runtime_unavailable">>
    ELSE IF ~enabled THEN <<TRUE, FALSE, "solve_disabled">>
    ELSE IF probe.red THEN <<TRUE, TRUE, "validation_red">>
    ELSE IF ~budget THEN <<TRUE, FALSE, "solve_budget_exhausted">>
    ELSE <<TRUE, TRUE, "ready">>

\* evaluate_service_readiness: predictions, solves, and the first reason that holds.
ReadinessOf(probe, enabled, budget) ==
    IF ~(probe.identities /\ probe.integrity) THEN <<FALSE, FALSE, "artifact_invalid">>
    ELSE IF ~probe.device \/ ~probe.warm THEN <<FALSE, FALSE, "runtime_unavailable">>
    ELSE IF ~enabled THEN <<TRUE, FALSE, "solve_disabled">>
    ELSE IF ~budget THEN <<TRUE, FALSE, "solve_budget_exhausted">>
    ELSE <<TRUE, TRUE, IF probe.red THEN "validation_red" ELSE "ready">>

-----------------------------------------------------------------------------
(* _prune and _consume.                                                    *)

Pruned(op) ==
    [c \in Clients |->
        IF now >= buckets[op][c].expires_at THEN NoBucket ELSE buckets[op][c]]

\* Mutant: the map is full when it is over its limit.
FullLate(op, c) ==
    Pruned(op)[c] = NoBucket /\ Cardinality(Known(Pruned(op))) > MaxClientStates

\* An unseen client finds no room in the map.
Full(op, c) ==
    Pruned(op)[c] = NoBucket /\ Cardinality(Known(Pruned(op))) >= MaxClientStates

\* Mutant: a refill does not move the time from which the next one is counted.
RefilledTwice(op, c) ==
    LET bucket == Pruned(op)[c]
        capacity == CapacityOf(op) * WindowOf(op)
        refill == bucket.tokens + (now - bucket.updated_at) * CapacityOf(op)
    IN  [tokens |-> IF bucket = NoBucket THEN capacity ELSE Min({capacity, refill}),
         updated_at |-> IF bucket = NoBucket THEN now ELSE bucket.updated_at,
         expires_at |-> now + WindowOf(op)]

\* The bucket of c as the request finds it: new and full, or refilled.
Refilled(op, c) ==
    LET bucket == Pruned(op)[c]
        capacity == CapacityOf(op) * WindowOf(op)
        refill == bucket.tokens + (now - bucket.updated_at) * CapacityOf(op)
    IN  [tokens |-> IF bucket = NoBucket THEN capacity ELSE Min({capacity, refill}),
         updated_at |-> now,
         expires_at |-> now + WindowOf(op)]

HasToken(op, c) == Refilled(op, c).tokens >= WindowOf(op)

\* The map when c's request is charged, and when it is not.
Charged(op, c) ==
    [Pruned(op) EXCEPT ![c] = [Refilled(op, c) EXCEPT !.tokens = @ - WindowOf(op)]]
Refused(op, c) ==
    IF CapacityOf(op) = 0 \/ Full(op, c) THEN Pruned(op)
    ELSE [Pruned(op) EXCEPT ![c] = Refilled(op, c)]

InSeconds(ticks) == (ticks + Second - 1) \div Second

\* Mutant: the time to the next token is rounded down.
RetryAfterFloor(op, c) ==
    Max({1, ((WindowOf(op) - Refilled(op, c).tokens) \div CapacityOf(op)) \div Second})

\* Seconds until the bucket holds a token again.
RetryAfter(op, c) ==
    LET missing == WindowOf(op) - Refilled(op, c).tokens
        ticks == (missing + CapacityOf(op) - 1) \div CapacityOf(op)
    IN  Max({1, InSeconds(ticks)})

EarliestExpiry(op) == Min({Pruned(op)[c].expires_at : c \in Known(Pruned(op))})

\* Mutant: the time to the earliest expiry is rounded down.
RetryAfterFullFloor(op) == Max({1, (EarliestExpiry(op) - now) \div Second})

\* Seconds until the first entry of a full map expires, if nobody uses it again.
RetryAfterFull(op) == Max({1, InSeconds(EarliestExpiry(op) - now)})

\* A denial for a full map is kept with the entries it met.
Told(op, c, why, seconds) ==
    told' = [why |-> why, op |-> op, client |-> c, at |-> now, until |-> now + seconds * Second,
             entries |-> IF why = "full" THEN Pruned(op) ELSE [d \in Clients |-> NoBucket]]

\* _consume raises RateLimitError: the rate is zero, the map is full, or there is no token.
Limited(op, c) ==
    \/ CapacityOf(op) = 0 /\ Told(op, c, "disabled", InSeconds(WindowOf(op)))
    \/ CapacityOf(op) > 0 /\ Full(op, c) /\ Told(op, c, "full", RetryAfterFull(op))
    \/ /\ CapacityOf(op) > 0 /\ ~Full(op, c) /\ ~HasToken(op, c)
       /\ Told(op, c, "rate", RetryAfter(op, c))

\* Any further request of the client ends its wait.
AsksAgain(op, c) ==
    told' = IF told # Nothing /\ told.op = op /\ told.client = c THEN Nothing ELSE told

\* How many admissions the observer holds.
Admissions ==
    MapThenSumSet(LAMBDA oc : Len(admitted[oc[1]][oc[2]]), Ops \X Clients)

Admits(op, c) ==
    /\ Admissions < MaxAdmitted
    /\ admitted' = [admitted EXCEPT ![op][c] = Append(@, now)]
    /\ AsksAgain(op, c)

-----------------------------------------------------------------------------
(* admit_prediction.                                                       *)

PredictionAdmitted(c) ==
    /\ ~Full("predict", c) /\ HasToken("predict", c)
    /\ buckets' = [buckets EXCEPT !["predict"] = Charged("predict", c)]
    /\ Admits("predict", c)
    /\ UNCHANGED <<day, solves, reserved, now>>

PredictionLimited(c) ==
    /\ Limited("predict", c)
    /\ buckets' = [buckets EXCEPT !["predict"] = Refused("predict", c)]
    /\ UNCHANGED <<day, solves, reserved, admitted, now>>

-----------------------------------------------------------------------------
(* admit_solve, snapshot and readiness.                                    *)

\* Mutant: the GPU budget keeps what was reserved the day before.
ResetCountOnly == [solves |-> IF day = Today THEN solves ELSE 0, reserved |-> reserved]

\* _reset_daily_budget.
Reset ==
    IF day = Today THEN [solves |-> solves, reserved |-> reserved]
    ELSE [solves |-> 0, reserved |-> 0]

\* Mutant: the reservation of the solve that asks is not counted.
HasBudgetBefore == Reset.solves < SolvesPerDay /\ Reset.reserved <= GpuLimit

HasBudget == Reset.solves < SolvesPerDay /\ Reset.reserved + Reservation <= GpuLimit

\* Mutant: a solve is counted before its client's rate is looked at.
CountsEarly == /\ solves' = Reset.solves + 1 /\ reserved' = Reset.reserved + Reservation

\* What a solve that is denied leaves of the daily budget.
CountsNothing == /\ solves' = Reset.solves /\ reserved' = Reset.reserved

SolveAdmitted(c) ==
    /\ HasBudget
    /\ SolveCapacity > 0 /\ ~Full("solve", c) /\ HasToken("solve", c)
    /\ day' = Today
    /\ solves' = Reset.solves + 1
    /\ reserved' = Reset.reserved + Reservation
    /\ buckets' = [buckets EXCEPT !["solve"] = Charged("solve", c)]
    /\ Admits("solve", c)
    /\ UNCHANGED now

\* Denied by the budget, before the buckets are looked at.
SolveOverBudget(c) ==
    /\ ~HasBudget
    /\ day' = Today /\ CountsNothing
    /\ Told("solve", c, "budget", Max({1, InSeconds((Today + 1) * Day - now)}))
    /\ UNCHANGED <<buckets, admitted, now>>

SolveLimited(c) ==
    /\ HasBudget
    /\ Limited("solve", c)
    /\ day' = Today /\ CountsNothing
    /\ buckets' = [buckets EXCEPT !["solve"] = Refused("solve", c)]
    /\ UNCHANGED <<admitted, now>>

Snapshot ==
    /\ buckets' = [op \in Ops |-> Pruned(op)]
    /\ day' = Today /\ solves' = Reset.solves /\ reserved' = Reset.reserved
    /\ UNCHANGED <<admitted, told, now>>

Readiness ==
    /\ day' = Today /\ solves' = Reset.solves /\ reserved' = Reset.reserved
    /\ UNCHANGED <<buckets, admitted, told, now>>

-----------------------------------------------------------------------------
Tick ==
    /\ now < MaxTime
    /\ now' = now + 1
    /\ UNCHANGED <<buckets, day, solves, reserved, admitted, told>>

Next ==
    \/ \E c \in Clients :
        \/ PredictionAdmitted(c) \/ PredictionLimited(c)
        \/ SolveAdmitted(c) \/ SolveOverBudget(c) \/ SolveLimited(c)
    \/ Snapshot \/ Readiness
    \/ Tick

Spec == Init /\ [][Next]_vars

-----------------------------------------------------------------------------
(* Properties.                                                             *)

Of(op, c, from, to) == {i \in DOMAIN admitted[op][c] : admitted[op][c][i] \in from..to}

\* However its requests fall, and though its bucket is dropped when it is idle, a client
\* is admitted at most its capacity and the refill of the time between, in any interval.
RateHolds ==
    \A op \in Ops, c \in Clients : \A i, j \in DOMAIN admitted[op][c] :
        LET from == admitted[op][c][i]
            to == admitted[op][c][j]
        IN  from <= to => Cardinality(Of(op, c, from, to)) * WindowOf(op)
                            <= CapacityOf(op) * (WindowOf(op) + (to - from))

SolvesOn(d) ==
    UNION {{<<c, i>> : i \in Of("solve", c, d * Day, (d + 1) * Day - 1)} : c \in Clients}

\* No day admits more solves, or reserves more GPU time, than its budget.
BudgetHolds ==
    \A d \in 0..Today :
        /\ Cardinality(SolvesOn(d)) <= SolvesPerDay
        /\ Cardinality(SolvesOn(d)) * Reservation <= GpuLimit

\* The budget is charged for the solves that were admitted and for no other: a denial
\* costs nothing, and what was charged for a past day is forgotten.
BudgetIsExact ==
    /\ solves = Cardinality(SolvesOn(day))
    /\ reserved = solves * Reservation

\* A client that waits for its Retry-After finds its token, or the next day, and no wait for
\* a bucket is longer than the window.  A full map gives no such word: its earliest entry may
\* be used again or its place be taken meanwhile, and the client is then denied again (as one
\* may be that waited for a token and whose own bucket expired); with nobody at the buckets
\* it finds room.  A rate of zero is never lifted.
RetryAfterIsEnough ==
    told # Nothing =>
        /\ told.until > told.at
        /\ told.why # "budget" => told.until <= told.at + InSeconds(WindowOf(told.op)) * Second
        /\ now >= told.until =>
            \/ /\ told.why = "rate"
               /\ HasToken(told.op, told.client)
            \/ /\ told.why = "budget"
               /\ Today > told.at \div Day
            \/ /\ told.why = "full"
               /\ \/ ~Full(told.op, told.client)
                  \/ \E c \in Known(Pruned(told.op)) : Pruned(told.op)[c] # told.entries[c]
            \/ /\ told.why = "disabled"
               /\ CapacityOf(told.op) = 0

\* A header counts only behind a trusted proxy, and then the client is the one that the
\* nearest trusted proxies vouch for: whatever a client has written before them, it is
\* charged as itself or as the proxy it came through.
AddressIsOwn(peer, headers, prefixes) ==
    LET client == EffectiveAddress(peer, headers)
        direct == Normalized(peer)
        vouched(i) == \A k \in i + 1 .. Len(headers[1]) : Normalized(headers[1][k]) \in Proxies
    IN  /\ direct \notin Proxies => client = direct
        /\ \/ client = direct
           \/ \E i \in DOMAIN headers[1] : Normalized(headers[1][i]) = client /\ vouched(i)
        /\ Len(headers) = 1 /\ client \notin Proxies =>
              \A prefix \in prefixes :
                  EffectiveAddress(peer, <<prefix \o headers[1]>>) \in {client, direct}

\* Readiness never promises a solve that is disabled or out of budget, nor anything without
\* verified artifacts and a warm device, and a red validation takes nothing away.
ReadinessIsOwed(probe, enabled, budget) ==
    LET answer == ReadinessOf(probe, enabled, budget) IN
    /\ answer[2] => answer[1] /\ enabled /\ budget
    /\ answer[1] => probe.identities /\ probe.integrity /\ probe.device /\ probe.warm
    /\ LET green == ReadinessOf([probe EXCEPT !.red = FALSE], enabled, budget)
       IN  <<answer[1], answer[2]>> = <<green[1], green[2]>>

\* The environment takes from what the configuration grants and adds nothing to it.
OverridesOnlyRestrict(configured, limit, switch, override) ==
    /\ SolveEnabled(configured, switch) => configured /\ FALSE \notin switch
    /\ \A effective \in LimitOf(limit, override) : effective <= limit
=============================================================================
