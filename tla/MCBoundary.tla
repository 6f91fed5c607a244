----------------------------- MODULE MCBoundary -----------------------------
(* A small instance of each module at the public edge of the service and the demo: the
   admission controller, the prediction coordinator and the HTTP boundary, side by side.
   A behaviour picks one of them and is a behaviour of its specification; the others
   keep their initial states. *)
EXTENDS Integers, Sequences, FiniteSets, TLC

CONSTANTS
    Clients, PredictCapacity, PredictWindow, SolveCapacity, SolveWindow, SolvesPerDay,
    Reservation, GpuLimit, MaxClientStates, Second, Day, MaxTime, MaxAdmitted,
    Sessions, Handlers, Debounce, TTL, MaxSessions, DemoMaxTime,
    Proxies, MaxForwarded,
    Connections, Keys, Digests, BodyLimit, MaxChunk, Capacity, Budget, MaxJobs, None

VARIABLES
    which,
    asked,                                              \* an input of a function of Admission
    buckets, day, solves, reserved, admitted, told,     \* of Admission
    registry, older, handler,                           \* of DemoCoordinator
    ready, enabled, conn, jobs, charged,                \* of HttpBoundary
    now                                                 \* of the first two

Quota == INSTANCE Admission
Demo == INSTANCE DemoCoordinator WITH MaxTime <- DemoMaxTime
Http == INSTANCE HttpBoundary

ASSUME PartsAssumption ==
    /\ Quota!ProxiesAssumption
    /\ Quota!RatesAssumption /\ Quota!BudgetAssumption /\ Quota!BoundsAssumption
    /\ Demo!LimitsAssumption /\ Demo!TimesAssumption
    /\ Http!BoundaryAssumption

quotaVars == <<buckets, day, solves, reserved, admitted, told>>
demoVars == <<registry, older, handler>>
httpVars == <<ready, enabled, conn, jobs, charged>>
vars == <<which, asked, quotaVars, demoVars, httpVars, now>>

Init ==
    /\ which \in {"admission", "demo", "http", "identity", "readiness", "settings"}
    /\ asked = None
    /\ Quota!Init /\ Demo!Init /\ Http!Init
    /\ which # "http" => ready /\ enabled

\* Addresses of two proxies and two clients, one of them in two spellings.
Items ==
    [address : {"p1", "p2", "c1", "c2"}, form : {"plain"}]
        \cup {[address |-> "c1", form |-> "mapped"], [address |-> "", form |-> "malformed"]}
Lists(n) == UNION {[1 .. k -> Items] : k \in 0 .. n}
Probes == [identities : BOOLEAN, integrity : BOOLEAN, device : BOOLEAN, warm : BOOLEAN, red : BOOLEAN]
Limits == 0 .. 2
AtMostOne(values) == {{}} \cup {{v} : v \in values}

Ask(name, inputs) ==
    /\ which = name /\ asked = None
    /\ asked' \in inputs
    /\ UNCHANGED <<quotaVars, demoVars, httpVars, now>>

AskIdentity == Ask("identity", Items \X ({<<list>> : list \in Lists(3)} \cup Lists(1) \X Lists(1)))
AskReadiness == Ask("readiness", Probes \X BOOLEAN \X BOOLEAN)
AskSettings ==
    Ask("settings", BOOLEAN \X Limits \X AtMostOne(BOOLEAN) \X AtMostOne(Limits))

Next ==
    /\ UNCHANGED which
    /\ \/ which = "admission" /\ Quota!Next /\ UNCHANGED <<asked, demoVars, httpVars>>
       \/ which = "demo" /\ Demo!Next /\ UNCHANGED <<asked, quotaVars, httpVars>>
       \/ which = "http" /\ Http!Next /\ UNCHANGED <<asked, quotaVars, demoVars, now>>
       \/ AskIdentity \/ AskReadiness \/ AskSettings

Spec == Init /\ [][Next]_vars

\* Clients and handlers are alike, and have the same names; so are connections.
Symmetry == Permutations(Clients) \cup Permutations(Connections)

-----------------------------------------------------------------------------
\* The state of each module keeps its type, and no request body grows past its limit.
TypesOK == Quota!TypeOK /\ Demo!TypeOK /\ Http!BoundaryTypeOK

Asked(name) == which = name /\ asked # None

\* Admission: no client passes its rate, no day its solves and its GPU seconds, and a client
\* that comes back when it was told to finds its token or the new day, or room in the map that
\* was full unless somebody has used a bucket since; a client is the one that trusted proxies
\* vouch for, and readiness and overrides grant nothing beyond this.
QuotasHold ==
    /\ Quota!RateHolds /\ Quota!BudgetHolds /\ Quota!BudgetIsExact /\ Quota!RetryAfterIsEnough
    /\ Asked("identity") => Quota!AddressIsOwn(asked[1], asked[2], Lists(2))
    /\ Asked("readiness") => Quota!ReadinessIsOwed(asked[1], asked[2], asked[3])
    /\ Asked("settings") => Quota!OverridesOnlyRestrict(asked[1], asked[2], asked[3], asked[4])

\* Coordinator: the last commit of a session is the one shown, and a result is called
\* stale only for a reason.
LastCommitWinsWhileKept == Demo!LastCommitWinsWhileKept
StaleIsJustified == Demo!StaleIsJustified /\ Demo!NumbersAreOwn

\* HTTP boundary: a solve is charged exactly when a job is accepted.
SolvesAreChargedOnce == Http!SolvesAreChargedOnce
=============================================================================
