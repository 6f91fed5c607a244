---------------------------- MODULE HttpBoundary ----------------------------
(***************************************************************************)
(* The HTTP boundary of service/app.py: the middleware that bounds request *)
(* bodies, and the order in which a handler asks the readiness, the job    *)
(* manager and the admission controller before it accepts work.            *)
(*                                                                         *)
(* Connections are interleaved at every message a client sends; a handler  *)
(* runs from its body to its answer in one step, as submit decides under   *)
(* one lock.  The job manager is seen through submit: the live jobs and    *)
(* their keys; the admission controller through what it may still admit.   *)
(* Sizes are in chunks.                                                    *)
(***************************************************************************)
EXTENDS Naturals, FiniteSets

CONSTANTS
    Connections,
    Keys,           \* idempotency keys
    Digests,        \* digests of canonical requests
    BodyLimit,      \* body_limit
    MaxChunk,       \* bound: the largest chunk a client sends
    Capacity,       \* solve_concurrency + solve_queue_capacity
    Budget,         \* what the admission controller may admit: solves, predictions
    MaxJobs,        \* bound: the jobs that are accepted
    None

BoundaryAssumption ==
    /\ BodyLimit \in Nat /\ MaxChunk \in Nat /\ Capacity \in Nat /\ Budget \in Nat
    /\ MaxJobs \in Nat /\ None \notin Keys \cup Digests

VARIABLES
    ready,      \* health.readiness, fixed when the application is made
    enabled,    \* config.solve_enabled with a job manager
    conn,       \* the connections
    jobs,       \* accepted jobs: state, digest and key, by job id
    charged     \* solves and predictions that admission has charged

vars == <<ready, enabled, conn, jobs, charged>>

Paths == {"/health", "/predict", "/solve", "/solve/id", "/elsewhere"}
BodyPaths == {"/predict", "/solve"}             \* _BODY_LIMIT_PATHS, of POST requests
Framings == {"plain", "declared", "media", "lengths", "length", "large"}
JobIds == 1..MaxJobs

Idle == [pc |-> "idle", path |-> "/health", body |-> 0, status |-> 0, job |-> 0,
         key |-> None, digest |-> None]

\* No connection buffers more than the limit, however its client cuts the body.
BoundaryTypeOK ==
    /\ ready \in BOOLEAN /\ enabled \in BOOLEAN
    /\ conn \in [Connections ->
            [pc: {"idle", "reading", "routed", "answered", "gone"}, path: Paths,
             body: 0..BodyLimit, status: {0, 200, 202, 404, 409, 413, 415, 422, 429, 503},
             job: 0..MaxJobs, key: Keys \cup {None}, digest: Digests \cup {None}]]
    /\ jobs \in [JobIds -> [state: {"absent", "active", "ended", "expired"},
                            digest: Digests \cup {None}, key: Keys \cup {None}]]
    /\ charged \in [{"solve", "predict"} -> 0..Budget]

Init ==
    /\ ready \in BOOLEAN /\ enabled \in BOOLEAN
    /\ conn = [c \in Connections |-> Idle]
    /\ jobs = [j \in JobIds |-> [state |-> "absent", digest |-> None, key |-> None]]
    /\ charged = [o \in {"solve", "predict"} |-> 0]

-----------------------------------------------------------------------------
(* RequestBoundaryMiddleware.                                              *)

Answer(c, status) == [conn[c] EXCEPT !.pc = "answered", !.status = status]

\* Framing that is refused before the body: media type, two lengths, no length, too long.
Refusal(framing) ==
    CASE framing = "media" -> 415
      [] framing \in {"lengths", "length"} -> 422
      [] framing = "large" -> 413
      [] OTHER -> 0

Arrive(c, path, framing) ==
    /\ conn[c].pc = "idle"
    /\ LET opened == [conn[c] EXCEPT !.path = path]
       IN conn' = [conn EXCEPT ![c] =
            IF path \notin BodyPaths THEN [opened EXCEPT !.pc = "routed"]
            ELSE IF Refusal(framing) = 0 THEN [opened EXCEPT !.pc = "reading"]
            ELSE [opened EXCEPT !.pc = "answered", !.status = Refusal(framing)]]
    /\ UNCHANGED <<ready, enabled, jobs, charged>>

\* Mutant: the chunk is buffered before the body is measured.
OverflowsLate(c, n) == conn[c].body > BodyLimit

Overflows(c, n) == conn[c].body + n > BodyLimit

\* One http.request message; the body that has no more is replayed to the application.
Chunk(c, n, more) ==
    /\ conn[c].pc = "reading"
    /\ conn' = [conn EXCEPT ![c] =
            IF Overflows(c, n) THEN Answer(c, 413)
            ELSE [conn[c] EXCEPT !.body = @ + n, !.pc = IF more THEN "reading" ELSE "routed"]]
    /\ UNCHANGED <<ready, enabled, jobs, charged>>

\* http.disconnect while the body is read: nothing is answered.
Disconnect(c) ==
    /\ conn[c].pc = "reading"
    /\ conn' = [conn EXCEPT ![c].pc = "gone"]
    /\ UNCHANGED <<ready, enabled, jobs, charged>>

-----------------------------------------------------------------------------
(* The handlers.                                                           *)

Routed(c, path) == conn[c].pc = "routed" /\ conn[c].path = path

Replies(c, status) ==
    /\ conn' = [conn EXCEPT ![c] = Answer(c, status)]
    /\ UNCHANGED <<ready, enabled, jobs, charged>>

Health(c) == Routed(c, "/health") /\ Replies(c, 200)

\* request_validation_handler: the body is not JSON, not the closed schema, or outside
\* the domain; or a key or a job id is malformed.
Invalid(c) ==
    /\ \E path \in {"/predict", "/solve", "/solve/id"} : Routed(c, path)
    /\ Replies(c, 422)

NotFound(c) == Routed(c, "/elsewhere") /\ Replies(c, 404)

Admits(operation) == charged[operation] < Budget

Charge(operation) == charged' = [charged EXCEPT ![operation] = @ + 1]

\* A ready service charges the prediction before it finds that no adapter is configured.
Predict(c) ==
    /\ Routed(c, "/predict")
    /\ conn' = [conn EXCEPT ![c] = Answer(c, IF ready /\ ~Admits("predict") THEN 429 ELSE 503)]
    /\ IF ready /\ Admits("predict") THEN Charge("predict") ELSE UNCHANGED charged
    /\ UNCHANGED <<ready, enabled, jobs>>

Active == {j \in JobIds : jobs[j].state = "active"}
Live == {j \in JobIds : jobs[j].state \in {"active", "ended"}}

Bound(key) == {j \in Live : key # None /\ jobs[j].key = key}

SolveUnavailable(c) == Routed(c, "/solve") /\ ~(ready /\ enabled) /\ Replies(c, 503)

\* The key is bound: the accepted job answers again, or another request conflicts.
Replay(c, key, d) ==
    /\ Routed(c, "/solve") /\ ready /\ enabled
    /\ \E j \in Bound(key) :
        conn' = [conn EXCEPT ![c] =
            IF jobs[j].digest = d
            THEN [Answer(c, 202) EXCEPT !.job = j, !.key = key, !.digest = d]
            ELSE Answer(c, 409)]
    /\ UNCHANGED <<ready, enabled, jobs, charged>>

\* Mutant: admission is charged before the capacity is looked at.
ChargesFirst == TRUE

ChargedHere == Cardinality(Active) < Capacity

\* A new job: capacity first, then admission, then the record.
Submit(c, key, d) ==
    /\ Routed(c, "/solve") /\ ready /\ enabled
    /\ Bound(key) = {}
    /\ IF ChargedHere /\ Admits("solve") THEN Charge("solve") ELSE UNCHANGED charged
    /\ IF Cardinality(Active) >= Capacity \/ ~Admits("solve")
       THEN /\ conn' = [conn EXCEPT ![c] =
                    Answer(c, IF Cardinality(Active) >= Capacity THEN 503 ELSE 429)]
            /\ UNCHANGED jobs
       ELSE \E j \in JobIds :
            /\ jobs[j].state = "absent"
            /\ \A i \in 1..(j - 1) : jobs[i].state # "absent"
            /\ jobs' = [jobs EXCEPT ![j] = [state |-> "active", digest |-> d, key |-> key]]
            /\ conn' = [conn EXCEPT ![c] =
                    [Answer(c, 202) EXCEPT !.job = j, !.key = key, !.digest = d]]
    /\ UNCHANGED <<ready, enabled>>

\* solve_status and solve_events: a known job answers, an unknown or expired one is 404,
\* and a cursor that is malformed or ahead is 409.
Lookup(c) ==
    /\ Routed(c, "/solve/id")
    /\ \E status \in (IF Live = {} \/ ~enabled THEN {404} ELSE {200, 404, 409}) :
        Replies(c, status)

\* The next request of a client, and the life of the accepted jobs.
Close(c) ==
    /\ conn[c].pc \in {"answered", "gone"}
    /\ conn' = [conn EXCEPT ![c] = Idle]
    /\ UNCHANGED <<ready, enabled, jobs, charged>>

JobMoves(j) ==
    /\ \E s \in {<<"active", "ended">>, <<"ended", "expired">>} :
        jobs[j].state = s[1] /\ jobs' = [jobs EXCEPT ![j].state = s[2]]
    /\ UNCHANGED <<ready, enabled, conn, charged>>

Handle(c) ==
    \/ Health(c) \/ Invalid(c) \/ NotFound(c) \/ Predict(c) \/ SolveUnavailable(c) \/ Lookup(c)
    \/ \E key \in Keys \cup {None}, d \in Digests : Replay(c, key, d) \/ Submit(c, key, d)

Next ==
    \/ \E c \in Connections :
        \/ \E path \in Paths, framing \in Framings : Arrive(c, path, framing)
        \/ \E n \in 0..MaxChunk, more \in BOOLEAN : Chunk(c, n, more)
        \/ Disconnect(c) \/ Handle(c) \/ Close(c)
    \/ \E j \in JobIds : JobMoves(j)

Spec == Init /\ [][Next]_vars

-----------------------------------------------------------------------------
(* Properties.                                                             *)

\* Admission charges a solve exactly when a job is accepted: a replay, a conflict, a full
\* queue and a denial are free, and a retried submission of a live job is not charged
\* again.  Clients told of one job sent one request, and one key names one live job.
SolvesAreChargedOnce ==
    /\ charged["solve"] = Cardinality({j \in JobIds : jobs[j].state # "absent"})
    /\ \A c \in Connections : conn[c].status = 202 =>
        /\ jobs[conn[c].job].digest = conn[c].digest
        /\ jobs[conn[c].job].key = conn[c].key
    /\ \A key \in Keys : Cardinality(Bound(key)) <= 1
=============================================================================
