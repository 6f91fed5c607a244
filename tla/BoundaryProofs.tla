---------------------------- MODULE BoundaryProofs ----------------------------
(***************************************************************************)
(* Proofs about the public edge of the service and the demo: the three     *)
(* modules that MCBoundary puts side by side, for any clients, limits,     *)
(* windows, sessions, handlers, connections and keys, and however long the *)
(* clocks run.                                                             *)
(*                                                                         *)
(* None of their properties is inductive.  The HTTP boundary needs that    *)
(* what a client was told of is an accepted job; the coordinator, how the  *)
(* number of a ticket compares with the number in the registry; admission, *)
(* how many tokens a bucket would hold now, for a count of admissions      *)
(* since any earlier one.                                                  *)
(***************************************************************************)
EXTENDS MCBoundary, FiniteSetTheorems, WellFoundedInduction, TLAPS

(***************************************************************************)
(* The HTTP boundary.                                                      *)
(***************************************************************************)
Accepted == {j \in Http!JobIds : jobs[j].state # "absent"}

HttpInv ==
    /\ Http!BoundaryTypeOK
    /\ charged["solve"] = Cardinality(Accepted)
    /\ \A c \in Connections : conn[c].status = 202 =>
        /\ conn[c].job \in Accepted
        /\ jobs[conn[c].job].digest = conn[c].digest
        /\ jobs[conn[c].job].key = conn[c].key
    /\ \A i, j \in Http!Live : jobs[i].key = jobs[j].key => i = j \/ jobs[i].key = None

(***************************************************************************)
(* The coordinator of the demo.  A ticket that was not forgotten has its   *)
(* session in the registry, under its own number or a later one.           *)
(***************************************************************************)
Holds(h) == handler[h].pc \in Demo!Active \ {"reserving"}

TicketsOk ==
  \A h \in Handlers :
    /\ handler[h].pc = "reserving" => ~handler[h].superseded
    /\ Holds(h) /\ ~handler[h].dropped =>
        /\ handler[h].session \in DOMAIN registry
        /\ handler[h].sequence <= registry[handler[h].session].sequence
        /\ handler[h].superseded <=>
              handler[h].sequence < registry[handler[h].session].sequence

\* The registry is bounded, and its order is that of its uses.
RegistryOk ==
    /\ DOMAIN registry \subseteq Sessions
    /\ IsFiniteSet(DOMAIN registry) /\ Cardinality(DOMAIN registry) <= MaxSessions
    /\ registry \in [DOMAIN registry -> [sequence: Nat \ {0}, touched_at: Nat]]
    /\ older \subseteq (DOMAIN registry) \X (DOMAIN registry)
    /\ \A r, s \in DOMAIN registry : <<r, s>> \in older => <<s, r>> \notin older
    /\ \A r, s \in DOMAIN registry : r = s \/ <<r, s>> \in older \/ <<s, r>> \in older
    /\ \A q, r, s \in DOMAIN registry :
        <<q, r>> \in older /\ <<r, s>> \in older => <<q, s>> \in older

DemoInv ==
    /\ RegistryOk
    /\ handler \in [Handlers -> Demo!Handler] /\ now \in Nat
    /\ TicketsOk
    /\ Demo!LastCommitWinsWhileKept /\ Demo!StaleIsJustified /\ Demo!NumbersAreOwn

(***************************************************************************)
(* Admission.  Most is what a bucket holds at most, LevelOf what it would  *)
(* hold at a time, also when it has been dropped.                          *)
(***************************************************************************)
Most(op) == Quota!CapacityOf(op) * Quota!WindowOf(op)

LevelOf(op, bucket, t) ==
    LET refill == bucket.tokens + (t - bucket.updated_at) * Quota!CapacityOf(op)
    IN  IF bucket.expires_at = 0 \/ refill > Most(op) THEN Most(op) ELSE refill

BucketOk(op, bucket, t) ==
    /\ bucket \in [tokens: Nat, updated_at: Nat, expires_at: Nat]
    /\ bucket.tokens <= Most(op)
    /\ IF bucket.expires_at = 0 THEN bucket = Quota!NoBucket
       ELSE /\ bucket.updated_at <= t
            /\ bucket.expires_at = bucket.updated_at + Quota!WindowOf(op)

\* The admissions of a client since one of them, and those it could have at once, fit into
\* a bucket and its refill; so do its admissions between any two of them.
RateOk(op, times, level, t) ==
    \A i \in DOMAIN times :
        /\ times[i] <= t
        /\ (Len(times) - i + 1) * Quota!WindowOf(op) + level
              <= Most(op) + (t - times[i]) * Quota!CapacityOf(op)
        /\ \A j \in i .. Len(times) :
            /\ times[i] <= times[j]
            /\ (j - i + 1) * Quota!WindowOf(op)
                  <= Most(op) + (times[j] - times[i]) * Quota!CapacityOf(op)

BucketsOk ==
    /\ buckets \in [Quota!Ops ->
            [Clients -> [tokens: Nat, updated_at: Nat, expires_at: Nat]]]
    /\ admitted \in [Quota!Ops -> [Clients -> Seq(Nat)]]
    /\ \A op \in Quota!Ops :
        /\ IsFiniteSet(Quota!Known(buckets[op]))
        /\ Cardinality(Quota!Known(buckets[op])) <= MaxClientStates
        /\ \A c \in Clients :
            /\ BucketOk(op, buckets[op][c], now)
            /\ RateOk(op, admitted[op][c], LevelOf(op, buckets[op][c], now), now)

\* The solves of a day are counted, and none is of a later day.
BudgetOk ==
    /\ day \in Nat /\ day <= Quota!Today
    /\ \A c \in Clients : \A i \in DOMAIN admitted["solve"][c] :
        admitted["solve"][c][i] < (day + 1) * Day
    /\ solves = Cardinality(Quota!SolvesOn(day)) /\ reserved = solves * Reservation
    /\ \A d \in Nat :
        /\ IsFiniteSet(Quota!SolvesOn(d))
        /\ Cardinality(Quota!SolvesOn(d)) <= SolvesPerDay
        /\ Cardinality(Quota!SolvesOn(d)) * Reservation <= GpuLimit

\* When a client was told to come back its bucket will hold a token, the next day will
\* have begun, or one of the entries that filled the map will have expired.
Denials ==
    [why: {"rate", "full", "disabled", "budget"}, op: Quota!Ops, client: Clients,
     at: Nat, until: Nat, entries: [Clients -> Quota!Bucket]]

\* A map that was full, one entry of which expires by a time.
FullUntil(map, until) ==
    /\ IsFiniteSet(Quota!Known(map)) /\ Cardinality(Quota!Known(map)) <= MaxClientStates
    /\ \E c \in Quota!Known(map) : map[c].expires_at <= until

ToldOk ==
    told = Quota!Nothing \/
        /\ told \in Denials
        /\ told.at < told.until
        /\ told.why # "budget" =>
              told.until <= told.at + Quota!InSeconds(Quota!WindowOf(told.op)) * Second
        /\ told.why = "full" => FullUntil(told.entries, told.until)
        /\ told.why = "disabled" => Quota!CapacityOf(told.op) = 0
        /\ told.why = "rate" =>
              LET bucket == buckets[told.op][told.client] IN
              /\ Quota!CapacityOf(told.op) > 0
              /\ bucket.expires_at # 0 =>
                    /\ bucket.updated_at <= told.until
                    /\ bucket.tokens + (told.until - bucket.updated_at) * Quota!CapacityOf(told.op)
                          >= Quota!WindowOf(told.op)
        /\ told.why = "budget" => (told.at \div Day + 1) * Day <= told.until

QuotaInv == now \in Nat /\ BucketsOk /\ BudgetOk /\ ToldOk

(***************************************************************************)
(* What was asked of the functions of admission.                           *)
(***************************************************************************)
AskedOk ==
    asked # None =>
        /\ which = "identity" =>
              asked \in Items \X ({<<list>> : list \in Lists(3)} \cup Lists(1) \X Lists(1))
        /\ which = "readiness" => asked \in Probes \X BOOLEAN \X BOOLEAN
        /\ which = "settings" =>
              asked \in BOOLEAN \X Limits \X AtMostOne(BOOLEAN) \X AtMostOne(Limits)

IInv == HttpInv /\ DemoInv /\ QuotaInv /\ AskedOk

\* The instances count as this module does.
LEMMA SameCardinality ==
    \A S : /\ Http!Cardinality(S) = Cardinality(S) /\ Demo!Cardinality(S) = Cardinality(S)
           /\ Quota!Cardinality(S) = Cardinality(S)
  BY DEF Http!Cardinality, Demo!Cardinality, Quota!Cardinality, Cardinality

-----------------------------------------------------------------------------
(***************************************************************************)
(* The HTTP boundary keeps its invariant.                                  *)
(***************************************************************************)
Statuses == {0, 200, 202, 404, 409, 413, 415, 422, 429, 503}
Conns ==
    [pc: {"idle", "reading", "routed", "answered", "gone"}, path: Http!Paths,
     body: 0..BodyLimit, status: Statuses,
     job: 0..MaxJobs, key: Keys \cup {None}, digest: Digests \cup {None}]
JobRecords ==
    [state: {"absent", "active", "ended", "expired"},
     digest: Digests \cup {None}, key: Keys \cup {None}]

\* What is answered to a client that was told of a job is true of the job.
ToldOfJob(r) ==
    r.status = 202 =>
        /\ r.job \in Accepted
        /\ jobs[r.job].digest = r.digest
        /\ jobs[r.job].key = r.key

\* A step of one connection only has to say the truth to its client.
LEMMA ConnectionInv ==
    ASSUME HttpInv, NEW c \in Connections, NEW r \in Conns, ToldOfJob(r),
           conn' = [conn EXCEPT ![c] = r], UNCHANGED <<ready, enabled, jobs, charged>>
    PROVE  HttpInv'
<1>1. conn' \in [Connections -> Conns]
    BY DEF HttpInv, Http!BoundaryTypeOK, Conns, Statuses
<1>2. Http!BoundaryTypeOK'
    BY <1>1 DEF HttpInv, Http!BoundaryTypeOK, Conns, Statuses, Http!JobIds
<1>3. Accepted' = Accepted /\ Http!Live' = Http!Live
    BY DEF Accepted, Http!Live, Http!JobIds
<1>4. ASSUME NEW d \in Connections, conn'[d].status = 202
      PROVE  /\ conn'[d].job \in Accepted'
             /\ jobs'[conn'[d].job].digest = conn'[d].digest
             /\ jobs'[conn'[d].job].key = conn'[d].key
    BY <1>3, <1>4 DEF HttpInv, Http!BoundaryTypeOK, ToldOfJob
<1> QED BY <1>2, <1>3, <1>4 DEF HttpInv

\* An answer is a connection, and tells of no job when its status is not 202.
LEMMA AnswerInv ==
    ASSUME HttpInv, NEW c \in Connections, NEW status \in Statuses
    PROVE  /\ Http!Answer(c, status) \in Conns
           /\ status # 202 => ToldOfJob(Http!Answer(c, status))
           /\ Http!Answer(c, status).status = status
<1> DEFINE r == conn[c]
<1>1. r \in Conns
    BY DEF HttpInv, Http!BoundaryTypeOK, Conns, Statuses
<1> HIDE DEF r
<1>2. [r EXCEPT !.pc = "answered", !.status = status] \in Conns
    BY <1>1 DEF Conns
<1>3. [r EXCEPT !.pc = "answered", !.status = status].status = status
    BY <1>1 DEF Conns
<1>4. Http!Answer(c, status) = [r EXCEPT !.pc = "answered", !.status = status]
    BY DEF r, Http!Answer
<1>5. status # 202 => ToldOfJob(Http!Answer(c, status))
    BY <1>3, <1>4 DEF ToldOfJob
<1> QED BY <1>2, <1>3, <1>4, <1>5

LEMMA RepliesInv ==
    ASSUME HttpInv, NEW c \in Connections, NEW status \in Statuses \ {202},
           Http!Replies(c, status)
    PROVE  HttpInv'
<1> DEFINE r == Http!Answer(c, status)
<1>1. r \in Conns /\ ToldOfJob(r)
    BY AnswerInv
<1>2. conn' = [conn EXCEPT ![c] = r] /\ UNCHANGED <<ready, enabled, jobs, charged>>
    BY DEF Http!Replies
<1> HIDE DEF r
<1> QED BY <1>1, <1>2, ConnectionInv

LEMMA ArriveInv ==
    ASSUME HttpInv, NEW c \in Connections, NEW path \in Http!Paths,
           NEW framing \in Http!Framings, Http!Arrive(c, path, framing)
    PROVE  HttpInv'
<1> DEFINE r == conn[c]
           n == conn'[c]
<1>1. r \in Conns /\ ToldOfJob(r) /\ c \in DOMAIN conn
    BY DEF HttpInv, Http!BoundaryTypeOK, Conns, Statuses, ToldOfJob
<1>2. /\ conn' = [conn EXCEPT ![c] = n] /\ UNCHANGED <<ready, enabled, jobs, charged>>
      /\ \/ n = [[r EXCEPT !.path = path] EXCEPT !.pc = "routed"]
         \/ n = [[r EXCEPT !.path = path] EXCEPT !.pc = "reading"]
         \/ n = [[r EXCEPT !.path = path] EXCEPT !.pc = "answered",
                                                 !.status = Http!Refusal(framing)]
            /\ Http!Refusal(framing) # 0
    BY <1>1 DEF Http!Arrive
<1>3. Http!Refusal(framing) \in Statuses \ {202}
    BY DEF Http!Refusal, Statuses
<1> HIDE DEF r, n
<1> DEFINE opened == [r EXCEPT !.path = path]
<1>6. /\ opened \in Conns /\ opened.status = r.status
      /\ opened.job = r.job /\ opened.key = r.key /\ opened.digest = r.digest
    BY <1>1 DEF Conns
<1>7. \/ n = [opened EXCEPT !.pc = "routed"]
      \/ n = [opened EXCEPT !.pc = "reading"]
      \/ n = [opened EXCEPT !.pc = "answered", !.status = Http!Refusal(framing)]
    BY <1>2
<1> HIDE DEF opened
<1>4. n \in Conns /\ n.job = r.job /\ n.key = r.key /\ n.digest = r.digest
      /\ n.status \in {r.status, Http!Refusal(framing)}
  <2>1. CASE n = [opened EXCEPT !.pc = "routed"]
      BY <1>6, <2>1 DEF Conns
  <2>2. CASE n = [opened EXCEPT !.pc = "reading"]
      BY <1>6, <2>2 DEF Conns
  <2>3. CASE n = [opened EXCEPT !.pc = "answered", !.status = Http!Refusal(framing)]
      BY <1>3, <1>6, <2>3 DEF Conns
  <2> QED BY <1>7, <2>1, <2>2, <2>3
<1>5. ToldOfJob(n)
    BY <1>1, <1>3, <1>4 DEF ToldOfJob
<1> QED BY <1>2, <1>4, <1>5, ConnectionInv

LEMMA ChunkInv ==
    ASSUME HttpInv, NEW c \in Connections, NEW n \in 0..MaxChunk, NEW more \in BOOLEAN,
           Http!Chunk(c, n, more)
    PROVE  HttpInv'
<1> DEFINE r == conn[c]
           m == conn'[c]
<1>1. r \in Conns /\ ToldOfJob(r) /\ c \in DOMAIN conn
    BY DEF HttpInv, Http!BoundaryTypeOK, Conns, Statuses, ToldOfJob
<1>2. conn' = [conn EXCEPT ![c] = m] /\ UNCHANGED <<ready, enabled, jobs, charged>>
    BY <1>1 DEF Http!Chunk
<1>3. CASE Http!Overflows(c, n)
  <2>1. m = Http!Answer(c, 413)
      BY <1>1, <1>3 DEF Http!Chunk
  <2>2. m \in Conns /\ ToldOfJob(m)
      BY <2>1, AnswerInv DEF Statuses
  <2> HIDE DEF m
  <2> QED BY <1>2, <2>2, ConnectionInv
<1>4. CASE ~Http!Overflows(c, n)
  <2>1. \/ m = [r EXCEPT !.body = r.body + n, !.pc = "reading"]
        \/ m = [r EXCEPT !.body = r.body + n, !.pc = "routed"]
    <3>1. CASE more
      <4>1. conn' = [conn EXCEPT ![c] = [conn[c] EXCEPT !.body = conn[c].body + n, !.pc = "reading"]]
          BY <1>4, <3>1 DEF Http!Chunk
      <4> QED BY <1>1, <4>1
    <3>2. CASE ~more
      <4>1. conn' = [conn EXCEPT ![c] = [conn[c] EXCEPT !.body = conn[c].body + n, !.pc = "routed"]]
          BY <1>4, <3>2 DEF Http!Chunk
      <4> QED BY <1>1, <4>1
    <3> QED BY <3>1, <3>2
  <2>2. r.body + n \in 0..BodyLimit
    <3>1. r.body \in 0..BodyLimit
        BY <1>1 DEF Conns
    <3> QED BY <1>4, <3>1, PartsAssumption DEF Http!Overflows, Http!BoundaryAssumption
  <2> HIDE DEF r, m
  <2>3. m \in Conns /\ m.status = r.status /\ m.job = r.job /\ m.key = r.key /\ m.digest = r.digest
      BY <1>1, <2>1, <2>2 DEF Conns
  <2>4. ToldOfJob(m)
      BY <1>1, <2>3 DEF ToldOfJob
  <2> QED BY <1>2, <2>3, <2>4, ConnectionInv
<1> QED BY <1>3, <1>4

LEMMA DisconnectInv ==
    ASSUME HttpInv, NEW c \in Connections, Http!Disconnect(c)
    PROVE  HttpInv'
<1> DEFINE r == conn[c]
           m == conn'[c]
<1>1. r \in Conns /\ ToldOfJob(r) /\ c \in DOMAIN conn
    BY DEF HttpInv, Http!BoundaryTypeOK, Conns, Statuses, ToldOfJob
<1>2. /\ conn' = [conn EXCEPT ![c] = m] /\ UNCHANGED <<ready, enabled, jobs, charged>>
      /\ m = [r EXCEPT !.pc = "gone"]
    BY <1>1 DEF Http!Disconnect
<1> HIDE DEF r, m
<1>3. m \in Conns /\ m.status = r.status /\ m.job = r.job /\ m.key = r.key /\ m.digest = r.digest
    BY <1>1, <1>2 DEF Conns
<1>4. ToldOfJob(m)
    BY <1>1, <1>3 DEF ToldOfJob
<1> QED BY <1>2, <1>3, <1>4, ConnectionInv

LEMMA CloseInv ==
    ASSUME HttpInv, NEW c \in Connections, Http!Close(c)
    PROVE  HttpInv'
<1>1. Http!Idle \in Conns
  <2>1. /\ 0 \in 0..BodyLimit /\ 0 \in 0..MaxJobs /\ 0 \in Statuses
        /\ "/health" \in Http!Paths
      BY PartsAssumption DEF Http!BoundaryAssumption, Http!Paths, Statuses
  <2> QED BY <2>1 DEF Http!Idle, Conns
<1>2. ToldOfJob(Http!Idle)
    BY DEF ToldOfJob, Http!Idle
<1> QED BY <1>1, <1>2, ConnectionInv DEF Http!Close

\* A prediction is charged, or refused: no job is touched.
LEMMA PredictInv ==
    ASSUME HttpInv, NEW c \in Connections, Http!Predict(c)
    PROVE  HttpInv'
<1> DEFINE r == conn'[c]
<1>1. r \in Conns /\ ToldOfJob(r) /\ conn' = [conn EXCEPT ![c] = r]
    BY AnswerInv DEF Http!Predict, HttpInv, Http!BoundaryTypeOK, Statuses
<1> HIDE DEF r
<1>2. charged' \in [{"solve", "predict"} -> 0..Budget] /\ charged'["solve"] = charged["solve"]
    BY PartsAssumption DEF Http!Predict, Http!Charge, Http!Admits, HttpInv, Http!BoundaryTypeOK,
       Http!BoundaryAssumption
<1>3. UNCHANGED <<ready, enabled, jobs>>
    BY DEF Http!Predict
<1>4. conn' \in [Connections -> Conns]
    BY <1>1 DEF HttpInv, Http!BoundaryTypeOK, Conns, Statuses
<1>5. Http!BoundaryTypeOK'
    BY <1>2, <1>3, <1>4 DEF HttpInv, Http!BoundaryTypeOK, Conns, Statuses, Http!JobIds
<1>6. Accepted' = Accepted /\ Http!Live' = Http!Live
    BY <1>3 DEF Accepted, Http!Live, Http!JobIds
<1>7. ASSUME NEW d \in Connections, conn'[d].status = 202
      PROVE  /\ conn'[d].job \in Accepted'
             /\ jobs'[conn'[d].job].digest = conn'[d].digest
             /\ jobs'[conn'[d].job].key = conn'[d].key
    BY <1>1, <1>3, <1>6, <1>7 DEF HttpInv, Http!BoundaryTypeOK, ToldOfJob
<1> QED BY <1>2, <1>3, <1>5, <1>6, <1>7 DEF HttpInv

\* A client is told of a job with the key and the digest of its request.
Tells(c, j, key, d) == [Http!Answer(c, 202) EXCEPT !.job = j, !.key = key, !.digest = d]

LEMMA TellsInv ==
    ASSUME HttpInv, NEW c \in Connections, NEW j \in Http!JobIds,
           NEW key \in Keys \cup {None}, NEW d \in Digests
    PROVE  /\ Tells(c, j, key, d) \in Conns /\ Tells(c, j, key, d).status = 202
           /\ Tells(c, j, key, d).job = j /\ Tells(c, j, key, d).key = key
           /\ Tells(c, j, key, d).digest = d
<1> DEFINE r == Http!Answer(c, 202)
<1>1. r \in Conns /\ r.status = 202
    BY AnswerInv DEF Statuses
<1>2. j \in 0..MaxJobs
    BY PartsAssumption DEF Http!JobIds, Http!BoundaryAssumption
<1> HIDE DEF r
<1>3. [r EXCEPT !.job = j, !.key = key, !.digest = d] \in Conns
    BY <1>1, <1>2 DEF Conns
<1> DEFINE m == [r EXCEPT !.job = j, !.key = key, !.digest = d]
<1>4. m.status = 202 /\ m.job = j /\ m.key = key /\ m.digest = d
    BY <1>1 DEF Conns
<1>5. m = Tells(c, j, key, d)
    BY DEF r, Tells
<1> HIDE DEF m
<1> QED BY <1>3, <1>4, <1>5 DEF m

LEMMA ReplayInv ==
    ASSUME HttpInv, NEW c \in Connections, NEW key \in Keys \cup {None}, NEW d \in Digests,
           Http!Replay(c, key, d)
    PROVE  HttpInv'
<1>1. PICK j \in Http!Bound(key) :
        conn' = [conn EXCEPT ![c] =
            IF jobs[j].digest = d
            THEN Tells(c, j, key, d) ELSE Http!Answer(c, 409)]
    BY DEF Http!Replay, Tells
<1>2. UNCHANGED <<ready, enabled, jobs, charged>>
    BY DEF Http!Replay
<1>3. j \in Http!JobIds /\ j \in Accepted /\ jobs[j].key = key
    BY <1>1 DEF Http!Bound, Http!Live, Accepted
<1>4. CASE jobs[j].digest = d
  <2> DEFINE m == Tells(c, j, key, d)
  <2>1. m \in Conns /\ m.status = 202 /\ m.job = j /\ m.key = key /\ m.digest = d
      BY <1>3, TellsInv
  <2>2. conn' = [conn EXCEPT ![c] = m]
      BY <1>1, <1>4
  <2> HIDE DEF m
  <2>3. ToldOfJob(m)
      BY <1>3, <1>4, <2>1 DEF ToldOfJob
  <2> QED BY <1>2, <2>1, <2>2, <2>3, ConnectionInv
<1>5. CASE jobs[j].digest # d
  <2> DEFINE m == Http!Answer(c, 409)
  <2>1. m \in Conns /\ ToldOfJob(m)
      BY AnswerInv DEF Statuses
  <2>2. conn' = [conn EXCEPT ![c] = m]
      BY <1>1, <1>5
  <2> HIDE DEF m
  <2> QED BY <1>2, <2>1, <2>2, ConnectionInv
<1> QED BY <1>4, <1>5

\* A submission that is refused, for capacity or by admission, is not charged.
LEMMA SubmitRefusedInv ==
    ASSUME HttpInv, NEW c \in Connections, NEW key \in Keys \cup {None}, NEW d \in Digests,
           Http!Submit(c, key, d),
           Cardinality(Http!Active) >= Capacity \/ ~Http!Admits("solve")
    PROVE  HttpInv'
<1>1. Cardinality(Http!Active) \in Nat
  <2>1. IsFiniteSet(Http!JobIds)
      BY PartsAssumption, FS_Interval DEF Http!JobIds, Http!BoundaryAssumption
  <2>2. IsFiniteSet(Http!Active)
      BY <2>1, FS_Subset DEF Http!Active
  <2> QED BY <2>2, FS_CardinalityType
<1>2. ~(Http!ChargedHere /\ Http!Admits("solve"))
    BY <1>1, SameCardinality, PartsAssumption
       DEF Http!ChargedHere, Http!BoundaryAssumption, Http!Admits
<1>3. UNCHANGED <<ready, enabled, jobs, charged>>
    BY <1>2, SameCardinality DEF Http!Submit
<1>4. \/ conn' = [conn EXCEPT ![c] = Http!Answer(c, 503)]
      \/ conn' = [conn EXCEPT ![c] = Http!Answer(c, 429)]
    BY SameCardinality DEF Http!Submit
<1> QED BY <1>3, <1>4, AnswerInv, ConnectionInv DEF Statuses

\* A new job is charged and recorded in one step.
LEMMA SubmitAcceptedInv ==
    ASSUME HttpInv, NEW c \in Connections, NEW key \in Keys \cup {None}, NEW d \in Digests,
           Http!Submit(c, key, d),
           ~(Cardinality(Http!Active) >= Capacity \/ ~Http!Admits("solve"))
    PROVE  HttpInv'
<1>1. IsFiniteSet(Http!JobIds)
    BY PartsAssumption, FS_Interval DEF Http!JobIds, Http!BoundaryAssumption
<1>2. Http!ChargedHere /\ Http!Admits("solve")
  <2>1. Cardinality(Http!Active) \in Nat
      BY <1>1, FS_Subset, FS_CardinalityType DEF Http!Active
  <2> QED BY <2>1, SameCardinality, PartsAssumption
           DEF Http!ChargedHere, Http!BoundaryAssumption, Http!Admits
<1>3. charged["solve"] < Budget /\ charged' = [charged EXCEPT !["solve"] = @ + 1]
    BY <1>2 DEF Http!Submit, Http!Charge, Http!Admits
<1> DEFINE record == [state |-> "active", digest |-> d, key |-> key]
<1>4. PICK j \in Http!JobIds :
        /\ jobs[j].state = "absent"
        /\ jobs' = [jobs EXCEPT ![j] = record]
        /\ conn' = [conn EXCEPT ![c] = Tells(c, j, key, d)]
    BY SameCardinality DEF Http!Submit, Tells
<1>5. Http!Bound(key) = {} /\ UNCHANGED <<ready, enabled>>
    BY DEF Http!Submit
<1> DEFINE m == Tells(c, j, key, d)
<1>6. m \in Conns /\ m.status = 202 /\ m.job = j /\ m.key = key /\ m.digest = d
    BY TellsInv
<1>7. conn' = [conn EXCEPT ![c] = m]
    BY <1>4
<1> HIDE DEF m
<1>8. /\ conn' \in [Connections -> Conns]
      /\ jobs \in [Http!JobIds -> JobRecords] /\ jobs' \in [Http!JobIds -> JobRecords]
  <2>1. record \in JobRecords
      BY DEF JobRecords
  <2> HIDE DEF record
  <2>2. conn \in [Connections -> Conns] /\ jobs \in [Http!JobIds -> JobRecords]
      BY DEF HttpInv, Http!BoundaryTypeOK, Conns, Statuses, JobRecords
  <2> QED BY <1>4, <1>6, <1>7, <2>1, <2>2
<1>9. charged' \in [{"solve", "predict"} -> 0..Budget] /\ charged'["solve"] = charged["solve"] + 1
    BY <1>3, PartsAssumption DEF HttpInv, Http!BoundaryTypeOK, Http!BoundaryAssumption
<1>10. Http!BoundaryTypeOK'
    BY <1>5, <1>8, <1>9 DEF HttpInv, Http!BoundaryTypeOK, Conns, Statuses, JobRecords, Http!JobIds
<1>11. Accepted' = Accepted \cup {j} /\ j \notin Accepted /\ Http!Live' = Http!Live \cup {j}
    BY <1>4, <1>8 DEF Accepted, Http!Live, Http!JobIds
<1>12. charged'["solve"] = Cardinality(Accepted')
  <2>1. IsFiniteSet(Accepted)
      BY <1>1, FS_Subset DEF Accepted
  <2>2. Cardinality(Accepted \cup {j}) = Cardinality(Accepted) + 1
      BY <1>11, <2>1, FS_AddElement
  <2> QED BY <1>9, <1>11, <2>2 DEF HttpInv
<1>13. \A i \in Accepted : i # j /\ jobs'[i] = jobs[i]
    BY <1>4, <1>8, <1>11 DEF Accepted
<1>14. jobs'[j].digest = d /\ jobs'[j].key = key
    BY <1>4, <1>8
<1>15. ASSUME NEW e \in Connections, conn'[e].status = 202
       PROVE  /\ conn'[e].job \in Accepted'
              /\ jobs'[conn'[e].job].digest = conn'[e].digest
              /\ jobs'[conn'[e].job].key = conn'[e].key
  <2>1. CASE e = c
      BY <1>6, <1>7, <1>11, <1>14, <2>1 DEF HttpInv, Http!BoundaryTypeOK
  <2>2. CASE e # c
    <3>1. conn'[e] = conn[e]
        BY <1>7, <2>2 DEF HttpInv, Http!BoundaryTypeOK
    <3> QED BY <1>11, <1>13, <1>15, <3>1 DEF HttpInv
  <2> QED BY <2>1, <2>2
<1>16. ASSUME NEW i \in Http!Live, NEW k \in Http!Live, jobs'[i].key = jobs'[k].key
       PROVE  i = k \/ jobs'[i].key = None
  <2>1. i \in Accepted /\ k \in Accepted
      BY DEF Http!Live, Accepted
  <2> QED BY <1>13, <1>16, <2>1 DEF HttpInv
<1>17. ASSUME NEW i \in Http!Live, jobs'[i].key = key
       PROVE  key = None
  <2>1. i \in Accepted
      BY DEF Http!Live, Accepted
  <2> QED BY <1>5, <1>13, <1>17, <2>1 DEF Http!Bound
<1>18. \A i, k \in Http!Live' : jobs'[i].key = jobs'[k].key => i = k \/ jobs'[i].key = None
    BY <1>11, <1>14, <1>16, <1>17
<1> QED BY <1>10, <1>12, <1>15, <1>18 DEF HttpInv

LEMMA JobMovesInv ==
    ASSUME HttpInv, NEW j \in Http!JobIds, Http!JobMoves(j)
    PROVE  HttpInv'
<1>1. PICK s \in {<<"active", "ended">>, <<"ended", "expired">>} :
        jobs[j].state = s[1] /\ jobs' = [jobs EXCEPT ![j].state = s[2]]
    BY DEF Http!JobMoves
<1>2. UNCHANGED <<ready, enabled, conn, charged>>
    BY DEF Http!JobMoves
<1>3. jobs \in [Http!JobIds -> JobRecords]
    BY DEF HttpInv, Http!BoundaryTypeOK, JobRecords
<1>4. jobs' \in [Http!JobIds -> JobRecords]
    BY <1>1, <1>3 DEF JobRecords
<1>5. /\ \A i \in Http!JobIds : jobs'[i].digest = jobs[i].digest /\ jobs'[i].key = jobs[i].key
      /\ \A i \in Http!JobIds : i # j => jobs'[i] = jobs[i]
      /\ jobs'[j].state = s[2]
    BY <1>1, <1>3 DEF JobRecords
<1>6. Accepted' = Accepted /\ Http!Live' \subseteq Http!Live
    BY <1>1, <1>5 DEF Accepted, Http!Live, Http!JobIds
<1>7. Http!BoundaryTypeOK'
    BY <1>2, <1>4 DEF HttpInv, Http!BoundaryTypeOK, JobRecords, Http!JobIds, Http!Paths
<1>8. ASSUME NEW e \in Connections, conn'[e].status = 202
      PROVE  /\ conn'[e].job \in Accepted'
             /\ jobs'[conn'[e].job].digest = conn'[e].digest
             /\ jobs'[conn'[e].job].key = conn'[e].key
    BY <1>2, <1>5, <1>6, <1>8 DEF HttpInv, Accepted
<1>9. \A i, k \in Http!Live' : jobs'[i].key = jobs'[k].key => i = k \/ jobs'[i].key = None
    BY <1>5, <1>6 DEF HttpInv, Http!Live
<1> QED BY <1>2, <1>6, <1>7, <1>8, <1>9 DEF HttpInv

LEMMA HandleInv ==
    ASSUME HttpInv, NEW c \in Connections, Http!Handle(c)
    PROVE  HttpInv'
<1>1. CASE \/ Http!Health(c) \/ Http!Invalid(c) \/ Http!NotFound(c)
           \/ Http!SolveUnavailable(c) \/ Http!Lookup(c)
  <2>1. \E status \in {200, 404, 409, 422, 503} : Http!Replies(c, status)
      BY <1>1 DEF Http!Health, Http!Invalid, Http!NotFound, Http!SolveUnavailable, Http!Lookup
  <2> QED BY <2>1, RepliesInv DEF Statuses
<1>2. CASE Http!Predict(c)
    BY <1>2, PredictInv
<1>3. CASE \E key \in Keys \cup {None}, d \in Digests :
              Http!Replay(c, key, d) \/ Http!Submit(c, key, d)
    BY <1>3, ReplayInv, SubmitRefusedInv, SubmitAcceptedInv
<1> QED BY <1>1, <1>2, <1>3 DEF Http!Handle

LEMMA HttpNextInv == HttpInv /\ Http!Next => HttpInv'
<1> SUFFICES ASSUME HttpInv, Http!Next PROVE HttpInv'
    OBVIOUS
<1>1. ASSUME NEW c \in Connections,
             \/ \E path \in Http!Paths, framing \in Http!Framings : Http!Arrive(c, path, framing)
             \/ \E n \in 0..MaxChunk, more \in BOOLEAN : Http!Chunk(c, n, more)
             \/ Http!Disconnect(c) \/ Http!Handle(c) \/ Http!Close(c)
      PROVE  HttpInv'
    BY <1>1, ArriveInv, ChunkInv, DisconnectInv, HandleInv, CloseInv
<1>2. ASSUME NEW j \in Http!JobIds, Http!JobMoves(j)
      PROVE  HttpInv'
    BY <1>2, JobMovesInv
<1> QED BY <1>1, <1>2 DEF Http!Next

LEMMA HttpRests == HttpInv /\ UNCHANGED httpVars => HttpInv'
<1> SUFFICES ASSUME HttpInv, UNCHANGED httpVars PROVE HttpInv'
    OBVIOUS
<1>1. UNCHANGED <<ready, enabled, conn, jobs, charged>>
    BY DEF httpVars
<1> QED BY <1>1 DEF HttpInv, Http!BoundaryTypeOK, Accepted, Http!Live, Http!JobIds, Http!Paths

-----------------------------------------------------------------------------
(***************************************************************************)
(* The registry of the demo.                                               *)
(***************************************************************************)
\* The least element of a set of naturals.
Smaller == {p \in Nat \X Nat : p[1] < p[2]}

LEMMA Least ==
    ASSUME NEW S \in SUBSET Nat, S # {}
    PROVE  \E n \in S : \A m \in S : n <= m
<1>1. IsWellFoundedOn(Smaller, Nat)
    BY NatLessThanWellFounded DEF OpToRel, Smaller
<1>2. PICK n \in S : \A m \in S : <<m, n>> \notin Smaller
    BY <1>1, WFMin
<1>3. ASSUME NEW m \in S PROVE n <= m
  <2>1. <<m, n>> \in Nat \X Nat /\ <<m, n>>[1] = m /\ <<m, n>>[2] = n
      OBVIOUS
  <2> QED BY <1>2, <2>1 DEF Smaller
<1> QED BY <1>3

\* Fewer sessions were used before the one that was used least recently than before any
\* other: a registry that is not empty has one.
LEMMA OldestExists ==
    ASSUME RegistryOk, NEW kept, kept \subseteq DOMAIN registry, kept # {}
    PROVE  Demo!Oldest(kept) # {}
<1> DEFINE Before(r) == {q \in kept : <<q, r>> \in older}
           Counts == {Cardinality(Before(r)) : r \in kept}
<1>1. \A r : IsFiniteSet(Before(r)) /\ Cardinality(Before(r)) \in Nat
  <2>1. IsFiniteSet(kept)
      BY FS_Subset DEF RegistryOk
  <2> QED BY <2>1, FS_Subset, FS_CardinalityType
<1>2. PICK r \in kept : \A s \in kept : Cardinality(Before(r)) <= Cardinality(Before(s))
  <2>1. Counts \subseteq Nat /\ Counts # {}
      BY <1>1
  <2>2. PICK n \in Counts : \A m \in Counts : n <= m
      BY <2>1, Least
  <2> QED BY <2>2
<1>3. ASSUME NEW s \in kept \ {r}, <<r, s>> \notin older
      PROVE  FALSE
  <2>1. <<s, r>> \in older /\ <<s, s>> \notin older
      BY <1>3 DEF RegistryOk
  <2>2. Before(s) \subseteq Before(r)
      BY <2>1 DEF RegistryOk
  <2>3. s \in Before(r) /\ s \notin Before(s)
      BY <2>1
  <2>4. /\ Cardinality(Before(s)) <= Cardinality(Before(r))
        /\ Cardinality(Before(s)) = Cardinality(Before(r)) => Before(s) = Before(r)
      BY <1>1, <2>2, FS_Subset
  <2>5. Cardinality(Before(r)) <= Cardinality(Before(s))
      BY <1>2, <1>3
  <2>6. Before(s) # Before(r) /\ Cardinality(Before(s)) \in Nat /\ Cardinality(Before(r)) \in Nat
      BY <1>1, <2>3
  <2> HIDE DEF Before
  <2> QED BY <2>4, <2>5, <2>6
<1> QED BY <1>2, <1>3 DEF Demo!Oldest

\* There is room for a session when it is reserved.
LEMMA RoomIsMade ==
    ASSUME RegistryOk, NEW kept, kept \subseteq DOMAIN registry, NEW s
    PROVE  /\ Demo!MakeRoom(kept, s) \subseteq kept
           /\ s \in Demo!MakeRoom(kept, s) \/ Cardinality(Demo!MakeRoom(kept, s)) < MaxSessions
<1>1. IsFiniteSet(kept) /\ Cardinality(kept) \in Nat /\ Cardinality(kept) <= MaxSessions
  <2>1. IsFiniteSet(kept) /\ Cardinality(kept) <= Cardinality(DOMAIN registry)
      BY FS_Subset DEF RegistryOk
  <2>2. Cardinality(kept) \in Nat /\ Cardinality(DOMAIN registry) \in Nat
      BY <2>1, FS_CardinalityType DEF RegistryOk
  <2> QED BY <2>1, <2>2, PartsAssumption DEF RegistryOk, Demo!LimitsAssumption
<1>2. CASE s \notin kept /\ Cardinality(kept) >= MaxSessions
  <2>1. Demo!MakeRoom(kept, s) = kept \ Demo!Oldest(kept)
      BY <1>2, SameCardinality DEF Demo!MakeRoom
  <2>2. kept # {}
      BY <1>1, <1>2, FS_EmptySet, PartsAssumption DEF Demo!LimitsAssumption
  <2>3. Demo!Oldest(kept) # {} /\ Demo!Oldest(kept) \subseteq kept
      BY <2>2, OldestExists DEF Demo!Oldest
  <2> DEFINE rest == kept \ Demo!Oldest(kept)
  <2>4. /\ IsFiniteSet(rest) /\ Cardinality(rest) <= Cardinality(kept)
        /\ Cardinality(rest) = Cardinality(kept) => rest = kept
      BY <1>1, FS_Subset
  <2>5. rest # kept
      BY <2>3
  <2>6. Cardinality(rest) \in Nat
      BY <2>4, FS_CardinalityType
  <2> QED BY <1>1, <2>1, <2>4, <2>5, <2>6, PartsAssumption DEF Demo!LimitsAssumption
<1>3. CASE ~(s \notin kept /\ Cardinality(kept) >= MaxSessions)
  <2>1. Demo!MakeRoom(kept, s) = kept
      BY <1>3, SameCardinality DEF Demo!MakeRoom
  <2> QED BY <1>1, <1>3, <2>1, PartsAssumption DEF Demo!LimitsAssumption
<1> QED BY <1>2, <1>3

\* A use of a session leaves the records and the order of the others as they were.
LEMMA UseKeeps ==
    ASSUME RegistryOk, NEW kept, kept \subseteq DOMAIN registry, NEW s \in Sessions,
           NEW sequence \in Nat \ {0}, NEW t \in Nat, Demo!Use(kept, s, sequence, t),
           s \in kept \/ Cardinality(kept) < MaxSessions
    PROVE  /\ RegistryOk'
           /\ DOMAIN registry' = kept \cup {s} /\ registry'[s].sequence = sequence
           /\ \A r \in kept \ {s} : registry'[r] = registry[r]
<1>1. /\ registry' = [r \in kept \cup {s} |->
            IF r = s THEN [sequence |-> sequence, touched_at |-> t] ELSE registry[r]]
      /\ older' = (older \cap ((kept \ {s}) \X (kept \ {s}))) \cup ((kept \ {s}) \X {s})
    BY DEF Demo!Use
<1>2. DOMAIN registry' = kept \cup {s}
    BY <1>1
<1>3. registry' \in [DOMAIN registry' -> [sequence: Nat \ {0}, touched_at: Nat]]
    BY <1>1, <1>2 DEF RegistryOk
<1>4. IsFiniteSet(kept \cup {s}) /\ Cardinality(kept \cup {s}) <= MaxSessions
  <2>1. IsFiniteSet(kept) /\ Cardinality(kept) <= Cardinality(DOMAIN registry)
      BY FS_Subset DEF RegistryOk
  <2>2. Cardinality(kept) \in Nat /\ Cardinality(DOMAIN registry) \in Nat
      BY <2>1, FS_CardinalityType DEF RegistryOk
  <2>3. CASE s \in kept
    <3>1. kept \cup {s} = kept
        BY <2>3
    <3> QED BY <2>1, <2>2, <3>1, PartsAssumption DEF RegistryOk, Demo!LimitsAssumption
  <2>4. CASE s \notin kept
    <3>1. IsFiniteSet(kept \cup {s}) /\ Cardinality(kept \cup {s}) = Cardinality(kept) + 1
        BY <2>1, <2>4, FS_AddElement
    <3> QED BY <2>2, <2>4, <3>1, PartsAssumption DEF Demo!LimitsAssumption
  <2> QED BY <2>3, <2>4
<1>5. \A q, r \in kept \cup {s} :
        <<q, r>> \in older' <=>
            q # s /\ (r = s \/ <<q, r>> \in older)
    BY <1>1
<1>6. older' \subseteq (kept \cup {s}) \X (kept \cup {s})
    BY <1>1
<1>7. /\ \A q, r \in kept \cup {s} : <<q, r>> \in older' => <<r, q>> \notin older'
      /\ \A q, r \in kept \cup {s} : q = r \/ <<q, r>> \in older' \/ <<r, q>> \in older'
      /\ \A p, q, r \in kept \cup {s} :
            <<p, q>> \in older' /\ <<q, r>> \in older' => <<p, r>> \in older'
    BY <1>5 DEF RegistryOk
<1> QED BY <1>1, <1>2, <1>3, <1>4, <1>6, <1>7 DEF RegistryOk

-----------------------------------------------------------------------------
(***************************************************************************)
(* The coordinator keeps its invariant.                                    *)
(***************************************************************************)
\* What the invariant says of one handler's ticket, when the registry has these records.
TicketOk(n, records) ==
    /\ n.pc = "reserving" => ~n.superseded
    /\ n.pc \in Demo!Active \ {"reserving"} /\ ~n.dropped =>
        /\ n.session \in DOMAIN records
        /\ n.sequence <= records[n.session].sequence
        /\ n.superseded <=> n.sequence < records[n.session].sequence
    /\ n.pc \in Demo!Shown => ~n.superseded \/ n.dropped
    /\ n.pc = "stale" => n.superseded \/ n.dropped

LEMMA TicketsAreOk ==
    DemoInv <=> /\ RegistryOk /\ handler \in [Handlers -> Demo!Handler] /\ now \in Nat
                /\ \A h \in Handlers : TicketOk(handler[h], registry)
                /\ Demo!NumbersAreOwn
BY DEF DemoInv, TicketsOk, Holds, TicketOk, Demo!LastCommitWinsWhileKept, Demo!StaleIsJustified

\* A step of one handler that numbers no session anew: its ticket stays what it was, or is
\* given up.
LEMMA TicketInv ==
    ASSUME DemoInv, NEW h \in Handlers, NEW n \in Demo!Handler,
           handler' = [handler EXCEPT ![h] = n], now' = now, RegistryOk',
           \A s \in DOMAIN registry :
              s \in DOMAIN registry' /\ registry'[s].sequence = registry[s].sequence,
           TicketOk(n, registry),
           n.pc \in Demo!Active \ {"reserving"} =>
              /\ handler[h].pc \in Demo!Active \ {"reserving"}
              /\ n.session = handler[h].session /\ n.sequence = handler[h].sequence
              /\ n.dropped = handler[h].dropped
    PROVE  DemoInv'
<1>1. handler' \in [Handlers -> Demo!Handler] /\ now' \in Nat
    BY DEF DemoInv
<1>2. \A g \in Handlers : TicketOk(handler'[g], registry)
    BY TicketsAreOk DEF DemoInv
<1>3. \A g \in Handlers : TicketOk(handler'[g], registry')
    BY <1>1, <1>2 DEF TicketOk, Demo!Handler
<1>4. Demo!NumbersAreOwn'
    BY DEF Demo!NumbersAreOwn, DemoInv
<1>5. TicketsOk' /\ Demo!LastCommitWinsWhileKept' /\ Demo!StaleIsJustified'
    BY <1>3 DEF TicketOk, TicketsOk, Holds, Demo!LastCommitWinsWhileKept, Demo!StaleIsJustified
<1> QED BY <1>1, <1>4, <1>5 DEF DemoInv

LEMMA CommitInv ==
    ASSUME DemoInv, NEW h \in Handlers, NEW s \in Sessions, Demo!Commit(h, s)
    PROVE  DemoInv'
<1> DEFINE free == Demo!Free(s)
           n == [free EXCEPT !.pc = "reserving", !.at = now]
<1>1. free \in Demo!Handler /\ ~free.superseded
    BY DEF Demo!Free, Demo!Handler
<1> HIDE DEF free
<1>2. n \in Demo!Handler /\ n.pc = "reserving" /\ ~n.superseded
    BY <1>1 DEF Demo!Handler, Demo!Active, DemoInv
<1>3. TicketOk(n, registry) /\ n.pc = "reserving"
    BY <1>2 DEF TicketOk, Demo!Shown
<1>4. handler' = [handler EXCEPT ![h] = n] /\ UNCHANGED <<registry, older, now>>
    BY DEF Demo!Commit, free
<1> HIDE DEF n
<1>5. RegistryOk'
    BY <1>4 DEF DemoInv, RegistryOk
<1> QED BY <1>2, <1>3, <1>4, <1>5, TicketInv

LEMMA ReleaseInv ==
    ASSUME DemoInv, NEW h \in Handlers, Demo!Release(h)
    PROVE  DemoInv'
<1> DEFINE n == Demo!Free(Demo!NoSession)
<1>1. Demo!NoSession \in Sessions
    BY PartsAssumption DEF Demo!NoSession, Demo!LimitsAssumption
<1>2. n \in Demo!Handler /\ n.pc = "idle"
    BY <1>1 DEF Demo!Handler, Demo!Free
<1>3. TicketOk(n, registry) /\ n.pc \notin Demo!Active
    BY <1>2 DEF TicketOk, Demo!Shown, Demo!Active
<1>4. handler' = [handler EXCEPT ![h] = n] /\ UNCHANGED <<registry, older, now>>
    BY DEF Demo!Release
<1> HIDE DEF n
<1>5. RegistryOk'
    BY <1>4 DEF DemoInv, RegistryOk
<1> QED BY <1>2, <1>3, <1>4, <1>5, TicketInv

LEMMA WakesInv ==
    ASSUME DemoInv, NEW h \in Handlers, Demo!Wakes(h)
    PROVE  DemoInv'
<1> DEFINE r == handler[h]
           n == [r EXCEPT !.pc = "checking", !.at = now]
<1>1. r \in Demo!Handler /\ TicketOk(r, registry) /\ now \in Nat /\ r.pc = "waiting"
    BY TicketsAreOk DEF DemoInv, Demo!Wakes
<1>2. handler' = [handler EXCEPT ![h] = n] /\ UNCHANGED <<registry, older, now>>
    BY DEF Demo!Wakes, DemoInv
<1> HIDE DEF r
<1>3. /\ n \in Demo!Handler /\ n.pc = "checking" /\ n.session = r.session
      /\ n.sequence = r.sequence /\ n.superseded = r.superseded /\ n.dropped = r.dropped
    BY <1>1 DEF Demo!Handler, Demo!Active
<1> HIDE DEF n
<1>4. TicketOk(n, registry)
    BY <1>1, <1>3 DEF TicketOk, Demo!Shown, Demo!Active
<1>5. RegistryOk'
    BY <1>2 DEF DemoInv, RegistryOk
<1>6. r.pc \in Demo!Active \ {"reserving"}
    BY <1>1 DEF Demo!Active
<1> QED BY <1>2, <1>3, <1>4, <1>5, <1>6, TicketInv DEF r

LEMMA PredictsInv ==
    ASSUME DemoInv, NEW h \in Handlers, NEW ok \in BOOLEAN, Demo!Predicts(h, ok)
    PROVE  DemoInv'
<1> DEFINE r == handler[h]
           n == [r EXCEPT !.pc = "rechecking", !.at = now, !.ok = ok]
<1>1. r \in Demo!Handler /\ TicketOk(r, registry) /\ now \in Nat /\ r.pc = "predicting"
    BY TicketsAreOk DEF DemoInv, Demo!Predicts
<1>2. handler' = [handler EXCEPT ![h] = n] /\ UNCHANGED <<registry, older, now>>
    BY DEF Demo!Predicts, DemoInv
<1> HIDE DEF r
<1>3. /\ n \in Demo!Handler /\ n.pc = "rechecking" /\ n.session = r.session
      /\ n.sequence = r.sequence /\ n.superseded = r.superseded /\ n.dropped = r.dropped
    BY <1>1 DEF Demo!Handler, Demo!Active
<1> HIDE DEF n
<1>4. TicketOk(n, registry)
    BY <1>1, <1>3 DEF TicketOk, Demo!Shown, Demo!Active
<1>5. RegistryOk'
    BY <1>2 DEF DemoInv, RegistryOk
<1>6. r.pc \in Demo!Active \ {"reserving"}
    BY <1>1 DEF Demo!Active
<1> QED BY <1>2, <1>3, <1>4, <1>5, <1>6, TicketInv DEF r

\* A ticket that is the latest of its session was not superseded, and one that is not was
\* superseded, unless the session has been forgotten since.
LEMMA CheckInv ==
    ASSUME DemoInv, NEW h \in Handlers, NEW pc \in {"predicting", "ready", "error"},
           Demo!Check(h, pc), handler[h].pc \in Demo!Active \ {"reserving"}
    PROVE  DemoInv'
<1> DEFINE r == handler[h]
           to == IF Demo!IsLatest(h) THEN pc ELSE "stale"
           n == [r EXCEPT !.pc = to, !.at = 0]
<1>1. r \in Demo!Handler /\ TicketOk(r, registry) /\ r.pc \in Demo!Active \ {"reserving"}
    BY TicketsAreOk DEF DemoInv
<1>2. handler' = [handler EXCEPT ![h] = n] /\ now' = now
    BY DEF Demo!Check, DemoInv
<1>3. /\ RegistryOk'
      /\ \A s \in DOMAIN registry :
            s \in DOMAIN registry' /\ registry'[s].sequence = registry[s].sequence
  <2>1. CASE Demo!IsLatest(h)
    <3> DEFINE s == r.session
               number == r.sequence
               t == r.at
    <3>1. /\ s \in DOMAIN registry /\ registry[s].sequence = number
          /\ Demo!Use(DOMAIN registry, s, number, t)
        BY <2>1 DEF Demo!Check, Demo!IsLatest, Demo!Touched
    <3>2. RegistryOk /\ s \in Sessions /\ number \in Nat \ {0} /\ t \in Nat
      <4>1. registry[s].sequence \in Nat \ {0}
          BY <3>1 DEF DemoInv, RegistryOk
      <4> QED BY <1>1, <3>1, <4>1 DEF DemoInv, Demo!Handler
    <3> HIDE DEF r, s, number, t
    <3>3. /\ RegistryOk' /\ DOMAIN registry' = (DOMAIN registry) \cup {s}
          /\ registry'[s].sequence = number
          /\ \A q \in (DOMAIN registry) \ {s} : registry'[q] = registry[q]
        BY <3>1, <3>2, UseKeeps
    <3> QED BY <3>1, <3>3
  <2>2. CASE ~Demo!IsLatest(h)
    <3>1. UNCHANGED <<registry, older>>
        BY <2>2 DEF Demo!Check
    <3> QED BY <3>1 DEF DemoInv, RegistryOk
  <2> QED BY <2>1, <2>2
<1>4. to \in {"predicting", "ready", "error", "stale"} /\ (to = "stale" <=> ~Demo!IsLatest(h))
    OBVIOUS
<1>5. Demo!IsLatest(h) <=> r.session \in DOMAIN registry
                           /\ registry[r.session].sequence = r.sequence
    BY DEF Demo!IsLatest
<1>6. r.session \in DOMAIN registry => registry[r.session].sequence \in Nat
    BY DEF DemoInv, RegistryOk
<1> HIDE DEF r, to
<1>7. /\ n \in Demo!Handler /\ n.pc = to /\ n.session = r.session
      /\ n.sequence = r.sequence /\ n.superseded = r.superseded /\ n.dropped = r.dropped
  <2>1. to \in Demo!Active \cup Demo!Shown \cup {"idle", "stale"}
      BY <1>4 DEF Demo!Active, Demo!Shown
  <2> QED BY <1>1, <2>1 DEF Demo!Handler
<1> HIDE DEF n
<1>8. r.sequence \in Nat
    BY <1>1 DEF Demo!Handler
<1>9. ~r.dropped => (r.superseded <=> ~Demo!IsLatest(h))
    BY <1>1, <1>5, <1>6, <1>8 DEF TicketOk
<1>10. TicketOk(n, registry)
    BY <1>1, <1>4, <1>7, <1>9 DEF TicketOk, Demo!Shown, Demo!Active
<1> QED BY <1>1, <1>2, <1>3, <1>7, <1>10, TicketInv DEF r

LEMMA DemoTickInv ==
    ASSUME DemoInv, Demo!Tick
    PROVE  DemoInv'
<1>1. now' \in Nat /\ UNCHANGED <<registry, older, handler>>
    BY DEF Demo!Tick, DemoInv
<1> QED BY <1>1 DEF DemoInv, RegistryOk, TicketsOk, Holds, Demo!LastCommitWinsWhileKept,
       Demo!StaleIsJustified, Demo!NumbersAreOwn

\* A reservation numbers its session upwards: whoever else holds a ticket of it is now
\* superseded, and whoever holds one of a session that made room has been forgotten.
LEMMA ReserveInv ==
    ASSUME DemoInv, NEW h \in Handlers, Demo!Reserve(h)
    PROVE  DemoInv'
<1> DEFINE s == handler[h].session
           t == handler[h].at
           pruned == Demo!Pruned(t)
           kept == Demo!MakeRoom(pruned, s)
           sequence == Demo!NextSequence(pruned, s)
           seen == Demo!Observe(h, kept)
           r == handler[h]
           n == [r EXCEPT !.pc = "waiting", !.at = 0, !.sequence = sequence,
                          !.eligible_at = t + Debounce]
<1>1. /\ RegistryOk /\ s \in Sessions /\ t \in Nat /\ r \in Demo!Handler
      /\ r.pc = "reserving" /\ ~r.superseded
    BY DEF DemoInv, Demo!Handler, Demo!Reserve, TicketsOk
<1>2. pruned \subseteq DOMAIN registry
    BY DEF Demo!Pruned
<1>3. /\ sequence \in Nat \ {0}
      /\ s \in pruned => sequence = registry[s].sequence + 1
    BY <1>1, <1>2 DEF RegistryOk, Demo!NextSequence
<1>4. Demo!Use(kept, s, sequence, t) /\ now' = now
    BY DEF Demo!Reserve
<1>5. kept \subseteq pruned /\ (s \in kept \/ Cardinality(kept) < MaxSessions)
    BY <1>1, <1>2, RoomIsMade
<1>6. handler' = [seen EXCEPT ![h].pc = "waiting", ![h].at = 0, ![h].sequence = sequence,
                              ![h].eligible_at = t + Debounce]
    BY DEF Demo!Reserve
<1>7. /\ seen[h] = r /\ seen \in [Handlers -> Demo!Handler]
      /\ \A g \in Handlers :
            /\ seen[g].pc = handler[g].pc /\ seen[g].session = handler[g].session
            /\ seen[g].sequence = handler[g].sequence
      /\ \A g \in Handlers \ {h} : handler[g].pc \in Demo!Active \ {"reserving"} =>
            /\ seen[g].superseded <=> handler[g].superseded \/ handler[g].session = s
            /\ seen[g].dropped <=> handler[g].dropped \/ handler[g].session \notin kept
      /\ \A g \in Handlers \ {h} : handler[g].pc \notin Demo!Active \ {"reserving"} =>
            seen[g] = handler[g]
  <2>1. ASSUME NEW g \in Handlers \ {h}, handler[g].pc \in Demo!Active \ {"reserving"}
        PROVE  /\ seen[g] \in Demo!Handler
               /\ seen[g].pc = handler[g].pc /\ seen[g].session = handler[g].session
               /\ seen[g].sequence = handler[g].sequence
               /\ seen[g].superseded <=> handler[g].superseded \/ handler[g].session = s
               /\ seen[g].dropped <=> handler[g].dropped \/ handler[g].session \notin kept
    <3> DEFINE q == handler[g]
               p == [q EXCEPT !.superseded = q.superseded \/ q.session = s,
                              !.dropped = q.dropped \/ q.session \notin kept]
    <3>1. q \in Demo!Handler
        BY DEF DemoInv
    <3>2. seen[g] = p
        BY <2>1 DEF Demo!Observe
    <3> HIDE DEF q, kept, s
    <3>3. /\ p \in Demo!Handler /\ p.pc = q.pc /\ p.session = q.session /\ p.sequence = q.sequence
          /\ p.superseded = (q.superseded \/ q.session = s)
          /\ p.dropped = (q.dropped \/ q.session \notin kept)
        BY <3>1 DEF Demo!Handler
    <3> HIDE DEF p
    <3> QED BY <3>2, <3>3 DEF q
  <2>2. ASSUME NEW g \in Handlers, g = h \/ handler[g].pc \notin Demo!Active \ {"reserving"}
        PROVE  seen[g] = handler[g] /\ handler[g] \in Demo!Handler
      BY <2>2 DEF Demo!Observe, DemoInv
  <2>3. seen = [g \in Handlers |-> seen[g]]
      BY DEF Demo!Observe
  <2> HIDE DEF seen
  <2>4. \A g \in Handlers : seen[g] \in Demo!Handler
      BY <2>1, <2>2
  <2>5. seen \in [Handlers -> Demo!Handler]
      BY <2>3, <2>4
  <2> QED BY <2>1, <2>2, <2>5
<1> HIDE DEF seen
<1>8. handler' = [seen EXCEPT ![h] = n]
    BY <1>6, <1>7
<1> HIDE DEF r, s, t, sequence, kept, pruned
<1>9. /\ n \in Demo!Handler /\ n.pc = "waiting" /\ n.session = s
      /\ n.sequence = sequence /\ ~n.superseded
  <2>1. t + Debounce \in Nat /\ sequence \in Nat /\ "waiting" \in Demo!Active
      BY <1>1, <1>3, PartsAssumption DEF Demo!TimesAssumption, Demo!Active
  <2>2. r.session = s
      BY DEF r, s
  <2> QED BY <1>1, <2>1, <2>2 DEF Demo!Handler
<1> HIDE DEF n
<1>10. /\ RegistryOk' /\ DOMAIN registry' = kept \cup {s} /\ registry'[s].sequence = sequence
       /\ \A q \in kept \ {s} : registry'[q] = registry[q]
  <2>1. kept \subseteq DOMAIN registry
      BY <1>2, <1>5
  <2> QED BY <1>1, <1>3, <1>4, <1>5, <2>1, UseKeeps
<1>11. handler' \in [Handlers -> Demo!Handler] /\ handler'[h] = n
       /\ \A g \in Handlers \ {h} : handler'[g] = seen[g]
    BY <1>7, <1>8, <1>9
<1>12. ASSUME NEW g \in Handlers \ {h}, seen[g].pc \in Demo!Active \ {"reserving"}, ~seen[g].dropped
       PROVE  /\ ~handler[g].dropped
              /\ seen[g].session \in kept
              /\ seen[g].session = s => seen[g].superseded /\ seen[g].sequence < sequence
              /\ seen[g].sequence <= registry'[seen[g].session].sequence
              /\ seen[g].superseded <=> seen[g].sequence < registry'[seen[g].session].sequence
  <2>1. ~handler[g].dropped /\ handler[g].session \in kept
      BY <1>7, <1>12
  <2>2. /\ handler[g].sequence <= registry[handler[g].session].sequence
        /\ handler[g].superseded <=> handler[g].sequence < registry[handler[g].session].sequence
      BY <1>7, <1>12, <2>1 DEF DemoInv, TicketsOk, Holds
  <2>3. handler[g].sequence \in Nat /\ registry[handler[g].session].sequence \in Nat
      BY <1>2, <1>5, <2>1 DEF DemoInv, RegistryOk, Demo!Handler
  <2>4. CASE handler[g].session = s
      BY <1>3, <1>5, <1>7, <1>10, <1>12, <2>1, <2>2, <2>3, <2>4
  <2>5. CASE handler[g].session # s
      BY <1>7, <1>10, <1>12, <2>1, <2>2, <2>5
  <2> QED BY <2>4, <2>5
<1>13. ASSUME NEW g \in Handlers
       PROVE  TicketOk(handler'[g], registry')
  <2>1. CASE g = h
      BY <1>3, <1>9, <1>10, <1>11, <2>1 DEF TicketOk, Demo!Shown
  <2>2. CASE g # h /\ handler[g].pc \in Demo!Active \ {"reserving"}
      BY <1>7, <1>10, <1>11, <1>12, <2>2 DEF TicketOk, Demo!Shown, Demo!Active
  <2>3. CASE g # h /\ handler[g].pc \notin Demo!Active \ {"reserving"}
    <3>1. handler'[g] = handler[g] /\ TicketOk(handler[g], registry)
        BY <1>7, <1>11, <2>3, TicketsAreOk
    <3> QED BY <2>3, <3>1 DEF TicketOk
  <2> QED BY <2>1, <2>2, <2>3
<1>14. Demo!NumbersAreOwn'
  <2> SUFFICES ASSUME NEW g \in Handlers, NEW k \in Handlers, g # k,
                      handler'[g].pc \in Demo!Active \ {"reserving"},
                      handler'[k].pc \in Demo!Active \ {"reserving"},
                      handler'[g].session = handler'[k].session,
                      handler'[g].sequence = handler'[k].sequence,
                      ~handler'[g].dropped, ~handler'[k].dropped
               PROVE  FALSE
      BY DEF Demo!NumbersAreOwn
  <2>1. CASE g # h /\ k # h
    <3>1. /\ seen[g].pc \in Demo!Active \ {"reserving"} /\ ~seen[g].dropped
          /\ seen[k].pc \in Demo!Active \ {"reserving"} /\ ~seen[k].dropped
          /\ seen[g].session = seen[k].session /\ seen[g].sequence = seen[k].sequence
        BY <1>11, <2>1
    <3>2. ~handler[g].dropped /\ ~handler[k].dropped
        BY <1>12, <2>1, <3>1
    <3> QED BY <1>7, <3>1, <3>2 DEF DemoInv, Demo!NumbersAreOwn
  <2>2. ASSUME NEW e \in Handlers \ {h}, handler'[e].pc \in Demo!Active \ {"reserving"},
               ~handler'[e].dropped, handler'[e].session = s
        PROVE  handler'[e].sequence # sequence
    <3>1. handler'[e] = seen[e] /\ seen[e].sequence < sequence
        BY <1>11, <1>12, <2>2
    <3>2. seen[e].sequence \in Nat
        BY <1>7 DEF Demo!Handler
    <3> QED BY <1>3, <3>1, <3>2
  <2>3. handler'[h].session = s /\ handler'[h].sequence = sequence
      BY <1>9, <1>11
  <2> QED BY <2>1, <2>2, <2>3
<1>15. TicketsOk' /\ Demo!LastCommitWinsWhileKept' /\ Demo!StaleIsJustified'
    BY <1>13 DEF TicketOk, TicketsOk, Holds, Demo!LastCommitWinsWhileKept, Demo!StaleIsJustified
<1> QED BY <1>4, <1>10, <1>11, <1>14, <1>15 DEF DemoInv

LEMMA DemoNextInv == DemoInv /\ Demo!Next => DemoInv'
<1> SUFFICES ASSUME DemoInv, Demo!Next PROVE DemoInv'
    OBVIOUS
<1>1. ASSUME NEW h \in Handlers,
             \/ \E s \in Sessions : Demo!Commit(h, s)
             \/ Demo!Reserve(h) \/ Demo!Wakes(h)
             \/ \E ok \in BOOLEAN : Demo!Predicts(h, ok)
             \/ Demo!Release(h)
      PROVE  DemoInv'
    BY <1>1, CommitInv, ReserveInv, WakesInv, PredictsInv, ReleaseInv
<1>2. ASSUME NEW h \in Handlers, Demo!CheckBefore(h)
      PROVE  DemoInv'
    BY <1>2, CheckInv DEF Demo!CheckBefore, Demo!Active
<1>3. ASSUME NEW h \in Handlers, Demo!CheckAfter(h)
      PROVE  DemoInv'
    BY <1>3, CheckInv DEF Demo!CheckAfter, Demo!Active
<1> QED BY <1>1, <1>2, <1>3, DemoTickInv DEF Demo!Next

LEMMA DemoRests == DemoInv /\ UNCHANGED demoVars /\ now' \in Nat => DemoInv'
BY DEF demoVars, DemoInv, RegistryOk, TicketsOk, Holds, Demo!LastCommitWinsWhileKept,
   Demo!StaleIsJustified, Demo!NumbersAreOwn

-----------------------------------------------------------------------------
(***************************************************************************)
(* Arithmetic of rates.                                                    *)
(***************************************************************************)
LEMMA Quotient ==
    ASSUME NEW n \in Nat, NEW d \in Nat \ {0}
    PROVE  n \div d \in Nat /\ (n \div d) * d <= n /\ n < (n \div d + 1) * d
OBVIOUS

LEMMA Distributes ==
    ASSUME NEW a \in Int, NEW b \in Int, NEW c \in Int
    PROVE  /\ (a + b) * c = a * c + b * c /\ (a - b) * c = a * c - b * c
           /\ a * c \in Int /\ 1 * c = c /\ 0 * c = 0
OBVIOUS

LEMMA Grows ==
    ASSUME NEW a \in Int, NEW b \in Int, a <= b, NEW c \in Nat
    PROVE  a * c <= b * c
OBVIOUS

\* Rounded up, a quotient is enough.
LEMMA RoundedUp ==
    ASSUME NEW n \in Nat, NEW d \in Nat \ {0}
    PROVE  /\ (n + d - 1) \div d \in Nat
           /\ n <= ((n + d - 1) \div d) * d
<1>1. n + d - 1 \in Nat
    OBVIOUS
<1> DEFINE q == (n + d - 1) \div d
<1>2. q \in Nat /\ n + d - 1 < (q + 1) * d
    BY <1>1, Quotient
<1>3. (q + 1) * d = q * d + d
    BY <1>2, Distributes
<1>4. q * d \in Int
    BY <1>2
<1> HIDE DEF q
<1> QED BY <1>2, <1>3, <1>4 DEF q

LEMMA OpFacts ==
    ASSUME NEW op \in Quota!Ops
    PROVE  /\ Quota!CapacityOf(op) \in Nat /\ Quota!WindowOf(op) \in Nat \ {0}
           /\ Most(op) \in Nat
<1>1. Quota!CapacityOf(op) \in Nat /\ Quota!WindowOf(op) \in Nat \ {0}
    BY PartsAssumption DEF Quota!RatesAssumption, Quota!Ops, Quota!CapacityOf, Quota!WindowOf
<1> QED BY <1>1 DEF Most

LEMMA LevelType ==
    ASSUME NEW op \in Quota!Ops, NEW t \in Nat, NEW bucket, BucketOk(op, bucket, t)
    PROVE  LevelOf(op, bucket, t) \in 0 .. Most(op)
<1>1. CASE bucket.expires_at = 0
    BY <1>1, OpFacts DEF LevelOf
<1>2. CASE bucket.expires_at # 0
  <2>1. t - bucket.updated_at \in Nat /\ bucket.tokens \in Nat
      BY <1>2 DEF BucketOk
  <2>2. (t - bucket.updated_at) * Quota!CapacityOf(op) \in Nat
      BY <2>1, OpFacts
  <2> QED BY <2>1, <2>2, OpFacts DEF LevelOf
<1> QED BY <1>1, <1>2

\* A bucket that is dropped would be full, and is so again when its client comes back.
LEMMA PrunedKeeps ==
    ASSUME BucketsOk, now \in Nat, NEW op \in Quota!Ops, NEW c \in Clients
    PROVE  /\ BucketOk(op, Quota!Pruned(op)[c], now)
           /\ LevelOf(op, Quota!Pruned(op)[c], now) = LevelOf(op, buckets[op][c], now)
           /\ Quota!Pruned(op)[c] = buckets[op][c] \/ Quota!Pruned(op)[c].expires_at = 0
<1> DEFINE b == buckets[op][c]
<1>1. BucketOk(op, b, now)
    BY DEF BucketsOk
<1>2. CASE now < b.expires_at
  <2>1. Quota!Pruned(op)[c] = b
      BY <1>1, <1>2 DEF Quota!Pruned, BucketOk
  <2> QED BY <1>1, <2>1
<1>3. CASE now >= b.expires_at
  <2>1. Quota!Pruned(op)[c] = Quota!NoBucket
      BY <1>3 DEF Quota!Pruned
  <2>2. LevelOf(op, Quota!NoBucket, now) = Most(op) /\ Quota!NoBucket.expires_at = 0
      BY DEF LevelOf, Quota!NoBucket
  <2>3. BucketOk(op, Quota!NoBucket, now)
      BY OpFacts DEF BucketOk, Quota!NoBucket
  <2>4. LevelOf(op, b, now) = Most(op)
    <3>1. CASE b.expires_at = 0
        BY <3>1 DEF LevelOf
    <3>2. CASE b.expires_at # 0
      <4>1. /\ b.tokens \in Nat /\ b.updated_at \in Nat
            /\ Quota!WindowOf(op) <= now - b.updated_at
          BY <1>1, <1>3, <3>2, OpFacts DEF BucketOk
      <4>2. Most(op) <= (now - b.updated_at) * Quota!CapacityOf(op)
        <5>1. Quota!WindowOf(op) * Quota!CapacityOf(op)
                  <= (now - b.updated_at) * Quota!CapacityOf(op)
            BY <4>1, OpFacts, Grows
        <5>2. Most(op) = Quota!WindowOf(op) * Quota!CapacityOf(op)
            BY OpFacts DEF Most
        <5> QED BY <5>1, <5>2
      <4>3. (now - b.updated_at) * Quota!CapacityOf(op) \in Int
          BY <4>1, OpFacts
      <4> DEFINE refill == (now - b.updated_at) * Quota!CapacityOf(op)
      <4>4. LevelOf(op, b, now) = IF b.tokens + refill > Most(op) THEN Most(op)
                                  ELSE b.tokens + refill
          BY <3>2 DEF LevelOf
      <4> HIDE DEF refill
      <4> QED BY <4>1, <4>2, <4>3, <4>4, OpFacts DEF refill
    <3> QED BY <3>1, <3>2
  <2> QED BY <2>1, <2>2, <2>3, <2>4
<1>4. now < b.expires_at \/ now >= b.expires_at
    BY <1>1 DEF BucketOk
<1> QED BY <1>2, <1>3, <1>4

\* Refilling a bucket writes down what it held, and charging it takes one request.
LEMMA RefilledIs ==
    ASSUME BucketsOk, now \in Nat, NEW op \in Quota!Ops, NEW c \in Clients
    PROVE  LET bucket == Quota!Refilled(op, c) IN
           /\ bucket = [tokens |-> LevelOf(op, buckets[op][c], now), updated_at |-> now,
                        expires_at |-> now + Quota!WindowOf(op)]
<1> DEFINE b == Quota!Pruned(op)[c]
           refill == b.tokens + (now - b.updated_at) * Quota!CapacityOf(op)
<1>1. /\ BucketOk(op, b, now) /\ LevelOf(op, b, now) = LevelOf(op, buckets[op][c], now)
    BY PrunedKeeps
<1>2. b = Quota!NoBucket <=> b.expires_at = 0
    BY <1>1 DEF BucketOk, Quota!NoBucket
<1>3. refill \in Int
    BY <1>1, OpFacts DEF BucketOk
<1>4. Quota!Min({Most(op), refill}) = IF refill > Most(op) THEN Most(op) ELSE refill
  <2> DEFINE least == IF refill > Most(op) THEN Most(op) ELSE refill
  <2> HIDE DEF refill
  <2>1. /\ least \in {Most(op), refill} /\ \A y \in {Most(op), refill} : least <= y
        /\ \A x \in {Most(op), refill} : (\A y \in {Most(op), refill} : x <= y) => x = least
      BY <1>3, OpFacts
  <2> QED BY <2>1 DEF Quota!Min
<1>5. Quota!Refilled(op, c) =
        [tokens |-> IF b = Quota!NoBucket THEN Most(op) ELSE Quota!Min({Most(op), refill}),
         updated_at |-> now, expires_at |-> now + Quota!WindowOf(op)]
    BY DEF Quota!Refilled, Most
<1>6. LevelOf(op, b, now) = IF b = Quota!NoBucket THEN Most(op) ELSE Quota!Min({Most(op), refill})
    BY <1>2, <1>4 DEF LevelOf
<1> HIDE DEF b, refill
<1> QED BY <1>1, <1>5, <1>6

Bucket == [tokens: Nat, updated_at: Nat, expires_at: Nat]
Written(op, tokens) ==
    [tokens |-> tokens, updated_at |-> now, expires_at |-> now + Quota!WindowOf(op)]

LEMMA WrittenIs ==
    ASSUME now \in Nat, NEW op \in Quota!Ops, NEW tokens \in 0 .. Most(op)
    PROVE  /\ Written(op, tokens) \in Bucket /\ Written(op, tokens).expires_at # 0
           /\ BucketOk(op, Written(op, tokens), now)
           /\ LevelOf(op, Written(op, tokens), now) = tokens
<1> DEFINE b == Written(op, tokens)
<1>1. /\ b.tokens = tokens /\ b.updated_at = now /\ b.expires_at = now + Quota!WindowOf(op)
      /\ b \in Bucket /\ b.expires_at # 0
    BY OpFacts DEF Written, Bucket
<1> HIDE DEF b
<1>2. (now - b.updated_at) * Quota!CapacityOf(op) = 0
  <2>1. now - b.updated_at = 0
      BY <1>1
  <2> QED BY <2>1, OpFacts, Distributes
<1>3. LevelOf(op, b, now) = tokens
    BY <1>1, <1>2, OpFacts DEF LevelOf
<1>4. BucketOk(op, b, now)
    BY <1>1, OpFacts DEF BucketOk, Bucket
<1> QED BY <1>1, <1>3, <1>4 DEF b

LEMMA RateLess ==
    ASSUME NEW op \in Quota!Ops, NEW times \in Seq(Nat), NEW t \in Nat,
           NEW level \in Nat, NEW less \in Nat, less <= level, RateOk(op, times, level, t)
    PROVE  RateOk(op, times, less, t)
<1> SUFFICES ASSUME NEW i \in DOMAIN times
             PROVE  (Len(times) - i + 1) * Quota!WindowOf(op) + less
                        <= Most(op) + (t - times[i]) * Quota!CapacityOf(op)
    BY DEF RateOk
<1>1. (Len(times) - i + 1) * Quota!WindowOf(op) + level
          <= Most(op) + (t - times[i]) * Quota!CapacityOf(op)
    BY DEF RateOk
<1>2. /\ (Len(times) - i + 1) * Quota!WindowOf(op) \in Int
      /\ (t - times[i]) * Quota!CapacityOf(op) \in Int
    BY OpFacts
<1> QED BY <1>1, <1>2, OpFacts

LEMMA RateTick ==
    ASSUME NEW op \in Quota!Ops, NEW times \in Seq(Nat), NEW t \in Nat,
           NEW level \in Nat, NEW more \in Nat, more <= level + Quota!CapacityOf(op),
           RateOk(op, times, level, t)
    PROVE  RateOk(op, times, more, t + 1)
<1> DEFINE W == Quota!WindowOf(op)
           C == Quota!CapacityOf(op)
           M == Most(op)
<1>1. W \in Nat /\ C \in Nat /\ M \in Nat /\ W \in Int /\ C \in Int
    BY OpFacts
<1>3. more <= level + C
    OBVIOUS
<1>4. \A x \in Nat : RateOk(op, times, x, t) <=> \A i \in DOMAIN times :
        /\ times[i] <= t
        /\ (Len(times) - i + 1) * W + x <= M + (t - times[i]) * C
        /\ \A j \in i .. Len(times) :
            /\ times[i] <= times[j]
            /\ (j - i + 1) * W <= M + (times[j] - times[i]) * C
    BY DEF RateOk
<1>5. RateOk(op, times, more, t + 1) <=> \A i \in DOMAIN times :
        /\ times[i] <= t + 1
        /\ (Len(times) - i + 1) * W + more <= M + ((t + 1) - times[i]) * C
        /\ \A j \in i .. Len(times) :
            /\ times[i] <= times[j]
            /\ (j - i + 1) * W <= M + (times[j] - times[i]) * C
    BY DEF RateOk
<1> HIDE DEF W, C, M
<1>2. ASSUME NEW i \in DOMAIN times
      PROVE  /\ times[i] <= t + 1
             /\ (Len(times) - i + 1) * W + more <= M + ((t + 1) - times[i]) * C
             /\ \A j \in i .. Len(times) :
                 /\ times[i] <= times[j]
                 /\ (j - i + 1) * W <= M + (times[j] - times[i]) * C
  <2>1. /\ times[i] <= t
        /\ (Len(times) - i + 1) * W + level <= M + (t - times[i]) * C
        /\ \A j \in i .. Len(times) :
            /\ times[i] <= times[j]
            /\ (j - i + 1) * W <= M + (times[j] - times[i]) * C
      BY <1>4
  <2> DEFINE count == (Len(times) - i + 1) * W
             held == (t - times[i]) * C
             next == ((t + 1) - times[i]) * C
  <2>2. times[i] \in Nat /\ i \in Nat /\ Len(times) \in Nat
      OBVIOUS
  <2>3. count \in Int /\ held \in Int /\ next = held + C
    <3>1. Len(times) - i + 1 \in Int /\ t - times[i] \in Int /\ (t + 1) - times[i] = (t - times[i]) + 1
        BY <2>2
    <3>2. count \in Int
        BY <1>1, <3>1, Distributes
    <3>3. held \in Int /\ ((t - times[i]) + 1) * C = held + C
      <4> DEFINE d == t - times[i]
      <4>1. d \in Int
          BY <3>1
      <4> HIDE DEF d
      <4>2. d * C \in Int /\ (d + 1) * C = d * C + C
          BY <1>1, <4>1
      <4> QED BY <4>2 DEF d
    <3> QED BY <3>1, <3>2, <3>3
  <2>4. count + level <= M + held /\ more <= level + C
      BY <1>3, <2>1
  <2> HIDE DEF count, held, next
  <2>5. count + more <= M + next
      BY <1>1, <2>3, <2>4
  <2> QED BY <2>1, <2>2, <2>5 DEF count, next
<1> QED BY <1>2, <1>5

\* An admission takes from the level what it adds to the count.
LEMMA RateAppend ==
    ASSUME NEW op \in Quota!Ops, NEW times \in Seq(Nat), NEW t \in Nat,
           NEW level \in 0 .. Most(op), Quota!WindowOf(op) <= level, RateOk(op, times, level, t)
    PROVE  RateOk(op, Append(times, t), level - Quota!WindowOf(op), t)
<1> DEFINE new == Append(times, t)
           W == Quota!WindowOf(op)
           C == Quota!CapacityOf(op)
           M == Most(op)
<1>1. W \in Nat \ {0} /\ C \in Nat /\ M \in Nat /\ level \in Nat /\ level <= M /\ W <= level
    BY OpFacts
<1>2. /\ Len(new) = Len(times) + 1 /\ DOMAIN new = 1 .. Len(times) + 1 /\ Len(times) \in Nat
      /\ \A i \in 1 .. Len(times) : new[i] = times[i] /\ times[i] \in Nat
      /\ new[Len(times) + 1] = t /\ DOMAIN times = 1 .. Len(times)
    OBVIOUS
<1>3. \A i \in 1 .. Len(times) :
        /\ times[i] <= t
        /\ (Len(times) - i + 1) * W + level <= M + (t - times[i]) * C
        /\ \A j \in i .. Len(times) :
            /\ times[i] <= times[j]
            /\ (j - i + 1) * W <= M + (times[j] - times[i]) * C
    BY <1>2 DEF RateOk
<1> HIDE DEF new, W, C, M
<1>4. ASSUME NEW i \in 1 .. Len(times)
      PROVE  /\ new[i] <= t
             /\ (Len(new) - i + 1) * W + (level - W) <= M + (t - new[i]) * C
             /\ \A j \in i .. Len(new) :
                 /\ new[i] <= new[j]
                 /\ (j - i + 1) * W <= M + (new[j] - new[i]) * C
  <2>1. (Len(new) - i + 1) * W = (Len(times) - i + 1) * W + W
    <3>1. Len(new) - i + 1 = (Len(times) - i + 1) + 1
        BY <1>2
    <3> QED BY <1>1, <1>2, <3>1, Distributes
  <2>2. /\ times[i] <= t /\ new[i] = times[i] /\ times[i] \in Nat
        /\ (Len(times) - i + 1) * W + level <= M + (t - times[i]) * C
      BY <1>2, <1>3
  <2>3. (Len(times) - i + 1) * W \in Int /\ (t - times[i]) * C \in Int
      BY <1>1, <1>2, <2>2
  <2> DEFINE held == (Len(times) - i + 1) * W
             drained == (t - times[i]) * C
             next == (Len(new) - i + 1) * W
  <2>4. /\ held \in Int /\ drained \in Int /\ next = held + W
        /\ held + level <= M + drained
      BY <2>1, <2>2, <2>3
  <2>5. new[i] = times[i]
      BY <2>2
  <2> HIDE DEF held, drained, next
  <2>6. next + (level - W) <= M + drained /\ next <= M + drained
      BY ONLY <1>1, <2>4
  <2>7. (Len(new) - i + 1) * W + (level - W) <= M + (t - new[i]) * C
      BY <2>5, <2>6 DEF next, drained
  <2>8. (Len(new) - i + 1) * W <= M + (t - times[i]) * C
      BY <2>6 DEF next, drained
  <2>9. ASSUME NEW j \in i .. Len(new)
        PROVE  new[i] <= new[j] /\ (j - i + 1) * W <= M + (new[j] - new[i]) * C
    <3>1. CASE j <= Len(times)
      <4>1. j \in i .. Len(times) /\ new[j] = times[j]
          BY <1>2, <3>1
      <4> QED BY <1>3, <2>2, <4>1
    <3>2. CASE j = Len(times) + 1
        BY <1>2, <2>2, <2>8, <3>2
    <3> QED BY <1>2, <3>1, <3>2
  <2> QED BY <2>2, <2>7, <2>9
<1>5. ASSUME NEW i \in DOMAIN new, i = Len(times) + 1
      PROVE  /\ new[i] <= t
             /\ (Len(new) - i + 1) * W + (level - W) <= M + (t - new[i]) * C
             /\ \A j \in i .. Len(new) :
                 /\ new[i] <= new[j]
                 /\ (j - i + 1) * W <= M + (new[j] - new[i]) * C
  <2>1. /\ Len(new) - i + 1 = 1 /\ t - new[i] = 0
        /\ \A j \in i .. Len(new) : j - i + 1 = 1 /\ new[j] = t /\ new[j] - new[i] = 0
      BY <1>2, <1>5
  <2>2. 1 * W = W /\ 0 * C = 0
      BY <1>1, Distributes
  <2>3. /\ (Len(new) - i + 1) * W = W /\ (t - new[i]) * C = 0 /\ new[i] = t
        /\ \A j \in i .. Len(new) :
              new[j] = t /\ (j - i + 1) * W = W /\ (new[j] - new[i]) * C = 0
      BY <1>2, <1>5, <2>1, <2>2
  <2>4. new[i] <= t /\ W + (level - W) <= M + 0 /\ W <= M + 0
      BY <1>1, <2>3
  <2>5. ASSUME NEW j \in i .. Len(new)
        PROVE  new[i] <= new[j] /\ (j - i + 1) * W <= M + (new[j] - new[i]) * C
      BY <2>3, <2>4
  <2> QED BY <2>3, <2>4, <2>5
<1>6. RateOk(op, new, level - W, t) <=> \A i \in DOMAIN new :
        /\ new[i] <= t
        /\ (Len(new) - i + 1) * W + (level - W) <= M + (t - new[i]) * C
        /\ \A j \in i .. Len(new) :
            /\ new[i] <= new[j]
            /\ (j - i + 1) * W <= M + (new[j] - new[i]) * C
    BY DEF RateOk, W, C, M
<1>7. RateOk(op, new, level - W, t)
  <2>1. \A i \in DOMAIN new : i \in 1 .. Len(times) \/ i = Len(times) + 1
      BY <1>2
  <2> QED BY <1>4, <1>5, <1>6, <2>1
<1> QED BY <1>7 DEF new, W

\* A tick refills a bucket by at most its capacity, in units of its window.
LEMMA LevelTick ==
    ASSUME NEW op \in Quota!Ops, NEW t \in Nat, NEW bucket, BucketOk(op, bucket, t)
    PROVE  /\ BucketOk(op, bucket, t + 1)
           /\ LevelOf(op, bucket, t + 1) <= LevelOf(op, bucket, t) + Quota!CapacityOf(op)
<1>1. BucketOk(op, bucket, t + 1)
  <2>1. bucket.updated_at \in Nat
      BY DEF BucketOk
  <2>2. bucket.updated_at <= t => bucket.updated_at <= t + 1
      BY <2>1
  <2> QED BY <2>2 DEF BucketOk
<1>2. CASE bucket.expires_at = 0
  <2>1. LevelOf(op, bucket, t + 1) = Most(op) /\ LevelOf(op, bucket, t) = Most(op)
      BY <1>2 DEF LevelOf
  <2> QED BY <1>1, <2>1, OpFacts
<1>3. CASE bucket.expires_at # 0
  <2> DEFINE held == (t - bucket.updated_at) * Quota!CapacityOf(op)
             next == ((t + 1) - bucket.updated_at) * Quota!CapacityOf(op)
  <2>1. bucket.tokens \in Nat /\ bucket.updated_at \in Nat
      BY DEF BucketOk
  <2>2. held \in Int /\ next = held + Quota!CapacityOf(op)
    <3>1. /\ (t + 1) - bucket.updated_at = (t - bucket.updated_at) + 1
          /\ t - bucket.updated_at \in Int /\ Quota!CapacityOf(op) \in Int
        BY <2>1, OpFacts
    <3> QED BY <3>1, Distributes
  <2>3. /\ LevelOf(op, bucket, t) = IF bucket.tokens + held > Most(op) THEN Most(op)
                                    ELSE bucket.tokens + held
        /\ LevelOf(op, bucket, t + 1) = IF bucket.tokens + next > Most(op) THEN Most(op)
                                        ELSE bucket.tokens + next
      BY <1>3 DEF LevelOf
  <2> HIDE DEF held, next
  <2> QED BY <1>1, <2>1, <2>2, <2>3, OpFacts
<1> QED BY <1>1, <1>2, <1>3

-----------------------------------------------------------------------------
(***************************************************************************)
(* Admission keeps the buckets and the rates.                              *)
(***************************************************************************)
\* A map whose buckets and rates are in order.
MapOk(op, map, times) ==
    /\ map \in [Clients -> Bucket]
    /\ times \in [Clients -> Seq(Nat)]
    /\ IsFiniteSet(Quota!Known(map)) /\ Cardinality(Quota!Known(map)) <= MaxClientStates
    /\ \A c \in Clients :
        BucketOk(op, map[c], now) /\ RateOk(op, times[c], LevelOf(op, map[c], now), now)

LEMMA MapsAreOk ==
    BucketsOk <=> /\ buckets \in [Quota!Ops -> [Clients -> Bucket]]
                  /\ admitted \in [Quota!Ops -> [Clients -> Seq(Nat)]]
                  /\ \A op \in Quota!Ops : MapOk(op, buckets[op], admitted[op])
BY DEF BucketsOk, MapOk, Bucket

LEMMA MapInv ==
    ASSUME BucketsOk, now' = now, NEW op \in Quota!Ops, NEW map, NEW times,
           MapOk(op, map, times),
           buckets' = [buckets EXCEPT ![op] = map], admitted' = [admitted EXCEPT ![op] = times]
    PROVE  BucketsOk'
<1>1. /\ buckets \in [Quota!Ops -> [Clients -> Bucket]]
      /\ admitted \in [Quota!Ops -> [Clients -> Seq(Nat)]]
      /\ \A o \in Quota!Ops : MapOk(o, buckets[o], admitted[o])
    BY MapsAreOk
<1>2. /\ buckets' \in [Quota!Ops -> [Clients -> Bucket]]
      /\ admitted' \in [Quota!Ops -> [Clients -> Seq(Nat)]]
      /\ \A o \in Quota!Ops : MapOk(o, buckets'[o], admitted'[o])
  <2>1. map \in [Clients -> Bucket] /\ times \in [Clients -> Seq(Nat)]
      BY DEF MapOk
  <2> QED BY <1>1, <2>1
<1>3. ASSUME NEW o \in Quota!Ops
      PROVE  /\ IsFiniteSet(Quota!Known(buckets'[o]))
             /\ Cardinality(Quota!Known(buckets'[o])) <= MaxClientStates
             /\ \A c \in Clients :
                  /\ BucketOk(o, buckets'[o][c], now')
                  /\ RateOk(o, admitted'[o][c], LevelOf(o, buckets'[o][c], now'), now')
    BY <1>2 DEF MapOk
<1> QED BY <1>2, <1>3 DEF BucketsOk, Bucket

LEMMA PrunedMap ==
    ASSUME BucketsOk, now \in Nat, NEW op \in Quota!Ops
    PROVE  /\ MapOk(op, Quota!Pruned(op), admitted[op])
           /\ \A c \in Clients :
                Quota!Pruned(op)[c] = Quota!NoBucket <=> c \notin Quota!Known(Quota!Pruned(op))
<1> DEFINE map == Quota!Pruned(op)
<1>1. \A c \in Clients :
        /\ BucketOk(op, map[c], now)
        /\ LevelOf(op, map[c], now) = LevelOf(op, buckets[op][c], now)
        /\ map[c] = buckets[op][c] \/ map[c].expires_at = 0
    BY PrunedKeeps
<1>2. map = [c \in Clients |-> map[c]]
    BY DEF Quota!Pruned
<1> HIDE DEF map
<1>3. map \in [Clients -> Bucket]
    BY <1>1, <1>2 DEF BucketOk, Bucket
<1>4. Quota!Known(map) \subseteq Quota!Known(buckets[op])
    BY <1>1 DEF Quota!Known
<1>5. IsFiniteSet(Quota!Known(map)) /\ Cardinality(Quota!Known(map)) <= MaxClientStates
  <2>1. /\ IsFiniteSet(Quota!Known(buckets[op]))
        /\ Cardinality(Quota!Known(buckets[op])) <= MaxClientStates
      BY DEF BucketsOk
  <2>2. /\ IsFiniteSet(Quota!Known(map))
        /\ Cardinality(Quota!Known(map)) <= Cardinality(Quota!Known(buckets[op]))
      BY <1>4, <2>1, FS_Subset
  <2>3. Cardinality(Quota!Known(map)) \in Nat /\ Cardinality(Quota!Known(buckets[op])) \in Nat
      BY <2>1, <2>2, FS_CardinalityType
  <2>4. MaxClientStates \in Nat
      BY PartsAssumption DEF Quota!RatesAssumption
  <2> QED BY <2>1, <2>2, <2>3, <2>4
<1>6. admitted[op] \in [Clients -> Seq(Nat)]
    BY DEF BucketsOk
<1>7. \A c \in Clients : RateOk(op, admitted[op][c], LevelOf(op, map[c], now), now)
    BY <1>1 DEF BucketsOk
<1>8. \A c \in Clients : map[c] = Quota!NoBucket <=> c \notin Quota!Known(map)
    BY <1>1, <1>3 DEF Quota!Known, BucketOk, Bucket, Quota!NoBucket
<1> QED BY <1>1, <1>3, <1>5, <1>6, <1>7, <1>8 DEF MapOk, map

\* A bucket that is written, with the times that go with it.
LEMMA WrittenMap ==
    ASSUME BucketsOk, now \in Nat, NEW op \in Quota!Ops, NEW c \in Clients, ~Quota!Full(op, c),
           NEW tokens \in 0 .. Most(op), NEW times \in Seq(Nat), RateOk(op, times, tokens, now)
    PROVE  MapOk(op, [Quota!Pruned(op) EXCEPT ![c] = Written(op, tokens)],
                     [admitted[op] EXCEPT ![c] = times])
<1> DEFINE pruned == Quota!Pruned(op)
           map == [pruned EXCEPT ![c] = Written(op, tokens)]
           all == [admitted[op] EXCEPT ![c] = times]
<1>1. /\ MapOk(op, pruned, admitted[op])
      /\ \A d \in Clients : pruned[d] = Quota!NoBucket <=> d \notin Quota!Known(pruned)
    BY PrunedMap
<1>2. /\ Written(op, tokens) \in Bucket /\ Written(op, tokens).expires_at # 0
      /\ BucketOk(op, Written(op, tokens), now)
      /\ LevelOf(op, Written(op, tokens), now) = tokens
    BY WrittenIs
<1>3. pruned[c] # Quota!NoBucket \/ Cardinality(Quota!Known(pruned)) < MaxClientStates
  <2>1. ~(pruned[c] = Quota!NoBucket /\ Cardinality(Quota!Known(pruned)) >= MaxClientStates)
      BY SameCardinality DEF Quota!Full
  <2>2. Cardinality(Quota!Known(pruned)) \in Nat /\ MaxClientStates \in Nat
      BY <1>1, FS_CardinalityType, PartsAssumption DEF MapOk, Quota!RatesAssumption
  <2> QED BY <2>1, <2>2
<1> HIDE DEF pruned
<1>4. map \in [Clients -> Bucket] /\ all \in [Clients -> Seq(Nat)]
    BY <1>1, <1>2 DEF MapOk, BucketsOk
<1>5. \A d \in Clients :
        /\ map[d] = IF d = c THEN Written(op, tokens) ELSE pruned[d]
        /\ all[d] = IF d = c THEN times ELSE admitted[op][d]
    BY <1>1 DEF MapOk, BucketsOk
<1> HIDE DEF map, all
<1>6. Quota!Known(map) = Quota!Known(pruned) \cup {c}
  <2>1. Written(op, tokens).expires_at > 0
      BY <1>2 DEF Bucket
  <2> QED BY <1>5, <2>1 DEF Quota!Known
<1>7. IsFiniteSet(Quota!Known(map)) /\ Cardinality(Quota!Known(map)) <= MaxClientStates
  <2>1. /\ IsFiniteSet(Quota!Known(pruned)) /\ Cardinality(Quota!Known(pruned)) \in Nat
        /\ Cardinality(Quota!Known(pruned)) <= MaxClientStates
      BY <1>1, FS_CardinalityType DEF MapOk
  <2>2. CASE c \in Quota!Known(pruned)
    <3>1. Quota!Known(map) = Quota!Known(pruned)
        BY <1>6, <2>2
    <3> QED BY <2>1, <3>1
  <2>3. CASE c \notin Quota!Known(pruned)
    <3>1. Cardinality(Quota!Known(pruned)) < MaxClientStates
        BY <1>1, <1>3, <2>3
    <3>2. /\ IsFiniteSet(Quota!Known(map))
          /\ Cardinality(Quota!Known(map)) = Cardinality(Quota!Known(pruned)) + 1
        BY <1>6, <2>1, <2>3, FS_AddElement
    <3>3. MaxClientStates \in Nat
        BY PartsAssumption DEF Quota!RatesAssumption
    <3> QED BY <2>1, <3>1, <3>2, <3>3
  <2> QED BY <2>2, <2>3
<1>8. ASSUME NEW d \in Clients
      PROVE  BucketOk(op, map[d], now) /\ RateOk(op, all[d], LevelOf(op, map[d], now), now)
    BY <1>1, <1>2, <1>5 DEF MapOk
<1>9. MapOk(op, map, all)
    BY <1>4, <1>7, <1>8 DEF MapOk
<1> QED BY <1>9 DEF map, all, pruned

\* What the methods write are buckets of this form.
LEMMA WritesAre ==
    ASSUME BucketsOk, now \in Nat, NEW op \in Quota!Ops, NEW c \in Clients
    PROVE  /\ LevelOf(op, buckets[op][c], now) \in 0 .. Most(op)
           /\ Quota!HasToken(op, c) <=> Quota!WindowOf(op) <= LevelOf(op, buckets[op][c], now)
           /\ Quota!Refilled(op, c) = Written(op, LevelOf(op, buckets[op][c], now))
           /\ [Quota!Refilled(op, c) EXCEPT !.tokens = @ - Quota!WindowOf(op)]
                = Written(op, LevelOf(op, buckets[op][c], now) - Quota!WindowOf(op))
<1> DEFINE level == LevelOf(op, buckets[op][c], now)
           b == Quota!Refilled(op, c)
<1>1. level \in 0 .. Most(op)
    BY LevelType DEF BucketsOk
<1>2. b = [tokens |-> level, updated_at |-> now, expires_at |-> now + Quota!WindowOf(op)]
    BY RefilledIs
<1>3. Quota!HasToken(op, c) <=> b.tokens >= Quota!WindowOf(op)
    BY DEF Quota!HasToken
<1> HIDE DEF level, b
<1>4. Quota!HasToken(op, c) <=> Quota!WindowOf(op) <= level
    BY <1>1, <1>2, <1>3, OpFacts
<1>5. b = Written(op, level)
    BY <1>2 DEF Written
<1>6. [b EXCEPT !.tokens = b.tokens - Quota!WindowOf(op)]
          = Written(op, level - Quota!WindowOf(op))
    BY <1>2 DEF Written
<1> QED BY <1>1, <1>4, <1>5, <1>6 DEF level, b

LEMMA ChargedInv ==
    ASSUME BucketsOk, now \in Nat, now' = now, NEW op \in Quota!Ops, NEW c \in Clients,
           ~Quota!Full(op, c), Quota!HasToken(op, c), Quota!Admits(op, c),
           buckets' = [buckets EXCEPT ![op] = Quota!Charged(op, c)]
    PROVE  BucketsOk'
<1> DEFINE level == LevelOf(op, buckets[op][c], now)
           W == Quota!WindowOf(op)
           times == Append(admitted[op][c], now)
           map == [Quota!Pruned(op) EXCEPT ![c] = Written(op, level - W)]
           all == [admitted[op] EXCEPT ![c] = times]
<1>1. /\ level \in 0 .. Most(op) /\ W <= level
      /\ Quota!Charged(op, c) = map
    BY WritesAre DEF Quota!Charged
<1>2. admitted[op][c] \in Seq(Nat) /\ RateOk(op, admitted[op][c], level, now)
    BY DEF BucketsOk
<1>3. RateOk(op, times, level - W, now) /\ times \in Seq(Nat)
    BY <1>1, <1>2, RateAppend
<1>4. level - W \in 0 .. Most(op)
    BY <1>1, OpFacts
<1>5. MapOk(op, map, all)
  <2> HIDE DEF level, times, W
  <2> QED BY <1>3, <1>4, WrittenMap
<1>6. buckets' = [buckets EXCEPT ![op] = map]
    BY <1>1
<1>7. admitted' = [admitted EXCEPT ![op] = all]
    BY DEF Quota!Admits, BucketsOk
<1> HIDE DEF map, all
<1> QED BY <1>5, <1>6, <1>7, MapInv

LEMMA RefusedInv ==
    ASSUME BucketsOk, now \in Nat, now' = now, NEW op \in Quota!Ops, NEW c \in Clients,
           admitted' = admitted, buckets' = [buckets EXCEPT ![op] = Quota!Refused(op, c)]
    PROVE  BucketsOk'
<1>1. MapOk(op, Quota!Refused(op, c), admitted[op])
  <2>1. CASE Quota!CapacityOf(op) = 0 \/ Quota!Full(op, c)
      BY <2>1, PrunedMap DEF Quota!Refused
  <2>2. CASE Quota!CapacityOf(op) # 0 /\ ~Quota!Full(op, c)
    <3> DEFINE level == LevelOf(op, buckets[op][c], now)
               times == admitted[op][c]
    <3>1. level \in 0 .. Most(op) /\ Quota!Refilled(op, c) = Written(op, level)
        BY WritesAre
    <3>2. times \in Seq(Nat) /\ RateOk(op, times, level, now)
          /\ admitted[op] = [admitted[op] EXCEPT ![c] = times]
        BY DEF BucketsOk
    <3>3. Quota!Refused(op, c) = [Quota!Pruned(op) EXCEPT ![c] = Written(op, level)]
        BY <2>2, <3>1 DEF Quota!Refused
    <3> HIDE DEF level, times
    <3>4. MapOk(op, [Quota!Pruned(op) EXCEPT ![c] = Written(op, level)],
                    [admitted[op] EXCEPT ![c] = times])
        BY <2>2, <3>1, <3>2, WrittenMap
    <3> QED BY <3>2, <3>3, <3>4
  <2> QED BY <2>1, <2>2
<1>2. admitted' = [admitted EXCEPT ![op] = admitted[op]]
    BY DEF BucketsOk
<1> QED BY <1>1, <1>2, MapInv

LEMMA PrunedInv ==
    ASSUME BucketsOk, now \in Nat, now' = now, NEW op \in Quota!Ops,
           admitted' = admitted, buckets' = [buckets EXCEPT ![op] = Quota!Pruned(op)]
    PROVE  BucketsOk'
<1>1. admitted' = [admitted EXCEPT ![op] = admitted[op]]
    BY DEF BucketsOk
<1> QED BY <1>1, PrunedMap, MapInv

LEMMA SnapshotInv ==
    ASSUME BucketsOk, now \in Nat, now' = now, admitted' = admitted,
           buckets' = [op \in Quota!Ops |-> Quota!Pruned(op)]
    PROVE  BucketsOk'
<1>1. \A op \in Quota!Ops : MapOk(op, buckets'[op], admitted'[op])
    BY PrunedMap
<1>2. buckets' \in [Quota!Ops -> [Clients -> Bucket]]
    BY <1>1 DEF MapOk
<1>3. admitted' \in [Quota!Ops -> [Clients -> Seq(Nat)]]
    BY DEF BucketsOk
<1>4. ASSUME NEW o \in Quota!Ops
      PROVE  /\ IsFiniteSet(Quota!Known(buckets'[o]))
             /\ Cardinality(Quota!Known(buckets'[o])) <= MaxClientStates
             /\ \A c \in Clients :
                  /\ BucketOk(o, buckets'[o][c], now')
                  /\ RateOk(o, admitted'[o][c], LevelOf(o, buckets'[o][c], now'), now')
    BY <1>1 DEF MapOk
<1> QED BY <1>2, <1>3, <1>4 DEF BucketsOk, Bucket

LEMMA RateTickInv ==
    ASSUME BucketsOk, now \in Nat, now' = now + 1, UNCHANGED <<buckets, admitted>>
    PROVE  BucketsOk'
<1>1. ASSUME NEW op \in Quota!Ops, NEW c \in Clients
      PROVE  /\ BucketOk(op, buckets[op][c], now + 1)
             /\ RateOk(op, admitted[op][c], LevelOf(op, buckets[op][c], now + 1), now + 1)
  <2> DEFINE b == buckets[op][c]
             level == LevelOf(op, b, now)
             more == LevelOf(op, b, now + 1)
  <2>1. BucketOk(op, b, now) /\ RateOk(op, admitted[op][c], level, now)
        /\ admitted[op][c] \in Seq(Nat)
      BY DEF BucketsOk
  <2>2. BucketOk(op, b, now + 1) /\ more <= level + Quota!CapacityOf(op)
      BY <2>1, LevelTick
  <2>3. level \in Nat /\ more \in Nat
      BY <2>1, <2>2, LevelType, OpFacts
  <2> HIDE DEF level, more
  <2>4. RateOk(op, admitted[op][c], more, now + 1)
      BY <2>1, <2>2, <2>3, RateTick
  <2> QED BY <2>2, <2>4 DEF more
<1> QED BY <1>1 DEF BucketsOk

-----------------------------------------------------------------------------
(***************************************************************************)
(* What a client is told when it is denied.                                *)
(***************************************************************************)
LEMMA MaxIs ==
    ASSUME NEW n \in Nat
    PROVE  /\ Quota!Max({1, n}) \in Nat /\ Quota!Max({1, n}) >= n
           /\ Quota!Max({1, n}) = IF n > 1 THEN n ELSE 1
<1> DEFINE most == IF n > 1 THEN n ELSE 1
<1>1. /\ most \in {1, n} /\ \A y \in {1, n} : most >= y
      /\ \A x \in {1, n} : (\A y \in {1, n} : x >= y) => x = most
    OBVIOUS
<1>2. Quota!Max({1, n}) = most
    BY <1>1 DEF Quota!Max
<1> QED BY <1>2

\* The seconds a client is told to wait are at least the ticks it has to wait.
LEMMA SecondsAreEnough ==
    ASSUME NEW ticks \in Nat
    PROVE  LET wait == Quota!Max({1, Quota!InSeconds(ticks)}) * Second IN
           wait \in Nat /\ ticks <= wait /\ wait # 0
<1> DEFINE s == Quota!InSeconds(ticks)
           m == Quota!Max({1, s})
<1>1. Second \in Nat \ {0}
    BY PartsAssumption DEF Quota!RatesAssumption
<1>2. s \in Nat /\ ticks <= s * Second
    BY <1>1, RoundedUp DEF Quota!InSeconds
<1> HIDE DEF s
<1>3. m \in Nat /\ m >= s /\ m >= 1
    BY <1>2, MaxIs
<1> HIDE DEF m
<1>4. s * Second <= m * Second
    BY <1>1, <1>2, <1>3, Grows
<1>5. m * Second \in Nat /\ s * Second \in Nat
    BY <1>1, <1>2, <1>3
<1>6. m * Second \in Nat /\ ticks <= m * Second
    BY <1>2, <1>4, <1>5
<1>7. m * Second # 0
    BY <1>1, <1>3
<1> QED BY <1>6, <1>7 DEF m, s

\* A wait for less than some time is no longer than the wait for that time.
LEMMA SecondsAreBounded ==
    ASSUME NEW most \in Nat \ {0}, NEW ticks \in 0 .. most
    PROVE  /\ Quota!Max({1, Quota!InSeconds(ticks)}) * Second <= Quota!InSeconds(most) * Second
           /\ Quota!InSeconds(most) * Second \in Nat \ {0}
<1> DEFINE s == Quota!InSeconds(ticks)
           t == Quota!InSeconds(most)
           m == Quota!Max({1, s})
<1>1. Second \in Nat \ {0} /\ most \in Nat /\ ticks \in Nat /\ ticks <= most
    BY PartsAssumption DEF Quota!RatesAssumption
<1>2. s \in Nat /\ t \in Nat /\ most <= t * Second /\ s * Second <= ticks + Second - 1
  <2>1. ticks + Second - 1 \in Nat
      BY <1>1
  <2>2. ((ticks + Second - 1) \div Second) * Second <= ticks + Second - 1
      BY <1>1, <2>1, Quotient
  <2> QED BY <1>1, <2>2, RoundedUp DEF Quota!InSeconds
<1> HIDE DEF s, t
<1>3. t >= 1
  <2>1. t = 0 => t * Second = 0
      BY <1>1
  <2> QED BY <1>1, <1>2, <2>1
<1>4. s <= t
  <2>1. ASSUME t + 1 <= s PROVE FALSE
    <3>1. (t + 1) * Second <= s * Second
        BY <1>1, <1>2, <2>1, Grows
    <3>2. (t + 1) * Second = t * Second + Second /\ t * Second \in Int /\ s * Second \in Int
        BY <1>1, <1>2, Distributes
    <3> QED BY <1>1, <1>2, <3>1, <3>2
  <2> QED BY <1>2, <2>1
<1>5. m \in Nat /\ m <= t
    BY <1>2, <1>3, <1>4, MaxIs
<1> HIDE DEF m
<1>6. m * Second <= t * Second
    BY <1>1, <1>2, <1>5, Grows
<1>7. t * Second \in Nat \ {0}
    BY <1>1, <1>2, <1>3
<1> QED BY <1>6, <1>7 DEF m, s, t

\* A wait that somebody was told of stands until its client asks again.
LEMMA ToldStands ==
    ASSUME ToldOk, now \in Nat, told' \in {told, Quota!Nothing},
           told' # Quota!Nothing /\ told \in Denials =>
              \/ buckets'[told.op][told.client] = buckets[told.op][told.client]
              \/ buckets'[told.op][told.client].expires_at = 0
    PROVE  ToldOk'
<1>1. CASE told' = Quota!Nothing
    BY <1>1 DEF ToldOk, Quota!Nothing
<1>2. CASE told' # Quota!Nothing
  <2>1. told' = told /\ told \in Denials
      BY <1>2 DEF ToldOk
  <2>2. told.why = "rate" =>
            LET bucket == buckets'[told.op][told.client] IN
            /\ Quota!CapacityOf(told.op) > 0
            /\ bucket.expires_at # 0 =>
                  /\ bucket.updated_at <= told.until
                  /\ bucket.tokens + (told.until - bucket.updated_at) * Quota!CapacityOf(told.op)
                        >= Quota!WindowOf(told.op)
      BY <1>2, <2>1 DEF ToldOk
  <2>3. told.why = "budget" => (told.at \div Day + 1) * Day <= told.until
      BY <1>2, <2>1 DEF ToldOk
  <2>4. /\ told.at < told.until
        /\ told.why # "budget" =>
              told.until <= told.at + Quota!InSeconds(Quota!WindowOf(told.op)) * Second
        /\ told.why = "full" => FullUntil(told.entries, told.until)
        /\ told.why = "disabled" => Quota!CapacityOf(told.op) = 0
      BY <1>2, <2>1 DEF ToldOk
  <2> QED BY <2>1, <2>2, <2>3, <2>4 DEF ToldOk
<1> QED BY <1>1, <1>2

\* Entries that a denial is kept with.
LEMMA EntriesAre ==
    ASSUME BucketsOk, now \in Nat, NEW op \in Quota!Ops
    PROVE  /\ Quota!Pruned(op) \in [Clients -> Quota!Bucket]
           /\ [d \in Clients |-> Quota!NoBucket] \in [Clients -> Quota!Bucket]
<1>1. Quota!NoBucket \in Quota!Bucket
    BY DEF Quota!NoBucket, Quota!Bucket
<1>2. Quota!Pruned(op) \in [Clients -> Bucket]
    BY PrunedMap DEF MapOk
<1> QED BY <1>1, <1>2 DEF Bucket, Quota!Bucket

\* Retry-After of a rate that is zero.
LEMMA ToldDisabled ==
    ASSUME BucketsOk, now \in Nat, NEW op \in Quota!Ops, NEW c \in Clients,
           Quota!CapacityOf(op) = 0,
           Quota!Told(op, c, "disabled", Quota!InSeconds(Quota!WindowOf(op)))
    PROVE  ToldOk'
<1> DEFINE wait == Quota!InSeconds(Quota!WindowOf(op)) * Second
           none == [d \in Clients |-> Quota!NoBucket]
<1>1. told' = [why |-> "disabled", op |-> op, client |-> c, at |-> now, until |-> now + wait,
               entries |-> none]
    BY DEF Quota!Told
<1>2. wait \in Nat \ {0}
  <2>1. Quota!WindowOf(op) \in Nat \ {0} /\ 0 \in 0 .. Quota!WindowOf(op)
      BY OpFacts
  <2> QED BY <2>1, SecondsAreBounded
<1>3. none \in [Clients -> Quota!Bucket]
    BY EntriesAre
<1> HIDE DEF none
<1>4. told' \in Denials
  <2> HIDE DEF wait
  <2> QED BY <1>1, <1>2, <1>3 DEF Denials
<1>5. /\ told'.why = "disabled" /\ told'.op = op /\ told'.at = now /\ told'.until = now + wait
    BY <1>1
<1>6. /\ told'.at < told'.until
      /\ told'.until <= told'.at + Quota!InSeconds(Quota!WindowOf(told'.op)) * Second
  <2>1. Quota!InSeconds(Quota!WindowOf(told'.op)) * Second = wait
      BY <1>5
  <2> HIDE DEF wait
  <2> QED BY <1>2, <1>5, <2>1
<1>7. Quota!CapacityOf(told'.op) = 0
    BY <1>5
<1> QED BY <1>4, <1>5, <1>6, <1>7 DEF ToldOk

\* Retry-After of a full map: its earliest entry is one of its entries.
LEMMA EarliestIs ==
    ASSUME BucketsOk, now \in Nat, NEW op \in Quota!Ops, NEW c \in Clients, Quota!Full(op, c)
    PROVE  \E d \in Quota!Known(Quota!Pruned(op)) :
              /\ Quota!EarliestExpiry(op) = Quota!Pruned(op)[d].expires_at
              /\ Quota!EarliestExpiry(op) \in now + 1 .. now + Quota!WindowOf(op)
<1> DEFINE map == Quota!Pruned(op)
           known == Quota!Known(map)
           times == {map[d].expires_at : d \in known}
<1>1. MapOk(op, map, admitted[op])
    BY PrunedMap
<1>2. ASSUME NEW d \in known PROVE map[d].expires_at \in now + 1 .. now + Quota!WindowOf(op)
  <2>1. /\ d \in Clients /\ map[d].expires_at > 0 /\ BucketOk(op, map[d], now)
        /\ map[d] \in Bucket
      BY <1>1, <1>2 DEF MapOk, Quota!Known
  <2>2. /\ map[d].expires_at = map[d].updated_at + Quota!WindowOf(op)
        /\ map[d].updated_at <= now /\ map[d].updated_at \in Nat /\ map[d].expires_at \in Nat
      BY <2>1 DEF BucketOk, Bucket
  <2>3. ~(now >= map[d].expires_at)
      BY <2>1 DEF Quota!Pruned, Quota!NoBucket
  <2> HIDE DEF map
  <2> QED BY <2>2, <2>3, OpFacts
<1>3. known # {}
  <2>1. ~(Cardinality({}) >= MaxClientStates)
      BY FS_EmptySet, PartsAssumption DEF Quota!RatesAssumption
  <2>2. Cardinality(known) >= MaxClientStates
      BY SameCardinality DEF Quota!Full
  <2> QED BY <2>1, <2>2
<1> HIDE DEF map, known
<1>4. times \in SUBSET Nat /\ times # {}
  <2>1. \A d \in known : map[d].expires_at \in Nat
      BY <1>2, OpFacts
  <2> QED BY <1>3, <2>1
<1>5. \E x \in times : \A y \in times : x <= y
    BY <1>4, Least
<1>6. Quota!Min(times) \in times
    BY <1>5 DEF Quota!Min
<1>7. Quota!EarliestExpiry(op) = Quota!Min(times)
    BY DEF Quota!EarliestExpiry, map, known
<1>8. PICK d \in known : Quota!EarliestExpiry(op) = map[d].expires_at
    BY <1>6, <1>7
<1>9. Quota!EarliestExpiry(op) \in now + 1 .. now + Quota!WindowOf(op)
    BY <1>2, <1>8
<1> QED BY <1>8, <1>9 DEF map, known

LEMMA ToldFull ==
    ASSUME BucketsOk, now \in Nat, NEW op \in Quota!Ops, NEW c \in Clients, Quota!Full(op, c),
           Quota!Told(op, c, "full", Quota!RetryAfterFull(op))
    PROVE  ToldOk'
<1> DEFINE map == Quota!Pruned(op)
           early == Quota!EarliestExpiry(op)
           left == early - now
           wait == Quota!Max({1, Quota!InSeconds(left)}) * Second
           most == Quota!InSeconds(Quota!WindowOf(op)) * Second
<1>1. PICK d \in Quota!Known(map) :
        early = map[d].expires_at /\ early \in now + 1 .. now + Quota!WindowOf(op)
    BY EarliestIs
<1>2. told' = [why |-> "full", op |-> op, client |-> c, at |-> now, until |-> now + wait,
               entries |-> map]
    BY DEF Quota!Told, Quota!RetryAfterFull
<1>3. map \in [Clients -> Quota!Bucket]
    BY EntriesAre
<1>4. IsFiniteSet(Quota!Known(map)) /\ Cardinality(Quota!Known(map)) <= MaxClientStates
    BY PrunedMap DEF MapOk
<1> HIDE DEF map, early
<1>5. left \in 0 .. Quota!WindowOf(op) /\ early = now + left /\ Quota!WindowOf(op) \in Nat \ {0}
    BY <1>1, OpFacts
<1> HIDE DEF left
<1>6. wait \in Nat /\ left <= wait /\ wait # 0 /\ wait <= most /\ most \in Nat
  <2>1. left \in Nat
      BY <1>5
  <2>2. wait \in Nat /\ left <= wait /\ wait # 0
      BY <2>1, SecondsAreEnough
  <2>3. wait <= most /\ most \in Nat
      BY <1>5, SecondsAreBounded
  <2> QED BY <2>2, <2>3
<1>7. /\ told'.why = "full" /\ told'.at = now /\ told'.until = now + wait /\ told'.entries = map
      /\ Quota!InSeconds(Quota!WindowOf(told'.op)) * Second = most
    BY <1>2
<1> HIDE DEF wait, most
<1>8. told' \in Denials
    BY <1>2, <1>3, <1>6 DEF Denials
<1>9. told'.at < told'.until /\ told'.until <= told'.at + most
    BY <1>6, <1>7
<1>10. FullUntil(told'.entries, told'.until)
  <2>1. early <= now + wait
      BY <1>5, <1>6
  <2> QED BY <1>1, <1>4, <1>7, <2>1 DEF FullUntil
<1> QED BY <1>7, <1>8, <1>9, <1>10 DEF ToldOk

\* Retry-After of a bucket that holds no token.
LEMMA ToldRate ==
    ASSUME BucketsOk, now \in Nat, NEW op \in Quota!Ops, NEW c \in Clients,
           ~Quota!Full(op, c), ~Quota!HasToken(op, c), Quota!CapacityOf(op) # 0,
           buckets' = [buckets EXCEPT ![op] = Quota!Refused(op, c)],
           Quota!Told(op, c, "rate", Quota!RetryAfter(op, c))
    PROVE  ToldOk'
<1> DEFINE level == LevelOf(op, buckets[op][c], now)
           W == Quota!WindowOf(op)
           C == Quota!CapacityOf(op)
           missing == W - level
           ticks == (missing + C - 1) \div C
           wait == Quota!RetryAfter(op, c) * Second
           b == Written(op, level)
<1>1. /\ W \in Nat \ {0} /\ C \in Nat \ {0} /\ level \in Nat /\ level < W
      /\ Quota!Refilled(op, c) = b
  <2>1. /\ level \in 0 .. Most(op) /\ ~(W <= level) /\ Quota!Refilled(op, c) = b
      BY WritesAre
  <2> HIDE DEF level, b
  <2> QED BY <2>1, OpFacts
<1>2. Quota!Refilled(op, c).tokens = level /\ b.tokens = level /\ b.updated_at = now
    BY <1>1 DEF Written
<1>3. /\ wait \in Nat /\ missing <= wait * C /\ missing \in Nat /\ wait # 0
      /\ wait <= Quota!InSeconds(W) * Second /\ Quota!InSeconds(W) * Second \in Nat
  <2>1. wait = Quota!Max({1, Quota!InSeconds(ticks)}) * Second
      BY <1>2 DEF Quota!RetryAfter
  <2>2. missing \in Nat
      BY <1>1
  <2> HIDE DEF missing, C, wait
  <2>3. ticks \in Nat /\ missing <= ticks * C
      BY <1>1, <2>2, RoundedUp
  <2> HIDE DEF ticks
  <2>4. wait \in Nat /\ ticks <= wait /\ wait # 0
      BY <2>1, <2>3, SecondsAreEnough
  <2>7. ticks <= W
    <3>1. ASSUME W + 1 <= ticks PROVE FALSE
      <4>1. (W + 1) * C <= ticks * C /\ (W + 1) * C = W * C + C
          BY <1>1, <2>3, <3>1, Grows, Distributes
      <4>2. ticks * C <= missing + C - 1
        <5>1. missing + C - 1 \in Nat
            BY <1>1, <2>2
        <5> QED BY <1>1, <5>1, Quotient DEF ticks
      <4>3. missing <= W
          BY <1>1 DEF missing
      <4>4. 1 * W <= C * W /\ C * W = W * C /\ 1 * W = W
          BY <1>1, Grows
      <4>5. W * C \in Int /\ ticks * C \in Int /\ (W + 1) * C \in Int
          BY <1>1, <2>3
      <4> QED BY <1>1, <2>2, <4>1, <4>2, <4>3, <4>4, <4>5
    <3> QED BY <1>1, <2>3, <3>1
  <2>8. wait <= Quota!InSeconds(W) * Second /\ Quota!InSeconds(W) * Second \in Nat
      BY <1>1, <2>1, <2>3, <2>7, SecondsAreBounded
  <2>5. ticks * C <= wait * C
      BY <1>1, <2>3, <2>4, Grows
  <2>6. ticks * C \in Nat /\ wait * C \in Nat
      BY <1>1, <2>3, <2>4
  <2> QED BY <2>2, <2>3, <2>4, <2>5, <2>6, <2>8
<1>4. told' = [why |-> "rate", op |-> op, client |-> c, at |-> now, until |-> now + wait,
               entries |-> [d \in Clients |-> Quota!NoBucket]]
    BY DEF Quota!Told
<1>5. buckets'[op][c] = b
  <2>1. Quota!Refused(op, c) = [Quota!Pruned(op) EXCEPT ![c] = b]
      BY <1>1 DEF Quota!Refused
  <2>2. c \in DOMAIN Quota!Pruned(op)
      BY DEF Quota!Pruned
  <2> HIDE DEF b
  <2> QED BY <2>1, <2>2 DEF BucketsOk
<1> HIDE DEF b, wait, level, C, W
<1>6. told' \in Denials
    BY <1>3, <1>4, EntriesAre DEF Denials
<1>7. (now + wait) - now = wait /\ now <= now + wait
    BY <1>3
<1>8. level + wait * C >= W
  <2>1. wait * C \in Int
      BY <1>1, <1>3
  <2> QED BY <1>1, <1>3, <2>1
<1>9. LET bucket == buckets'[told'.op][told'.client] IN
      /\ Quota!CapacityOf(told'.op) > 0
      /\ bucket.updated_at <= told'.until
      /\ bucket.tokens + (told'.until - bucket.updated_at) * Quota!CapacityOf(told'.op)
            >= Quota!WindowOf(told'.op)
  <2>1. /\ told'.op = op /\ told'.client = c /\ told'.until = now + wait
        /\ buckets'[told'.op][told'.client] = b
      BY <1>4, <1>5
  <2>2. C = Quota!CapacityOf(told'.op) /\ W = Quota!WindowOf(told'.op) /\ C > 0
      BY <1>1, <2>1 DEF C, W
  <2> QED BY <1>2, <1>7, <1>8, <2>1, <2>2
<1>10. told'.why = "rate" /\ told'.op = op /\ told'.at = now /\ told'.until = now + wait
    BY <1>4
<1>11. told'.at < told'.until
    BY <1>3, <1>10
<1>12. told'.until <= told'.at + Quota!InSeconds(Quota!WindowOf(told'.op)) * Second
    BY <1>3, <1>10 DEF W
<1> QED BY <1>6, <1>9, <1>10, <1>11, <1>12 DEF ToldOk

\* Retry-After of a budget that is spent.
LEMMA ToldBudget ==
    ASSUME BucketsOk, now \in Nat, NEW c \in Clients,
           Quota!Told("solve", c, "budget",
                      Quota!Max({1, Quota!InSeconds((Quota!Today + 1) * Day - now)}))
    PROVE  ToldOk'
<1> DEFINE left == (Quota!Today + 1) * Day - now
           wait == Quota!Max({1, Quota!InSeconds(left)}) * Second
<1>1. Day \in Nat \ {0}
    BY PartsAssumption DEF Quota!RatesAssumption
<1>2. Quota!Today \in Nat /\ (Quota!Today + 1) * Day \in Nat /\ left \in Nat
  <2>1. Quota!Today \in Nat /\ now < (Quota!Today + 1) * Day
      BY <1>1, Quotient DEF Quota!Today
  <2>2. (Quota!Today + 1) * Day \in Nat
      BY <1>1, <2>1
  <2> QED BY <2>1, <2>2
<1>3. told' = [why |-> "budget", op |-> "solve", client |-> c, at |-> now, until |-> now + wait,
               entries |-> [d \in Clients |-> Quota!NoBucket]]
    BY DEF Quota!Told
<1>4. wait \in Nat /\ left <= wait /\ wait # 0
  <2> HIDE DEF left
  <2> QED BY <1>2, SecondsAreEnough
<1> HIDE DEF wait
<1>5. (Quota!Today + 1) * Day <= now + wait
    BY <1>2, <1>4
<1>6. told' \in Denials
    BY <1>3, <1>4, EntriesAre DEF Denials, Quota!Ops
<1>7. /\ told'.why = "budget" /\ (told'.at \div Day + 1) * Day <= told'.until
      /\ told'.at < told'.until
    BY <1>3, <1>4, <1>5 DEF Quota!Today
<1> QED BY <1>6, <1>7 DEF ToldOk

-----------------------------------------------------------------------------
(***************************************************************************)
(* The daily budget.                                                       *)
(***************************************************************************)
LEMMA DayOf ==
    ASSUME NEW n \in Nat, NEW d \in Nat
    PROVE  n \in d * Day .. (d + 1) * Day - 1 <=> n \div Day = d
<1> DEFINE q == n \div Day
<1>1. Day \in Nat \ {0} /\ Day \in Nat
    BY PartsAssumption DEF Quota!RatesAssumption
<1>2. q \in Nat /\ q * Day <= n /\ n < (q + 1) * Day
    BY <1>1, Quotient
<1> HIDE DEF q
<1> DEFINE lo == d * Day
           hi == (d + 1) * Day
           qlo == q * Day
           qhi == (q + 1) * Day
<1>3. lo \in Int /\ hi \in Int /\ qlo \in Int /\ qhi \in Int /\ qlo <= n /\ n < qhi
    BY <1>1, <1>2, Distributes
<1>4. q = d => lo = qlo /\ hi = qhi
    OBVIOUS
<1>5. d < q => hi <= qlo
    BY <1>1, <1>2, Grows
<1>6. q < d => qhi <= lo
    BY <1>1, <1>2, Grows
<1> HIDE DEF lo, hi, qlo, qhi
<1>7. (n \in lo .. hi - 1) <=> q = d
  <2>1. (n \in lo .. hi - 1) <=> (lo <= n /\ n < hi)
      BY <1>3
  <2>2. CASE q = d
      BY <1>3, <1>4, <2>1, <2>2
  <2>3. CASE d < q
      BY <1>2, <1>3, <1>5, <2>1, <2>3
  <2>4. CASE q < d
      BY <1>2, <1>3, <1>6, <2>1, <2>4
  <2> QED BY <1>2, <2>2, <2>3, <2>4
<1> QED BY <1>7 DEF q, lo, hi

\* The solves of a day, among those that were admitted to each client.
SolvesIn(all, d) ==
    {p \in UNION {{<<c, i>> : i \in DOMAIN all[c]} : c \in Clients} : all[p[1]][p[2]] \div Day = d}

LEMMA SolvesAre ==
    ASSUME NEW all, NEW d
    PROVE  \A p : p \in SolvesIn(all, d) <=>
              \E c \in Clients : \E i \in DOMAIN all[c] : p = <<c, i>> /\ all[c][i] \div Day = d
<1>1. ASSUME NEW c \in Clients, NEW i \in DOMAIN all[c]
      PROVE  <<c, i>> \in UNION {{<<e, k>> : k \in DOMAIN all[e]} : e \in Clients}
    OBVIOUS
<1> QED BY <1>1 DEF SolvesIn

LEMMA SolvesOnIs ==
    ASSUME BucketsOk
    PROVE  \A d \in Nat : Quota!SolvesOn(d) = SolvesIn(admitted["solve"], d)
<1> SUFFICES ASSUME NEW d \in Nat PROVE Quota!SolvesOn(d) = SolvesIn(admitted["solve"], d)
    OBVIOUS
<1> DEFINE all == admitted["solve"]
<1>1. all \in [Clients -> Seq(Nat)]
    BY DEF BucketsOk, Quota!Ops
<1>2. \A p : p \in Quota!SolvesOn(d) <=>
        \E c \in Clients : \E i \in DOMAIN all[c] :
            p = <<c, i>> /\ all[c][i] \in d * Day .. (d + 1) * Day - 1
    BY DEF Quota!SolvesOn, Quota!Of
<1> HIDE DEF all
<1>3. \A c \in Clients : \A i \in DOMAIN all[c] :
        all[c][i] \in d * Day .. (d + 1) * Day - 1 <=> all[c][i] \div Day = d
    BY <1>1, DayOf
<1>4. \A p : p \in Quota!SolvesOn(d) <=> p \in SolvesIn(all, d)
    BY <1>2, <1>3, SolvesAre
<1> QED BY <1>4 DEF all

LEMMA SolvesOnIsNext ==
    ASSUME BucketsOk'
    PROVE  \A d \in Nat : Quota!SolvesOn(d)' = SolvesIn(admitted'["solve"], d)
<1> SUFFICES ASSUME NEW d \in Nat PROVE Quota!SolvesOn(d)' = SolvesIn(admitted'["solve"], d)
    OBVIOUS
<1> DEFINE all == admitted'["solve"]
<1>1. all \in [Clients -> Seq(Nat)]
    BY DEF BucketsOk, Quota!Ops
<1>2. \A p : p \in Quota!SolvesOn(d)' <=>
        \E c \in Clients : \E i \in DOMAIN all[c] :
            p = <<c, i>> /\ all[c][i] \in d * Day .. (d + 1) * Day - 1
    BY DEF Quota!SolvesOn, Quota!Of
<1> HIDE DEF all
<1>3. \A c \in Clients : \A i \in DOMAIN all[c] :
        all[c][i] \in d * Day .. (d + 1) * Day - 1 <=> all[c][i] \div Day = d
    BY <1>1, DayOf
<1>4. \A p : p \in Quota!SolvesOn(d)' <=> p \in SolvesIn(all, d)
    BY <1>2, <1>3, SolvesAre
<1> QED BY <1>4 DEF all

\* The budget of day d, when n solves were counted and r seconds reserved, on day today.
Account(all, d, n, r, today) ==
    /\ d \in Nat /\ d <= today
    /\ \A c \in Clients : \A i \in DOMAIN all[c] : all[c][i] < (d + 1) * Day
    /\ n = Cardinality(SolvesIn(all, d)) /\ r = n * Reservation
    /\ \A e \in Nat : /\ IsFiniteSet(SolvesIn(all, e))
                      /\ Cardinality(SolvesIn(all, e)) <= SolvesPerDay
                      /\ Cardinality(SolvesIn(all, e)) * Reservation <= GpuLimit

LEMMA AccountIs ==
    ASSUME BucketsOk
    PROVE  BudgetOk <=> Account(admitted["solve"], day, solves, reserved, now \div Day)
<1>1. Quota!Today = now \div Day
    BY DEF Quota!Today
<1> QED BY <1>1, SolvesOnIs DEF BudgetOk, Account

LEMMA AccountIsNext ==
    ASSUME BucketsOk',
           Account(admitted'["solve"], day', solves', reserved', now' \div Day)
    PROVE  BudgetOk'
<1>1. Quota!Today' = now' \div Day
    BY DEF Quota!Today
<1>2. \A d \in Nat : Quota!SolvesOn(d)' = SolvesIn(admitted'["solve"], d)
    BY SolvesOnIsNext
<1>3. day' \in Nat
    BY DEF Account
<1>4. Quota!SolvesOn(day)' = SolvesIn(admitted'["solve"], day')
    BY <1>2, <1>3 DEF Quota!SolvesOn, Quota!Of
<1> QED BY <1>1, <1>2, <1>4 DEF BudgetOk, Account

\* The clock passes.
LEMMA AccountRests ==
    ASSUME NEW all, NEW d, NEW n, NEW r, NEW t \in Nat, NEW u \in Nat, t <= u,
           Account(all, d, n, r, t)
    PROVE  Account(all, d, n, r, u)
BY DEF Account

\* A day that begins has no solves.
LEMMA AccountReset ==
    ASSUME NEW all \in [Clients -> Seq(Nat)], NEW d, NEW n, NEW r, NEW t \in Nat,
           Account(all, d, n, r, t)
    PROVE  Account(all, t, IF d = t THEN n ELSE 0, IF d = t THEN r ELSE 0, t)
<1>1. CASE d = t
    BY <1>1
<1>2. CASE d # t
  <2>1. Day \in Nat \ {0} /\ Day \in Nat
      BY PartsAssumption DEF Quota!RatesAssumption
  <2>2. d \in Nat /\ d + 1 <= t /\ d + 1 <= t + 1
      BY <1>2 DEF Account
  <2>3. (d + 1) * Day <= t * Day /\ (d + 1) * Day <= (t + 1) * Day
      BY <2>1, <2>2, Grows
  <2>4. (d + 1) * Day \in Int /\ t * Day \in Int /\ (t + 1) * Day \in Int
      BY <2>1, <2>2
  <2>5. ASSUME NEW c \in Clients, NEW i \in DOMAIN all[c]
        PROVE  all[c][i] < (t + 1) * Day /\ all[c][i] \div Day # t
    <3>1. all[c][i] \in Nat /\ all[c][i] < (d + 1) * Day
        BY DEF Account
    <3>2. all[c][i] < (t + 1) * Day /\ all[c][i] < t * Day
      <4> DEFINE hi == (d + 1) * Day
                 lo == t * Day
                 next == (t + 1) * Day
      <4>1. hi <= lo /\ hi <= next /\ hi \in Int /\ lo \in Int /\ next \in Int /\ all[c][i] < hi
          BY <2>3, <2>4, <3>1
      <4> HIDE DEF hi, lo, next
      <4>2. all[c][i] < lo /\ all[c][i] < next
          BY <3>1, <4>1
      <4> QED BY <4>2 DEF lo, next
    <3>3. (all[c][i] \div Day) * Day <= all[c][i]
        BY <2>1, <3>1, Quotient
    <3> QED BY <2>4, <3>1, <3>2, <3>3
  <2>6. SolvesIn(all, t) = {}
      BY <2>5, SolvesAre
  <2>7. Cardinality(SolvesIn(all, t)) = 0
      BY <2>6, FS_EmptySet
  <2>8. 0 = 0 * Reservation
      BY PartsAssumption, Distributes DEF Quota!BudgetAssumption
  <2> QED BY <1>2, <2>5, <2>7, <2>8 DEF Account
<1> QED BY <1>1, <1>2

\* A solve is counted where there is room for it.
LEMMA AccountCharge ==
    ASSUME NEW all \in [Clients -> Seq(Nat)], NEW n, NEW r, NEW u \in Nat, NEW c \in Clients,
           Account(all, u \div Day, n, r, u \div Day), n < SolvesPerDay, r + Reservation <= GpuLimit
    PROVE  Account([all EXCEPT ![c] = Append(@, u)], u \div Day, n + 1, r + Reservation, u \div Day)
<1> DEFINE t == u \div Day
           k == Len(all[c]) + 1
           more == [all EXCEPT ![c] = Append(@, u)]
<1>1. /\ Day \in Nat \ {0} /\ SolvesPerDay \in Nat /\ Reservation \in Nat /\ GpuLimit \in Nat
    BY PartsAssumption DEF Quota!RatesAssumption, Quota!BudgetAssumption
<1>2. t \in Nat /\ u < (t + 1) * Day
    BY <1>1, Quotient
<1>3. /\ more \in [Clients -> Seq(Nat)] /\ k \in Nat
      /\ \A e \in Clients \ {c} : more[e] = all[e]
      /\ DOMAIN more[c] = DOMAIN all[c] \cup {k} /\ k \notin DOMAIN all[c]
      /\ more[c][k] = u /\ \A i \in DOMAIN all[c] : more[c][i] = all[c][i]
  <2>1. more[c] = Append(all[c], u) /\ all[c] \in Seq(Nat)
      OBVIOUS
  <2> QED BY <2>1
<1> HIDE DEF more, k
<1>4. \A e \in Nat : SolvesIn(more, e) =
            IF e = t THEN SolvesIn(all, e) \cup {<<c, k>>} ELSE SolvesIn(all, e)
  <2> SUFFICES ASSUME NEW e \in Nat, NEW p
               PROVE  p \in SolvesIn(more, e) <=>
                        p \in SolvesIn(all, e) \/ (e = t /\ p = <<c, k>>)
      OBVIOUS
  <2>1. p \in SolvesIn(all, e) <=>
            \E d \in Clients : \E i \in DOMAIN all[d] : p = <<d, i>> /\ all[d][i] \div Day = e
      BY SolvesAre
  <2>2. p \in SolvesIn(more, e) <=>
            \E d \in Clients : \E i \in DOMAIN more[d] : p = <<d, i>> /\ more[d][i] \div Day = e
      BY SolvesAre
  <2>3. ASSUME NEW d \in Clients
        PROVE  (\E i \in DOMAIN more[d] : p = <<d, i>> /\ more[d][i] \div Day = e)
                 <=> \/ \E i \in DOMAIN all[d] : p = <<d, i>> /\ all[d][i] \div Day = e
                     \/ d = c /\ e = t /\ p = <<c, k>>
    <3>1. CASE d # c
        BY <1>3, <3>1
    <3>2. CASE d = c
        BY <1>3, <3>2
    <3> QED BY <3>1, <3>2
  <2> HIDE DEF t
  <2> QED BY <2>1, <2>2, <2>3
<1>5. <<c, k>> \notin SolvesIn(all, t)
  <2>1. <<c, k>> \in SolvesIn(all, t) => \E d \in Clients : \E i \in DOMAIN all[d] : <<c, k>> = <<d, i>>
      BY SolvesAre
  <2> QED BY <1>3, <2>1
<1> DEFINE S == SolvesIn(all, t)
<1>6. IsFiniteSet(S) /\ n = Cardinality(S) /\ n \in Nat /\ r = n * Reservation /\ r \in Nat
  <2>1. IsFiniteSet(S) /\ n = Cardinality(S) /\ r = n * Reservation
      BY <1>2 DEF Account
  <2>2. n \in Nat
      BY <2>1, FS_CardinalityType
  <2> QED BY <1>1, <2>1, <2>2
<1>7. /\ SolvesIn(more, t) = S \cup {<<c, k>>} /\ IsFiniteSet(SolvesIn(more, t))
      /\ Cardinality(SolvesIn(more, t)) = n + 1
  <2>1. SolvesIn(more, t) = S \cup {<<c, k>>}
      BY <1>2, <1>4
  <2>2. <<c, k>> \notin S
      BY <1>5
  <2> HIDE DEF S
  <2>3. IsFiniteSet(S \cup {<<c, k>>}) /\ Cardinality(S \cup {<<c, k>>}) = Cardinality(S) + 1
      BY <1>6, <2>2, FS_AddElement
  <2> QED BY <1>6, <2>1, <2>3
<1>8. (n + 1) * Reservation = r + Reservation
    BY <1>1, <1>6, Distributes
<1>9. n + 1 <= SolvesPerDay
    BY <1>1, <1>6
<1>10. ASSUME NEW e \in Nat
       PROVE  /\ IsFiniteSet(SolvesIn(more, e))
              /\ Cardinality(SolvesIn(more, e)) <= SolvesPerDay
              /\ Cardinality(SolvesIn(more, e)) * Reservation <= GpuLimit
  <2>1. CASE e = t
      BY <1>7, <1>8, <1>9, <2>1
  <2>2. CASE e # t
      BY <1>4, <2>2 DEF Account
  <2> QED BY <2>1, <2>2
<1>11. \A d \in Clients : \A i \in DOMAIN more[d] : more[d][i] < (t + 1) * Day
  <2>1. \A d \in Clients : \A i \in DOMAIN all[d] : all[d][i] < (t + 1) * Day
      BY DEF Account
  <2> HIDE DEF t
  <2> SUFFICES ASSUME NEW d \in Clients, NEW i \in DOMAIN more[d]
               PROVE  more[d][i] < (t + 1) * Day
      OBVIOUS
  <2>2. CASE d # c
      BY <1>3, <2>1, <2>2
  <2>3. CASE d = c
      BY <1>2, <1>3, <2>1, <2>3
  <2> QED BY <2>2, <2>3
<1> HIDE DEF t
<1>12. Account(more, t, n + 1, r + Reservation, t)
    BY <1>2, <1>7, <1>8, <1>10, <1>11 DEF Account
<1> QED BY <1>12 DEF more, t

-----------------------------------------------------------------------------
(***************************************************************************)
(* Admission keeps its invariant.                                          *)
(***************************************************************************)
LEMMA ResetIs ==
    ASSUME QuotaInv
    PROVE  /\ now \div Day \in Nat
           /\ Account(admitted["solve"], now \div Day, Quota!Reset.solves, Quota!Reset.reserved,
                      now \div Day)
<1> DEFINE t == now \div Day
<1>1. t \in Nat
    BY Quotient, PartsAssumption DEF QuotaInv, Quota!RatesAssumption
<1>2. admitted["solve"] \in [Clients -> Seq(Nat)]
    BY DEF QuotaInv, BucketsOk, Quota!Ops
<1>3. Account(admitted["solve"], day, solves, reserved, t)
    BY AccountIs DEF QuotaInv
<1>4. /\ Quota!Reset.solves = IF day = t THEN solves ELSE 0
      /\ Quota!Reset.reserved = IF day = t THEN reserved ELSE 0
    BY DEF Quota!Reset, Quota!Today
<1> HIDE DEF t
<1>5. Account(admitted["solve"], t, Quota!Reset.solves, Quota!Reset.reserved, t)
    BY <1>1, <1>2, <1>3, <1>4, AccountReset
<1> QED BY <1>1, <1>5 DEF t

\* A method that admits no solve leaves the budget, or starts a new day.
LEMMA BudgetKept ==
    ASSUME QuotaInv, BucketsOk', now' = now, admitted'["solve"] = admitted["solve"],
           \/ UNCHANGED <<day, solves, reserved>>
           \/ day' = Quota!Today /\ Quota!CountsNothing
    PROVE  BudgetOk'
<1>1. Account(admitted["solve"], day, solves, reserved, now \div Day)
    BY AccountIs DEF QuotaInv
<1>2. Account(admitted["solve"], now \div Day, Quota!Reset.solves, Quota!Reset.reserved,
              now \div Day)
    BY ResetIs
<1>3. Account(admitted'["solve"], day', solves', reserved', now' \div Day)
    BY <1>1, <1>2 DEF Quota!Today, Quota!CountsNothing
<1> QED BY <1>3, AccountIsNext

\* A client that asks again waits no longer, and others lose at most a bucket that is full.
LEMMA AsksStands ==
    ASSUME QuotaInv, NEW op \in Quota!Ops, NEW c \in Clients, NEW map,
           Quota!AsksAgain(op, c), buckets' = [buckets EXCEPT ![op] = map],
           \A d \in Clients \ {c} : map[d] = Quota!Pruned(op)[d]
    PROVE  ToldOk'
<1>1. told' \in {told, Quota!Nothing}
    BY DEF Quota!AsksAgain
<1>2. ASSUME told' # Quota!Nothing, told \in Denials
      PROVE  \/ buckets'[told.op][told.client] = buckets[told.op][told.client]
             \/ buckets'[told.op][told.client].expires_at = 0
  <2>1. told.op \in Quota!Ops /\ told.client \in Clients
      BY <1>2 DEF Denials
  <2>2. told.op # op \/ told.client # c
      BY <1>2 DEF Quota!AsksAgain
  <2>3. CASE told.op # op
      BY <2>1, <2>3 DEF QuotaInv, BucketsOk
  <2>4. CASE told.op = op
    <3>1. buckets'[told.op][told.client] = Quota!Pruned(op)[told.client]
        BY <2>1, <2>2, <2>4 DEF QuotaInv, BucketsOk
    <3> QED BY <2>1, <2>4, <3>1, PrunedKeeps DEF QuotaInv
  <2> QED BY <2>3, <2>4
<1> QED BY <1>1, <1>2, ToldStands DEF QuotaInv

LEMMA PredictionAdmittedInv ==
    ASSUME QuotaInv, NEW c \in Clients, Quota!PredictionAdmitted(c)
    PROVE  QuotaInv'
<1>1. BucketsOk'
    BY ChargedInv DEF Quota!PredictionAdmitted, QuotaInv, Quota!Ops
<1>2. BudgetOk'
  <2>1. admitted'["solve"] = admitted["solve"]
      BY DEF Quota!PredictionAdmitted, Quota!Admits, QuotaInv, BucketsOk, Quota!Ops
  <2> QED BY <1>1, <2>1, BudgetKept DEF Quota!PredictionAdmitted
<1>3. ToldOk'
  <2>1. \A d \in Clients \ {c} : Quota!Charged("predict", c)[d] = Quota!Pruned("predict")[d]
      BY DEF Quota!Charged, Quota!Pruned
  <2> QED BY <2>1, AsksStands DEF Quota!PredictionAdmitted, Quota!Admits, Quota!Ops
<1> QED BY <1>1, <1>2, <1>3 DEF QuotaInv, Quota!PredictionAdmitted

\* A request that is denied at its bucket.
LEMMA LimitedStands ==
    ASSUME QuotaInv, NEW op \in Quota!Ops, NEW c \in Clients, Quota!Limited(op, c),
           buckets' = [buckets EXCEPT ![op] = Quota!Refused(op, c)]
    PROVE  ToldOk'
<1> USE DEF QuotaInv
<1>1. Quota!CapacityOf(op) \in Nat
    BY OpFacts
<1>2. CASE Quota!CapacityOf(op) = 0
    BY <1>2, ToldDisabled DEF Quota!Limited
<1>3. CASE Quota!CapacityOf(op) # 0 /\ Quota!Full(op, c)
    BY <1>3, ToldFull DEF Quota!Limited
<1>4. CASE Quota!CapacityOf(op) # 0 /\ ~Quota!Full(op, c)
    BY <1>4, ToldRate DEF Quota!Limited
<1> QED BY <1>2, <1>3, <1>4

LEMMA PredictionLimitedInv ==
    ASSUME QuotaInv, NEW c \in Clients, Quota!PredictionLimited(c)
    PROVE  QuotaInv'
<1>1. /\ "predict" \in Quota!Ops /\ now' = now /\ admitted' = admitted
      /\ buckets' = [buckets EXCEPT !["predict"] = Quota!Refused("predict", c)]
      /\ UNCHANGED <<day, solves, reserved>>
    BY DEF Quota!PredictionLimited, Quota!Ops
<1>2. BucketsOk'
    BY <1>1, RefusedInv DEF QuotaInv
<1>3. BudgetOk'
    BY <1>1, <1>2, BudgetKept
<1>4. ToldOk'
    BY <1>1, LimitedStands DEF Quota!PredictionLimited
<1> QED BY <1>1, <1>2, <1>3, <1>4 DEF QuotaInv

LEMMA SolveAdmittedInv ==
    ASSUME QuotaInv, NEW c \in Clients, Quota!SolveAdmitted(c)
    PROVE  QuotaInv'
<1>1. /\ "solve" \in Quota!Ops /\ now' = now /\ now \in Nat
      /\ buckets' = [buckets EXCEPT !["solve"] = Quota!Charged("solve", c)]
      /\ Quota!Admits("solve", c)
    BY DEF Quota!SolveAdmitted, Quota!Ops, QuotaInv
<1>2. BucketsOk'
    BY <1>1, ChargedInv DEF Quota!SolveAdmitted, QuotaInv
<1>3. BudgetOk'
  <2> DEFINE all == admitted["solve"]
             n == Quota!Reset.solves
             r == Quota!Reset.reserved
  <2>1. Account(all, now \div Day, n, r, now \div Day)
      BY ResetIs
  <2>2. n < SolvesPerDay /\ r + Reservation <= GpuLimit
      BY DEF Quota!SolveAdmitted, Quota!HasBudget
  <2>3. all \in [Clients -> Seq(Nat)]
      BY <1>1 DEF QuotaInv, BucketsOk
  <2>4. /\ admitted'["solve"] = [all EXCEPT ![c] = Append(@, now)]
        /\ day' = now \div Day /\ solves' = n + 1 /\ reserved' = r + Reservation
      BY <1>1 DEF Quota!Admits, Quota!SolveAdmitted, Quota!Today, QuotaInv, BucketsOk
  <2> HIDE DEF all, n, r
  <2>5. Account([all EXCEPT ![c] = Append(@, now)], now \div Day, n + 1, r + Reservation,
                now \div Day)
      BY <1>1, <2>1, <2>2, <2>3, AccountCharge
  <2>6. Account(admitted'["solve"], day', solves', reserved', now' \div Day)
      BY <1>1, <2>4, <2>5
  <2> QED BY <1>2, <2>6, AccountIsNext
<1>4. ToldOk'
  <2>1. \A d \in Clients \ {c} : Quota!Charged("solve", c)[d] = Quota!Pruned("solve")[d]
      BY DEF Quota!Charged, Quota!Pruned
  <2> QED BY <1>1, <2>1, AsksStands DEF Quota!Admits
<1> QED BY <1>1, <1>2, <1>3, <1>4 DEF QuotaInv

LEMMA SolveOverBudgetInv ==
    ASSUME QuotaInv, NEW c \in Clients, Quota!SolveOverBudget(c)
    PROVE  QuotaInv'
<1>1. /\ now' = now /\ now \in Nat /\ UNCHANGED <<buckets, admitted>>
      /\ day' = Quota!Today /\ Quota!CountsNothing
    BY DEF Quota!SolveOverBudget, QuotaInv
<1>2. BucketsOk'
    BY <1>1 DEF QuotaInv, BucketsOk
<1>3. BudgetOk'
    BY <1>1, <1>2, BudgetKept
<1>4. ToldOk'
    BY <1>1, ToldBudget DEF Quota!SolveOverBudget, QuotaInv
<1> QED BY <1>1, <1>2, <1>3, <1>4 DEF QuotaInv

LEMMA SolveLimitedInv ==
    ASSUME QuotaInv, NEW c \in Clients, Quota!SolveLimited(c)
    PROVE  QuotaInv'
<1>1. /\ "solve" \in Quota!Ops /\ now' = now /\ now \in Nat /\ admitted' = admitted
      /\ day' = Quota!Today /\ Quota!CountsNothing
    BY DEF Quota!SolveLimited, Quota!Ops, QuotaInv
<1>2. buckets' = [buckets EXCEPT !["solve"] = Quota!Refused("solve", c)]
    BY DEF Quota!SolveLimited
<1>3. BucketsOk'
    BY <1>1, <1>2, RefusedInv DEF QuotaInv
<1>4. BudgetOk'
    BY <1>1, <1>3, BudgetKept
<1>5. ToldOk'
    BY <1>1, <1>2, LimitedStands DEF Quota!SolveLimited
<1> QED BY <1>1, <1>3, <1>4, <1>5 DEF QuotaInv

LEMMA QuotaSnapshotInv ==
    ASSUME QuotaInv, Quota!Snapshot
    PROVE  QuotaInv'
<1>1. /\ now' = now /\ now \in Nat /\ UNCHANGED <<admitted, told>>
      /\ buckets' = [op \in Quota!Ops |-> Quota!Pruned(op)]
      /\ day' = Quota!Today /\ Quota!CountsNothing
    BY DEF Quota!Snapshot, Quota!CountsNothing, QuotaInv
<1>2. BucketsOk'
    BY <1>1, SnapshotInv DEF QuotaInv
<1>3. BudgetOk'
    BY <1>1, <1>2, BudgetKept
<1>4. ToldOk'
  <2>1. ASSUME told \in Denials
        PROVE  \/ buckets'[told.op][told.client] = buckets[told.op][told.client]
               \/ buckets'[told.op][told.client].expires_at = 0
    <3>1. told.op \in Quota!Ops /\ told.client \in Clients
        BY <2>1 DEF Denials
    <3>2. buckets'[told.op] = Quota!Pruned(told.op)
        BY <1>1, <3>1
    <3> QED BY <3>1, <3>2, PrunedKeeps DEF QuotaInv
  <2> QED BY <1>1, <2>1, ToldStands DEF QuotaInv
<1> QED BY <1>1, <1>2, <1>3, <1>4 DEF QuotaInv

LEMMA ReadinessInv ==
    ASSUME QuotaInv, Quota!Readiness
    PROVE  QuotaInv'
<1>1. /\ now' = now /\ now \in Nat /\ UNCHANGED <<buckets, admitted, told>>
      /\ day' = Quota!Today /\ Quota!CountsNothing
    BY DEF Quota!Readiness, Quota!CountsNothing, QuotaInv
<1>2. BucketsOk'
    BY <1>1 DEF QuotaInv, BucketsOk
<1>3. BudgetOk'
    BY <1>1, <1>2, BudgetKept
<1>4. ToldOk'
    BY <1>1, ToldStands DEF QuotaInv
<1> QED BY <1>1, <1>2, <1>3, <1>4 DEF QuotaInv

\* The clock may also be moved by the coordinator.
LEMMA QuotaTickInv ==
    ASSUME QuotaInv, UNCHANGED quotaVars, now' \in {now, now + 1}
    PROVE  QuotaInv'
<1>1. /\ now \in Nat /\ now' \in Nat /\ now <= now'
      /\ UNCHANGED <<buckets, day, solves, reserved, admitted, told>>
    BY DEF QuotaInv, quotaVars
<1>2. BucketsOk'
  <2>1. CASE now' = now
      BY <1>1, <2>1 DEF QuotaInv, BucketsOk
  <2>2. CASE now' = now + 1
      BY <1>1, <2>2, RateTickInv DEF QuotaInv
  <2> QED BY <2>1, <2>2
<1>3. BudgetOk'
  <2> DEFINE t == now \div Day
             u == now' \div Day
  <2>1. Day \in Nat \ {0} /\ Day \in Nat
      BY PartsAssumption DEF Quota!RatesAssumption
  <2>2. t \in Nat /\ u \in Nat /\ t * Day <= now /\ now' < (u + 1) * Day
      BY <1>1, <2>1, Quotient
  <2>3. Account(admitted["solve"], day, solves, reserved, t)
      BY AccountIs DEF QuotaInv
  <2> HIDE DEF t, u
  <2>4. t <= u
    <3>1. CASE u + 1 <= t
      <4>1. (u + 1) * Day <= t * Day
          BY <2>1, <2>2, <3>1, Grows
      <4>2. (u + 1) * Day \in Int /\ t * Day \in Int
          BY <2>1, <2>2
      <4> QED BY <1>1, <2>2, <4>1, <4>2
    <3> QED BY <2>2, <3>1
  <2>5. Account(admitted["solve"], day, solves, reserved, u)
      BY <2>2, <2>3, <2>4, AccountRests
  <2>6. Account(admitted'["solve"], day', solves', reserved', now' \div Day)
      BY <1>1, <2>5 DEF u
  <2> QED BY <1>2, <2>6, AccountIsNext
<1>4. ToldOk'
    BY <1>1, ToldStands DEF QuotaInv
<1> QED BY <1>1, <1>2, <1>3, <1>4 DEF QuotaInv

LEMMA QuotaNextInv == QuotaInv /\ Quota!Next => QuotaInv'
<1> SUFFICES ASSUME QuotaInv, Quota!Next PROVE QuotaInv'
    OBVIOUS
<1>1. ASSUME NEW c \in Clients,
             \/ Quota!PredictionAdmitted(c) \/ Quota!PredictionLimited(c)
             \/ Quota!SolveAdmitted(c) \/ Quota!SolveOverBudget(c) \/ Quota!SolveLimited(c)
      PROVE  QuotaInv'
    BY <1>1, PredictionAdmittedInv, PredictionLimitedInv, SolveAdmittedInv, SolveOverBudgetInv,
       SolveLimitedInv
<1>2. ASSUME Quota!Tick PROVE QuotaInv'
    BY <1>2, QuotaTickInv DEF Quota!Tick, quotaVars
<1> QED BY <1>1, <1>2, QuotaSnapshotInv, ReadinessInv DEF Quota!Next

-----------------------------------------------------------------------------
(***************************************************************************)
(* The invariant of the specification.                                     *)
(***************************************************************************)
LEMMA HttpInit == Http!Init => HttpInv
<1> SUFFICES ASSUME Http!Init PROVE HttpInv
    OBVIOUS
<1>1. Http!Idle \in Conns /\ Http!Idle.status = 0
    BY PartsAssumption DEF Http!Idle, Conns, Http!BoundaryAssumption, Http!Paths, Statuses
<1> DEFINE absent == [state |-> "absent", digest |-> None, key |-> None]
<1>2. absent \in JobRecords /\ absent.state = "absent"
    BY DEF JobRecords
<1>3. /\ conn = [c \in Connections |-> Http!Idle]
      /\ jobs = [j \in Http!JobIds |-> absent]
      /\ charged = [scope \in {"solve", "predict"} |-> 0]
      /\ ready \in BOOLEAN /\ enabled \in BOOLEAN
    BY DEF Http!Init
<1> HIDE DEF absent
<1>4. Accepted = {} /\ Http!Live = {}
    BY <1>2, <1>3 DEF Accepted, Http!Live
<1>5. Cardinality(Accepted) = 0
    BY <1>4, FS_EmptySet
<1>6. Http!BoundaryTypeOK
    BY <1>1, <1>2, <1>3, PartsAssumption
    DEF Http!BoundaryTypeOK, Conns, JobRecords, Statuses, Http!BoundaryAssumption
<1> QED BY <1>1, <1>3, <1>4, <1>5, <1>6 DEF HttpInv

LEMMA DemoInit == Demo!Init => DemoInv
<1> SUFFICES ASSUME Demo!Init PROVE DemoInv
    OBVIOUS
<1> DEFINE free == Demo!Free(Demo!NoSession)
<1>1. Demo!NoSession \in Sessions
    BY PartsAssumption DEF Demo!LimitsAssumption, Demo!NoSession
<1>2. free \in Demo!Handler /\ free.pc = "idle"
    BY <1>1 DEF Demo!Free, Demo!Handler
<1> HIDE DEF free
<1>3. \A h \in Handlers : handler[h].pc = "idle"
    BY <1>2 DEF Demo!Init, free
<1>4. handler \in [Handlers -> Demo!Handler] /\ now \in Nat
    BY <1>2 DEF Demo!Init, free
<1>5. DOMAIN registry = {} /\ older = {}
    BY DEF Demo!Init
<1>6. RegistryOk
    BY <1>5, FS_EmptySet, PartsAssumption DEF RegistryOk, Demo!LimitsAssumption, Demo!Init
<1>7. TicketsOk
    BY <1>3 DEF TicketsOk, Holds, Demo!Active
<1>8. Demo!LastCommitWinsWhileKept /\ Demo!StaleIsJustified /\ Demo!NumbersAreOwn
    BY <1>3 DEF Demo!LastCommitWinsWhileKept, Demo!StaleIsJustified, Demo!NumbersAreOwn,
       Demo!Active, Demo!Shown
<1> QED BY <1>4, <1>6, <1>7, <1>8 DEF DemoInv

LEMMA QuotaInit == Quota!Init => QuotaInv
<1> SUFFICES ASSUME Quota!Init PROVE QuotaInv
    OBVIOUS
<1>1. Quota!NoBucket \in Bucket /\ Quota!NoBucket.expires_at = 0
    BY DEF Quota!NoBucket, Bucket
<1>2. /\ buckets = [op \in Quota!Ops |-> [c \in Clients |-> Quota!NoBucket]]
      /\ admitted = [op \in Quota!Ops |-> [c \in Clients |-> <<>>]]
      /\ day = 0 /\ solves = 0 /\ reserved = 0 /\ told = Quota!Nothing /\ now = 0
    BY DEF Quota!Init
<1>3. BucketsOk
  <2>1. buckets \in [Quota!Ops -> [Clients -> Bucket]]
      BY <1>1, <1>2
  <2>2. admitted \in [Quota!Ops -> [Clients -> Seq(Nat)]]
      BY <1>2
  <2>3. ASSUME NEW op \in Quota!Ops
        PROVE  /\ Quota!Known(buckets[op]) = {}
               /\ \A c \in Clients :
                    /\ BucketOk(op, buckets[op][c], now)
                    /\ RateOk(op, admitted[op][c], LevelOf(op, buckets[op][c], now), now)
    <3>1. Quota!Known(buckets[op]) = {}
        BY <1>1, <1>2 DEF Quota!Known
    <3>2. ASSUME NEW c \in Clients
          PROVE  /\ BucketOk(op, Quota!NoBucket, now)
                 /\ RateOk(op, <<>>, LevelOf(op, Quota!NoBucket, now), now)
        BY OpFacts DEF BucketOk, RateOk, Quota!NoBucket
    <3> QED BY <1>2, <3>1, <3>2
  <2>4. Cardinality({}) = 0 /\ IsFiniteSet({}) /\ MaxClientStates \in Nat
      BY FS_EmptySet, PartsAssumption DEF Quota!RatesAssumption
  <2>5. ASSUME NEW op \in Quota!Ops
        PROVE  /\ IsFiniteSet(Quota!Known(buckets[op]))
               /\ Cardinality(Quota!Known(buckets[op])) <= MaxClientStates
      BY <2>3, <2>4
  <2> QED BY <2>1, <2>2, <2>3, <2>5 DEF BucketsOk, Bucket
<1>4. BudgetOk
  <2> DEFINE all == admitted["solve"]
  <2>1. \A c \in Clients : DOMAIN all[c] = {}
      BY <1>2 DEF Quota!Ops
  <2>2. \A d : SolvesIn(all, d) = {}
      BY <2>1 DEF SolvesIn
  <2>3. Day \in Nat \ {0} /\ {SolvesPerDay, Reservation, GpuLimit} \subseteq Nat
      BY PartsAssumption DEF Quota!RatesAssumption, Quota!BudgetAssumption
  <2>4. now \div Day = 0
      BY <1>2, <2>3
  <2>5. 0 * Reservation = 0
      BY <2>3, Distributes
  <2> HIDE DEF all
  <2>6. Account(all, 0, 0, 0, 0)
    <3>1. \A d : IsFiniteSet(SolvesIn(all, d)) /\ Cardinality(SolvesIn(all, d)) = 0
        BY <2>2, FS_EmptySet
    <3>2. 0 <= SolvesPerDay /\ 0 * Reservation <= GpuLimit
        BY <2>3, <2>5
    <3> QED BY <2>1, <2>5, <3>1, <3>2 DEF Account
  <2> QED BY <1>2, <1>3, <2>4, <2>6, AccountIs DEF all
<1>5. ToldOk
    BY <1>2 DEF ToldOk
<1> QED BY <1>2, <1>3, <1>4, <1>5 DEF QuotaInv

LEMMA InitInv == Init => IInv
BY HttpInit, DemoInit, QuotaInit DEF Init, IInv, AskedOk

LEMMA NextInv == IInv /\ [Next]_vars => IInv'
<1> SUFFICES ASSUME IInv, [Next]_vars PROVE IInv'
    OBVIOUS
<1>1. HttpInv /\ DemoInv /\ QuotaInv /\ AskedOk /\ now \in Nat
    BY DEF IInv, QuotaInv
<1>2. UNCHANGED which
    BY DEF Next, vars
<1>3. CASE Quota!Next /\ UNCHANGED <<asked, demoVars, httpVars>>
  <2>1. QuotaInv' /\ now' \in Nat
      BY <1>1, <1>3, QuotaNextInv DEF QuotaInv
  <2> QED BY <1>1, <1>2, <1>3, <2>1, HttpRests, DemoRests DEF IInv, AskedOk
<1>4. CASE Demo!Next /\ UNCHANGED <<asked, quotaVars, httpVars>>
  <2>1. now' \in {now, now + 1}
      BY <1>4 DEF Demo!Next, Demo!Commit, Demo!Reserve, Demo!Wakes, Demo!CheckBefore,
         Demo!Predicts, Demo!CheckAfter, Demo!Check, Demo!Release, Demo!Tick
  <2> QED BY <1>1, <1>2, <1>4, <2>1, QuotaTickInv, DemoNextInv, HttpRests DEF IInv, AskedOk
<1>5. CASE Http!Next /\ UNCHANGED <<asked, quotaVars, demoVars, now>>
    BY <1>1, <1>2, <1>5, HttpNextInv, DemoRests, QuotaTickInv DEF IInv, AskedOk
<1>6. CASE UNCHANGED <<quotaVars, demoVars, httpVars, now>> /\ AskedOk'
    BY <1>1, <1>6, HttpRests, DemoRests, QuotaTickInv DEF IInv
<1>7. AskIdentity \/ AskReadiness \/ AskSettings
        => UNCHANGED <<quotaVars, demoVars, httpVars, now>> /\ AskedOk'
    BY <1>2 DEF AskIdentity, AskReadiness, AskSettings, Ask, AskedOk
<1>8. UNCHANGED vars => UNCHANGED <<quotaVars, demoVars, httpVars, now>> /\ AskedOk'
    BY <1>1 DEF vars, AskedOk
<1> QED BY <1>3, <1>4, <1>5, <1>6, <1>7, <1>8 DEF Next

LEMMA Invariance == Spec => []IInv
BY InitInv, NextInv, PTL DEF Spec

-----------------------------------------------------------------------------
(***************************************************************************)
(* Theorems.                                                               *)
(***************************************************************************)
\* The state of each of the three modules keeps its type at every size: no map of buckets and
\* no registry of sessions grows past its limit, no bucket holds more than its capacity, and
\* no connection buffers more than a body may have.
THEOREM BoundaryTypeCorrect == Spec => []TypesOK
<1>1. IInv => TypesOK
  <2> SUFFICES ASSUME IInv PROVE TypesOK
      OBVIOUS
  <2>1. Http!BoundaryTypeOK
      BY DEF IInv, HttpInv
  <2>2. Demo!TypeOK
      BY SameCardinality DEF IInv, DemoInv, RegistryOk, Demo!TypeOK
  <2>3. QuotaInv
      BY DEF IInv
  <2>4. day \in Nat /\ solves \in Nat /\ reserved \in Nat
    <3>1. day \in Nat /\ solves = Cardinality(Quota!SolvesOn(day)) /\ reserved = solves * Reservation
        BY <2>3 DEF QuotaInv, BudgetOk
    <3>2. solves \in Nat
        BY <2>3, <3>1, FS_CardinalityType DEF QuotaInv, BudgetOk
    <3> QED BY <3>1, <3>2, PartsAssumption DEF Quota!BudgetAssumption
  <2>5. \A op \in Quota!Ops :
          /\ Quota!Cardinality(Quota!Known(buckets[op])) <= MaxClientStates
          /\ \A c \in Clients :
                buckets[op][c].tokens <= Quota!CapacityOf(op) * Quota!WindowOf(op)
      BY <2>3, SameCardinality DEF QuotaInv, BucketsOk, BucketOk, Most
  <2>6. Quota!TypeOK
      BY <2>3, <2>4, <2>5 DEF QuotaInv, BucketsOk, ToldOk, Denials, Quota!TypeOK, Quota!Bucket
  <2> QED BY <2>1, <2>2, <2>6 DEF TypesOK
<1> QED BY <1>1, Invariance, PTL

\* For any sessions, handlers and limits, an outcome that the demo shows belongs to the last
\* commit of its session, unless the registry has forgotten the session since.
THEOREM LastCommitWinsKept == Spec => []LastCommitWinsWhileKept
<1>1. IInv => LastCommitWinsWhileKept
    BY DEF IInv, DemoInv, LastCommitWinsWhileKept
<1> QED BY <1>1, Invariance, PTL

\* A ticket is called stale only when it was superseded or its session forgotten, and no two
\* handlers of a session that is kept work under one number.
THEOREM StaleJustified == Spec => []StaleIsJustified
<1>1. IInv => StaleIsJustified
    BY DEF IInv, DemoInv, StaleIsJustified
<1> QED BY <1>1, Invariance, PTL

\* For any connections and keys, the admission charge of solves is the number of jobs that
\* were accepted, what a client was told of a job is true, and a key names one live job.
THEOREM SolvesCharged == Spec => []SolvesAreChargedOnce
<1>1. IInv => SolvesAreChargedOnce
  <2> SUFFICES ASSUME IInv PROVE SolvesAreChargedOnce
      OBVIOUS
  <2>1. HttpInv
      BY DEF IInv
  <2>2. None \notin Keys
      BY PartsAssumption DEF Http!BoundaryAssumption
  <2>3. ASSUME NEW key \in Keys
        PROVE  Http!Cardinality(Http!Bound(key)) <= 1
    <3>1. \A i, j \in Http!Bound(key) : i = j
        BY <2>1, <2>2 DEF HttpInv, Http!Bound
    <3>2. CASE Http!Bound(key) = {}
        BY <3>2, FS_EmptySet, SameCardinality
    <3>3. CASE Http!Bound(key) # {}
      <4>1. PICK j : Http!Bound(key) = {j}
          BY <3>1, <3>3
      <4> QED BY <4>1, FS_Singleton, SameCardinality
    <3> QED BY <3>2, <3>3
  <2>4. charged["solve"] = Http!Cardinality({j \in Http!JobIds : jobs[j].state # "absent"})
      BY <2>1, SameCardinality DEF HttpInv, Accepted
  <2> QED BY <2>1, <2>3, <2>4 DEF HttpInv, SolvesAreChargedOnce, Http!SolvesAreChargedOnce
<1> QED BY <1>1, Invariance, PTL

\* The greatest element of a set of indices.
LEMMA Greatest ==
    ASSUME NEW n \in Nat, NEW S \in SUBSET (1 .. n), S # {}
    PROVE  \E m \in S : /\ \A k \in S : k <= m
                        /\ Quota!Max(S) = m
<1> DEFINE T == {n - k : k \in S}
<1>1. T \in SUBSET Nat /\ T # {}
  <2>1. \A k \in S : n - k \in Nat
      OBVIOUS
  <2> QED BY <2>1
<1>2. PICK t \in T : \A u \in T : t <= u
    BY <1>1, Least
<1>3. PICK m \in S : t = n - m
    BY <1>2
<1>4. \A k \in S : k <= m /\ k \in Nat
  <2> TAKE k \in S
  <2>1. t <= n - k
      BY <1>2
  <2> QED BY <1>3, <2>1
<1>5. ASSUME NEW x \in S, \A k \in S : x >= k PROVE x = m
  <2>1. x >= m /\ x <= m /\ x \in Nat /\ m \in Nat
      BY <1>4, <1>5
  <2> QED BY <2>1
<1>6. Quota!Max(S) = m
    BY <1>4, <1>5 DEF Quota!Max
<1> QED BY <1>4, <1>6

LEMMA RateIsKept ==
    ASSUME QuotaInv, NEW op \in Quota!Ops, NEW c \in Clients,
           NEW i \in DOMAIN admitted[op][c], NEW j \in DOMAIN admitted[op][c],
           admitted[op][c][i] <= admitted[op][c][j]
    PROVE  Cardinality(Quota!Of(op, c, admitted[op][c][i], admitted[op][c][j]))
                * Quota!WindowOf(op)
             <= Quota!CapacityOf(op)
                  * (Quota!WindowOf(op) + (admitted[op][c][j] - admitted[op][c][i]))
<1> DEFINE times == admitted[op][c]
           from == times[i]
           to == times[j]
           S == Quota!Of(op, c, from, to)
           W == Quota!WindowOf(op)
           C == Quota!CapacityOf(op)
<1>1. times \in Seq(Nat)
    BY DEF QuotaInv, BucketsOk
<1>2. /\ W \in Nat \ {0} /\ C \in Nat /\ Most(op) = C * W /\ Most(op) \in Nat
    BY OpFacts DEF Most
<1>3. \A k \in DOMAIN times : \A m \in k .. Len(times) :
        /\ times[k] <= times[m]
        /\ (m - k + 1) * W <= Most(op) + (times[m] - times[k]) * C
    BY DEF QuotaInv, BucketsOk, RateOk
<1>4. S = {k \in DOMAIN times : times[k] \in from .. to}
    BY DEF Quota!Of
<1> HIDE DEF times, S, W, C
<1>5. from \in Nat /\ to \in Nat /\ from <= to /\ Len(times) \in Nat
      /\ DOMAIN times = 1 .. Len(times)
    BY <1>1 DEF times
<1>6. S \in SUBSET (1 .. Len(times)) /\ i \in S
    BY <1>4, <1>5 DEF times
<1>7. PICK last \in S : \A k \in S : k <= last
    BY <1>5, <1>6, Greatest
<1>8. PICK first \in S : \A k \in S : first <= k
  <2>1. S \in SUBSET Nat /\ S # {}
      BY <1>6
  <2> QED BY <2>1, Least
<1> DEFINE length == last - first + 1
           span == times[last] - times[first]
<1>9. /\ first \in Nat /\ last \in Nat /\ first <= last /\ S \subseteq first .. last
      /\ first \in DOMAIN times /\ last \in first .. Len(times)
      /\ times[first] \in Nat /\ times[last] \in Nat
      /\ from <= times[first] /\ times[last] <= to
    BY <1>1, <1>4, <1>5, <1>6, <1>7, <1>8
<1>10. Cardinality(S) \in Nat /\ Cardinality(S) <= length /\ length \in Nat
  <2>1. IsFiniteSet(first .. last) /\ Cardinality(first .. last) = length
      BY <1>9, FS_Interval
  <2>2. IsFiniteSet(S) /\ Cardinality(S) <= length
      BY <1>9, <2>1, FS_Subset
  <2> QED BY <1>9, <2>2, FS_CardinalityType
<1>11. length * W <= Most(op) + span * C
    BY <1>3, <1>9
<1>12. span \in Int /\ to - from \in Int /\ span <= to - from
    BY <1>5, <1>9
<1> DEFINE count == Cardinality(S)
           gap == to - from
<1> HIDE DEF length, span, count, from, to
<1>13. count * W <= length * W /\ span * C <= gap * C
    BY <1>2, <1>10, <1>12, Grows DEF count
<1>14. /\ count * W \in Int /\ length * W \in Int /\ span * C \in Int /\ gap * C \in Int
    BY <1>2, <1>10, <1>12, Distributes DEF count
<1>15. count * W <= Most(op) + gap * C
    BY <1>2, <1>11, <1>13, <1>14
<1>16. C * (W + gap) = Most(op) + gap * C
  <2> HIDE DEF gap
  <2>1. (W + gap) * C = W * C + gap * C
      BY <1>2, <1>12, Distributes DEF gap
  <2> QED BY <1>2, <1>12, <2>1 DEF gap
<1>17. count * W <= C * (W + gap)
    BY <1>15, <1>16
<1> QED BY <1>17 DEF count, S, W, C, from, to, times

\* A bucket that will hold a token at some time holds one ever after.
LEMMA WaitIsEnough ==
    ASSUME QuotaInv, told # Quota!Nothing, now >= told.until, told.why = "rate"
    PROVE  Quota!HasToken(told.op, told.client)
<1> DEFINE op == told.op
           c == told.client
           b == buckets[op][c]
           W == Quota!WindowOf(op)
           C == Quota!CapacityOf(op)
<1>1. /\ op \in Quota!Ops /\ c \in Clients /\ told.until \in Nat /\ now \in Nat
      /\ C > 0
      /\ b.expires_at # 0 =>
            /\ b.updated_at <= told.until
            /\ b.tokens + (told.until - b.updated_at) * C >= W
    BY DEF QuotaInv, ToldOk, Denials
<1>2. b \in Bucket
    BY <1>1 DEF QuotaInv, BucketsOk, Bucket
<1>3. C \in Nat \ {0} /\ W \in Nat \ {0} /\ Most(op) = C * W /\ Most(op) \in Nat
    BY <1>1, OpFacts DEF Most
<1>4. W <= Most(op)
  <2>1. 1 * W <= C * W /\ 1 * W = W
      BY <1>3, Grows
  <2> QED BY <1>3, <2>1
<1>5. W <= LevelOf(op, b, now)
  <2>1. CASE b.expires_at = 0
      BY <1>4, <2>1 DEF LevelOf
  <2>2. CASE b.expires_at # 0
    <3> DEFINE refill == (now - b.updated_at) * C
               then == (told.until - b.updated_at) * C
    <3>1. b.tokens \in Nat /\ b.updated_at \in Nat
        BY <1>2 DEF Bucket
    <3>2. /\ told.until - b.updated_at \in Int /\ now - b.updated_at \in Int
          /\ told.until - b.updated_at <= now - b.updated_at
        BY <1>1, <3>1
    <3>3. then <= refill /\ then \in Int /\ refill \in Int
        BY <1>3, <3>2, Grows
    <3>4. b.tokens + then >= W
        BY <1>1, <2>2
    <3>5. LevelOf(op, b, now) = IF b.tokens + refill > Most(op) THEN Most(op) ELSE b.tokens + refill
        BY <2>2 DEF LevelOf
    <3> HIDE DEF refill, then, W, C, b, op
    <3> QED BY <1>3, <1>4, <3>1, <3>3, <3>4, <3>5
  <2> QED BY <2>1, <2>2
<1> QED BY <1>1, <1>5, WritesAre DEF QuotaInv

LEMMA DayIsEnough ==
    ASSUME QuotaInv, told # Quota!Nothing, now >= told.until, told.why = "budget"
    PROVE  Quota!Today > told.at \div Day
<1> DEFINE t == now \div Day
           d == told.at \div Day
<1>1. Day \in Nat \ {0} /\ Day \in Nat
    BY PartsAssumption DEF Quota!RatesAssumption
<1>2. told.at \in Nat /\ told.until \in Nat /\ now \in Nat /\ (d + 1) * Day <= told.until
    BY DEF QuotaInv, ToldOk, Denials
<1>3. t \in Nat /\ d \in Nat /\ now < (t + 1) * Day
    BY <1>1, <1>2, Quotient
<1> HIDE DEF t, d
<1>4. ASSUME t <= d PROVE FALSE
  <2>1. (t + 1) * Day <= (d + 1) * Day
      BY <1>1, <1>3, <1>4, Grows
  <2>2. (t + 1) * Day \in Int /\ (d + 1) * Day \in Int
      BY <1>1, <1>3
  <2> DEFINE x == (t + 1) * Day
             y == (d + 1) * Day
  <2>3. x <= y /\ x \in Int /\ y \in Int /\ y <= told.until /\ now < x
      BY <1>2, <1>3, <2>1, <2>2
  <2> HIDE DEF x, y
  <2> QED BY <1>2, <2>3
<1>5. t > d
    BY <1>3, <1>4
<1> QED BY <1>5 DEF t, d, Quota!Today

\* A map that was full has room when its earliest entry has expired, unless one of its
\* entries is not what it was.
LEMMA WaitFindsRoom ==
    ASSUME QuotaInv, told # Quota!Nothing, now >= told.until, told.why = "full",
           Quota!Full(told.op, told.client)
    PROVE  \E c \in Quota!Known(Quota!Pruned(told.op)) :
              Quota!Pruned(told.op)[c] # told.entries[c]
<1> DEFINE map == Quota!Pruned(told.op)
           known == Quota!Known(map)
           then == Quota!Known(told.entries)
<1>1. /\ told.op \in Quota!Ops /\ told.until \in Nat /\ now \in Nat
      /\ told.entries \in [Clients -> Quota!Bucket] /\ FullUntil(told.entries, told.until)
    BY DEF QuotaInv, ToldOk, Denials
<1>2. SUFFICES ASSUME \A c \in known : map[c] = told.entries[c]
               PROVE  FALSE
    OBVIOUS
<1>3. PICK first \in then : told.entries[first].expires_at <= told.until
    BY <1>1 DEF FullUntil
<1>4. first \in Clients /\ told.entries[first].expires_at \in Nat
      /\ told.entries[first].expires_at <= now
    BY <1>1, <1>3 DEF Quota!Known, Quota!Bucket
<1>5. first \notin known
  <2>1. ASSUME first \in known PROVE FALSE
    <3>1. map[first].expires_at > 0 /\ map[first].expires_at <= now
        BY <1>2, <1>4, <2>1 DEF Quota!Known
    <3>2. map[first] = IF now >= buckets[told.op][first].expires_at THEN Quota!NoBucket
                       ELSE buckets[told.op][first]
        BY <1>4 DEF Quota!Pruned
    <3>3. buckets[told.op][first].expires_at \in Nat
        BY <1>1, <1>4 DEF QuotaInv, BucketsOk
    <3> HIDE DEF map
    <3> QED BY <1>1, <3>1, <3>2, <3>3 DEF Quota!NoBucket
  <2> QED BY <2>1
<1>6. known \subseteq then \ {first}
    BY <1>2, <1>5 DEF Quota!Known
<1>7. IsFiniteSet(then) /\ Cardinality(then) <= MaxClientStates /\ MaxClientStates \in Nat
    BY <1>1, PartsAssumption DEF FullUntil, Quota!RatesAssumption
<1>8. Cardinality(known) >= MaxClientStates
    BY SameCardinality DEF Quota!Full
<1> HIDE DEF map, known, then
<1>9. IsFiniteSet(then \ {first}) /\ Cardinality(then \ {first}) = Cardinality(then) - 1
    BY <1>3, <1>7, FS_RemoveElement
<1>10. IsFiniteSet(known) /\ Cardinality(known) <= Cardinality(then \ {first})
    BY <1>6, <1>9, FS_Subset
<1>11. /\ Cardinality(known) \in Nat /\ Cardinality(then) \in Nat
    BY <1>7, <1>10, FS_CardinalityType
<1> QED BY <1>7, <1>8, <1>9, <1>10, <1>11

LEMMA QuotaCounts ==
    ASSUME QuotaInv
    PROVE  Quota!RateHolds /\ Quota!BudgetHolds /\ Quota!BudgetIsExact /\ Quota!RetryAfterIsEnough
<1>1. Quota!RateHolds
    BY RateIsKept, SameCardinality DEF Quota!RateHolds
<1>2. Quota!Today \in Nat
    BY Quotient, PartsAssumption DEF QuotaInv, Quota!Today, Quota!RatesAssumption
<1>3. Quota!BudgetHolds
    BY <1>2, SameCardinality DEF QuotaInv, BudgetOk, Quota!BudgetHolds
<1>4. Quota!BudgetIsExact
    BY SameCardinality DEF QuotaInv, BudgetOk, Quota!BudgetIsExact
<1>5. Quota!RetryAfterIsEnough
  <2>1. told # Quota!Nothing =>
            /\ told.why \in {"rate", "full", "disabled", "budget"}
            /\ told.until > told.at
            /\ told.why # "budget" =>
                  told.until <= told.at + Quota!InSeconds(Quota!WindowOf(told.op)) * Second
            /\ told.why = "disabled" => Quota!CapacityOf(told.op) = 0
      BY DEF QuotaInv, ToldOk, Denials
  <2>2. told # Quota!Nothing /\ told.why = "full" /\ now >= told.until
            /\ Quota!Full(told.op, told.client) =>
            \E c \in Quota!Known(Quota!Pruned(told.op)) :
                Quota!Pruned(told.op)[c] # told.entries[c]
      BY WaitFindsRoom
  <2> QED BY <2>1, <2>2, WaitIsEnough, DayIsEnough DEF Quota!RetryAfterIsEnough
<1> QED BY <1>1, <1>3, <1>4, <1>5

\* The addresses of a header that are no proxy's.
Outside(list) == {i \in DOMAIN list : Quota!Normalized(list[i]) \notin Proxies}

\* A well-formed header names its last address that is no proxy's, or its first address.
LEMMA EffectiveIs ==
    ASSUME NEW Spelled, NEW peer, NEW headers, Quota!Normalized(peer) \in Proxies,
           Len(headers) = 1, headers[1] \in Seq(Spelled), Quota!WellFormed(headers[1])
    PROVE  \E i \in DOMAIN headers[1] :
             /\ Quota!EffectiveAddress(peer, headers) = Quota!Normalized(headers[1][i])
             /\ \A k \in i + 1 .. Len(headers[1]) : Quota!Normalized(headers[1][k]) \in Proxies
             /\ Outside(headers[1]) # {} => i \in Outside(headers[1])
<1> DEFINE list == headers[1]
           chain == [i \in DOMAIN list |-> Quota!Normalized(list[i])]
           out == {i \in DOMAIN chain : chain[i] \notin Proxies}
           at == IF out = {} THEN 1 ELSE Quota!Max(out)
<1>1. Quota!EffectiveAddress(peer, headers) = chain[at]
    BY DEF Quota!EffectiveAddress
<1>2. /\ Len(list) \in Nat /\ DOMAIN list = 1 .. Len(list) /\ 1 \in DOMAIN list
      /\ Len(headers[1]) = Len(list)
    BY DEF Quota!WellFormed
<1>3. DOMAIN chain = DOMAIN list /\ \A i \in DOMAIN list : chain[i] = Quota!Normalized(list[i])
    OBVIOUS
<1>4. out = Outside(list)
    BY <1>3 DEF Outside
<1> HIDE DEF chain, out
<1>5. CASE out = {}
  <2>1. at = 1 /\ \A i \in DOMAIN list : Quota!Normalized(list[i]) \in Proxies
      BY <1>4, <1>5 DEF Outside
  <2>2. \A k \in 2 .. Len(list) : k \in DOMAIN list
      BY <1>2
  <2> QED BY <1>1, <1>2, <1>3, <1>4, <1>5, <2>1, <2>2
<1>6. CASE out # {}
  <2>1. out \in SUBSET (1 .. Len(list))
      BY <1>2, <1>4 DEF Outside
  <2>2. PICK m \in out : (\A k \in out : k <= m) /\ Quota!Max(out) = m
      BY <1>2, <1>6, <2>1, Greatest
  <2>3. at = m /\ m \in 1 .. Len(list)
      BY <1>6, <2>1, <2>2
  <2>4. ASSUME NEW k \in m + 1 .. Len(list)
        PROVE  Quota!Normalized(list[k]) \in Proxies
    <3>1. k \in DOMAIN list /\ ~(k <= m)
        BY <1>2, <2>3
    <3>2. k \notin out
        BY <2>2, <3>1
    <3> QED BY <1>4, <3>1, <3>2 DEF Outside
  <2> QED BY <1>1, <1>2, <1>3, <1>4, <2>2, <2>3, <2>4
<1> QED BY <1>5, <1>6

\* Writing addresses before the ones that a proxy has added changes the client of a request
\* at most into its proxy.
LEMMA PrefixChangesNothing ==
    ASSUME NEW Spelled, NEW peer, NEW list \in Seq(Spelled), NEW prefix \in Seq(Spelled),
           Quota!EffectiveAddress(peer, <<list>>) \notin Proxies
    PROVE  Quota!EffectiveAddress(peer, <<prefix \o list>>)
             \in {Quota!EffectiveAddress(peer, <<list>>), Quota!Normalized(peer)}
<1> DEFINE direct == Quota!Normalized(peer)
           long == prefix \o list
           client == Quota!EffectiveAddress(peer, <<list>>)
           p == Len(prefix)
<1>1. /\ <<long>>[1] = long /\ Len(<<long>>) = 1 /\ <<list>>[1] = list /\ Len(<<list>>) = 1
    OBVIOUS
<1>2. CASE direct \notin Proxies \/ ~Quota!WellFormed(long)
    BY <1>1, <1>2 DEF Quota!EffectiveAddress
<1>3. CASE direct \in Proxies /\ Quota!WellFormed(long)
  <2>1. /\ long \in Seq(Spelled) /\ p \in Nat /\ Len(list) \in Nat /\ Len(long) = p + Len(list)
        /\ DOMAIN list = 1 .. Len(list) /\ DOMAIN long = 1 .. p + Len(list)
        /\ \A i \in DOMAIN list : p + i \in DOMAIN long /\ long[p + i] = list[i]
      OBVIOUS
  <2> HIDE DEF long, p
  <2>2. Quota!WellFormed(list)
    <3>1. \A i \in DOMAIN list : list[i].form # "malformed"
        BY <1>3, <2>1 DEF Quota!WellFormed
    <3>2. Len(list) <= MaxForwarded
        BY <1>3, <2>1, PartsAssumption DEF Quota!WellFormed, Quota!ProxiesAssumption
    <3>3. Len(list) = 0 => client = direct
        BY <1>1 DEF Quota!EffectiveAddress, Quota!WellFormed
    <3>4. Len(list) # 0
        BY <1>3, <3>3
    <3> QED BY <2>1, <3>1, <3>2, <3>4, PartsAssumption
        DEF Quota!WellFormed, Quota!ProxiesAssumption
  <2>3. PICK i \in DOMAIN list :
            /\ client = Quota!Normalized(list[i])
            /\ \A k \in i + 1 .. Len(list) : Quota!Normalized(list[k]) \in Proxies
      BY <1>1, <1>3, <2>2, EffectiveIs
  <2>4. p + i \in Outside(long)
      BY <2>1, <2>3 DEF Outside
  <2>5. PICK m \in DOMAIN long :
            /\ Quota!EffectiveAddress(peer, <<long>>) = Quota!Normalized(long[m])
            /\ \A k \in m + 1 .. Len(long) : Quota!Normalized(long[k]) \in Proxies
            /\ m \in Outside(long)
    <3> DEFINE headers == <<long>>
    <3>1. headers[1] = long /\ Len(headers) = 1 /\ headers[1] \in Seq(Spelled)
        BY <2>1
    <3> HIDE DEF headers
    <3>2. \E m \in DOMAIN headers[1] :
            /\ Quota!EffectiveAddress(peer, headers) = Quota!Normalized(headers[1][m])
            /\ \A k \in m + 1 .. Len(headers[1]) : Quota!Normalized(headers[1][k]) \in Proxies
            /\ Outside(headers[1]) # {} => m \in Outside(headers[1])
        BY <1>3, <3>1, EffectiveIs
    <3> QED BY <2>4, <3>1, <3>2 DEF headers
  <2>6. m = p + i
    <3>1. m \in 1 .. p + Len(list) /\ i \in 1 .. Len(list)
        BY <2>1
    <3>2. ASSUME m < p + i PROVE FALSE
      <4>1. p + i \in m + 1 .. Len(long)
          BY <2>1, <3>1, <3>2
      <4> QED BY <2>4, <2>5, <4>1 DEF Outside
    <3>3. ASSUME p + i < m PROVE FALSE
      <4>1. m - p \in i + 1 .. Len(list) /\ m - p \in DOMAIN list /\ p + (m - p) = m
          BY <2>1, <3>1, <3>3
      <4>2. long[m] = list[m - p]
          BY <2>1, <4>1
      <4> QED BY <2>3, <2>5, <4>1, <4>2 DEF Outside
    <3> QED BY <2>1, <3>1, <3>2, <3>3
  <2> QED BY <2>1, <2>3, <2>5, <2>6 DEF long
<1> QED BY <1>2, <1>3

\* Whatever addresses a request carries, and however they are spelled, its client is its peer
\* or the nearest address that only trusted proxies came after; what is written before them
\* changes nothing.
THEOREM ClientIsVouchedFor ==
    ASSUME NEW Spelled, NEW peer, NEW headers \in Seq(Seq(Spelled)),
           NEW prefixes \in SUBSET Seq(Spelled)
    PROVE  Quota!AddressIsOwn(peer, headers, prefixes)
<1> DEFINE client == Quota!EffectiveAddress(peer, headers)
           direct == Quota!Normalized(peer)
<1>1. direct \notin Proxies => client = direct
    BY DEF Quota!EffectiveAddress
<1>2. Len(headers) = 1 => headers[1] \in Seq(Spelled) /\ headers = <<headers[1]>>
    OBVIOUS
<1>3. \/ client = direct
      \/ \E i \in DOMAIN headers[1] :
            /\ Quota!Normalized(headers[1][i]) = client
            /\ \A k \in i + 1 .. Len(headers[1]) : Quota!Normalized(headers[1][k]) \in Proxies
  <2>1. CASE direct \notin Proxies \/ Len(headers) # 1 \/ ~Quota!WellFormed(headers[1])
      BY <2>1 DEF Quota!EffectiveAddress
  <2>2. CASE ~(direct \notin Proxies \/ Len(headers) # 1 \/ ~Quota!WellFormed(headers[1]))
      BY <1>2, <2>2, EffectiveIs
  <2> QED BY <2>1, <2>2
<1>4. Len(headers) = 1 /\ client \notin Proxies =>
        \A prefix \in prefixes :
            Quota!EffectiveAddress(peer, <<prefix \o headers[1]>>) \in {client, direct}
    BY <1>2, PrefixChangesNothing
<1> QED BY <1>1, <1>3, <1>4 DEF Quota!AddressIsOwn

\* The answer of readiness is owed to its probes.
LEMMA ReadinessIsTheirs ==
    ASSUME NEW probe \in Probes, NEW open \in BOOLEAN, NEW budget \in BOOLEAN
    PROVE  Quota!ReadinessIsOwed(probe, open, budget)
<1> DEFINE green == [probe EXCEPT !.red = FALSE]
<1>1. /\ green.identities = probe.identities /\ green.integrity = probe.integrity
      /\ green.device = probe.device /\ green.warm = probe.warm /\ green.red = FALSE
    BY DEF Probes
<1> HIDE DEF green
<1>2. Quota!ReadinessOf(probe, open, budget)[1] = Quota!ReadinessOf(green, open, budget)[1]
      /\ Quota!ReadinessOf(probe, open, budget)[2] = Quota!ReadinessOf(green, open, budget)[2]
    BY <1>1 DEF Quota!ReadinessOf
<1>3. LET answer == Quota!ReadinessOf(probe, open, budget) IN
      /\ answer[2] => answer[1] /\ open /\ budget
      /\ answer[1] => probe.identities /\ probe.integrity /\ probe.device /\ probe.warm
    BY DEF Quota!ReadinessOf
<1> QED BY <1>2, <1>3 DEF Quota!ReadinessIsOwed, green

LEMMA OverridesAreTheirs ==
    ASSUME NEW configured \in BOOLEAN, NEW limit \in Nat, NEW switch, NEW override
    PROVE  Quota!OverridesOnlyRestrict(configured, limit, switch, override)
<1>1. ASSUME NEW effective \in Quota!LimitOf(limit, override)
      PROVE  effective <= limit
  <2>1. effective = limit \/ effective \in 0 .. limit
      BY DEF Quota!LimitOf
  <2> QED BY <2>1
<1>2. Quota!SolveEnabled(configured, switch) => configured /\ FALSE \notin switch
    BY DEF Quota!SolveEnabled
<1> QED BY <1>1, <1>2 DEF Quota!OverridesOnlyRestrict

\* At any limits and however its requests fall, no client passes its rate in any interval, no
\* day its solves and its GPU seconds; a denial costs nothing, and a client that waits for its
\* Retry-After finds its token, the new day, or room in the map that was full unless a bucket
\* of it has been used since. The client of a request is the one that its
\* trusted proxies vouch for, and readiness and overrides grant nothing beyond this.
THEOREM QuotasKept == Spec => []QuotasHold
<1>1. IInv => QuotasHold
  <2> SUFFICES ASSUME IInv PROVE QuotasHold
      OBVIOUS
  <2>1. QuotaInv /\ AskedOk
      BY DEF IInv
  <2>2. ASSUME Asked("identity")
        PROVE  Quota!AddressIsOwn(asked[1], asked[2], Lists(2))
    <3>1. asked \in Items \X ({<<list>> : list \in Lists(3)} \cup Lists(1) \X Lists(1))
        BY <2>1, <2>2 DEF AskedOk, Asked
    <3>2. asked[2] \in Seq(Seq(Items)) /\ Lists(2) \subseteq Seq(Items)
      <4>1. \A n \in Nat : Lists(n) \subseteq Seq(Items)
          BY DEF Lists
      <4>2. asked[2] \in {<<list>> : list \in Lists(3)} \cup Lists(1) \X Lists(1)
          BY <3>1
      <4>3. asked[2] \in {<<list>> : list \in Lists(3)} => asked[2] \in Seq(Seq(Items))
        <5>1. \A list \in Seq(Items) : <<list>> \in Seq(Seq(Items))
            OBVIOUS
        <5> QED BY <4>1, <5>1
      <4>4. asked[2] \in Lists(1) \X Lists(1) => asked[2] \in Seq(Seq(Items))
        <5>1. \A one, two \in Seq(Items) : <<one, two>> \in Seq(Seq(Items))
            OBVIOUS
        <5>2. \A pair \in Lists(1) \X Lists(1) :
                pair = <<pair[1], pair[2]>> /\ pair[1] \in Lists(1) /\ pair[2] \in Lists(1)
            OBVIOUS
        <5>3. \A pair \in Lists(1) \X Lists(1) : pair[1] \in Seq(Items) /\ pair[2] \in Seq(Items)
            BY <4>1, <5>2
        <5>4. \A pair \in Lists(1) \X Lists(1) : <<pair[1], pair[2]>> \in Seq(Seq(Items))
            BY <5>1, <5>3
        <5> QED BY <5>2, <5>4
      <4> QED BY <4>1, <4>2, <4>3, <4>4
    <3> QED BY <3>2, ClientIsVouchedFor
  <2>3. ASSUME Asked("readiness")
        PROVE  Quota!ReadinessIsOwed(asked[1], asked[2], asked[3])
    <3>1. asked \in Probes \X BOOLEAN \X BOOLEAN
        BY <2>1, <2>3 DEF AskedOk, Asked
    <3> QED BY <3>1, ReadinessIsTheirs
  <2>4. ASSUME Asked("settings")
        PROVE  Quota!OverridesOnlyRestrict(asked[1], asked[2], asked[3], asked[4])
    <3>1. asked \in BOOLEAN \X Limits \X AtMostOne(BOOLEAN) \X AtMostOne(Limits)
        BY <2>1, <2>4 DEF AskedOk, Asked
    <3> QED BY <3>1, OverridesAreTheirs DEF Limits
  <2> QED BY <2>1, <2>2, <2>3, <2>4, QuotaCounts DEF QuotasHold
<1> QED BY <1>1, Invariance, PTL
=============================================================================
