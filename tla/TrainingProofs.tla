--------------------------- MODULE TrainingProofs ----------------------------
(***************************************************************************)
(* Proofs about Training for every finite set of seeds, every number of    *)
(* epochs and all scores, with or without early durability.  The inductive *)
(* invariant says that a seed's files, on the volume and on the mount, are *)
(* those of one history: settled, one epoch ahead in the log, or one epoch *)
(* ahead in the log and in the pointers.                                   *)
(***************************************************************************)
EXTENDS Training, FiniteSetTheorems, WellFoundedInduction, TLAPS

\* The metrics of a history: its checkpoints, in order.
Metrics(h) == [n \in 1..Len(h) |-> SubSeq(h, 1, n)]

\* b is the checkpoint of least score in h, the earlier one among equals.
BestAmong(b, h) ==
    IF h = <<>> THEN b = <<>>
    ELSE \E i \in 1..Len(h) :
            /\ b = SubSeq(h, 1, i)
            /\ \A k \in (1..Len(h)) \ {i} : h[i] < h[k] \/ (h[i] = h[k] /\ i < k)

\* Files whose metrics are those of h, and whose pointers name checkpoints.
Recorded(f, h) ==
    /\ h \in Histories /\ f.metrics = Metrics(h)
    /\ {f.latest, f.best} \subseteq f.checkpoints \cup {<<>>}

Settled(f, h) ==
    /\ Recorded(f, h) /\ f.log = h /\ f.latest = h /\ BestAmong(f.best, h)
    /\ f.completion # <<>> => f.completion = Metrics(h) /\ Len(h) = Epochs

\* The log is one epoch ahead of the metrics.
OneMore(f, h, g) ==
    /\ Recorded(f, h) /\ f.log = g /\ g \in Histories /\ g # <<>> /\ Front(g) = h
    /\ f.completion = <<>>

Logged(f, h, g) == OneMore(f, h, g) /\ f.latest = h /\ BestAmong(f.best, h)

Pointed(f, h, g) ==
    OneMore(f, h, g) /\ f.latest = g /\ (BestAmong(f.best, h) \/ BestAmong(f.best, g))

FilesOk(f) ==
    \E h \in Histories :
        Settled(f, h) \/ \E g \in Histories : Logged(f, h, g) \/ Pointed(f, h, g)

Selecting == {"export", "deliver", "receipt", "finish"}
Completed == {"settle", "await", "select"} \cup Selecting
Places ==
    {"start", "preserve", "rollback", "recommit", "train", "publish", "latest", "best",
     "prune", "metrics", "commit"} \cup Completed \cup Resting

\* The records of a log are in f's log, or among those f recovered.
RecordsIn(log, f) ==
    \A n \in DOMAIN log :
        \/ n \in DOMAIN f.log /\ f.log[n] = log[n]
        \/ [epoch |-> n, score |-> log[n]] \in f.recovered

\* What a worker at p has in its mount m and in its memory h, over the volume's d.
WorkerOk(p, d, m, h) ==
    /\ p \in {"start"} \cup Resting => m = NoFiles /\ h = <<>>
    /\ p \in {"preserve", "rollback"} => Logged(m, h, m.log)
    /\ p = "rollback" => Orphan(m.log) \in m.recovered
    /\ p \in {"recommit", "train", "commit"} \cup Completed => Settled(m, h)
    /\ p \in {"publish", "latest"} => Logged(m, Front(h), h)
    /\ p = "latest" => h \in m.checkpoints
    /\ p \in {"best", "prune", "metrics"} => Pointed(m, Front(h), h)
    /\ p = "best" => BestAmong(m.best, Front(h))
    /\ p \in {"prune", "metrics"} => BestAmong(m.best, h)
    /\ p = "commit" => h # <<>>
    /\ p \in Completed => m.completion = Metrics(h) /\ Len(h) = Epochs
    /\ p \notin {"start"} \cup Resting =>
        /\ RecordsIn(d.log, m)
        /\ d.completion # <<>> => m.completion = d.completion

WorkersOk ==
    \A s \in Seeds :
        /\ FilesOk(durable[s])
        /\ WorkerOk(pc[s], durable[s], mount[s], session[s])

\* A decision is the one that the completions of all seeds determine.
Decided(decisions) == decisions # {} => AllComplete /\ decisions = {Frozen}

Selections(f) == {r.selection : r \in f.receipt}

DecisionsOk ==
    /\ Decided(selection)
    /\ \A s \in Seeds :
        /\ Decided(seen[s])
        /\ pc[s] \in {"select"} \cup Selecting => AllComplete
        /\ pc[s] \in Selecting => seen[s] # {}
        /\ seen[s] # {} => pc[s] \in {"select"} \cup Selecting
        /\ Selections(durable[s]) \subseteq selection
        /\ Selections(mount[s]) \subseteq seen[s]
    /\ index \subseteq selection

Receipts ==
    SUBSET [checkpoint: Histories, at: 0..MaxFaults,
            selection: [selected: [Seeds -> Histories], deployable: Seeds]]
MetricLists == UNION {[1..n -> Histories] : n \in 0..Epochs}
Completions == UNION {[1..n -> Histories] : n \in {0, Epochs}}
Recoveries == SUBSET [epoch: 1..Epochs, score: Scores]

FilesType == [
    log: Histories, checkpoints: SUBSET Histories, latest: Histories,
    best: Histories, metrics: MetricLists, recovered: Recoveries,
    completion: Completions, model: Histories, receipt: Receipts]

AtMostOne(S) == \A x, y \in S : x = y

TrainingType ==
    /\ durable \in [Seeds -> FilesType] /\ mount \in [Seeds -> FilesType]
    /\ \A s \in Seeds : AtMostOne(durable[s].receipt) /\ AtMostOne(mount[s].receipt)
    /\ pc \in [Seeds -> Places] /\ session \in [Seeds -> Histories]
    /\ seen = [s \in Seeds |-> seen[s]]
    /\ faults \in 0..MaxFaults

IInv == TrainingType /\ WorkersOk /\ DecisionsOk

-----------------------------------------------------------------------------
(* Histories and their checkpoints.                                        *)

Less == {p \in Nat \X Nat : p[1] < p[2]}

LEMMA Least ==
    ASSUME NEW S \in SUBSET Nat, S # {}
    PROVE  \E m \in S : \A n \in S : m <= n
<1>1. IsWellFoundedOn(Less, Nat)
  BY NatLessThanWellFounded DEF OpToRel, Less
<1>2. PICK m \in S : \A n \in S : <<n, m>> \notin Less
  BY <1>1, WFMin
<1>3. ASSUME NEW n \in S PROVE m <= n
  <2>1. <<n, m>> \in Nat \X Nat /\ <<n, m>>[1] = n /\ <<n, m>>[2] = m
    OBVIOUS
  <2> QED
    BY <1>2, <2>1 DEF Less
<1> QED
  BY <1>3

LEMMA HistoriesAreSequences ==
    \A h : h \in Histories <=> h \in Seq(Scores) /\ Len(h) <= Epochs
<1>1. ASSUME NEW h \in Histories PROVE h \in Seq(Scores) /\ Len(h) <= Epochs
  <2>1. PICK n \in 0..Epochs : h \in [1..n -> Scores]
    BY DEF Histories
  <2>2. n \in Nat /\ n <= Epochs
    BY TrainingAssumption
  <2> QED
    BY <2>1, <2>2
<1>2. ASSUME NEW h \in Seq(Scores), Len(h) <= Epochs PROVE h \in Histories
  <2>1. Len(h) \in 0..Epochs /\ h \in [1..Len(h) -> Scores]
    BY <1>2, TrainingAssumption
  <2> QED
    BY <2>1 DEF Histories
<1> QED
  BY <1>1, <1>2

LEMMA Prefix ==
    ASSUME NEW h \in Histories, NEW i \in 1..Len(h)
    PROVE  /\ SubSeq(h, 1, i) \in Histories
           /\ Len(SubSeq(h, 1, i)) = i
           /\ \A k \in 1..i : SubSeq(h, 1, i)[k] = h[k]
           /\ ScoreOf(SubSeq(h, 1, i)) = h[i]
<1>1. h \in Seq(Scores) /\ Len(h) <= Epochs /\ i \in Nat /\ i <= Len(h) /\ 1 <= i
  BY HistoriesAreSequences
<1>2. /\ SubSeq(h, 1, i) \in Seq(Scores) /\ Len(SubSeq(h, 1, i)) = i
      /\ \A k \in 1..i : SubSeq(h, 1, i)[k] = h[k]
  BY <1>1
<1>3. SubSeq(h, 1, i) \in Histories
  <2>1. Len(SubSeq(h, 1, i)) <= Epochs
    BY <1>1, <1>2, TrainingAssumption
  <2> QED
    BY <1>2, <2>1, HistoriesAreSequences
<1>4. SubSeq(h, 1, i)[i] = h[i]
  BY <1>1, <1>2
<1> QED
  BY <1>2, <1>3, <1>4 DEF ScoreOf, Last

LEMMA Extended ==
    ASSUME NEW h \in Histories, NEW x \in Scores, Len(h) < Epochs
    PROVE  /\ Append(h, x) \in Histories /\ Append(h, x) # <<>>
           /\ Len(Append(h, x)) = Len(h) + 1
           /\ \A k \in 1..Len(h) : Append(h, x)[k] = h[k]
           /\ Append(h, x)[Len(h) + 1] = x
           /\ Front(Append(h, x)) = h
<1>1. h \in Seq(Scores) /\ Len(h) \in Nat
  BY HistoriesAreSequences
<1>2. /\ Append(h, x) \in Seq(Scores) /\ Len(Append(h, x)) = Len(h) + 1
      /\ \A k \in 1..Len(h) : Append(h, x)[k] = h[k]
      /\ Append(h, x)[Len(h) + 1] = x
  BY <1>1
<1>3. Front(Append(h, x)) = h
  BY <1>1, <1>2 DEF Front
<1>4. Append(h, x) \in Histories
  <2>1. Len(Append(h, x)) <= Epochs
    BY <1>1, <1>2, TrainingAssumption
  <2> QED
    BY <1>2, <2>1, HistoriesAreSequences
<1>5. Append(h, x) # <<>>
  BY <1>1, <1>2
<1> QED
  BY <1>2, <1>3, <1>4, <1>5

\* A history that is not empty is its front and one more score.
LEMMA Shortened ==
    ASSUME NEW g \in Histories, g # <<>>
    PROVE  /\ Front(g) \in Histories
           /\ Len(g) \in Nat /\ Len(Front(g)) = Len(g) - 1 /\ Len(g) >= 1
           /\ DOMAIN g = 1..Len(g) /\ DOMAIN Front(g) = 1..(Len(g) - 1)
           /\ \A k \in 1..(Len(g) - 1) : Front(g)[k] = g[k]
           /\ g[Len(g)] \in Scores
<1>1. g \in Seq(Scores) /\ Len(g) \in Nat /\ Len(g) <= Epochs /\ Len(g) # 0
  BY HistoriesAreSequences
<1>2. /\ Front(g) \in Seq(Scores) /\ Len(Front(g)) = Len(g) - 1
      /\ DOMAIN Front(g) = 1..(Len(g) - 1)
      /\ \A k \in 1..(Len(g) - 1) : Front(g)[k] = g[k]
  <2>1. /\ Len(g) - 1 \in 0..Len(g) /\ Len(g) >= 1
        /\ \A k \in 1..(Len(g) - 1) : k \in 1..Len(g)
    BY <1>1
  <2>2. SubSeq(g, 1, Len(g) - 1) = [k \in 1..(Len(g) - 1) |-> g[k]]
    BY <1>1, <2>1
  <2>3. \A k \in 1..(Len(g) - 1) : g[k] \in Scores
    BY <1>1, <2>1
  <2>4. Front(g) = [k \in 1..(Len(g) - 1) |-> g[k]] /\ Len(g) - 1 \in Nat
    BY <1>1, <2>1, <2>2 DEF Front
  <2>5. Front(g) \in Seq(Scores)
    BY <2>3, <2>4
  <2> QED
    BY <2>4, <2>5
<1> QED
  BY <1>1, <1>2, HistoriesAreSequences, TrainingAssumption

LEMMA MetricsOf ==
    ASSUME NEW h \in Histories
    PROVE  /\ Metrics(h) \in Seq(Histories) /\ Len(Metrics(h)) = Len(h)
           /\ DOMAIN Metrics(h) = 1..Len(h)
           /\ \A i \in 1..Len(h) : Metrics(h)[i] = SubSeq(h, 1, i)
           /\ Metrics(h) = <<>> <=> h = <<>>
           /\ Metrics(h) \in MetricLists
           /\ Len(h) = Epochs => Metrics(h) \in Completions
<1>1. h \in Seq(Scores) /\ Len(h) \in 0..Epochs /\ Len(h) \in Nat
  BY HistoriesAreSequences, TrainingAssumption
<1>2. Metrics(h) \in [1..Len(h) -> Histories]
  BY Prefix DEF Metrics
<1>3. /\ Metrics(h) \in Seq(Histories) /\ Len(Metrics(h)) = Len(h)
      /\ DOMAIN Metrics(h) = 1..Len(h)
  BY <1>1, <1>2
<1>4. \A i \in 1..Len(h) : Metrics(h)[i] = SubSeq(h, 1, i)
  BY DEF Metrics
<1>5. Metrics(h) = <<>> <=> h = <<>>
  BY <1>1, <1>3
<1> QED
  BY <1>1, <1>2, <1>3, <1>4, <1>5 DEF MetricLists, Completions

\* The metrics of one more epoch.
LEMMA MetricsGrow ==
    ASSUME NEW g \in Histories, g # <<>>
    PROVE  Append(Metrics(Front(g)), g) = Metrics(g)
<1> DEFINE h == Front(g)
<1>1. /\ h \in Histories /\ Len(g) \in Nat /\ Len(h) = Len(g) - 1 /\ Len(g) >= 1
      /\ \A k \in 1..Len(h) : h[k] = g[k]
      /\ g \in Seq(Scores) /\ h \in Seq(Scores)
  BY Shortened, HistoriesAreSequences
<1> HIDE DEF h
<1>2. /\ Metrics(h) \in Seq(Histories) /\ Len(Metrics(h)) = Len(h)
      /\ Metrics(g) \in Seq(Histories) /\ Len(Metrics(g)) = Len(g)
      /\ \A i \in 1..Len(h) : Metrics(h)[i] = SubSeq(h, 1, i)
      /\ \A i \in 1..Len(g) : Metrics(g)[i] = SubSeq(g, 1, i)
  BY <1>1, MetricsOf
<1>3. ASSUME NEW i \in 1..Len(h) PROVE SubSeq(h, 1, i) = SubSeq(g, 1, i)
  BY <1>1
<1>4. SubSeq(g, 1, Len(g)) = g
  BY <1>1
<1>5. /\ Append(Metrics(h), g) \in Seq(Histories)
      /\ Len(Append(Metrics(h), g)) = Len(g)
      /\ \A i \in 1..Len(h) : Append(Metrics(h), g)[i] = Metrics(h)[i]
      /\ Append(Metrics(h), g)[Len(g)] = g
  BY <1>1, <1>2
<1>6. \A i \in 1..Len(g) : Append(Metrics(h), g)[i] = Metrics(g)[i]
  <2> SUFFICES ASSUME NEW i \in 1..Len(g)
               PROVE  Append(Metrics(h), g)[i] = Metrics(g)[i]
    OBVIOUS
  <2>1. Metrics(g)[i] = SubSeq(g, 1, i)
    BY <1>2
  <2>2. CASE i = Len(g)
    BY <1>4, <1>5, <2>1, <2>2
  <2>3. CASE i # Len(g)
    <3>1. i \in 1..Len(h)
      BY <1>1, <2>3
    <3> QED
      BY <1>2, <1>3, <1>5, <2>1, <3>1
  <2> QED
    BY <2>2, <2>3
<1>7. Append(Metrics(h), g) = Metrics(g)
  BY <1>1, <1>2, <1>5, <1>6
<1> QED
  BY <1>7 DEF h

-----------------------------------------------------------------------------
(* The choice among checkpoints.                                           *)

LEMMA ScoresOf ==
    ASSUME NEW h \in Histories
    PROVE  \A i \in 1..Len(h) : h[i] \in Nat
<1>1. h \in Seq(Scores)
  BY HistoriesAreSequences
<1>2. \A i \in 1..Len(h) : h[i] \in Scores
  BY <1>1
<1> QED
  BY <1>2, TrainingAssumption

\* Better, among the checkpoints of one history.
LEMMA BetterPrefix ==
    ASSUME NEW h \in Histories, NEW i \in 1..Len(h), NEW k \in 1..Len(h)
    PROVE  Better(SubSeq(h, 1, i), SubSeq(h, 1, k)) <=> h[i] < h[k] \/ (h[i] = h[k] /\ i < k)
  BY Prefix DEF Better

LEMMA BestIsHistory ==
    ASSUME NEW h \in Histories, NEW b, BestAmong(b, h)
    PROVE  b \in Histories
<1>1. CASE h = <<>>
  BY <1>1 DEF BestAmong
<1>2. CASE h # <<>>
  BY <1>2, Prefix DEF BestAmong
<1> QED
  BY <1>1, <1>2

\* The CHOOSE of BestOf has one candidate.
LEMMA BestIsChosen ==
    ASSUME NEW h \in Histories, h # <<>>, NEW b, BestAmong(b, h)
    PROVE  BestOf(Metrics(h)) = b
<1> DEFINE S == ToSet(Metrics(h))
           P(x) == \A y \in S \ {x} : Better(x, y)
<1>1. S = {SubSeq(h, 1, k) : k \in 1..Len(h)}
  <2>1. /\ DOMAIN Metrics(h) = 1..Len(h)
        /\ \A k \in 1..Len(h) : Metrics(h)[k] = SubSeq(h, 1, k)
    BY MetricsOf
  <2>2. S = {Metrics(h)[k] : k \in 1..Len(h)}
    BY <2>1 DEF ToSet
  <2> QED
    BY <2>1, <2>2
<1>2. PICK i \in 1..Len(h) :
        /\ b = SubSeq(h, 1, i)
        /\ \A k \in (1..Len(h)) \ {i} : h[i] < h[k] \/ (h[i] = h[k] /\ i < k)
  BY DEF BestAmong
<1>3. b \in S /\ P(b)
  <2>1. b \in S
    BY <1>1, <1>2
  <2>2. ASSUME NEW y \in S \ {b} PROVE Better(b, y)
    <3>1. PICK k \in 1..Len(h) : y = SubSeq(h, 1, k)
      BY <1>1, <2>2
    <3>2. k # i
      BY <1>2, <2>2, <3>1
    <3> QED
      BY <1>2, <3>1, <3>2, BetterPrefix
  <2> QED
    BY <2>1, <2>2
<1>4. ASSUME NEW x \in S, P(x) PROVE x = b
  <2>1. SUFFICES ASSUME x # b PROVE FALSE
    OBVIOUS
  <2>2. Better(x, b) /\ Better(b, x)
    BY <1>3, <1>4, <2>1
  <2>3. PICK k \in 1..Len(h) : x = SubSeq(h, 1, k)
    BY <1>1
  <2>4. /\ h[k] < h[i] \/ (h[k] = h[i] /\ k < i)
        /\ h[i] < h[k] \/ (h[i] = h[k] /\ i < k)
    BY <1>2, <2>2, <2>3, BetterPrefix
  <2> QED
    BY <2>4, ScoresOf
<1> HIDE DEF S
<1>5. BestOf(Metrics(h)) = CHOOSE x \in S : P(x)
  BY DEF BestOf, S
<1> HIDE DEF P
<1> QED
  BY <1>3, <1>4, <1>5

\* A checkpoint no other is better than moves the best pointer, and only that one.
LEMMA BestGrows ==
    ASSUME NEW g \in Histories, g # <<>>, NEW b, BestAmong(b, Front(g))
    PROVE  IF IsBest(g, Metrics(Front(g))) THEN BestAmong(g, g) ELSE BestAmong(b, g)
<1> DEFINE h == Front(g)
           n == Len(g)
<1>1. /\ h \in Histories /\ n \in Nat /\ n >= 1 /\ Len(h) = n - 1
      /\ \A k \in 1..(n - 1) : h[k] = g[k]
      /\ g \in Seq(Scores)
  BY Shortened, HistoriesAreSequences
<1>2. \A k \in 1..n : g[k] \in Nat
  BY ScoresOf
<1>3. SubSeq(g, 1, n) = g
  BY <1>1
<1>4. ASSUME NEW k \in 1..(n - 1) PROVE SubSeq(h, 1, k) = SubSeq(g, 1, k)
  <2>1. h \in Seq(Scores) /\ g \in Seq(Scores) /\ k \in 1..Len(h) /\ k \in 1..Len(g)
    BY <1>1, HistoriesAreSequences
  <2> QED
    BY <1>1, <2>1
<1> HIDE DEF h
<1>5. IsBest(g, Metrics(h)) <=> \A k \in 1..(n - 1) : g[n] < g[k]
  <2>1. \A k \in 1..(n - 1) : Metrics(h)[k] = SubSeq(g, 1, k)
    BY <1>1, <1>4, MetricsOf
  <2>2. \A k \in 1..(n - 1) : k \in 1..n /\ n \in 1..n /\ ~(n < k)
    BY <1>1
  <2>3. ASSUME NEW k \in 1..(n - 1) PROVE Better(g, SubSeq(g, 1, k)) <=> g[n] < g[k]
    <3>1. Better(SubSeq(g, 1, n), SubSeq(g, 1, k)) <=> g[n] < g[k] \/ (g[n] = g[k] /\ n < k)
      BY <2>2, BetterPrefix
    <3> QED
      BY <1>3, <2>2, <3>1
  <2>4. DOMAIN Metrics(h) = 1..(n - 1)
    BY <1>1, MetricsOf
  <2> QED
    BY <2>1, <2>3, <2>4 DEF IsBest
<1>6. CASE IsBest(g, Metrics(h))
  <2>1. \A k \in (1..n) \ {n} : g[n] < g[k]
    BY <1>1, <1>5, <1>6
  <2>2. n \in 1..n
    BY <1>1
  <2> QED
    BY <1>3, <1>6, <2>1, <2>2 DEF BestAmong, h
<1>7. CASE ~IsBest(g, Metrics(h))
  <2>1. PICK j \in 1..(n - 1) : ~(g[n] < g[j])
    BY <1>5, <1>7
  <2>2. h # <<>>
    BY <1>1, <2>1
  <2>3. PICK i \in 1..(n - 1) :
          /\ b = SubSeq(h, 1, i)
          /\ \A k \in (1..(n - 1)) \ {i} : h[i] < h[k] \/ (h[i] = h[k] /\ i < k)
    BY <1>1, <2>2 DEF BestAmong, h
  <2>4. b = SubSeq(g, 1, i) /\ i \in 1..n
    BY <1>1, <1>4, <2>3
  <2>5. \A k \in (1..(n - 1)) \ {i} : g[i] < g[k] \/ (g[i] = g[k] /\ i < k)
    BY <1>1, <2>3
  <2>6. ~(g[n] < g[i])
    <3>1. /\ n \in 1..n /\ i \in 1..n /\ j \in 1..n
          /\ g[n] \in Nat /\ g[i] \in Nat /\ g[j] \in Nat
      BY <1>1, <1>2, <2>1, <2>4
    <3>2. i # j => g[i] <= g[j]
      BY <2>1, <2>5, <3>1
    <3> QED
      BY <2>1, <3>1, <3>2
  <2>7. g[i] < g[n] \/ (g[i] = g[n] /\ i < n)
    BY <1>1, <1>2, <2>4, <2>6
  <2>8. ASSUME NEW k \in (1..n) \ {i} PROVE k = n \/ k \in (1..(n - 1)) \ {i}
    <3>1. k \in 1..n /\ k # i
      OBVIOUS
    <3>2. n \in Nat /\ n >= 1
      BY <1>1
    <3>3. k = n \/ k \in 1..(n - 1)
      BY ONLY <3>1, <3>2
    <3> QED
      BY <3>1, <3>3
  <2>9. \A k \in (1..n) \ {i} : g[i] < g[k] \/ (g[i] = g[k] /\ i < k)
    BY <2>5, <2>7, <2>8
  <2> QED
    BY <1>7, <2>4, <2>9 DEF BestAmong, h
<1> QED
  BY <1>6, <1>7 DEF h

-----------------------------------------------------------------------------
(* The selection that the completions determine.                           *)

LEMMA NotEmpty ==
    ASSUME NEW h \in Histories, h # <<>>
    PROVE  /\ Len(h) \in Nat /\ Len(h) \in 1..Len(h)
           /\ ScoreOf(h) = h[Len(h)] /\ ScoreOf(h) \in Nat
<1>1. h \in Seq(Scores) /\ Len(h) \in Nat /\ Len(h) # 0
  BY HistoriesAreSequences
<1> QED
  BY <1>1, ScoresOf DEF ScoreOf, Last

\* A least score exists, and among the seeds that reach it a least one.
LEMMA DeployableExists ==
    ASSUME NEW selected, \A s \in Seeds : selected[s] \in Histories \ {<<>>}
    PROVE  LET d == DeployableOf(selected) IN
           /\ d \in Seeds
           /\ \A t \in Seeds : \/ ScoreOf(selected[d]) < ScoreOf(selected[t])
                               \/ ScoreOf(selected[d]) = ScoreOf(selected[t]) /\ d <= t
<1> DEFINE score(s) == ScoreOf(selected[s])
           P(s) == \A t \in Seeds \ {s} : score(s) < score(t) \/ (score(s) = score(t) /\ s < t)
<1>1. \A s \in Seeds : score(s) \in Nat /\ s \in Nat
  BY NotEmpty, TrainingAssumption
<1>2. DeployableOf(selected) = CHOOSE s \in Seeds : P(s)
  BY DEF DeployableOf
<1> HIDE DEF score
<1>3. PICK m \in {score(s) : s \in Seeds} : \A n \in {score(s) : s \in Seeds} : m <= n
  <2>1. {score(s) : s \in Seeds} # {} /\ {score(s) : s \in Seeds} \in SUBSET Nat
    BY <1>1, TrainingAssumption
  <2> QED
    BY <2>1, Least
<1> DEFINE ties == {s \in Seeds : score(s) = m}
<1>4. PICK d \in ties : \A t \in ties : d <= t
  <2>1. ties # {} /\ ties \in SUBSET Nat
    BY <1>1, <1>3
  <2> HIDE DEF ties
  <2> QED
    BY <2>1, Least
<1>5. P(d)
  <2>1. SUFFICES ASSUME NEW t \in Seeds \ {d}
                 PROVE  score(d) < score(t) \/ (score(d) = score(t) /\ d < t)
    OBVIOUS
  <2>2. /\ score(d) = m /\ d \in Seeds /\ m <= score(t)
        /\ score(d) \in Nat /\ score(t) \in Nat /\ d \in Nat /\ t \in Nat
    BY <1>1, <1>3
  <2>3. score(t) = m => d <= t
    BY <1>4
  <2> QED
    BY <2>2, <2>3
<1>6. d \in Seeds
  OBVIOUS
<1> HIDE DEF P, ties
<1>7. DeployableOf(selected) \in Seeds /\ P(DeployableOf(selected))
  BY <1>2, <1>5, <1>6
<1>8. \A t \in Seeds : \/ score(DeployableOf(selected)) < score(t)
                       \/ score(DeployableOf(selected)) = score(t) /\ DeployableOf(selected) <= t
  BY <1>1, <1>7 DEF P
<1> QED
  BY <1>7, <1>8 DEF score

\* Files with a completion are settled, and the completion is all of their metrics.
LEMMA CompletedFiles ==
    ASSUME NEW f, FilesOk(f), f.completion # <<>>
    PROVE  \E h \in Histories \ {<<>>} : Settled(f, h) /\ f.completion = Metrics(h)
<1>1. PICK h \in Histories : Settled(f, h)
  BY DEF FilesOk, Logged, Pointed, OneMore
<1>2. f.completion = Metrics(h) /\ Len(h) = Epochs
  BY <1>1 DEF Settled
<1>3. h # <<>>
  BY <1>2, TrainingAssumption
<1> QED
  BY <1>1, <1>2, <1>3

LEMMA BestOfCompletion ==
    ASSUME NEW f, FilesOk(f), f.completion # <<>>
    PROVE  /\ BestOf(f.completion) \in Histories \ {<<>>}
           /\ BestOf(f.completion) = f.best
           /\ \A i \in DOMAIN f.completion :
                ScoreOf(BestOf(f.completion)) <= ScoreOf(f.completion[i])
<1>1. PICK h \in Histories \ {<<>>} : Settled(f, h) /\ f.completion = Metrics(h)
  BY CompletedFiles
<1>2. BestOf(f.completion) = f.best
  BY <1>1, BestIsChosen DEF Settled
<1>3. PICK i \in 1..Len(h) :
        /\ f.best = SubSeq(h, 1, i)
        /\ \A k \in (1..Len(h)) \ {i} : h[i] < h[k] \/ (h[i] = h[k] /\ i < k)
  BY <1>1 DEF Settled, BestAmong
<1>4. f.best \in Histories /\ ScoreOf(f.best) = h[i] /\ f.best # <<>>
  <2>1. f.best \in Histories /\ Len(f.best) = i /\ ScoreOf(f.best) = h[i]
    BY <1>1, <1>3, Prefix
  <2>2. i # 0 /\ Len(<<>>) = 0
    BY <1>3
  <2> QED
    BY <2>1, <2>2
<1>5. ASSUME NEW k \in 1..Len(h) PROVE ScoreOf(f.best) <= ScoreOf(f.completion[k])
  <2>1. ScoreOf(f.completion[k]) = h[k]
    <3>1. f.completion[k] = SubSeq(h, 1, k)
      BY <1>1, MetricsOf
    <3> QED
      BY <1>1, <3>1, Prefix
  <2> QED
    BY <1>1, <1>3, <1>4, <2>1, ScoresOf
<1>6. DOMAIN f.completion = 1..Len(h)
  BY <1>1, MetricsOf
<1> QED
  BY <1>2, <1>4, <1>5, <1>6

LEMMA FrozenIs ==
    ASSUME WorkersOk, AllComplete
    PROVE  /\ Frozen \in [selected: [Seeds -> Histories], deployable: Seeds]
           /\ \A s \in Seeds : Frozen.selected[s] = BestOf(durable[s].completion)
           /\ \A s \in Seeds : \A i \in DOMAIN durable[s].completion :
                LET d == Frozen.selected[Frozen.deployable]
                    h == durable[s].completion[i]
                IN  \/ ScoreOf(d) < ScoreOf(h)
                    \/ ScoreOf(d) = ScoreOf(h) /\ Frozen.deployable <= s
<1> DEFINE selected == [s \in Seeds |-> BestOf(durable[s].completion)]
<1>1. Frozen = [selected |-> selected, deployable |-> DeployableOf(selected)]
  BY DEF Frozen, FreezeSelection
<1>2. ASSUME NEW s \in Seeds
      PROVE  /\ selected[s] \in Histories \ {<<>>}
             /\ \A i \in DOMAIN durable[s].completion :
                    ScoreOf(selected[s]) <= ScoreOf(durable[s].completion[i])
  BY BestOfCompletion DEF WorkersOk, AllComplete
<1>3. /\ DeployableOf(selected) \in Seeds
      /\ \A t \in Seeds :
            \/ ScoreOf(selected[DeployableOf(selected)]) < ScoreOf(selected[t])
            \/ /\ ScoreOf(selected[DeployableOf(selected)]) = ScoreOf(selected[t])
               /\ DeployableOf(selected) <= t
  BY <1>2, DeployableExists
<1>4. ASSUME NEW s \in Seeds, NEW i \in DOMAIN durable[s].completion
      PROVE  LET d == selected[DeployableOf(selected)]
                 h == durable[s].completion[i]
             IN  \/ ScoreOf(d) < ScoreOf(h)
                 \/ ScoreOf(d) = ScoreOf(h) /\ DeployableOf(selected) <= s
  <2>1. PICK g \in Histories \ {<<>>} : durable[s].completion = Metrics(g)
    BY CompletedFiles DEF WorkersOk, AllComplete
  <2>2. ScoreOf(durable[s].completion[i]) \in Nat
    <3>1. i \in 1..Len(g) /\ durable[s].completion[i] = SubSeq(g, 1, i)
      BY <2>1, MetricsOf
    <3> QED
      BY <3>1, Prefix, ScoresOf
  <2>3. ScoreOf(selected[s]) \in Nat /\ ScoreOf(selected[DeployableOf(selected)]) \in Nat
    BY <1>2, <1>3, NotEmpty
  <2> HIDE DEF selected
  <2> QED
    BY <1>2, <1>3, <2>2, <2>3
<1>5. selected \in [Seeds -> Histories]
  BY <1>2
<1> QED
  BY <1>1, <1>3, <1>4, <1>5

-----------------------------------------------------------------------------
(* One worker's step.                                                      *)

LEMMA PartsOfInvariant ==
    ASSUME IInv, NEW s \in Seeds
    PROVE  /\ durable[s] \in FilesType /\ mount[s] \in FilesType
           /\ AtMostOne(durable[s].receipt) /\ AtMostOne(mount[s].receipt)
           /\ pc[s] \in Places /\ session[s] \in Histories
           /\ FilesOk(durable[s]) /\ WorkerOk(pc[s], durable[s], mount[s], session[s])
           /\ pc = [pc EXCEPT ![s] = pc[s]] /\ mount = [mount EXCEPT ![s] = mount[s]]
           /\ session = [session EXCEPT ![s] = session[s]]
           /\ seen = [seen EXCEPT ![s] = seen[s]]
  BY DEF IInv, TrainingType, WorkersOk

\* What a running worker may persist at any moment is what a resumed one may find.
LEMMA MountIsOk ==
    ASSUME NEW p \in Places, p \notin {"start"} \cup Resting, NEW d, NEW m, NEW h \in Histories,
           m.log \in Histories, WorkerOk(p, d, m, h)
    PROVE  FilesOk(m)
<1>1. CASE p \in {"preserve", "rollback"}
  BY <1>1 DEF WorkerOk, FilesOk
<1>2. CASE p \in {"recommit", "train", "commit"} \cup Completed
  BY <1>2 DEF WorkerOk, FilesOk
<1>3. CASE p \in {"publish", "latest"}
  BY <1>3 DEF WorkerOk, FilesOk, Logged, OneMore, Recorded
<1>4. CASE p \in {"best", "prune", "metrics"}
  BY <1>4 DEF WorkerOk, FilesOk, Pointed, OneMore, Recorded
<1> QED
  BY <1>1, <1>2, <1>3, <1>4 DEF Places

\* Completions stay, and with all of them there the selection they determine.
LEMMA DecisionStays ==
    ASSUME \A t \in Seeds : durable[t].completion # <<>> =>
                durable'[t].completion = durable[t].completion
    PROVE  /\ AllComplete => AllComplete' /\ Frozen' = Frozen
           /\ \A e : e = {} \/ (AllComplete /\ e = {Frozen}) =>
                e = {} \/ (AllComplete' /\ e = {Frozen'})
<1>1. ASSUME AllComplete PROVE AllComplete' /\ Frozen' = Frozen
  <2>1. \A t \in Seeds : durable'[t].completion = durable[t].completion
    BY <1>1 DEF AllComplete
  <2>2. [t \in Seeds |-> durable'[t].completion] = [t \in Seeds |-> durable[t].completion]
    BY <2>1
  <2> QED
    BY <1>1, <2>1, <2>2 DEF AllComplete, Frozen
<1> QED
  BY <1>1

\* The volume keeps what it has, or takes over the files of a running worker.
VolumeMoves(s) ==
    \/ Unpersisted
    \/ pc[s] \notin {"start"} \cup Resting /\ Persist(s)

LEMMA VolumeKeeps ==
    ASSUME IInv, NEW s \in Seeds, VolumeMoves(s)
    PROVE  /\ durable' \in [Seeds -> FilesType]
           /\ \A t \in Seeds : AtMostOne(durable'[t].receipt) /\ FilesOk(durable'[t])
           /\ \A t \in Seeds \ {s} : durable'[t] = durable[t]
           /\ durable'[s] \in {durable[s], mount[s]}
           /\ \A t \in Seeds : durable[t].completion # <<>> =>
                durable'[t].completion = durable[t].completion
<1>1. CASE Unpersisted
  BY <1>1 DEF Unpersisted, IInv, TrainingType, WorkersOk
<1>2. CASE pc[s] \notin {"start"} \cup Resting /\ Persist(s)
  <2>1. durable' = [durable EXCEPT ![s] = mount[s]]
    BY <1>2 DEF Persist
  <2>2. \A t \in Seeds : durable'[t] = IF t = s THEN mount[s] ELSE durable[t]
    BY <2>1 DEF IInv, TrainingType
  <2>3. mount[s].log \in Histories
    BY PartsOfInvariant DEF FilesType
  <2>4. FilesOk(mount[s])
    BY <1>2, <2>3, PartsOfInvariant, MountIsOk
  <2>5. durable[s].completion # <<>> => mount[s].completion = durable[s].completion
    BY <1>2, PartsOfInvariant DEF WorkerOk
  <2> QED
    BY <2>1, <2>2, <2>4, <2>5, PartsOfInvariant DEF IInv, TrainingType, WorkersOk
<1> QED
  BY <1>1, <1>2 DEF VolumeMoves

LEMMA VolumeDecides ==
    ASSUME IInv, NEW s \in Seeds, VolumeMoves(s), index' = index
    PROVE  /\ Decided(selection)'
           /\ \A t \in Seeds : Selections(durable'[t]) \subseteq selection'
           /\ index' \subseteq selection'
<1> USE DEF IInv, DecisionsOk, Decided
<1>1. CASE Unpersisted
  <2>1. AllComplete' = AllComplete /\ Frozen' = Frozen
    BY <1>1 DEF Unpersisted, AllComplete, Frozen
  <2> QED
    BY <1>1, <2>1 DEF Unpersisted
<1>2. CASE pc[s] \notin {"start"} \cup Resting /\ Persist(s)
  <2>1. AllComplete => AllComplete' /\ Frozen' = Frozen
    BY VolumeKeeps, DecisionStays
  <2>2. selection' = IF seen[s] = {} THEN selection ELSE seen[s]
    BY <1>2 DEF Persist
  <2>3. selection \subseteq selection' /\ seen[s] \subseteq selection'
    BY <2>2
  <2>4. Decided(selection)'
    BY <2>1, <2>2
  <2>5. \A t \in Seeds : Selections(durable[t]) \subseteq selection'
                         /\ Selections(mount[s]) \subseteq selection'
    BY <2>3
  <2>6. \A t \in Seeds : durable'[t] \in {durable[t], mount[s]}
    BY VolumeKeeps
  <2> QED
    BY <2>3, <2>4, <2>5, <2>6
<1> QED
  BY <1>1, <1>2 DEF VolumeMoves

\* A worker moves to p with files m, history h and decisions e.
LEMMA SeedStep ==
    ASSUME IInv, NEW s \in Seeds, VolumeMoves(s), index' = index, faults' \in 0..MaxFaults,
           NEW p \in Places, NEW m \in FilesType, NEW h \in Histories, NEW e,
           pc' = [pc EXCEPT ![s] = p], mount' = [mount EXCEPT ![s] = m],
           session' = [session EXCEPT ![s] = h], seen' = [seen EXCEPT ![s] = e],
           AtMostOne(m.receipt), Selections(m) \subseteq e,
           WorkerOk(p, durable'[s], m, h),
           e = {} \/ (AllComplete /\ e = {Frozen}),
           p \in {"select"} \cup Selecting => AllComplete,
           p \in Selecting => e # {},
           e # {} => p \in {"select"} \cup Selecting
    PROVE  IInv'
<1>1. TrainingType'
  BY VolumeKeeps DEF IInv, TrainingType
<1>2. /\ \A t \in Seeds : pc'[t] = IF t = s THEN p ELSE pc[t]
      /\ \A t \in Seeds : mount'[t] = IF t = s THEN m ELSE mount[t]
      /\ \A t \in Seeds : session'[t] = IF t = s THEN h ELSE session[t]
      /\ \A t \in Seeds : seen'[t] = IF t = s THEN e ELSE seen[t]
  BY DEF IInv, TrainingType
<1>3. WorkersOk'
  <2> SUFFICES ASSUME NEW t \in Seeds
               PROVE  FilesOk(durable'[t]) /\ WorkerOk(pc'[t], durable'[t], mount'[t], session'[t])
    BY DEF WorkersOk
  <2>1. FilesOk(durable'[t])
    BY VolumeKeeps
  <2>2. CASE t = s
    BY <1>2, <2>1, <2>2
  <2>3. CASE t # s
    <3>1. durable'[t] = durable[t]
      BY <2>3, VolumeKeeps
    <3> QED
      BY <1>2, <2>1, <2>3, <3>1, PartsOfInvariant
  <2> QED
    BY <2>2, <2>3
<1>4. DecisionsOk'
  <2>1. /\ AllComplete => AllComplete' /\ Frozen' = Frozen
        /\ \A ee : ee = {} \/ (AllComplete /\ ee = {Frozen}) =>
                ee = {} \/ (AllComplete' /\ ee = {Frozen'})
    BY VolumeKeeps, DecisionStays
  <2> DEFINE SeenOk(t) ==
        /\ seen'[t] = {} \/ (AllComplete' /\ seen'[t] = {Frozen'})
        /\ pc'[t] \in {"select"} \cup Selecting => AllComplete'
        /\ pc'[t] \in Selecting => seen'[t] # {}
        /\ seen'[t] # {} => pc'[t] \in {"select"} \cup Selecting
        /\ Selections(mount'[t]) \subseteq seen'[t]
  <2>2. ASSUME NEW t \in Seeds PROVE SeenOk(t)
    <3>1. CASE t = s
      BY <1>2, <2>1, <3>1
    <3>2. CASE t # s
      <4>1. /\ seen[t] = {} \/ (AllComplete /\ seen[t] = {Frozen})
            /\ pc[t] \in {"select"} \cup Selecting => AllComplete
            /\ pc[t] \in Selecting => seen[t] # {}
            /\ seen[t] # {} => pc[t] \in {"select"} \cup Selecting
            /\ Selections(mount[t]) \subseteq seen[t]
        BY DEF IInv, DecisionsOk, Decided
      <4> QED
        BY <1>2, <2>1, <3>2, <4>1
    <3> QED
      BY <3>1, <3>2
  <2> QED
    BY <2>2, VolumeDecides DEF DecisionsOk, Decided
<1> QED
  BY <1>1, <1>3, <1>4 DEF IInv

-----------------------------------------------------------------------------
(* Commits, and writes behind a worker's back.                             *)

\* Where a worker stands with respect to the selection.
Phase(p) == IF p \in Selecting THEN 2 ELSE IF p = "select" THEN 1 ELSE 0

LEMMA DecisionsOf ==
    ASSUME IInv, NEW s \in Seeds
    PROVE  /\ seen[s] = {} \/ (AllComplete /\ seen[s] = {Frozen})
           /\ Phase(pc[s]) # 0 => AllComplete
           /\ Phase(pc[s]) = 2 => seen[s] # {}
           /\ seen[s] # {} => Phase(pc[s]) # 0
           /\ Selections(mount[s]) \subseteq seen[s]
  BY DEF IInv, DecisionsOk, Decided, Phase

\* A worker that stays in its phase, with the decisions it has.
LEMMA PhaseKept ==
    ASSUME IInv, NEW s \in Seeds, NEW p, Phase(p) = Phase(pc[s])
    PROVE  /\ p \in {"select"} \cup Selecting => AllComplete
           /\ p \in Selecting => seen[s] # {}
           /\ seen[s] # {} => p \in {"select"} \cup Selecting
<1>1. p \in Selecting <=> Phase(p) = 2
  BY DEF Phase
<1>2. p \in {"select"} \cup Selecting <=> Phase(p) # 0
  BY DEF Phase
<1> QED
  BY <1>1, <1>2, DecisionsOf

\* What a worker has of its own, left alone.
LEMMA OwnKept ==
    ASSUME IInv, NEW s \in Seeds
    PROVE  /\ mount[s] \in FilesType /\ session[s] \in Histories
           /\ mount = [mount EXCEPT ![s] = mount[s]]
           /\ session = [session EXCEPT ![s] = session[s]]
           /\ seen = [seen EXCEPT ![s] = seen[s]]
<1>1. /\ mount \in [Seeds -> FilesType] /\ session \in [Seeds -> Histories]
      /\ seen = [t \in Seeds |-> seen[t]]
  BY DEF IInv, TrainingType
<1>2. mount = [mount EXCEPT ![s] = mount[s]]
  BY <1>1
<1>3. session = [session EXCEPT ![s] = session[s]]
  BY <1>1
<1>4. seen = [seen EXCEPT ![s] = seen[s]]
  BY <1>1
<1> QED
  BY <1>1, <1>2, <1>3, <1>4

LEMMA PersistStep ==
    ASSUME IInv, NEW s \in Seeds, NEW p \in Places, Persist(s), Outside,
           pc' = [pc EXCEPT ![s] = p], UNCHANGED <<mount, seen, session>>,
           pc[s] \notin {"start"} \cup Resting, p \notin {"start"} \cup Resting,
           WorkerOk(p, mount[s], mount[s], session[s]), Phase(p) = Phase(pc[s])
    PROVE  IInv'
<1>1. durable'[s] = mount[s]
  BY DEF Persist, IInv, TrainingType
<1>2. index' = index /\ faults' \in 0..MaxFaults /\ VolumeMoves(s)
  BY DEF Outside, IInv, TrainingType, VolumeMoves
<1>3. WorkerOk(p, durable'[s], mount[s], session[s])
  BY <1>1
<1>4. /\ session' = [session EXCEPT ![s] = session[s]] /\ session[s] \in Histories
      /\ mount' = [mount EXCEPT ![s] = mount[s]] /\ mount[s] \in FilesType
      /\ seen' = [seen EXCEPT ![s] = seen[s]]
  BY OwnKept
<1>5. /\ AtMostOne(mount[s].receipt) /\ Selections(mount[s]) \subseteq seen[s]
      /\ seen[s] = {} \/ (AllComplete /\ seen[s] = {Frozen})
  BY PartsOfInvariant, DecisionsOf
<1>6. /\ p \in {"select"} \cup Selecting => AllComplete
      /\ p \in Selecting => seen[s] # {}
      /\ seen[s] # {} => p \in {"select"} \cup Selecting
  BY PhaseKept
<1> QED
  BY ONLY IInv, s \in Seeds, p \in Places, pc' = [pc EXCEPT ![s] = p],
          <1>2, <1>3, <1>4, <1>5, <1>6, SeedStep

\* What was committed is in the files it was committed from.
LEMMA CommittedIn ==
    ASSUME NEW m
    PROVE  RecordsIn(m.log, m)
  BY DEF RecordsIn

LEMMA CommitsInv ==
    ASSUME IInv, NEW s \in Seeds, Recommit(s) \/ CommitEpoch(s) \/ Settle(s) \/ Deliver(s)
    PROVE  IInv'
<1>1. WorkerOk(pc[s], durable[s], mount[s], session[s])
  BY PartsOfInvariant
<1>2. CASE Recommit(s) \/ CommitEpoch(s)
  <2>1. pc[s] \in {"recommit", "commit"} /\ pc' = [pc EXCEPT ![s] = "train"]
    BY <1>2 DEF Recommit, CommitEpoch, GoTo
  <2>2. WorkerOk("train", mount[s], mount[s], session[s])
    BY <1>1, <2>1, CommittedIn DEF WorkerOk, Completed, Selecting, Resting
  <2> QED
    BY <1>2, <2>1, <2>2, PersistStep
       DEF Recommit, CommitEpoch, Places, Resting, Phase, Selecting, Completed
<1>3. CASE Settle(s)
  <2>1. pc[s] = "settle" /\ pc' = [pc EXCEPT ![s] = "await"]
    BY <1>3 DEF Settle, GoTo
  <2>2. WorkerOk("await", mount[s], mount[s], session[s])
    BY <1>1, <2>1, CommittedIn DEF WorkerOk, Completed, Selecting, Resting
  <2> QED
    BY <1>3, <2>1, <2>2, PersistStep DEF Settle, Places, Resting, Phase, Selecting, Completed
<1>4. CASE Deliver(s)
  <2>1. pc[s] = "deliver" /\ pc' = [pc EXCEPT ![s] = "receipt"]
    BY <1>4 DEF Deliver, GoTo
  <2>2. WorkerOk("receipt", mount[s], mount[s], session[s])
    BY <1>1, <2>1, CommittedIn DEF WorkerOk, Completed, Selecting, Resting
  <2> QED
    BY <1>4, <2>1, <2>2, PersistStep DEF Deliver, Places, Resting, Phase, Selecting, Completed
<1> QED
  BY <1>2, <1>3, <1>4

LEMMA FlushInv ==
    ASSUME IInv, NEW s \in Seeds, Flush(s)
    PROVE  IInv'
<1>1. pc[s] \in Places /\ pc[s] \notin {"start"} \cup Resting /\ pc' = [pc EXCEPT ![s] = pc[s]]
  BY PartsOfInvariant DEF Flush
<1>2. WorkerOk(pc[s], mount[s], mount[s], session[s])
  BY <1>1, PartsOfInvariant, CommittedIn DEF WorkerOk
<1> QED
  BY <1>1, <1>2, PersistStep DEF Flush

\* A container that goes takes its mount and its memory along.
LEMMA NoFilesOk ==
    /\ NoFiles \in FilesType /\ Settled(NoFiles, <<>>) /\ FilesOk(NoFiles)
    /\ NoFiles.receipt = {} /\ AtMostOne(NoFiles.receipt) /\ Selections(NoFiles) = {}
    /\ <<>> \in Histories
<1>1. <<>> \in Histories
  <2>1. <<>> \in Seq(Scores) /\ Len(<<>>) <= Epochs
    BY TrainingAssumption
  <2> QED
    BY <2>1, HistoriesAreSequences
<1>2. Metrics(<<>>) = <<>> /\ <<>> \in MetricLists
  BY <1>1, MetricsOf
<1>3. <<>> \in Completions
  BY DEF Completions
<1>4. NoFiles \in FilesType
  BY <1>1, <1>2, <1>3 DEF NoFiles, FilesType, Recoveries, Receipts
<1>5. Settled(NoFiles, <<>>)
  BY <1>1, <1>2 DEF Settled, Recorded, NoFiles, BestAmong
<1> QED
  BY <1>1, <1>4, <1>5 DEF FilesOk, NoFiles, AtMostOne, Selections

LEMMA LeaveStep ==
    ASSUME IInv, NEW s \in Seeds, NEW where \in {"start"} \cup Resting, Leave(s, where),
           VolumeMoves(s), index' = index, faults' \in 0..MaxFaults
    PROVE  IInv'
<1>1. WorkerOk(where, durable'[s], NoFiles, <<>>)
  BY DEF WorkerOk, Resting, Completed, Selecting
<1>2. where \in Places /\ where \notin {"select"} \cup Selecting
  BY DEF Places, Resting, Selecting
<1> QED
  BY <1>1, <1>2, NoFilesOk, SeedStep DEF Leave, GoTo

LEMMA LeavesInv ==
    ASSUME IInv, NEW s \in Seeds,
           ReturnReceipt(s) \/ Finish(s) \/ Refuse(s) \/ Kill(s) \/ BarrierTimeout(s)
    PROVE  IInv'
<1>1. faults \in 0..MaxFaults /\ MaxFaults \in Nat
  BY TrainingAssumption DEF IInv, TrainingType
<1>2. CASE ReturnReceipt(s)
  BY <1>1, <1>2, LeaveStep DEF ReturnReceipt, Outside, VolumeMoves, Resting
<1>3. CASE Finish(s)
  BY <1>1, <1>3, LeaveStep DEF Finish, Outside, VolumeMoves, Resting
<1>4. CASE Refuse(s)
  BY <1>1, <1>4, LeaveStep DEF Refuse, Outside, VolumeMoves, Resting
<1>5. CASE Kill(s) \/ BarrierTimeout(s)
  <2>1. faults' \in 0..MaxFaults
    BY <1>1, <1>5 DEF Kill, BarrierTimeout
  <2> QED
    BY <1>5, <2>1, LeaveStep DEF Kill, BarrierTimeout, VolumeMoves, Resting
<1> QED
  BY <1>2, <1>3, <1>4, <1>5

-----------------------------------------------------------------------------
(* The files of an epoch, of the recovery and of the completion.           *)

LEMMA WriteStep ==
    ASSUME IInv, NEW s \in Seeds, NEW p \in Places, NEW m \in FilesType,
           Unpersisted, Outside, UNCHANGED <<seen, session>>,
           pc' = [pc EXCEPT ![s] = p], mount' = [mount EXCEPT ![s] = m],
           AtMostOne(m.receipt), Selections(m) \subseteq seen[s],
           WorkerOk(p, durable[s], m, session[s]), Phase(p) = Phase(pc[s])
    PROVE  IInv'
<1>1. index' = index /\ faults' \in 0..MaxFaults /\ VolumeMoves(s)
  BY DEF Outside, IInv, TrainingType, VolumeMoves
<1>2. durable'[s] = durable[s]
  BY DEF Unpersisted
<1>3. WorkerOk(p, durable'[s], m, session[s])
  BY <1>2
<1>4. /\ session' = [session EXCEPT ![s] = session[s]] /\ session[s] \in Histories
      /\ seen' = [seen EXCEPT ![s] = seen[s]]
  BY OwnKept
<1>5. seen[s] = {} \/ (AllComplete /\ seen[s] = {Frozen})
  BY DecisionsOf
<1>6. /\ p \in {"select"} \cup Selecting => AllComplete
      /\ p \in Selecting => seen[s] # {}
      /\ seen[s] # {} => p \in {"select"} \cup Selecting
  BY PhaseKept
<1> QED
  BY ONLY IInv, s \in Seeds, p \in Places, m \in FilesType,
          pc' = [pc EXCEPT ![s] = p], mount' = [mount EXCEPT ![s] = m],
          AtMostOne(m.receipt), Selections(m) \subseteq seen[s],
          <1>1, <1>3, <1>4, <1>5, <1>6, SeedStep

\* The same, of a worker that leaves the receipt as it is.
LEMMA FileStepInv ==
    ASSUME IInv, NEW s \in Seeds, NEW at, NEW p \in Places, NEW m \in FilesType,
           FileStep(s, at, m, p),
           m.receipt = mount[s].receipt,
           WorkerOk(p, durable[s], m, session[s]), Phase(p) = Phase(at)
    PROVE  IInv'
<1>1. Selections(m) \subseteq seen[s] /\ AtMostOne(m.receipt)
  BY PartsOfInvariant, DecisionsOf DEF Selections
<1> QED
  BY <1>1, WriteStep DEF FileStep, Write, GoTo

\* The fields of the files that a write leaves alone.
LEMMA FieldsOf ==
    ASSUME NEW f \in FilesType
    PROVE  /\ f.log \in Histories /\ f.latest \in Histories /\ f.best \in Histories
           /\ f.model \in Histories /\ f.checkpoints \in SUBSET Histories
           /\ f.metrics \in MetricLists /\ f.recovered \in Recoveries
           /\ f.completion \in Completions /\ f.receipt \in Receipts
  BY DEF FilesType

LEMMA PreserveInv ==
    ASSUME IInv, NEW s \in Seeds, Preserve(s)
    PROVE  IInv'
<1> DEFINE f == mount[s]
           m == [f EXCEPT !.recovered = @ \cup {Orphan(f.log)}]
<1>1. f \in FilesType /\ pc[s] = "preserve" /\ WorkerOk(pc[s], durable[s], f, session[s])
  BY PartsOfInvariant DEF Preserve
<1>2. Logged(f, session[s], f.log) /\ RecordsIn(durable[s].log, f)
      /\ (durable[s].completion # <<>> => f.completion = durable[s].completion)
  BY <1>1 DEF WorkerOk, Resting
<1>3. Orphan(f.log) \in [epoch : 1..Epochs, score : Scores]
  <2>1. f.log \in Histories /\ f.log # <<>>
    BY <1>2 DEF Logged, OneMore
  <2>2. Len(f.log) \in 1..Epochs /\ f.log[Len(f.log)] \in Scores
    BY <2>1, Shortened, HistoriesAreSequences, TrainingAssumption
  <2> QED
    BY <2>2 DEF Orphan, Last
<1>4. FileStep(s, "preserve", m, "rollback")
  BY DEF Preserve, FileStep
<1> HIDE DEF f
<1>5. /\ m.recovered = f.recovered \cup {Orphan(f.log)}
      /\ m.log = f.log /\ m.latest = f.latest /\ m.best = f.best /\ m.metrics = f.metrics
      /\ m.checkpoints = f.checkpoints /\ m.completion = f.completion /\ m.receipt = f.receipt
  BY <1>1 DEF FilesType
<1>6. m \in FilesType
  <2>1. f.recovered \cup {Orphan(f.log)} \in Recoveries
    BY <1>1, <1>3, FieldsOf DEF Recoveries
  <2> QED
    BY <1>1, <2>1 DEF FilesType
<1> HIDE DEF m
<1>7. Logged(m, session[s], m.log) /\ RecordsIn(durable[s].log, m)
  BY <1>2, <1>5 DEF Logged, OneMore, Recorded, RecordsIn
<1>8. WorkerOk("rollback", durable[s], m, session[s])
  BY <1>2, <1>5, <1>7 DEF WorkerOk, Completed, Selecting, Resting
<1> QED
  BY <1>4, <1>5, <1>6, <1>8, FileStepInv DEF f, Places, Phase, Selecting

LEMMA RollbackInv ==
    ASSUME IInv, NEW s \in Seeds, Rollback(s)
    PROVE  IInv'
<1> DEFINE f == mount[s]
           m == [f EXCEPT !.log = Front(@)]
<1>1. f \in FilesType /\ pc[s] = "rollback" /\ WorkerOk(pc[s], durable[s], f, session[s])
  BY PartsOfInvariant DEF Rollback
<1>2. /\ Logged(f, session[s], f.log) /\ RecordsIn(durable[s].log, f)
      /\ (durable[s].completion # <<>> => f.completion = durable[s].completion)
      /\ Orphan(f.log) \in f.recovered
  BY <1>1 DEF WorkerOk, Resting
<1>3. Front(f.log) = session[s] /\ f.log \in Histories /\ f.log # <<>>
  BY <1>2 DEF Logged, OneMore
<1>4. FileStep(s, "rollback", m, "recommit")
  BY DEF Rollback, FileStep
<1> HIDE DEF f
<1>5. /\ m.log = session[s]
      /\ m.recovered = f.recovered /\ m.latest = f.latest /\ m.best = f.best
      /\ m.metrics = f.metrics /\ m.checkpoints = f.checkpoints
      /\ m.completion = f.completion /\ m.receipt = f.receipt
  BY <1>1, <1>3 DEF FilesType
<1>6. m \in FilesType
  <2>1. Front(f.log) \in Histories
    BY <1>3, Shortened
  <2> QED
    BY <1>1, <2>1 DEF FilesType
<1> HIDE DEF m
<1>7. Settled(m, session[s])
  BY <1>2, <1>5 DEF Logged, OneMore, Recorded, Settled
<1>8. RecordsIn(durable[s].log, m)
  <2> SUFFICES ASSUME NEW n \in DOMAIN durable[s].log
               PROVE  \/ n \in DOMAIN m.log /\ m.log[n] = durable[s].log[n]
                      \/ [epoch |-> n, score |-> durable[s].log[n]] \in m.recovered
    BY DEF RecordsIn
  <2>1. \/ n \in DOMAIN f.log /\ f.log[n] = durable[s].log[n]
        \/ [epoch |-> n, score |-> durable[s].log[n]] \in f.recovered
    BY <1>2 DEF RecordsIn
  <2>2. /\ DOMAIN f.log = 1..Len(f.log) /\ Len(f.log) \in Nat
        /\ DOMAIN m.log = 1..(Len(f.log) - 1)
        /\ \A k \in 1..(Len(f.log) - 1) : m.log[k] = f.log[k]
    <3>1. m.log = Front(f.log)
      BY <1>3, <1>5
    <3>2. /\ DOMAIN f.log = 1..Len(f.log) /\ Len(f.log) \in Nat
          /\ DOMAIN Front(f.log) = 1..(Len(f.log) - 1)
          /\ \A k \in 1..(Len(f.log) - 1) : Front(f.log)[k] = f.log[k]
      BY <1>3, Shortened
    <3> QED
      BY <3>1, <3>2
  <2>3. CASE n = Len(f.log) /\ f.log[n] = durable[s].log[n]
    <3>1. [epoch |-> n, score |-> durable[s].log[n]] = Orphan(f.log)
      BY <2>3 DEF Orphan, Last
    <3> QED
      BY <1>2, <1>5, <3>1
  <2>4. CASE n \in DOMAIN f.log /\ n # Len(f.log) /\ f.log[n] = durable[s].log[n]
    <3>1. n \in 1..(Len(f.log) - 1)
      BY <2>2, <2>4
    <3> QED
      BY <2>2, <2>4, <3>1
  <2> QED
    BY <1>5, <2>1, <2>3, <2>4
<1>9. WorkerOk("recommit", durable[s], m, session[s])
  BY <1>2, <1>5, <1>7, <1>8 DEF WorkerOk, Completed, Selecting, Resting
<1> QED
  BY <1>4, <1>5, <1>6, <1>9, FileStepInv DEF f, Places, Phase, Selecting

LEMMA PublishCheckpointInv ==
    ASSUME IInv, NEW s \in Seeds, PublishCheckpoint(s)
    PROVE  IInv'
<1> DEFINE f == mount[s]
           h == session[s]
           m == [f EXCEPT !.checkpoints = @ \cup {h}]
<1>1. /\ f \in FilesType /\ pc[s] = "publish" /\ h \in Histories
      /\ WorkerOk(pc[s], durable[s], f, h)
  BY PartsOfInvariant DEF PublishCheckpoint, FileStep
<1>2. FileStep(s, "publish", m, "latest")
  BY DEF PublishCheckpoint
<1> HIDE DEF f, h
<1>3. /\ m.checkpoints = f.checkpoints \cup {h}
      /\ m.recovered = f.recovered /\ m.log = f.log /\ m.latest = f.latest /\ m.best = f.best
      /\ m.metrics = f.metrics /\ m.completion = f.completion /\ m.receipt = f.receipt
      /\ m \in FilesType
  BY <1>1 DEF FilesType
<1> HIDE DEF m
<1>4. WorkerOk("latest", durable[s], m, h)
  BY <1>1, <1>3 DEF WorkerOk, Logged, OneMore, Recorded, RecordsIn, Completed, Selecting, Resting
<1> QED
  BY <1>2, <1>3, <1>4, FileStepInv DEF f, h, Places, Phase, Selecting

LEMMA WriteLatestInv ==
    ASSUME IInv, NEW s \in Seeds, WriteLatest(s)
    PROVE  IInv'
<1> DEFINE f == mount[s]
           h == session[s]
           m == [f EXCEPT !.latest = h]
<1>1. /\ f \in FilesType /\ pc[s] = "latest" /\ h \in Histories
      /\ WorkerOk(pc[s], durable[s], f, h)
  BY PartsOfInvariant DEF WriteLatest, FileStep
<1>2. FileStep(s, "latest", m, "best")
  BY DEF WriteLatest
<1> HIDE DEF f, h
<1>3. /\ m.latest = h
      /\ m.recovered = f.recovered /\ m.log = f.log /\ m.best = f.best
      /\ m.checkpoints = f.checkpoints
      /\ m.metrics = f.metrics /\ m.completion = f.completion /\ m.receipt = f.receipt
      /\ m \in FilesType
  BY <1>1 DEF FilesType
<1> HIDE DEF m
<1>4. WorkerOk("best", durable[s], m, h)
  BY <1>1, <1>3 DEF WorkerOk, Logged, Pointed, OneMore, Recorded, RecordsIn, Completed, Selecting,
                    Resting
<1> QED
  BY <1>2, <1>3, <1>4, FileStepInv DEF f, h, Places, Phase, Selecting

LEMMA WriteBestInv ==
    ASSUME IInv, NEW s \in Seeds, WriteBest(s)
    PROVE  IInv'
<1> DEFINE f == mount[s]
           h == session[s]
           m == IF IsBest(h, f.metrics) THEN [f EXCEPT !.best = h] ELSE f
<1>1. /\ f \in FilesType /\ pc[s] = "best" /\ h \in Histories
      /\ WorkerOk(pc[s], durable[s], f, h)
  BY PartsOfInvariant DEF WriteBest, FileStep
<1>2. FileStep(s, "best", m, "prune")
  BY DEF WriteBest
<1> HIDE DEF f, h
<1>3. Pointed(f, Front(h), h) /\ BestAmong(f.best, Front(h))
  BY <1>1 DEF WorkerOk
<1>4. f.metrics = Metrics(Front(h)) /\ h # <<>> /\ h \in f.checkpoints \cup {<<>>}
  BY <1>3 DEF Pointed, OneMore, Recorded
<1>5. BestAmong(m.best, h)
  <2>1. IF IsBest(h, f.metrics) THEN BestAmong(h, h) ELSE BestAmong(f.best, h)
    BY <1>1, <1>3, <1>4, BestGrows
  <2>2. IsBest(h, f.metrics) => m.best = h
    BY <1>1 DEF FilesType
  <2> QED
    BY <2>1, <2>2
<1>6. /\ m.best \in {f.best, h}
      /\ m.recovered = f.recovered /\ m.log = f.log /\ m.latest = f.latest
      /\ m.checkpoints = f.checkpoints
      /\ m.metrics = f.metrics /\ m.completion = f.completion /\ m.receipt = f.receipt
      /\ m \in FilesType
  BY <1>1 DEF FilesType
<1> HIDE DEF m
<1>7. Pointed(m, Front(h), h)
  BY <1>3, <1>4, <1>5, <1>6 DEF Pointed, OneMore, Recorded
<1>8. WorkerOk("prune", durable[s], m, h)
  BY <1>1, <1>5, <1>6, <1>7 DEF WorkerOk, RecordsIn, Completed, Selecting, Resting
<1> QED
  BY <1>2, <1>6, <1>8, FileStepInv DEF f, h, Places, Phase, Selecting

LEMMA PruneInv ==
    ASSUME IInv, NEW s \in Seeds, Prune(s)
    PROVE  IInv'
<1> DEFINE f == mount[s]
           h == session[s]
           m == [f EXCEPT !.checkpoints = @ \cap Retained(f)]
<1>1. /\ f \in FilesType /\ pc[s] = "prune" /\ h \in Histories
      /\ WorkerOk(pc[s], durable[s], f, h)
  BY PartsOfInvariant DEF Prune, FileStep
<1>2. FileStep(s, "prune", m, "metrics")
  BY DEF Prune
<1> HIDE DEF f, h
<1>3. /\ m.checkpoints = f.checkpoints \cap {f.latest, f.best}
      /\ m.recovered = f.recovered /\ m.log = f.log /\ m.latest = f.latest /\ m.best = f.best
      /\ m.metrics = f.metrics /\ m.completion = f.completion /\ m.receipt = f.receipt
      /\ m \in FilesType
  BY <1>1 DEF FilesType, Retained
<1> HIDE DEF m
<1>4. WorkerOk("metrics", durable[s], m, h)
  BY <1>1, <1>3 DEF WorkerOk, Pointed, OneMore, Recorded, RecordsIn, Completed, Selecting, Resting
<1> QED
  BY <1>2, <1>3, <1>4, FileStepInv DEF f, h, Places, Phase, Selecting

LEMMA WriteMetricsInv ==
    ASSUME IInv, NEW s \in Seeds, WriteMetrics(s)
    PROVE  IInv'
<1> DEFINE f == mount[s]
           h == session[s]
           m == [f EXCEPT !.metrics = Append(@, h)]
<1>1. /\ f \in FilesType /\ pc[s] = "metrics" /\ h \in Histories
      /\ WorkerOk(pc[s], durable[s], f, h)
  BY PartsOfInvariant DEF WriteMetrics, FileStep
<1>2. FileStep(s, "metrics", m, "commit")
  BY DEF WriteMetrics
<1> HIDE DEF f, h
<1>3. Pointed(f, Front(h), h) /\ BestAmong(f.best, h)
  BY <1>1 DEF WorkerOk
<1>4. f.metrics = Metrics(Front(h)) /\ h # <<>> /\ f.completion = <<>>
  BY <1>3 DEF Pointed, OneMore, Recorded
<1>5. Append(f.metrics, h) = Metrics(h)
  BY <1>1, <1>4, MetricsGrow
<1>6. /\ m.metrics = Metrics(h)
      /\ m.recovered = f.recovered /\ m.log = f.log /\ m.latest = f.latest /\ m.best = f.best
      /\ m.checkpoints = f.checkpoints /\ m.completion = f.completion /\ m.receipt = f.receipt
  BY <1>1, <1>5 DEF FilesType
<1>7. m \in FilesType
  <2>1. Metrics(h) \in MetricLists
    BY <1>1, MetricsOf
  <2> QED
    BY <1>1, <1>5, <2>1 DEF FilesType
<1> HIDE DEF m
<1>8. Settled(m, h)
  BY <1>1, <1>3, <1>4, <1>6 DEF Settled, Pointed, OneMore, Recorded
<1>9. WorkerOk("commit", durable[s], m, h)
  BY <1>1, <1>4, <1>6, <1>8 DEF WorkerOk, RecordsIn, Completed, Selecting, Resting
<1> QED
  BY <1>2, <1>6, <1>7, <1>9, FileStepInv DEF f, h, Places, Phase, Selecting

LEMMA CompleteInv ==
    ASSUME IInv, NEW s \in Seeds, Complete(s)
    PROVE  IInv'
<1> DEFINE f == mount[s]
           h == session[s]
           m == [f EXCEPT !.completion = f.metrics]
<1>1. /\ f \in FilesType /\ pc[s] = "train" /\ h \in Histories
      /\ WorkerOk(pc[s], durable[s], f, h) /\ SoundEvidence(f)
  BY PartsOfInvariant DEF Complete
<1>2. FileStep(s, "train", m, "settle")
  BY DEF Complete, FileStep
<1> HIDE DEF f, h
<1>3. Settled(f, h) /\ f.metrics = Metrics(h) /\ Len(f.metrics) = Epochs
  BY <1>1 DEF WorkerOk, Settled, Recorded, SoundEvidence
<1>4. Len(h) = Epochs /\ Metrics(h) \in Completions /\ f.completion \in {<<>>, Metrics(h)}
  BY <1>1, <1>3, MetricsOf DEF SoundEvidence
<1>5. /\ m.completion = Metrics(h)
      /\ m.recovered = f.recovered /\ m.log = f.log /\ m.latest = f.latest /\ m.best = f.best
      /\ m.checkpoints = f.checkpoints /\ m.metrics = f.metrics /\ m.receipt = f.receipt
      /\ m \in FilesType
  BY <1>1, <1>3, <1>4 DEF FilesType
<1> HIDE DEF m
<1>6. Settled(m, h)
  BY <1>3, <1>4, <1>5 DEF Settled, Recorded
<1>7. durable[s].completion # <<>> => m.completion = durable[s].completion
  BY <1>1, <1>4, <1>5 DEF WorkerOk, Resting
<1>8. WorkerOk("settle", durable[s], m, h)
  BY <1>1, <1>4, <1>5, <1>6, <1>7 DEF WorkerOk, RecordsIn, Completed, Selecting, Resting
<1> QED
  BY <1>2, <1>5, <1>8, FileStepInv DEF f, h, Places, Phase, Selecting, Completed

LEMMA ExportInv ==
    ASSUME IInv, NEW s \in Seeds, Export(s)
    PROVE  IInv'
<1> DEFINE f == mount[s]
           h == session[s]
           m == [f EXCEPT !.model = f.best]
<1>1. /\ f \in FilesType /\ pc[s] = "export" /\ h \in Histories
      /\ WorkerOk(pc[s], durable[s], f, h)
  BY PartsOfInvariant DEF Export
<1>2. FileStep(s, "export", m, "deliver")
  BY DEF Export, FileStep
<1> HIDE DEF f, h
<1>3. /\ m.recovered = f.recovered /\ m.log = f.log /\ m.latest = f.latest /\ m.best = f.best
      /\ m.checkpoints = f.checkpoints /\ m.metrics = f.metrics
      /\ m.completion = f.completion /\ m.receipt = f.receipt
      /\ m \in FilesType
  BY <1>1 DEF FilesType
<1> HIDE DEF m
<1>4. WorkerOk("deliver", durable[s], m, h)
  BY <1>1, <1>3 DEF WorkerOk, Settled, Recorded, RecordsIn, Completed, Selecting, Resting
<1> QED
  BY <1>2, <1>3, <1>4, FileStepInv DEF f, h, Places, Phase, Selecting, Completed

-----------------------------------------------------------------------------
(* The resumption, one more epoch, and the selection.                      *)

LEMMA Resumed ==
    ASSUME NEW f \in FilesType, FilesOk(f), Resumable(f)
    PROVE  IF HasOrphan(f) THEN Logged(f, f.latest, f.log) ELSE Settled(f, f.latest)
<1>1. CASE HasOrphan(f)
  <2>1. Len(f.log) = Len(f.latest) + 1 /\ Len(f.latest) \in Nat
    BY <1>1, HistoriesAreSequences DEF HasOrphan, FilesType
  <2>2. f.log # f.latest
    BY <2>1
  <2> QED
    BY <1>1, <2>2 DEF FilesOk, Settled, Logged, Pointed, OneMore
<1>2. CASE ~HasOrphan(f)
  <2>1. Len(f.log) = Len(f.latest) /\ Len(f.metrics) = Len(f.latest)
    BY <1>2 DEF Resumable, SizesAgree
  <2>2. ASSUME NEW h \in Histories, NEW g \in Histories, Logged(f, h, g) \/ Pointed(f, h, g)
        PROVE  FALSE
    <3>1. /\ f.log = g /\ g # <<>> /\ Front(g) = h /\ f.metrics = Metrics(h)
          /\ f.latest \in {g, h}
      BY <2>2 DEF Logged, Pointed, OneMore, Recorded
    <3>2. Len(g) \in Nat /\ Len(h) = Len(g) - 1 /\ Len(Metrics(h)) = Len(h)
      BY <3>1, Shortened, MetricsOf
    <3> QED
      BY <2>1, <3>1, <3>2
  <2>3. PICK h \in Histories : Settled(f, h)
    BY <2>2 DEF FilesOk
  <2> QED
    BY <1>2, <2>3 DEF Settled
<1> QED
  BY <1>1, <1>2

LEMMA ResumeInv ==
    ASSUME IInv, NEW s \in Seeds, Resume(s)
    PROVE  IInv'
<1> DEFINE f == durable[s]
           p == IF HasOrphan(f) THEN "preserve" ELSE "train"
<1>1. /\ f \in FilesType /\ FilesOk(f) /\ AtMostOne(f.receipt)
      /\ pc[s] = "start" /\ f.receipt = {} /\ Resumable(f)
  BY PartsOfInvariant DEF Resume
<1>2. IF HasOrphan(f) THEN Logged(f, f.latest, f.log) ELSE Settled(f, f.latest)
  BY <1>1, Resumed
<1>3. /\ mount' = [mount EXCEPT ![s] = f] /\ session' = [session EXCEPT ![s] = f.latest]
      /\ pc' = [pc EXCEPT ![s] = p] /\ seen' = seen /\ durable'[s] = f
      /\ VolumeMoves(s) /\ Outside
  BY DEF Resume, Write, GoTo, VolumeMoves, Unpersisted
<1>4. seen[s] = {} /\ seen' = [seen EXCEPT ![s] = {}]
  BY <1>1, <1>3, PartsOfInvariant, DecisionsOf DEF Phase, Selecting
<1>5. Selections(f) = {}
  BY <1>1 DEF Selections
<1>6. WorkerOk(p, f, f, f.latest)
  BY <1>2, CommittedIn DEF WorkerOk, Completed, Selecting, Resting
<1>7. p \in Places /\ p \notin {"select"} \cup Selecting /\ f.latest \in Histories
  BY <1>1 DEF Places, Selecting, FilesType
<1>8. faults' \in 0..MaxFaults /\ index' = index
  BY <1>3 DEF Outside, IInv, TrainingType
<1> HIDE DEF f, p
<1> QED
  BY <1>1, <1>3, <1>4, <1>5, <1>6, <1>7, <1>8, SeedStep

LEMMA TrainInv ==
    ASSUME IInv, NEW s \in Seeds, Train(s)
    PROVE  IInv'
<1> DEFINE f == mount[s]
           h == session[s]
<1>1. /\ f \in FilesType /\ pc[s] = "train" /\ h \in Histories /\ Len(h) < Epochs
      /\ WorkerOk(pc[s], durable[s], f, h) /\ AtMostOne(f.receipt)
  BY PartsOfInvariant DEF Train, MoreEpochs
<1>2. PICK x \in Scores :
        /\ session' = [session EXCEPT ![s] = Append(h, x)]
        /\ mount' = [mount EXCEPT ![s] = [f EXCEPT !.log = Append(@, x)]]
  BY DEF Train, Write
<1>3. /\ pc' = [pc EXCEPT ![s] = "publish"] /\ seen' = seen /\ durable'[s] = durable[s]
      /\ VolumeMoves(s) /\ Outside
  BY DEF Train, GoTo, Unpersisted, VolumeMoves
<1>4. seen[s] = {} /\ seen' = [seen EXCEPT ![s] = {}] /\ Selections(f) = {}
  BY <1>1, <1>3, PartsOfInvariant, DecisionsOf DEF Phase, Selecting
<1>5. faults' \in 0..MaxFaults /\ index' = index
  BY <1>3 DEF Outside, IInv, TrainingType
<1> DEFINE g == Append(h, x)
           m == [f EXCEPT !.log = Append(@, x)]
<1> HIDE DEF f, h
<1>6. Settled(f, h) /\ f.log = h /\ f.completion = <<>>
  BY <1>1 DEF WorkerOk, Settled
<1>7. /\ g \in Histories /\ g # <<>> /\ Front(g) = h /\ Len(g) = Len(h) + 1
      /\ \A k \in 1..Len(h) : g[k] = h[k]
  BY <1>1, Extended
<1>8. /\ m.log = g
      /\ m.recovered = f.recovered /\ m.latest = f.latest /\ m.best = f.best
      /\ m.checkpoints = f.checkpoints /\ m.metrics = f.metrics
      /\ m.completion = f.completion /\ m.receipt = f.receipt
      /\ m \in FilesType
  <2>1. m = [f EXCEPT !.log = g]
    BY <1>1, <1>6 DEF FilesType
  <2> HIDE DEF g, m
  <2> QED
    BY <1>1, <1>7, <2>1 DEF FilesType
<1> HIDE DEF m, g
<1>9. Logged(m, h, g)
  BY <1>6, <1>7, <1>8 DEF Logged, OneMore, Settled, Recorded
<1>10. RecordsIn(durable[s].log, m)
  <2>1. RecordsIn(durable[s].log, f)
    BY <1>1 DEF WorkerOk, Resting
  <2>2. DOMAIN h = 1..Len(h) /\ DOMAIN h \subseteq DOMAIN g
    BY <1>1, <1>7, HistoriesAreSequences
  <2> QED
    BY <1>6, <1>7, <1>8, <2>1, <2>2 DEF RecordsIn
<1>11. WorkerOk("publish", durable[s], m, g)
  BY <1>1, <1>6, <1>7, <1>8, <1>9, <1>10 DEF WorkerOk, Completed, Selecting, Resting
<1>12. Selections(m) = {}
  BY <1>4, <1>8 DEF Selections
<1>13. mount' = [mount EXCEPT ![s] = m] /\ session' = [session EXCEPT ![s] = g]
  BY <1>2 DEF m, g, f, h
<1>14. "publish" \in Places /\ "publish" \notin {"select"} \cup Selecting
  BY DEF Places, Selecting
<1>15. AtMostOne(m.receipt) /\ WorkerOk("publish", durable'[s], m, g)
  BY <1>1, <1>3, <1>8, <1>11
<1>16. m \in FilesType /\ g \in Histories /\ Selections(m) \subseteq {}
  BY <1>7, <1>8, <1>12
<1>17. pc' = [pc EXCEPT ![s] = "publish"] /\ VolumeMoves(s) /\ seen' = [seen EXCEPT ![s] = {}]
  BY <1>3, <1>4
<1> QED
  BY ONLY IInv, s \in Seeds, <1>5, <1>13, <1>14, <1>15, <1>16, <1>17, SeedStep

\* The workers that await all completions, and select, do so without a write.
LEMMA ChoosesInv ==
    ASSUME IInv, NEW s \in Seeds, Await(s) \/ Select(s)
    PROVE  IInv'
<1>1. PICK p \in {"select", "export"} :
        /\ pc' = [pc EXCEPT ![s] = p]
        /\ seen' = [seen EXCEPT ![s] = IF p = "select" THEN selection ELSE {Frozen}]
        /\ p = "select" => pc[s] = "await" /\ AllComplete
        /\ p = "export" => pc[s] = "select"
  BY DEF Await, Select, GoTo
<1> DEFINE e == IF p = "select" THEN selection ELSE {Frozen}
<1>2. UNCHANGED <<mount, session>> /\ Unpersisted /\ Outside
  BY DEF Await, Select
<1>3. /\ faults' \in 0..MaxFaults /\ index' = index /\ durable'[s] = durable[s]
      /\ VolumeMoves(s)
  BY <1>2 DEF Outside, IInv, TrainingType, Unpersisted, VolumeMoves
<1>4. AllComplete
  BY <1>1, DecisionsOf DEF Phase
<1>5. e = {} \/ (AllComplete /\ e = {Frozen})
  BY <1>4 DEF IInv, DecisionsOk, Decided
<1>6. Selections(mount[s]) \subseteq e
  <2>1. seen[s] = {} \/ seen[s] = {Frozen}
    BY DecisionsOf
  <2>2. p = "select" => seen[s] = {}
    BY <1>1, DecisionsOf DEF Phase, Selecting
  <2> QED
    BY <2>1, <2>2, DecisionsOf
<1>7. WorkerOk(p, durable[s], mount[s], session[s])
  BY <1>1, PartsOfInvariant DEF WorkerOk, Completed, Selecting, Resting
<1>8. p \in Places /\ p \in {"select"} \cup Selecting /\ (p \in Selecting => e # {})
  BY DEF Places, Completed, Selecting
<1> HIDE DEF e
<1>9. seen' = [seen EXCEPT ![s] = e]
  BY <1>1 DEF e
<1> QED
  BY <1>1, <1>2, <1>3, <1>4, <1>5, <1>6, <1>7, <1>8, <1>9, PartsOfInvariant, SeedStep

LEMMA WriteReceiptInv ==
    ASSUME IInv, NEW s \in Seeds, WriteReceipt(s)
    PROVE  IInv'
<1> DEFINE f == mount[s]
           h == session[s]
<1>1. /\ f \in FilesType /\ pc[s] = "receipt" /\ h \in Histories
      /\ WorkerOk(pc[s], durable[s], f, h) /\ f.best \in Histories
  BY PartsOfInvariant DEF WriteReceipt, FilesType
<1>2. PICK d \in seen[s] :
        mount' = [mount EXCEPT ![s] = [f EXCEPT !.receipt =
                    {[checkpoint |-> f.best, selection |-> d, at |-> faults]}]]
  BY DEF WriteReceipt, Write
<1>3. d = Frozen /\ AllComplete
  BY DecisionsOf
<1>4. d \in [selected: [Seeds -> Histories], deployable: Seeds]
  BY <1>3, FrozenIs DEF IInv
<1> DEFINE r == [checkpoint |-> f.best, selection |-> d, at |-> faults]
           m == [f EXCEPT !.receipt = {r}]
<1>5. {r} \in Receipts
  <2>1. faults \in 0..MaxFaults
    BY DEF IInv, TrainingType
  <2> QED
    BY <1>1, <1>4, <2>1 DEF Receipts
<1>6. r.selection = d
  OBVIOUS
<1>7. mount' = [mount EXCEPT ![s] = m]
  BY <1>2
<1> HIDE DEF f, h, r
<1>8. /\ m.receipt = {r}
      /\ m.recovered = f.recovered /\ m.log = f.log /\ m.latest = f.latest /\ m.best = f.best
      /\ m.checkpoints = f.checkpoints /\ m.metrics = f.metrics /\ m.completion = f.completion
      /\ m \in FilesType
  BY <1>1, <1>5 DEF FilesType
<1> HIDE DEF m
<1>9. WorkerOk("finish", durable[s], m, h)
  BY <1>1, <1>8 DEF WorkerOk, Settled, Recorded, RecordsIn, Completed, Selecting, Resting
<1>10. Selections(m) \subseteq seen[s] /\ AtMostOne(m.receipt)
  BY <1>2, <1>6, <1>8 DEF Selections, AtMostOne
<1>11. /\ pc' = [pc EXCEPT ![s] = "finish"] /\ Unpersisted /\ Outside
       /\ UNCHANGED <<seen, session>>
  BY DEF WriteReceipt, GoTo
<1> QED
  BY <1>1, <1>7, <1>8, <1>9, <1>10, <1>11, WriteStep DEF h, Places, Phase, Selecting, Completed

-----------------------------------------------------------------------------
(* The command, and the whole.                                             *)

LEMMA RestInv ==
    ASSUME IInv, Unpersisted, index' \subseteq selection, faults' = faults,
           \/ UNCHANGED <<pc, mount, seen, session>>
           \/ /\ pc' = [s \in Seeds |-> "start"] /\ mount' = [s \in Seeds |-> NoFiles]
              /\ seen' = [s \in Seeds |-> {}] /\ session' = [s \in Seeds |-> <<>>]
    PROVE  IInv'
<1>1. durable' = durable /\ selection' = selection
  BY DEF Unpersisted
<1>2. AllComplete' = AllComplete /\ Frozen' = Frozen
  BY <1>1 DEF AllComplete, Frozen
<1>3. CASE UNCHANGED <<pc, mount, seen, session>>
  <2>1. TrainingType' /\ WorkersOk'
    BY <1>1, <1>3 DEF IInv, TrainingType, WorkersOk
  <2>2. DecisionsOk'
    BY <1>1, <1>2, <1>3 DEF IInv, DecisionsOk, Decided
  <2> QED
    BY <2>1, <2>2 DEF IInv
<1>4. CASE /\ pc' = [s \in Seeds |-> "start"] /\ mount' = [s \in Seeds |-> NoFiles]
           /\ seen' = [s \in Seeds |-> {}] /\ session' = [s \in Seeds |-> <<>>]
  <2>1. \A s \in Seeds : pc'[s] = "start" /\ mount'[s] = NoFiles /\ session'[s] = <<>> /\ seen'[s] = {}
    BY <1>4
  <2>2. TrainingType'
    BY <1>1, <1>4, NoFilesOk DEF IInv, TrainingType, Places
  <2>3. \A s \in Seeds : WorkerOk("start", durable'[s], NoFiles, <<>>)
    BY DEF WorkerOk, Completed, Selecting, Resting
  <2>4. WorkersOk'
    BY <1>1, <2>1, <2>3 DEF IInv, WorkersOk
  <2>5. "start" \notin {"select"} \cup Selecting
    BY DEF Selecting
  <2>6. DecisionsOk'
    BY <1>1, <1>2, <2>1, <2>5, NoFilesOk DEF IInv, DecisionsOk, Decided
  <2> QED
    BY <2>2, <2>4, <2>6 DEF IInv
<1> QED
  BY <1>3, <1>4

LEMMA BuildIndexInv ==
    ASSUME IInv, BuildIndex
    PROVE  IInv'
<1>1. /\ index' = {r.selection : r \in UNION {durable[s].receipt : s \in Seeds}}
      /\ Unpersisted /\ UNCHANGED <<pc, mount, seen, session, faults>>
  BY DEF BuildIndex
<1>2. index' \subseteq selection
  BY <1>1 DEF IInv, DecisionsOk, Selections
<1> QED
  BY <1>1, <1>2, RestInv

LEMMA NextIInv == IInv /\ [Next]_vars => IInv'
<1> SUFFICES ASSUME IInv, [Next]_vars PROVE IInv'
  OBVIOUS
<1>1. ASSUME NEW s \in Seeds, WorkerStep(s) PROVE IInv'
  BY <1>1, LeavesInv, ResumeInv, PreserveInv, RollbackInv, CommitsInv, TrainInv,
     PublishCheckpointInv, WriteLatestInv, WriteBestInv, PruneInv, WriteMetricsInv, CompleteInv,
     ChoosesInv, ExportInv, WriteReceiptInv DEF WorkerStep
<1>2. ASSUME NEW s \in Seeds, Kill(s) \/ BarrierTimeout(s) PROVE IInv'
  BY <1>2, LeavesInv
<1>3. ASSUME NEW s \in Seeds, Flush(s) PROVE IInv'
  BY <1>3, FlushInv
<1>4. CASE Rerun
  BY <1>4, RestInv DEF Rerun, Outside, IInv, DecisionsOk
<1>5. CASE BuildIndex
  BY <1>5, BuildIndexInv
<1>6. CASE UNCHANGED vars
  BY <1>6, RestInv DEF vars, Unpersisted, IInv, DecisionsOk
<1> QED
  BY <1>1, <1>2, <1>3, <1>4, <1>5, <1>6 DEF Next

LEMMA InitIInv == Init => IInv
<1> SUFFICES ASSUME Init PROVE IInv
  OBVIOUS
<1>1. TrainingType
  <2>1. 0 \in 0..MaxFaults /\ "start" \in Places
    BY TrainingAssumption DEF Places
  <2>2. /\ durable = [s \in Seeds |-> NoFiles] /\ mount = [s \in Seeds |-> NoFiles]
        /\ pc = [s \in Seeds |-> "start"] /\ session = [s \in Seeds |-> <<>>]
        /\ seen = [s \in Seeds |-> {}] /\ faults = 0
    BY DEF Init
  <2> QED
    BY <2>1, <2>2, NoFilesOk DEF TrainingType
<1>2. \A s \in Seeds : WorkerOk("start", NoFiles, NoFiles, <<>>)
  BY DEF WorkerOk, Completed, Selecting, Resting
<1>3. WorkersOk
  BY <1>2, NoFilesOk DEF Init, WorkersOk
<1>4. DecisionsOk
  BY NoFilesOk DEF Init, DecisionsOk, Decided, Selecting
<1> QED
  BY <1>1, <1>3, <1>4 DEF IInv

\* Every state of the specification satisfies the inductive invariant, on which the
\* theorems below rest.
THEOREM Invariance == Spec => []IInv
  BY InitIInv, NextIInv, PTL DEF Spec

-----------------------------------------------------------------------------
(* What the runs check.                                                    *)

LEMMA AtMostOneCounts ==
    ASSUME NEW S, AtMostOne(S)
    PROVE  Cardinality(S) <= 1
<1>1. CASE S = {}
  BY <1>1, FS_EmptySet
<1>2. CASE S # {}
  <2>1. PICK x : S = {x}
    BY <1>2 DEF AtMostOne
  <2>2. Cardinality({x}) = 1
    BY FS_Singleton
  <2> QED
    BY <2>1, <2>2
<1> QED
  BY <1>1, <1>2

\* Type correctness of the training: the files of every seed, at most one selection, one
\* receipt per seed and one index, whatever is killed and run again.
THEOREM TrainingTypeCorrect == Spec => []TypeOK
<1>1. IInv => TypeOK
  <2> SUFFICES ASSUME IInv PROVE TypeOK
    OBVIOUS
  <2>1. FilesType = Files
    BY DEF FilesType, Files, MetricLists, Completions, Recoveries, Receipts
  <2>2. ASSUME NEW d, Decided(d) PROVE Cardinality(d) <= 1
    BY <2>2, AtMostOneCounts DEF Decided, AtMostOne
  <2>3. \A s \in Seeds : Cardinality(seen[s]) <= 1 /\ Cardinality(selection) <= 1
    BY <2>2 DEF IInv, DecisionsOk
  <2>4. \A s \in Seeds :
          /\ Cardinality(durable[s].receipt) <= 1 /\ Cardinality(mount[s].receipt) <= 1
          /\ durable[s] \in Files /\ mount[s] \in Files /\ session[s] \in Histories
    BY <2>1, PartsOfInvariant, AtMostOneCounts
  <2>5. Cardinality(selection) <= 1
    BY <2>2 DEF IInv, DecisionsOk
  <2> QED
    BY <2>3, <2>4, <2>5 DEF TypeOK, IInv, DecisionsOk, TrainingType
<1> QED
  BY <1>1, Invariance, PTL

\* CommitsResolve: whatever was killed, rolled back or became durable too early, the
\* pointers of a seed name complete checkpoints, and an epoch is committed only when its
\* log, metrics, latest and best checkpoint tell one history.
THEOREM CommitsAreWhole == Spec => []CommitsResolve
<1>1. ASSUME IInv, NEW s \in Seeds, NEW f, FilesOk(f)
      PROVE  {f.latest, f.best} \subseteq f.checkpoints \cup {<<>>}
  BY <1>1 DEF FilesOk, Settled, Logged, Pointed, OneMore, Recorded
<1>2. IInv => PointersResolve
  <2> SUFFICES ASSUME IInv, NEW s \in Seeds PROVE FilesOk(durable[s]) /\ FilesOk(mount[s])
    BY <1>1 DEF PointersResolve
  <2>1. CASE pc[s] \in {"start"} \cup Resting
    BY <2>1, PartsOfInvariant, NoFilesOk DEF WorkerOk
  <2>2. CASE pc[s] \notin {"start"} \cup Resting
    <3>1. mount[s].log \in Histories
      BY PartsOfInvariant DEF FilesType
    <3> QED
      BY <2>2, <3>1, PartsOfInvariant, MountIsOk
  <2> QED
    BY <2>1, <2>2
<1>3. IInv => CommitsAgree
  <2> SUFFICES ASSUME IInv, NEW s \in Seeds, pc[s] = "commit"
               PROVE  LET files == mount[s] IN
                      /\ files.latest = session[s] /\ files.log = session[s]
                      /\ files.metrics = Metrics(session[s])
                      /\ files.best = BestOf(files.metrics)
    BY DEF CommitsAgree, Metrics
  <2>1. Settled(mount[s], session[s]) /\ session[s] \in Histories /\ session[s] # <<>>
    BY PartsOfInvariant DEF WorkerOk
  <2> QED
    BY <2>1, BestIsChosen DEF Settled, Recorded
<1> QED
  BY <1>2, <1>3, Invariance, PTL DEF CommitsResolve

\* DeployableIsBest: the selection that is frozen on the volume names the best of all
\* checkpoints that the seeds completed with, and the lower seed among equals.
THEOREM SelectionIsBest == Spec => []DeployableIsBest
<1>1. IInv => DeployableIsBest
  <2> SUFFICES ASSUME IInv, NEW f \in selection PROVE
        \A s \in Seeds :
            /\ durable[s].completion # <<>>
            /\ \A i \in DOMAIN durable[s].completion :
                 LET h == durable[s].completion[i]
                     d == f.selected[f.deployable]
                 IN  \/ ScoreOf(d) < ScoreOf(h)
                     \/ ScoreOf(d) = ScoreOf(h) /\ f.deployable <= s
    BY DEF DeployableIsBest
  <2>1. AllComplete /\ f = Frozen
    BY DEF IInv, DecisionsOk, Decided
  <2> QED
    BY <2>1, FrozenIs DEF IInv, AllComplete
<1> QED
  BY <1>1, Invariance, PTL

\* RecordsAreKept: an epoch record that was durable is never lost: a step that changes it
\* makes its copy durable, however the files reached the volume.
THEOREM RecordsKept == Spec => RecordsAreKept
<1>1. ASSUME IInv, [Next]_vars
      PROVE  [\A s \in Seeds : RecordsIn(durable[s].log, durable'[s])]_vars
  <2> SUFFICES ASSUME NEW s \in Seeds PROVE RecordsIn(durable[s].log, durable'[s])
    OBVIOUS
  <2>1. CASE durable'[s] = durable[s]
    BY <2>1, CommittedIn
  <2>2. ASSUME NEW t \in Seeds, pc[t] \notin {"start"} \cup Resting, Persist(t)
        PROVE  RecordsIn(durable[s].log, durable'[s])
    <3>1. durable' = [durable EXCEPT ![t] = mount[t]] /\ DOMAIN durable = Seeds
      BY <1>1, <2>2 DEF Persist, IInv, TrainingType
    <3>2. RecordsIn(durable[t].log, mount[t])
      BY <1>1, <2>2, PartsOfInvariant DEF WorkerOk
    <3> QED
      BY <3>1, <3>2, CommittedIn
  <2>3. ASSUME NEW t \in Seeds,
               Recommit(t) \/ CommitEpoch(t) \/ Settle(t) \/ Deliver(t) \/ Finish(t) \/ Flush(t)
        PROVE  RecordsIn(durable[s].log, durable'[s])
    BY <2>2, <2>3 DEF Recommit, CommitEpoch, Settle, Deliver, Finish, Flush, Resting
  <2>4. CASE Unpersisted \/ UNCHANGED vars
    BY <2>1, <2>4 DEF Unpersisted, vars
  <2>5. \/ Unpersisted \/ UNCHANGED vars
        \/ \E t \in Seeds : Recommit(t) \/ CommitEpoch(t) \/ Settle(t) \/ Deliver(t)
                            \/ Finish(t) \/ Flush(t)
    BY <1>1 DEF Next, WorkerStep, Rerun, BuildIndex, Kill, BarrierTimeout, ReturnReceipt, Resume,
       Preserve, Rollback, Train, PublishCheckpoint, WriteLatest, WriteBest, Prune, WriteMetrics,
       Complete, Await, Select, Export, WriteReceipt, Refuse, FileStep
  <2> QED
    BY <2>3, <2>4, <2>5
<1> QED
  BY <1>1, Invariance, PTL DEF Spec, RecordsAreKept, RecordsIn
=============================================================================
