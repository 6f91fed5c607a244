---------------------------- MODULE NumericsProofs ----------------------------
(***************************************************************************)
(* Proofs about the numerical modules: a training session that is killed   *)
(* and resumed, for every number of batches, epochs and processes; a run   *)
(* of the solver, for every schedule; the sampling windows of its steps;   *)
(* the streaming kernel on every tiling, the launches that schedule it,    *)
(* the equations of a lattice node and the preflight of a case.  Trained   *)
(* gives in closed form what the uninterrupted session of TrainingSession  *)
(* computes step by step; the invariant of a run says which of the         *)
(* scheduled steps lie behind it.                                          *)
(***************************************************************************)
EXTENDS MCNumerics, FiniteSetTheorems, SequenceTheorems, WellFoundedInduction, TLAPS

-----------------------------------------------------------------------------
(* Whole parts.                                                            *)

\* A number between k times b and the next multiple has k for its whole part.
LEMMA WholePart ==
    ASSUME NEW b \in Nat \ {0}, NEW k \in Nat, NEW r \in 0 .. b - 1
    PROVE  (k * b + r) \div b = k /\ (k * b + r) % b = r
  OBVIOUS

LEMMA Division ==
    ASSUME NEW d \in Nat, NEW b \in Nat \ {0}
    PROVE  d \div b \in Nat /\ d % b \in 0 .. b - 1 /\ d = b * (d \div b) + (d % b)
  OBVIOUS

LEMMA NextMultiple ==
    ASSUME NEW b \in Nat, NEW k \in Nat
    PROVE  /\ k * b \in Nat /\ (k + 1) * b = k * b + b
           /\ k >= 1 => (k - 1) * b = k * b - b
  OBVIOUS

\* The multiples of i past w are i apart.
LEMMA Spaced ==
    ASSUME NEW w \in Nat, NEW i \in Nat \ {0}, NEW k \in Nat, NEW l \in Nat
    PROVE  /\ w + k * i \in Nat /\ w + (k + 1) * i = (w + k * i) + i
           /\ k <= l <=> w + k * i <= w + l * i
           /\ k >= 1 => w + k * i > w
<1>1. ASSUME NEW a \in Nat, NEW d \in Nat
      PROVE  a * i \in Nat /\ (a + d + 1) * i = a * i + d * i + i /\ d * i \in Nat /\ (a + 1) * i = a * i + i
    OBVIOUS
<1>2. ASSUME NEW a \in Nat, NEW b \in Nat, a < b
      PROVE  w + a * i < w + b * i
  <2> DEFINE d == b - a - 1
             x == a * i
             y == b * i
             z == d * i
  <2>1. d \in Nat /\ a + d + 1 = b
    BY <1>2
  <2>2. x \in Nat /\ y = x + z + i /\ z \in Nat
    BY <1>1, <2>1
  <2> HIDE DEF x, y, z
  <2>3. w + x < w + y
    BY <2>2
  <2> QED
    BY <2>3 DEF x, y
<1>3. w + k * i \in Nat /\ w + l * i \in Nat /\ w + (k + 1) * i = (w + k * i) + i
  <2> DEFINE x == k * i
             y == l * i
             z == (k + 1) * i
  <2>1. x \in Nat /\ y \in Nat /\ z = x + i
    BY <1>1
  <2> HIDE DEF x, y, z
  <2>2. w + x \in Nat /\ w + y \in Nat /\ w + z = (w + x) + i
    BY <2>1
  <2> QED
    BY <2>2 DEF x, y, z
<1> DEFINE at(n) == w + n * i
<1>4. k <= l <=> at(k) <= at(l)
  <2>1. /\ k < l => at(k) < at(l)
        /\ l < k => at(l) < at(k)
    BY <1>2
  <2>2. at(k) \in Nat /\ at(l) \in Nat
    BY <1>3
  <2>3. k = l => at(k) = at(l)
    OBVIOUS
  <2> HIDE DEF at
  <2> QED
    BY <2>1, <2>2, <2>3
<1>5. k >= 1 => at(k) > w
  <2>1. 0 * i = 0 /\ (0 < k => w + 0 * i < w + k * i)
    BY <1>2
  <2> QED
    BY <2>1
<1> QED
  BY <1>3, <1>4, <1>5

\* A step is due when it is one of them.
LEMMA DueStep ==
    ASSUME NEW w \in Nat, NEW i \in Nat \ {0}, NEW s \in Nat
    PROVE  s > w /\ (s - w) % i = 0 <=> \E k \in Nat \ {0} : w + k * i = s
<1> DEFINE d == s - w
<1>1. ASSUME s > w, d % i = 0 PROVE \E k \in Nat \ {0} : w + k * i = s
  <2> DEFINE q == d \div i
             p == q * i
  <2>1. d \in Nat \ {0} /\ s = w + d
    BY <1>1
  <2> HIDE DEF d
  <2>2. q \in Nat /\ d = i * q + 0
    BY <1>1, <2>1, Division
  <2>3. p = d /\ q # 0
    BY <2>1, <2>2
  <2> HIDE DEF q
  <2>4. w + q * i = s
    <3> HIDE DEF p
    <3>1. w + p = s
      BY <2>1, <2>3
    <3> QED
      BY <3>1 DEF p
  <2> QED
    BY <2>2, <2>3, <2>4
<1>2. ASSUME NEW k \in Nat \ {0}, w + k * i = s PROVE s > w /\ d % i = 0
  <2> DEFINE p == k * i
  <2>1. p \in Nat /\ s = w + p /\ s > w
    BY <1>2, Spaced
  <2>2. d = p
    <3> HIDE DEF p
    <3> QED
      BY <2>1
  <2>3. (k * i + 0) % i = 0 /\ k * i + 0 = k * i
    <3>1. 0 \in 0 .. i - 1
      OBVIOUS
    <3> QED
      BY <3>1, WholePart
  <2> QED
    BY <2>1, <2>2, <2>3
<1> QED
  BY <1>1, <1>2

-----------------------------------------------------------------------------
(* The session of one process that is never killed, in closed form.        *)

Scale(n) == IF precision = "fp16" THEN n ELSE NoState
EpochOf(n) == (n - 1) \div BatchCount + 1

\* Update k is that of batch k - 1, and is the k-th to draw random numbers.
Update(device, k) ==
    [batch |-> <<EpochOf(k) - 1, (k - 1) % BatchCount>>, rate |-> LearningRate(EpochOf(k)),
     moments |-> k - 1, scale |-> Scale(k - 1), rng |-> k, device |-> device]

\* A session, by its fields.
SessionOf(d, i, w, m, r, s, g, n, mode) ==
    [device |-> d, precision |-> precision, initial |-> i, weights |-> w, moments |-> m, rate |-> r,
     scale |-> s, rng |-> g, step |-> n, mode |-> mode]

Weights(device, n) == [k \in 1 .. n |-> Update(device, k)]

Rated(device, n, rate) ==
    SessionOf(device, 0, Weights(device, n), n, rate, Scale(n), n + 1, n, "train")

\* After n batches; the rate is the one of the last batch.
Trained(device, n) == Rated(device, n, IF n = 0 THEN 40 ELSE LearningRate(EpochOf(n)))

Records(n) ==
    [i \in 1 .. n |-> [epoch |-> i, batches |-> BatchCount, step |-> i * BatchCount,
                       rate |-> LearningRate(i)]]

\* The checkpoint is one of the uninterrupted session, the log covers it and one epoch
\* more at most, and the session of the process is as far as its phase says.
SessionInv ==
    /\ precision \in {"bf16", "fp16"}
    /\ \/ saved = NoState
       \/ \E d \in Devices, k \in 1 .. EpochCount :
             saved = Capture(Trained(d, k * BatchCount), k) /\ saved \in Checkpoints
    /\ epochLog \in {Records(Completed), Records(Completed + 1)}
    /\ epochLog = Records(Completed + 1) => Completed < EpochCount
    /\ phase \in {"down", "ready", "orphan", "training", "logged", "refused"}
    /\ phase \in {"ready", "orphan", "training", "logged"} =>
          /\ session.device \in Devices
          /\ saved # NoState => session.device = saved.device
    /\ phase \in {"ready", "training"} => epochLog = Records(Completed)
    /\ phase \in {"orphan", "logged"} => epochLog = Records(Completed + 1)
    /\ phase \in {"ready", "orphan"} =>
          session = Trained(session.device, Completed * BatchCount)
    /\ phase = "training" =>
          /\ Completed < EpochCount
          /\ session.step \in Completed * BatchCount .. (Completed + 1) * BatchCount
          /\ session = Rated(session.device, session.step, LearningRate(Completed + 1))
    /\ phase = "logged" => session = Trained(session.device, (Completed + 1) * BatchCount)
    /\ RefusalsAreOwed

-----------------------------------------------------------------------------
(* A run of the solver.                                                    *)

LastValid == history[Len(history)]

\* The step of the k-th sample.
At(k) == config.warmup + k * config.interval

\* The samples are the first of the schedule, up to the last valid step and no further,
\* and each was inspected.
SamplesInv ==
    /\ history[1] = 0 /\ LastValid <= step
    /\ \A i \in DOMAIN samples : \E j \in DOMAIN history : history[j] = samples[i]
    /\ Len(samples) <= SampleCount(config)
    /\ \A k \in 1 .. Len(samples) : samples[k] = At(k)
    /\ \A k \in 1 .. SampleCount(config) :
          At(k) <= LastValid <=> k <= Len(samples)

\* The force history is the same until a step fails, and no sample was passed over.
GoingInv ==
    /\ forces = samples
    /\ Inspected(config, step) => LastValid = step /\ flow.health = "sound"
    /\ \A k \in 1 .. SampleCount(config) :
          At(k) <= step => k <= Len(samples)

\* A run that stopped says where.
StoppedInv ==
    /\ result \in Results
    /\ CompletedIsScheduled
    /\ result.kind = "stability" =>
          /\ flow.health # "sound" /\ result.samples = Len(samples)
          /\ result.last = IF history = <<>> THEN NoResult ELSE LastValid
          /\ history # <<>> => LastValid < result.steps

RunInv ==
    /\ LifecycleTypeOK /\ Schedules(config)
    /\ history = <<>> <=> step = -1
    /\ history = <<>> => samples = <<>> /\ forces = <<>>
    /\ history # <<>> => SamplesInv
    /\ result = NoResult /\ step >= 0 => GoingInv
    /\ result # NoResult => StoppedInv

-----------------------------------------------------------------------------
(* The launches of a stepper.                                              *)

\* The step of the n-th sample of a stepper.
DueAt(n) == Warmup + n * Every

\* The buffers of a device and the arrays of the oracle, by their fields.
Buffers(f, n, m, l, h) == [f |-> f, next |-> n, moments |-> m, links |-> l, forces |-> h]
Arrays(f, m, l, h) == [f |-> f, moments |-> m, links |-> l, forces |-> h]

\* The samples are those due so far, and one of the last step was taken over the pull.
DueInv ==
    LET n == Len(warp.forces) IN
    /\ \A k \in 1 .. n : warp.forces[k].step = DueAt(k) /\ warp.forces[k].links = obstacle
    /\ completed < DueAt(n + 1)
    /\ n >= 1 => DueAt(n) <= completed
    /\ n >= 1 /\ DueAt(n) = completed => warp.f[1] = "streamed" /\ warp.f[4] = warp.forces[n].of
    /\ IsFiniteSet({s \in 1 .. completed : Due(s)})
    /\ Cardinality({s \in 1 .. completed : Due(s)}) = n

LaunchInv ==
    /\ kind \in {"periodic", "channel", "obstacle"}
    /\ obstacle \subseteq Rows \X Columns
    /\ completed \in Nat \cup {-1}
    /\ MaskIsUploaded /\ SameFlow
    /\ warp = Buffers(warp.f, warp.next, warp.moments, obstacle, warp.forces)
    /\ oracle = Arrays(oracle.f, oracle.moments, obstacle, oracle.forces)
    /\ \E T : warp.forces \in Seq(T)
    /\ kind # "obstacle" \/ completed = -1 => warp.forces = <<>>
    /\ seed = 0 => warp.forces = oracle.forces
    /\ completed >= 0 /\ kind = "obstacle" => DueInv

\* What was picked is one of the inputs of its subject.
InputInv ==
    /\ Picked("mask") => input \in SUBSET ClearCells
    /\ Picked("node") => input \in [f : [Directions -> 0 .. 1], a : 0 .. 1]
    /\ Picked("shape") => input \in Shapes

IInv ==
    /\ subject \in Subjects
    /\ InputInv
    /\ subject = "solve" => RunInv
    /\ subject = "session" => SessionInv
    /\ subject = "launch" => LaunchInv

-----------------------------------------------------------------------------
(* The updates of an epoch.                                                *)

LEMMA ScaleFacts ==
    ASSUME NEW n \in Nat, precision \in {"bf16", "fp16"}
    PROVE  /\ Scale(n) \in Nat \cup {NoState}
           /\ Scale(n) = NoState <=> precision = "bf16"
           /\ (IF Scale(n) = NoState THEN NoState ELSE Scale(n) + 1) = Scale(n + 1)
  BY SessionAssumption DEF Scale

LEMMA EpochFacts ==
    ASSUME NEW k \in Nat, NEW n \in k * BatchCount .. (k + 1) * BatchCount - 1
    PROVE  /\ n \in Nat /\ EpochOf(n + 1) = k + 1
           /\ (n % BatchCount) = n - k * BatchCount
<1>1. k * BatchCount \in Nat /\ (k + 1) * BatchCount = k * BatchCount + BatchCount
  BY SessionAssumption, NextMultiple
<1>2. n - k * BatchCount \in 0 .. BatchCount - 1 /\ n = k * BatchCount + (n - k * BatchCount)
  BY <1>1, SessionAssumption
<1>3. n \div BatchCount = k /\ n % BatchCount = n - k * BatchCount
  BY <1>2, SessionAssumption, WholePart
<1> QED
  BY <1>1, <1>2, <1>3, SessionAssumption DEF EpochOf

LEMMA RateIsAnInteger == \A n \in Int : LearningRate(n) \in Int
  BY DEF LearningRate

\* A session is what its fields are, and one of them is changed at a time.
LEMMA SessionFields ==
    ASSUME NEW d, NEW i, NEW w, NEW m, NEW r, NEW s, NEW g, NEW n, NEW mode
    PROVE  LET x == SessionOf(d, i, w, m, r, s, g, n, mode) IN
           /\ x.device = d /\ x.precision = precision /\ x.initial = i /\ x.weights = w
           /\ x.moments = m /\ x.rate = r /\ x.scale = s /\ x.rng = g /\ x.step = n /\ x.mode = mode
           /\ \A v : [x EXCEPT !.initial = v] = SessionOf(d, v, w, m, r, s, g, n, mode)
           /\ \A v : [x EXCEPT !.weights = v] = SessionOf(d, i, v, m, r, s, g, n, mode)
           /\ \A v : [x EXCEPT !.moments = v] = SessionOf(d, i, w, v, r, s, g, n, mode)
           /\ \A v : [x EXCEPT !.rate = v] = SessionOf(d, i, w, m, v, s, g, n, mode)
           /\ \A v : [x EXCEPT !.scale = v] = SessionOf(d, i, w, m, r, v, g, n, mode)
           /\ \A v : [x EXCEPT !.rng = v] = SessionOf(d, i, w, m, r, s, v, n, mode)
           /\ \A v : [x EXCEPT !.step = v] = SessionOf(d, i, w, m, r, s, g, v, mode)
           /\ \A v : [x EXCEPT !.mode = v] = SessionOf(d, i, w, m, r, s, g, n, v)
  BY DEF SessionOf

\* A forward pass draws a random number in training mode.
LEMMA ForwardStep ==
    ASSUME NEW d, NEW i, NEW w, NEW m, NEW r, NEW s, NEW g, NEW n
    PROVE  /\ Forward(SessionOf(d, i, w, m, r, s, g, n, "train"))
                = SessionOf(d, i, w, m, r, s, g + 1, n, "train")
           /\ Forward(SessionOf(d, i, w, m, r, s, g, n, "eval"))
                = SessionOf(d, i, w, m, r, s, g, n, "eval")
<1> DEFINE x == SessionOf(d, i, w, m, r, s, g, n, "train")
           z == SessionOf(d, i, w, m, r, s, g, n, "eval")
<1>1. x.mode = "train" /\ x.rng = g /\ [x EXCEPT !.rng = g + 1] = SessionOf(d, i, w, m, r, s, g + 1, n, "train")
  BY SessionFields
<1>2. z.mode = "eval" /\ z.rng = g /\ [z EXCEPT !.rng = g] = z
  BY SessionFields
<1> HIDE DEF x, z
<1>3. Forward(x) = SessionOf(d, i, w, m, r, s, g + 1, n, "train") /\ Forward(z) = z
  BY <1>1, <1>2 DEF Forward
<1> QED
  BY <1>3 DEF x, z

\* A batch appends its update.
LEMMA UpdateStep ==
    ASSUME NEW d, NEW i, NEW w, NEW m, NEW r, NEW s, NEW g, NEW n, NEW b
    PROVE  Updated(SessionOf(d, i, w, m, r, s, g, n, "train"), b) =
                SessionOf(d, i, Append(w, [batch |-> b, rate |-> r, moments |-> m, scale |-> s,
                                           rng |-> g, device |-> d]),
                          m + 1, r, IF s = NoState THEN NoState ELSE s + 1, g + 1, n + 1, "train")
<1> DEFINE x == SessionOf(d, i, w, m, r, s, g, n, "train")
           y == SessionOf(d, i, w, m, r, s, g + 1, n, "train")
           l == Append(w, [batch |-> b, rate |-> r, moments |-> m, scale |-> s, rng |-> g, device |-> d])
           t == IF s = NoState THEN NoState ELSE s + 1
<1>1. Updated(x, b) = [[[[y EXCEPT !.weights = l] EXCEPT !.moments = m + 1] EXCEPT !.scale = t] EXCEPT !.step = n + 1]
  <2>1. /\ x.rate = r /\ x.moments = m /\ x.scale = s /\ x.rng = g /\ x.device = d
        /\ y.weights = w /\ y.moments = m /\ y.scale = s /\ y.step = n
        /\ Forward(x) = y
    BY SessionFields, ForwardStep
  <2> HIDE DEF x, y
  <2> QED
    BY <2>1 DEF Updated
<1> HIDE DEF l, t
<1>2. [y EXCEPT !.weights = l] = SessionOf(d, i, l, m, r, s, g + 1, n, "train")
  BY SessionFields
<1>3. [SessionOf(d, i, l, m, r, s, g + 1, n, "train") EXCEPT !.moments = m + 1]
         = SessionOf(d, i, l, m + 1, r, s, g + 1, n, "train")
  BY SessionFields
<1>4. [SessionOf(d, i, l, m + 1, r, s, g + 1, n, "train") EXCEPT !.scale = t]
         = SessionOf(d, i, l, m + 1, r, t, g + 1, n, "train")
  BY SessionFields
<1>5. [SessionOf(d, i, l, m + 1, r, t, g + 1, n, "train") EXCEPT !.step = n + 1]
         = SessionOf(d, i, l, m + 1, r, t, g + 1, n + 1, "train")
  BY SessionFields
<1>6. Updated(x, b) = SessionOf(d, i, l, m + 1, r, t, g + 1, n + 1, "train")
  BY <1>1, <1>2, <1>3, <1>4, <1>5
<1> QED
  BY <1>6 DEF l, t

\* An evaluation leaves everything as it was.
LEMMA ValidateStep ==
    ASSUME NEW d, NEW i, NEW w, NEW m, NEW r, NEW s, NEW g, NEW n
    PROVE  LET x == SessionOf(d, i, w, m, r, s, g, n, "train") IN Validated(x) = x
<1> DEFINE x == SessionOf(d, i, w, m, r, s, g, n, "train")
           z == SessionOf(d, i, w, m, r, s, g, n, "eval")
<1>1. [x EXCEPT !.mode = "eval"] = z /\ x.mode = "train" /\ [z EXCEPT !.mode = "train"] = x
  BY SessionFields
<1>2. Forward(z) = z
  BY ForwardStep
<1> HIDE DEF x, z
<1>3. Validated(x) = x
  BY <1>1, <1>2 DEF Validated
<1> QED
  BY <1>3 DEF x

\* One more batch of the epoch of the rate.
LEMMA OneMoreUpdate ==
    ASSUME precision \in {"bf16", "fp16"}, NEW d, NEW k \in Nat,
           NEW n \in k * BatchCount .. (k + 1) * BatchCount - 1
    PROVE  Updated(Rated(d, n, LearningRate(k + 1)), <<k, n - k * BatchCount>>)
               = Rated(d, n + 1, LearningRate(k + 1))
<1> DEFINE u == [batch |-> <<k, n - k * BatchCount>>, rate |-> LearningRate(k + 1), moments |-> n,
                 scale |-> Scale(n), rng |-> n + 1, device |-> d]
<1>1. n \in Nat /\ EpochOf(n + 1) = k + 1 /\ n % BatchCount = n - k * BatchCount
  BY EpochFacts
<1>2. (n + 1) - 1 = n /\ (k + 1) - 1 = k
  BY <1>1
<1>3. u = Update(d, n + 1)
  BY <1>1, <1>2 DEF Update
<1>4. Append(Weights(d, n), u) = Weights(d, n + 1)
  BY <1>1, <1>3 DEF Weights
<1>5. (IF Scale(n) = NoState THEN NoState ELSE Scale(n) + 1) = Scale(n + 1)
  BY <1>1, ScaleFacts
<1>6. Updated(Rated(d, n, LearningRate(k + 1)), <<k, n - k * BatchCount>>)
        = SessionOf(d, 0, Append(Weights(d, n), u), n + 1, LearningRate(k + 1),
                    IF Scale(n) = NoState THEN NoState ELSE Scale(n) + 1, n + 1 + 1, n + 1, "train")
  <2> DEFINE i == 0
             w == Weights(d, n)
             r == LearningRate(k + 1)
             s == Scale(n)
             g == n + 1
             b == <<k, n - k * BatchCount>>
  <2> HIDE DEF i, w, r, s, g, b
  <2>1. Updated(SessionOf(d, i, w, n, r, s, g, n, "train"), b)
           = SessionOf(d, i, Append(w, [batch |-> b, rate |-> r, moments |-> n, scale |-> s, rng |-> g, device |-> d]),
                       n + 1, r, IF s = NoState THEN NoState ELSE s + 1, g + 1, n + 1, "train")
    BY UpdateStep
  <2> QED
    BY <2>1 DEF Rated, i, w, r, s, g, b
<1> HIDE DEF u
<1> QED
  BY <1>4, <1>5, <1>6 DEF Rated

\* A checkpoint of the uninterrupted session is one.
LEMMA TrainedIsTyped ==
    ASSUME precision \in {"bf16", "fp16"}, NEW d \in Devices, NEW k \in Nat
    PROVE  Capture(Trained(d, k * BatchCount), k) \in Checkpoints
<1>1. k * BatchCount \in Nat
  BY SessionAssumption, NextMultiple
<1>2. ASSUME NEW i \in 1 .. k * BatchCount PROVE Update(d, i) \in Updates
  <2>1. i - 1 \in Nat /\ (i - 1) \div BatchCount \in Nat /\ (i - 1) % BatchCount \in Nat
    BY <1>1, SessionAssumption
  <2>2. EpochOf(i) \in Nat /\ EpochOf(i) - 1 \in Nat /\ LearningRate(EpochOf(i)) \in Int
    BY <2>1, RateIsAnInteger DEF EpochOf
  <2> QED
    BY <2>1, <2>2, ScaleFacts, <1>1 DEF Update, Updates
<1>3. Weights(d, k * BatchCount) \in Seq(Updates)
  BY <1>1, <1>2 DEF Weights
<1>4. (IF k * BatchCount = 0 THEN 40 ELSE LearningRate(EpochOf(k * BatchCount))) \in Int
  <2>1. ((k * BatchCount) - 1) \div BatchCount \in Int
    BY <1>1, SessionAssumption
  <2> QED
    BY <2>1, RateIsAnInteger DEF EpochOf
<1>5. Scale(k * BatchCount) \in Nat \cup {NoState}
  BY <1>1, ScaleFacts
<1> QED
  BY <1>1, <1>3, <1>4, <1>5, SessionFields DEF Capture, Trained, Rated, Checkpoints

\* What a checkpoint restores is what was captured, on the same device.
LEMMA RestoreStep ==
    ASSUME NEW d, NEW i, NEW w, NEW m, NEW r, NEW s, NEW g, NEW n, NEW k,
           NEW j, NEW u, NEW l, NEW q, NEW t, NEW h, NEW o
    PROVE  Restored(Capture(SessionOf(d, i, w, m, r, s, g, n, "train"), k),
                    SessionOf(d, j, u, l, q, t, h, o, "train"))
                = SessionOf(d, i, w, m, r, s, g, n, "train")
<1> DEFINE x == SessionOf(d, i, w, m, r, s, g, n, "train")
           y == SessionOf(d, j, u, l, q, t, h, o, "train")
           c == Capture(x, k)
<1>1. /\ c.model.initial = i /\ c.model.weights = w /\ c.optimizer.moments = m
      /\ c.optimizer.rate = r /\ c.scaler = s /\ c.rng = g /\ c.step = n
  BY SessionFields DEF Capture
<1>2. [y EXCEPT !.initial = i] = SessionOf(d, i, u, l, q, t, h, o, "train")
  BY SessionFields
<1>3. [SessionOf(d, i, u, l, q, t, h, o, "train") EXCEPT !.weights = w]
          = SessionOf(d, i, w, l, q, t, h, o, "train")
  BY SessionFields
<1>4. [SessionOf(d, i, w, l, q, t, h, o, "train") EXCEPT !.moments = m]
          = SessionOf(d, i, w, m, q, t, h, o, "train")
  BY SessionFields
<1>5. [SessionOf(d, i, w, m, q, t, h, o, "train") EXCEPT !.rate = r]
          = SessionOf(d, i, w, m, r, t, h, o, "train")
  BY SessionFields
<1>6. [SessionOf(d, i, w, m, r, t, h, o, "train") EXCEPT !.scale = s]
          = SessionOf(d, i, w, m, r, s, h, o, "train")
  BY SessionFields
<1>7. [SessionOf(d, i, w, m, r, s, h, o, "train") EXCEPT !.rng = g]
          = SessionOf(d, i, w, m, r, s, g, o, "train")
  BY SessionFields
<1>8. [SessionOf(d, i, w, m, r, s, g, o, "train") EXCEPT !.step = n] = x
  BY SessionFields
<1> HIDE DEF c, x, y
<1>9. Restored(c, y) = [[[[[[[y EXCEPT !.initial = i] EXCEPT !.weights = w] EXCEPT !.moments = m]
                            EXCEPT !.rate = r] EXCEPT !.scale = s] EXCEPT !.rng = g] EXCEPT !.step = n]
  BY <1>1 DEF Restored
<1>10. Restored(c, y) = x
  <2>1. [[[y EXCEPT !.initial = i] EXCEPT !.weights = w] EXCEPT !.moments = m]
            = SessionOf(d, i, w, m, q, t, h, o, "train")
    BY <1>2, <1>3, <1>4
  <2>2. Restored(c, y) = [[[[SessionOf(d, i, w, m, q, t, h, o, "train")
                            EXCEPT !.rate = r] EXCEPT !.scale = s] EXCEPT !.rng = g] EXCEPT !.step = n]
    BY <1>9, <2>1
  <2> QED
    BY <2>2, <1>5, <1>6, <1>7, <1>8
<1> QED
  BY <1>10 DEF c, x, y

\* A new process holds what the uninterrupted session starts from.
LEMMA FreshIsTrained ==
    ASSUME precision \in {"bf16", "fp16"}, NEW d, NEW e
    PROVE  Prepared(d, e) = Trained(d, 0)
<1>1. Weights(d, 0) = <<>>
  BY DEF Weights
<1>2. (IF precision = "fp16" THEN 0 ELSE NoState) = Scale(0)
  BY DEF Scale
<1> QED
  BY <1>1, <1>2 DEF Prepared, Seeded, Trained, Rated, SessionOf

\* The fields of a checkpoint of the uninterrupted session.
LEMMA CaptureFields ==
    ASSUME NEW d, NEW k \in Nat
    PROVE  LET c == Capture(Trained(d, k * BatchCount), k) IN
           /\ c.device = d /\ c.precision = precision /\ c.scheduler.next = k + 1
           /\ c.scaler = Scale(k * BatchCount) /\ c.optimizer.rate = c.scheduler.rate
  BY SessionFields DEF Capture, Trained, Rated

\* An epoch begins with its rate.
LEMMA TrainedFields ==
    ASSUME NEW d, NEW n
    PROVE  /\ Trained(d, n).device = d /\ Trained(d, n).step = n
           /\ \A v : [Trained(d, n) EXCEPT !.rate = v, !.mode = "train"] = Rated(d, n, v)
<1>1. ASSUME NEW r PROVE Rated(d, n, r).device = d /\ Rated(d, n, r).step = n
  BY SessionFields DEF Rated
<1>2. ASSUME NEW r, NEW v PROVE [Rated(d, n, r) EXCEPT !.rate = v, !.mode = "train"] = Rated(d, n, v)
  <2> DEFINE x == Rated(d, n, r)
             y == Rated(d, n, v)
  <2>1. [x EXCEPT !.rate = v] = y /\ [y EXCEPT !.mode = "train"] = y
    BY SessionFields DEF Rated
  <2> HIDE DEF x, y
  <2>2. [x EXCEPT !.rate = v, !.mode = "train"] = y
    BY <2>1
  <2> QED
    BY <2>2 DEF x, y
<1> QED
  BY <1>1, <1>2 DEF Trained

-----------------------------------------------------------------------------
(* The epoch log.                                                          *)

LEMMA RecordsFacts ==
    ASSUME NEW n \in Nat
    PROVE  /\ Len(Records(n)) = n /\ DOMAIN Records(n) = 1 .. n
           /\ n = 0 <=> Records(n) = <<>>
           /\ \A i \in 1 .. n :
                /\ Records(n)[i].epoch = i /\ Records(n)[i].batches = BatchCount
                /\ Records(n)[i].step = i * BatchCount
           /\ \A m \in Nat : Records(m) = Records(n) => m = n
           /\ \A m \in 0 .. n : SubSeq(Records(n), 1, m) = Records(m)
<1>1. \A k \in Nat : Len(Records(k)) = k /\ DOMAIN Records(k) = 1 .. k
  BY DEF Records
<1>2. \A m \in 0 .. n : SubSeq(Records(n), 1, m) = Records(m)
  BY DEF Records
<1>3. n = 0 <=> Records(n) = <<>>
  BY <1>1 DEF Records
<1>4. \A m \in Nat : Records(m) = Records(n) => m = n
  <2> HIDE DEF Records
  <2> QED
    BY <1>1
<1>5. \A i \in 1 .. n :
         /\ Records(n)[i].epoch = i /\ Records(n)[i].batches = BatchCount
         /\ Records(n)[i].step = i * BatchCount
  BY DEF Records
<1> QED
  BY <1>1, <1>2, <1>3, <1>4, <1>5

\* The record of the next epoch continues the log.
LEMMA OneMoreRecord ==
    ASSUME NEW n \in Nat, NEW s, s.step = (n + 1) * BatchCount, s.rate = LearningRate(n + 1)
    PROVE  Append(Records(n), EpochRecord(n + 1, s, BatchCount)) = Records(n + 1)
  BY DEF Records, EpochRecord

LEMMA RecordsAreValid ==
    ASSUME NEW n \in Nat
    PROVE  SequenceIsValid(Records(n))
<1> SUFFICES ASSUME NEW i \in 1 .. n
             PROVE  /\ Records(n)[i].epoch = i
                    /\ Records(n)[i].step = (IF i = 1 THEN 0 ELSE Records(n)[i - 1].step) + Records(n)[i].batches
  BY RecordsFacts DEF SequenceIsValid
<1>1. Records(n)[i].epoch = i /\ Records(n)[i].batches = BatchCount /\ Records(n)[i].step = i * BatchCount
  BY RecordsFacts
<1>2. i # 1 => Records(n)[i - 1].step = (i - 1) * BatchCount
  BY RecordsFacts
<1>3. i * BatchCount \in Nat /\ (i - 1) * BatchCount = i * BatchCount - BatchCount
  BY SessionAssumption, NextMultiple
<1> HIDE DEF Records
<1>4. CASE i = 1
  <2>1. 1 * BatchCount = BatchCount
    BY SessionAssumption
  <2> QED
    BY <1>1, <1>4, <2>1, SessionAssumption
<1>5. CASE i # 1
  BY <1>1, <1>2, <1>3, <1>5, SessionAssumption
<1> QED
  BY <1>4, <1>5

-----------------------------------------------------------------------------
(* The steps of a session.                                                 *)

\* What a step that keeps the precision keeps.
LEMMA SameTrained ==
    ASSUME UNCHANGED precision
    PROVE  /\ \A d, n, r : Rated(d, n, r)' = Rated(d, n, r)
           /\ \A d, n : Trained(d, n)' = Trained(d, n)
<1>1. ASSUME NEW d, NEW n, NEW r PROVE Rated(d, n, r)' = Rated(d, n, r)
  BY DEF Rated, SessionOf, Weights, Update, Scale
<1>2. \A d, n : Trained(d, n)' = Trained(d, n)
  BY <1>1 DEF Trained
<1> QED
  BY <1>1, <1>2

LEMMA TrainedIsRated ==
    ASSUME NEW d, NEW k \in Nat \ {0}
    PROVE  Trained(d, k * BatchCount) = Rated(d, k * BatchCount, LearningRate(k))
<1> DEFINE j == k - 1
<1>1. j \in Nat /\ j + 1 = k
  OBVIOUS
<1>2. /\ k * BatchCount \in Nat /\ k * BatchCount = j * BatchCount + BatchCount
      /\ j * BatchCount \in Nat
  BY <1>1, SessionAssumption, NextMultiple
<1> HIDE DEF j
<1> DEFINE p == k * BatchCount
           q == j * BatchCount
<1>3. p = q + BatchCount /\ p \in Nat /\ q \in Nat /\ (j + 1) * BatchCount = p
  BY <1>1, <1>2
<1>4. p - 1 \in q .. (j + 1) * BatchCount - 1 /\ p # 0
  <2> HIDE DEF p, q
  <2> QED
    BY <1>3, SessionAssumption
<1>5. EpochOf(p - 1 + 1) = j + 1
  BY <1>1, <1>4, EpochFacts
<1>6. p - 1 + 1 = p
  BY <1>3
<1>7. EpochOf(p) = k
  <2> HIDE DEF p
  <2> QED
    BY <1>1, <1>5, <1>6
<1> QED
  BY <1>4, <1>7 DEF Trained

\* What the invariant says of the checkpoint.
LEMMA SavedFacts ==
    ASSUME SessionInv
    PROVE  /\ Completed \in 0 .. EpochCount /\ Completed \in Nat /\ NextEpoch = Completed + 1
           /\ saved = NoState => Completed = 0
           /\ saved # NoState =>
                /\ saved.device \in Devices /\ Completed # 0
                /\ saved = Capture(Trained(saved.device, Completed * BatchCount), Completed)
                /\ saved \in Checkpoints
<1>1. CASE saved = NoState
  BY <1>1, SessionAssumption DEF Completed, NextEpoch
<1>2. CASE saved # NoState
  <2>1. PICK d \in Devices, k \in 1 .. EpochCount :
           saved = Capture(Trained(d, k * BatchCount), k) /\ saved \in Checkpoints
    BY <1>2 DEF SessionInv
  <2>2. saved.device = d /\ saved.scheduler.next = k + 1
    BY <2>1, CaptureFields
  <2>3. NextEpoch = k + 1 /\ Completed = k
    BY <1>2, <2>2 DEF NextEpoch, Completed
  <2> QED
    BY <1>2, <2>1, <2>2, <2>3, SessionAssumption
<1> QED
  BY <1>1, <1>2

\* A step that takes no checkpoint leaves what a checkpoint stands for.
LEMMA SameSaved ==
    ASSUME SessionInv, UNCHANGED <<precision, saved>>
    PROVE  /\ Completed' = Completed /\ NextEpoch' = NextEpoch
           /\ precision' \in {"bf16", "fp16"}
           /\ \/ saved' = NoState
              \/ \E d \in Devices, k \in 1 .. EpochCount :
                    saved' = Capture(Trained(d, k * BatchCount)', k) /\ saved' \in Checkpoints
<1>1. \A d, n : Trained(d, n)' = Trained(d, n)
  BY SameTrained
<1>2. Completed' = Completed /\ NextEpoch' = NextEpoch
  BY DEF Completed, NextEpoch
<1> QED
  BY <1>1, <1>2 DEF SessionInv

LEMMA InitSession == SessionInit => SessionInv
<1> SUFFICES ASSUME SessionInit PROVE SessionInv
  OBVIOUS
<1>1. Completed = 0 /\ epochLog = Records(0)
  BY RecordsFacts DEF SessionInit, Completed, NextEpoch
<1>2. Records(0) # Records(1)
  BY RecordsFacts
<1> QED
  BY <1>1, <1>2 DEF SessionInit, SessionInv, RefusalsAreOwed

LEMMA StartInv ==
    ASSUME SessionInv, NEW device \in Devices, StartProcess(device)
    PROVE  SessionInv'
<1> DEFINE fresh == Prepared(device, processes + 1)
           resumable == IF saved = NoState THEN epochLog = <<>> ELSE Restorable(saved, fresh)
           C == Completed
<1>1. /\ UNCHANGED <<precision, epochLog, saved>>
      /\ session' = IF saved = NoState \/ ~resumable THEN fresh ELSE Restored(saved, fresh)
      /\ phase' = IF resumable /\ Len(epochLog) = Completed THEN "ready"
                  ELSE IF resumable /\ Len(epochLog) = Completed + 1 THEN "orphan" ELSE "refused"
  BY DEF StartProcess
<1>2. precision \in {"bf16", "fp16"} /\ fresh = Trained(device, 0) /\ fresh.device = device
  <2>1. precision \in {"bf16", "fp16"} /\ fresh = Trained(device, 0)
    BY FreshIsTrained DEF SessionInv
  <2> QED
    BY <2>1, SessionFields DEF Trained, Rated
<1>3. C \in Nat /\ epochLog \in {Records(C), Records(C + 1)}
  BY SavedFacts DEF SessionInv
<1>4. /\ epochLog = Records(C) <=> Len(epochLog) = C
      /\ epochLog = Records(C + 1) <=> Len(epochLog) = C + 1
      /\ epochLog = <<>> => Len(epochLog) = 0
  <2>1. Len(Records(C)) = C /\ Len(Records(C + 1)) = C + 1
    BY <1>3, RecordsFacts
  <2> HIDE DEF C
  <2> QED
    BY <1>3, <2>1
<1>5. CASE saved = NoState
  <2>1. C = 0 /\ 0 * BatchCount = 0 /\ Trained(device, 0) = Trained(device, C * BatchCount)
    BY <1>5, SavedFacts, SessionAssumption
  <2>2. session' = Trained(device, C * BatchCount) /\ session'.device = device
    BY <1>1, <1>2, <1>5, <2>1
  <2>3. (phase' = "ready" /\ epochLog = Records(C)) \/ (phase' = "refused" /\ epochLog # <<>>)
    <3>1. resumable <=> epochLog = <<>>
      BY <1>5
    <3>2. CASE epochLog = <<>>
      <4>1. resumable /\ Len(epochLog) = C
        BY <1>4, <2>1, <3>1, <3>2
      <4> HIDE DEF resumable
      <4> QED
        BY <1>1, <1>4, <4>1
    <3>3. CASE epochLog # <<>>
      <4>1. ~resumable
        BY <3>1, <3>3
      <4> HIDE DEF resumable
      <4> QED
        BY <1>1, <3>3, <4>1
    <3> QED
      BY <3>2, <3>3
  <2> HIDE DEF C, fresh, resumable
  <2> QED
    BY <1>1, <2>2, <2>3, <1>5, SameSaved, SameTrained DEF SessionInv, RefusalsAreOwed, C
<1>6. CASE saved # NoState
  <2>1. /\ saved.device \in Devices
        /\ saved = Capture(Trained(saved.device, C * BatchCount), C)
    BY <1>6, SavedFacts
  <2>2. Restorable(saved, fresh) <=> device = saved.device
    <3>1. /\ saved.precision = precision
          /\ saved.scaler = Scale(C * BatchCount) /\ saved.optimizer.rate = saved.scheduler.rate
      BY <1>3, <2>1, CaptureFields
    <3>2. C * BatchCount \in Nat
      BY <1>3, SessionAssumption, NextMultiple
    <3>3. fresh.precision = precision /\ fresh.scale = Scale(0)
      BY <1>2, SessionFields DEF Trained, Rated
    <3>4. saved.scaler = NoState <=> fresh.scale = NoState
      BY <1>2, <3>1, <3>2, <3>3, ScaleFacts
    <3> QED
      BY <1>2, <3>1, <3>3, <3>4 DEF Restorable
  <2>3. CASE device = saved.device
    <3>1. session' = Restored(saved, fresh) /\ resumable
      BY <1>1, <1>6, <2>2, <2>3
    <3>2. Restored(saved, fresh) = Trained(device, C * BatchCount)
      BY <1>2, <2>1, <2>3, RestoreStep DEF Trained, Rated
    <3>3. session'.device = device
      BY <3>1, <3>2, SessionFields DEF Trained, Rated
    <3>4. (phase' = "ready" /\ epochLog = Records(C)) \/ (phase' = "orphan" /\ epochLog = Records(C + 1))
      <4> HIDE DEF resumable, fresh
      <4>1. CASE epochLog = Records(C)
        BY <1>1, <1>4, <3>1, <4>1
      <4>2. CASE epochLog = Records(C + 1)
        <5>1. Len(epochLog) = C + 1 /\ Len(epochLog) # C
          BY <1>3, <1>4, <4>2
        <5> QED
          BY <1>1, <3>1, <4>2, <5>1
      <4> QED
        BY <1>3, <4>1, <4>2
    <3> HIDE DEF C, fresh, resumable
    <3> QED
      BY <1>1, <2>3, <3>1, <3>2, <3>3, <3>4, <1>6, SameSaved, SameTrained DEF SessionInv, RefusalsAreOwed, C
  <2>4. CASE device # saved.device
    <3>1. phase' = "refused" /\ session'.device # saved.device
      BY <1>1, <1>2, <1>6, <2>2, <2>4
    <3> HIDE DEF C, fresh, resumable
    <3> QED
      BY <1>1, <3>1, <1>6, SameSaved, SameTrained DEF SessionInv, RefusalsAreOwed, C
  <2> QED
    BY <2>3, <2>4
<1> QED
  BY <1>5, <1>6

\* The log is one of two, which differ.
LEMMA LogFacts ==
    ASSUME SessionInv
    PROVE  /\ epochLog \in {Records(Completed), Records(Completed + 1)}
           /\ Records(Completed) # Records(Completed + 1)
           /\ Len(Records(Completed)) = Completed /\ Len(Records(Completed + 1)) = Completed + 1
           /\ SubSeq(epochLog, 1, Completed) = Records(Completed)
<1>1. Completed \in Nat
  BY SavedFacts
<1>2. /\ Records(Completed) # Records(Completed + 1)
      /\ SubSeq(Records(Completed), 1, Completed) = Records(Completed)
      /\ SubSeq(Records(Completed + 1), 1, Completed) = Records(Completed)
      /\ Len(Records(Completed)) = Completed /\ Len(Records(Completed + 1)) = Completed + 1
  <2> DEFINE C == Completed
  <2>1. C \in 0 .. C + 1 /\ C \in 0 .. C /\ C + 1 \in Nat /\ C # C + 1
    BY <1>1
  <2> HIDE DEF C
  <2>2. /\ Records(C) # Records(C + 1)
        /\ SubSeq(Records(C), 1, C) = Records(C) /\ SubSeq(Records(C + 1), 1, C) = Records(C)
        /\ Len(Records(C)) = C /\ Len(Records(C + 1)) = C + 1
    BY <2>1, RecordsFacts
  <2> QED
    BY <2>2 DEF C
<1> QED
  BY <1>2 DEF SessionInv

LEMMA RollbackInv == SessionInv /\ RollbackTail => SessionInv'
<1> SUFFICES ASSUME SessionInv, RollbackTail PROVE SessionInv'
  OBVIOUS
<1>1. /\ epochLog' = Records(Completed) /\ phase = "orphan" /\ phase' = "ready"
      /\ UNCHANGED <<precision, session, saved>>
  BY LogFacts DEF RollbackTail
<1>2. Records(Completed) # Records(Completed + 1)
  BY LogFacts
<1> QED
  BY <1>1, <1>2, SameSaved, SameTrained DEF SessionInv, RefusalsAreOwed

LEMMA BeginInv == SessionInv /\ BeginEpoch => SessionInv'
<1> SUFFICES ASSUME SessionInv, BeginEpoch PROVE SessionInv'
  OBVIOUS
<1> DEFINE C == Completed
           d == session.device
<1>1. /\ C \in Nat /\ NextEpoch = C + 1 /\ NextEpoch <= EpochCount /\ phase = "ready"
      /\ session = Trained(d, C * BatchCount) /\ epochLog = Records(C)
      /\ UNCHANGED <<precision, epochLog, saved>>
  BY SavedFacts DEF SessionInv, BeginEpoch
<1>2. C * BatchCount \in Nat /\ session.step = C * BatchCount /\ (C + 1) * BatchCount = C * BatchCount + BatchCount
  <2>1. C * BatchCount \in Nat /\ (C + 1) * BatchCount = C * BatchCount + BatchCount
    BY <1>1, SessionAssumption, NextMultiple
  <2>2. Trained(d, C * BatchCount).step = C * BatchCount
    BY TrainedFields
  <2> HIDE DEF C, d
  <2> QED
    BY <1>1, <2>1, <2>2
<1>3. Continues(session, NextEpoch, epochLog)
  <2>1. Len(epochLog) = C /\ (C = 0 <=> epochLog = <<>>)
    BY <1>1, RecordsFacts
  <2>2. C # 0 => epochLog[Len(epochLog)].step = C * BatchCount
    BY <1>1, <2>1, RecordsFacts
  <2>3. C = 0 => C * BatchCount = 0
    BY SessionAssumption
  <2> HIDE DEF C
  <2> QED
    BY <1>1, <1>2, <2>1, <2>2, <2>3 DEF Continues
<1>4. phase' = "training" /\ session' = [session EXCEPT !.rate = LearningRate(C + 1), !.mode = "train"]
  BY <1>1, <1>3 DEF BeginEpoch
<1>5. session' = Rated(d, C * BatchCount, LearningRate(C + 1))
  <2> HIDE DEF C, d
  <2> QED
    BY <1>1, <1>4, TrainedFields
<1>6. session'.device = d /\ session'.step = C * BatchCount
  BY <1>5, SessionFields DEF Rated
<1>7. C * BatchCount \in C * BatchCount .. (C + 1) * BatchCount /\ C < EpochCount
  BY <1>1, <1>2, SessionAssumption
<1>8. epochLog' = Records(C) /\ Records(C) # Records(C + 1)
  BY <1>1, LogFacts
<1>9. d \in Devices /\ (saved # NoState => d = saved.device)
  BY <1>1 DEF SessionInv
<1> HIDE DEF d, C
<1> QED
  BY <1>1, <1>4, <1>5, <1>6, <1>7, <1>8, <1>9, SameSaved, SameTrained DEF SessionInv, RefusalsAreOwed, C

LEMMA BatchInv == SessionInv /\ TrainBatch => SessionInv'
<1> SUFFICES ASSUME SessionInv, TrainBatch PROVE SessionInv'
  OBVIOUS
<1> DEFINE C == Completed
           d == session.device
           n == session.step
<1>1. /\ C \in Nat /\ NextEpoch = C + 1 /\ phase = "training" /\ phase' = "training"
      /\ n - C * BatchCount < BatchCount
      /\ session' = Updated(session, <<NextEpoch - 1, n - C * BatchCount>>)
      /\ UNCHANGED <<precision, epochLog, saved>>
  BY SavedFacts DEF TrainBatch, Done
<1>2. /\ C < EpochCount /\ n \in C * BatchCount .. (C + 1) * BatchCount
      /\ session = Rated(d, n, LearningRate(C + 1)) /\ epochLog = Records(C)
      /\ d \in Devices /\ (saved # NoState => d = saved.device)
      /\ precision \in {"bf16", "fp16"}
  BY <1>1 DEF SessionInv
<1>3. C * BatchCount \in Nat /\ (C + 1) * BatchCount = C * BatchCount + BatchCount
  BY <1>1, SessionAssumption, NextMultiple
<1>4. n \in C * BatchCount .. (C + 1) * BatchCount - 1 /\ NextEpoch - 1 = C
  BY <1>1, <1>2, <1>3, SessionAssumption
<1> HIDE DEF C, d, n
<1>5. session' = Rated(d, n + 1, LearningRate(C + 1))
  BY <1>1, <1>2, <1>4, OneMoreUpdate
<1>6. session'.device = d /\ session'.step = n + 1
  BY <1>5, SessionFields DEF Rated
<1>7. n + 1 \in C * BatchCount .. (C + 1) * BatchCount
  <2> DEFINE p == C * BatchCount
             q == (C + 1) * BatchCount
  <2>1. p \in Nat /\ q = p + BatchCount /\ n \in p .. q - 1
    BY <1>3, <1>4
  <2> HIDE DEF p, q
  <2>2. n + 1 \in p .. q
    BY <2>1, SessionAssumption
  <2> QED
    BY <2>2 DEF p, q
<1>8. epochLog' = Records(C) /\ Records(C) # Records(C + 1)
  BY <1>1, <1>2, LogFacts DEF C
<1> QED
  BY <1>1, <1>2, <1>5, <1>6, <1>7, <1>8, SameSaved, SameTrained DEF SessionInv, RefusalsAreOwed, C

LEMMA RecordInv == SessionInv /\ AppendRecord => SessionInv'
<1> SUFFICES ASSUME SessionInv, AppendRecord PROVE SessionInv'
  OBVIOUS
<1> DEFINE C == Completed
           d == session.device
<1>1. /\ C \in Nat /\ NextEpoch = C + 1 /\ phase = "training" /\ session.step - C * BatchCount = BatchCount
      /\ UNCHANGED <<precision, session, saved>>
  BY SavedFacts DEF AppendRecord, Done
<1>2. /\ C < EpochCount /\ session.step \in C * BatchCount .. (C + 1) * BatchCount
      /\ session = Rated(d, session.step, LearningRate(C + 1)) /\ epochLog = Records(C)
      /\ d \in Devices /\ (saved # NoState => d = saved.device)
  BY <1>1 DEF SessionInv
<1>3. C * BatchCount \in Nat /\ (C + 1) * BatchCount = C * BatchCount + BatchCount
  BY <1>1, SessionAssumption, NextMultiple
<1>4. session.step = (C + 1) * BatchCount
  BY <1>1, <1>2, <1>3, SessionAssumption
<1>5. session.rate = LearningRate(C + 1)
  <2>1. Rated(d, session.step, LearningRate(C + 1)).rate = LearningRate(C + 1)
    BY SessionFields DEF Rated
  <2> QED
    BY <1>2, <2>1
<1>6. Append(epochLog, EpochRecord(NextEpoch, session, BatchCount)) = Records(C + 1)
  BY <1>1, <1>2, <1>4, <1>5, OneMoreRecord
<1>7. SequenceIsValid(Records(C + 1))
  BY <1>1, RecordsAreValid
<1>8. epochLog' = Records(C + 1) /\ phase' = "logged"
  BY <1>6, <1>7 DEF AppendRecord
<1>9. session = Trained(d, (C + 1) * BatchCount)
  BY <1>1, <1>2, <1>4, TrainedIsRated
<1>10. Records(C) # Records(C + 1)
  BY LogFacts
<1> HIDE DEF C
<1> QED
  BY <1>1, <1>2, <1>8, <1>9, <1>10, SameSaved, SameTrained DEF SessionInv, RefusalsAreOwed, C

LEMMA CheckpointInv == SessionInv /\ Checkpointed => SessionInv'
<1> SUFFICES ASSUME SessionInv, Checkpointed PROVE SessionInv'
  OBVIOUS
<1> DEFINE C == Completed
           d == session.device
<1>1. /\ C \in Nat /\ NextEpoch = C + 1 /\ phase = "logged" /\ phase' = "ready"
      /\ saved' = Capture(session, NextEpoch) /\ session' = Validated(session)
      /\ UNCHANGED <<precision, epochLog>>
  BY SavedFacts DEF Checkpointed
<1>2. /\ session = Trained(d, (C + 1) * BatchCount) /\ epochLog = Records(C + 1)
      /\ d \in Devices /\ precision \in {"bf16", "fp16"} /\ C < EpochCount
  BY <1>1 DEF SessionInv
<1>3. session' = session
  <2> HIDE DEF C, d
  <2> QED
    BY <1>1, <1>2, ValidateStep DEF Trained, Rated
<1>4. saved' = Capture(Trained(d, (C + 1) * BatchCount), C + 1) /\ saved' \in Checkpoints
  <2> HIDE DEF C, d
  <2>1. C + 1 \in Nat
    BY <1>1
  <2> QED
    BY <1>1, <1>2, <2>1, TrainedIsTyped
<1>5. saved'.device = d /\ saved'.scheduler.next = C + 1 + 1
  <2> HIDE DEF C, d
  <2>1. C + 1 \in Nat
    BY <1>1
  <2> QED
    BY <1>4, <2>1, CaptureFields
<1>6. saved' # NoState
  BY <1>4, SessionAssumption
<1>7. Completed' = C + 1
  <2> HIDE DEF C
  <2> QED
    BY <1>1, <1>5, <1>6 DEF Completed, NextEpoch
<1>8. Records(C + 1) # Records(C + 1 + 1)
  <2>1. C + 1 \in Nat /\ C + 1 + 1 \in Nat /\ C + 1 # C + 1 + 1
    BY <1>1
  <2> HIDE DEF C
  <2> QED
    BY <2>1, RecordsFacts
<1>9. C + 1 \in 1 .. EpochCount
  BY <1>1, <1>2, SessionAssumption
<1> HIDE DEF C
<1> QED
  BY <1>1, <1>2, <1>3, <1>4, <1>5, <1>6, <1>7, <1>8, <1>9, SameTrained DEF SessionInv, RefusalsAreOwed

LEMMA KilledInv == SessionInv /\ Killed => SessionInv'
<1> SUFFICES ASSUME SessionInv, Killed PROVE SessionInv'
  OBVIOUS
<1>1. /\ phase' = "down" /\ epochLog' \in {epochLog, Records(Completed)}
      /\ UNCHANGED <<precision, saved>>
  BY LogFacts DEF Killed
<1>2. Records(Completed) # Records(Completed + 1)
  BY LogFacts
<1> QED
  BY <1>1, <1>2, SameSaved DEF SessionInv, RefusalsAreOwed

LEMMA SessionSteps == SessionInv /\ [SessionNext]_sessionVars => SessionInv'
<1> SUFFICES ASSUME SessionInv, [SessionNext]_sessionVars PROVE SessionInv'
  OBVIOUS
<1>1. CASE UNCHANGED sessionVars
  <2>1. UNCHANGED <<precision, phase, session, epochLog, saved>>
    BY <1>1 DEF sessionVars
  <2> QED
    BY <2>1, SameSaved, SameTrained DEF SessionInv, RefusalsAreOwed
<1> QED
  BY <1>1, StartInv, RollbackInv, BeginInv, BatchInv, RecordInv, CheckpointInv, KilledInv DEF SessionNext

-----------------------------------------------------------------------------
(* The closed form is what the uninterrupted session computes.             *)

\* A number lies between two multiples of a positive one.
LEMMA Divided ==
    ASSUME NEW n \in Nat
    PROVE  /\ n \div BatchCount \in Nat
           /\ n \in (n \div BatchCount) * BatchCount .. (n \div BatchCount + 1) * BatchCount - 1
<1>1. /\ n \div BatchCount \in Nat /\ n % BatchCount \in 0 .. BatchCount - 1
      /\ n = BatchCount * (n \div BatchCount) + (n % BatchCount)
  BY SessionAssumption
<1> DEFINE k == n \div BatchCount
           r == n % BatchCount
<1>2. k * BatchCount \in Nat /\ (k + 1) * BatchCount = k * BatchCount + BatchCount /\ BatchCount * k = k * BatchCount
  BY <1>1, SessionAssumption, NextMultiple
<1> DEFINE p == k * BatchCount
           q == (k + 1) * BatchCount
<1>3. p \in Nat /\ q = p + BatchCount /\ n = p + r /\ r \in 0 .. BatchCount - 1
  BY <1>1, <1>2
<1>4. n \in p .. q - 1
  <2> HIDE DEF p, q, r
  <2> QED
    BY <1>3, SessionAssumption
<1> QED
  BY <1>1, <1>4

LEMMA OneMoreStep ==
    ASSUME precision \in {"bf16", "fp16"}, NEW d, NEW n \in Nat
    PROVE  LET epoch == n \div BatchCount + 1 IN
           Updated([Trained(d, n) EXCEPT !.rate = LearningRate(epoch)], <<epoch - 1, n % BatchCount>>)
               = Trained(d, n + 1)
<1> DEFINE k == n \div BatchCount
<1>1. k \in Nat /\ n \in k * BatchCount .. (k + 1) * BatchCount - 1
  BY Divided
<1> HIDE DEF k
<1>2. EpochOf(n + 1) = k + 1 /\ n % BatchCount = n - k * BatchCount /\ (k + 1) - 1 = k /\ n + 1 # 0
  BY <1>1, EpochFacts
<1>3. [Trained(d, n) EXCEPT !.rate = LearningRate(k + 1)] = Rated(d, n, LearningRate(k + 1))
  <2>1. ASSUME NEW r, NEW v PROVE [Rated(d, n, r) EXCEPT !.rate = v] = Rated(d, n, v)
    BY SessionFields DEF Rated
  <2> QED
    BY <2>1 DEF Trained
<1>4. Updated(Rated(d, n, LearningRate(k + 1)), <<k, n - k * BatchCount>>) = Rated(d, n + 1, LearningRate(k + 1))
  BY <1>1, OneMoreUpdate
<1>5. Trained(d, n + 1) = Rated(d, n + 1, LearningRate(k + 1))
  BY <1>2 DEF Trained
<1>6. Updated([Trained(d, n) EXCEPT !.rate = LearningRate(k + 1)], <<(k + 1) - 1, n % BatchCount>>) = Trained(d, n + 1)
  BY <1>2, <1>3, <1>4, <1>5
<1> QED
  BY <1>6 DEF k

\* The recursion of the uninterrupted session, which the closed form satisfies.
StepOf(d, f, n) ==
    IF n = 0 THEN Prepared(d, 1)
    ELSE LET epoch == (n - 1) \div BatchCount + 1 IN
         Updated([f[n - 1] EXCEPT !.rate = LearningRate(epoch)], <<epoch - 1, (n - 1) % BatchCount>>)

LEMMA UninterruptedUnfolds ==
    ASSUME precision \in {"bf16", "fp16"}, NEW d
    PROVE  \A n \in 0 .. EpochCount * BatchCount :
              Uninterrupted(d)[n] = StepOf(d, Uninterrupted(d), n)
<1> DEFINE h == [n \in 0 .. EpochCount * BatchCount |-> Trained(d, n)]
<1>1. EpochCount * BatchCount \in Nat
  BY SessionAssumption, NextMultiple
<1>2. ASSUME NEW n \in 0 .. EpochCount * BatchCount PROVE h[n] = StepOf(d, h, n)
  <2>1. CASE n = 0
    BY <1>1, <2>1, FreshIsTrained DEF StepOf
  <2>2. CASE n # 0
    <3>1. n - 1 \in 0 .. EpochCount * BatchCount /\ n - 1 \in Nat /\ n - 1 + 1 = n
      BY <1>1, <2>2
    <3>2. h[n - 1] = Trained(d, n - 1) /\ h[n] = Trained(d, n)
      BY <3>1
    <3> HIDE DEF h
    <3>3. LET epoch == (n - 1) \div BatchCount + 1 IN
          Updated([Trained(d, n - 1) EXCEPT !.rate = LearningRate(epoch)], <<epoch - 1, (n - 1) % BatchCount>>)
               = Trained(d, n)
      <4> DEFINE m == n - 1
      <4> HIDE DEF m
      <4>1. m \in Nat /\ m + 1 = n
        BY <3>1 DEF m
      <4>2. LET epoch == m \div BatchCount + 1 IN
            Updated([Trained(d, m) EXCEPT !.rate = LearningRate(epoch)], <<epoch - 1, m % BatchCount>>)
               = Trained(d, m + 1)
        BY <4>1, OneMoreStep
      <4> QED
        BY <4>1, <4>2 DEF m
    <3> QED
      BY <2>2, <3>2, <3>3 DEF StepOf
  <2> QED
    BY <2>1, <2>2
<1>3. h = [n \in 0 .. EpochCount * BatchCount |-> StepOf(d, h, n)]
  BY <1>2
<1> DEFINE IsRun(f) == f = [n \in 0 .. EpochCount * BatchCount |-> StepOf(d, f, n)]
<1>4. Uninterrupted(d) = CHOOSE f : IsRun(f)
  BY DEF Uninterrupted, StepOf
<1>5. IsRun(Uninterrupted(d))
  <2> HIDE DEF h
  <2> QED
    BY <1>3, <1>4
<1> QED
  BY <1>5

Smaller == {p \in Nat \X Nat : p[1] < p[2]}

\* A set of numbers has a least one.
LEMMA Least ==
    ASSUME NEW S \in SUBSET Nat, S # {}
    PROVE  \E m \in S : \A n \in S : m <= n
<1>1. IsWellFoundedOn(Smaller, Nat)
  BY NatLessThanWellFounded DEF OpToRel, Smaller
<1>2. PICK m \in S : \A n \in S : <<n, m>> \notin Smaller
  BY <1>1, WFMin
<1>3. ASSUME NEW n \in S PROVE m <= n
  <2>1. <<n, m>> \in Nat \X Nat /\ <<n, m>>[1] = n /\ <<n, m>>[2] = m
    OBVIOUS
  <2> QED
    BY <1>2, <2>1 DEF Smaller
<1> QED
  BY <1>3

\* The first batch after which they would differ is none.
LEMMA UninterruptedIsTrained ==
    ASSUME precision \in {"bf16", "fp16"}, NEW d, NEW n \in 0 .. EpochCount * BatchCount
    PROVE  Uninterrupted(d)[n] = Trained(d, n)
<1> DEFINE Apart == {m \in 0 .. EpochCount * BatchCount : Uninterrupted(d)[m] # Trained(d, m)}
<1>1. EpochCount * BatchCount \in Nat
  BY SessionAssumption, NextMultiple
<1> SUFFICES ASSUME Apart # {} PROVE FALSE
  OBVIOUS
<1>2. PICK m \in Apart : \A k \in Apart : m <= k
  <2>1. Apart \in SUBSET Nat
    BY <1>1
  <2> HIDE DEF Apart
  <2> QED
    BY <2>1, Least
<1>3. Uninterrupted(d)[m] = StepOf(d, Uninterrupted(d), m) /\ m \in Nat
  BY <1>1, UninterruptedUnfolds
<1>4. CASE m = 0
  BY <1>2, <1>3, <1>4, FreshIsTrained DEF StepOf
<1>5. CASE m # 0
  <2> DEFINE j == m - 1
  <2>1. j \in 0 .. EpochCount * BatchCount /\ j \in Nat /\ j + 1 = m /\ j < m
    BY <1>1, <1>3, <1>5
  <2>2. Uninterrupted(d)[j] = Trained(d, j)
    BY <1>2, <2>1
  <2>3. StepOf(d, Uninterrupted(d), m) =
           LET epoch == j \div BatchCount + 1 IN
           Updated([Trained(d, j) EXCEPT !.rate = LearningRate(epoch)], <<epoch - 1, j % BatchCount>>)
    BY <1>5, <2>2 DEF StepOf
  <2> HIDE DEF j
  <2>4. StepOf(d, Uninterrupted(d), m) = Trained(d, m)
    BY <2>1, <2>3, OneMoreStep
  <2> QED
    BY <1>2, <1>3, <2>4
<1> QED
  BY <1>4, <1>5

\* What the runs check of a session.
LEMMA SessionsAreExact == SessionInv => ResumesAreExact /\ RefusalsAreOwed
<1> SUFFICES ASSUME SessionInv, phase = "ready" PROVE ResumesAreExact
  BY DEF SessionInv, ResumesAreExact
<1>1. /\ session = Trained(session.device, Completed * BatchCount)
      /\ epochLog = Records(Completed) /\ precision \in {"bf16", "fp16"}
  BY DEF SessionInv
<1>2. Completed * BatchCount \in 0 .. EpochCount * BatchCount
  <2>1. Completed \in Nat /\ EpochCount \in Nat /\ Completed <= EpochCount /\ BatchCount \in Nat
    BY SavedFacts, SessionAssumption
  <2>2. \A a, b, c \in Nat : a <= b => a * c <= b * c /\ a * c \in Nat /\ b * c \in Nat
    OBVIOUS
  <2> QED
    BY <2>1, <2>2
<1>3. Uninterrupted(session.device)[Completed * BatchCount] = Trained(session.device, Completed * BatchCount)
  BY <1>1, <1>2, UninterruptedIsTrained
<1> QED
  BY <1>1, <1>3 DEF ResumesAreExact, Records

-----------------------------------------------------------------------------
(* The schedule of the samples.                                            *)

LEMMA ConfigFacts ==
    ASSUME config \in Configs
    PROVE  config.steps \in Nat \ {0} /\ config.warmup \in Nat /\ config.interval \in Nat \ {0}
  BY LifecycleAssumption DEF Configs

\* Later samples are taken at later steps, an interval apart.
LEMMA LaterSamples ==
    ASSUME config \in Configs, NEW k \in Nat, NEW l \in Nat
    PROVE  /\ At(k) \in Nat /\ At(k + 1) = At(k) + config.interval
           /\ k <= l <=> At(k) <= At(l)
           /\ k >= 1 => At(k) > config.warmup
<1>1. config.warmup \in Nat /\ config.interval \in Nat \ {0}
  BY ConfigFacts
<1> QED
  BY <1>1, Spaced DEF At

\* The schedule fills the window after the warmup, and the next sample would be too late.
LEMMA ScheduleFacts ==
    ASSUME config \in Configs, Schedules(config)
    PROVE  /\ SampleCount(config) \in Nat \ {0}
           /\ At(SampleCount(config)) <= config.steps
           /\ config.steps < At(SampleCount(config) + 1)
           /\ SampleSteps(config) = [k \in 1 .. SampleCount(config) |-> At(k)]
           /\ \A s : Sampled(config, s) <=> \E k \in 1 .. SampleCount(config) : At(k) = s
<1> DEFINE n == SampleCount(config)
           d == config.steps - config.warmup
           i == config.interval
<1>1. d \in Nat /\ i \in Nat \ {0}
  BY ConfigFacts, LifecycleAssumption DEF Schedules
<1>2. n \in Nat \ {0}
  BY <1>1, LifecycleAssumption DEF Schedules, SampleCount
<1>3. n = d \div i /\ d = i * n + (d % i) /\ d % i \in 0 .. i - 1
  <2>1. n = d \div i
    BY DEF SampleCount
  <2>2. d = i * (d \div i) + (d % i) /\ d % i \in 0 .. i - 1
    <3> HIDE DEF d, i
    <3> QED
      BY <1>1, Division
  <2> HIDE DEF n, d, i
  <2> QED
    BY <2>1, <2>2
<1>4. n * i = i * n /\ n * i \in Nat
  BY <1>1, <1>2
<1>5. At(n) <= config.steps /\ config.steps < At(n) + i
  <2> DEFINE p == n * i
             r == d % i
  <2>1. d = p + r /\ r \in 0 .. i - 1 /\ p \in Nat
    BY <1>3, <1>4
  <2>2. config.steps \in Nat /\ config.warmup \in Nat /\ d = config.steps - config.warmup
    BY ConfigFacts
  <2> HIDE DEF p, r, d, i
  <2>3. config.warmup + p <= config.steps /\ config.steps < config.warmup + p + i
    BY <1>1, <2>1, <2>2
  <2> QED
    BY <2>3 DEF At, p, i
<1>6. At(n + 1) = At(n) + i
  BY <1>2, LaterSamples
<1>7. SampleSteps(config) = [k \in 1 .. n |-> At(k)]
  BY DEF SampleSteps, At
<1> QED
  BY <1>2, <1>5, <1>6, <1>7 DEF Sampled

\* The stepper's own test of the schedule, and the schedule, agree at every step of a run.
LEMMA DueIsSampled ==
    ASSUME config \in Configs, Schedules(config), NEW s \in 1 .. config.steps
    PROVE  SampleDue(config, s) <=> Sampled(config, s)
<1>1. config.interval \in Nat \ {0} /\ config.warmup \in Nat /\ config.steps \in Nat /\ s \in Nat
  BY ConfigFacts
<1>2. SampleDue(config, s) <=> \E k \in Nat \ {0} : At(k) = s
  <2> DEFINE w == config.warmup
             i == config.interval
  <2>1. w \in Nat /\ i \in Nat \ {0} /\ s \in Nat
    BY <1>1
  <2>2. s > w /\ (s - w) % i = 0 <=> \E k \in Nat \ {0} : w + k * i = s
    <3> HIDE DEF w, i
    <3> QED
      BY <2>1, DueStep
  <2> QED
    BY <2>2 DEF SampleDue, At
<1>3. SampleCount(config) \in Nat \ {0} /\ config.steps < At(SampleCount(config) + 1)
  BY ScheduleFacts
<1>4. ASSUME NEW k \in Nat \ {0}, At(k) = s PROVE k \in 1 .. SampleCount(config)
  <2>1. SampleCount(config) + 1 \in Nat
    BY <1>3
  <2>2. /\ At(SampleCount(config) + 1) \in Nat
        /\ SampleCount(config) + 1 <= k <=> At(SampleCount(config) + 1) <= At(k)
    BY <2>1, LaterSamples
  <2>3. ~ (SampleCount(config) + 1 <= k)
    BY <1>1, <1>3, <1>4, <2>2
  <2> QED
    BY <1>3, <2>3
<1>5. \A k \in 1 .. SampleCount(config) : k \in Nat \ {0}
  BY <1>3
<1> QED
  BY <1>2, <1>4, <1>5, ScheduleFacts

-----------------------------------------------------------------------------
(* The steps of a run.                                                     *)

LEMMA InitRun == Init => RunInv
  BY ConfigFacts, LifecycleAssumption DEF Init, RunInv, LifecycleTypeOK

\* What holds of a run that is going on after its initial inspection.
LEMMA GoingFacts ==
    ASSUME RunInv, result = NoResult, step # -1
    PROVE  /\ config \in Configs /\ Schedules(config) /\ step \in 0 .. config.steps
           /\ history # <<>> /\ Len(history) \in Nat \ {0} /\ LastValid \in 0 .. config.steps
           /\ SamplesInv /\ GoingInv
           /\ Len(samples) \in Nat /\ samples = [k \in 1 .. Len(samples) |-> At(k)]
           /\ \A k \in 1 .. SampleCount(config) : At(k) <= step <=> k <= Len(samples)
<1>1. /\ config \in Configs /\ Schedules(config) /\ step \in 0 .. config.steps
      /\ history # <<>> /\ SamplesInv /\ GoingInv
  <2>1. step \in -1 .. config.steps /\ config.steps \in Nat
    BY ConfigFacts DEF RunInv, LifecycleTypeOK
  <2>2. step \in 0 .. config.steps /\ step >= 0
    BY <2>1
  <2> QED
    BY <2>2 DEF RunInv, LifecycleTypeOK
<1>2. history \in Seq(0 .. config.steps) /\ samples \in Seq(1 .. config.steps) /\ config.steps \in Nat
  BY ConfigFacts DEF RunInv, LifecycleTypeOK
<1>3. Len(history) \in Nat \ {0} /\ LastValid \in 0 .. config.steps
  BY <1>1, <1>2 DEF LastValid
<1>4. Len(samples) \in Nat /\ samples = [k \in 1 .. Len(samples) |-> At(k)]
  <2>1. samples = [k \in 1 .. Len(samples) |-> samples[k]] /\ Len(samples) \in Nat
    BY <1>2
  <2> QED
    BY <1>1, <2>1 DEF SamplesInv
<1>5. ASSUME NEW k \in 1 .. SampleCount(config) PROVE At(k) <= step <=> k <= Len(samples)
  <2>1. k \in Nat /\ At(k) \in Nat
    BY <1>1, ScheduleFacts, LaterSamples
  <2> QED
    BY <1>1, <1>3, <2>1 DEF SamplesInv, GoingInv
<1> QED
  BY <1>1, <1>3, <1>4, <1>5

\* A failure is a result, with the evidence that stands then.
LEMMA FailureFacts ==
    ASSUME RunInv, NEW name \in {"stability", "convergence"}, NEW s \in Nat, NEW taken, Len(taken) \in Nat
    PROVE  /\ Failure(name, s, taken) \in Results
           /\ Failure(name, s, taken).kind = name /\ Failure(name, s, taken).steps = s
           /\ Failure(name, s, taken).samples = Len(taken)
           /\ Failure(name, s, taken).last = IF history = <<>> THEN NoResult ELSE LastValid
           /\ Failure(name, s, taken) # NoResult
<1>1. history = <<>> \/ LastValid \in Nat
  BY ConfigFacts DEF RunInv, LifecycleTypeOK, LastValid
<1> QED
  BY <1>1, LifecycleAssumption DEF Failure, Results, LastValid

\* A stopped run that failed a step: what it says of the rest is not asked.
LEMMA StoppedByFailure ==
    ASSUME RunInv, result' = Failure("stability", step', samples), step' \in Nat,
           history' = history, samples' = samples, flow' \in Flows, flow'.health # "sound",
           history # <<>> => LastValid < step', Len(samples) \in Nat
    PROVE  StoppedInv' /\ result' # NoResult
<1>1. /\ result' \in Results /\ result'.kind = "stability" /\ result'.steps = step'
      /\ result'.samples = Len(samples) /\ result' # NoResult
      /\ result'.last = IF history = <<>> THEN NoResult ELSE LastValid
  BY FailureFacts
<1> QED
  BY <1>1 DEF StoppedInv, CompletedIsScheduled, LastValid

LEMMA InspectInitialInv == RunInv /\ InspectInitial => RunInv'
<1> SUFFICES ASSUME RunInv, InspectInitial PROVE RunInv'
  OBVIOUS
<1>1. /\ history = <<>> /\ samples = <<>> /\ forces = <<>> /\ result = NoResult
      /\ step = -1 /\ config \in Configs /\ Schedules(config) /\ flow \in Flows
      /\ config' = config /\ flow' = flow /\ samples' = samples /\ forces' = forces
  BY DEF RunInv, InspectInitial, LifecycleTypeOK
<1>2. config.steps \in Nat \ {0} /\ SampleCount(config) \in Nat
  BY <1>1, ConfigFacts, ScheduleFacts
<1>3. CASE flow.health = "sound"
  <2>1. step' = 0 /\ history' = <<0>> /\ result' = NoResult
    BY <1>1, <1>3 DEF InspectInitial
  <2>2. history' # <<>> /\ LastValid' = 0 /\ history'[1] = 0
    BY <2>1 DEF LastValid
  <2>3. ASSUME NEW k \in 1 .. SampleCount(config) PROVE At(k) \in Nat /\ At(k) > 0 /\ At(k)' = At(k)
    <3>1. At(k)' = At(k)
      BY <1>1 DEF At
    <3>2. k \in Nat /\ k >= 1 /\ config.warmup \in Nat
      BY <1>1, <1>2, ConfigFacts
    <3>3. At(k) \in Nat /\ At(k) > config.warmup
      BY <1>1, <3>2, LaterSamples
    <3> QED
      BY <3>1, <3>2, <3>3
  <2>4. SamplesInv'
    BY <1>1, <1>2, <2>1, <2>2, <2>3 DEF SamplesInv
  <2>5. GoingInv'
    BY <1>1, <1>2, <1>3, <2>1, <2>2, <2>3 DEF GoingInv
  <2>6. LifecycleTypeOK'
    BY <1>1, <1>2, <2>1 DEF LifecycleTypeOK
  <2> QED
    BY <1>1, <2>1, <2>2, <2>4, <2>5, <2>6 DEF RunInv
<1>4. CASE flow.health # "sound"
  <2>1. step' = -1 /\ history' = <<>> /\ result' = Failure("stability", 0, samples)
    BY <1>1, <1>4 DEF InspectInitial
  <2>2. /\ result' \in Results /\ result'.kind = "stability" /\ result'.steps = 0
        /\ result'.samples = Len(samples) /\ result' # NoResult /\ result'.last = NoResult
    BY <1>1, <2>1, FailureFacts
  <2>3. StoppedInv'
    BY <1>1, <1>4, <2>1, <2>2 DEF StoppedInv, CompletedIsScheduled
  <2>4. LifecycleTypeOK'
    BY <1>1, <1>2, <2>1, <2>2 DEF LifecycleTypeOK
  <2> QED
    BY <1>1, <2>1, <2>2, <2>3, <2>4 DEF RunInv
<1> QED
  BY <1>3, <1>4

LEMMA AdvanceRaisesInv == RunInv /\ AdvanceRaises => RunInv'
<1> SUFFICES ASSUME RunInv, AdvanceRaises PROVE RunInv'
  OBVIOUS
<1>1. /\ result = NoResult /\ step \in 0 .. config.steps - 1 /\ step' = step + 1
      /\ config' = config /\ history' = history /\ samples' = samples /\ forces' = forces
      /\ result' = Failure("stability", step', samples)
      /\ flow' \in Flows /\ flow'.health # "sound"
  BY DEF AdvanceRaises
<1>2. config \in Configs /\ config.steps \in Nat
  BY ConfigFacts DEF RunInv, LifecycleTypeOK
<1>3. /\ history # <<>> /\ LastValid \in Nat /\ SamplesInv /\ Len(samples) \in Nat /\ LastValid <= step
      /\ Schedules(config) /\ history' # <<>>
  BY <1>1, <1>2, GoingFacts DEF SamplesInv
<1>4. step' \in 1 .. config.steps /\ LastValid < step' /\ step' \in Nat
  BY <1>1, <1>2, <1>3
<1>5. StoppedInv' /\ result' # NoResult
  BY <1>1, <1>3, <1>4, StoppedByFailure
<1>6. SamplesInv'
  BY <1>1, <1>2, <1>3, <1>4 DEF SamplesInv, LastValid, At
<1>7. LifecycleTypeOK'
  <2>1. result'.kind = "stability"
    BY <1>1, <1>3, <1>4, FailureFacts
  <2> QED
    BY <1>1, <1>2, <1>4, <2>1 DEF RunInv, LifecycleTypeOK
<1> QED
  BY <1>1, <1>2, <1>3, <1>4, <1>5, <1>6, <1>7 DEF RunInv

\* The next step is the next sample of the schedule, or none of it.
LEMMA NextSample ==
    ASSUME RunInv, result = NoResult, step \in 0 .. config.steps - 1
    PROVE  /\ Sampled(config, step + 1) =>
                 /\ Len(samples) + 1 \in 1 .. SampleCount(config) /\ At(Len(samples) + 1) = step + 1
                 /\ \A k \in 1 .. SampleCount(config) : At(k) <= step + 1 <=> k <= Len(samples) + 1
           /\ ~Sampled(config, step + 1) =>
                 \A k \in 1 .. SampleCount(config) : At(k) <= step + 1 <=> k <= Len(samples)
           /\ SampleDue(config, step + 1) <=> Sampled(config, step + 1)
<1>1. /\ config \in Configs /\ Schedules(config) /\ config.steps \in Nat
      /\ Len(samples) \in Nat /\ SampleCount(config) \in Nat /\ step # -1
      /\ \A k \in 1 .. SampleCount(config) : At(k) <= step <=> k <= Len(samples)
  BY GoingFacts, ConfigFacts, ScheduleFacts DEF RunInv, LifecycleTypeOK
<1>2. \A k \in 1 .. SampleCount(config) : k \in Nat /\ At(k) \in Nat
  BY <1>1, LaterSamples
<1>3. ASSUME Sampled(config, step + 1)
      PROVE  /\ Len(samples) + 1 \in 1 .. SampleCount(config) /\ At(Len(samples) + 1) = step + 1
             /\ \A k \in 1 .. SampleCount(config) : At(k) <= step + 1 <=> k <= Len(samples) + 1
  <2>1. PICK k \in 1 .. SampleCount(config) : At(k) = step + 1
    BY <1>1, <1>3, ScheduleFacts
  <2>2. k \in Nat /\ k > Len(samples)
    BY <1>1, <1>2, <2>1
  <2>3. ASSUME k = 1 PROVE k = Len(samples) + 1
    BY <1>1, <2>2, <2>3
  <2>4. ASSUME k # 1 PROVE k = Len(samples) + 1
    <3>1. k - 1 \in 1 .. SampleCount(config) /\ k - 1 \in Nat /\ k - 1 + 1 = k
      BY <1>1, <2>1, <2>2, <2>4
    <3>2. At(k - 1) \in Nat /\ At(k) = At(k - 1) + config.interval /\ config.interval \in Nat \ {0}
      BY <1>1, <3>1, LaterSamples, ConfigFacts
    <3>3. At(k - 1) <= step
      BY <1>1, <2>1, <3>2
    <3> QED
      BY <1>1, <2>2, <3>1, <3>3
  <2>5. k = Len(samples) + 1
    BY <2>3, <2>4
  <2>6. ASSUME NEW j \in 1 .. SampleCount(config) PROVE At(j) <= At(k) <=> j <= k
    BY <1>1, <1>2, <2>2, LaterSamples
  <2> QED
    BY <2>1, <2>5, <2>6
<1>4. ASSUME ~Sampled(config, step + 1), NEW k \in 1 .. SampleCount(config)
      PROVE  At(k) <= step + 1 <=> k <= Len(samples)
  <2>1. At(k) # step + 1
    BY <1>1, <1>4, ScheduleFacts
  <2> QED
    BY <1>1, <1>2, <2>1
<1>5. step + 1 \in 1 .. config.steps
  BY <1>1
<1> QED
  BY <1>1, <1>3, <1>4, <1>5, DueIsSampled

LEMMA OneMore ==
    ASSUME NEW T, NEW q \in Seq(T), NEW e \in T
    PROVE  /\ Append(q, e) \in Seq(T) /\ Append(q, e) # <<>>
           /\ Len(q) \in Nat /\ Len(Append(q, e)) = Len(q) + 1
           /\ DOMAIN q = 1 .. Len(q) /\ DOMAIN Append(q, e) = 1 .. Len(q) + 1
           /\ \A i \in 1 .. Len(q) : Append(q, e)[i] = q[i]
           /\ Append(q, e)[Len(q) + 1] = e
  BY AppendProperties

LEMMA AdvanceInv == RunInv /\ Advance => RunInv'
<1> SUFFICES ASSUME RunInv, Advance PROVE RunInv'
  OBVIOUS
<1> DEFINE s == step + 1
           due == Inspected(config, s)
           sound == due /\ flow'.health = "sound"
           m == Len(samples)
<1>1. /\ result = NoResult /\ step \in 0 .. config.steps - 1 /\ step' = s /\ config' = config
      /\ flow' \in Flows
      /\ forces' = IF SampleDue(config, s) THEN Append(forces, s) ELSE forces
      /\ history' = IF sound THEN Append(history, s) ELSE history
      /\ samples' = IF sound /\ Sampled(config, s) THEN Append(samples, s) ELSE samples
      /\ result' = IF due /\ ~sound THEN Failure("stability", s, samples') ELSE NoResult
  BY DEF Advance, Added
<1>2. config \in Configs /\ config.steps \in Nat /\ Schedules(config) /\ SampleCount(config) \in Nat
  BY ConfigFacts, ScheduleFacts DEF RunInv, LifecycleTypeOK
<1>3. /\ history # <<>> /\ Len(history) \in Nat \ {0} /\ LastValid \in Nat /\ LastValid <= step
      /\ SamplesInv /\ GoingInv /\ m \in Nat /\ samples = [k \in 1 .. m |-> At(k)]
  BY <1>1, <1>2, GoingFacts DEF SamplesInv
<1>4. /\ history \in Seq(0 .. config.steps) /\ samples \in Seq(1 .. config.steps)
      /\ forces \in Seq(1 .. config.steps) /\ forces = samples
  BY <1>3 DEF RunInv, LifecycleTypeOK, GoingInv
<1>5. s \in 1 .. config.steps /\ s \in Nat /\ step \in Nat /\ s = step + 1
  BY <1>1, <1>2
<1>6. /\ Sampled(config, s) =>
            /\ m + 1 \in 1 .. SampleCount(config) /\ At(m + 1) = s
            /\ \A k \in 1 .. SampleCount(config) : At(k) <= s <=> k <= m + 1
      /\ ~Sampled(config, s) => \A k \in 1 .. SampleCount(config) : At(k) <= s <=> k <= m
      /\ SampleDue(config, s) <=> Sampled(config, s)
      /\ Sampled(config, s) => due
  BY <1>1, NextSample DEF Inspected
<1>7. /\ \A k : At(k)' = At(k)
      /\ SampleCount(config)' = SampleCount(config) /\ Schedules(config)'
      /\ Inspected(config, step)' <=> due
  <2>1. config' = config /\ step' = s
    BY <1>1
  <2>2. Inspected(config, step)' <=> Inspected(config', step')
    BY DEF Inspected, Sampled, SampleSteps, SampleCount
  <2>3. SampleCount(config)' = SampleCount(config') /\ (Schedules(config)' <=> Schedules(config'))
    BY DEF SampleCount, Schedules
  <2> QED
    BY <1>2, <2>1, <2>2, <2>3 DEF At
<1> HIDE DEF s, due, m
<1>8. CASE sound
  <2>1. /\ history' = Append(history, s) /\ result' = NoResult /\ flow'.health = "sound"
        /\ samples' = IF Sampled(config, s) THEN Append(samples, s) ELSE samples
        /\ forces' = samples'
    BY <1>1, <1>4, <1>6, <1>8
  <2>2. /\ history' # <<>> /\ LastValid' = s /\ history'[1] = 0 /\ history' \in Seq(0 .. config.steps)
        /\ \A j \in DOMAIN history : j \in DOMAIN history' /\ history'[j] = history[j]
        /\ Len(history') \in DOMAIN history'
    <3>1. s \in 0 .. config.steps
      BY <1>5
    <3>2. /\ history' \in Seq(0 .. config.steps) /\ history' # <<>> /\ Len(history') = Len(history) + 1
          /\ DOMAIN history = 1 .. Len(history) /\ DOMAIN history' = 1 .. Len(history) + 1
          /\ \A j \in 1 .. Len(history) : history'[j] = history[j]
          /\ history'[Len(history) + 1] = s
      BY <1>4, <2>1, <3>1, OneMore
    <3>3. history[1] = 0
      BY <1>3 DEF SamplesInv
    <3> QED
      BY <1>3, <3>2, <3>3 DEF LastValid
  <2>3. ASSUME NEW i \in DOMAIN samples' PROVE \E j \in DOMAIN history' : history'[j] = samples'[i]
    <3>1. CASE i \in DOMAIN samples /\ samples'[i] = samples[i]
      <4>1. PICK j \in DOMAIN history : history[j] = samples[i]
        BY <1>3, <3>1 DEF SamplesInv
      <4> QED
        BY <2>2, <3>1, <4>1
    <3>2. CASE samples'[i] = s
      BY <2>2, <3>2 DEF LastValid
    <3>3. CASE Sampled(config, s)
      <4>1. i \in 1 .. Len(samples) + 1 /\ Len(samples) \in Nat /\ DOMAIN samples = 1 .. Len(samples)
        BY <1>4, <1>5, <2>1, <2>3, <3>3, OneMore
      <4>2. i \in 1 .. Len(samples) => samples'[i] = samples[i]
        BY <1>4, <1>5, <2>1, <3>3, OneMore
      <4>3. i = Len(samples) + 1 => samples'[i] = s
        BY <1>4, <1>5, <2>1, <3>3, OneMore
      <4> QED
        BY <3>1, <3>2, <4>1, <4>2, <4>3
    <3> QED
      BY <2>1, <2>3, <3>1, <3>3
  <2>4. /\ Len(samples') = IF Sampled(config, s) THEN m + 1 ELSE m
        /\ samples' \in Seq(1 .. config.steps)
    BY <1>4, <1>5, <2>1, OneMore DEF m
  <2>5. ASSUME NEW k \in 1 .. Len(samples') PROVE samples'[k] = At(k)
    <3>1. CASE k \in 1 .. m
      <4>1. samples'[k] = samples[k]
        BY <1>4, <1>5, <2>1, <3>1, OneMore DEF m
      <4> QED
        BY <1>3, <3>1, <4>1
    <3>2. CASE k = m + 1 /\ Sampled(config, s)
      <4>1. samples'[k] = s
        BY <1>4, <1>5, <2>1, <3>2, OneMore DEF m
      <4> QED
        BY <1>6, <3>2, <4>1
    <3> QED
      BY <1>3, <2>4, <2>5, <3>1, <3>2
  <2>6. Len(samples') <= SampleCount(config)
    BY <1>2, <1>3, <1>6, <2>4 DEF SamplesInv, m
  <2>7. \A k \in 1 .. SampleCount(config) : At(k) <= s <=> k <= Len(samples')
    BY <1>6, <2>4
  <2>8. SamplesInv'
    <3>1. \A k \in 1 .. Len(samples') : samples'[k] = At(k)'
      BY <1>7, <2>5
    <3>2. \A k \in 1 .. SampleCount(config)' : At(k)' <= LastValid' <=> k <= Len(samples')
      BY <1>7, <2>2, <2>7
    <3>3. LastValid' <= step' /\ Len(samples') <= SampleCount(config)'
      BY <1>1, <1>5, <1>7, <2>2, <2>6
    <3> QED
      BY <2>2, <2>3, <3>1, <3>2, <3>3 DEF SamplesInv
  <2>9. GoingInv'
    BY <1>1, <1>7, <2>1, <2>2, <2>7 DEF GoingInv
  <2>10. LifecycleTypeOK'
    <3>1. config' = config /\ step' \in -1 .. config.steps
      BY <1>1, <1>2, <1>5
    <3> QED
      BY <1>1, <1>2, <2>1, <2>2, <2>4, <3>1 DEF LifecycleTypeOK
  <2> QED
    BY <1>1, <1>5, <1>7, <2>1, <2>2, <2>8, <2>9, <2>10 DEF RunInv
<1>9. CASE due /\ ~sound
  <2>1. /\ history' = history /\ samples' = samples /\ flow'.health # "sound" /\ step' = s
        /\ result' = Failure("stability", step', samples)
    BY <1>1, <1>9
  <2>2. StoppedInv' /\ result' # NoResult
    <3>1. step' \in Nat /\ LastValid < step' /\ flow' \in Flows /\ Len(samples) \in Nat
      BY <1>1, <1>3, <1>5 DEF m
    <3> QED
      BY <2>1, <3>1, StoppedByFailure
  <2>3. result'.kind = "stability"
    BY <1>3, <1>5, <2>1, FailureFacts DEF m
  <2>4. SamplesInv'
    BY <1>1, <1>3, <1>5, <1>7, <2>1 DEF SamplesInv, LastValid
  <2>5. LifecycleTypeOK'
    <3>1. forces' \in Seq(1 .. config.steps)
      <4>1. Append(forces, s) \in Seq(1 .. config.steps)
        BY <1>4, <1>5, OneMore
      <4> QED
        BY <1>1, <1>4, <4>1
    <3> QED
      BY <1>1, <1>2, <1>4, <1>5, <2>1, <2>3, <3>1 DEF LifecycleTypeOK
  <2> QED
    BY <1>1, <1>3, <1>5, <1>7, <2>1, <2>2, <2>4, <2>5 DEF RunInv
<1>10. CASE ~due
  <2>1. /\ history' = history /\ samples' = samples /\ forces' = forces /\ result' = NoResult
        /\ step' = s /\ ~Sampled(config, s)
    BY <1>1, <1>6, <1>10
  <2>2. SamplesInv'
    BY <1>1, <1>3, <1>5, <1>7, <2>1 DEF SamplesInv, LastValid
  <2>3. GoingInv'
    BY <1>1, <1>4, <1>6, <1>7, <1>10, <2>1 DEF GoingInv, m
  <2>4. LifecycleTypeOK'
    BY <1>1, <1>2, <1>4, <1>5, <2>1 DEF LifecycleTypeOK
  <2> QED
    BY <1>1, <1>3, <1>5, <1>7, <2>1, <2>2, <2>3, <2>4 DEF RunInv
<1> QED
  BY <1>8, <1>9, <1>10

\* A run that comes to its last step has inspected it, and has taken every sample.
LEMMA FinishInv == RunInv /\ Finish => RunInv'
<1> SUFFICES ASSUME RunInv, Finish PROVE RunInv'
  OBVIOUS
<1> DEFINE n == SampleCount(config)
<1>1. /\ result = NoResult /\ step = config.steps
      /\ UNCHANGED <<config, step, flow, history, samples, forces>>
      /\ result' = IF Len(samples) # n THEN [kind |-> "internal"]
                   ELSE IF flow.drifted THEN Failure("convergence", step, samples)
                   ELSE [kind |-> "completed", steps |-> step, samples |-> Len(samples),
                         strouhal |-> Strouhal, means |-> Cardinality(MeanForceSamples)]
  BY DEF Finish
<1>2. /\ config \in Configs /\ config.steps \in Nat \ {0} /\ Schedules(config) /\ step # -1
      /\ flow \in Flows
  BY <1>1, ConfigFacts DEF RunInv, LifecycleTypeOK
<1>3. /\ n \in Nat \ {0} /\ At(n) <= config.steps /\ SampleSteps(config) = [k \in 1 .. n |-> At(k)]
  BY <1>2, ScheduleFacts
<1>4. /\ history # <<>> /\ SamplesInv /\ GoingInv /\ Len(samples) \in Nat
      /\ samples = [k \in 1 .. Len(samples) |-> At(k)]
      /\ \A k \in 1 .. n : At(k) <= step <=> k <= Len(samples)
  BY <1>1, <1>2, GoingFacts
<1>5. Inspected(config, step) /\ LastValid = config.steps /\ flow.health = "sound"
  BY <1>1, <1>4 DEF Inspected, GoingInv
<1>6. Len(samples) = n
  BY <1>1, <1>3, <1>4 DEF SamplesInv
<1> HIDE DEF n
<1>7. samples = SampleSteps(config) /\ forces = samples /\ Len(forces) = n
  BY <1>3, <1>4, <1>6 DEF GoingInv
<1>8. Strouhal \in {"insufficient_samples", "spectrum"}
  <2>1. ASSUME NEW i \in 1 .. Len(forces) - 1 PROVE forces[i + 1] - forces[i] = config.interval
    <3>1. i \in 1 .. n /\ i + 1 \in 1 .. n /\ i \in Nat
      BY <1>3, <1>7
    <3>2. forces[i] = At(i) /\ forces[i + 1] = At(i + 1)
      BY <1>3, <1>7, <3>1
    <3>3. At(i) \in Nat /\ At(i + 1) = At(i) + config.interval /\ config.interval \in Nat
      BY <1>2, <3>1, LaterSamples, ConfigFacts
    <3> QED
      BY <3>2, <3>3
  <2> QED
    BY <2>1 DEF Strouhal
<1>9. Cardinality(MeanForceSamples) \in Nat /\ Cardinality(MeanForceSamples) >= 1
  <2>1. DOMAIN forces = 1 .. n
    BY <1>3, <1>7
  <2>2. IsFiniteSet(MeanForceSamples)
    <3>1. IsFiniteSet(1 .. n)
      BY <1>3, FS_Interval
    <3>2. MeanForceSamples \subseteq 1 .. n
      BY <2>1 DEF MeanForceSamples
    <3> QED
      BY <3>1, <3>2, FS_Subset
  <2>3. Len(forces) \in MeanForceSamples
    <3>1. forces[n] = At(n) /\ At(n) \in Nat
      BY <1>2, <1>3, <1>7, LaterSamples
    <3> QED
      BY <1>3, <1>7, <2>1, <3>1, LifecycleAssumption DEF MeanForceSamples
  <2>4. Cardinality(MeanForceSamples) \in Nat /\ Cardinality(MeanForceSamples) # 0
    BY <2>2, <2>3, FS_CardinalityType, FS_EmptySet
  <2> QED
    BY <2>4
<1>10. flow.drifted => StoppedInv' /\ result' # NoResult /\ result'.kind = "convergence"
  <2> SUFFICES ASSUME flow.drifted
               PROVE  StoppedInv' /\ result' # NoResult /\ result'.kind = "convergence"
    OBVIOUS
  <2>1. result' = Failure("convergence", step, samples)
    BY <1>1, <1>6
  <2>2. step \in Nat /\ Len(samples) \in Nat
    BY <1>1, <1>2, <1>4
  <2>3. result' \in Results /\ result'.kind = "convergence" /\ result' # NoResult
    <3>1. "convergence" \in {"stability", "convergence"}
      OBVIOUS
    <3>2. /\ Failure("convergence", step, samples) \in Results
          /\ Failure("convergence", step, samples).kind = "convergence"
          /\ Failure("convergence", step, samples) # NoResult
      BY <2>2, <3>1, FailureFacts
    <3> QED
      BY <2>1, <3>2
  <2> QED
    BY <2>3 DEF StoppedInv, CompletedIsScheduled
<1>11. ~flow.drifted => StoppedInv' /\ result' # NoResult /\ result'.kind = "completed"
  <2> SUFFICES ASSUME ~flow.drifted
               PROVE  StoppedInv' /\ result' # NoResult /\ result'.kind = "completed"
    OBVIOUS
  <2>1. result' = [kind |-> "completed", steps |-> step, samples |-> n,
                   strouhal |-> Strouhal, means |-> Cardinality(MeanForceSamples)]
    BY <1>1, <1>6
  <2>2. result' \in Results
    BY <1>1, <1>2, <1>3, <1>8, <1>9, <2>1 DEF Results
  <2>3. /\ result'.kind = "completed" /\ result'.strouhal # "irregular_sampling" /\ result'.means >= 1
        /\ result' # NoResult
    BY <1>8, <1>9, <2>1, <2>2, LifecycleAssumption
  <2>4. CompletedIsScheduled'
    <3>1. (SampleSteps(config) = samples)'
      BY <1>1, <1>7 DEF SampleSteps, SampleCount
    <3>2. history[1] = 0 /\ history[Len(history)] = config.steps
      BY <1>4, <1>5 DEF SamplesInv, LastValid
    <3>3. \A i \in DOMAIN samples : \E j \in DOMAIN history : history[j] = samples[i]
      BY <1>4 DEF SamplesInv
    <3>4. step' = config'.steps /\ flow'.health = "sound" /\ ~flow'.drifted /\ forces' = samples'
      BY <1>1, <1>5, <1>7
    <3>5. /\ history'[1] = 0 /\ history'[Len(history')] = config'.steps
          /\ \A i \in DOMAIN samples' : \E j \in DOMAIN history' : history'[j] = samples'[i]
      BY <1>1, <3>2, <3>3
    <3> QED
      BY <2>3, <3>1, <3>4, <3>5 DEF CompletedIsScheduled
  <2> QED
    BY <2>2, <2>3, <2>4 DEF StoppedInv
<1>12. StoppedInv' /\ result' # NoResult /\ result'.kind \in {"convergence", "completed"}
  BY <1>10, <1>11, <1>2
<1>13. SamplesInv' /\ Schedules(config)'
  BY <1>1, <1>2, <1>4 DEF SamplesInv, Schedules, SampleCount, LastValid, At
<1>14. LifecycleTypeOK'
  BY <1>1, <1>12 DEF RunInv, LifecycleTypeOK
<1> QED
  BY <1>1, <1>2, <1>4, <1>12, <1>13, <1>14 DEF RunInv

LEMMA RunSteps == RunInv /\ [Next]_solveVars => RunInv'
<1>1. ASSUME RunInv, UNCHANGED solveVars PROVE RunInv'
  <2>1. /\ config' = config /\ step' = step /\ flow' = flow /\ history' = history
        /\ samples' = samples /\ forces' = forces /\ result' = result
    BY <1>1 DEF solveVars
  <2>2. LifecycleTypeOK' /\ Schedules(config)'
    BY <1>1, <2>1 DEF RunInv, LifecycleTypeOK, Schedules, SampleCount
  <2>3. SamplesInv => SamplesInv'
    BY <2>1 DEF SamplesInv, LastValid, At, SampleCount
  <2>4. GoingInv => GoingInv'
    BY <2>1 DEF GoingInv, LastValid, At, SampleCount, Inspected, Sampled, SampleSteps
  <2>5. StoppedInv => StoppedInv'
    BY <2>1 DEF StoppedInv, CompletedIsScheduled, LastValid, SampleSteps, SampleCount
  <2> QED
    BY <1>1, <2>1, <2>2, <2>3, <2>4, <2>5 DEF RunInv
<1> QED
  BY <1>1, InspectInitialInv, AdvanceRaisesInv, AdvanceInv, FinishInv DEF Next

\* What the runs check of a solve.
LEMMA RunsAreScheduled == RunInv => LifecycleTypeOK /\ CompletedIsScheduled /\ FailureIsLocated
<1> SUFFICES ASSUME RunInv PROVE CompletedIsScheduled /\ FailureIsLocated
  BY DEF RunInv
<1>1. CompletedIsScheduled
  BY DEF RunInv, StoppedInv, CompletedIsScheduled
<1>2. ASSUME result # NoResult, result.kind = "stability" PROVE FailureIsLocated
  <2> DEFINE Seen == {k \in 1 .. SampleCount(config) :
                         history # <<>> /\ SampleSteps(config)[k] <= result.last}
  <2>1. /\ flow.health # "sound" /\ result.samples = Len(samples)
        /\ result.last = IF history = <<>> THEN NoResult ELSE LastValid
        /\ history # <<>> => LastValid < result.steps
    BY <1>2 DEF RunInv, StoppedInv
  <2>2. /\ config \in Configs /\ Schedules(config) /\ samples \in Seq(1 .. config.steps)
        /\ history # <<>> => LastValid \in Nat
    BY ConfigFacts DEF RunInv, LifecycleTypeOK, LastValid
  <2>3. SampleSteps(config) = [k \in 1 .. SampleCount(config) |-> At(k)] /\ SampleCount(config) \in Nat
    BY <2>2, ScheduleFacts
  <2>4. Len(samples) \in Nat
    BY <2>2
  <2>5. Cardinality(Seen) = Len(samples)
    <3>1. CASE history = <<>>
      <4>1. Seen = {} /\ samples = <<>>
        BY <3>1 DEF RunInv
      <4> HIDE DEF Seen
      <4> QED
        BY <4>1, FS_EmptySet
    <3>2. CASE history # <<>>
      <4>1. SamplesInv
        BY <3>2 DEF RunInv
      <4>2. Seen = {k \in 1 .. SampleCount(config) : At(k) <= LastValid}
        BY <2>1, <2>3, <3>2
      <4>3. Seen = 1 .. Len(samples)
        BY <2>3, <2>4, <4>1, <4>2 DEF SamplesInv
      <4> HIDE DEF Seen
      <4>4. Cardinality(1 .. Len(samples)) = Len(samples)
        BY <2>4, FS_Interval
      <4> QED
        BY <4>3, <4>4
    <3> QED
      BY <3>1, <3>2
  <2>6. result.last = NoResult <=> history = <<>>
    BY <2>1, <2>2, LifecycleAssumption
  <2> QED
    BY <2>1, <2>5, <2>6 DEF FailureIsLocated, LastValid
<1>3. ~(result # NoResult /\ result.kind = "stability") => FailureIsLocated
  BY DEF FailureIsLocated
<1> QED
  BY <1>1, <1>2, <1>3

-----------------------------------------------------------------------------
(* The launches of a stepper.                                              *)

LEMMA BufferFields ==
    ASSUME NEW f, NEW n, NEW m, NEW l, NEW h, NEW x
    PROVE  /\ Buffers(f, n, m, l, h).f = f /\ Buffers(f, n, m, l, h).next = n
           /\ Buffers(f, n, m, l, h).moments = m /\ Buffers(f, n, m, l, h).links = l
           /\ Buffers(f, n, m, l, h).forces = h
           /\ [Buffers(f, n, m, l, h) EXCEPT !.f = x] = Buffers(x, n, m, l, h)
           /\ [Buffers(f, n, m, l, h) EXCEPT !.next = x] = Buffers(f, x, m, l, h)
           /\ [Buffers(f, n, m, l, h) EXCEPT !.moments = x] = Buffers(f, n, x, l, h)
           /\ [Buffers(f, n, m, l, h) EXCEPT !.forces = x] = Buffers(f, n, m, l, x)
  BY DEF Buffers

LEMMA ArrayFields ==
    ASSUME NEW f, NEW m, NEW l, NEW h, NEW x
    PROVE  /\ Arrays(f, m, l, h).f = f /\ Arrays(f, m, l, h).moments = m
           /\ Arrays(f, m, l, h).links = l /\ Arrays(f, m, l, h).forces = h
           /\ [Arrays(f, m, l, h) EXCEPT !.f = x] = Arrays(x, m, l, h)
           /\ [Arrays(f, m, l, h) EXCEPT !.moments = x] = Arrays(f, x, l, h)
           /\ [Arrays(f, m, l, h) EXCEPT !.forces = x] = Arrays(f, m, l, x)
  BY DEF Arrays

\* What a step takes to its pull, and the samples after it.
Pulled(v, f) == Damped(v, Collision(f))
Sampling(h, l, s, g) ==
    IF kind = "obstacle" /\ Due(s) THEN Append(h, ForceSample(l, s, g)) ELSE h

\* A step of the device, stage by stage.
LEMMA StepOfDevice ==
    ASSUME NEW f, NEW n, NEW m, NEW l, NEW h, NEW device, NEW s, NEW v
    PROVE  WarpStep(Buffers(f, n, m, l, h), device, s, v) =
              IF kind = "periodic"
              THEN Buffers(Rolls(Collision(f)), Collision(f), Moments(Rolls(Collision(f))), l, h)
              ELSE Buffers(Streamed(device, v, Pulled(v, f)), Pulled(v, f),
                           Moments(Streamed(device, v, Pulled(v, f))), l, Sampling(h, l, s, Pulled(v, f)))
<1> DEFINE w == Buffers(f, n, m, l, h)
           c == Collision(f)
           g == Pulled(v, f)
           q == Sampling(h, l, s, g)
<1>1. Collide(w) = Buffers(f, c, m, l, h)
  BY BufferFields DEF Collide
<1>2. Reduce(PullPeriodic(Buffers(f, c, m, l, h))) = Buffers(Rolls(c), c, Moments(Rolls(c)), l, h)
  <2>1. PullPeriodic(Buffers(f, c, m, l, h)) = Buffers(Rolls(c), c, m, l, h)
    BY BufferFields DEF PullPeriodic
  <2>2. Reduce(Buffers(Rolls(c), c, m, l, h)) = Buffers(Rolls(c), c, Moments(Rolls(c)), l, h)
    BY BufferFields DEF Reduce
  <2> QED
    BY <2>1, <2>2
<1>3. ApplySponge(Buffers(f, c, m, l, h), v) = Buffers(f, g, m, l, h)
  BY BufferFields DEF ApplySponge, Pulled
<1>4. Measure(Buffers(f, g, m, l, h), s, v) = Buffers(f, g, m, l, q)
  <2> DEFINE b == Buffers(f, g, m, l, h)
  <2>1. b.forces = h /\ b.links = l /\ b.next = g /\ \A x : [b EXCEPT !.forces = x] = Buffers(f, g, m, l, x)
    BY BufferFields
  <2> HIDE DEF b, g
  <2>2. [b EXCEPT !.forces = Append(@, ForceSample(b.links, s, b.next))]
           = [b EXCEPT !.forces = Append(b.forces, ForceSample(b.links, s, b.next))]
    OBVIOUS
  <2>3. [b EXCEPT !.forces = Append(b.forces, ForceSample(b.links, s, b.next))]
           = Buffers(f, g, m, l, Append(h, ForceSample(l, s, g)))
    BY <2>1
  <2> QED
    BY <2>2, <2>3 DEF Measure, Sampling, b
<1>5. Reduce(PullChannel(Buffers(f, g, m, l, q), device, v))
         = Buffers(Streamed(device, v, g), g, Moments(Streamed(device, v, g)), l, q)
  <2> DEFINE t == Streamed(device, v, g)
  <2>1. PullChannel(Buffers(f, g, m, l, q), device, v) = Buffers(t, g, m, l, q)
    BY BufferFields DEF PullChannel
  <2>2. Reduce(Buffers(t, g, m, l, q)) = Buffers(t, g, Moments(t), l, q)
    BY BufferFields DEF Reduce
  <2> QED
    BY <2>1, <2>2
<1> QED
  BY <1>1, <1>2, <1>3, <1>4, <1>5 DEF WarpStep

LEMMA StepOfOracle ==
    ASSUME NEW f, NEW m, NEW l, NEW h, NEW s, NEW v
    PROVE  OracleAdvance(Arrays(f, m, l, h), s, v)
              = Arrays(OracleFlow(f, v), Moments(OracleFlow(f, v)), l, Sampling(h, l, s, Pulled(v, f)))
<1> DEFINE o == Arrays(f, m, l, h)
           x == OracleFlow(f, v)
           y == Moments(x)
           q == Sampling(h, l, s, Pulled(v, f))
<1>1. o.f = f /\ o.links = l /\ o.forces = h
  BY ArrayFields
<1>2. OracleAdvance(o, s, v) = [o EXCEPT !.f = x, !.moments = y, !.forces = q]
  BY <1>1 DEF OracleAdvance, Sampling, Pulled
<1>3. [o EXCEPT !.f = x, !.moments = y, !.forces = q]
         = [[[o EXCEPT !.f = x] EXCEPT !.moments = y] EXCEPT !.forces = q]
  OBVIOUS
<1>4. [[[o EXCEPT !.f = x] EXCEPT !.moments = y] EXCEPT !.forces = q] = Arrays(x, y, l, q)
  <2>1. [o EXCEPT !.f = x] = Arrays(x, m, l, h)
    BY ArrayFields
  <2>2. [Arrays(x, m, l, h) EXCEPT !.moments = y] = Arrays(x, y, l, h)
    BY ArrayFields
  <2>3. [Arrays(x, y, l, h) EXCEPT !.forces = q] = Arrays(x, y, l, q)
    BY ArrayFields
  <2> QED
    BY <2>1, <2>2, <2>3
<1> QED
  BY <1>2, <1>3, <1>4

LEMMA InitLaunch == LaunchInit => LaunchInv
<1> SUFFICES ASSUME LaunchInit PROVE LaunchInv
  OBVIOUS
<1>1. /\ warp = Buffers(Zeros, Zeros, Zeros, {}, <<>>) /\ oracle = Arrays(Zeros, Zeros, {}, <<>>)
      /\ obstacle = {} /\ completed = -1 /\ cache.device = cache.host
      /\ kind \in {"periodic", "channel", "obstacle"}
  BY DEF LaunchInit, WarpStart, Buffers, Arrays
<1>2. /\ warp.f = Zeros /\ warp.next = Zeros /\ warp.moments = Zeros /\ warp.forces = <<>>
      /\ oracle.f = Zeros /\ oracle.moments = Zeros /\ oracle.forces = <<>>
  BY <1>1, BufferFields, ArrayFields
<1>3. <<>> \in Seq({})
  OBVIOUS
<1>4. MaskIsUploaded /\ SameFlow
  BY <1>1, <1>2 DEF MaskIsUploaded, SameFlow
<1>5. /\ warp = Buffers(warp.f, warp.next, warp.moments, obstacle, warp.forces)
      /\ oracle = Arrays(oracle.f, oracle.moments, obstacle, oracle.forces)
  BY <1>1, <1>2
<1>6. \E T : warp.forces \in Seq(T)
  BY <1>2, <1>3
<1> QED
  BY <1>1, <1>2, <1>4, <1>5, <1>6 DEF LaunchInv

LEMMA InitializeSolveInv ==
    ASSUME LaunchInv, NEW mask \in SUBSET (Rows \X Columns), InitializeSolve(mask)
    PROVE  LaunchInv'
<1> DEFINE start == <<"equilibrium", IF seed = 0 THEN Still(StartMask(mask)) ELSE Wake(StartMask(mask), seed)>>
           still == <<"equilibrium", Still(StartMask(mask))>>
           moved == IF seed = 0 THEN <<"prescribed", start>> ELSE Moments(start)
<1>1. /\ warp' = Buffers(start, Zeros, moved, mask, <<>>)
      /\ oracle' = Arrays(still, <<"prescribed", still>>, mask, <<>>)
      /\ obstacle' = mask /\ completed' = 0 /\ kind' = kind /\ seed' = seed /\ cache' = cache
  BY DEF InitializeSolve, Start, WarpStart, Buffers, Arrays
<1>2. /\ warp'.f = start /\ warp'.next = Zeros /\ warp'.moments = moved /\ warp'.forces = <<>>
      /\ oracle'.f = still /\ oracle'.moments = <<"prescribed", still>> /\ oracle'.forces = <<>>
  BY <1>1, BufferFields, ArrayFields
<1>3. SameFlow' /\ MaskIsUploaded'
  <2>1. seed = 0 => start = still /\ moved = <<"prescribed", still>>
    OBVIOUS
  <2> HIDE DEF start, still, moved
  <2> QED
    BY <1>1, <1>2, <2>1 DEF LaunchInv, SameFlow, MaskIsUploaded
<1> HIDE DEF start, still, moved
<1>4. DueInv'
  <2>1. Warmup + 1 * Every \in Nat /\ Warmup + 1 * Every > 0
    BY StepperAssumption, Spaced
  <2>2. {s \in 1 .. completed : Due(s)}' = {}
    BY <1>1
  <2>3. Len(warp'.forces) = 0
    BY <1>2
  <2>4. DueAt(0 + 1) > 0
    BY <2>1 DEF DueAt
  <2> QED
    BY <1>1, <2>2, <2>3, <2>4, FS_EmptySet DEF DueInv
<1>5. warp'.forces \in Seq({})
  BY <1>2
<1> QED
  BY <1>1, <1>2, <1>3, <1>4, <1>5 DEF LaunchInv

\* The samples of a solve that has made no step are none.
LEMMA NoSampleYet ==
    ASSUME LaunchInv, completed = 0
    PROVE  warp.forces = <<>>
<1>1. CASE kind # "obstacle"
  BY <1>1 DEF LaunchInv
<1>2. CASE kind = "obstacle"
  <2>1. PICK T : warp.forces \in Seq(T)
    BY DEF LaunchInv
  <2>2. Len(warp.forces) \in Nat /\ (Len(warp.forces) >= 1 => DueAt(Len(warp.forces)) <= 0)
    BY <1>2, <2>1 DEF LaunchInv, DueInv
  <2>3. \A n \in Nat : n >= 1 => DueAt(n) > Warmup
    BY StepperAssumption, Spaced DEF DueAt
  <2>4. \A n \in Nat : DueAt(n) \in Nat
    BY StepperAssumption, Spaced DEF DueAt
  <2>5. Len(warp.forces) = 0
    BY <2>2, <2>3, <2>4, StepperAssumption
  <2> QED
    BY <2>1, <2>5, EmptySeq
<1> QED
  BY <1>1, <1>2

LEMMA AdvanceRefusedInv == LaunchInv /\ AdvanceRefused => LaunchInv'
<1> SUFFICES ASSUME LaunchInv, AdvanceRefused PROVE LaunchInv'
  OBVIOUS
<1> DEFINE c == Collision(warp.f)
<1>1. /\ completed = 0 /\ completed' = -1 /\ kind' = kind /\ seed' = seed /\ obstacle' = obstacle
      /\ cache' = cache /\ oracle' = oracle /\ warp' = [warp EXCEPT !.next = c]
  BY DEF AdvanceRefused, Collide
<1>2. warp' = Buffers(warp.f, c, warp.moments, obstacle, warp.forces)
  BY <1>1, BufferFields DEF LaunchInv
<1>3. /\ warp'.f = warp.f /\ warp'.next = c /\ warp'.moments = warp.moments
      /\ warp'.forces = warp.forces
  BY <1>2, BufferFields
<1>4. warp.forces = <<>>
  BY <1>1, NoSampleYet
<1>5. warp'.forces \in Seq({})
  BY <1>3, <1>4
<1> HIDE DEF c
<1> QED
  BY <1>1, <1>2, <1>3, <1>4, <1>5 DEF LaunchInv, SameFlow, MaskIsUploaded

LEMMA DueIsAt ==
    ASSUME NEW s \in Nat
    PROVE  Due(s) <=> \E k \in Nat \ {0} : DueAt(k) = s
<1> DEFINE w == Warmup
           i == Every
<1>1. w \in Nat /\ i \in Nat \ {0}
  BY StepperAssumption
<1>2. s > w /\ (s - w) % i = 0 <=> \E k \in Nat \ {0} : w + k * i = s
  <2> HIDE DEF w, i
  <2> QED
    BY <1>1, DueStep
<1> QED
  BY <1>2 DEF Due, DueAt

\* A step is due when it is the next sample, and never before it.
LEMMA NextDue ==
    ASSUME NEW c \in Nat, NEW n \in Nat, n >= 1 => DueAt(n) <= c, c < DueAt(n + 1)
    PROVE  /\ Due(c + 1) <=> DueAt(n + 1) = c + 1
           /\ DueAt(n + 1) \in Nat /\ DueAt(n + 2) \in Nat /\ DueAt(n + 1) < DueAt(n + 2)
<1>1. \A k \in Nat : DueAt(k) \in Nat
  BY StepperAssumption, Spaced DEF DueAt
<1>2. \A k, l \in Nat : k <= l <=> DueAt(k) <= DueAt(l)
  BY StepperAssumption, Spaced DEF DueAt
<1>3. Due(c + 1) <=> \E k \in Nat \ {0} : DueAt(k) = c + 1
  BY DueIsAt
<1>4. ASSUME NEW k \in Nat \ {0}, DueAt(k) = c + 1 PROVE k = n + 1
  <2>1. ~(k <= n)
    <3> SUFFICES ASSUME k <= n PROVE FALSE
      OBVIOUS
    <3>1. n >= 1
      OBVIOUS
    <3>2. DueAt(k) <= DueAt(n)
      BY <1>2
    <3> QED
      BY <1>1, <1>4, <3>1, <3>2
  <2>2. k <= n + 1
    <3>1. n + 1 \in Nat /\ DueAt(n + 1) \in Nat
      BY <1>1
    <3>2. DueAt(k) <= DueAt(n + 1)
      BY <1>4, <3>1
    <3> QED
      BY <1>2, <3>1, <3>2
  <2> QED
    BY <2>1, <2>2
<1>5. n + 1 \in Nat \ {0} /\ n + 2 \in Nat /\ ~(n + 2 <= n + 1)
  OBVIOUS
<1>6. Due(c + 1) <=> DueAt(n + 1) = c + 1
  BY <1>3, <1>4, <1>5
<1> QED
  BY <1>1, <1>2, <1>5, <1>6

LEMMA OneMoreOfAny ==
    ASSUME NEW T, NEW q \in Seq(T), NEW e
    PROVE  /\ Append(q, e) \in Seq(T \cup {e}) /\ Len(q) \in Nat /\ Len(Append(q, e)) = Len(q) + 1
           /\ \A i \in 1 .. Len(q) : Append(q, e)[i] = q[i]
           /\ Append(q, e)[Len(q) + 1] = e
<1>1. q \in Seq(T \cup {e}) /\ e \in T \cup {e}
  BY SeqMonotonic
<1> QED
  BY <1>1, OneMore

\* The steps due up to the next one.
LEMMA OneMoreDue ==
    ASSUME NEW c \in Nat, IsFiniteSet({s \in 1 .. c : Due(s)})
    PROVE  /\ IsFiniteSet({s \in 1 .. c + 1 : Due(s)})
           /\ Cardinality({s \in 1 .. c : Due(s)}) \in Nat
           /\ Cardinality({s \in 1 .. c + 1 : Due(s)})
                 = Cardinality({s \in 1 .. c : Due(s)}) + (IF Due(c + 1) THEN 1 ELSE 0)
<1> DEFINE D == {s \in 1 .. c : Due(s)}
           E == {s \in 1 .. c + 1 : Due(s)}
<1>1. 1 .. c + 1 = 1 .. c \cup {c + 1} /\ c + 1 \notin 1 .. c
  OBVIOUS
<1>2. Due(c + 1) => E = D \cup {c + 1}
  BY <1>1
<1>3. ~Due(c + 1) => E = D
  BY <1>1
<1>4. c + 1 \notin D /\ IsFiniteSet(D)
  BY <1>1
<1> HIDE DEF D, E
<1>5. Cardinality(D) \in Nat /\ IsFiniteSet(D \cup {c + 1}) /\ Cardinality(D \cup {c + 1}) = Cardinality(D) + 1
  BY <1>4, FS_CardinalityType, FS_AddElement
<1>6. IsFiniteSet(E) /\ Cardinality(D) \in Nat /\ Cardinality(E) = Cardinality(D) + (IF Due(c + 1) THEN 1 ELSE 0)
  BY <1>2, <1>3, <1>4, <1>5
<1> QED
  BY <1>6 DEF D, E

LEMMA AdvanceSolveInv ==
    ASSUME LaunchInv, NEW v, AdvanceSolve(v)
    PROVE  LaunchInv'
<1> DEFINE s == completed + 1
           device == cache'.device
           g == Pulled(v, warp.f)
           h == Sampling(warp.forces, obstacle, s, g)
           x == OracleFlow(oracle.f, v)
<1>1. /\ completed \in Nat /\ completed' = s /\ kind' = kind /\ seed' = seed /\ obstacle' = obstacle
      /\ warp' = WarpStep(warp, device, s, v) /\ oracle' = OracleAdvance(oracle, s, v)
      /\ cache' = IF kind = "periodic" THEN cache ELSE Upload(cache, PullMask(obstacle))
  BY DEF AdvanceSolve, LaunchInv
<1>2. cache'.device = cache'.host /\ (kind # "periodic" => device = PullMask(obstacle))
  BY <1>1 DEF LaunchInv, MaskIsUploaded, Upload
<1>3. warp' = IF kind = "periodic"
              THEN Buffers(Rolls(Collision(warp.f)), Collision(warp.f),
                           Moments(Rolls(Collision(warp.f))), obstacle, warp.forces)
              ELSE Buffers(Streamed(device, v, g), g, Moments(Streamed(device, v, g)), obstacle, h)
  <2>1. warp = Buffers(warp.f, warp.next, warp.moments, obstacle, warp.forces)
    BY DEF LaunchInv
  <2> QED
    BY <1>1, <2>1, StepOfDevice
<1>4. oracle' = Arrays(x, Moments(x), obstacle, Sampling(oracle.forces, obstacle, s, Pulled(v, oracle.f)))
  <2>1. oracle = Arrays(oracle.f, oracle.moments, obstacle, oracle.forces)
    BY DEF LaunchInv
  <2> QED
    BY <1>1, <2>1, StepOfOracle
<1>5. /\ warp'.f = IF kind = "periodic" THEN Rolls(Collision(warp.f)) ELSE Streamed(device, v, g)
      /\ warp'.moments = Moments(warp'.f)
      /\ warp'.forces = h
      /\ warp' = Buffers(warp'.f, warp'.next, warp'.moments, obstacle, warp'.forces)
  <2>1. kind = "periodic" => h = warp.forces
    BY DEF Sampling
  <2> HIDE DEF g, h, device
  <2>2. CASE kind = "periodic"
    <3> DEFINE c == Collision(warp.f)
    <3>1. warp' = Buffers(Rolls(c), c, Moments(Rolls(c)), obstacle, warp.forces)
      BY <1>3, <2>2
    <3>2. /\ warp'.f = Rolls(c) /\ warp'.next = c /\ warp'.moments = Moments(Rolls(c))
          /\ warp'.forces = warp.forces
      BY <3>1, BufferFields
    <3> QED
      BY <2>1, <2>2, <3>1, <3>2
  <2>3. CASE kind # "periodic"
    <3> DEFINE t == Streamed(device, v, g)
    <3>1. warp' = Buffers(t, g, Moments(t), obstacle, h)
      BY <1>3, <2>3
    <3>2. warp'.f = t /\ warp'.next = g /\ warp'.moments = Moments(t) /\ warp'.forces = h
      BY <3>1, BufferFields
    <3> QED
      BY <2>3, <3>1, <3>2
  <2> QED
    BY <2>2, <2>3
<1>6. /\ oracle'.f = x /\ oracle'.moments = Moments(x)
      /\ oracle'.forces = Sampling(oracle.forces, obstacle, s, Pulled(v, oracle.f))
      /\ oracle' = Arrays(oracle'.f, oracle'.moments, obstacle, oracle'.forces)
  <2> HIDE DEF x, s
  <2> QED
    BY <1>4, ArrayFields
<1>7. seed = 0 => warp'.f = oracle'.f /\ warp'.moments = oracle'.moments /\ warp'.forces = oracle'.forces
  <2> SUFFICES ASSUME seed = 0
               PROVE  warp'.f = oracle'.f /\ warp'.moments = oracle'.moments /\ warp'.forces = oracle'.forces
    OBVIOUS
  <2>1. warp.f = oracle.f /\ warp.forces = oracle.forces
    BY DEF LaunchInv, SameFlow
  <2>2. warp'.f = x
    BY <1>2, <1>5, <2>1 DEF OracleFlow, Pulled
  <2> QED
    BY <1>5, <1>6, <2>1, <2>2
<1>8. \E T : h \in Seq(T)
  <2>1. PICK T : warp.forces \in Seq(T)
    BY DEF LaunchInv
  <2> QED
    BY <2>1, OneMoreOfAny DEF Sampling
<1>9. kind # "obstacle" => h = <<>>
  BY DEF Sampling, LaunchInv
<1>10. kind = "obstacle" => DueInv'
  <2> SUFFICES ASSUME kind = "obstacle" PROVE DueInv'
    OBVIOUS
  <2> DEFINE n == Len(warp.forces)
             e == ForceSample(obstacle, s, g)
  <2>1. PICK T : warp.forces \in Seq(T)
    BY DEF LaunchInv
  <2>2. n \in Nat /\ DueInv
    BY <1>1, <2>1 DEF LaunchInv
  <2>3. /\ Due(s) <=> DueAt(n + 1) = s
        /\ DueAt(n + 1) \in Nat /\ DueAt(n + 2) \in Nat /\ DueAt(n + 1) < DueAt(n + 2)
        /\ completed < DueAt(n + 1) /\ (n >= 1 => DueAt(n) <= completed)
    BY <1>1, <2>2, NextDue DEF DueInv
  <2>4. n >= 1 => DueAt(n) \in Nat
    BY <2>2, StepperAssumption, Spaced DEF DueAt
  <2>5. /\ IsFiniteSet({t \in 1 .. s : Due(t)})
        /\ Cardinality({t \in 1 .. s : Due(t)}) = n + (IF Due(s) THEN 1 ELSE 0)
    BY <1>1, <2>2, OneMoreDue DEF DueInv
  <2>6. /\ IsFiniteSet({t \in 1 .. completed : Due(t)}')
        /\ Cardinality({t \in 1 .. completed : Due(t)})' = n + (IF Due(s) THEN 1 ELSE 0)
    BY <1>1, <2>5 DEF Due
  <2>7. CASE Due(s)
    <3>1. /\ warp'.forces = Append(warp.forces, e) /\ Len(warp'.forces) = n + 1
          /\ \A k \in 1 .. n : warp'.forces[k] = warp.forces[k]
          /\ warp'.forces[n + 1] = e
      BY <1>5, <2>1, <2>7, OneMoreOfAny DEF Sampling
    <3>2. e.step = s /\ e.links = obstacle /\ e.of = g
      BY DEF ForceSample
    <3>3. warp'.f[1] = "streamed" /\ warp'.f[4] = g
      BY <1>5 DEF Streamed
    <3> HIDE DEF e, g, n, s
    <3>4. \A k \in 1 .. n + 1 : warp'.forces[k].step = DueAt(k) /\ warp'.forces[k].links = obstacle
      BY <2>2, <2>3, <2>7, <3>1, <3>2 DEF DueInv, n
    <3>5. s < DueAt(n + 1 + 1) /\ DueAt(n + 1) <= s
      <4>1. n + 1 + 1 = n + 2
        BY <2>2
      <4> QED
        BY <2>3, <2>7, <4>1
    <3>6. warp'.f[4] = warp'.forces[n + 1].of
      BY <3>1, <3>2, <3>3
    <3>7. \A k \in 1 .. n + 1 : warp'.forces[k].step = DueAt(k)' /\ warp'.forces[k].links = obstacle'
      BY <1>1, <3>4 DEF DueAt
    <3>8. completed' < DueAt(n + 1 + 1) /\ DueAt(n + 1) <= completed'
      BY <1>1, <3>5
    <3>9. Cardinality({t \in 1 .. completed : Due(t)})' = n + 1
      BY <2>6, <2>7
    <3> QED
      BY <2>6, <3>1, <3>3, <3>6, <3>7, <3>8, <3>9 DEF DueInv
  <2>8. CASE ~Due(s)
    <3>1. warp'.forces = warp.forces
      BY <1>5, <2>8 DEF Sampling
    <3>2. s < DueAt(n + 1) /\ (n >= 1 => DueAt(n) < s /\ DueAt(n) <= s)
      BY <1>1, <2>2, <2>3, <2>4, <2>8
    <3> HIDE DEF s, g
    <3>3. \A k \in 1 .. n : warp'.forces[k].step = DueAt(k)' /\ warp'.forces[k].links = obstacle'
      BY <1>1, <2>2, <3>1 DEF DueInv, DueAt
    <3>4. completed' < DueAt(n + 1) /\ (n >= 1 => DueAt(n) < completed')
      BY <1>1, <3>2
    <3>5. Cardinality({t \in 1 .. completed : Due(t)})' = n
      BY <2>2, <2>6, <2>8
    <3>6. ~(n >= 1 /\ DueAt(n) = completed')
      BY <1>1, <2>4, <3>2
    <3>7. Len(warp'.forces) = n /\ (n >= 1 => DueAt(n) <= completed')
      BY <1>1, <3>1, <3>2
    <3> HIDE DEF n
    <3> QED
      BY <2>6, <3>3, <3>4, <3>5, <3>6, <3>7 DEF DueInv
  <2> QED
    BY <2>7, <2>8
<1>11. s \in Nat /\ s > 0
  BY <1>1
<1> HIDE DEF s, device, g, h, x
<1>12. MaskIsUploaded' /\ SameFlow'
  BY <1>1, <1>2, <1>5, <1>7 DEF MaskIsUploaded, SameFlow
<1> QED
  BY <1>1, <1>5, <1>6, <1>7, <1>8, <1>9, <1>10, <1>11, <1>12 DEF LaunchInv

LEMMA LaunchSteps ==
    ASSUME LaunchInv, [Launch]_launchVars
    PROVE  LaunchInv'
<1>1. CASE UNCHANGED launchVars
  <2>1. /\ kind' = kind /\ seed' = seed /\ obstacle' = obstacle /\ completed' = completed
        /\ warp' = warp /\ cache' = cache /\ oracle' = oracle
    BY <1>1 DEF launchVars
  <2>2. DueInv => DueInv'
    BY <2>1 DEF DueInv, Due, DueAt
  <2> QED
    BY <2>1, <2>2 DEF LaunchInv, MaskIsUploaded, SameFlow
<1>2. ASSUME NEW mask \in Obstacles PROVE mask \in SUBSET (Rows \X Columns)
  <2>1. 3 \in Rows /\ 2 \in Columns /\ 3 \in Columns /\ NX - Sponge \in Columns
    BY LatticeAssumption DEF Rows, Columns
  <2> QED
    BY <1>2, <2>1 DEF Obstacles
<1>3. CASE Launch
  BY <1>2, <1>3, InitializeSolveInv, AdvanceSolveInv, AdvanceRefusedInv DEF Launch
<1> QED
  BY <1>1, <1>3

\* The samples of the device are named for the steps they were taken in.
LEMMA SamplesAreDue == LaunchInv => ForcesAreOfTheStep
<1> SUFFICES ASSUME LaunchInv PROVE ForcesAreOfTheStep
  OBVIOUS
<1> DEFINE n == Len(warp.forces)
<1>1. n \in Nat /\ DOMAIN warp.forces = 1 .. n
  BY DEF LaunchInv
<1>2. \A k \in Nat : DueAt(k) \in Nat
  BY StepperAssumption, Spaced DEF DueAt
<1>3. \A k, l \in Nat : k <= l <=> DueAt(k) <= DueAt(l)
  BY StepperAssumption, Spaced DEF DueAt
<1>4. CASE kind # "obstacle" \/ completed = -1
  <2>1. warp.forces = <<>>
    BY <1>4 DEF LaunchInv
  <2>2. DOMAIN warp.forces = {}
    BY <2>1
  <2> QED
    BY <1>4, <2>2 DEF ForcesAreOfTheStep, LaunchInv
<1>5. CASE kind = "obstacle" /\ completed >= 0
  <2>1. /\ \A k \in 1 .. n : warp.forces[k].step = DueAt(k) /\ warp.forces[k].links = obstacle
        /\ n >= 1 => DueAt(n) <= completed
        /\ n >= 1 /\ DueAt(n) = completed => warp.f[1] = "streamed" /\ warp.f[4] = warp.forces[n].of
        /\ Cardinality({s \in 1 .. completed : Due(s)}) = n
    BY <1>5 DEF LaunchInv, DueInv
  <2>2. [k \in DOMAIN warp.forces |-> warp.forces[k].step]
           = [k \in 1 .. Cardinality({s \in 1 .. completed : Due(s)}) |-> Warmup + k * Every]
    BY <1>1, <2>1 DEF DueAt
  <2>3. ASSUME NEW k \in 1 .. n, warp.forces[k].step = completed PROVE k = n
    <3>1. k \in Nat /\ n >= 1 /\ k <= n /\ DueAt(k) = completed
      BY <1>1, <2>1, <2>3
    <3>2. DueAt(n) <= DueAt(k)
      BY <2>1, <3>1
    <3> QED
      BY <1>1, <1>3, <3>1, <3>2
  <2>4. ASSUME NEW k \in 1 .. n, warp.forces[k].step = completed
        PROVE  warp.f[1] = "streamed" /\ warp.f[4] = warp.forces[k].of
    <3>1. k = n /\ n >= 1
      BY <1>1, <2>3, <2>4
    <3> QED
      BY <2>1, <2>4, <3>1
  <2> HIDE DEF n
  <2> QED
    BY <1>1, <2>1, <2>2, <2>4 DEF ForcesAreOfTheStep, LaunchInv
<1>6. completed >= 0 \/ completed = -1
  BY DEF LaunchInv
<1> QED
  BY <1>4, <1>5, <1>6

LEMMA StartsAreClean ==
    ASSUME NEW mask \in SUBSET (Rows \X Columns)
    PROVE  StartIsClean(mask)
<1> DEFINE solid == mask \cup Walls
<1>1. NX \in Nat /\ NY \in Nat /\ NY >= 5 /\ Sponge \in 3 .. NX - 1
  BY LatticeAssumption
<1>2. solid \subseteq Rows \X Columns /\ Rows \X {0, NX - 1} \subseteq Rows \X Columns
  <2>1. 0 \in Rows /\ NY - 1 \in Rows /\ 0 \in Columns /\ NX - 1 \in Columns
    BY <1>1 DEF Rows, Columns
  <2> QED
    BY <2>1 DEF Walls
<1> HIDE DEF solid
<1>3. ASSUME NEW sign \in {-1, 1}, NEW cell \in solid \cup Rows \X {0, NX - 1}
      PROVE  Wake(solid, sign)[cell] = Still(solid)[cell]
  <2>1. cell \in Rows \X Columns /\ (cell \notin solid => cell[2] \in {0, NX - 1})
    BY <1>2
  <2> QED
    BY <2>1 DEF Wake, Still
<1>4. ASSUME NEW cell \in Rows \X Columns
      PROVE  /\ KernelStrength(cell[1], cell[2]) = Strength(cell[1], cell[2])
             /\ SpongeIsFree(mask) /\ Strength(cell[1], cell[2]) > 0 => cell \notin mask
  <2> DEFINE y == cell[1]
             x == cell[2]
             d == x - (NX - Sponge)
             p == d * d
  <2>1. y \in 0 .. NY - 1 /\ x \in 0 .. NX - 1
    BY DEF Rows, Columns
  <2>2. y > 0 /\ y < NY - 1 /\ x >= NX - Sponge <=> y \in 1 .. NY - 2 /\ x \in NX - Sponge .. NX - 1
    BY <1>1, <2>1
  <2>3. /\ KernelStrength(y, x) = IF y > 0 /\ y < NY - 1 /\ x >= NX - Sponge THEN p ELSE 0
        /\ Strength(y, x) = IF y \in 1 .. NY - 2 /\ x \in NX - Sponge .. NX - 1 THEN p ELSE 0
    BY DEF KernelStrength, Strength
  <2> HIDE DEF y, x, p
  <2>4. KernelStrength(y, x) = Strength(y, x)
    BY <2>2, <2>3
  <2>5. Strength(y, x) > 0 => y \in 1 .. NY - 2 /\ ~(x < NX - Sponge)
    <3>1. ASSUME Strength(y, x) > 0 PROVE y \in 1 .. NY - 2 /\ x \in NX - Sponge .. NX - 1
      BY <2>3, <3>1
    <3>2. x \in NX - Sponge .. NX - 1 => ~(x < NX - Sponge)
      BY <1>1
    <3> QED
      BY <3>1, <3>2
  <2>6. cell \in mask /\ SpongeIsFree(mask) /\ y \in 1 .. NY - 2 => x < NX - Sponge
    BY DEF SpongeIsFree, y, x
  <2> QED
    BY <2>4, <2>5, <2>6 DEF y, x
<1> QED
  BY <1>3, <1>4 DEF StartIsClean, solid

\* What the runs check of the launches.
LEMMA LaunchesDoAgree == LaunchInv => LaunchesAgree
  BY SamplesAreDue, StartsAreClean DEF LaunchInv, LaunchesAgree

-----------------------------------------------------------------------------
(* One time step of the lattice, on a grid of any size.                    *)

\* The tables of the kernels are those of the oracle.
LEMMA Tables ==
    ASSUME NEW d \in Directions
    PROVE  /\ Cx(d) \in {-1, 0, 1} /\ Cy(d) \in {-1, 0, 1} /\ Opposite(d) \in Directions
           /\ KernelX(d) = Cx(d) /\ KernelY(d) = Cy(d) /\ KernelOpposite(d) = Opposite(d)
           /\ Cx(Opposite(d)) = -Cx(d) /\ Cy(Opposite(d)) = -Cy(d) /\ Opposite(Opposite(d)) = d
           /\ d = 0 <=> Cx(d) = 0 /\ Cy(d) = 0
           /\ Opposite(d) = 0 <=> d = 0
           /\ Cx(d) = 1 <=> d \in Unknown
           /\ Cx(d) = -1 <=> d \in Leaving
           /\ d \in {5, 6, 2} <=> Cy(d) = 1
           /\ d \in {7, 8, 4} <=> Cy(d) = -1
<1>1. d \in {0, 1, 2, 3, 4, 5, 6, 7, 8}
  BY DEF Directions
<1> QED
  BY <1>1 DEF Directions, Cx, Cy, Opposite, VelocityTable, OppositeTable, KernelX, KernelY, KernelOpposite,
     Unknown, Leaving

LEMMA GridFacts ==
    /\ NX \in Nat /\ NX >= 4 /\ NY \in Nat /\ NY >= 5 /\ Sponge \in Nat /\ Sponge >= 3 /\ Sponge < NX
    /\ Rows = 0 .. NY - 1 /\ Columns = 0 .. NX - 1
  BY LatticeAssumption DEF Rows, Columns

\* One step off a row or a column of a periodic grid.
LEMMA Wrapped ==
    ASSUME NEW n \in Nat, n >= 2, NEW a \in 0 .. n - 1, NEW c \in {-1, 0, 1}
    PROVE  /\ (a - c) % n \in 0 .. n - 1
           /\ a - c \in 0 .. n - 1 => (a - c) % n = a - c
           /\ ((a - c) + n) % n = (a - c) % n
  OBVIOUS

\* No cell of an obstacle is near the walls, the inlet or the outlet.
LEMMA ClearFacts ==
    ASSUME NEW mask, Clear(mask), NEW y \in Int, NEW x \in Int, <<y, x>> \in mask
    PROVE  y \in 2 .. NY - 3 /\ x \in 2 .. NX - Sponge - 1
<1>1. <<y, x>>[1] = y /\ <<y, x>>[2] = x
  OBVIOUS
<1> QED
  BY <1>1 DEF Clear

\* A place is fluid when it is neither of a wall nor solid; its source is where it pulls from.
FluidCell(mask, y, x) == y \in 1 .. NY - 2 /\ x \in Columns /\ <<y, x>> \notin mask
Blocked(mask, y, x) == <<y, x>> \in mask \/ y <= 0 \/ y >= NY - 1

\* A pull from inside the columns is what the arrays do at walls and between them.
LEMMA PullIsWalled ==
    ASSUME NEW mask, NEW y \in 1 .. NY - 2, NEW x \in Columns, NEW d \in Directions,
           <<y - Cy(d), x - Cx(d)>> \notin mask,
           x - Cx(d) \in Columns \/ Blocked(mask, y - Cy(d), x - Cx(d))
    PROVE  Pull(mask, y, x, d) = Walled(y, x, d)
<1> DEFINE cx == Cx(d)
           cy == Cy(d)
<1>1. /\ cx \in {-1, 0, 1} /\ cy \in {-1, 0, 1} /\ KernelX(d) = cx /\ KernelY(d) = cy
      /\ KernelOpposite(d) = Opposite(d)
  BY Tables
<1>2. NX \in Nat /\ NX >= 4 /\ NY \in Nat /\ NY >= 5 /\ Columns = 0 .. NX - 1 /\ x \in 0 .. NX - 1
  BY GridFacts
<1>3. Pull(mask, y, x, d) =
         IF y - cy <= 0 \/ y - cy >= NY - 1 THEN From(y, x, Opposite(d))
         ELSE IF x - cx < 0 \/ x - cx >= NX THEN From(y, x, d) ELSE From(y - cy, x - cx, d)
  BY <1>1 DEF Pull
<1>4. Walled(y, x, d) =
         IF (y = 1 /\ cy = 1) \/ (y = NY - 2 /\ cy = -1) THEN From(y, x, Opposite(d))
         ELSE From((y - cy) % NY, (x - cx) % NX, d)
  BY <1>2 DEF Walled, Rolled
<1>5. /\ x - cx \in 0 .. NX - 1 => (x - cx) % NX = x - cx
      /\ y - cy \in 0 .. NY - 1 => (y - cy) % NY = y - cy
  <2>1. y \in 0 .. NY - 1 /\ NX >= 2 /\ NY >= 2
    BY <1>2
  <2> HIDE DEF cx, cy
  <2> QED
    BY <1>1, <1>2, <2>1, Wrapped
<1>6. x - cx \in 0 .. NX - 1 \/ y - cy <= 0 \/ y - cy >= NY - 1
  BY <1>2 DEF Blocked
<1> HIDE DEF cx, cy
<1>7. CASE y - cy <= 0 \/ y - cy >= NY - 1
  <2>1. (y = 1 /\ cy = 1) \/ (y = NY - 2 /\ cy = -1)
    BY <1>1, <1>2, <1>7
  <2> QED
    BY <1>3, <1>4, <1>7, <2>1
<1>8. CASE ~(y - cy <= 0 \/ y - cy >= NY - 1)
  <2>1. ~((y = 1 /\ cy = 1) \/ (y = NY - 2 /\ cy = -1)) /\ y - cy \in 0 .. NY - 1
    BY <1>1, <1>2, <1>8
  <2>2. ~(x - cx < 0 \/ x - cx >= NX)
    BY <1>1, <1>2, <1>6, <1>8
  <2> QED
    BY <1>3, <1>4, <1>5, <1>6, <1>8, <2>1, <2>2
<1> QED
  BY <1>7, <1>8

LEMMA PeriodicAgrees ==
    ASSUME NEW y \in Rows, NEW x \in Columns, NEW d \in Directions
    PROVE  KernelPeriodic(y, x, d) = Rolled(y, x, d)
<1> DEFINE cx == Cx(d)
           cy == Cy(d)
<1>1. /\ cx \in {-1, 0, 1} /\ cy \in {-1, 0, 1} /\ KernelX(d) = cx /\ KernelY(d) = cy
      /\ NX \in Nat /\ NX >= 2 /\ NY \in Nat /\ NY >= 2 /\ x \in 0 .. NX - 1 /\ y \in 0 .. NY - 1
  BY Tables, GridFacts
<1>2. ((x - cx) + NX) % NX = (x - cx) % NX /\ ((y - cy) + NY) % NY = (y - cy) % NY
  <2> HIDE DEF cx, cy
  <2> QED
    BY <1>1, Wrapped
<1>3. (x - cx) + NX = x - cx + NX /\ (y - cy) + NY = y - cy + NY
  <2> HIDE DEF cx, cy
  <2> QED
    BY <1>1
<1> QED
  BY <1>1, <1>2, <1>3 DEF KernelPeriodic, Rolled

\* Where a link starts, by the place that it ends at.
LEMMA LinkInto ==
    ASSUME NEW mask, NEW y \in Rows, NEW x \in Columns, NEW d \in Directions, <<y, x>> \notin mask
    PROVE  <<y, x, Opposite(d)>> \in Links(mask) <=> <<y - Cy(d), x - Cx(d)>> \in mask
<1> DEFINE o == Opposite(d)
           place == <<y, x, o>>
<1>1. /\ o \in Directions /\ Cx(o) = -Cx(d) /\ Cy(o) = -Cy(d) /\ Cx(d) \in {-1, 0, 1} /\ Cy(d) \in {-1, 0, 1}
      /\ o = 0 <=> d = 0
      /\ d = 0 => Cx(d) = 0 /\ Cy(d) = 0
  BY Tables
<1>2. y \in Int /\ x \in Int
  BY GridFacts
<1>3. y + Cy(o) = y - Cy(d) /\ x + Cx(o) = x - Cx(d)
  BY <1>1, <1>2
<1>4. o = 0 => <<y - Cy(d), x - Cx(d)>> = <<y, x>>
  BY <1>1, <1>2
<1> HIDE DEF o
<1>5. place[1] = y /\ place[2] = x /\ place[3] = o
  OBVIOUS
<1>6. place \in Rows \X Columns \X (Directions \ {0}) <=> o # 0
  BY <1>1
<1> HIDE DEF place
<1>7. place \in Links(mask) <=> o # 0 /\ <<y - Cy(d), x - Cx(d)>> \in mask
  BY <1>3, <1>5, <1>6 DEF Links
<1> QED
  BY <1>4, <1>7 DEF place, o

\* The kernel of a fluid place away from the links: the same formulas of the same sources.
LEMMA FormulasAgree ==
    ASSUME NEW mask, Clear(mask), NEW y \in 1 .. NY - 2, NEW x \in Columns, NEW d \in Directions,
           <<y, x>> \notin mask, <<y - Cy(d), x - Cx(d)>> \notin mask
    PROVE  KernelStep(mask, y, x, d) = Bounded(y, x, d)
<1>1. /\ NX \in Nat /\ NX >= 4 /\ NY \in Nat /\ NY >= 5 /\ Columns = 0 .. NX - 1 /\ x \in 0 .. NX - 1
      /\ Sponge \in Nat /\ Sponge >= 3
  BY GridFacts
<1>2. ASSUME NEW k \in Known PROVE Pull(mask, y, 0, k) = Walled(y, 0, k)
  <2>1. k \in Directions /\ Cx(k) \in {-1, 0, 1} /\ Cy(k) \in {-1, 0, 1} /\ Cx(k) # 1
    BY Tables DEF Known, Directions, Unknown
  <2>2. 0 - Cx(k) \in {0, 1} /\ y - Cy(k) \in Int /\ 0 - Cx(k) \in Int /\ 0 \in Columns
    BY <1>1, <2>1
  <2>3. <<y - Cy(k), 0 - Cx(k)>> \notin mask
    BY <2>2, ClearFacts
  <2>4. 0 - Cx(k) \in Columns
    BY <1>1, <2>2
  <2> QED
    BY <2>1, <2>2, <2>3, <2>4, PullIsWalled
<1>3. ASSUME NEW k \in Directions PROVE Pull(mask, y, NX - 2, k) = Walled(y, NX - 2, k)
  <2>1. Cx(k) \in {-1, 0, 1} /\ Cy(k) \in {-1, 0, 1}
    BY Tables
  <2>2. NX - 2 \in Columns /\ (NX - 2) - Cx(k) \in NX - 3 .. NX - 1 /\ y - Cy(k) \in Int
    BY <1>1, <2>1
  <2>3. (NX - 2) - Cx(k) \in Int /\ (NX - 2) - Cx(k) \in Columns /\ (NX - 2) - Cx(k) \notin 2 .. NX - Sponge - 1
    BY <1>1, <2>2
  <2>4. <<y - Cy(k), (NX - 2) - Cx(k)>> \notin mask
    BY <2>2, <2>3, ClearFacts
  <2> QED
    BY <2>2, <2>3, <2>4, PullIsWalled
<1> DEFINE inner == x = 0 /\ y \in 2 .. NY - 3
           corner == x = 0 /\ (d = 1 \/ (d = 5 /\ y # 1) \/ (d = 8 /\ y # NY - 2))
           outlet == x = NX - 1 /\ (d = 3 \/ (d = 6 /\ y # 1) \/ (d = 7 /\ y # NY - 2))
<1>4. /\ y \notin {0, NY - 1} /\ y \in 1 .. NY - 2
      /\ x = 0 /\ y > 1 /\ y < NY - 2 <=> inner
      /\ outlet <=> x = NX - 1 /\ d \in Leaving /\ ~(y = 1 /\ d = 6) /\ ~(y = NY - 2 /\ d = 7)
  BY <1>1 DEF Leaving
<1>5. KernelStep(mask, y, x, d) =
         IF inner THEN <<"regularized", d, [k \in Known |-> Pull(mask, y, 0, k)]>>
         ELSE IF corner THEN <<"zou_he", d, [k \in Known |-> Pull(mask, y, 0, k)]>>
         ELSE IF outlet THEN <<"outlet", d, [k \in Directions |-> Pull(mask, y, NX - 2, k)]>>
         ELSE Pull(mask, y, x, d)
  BY <1>4 DEF KernelStep
<1>6. Bounded(y, x, d) =
         IF inner THEN <<"regularized", d, [k \in Known |-> Walled(y, 0, k)]>>
         ELSE IF corner THEN <<"zou_he", d, [k \in Known |-> Walled(y, 0, k)]>>
         ELSE IF outlet THEN <<"outlet", d, [k \in Directions |-> Walled(y, NX - 2, k)]>>
         ELSE Walled(y, x, d)
  BY <1>4 DEF Bounded
<1>7. /\ [k \in Known |-> Pull(mask, y, 0, k)] = [k \in Known |-> Walled(y, 0, k)]
      /\ [k \in Directions |-> Pull(mask, y, NX - 2, k)] = [k \in Directions |-> Walled(y, NX - 2, k)]
  BY <1>2, <1>3
<1>8. ~inner /\ ~corner /\ ~outlet => Pull(mask, y, x, d) = Walled(y, x, d)
  <2> SUFFICES ASSUME ~inner, ~corner, ~outlet PROVE Pull(mask, y, x, d) = Walled(y, x, d)
    OBVIOUS
  <2>1. /\ Cx(d) \in {-1, 0, 1} /\ Cy(d) \in {-1, 0, 1}
        /\ Cx(d) = 1 <=> d \in {1, 5, 8}
        /\ Cx(d) = -1 <=> d \in {3, 6, 7}
        /\ d \in {5, 6, 2} <=> Cy(d) = 1
        /\ d \in {7, 8, 4} <=> Cy(d) = -1
    BY Tables DEF Unknown, Leaving
  <2>2. x - Cx(d) \in Columns \/ Blocked(mask, y - Cy(d), x - Cx(d))
    <3>1. CASE x = 0 /\ Cx(d) = 1
      BY <1>1, <2>1, <3>1 DEF Blocked
    <3>2. CASE x = NX - 1 /\ Cx(d) = -1
      BY <1>1, <2>1, <3>2 DEF Blocked
    <3>3. CASE ~(x = 0 /\ Cx(d) = 1) /\ ~(x = NX - 1 /\ Cx(d) = -1)
      BY <1>1, <2>1, <3>3
    <3> QED
      BY <3>1, <3>2, <3>3
  <2> QED
    BY <2>2, PullIsWalled
<1> HIDE DEF inner, corner, outlet
<1> QED
  BY <1>5, <1>6, <1>7, <1>8

\* The fused kernel is the oracle, for every obstacle that preflight accepts.
LEMMA StepIsOracle ==
    ASSUME NEW mask, Clear(mask), NEW y \in Rows, NEW x \in Columns, NEW d \in Directions
    PROVE  KernelStep(mask, y, x, d) = OracleStep(mask, y, x, d)
<1> DEFINE sy == y - Cy(d)
           sx == x - Cx(d)
<1>1. /\ NX \in Nat /\ NX >= 4 /\ NY \in Nat /\ NY >= 5 /\ Sponge \in Nat /\ Sponge >= 3
      /\ Columns = 0 .. NX - 1 /\ x \in 0 .. NX - 1 /\ y \in 0 .. NY - 1
      /\ Cx(d) \in {-1, 0, 1} /\ Cy(d) \in {-1, 0, 1}
      /\ KernelX(d) = Cx(d) /\ KernelY(d) = Cy(d) /\ KernelOpposite(d) = Opposite(d)
  BY GridFacts, Tables
<1>2. sy \in Int /\ sx \in Int
  BY <1>1
<1>3. CASE <<y, x>> \in mask
  BY <1>3 DEF KernelStep, OracleStep, Links
<1>4. CASE <<y, x>> \notin mask /\ y \in {0, NY - 1}
  <2>1. <<sy, sx>> \notin mask
    <3>1. sy \notin 2 .. NY - 3
      BY <1>1, <1>4
    <3> HIDE DEF sy, sx
    <3> QED
      BY <1>2, <3>1, ClearFacts
  <2>2. OracleStep(mask, y, x, d) = Bounded(y, x, d)
    BY <1>4, <2>1, LinkInto DEF OracleStep
  <2>3. Bounded(y, x, d) = From(y, x, d)
    BY <1>1, <1>4 DEF Bounded, Walled
  <2>4. KernelStep(mask, y, x, d) = From(y, x, d)
    BY <1>4 DEF KernelStep
  <2> QED
    BY <2>2, <2>3, <2>4
<1>5. CASE <<y, x>> \notin mask /\ y \notin {0, NY - 1} /\ <<sy, sx>> \in mask
  <2>1. OracleStep(mask, y, x, d) = From(y, x, Opposite(d))
    BY <1>5, LinkInto DEF OracleStep
  <2>2. sx \in 2 .. NX - Sponge - 1
    <3> HIDE DEF sy, sx
    <3> QED
      BY <1>2, <1>5, ClearFacts
  <2>3. x # 0 /\ x # NX - 1
    BY <1>1, <2>2
  <2>4. Pull(mask, y, x, d) = From(y, x, Opposite(d))
    BY <1>1, <1>5 DEF Pull
  <2>5. KernelStep(mask, y, x, d) = Pull(mask, y, x, d)
    BY <1>5, <2>3 DEF KernelStep
  <2> QED
    BY <2>1, <2>4, <2>5
<1>6. CASE <<y, x>> \notin mask /\ y \notin {0, NY - 1} /\ <<sy, sx>> \notin mask
  <2>1. y \in 1 .. NY - 2
    BY <1>1, <1>6
  <2>2. OracleStep(mask, y, x, d) = Bounded(y, x, d)
    BY <1>6, LinkInto DEF OracleStep
  <2> QED
    BY <1>6, <2>1, <2>2, FormulasAgree
<1> QED
  BY <1>3, <1>4, <1>5, <1>6

LEMMA PlaceFacts ==
    ASSUME NEW p \in Places
    PROVE  p[1] \in Rows /\ p[2] \in Columns /\ p[3] \in Directions /\ p = <<p[1], p[2], p[3]>>
  BY DEF Places

LEMMA StepsDoAgree ==
    ASSUME NEW mask, Clear(mask)
    PROVE  StepsAgree(mask)
  BY PlaceFacts, StepIsOracle, PeriodicAgrees DEF StepsAgree

\* The table of the owners says which rule applies.
LEMMA OwnerIsReal ==
    ASSUME NEW y \in Rows, NEW x \in Columns, NEW d \in Directions
    PROVE  LET term == OracleStep({}, y, x, d)
               back == From(y, x, Opposite(d))
           IN  CASE Owner(y, x, d) = "inlet" -> term[1] \in {"regularized", "zou_he"}
                 [] Owner(y, x, d) = "outlet" -> term[1] = "outlet"
                 [] Owner(y, x, d) = "interior" -> term = Rolled(y, x, d)
                 [] OTHER -> term = IF y \in {0, NY - 1} THEN From(y, x, d) ELSE back
<1> DEFINE term == OracleStep({}, y, x, d)
<1>1. /\ NX \in Nat /\ NX >= 4 /\ NY \in Nat /\ NY >= 5 /\ x \in 0 .. NX - 1 /\ y \in 0 .. NY - 1
      /\ Cx(d) = 1 <=> d \in {1, 5, 8}
      /\ Cx(d) = -1 <=> d \in {3, 6, 7}
      /\ Cy(d) = 1 <=> d \in {5, 6, 2}
      /\ Cy(d) = -1 <=> d \in {7, 8, 4}
  BY GridFacts, Tables DEF Unknown, Leaving
<1>2. term = Bounded(y, x, d)
  <2>1. <<y, x, Opposite(d)>> \notin Links({})
    BY DEF Links
  <2> QED
    BY <2>1 DEF OracleStep
<1>3. CASE y \in {0, NY - 1}
  <2>1. term = From(y, x, d)
    BY <1>1, <1>2, <1>3 DEF Bounded, Walled
  <2>2. Owner(y, x, d) \in {"lower_wall", "upper_wall"}
    BY <1>3 DEF Owner
  <2> HIDE DEF term
  <2> QED
    BY <1>3, <2>1, <2>2 DEF term
<1>4. CASE y \notin {0, NY - 1}
  <2>1. y \in 1 .. NY - 2
    BY <1>1, <1>4
  <2>2. CASE x = 0 /\ y \in 2 .. NY - 3
    <3>1. term[1] = "regularized"
      BY <1>1, <1>2, <2>1, <2>2 DEF Bounded
    <3>2. Owner(y, x, d) = "inlet"
      BY <1>1, <2>1, <2>2 DEF Owner
    <3> HIDE DEF term
    <3> QED
      BY <3>1, <3>2 DEF term
  <2>3. CASE ~(x = 0 /\ y \in 2 .. NY - 3) /\ ((y = 1 /\ Cy(d) = 1) \/ (y = NY - 2 /\ Cy(d) = -1))
    <3>1. term = Walled(y, x, d)
      BY <1>1, <1>2, <2>1, <2>3 DEF Bounded, Leaving
    <3>2. Walled(y, x, d) = From(y, x, Opposite(d))
      BY <1>1, <2>1, <2>3 DEF Walled
    <3>3. Owner(y, x, d) \in {"lower_wall", "upper_wall"}
      BY <1>1, <2>1, <2>3 DEF Owner
    <3> HIDE DEF term
    <3> QED
      BY <1>4, <3>1, <3>2, <3>3 DEF term
  <2>4. CASE /\ ~(x = 0 /\ y \in 2 .. NY - 3) /\ ~((y = 1 /\ Cy(d) = 1) \/ (y = NY - 2 /\ Cy(d) = -1))
             /\ x = 0 /\ Cx(d) = 1
    <3>1. term[1] = "zou_he"
      BY <1>1, <1>2, <2>1, <2>4 DEF Bounded
    <3>2. Owner(y, x, d) = "inlet"
      BY <1>1, <2>1, <2>4 DEF Owner
    <3> HIDE DEF term
    <3> QED
      BY <3>1, <3>2 DEF term
  <2>5. CASE /\ ~(x = 0 /\ y \in 2 .. NY - 3) /\ ~((y = 1 /\ Cy(d) = 1) \/ (y = NY - 2 /\ Cy(d) = -1))
             /\ x = NX - 1 /\ Cx(d) = -1
    <3>1. term[1] = "outlet"
      BY <1>1, <1>2, <2>1, <2>5 DEF Bounded, Leaving
    <3>2. Owner(y, x, d) = "outlet"
      BY <1>1, <2>1, <2>5 DEF Owner
    <3> HIDE DEF term
    <3> QED
      BY <3>1, <3>2 DEF term
  <2>6. CASE /\ ~(x = 0 /\ y \in 2 .. NY - 3) /\ ~((y = 1 /\ Cy(d) = 1) \/ (y = NY - 2 /\ Cy(d) = -1))
             /\ ~(x = 0 /\ Cx(d) = 1) /\ ~(x = NX - 1 /\ Cx(d) = -1)
    <3>1. term = Walled(y, x, d)
      BY <1>1, <1>2, <2>1, <2>6 DEF Bounded, Leaving
    <3>2. Walled(y, x, d) = Rolled(y, x, d)
      BY <1>1, <2>1, <2>6 DEF Walled
    <3>3. Owner(y, x, d) = "interior"
      BY <1>1, <2>1, <2>6 DEF Owner
    <3> HIDE DEF term
    <3> QED
      BY <3>1, <3>2, <3>3 DEF term
  <2> QED
    BY <2>2, <2>3, <2>4, <2>5, <2>6
<1> QED
  BY <1>3, <1>4

LEMMA OwnersDoApply == OwnersAreReal
  BY PlaceFacts, OwnerIsReal DEF OwnersAreReal

\* Where a population of the fluid goes: on to the next cell, or back into its own.
Target(mask, y, x, d) ==
    IF Blocked(mask, y + Cy(d), x + Cx(d)) THEN <<y, x, Opposite(d)>> ELSE <<y + Cy(d), x + Cx(d), d>>

\* Between the first and the last column a fluid place only pulls; at both, only a
\* formula or a wall decides what comes from outside.
LEMMA OnlyPulls ==
    ASSUME NEW mask, NEW y \in 1 .. NY - 2, NEW x \in Columns, NEW d \in Directions, <<y, x>> \notin mask
    PROVE  /\ x \in 1 .. NX - 2 => KernelStep(mask, y, x, d) = Pull(mask, y, x, d)
           /\ \/ KernelStep(mask, y, x, d)[1] # "from"
              \/ /\ KernelStep(mask, y, x, d) = Pull(mask, y, x, d)
                 /\ x - Cx(d) \in Columns \/ Blocked(mask, y - Cy(d), x - Cx(d))
<1> DEFINE inner == x = 0 /\ y > 1 /\ y < NY - 2
           corner == x = 0 /\ (d = 1 \/ (d = 5 /\ y # 1) \/ (d = 8 /\ y # NY - 2))
           outlet == x = NX - 1 /\ (d = 3 \/ (d = 6 /\ y # 1) \/ (d = 7 /\ y # NY - 2))
           term == KernelStep(mask, y, x, d)
<1>1. /\ NX \in Nat /\ NX >= 4 /\ NY \in Nat /\ NY >= 5 /\ Columns = 0 .. NX - 1 /\ x \in 0 .. NX - 1
      /\ y \notin {0, NY - 1}
  BY GridFacts
<1>2. term =
         IF inner THEN <<"regularized", d, [k \in Known |-> Pull(mask, y, 0, k)]>>
         ELSE IF corner THEN <<"zou_he", d, [k \in Known |-> Pull(mask, y, 0, k)]>>
         ELSE IF outlet THEN <<"outlet", d, [k \in Directions |-> Pull(mask, y, NX - 2, k)]>>
         ELSE Pull(mask, y, x, d)
  BY <1>1 DEF KernelStep
<1> HIDE DEF term
<1>3. inner \/ corner \/ outlet => term[1] # "from"
  BY <1>2
<1>4. ~(inner \/ corner \/ outlet) => term = Pull(mask, y, x, d)
  BY <1>2
<1>5. x \in 1 .. NX - 2 => ~(inner \/ corner \/ outlet)
  BY <1>1
<1>6. ~(inner \/ corner \/ outlet) => x - Cx(d) \in Columns \/ Blocked(mask, y - Cy(d), x - Cx(d))
  <2> SUFFICES ASSUME ~(inner \/ corner \/ outlet)
               PROVE  x - Cx(d) \in Columns \/ Blocked(mask, y - Cy(d), x - Cx(d))
    OBVIOUS
  <2>1. /\ Cx(d) \in {-1, 0, 1} /\ Cy(d) \in {-1, 0, 1}
        /\ Cx(d) = 1 <=> d \in {1, 5, 8}
        /\ Cx(d) = -1 <=> d \in {3, 6, 7}
        /\ d \in {5, 6, 2} <=> Cy(d) = 1
        /\ d \in {7, 8, 4} <=> Cy(d) = -1
    BY Tables DEF Unknown, Leaving
  <2>2. CASE x = 0 /\ Cx(d) = 1
    BY <1>1, <2>1, <2>2 DEF Blocked
  <2>3. CASE x = NX - 1 /\ Cx(d) = -1
    BY <1>1, <2>1, <2>3 DEF Blocked
  <2>4. CASE ~(x = 0 /\ Cx(d) = 1) /\ ~(x = NX - 1 /\ Cx(d) = -1)
    BY <1>1, <2>1, <2>4
  <2> QED
    BY <2>2, <2>3, <2>4
<1> QED
  BY <1>3, <1>4, <1>5, <1>6 DEF term

\* No other place takes it.
LEMMA OnlyTarget ==
    ASSUME NEW mask, NEW py, NEW px, NEW pd \in Directions, FluidCell(mask, py, px),
           NEW y \in Rows, NEW x \in Columns, NEW d \in Directions,
           KernelStep(mask, y, x, d) = From(py, px, pd)
    PROVE  <<y, x, d>> = Target(mask, py, px, pd)
<1> DEFINE term == KernelStep(mask, y, x, d)
           sy == y - Cy(d)
           sx == x - Cx(d)
<1>1. /\ NX \in Nat /\ NX >= 4 /\ NY \in Nat /\ NY >= 5 /\ Columns = 0 .. NX - 1 /\ Rows = 0 .. NY - 1
      /\ x \in 0 .. NX - 1 /\ y \in 0 .. NY - 1 /\ px \in 0 .. NX - 1 /\ py \in 1 .. NY - 2
      /\ <<py, px>> \notin mask
  BY GridFacts DEF FluidCell
<1>2. term = <<"from", py, px, pd>> /\ term[1] = "from" /\ term[2] = py /\ term[3] = px /\ term[4] = pd
  BY DEF From
<1>3. y \notin {0, NY - 1} /\ <<y, x>> \notin mask
  <2> SUFFICES ASSUME y \in {0, NY - 1} \/ <<y, x>> \in mask PROVE FALSE
    OBVIOUS
  <2>1. term = <<"from", y, x, d>>
    BY DEF KernelStep, From
  <2>2. y = py /\ x = px
    BY <1>2, <2>1
  <2> QED
    BY <1>1, <2>2
<1>4. y \in 1 .. NY - 2
  BY <1>1, <1>3
<1>5. term = Pull(mask, y, x, d) /\ (sx \in Columns \/ Blocked(mask, sy, sx))
  BY <1>2, <1>3, <1>4, OnlyPulls
<1>6. /\ Cx(d) \in {-1, 0, 1} /\ Cy(d) \in {-1, 0, 1} /\ KernelX(d) = Cx(d) /\ KernelY(d) = Cy(d)
      /\ KernelOpposite(d) = Opposite(d) /\ Opposite(Opposite(d)) = d
      /\ Cx(Opposite(d)) = -Cx(d) /\ Cy(Opposite(d)) = -Cy(d)
  BY Tables
<1>7. term = IF Blocked(mask, sy, sx) THEN From(y, x, Opposite(d))
             ELSE IF sx < 0 \/ sx >= NX THEN From(y, x, d) ELSE From(sy, sx, d)
  BY <1>5, <1>6 DEF Pull, Blocked
<1>8. CASE Blocked(mask, sy, sx)
  <2>1. term = <<"from", y, x, Opposite(d)>>
    BY <1>7, <1>8 DEF From
  <2>2. y = py /\ x = px /\ Opposite(d) = pd
    BY <1>2, <2>1
  <2>3. d = Opposite(pd) /\ py + Cy(pd) = sy /\ px + Cx(pd) = sx
    BY <1>1, <1>6, <2>2
  <2> HIDE DEF sy, sx, term
  <2> QED
    BY <1>8, <2>2, <2>3 DEF Target
<1>9. CASE ~Blocked(mask, sy, sx)
  <2>1. ~(sx < 0 \/ sx >= NX)
    BY <1>1, <1>5, <1>9
  <2>2. term = <<"from", sy, sx, d>>
    BY <1>7, <1>9, <2>1 DEF From
  <2>3. sy = py /\ sx = px /\ d = pd
    <3> HIDE DEF sy, sx
    <3> QED
      BY <1>2, <2>2
  <2>4. py + Cy(pd) = y /\ px + Cx(pd) = x
    BY <1>1, <1>6, <2>3
  <2>5. ~Blocked(mask, y, x)
    BY <1>3, <1>4, <1>1 DEF Blocked
  <2> HIDE DEF sy, sx, term
  <2> QED
    BY <2>3, <2>4, <2>5 DEF Target
<1> QED
  BY <1>8, <1>9

\* And its target does, unless it reaches the inlet or the outlet.
LEMMA TargetTakes ==
    ASSUME NEW mask, NEW y, NEW x \in 1 .. NX - 2, NEW d \in Directions, FluidCell(mask, y, x),
           x + Cx(d) \in 1 .. NX - 2
    PROVE  LET t == Target(mask, y, x, d)
           IN  t \in Places /\ KernelStep(mask, t[1], t[2], t[3]) = From(y, x, d)
<1> DEFINE ty == y + Cy(d)
           tx == x + Cx(d)
           o == Opposite(d)
<1>1. /\ NX \in Nat /\ NX >= 4 /\ NY \in Nat /\ NY >= 5 /\ Columns = 0 .. NX - 1 /\ Rows = 0 .. NY - 1
      /\ y \in 1 .. NY - 2 /\ <<y, x>> \notin mask /\ y \in Rows /\ x \in Columns
  BY GridFacts DEF FluidCell
<1>2. /\ Cx(d) \in {-1, 0, 1} /\ Cy(d) \in {-1, 0, 1} /\ KernelX(d) = Cx(d) /\ KernelY(d) = Cy(d)
      /\ o \in Directions /\ KernelX(o) = -Cx(d) /\ KernelY(o) = -Cy(d) /\ KernelOpposite(o) = d
  <2>1. Opposite(d) \in Directions
    BY Tables
  <2> QED
    BY <2>1, Tables
<1>3. CASE Blocked(mask, ty, tx)
  <2>1. Target(mask, y, x, d) = <<y, x, o>>
    BY <1>3 DEF Target
  <2>2. KernelStep(mask, y, x, o) = Pull(mask, y, x, o)
    BY <1>1, <1>2, OnlyPulls
  <2>3. y - KernelY(o) = ty /\ x - KernelX(o) = tx
    BY <1>1, <1>2
  <2> HIDE DEF ty, tx, o
  <2>4. Pull(mask, y, x, o) = From(y, x, d)
    BY <1>2, <1>3, <2>3 DEF Pull, Blocked
  <2> QED
    BY <1>1, <1>2, <2>1, <2>2, <2>4 DEF Places
<1>4. CASE ~Blocked(mask, ty, tx)
  <2>1. Target(mask, y, x, d) = <<ty, tx, d>>
    BY <1>4 DEF Target
  <2>2. ty \in 1 .. NY - 2 /\ ty \in Rows /\ tx \in Columns /\ tx \in 1 .. NX - 2 /\ <<ty, tx>> \notin mask
    BY <1>1, <1>2, <1>4 DEF Blocked
  <2>3. ty - KernelY(d) = y /\ tx - KernelX(d) = x
    BY <1>1, <1>2
  <2> HIDE DEF ty, tx
  <2>4. KernelStep(mask, ty, tx, d) = Pull(mask, ty, tx, d)
    BY <2>2, OnlyPulls
  <2>5. ~(y <= 0 \/ y >= NY - 1) /\ ~(x < 0 \/ x >= NX)
    BY <1>1
  <2>6. Pull(mask, ty, tx, d) = From(y, x, d)
    BY <1>1, <2>3, <2>5 DEF Pull
  <2> QED
    BY <2>1, <2>2, <2>4, <2>6 DEF Places
<1> QED
  BY <1>3, <1>4

\* A population that turns round away from the walls does so at the obstacle, and pushes it.
LEMMA TurnsPush ==
    ASSUME NEW mask, NEW y, NEW x \in 1 .. NX - 2, NEW d \in Directions, FluidCell(mask, y, x),
           y + Cy(d) \notin {0, NY - 1}
    PROVE  LET t == Target(mask, y, x, d)
           IN  <<Cx(d) - Cx(t[3]), Cy(d) - Cy(t[3])>> = Exchange(mask, <<y, x, d>>)
<1> DEFINE ty == y + Cy(d)
           tx == x + Cx(d)
           o == Opposite(d)
           place == <<y, x, d>>
<1>1. /\ NX \in Nat /\ NX >= 4 /\ NY \in Nat /\ NY >= 5 /\ Columns = 0 .. NX - 1 /\ Rows = 0 .. NY - 1
      /\ y \in 1 .. NY - 2 /\ <<y, x>> \notin mask /\ y \in Rows /\ x \in Columns
  BY GridFacts DEF FluidCell
<1>2. /\ Cx(d) \in {-1, 0, 1} /\ Cy(d) \in {-1, 0, 1} /\ Cx(o) = -Cx(d) /\ Cy(o) = -Cy(d)
      /\ d = 0 => Cx(d) = 0 /\ Cy(d) = 0
  BY Tables
<1>3. Blocked(mask, ty, tx) <=> <<ty, tx>> \in mask
  BY <1>1, <1>2 DEF Blocked
<1>4. d = 0 => <<ty, tx>> = <<y, x>>
  BY <1>1, <1>2
<1>5. place[1] = y /\ place[2] = x /\ place[3] = d
  OBVIOUS
<1>6. place \in Rows \X Columns \X (Directions \ {0}) <=> d # 0
  BY <1>1
<1>7. place \in Links(mask) <=> <<ty, tx>> \in mask
  <2> HIDE DEF place
  <2>1. place \in Links(mask) <=> d # 0 /\ <<ty, tx>> \in mask
    BY <1>1, <1>5, <1>6 DEF Links
  <2> QED
    BY <1>1, <1>4, <2>1
<1>8. Exchange(mask, place) = IF <<ty, tx>> \in mask THEN <<2 * Cx(d), 2 * Cy(d)>> ELSE <<0, 0>>
  BY <1>5, <1>7 DEF Exchange
<1>9. Target(mask, y, x, d)[3] = IF <<ty, tx>> \in mask THEN o ELSE d
  BY <1>3 DEF Target
<1>10. Cx(d) - Cx(o) = 2 * Cx(d) /\ Cy(d) - Cy(o) = 2 * Cy(d) /\ Cx(d) - Cx(d) = 0 /\ Cy(d) - Cy(d) = 0
  BY <1>2
<1> HIDE DEF ty, tx, o, place
<1> QED
  BY <1>8, <1>9, <1>10 DEF place

\* Nothing of the fluid is lost or doubled.
LEMMA NothingDoesVanish ==
    ASSUME NEW mask
    PROVE  NothingIsLost(mask)
<1> DEFINE moved == [q \in Places |-> KernelStep(mask, q[1], q[2], q[3])]
<1> SUFFICES ASSUME NEW p \in Fluid(mask)
             PROVE  LET arrivals == {q \in Places : moved[q] = From(p[1], p[2], p[3])}
                        stays == p[2] + Cx(p[3]) \in 1 .. NX - 2 /\ p[2] \in 1 .. NX - 2
                        walled == p[1] + Cy(p[3]) \in {0, NY - 1}
                    IN  /\ Cardinality(arrivals) <= 1
                        /\ stays => Cardinality(arrivals) = 1
                        /\ \A q \in arrivals : stays /\ ~walled =>
                              <<Cx(p[3]) - Cx(q[3]), Cy(p[3]) - Cy(q[3])>> = Exchange(mask, p)
  BY DEF NothingIsLost
<1> DEFINE arrivals == {q \in Places : moved[q] = From(p[1], p[2], p[3])}
           stays == p[2] + Cx(p[3]) \in 1 .. NX - 2 /\ p[2] \in 1 .. NX - 2
           walled == p[1] + Cy(p[3]) \in {0, NY - 1}
           t == Target(mask, p[1], p[2], p[3])
<1>1. /\ p \in Places /\ p[3] \in Directions /\ FluidCell(mask, p[1], p[2])
      /\ p = <<p[1], p[2], p[3]>>
  BY PlaceFacts DEF Fluid, FluidCell
<1>2. ASSUME NEW q \in Places PROVE moved[q] = KernelStep(mask, q[1], q[2], q[3])
  OBVIOUS
<1> HIDE DEF moved
<1>3. ASSUME NEW q \in arrivals PROVE q = t
  <2>1. KernelStep(mask, q[1], q[2], q[3]) = From(p[1], p[2], p[3])
    BY <1>2
  <2>2. q[1] \in Rows /\ q[2] \in Columns /\ q[3] \in Directions /\ q = <<q[1], q[2], q[3]>>
    BY PlaceFacts
  <2> QED
    BY <1>1, <2>1, <2>2, OnlyTarget
<1>4. stays => t \in arrivals
  BY <1>1, <1>2, TargetTakes
<1>5. stays /\ ~walled => <<Cx(p[3]) - Cx(t[3]), Cy(p[3]) - Cy(t[3])>> = Exchange(mask, p)
  BY <1>1, TurnsPush
<1> HIDE DEF arrivals, stays, walled, t
<1>6. Cardinality(arrivals) <= 1 /\ (stays => Cardinality(arrivals) = 1)
  <2>1. arrivals \subseteq {t} /\ IsFiniteSet({t}) /\ Cardinality({t}) = 1
    BY <1>3, FS_Singleton
  <2>2. Cardinality(arrivals) <= 1
    BY <2>1, FS_Subset
  <2>3. stays => arrivals = {t}
    BY <1>4, <2>1
  <2> QED
    BY <2>1, <2>2, <2>3
<1> QED
  BY <1>3, <1>5, <1>6 DEF arrivals, stays, walled

\* Every link lies in the tile that its number is rounded down to.
LEMMA TileIsOne ==
    ASSUME NEW count \in Nat, NEW index \in 0 .. count - 1
    PROVE  \E one : {start \in TileStops(count) : index \in TileOf(start, count)} = {one}
<1>1. Tile \in Nat \ {0}
  BY LatticeAssumption
<1> DEFINE stop(start) == Min({start + Tile, count})
           r == index % Tile
           one == index - r
<1>2. ASSUME NEW start \in Nat
      PROVE  stop(start) = IF start + Tile <= count THEN start + Tile ELSE count
  <2> DEFINE m == IF start + Tile <= count THEN start + Tile ELSE count
             S == {start + Tile, count}
  <2>1. m \in S /\ m \in Nat /\ (\A a \in S : m <= a /\ a \in Nat)
    BY <1>1
  <2> HIDE DEF m, S
  <2>2. \A a \in S : (\A b \in S : a <= b) => a = m
    BY <2>1
  <2>3. Min(S) = m
    BY <2>1, <2>2 DEF Min
  <2> QED
    BY <2>3 DEF S, m
<1>3. ASSUME NEW start \in Nat
      PROVE  index \in TileOf(start, count) <=> start <= index /\ index < start + Tile
  <2>1. TileOf(start, count) = start .. stop(start) - 1
    BY DEF TileOf
  <2> HIDE DEF stop
  <2> QED
    BY <1>1, <1>2, <2>1
<1>4. r \in 0 .. Tile - 1 /\ index \in Nat /\ index = Tile * (index \div Tile) + r /\ index \div Tile \in Nat
  <2>1. index \in Nat
    OBVIOUS
  <2> QED
    BY <1>1, <2>1, Division
<1>5. one \in 0 .. count - 1 /\ one % Tile = 0 /\ one <= index /\ index < one + Tile
  <2> DEFINE k == index \div Tile
             m == Tile * k
  <2>1. (k * Tile + 0) % Tile = 0 /\ k * Tile + 0 = m /\ m \in Nat
    <3> HIDE DEF k
    <3>1. 0 \in 0 .. Tile - 1 /\ k \in Nat
      BY <1>1, <1>4 DEF k
    <3>2. (k * Tile + 0) % Tile = 0
      BY <1>1, <3>1, WholePart
    <3>3. k * Tile + 0 = m /\ m \in Nat
      BY <1>1, <3>1
    <3> QED
      BY <3>2, <3>3
  <2>2. index = m + r
    BY <1>4
  <2> HIDE DEF m, r
  <2>3. one = m
    BY <1>4, <2>1, <2>2
  <2> HIDE DEF one
  <2> QED
    BY <1>1, <1>4, <2>1, <2>2, <2>3
<1>6. ASSUME NEW start \in Nat, start % Tile = 0, start <= index, index < start + Tile
      PROVE  start = one
  <2> DEFINE k == start \div Tile
  <2>1. k \in Nat /\ start = Tile * k + 0
    BY <1>1, <1>6, Division
  <2>2. index - start \in 0 .. Tile - 1 /\ index = start + (index - start)
    BY <1>1, <1>4, <1>6
  <2> DEFINE e == index - start
  <2>3. (k * Tile + e) % Tile = e
    <3> HIDE DEF k, e
    <3> QED
      BY <1>1, <2>1, <2>2, WholePart DEF e
  <2>4. k * Tile = start
    <3> HIDE DEF k
    <3> QED
      BY <1>1, <2>1
  <2>5. index % Tile = e
    <3> HIDE DEF e
    <3>1. index = k * Tile + e
      BY <2>2, <2>4 DEF e
    <3> QED
      BY <2>3, <3>1
  <2> QED
    BY <1>4, <1>6, <2>5
<1>7. TileStops(count) \subseteq Nat
  BY DEF TileStops
<1>8. \A start \in TileStops(count) : start % Tile = 0
  BY DEF TileStops
<1>9. one \in TileStops(count)
  BY <1>5 DEF TileStops
<1> HIDE DEF one, r
<1>10. {start \in TileStops(count) : index \in TileOf(start, count)} = {one}
  BY <1>3, <1>5, <1>6, <1>7, <1>8, <1>9
<1> QED
  BY <1>10

LEMMA TilesDoPartition ==
    ASSUME NEW count \in Nat
    PROVE  TilesPartition(count)
<1> SUFFICES ASSUME NEW index \in 0 .. count - 1
             PROVE  Cardinality({start \in TileStops(count) : index \in TileOf(start, count)}) = 1
  BY DEF TilesPartition
<1>1. PICK one : {start \in TileStops(count) : index \in TileOf(start, count)} = {one}
  BY TileIsOne
<1> QED
  BY <1>1, FS_Singleton

LEMMA LinksAreFinite ==
    ASSUME NEW mask
    PROVE  Cardinality(Links(mask)) \in Nat
<1> DEFINE pairs == (Rows \X Columns) \X Directions
           triple == [e \in pairs |-> <<e[1][1], e[1][2], e[2]>>]
           triples == {triple[e] : e \in pairs}
<1>1. 0 \in Int /\ 8 \in Int /\ NX - 1 \in Int /\ NY - 1 \in Int
  BY GridFacts
<1>2. IsFiniteSet(Rows) /\ IsFiniteSet(Columns) /\ IsFiniteSet(Directions)
  BY <1>1, GridFacts, FS_Interval DEF Directions
<1>3. IsFiniteSet(pairs)
  BY <1>2, FS_Product
<1>4. IsFiniteSet(triples)
  <2> HIDE DEF pairs
  <2>1. triple \in [pairs -> triples] /\ triple \in Surjection(pairs, triples)
    BY DEF Surjection
  <2> HIDE DEF triple, triples
  <2> QED
    BY <1>3, <2>1, FS_Surjection
<1>5. Links(mask) \subseteq triples
  <2> SUFFICES ASSUME NEW l \in Links(mask) PROVE l \in triples
    OBVIOUS
  <2> DEFINE e == <<<<l[1], l[2]>>, l[3]>>
  <2>1. l \in Rows \X Columns \X (Directions \ {0})
    BY DEF Links
  <2>2. e \in pairs /\ l = <<l[1], l[2], l[3]>> /\ e[1][1] = l[1] /\ e[1][2] = l[2] /\ e[2] = l[3]
    BY <2>1
  <2>3. triple[e] = l
    BY <2>2
  <2> HIDE DEF triple, pairs, e
  <2> QED
    BY <2>2, <2>3
<1> HIDE DEF triples
<1>6. IsFiniteSet(Links(mask))
  BY <1>4, <1>5, FS_Subset
<1> QED
  BY <1>6, FS_CardinalityType

\* All of what streaming promises, of every obstacle that leaves the walls, the inlet and
\* the sponge clear.
LEMMA StreamingDoesAgree ==
    ASSUME NEW mask, Clear(mask)
    PROVE  StreamingIsExact(mask)
  BY StepsDoAgree, NothingDoesVanish, OwnersDoApply, LinksAreFinite, TilesDoPartition DEF StreamingIsExact

-----------------------------------------------------------------------------
(* The formulas at one node: every sum is linear in products that are      *)
(* named once.                                                             *)

LEMMA TableValues ==
    /\ Cx(0) = 0 /\ Cx(1) = 1 /\ Cx(2) = 0 /\ Cx(3) = -1 /\ Cx(4) = 0
    /\ Cx(5) = 1 /\ Cx(6) = -1 /\ Cx(7) = -1 /\ Cx(8) = 1
    /\ Cy(0) = 0 /\ Cy(1) = 0 /\ Cy(2) = 1 /\ Cy(3) = 0 /\ Cy(4) = -1
    /\ Cy(5) = 1 /\ Cy(6) = 1 /\ Cy(7) = -1 /\ Cy(8) = -1
    /\ Weight(0) = 16 /\ Weight(1) = 4 /\ Weight(2) = 4 /\ Weight(3) = 4 /\ Weight(4) = 4
    /\ Weight(5) = 1 /\ Weight(6) = 1 /\ Weight(7) = 1 /\ Weight(8) = 1
  BY DEF Cx, Cy, Weight, VelocityTable, WeightTable

LEMMA NineDirections == Directions = {0, 1, 2, 3, 4, 5, 6, 7, 8}
  BY DEF Directions

\* The sums that the properties are about.
LEMMA SumsOfValues ==
    ASSUME NEW g, \A d \in Directions : g[d] \in Int
    PROVE  /\ DirectionSum(LAMBDA d : g[d]) = g[0] + g[1] + g[2] + g[3] + g[4] + g[5] + g[6] + g[7] + g[8]
           /\ DirectionSum(LAMBDA d : Cx(d) * g[d]) = (g[1] + g[5] + g[8]) - (g[3] + g[6] + g[7])
           /\ DirectionSum(LAMBDA d : Cy(d) * g[d]) = (g[2] + g[5] + g[6]) - (g[4] + g[7] + g[8])
           /\ DirectionSum(LAMBDA d : Cx(d) * Cx(d) * g[d]) = g[1] + g[3] + g[5] + g[6] + g[7] + g[8]
           /\ DirectionSum(LAMBDA d : Cx(d) * Cy(d) * g[d]) = (g[5] + g[7]) - (g[6] + g[8])
           /\ DirectionSum(LAMBDA d : Cy(d) * Cy(d) * g[d]) = g[2] + g[4] + g[5] + g[6] + g[7] + g[8]
<1>1. /\ g[0] \in Int /\ g[1] \in Int /\ g[2] \in Int /\ g[3] \in Int /\ g[4] \in Int
      /\ g[5] \in Int /\ g[6] \in Int /\ g[7] \in Int /\ g[8] \in Int
  BY DEF Directions
<1>2. DirectionSum(LAMBDA d : g[d]) = g[0] + g[1] + g[2] + g[3] + g[4] + g[5] + g[6] + g[7] + g[8]
  BY DEF DirectionSum
<1>3. DirectionSum(LAMBDA d : Cx(d) * g[d]) = (g[1] + g[5] + g[8]) - (g[3] + g[6] + g[7])
  BY <1>1, TableValues DEF DirectionSum
<1>4. DirectionSum(LAMBDA d : Cy(d) * g[d]) = (g[2] + g[5] + g[6]) - (g[4] + g[7] + g[8])
  BY <1>1, TableValues DEF DirectionSum
<1>5. DirectionSum(LAMBDA d : Cx(d) * Cx(d) * g[d]) = g[1] + g[3] + g[5] + g[6] + g[7] + g[8]
  BY <1>1, TableValues DEF DirectionSum
<1>6. DirectionSum(LAMBDA d : Cx(d) * Cy(d) * g[d]) = (g[5] + g[7]) - (g[6] + g[8])
  BY <1>1, TableValues DEF DirectionSum
<1>7. DirectionSum(LAMBDA d : Cy(d) * Cy(d) * g[d]) = g[2] + g[4] + g[5] + g[6] + g[7] + g[8]
  BY <1>1, TableValues DEF DirectionSum
<1> QED
  BY <1>2, <1>3, <1>4, <1>5, <1>6, <1>7

LEMMA MomentValues ==
    ASSUME NEW f \in [Directions -> Int]
    PROVE  /\ \A d \in Directions : f[d] \in Int
           /\ Density(f) = f[0] + f[1] + f[2] + f[3] + f[4] + f[5] + f[6] + f[7] + f[8]
           /\ MomentumX(f) = (f[1] + f[5] + f[8]) - (f[3] + f[6] + f[7])
           /\ MomentumY(f) = (f[2] + f[5] + f[6]) - (f[4] + f[7] + f[8])
           /\ Density(f) \in Int /\ MomentumX(f) \in Int /\ MomentumY(f) \in Int
<1>1. \A d \in Directions : f[d] \in Int
  OBVIOUS
<1>2. /\ f[0] \in Int /\ f[1] \in Int /\ f[2] \in Int /\ f[3] \in Int /\ f[4] \in Int
      /\ f[5] \in Int /\ f[6] \in Int /\ f[7] \in Int /\ f[8] \in Int
  BY DEF Directions
<1>3. /\ Density(f) = f[0] + f[1] + f[2] + f[3] + f[4] + f[5] + f[6] + f[7] + f[8]
      /\ MomentumX(f) = (f[1] + f[5] + f[8]) - (f[3] + f[6] + f[7])
      /\ MomentumY(f) = (f[2] + f[5] + f[6]) - (f[4] + f[7] + f[8])
  BY <1>1, SumsOfValues DEF Density, MomentumX, MomentumY
<1> QED
  BY <1>1, <1>2, <1>3

LEMMA EquilibriumTerms ==
    ASSUME NEW rho \in Int, NEW mx \in Int, NEW my \in Int
    PROVE  LET A == rho * rho  B == rho * mx  C == rho * my
               D == mx * mx    E == mx * my   F == my * my
               e(d) == Equilibrium(d, rho, mx, my)
           IN  /\ e(0) = 32 * A - 48 * D - 48 * F
               /\ e(1) = 8 * A + 24 * B + 24 * D - 12 * F
               /\ e(2) = 8 * A + 24 * C + 24 * F - 12 * D
               /\ e(3) = 8 * A - 24 * B + 24 * D - 12 * F
               /\ e(4) = 8 * A - 24 * C + 24 * F - 12 * D
               /\ e(5) = 2 * A + 6 * B + 6 * C + 6 * D + 6 * F + 18 * E
               /\ e(6) = 2 * A - 6 * B + 6 * C + 6 * D + 6 * F - 18 * E
               /\ e(7) = 2 * A - 6 * B - 6 * C + 6 * D + 6 * F + 18 * E
               /\ e(8) = 2 * A + 6 * B - 6 * C + 6 * D + 6 * F - 18 * E
  BY TableValues DEF Equilibrium

\* What a factor does to the three sums of nine values.
LEMMA Distributed ==
    ASSUME NEW r \in Int, NEW v, \A d \in Directions : v[d] \in Int
    PROVE  /\ \A d \in Directions : r * v[d] \in Int
           /\ r * (v[0] + v[1] + v[2] + v[3] + v[4] + v[5] + v[6] + v[7] + v[8])
                 = r * v[0] + r * v[1] + r * v[2] + r * v[3] + r * v[4] + r * v[5] + r * v[6] + r * v[7] + r * v[8]
           /\ r * ((v[1] + v[5] + v[8]) - (v[3] + v[6] + v[7]))
                 = (r * v[1] + r * v[5] + r * v[8]) - (r * v[3] + r * v[6] + r * v[7])
           /\ r * ((v[2] + v[5] + v[6]) - (v[4] + v[7] + v[8]))
                 = (r * v[2] + r * v[5] + r * v[6]) - (r * v[4] + r * v[7] + r * v[8])
           /\ r * ((v[5] + v[7]) - (v[6] + v[8])) = (r * v[5] + r * v[7]) - (r * v[6] + r * v[8])
           /\ r * (v[1] + v[3] + v[5] + v[6] + v[7] + v[8])
                 = r * v[1] + r * v[3] + r * v[5] + r * v[6] + r * v[7] + r * v[8]
<1>1. /\ v[0] \in Int /\ v[1] \in Int /\ v[2] \in Int /\ v[3] \in Int /\ v[4] \in Int
      /\ v[5] \in Int /\ v[6] \in Int /\ v[7] \in Int /\ v[8] \in Int
  BY DEF Directions
<1>2. \A d \in Directions : r * v[d] \in Int
  OBVIOUS
<1>3. ASSUME NEW a \in Int, NEW b \in Int
      PROVE  /\ r * (a + b) = r * a + r * b /\ r * (a - b) = r * a - r * b
             /\ r * a \in Int /\ a + b \in Int
  OBVIOUS
<1>4. r * (v[0] + v[1] + v[2] + v[3] + v[4] + v[5] + v[6] + v[7] + v[8])
         = r * v[0] + r * v[1] + r * v[2] + r * v[3] + r * v[4] + r * v[5] + r * v[6] + r * v[7] + r * v[8]
  <2> DEFINE low == v[0] + v[1] + v[2] + v[3] + v[4]
             high == v[5] + v[6] + v[7] + v[8]
  <2>1. /\ r * low = r * v[0] + r * v[1] + r * v[2] + r * v[3] + r * v[4]
        /\ r * high = r * v[5] + r * v[6] + r * v[7] + r * v[8]
    BY <1>1, <1>3
  <2>2. r * (low + high) = r * low + r * high
    BY <1>1, <1>3
  <2>3. low + high = v[0] + v[1] + v[2] + v[3] + v[4] + v[5] + v[6] + v[7] + v[8]
    BY <1>1
  <2> HIDE DEF low, high
  <2> QED
    BY <1>1, <1>3, <2>1, <2>2, <2>3
<1>5. r * ((v[1] + v[5] + v[8]) - (v[3] + v[6] + v[7]))
         = (r * v[1] + r * v[5] + r * v[8]) - (r * v[3] + r * v[6] + r * v[7])
  BY <1>1, <1>3
<1>6. r * ((v[2] + v[5] + v[6]) - (v[4] + v[7] + v[8]))
         = (r * v[2] + r * v[5] + r * v[6]) - (r * v[4] + r * v[7] + r * v[8])
  BY <1>1, <1>3
<1>7. r * ((v[5] + v[7]) - (v[6] + v[8])) = (r * v[5] + r * v[7]) - (r * v[6] + r * v[8])
  BY <1>1, <1>3
<1>8. r * (v[1] + v[3] + v[5] + v[6] + v[7] + v[8])
         = r * v[1] + r * v[3] + r * v[5] + r * v[6] + r * v[7] + r * v[8]
  BY <1>1, <1>3
<1> QED
  BY <1>2, <1>4, <1>5, <1>6, <1>7, <1>8

\* The sums of a combination are the combination of the sums.
LEMMA Combined ==
    ASSUME NEW a \in Int, NEW p, \A d \in Directions : p[d] \in Int,
           NEW b \in Int, NEW e, \A d \in Directions : e[d] \in Int,
           NEW c, \A d \in Directions : c[d] = a * p[d] + b * e[d]
    PROVE  /\ \A d \in Directions : c[d] \in Int
           /\ c[0] + c[1] + c[2] + c[3] + c[4] + c[5] + c[6] + c[7] + c[8]
                 = a * (p[0] + p[1] + p[2] + p[3] + p[4] + p[5] + p[6] + p[7] + p[8])
                   + b * (e[0] + e[1] + e[2] + e[3] + e[4] + e[5] + e[6] + e[7] + e[8])
           /\ (c[1] + c[5] + c[8]) - (c[3] + c[6] + c[7])
                 = a * ((p[1] + p[5] + p[8]) - (p[3] + p[6] + p[7])) + b * ((e[1] + e[5] + e[8]) - (e[3] + e[6] + e[7]))
           /\ (c[2] + c[5] + c[6]) - (c[4] + c[7] + c[8])
                 = a * ((p[2] + p[5] + p[6]) - (p[4] + p[7] + p[8])) + b * ((e[2] + e[5] + e[6]) - (e[4] + e[7] + e[8]))
<1> DEFINE x == [d \in Directions |-> a * p[d]]
           y == [d \in Directions |-> b * e[d]]
<1>1. \A d \in Directions : x[d] = a * p[d] /\ y[d] = b * e[d] /\ x[d] \in Int /\ y[d] \in Int
  OBVIOUS
<1> HIDE DEF x, y
<1>2. \A d \in Directions : c[d] = x[d] + y[d] /\ c[d] \in Int
  BY <1>1
<1>3. /\ x[0] \in Int /\ x[1] \in Int /\ x[2] \in Int /\ x[3] \in Int /\ x[4] \in Int
      /\ x[5] \in Int /\ x[6] \in Int /\ x[7] \in Int /\ x[8] \in Int
      /\ y[0] \in Int /\ y[1] \in Int /\ y[2] \in Int /\ y[3] \in Int /\ y[4] \in Int
      /\ y[5] \in Int /\ y[6] \in Int /\ y[7] \in Int /\ y[8] \in Int
  BY <1>1, NineDirections
<1>4. /\ c[0] = x[0] + y[0] /\ c[1] = x[1] + y[1] /\ c[2] = x[2] + y[2] /\ c[3] = x[3] + y[3] /\ c[4] = x[4] + y[4]
      /\ c[5] = x[5] + y[5] /\ c[6] = x[6] + y[6] /\ c[7] = x[7] + y[7] /\ c[8] = x[8] + y[8]
  BY <1>2, NineDirections
<1>5. /\ x[0] + x[1] + x[2] + x[3] + x[4] + x[5] + x[6] + x[7] + x[8]
            = a * (p[0] + p[1] + p[2] + p[3] + p[4] + p[5] + p[6] + p[7] + p[8])
      /\ (x[1] + x[5] + x[8]) - (x[3] + x[6] + x[7]) = a * ((p[1] + p[5] + p[8]) - (p[3] + p[6] + p[7]))
      /\ (x[2] + x[5] + x[6]) - (x[4] + x[7] + x[8]) = a * ((p[2] + p[5] + p[6]) - (p[4] + p[7] + p[8]))
  <2> DEFINE m(k) == a * p[k]
             all == a * (p[0] + p[1] + p[2] + p[3] + p[4] + p[5] + p[6] + p[7] + p[8])
             allX == a * ((p[1] + p[5] + p[8]) - (p[3] + p[6] + p[7]))
             allY == a * ((p[2] + p[5] + p[6]) - (p[4] + p[7] + p[8]))
  <2>1. /\ all = m(0) + m(1) + m(2) + m(3) + m(4) + m(5) + m(6) + m(7) + m(8)
        /\ allX = (m(1) + m(5) + m(8)) - (m(3) + m(6) + m(7))
        /\ allY = (m(2) + m(5) + m(6)) - (m(4) + m(7) + m(8))
    BY Distributed
  <2>2. \A d \in Directions : x[d] = m(d)
    BY <1>1
  <2> HIDE DEF m, all, allX, allY
  <2>3. /\ x[0] = m(0) /\ x[1] = m(1) /\ x[2] = m(2) /\ x[3] = m(3) /\ x[4] = m(4)
        /\ x[5] = m(5) /\ x[6] = m(6) /\ x[7] = m(7) /\ x[8] = m(8)
    BY <2>2, NineDirections
  <2>4. /\ x[0] + x[1] + x[2] + x[3] + x[4] + x[5] + x[6] + x[7] + x[8] = all
        /\ (x[1] + x[5] + x[8]) - (x[3] + x[6] + x[7]) = allX
        /\ (x[2] + x[5] + x[6]) - (x[4] + x[7] + x[8]) = allY
    BY <2>1, <2>3
  <2> QED
    BY <2>4 DEF all, allX, allY
<1>6. /\ y[0] + y[1] + y[2] + y[3] + y[4] + y[5] + y[6] + y[7] + y[8]
            = b * (e[0] + e[1] + e[2] + e[3] + e[4] + e[5] + e[6] + e[7] + e[8])
      /\ (y[1] + y[5] + y[8]) - (y[3] + y[6] + y[7]) = b * ((e[1] + e[5] + e[8]) - (e[3] + e[6] + e[7]))
      /\ (y[2] + y[5] + y[6]) - (y[4] + y[7] + y[8]) = b * ((e[2] + e[5] + e[6]) - (e[4] + e[7] + e[8]))
  <2> DEFINE m(k) == b * e[k]
             all == b * (e[0] + e[1] + e[2] + e[3] + e[4] + e[5] + e[6] + e[7] + e[8])
             allX == b * ((e[1] + e[5] + e[8]) - (e[3] + e[6] + e[7]))
             allY == b * ((e[2] + e[5] + e[6]) - (e[4] + e[7] + e[8]))
  <2>1. /\ all = m(0) + m(1) + m(2) + m(3) + m(4) + m(5) + m(6) + m(7) + m(8)
        /\ allX = (m(1) + m(5) + m(8)) - (m(3) + m(6) + m(7))
        /\ allY = (m(2) + m(5) + m(6)) - (m(4) + m(7) + m(8))
    BY Distributed
  <2>2. \A d \in Directions : y[d] = m(d)
    BY <1>1
  <2> HIDE DEF m, all, allX, allY
  <2>3. /\ y[0] = m(0) /\ y[1] = m(1) /\ y[2] = m(2) /\ y[3] = m(3) /\ y[4] = m(4)
        /\ y[5] = m(5) /\ y[6] = m(6) /\ y[7] = m(7) /\ y[8] = m(8)
    BY <2>2, NineDirections
  <2>4. /\ y[0] + y[1] + y[2] + y[3] + y[4] + y[5] + y[6] + y[7] + y[8] = all
        /\ (y[1] + y[5] + y[8]) - (y[3] + y[6] + y[7]) = allX
        /\ (y[2] + y[5] + y[6]) - (y[4] + y[7] + y[8]) = allY
    BY <2>1, <2>3
  <2> QED
    BY <2>4 DEF all, allX, allY
<1>7. c[0] + c[1] + c[2] + c[3] + c[4] + c[5] + c[6] + c[7] + c[8]
         = (x[0] + x[1] + x[2] + x[3] + x[4] + x[5] + x[6] + x[7] + x[8])
           + (y[0] + y[1] + y[2] + y[3] + y[4] + y[5] + y[6] + y[7] + y[8])
  BY <1>3, <1>4
<1>8. (c[1] + c[5] + c[8]) - (c[3] + c[6] + c[7])
         = ((x[1] + x[5] + x[8]) - (x[3] + x[6] + x[7])) + ((y[1] + y[5] + y[8]) - (y[3] + y[6] + y[7]))
  BY <1>3, <1>4
<1>9. (c[2] + c[5] + c[6]) - (c[4] + c[7] + c[8])
         = ((x[2] + x[5] + x[6]) - (x[4] + x[7] + x[8])) + ((y[2] + y[5] + y[6]) - (y[4] + y[7] + y[8]))
  BY <1>3, <1>4
<1> QED
  BY <1>2, <1>5, <1>6, <1>7, <1>8, <1>9

LEMMA CollisionKeeps ==
    ASSUME NEW f \in [Directions -> Int]
    PROVE  /\ DirectionSum(LAMBDA d : Collided(f, d)) = 144 * Density(f) * Density(f)
           /\ DirectionSum(LAMBDA d : Cx(d) * Collided(f, d)) = 144 * Density(f) * MomentumX(f)
           /\ DirectionSum(LAMBDA d : Cy(d) * Collided(f, d)) = 144 * Density(f) * MomentumY(f)
<1> DEFINE rho == Density(f)
           mx == MomentumX(f)
           my == MomentumY(f)
           A == rho * rho
           B == rho * mx
           C == rho * my
           D == mx * mx
           E == mx * my
           F == my * my
           e == [d \in Directions |-> Equilibrium(d, rho, mx, my)]
           p == [d \in Directions |-> rho * f[d]]
           c == [d \in Directions |-> Collided(f, d)]
<1>1. rho \in Int /\ mx \in Int /\ my \in Int
  BY MomentValues
<1>2. A \in Int /\ B \in Int /\ C \in Int /\ D \in Int /\ E \in Int /\ F \in Int
  <2> HIDE DEF rho, mx, my
  <2> QED
    BY <1>1
<1>3. /\ e[0] = 32 * A - 48 * D - 48 * F
      /\ e[1] = 8 * A + 24 * B + 24 * D - 12 * F
      /\ e[2] = 8 * A + 24 * C + 24 * F - 12 * D
      /\ e[3] = 8 * A - 24 * B + 24 * D - 12 * F
      /\ e[4] = 8 * A - 24 * C + 24 * F - 12 * D
      /\ e[5] = 2 * A + 6 * B + 6 * C + 6 * D + 6 * F + 18 * E
      /\ e[6] = 2 * A - 6 * B + 6 * C + 6 * D + 6 * F - 18 * E
      /\ e[7] = 2 * A - 6 * B - 6 * C + 6 * D + 6 * F + 18 * E
      /\ e[8] = 2 * A + 6 * B - 6 * C + 6 * D + 6 * F - 18 * E
  <2>1. /\ e[0] = Equilibrium(0, rho, mx, my) /\ e[1] = Equilibrium(1, rho, mx, my)
        /\ e[2] = Equilibrium(2, rho, mx, my) /\ e[3] = Equilibrium(3, rho, mx, my)
        /\ e[4] = Equilibrium(4, rho, mx, my) /\ e[5] = Equilibrium(5, rho, mx, my)
        /\ e[6] = Equilibrium(6, rho, mx, my) /\ e[7] = Equilibrium(7, rho, mx, my)
        /\ e[8] = Equilibrium(8, rho, mx, my)
    BY DEF Directions
  <2> HIDE DEF rho, mx, my, e
  <2> QED
    BY <1>1, <2>1, EquilibriumTerms
<1>4. /\ p[0] + p[1] + p[2] + p[3] + p[4] + p[5] + p[6] + p[7] + p[8] = A
      /\ (p[1] + p[5] + p[8]) - (p[3] + p[6] + p[7]) = B
      /\ (p[2] + p[5] + p[6]) - (p[4] + p[7] + p[8]) = C
      /\ \A d \in Directions : p[d] \in Int
  <2>1. \A d \in Directions : f[d] \in Int
    BY MomentValues
  <2> DEFINE sum == f[0] + f[1] + f[2] + f[3] + f[4] + f[5] + f[6] + f[7] + f[8]
             sumX == (f[1] + f[5] + f[8]) - (f[3] + f[6] + f[7])
             sumY == (f[2] + f[5] + f[6]) - (f[4] + f[7] + f[8])
  <2>2. rho = sum /\ mx = sumX /\ my = sumY
    BY MomentValues
  <2>3. p[0] = rho * f[0] /\ p[1] = rho * f[1] /\ p[2] = rho * f[2] /\ p[3] = rho * f[3] /\ p[4] = rho * f[4]
        /\ p[5] = rho * f[5] /\ p[6] = rho * f[6] /\ p[7] = rho * f[7] /\ p[8] = rho * f[8]
        /\ \A d \in Directions : p[d] = rho * f[d]
    BY DEF Directions
  <2> HIDE DEF p, rho, mx, my
  <2>4. A = rho * sum /\ B = rho * sumX /\ C = rho * sumY
    BY <2>2
  <2>5. /\ \A d \in Directions : rho * f[d] \in Int
        /\ rho * sum = rho * f[0] + rho * f[1] + rho * f[2] + rho * f[3] + rho * f[4] + rho * f[5]
                       + rho * f[6] + rho * f[7] + rho * f[8]
        /\ rho * sumX = (rho * f[1] + rho * f[5] + rho * f[8]) - (rho * f[3] + rho * f[6] + rho * f[7])
        /\ rho * sumY = (rho * f[2] + rho * f[5] + rho * f[6]) - (rho * f[4] + rho * f[7] + rho * f[8])
    BY <1>1, <2>1, Distributed
  <2> HIDE DEF A, B, C, sum, sumX, sumY
  <2> QED
    BY <2>3, <2>4, <2>5
<1>5. ASSUME NEW d \in Directions
      PROVE  c[d] = (72 * (2 - Omega)) * p[d] + Omega * e[d] /\ e[d] \in Int
  <2>1. c[d] = 72 * rho * (2 - Omega) * f[d] + Omega * e[d] /\ p[d] = rho * f[d] /\ f[d] \in Int
    BY DEF Collided
  <2>2. e[d] \in Int
    <3> HIDE DEF e, A, B, C, D, E, F
    <3> QED
      BY <1>2, <1>3, NineDirections
  <2> HIDE DEF e, c, p, rho
  <2>3. Omega \in Int
    BY LatticeAssumption
  <2> DEFINE g == f[d]
             w == Omega
  <2> HIDE DEF g, w
  <2>4. 72 * rho * (2 - w) * g = (72 * (2 - w)) * (rho * g)
    BY <1>1, <2>1, <2>3 DEF g, w
  <2> QED
    BY <2>1, <2>2, <2>4 DEF g, w
<1>6. /\ DirectionSum(LAMBDA d : Collided(f, d)) = DirectionSum(LAMBDA d : c[d])
      /\ DirectionSum(LAMBDA d : Cx(d) * Collided(f, d)) = DirectionSum(LAMBDA d : Cx(d) * c[d])
      /\ DirectionSum(LAMBDA d : Cy(d) * Collided(f, d)) = DirectionSum(LAMBDA d : Cy(d) * c[d])
  BY DEF DirectionSum, Directions
<1>7. 144 * rho * rho = 144 * A /\ 144 * rho * mx = 144 * B /\ 144 * rho * my = 144 * C
  <2> HIDE DEF rho, mx, my
  <2> QED
    BY <1>1
<1> HIDE DEF e, p, c, A, B, C, D, E, F
<1>8. /\ e[0] + e[1] + e[2] + e[3] + e[4] + e[5] + e[6] + e[7] + e[8] = 72 * A
      /\ (e[1] + e[5] + e[8]) - (e[3] + e[6] + e[7]) = 72 * B
      /\ (e[2] + e[5] + e[6]) - (e[4] + e[7] + e[8]) = 72 * C
      /\ e[0] \in Int /\ e[1] \in Int /\ e[2] \in Int /\ e[3] \in Int /\ e[4] \in Int
      /\ e[5] \in Int /\ e[6] \in Int /\ e[7] \in Int /\ e[8] \in Int
  BY <1>2, <1>3
<1>9. /\ \A d \in Directions : c[d] \in Int
      /\ c[0] + c[1] + c[2] + c[3] + c[4] + c[5] + c[6] + c[7] + c[8] = 144 * A
      /\ (c[1] + c[5] + c[8]) - (c[3] + c[6] + c[7]) = 144 * B
      /\ (c[2] + c[5] + c[6]) - (c[4] + c[7] + c[8]) = 144 * C
  <2> DEFINE w == Omega
             a == 72 * (2 - w)
  <2>1. w \in Int /\ a \in Int
    BY LatticeAssumption
  <2>2. ASSUME NEW z \in Int PROVE a * z + w * (72 * z) = 144 * z
    <3> HIDE DEF w
    <3> QED
      BY <2>1
  <2> HIDE DEF w, a
  <2>3. \A d \in Directions : c[d] = a * p[d] + w * e[d]
    BY <1>5 DEF w, a
  <2>4. /\ \A d \in Directions : c[d] \in Int
        /\ c[0] + c[1] + c[2] + c[3] + c[4] + c[5] + c[6] + c[7] + c[8] = a * A + w * (72 * A)
        /\ (c[1] + c[5] + c[8]) - (c[3] + c[6] + c[7]) = a * B + w * (72 * B)
        /\ (c[2] + c[5] + c[6]) - (c[4] + c[7] + c[8]) = a * C + w * (72 * C)
    BY <1>4, <1>5, <1>8, <2>1, <2>3, Combined
  <2> QED
    BY <1>2, <2>2, <2>4
<1> QED
  BY <1>6, <1>7, <1>9, SumsOfValues

\* The reconstruction of an inlet node keeps the mass that its known populations imply.
LEMMA ProvisionalKeeps ==
    ASSUME NEW f \in [Directions -> Int], NEW a \in Int
    PROVE  /\ \A d \in Directions : Provisional(f, a, d) \in Int
           /\ InletDensity(f) \in Int
           /\ Provisional(f, a, 0) + Provisional(f, a, 1) + Provisional(f, a, 2) + Provisional(f, a, 3)
                 + Provisional(f, a, 4) + Provisional(f, a, 5) + Provisional(f, a, 6) + Provisional(f, a, 7)
                 + Provisional(f, a, 8) = InletDensity(f)
<1> DEFINE enters == Inflow(f)
           J == a * enters
           K == U * enters
           w == U - a
           g0 == w * f[0]
           g2 == w * f[2]
           g3 == w * f[3]
           g4 == w * f[4]
           g6 == w * f[6]
           g7 == w * f[7]
           p(d) == Provisional(f, a, d)
<1>1. /\ f[0] \in Int /\ f[2] \in Int /\ f[3] \in Int /\ f[4] \in Int /\ f[6] \in Int /\ f[7] \in Int
      /\ U \in Int /\ w \in Int
  BY LatticeAssumption, NineDirections
<1>2. enters = f[0] + f[2] + f[4] + 2 * (f[3] + f[6] + f[7]) /\ enters \in Int
  BY <1>1 DEF Inflow
<1>3. g0 + g2 + g4 + 2 * (g3 + g6 + g7) = K - J
  <2>1. w * enters = g0 + g2 + g4 + 2 * (g3 + g6 + g7)
    <3> HIDE DEF w, enters
    <3> QED
      BY <1>1, <1>2
  <2>2. w * enters = K - J
    <3> HIDE DEF enters
    <3> QED
      BY <1>1, <1>2
  <2> QED
    BY <2>1, <2>2
<1>4. /\ p(0) = 6 * g0 /\ p(2) = 6 * g2 /\ p(3) = 6 * g3 /\ p(4) = 6 * g4 /\ p(6) = 6 * g6 /\ p(7) = 6 * g7
      /\ p(1) = 6 * g3 + 4 * J
      /\ p(5) = 6 * g7 + 3 * (g4 - g2) + J
      /\ p(8) = 6 * g6 + 3 * (g2 - g4) + J
  <2>1. /\ p(0) = 6 * w * f[0] /\ p(2) = 6 * w * f[2] /\ p(3) = 6 * w * f[3] /\ p(4) = 6 * w * f[4]
        /\ p(6) = 6 * w * f[6] /\ p(7) = 6 * w * f[7]
    BY DEF Provisional
  <2>2. /\ p(1) = 6 * w * f[3] + 4 * a * enters
        /\ p(5) = 6 * w * f[7] + 3 * w * (f[4] - f[2]) + a * enters
        /\ p(8) = 6 * w * f[6] + 3 * w * (f[2] - f[4]) + a * enters
    BY DEF Provisional
  <2> HIDE DEF w, enters, p
  <2>3. \A x, y \in Int : 6 * w * x = 6 * (w * x) /\ 4 * a * x = 4 * (a * x) /\ 3 * w * (x - y) = 3 * (w * x - w * y)
    BY <1>1
  <2> QED
    BY <1>1, <1>2, <2>1, <2>2, <2>3
<1>5. InletDensity(f) = 6 * K /\ K \in Int /\ J \in Int
  <2>1. InletDensity(f) = 6 * U * enters
    BY DEF InletDensity
  <2> HIDE DEF enters
  <2> QED
    BY <1>1, <1>2, <2>1
<1>6. g0 \in Int /\ g2 \in Int /\ g3 \in Int /\ g4 \in Int /\ g6 \in Int /\ g7 \in Int
  <2> HIDE DEF w
  <2> QED
    BY <1>1
<1>7. /\ InletDensity(f) \in Int
      /\ p(0) + p(1) + p(2) + p(3) + p(4) + p(5) + p(6) + p(7) + p(8) = InletDensity(f)
      /\ p(0) \in Int /\ p(1) \in Int /\ p(2) \in Int /\ p(3) \in Int /\ p(4) \in Int
      /\ p(5) \in Int /\ p(6) \in Int /\ p(7) \in Int /\ p(8) \in Int
  <2> HIDE DEF J, K, w, g0, g2, g3, g4, g6, g7, p
  <2> QED
    BY <1>3, <1>4, <1>5, <1>6
<1>8. \A d \in Directions : p(d) \in Int
  <2> HIDE DEF p
  <2> QED
    BY <1>7, NineDirections
<1> QED
  BY <1>7, <1>8

\* The equilibrium of an inlet node, linear in three products.
LEMMA InletTerms ==
    ASSUME NEW f, NEW a \in Int, InletDensity(f) \in Int
    PROVE  LET A == InletDensity(f) * (U * U)
               B == InletDensity(f) * (U * a)
               C == InletDensity(f) * (a * a)
               e(d) == InletEquilibrium(f, a, d)
           IN  /\ A \in Int /\ B \in Int /\ C \in Int
               /\ e(0) = 32 * A - 48 * C
               /\ e(1) = 8 * A + 24 * B + 24 * C
               /\ e(2) = 8 * A - 12 * C
               /\ e(3) = 8 * A - 24 * B + 24 * C
               /\ e(4) = 8 * A - 12 * C
               /\ e(5) = 2 * A + 6 * B + 6 * C
               /\ e(6) = 2 * A - 6 * B + 6 * C
               /\ e(7) = 2 * A - 6 * B + 6 * C
               /\ e(8) = 2 * A + 6 * B + 6 * C
<1> DEFINE r == InletDensity(f)
           e(d) == InletEquilibrium(f, a, d)
<1>1. U \in Int
  BY LatticeAssumption
<1>2. ASSUME NEW d \in Directions
      PROVE  e(d) = Weight(d) * r * (2 * U * U + 6 * U * Cx(d) * a + 9 * Cx(d) * Cx(d) * a * a - 3 * a * a)
  BY DEF InletEquilibrium
<1> HIDE DEF r, e
<1>3. /\ e(0) = 16 * r * (2 * U * U + 6 * U * 0 * a + 9 * 0 * 0 * a * a - 3 * a * a)
      /\ e(1) = 4 * r * (2 * U * U + 6 * U * 1 * a + 9 * 1 * 1 * a * a - 3 * a * a)
      /\ e(2) = 4 * r * (2 * U * U + 6 * U * 0 * a + 9 * 0 * 0 * a * a - 3 * a * a)
      /\ e(3) = 4 * r * (2 * U * U + 6 * U * (-1) * a + 9 * (-1) * (-1) * a * a - 3 * a * a)
      /\ e(4) = 4 * r * (2 * U * U + 6 * U * 0 * a + 9 * 0 * 0 * a * a - 3 * a * a)
      /\ e(5) = 1 * r * (2 * U * U + 6 * U * 1 * a + 9 * 1 * 1 * a * a - 3 * a * a)
      /\ e(6) = 1 * r * (2 * U * U + 6 * U * (-1) * a + 9 * (-1) * (-1) * a * a - 3 * a * a)
      /\ e(7) = 1 * r * (2 * U * U + 6 * U * (-1) * a + 9 * (-1) * (-1) * a * a - 3 * a * a)
      /\ e(8) = 1 * r * (2 * U * U + 6 * U * 1 * a + 9 * 1 * 1 * a * a - 3 * a * a)
  BY <1>2, TableValues, NineDirections
<1>4. r \in Int
  BY DEF r
<1> DEFINE A == r * (U * U)
           B == r * (U * a)
           C == r * (a * a)
<1>5. A \in Int /\ B \in Int /\ C \in Int
  BY <1>1, <1>4
<1>6. ASSUME NEW x \in Int
      PROVE  /\ x * r * (2 * U * U + 6 * U * 0 * a + 9 * 0 * 0 * a * a - 3 * a * a) = x * (2 * A - 3 * C)
             /\ x * r * (2 * U * U + 6 * U * 1 * a + 9 * 1 * 1 * a * a - 3 * a * a) = x * (2 * A + 6 * B + 6 * C)
             /\ x * r * (2 * U * U + 6 * U * (-1) * a + 9 * (-1) * (-1) * a * a - 3 * a * a)
                   = x * (2 * A - 6 * B + 6 * C)
  BY <1>1, <1>4
<1>7. /\ e(0) = 16 * (2 * A - 3 * C)
      /\ e(1) = 4 * (2 * A + 6 * B + 6 * C)
      /\ e(2) = 4 * (2 * A - 3 * C)
      /\ e(3) = 4 * (2 * A - 6 * B + 6 * C)
      /\ e(4) = 4 * (2 * A - 3 * C)
      /\ e(5) = 1 * (2 * A + 6 * B + 6 * C)
      /\ e(6) = 1 * (2 * A - 6 * B + 6 * C)
      /\ e(7) = 1 * (2 * A - 6 * B + 6 * C)
      /\ e(8) = 1 * (2 * A + 6 * B + 6 * C)
  <2> HIDE DEF A, B, C
  <2> QED
    BY <1>3, <1>6
<1>8. /\ e(0) = 32 * A - 48 * C
      /\ e(1) = 8 * A + 24 * B + 24 * C
      /\ e(2) = 8 * A - 12 * C
      /\ e(3) = 8 * A - 24 * B + 24 * C
      /\ e(4) = 8 * A - 12 * C
      /\ e(5) = 2 * A + 6 * B + 6 * C
      /\ e(6) = 2 * A - 6 * B + 6 * C
      /\ e(7) = 2 * A - 6 * B + 6 * C
      /\ e(8) = 2 * A + 6 * B + 6 * C
  <2> HIDE DEF A, B, C
  <2> QED
    BY <1>5, <1>7
<1> QED
  BY <1>5, <1>8 DEF r, e

\* The kernel writes out the sums of the oracle.
LEMMA StressesAgree ==
    ASSUME NEW f, NEW a, \A d \in Directions : Residual(f, a, d) \in Int
    PROVE  LET n(d) == Residual(f, a, d)
           IN  /\ KernelStress(f, a) = Stress(f, a)
               /\ Stress(f, a).xx = n(1) + n(3) + n(5) + n(6) + n(7) + n(8) /\ Stress(f, a).xx \in Int
               /\ Stress(f, a).xy = (n(5) + n(7)) - (n(6) + n(8)) /\ Stress(f, a).xy \in Int
               /\ Stress(f, a).yy = n(2) + n(4) + n(5) + n(6) + n(7) + n(8) /\ Stress(f, a).yy \in Int
<1> DEFINE n == [d \in Directions |-> Residual(f, a, d)]
           xx == n[1] + n[3] + n[5] + n[6] + n[7] + n[8]
           xy == (n[5] + n[7]) - (n[6] + n[8])
           yy == n[2] + n[4] + n[5] + n[6] + n[7] + n[8]
<1>1. /\ DirectionSum(LAMBDA d : Cx(d) * Cx(d) * Residual(f, a, d)) = DirectionSum(LAMBDA d : Cx(d) * Cx(d) * n[d])
      /\ DirectionSum(LAMBDA d : Cx(d) * Cy(d) * Residual(f, a, d)) = DirectionSum(LAMBDA d : Cx(d) * Cy(d) * n[d])
      /\ DirectionSum(LAMBDA d : Cy(d) * Cy(d) * Residual(f, a, d)) = DirectionSum(LAMBDA d : Cy(d) * Cy(d) * n[d])
  BY DEF DirectionSum, Directions
<1>2. \A d \in Directions : n[d] = Residual(f, a, d) /\ n[d] \in Int
  OBVIOUS
<1>3. KernelStress(f, a) = [xx |-> n[1] + n[3] + n[5] + n[6] + n[7] + n[8],
                            xy |-> n[5] - n[6] + n[7] - n[8],
                            yy |-> n[2] + n[4] + n[5] + n[6] + n[7] + n[8]]
  BY DEF KernelStress
<1> HIDE DEF n
<1>4. /\ n[1] \in Int /\ n[2] \in Int /\ n[3] \in Int /\ n[4] \in Int
      /\ n[5] \in Int /\ n[6] \in Int /\ n[7] \in Int /\ n[8] \in Int
      /\ n[1] = Residual(f, a, 1) /\ n[2] = Residual(f, a, 2) /\ n[3] = Residual(f, a, 3) /\ n[4] = Residual(f, a, 4)
      /\ n[5] = Residual(f, a, 5) /\ n[6] = Residual(f, a, 6) /\ n[7] = Residual(f, a, 7) /\ n[8] = Residual(f, a, 8)
  BY <1>2, NineDirections
<1>5. Stress(f, a) = [xx |-> xx, xy |-> xy, yy |-> yy]
  BY <1>1, <1>2, SumsOfValues DEF Stress
<1>6. KernelStress(f, a) = [xx |-> xx, xy |-> xy, yy |-> yy]
  <2>1. n[5] - n[6] + n[7] - n[8] = xy
    BY <1>4
  <2> QED
    BY <1>3, <2>1
<1>7. xx \in Int /\ xy \in Int /\ yy \in Int
  BY <1>4
<1> QED
  BY <1>4, <1>5, <1>6, <1>7

\* Regularisation: the sums of a combination of an equilibrium and the three stresses.
LEMMA RegularizedSums ==
    ASSUME NEW f, NEW a \in Int, InletDensity(f) \in Int, \A d \in Directions : Residual(f, a, d) \in Int
    PROVE  LET A == InletDensity(f) * (U * U)
               B == InletDensity(f) * (U * a)
               e(d) == InletEquilibrium(f, a, d)
               n(d) == Residual(f, a, d)
               r(d) == Regularized(f, a, d)
           IN  /\ \A d \in Directions : r(d) \in Int /\ e(d) \in Int
               /\ r(0) + r(1) + r(2) + r(3) + r(4) + r(5) + r(6) + r(7) + r(8) = 1728 * A
               /\ (r(1) + r(5) + r(8)) - (r(3) + r(6) + r(7)) = 1728 * B
               /\ (r(2) + r(5) + r(6)) - (r(4) + r(7) + r(8)) = 0
               /\ (r(5) + r(7)) - (r(6) + r(8))
                     = 24 * (((e(5) + n(5)) + (e(7) + n(7))) - ((e(6) + n(6)) + (e(8) + n(8))))
               /\ r(1) + r(3) + r(5) + r(6) + r(7) + r(8)
                     = 24 * ((e(1) + n(1)) + (e(3) + n(3)) + (e(5) + n(5)) + (e(6) + n(6)) + (e(7) + n(7)) + (e(8) + n(8)))
<1> DEFINE A == InletDensity(f) * (U * U)
           B == InletDensity(f) * (U * a)
           C == InletDensity(f) * (a * a)
           e(d) == InletEquilibrium(f, a, d)
           n(d) == Residual(f, a, d)
           r(d) == Regularized(f, a, d)
           pi == Stress(f, a)
           X == pi.xx
           Z == pi.xy
           Y == pi.yy
<1>1. /\ A \in Int /\ B \in Int /\ C \in Int
      /\ e(0) = 32 * A - 48 * C
      /\ e(1) = 8 * A + 24 * B + 24 * C
      /\ e(2) = 8 * A - 12 * C
      /\ e(3) = 8 * A - 24 * B + 24 * C
      /\ e(4) = 8 * A - 12 * C
      /\ e(5) = 2 * A + 6 * B + 6 * C
      /\ e(6) = 2 * A - 6 * B + 6 * C
      /\ e(7) = 2 * A - 6 * B + 6 * C
      /\ e(8) = 2 * A + 6 * B + 6 * C
  BY InletTerms
<1>2. /\ X = n(1) + n(3) + n(5) + n(6) + n(7) + n(8) /\ X \in Int
      /\ Z = (n(5) + n(7)) - (n(6) + n(8)) /\ Z \in Int
      /\ Y = n(2) + n(4) + n(5) + n(6) + n(7) + n(8) /\ Y \in Int
  BY StressesAgree
<1>3. ASSUME NEW d \in Directions
      PROVE  r(d) = 24 * e(d) + Weight(d) * ((3 * Cx(d) * Cx(d) - 1) * X + 6 * Cx(d) * Cy(d) * Z
                                             + (3 * Cy(d) * Cy(d) - 1) * Y)
  BY DEF Regularized
<1>4. /\ n(1) \in Int /\ n(2) \in Int /\ n(3) \in Int /\ n(4) \in Int
      /\ n(5) \in Int /\ n(6) \in Int /\ n(7) \in Int /\ n(8) \in Int
  <2> HIDE DEF n
  <2>1. \A d \in Directions : n(d) \in Int
    BY DEF n
  <2> QED
    BY <2>1, NineDirections
<1> HIDE DEF A, B, C, e, n, r, X, Y, Z
<1>5. /\ r(0) = 24 * e(0) - 16 * X - 16 * Y
      /\ r(1) = 24 * e(1) + 8 * X - 4 * Y
      /\ r(2) = 24 * e(2) - 4 * X + 8 * Y
      /\ r(3) = 24 * e(3) + 8 * X - 4 * Y
      /\ r(4) = 24 * e(4) - 4 * X + 8 * Y
      /\ r(5) = 24 * e(5) + 2 * X + 6 * Z + 2 * Y
      /\ r(6) = 24 * e(6) + 2 * X - 6 * Z + 2 * Y
      /\ r(7) = 24 * e(7) + 2 * X + 6 * Z + 2 * Y
      /\ r(8) = 24 * e(8) + 2 * X - 6 * Z + 2 * Y
  <2>1. /\ r(0) = 24 * e(0) + 16 * ((3 * 0 * 0 - 1) * X + 6 * 0 * 0 * Z + (3 * 0 * 0 - 1) * Y)
        /\ r(1) = 24 * e(1) + 4 * ((3 * 1 * 1 - 1) * X + 6 * 1 * 0 * Z + (3 * 0 * 0 - 1) * Y)
        /\ r(2) = 24 * e(2) + 4 * ((3 * 0 * 0 - 1) * X + 6 * 0 * 1 * Z + (3 * 1 * 1 - 1) * Y)
        /\ r(3) = 24 * e(3) + 4 * ((3 * (-1) * (-1) - 1) * X + 6 * (-1) * 0 * Z + (3 * 0 * 0 - 1) * Y)
        /\ r(4) = 24 * e(4) + 4 * ((3 * 0 * 0 - 1) * X + 6 * 0 * (-1) * Z + (3 * (-1) * (-1) - 1) * Y)
        /\ r(5) = 24 * e(5) + 1 * ((3 * 1 * 1 - 1) * X + 6 * 1 * 1 * Z + (3 * 1 * 1 - 1) * Y)
        /\ r(6) = 24 * e(6) + 1 * ((3 * (-1) * (-1) - 1) * X + 6 * (-1) * 1 * Z + (3 * 1 * 1 - 1) * Y)
        /\ r(7) = 24 * e(7) + 1 * ((3 * (-1) * (-1) - 1) * X + 6 * (-1) * (-1) * Z + (3 * (-1) * (-1) - 1) * Y)
        /\ r(8) = 24 * e(8) + 1 * ((3 * 1 * 1 - 1) * X + 6 * 1 * (-1) * Z + (3 * (-1) * (-1) - 1) * Y)
    BY <1>3, TableValues, NineDirections
  <2>2. /\ e(0) \in Int /\ e(1) \in Int /\ e(2) \in Int /\ e(3) \in Int /\ e(4) \in Int
        /\ e(5) \in Int /\ e(6) \in Int /\ e(7) \in Int /\ e(8) \in Int
    BY <1>1
  <2> QED
    BY <1>2, <2>1, <2>2
<1>6. r(0) + r(1) + r(2) + r(3) + r(4) + r(5) + r(6) + r(7) + r(8) = 1728 * A
  BY <1>1, <1>2, <1>5
<1>7. (r(1) + r(5) + r(8)) - (r(3) + r(6) + r(7)) = 1728 * B
  BY <1>1, <1>2, <1>5
<1>8. (r(2) + r(5) + r(6)) - (r(4) + r(7) + r(8)) = 0
  BY <1>1, <1>2, <1>5
<1>9. (r(5) + r(7)) - (r(6) + r(8)) = 24 * (((e(5) + n(5)) + (e(7) + n(7))) - ((e(6) + n(6)) + (e(8) + n(8))))
  BY <1>1, <1>2, <1>4, <1>5
<1>10. r(1) + r(3) + r(5) + r(6) + r(7) + r(8)
          = 24 * ((e(1) + n(1)) + (e(3) + n(3)) + (e(5) + n(5)) + (e(6) + n(6)) + (e(7) + n(7)) + (e(8) + n(8)))
  BY <1>1, <1>2, <1>4, <1>5
<1>11. \A d \in Directions : r(d) \in Int /\ e(d) \in Int
  <2>1. /\ r(0) \in Int /\ r(1) \in Int /\ r(2) \in Int /\ r(3) \in Int /\ r(4) \in Int
        /\ r(5) \in Int /\ r(6) \in Int /\ r(7) \in Int /\ r(8) \in Int
        /\ e(0) \in Int /\ e(1) \in Int /\ e(2) \in Int /\ e(3) \in Int /\ e(4) \in Int
        /\ e(5) \in Int /\ e(6) \in Int /\ e(7) \in Int /\ e(8) \in Int
    BY <1>1, <1>2, <1>5
  <2> QED
    BY <2>1, NineDirections
<1> QED
  BY <1>6, <1>7, <1>8, <1>9, <1>10, <1>11 DEF A, B, e, n, r

\* All that is promised of one node, for every population and every rate.
LEMMA NodesDoAgree ==
    ASSUME NEW f \in [Directions -> Int], NEW a \in Int
    PROVE  NodesAreExact(f, a)
<1> DEFINE rho == InletDensity(f)
           reg == [d \in Directions |-> Regularized(f, a, d)]
           pro == [d \in Directions |-> Provisional(f, a, d)]
           part == 24 * 72 * U * U
           A == rho * (U * U)
           B == rho * (U * a)
           q == 72 * U * U
           m(d) == q * Provisional(f, a, d)
           e(d) == InletEquilibrium(f, a, d)
           n(d) == Residual(f, a, d)
           S == (pro[5] + pro[7]) - (pro[6] + pro[8])
           T == pro[1] + pro[3] + pro[5] + pro[6] + pro[7] + pro[8]
<1>1. U \in Int /\ q \in Int /\ part = 24 * q
  BY LatticeAssumption
<1>2. /\ \A d \in Directions : pro[d] = Provisional(f, a, d) /\ pro[d] \in Int
      /\ pro[0] + pro[1] + pro[2] + pro[3] + pro[4] + pro[5] + pro[6] + pro[7] + pro[8] = rho
      /\ rho \in Int
  <2>1. \A d \in Directions : pro[d] = Provisional(f, a, d)
    OBVIOUS
  <2>2. /\ pro[0] = Provisional(f, a, 0) /\ pro[1] = Provisional(f, a, 1) /\ pro[2] = Provisional(f, a, 2)
        /\ pro[3] = Provisional(f, a, 3) /\ pro[4] = Provisional(f, a, 4) /\ pro[5] = Provisional(f, a, 5)
        /\ pro[6] = Provisional(f, a, 6) /\ pro[7] = Provisional(f, a, 7) /\ pro[8] = Provisional(f, a, 8)
    BY NineDirections
  <2> HIDE DEF pro, rho
  <2>3. /\ \A d \in Directions : Provisional(f, a, d) \in Int
        /\ rho \in Int
        /\ Provisional(f, a, 0) + Provisional(f, a, 1) + Provisional(f, a, 2) + Provisional(f, a, 3)
              + Provisional(f, a, 4) + Provisional(f, a, 5) + Provisional(f, a, 6) + Provisional(f, a, 7)
              + Provisional(f, a, 8) = rho
    BY ProvisionalKeeps DEF rho
  <2> QED
    BY <2>1, <2>2, <2>3
<1>3. A \in Int /\ B \in Int /\ \A d \in Directions : e(d) \in Int
  <2>1. A \in Int /\ B \in Int
    <3> HIDE DEF rho
    <3> QED
      BY <1>1, <1>2
  <2>2. \A d \in Directions : e(d) \in Int
    <3> DEFINE C == rho * (a * a)
    <3>1. /\ C \in Int
          /\ e(0) = 32 * A - 48 * C
          /\ e(1) = 8 * A + 24 * B + 24 * C
          /\ e(2) = 8 * A - 12 * C
          /\ e(3) = 8 * A - 24 * B + 24 * C
          /\ e(4) = 8 * A - 12 * C
          /\ e(5) = 2 * A + 6 * B + 6 * C
          /\ e(6) = 2 * A - 6 * B + 6 * C
          /\ e(7) = 2 * A - 6 * B + 6 * C
          /\ e(8) = 2 * A + 6 * B + 6 * C
      BY <1>2, InletTerms
    <3> HIDE DEF A, B, C, e
    <3>2. /\ e(0) \in Int /\ e(1) \in Int /\ e(2) \in Int /\ e(3) \in Int /\ e(4) \in Int
          /\ e(5) \in Int /\ e(6) \in Int /\ e(7) \in Int /\ e(8) \in Int
      BY <2>1, <3>1
    <3> QED
      BY <3>2, NineDirections
  <2> QED
    BY <2>1, <2>2
<1>4. ASSUME NEW d \in Directions PROVE n(d) = m(d) - e(d) /\ m(d) = q * pro[d] /\ m(d) \in Int /\ n(d) \in Int
  <2>1. n(d) = m(d) - e(d) /\ m(d) = q * pro[d]
    BY DEF Residual
  <2> HIDE DEF m, e, n, q, pro
  <2>2. m(d) \in Int
    BY <1>1, <1>2, <2>1
  <2> QED
    BY <1>3, <2>1, <2>2
<1>5. /\ \A d \in Directions : reg[d] = Regularized(f, a, d) /\ reg[d] \in Int
      /\ reg[0] + reg[1] + reg[2] + reg[3] + reg[4] + reg[5] + reg[6] + reg[7] + reg[8] = 1728 * A
      /\ (reg[1] + reg[5] + reg[8]) - (reg[3] + reg[6] + reg[7]) = 1728 * B
      /\ (reg[2] + reg[5] + reg[6]) - (reg[4] + reg[7] + reg[8]) = 0
      /\ (reg[5] + reg[7]) - (reg[6] + reg[8])
            = 24 * (((e(5) + n(5)) + (e(7) + n(7))) - ((e(6) + n(6)) + (e(8) + n(8))))
      /\ reg[1] + reg[3] + reg[5] + reg[6] + reg[7] + reg[8]
            = 24 * ((e(1) + n(1)) + (e(3) + n(3)) + (e(5) + n(5)) + (e(6) + n(6)) + (e(7) + n(7)) + (e(8) + n(8)))
  <2> DEFINE r(d) == Regularized(f, a, d)
  <2>1. /\ \A d \in Directions : reg[d] = r(d)
        /\ reg[0] = r(0) /\ reg[1] = r(1) /\ reg[2] = r(2) /\ reg[3] = r(3) /\ reg[4] = r(4)
        /\ reg[5] = r(5) /\ reg[6] = r(6) /\ reg[7] = r(7) /\ reg[8] = r(8)
    BY NineDirections
  <2>2. \A d \in Directions : Residual(f, a, d) \in Int
    BY <1>4
  <2> HIDE DEF reg
  <2>3. /\ \A d \in Directions : r(d) \in Int
        /\ r(0) + r(1) + r(2) + r(3) + r(4) + r(5) + r(6) + r(7) + r(8) = 1728 * A
        /\ (r(1) + r(5) + r(8)) - (r(3) + r(6) + r(7)) = 1728 * B
        /\ (r(2) + r(5) + r(6)) - (r(4) + r(7) + r(8)) = 0
        /\ (r(5) + r(7)) - (r(6) + r(8))
              = 24 * (((e(5) + n(5)) + (e(7) + n(7))) - ((e(6) + n(6)) + (e(8) + n(8))))
        /\ r(1) + r(3) + r(5) + r(6) + r(7) + r(8)
              = 24 * ((e(1) + n(1)) + (e(3) + n(3)) + (e(5) + n(5)) + (e(6) + n(6)) + (e(7) + n(7)) + (e(8) + n(8)))
    BY <1>2, <2>2, RegularizedSums
  <2> HIDE DEF r, e, n, A, B
  <2> QED
    BY <2>1, <2>3 DEF r
<1>6. KernelStress(f, a) = Stress(f, a)
  <2>1. \A d \in Directions : Residual(f, a, d) \in Int
    BY <1>4
  <2> QED
    BY <2>1, StressesAgree
<1> HIDE DEF m, e, n, q, pro, reg, A, B
<1>7. /\ (reg[5] + reg[7]) - (reg[6] + reg[8]) = part * S
      /\ reg[1] + reg[3] + reg[5] + reg[6] + reg[7] + reg[8] = part * T
  <2>1. /\ e(1) + n(1) = m(1) /\ e(3) + n(3) = m(3) /\ e(5) + n(5) = m(5)
        /\ e(6) + n(6) = m(6) /\ e(7) + n(7) = m(7) /\ e(8) + n(8) = m(8)
        /\ m(1) \in Int /\ m(3) \in Int /\ m(5) \in Int /\ m(6) \in Int /\ m(7) \in Int /\ m(8) \in Int
    BY <1>3, <1>4, NineDirections
  <2>2. /\ m(1) = q * pro[1] /\ m(3) = q * pro[3] /\ m(5) = q * pro[5]
        /\ m(6) = q * pro[6] /\ m(7) = q * pro[7] /\ m(8) = q * pro[8]
    BY <1>4, NineDirections
  <2>3. q * S = (m(5) + m(7)) - (m(6) + m(8)) /\ q * T = m(1) + m(3) + m(5) + m(6) + m(7) + m(8)
    <3>1. \A d \in Directions : pro[d] \in Int
      BY <1>2
    <3>2. /\ q * S = (q * pro[5] + q * pro[7]) - (q * pro[6] + q * pro[8])
          /\ q * T = q * pro[1] + q * pro[3] + q * pro[5] + q * pro[6] + q * pro[7] + q * pro[8]
      BY <1>1, <3>1, Distributed
    <3> QED
      BY <2>2, <3>2
  <2>4. S \in Int /\ T \in Int
    BY <1>2, NineDirections
  <2>5. part * S = 24 * (q * S) /\ part * T = 24 * (q * T)
    <3> HIDE DEF part, S, T
    <3> QED
      BY <1>1, <2>4
  <2> HIDE DEF part, S, T
  <2> QED
    BY <1>5, <2>1, <2>3, <2>5
<1>8. /\ part * rho = 1728 * A
      /\ U * (1728 * B) = part * rho * a
  <2> HIDE DEF rho
  <2> QED
    BY <1>1, <1>2 DEF A, B
<1>9. /\ DirectionSum(LAMBDA d : pro[d]) = rho
      /\ DirectionSum(LAMBDA d : reg[d]) = part * rho
      /\ U * DirectionSum(LAMBDA d : Cx(d) * reg[d]) = part * rho * a
      /\ DirectionSum(LAMBDA d : Cy(d) * reg[d]) = 0
      /\ DirectionSum(LAMBDA d : Cx(d) * Cy(d) * reg[d]) = part * DirectionSum(LAMBDA d : Cx(d) * Cy(d) * pro[d])
      /\ DirectionSum(LAMBDA d : Cx(d) * Cx(d) * reg[d]) = part * DirectionSum(LAMBDA d : Cx(d) * Cx(d) * pro[d])
  <2>1. /\ DirectionSum(LAMBDA d : pro[d])
              = pro[0] + pro[1] + pro[2] + pro[3] + pro[4] + pro[5] + pro[6] + pro[7] + pro[8]
        /\ DirectionSum(LAMBDA d : Cx(d) * Cy(d) * pro[d]) = S
        /\ DirectionSum(LAMBDA d : Cx(d) * Cx(d) * pro[d]) = T
    BY <1>2, SumsOfValues
  <2> DEFINE all == reg[0] + reg[1] + reg[2] + reg[3] + reg[4] + reg[5] + reg[6] + reg[7] + reg[8]
             allX == (reg[1] + reg[5] + reg[8]) - (reg[3] + reg[6] + reg[7])
             allY == (reg[2] + reg[5] + reg[6]) - (reg[4] + reg[7] + reg[8])
  <2>2. /\ DirectionSum(LAMBDA d : reg[d]) = all
        /\ DirectionSum(LAMBDA d : Cx(d) * reg[d]) = allX
        /\ DirectionSum(LAMBDA d : Cy(d) * reg[d]) = allY
        /\ DirectionSum(LAMBDA d : Cx(d) * Cy(d) * reg[d]) = (reg[5] + reg[7]) - (reg[6] + reg[8])
        /\ DirectionSum(LAMBDA d : Cx(d) * Cx(d) * reg[d]) = reg[1] + reg[3] + reg[5] + reg[6] + reg[7] + reg[8]
    <3>1. \A d \in Directions : reg[d] \in Int
      BY <1>5
    <3> QED
      BY <3>1, SumsOfValues
  <2>3. all = 1728 * A /\ allX = 1728 * B /\ allY = 0
    BY <1>5
  <2> HIDE DEF all, allX, allY
  <2>4. part \in Int
    BY <1>1
  <2> HIDE DEF part, rho, S, T
  <2>5. DirectionSum(LAMBDA d : pro[d]) = rho
    BY <1>2, <2>1
  <2>6. all = part * rho
    BY <1>8, <2>3
  <2>7. U * allX = part * rho * a
    BY <1>8, <2>3
  <2>8. DirectionSum(LAMBDA d : reg[d]) = part * rho
    BY <2>2, <2>6
  <2>9. U * DirectionSum(LAMBDA d : Cx(d) * reg[d]) = part * rho * a
    BY <2>2, <2>7
  <2>10. DirectionSum(LAMBDA d : Cy(d) * reg[d]) = 0
    <3>1. allY = 0
      BY <2>3
    <3> QED
      BY <2>2, <3>1
  <2>11. DirectionSum(LAMBDA d : Cx(d) * Cy(d) * reg[d]) = part * DirectionSum(LAMBDA d : Cx(d) * Cy(d) * pro[d])
    BY <1>7, <2>1, <2>2
  <2>12. DirectionSum(LAMBDA d : Cx(d) * Cx(d) * reg[d]) = part * DirectionSum(LAMBDA d : Cx(d) * Cx(d) * pro[d])
    BY <1>7, <2>1, <2>2
  <2> QED
    BY <2>5, <2>11, <2>12, <2>8, <2>9, <2>10
<1> QED
  BY <1>6, <1>9, CollisionKeeps DEF NodesAreExact, reg, pro

-----------------------------------------------------------------------------
(* The obstacle of a rotated ellipse: how far its cells reach, by the      *)
(* inequality of Cauchy, and why the preflight leaves them in the clear.   *)

LEMMA Squares ==
    ASSUME NEW a \in Nat, NEW b \in Nat
    PROVE  /\ a < b <=> a * a < b * b
           /\ a <= b => a * a <= b * b
           /\ a * a \in Nat
<1>1. ASSUME NEW x \in Nat, NEW y \in Nat, x < y PROVE x * x < y * y
  <2> DEFINE d == y - x
  <2>1. d \in Nat \ {0} /\ y = x + d
    BY <1>1
  <2> HIDE DEF d
  <2>2. y * y = x * x + 2 * (x * d) + d * d /\ x * d >= 0 /\ d * d > 0
    BY <2>1
  <2> QED
    BY <2>1, <2>2
<1>2. a * a \in Nat /\ b * b \in Nat
  OBVIOUS
<1>3. a < b => a * a < b * b
  BY <1>1
<1>4. b < a => b * b < a * a
  BY <1>1
<1>5. a = b => a * a = b * b
  OBVIOUS
<1> DEFINE p == a * a
           q == b * b
<1> HIDE DEF p, q
<1>6. p \in Nat /\ q \in Nat /\ (a < b => p < q) /\ (b < a => q < p) /\ (a = b => p = q)
  BY <1>2, <1>3, <1>4, <1>5 DEF p, q
<1>7. (a < b <=> p < q) /\ (a <= b => p <= q)
  BY <1>6
<1> QED
  BY <1>2, <1>7 DEF p, q

\* The product of a number with another of any sign, squared.
LEMMA SquareOf ==
    ASSUME NEW z \in Int
    PROVE  \E n \in Nat : n * n = z * z /\ (n = z \/ n = -z)
<1>1. CASE z >= 0
  BY <1>1
<1>2. CASE z < 0
  <2>1. (-z) \in Nat /\ (-z) * (-z) = z * z
    BY <1>2
  <2> QED
    BY <2>1
<1> QED
  BY <1>1, <1>2

\* A square divides out of an inequality.
LEMMA DividedOut ==
    ASSUME NEW k \in Nat \ {0}, NEW z \in Int, NEW e \in Int, (k * z) * (k * z) <= e * (k * k)
    PROVE  z * z <= e
<1> DEFINE y == z * z
           j == k * k
<1>1. y \in Int /\ j \in Int /\ j > 0
  OBVIOUS
<1>2. (k * z) * (k * z) = y * j
  OBVIOUS
<1> HIDE DEF y, j
<1>3. y * j <= e * j
  BY <1>2 DEF j
<1>4. ASSUME y > e PROVE FALSE
  <2> DEFINE d == y - e
  <2>1. d \in Int /\ d > 0 /\ y = e + d
    BY <1>1, <1>4
  <2> HIDE DEF d
  <2>2. y * j = e * j + d * j /\ d * j > 0 /\ e * j \in Int
    BY <1>1, <2>1
  <2> DEFINE u == e * j
             v == d * j
  <2> HIDE DEF u, v
  <2>3. y * j = u + v /\ v > 0 /\ u \in Int /\ v \in Int /\ y * j <= u
    BY <1>1, <1>3, <2>1, <2>2 DEF u, v
  <2> QED
    BY <2>3
<1>5. y <= e
  BY <1>1, <1>4
<1> QED
  BY <1>5 DEF y

LEMMA Lagrange ==
    ASSUME NEW p \in Int, NEW r \in Int, NEW a \in Int, NEW b \in Int
    PROVE  /\ (p * a - r * b) * (p * a - r * b) <= (p * p + r * r) * (a * a + b * b)
           /\ (p * a + r * b) * (p * a + r * b) <= (p * p + r * r) * (a * a + b * b)
<1>1. (p * p + r * r) * (a * a + b * b)
         = (p * a - r * b) * (p * a - r * b) + (r * a + p * b) * (r * a + p * b)
  OBVIOUS
<1>2. (p * p + r * r) * (a * a + b * b)
         = (p * a + r * b) * (p * a + r * b) + (r * a - p * b) * (r * a - p * b)
  OBVIOUS
<1>3. \A x \in Int : x * x >= 0 /\ x * x \in Int
  OBVIOUS
<1>4. ASSUME NEW x \in Int, NEW y \in Int, NEW z \in Int, z = x * x + y * y PROVE x * x <= z
  BY <1>3, <1>4
<1> QED
  BY <1>1, <1>2, <1>4

\* A point of the rotated ellipse is within its extents.
LEMMA ReachOfEllipse ==
    ASSUME NEW c \in Int, NEW s \in Int, NEW q \in Nat \ {0}, c * c + s * s = q * q,
           NEW major \in Nat \ {0}, NEW minor \in Nat \ {0}, NEW dx \in Int, NEW dy \in Int,
           NEW a, a = (c * dx + s * dy) * minor, NEW b, b = (c * dy - s * dx) * major,
           a * a + b * b <= (major * minor * q) * (major * minor * q)
    PROVE  /\ (q * dx) * (q * dx) <= (major * c) * (major * c) + (minor * s) * (minor * s)
           /\ (q * dy) * (q * dy) <= (major * s) * (major * s) + (minor * c) * (minor * c)
<1> DEFINE x == c * dx + s * dy
           y == c * dy - s * dx
           n == major * minor
           k == n * q
<1>1. x \in Int /\ y \in Int /\ n \in Nat \ {0} /\ a \in Int /\ b \in Int
  OBVIOUS
<1>2. k \in Nat \ {0}
  <2> HIDE DEF n
  <2> QED
    BY <1>1
<1>3. c * x - s * y = (q * q) * dx /\ s * x + c * y = (q * q) * dy
  <2>1. c * x - s * y = (c * c + s * s) * dx /\ s * x + c * y = (c * c + s * s) * dy
    OBVIOUS
  <2> HIDE DEF x, y
  <2> QED
    BY <2>1
<1> HIDE DEF x, y
<1>4. /\ (major * c) * a - (minor * s) * b = n * (c * x - s * y)
      /\ (major * s) * a + (minor * c) * b = n * (s * x + c * y)
  <2>1. a = x * minor /\ b = y * major
    BY DEF x, y
  <2>2. (major * c) * (x * minor) - (minor * s) * (y * major) = (major * minor) * (c * x - s * y)
    BY <1>1
  <2>3. (major * s) * (x * minor) + (minor * c) * (y * major) = (major * minor) * (s * x + c * y)
    BY <1>1
  <2> QED
    BY <2>1, <2>2, <2>3
<1>5. n * ((q * q) * dx) = k * (q * dx) /\ n * ((q * q) * dy) = k * (q * dy)
  <2> HIDE DEF n
  <2> QED
    BY <1>1
<1> HIDE DEF k
<1>6. a * a + b * b <= k * k
  BY DEF k, n
<1>7. ASSUME NEW p \in Int, NEW r \in Int, NEW z \in Int,
             p * a - r * b = k * z \/ p * a + r * b = k * z
      PROVE  z * z <= p * p + r * r
  <2> DEFINE e == p * p + r * r
             t == a * a + b * b
  <2>1. e \in Int /\ e >= 0 /\ t \in Int
    BY <1>1
  <2>2. (k * z) * (k * z) <= e * t
    BY <1>1, <1>7, Lagrange
  <2> HIDE DEF e, t
  <2>3. e * t <= e * (k * k)
    <3> DEFINE d == k * k - t
    <3>1. d \in Int /\ d >= 0 /\ k * k = t + d
      BY <1>2, <1>6, <2>1 DEF t
    <3> HIDE DEF d
    <3>2. e * (k * k) = e * t + e * d /\ e * d >= 0
      BY <2>1, <3>1
    <3> QED
      BY <2>1, <3>1, <3>2
  <2> DEFINE f == (k * z) * (k * z)
             g == e * t
             h == e * (k * k)
  <2>4. f \in Int /\ g \in Int /\ h \in Int
    BY <1>2, <2>1
  <2>5. f <= g /\ g <= h
    BY <2>2, <2>3
  <2>6. f <= h
    <3> HIDE DEF f, g, h
    <3> QED
      BY <2>4, <2>5
  <2>7. z * z <= e
    BY <1>2, <2>1, <2>6, DividedOut
  <2> QED
    BY <2>7 DEF e
<1>8. major * c \in Int /\ minor * s \in Int /\ major * s \in Int /\ minor * c \in Int
      /\ q * dx \in Int /\ q * dy \in Int
  OBVIOUS
<1>9. /\ (major * c) * a - (minor * s) * b = k * (q * dx)
      /\ (major * s) * a + (minor * c) * b = k * (q * dy)
  BY <1>3, <1>4, <1>5
<1> QED
  BY <1>7, <1>8, <1>9

\* No extent of the ellipse is wider than its longer half axis.
LEMMA WidestExtent ==
    ASSUME NEW c \in Int, NEW s \in Int, NEW q \in Nat \ {0}, c * c + s * s = q * q,
           NEW major \in Nat \ {0}, NEW minor \in Nat \ {0}, minor <= major
    PROVE  (major * c) * (major * c) + (minor * s) * (minor * s) <= (major * q) * (major * q)
<1> DEFINE j == major * major
           i == minor * minor
           x == c * c
           y == s * s
<1>1. i <= j /\ i \in Nat /\ j \in Nat
  BY Squares
<1>2. x \in Int /\ y \in Int /\ y >= 0 /\ q * q = x + y
  OBVIOUS
<1>3. /\ (major * c) * (major * c) = j * x /\ (minor * s) * (minor * s) = i * y
      /\ (major * q) * (major * q) = j * (q * q)
  OBVIOUS
<1>4. (major * q) * (major * q) = j * (x + y)
  BY <1>2, <1>3
<1> HIDE DEF j, i, x, y
<1>5. j * (x + y) = j * x + j * y /\ i * y <= j * y /\ j * x \in Int /\ i * y \in Int /\ j * y \in Int
  <2> DEFINE d == j - i
  <2>1. d \in Nat /\ j = i + d
    BY <1>1
  <2> HIDE DEF d
  <2>2. (i + d) * y = i * y + d * y /\ d * y >= 0 /\ d * y \in Int /\ i * y \in Int
    BY <1>1, <1>2, <2>1
  <2>3. j * y = i * y + d * y
    BY <2>1, <2>2
  <2>4. i * y <= j * y
    BY <2>2, <2>3
  <2> QED
    BY <1>1, <1>2, <2>4
<1> QED
  BY <1>3, <1>4, <1>5

\* What a clearance or a distance of the preflight leaves to a coordinate.
LEMMA Reaches ==
    ASSUME NEW q \in Nat \ {0}, NEW z \in Int, NEW wide \in Nat, NEW e \in Int,
           (q * z) * (q * z) <= e, e <= (wide * q) * (wide * q), NEW length \in Int
    PROVE  /\ length >= wide \/ (length >= 0 /\ (length * q) * (length * q) >= e) => -length <= z /\ z <= length
           /\ length > wide \/ (length > 0 /\ (length * q) * (length * q) > e) => -length < z /\ z < length
<1>1. PICK n \in Nat : n = z \/ n = -z
  BY SquareOf
<1>2. (q * z) * (q * z) = (q * n) * (q * n)
  BY <1>1
<1>3. ASSUME NEW m \in Nat PROVE /\ q * n \in Nat /\ m * q \in Nat
                                 /\ n <= m <=> q * n <= m * q
                                 /\ n < m <=> q * n < m * q
  <2>1. ASSUME NEW x \in Nat, NEW y \in Nat, x < y PROVE q * x < q * y
    <3> DEFINE d == y - x
    <3>1. d \in Nat \ {0} /\ y = x + d
      BY <2>1
    <3> HIDE DEF d
    <3>2. q * y = q * x + q * d /\ q * d > 0 /\ q * x \in Nat /\ q * d \in Nat
      BY <3>1
    <3> QED
      BY <3>2
  <2>2. q * n \in Nat /\ q * m \in Nat /\ m * q = q * m
    OBVIOUS
  <2> DEFINE u == q * n
             v == q * m
  <2>3. (n < m => u < v) /\ (m < n => v < u) /\ (n = m => u = v)
    BY <2>1
  <2> HIDE DEF u, v
  <2>4. (n <= m <=> u <= v) /\ (n < m <=> u < v)
    BY <2>2, <2>3 DEF u, v
  <2> QED
    BY <2>2, <2>4 DEF u, v
<1> DEFINE f == q * n
<1>4. f \in Nat /\ wide * q \in Nat
  BY <1>3
<1> HIDE DEF f
<1>5. f * f <= e
  BY <1>2 DEF f
<1>6. f * f <= (wide * q) * (wide * q)
  <2> DEFINE g == (wide * q) * (wide * q)
             h == f * f
  <2>1. g \in Int /\ h \in Int /\ h <= e /\ e <= g
    BY <1>4, <1>5
  <2> HIDE DEF g, h
  <2>2. h <= g
    BY <2>1
  <2> QED
    BY <2>2 DEF g, h
<1>7. n <= wide
  <2>1. f <= wide * q
    <3> DEFINE w == wide * q
    <3>1. w \in Nat /\ f * f <= w * w
      BY <1>4, <1>6
    <3> HIDE DEF w
    <3>2. w < f => w * w < f * f
      BY <1>4, <3>1, Squares
    <3>3. f <= w
      <4> DEFINE ff == f * f
                 ww == w * w
      <4>1. ff \in Int /\ ww \in Int /\ ff <= ww /\ (w < f => ww < ff)
        BY <1>4, <3>1, <3>2
      <4> HIDE DEF ff, ww
      <4> QED
        BY <1>4, <3>1, <4>1
    <3> QED
      BY <3>3 DEF w
  <2> QED
    BY <1>3, <2>1 DEF f
<1>8. ASSUME NEW m \in Nat PROVE /\ (m * q) * (m * q) >= e => n <= m
                                 /\ (m * q) * (m * q) > e => n < m
  <2> DEFINE w == m * q
  <2>1. w \in Nat
    BY <1>3
  <2>2. (n <= m <=> f <= w) /\ (n < m <=> f < w)
    BY <1>3 DEF f
  <2> HIDE DEF w
  <2> DEFINE ff == f * f
             ww == w * w
  <2>3. /\ ff \in Int /\ ww \in Int /\ ff <= e
        /\ w < f => ww < ff
        /\ w <= f => ww <= ff
    BY <1>4, <1>5, <2>1, Squares
  <2> HIDE DEF ff, ww
  <2>4. (ww >= e => f <= w) /\ (ww > e => f < w)
    BY <1>4, <2>1, <2>3
  <2> QED
    BY <2>2, <2>4 DEF ww, w
<1>9. length >= wide \/ (length >= 0 /\ (length * q) * (length * q) >= e) => n <= length
  <2>1. CASE length >= wide
    BY <1>7, <2>1
  <2>2. CASE length >= 0 /\ (length * q) * (length * q) >= e
    <3>1. length \in Nat
      BY <2>2
    <3> QED
      BY <1>8, <2>2, <3>1
  <2> QED
    BY <2>1, <2>2
<1>10. length > wide \/ (length > 0 /\ (length * q) * (length * q) > e) => n < length
  <2>1. CASE length > wide
    BY <1>7, <2>1
  <2>2. CASE length > 0 /\ (length * q) * (length * q) > e
    <3>1. length \in Nat
      BY <2>2
    <3> QED
      BY <1>8, <2>2, <3>1
  <2> QED
    BY <2>1, <2>2
<1>11. (n <= length => -length <= z /\ z <= length) /\ (n < length => -length < z /\ z < length)
  BY <1>1
<1> QED
  BY <1>9, <1>10, <1>11

\* A channel of forty rows or more and a rotated ellipse, in whole numbers.
IsShape(shape) ==
    LET r == shape.rotation IN
    /\ shape.nx \in Nat /\ shape.ny \in Nat /\ shape.ny >= 40
    /\ shape.major \in Nat \ {0} /\ shape.minor \in Nat \ {0} /\ shape.minor <= shape.major
    /\ r[1] \in Int /\ r[2] \in Int /\ r[3] \in Nat \ {0} /\ r[1] * r[1] + r[2] * r[2] = r[3] * r[3]

\* The cell at the centre is solid.
LEMMA CentreIsSolid ==
    ASSUME NEW shape, IsShape(shape), shape.minor >= 2
    PROVE  Mask(shape) # {}
<1> DEFINE major == shape.major
           minor == shape.minor
           c == shape.rotation[1]
           s == shape.rotation[2]
           q == shape.rotation[3]
           cx == CenterX(shape)
           cy == CenterY(shape)
           x == cx \div 2
           y == cy \div 2
           dx == 2 * x - cx
           dy == 2 * y - cy
           m == c * dx + s * dy
           n == c * dy - s * dx
<1>1. /\ shape.nx \in Nat /\ shape.ny \in Nat /\ shape.ny >= 40
      /\ major \in Nat \ {0} /\ minor \in Nat \ {0} /\ minor <= major /\ minor >= 2
      /\ c \in Int /\ s \in Int /\ q \in Nat \ {0} /\ c * c + s * s = q * q
  BY DEF IsShape
<1>2. cx \in Int /\ cy \in Int
  BY <1>1 DEF CenterX, CenterY
<1> HIDE DEF major, minor, c, s, q, cx, cy
<1>3. x \in Int /\ y \in Int /\ dx \in {-1, 0} /\ dy \in {-1, 0}
  BY <1>2
<1>4. /\ x \in (cx - major) \div 2 - 1 .. (cx + major) \div 2 + 1
      /\ y \in (cy - major) \div 2 - 1 .. (cy + major) \div 2 + 1
  BY <1>1, <1>2
<1> HIDE DEF x, y, dx, dy
<1>5. m \in Int /\ n \in Int /\ m * m + n * n <= 2 * (q * q)
  <2>1. m \in Int /\ n \in Int
    BY <1>1, <1>3
  <2>2. m * m + n * n = (c * c + s * s) * (dx * dx + dy * dy)
    BY <1>1, <1>3
  <2> DEFINE k == q * q
             j == dx * dx + dy * dy
  <2>3. k \in Int /\ k >= 0 /\ j \in {0, 1, 2}
    BY <1>1, <1>3
  <2> HIDE DEF m, n, j, k
  <2>4. k * j <= 2 * k
    BY <2>3
  <2>5. m * m + n * n = k * j
    BY <1>1, <2>2 DEF k, j
  <2> QED
    BY <2>1, <2>4, <2>5 DEF k
<1> HIDE DEF m, n
<1>6. (m * minor) * (m * minor) + (n * major) * (n * major) <= (major * minor * q) * (major * minor * q)
  <2> DEFINE i == minor * minor
             j == major * major
             k == q * q
             u == m * m
             v == n * n
  <2>1. /\ i \in Nat /\ i <= j /\ i >= 4 /\ j \in Nat /\ k \in Nat /\ u \in Nat /\ v \in Nat /\ u + v <= 2 * k
    <3>1. i <= j
      BY <1>1, Squares
    <3>2. i >= 4
      <4>1. 2 * 2 <= minor * minor
        BY <1>1, Squares
      <4> QED
        BY <4>1
    <3> QED
      BY <1>1, <1>5, <3>1, <3>2
  <2>2. /\ (m * minor) * (m * minor) = u * i /\ (n * major) * (n * major) = v * j
        /\ (major * minor * q) * (major * minor * q) = (j * i) * k
    BY <1>1, <1>5
  <2> HIDE DEF i, j, k, u, v
  <2>3. u * i <= u * j /\ u * i \in Int /\ u * j \in Int /\ v * j \in Int
    <3> DEFINE d == j - i
    <3>1. d \in Nat /\ j = i + d
      BY <2>1
    <3> HIDE DEF d
    <3>2. u * j = u * i + u * d /\ u * d >= 0 /\ u * d \in Int /\ u * i \in Int /\ v * j \in Int
      BY <2>1, <3>1
    <3> DEFINE a == u * j
               b == u * i
               e == u * d
    <3> HIDE DEF a, b, e
    <3>3. b <= a /\ a \in Int
      BY <3>2 DEF a, b, e
    <3> QED
      BY <3>2, <3>3 DEF a, b
  <2>4. u * j + v * j <= (2 * k) * j
    <3> DEFINE d == 2 * k - (u + v)
    <3>1. d \in Nat /\ 2 * k = (u + v) + d
      BY <2>1
    <3> HIDE DEF d
    <3>2. ((u + v) + d) * j = (u * j + v * j) + d * j /\ d * j >= 0 /\ d * j \in Int
      BY <2>1, <3>1
    <3> DEFINE a == u * j + v * j
               e == d * j
    <3>3. a \in Int
      BY <2>1
    <3>4. (2 * k) * j = a + e /\ e >= 0 /\ e \in Int
      BY <3>1, <3>2
    <3> HIDE DEF a, e
    <3>5. a <= (2 * k) * j
      BY <3>3, <3>4
    <3> QED
      BY <3>5 DEF a
  <2>5. (2 * k) * j <= (j * i) * k
    <3> DEFINE d == i - 2
               e == j * k
    <3>1. d \in Nat /\ i = 2 + d
      BY <2>1
    <3>2. e \in Nat /\ (2 * k) * j = 2 * e
      BY <2>1
    <3> HIDE DEF d
    <3>3. (j * i) * k = 2 * e + d * e
      BY <2>1, <3>1
    <3> HIDE DEF e
    <3>4. d * e \in Nat
      BY <3>1, <3>2
    <3> QED
      BY <3>2, <3>3, <3>4
  <2> DEFINE a == u * i
             b == v * j
             e == u * j
             f == (2 * k) * j
             g == (j * i) * k
  <2>6. a \in Int /\ b \in Int /\ e \in Int /\ f \in Int /\ g \in Int /\ a <= e /\ e + b <= f /\ f <= g
    BY <2>1, <2>3, <2>4, <2>5
  <2>7. a + b <= g
    <3> HIDE DEF a, b, e, f, g
    <3> QED
      BY <2>6
  <2> QED
    BY <2>2, <2>7
<1>7. Solid(shape, y, x)
  <2>1. 2 * x - CenterX(shape) = dx /\ 2 * y - CenterY(shape) = dy
    BY DEF dx, dy, cx, cy
  <2> QED
    BY <1>6, <2>1 DEF Solid, m, n, major, minor, c, s, q
<1>8. <<y, x>> \in Mask(shape)
  BY <1>4, <1>7 DEF Mask, major, cx, cy
<1> QED
  BY <1>8

LEMMA SpongeIsWhole ==
    ASSUME NEW shape, shape.ny \in Nat
    PROVE  SpongeColumns(shape) \in Nat /\ SpongeColumns(shape) >= 16
<1> DEFINE n == (shape.ny + 5) \div 10
           m == IF n > 16 THEN n ELSE 16
<1>1. n \in Int
  OBVIOUS
<1> HIDE DEF n
<1>2. m \in {16, n} /\ \A k \in {16, n} : m >= k
  BY <1>1
<1>3. Max({16, n}) \in {16, n} /\ \A k \in {16, n} : Max({16, n}) >= k
  BY <1>2 DEF Max
<1>4. SpongeColumns(shape) = Max({16, n})
  BY DEF SpongeColumns, n
<1> QED
  BY <1>1, <1>3, <1>4

\* Preflight is enough for every shape, not only for those of the runs.
LEMMA PreflightDoesSuffice ==
    ASSUME NEW shape, IsShape(shape)
    PROVE  PreflightIsEnough(shape)
<1> SUFFICES ASSUME Preflight(shape)
             PROVE  /\ Mask(shape) # {}
                    /\ \A cell \in Mask(shape) :
                          /\ cell[1] \in 2 .. shape.ny - 3
                          /\ cell[2] \in 2 .. shape.nx - SpongeColumns(shape) - 1
  BY DEF PreflightIsEnough
<1> DEFINE major == shape.major
           minor == shape.minor
           c == shape.rotation[1]
           s == shape.rotation[2]
           q == shape.rotation[3]
           nx == shape.nx
           ny == shape.ny
           cx == CenterX(shape)
           cy == CenterY(shape)
           d == ReferenceDiameter(shape)
           sponge == SpongeColumns(shape)
           ex == ExtentX2(shape)
           ey == ExtentY2(shape)
<1>1. /\ nx \in Nat /\ ny \in Nat /\ ny >= 40
      /\ major \in Nat \ {0} /\ minor \in Nat \ {0} /\ minor <= major
      /\ c \in Int /\ s \in Int /\ q \in Nat \ {0} /\ c * c + s * s = q * q
      /\ sponge \in Nat
  BY SpongeIsWhole DEF IsShape
<1>2. cx \in Int /\ cy = ny - 1 /\ d \in Nat /\ d >= 4
  BY <1>1 DEF CenterX, CenterY, ReferenceDiameter
<1>3. /\ ex = (major * c) * (major * c) + (minor * s) * (minor * s)
      /\ ey = (major * s) * (major * s) + (minor * c) * (minor * c)
  BY DEF ExtentX2, ExtentY2
<1>4. /\ minor >= 12 /\ sponge < nx
      /\ Covers(shape, cx - 2 * d, ex)
      /\ Covers(shape, cy - d, ey)
      /\ Exceeds(shape, 2 * (nx - sponge) - cx, ex)
  BY DEF Preflight
<1>5. Mask(shape) # {}
  BY <1>1, <1>4, CentreIsSolid
<1>6. ASSUME NEW length, NEW e
      PROVE  /\ Covers(shape, length, e) <=> length >= major \/ (length >= 0 /\ (length * q) * (length * q) >= e)
             /\ Exceeds(shape, length, e) <=> length > major \/ (length > 0 /\ (length * q) * (length * q) > e)
  BY DEF Covers, Exceeds
<1>7. ASSUME NEW cell \in Mask(shape)
      PROVE  /\ cell[1] \in Int /\ cell[2] \in Int
             /\ Solid(shape, cell[1], cell[2])
  BY <1>1, <1>2 DEF Mask
<1>8. ASSUME NEW x \in Int, NEW y \in Int, Solid(shape, y, x)
      PROVE  /\ (q * (2 * x - cx)) * (q * (2 * x - cx)) <= ex
             /\ (q * (2 * y - cy)) * (q * (2 * y - cy)) <= ey
  <2> DEFINE dx == 2 * x - cx
             dy == 2 * y - cy
             a == (c * dx + s * dy) * minor
             b == (c * dy - s * dx) * major
  <2>1. a * a + b * b <= (major * minor * q) * (major * minor * q)
    BY <1>8 DEF Solid
  <2>2. dx \in Int /\ dy \in Int
    BY <1>1, <1>2
  <2> HIDE DEF major, minor, c, s, q, cx, cy, ex, ey, dx, dy
  <2>3. /\ (q * dx) * (q * dx) <= (major * c) * (major * c) + (minor * s) * (minor * s)
        /\ (q * dy) * (q * dy) <= (major * s) * (major * s) + (minor * c) * (minor * c)
    BY <1>1, <2>1, <2>2, ReachOfEllipse
  <2> QED
    BY <1>3, <2>3 DEF dx, dy
<1>9. ex \in Int /\ ey \in Int /\ ex <= (major * q) * (major * q) /\ ey <= (major * q) * (major * q)
  <2> HIDE DEF major, minor, c, s, q, ex, ey
  <2>1. ex \in Int /\ ey \in Int
    BY <1>1, <1>3
  <2>2. s * s + c * c = q * q
    BY <1>1
  <2>3. ex <= (major * q) * (major * q)
    BY <1>1, <1>3, WidestExtent
  <2>4. ey <= (major * q) * (major * q)
    BY <1>1, <1>3, <2>2, WidestExtent
  <2> QED
    BY <2>1, <2>3, <2>4
<1>10. ASSUME NEW x \in Int, NEW y \in Int, Solid(shape, y, x)
       PROVE  y \in 2 .. ny - 3 /\ x \in 2 .. nx - sponge - 1
  <2> DEFINE dx == 2 * x - cx
             dy == 2 * y - cy
             left == cx - 2 * d
             right == 2 * (nx - sponge) - cx
             wall == cy - d
  <2>1. (q * dx) * (q * dx) <= ex /\ (q * dy) * (q * dy) <= ey
    BY <1>8, <1>10
  <2>2. dx \in Int /\ dy \in Int /\ left \in Int /\ right \in Int /\ wall \in Int
    BY <1>1, <1>2
  <2>3. /\ left >= major \/ (left >= 0 /\ (left * q) * (left * q) >= ex)
        /\ wall >= major \/ (wall >= 0 /\ (wall * q) * (wall * q) >= ey)
        /\ right > major \/ (right > 0 /\ (right * q) * (right * q) > ex)
    BY <1>4, <1>6
  <2> HIDE DEF major, minor, c, s, q, cx, cy, ex, ey, d, nx, ny, sponge, dx, dy, left, right, wall
  <2>4. -left <= dx
    BY <1>1, <1>9, <2>1, <2>2, <2>3, Reaches
  <2>5. dx < right
    BY <1>1, <1>9, <2>1, <2>2, <2>3, Reaches
  <2>6. -wall <= dy /\ dy <= wall
    BY <1>1, <1>9, <2>1, <2>2, <2>3, Reaches
  <2>7. x >= 2 /\ x < nx - sponge
    BY <1>1, <1>2, <2>4, <2>5 DEF dx, left, right
  <2>8. y >= 2 /\ y <= ny - 3
    BY <1>1, <1>2, <2>6 DEF dy, wall
  <2> QED
    BY <1>1, <2>7, <2>8
<1> QED
  BY <1>5, <1>7, <1>10

-----------------------------------------------------------------------------
(* Every subject of MCNumerics leaves the others alone.                    *)

LEMMA InitFacts == MCInit => IInv
  BY InitRun, InitSession, InitLaunch DEF MCInit, IInv, InputInv, Picked

\* Nothing is picked twice, and only by its own subject.
LEMMA InputSteps == InputInv /\ [MCNext]_mcVars => InputInv'
<1> SUFFICES ASSUME InputInv, [MCNext]_mcVars PROVE InputInv'
  OBVIOUS
<1>1. CASE UNCHANGED <<subject, input>>
  BY <1>1 DEF InputInv, Picked
<1>2. CASE Solve \/ Launch \/ Train \/ UNCHANGED mcVars
  BY <1>1, <1>2 DEF Solve, Launch, Train, mcVars
<1>3. ASSUME NEW name, NEW inputs, Pick(name, inputs)
      PROVE  subject = name /\ subject' = name /\ input' \in inputs
  BY <1>3 DEF Pick
<1>4. CASE PickMask
  BY <1>3, <1>4 DEF PickMask, InputInv, Picked
<1>5. CASE PickNode
  <2> DEFINE nodes == [f : [Directions -> 0 .. 1], a : 0 .. 1]
  <2>1. subject' = "node" /\ input' \in nodes
    BY <1>3, <1>5 DEF PickNode
  <2> HIDE DEF nodes
  <2>2. (subject = "node" /\ input # None => input \in nodes)'
    BY <2>1
  <2> QED
    BY <2>1, <2>2 DEF InputInv, Picked, nodes
<1>6. CASE PickShape
  BY <1>3, <1>6 DEF PickShape, InputInv, Picked
<1>7. CASE \/ PickDam \/ PickSdf \/ PickCells \/ PickCases \/ PickProbes \/ PickSlopes \/ PickEnsemble
           \/ PickRatio \/ PickLoss \/ PickDesign \/ PickSmoke \/ PickSplit \/ PickEpoch \/ PickFit \/ PickQuery
  <2>1. subject' \notin {"mask", "node", "shape"}
    BY <1>7, <1>3 DEF PickDam, PickSdf, PickCells, PickCases, PickProbes, PickSlopes, PickEnsemble,
       PickRatio, PickLoss, PickDesign, PickSmoke, PickSplit, PickEpoch, PickFit, PickQuery
  <2> QED
    BY <2>1 DEF InputInv, Picked
<1> QED
  BY <1>2, <1>4, <1>5, <1>6, <1>7 DEF MCNext

LEMMA NextFacts == IInv /\ [MCNext]_mcVars => IInv'
<1> SUFFICES ASSUME IInv, [MCNext]_mcVars PROVE IInv'
  OBVIOUS
<1> DEFINE Others ==
        /\ subject' = subject /\ [Next]_solveVars /\ [SessionNext]_sessionVars
        /\ [Launch]_launchVars
<1>1. CASE Others
  BY <1>1, RunSteps, SessionSteps, LaunchSteps, InputSteps DEF IInv
<1>2. ASSUME NEW name, NEW inputs, Pick(name, inputs)
      PROVE  Others
  BY <1>2 DEF Pick
<1>3. CASE Solve \/ Launch \/ Train \/ UNCHANGED mcVars
  <2>1. Others
    BY <1>3 DEF Solve, Launch, Train, mcVars
  <2> QED
    BY <1>1, <2>1
<1>4. CASE \/ PickMask \/ PickNode \/ PickShape \/ PickDam \/ PickSdf \/ PickCells \/ PickCases
           \/ PickProbes \/ PickSlopes \/ PickEnsemble \/ PickRatio \/ PickLoss
           \/ PickDesign \/ PickSmoke \/ PickSplit \/ PickEpoch \/ PickFit \/ PickQuery
  <2>1. Others
    BY <1>2, <1>4 DEF PickMask, PickNode, PickShape, PickDam, PickSdf, PickCells, PickCases,
       PickProbes, PickSlopes, PickEnsemble, PickRatio, PickLoss,
       PickDesign, PickSmoke, PickSplit, PickEpoch, PickFit, PickQuery
  <2> QED
    BY <1>1, <2>1
<1> QED
  BY <1>3, <1>4 DEF MCNext

LEMMA Invariance == MCSpec => []IInv
  BY InitFacts, NextFacts, PTL DEF MCSpec

\* For every schedule and window, a completed run of the solver averaged exactly the fields
\* of its schedule with an inspection behind each, and a failed one says where it failed; for
\* every number of batches, epochs and restarts, a training session that was killed and
\* resumed is at every checkpoint the one that was never interrupted.
THEOREM ExactRuns == MCSpec => []RunsAreExact
<1>1. IInv => RunsAreExact
  BY RunsAreScheduled, SessionsAreExact DEF IInv, RunsAreExact
<1> QED
  BY <1>1, Invariance, PTL

\* The inputs of the runs are masks in the clear, integer populations, and ellipses.
LEMMA InputFacts ==
    /\ \A mask \in SUBSET ClearCells : Clear(mask)
    /\ \A node \in [f : [Directions -> 0 .. 1], a : 0 .. 1] : node.f \in [Directions -> Int] /\ node.a \in Int
    /\ \A shape \in Shapes : IsShape(shape)
<1>1. ASSUME NEW mask \in SUBSET ClearCells PROVE Clear(mask)
  BY DEF ClearCells, Clear
<1>2. ASSUME NEW node \in [f : [Directions -> 0 .. 1], a : 0 .. 1]
      PROVE  node.f \in [Directions -> Int] /\ node.a \in Int
  OBVIOUS
<1>3. ASSUME NEW shape \in Shapes PROVE IsShape(shape)
  <2>1. /\ shape.nx \in {46, 126, 136, 146, 156, 256} /\ shape.ny = 320 /\ shape.major \in 10 .. 20
        /\ shape.minor \in {10, 12, 13, 15, 20} /\ shape.minor <= shape.major
        /\ shape.rotation \in {<<1, 0, 1>>, <<24, 7, 25>>, <<12, 5, 13>>, <<15, 8, 17>>}
    BY DEF Shapes
  <2> DEFINE r == shape.rotation
  <2>2. r[1] \in Int /\ r[2] \in Int /\ r[3] \in Nat \ {0} /\ r[1] * r[1] + r[2] * r[2] = r[3] * r[3]
    <3>1. CASE r = <<1, 0, 1>>
      BY <3>1
    <3>2. CASE r = <<24, 7, 25>>
      BY <3>2
    <3>3. CASE r = <<12, 5, 13>>
      BY <3>3
    <3>4. CASE r = <<15, 8, 17>>
      BY <3>4
    <3> QED
      BY <2>1, <3>1, <3>2, <3>3, <3>4
  <2>3. /\ shape.nx \in Nat /\ shape.ny \in Nat /\ shape.ny >= 40
        /\ shape.major \in Nat \ {0} /\ shape.minor \in Nat \ {0}
    BY <2>1
  <2> HIDE DEF r
  <2> QED
    BY <2>1, <2>2, <2>3 DEF IsShape, r
<1> QED
  BY <1>1, <1>2, <1>3

\* On a grid of any size, for every inlet velocity, rate and tile: the fused kernels move every
\* population where the array operations do, around every obstacle in the clear none is lost
\* or counted twice, and collision and inlet keep what they must; preflight accepts no
\* obstacle that is not in the clear; and for every number of solves and advances the two
\* implementations run these stages on the same buffers, mask and force samples.
THEOREM ExactSteps == MCSpec => []StepsAreExact
<1>1. IInv => StepsAreExact
  BY InputFacts, StreamingDoesAgree, NodesDoAgree, PreflightDoesSuffice, LaunchesDoAgree
     DEF IInv, InputInv, StepsAreExact, Picked
<1> QED
  BY <1>1, Invariance, PTL
=============================================================================
