------------------------------ MODULE Dataset ------------------------------
(***************************************************************************)
(* From the experiment design to the numbers a model is trained on         *)
(* (datagen/design.py, training/data.py, surrogate/preprocessing.py and    *)
(* training/baselines.py): the Latin hypercube and its selection, the      *)
(* splits, the batches of an epoch, the statistics of the outputs, and the *)
(* baselines.                                                              *)
(*                                                                         *)
(* A design identifier is a natural, ordered as its text is.  Digests that *)
(* only serve to order designs are naturals too, and may collide.  Numbers *)
(* are integers in the parts that each section names.                      *)
(***************************************************************************)
EXTENDS Integers, Sequences, SequencesExt, FiniteSetsExt, Functions

CONSTANTS
    TrainCount, ValidationCount, TestCount,     \* the sizes of the splits
    Jitter,         \* a place within a stratum is one of this many
    CellCount,      \* MODEL_CELL_COUNT
    Parts           \* moments are in parts of this number

Samples == TrainCount + ValidationCount + TestCount

ASSUME DatasetAssumption ==
    /\ TrainCount \in Nat \ {0} /\ ValidationCount \in Nat /\ TestCount \in Nat
    /\ Jitter \in Nat \ {0} /\ CellCount \in Nat \ {0} /\ Parts \in Nat \ {0}
    /\ \A n \in 1 .. Samples : Parts % (n * CellCount) = 0

Splits == {"train", "validation", "test"}
SizeOf == [train |-> TrainCount, validation |-> ValidationCount, test |-> TestCount]

-----------------------------------------------------------------------------
(* The design.  A candidate gives each sample and dimension a coordinate,  *)
(* in parts of the number of samples times Jitter.                         *)

\* _lhs_candidate: one place in every stratum, in an order of its own for each dimension.
LhsCandidate(place, order) ==
    [sample \in DOMAIN order[1] |->
        [dimension \in DOMAIN order |->
            LET stratum == order[dimension][sample]
            IN  stratum * Jitter + place[dimension][stratum]]]

SquaredDistance(a, b) ==
    FoldFunction(LAMBDA d, total : d * d + total, 0, [i \in DOMAIN a |-> a[i] - b[i]])
MinimumDistance(candidate) ==
    Min({SquaredDistance(candidate[p[1]], candidate[p[2]]) :
            p \in {q \in (DOMAIN candidate) \X (DOMAIN candidate) : q[1] # q[2]}})

\* Mutant: the last of the best candidates is selected.
SelectMaximinLast(distances) ==
    CHOOSE i \in DOMAIN distances : \A other \in DOMAIN distances :
        distances[other] < distances[i] \/ (distances[other] = distances[i] /\ other <= i)

\* _select_maximin_index: the largest distance, the first candidate among equals.
SelectMaximin(distances) ==
    CHOOSE i \in DOMAIN distances : \A other \in DOMAIN distances :
        distances[other] < distances[i] \/ (distances[other] = distances[i] /\ i <= other)

\* DesignSummary's validator, for the evidence of a selection.
SummaryAccepts(distances, selected) ==
    /\ \A i \in DOMAIN distances : distances[i] > 0
    /\ selected = Min({i \in DOMAIN distances : distances[i] = Max(Range(distances))})

-----------------------------------------------------------------------------
(* The splits: points is a sequence of designs, digest the hash each       *)
(* design is ranked by.                                                    *)

Before(digest, a, b) == digest[a] < digest[b] \/ (digest[a] = digest[b] /\ a < b)

\* Mutant: points are ranked by digest alone, and stay in the given order where it ties.
RankByDigest(points, digest) ==
    [design \in Range(points) |->
        LET at(d) == CHOOSE i \in DOMAIN points : points[i] = d IN
        Cardinality({other \in Range(points) :
            \/ digest[other] < digest[design]
            \/ digest[other] = digest[design] /\ at(other) <= at(design)})]

\* The rank of each design by digest and then by identifier, from 1.
Rank(points, digest) ==
    [design \in Range(points) |->
        1 + Cardinality({other \in Range(points) : Before(digest, other, design)})]

\* assign_splits: ranks become splits of fixed sizes, and the points keep their order.
AssignSplits(points, digest) ==
    LET rank == Rank(points, digest)
    IN  [i \in DOMAIN points |->
            [index |-> i, design |-> points[i],
             split |-> CASE rank[points[i]] <= TrainCount -> "train"
                         [] rank[points[i]] \in TrainCount + 1 .. TrainCount + ValidationCount ->
                                "validation"
                         [] OTHER -> "test"]]

\* design_sha256 and split_sha256, by what they hash.
DesignRecord(rows) == rows
SplitRecord(rows) == {<<row.design, row.split>> : row \in Range(rows)}

\* split_rows: the manifest lists its rows by design.
SplitRows(rows, split) ==
    SetToSortSeq({row.design : row \in {r \in Range(rows) : r.split = split}}, <)

\* ordered_rows: key is the hash of dataset, seed, epoch and design.
OrderedRows(rows, split, key) ==
    IF split # "train" THEN SplitRows(rows, split)
    ELSE SetToSortSeq(Range(SplitRows(rows, split)), LAMBDA a, b : Before(key, a, b))

\* Mutant: an epoch drops the batch that is not full.
BatchRowsFull(rows, split, size, key) ==
    LET ordered == OrderedRows(rows, split, key)
    IN  [ordinal \in 1 .. Len(ordered) \div size |->
            SubSeq(ordered, (ordinal - 1) * size + 1, ordinal * size)]

\* batch_rows: consecutive slices, the last one as short as it must be.
BatchRows(rows, split, size, key) ==
    LET ordered == OrderedRows(rows, split, key)
    IN  [ordinal \in 1 .. (Len(ordered) + size - 1) \div size |->
            SubSeq(ordered, (ordinal - 1) * size + 1, Min({ordinal * size, Len(ordered)}))]

-----------------------------------------------------------------------------
(* The statistics of an output channel: a sample has a split and the       *)
(* values of its cells; mean and m2 are in Parts and in Parts squared.     *)

NoMoments == [count |-> 0, mean |-> 0, m2 |-> 0]
Total(values) == FoldFunction(+, 0, values)
MeanOf(values) == (Parts * Total(values)) \div Len(values)
SpreadOf(values) ==
    Total([i \in DOMAIN values |->
              (Parts * values[i] - MeanOf(values)) * (Parts * values[i] - MeanOf(values))])

\* Mutant: chunks are merged without the distance between their means.
MergeWithin(moments, values) ==
    LET total == moments.count + Len(values)
    IN  [count |-> total,
         mean |-> (moments.mean * moments.count + MeanOf(values) * Len(values)) \div total,
         m2 |-> moments.m2 + SpreadOf(values)]

\* _StreamingMoments.update.
Merge(moments, values) ==
    LET total == moments.count + Len(values)
        delta == MeanOf(values) - moments.mean
    IN  IF moments.count = 0
        THEN [count |-> Len(values), mean |-> MeanOf(values), m2 |-> SpreadOf(values)]
        ELSE [count |-> total,
              mean |-> moments.mean + (delta * Len(values)) \div total,
              m2 |-> moments.m2 + SpreadOf(values)
                        + (delta * delta * moments.count * Len(values)) \div total]

\* fit_preprocessing_statistics: samples maps a case to its sample, supplied is the order
\* they come in; the training cases are merged by identifier.
Fit(samples, supplied) ==
    LET training == SetToSortSeq({c \in Range(supplied) : samples[c].split = "train"}, <)
    IN  FoldLeft(LAMBDA moments, c : Merge(moments, samples[c].values), NoMoments, training)

\* _normalize_output and denormalize_fields, before the division by the deviation; density
\* is normalised as its distance from one.
Normalized(channel, value, mean) == Parts * (IF channel = "rho" THEN value - 1 ELSE value) - mean
Denormalized(channel, parts, mean) ==
    (parts + mean) \div Parts + (IF channel = "rho" THEN 1 ELSE 0)

-----------------------------------------------------------------------------
(* The baselines.  A design is <<aspect_ratio, rotation_deg, scale,        *)
(* reynolds>>, ratios in hundredths; unit coordinates in parts of 3900.    *)

Bounds == << <<50, 100>>, <<0, 30>>, <<75, 125>>, <<40, 300>> >>
Span(d) == Bounds[d][2] - Bounds[d][1]

\* _normalize_range, and _unit_design.
NormalizeRange(d, value) == (2 * 3900 * (value - Bounds[d][1])) \div Span(d) - 3900
UnitDesign(design) == [d \in 1 .. 4 |-> (3900 * (design[d] - Bounds[d][1])) \div Span(d)]
ModelDesign(design) == [d \in 1 .. 4 |-> NormalizeRange(d, design[d])]

\* Mutant: the query stays in the range of the model.
QueryInModelRange(query) == query
QueryUnit(query) == [d \in 1 .. 4 |-> (query[d] + 3900) \div 2]

\* _nearest_indices: the first of the nearest training rows, in the order of the manifest.
Nearest(designs, training, query) ==
    LET distance(c) == SquaredDistance(UnitDesign(designs[c]), QueryUnit(query))
    IN  CHOOSE c \in training : \A other \in training :
            distance(c) < distance(other) \/ (distance(c) = distance(other) /\ c <= other)

\* fit_mean_field_baseline: the normalised cell, summed over the training rows.
MeanField(samples, training, mean, i) ==
    MapThenSumSet(LAMBDA c : Normalized("u", samples[c].values[i], mean), training)

-----------------------------------------------------------------------------
(* What the dataset promises.                                              *)

\* Every stratum of every dimension holds one sample, no two samples meet, and what the
\* generator selects among its candidates is what the summary's validator accepts.
DesignIsStratified(candidates) ==
    LET distances == [i \in DOMAIN candidates |-> MinimumDistance(candidates[i])]
        strata(c, d) == {c[sample][d] \div Jitter : sample \in DOMAIN c}
    IN  /\ \A c \in Range(candidates) : \A d \in DOMAIN c[1] :
              strata(c, d) = 0 .. Len(c) - 1
        /\ SummaryAccepts(distances, SelectMaximin(distances))

\* The splits have their sizes, and the split of a design depends neither on its index nor
\* on the order of the points: the split record is the same although the design record is
\* not.
SplitsAreStable(points, shuffled, digest) ==
    LET rows == AssignSplits(points, digest)
        again == AssignSplits(shuffled, digest)
    IN  /\ \A split \in Splits : Len(SplitRows(rows, split)) = SizeOf[split]
        /\ SplitRecord(rows) = SplitRecord(again)
        /\ DesignRecord(rows) = DesignRecord(again) <=> points = shuffled

\* An epoch trains on every training row once and on nothing else, in full batches up to
\* the last; and the order of an evaluation is the same in every epoch.
EpochsCover(points, digest, key, other, size) ==
    LET rows == AssignSplits(points, digest)
        batches(split, k) == BatchRows(rows, split, size, k)
        flat(split, k) == FlattenSeq(batches(split, k))
    IN  /\ \A split \in Splits :
              /\ Len(flat(split, key)) = SizeOf[split]
              /\ Range(flat(split, key)) = {r.design : r \in {q \in Range(rows) : q.split = split}}
              /\ \A i \in DOMAIN batches(split, key) :
                    Len(batches(split, key)[i]) \in 1 .. size
                    /\ (i < Len(batches(split, key)) => Len(batches(split, key)[i]) = size)
        /\ \A split \in Splits \ {"train"} : batches(split, key) = batches(split, other)

\* The statistics are the moments of the training cells, whatever order the samples come
\* in and whatever the other splits hold; normalising is undone exactly; and the mean
\* field, over all of its cells, is zero.
StatisticsAreClean(samples, supplied) ==
    LET fit == Fit(samples, supplied)
        training == SetToSeq({c \in DOMAIN samples : samples[c].split = "train"})
        cells == FlattenSeq([i \in DOMAIN training |-> samples[training[i]].values])
    IN  training # <<>> =>
        /\ fit = [count |-> Len(cells), mean |-> MeanOf(cells), m2 |-> SpreadOf(cells)]
        /\ \A c \in DOMAIN samples, channel \in {"u", "v", "rho"} :
              LET value == samples[c].values[1]
              IN  Denormalized(channel, Normalized(channel, value, fit.mean), fit.mean) = value
        /\ MapThenSumSet(LAMBDA i : MeanField(samples, Range(training), fit.mean, i),
                         1 .. CellCount) = 0

\* The nearest baseline answers with a training row at the least distance, with the very
\* row when it is asked about one, and nothing outside the training rows moves it.
BaselinesAreClean(designs, training, asked) ==
    LET query == ModelDesign(designs[asked])
        found == Nearest(designs, training, query)
        distance(c) == SquaredDistance(UnitDesign(designs[c]), UnitDesign(designs[asked]))
    IN  /\ found \in training
        /\ \A c \in training : distance(found) <= distance(c)
        /\ asked \in training => designs[found] = designs[asked] /\ found <= asked
=============================================================================
