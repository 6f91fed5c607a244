------------------------------ MODULE Metrics ------------------------------
(***************************************************************************)
(* The measurements behind a validation report (validation/metrics.py,     *)
(* ood.py, sensitivity.py, plot_data.py and the selections of              *)
(* infra/validation_pipeline.py) and behind training (training/loss.py):   *)
(* which cells a metric or a loss reads, how a distribution with an        *)
(* invalid case is summarised, which cases and probes are shown, when      *)
(* three models disagree more outside the domain, and when two derivatives *)
(* agree.                                                                  *)
(*                                                                         *)
(* Measurements are naturals.  A case identifier is a natural, as its hex  *)
(* text only serves to order cases.  Denominators that are common to both  *)
(* sides of a comparison are left out.                                     *)
(***************************************************************************)
EXTENDS Integers, Sequences, SequencesExt, FiniteSetsExt

CONSTANTS
    Height, Width,      \* the grid of a field
    ProbeCount,         \* PROBE_COUNT
    WorstCount,         \* the worst cases a summary names
    Tolerance,          \* SENSITIVITY_MAGNITUDE_TOLERANCE
    FloorParts,         \* 1 / RELATIVE_ENERGY_FLOOR, and 1 / CD_RELATIVE_FLOOR
    NoValue             \* NaN or infinity in a field; an invalid observation

ASSUME MetricsAssumption ==
    /\ Height \in Nat /\ Width \in Nat
    /\ {ProbeCount, WorstCount, FloorParts} \subseteq Nat \ {0} /\ Tolerance \in Nat

Abs(x) == IF x < 0 THEN -x ELSE x
Cells == (1 .. Height) \X (1 .. Width)

\* The arrays are finite everywhere, the cells of the obstacle included.
Finite(arrays) == \A f \in arrays : \A c \in DOMAIN f : f[c] # NoValue

-----------------------------------------------------------------------------
(* One case.                                                               *)

\* Mutant: the stencil leaves out the cell below.
StencilOpen(fluid) ==
    {c \in Cells : /\ c[1] \in 2 .. Height - 1 /\ c[2] \in 2 .. Width - 1
                   /\ {c, <<c[1], c[2] - 1>>, <<c[1], c[2] + 1>>, <<c[1] + 1, c[2]>>} \subseteq fluid}

\* _divergence: the interior cells that are fluid with their four neighbours.
Stencil(fluid) ==
    {c \in Cells : /\ c[1] \in 2 .. Height - 1 /\ c[2] \in 2 .. Width - 1
                   /\ {c, <<c[1], c[2] - 1>>, <<c[1], c[2] + 1>>, <<c[1] - 1, c[2]>>,
                       <<c[1] + 1, c[2]>>} \subseteq fluid}

Central(u, v, c) ==
    (u[<<c[1], c[2] + 1>>] - u[<<c[1], c[2] - 1>>]) + (v[<<c[1] + 1, c[2]>>] - v[<<c[1] - 1, c[2]>>])

\* The sum whose mean is the metric; without finite arrays or a stencil the observation is
\* invalid.
Divergence(u, v, fluid) ==
    IF ~Finite({u, v}) \/ Stencil(fluid) = {} THEN NoValue
    ELSE MapThenSumSet(LAMBDA c : Abs(Central(u, v, c)), Stencil(fluid))

\* _relative_velocity, before the roots and the division.
VelocityError(u, v, su, sv, fluid) ==
    IF ~Finite({u, v, su, sv}) \/ fluid = {} THEN NoValue
    ELSE MapThenSumSet(LAMBDA c : (u[c] - su[c]) * (u[c] - su[c]) + (v[c] - sv[c]) * (v[c] - sv[c]),
                       fluid)

\* _drag_observation: the three drag metrics of a case share one denominator.
Drag(left, right) == IF NoValue \in {left, right} THEN NoValue ELSE Abs(left - right)

-----------------------------------------------------------------------------
(* A distribution: obs gives each case a value or NoValue.                 *)

InvalidCases(obs) == {case \in DOMAIN obs : obs[case] = NoValue}

\* The cases by value, then by identifier.
Ranked(obs) ==
    SetToSortSeq(DOMAIN obs, LAMBDA a, b : obs[a] < obs[b] \/ (obs[a] = obs[b] /\ a < b))

\* numpy's linear quantile at k/20, in parts of 20.
Quantile(obs, k) ==
    LET ranked == Ranked(obs)
        at == k * (Len(ranked) - 1)
        low == obs[ranked[at \div 20 + 1]]
        high == obs[ranked[Min({at \div 20 + 2, Len(ranked)})]]
    IN  20 * low + (at % 20) * (high - low)

\* The worst cases first, the smaller identifier first among equals.
Worst(obs) ==
    LET order == SetToSortSeq(DOMAIN obs, LAMBDA a, b :
                                  obs[a] > obs[b] \/ (obs[a] = obs[b] /\ a < b))
    IN  SubSeq(order, 1, Min({WorstCount, Len(order)}))

\* Mutant: a distribution is summarised without its invalid cases.
SummarizeAround(obs) ==
    LET valid == [case \in DOMAIN obs \ InvalidCases(obs) |-> obs[case]]
    IN  IF DOMAIN valid = {} THEN [status |-> "invalid", invalid |-> InvalidCases(obs)]
        ELSE [status |-> "valid", median |-> Quantile(valid, 10), p90 |-> Quantile(valid, 18),
              p95 |-> Quantile(valid, 19), maximum |-> Quantile(valid, 20), worst |-> Worst(valid)]

\* summarize_metric: one invalid case leaves no aggregate.
Summarize(obs) ==
    IF InvalidCases(obs) # {} THEN [status |-> "invalid", invalid |-> InvalidCases(obs)]
    ELSE [status |-> "valid", median |-> Quantile(obs, 10), p90 |-> Quantile(obs, 18),
          p95 |-> Quantile(obs, 19), maximum |-> Quantile(obs, 20), worst |-> Worst(obs)]

\* The cases whose fields are plotted: the one closest to the median, and the worst.
Closest(obs) ==
    LET distance(case) == Abs(20 * obs[case] - Quantile(obs, 10))
    IN  CHOOSE case \in DOMAIN obs : \A other \in DOMAIN obs :
            distance(case) < distance(other) \/ (distance(case) = distance(other) /\ case <= other)

\* ValidationPlotData refuses a report whose two cases are one.
Plotted(obs) == Closest(obs) # Worst(obs)[1]

-----------------------------------------------------------------------------
(* Probes: a row of the manifest has its dataset, a design, a split, a     *)
(* rotation in degrees, and a rank digest for either selection.  A rank    *)
(* binds the identity of the dataset, and so every row of it: it is the    *)
(* rank of the row in this dataset, and says nothing of another.           *)

Eligible(row, selection) ==
    row.split = "test" /\ (selection = "ood" \/ row.rotation \in 1 .. 29)

\* Mutant: rows of one rank stay in the order in which they are read.
AheadByRank(a, b, selection) == a.rank[selection] < b.rank[selection]

Ahead(a, b, selection) ==
    \/ a.rank[selection] < b.rank[selection]
    \/ a.rank[selection] = b.rank[selection] /\ a.design < b.design

\* select_probe_geometries: rows of several datasets, a design that two rows have, and too
\* few candidates are refused.
Probes(rows, selection) ==
    LET of(field) == {rows[i][field] : i \in DOMAIN rows}
        candidates == SelectSeq(rows, LAMBDA row : Eligible(row, selection))
        order == SortSeq(candidates, LAMBDA a, b : Ahead(a, b, selection))
    IN  IF /\ Cardinality(of("dataset")) = 1 /\ Cardinality(of("design")) = Len(rows)
           /\ Len(candidates) >= ProbeCount
        THEN SubSeq(order, 1, ProbeCount) ELSE <<>>

\* The rotations at which the predictor is asked, in quarters of a degree.
AskedAt(probe) == {4 * probe.rotation - 1, 4 * probe.rotation, 4 * probe.rotation + 1}

\* Mutant: derivatives agree when their signs do, however small they are.
AgreesBySign(autograd, central) == autograd * central > 0

\* evaluate_rotation_sensitivity: both negligible, or neither and of one sign.
Agrees(autograd, central) ==
    \/ Abs(autograd) <= Tolerance /\ Abs(central) <= Tolerance
    \/ Abs(autograd) > Tolerance /\ Abs(central) > Tolerance /\ autograd * central > 0

-----------------------------------------------------------------------------
(* Three models on a probe: a member has a model and its fields by channel *)
(* and cell; weight is a common multiple over the training variances.      *)

Members == 1 .. 3
Channels == 1 .. 3

\* Nine times the population variance of three predictions.
Spread(a, b, c) == 3 * (a * a + b * b + c * c) - (a + b + c) * (a + b + c)

\* Mutant: the disagreement is measured inside the obstacle too.
EnsembleVarianceAll(members, fluid, weight) ==
    IF Cardinality({members[m].model : m \in Members}) # 3 THEN NoValue
    ELSE MapThenSumSet(LAMBDA x : weight[x[1]] * Spread(members[1].fields[x], members[2].fields[x],
                                                        members[3].fields[x]),
                       DOMAIN members[1].fields)

\* evaluate_ensemble_variance, before the division by the fluid cells; two predictions
\* of one model are refused, and one that is not finite everywhere is none
\* (EnsembleFieldPrediction).
EnsembleVariance(members, fluid, weight) ==
    IF Cardinality({members[m].model : m \in Members}) # 3 THEN NoValue
    ELSE MapThenSumSet(LAMBDA x : weight[x[1]] * Spread(members[1].fields[x], members[2].fields[x],
                                                        members[3].fields[x]),
                       {x \in DOMAIN members[1].fields : x[2] \in fluid})

Regime(reynolds) == IF reynolds \in {1, 4} THEN "ood" ELSE "id_boundary"

\* Twice the median of the results of a regime, a result being named by its position.
TwiceMedian(results, regime) ==
    LET here == {i \in DOMAIN results : Regime(results[i].reynolds) = regime}
        order == SetToSortSeq(here, LAMBDA i, j : \/ results[i].variance < results[j].variance
                                                  \/ results[i].variance = results[j].variance /\ i < j)
        n == Len(order)
    IN  results[order[(n + 1) \div 2]].variance + results[order[n \div 2 + 1]].variance

\* Mutant: results are complete when their number is.
CompleteByCount(results) == Len(results) = 4 * ProbeCount

\* OodEvaluation: as many geometries as probes, each at its four Reynolds numbers.
Complete(results) ==
    LET geometries == {results[i].geometry : i \in DOMAIN results} IN
    /\ Len(results) = 4 * ProbeCount /\ Cardinality(geometries) = ProbeCount
    /\ \A g \in geometries :
          {results[i].reynolds : i \in {k \in DOMAIN results : results[k].geometry = g}} = 1 .. 4

\* summarize_ood_evaluation: a ratio needs disagreement inside the domain.
SummarizeOod(results) ==
    LET outside == TwiceMedian(results, "ood")
        inside == TwiceMedian(results, "id_boundary")
    IN  IF ~Complete(results) THEN [status |-> "refused"]
        ELSE IF inside = 0 THEN [status |-> "invalid"]
        ELSE [status |-> "valid", outside |-> outside, inside |-> inside]

-----------------------------------------------------------------------------
(* masked_training_loss: terms as fractions over the cells of a batch, of  *)
(* finite tensors.  A value that is not finite, also inside the obstacle,  *)
(* reaches the total, which is refused.                                    *)

\* Mutant: the energy of the target is taken over all cells.
FieldTermOfAll(prediction, target, fluid, channel) ==
    LET square(f) == MapThenSumSet(LAMBDA c : f[<<channel, c>>] * f[<<channel, c>>],
                                   {x[2] : x \in DOMAIN target})
        error == MapThenSumSet(LAMBDA c : (prediction[<<channel, c>>] - target[<<channel, c>>])
                                          * (prediction[<<channel, c>>] - target[<<channel, c>>]), fluid)
    IN  <<error * FloorParts, Max({square(target) * FloorParts, 1})>>

\* The squared error in the fluid, relative to the target's energy there or to the floor.
FieldTerm(prediction, target, fluid, channel) ==
    LET square(f) == MapThenSumSet(LAMBDA c : f[<<channel, c>>] * f[<<channel, c>>], fluid)
        error == [x \in DOMAIN target |-> prediction[x] - target[x]]
    IN  <<square(error) * FloorParts, Max({square(target) * FloorParts, 1})>>

\* What flows through the obstacle.
ObstacleTerm(prediction, solid) ==
    MapThenSumSet(LAMBDA c : prediction[<<1, c>>] * prediction[<<1, c>>]
                             + prediction[<<2, c>>] * prediction[<<2, c>>], solid)

DragTerm(head, cd) ==
    <<(head - cd) * (head - cd) * FloorParts * FloorParts,
      Max({Abs(cd) * FloorParts, 1}) * Max({Abs(cd) * FloorParts, 1})>>

Loss(prediction, target, fluid, solid, head, cd) == [
    u |-> FieldTerm(prediction, target, fluid, 1), v |-> FieldTerm(prediction, target, fluid, 2),
    rho |-> FieldTerm(prediction, target, fluid, 3),
    obstacle |-> ObstacleTerm(prediction, solid), cd |-> DragTerm(head, cd)]

\* The weights of the total are positive: it is zero when every term is.
Vanishes(loss) ==
    loss.u[1] = 0 /\ loss.v[1] = 0 /\ loss.rho[1] = 0 /\ loss.obstacle = 0 /\ loss.cd[1] = 0

-----------------------------------------------------------------------------
(* What the measurements promise.                                          *)

\* A metric of the fluid adds up nothing but fluid: whatever numbers a prediction holds inside
\* the obstacle, its divergence and its velocity error are the same.  But one value that is
\* no number makes both invalid wherever it is, in the prediction or in the solution, so
\* that a prediction that broke down is not measured by the cells where it did not.
ReadsOnlyFluid(fluid) ==
    LET u == [c \in Cells |-> c[1] * c[1] + 3 * c[2] * c[1]]
        v == [c \in Cells |-> 2 * c[1] * c[2] + c[2]]
        inside(f) == [c \in Cells |-> IF c \in fluid THEN f[c] ELSE f[c] + 97 * c[1] + 13 * c[2]]
        zero == [c \in Cells |-> 0]
        broken(f, c) == [f EXCEPT ![c] = NoValue]
    IN  /\ Divergence(inside(u), inside(v), fluid) = Divergence(u, v, fluid)
        /\ VelocityError(inside(u), inside(v), zero, zero, fluid)
              = VelocityError(u, v, zero, zero, fluid)
        /\ \A c \in Cells :
              {Divergence(broken(u, c), v, fluid), Divergence(u, broken(v, c), fluid),
               VelocityError(broken(u, c), v, zero, zero, fluid),
               VelocityError(u, broken(v, c), zero, zero, fluid),
               VelocityError(u, v, broken(zero, c), zero, fluid),
               VelocityError(u, v, zero, broken(zero, c), fluid)} = {NoValue}

\* A summary speaks for every case or for none; its quantiles are ordered and lie within
\* the values, half of the cases are on either side of the median, and the cases it ranks
\* as worst are no better than any it leaves out.
SummaryIsHonest(obs) ==
    LET s == Summarize(obs)
        below(x) == {case \in DOMAIN obs : 20 * obs[case] <= x}
        above(x) == {case \in DOMAIN obs : 20 * obs[case] >= x}
        named == {s.worst[i] : i \in DOMAIN s.worst}
    IN  /\ s.status = "valid" <=> NoValue \notin {obs[case] : case \in DOMAIN obs}
        /\ s.status = "valid" =>
              /\ s.median <= s.p90 /\ s.p90 <= s.p95 /\ s.p95 <= s.maximum
              /\ s.maximum = 20 * Max({obs[case] : case \in DOMAIN obs})
              /\ 2 * Cardinality(below(s.median)) >= Cardinality(DOMAIN obs)
              /\ 2 * Cardinality(above(s.median)) >= Cardinality(DOMAIN obs)
              /\ Cardinality(named) = Min({Cardinality(DOMAIN obs), WorstCount})
              /\ \A case \in named, other \in DOMAIN obs \ named : obs[case] >= obs[other]
        /\ s.status = "invalid" => s.invalid = InvalidCases(obs) /\ s.invalid # {}

\* The two plotted cases are one, and the report is refused, only where half of the cases
\* share the largest error.
PlotsAreDistinct(obs) ==
    InvalidCases(obs) = {} /\ Cardinality(DOMAIN obs) >= 3 /\ ~Plotted(obs) =>
        2 * Cardinality({case \in DOMAIN obs : 20 * obs[case] = Quantile(obs, 20)})
            >= Cardinality(DOMAIN obs)

\* The probes of one dataset are the same in whatever order its rows are read; they are
\* distinct test geometries of it, with no eligible one left out that ranks before a chosen
\* one; and no derivative is asked for outside the rotations the model was trained on.
ProbesAreStable(rows) ==
    \A selection \in {"ood", "sensitivity"} :
        LET chosen == Probes(rows, selection)
            named == {chosen[i] : i \in DOMAIN chosen}
        IN  /\ \A p \in Permutations(DOMAIN rows) :
                  Probes([i \in DOMAIN rows |-> rows[p[i]]], selection) = chosen
            /\ chosen # <<>> =>
                  /\ Cardinality({probe.design : probe \in named}) = ProbeCount
                  /\ Cardinality({probe.dataset : probe \in named}) = 1
                  /\ \A probe \in named : probe.split = "test"
                  /\ \A i \in DOMAIN rows, probe \in named :
                        Eligible(rows[i], selection) /\ rows[i] \notin named =>
                            probe.rank[selection] <= rows[i].rank[selection]
                  /\ selection = "sensitivity" =>
                        \A probe \in named : AskedAt(probe) \subseteq 0 .. 120

\* The gap between head and field is covered by their errors, so that neither can be
\* right about a case where they disagree; and the sign rule treats the two derivatives
\* alike, agrees with itself, and never calls opposite slopes one.
ComparisonsAreFair(a, b, c) ==
    /\ Drag(a, b) <= Drag(a, c) + Drag(b, c)
    /\ Agrees(a, b) <=> Agrees(b, a)
    /\ Agrees(a, a)
    /\ Agrees(a, b) /\ a * b < 0 => Abs(a) <= Tolerance /\ Abs(b) <= Tolerance
    /\ Agrees(a, b) /\ Agrees(b, c) => Agrees(a, c)

\* Three models disagree by as much in whatever order they are given, by nothing exactly
\* when they predict the same flow, and what they hold inside the obstacle does not count.
DisagreementIsFair(members, fluid, weight) ==
    LET value == EnsembleVariance(members, fluid, weight)
        turned == [m \in Members |-> members[(m % 3) + 1]]
        marked(m) == [x \in DOMAIN members[m].fields |->
                        IF x[2] \in fluid THEN members[m].fields[x] ELSE m]
    IN  value # NoValue =>
          /\ EnsembleVariance(turned, fluid, weight) = value
          /\ EnsembleVariance([m \in Members |-> [members[m] EXCEPT !.fields = marked(m)]],
                              fluid, weight) = value
          /\ value = 0 <=> \A x \in DOMAIN members[1].fields : x[2] \in fluid =>
                members[1].fields[x] = members[2].fields[x] /\ members[2].fields[x] = members[3].fields[x]

\* A ratio above one means that half of the probes outside the domain disagree more than
\* half of those inside it do, each probe counted at every Reynolds number exactly once.
RatioIsHonest(results) ==
    LET s == SummarizeOod(results)
        at(regime) == {i \in DOMAIN results : Regime(results[i].reynolds) = regime}
        exceeded(i) == {j \in at("id_boundary") : results[j].variance < results[i].variance}
    IN  /\ s.status \in {"valid", "invalid"} =>
              \A i, j \in DOMAIN results : i # j =>
                  results[i].geometry # results[j].geometry \/ results[i].reynolds # results[j].reynolds
        /\ s.status = "valid" => s.inside > 0
        /\ s.status = "valid" /\ s.outside > s.inside =>
              2 * Cardinality({i \in at("ood") :
                    2 * Cardinality(exceeded(i)) >= Cardinality(at("id_boundary"))})
                  >= Cardinality(at("ood"))

\* A prediction that is right in the fluid and at rest in the obstacle has no loss; one
\* value that is off has, unless it is a density inside the obstacle; a value in the
\* fluid moves the field terms only, one in the obstacle the obstacle term only; and no
\* term depends on the target inside the obstacle.
LossIsMasked(fluid, solid, shape, cell, channel, change) ==
    LET target == [x \in Channels \X (fluid \cup solid) |-> IF x[2] \in fluid THEN shape[x[2]] ELSE 0]
        other == [x \in DOMAIN target |-> IF x[2] \in solid THEN change ELSE target[x]]
        off == [target EXCEPT ![<<channel, cell>>] = @ + change]
        right == Loss(target, target, fluid, solid, change, change)
        wrong == Loss(off, target, fluid, solid, change, change)
    IN  /\ Vanishes(right)
        /\ Vanishes(wrong) <=> channel = 3 /\ cell \in solid
        /\ cell \in fluid => wrong.obstacle = right.obstacle
        /\ cell \in solid => [wrong EXCEPT !.obstacle = 0] = right
        /\ Loss(off, other, fluid, solid, change, change) = wrong
        /\ ~Vanishes(Loss(target, target, fluid, solid, change, -change))
=============================================================================
