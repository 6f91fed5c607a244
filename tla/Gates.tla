------------------------------- MODULE Gates -------------------------------
(***************************************************************************)
(* The required gates of a validation report: how measurements become      *)
(* gate evidence, evidence becomes a gate, and the gates a verdict         *)
(* (validation/gates.py, with the summaries of metrics.py, ood.py and      *)
(* sensitivity.py it reads).  Values are integers in units fine enough to  *)
(* fall on both sides of every threshold and on it.                        *)
(***************************************************************************)
EXTENDS Naturals, Sequences, FiniteSets

CONSTANTS
    Invalid,        \* a summary with an invalid case, or an undefined ratio
    Thresholds      \* the fixed thresholds, by gate

\* Failed evidence carries no number, and is not the truth that integrity asks for.
ASSUME GatesAssumption == Invalid \notin Nat /\ Invalid # TRUE

\* REQUIRED_GATE_DEFINITIONS, in the order of the report.
Fixed == <<"field_error", "cd_head_error", "head_field_consistency", "divergence",
           "obstacle_compliance">>
Compared == <<"mean_baseline_field", "nearest_baseline_field", "mean_baseline_cd",
              "nearest_baseline_cd">>
Required == Fixed \o Compared \o
            <<"ood_variance_increase", "sensitivity_sign", "evidence_integrity">>

AtLeast == {"head_field_consistency", "ood_variance_increase", "sensitivity_sign"}

\* Every other gate but the last asks for less than its threshold.
Operator(gate) ==
    IF gate \in AtLeast THEN "ge" ELSE IF gate = "evidence_integrity" THEN "eq" ELSE "lt"

\* The summaries of one evaluation: a median, a tail or a count, or Invalid.
Summaries == {"velocity", "cd", "gap", "divergence", "solver_divergence", "obstacle",
              "mean_velocity", "nearest_velocity", "mean_cd", "nearest_cd",
              "ood", "id_boundary", "agreed"}

\* The observations a plot point of the selected model carries, which must be valid,
\* and the medians that the evidence needs as numbers.
PlotPoints == {"velocity", "cd", "divergence", "obstacle"}
Needed == PlotPoints \cup {"mean_velocity", "nearest_velocity", "mean_cd", "nearest_cd"}

\* _observation_value and _valid_summary_value: an evaluation with one of them invalid
\* raises, and has no gates.
Evaluable(m) == \A s \in Needed : m[s] # Invalid

\* Mutant: a median ratio without a denominator is taken as nothing to complain of.
RatioOfNothing(a, b) == IF a = Invalid \/ b = Invalid \/ b = 0 THEN 0 ELSE (2 * a) \div b

\* A ratio of medians; undefined when the denominator is zero.  Ratios are doubled, so
\* that the threshold of three halves is an integer.
Ratio(a, b) == IF a = Invalid \/ b = Invalid \/ b = 0 THEN Invalid ELSE (2 * a) \div b

\* The value that _gate_evidence gives to each gate.
Value(m, gate) ==
    CASE gate \in {"field_error", "mean_baseline_field", "nearest_baseline_field"} -> m["velocity"]
      [] gate \in {"cd_head_error", "mean_baseline_cd", "nearest_baseline_cd"} -> m["cd"]
      [] gate = "head_field_consistency" -> m["gap"]
      [] gate = "divergence" -> Ratio(m["divergence"], m["solver_divergence"])
      [] gate = "obstacle_compliance" -> m["obstacle"]
      [] gate = "ood_variance_increase" -> Ratio(m["ood"], m["id_boundary"])
      [] gate = "sensitivity_sign" -> m["agreed"]
      [] gate = "evidence_integrity" -> TRUE

Threshold(m, gate) ==
    CASE gate = "mean_baseline_field" -> m["mean_velocity"]
      [] gate = "nearest_baseline_field" -> m["nearest_velocity"]
      [] gate = "mean_baseline_cd" -> m["mean_cd"]
      [] gate = "nearest_baseline_cd" -> m["nearest_cd"]
      [] gate = "evidence_integrity" -> TRUE
      [] OTHER -> Thresholds[gate]

\* Mutant: meeting a threshold is enough for the gates that ask for less.
ComparisonLoose(operator, value, threshold) ==
    /\ value # Invalid
    /\ CASE operator = "lt" -> value <= threshold
         [] operator = "ge" -> value >= threshold
         [] operator = "eq" -> value = threshold

\* _comparison: failed evidence carries no number and is never green.
Comparison(operator, value, threshold) ==
    /\ value # Invalid
    /\ CASE operator = "lt" -> value < threshold
         [] operator = "ge" -> value >= threshold
         [] operator = "eq" -> value = threshold

\* evaluate_gate, with the threshold that the gate really used.
Gate(m, gate) ==
    [name |-> gate,
     green |-> Comparison(Operator(gate), Value(m, gate), Threshold(m, gate))]

\* evaluate_required_gates.
RequiredGates(m) == [i \in DOMAIN Required |-> Gate(m, Required[i])]

\* Mutant: a report is green when most of its gates are.
MostlyGreen(gates) ==
    IF Cardinality({i \in DOMAIN gates : gates[i].green}) >= Len(gates) - 1
    THEN "green" ELSE "red"

\* overall_gate_status.
Overall(gates) == IF \A i \in DOMAIN gates : gates[i].green THEN "green" ELSE "red"

\* _report_is_coherent: every gate once and in order, and the status they imply.
Coherent(gates, status) ==
    /\ [i \in DOMAIN gates |-> gates[i].name] = Required
    /\ status = Overall(gates)

-----------------------------------------------------------------------------
\* What green promises of the measurements, said without gates, evidence or operators:
\* every measurement is there, and each is on the right side of its threshold.
Earned(m) ==
    /\ \A s \in Summaries : m[s] # Invalid
    /\ m["velocity"] < Thresholds["field_error"]
    /\ m["cd"] < Thresholds["cd_head_error"]
    /\ m["gap"] >= Thresholds["head_field_consistency"]
    /\ m["obstacle"] < Thresholds["obstacle_compliance"]
    /\ m["velocity"] < m["mean_velocity"] /\ m["velocity"] < m["nearest_velocity"]
    /\ m["cd"] < m["mean_cd"] /\ m["cd"] < m["nearest_cd"]
    /\ m["solver_divergence"] > 0
    /\ (2 * m["divergence"]) \div m["solver_divergence"] < Thresholds["divergence"]
    /\ m["id_boundary"] > 0
    /\ (2 * m["ood"]) \div m["id_boundary"] >= Thresholds["ood_variance_increase"]
    /\ m["agreed"] >= Thresholds["sensitivity_sign"]
=============================================================================
