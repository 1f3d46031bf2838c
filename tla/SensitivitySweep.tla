-------------------------- MODULE SensitivitySweep --------------------------
(***************************************************************************)
(* Sensitivity sweeps over a recorded decision: one or two fields of the   *)
(* record take every value of an axis, each cell is a counterfactual, and  *)
(* the report names the sampled boundary nearest to the recorded value.    *)
(*                                                                         *)
(* Values are whole numbers of a unit in which the steps of the presets    *)
(* asked for are whole.  A fixed scenario is left out: it would have the   *)
(* boundary of one decision reported of another.                           *)
(*                                                                         *)
(* X_F is X with the fault F.                                              *)
(***************************************************************************)
EXTENDS DecisionAudit, FiniteSets

CONSTANTS AxisRequests,  \* axes asked for: a field with values, or with a preset
          MaxPoints,     \* MAX_AXIS_POINTS
          MaxCells       \* MAX_SENSITIVITY_CELLS

\* An axis names a field, and its values are finitely many numbers.
ASSUME SweepAssumption ==
    \A r \in AxisRequests : /\ r.field # "none"
                            /\ IsFiniteSet(r.values) /\ r.values \subseteq Int

NoAxis == [field |-> "none"]

\* _FIELD_METADATA, for the fields that a router's record has.
Metadata ==
    [spread_bps      |-> [range |-> "non_negative", scale |-> 10],
     liquidity_depth |-> [range |-> "non_negative", scale |-> 50],
     order_size      |-> [range |-> "positive", scale |-> 1],
     fill_price      |-> [range |-> "positive", scale |-> 1],
     daily_pnl       |-> [range |-> "unbounded", scale |-> 100]]

PresetPct == [local |-> 5, standard |-> 20, wide |-> 50]

\* _request_axis: values or a preset, never both.
ValidRequest(r) ==
    /\ r.field \in NumericFields
    /\ \/ r.preset = "manual" /\ Cardinality(r.values) \in 1..MaxPoints
       \/ r.preset \in DOMAIN PresetPct /\ r.values = {}

Larger(x, y) == IF x < y THEN y ELSE x

\* _preset_values: two steps to each side, kept within the field's range.
PresetValues(f, base, preset) ==
    LET step   == (PresetPct[preset] * Larger(Abs(base), Metadata[f].scale)) \div 100
        around == {base + k * step : k \in -2..2}
    IN CASE Metadata[f].range = "unbounded"    -> around
         [] Metadata[f].range = "non_negative" -> {NotNegative(v) : v \in around}
         [] Metadata[f].range = "positive"     -> {v \in around : v > 0}

\* _resolve_axis: the recorded value is always among the values.
ResolveAxis(rec, r) ==
    LET recorded == RecordedValues(rec, r.field)
    IN recorded \cup IF r.preset = "manual" THEN r.values
                     ELSE UNION {PresetValues(r.field, v, r.preset) : v \in recorded}

Resolvable(rec, r) ==
    /\ r.preset # "manual" => RecordedValues(rec, r.field) # {}
    /\ Cardinality(ResolveAxis(rec, r)) <= MaxPoints
    /\ \A v \in ResolveAxis(rec, r) : ValidScenario(r.field, v)

\* counterfactual_sensitivity answers for a record that replays exactly; every
\* cell applies one of the fields.
Computable(rec, x, y) ==
    LET axes == {x, y} \ {NoAxis}
        points == [r \in axes |-> Cardinality(ResolveAxis(rec, r))]
    IN /\ x.field # y.field
       /\ \A r \in axes : ValidRequest(r) /\ Resolvable(rec, r)
       /\ \E r \in axes : Applies(rec, r.field)
       /\ points[x] * (IF y = NoAxis THEN 1 ELSE points[y]) <= MaxCells

\* The points of a row of the matrix.
Row(rec, x) ==
    {[value |-> u, allowed |-> Allowed(Overridden(rec, x.field, u))] : u \in ResolveAxis(rec, x)}

\* The rows that hold the recorded value of y; the only row of a sweep of one
\* field.
BaselineRows(rec, x, y) ==
    IF y = NoAxis THEN {Row(rec, x)}
    ELSE {{[value |-> u,
            allowed |-> Allowed(Overridden(Overridden(rec, x.field, u), y.field, v))] :
           u \in ResolveAxis(rec, x)} : v \in RecordedValues(rec, y.field)}

\* _transitions: neighbouring points that decide differently.
Transitions(row) ==
    {t \in {<<p.value, q.value>> : p, q \in row} :
        /\ t[1] < t[2] /\ ~\E r \in row : t[1] < r.value /\ r.value < t[2]
        /\ \A p, q \in row : <<p.value, q.value>> = t => p.allowed # q.allowed}

\* _robustness: the bracket with the nearest end, the lower one of two.
Distance(t, base) ==
    LET low == Abs(t[1] - base)  high == Abs(t[2] - base)
    IN IF low < high THEN low ELSE high

Nearer_First(t, u, base) == t[1] <= u[1]

Nearer(t, u, base) ==
    \/ Distance(t, base) < Distance(u, base)
    \/ Distance(t, base) = Distance(u, base) /\ t[1] <= u[1]

NearestBoundary(transitions, base) ==
    CHOOSE t \in transitions : \A u \in transitions : Nearer(t, u, base)

\* The points from the recorded value to the near end of the nearest bracket;
\* all of them when the sweep met no boundary.
Between(row, transitions, base) ==
    LET near == NearestBoundary(transitions, base)
    IN {p \in row : \/ transitions = {} \/ p.value = base
                    \/ base <= p.value /\ p.value <= near[1]
                    \/ near[2] <= p.value /\ p.value <= base}

-----------------------------------------------------------------------------

\* The sampled boundary that a sweep reports as nearest is the first one seen
\* from the recorded decision: every cell from the recorded value to the near
\* end of the bracket decides as the order was decided, and without a boundary
\* every cell does.  The same holds of the row of a matrix through the
\* recorded value of its second field.
BoundarySeenFromBaseline ==
    durable # NotStored /\ ExactMatch(durable) =>
    \A x \in AxisRequests, y \in AxisRequests \cup {NoAxis} :
        Computable(durable, x, y) =>
        \A base \in RecordedValues(durable, x.field) :
        \A row \in BaselineRows(durable, x, y) :
        \A p \in Between(row, Transitions(row), base) : p.allowed = durable.final.allowed
=============================================================================
