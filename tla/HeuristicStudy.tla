---------------------------- MODULE HeuristicStudy ----------------------------
(***************************************************************************)
(* The heuristic performance lab: registered rules evaluated over stored   *)
(* history, at the times of sampled prices, with the context known by then *)
(* and the price at each horizon after; the evaluations upserted into a    *)
(* table; and the performance reported from that table.                    *)
(*                                                                         *)
(* One venue and market.  A measured value is the number of thresholds of  *)
(* the rules that it passes: a rate of change 0, 1 (over 5) or 2 (over 8), *)
(* a shock score 0, 1 (over 1.5) or 2 (over 2), a carry score 0 or -1      *)
(* (under -0.10).  An outcome is the direction of the price.               *)
(*                                                                         *)
(* X_F is X with the fault F.                                              *)
(***************************************************************************)
EXTENDS Integers, FiniteSets, Sequences, TLC, FiniteSetsExt, SequencesExt

CONSTANTS HeuristicIds,     \* the rules that an evaluation asks for
          Facts,            \* what a context row may be: its source and its values
          QuotePrice,
          ReachOf,          \* ReachOf[h]: length of horizon h
          Primary,          \* the primary horizon
          LagLimit,         \* outcome tolerance
          SampleEvery,      \* decision interval
          DecayHours,
          QueryRows,        \* rows that a performance query reads
          LateBy,           \* bound: how late a row is stored
          MaxHour, MaxQuotes, MaxFacts, MaxEvaluations     \* bounds

ASSUME HeuristicAssumption ==
    /\ Primary \in DOMAIN ReachOf /\ LagLimit \in Nat /\ SampleEvery \in Nat \ {0}
    /\ IsFiniteSet(DOMAIN ReachOf) /\ \A h \in DOMAIN ReachOf : ReachOf[h] \in Nat
    /\ QueryRows \in Nat \ {0} /\ LateBy \in Nat

VARIABLES hour, quotes, facts, evaluations,
          evaluated     \* bound: evaluations asked for

heuristicVars == <<hour, quotes, facts, evaluations, evaluated>>

HorizonNames == DOMAIN ReachOf
Longest == LET h == CHOOSE h \in HorizonNames : \A k \in HorizonNames : ReachOf[k] <= ReachOf[h]
           IN ReachOf[h]

HeuristicInit ==
    /\ hour = 0 /\ quotes = {} /\ facts = {} /\ evaluated = 0
    /\ evaluations = [key \in {} |-> {}]

-----------------------------------------------------------------------------
(* RulesEngine.                                                            *)

Needs(rule) ==
    CASE rule = "tariff_vol_reduce"     -> {"tariff_rate_of_change", "vol_regime"}
      [] rule = "shock_throttle"        -> {"shock_score"}
      [] rule = "divergence_hedge"      -> {"divergence_alert_active", "funding_regime_flipped"}
      [] rule = "negative_carry_reduce" -> {"carry_score"}
      [] rule = "stable_rotation"       -> {"shock_score", "tariff_rate_of_change"}

\* A directional rule expects the price to fall.
Directional(rule) == rule # "shock_throttle"

Condition(rule, ctx) ==
    CASE rule = "tariff_vol_reduce"     -> ctx["tariff_rate_of_change"] > 0
                                           /\ ctx["vol_regime"] \in {"high", "extreme"}
      [] rule = "shock_throttle"        -> ctx["shock_score"] > 1
      [] rule = "divergence_hedge"      -> ctx["divergence_alert_active"]
                                           /\ ctx["funding_regime_flipped"]
      [] rule = "negative_carry_reduce" -> ctx["carry_score"] < 0
      [] rule = "stable_rotation"       -> ctx["shock_score"] > 0
                                           \/ ctx["tariff_rate_of_change"] > 1

-----------------------------------------------------------------------------
(* The history.                                                            *)

StoreQuote(price, ts) ==
    /\ Cardinality(quotes) < MaxQuotes
    /\ quotes' = quotes \cup {[price |-> price, ts |-> ts, id |-> Cardinality(quotes) + 1]}
    /\ UNCHANGED <<hour, facts, evaluations, evaluated>>

StoreFact(fact, ts) ==
    /\ Cardinality(facts) < MaxFacts
    /\ facts' = facts \cup {[source |-> fact.source, patch |-> fact.patch, ts |-> ts,
                            id |-> Cardinality(facts) + 1]}
    /\ UNCHANGED <<hour, quotes, evaluations, evaluated>>

NextHour ==
    /\ hour < MaxHour /\ hour' = hour + 1
    /\ UNCHANGED <<quotes, facts, evaluations, evaluated>>

\* ORDER BY ts, id
Precedes(r, q) == r.ts < q.ts \/ (r.ts = q.ts /\ r.id < q.id)
InOrder(S) == SetToSortSeq(S, Precedes)
First(S) == CHOOSE r \in S : \A q \in S \ {r} : Precedes(r, q)

\* The history an evaluation works on reaches past its end and not before its start.
Bundle(start, end) ==
    LET Within(S) == {r \in S : start <= r.ts /\ r.ts <= end + Longest + LagLimit}
    IN [quotes |-> Within(quotes), facts |-> Within(facts), from |-> start, at |-> hour]

-----------------------------------------------------------------------------
(* evaluate_historical.                                                    *)

\* The last row of a measured source; every event in turn.
ContextOf(rows) ==
    LET Known(source) == InOrder({r \in rows : r.source = source})
        Latest(source) == IF Known(source) = <<>> THEN [k \in {} |-> {}]
                          ELSE Last(Known(source)).patch
    IN FoldLeft(LAMBDA ctx, event : event.patch @@ ctx,
                Latest("index") @@ Latest("regime"), Known("event"))

ReconstructContext(rows, ts) == ContextOf({r \in rows : r.ts <= ts})

\* The first row at a time that is long enough after the last time taken; the
\* others at that time come too soon after it.
Sampled(rows) ==
    LET last[t \in -1 .. hour] ==
            IF t = -1 THEN -SampleEvery
            ELSE IF t - last[t-1] >= SampleEvery /\ t \in {r.ts : r \in rows} THEN t
            ELSE last[t-1]
    IN {r \in rows : /\ last[r.ts] = r.ts
                     /\ \A q \in rows : q.ts = r.ts => r.id <= q.id}

NoOutcome == "none"

TooLate_Never(observed, target) == FALSE
TooLate(observed, target) == observed.ts - target > LagLimit

OutcomeAt(quote, h, rows) ==
    LET target == quote.ts + ReachOf[h]
        after == {r \in rows : r.ts >= target}
    IN IF after = {} \/ TooLate(First(after), target) THEN NoOutcome
       ELSE LET move == First(after).price - quote.price
            IN IF move > 0 THEN "up" ELSE IF move < 0 THEN "down" ELSE "flat"

EvaluationOf(rule, quote, bundle) ==
    LET ctx == ReconstructContext(bundle.facts, quote.ts)
        evaluable == Needs(rule) \subseteq DOMAIN ctx
    IN [context   |-> ctx,
        evaluable |-> evaluable,
        fired     |-> IF evaluable THEN Condition(rule, ctx) ELSE FALSE,
        outcomes  |-> [h \in HorizonNames |-> OutcomeAt(quote, h, bundle.quotes)],
        from      |-> bundle.from,
        at        |-> bundle.at]

\* A window without prices is refused.  An evaluation of the same rule at the same
\* time replaces the stored one; "from" and "at" are not stored: they are where the
\* window started and when it was asked for.
Evaluate(start, end) ==
    LET bundle == Bundle(start, end)
        sampled == Sampled({q \in bundle.quotes : q.ts <= end})
        found == [key \in [rule : HeuristicIds, ts : {q.ts : q \in sampled}] |->
                    LET quote == CHOOSE q \in sampled : q.ts = key.ts
                    IN EvaluationOf(key.rule, quote, bundle)]
    IN /\ evaluated < MaxEvaluations
       /\ sampled # {}
       /\ evaluations' = [key \in DOMAIN found \cup DOMAIN evaluations |->
                            IF key \in DOMAIN found THEN found[key] ELSE evaluations[key]]
       /\ evaluated' = evaluated + 1
       /\ UNCHANGED <<hour, quotes, facts>>

-----------------------------------------------------------------------------
(* The performance of a rule over a window: a group of stored evaluations, *)
(* with their times.                                                       *)

KeysIn(rule, start, end) ==
    {k \in DOMAIN evaluations : k.rule = rule /\ start <= k.ts /\ k.ts <= end}

StoredRow(k) ==
    [ts |-> k.ts, context |-> evaluations[k].context, evaluable |-> evaluations[k].evaluable,
     fired |-> evaluations[k].fired, outcomes |-> evaluations[k].outcomes]

\* ORDER BY decision_ts DESC LIMIT n
PerformanceRows(rule, start, end) ==
    LET keys == KeysIn(rule, start, end)
    IN {StoredRow(k) : k \in {k \in keys :
            Cardinality({j \in keys : j.ts > k.ts}) < QueryRows}}

Hit(row, h) == row.outcomes[h] = "down"

SignalSummary(rows, h) ==
    LET evaluable == {r \in rows : r.evaluable}
        fired == {r \in evaluable : r.fired /\ r.outcomes[h] # NoOutcome}
    IN [sample |-> Cardinality(evaluable), fired |-> Cardinality(fired),
        hits |-> Cardinality({r \in fired : Hit(r, h)})]

ClassificationMetrics(rows) ==
    LET moved == {r \in rows : r.evaluable /\ r.outcomes[Primary] \in {"up", "down"}}
        Of(fired, hit) == Cardinality({r \in moved : r.fired = fired /\ Hit(r, Primary) = hit})
    IN [tp |-> Of(TRUE, TRUE), fp |-> Of(TRUE, FALSE),
        tn |-> Of(FALSE, FALSE), fn |-> Of(FALSE, TRUE)]

\* The signals that a position held over the horizon could have taken one after
\* another; the risk metrics are theirs.
NormalizedSignals(rows) ==
    LET fired == {r \in rows : r.fired /\ r.outcomes[Primary] # NoOutcome}
    IN FoldLeft(LAMBDA taken, row :
                    IF taken = <<>> \/ row.ts >= Last(taken).ts + ReachOf[Primary]
                    THEN Append(taken, [ts |-> row.ts, outcome |-> row.outcomes[Primary]])
                    ELSE taken,
                <<>>, SetToSortSeq(fired, LAMBDA a, b : a.ts < b.ts))

AggregateEvaluations(rows, rule) ==
    LET end == Max({r.ts : r \in rows})
        regimes == {r.context["vol_regime"] : r \in {r \in rows :
                        r.evaluable /\ "vol_regime" \in DOMAIN r.context}}
    IN [confusion |-> IF Directional(rule) THEN {ClassificationMetrics(rows)} ELSE {},
        signals   |-> IF Directional(rule) THEN NormalizedSignals(rows) ELSE <<>>,
        by_regime |-> [g \in regimes |-> SignalSummary({r \in rows :
                            "vol_regime" \in DOMAIN r.context
                            /\ r.context["vol_regime"] = g}, Primary)],
        recent    |-> SignalSummary({r \in rows : r.ts > end - DecayHours}, Primary),
        prior     |-> SignalSummary({r \in rows : /\ end - 2 * DecayHours < r.ts
                                            /\ r.ts <= end - DecayHours}, Primary),
        horizons  |-> [h \in HorizonNames |-> SignalSummary(rows, h)]]

\* Nothing is reported of a rule without evaluations.
Performance(rule, start, end) ==
    LET rows == PerformanceRows(rule, start, end)
    IN IF rows = {} THEN {} ELSE {AggregateEvaluations(rows, rule)}

-----------------------------------------------------------------------------

HeuristicNext ==
    \/ \E ts \in hour - LateBy .. hour :
           ts >= 0 /\ \/ \E price \in QuotePrice : StoreQuote(price, ts)
                      \/ \E fact \in Facts : StoreFact(fact, ts)
    \/ \E start, end \in 0 .. hour : start < end /\ Evaluate(start, end)
    \/ NextHour

-----------------------------------------------------------------------------
(* Properties.                                                             *)

\* The outcomes at "key" were complete when they were evaluated.
Settled(key) == key.ts + Longest + LagLimit + LateBy < evaluations[key].at

\* "Historical heuristic evaluation never fabricates missing historical outcomes":
\* the outcomes evaluated after their horizons had passed are what every later
\* evaluation finds, over whatever window, and whatever has been stored since.  So
\* the performance over a window stays, as long as the same times are evaluated
\* again from the same start.
SettledEvaluationsStay ==
    [][\A rule \in HeuristicIds, start, end \in {key.ts : key \in DOMAIN evaluations} :
          LET keys == KeysIn(rule, start, end)
          IN (\A key \in keys : Settled(key)) =>
               /\ \A key \in keys : evaluations'[key].outcomes = evaluations[key].outcomes
               /\ (KeysIn(rule, start, end)' = keys
                   /\ \A key \in keys : evaluations'[key].from = evaluations[key].from)
                  => Performance(rule, start, end)' = Performance(rule, start, end)]_heuristicVars
=============================================================================
