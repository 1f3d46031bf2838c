---------------------------- MODULE DecisionReport ----------------------------
(***************************************************************************)
(* The performance report over final decisions, as the counts it is made   *)
(* of.  It is put together in two passes: the first groups the outcomes by *)
(* what the decision holds and by the market context of its time, however  *)
(* old the rows of that context are; the second puts governed cohorts,     *)
(* whose rows must be fresh, in the place of the cohorts of the first.     *)
(* Rates follow from the counts and are left out.                          *)
(*                                                                         *)
(* X_F is X with the fault F.                                              *)
(***************************************************************************)
EXTENDS DecisionOutcomes

CONSTANTS PrimaryHorizon,   \* the horizon of every group
          DecayWindow       \* recent against prior performance

ASSUME ReportAssumption == PrimaryHorizon \in DOMAIN HorizonOf /\ DecayWindow \in Nat

Count(S, Test(_)) == Cardinality({i \in S : Test(i)})

-----------------------------------------------------------------------------
(* One decision: what its page shows of the choice that was made, and of   *)
(* the choice a counterfactual replay makes instead.                       *)

Interpret(action, move) ==
    CASE action \notin {"allow", "block"} -> "unavailable"
      [] move = "flat" -> "flat"
      [] action = "allow" -> IF move = "favorable" THEN "requested_side_favorable"
                             ELSE "requested_side_adverse"
      [] OTHER -> IF move = "favorable" THEN "missed_favorable_move"
                  ELSE "avoided_adverse_move"

DecisionPage(d) ==
    LET observed == LoadHorizonPrices(d) IN [h \in Horizons |-> Outcome(d, observed[h])]

\* The comparison is against the price of the decision itself, whatever fill
\* price the scenario sets.
RealizedComparison(d, counterfactual, h) ==
    LET move == DecisionPage(d)[h]
    IN IF move = NotSeen THEN {}
       ELSE {[original |-> Interpret(d.action, move),
              counterfactual |-> Interpret(counterfactual, move)]}

\* The answer to a counterfactual of the decision, at the horizon asked for.
CounterfactualPage(d, h) == [action \in {"allow", "block"} |-> RealizedComparison(d, action, h)]

-----------------------------------------------------------------------------
(* The first pass: performance_summary.  An item is a pair of the report.  *)

Evaluated(items, h) == {i \in items : i.outcome[h] # NotSeen}

Good(i, h) == \/ i.decision.action = "allow" /\ i.outcome[h] = "favorable"
              \/ i.decision.action = "block" /\ i.outcome[h] = "adverse"

\* The figures of a group.
Figures(items, h) ==
    LET evaluated == Evaluated(items, h)
        Acted(action) == Count(evaluated, LAMBDA i : i.decision.action = action)
        Moved(move) == Count(evaluated, LAMBDA i : i.outcome[h] = move)
    IN [sample    |-> Cardinality(items),
        evaluated |-> Cardinality(evaluated),
        allow     |-> Acted("allow"),
        block     |-> Acted("block"),
        quality   |-> Count(evaluated, LAMBDA i : Good(i, h)),
        favorable |-> Moved("favorable"),
        flat      |-> Moved("flat")]

\* A group is kept as its items, which determine its figures.
GroupResults(items, key) ==
    [k \in {key[i] : i \in items} |-> {i \in items : key[i] = k}]

\* The label of the latest row at or before the decision, of whatever age.
LabelBefore(rows, series, ts) ==
    LET latest == {r.value : r \in LatestBefore(Of(rows, series), ts)}
    IN IF latest = {} THEN "unavailable" ELSE CHOOSE v \in latest : TRUE

\* The worst of the coins' latest rows.
StablecoinCohort(rows, ts) ==
    LET labels == {LabelBefore(rows, c, ts) : c \in Coins}
    IN IF "high" \in labels THEN "high" ELSE IF "low" \in labels THEN "low" ELSE "unavailable"

RecordedOr(d, label) == IF d.recorded # "none" THEN d.recorded ELSE label

RegimeContext(d, rows) ==
    LET regime == LabelBefore(rows, "regime", d.ts)
        index  == LabelBefore(rows, "index", d.ts)
        shock  == IF regime # "unavailable" THEN regime ELSE index
        Label(f) == CASE f = "vol_regime" -> regime
                      [] f = "shock_state" -> shock
                      [] f = "tariff_escalation" -> index
                      [] f = "stablecoin_health" -> StablecoinCohort(rows, d.ts)
                      [] OTHER -> IF "unavailable" \in {regime, shock} THEN "unavailable"
                                  ELSE IF {regime, shock} = {"low"} THEN "low" ELSE "high"
    IN [f \in Fields |-> RecordedOr(d, Label(f))]

CohortGroups(items, contexts, field) == GroupResults(items, [i \in items |-> contexts[i][field]])

Decay(items) ==
    LET end == Max({i.decision.ts : i \in items})
        recent == {i \in items : i.decision.ts > end - DecayWindow}
        prior == {i \in items : /\ end - 2 * DecayWindow < i.decision.ts
                                /\ i.decision.ts <= end - DecayWindow}
    IN [recent |-> Figures(recent, PrimaryHorizon),
        prior |-> Figures(prior, PrimaryHorizon),
        available |-> \A S \in {recent, prior} : Evaluated(S, PrimaryHorizon) # {}]

PerformanceSummary(items, rows) ==
    LET contexts == [i \in items |-> RegimeContext(i.decision, rows)]
    IN
    [horizons |-> [h \in Horizons |-> Figures(items, h)],
     venue    |-> GroupResults(items, [i \in items |-> i.decision.venue]),
     market   |-> GroupResults(items, [i \in items |-> i.decision.market]),
     cohorts  |-> [f \in Fields |-> CohortGroups(items, contexts, f)],
     decay    |-> Decay(items),
     coverage |-> [f \in Fields |-> [available |->
                     Count(items, LAMBDA i : contexts[i][f] # "unavailable")]]]

-----------------------------------------------------------------------------
(* The second pass: enrich_performance_summary.                            *)

ReplaceGovernedGroups_Merged(target, groups) == groups @@ target
ReplaceGovernedGroups(target, groups) == groups

SampleQuality(evaluated) ==
    CASE evaluated = 0  -> "unavailable"
      [] evaluated \in 1..4   -> "very_low"
      [] evaluated \in 5..19  -> "low"
      [] evaluated \in 20..49 -> "moderate"
      [] OTHER -> "established"

\* What the second pass knows better of a group.
MetricStatistics(items, h) ==
    LET evaluated == Cardinality(Evaluated(items, h))
    IN [missing |-> Cardinality(items) - evaluated, sampleQuality |-> SampleQuality(evaluated)]

\* Items carry their governed context.
EnrichPerformanceSummary(summary, items) ==
    LET Labelled(f, labels) == Count(items, LAMBDA i : i.context[f] \in labels)
    IN [summary EXCEPT
          !.horizons = [h \in Horizons |-> MetricStatistics(items, h) @@ @[h]],
          !.cohorts = [f \in Fields |->
              ReplaceGovernedGroups(@[f], GroupResults(items, [i \in items |-> i.context[f]]))],
          !.coverage = [f \in Fields |->
              [stale |-> Labelled(f, {"stale"}),
               unavailable |-> Labelled(f, {"unavailable"}),
               available |-> Cardinality(items) - Labelled(f, {"stale", "unavailable"}),
               recorded |-> Count(items, LAMBDA i : i.decision.recorded # "none")]]]

DecisionPerformance(R) ==
    LET items == Pairs(R)
    IN EnrichPerformanceSummary(PerformanceSummary(items, Context(R).rows), items)

-----------------------------------------------------------------------------

TotalOf(f) == MapThenSumSet(LAMBDA k : f[k], DOMAIN f)

Persisted(d, field) ==
    LET Fresh(source) == \E r \in contextRows : /\ SourceOf(r.series) = source
                                                /\ r.ts \in d.ts - MaxAge[source] .. d.ts
    IN CASE field = "vol_regime" -> Fresh("regime")
         [] field = "tariff_escalation" -> Fresh("index")
         [] field = "stablecoin_health" -> Fresh("stable")
         [] field = "shock_state" -> Fresh("regime") \/ Fresh("index")
         [] OTHER -> Fresh("regime")

\* "stale observations are labeled unavailable_stale and excluded from named
\* cohorts": of each kind of cohort the groups hold every decision once, the
\* named groups hold as many decisions as the coverage says are available, and
\* never more than the tables hold a fresh row for, or recorded their context.
NamedCohortsAreFresh ==
    \A w \in Windows :
        LET R == Listed(w[1], w[2])
            report == DecisionPerformance(R)
        IN \A f \in Fields :
               LET groups == report.cohorts[f]
                   Filed(labels) == TotalOf([k \in labels \cap DOMAIN groups |->
                                                 Cardinality(groups[k])])
                   named == Filed({"low", "high"})
               IN /\ Filed({"low", "high", "stale", "unavailable"}) = Cardinality(R)
                  /\ named = report.coverage[f].available
                  /\ named <= Count(R, LAMBDA d : d.recorded # "none" \/ Persisted(d, f))

\* A report over decisions whose windows have closed is final: what is stored
\* after that, decisions, prices or context, changes no outcome and no cohort
\* that it counts, nor what the page of one of its decisions compares.
Closed(end) == end + Max({HorizonOf[h] : h \in Horizons}) + Tolerance + Delay < now

Shown(w) ==
    LET R == Listed(w[1], w[2])
    IN [pairs |-> Pairs(R),
        pages |-> [d \in R |-> [h \in Horizons |-> CounterfactualPage(d, h)]]]

ReportSettles == [][\A w \in Windows : Closed(w[2]) => Shown(w) = Shown(w)']_outcomeVars
=============================================================================
