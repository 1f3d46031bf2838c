------------------------------ MODULE EventStudy ------------------------------
(***************************************************************************)
(* The Reaction Lab: what prices, funding and basis did after an event.    *)
(* The histories are append-only tables that are filled live and backfilled*)
(* while studies are asked for; the single-event lab and the multi-event   *)
(* statistics read the same rows with different queries.  A study writes   *)
(* nothing.  Decisions, regime rows and the clock are those of             *)
(* DecisionOutcomes.                                                       *)
(*                                                                         *)
(* A study is what it counts; means, quantiles and intervals follow from   *)
(* the counted rows and are left out.                                      *)
(***************************************************************************)
EXTENDS DecisionOutcomes

CONSTANTS Bars,           \* series of research bars, one per asset
          MaxReferenceAge, MaxLag, RegimeReferenceAge,
          MaxLegAge, MaxSkew, FutureSkew,        \* of a basis observation
          StudyReach,     \* how long after an event a decision is linked to it
          MaxStrata, CohortLimit,
          EventKinds,     \* what an event may be: its key and its time basis
          MaxStored,      \* bound: rows of all tables
          MaxStudyClock   \* bound of the clock of a study

\* Ages and lags are lengths of time, funding and basis are no bars, an event is
\* ordered by its key, and no decision is linked to an event later than the
\* regimes after that event are read.
ASSUME StudyAssumption ==
    /\ MaxReferenceAge \in Nat /\ MaxLag \in Nat /\ RegimeReferenceAge \in Nat
    /\ MaxLegAge \in Nat /\ FutureSkew \in Nat /\ StudyReach \in Nat
    /\ Bars \cap {"funding", "basis"} = {}
    /\ \A kind \in EventKinds : "key" \in DOMAIN kind /\ kind.key \in Int
    /\ \E h \in DOMAIN HorizonOf : StudyReach <= HorizonOf[h] + MaxLag

VARIABLES observations, events

studyVars == <<observations, events>>

StudyInit == OutcomesInit /\ observations = {} /\ events = {}

NoValue == "none"      \* no positive price, or no scalar rate
History == Bars \cup {"funding", "basis"}

-----------------------------------------------------------------------------
(* The append-only tables: the first row of a key stays.                   *)

Row(series, key, ts, value) ==
    [id |-> Cardinality({o \in observations : o.series = series}) + 1,
     series |-> series, key |-> key, ts |-> ts, value |-> value]

InsertOnce_Replace(series, key, ts, value) ==
    LET same == {o \in observations : o.series = series /\ o.key = key}
    IN observations' = (observations \ same) \cup {Row(series, key, ts, value)}

InsertOnce(series, key, ts, value) ==
    IF \E o \in observations : o.series = series /\ o.key = key
    THEN observations' = observations
    ELSE observations' = observations \cup {Row(series, key, ts, value)}

\* normalize_bar: refused, never repaired.
BarOk(price) == price # NoValue

InsertBar(series, ts, price) == BarOk(price) /\ InsertOnce(series, <<ts, ts>>, ts, price)

\* A rate that differs by side is stored without a scalar.
InsertFunding(ts, rate) == InsertOnce("funding", <<ts, ts>>, ts, rate)

\* Stamped with its newer leg.
Newer(a, b) == IF a > b THEN a ELSE b

LegsFresh(spot, perp) ==
    \A leg \in {spot, perp} : now - leg <= MaxLegAge /\ leg - now <= FutureSkew

Aligned(spot, perp) == spot - perp <= MaxSkew /\ perp - spot <= MaxSkew

InsertBasis(spot, perp, bps) == InsertOnce("basis", <<spot, perp>>, Newer(spot, perp), bps)

Materialize(spot, perp, bps) ==
    Aligned(spot, perp) /\ LegsFresh(spot, perp) /\ InsertBasis(spot, perp, bps)

InsertEvent(kind, ts) ==
    /\ \A e \in events : e.key # kind.key
    /\ events' = events \cup {WithTime(kind, ts)}

-----------------------------------------------------------------------------
(* The queries.                                                            *)

LastAt(S, ts) == LET before == {o \in S : o.ts <= ts}
                 IN {o \in before : \A p \in before : ~Earlier(o, p)}
FirstAt(S, ts) == LET after == {o \in S : o.ts >= ts}
                  IN {o \in after : \A p \in after : ~Earlier(p, o)}

Stored(series) == {o \in observations : o.series = series /\ o.value # NoValue}
Coverage(series) == {o.ts : o \in Stored(series)}

Due(e, h) == e.ts + HorizonOf[h]

\* One lateral query for all events: one reference and one row per target.
EventPoints_OneTarget(S, e) ==
    LastAt(S, e.ts) \cup FirstAt(S, Due(e, CHOOSE h \in Horizons : TRUE))

EventPoints(S, e) == LastAt(S, e.ts) \cup UNION {FirstAt(S, Due(e, h)) : h \in Horizons}

BarPointsBatch(series, e) == EventPoints(Stored(series), e)
FundingPointsBatch(e) == EventPoints(Stored("funding"), e)
BasisPointsBatch(e) == EventPoints(Stored("basis"), e)

\* The single-event queries bound the age and the lag themselves.
BoundedPoints(S, e) ==
    {o \in LastAt(S, e.ts) : e.ts - o.ts <= MaxReferenceAge}
    \cup UNION {{o \in FirstAt(S, Due(e, h)) : o.ts - Due(e, h) <= MaxLag} : h \in Horizons}

FundingPoints(e) == BoundedPoints(Stored("funding"), e)
BasisPoints(e) == BoundedPoints(Stored("basis"), e)

HistoryWindow(series, e) ==
    {o \in Stored(series) :
        /\ e.ts - MaxReferenceAge <= o.ts
        /\ o.ts <= e.ts + Max({HorizonOf[h] : h \in Horizons}) + MaxLag}

-----------------------------------------------------------------------------
(* select_event_points and analyze_symbol: the reaction of one series.     *)

Available(reference, selected) ==
    [status |-> "available", reason |-> "none", reference |-> reference, selected |-> selected]
Unseen(status, reason) == [status |-> status, reason |-> reason]

\* covered: the times the series is known to hold, {} when the caller names none.
MissingReference(rows, e, covered, maxAge) ==
    LET reference == LastAt(rows, e.ts)
        known == IF covered = {} THEN {o.ts : o \in rows} ELSE covered
    IN IF known # {} /\ e.ts < Min(known) THEN "event_predates_dataset"
       ELSE IF reference = {} THEN "no_valid_pre_event_reference"
       ELSE IF \E r \in reference : e.ts - r.ts > maxAge THEN "reference_stale"
       ELSE "none"

SelectEventPoints(rows, e, covered, maxAge) ==
    LET missing == MissingReference(rows, e, covered, maxAge)
    IN [h \in Horizons |->
        LET hit == FirstAt(rows, Due(e, h))
        IN IF Due(e, h) > now THEN Unseen("not_matured", "horizon_not_matured")
           ELSE IF missing # "none" THEN Unseen("unavailable", missing)
           ELSE IF hit = {} THEN Unseen("unavaile", "history_not_yet_available")
           ELSE IF \E o \in hit : o.ts - Due(e, h) > MaxLag
                THEN Unseen("unavailable", "no_observation_within_target_tolerance")
           ELSE Available(CHOOSE r \in LastAt(rows, e.ts) : TRUE, CHOOSE o \in hit : TRUE)]

FundingReactions(rows, e, covered) ==
    SelectEventPoints({o \in rows : o.value # NoValue}, e, covered, MaxReferenceAge)

BasisReactions(rows, e, covered) == SelectEventPoints(rows, e, covered, MaxReferenceAge)

\* Prices: the analysis gives no reason of its own for a missing reference.
AnalyzeSymbol(rows, e) ==
    LET points == SelectEventPoints(rows, e, {}, MaxReferenceAge)
    IN [h \in Horizons |->
           IF points[h].status \in {"available", "not_matured"} THEN points[h]
           ELSE Unseen("unavailable", IF points[h].status = "unavaile" THEN "target" ELSE
                   IF points[h].reason = "no_observation_within_target_tolerance"
                   THEN "target" ELSE "no_valid_pre_event_reference")]

PriceReasons(analysis, e, rows, covered) ==
    LET missing == MissingReference(rows, e, covered, MaxReferenceAge)
    IN [h \in Horizons |->
           IF analysis[h].status # "unavailable" THEN analysis[h]
           ELSE Unseen("unavailable",
                   IF missing \in {"event_predates_dataset", "reference_stale"} THEN missing
                   ELSE IF analysis[h].reason = "target"
                        THEN "no_observation_within_target_tolerance" ELSE analysis[h].reason)]

\* The multi-event service.
LoadSeries(series, e) ==
    CASE series \in Bars ->
             LET rows == BarPointsBatch(series, e)
             IN PriceReasons(AnalyzeSymbol(rows, e), e, rows, Coverage(series))
      [] series = "funding" -> FundingReactions(FundingPointsBatch(e), e, Coverage(series))
      [] series = "basis" -> BasisReactions(BasisPointsBatch(e), e, Coverage(series))

\* The single-event services, which name no coverage.  The stored bars are used
\* where they answer every matured horizon; else a provider is asked (external).
LocalHistory(series, e) ==
    LET rows == HistoryWindow(series, e)
    IN IF rows # {} /\ \A h \in Horizons : AnalyzeSymbol(rows, e)[h].status # "unavailable"
       THEN rows ELSE {}

LabReaction(series, e) ==
    CASE series \in Bars -> AnalyzeSymbol(LocalHistory(series, e), e)
      [] series = "funding" -> FundingReactions(FundingPoints(e), e, {})
      [] series = "basis" -> BasisReactions(BasisPoints(e), e, {})

-----------------------------------------------------------------------------
(* Regimes come from the bounded context of the outcome report.            *)

RegimeRows(S) == {r \in S : r.series = "regime"}

RegimeContext(E) ==
    LET last == Max({e.ts : e \in E}) + Max({HorizonOf[h] : h \in Horizons}) + MaxLag
    IN LoadContextHistory(Min({e.ts : e \in E}) - RegimeReferenceAge,
                          IF last < now THEN last ELSE now)

RegimePath(rows, e) == SelectEventPoints(RegimeRows(rows), e, {}, RegimeReferenceAge)

RegimePaths(E) ==
    LET context == RegimeContext(E)
    IN [e \in E |-> IF context.truncated
                    THEN [h \in Horizons |-> Unseen("unavailable", "insufficient_coverage")]
                    ELSE RegimePath(context.rows, e)]

-----------------------------------------------------------------------------
(* Statistics over a sample of events.                                     *)

Before(a, b) == a.ts < b.ts \/ (a.ts = b.ts /\ a.key < b.key)

\* The first event wins, touching windows do not overlap.
Chain_FromExcluded(E, length) ==
    {e \in E : \A f \in E : Before(f, e) => f.ts + length <= e.ts}

Chain(E, length) ==
    LET kept[e \in E] == \A f \in E : Before(f, e) /\ kept[f] => f.ts + length <= e.ts
    IN {e \in E : kept[e]}

FilterOverlaps(E, h) == Chain(E, HorizonOf[h])

Count(pairs, s) == Cardinality({p \in pairs : p[2] = s})

\* reasons: each event with why it has no observation, "none" where it has one.
CoverageSummary(reasons) ==
    LET candidate == Cardinality(reasons)
        immature == Count(reasons, "horizon_not_matured")
        overlap == Count(reasons, "overlap_excluded")
        observed == Count(reasons, "none")
        denominator == candidate - immature - overlap
    IN [candidate |-> candidate, observed |-> observed, not_matured |-> immature,
        overlap |-> overlap,
        missing |-> IF denominator > observed THEN denominator - observed ELSE 0]

Aggregate(E, reaction, h) ==
    LET allowed == FilterOverlaps(E, h)
    IN CoverageSummary({<<e, IF e \in allowed THEN reaction[e][h].reason
                             ELSE "overlap_excluded">> : e \in E})

\* Of the regimes: transitions between two recorded labels.
Regimes(E, paths, h) ==
    LET seen == {<<e, paths[e][h]>> : e \in FilterOverlaps(E, h)}
        immature == {p \in seen : p[2].status = "not_matured"}
        pairs == {p \in seen : /\ p[2].status = "available"
                               /\ p[2].reference.value # "unavailable"
                               /\ p[2].selected.value # "unavailable"}
        denominator == Cardinality(seen) - Cardinality(immature)
    IN [candidate |-> Cardinality(E), observed |-> Cardinality(pairs),
        not_matured |-> Cardinality(immature),
        overlap |-> Cardinality(E) - Cardinality(seen),
        missing |-> IF denominator > Cardinality(pairs)
                    THEN denominator - Cardinality(pairs) ELSE 0]

Summary(E, h) ==
    [series \in History \cup {"regime"} |->
        IF series = "regime" THEN Regimes(E, RegimePaths(E), h)
        ELSE Aggregate(E, [e \in E |-> LoadSeries(series, e)], h)]

Strata(E) == {{e \in E : e.basis = b} : b \in {e.basis : e \in E}}

\* The largest groups, the first by name where they are equal.
Stratify(E) ==
    LET Basis(G) == (CHOOSE e \in G : TRUE).basis
        Ahead(F, G) == \/ Cardinality(F) > Cardinality(G)
                       \/ Cardinality(F) = Cardinality(G) /\ Basis(F) < Basis(G)
    IN {G \in Strata(E) : Cardinality({F \in Strata(E) : Ahead(F, G)}) < MaxStrata}

\* Events of different time bases have no common headline.
Headline(E) == IF Cardinality(Strata(E)) > 1 THEN {} ELSE {E}

\* The samples a study reports on.
Build(E) == {E} \cup Headline(E) \cup Stratify(E)

-----------------------------------------------------------------------------
(* The decisions after the events.                                         *)

AssignDecision(d, E) ==
    LET eligible == {e \in E : e.ts <= d.ts /\ d.ts - e.ts <= StudyReach}
        explicit == {e \in eligible : e.key = d.link}
        from == IF explicit # {} THEN explicit ELSE eligible
    IN {e \in from : \A f \in from : ~Before(e, f)}

Cohort(E) ==
    LET last == Max({e.ts : e \in E}) + StudyReach
    IN {d \in decisions : Min({e.ts : e \in E}) <= d.ts
                          /\ d.ts <= (IF last < now THEN last ELSE now)}

\* The decisions with an event, their outcomes and their cohort.
DecisionRecords(D, E) ==
    LET linked == {d \in D : AssignDecision(d, E) # {}}
        loaded == LoadBatch(linked)
        context == RegimeContext(E)
    IN {[decision |-> d, event |-> AssignDecision(d, E),
         outcome |-> [h \in Horizons |-> Outcome(d, loaded[d][h])],
         signature |-> GovernedContext(d, context.rows)["regime_signature"]] : d \in linked}

\* A cohort past the limit gives no statistics.
DecisionStatistics(E) ==
    LET cohort == Cohort(E)
    IN IF Cardinality(cohort) > CohortLimit THEN [available |-> FALSE, records |-> {}]
       ELSE [available |-> TRUE, records |-> DecisionRecords(cohort, E)]

-----------------------------------------------------------------------------

Size == Cardinality(observations) + Cardinality(events) + Cardinality(decisions) + Rows

StudyNext ==
    \/ /\ Size < MaxStored
       /\ \/ \E s \in Bars, t \in 0..now, p \in {"low", NoValue} : InsertBar(s, t, p)
          \/ \E t \in 0..now, r \in {"low", NoValue} : InsertFunding(t, r)
          \/ \E spot, perp \in 0 .. now + FutureSkew : Materialize(spot, perp, "low")
       /\ UNCHANGED <<events, outcomeVars>>
    \/ /\ Size < MaxStored
       /\ \E kind \in EventKinds, t \in 0..now : InsertEvent(kind, t)
       /\ UNCHANGED <<observations, outcomeVars>>
    \/ /\ Size < MaxStored
       /\ \/ \E v \in Labels : SaveContext("regime", v)
          \/ \E final \in Finals : RecordFinal(final)
       /\ UNCHANGED studyVars
    \/ now < MaxStudyClock /\ Wait /\ UNCHANGED studyVars

StudySpec == StudyInit /\ [][StudyNext]_<<outcomeVars, studyVars>>

\* The queries bound what they read differently, and none of them changes the
\* answer: a reaction is the one that the whole history gives, in the single
\* lab, in the statistics, and for the regimes unless the read was cut short.
SameReaction(a, b) ==
    \A h \in Horizons :
        LET x == a[h]  y == b[h]
        IN IF "available" \in {x.status, y.status} THEN x = y
           ELSE (x.status = "not_matured") = (y.status = "not_matured")

EveryReadAgrees ==
    \A e \in events :
        /\ \A s \in History :
               LET whole == SelectEventPoints(Stored(s), e, Coverage(s), MaxReferenceAge)
               IN /\ SameReaction(LoadSeries(s, e), whole)
                  /\ \/ s \in Bars /\ LocalHistory(s, e) = {}
                     \/ SameReaction(LabReaction(s, e), whole)
        /\ LET context == RegimeContext(events)
           IN context.truncated
              \/ SameReaction(RegimePath(context.rows, e), RegimePath(contextRows, e))

\* Statistics leave nothing out.  The windows counted are disjoint, and each
\* event excluded meets one that counts; of a sample each event is in one column,
\* whatever the metric.  Statistics of decisions cover every decision that an
\* event of the sample reaches, or there are none; and the regimes they sort a
\* decision by are those of its time, as in the report of outcomes, unless the
\* read was cut short.
NothingLeftOut ==
    /\ \A h \in Horizons :
           LET kept == FilterOverlaps(events, h)
               Meet(e, f) == e.ts < Due(f, h) /\ f.ts < Due(e, h)
           IN /\ \A e, f \in kept : e # f => ~Meet(e, f)
              /\ \A e \in events \ kept : \E f \in kept : Meet(e, f)
              /\ \A E \in Build(events) : E # {} =>
                     \A series \in History \cup {"regime"} :
                         LET row == Summary(E, h)[series]
                         IN row.candidate = row.observed + row.not_matured + row.overlap + row.missing
    /\ events # {} /\ DecisionStatistics(events).available =>
           LET records == DecisionStatistics(events).records
           IN /\ \A d \in decisions : (\E e \in events : d.ts \in e.ts .. e.ts + StudyReach)
                                      => \E r \in records : r.decision = d
              /\ \A r \in records :
                     \/ RegimeContext(events).truncated
                     \/ r.signature = GovernedContext(r.decision,
                            {c \in contextRows : c.ts <= r.decision.ts})["regime_signature"]

\* A reaction once seen is changed only by a new row that is stored late, before
\* the one it selected; of a basis, which is not backfilled, only within the age
\* that a leg may have.
ReactionStays ==
    [][\A e \in events, s \in History, h \in Horizons :
           LET seen == LoadSeries(s, e)[h]
           IN seen.status = "available" =>
                  \/ LoadSeries(s, e)[h]' = seen
                  \/ \E o \in observations' \ observations :
                         /\ o.series = s /\ o.ts <= seen.selected.ts
                         /\ \A p \in observations : p.series = s => p.key # o.key
                         /\ s = "basis" => now - o.ts <= MaxLegAge]_<<outcomeVars, studyVars>>
===============================================================================
