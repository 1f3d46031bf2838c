--------------------------- MODULE DecisionOutcomes ---------------------------
(***************************************************************************)
(* The performance report over recorded final decisions: the prices seen   *)
(* after each decision, read for one decision or for a batch, the market   *)
(* context of its time, and the counts of the report.  The tables grow     *)
(* while reports are asked for; a report writes nothing.                   *)
(*                                                                         *)
(* Times count the same unit; a label is "low" or "high" where the code    *)
(* has more levels; a return is its sign.  A report is what it counts, the *)
(* pairs; its sums, means and quantiles follow and are left out.           *)
(*                                                                         *)
(* X_F is X with the fault F.                                              *)
(***************************************************************************)
EXTENDS Integers, Sequences, FiniteSetsExt, TLC

CONSTANTS Candidates,  \* Candidates[m]: symbols of market m, best first
          Venues, VenueOrder,          \* the preference is a sequence
          HorizonOf,   \* HorizonOf[h]: its length
          Tolerance, RowLimit, BatchMaxRows, ContextMaxRows,
          Coins,       \* stablecoins
          Labels,      \* values of a context row, "unavailable" for NULL
          Finals,      \* what a final decision may be: its market, venue, action,
                       \* side, the prices of its fill, its order and its intent
                       \* (0 for none), the label that the record itself holds
                       \* ("none" for none), and the event it names (0 for none)
          MaxAge,      \* MaxAge["regime" | "index" | "stable"]
          Delay,       \* bound: how late a price is stored
          MaxClock, MaxRows, MaxDecisions      \* bounds

\* Horizons are a few lengths of time, the sources of context are told apart from
\* coins.  A label, of a source or recorded with a decision, may say that there is none.
ASSUME OutcomesAssumption ==
    /\ IsFiniteSet(DOMAIN HorizonOf) /\ DOMAIN HorizonOf # {}
    /\ \A h \in DOMAIN HorizonOf : HorizonOf[h] \in Nat
    /\ DOMAIN MaxAge = {"regime", "index", "stable"} /\ DOMAIN MaxAge \cap Coins = {}
    /\ \A source \in DOMAIN MaxAge : MaxAge[source] \in Nat
    /\ Labels \subseteq {"low", "high", "stale", "unavailable"}
    /\ \A final \in Finals : /\ "recorded" \in DOMAIN final
                            /\ final.recorded \in {"none", "low", "high", "stale", "unavailable"}
    /\ Tolerance \in Nat /\ RowLimit \in Nat \ {0}
    /\ BatchMaxRows \in Nat /\ ContextMaxRows \in Nat /\ Delay \in Nat

VARIABLES now, ticks, contextRows, decisions

outcomeVars == <<now, ticks, contextRows, decisions>>

Markets == DOMAIN Candidates
Symbols == UNION {Range(Candidates[m]) : m \in Markets}
Horizons == DOMAIN HorizonOf
Series == {"regime", "index"} \cup Coins

OutcomesInit == now = 0 /\ ticks = {} /\ contextRows = {} /\ decisions = {}

Rows == Cardinality(ticks) + Cardinality(contextRows)

-----------------------------------------------------------------------------
(* The tables.  Ids are serial: the order in which rows were stored.       *)

SaveTick(symbol, venue, price, ts) ==
    /\ Rows < MaxRows
    /\ ticks' = ticks \cup {[id |-> Cardinality(ticks) + 1, symbol |-> symbol,
                              venue |-> venue, price |-> price, ts |-> ts]}
    /\ UNCHANGED <<now, contextRows, decisions>>

SaveContext(series, value) ==
    /\ Rows < MaxRows
    /\ contextRows' = contextRows \cup {[id |-> Cardinality(contextRows) + 1,
                                          series |-> series, ts |-> now, value |-> value]}
    /\ UNCHANGED <<now, ticks, decisions>>

\* A record with the time it was written.
WithTime(rec, ts) == [x \in DOMAIN rec \cup {"ts"} |-> IF x = "ts" THEN ts ELSE rec[x]]

RecordFinal(final) ==
    /\ Cardinality(decisions) < MaxDecisions
    /\ decisions' = decisions \cup {WithTime(final, now)}
    /\ UNCHANGED <<now, ticks, contextRows>>

Wait == now < MaxClock /\ now' = now + 1 /\ UNCHANGED <<ticks, contextRows, decisions>>

-----------------------------------------------------------------------------
(* DecisionOutcomeRepository.                                              *)

Earlier(a, b) == a.ts < b.ts \/ (a.ts = b.ts /\ a.id < b.id)

\* ORDER BY ts, id LIMIT n
FirstRows(S, n) == {r \in S : Cardinality({q \in S : Earlier(q, r)}) < n}

SymbolsOf(d) == Range(Candidates[d.market])

Target(d, h) == d.ts + HorizonOf[h]

WindowEnd_Open(target) == MaxClock
WindowEnd(target) == target + Tolerance

InWindow(t, d, h) ==
    /\ t.symbol \in SymbolsOf(d)
    /\ Target(d, h) <= t.ts /\ t.ts <= WindowEnd(Target(d, h))

LoadHorizonPrices(d) ==
    [h \in Horizons |-> FirstRows({t \in ticks : InWindow(t, d, h)}, RowLimit)]

\* One read that covers every window of the batch.
BroadRows(R) ==
    LET targets == {Target(d, h) : d \in R, h \in Horizons}
    IN FirstRows({t \in ticks : /\ t.symbol \in UNION {SymbolsOf(d) : d \in R}
                                /\ Min(targets) <= t.ts
                                /\ t.ts <= WindowEnd(Max(targets))}, BatchMaxRows + 1)

LoadBatch(R) ==
    LET broad == BroadRows(R)
    IN IF Cardinality(broad) > BatchMaxRows
       THEN [d \in R |-> LoadHorizonPrices(d)]
       ELSE [d \in R |-> [h \in Horizons |->
                FirstRows({t \in broad : InWindow(t, d, h)}, RowLimit)]]

SourceOf(series) == IF series \in Coins THEN "stable" ELSE series

\* The last row before the window, of each series: one per stablecoin.
Seeds_None(start) == {}

Seeds(start) ==
    {r \in contextRows : /\ r.ts < start
                         /\ \A q \in contextRows :
                                q.series = r.series /\ q.ts < start => ~Earlier(r, q)}

LoadContextHistory(start, end) ==
    LET Inside(source) == {r \in contextRows : SourceOf(r.series) = source
                                               /\ start <= r.ts /\ r.ts <= end}
    IN [rows |-> Seeds(start)
                 \cup UNION {FirstRows(Inside(s), ContextMaxRows) : s \in DOMAIN MaxAge},
        truncated |-> \E s \in DOMAIN MaxAge : Cardinality(Inside(s)) > ContextMaxRows]

-----------------------------------------------------------------------------
(* evaluate_decision_outcomes.                                             *)

Index(seq, e) == CHOOSE i \in 1..Len(seq) : seq[i] = e

\* The venue of the order first, unless it is paper's.
VenueRank(venue, preferred) ==
    IF venue = preferred /\ venue # "paper" THEN 0 ELSE Index(VenueOrder, venue)

PriceRank(t, d) == <<Index(Candidates[d.market], t.symbol), VenueRank(t.venue, d.venue)>>

Preferred(t, u, d) ==
    LET p == PriceRank(t, d)  q == PriceRank(u, d)
    IN \/ p[1] < q[1]
       \/ p[1] = q[1] /\ p[2] < q[2]
       \/ p = q /\ Earlier(t, u)

SelectObservation(rows, d) == CHOOSE t \in rows : \A u \in rows \ {t} : Preferred(t, u, d)

NotSeen == "none"

\* _execution_facts: the price decided on, or the first that the record has.
ReferencePrice(d) ==
    LET named == {i \in 1..Len(d.prices) : d.prices[i] > 0}
    IN IF named = {} THEN 0 ELSE d.prices[Min(named)]

SignedMove(d, price) ==
    LET base == ReferencePrice(d)
        up == IF d.side = "buy" THEN price - base ELSE base - price
    IN IF up > 0 THEN "favorable" ELSE IF up < 0 THEN "adverse" ELSE "flat"

Outcome(d, rows) ==
    IF rows = {} \/ ReferencePrice(d) = 0 THEN NotSeen
    ELSE SignedMove(d, SelectObservation(rows, d).price)

-----------------------------------------------------------------------------
(* The context of a decision: governed_decision_context.                   *)

LatestBefore(rows, ts) ==
    LET before == {r \in rows : r.ts <= ts}
    IN {r \in before : \A q \in before : ~Earlier(r, q)}

Freshness(rows, d, source) ==
    IF rows = {} THEN "unavailable"
    ELSE IF \E r \in rows : d.ts - r.ts <= MaxAge[source] THEN "available" ELSE "stale"

Of(rows, series) == {r \in rows : r.series = series}

\* The label of one series, the row's own value where it is fresh.
SeriesLabel(rows, d, source) ==
    LET latest == LatestBefore(Of(rows, source), d.ts)
        status == Freshness(latest, d, source)
    IN IF status # "available" THEN status
       ELSE CHOOSE value \in {r.value : r \in latest} : TRUE

ShockLabel(rows, d) ==
    LET regime == SeriesLabel(rows, d, "regime")
        index  == SeriesLabel(rows, d, "index")
    IN IF regime \in {"low", "high"} THEN regime
       ELSE IF index \in {"low", "high"} THEN index
       ELSE IF Freshness(LatestBefore(Of(rows, "index"), d.ts), d, "index") = "available"
            THEN "unavailable"
       ELSE IF "stale" \in {regime, index} THEN "stale"
       ELSE "unavailable"

\* The worst of the coins whose latest row is fresh.
StableLabel(rows, d) ==
    LET latest == UNION {LatestBefore(Of(rows, c), d.ts) : c \in Coins}
        fresh == {r \in latest : Freshness({r}, d, "stable") = "available"}
        values == {r.value : r \in fresh} \ {"unavailable"}
    IN IF "high" \in values THEN "high"
       ELSE IF values # {} THEN "low"
       ELSE IF latest \ fresh # {} THEN "stale"
       ELSE "unavailable"

Fields == {"vol_regime", "shock_state", "tariff_escalation", "stablecoin_health",
           "regime_signature"}

\* What the decision recorded itself always wins.
GovernedContext(d, rows) ==
    LET Label(f) == IF d.recorded # "none" THEN d.recorded
                    ELSE CASE f = "vol_regime" -> SeriesLabel(rows, d, "regime")
                           [] f = "shock_state" -> ShockLabel(rows, d)
                           [] f = "tariff_escalation" -> SeriesLabel(rows, d, "index")
                           [] f = "stablecoin_health" -> StableLabel(rows, d)
        parts == {Label("vol_regime"), Label("shock_state")}
        signature == IF "stale" \in parts THEN "stale"
                     ELSE IF "unavailable" \in parts THEN "unavailable"
                     ELSE IF parts = {"low"} THEN "low" ELSE "high"
    IN [f \in Fields |-> IF f = "regime_signature" THEN signature ELSE Label(f)]

-----------------------------------------------------------------------------
(* decision_performance.                                                   *)

Listed(start, end) == {d \in decisions : start <= d.ts /\ d.ts <= end}

Context(R) == LoadContextHistory(Min({d.ts : d \in R}), Max({d.ts : d \in R}))

\* Each listed decision with its outcomes and its context.
Pairs(R) ==
    LET history == Context(R)
        loaded == LoadBatch(R)
    IN {[decision |-> d, outcome |-> [h \in Horizons |-> Outcome(d, loaded[d][h])],
         context |-> GovernedContext(d, history.rows)] : d \in R}

-----------------------------------------------------------------------------

OutcomesNext ==
    \/ \E s \in Symbols, v \in Venues, p \in {1, 2}, t \in now - Delay .. now :
           t >= 0 /\ SaveTick(s, v, p, t)
    \/ \E s \in Series, v \in Labels : SaveContext(s, v)
    \/ \E final \in Finals : RecordFinal(final)
    \/ Wait

OutcomesSpec == OutcomesInit /\ [][OutcomesNext]_outcomeVars

Windows == {w \in {d.ts : d \in decisions} \X {d.ts : d \in decisions} : w[1] <= w[2]}

\* "while preserving single-loader semantics": in a report a decision has the
\* prices that it has when it is asked for alone, whatever else is in the batch
\* and however many rows the batch's one read would return; and the cohort that
\* the rows up to its time give, whichever window of decisions it is reported
\* in, unless the report says that its context was truncated.
ReportedAsAlone ==
    \A w \in Windows :
        LET R == Listed(w[1], w[2])
            history == Context(R)
        IN /\ LoadBatch(R) = [d \in R |-> LoadHorizonPrices(d)]
           /\ \A d \in R :
                  \/ history.truncated
                  \/ GovernedContext(d, history.rows)
                        = GovernedContext(d, {r \in contextRows : r.ts <= d.ts})
=============================================================================
