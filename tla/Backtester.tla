----------------------------- MODULE Backtester -----------------------------
(***************************************************************************)
(* The historical backtester and the synthetic one, one observation (one   *)
(* day) per step.  A historical run takes the recorded observations in     *)
(* the order of (ts, priority, id): funding, then market, then fills.  On  *)
(* a market tick it marks the position, executes the pending order if its  *)
(* latency has passed, and only then decides anew.                         *)
(*                                                                         *)
(* Observations are chosen step by step, so that what a step does cannot   *)
(* depend on later ones.  Money is in integers; costs are in basis points, *)
(* rounded down.  The statistics of a finished run are left out.           *)
(* X_F is X with the fault F.                                              *)
(***************************************************************************)
EXTENDS LedgerAccounting

CONSTANTS Capital,      \* initial_capital
          TickPrice,    \* prices of market ticks
          RateBps,      \* funding rates
          Latency,      \* values of latency_ms, in ticks of the clock
          FeeBps, SlippageBps,
          AllocationPct, LeveragePct,   \* allocation_limit, max_gross_leverage
          SignalBps,    \* move of the price that makes a signal, 50
          Interval,     \* decision_interval_seconds, in ticks of the clock
          RecordedSize, \* signed sizes of recorded fills
          Gap,          \* bound: ticks between two observations
          MaxObs        \* bound: observations of a run

ASSUME BacktestAssumption ==
    /\ Capital \in Nat \ {0} /\ TickPrice \subseteq Nat \ {0} /\ RateBps \subseteq Int
    /\ Latency \subseteq Nat /\ FeeBps \in Nat /\ SlippageBps \in Nat /\ Interval \in Nat
    /\ AllocationPct \in 0..100 /\ LeveragePct \in Nat \ {0}
    /\ RecordedSize \subseteq Int \ {0} /\ Gap \subseteq Nat /\ MaxObs \in Nat

VARIABLES bt,   \* state of the historical run
          sy    \* state of the synthetic run

backtestVars == <<bt, sy>>

Bps(x, b) == (x * b) \div 10000
Pct(x, n) == (x * n) \div 100

Strategies == {"momentum", "carry_arb", "buy_hold", "recorded_orders"}
NoPending == [size |-> 0, signalAt |-> 0, signalObs |-> 0]
NoFill == [at |-> 0, obs |-> 0, signalAt |-> 0, signalObs |-> 0]

\* Nothing has been observed yet.  The last four fields are history.
NewRun(strategy, full, latency) ==
    [strategy |-> strategy, full |-> full, latency |-> latency, phase |-> "running", usable |-> FALSE,
     obs |-> 0, at |-> 0, rank |-> "funding",
     position |-> Flat, realized |-> 0, lastPrice |-> 0,
     decisionPrice |-> 0, decidedAt |-> -1, rate |-> 0, pending |-> NoPending,
     equity |-> Capital,
     cash |-> 0, costs |-> 0, lastFill |-> NoFill]

NotRun == [phase |-> "none"]

BacktestInit == bt = NotRun /\ sy = NotRun

StartHistorical ==
    /\ bt = NotRun /\ sy = NotRun
    /\ \E strategy \in Strategies, full \in BOOLEAN, latency \in Latency :
          bt' = NewRun(strategy, full, latency)
    /\ UNCHANGED sy

-----------------------------------------------------------------------------
(* The steps of an observation, as functions of the state of the run.      *)

MarkedEquity(b) == Capital + b.realized + Unrealized(b.position)

\* The newest point of the equity timeline.
RecordEquity(b) == [b EXCEPT !.equity = MarkedEquity(b), !.usable = TRUE]

\* PositionLedger.apply_fill with its costs.
Apply(b, s, p, fee, slippage, funding) ==
    [b EXCEPT !.position = Filled(@, s, p),
              !.realized = @ + NetRealized(b.position, s, p, fee, slippage, funding),
              !.cash     = @ - s * p,
              !.costs    = @ + fee + slippage - funding]

Sign(n) == IF n > 0 THEN 1 ELSE IF n < 0 THEN -1 ELSE 0

\* A simulated fill of size s at the observed price p: the price slips
\* against the order, and the slippage is booked as a cost as well.
Simulate(b, s, p) ==
    LET slip == Bps(p, SlippageBps)
        at   == p + Sign(s) * slip
    IN Apply(b, s, at, Bps(Magnitude(s) * at, FeeBps), Magnitude(s) * slip, 0)

\* What a fill leaves of a pending order.
Remaining(o, s) == IF o.size = s THEN NoPending ELSE [o EXCEPT !.size = @ - s]

\* A partial fill takes half of what is left, at least one unit.
FillSizeOf(b) ==
    IF b.full \/ Magnitude(b.pending.size) = 1
      THEN b.pending.size ELSE Sign(b.pending.size) * (Magnitude(b.pending.size) \div 2)

Execute(b, p) ==
    IF b.pending = NoPending \/ b.at < b.pending.signalAt + b.latency THEN b
    ELSE LET s == FillSizeOf(b)
         IN [Simulate(b, s, p) EXCEPT
                !.position = Marked(@, p),
                !.pending  = Remaining(@, s),
                !.lastFill = [at |-> b.at, obs |-> b.obs,
                              signalAt |-> b.pending.signalAt,
                              signalObs |-> b.pending.signalObs]]

\* _historical_signal
Signal(b, p) ==
    CASE b.strategy = "buy_hold"  -> IF b.decidedAt = -1 THEN 1 ELSE 0
      [] b.strategy = "carry_arb" -> IF b.rate > 0 THEN -1 ELSE 1
      [] b.decisionPrice = 0      -> 0
      [] OTHER -> IF p * 10000 > b.decisionPrice * (10000 + SignalBps) THEN 1
                  ELSE IF p * 10000 < b.decisionPrice * (10000 - SignalBps) THEN -1 ELSE 0

TargetSize(b, p) ==
    Signal(b, p) * (Smaller(Pct(MarkedEquity(b), AllocationPct), Pct(MarkedEquity(b), LeveragePct)) \div p)

Decides(b) ==
    /\ b.strategy # "recorded_orders" /\ b.pending = NoPending
    /\ b.strategy = "buy_hold" => b.decidedAt = -1
    /\ b.decidedAt # -1 => b.at - b.decidedAt >= Interval

\* No order when the equity is gone, when the target is reached, or when the
\* change alone exceeds the leverage allowed.
DecideTarget(b, p) ==
    LET delta == TargetSize(b, p) - b.position.size
        seen  == [b EXCEPT !.decisionPrice = p, !.decidedAt = b.at]
    IN IF ~Decides(b) THEN b
       ELSE IF \/ MarkedEquity(b) <= 0 \/ delta = 0
               \/ Magnitude(delta) * p > Pct(MarkedEquity(b), LeveragePct) THEN seen
       ELSE [seen EXCEPT !.pending = [size |-> delta, signalAt |-> b.at,
                                    signalObs |-> b.obs]]

\* A market tick.
OnMarket_DecideFirst(b, p) ==
    RecordEquity(Execute(DecideTarget([b EXCEPT !.position = Marked(@, p), !.lastPrice = p], p), p))
OnMarket(b, p) ==
    DecideTarget(RecordEquity(Execute([b EXCEPT !.position = Marked(@, p), !.lastPrice = p], p)), p)

\* A funding tick: longs pay a positive rate on the position at its mark.
OnFunding(b, r) ==
    IF b.position.size = 0 THEN [b EXCEPT !.rate = r]
    ELSE LET amount == -Bps(b.position.size * b.position.mark, r)
         IN RecordEquity([b EXCEPT !.rate = r, !.realized = @ + amount, !.costs = @ - amount])

\* A recorded fill has its costs with it.
OnRecordedFill(b, s, p) ==
    IF b.strategy # "recorded_orders" THEN b
    ELSE RecordEquity(Apply(b, s, p, Bps(Magnitude(s) * p, FeeBps), 0, 0))

Rank(kind) == CASE kind = "funding" -> 40 [] kind = "market" -> 60 [] kind = "fill" -> 70

\* The next observation comes gap ticks after the last; at the same time its
\* kind does not precede the last one's.
Observe(kind, gap) ==
    /\ bt.phase = "running" /\ bt.obs < MaxObs
    /\ gap = 0 => Rank(kind) >= Rank(bt.rank)

Seen(kind, gap) == [bt EXCEPT !.obs = @ + 1, !.at = @ + gap, !.rank = kind]

MarketTick(gap, p) ==
    /\ Observe("market", gap) /\ bt' = OnMarket(Seen("market", gap), p) /\ UNCHANGED sy

\* The route empties funding_ticks for a run over recorded orders.
FundingTick(gap, r) ==
    /\ Observe("funding", gap) /\ bt.strategy # "recorded_orders"
    /\ bt' = OnFunding(Seen("funding", gap), r)
    /\ UNCHANGED sy

RecordedFill(gap, s, p) ==
    /\ Observe("fill", gap) /\ bt' = OnRecordedFill(Seen("fill", gap), s, p) /\ UNCHANGED sy

\* A run without a market observation raises; recorded orders stay open.
FinishHistorical ==
    /\ bt.phase = "running"
    /\ bt' = IF ~bt.usable THEN [bt EXCEPT !.phase = "failed"]
             ELSE IF bt.strategy = "recorded_orders" \/ bt.position.size = 0
                  THEN [bt EXCEPT !.phase = "completed"]
             ELSE RecordEquity([Simulate(bt, -bt.position.size, bt.lastPrice)
                                  EXCEPT !.phase = "completed"])
    /\ UNCHANGED sy

-----------------------------------------------------------------------------
(* The synthetic run: a position is closed and opened anew every interval. *)

StartSynthetic(strategy) ==
    /\ bt = NotRun /\ sy = NotRun
    /\ \E p \in TickPrice :
        sy' = [phase |-> "running", strategy |-> strategy, day |-> 0, price |-> p,
               capital |-> Capital, holding |-> 0, entry |-> 0,
               momentum |-> 0, funding |-> 0, closing |-> 0]
    /\ UNCHANGED bt

\* The profit of closing the holding at p, after fee and slippage.
TradePnl(s, p) ==
    s.holding * (p - s.entry) - Bps(Magnitude(s.holding) * p, FeeBps + SlippageBps)

SyntheticHolding(s, p) ==
    CASE s.strategy = "momentum" ->
            IF p * 10000 > s.price * (10000 + SignalBps) THEN (s.capital \div p) \div 2
            ELSE IF p * 10000 < s.price * (10000 - SignalBps) THEN -((s.capital \div p) \div 2)
            ELSE 0
      [] s.strategy = "carry_arb" -> -Pct(s.capital \div p, 40)
      [] OTHER -> Pct(s.capital \div p, 30)

\* funding_rate_daily is paid on the holding at yesterday's price, first.
SyntheticDay(p) ==
    /\ sy.phase = "running" /\ sy.day < MaxObs
    /\ LET carry  == IF sy.holding = 0 THEN 0 ELSE Bps(sy.holding * sy.price, 1)
           trade  == IF sy.holding = 0 THEN 0 ELSE TradePnl(sy, p)
           closed == [sy EXCEPT !.capital  = @ + carry + trade,
                                !.funding  = @ + carry,
                                !.momentum = @ + trade]
           size   == SyntheticHolding(closed, p)
       IN sy' = [closed EXCEPT !.day = @ + 1, !.price = p, !.holding = size,
                               !.entry = IF size = 0 THEN 0 ELSE p]
    /\ UNCHANGED bt

\* The profit of the last close is in the capital and in no strategy's share.
FinishSynthetic_Dropped == sy.capital
FinishSynthetic == sy.capital + (IF sy.holding = 0 THEN 0 ELSE TradePnl(sy, sy.price))

EndSynthetic ==
    /\ sy.phase = "running" /\ sy.day > 0
    /\ sy' = [sy EXCEPT !.phase = "completed", !.capital = FinishSynthetic,
                        !.closing = IF sy.holding = 0 THEN 0 ELSE TradePnl(sy, sy.price)]
    /\ UNCHANGED bt

BacktestNext ==
    \/ StartHistorical \/ FinishHistorical \/ EndSynthetic
    \/ \E strategy \in {"momentum", "carry_arb", "other"} : StartSynthetic(strategy)
    \/ \E gap \in Gap, p \in TickPrice :
          \/ bt # NotRun /\ MarketTick(gap, p)
          \/ bt # NotRun /\ \E s \in RecordedSize : RecordedFill(gap, s, p)
    \/ \E gap \in Gap, r \in RateBps : bt # NotRun /\ FundingTick(gap, r)
    \/ \E p \in TickPrice : sy # NotRun /\ SyntheticDay(p)

BacktestSpec == BacktestInit /\ [][BacktestNext]_backtestVars

-----------------------------------------------------------------------------
\* A simulated fill uses a market observation later than the one its
\* decision was made on, and no earlier than the latency allows, also when
\* the two have the same timestamp.
NoLookAhead ==
    bt # NotRun /\ bt.lastFill # NoFill =>
        /\ bt.lastFill.obs > bt.lastFill.signalObs
        /\ bt.lastFill.at >= bt.lastFill.signalAt + bt.latency

\* The equity of a historical run is the capital plus the cash of its fills
\* plus the position at its mark, less the costs -- among them the slippage,
\* which the fill prices contain already.  The capital of a synthetic run is
\* explained by its strategies and by the last close, which per_strategy_pnl
\* does not count.
BacktestBooksBalance ==
    /\ bt # NotRun =>
         MarkedEquity(bt) = Capital + bt.cash + bt.position.size * bt.position.mark - bt.costs
    /\ sy # NotRun =>
         sy.capital = Capital + sy.momentum + sy.funding + sy.closing
=============================================================================
