------------------------------- MODULE MCDesk -------------------------------
(* The desk one part at a time: "focus" names the part that moves in a      *)
(* behaviour, and the others rest in an initial state.  Prices and context  *)
(* rows are read for different figures of a report: one kind is stored.     *)
EXTENDS Desk

CONSTANTS m1, m2, t1, t2,            \* markets and their traders
          a, b, o1, o2, h1, h2       \* models, operators and their hosts

VARIABLE focus

MCFillSize == {2, -1}
MCHostOf == (o1 :> h1) @@ (o2 :> h2)
MCRate == {-30, 30}
MCRecordedSize == {1, -2}
MCHeld == {1}
MCQuantity == {-2, -1, 1}
MCPnl == {-2, 0}
MCManual(f, values) == [field |-> f, preset |-> "manual", values |-> values]
MCPreset(f, preset) == [field |-> f, preset |-> preset, values |-> {}]
MCAxisRequests ==
    {MCManual("fill_price", {1, 3}), MCManual("order_size", {1, 3}),
     MCManual("liquidity_depth", {0, 10, 60}),
     MCPreset("spread_bps", "wide"), MCPreset("daily_pnl", "local")}

MCCandidates == [m \in {"SOL"} |-> <<"SOL-PERP", "SOL/USD">>]
MCVenueOrder == <<"drift", "kraken", "paper">>
MCHorizonOf == [h \in {"1h", "4h"} |-> IF h = "1h" THEN 1 ELSE 2]
MCMaxAge == [s \in {"regime", "index", "stable"} |-> IF s = "index" THEN 2 ELSE 1]

\* An allowed order at a venue that has prices, and a blocked paper order.
MCFinals == {[market |-> "SOL", venue |-> "kraken", action |-> "allow", side |-> "buy",
              prices |-> <<2, 1, 1>>, recorded |-> "none", link |-> 1],
             [market |-> "SOL", venue |-> "paper", action |-> "block", side |-> "sell",
              prices |-> <<0, 2, 2>>, recorded |-> "low", link |-> 0]}

\* The router starts in every combination of what its guards look at; in this one
\* it rests.
RouterRests ==
    /\ enabled = FALSE /\ linked = FALSE /\ closes = FALSE
    /\ spec = CHOOSE s \in Spec_ : /\ ~s.enabled /\ ~s.found /\ s.fresh
                                   /\ s.integrity = "UNKNOWN"

MCDeskInit ==
    /\ focus \in {"router", "ledger", "registry", "backtest", "audit",
                "prices", "context"}
    /\ focus # "router" => RouterRests
    /\ DeskInit

MCDeskNext ==
    /\ UNCHANGED focus
    /\ \/ focus = "router" /\ RouterMoves
       \/ focus = "ledger" /\ LedgerMoves
       \/ focus = "registry" /\ RegistryMoves
       \/ focus = "backtest" /\ BacktestMoves
       \/ focus = "audit" /\ AuditMoves
       \/ focus \in {"prices", "context"} /\ OutcomesMove
            /\ (IF focus = "prices" THEN UNCHANGED contextRows ELSE UNCHANGED ticks)
=============================================================================
