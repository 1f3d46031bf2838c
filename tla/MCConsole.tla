----------------------------- MODULE MCConsole -----------------------------
(* What an operator sees and may do: the readiness probes, the gate before  *)
(* every mutation, the live feed, the pages of the dashboard, and what its  *)
(* pages study: events over the rows that decisions and markets leave, and  *)
(* the lab that evaluates rules over stored history.  "focus" names the     *)
(* part that moves in a behaviour; the others rest.  "decisions" and        *)
(* "pages" are the dashboard with and without its decisions page.           *)
(* No figure of a study uses the histories of prices, funding and basis     *)
(* together with regimes or decisions: "history" stores the one kind and    *)
(* "cohort" the other.                                                      *)
EXTENDS Readiness, OperatorGate, LiveFeed, DashboardPages, EventStudy, HeuristicStudy, TLC

CONSTANTS t1, t2, e1, e2, d1, d2     \* tokens, emitters, decisions

VARIABLE focus

MCReadySymbols == <<"BTC", "SOL">>
MCFeeds == <<"gdelt">>
MCSetups == {[mode |-> mode, enabled |-> mode = "live", token |-> TRUE, policyOk |-> TRUE,
              venues |-> {"hyperliquid"}] : mode \in {"paper", "live"}}

\* A mutation nobody listed, and an inventory that lacks a listed one.
MCUnlisted == <<"POST", <<"orders", "*", "amend">>>>
MCInventories == {Policies, Policies \cup {MCUnlisted}, Policies \ {<<"POST", <<"decisions">>>>}}
MCCallerRoutes == {MCUnlisted, Swap, <<"DELETE", <<"execution", "conditional-order", "*">>>>,
                   <<"POST", <<"sandbox", "run">>>>}

\* Where a part may start in several states, the one it rests in.
ReadinessRests == setup = CHOOSE s \in Setups : TRUE
GateRests == routes = Policies /\ settings = (CHOOSE c \in Configs : TRUE) /\ kept = NoToken
LiveFeedRests == feedRedis = TRUE

MCCandidates == [m \in {"SOL"} |-> <<"SOL-PERP", "SOL/USD">>]
MCVenueOrder == <<"drift", "kraken", "paper">>
MCHorizonOf == [h \in {"1h", "4h"} |-> IF h = "1h" THEN 1 ELSE 2]
MCMaxAge == [s \in {"regime", "index", "stable"} |-> IF s = "index" THEN 2 ELSE 1]
MCFinals == {[market |-> "SOL", venue |-> "kraken", action |-> "allow", side |-> "buy",
              price |-> 2, recorded |-> "none", link |-> 1]}

\* Three events, the last with another time basis.
MCEventKinds == {[key |-> k, basis |-> IF k = 3 THEN 2 ELSE 1] : k \in 1..3}

MCFacts == {[source |-> "index",
             patch |-> ("tariff_rate_of_change" :> 1) @@ ("shock_score" :> 2)]}

consoleVars == <<readinessVars, gateVars, liveFeedVars, dashVars>>
labVars == <<outcomeVars, studyVars, heuristicVars>>

ConsoleInit ==
    /\ focus \in {"readiness", "gate", "feed", "decisions", "pages",
                  "history", "cohort", "heuristics"}
    /\ focus # "readiness" => ReadinessRests
    /\ focus # "gate" => GateRests
    /\ focus # "feed" => LiveFeedRests
    /\ ReadinessInit /\ GateInit /\ LiveFeedInit /\ DashInit
    /\ focus # "readiness" => world.db
    /\ StudyInit /\ HeuristicInit

ConsoleNext ==
    /\ UNCHANGED focus
    /\ \/ focus = "readiness" /\ ReadinessNext
            /\ UNCHANGED <<gateVars, liveFeedVars, dashVars, labVars>>
       \/ focus = "gate" /\ GateNext
            /\ UNCHANGED <<readinessVars, liveFeedVars, dashVars, labVars>>
       \/ focus = "feed" /\ LiveFeedNext
            /\ UNCHANGED <<readinessVars, gateVars, dashVars, labVars>>
       \/ focus \in {"decisions", "pages"} /\ DashNext
            /\ view'.page \in (IF focus = "decisions" THEN {"decisions", "other"}
                                                     ELSE Pages \ {"decisions"})
            /\ UNCHANGED <<readinessVars, gateVars, liveFeedVars, labVars>>
       \/ focus = "history" /\ StudyNext
            /\ UNCHANGED <<consoleVars, heuristicVars, decisions, contextRows>>
       \/ focus = "cohort" /\ StudyNext
            /\ UNCHANGED <<consoleVars, heuristicVars, observations>>
       \/ focus = "heuristics" /\ HeuristicNext
            /\ UNCHANGED <<consoleVars, outcomeVars, studyVars>>
=============================================================================
