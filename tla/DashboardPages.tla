--------------------------- MODULE DashboardPages ---------------------------
(***************************************************************************)
(* The pages of the dashboard in one browser tab, and the answers they     *)
(* wait for.  Everything a page shows is fetched; requests overlap, and an *)
(* answer draws its panel whenever it arrives.  The active page is fetched *)
(* again every few seconds, on a switch and when the tab becomes visible;  *)
(* the decisions page opens one decision after another into the same panel *)
(* and adds three research boxes to it, which three scripts of their own   *)
(* fill; the strategy page runs backtests, and reopens stored runs; a form *)
(* disables its button while it waits, the reaction lab dims its panel.    *)
(*                                                                         *)
(* A page's answers are collected before it is drawn, so one request       *)
(* stands for them; its other panels are one, "page".  The geopolitics     *)
(* page asks twice: its lists, then the study of an event they name.       *)
(***************************************************************************)
EXTENDS Naturals, FiniteSets

CONSTANTS DecisionId,  \* decisions the list names
          MaxAsks,     \* bound on the requests the tab sends
          MaxRuns,     \* bound on the backtests the server completes
          MaxChoices   \* bound on the switches that ask nothing

ASSUME DashAssumption == MaxAsks \in Nat /\ MaxRuns \in Nat /\ MaxChoices \in Nat

VARIABLES view,      \* what the user chose: page, auto-refresh, visibility
          panel,     \* what each panel shows
          drawing,   \* which drawing of the detail panel stands
          selected,  \* selectedDecisionId of the three scripts
          busy,      \* forms with a disabled button, and a dimmed lab
          asks,      \* requests without an answer
          asked,     \* how many were sent
          stored     \* completed backtests, on the server

dashVars == <<view, panel, drawing, selected, busy, asks, asked, stored>>

Blank == [is |-> "blank"]
Waiting == [is |-> "waiting"]
Broken == [is |-> "error"]
Shows(x) == [is |-> "shown", of |-> x]

Boxes == {"outcome", "counterfactual", "sensitivity"}
Forms == {"run", "order", "risk", "scenario", "validation"}
Panels == Boxes \cup (Forms \ {"run"})
          \cup {"page", "detail", "replay", "performance", "backtest", "diagnostics", "lab", "simulation"}
Pages == {"decisions", "strategy", "markets", "geopolitics", "other"}

Unread == 0
NoDecision == [none |-> TRUE]     \* no decision selected

NewRequest(kind, of, target) ==
    [n |-> asked + 1, kind |-> kind, of |-> of, target |-> target, answer |-> Unread]

\* fetchJSON, postJSON and the fetch calls of the scripts: the caller waits.  The
\* target is the drawing the request was made on, or the run it names.
FetchFor(kind, of, target) ==
    /\ asked < MaxAsks
    /\ asked' = asked + 1
    /\ asks' = asks \cup {NewRequest(kind, of, target)}

Fetch(kind, of) == FetchFor(kind, of, drawing)

AsksNothing == UNCHANGED <<asks, asked>>

DashInit ==
    /\ view = [page |-> "other", auto |-> TRUE, visible |-> TRUE, choices |-> 0]
    /\ panel = [p \in Panels |-> Blank]
    /\ drawing = 0 /\ selected = NoDecision /\ busy = {}
    /\ asks = {} /\ asked = 0 /\ stored = 0

\* The detail panel offers its controls when it was last drawn with a decision.
Open(d) == view.page = "decisions" /\ panel["detail"] = Shows(d)
HasBoxes == panel["detail"].is = "shown"

Draw(p, what) == panel' = [panel EXCEPT ![p] = what]

-----------------------------------------------------------------------------
(* Choosing and refreshing a page.                                         *)

PageKind(page) == IF page = "geopolitics" THEN "catalog" ELSE "page"

RefreshActiveTab(page) == Fetch(PageKind(page), page)

SwitchTab(page) ==
    /\ page # view.page
    /\ view' = [view EXCEPT !.page = page]
    /\ RefreshActiveTab(page)
    /\ UNCHANGED <<panel, drawing, selected, busy, stored>>

\* Refresh, every five seconds.
RefreshPage ==
    /\ view.auto /\ view.visible
    /\ RefreshActiveTab(view.page)
    /\ UNCHANGED <<view, panel, drawing, selected, busy, stored>>

Chosen(v) ==
    /\ view.choices < MaxChoices
    /\ view' = [v EXCEPT !.choices = @ + 1]
    /\ IF v.auto /\ v.visible THEN RefreshActiveTab(view.page) ELSE AsksNothing
    /\ UNCHANGED <<panel, drawing, selected, busy, stored>>

ToggleAutoRefresh == Chosen([view EXCEPT !.auto = ~@])

VisibilityChange == Chosen([view EXCEPT !.visible = ~@])

\* The diagnostics panel has a timer of its own, which looks at the page only.
RefreshDiagnostics ==
    /\ view.page = "markets"
    /\ Fetch("diagnostics", "markets")
    /\ UNCHANGED <<view, panel, drawing, selected, busy, stored>>

-----------------------------------------------------------------------------
(* The decisions page.                                                     *)

ShowDecision(d) ==
    /\ view.page = "decisions" /\ panel["page"] = Shows("decisions")
    /\ Fetch("detail", d)
    /\ UNCHANGED <<view, panel, drawing, selected, busy, stored>>

ReplayDecision(d) ==
    /\ Open(d)
    /\ Draw("replay", Waiting) /\ Fetch("replay", d)
    /\ UNCHANGED <<view, drawing, selected, busy, stored>>

LoadSelectedOutcomes ==
    /\ view.page = "decisions" /\ HasBoxes /\ selected # NoDecision
    /\ Draw("outcome", Waiting) /\ Fetch("outcome", selected)
    /\ UNCHANGED <<view, drawing, selected, busy, stored>>

\* A box whose inputs are read before the request: a counterfactual without a
\* value, and a sweep over values that are no numbers, are refused on the spot.
RunBox(box, inputs) ==
    /\ view.page = "decisions" /\ HasBoxes
    /\ IF inputs /\ selected # NoDecision
       THEN Draw(box, Waiting) /\ Fetch(box, selected)
       ELSE Draw(box, Broken) /\ AsksNothing
    /\ UNCHANGED <<view, drawing, selected, busy, stored>>

RunCounterfactual(inputs) == RunBox("counterfactual", inputs)

RunSensitivity(inputs) == RunBox("sensitivity", inputs)

ClearCounterfactual ==
    /\ view.page = "decisions" /\ HasBoxes
    /\ Draw("counterfactual", Blank) /\ AsksNothing
    /\ UNCHANGED <<view, drawing, selected, busy, stored>>

LoadPerformance ==
    /\ view.page = "decisions"
    /\ Draw("performance", Waiting) /\ Fetch("performance", "4h")
    /\ UNCHANGED <<view, drawing, selected, busy, stored>>

-----------------------------------------------------------------------------
(* The strategy page.                                                      *)

SubmitBacktest(valid) ==
    /\ view.page = "strategy" /\ "run" \notin busy
    /\ IF valid
       THEN busy' = busy \cup {"run"} /\ Draw("backtest", Waiting) /\ Fetch("run", "run")
       ELSE busy' = busy /\ Draw("backtest", Broken) /\ AsksNothing
    /\ UNCHANGED <<view, drawing, selected, stored>>

InspectRun(n) ==
    /\ view.page = "strategy" /\ n \in 1..stored
    /\ FetchFor("history", "run", n)
    /\ UNCHANGED <<view, panel, drawing, selected, busy, stored>>

\* The other forms with a button: what they asked for is drawn when it arrives.
SubmitForm(form, page) ==
    /\ view.page = page /\ form \notin busy
    /\ busy' = busy \cup {form} /\ Fetch(form, form)
    /\ UNCHANGED <<view, panel, drawing, selected, stored>>

SubmitOrder == SubmitForm("order", "other")

\* The stress test and the simulation of paths.
SubmitRiskForm == SubmitForm("risk", "other")

SubmitGeoScenario == SubmitForm("scenario", "geopolitics")

SubmitValidation == SubmitForm("validation", "strategy")

\* The replay and the macro scenario leave their buttons alone.
RunSimulation ==
    /\ view.page = "other"
    /\ Fetch("simulation", "simulation")
    /\ UNCHANGED <<view, panel, drawing, selected, busy, stored>>

\* Another event is chosen in the reaction lab.
SelectReaction(event) ==
    /\ view.page = "geopolitics" /\ panel["lab"].is = "shown"
    /\ busy' = busy \cup {"lab"} /\ Fetch("lab", event)
    /\ UNCHANGED <<view, panel, drawing, selected, stored>>

-----------------------------------------------------------------------------
(* Answers.                                                                *)

\* The one thing the server changes meanwhile is which runs there are: a backtest
\* completes there, and a page of strategies names the latest.  Answers begin at 1.
Changing(r) == r.kind = "run" \/ (r.kind = "page" /\ r.of = "strategy")

Serve(r) ==
    /\ Changing(r) /\ r.answer = Unread
    /\ r.kind = "run" => stored < MaxRuns
    /\ stored' = IF r.kind = "run" THEN stored + 1 ELSE stored
    /\ asks' = (asks \ {r}) \cup {[r EXCEPT !.answer = 1 + stored']}
    /\ UNCHANGED <<view, panel, drawing, selected, busy, asked>>

\* The panel an answer draws.
PanelOf(r) ==
    CASE r.kind \in {"run", "history"} -> "backtest"
      [] r.kind \in Panels             -> r.kind
      [] OTHER                         -> "page"

\* Were the box of the outcomes looked up on the answer, too:
Lands_ByLookup(r) == r.kind \in Boxes => HasBoxes

\* The outcomes are drawn into the box that asked for them; the other two boxes
\* are looked up when the answer arrives.
Lands(r) ==
    /\ r.kind = "outcome" => r.target = drawing
    /\ r.kind \in Boxes \ {"outcome"} => HasBoxes

Drawn(r) ==
    CASE r.kind = "run"     -> Shows(r.answer - 1)
      [] r.kind = "history" -> Shows(r.target)
      [] OTHER              -> Shows(r.of)

\* A page is drawn with nulls for what failed; a failed list of decisions is empty.
DrawnPage(r, ok) == IF r.of = "decisions" /\ ~ok THEN Broken ELSE Shows(r.of)

\* A page of strategies redraws the backtest panel with the latest run, with
\* nothing when there is none, and leaves it when that read failed.
LatestRun(r, ok) ==
    IF r.of # "strategy" \/ ~ok THEN panel["backtest"]
    ELSE IF r.answer = 1 THEN Blank ELSE Shows(r.answer - 1)

\* renderDecisionDetail, and the scripts' observers right behind it.
DrawDetail(r, ok) ==
    /\ drawing' = drawing + 1
    /\ panel' = [p \in Panels |->
                    IF p = "detail" THEN IF ok THEN Shows(r.of) ELSE Broken
                    ELSE IF p \in Boxes THEN Blank ELSE panel[p]]
    /\ selected' = IF ok THEN r.of ELSE selected

\* Of what failed, the timeline tells; the reaction lab is drawn without a study.
DrawnWithout(r) ==
    CASE r.kind \in {"risk", "scenario", "simulation"} -> panel[r.kind]
      [] r.kind = "lab"                               -> Shows("none")
      [] OTHER                                        -> Broken

\* The study a page of geopolitics was drawn with.
Studied(r, ok) ==
    IF r.of # "geopolitics" THEN panel["lab"] ELSE IF ok THEN Shows("first") ELSE Shows("none")

DrawPage(r, ok) ==
    [panel EXCEPT !["page"] = DrawnPage(r, ok), !["backtest"] = LatestRun(r, ok),
                  !["lab"] = Studied(r, ok)]

\* Were a failed request to draw nothing:
DrawPanel_NoCatch(r, ok) ==
    /\ panel' = IF ~ok \/ ~Lands(r) THEN panel
                ELSE IF r.kind = "page" THEN DrawPage(r, ok)
                ELSE [panel EXCEPT ![PanelOf(r)] = Drawn(r)]
    /\ UNCHANGED <<drawing, selected>>

DrawPanel(r, ok) ==
    /\ panel' = IF ~Lands(r) THEN panel
                ELSE IF r.kind = "page" THEN DrawPage(r, ok)
                ELSE [panel EXCEPT ![PanelOf(r)] = IF ok THEN Drawn(r) ELSE DrawnWithout(r)]
    /\ UNCHANGED <<drawing, selected>>

\* What the handler asks for next: the history of runs, the stored validations, and
\* the whole page once an order was answered.
Continued(r) ==
    CASE r.kind \in {"run", "validation"} -> {NewRequest("support", r.kind, drawing)}
      [] r.kind = "order" -> {NewRequest(PageKind(view.page), view.page, drawing)}
      [] OTHER            -> {}

Follow(r, next) ==
    /\ asks' = (asks \ {r}) \cup next
    /\ asked' = asked + Cardinality(next)

\* A button is freed when its handler ends, which two forms do not before they have
\* asked again.
Freed(r, ok) ==
    CASE r.kind = "support"                      -> {r.of}
      [] r.kind \in {"run", "validation"} /\ ok -> {}
      [] OTHER                                   -> {r.kind}

\* An answer arrives, or the request fails.
Deliver(r, ok) ==
    /\ r.kind # "catalog"
    /\ ok /\ Changing(r) => r.answer # Unread
    /\ CASE r.kind = "detail"  -> DrawDetail(r, ok)
         [] r.kind = "support" -> UNCHANGED <<panel, drawing, selected>>
         [] OTHER              -> DrawPanel(r, ok)
    /\ Follow(r, IF ok THEN Continued(r) ELSE {})
    /\ busy' = busy \ Freed(r, ok)
    /\ UNCHANGED <<view, stored>>

\* The lists of the geopolitics page arrive; the study of the first eligible event
\* is asked for before the page is drawn.
DeliverCatalog(r, eligible) ==
    /\ r.kind = "catalog"
    /\ IF eligible
       THEN panel' = panel /\ Follow(r, {NewRequest("page", r.of, drawing)})
       ELSE panel' = DrawPage(r, FALSE) /\ Follow(r, {})
    /\ UNCHANGED <<view, drawing, selected, busy, stored>>

DashNext ==
    \/ \E page \in Pages : SwitchTab(page)
    \/ RefreshPage \/ ToggleAutoRefresh \/ VisibilityChange \/ RefreshDiagnostics
    \/ \E d \in DecisionId : ShowDecision(d) \/ ReplayDecision(d)
    \/ LoadSelectedOutcomes \/ ClearCounterfactual \/ LoadPerformance
    \/ \E inputs \in BOOLEAN : RunCounterfactual(inputs) \/ RunSensitivity(inputs)
    \/ \E valid \in BOOLEAN : SubmitBacktest(valid)
    \/ \E n \in 1..MaxRuns : InspectRun(n)
    \/ SubmitOrder \/ SubmitRiskForm \/ SubmitGeoScenario \/ SubmitValidation \/ RunSimulation
    \/ SelectReaction("second")
    \/ \E r \in asks : Serve(r) \/ \E ok \in BOOLEAN : Deliver(r, ok) \/ DeliverCatalog(r, ok)

DashSpec == DashInit /\ [][DashNext]_dashVars

-----------------------------------------------------------------------------
(* Properties.                                                             *)

DashTypeOK ==
    /\ view.page \in Pages /\ view.auto \in BOOLEAN /\ view.visible \in BOOLEAN
    /\ DOMAIN panel = Panels /\ busy \subseteq Forms \cup {"lab"}
    /\ selected = NoDecision \/ selected \in DecisionId
    /\ stored \in 0..MaxRuns /\ asked \in Nat
    /\ \A r \in asks : r.n \in 1..asked

\* The realized outcomes under a decision are that decision's, in whatever order
\* decisions are opened and answers arrive (loadSelectedOutcomes, renderOutcome).
OutcomesUnderTheirDecision ==
    panel["outcome"].is = "shown" => panel["outcome"].of = panel["detail"].of

\* A panel that says it is loading or running has a request on the way that will
\* redraw it, and a disabled button one that will free it: no failure leaves either
\* waiting (the catch and finally clauses).
WaitingIsAnswered ==
    /\ \A p \in Panels : panel[p].is = "waiting" =>
        \E r \in asks : PanelOf(r) = p /\ Lands(r)
    /\ \A f \in busy : \E r \in asks : f \in Freed(r, FALSE)
=============================================================================
