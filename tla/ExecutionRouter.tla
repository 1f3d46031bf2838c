-------------------------- MODULE ExecutionRouter --------------------------
(***************************************************************************)
(* One call of ExecutionRouter.route_order: the guards in the order the    *)
(* code takes them, each with its early return, the final pre-trade        *)
(* decision it records on the way out, and the submission.                 *)
(*                                                                         *)
(* What a guard needs is read when the guard runs, so any value is         *)
(* possible.  A decision is computed by ExecutionDecision from what has    *)
(* been read so far, while the returns are the router's own: the two are   *)
(* written twice in the code and have to agree.                            *)
(*                                                                         *)
(* X_F is X with the fault F; no action uses it.                           *)
(***************************************************************************)
EXTENDS ExecutionDecision

CONSTANTS Modes,        \* values EXECUTION_MODE may have been started with
          Size, Fill,   \* order sizes, and prices with 0 for none
          None          \* no decision recorded

Stages == {"request_validation", "live_execution_gate", "price_availability", "max_notional",
           "price_freshness", "price_integrity", "data_guardrails", "risk", "execution_agent",
           "executor_availability", "pre_trade_complete"}
Verdicts == [allowed : BOOLEAN, stage : Stages]

ASSUME RouterAssumption ==
    /\ Modes \subseteq {"paper", "live"}
    /\ Size \subseteq Nat \ {0}
    /\ Fill \subseteq Nat
    /\ None \notin Verdicts

VARIABLES
    enabled,    \* LIVE_EXECUTION_ENABLED
    linked,     \* order_context has a decision_id: the call comes from the API
    closes,     \* the order is a pure reduction of the positions held
    spec,       \* data_spec as built so far
    risk, agent,\* component results; NotUsed until the component ran
    executor,   \* executor_available
    pc,         \* the next guard
    stopped,    \* where the router returned
    outcome,    \* status returned, or "error" for an exception
    audit       \* final decision recorded, None if that failed

config == <<enabled, linked, closes>>
vars == <<config, spec, risk, agent, executor, pc, stopped, outcome, audit>>

Integrity == {"OK", "WARNING", "UNKNOWN"}
Spec_ == [mode : Modes, enabled : BOOLEAN, valid : BOOLEAN, size : Size, fill : Fill,
          found : BOOLEAN, fresh : BOOLEAN, integrity : Integrity]

Results == {NotUsed, Used(TRUE), Used(FALSE)}

TypeOK ==
    /\ enabled \in BOOLEAN /\ linked \in BOOLEAN /\ closes \in BOOLEAN
    /\ spec \in Spec_
    /\ risk \in Results /\ agent \in Results
    /\ executor \in BOOLEAN
    /\ pc \in {"validate", "gate", "price", "availability", "notional", "freshness",
               "integrity", "risk", "agent", "final", "submit", "done"}
    /\ stopped \in Stages \cup {"none"}
    /\ outcome \in {"none", "blocked", "agent_blocked", "placed", "unknown", "error"}
    /\ audit \in Verdicts \cup {None}

\* base_data_spec: no price has been looked up yet.
Init ==
    /\ enabled \in BOOLEAN /\ linked \in BOOLEAN /\ closes \in BOOLEAN
    /\ spec \in {s \in Spec_ : /\ s.enabled = enabled
                               /\ ~s.found /\ s.fresh /\ s.integrity = "UNKNOWN"}
    /\ risk = NotUsed /\ agent = NotUsed
    /\ executor = TRUE
    /\ pc = "validate"
    /\ stopped = "none" /\ outcome = "none" /\ audit = None

Live == spec.mode = "live"

-----------------------------------------------------------------------------
(* _emit_pre_trade_decision.                                               *)

\* The decision from the results at hand.
Decide(r, a, x) ==
    CombineExecutionDecision(EvaluateDataGuardrails(spec), r, a, spec.mode, x)

\* An allowed live order of the API may not go on without its record, unless
\* the recorded risk inputs show a pure reduction.
Raises_Never(d, recorded) == FALSE
Raises(d, recorded) ==
    Live /\ linked /\ d.allowed /\ ~recorded /\ ~(risk.status # "not_used" /\ closes)

\* Record d, then return status at this stage.
Return(d, stage, status) ==
    \E recorded \in BOOLEAN :
        /\ audit' = IF recorded THEN d ELSE None
        /\ outcome' = IF Raises(d, recorded) THEN "error" ELSE status
        /\ stopped' = stage
        /\ pc' = "done"

Pass(next) == pc' = next /\ UNCHANGED <<stopped, outcome, audit>>

\* A guard on the data read so far.
Guard(from, refuses, stage, next) ==
    /\ pc = from
    /\ IF refuses THEN Return(Decide(risk, agent, executor), stage, "blocked")
                  ELSE Pass(next)

-----------------------------------------------------------------------------
(* route_order.                                                            *)

Validate ==
    /\ Guard("validate", ~spec.valid, "request_validation", "gate")
    /\ UNCHANGED <<config, spec, risk, agent, executor>>

LiveGate ==
    /\ Guard("gate", Live /\ ~spec.enabled, "live_execution_gate", "price")
    /\ UNCHANGED <<config, spec, risk, agent, executor>>

\* The price of the request, or the one that was looked up.
Priced_None(price, found) == IF price # 0 THEN price ELSE IF found = 0 THEN None ELSE found
Priced(price, found) == IF price # 0 THEN price ELSE found

\* _get_live_price and _get_data_context.  An order without a price takes the
\* one found; a price that was not found is 0 and not fresh.
ReadPrice(found, fresh, price, integrity) ==
    /\ pc = "price"
    /\ found <=> price # 0
    /\ fresh => found
    /\ spec' = [spec EXCEPT !.found = found, !.fresh = fresh, !.integrity = integrity,
                            !.fill = Priced(@, price)]
    /\ Pass("availability")
    /\ UNCHANGED <<config, risk, agent, executor>>

CheckAvailability ==
    /\ Guard("availability", ~spec.found /\ spec.fill = 0, "price_availability", "notional")
    /\ UNCHANGED <<config, spec, risk, agent, executor>>

CheckNotional ==
    /\ Guard("notional", spec.fill * spec.size > MaxNotional, "max_notional", "freshness")
    /\ UNCHANGED <<config, spec, risk, agent, executor>>

\* Paper orders go on with stale data, marked as degraded.
CheckFreshness ==
    /\ Guard("freshness", Live /\ Stale(spec), "price_freshness", "integrity")
    /\ UNCHANGED <<config, spec, risk, agent, executor>>

CheckIntegrity ==
    /\ Guard("integrity", Live /\ BlockLive /\ spec.integrity # "OK", "price_integrity", "risk")
    /\ UNCHANGED <<config, spec, risk, agent, executor>>

\* RiskEngine.check_constraints: no limit applies to a pure reduction.
CheckRisk(approved) ==
    /\ pc = "risk"
    /\ closes => approved
    /\ risk' = Used(approved)
    /\ IF approved THEN Pass(IF Live THEN "agent" ELSE "final")
       ELSE Return(Decide(risk', agent, executor), "risk", "blocked")
    /\ UNCHANGED <<config, spec, agent, executor>>

\* The agent reads the integrity snapshot again.
CheckAgent(state) ==
    /\ pc = "agent"
    /\ agent' = Used(PreTradeCheck(state))
    /\ IF agent'.allowed THEN Pass("final")
       ELSE Return(Decide(risk, agent', executor), "execution_agent", "agent_blocked")
    /\ UNCHANGED <<config, spec, risk, executor>>

\* _get_live_executor, the final decision and its record.
FinalDecision(available) ==
    /\ pc = "final"
    /\ available => spec.mode = "paper" \/ spec.enabled
    /\ spec.mode = "paper" => available
    /\ executor' = available
    /\ LET d == Decide(risk, agent, available) IN
       IF ~d.allowed THEN Return(d, "executor_availability", "blocked")
       ELSE \E recorded \in BOOLEAN :
              /\ audit' = IF recorded THEN d ELSE None
              /\ stopped' = "pre_trade_complete"
              /\ IF Raises(d, recorded)
                   THEN pc' = "done" /\ outcome' = "error"
                   ELSE pc' = "submit" /\ UNCHANGED outcome
    /\ UNCHANGED <<config, spec, risk, agent>>

\* A live submission that fails may have reached the venue all the same; it
\* is never turned into a paper fill.
Submit(status) ==
    /\ pc = "submit"
    /\ status = "unknown" => Live
    /\ pc' = "done"
    /\ outcome' = status
    /\ UNCHANGED <<config, spec, risk, agent, executor, stopped, audit>>

Next ==
    \/ Validate \/ LiveGate
    \/ \E found, fresh \in BOOLEAN, price \in Fill, i \in Integrity : ReadPrice(found, fresh, price, i)
    \/ CheckAvailability \/ CheckNotional \/ CheckFreshness \/ CheckIntegrity
    \/ \E approved \in BOOLEAN : CheckRisk(approved)
    \/ \E wide \in BOOLEAN, depth \in {"unknown", "thin", "deep"}, i \in Integrity :
           CheckAgent([wide |-> wide, depth |-> depth, integrity |-> i])
    \/ \E available \in BOOLEAN : FinalDecision(available)
    \/ \E status \in {"placed", "unknown"} : Submit(status)

Spec == Init /\ [][Next]_vars

-----------------------------------------------------------------------------
(* Properties.                                                             *)

Submitted == outcome \in {"placed", "unknown"}

\* The recorded decision is the one the router acted on: it allows exactly
\* what was submitted and names the guard that refused the rest, although
\* router and decision helpers each have guards of their own.
AuditTellsOutcome ==
    pc = "done" /\ audit # None =>
        /\ audit.allowed <=> Submitted
        /\ audit.stage = stopped

\* A live order that reaches a venue passed every gate, on the data of one
\* moment each, and new exposure from the API is on record first.
LiveSubmissionGuarded ==
    Submitted /\ Live =>
        /\ enabled /\ executor
        /\ spec.fill # 0 /\ ~Stale(spec)
        /\ BlockLive => spec.integrity = "OK"
        /\ risk = Used(TRUE) /\ agent = Used(TRUE)
        /\ linked /\ ~closes => audit # None
=============================================================================
