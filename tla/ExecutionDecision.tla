------------------------- MODULE ExecutionDecision -------------------------
(***************************************************************************)
(* The pure decision helpers that the router uses at run time and that an  *)
(* audit replay uses again on the recorded inputs: data guardrails, the    *)
(* execution agent's check, and their combination into one ALLOW or BLOCK. *)
(*                                                                         *)
(* A result is [allowed, stage]; the wording of reasons is left out.       *)
(***************************************************************************)
EXTENDS Integers

CONSTANTS MaxNotional,  \* MAX_ORDER_NOTIONAL
          BlockLive     \* PRICE_INTEGRITY_BLOCK_LIVE

ASSUME DecisionAssumption == MaxNotional \in Nat /\ BlockLive \in BOOLEAN

Verdict(allowed, stage) == [allowed |-> allowed, stage |-> stage]

NotUsed == [status |-> "not_used", allowed |-> TRUE]
Used(allowed) == [status |-> "used", allowed |-> allowed]

Stale(spec) == spec.found /\ ~spec.fresh

\* evaluate_data_guardrails: the first guard that fails names the stage.
EvaluateDataGuardrails_NoPrice(spec) ==
    Verdict(spec.valid /\ spec.fill * spec.size <= MaxNotional, "data_guardrails")

EvaluateDataGuardrails(spec) ==
    LET live == spec.mode = "live" IN
    IF ~spec.valid THEN Verdict(FALSE, "request_validation")
    ELSE IF live /\ ~spec.enabled THEN Verdict(FALSE, "live_execution_gate")
    ELSE IF ~spec.found /\ spec.fill = 0 THEN Verdict(FALSE, "price_availability")
    ELSE IF MaxNotional > 0 /\ spec.fill * spec.size > MaxNotional
      THEN Verdict(FALSE, "max_notional")
    ELSE IF live /\ Stale(spec) THEN Verdict(FALSE, "price_freshness")
    ELSE IF live /\ BlockLive /\ spec.integrity # "OK" THEN Verdict(FALSE, "price_integrity")
    ELSE Verdict(TRUE, "data_guardrails")

\* ExecutionAgent.pre_trade_check; a depth of 0 is an unknown one.
PreTradeCheck(state) ==
    /\ ~state.wide
    /\ state.depth # "thin"
    /\ state.integrity # "WARNING"

\* combine_execution_decision.
CombineExecutionDecision(data, risk, agent, mode, executor) ==
    IF ~data.allowed THEN data
    ELSE IF risk.status # "not_used" /\ ~risk.allowed THEN Verdict(FALSE, "risk")
    ELSE IF agent.status # "not_used" /\ ~agent.allowed THEN Verdict(FALSE, "execution_agent")
    ELSE IF mode = "live" /\ ~executor THEN Verdict(FALSE, "executor_availability")
    ELSE Verdict(TRUE, "pre_trade_complete")
=============================================================================
