---------------------------- MODULE DecisionAudit ----------------------------
(***************************************************************************)
(* The audit record of a final pre-trade decision: how the router gathers  *)
(* it, its replay from the record alone, and the counterfactuals that      *)
(* start from it.                                                          *)
(*                                                                         *)
(* The threads of a process share its risk engine and hold no lock, and    *)
(* its processes share Redis.  One thread routes the order.  It copies the *)
(* shared state into the engine and records the engine's fields; then      *)
(* check_constraints copies the state again, compares the fields one after *)
(* the other, leaves its figures in the engine, and the router takes them  *)
(* from there.  Between these steps other threads copy the shared state,   *)
(* end checks of their own and roll the engine to another day, and other   *)
(* processes change the shared state.                                      *)
(*                                                                         *)
(* The router's records use no heuristic, model or allocation; the fields  *)
(* of a scenario that address these never apply to them.  The guards up to *)
(* the risk check are one step: ExecutionRouter has them one by one.  The  *)
(* order's notional is size times price wherever the code stores it.  The  *)
(* throttle is left out: no code outside the tests sets it.  The daily PnL *)
(* is that of the order's day, 0 while the field is of another day.        *)
(*                                                                         *)
(* X_F is X with the fault F.                                              *)
(***************************************************************************)
EXTENDS ExecutionDecision, Sequences

CONSTANTS Held,          \* signed position in the order's market
          Quantity,      \* signed order sizes
          Quote,         \* prices, 0 for none
          Equity,        \* equity of the portfolio snapshot
          MaxLeverage, MarginPct, MaxDailyLoss,  \* risk limits
          Cooldown,      \* COOLDOWN_SECONDS, in ticks
          MaxSpread, MinDepth,                   \* limits of the execution agent
          Spread, Depth, \* microstructure readings
          Pnl,           \* daily PnL in the shared risk state
          Action,        \* times of allowed orders
          Stamp,         \* the time of this order, one of them
          MaxMoves       \* bound: changes by others, and broken connections

\* Quantities, prices and readings are numbers; before the first trade of a day
\* nothing is lost.
ASSUME AuditAssumption ==
    /\ Quantity \subseteq Int /\ Quote \subseteq Nat /\ Spread \subseteq Nat /\ Depth \subseteq Nat
    /\ Pnl \subseteq Int /\ 0 \in Pnl
    /\ Action \subseteq Nat \ {0} /\ Stamp \in Action /\ Cooldown \in Nat
    /\ MaxLeverage \in Nat \ {0} /\ MarginPct \in Nat /\ MaxDailyLoss \in Nat
    /\ MaxMoves \in Nat

VARIABLES
    riskShared, \* daily PnL and time of the last allowed order, in Redis
    redisUp,    \* runtime_state.available()
    riskCopy,   \* the same fields of the process's engine
    figures,    \* last_metrics of the engine: of this order's check, or
                \* finite or infinite ones of another's
    record,     \* what the router has gathered
    phase,      \* its next step
    durable,    \* the row of decision_audit, or NotStored
    disturbed,  \* history: what others changed between its record and its use
    moves

engineVars == <<riskCopy, figures>>
auditVars == <<riskShared, redisUp, engineVars, record, phase, durable, disturbed, moves>>

RiskStates == [pnl : Pnl, last : Action \cup {0}]
NotStored == [stored |-> FALSE]
Calm == [pnl |-> 0, last |-> 0]
NoAgent == [used |-> FALSE, spread |-> 0, depth |-> 0, integrity |-> "OK"]
NoRisk(order) == [used |-> FALSE, held |-> 0, equity |-> 0, margin |-> 0,
                  size |-> order.size, price |-> order.fill, state |-> Calm]

CheckFigures == {"own", "finite", "infinite"}
Phases == {"idle", "copy", "record pnl", "record last", "copy again", "check loss",
           "check cooldown", "result", "agent", "final", "done"}

AuditTypeOK ==
    /\ riskShared \in RiskStates /\ riskCopy \in RiskStates /\ redisUp \in BOOLEAN
    /\ figures \in CheckFigures /\ phase \in Phases
    /\ phase # "idle" => record.risk.state \in RiskStates /\ record.figures \in CheckFigures
    /\ disturbed \subseteq {"pnl", "last", "figures"} /\ moves \in 0..MaxMoves

AuditInit ==
    /\ riskShared = Calm /\ redisUp = TRUE /\ riskCopy = Calm /\ figures = "finite"
    /\ record = <<>> /\ phase = "idle" /\ durable = NotStored
    /\ disturbed = {} /\ moves = 0

Abs(x) == IF x < 0 THEN -x ELSE x
NotNegative(x) == IF x < 0 THEN 0 ELSE x

-----------------------------------------------------------------------------
(* The evaluators that the router and the replay share.                    *)

\* _exposure_delta: how much of the order closes the position.
Reduce(r) ==
    IF r.held * r.size >= 0 THEN 0
    ELSE IF Abs(r.size) < Abs(r.held) THEN Abs(r.size) ELSE Abs(r.held)

Increase(r) == Abs(r.size) - Reduce(r)

\* The reasons of check_constraints, with the figures that their texts show.
Reason(holds, text) == IF holds THEN {text} ELSE {}

\* A portfolio without equity has infinite leverage.
SizeReasons(r) ==
    LET opened == Increase(r) * r.price
        closed == Reduce(r) * r.price
        gross  == NotNegative(Abs(r.held) * r.price - closed) + opened
        margin == NotNegative(MaxLeverage * r.margin - closed) + opened
    IN IF Increase(r) = 0 THEN {}
       ELSE Reason(r.equity <= 0 \/ gross > MaxLeverage * r.equity, <<"leverage", gross>>)
            \cup Reason(r.equity <= 0 \/ 100 * margin > MarginPct * MaxLeverage * r.equity,
                        <<"margin", margin>>)

LossReasons(r, pnl) ==
    Reason(Increase(r) > 0 /\ pnl < -MaxDailyLoss, <<"daily loss", pnl>>)

CooldownReasons(r, last, mode) ==
    Reason(Increase(r) > 0 /\ mode = "live" /\ last > 0 /\ Stamp - last < Cooldown,
           <<"cooldown", Cooldown - (Stamp - last)>>)

RiskReasons(r, s, mode) ==
    SizeReasons(r) \cup LossReasons(r, s.pnl) \cup CooldownReasons(r, s.last, mode)

AgentAllows(a) ==
    PreTradeCheck([wide |-> a.spread > MaxSpread,
                   depth |-> IF a.depth = 0 THEN "unknown"
                             ELSE IF a.depth < MinDepth THEN "thin" ELSE "deep",
                   integrity |-> a.integrity])

Result(used, allowed) == IF used THEN Used(allowed) ELSE NotUsed

Guardrails(rec) == EvaluateDataGuardrails([rec.data EXCEPT !.size = Abs(@)])

\* evaluate_execution_boundary; the router combines the same three results.
FinalOf(rec, reasons) ==
    CombineExecutionDecision(Guardrails(rec), Result(rec.risk.used, reasons = {}),
                             Result(rec.agent.used, AgentAllows(rec.agent)),
                             rec.data.mode, rec.executor)

-----------------------------------------------------------------------------
(* The router.                                                             *)

\* Everything up to the data guardrails; quoted: the order names its price.
BeginDecision(data, quoted) ==
    /\ phase = "idle"
    /\ data.enabled => data.mode = "live"
    /\ data.fresh => data.found
    /\ data.found \/ quoted <=> data.fill # 0
    /\ LET rec == [data |-> data, quoted |-> quoted, risk |-> NoRisk(data),
                   agent |-> NoAgent, executor |-> TRUE, reasons |-> {}, figures |-> "own",
                   final |-> Verdict(FALSE, "none")]
       IN /\ record' = rec
          /\ phase' = IF Guardrails(rec).allowed THEN "copy" ELSE "final"
    /\ UNCHANGED <<riskShared, redisUp, engineVars, durable, disturbed, moves>>

\* _sync_shared_state, after "reads" answers: the PnL, then the last action.  A
\* field whose answer is missing stays as it is.
Synced(reads) ==
    [pnl  |-> IF reads >= 1 THEN riskShared.pnl ELSE riskCopy.pnl,
     last |-> IF reads = 2 /\ riskShared.last # 0 THEN riskShared.last ELSE riskCopy.last]

\* The connection may break between answers.
Answered(reads) ==
    /\ IF redisUp THEN reads < 2 => moves < MaxMoves ELSE reads = 0
    /\ redisUp' = (reads = 2)
    /\ moves' = IF redisUp /\ reads < 2 THEN moves + 1 ELSE moves

CopiedFirst_Skipped(reads) == riskCopy
CopiedFirst(reads) == Synced(reads)

\* The positions, the portfolio and the first line of _risk_replay_spec.
CopyForRecord(held, equity, margin, reads) ==
    /\ phase = "copy"
    /\ Answered(reads)
    /\ riskCopy' = CopiedFirst(reads)
    /\ record' = [record EXCEPT !.risk.used = TRUE, !.risk.held = held,
                      !.risk.equity = equity, !.risk.margin = margin]
    /\ phase' = "record pnl"
    /\ UNCHANGED <<riskShared, figures, durable, disturbed>>

\* The rest of it reads the engine's fields.
RecordPnl ==
    /\ phase = "record pnl"
    /\ record' = [record EXCEPT !.risk.state.pnl = riskCopy.pnl]
    /\ phase' = "record last"
    /\ UNCHANGED <<riskShared, redisUp, engineVars, durable, disturbed, moves>>

RecordLast ==
    /\ phase = "record last"
    /\ record' = [record EXCEPT !.risk.state.last = riskCopy.last]
    /\ phase' = "copy again"
    /\ UNCHANGED <<riskShared, redisUp, engineVars, durable, disturbed, moves>>

\* check_constraints: it copies the shared state again, compares the loss, then
\* the time of the last action, and leaves its figures and the time of what it
\* allowed.
CopyForCheck(reads) ==
    /\ phase = "copy again"
    /\ Answered(reads)
    /\ riskCopy' = Synced(reads)
    /\ phase' = "check loss"
    /\ UNCHANGED <<riskShared, figures, record, durable, disturbed>>

CheckLoss ==
    /\ phase = "check loss"
    /\ record' = [record EXCEPT !.reasons =
                    SizeReasons(record.risk) \cup LossReasons(record.risk, riskCopy.pnl)]
    /\ phase' = "check cooldown"
    /\ UNCHANGED <<riskShared, redisUp, engineVars, durable, disturbed, moves>>

CheckCooldown ==
    LET r == record.risk
        reasons == record.reasons \cup CooldownReasons(r, riskCopy.last, record.data.mode)
        started == reasons = {} /\ ~(Reduce(r) > 0 /\ Increase(r) = 0)
    IN /\ phase = "check cooldown"
       /\ record' = [record EXCEPT !.reasons = reasons]
       /\ figures' = "own"
       /\ riskCopy' = IF started THEN [riskCopy EXCEPT !.last = Stamp] ELSE riskCopy
       /\ riskShared' = IF started /\ redisUp THEN [riskShared EXCEPT !.last = Stamp]
                                              ELSE riskShared
       /\ phase' = "result"
       /\ UNCHANGED <<redisUp, durable, disturbed, moves>>

\* The router takes the figures from the engine.
TakeResult ==
    /\ phase = "result"
    /\ record' = [record EXCEPT !.figures = figures]
    /\ phase' = IF record.reasons = {} /\ record.data.mode = "live" THEN "agent" ELSE "final"
    /\ UNCHANGED <<riskShared, redisUp, engineVars, durable, disturbed, moves>>

AskAgent(a) ==
    /\ phase = "agent" /\ a.used
    /\ record' = [record EXCEPT !.agent = a]
    /\ phase' = "final"
    /\ UNCHANGED <<riskShared, redisUp, engineVars, durable, disturbed, moves>>

\* The risk metrics of a portfolio without equity are infinite, and jsonb
\* takes no Infinity.
Storable(rec) ==
    rec.risk.used => IF rec.figures = "own" THEN rec.risk.equity > 0 ELSE rec.figures = "finite"

Decision(executor) ==
    LET rec == [record EXCEPT !.executor = executor]
    IN [rec EXCEPT !.final = FinalOf(rec, rec.reasons)]

\* _emit_pre_trade_decision and _persist_final_decision.  Only the last call
\* of a live order looks for an executor.
RecordDecision(executor, stored) ==
    /\ phase = "final"
    /\ ~executor => record.agent.used /\ AgentAllows(record.agent)
    /\ record' = Decision(executor)
    /\ durable' = IF stored /\ Storable(record) THEN record' ELSE NotStored
    /\ phase' = "done"
    /\ UNCHANGED <<riskShared, redisUp, engineVars, disturbed, moves>>

-----------------------------------------------------------------------------
(* The others.  What they do once the result is taken reaches nothing of   *)
(* the record.                                                             *)

Gathering == phase \notin {"agent", "final", "done"}

\* What a check would find in the engine after copying the shared state.
Effective == IF redisUp THEN Synced(2) ELSE riskCopy

\* A field is pending from the copy for the record until the check compares it,
\* the figures until the router takes them.
Pending(f) ==
    CASE f = "pnl"  -> phase \in {"record pnl", "record last", "copy again", "check loss"}
      [] f = "last" -> phase \in {"record pnl", "record last", "copy again", "check loss",
                                  "check cooldown"}
      [] OTHER      -> phase = "result"

Disturbs ==
    disturbed' = disturbed \cup
        {f \in {"pnl", "last"} :
            /\ Pending(f)
            /\ Effective'[f] # Effective[f] \/ riskCopy'[f] # riskCopy[f]}
        \cup {f \in {"figures"} : Pending(f) /\ figures' # figures}

\* Another process trades, books a loss, or its day ends; Redis goes and comes.
MoveSharedState(s, up) ==
    /\ Gathering /\ moves < MaxMoves
    /\ riskShared' = s /\ redisUp' = up
    /\ <<s, up>> # <<riskShared, redisUp>>
    /\ moves' = moves + 1
    /\ UNCHANGED <<engineVars, record, phase, durable>>
    /\ Disturbs

\* Another thread of the process copies a field for a check of its own, or for
\* a status request.
ThreadCopies(f) ==
    /\ Gathering /\ redisUp
    /\ riskCopy' = [riskCopy EXCEPT ![f] = Synced(2)[f]]
    /\ UNCHANGED <<riskShared, redisUp, figures, record, phase, durable, moves>>
    /\ Disturbs

\* It ends its check: of an order of another day, "rolls", the PnL field is
\* rolled over; an order it allows leaves its time, "time".
ThreadChecks(rolls, time, theirs) ==
    /\ Gathering /\ moves < MaxMoves
    /\ riskCopy' = [pnl |-> IF rolls THEN 0 ELSE riskCopy.pnl,
                    last |-> IF time = 0 THEN riskCopy.last ELSE time]
    /\ riskShared' = IF redisUp /\ time # 0 THEN [riskShared EXCEPT !.last = time] ELSE riskShared
    /\ figures' = theirs
    /\ moves' = moves + 1
    /\ UNCHANGED <<redisUp, record, phase, durable>>
    /\ Disturbs

-----------------------------------------------------------------------------
(* replay_decision: from the row alone, with an engine of its own that     *)
(* starts from the recorded state and reaches no shared one.               *)

ReplayedReasons(rec) ==
    IF rec.risk.used THEN RiskReasons(rec.risk, rec.risk.state, rec.data.mode) ELSE {}

Recomputed(rec) ==
    LET reasons == ReplayedReasons(rec)
    IN [rec EXCEPT !.reasons = reasons, !.figures = "own", !.final = FinalOf(rec, reasons)]

ExactMatch(rec) == Recomputed(rec) = rec

-----------------------------------------------------------------------------
(* Counterfactuals.                                                        *)

NumericFields == {"fill_price", "order_size", "spread_bps", "liquidity_depth", "daily_pnl"}

\* A missing order price is no number: the baseline is unavailable.
RecordedValues(rec, f) ==
    CASE f = "fill_price" -> IF rec.quoted THEN {rec.data.fill} ELSE {}
      [] f = "order_size" -> {Abs(rec.data.size)}
      [] f = "spread_bps" -> IF rec.agent.used THEN {rec.agent.spread} ELSE {}
      [] f = "liquidity_depth" -> IF rec.agent.used THEN {rec.agent.depth} ELSE {}
      [] f = "daily_pnl" -> IF rec.risk.used THEN {rec.risk.state.pnl} ELSE {}

ValidScenario(f, v) == f \in {"fill_price", "order_size"} => v > 0

Sized(rec, v) == IF rec.data.size < 0 THEN -v ELSE v

\* _apply_execution: every place that a recorded field has a copy in.
Scenario(rec, f, v) ==
    CASE f = "fill_price" -> [rec EXCEPT !.data.fill = v, !.risk.price = v]
      [] f = "order_size" -> [rec EXCEPT !.data.size = Sized(rec, v), !.risk.size = Sized(rec, v)]
      [] f = "spread_bps" -> [rec EXCEPT !.agent.spread = v]
      [] f = "liquidity_depth" -> [rec EXCEPT !.agent.depth = v]
      [] f = "daily_pnl" -> [rec EXCEPT !.risk.state.pnl = v]

Applies(rec, f) ==
    CASE f \in {"spread_bps", "liquidity_depth"} -> rec.agent.used
      [] f = "daily_pnl" -> rec.risk.used
      [] OTHER -> TRUE

\* counterfactual_from_prepared: a field that addresses nothing in the record
\* leaves it as it is.
Overridden(rec, f, v) == IF Applies(rec, f) THEN Scenario(rec, f, v) ELSE rec

Allowed(rec) == Recomputed(rec).final.allowed

-----------------------------------------------------------------------------

DataSpecs ==
    [mode : {"paper", "live"}, enabled : BOOLEAN, valid : BOOLEAN, size : Quantity,
     fill : Quote, found : BOOLEAN, fresh : BOOLEAN, integrity : {"OK", "WARNING"}]

AuditNext ==
    \/ \E data \in DataSpecs, quoted \in BOOLEAN : BeginDecision(data, quoted)
    \/ \E held \in Held, equity \in Equity, margin \in {0, 1}, reads \in 0..2 :
           CopyForRecord(held, equity, margin, reads)
    \/ RecordPnl \/ RecordLast
    \/ \E reads \in 0..2 : CopyForCheck(reads)
    \/ CheckLoss \/ CheckCooldown \/ TakeResult
    \/ \E s \in Spread, d \in Depth, i \in {"OK", "WARNING"} :
           AskAgent([used |-> TRUE, spread |-> s, depth |-> d, integrity |-> i])
    \/ \E executor, stored \in BOOLEAN : RecordDecision(executor, stored)
    \/ \E s \in RiskStates, up \in BOOLEAN : MoveSharedState(s, up)
    \/ \E f \in {"pnl", "last"} : ThreadCopies(f)
    \/ \E rolls \in BOOLEAN, time \in Action \cup {0}, theirs \in {"finite", "infinite"} :
           ThreadChecks(rolls, time, theirs)

AuditSpec == AuditInit /\ [][AuditNext]_auditVars

\* Whether the decision on record depends on a field: the daily PnL and the
\* last action bear on new exposure, the latter in live mode, and the figures
\* of the check are on every record.
Matters(rec, f) ==
    /\ rec.risk.used
    /\ f # "figures" => Increase(rec.risk) > 0
    /\ f = "last" => rec.data.mode = "live"

\* A stored decision replays exactly, reasons and figures included, whatever
\* else others do, unless they change a field that it depends on between its
\* record and its use.
DecisionReplays ==
    durable # NotStored => ExactMatch(durable) \/ \E f \in disturbed : Matters(durable, f)

\* "exact replay, deterministic final-decision recomputation": the verdict that a
\* replay arrives at is the one on record, whatever others do.
VerdictRecomputes == durable # NotStored => Allowed(durable) = durable.final.allowed
=============================================================================
