----------------------------- MODULE DeskProofs -----------------------------
(***************************************************************************)
(* The trading desk: the router's decision, what is kept of it, the books  *)
(* its fills land in, the runs that rehearse them and the model that       *)
(* predicts, for any modes, markets, threads, sizes, prices, models and    *)
(* processes.                                                              *)
(*                                                                         *)
(* The router.  What it records of its final decision is what it did, and  *)
(* a live order is submitted only behind every gate.  The invariant says   *)
(* of each guard that its condition holds from there on (Passed), of each  *)
(* component result that it is there once the router has come past it      *)
(* (Checked), and of the last stretch that the record was made (OnRecord). *)
(* The router refuses any notional above MAX_ORDER_NOTIONAL, while the     *)
(* decision takes a limit of 0 for none: the record is only faithful when  *)
(* there is a limit.                                                       *)
(*                                                                         *)
(* The record.  What is stored of a decision replays.  Other threads write *)
(* the engine that the router records and checks, so each field goes its   *)
(* own way: from its record until the check compares it, it is the         *)
(* engine's, and copying the shared state again would not change it,       *)
(* unless somebody disturbed it (FieldsKept); the comparisons made so far  *)
(* are then those of the replay (Compared), which computes the rest by the *)
(* same functions as the router.                                           *)
(*                                                                         *)
(* The books.  A fill is split by its read of the position, its write and  *)
(* its row.  The invariant relates the entry a thread holds between them   *)
(* to the position: before the write, in a market without a race, it is    *)
(* the position plus the order (SizesAgree); after it, as long as no other *)
(* thread has written, it is the position (HeldIsWritten).  The realised   *)
(* profit is the total of what the markets explain, the profits on their   *)
(* way to it left out (ProfitExplained); a total over a finite set adds    *)
(* its members one by one (TotalAdds).                                     *)
(*                                                                         *)
(* The backtester.  Every function a historical run is built from keeps    *)
(* its fills later than its decisions (Timely) and its capital explained   *)
(* by them (Balanced), and every day of a synthetic run adds to its        *)
(* capital what it adds to its parts (Explained).                          *)
(*                                                                         *)
(* Profits balance as long as no average entry is rounded (NothingRounded, *)
(* NoRunRounded).                                                          *)
(*                                                                         *)
(* The registry.  At most one model is active, activations never wait for  *)
(* each other in a ring, and a promotion reaches the process that served   *)
(* it.  Why one model is active although a first promotion finds no active *)
(* row to lock: whoever is about to commit archives every active row but   *)
(* its own (CommitReplaces), only a commit changes which rows are active,  *)
(* and the unique index lets one transaction come to its commit at a time  *)
(* (CommitsAlone).  Why they proceed: who holds an active row is past its  *)
(* look for rivals (HoldersOfActive), and holds the only row it could wait *)
(* for.                                                                    *)
(*                                                                         *)
(* The sweeps.  Seen from the baseline, the nearest pair of neighbours     *)
(* that decide differently is where the first other decision is            *)
(* (NearestIsFirst).                                                       *)
(*                                                                         *)
(* The report.  The groups of a kind of cohort part the decisions of the   *)
(* window (FiledCount, NamedOnce), and a group with a name is of a fresh   *)
(* row (LabelsAreFresh).  What a step adds to the tables comes after every *)
(* window that has closed (AddedLater), and nothing reported of a closed   *)
(* window reads so far (ClosedLoads).                                      *)
(***************************************************************************)
EXTENDS Desk, FiniteSetTheorems, WellFoundedInduction, TLAPS

-----------------------------------------------------------------------------
(* The router.                                                             *)

\* The guards in their order, and the places behind each of them.
PastValidation   == pc \notin {"validate", "done"}
PastGate         == PastValidation /\ pc # "gate"
PastPrice        == PastGate /\ pc # "price"
PastAvailability == PastPrice /\ pc # "availability"
PastNotional     == PastAvailability /\ pc # "notional"
PastFreshness    == PastNotional /\ pc # "freshness"
PastIntegrity    == PastFreshness /\ pc # "integrity"

NoPrice == ~spec.found /\ spec.fill = 0
Unsafe == BlockLive /\ spec.integrity # "OK"

Passed ==
    /\ PastValidation => spec.valid
    /\ PastGate /\ Live => spec.enabled
    /\ PastPrice /\ spec.found => spec.fill # 0
    /\ PastAvailability => ~NoPrice
    /\ PastNotional => ~(spec.fill * spec.size > MaxNotional)
    /\ PastFreshness /\ Live => ~Stale(spec)
    /\ PastIntegrity /\ Live => ~Unsafe

Checked ==
    /\ spec.enabled = enabled
    /\ pc \notin {"agent", "final", "submit", "done"} => risk = NotUsed
    /\ pc \in {"agent", "final", "submit"} => risk = Used(TRUE)
    /\ pc \notin {"final", "submit", "done"} => agent = NotUsed
    /\ pc \in {"final", "submit"} => agent = IF Live THEN Used(TRUE) ELSE NotUsed
    /\ pc \notin {"submit", "done"} => executor
    /\ pc = "submit" /\ Live => executor
    /\ pc # "done" => outcome = "none"

\* The record of an order about to be submitted.
OnRecord ==
    pc = "submit" =>
        /\ stopped = "pre_trade_complete"
        /\ audit \in {None, Verdict(TRUE, "pre_trade_complete")}
        /\ Live /\ linked /\ ~closes => audit # None

Faithful == MaxNotional > 0 => AuditTellsOutcome

\* The agent is only asked about live orders.
OnlyLiveAsks == pc = "agent" => Live

RouterIInv ==
    TypeOK /\ Passed /\ Checked /\ OnlyLiveAsks /\ OnRecord /\ Faithful /\ LiveSubmissionGuarded

-----------------------------------------------------------------------------
(* What the helpers return.                                                *)

\* The data guardrails give a verdict.
LEMMA GuardrailsType ==
  EvaluateDataGuardrails(spec) \in Verdicts
  BY DEF EvaluateDataGuardrails, Verdict, Verdicts, Stages

\* So does the final decision.
LEMMA DecideType ==
  ASSUME NEW r \in Results, NEW a \in Results, NEW x \in BOOLEAN
  PROVE  Decide(r, a, x) \in Verdicts
<1> DEFINE data == EvaluateDataGuardrails(spec)
<1>1. data \in Verdicts
  BY GuardrailsType
<1>2. \/ Decide(r, a, x) = data
      \/ \E allowed \in BOOLEAN, stage \in Stages : Decide(r, a, x) = Verdict(allowed, stage)
  BY DEF Decide, CombineExecutionDecision, Stages
<1> QED
  BY <1>1, <1>2 DEF Verdicts, Verdict

\* A guardrail that fails is the decision, whatever the components said.
LEMMA GuardrailDecides ==
  ASSUME NEW r, NEW a, NEW x, NEW stage,
         EvaluateDataGuardrails(spec) = Verdict(FALSE, stage)
  PROVE  Decide(r, a, x) = Verdict(FALSE, stage)
  BY DEF Decide, CombineExecutionDecision, Verdict

\* Behind the last guard on the data, the guardrails allow the order.
LEMMA GuardrailsAllow ==
  ASSUME Passed, PastIntegrity
  PROVE  EvaluateDataGuardrails(spec) = Verdict(TRUE, "data_guardrails")
  BY DEF Passed, PastIntegrity, PastFreshness, PastNotional, PastAvailability, PastPrice, PastGate,
     PastValidation, EvaluateDataGuardrails, NoPrice, Unsafe, Live

\* Returning a refusal: the decision, if recorded, is the refusal.
LEMMA ReturnStep ==
  ASSUME NEW d \in Verdicts, NEW stage \in Stages, NEW status \in {"blocked", "agent_blocked"},
         Return(d, stage, status)
  PROVE  /\ pc' = "done" /\ stopped' = stage
         /\ outcome' \in {"blocked", "agent_blocked", "error"}
         /\ audit' \in Verdicts \cup {None}
         /\ LiveSubmissionGuarded'
         /\ d = Verdict(FALSE, stage) => AuditTellsOutcome'
<1>1. PICK recorded \in BOOLEAN :
        /\ audit' = IF recorded THEN d ELSE None
        /\ outcome' = IF Raises(d, recorded) THEN "error" ELSE status
        /\ stopped' = stage
        /\ pc' = "done"
  BY DEF Return
<1>2. outcome' \in {"blocked", "agent_blocked", "error"}
  BY <1>1
<1>3. audit' \in {d, None}
  BY <1>1
<1>4. ~Submitted'
  BY <1>2 DEF Submitted
<1>5. ASSUME d = Verdict(FALSE, stage) PROVE AuditTellsOutcome'
  BY <1>1, <1>3, <1>4, <1>5 DEF AuditTellsOutcome, Verdict
<1> QED
  BY <1>1, <1>2, <1>3, <1>4, <1>5 DEF LiveSubmissionGuarded

\* A guard either returns the decision of the moment or lets the order pass.
LEMMA GuardStep ==
  ASSUME TypeOK, NEW from, NEW refuses, NEW stage \in Stages, NEW next,
         Guard(from, refuses, stage, next)
  PROVE  /\ pc = from
         /\ \/ /\ refuses /\ pc' = "done" /\ stopped' = stage
               /\ outcome' \in {"blocked", "agent_blocked", "error"}
               /\ audit' \in Verdicts \cup {None}
               /\ LiveSubmissionGuarded'
               /\ Decide(risk, agent, executor) = Verdict(FALSE, stage) => AuditTellsOutcome'
            \/ ~refuses /\ Pass(next)
<1>1. Decide(risk, agent, executor) \in Verdicts
  BY DecideType DEF TypeOK
<1>2. CASE refuses
  <2>1. Return(Decide(risk, agent, executor), stage, "blocked")
    BY <1>2 DEF Guard
  <2> QED
    BY <1>1, <1>2, <2>1, ReturnStep DEF Guard
<1>3. CASE ~refuses
  BY <1>3 DEF Guard
<1> QED
  BY <1>2, <1>3

\* Where a guard refuses, the guardrails name the same stage.
LEMMA Refusals ==
  ASSUME TypeOK, Passed, NEW stage,
         \/ stage = "request_validation" /\ ~spec.valid
         \/ stage = "live_execution_gate" /\ pc = "gate" /\ Live /\ ~spec.enabled
         \/ stage = "price_availability" /\ pc = "availability" /\ NoPrice
         \/ stage = "max_notional" /\ pc = "notional"
              /\ MaxNotional > 0 /\ spec.fill * spec.size > MaxNotional
         \/ stage = "price_freshness" /\ pc = "freshness" /\ Live /\ Stale(spec)
         \/ stage = "price_integrity" /\ pc = "integrity" /\ Live /\ Unsafe
  PROVE  Decide(risk, agent, executor) = Verdict(FALSE, stage)
<1> SUFFICES EvaluateDataGuardrails(spec) = Verdict(FALSE, stage)
  BY GuardrailDecides
<1> QED
  BY DEF Passed, PastFreshness, PastNotional, PastAvailability, PastPrice, PastGate,
     PastValidation, EvaluateDataGuardrails, NoPrice, Unsafe, Live

\* Reading the price fills in the price and the status and nothing else.
LEMMA ReadPriceSpec ==
  ASSUME TypeOK, NEW found \in BOOLEAN, NEW fresh \in BOOLEAN, NEW price \in Fill,
         NEW i \in Integrity, ReadPrice(found, fresh, price, i)
  PROVE  /\ spec' \in Spec_
         /\ spec'.valid = spec.valid /\ spec'.enabled = spec.enabled /\ spec'.mode = spec.mode
         /\ spec'.found => spec'.fill # 0
<1>1. Priced(spec.fill, price) \in Fill /\ (found => Priced(spec.fill, price) # 0)
  BY DEF Priced, ReadPrice, TypeOK, Spec_
<1>2. spec' = [spec EXCEPT !.found = found, !.fresh = fresh, !.integrity = i,
                           !.fill = Priced(spec.fill, price)]
  BY DEF ReadPrice
<1>3. spec' = [mode |-> spec.mode, enabled |-> spec.enabled, valid |-> spec.valid,
               size |-> spec.size, fill |-> Priced(spec.fill, price), found |-> found,
               fresh |-> fresh, integrity |-> i]
  BY <1>2 DEF TypeOK, Spec_
<1> QED
  BY <1>1, <1>3 DEF TypeOK, Spec_

\* CheckRisk, CheckAgent and FinalDecision return what they decide.
LEMMA RiskStep ==
  ASSUME RouterIInv, NEW approved \in BOOLEAN, CheckRisk(approved)
  PROVE  /\ UNCHANGED <<config, spec, agent, executor>>
         /\ risk' = Used(approved)
         /\ \/ approved /\ Pass(IF Live THEN "agent" ELSE "final")
            \/ /\ pc' = "done" /\ stopped' = "risk" /\ audit' \in Verdicts \cup {None}
               /\ outcome' \in {"blocked", "agent_blocked", "error"}
               /\ AuditTellsOutcome' /\ LiveSubmissionGuarded'
<1>1. risk' = Used(approved) /\ UNCHANGED <<config, spec, agent, executor>>
  BY DEF CheckRisk
<1>2. CASE approved
  BY <1>1, <1>2 DEF CheckRisk
<1>3. CASE ~approved
  <2>1. Return(Decide(risk', agent, executor), "risk", "blocked")
    BY <1>3 DEF CheckRisk
  <2>2. pc = "risk"
    BY DEF CheckRisk
  <2>3. EvaluateDataGuardrails(spec) = Verdict(TRUE, "data_guardrails")
    BY <2>2, GuardrailsAllow DEF RouterIInv, PastIntegrity, PastFreshness, PastNotional, PastAvailability,
       PastPrice, PastGate, PastValidation
  <2>4. Decide(risk', agent, executor) = Verdict(FALSE, "risk")
    BY <1>1, <1>3, <2>3 DEF Decide, CombineExecutionDecision, Used, Verdict
  <2>5. Verdict(FALSE, "risk") \in Verdicts /\ "risk" \in Stages
    BY DEF Verdict, Verdicts, Stages
  <2> QED
    BY <1>1, <2>1, <2>4, <2>5, ReturnStep
<1> QED
  BY <1>2, <1>3

\* The agent lets an order pass, or ends it with a record that says so.
LEMMA AgentStep ==
  ASSUME RouterIInv, NEW state, CheckAgent(state)
  PROVE  /\ UNCHANGED <<config, spec, risk, executor>>
         /\ agent' \in {Used(TRUE), Used(FALSE)}
         /\ \/ agent' = Used(TRUE) /\ Pass("final")
            \/ /\ pc' = "done" /\ stopped' = "execution_agent"
               /\ audit' \in Verdicts \cup {None}
               /\ outcome' \in {"blocked", "agent_blocked", "error"}
               /\ AuditTellsOutcome' /\ LiveSubmissionGuarded'
<1>1. agent' = Used(PreTradeCheck(state)) /\ UNCHANGED <<config, spec, risk, executor>>
  BY DEF CheckAgent
<1>2. PreTradeCheck(state) \in BOOLEAN
  BY DEF PreTradeCheck
<1>3. CASE agent' = Used(TRUE)
  <2>1. agent'.allowed
    BY <1>3 DEF Used
  <2>2. Pass("final")
    BY <2>1 DEF CheckAgent
  <2> QED
    BY <1>1, <1>3, <2>2
<1>4. CASE agent' = Used(FALSE)
  <2>1. Return(Decide(risk, agent', executor), "execution_agent", "agent_blocked")
    BY <1>4 DEF CheckAgent, Used
  <2>2. pc = "agent"
    BY DEF CheckAgent
  <2>3. EvaluateDataGuardrails(spec) = Verdict(TRUE, "data_guardrails")
    BY <2>2, GuardrailsAllow DEF RouterIInv, PastIntegrity, PastFreshness, PastNotional, PastAvailability,
       PastPrice, PastGate, PastValidation
  <2>4. risk = Used(TRUE)
    BY <2>2 DEF RouterIInv, Checked
  <2>5. Decide(risk, agent', executor) = Verdict(FALSE, "execution_agent")
    BY <1>4, <2>3, <2>4 DEF Decide, CombineExecutionDecision, Used, Verdict
  <2>6. Verdict(FALSE, "execution_agent") \in Verdicts /\ "execution_agent" \in Stages
    BY DEF Verdict, Verdicts, Stages
  <2> QED
    BY <1>1, <1>4, <2>1, <2>5, <2>6, ReturnStep
<1> QED
  BY <1>1, <1>2, <1>3, <1>4

\* The order goes on to its submission with its record, or without one if it
\* may; or its executor is missing, or its record.
LEMMA FinalStep ==
  ASSUME RouterIInv, NEW available \in BOOLEAN, FinalDecision(available)
  PROVE  /\ UNCHANGED <<config, spec, risk, agent>>
         /\ executor' = available
         /\ audit' \in Verdicts \cup {None}
         /\ \/ /\ pc' = "submit" /\ UNCHANGED outcome /\ (Live => available)
               /\ OnRecord'
            \/ /\ pc' = "done" /\ stopped' \in Stages
               /\ outcome' \in {"blocked", "agent_blocked", "error"}
               /\ AuditTellsOutcome' /\ LiveSubmissionGuarded'
<1> DEFINE d == Decide(risk, agent, available)
<1>1. pc = "final" /\ executor' = available /\ UNCHANGED <<config, spec, risk, agent>>
  BY DEF FinalDecision
<1>2. EvaluateDataGuardrails(spec) = Verdict(TRUE, "data_guardrails")
  BY <1>1, GuardrailsAllow DEF RouterIInv, PastIntegrity, PastFreshness, PastNotional, PastAvailability,
     PastPrice, PastGate, PastValidation
<1>3. risk = Used(TRUE) /\ agent \in {Used(TRUE), NotUsed}
  BY <1>1 DEF RouterIInv, Checked
<1>4. d = IF Live /\ ~available THEN Verdict(FALSE, "executor_availability")
                                ELSE Verdict(TRUE, "pre_trade_complete")
  BY <1>2, <1>3 DEF Decide, CombineExecutionDecision, Used, NotUsed, Verdict, Live
<1>5. /\ Verdict(FALSE, "executor_availability") \in Verdicts
      /\ Verdict(TRUE, "pre_trade_complete") \in Verdicts
      /\ "executor_availability" \in Stages /\ "pre_trade_complete" \in Stages
  BY DEF Verdict, Verdicts, Stages
<1>6. CASE Live /\ ~available
  <2>1. d = Verdict(FALSE, "executor_availability") /\ ~d.allowed
    BY <1>4, <1>6 DEF Verdict
  <2>2. Return(d, "executor_availability", "blocked")
    BY <2>1 DEF FinalDecision
  <2> QED
    BY <1>1, <1>5, <2>1, <2>2, ReturnStep
<1>7. CASE ~(Live /\ ~available)
  <2>1. d = Verdict(TRUE, "pre_trade_complete") /\ d.allowed
    BY <1>4, <1>7 DEF Verdict
  <2>2. PICK recorded \in BOOLEAN :
          /\ audit' = IF recorded THEN d ELSE None
          /\ stopped' = "pre_trade_complete"
          /\ IF Raises(d, recorded)
               THEN pc' = "done" /\ outcome' = "error"
               ELSE pc' = "submit" /\ UNCHANGED outcome
    BY <2>1 DEF FinalDecision
  <2>3. CASE Raises(d, recorded)
    <3>1. ~recorded
      BY <2>3 DEF Raises
    <3>2. audit' = None /\ ~Submitted'
      BY <2>2, <2>3, <3>1 DEF Submitted
    <3> QED
      BY <1>1, <1>5, <2>2, <2>3, <3>2 DEF AuditTellsOutcome, LiveSubmissionGuarded
  <2>4. CASE ~Raises(d, recorded)
    <3>1. None # Verdict(TRUE, "pre_trade_complete")
      BY <1>5, RouterAssumption DEF RouterAssumption
    <3>2. audit' \in {None, Verdict(TRUE, "pre_trade_complete")}
      BY <2>1, <2>2
    <3>3. Live /\ linked /\ ~closes => recorded
      BY <2>1, <2>4 DEF Raises
    <3>4. Live' = Live /\ UNCHANGED <<linked, closes>>
      BY <1>1 DEF Live, config
    <3>5. OnRecord'
      BY <2>1, <2>2, <3>1, <3>2, <3>3, <3>4 DEF OnRecord
    <3> QED
      BY <1>1, <1>5, <1>7, <2>2, <2>4, <3>2, <3>5
  <2> QED
    BY <2>3, <2>4
<1> QED
  BY <1>6, <1>7
-----------------------------------------------------------------------------
(* The invariant is kept.                                                  *)

\* A return: nothing but the outcome and its record still matters.
LEMMA DoneStep ==
  ASSUME RouterIInv, UNCHANGED <<config, spec>>,
         risk' \in Results, agent' \in Results, executor' \in BOOLEAN,
         pc' = "done", stopped' \in Stages,
         outcome' \in {"blocked", "agent_blocked", "error", "placed", "unknown"},
         audit' \in Verdicts \cup {None},
         MaxNotional > 0 => AuditTellsOutcome', LiveSubmissionGuarded'
  PROVE  RouterIInv'
<1>1. TypeOK'
  BY DEF RouterIInv, TypeOK, config
<1>2. Passed'
  BY DEF Passed, PastValidation, PastGate, PastPrice, PastAvailability, PastNotional,
     PastFreshness, PastIntegrity
<1>3. Checked'
  BY DEF RouterIInv, Checked, config
<1>4. OnRecord'
  BY DEF OnRecord
<1> QED
  BY <1>1, <1>2, <1>3, <1>4 DEF RouterIInv, OnlyLiveAsks, Faithful

\* An order that is under way has no outcome to be judged.
LEMMA UnderWay ==
  ASSUME Checked, pc # "done"
  PROVE  AuditTellsOutcome /\ LiveSubmissionGuarded
  BY DEF Checked, AuditTellsOutcome, LiveSubmissionGuarded, Submitted

\* While an order is under way there is no outcome to account for.
LEMMA UnderWayNext ==
  ASSUME Checked', pc' # "done"
  PROVE  AuditTellsOutcome' /\ LiveSubmissionGuarded'
  BY DEF Checked, AuditTellsOutcome, LiveSubmissionGuarded, Submitted

\* A guard on the data refuses with the verdict of the guardrails, or what it
\* tests holds from there on.
LEMMA DataGuardStep ==
  ASSUME RouterIInv, UNCHANGED <<config, spec, risk, agent, executor>>,
         NEW from, NEW refuses, NEW stage \in Stages, NEW next,
         Guard(from, refuses, stage, next),
         next \in {"gate", "price", "notional", "freshness", "integrity", "risk"},
         from \in {"validate", "gate", "availability", "notional", "freshness", "integrity"},
         MaxNotional > 0 /\ refuses => Decide(risk, agent, executor) = Verdict(FALSE, stage),
         ~refuses /\ pc' = next => Passed'
  PROVE  RouterIInv'
<1>1. pc = from
  BY DEF Guard
<1>2. CASE refuses
  <2>1. /\ pc' = "done" /\ stopped' = stage
        /\ outcome' \in {"blocked", "agent_blocked", "error"}
        /\ audit' \in Verdicts \cup {None}
        /\ LiveSubmissionGuarded'
        /\ Decide(risk, agent, executor) = Verdict(FALSE, stage) => AuditTellsOutcome'
    BY <1>2, GuardStep DEF RouterIInv
  <2>2. MaxNotional > 0 => AuditTellsOutcome'
    BY <1>2, <2>1
  <2>3. risk' \in Results /\ agent' \in Results /\ executor' \in BOOLEAN
    BY DEF RouterIInv, TypeOK
  <2> QED
    BY <2>1, <2>2, <2>3, DoneStep
<1>3. CASE ~refuses
  <2>1. Pass(next)
    BY <1>3 DEF Guard
  <2>2. TypeOK'
    BY <2>1 DEF RouterIInv, TypeOK, Pass, config
  <2>3. Passed'
    BY <1>3, <2>1 DEF Pass
  <2>4. Checked'
    BY <1>1, <2>1 DEF RouterIInv, Checked, Pass, config
  <2>5. pc' \notin {"agent", "submit", "done"}
    BY <2>1 DEF Pass
  <2> QED
    BY <2>2, <2>3, <2>4, <2>5, UnderWayNext DEF RouterIInv, OnRecord, OnlyLiveAsks, Faithful
<1> QED
  BY <1>2, <1>3

\* Each guard, by itself, keeps the invariant: the validation of the request,
LEMMA ValidateStep == ASSUME RouterIInv, Validate PROVE RouterIInv'
<1>1. "request_validation" \in Stages
  BY DEF Stages
<1>2. ~spec.valid => Decide(risk, agent, executor) = Verdict(FALSE, "request_validation")
  BY Refusals DEF RouterIInv
<1>3. ~~spec.valid /\ pc' = "gate" => Passed'
  BY DEF Validate, RouterIInv, Passed, PastValidation, PastGate, PastPrice, PastAvailability,
     PastNotional, PastFreshness, PastIntegrity
<1> QED
  BY <1>1, <1>2, <1>3, DataGuardStep DEF Validate

\* the switch for live orders,
LEMMA LiveGateStep == ASSUME RouterIInv, LiveGate PROVE RouterIInv'
<1> DEFINE refuses == Live /\ ~spec.enabled
<1>1. "live_execution_gate" \in Stages /\ pc = "gate"
  BY DEF Stages, LiveGate, Guard
<1>2. refuses => Decide(risk, agent, executor) = Verdict(FALSE, "live_execution_gate")
  BY <1>1, Refusals DEF RouterIInv
<1>3. ~refuses /\ pc' = "price" => Passed'
  BY <1>1 DEF LiveGate, RouterIInv, Passed, Live, PastValidation, PastGate, PastPrice, PastAvailability,
     PastNotional, PastFreshness, PastIntegrity
<1> QED
  BY <1>1, <1>2, <1>3, DataGuardStep DEF LiveGate

\* the availability of an executor,
LEMMA AvailabilityStep == ASSUME RouterIInv, CheckAvailability PROVE RouterIInv'
<1>1. "price_availability" \in Stages /\ pc = "availability"
  BY DEF Stages, CheckAvailability, Guard
<1>2. NoPrice => Decide(risk, agent, executor) = Verdict(FALSE, "price_availability")
  BY <1>1, Refusals DEF RouterIInv
<1>3. ~NoPrice /\ pc' = "notional" => Passed'
  BY <1>1 DEF CheckAvailability, RouterIInv, Passed, Live, NoPrice, PastValidation, PastGate, PastPrice,
     PastAvailability, PastNotional, PastFreshness, PastIntegrity
<1>4. Guard("availability", NoPrice, "price_availability", "notional")
  BY DEF CheckAvailability, NoPrice
<1> QED
  BY <1>1, <1>2, <1>3, <1>4, DataGuardStep DEF CheckAvailability

\* the cap on the notional,
LEMMA NotionalStep == ASSUME RouterIInv, CheckNotional PROVE RouterIInv'
<1> DEFINE refuses == spec.fill * spec.size > MaxNotional
<1>1. "max_notional" \in Stages /\ pc = "notional"
  BY DEF Stages, CheckNotional, Guard
<1>2. MaxNotional > 0 /\ refuses => Decide(risk, agent, executor) = Verdict(FALSE, "max_notional")
  BY <1>1, Refusals DEF RouterIInv
<1>3. ~refuses /\ pc' = "freshness" => Passed'
  BY <1>1 DEF CheckNotional, RouterIInv, Passed, Live, NoPrice, PastValidation, PastGate, PastPrice,
     PastAvailability, PastNotional, PastFreshness, PastIntegrity
<1> QED
  BY <1>1, <1>2, <1>3, DataGuardStep DEF CheckNotional

\* the age of the price,
LEMMA FreshnessStep == ASSUME RouterIInv, CheckFreshness PROVE RouterIInv'
<1> DEFINE refuses == Live /\ Stale(spec)
<1>1. "price_freshness" \in Stages /\ pc = "freshness"
  BY DEF Stages, CheckFreshness, Guard
<1>2. refuses => Decide(risk, agent, executor) = Verdict(FALSE, "price_freshness")
  BY <1>1, Refusals DEF RouterIInv
<1>3. ~refuses /\ pc' = "integrity" => Passed'
  BY <1>1 DEF CheckFreshness, RouterIInv, Passed, Live, NoPrice, PastValidation, PastGate, PastPrice,
     PastAvailability, PastNotional, PastFreshness, PastIntegrity, Stale
<1> QED
  BY <1>1, <1>2, <1>3, DataGuardStep DEF CheckFreshness

\* the integrity of the price,
LEMMA IntegrityStep == ASSUME RouterIInv, CheckIntegrity PROVE RouterIInv'
<1> DEFINE refuses == Live /\ BlockLive /\ spec.integrity # "OK"
<1>1. "price_integrity" \in Stages /\ pc = "integrity"
  BY DEF Stages, CheckIntegrity, Guard
<1>2. refuses => Decide(risk, agent, executor) = Verdict(FALSE, "price_integrity")
  BY <1>1, Refusals DEF RouterIInv, Unsafe
<1>3. ~refuses /\ pc' = "risk" => Passed'
  BY <1>1 DEF CheckIntegrity, RouterIInv, Passed, Live, NoPrice, Unsafe, PastValidation, PastGate,
     PastPrice, PastAvailability, PastNotional, PastFreshness, PastIntegrity, Stale
<1> QED
  BY <1>1, <1>2, <1>3, DataGuardStep DEF CheckIntegrity

\* the reading of price and status,
LEMMA ReadPriceStep ==
  ASSUME RouterIInv, NEW found \in BOOLEAN, NEW fresh \in BOOLEAN, NEW price \in Fill,
         NEW i \in Integrity, ReadPrice(found, fresh, price, i)
  PROVE  RouterIInv'
<1>1. /\ spec' \in Spec_
      /\ spec'.valid = spec.valid /\ spec'.enabled = spec.enabled /\ spec'.mode = spec.mode
      /\ spec'.found => spec'.fill # 0
  BY ReadPriceSpec DEF RouterIInv
<1>2. /\ pc = "price" /\ pc' = "availability"
      /\ UNCHANGED <<config, risk, agent, executor, stopped, outcome, audit>>
  BY DEF ReadPrice, Pass
<1>3. TypeOK'
  BY <1>1, <1>2 DEF RouterIInv, TypeOK, config
<1>4. Passed'
  BY <1>1, <1>2 DEF RouterIInv, Passed, Live, PastValidation, PastGate, PastPrice, PastAvailability,
     PastNotional, PastFreshness, PastIntegrity
<1>5. Checked'
  BY <1>1, <1>2 DEF RouterIInv, Checked, config
<1> QED
  BY <1>2, <1>3, <1>4, <1>5, UnderWayNext DEF RouterIInv, OnRecord, OnlyLiveAsks, Faithful

\* Behind the data guards an order that goes on keeps what they found.
LEMMA PassedOn ==
  ASSUME RouterIInv, PastFreshness, UNCHANGED spec, pc \in {"risk", "agent", "final"},
         pc' \in {"agent", "final", "submit"}
  PROVE  Passed'
  BY DEF RouterIInv, Passed, PastValidation, PastGate, PastPrice, PastAvailability, PastNotional,
     PastFreshness, PastIntegrity, Live, NoPrice, Unsafe, Stale

\* the risk engine,
LEMMA CheckRiskStep ==
  ASSUME RouterIInv, NEW approved \in BOOLEAN, CheckRisk(approved)
  PROVE  RouterIInv'
<1>1. pc = "risk" /\ PastFreshness
  BY DEF CheckRisk, PastValidation, PastGate, PastPrice, PastAvailability, PastNotional,
     PastFreshness
<1>2. UNCHANGED <<config, spec, agent, executor>> /\ risk' = Used(approved)
  BY RiskStep
<1>3. risk' \in Results /\ agent' \in Results /\ executor' \in BOOLEAN
  BY <1>2 DEF RouterIInv, TypeOK, Results
<1>4. CASE approved /\ Pass(IF Live THEN "agent" ELSE "final")
  <2>1. /\ pc' = IF Live THEN "agent" ELSE "final"
        /\ UNCHANGED <<stopped, outcome, audit>>
    BY <1>4 DEF Pass
  <2>2. TypeOK'
    BY <1>2, <1>3, <2>1 DEF RouterIInv, TypeOK, config
  <2>3. Passed'
    BY <1>1, <1>2, <2>1, PassedOn
  <2>4. risk' = Used(TRUE) /\ Live' = Live
    BY <1>2, <1>4 DEF Used, Live
  <2>5. agent = NotUsed /\ executor /\ outcome = "none" /\ spec.enabled = enabled
    BY <1>1 DEF RouterIInv, Checked
  <2>6. Checked'
    BY <1>2, <2>1, <2>4, <2>5 DEF Checked, config
  <2> QED
    BY <2>1, <2>2, <2>3, <2>4, <2>6, UnderWayNext DEF RouterIInv, OnRecord, OnlyLiveAsks, Faithful
<1>5. CASE /\ pc' = "done" /\ stopped' = "risk" /\ audit' \in Verdicts \cup {None}
           /\ outcome' \in {"blocked", "agent_blocked", "error"}
           /\ AuditTellsOutcome' /\ LiveSubmissionGuarded'
  BY <1>2, <1>3, <1>5, DoneStep DEF Stages
<1> QED
  BY <1>4, <1>5, RiskStep

\* the execution agent,
LEMMA CheckAgentStep ==
  ASSUME RouterIInv, NEW state, CheckAgent(state)
  PROVE  RouterIInv'
<1>1. pc = "agent" /\ PastFreshness
  BY DEF CheckAgent, PastValidation, PastGate, PastPrice, PastAvailability, PastNotional,
     PastFreshness
<1>2. UNCHANGED <<config, spec, risk, executor>> /\ agent' \in {Used(TRUE), Used(FALSE)}
  BY AgentStep
<1>3. risk' \in Results /\ agent' \in Results /\ executor' \in BOOLEAN
  BY <1>2 DEF RouterIInv, TypeOK, Results
<1>4. CASE agent' = Used(TRUE) /\ Pass("final")
  <2>1. pc' = "final" /\ UNCHANGED <<stopped, outcome, audit>>
    BY <1>4 DEF Pass
  <2>2. TypeOK'
    BY <1>2, <1>3, <2>1 DEF RouterIInv, TypeOK, config
  <2>3. Passed'
    BY <1>1, <1>2, <2>1, PassedOn
  <2>4. risk = Used(TRUE) /\ executor /\ outcome = "none" /\ spec.enabled = enabled
    BY <1>1 DEF RouterIInv, Checked
  <2>5. Live
    BY <1>1 DEF RouterIInv, OnlyLiveAsks
  <2>6. Checked'
    BY <1>2, <1>4, <2>1, <2>4, <2>5 DEF Checked, config, Live
  <2> QED
    BY <2>1, <2>2, <2>3, <2>6, UnderWayNext DEF RouterIInv, OnRecord, OnlyLiveAsks, Faithful
<1>5. CASE /\ pc' = "done" /\ stopped' = "execution_agent" /\ audit' \in Verdicts \cup {None}
           /\ outcome' \in {"blocked", "agent_blocked", "error"}
           /\ AuditTellsOutcome' /\ LiveSubmissionGuarded'
  BY <1>2, <1>3, <1>5, DoneStep DEF Stages
<1> QED
  BY <1>4, <1>5, AgentStep

\* the final decision and its record,
LEMMA FinalDecisionStep ==
  ASSUME RouterIInv, NEW available \in BOOLEAN, FinalDecision(available)
  PROVE  RouterIInv'
<1>1. pc = "final" /\ PastFreshness
  BY DEF FinalDecision, PastValidation, PastGate, PastPrice, PastAvailability, PastNotional,
     PastFreshness
<1>2. /\ UNCHANGED <<config, spec, risk, agent>> /\ executor' = available
      /\ audit' \in Verdicts \cup {None}
  BY FinalStep
<1>3. risk' \in Results /\ agent' \in Results /\ executor' \in BOOLEAN
  BY <1>2 DEF RouterIInv, TypeOK
<1>4. CASE /\ pc' = "submit" /\ UNCHANGED outcome /\ (Live => available)
           /\ OnRecord'
  <2>1. stopped' = "pre_trade_complete"
    BY <1>4 DEF OnRecord
  <2>2. TypeOK'
    BY <1>2, <1>3, <1>4, <2>1 DEF RouterIInv, TypeOK, config, Stages
  <2>3. Passed'
    BY <1>1, <1>2, <1>4, PassedOn
  <2>4. /\ risk = Used(TRUE) /\ outcome = "none" /\ spec.enabled = enabled
        /\ agent = IF Live THEN Used(TRUE) ELSE NotUsed
    BY <1>1 DEF RouterIInv, Checked
  <2>5. Live' = Live
    BY <1>2 DEF Live
  <2>6. Checked'
    BY <1>2, <1>4, <2>4, <2>5 DEF Checked, config
  <2>7. OnlyLiveAsks'
    BY <1>4 DEF OnlyLiveAsks
  <2>8. Faithful' /\ LiveSubmissionGuarded'
    BY <1>4, <2>6, UnderWayNext DEF Faithful
  <2> QED
    BY <1>4, <2>2, <2>3, <2>6, <2>7, <2>8 DEF RouterIInv
<1>5. CASE /\ pc' = "done" /\ stopped' \in Stages
           /\ outcome' \in {"blocked", "agent_blocked", "error"}
           /\ AuditTellsOutcome' /\ LiveSubmissionGuarded'
  BY <1>2, <1>3, <1>5, DoneStep
<1> QED
  BY <1>4, <1>5, FinalStep

\* and the submission.
LEMMA SubmitStep ==
  ASSUME RouterIInv, NEW status \in {"placed", "unknown"}, Submit(status)
  PROVE  RouterIInv'
<1>1. /\ pc = "submit" /\ pc' = "done" /\ outcome' = status
      /\ UNCHANGED <<config, spec, risk, agent, executor, stopped, audit>>
  BY DEF Submit
<1>2. stopped' = "pre_trade_complete" /\ audit' \in {None, Verdict(TRUE, "pre_trade_complete")}
  BY <1>1 DEF RouterIInv, OnRecord
<1>3. Submitted'
  BY <1>1 DEF Submitted
<1>4. AuditTellsOutcome'
  BY <1>2, <1>3 DEF AuditTellsOutcome, Verdict
<1>5. LiveSubmissionGuarded'
  <2> SUFFICES ASSUME Live PROVE LiveSubmissionGuarded'
    BY <1>1 DEF LiveSubmissionGuarded, Live
  <2>1. enabled /\ executor /\ risk = Used(TRUE) /\ agent = Used(TRUE)
    BY <1>1 DEF RouterIInv, Checked, Passed, PastGate, PastValidation
  <2>2. spec.fill # 0 /\ ~Stale(spec) /\ (BlockLive => spec.integrity = "OK")
    BY <1>1 DEF RouterIInv, Passed, PastValidation, PastGate, PastPrice, PastAvailability, PastNotional,
       PastFreshness, PastIntegrity, NoPrice, Unsafe
  <2>3. linked /\ ~closes => audit # None
    BY <1>1 DEF RouterIInv, OnRecord
  <2> QED
    BY <1>1, <2>1, <2>2, <2>3 DEF LiveSubmissionGuarded, config, Stale
<1> QED
  BY <1>1, <1>2, <1>4, <1>5, DoneStep DEF RouterIInv, TypeOK, Stages

\* Every step of the router keeps the invariant.
THEOREM RouterInductive == RouterIInv /\ [Next]_vars => RouterIInv'
<1> SUFFICES ASSUME RouterIInv, [Next]_vars PROVE RouterIInv'
  OBVIOUS
<1>1. CASE Next
  <2>1. CASE Validate \/ LiveGate \/ CheckAvailability \/ CheckNotional \/ CheckFreshness
             \/ CheckIntegrity
    BY <2>1, ValidateStep, LiveGateStep, AvailabilityStep, NotionalStep, FreshnessStep,
       IntegrityStep
  <2>2. ASSUME NEW found \in BOOLEAN, NEW fresh \in BOOLEAN, NEW price \in Fill,
               NEW i \in Integrity, ReadPrice(found, fresh, price, i)
        PROVE  RouterIInv'
    BY <2>2, ReadPriceStep
  <2>3. ASSUME NEW approved \in BOOLEAN, CheckRisk(approved) PROVE RouterIInv'
    BY <2>3, CheckRiskStep
  <2>4. ASSUME NEW state, CheckAgent(state) PROVE RouterIInv'
    BY <2>4, CheckAgentStep
  <2>5. ASSUME NEW available \in BOOLEAN, FinalDecision(available) PROVE RouterIInv'
    BY <2>5, FinalDecisionStep
  <2>6. ASSUME NEW status \in {"placed", "unknown"}, Submit(status) PROVE RouterIInv'
    BY <2>6, SubmitStep
  <2> QED
    BY <1>1, <2>1, <2>2, <2>3, <2>4, <2>5, <2>6 DEF Next
<1>2. CASE UNCHANGED vars
  <2>1. TypeOK'
    BY <1>2 DEF RouterIInv, TypeOK, vars, config
  <2>6. Checked'
    BY <1>2 DEF RouterIInv, Checked, vars, config, Live
  <2>2. Passed'
    BY <1>2 DEF RouterIInv, Passed, vars, config, Live, NoPrice, Unsafe, Stale, PastValidation,
       PastGate, PastPrice, PastAvailability, PastNotional, PastFreshness, PastIntegrity
  <2>3. OnlyLiveAsks' /\ OnRecord'
    BY <1>2 DEF RouterIInv, OnlyLiveAsks, OnRecord, vars, config, Live
  <2>4. Faithful'
    BY <1>2 DEF RouterIInv, Faithful, AuditTellsOutcome, Submitted, vars
  <2>5. LiveSubmissionGuarded'
    BY <1>2 DEF RouterIInv, LiveSubmissionGuarded, Submitted, Live, Stale, vars, config
  <2> QED
    BY <2>1, <2>2, <2>3, <2>4, <2>5, <2>6 DEF RouterIInv
<1> QED
  BY <1>1, <1>2

\* It holds of an order that has not been looked at.
THEOREM RouterInitially == Init => RouterIInv
<1> SUFFICES ASSUME Init PROVE RouterIInv
  OBVIOUS
<1>1. TypeOK
  BY DEF Init, TypeOK, Results, NotUsed
<1>2. Passed
  BY DEF Init, Passed, PastValidation, PastGate, PastPrice, PastAvailability, PastNotional,
     PastFreshness, PastIntegrity
<1>3. Checked
  BY DEF Init, Checked
<1> QED
  BY <1>1, <1>2, <1>3, UnderWay DEF RouterIInv, Init, OnRecord, OnlyLiveAsks, Faithful

\* It holds throughout a call of route_order.
THEOREM RouterInvariance == Spec => []RouterIInv
  BY RouterInitially, RouterInductive, PTL DEF Spec

\* Every place of route_order is reached with values of their kinds.
THEOREM RouterTypeCorrect == Spec => []TypeOK
  BY RouterInvariance, PTL DEF RouterIInv

\* Where there is a notional limit, the decision on record is the one the
\* router acted on, whatever mode, sizes and prices it meets.
THEOREM AuditFaithful == Spec => [](MaxNotional > 0 => AuditTellsOutcome)
  BY RouterInvariance, PTL DEF RouterIInv, Faithful

\* No live order reaches a venue past a gate, and none of the API that adds
\* exposure without its record.
THEOREM LiveGuarded == Spec => []LiveSubmissionGuarded
  BY RouterInvariance, PTL DEF RouterIInv
-----------------------------------------------------------------------------
(* The record of a decision and its replay.                                *)

\* A record has all its fields.
Whole(rec) ==
    /\ rec = [data |-> rec.data, quoted |-> rec.quoted, risk |-> rec.risk, agent |-> rec.agent,
              executor |-> rec.executor, reasons |-> rec.reasons, figures |-> rec.figures,
              final |-> rec.final]
    /\ rec.risk = [used |-> rec.risk.used, held |-> rec.risk.held, equity |-> rec.risk.equity,
                   margin |-> rec.risk.margin, size |-> rec.risk.size, price |-> rec.risk.price,
                   state |-> rec.risk.state]
    /\ rec.risk.state = [pnl |-> rec.risk.state.pnl, last |-> rec.risk.state.last]

Disturbed(rec) == \E f \in disturbed : Matters(rec, f)

\* From its record until its use an undisturbed field stays as it is: in the
\* engine, and in what copying the shared state would make of it.
FieldsKept ==
    /\ \A f \in {"pnl", "last"} :
           Pending(f) /\ f \notin disturbed => Effective[f] = riskCopy[f]
    /\ phase \in {"record last", "copy again", "check loss"} /\ "pnl" \notin disturbed
           => record.risk.state.pnl = riskCopy.pnl
    /\ phase \in {"copy again", "check loss", "check cooldown"} /\ "last" \notin disturbed
           => record.risk.state.last = riskCopy.last
    /\ phase = "result" /\ "figures" \notin disturbed => figures = "own"

\* The comparisons made so far are those that the replay makes.
Compared ==
    /\ phase = "check cooldown" =>
           \/ record.reasons = SizeReasons(record.risk)
                                 \cup LossReasons(record.risk, record.risk.state.pnl)
           \/ "pnl" \in disturbed /\ Increase(record.risk) > 0
    /\ phase \in {"result", "agent", "final"} =>
           record.reasons = ReplayedReasons(record) \/ Disturbed(record)
    /\ phase \in {"agent", "final"} => record.figures = "own" \/ Disturbed(record)

Gathered ==
    /\ phase # "idle" => Whole(record)
    /\ phase \in {"record pnl", "record last", "copy again", "check loss", "check cooldown",
                  "result"} => record.risk.used
    /\ phase # "done" => durable = NotStored

AuditInv == Gathered /\ FieldsKept /\ Compared /\ DecisionReplays

\* The final decision depends on neither the reasons' nor its own field.
LEMMA FinalKept ==
  ASSUME NEW r, NEW s, NEW reasons,
         r.data = s.data, r.risk = s.risk, r.agent = s.agent, r.executor = s.executor
  PROVE  FinalOf(r, reasons) = FinalOf(s, reasons)
  BY DEF FinalOf, Guardrails

\* The replayed reasons, and the fields that matter, depend on the risk inputs and
\* the mode alone.
LEMMA ReasonsKept ==
  ASSUME NEW r, NEW s, r.data = s.data, r.risk = s.risk
  PROVE  /\ ReplayedReasons(r) = ReplayedReasons(s)
         /\ \A f : Matters(r, f) <=> Matters(s, f)
<1>1. ReplayedReasons(r) = ReplayedReasons(s)
  BY DEF ReplayedReasons
<1>2. \A f : Matters(r, f) <=> Matters(s, f)
  BY DEF Matters
<1> QED BY <1>1, <1>2

\* The PnL bears on new exposure only, and the last action on live one.
LEMMA ReasonsMatter ==
  ASSUME NEW r, NEW mode, NEW p, NEW q
  PROVE  /\ ~(Increase(r) > 0) => LossReasons(r, p) = LossReasons(r, q)
         /\ ~(Increase(r) > 0 /\ mode = "live") =>
                CooldownReasons(r, p, mode) = CooldownReasons(r, q, mode)
<1>1. ~(Increase(r) > 0) => LossReasons(r, p) = {} /\ LossReasons(r, q) = {}
  BY Zenon DEF LossReasons, Reason
<1>2. ~(Increase(r) > 0 /\ mode = "live") =>
          CooldownReasons(r, p, mode) = {} /\ CooldownReasons(r, q, mode) = {}
  BY Zenon DEF CooldownReasons, Reason
<1> QED BY <1>1, <1>2

\* A record whose reasons and figures the replay finds again replays.
LEMMA RecordedReplays ==
  ASSUME NEW known, Whole(record), record.reasons = ReplayedReasons(record),
         record.figures = "own"
  PROVE  ExactMatch(Decision(known))
<1> DEFINE rec == [record EXCEPT !.executor = known]
           dec == Decision(known)
<1>1. /\ rec.data = record.data /\ rec.risk = record.risk /\ rec.reasons = record.reasons
      /\ rec = [data |-> record.data, quoted |-> record.quoted, risk |-> record.risk,
                agent |-> record.agent, executor |-> known, reasons |-> record.reasons,
                figures |-> "own", final |-> record.final]
  BY DEF Whole
<1>2. dec = [rec EXCEPT !.final = FinalOf(rec, record.reasons)]
  BY <1>1 DEF Decision
<1> HIDE DEF rec, dec
<1>3. /\ dec.data = rec.data /\ dec.risk = rec.risk /\ dec.agent = rec.agent
      /\ dec.executor = rec.executor /\ dec.reasons = record.reasons
      /\ dec.final = FinalOf(rec, record.reasons) /\ dec.figures = "own"
  BY <1>1, <1>2
<1>4. ReplayedReasons(dec) = record.reasons
  BY <1>1, <1>3, ReasonsKept
<1>5. FinalOf(dec, record.reasons) = dec.final
  BY <1>3, FinalKept
<1>6. [dec EXCEPT !.reasons = record.reasons, !.figures = "own", !.final = dec.final] = dec
  BY <1>1, <1>2, <1>3
<1> QED
  BY <1>4, <1>5, <1>6 DEF ExactMatch, Recomputed, dec

\* Whoever disturbs a field says so.
LEMMA DisturbanceNoted ==
  ASSUME Disturbs
  PROVE  /\ disturbed \subseteq disturbed'
         /\ \A f \in {"pnl", "last"} : Pending(f) /\ f \notin disturbed' =>
                f \notin disturbed /\ Effective'[f] = Effective[f] /\ riskCopy'[f] = riskCopy[f]
         /\ Pending("figures") /\ "figures" \notin disturbed' =>
                "figures" \notin disturbed /\ figures' = figures
  BY DEF Disturbs

\* A step of another thread or process keeps what is gathered, or says so.
LEMMA OthersStep ==
  ASSUME AuditInv, Disturbs, UNCHANGED <<record, phase, durable>>
  PROVE  AuditInv'
<1> USE DEF AuditInv
<1>1. Gathered'
  BY DEF Gathered
<1>2. \A f : Pending(f)' <=> Pending(f)
  BY DEF Pending
<1>3. ASSUME NEW f \in {"pnl", "last"}, Pending(f), f \notin disturbed'
      PROVE  /\ f \notin disturbed /\ Effective'[f] = Effective[f] /\ riskCopy'[f] = riskCopy[f]
             /\ Effective[f] = riskCopy[f]
  BY <1>3, DisturbanceNoted DEF FieldsKept
<1>4. FieldsKept'
  <2>1. ASSUME NEW f \in {"pnl", "last"}, Pending(f)', f \notin disturbed'
        PROVE  Effective'[f] = riskCopy'[f]
    BY <1>2, <1>3, <2>1
  <2>2. ASSUME phase' \in {"record last", "copy again", "check loss"}, "pnl" \notin disturbed'
        PROVE  record'.risk.state.pnl = riskCopy'.pnl
    <3>1. Pending("pnl")
      BY <2>2 DEF Pending
    <3>2. "pnl" \notin disturbed /\ riskCopy'.pnl = riskCopy.pnl
      BY <1>3, <2>2, <3>1
    <3> QED BY <2>2, <3>2 DEF FieldsKept
  <2>3. ASSUME phase' \in {"copy again", "check loss", "check cooldown"}, "last" \notin disturbed'
        PROVE  record'.risk.state.last = riskCopy'.last
    <3>1. Pending("last")
      BY <2>3 DEF Pending
    <3>2. "last" \notin disturbed /\ riskCopy'.last = riskCopy.last
      BY <1>3, <2>3, <3>1
    <3> QED BY <2>3, <3>2 DEF FieldsKept
  <2>4. ASSUME phase' = "result", "figures" \notin disturbed' PROVE figures' = "own"
    <3>1. Pending("figures")
      BY <2>4 DEF Pending
    <3> QED BY <2>4, <3>1, DisturbanceNoted DEF FieldsKept
  <2> QED BY <2>1, <2>2, <2>3, <2>4 DEF FieldsKept
<1>5. disturbed \subseteq disturbed'
  BY DisturbanceNoted
<1>6. Compared'
  <2>1. ASSUME Disturbed(record) PROVE Disturbed(record)'
    BY <1>5, <2>1 DEF Disturbed, Matters
  <2>2. ReplayedReasons(record)' = ReplayedReasons(record)
    BY DEF ReplayedReasons, RiskReasons
  <2> QED BY <1>5, <2>1, <2>2 DEF Compared
<1>7. DecisionReplays'
  <2>1. ExactMatch(durable)' <=> ExactMatch(durable)
    BY DEF ExactMatch
  <2>2. ASSUME NEW f \in disturbed, Matters(durable, f)
        PROVE  \E g \in disturbed' : Matters(durable, g)'
    BY <1>5, <2>2 DEF Matters
  <2> QED BY <2>1, <2>2 DEF DecisionReplays
<1> QED BY <1>1, <1>4, <1>6, <1>7

\* What the router gathers keeps the invariant, whatever the others do.
LEMMA AuditStep == AuditInv /\ [AuditNext]_auditVars => AuditInv'
<1> SUFFICES ASSUME AuditInv, [AuditNext]_auditVars PROVE AuditInv'
  OBVIOUS
<1> USE DEF AuditInv
<1>1. CASE UNCHANGED auditVars
  BY <1>1 DEF auditVars, engineVars, Gathered, FieldsKept, Compared, DecisionReplays, Effective,
              Synced, Pending, Disturbed
<1>2. ASSUME NEW data \in DataSpecs, NEW quoted \in BOOLEAN, BeginDecision(data, quoted)
      PROVE  AuditInv'
  <2>1. /\ phase = "idle" /\ phase' \in {"copy", "final"}
        /\ record' = [data |-> data, quoted |-> quoted, risk |-> NoRisk(data), agent |-> NoAgent,
                      executor |-> TRUE, reasons |-> {}, figures |-> "own",
                      final |-> Verdict(FALSE, "none")]
        /\ durable' = durable /\ disturbed' = disturbed
    BY <1>2 DEF BeginDecision
  <2>2. /\ Whole(record') /\ ReplayedReasons(record)' = {} /\ record'.reasons = {}
        /\ record'.figures = "own"
    BY <2>1 DEF Whole, NoRisk, ReplayedReasons, Calm
  <2>3. Gathered' /\ DecisionReplays'
    BY <2>1, <2>2 DEF Gathered, DecisionReplays
  <2>4. FieldsKept'
    BY <2>1 DEF FieldsKept, Pending
  <2>5. Compared'
    BY <2>1, <2>2 DEF Compared
  <2> QED BY <2>3, <2>4, <2>5
<1>3. ASSUME NEW found \in Held, NEW equity \in Equity, NEW margin \in {0, 1}, NEW reads \in 0..2,
             CopyForRecord(found, equity, margin, reads)
      PROVE  AuditInv'
  <2>1. /\ phase = "copy" /\ phase' = "record pnl" /\ Whole(record)
        /\ riskCopy' = Synced(reads) /\ redisUp' = (reads = 2)
        /\ UNCHANGED <<riskShared, durable, disturbed>>
        /\ record' = [record EXCEPT !.risk.used = TRUE, !.risk.held = found,
                          !.risk.equity = equity, !.risk.margin = margin]
    BY <1>3 DEF CopyForRecord, Answered, CopiedFirst, Gathered
  <2>2. Whole(record') /\ record'.risk.used
    BY <2>1 DEF Whole
  <2>3. Effective' = riskCopy'
    BY <2>1 DEF Effective, Synced
  <2>4. Gathered' /\ DecisionReplays'
    BY <2>1, <2>2 DEF Gathered, DecisionReplays
  <2>5. FieldsKept'
    BY <2>1, <2>3 DEF FieldsKept
  <2>6. Compared'
    BY <2>1 DEF Compared
  <2> QED BY <2>4, <2>5, <2>6
<1>4. CASE RecordPnl
  <2>1. /\ phase = "record pnl" /\ phase' = "record last" /\ Whole(record) /\ record.risk.used
        /\ UNCHANGED <<riskShared, redisUp, riskCopy, figures, durable, disturbed>>
        /\ record' = [record EXCEPT !.risk.state.pnl = riskCopy.pnl]
    BY <1>4 DEF RecordPnl, Gathered, engineVars
  <2>2. Whole(record') /\ record'.risk.used /\ record'.risk.state.pnl = riskCopy.pnl
    BY <2>1 DEF Whole
  <2>3. Effective' = Effective
    BY <2>1 DEF Effective, Synced
  <2>4. Gathered' /\ DecisionReplays'
    BY <2>1, <2>2 DEF Gathered, DecisionReplays
  <2>5. FieldsKept'
    BY <2>1, <2>2, <2>3 DEF FieldsKept, Pending
  <2>6. Compared'
    BY <2>1 DEF Compared
  <2> QED BY <2>4, <2>5, <2>6
<1>5. CASE RecordLast
  <2>1. /\ phase = "record last" /\ phase' = "copy again" /\ Whole(record) /\ record.risk.used
        /\ UNCHANGED <<riskShared, redisUp, riskCopy, figures, durable, disturbed>>
        /\ record' = [record EXCEPT !.risk.state.last = riskCopy.last]
    BY <1>5 DEF RecordLast, Gathered, engineVars
  <2>2. /\ Whole(record') /\ record'.risk.used /\ record'.risk.state.last = riskCopy.last
        /\ record'.risk.state.pnl = record.risk.state.pnl
    BY <2>1 DEF Whole
  <2>3. Effective' = Effective
    BY <2>1 DEF Effective, Synced
  <2>4. Gathered' /\ DecisionReplays'
    BY <2>1, <2>2 DEF Gathered, DecisionReplays
  <2>5. FieldsKept'
    BY <2>1, <2>2, <2>3 DEF FieldsKept, Pending
  <2>6. Compared'
    BY <2>1 DEF Compared
  <2> QED BY <2>4, <2>5, <2>6
<1>6. ASSUME NEW reads \in 0..2, CopyForCheck(reads) PROVE AuditInv'
  <2>1. /\ phase = "copy again" /\ phase' = "check loss"
        /\ riskCopy' = Synced(reads) /\ redisUp' = (reads = 2)
        /\ UNCHANGED <<riskShared, record, figures, durable, disturbed>>
        /\ redisUp \/ reads = 0
    BY <1>6 DEF CopyForCheck, Answered
  <2>2. Effective' = riskCopy'
    BY <2>1 DEF Effective, Synced
  <2>3. ASSUME "pnl" \notin disturbed PROVE riskCopy'.pnl = riskCopy.pnl
    <3>1. Effective["pnl"] = riskCopy["pnl"]
      BY <2>1, <2>3 DEF FieldsKept, Pending
    <3>2. CASE redisUp
      <4>1. Synced(2).pnl = riskCopy.pnl
        BY <3>1, <3>2 DEF Effective, Synced
      <4>2. Synced(reads).pnl \in {Synced(2).pnl, riskCopy.pnl}
        BY DEF Synced
      <4> QED BY <2>1, <4>1, <4>2
    <3>3. CASE reads = 0
      <4>1. Synced(reads).pnl = riskCopy.pnl
        BY <3>3 DEF Synced
      <4> QED BY <2>1, <4>1
    <3> QED BY <2>1, <3>2, <3>3
  <2>4. ASSUME "last" \notin disturbed PROVE riskCopy'.last = riskCopy.last
    <3>1. Effective["last"] = riskCopy["last"]
      BY <2>1, <2>4 DEF FieldsKept, Pending
    <3>2. CASE redisUp
      <4>1. Synced(2).last = riskCopy.last
        BY <3>1, <3>2 DEF Effective, Synced
      <4>2. Synced(reads).last \in {Synced(2).last, riskCopy.last}
        BY DEF Synced
      <4> QED BY <2>1, <4>1, <4>2
    <3>3. CASE reads = 0
      <4>1. Synced(reads).last = riskCopy.last
        BY <3>3 DEF Synced
      <4> QED BY <2>1, <4>1
    <3> QED BY <2>1, <3>2, <3>3
  <2>5. Gathered' /\ DecisionReplays'
    BY <2>1 DEF Gathered, DecisionReplays
  <2>6. FieldsKept'
    BY <2>1, <2>2, <2>3, <2>4 DEF FieldsKept
  <2>7. Compared'
    BY <2>1 DEF Compared
  <2> QED BY <2>5, <2>6, <2>7
<1>7. CASE CheckLoss
  <2> DEFINE sums == SizeReasons(record.risk)
  <2>1. /\ phase = "check loss" /\ phase' = "check cooldown" /\ Whole(record) /\ record.risk.used
        /\ UNCHANGED <<riskShared, redisUp, riskCopy, figures, durable, disturbed>>
        /\ record' = [record EXCEPT !.reasons = sums \cup LossReasons(record.risk, riskCopy.pnl)]
    BY <1>7 DEF CheckLoss, Gathered, engineVars
  <2>2. /\ Whole(record') /\ record'.risk = record.risk
        /\ record'.reasons = sums \cup LossReasons(record.risk, riskCopy.pnl)
    BY <2>1 DEF Whole
  <2>3. Effective' = Effective
    BY <2>1 DEF Effective, Synced
  <2>4. Gathered' /\ DecisionReplays'
    BY <2>1, <2>2 DEF Gathered, DecisionReplays
  <2>5. FieldsKept'
    BY <2>1, <2>2, <2>3 DEF FieldsKept, Pending
  <2>6. \/ LossReasons(record.risk, riskCopy.pnl)
             = LossReasons(record.risk, record.risk.state.pnl)
        \/ "pnl" \in disturbed /\ Increase(record.risk) > 0
    <3>1. CASE "pnl" \notin disturbed
      BY <2>1, <3>1 DEF FieldsKept
    <3>2. CASE ~(Increase(record.risk) > 0)
      BY <3>2, ReasonsMatter
    <3> QED BY <3>1, <3>2
  <2>7. Compared'
    BY <2>1, <2>2, <2>6 DEF Compared
  <2> QED BY <2>4, <2>5, <2>7
<1>8. CASE CheckCooldown
  <2> DEFINE r == record.risk
             mode == record.data.mode
             reasons == record.reasons \cup CooldownReasons(r, riskCopy.last, mode)
  <2>1. /\ phase = "check cooldown" /\ phase' = "result" /\ Whole(record) /\ record.risk.used
        /\ figures' = "own" /\ UNCHANGED <<durable, disturbed>>
        /\ record' = [record EXCEPT !.reasons = reasons]
    BY <1>8 DEF CheckCooldown, Gathered
  <2>2. /\ Whole(record') /\ record'.risk = record.risk /\ record'.data = record.data
        /\ record'.reasons = reasons
    BY <2>1 DEF Whole
  <2>3. Gathered' /\ DecisionReplays'
    BY <2>1, <2>2 DEF Gathered, DecisionReplays
  <2>4. FieldsKept'
    BY <2>1 DEF FieldsKept, Pending
  <2>5. \/ CooldownReasons(r, riskCopy.last, mode) = CooldownReasons(r, r.state.last, mode)
        \/ Disturbed(record)
    <3>1. CASE "last" \notin disturbed
      BY <2>1, <3>1 DEF FieldsKept
    <3>2. CASE ~(Increase(r) > 0 /\ mode = "live")
      BY <3>2, ReasonsMatter
    <3>3. CASE "last" \in disturbed /\ Increase(r) > 0 /\ mode = "live"
      BY <2>1, <3>3 DEF Disturbed, Matters
    <3> QED BY <3>1, <3>2, <3>3
  <2>6. \/ record.reasons = SizeReasons(r) \cup LossReasons(r, r.state.pnl)
        \/ Disturbed(record)
    <3>1. "pnl" \in disturbed /\ Increase(r) > 0 => Disturbed(record)
      BY <2>1 DEF Disturbed, Matters
    <3> QED BY <2>1, <3>1 DEF Compared
  <2>7. ReplayedReasons(record)
          = SizeReasons(r) \cup LossReasons(r, r.state.pnl) \cup CooldownReasons(r, r.state.last, mode)
    BY <2>1 DEF ReplayedReasons, RiskReasons
  <2>8. reasons = ReplayedReasons(record) \/ Disturbed(record)
    BY <2>5, <2>6, <2>7
  <2>9. Compared'
    <3>1. ReplayedReasons(record)' = ReplayedReasons(record)
      BY <2>2 DEF ReplayedReasons, RiskReasons
    <3>2. Disturbed(record) => Disturbed(record)'
      BY <2>1, <2>2 DEF Disturbed, Matters
    <3> QED BY <2>1, <2>2, <2>8, <3>1, <3>2 DEF Compared
  <2> QED BY <2>3, <2>4, <2>9
<1>9. CASE TakeResult
  <2>1. /\ phase = "result" /\ phase' \in {"agent", "final"} /\ Whole(record) /\ record.risk.used
        /\ UNCHANGED <<durable, disturbed>>
        /\ record' = [record EXCEPT !.figures = figures]
    BY <1>9 DEF TakeResult, Gathered
  <2>2. /\ Whole(record') /\ record'.risk = record.risk /\ record'.data = record.data
        /\ record'.reasons = record.reasons /\ record'.figures = figures
    BY <2>1 DEF Whole
  <2>3. Gathered' /\ DecisionReplays'
    BY <2>1, <2>2 DEF Gathered, DecisionReplays
  <2>4. FieldsKept'
    BY <2>1 DEF FieldsKept, Pending
  <2>5. figures = "own" \/ Disturbed(record)
    BY <2>1 DEF FieldsKept, Disturbed, Matters
  <2>6. Compared'
    <3>1. ReplayedReasons(record)' = ReplayedReasons(record)
      BY <2>2 DEF ReplayedReasons, RiskReasons
    <3>2. Disturbed(record) => Disturbed(record)'
      BY <2>1, <2>2 DEF Disturbed, Matters
    <3> QED BY <2>1, <2>2, <2>5, <3>1, <3>2 DEF Compared
  <2> QED BY <2>3, <2>4, <2>6
<1>10. ASSUME NEW a, AskAgent(a) PROVE AuditInv'
  <2>1. /\ phase = "agent" /\ phase' = "final" /\ Whole(record)
        /\ record' = [record EXCEPT !.agent = a] /\ UNCHANGED <<durable, disturbed>>
    BY <1>10 DEF AskAgent, Gathered
  <2>2. /\ Whole(record') /\ record'.risk = record.risk /\ record'.data = record.data
        /\ record'.reasons = record.reasons /\ record'.figures = record.figures
    BY <2>1 DEF Whole
  <2>3. Gathered' /\ DecisionReplays'
    BY <2>1, <2>2 DEF Gathered, DecisionReplays
  <2>4. FieldsKept'
    BY <2>1 DEF FieldsKept, Pending
  <2>5. Compared'
    <3>1. ReplayedReasons(record)' = ReplayedReasons(record)
      BY <2>2 DEF ReplayedReasons, RiskReasons
    <3>2. Disturbed(record) => Disturbed(record)'
      BY <2>1, <2>2 DEF Disturbed, Matters
    <3> QED BY <2>1, <2>2, <3>1, <3>2 DEF Compared
  <2> QED BY <2>3, <2>4, <2>5
<1>11. ASSUME NEW known \in BOOLEAN, NEW stored \in BOOLEAN, RecordDecision(known, stored)
       PROVE  AuditInv'
  <2>1. /\ phase = "final" /\ phase' = "done" /\ Whole(record)
        /\ record' = Decision(known) /\ disturbed' = disturbed
        /\ durable' \in {Decision(known), NotStored}
        /\ record.reasons = ReplayedReasons(record) \/ Disturbed(record)
        /\ record.figures = "own" \/ Disturbed(record)
    BY <1>11 DEF RecordDecision, Gathered, Compared
  <2>2. /\ Whole(record') /\ Decision(known).risk = record.risk
        /\ Decision(known).data = record.data
    BY <2>1 DEF Whole, Decision
  <2>3. ExactMatch(Decision(known)) \/ \E f \in disturbed : Matters(Decision(known), f)
    <3>1. CASE Disturbed(record)
      BY <2>2, <3>1 DEF Disturbed, Matters
    <3> QED BY <2>1, <3>1, RecordedReplays
  <2>4. DecisionReplays'
    <3>1. CASE durable' = NotStored
      BY <3>1 DEF DecisionReplays
    <3>2. CASE durable' = record'
      <4>1. ExactMatch(durable)' \/ \E f \in disturbed' : Matters(durable, f)'
        BY <2>1, <2>3, <3>2 DEF ExactMatch, Matters
      <4> QED BY <4>1 DEF DecisionReplays
    <3> QED BY <2>1, <3>1, <3>2
  <2>5. Gathered' /\ FieldsKept' /\ Compared'
    BY <2>1, <2>2 DEF Gathered, FieldsKept, Pending, Compared
  <2> QED BY <2>4, <2>5
<1>12. ASSUME NEW s \in RiskStates, NEW up \in BOOLEAN, MoveSharedState(s, up) PROVE AuditInv'
  BY <1>12, OthersStep DEF MoveSharedState, AuditInv
<1>13. ASSUME NEW f \in {"pnl", "last"}, ThreadCopies(f) PROVE AuditInv'
  BY <1>13, OthersStep DEF ThreadCopies, AuditInv
<1>14. ASSUME NEW rolls \in BOOLEAN, NEW time \in Action \cup {0},
              NEW theirs \in {"finite", "infinite"}, ThreadChecks(rolls, time, theirs)
       PROVE  AuditInv'
  BY <1>14, OthersStep DEF ThreadChecks, AuditInv
<1> QED
  BY <1>1, <1>2, <1>3, <1>4, <1>5, <1>6, <1>7, <1>8, <1>9, <1>10, <1>11, <1>12, <1>13, <1>14
     DEF AuditNext

\* A stored decision replays exactly, for any positions, prices, limits and
\* moves of the shared state and whatever the other threads of the process do;
\* only a change to a field that it depends on, between record and use, excuses it.
THEOREM StoredReplays == AuditSpec => []DecisionReplays
<1>1. AuditInit => AuditInv
  BY DEF AuditInit, AuditInv, Gathered, FieldsKept, Compared, Pending, DecisionReplays
<1>2. AuditInv => DecisionReplays
  BY DEF AuditInv
<1> QED
  BY <1>1, <1>2, AuditStep, PTL DEF AuditSpec

-----------------------------------------------------------------------------
(* The paper ledger.                                                       *)

\* What a thread has written is the position as long as it was the last to.
HeldIsWritten ==
    \A t \in Trader : step[t] = "store" /\ last[order[t].market] = t =>
        held[t].size = position[order[t].market].size

\* Without a race the position is the sum of the fills, and the fill that is
\* about to be written adds its order to it.
SizesAgree ==
    \A m \in Market \ raced :
        /\ position[m].size = traded[m].size
        /\ \A t \in Filling(m) : held[t].size = position[m].size + order[t].size
        /\ \A t, u \in Filling(m) : t = u

LedgerIInv == LedgerTypeOK /\ HeldIsWritten /\ SizesAgree /\ DurablePositionCatchesUp

-----------------------------------------------------------------------------
(* What a fill makes of an entry.                                          *)

\* Arithmetic that the average entry needs: the division of weights,
LEMMA Quotient ==
  ASSUME NEW a \in Nat, NEW b \in Nat \ {0}
  PROVE  a \div b \in Nat
  OBVIOUS

\* their product,
LEMMA Product ==
  ASSUME NEW a \in Nat, NEW b \in Nat
  PROVE  a * b \in Nat
  OBVIOUS

\* the profit of a short,
LEMMA Turned ==
  ASSUME NEW a \in Int, NEW b \in Int, NEW c \in Int
  PROVE  (-a) * (b - c) = a * (c - b)
  OBVIOUS

\* and an exact average leaves the profit at any price as it was.
LEMMA Averaged ==
  ASSUME NEW a \in Int, NEW b \in Int, NEW p \in Int, NEW n \in Int, NEW x \in Int,
         (a + b) * n = a * x + b * p
  PROVE  (a + b) * (p - n) = a * (p - x)
  OBVIOUS

\* A magnitude is a natural number, positive unless of zero.
LEMMA Magnitudes ==
  ASSUME NEW n \in Int
  PROVE  Magnitude(n) \in Nat /\ (n # 0 => Magnitude(n) \in Nat \ {0})
  BY DEF Magnitude

\* The new average entry is a price.
LEMMA NewEntryType ==
  ASSUME NEW e \in Entries, NEW s \in Int \ {0}, NEW p \in Nat, e.size + s # 0
  PROVE  NewEntry(e, s, p) \in Nat
<1>1. e.size \in Int /\ e.entry \in Nat
  BY DEF Entries
<1>2. Magnitude(e.size) * e.entry \in Nat
  BY <1>1, Magnitudes, Product
<1>3. Magnitude(s) * p \in Nat
  BY Magnitudes, Product
<1>4. Magnitude(e.size + s) \in Nat \ {0}
  BY <1>1, Magnitudes
<1>5. (Magnitude(e.size) * e.entry + Magnitude(s) * p) \div Magnitude(e.size + s) \in Nat
  BY <1>2, <1>3, <1>4, Quotient
<1> QED
  BY <1>1, <1>5 DEF NewEntry

\* Over prices that slippage has taken below zero it is still a whole number.
Amounts == [size : Int, entry : Int, mark : Int]

LEMMA NewEntryWhole ==
  ASSUME NEW e \in Amounts, NEW s \in Int \ {0}, NEW p \in Int, e.size + s # 0
  PROVE  NewEntry(e, s, p) \in Int
<1>1. e.size \in Int /\ e.entry \in Int
  BY DEF Amounts
<1> DEFINE v == Magnitude(e.size) * e.entry
           w == Magnitude(s) * p
           d == Magnitude(e.size + s)
<1>2. v \in Int /\ w \in Int /\ d \in Nat \ {0}
  BY <1>1, Magnitudes
<1>3. NewEntry(e, s, p) \in {p, e.entry, (v + w) \div d}
  BY DEF NewEntry
<1> HIDE DEF v, w, d
<1>4. (v + w) \div d \in Int
  BY <1>2
<1> QED
  BY <1>1, <1>3, <1>4

\* A fill makes a position of a position, of the size that adding gives; none is
\* left of a closed one.
LEMMA FilledType ==
  ASSUME NEW e \in Entries, NEW s \in Int \ {0}, NEW p \in Nat
  PROVE  /\ Filled(e, s, p) \in Entries
         /\ Filled(e, s, p).size = e.size + s
         /\ Filled(e, s, p).size = 0 => Filled(e, s, p) = Flat
<1>1. e.size \in Int
  BY DEF Entries
<1>2. CASE e.size + s = 0
  BY <1>2 DEF Filled, Flat, Entries
<1>3. CASE e.size + s # 0
  <2>1. NewEntry(e, s, p) \in Nat
    BY <1>3, NewEntryType
  <2> QED
    BY <1>1, <1>3, <2>1 DEF Filled, Entries
<1> QED
  BY <1>2, <1>3

\* A mark to market keeps the size of a position.
LEMMA MarkedType ==
  ASSUME NEW e \in Entries, NEW p \in Nat, e.size = 0 => e = Flat
  PROVE  /\ Marked(e, p) \in Entries
         /\ Marked(e, p).size = e.size
         /\ Marked(e, p).size = 0 => Marked(e, p) = Flat
  BY DEF Marked, Entries

\* What a fill realises is a number.
LEMMA GrossType ==
  ASSUME NEW e \in Amounts, NEW s \in Int, NEW p \in Int
  PROVE  GrossRealized(e, s, p) \in Int
<1>1. e.size \in Int /\ e.entry \in Int
  BY DEF Amounts
<1>2. ClosingQuantity(e, s) \in Int
  BY <1>1 DEF ClosingQuantity, Smaller, Magnitude
<1> QED
  BY <1>1, <1>2 DEF GrossRealized

\* A fill neither makes nor loses money: what it realises, and what is left open
\* at its price, are what the position before it had gained at that price --
\* whether it opens, adds, reduces, closes or flips.  Where it adds, the average
\* entry is to be exact; money is in integers here.
THEOREM FillConserves ==
  ASSUME NEW e \in Amounts, NEW s \in Int \ {0}, NEW p \in Int,
         ExactAverage(e, s, p)
  PROVE  GrossRealized(e, s, p) + Unrealized(Filled(e, s, p)) = e.size * (p - e.entry)
<1>1. e.size \in Int /\ e.entry \in Int
  BY DEF Amounts
<1>2. CASE e.size + s = 0
  <2>1. Unrealized(Filled(e, s, p)) = 0
    BY <1>2 DEF Filled, Flat, Unrealized
  <2>2. GrossRealized(e, s, p) = e.size * (p - e.entry)
    <3>1. CASE e.size > 0
      BY <1>1, <1>2, <3>1 DEF GrossRealized, ClosingQuantity, SameSign, Smaller, Magnitude
    <3>2. CASE e.size < 0
      <4>1. ClosingQuantity(e, s) = -e.size
        BY <1>1, <1>2, <3>2 DEF ClosingQuantity, SameSign, Smaller, Magnitude
      <4>2. (-e.size) * (e.entry - p) = e.size * (p - e.entry)
        BY <1>1, Turned
      <4> QED
        BY <1>1, <3>2, <4>1, <4>2 DEF GrossRealized
    <3> QED
      BY <1>1, <1>2, <3>1, <3>2
  <2> QED
    BY <1>1, <2>1, <2>2
<1>3. CASE e.size + s # 0
  <2> DEFINE n == NewEntry(e, s, p)
  <2>1. n \in Int
    BY <1>3, NewEntryWhole
  <2>2. Unrealized(Filled(e, s, p)) = (e.size + s) * (p - n)
    BY <1>3 DEF Filled, Unrealized
  <2>3. CASE e.size = 0
    <3>1. n = p /\ GrossRealized(e, s, p) = 0
      BY <1>1, <2>3 DEF NewEntry, GrossRealized, ClosingQuantity
    <3> QED
      BY <1>1, <2>2, <2>3, <3>1
  <2>4. CASE e.size # 0 /\ SameSign(e.size, s)
    <3>1. GrossRealized(e, s, p) = 0
      BY <1>1, <2>4 DEF GrossRealized, ClosingQuantity
    <3>2. Magnitude(e.size + s) * n = Magnitude(e.size) * e.entry + Magnitude(s) * p
      BY <2>4 DEF ExactAverage
    <3>3. (e.size + s) * n = e.size * e.entry + s * p
      <4> HIDE DEF n
      <4>1. CASE e.size > 0
        BY <1>1, <2>1, <2>4, <3>2, <4>1 DEF SameSign, Magnitude
      <4>2. CASE e.size < 0
        BY <1>1, <2>1, <2>4, <3>2, <4>2 DEF SameSign, Magnitude
      <4> QED
        BY <1>1, <2>4, <4>1, <4>2
    <3> HIDE DEF n
    <3>4. (e.size + s) * (p - n) = e.size * (p - e.entry)
      <4> DEFINE a == e.size  x == e.entry
      <4>1. a \in Int /\ s \in Int /\ x \in Int /\ (a + s) * n = a * x + s * p
        BY <1>1, <3>3
      <4> HIDE DEF a, x
      <4>2. (a + s) * (p - n) = a * (p - x)
        BY <2>1, <4>1, Averaged
      <4> QED
        BY <4>2 DEF a, x
    <3> QED
      BY <1>1, <2>2, <3>1, <3>4
  <2>5. CASE e.size # 0 /\ ~SameSign(e.size, s) /\ Magnitude(s) > Magnitude(e.size)
    <3>1. n = p
      BY <2>5 DEF NewEntry
    <3>2. GrossRealized(e, s, p) = e.size * (p - e.entry)
      BY <1>1, <2>5 DEF GrossRealized, ClosingQuantity, SameSign, Smaller, Magnitude
    <3> QED
      BY <1>1, <2>2, <3>1, <3>2
  <2>6. CASE e.size # 0 /\ ~SameSign(e.size, s) /\ ~(Magnitude(s) > Magnitude(e.size))
    <3>1. n = e.entry
      BY <2>6 DEF NewEntry
    <3>2. GrossRealized(e, s, p) = (-s) * (p - e.entry)
      <4>1. CASE e.size > 0
        <5>1. ClosingQuantity(e, s) = -s
          BY <1>1, <2>6, <4>1 DEF ClosingQuantity, SameSign, Smaller, Magnitude
        <5> QED
          BY <1>1, <4>1, <5>1 DEF GrossRealized
      <4>2. CASE e.size < 0
        <5>1. ClosingQuantity(e, s) = s
          BY <1>1, <2>6, <4>2 DEF ClosingQuantity, SameSign, Smaller, Magnitude
        <5>2. (-s) * (p - e.entry) = s * (e.entry - p)
          BY <1>1, Turned
        <5> QED
          BY <1>1, <4>2, <5>1, <5>2 DEF GrossRealized
      <4> QED
        BY <1>1, <2>6, <4>1, <4>2
    <3> QED
      BY <1>1, <2>2, <3>1, <3>2
  <2> QED
    BY <2>3, <2>4, <2>5, <2>6
<1> QED
  BY <1>2, <1>3

-----------------------------------------------------------------------------
(* Each step keeps the invariant.                                          *)

\* A thread at work has an order.
LEMMA OrderKnown ==
  ASSUME LedgerTypeOK, NEW t \in Trader, step[t] # "idle"
  PROVE  /\ order[t] \in Orders
         /\ order[t].market \in Market /\ order[t].size \in Int \ {0} /\ order[t].price \in Nat \ {0}
<1>1. order[t] \in Orders
  BY DEF LedgerTypeOK
<1> QED
  BY <1>1, LedgerAssumption DEF LedgerAssumption, Orders

\* An order is not taken for none: its size is not zero.
LEMMA OrderIsOne ==
  ASSUME NEW o \in Orders
  PROVE  o # Nothing /\ o.market \in Market /\ o.size \in Int \ {0} /\ o.price \in Nat \ {0}
<1>1. o.market \in Market /\ o.size \in Int \ {0} /\ o.price \in Nat \ {0}
  BY LedgerAssumption DEF LedgerAssumption, Orders
<1>2. Nothing.size = 0
  BY DEF Nothing
<1> QED
  BY <1>1, <1>2

\* A mark to market keeps the invariant, the race with a fill included.
LEMMA MarkStep ==
  ASSUME LedgerIInv, NEW t \in Trader, NEW o \in Orders, MarkPosition(t, o)
  PROVE  LedgerIInv'
<1> DEFINE m == o.market
<1>1. /\ step[t] = "idle" /\ sent < MaxFills /\ sent' = sent + 1
      /\ position' = [position EXCEPT ![m] = Marked(position[m], o.price)]
      /\ order' = [order EXCEPT ![t] = o]
      /\ step' = [step EXCEPT ![t] = "fill"]
      /\ UNCHANGED <<gross, latest, held, traded, raced, last, behind, mishaps>>
  BY DEF MarkPosition
<1>2. o # Nothing /\ m \in Market /\ o.price \in Nat
  BY OrderIsOne
<1>3. /\ Marked(position[m], o.price) \in Entries
      /\ Marked(position[m], o.price).size = position[m].size
      /\ Marked(position[m], o.price).size = 0 => Marked(position[m], o.price) = Flat
  BY <1>2, MarkedType DEF LedgerIInv, LedgerTypeOK
<1> HIDE DEF m
<1>4. \A n \in Market : position'[n].size = position[n].size
  BY <1>1, <1>3 DEF LedgerIInv, LedgerTypeOK
<1>5. \A u \in Trader : u # t => step'[u] = step[u] /\ order'[u] = order[u]
  BY <1>1 DEF LedgerIInv, LedgerTypeOK
<1>6. step'[t] = "fill" /\ order'[t] = o
  BY <1>1 DEF LedgerIInv, LedgerTypeOK
<1>7. LedgerTypeOK'
  <2>1. sent' \in 0..MaxFills
    <3>1. sent \in 0..MaxFills /\ MaxFills \in Nat
      BY LedgerAssumption DEF LedgerAssumption, LedgerIInv, LedgerTypeOK
    <3> QED
      BY <1>1, <3>1
  <2>2. position' \in [Market -> Entries] /\ \A n \in Market : position'[n].size = 0 => position'[n] = Flat
    BY <1>1, <1>3 DEF LedgerIInv, LedgerTypeOK
  <2>3. step' \in [Trader -> Steps] /\ order' \in [Trader -> Orders \cup {Nothing}]
    BY <1>1 DEF LedgerIInv, LedgerTypeOK, Steps
  <2>4. \A u \in Trader : /\ step'[u] = "idle" <=> order'[u] = Nothing
                          /\ held[u].size = 0 => held[u] = Flat
    BY <1>2, <1>5, <1>6 DEF LedgerIInv, LedgerTypeOK
  <2> QED
    BY <1>1, <2>1, <2>2, <2>3, <2>4 DEF LedgerIInv, LedgerTypeOK
<1>8. HeldIsWritten'
  <2> SUFFICES ASSUME NEW u \in Trader, step'[u] = "store", last[order'[u].market] = u
               PROVE  held[u].size = position'[order'[u].market].size
    BY <1>1 DEF HeldIsWritten
  <2>1. u # t /\ step[u] = "store" /\ order'[u] = order[u]
    BY <1>5, <1>6
  <2>2. order[u].market \in Market
    BY <2>1, OrderKnown DEF LedgerIInv
  <2> QED
    BY <1>4, <2>1, <2>2 DEF LedgerIInv, HeldIsWritten
<1>9. \A n \in Market : Filling(n)' = Filling(n)
  BY <1>1, <1>5, <1>6 DEF Filling
<1>10. SizesAgree'
  <2> SUFFICES ASSUME NEW n \in Market \ raced
               PROVE  /\ position'[n].size = traded[n].size
                      /\ \A u \in Filling(n) : held[u].size = position'[n].size + order'[u].size
                      /\ \A u, v \in Filling(n) : u = v
    BY <1>1, <1>9 DEF SizesAgree
  <2>1. \A u \in Filling(n) : u # t /\ order'[u] = order[u]
    BY <1>1, <1>5 DEF Filling
  <2> QED
    BY <1>4, <2>1 DEF LedgerIInv, SizesAgree
<1>11. DurablePositionCatchesUp'
  BY <1>1, <1>4 DEF LedgerIInv, DurablePositionCatchesUp
<1> QED
  BY <1>7, <1>8, <1>10, <1>11 DEF LedgerIInv

\* The types after the end of a thread's order.
LEMMA FinishType ==
  ASSUME LedgerIInv, NEW t \in Trader, Finish(t)
  PROVE  /\ step' \in [Trader -> Steps] /\ order' \in [Trader -> Orders \cup {Nothing}]
         /\ held' \in [Trader -> Entries]
         /\ \A u \in Trader : /\ step'[u] = "idle" <=> order'[u] = Nothing
                              /\ held'[u].size = 0 => held'[u] = Flat
         /\ step'[t] = "idle"
         /\ \A u \in Trader : u # t => step'[u] = step[u] /\ order'[u] = order[u] /\ held'[u] = held[u]
<1>1. Flat \in Entries
  BY DEF Flat, Entries
<1>2. /\ step' = [step EXCEPT ![t] = "idle"]
      /\ order' = [order EXCEPT ![t] = Nothing]
      /\ held' = [held EXCEPT ![t] = Flat]
  BY DEF Finish
<1>3. step' \in [Trader -> Steps] /\ order' \in [Trader -> Orders \cup {Nothing}]
      /\ held' \in [Trader -> Entries]
  BY <1>1, <1>2 DEF LedgerIInv, LedgerTypeOK, Steps
<1>4. step'[t] = "idle" /\ order'[t] = Nothing /\ held'[t] = Flat
  BY <1>2 DEF LedgerIInv, LedgerTypeOK
<1>5. \A u \in Trader : u # t => step'[u] = step[u] /\ order'[u] = order[u] /\ held'[u] = held[u]
  BY <1>2 DEF LedgerIInv, LedgerTypeOK
<1> QED
  BY <1>3, <1>4, <1>5 DEF LedgerIInv, LedgerTypeOK

\* A thread that ends, before its fill or after it, takes nothing with it.
LEMMA FinishRest ==
  ASSUME LedgerIInv, NEW t \in Trader, Finish(t), step[t] # "write",
         UNCHANGED <<position, traded, raced, last>>
  PROVE  HeldIsWritten' /\ SizesAgree'
<1>1. /\ step'[t] = "idle"
      /\ \A u \in Trader : u # t => step'[u] = step[u] /\ order'[u] = order[u] /\ held'[u] = held[u]
  BY FinishType
<1>2. HeldIsWritten'
  BY <1>1 DEF LedgerIInv, HeldIsWritten
<1>3. \A n \in Market : Filling(n)' = Filling(n)
  BY <1>1 DEF Filling
<1>4. \A n \in Market : \A u \in Filling(n) : u \in Trader /\ u # t
  BY DEF Filling
<1> QED
  BY <1>1, <1>2, <1>3, <1>4 DEF LedgerIInv, SizesAgree

\* A refused order keeps it.
LEMMA RefuseStep ==
  ASSUME LedgerIInv, NEW t \in Trader, RefuseOrder(t)
  PROVE  LedgerIInv'
<1>1. /\ step[t] = "fill" /\ Finish(t)
      /\ UNCHANGED <<position, gross, latest, traded, raced, last, behind, sent, mishaps>>
  BY DEF RefuseOrder
<1>2. LedgerTypeOK'
  BY <1>1, FinishType DEF LedgerIInv, LedgerTypeOK
<1>3. DurablePositionCatchesUp'
  BY <1>1 DEF LedgerIInv, DurablePositionCatchesUp
<1> QED
  BY <1>1, <1>2, <1>3, FinishRest DEF LedgerIInv

\* Reading the position and booking the fill keep it.
LEMMA BookStep ==
  ASSUME LedgerIInv, NEW t \in Trader, BookFill(t)
  PROVE  LedgerIInv'
<1> DEFINE o == order[t]
           m == order[t].market
           f == Filled(position[m], o.size, o.price)
<1>1. /\ step[t] = "fill"
      /\ gross' = gross + GrossRealized(position[m], o.size, o.price)
      /\ held' = [held EXCEPT ![t] = f]
      /\ raced' = IF Filling(m) = {} THEN raced ELSE raced \cup {m}
      /\ step' = [step EXCEPT ![t] = "write"]
      /\ UNCHANGED <<position, latest, order, traded, last, behind, sent, mishaps>>
  BY DEF BookFill
<1>2. m \in Market /\ o.size \in Int \ {0} /\ o.price \in Nat
  BY <1>1, OrderKnown DEF LedgerIInv
<1>3. f \in Entries /\ f.size = position[m].size + o.size /\ (f.size = 0 => f = Flat)
  BY <1>2, FilledType DEF LedgerIInv, LedgerTypeOK
<1>4. GrossRealized(position[m], o.size, o.price) \in Int
  BY <1>2, GrossType DEF LedgerIInv, LedgerTypeOK, Entries, Amounts
<1> HIDE DEF f
<1>5. step'[t] = "write" /\ held'[t] = f
  BY <1>1 DEF LedgerIInv, LedgerTypeOK
<1>6. \A u \in Trader : u # t => step'[u] = step[u] /\ held'[u] = held[u]
  BY <1>1 DEF LedgerIInv, LedgerTypeOK
<1>7. LedgerTypeOK'
  <2>1. gross' \in Int
    BY <1>1, <1>4 DEF LedgerIInv, LedgerTypeOK
  <2>2. held' \in [Trader -> Entries] /\ step' \in [Trader -> Steps]
    BY <1>1, <1>3 DEF LedgerIInv, LedgerTypeOK, Steps
  <2>3. raced' \subseteq Market
    BY <1>1, <1>2 DEF LedgerIInv, LedgerTypeOK
  <2>4. \A u \in Trader : /\ step'[u] = "idle" <=> order[u] = Nothing
                          /\ held'[u].size = 0 => held'[u] = Flat
    BY <1>1, <1>3, <1>5, <1>6 DEF LedgerIInv, LedgerTypeOK
  <2> QED
    BY <1>1, <2>1, <2>2, <2>3, <2>4 DEF LedgerIInv, LedgerTypeOK
<1>8. HeldIsWritten'
  BY <1>1, <1>5, <1>6 DEF LedgerIInv, HeldIsWritten
<1>9. SizesAgree'
  <2> SUFFICES ASSUME NEW n \in Market \ raced'
               PROVE  /\ position[n].size = traded[n].size
                      /\ \A u \in Filling(n)' : held'[u].size = position[n].size + order[u].size
                      /\ \A u, v \in Filling(n)' : u = v
    BY <1>1 DEF SizesAgree
  <2>1. n \notin raced
    BY <1>1
  <2>2. CASE n = m
    <3>1. Filling(m) = {}
      BY <1>1, <2>2
    <3>2. Filling(n)' = {t}
      BY <1>1, <1>5, <1>6, <2>2, <3>1 DEF Filling
    <3> QED
      BY <1>3, <1>5, <2>1, <2>2, <3>2 DEF LedgerIInv, SizesAgree
  <2>3. CASE n # m
    <3>1. Filling(n)' = Filling(n) /\ t \notin Filling(n) /\ Filling(n) \subseteq Trader
      BY <1>1, <1>6, <2>3 DEF Filling
    <3> QED
      BY <1>6, <2>1, <3>1 DEF LedgerIInv, SizesAgree
  <2> QED
    BY <2>2, <2>3
<1>10. DurablePositionCatchesUp'
  BY <1>1 DEF LedgerIInv, DurablePositionCatchesUp
<1> QED
  BY <1>7, <1>8, <1>9, <1>10 DEF LedgerIInv

\* Writing the position keeps it.
LEMMA WriteStep ==
  ASSUME LedgerIInv, NEW t \in Trader, WritePosition(t)
  PROVE  LedgerIInv'
<1> DEFINE o == order[t]
           m == order[t].market
<1>1. /\ step[t] = "write"
      /\ position' = [position EXCEPT ![m] = held[t]]
      /\ traded' = [traded EXCEPT ![m] = [size |-> traded[m].size + o.size,
                                         cash |-> traded[m].cash - o.size * o.price]]
      /\ last' = [last EXCEPT ![m] = t]
      /\ behind' = behind \cup {m}
      /\ step' = [step EXCEPT ![t] = "store"]
      /\ UNCHANGED <<gross, latest, order, held, raced, sent, mishaps>>
  BY DEF WritePosition
<1>2. m \in Market /\ o.size \in Int /\ o.price \in Int
  BY <1>1, OrderKnown DEF LedgerIInv
<1>3. /\ \A n \in Market : position'[n] = IF n = m THEN held[t] ELSE position[n]
      /\ \A n \in Market : last'[n] = IF n = m THEN t ELSE last[n]
      /\ \A n \in Market : n # m => traded'[n] = traded[n]
      /\ traded'[m].size = traded[m].size + o.size
  BY <1>1, <1>2 DEF LedgerIInv, LedgerTypeOK
<1>4. step'[t] = "store" /\ \A u \in Trader : u # t => step'[u] = step[u]
  BY <1>1 DEF LedgerIInv, LedgerTypeOK
<1>5. LedgerTypeOK'
  <2>1. position' \in [Market -> Entries] /\ \A n \in Market : position'[n].size = 0 => position'[n] = Flat
    BY <1>1, <1>3 DEF LedgerIInv, LedgerTypeOK
  <2>2. traded' \in [Market -> [size : Int, cash : Int]]
    <3>1. o.size * o.price \in Int /\ traded[m].size \in Int /\ traded[m].cash \in Int
      BY <1>2 DEF LedgerIInv, LedgerTypeOK
    <3>2. /\ traded[m].size + o.size \in Int
          /\ traded[m].cash - o.size * o.price \in Int
      BY <1>2, <3>1
    <3> QED
      BY <1>1, <3>2 DEF LedgerIInv, LedgerTypeOK
  <2>3. step' \in [Trader -> Steps] /\ last' \in [Market -> Trader \cup {NoOrder}]
    BY <1>1 DEF LedgerIInv, LedgerTypeOK, Steps
  <2>4. \A u \in Trader : /\ step'[u] = "idle" <=> order[u] = Nothing
                          /\ held[u].size = 0 => held[u] = Flat
    BY <1>1, <1>4 DEF LedgerIInv, LedgerTypeOK
  <2>5. behind' \subseteq Market
    BY <1>1, <1>2 DEF LedgerIInv, LedgerTypeOK
  <2> QED
    BY <1>1, <2>1, <2>2, <2>3, <2>4, <2>5 DEF LedgerIInv, LedgerTypeOK
<1>6. HeldIsWritten'
  <2> SUFFICES ASSUME NEW u \in Trader, step'[u] = "store", last'[order[u].market] = u
               PROVE  held[u].size = position'[order[u].market].size
    BY <1>1 DEF HeldIsWritten
  <2>1. CASE u = t
    BY <1>2, <1>3, <2>1
  <2>2. CASE u # t
    <3>1. step[u] = "store" /\ order[u].market \in Market
      BY <1>4, <2>2, OrderKnown DEF LedgerIInv
    <3>2. order[u].market # m /\ last[order[u].market] = u
      BY <1>3, <2>2, <3>1
    <3> QED
      BY <1>3, <3>1, <3>2 DEF LedgerIInv, HeldIsWritten
  <2> QED
    BY <2>1, <2>2
<1>7. SizesAgree'
  <2> SUFFICES ASSUME NEW n \in Market \ raced
               PROVE  /\ position'[n].size = traded'[n].size
                      /\ \A u \in Filling(n)' : held[u].size = position'[n].size + order[u].size
                      /\ \A u, v \in Filling(n)' : u = v
    BY <1>1 DEF SizesAgree
  <2>1. /\ position[n].size = traded[n].size
        /\ \A u \in Filling(n) : held[u].size = position[n].size + order[u].size
        /\ \A u, v \in Filling(n) : u = v
    BY DEF LedgerIInv, SizesAgree
  <2>2. CASE n = m
    <3>1. t \in Filling(m)
      BY <1>1 DEF Filling
    <3>2. Filling(n)' = {}
      BY <1>1, <1>4, <2>1, <2>2, <3>1 DEF Filling
    <3>3. position'[m].size = traded'[m].size
      BY <1>2, <1>3, <2>1, <2>2, <3>1
    <3> QED
      BY <2>2, <3>2, <3>3
  <2>3. CASE n # m
    <3>1. Filling(n)' = Filling(n)
      BY <1>1, <1>4, <2>3 DEF Filling
    <3> QED
      BY <1>3, <2>1, <2>3, <3>1
  <2> QED
    BY <2>2, <2>3
<1>8. DurablePositionCatchesUp'
  BY <1>1, <1>3 DEF LedgerIInv, DurablePositionCatchesUp
<1> QED
  BY <1>5, <1>6, <1>7, <1>8 DEF LedgerIInv

\* A store that fails counts as a mishap within the bound.
LEMMA MishapType ==
  ASSUME LedgerTypeOK, NEW ok \in BOOLEAN, Mishap(ok)
  PROVE  mishaps' \in 0..MaxMishaps
<1>1. mishaps \in 0..MaxMishaps /\ MaxMishaps \in Nat
  BY LedgerAssumption DEF LedgerAssumption, LedgerTypeOK
<1>2. \/ mishaps' = mishaps
      \/ mishaps < MaxMishaps /\ mishaps' = mishaps + 1
  BY DEF Mishap
<1> QED
  BY <1>1, <1>2

\* Storing the row, or failing to, keeps the invariant.
LEMMA StoreStep ==
  ASSUME LedgerIInv, NEW t \in Trader, NEW ok \in BOOLEAN, StoreFill(t, ok)
  PROVE  LedgerIInv'
<1> DEFINE m == order[t].market
<1>1. /\ step[t] = "store" /\ Mishap(ok) /\ Finish(t)
      /\ latest' = IF ok THEN [latest EXCEPT ![m] = RowOf(held[t], order[t])] ELSE latest
      /\ behind' = IF ~ok THEN behind
                   ELSE IF last[m] = t THEN behind \ {m} ELSE behind \cup {m}
      /\ UNCHANGED <<position, gross, traded, raced, last, sent>>
  BY DEF StoreFill
<1>2. m \in Market /\ order[t].price \in Nat
  BY <1>1, OrderKnown DEF LedgerIInv
<1>3. RowOf(held[t], order[t]) \in [size : Int, entry : Nat] /\ RowOf(held[t], order[t]).size = held[t].size
  <2>1. held[t] \in [size : Int, entry : Nat, mark : Nat]
    BY DEF LedgerIInv, LedgerTypeOK, Entries
  <2> QED
    BY <1>2, <2>1 DEF RowOf
<1>4. LedgerTypeOK'
  <2>1. latest' \in [Market -> [size : Int, entry : Nat]]
    BY <1>1, <1>3 DEF LedgerIInv, LedgerTypeOK
  <2>2. behind' \subseteq Market
    BY <1>1, <1>2 DEF LedgerIInv, LedgerTypeOK
  <2>3. mishaps' \in 0..MaxMishaps
    BY <1>1, MishapType DEF LedgerIInv
  <2> QED
    BY <1>1, <2>1, <2>2, <2>3, FinishType DEF LedgerIInv, LedgerTypeOK
<1>5. DurablePositionCatchesUp'
  <2> SUFFICES ASSUME NEW n \in Market, n \notin behind' PROVE latest'[n].size = position[n].size
    BY <1>1 DEF DurablePositionCatchesUp
  <2>1. CASE ok /\ n = m
    <3>1. last[m] = t
      BY <1>1, <2>1
    <3>2. latest'[m].size = held[t].size
      BY <1>1, <1>2, <1>3, <2>1 DEF LedgerIInv, LedgerTypeOK
    <3> QED
      BY <1>1, <2>1, <3>1, <3>2 DEF LedgerIInv, HeldIsWritten
  <2>2. CASE ~(ok /\ n = m)
    <3>1. n \notin behind /\ latest'[n] = latest[n]
      BY <1>1, <2>2 DEF LedgerIInv, LedgerTypeOK
    <3> QED
      BY <3>1 DEF LedgerIInv, DurablePositionCatchesUp
  <2> QED
    BY <2>1, <2>2
<1> QED
  BY <1>1, <1>4, <1>5, FinishRest DEF LedgerIInv

\* A process that starts has no positions and no threads.
LEMMA RestartStep ==
  ASSUME LedgerIInv, RestartLedger
  PROVE  LedgerIInv'
<1>1. /\ position' = [m \in Market |-> Flat]
      /\ gross' = 0
      /\ step' = [t \in Trader |-> "idle"]
      /\ order' = [t \in Trader |-> Nothing]
      /\ held' = [t \in Trader |-> Flat]
      /\ traded' = [m \in Market |-> [size |-> 0, cash |-> 0]]
      /\ last' = [m \in Market |-> NoOrder]
      /\ raced' = {} /\ behind' = {m \in Market : latest[m].size # 0}
      /\ UNCHANGED <<latest, sent>>
  BY DEF RestartLedger
<1>2. Flat \in Entries /\ Flat.size = 0
  BY DEF Flat, Entries
<1>3. mishaps' \in 0..MaxMishaps
  <2>1. mishaps \in 0..MaxMishaps /\ MaxMishaps \in Nat
    BY LedgerAssumption DEF LedgerAssumption, LedgerIInv, LedgerTypeOK
  <2> QED
    BY <2>1 DEF RestartLedger
<1>4. LedgerTypeOK'
  <2>1. position' \in [Market -> Entries] /\ \A m \in Market : position'[m].size = 0 => position'[m] = Flat
    BY <1>1, <1>2
  <2>2. step' \in [Trader -> Steps] /\ order' \in [Trader -> Orders \cup {Nothing}]
        /\ held' \in [Trader -> Entries]
    BY <1>1, <1>2 DEF Steps
  <2>3. \A t \in Trader : /\ step'[t] = "idle" <=> order'[t] = Nothing
                          /\ held'[t].size = 0 => held'[t] = Flat
    BY <1>1
  <2>4. traded' \in [Market -> [size : Int, cash : Int]] /\ last' \in [Market -> Trader \cup {NoOrder}]
    BY <1>1
  <2> QED
    BY <1>1, <1>3, <2>1, <2>2, <2>3, <2>4 DEF LedgerIInv, LedgerTypeOK
<1>5. HeldIsWritten' /\ DurablePositionCatchesUp'
  BY <1>1, <1>2 DEF HeldIsWritten, DurablePositionCatchesUp
<1>6. \A m \in Market : Filling(m)' = {}
  BY <1>1 DEF Filling
<1>7. SizesAgree'
  BY <1>1, <1>2, <1>6 DEF SizesAgree
<1> QED
  BY <1>4, <1>5, <1>7 DEF LedgerIInv

\* The invariant holds of an empty ledger.
THEOREM LedgerInitially == LedgerInit => LedgerIInv
<1> SUFFICES ASSUME LedgerInit PROVE LedgerIInv
  OBVIOUS
<1>1. Flat \in Entries /\ Flat.size = 0 /\ NoRow \in [size : Int, entry : Nat] /\ NoRow.size = 0
  BY DEF Flat, Entries, NoRow
<1>2. LedgerTypeOK
  <2>1. 0 \in 0..MaxFills /\ 0 \in 0..MaxMishaps
    BY LedgerAssumption DEF LedgerAssumption
  <2>2. /\ position \in [Market -> Entries] /\ \A m \in Market : position[m].size = 0 => position[m] = Flat
        /\ latest \in [Market -> [size : Int, entry : Nat]]
        /\ traded \in [Market -> [size : Int, cash : Int]] /\ last \in [Market -> Trader \cup {NoOrder}]
    BY <1>1 DEF LedgerInit
  <2>3. /\ step \in [Trader -> Steps] /\ order \in [Trader -> Orders \cup {Nothing}]
        /\ held \in [Trader -> Entries]
        /\ \A t \in Trader : /\ step[t] = "idle" <=> order[t] = Nothing
                             /\ held[t].size = 0 => held[t] = Flat
    BY <1>1 DEF LedgerInit, Steps
  <2> QED
    BY <2>1, <2>2, <2>3 DEF LedgerInit, LedgerTypeOK
<1>3. \A m \in Market : Filling(m) = {}
  BY DEF LedgerInit, Filling
<1> QED
  BY <1>1, <1>2, <1>3 DEF LedgerInit, LedgerIInv, HeldIsWritten, SizesAgree, DurablePositionCatchesUp

\* Every step of a thread keeps it.
THEOREM LedgerInductive == LedgerIInv /\ [LedgerNext]_ledgerVars => LedgerIInv'
<1> SUFFICES ASSUME LedgerIInv, [LedgerNext]_ledgerVars PROVE LedgerIInv'
  OBVIOUS
<1>1. CASE LedgerNext
  BY <1>1, MarkStep, RefuseStep, BookStep, WriteStep, StoreStep, RestartStep DEF LedgerNext
<1>2. CASE UNCHANGED ledgerVars
  <2>1. UNCHANGED <<position, gross, latest, step, order, held, traded, raced, last, behind, sent,
                   mishaps>>
    BY <1>2 DEF ledgerVars
  <2>2. \A m \in Market : Filling(m)' = Filling(m)
    BY <2>1 DEF Filling
  <2>3. LedgerTypeOK' /\ HeldIsWritten' /\ DurablePositionCatchesUp'
    BY <2>1 DEF LedgerIInv, LedgerTypeOK, HeldIsWritten, DurablePositionCatchesUp
  <2>4. SizesAgree'
    BY <2>1, <2>2 DEF LedgerIInv, SizesAgree
  <2> QED
    BY <2>3, <2>4 DEF LedgerIInv
<1> QED
  BY <1>1, <1>2

\* It holds in every reachable state of the ledger.
THEOREM LedgerInvariance == LedgerSpec => []LedgerIInv
  BY LedgerInitially, LedgerInductive, PTL DEF LedgerSpec

\* Positions, totals and rows hold what they are declared to; a position that
\* is closed leaves nothing behind.
THEOREM LedgerTypeCorrect == LedgerSpec => []LedgerTypeOK
  BY LedgerInvariance, PTL DEF LedgerIInv

\* Whatever rows are lost or late: once the last fill of a market has stored
\* its row and no earlier one follows, the newest row is the position.
THEOREM RowsCatchUp == LedgerSpec => []DurablePositionCatchesUp
  BY LedgerInvariance, PTL DEF LedgerIInv

\* In a market without a race the position is the sum of the fills.
THEOREM SizesBook == LedgerSpec => [](\A m \in Market \ raced : position[m].size = traded[m].size)
<1>1. LedgerIInv => \A m \in Market \ raced : position[m].size = traded[m].size
  BY DEF LedgerIInv, SizesAgree
<1> QED
  BY <1>1, LedgerInvariance, PTL

-----------------------------------------------------------------------------
(* The backtester: what the steps of an observation keep of a run.         *)

RunFields == {"strategy", "full", "latency", "phase", "usable", "obs", "at", "rank", "position",
              "realized", "lastPrice", "decisionPrice", "decidedAt", "rate", "pending", "equity",
              "cash", "costs", "lastFill"}

\* The pending order was decided on an observation of the past, and so was
\* every order before it that has been filled.
FillsLater(b) ==
    b.lastFill # NoFill =>
        /\ b.lastFill.obs > b.lastFill.signalObs
        /\ b.lastFill.at >= b.lastFill.signalAt + b.latency

PendingFields == {"size", "signalAt", "signalObs"}

\* A run decides on what it has seen and fills later than it decided.
Timely(b) ==
    /\ DOMAIN b = RunFields
    /\ b.obs \in Nat /\ b.at \in Nat /\ b.latency \in Nat
    /\ DOMAIN b.pending = PendingFields
    /\ b.pending.signalAt \in Nat /\ b.pending.signalObs \in 0..b.obs
    /\ FillsLater(b)

\* Another run that differs in its books only.
SameCourse(b, c) ==
    /\ DOMAIN c = DOMAIN b
    /\ c.obs = b.obs /\ c.at = b.at /\ c.latency = b.latency
    /\ c.pending = b.pending /\ c.lastFill = b.lastFill

\* Whether fills come in time depends on the course of a run alone.
LEMMA CourseDecides ==
  ASSUME NEW b, NEW c, Timely(b), SameCourse(b, c)
  PROVE  Timely(c)
  BY DEF Timely, SameCourse, FillsLater

\* Recording the equity leaves the course alone,
LEMMA EquityCourse ==
  ASSUME NEW b, Timely(b)
  PROVE  SameCourse(b, RecordEquity(b)) /\ Timely(RecordEquity(b))
<1>1. SameCourse(b, RecordEquity(b))
  BY DEF Timely, RunFields, SameCourse, RecordEquity
<1> QED
  BY <1>1, CourseDecides

\* so does the booking of a fill,
LEMMA ApplyCourse ==
  ASSUME NEW b, Timely(b), NEW s, NEW p, NEW fee, NEW slippage, NEW funding
  PROVE  SameCourse(b, Apply(b, s, p, fee, slippage, funding))
  BY DEF Timely, RunFields, SameCourse, Apply

\* and its simulation.
LEMMA SimulateCourse ==
  ASSUME NEW b, Timely(b), NEW s, NEW p
  PROVE  SameCourse(b, Simulate(b, s, p))
  BY ApplyCourse DEF Simulate

\* A pending order is filled after its latency, on a later observation.
LEMMA ExecuteCourse ==
  ASSUME NEW b, Timely(b), b.pending.signalObs < b.obs, NEW p
  PROVE  Timely(Execute(b, p))
<1>1. CASE b.pending = NoPending \/ b.at < b.pending.signalAt + b.latency
  BY <1>1 DEF Execute
<1>2. CASE ~(b.pending = NoPending \/ b.at < b.pending.signalAt + b.latency)
  <2> DEFINE s == FillSizeOf(b)
             f == Simulate(b, s, p)
             done == [at |-> b.at, obs |-> b.obs, signalAt |-> b.pending.signalAt,
                      signalObs |-> b.pending.signalObs]
             c == [f EXCEPT !.position = Marked(@, p), !.pending = Remaining(@, s),
                            !.lastFill = done]
  <2>1. Execute(b, p) = c
    BY <1>2 DEF Execute
  <2>2. SameCourse(b, f)
    BY SimulateCourse
  <2> HIDE DEF f, s
  <2>3. /\ DOMAIN c = RunFields /\ c.obs = b.obs /\ c.at = b.at /\ c.latency = b.latency
        /\ c.pending = Remaining(b.pending, s) /\ c.lastFill = done
    BY <2>2 DEF SameCourse, Timely, RunFields
  <2> HIDE DEF c
  <2>4. /\ DOMAIN c.pending = PendingFields /\ c.pending.signalAt \in Nat
        /\ c.pending.signalObs \in 0..c.obs
    <3>1. CASE b.pending.size = s
      BY <2>3, <3>1 DEF Remaining, NoPending, PendingFields, Timely
    <3>2. CASE b.pending.size # s
      BY <2>3, <3>2 DEF Remaining, PendingFields, Timely
    <3> QED
      BY <3>1, <3>2
  <2>5. FillsLater(c)
    BY <1>2, <2>3 DEF FillsLater, Timely
  <2>6. Timely(c)
    BY <2>3, <2>4, <2>5 DEF Timely
  <2> QED
    BY <2>1, <2>6
<1> QED
  BY <1>1, <1>2

\* A decision is pending from the observation it was made on.
LEMMA DecideCourse ==
  ASSUME NEW b, Timely(b), NEW p
  PROVE  Timely(DecideTarget(b, p))
<1> DEFINE seen == [b EXCEPT !.decisionPrice = p, !.decidedAt = b.at]
           delta == TargetSize(b, p) - b.position.size
           order_ == [size |-> delta, signalAt |-> b.at, signalObs |-> b.obs]
           c == [seen EXCEPT !.pending = order_]
<1>1. Timely(seen)
  <2>1. SameCourse(b, seen)
    BY DEF Timely, RunFields, SameCourse
  <2> QED
    BY <2>1, CourseDecides
<1>2. Timely(c)
  <2> HIDE DEF delta
  <2>1. /\ DOMAIN c = RunFields /\ c.obs = b.obs /\ c.at = b.at /\ c.latency = b.latency
        /\ c.pending = order_ /\ c.lastFill = b.lastFill
    BY DEF Timely, RunFields
  <2> HIDE DEF c
  <2>2. /\ DOMAIN c.pending = PendingFields /\ c.pending.signalAt \in Nat
        /\ c.pending.signalObs \in 0..c.obs
    BY <2>1 DEF PendingFields, Timely
  <2> QED
    BY <2>1, <2>2 DEF Timely, FillsLater
<1>3. DecideTarget(b, p) \in {b, seen, c}
  BY DEF DecideTarget
<1> QED
  BY <1>1, <1>2, <1>3

\* A new observation is later than what is pending.
LEMMA SeenCourse ==
  ASSUME Timely(bt), NEW kind, NEW gap \in Gap
  PROVE  /\ Timely(Seen(kind, gap))
         /\ Seen(kind, gap).pending.signalObs < Seen(kind, gap).obs
<1> DEFINE c == Seen(kind, gap)
<1>1. gap \in Nat
  BY BacktestAssumption DEF BacktestAssumption
<1>2. /\ DOMAIN c = RunFields /\ c.obs = bt.obs + 1 /\ c.at = bt.at + gap /\ c.latency = bt.latency
      /\ c.pending = bt.pending /\ c.lastFill = bt.lastFill
  BY DEF Seen, Timely, RunFields
<1> HIDE DEF c
<1>3. Timely(c) /\ c.pending.signalObs < c.obs
  BY <1>1, <1>2 DEF Timely, FillsLater
<1> QED
  BY <1>3 DEF c

\* A market observation fills first and decides afterwards.
LEMMA MarketCourse ==
  ASSUME NEW b, Timely(b), b.pending.signalObs < b.obs, NEW p
  PROVE  Timely(OnMarket(b, p))
<1> DEFINE m == [b EXCEPT !.position = Marked(@, p), !.lastPrice = p]
<1>1. SameCourse(b, m)
  BY DEF Timely, RunFields, SameCourse
<1>2. Timely(m) /\ m.pending.signalObs < m.obs
  BY <1>1, CourseDecides DEF SameCourse
<1> HIDE DEF m
<1>3. Timely(RecordEquity(Execute(m, p)))
  BY <1>2, ExecuteCourse, EquityCourse
<1> QED
  BY <1>3, DecideCourse DEF OnMarket, m

\* A funding observation fills nothing.
LEMMA FundingCourse ==
  ASSUME NEW b, Timely(b), NEW r
  PROVE  Timely(OnFunding(b, r))
<1> DEFINE amount == -Bps(b.position.size * b.position.mark, r)
           kept == [b EXCEPT !.rate = r]
           paid == [b EXCEPT !.rate = r, !.realized = @ + amount, !.costs = @ - amount]
<1>1. SameCourse(b, kept) /\ SameCourse(b, paid)
  BY DEF Timely, RunFields, SameCourse
<1>2. Timely(kept) /\ Timely(RecordEquity(paid))
  BY <1>1, CourseDecides, EquityCourse
<1> QED
  BY <1>2 DEF OnFunding

\* A recorded fill is booked as it is.
LEMMA RecordedCourse ==
  ASSUME NEW b, Timely(b), NEW s, NEW p
  PROVE  Timely(OnRecordedFill(b, s, p))
<1> DEFINE c == Apply(b, s, p, Bps(Magnitude(s) * p, FeeBps), 0, 0)
<1>1. SameCourse(b, c)
  BY ApplyCourse
<1>2. Timely(RecordEquity(c))
  BY <1>1, CourseDecides, EquityCourse
<1> QED
  BY <1>2 DEF OnRecordedFill

\* The end of a run fills nothing.
LEMMA FinishCourse ==
  ASSUME Timely(bt), FinishHistorical
  PROVE  Timely(bt')
<1> DEFINE failed == [bt EXCEPT !.phase = "failed"]
           kept == [bt EXCEPT !.phase = "completed"]
           f == Simulate(bt, -bt.position.size, bt.lastPrice)
           closed == [f EXCEPT !.phase = "completed"]
<1>1. SameCourse(bt, failed) /\ SameCourse(bt, kept)
  BY DEF Timely, RunFields, SameCourse
<1>2. SameCourse(bt, closed)
  <2>1. SameCourse(bt, f)
    BY SimulateCourse
  <2> HIDE DEF f
  <2> QED
    BY <2>1 DEF Timely, RunFields, SameCourse
<1>3. Timely(failed) /\ Timely(kept) /\ Timely(RecordEquity(closed))
  BY <1>1, <1>2, CourseDecides, EquityCourse
<1>4. bt' \in {failed, kept, RecordEquity(closed)}
  BY DEF FinishHistorical
<1> QED
  BY <1>3, <1>4

\* The invariant of the historical backtest.
RunInv == bt # NotRun => Timely(bt)

\* Every step keeps the fills of a run in time.
LEMMA RunInductive == RunInv /\ [BacktestNext]_backtestVars => RunInv'
<1> SUFFICES ASSUME RunInv, [BacktestNext]_backtestVars, bt' # NotRun PROVE Timely(bt')
  BY DEF RunInv
<1>1. CASE UNCHANGED bt
  BY <1>1 DEF RunInv, Timely, FillsLater
<1>2. CASE StartHistorical
  <2>1. PICK strategy \in Strategies, full \in BOOLEAN, latency \in Latency :
            bt' = NewRun(strategy, full, latency)
    BY <1>2 DEF StartHistorical
  <2>2. latency \in Nat
    BY BacktestAssumption DEF BacktestAssumption
  <2> DEFINE c == NewRun(strategy, full, latency)
  <2>3. /\ DOMAIN c = RunFields /\ c.obs = 0 /\ c.at = 0 /\ c.latency = latency
        /\ c.pending = NoPending /\ c.lastFill = NoFill
    BY DEF NewRun, RunFields
  <2> HIDE DEF c
  <2>4. Timely(c)
    BY <2>2, <2>3 DEF Timely, FillsLater, NoPending, PendingFields
  <2> QED
    BY <2>1, <2>4 DEF c
<1>3. CASE FinishHistorical
  <2>1. bt # NotRun
    BY <1>3 DEF FinishHistorical, NotRun
  <2> QED
    BY <1>3, <2>1, FinishCourse DEF RunInv
<1>4. ASSUME NEW gap \in Gap, NEW p \in TickPrice, bt # NotRun, MarketTick(gap, p) PROVE Timely(bt')
  BY <1>4, SeenCourse, MarketCourse DEF MarketTick, RunInv
<1>5. ASSUME NEW gap \in Gap, NEW p \in TickPrice, NEW s \in RecordedSize, bt # NotRun,
             RecordedFill(gap, s, p)
      PROVE  Timely(bt')
  BY <1>5, SeenCourse, RecordedCourse DEF RecordedFill, RunInv
<1>6. ASSUME NEW gap \in Gap, NEW r \in RateBps, bt # NotRun, FundingTick(gap, r) PROVE Timely(bt')
  BY <1>6, SeenCourse, FundingCourse DEF FundingTick, RunInv
<1> QED
  BY <1>1, <1>2, <1>3, <1>4, <1>5, <1>6
  DEF BacktestNext, backtestVars, StartSynthetic, SyntheticDay, EndSynthetic

\* No simulated fill is made on the observation its order was decided on, or
\* before the latency has passed, for any prices, gaps and latencies.
THEOREM FillsComeLater == BacktestSpec => []NoLookAhead
<1>1. BacktestInit => RunInv
  BY DEF BacktestInit, RunInv
<1>2. RunInv => NoLookAhead
  BY DEF RunInv, NoLookAhead, Timely, FillsLater
<1> QED
  BY <1>1, <1>2, RunInductive, PTL DEF BacktestSpec

-----------------------------------------------------------------------------
(* The synthetic run.                                                      *)

SyntheticFields == {"phase", "strategy", "day", "price", "capital", "holding", "entry",
                    "momentum", "funding", "closing"}

Numbers(s) ==
    /\ DOMAIN s = SyntheticFields
    /\ s.price \in Nat \ {0} /\ s.capital \in Int /\ s.holding \in Int /\ s.entry \in Int
    /\ s.momentum \in Int /\ s.funding \in Int /\ s.closing \in Int

Explained(s) ==
    /\ Numbers(s)
    /\ s.capital = Capital + s.momentum + s.funding + s.closing
    /\ s.phase = "running" => s.closing = 0

\* The invariant of the synthetic one.
SyntheticInv == sy # NotRun => Explained(sy)

\* Basis points of a whole number are whole in this module,
LEMMA BpsType ==
  ASSUME NEW x \in Int, NEW b \in Int
  PROVE  Bps(x, b) \in Int
<1>1. x * b \in Int
  OBVIOUS
<1> QED
  BY <1>1 DEF Bps

\* percentages as well,
LEMMA PctType ==
  ASSUME NEW x \in Int, NEW b \in Int
  PROVE  Pct(x, b) \in Int
<1>1. x * b \in Int
  OBVIOUS
<1> QED
  BY <1>1 DEF Pct

\* the profit of a day's trade,
LEMMA TradeType ==
  ASSUME NEW s, Numbers(s), NEW p \in Nat \ {0}
  PROVE  TradePnl(s, p) \in Int
<1>1. s.holding \in Int /\ s.entry \in Int /\ FeeBps + SlippageBps \in Int
  BY BacktestAssumption DEF BacktestAssumption, Numbers, SyntheticFields
<1>2. Magnitude(s.holding) * p \in Int /\ s.holding * (p - s.entry) \in Int
  BY <1>1, Magnitudes
<1>3. Bps(Magnitude(s.holding) * p, FeeBps + SlippageBps) \in Int
  BY <1>1, <1>2, BpsType
<1> QED
  BY <1>2, <1>3 DEF TradePnl

\* and that of a holding.
LEMMA HoldingType ==
  ASSUME NEW s, Numbers(s), NEW p \in Nat \ {0}
  PROVE  SyntheticHolding(s, p) \in Int
<1>1. s.capital \in Int
  BY DEF Numbers, SyntheticFields
<1> DEFINE q == s.capital \div p
           half == q \div 2
           forty == Pct(q, 40)
           thirty == Pct(q, 30)
<1>2. q \in Int
  BY <1>1
<1> HIDE DEF q
<1>3. half \in Int
  BY <1>2
<1>4. forty \in Int /\ thirty \in Int
  <2>1. 40 \in Int /\ 30 \in Int
    OBVIOUS
  <2> QED
    BY <1>2, <2>1, PctType
<1>5. SyntheticHolding(s, p) \in {half, -half, 0, -forty, thirty}
  BY DEF SyntheticHolding, q
<1>6. half \in Int /\ forty \in Int /\ thirty \in Int
  BY <1>3, <1>4
<1> HIDE DEF half, forty, thirty
<1> QED
  BY <1>5, <1>6

\* A day adds to the capital what it adds to the strategies.
LEMMA DayStep ==
  ASSUME Explained(sy), NEW p \in TickPrice, SyntheticDay(p)
  PROVE  Explained(sy')
<1> DEFINE carry == IF sy.holding = 0 THEN 0 ELSE Bps(sy.holding * sy.price, 1)
           trade == IF sy.holding = 0 THEN 0 ELSE TradePnl(sy, p)
           closed == [sy EXCEPT !.capital  = @ + carry + trade, !.funding  = @ + carry,
                                !.momentum = @ + trade]
           size == SyntheticHolding(closed, p)
<1>1. /\ sy.phase = "running"
      /\ sy' = [closed EXCEPT !.day = @ + 1, !.price = p, !.holding = size,
                             !.entry = IF size = 0 THEN 0 ELSE p]
  BY DEF SyntheticDay
<1>2. Numbers(sy) /\ p \in Nat \ {0}
  BY BacktestAssumption DEF BacktestAssumption, Explained
<1>3. carry \in Int
  <2>1. sy.holding * sy.price \in Int
    BY <1>2 DEF Numbers, SyntheticFields
  <2> QED
    BY <2>1, BpsType
<1>4. trade \in Int
  BY <1>2, TradeType
<1> HIDE DEF carry, trade
<1>5. Numbers(closed)
  BY <1>2, <1>3, <1>4 DEF Numbers, SyntheticFields
<1>6. size \in Int
  BY <1>2, <1>5, HoldingType
<1>7. /\ closed.capital = sy.capital + carry + trade /\ closed.funding = sy.funding + carry
      /\ closed.momentum = sy.momentum + trade /\ closed.closing = sy.closing
      /\ closed.phase = "running"
  BY <1>1, <1>2 DEF Numbers, SyntheticFields
<1> HIDE DEF size, closed
<1>8. Numbers(sy')
  BY <1>1, <1>2, <1>5, <1>6 DEF Numbers, SyntheticFields
<1>9. /\ sy'.capital = closed.capital /\ sy'.funding = closed.funding
      /\ sy'.momentum = closed.momentum /\ sy'.closing = closed.closing
      /\ sy'.phase = "running"
  BY <1>1, <1>5, <1>7 DEF Numbers, SyntheticFields
<1>10. /\ sy.capital = Capital + sy.momentum + sy.funding + sy.closing /\ sy.closing = 0
       /\ sy.momentum \in Int /\ sy.funding \in Int /\ Capital \in Int
  BY <1>1, BacktestAssumption DEF BacktestAssumption, Explained, Numbers, SyntheticFields
<1> QED
  BY <1>3, <1>4, <1>7, <1>8, <1>9, <1>10 DEF Explained

\* So does the last close.
LEMMA EndStep ==
  ASSUME Explained(sy), EndSynthetic
  PROVE  Explained(sy')
<1> DEFINE last_ == IF sy.holding = 0 THEN 0 ELSE TradePnl(sy, sy.price)
<1>1. /\ sy.phase = "running"
      /\ sy' = [sy EXCEPT !.phase = "completed", !.capital = sy.capital + last_, !.closing = last_]
  BY DEF EndSynthetic, FinishSynthetic
<1>2. Numbers(sy) /\ sy.price \in Nat \ {0}
  BY DEF Explained, Numbers, SyntheticFields
<1>3. last_ \in Int
  BY <1>2, TradeType
<1> HIDE DEF last_
<1>4. Numbers(sy')
  BY <1>1, <1>2, <1>3 DEF Numbers, SyntheticFields
<1>5. /\ sy'.capital = sy.capital + last_ /\ sy'.funding = sy.funding
      /\ sy'.momentum = sy.momentum /\ sy'.closing = last_ /\ sy'.phase = "completed"
  BY <1>1, <1>2 DEF Numbers, SyntheticFields
<1>6. /\ sy.capital = Capital + sy.momentum + sy.funding + sy.closing /\ sy.closing = 0
      /\ sy.momentum \in Int /\ sy.funding \in Int /\ Capital \in Int
  BY <1>1, BacktestAssumption DEF BacktestAssumption, Explained, Numbers, SyntheticFields
<1> QED
  BY <1>3, <1>4, <1>5, <1>6 DEF Explained

\* Every step keeps the capital explained.
LEMMA SyntheticInductive == SyntheticInv /\ [BacktestNext]_backtestVars => SyntheticInv'
<1> SUFFICES ASSUME SyntheticInv, [BacktestNext]_backtestVars, sy' # NotRun PROVE Explained(sy')
  BY DEF SyntheticInv
<1>1. CASE UNCHANGED sy
  BY <1>1 DEF SyntheticInv, Explained
<1>2. ASSUME NEW strategy \in {"momentum", "carry_arb", "other"}, StartSynthetic(strategy)
      PROVE  Explained(sy')
  <2>1. PICK p \in TickPrice :
          sy' = [phase |-> "running", strategy |-> strategy, day |-> 0, price |-> p,
                 capital |-> Capital, holding |-> 0, entry |-> 0,
                 momentum |-> 0, funding |-> 0, closing |-> 0]
    BY <1>2 DEF StartSynthetic
  <2>2. p \in Nat \ {0} /\ Capital \in Int
    BY BacktestAssumption DEF BacktestAssumption
  <2> QED
    BY <2>1, <2>2 DEF Explained, Numbers, SyntheticFields
<1>3. ASSUME NEW p \in TickPrice, sy # NotRun, SyntheticDay(p) PROVE Explained(sy')
  BY <1>3, DayStep DEF SyntheticInv
<1>4. CASE EndSynthetic
  <2>1. sy # NotRun
    BY <1>4 DEF EndSynthetic, NotRun
  <2> QED
    BY <1>4, <2>1, EndStep DEF SyntheticInv
<1> QED
  BY <1>1, <1>2, <1>3, <1>4
  DEF BacktestNext, backtestVars, StartHistorical, FinishHistorical, MarketTick, RecordedFill,
      FundingTick

\* The capital of a synthetic run is explained by its strategies' profit, its
\* funding and its last close, to the unit, for any prices and costs: the half
\* of BacktestBooksBalance that no average entry is part of.
THEOREM SyntheticBooks ==
  BacktestSpec => [](sy # NotRun => sy.capital = Capital + sy.momentum + sy.funding + sy.closing)
<1>1. BacktestInit => SyntheticInv
  BY DEF BacktestInit, SyntheticInv
<1>2. SyntheticInv => (sy # NotRun => sy.capital = Capital + sy.momentum + sy.funding + sy.closing)
  BY DEF SyntheticInv, Explained
<1> QED
  BY <1>1, <1>2, SyntheticInductive, PTL DEF BacktestSpec

-----------------------------------------------------------------------------
(* The model registry.                                                     *)

\* From the lock of its row to its commit, and before that.
Holding == {"rivals", "archive", "activate", "commit"}

\* A transaction expects a state, and holds its target in that state from its
\* lock on; it holds the rows it archives; nobody else holds anything.
Expects == \A o \in Operator : txn[o] \in {"lock"} \cup Holding => expected[o] # ""

TargetHeld ==
    \A o \in Operator : txn[o] \in Holding =>
        lock[target[o]] = o /\ lifecycle[target[o]] = expected[o]

ArchivedHeld ==
    \A o \in Operator : \A m \in archiving[o] :
        lock[m] = o /\ txn[o] \in {"activate", "commit"}

HoldersHold == \A m \in Model : lock[m] # NoModel => txn[lock[m]] \in Holding

Holds == Expects /\ TargetHeld /\ ArchivedHeld /\ HoldersHold

CommitsAlone == \A o, q \in Operator : txn[o] = "commit" /\ txn[q] = "commit" => o = q

CommitReplaces ==
    \A o \in Operator : txn[o] = "commit" => Active \subseteq archiving[o] \cup {target[o]}

OneActive == \A m, n \in Active : m = n

HoldersOfActive ==
    \A m \in Active : lock[m] # NoModel => txn[lock[m]] \in {"archive", "activate", "commit"}

\* Process h need not have the active model, or is about to be told.
Excused(h) == h \in excused \/ \E o \in Operator : txn[o] = "invalidate" /\ HostOf[o] = h

\* What a process has read of the registry is as good as what it keeps.
LoadedIsActive ==
    \A h \in Host : loading[h] \notin Active \cup {NoModel, NotLoading} => Excused(h)

KeptIsActive == \A h \in Host : model[h] \notin Active \cup {NoModel} => Excused(h)

RegistryIInv ==
    /\ RegistryTypeOK /\ Holds /\ CommitsAlone /\ CommitReplaces
    /\ OneActive /\ HoldersOfActive /\ LoadedIsActive /\ KeptIsActive

-----------------------------------------------------------------------------
(* The rows and the transactions.                                          *)

\* The part of the invariant that is about them.
Governed == Holds /\ CommitsAlone /\ CommitReplaces /\ OneActive /\ HoldersOfActive

\* A request at work has a model.
LEMMA Targets ==
  ASSUME RegistryTypeOK, NEW o \in Operator, txn[o] # "idle"
  PROVE  target[o] \in Model
  BY DEF RegistryTypeOK, Copy

\* The state a target is held in is the candidate's or the archived one.
LEMMA HeldState ==
  ASSUME RegistryTypeOK, Expects, TargetHeld, NEW o \in Operator, txn[o] \in Holding
  PROVE  lock[target[o]] = o /\ lifecycle[target[o]] \in {"candidate", "archived"}
  BY DEF RegistryTypeOK, Expects, TargetHeld

\* Rows that training or a spoilt artifact touches are in nobody's hands.
LEMMA TrainModelRows ==
  ASSUME RegistryIInv, NEW m \in Model, NEW eligible \in BOOLEAN, TrainModel(m, eligible)
  PROVE  RegistryTypeOK' /\ Governed' /\ Active' = Active
<1>1. /\ lifecycle[m] = "absent"
      /\ lifecycle' = [lifecycle EXCEPT ![m] = "candidate"]
      /\ fit' = IF eligible THEN fit \cup {m} ELSE fit
      /\ UNCHANGED <<lock, txn, target, expected, archiving, model, loading, shown, excused,
                     requests, dbFaults>>
  BY DEF TrainModel, hosts
<1>2. RegistryTypeOK'
  BY <1>1 DEF RegistryIInv, RegistryTypeOK, Copy
<1>3. Active' = Active
  BY <1>1 DEF RegistryIInv, RegistryTypeOK, Active
<1>4. Holds'
  <2>1. Expects'
    BY <1>1 DEF RegistryIInv, RegistryTypeOK, Holds, Expects, Holding
  <2>2. TargetHeld'
    <3> SUFFICES ASSUME NEW q \in Operator, txn[q] \in Holding
                 PROVE  lock[target[q]] = q /\ lifecycle'[target[q]] = expected[q]
      BY <1>1 DEF TargetHeld
    <3>1. target[q] \in Model
      BY Targets DEF RegistryIInv, Holding
    <3>2. target[q] # m
      BY <1>1, HeldState DEF RegistryIInv, Holds
    <3> QED
      BY <1>1, <3>1, <3>2 DEF RegistryIInv, Holds, TargetHeld, RegistryTypeOK
  <2>3. ArchivedHeld'
    BY <1>1 DEF RegistryIInv, RegistryTypeOK, Holds, ArchivedHeld
  <2>4. HoldersHold'
    BY <1>1 DEF RegistryIInv, RegistryTypeOK, Holds, HoldersHold, Holding
  <2> QED
    BY <2>1, <2>2, <2>3, <2>4 DEF Holds
<1>5. CommitsAlone' /\ CommitReplaces' /\ OneActive'
  BY <1>1, <1>3 DEF RegistryIInv, CommitsAlone, CommitReplaces, OneActive
<1>6. HoldersOfActive'
  BY <1>1, <1>3 DEF RegistryIInv, HoldersOfActive
<1> QED
  BY <1>2, <1>3, <1>4, <1>5, <1>6 DEF Governed

\* A step that leaves the rows and the transactions alone.
LEMMA RestRows ==
  ASSUME RegistryIInv, UNCHANGED <<lifecycle, lock, txn, target, expected, archiving>>
  PROVE  Governed' /\ Active' = Active
  BY DEF RegistryIInv, Governed, Holds, Expects, TargetHeld, ArchivedHeld, HoldersHold, CommitsAlone, CommitReplaces, OneActive, HoldersOfActive, Active

\* A request, admitted or not, leaves the active row alone.
LEMMA RequestRows ==
  ASSUME RegistryIInv, NEW o \in Operator, NEW m \in Model, NEW from \in {"candidate", "archived"},
         Request(o, m, from)
  PROVE  RegistryTypeOK' /\ Governed' /\ Active' = Active
<1>1. /\ txn[o] = "idle" /\ requests < MaxRequests
      /\ txn' = [txn EXCEPT ![o] = "lock"]
      /\ target' = [target EXCEPT ![o] = m]
      /\ expected' = [expected EXCEPT ![o] = from]
      /\ requests' = requests + 1
      /\ UNCHANGED <<lifecycle, fit, lock, archiving, model, loading, shown, excused, dbFaults>>
  BY DEF Request, rows, hosts
<1>2. RegistryTypeOK'
  <2>1. requests' \in 0..MaxRequests
    <3>1. requests \in 0..MaxRequests /\ MaxRequests \in Nat
      BY RegistryAssumption DEF RegistryAssumption, RegistryIInv, RegistryTypeOK
    <3> QED
      BY <1>1, <3>1
  <2>2. archiving[o] = {}
    BY <1>1 DEF RegistryIInv, Holds, ArchivedHeld
  <2>3. m # NoModel
    BY RegistryAssumption DEF RegistryAssumption
  <2> QED
    BY <1>1, <2>1, <2>2, <2>3 DEF RegistryIInv, RegistryTypeOK, Copy
<1>3. Active' = Active
  BY <1>1 DEF Active
<1>4. Holds'
  <2>1. Expects'
    BY <1>1 DEF RegistryIInv, RegistryTypeOK, Holds, Expects, Holding
  <2>2. TargetHeld'
    BY <1>1 DEF RegistryIInv, RegistryTypeOK, Holds, Expects, TargetHeld, Holding, Copy
  <2>3. ArchivedHeld'
    <3> SUFFICES ASSUME NEW q \in Operator, NEW n \in archiving[q]
                 PROVE  lock[n] = q /\ txn'[q] \in {"activate", "commit"}
      BY <1>1 DEF ArchivedHeld
    <3>1. lock[n] = q /\ txn[q] \in {"activate", "commit"}
      BY DEF RegistryIInv, Holds, ArchivedHeld
    <3> QED
      BY <1>1, <3>1 DEF RegistryIInv, RegistryTypeOK
  <2>4. HoldersHold'
    BY <1>1 DEF RegistryIInv, RegistryTypeOK, Holds, HoldersHold, Holding
  <2> QED
    BY <2>1, <2>2, <2>3, <2>4 DEF Holds
<1>5. CommitsAlone' /\ CommitReplaces' /\ OneActive'
  BY <1>1, <1>3 DEF RegistryIInv, RegistryTypeOK, CommitsAlone, CommitReplaces, OneActive
<1>6. HoldersOfActive'
  <2> SUFFICES ASSUME NEW n \in Active, lock[n] # NoModel
               PROVE  txn'[lock[n]] \in {"archive", "activate", "commit"}
    BY <1>1, <1>3 DEF HoldersOfActive
  <2>1. lock[n] \in Operator /\ txn[lock[n]] \in {"archive", "activate", "commit"}
    BY DEF RegistryIInv, HoldersOfActive, RegistryTypeOK, Active
  <2> QED
    BY <1>1, <2>1 DEF RegistryIInv, RegistryTypeOK
<1> QED
  BY <1>2, <1>3, <1>4, <1>5, <1>6 DEF Governed

\* A transaction that ends without a commit.
LEMMA LeaveRows ==
  ASSUME RegistryIInv, NEW o \in Operator, Leave(o), UNCHANGED <<lifecycle, fit>>,
         UNCHANGED <<loading, shown, requests>>, model' \in [Host -> Copy],
         excused' \subseteq Host, dbFaults' \in 0..MaxDbFaults
  PROVE  RegistryTypeOK' /\ Governed' /\ Active' = Active
<1>1. /\ lock' = [m \in Model |-> IF lock[m] = o THEN NoModel ELSE lock[m]]
      /\ txn' = [txn EXCEPT ![o] = "idle"]
      /\ target' = [target EXCEPT ![o] = NoModel]
      /\ expected' = [expected EXCEPT ![o] = ""]
      /\ archiving' = [archiving EXCEPT ![o] = {}]
  BY DEF Leave, Unlocked
<1>2. RegistryTypeOK'
  BY <1>1, RegistryAssumption DEF RegistryAssumption, RegistryIInv, RegistryTypeOK, Copy
<1>3. Active' = Active
  BY DEF Active
<1>4. Holds'
  <2>1. Expects'
    BY <1>1 DEF RegistryIInv, RegistryTypeOK, Holds, Expects, Holding
  <2>2. TargetHeld'
    <3> SUFFICES ASSUME NEW q \in Operator, txn'[q] \in Holding
                 PROVE  lock'[target'[q]] = q /\ lifecycle'[target'[q]] = expected'[q]
      BY DEF TargetHeld
    <3>1. q # o /\ txn[q] \in Holding
      BY <1>1 DEF Holding, RegistryIInv, RegistryTypeOK
    <3>2. target[q] \in Model
      BY <3>1, Targets DEF RegistryIInv, Holding
    <3> QED
      BY <1>1, <3>1, <3>2 DEF RegistryIInv, Holds, TargetHeld, RegistryTypeOK
  <2>3. ArchivedHeld'
    <3> SUFFICES ASSUME NEW q \in Operator, NEW n \in archiving'[q]
                 PROVE  lock'[n] = q /\ txn'[q] \in {"activate", "commit"}
      BY DEF ArchivedHeld
    <3>0. q # o /\ n \in archiving[q]
      BY <1>1 DEF RegistryIInv, RegistryTypeOK
    <3>1. n \in Model /\ lock[n] = q /\ txn[q] \in {"activate", "commit"}
      BY <3>0 DEF RegistryIInv, Holds, ArchivedHeld, RegistryTypeOK
    <3> QED
      BY <1>1, <3>0, <3>1 DEF RegistryIInv, RegistryTypeOK
  <2>4. HoldersHold'
    BY <1>1 DEF RegistryIInv, RegistryTypeOK, Holds, HoldersHold, Holding
  <2> QED
    BY <2>1, <2>2, <2>3, <2>4 DEF Holds
<1>5. CommitsAlone' /\ CommitReplaces' /\ OneActive'
  BY <1>1, <1>3 DEF RegistryIInv, RegistryTypeOK, CommitsAlone, CommitReplaces, OneActive
<1>6. HoldersOfActive'
  <2> SUFFICES ASSUME NEW n \in Active, lock'[n] # NoModel
               PROVE  txn'[lock'[n]] \in {"archive", "activate", "commit"}
    BY <1>3 DEF HoldersOfActive
  <2>1. n \in Model /\ lock'[n] = lock[n] /\ lock[n] # o /\ lock[n] # NoModel
    BY <1>1 DEF Active
  <2>2. lock[n] \in Operator /\ txn[lock[n]] \in {"archive", "activate", "commit"}
    <3>1. lock[n] # NoModel
      BY <2>1
    <3>2. lock \in [Model -> Operator \cup {NoModel}]
      BY DEF RegistryIInv, RegistryTypeOK
    <3>3. lock[n] \in Operator
      BY <2>1, <3>1, <3>2
    <3>4. txn[lock[n]] \in {"archive", "activate", "commit"}
      BY <3>1 DEF RegistryIInv, HoldersOfActive
    <3> QED BY <3>3, <3>4
  <2> QED
    BY <1>1, <2>1, <2>2 DEF RegistryIInv, RegistryTypeOK
<1> QED
  BY <1>2, <1>3, <1>4, <1>5, <1>6 DEF Governed

\* The target is locked, in the state the request found it in.
LEMMA LockTargetRows ==
  ASSUME RegistryIInv, NEW o \in Operator, LockTarget(o), lifecycle[target[o]] = expected[o]
  PROVE  RegistryTypeOK' /\ Governed' /\ Active' = Active
<1> DEFINE t == target[o]
<1>1. /\ txn[o] = "lock" /\ Free(o, t)
      /\ lock' = [lock EXCEPT ![t] = o]
      /\ txn' = [txn EXCEPT ![o] = "rivals"]
      /\ UNCHANGED <<lifecycle, fit, target, expected, archiving, model, loading, shown, excused,
                     requests, dbFaults>>
  BY DEF LockTarget, WaitsFor, rows, hosts
<1>2. t \in Model /\ t \notin Active
  BY <1>1, Targets DEF RegistryIInv, Active, Holds, Expects, RegistryTypeOK
<1>3. lock[t] = NoModel
  BY <1>1, <1>2 DEF RegistryIInv, Holds, HoldersHold, Free, Holding
<1>4. RegistryTypeOK'
  BY <1>1, <1>2 DEF RegistryIInv, RegistryTypeOK, Copy
<1>5. Active' = Active
  BY <1>1 DEF Active
<1>6. Holds'
  <2>1. Expects'
    BY <1>1 DEF RegistryIInv, RegistryTypeOK, Holds, Expects, Holding
  <2>2. TargetHeld'
    <3> SUFFICES ASSUME NEW q \in Operator, txn'[q] \in Holding
                 PROVE  lock'[target[q]] = q /\ lifecycle[target[q]] = expected[q]
      BY <1>1 DEF TargetHeld
    <3>1. CASE q = o
      BY <1>1, <1>2, <3>1 DEF RegistryIInv, RegistryTypeOK
    <3>2. CASE q # o
      <4>1. txn[q] \in Holding
        BY <1>1, <3>2 DEF RegistryIInv, RegistryTypeOK
      <4>2. target[q] \in Model /\ lock[target[q]] = q /\ lifecycle[target[q]] = expected[q]
        BY <4>1, Targets DEF RegistryIInv, Holding, Holds, TargetHeld
      <4>3. target[q] # t
        BY <1>3, <4>2, RegistryAssumption DEF RegistryAssumption
      <4> QED
        BY <1>1, <4>2, <4>3 DEF RegistryIInv, RegistryTypeOK
    <3> QED
      BY <3>1, <3>2
  <2>3. ArchivedHeld'
    <3> SUFFICES ASSUME NEW q \in Operator, NEW n \in archiving[q]
                 PROVE  lock'[n] = q /\ txn'[q] \in {"activate", "commit"}
      BY <1>1 DEF ArchivedHeld
    <3>1. n \in Model /\ lock[n] = q /\ txn[q] \in {"activate", "commit"}
      BY DEF RegistryIInv, Holds, ArchivedHeld, RegistryTypeOK
    <3>2. n # t /\ q # o
      BY <1>1, <1>3, <3>1, RegistryAssumption DEF RegistryAssumption
    <3> QED
      BY <1>1, <3>1, <3>2 DEF RegistryIInv, RegistryTypeOK
  <2>4. HoldersHold'
    BY <1>1 DEF RegistryIInv, RegistryTypeOK, Holds, HoldersHold, Holding
  <2> QED
    BY <2>1, <2>2, <2>3, <2>4 DEF Holds
<1>7. CommitsAlone' /\ CommitReplaces' /\ OneActive'
  BY <1>1, <1>5 DEF RegistryIInv, RegistryTypeOK, CommitsAlone, CommitReplaces, OneActive
<1>8. HoldersOfActive'
  <2> SUFFICES ASSUME NEW n \in Active, lock'[n] # NoModel
               PROVE  txn'[lock'[n]] \in {"archive", "activate", "commit"}
    BY <1>5 DEF HoldersOfActive
  <2>1. n \in Model /\ lock'[n] = lock[n]
    BY <1>1, <1>2 DEF Active, RegistryIInv, RegistryTypeOK
  <2>2. lock[n] \in Operator /\ txn[lock[n]] \in {"archive", "activate", "commit"}
    <3>1. lock[n] # NoModel
      BY <2>1
    <3>2. lock \in [Model -> Operator \cup {NoModel}]
      BY DEF RegistryIInv, RegistryTypeOK
    <3>3. lock[n] \in Operator
      BY <2>1, <3>1, <3>2
    <3>4. txn[lock[n]] \in {"archive", "activate", "commit"}
      BY <3>1 DEF RegistryIInv, HoldersOfActive
    <3> QED BY <3>3, <3>4
  <2> QED
    BY <1>1, <2>1, <2>2 DEF RegistryIInv, RegistryTypeOK
<1> QED
  BY <1>4, <1>5, <1>6, <1>7, <1>8 DEF Governed

\* Rows that are locked as active, or archived, were free: nobody loses a lock.
LEMMA LockActiveRows ==
  ASSUME RegistryIInv, NEW o \in Operator, NEW ms \in SUBSET Active,
         \A m \in ms : Free(o, m),
         lock' = LockAll(o, ms),
         \/ txn[o] = "rivals" /\ txn' = [txn EXCEPT ![o] = "archive"] /\ UNCHANGED archiving
         \/ /\ txn[o] = "archive" /\ txn' = [txn EXCEPT ![o] = "activate"]
            /\ archiving' = [archiving EXCEPT ![o] = ms] /\ target[o] \notin ms,
         UNCHANGED <<lifecycle, fit, target, expected, model, loading, shown, excused, requests,
                     dbFaults>>
  PROVE  RegistryTypeOK' /\ Governed' /\ Active' = Active
<1> DEFINE next == IF txn[o] = "rivals" THEN "archive" ELSE "activate"
<1>1. /\ txn' = [txn EXCEPT ![o] = next] /\ txn[o] \in {"rivals", "archive"}
      /\ next \in {"archive", "activate"} /\ txn[o] \in Holding
  BY DEF Holding
<1>2. ms \subseteq Model
  BY DEF Active
<1>3. \A m \in Model : lock'[m] = IF m \in ms THEN o ELSE lock[m]
  BY DEF LockAll
<1>4. \A m \in Model : lock[m] # NoModel => lock'[m] = lock[m]
  BY <1>3 DEF Free
<1>5. archiving[o] = {}
  BY <1>1 DEF RegistryIInv, Holds, ArchivedHeld
<1>6. RegistryTypeOK'
  <2>1. lock' \in [Model -> Operator \cup {NoModel}]
    BY <1>2 DEF LockAll, RegistryIInv, RegistryTypeOK
  <2>2. txn' \in [Operator -> {"idle", "lock", "rivals", "archive", "activate",
                               "commit", "invalidate"}]
    BY <1>1 DEF RegistryIInv, RegistryTypeOK
  <2>3. archiving' \in [Operator -> SUBSET Model]
    BY <1>2 DEF RegistryIInv, RegistryTypeOK
  <2>4. \A q \in Operator : (txn'[q] = "idle" <=> target[q] = NoModel) /\ target[q] \notin archiving'[q]
    BY <1>1 DEF RegistryIInv, RegistryTypeOK
  <2> QED
    BY <2>1, <2>2, <2>3, <2>4 DEF RegistryIInv, RegistryTypeOK
<1>7. Active' = Active
  BY DEF Active
<1>8. \A q \in Operator : txn'[q] \in Holding <=> txn[q] \in Holding
  BY <1>1 DEF RegistryIInv, RegistryTypeOK, Holding
<1>9. Holds'
  <2>1. Expects'
    BY <1>1 DEF RegistryIInv, RegistryTypeOK, Holds, Expects, Holding
  <2>2. TargetHeld'
    <3> SUFFICES ASSUME NEW q \in Operator, txn[q] \in Holding
                 PROVE  lock'[target[q]] = q /\ lifecycle[target[q]] = expected[q]
      BY <1>8 DEF TargetHeld
    <3>1. target[q] \in Model /\ lock[target[q]] = q /\ lifecycle[target[q]] = expected[q]
      BY Targets DEF RegistryIInv, Holding, Holds, TargetHeld
    <3> QED
      BY <1>4, <3>1, RegistryAssumption DEF RegistryAssumption
  <2>3. ArchivedHeld'
    <3> SUFFICES ASSUME NEW q \in Operator, NEW n \in archiving'[q]
                 PROVE  lock'[n] = q /\ txn'[q] \in {"activate", "commit"}
      BY DEF ArchivedHeld
    <3>1. CASE q = o
      <4>1. n \in ms /\ txn' = [txn EXCEPT ![o] = "activate"]
        BY <1>5, <3>1 DEF RegistryIInv, RegistryTypeOK
      <4> QED
        BY <1>2, <1>3, <3>1, <4>1 DEF RegistryIInv, RegistryTypeOK
    <3>2. CASE q # o
      <4>1. n \in archiving[q]
        BY <3>2 DEF RegistryIInv, RegistryTypeOK
      <4>2. n \in Model /\ lock[n] = q /\ txn[q] \in {"activate", "commit"}
        BY <4>1 DEF RegistryIInv, Holds, ArchivedHeld, RegistryTypeOK
      <4> QED
        BY <1>1, <1>4, <3>2, <4>2, RegistryAssumption DEF RegistryAssumption, RegistryIInv, RegistryTypeOK
    <3> QED
      BY <3>1, <3>2
  <2>4. HoldersHold'
    <3> SUFFICES ASSUME NEW n \in Model, lock'[n] # NoModel PROVE txn'[lock'[n]] \in Holding
      BY DEF HoldersHold
    <3>1. lock'[n] \in Operator /\ txn[lock'[n]] \in Holding
      BY <1>1, <1>3 DEF RegistryIInv, Holds, HoldersHold, RegistryTypeOK
    <3> QED
      BY <1>8, <3>1
  <2> QED
    BY <2>1, <2>2, <2>3, <2>4 DEF Holds
<1>10. CommitsAlone' /\ CommitReplaces' /\ OneActive'
  <2>1. \A q \in Operator : txn'[q] = "commit" => txn[q] = "commit" /\ archiving'[q] = archiving[q]
    BY <1>1 DEF RegistryIInv, RegistryTypeOK
  <2> QED
    BY <1>7, <2>1 DEF RegistryIInv, CommitsAlone, CommitReplaces, OneActive
<1>11. HoldersOfActive'
  <2> SUFFICES ASSUME NEW n \in Active, lock'[n] # NoModel
               PROVE  txn'[lock'[n]] \in {"archive", "activate", "commit"}
    BY <1>7 DEF HoldersOfActive
  <2>1. CASE lock'[n] = o
    <3>1. txn'[o] = next
      BY <1>1 DEF RegistryIInv, RegistryTypeOK
    <3> QED
      BY <1>1, <2>1, <3>1
  <2>2. CASE lock'[n] # o
    <3>1. n \in Model /\ lock'[n] = lock[n]
      BY <1>3, <2>2 DEF Active
    <3>2. lock[n] \in Operator
      BY <3>1 DEF RegistryIInv, RegistryTypeOK
    <3>3. txn[lock[n]] \in {"archive", "activate", "commit"}
      BY <3>1 DEF RegistryIInv, HoldersOfActive
    <3> QED
      BY <1>1, <2>2, <3>3, <3>1, <3>2 DEF RegistryIInv, RegistryTypeOK
  <2> QED
    BY <2>1, <2>2
<1> QED
  BY <1>6, <1>7, <1>9, <1>10, <1>11 DEF Governed

\* The unique index has been passed: no other transaction is about to commit.
LEMMA ActivateTargetRows ==
  ASSUME RegistryIInv, NEW o \in Operator, txn[o] = "activate", WaitsFor(o) = {}, ~IndexRefuses(o),
         txn' = [txn EXCEPT ![o] = "commit"],
         UNCHANGED <<lifecycle, fit, lock, target, expected, archiving, model, loading, shown,
                     excused, requests, dbFaults>>
  PROVE  RegistryTypeOK' /\ Governed' /\ Active' = Active
<1>1. Active \subseteq archiving[o] \cup {target[o]}
  BY DEF IndexRefuses
<1>2. \A q \in Operator : txn[q] # "commit"
  <2> SUFFICES ASSUME NEW q \in Operator, txn[q] = "commit" PROVE FALSE
    OBVIOUS
  <2>1. q # o /\ target[q] \in Model
    BY Targets DEF RegistryIInv
  <2>2. target[q] \in WaitsFor(o)
    BY <2>1 DEF WaitsFor
  <2> QED
    BY <2>2
<1>3. \A q \in Operator : txn'[q] = "commit" <=> q = o
  BY <1>2 DEF RegistryIInv, RegistryTypeOK
<1>4. \A q \in Operator : txn'[q] \in Holding <=> txn[q] \in Holding
  BY DEF RegistryIInv, RegistryTypeOK, Holding
<1>5. RegistryTypeOK'
  BY DEF RegistryIInv, RegistryTypeOK, Copy
<1>6. Active' = Active
  BY DEF Active
<1>7. Holds'
  <2>1. Expects'
    BY DEF RegistryIInv, RegistryTypeOK, Holds, Expects, Holding
  <2>2. TargetHeld'
    BY <1>4 DEF RegistryIInv, Holds, TargetHeld
  <2>3. ArchivedHeld'
    <3> SUFFICES ASSUME NEW q \in Operator, NEW n \in archiving[q]
                 PROVE  lock[n] = q /\ txn'[q] \in {"activate", "commit"}
      BY DEF ArchivedHeld
    <3>1. lock[n] = q /\ txn[q] \in {"activate", "commit"}
      BY DEF RegistryIInv, Holds, ArchivedHeld
    <3> QED
      BY <3>1 DEF RegistryIInv, RegistryTypeOK
  <2>4. HoldersHold'
    BY <1>4 DEF RegistryIInv, RegistryTypeOK, Holds, HoldersHold
  <2> QED
    BY <2>1, <2>2, <2>3, <2>4 DEF Holds
<1>8. CommitsAlone' /\ CommitReplaces' /\ OneActive'
  BY <1>1, <1>3, <1>6 DEF RegistryIInv, CommitsAlone, CommitReplaces, OneActive
<1>9. HoldersOfActive'
  <2> SUFFICES ASSUME NEW n \in Active, lock[n] # NoModel
               PROVE  txn'[lock[n]] \in {"archive", "activate", "commit"}
    BY <1>6 DEF HoldersOfActive
  <2>1. lock[n] \in Operator
    BY DEF RegistryIInv, RegistryTypeOK, Active
  <2>2. txn[lock[n]] \in {"archive", "activate", "commit"}
    BY DEF RegistryIInv, HoldersOfActive
  <2> QED
    BY <2>1, <2>2 DEF RegistryIInv, RegistryTypeOK
<1> QED
  BY <1>5, <1>6, <1>7, <1>8, <1>9 DEF Governed

\* A commit makes its target the active model, the only one.
LEMMA CommitRows ==
  ASSUME RegistryIInv, NEW o \in Operator, NEW lost \in BOOLEAN, Commit(o, lost)
  PROVE  RegistryTypeOK' /\ Governed' /\ Active' = {target[o]}
<1> DEFINE t == target[o]
           next == IF lost THEN "idle" ELSE "invalidate"
<1>1. /\ txn[o] = "commit"
      /\ lifecycle' = Activated(o)
      /\ lock' = Unlocked(o)
      /\ txn' = [txn EXCEPT ![o] = next]
      /\ archiving' = [archiving EXCEPT ![o] = {}]
      /\ UNCHANGED <<fit, model, loading, shown, requests>>
  BY DEF Commit, Leave, hosts
<1>2. /\ target' = IF lost THEN [target EXCEPT ![o] = NoModel] ELSE target
      /\ expected' = IF lost THEN [expected EXCEPT ![o] = ""] ELSE expected
  BY DEF Commit, Leave
<1>3. t \in Model /\ lock[t] = o /\ lifecycle[t] \in {"candidate", "archived"}
  BY <1>1, Targets, HeldState DEF RegistryIInv, Holds, Holding
<1>4. \A m \in Model : lifecycle'[m] = IF m = t THEN "active"
                                       ELSE IF m \in archiving[o] THEN "archived" ELSE lifecycle[m]
  BY <1>1 DEF Activated
<1>5. \A m \in Model : lock'[m] = IF lock[m] = o THEN NoModel ELSE lock[m]
  BY <1>1 DEF Unlocked
<1>6. \A m \in Model : lock[m] # o => lifecycle'[m] = lifecycle[m]
  BY <1>3, <1>4 DEF RegistryIInv, Holds, ArchivedHeld
<1>7. Active' = {t}
  <2>1. Active \subseteq archiving[o] \cup {t}
    BY <1>1 DEF RegistryIInv, CommitReplaces
  <2> QED
    BY <1>3, <1>4, <2>1 DEF Active
<1>8. RegistryTypeOK'
  <2>1. lifecycle' \in [Model -> {"absent", "candidate", "active", "archived"}]
    BY <1>1 DEF Activated, RegistryIInv, RegistryTypeOK
  <2>2. fit' \subseteq {m \in Model : lifecycle'[m] # "absent"}
    BY <1>1, <1>4 DEF RegistryIInv, RegistryTypeOK
  <2>3. lock' \in [Model -> Operator \cup {NoModel}]
    BY <1>1 DEF Unlocked, RegistryIInv, RegistryTypeOK
  <2>4. txn' \in [Operator -> {"idle", "lock", "rivals", "archive", "activate",
                               "commit", "invalidate"}]
    BY <1>1 DEF RegistryIInv, RegistryTypeOK
  <2>5. target' \in [Operator -> Copy]
    BY <1>2 DEF RegistryIInv, RegistryTypeOK, Copy
  <2>6. expected' \in [Operator -> {"", "candidate", "archived"}]
    BY <1>2 DEF RegistryIInv, RegistryTypeOK
  <2>7. archiving' \in [Operator -> SUBSET Model]
    BY <1>1 DEF RegistryIInv, RegistryTypeOK
  <2>8. ASSUME NEW q \in Operator
        PROVE  (txn'[q] = "idle" <=> target'[q] = NoModel) /\ target'[q] \notin archiving'[q]
    BY <1>1, <1>2, <1>3, RegistryAssumption DEF RegistryAssumption, RegistryIInv, RegistryTypeOK
  <2>9. excused' \subseteq Host
    BY RegistryAssumption DEF RegistryAssumption, Commit, Others, RegistryIInv, RegistryTypeOK
  <2>10. dbFaults' \in 0..MaxDbFaults
    <3>1. dbFaults \in 0..MaxDbFaults /\ MaxDbFaults \in Nat
      BY RegistryAssumption DEF RegistryAssumption, RegistryIInv, RegistryTypeOK
    <3>2. \/ dbFaults' = dbFaults
          \/ dbFaults' = dbFaults + 1 /\ dbFaults < MaxDbFaults
      BY DEF Commit
    <3> QED
      BY <3>1, <3>2
  <2> QED
    BY <1>1, <2>1, <2>2, <2>3, <2>4, <2>5, <2>6, <2>7, <2>8, <2>9, <2>10
    DEF RegistryIInv, RegistryTypeOK, Copy
<1>9. \A q \in Operator : txn'[q] \in {"lock"} \cup Holding <=> txn[q] \in {"lock"} \cup Holding /\ q # o
  BY <1>1 DEF RegistryIInv, RegistryTypeOK, Holding
<1>10. \A q \in Operator : q # o => /\ txn'[q] = txn[q] /\ target'[q] = target[q]
                                   /\ expected'[q] = expected[q] /\ archiving'[q] = archiving[q]
  BY <1>1, <1>2 DEF RegistryIInv, RegistryTypeOK
<1>11. archiving'[o] = {} /\ txn'[o] = next
  BY <1>1 DEF RegistryIInv, RegistryTypeOK
<1>12. Holds'
  <2>1. Expects'
    BY <1>9, <1>10 DEF RegistryIInv, Holds, Expects
  <2>2. TargetHeld'
    <3> SUFFICES ASSUME NEW q \in Operator, txn'[q] \in Holding
                 PROVE  lock'[target'[q]] = q /\ lifecycle'[target'[q]] = expected'[q]
      BY DEF TargetHeld
    <3>1. q # o
      BY <1>11 DEF Holding
    <3>2. txn[q] \in Holding /\ target'[q] = target[q] /\ expected'[q] = expected[q]
      BY <1>10, <3>1
    <3>3. target[q] \in Model /\ lock[target[q]] = q /\ lifecycle[target[q]] = expected[q]
      BY <3>2, Targets DEF RegistryIInv, Holding, Holds, TargetHeld
    <3> QED
      BY <1>5, <1>6, <3>1, <3>2, <3>3
  <2>3. ArchivedHeld'
    <3> SUFFICES ASSUME NEW q \in Operator, NEW n \in archiving'[q]
                 PROVE  lock'[n] = q /\ txn'[q] \in {"activate", "commit"}
      BY DEF ArchivedHeld
    <3>1. q # o
      BY <1>11
    <3>2. n \in Model /\ lock[n] = q /\ txn[q] \in {"activate", "commit"}
      BY <1>10, <3>1 DEF RegistryIInv, Holds, ArchivedHeld, RegistryTypeOK
    <3> QED
      BY <1>5, <1>10, <3>1, <3>2
  <2>4. HoldersHold'
    <3> SUFFICES ASSUME NEW n \in Model, lock'[n] # NoModel PROVE txn'[lock'[n]] \in Holding
      BY DEF HoldersHold
    <3>1. lock'[n] = lock[n] /\ lock[n] # o
      BY <1>5
    <3>2. lock[n] \in Operator /\ txn[lock[n]] \in Holding
      BY <3>1 DEF RegistryIInv, Holds, HoldersHold, RegistryTypeOK
    <3> QED
      BY <1>10, <3>1, <3>2
  <2> QED
    BY <2>1, <2>2, <2>3, <2>4 DEF Holds
<1>13. CommitsAlone' /\ CommitReplaces' /\ OneActive'
  <2>1. \A q \in Operator : txn'[q] # "commit"
    BY <1>1, <1>10, <1>11 DEF RegistryIInv, CommitsAlone
  <2> QED
    BY <1>7, <2>1 DEF CommitsAlone, CommitReplaces, OneActive
<1>14. HoldersOfActive'
  BY <1>3, <1>5, <1>7 DEF HoldersOfActive
<1> QED
  BY <1>7, <1>8, <1>12, <1>13, <1>14 DEF Governed

-----------------------------------------------------------------------------
(* The copies the processes keep.                                          *)

\* What changes neither the active model nor the copies, and takes no excuse
\* away.
LEMMA RestHosts ==
  ASSUME RegistryIInv, Active' = Active, UNCHANGED <<model, loading, excused>>,
         \A q \in Operator : txn[q] = "invalidate" => txn'[q] = "invalidate"
  PROVE  LoadedIsActive' /\ KeptIsActive'
<1>1. \A h \in Host : Excused(h) => Excused(h)'
  BY DEF Excused
<1> QED
  BY <1>1 DEF RegistryIInv, LoadedIsActive, KeptIsActive

\* A commit excuses everybody but its own process, which it is about to tell.
LEMMA CommitHosts ==
  ASSUME RegistryIInv, NEW o \in Operator, NEW lost \in BOOLEAN, Commit(o, lost)
  PROVE  LoadedIsActive' /\ KeptIsActive'
<1>1. \A h \in Host : Excused(h)'
  <2> SUFFICES ASSUME NEW h \in Host PROVE Excused(h)'
    OBVIOUS
  <2>1. CASE h # HostOf[o]
    BY <2>1 DEF Commit, Others, Excused
  <2>2. CASE h = HostOf[o] /\ lost
    BY <2>2 DEF Commit, Excused
  <2>3. CASE h = HostOf[o] /\ ~lost
    <3>1. txn'[o] = "invalidate"
      BY <2>3 DEF Commit, RegistryIInv, RegistryTypeOK
    <3> QED
      BY <2>3, <3>1 DEF Excused
  <2> QED
    BY <2>1, <2>2, <2>3
<1> QED
  BY <1>1 DEF LoadedIsActive, KeptIsActive

\* Dropping the copy of a process keeps what is said of the copies;
LEMMA InvalidateHosts ==
  ASSUME RegistryIInv, NEW o \in Operator, InvalidateCache(o), Active' = Active
  PROVE  LoadedIsActive' /\ KeptIsActive'
<1> DEFINE h == HostOf[o]
<1>1. /\ model' = [model EXCEPT ![h] = NoModel]
      /\ excused' = IF loading[h] = NotLoading THEN excused \ {h} ELSE excused \cup {h}
      /\ txn' = [txn EXCEPT ![o] = "idle"] /\ UNCHANGED loading
  BY DEF InvalidateCache, Leave, Emptied
<1>2. ASSUME NEW k \in Host, k # h, Excused(k) PROVE Excused(k)'
  <2>1. k \in excused => k \in excused'
    BY <1>1, <1>2
  <2>2. ASSUME NEW q \in Operator, txn[q] = "invalidate", HostOf[q] = k
        PROVE  txn'[q] = "invalidate"
    BY <1>1, <1>2, <2>2 DEF RegistryIInv, RegistryTypeOK
  <2> QED
    BY <1>2, <2>1, <2>2 DEF Excused
<1>3. loading[h] = NotLoading \/ Excused(h)'
  BY <1>1 DEF Excused
<1>4. h \in Host /\ model'[h] = NoModel
  BY <1>1, RegistryAssumption DEF RegistryAssumption, RegistryIInv, RegistryTypeOK
<1>5. \A k \in Host : k # h => model'[k] = model[k]
  BY <1>1 DEF RegistryIInv, RegistryTypeOK
<1> QED
  BY <1>1, <1>2, <1>3, <1>4, <1>5 DEF RegistryIInv, LoadedIsActive, KeptIsActive

\* so does reading the active row,
LEMMA LoadActiveHosts ==
  ASSUME RegistryIInv, NEW h \in Host, LoadActive(h), Active' = Active
  PROVE  loading' \in [Host -> Copy \cup {NotLoading}] /\ LoadedIsActive' /\ KeptIsActive'
<1> DEFINE read == IF Loadable = {} THEN NoModel ELSE CHOOSE m \in Loadable : TRUE
<1>1. loading' = [loading EXCEPT ![h] = read] /\ UNCHANGED <<model, excused, txn>>
  BY DEF LoadActive
<1>2. read \in Active \cup {NoModel}
  BY DEF Loadable
<1>3. loading' \in [Host -> Copy \cup {NotLoading}]
  BY <1>1, <1>2 DEF RegistryIInv, RegistryTypeOK, Copy, Active
<1>4. \A k \in Host : Excused(k)' <=> Excused(k)
  BY <1>1 DEF Excused
<1> HIDE DEF read
<1>5. \A k \in Host : loading'[k] = IF k = h THEN read ELSE loading[k]
  BY <1>1 DEF RegistryIInv, RegistryTypeOK
<1> QED
  BY <1>1, <1>2, <1>3, <1>4, <1>5 DEF RegistryIInv, LoadedIsActive, KeptIsActive

\* and keeping what was read.
LEMMA KeepModelHosts ==
  ASSUME RegistryIInv, NEW h \in Host, KeepModel(h), Active' = Active
  PROVE  RegistryTypeOK' /\ LoadedIsActive' /\ KeptIsActive'
<1>1. /\ loading[h] # NotLoading
      /\ model' = [model EXCEPT ![h] = loading[h]] /\ shown' = loading[h]
      /\ loading' = [loading EXCEPT ![h] = NotLoading]
      /\ UNCHANGED <<lifecycle, fit, lock, txn, target, expected, archiving, excused, requests,
                     dbFaults>>
  BY DEF KeepModel, rows
<1>2. loading[h] \in Copy
  BY <1>1 DEF RegistryIInv, RegistryTypeOK
<1>3. RegistryTypeOK'
  BY <1>1, <1>2 DEF RegistryIInv, RegistryTypeOK
<1>4. \A k \in Host : Excused(k)' <=> Excused(k)
  BY <1>1 DEF Excused
<1>5. \A k \in Host : /\ model'[k] = IF k = h THEN loading[h] ELSE model[k]
                      /\ loading'[k] = IF k = h THEN NotLoading ELSE loading[k]
  BY <1>1 DEF RegistryIInv, RegistryTypeOK
<1> QED
  BY <1>1, <1>3, <1>4, <1>5 DEF RegistryIInv, LoadedIsActive, KeptIsActive

-----------------------------------------------------------------------------
(* The invariant.                                                          *)

\* The parts of the invariant make the whole.
LEMMA Assemble ==
  ASSUME RegistryTypeOK', Governed', LoadedIsActive', KeptIsActive'
  PROVE  RegistryIInv'
  BY DEF Governed, RegistryIInv

\* A fault more is within the bound.
LEMMA NoFault ==
  ASSUME RegistryTypeOK, dbFaults < MaxDbFaults
  PROVE  dbFaults + 1 \in 0..MaxDbFaults
<1>1. dbFaults \in 0..MaxDbFaults /\ MaxDbFaults \in Nat
  BY RegistryAssumption DEF RegistryAssumption, RegistryTypeOK
<1> QED
  BY <1>1

\* Training a model, or losing its artifact, keeps the invariant.
LEMMA ModelStep ==
  ASSUME RegistryIInv, NEW m \in Model,
         SpoilModel(m) \/ \E eligible \in BOOLEAN : TrainModel(m, eligible)
  PROVE  RegistryIInv'
<1>1. CASE SpoilModel(m)
  <2>1. /\ fit' = fit \ {m} /\ dbFaults < MaxDbFaults /\ dbFaults' = dbFaults + 1
        /\ UNCHANGED <<lifecycle, lock, txn, target, expected, archiving, model, loading, shown,
                       excused, requests>>
    BY <1>1 DEF SpoilModel, hosts
  <2>2. dbFaults' \in 0..MaxDbFaults
    BY <2>1, NoFault DEF RegistryIInv
  <2>3. RegistryTypeOK'
    BY <2>1, <2>2 DEF RegistryIInv, RegistryTypeOK
  <2>4. Governed' /\ Active' = Active
    BY <2>1, RestRows
  <2> QED
    BY <2>1, <2>3, <2>4, RestHosts, Assemble
<1>2. ASSUME NEW eligible \in BOOLEAN, TrainModel(m, eligible) PROVE RegistryIInv'
  <2>1. RegistryTypeOK' /\ Governed' /\ Active' = Active
    BY <1>2, TrainModelRows
  <2>2. UNCHANGED <<model, loading, excused, txn>>
    BY <1>2 DEF TrainModel, hosts
  <2> QED
    BY <2>1, <2>2, RestHosts, Assemble
<1> QED
  BY <1>1, <1>2

\* A transaction that is given up.
LEMMA RollbackStep ==
  ASSUME RegistryIInv, NEW o \in Operator, Rollback(o), txn[o] # "invalidate",
         dbFaults' \in 0..MaxDbFaults
  PROVE  RegistryIInv'
<1>1. /\ Leave(o) /\ UNCHANGED <<lifecycle, fit, model, loading, shown, excused, requests>>
  BY DEF Rollback, rows, hosts
<1>2. model' \in [Host -> Copy] /\ excused' \subseteq Host
  BY <1>1 DEF RegistryIInv, RegistryTypeOK
<1>3. RegistryTypeOK' /\ Governed' /\ Active' = Active
  BY <1>1, <1>2, LeaveRows
<1>4. \A q \in Operator : txn[q] = "invalidate" => txn'[q] = "invalidate"
  BY <1>1 DEF Leave, RegistryIInv, RegistryTypeOK
<1> QED
  BY <1>1, <1>3, <1>4, RestHosts, Assemble

\* Up to its commit a transaction changes nothing the processes depend on.
LEMMA TransactionStep ==
  ASSUME RegistryIInv, NEW o \in Operator,
         LockTarget(o) \/ LockRivals(o) \/ ArchiveRivals(o) \/ ActivateTarget(o)
  PROVE  RegistryIInv'
<1>1. dbFaults' \in 0..MaxDbFaults
  BY DEF LockTarget, LockRivals, ArchiveRivals, ActivateTarget, RegistryIInv, RegistryTypeOK
<1>2. txn[o] \in {"lock", "rivals", "archive", "activate"}
  BY DEF LockTarget, LockRivals, ArchiveRivals, ActivateTarget
<1>3. SUFFICES ASSUME ~Rollback(o) PROVE RegistryIInv'
  BY <1>1, <1>2, RollbackStep
<1>4. UNCHANGED <<model, loading, excused>>
  BY DEF LockTarget, LockRivals, ArchiveRivals, ActivateTarget, Rollback, hosts
<1>5. \E next \in {"rivals", "archive", "activate", "commit"} : txn' = [txn EXCEPT ![o] = next]
  BY <1>3 DEF LockTarget, LockRivals, ArchiveRivals, ActivateTarget, Rollback
<1>6. \A q \in Operator : txn[q] = "invalidate" => txn'[q] = "invalidate"
  BY <1>2, <1>5 DEF RegistryIInv, RegistryTypeOK
<1>7. RegistryTypeOK' /\ Governed' /\ Active' = Active
  <2>1. CASE LockTarget(o)
    <3>1. lifecycle[target[o]] = expected[o]
      BY <1>3, <2>1 DEF LockTarget, Rollback
    <3> QED
      BY <2>1, <3>1, LockTargetRows
  <2>2. CASE LockRivals(o)
    <3>1. \A m \in Active : Free(o, m)
      BY <2>2 DEF LockRivals, WaitsFor
    <3>2. /\ lock' = LockAll(o, Active) /\ txn[o] = "rivals"
          /\ txn' = [txn EXCEPT ![o] = "archive"]
          /\ UNCHANGED <<lifecycle, fit, target, expected, archiving, model, loading, shown,
                         excused, requests, dbFaults>>
      BY <2>2 DEF LockRivals, rows, hosts
    <3> QED
      BY <3>1, <3>2, LockActiveRows
  <2>3. CASE ArchiveRivals(o)
    <3>1. \A m \in Active : Free(o, m)
      BY <2>3 DEF ArchiveRivals, WaitsFor
    <3>2. Rivals(o) \in SUBSET Active /\ target[o] \notin Rivals(o)
      BY DEF Rivals
    <3>3. /\ lock' = LockAll(o, Rivals(o)) /\ txn[o] = "archive"
          /\ txn' = [txn EXCEPT ![o] = "activate"]
          /\ archiving' = [archiving EXCEPT ![o] = Rivals(o)]
          /\ UNCHANGED <<lifecycle, fit, target, expected, model, loading, shown, excused, requests,
                         dbFaults>>
      BY <2>3 DEF ArchiveRivals, rows, hosts
    <3> QED
      BY <3>1, <3>2, <3>3, LockActiveRows
  <2>4. CASE ActivateTarget(o)
    <3>1. /\ txn[o] = "activate" /\ WaitsFor(o) = {} /\ ~IndexRefuses(o)
          /\ txn' = [txn EXCEPT ![o] = "commit"]
          /\ UNCHANGED <<lifecycle, fit, lock, target, expected, archiving, model, loading, shown,
                         excused, requests, dbFaults>>
      BY <1>3, <2>4 DEF ActivateTarget, rows, hosts
    <3> QED
      BY <3>1, ActivateTargetRows
  <2> QED
    BY <2>1, <2>2, <2>3, <2>4
<1> QED
  BY <1>4, <1>6, <1>7, RestHosts, Assemble

\* A step of an activation keeps it.
LEMMA OperatorStep ==
  ASSUME RegistryIInv, NEW o \in Operator,
         \/ \E m \in Model, from \in {"candidate", "archived"} : Request(o, m, from)
         \/ \E lost \in BOOLEAN : Commit(o, lost)
         \/ FailStatement(o) \/ InvalidateCache(o)
  PROVE  RegistryIInv'
<1>1. ASSUME NEW m \in Model, NEW from \in {"candidate", "archived"}, Request(o, m, from)
      PROVE  RegistryIInv'
  <2>1. RegistryTypeOK' /\ Governed' /\ Active' = Active
    BY <1>1, RequestRows
  <2>2. /\ UNCHANGED <<model, loading, excused>>
        /\ txn[o] = "idle" /\ txn' = [txn EXCEPT ![o] = "lock"]
    BY <1>1 DEF Request, hosts
  <2>3. \A q \in Operator : txn[q] = "invalidate" => txn'[q] = "invalidate"
    BY <2>2 DEF RegistryIInv, RegistryTypeOK
  <2> QED
    BY <2>1, <2>2, <2>3, RestHosts, Assemble
<1>2. ASSUME NEW lost \in BOOLEAN, Commit(o, lost) PROVE RegistryIInv'
  BY <1>2, CommitRows, CommitHosts, Assemble
<1>3. CASE FailStatement(o)
  <2>1. Rollback(o) /\ txn[o] # "invalidate" /\ dbFaults < MaxDbFaults /\ dbFaults' = dbFaults + 1
    BY <1>3 DEF FailStatement
  <2> QED
    BY <2>1, NoFault, RollbackStep DEF RegistryIInv
<1>4. CASE InvalidateCache(o)
  <2>1. /\ Leave(o) /\ UNCHANGED <<lifecycle, fit, loading, shown, requests, dbFaults>>
        /\ model' = [model EXCEPT ![HostOf[o]] = NoModel]
        /\ excused' \in {excused \ {HostOf[o]}, excused \cup {HostOf[o]}}
    BY <1>4 DEF InvalidateCache, Emptied, rows
  <2>2. /\ model' \in [Host -> Copy] /\ excused' \subseteq Host
        /\ dbFaults' \in 0..MaxDbFaults
    <3>1. HostOf[o] \in Host
      BY RegistryAssumption DEF RegistryAssumption
    <3>2. model \in [Host -> Copy] /\ excused \subseteq Host /\ dbFaults \in 0..MaxDbFaults
      BY DEF RegistryIInv, RegistryTypeOK
    <3>3. excused' \subseteq Host
      BY <2>1, <3>1, <3>2
    <3>4. model' \in [Host -> Copy]
      BY <2>1, <3>2 DEF Copy
    <3> QED
      BY <2>1, <3>2, <3>3, <3>4
  <2>3. RegistryTypeOK' /\ Governed' /\ Active' = Active
    BY <2>1, <2>2, LeaveRows
  <2> QED
    BY <1>4, <2>3, InvalidateHosts, Assemble
<1> QED
  BY <1>1, <1>2, <1>3, <1>4

\* A prediction and its snapshot keep it.
LEMMA PredictionStep ==
  ASSUME RegistryIInv,
         \/ \E h \in Host : LoadActive(h) \/ KeepModel(h) \/ PredictFromCopy(h)
         \/ SnapshotExpires
  PROVE  RegistryIInv'
<1>1. /\ UNCHANGED <<lifecycle, fit, lock, txn, target, expected, archiving, excused, requests,
                     dbFaults>>
  BY DEF LoadActive, KeepModel, PredictFromCopy, SnapshotExpires, rows
<1>2. Governed' /\ Active' = Active
  BY <1>1, RestRows
<1>3. ASSUME NEW h \in Host, LoadActive(h) PROVE RegistryIInv'
  <2>1. loading' \in [Host -> Copy \cup {NotLoading}] /\ LoadedIsActive' /\ KeptIsActive'
    BY <1>2, <1>3, LoadActiveHosts
  <2>2. UNCHANGED <<model, shown>>
    BY <1>3 DEF LoadActive
  <2>3. RegistryTypeOK'
    BY <1>1, <2>1, <2>2 DEF RegistryIInv, RegistryTypeOK
  <2> QED
    BY <1>2, <2>1, <2>3, Assemble
<1>4. ASSUME NEW h \in Host, KeepModel(h) PROVE RegistryIInv'
  BY <1>2, <1>4, KeepModelHosts, Assemble
<1>5. ASSUME NEW h \in Host, PredictFromCopy(h) PROVE RegistryIInv'
  <2>1. UNCHANGED <<model, loading>> /\ shown' = model[h]
    BY <1>5 DEF PredictFromCopy
  <2>2. RegistryTypeOK'
    BY <1>1, <2>1 DEF RegistryIInv, RegistryTypeOK
  <2> QED
    BY <1>1, <1>2, <2>1, <2>2, RestHosts, Assemble
<1>6. CASE SnapshotExpires
  <2>1. UNCHANGED <<model, loading>> /\ shown' = NoModel
    BY <1>6 DEF SnapshotExpires
  <2>2. RegistryTypeOK'
    BY <1>1, <2>1 DEF RegistryIInv, RegistryTypeOK, Copy
  <2> QED
    BY <1>1, <1>2, <2>1, <2>2, RestHosts, Assemble
<1> QED
  BY <1>3, <1>4, <1>5, <1>6

\* The invariant holds of an empty registry.
THEOREM RegistryInitially == RegistryInit => RegistryIInv
<1> SUFFICES ASSUME RegistryInit PROVE RegistryIInv
  OBVIOUS
<1>1. RegistryTypeOK
  <2>1. 0 \in 0..MaxRequests /\ 0 \in 0..MaxDbFaults
    BY RegistryAssumption DEF RegistryAssumption
  <2>2. /\ lifecycle \in [Model -> {"absent", "candidate", "active", "archived"}]
        /\ fit \subseteq {m \in Model : lifecycle[m] # "absent"}
        /\ lock \in [Model -> Operator \cup {NoModel}]
    BY DEF RegistryInit
  <2>3. /\ txn \in [Operator -> {"idle", "lock", "rivals", "archive", "activate",
                                 "commit", "invalidate"}]
        /\ target \in [Operator -> Copy]
        /\ expected \in [Operator -> {"", "candidate", "archived"}]
        /\ archiving \in [Operator -> SUBSET Model]
    BY DEF RegistryInit, Copy
  <2>4. \A o \in Operator : (txn[o] = "idle" <=> target[o] = NoModel) /\ target[o] \notin archiving[o]
    BY DEF RegistryInit
  <2>5. model \in [Host -> Copy] /\ loading \in [Host -> Copy \cup {NotLoading}]
        /\ shown \in Copy /\ excused \subseteq Host
    BY DEF RegistryInit, Copy
  <2> QED
    BY <2>1, <2>2, <2>3, <2>4, <2>5 DEF RegistryInit, RegistryTypeOK
<1>2. Active = {}
  BY DEF RegistryInit, Active
<1>3. Holds /\ CommitsAlone /\ CommitReplaces
  BY DEF RegistryInit, Holds, Holding, Expects, TargetHeld, ArchivedHeld, HoldersHold,
     CommitsAlone, CommitReplaces
<1>4. OneActive /\ HoldersOfActive
  BY <1>2 DEF OneActive, HoldersOfActive
<1>5. LoadedIsActive /\ KeptIsActive
  BY DEF RegistryInit, LoadedIsActive, KeptIsActive
<1> QED
  BY <1>1, <1>3, <1>4, <1>5 DEF RegistryIInv

\* Every step keeps it.
THEOREM RegistryInductive == RegistryIInv /\ [RegistryNext]_registryVars => RegistryIInv'
<1> SUFFICES ASSUME RegistryIInv, [RegistryNext]_registryVars PROVE RegistryIInv'
  OBVIOUS
<1>1. CASE RegistryNext
  BY <1>1, ModelStep, TransactionStep, OperatorStep, PredictionStep DEF RegistryNext
<1>2. CASE UNCHANGED registryVars
  <2>1. UNCHANGED <<lifecycle, fit, lock, txn, target, expected, archiving, model, loading, shown,
                   excused, requests, dbFaults>>
    BY <1>2 DEF registryVars
  <2>2. RegistryTypeOK'
    BY <2>1 DEF RegistryIInv, RegistryTypeOK
  <2> QED
    BY <2>1, <2>2, RestRows, RestHosts, Assemble
<1> QED
  BY <1>1, <1>2

\* It holds in every reachable state of the registry.
THEOREM RegistryInvariance == RegistrySpec => []RegistryIInv
  BY RegistryInitially, RegistryInductive, PTL DEF RegistrySpec

\* The rows, the transactions and the copies hold what they are declared to.
THEOREM RegistryTypeCorrect == RegistrySpec => []RegistryTypeOK
  BY RegistryInvariance, PTL DEF RegistryIInv

\* Promotions and rollbacks by any number of requests leave one model active
\* at most.
THEOREM ActiveOnce == RegistrySpec => []OneActiveModel
<1>1. RegistryIInv => OneActiveModel
  <2> SUFFICES ASSUME RegistryIInv PROVE Cardinality(Active) <= 1
    BY DEF OneActiveModel
  <2>1. CASE Active = {}
    BY <2>1, FS_EmptySet
  <2>2. CASE Active # {}
    <3>1. PICK m \in Active : TRUE
      BY <2>2
    <3>2. Active = {m}
      BY <3>1 DEF RegistryIInv, OneActive
    <3> QED
      BY <3>2, FS_Singleton
  <2> QED
    BY <2>1, <2>2
<1> QED
  BY <1>1, RegistryInvariance, PTL

\* The process that served an activation does not go on with the old model.
THEOREM PromotionArrives == RegistrySpec => []PromotionReachesItsProcess
<1>1. RegistryIInv => PromotionReachesItsProcess
  BY DEF RegistryIInv, KeptIsActive, Excused, PromotionReachesItsProcess
<1> QED
  BY <1>1, RegistryInvariance, PTL

\* Who holds an active row and is not about to commit waits for nobody: it is
\* the only active one.
LEMMA HoldersGoOn ==
  ASSUME RegistryIInv, NEW m \in Active, lock[m] # NoModel,
         \A p \in Operator : txn[p] # "commit"
  PROVE  /\ lock[m] \in Operator /\ txn[lock[m]] \in {"archive", "activate"}
         /\ WaitsFor(lock[m]) = {}
<1> DEFINE q == lock[m]
<1>1. q \in Operator /\ txn[q] \in {"archive", "activate"}
  BY DEF RegistryIInv, HoldersOfActive, RegistryTypeOK, Active
<1>2. \A n \in Active : Free(q, n)
  BY DEF RegistryIInv, OneActive, Free
<1> HIDE DEF q
<1>3. ASSUME txn[q] = "archive" PROVE WaitsFor(q) = {}
  <2>1. WaitsFor(q) = {n \in Active : ~Free(q, n)}
    BY <1>3 DEF WaitsFor
  <2> QED
    BY <1>2, <2>1
<1>4. ASSUME txn[q] = "activate" PROVE WaitsFor(q) = {}
  <2>1. ~ \E n \in Model : n \in Active \ archiving[q] /\ n # target[q] /\ ~Free(q, n)
    BY <1>2
  <2>2. ~ \E p \in Operator \ {q} : txn[p] = "commit"
    OBVIOUS
  <2>3. WaitsFor(q) =
          {n \in Model : \/ \E p \in Operator \ {q} : txn[p] = "commit" /\ target[p] = n
                         \/ n \in Active \ archiving[q] /\ n # target[q] /\ ~Free(q, n)}
    BY <1>4 DEF WaitsFor
  <2> QED
    BY <2>1, <2>2, <2>3
<1> QED
  BY <1>1, <1>3, <1>4 DEF q

\* An activation behind its lock waits for the holder of the active row; one
\* before it, for an activation that is behind its own.
THEOREM NoRing == RegistrySpec => []ActivationsProceed
<1>1. RegistryIInv => ActivationsProceed
  <2> SUFFICES ASSUME RegistryIInv, NEW o \in Operator, WaitsFor(o) # {}
               PROVE  \E q \in Operator : txn[q] # "idle" /\ WaitsFor(q) = {}
    BY DEF ActivationsProceed
  <2>1. CASE \E p \in Operator : txn[p] = "commit"
    BY <2>1 DEF WaitsFor
  <2>2. CASE \A p \in Operator : txn[p] # "commit"
    <3>1. ASSUME NEW p \in Operator, WaitsFor(p) # {}, txn[p] \in {"rivals", "archive", "activate"}
          PROVE  \E q \in Operator : txn[q] # "idle" /\ WaitsFor(q) = {}
      <4>1. PICK m \in WaitsFor(p) : TRUE
        BY <3>1
      <4>2. m \in Active /\ ~Free(p, m)
        BY <2>2, <3>1, <4>1 DEF WaitsFor
      <4>3. lock[m] # NoModel
        BY <4>2 DEF Free
      <4> QED
        BY <2>2, <4>2, <4>3, HoldersGoOn
    <3>2. CASE txn[o] = "lock"
      <4>1. ~Free(o, target[o])
        BY <3>2 DEF WaitsFor
      <4>2. target[o] \in Model
        BY <3>2, Targets DEF RegistryIInv
      <4> DEFINE p == lock[target[o]]
      <4>0. p # NoModel
        BY <4>1 DEF Free
      <4>3. p \in Operator /\ txn[p] \in Holding
        <5>1. HoldersHold /\ lock \in [Model -> Operator \cup {NoModel}]
          BY DEF RegistryIInv, Holds, RegistryTypeOK
        <5> QED
          BY <4>0, <4>2, <5>1 DEF HoldersHold
      <4>4. txn[p] \in {"rivals", "archive", "activate"}
        BY <2>2, <4>3 DEF Holding
      <4> QED
        BY <3>1, <4>3, <4>4
    <3>3. txn[o] \in {"lock", "rivals", "archive", "activate"}
      BY DEF WaitsFor, RegistryIInv, RegistryTypeOK
    <3> QED
      BY <3>1, <3>2, <3>3
  <2> QED
    BY <2>1, <2>2
<1> QED
  BY <1>1, RegistryInvariance, PTL

-----------------------------------------------------------------------------
(* Totals over a finite set.                                               *)
\* The sum of a function's values.
TotalOver(f, S) == MapThenSumSet(LAMBDA m : f[m], S)

\* Of sets of parts of a finite set, one contains no other.
LEMMA SmallestExists ==
  ASSUME NEW S, IsFiniteSet(S), NEW C \in SUBSET (SUBSET S), C # {}
  PROVE  \E s \in C : \A t \in C : t \subseteq s => t = s
<1>1. C \subseteq FiniteSubsetsOf(S)
  <2> SUFFICES ASSUME NEW c \in C PROVE c \in FiniteSubsetsOf(S)
    OBVIOUS
  <2>1. c \in SUBSET S
    OBVIOUS
  <2>2. IsFiniteSet(c)
    BY <2>1, FS_Subset
  <2> QED BY <2>1, <2>2 DEF FiniteSubsetsOf
<1>2. PICK c0 \in C : TRUE
  OBVIOUS
<1>3. PICK s \in C : \A t \in C : ~(<<t, s>> \in StrictSubsetOrdering(S))
  BY <1>1, <1>2, FS_StrictSubsetOrderingWellFounded, WFMin
<1>4. ASSUME NEW t \in C, t \subseteq s, t # s PROVE FALSE
  <2>1. <<t, s>> \in StrictSubsetOrdering(S)
    BY <1>4 DEF StrictSubsetOrdering
  <2> QED BY <1>3, <2>1
<1> QED BY <1>4

\* Among subsets of a finite set there is one that no other contains.
LEMMA LargestExists ==
  ASSUME NEW S, IsFiniteSet(S), NEW C \in SUBSET (SUBSET S), C # {}
  PROVE  \E D \in C : \A X \in C : D \subseteq X => X = D
<1> DEFINE Rest == {S \ D : D \in C}
<1>1. Rest \subseteq FiniteSubsetsOf(S)
  <2>1. ASSUME NEW D \in C PROVE S \ D \in FiniteSubsetsOf(S)
    <3>1. S \ D \in SUBSET S
      OBVIOUS
    <3>2. IsFiniteSet(S \ D)
      BY <3>1, FS_Subset
    <3> QED BY <3>1, <3>2 DEF FiniteSubsetsOf
  <2> QED BY <2>1
<1>2. PICK D0 \in C : TRUE
  OBVIOUS
<1>3. S \ D0 \in Rest
  OBVIOUS
<1>4. PICK c \in Rest : \A d \in Rest : ~(<<d, c>> \in StrictSubsetOrdering(S))
  <2> HIDE DEF Rest
  <2> QED BY <1>1, <1>3, FS_StrictSubsetOrderingWellFounded, WFMin
<1>5. PICK D \in C : c = S \ D
  OBVIOUS
<1>6. ASSUME NEW X \in C, D \subseteq X, X # D PROVE FALSE
  <2>1. S \ X \in Rest
    OBVIOUS
  <2>2. S \ X \subseteq c /\ S \ X # c /\ S \ X \in SUBSET S /\ c \in SUBSET S
    BY <1>5, <1>6
  <2>3. <<S \ X, c>> \in StrictSubsetOrdering(S)
    BY <2>2 DEF StrictSubsetOrdering
  <2> QED BY <1>4, <2>1, <2>3
<1> QED BY <1>5, <1>6

\* The element that a sum takes next.
Next_(s) == CHOOSE x \in s : TRUE

\* The rule of a sum on the sets of F.
SumRule(g, f, F) ==
    \A s \in F : g[s] = IF s = {} THEN 0 ELSE f[Next_(s)] + g[s \ {Next_(s)}]

\* The rule has a solution.
LEMMA SumExists ==
  ASSUME NEW S, IsFiniteSet(S), NEW f \in [S -> Int]
  PROVE  \E g \in [SUBSET S -> Int] : SumRule(g, f, SUBSET S)
<1> DEFINE Closed_(F) == \A s \in F : s = {} \/ s \ {Next_(s)} \in F
           C == {F \in SUBSET (SUBSET S) : Closed_(F) /\ \E g \in [F -> Int] : SumRule(g, f, F)}
<1>0. IsFiniteSet(SUBSET S)
  BY FS_SUBSET
<1>1. {} \in C
  <2>1. \E g \in [{} -> Int] : SumRule(g, f, {})
    <3>1. [x \in {} |-> 0] \in [{} -> Int]
      OBVIOUS
    <3> QED BY <3>1 DEF SumRule
  <2> QED BY <2>1
<1>2. PICK F \in C : \A X \in C : F \subseteq X => X = F
  <2>1. C \in SUBSET (SUBSET (SUBSET S)) /\ C # {}
    BY <1>1
  <2> HIDE DEF C
  <2> QED BY <1>0, <2>1, LargestExists
<1>3. PICK g \in [F -> Int] : SumRule(g, f, F)
  OBVIOUS
<1>4. F \in SUBSET (SUBSET S) /\ Closed_(F)
  OBVIOUS
<1>5. ASSUME F # SUBSET S PROVE FALSE
  <2> DEFINE B == SUBSET S
             rest == B \ F
  <2>a. rest # {}
    BY <1>4, <1>5
  <2>b. rest \in SUBSET (SUBSET S)
    OBVIOUS
  <2>1. PICK s \in rest : \A t \in rest : t \subseteq s => t = s
    <3> HIDE DEF rest
    <3> QED BY <2>a, <2>b, SmallestExists
  <2> DEFINE v == IF s = {} THEN 0 ELSE f[Next_(s)] + g[s \ {Next_(s)}]
             X == F \cup {s}
             h == [t \in X |-> IF t = s THEN v ELSE g[t]]
  <2>2. s \in SUBSET S /\ s \notin F
    BY <2>1
  <2>3. s # {} => Next_(s) \in s
    BY DEF Next_
  <2>4. s = {} \/ s \ {Next_(s)} \in F
    <3> SUFFICES ASSUME s # {} PROVE s \ {Next_(s)} \in F
      OBVIOUS
    <3>1. s \ {Next_(s)} \in SUBSET S /\ s \ {Next_(s)} \subseteq s /\ s \ {Next_(s)} # s
      BY <2>2, <2>3
    <3> QED BY <2>1, <3>1
  <2>5. v \in Int
    <3>1. CASE s = {}
      BY <3>1
    <3>2. CASE s # {}
      <4>1. f[Next_(s)] \in Int /\ g[s \ {Next_(s)}] \in Int
        BY <2>2, <2>3, <2>4, <3>2
      <4> QED BY <3>2, <4>1
    <3> QED BY <3>1, <3>2
  <2>6. h \in [X -> Int] /\ h[s] = v /\ \A t \in F : h[t] = g[t]
    <3> HIDE DEF v, C
    <3> QED BY <2>2, <2>5
  <2>7. SumRule(h, f, X)
    <3>1. h[s] = IF s = {} THEN 0 ELSE f[Next_(s)] + h[s \ {Next_(s)}]
      <4> HIDE DEF h, C
      <4> QED BY <2>4, <2>6
    <3>2. \A t \in F : h[t] = IF t = {} THEN 0 ELSE f[Next_(t)] + h[t \ {Next_(t)}]
      <4> HIDE DEF h, C
      <4> QED BY <1>3, <1>4, <2>6 DEF SumRule
    <3> HIDE DEF h
    <3> QED BY <3>1, <3>2 DEF SumRule
  <2>8. Closed_(X)
    BY <1>4, <2>4
  <2>9. X \in SUBSET (SUBSET S)
    BY <1>4, <2>2
  <2>10. X \in C
    <3> HIDE DEF h
    <3> SUFFICES \E k \in [X -> Int] : SumRule(k, f, X)
      BY <2>8, <2>9
    <3> QED BY <2>6, <2>7
  <2> HIDE DEF C
  <2> QED BY <1>2, <2>2, <2>10
<1> QED BY <1>3, <1>5

\* A total is the value of a solution.
LEMMA TotalSolves ==
  ASSUME NEW S, IsFiniteSet(S), NEW f \in [S -> Int]
  PROVE  \E g \in [SUBSET S -> Int] : SumRule(g, f, SUBSET S) /\ TotalOver(f, S) = g[S]
<1> DEFINE k == CHOOSE k : k = [s \in SUBSET S |-> IF s = {} THEN 0
                                ELSE f[CHOOSE x \in s : TRUE] + k[s \ {CHOOSE x \in s : TRUE}]]
<1>1. TotalOver(f, S) = k[S]
  BY DEF TotalOver, MapThenSumSet, MapThenFoldSet
<1>2. PICK g \in [SUBSET S -> Int] : SumRule(g, f, SUBSET S)
  BY SumExists
<1>3. g = [s \in SUBSET S |-> IF s = {} THEN 0
              ELSE f[CHOOSE x \in s : TRUE] + g[s \ {CHOOSE x \in s : TRUE}]]
  <2>1. \A s \in SUBSET S : g[s] = IF s = {} THEN 0
                                   ELSE f[CHOOSE x \in s : TRUE] + g[s \ {CHOOSE x \in s : TRUE}]
    BY <1>2, Zenon DEF SumRule, Next_
  <2>2. g = [s \in SUBSET S |-> g[s]]
    OBVIOUS
  <2> QED BY <2>1, <2>2, Zenon
<1>4. k = [s \in SUBSET S |-> IF s = {} THEN 0
              ELSE f[CHOOSE x \in s : TRUE] + k[s \ {CHOOSE x \in s : TRUE}]]
  BY <1>3, Zenon
<1> HIDE DEF k
<1>5. \A s \in SUBSET S : k[s] = IF s = {} THEN 0 ELSE f[Next_(s)] + k[s \ {Next_(s)}]
  BY <1>4, Zenon DEF Next_
<1>6. SumRule(k, f, SUBSET S)
  BY <1>5 DEF SumRule
<1>7. \A s \in SUBSET S : k[s] = g[s]
  <2> DEFINE Bad == {s \in SUBSET S : k[s] # g[s]}
  <2> SUFFICES ASSUME Bad # {} PROVE FALSE
    OBVIOUS
  <2>1. PICK s \in Bad : \A t \in Bad : t \subseteq s => t = s
    <3>1. Bad \in SUBSET (SUBSET S)
      OBVIOUS
    <3> HIDE DEF Bad
    <3> QED BY <3>1, SmallestExists
  <2>2. s \in SUBSET S /\ k[s] # g[s]
    BY <2>1
  <2>3. s # {}
    BY <1>2, <1>6, <2>2 DEF SumRule
  <2>4. Next_(s) \in s
    BY <2>3 DEF Next_
  <2>5. s \ {Next_(s)} \in SUBSET S /\ s \ {Next_(s)} \notin Bad
    BY <2>1, <2>2, <2>4
  <2>6. k[s \ {Next_(s)}] = g[s \ {Next_(s)}]
    BY <2>5
  <2> QED BY <1>2, <1>6, <2>2, <2>3, <2>6 DEF SumRule
<1>8. SumRule(g, f, SUBSET S) /\ TotalOver(f, S) = g[S]
  BY <1>1, <1>2, <1>7
<1> QED BY <1>8

\* Totals add up,
LEMMA TotalAdds ==
  ASSUME NEW S, IsFiniteSet(S), NEW f \in [S -> Int], NEW g \in [S -> Int], NEW h \in [S -> Int],
         \A m \in S : h[m] = f[m] + g[m]
  PROVE  /\ TotalOver(f, S) \in Int /\ TotalOver(g, S) \in Int
         /\ TotalOver(h, S) = TotalOver(f, S) + TotalOver(g, S)
<1>1. PICK F \in [SUBSET S -> Int] : SumRule(F, f, SUBSET S) /\ TotalOver(f, S) = F[S]
  BY TotalSolves
<1>2. PICK G \in [SUBSET S -> Int] : SumRule(G, g, SUBSET S) /\ TotalOver(g, S) = G[S]
  BY TotalSolves
<1>3. PICK H \in [SUBSET S -> Int] : SumRule(H, h, SUBSET S) /\ TotalOver(h, S) = H[S]
  BY TotalSolves
<1> DEFINE Bad == {s \in SUBSET S : H[s] # F[s] + G[s]}
<1>4. ASSUME Bad # {} PROVE FALSE
  <2>1. PICK s \in Bad : \A t \in Bad : t \subseteq s => t = s
    <3>1. Bad \in SUBSET (SUBSET S)
      OBVIOUS
    <3> HIDE DEF Bad
    <3> QED BY <1>4, <3>1, SmallestExists
  <2>2. s \in SUBSET S /\ H[s] # F[s] + G[s]
    BY <2>1
  <2>3. s # {}
    <3> SUFFICES ASSUME s = {} PROVE FALSE
      OBVIOUS
    <3>1. F[s] = 0
      BY <1>1, <2>2 DEF SumRule
    <3>2. G[s] = 0
      BY <1>2, <2>2 DEF SumRule
    <3>3. H[s] = 0
      BY <1>3, <2>2 DEF SumRule
    <3> QED BY <2>2, <3>1, <3>2, <3>3
  <2>4. Next_(s) \in s
    BY <2>3 DEF Next_
  <2> DEFINE x == Next_(s)
             r == s \ {x}
  <2>5. r \in SUBSET S /\ r \notin Bad /\ x \in S
    BY <2>1, <2>2, <2>4
  <2>6. H[r] = F[r] + G[r]
    BY <2>5
  <2>7. F[s] = f[x] + F[r] /\ G[s] = g[x] + G[r] /\ H[s] = h[x] + H[r] /\ h[x] = f[x] + g[x]
    BY <1>1, <1>2, <1>3, <2>2, <2>3, <2>5 DEF SumRule
  <2>8. F[r] \in Int /\ G[r] \in Int /\ f[x] \in Int /\ g[x] \in Int
    BY <2>5
  <2> HIDE DEF x, r
  <2> QED BY <2>2, <2>6, <2>7, <2>8
<1>5. S \in SUBSET S /\ S \notin Bad
  BY <1>4
<1> QED BY <1>1, <1>2, <1>3, <1>5

\* and the total of one value is that value.
LEMMA TotalOfOne ==
  ASSUME NEW S, IsFiniteSet(S), NEW m \in S, NEW d \in Int
  PROVE  TotalOver([x \in S |-> IF x = m THEN d ELSE 0], S) = d
<1> DEFINE f == [x \in S |-> IF x = m THEN d ELSE 0]
<1>0. f \in [S -> Int] /\ f[m] = d /\ \A x \in S : x # m => f[x] = 0
  OBVIOUS
<1> HIDE DEF f
<1>1. PICK F \in [SUBSET S -> Int] : SumRule(F, f, SUBSET S) /\ TotalOver(f, S) = F[S]
  BY <1>0, TotalSolves
<1> DEFINE Bad == {s \in SUBSET S : F[s] # IF m \in s THEN d ELSE 0}
<1>4. ASSUME Bad # {} PROVE FALSE
  <2>1. PICK s \in Bad : \A t \in Bad : t \subseteq s => t = s
    <3>1. Bad \in SUBSET (SUBSET S)
      OBVIOUS
    <3> HIDE DEF Bad
    <3> QED BY <1>4, <3>1, SmallestExists
  <2>2. s \in SUBSET S /\ F[s] # IF m \in s THEN d ELSE 0
    BY <2>1
  <2>3. s # {}
    BY <1>1, <2>2 DEF SumRule
  <2>4. Next_(s) \in s
    BY <2>3 DEF Next_
  <2> DEFINE x == Next_(s)
             r == s \ {x}
  <2>5. r \in SUBSET S /\ r \notin Bad /\ x \in S /\ x \in s
    BY <2>1, <2>2, <2>4
  <2>6. F[r] = IF m \in r THEN d ELSE 0
    BY <2>5
  <2>7. F[s] = f[x] + F[r]
    BY <1>1, <2>2, <2>3 DEF SumRule
  <2>8. m \in r <=> m \in s /\ m # x
    OBVIOUS
  <2> HIDE DEF x, r
  <2> QED BY <1>0, <2>2, <2>5, <2>6, <2>7, <2>8
<1>5. S \in SUBSET S /\ S \notin Bad
  BY <1>4
<1>6. TotalOver(f, S) = d
  BY <1>1, <1>5
<1> QED BY <1>6 DEF f

\* Adding to one value adds to the total.
LEMMA TotalAfter ==
  ASSUME NEW S, IsFiniteSet(S), NEW f \in [S -> Int], NEW m \in S, NEW d \in Int
  PROVE  TotalOver([f EXCEPT ![m] = @ + d], S) = TotalOver(f, S) + d
<1> DEFINE g == [x \in S |-> IF x = m THEN d ELSE 0]
           h == [f EXCEPT ![m] = @ + d]
<1>1. g \in [S -> Int] /\ h \in [S -> Int] /\ \A x \in S : h[x] = f[x] + g[x]
  OBVIOUS
<1>2. TotalOver(g, S) = d
  BY TotalOfOne, Zenon
<1> HIDE DEF g, h
<1>3. TotalOver(h, S) = TotalOver(f, S) + TotalOver(g, S)
  BY <1>1, TotalAdds
<1> QED BY <1>2, <1>3 DEF h

\* The total of nothing.
LEMMA TotalOfNone ==
  ASSUME NEW S, IsFiniteSet(S)
  PROVE  TotalOver([x \in S |-> 0], S) = 0
<1> DEFINE z == [x \in S |-> 0]
<1>1. z \in [S -> Int] /\ \A x \in S : z[x] = z[x] + z[x]
  OBVIOUS
<1> DEFINE t == TotalOver(z, S)
<1> HIDE DEF z
<1>2. t \in Int /\ t = t + t
  BY <1>1, TotalAdds
<1>3. t = 0
  <2> HIDE DEF t
  <2> QED BY <1>2
<1> QED BY <1>3 DEF z

-----------------------------------------------------------------------------
(* The books of the paper ledger.                                          *)
\* What a fill adds to the cost of a position is what it trades and what it realises.
LEMMA CostOfFill ==
  ASSUME NEW e \in Amounts, NEW s \in Int \ {0}, NEW p \in Int, ExactAverage(e, s, p)
  PROVE  LET f == Filled(e, s, p)
         IN /\ f \in Amounts
            /\ f.size * f.entry = e.size * e.entry + s * p + GrossRealized(e, s, p)
<1> DEFINE f == Filled(e, s, p)
           g == GrossRealized(e, s, p)
<1>1. g + f.size * (f.mark - f.entry) = e.size * (p - e.entry)
  BY FillConserves DEF Unrealized
<1>2. f \in Amounts /\ f.size = e.size + s /\ f.size * f.mark = f.size * p
  <2>1. e.size \in Int
    BY DEF Amounts
  <2>2. CASE e.size + s = 0
    BY <2>1, <2>2 DEF Filled, Flat, Amounts
  <2>3. CASE e.size + s # 0
    <3>1. NewEntry(e, s, p) \in Int
      BY <2>3, NewEntryWhole
    <3>2. f = [size |-> e.size + s, entry |-> NewEntry(e, s, p), mark |-> p]
      BY <2>3 DEF Filled
    <3> HIDE DEF f
    <3> QED BY <2>1, <3>1, <3>2 DEF Amounts
  <2> QED BY <2>2, <2>3
<1>3. g \in Int /\ e.size \in Int /\ e.entry \in Int
  BY GrossType DEF Amounts
<1> DEFINE a == e.size  x == e.entry  n == f.size  y == f.entry  k == f.mark
<1>5. a \in Int /\ x \in Int /\ n \in Int /\ y \in Int /\ k \in Int /\ g \in Int /\ n = a + s
      /\ g + n * (k - y) = a * (p - x) /\ n * k = n * p
  BY <1>1, <1>2, <1>3 DEF Amounts
<1> SUFFICES n * y = a * x + s * p + g
  BY <1>2
<1> HIDE DEF a, x, n, y, k, g
<1>6. n * (k - y) = n * k - n * y /\ a * (p - x) = a * p - a * x /\ (a + s) * p = a * p + s * p
  BY <1>5
<1>7. n * k \in Int /\ n * y \in Int /\ a * p \in Int /\ a * x \in Int /\ s * p \in Int
  BY <1>5
<1> QED BY <1>5, <1>6, <1>7

\* What the books of a market explain of the realised profit: its cash, the cost
\* of its position and what a fill on its way has realised.
Explains(K) ==
    \A m \in Market :
        LET cost == traded[m].cash + position[m].size * position[m].entry
        IN /\ Filling(m) = {} => K[m] = cost
           /\ \A t \in Filling(m) :
                 LET g == GrossRealized(position[m], order[t].size, order[t].price)
                 IN /\ K[m] = cost + g
                    /\ held[t].size * held[t].entry
                         = position[m].size * position[m].entry + order[t].size * order[t].price + g

\* Without a race the realised profit is the total of what the markets explain.
ProfitExplained ==
    raced = {} => \E K \in [Market -> Int] : gross = TotalOver(K, Market) /\ Explains(K)

\* The inductive invariant.
BooksIInv == LedgerIInv /\ ProfitExplained

\* A mark moves no cost.
LEMMA MarkKeepsCost ==
  ASSUME NEW e \in Entries, NEW p, NEW s, NEW q
  PROVE  /\ Marked(e, p).size * Marked(e, p).entry = e.size * e.entry
         /\ GrossRealized(Marked(e, p), s, q) = GrossRealized(e, s, q)
<1>1. Marked(e, p).size = e.size /\ Marked(e, p).entry = e.entry
  BY DEF Marked, Entries
<1> QED BY <1>1 DEF GrossRealized, ClosingQuantity

\* The part of the invariant that a step keeps when it leaves alone what it is about.
LEMMA SameBooks ==
  ASSUME ProfitExplained, UNCHANGED <<gross, traded, raced>>,
         \A m \in Market : /\ position[m]'.size * position[m]'.entry = position[m].size * position[m].entry
                           /\ \A s, q : GrossRealized(position[m]', s, q) = GrossRealized(position[m], s, q)
                           /\ Filling(m)' = Filling(m)
                           /\ \A t \in Filling(m) : order[t]' = order[t] /\ held[t]' = held[t]
  PROVE  ProfitExplained'
<1> SUFFICES ASSUME raced = {} PROVE \E K \in [Market -> Int] : gross = TotalOver(K, Market) /\ Explains(K)'
  BY DEF ProfitExplained
<1>1. PICK K \in [Market -> Int] : gross = TotalOver(K, Market) /\ Explains(K)
  BY DEF ProfitExplained
<1>2. Explains(K)'
  <2> SUFFICES ASSUME NEW m \in Market
               PROVE  LET cost == traded[m].cash + position[m]'.size * position[m]'.entry
                      IN /\ Filling(m)' = {} => K[m] = cost
                         /\ \A t \in Filling(m)' :
                             LET g == GrossRealized(position[m]', order[t]'.size, order[t]'.price)
                             IN /\ K[m] = cost + g
                                /\ held[t]'.size * held[t]'.entry
                                    = position[m]'.size * position[m]'.entry + order[t]'.size * order[t]'.price + g
    BY DEF Explains
  <2>1. /\ position[m]'.size * position[m]'.entry = position[m].size * position[m].entry
        /\ \A s, q : GrossRealized(position[m]', s, q) = GrossRealized(position[m], s, q)
        /\ Filling(m)' = Filling(m)
        /\ \A t \in Filling(m) : order[t]' = order[t] /\ held[t]' = held[t]
    OBVIOUS
  <2> QED BY <1>1, <2>1 DEF Explains
<1> QED BY <1>1, <1>2

\* Marking keeps the books.
LEMMA MarkBooks ==
  ASSUME BooksIInv, NEW t \in Trader, NEW o \in Orders, MarkPosition(t, o)
  PROVE  ProfitExplained'
<1>1. /\ step[t] = "idle" /\ step' = [step EXCEPT ![t] = "fill"]
      /\ position' = [position EXCEPT ![o.market] = Marked(position[o.market], o.price)]
      /\ order' = [order EXCEPT ![t] = o]
      /\ UNCHANGED <<gross, held, traded, raced>>
  BY DEF MarkPosition
<1>2. \A m \in Market : position[m] \in Entries /\ (position'[m] = position[m] \/ position'[m] = Marked(position[m], o.price))
  BY <1>1 DEF BooksIInv, LedgerIInv, LedgerTypeOK
<1>3. /\ step'[t] = "fill"
      /\ \A u \in Trader : u # t => step'[u] = step[u] /\ order'[u] = order[u]
  BY <1>1 DEF BooksIInv, LedgerIInv, LedgerTypeOK
<1>4. \A m \in Market : /\ position'[m].size * position'[m].entry = position[m].size * position[m].entry
                        /\ \A s, q : GrossRealized(position'[m], s, q) = GrossRealized(position[m], s, q)
  BY <1>2, MarkKeepsCost
<1>5. \A m \in Market : Filling(m)' = Filling(m) /\ \A u \in Filling(m) : u \in Trader /\ u # t
  BY <1>1, <1>3 DEF Filling
<1> QED BY <1>1, <1>3, <1>4, <1>5, SameBooks DEF BooksIInv

\* An order that ends before its fill, or after its write, takes nothing with it.
LEMMA FinishBooks ==
  ASSUME BooksIInv, NEW t \in Trader, Finish(t), step[t] # "write",
         UNCHANGED <<position, gross, traded, raced>>
  PROVE  ProfitExplained'
<1>1. /\ step'[t] = "idle"
      /\ \A u \in Trader : u # t => step'[u] = step[u] /\ order'[u] = order[u] /\ held'[u] = held[u]
  BY FinishType DEF BooksIInv
<1>2. \A m \in Market : Filling(m)' = Filling(m) /\ \A u \in Filling(m) : u \in Trader /\ u # t
  BY <1>1 DEF Filling
<1> QED BY <1>1, <1>2, SameBooks DEF BooksIInv

\* A fill adds what it realises to the profit and to what its market explains.
LEMMA BookBooks ==
  ASSUME BooksIInv, NEW t \in Trader, BookFill(t),
         ExactAverage(position[order[t].market], order[t].size, order[t].price)
  PROVE  ProfitExplained'
<1> DEFINE o == order[t]
           m == order[t].market
           e == position[m]
           g == GrossRealized(e, o.size, o.price)
           f == Filled(e, o.size, o.price)
<1>1. /\ step[t] = "fill"
      /\ gross' = gross + g
      /\ held' = [held EXCEPT ![t] = f]
      /\ raced' = IF Filling(m) = {} THEN raced ELSE raced \cup {m}
      /\ step' = [step EXCEPT ![t] = "write"]
      /\ UNCHANGED <<position, order, traded>>
  BY DEF BookFill
<1>2. m \in Market /\ o.size \in Int \ {0} /\ o.price \in Nat
  BY <1>1, OrderKnown DEF BooksIInv, LedgerIInv
<1>3. e \in Entries /\ position' = position
  BY <1>1, <1>2 DEF BooksIInv, LedgerIInv, LedgerTypeOK
<1>b. e \in Amounts
  BY <1>3 DEF Entries, Amounts
<1>4. g \in Int
  BY <1>2, <1>b, GrossType
<1>5. f.size * f.entry = e.size * e.entry + o.size * o.price + g
  BY <1>2, <1>b, CostOfFill
<1> SUFFICES ASSUME raced' = {}
             PROVE  \E K \in [Market -> Int] : gross' = TotalOver(K, Market) /\ Explains(K)'
  BY DEF ProfitExplained
<1> HIDE DEF f
<1>6. raced = {} /\ Filling(m) = {}
  BY <1>1
<1>7. PICK K \in [Market -> Int] : gross = TotalOver(K, Market) /\ Explains(K)
  BY <1>6 DEF BooksIInv, ProfitExplained
<1> HIDE DEF g
<1>a. PICK L : L = [K EXCEPT ![m] = @ + g]
  OBVIOUS
<1>8. L \in [Market -> Int] /\ L[m] = K[m] + g /\ \A n \in Market : n # m => L[n] = K[n]
  BY <1>2, <1>4, <1>a
<1>9. gross' = TotalOver(L, Market)
  BY <1>1, <1>2, <1>4, <1>7, <1>a, TotalAfter, LedgerAssumption DEF LedgerAssumption
<1>10. step'[t] = "write" /\ held'[t] = f
       /\ \A u \in Trader : u # t => step'[u] = step[u] /\ held'[u] = held[u]
  BY <1>1 DEF BooksIInv, LedgerIInv, LedgerTypeOK
<1>11. Explains(L)'
  <2> SUFFICES ASSUME NEW n \in Market
               PROVE  LET cost == traded[n].cash + position[n].size * position[n].entry
                      IN /\ Filling(n)' = {} => L[n] = cost
                         /\ \A u \in Filling(n)' :
                             LET x == GrossRealized(position[n], order[u].size, order[u].price)
                             IN /\ L[n] = cost + x
                                /\ held'[u].size * held'[u].entry
                                    = position[n].size * position[n].entry + order[u].size * order[u].price + x
    BY <1>1 DEF Explains
  <2>1. CASE n = m
    <3>1. Filling(n)' = {t}
      BY <1>1, <1>6, <1>10, <2>1 DEF Filling
    <3>2. L[n] = traded[n].cash + e.size * e.entry + g
      BY <1>2, <1>6, <1>7, <1>8, <2>1 DEF Explains
    <3> QED BY <1>5, <1>10, <2>1, <3>1, <3>2 DEF g
  <2>2. CASE n # m
    <3>1. Filling(n)' = Filling(n) /\ t \notin Filling(n) /\ Filling(n) \subseteq Trader
      BY <1>1, <1>10, <2>2 DEF Filling
    <3>2. L[n] = K[n] /\ \A u \in Filling(n) : held'[u] = held[u]
      BY <1>8, <1>10, <2>2, <3>1
    <3> QED BY <1>7, <3>1, <3>2 DEF Explains
  <2> QED BY <2>1, <2>2
<1> QED BY <1>8, <1>9, <1>11

\* The write turns what was on its way into cash and cost.
LEMMA WriteBooks ==
  ASSUME BooksIInv, NEW t \in Trader, WritePosition(t)
  PROVE  ProfitExplained'
<1> DEFINE o == order[t]
           m == order[t].market
<1>1. /\ step[t] = "write"
      /\ position' = [position EXCEPT ![m] = held[t]]
      /\ traded' = [traded EXCEPT ![m] = [size |-> traded[m].size + o.size,
                                         cash |-> traded[m].cash - o.size * o.price]]
      /\ step' = [step EXCEPT ![t] = "store"]
      /\ UNCHANGED <<gross, order, held, raced>>
  BY DEF WritePosition
<1>2. m \in Market /\ o.size \in Int /\ o.price \in Int
  BY <1>1, OrderKnown DEF BooksIInv, LedgerIInv
<1>3. /\ position'[m] = held[t] /\ \A n \in Market : n # m => position'[n] = position[n]
      /\ traded'[m].cash = traded[m].cash - o.size * o.price
      /\ \A n \in Market : n # m => traded'[n] = traded[n]
  BY <1>1, <1>2 DEF BooksIInv, LedgerIInv, LedgerTypeOK
<1>4. step'[t] = "store" /\ \A u \in Trader : u # t => step'[u] = step[u]
  BY <1>1 DEF BooksIInv, LedgerIInv, LedgerTypeOK
<1> SUFFICES ASSUME raced = {}
             PROVE  \E K \in [Market -> Int] : gross = TotalOver(K, Market) /\ Explains(K)'
  BY <1>1 DEF ProfitExplained
<1>5. PICK K \in [Market -> Int] : gross = TotalOver(K, Market) /\ Explains(K)
  BY DEF BooksIInv, ProfitExplained
<1>6. t \in Filling(m) /\ \A u \in Filling(m) : u = t
  BY <1>1, <1>2 DEF Filling, BooksIInv, LedgerIInv, SizesAgree
<1>7. Explains(K)'
  <2> SUFFICES ASSUME NEW n \in Market
               PROVE  LET cost == traded'[n].cash + position'[n].size * position'[n].entry
                      IN /\ Filling(n)' = {} => K[n] = cost
                         /\ \A u \in Filling(n)' :
                             LET x == GrossRealized(position'[n], order[u].size, order[u].price)
                             IN /\ K[n] = cost + x
                                /\ held[u].size * held[u].entry
                                    = position'[n].size * position'[n].entry + order[u].size * order[u].price + x
    BY <1>1 DEF Explains
  <2>1. CASE n = m
    <3>1. Filling(n)' = {}
      BY <1>1, <1>4, <1>6, <2>1 DEF Filling
    <3> DEFINE g == GrossRealized(position[m], o.size, o.price)
               c == position[m].size * position[m].entry
               h == held[t].size * held[t].entry
               w == o.size * o.price
               k == traded[m].cash
    <3>2. K[m] = k + c + g /\ h = c + w + g
      BY <1>2, <1>5, <1>6 DEF Explains
    <3>3. g \in Int /\ c \in Int /\ h \in Int /\ w \in Int /\ k \in Int
      <4>1. position[m] \in Entries /\ held[t] \in Entries /\ traded[m] \in [size : Int, cash : Int]
        BY <1>2 DEF BooksIInv, LedgerIInv, LedgerTypeOK
      <4>2. o.price \in Nat
        BY <1>1, OrderKnown DEF BooksIInv, LedgerIInv
      <4>3. g \in Int
        BY <1>2, <4>1, <4>2, GrossType DEF Entries, Amounts
      <4> QED BY <1>2, <4>1, <4>3 DEF Entries
    <3>4. traded'[m].cash = k - w /\ position'[m].size * position'[m].entry = h
      BY <1>3
    <3> HIDE DEF g, c, h, w, k
    <3>5. K[m] = (k - w) + h
      BY <3>2, <3>3
    <3> QED BY <2>1, <3>1, <3>4, <3>5
  <2>2. CASE n # m
    <3>1. Filling(n)' = Filling(n)
      BY <1>1, <1>4, <2>2 DEF Filling
    <3> QED BY <1>3, <1>5, <2>2, <3>1 DEF Explains
  <2> QED BY <2>1, <2>2
<1> QED BY <1>5, <1>7

\* An empty ledger has nothing to explain.
LEMMA EmptyBooks ==
  ASSUME position = [m \in Market |-> Flat], gross = 0, step = [t \in Trader |-> "idle"],
         traded = [m \in Market |-> [size |-> 0, cash |-> 0]]
  PROVE  ProfitExplained
<1> DEFINE K == [m \in Market |-> 0]
<1>1. TotalOver(K, Market) = 0
  BY TotalOfNone, LedgerAssumption DEF LedgerAssumption
<1>2. \A m \in Market : Filling(m) = {}
  BY DEF Filling
<1>3. Explains(K)
  BY <1>2 DEF Explains, Flat
<1>4. K \in [Market -> Int]
  OBVIOUS
<1> HIDE DEF K
<1> QED BY <1>1, <1>3, <1>4 DEF ProfitExplained

\* A step of something else explains it as before.
LEMMA IdleBooks ==
  ASSUME BooksIInv, UNCHANGED ledgerVars PROVE ProfitExplained'
<1>1. UNCHANGED <<position, gross, step, order, held, traded, raced>>
  BY DEF ledgerVars
<1>2. \A m \in Market : Filling(m)' = Filling(m)
  BY <1>1 DEF Filling
<1>3. \A K : Explains(K) => Explains(K)'
  <2> SUFFICES ASSUME NEW K, Explains(K) PROVE Explains(K)'
    OBVIOUS
  <2> QED BY <1>1, <1>2 DEF Explains
<1> QED BY <1>1, <1>3 DEF BooksIInv, ProfitExplained

\* Every step keeps the books, where no average is rounded.
LEMMA BooksInductive ==
  ASSUME BooksIInv, [LedgerNext]_ledgerVars,
         \A t \in Trader : BookFill(t) =>
             ExactAverage(position[order[t].market], order[t].size, order[t].price)
  PROVE  BooksIInv'
<1> SUFFICES ProfitExplained'
  BY LedgerInductive DEF BooksIInv
<1>2. ASSUME NEW t \in Trader, RefuseOrder(t) PROVE ProfitExplained'
  BY <1>2, FinishBooks DEF RefuseOrder
<1>3. ASSUME NEW t \in Trader, NEW ok \in BOOLEAN, StoreFill(t, ok) PROVE ProfitExplained'
  BY <1>3, FinishBooks DEF StoreFill
<1>4. CASE RestartLedger
  <2>1. /\ position' = [m \in Market |-> Flat] /\ gross' = 0 /\ step' = [t \in Trader |-> "idle"]
        /\ traded' = [m \in Market |-> [size |-> 0, cash |-> 0]]
    BY <1>4 DEF RestartLedger
  <2>5. PICK K : K = [m \in Market |-> 0]
    OBVIOUS
  <2>2. TotalOver(K, Market) = 0
    BY <2>5, TotalOfNone, LedgerAssumption DEF LedgerAssumption
  <2>3. \A m \in Market : Filling(m)' = {}
    BY <2>1 DEF Filling
  <2>4. Explains(K)'
    BY <2>1, <2>3, <2>5 DEF Explains, Flat
  <2>6. K \in [Market -> Int]
    BY <2>5
  <2> QED BY <2>1, <2>2, <2>4, <2>6 DEF ProfitExplained
<1>5. CASE UNCHANGED ledgerVars
  BY <1>5, IdleBooks
<1>6. CASE LedgerNext
  <2>1. CASE \E t \in Trader : \E o \in Orders : MarkPosition(t, o)
    BY <2>1, MarkBooks
  <2>2. CASE \E t \in Trader : RefuseOrder(t) \/ \E ok \in BOOLEAN : StoreFill(t, ok)
    BY <2>2, <1>2, <1>3
  <2>3. CASE \E t \in Trader : BookFill(t)
    BY <2>3, BookBooks
  <2>4. CASE \E t \in Trader : WritePosition(t)
    BY <2>4, WriteBooks
  <2> QED BY <1>4, <1>6, <2>1, <2>2, <2>3, <2>4 DEF LedgerNext
<1> QED BY <1>5, <1>6

\* What the invariant says when no fill is on its way.
LEMMA BooksFollow == BooksIInv => BooksBalance
<1> SUFFICES ASSUME BooksIInv, raced = {}, \A m \in Market : Filling(m) = {}
             PROVE  /\ \A m \in Market : position[m].size = traded[m].size
                    /\ gross + Total([m \in Market |-> Unrealized(position[m])])
                         = Total([m \in Market |-> traded[m].cash + position[m].size * position[m].mark])
  BY DEF BooksBalance
<1>1. \A m \in Market : position[m].size = traded[m].size
  BY DEF BooksIInv, LedgerIInv, SizesAgree
<1>2. PICK K \in [Market -> Int] : gross = TotalOver(K, Market) /\ Explains(K)
  BY DEF BooksIInv, ProfitExplained
<1> DEFINE U == [m \in Market |-> Unrealized(position[m])]
           A == [m \in Market |-> traded[m].cash + position[m].size * position[m].mark]
<1>3. ASSUME NEW m \in Market PROVE U[m] \in Int /\ A[m] \in Int /\ A[m] = K[m] + U[m]
  <2> DEFINE z == position[m].size  y == position[m].entry  k == position[m].mark  c == traded[m].cash
  <2>1. z \in Int /\ y \in Int /\ k \in Int /\ c \in Int
    BY <1>3 DEF BooksIInv, LedgerIInv, LedgerTypeOK, Entries
  <2>2. K[m] = c + z * y
    BY <1>2 DEF Explains
  <2>3. U[m] = z * (k - y) /\ A[m] = c + z * k
    BY DEF Unrealized
  <2> HIDE DEF z, y, k, c, U, A
  <2>4. z * (k - y) = z * k - z * y /\ z * k \in Int /\ z * y \in Int
    BY <2>1
  <2> QED BY <2>1, <2>2, <2>3, <2>4
<1>4. U \in [Market -> Int] /\ A \in [Market -> Int]
  <2>1. U = [m \in Market |-> U[m]] /\ A = [m \in Market |-> A[m]]
    OBVIOUS
  <2> HIDE DEF U, A
  <2> QED BY <1>3, <2>1
<1>5. TotalOver(A, Market) = TotalOver(K, Market) + TotalOver(U, Market)
  <2> HIDE DEF U, A
  <2> QED BY <1>3, <1>4, TotalAdds, LedgerAssumption DEF LedgerAssumption
<1>6. Total(A) = TotalOver(A, Market) /\ Total(U) = TotalOver(U, Market)
  <2> HIDE DEF U, A
  <2> QED BY DEF Total, TotalOver
<1> HIDE DEF U, A
<1>7. gross + Total(U) = Total(A)
  BY <1>2, <1>5, <1>6
<1> QED BY <1>1, <1>7 DEF U, A

\* No average entry is rounded.
NothingRounded ==
    \A t \in Trader : BookFill(t) =>
        ExactAverage(position[order[t].market], order[t].size, order[t].price)

\* BooksBalance: as long as no average entry is rounded, the realised profit of a
\* ledger at rest in which no two fills raced, with the unrealised profit of its
\* positions, is the cash of its fills and the value of what they left.
THEOREM LedgerBalances == LedgerSpec /\ [][NothingRounded]_ledgerVars => []BooksBalance
<1>1. LedgerInit => BooksIInv
  BY LedgerInitially, EmptyBooks DEF LedgerInit, BooksIInv
<1>2. BooksIInv /\ [LedgerNext]_ledgerVars /\ [NothingRounded]_ledgerVars => BooksIInv'
  <2>1. CASE UNCHANGED ledgerVars
    BY <2>1, IdleBooks, LedgerInductive DEF BooksIInv
  <2>2. CASE ~UNCHANGED ledgerVars
    BY <2>2, BooksInductive DEF NothingRounded
  <2> QED BY <2>1, <2>2
<1> QED BY <1>1, <1>2, BooksFollow, PTL DEF LedgerSpec

-----------------------------------------------------------------------------
(* The books of a backtest.                                                *)
\* The books of a run are whole numbers, a pending order has a size, and the
\* realised profit is the cash of the fills plus the cost of the position, less
\* the costs.
Balanced(b) ==
    /\ DOMAIN b = RunFields
    /\ b.position \in Amounts /\ b.lastPrice \in Int
    /\ b.realized \in Int /\ b.cash \in Int /\ b.costs \in Int
    /\ DOMAIN b.pending = PendingFields /\ b.pending.size \in Int
    /\ b.pending # NoPending => b.pending.size # 0
    /\ b.realized = b.cash + b.position.size * b.position.entry - b.costs

\* Another run with the same books.
SameMoney(b, c) ==
    /\ DOMAIN c = DOMAIN b
    /\ c.position = b.position /\ c.lastPrice = b.lastPrice
    /\ c.realized = b.realized /\ c.cash = b.cash /\ c.costs = b.costs
    /\ c.pending = b.pending

\* The books of a run depend on nothing else.
LEMMA MoneyDecides ==
  ASSUME NEW b, NEW c, Balanced(b), SameMoney(b, c)
  PROVE  Balanced(c)
  BY DEF Balanced, SameMoney

\* Recording the equity books nothing.
LEMMA EquityMoney ==
  ASSUME NEW b, Balanced(b)
  PROVE  Balanced(RecordEquity(b))
<1>1. SameMoney(b, RecordEquity(b))
  BY DEF Balanced, RunFields, SameMoney, RecordEquity
<1> QED BY <1>1, MoneyDecides

\* A mark keeps the cost of a position.
LEMMA MarkMoney ==
  ASSUME NEW e \in Amounts, NEW p \in Int
  PROVE  /\ Marked(e, p) \in Amounts
         /\ Marked(e, p).size = e.size /\ Marked(e, p).entry = e.entry
  BY DEF Marked, Amounts

\* A fill keeps the books.
LEMMA ApplyMoney ==
  ASSUME NEW b, Balanced(b), NEW s \in Int \ {0}, NEW p \in Int, NEW fee \in Int,
         NEW slippage \in Int, NEW funding \in Int, ExactAverage(b.position, s, p)
  PROVE  /\ Balanced(Apply(b, s, p, fee, slippage, funding))
         /\ Apply(b, s, p, fee, slippage, funding).pending = b.pending
<1> DEFINE c == Apply(b, s, p, fee, slippage, funding)
           e == b.position
           f == Filled(e, s, p)
           g == GrossRealized(e, s, p)
<1>1. e \in Amounts
  BY DEF Balanced
<1>2. f \in Amounts /\ f.size * f.entry = e.size * e.entry + s * p + g
  BY <1>1, CostOfFill
<1>3. g \in Int
  BY <1>1, GrossType
<1>4. /\ DOMAIN c = RunFields /\ c.position = f /\ c.lastPrice = b.lastPrice
      /\ c.realized = b.realized + NetRealized(e, s, p, fee, slippage, funding)
      /\ c.cash = b.cash - s * p
      /\ c.costs = b.costs + fee + slippage - funding
      /\ c.pending = b.pending
  BY DEF Apply, Balanced, RunFields
<1>5. NetRealized(e, s, p, fee, slippage, funding) = g - fee - slippage + funding
  BY DEF NetRealized
<1> DEFINE v == e.size * e.entry
           w == s * p
<1>6. v \in Int /\ w \in Int
  BY <1>1 DEF Amounts
<1>7. b.realized \in Int /\ b.cash \in Int /\ b.costs \in Int /\ b.realized = b.cash + v - b.costs
  BY DEF Balanced
<1> HIDE DEF c, f, g, v
<1>8. c.cash = b.cash - w
  BY <1>4
<1>9. f.size * f.entry = v + w + g
  BY <1>2 DEF v
<1> HIDE DEF w
<1>10. c.realized = c.cash + f.size * f.entry - c.costs
  BY <1>3, <1>4, <1>5, <1>6, <1>7, <1>8, <1>9
<1>11. c.realized \in Int /\ c.cash \in Int /\ c.costs \in Int
  BY <1>3, <1>4, <1>5, <1>6, <1>7, <1>8
<1>12. Balanced(c)
  BY <1>2, <1>4, <1>10, <1>11 DEF Balanced
<1> QED BY <1>4, <1>12 DEF c

\* The price at which a simulated fill is booked.
SlippedPrice(s, p) == p + Sign(s) * Bps(p, SlippageBps)

\* A simulated one does.
LEMMA SimulateMoney ==
  ASSUME NEW b, Balanced(b), NEW s \in Int \ {0}, NEW p \in Int,
         ExactAverage(b.position, s, SlippedPrice(s, p))
  PROVE  Balanced(Simulate(b, s, p)) /\ Simulate(b, s, p).pending = b.pending
<1> DEFINE slip == Bps(p, SlippageBps)
           at == p + Sign(s) * slip
           fee == Bps(Magnitude(s) * at, FeeBps)
           cost == Magnitude(s) * slip
<1>1. SlippageBps \in Int /\ FeeBps \in Int
  BY BacktestAssumption DEF BacktestAssumption
<1>2. slip \in Int
  BY <1>1, BpsType
<1>3. Sign(s) \in Int /\ Magnitude(s) \in Int
  BY Magnitudes DEF Sign
<1>a. at = SlippedPrice(s, p)
  BY DEF SlippedPrice
<1> HIDE DEF slip
<1>4. at \in Int /\ cost \in Int
  BY <1>2, <1>3
<1> HIDE DEF at
<1>5. Magnitude(s) * at \in Int
  BY <1>3, <1>4
<1>6. fee \in Int
  BY <1>1, <1>5, BpsType
<1>7. Simulate(b, s, p) = Apply(b, s, at, fee, cost, 0)
  BY DEF Simulate, slip, at
<1> HIDE DEF fee, cost
<1>8. ExactAverage(b.position, s, at)
  BY <1>a
<1> QED BY <1>4, <1>6, <1>7, <1>8, ApplyMoney

\* What is filled of a pending order is something.
LEMMA FillSizeType ==
  ASSUME NEW b, Balanced(b), b.pending # NoPending
  PROVE  FillSizeOf(b) \in Int \ {0}
<1> DEFINE n == b.pending.size
<1>1. n \in Int \ {0}
  BY DEF Balanced
<1>2. FillSizeOf(b) = IF b.full \/ Magnitude(n) = 1 THEN n ELSE Sign(n) * (Magnitude(n) \div 2)
  BY DEF FillSizeOf
<1> HIDE DEF n
<1>3. ASSUME Magnitude(n) # 1 PROVE Sign(n) * (Magnitude(n) \div 2) \in Int \ {0}
  <2>1. Magnitude(n) \in Nat /\ Magnitude(n) >= 2
    BY <1>1, <1>3 DEF Magnitude
  <2>2. Magnitude(n) \div 2 \in Nat \ {0}
    BY <2>1
  <2>3. Sign(n) = 1 \/ Sign(n) = -1
    BY <1>1 DEF Sign
  <2> DEFINE h == Magnitude(n) \div 2
  <2> HIDE DEF h
  <2>4. h \in Nat \ {0}
    BY <2>2 DEF h
  <2>5. Sign(n) * h \in Int \ {0}
    BY <2>3, <2>4
  <2> QED BY <2>5 DEF h
<1> QED BY <1>1, <1>2, <1>3

\* An execution keeps the books.
LEMMA ExecuteMoney ==
  ASSUME NEW b, Balanced(b), NEW p \in Int,
         b.pending # NoPending => ExactAverage(b.position, FillSizeOf(b), SlippedPrice(FillSizeOf(b), p))
  PROVE  Balanced(Execute(b, p))
<1>1. CASE b.pending = NoPending \/ b.at < b.pending.signalAt + b.latency
  BY <1>1 DEF Execute
<1>2. CASE ~(b.pending = NoPending \/ b.at < b.pending.signalAt + b.latency)
  <2> DEFINE s == FillSizeOf(b)
             f == Simulate(b, s, p)
             done == [at |-> b.at, obs |-> b.obs, signalAt |-> b.pending.signalAt,
                      signalObs |-> b.pending.signalObs]
             c == [f EXCEPT !.position = Marked(@, p), !.pending = Remaining(@, s),
                            !.lastFill = done]
  <2>1. Execute(b, p) = c
    BY <1>2 DEF Execute
  <2>2. s \in Int \ {0}
    BY <1>2, FillSizeType
  <2>3. Balanced(f) /\ f.pending = b.pending
    BY <1>2, <2>2, SimulateMoney
  <2> HIDE DEF f, s
  <2>4. /\ DOMAIN c = RunFields /\ c.position = Marked(f.position, p) /\ c.lastPrice = f.lastPrice
        /\ c.realized = f.realized /\ c.cash = f.cash /\ c.costs = f.costs
        /\ c.pending = Remaining(f.pending, s)
    BY <2>3 DEF Balanced, RunFields
  <2>5. /\ c.position \in Amounts /\ c.position.size = f.position.size
        /\ c.position.entry = f.position.entry
    <3>1. f.position \in Amounts
      BY <2>3 DEF Balanced
    <3>2. c.position = Marked(f.position, p)
      BY <2>4
    <3> QED BY <3>1, <3>2, MarkMoney
  <2> HIDE DEF c
  <2>6. /\ DOMAIN c.pending = PendingFields /\ c.pending.size \in Int
        /\ c.pending # NoPending => c.pending.size # 0
    <3>1. CASE f.pending.size = s
      BY <2>4, <3>1 DEF Remaining, NoPending, PendingFields
    <3>2. CASE f.pending.size # s
      <4>1. c.pending = [f.pending EXCEPT !.size = @ - s]
        BY <2>4, <3>2 DEF Remaining
      <4>2. DOMAIN c.pending = PendingFields /\ c.pending.size = f.pending.size - s
        BY <2>3, <4>1 DEF Balanced, PendingFields
      <4>3. f.pending.size \in Int
        BY <2>3 DEF Balanced
      <4> QED BY <2>2, <3>2, <4>2, <4>3
    <3> QED BY <3>1, <3>2
  <2>7. Balanced(c)
    BY <2>3, <2>4, <2>5, <2>6 DEF Balanced
  <2> QED BY <2>1, <2>7
<1> QED BY <1>1, <1>2

\* The target is a whole number.
LEMMA TargetType ==
  ASSUME NEW b, Balanced(b), NEW p \in Nat \ {0}
  PROVE  TargetSize(b, p) \in Int
<1> DEFINE m == MarkedEquity(b)
           x == Smaller(Pct(m, AllocationPct), Pct(m, LeveragePct))
<1>1. m \in Int
  <2>1. Unrealized(b.position) \in Int
    <3>1. b.position.size \in Int /\ b.position.mark \in Int /\ b.position.entry \in Int
      BY DEF Balanced, Amounts
    <3> QED BY <3>1 DEF Unrealized
  <2>2. b.realized \in Int /\ Capital \in Int
    BY BacktestAssumption DEF Balanced, BacktestAssumption
  <2> QED BY <2>1, <2>2 DEF MarkedEquity
<1>2. AllocationPct \in Int /\ LeveragePct \in Int
  BY BacktestAssumption DEF BacktestAssumption
<1>3. x \in Int
  <2>1. Pct(m, AllocationPct) \in Int /\ Pct(m, LeveragePct) \in Int
    BY <1>1, <1>2, PctType
  <2> QED BY <2>1 DEF Smaller
<1>4. Signal(b, p) \in Int
  BY DEF Signal
<1>5. TargetSize(b, p) = Signal(b, p) * (x \div p)
  BY DEF TargetSize
<1> HIDE DEF x
<1>6. x \div p \in Int
  BY <1>3
<1> DEFINE q == x \div p
<1> HIDE DEF q
<1>7. q \in Int
  BY <1>6 DEF q
<1>8. Signal(b, p) * q \in Int
  BY <1>4, <1>7
<1> QED BY <1>5, <1>8 DEF q

\* A decision keeps the books.
LEMMA DecideMoney ==
  ASSUME NEW b, Balanced(b), NEW p \in Nat \ {0}
  PROVE  Balanced(DecideTarget(b, p))
<1> DEFINE seen == [b EXCEPT !.decisionPrice = p, !.decidedAt = b.at]
           delta == TargetSize(b, p) - b.position.size
           order_ == [size |-> delta, signalAt |-> b.at, signalObs |-> b.obs]
           c == [seen EXCEPT !.pending = order_]
<1>1. Balanced(seen)
  <2>1. SameMoney(b, seen)
    BY DEF Balanced, RunFields, SameMoney
  <2> QED BY <2>1, MoneyDecides
<1>2. delta \in Int
  <2>1. b.position.size \in Int
    BY DEF Balanced, Amounts
  <2> QED BY <2>1, TargetType
<1> HIDE DEF delta
<1>3. ASSUME delta # 0 PROVE Balanced(c)
  <2>1. /\ DOMAIN c = RunFields /\ c.position = b.position /\ c.lastPrice = b.lastPrice
        /\ c.realized = b.realized /\ c.cash = b.cash /\ c.costs = b.costs
        /\ c.pending = order_
    BY DEF Balanced, RunFields
  <2> HIDE DEF c
  <2>2. DOMAIN order_ = PendingFields /\ order_.size = delta
    BY DEF PendingFields
  <2> HIDE DEF order_
  <2> QED BY <1>2, <1>3, <2>1, <2>2 DEF Balanced
<1>4. DecideTarget(b, p) \in {b, seen} \/ (delta # 0 /\ DecideTarget(b, p) = c)
  BY DEF DecideTarget, delta
<1> QED BY <1>1, <1>3, <1>4

\* A market observation keeps the books.
LEMMA MarketMoney ==
  ASSUME NEW b, Balanced(b), NEW p \in Nat \ {0},
         b.pending # NoPending => ExactAverage(b.position, FillSizeOf(b), SlippedPrice(FillSizeOf(b), p))
  PROVE  Balanced(OnMarket(b, p))
<1> DEFINE m == [b EXCEPT !.position = Marked(@, p), !.lastPrice = p]
<1>1. /\ DOMAIN m = RunFields /\ m.position = Marked(b.position, p) /\ m.lastPrice = p
      /\ m.realized = b.realized /\ m.cash = b.cash /\ m.costs = b.costs
      /\ m.pending = b.pending /\ m.full = b.full
  BY DEF Balanced, RunFields
<1>2. /\ m.position \in Amounts /\ m.position.size = b.position.size
      /\ m.position.entry = b.position.entry
  <2>1. b.position \in Amounts
    BY DEF Balanced
  <2>2. m.position = Marked(b.position, p)
    BY <1>1
  <2> HIDE DEF m
  <2> QED BY <2>1, <2>2, MarkMoney
<1> HIDE DEF m
<1>3. Balanced(m)
  BY <1>1, <1>2 DEF Balanced
<1>4. FillSizeOf(m) = FillSizeOf(b)
  BY <1>1 DEF FillSizeOf
<1>5. \A s, x : ExactAverage(b.position, s, x) => ExactAverage(m.position, s, x)
  BY <1>2 DEF ExactAverage, NewEntry
<1>6. Balanced(Execute(m, p))
  BY <1>1, <1>3, <1>4, <1>5, ExecuteMoney
<1> QED BY <1>6, EquityMoney, DecideMoney DEF OnMarket, m

\* Funding is booked as profit and as a cost.
LEMMA FundingMoney ==
  ASSUME NEW b, Balanced(b), NEW r \in Int
  PROVE  Balanced(OnFunding(b, r))
<1> DEFINE amount == -Bps(b.position.size * b.position.mark, r)
           kept == [b EXCEPT !.rate = r]
           paid == [b EXCEPT !.rate = r, !.realized = @ + amount, !.costs = @ - amount]
<1>1. Balanced(kept)
  <2>1. SameMoney(b, kept)
    BY DEF Balanced, RunFields, SameMoney
  <2> QED BY <2>1, MoneyDecides
<1>2. amount \in Int
  <2>1. b.position.size * b.position.mark \in Int
    BY DEF Balanced, Amounts
  <2> DEFINE x == b.position.size * b.position.mark
  <2> HIDE DEF x
  <2>2. Bps(x, r) \in Int
    BY <2>1, BpsType DEF x
  <2>3. -Bps(x, r) \in Int
    BY <2>2
  <2> QED BY <2>3 DEF x
<1> HIDE DEF amount
<1>3. /\ DOMAIN paid = RunFields /\ paid.position = b.position /\ paid.lastPrice = b.lastPrice
      /\ paid.realized = b.realized + amount /\ paid.cash = b.cash
      /\ paid.costs = b.costs - amount /\ paid.pending = b.pending
  BY DEF Balanced, RunFields
<1> HIDE DEF paid
<1>4. Balanced(paid)
  <2>1. b.position.size * b.position.entry \in Int
    BY DEF Balanced, Amounts
  <2> QED BY <1>2, <1>3, <2>1 DEF Balanced
<1>5. OnFunding(b, r) \in {kept, RecordEquity(paid)}
  BY DEF OnFunding, paid, amount
<1> QED BY <1>1, <1>4, <1>5, EquityMoney

\* A recorded fill is booked at its price.
LEMMA RecordedMoney ==
  ASSUME NEW b, Balanced(b), NEW s \in Int \ {0}, NEW p \in Int, ExactAverage(b.position, s, p)
  PROVE  Balanced(OnRecordedFill(b, s, p))
<1> DEFINE fee == Bps(Magnitude(s) * p, FeeBps)
<1>1. fee \in Int
  <2>1. Magnitude(s) * p \in Int /\ FeeBps \in Int
    BY Magnitudes, BacktestAssumption DEF BacktestAssumption
  <2> QED BY <2>1, BpsType
<1>2. Balanced(Apply(b, s, p, fee, 0, 0))
  BY <1>1, ApplyMoney
<1> QED BY <1>2, EquityMoney DEF OnRecordedFill

\* The close at the end of a run never averages.
LEMMA FinishMoney ==
  ASSUME Balanced(bt), FinishHistorical
  PROVE  Balanced(bt')
<1> DEFINE failed == [bt EXCEPT !.phase = "failed"]
           kept == [bt EXCEPT !.phase = "completed"]
           s == -bt.position.size
           f == Simulate(bt, s, bt.lastPrice)
           closed == [f EXCEPT !.phase = "completed"]
<1>1. Balanced(failed) /\ Balanced(kept)
  <2>1. SameMoney(bt, failed) /\ SameMoney(bt, kept)
    BY DEF Balanced, RunFields, SameMoney
  <2> QED BY <2>1, MoneyDecides
<1>2. ASSUME s # 0 PROVE Balanced(RecordEquity(closed))
  <2>1. s \in Int \ {0} /\ bt.position.size \in Int /\ bt.lastPrice \in Int
    BY <1>2 DEF Balanced, Amounts
  <2>2. ~SameSign(bt.position.size, s)
    BY <1>2, <2>1 DEF SameSign
  <2>3. \A x : ExactAverage(bt.position, s, x)
    BY <2>2 DEF ExactAverage
  <2>4. Balanced(f)
    BY <2>1, <2>3, SimulateMoney
  <2> HIDE DEF f
  <2>5. SameMoney(f, closed)
    BY <2>4 DEF Balanced, RunFields, SameMoney
  <2> QED BY <2>4, <2>5, MoneyDecides, EquityMoney
<1>3. \/ bt' \in {failed, kept}
      \/ s # 0 /\ bt' = RecordEquity(closed)
  <2>1. bt.position.size \in Int
    BY DEF Balanced, Amounts
  <2> QED BY <2>1 DEF FinishHistorical
<1> QED BY <1>1, <1>2, <1>3

\* No average entry of a run is rounded.
NoRunRounded ==
    \A gap \in Gap, p \in TickPrice :
        /\ MarketTick(gap, p) /\ bt.pending # NoPending =>
               ExactAverage(bt.position, FillSizeOf(bt), SlippedPrice(FillSizeOf(bt), p))
        /\ \A s \in RecordedSize : RecordedFill(gap, s, p) => ExactAverage(bt.position, s, p)

\* The books of the run there is.
RunBooks == bt # NotRun => Balanced(bt)

\* What an observation is processed on has the books of the run before it.
LEMMA SeenMoney ==
  ASSUME Balanced(bt), NEW kind, NEW gap
  PROVE  /\ Balanced(Seen(kind, gap)) /\ Seen(kind, gap).pending = bt.pending
         /\ Seen(kind, gap).position = bt.position
         /\ FillSizeOf(Seen(kind, gap)) = FillSizeOf(bt)
<1> DEFINE c == Seen(kind, gap)
<1>1. SameMoney(bt, c) /\ c.full = bt.full
  BY DEF Seen, Balanced, RunFields, SameMoney
<1> HIDE DEF c
<1>2. Balanced(c) /\ FillSizeOf(c) = FillSizeOf(bt)
  BY <1>1, MoneyDecides DEF SameMoney, FillSizeOf
<1> QED BY <1>1, <1>2 DEF c, SameMoney

\* Every step keeps the books of a run, where no average is rounded.
LEMMA RunBooksInductive == RunBooks /\ [BacktestNext]_backtestVars /\ (BacktestNext => NoRunRounded) => RunBooks'
<1> SUFFICES ASSUME RunBooks, [BacktestNext]_backtestVars, BacktestNext => NoRunRounded, bt' # NotRun
             PROVE Balanced(bt')
  BY DEF RunBooks
<1>1. CASE UNCHANGED bt
  BY <1>1 DEF RunBooks, Balanced
<1>2. CASE StartHistorical
  <2>1. PICK strategy \in Strategies, full \in BOOLEAN, latency \in Latency :
            bt' = NewRun(strategy, full, latency)
    BY <1>2 DEF StartHistorical
  <2> DEFINE c == NewRun(strategy, full, latency)
  <2>2. /\ DOMAIN c = RunFields /\ c.position = Flat /\ c.lastPrice = 0
        /\ c.realized = 0 /\ c.cash = 0 /\ c.costs = 0 /\ c.pending = NoPending
    BY DEF NewRun, RunFields
  <2> HIDE DEF c
  <2>3. Balanced(c)
    BY <2>2 DEF Balanced, Flat, Amounts, NoPending, PendingFields
  <2> QED BY <2>1, <2>3 DEF c
<1>3. CASE FinishHistorical
  <2>1. bt # NotRun
    BY <1>3 DEF FinishHistorical, NotRun
  <2> QED BY <1>3, <2>1, FinishMoney DEF RunBooks
<1>4. ASSUME NEW gap \in Gap, NEW p \in TickPrice, bt # NotRun, MarketTick(gap, p) PROVE Balanced(bt')
  <2>1. BacktestNext
    BY <1>4 DEF BacktestNext
  <2>2. p \in Nat \ {0} /\ Balanced(bt)
    BY <1>4, BacktestAssumption DEF BacktestAssumption, RunBooks
  <2>3. bt.pending # NoPending =>
               ExactAverage(bt.position, FillSizeOf(bt), SlippedPrice(FillSizeOf(bt), p))
    BY <1>4, <2>1 DEF NoRunRounded
  <2>4. Balanced(OnMarket(Seen("market", gap), p))
    BY <2>2, <2>3, SeenMoney, MarketMoney
  <2> QED BY <1>4, <2>4 DEF MarketTick
<1>5. ASSUME NEW gap \in Gap, NEW p \in TickPrice, NEW s \in RecordedSize, bt # NotRun,
             RecordedFill(gap, s, p)
      PROVE  Balanced(bt')
  <2>1. BacktestNext
    BY <1>5 DEF BacktestNext
  <2>2. p \in Int /\ s \in Int \ {0} /\ Balanced(bt)
    BY <1>5, BacktestAssumption DEF BacktestAssumption, RunBooks
  <2>3. ExactAverage(bt.position, s, p)
    BY <1>5, <2>1 DEF NoRunRounded
  <2>4. Balanced(OnRecordedFill(Seen("fill", gap), s, p))
    BY <2>2, <2>3, SeenMoney, RecordedMoney
  <2> QED BY <1>5, <2>4 DEF RecordedFill
<1>6. ASSUME NEW gap \in Gap, NEW r \in RateBps, bt # NotRun, FundingTick(gap, r) PROVE Balanced(bt')
  <2>1. r \in Int /\ Balanced(bt)
    BY <1>6, BacktestAssumption DEF BacktestAssumption, RunBooks
  <2> QED BY <1>6, <2>1, SeenMoney, FundingMoney DEF FundingTick
<1> QED
  BY <1>1, <1>2, <1>3, <1>4, <1>5, <1>6
  DEF BacktestNext, backtestVars, StartSynthetic, SyntheticDay, EndSynthetic

\* The marked equity of such a run is its capital, its cash and what it holds,
\* less the costs.
LEMMA RunEquity ==
  ASSUME NEW b, Balanced(b)
  PROVE  MarkedEquity(b) = Capital + b.cash + b.position.size * b.position.mark - b.costs
<1> DEFINE z == b.position.size  y == b.position.entry  k == b.position.mark
           c == b.cash  x == b.costs  r == b.realized
<1>1. /\ z \in Int /\ y \in Int /\ k \in Int /\ c \in Int /\ x \in Int /\ r \in Int
      /\ r = c + z * y - x
  BY DEF Balanced, Amounts
<1>2. MarkedEquity(b) = Capital + r + z * (k - y) /\ Capital \in Int
  BY BacktestAssumption DEF MarkedEquity, Unrealized, BacktestAssumption
<1> SUFFICES Capital + r + z * (k - y) = Capital + c + z * k - x
  BY <1>2
<1> HIDE DEF z, y, k, c, x, r
<1>3. z * (k - y) = z * k - z * y /\ z * k \in Int /\ z * y \in Int
  BY <1>1
<1> QED BY <1>1, <1>2, <1>3

\* BacktestBooksBalance: as long as no average entry is rounded, the equity of a
\* historical run is its capital, its cash and what it holds at the mark, less fees,
\* slippage and funding; a synthetic one has what its days add up to.
THEOREM RunsBalance == BacktestSpec /\ [][NoRunRounded]_backtestVars => []BacktestBooksBalance
<1>1. BacktestInit => RunBooks /\ SyntheticInv
  BY DEF BacktestInit, RunBooks, SyntheticInv
<1>2. RunBooks /\ [BacktestNext]_backtestVars /\ [NoRunRounded]_backtestVars => RunBooks'
  <2>1. CASE UNCHANGED backtestVars
    BY <2>1 DEF backtestVars, RunBooks, Balanced
  <2>2. CASE ~UNCHANGED backtestVars
    BY <2>2, RunBooksInductive
  <2> QED BY <2>1, <2>2
<1>3. RunBooks /\ SyntheticInv => BacktestBooksBalance
  BY RunEquity DEF RunBooks, SyntheticInv, Explained, BacktestBooksBalance
<1> QED BY <1>1, <1>2, <1>3, SyntheticInductive, PTL DEF BacktestSpec

-----------------------------------------------------------------------------
(* The sensitivity sweeps.                                                 *)
\* A finite set has a first element of any strict order.
LEMMA FirstExists ==
  ASSUME NEW S, IsFiniteSet(S), S # {}, NEW R,
         \A x \in S : <<x, x>> \notin R,
         \A x, y, z \in S : <<x, y>> \in R /\ <<y, z>> \in R => <<x, z>> \in R
  PROVE  \E x \in S : \A y \in S : <<y, x>> \notin R
<1> DEFINE Below(x) == {y \in S : <<y, x>> \in R}
           C == {Below(x) : x \in S}
<1>1. C # {}
  <2>1. \E x \in S : Below(x) \in C
    OBVIOUS
  <2> QED BY <2>1
<1>2. PICK c \in C : \A d \in C : d \subseteq c => d = c
  <2>1. C \in SUBSET (SUBSET S)
    OBVIOUS
  <2> HIDE DEF C
  <2> QED BY <1>1, <2>1, SmallestExists
<1>3. PICK x \in S : c = Below(x)
  OBVIOUS
<1>4. ASSUME NEW y \in S, <<y, x>> \in R PROVE FALSE
  <2>1. Below(y) \in C /\ Below(y) \subseteq Below(x)
    BY <1>4
  <2>2. y \in Below(x) /\ y \notin Below(y)
    BY <1>4
  <2> QED BY <1>2, <1>3, <2>1, <2>2
<1> QED BY <1>4

\* A finite set of whole numbers has a least one.
LEMMA LeastExists ==
  ASSUME NEW S, IsFiniteSet(S), S # {}, S \subseteq Int
  PROVE  \E x \in S : \A y \in S : x <= y
<1> DEFINE R == {e \in S \X S : e[1] < e[2]}
<1>1. \A x, y \in S : x \in Int /\ y \in Int /\ (<<x, y>> \in R <=> x < y)
  OBVIOUS
<1> HIDE DEF R
<1>2. \A x \in S : <<x, x>> \notin R
  BY <1>1
<1>3. \A x, y, z \in S : <<x, y>> \in R /\ <<y, z>> \in R => <<x, z>> \in R
  BY <1>1
<1>4. PICK x \in S : \A y \in S : <<y, x>> \notin R
  BY <1>2, <1>3, FirstExists
<1>5. ASSUME NEW y \in S PROVE x <= y
  <2>1. ~(y < x) /\ x \in Int /\ y \in Int
    BY <1>1, <1>4
  <2> QED BY <2>1
<1> QED BY <1>5

\* Likewise a greatest one.
LEMMA GreatestExists ==
  ASSUME NEW S, IsFiniteSet(S), S # {}, S \subseteq Int
  PROVE  \E x \in S : \A y \in S : y <= x
<1> DEFINE R == {e \in S \X S : e[2] < e[1]}
<1>1. \A x, y \in S : x \in Int /\ y \in Int /\ (<<x, y>> \in R <=> y < x)
  OBVIOUS
<1> HIDE DEF R
<1>2. \A x \in S : <<x, x>> \notin R
  BY <1>1
<1>3. \A x, y, z \in S : <<x, y>> \in R /\ <<y, z>> \in R => <<x, z>> \in R
  BY <1>1
<1>4. PICK x \in S : \A y \in S : <<y, x>> \notin R
  BY <1>2, <1>3, FirstExists
<1>5. ASSUME NEW y \in S PROVE y <= x
  <2>1. ~(x < y) /\ x \in Int /\ y \in Int
    BY <1>1, <1>4
  <2> QED BY <2>1
<1> QED BY <1>5

\* The image of a finite set is finite.
LEMMA Images ==
  ASSUME NEW S, IsFiniteSet(S), NEW f, DOMAIN f = S
  PROVE  IsFiniteSet({f[x] : x \in S})
<1> DEFINE T == {f[x] : x \in S}
           g == [x \in S |-> f[x]]
<1>1. g \in Surjection(S, T)
  BY DEF Surjection
<1> HIDE DEF g, T
<1>2. IsFiniteSet(T)
  BY <1>1, FS_Surjection
<1> QED BY <1>2 DEF T

\* The points that decide as A says.
PointsOf(S, A) == {[value |-> u, allowed |-> A[u]] : u \in S}

\* A transition lies between neighbours that decide differently.
LEMMA TransitionsAre ==
  ASSUME NEW S, S \subseteq Int, NEW A
  PROVE  \A t : t \in Transitions(PointsOf(S, A)) <=>
             \E x, y \in S : /\ t = <<x, y>> /\ x < y /\ A[x] # A[y]
                             /\ ~\E z \in S : x < z /\ z < y
<1> DEFINE row == PointsOf(S, A)
<1>1. \A p \in row : p.value \in S /\ p.allowed = A[p.value]
  BY DEF PointsOf
<1>2. \A u \in S : \E p \in row : p.value = u
  <2> SUFFICES ASSUME NEW u \in S PROVE \E p \in row : p.value = u
    OBVIOUS
  <2>1. [value |-> u, allowed |-> A[u]] \in row
    BY DEF PointsOf
  <2> QED BY <2>1
<1> HIDE DEF row
<1>3. ASSUME NEW t \in Transitions(row)
      PROVE  \E x, y \in S : /\ t = <<x, y>> /\ x < y /\ A[x] # A[y]
                             /\ ~\E z \in S : x < z /\ z < y
  <2>1. PICK p \in row, q \in row : t = <<p.value, q.value>>
    BY <1>3 DEF Transitions
  <2>2. /\ p.value < q.value /\ p.allowed # q.allowed
        /\ ~\E r \in row : p.value < r.value /\ r.value < q.value
    BY <1>3, <2>1 DEF Transitions
  <2>3. ~\E z \in S : p.value < z /\ z < q.value
    BY <1>2, <2>2
  <2>4. p.value \in S /\ q.value \in S /\ A[p.value] # A[q.value]
    BY <1>1, <2>2
  <2> DEFINE x == p.value  y == q.value
  <2>5. t = <<x, y>> /\ x < y /\ A[x] # A[y] /\ x \in S /\ y \in S /\ ~\E z \in S : x < z /\ z < y
    BY <2>1, <2>2, <2>3, <2>4
  <2> HIDE DEF x, y
  <2> QED BY <2>5
<1>4. ASSUME NEW x \in S, NEW y \in S, x < y, A[x] # A[y], ~\E z \in S : x < z /\ z < y
      PROVE  <<x, y>> \in Transitions(row)
  <2>1. PICK p \in row, q \in row : p.value = x /\ q.value = y
    BY <1>2
  <2>2. ~\E r \in row : x < r.value /\ r.value < y
    BY <1>1, <1>4
  <2>3. \A k, l \in row : <<k.value, l.value>> = <<x, y>> => k.allowed # l.allowed
    BY <1>1, <1>4
  <2> DEFINE t == <<x, y>>
  <2>4. t \in {<<k.value, l.value>> : k, l \in row} /\ t[1] = x /\ t[2] = y
    BY <2>1
  <2> QED BY <1>4, <2>2, <2>3, <2>4 DEF Transitions
<1> QED BY <1>3, <1>4 DEF row

\* There is a nearest of finitely many brackets.
LEMMA NearestExists ==
  ASSUME NEW S, IsFiniteSet(S), S \subseteq Int, NEW T, T \subseteq S \X S, T # {}, NEW base \in Int
  PROVE  /\ NearestBoundary(T, base) \in T
         /\ \A u \in T : Nearer(NearestBoundary(T, base), u, base)
<1> DEFINE f == [t \in T |-> Distance(t, base)]
           F == {f[t] : t \in T}
           g == [t \in T |-> t[1]]
<1>1. IsFiniteSet(T)
  <2>1. IsFiniteSet(S \X S)
    BY FS_Product
  <2> QED BY <2>1, FS_Subset
<1>2. ASSUME NEW t \in T PROVE t[1] \in Int /\ t[2] \in Int /\ Distance(t, base) \in Int
  <2>1. t[1] \in Int /\ t[2] \in Int
    <3>1. t \in S \X S
      OBVIOUS
    <3> QED BY <3>1
  <2> DEFINE x == t[1]  y == t[2]
  <2> HIDE DEF x, y
  <2>2. (IF Abs(x - base) < Abs(y - base) THEN Abs(x - base) ELSE Abs(y - base)) \in Int
    BY <2>1 DEF Abs, x, y
  <2> QED BY <2>1, <2>2 DEF Distance, x, y
<1>3. IsFiniteSet(F) /\ F # {} /\ F \subseteq Int
  <2>1. F # {} /\ F \subseteq Int
    BY <1>2
  <2>2. DOMAIN f = T
    OBVIOUS
  <2>3. IsFiniteSet({f[t] : t \in T})
    <3> HIDE DEF f
    <3> QED BY <1>1, <2>2, Images
  <2> QED BY <2>1, <2>3
<1>4. PICK d \in F : \A e \in F : d <= e
  <2> HIDE DEF F
  <2> QED BY <1>3, LeastExists
<1> DEFINE near == {t \in T : f[t] = d}
           G == {g[t] : t \in near}
<1>5. IsFiniteSet(G) /\ G # {} /\ G \subseteq Int
  <2>1. IsFiniteSet(near) /\ near # {} /\ near \subseteq T
    BY <1>1, FS_Subset
  <2>2. G # {} /\ G \subseteq Int
    BY <1>2, <2>1
  <2> DEFINE k == [t \in near |-> g[t]]
  <2>3. DOMAIN k = near /\ G = {k[t] : t \in near}
    OBVIOUS
  <2>4. IsFiniteSet({k[t] : t \in near})
    <3> HIDE DEF k, near
    <3> QED BY <2>1, <2>3, Images
  <2> QED BY <2>2, <2>3, <2>4
<1>6. PICK x \in G : \A y \in G : x <= y
  <2> HIDE DEF G
  <2> QED BY <1>5, LeastExists
<1>7. PICK t \in near : x = g[t]
  OBVIOUS
<1>8. \A u \in T : Nearer(t, u, base)
  <2> SUFFICES ASSUME NEW u \in T PROVE Nearer(t, u, base)
    OBVIOUS
  <2>1. t \in T /\ Distance(t, base) = d /\ Distance(u, base) \in F /\ Distance(u, base) \in Int
    BY <1>2
  <2>2. d \in Int /\ d <= Distance(u, base)
    BY <1>2, <1>4, <2>1
  <2>3. CASE Distance(u, base) = d
    <3>1. u[1] \in G /\ x = t[1]
      BY <1>7, <2>3
    <3>2. t[1] <= u[1]
      BY <1>6, <3>1
    <3> QED BY <2>1, <2>3, <3>2 DEF Nearer
  <2>4. CASE Distance(u, base) # d
    BY <2>1, <2>2, <2>4 DEF Nearer
  <2> QED BY <2>3, <2>4
<1>9. \E k \in T : \A u \in T : Nearer(k, u, base)
  BY <1>8
<1> QED BY <1>9 DEF NearestBoundary

\* Every point up to the nearest transition decides as the baseline does.
DecidesAlike(S, A, base) ==
    \A p \in Between(PointsOf(S, A), Transitions(PointsOf(S, A)), base) : p.allowed = A[base]

\* Seen from the baseline, the nearest transition is the first point that decides
\* otherwise.
LEMMA NearestIsFirst ==
  ASSUME NEW S, IsFiniteSet(S), S \subseteq Int, NEW A, NEW base \in S
  PROVE  DecidesAlike(S, A, base)
<1> SUFFICES ASSUME NEW p \in Between(PointsOf(S, A), Transitions(PointsOf(S, A)), base)
             PROVE  p.allowed = A[base]
  BY DEF DecidesAlike
<1> DEFINE T == Transitions(PointsOf(S, A))
           near == NearestBoundary(T, base)
           v == p.value
<1>1. v \in S /\ p.allowed = A[v] /\ base \in Int /\ \A z \in S : z \in Int
  <2>1. p \in PointsOf(S, A)
    BY DEF Between
  <2>2. PICK u \in S : p = [value |-> u, allowed |-> A[u]]
    BY <2>1 DEF PointsOf
  <2>3. v = u /\ p.allowed = A[u]
    BY <2>2
  <2> HIDE DEF v
  <2> QED BY <2>3
<1>2. \/ T = {} \/ v = base
      \/ base <= v /\ v <= near[1]
      \/ near[2] <= v /\ v <= base
  BY DEF Between
<1> HIDE DEF v
<1>3. \A t : t \in T <=> \E x, y \in S : /\ t = <<x, y>> /\ x < y /\ A[x] # A[y]
                                         /\ ~\E z \in S : x < z /\ z < y
  BY TransitionsAre
<1> HIDE DEF T
<1>4. T # {} => near \in T /\ \A u \in T : Nearer(near, u, base)
  <2>1. T \subseteq S \X S
    BY <1>3
  <2> QED BY <1>1, <2>1, NearestExists
<1> HIDE DEF near
<1> SUFFICES ASSUME A[v] # A[base] PROVE FALSE
  BY <1>1
<1>5. v # base
  OBVIOUS
<1>6. ASSUME NEW x \in S, NEW y \in S, <<x, y>> \in T
      PROVE  /\ near[1] \in Int /\ near[2] \in Int /\ near[1] < near[2]
             /\ base <= x /\ x < y => Distance(<<x, y>>, base) = x - base
             /\ y <= base /\ x < y => Distance(<<x, y>>, base) = base - y
             /\ base <= near[1] => Distance(near, base) = near[1] - base
             /\ near[2] <= base => Distance(near, base) = base - near[2]
             /\ Distance(near, base) <= Distance(<<x, y>>, base)
  <2>1. PICK a \in S, b \in S : near = <<a, b>> /\ a < b
    BY <1>3, <1>4, <1>6
  <2>2. near[1] = a /\ near[2] = b /\ a \in Int /\ b \in Int /\ x \in Int /\ y \in Int
    BY <1>1, <2>1
  <2>3. \A k, l \in Int : /\ base <= k /\ k < l => Distance(<<k, l>>, base) = k - base
                          /\ l <= base /\ k < l => Distance(<<k, l>>, base) = base - l
                          /\ Distance(<<k, l>>, base) \in Int
    BY <1>1 DEF Distance, Abs
  <2>4. Nearer(near, <<x, y>>, base)
    BY <1>4, <1>6
  <2>5. Distance(near, base) <= Distance(<<x, y>>, base)
    BY <2>1, <2>2, <2>3, <2>4 DEF Nearer
  <2> QED BY <2>1, <2>2, <2>3, <2>5
<1>7. ASSUME base < v PROVE FALSE
  <2> DEFINE B == {z \in S : base < z /\ A[z] # A[base]}
  <2>1. B # {} /\ IsFiniteSet(B) /\ B \subseteq Int
    <3>1. v \in B
      BY <1>1, <1>7
    <3> QED BY <1>1, <3>1, FS_Subset
  <2>2. PICK y \in B : \A z \in B : y <= z
    <3> HIDE DEF B
    <3> QED BY <2>1, LeastExists
  <2> DEFINE D == {z \in S : z < y}
  <2>3. D # {} /\ IsFiniteSet(D) /\ D \subseteq Int
    <3>1. base \in D
      BY <2>2
    <3> QED BY <1>1, <3>1, FS_Subset
  <2>4. PICK x \in D : \A z \in D : z <= x
    <3> HIDE DEF D
    <3> QED BY <2>3, GreatestExists
  <2>5. /\ x \in S /\ y \in S /\ x < y /\ base <= x /\ base < y /\ A[y] # A[base]
    BY <2>2, <2>4
  <2>5a. x \in Int /\ y \in Int /\ base \in Int
    BY <1>1, <2>5
  <2>6. A[x] = A[base]
    <3>1. CASE x = base
      BY <3>1
    <3>2. CASE x # base
      <4>1. base < x
        BY <2>5a, <2>5, <3>2
      <4>2. ~(y <= x)
        BY <1>1, <2>5
      <4>3. x \notin B
        BY <2>2, <4>2
      <4> QED BY <2>5, <4>1, <4>3
    <3> QED BY <3>1, <3>2
  <2>7. ~\E z \in S : x < z /\ z < y
    <3> SUFFICES ASSUME NEW z \in S, x < z, z < y PROVE FALSE
      OBVIOUS
    <3>1. z <= x /\ z \in Int /\ x \in Int
      BY <1>1, <2>4, <2>5
    <3> QED BY <3>1
  <2>8. <<x, y>> \in T
    BY <1>3, <2>5, <2>6, <2>7
  <2>9. y <= v
    BY <1>1, <1>7, <2>2
  <2> HIDE DEF B, D
  <2>11. /\ near[1] \in Int /\ near[2] \in Int /\ near[1] < near[2]
         /\ Distance(<<x, y>>, base) = x - base
         /\ base <= near[1] => Distance(near, base) = near[1] - base
         /\ Distance(near, base) <= Distance(<<x, y>>, base)
    BY <1>6, <2>5, <2>8
  <2>12. T # {} /\ v \in Int
    BY <1>1, <2>8
  <2> HIDE DEF B, D
  <2>13. v <= near[1]
    BY <1>2, <1>7, <2>5a, <2>12
  <2>14. base <= near[1] /\ x < near[1]
    BY <1>7, <2>9, <2>5, <2>5a, <2>11, <2>12, <2>13
  <2>15. Distance(near, base) = near[1] - base
    BY <2>11, <2>14
  <2> QED BY <2>5a, <2>11, <2>14, <2>15
<1>8. ASSUME v < base PROVE FALSE
  <2> DEFINE B == {z \in S : z < base /\ A[z] # A[base]}
  <2>1. B # {} /\ IsFiniteSet(B) /\ B \subseteq Int
    <3>1. v \in B
      BY <1>1, <1>8
    <3> QED BY <1>1, <3>1, FS_Subset
  <2>2. PICK x \in B : \A z \in B : z <= x
    <3> HIDE DEF B
    <3> QED BY <2>1, GreatestExists
  <2> DEFINE D == {z \in S : x < z}
  <2>3. D # {} /\ IsFiniteSet(D) /\ D \subseteq Int
    <3>1. base \in D
      BY <2>2
    <3> QED BY <1>1, <3>1, FS_Subset
  <2>4. PICK y \in D : \A z \in D : y <= z
    <3> HIDE DEF D
    <3> QED BY <2>3, LeastExists
  <2>5. /\ x \in S /\ y \in S /\ x < y /\ y <= base /\ x < base /\ A[x] # A[base]
    BY <2>2, <2>4
  <2>5a. x \in Int /\ y \in Int /\ base \in Int
    BY <1>1, <2>5
  <2>6. A[y] = A[base]
    <3>1. CASE y = base
      BY <3>1
    <3>2. CASE y # base
      <4>1. y < base
        BY <2>5a, <2>5, <3>2
      <4>2. ~(y <= x)
        BY <1>1, <2>5
      <4>3. y \notin B
        BY <2>2, <4>2
      <4> QED BY <2>5, <4>1, <4>3
    <3> QED BY <3>1, <3>2
  <2>7. ~\E z \in S : x < z /\ z < y
    <3> SUFFICES ASSUME NEW z \in S, x < z, z < y PROVE FALSE
      OBVIOUS
    <3>1. y <= z /\ z \in Int /\ y \in Int
      BY <1>1, <2>4, <2>5
    <3> QED BY <3>1
  <2>8. <<x, y>> \in T
    BY <1>3, <2>5, <2>6, <2>7
  <2>9. v <= x
    BY <1>1, <1>8, <2>2
  <2> HIDE DEF B, D
  <2>11. /\ near[1] \in Int /\ near[2] \in Int /\ near[1] < near[2]
         /\ Distance(<<x, y>>, base) = base - y
         /\ near[2] <= base => Distance(near, base) = base - near[2]
         /\ Distance(near, base) <= Distance(<<x, y>>, base)
    BY <1>6, <2>5, <2>8
  <2>12. T # {} /\ v \in Int
    BY <1>1, <2>8
  <2> HIDE DEF B, D
  <2>13. near[2] <= v
    BY <1>2, <1>8, <2>5a, <2>12
  <2>14. near[2] <= base /\ near[2] < y
    BY <1>8, <2>9, <2>5, <2>5a, <2>11, <2>12, <2>13
  <2>15. Distance(near, base) = base - near[2]
    BY <2>11, <2>14
  <2> QED BY <2>5a, <2>11, <2>14, <2>15
<1> QED BY <1>1, <1>5, <1>7, <1>8

\* A record whose numbers are numbers and whose copies agree.
SoundRecord(rec) ==
    /\ Whole(rec)
    /\ rec.data = [mode |-> rec.data.mode, enabled |-> rec.data.enabled, valid |-> rec.data.valid,
                   size |-> rec.data.size, fill |-> rec.data.fill, found |-> rec.data.found,
                   fresh |-> rec.data.fresh, integrity |-> rec.data.integrity]
    /\ rec.agent = [used |-> rec.agent.used, spread |-> rec.agent.spread,
                    depth |-> rec.agent.depth, integrity |-> rec.agent.integrity]
    /\ rec.data.size \in Int /\ rec.data.fill \in Int
    /\ rec.agent.spread \in Int /\ rec.agent.depth \in Int
    /\ rec.risk.size = rec.data.size /\ rec.risk.price = rec.data.fill
    /\ rec.risk.state \in RiskStates /\ rec.figures \in CheckFigures

\* Setting a field to its recorded value changes nothing.
LEMMA BaselineCell ==
  ASSUME NEW rec, SoundRecord(rec), NEW f \in NumericFields, NEW v \in RecordedValues(rec, f)
  PROVE  Overridden(rec, f, v) = rec /\ v \in Int
<1>1. rec.risk.state.pnl \in Int
  BY AuditAssumption DEF SoundRecord, RiskStates, AuditAssumption
<1>2. rec.risk.state = [rec.risk.state EXCEPT !.pnl = rec.risk.state.pnl]
  BY DEF SoundRecord, RiskStates
<1>3. CASE f = "fill_price"
  <2>1. v = rec.data.fill /\ v = rec.risk.price
    BY <1>3 DEF RecordedValues, SoundRecord
  <2>2. [rec EXCEPT !.data.fill = v, !.risk.price = v] = rec
    BY <2>1 DEF SoundRecord, Whole
  <2>3. Scenario(rec, f, v) = [rec EXCEPT !.data.fill = v, !.risk.price = v]
    BY <1>3 DEF Scenario
  <2>4. v \in Int
    BY <2>1 DEF SoundRecord
  <2> QED BY <2>2, <2>3, <2>4 DEF Overridden
<1>4. CASE f = "order_size"
  <2>1. v = Abs(rec.data.size) /\ rec.data.size \in Int
    BY <1>4 DEF RecordedValues, SoundRecord
  <2>2. v \in Int /\ Sized(rec, v) = rec.data.size /\ rec.risk.size = rec.data.size
    BY <2>1 DEF Abs, Sized, SoundRecord
  <2> DEFINE n == Sized(rec, v)
  <2> HIDE DEF n
  <2>3. [rec EXCEPT !.data.size = n, !.risk.size = n] = rec
    BY <2>2 DEF SoundRecord, Whole, n
  <2>4. Scenario(rec, f, v) = [rec EXCEPT !.data.size = n, !.risk.size = n]
    BY <1>4 DEF Scenario, n
  <2> QED BY <2>2, <2>3, <2>4 DEF Overridden
<1>5. CASE f = "spread_bps"
  <2>1. v = rec.agent.spread
    BY <1>5 DEF RecordedValues
  <2>2. [rec EXCEPT !.agent.spread = v] = rec
    BY <2>1 DEF SoundRecord, Whole
  <2>3. Scenario(rec, f, v) = [rec EXCEPT !.agent.spread = v]
    BY <1>5 DEF Scenario
  <2>4. v \in Int
    BY <2>1 DEF SoundRecord
  <2> QED BY <2>2, <2>3, <2>4 DEF Overridden
<1>6. CASE f = "liquidity_depth"
  <2>1. v = rec.agent.depth
    BY <1>6 DEF RecordedValues
  <2>2. [rec EXCEPT !.agent.depth = v] = rec
    BY <2>1 DEF SoundRecord, Whole
  <2>3. Scenario(rec, f, v) = [rec EXCEPT !.agent.depth = v]
    BY <1>6 DEF Scenario
  <2>4. v \in Int
    BY <2>1 DEF SoundRecord
  <2> QED BY <2>2, <2>3, <2>4 DEF Overridden
<1>7. CASE f = "daily_pnl"
  <2>1. v = rec.risk.state.pnl
    BY <1>7 DEF RecordedValues
  <2>2. [rec EXCEPT !.risk.state.pnl = v] = rec
    BY <1>2, <2>1 DEF SoundRecord, Whole
  <2>3. Scenario(rec, f, v) = [rec EXCEPT !.risk.state.pnl = v]
    BY <1>7 DEF Scenario
  <2> QED BY <1>1, <2>1, <2>2, <2>3 DEF Overridden
<1> QED BY <1>3, <1>4, <1>5, <1>6, <1>7 DEF NumericFields

\* The steps of a preset are finitely many numbers.
LEMMA PresetsFinite ==
  ASSUME NEW f \in NumericFields, NEW base \in Int, NEW preset \in DOMAIN PresetPct
  PROVE  IsFiniteSet(PresetValues(f, base, preset)) /\ PresetValues(f, base, preset) \subseteq Int
<1> DEFINE scale == Metadata[f].scale
           range == Metadata[f].range
           n == PresetPct[preset]
           d == (n * Larger(Abs(base), scale)) \div 100
           around == {base + k * d : k \in -2..2}
           g == [k \in -2..2 |-> base + k * d]
           h == [v \in around |-> NotNegative(v)]
<1>1. scale \in Int /\ range \in {"unbounded", "non_negative", "positive"}
  BY DEF Metadata, NumericFields
<1>2. n \in Int
  BY DEF PresetPct
<1>3. d \in Int
  <2> HIDE DEF scale, n
  <2>1. Larger(Abs(base), scale) \in Int
    BY <1>1 DEF Larger, Abs
  <2> DEFINE l == Larger(Abs(base), scale)
  <2> HIDE DEF l
  <2>2. n * l \in Int
    BY <1>2, <2>1 DEF l
  <2> QED BY <2>2 DEF l
<1> DEFINE P == PresetValues(f, base, preset)
<1>4. /\ range = "unbounded" => P = around
      /\ range = "non_negative" => P = {NotNegative(v) : v \in around}
      /\ range = "positive" => P = {v \in around : v > 0}
  BY DEF PresetValues
<1> HIDE DEF d, range, P
<1>5. around \subseteq Int
  BY <1>3
<1>6. IsFiniteSet(around)
  <2>1. IsFiniteSet(-2..2)
    <3>1. -2 \in Int /\ 2 \in Int
      OBVIOUS
    <3> QED BY <3>1, FS_Interval
  <2>2. DOMAIN g = -2..2 /\ around = {g[k] : k \in -2..2}
    OBVIOUS
  <2> HIDE DEF g, around
  <2> QED BY <2>1, <2>2, Images
<1>7. CASE range = "unbounded"
  BY <1>4, <1>5, <1>6, <1>7 DEF P
<1>8. CASE range = "non_negative"
  <2>1. DOMAIN h = around /\ P = {h[v] : v \in around}
    BY <1>4, <1>8
  <2>2. IsFiniteSet(P)
    <3> HIDE DEF h, around
    <3> QED BY <1>6, <2>1, Images
  <2>3. P \subseteq Int
    <3> HIDE DEF around
    <3> QED BY <1>4, <1>5, <1>8 DEF NotNegative
  <2> QED BY <2>2, <2>3 DEF P
<1>9. CASE range = "positive"
  <2>1. P \subseteq around
    BY <1>4, <1>9
  <2>2. IsFiniteSet(P)
    BY <1>6, <2>1, FS_Subset
  <2> QED BY <1>5, <2>1, <2>2 DEF P
<1> QED BY <1>1, <1>7, <1>8, <1>9

\* An axis has finitely many values, the recorded one among them.
LEMMA AxisFinite ==
  ASSUME NEW rec, SoundRecord(rec), NEW r \in AxisRequests, ValidRequest(r)
  PROVE  /\ IsFiniteSet(ResolveAxis(rec, r)) /\ ResolveAxis(rec, r) \subseteq Int
         /\ RecordedValues(rec, r.field) \subseteq ResolveAxis(rec, r)
<1> DEFINE V == RecordedValues(rec, r.field)
<1>1. r.field \in NumericFields /\ (r.preset = "manual" \/ r.preset \in DOMAIN PresetPct)
  BY DEF ValidRequest
<1>2. V \subseteq Int
  BY <1>1, BaselineCell
<1>3. V = {} \/ \E v : V = {v}
  BY <1>1 DEF RecordedValues, NumericFields
<1>4. IsFiniteSet(V)
  <2>1. CASE V = {}
    BY <2>1, FS_EmptySet
  <2>2. ASSUME NEW v, V = {v} PROVE IsFiniteSet(V)
    BY <2>2, FS_Singleton
  <2> QED BY <1>3, <2>1, <2>2
<1> DEFINE M == IF r.preset = "manual" THEN r.values
                ELSE UNION {PresetValues(r.field, v, r.preset) : v \in V}
<1>5. IsFiniteSet(M) /\ M \subseteq Int
  <2>1. CASE r.preset = "manual"
    BY <2>1, SweepAssumption DEF SweepAssumption
  <2>2. CASE r.preset # "manual"
    <3> HIDE DEF V
    <3>1. r.preset \in DOMAIN PresetPct /\ M = UNION {PresetValues(r.field, v, r.preset) : v \in V}
      BY <1>1, <2>2
    <3>2. CASE V = {}
      <4>1. M = {}
        BY <3>1, <3>2
      <4> QED BY <4>1, FS_EmptySet
    <3>3. ASSUME NEW v, V = {v} PROVE IsFiniteSet(M) /\ M \subseteq Int
      <4>1. v \in Int /\ M = PresetValues(r.field, v, r.preset)
        BY <1>2, <3>1, <3>3
      <4> HIDE DEF M
      <4> QED BY <1>1, <3>1, <4>1, PresetsFinite
    <3> QED BY <1>3, <3>2, <3>3 DEF V
  <2> QED BY <2>1, <2>2
<1>6. ResolveAxis(rec, r) = V \cup M
  BY DEF ResolveAxis
<1> HIDE DEF V, M
<1>7. IsFiniteSet(V \cup M)
  BY <1>4, <1>5, FS_Union
<1> QED BY <1>2, <1>5, <1>6, <1>7 DEF V

\* What a sweep of a record that replays says of its boundary.
LEMMA BoundaryOfRecord ==
  ASSUME NEW rec, SoundRecord(rec), ExactMatch(rec),
         NEW x \in AxisRequests, NEW y, y \in AxisRequests \/ y = NoAxis, Computable(rec, x, y),
         NEW base \in RecordedValues(rec, x.field), NEW row \in BaselineRows(rec, x, y),
         NEW p \in Between(row, Transitions(row), base)
  PROVE  p.allowed = rec.final.allowed
<1>1. PICK S : S = ResolveAxis(rec, x)
  OBVIOUS
<1>2. x.field # "none" /\ x # NoAxis
  <2>1. x.field # "none"
    BY SweepAssumption DEF SweepAssumption
  <2>2. NoAxis.field = "none"
    BY DEF NoAxis
  <2> QED BY <2>1, <2>2
<1>3. ValidRequest(x) /\ x.field # y.field /\ (y # NoAxis => ValidRequest(y))
  BY <1>2 DEF Computable
<1>4. x.field \in NumericFields
  BY <1>3 DEF ValidRequest
<1>5. IsFiniteSet(S) /\ S \subseteq Int /\ base \in S
  BY <1>1, <1>3, AxisFinite
<1>6. Overridden(rec, x.field, base) = rec
  BY <1>4, BaselineCell
<1>7. Allowed(rec) = rec.final.allowed
  BY DEF Allowed, ExactMatch
<1>7a. \A A : DecidesAlike(S, A, base)
  BY <1>5, NearestIsFirst
<1>8. CASE y = NoAxis
  <2> DEFINE A == [u \in S |-> Allowed(Overridden(rec, x.field, u))]
  <2>1. row = Row(rec, x)
    BY <1>8 DEF BaselineRows
  <2>2. row = PointsOf(S, A)
    BY <1>1, <2>1 DEF Row, PointsOf
  <2>3. A[base] = rec.final.allowed
    BY <1>5, <1>6, <1>7
  <2> HIDE DEF A
  <2>4. p \in Between(PointsOf(S, A), Transitions(PointsOf(S, A)), base)
    BY <2>2
  <2>5. p.allowed = A[base]
    BY <1>7a, <2>4 DEF DecidesAlike
  <2> QED BY <2>3, <2>5
<1>9. CASE y # NoAxis
  <2>1. y.field \in NumericFields
    BY <1>3, <1>9 DEF ValidRequest
  <2>2. PICK v \in RecordedValues(rec, y.field) :
            row = {[value |-> u, allowed |-> Allowed(Overridden(
                       Overridden(rec, x.field, u), y.field, v))] : u \in ResolveAxis(rec, x)}
    BY <1>9 DEF BaselineRows
  <2> DEFINE A == [u \in S |-> Allowed(Overridden(Overridden(rec, x.field, u), y.field, v))]
  <2>3. row = PointsOf(S, A)
    BY <1>1, <2>2 DEF PointsOf
  <2>4. Overridden(rec, y.field, v) = rec
    BY <2>1, BaselineCell
  <2>5. A[base] = rec.final.allowed
    BY <1>5, <1>6, <1>7, <2>4
  <2> HIDE DEF A
  <2>6. p \in Between(PointsOf(S, A), Transitions(PointsOf(S, A)), base)
    BY <2>3
  <2>7. p.allowed = A[base]
    BY <1>7a, <2>6 DEF DecidesAlike
  <2> QED BY <2>5, <2>7
<1> QED BY <1>8, <1>9

\* The shared state and its copy are risk states, and what is gathered is sound.
AuditTyped ==
    /\ AuditTypeOK
    /\ phase # "idle" => SoundRecord(record)
    /\ durable # NotStored => SoundRecord(durable)

\* Copying the shared state, whatever of it is answered, leaves a risk state,
LEMMA SyncedTyped ==
  ASSUME AuditTypeOK, NEW reads PROVE Synced(reads) \in RiskStates
  BY DEF AuditTypeOK, Synced, RiskStates

\* and the moves stay within their bound.
LEMMA AnsweredTyped ==
  ASSUME AuditTypeOK, NEW reads \in 0..2, Answered(reads)
  PROVE  redisUp' \in BOOLEAN /\ moves' \in 0..MaxMoves
  BY AuditAssumption DEF AuditTypeOK, Answered, AuditAssumption

\* Nothing but a field is ever disturbed.
LEMMA DisturbedTyped ==
  ASSUME AuditTypeOK, Disturbs PROVE disturbed' \subseteq {"pnl", "last", "figures"}
  BY DEF AuditTypeOK, Disturbs

\* Every step keeps it,
LEMMA AuditTypedStep == AuditTyped /\ [AuditNext]_auditVars => AuditTyped'
<1> SUFFICES ASSUME AuditTyped, [AuditNext]_auditVars PROVE AuditTyped'
  OBVIOUS
<1> USE DEF AuditTyped
<1>1. CASE UNCHANGED auditVars
  BY <1>1 DEF auditVars, engineVars, AuditTypeOK
<1>2. ASSUME NEW data \in DataSpecs, NEW quoted \in BOOLEAN, BeginDecision(data, quoted)
      PROVE  AuditTyped'
  <2>1. /\ phase' \in {"copy", "final"}
        /\ record' = [data |-> data, quoted |-> quoted, risk |-> NoRisk(data), agent |-> NoAgent,
                      executor |-> TRUE, reasons |-> {}, figures |-> "own",
                      final |-> Verdict(FALSE, "none")]
        /\ UNCHANGED <<riskShared, redisUp, riskCopy, figures, durable, disturbed, moves>>
    BY <1>2 DEF BeginDecision, engineVars
  <2>2. Calm \in RiskStates
    BY AuditAssumption DEF AuditAssumption, Calm, RiskStates
  <2>3. Whole(record')
    BY <2>1 DEF Whole, NoRisk, Calm
  <2>4. data.size \in Int /\ data.fill \in Int
    <3>1. data.size \in Quantity /\ data.fill \in Quote
      BY DEF DataSpecs
    <3>2. Quantity \subseteq Int /\ Quote \subseteq Int
      BY AuditAssumption DEF AuditAssumption
    <3> QED BY <3>1, <3>2, Zenon
  <2>5. SoundRecord(record')
    BY <2>1, <2>2, <2>3, <2>4 DEF SoundRecord, NoRisk, NoAgent, DataSpecs, CheckFigures
  <2> QED
    BY <2>1, <2>2, <2>5 DEF AuditTypeOK, Phases, NoRisk, CheckFigures
<1>3. ASSUME NEW found \in Held, NEW equity \in Equity, NEW margin \in {0, 1}, NEW reads \in 0..2,
             CopyForRecord(found, equity, margin, reads)
      PROVE  AuditTyped'
  <2>1. /\ phase = "copy" /\ phase' = "record pnl" /\ Answered(reads)
        /\ riskCopy' = Synced(reads) /\ UNCHANGED <<riskShared, figures, durable, disturbed>>
        /\ record' = [record EXCEPT !.risk.used = TRUE, !.risk.held = found,
                          !.risk.equity = equity, !.risk.margin = margin]
    BY <1>3 DEF CopyForRecord, CopiedFirst
  <2>2. riskCopy' \in RiskStates /\ redisUp' \in BOOLEAN /\ moves' \in 0..MaxMoves
    BY <2>1, SyncedTyped, AnsweredTyped
  <2>3. SoundRecord(record)
    BY <2>1
  <2>4. /\ Whole(record') /\ record'.data = record.data /\ record'.agent = record.agent
        /\ record'.risk.size = record.risk.size /\ record'.risk.price = record.risk.price
        /\ record'.risk.state = record.risk.state /\ record'.figures = record.figures
    BY <2>1, <2>3 DEF SoundRecord, Whole
  <2>5. SoundRecord(record')
    BY <2>3, <2>4 DEF SoundRecord
  <2> QED BY <2>1, <2>2, <2>5 DEF AuditTypeOK, Phases, SoundRecord
<1>4. CASE RecordPnl
  <2>1. /\ phase = "record pnl" /\ phase' = "record last"
        /\ UNCHANGED <<riskShared, redisUp, riskCopy, figures, durable, disturbed, moves>>
        /\ record' = [record EXCEPT !.risk.state.pnl = riskCopy.pnl]
    BY <1>4 DEF RecordPnl, engineVars
  <2>2. SoundRecord(record)
    BY <2>1
  <2>3. /\ Whole(record') /\ record'.data = record.data /\ record'.agent = record.agent
        /\ record'.risk.size = record.risk.size /\ record'.risk.price = record.risk.price
        /\ record'.risk.state = [pnl |-> riskCopy.pnl, last |-> record.risk.state.last]
        /\ record'.figures = record.figures
    BY <2>1, <2>2 DEF SoundRecord, Whole
  <2>4. record'.risk.state \in RiskStates
    BY <2>2, <2>3 DEF SoundRecord, RiskStates, AuditTypeOK
  <2>5. SoundRecord(record')
    BY <2>2, <2>3, <2>4 DEF SoundRecord
  <2> QED BY <2>1, <2>5 DEF AuditTypeOK, Phases, SoundRecord
<1>5. CASE RecordLast
  <2>1. /\ phase = "record last" /\ phase' = "copy again"
        /\ UNCHANGED <<riskShared, redisUp, riskCopy, figures, durable, disturbed, moves>>
        /\ record' = [record EXCEPT !.risk.state.last = riskCopy.last]
    BY <1>5 DEF RecordLast, engineVars
  <2>2. SoundRecord(record)
    BY <2>1
  <2>3. /\ Whole(record') /\ record'.data = record.data /\ record'.agent = record.agent
        /\ record'.risk.size = record.risk.size /\ record'.risk.price = record.risk.price
        /\ record'.risk.state = [pnl |-> record.risk.state.pnl, last |-> riskCopy.last]
        /\ record'.figures = record.figures
    BY <2>1, <2>2 DEF SoundRecord, Whole
  <2>4. record'.risk.state \in RiskStates
    BY <2>2, <2>3 DEF SoundRecord, RiskStates, AuditTypeOK
  <2>5. SoundRecord(record')
    BY <2>2, <2>3, <2>4 DEF SoundRecord
  <2> QED BY <2>1, <2>5 DEF AuditTypeOK, Phases, SoundRecord
<1>6. ASSUME NEW reads \in 0..2, CopyForCheck(reads) PROVE AuditTyped'
  <2>1. /\ phase = "copy again" /\ phase' = "check loss" /\ Answered(reads)
        /\ riskCopy' = Synced(reads)
        /\ UNCHANGED <<riskShared, record, figures, durable, disturbed>>
    BY <1>6 DEF CopyForCheck
  <2>2. riskCopy' \in RiskStates /\ redisUp' \in BOOLEAN /\ moves' \in 0..MaxMoves
    BY <2>1, SyncedTyped, AnsweredTyped
  <2> QED BY <2>1, <2>2 DEF AuditTypeOK, Phases
<1>7. CASE CheckLoss
  <2>1. /\ phase = "check loss" /\ phase' = "check cooldown"
        /\ UNCHANGED <<riskShared, redisUp, riskCopy, figures, durable, disturbed, moves>>
        /\ \E reasons : record' = [record EXCEPT !.reasons = reasons]
    BY <1>7 DEF CheckLoss, engineVars
  <2>2. SoundRecord(record)
    BY <2>1
  <2>3. /\ Whole(record') /\ record'.data = record.data /\ record'.agent = record.agent
        /\ record'.risk = record.risk /\ record'.figures = record.figures
    BY <2>1, <2>2 DEF SoundRecord, Whole
  <2>4. SoundRecord(record')
    BY <2>2, <2>3 DEF SoundRecord
  <2> QED BY <2>1, <2>4 DEF AuditTypeOK, Phases, SoundRecord
<1>8. CASE CheckCooldown
  <2>1. /\ phase = "check cooldown" /\ phase' = "result" /\ figures' = "own"
        /\ UNCHANGED <<redisUp, durable, disturbed, moves>>
        /\ \E reasons : record' = [record EXCEPT !.reasons = reasons]
        /\ riskCopy' \in {riskCopy, [riskCopy EXCEPT !.last = Stamp]}
        /\ riskShared' \in {riskShared, [riskShared EXCEPT !.last = Stamp]}
    BY <1>8 DEF CheckCooldown
  <2>2. riskCopy' \in RiskStates /\ riskShared' \in RiskStates
    BY <2>1, AuditAssumption DEF AuditAssumption, RiskStates, AuditTypeOK
  <2>3. SoundRecord(record)
    BY <2>1
  <2>4. /\ Whole(record') /\ record'.data = record.data /\ record'.agent = record.agent
        /\ record'.risk = record.risk /\ record'.figures = record.figures
    BY <2>1, <2>3 DEF SoundRecord, Whole
  <2>5. SoundRecord(record')
    BY <2>3, <2>4 DEF SoundRecord
  <2> QED BY <2>1, <2>2, <2>5 DEF AuditTypeOK, Phases, SoundRecord, CheckFigures
<1>9. CASE TakeResult
  <2>1. /\ phase = "result" /\ phase' \in {"agent", "final"}
        /\ UNCHANGED <<riskShared, redisUp, riskCopy, figures, durable, disturbed, moves>>
        /\ record' = [record EXCEPT !.figures = figures]
    BY <1>9 DEF TakeResult, engineVars
  <2>2. SoundRecord(record)
    BY <2>1
  <2>3. /\ Whole(record') /\ record'.data = record.data /\ record'.agent = record.agent
        /\ record'.risk = record.risk /\ record'.figures = figures
    BY <2>1, <2>2 DEF SoundRecord, Whole
  <2>4. SoundRecord(record')
    BY <2>2, <2>3 DEF SoundRecord, AuditTypeOK
  <2> QED BY <2>1, <2>4 DEF AuditTypeOK, Phases, SoundRecord
<1>10. ASSUME NEW s \in Spread, NEW d \in Depth, NEW i \in {"OK", "WARNING"},
              AskAgent([used |-> TRUE, spread |-> s, depth |-> d, integrity |-> i])
       PROVE  AuditTyped'
  <2> DEFINE a == [used |-> TRUE, spread |-> s, depth |-> d, integrity |-> i]
  <2>1. /\ phase = "agent" /\ phase' = "final" /\ record' = [record EXCEPT !.agent = a]
        /\ UNCHANGED <<riskShared, redisUp, riskCopy, figures, durable, disturbed, moves>>
    BY <1>10 DEF AskAgent, engineVars
  <2>2. SoundRecord(record)
    BY <2>1
  <2>3. s \in Int /\ d \in Int
    BY AuditAssumption DEF AuditAssumption
  <2>4. /\ Whole(record') /\ record'.data = record.data /\ record'.agent = a
        /\ record'.risk = record.risk /\ record'.figures = record.figures
    BY <2>1, <2>2 DEF SoundRecord, Whole
  <2>5. SoundRecord(record')
    BY <2>2, <2>3, <2>4 DEF SoundRecord
  <2> QED BY <2>1, <2>5 DEF AuditTypeOK, Phases, SoundRecord
<1>11. ASSUME NEW known \in BOOLEAN, NEW stored \in BOOLEAN, RecordDecision(known, stored)
       PROVE  AuditTyped'
  <2>1. /\ phase = "final" /\ phase' = "done" /\ record' = Decision(known)
        /\ durable' \in {record', NotStored}
        /\ UNCHANGED <<riskShared, redisUp, riskCopy, figures, disturbed, moves>>
    BY <1>11 DEF RecordDecision, engineVars
  <2>2. SoundRecord(record)
    BY <2>1
  <2>3. \E e, f : record' = [record EXCEPT !.executor = e, !.final = f]
    BY <2>1, <2>2 DEF Decision
  <2>4. /\ Whole(record') /\ record'.data = record.data /\ record'.agent = record.agent
        /\ record'.risk = record.risk /\ record'.figures = record.figures
    BY <2>2, <2>3 DEF SoundRecord, Whole
  <2>5. SoundRecord(record')
    BY <2>2, <2>4 DEF SoundRecord
  <2> QED BY <2>1, <2>5 DEF AuditTypeOK, Phases, SoundRecord
<1>12. ASSUME NEW s \in RiskStates, NEW up \in BOOLEAN, MoveSharedState(s, up) PROVE AuditTyped'
  <2>1. /\ riskShared' = s /\ redisUp' = up /\ moves < MaxMoves /\ moves' = moves + 1
        /\ UNCHANGED <<riskCopy, figures, record, phase, durable>> /\ Disturbs
    BY <1>12 DEF MoveSharedState, engineVars
  <2> QED BY <2>1, DisturbedTyped, AuditAssumption DEF AuditTypeOK, AuditAssumption
<1>13. ASSUME NEW f \in {"pnl", "last"}, ThreadCopies(f) PROVE AuditTyped'
  <2>1. /\ riskCopy' = [riskCopy EXCEPT ![f] = Synced(2)[f]] /\ Disturbs
        /\ UNCHANGED <<riskShared, redisUp, figures, record, phase, durable, moves>>
    BY <1>13 DEF ThreadCopies
  <2>2. Synced(2) \in RiskStates
    BY SyncedTyped
  <2>3. riskCopy' \in RiskStates
    BY <2>1, <2>2 DEF RiskStates, AuditTypeOK
  <2> QED BY <2>1, <2>3, DisturbedTyped DEF AuditTypeOK
<1>14. ASSUME NEW rolls \in BOOLEAN, NEW time \in Action \cup {0},
              NEW theirs \in {"finite", "infinite"}, ThreadChecks(rolls, time, theirs)
       PROVE  AuditTyped'
  <2>1. /\ riskCopy' = [pnl |-> IF rolls THEN 0 ELSE riskCopy.pnl,
                        last |-> IF time = 0 THEN riskCopy.last ELSE time]
        /\ riskShared' = IF redisUp /\ time # 0 THEN [riskShared EXCEPT !.last = time]
                                                ELSE riskShared
        /\ figures' = theirs /\ moves < MaxMoves /\ moves' = moves + 1 /\ Disturbs
        /\ UNCHANGED <<redisUp, record, phase, durable>>
    BY <1>14 DEF ThreadChecks
  <2>2. riskCopy' \in RiskStates /\ riskShared' \in RiskStates
    BY <2>1, AuditAssumption DEF AuditAssumption, RiskStates, AuditTypeOK
  <2>3. figures' \in CheckFigures /\ moves' \in 0..MaxMoves
    BY <2>1, AuditAssumption DEF AuditAssumption, CheckFigures, AuditTypeOK
  <2> QED BY <2>1, <2>2, <2>3, DisturbedTyped DEF AuditTypeOK
<1> QED
  BY <1>1, <1>2, <1>3, <1>4, <1>5, <1>6, <1>7, <1>8, <1>9, <1>10, <1>11, <1>12, <1>13, <1>14
     DEF AuditNext

\* and it holds in the beginning.
LEMMA AuditInitially == AuditInit => AuditTyped
<1>1. Calm \in RiskStates
  BY AuditAssumption DEF AuditAssumption, Calm, RiskStates
<1>2. 0 \in 0..MaxMoves
  BY AuditAssumption DEF AuditAssumption
<1> QED BY <1>1, <1>2 DEF AuditInit, AuditTyped, AuditTypeOK, Phases, CheckFigures

\* AuditTypeOK: the shared risk state, the engine's copy of it and what the router
\* has recorded of it hold values of their types, for any limits and quantities.
THEOREM AuditTypeCorrect == AuditSpec => []AuditTypeOK
<1>1. AuditTyped => AuditTypeOK
  BY DEF AuditTyped
<1> QED BY <1>1, AuditInitially, AuditTypedStep, PTL DEF AuditSpec

\* BoundarySeenFromBaseline: whatever the record, the one or two fields, and the
\* values or preset asked for, the boundary that a sweep reports as nearest is the
\* first that is met from the recorded value.
THEOREM BoundaryIsFirst == AuditSpec => []BoundarySeenFromBaseline
<1>1. AuditTyped => BoundarySeenFromBaseline
  BY BoundaryOfRecord DEF AuditTyped, BoundarySeenFromBaseline
<1> QED BY <1>1, AuditInitially, AuditTypedStep, PTL DEF AuditSpec

-----------------------------------------------------------------------------
(* The performance report.                                                 *)

\* What is filed under the keys of a set counts what has one of these keys.
LEMMA FiledCount ==
  ASSUME NEW I, IsFiniteSet(I), NEW key, NEW S, IsFiniteSet(S)
  PROVE  TotalOver([k \in S |-> Cardinality({i \in I : key[i] = k})], S)
           = Cardinality({i \in I : key[i] \in S})
<1> DEFINE Part(s) == {i \in I : key[i] \in s}
           One(k) == {i \in I : key[i] = k}
           f == [k \in S |-> Cardinality(One(k))]
<1>1. ASSUME NEW s PROVE IsFiniteSet(Part(s)) /\ Cardinality(Part(s)) \in Nat
  <2>1. Part(s) \subseteq I
    OBVIOUS
  <2> QED BY <2>1, FS_Subset, FS_CardinalityType
<1>2. ASSUME NEW k PROVE IsFiniteSet(One(k)) /\ Cardinality(One(k)) \in Nat
  <2>1. One(k) \subseteq I
    OBVIOUS
  <2> QED BY <2>1, FS_Subset, FS_CardinalityType
<1>3. f \in [S -> Int] /\ \A k \in S : f[k] = Cardinality(One(k))
  <2>1. \A k \in S : Cardinality(One(k)) \in Int
    BY <1>2
  <2> HIDE DEF One
  <2> QED BY <2>1
<1> HIDE DEF f
<1>4. PICK g \in [SUBSET S -> Int] : SumRule(g, f, SUBSET S) /\ TotalOver(f, S) = g[S]
  BY <1>3, TotalSolves
<1> DEFINE Bad == {s \in SUBSET S : g[s] # Cardinality(Part(s))}
<1>5. ASSUME Bad # {} PROVE FALSE
  <2>1. PICK s \in Bad : \A t \in Bad : t \subseteq s => t = s
    <3>1. Bad \in SUBSET (SUBSET S)
      OBVIOUS
    <3> HIDE DEF Bad
    <3> QED BY <1>5, <3>1, SmallestExists
  <2>2. s \in SUBSET S /\ g[s] # Cardinality(Part(s))
    BY <2>1
  <2>3. s # {}
    <3> SUFFICES ASSUME s = {} PROVE FALSE
      OBVIOUS
    <3>1. g[s] = 0
      BY <1>4, <2>2 DEF SumRule
    <3>2. Part(s) = {}
      OBVIOUS
    <3>3. Cardinality(Part(s)) = 0
      BY <3>2, FS_EmptySet
    <3> QED BY <2>2, <3>1, <3>3
  <2> DEFINE x == Next_(s)
             r == s \ {x}
  <2>4. x \in s
    BY <2>3 DEF Next_
  <2>5. r \in SUBSET S /\ r \notin Bad /\ x \in S
    BY <2>1, <2>2, <2>4
  <2>6. g[r] = Cardinality(Part(r))
    BY <2>5
  <2>7. g[s] = f[x] + g[r]
    BY <1>4, <2>2, <2>3 DEF SumRule
  <2>8. f[x] = Cardinality(One(x))
    BY <1>3, <2>5
  <2>9. Part(s) = One(x) \cup Part(r) /\ One(x) \cap Part(r) = {}
    BY <2>4
  <2> HIDE DEF x, r, Part, One
  <2>10. Cardinality(One(x) \cup Part(r)) = Cardinality(One(x)) + Cardinality(Part(r)) - Cardinality({})
    BY <1>1, <1>2, <2>9, FS_Union
  <2>11. Cardinality({}) = 0
    BY FS_EmptySet
  <2>12. Cardinality(Part(r)) \in Nat /\ Cardinality(One(x)) \in Nat
    BY <1>1, <1>2
  <2> QED BY <2>2, <2>6, <2>7, <2>8, <2>9, <2>10, <2>11, <2>12
<1>6. S \in SUBSET S /\ S \notin Bad
  BY <1>5
<1>7. TotalOver(f, S) = Cardinality(Part(S))
  BY <1>4, <1>6
<1> QED BY <1>7 DEF f

\* As many items as decisions, where the items name their decisions.
LEMMA NamedOnce ==
  ASSUME NEW R, IsFiniteSet(R), NEW g, DOMAIN g = R,
         \A d \in R : g[d].decision = d
  PROVE  /\ IsFiniteSet({g[d] : d \in R}) /\ Cardinality({g[d] : d \in R}) = Cardinality(R)
<1> DEFINE T == {g[d] : d \in R}
           h == [d \in R |-> g[d]]
<1>1. h \in Bijection(R, T)
  <2>1. h \in [R -> T]
    OBVIOUS
  <2>2. \A d, e \in R : h[d] = h[e] => d = e
    OBVIOUS
  <2>3. \A t \in T : \E d \in R : h[d] = t
    OBVIOUS
  <2> HIDE DEF h, T
  <2>4. h \in Injection(R, T)
    BY <2>1, <2>2 DEF Injection, IsInjective
  <2>5. h \in Surjection(R, T)
    BY <2>1, <2>3 DEF Surjection
  <2> QED BY <2>4, <2>5 DEF Bijection
<1> HIDE DEF h, T
<1>2. IsFiniteSet(T) /\ Cardinality(T) = Cardinality(R)
  <2>1. ExistsBijection(R, T)
    BY <1>1 DEF ExistsBijection
  <2> QED BY <2>1, FS_Bijection
<1> QED BY <1>2 DEF T

Known == {"low", "high"}
Unknown == {"stale", "unavailable"}

\* A recorded label is a known or an unknown one, as is a context row's.
ReportTyped ==
    /\ IsFiniteSet(decisions)
    /\ \A d \in decisions : d.ts \in Nat /\ d.recorded \in {"none"} \cup Known \cup Unknown
    /\ \A r \in contextRows : r.ts \in Nat /\ r.value \in Labels
    /\ now \in Nat

LEMMA ReportTypedStep == ReportTyped /\ [OutcomesNext]_outcomeVars => ReportTyped'
<1> SUFFICES ASSUME ReportTyped, [OutcomesNext]_outcomeVars PROVE ReportTyped'
  OBVIOUS
<1> USE DEF ReportTyped
<1>1. CASE UNCHANGED outcomeVars
  BY <1>1 DEF outcomeVars
<1>2. ASSUME NEW s, NEW v, NEW p, NEW t, SaveTick(s, v, p, t) PROVE ReportTyped'
  BY <1>2 DEF SaveTick
<1>3. ASSUME NEW s, NEW v \in Labels, SaveContext(s, v) PROVE ReportTyped'
  <2> DEFINE row == [id |-> Cardinality(contextRows) + 1, series |-> s, ts |-> now, value |-> v]
  <2>1. contextRows' = contextRows \cup {row} /\ UNCHANGED <<now, decisions>>
    BY <1>3 DEF SaveContext
  <2>2. row.ts \in Nat /\ row.value \in Labels
    OBVIOUS
  <2> HIDE DEF row
  <2> QED BY <2>1, <2>2
<1>4. ASSUME NEW final \in Finals, RecordFinal(final) PROVE ReportTyped'
  <2> DEFINE d == WithTime(final, now)
  <2>1. decisions' = decisions \cup {d} /\ UNCHANGED <<now, contextRows>>
    BY <1>4 DEF RecordFinal
  <2>2. d.ts = now
    BY DEF WithTime
  <2>3. "recorded" \in DOMAIN final /\ final.recorded \in {"none"} \cup Known \cup Unknown
    BY OutcomesAssumption DEF OutcomesAssumption, Known, Unknown
  <2>4. d.recorded = final.recorded
    BY <2>3 DEF WithTime
  <2>5. IsFiniteSet(decisions')
    BY <2>1, FS_AddElement
  <2> HIDE DEF d
  <2> QED BY <2>1, <2>2, <2>3, <2>4, <2>5
<1>5. CASE Wait
  BY <1>5 DEF Wait
<1> QED BY <1>1, <1>2, <1>3, <1>4, <1>5 DEF OutcomesNext

\* The tables are empty in the beginning.
LEMMA ReportInitially == OutcomesInit => ReportTyped
  BY FS_EmptySet DEF OutcomesInit, ReportTyped

\* A row counts as available only if it is fresh.
LEMMA AvailableIsFresh ==
  ASSUME NEW history, NEW d, NEW source, Freshness(history, d, source) = "available"
  PROVE  \E r \in history : d.ts - r.ts <= MaxAge[source]
  BY DEF Freshness

\* The label of a series is known, stale or unavailable, and known only of a
\* fresh row.
LEMMA SeriesLabelled ==
  ASSUME ReportTyped, NEW history \in SUBSET contextRows, NEW d \in decisions,
         NEW source \in {"regime", "index"}
  PROVE  /\ SeriesLabel(history, d, source) \in Known \cup Unknown
         /\ SeriesLabel(history, d, source) \in Known =>
              \E r \in contextRows : /\ SourceOf(r.series) = source
                                     /\ r.ts \in d.ts - MaxAge[source] .. d.ts
<1> DEFINE newest == LatestBefore(Of(history, source), d.ts)
           status == Freshness(newest, d, source)
           values == {r.value : r \in newest}
<1>1. \A r \in newest : r \in contextRows /\ r.series = source /\ r.ts <= d.ts
  BY DEF LatestBefore, Of
<1>2. SeriesLabel(history, d, source) = IF status # "available" THEN status
                                     ELSE CHOOSE value \in values : TRUE
  BY DEF SeriesLabel
<1>3. status \in {"unavailable", "available", "stale"} /\ (newest = {} => status = "unavailable")
  BY DEF Freshness
<1>4. SourceOf(source) = source /\ MaxAge[source] \in Nat
  BY OutcomesAssumption DEF SourceOf, OutcomesAssumption
<1>5. status = "available" => \E r \in newest : d.ts - r.ts <= MaxAge[source]
  BY AvailableIsFresh
<1>6. values # {} => (CHOOSE value \in values : TRUE) \in Known \cup Unknown
  <2>1. \A v \in values : v \in Known \cup Unknown
    BY <1>1, OutcomesAssumption DEF ReportTyped, OutcomesAssumption, Known, Unknown
  <2> HIDE DEF values
  <2> QED BY <2>1
<1>7. newest # {} => values # {}
  OBVIOUS
<1> HIDE DEF newest, status, values
<1>8. SeriesLabel(history, d, source) \in Known \cup Unknown
  BY <1>2, <1>3, <1>6, <1>7 DEF Known, Unknown
<1>9. ASSUME SeriesLabel(history, d, source) \in Known
      PROVE  \E r \in contextRows : /\ SourceOf(r.series) = source
                                    /\ r.ts \in d.ts - MaxAge[source] .. d.ts
  <2>1. status = "available"
    BY <1>2, <1>3, <1>9 DEF Known
  <2>2. PICK r \in newest : d.ts - r.ts <= MaxAge[source]
    BY <1>5, <2>1
  <2>3. r \in contextRows /\ r.series = source /\ r.ts <= d.ts
    BY <1>1
  <2>4. r.ts \in Nat /\ d.ts \in Nat
    BY <2>3 DEF ReportTyped
  <2>5. r.ts \in d.ts - MaxAge[source] .. d.ts
    BY <1>4, <2>2, <2>3, <2>4
  <2> QED BY <1>4, <2>3, <2>5
<1> QED BY <1>8, <1>9

\* So is the label of the stablecoins.
LEMMA StableLabelled ==
  ASSUME ReportTyped, NEW history \in SUBSET contextRows, NEW d \in decisions
  PROVE  /\ StableLabel(history, d) \in Known \cup Unknown
         /\ StableLabel(history, d) \in Known =>
              \E r \in contextRows : /\ SourceOf(r.series) = "stable"
                                     /\ r.ts \in d.ts - MaxAge["stable"] .. d.ts
<1> DEFINE newest == UNION {LatestBefore(Of(history, c), d.ts) : c \in Coins}
           fresh == {r \in newest : Freshness({r}, d, "stable") = "available"}
           values == {r.value : r \in fresh} \ {"unavailable"}
<1>1. \A r \in newest : r \in contextRows /\ r.series \in Coins /\ r.ts <= d.ts
  BY DEF LatestBefore, Of
<1>2. StableLabel(history, d) = IF "high" \in values THEN "high"
                             ELSE IF values # {} THEN "low"
                             ELSE IF newest \ fresh # {} THEN "stale"
                             ELSE "unavailable"
  BY DEF StableLabel
<1>3. \A r \in fresh : r \in newest /\ d.ts - r.ts <= MaxAge["stable"]
  <2> SUFFICES ASSUME NEW r \in fresh PROVE d.ts - r.ts <= MaxAge["stable"]
    OBVIOUS
  <2>1. \E q \in {r} : d.ts - q.ts <= MaxAge["stable"]
    BY AvailableIsFresh
  <2> QED BY <2>1
<1>4. MaxAge["stable"] \in Nat
  BY OutcomesAssumption DEF OutcomesAssumption
<1>5. values # {} => \E r \in fresh : TRUE
  OBVIOUS
<1> HIDE DEF newest, fresh, values
<1>6. StableLabel(history, d) \in Known \cup Unknown
  BY <1>2 DEF Known, Unknown
<1>7. ASSUME StableLabel(history, d) \in Known
      PROVE  \E r \in contextRows : /\ SourceOf(r.series) = "stable"
                                    /\ r.ts \in d.ts - MaxAge["stable"] .. d.ts
  <2>1. values # {}
    BY <1>2, <1>7 DEF Known
  <2>2. PICK r \in fresh : TRUE
    BY <1>5, <2>1
  <2>3. r \in contextRows /\ r.series \in Coins /\ r.ts <= d.ts /\ d.ts - r.ts <= MaxAge["stable"]
    BY <1>1, <1>3
  <2>4. r.ts \in Nat /\ d.ts \in Nat
    BY <2>3 DEF ReportTyped
  <2>5. r.ts \in d.ts - MaxAge["stable"] .. d.ts
    BY <1>4, <2>3, <2>4
  <2> QED BY <2>3, <2>5 DEF SourceOf
<1> QED BY <1>6, <1>7

\* And of the shock state, which the regime or the index tells.
LEMMA ShockLabelled ==
  ASSUME ReportTyped, NEW history \in SUBSET contextRows, NEW d \in decisions
  PROVE  /\ ShockLabel(history, d) \in Known \cup Unknown
         /\ ShockLabel(history, d) \in Known =>
              SeriesLabel(history, d, "regime") \in Known \/ SeriesLabel(history, d, "index") \in Known
  BY SeriesLabelled DEF ShockLabel, Known, Unknown

\* A decision's label is known only if it recorded one or a fresh row has it.
LEMMA LabelsAreFresh ==
  ASSUME ReportTyped, NEW history \in SUBSET contextRows, NEW d \in decisions, NEW f \in Fields
  PROVE  /\ GovernedContext(d, history)[f] \in Known \cup Unknown
         /\ GovernedContext(d, history)[f] \in Known => d.recorded # "none" \/ Persisted(d, f)
<1> DEFINE Label(g) == IF d.recorded # "none" THEN d.recorded
                       ELSE CASE g = "vol_regime" -> SeriesLabel(history, d, "regime")
                              [] g = "shock_state" -> ShockLabel(history, d)
                              [] g = "tariff_escalation" -> SeriesLabel(history, d, "index")
                              [] g = "stablecoin_health" -> StableLabel(history, d)
           parts == {Label("vol_regime"), Label("shock_state")}
           signature == IF "stale" \in parts THEN "stale"
                        ELSE IF "unavailable" \in parts THEN "unavailable"
                        ELSE IF parts = {"low"} THEN "low" ELSE "high"
           label == GovernedContext(d, history)[f]
<1>1. label = IF f = "regime_signature" THEN signature ELSE Label(f)
  BY DEF GovernedContext
<1>2. d.recorded \in {"none"} \cup Known \cup Unknown
  BY DEF ReportTyped
<1>3. CASE d.recorded # "none"
  <2>1. \A g : Label(g) = d.recorded
    BY <1>3
  <2>2. signature \in Known \cup Unknown
    BY <2>1 DEF Known, Unknown
  <2> HIDE DEF signature, Label, label
  <2> QED BY <1>1, <1>2, <1>3, <2>1, <2>2 DEF Known, Unknown, label
<1>4. CASE d.recorded = "none"
  <2> DEFINE regime == SeriesLabel(history, d, "regime")
             index == SeriesLabel(history, d, "index")
             shock == ShockLabel(history, d)
             stable == StableLabel(history, d)
             Backed(source) == \E r \in contextRows : /\ SourceOf(r.series) = source
                                                     /\ r.ts \in d.ts - MaxAge[source] .. d.ts
  <2>1. /\ regime \in Known \cup Unknown /\ (regime \in Known => Backed("regime"))
        /\ index \in Known \cup Unknown /\ (index \in Known => Backed("index"))
    BY SeriesLabelled
  <2>2. stable \in Known \cup Unknown /\ (stable \in Known => Backed("stable"))
    BY StableLabelled
  <2>3. shock \in Known \cup Unknown /\ (shock \in Known => regime \in Known \/ index \in Known)
    BY ShockLabelled
  <2>4. /\ Label("vol_regime") = regime /\ Label("shock_state") = shock
        /\ Label("tariff_escalation") = index /\ Label("stablecoin_health") = stable
    BY <1>4
  <2>5. /\ Persisted(d, "vol_regime") <=> Backed("regime")
        /\ Persisted(d, "tariff_escalation") <=> Backed("index")
        /\ Persisted(d, "stablecoin_health") <=> Backed("stable")
        /\ Persisted(d, "shock_state") <=> Backed("regime") \/ Backed("index")
        /\ Persisted(d, "regime_signature") <=> Backed("regime")
    BY DEF Persisted
  <2>6. /\ signature \in Known \cup Unknown
        /\ signature \in Known => regime \notin Unknown
    BY <2>4 DEF Known, Unknown
  <2> HIDE DEF signature, Label, label, regime, index, shock, stable, Backed
  <2>7. \/ f = "vol_regime" /\ label = regime
        \/ f = "shock_state" /\ label = shock
        \/ f = "tariff_escalation" /\ label = index
        \/ f = "stablecoin_health" /\ label = stable
        \/ f = "regime_signature" /\ label = signature
    BY <1>1, <2>4 DEF Fields
  <2>8. label \in Known \cup Unknown
    BY <2>1, <2>2, <2>3, <2>6, <2>7
  <2>9. label \in Known => Persisted(d, f)
    BY <2>1, <2>2, <2>3, <2>5, <2>6, <2>7
  <2> QED BY <2>8, <2>9 DEF label
<1> QED BY <1>3, <1>4

\* What is read of the context are rows of it.
LEMMA HistoryIsRows ==
  ASSUME NEW start, NEW end
  PROVE  LoadContextHistory(start, end).rows \in SUBSET contextRows
<1> DEFINE Inside(source) == {r \in contextRows : SourceOf(r.series) = source
                                                  /\ start <= r.ts /\ r.ts <= end}
<1>1. LoadContextHistory(start, end).rows
        = Seeds(start) \cup UNION {FirstRows(Inside(s), ContextMaxRows) : s \in DOMAIN MaxAge}
  BY DEF LoadContextHistory
<1>2. Seeds(start) \subseteq contextRows
  BY DEF Seeds
<1>3. \A s : FirstRows(Inside(s), ContextMaxRows) \subseteq contextRows
  BY DEF FirstRows
<1> HIDE DEF Inside
<1> QED BY <1>1, <1>2, <1>3

\* The groups and the coverage that the second pass leaves in a report.
LEMMA ReportedGroups ==
  ASSUME NEW R, NEW f \in Fields
  PROVE  LET items == Pairs(R)
             report == DecisionPerformance(R)
         IN /\ report.cohorts[f] = GroupResults(items, [i \in items |-> i.context[f]])
            /\ report.coverage[f].available
                 = Cardinality(items) - Cardinality({i \in items : i.context[f] \in Unknown})
<1> DEFINE items == Pairs(R)
           summary == PerformanceSummary(items, Context(R).rows)
           report == DecisionPerformance(R)
<1>1. report = EnrichPerformanceSummary(summary, items)
  BY DEF DecisionPerformance
<1>2. PICK h, v, m, c, y, g : summary = [horizons |-> h, venue |-> v, market |-> m, cohorts |-> c,
                                         decay |-> y, coverage |-> g]
  BY DEF PerformanceSummary
<1> HIDE DEF summary, items
<1>3. /\ report.cohorts = [k \in Fields |-> ReplaceGovernedGroups(c[k],
                              GroupResults(items, [i \in items |-> i.context[k]]))]
      /\ report.coverage[f].available
           = Cardinality(items) - Cardinality({i \in items : i.context[f] \in Unknown})
  BY <1>1, <1>2 DEF EnrichPerformanceSummary, Count, Unknown
<1>4. report.cohorts[f] = GroupResults(items, [i \in items |-> i.context[f]])
  BY <1>3 DEF ReplaceGovernedGroups
<1> QED BY <1>3, <1>4 DEF items

\* The groups hold what they are said to.
LEMMA FiledGroups ==
  ASSUME NEW I, IsFiniteSet(I), NEW key, DOMAIN key = I, NEW L, IsFiniteSet(L)
  PROVE  LET groups == GroupResults(I, key)
         IN TotalOf([k \in L \cap DOMAIN groups |-> Cardinality(groups[k])])
              = Cardinality({i \in I : key[i] \in L})
<1> DEFINE groups == GroupResults(I, key)
           S == L \cap DOMAIN groups
           f == [k \in S |-> Cardinality(groups[k])]
           g == [k \in S |-> Cardinality({i \in I : key[i] = k})]
<1>1. DOMAIN groups = {key[i] : i \in I} /\ \A k \in S : groups[k] = {i \in I : key[i] = k}
  BY DEF GroupResults
<1>2. f = g
  <2> HIDE DEF groups, S
  <2>1. \A k \in S : Cardinality(groups[k]) = Cardinality({i \in I : key[i] = k})
    BY <1>1
  <2> QED BY <2>1, Zenon
<1>3. IsFiniteSet(S)
  BY FS_Subset
<1>4. DOMAIN f = S
  OBVIOUS
<1>5. TotalOf(f) = TotalOver(f, S)
  <2> HIDE DEF f, S
  <2> QED BY <1>4 DEF TotalOf, TotalOver
<1>6. {i \in I : key[i] \in S} = {i \in I : key[i] \in L}
  BY <1>1
<1> HIDE DEF S
<1>7. TotalOver(g, S) = Cardinality({i \in I : key[i] \in S})
  BY <1>3, FiledCount
<1> QED BY <1>2, <1>5, <1>6, <1>7 DEF S

\* NamedCohortsAreFresh, of a window and a field.
LEMMA CohortsOfWindow ==
  ASSUME ReportTyped, NEW R \in SUBSET decisions, NEW f \in Fields
  PROVE  LET report == DecisionPerformance(R)
             groups == report.cohorts[f]
             Filed(labels) == TotalOf([k \in labels \cap DOMAIN groups |-> Cardinality(groups[k])])
             named == Filed({"low", "high"})
         IN /\ Filed({"low", "high", "stale", "unavailable"}) = Cardinality(R)
            /\ named = report.coverage[f].available
            /\ named <= Count(R, LAMBDA d : d.recorded # "none" \/ Persisted(d, f))
<1> DEFINE items == Pairs(R)
           report == DecisionPerformance(R)
           groups == report.cohorts[f]
           Filed(labels) == TotalOf([k \in labels \cap DOMAIN groups |-> Cardinality(groups[k])])
           key == [i \in items |-> i.context[f]]
           history == Context(R).rows
           loaded == LoadBatch(R)
           g == [d \in R |-> [decision |-> d, outcome |-> [h \in Horizons |-> Outcome(d, loaded[d][h])],
                              context |-> GovernedContext(d, history)]]
           label == [d \in R |-> GovernedContext(d, history)[f]]
<1>1. groups = GroupResults(items, key)
      /\ report.coverage[f].available
           = Cardinality(items) - Cardinality({i \in items : i.context[f] \in Unknown})
  BY ReportedGroups
<1>2. IsFiniteSet(R)
  BY FS_Subset DEF ReportTyped
<1>3. /\ items = {g[d] : d \in R} /\ DOMAIN g = R
      /\ \A d \in R : g[d].decision = d /\ g[d].context[f] = label[d]
  BY DEF Pairs
<1>4. history \in SUBSET contextRows
  BY HistoryIsRows DEF Context
<1>5. \A d \in R : /\ label[d] \in Known \cup Unknown
                   /\ label[d] \in Known => d.recorded # "none" \/ Persisted(d, f)
  BY <1>4, LabelsAreFresh
<1>6. DOMAIN key = items /\ \A i \in items : key[i] = i.context[f]
  OBVIOUS
<1> DEFINE avail == report.coverage[f].available
<1> HIDE DEF items, report, g, label, key, history, loaded, avail
<1>7. IsFiniteSet(items) /\ Cardinality(items) = Cardinality(R)
  BY <1>2, <1>3, NamedOnce
<1>8. ASSUME NEW L, IsFiniteSet(L) PROVE Filed(L) = Cardinality({i \in items : key[i] \in L})
  BY <1>1, <1>6, <1>7, <1>8, FiledGroups
<1> DEFINE A == {i \in items : key[i] \in Known}
           B == {i \in items : key[i] \in Unknown}
           D == {d \in R : label[d] \in Known}
           E == {d \in R : d.recorded # "none" \/ Persisted(d, f)}
<1>9. \A i \in items : key[i] \in Known \cup Unknown
  BY <1>3, <1>5, <1>6
<1>10. /\ IsFiniteSet(A) /\ IsFiniteSet(B) /\ A \cup B = items /\ A \cap B = {}
       /\ IsFiniteSet(D) /\ IsFiniteSet(E) /\ D \subseteq E
  <2>1. A \subseteq items /\ B \subseteq items /\ D \subseteq R /\ E \subseteq R
    OBVIOUS
  <2>2. A \cup B = items /\ A \cap B = {}
    BY <1>9 DEF Known, Unknown
  <2>3. D \subseteq E
    BY <1>5
  <2> QED BY <1>2, <1>7, <2>1, <2>2, <2>3, FS_Subset
<1>11. A = {g[d] : d \in D}
  BY <1>3, <1>6
<1>12. Cardinality(A) = Cardinality(D)
  <2> DEFINE h == [d \in D |-> g[d]]
  <2>1. DOMAIN h = D /\ \A d \in D : h[d].decision = d
    BY <1>3
  <2>2. {h[d] : d \in D} = A
    BY <1>11
  <2> HIDE DEF A, D, h
  <2>3. Cardinality({h[d] : d \in D}) = Cardinality(D)
    BY <1>10, <2>1, NamedOnce
  <2> QED BY <2>2, <2>3
<1>13. Cardinality(items) = Cardinality(A) + Cardinality(B)
  <2> HIDE DEF A, B
  <2>1. Cardinality(A \cup B) = Cardinality(A) + Cardinality(B) - Cardinality({})
    BY <1>10, FS_Union
  <2>2. Cardinality({}) = 0 /\ Cardinality(A) \in Nat /\ Cardinality(B) \in Nat
    BY <1>10, FS_EmptySet, FS_CardinalityType
  <2> QED BY <1>10, <2>1, <2>2
<1>14. B = {i \in items : i.context[f] \in Unknown}
  BY <1>6
<1>15. avail = Cardinality(items) - Cardinality(B)
  BY <1>1, <1>14 DEF avail
<1>16. IsFiniteSet({"low", "high"}) /\ IsFiniteSet({"low", "high", "stale", "unavailable"})
  <2>1. \A a, b : IsFiniteSet({a, b})
    <3> TAKE a, b
    <3>1. IsFiniteSet({a}) /\ {a, b} = {a} \cup {b}
      BY FS_Singleton
    <3> QED BY <3>1, FS_AddElement
  <2>2. IsFiniteSet({"low", "high"}) /\ IsFiniteSet({"stale", "unavailable"})
    BY <2>1
  <2>3. {"low", "high", "stale", "unavailable"} = {"low", "high"} \cup {"stale", "unavailable"}
    OBVIOUS
  <2>4. IsFiniteSet({"low", "high"} \cup {"stale", "unavailable"})
    BY <2>2, FS_Union, Zenon
  <2> QED BY <2>2, <2>3, <2>4, Zenon
<1>17. Filed({"low", "high"}) = Cardinality(A)
  BY <1>8, <1>16 DEF Known
<1>18. Filed({"low", "high", "stale", "unavailable"}) = Cardinality(items)
  <2>1. {i \in items : key[i] \in {"low", "high", "stale", "unavailable"}} = items
    BY <1>9 DEF Known, Unknown
  <2> QED BY <1>8, <1>16, <2>1
<1>19. Cardinality(D) <= Cardinality(E)
  <2> HIDE DEF D, E
  <2> QED BY <1>10, FS_Subset
<1>20. Cardinality(E) = Count(R, LAMBDA d : d.recorded # "none" \/ Persisted(d, f))
  BY DEF Count
<1>21. Cardinality(A) \in Nat /\ Cardinality(B) \in Nat
  BY <1>10, FS_CardinalityType
<1> HIDE DEF A, B, D, E
<1>22. /\ Filed({"low", "high", "stale", "unavailable"}) = Cardinality(R)
       /\ Filed({"low", "high"}) = avail
       /\ Filed({"low", "high"}) <= Count(R, LAMBDA d : d.recorded # "none" \/ Persisted(d, f))
  BY <1>7, <1>12, <1>13, <1>15, <1>17, <1>18, <1>19, <1>20, <1>21
<1> QED BY <1>22 DEF avail, report

\* NamedCohortsAreFresh: in every report, each kind of cohort holds every
\* decision of the window once, its named groups hold what the coverage calls
\* available, and no more than recorded their context or have a fresh row.
THEOREM CohortsAreFresh == OutcomesSpec => []NamedCohortsAreFresh
<1>1. ReportTyped => NamedCohortsAreFresh
  <2> SUFFICES ASSUME ReportTyped, NEW w \in Windows, NEW f \in Fields
               PROVE  LET R == Listed(w[1], w[2])
                          report == DecisionPerformance(R)
                          groups == report.cohorts[f]
                          Filed(labels) == TotalOf([k \in labels \cap DOMAIN groups |->
                                                        Cardinality(groups[k])])
                          named == Filed({"low", "high"})
                      IN /\ Filed({"low", "high", "stale", "unavailable"}) = Cardinality(R)
                         /\ named = report.coverage[f].available
                         /\ named <= Count(R, LAMBDA d : d.recorded # "none" \/ Persisted(d, f))
    BY DEF NamedCohortsAreFresh
  <2>1. Listed(w[1], w[2]) \in SUBSET decisions
    BY DEF Listed
  <2> QED BY <2>1, CohortsOfWindow
<1> QED BY <1>1, ReportInitially, ReportTypedStep, PTL DEF OutcomesSpec

Longest == Max({HorizonOf[h] : h \in Horizons})

\* The longest horizon is the longest.
LEMMA LongestIs == /\ Longest \in Nat /\ \A h \in Horizons : HorizonOf[h] <= Longest
<1> DEFINE S == {HorizonOf[h] : h \in Horizons}
<1>1. IsFiniteSet(S)
  BY OutcomesAssumption, Images DEF OutcomesAssumption, Horizons
<1>2. S # {} /\ S \subseteq Nat /\ S \subseteq Int
  BY OutcomesAssumption DEF OutcomesAssumption, Horizons
<1>3. \A h \in Horizons : HorizonOf[h] \in S
  OBVIOUS
<1> HIDE DEF S
<1>4. PICK x \in S : \A y \in S : y <= x
  BY <1>1, <1>2, GreatestExists
<1>5. Max(S) \in S /\ \A y \in S : Max(S) >= y
  <2>1. \A y \in S : x >= y
    BY <1>2, <1>4
  <2> QED BY <2>1 DEF Max
<1>6. Longest = Max(S)
  BY DEF Longest, S
<1> QED BY <1>2, <1>3, <1>5, <1>6

\* What a step adds to the tables comes after every window that has closed.
LEMMA AddedLater ==
  ASSUME ReportTyped, [OutcomesNext]_outcomeVars, NEW end \in Int, Closed(end)
  PROVE  /\ decisions \subseteq decisions' /\ \A d \in decisions' \ decisions : d.ts > end
         /\ contextRows \subseteq contextRows'
         /\ \A r \in contextRows' \ contextRows : r.ts \in Nat /\ r.ts > end
         /\ ticks \subseteq ticks'
         /\ \A t \in ticks' \ ticks : t.ts \in Int /\ t.ts > end + Longest + Tolerance
<1>1. end + Longest + Tolerance + Delay < now /\ now \in Nat
  BY DEF Closed, Longest, ReportTyped
<1>2. Longest \in Nat /\ Tolerance \in Nat /\ Delay \in Nat
  BY LongestIs, OutcomesAssumption DEF OutcomesAssumption
<1>3. now > end
  BY <1>1, <1>2
<1>4. CASE UNCHANGED outcomeVars
  BY <1>4 DEF outcomeVars
<1>5. ASSUME NEW s, NEW v, NEW p, NEW t \in now - Delay .. now, SaveTick(s, v, p, t)
      PROVE  /\ ticks \subseteq ticks' /\ UNCHANGED <<decisions, contextRows>>
             /\ \A k \in ticks' \ ticks : k.ts \in Int /\ k.ts > end + Longest + Tolerance
  <2>1. t \in Int /\ t > end + Longest + Tolerance
    BY <1>1, <1>2
  <2>2. \A k \in ticks' \ ticks : k.ts = t
    BY <1>5 DEF SaveTick
  <2> QED BY <1>5, <2>1, <2>2 DEF SaveTick
<1>6. ASSUME NEW s, NEW v, SaveContext(s, v)
      PROVE  /\ contextRows \subseteq contextRows' /\ UNCHANGED <<decisions, ticks>>
             /\ \A r \in contextRows' \ contextRows : r.ts = now
  BY <1>6 DEF SaveContext
<1>7. ASSUME NEW final, RecordFinal(final)
      PROVE  /\ decisions \subseteq decisions' /\ UNCHANGED <<contextRows, ticks>>
             /\ \A d \in decisions' \ decisions : d.ts = now
  BY <1>7 DEF RecordFinal, WithTime
<1>8. CASE Wait
  BY <1>8 DEF Wait
<1> QED BY <1>1, <1>3, <1>4, <1>5, <1>6, <1>7, <1>8 DEF OutcomesNext

\* What is loaded of closed windows, whatever is added later.
LEMMA ClosedLoads ==
  ASSUME ReportTyped, NEW end \in Int, NEW R \in SUBSET decisions, R # {},
         \A d \in R : d.ts <= end,
         contextRows \subseteq contextRows',
         \A r \in contextRows' \ contextRows : r.ts \in Nat /\ r.ts > end,
         ticks \subseteq ticks',
         \A t \in ticks' \ ticks : t.ts \in Int /\ t.ts > end + Longest + Tolerance
  PROVE  /\ LoadBatch(R)' = LoadBatch(R)
         /\ Context(R)' = Context(R)
         /\ \A d \in R : LoadHorizonPrices(d)' = LoadHorizonPrices(d)
<1>1. \A d \in R, h \in Horizons : /\ Target(d, h) \in Nat /\ d.ts \in Nat
                                   /\ Target(d, h) <= end + Longest
  <2>1. TAKE d \in R, h \in Horizons
  <2>2. d.ts \in Nat /\ HorizonOf[h] \in Nat /\ d.ts <= end /\ HorizonOf[h] <= Longest /\ Longest \in Nat
    BY LongestIs, OutcomesAssumption DEF ReportTyped, OutcomesAssumption, Horizons
  <2> QED BY <2>2 DEF Target
<1>2. Longest \in Nat /\ Tolerance \in Nat
  BY LongestIs, OutcomesAssumption DEF OutcomesAssumption
<1>3. \A d \in R, h \in Horizons : {t \in ticks' : InWindow(t, d, h)} = {t \in ticks : InWindow(t, d, h)}
  <2>1. ASSUME NEW d \in R, NEW h \in Horizons, NEW t \in ticks' \ ticks PROVE ~InWindow(t, d, h)
    BY <1>1, <1>2 DEF InWindow, WindowEnd
  <2> QED BY <2>1
<1>4. \A d \in R : LoadHorizonPrices(d)' = LoadHorizonPrices(d)
  BY <1>3 DEF LoadHorizonPrices
<1> DEFINE targets == {Target(d, h) : d \in R, h \in Horizons}
           times == {d.ts : d \in R}
<1>5. Max(targets) \in Int /\ Max(targets) <= end + Longest
  <2> DEFINE P == R \X Horizons
             f == [p \in P |-> Target(p[1], p[2])]
  <2>1. IsFiniteSet(P)
    BY FS_Subset, FS_Product, OutcomesAssumption DEF ReportTyped, OutcomesAssumption, Horizons
  <2>2. IsFiniteSet({f[p] : p \in P})
    <3>1. DOMAIN f = P
      OBVIOUS
    <3> HIDE DEF f, P
    <3> QED BY <2>1, <3>1, Images
  <2>3. ASSUME NEW d \in R, NEW h \in Horizons PROVE Target(d, h) \in {f[p] : p \in P}
    <3>1. <<d, h>> \in P /\ f[<<d, h>>] = Target(d, h)
      OBVIOUS
    <3> HIDE DEF f, P
    <3> QED BY <3>1
  <2>4. \A x \in targets : x \in {f[p] : p \in P}
    BY <2>3
  <2>5. \A x \in targets : x \in Nat /\ x <= end + Longest
    BY <1>1
  <2>6. targets # {}
    <3>1. PICK d \in R, h \in Horizons : TRUE
      BY OutcomesAssumption DEF OutcomesAssumption, Horizons
    <3>2. Target(d, h) \in targets
      OBVIOUS
    <3> HIDE DEF targets
    <3> QED BY <3>2
  <2> HIDE DEF f, P, targets
  <2>7. IsFiniteSet(targets) /\ targets \subseteq Int
    BY <2>2, <2>4, <2>5, FS_Subset
  <2>8. PICK x \in targets : \A y \in targets : y <= x
    BY <2>6, <2>7, GreatestExists
  <2>9. Max(targets) \in targets
    <3>1. \A y \in targets : x >= y
      BY <2>7, <2>8
    <3> QED BY <3>1 DEF Max
  <2> QED BY <2>5, <2>9
<1>6. /\ Min(times) \in Nat /\ Min(times) <= end
      /\ Max(times) \in Nat /\ Max(times) <= end
  <2>1. \A x \in times : x \in Nat /\ x <= end
    BY DEF ReportTyped
  <2>2. IsFiniteSet(times)
    <3> DEFINE f == [d \in R |-> d.ts]
    <3>1. IsFiniteSet(R) /\ DOMAIN f = R
      BY FS_Subset DEF ReportTyped
    <3>2. times = {f[d] : d \in R}
      OBVIOUS
    <3> HIDE DEF f
    <3> QED BY <3>1, <3>2, Images
  <2>3. times # {}
    OBVIOUS
  <2> HIDE DEF times
  <2>4. times \subseteq Int
    BY <2>1
  <2>5. PICK x \in times : \A y \in times : x <= y
    BY <2>2, <2>3, <2>4, LeastExists
  <2>6. PICK z \in times : \A y \in times : y <= z
    BY <2>2, <2>3, <2>4, GreatestExists
  <2>7. Min(times) \in times
    BY <2>5 DEF Min
  <2>8. Max(times) \in times
    <3>1. \A y \in times : z >= y
      BY <2>4, <2>6
    <3> QED BY <3>1 DEF Max
  <2> QED BY <2>1, <2>7, <2>8
<1>7. BroadRows(R)' = BroadRows(R)
  <2> DEFINE Covered(t) == /\ t.symbol \in UNION {SymbolsOf(d) : d \in R}
                           /\ Min(targets) <= t.ts /\ t.ts <= WindowEnd(Max(targets))
  <2> HIDE DEF targets
  <2>1. \A t \in ticks' \ ticks : ~Covered(t)
    BY <1>2, <1>5 DEF WindowEnd
  <2>2. {t \in ticks' : Covered(t)} = {t \in ticks : Covered(t)}
    BY <2>1
  <2>3. /\ BroadRows(R) = FirstRows({t \in ticks : Covered(t)}, BatchMaxRows + 1)
        /\ BroadRows(R)' = FirstRows({t \in ticks' : Covered(t)}, BatchMaxRows + 1)
    BY DEF BroadRows, targets
  <2> QED BY <2>2, <2>3
<1>8. LoadBatch(R)' = LoadBatch(R)
  BY <1>4, <1>7 DEF LoadBatch
<1>9. Seeds(Min(times))' = Seeds(Min(times))
  <2> DEFINE start == Min(times)
  <2>1. start \in Nat /\ start <= end
    BY <1>6
  <2> HIDE DEF start
  <2>2. \A r \in contextRows' \ contextRows : ~(r.ts < start)
    BY <2>1
  <2>3. \A r \in contextRows' : /\ r.ts < start
                                /\ \A q \in contextRows' : q.series = r.series /\ q.ts < start => ~Earlier(r, q)
                             <=> /\ r \in contextRows /\ r.ts < start
                                 /\ \A q \in contextRows : q.series = r.series /\ q.ts < start => ~Earlier(r, q)
    BY <2>2
  <2> QED BY <2>3 DEF Seeds, start
<1>10. \A s : {r \in contextRows' : SourceOf(r.series) = s /\ Min(times) <= r.ts /\ r.ts <= Max(times)}
            = {r \in contextRows : SourceOf(r.series) = s /\ Min(times) <= r.ts /\ r.ts <= Max(times)}
  <2> HIDE DEF times
  <2>1. \A r \in contextRows' \ contextRows : ~(r.ts <= Max(times))
    BY <1>6
  <2> QED BY <2>1
<1>11. Context(R)' = Context(R)
  <2> DEFINE Inside(s) == {r \in contextRows : SourceOf(r.series) = s
                                               /\ Min(times) <= r.ts /\ r.ts <= Max(times)}
             Later(s) == {r \in contextRows' : SourceOf(r.series) = s
                                               /\ Min(times) <= r.ts /\ r.ts <= Max(times)}
  <2>1. \A s : Later(s) = Inside(s)
    BY <1>10
  <2>2. Context(R) = [rows |-> Seeds(Min(times))
                        \cup UNION {FirstRows(Inside(s), ContextMaxRows) : s \in DOMAIN MaxAge},
                      truncated |-> \E s \in DOMAIN MaxAge : Cardinality(Inside(s)) > ContextMaxRows]
    BY DEF Context, LoadContextHistory
  <2>3. Context(R)' = [rows |-> Seeds(Min(times))'
                        \cup UNION {FirstRows(Later(s), ContextMaxRows) : s \in DOMAIN MaxAge},
                      truncated |-> \E s \in DOMAIN MaxAge : Cardinality(Later(s)) > ContextMaxRows]
    BY DEF Context, LoadContextHistory
  <2> HIDE DEF Inside, Later, times
  <2> QED BY <1>9, <2>1, <2>2, <2>3
<1> QED BY <1>4, <1>8, <1>11

\* What is shown follows from what is loaded.
LEMMA ShownFollows ==
  ASSUME NEW R, LoadBatch(R)' = LoadBatch(R), Context(R)' = Context(R),
         \A d \in R : LoadHorizonPrices(d)' = LoadHorizonPrices(d)
  PROVE  /\ Pairs(R)' = Pairs(R)
         /\ \A d \in R, h \in Horizons : CounterfactualPage(d, h)' = CounterfactualPage(d, h)
<1>1. Pairs(R)' = Pairs(R)
  BY DEF Pairs
<1>2. \A d \in R : DecisionPage(d)' = DecisionPage(d)
  BY DEF DecisionPage
<1>3. \A d \in R, h \in Horizons, a \in {"allow", "block"} :
          RealizedComparison(d, a, h)' = RealizedComparison(d, a, h)
  BY <1>2 DEF RealizedComparison
<1>4. \A d \in R, h \in Horizons : CounterfactualPage(d, h)' = CounterfactualPage(d, h)
  BY <1>3 DEF CounterfactualPage
<1> QED BY <1>1, <1>4

\* ReportSettles: no step changes what a report over closed windows shows, nor
\* the pages of its decisions, whatever is stored late or after it.
THEOREM ReportsSettle == OutcomesSpec => ReportSettles
<1>1. ASSUME ReportTyped, [OutcomesNext]_outcomeVars, NEW w \in Windows, Closed(w[2])
      PROVE  Shown(w) = Shown(w)'
  <2>1. PICK start, end : w = <<start, end>> /\ start \in Nat /\ end \in Nat
    BY <1>1 DEF Windows, ReportTyped
  <2>2. PICK R : R = Listed(start, end)
    OBVIOUS
  <2>3. w[1] = start /\ w[2] = end /\ Closed(end)
    BY <1>1, <2>1
  <2>4. R \in SUBSET decisions /\ R # {} /\ \A d \in R : d.ts <= end
    BY <1>1, <2>1, <2>2, <2>3 DEF Windows, Listed, ReportTyped
  <2>5. /\ decisions \subseteq decisions' /\ \A d \in decisions' \ decisions : d.ts > end
        /\ contextRows \subseteq contextRows'
        /\ \A r \in contextRows' \ contextRows : r.ts \in Nat /\ r.ts > end
        /\ ticks \subseteq ticks'
        /\ \A t \in ticks' \ ticks : t.ts \in Int /\ t.ts > end + Longest + Tolerance
    BY <1>1, <2>1, <2>3, AddedLater
  <2>6. Listed(start, end)' = R
    <3>1. ReportTyped'
      BY <1>1, ReportTypedStep
    <3>2. \A d \in decisions' : d.ts \in Nat
      BY <3>1 DEF ReportTyped
    <3>3. \A d \in decisions' : d.ts <= end => d \in decisions
      BY <2>1, <2>5, <3>2
    <3> QED BY <2>2, <2>5, <3>3 DEF Listed
  <2>7. /\ LoadBatch(R)' = LoadBatch(R) /\ Context(R)' = Context(R)
        /\ \A d \in R : LoadHorizonPrices(d)' = LoadHorizonPrices(d)
    BY <1>1, <2>1, <2>4, <2>5, ClosedLoads
  <2>8. /\ Pairs(R)' = Pairs(R)
        /\ \A d \in R, h \in Horizons : CounterfactualPage(d, h)' = CounterfactualPage(d, h)
    BY <2>7, ShownFollows
  <2>9. Shown(w) = [pairs |-> Pairs(R),
                    pages |-> [d \in R |-> [h \in Horizons |-> CounterfactualPage(d, h)]]]
    BY <2>2, <2>3 DEF Shown
  <2>10. Shown(w)' = [pairs |-> Pairs(R)',
                      pages |-> [d \in R |-> [h \in Horizons |-> CounterfactualPage(d, h)']]]
    BY <2>3, <2>6 DEF Shown
  <2> QED BY <2>8, <2>9, <2>10
<1>2. ReportTyped /\ [OutcomesNext]_outcomeVars
        => [\A w \in Windows : Closed(w[2]) => Shown(w) = Shown(w)']_outcomeVars
  BY <1>1
<1> QED BY <1>2, ReportInitially, ReportTypedStep, PTL DEF OutcomesSpec, ReportSettles

-----------------------------------------------------------------------------
(* The desk as a whole.                                                    *)

\* A part that does not move keeps its variables.
LEMMA PartsMoveApart ==
  [DeskNext]_deskVars => /\ [Next]_vars /\ [LedgerNext]_ledgerVars
                         /\ [RegistryNext]_registryVars /\ [AuditNext]_auditVars
<1>1. CASE DeskNext
  BY <1>1, Zenon DEF DeskNext, RouterMoves, LedgerMoves, RegistryMoves, BacktestMoves, AuditMoves,
                     OutcomesMove
<1>2. CASE UNCHANGED deskVars
  BY <1>2, Zenon DEF deskVars
<1> QED BY <1>1, <1>2

\* DeskTypeOK: whichever parts of the desk move, in any order, each keeps its
\* variables within their types.
THEOREM DeskTypeCorrect == DeskSpec => []DeskTypeOK
<1>1. DeskInit => Init /\ LedgerInit /\ RegistryInit /\ AuditInit
  BY DEF DeskInit
<1> QED
  BY <1>1, PartsMoveApart, RouterTypeCorrect, LedgerTypeCorrect, RegistryTypeCorrect,
     AuditTypeCorrect, PTL
  DEF DeskSpec, Spec, LedgerSpec, RegistrySpec, AuditSpec, DeskTypeOK
=============================================================================
