--------------------------- MODULE OrderAdmission ---------------------------
(***************************************************************************)
(* POST /order: several request threads that run place_order on one        *)
(* market, against the Redis idempotency keys, the rows of order_intents   *)
(* and orders, and the position that decides what counts as a reduction.   *)
(*                                                                         *)
(* Every Redis command and every autocommitted statement is atomic, and    *)
(* everything between two of them interleaves.  A call may fail, or take   *)
(* effect and lose its answer.  The position is read when a request is     *)
(* classified, and read again by the risk engine when it is routed.        *)
(*                                                                         *)
(* The other guards of route_order are in ExecutionRouter; here they only  *)
(* let the order pass or block it.  X_F is X with the fault F; no action   *)
(* uses it.                                                                *)
(***************************************************************************)
EXTENDS Integers

CONSTANTS Request,      \* HTTP requests, retries by the client included
          Key,          \* idempotency keys
          KeyOf,        \* KeyOf[r]: key of a request; a retry keeps it
          SizeOf,       \* SizeOf[r]: signed size, negative for a sell
          Start,        \* positions that may be held at the start
          Modes,        \* values EXECUTION_MODE may have been started with
          None,         \* no request
          MaxFailures   \* bound: failing calls of a store or a venue, restarts

ASSUME AdmissionAssumption ==
    /\ KeyOf \in [Request -> Key]
    /\ SizeOf \in [Request -> Int \ {0}]
    /\ Start \subseteq Int
    /\ Modes \subseteq {"paper", "live"}
    /\ None \notin Request
    /\ MaxFailures \in Nat

VARIABLES
    mode,       \* EXECUTION_MODE
    pos,        \* position held: paper ledger or venue
    resting,    \* live orders open at the venue
    \* Redis
    idem,       \* keys claimed
    \* PostgreSQL
    intent,     \* intent[k]: request whose order_intents row has key k
    order,      \* order[r]: status of the orders row of r
    \* request threads
    pc,         \* pc[r]: next step of place_order
    exempt,     \* exempt[r]: live_risk_reduction, as classified
    claimed,    \* claimed[r]: idempotency_status is "claimed"
    owns,       \* owns[r]: create_intent returned a row
    opens,      \* opens[r]: the order added exposure when the risk engine saw it
    result,     \* result[r]: status route_order returned
    answer,     \* answer[r]: HTTP answer
    \* history and bounds
    sent,       \* requests whose order was submitted
    audited,    \* requests with a stored final decision
    lapsed,     \* keys whose claim expired
    degraded,   \* requests that went on without a claim
    failures

thread == <<pc, exempt, claimed, owns, opens, result, answer>>
history == <<sent, audited, lapsed, degraded>>
vars == <<mode, pos, resting, idem, intent, order, thread, history, failures>>

PC == {"new", "claim", "intent", "risk", "final", "submit", "record", "done"}
Results == {"none", "blocked", "filled", "open", "unknown"}

TypeOK ==
    /\ mode \in Modes
    /\ pos \in Int
    /\ resting \in SUBSET Request
    /\ idem \in SUBSET Key
    /\ intent \in [Key -> Request \cup {None}]
    /\ order \in [Request -> {"none", "rejected", "filled", "open", "submission_unknown"}]
    /\ pc \in [Request -> PC]
    /\ exempt \in [Request -> BOOLEAN]
    /\ claimed \in [Request -> BOOLEAN]
    /\ owns \in [Request -> BOOLEAN]
    /\ opens \in [Request -> BOOLEAN]
    /\ result \in [Request -> Results]
    /\ answer \in [Request -> {"none", "ok", "refused", "duplicate", "error", "lost"}]
    /\ sent \in SUBSET Request /\ audited \in SUBSET Request
    /\ lapsed \in SUBSET Key /\ degraded \in SUBSET Request
    /\ failures \in 0..MaxFailures

Init ==
    /\ mode \in Modes
    /\ pos \in Start
    /\ mode = "paper" => pos = 0
    /\ resting = {} /\ idem = {}
    /\ intent = [k \in Key |-> None]
    /\ order = [r \in Request |-> "none"]
    /\ pc = [r \in Request |-> "new"]
    /\ exempt = [r \in Request |-> FALSE]
    /\ claimed = [r \in Request |-> FALSE]
    /\ owns = [r \in Request |-> FALSE]
    /\ opens = [r \in Request |-> FALSE]
    /\ result = [r \in Request |-> "none"]
    /\ answer = [r \in Request |-> "none"]
    /\ sent = {} /\ audited = {} /\ lapsed = {} /\ degraded = {}
    /\ failures = 0

Reply == {"ok", "failed", "lost"}
Applied(a) == a # "failed"

Call(a) ==
    /\ a # "ok" => failures < MaxFailures
    /\ failures' = IF a = "ok" THEN failures ELSE failures + 1

\* Answer the request, or go on with it at l.
Answer(r, a) ==
    /\ pc' = [pc EXCEPT ![r] = "done"]
    /\ answer' = [answer EXCEPT ![r] = a]
Goto(r, l) ==
    /\ pc' = [pc EXCEPT ![r] = l]
    /\ UNCHANGED answer

\* RiskEngine._is_reducing: the order only takes from an opposite position.
Reducing(p, size) == (p > 0 /\ -size \in 1..p) \/ (p < 0 /\ size \in 1..-p)

LiveNewExposure(r) == mode = "live" /\ ~exempt[r]

-----------------------------------------------------------------------------
(* place_order, up to the router.                                          *)

\* _is_live_risk_reduction; an executor whose positions cannot be read is
\* left out.
Classify(r, a) ==
    /\ pc[r] = "new"
    /\ a # "ok" => mode = "live"
    /\ Call(a)
    /\ exempt' = [exempt EXCEPT ![r] = mode = "live" /\ a = "ok" /\ Reducing(pos, SizeOf[r])]
    /\ Goto(r, "claim")
    /\ UNCHANGED <<mode, pos, resting, idem, intent, order, claimed, owns, opens, result, history>>

\* claim_idempotency_status: SET NX EX 300.
Duplicate_OfLive(r, a) == a = "ok" /\ KeyOf[r] \in idem /\ LiveNewExposure(r)
Duplicate(r, a) == a = "ok" /\ KeyOf[r] \in idem

ClaimIdempotency(r, a) ==
    /\ pc[r] = "claim"
    /\ Call(a)
    /\ idem' = IF Applied(a) THEN idem \cup {KeyOf[r]} ELSE idem
    /\ claimed' = [claimed EXCEPT ![r] = a = "ok" /\ KeyOf[r] \notin idem]
    /\ degraded' = IF a # "ok" THEN degraded \cup {r} ELSE degraded
    /\ IF Duplicate(r, a) THEN Answer(r, "duplicate")
       ELSE IF a # "ok" /\ LiveNewExposure(r) THEN Answer(r, "refused")
       ELSE Goto(r, "intent")
    /\ UNCHANGED <<mode, pos, resting, intent, order, exempt, owns, opens, result,
                   sent, audited, lapsed>>

\* INSERT ... ON CONFLICT (idempotency_key) DO NOTHING returns a row to the
\* request whose insert was the first.
Inserted_Upsert(r, a) == a = "ok"
Inserted(r, a) == a = "ok" /\ intent[KeyOf[r]] = None

\* Live new exposure without an intent is refused, and gives its claim back
\* if Redis is up.
CreateIntent(r, a, up) ==
    /\ pc[r] = "intent"
    /\ Call(a)
    /\ LET k == KeyOf[r]
           refused == LiveNewExposure(r) /\ ~Inserted(r, a)
       IN /\ intent' = IF Applied(a) /\ intent[k] = None
                         THEN [intent EXCEPT ![k] = r] ELSE intent
          /\ owns' = [owns EXCEPT ![r] = Inserted(r, a)]
          /\ idem' = IF refused /\ claimed[r] /\ up THEN idem \ {k} ELSE idem
          /\ IF refused THEN Answer(r, "refused") ELSE Goto(r, "risk")
    /\ UNCHANGED <<mode, pos, resting, order, exempt, claimed, opens, result, history>>

-----------------------------------------------------------------------------
(* route_order.                                                            *)

\* check_constraints reads the positions anew; nothing but a guard before it
\* blocks a reduction.
CheckRisk(r, pass) ==
    /\ pc[r] = "risk"
    /\ opens' = [opens EXCEPT ![r] = ~Reducing(pos, SizeOf[r])]
    /\ result' = [result EXCEPT ![r] = IF pass THEN "none" ELSE "blocked"]
    /\ Goto(r, IF pass THEN "final" ELSE "record")
    /\ UNCHANGED <<mode, pos, resting, idem, intent, order, exempt, claimed, owns, history, failures>>

\* An allowed live order that adds exposure needs its final decision stored.
NeedsAudit_Classified(r) == LiveNewExposure(r)
NeedsAudit(r) == mode = "live" /\ opens[r]

FinalDecision(r, a) ==
    /\ pc[r] = "final"
    /\ Call(a)
    /\ audited' = IF Applied(a) THEN audited \cup {r} ELSE audited
    /\ IF a # "ok" /\ NeedsAudit(r) THEN Answer(r, "error") ELSE Goto(r, "submit")
    /\ UNCHANGED <<mode, pos, resting, idem, intent, order, exempt, claimed, owns, opens, result,
                   sent, lapsed, degraded>>

\* A paper order fills at once.  A live one fills, rests at the venue, or
\* raises after it may have got there.
Submit(r, status, reached) ==
    /\ pc[r] = "submit"
    /\ mode = "paper" => status = "filled"
    /\ status # "unknown" => reached
    /\ status = "unknown" => failures < MaxFailures
    /\ failures' = IF status = "unknown" THEN failures + 1 ELSE failures
    /\ sent' = IF reached THEN sent \cup {r} ELSE sent
    /\ pos' = IF status = "filled" THEN pos + SizeOf[r] ELSE pos
    /\ resting' = IF reached /\ status # "filled" THEN resting \cup {r} ELSE resting
    /\ result' = [result EXCEPT ![r] = status]
    /\ Goto(r, "record")
    /\ UNCHANGED <<mode, idem, intent, order, exempt, claimed, owns, opens, audited, lapsed, degraded>>

-----------------------------------------------------------------------------
(* _persist_execution_result.                                              *)

DurableStatus(s) ==
    IF s = "blocked" THEN "rejected" ELSE IF s = "unknown" THEN "submission_unknown" ELSE s

\* create_order; without a row the answer says that persistence is degraded.
RecordOrder(r, a) ==
    /\ pc[r] = "record"
    /\ Call(a)
    /\ order' = IF Applied(a) THEN [order EXCEPT ![r] = DurableStatus(result[r])] ELSE order
    /\ Answer(r, IF result[r] = "blocked" THEN "refused" ELSE "ok")
    /\ UNCHANGED <<mode, pos, resting, idem, intent, exempt, claimed, owns, opens, result, history>>

-----------------------------------------------------------------------------
(* The environment.                                                        *)

VenueFill(r) ==
    /\ r \in resting
    /\ resting' = resting \ {r}
    /\ pos' = pos + SizeOf[r]
    /\ UNCHANGED <<mode, idem, intent, order, thread, history, failures>>

\* The TTL of a claim runs out, or a restarted Redis has lost it.
IdempotencyExpires(k) ==
    /\ k \in idem
    /\ idem' = idem \ {k}
    /\ lapsed' = lapsed \cup {k}
    /\ UNCHANGED <<mode, pos, resting, intent, order, thread, sent, audited, degraded, failures>>

\* The server restarts: requests in progress get no answer, and the paper
\* ledger starts empty.  The venue, Redis and PostgreSQL keep what they have.
Restart ==
    /\ failures < MaxFailures
    /\ failures' = failures + 1
    /\ pos' = IF mode = "paper" THEN 0 ELSE pos
    /\ LET cut(r) == pc[r] \notin {"new", "done"}
       IN /\ pc' = [r \in Request |-> IF cut(r) THEN "done" ELSE pc[r]]
          /\ answer' = [r \in Request |-> IF cut(r) THEN "lost" ELSE answer[r]]
    /\ UNCHANGED <<mode, resting, idem, intent, order, exempt, claimed, owns, opens, result, history>>

PlaceOrder(r) ==
    \/ \E a \in {"ok", "failed"} : Classify(r, a)
    \/ \E a \in Reply : ClaimIdempotency(r, a)
    \/ \E a \in Reply, up \in BOOLEAN : CreateIntent(r, a, up)
    \/ \E pass \in BOOLEAN : CheckRisk(r, pass)
    \/ \E a \in Reply : FinalDecision(r, a)
    \/ \E status \in {"filled", "open", "unknown"}, reached \in BOOLEAN : Submit(r, status, reached)
    \/ \E a \in Reply : RecordOrder(r, a)

Next ==
    \/ \E r \in Request : PlaceOrder(r) \/ VenueFill(r)
    \/ \E k \in Key : IdempotencyExpires(k)
    \/ Restart

Spec == Init /\ [][Next]_vars

-----------------------------------------------------------------------------
(* Properties.                                                             *)

\* A live order that was admitted as new exposure is submitted at most once
\* per idempotency key, however often the client retries: also after the
\* Redis key expired, and after a restart or a lost answer.
LiveOncePerKey ==
    \A r, s \in sent :
        LiveNewExposure(r) /\ LiveNewExposure(s) /\ KeyOf[r] = KeyOf[s] => r = s

\* Any other order is submitted twice under one key only when the claim
\* expired in between or one of the two went on without Redis.
RepeatNeedsLapse ==
    \A r, s \in sent :
        KeyOf[r] = KeyOf[s] /\ r # s =>
            KeyOf[r] \in lapsed \/ r \in degraded \/ s \in degraded

\* What has reached the venue can be found again: new exposure has its own
\* intent row and its final decision stored before, and whoever is told that
\* nothing happened (4xx, 5xx, a rejected row) was not submitted.
SubmissionOnRecord ==
    /\ \A r \in sent :
        /\ LiveNewExposure(r) => intent[KeyOf[r]] = r
        /\ mode = "live" /\ opens[r] => r \in audited
    /\ \A r \in Request :
        answer[r] \in {"refused", "duplicate", "error"} \/ order[r] = "rejected" => r \notin sent

\* "Live new exposure now requires a confirmed Redis idempotency claim and
\* durable order-intent persistence before routing."
NewExposureAdmitted ==
    \A r \in sent : mode = "live" /\ opens[r] => claimed[r] /\ owns[r]
=============================================================================
