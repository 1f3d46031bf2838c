------------------------ MODULE OrderAdmissionProofs ------------------------
(***************************************************************************)
(* For any requests, keys, sizes and positions, and any bound on failures: *)
(* live new exposure is submitted once per key, other repeats need a       *)
(* lapsed or missing claim, and whatever was submitted is on record.       *)
(*                                                                         *)
(* The intent row carries the first fact: it is never deleted, and a       *)
(* request past create_intent owns it (OwnIntent).  The second follows the *)
(* Redis claim, which is in Redis or has lapsed as long as its request may *)
(* still submit (ClaimKept), so two live claims of a key need a lapse      *)
(* (ClaimsApart).                                                          *)
(***************************************************************************)
EXTENDS OrderAdmission, TLAPS

Routed(r) == pc[r] \in {"risk", "final", "submit"} \/ r \in sent
Active(r) == pc[r] \in {"intent", "record"} \/ Routed(r)

\* Where a request stands is what its answer, row and result say.
Progress ==
    \A r \in Request :
        /\ answer[r] # "none" \/ order[r] # "none" => pc[r] = "done"
        /\ order[r] = "rejected" => result[r] = "blocked"
        /\ r \in sent => /\ pc[r] \in {"record", "done"}
                         /\ result[r] # "blocked"
                         /\ answer[r] \in {"none", "ok", "lost"}

\* A routed request that was classified as live new exposure owns its intent.
OwnIntent ==
    \A r \in Request : Routed(r) /\ LiveNewExposure(r) => intent[KeyOf[r]] = r

\* Added exposure has its final decision stored before it is submitted.
Audited ==
    \A r \in Request :
        mode = "live" /\ opens[r] /\ (pc[r] = "submit" \/ r \in sent) => r \in audited

\* A request between its claim and its answer has its key claimed, unless Redis
\* could not give the claim or it lapsed.
ClaimKept ==
    \A r \in Request : Active(r) =>
        /\ claimed[r] \/ r \in degraded
        /\ claimed[r] => KeyOf[r] \in idem \cup lapsed

\* Two of them share a key only if a claim of it lapsed.
ClaimsApart ==
    \A r, s \in Request :
        Active(r) /\ Active(s) /\ claimed[r] /\ claimed[s] /\ KeyOf[r] = KeyOf[s] /\ r # s
            => KeyOf[r] \in lapsed

IInv == TypeOK /\ Progress /\ OwnIntent /\ Audited /\ ClaimKept /\ ClaimsApart

\* A call to the database or to Redis keeps the failure count within its bound.
LEMMA CallType ==
  ASSUME NEW a \in Reply, failures \in 0..MaxFailures, Call(a)
  PROVE  failures' \in 0..MaxFailures
  BY AdmissionAssumption DEF Call, AdmissionAssumption

\* The invariant holds before any request.
LEMMA InitInv == Init => IInv
  BY AdmissionAssumption DEF AdmissionAssumption, Init, IInv, TypeOK, PC, Results, Progress, OwnIntent,
     Audited, ClaimKept, ClaimsApart, Routed, Active

-----------------------------------------------------------------------------
(* Types.                                                                  *)

\* Every step keeps the types,
LEMMA TypeStep == TypeOK /\ [Next]_vars => TypeOK'
<1> SUFFICES ASSUME TypeOK, [Next]_vars PROVE TypeOK'
  OBVIOUS
<1> USE DEF TypeOK, PC, Results, Goto, Answer, thread, history
<1>1. ASSUME NEW r \in Request, NEW a \in {"ok", "failed"}, Classify(r, a) PROVE TypeOK'
  <2>1. failures' \in 0..MaxFailures
    BY <1>1, CallType DEF Classify, Reply
  <2> QED
    BY <1>1, <2>1 DEF Classify
<1>2. ASSUME NEW r \in Request, NEW a \in Reply, ClaimIdempotency(r, a) PROVE TypeOK'
  <2>1. failures' \in 0..MaxFailures
    BY <1>2, CallType DEF ClaimIdempotency
  <2>2. KeyOf[r] \in Key
    BY AdmissionAssumption DEF AdmissionAssumption
  <2>3. idem' \in SUBSET Key /\ degraded' \in SUBSET Request
    BY <1>2, <2>2 DEF ClaimIdempotency
  <2>4. claimed' \in [Request -> BOOLEAN]
    BY <1>2 DEF ClaimIdempotency
  <2>5. pc' \in [Request -> PC] /\ answer' \in [Request -> {"none", "ok", "refused", "duplicate", "error", "lost"}]
    BY <1>2 DEF ClaimIdempotency
  <2> QED
    BY <1>2, <2>1, <2>3, <2>4, <2>5 DEF ClaimIdempotency
<1>3. ASSUME NEW r \in Request, NEW a \in Reply, NEW up \in BOOLEAN, CreateIntent(r, a, up) PROVE TypeOK'
  <2>1. failures' \in 0..MaxFailures
    BY <1>3, CallType DEF CreateIntent
  <2> QED
    BY <1>3, <2>1 DEF CreateIntent, Inserted
<1>4. ASSUME NEW r \in Request, NEW pass \in BOOLEAN, CheckRisk(r, pass) PROVE TypeOK'
  BY <1>4 DEF CheckRisk, Reducing
<1>5. ASSUME NEW r \in Request, NEW a \in Reply, FinalDecision(r, a) PROVE TypeOK'
  <2>1. failures' \in 0..MaxFailures
    BY <1>5, CallType DEF FinalDecision
  <2> QED
    BY <1>5, <2>1 DEF FinalDecision
<1>6. ASSUME NEW r \in Request, NEW status \in {"filled", "open", "unknown"}, NEW reached \in BOOLEAN,
             Submit(r, status, reached) PROVE TypeOK'
  BY <1>6, AdmissionAssumption DEF Submit, AdmissionAssumption
<1>7. ASSUME NEW r \in Request, NEW a \in Reply, RecordOrder(r, a) PROVE TypeOK'
  <2>1. failures' \in 0..MaxFailures
    BY <1>7, CallType DEF RecordOrder
  <2>2. DurableStatus(result[r]) \in {"none", "rejected", "filled", "open", "submission_unknown"}
    BY DEF DurableStatus
  <2>3. order' \in [Request -> {"none", "rejected", "filled", "open", "submission_unknown"}]
    BY <1>7, <2>2 DEF RecordOrder
  <2>4. pc' \in [Request -> PC] /\ answer' \in [Request -> {"none", "ok", "refused", "duplicate", "error", "lost"}]
    BY <1>7 DEF RecordOrder
  <2> QED
    BY <1>7, <2>1, <2>3, <2>4 DEF RecordOrder
<1>8. ASSUME NEW r \in Request, VenueFill(r) PROVE TypeOK'
  BY <1>8, AdmissionAssumption DEF VenueFill, AdmissionAssumption
<1>9. ASSUME NEW k \in Key, IdempotencyExpires(k) PROVE TypeOK'
  BY <1>9 DEF IdempotencyExpires
<1>10. CASE Restart
  BY <1>10, AdmissionAssumption DEF Restart, AdmissionAssumption
<1>11. CASE UNCHANGED vars
  BY <1>11 DEF vars
<1> QED
  BY <1>1, <1>2, <1>3, <1>4, <1>5, <1>6, <1>7, <1>8, <1>9, <1>10, <1>11 DEF Next, PlaceOrder

-----------------------------------------------------------------------------
(* One lemma per part of the invariant.                                    *)

\* what a request has done at each of its steps,
LEMMA ProgressStep == TypeOK /\ Progress /\ [Next]_vars => Progress'
<1> SUFFICES ASSUME TypeOK, Progress, [Next]_vars PROVE Progress'
  OBVIOUS
<1> USE DEF TypeOK, Progress, Goto, Answer, thread, history
<1>1. ASSUME NEW r \in Request, NEW a \in {"ok", "failed"}, Classify(r, a) PROVE Progress'
  BY <1>1 DEF Classify
<1>2. ASSUME NEW r \in Request, NEW a \in Reply, ClaimIdempotency(r, a) PROVE Progress'
  BY <1>2 DEF ClaimIdempotency, Duplicate
<1>3. ASSUME NEW r \in Request, NEW a \in Reply, NEW up \in BOOLEAN, CreateIntent(r, a, up) PROVE Progress'
  BY <1>3 DEF CreateIntent, Inserted
<1>4. ASSUME NEW r \in Request, NEW pass \in BOOLEAN, CheckRisk(r, pass) PROVE Progress'
  BY <1>4 DEF CheckRisk
<1>5. ASSUME NEW r \in Request, NEW a \in Reply, FinalDecision(r, a) PROVE Progress'
  BY <1>5 DEF FinalDecision, NeedsAudit
<1>6. ASSUME NEW r \in Request, NEW status \in {"filled", "open", "unknown"}, NEW reached \in BOOLEAN,
             Submit(r, status, reached) PROVE Progress'
  BY <1>6 DEF Submit
<1>7. ASSUME NEW r \in Request, NEW a \in Reply, RecordOrder(r, a) PROVE Progress'
  BY <1>7 DEF RecordOrder, DurableStatus, Results
<1>8. ASSUME NEW r \in Request, VenueFill(r) PROVE Progress'
  BY <1>8 DEF VenueFill
<1>9. ASSUME NEW k \in Key, IdempotencyExpires(k) PROVE Progress'
  BY <1>9 DEF IdempotencyExpires
<1>10. CASE Restart
  BY <1>10 DEF Restart
<1>11. CASE UNCHANGED vars
  BY <1>11 DEF vars
<1> HIDE DEF TypeOK, Progress, Goto, Answer, thread, history
<1> QED
  BY <1>1, <1>2, <1>3, <1>4, <1>5, <1>6, <1>7, <1>8, <1>9, <1>10, <1>11 DEF Next, PlaceOrder

\* the ownership of intents,
LEMMA OwnIntentStep == TypeOK /\ Progress /\ OwnIntent /\ [Next]_vars => OwnIntent'
<1> SUFFICES ASSUME TypeOK, Progress, OwnIntent, [Next]_vars PROVE OwnIntent'
  OBVIOUS
<1> USE DEF TypeOK, Progress, OwnIntent, Routed, LiveNewExposure, Goto, Answer, thread, history
<1>1. ASSUME NEW r \in Request, NEW a \in {"ok", "failed"}, Classify(r, a) PROVE OwnIntent'
  BY <1>1 DEF Classify
<1>2. ASSUME NEW r \in Request, NEW a \in Reply, ClaimIdempotency(r, a) PROVE OwnIntent'
  BY <1>2 DEF ClaimIdempotency, Duplicate
<1>3. ASSUME NEW r \in Request, NEW a \in Reply, NEW up \in BOOLEAN, CreateIntent(r, a, up) PROVE OwnIntent'
  <2>1. KeyOf[r] \in Key /\ None \notin Request
    BY AdmissionAssumption DEF AdmissionAssumption
  <2>2. intent' = IF Applied(a) /\ intent[KeyOf[r]] = None THEN [intent EXCEPT ![KeyOf[r]] = r] ELSE intent
    BY <1>3 DEF CreateIntent
  <2>3. \A q \in Request : intent[KeyOf[q]] = q => intent'[KeyOf[q]] = q
    BY <2>1, <2>2
  <2>4. Inserted(r, a) => intent'[KeyOf[r]] = r
    BY <2>1, <2>2 DEF Inserted, Applied
  <2>5. LiveNewExposure(r) /\ ~Inserted(r, a) => pc'[r] = "done"
    BY <1>3 DEF CreateIntent
  <2>6. UNCHANGED <<mode, exempt, sent>> /\ pc[r] = "intent" /\ \A q \in Request : q # r => pc'[q] = pc[q]
    BY <1>3 DEF CreateIntent
  <2> QED
    BY <2>3, <2>4, <2>5, <2>6
<1>4. ASSUME NEW r \in Request, NEW pass \in BOOLEAN, CheckRisk(r, pass) PROVE OwnIntent'
  BY <1>4 DEF CheckRisk
<1>5. ASSUME NEW r \in Request, NEW a \in Reply, FinalDecision(r, a) PROVE OwnIntent'
  BY <1>5 DEF FinalDecision, NeedsAudit
<1>6. ASSUME NEW r \in Request, NEW status \in {"filled", "open", "unknown"}, NEW reached \in BOOLEAN,
             Submit(r, status, reached) PROVE OwnIntent'
  BY <1>6 DEF Submit
<1>7. ASSUME NEW r \in Request, NEW a \in Reply, RecordOrder(r, a) PROVE OwnIntent'
  BY <1>7 DEF RecordOrder, DurableStatus
<1>8. ASSUME NEW r \in Request, VenueFill(r) PROVE OwnIntent'
  BY <1>8 DEF VenueFill
<1>9. ASSUME NEW k \in Key, IdempotencyExpires(k) PROVE OwnIntent'
  BY <1>9 DEF IdempotencyExpires
<1>10. CASE Restart
  BY <1>10 DEF Restart
<1>11. CASE UNCHANGED vars
  BY <1>11 DEF vars
<1> HIDE DEF TypeOK, Progress, OwnIntent, Routed, LiveNewExposure, Goto, Answer, thread, history
<1> QED
  BY <1>1, <1>2, <1>3, <1>4, <1>5, <1>6, <1>7, <1>8, <1>9, <1>10, <1>11 DEF Next, PlaceOrder

\* the records of what was decided,
LEMMA AuditedStep == TypeOK /\ Progress /\ Audited /\ [Next]_vars => Audited'
<1> SUFFICES ASSUME TypeOK, Progress, Audited, [Next]_vars PROVE Audited'
  OBVIOUS
<1> USE DEF TypeOK, Progress, Audited, Goto, Answer, thread, history
<1>1. ASSUME NEW r \in Request, NEW a \in {"ok", "failed"}, Classify(r, a) PROVE Audited'
  BY <1>1 DEF Classify
<1>2. ASSUME NEW r \in Request, NEW a \in Reply, ClaimIdempotency(r, a) PROVE Audited'
  BY <1>2 DEF ClaimIdempotency, Duplicate
<1>3. ASSUME NEW r \in Request, NEW a \in Reply, NEW up \in BOOLEAN, CreateIntent(r, a, up) PROVE Audited'
  BY <1>3 DEF CreateIntent, Inserted
<1>4. ASSUME NEW r \in Request, NEW pass \in BOOLEAN, CheckRisk(r, pass) PROVE Audited'
  BY <1>4 DEF CheckRisk
<1>5. ASSUME NEW r \in Request, NEW a \in Reply, FinalDecision(r, a) PROVE Audited'
  BY <1>5 DEF FinalDecision, NeedsAudit, Applied
<1>6. ASSUME NEW r \in Request, NEW status \in {"filled", "open", "unknown"}, NEW reached \in BOOLEAN,
             Submit(r, status, reached) PROVE Audited'
  BY <1>6 DEF Submit
<1>7. ASSUME NEW r \in Request, NEW a \in Reply, RecordOrder(r, a) PROVE Audited'
  BY <1>7 DEF RecordOrder, DurableStatus
<1>8. ASSUME NEW r \in Request, VenueFill(r) PROVE Audited'
  BY <1>8 DEF VenueFill
<1>9. ASSUME NEW k \in Key, IdempotencyExpires(k) PROVE Audited'
  BY <1>9 DEF IdempotencyExpires
<1>10. CASE Restart
  BY <1>10 DEF Restart
<1>11. CASE UNCHANGED vars
  BY <1>11 DEF vars
<1> HIDE DEF TypeOK, Progress, Audited, Goto, Answer, thread, history
<1> QED
  BY <1>1, <1>2, <1>3, <1>4, <1>5, <1>6, <1>7, <1>8, <1>9, <1>10, <1>11 DEF Next, PlaceOrder

\* the claim of a key while nothing lapsed,
LEMMA ClaimKeptStep == TypeOK /\ Progress /\ ClaimKept /\ ClaimsApart /\ [Next]_vars => ClaimKept'
<1> SUFFICES ASSUME TypeOK, Progress, ClaimKept, ClaimsApart, [Next]_vars PROVE ClaimKept'
  OBVIOUS
<1> USE DEF TypeOK, Progress, ClaimKept, ClaimsApart, Active, Routed, Goto, Answer, thread, history
<1>1. ASSUME NEW r \in Request, NEW a \in {"ok", "failed"}, Classify(r, a) PROVE ClaimKept'
  BY <1>1 DEF Classify
<1>2. ASSUME NEW r \in Request, NEW a \in Reply, ClaimIdempotency(r, a) PROVE ClaimKept'
  BY <1>2 DEF ClaimIdempotency, Duplicate, Applied
<1>3. ASSUME NEW r \in Request, NEW a \in Reply, NEW up \in BOOLEAN, CreateIntent(r, a, up) PROVE ClaimKept'
  BY <1>3 DEF CreateIntent, Inserted
<1>4. ASSUME NEW r \in Request, NEW pass \in BOOLEAN, CheckRisk(r, pass) PROVE ClaimKept'
  BY <1>4 DEF CheckRisk
<1>5. ASSUME NEW r \in Request, NEW a \in Reply, FinalDecision(r, a) PROVE ClaimKept'
  BY <1>5 DEF FinalDecision, NeedsAudit
<1>6. ASSUME NEW r \in Request, NEW status \in {"filled", "open", "unknown"}, NEW reached \in BOOLEAN,
             Submit(r, status, reached) PROVE ClaimKept'
  BY <1>6 DEF Submit
<1>7. ASSUME NEW r \in Request, NEW a \in Reply, RecordOrder(r, a) PROVE ClaimKept'
  BY <1>7 DEF RecordOrder, DurableStatus
<1>8. ASSUME NEW r \in Request, VenueFill(r) PROVE ClaimKept'
  BY <1>8 DEF VenueFill
<1>9. ASSUME NEW k \in Key, IdempotencyExpires(k) PROVE ClaimKept'
  BY <1>9 DEF IdempotencyExpires
<1>10. CASE Restart
  BY <1>10 DEF Restart
<1>11. CASE UNCHANGED vars
  BY <1>11 DEF vars
<1> HIDE DEF TypeOK, Progress, ClaimKept, ClaimsApart, Active, Routed, Goto, Answer, thread, history
<1> QED
  BY <1>1, <1>2, <1>3, <1>4, <1>5, <1>6, <1>7, <1>8, <1>9, <1>10, <1>11 DEF Next, PlaceOrder

\* and its holder's being alone.
LEMMA ClaimsApartStep == TypeOK /\ Progress /\ ClaimKept /\ ClaimsApart /\ [Next]_vars => ClaimsApart'
<1> SUFFICES ASSUME TypeOK, Progress, ClaimKept, ClaimsApart, [Next]_vars PROVE ClaimsApart'
  OBVIOUS
<1> USE DEF TypeOK, Progress, ClaimKept, ClaimsApart, Active, Routed, Goto, Answer, thread, history
<1>1. ASSUME NEW r \in Request, NEW a \in {"ok", "failed"}, Classify(r, a) PROVE ClaimsApart'
  BY <1>1 DEF Classify
<1>2. ASSUME NEW r \in Request, NEW a \in Reply, ClaimIdempotency(r, a) PROVE ClaimsApart'
  <2> SUFFICES ASSUME NEW s \in Request, NEW t \in Request, s # t, KeyOf[s] = KeyOf[t],
                      Active(s)', Active(t)', claimed'[s], claimed'[t]
               PROVE  KeyOf[s] \in lapsed'
    OBVIOUS
  <2>1. lapsed' = lapsed /\ sent' = sent /\ claimed' = [claimed EXCEPT ![r] = a = "ok" /\ KeyOf[r] \notin idem]
    BY <1>2 DEF ClaimIdempotency
  <2>2. \A q \in Request : q # r => pc'[q] = pc[q]
    BY <1>2 DEF ClaimIdempotency
  <2>3. \A q \in Request : q # r /\ Active(q)' /\ claimed'[q] => Active(q) /\ claimed[q]
    BY <2>1, <2>2
  <2>4. claimed'[r] => KeyOf[r] \notin idem
    BY <2>1
  <2> QED
    BY <2>1, <2>3, <2>4
<1>3. ASSUME NEW r \in Request, NEW a \in Reply, NEW up \in BOOLEAN, CreateIntent(r, a, up) PROVE ClaimsApart'
  BY <1>3 DEF CreateIntent, Inserted
<1>4. ASSUME NEW r \in Request, NEW pass \in BOOLEAN, CheckRisk(r, pass) PROVE ClaimsApart'
  BY <1>4 DEF CheckRisk
<1>5. ASSUME NEW r \in Request, NEW a \in Reply, FinalDecision(r, a) PROVE ClaimsApart'
  BY <1>5 DEF FinalDecision, NeedsAudit
<1>6. ASSUME NEW r \in Request, NEW status \in {"filled", "open", "unknown"}, NEW reached \in BOOLEAN,
             Submit(r, status, reached) PROVE ClaimsApart'
  BY <1>6 DEF Submit
<1>7. ASSUME NEW r \in Request, NEW a \in Reply, RecordOrder(r, a) PROVE ClaimsApart'
  BY <1>7 DEF RecordOrder, DurableStatus
<1>8. ASSUME NEW r \in Request, VenueFill(r) PROVE ClaimsApart'
  BY <1>8 DEF VenueFill
<1>9. ASSUME NEW k \in Key, IdempotencyExpires(k) PROVE ClaimsApart'
  BY <1>9 DEF IdempotencyExpires
<1>10. CASE Restart
  BY <1>10 DEF Restart
<1>11. CASE UNCHANGED vars
  BY <1>11 DEF vars
<1> HIDE DEF TypeOK, Progress, ClaimKept, ClaimsApart, Active, Routed, Goto, Answer, thread, history
<1> QED
  BY <1>1, <1>2, <1>3, <1>4, <1>5, <1>6, <1>7, <1>8, <1>9, <1>10, <1>11 DEF Next, PlaceOrder

-----------------------------------------------------------------------------
(* Theorems.                                                               *)

\* The invariant holds in every reachable state.
LEMMA Invariance == Spec => []IInv
<1>1. IInv /\ [Next]_vars => IInv'
  BY TypeStep, ProgressStep, OwnIntentStep, AuditedStep, ClaimKeptStep, ClaimsApartStep DEF IInv
<1> QED
  BY <1>1, InitInv, PTL DEF Spec

\* Every variable holds a value of its type: the order row holds a status of
\* the order book, never the router's own word for it.
THEOREM TypeCorrect == Spec => []TypeOK
  BY Invariance, PTL DEF IInv

\* A live order admitted as new exposure is submitted once per idempotency
\* key: place_order, its Redis claim and the UNIQUE key of order_intents.
THEOREM OncePerKey == Spec => []LiveOncePerKey
<1>1. IInv => LiveOncePerKey
  BY DEF IInv, TypeOK, OwnIntent, Routed, LiveOncePerKey
<1> QED
  BY <1>1, Invariance, PTL

\* Two submissions under one key, of paper orders or reductions, need a claim
\* that lapsed, or one that Redis could not give.
THEOREM RepeatsExplained == Spec => []RepeatNeedsLapse
<1>1. IInv => RepeatNeedsLapse
  BY DEF IInv, TypeOK, ClaimKept, ClaimsApart, Active, Routed, RepeatNeedsLapse
<1> QED
  BY <1>1, Invariance, PTL

\* Whatever reached the venue has its intent and final decision stored, and
\* nobody who was told that nothing happened was submitted.
THEOREM Recorded == Spec => []SubmissionOnRecord
<1>1. IInv => SubmissionOnRecord
  BY DEF IInv, TypeOK, Progress, OwnIntent, Audited, Routed, SubmissionOnRecord
<1> QED
  BY <1>1, Invariance, PTL
=============================================================================
