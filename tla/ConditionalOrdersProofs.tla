----------------------- MODULE ConditionalOrdersProofs -----------------------
(***************************************************************************)
(* For any sets of orders, brackets, workers and prices, and any bound on  *)
(* failures: the types are kept, a conditional order has one worker at a   *)
(* time and is placed at most once, the guarded UPDATEs implement the      *)
(* abstract lifecycle, and a filled leg closes its bracket but for the     *)
(* legs its cancellation could not take.                                   *)
(*                                                                         *)
(* Exclusion rests on the status alone: a row under work is triggering or  *)
(* cancelled (HeldRows), so nobody can claim it, and only its worker can   *)
(* make it active again.  It does that for an unplaced order only          *)
(* (Progress), so whatever is active was never placed (OpenUnplaced).      *)
(*                                                                         *)
(* A step moves at most one order, from a phase to one the lifecycle       *)
(* allows (OneMoves); which one follows from the guard of its UPDATE.      *)
(*                                                                         *)
(* While no call has failed, the sibling of a filled leg is settled, about *)
(* to be cancelled, or not inserted yet, or it was in the hands of another *)
(* evaluation when the cancellation ran (Closed).                          *)
(***************************************************************************)
EXTENDS ConditionalOrders, TLAPS

Working == {"idem", "intent", "route", "mark", "release"}

\* A worker past its listing has an order.
HasOrder == \A w \in Worker : pc[w] \notin {"idle", "eval"} => cur[w] \in Order

\* A row under work is not active.
HeldRows == \A w \in Worker : pc[w] \in Working => status[cur[w]] \in {"triggering", "cancelled"}

\* Nothing that can be claimed has been placed.
OpenUnplaced == \A o \in Order : status[o] \in {"absent", "active"} => placed[o] = 0

\* A worker has placed its order exactly when it is about to record that.
Progress ==
    \A w \in Worker :
        /\ pc[w] \in {"idem", "intent", "route", "release"} => placed[cur[w]] = 0
        /\ pc[w] = "mark" => placed[cur[w]] = 1

\* The legs of a bracket that its request has yet to insert do not exist.
Unborn ==
    \A g \in Group :
        /\ creating[g] \in {"idle", "take_profit"} => status[<<g, "take_profit">>] = "absent"
        /\ creating[g] \in {"idle", "take_profit", "stop_loss"} => status[<<g, "stop_loss">>] = "absent"

IInv ==
    /\ TypeOK
    /\ HasOrder
    /\ ClaimExclusive
    /\ HeldRows
    /\ OpenUnplaced
    /\ Progress
    /\ PlacedAtMostOnce
    /\ Unborn

USE DEF Reply

-----------------------------------------------------------------------------
(* Types.                                                                  *)

\* The legs of a bracket are orders.
LEMMA LegType == \A g \in Group, k \in {"take_profit", "stop_loss"} : <<g, k>> \in Leg /\ <<g, k>> \in Order
  BY DEF Leg, Order

\* A trailed extreme is a price, or none yet.
LEMMA TrailedType ==
  ASSUME NEW o \in Order, NEW e \in Price \cup {0}, NEW p \in Price \cup {0}
  PROVE  Trailed(o, e, p) \in Price \cup {0}
  BY ConstantsAssumption DEF Trailed, ConstantsAssumption

\* A call to the database or to Redis keeps the failure count within its bound.
LEMMA CallType ==
  ASSUME NEW r \in Reply, failures \in 0..MaxFailures, Call(r)
  PROVE  failures' \in 0..MaxFailures
  BY ConstantsAssumption DEF Call, ConstantsAssumption

ThreadTypes ==
    /\ pc \in [Worker -> PC]
    /\ todo \in [Worker -> SUBSET Order]
    /\ seen \in [Worker -> [Order -> Price \cup {0}]]
    /\ cur \in [Worker -> Order \cup {None}]
    /\ exempt \in [Worker -> BOOLEAN]
    /\ claimed \in [Worker -> BOOLEAN]
    /\ result \in [Worker -> {"none", "filled", "accepted"}]

\* A worker that goes on with its listing, or to its next step.
LEMMA ThreadType ==
  ASSUME NEW w \in Worker, ThreadTypes, NEW l \in PC,
         Continue(w) \/ (Goto(w, l) /\ UNCHANGED <<exempt, claimed, result>>)
  PROVE  ThreadTypes'
  BY DEF ThreadTypes, Continue, Goto, PC

\* The invariant holds of empty tables and idle workers.
LEMMA InitInv == Init => IInv
<1> SUFFICES ASSUME Init PROVE IInv
  OBVIOUS
<1>1. TypeOK
  BY ConstantsAssumption DEF Init, TypeOK, ConstantsAssumption, Status, PC, NothingSeen
<1> QED
  BY <1>1, LegType DEF Init, IInv, HasOrder, ClaimExclusive, HeldRows, OpenUnplaced,
     Progress, PlacedAtMostOnce, Unborn, Holds, Working

\* Every step keeps the types.
LEMMA TypeStep == TypeOK /\ HasOrder /\ [Next]_vars => TypeOK'
<1> SUFFICES ASSUME TypeOK, HasOrder, [Next]_vars PROVE TypeOK'
  OBVIOUS
<1> USE DEF TypeOK, Status, PC
<1>1. ASSUME NEW s \in Single, NEW r \in Reply, CreateSingle(s, r) PROVE TypeOK'
  BY <1>1, CallType DEF CreateSingle, thread, Order
<1>2. ASSUME NEW g \in Group, NEW r \in Reply, CreateBracketParent(g, r) PROVE TypeOK'
  BY <1>2, CallType DEF CreateBracketParent, thread
<1>3. ASSUME NEW g \in Group, NEW k \in {"take_profit", "stop_loss"}, NEW r \in Reply,
             CreateBracketChild(g, k, r) PROVE TypeOK'
  BY <1>3, CallType, LegType DEF CreateBracketChild, thread
<1>4. ASSUME NEW o \in Order, NEW r \in Reply, CancelConditionalOrder(o, r) PROVE TypeOK'
  BY <1>4, CallType DEF CancelConditionalOrder, Cancellable, thread
<1>5. ASSUME NEW g \in Group, NEW r \in Reply, CancelBracketParent(g, r) PROVE TypeOK'
  BY <1>5, CallType DEF CancelBracketParent, thread
<1>6. ASSUME NEW w \in Worker, ListConditionalOrders(w) PROVE TypeOK'
  BY <1>6 DEF ListConditionalOrders, db
<1>7. ASSUME NEW w \in Worker, FinishEvaluation(w) PROVE TypeOK'
  BY <1>7 DEF FinishEvaluation, db, NothingSeen
<1>8. ASSUME NEW w \in Worker, NEW o \in Order, NEW p \in Price \cup {0}, NEW r \in Reply,
             EvaluateOrder(w, o, p, r) PROVE TypeOK'
  <2>1. Trailed(o, seen[w][o], p) \in Price \cup {0}
    <3>1. seen[w][o] \in Price \cup {0}
      OBVIOUS
    <3> HIDE DEF TypeOK
    <3> QED
      BY <3>1, TrailedType
  <2>2. extreme' \in [Order -> Price \cup {0}]
    <3>1. CASE UNCHANGED extreme
      BY <3>1
    <3>2. CASE extreme' = [extreme EXCEPT ![o] = Trailed(o, seen[w][o], p)]
      BY <2>1, <3>2
    <3> QED
      BY <1>8, <3>1, <3>2 DEF EvaluateOrder
  <2>3. failures' \in 0..MaxFailures
    BY <1>8, CallType DEF EvaluateOrder
  <2>4. ThreadTypes'
    BY <1>8 DEF EvaluateOrder, ThreadTypes
  <2> QED
    BY <1>8, <2>2, <2>3, <2>4 DEF EvaluateOrder, ThreadTypes
<1>9. ASSUME NEW w \in Worker, NEW r \in Reply, ClaimConditionalOrder(w, r) PROVE TypeOK'
  <2>1. status' \in [Order -> Status] /\ failures' \in 0..MaxFailures
    BY <1>9, CallType DEF ClaimConditionalOrder
  <2>2. ThreadTypes'
    BY <1>9, ThreadType DEF ClaimConditionalOrder, ThreadTypes
  <2> QED
    BY <1>9, <2>1, <2>2 DEF ClaimConditionalOrder, ThreadTypes
<1>10. ASSUME NEW w \in Worker, NEW reducing \in BOOLEAN, NEW valid \in BOOLEAN, NEW r \in Reply,
              ClaimIdempotency(w, reducing, valid, r) PROVE TypeOK'
  BY <1>10 DEF ClaimIdempotency, Goto, db
<1>11. ASSUME NEW w \in Worker, NEW r \in Reply, NEW up \in BOOLEAN, CreateIntent(w, r, up) PROVE TypeOK'
  BY <1>11, CallType DEF CreateIntent, Goto
<1>12. ASSUME NEW w \in Worker, NEW outcome \in {"refused", "filled", "accepted"},
              RouteOrder(w, outcome) PROVE TypeOK'
  <2>1. cur[w] \in Order
    BY <1>12 DEF RouteOrder, HasOrder
  <2>2. placed' \in [Order -> Nat]
    BY <1>12, <2>1 DEF RouteOrder
  <2>3. result' \in [Worker -> {"none", "filled", "accepted"}]
    BY <1>12 DEF RouteOrder
  <2>4. pc' \in [Worker -> PC] /\ UNCHANGED <<todo, seen, cur>>
    BY <1>12 DEF RouteOrder, Goto, AfterRoute
  <2> QED
    BY <1>12, <2>2, <2>3, <2>4 DEF RouteOrder, db
<1>13. ASSUME NEW w \in Worker, NEW r \in Reply, ReleaseConditionalClaim(w, r) PROVE TypeOK'
  <2>1. status' \in [Order -> Status] /\ failures' \in 0..MaxFailures
    BY <1>13, CallType DEF ReleaseConditionalClaim
  <2>2. ThreadTypes'
    BY <1>13, ThreadType DEF ReleaseConditionalClaim, ThreadTypes
  <2> QED
    BY <1>13, <2>1, <2>2 DEF ReleaseConditionalClaim, ThreadTypes
<1>14. ASSUME NEW w \in Worker, NEW r \in Reply, MarkConditionalTriggered(w, r) PROVE TypeOK'
  <2>1. status' \in [Order -> Status] /\ failures' \in 0..MaxFailures
    BY <1>14, CallType DEF MarkConditionalTriggered
  <2>2. ThreadTypes'
    BY <1>14, ThreadType DEF MarkConditionalTriggered, ThreadTypes
  <2> QED
    BY <1>14, <2>1, <2>2 DEF MarkConditionalTriggered, ThreadTypes
<1>15. ASSUME NEW w \in Worker, NEW r \in Reply, MarkConditionalFilled(w, r) PROVE TypeOK'
  <2>1. status' \in [Order -> Status] /\ failures' \in 0..MaxFailures
    BY <1>15, CallType DEF MarkConditionalFilled
  <2>2. ThreadTypes'
    BY <1>15, ThreadType DEF MarkConditionalFilled, ThreadTypes
  <2> QED
    BY <1>15, <2>1, <2>2 DEF MarkConditionalFilled, ThreadTypes
<1>16. ASSUME NEW w \in Worker, NEW r \in Reply, CancelOcoSiblings(w, r) PROVE TypeOK'
  <2>1. status' \in [Order -> Status] /\ failures' \in 0..MaxFailures
    BY <1>16, CallType DEF CancelOcoSiblings
  <2>2. ThreadTypes'
    BY <1>16, ThreadType DEF CancelOcoSiblings, ThreadTypes
  <2> QED
    BY <1>16, <2>1, <2>2 DEF CancelOcoSiblings, ThreadTypes
<1>17. ASSUME NEW w \in Worker, Crash(w) PROVE TypeOK'
  BY <1>17, ConstantsAssumption DEF Crash, db, NothingSeen, ConstantsAssumption
<1>18. ASSUME NEW o \in Order, IdempotencyExpires(o) PROVE TypeOK'
  BY <1>18 DEF IdempotencyExpires, db, thread
<1>19. CASE UNCHANGED vars
  BY <1>19 DEF vars, db, thread
<1> HIDE DEF TypeOK, Status, PC
<1>20. CASE UserStep
  BY <1>20, <1>1, <1>2, <1>3, <1>4, <1>5 DEF UserStep
<1>21. ASSUME NEW w \in Worker, WorkerStep(w) PROVE TypeOK'
  BY <1>21, <1>6, <1>7, <1>8, <1>9, <1>10, <1>11, <1>12, <1>13, <1>14, <1>15, <1>16 DEF WorkerStep
<1> QED
  BY <1>17, <1>18, <1>19, <1>20, <1>21 DEF Next

-----------------------------------------------------------------------------
(* The inductive invariant.                                                *)

Others ==
    /\ HasOrder
    /\ ClaimExclusive
    /\ HeldRows
    /\ OpenUnplaced
    /\ Progress
    /\ PlacedAtMostOnce
    /\ Unborn

\* Every step keeps the rest of the invariant.
LEMMA OthersStep == IInv /\ [Next]_vars => Others'
<1> SUFFICES ASSUME IInv, [Next]_vars PROVE Others'
  OBVIOUS
<1> USE DEF Others, HasOrder, ClaimExclusive, HeldRows, OpenUnplaced, Progress, PlacedAtMostOnce, Unborn, Holds, Working
<1>0. TypeOK /\ Others
  BY DEF IInv
<1> USE <1>0 DEF TypeOK, Status, PC
<1>1. ASSUME NEW s \in Single, NEW r \in Reply, CreateSingle(s, r) PROVE Others'
  BY <1>1, LegType, ConstantsAssumption DEF CreateSingle, thread, Order, ConstantsAssumption
<1>2. ASSUME NEW g \in Group, NEW r \in Reply, CreateBracketParent(g, r) PROVE Others'
  BY <1>2 DEF CreateBracketParent, thread
<1>3. ASSUME NEW g \in Group, NEW k \in {"take_profit", "stop_loss"}, NEW r \in Reply,
             CreateBracketChild(g, k, r) PROVE Others'
  <2>1. \A o \in Order : status'[o] = status[o] \/ (o = <<g, k>> /\ status[o] = "absent" /\ status'[o] = "active")
    <3>1. <<g, k>> \in Order /\ status[<<g, k>>] = "absent"
      BY <1>3, LegType DEF CreateBracketChild
    <3> HIDE <1>0 DEF Others, HasOrder, ClaimExclusive, HeldRows, OpenUnplaced, Progress, Unborn
    <3> QED
      BY <1>0, <1>3, <3>1 DEF CreateBracketChild
  <2>2. UNCHANGED <<pc, cur, placed>>
    BY <1>3 DEF CreateBracketChild, thread
  <2>3. Unborn'
    BY <1>3, LegType DEF CreateBracketChild
  <2> QED
    BY <2>1, <2>2, <2>3
<1>4. ASSUME NEW o \in Order, NEW r \in Reply, CancelConditionalOrder(o, r) PROVE Others'
  BY <1>4, LegType DEF CancelConditionalOrder, Cancellable, thread
<1>5. ASSUME NEW g \in Group, NEW r \in Reply, CancelBracketParent(g, r) PROVE Others'
  BY <1>5 DEF CancelBracketParent, thread
<1>6. ASSUME NEW w \in Worker, ListConditionalOrders(w) PROVE Others'
  BY <1>6 DEF ListConditionalOrders, db
<1>7. ASSUME NEW w \in Worker, FinishEvaluation(w) PROVE Others'
  BY <1>7 DEF FinishEvaluation, db
<1>8. ASSUME NEW w \in Worker, NEW o \in Order, NEW p \in Price \cup {0}, NEW r \in Reply,
             EvaluateOrder(w, o, p, r) PROVE Others'
  <2>1. /\ pc[w] = "eval" /\ pc'[w] \in {"eval", "claim"} /\ cur'[w] \in {cur[w], o}
        /\ pc'[w] = "claim" => cur'[w] = o
        /\ \A v \in Worker : v # w => pc'[v] = pc[v] /\ cur'[v] = cur[v]
    BY <1>8 DEF EvaluateOrder
  <2>2. UNCHANGED <<status, placed, creating>>
    BY <1>8 DEF EvaluateOrder
  <2> HIDE <1>0 DEF TypeOK, Status, PC, Others, HasOrder, ClaimExclusive, HeldRows, OpenUnplaced, Progress,
                    PlacedAtMostOnce, Unborn, Holds, Working
  <2>3. HasOrder'
    BY <1>0, <2>1 DEF Others, HasOrder
  <2>4. ClaimExclusive' /\ HeldRows' /\ Progress'
    BY <1>0, <2>1, <2>2 DEF Others, ClaimExclusive, HeldRows, Progress, Holds, Working
  <2>5. OpenUnplaced' /\ PlacedAtMostOnce' /\ Unborn'
    BY <1>0, <2>2 DEF Others, OpenUnplaced, PlacedAtMostOnce, Unborn
  <2> QED
    BY <2>3, <2>4, <2>5 DEF Others
<1>9. ASSUME NEW w \in Worker, NEW r \in Reply, ClaimConditionalOrder(w, r) PROVE Others'
  <2>1. /\ pc[w] = "claim" /\ pc'[w] \in {"eval", "idem"} /\ cur[w] \in Order
        /\ pc'[w] = "idem" => cur'[w] = cur[w] /\ status[cur[w]] = "active" /\ status'[cur[w]] = "triggering"
        /\ \A v \in Worker : v # w => pc'[v] = pc[v] /\ cur'[v] = cur[v]
    BY <1>9 DEF ClaimConditionalOrder, Claimable, Continue, Goto, Applied
  <2>2. \A o \in Order : status'[o] = status[o] \/ (o = cur[w] /\ status[o] = "active" /\ status'[o] = "triggering")
    BY <1>9 DEF ClaimConditionalOrder, Claimable
  <2>3. UNCHANGED <<placed, creating>>
    BY <1>9 DEF ClaimConditionalOrder
  <2> HIDE <1>0 DEF TypeOK, Status, PC, Others, HasOrder, ClaimExclusive, HeldRows, OpenUnplaced, Progress,
                    PlacedAtMostOnce, Unborn, Holds, Working
  <2>4. HasOrder'
    BY <1>0, <2>1 DEF Others, HasOrder
  <2>5. ClaimExclusive'
    BY <1>0, <2>1, <2>2 DEF Others, HasOrder, HeldRows, ClaimExclusive, Holds, Working
  <2>6. HeldRows'
    BY <1>0, <2>1, <2>2 DEF Others, HasOrder, HeldRows, ClaimExclusive, Holds, Working
  <2>7. OpenUnplaced' /\ PlacedAtMostOnce'
    BY <1>0, <2>1, <2>2, <2>3 DEF Others, OpenUnplaced, Progress, PlacedAtMostOnce
  <2>8. Progress'
    BY <1>0, <2>1, <2>2, <2>3 DEF Others, Progress, OpenUnplaced
  <2>9. Unborn'
    BY <1>0, <2>2, <2>3, LegType DEF Others, Unborn
  <2> QED
    BY <2>4, <2>5, <2>6, <2>7, <2>8, <2>9 DEF Others
<1>10. ASSUME NEW w \in Worker, NEW reducing \in BOOLEAN, NEW valid \in BOOLEAN, NEW r \in Reply,
              ClaimIdempotency(w, reducing, valid, r) PROVE Others'
  BY <1>10 DEF ClaimIdempotency, Goto, db
<1>11. ASSUME NEW w \in Worker, NEW r \in Reply, NEW up \in BOOLEAN, CreateIntent(w, r, up) PROVE Others'
  BY <1>11 DEF CreateIntent, Goto
<1>12. ASSUME NEW w \in Worker, NEW outcome \in {"refused", "filled", "accepted"},
              RouteOrder(w, outcome) PROVE Others'
  <2>1. /\ pc[w] = "route" /\ cur[w] \in Order /\ UNCHANGED <<status, cur, creating>>
        /\ \A v \in Worker : v # w => pc'[v] = pc[v]
    BY <1>12 DEF RouteOrder, Goto, db
  <2>2. \/ pc'[w] = "release" /\ UNCHANGED placed
        \/ pc'[w] = "mark" /\ placed' = [placed EXCEPT ![cur[w]] = @ + 1]
    BY <1>12 DEF RouteOrder, Goto, AfterRoute
  <2>3. placed[cur[w]] = 0 /\ status[cur[w]] \in {"triggering", "cancelled"}
    BY <2>1
  <2>4. \A v \in Worker : v # w /\ pc[v] \in Working => cur[v] # cur[w]
    BY <2>1
  <2>5. \A o \in Order : placed'[o] = placed[o] \/ (o = cur[w] /\ pc'[w] = "mark" /\ placed'[o] = 1)
    BY <2>1, <2>2, <2>3
  <2>6. pc'[w] = "mark" => placed'[cur[w]] = 1
    BY <2>1, <2>2, <2>3
  <2>7. pc'[w] = "release" => placed'[cur[w]] = 0
    BY <2>2, <2>3
  <2> HIDE <1>0 DEF TypeOK, Status, PC, Others, HasOrder, ClaimExclusive, HeldRows, OpenUnplaced, Progress,
                    PlacedAtMostOnce, Unborn, Holds, Working
  <2>8. HasOrder' /\ HeldRows' /\ Unborn'
    BY <1>0, <2>1, <2>2 DEF Others, HasOrder, HeldRows, Unborn, Working
  <2>9. ClaimExclusive'
    BY <1>0, <2>1, <2>2 DEF Others, ClaimExclusive, Holds
  <2>10. OpenUnplaced' /\ PlacedAtMostOnce'
    BY <1>0, <2>1, <2>3, <2>5 DEF Others, OpenUnplaced, PlacedAtMostOnce
  <2>11. Progress'
    BY <1>0, <2>1, <2>2, <2>4, <2>5, <2>6, <2>7 DEF Others, Progress, HasOrder, Working
  <2> QED
    BY <2>8, <2>9, <2>10, <2>11 DEF Others
<1>13. ASSUME NEW w \in Worker, NEW r \in Reply, ReleaseConditionalClaim(w, r) PROVE Others'
  <2>1. /\ pc[w] = "release" /\ pc'[w] = "eval" /\ cur[w] \in Order
        /\ \A v \in Worker : v # w => pc'[v] = pc[v] /\ cur'[v] = cur[v]
    BY <1>13 DEF ReleaseConditionalClaim, Continue
  <2>2. \A o \in Order : status'[o] = status[o] \/ (o = cur[w] /\ status[o] = "triggering" /\ status'[o] = "active")
    BY <1>13 DEF ReleaseConditionalClaim, Releasable
  <2>3. UNCHANGED <<placed, creating>>
    BY <1>13 DEF ReleaseConditionalClaim
  <2> HIDE <1>0 DEF TypeOK, Status, PC, Others, HasOrder, ClaimExclusive, HeldRows, OpenUnplaced, Progress,
                    PlacedAtMostOnce, Unborn, Holds, Working
  <2>4. HasOrder'
    BY <1>0, <2>1 DEF Others, HasOrder
  <2>5. ClaimExclusive'
    BY <1>0, <2>1, <2>2 DEF Others, HasOrder, HeldRows, ClaimExclusive, Holds, Working
  <2>6. HeldRows'
    BY <1>0, <2>1, <2>2 DEF Others, HasOrder, HeldRows, ClaimExclusive, Holds, Working
  <2>7. OpenUnplaced' /\ PlacedAtMostOnce'
    BY <1>0, <2>1, <2>2, <2>3 DEF Others, OpenUnplaced, Progress, PlacedAtMostOnce
  <2>8. Progress'
    BY <1>0, <2>1, <2>2, <2>3 DEF Others, Progress, OpenUnplaced
  <2>9. Unborn'
    BY <1>0, <2>2, <2>3, LegType DEF Others, Unborn
  <2> QED
    BY <2>4, <2>5, <2>6, <2>7, <2>8, <2>9 DEF Others
<1>14. ASSUME NEW w \in Worker, NEW r \in Reply, MarkConditionalTriggered(w, r) PROVE Others'
  <2>1. /\ pc[w] = "mark" /\ pc'[w] \in {"eval", "fill"} /\ cur[w] \in Order
        /\ pc'[w] = "fill" => cur'[w] = cur[w]
        /\ \A v \in Worker : v # w => pc'[v] = pc[v] /\ cur'[v] = cur[v]
    <3>1. pc[w] = "mark" /\ cur[w] \in Order
      BY <1>14 DEF MarkConditionalTriggered
    <3>2. CASE Continue(w)
      BY <3>1, <3>2 DEF Continue
    <3>3. CASE Goto(w, "fill")
      BY <3>1, <3>3 DEF Goto
    <3> QED
      BY <1>14, <3>2, <3>3 DEF MarkConditionalTriggered
  <2>2. \A o \in Order : status'[o] = status[o] \/ (o = cur[w] /\ status[o] = "triggering" /\ status'[o] = "triggered")
    BY <1>14 DEF MarkConditionalTriggered
  <2>3. UNCHANGED <<placed, creating>>
    BY <1>14 DEF MarkConditionalTriggered
  <2> HIDE <1>0 DEF TypeOK, Status, PC, Others, HasOrder, ClaimExclusive, HeldRows, OpenUnplaced, Progress,
                    PlacedAtMostOnce, Unborn, Holds, Working
  <2>4. HasOrder'
    BY <1>0, <2>1 DEF Others, HasOrder
  <2>5. ClaimExclusive'
    BY <1>0, <2>1, <2>2 DEF Others, HasOrder, HeldRows, ClaimExclusive, Holds, Working
  <2>6. HeldRows'
    BY <1>0, <2>1, <2>2 DEF Others, HasOrder, HeldRows, ClaimExclusive, Holds, Working
  <2>7. OpenUnplaced' /\ PlacedAtMostOnce'
    BY <1>0, <2>1, <2>2, <2>3 DEF Others, OpenUnplaced, Progress, PlacedAtMostOnce
  <2>8. Progress'
    BY <1>0, <2>1, <2>2, <2>3 DEF Others, Progress, OpenUnplaced
  <2>9. Unborn'
    BY <1>0, <2>2, <2>3, LegType DEF Others, Unborn
  <2> QED
    BY <2>4, <2>5, <2>6, <2>7, <2>8, <2>9 DEF Others
<1>15. ASSUME NEW w \in Worker, NEW r \in Reply, MarkConditionalFilled(w, r) PROVE Others'
  <2>1. /\ pc[w] = "fill" /\ pc'[w] \in {"eval", "cancel"} /\ cur[w] \in Order
        /\ pc'[w] = "cancel" => cur'[w] = cur[w]
        /\ \A v \in Worker : v # w => pc'[v] = pc[v] /\ cur'[v] = cur[v]
    BY <1>15 DEF MarkConditionalFilled, Continue, Goto
  <2>2. \A o \in Order : status'[o] = status[o] \/ (o = cur[w] /\ status[o] = "triggered" /\ status'[o] = "filled")
    BY <1>15 DEF MarkConditionalFilled
  <2>3. UNCHANGED <<placed, creating>>
    BY <1>15 DEF MarkConditionalFilled
  <2> HIDE <1>0 DEF TypeOK, Status, PC, Others, HasOrder, ClaimExclusive, HeldRows, OpenUnplaced, Progress,
                    PlacedAtMostOnce, Unborn, Holds, Working
  <2>4. HasOrder'
    BY <1>0, <2>1 DEF Others, HasOrder
  <2>5. ClaimExclusive'
    BY <1>0, <2>1, <2>2 DEF Others, HasOrder, HeldRows, ClaimExclusive, Holds, Working
  <2>6. HeldRows'
    BY <1>0, <2>1, <2>2 DEF Others, HasOrder, HeldRows, ClaimExclusive, Holds, Working
  <2>7. OpenUnplaced' /\ PlacedAtMostOnce'
    BY <1>0, <2>1, <2>2, <2>3 DEF Others, OpenUnplaced, Progress, PlacedAtMostOnce
  <2>8. Progress'
    BY <1>0, <2>1, <2>2, <2>3 DEF Others, Progress, OpenUnplaced
  <2>9. Unborn'
    BY <1>0, <2>2, <2>3, LegType DEF Others, Unborn
  <2> QED
    BY <2>4, <2>5, <2>6, <2>7, <2>8, <2>9 DEF Others
<1>16. ASSUME NEW w \in Worker, NEW r \in Reply, CancelOcoSiblings(w, r) PROVE Others'
  <2>1. /\ pc[w] = "cancel" /\ pc'[w] = "eval" /\ cur[w] \in Order
        /\ \A v \in Worker : v # w => pc'[v] = pc[v] /\ cur'[v] = cur[v]
    BY <1>16 DEF CancelOcoSiblings, Continue
  <2>2. \A o \in Order : status'[o] = status[o] \/ (status[o] = "active" /\ status'[o] = "cancelled")
    BY <1>16 DEF CancelOcoSiblings, OcoTarget
  <2>3. UNCHANGED <<placed, creating>>
    BY <1>16 DEF CancelOcoSiblings
  <2> HIDE <1>0 DEF TypeOK, Status, PC, Others, HasOrder, ClaimExclusive, HeldRows, OpenUnplaced, Progress,
                    PlacedAtMostOnce, Unborn, Holds, Working
  <2>4. HasOrder'
    BY <1>0, <2>1 DEF Others, HasOrder
  <2>5. ClaimExclusive'
    BY <1>0, <2>1, <2>2 DEF Others, HasOrder, HeldRows, ClaimExclusive, Holds, Working
  <2>6. HeldRows'
    BY <1>0, <2>1, <2>2 DEF Others, HasOrder, HeldRows, ClaimExclusive, Holds, Working
  <2>7. OpenUnplaced' /\ PlacedAtMostOnce'
    BY <1>0, <2>1, <2>2, <2>3 DEF Others, OpenUnplaced, Progress, PlacedAtMostOnce
  <2>8. Progress'
    BY <1>0, <2>1, <2>2, <2>3 DEF Others, Progress, OpenUnplaced
  <2>9. Unborn'
    BY <1>0, <2>2, <2>3, LegType DEF Others, Unborn
  <2> QED
    BY <2>4, <2>5, <2>6, <2>7, <2>8, <2>9 DEF Others
<1>17. ASSUME NEW w \in Worker, Crash(w) PROVE Others'
  BY <1>17 DEF Crash, db
<1>18. ASSUME NEW o \in Order, IdempotencyExpires(o) PROVE Others'
  BY <1>18 DEF IdempotencyExpires, db, thread
<1>19. CASE UNCHANGED vars
  BY <1>19 DEF vars, db, thread
<1> HIDE <1>0 DEF TypeOK, Status, PC, Others, HasOrder, ClaimExclusive, HeldRows, OpenUnplaced, Progress, PlacedAtMostOnce, Unborn, Holds, Working
<1>20. CASE UserStep
  BY <1>20, <1>1, <1>2, <1>3, <1>4, <1>5 DEF UserStep
<1>21. ASSUME NEW w \in Worker, WorkerStep(w) PROVE Others'
  BY <1>21, <1>6, <1>7, <1>8, <1>9, <1>10, <1>11, <1>12, <1>13, <1>14, <1>15, <1>16 DEF WorkerStep
<1> QED
  BY <1>17, <1>18, <1>19, <1>20, <1>21 DEF Next

\* Every step of a worker, a client or the environment keeps the invariant.
LEMMA Inductive == Spec => []IInv
<1>1. IInv /\ [Next]_vars => IInv'
  BY TypeStep, OthersStep DEF IInv, Others
<1> QED
  BY InitInv, <1>1, PTL DEF Spec

-----------------------------------------------------------------------------
(* What follows.                                                           *)

\* Rows, workers and requests keep to their states in every run.
THEOREM TypeCorrect == Spec => []TypeOK
  BY Inductive, PTL DEF IInv

\* Two workers never work on one conditional order: the claim of
\* claim_conditional_order excludes every other worker until it is settled.
THEOREM Exclusion == Spec => []ClaimExclusive
  BY Inductive, PTL DEF IInv

\* However evaluations overlap, calls fail and workers die, the evaluator
\* places a conditional order at most once.
THEOREM AtMostOnePlacement == Spec => []PlacedAtMostOnce
  BY Inductive, PTL DEF IInv

-----------------------------------------------------------------------------
(* The refinement: every step is a step of ConditionalLifecycle, or leaves *)
(* its two variables as they are.                                          *)

Phases   == [o \in Order |-> PhaseOf(o)]
Executed == [o \in Order |-> placed[o] > 0]
Mapped   == [Lifecycle!AbsNext]_<<Phases, Executed>>

\* Nothing the lifecycle sees of order p changes.
Untouched(p) == status'[p] = status[p] /\ \A w \in Worker : Holds(w, p)' <=> Holds(w, p)

\* The phase of an order depends on nothing but its status and who works on it.
LEMMA PhaseKept ==
  ASSUME NEW p \in Order, Untouched(p)
  PROVE  PhaseOf(p)' = PhaseOf(p)
  BY DEF Untouched, PhaseOf

\* Where no phase changes and nothing is placed, the lifecycle stutters.
LEMMA Stutter ==
  ASSUME UNCHANGED placed, \A p \in Order : PhaseOf(p)' = PhaseOf(p)
  PROVE  Mapped
  BY DEF Mapped, Phases, Executed

\* What the lifecycle may do with order o.
Moves(o) ==
    \/ Lifecycle!Offer(o) \/ Lifecycle!Take(o) \/ Lifecycle!Return(o) \/ Lifecycle!Settle(o)
    \/ Lifecycle!Withdraw(o) \/ Lifecycle!Abandon(o) \/ Lifecycle!Place(o)

\* A step the lifecycle may take is one it takes, or changes nothing it sees.
LEMMA MovesMapped ==
  ASSUME NEW o \in Order, Moves(o)
  PROVE  Mapped
<1>1. CASE <<Phases, Executed>>' = <<Phases, Executed>>
  BY <1>1 DEF Mapped
<1>2. CASE <<Phases, Executed>>' # <<Phases, Executed>>
  <2>1. Lifecycle!absVars # Lifecycle!absVars'
    BY <1>2 DEF Lifecycle!absVars, Phases, Executed
  <2> QED
    BY <2>1 DEF Mapped, Moves, Lifecycle!AbsNext
<1> QED
  BY <1>1, <1>2

\* The moves a single order may make while no placement is made.
Legal(o, from, to) ==
    \/ from = "none" /\ to = "open"
    \/ placed[o] = 0 /\ from = "open" /\ to = "held"
    \/ placed[o] = 0 /\ from = "held" /\ to = "open"
    \/ placed[o] > 0 /\ from = "held" /\ to = "done"
    \/ from = "open" /\ to = "dead"
    \/ from = "held" /\ to \in {"dying", "dead"}
    \/ from = "dying" /\ to = "dead"

\* A step that moves one order along a legal edge is a step of the lifecycle.
LEMMA OneMoves ==
  ASSUME NEW o \in Order, placed \in [Order -> Nat], UNCHANGED placed,
         \A p \in Order \ {o} : Untouched(p),
         PhaseOf(o)' = PhaseOf(o) \/ Legal(o, PhaseOf(o), PhaseOf(o)')
  PROVE  Mapped
<1>1. CASE PhaseOf(o)' = PhaseOf(o)
  <2>1. \A p \in Order : PhaseOf(p)' = PhaseOf(p)
    BY <1>1, PhaseKept
  <2> QED
    BY <2>1, Stutter
<1>2. CASE Legal(o, PhaseOf(o), PhaseOf(o)')
  <2>1. \A p \in Order : p # o => PhaseOf(p)' = PhaseOf(p)
    BY PhaseKept
  <2>2. Phases[o] = PhaseOf(o) /\ Phases' = [Phases EXCEPT ![o] = PhaseOf(o)']
    BY <2>1 DEF Phases
  <2>3. Executed' = Executed /\ (Executed[o] <=> placed[o] > 0)
    BY Zenon DEF Executed
  <2>4. Executed' = Executed /\ (placed[o] > 0 => Executed[o]) /\ (placed[o] = 0 => ~Executed[o])
    <3>1. placed[o] = 0 => ~(placed[o] > 0)
      OBVIOUS
    <3> QED
      BY <2>3, <3>1, Zenon
  <2> DEFINE from == PhaseOf(o)
             to   == PhaseOf(o)'
  <2>5. Phases[o] = from /\ Phases' = [Phases EXCEPT ![o] = to] /\ Legal(o, from, to)
    BY <1>2, <2>2
  <2> HIDE DEF from, to
  <2>6. Moves(o)
    BY <2>4, <2>5 DEF Legal, Moves, Lifecycle!Offer, Lifecycle!Take, Lifecycle!Return,
       Lifecycle!Settle, Lifecycle!Withdraw, Lifecycle!Abandon, Lifecycle!Move, Phases, Executed
  <2> QED
    BY <2>6, MovesMapped
<1> QED
  BY <1>1, <1>2

\* What a worker does to its own order leaves the others untouched.
LEMMA OwnOrder ==
  ASSUME NEW w \in Worker, cur[w] \in Order,
         \A p \in Order : p # cur[w] => status'[p] = status[p],
         \A v \in Worker : v # w => pc'[v] = pc[v] /\ cur'[v] = cur[v],
         pc'[w] \in Working => cur'[w] = cur[w]
  PROVE  \A p \in Order \ {cur[w]} : Untouched(p)
  BY DEF Untouched, Holds, Working

\* A row that becomes or stays claimed, offered, settled or withdrawn.
LEMMA PhaseIs ==
  ASSUME NEW o \in Order
  PROVE  /\ status[o] = "absent" => PhaseOf(o) = "none"
         /\ status[o] = "active" => PhaseOf(o) = "open"
         /\ status[o] = "triggering" => PhaseOf(o) = "held"
         /\ status[o] \in {"triggered", "filled"} => PhaseOf(o) = "done"
         /\ status[o] = "cancelled" /\ (\E w \in Worker : Holds(w, o)) => PhaseOf(o) = "dying"
         /\ status[o] = "cancelled" /\ (\A w \in Worker : ~Holds(w, o)) => PhaseOf(o) = "dead"
  BY DEF PhaseOf

\* The phase that each new status stands for.
LEMMA PhaseBecomes ==
  ASSUME NEW o \in Order
  PROVE  /\ status'[o] = "absent" => PhaseOf(o)' = "none"
         /\ status'[o] = "active" => PhaseOf(o)' = "open"
         /\ status'[o] = "triggering" => PhaseOf(o)' = "held"
         /\ status'[o] \in {"triggered", "filled"} => PhaseOf(o)' = "done"
         /\ status'[o] = "cancelled" => PhaseOf(o)' \in {"dying", "dead"}
         /\ status'[o] = "cancelled" /\ (\A w \in Worker : ~Holds(w, o)') => PhaseOf(o)' = "dead"
  BY DEF PhaseOf

\* The tables begin as the lifecycle does.
LEMMA InitMapped == Init => Lifecycle!AbsInit
<1> SUFFICES ASSUME Init PROVE Lifecycle!AbsInit
  OBVIOUS
<1>1. \A o \in Order : PhaseOf(o) = "none" /\ ~(placed[o] > 0)
  BY PhaseIs DEF Init
<1>2. \A o \in Order : (placed[o] > 0) = FALSE
  BY <1>1
<1>3. Phases = [o \in Order |-> "none"]
  BY <1>1 DEF Phases
<1>4. Executed = [o \in Order |-> FALSE]
  BY <1>2, Zenon DEF Executed
<1> QED
  BY <1>3, <1>4 DEF Lifecycle!AbsInit, Phases, Executed

\* A step that changes neither rows, placements nor who holds what.
LEMMA QuietMapped ==
  ASSUME UNCHANGED <<status, placed>>, \A w \in Worker, p \in Order : Holds(w, p)' <=> Holds(w, p)
  PROVE  Mapped
<1>1. \A p \in Order : Untouched(p)
  BY DEF Untouched
<1> QED
  BY <1>1, PhaseKept, Stutter

\* An insertion offers the order; a deletion withdraws it.
LEMMA UserMapped == IInv /\ UserStep => Mapped
<1> SUFFICES ASSUME IInv, UserStep PROVE Mapped
  OBVIOUS
<1> USE DEF IInv
<1>0. placed \in [Order -> Nat] /\ status \in [Order -> Status]
  BY DEF TypeOK
<1>1. ASSUME NEW o \in Order, UNCHANGED <<pc, cur, placed>>, status[o] = "absent",
             status' = [status EXCEPT ![o] = "active"]
      PROVE  Mapped
  <2>1. \A p \in Order \ {o} : Untouched(p)
    BY <1>0, <1>1 DEF Untouched, Holds
  <2>2. PhaseOf(o) = "none" /\ PhaseOf(o)' = "open"
    BY <1>0, <1>1, PhaseIs, PhaseBecomes
  <2> QED
    BY <1>0, <1>1, <2>1, <2>2, OneMoves DEF Legal
<1>2. ASSUME UNCHANGED <<pc, cur, placed, status>> PROVE Mapped
  BY <1>2, QuietMapped DEF Holds
<1>3. ASSUME NEW s \in Single, NEW r \in Reply, CreateSingle(s, r) PROVE Mapped
  BY <1>1, <1>2, <1>3 DEF CreateSingle, thread, Order
<1>4. ASSUME NEW g \in Group, NEW r \in Reply, CreateBracketParent(g, r) PROVE Mapped
  BY <1>2, <1>4 DEF CreateBracketParent, thread
<1>5. ASSUME NEW g \in Group, NEW k \in {"take_profit", "stop_loss"}, NEW r \in Reply,
             CreateBracketChild(g, k, r) PROVE Mapped
  <2>1. <<g, k>> \in Order /\ status[<<g, k>>] = "absent"
    BY <1>5, LegType DEF CreateBracketChild, Unborn
  <2> QED
    BY <1>1, <1>2, <1>5, <2>1 DEF CreateBracketChild, thread
<1>6. ASSUME NEW o \in Order, NEW r \in Reply, CancelConditionalOrder(o, r) PROVE Mapped
  <2>1. CASE status' = status
    BY <1>2, <1>6, <2>1 DEF CancelConditionalOrder, thread
  <2>2. CASE status' = [status EXCEPT ![o] = "cancelled"]
    <3>1. UNCHANGED <<pc, cur, placed>> /\ status[o] \in {"active", "triggering"}
      BY <1>6 DEF CancelConditionalOrder, Cancellable, thread
    <3>2. \A p \in Order \ {o} : Untouched(p)
      BY <1>0, <2>2, <3>1 DEF Untouched, Holds
    <3>3. CASE status[o] = "active"
      <4>1. \A w \in Worker : ~Holds(w, o)'
        BY <3>1, <3>3 DEF HeldRows, Holds, Working
      <4>2. PhaseOf(o) = "open" /\ PhaseOf(o)' = "dead"
        BY <1>0, <2>2, <3>3, <4>1, PhaseIs, PhaseBecomes
      <4> QED
        BY <1>0, <3>1, <3>2, <4>2, OneMoves DEF Legal
    <3>4. CASE status[o] = "triggering"
      <4>1. PhaseOf(o) = "held" /\ PhaseOf(o)' \in {"dying", "dead"}
        BY <1>0, <2>2, <3>4, PhaseIs, PhaseBecomes
      <4> QED
        BY <1>0, <3>1, <3>2, <4>1, OneMoves DEF Legal
    <3> QED
      BY <3>1, <3>3, <3>4
  <2> QED
    BY <1>6, <2>1, <2>2 DEF CancelConditionalOrder
<1>7. ASSUME NEW g \in Group, NEW r \in Reply, CancelBracketParent(g, r) PROVE Mapped
  BY <1>2, <1>7 DEF CancelBracketParent, thread
<1> HIDE DEF IInv
<1> QED
  BY <1>3, <1>4, <1>5, <1>6, <1>7 DEF UserStep

\* Of a worker's statements, the claim takes the order, the placement places
\* it, a release returns it and the first record settles it.  A worker that
\* stops abandons an order withdrawn in the meantime.
LEMMA StopMapped ==
  ASSUME IInv, NEW w \in Worker, cur[w] \in Order, UNCHANGED <<status, placed>>, ~\E p \in Order : Holds(w, p)',
         \A v \in Worker : v # w => pc'[v] = pc[v] /\ cur'[v] = cur[v], pc'[w] \notin Working
  PROVE  Mapped
<1> PICK o \in Order : o = cur[w]
  OBVIOUS
<1> USE DEF IInv
<1>0. placed \in [Order -> Nat] /\ status \in [Order -> Status]
  BY DEF TypeOK
<1>1. \A p \in Order \ {o} : Untouched(p)
  BY OwnOrder
<1>2. CASE Holds(w, o) /\ status[o] = "cancelled"
  <2>1. \A v \in Worker : ~Holds(v, o)'
    BY <1>2 DEF ClaimExclusive, Holds
  <2>2. PhaseOf(o) = "dying" /\ PhaseOf(o)' = "dead"
    BY <1>2, <2>1, PhaseIs, PhaseBecomes
  <2> QED
    BY <1>0, <1>1, <2>2, OneMoves DEF Legal
<1>3. CASE ~Holds(w, o)
  <2>1. Untouched(o)
    BY <1>3 DEF Untouched, Holds
  <2> QED
    BY <1>1, <2>1, PhaseKept, Stutter
<1>4. CASE Holds(w, o) /\ status[o] = "triggering"
  <2>1. PhaseOf(o)' = PhaseOf(o)
    BY <1>4, PhaseIs, PhaseBecomes
  <2> QED
    BY <1>0, <1>1, <2>1, OneMoves
<1> QED
  BY <1>2, <1>3, <1>4 DEF HeldRows, Holds, Working

\* A step of an evaluating worker is a step of the lifecycle or a stutter.
LEMMA WorkerMapped ==
  ASSUME IInv, NEW w \in Worker, WorkerStep(w)
  PROVE  Mapped
<1> USE DEF IInv
<1>0. placed \in [Order -> Nat] /\ status \in [Order -> Status] /\ pc \in [Worker -> PC]
      /\ cur \in [Worker -> Order \cup {None}] /\ result \in [Worker -> {"none", "filled", "accepted"}]
  BY DEF TypeOK
<1>1. ASSUME ListConditionalOrders(w) \/ FinishEvaluation(w) PROVE Mapped
  <2>1. UNCHANGED <<status, placed, cur>> /\ pc[w] \notin Working /\ pc'[w] \notin Working
        /\ \A v \in Worker : v # w => pc'[v] = pc[v]
    BY <1>0, <1>1 DEF ListConditionalOrders, FinishEvaluation, db, Working
  <2> QED
    BY <2>1, QuietMapped DEF Holds, Working
<1>2. ASSUME NEW o \in Order, NEW p \in Price \cup {0}, NEW r \in Reply, EvaluateOrder(w, o, p, r)
      PROVE  Mapped
  <2>1. UNCHANGED <<status, placed>> /\ pc[w] \notin Working /\ pc'[w] \notin Working
        /\ \A v \in Worker : v # w => pc'[v] = pc[v] /\ cur'[v] = cur[v]
    BY <1>0, <1>2 DEF EvaluateOrder, Working
  <2> QED
    BY <2>1, QuietMapped DEF Holds, Working
<1>3. ASSUME NEW r \in Reply, ClaimConditionalOrder(w, r) PROVE Mapped
  <2> PICK o \in Order : o = cur[w]
    BY <1>3 DEF ClaimConditionalOrder, HasOrder
  <2>1. /\ pc[w] = "claim" /\ o \in Order
        /\ \A v \in Worker : v # w => pc'[v] = pc[v] /\ cur'[v] = cur[v]
        /\ pc'[w] \in {"eval", "idem"}
        /\ pc'[w] = "idem" => cur'[w] = o /\ status'[o] = "triggering"
        /\ UNCHANGED placed
    BY <1>0, <1>3 DEF ClaimConditionalOrder, HasOrder, Continue, Goto, Applied, Claimable
  <2>2. \/ status' = status
        \/ status[o] = "active" /\ status' = [status EXCEPT ![o] = "triggering"]
    BY <1>3 DEF ClaimConditionalOrder, Claimable
  <2>3. \A p \in Order \ {o} : Untouched(p)
    BY <1>0, <2>1, <2>2, OwnOrder DEF Working
  <2>4. CASE status' = status /\ pc'[w] = "eval"
    BY <2>1, <2>4, QuietMapped DEF Holds
  <2>5. CASE status[o] = "active" /\ status' = [status EXCEPT ![o] = "triggering"]
    <3>1. PhaseOf(o) = "open" /\ PhaseOf(o)' = "held" /\ placed[o] = 0
      BY <1>0, <2>1, <2>5, PhaseIs, PhaseBecomes DEF OpenUnplaced
    <3> QED
      BY <1>0, <2>1, <2>3, <3>1, OneMoves DEF Legal
  <2>6. CASE status' = status /\ pc'[w] = "idem"
    <3>1. PhaseOf(o)' = PhaseOf(o)
      BY <2>1, <2>6, PhaseIs, PhaseBecomes
    <3> QED
      BY <1>0, <2>1, <2>3, <3>1, OneMoves
  <2> QED
    BY <2>1, <2>2, <2>4, <2>5, <2>6
<1>4. ASSUME NEW reducing \in BOOLEAN, NEW valid \in BOOLEAN, NEW r \in Reply,
             ClaimIdempotency(w, reducing, valid, r)
      PROVE  Mapped
  <2>1. UNCHANGED <<status, placed, cur>> /\ pc[w] \in Working /\ pc'[w] \in Working
        /\ \A v \in Worker : v # w => pc'[v] = pc[v]
    BY <1>0, <1>4 DEF ClaimIdempotency, Goto, db, Working
  <2> QED
    BY <2>1, QuietMapped DEF Holds, Working
<1>5. ASSUME NEW r \in Reply, NEW up \in BOOLEAN, CreateIntent(w, r, up) PROVE Mapped
  <2>1. UNCHANGED <<status, placed, cur>> /\ pc[w] \in Working /\ pc'[w] \in Working
        /\ \A v \in Worker : v # w => pc'[v] = pc[v]
    BY <1>0, <1>5 DEF CreateIntent, Goto, Working
  <2> QED
    BY <2>1, QuietMapped DEF Holds, Working
<1>6. ASSUME NEW outcome \in {"refused", "filled", "accepted"}, RouteOrder(w, outcome) PROVE Mapped
  <2> PICK o \in Order : o = cur[w]
    BY <1>6 DEF RouteOrder, HasOrder
  <2>1. /\ pc[w] = "route" /\ o \in Order /\ UNCHANGED <<status, cur>> /\ pc'[w] \in {"release", "mark"}
        /\ \A v \in Worker : v # w => pc'[v] = pc[v]
    BY <1>0, <1>6 DEF RouteOrder, HasOrder, Goto, db, AfterRoute
  <2>2. \A v \in Worker, p \in Order : Holds(v, p)' <=> Holds(v, p)
    BY <2>1 DEF Holds
  <2>3. \A p \in Order : PhaseOf(p)' = PhaseOf(p)
    BY <2>1, <2>2, PhaseKept DEF Untouched
  <2>4. CASE placed' = placed
    BY <2>3, <2>4, Stutter
  <2>5. CASE placed' = [placed EXCEPT ![o] = @ + 1]
    <3>1. placed[o] = 0 /\ PhaseOf(o) \in {"held", "dying"}
      BY <2>1, PhaseIs DEF Progress, HeldRows, Holds, Working
    <3>2. \A p \in Order : (placed'[p] > 0) = (IF p = o THEN TRUE ELSE placed[p] > 0)
      <4> TAKE p \in Order
      <4>1. CASE p = o
        <5>1. placed'[p] = 1
          BY <1>0, <2>1, <2>5, <3>1, <4>1
        <5>2. placed'[p] > 0
          BY <5>1
        <5> QED
          BY <4>1, <5>2, Zenon
      <4>2. CASE p # o
        <5>1. placed'[p] = placed[p]
          BY <1>0, <2>1, <2>5, <4>2
        <5> QED
          BY <4>2, <5>1, Zenon
      <4> QED
        BY <4>1, <4>2
    <3>3. Executed' = [Executed EXCEPT ![o] = TRUE]
      BY <2>1, <3>2, Zenon DEF Executed
    <3>4. ~Executed[o]
      <4>1. ~(placed[o] > 0)
        BY <3>1
      <4> QED
        BY <2>1, <4>1, Zenon DEF Executed
    <3>5. Phases' = Phases /\ Phases[o] \in {"held", "dying"}
      BY <2>1, <2>3, <3>1 DEF Phases
    <3>6. Lifecycle!Place(o)
      BY <3>3, <3>4, <3>5 DEF Lifecycle!Place, Phases, Executed
    <3> QED
      BY <2>1, <3>6, MovesMapped DEF Moves
  <2> QED
    BY <1>6, <2>4, <2>5 DEF RouteOrder
<1>7. ASSUME NEW r \in Reply, ReleaseConditionalClaim(w, r) PROVE Mapped
  <2> PICK o \in Order : o = cur[w]
    BY <1>7 DEF ReleaseConditionalClaim, HasOrder
  <2>1. /\ pc[w] = "release" /\ o \in Order /\ pc'[w] = "eval" /\ UNCHANGED placed
        /\ \A v \in Worker : v # w => pc'[v] = pc[v] /\ cur'[v] = cur[v]
    BY <1>0, <1>7 DEF ReleaseConditionalClaim, HasOrder, Continue
  <2>2. \/ status' = status
        \/ status[o] = "triggering" /\ status' = [status EXCEPT ![o] = "active"]
    BY <1>7 DEF ReleaseConditionalClaim, Releasable
  <2>3. CASE status' = status
    BY <2>1, <2>3, StopMapped DEF Holds, Working
  <2>4. CASE status[o] = "triggering" /\ status' = [status EXCEPT ![o] = "active"]
    <3>1. \A p \in Order \ {o} : Untouched(p)
      BY <1>0, <2>1, <2>4, OwnOrder DEF Working
    <3>2. PhaseOf(o) = "held" /\ PhaseOf(o)' = "open" /\ placed[o] = 0
      BY <1>0, <2>1, <2>4, PhaseIs, PhaseBecomes DEF Progress
    <3> QED
      BY <1>0, <2>1, <3>1, <3>2, OneMoves DEF Legal
  <2> QED
    BY <2>2, <2>3, <2>4
<1>8. ASSUME NEW r \in Reply, MarkConditionalTriggered(w, r) PROVE Mapped
  <2> PICK o \in Order : o = cur[w]
    BY <1>8 DEF MarkConditionalTriggered, HasOrder
  <2>1. /\ pc[w] = "mark" /\ o \in Order /\ pc'[w] \in {"eval", "fill"} /\ UNCHANGED placed
        /\ \A v \in Worker : v # w => pc'[v] = pc[v] /\ cur'[v] = cur[v]
    <3>1. pc[w] = "mark" /\ o \in Order /\ UNCHANGED placed
      BY <1>0, <1>8 DEF MarkConditionalTriggered, HasOrder
    <3>2. CASE Continue(w)
      BY <1>0, <3>1, <3>2 DEF Continue
    <3>3. CASE Goto(w, "fill")
      BY <1>0, <3>1, <3>3 DEF Goto
    <3> QED
      BY <1>8, <3>2, <3>3 DEF MarkConditionalTriggered
  <2>2. \/ status' = status
        \/ status[o] = "triggering" /\ status' = [status EXCEPT ![o] = "triggered"]
    BY <1>8 DEF MarkConditionalTriggered
  <2>3. CASE status' = status
    BY <2>1, <2>3, StopMapped DEF Holds, Working
  <2>4. CASE status[o] = "triggering" /\ status' = [status EXCEPT ![o] = "triggered"]
    <3>1. \A p \in Order \ {o} : Untouched(p)
      BY <1>0, <2>1, <2>4, OwnOrder DEF Working
    <3>2. PhaseOf(o) = "held" /\ PhaseOf(o)' = "done" /\ placed[o] = 1
      BY <1>0, <2>1, <2>4, PhaseIs, PhaseBecomes DEF Progress
    <3> QED
      BY <1>0, <2>1, <3>1, <3>2, OneMoves DEF Legal
  <2> QED
    BY <2>2, <2>3, <2>4
<1>9. ASSUME NEW r \in Reply, MarkConditionalFilled(w, r) PROVE Mapped
  <2> PICK o \in Order : o = cur[w]
    BY <1>9 DEF MarkConditionalFilled, HasOrder
  <2>1. /\ pc[w] = "fill" /\ o \in Order /\ pc'[w] \in {"eval", "cancel"} /\ UNCHANGED placed
        /\ \A v \in Worker : v # w => pc'[v] = pc[v] /\ cur'[v] = cur[v]
    BY <1>0, <1>9 DEF MarkConditionalFilled, HasOrder, Continue, Goto
  <2>2. \/ status' = status
        \/ status[o] = "triggered" /\ status' = [status EXCEPT ![o] = "filled"]
    BY <1>9 DEF MarkConditionalFilled
  <2>3. CASE status' = status
    BY <2>1, <2>3, QuietMapped DEF Holds
  <2>4. CASE status[o] = "triggered" /\ status' = [status EXCEPT ![o] = "filled"]
    <3>1. \A p \in Order \ {o} : Untouched(p)
      BY <1>0, <2>1, <2>4, OwnOrder DEF Working
    <3>2. PhaseOf(o)' = PhaseOf(o)
      BY <1>0, <2>1, <2>4, PhaseIs, PhaseBecomes
    <3> QED
      BY <1>0, <2>1, <3>1, <3>2, OneMoves
  <2> QED
    BY <2>2, <2>3, <2>4
<1>10. ASSUME NEW r \in Reply, CancelOcoSiblings(w, r) PROVE Mapped
  <2> PICK o \in Order : o = cur[w]
    BY <1>10 DEF CancelOcoSiblings, HasOrder
  <2>1. /\ pc[w] = "cancel" /\ o \in Order /\ pc'[w] = "eval" /\ UNCHANGED placed
        /\ \A v \in Worker : v # w => pc'[v] = pc[v] /\ cur'[v] = cur[v]
    BY <1>0, <1>10 DEF CancelOcoSiblings, HasOrder, Continue
  <2>2. \A v \in Worker, p \in Order : Holds(v, p)' <=> Holds(v, p)
    BY <2>1 DEF Holds
  <2>3. CASE status' = status
    BY <2>1, <2>2, <2>3, QuietMapped
  <2>4. CASE \E p \in Order : OcoTarget(p, o) /\ status'[p] # status[p]
    <3> PICK p \in Order : OcoTarget(p, o) /\ status'[p] # status[p]
      BY <2>4
    <3>1. status[p] = "active" /\ status'[p] = "cancelled"
      BY <1>10 DEF CancelOcoSiblings, OcoTarget
    <3>2. \A q \in Order : q # p => status'[q] = status[q]
      <4>1. \A q \in Order : q # p => ~Sibling(q, o)
        BY DEF OcoTarget, Sibling, Leg
      <4> QED
        BY <1>0, <1>10, <4>1 DEF CancelOcoSiblings, OcoTarget
    <3>3. \A q \in Order \ {p} : Untouched(q)
      BY <2>2, <3>2 DEF Untouched
    <3>4. \A v \in Worker : ~Holds(v, p)'
      BY <2>2, <3>1 DEF HeldRows, Holds, Working
    <3>5. PhaseOf(p) = "open" /\ PhaseOf(p)' = "dead"
      BY <3>1, <3>4, PhaseIs, PhaseBecomes
    <3> QED
      BY <1>0, <2>1, <3>3, <3>5, OneMoves DEF Legal
  <2>5. status' \in [Order -> Status] /\ \A p \in Order : status'[p] # status[p] => OcoTarget(p, o)
    BY <1>0, <1>10 DEF CancelOcoSiblings, Status
  <2> QED
    BY <1>0, <2>3, <2>4, <2>5
<1> HIDE DEF IInv
<1> QED
  BY <1>1, <1>2, <1>3, <1>4, <1>5, <1>6, <1>7, <1>8, <1>9, <1>10 DEF WorkerStep

\* So is every step.
LEMMA StepMapped == IInv /\ [Next]_vars => Mapped
<1> SUFFICES ASSUME IInv, [Next]_vars PROVE Mapped
  OBVIOUS
<1>1. ASSUME NEW w \in Worker, Crash(w) PROVE Mapped
  <2>1. /\ UNCHANGED <<status, placed>> /\ pc'[w] = "idle"
        /\ \A v \in Worker : v # w => pc'[v] = pc[v] /\ cur'[v] = cur[v]
    BY <1>1 DEF Crash, db, IInv, TypeOK
  <2>2. CASE cur[w] \in Order
    BY <2>1, <2>2, StopMapped DEF Holds, Working
  <2>3. CASE cur[w] \notin Order
    <3>1. pc[w] \in {"idle", "eval"}
      BY <2>3 DEF IInv, HasOrder
    <3> QED
      BY <2>1, <3>1, QuietMapped DEF Holds
  <2> QED
    BY <2>2, <2>3
<1>2. ASSUME NEW o \in Order, IdempotencyExpires(o) PROVE Mapped
  BY <1>2, QuietMapped DEF IdempotencyExpires, db, thread, Holds
<1>3. CASE UNCHANGED vars
  BY <1>3, QuietMapped DEF vars, db, thread, Holds
<1> QED
  BY <1>1, <1>2, <1>3, UserMapped, WorkerMapped DEF Next

\* Every run of the conditional orders is one of the abstract lifecycle: a
\* placement is made only for an order somebody took hold of, once, and only
\* an unplaced order is given back, however evaluations overlap with
\* deletions, failing statements and dying workers.
THEOREM Refinement == Spec => ImplementsLifecycle
<1>1. IInv /\ [Next]_vars => [Lifecycle!AbsNext]_(Lifecycle!absVars)
  BY StepMapped DEF Mapped, Lifecycle!absVars, Phases, Executed
<1> QED
  BY InitMapped, Inductive, <1>1, PTL DEF Spec, ImplementsLifecycle, Lifecycle!AbsSpec

-----------------------------------------------------------------------------
(* Brackets.                                                               *)

\* Why leg p may be where it is although its sibling o is filled: settled or
\* not inserted yet, or the cancellation is due, came too early, or passed it by.
Excused(o, p) ==
    \/ status[p] \in {"absent", "triggered", "filled", "cancelled"}
    \/ \E w \in Worker : pc[w] = "cancel" /\ cur[w] = o
    \/ creating[o[1]] = "late"
    \/ p \in spared

Closed ==
    failures = 0 =>
        \A o, p \in Leg : Sibling(o, p) /\ status[o] = "filled" => Excused(o, p)

\* The legs of a bracket, and of no other.
LEMMA Siblings ==
  ASSUME NEW o \in Leg, NEW p \in Leg, Sibling(o, p)
  PROVE  /\ o \in Order /\ p \in Order /\ o # p
         /\ o[1] \in Group
         /\ \/ o = <<o[1], "take_profit">> /\ p = <<o[1], "stop_loss">>
            \/ o = <<o[1], "stop_loss">> /\ p = <<o[1], "take_profit">>
  BY DEF Sibling, Leg, Order

\* A call that leaves the failure count at zero has succeeded.
LEMMA NoFailure == \A r \in Reply : TypeOK /\ Call(r) /\ failures' = 0 => r = "ok" /\ failures = 0
  BY ConstantsAssumption DEF Call, TypeOK, ConstantsAssumption

\* Closed stays when no leg is filled or opened and no cancellation is over.
LEMMA ClosedStays ==
  ASSUME Closed, failures' = 0 => failures = 0,
         \A o \in Leg : status'[o] = "filled" => status[o] = "filled",
         \A p \in Leg : status'[p] = status[p]
                         \/ status'[p] \in {"triggered", "filled", "cancelled"}
                         \/ status[p] \in {"active", "triggering"},
         \A w \in Worker : pc[w] = "cancel" => pc'[w] = "cancel" /\ cur'[w] = cur[w],
         \A g \in Group : creating[g] = "late" => creating'[g] = "late",
         spared \subseteq spared'
  PROVE  Closed'
<1> SUFFICES ASSUME failures' = 0, NEW o \in Leg, NEW p \in Leg, Sibling(o, p), status'[o] = "filled"
             PROVE  Excused(o, p)'
  BY DEF Closed, Sibling
<1>1. Excused(o, p)
  BY DEF Closed
<1>2. CASE status[p] \in {"absent", "triggered", "filled", "cancelled"}
  BY <1>2 DEF Excused
<1>3. CASE \E w \in Worker : pc[w] = "cancel" /\ cur[w] = o
  BY <1>3 DEF Excused
<1>4. CASE creating[o[1]] = "late" \/ p \in spared
  BY <1>4, Siblings DEF Excused
<1> QED
  BY <1>1, <1>2, <1>3, <1>4 DEF Excused

\* What clients do: of a bracket's legs the second is late if the first is no
\* longer active.
LEMMA ClosedUser == IInv /\ Closed /\ UserStep => Closed'
<1> SUFFICES ASSUME IInv, Closed, UserStep, failures' = 0 PROVE Closed'
  BY DEF Closed
<1>0. status \in [Order -> Status] /\ TypeOK
      /\ creating \in [Group -> {"idle", "take_profit", "stop_loss", "done", "late", "failed"}]
  BY DEF IInv, TypeOK
<1>1. ASSUME NEW s \in Single, NEW r \in Reply, CreateSingle(s, r) PROVE Closed'
  <2>1. \A q \in Leg : status'[q] = status[q]
    BY <1>0, <1>1, ConstantsAssumption DEF CreateSingle, Order, ConstantsAssumption
  <2>2. failures = 0 /\ UNCHANGED <<pc, cur, creating, spared>>
    BY <1>0, <1>1, NoFailure DEF CreateSingle, thread
  <2> QED
    BY <2>1, <2>2, ClosedStays
<1>2. ASSUME NEW g \in Group, NEW r \in Reply, CreateBracketParent(g, r) PROVE Closed'
  <2>1. \A h \in Group : creating[h] = "late" => creating'[h] = "late"
    BY <1>0, <1>2 DEF CreateBracketParent
  <2>2. failures = 0 /\ UNCHANGED <<pc, cur, status, spared>>
    BY <1>0, <1>2, NoFailure DEF CreateBracketParent, thread
  <2> QED
    BY <2>1, <2>2, ClosedStays
<1>3. ASSUME NEW g \in Group, NEW k \in {"take_profit", "stop_loss"}, NEW r \in Reply,
             CreateBracketChild(g, k, r)
      PROVE  Closed'
  <2>1. r = "ok" /\ failures = 0 /\ creating[g] = k /\ UNCHANGED <<pc, cur, spared>>
    BY <1>0, <1>3, NoFailure DEF CreateBracketChild, thread
  <2>2. \A q \in Order : status'[q] = IF q = <<g, k>> THEN "active" ELSE status[q]
    BY <1>0, <1>3, <2>1 DEF CreateBracketChild, Applied
  <2>3. \A h \in Group : creating'[h] =
            IF h # g THEN creating[h]
            ELSE IF k = "take_profit" THEN "stop_loss"
            ELSE IF status[<<g, "take_profit">>] = "active" THEN "done" ELSE "late"
    BY <1>0, <1>3, <2>1 DEF CreateBracketChild
  <2> SUFFICES ASSUME NEW o \in Leg, NEW p \in Leg, Sibling(o, p), status'[o] = "filled"
               PROVE  Excused(o, p)'
    BY DEF Closed, Sibling
  <2>4. status[o] = "filled" /\ o # <<g, k>>
    BY <2>2, Siblings
  <2>5. CASE p # <<g, k>>
    <3>1. status'[p] = status[p]
      BY <2>2, <2>5, Siblings
    <3>2. creating[o[1]] = "late" => creating'[o[1]] = "late"
      BY <2>1, <2>3, Siblings
    <3>3. Excused(o, p)
      BY <2>1, <2>4 DEF Closed
    <3> QED
      BY <2>1, <3>1, <3>2, <3>3 DEF Excused
  <2>6. CASE p = <<g, k>> /\ k = "stop_loss"
    <3>1. o = <<g, "take_profit">> /\ o[1] = g
      BY <2>6, Siblings
    <3>2. creating'[o[1]] = "late"
      BY <2>3, <2>4, <2>6, <3>1
    <3> QED
      BY <3>2 DEF Excused
  <2>7. CASE p = <<g, k>> /\ k = "take_profit"
    <3>1. o = <<g, "stop_loss">>
      BY <2>7, Siblings
    <3> QED
      BY <2>1, <2>4, <2>7, <3>1 DEF IInv, Unborn
  <2> QED
    BY <2>5, <2>6, <2>7
<1>4. ASSUME NEW o \in Order, NEW r \in Reply, CancelConditionalOrder(o, r) PROVE Closed'
  <2>1. \A q \in Order : status'[q] = status[q] \/ status'[q] = "cancelled"
    BY <1>0, <1>4 DEF CancelConditionalOrder
  <2>2. failures = 0 /\ UNCHANGED <<pc, cur, creating, spared>>
    BY <1>0, <1>4, NoFailure DEF CancelConditionalOrder, thread
  <2>3. \A q \in Leg : q \in Order
    BY DEF Order
  <2> QED
    BY <2>1, <2>2, <2>3, ClosedStays
<1>5. ASSUME NEW g \in Group, NEW r \in Reply, CancelBracketParent(g, r) PROVE Closed'
  <2>1. failures = 0 /\ UNCHANGED <<pc, cur, status, creating, spared>>
    BY <1>0, <1>5, NoFailure DEF CancelBracketParent, thread
  <2> QED
    BY <2>1, ClosedStays
<1> QED
  BY <1>1, <1>2, <1>3, <1>4, <1>5 DEF UserStep

\* What a worker does: a fill makes a cancellation due, and the cancellation
\* takes the active sibling and spares a claimed one.
LEMMA ClosedWorker ==
  ASSUME IInv, Closed, NEW w \in Worker, WorkerStep(w), failures' = 0
  PROVE  Closed'
<1>0. /\ status \in [Order -> Status] /\ pc \in [Worker -> PC] /\ TypeOK
      /\ cur \in [Worker -> Order \cup {None}] /\ HasOrder /\ spared \subseteq Leg
  BY DEF IInv, TypeOK
<1>1. \A q \in Leg : q \in Order
  BY DEF Order
<1>2. ASSUME UNCHANGED <<status, creating, spared>>, failures = 0,
             \A v \in Worker : v # w => pc'[v] = pc[v] /\ cur'[v] = cur[v], pc[w] # "cancel"
      PROVE  Closed'
  BY <1>2, ClosedStays
<1>3. ASSUME ListConditionalOrders(w) \/ FinishEvaluation(w) PROVE Closed'
  BY <1>0, <1>2, <1>3 DEF ListConditionalOrders, FinishEvaluation, db
<1>4. ASSUME NEW o \in Order, NEW p \in Price \cup {0}, NEW r \in Reply, EvaluateOrder(w, o, p, r)
      PROVE  Closed'
  <2>1. failures = 0
    BY <1>0, <1>4, NoFailure DEF EvaluateOrder
  <2> QED
    BY <1>0, <1>2, <1>4, <2>1 DEF EvaluateOrder
<1>5. ASSUME NEW reducing \in BOOLEAN, NEW valid \in BOOLEAN, NEW r \in Reply,
             ClaimIdempotency(w, reducing, valid, r)
      PROVE  Closed'
  BY <1>0, <1>2, <1>5 DEF ClaimIdempotency, Goto, db
<1>6. ASSUME NEW r \in Reply, NEW up \in BOOLEAN, CreateIntent(w, r, up) PROVE Closed'
  <2>1. failures = 0
    BY <1>0, <1>6, NoFailure DEF CreateIntent
  <2> QED
    BY <1>0, <1>2, <1>6, <2>1 DEF CreateIntent, Goto
<1>7. ASSUME NEW outcome \in {"refused", "filled", "accepted"}, RouteOrder(w, outcome) PROVE Closed'
  BY <1>0, <1>2, <1>7 DEF RouteOrder, Goto, db
\* The claim, its release and the first record: a row in hand moves.
<1>8. ASSUME NEW r \in Reply, UNCHANGED <<creating, spared>>, Call(r), pc[w] # "cancel",
             \A v \in Worker : v # w => pc'[v] = pc[v] /\ cur'[v] = cur[v],
             \A q \in Order : status'[q] = status[q] \/ status'[q] = "triggered"
                               \/ (status[q] \in {"active", "triggering"} /\ status'[q] # "filled")
      PROVE  Closed'
  BY <1>0, <1>1, <1>8, NoFailure, ClosedStays
<1>9. ASSUME NEW r \in Reply, ClaimConditionalOrder(w, r) PROVE Closed'
  <2>1. \A q \in Order : status'[q] = status[q] \/ (status[q] = "active" /\ status'[q] = "triggering")
    BY <1>0, <1>9 DEF ClaimConditionalOrder, Claimable
  <2>2. \A v \in Worker : v # w => pc'[v] = pc[v] /\ cur'[v] = cur[v]
    BY <1>0, <1>9 DEF ClaimConditionalOrder, Continue, Goto
  <2>3. UNCHANGED <<creating, spared>> /\ Call(r) /\ pc[w] # "cancel"
    BY <1>9 DEF ClaimConditionalOrder
  <2> QED
    BY <1>8, <2>1, <2>2, <2>3
<1>10. ASSUME NEW r \in Reply, ReleaseConditionalClaim(w, r) PROVE Closed'
  <2>1. \A q \in Order : status'[q] = status[q] \/ (status[q] = "triggering" /\ status'[q] = "active")
    BY <1>0, <1>10 DEF ReleaseConditionalClaim, Releasable
  <2>2. \A v \in Worker : v # w => pc'[v] = pc[v] /\ cur'[v] = cur[v]
    BY <1>0, <1>10 DEF ReleaseConditionalClaim, Continue
  <2>3. UNCHANGED <<creating, spared>> /\ Call(r) /\ pc[w] # "cancel"
    BY <1>10 DEF ReleaseConditionalClaim
  <2> QED
    BY <1>8, <2>1, <2>2, <2>3
<1>11. ASSUME NEW r \in Reply, MarkConditionalTriggered(w, r) PROVE Closed'
  <2>1. \A q \in Order : status'[q] = status[q] \/ status'[q] = "triggered"
    BY <1>0, <1>11 DEF MarkConditionalTriggered
  <2>2. \A v \in Worker : v # w => pc'[v] = pc[v] /\ cur'[v] = cur[v]
    BY <1>0, <1>11 DEF MarkConditionalTriggered, Continue, Goto
  <2>3. UNCHANGED <<creating, spared>> /\ Call(r) /\ pc[w] # "cancel"
    BY <1>11 DEF MarkConditionalTriggered
  <2> QED
    BY <1>8, <2>1, <2>2, <2>3
<1>12. ASSUME NEW r \in Reply, MarkConditionalFilled(w, r) PROVE Closed'
  <2> PICK o \in Order : o = cur[w]
    BY <1>0, <1>12 DEF MarkConditionalFilled, HasOrder
  <2>1. r = "ok" /\ failures = 0 /\ pc[w] = "fill" /\ UNCHANGED <<creating, spared>>
    BY <1>0, <1>12, NoFailure DEF MarkConditionalFilled
  <2>2. \A v \in Worker : v # w => pc'[v] = pc[v] /\ cur'[v] = cur[v]
    BY <1>0, <1>12 DEF MarkConditionalFilled, Continue, Goto
  <2>3. CASE status[o] # "triggered"
    <3>1. UNCHANGED status
      BY <1>12, <2>3 DEF MarkConditionalFilled
    <3> QED
      BY <1>2, <2>1, <2>2, <3>1
  <2>4. CASE status[o] = "triggered"
    <3>1. \A q \in Order : status'[q] = IF q = o THEN "filled" ELSE status[q]
      BY <1>0, <1>12, <2>1, <2>4 DEF MarkConditionalFilled, Applied
    <3>2. pc'[w] = "cancel" /\ cur'[w] = o
      BY <1>0, <1>12, <2>1, <2>4 DEF MarkConditionalFilled, Goto
    <3> SUFFICES ASSUME NEW a \in Leg, NEW p \in Leg, Sibling(a, p), status'[a] = "filled"
                 PROVE  Excused(a, p)'
      BY DEF Closed, Sibling
    <3>3. CASE a = o
      BY <3>2, <3>3 DEF Excused
    <3>4. CASE a # o
      <4>1. status[a] = "filled"
        BY <1>1, <3>1, <3>4
      <4>2. Excused(a, p)
        BY <2>1, <4>1 DEF Closed
      <4>3. status'[p] = "filled" \/ status'[p] = status[p]
        BY <1>1, <3>1
      <4> QED
        BY <2>1, <2>2, <4>2, <4>3 DEF Excused
    <3> QED
      BY <3>3, <3>4
  <2> QED
    BY <2>3, <2>4
<1>13. ASSUME NEW r \in Reply, CancelOcoSiblings(w, r) PROVE Closed'
  <2> PICK o \in Order : o = cur[w]
    BY <1>0, <1>13 DEF CancelOcoSiblings, HasOrder
  <2>1. r = "ok" /\ failures = 0 /\ pc[w] = "cancel" /\ UNCHANGED creating
    BY <1>0, <1>13, NoFailure DEF CancelOcoSiblings
  <2>2. \A q \in Order : status'[q] = IF Sibling(q, o) /\ status[q] = "active" THEN "cancelled" ELSE status[q]
    BY <1>13, <2>1 DEF CancelOcoSiblings, OcoTarget, Applied
  <2>3. spared' = spared \cup {q \in Leg : Sibling(q, o) /\ status[q] = "triggering"}
    BY <1>13 DEF CancelOcoSiblings
  <2>4. \A v \in Worker : v # w => pc'[v] = pc[v] /\ cur'[v] = cur[v]
    BY <1>0, <1>13 DEF CancelOcoSiblings, Continue
  <2> SUFFICES ASSUME NEW a \in Leg, NEW p \in Leg, Sibling(a, p), status'[a] = "filled"
               PROVE  Excused(a, p)'
    BY DEF Closed, Sibling
  <2>5. status[a] = "filled" /\ p \in Order /\ a \in Order
    BY <1>1, <2>2
  <2>6. CASE a = o
    <3>1. Sibling(p, o)
      BY <2>6 DEF Sibling
    <3>2. CASE status[p] = "triggering"
      BY <2>3, <3>1, <3>2 DEF Excused
    <3>3. CASE status[p] # "triggering"
      <4>1. status'[p] \in {"absent", "triggered", "filled", "cancelled"}
        BY <1>0, <2>2, <2>5, <3>1, <3>3 DEF Status
      <4> QED
        BY <4>1 DEF Excused
    <3> QED
      BY <3>2, <3>3
  <2>7. CASE a # o
    <3>1. Excused(a, p)
      BY <2>1, <2>5 DEF Closed
    <3>2. status'[p] = status[p] \/ status'[p] = "cancelled"
      BY <2>2, <2>5
    <3> QED
      BY <2>1, <2>3, <2>4, <2>7, <3>1, <3>2 DEF Excused
  <2> QED
    BY <2>6, <2>7
<1> QED
  BY <1>3, <1>4, <1>5, <1>6, <1>7, <1>9, <1>10, <1>11, <1>12, <1>13 DEF WorkerStep

\* A worker dies, a key expires, or nothing happens.
LEMMA ClosedStep == IInv /\ Closed /\ [Next]_vars => Closed'
<1> SUFFICES ASSUME IInv, Closed, [Next]_vars, failures' = 0 PROVE Closed'
  BY DEF Closed
<1>1. ASSUME NEW w \in Worker, Crash(w) PROVE FALSE
  BY <1>1 DEF Crash, IInv, TypeOK
<1>2. ASSUME NEW o \in Order, IdempotencyExpires(o) PROVE Closed'
  BY <1>2, ClosedStays DEF IdempotencyExpires, db, thread
<1>3. CASE UNCHANGED vars
  BY <1>3, ClosedStays DEF vars, db, thread
<1> QED
  BY <1>1, <1>2, <1>3, ClosedUser, ClosedWorker DEF Next

\* However many evaluations overlap, a leg recorded as filled leaves no other
\* leg of its bracket open once its cancellation has run, unless a call
\* failed, the worker died, the other leg was inserted afterwards, or another
\* evaluation had it in hand when the cancellation ran.
THEOREM FilledCloses == Spec => []FilledLegClosesGroup
<1>1. Init => Closed
  BY DEF Init, Closed, Leg, Order
<1>2. IInv /\ Closed => FilledLegClosesGroup
  <2> SUFFICES ASSUME IInv, Closed, NEW o \in Leg, NEW p \in Leg, Sibling(o, p),
                      status[o] = "filled", status[p] = "active", ~(failures > 0)
               PROVE  \/ \E w \in Worker : pc[w] = "cancel" /\ cur[w] = o
                      \/ creating[o[1]] = "late"
                      \/ p \in spared
    BY DEF FilledLegClosesGroup
  <2>1. failures = 0
    BY ConstantsAssumption DEF IInv, TypeOK, ConstantsAssumption
  <2> QED
    BY <2>1 DEF Closed, Excused
<1> QED
  BY <1>1, <1>2, ClosedStep, Inductive, PTL DEF Spec
=============================================================================
