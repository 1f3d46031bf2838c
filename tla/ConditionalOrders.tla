------------------------- MODULE ConditionalOrders -------------------------
(***************************************************************************)
(* Conditional orders: the rows of conditional_orders, the API threads     *)
(* that insert and cancel them, and the workers that run                   *)
(* evaluate_conditional_orders and place the orders that trigger.          *)
(*                                                                         *)
(* Each SQL statement of OrdersRepository is atomic (one autocommit        *)
(* UPDATE/INSERT), and so is each Redis command; everything between two of *)
(* them interleaves.  A statement may fail, or take effect and lose its    *)
(* answer; the repository returns None for both, and the caller goes on.   *)
(*                                                                         *)
(* X_F is X with the fault F; no action uses it.                           *)
(***************************************************************************)
EXTENDS Integers

CONSTANTS Single,       \* standalone conditional orders
          Group,        \* brackets; the two legs of one form an OCO group
          Worker,       \* threads that evaluate conditional orders
          Price,        \* prices an evaluation may see
          KindOf,       \* KindOf[s]: order_type of a standalone order
          SideOf,       \* SideOf[o]: side of an order
          TriggerOf,    \* TriggerOf[o]: trigger_price, or trailing_amount
          Modes,        \* values EXECUTION_MODE may have been started with
          None,         \* no order
          MaxFailures   \* bound: failing repository calls and dying workers

Leg   == Group \X {"take_profit", "stop_loss"}
Order == Single \cup Leg
Kind(o) == IF o \in Leg THEN o[2] ELSE KindOf[o]

ASSUME ConstantsAssumption ==
    /\ Price \subseteq Nat \ {0}
    /\ Single \cap Leg = {}
    /\ None \notin Order
    /\ KindOf \in [Single -> {"take_profit", "stop_loss", "trailing_stop"}]
    /\ SideOf \in [Order -> {"buy", "sell"}]
    /\ TriggerOf \in [Order -> Nat]
    /\ Modes \subseteq {"paper", "live"}
    /\ MaxFailures \in Nat

VARIABLES
    \* PostgreSQL
    status,     \* status[o]: the row's status, "absent" before its INSERT
    extreme,    \* extreme[o]: payload peak_price / trough_price, 0 when unset
    parent,     \* parent[g]: status of the bracket's own row
    intent,     \* intent[o]: an order_intents row holds o's idempotency key
    \* Redis
    idem,       \* idem[o]: the idempotency key of o exists
    \* processes
    mode,       \* EXECUTION_MODE
    creating,   \* creating[g]: progress of the request that creates g
    pc,         \* pc[w]: where worker w is
    todo,       \* todo[w]: active rows of w's listing still to be evaluated
    seen,       \* seen[w]: payload extremes as w's listing returned them
    cur,        \* cur[w]: the order w is working on
    exempt,     \* exempt[w]: place_order took it for a live risk reduction
    claimed,    \* claimed[w]: place_order holds the Redis claim
    result,     \* result[w]: status place_order returned
    \* history and bounds
    placed,     \* placed[o]: placements made for o
    spared,     \* legs an OCO cancellation left alone: another worker had them
    failures    \* repository calls that failed and workers that died

db     == <<status, extreme, parent, intent>>
thread == <<pc, todo, seen, cur, exempt, claimed, result>>
vars   == <<db, idem, mode, creating, thread, placed, spared, failures>>

Status == {"absent", "active", "triggering", "triggered", "filled", "cancelled"}
PC == {"idle", "eval", "claim", "idem", "intent", "route", "mark", "fill",
       "cancel", "release"}

TypeOK ==
    /\ status \in [Order -> Status]
    /\ extreme \in [Order -> Price \cup {0}]
    /\ parent \in [Group -> {"absent", "parent_bracket", "cancelled"}]
    /\ intent \in [Order -> BOOLEAN]
    /\ idem \in [Order -> BOOLEAN]
    /\ mode \in Modes
    /\ creating \in [Group -> {"idle", "take_profit", "stop_loss", "done",
                               "late", "failed"}]
    /\ pc \in [Worker -> PC]
    /\ todo \in [Worker -> SUBSET Order]
    /\ seen \in [Worker -> [Order -> Price \cup {0}]]
    /\ cur \in [Worker -> Order \cup {None}]
    /\ exempt \in [Worker -> BOOLEAN]
    /\ claimed \in [Worker -> BOOLEAN]
    /\ result \in [Worker -> {"none", "filled", "accepted"}]
    /\ placed \in [Order -> Nat]
    /\ spared \subseteq Leg
    /\ failures \in 0..MaxFailures

NothingSeen == [o \in Order |-> 0]

Init ==
    /\ status = [o \in Order |-> "absent"]
    /\ extreme = [o \in Order |-> 0]
    /\ parent = [g \in Group |-> "absent"]
    /\ intent = [o \in Order |-> FALSE]
    /\ idem = [o \in Order |-> FALSE]
    /\ mode \in Modes
    /\ creating = [g \in Group |-> "idle"]
    /\ pc = [w \in Worker |-> "idle"]
    /\ todo = [w \in Worker |-> {}]
    /\ seen = [w \in Worker |-> NothingSeen]
    /\ cur = [w \in Worker |-> None]
    /\ exempt = [w \in Worker |-> FALSE]
    /\ claimed = [w \in Worker |-> FALSE]
    /\ result = [w \in Worker |-> "none"]
    /\ placed = [o \in Order |-> 0]
    /\ spared = {}
    /\ failures = 0

\* How a call of a store ends: "failed" took no effect, "lost" did, and the
\* caller cannot tell the two apart.
Reply == {"ok", "failed", "lost"}
Applied(r) == r # "failed"

\* One repository call.
Call(r) ==
    /\ r # "ok" => failures < MaxFailures
    /\ failures' = IF r = "ok" THEN failures ELSE failures + 1

-----------------------------------------------------------------------------
(* create_conditional_order and delete_conditional_order.                  *)

CreateSingle(s, r) ==
    /\ status[s] = "absent"
    /\ Call(r)
    /\ status' = IF Applied(r) THEN [status EXCEPT ![s] = "active"] ELSE status
    /\ UNCHANGED <<extreme, parent, intent, idem, mode, creating, thread,
                   placed, spared>>

\* The three INSERTs of a bracket are three statements: parent, take-profit
\* leg, stop-loss leg.  A failing one ends the request with 503 and undoes
\* nothing.
CreateBracketParent(g, r) ==
    /\ creating[g] = "idle"
    /\ Call(r)
    /\ parent' = IF Applied(r) THEN [parent EXCEPT ![g] = "parent_bracket"] ELSE parent
    /\ creating' = [creating EXCEPT ![g] = IF r = "ok" THEN "take_profit" ELSE "failed"]
    /\ UNCHANGED <<status, extreme, intent, idem, mode, thread, placed, spared>>

\* "late" records that the first leg was no longer active when the second
\* was inserted.
CreateBracketChild(g, k, r) ==
    /\ creating[g] = k
    /\ Call(r)
    /\ status' = IF Applied(r) THEN [status EXCEPT ![<<g, k>>] = "active"] ELSE status
    /\ creating' = [creating EXCEPT ![g] =
            IF r # "ok" THEN "failed"
            ELSE IF k = "take_profit" THEN "stop_loss"
            ELSE IF status[<<g, "take_profit">>] = "active" THEN "done" ELSE "late"]
    /\ UNCHANGED <<extreme, parent, intent, idem, mode, thread, placed, spared>>

Cancellable_Settled(o) == status[o] \in {"active", "triggering", "triggered"}
Cancellable(o) == status[o] \in {"active", "triggering"}

CancelConditionalOrder(o, r) ==
    /\ Cancellable(o)
    /\ Call(r)
    /\ status' = IF Applied(r) THEN [status EXCEPT ![o] = "cancelled"] ELSE status
    /\ UNCHANGED <<extreme, parent, intent, idem, mode, creating, thread,
                   placed, spared>>

\* Deleting the bracket's own row leaves its legs as they are.
CancelBracketParent(g, r) ==
    /\ parent[g] = "parent_bracket"
    /\ Call(r)
    /\ parent' = IF Applied(r) THEN [parent EXCEPT ![g] = "cancelled"] ELSE parent
    /\ UNCHANGED <<status, extreme, intent, idem, mode, creating, thread,
                   placed, spared>>

-----------------------------------------------------------------------------
(* evaluate_conditional_orders.                                            *)

\* list_conditional_orders: the loop runs over this snapshot to its end.  A
\* SELECT that fails lists nothing, and the request does nothing.
ListConditionalOrders(w) ==
    /\ pc[w] = "idle"
    /\ pc' = [pc EXCEPT ![w] = "eval"]
    /\ todo' = [todo EXCEPT ![w] = {o \in Order : status[o] = "active"}]
    /\ seen' = [seen EXCEPT ![w] =
            [o \in Order |-> IF status[o] = "active" THEN extreme[o] ELSE 0]]
    /\ UNCHANGED <<db, idem, mode, creating, cur, exempt, claimed, result,
                   placed, spared, failures>>

FinishEvaluation(w) ==
    /\ pc[w] = "eval"
    /\ todo[w] = {}
    /\ pc' = [pc EXCEPT ![w] = "idle"]
    /\ seen' = [seen EXCEPT ![w] = NothingSeen]
    /\ UNCHANGED <<db, idem, mode, creating, todo, cur, exempt, claimed,
                   result, placed, spared, failures>>

\* The payload extreme of a trailing stop after seeing price p; p = 0 is a
\* missing price, which leaves the listed payload as it was.
Trailed(o, e, p) ==
    IF p = 0 THEN e
    ELSE IF e = 0 \/ (IF SideOf[o] = "sell" THEN p > e ELSE p < e) THEN p ELSE e

Level(o, e, p) ==
    IF Kind(o) # "trailing_stop" THEN TriggerOf[o]
    ELSE IF SideOf[o] = "sell" THEN Trailed(o, e, p) - TriggerOf[o]
                               ELSE Trailed(o, e, p) + TriggerOf[o]

\* A stop of a sell, and a target of a buy, are hit from above.
ConditionalTriggered(o, e, p) ==
    /\ p # 0
    /\ IF (Kind(o) = "take_profit") = (SideOf[o] = "sell")
         THEN p >= Level(o, e, p)
         ELSE p <= Level(o, e, p)

Sibling(o, p) == o \in Leg /\ p \in Leg /\ o # p /\ o[1] = p[1]

\* ORDER BY created_at: the take-profit leg of a bracket comes first.
Before(q, o) == Sibling(q, o) /\ q[2] = "take_profit"

\* One turn of the loop up to the claim.  The price is supplied by the
\* caller or read afresh for each order, so any is possible.  The payload of
\* a trailing stop is written back from the listing, if the row is active.
EvaluateOrder(w, o, p, r) ==
    /\ pc[w] = "eval"
    /\ o \in todo[w]
    /\ \A q \in todo[w] : ~Before(q, o)
    /\ todo' = [todo EXCEPT ![w] = @ \ {o}]
    /\ seen' = [seen EXCEPT ![w][o] = 0]
    /\ IF Kind(o) = "trailing_stop"
         THEN /\ Call(r)
              /\ extreme' = IF Applied(r) /\ status[o] = "active" /\ Trailed(o, seen[w][o], p) # 0
                              THEN [extreme EXCEPT ![o] = Trailed(o, seen[w][o], p)]
                              ELSE extreme
         ELSE r = "ok" /\ UNCHANGED <<extreme, failures>>
    /\ IF ConditionalTriggered(o, seen[w][o], p)
         THEN pc' = [pc EXCEPT ![w] = "claim"] /\ cur' = [cur EXCEPT ![w] = o]
         ELSE UNCHANGED <<pc, cur>>
    /\ UNCHANGED <<status, parent, intent, idem, mode, creating, exempt,
                   claimed, result, placed, spared>>

\* Worker w goes on with its listing.
Continue(w) ==
    /\ pc' = [pc EXCEPT ![w] = "eval"]
    /\ cur' = [cur EXCEPT ![w] = None]
    /\ exempt' = [exempt EXCEPT ![w] = FALSE]
    /\ claimed' = [claimed EXCEPT ![w] = FALSE]
    /\ result' = [result EXCEPT ![w] = "none"]
    /\ UNCHANGED <<todo, seen>>

Goto(w, l) ==
    /\ pc' = [pc EXCEPT ![w] = l]
    /\ UNCHANGED <<todo, seen, cur>>

Claimable_Triggering(o) == status[o] \in {"active", "triggering"}
Claimable(o) == status[o] = "active"

ClaimConditionalOrder(w, r) ==
    /\ pc[w] = "claim"
    /\ Call(r)
    /\ status' = IF Applied(r) /\ Claimable(cur[w])
                   THEN [status EXCEPT ![cur[w]] = "triggering"] ELSE status
    /\ IF r = "ok" /\ Claimable(cur[w])
         THEN Goto(w, "idem") /\ UNCHANGED <<exempt, claimed, result>>
         ELSE Continue(w)
    /\ UNCHANGED <<extreme, parent, intent, idem, mode, creating, placed, spared>>

-----------------------------------------------------------------------------
(* place_order, called by the evaluator with the idempotency key           *)
(* "conditional:<id>"; OrderAdmission.tla has its detail.                  *)

LiveNewExposure(w) == mode = "live" /\ ~exempt[w]

\* Request validation, then the Redis claim (SET NX, TTL 300 s).
ClaimIdempotency(w, reducing, valid, r) ==
    /\ pc[w] = "idem"
    /\ reducing => mode = "live"
    /\ exempt' = [exempt EXCEPT ![w] = reducing]
    /\ LET free    == ~idem[cur[w]]
           refused == \/ ~valid                                     \* 400
                      \/ r = "ok" /\ ~free                          \* 409
                      \/ r # "ok" /\ mode = "live" /\ ~reducing     \* 503
       IN /\ idem' = IF valid /\ Applied(r) THEN [idem EXCEPT ![cur[w]] = TRUE] ELSE idem
          /\ claimed' = [claimed EXCEPT ![w] = valid /\ r = "ok" /\ free]
          /\ Goto(w, IF refused THEN "release" ELSE "intent")
    /\ UNCHANGED <<db, mode, creating, result, placed, spared, failures>>

\* INSERT ... ON CONFLICT (idempotency_key) DO NOTHING.  Live new exposure
\* without an intent is refused, and gives its Redis claim back.
CreateIntent(w, r, up) ==
    /\ pc[w] = "intent"
    /\ Call(r)
    /\ LET refused == LiveNewExposure(w) /\ (r # "ok" \/ intent[cur[w]])
       IN /\ intent' = IF Applied(r) THEN [intent EXCEPT ![cur[w]] = TRUE] ELSE intent
          /\ idem' = IF refused /\ claimed[w] /\ up
                       THEN [idem EXCEPT ![cur[w]] = FALSE] ELSE idem
          /\ Goto(w, IF refused THEN "release" ELSE "route")
    \* neither is read again
    /\ exempt' = [exempt EXCEPT ![w] = FALSE]
    /\ claimed' = [claimed EXCEPT ![w] = FALSE]
    /\ UNCHANGED <<status, extreme, parent, mode, creating, result, placed, spared>>

\* A submission that raises may have reached the venue: it is recorded like
\* an accepted one, never given back.
AfterRoute_GiveBack(outcome) == IF outcome = "filled" THEN "mark" ELSE "release"
AfterRoute(outcome) == IF outcome = "refused" THEN "release" ELSE "mark"

\* route_order: refused (403, or 500 for a missing final audit), or placed.
\* Paper placements fill at once; live ones may only be accepted, or unknown.
RouteOrder(w, outcome) ==
    /\ pc[w] = "route"
    /\ outcome = "accepted" => mode = "live"
    /\ placed' = IF outcome = "refused" THEN placed ELSE [placed EXCEPT ![cur[w]] = @ + 1]
    /\ result' = [result EXCEPT ![w] = IF outcome = "refused" THEN "none" ELSE outcome]
    /\ Goto(w, AfterRoute(outcome))
    /\ UNCHANGED <<db, idem, mode, creating, exempt, claimed, spared, failures>>

-----------------------------------------------------------------------------
(* What the evaluator records of the placement.                            *)

Releasable_Active(o) == status[o] = "active"
Releasable(o) == status[o] = "triggering"

ReleaseConditionalClaim(w, r) ==
    /\ pc[w] = "release"
    /\ Call(r)
    /\ status' = IF Applied(r) /\ Releasable(cur[w])
                   THEN [status EXCEPT ![cur[w]] = "active"] ELSE status
    /\ Continue(w)
    /\ UNCHANGED <<extreme, parent, intent, idem, mode, creating, placed, spared>>

\* The result of this UPDATE is not looked at: a filled placement goes on to
\* mark_conditional_filled whether or not the row was still triggering.
MarkConditionalTriggered(w, r) ==
    /\ pc[w] = "mark"
    /\ Call(r)
    /\ status' = IF Applied(r) /\ status[cur[w]] = "triggering"
                   THEN [status EXCEPT ![cur[w]] = "triggered"] ELSE status
    /\ IF result[w] = "filled"
         THEN Goto(w, "fill") /\ UNCHANGED <<exempt, claimed, result>>
         ELSE Continue(w)
    /\ UNCHANGED <<extreme, parent, intent, idem, mode, creating, placed, spared>>

MarkConditionalFilled(w, r) ==
    /\ pc[w] = "fill"
    /\ Call(r)
    /\ status' = IF Applied(r) /\ status[cur[w]] = "triggered"
                   THEN [status EXCEPT ![cur[w]] = "filled"] ELSE status
    /\ IF r = "ok" /\ status[cur[w]] = "triggered"
         THEN Goto(w, "cancel") /\ UNCHANGED <<exempt, claimed, result>>
         ELSE Continue(w)
    /\ UNCHANGED <<extreme, parent, intent, idem, mode, creating, placed, spared>>

OcoTarget_Triggering(o, source) == Sibling(o, source) /\ status[o] = "triggering"
OcoTarget(o, source) == Sibling(o, source) /\ status[o] = "active"

CancelOcoSiblings(w, r) ==
    /\ pc[w] = "cancel"
    /\ Call(r)
    /\ status' = [o \in Order |->
            IF Applied(r) /\ OcoTarget(o, cur[w])
              THEN "cancelled" ELSE status[o]]
    /\ spared' = spared \cup {o \in Leg : Sibling(o, cur[w]) /\ status[o] = "triggering"}
    /\ Continue(w)
    /\ UNCHANGED <<extreme, parent, intent, idem, mode, creating, placed>>

-----------------------------------------------------------------------------
(* The environment.                                                        *)

\* The process of w dies; the rows and the Redis key stay as they are.
Crash(w) ==
    /\ pc[w] # "idle"
    /\ failures < MaxFailures
    /\ failures' = failures + 1
    /\ pc' = [pc EXCEPT ![w] = "idle"]
    /\ todo' = [todo EXCEPT ![w] = {}]
    /\ seen' = [seen EXCEPT ![w] = NothingSeen]
    /\ cur' = [cur EXCEPT ![w] = None]
    /\ exempt' = [exempt EXCEPT ![w] = FALSE]
    /\ claimed' = [claimed EXCEPT ![w] = FALSE]
    /\ result' = [result EXCEPT ![w] = "none"]
    /\ UNCHANGED <<db, idem, mode, creating, placed, spared>>

\* The TTL of a claim runs out, or a restarted Redis has lost it.
IdempotencyExpires(o) ==
    /\ idem[o]
    /\ idem' = [idem EXCEPT ![o] = FALSE]
    /\ UNCHANGED <<db, mode, creating, thread, placed, spared, failures>>

WorkerStep(w) ==
    \/ ListConditionalOrders(w)
    \/ FinishEvaluation(w)
    \/ \E o \in Order, p \in Price \cup {0}, r \in Reply : EvaluateOrder(w, o, p, r)
    \/ \E r \in Reply : ClaimConditionalOrder(w, r)
    \/ \E reducing, valid \in BOOLEAN, r \in Reply : ClaimIdempotency(w, reducing, valid, r)
    \/ \E r \in Reply, up \in BOOLEAN : CreateIntent(w, r, up)
    \/ \E outcome \in {"refused", "filled", "accepted"} : RouteOrder(w, outcome)
    \/ \E r \in Reply : ReleaseConditionalClaim(w, r)
    \/ \E r \in Reply : MarkConditionalTriggered(w, r)
    \/ \E r \in Reply : MarkConditionalFilled(w, r)
    \/ \E r \in Reply : CancelOcoSiblings(w, r)

UserStep ==
    \E r \in Reply :
        \/ \E s \in Single : CreateSingle(s, r)
        \/ \E g \in Group : CreateBracketParent(g, r)
        \/ \E g \in Group, k \in {"take_profit", "stop_loss"} : CreateBracketChild(g, k, r)
        \/ \E o \in Order : CancelConditionalOrder(o, r)
        \/ \E g \in Group : CancelBracketParent(g, r)

Next ==
    \/ UserStep
    \/ \E w \in Worker : WorkerStep(w) \/ Crash(w)
    \/ \E o \in Order : IdempotencyExpires(o)

Spec == Init /\ [][Next]_vars

\* A request thread, once started, is run to its end by the server.  Nobody
\* is obliged to create, cancel or evaluate anything.
Busy(w) == pc[w] # "idle" /\ WorkerStep(w)

FairSpec == Spec /\ \A w \in Worker : WF_vars(Busy(w))

-----------------------------------------------------------------------------
(* Properties.                                                             *)

\* w is between its claim of cur[w] and the statement that records the end
\* of that claim.
Holds(w, o) == cur[w] = o /\ pc[w] \in {"idem", "intent", "route", "mark", "release"}

\* Two workers never work on the same conditional order at once, whatever
\* cancellations, failing calls, lost Redis claims and crashes do.
ClaimExclusive ==
    \A v, w \in Worker, o \in Order : Holds(v, o) /\ Holds(w, o) => v = w

\* A conditional order is placed at most once in its life, although its
\* Redis key expires, rejected triggers are released and tried again, and
\* workers overlap and die between the placement and the record of it.
PlacedAtMostOnce == \A o \in Order : placed[o] <= 1

\* A placement is made only for an order somebody holds, and a held order is
\* given back only unplaced: every step is one of ConditionalLifecycle.
PhaseOf(o) ==
    CASE status[o] = "absent"     -> "none"
      [] status[o] = "active"     -> "open"
      [] status[o] = "triggering" -> "held"
      [] status[o] \in {"triggered", "filled"} -> "done"
      [] status[o] = "cancelled"  ->
            IF \E w \in Worker : Holds(w, o) THEN "dying" ELSE "dead"

Lifecycle == INSTANCE ConditionalLifecycle WITH
    phase    <- [o \in Order |-> PhaseOf(o)],
    executed <- [o \in Order |-> placed[o] > 0]

ImplementsLifecycle == Lifecycle!AbsSpec

\* Once a leg of a bracket is recorded as filled no other leg stays open,
\* except while its worker is about to cancel them, when a call failed or a
\* worker died, when the other leg was inserted only afterwards, or when the
\* cancellation met it in the hands of another evaluation and passed it by.
FilledLegClosesGroup ==
    \A o, p \in Leg :
        Sibling(o, p) /\ status[o] = "filled" /\ status[p] = "active"
            => \/ \E w \in Worker : pc[w] = "cancel" /\ cur[w] = o
               \/ creating[o[1]] = "late"
               \/ p \in spared
               \/ failures > 0

\* The stop of a trailing order only ever follows the price in its favour: the
\* peak of a sell is the highest price an evaluation has seen, the trough of a
\* buy the lowest, whichever evaluation stored it last.
TrailingStopNeverLoosens ==
    [][\A o \in Order :
        extreme[o] # 0 =>
            IF SideOf[o] = "sell" THEN extreme'[o] >= extreme[o]
                                  ELSE extreme'[o] <= extreme[o]]_vars

\* The two legs of a bracket are one-cancels-other: never are both placed.
OcoExclusive == \A o, p \in Leg : Sibling(o, p) => placed[o] + placed[p] <= 1

\* A claim comes to an end: a triggering row is settled, given back or
\* cancelled, unless a worker died or a call failed.
ClaimEnds ==
    \A o \in Order :
        status[o] = "triggering" ~> status[o] # "triggering" \/ failures > 0

=============================================================================
