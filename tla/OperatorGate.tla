---------------------------- MODULE OperatorGate ----------------------------
(***************************************************************************)
(* Who may change what over HTTP.  The server keeps a table of all routes  *)
(* with a state-capable method, and refuses to start when the routes it    *)
(* has registered and the table differ.  A middleware judges each request  *)
(* by the table before the router sees it; the page in the browser keeps a *)
(* table of its own of the requests it adds the operator's token to.       *)
(*                                                                         *)
(* A path is the sequence of its segments after "/api"; "*" stands for a   *)
(* parameter, and a trailing slash is an empty last segment.  The router   *)
(* answers a path with a trailing slash by redirecting the caller to the   *)
(* path without it, and the caller starts over.  The server may restart    *)
(* under another configuration between any two steps.                      *)
(***************************************************************************)
EXTENDS Naturals, Sequences, FiniteSets

CONSTANTS Token,        \* bearer tokens
          NoToken,
          Inventories,  \* the sets of routes a version of the program registers
          CallerRoutes, \* what callers other than the page ask for
          MaxRestarts, MaxSends   \* bounds

NoSegment == ""   \* what follows a trailing slash

\* What they ask for has no empty segment but for a trailing slash.
ASSUME GateAssumption ==
    \A r \in CallerRoutes :
        r[2] # <<>> /\ r[2] \in Seq({r[2][i] : i \in DOMAIN r[2]} \ {NoSegment})

VARIABLES
    routes,   \* the routes this version registers
    settings,   \* configuration of the running process
    serving,  \* FALSE when start-up was refused
    kept,     \* the token in the page's session storage
    request,  \* the request under way
    restarts, sends

gateVars == <<routes, settings, serving, kept, request, restarts, sends>>

-----------------------------------------------------------------------------
(* The server's table.                                                     *)

Each(methods, paths) == methods \X paths
Post(paths) == Each({"POST"}, paths)

ModelPath(action) == <<"ml", "models", "*", action>>
Watchlist == <<"watchlists", "*">>

External ==
    Post({<<"execution", p>> : p \in {"order", "conditional-order", "smart-order"}}
         \cup {<<"execution", "conditional-orders", "evaluate">>,
               <<"execution", "jupiter", "swap">>, <<"ml", "train", "offline">>,
               ModelPath("promote"), ModelPath("rollback"), <<"decisions">>,
               <<"heuristics", "evaluate">>, <<"backtest", "run">>, <<"watchlists">>})
    \cup Each({"DELETE"}, {<<"execution", "conditional-order", "*">>})
    \cup Each({"PUT", "DELETE"}, {Watchlist})

CalculationOnly ==
    Post({<<"execution", "jupiter", "quote">>, <<"risk", "stress-test">>,
          <<"risk", "montecarlo", "run">>, <<"allocation", "rebalance-preview">>,
          <<"allocation", "execution-preview">>, <<"scenario", "run">>,
          <<"geopolitical", "scenario-run">>, <<"protection", "preview">>,
          <<"hedge", "preview">>, <<"slippage", "estimate">>, <<"replay", "run">>,
          <<"replay", "trade-simulation">>, <<"sandbox", "run">>}
         \cup {<<"decisions", "*", p>> : p \in {"replay", "counterfactual", "sensitivity"}})

Policies == External \cup CalculationOnly
Swap == <<"POST", <<"execution", "jupiter", "swap">>>>

Fits(template, path) ==
    /\ Len(template) = Len(path)
    /\ \A i \in DOMAIN path : template[i] = path[i] \/ (template[i] = "*" /\ path[i] # NoSegment)

Slashed(path) == path[Len(path)] = NoSegment
Unslashed(path) == IF Slashed(path) THEN SubSeq(path, 1, Len(path) - 1) ELSE path

Covers(table, method, path) == \E p \in table : p[1] = method /\ Fits(p[2], path)

\* classify_mutation
Classified(method, path, table) == Covers(table, method, Unslashed(path))

\* mutation_route_inventory: nothing unclassified, nothing stale.
Complete(registered) == registered \subseteq Policies /\ Policies \subseteq registered

\* The paths that instances of the table's routes are called by.
Concrete(path) == [i \in DOMAIN path |-> IF path[i] = "*" THEN "7" ELSE path[i]]

-----------------------------------------------------------------------------
(* The page's table: protectedMutation of operator_access.js.              *)

PageExact ==
    {<<"execution", "order">>, <<"execution", "conditional-order">>,
     <<"execution", "conditional-orders", "evaluate">>, <<"execution", "smart-order">>,
     <<"execution", "jupiter", "swap">>, <<"ml", "train", "offline">>, <<"decisions">>,
     <<"heuristics", "evaluate">>, <<"backtest", "run">>, <<"watchlists">>}

ProtectedMutation_ExactOnly(method, path) == method = "POST" /\ path \in PageExact
ProtectedMutation(method, path) ==
    \/ method = "POST" /\ path \in PageExact
    \/ method = "DELETE" /\ Fits(<<"execution", "conditional-order", "*">>, path)
    \/ method = "POST" /\ Fits(ModelPath("promote"), path)
    \/ method = "POST" /\ Fits(ModelPath("rollback"), path)
    \/ method \in {"PUT", "DELETE"} /\ Fits(Watchlist, path)

-----------------------------------------------------------------------------
(* Authorization.                                                          *)

LiveCapable == settings.mode = "live" \/ settings.enabled

AuthRequired == settings.flag \/ LiveCapable

\* _authorize_token: 0 is no error.
TokenError(bearer) ==
    IF ~AuthRequired THEN 0
    ELSE IF settings.token = NoToken THEN 503
    ELSE IF bearer # settings.token THEN 401
    ELSE 0

\* enforce_operator_request: the status it answers with, 0 to go on.
Enforced(r) ==
    IF ~Classified(r.method, r.path, Policies) THEN 403
    ELSE IF Classified(r.method, r.path, CalculationOnly) THEN 0
    ELSE IF TokenError(r.bearer) # 0 THEN TokenError(r.bearer)
    ELSE IF <<r.method, r.path>> = Swap /\ ~settings.swap THEN 403
    ELSE 0

-----------------------------------------------------------------------------
(* Actions.                                                                *)

NoRequest == [at |-> "none"]

Configs == [mode : {"paper", "live"}, enabled : BOOLEAN, flag : BOOLEAN,
            token : Token \cup {NoToken}, swap : BOOLEAN]

GateInit ==
    /\ routes \in Inventories /\ settings \in Configs
    \* create_app ends with validate_mutation_route_inventory.
    /\ serving = Complete(routes)
    /\ kept \in Token \cup {NoToken} /\ request = NoRequest
    /\ restarts = 0 /\ sends = 0

KeepToken(t) ==
    /\ request.at = "none"
    /\ kept' = t /\ kept # t
    /\ UNCHANGED <<routes, settings, serving, request, restarts, sends>>

\* "holds" is the token its caller means to use; the page sends it only for
\* what its own table names.
Sent(from, method, path, holds) ==
    [at |-> "sent", from |-> from, method |-> method, path |-> path, holds |-> holds,
     bearer |-> IF from = "page" /\ ~ProtectedMutation(method, path) THEN NoToken ELSE holds,
     status |-> 0]

Send(from, route, slash, t) ==
    /\ serving /\ request.at = "none" /\ sends < MaxSends
    /\ request' = Sent(from, route[1],
                       Concrete(route[2]) \o (IF slash THEN <<NoSegment>> ELSE <<>>), t)
    /\ sends' = sends + 1
    /\ UNCHANGED <<routes, settings, serving, kept, restarts>>

EnforceOperatorRequest ==
    /\ request.at = "sent"
    /\ request' = IF Enforced(request) = 0 THEN [request EXCEPT !.at = "routed"]
                  ELSE [request EXCEPT !.at = "refused", !.status = Enforced(request)]
    /\ UNCHANGED <<routes, settings, serving, kept, restarts, sends>>

\* The router: a route, a redirect to one, or nothing.
Dispatch ==
    /\ request.at = "routed"
    /\ request' =
         IF Covers(routes, request.method, request.path)
         THEN [request EXCEPT !.at = "handled"]
         ELSE IF Slashed(request.path) THEN [request EXCEPT !.at = "redirected"]
         ELSE [request EXCEPT !.at = "refused", !.status = 404]
    /\ UNCHANGED <<routes, settings, serving, kept, restarts, sends>>

FollowRedirect ==
    /\ request.at = "redirected"
    /\ request' = [request EXCEPT !.at = "sent", !.path = Unslashed(@)]
    /\ UNCHANGED <<routes, settings, serving, kept, restarts, sends>>

\* The swap handler has a guard of its own; the others run.
Handle ==
    /\ request.at = "handled"
    /\ request' =
         IF <<request.method, request.path>> = Swap /\ ~(settings.mode = "live" /\ settings.enabled)
         THEN [request EXCEPT !.at = "refused", !.status = 403]
         ELSE [request EXCEPT !.at = "done", !.status = 200]
    /\ UNCHANGED <<routes, settings, serving, kept, restarts, sends>>

\* What the server had in hand is lost, a redirected caller comes back.  (A
\* restart with no request under way leads to another initial state.)
RestartGate(c) ==
    /\ restarts < MaxRestarts /\ serving
    /\ request.at \in {"sent", "redirected", "routed"}
    /\ settings' = c /\ c # settings
    /\ request' = IF request.at = "routed" THEN NoRequest ELSE request
    /\ restarts' = restarts + 1
    /\ UNCHANGED <<routes, serving, kept, sends>>

CloseRequest ==
    /\ request.at \in {"refused", "done"}
    /\ request' = NoRequest
    /\ UNCHANGED <<routes, settings, serving, kept, restarts, sends>>

GateNext ==
    \/ \E t \in Token \cup {NoToken} : KeepToken(t)
    \/ \E route \in Policies : Send("page", route, FALSE, kept)
    \/ \E route \in CallerRoutes, slash \in BOOLEAN, t \in Token \cup {NoToken} :
          Send("caller", route, slash, t)
    \/ EnforceOperatorRequest
    \/ Dispatch
    \/ FollowRedirect
    \/ Handle
    \/ \E c \in Configs : RestartGate(c)
    \/ CloseRequest

GateSpec == GateInit /\ [][GateNext]_gateVars

-----------------------------------------------------------------------------
(* Properties.                                                             *)

\* What the configuration in force grants the caller.
Granted(r) ==
    /\ Covers(routes, r.method, Unslashed(r.path))
    /\ Covers(External, r.method, Unslashed(r.path)) =>
         /\ LiveCapable \/ settings.flag => settings.token # NoToken /\ r.holds = settings.token
         /\ <<r.method, Unslashed(r.path)>> = Swap =>
              settings.swap /\ settings.mode = "live" /\ settings.enabled

\* A request runs its handler exactly when the configuration in force grants
\* its caller that: also by way of a redirect, of a restart between redirect
\* and return, and for an operator who leaves the token to the page.
GateIsExact ==
    /\ serving => routes = Policies
    /\ request.at = "done" => Granted(request)
    /\ request.at = "refused" => ~Granted(request)
=============================================================================
