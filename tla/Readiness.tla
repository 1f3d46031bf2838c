----------------------------- MODULE Readiness ------------------------------
(***************************************************************************)
(* The health probes of a server process.  A probe makes its checks one    *)
(* after another and reads Redis anew for each of them, so what it reports *)
(* belongs to no single moment: between two reads the database, Redis,     *)
(* prices, integrity statuses and feeds come and go.  Component, price and *)
(* feed states are those of the moment they are read.  The three venues    *)
(* that the price authority asks in turn for the price of a symbol are one *)
(* price per symbol, found in one read.                                    *)
(*                                                                         *)
(* A fact is <<what, of whom>>.  The history keeps the facts that held and *)
(* those that failed at some moment since the probe began.                 *)
(***************************************************************************)
EXTENDS RedisRuntime, FiniteSets, Sequences

CONSTANTS ReadySymbols,  \* _PRICE_SYMBOLS, a sequence
          LegacySymbol,  \* _PRICE_SYMBOL
          Feeds,         \* sources with a snapshot key, a sequence
          FreshAge,      \* PRICE_FRESHNESS_THRESHOLD_S
          PriceAges,     \* ages a price can be found at
          FeedAges,      \* ages of a feed, in units of its expected cadence
          Setups,        \* configurations a process is started with
          NoAge,         \* a snapshot without a timestamp
          Missing,       \* no such snapshot
          MaxChanges     \* bound on what happens around a probe

ASSUME ReadinessAssumption ==
    /\ ReadySymbols \in Seq(STRING) /\ Feeds \in Seq(STRING)
    /\ Missing # "OK" /\ Missing \notin PriceAges

VARIABLES
    setup,    \* the configuration the process runs with
    world,    \* database, schema, Redis, prices, statuses, feeds
    link,     \* the process's Redis runtime
    probe,    \* the probe under way or last answered
    changes,
    witness   \* history

readinessVars == <<setup, world, link, probe, changes, witness>>

Warning == 3   \* _WARNING_MULTIPLIER, and the ingestion check's 3
Error == 10    \* _ERROR_MULTIPLIER

Range_(s) == {s[i] : i \in DOMAIN s}

-----------------------------------------------------------------------------
(* Facts.                                                                  *)

Fact(what) == <<what, Missing>>

Fresh(w, s) == w.redis /\ w.price[s] \in PriceAges /\ w.price[s] <= FreshAge

IntegrityOf(w, s) ==
    IF s = LegacySymbol /\ w.integrity[s] = Missing THEN w.latest ELSE w.integrity[s]

FeedStatus(w, f) ==
    CASE ~w.redis \/ w.feed[f] = Missing -> "error"
      [] w.redis /\ w.feed[f] = NoAge -> "fallback"
      [] OTHER -> IF w.feed[f] <= Warning THEN "ok"
                  ELSE IF w.feed[f] <= Error THEN "warning" ELSE "error"

FactsIn(w) ==
    {Fact(x) : x \in {y \in {"database", "schema", "redis", "risk_runtime"} :
        CASE y = "database" -> w.db
          [] y = "schema" -> w.db /\ w.schema
          [] y = "redis" -> w.redis
          [] y = "risk_runtime" -> setup.policyOk /\ w.redis}}
    \cup {<<"price", s>> : s \in {t \in Range_(ReadySymbols) : Fresh(w, t)}}
    \cup {<<"integrity", s>> : s \in
            {t \in Range_(ReadySymbols) : w.redis /\ IntegrityOf(w, t) = "OK"}}
    \cup {<<"feed", f>> : f \in {g \in Range_(Feeds) : FeedStatus(w, g) = "ok"}}

AllFacts ==
    {Fact(x) : x \in {"database", "schema", "redis", "risk_runtime"}}
    \cup {"price", "integrity"} \X Range_(ReadySymbols)
    \cup {"feed"} \X Range_(Feeds)

\* The old name may hold an "OK" the symbol's own key has lost already: a Redis
\* error at the first look-up is enough for the check to go by it.
HeldIn(w) ==
    FactsIn(w) \cup
    (IF w.redis /\ w.latest = "OK" THEN {<<"integrity", LegacySymbol>>} ELSE {})

Observed(w) == [held |-> witness.held \cup HeldIn(w),
                broke |-> witness.broke \cup (AllFacts \ FactsIn(w))]

-----------------------------------------------------------------------------
(* The checks, as the reads they make in order.                            *)

\* Three reads of each symbol.
MarketReads ==
    LET reads == <<"found", "price", "integrity">>
    IN [i \in 1 .. 3 * Len(ReadySymbols) |->
           <<reads[((i - 1) % 3) + 1], ReadySymbols[((i - 1) \div 3) + 1]>>]

IngestionReads == [i \in DOMAIN Feeds |-> <<"feed", Feeds[i]>>]

\* The keys of the equity feeds the data quality page adds; nothing stores them.
EquityReads == <<<<"equity", "yfinance">>, <<"equity", "stooq">>, <<"equity", "demo">>>>

\* _live_executor_capabilities: no executor is production ready.
ProductionReady == {}

Problems ==
    LET capable == setup.mode = "live" \/ setup.enabled
    IN \/ setup.enabled /\ setup.mode # "live"
       \/ setup.mode = "live" /\ ~setup.enabled
       \/ capable /\ ~setup.token
       \/ capable /\ setup.venues \cap ProductionReady = {}

LiveMode == setup.mode = "live" \/ setup.enabled

Reads(kind) ==
    CASE kind = "ready" ->
           <<Fact("database"), Fact("schema"), Fact("redis")>> \o MarketReads
           \o IngestionReads \o <<Fact("risk_runtime")>>
      [] kind = "feeds" -> IngestionReads
      [] kind = "quality" -> IngestionReads \o EquityReads
      [] kind = "health" -> <<Fact("database"), Fact("redis")>>
      [] kind = "redis" -> <<Fact("redis")>>

\* The check of Redis pings it, whatever the runtime last saw; were it to go by that:
RedisAnswers_AsLastSeen == LooksConnected(link)
RedisAnswers == world.redis

\* Whether a read finds what it looks for.
Finds(r) ==
    LET reached == Reaches(link, world.redis)
    IN CASE r = Fact("database") -> world.db
         [] r = Fact("schema") -> world.db /\ world.schema
         [] r = Fact("redis") -> RedisAnswers
         [] r = Fact("risk_runtime") -> setup.policyOk /\ GetsClient(link, world.redis)
         [] r[1] = "found" -> reached /\ world.price[r[2]] # Missing
         [] r[1] = "price" -> reached /\ Fresh(world, r[2])
         [] r[1] = "integrity" -> reached /\ world.integrity[r[2]] = "OK"
         [] r[1] = "latest" -> reached /\ world.latest = "OK"
         [] r[1] = "equity" -> FALSE
         [] r[1] = "feed" -> reached /\ FeedStatus(world, r[2]) = "ok"

\* The status of the legacy symbol is looked up under the old names as well.
Legacy(r) ==
    /\ r[1] = "integrity" /\ r[2] = LegacySymbol
    /\ ~(Reaches(link, world.redis) /\ world.integrity[r[2]] # Missing)

FactOf(r) ==
    CASE r[1] = "found" -> <<"price", r[2]>>
      [] r[1] = "latest" -> <<"integrity", r[2]>>
      [] OTHER -> r

LinkAfter(r) ==
    CASE r[1] \in {"database", "schema"} -> link
      [] r[1] = "redis" -> Pinged(link, world.redis)
      [] r[1] = "risk_runtime" -> AfterGetClient(link, world.redis)
      [] OTHER -> AfterCall(link, world.redis)

-----------------------------------------------------------------------------
(* Answers.                                                                *)

Component(f) ==
    IF f[1] \in {"price", "integrity"} THEN "market_data"
    ELSE IF f[1] = "feed" THEN "ingestion" ELSE f[1]

\* build_readiness
ConfigFailure == IF Problems THEN {"execution_config"} ELSE {}
Troubled(failed) == {Component(f) : f \in failed} \cup ConfigFailure
Blocking(failed) == IF LiveMode THEN Troubled(failed) \ {"ingestion"} ELSE {}

Answer(kind, failed) ==
    CASE kind = "ready" ->
           [code |-> IF Blocking(failed) = {} THEN 200 ELSE 503,
            status |-> IF Blocking(failed) # {} THEN "not_ready"
                       ELSE IF ~LiveMode /\ Troubled(failed) # {} THEN "degraded"
                       ELSE "ready",
            blocking |-> Blocking(failed),
            degraded |-> Troubled(failed) \ Blocking(failed)]
      [] kind = "feeds" ->
           [code |-> 200,
            status |-> IF failed = {} THEN "ok"
                       ELSE IF Cardinality(failed) < Len(Feeds) THEN "degraded" ELSE "error",
            blocking |-> {}, degraded |-> Troubled(failed) \ ConfigFailure]
      [] kind = "quality" ->
           [code |-> 200,
            status |-> IF failed = {} THEN "ok" ELSE "degraded",
            blocking |-> {}, degraded |-> Troubled(failed) \ ConfigFailure]
      [] kind = "redis" ->
           [code |-> 200,
            status |-> IF failed = {} THEN "connected" ELSE "fallback_mode",
            blocking |-> {}, degraded |-> Troubled(failed) \ ConfigFailure]
      [] kind = "health" ->
           [code |-> 200,
            status |-> IF Fact("database") \in failed THEN "degraded" ELSE "ok",
            blocking |-> {}, degraded |-> Troubled(failed) \ ConfigFailure]

-----------------------------------------------------------------------------
(* Actions.                                                                *)

NoProbe == [kind |-> "none", todo |-> <<>>, failed |-> {}]

ReadinessInit ==
    /\ setup \in Setups
    /\ \E on \in BOOLEAN :
         world = [db |-> on, schema |-> on, redis |-> TRUE,
                  price |-> [s \in Range_(ReadySymbols) |-> IF on THEN FreshAge ELSE Missing],
                  integrity |-> [s \in Range_(ReadySymbols) |-> IF on THEN "OK" ELSE Missing],
                  latest |-> IF on THEN "OK" ELSE Missing,
                  feed |-> [f \in Range_(Feeds) |-> IF on THEN Warning ELSE Missing]]
    /\ link = NewLink /\ probe = NoProbe /\ changes = 0
    /\ witness = [held |-> {}, broke |-> {}]

Ask(kind) ==
    /\ probe.kind = "none"
    /\ probe' = [kind |-> kind, todo |-> Reads(kind), failed |-> {}]
    /\ witness' = [held |-> HeldIn(world), broke |-> AllFacts \ FactsIn(world)]
    /\ UNCHANGED <<setup, world, link, changes>>

Read ==
    /\ probe.todo # <<>>
    /\ LET r == Head(probe.todo)
       IN /\ probe' = [probe EXCEPT
                !.todo = (IF Legacy(r) THEN <<<<"latest", r[2]>>>> ELSE <<>>) \o Tail(@),
                !.failed = IF Finds(r) \/ Legacy(r) THEN @ ELSE @ \cup {FactOf(r)}]
          /\ link' = LinkAfter(r)
    /\ UNCHANGED <<setup, world, changes, witness>>

Happens(w) ==
    /\ changes < MaxChanges
    /\ world' = w /\ changes' = changes + 1
    /\ witness' = Observed(w)
    /\ UNCHANGED <<setup, link, probe>>

DatabaseTurns == Happens([world EXCEPT !.db = ~@])
RedisTurns == Happens([world EXCEPT !.redis = ~@])

PriceMoves(s) ==
    \E a \in PriceAges \cup {NoAge, Missing} :
        /\ a # world.price[s] /\ (a = Missing \/ world.redis)
        /\ Happens([world EXCEPT !.price[s] = a])

\* The refresh writes a symbol's status, then the old names for the legacy one.
StatusStored(s) ==
    \E st \in {"OK", "UNKNOWN"} :
        world.redis /\ Happens([world EXCEPT !.integrity[s] = st])
LatestStored ==
    /\ world.redis /\ world.latest # world.integrity[LegacySymbol]
    /\ Happens([world EXCEPT !.latest = world.integrity[LegacySymbol]])
StatusExpires(s) == Happens([world EXCEPT !.integrity[s] = Missing])

FeedMoves(f) ==
    \E a \in FeedAges \cup {NoAge, Missing} :
        a # world.feed[f] /\ Happens([world EXCEPT !.feed[f] = a])

LinkLapses ==
    /\ changes < MaxChanges /\ link.fresh
    /\ link' = Lapsed(link) /\ changes' = changes + 1
    /\ UNCHANGED <<setup, world, probe, witness>>

Answered == probe.kind # "none" /\ probe.todo = <<>>

\* The caller has its answer and may ask again.
Replied ==
    /\ Answered
    /\ probe' = NoProbe /\ witness' = [held |-> {}, broke |-> {}]
    /\ UNCHANGED <<setup, world, link, changes>>

ReadinessNext ==
    \/ \E kind \in {"ready", "feeds", "quality", "health", "redis"} : Ask(kind)
    \/ Read
    \/ DatabaseTurns
    \/ RedisTurns
    \/ \E s \in Range_(ReadySymbols) : PriceMoves(s)
    \/ \E s \in Range_(ReadySymbols) : StatusStored(s)
    \/ LatestStored
    \/ \E s \in Range_(ReadySymbols) : StatusExpires(s)
    \/ \E f \in Range_(Feeds) : FeedMoves(f)
    \/ LinkLapses
    \/ Replied

ReadinessSpec == ReadinessInit /\ [][ReadinessNext]_readinessVars

-----------------------------------------------------------------------------
(* Properties.                                                             *)

\* What a probe answers is borne out by what happened while it ran: every
\* component it names failed at some moment of the probe, and for a component
\* it does not name each of its facts held at some moment of the probe.
\* Readiness in a live configuration refuses for nothing else.
ProbesAreWitnessed ==
    Answered =>
        LET a == Answer(probe.kind, probe.failed)
            named == a.blocking \cup a.degraded
            asked == {FactOf(r) : r \in Range_(Reads(probe.kind))}
                     \cup (IF probe.kind = "ready"
                           THEN {"price", "integrity"} \X Range_(ReadySymbols) ELSE {})
        IN /\ \A c \in named \ {"execution_config", "equity"} :
                \E f \in witness.broke : Component(f) = c
           /\ \A f \in asked : Component(f) \notin named => f \in witness.held
           /\ a.code = 503 => LiveMode
=============================================================================
