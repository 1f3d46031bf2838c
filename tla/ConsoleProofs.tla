---------------------------- MODULE ConsoleProofs ----------------------------
(***************************************************************************)
(* What an operator is told and allowed: the health probes, the gate       *)
(* before every mutation and the pages of the dashboard, for any symbols,  *)
(* feeds, callers, tokens and decisions.                                   *)
(*                                                                         *)
(* A probe accounts for every fact it was asked about: it is still to be   *)
(* read, or blamed, or held at some moment since the probe began           *)
(* (Accounted).  Two reads need more than that: the old name of a symbol's *)
(* status is only looked up where its absence is already in the history    *)
(* (OldNameJustified), and the risk runtime, which a process may hold      *)
(* without asking Redis, is read after Redis was pinged (RuntimeReadLast). *)
(*                                                                         *)
(* A request at the router or in its handler is one the gate lets through  *)
(* under the configuration in force: no restart comes between.  The        *)
(* templates of the two classes of the table fit no common path.           *)
(*                                                                         *)
(* Of the dashboard: for any number of requests, in whatever order answers *)
(* arrive.                                                                 *)
(* An answer with outcomes is drawn only on the drawing it was asked from, *)
(* and that drawing shows the decision it is about (Addressed): opening    *)
(* another decision starts a new drawing and empties the boxes.  A panel   *)
(* waits only for a request that its handler will answer on every path,    *)
(* and until then nothing but a redraw of the panel removes what the       *)
(* answer lands on.                                                        *)
(*                                                                         *)
(* Of the live feed: whatever a step does, the log of what was shown, lies *)
(* in the tab's buffer, is on the wire and is still with the listener      *)
(* stays as it is, grows by the event just published, or loses its end     *)
(* together with the subscription (LogStep).  An event is logged after its *)
(* emitter has let go of it, so never twice (Released).                    *)
(***************************************************************************)
EXTENDS DashboardPages, Readiness, OperatorGate, LiveFeed, FiniteSetTheorems,
        SequenceTheorems, WellFoundedInduction, TLAPS

-----------------------------------------------------------------------------
(* The health probes.                                                      *)

Symbols == Range_(ReadySymbols)

\* What a check may still have to read.
Readable ==
    {Fact(x) : x \in {"database", "schema", "redis", "risk_runtime"}}
    \cup {"found", "price", "integrity"} \X Symbols
    \cup {"latest"} \X (Symbols \cap {LegacySymbol})
    \cup {"feed"} \X Range_(Feeds)
    \cup {"equity"} \X {"yfinance", "stooq", "demo"}

OldName == <<"latest", LegacySymbol>>
OwnName == <<"integrity", LegacySymbol>>

Asking == probe.kind # "none"
ProbeKinds == {"ready", "feeds", "quality", "health", "redis"}

ProbeShape ==
    /\ DOMAIN world = {"db", "schema", "redis", "price", "integrity", "latest", "feed"}
    /\ world = [x \in DOMAIN world |-> world[x]]
    /\ link \in LinkType
    /\ probe = [kind |-> probe.kind, todo |-> probe.todo, failed |-> probe.failed]
    /\ witness = [held |-> witness.held, broke |-> witness.broke]
    /\ probe.kind \in ProbeKinds \cup {"none"}
    /\ probe.todo \in Seq(Readable)
    /\ ~Asking => probe.todo = <<>>

\* The history has what holds and what fails now.
Seen == HeldIn(world) \subseteq witness.held /\ AllFacts \ FactsIn(world) \subseteq witness.broke

\* A fact is blamed only if it failed since the probe began.
Blamed == \A f \in probe.failed : f \in witness.broke \/ f[1] = "equity"

\* A fact the probe was asked about is still to be read, blamed, or held at some moment.
Settled(r) ==
    \/ r \in Range_(probe.todo)
    \/ FactOf(r) \in probe.failed \cup witness.held
    \/ r = OwnName /\ OldName \in Range_(probe.todo)
Accounted == \A r \in Range_(Reads(probe.kind)) : r[1] # "found" => Settled(r)

\* The old name is looked up only when the symbol's own key has failed since the
\* probe began, or when the old name was what the symbol's status stood on.
OldNameJustified ==
    OldName \in Range_(probe.todo) => OwnName \in witness.broke \/ world.latest = "OK"

\* The risk runtime is read last, and by then Redis has been pinged: the process
\* has a client unasked only if Redis answered during the probe.
Runtime == Fact("risk_runtime")
RuntimeLastIn(s) == \A i \in DOMAIN s : s[i] = Runtime => i = Len(s)
RuntimeReadLast ==
    /\ RuntimeLastIn(probe.todo)
    /\ Runtime \in Range_(probe.todo) =>
          \/ Fact("redis") \in Range_(probe.todo)
          \/ link.fresh /\ setup.policyOk => Runtime \in witness.held

ProbeInv ==
    /\ ProbeShape
    /\ Asking => Seen /\ Blamed /\ Accounted /\ OldNameJustified /\ RuntimeReadLast

-----------------------------------------------------------------------------
\* What a concatenation holds.
LEMMA RangeConcat ==
    ASSUME NEW s \in Seq(Readable), NEW t \in Seq(Readable)
    PROVE  Range_(s \o t) = Range_(s) \cup Range_(t)
<1>1. DOMAIN (s \o t) = 1 .. Len(s) + Len(t) /\ DOMAIN s = 1 .. Len(s) /\ DOMAIN t = 1 .. Len(t)
  OBVIOUS
<1>2. ASSUME NEW x \in Range_(s \o t) PROVE x \in Range_(s) \cup Range_(t)
  <2>1. PICK i \in 1 .. Len(s) + Len(t) : x = (s \o t)[i]
    BY <1>1, <1>2 DEF Range_
  <2>2. CASE i <= Len(s)
    BY <1>1, <2>1, <2>2 DEF Range_
  <2>3. CASE i > Len(s)
    <3>1. i - Len(s) \in 1 .. Len(t) /\ x = t[i - Len(s)]
      BY <2>1, <2>3
    <3> QED
      BY <1>1, <3>1 DEF Range_
  <2> QED
    BY <2>1, <2>2, <2>3
<1>3. ASSUME NEW x \in Range_(s) PROVE x \in Range_(s \o t)
  <2>1. PICK i \in 1 .. Len(s) : x = s[i]
    BY <1>1, <1>3 DEF Range_
  <2>2. i \in 1 .. Len(s) + Len(t) /\ (s \o t)[i] = x
    BY <2>1
  <2> QED
    BY <1>1, <2>2 DEF Range_
<1>4. ASSUME NEW x \in Range_(t) PROVE x \in Range_(s \o t)
  <2>1. PICK i \in 1 .. Len(t) : x = t[i]
    BY <1>1, <1>4 DEF Range_
  <2>2. i + Len(s) \in 1 .. Len(s) + Len(t) /\ (s \o t)[i + Len(s)] = x
    BY <2>1
  <2> QED
    BY <1>1, <2>2 DEF Range_
<1> QED
  BY <1>2, <1>3, <1>4

\* What is left of a sequence without its head.
LEMMA RangeTail ==
    ASSUME NEW s \in Seq(Readable), s # <<>>
    PROVE  /\ Head(s) \in Readable /\ Tail(s) \in Seq(Readable)
           /\ Range_(s) = {Head(s)} \cup Range_(Tail(s))
<1>1. Head(s) \in Readable /\ Tail(s) \in Seq(Readable) /\ Len(Tail(s)) = Len(s) - 1 /\ Len(s) > 0
  OBVIOUS
<1>2. DOMAIN s = 1 .. Len(s) /\ DOMAIN Tail(s) = 1 .. Len(s) - 1
  BY <1>1
<1>3. ASSUME NEW x \in Range_(s) PROVE x \in {Head(s)} \cup Range_(Tail(s))
  <2>1. PICK i \in 1 .. Len(s) : x = s[i]
    BY <1>2, <1>3 DEF Range_
  <2>2. CASE i = 1
    BY <2>1, <2>2
  <2>3. CASE i > 1
    <3>1. i - 1 \in 1 .. Len(s) - 1 /\ x = Tail(s)[i - 1]
      BY <2>1, <2>3
    <3> QED
      BY <1>2, <3>1 DEF Range_
  <2> QED
    BY <2>1, <2>2, <2>3
<1>4. Head(s) \in Range_(s)
  <2>1. 1 \in DOMAIN s /\ Head(s) = s[1]
    BY <1>1, <1>2
  <2> QED
    BY <2>1 DEF Range_
<1>5. ASSUME NEW x \in Range_(Tail(s)) PROVE x \in Range_(s)
  <2>1. PICK i \in 1 .. Len(s) - 1 : x = Tail(s)[i]
    BY <1>2, <1>5 DEF Range_
  <2>2. i + 1 \in DOMAIN s /\ s[i + 1] = x
    BY <1>1, <1>2, <2>1
  <2> QED
    BY <2>2 DEF Range_
<1> QED
  BY <1>1, <1>3, <1>4, <1>5

MarketFacts == {"found", "price", "integrity"} \X Symbols

\* Every symbol is looked for, priced and asked for its integrity, and nothing else is.
LEMMA MarketElements ==
    MarketReads \in Seq(MarketFacts) /\ Range_(MarketReads) = MarketFacts
<1> DEFINE L == Len(ReadySymbols)
           names == <<"found", "price", "integrity">>
           M(i) == <<names[((i - 1) % 3) + 1], ReadySymbols[((i - 1) \div 3) + 1]>>
<1>1. L \in Nat /\ DOMAIN ReadySymbols = 1 .. L
  BY ReadinessAssumption DEF ReadinessAssumption
<1>2. MarketReads = [i \in 1 .. 3 * L |-> M(i)]
  BY DEF MarketReads
<1> HIDE DEF L
<1>3. ASSUME NEW i \in 1 .. 3 * L PROVE M(i) \in MarketFacts
  <2>1. ((i - 1) % 3) + 1 \in 1 .. 3 /\ ((i - 1) \div 3) + 1 \in 1 .. L
    BY <1>1
  <2>2. names[((i - 1) % 3) + 1] \in {"found", "price", "integrity"}
    BY <2>1
  <2>3. ReadySymbols[((i - 1) \div 3) + 1] \in Symbols
    BY <1>1, <2>1 DEF Symbols, Range_
  <2> QED
    BY <2>2, <2>3 DEF MarketFacts
<1>4. /\ MarketReads \in Seq(MarketFacts) /\ DOMAIN MarketReads = 1 .. 3 * L
      /\ \A i \in DOMAIN MarketReads : MarketReads[i] \in MarketFacts
  <2>1. 3 * L \in Nat
    BY <1>1
  <2> HIDE DEF M
  <2>2. MarketReads \in [1 .. 3 * L -> MarketFacts]
    BY <1>2, <1>3
  <2>3. DOMAIN MarketReads = 1 .. 3 * L /\ \A i \in 1 .. 3 * L : MarketReads[i] \in MarketFacts
    BY <2>2
  <2> QED
    BY <2>1, <2>2, <2>3
<1>5. ASSUME NEW w \in {"found", "price", "integrity"}, NEW s \in Symbols
      PROVE  <<w, s>> \in Range_(MarketReads)
  <2>1. PICK j \in 1 .. L : s = ReadySymbols[j]
    BY <1>1 DEF Symbols, Range_
  <2>2. PICK k \in 1 .. 3 : names[k] = w
    <3>1. names[1] = "found" /\ names[2] = "price" /\ names[3] = "integrity"
      OBVIOUS
    <3> QED
      BY <3>1
  <2> DEFINE i == 3 * (j - 1) + k
  <2>3. i \in 1 .. 3 * L /\ ((i - 1) % 3) + 1 = k /\ ((i - 1) \div 3) + 1 = j
    BY <1>1
  <2> HIDE DEF i, names
  <2>4. MarketReads[i] = <<w, s>>
    BY <1>2, <2>1, <2>2, <2>3
  <2> QED
    BY <1>4, <2>3, <2>4 DEF Range_
<1>6. MarketFacts \subseteq Range_(MarketReads)
  BY <1>5 DEF MarketFacts
<1>7. Range_(MarketReads) \subseteq MarketFacts
  BY <1>4 DEF Range_
<1> QED
  BY <1>4, <1>6, <1>7

FeedFacts == {"feed"} \X Range_(Feeds)

\* One read of each feed.
LEMMA IngestionElements ==
    IngestionReads \in Seq(FeedFacts) /\ Range_(IngestionReads) = FeedFacts
<1>1. DOMAIN Feeds = 1 .. Len(Feeds) /\ Len(Feeds) \in Nat
  BY ReadinessAssumption DEF ReadinessAssumption
<1>2. IngestionReads \in [1 .. Len(Feeds) -> FeedFacts]
  BY <1>1 DEF IngestionReads, FeedFacts, Range_
<1>3. IngestionReads \in Seq(FeedFacts)
  BY <1>1, <1>2
<1>4. \A i \in DOMAIN Feeds : IngestionReads[i] = <<"feed", Feeds[i]>>
  BY DEF IngestionReads
<1>5. DOMAIN IngestionReads = DOMAIN Feeds
  BY DEF IngestionReads
<1>6. Range_(IngestionReads) = {<<"feed", Feeds[i]>> : i \in DOMAIN Feeds}
  BY <1>4, <1>5 DEF Range_
<1>7. FeedFacts = {<<"feed", Feeds[i]>> : i \in DOMAIN Feeds}
  BY DEF FeedFacts, Range_
<1> QED
  BY <1>3, <1>6, <1>7

\* What a kind of probe asks: the risk runtime last and after Redis, no old name,
\* and every symbol when it is readiness.
LEMMA ReadsReadable ==
    ASSUME NEW kind \in ProbeKinds
    PROVE  /\ Reads(kind) \in Seq(Readable)
           /\ RuntimeLastIn(Reads(kind))
           /\ Runtime \in Range_(Reads(kind)) => Fact("redis") \in Range_(Reads(kind))
           /\ OldName \notin Range_(Reads(kind))
           /\ kind # "ready" => \A r \in Range_(Reads(kind)) : r[1] # "found"
           /\ kind = "ready" => {"price", "integrity"} \X Symbols \subseteq Range_(Reads(kind))
<1> DEFINE three == <<Fact("database"), Fact("schema"), Fact("redis")>>
           base == (three \o MarketReads) \o IngestionReads
<1>1. /\ MarketReads \in Seq(Readable) /\ IngestionReads \in Seq(Readable)
      /\ three \in Seq(Readable) /\ EquityReads \in Seq(Readable)
      /\ <<Runtime>> \in Seq(Readable)
  <2>1. MarketFacts \subseteq Readable /\ FeedFacts \subseteq Readable
    BY DEF MarketFacts, FeedFacts, Readable
  <2>2. MarketReads \in Seq(Readable)
    BY <2>1, MarketElements
  <2>3. IngestionReads \in Seq(Readable)
    BY <2>1, IngestionElements
  <2>4. /\ Fact("database") \in Readable /\ Fact("schema") \in Readable
        /\ Fact("redis") \in Readable /\ Runtime \in Readable
    BY DEF Readable, Runtime
  <2>5. \A i \in 1 .. 3 : EquityReads[i] \in Readable
    BY DEF EquityReads, Readable
  <2>6. EquityReads \in Seq(Readable)
    BY <2>5 DEF EquityReads
  <2> QED
    BY <2>2, <2>3, <2>4, <2>6
<1>2. /\ Range_(three) = {Fact("database"), Fact("schema"), Fact("redis")}
      /\ Range_(EquityReads) = {"equity"} \X {"yfinance", "stooq", "demo"}
      /\ Range_(<<Runtime>>) = {Runtime}
  BY DEF Range_, EquityReads
<1>3. \A x \in MarketFacts \cup FeedFacts \cup Range_(EquityReads) \cup Range_(three) : x # Runtime /\ x # OldName
  BY <1>2 DEF MarketFacts, FeedFacts, Runtime, OldName, Fact
<1>8. \A x \in FeedFacts \cup Range_(EquityReads) \cup Range_(three) : x[1] # "found"
  BY <1>2 DEF FeedFacts, Fact
<1> HIDE DEF three
<1>4. CASE kind = "ready"
  <2>1. base \in Seq(Readable) /\ Range_(base) = Range_(three) \cup MarketFacts \cup FeedFacts
    <3>1. three \o MarketReads \in Seq(Readable)
      BY <1>1
    <3>2. Range_(three \o MarketReads) = Range_(three) \cup MarketFacts
      BY <1>1, RangeConcat, MarketElements
    <3>3. Range_(base) = Range_(three \o MarketReads) \cup Range_(IngestionReads)
      BY <1>1, <3>1, RangeConcat
    <3>4. base \in Seq(Readable)
      BY <1>1, <3>1
    <3> QED
      BY <3>2, <3>3, <3>4, IngestionElements
  <2> HIDE DEF base
  <2>2. Reads(kind) = base \o <<Runtime>>
    BY <1>4 DEF Reads, base, three, Runtime
  <2>3. Range_(Reads(kind)) = Range_(base) \cup {Runtime} /\ Reads(kind) \in Seq(Readable)
    <3>1. base \o <<Runtime>> \in Seq(Readable)
      BY <1>1, <2>1
    <3>2. Range_(base \o <<Runtime>>) = Range_(base) \cup Range_(<<Runtime>>)
      BY <1>1, <2>1, RangeConcat
    <3> QED
      BY <1>2, <2>2, <3>1, <3>2
  <2>4. RuntimeLastIn(Reads(kind))
    <3> SUFFICES ASSUME NEW i \in DOMAIN (base \o <<Runtime>>), (base \o <<Runtime>>)[i] = Runtime
                 PROVE  i = Len(base \o <<Runtime>>)
      BY <2>2 DEF RuntimeLastIn
    <3>1. i \in 1 .. Len(base) + 1 /\ Len(base \o <<Runtime>>) = Len(base) + 1
      BY <1>1, <2>1
    <3>2. ASSUME i <= Len(base) PROVE FALSE
      <4>1. i \in DOMAIN base /\ base[i] = Runtime
        BY <2>1, <3>1, <3>2
      <4>2. base[i] \in Range_(base)
        BY <4>1 DEF Range_
      <4> QED
        BY <1>3, <2>1, <4>1, <4>2
    <3> QED
      BY <2>1, <3>1, <3>2
  <2>5. Fact("redis") \in Range_(Reads(kind)) /\ OldName \notin Range_(Reads(kind))
    BY <1>2, <1>3, <2>1, <2>3 DEF OldName, Runtime, Fact
  <2>6. {"price", "integrity"} \X Symbols \subseteq Range_(Reads(kind))
    BY <2>1, <2>3 DEF MarketFacts
  <2> QED
    BY <1>4, <2>3, <2>4, <2>5, <2>6
<1>5. CASE kind = "feeds"
  <2>1. Reads(kind) = IngestionReads /\ Range_(Reads(kind)) = FeedFacts
    BY <1>5, IngestionElements DEF Reads
  <2>2. RuntimeLastIn(Reads(kind))
    BY <1>3, <2>1 DEF RuntimeLastIn, Range_
  <2> QED
    BY <1>1, <1>3, <1>8, <1>5, <2>1, <2>2
<1>6. CASE kind = "quality"
  <2>1. Reads(kind) = IngestionReads \o EquityReads
    BY <1>6 DEF Reads
  <2>2. Reads(kind) \in Seq(Readable) /\ Range_(Reads(kind)) = FeedFacts \cup Range_(EquityReads)
    BY <1>1, <2>1, IngestionElements, RangeConcat
  <2>3. RuntimeLastIn(Reads(kind))
    BY <1>3, <2>2 DEF RuntimeLastIn, Range_
  <2> QED
    BY <1>3, <1>8, <1>6, <2>2, <2>3
<1>7. CASE kind = "health" \/ kind = "redis"
  <2>1. Reads(kind) = IF kind = "health" THEN <<Fact("database"), Fact("redis")>> ELSE <<Fact("redis")>>
    BY <1>7 DEF Reads
  <2>2. /\ <<Fact("database"), Fact("redis")>> \in Seq({Fact("database"), Fact("redis")})
        /\ <<Fact("redis")>> \in Seq({Fact("database"), Fact("redis")})
    OBVIOUS
  <2>3. \A i \in DOMAIN Reads(kind) : Reads(kind)[i] \in {Fact("database"), Fact("redis")}
    BY <2>1
  <2>4. \A x \in {Fact("database"), Fact("redis")} : /\ x \in Readable /\ x # Runtime /\ x # OldName
                                                   /\ x[1] # "found"
    BY DEF Readable, Runtime, OldName, Fact
  <2>5. Reads(kind) \in Seq(Readable)
    BY <2>1, <2>2, <2>4
  <2> QED
    BY <1>7, <2>3, <2>4, <2>5 DEF RuntimeLastIn, Range_
<1> QED
  BY <1>4, <1>5, <1>6, <1>7 DEF ProbeKinds

-----------------------------------------------------------------------------
\* What each read finds, the connection aside.
LEMMA FindsWhat ==
    /\ Finds(Fact("database")) <=> world.db
    /\ Finds(Fact("schema")) <=> world.db /\ world.schema
    /\ Finds(Fact("redis")) <=> world.redis
    /\ Finds(Runtime) <=> setup.policyOk /\ (link.fresh \/ world.redis)
    /\ \A s : Finds(<<"found", s>>) <=> world.redis /\ world.price[s] # Missing
    /\ \A s : Finds(<<"price", s>>) <=> Fresh(world, s)
    /\ \A s : Finds(<<"integrity", s>>) <=> world.redis /\ world.integrity[s] = "OK"
    /\ \A s : Finds(<<"latest", s>>) <=> world.redis /\ world.latest = "OK"
    /\ \A s : Finds(<<"feed", s>>) <=> FeedStatus(world, s) = "ok"
    /\ \A s : ~Finds(<<"equity", s>>)
<1>1. Reaches(link, world.redis) <=> world.redis
  BY DEF Reaches, GetsClient
<1>2. Finds(Fact("database")) <=> world.db
  BY DEF Finds, Fact
<1>3. Finds(Fact("schema")) <=> world.db /\ world.schema
  BY DEF Finds, Fact
<1>4. Finds(Fact("redis")) <=> world.redis
  BY DEF Finds, Fact, RedisAnswers
<1>5. Finds(Runtime) <=> setup.policyOk /\ (link.fresh \/ world.redis)
  BY DEF Finds, Fact, Runtime, GetsClient
<1>6. \A s : Finds(<<"found", s>>) <=> world.redis /\ world.price[s] # Missing
  BY <1>1 DEF Finds, Fact
<1>7. \A s : Finds(<<"price", s>>) <=> Fresh(world, s)
  BY <1>1 DEF Finds, Fact, Fresh
<1>8. \A s : Finds(<<"integrity", s>>) <=> world.redis /\ world.integrity[s] = "OK"
  BY <1>1 DEF Finds, Fact
<1>9. \A s : Finds(<<"latest", s>>) <=> world.redis /\ world.latest = "OK"
  BY <1>1 DEF Finds, Fact
<1>10. \A s : Finds(<<"feed", s>>) <=> FeedStatus(world, s) = "ok"
  BY <1>1 DEF Finds, Fact, FeedStatus
<1>11. \A s : ~Finds(<<"equity", s>>)
  BY DEF Finds, Fact
<1> QED
  BY <1>2, <1>3, <1>4, <1>5, <1>6, <1>7, <1>8, <1>9, <1>10, <1>11

\* What a read finds holds now; the risk runtime may go by an older ping.
LEMMA FoundHolds ==
    ASSUME NEW r \in Readable, r[1] \notin {"found", "equity"}, r # Runtime, Finds(r)
    PROVE  FactOf(r) \in HeldIn(world)
<1>1. CASE r \in {Fact("database"), Fact("schema"), Fact("redis")}
  <2>1. FactOf(r) = r
    BY <1>1 DEF FactOf, Fact
  <2> QED
    BY <1>1, <2>1, FindsWhat DEF HeldIn, FactsIn, Fact
<1>2. CASE \E s \in Symbols : r = <<"price", s>>
  <2>1. PICK s \in Symbols : r = <<"price", s>>
    BY <1>2
  <2>2. FactOf(r) = r /\ Fresh(world, s)
    BY <2>1, FindsWhat DEF FactOf
  <2> QED
    BY <2>1, <2>2 DEF HeldIn, FactsIn, Symbols
<1>3. CASE \E s \in Symbols : r = <<"integrity", s>>
  <2>1. PICK s \in Symbols : r = <<"integrity", s>>
    BY <1>3
  <2>2. world.redis /\ world.integrity[s] = "OK"
    BY <2>1, FindsWhat
  <2>3. IntegrityOf(world, s) = "OK" /\ FactOf(r) = r
    BY <2>1, <2>2, ReadinessAssumption DEF ReadinessAssumption, IntegrityOf, FactOf
  <2> QED
    BY <2>1, <2>2, <2>3 DEF HeldIn, FactsIn, Symbols
<1>4. CASE r = OldName
  <2>1. world.redis /\ world.latest = "OK"
    BY <1>4, FindsWhat DEF OldName
  <2>2. FactOf(r) = OwnName
    BY <1>4 DEF FactOf, OldName, OwnName
  <2> QED
    BY <2>1, <2>2 DEF HeldIn, OwnName
<1>5. CASE \E f \in Range_(Feeds) : r = <<"feed", f>>
  <2>1. PICK f \in Range_(Feeds) : r = <<"feed", f>>
    BY <1>5
  <2>2. FactOf(r) = r /\ FeedStatus(world, f) = "ok"
    BY <2>1, FindsWhat DEF FactOf
  <2> QED
    BY <2>1, <2>2 DEF HeldIn, FactsIn
<1>6. \/ r \in {Fact("database"), Fact("schema"), Fact("redis")}
      \/ \E s \in Symbols : r = <<"price", s>> \/ r = <<"integrity", s>>
      \/ r = OldName
      \/ \E f \in Range_(Feeds) : r = <<"feed", f>>
  BY DEF Readable, Runtime, Fact, OldName
<1> QED
  BY <1>1, <1>2, <1>3, <1>4, <1>5, <1>6

\* What a read misses fails now, unless another name is left to look under.
LEMMA MissedFails ==
    ASSUME NEW r \in Readable, r[1] \notin {"latest", "equity"}, ~Finds(r), ~Legacy(r)
    PROVE  FactOf(r) \in AllFacts \ FactsIn(world)
<1>1. CASE r \in {Fact("database"), Fact("schema"), Fact("redis"), Runtime}
  <2>1. FactOf(r) = r
    BY <1>1 DEF FactOf, Fact, Runtime
  <2>2. r \in AllFacts
    BY <1>1 DEF AllFacts, Runtime
  <2>3. ASSUME r \in FactsIn(world) PROVE FALSE
    <3>1. PICK x \in {"database", "schema", "redis", "risk_runtime"} :
             /\ r = Fact(x)
             /\ CASE x = "database" -> world.db
                  [] x = "schema" -> world.db /\ world.schema
                  [] x = "redis" -> world.redis
                  [] x = "risk_runtime" -> setup.policyOk /\ world.redis
      <4>1. \A t : r \notin {<<"price", t>>, <<"integrity", t>>, <<"feed", t>>}
        BY <1>1 DEF Fact, Runtime
      <4> QED
        BY <2>3, <4>1 DEF FactsIn
    <3>2. CASE x = "database"
      BY <3>1, <3>2, FindsWhat
    <3>3. CASE x = "schema"
      BY <3>1, <3>3, FindsWhat
    <3>4. CASE x = "redis"
      BY <3>1, <3>4, FindsWhat
    <3>5. CASE x = "risk_runtime"
      BY <3>1, <3>5, FindsWhat DEF Runtime
    <3> QED
      BY <3>1, <3>2, <3>3, <3>4, <3>5
  <2> QED
    BY <2>1, <2>2, <2>3
<1>2. CASE \E s \in Symbols : r = <<"found", s>> \/ r = <<"price", s>>
  <2>1. PICK s \in Symbols : r = <<"found", s>> \/ r = <<"price", s>>
    BY <1>2
  <2>2. ~Fresh(world, s)
    BY <2>1, FindsWhat, ReadinessAssumption DEF ReadinessAssumption, Fresh
  <2>3. FactOf(r) = <<"price", s>>
    BY <2>1 DEF FactOf
  <2>4. <<"price", s>> \notin FactsIn(world)
    BY <2>2 DEF FactsIn, Fact
  <2>5. <<"price", s>> \in AllFacts
    BY DEF AllFacts, Symbols
  <2> QED
    BY <2>3, <2>4, <2>5
<1>3. CASE \E s \in Symbols : r = <<"integrity", s>>
  <2>1. PICK s \in Symbols : r = <<"integrity", s>>
    BY <1>3
  <2>2. ~world.redis \/ world.integrity[s] # "OK"
    BY <2>1, FindsWhat
  <2>3. s = LegacySymbol => world.redis /\ world.integrity[s] # Missing
    BY <2>1 DEF Legacy, Reaches, GetsClient
  <2>4. ~world.redis \/ IntegrityOf(world, s) # "OK"
    BY <2>2, <2>3 DEF IntegrityOf
  <2>5. FactOf(r) = <<"integrity", s>>
    BY <2>1 DEF FactOf
  <2>6. <<"integrity", s>> \notin FactsIn(world)
    BY <2>4 DEF FactsIn, Fact
  <2>7. <<"integrity", s>> \in AllFacts
    BY DEF AllFacts, Symbols
  <2> QED
    BY <2>5, <2>6, <2>7
<1>4. CASE \E f \in Range_(Feeds) : r = <<"feed", f>>
  <2>1. PICK f \in Range_(Feeds) : r = <<"feed", f>>
    BY <1>4
  <2>2. FeedStatus(world, f) # "ok" /\ FactOf(r) = r
    BY <2>1, FindsWhat DEF FactOf
  <2>3. r \notin FactsIn(world)
    BY <2>1, <2>2 DEF FactsIn, Fact
  <2>4. r \in AllFacts
    BY <2>1 DEF AllFacts
  <2> QED
    BY <2>2, <2>3, <2>4
<1>5. \/ r \in {Fact("database"), Fact("schema"), Fact("redis"), Runtime}
      \/ \E s \in Symbols : r \in {<<"found", s>>, <<"price", s>>, <<"integrity", s>>}
      \/ \E f \in Range_(Feeds) : r = <<"feed", f>>
  BY DEF Readable, Runtime, Fact
<1> QED
  BY <1>1, <1>2, <1>3, <1>4, <1>5

\* The connection is fresh after a read only if it was before or Redis is up.
LEMMA LinkMoves ==
    ASSUME link \in LinkType, NEW r
    PROVE  /\ LinkAfter(r) \in LinkType
           /\ LinkAfter(r).fresh => link.fresh \/ world.redis
           /\ r = Fact("redis") /\ LinkAfter(r).fresh => world.redis
<1> USE DEF LinkType, Pinged, Succeeded, Failed, ResetLink, Noted
<1> DEFINE a == Pinged(link, world.redis)
           b == AfterGetClient(link, world.redis)
           c == AfterCall(link, world.redis)
<1>1. a \in LinkType /\ (a.fresh => world.redis)
  OBVIOUS
<1>2. b \in LinkType /\ (b.fresh => link.fresh \/ world.redis)
  BY <1>1 DEF AfterGetClient
<1>3. c \in LinkType /\ (c.fresh => link.fresh \/ world.redis)
  BY <1>2 DEF AfterCall, GetsClient
<1>4. LinkAfter(r) \in {link, a, b, c} /\ (r = Fact("redis") => LinkAfter(r) = a)
  BY DEF LinkAfter, Fact
<1> QED
  BY <1>1, <1>2, <1>3, <1>4

\* The risk runtime stays last while its probe goes on.
LEMMA RuntimeStaysLast ==
    ASSUME NEW s \in Seq(Readable), s # <<>>, RuntimeLastIn(s)
    PROVE  /\ RuntimeLastIn(Tail(s)) /\ RuntimeLastIn(<<OldName>> \o Tail(s))
           /\ Head(s) = Runtime => Range_(Tail(s)) = {}
<1>1. PICK t \in Seq(Readable), n \in Nat :
         /\ t = Tail(s) /\ Len(t) = n /\ DOMAIN t = 1 .. n
         /\ Len(s) = n + 1 /\ DOMAIN s = 1 .. n + 1
         /\ \A i \in 1 .. n : t[i] = s[i + 1]
         /\ Head(s) = s[1]
  <2>1. Tail(s) \in Seq(Readable) /\ Len(s) \in Nat /\ Len(s) > 0
    OBVIOUS
  <2>2. Len(Tail(s)) = Len(s) - 1 /\ Len(s) - 1 \in Nat
    BY <2>1
  <2>3. DOMAIN s = 1 .. Len(s) /\ DOMAIN Tail(s) = 1 .. Len(s) - 1
    BY <2>1, <2>2
  <2>4. \A i \in 1 .. Len(s) - 1 : Tail(s)[i] = s[i + 1]
    BY <2>1
  <2>5. Head(s) = s[1]
    BY <2>1
  <2>6. Len(s) = (Len(s) - 1) + 1
    BY <2>1
  <2> QED
    BY <2>1, <2>2, <2>3, <2>4, <2>5, <2>6
<1>2. \A i \in 1 .. n + 1 : s[i] = Runtime => i = n + 1
  BY <1>1 DEF RuntimeLastIn
<1>3. \A i \in 1 .. n : t[i] = Runtime => i = n
  BY <1>1, <1>2
<1>4. OldName # Runtime
  BY DEF OldName, Runtime, Fact
<1>5. PICK u : /\ u = <<OldName>> \o t /\ Len(u) = n + 1 /\ DOMAIN u = 1 .. n + 1
               /\ u[1] = OldName /\ \A i \in 2 .. n + 1 : u[i] = t[i - 1]
  <2>1. <<OldName>> \in Seq({OldName}) /\ Len(<<OldName>>) = 1 /\ <<OldName>>[1] = OldName
    OBVIOUS
  <2>2. Len(<<OldName>> \o t) = n + 1 /\ DOMAIN (<<OldName>> \o t) = 1 .. n + 1
    BY <1>1, <2>1
  <2>3. (<<OldName>> \o t)[1] = OldName
    BY <1>1, <2>1
  <2>4. \A i \in 2 .. n + 1 : (<<OldName>> \o t)[i] = t[i - 1]
    BY <1>1, <2>1
  <2> QED
    BY <2>2, <2>3, <2>4
<1>6. \A i \in 1 .. n + 1 : u[i] = Runtime => i = n + 1
  <2> SUFFICES ASSUME NEW i \in 1 .. n + 1, u[i] = Runtime PROVE i = n + 1
    OBVIOUS
  <2>1. i \in 2 .. n + 1 /\ i - 1 \in 1 .. n
    BY <1>4, <1>5
  <2> QED
    BY <1>3, <1>5, <2>1
<1>7. ASSUME Head(s) = Runtime PROVE Range_(t) = {}
  <2>1. n = 0
    BY <1>1, <1>2, <1>7
  <2>2. DOMAIN t = {}
    BY <1>1, <2>1
  <2> QED
    BY <2>2 DEF Range_
<1>8. RuntimeLastIn(t)
  BY <1>1, <1>3 DEF RuntimeLastIn
<1>9. RuntimeLastIn(u)
  BY <1>5, <1>6 DEF RuntimeLastIn
<1> QED
  BY <1>1, <1>5, <1>7, <1>8, <1>9

\* Answering a check.
LEMMA ReadKeeps == ProbeInv /\ Read => ProbeInv'
<1> SUFFICES ASSUME ProbeInv, Read PROVE ProbeInv'
  OBVIOUS
<1> USE DEF ProbeInv
<1>0. ProbeShape /\ Asking /\ Seen /\ Blamed /\ Accounted /\ OldNameJustified /\ RuntimeReadLast
  BY DEF ProbeShape, Read
<1> DEFINE r == Head(probe.todo)
           rest == Tail(probe.todo)
           pre == IF Legacy(r) THEN <<OldName>> ELSE <<>>
<1>1. /\ r \in Readable /\ rest \in Seq(Readable)
      /\ Range_(probe.todo) = {r} \cup Range_(rest)
  BY <1>0, RangeTail DEF ProbeShape, Read
<1>2. /\ probe'.kind = probe.kind /\ probe'.todo = pre \o rest
      /\ probe'.failed = IF Finds(r) \/ Legacy(r) THEN probe.failed ELSE probe.failed \cup {FactOf(r)}
      /\ probe' = [kind |-> probe'.kind, todo |-> probe'.todo, failed |-> probe'.failed]
      /\ link' = LinkAfter(r)
      /\ setup' = setup /\ world' = world /\ witness' = witness
  BY <1>0 DEF Read, ProbeShape, OldName, Legacy
<1>3. Legacy(r) => r = OwnName /\ LegacySymbol \in Symbols
  BY <1>1 DEF Legacy, Readable, OwnName, Fact
<1>4. /\ pre \in Seq(Readable)
      /\ Range_(pre) = IF Legacy(r) THEN {OldName} ELSE {}
  <2>1. Legacy(r) => OldName \in Readable
    BY <1>3 DEF Readable, OldName
  <2>2. Range_(<<OldName>>) = {OldName} /\ Range_(<<>>) = {}
    BY DEF Range_
  <2>3. <<>> \in Seq(Readable) /\ (Legacy(r) => <<OldName>> \in Seq(Readable))
    BY <2>1
  <2> QED
    BY <2>2, <2>3
<1>5. /\ probe'.todo \in Seq(Readable)
      /\ Range_(probe'.todo) = Range_(pre) \cup Range_(rest)
  <2>1. pre \o rest \in Seq(Readable)
    BY <1>1, <1>4
  <2> QED
    BY <1>1, <1>2, <1>4, <2>1, RangeConcat
<1>6. RuntimeLastIn(probe'.todo) /\ (r = Runtime => Range_(rest) = {})
  <2>1. /\ RuntimeLastIn(rest) /\ RuntimeLastIn(<<OldName>> \o rest)
        /\ r = Runtime => Range_(rest) = {}
    BY <1>0, RuntimeStaysLast DEF ProbeShape, RuntimeReadLast, Read
  <2>2. pre \o rest = IF Legacy(r) THEN <<OldName>> \o rest ELSE rest
    <3>1. <<>> \o rest = rest
      BY <1>1
    <3> QED
      BY <3>1
  <2> QED
    BY <1>2, <2>1, <2>2
<1>7. HeldIn(world)' = HeldIn(world) /\ FactsIn(world)' = FactsIn(world) /\ AllFacts' = AllFacts
  BY <1>2 DEF HeldIn, FactsIn
<1> HIDE DEF r, rest, pre
<1>8. ProbeShape'
  <2>1. link' \in LinkType
    BY <1>0, <1>2, LinkMoves DEF ProbeShape
  <2> QED
    BY <1>0, <1>2, <1>5, <2>1 DEF ProbeShape, Asking
<1>9. Seen'
  BY <1>0, <1>2, <1>7 DEF Seen
<1>10. ASSUME ~Finds(r), ~Legacy(r) PROVE FactOf(r) \in witness.broke \/ FactOf(r)[1] = "equity"
  <2>1. CASE r[1] = "equity"
    BY <2>1 DEF FactOf
  <2>2. CASE r[1] = "latest"
    <3>1. r = OldName /\ LegacySymbol \in Symbols /\ FactOf(r) = OwnName
      BY <1>1, <2>2 DEF Readable, OldName, OwnName, FactOf, Fact
    <3>2. OwnName \in witness.broke \/ world.latest = "OK"
      BY <1>0, <1>1, <3>1 DEF OldNameJustified
    <3>3. world.latest = "OK" => ~world.redis
      BY <1>10, <3>1, FindsWhat DEF OldName
    <3>4. ~world.redis => OwnName \notin FactsIn(world)
      BY DEF FactsIn, OwnName, Fact
    <3>5. OwnName \in AllFacts
      BY <3>1 DEF AllFacts, OwnName, Symbols
    <3> QED
      BY <1>0, <3>1, <3>2, <3>3, <3>4, <3>5 DEF Seen
  <2>3. CASE r[1] \notin {"equity", "latest"}
    BY <1>0, <1>1, <1>10, <2>3, MissedFails DEF Seen
  <2> QED
    BY <2>1, <2>2, <2>3
<1>11. Blamed'
  BY <1>0, <1>2, <1>10 DEF Blamed
<1>12. ASSUME Finds(r), r[1] # "found" PROVE FactOf(r) \in witness.held
  <2>1. r[1] # "equity"
    BY <1>1, <1>12, FindsWhat DEF Readable, Fact
  <2>2. CASE r = Runtime
    <3>1. Fact("redis") \notin Range_(probe.todo) /\ Runtime \in Range_(probe.todo)
      BY <1>1, <1>6, <2>2 DEF Runtime, Fact
    <3>2. setup.policyOk /\ (link.fresh \/ world.redis)
      BY <1>12, <2>2, FindsWhat
    <3>3. link.fresh => Runtime \in witness.held
      BY <1>0, <3>1, <3>2 DEF RuntimeReadLast
    <3>4. world.redis => Runtime \in FactsIn(world)
      BY <3>2 DEF FactsIn, Runtime
    <3>5. FactOf(r) = Runtime
      BY <2>2 DEF FactOf, Runtime, Fact
    <3> QED
      BY <1>0, <3>2, <3>3, <3>4, <3>5 DEF Seen, HeldIn
  <2>3. CASE r # Runtime
    BY <1>0, <1>1, <1>12, <2>1, <2>3, FoundHolds DEF Seen
  <2> QED
    BY <2>2, <2>3
<1>13. Accounted'
  <2> SUFFICES ASSUME NEW q \in Range_(Reads(probe.kind)), q[1] # "found" PROVE Settled(q)'
    BY <1>2 DEF Accounted
  <2>1. Settled(q)
    BY <1>0 DEF Accounted
  <2>2. ASSUME r[1] # "found" PROVE FactOf(r) \in probe'.failed \cup witness.held \/ Legacy(r)
    BY <1>2, <1>12, <2>2
  <2>3. CASE q \in Range_(rest) \/ FactOf(q) \in probe.failed \cup witness.held
    BY <1>2, <1>5, <2>3 DEF Settled
  <2>4. CASE q = r
    <3>1. Legacy(r) => r = OwnName /\ OldName \in Range_(probe'.todo)
      BY <1>3, <1>4, <1>5
    <3> QED
      BY <1>2, <2>2, <2>4, <3>1 DEF Settled
  <2>5. CASE q = OwnName /\ OldName \in Range_(rest)
    BY <1>5, <2>5 DEF Settled
  <2>6. CASE q = OwnName /\ r = OldName
    <3>1. ~Legacy(r) /\ r[1] # "found" /\ FactOf(r) = FactOf(q)
      BY <2>6 DEF Legacy, OldName, OwnName, FactOf
    <3> QED
      BY <1>2, <2>2, <3>1 DEF Settled
  <2> QED
    BY <1>1, <2>1, <2>3, <2>4, <2>5, <2>6 DEF Settled
<1>14. OldNameJustified'
  <2>1. ASSUME Legacy(r), world.latest # "OK" PROVE OwnName \in witness.broke
    <3>1. OwnName \in AllFacts
      BY <1>3, <2>1 DEF AllFacts, OwnName, Symbols
    <3>2. ~world.redis \/ world.integrity[LegacySymbol] = Missing
      BY <2>1 DEF Legacy, Reaches, GetsClient
    <3>3. ~world.redis \/ IntegrityOf(world, LegacySymbol) # "OK"
      BY <2>1, <3>2 DEF IntegrityOf
    <3>4. OwnName \notin FactsIn(world)
      BY <3>3 DEF FactsIn, OwnName, Fact
    <3> QED
      BY <1>0, <3>1, <3>4 DEF Seen
  <2> QED
    BY <1>0, <1>1, <1>2, <1>4, <1>5, <2>1 DEF OldNameJustified
<1>15. RuntimeReadLast'
  <2> SUFFICES ASSUME Runtime \in Range_(probe'.todo), Fact("redis") \notin Range_(probe'.todo),
                      link'.fresh, setup.policyOk
               PROVE  Runtime \in witness.held
    BY <1>2, <1>6 DEF RuntimeReadLast
  <2>1. Runtime \in Range_(rest)
    BY <1>4, <1>5 DEF OldName, Runtime, Fact
  <2>2. world.redis => Runtime \in witness.held
    <3>1. world.redis => Runtime \in FactsIn(world)
      BY DEF FactsIn, Runtime
    <3> QED
      BY <1>0, <3>1 DEF Seen, HeldIn
  <2>3. link.fresh \/ world.redis
    BY <1>0, <1>2, LinkMoves DEF ProbeShape
  <2>4. CASE r = Fact("redis")
    BY <1>0, <1>2, <2>2, <2>4, LinkMoves DEF ProbeShape
  <2>5. CASE r # Fact("redis")
    BY <1>0, <1>1, <1>5, <2>1, <2>2, <2>3, <2>5 DEF RuntimeReadLast
  <2> QED
    BY <2>4, <2>5
<1> QED
  BY <1>8, <1>9, <1>11, <1>13, <1>14, <1>15

\* What may happen around a probe: the record of the world keeps its fields, and
\* the old name is left behind only when the symbol's status has failed.
Possible(w) ==
    /\ DOMAIN w = {"db", "schema", "redis", "price", "integrity", "latest", "feed"}
    /\ w = [x \in DOMAIN w |-> w[x]]
    /\ w.latest = world.latest \/ w.latest = "OK" \/ OwnName \notin FactsIn(w)

\* Every change around a probe is one of those.
LEMMA ChangesArePossible ==
    ASSUME ProbeShape,
           \/ DatabaseTurns \/ RedisTurns \/ LatestStored
           \/ \E s \in Range_(ReadySymbols) : PriceMoves(s) \/ StatusStored(s) \/ StatusExpires(s)
           \/ \E f \in Range_(Feeds) : FeedMoves(f)
    PROVE  \E w : Possible(w) /\ Happens(w)
<1> DEFINE W == {"db", "schema", "redis", "price", "integrity", "latest", "feed"}
           Kept(w) == DOMAIN w = W /\ w = [x \in DOMAIN w |-> w[x]] /\ w.latest = world.latest
<1>0. DOMAIN world = W /\ world = [x \in DOMAIN world |-> world[x]]
  BY DEF ProbeShape
<1>1. \A w : Kept(w) => Possible(w)
  BY DEF Possible
<1>2. CASE DatabaseTurns
  <2>1. Kept([world EXCEPT !.db = ~@])
    BY <1>0
  <2> QED
    BY <1>1, <1>2, <2>1 DEF DatabaseTurns
<1>3. CASE RedisTurns
  <2>1. Kept([world EXCEPT !.redis = ~@])
    BY <1>0
  <2> QED
    BY <1>1, <1>3, <2>1 DEF RedisTurns
<1>4. CASE LatestStored
  <2> DEFINE w == [world EXCEPT !.latest = world.integrity[LegacySymbol]]
  <2>1. /\ DOMAIN w = W /\ w = [x \in DOMAIN w |-> w[x]]
        /\ w.latest = w.integrity[LegacySymbol]
    BY <1>0
  <2>2. Happens(w)
    BY <1>4 DEF LatestStored
  <2> HIDE DEF w
  <2>3. w.latest # "OK" => IntegrityOf(w, LegacySymbol) # "OK"
    BY <2>1 DEF IntegrityOf
  <2>4. w.latest # "OK" => OwnName \notin FactsIn(w)
    BY <2>3 DEF FactsIn, OwnName, Fact
  <2> QED
    BY <2>1, <2>2, <2>4 DEF Possible
<1>5. CASE \E s \in Range_(ReadySymbols) : PriceMoves(s) \/ StatusStored(s) \/ StatusExpires(s)
  <2>1. \A s, a : Kept([world EXCEPT !.price[s] = a]) /\ Kept([world EXCEPT !.integrity[s] = a])
    BY <1>0
  <2> HIDE DEF Kept
  <2> QED
    BY <1>1, <1>5, <2>1 DEF PriceMoves, StatusStored, StatusExpires
<1>6. CASE \E f \in Range_(Feeds) : FeedMoves(f)
  <2>1. \A f, a : Kept([world EXCEPT !.feed[f] = a])
    BY <1>0
  <2> HIDE DEF Kept
  <2> QED
    BY <1>1, <1>6, <2>1 DEF FeedMoves
<1> QED
  BY <1>2, <1>3, <1>4, <1>5, <1>6

\* Whatever happens around a probe is added to its history.
LEMMA ChangeKeeps ==
    ASSUME ProbeInv, NEW w, Possible(w), Happens(w)
    PROVE  ProbeInv'
<1>1. /\ world' = w /\ UNCHANGED <<setup, link, probe>>
      /\ witness' = [held |-> witness.held \cup HeldIn(w),
                     broke |-> witness.broke \cup (AllFacts \ FactsIn(w))]
  BY DEF Happens, Observed
<1>2. HeldIn(world)' = HeldIn(w) /\ FactsIn(world)' = FactsIn(w) /\ AllFacts' = AllFacts
  BY <1>1 DEF HeldIn, FactsIn
<1>3. ProbeShape'
  BY <1>1 DEF ProbeInv, ProbeShape, Possible, Asking
<1>4. Seen'
  BY <1>1, <1>2 DEF Seen
<1>5. ASSUME Asking PROVE Blamed' /\ Accounted' /\ RuntimeReadLast'
  BY <1>1, <1>5 DEF ProbeInv, Blamed, Accounted, Settled, RuntimeReadLast
<1>6. ASSUME Asking PROVE OldNameJustified'
  <2> SUFFICES ASSUME OldName \in Range_(probe.todo), w.latest # "OK" PROVE OwnName \in witness'.broke
    BY <1>1 DEF OldNameJustified
  <2>1. LegacySymbol \in Symbols
    <3>1. \A i \in DOMAIN probe.todo : probe.todo[i] \in Readable
      BY DEF ProbeInv, ProbeShape
    <3>2. OldName \in Readable
      BY <3>1 DEF Range_
    <3> QED
      BY <3>2 DEF Readable, OldName, Fact
  <2>2. OwnName \in AllFacts
    BY <2>1 DEF AllFacts, OwnName, Symbols
  <2>3. CASE OwnName \notin FactsIn(w)
    BY <1>1, <2>2, <2>3
  <2>4. CASE w.latest = world.latest
    BY <1>1, <1>6, <2>4 DEF ProbeInv, OldNameJustified
  <2> QED
    BY <2>3, <2>4 DEF Possible
<1>7. Asking' <=> Asking
  BY <1>1 DEF Asking
<1> QED
  BY <1>3, <1>4, <1>5, <1>6, <1>7 DEF ProbeInv

\* A probe begins with everything still to be read.
LEMMA AskKeeps == ASSUME ProbeInv, NEW kind \in ProbeKinds, Ask(kind) PROVE ProbeInv'
<1>1. /\ probe' = [kind |-> kind, todo |-> Reads(kind), failed |-> {}]
      /\ witness' = [held |-> HeldIn(world), broke |-> AllFacts \ FactsIn(world)]
      /\ UNCHANGED <<setup, world, link>>
  BY DEF Ask
<1>2. HeldIn(world)' = HeldIn(world) /\ FactsIn(world)' = FactsIn(world) /\ AllFacts' = AllFacts
  BY <1>1 DEF HeldIn, FactsIn
<1>3. ProbeShape'
  BY <1>1, ReadsReadable DEF ProbeInv, ProbeShape, Asking, ProbeKinds
<1>4. Seen'
  BY <1>1, <1>2 DEF Seen
<1>5. Blamed' /\ OldNameJustified' /\ RuntimeReadLast'
  BY <1>1, ReadsReadable DEF Blamed, OldNameJustified, RuntimeReadLast
<1>6. Accounted'
  BY <1>1 DEF Accounted, Settled
<1> QED
  BY <1>3, <1>4, <1>5, <1>6 DEF ProbeInv

\* The invariant is kept by every step of a probe and around it.
LEMMA ProbeStep == ProbeInv /\ [ReadinessNext]_readinessVars => ProbeInv'
<1> SUFFICES ASSUME ProbeInv, [ReadinessNext]_readinessVars PROVE ProbeInv'
  OBVIOUS
<1>1. ASSUME NEW kind \in ProbeKinds, Ask(kind) PROVE ProbeInv'
  BY <1>1, AskKeeps
<1>2. CASE Read
  BY <1>2, ReadKeeps
<1>3. CASE \/ DatabaseTurns \/ RedisTurns \/ LatestStored
           \/ \E s \in Range_(ReadySymbols) : PriceMoves(s) \/ StatusStored(s) \/ StatusExpires(s)
           \/ \E f \in Range_(Feeds) : FeedMoves(f)
  <2>1. PICK w : Possible(w) /\ Happens(w)
    BY <1>3, ChangesArePossible DEF ProbeInv
  <2> QED
    BY <2>1, ChangeKeeps
<1>4. CASE LinkLapses \/ UNCHANGED readinessVars
  <2>1. /\ UNCHANGED <<setup, world, probe, witness>>
        /\ link' \in LinkType /\ (link'.fresh => link.fresh)
    BY <1>4 DEF LinkLapses, readinessVars, ProbeInv, ProbeShape, LinkType, Lapsed
  <2>2. HeldIn(world)' = HeldIn(world) /\ FactsIn(world)' = FactsIn(world) /\ AllFacts' = AllFacts
    BY <2>1 DEF HeldIn, FactsIn
  <2>3. ProbeShape' /\ (Asking' <=> Asking)
    BY <2>1 DEF ProbeInv, ProbeShape, Asking
  <2>4. (Seen => Seen') /\ (Blamed => Blamed') /\ (OldNameJustified => OldNameJustified')
    BY <2>1, <2>2 DEF Seen, Blamed, OldNameJustified
  <2>5. (Accounted => Accounted') /\ (RuntimeReadLast => RuntimeReadLast')
    BY <2>1 DEF Accounted, Settled, RuntimeReadLast
  <2> QED
    BY <2>3, <2>4, <2>5 DEF ProbeInv
<1>5. CASE Replied
  BY <1>5 DEF Replied, NoProbe, ProbeInv, ProbeShape, Asking
<1> QED
  BY <1>1, <1>2, <1>3, <1>4, <1>5 DEF ReadinessNext, ProbeKinds

\* It holds of a process that has just started.
LEMMA ProbeInit == ReadinessInit => ProbeInv
<1> SUFFICES ASSUME ReadinessInit PROVE ProbeInv
  OBVIOUS
<1>1. link \in LinkType
  BY DEF ReadinessInit, LinkType, NewLink
<1>2. PICK on \in BOOLEAN :
        world = [db |-> on, schema |-> on, redis |-> TRUE,
                 price |-> [s \in Range_(ReadySymbols) |-> IF on THEN FreshAge ELSE Missing],
                 integrity |-> [s \in Range_(ReadySymbols) |-> IF on THEN "OK" ELSE Missing],
                 latest |-> IF on THEN "OK" ELSE Missing,
                 feed |-> [f \in Range_(Feeds) |-> IF on THEN Warning ELSE Missing]]
  BY DEF ReadinessInit
<1>3. /\ DOMAIN world = {"db", "schema", "redis", "price", "integrity", "latest", "feed"}
      /\ world = [x \in DOMAIN world |-> world[x]]
  BY <1>2
<1>4. probe = NoProbe /\ witness = [held |-> {}, broke |-> {}]
  BY DEF ReadinessInit
<1>5. probe.todo \in Seq(Readable)
  BY <1>4 DEF NoProbe
<1> QED
  BY <1>1, <1>3, <1>4, <1>5 DEF NoProbe, ProbeInv, ProbeShape, Asking

\* What an answer names, for any kind of probe: the components of what failed.
LEMMA AnswerNames ==
    ASSUME NEW kind \in ProbeKinds, NEW failed
    PROVE  LET a == Answer(kind, failed)
               named == a.blocking \cup a.degraded
           IN  /\ \A c \in named \ {"execution_config"} : \E f \in failed : c = Component(f)
               /\ \A f \in failed : Component(f) # "execution_config" => Component(f) \in named
               /\ a.code = 503 => LiveMode
<1> DEFINE troubled == Troubled(failed)
<1>1. /\ Answer(kind, failed).blocking \cup Answer(kind, failed).degraded
           \in {troubled, troubled \ ConfigFailure}
      /\ Answer(kind, failed).code = 503 => LiveMode
  <2>1. CASE kind = "ready"
    <3>1. LET a == Answer(kind, failed)
          IN  /\ a.blocking = Blocking(failed) /\ a.degraded = troubled \ Blocking(failed)
              /\ a.code = IF Blocking(failed) = {} THEN 200 ELSE 503
      BY <2>1 DEF Answer
    <3>2. Blocking(failed) \subseteq troubled /\ (Blocking(failed) # {} => LiveMode)
      BY DEF Blocking
    <3> QED
      BY <3>1, <3>2
  <2>2. CASE kind # "ready"
    <3>1. LET a == Answer(kind, failed)
          IN  a.blocking = {} /\ a.degraded = troubled \ ConfigFailure /\ a.code = 200
      BY <2>2 DEF Answer, ProbeKinds
    <3> QED
      BY <3>1
  <2> QED
    BY <2>1, <2>2
<1>2. ConfigFailure \subseteq {"execution_config"}
  BY DEF ConfigFailure
<1>3. troubled = {Component(f) : f \in failed} \cup ConfigFailure
  BY DEF Troubled
<1> QED
  BY <1>1, <1>2, <1>3

\* What a health probe answers is borne out by what happened while it ran, for
\* any symbols and feeds and whatever comes and goes between two of its reads:
\* what it blames failed at some moment of the probe, what it does not blame
\* held at some moment of it.
THEOREM ProbesTellTheTruth == ReadinessSpec => []ProbesAreWitnessed
<1>1. ProbeInv => ProbesAreWitnessed
  <2> SUFFICES ASSUME ProbeInv, Answered PROVE ProbesAreWitnessed
    BY DEF ProbesAreWitnessed
  <2>0. /\ ProbeShape /\ Asking /\ Blamed /\ Accounted /\ probe.todo = <<>> /\ probe.kind \in ProbeKinds
    BY DEF ProbeInv, ProbeShape, Asking, Answered
  <2> DEFINE a == Answer(probe.kind, probe.failed)
             named == a.blocking \cup a.degraded
             claims == {FactOf(r) : r \in Range_(Reads(probe.kind))}
                      \cup (IF probe.kind = "ready"
                            THEN {"price", "integrity"} \X Range_(ReadySymbols) ELSE {})
  <2>1. /\ \A c \in named \ {"execution_config"} : \E f \in probe.failed : c = Component(f)
        /\ \A f \in probe.failed : Component(f) # "execution_config" => Component(f) \in named
        /\ a.code = 503 => LiveMode
    BY <2>0, AnswerNames
  <2> HIDE DEF a
  <2>2. \A c \in named \ {"execution_config", "equity"} : \E f \in witness.broke : Component(f) = c
    <3> SUFFICES ASSUME NEW c \in named \ {"execution_config", "equity"}
                 PROVE  \E f \in witness.broke : Component(f) = c
      OBVIOUS
    <3>1. PICK f \in probe.failed : c = Component(f)
      BY <2>1
    <3>2. f[1] # "equity"
      BY <3>1 DEF Component
    <3> QED
      BY <2>0, <3>1, <3>2 DEF Blamed
  <2>3. Range_(probe.todo) = {}
    BY <2>0 DEF Range_
  <2>4. \A r \in Range_(Reads(probe.kind)) : r[1] # "found" => FactOf(r) \in probe.failed \cup witness.held
    BY <2>0, <2>3 DEF Accounted, Settled
  <2>5. \A r \in Range_(Reads(probe.kind)) : r \in Readable
    <3>1. Reads(probe.kind) \in Seq(Readable)
      BY <2>0, ReadsReadable
    <3> QED
      BY <3>1 DEF Range_
  <2>6. \A f \in claims : f \in probe.failed \cup witness.held /\ Component(f) # "execution_config"
    <3>1. ASSUME probe.kind = "ready", NEW f \in {"price", "integrity"} \X Symbols
          PROVE  f \in probe.failed \cup witness.held /\ Component(f) # "execution_config"
      <4>1. f \in Range_(Reads(probe.kind))
        BY <2>0, <3>1, ReadsReadable
      <4>2. f[1] # "found" /\ FactOf(f) = f
        BY DEF FactOf
      <4> QED
        BY <2>4, <4>1, <4>2 DEF Component
    <3>2. ASSUME NEW r \in Range_(Reads(probe.kind))
          PROVE  FactOf(r) \in probe.failed \cup witness.held /\ Component(FactOf(r)) # "execution_config"
      <4>1. CASE r[1] = "found"
        <5>1. PICK s \in Symbols : r = <<"found", s>>
          BY <2>5, <4>1 DEF Readable, Fact
        <5>2. FactOf(r) = <<"price", s>>
          BY <5>1 DEF FactOf
        <5>3. probe.kind = "ready"
          BY <2>0, <3>2, <4>1, ReadsReadable
        <5> QED
          BY <3>1, <5>2, <5>3
      <4>2. CASE r[1] # "found"
        <5>1. Component(FactOf(r)) # "execution_config"
          BY <2>5 DEF Readable, Fact, FactOf, Component
        <5> QED
          BY <2>4, <4>2, <5>1
      <4> QED
        BY <4>1, <4>2
    <3> QED
      BY <3>1, <3>2 DEF Symbols
  <2>7. \A f \in claims : Component(f) \notin named => f \in witness.held
    BY <2>1, <2>6
  <2> QED
    BY <2>1, <2>2, <2>7 DEF ProbesAreWitnessed, a
<1> QED
  BY <1>1, ProbeInit, ProbeStep, PTL DEF ReadinessSpec

-----------------------------------------------------------------------------
(* The gate before every mutation.                                         *)

TemplateWords ==
    {"*", "7", "execution", "order", "conditional-order", "smart-order", "conditional-orders",
     "evaluate", "jupiter", "swap", "quote", "ml", "train", "offline", "models", "promote",
     "rollback", "decisions", "heuristics", "backtest", "run", "watchlists", "risk",
     "stress-test", "montecarlo", "allocation", "rebalance-preview", "execution-preview",
     "scenario", "geopolitical", "scenario-run", "protection", "preview", "hedge", "slippage",
     "estimate", "replay", "trade-simulation", "sandbox", "counterfactual", "sensitivity"}

\* The segments of every path somebody may ask for, but for a trailing slash.
Segments == (TemplateWords \cup UNION {{r[2][i] : i \in DOMAIN r[2]} : r \in CallerRoutes}) \ {NoSegment}
Path == Seq(Segments) \ {<<>>}

\* A path as a caller may ask for it, with or without a trailing slash.
Askable(path) ==
    /\ path \in Seq(Segments \cup {NoSegment}) /\ Len(path) > 0
    /\ Unslashed(path) \in Path
    /\ Slashed(path) \/ Unslashed(path) = path

\* The token the caller means to use is the one it sends, or none is needed.
Presented(r) == r.bearer = r.holds \/ Covers(CalculationOnly, r.method, Unslashed(r.path))

RequestShape ==
    \/ request = NoRequest
    \/ /\ request.at \in {"sent", "routed", "handled", "redirected", "refused", "done"}
       /\ DOMAIN request = {"at", "from", "method", "path", "holds", "bearer", "status"}
       /\ request = [x \in DOMAIN request |-> request[x]]

GateInv ==
    /\ serving <=> Complete(routes)
    /\ RequestShape
    /\ request.at # "none" => serving /\ Askable(request.path) /\ Presented(request)
    /\ request.at \in {"routed", "handled"} => Enforced(request) = 0
    /\ request.at = "handled" => Covers(routes, request.method, request.path)
    /\ request.at = "done" => Granted(request)
    /\ request.at = "refused" => ~Granted(request)

\* The governed routes, by the number of their segments.
LEMMA ExternalTemplates ==
    ASSUME NEW p \in External
    PROVE  \/ p[1] = "POST" /\ p[2] \in {<<"decisions">>, <<"watchlists">>}
           \/ /\ p[1] = "POST"
              /\ p[2] \in {<<"execution", "order">>, <<"execution", "conditional-order">>,
                           <<"execution", "smart-order">>, <<"heuristics", "evaluate">>,
                           <<"backtest", "run">>}
           \/ /\ p[1] = "POST"
              /\ p[2] \in {<<"execution", "conditional-orders", "evaluate">>,
                           <<"execution", "jupiter", "swap">>, <<"ml", "train", "offline">>}
           \/ /\ p[1] = "POST"
              /\ p[2] \in {<<"ml", "models", "*", "promote">>, <<"ml", "models", "*", "rollback">>}
           \/ p[1] = "DELETE" /\ p[2] = <<"execution", "conditional-order", "*">>
           \/ p[1] \in {"PUT", "DELETE"} /\ p[2] = <<"watchlists", "*">>
BY DEF External, Post, Each, Watchlist, ModelPath

\* The routes that only calculate.
LEMMA CalculationTemplates ==
    ASSUME NEW p \in CalculationOnly
    PROVE  /\ p[1] = "POST"
           /\ \/ \E x \in {"replay", "counterfactual", "sensitivity"} : p[2] = <<"decisions", "*", x>>
              \/ p[2] \in {<<"execution", "jupiter", "quote">>, <<"risk", "montecarlo", "run">>}
              \/ \E x \in {"risk", "allocation", "scenario", "geopolitical", "protection", "hedge",
                           "slippage", "replay", "sandbox"}, y \in TemplateWords : p[2] = <<x, y>>
BY DEF CalculationOnly, Post, Each, TemplateWords

TemplateShape(t) ==
    \/ \E a \in TemplateWords : t = <<a>>
    \/ \E a, b \in TemplateWords : t = <<a, b>>
    \/ \E a, b, c \in TemplateWords : t = <<a, b, c>>
    \/ \E a, b, c, d \in TemplateWords : t = <<a, b, c, d>>

\* The templates of both classes have one to four segments, all of them words.
LEMMA TemplateShapes == ASSUME NEW p \in Policies PROVE TemplateShape(p[2])
<1>0. {"decisions", "watchlists", "execution", "order", "conditional-order", "smart-order",
       "heuristics", "evaluate", "backtest", "run", "*", "conditional-orders", "jupiter", "swap",
       "quote", "ml", "train", "offline", "models", "promote", "rollback", "risk", "montecarlo",
       "replay", "counterfactual", "sensitivity", "allocation", "scenario", "geopolitical",
       "protection", "hedge", "slippage", "sandbox"} \subseteq TemplateWords
  BY DEF TemplateWords
<1>1. CASE p \in External
  <2>1. CASE p[2] \in {<<"decisions">>, <<"watchlists">>}
    <3>1. \E a \in TemplateWords : p[2] = <<a>>
      BY <1>0, <2>1
    <3> QED
      BY <3>1 DEF TemplateShape
  <2>2. CASE p[2] \in {<<"execution", "order">>, <<"execution", "conditional-order">>,
                      <<"execution", "smart-order">>, <<"heuristics", "evaluate">>,
                      <<"backtest", "run">>, <<"watchlists", "*">>}
    <3>1. \E a, b \in TemplateWords : p[2] = <<a, b>>
      BY <1>0, <2>2
    <3> QED
      BY <3>1 DEF TemplateShape
  <2>3. CASE p[2] \in {<<"execution", "conditional-orders", "evaluate">>,
                      <<"execution", "jupiter", "swap">>, <<"ml", "train", "offline">>,
                      <<"execution", "conditional-order", "*">>}
    <3>1. \E a, b, c \in TemplateWords : p[2] = <<a, b, c>>
      BY <1>0, <2>3
    <3> QED
      BY <3>1 DEF TemplateShape
  <2>4. CASE p[2] \in {<<"ml", "models", "*", "promote">>, <<"ml", "models", "*", "rollback">>}
    <3>1. \E a, b, c, d \in TemplateWords : p[2] = <<a, b, c, d>>
      BY <1>0, <2>4
    <3> QED
      BY <3>1 DEF TemplateShape
  <2> QED
    BY <1>1, <2>1, <2>2, <2>3, <2>4, ExternalTemplates
<1>2. CASE p \in CalculationOnly
  <2>1. CASE \E x \in {"replay", "counterfactual", "sensitivity"} : p[2] = <<"decisions", "*", x>>
    <3>1. \E a, b, c \in TemplateWords : p[2] = <<a, b, c>>
      BY <1>0, <2>1
    <3> QED
      BY <3>1 DEF TemplateShape
  <2>2. CASE p[2] \in {<<"execution", "jupiter", "quote">>, <<"risk", "montecarlo", "run">>}
    <3>1. \E a, b, c \in TemplateWords : p[2] = <<a, b, c>>
      BY <1>0, <2>2
    <3> QED
      BY <3>1 DEF TemplateShape
  <2>3. CASE \E x \in {"risk", "allocation", "scenario", "geopolitical", "protection", "hedge",
                       "slippage", "replay", "sandbox"}, y \in TemplateWords : p[2] = <<x, y>>
    <3>1. \E a, b \in TemplateWords : p[2] = <<a, b>>
      BY <1>0, <2>3
    <3> QED
      BY <3>1 DEF TemplateShape
  <2> QED
    BY <1>2, <2>1, <2>2, <2>3, CalculationTemplates
<1> QED
  BY <1>1, <1>2 DEF Policies

\* Every template has a segment, and no empty one.
LEMMA Templates ==
    ASSUME NEW p \in Policies
    PROVE  p[2] \in Seq(Segments) /\ Len(p[2]) > 0
<1>1. TemplateWords \subseteq Segments
  BY DEF TemplateWords, Segments, NoSegment
<1>2. ASSUME NEW t, TemplateShape(t) PROVE t \in Seq(TemplateWords) /\ Len(t) > 0
  <2>1. CASE \E a \in TemplateWords : t = <<a>>
    BY <2>1
  <2>2. CASE \E a, b \in TemplateWords : t = <<a, b>>
    BY <2>2
  <2>3. CASE \E a, b, c \in TemplateWords : t = <<a, b, c>>
    BY <2>3
  <2>4. CASE \E a, b, c, d \in TemplateWords : t = <<a, b, c, d>>
    BY <2>4
  <2> QED
    BY <1>2, <2>1, <2>2, <2>3, <2>4 DEF TemplateShape
<1>3. p[2] \in Seq(TemplateWords) /\ Len(p[2]) > 0
  BY <1>2, TemplateShapes
<1> QED
  BY <1>1, <1>3

\* What the table covers ends in no slash, as no template does.
LEMMA CoveredHasNoSlash ==
    ASSUME NEW table \in SUBSET Policies, NEW method, NEW path \in Seq(Segments \cup {NoSegment}), Covers(table, method, path)
    PROVE  ~Slashed(path)
<1>1. PICK p \in Policies : Fits(p[2], path)
  BY DEF Covers
<1>2. p[2] \in Seq(Segments) /\ Len(p[2]) > 0 /\ Len(path) = Len(p[2])
  BY <1>1, Templates DEF Fits
<1>3. Len(path) \in DOMAIN path /\ p[2][Len(path)] # NoSegment
  BY <1>2 DEF Segments
<1> QED
  BY <1>1, <1>3 DEF Fits, Slashed

\* A template covers the path its instances are called by.
LEMMA OwnPathsFit ==
    ASSUME NEW path \in Seq(Segments)
    PROVE  /\ Fits(path, Concrete(path)) /\ Concrete(path) \in Seq(Segments)
           /\ Len(Concrete(path)) = Len(path)
<1>1. DOMAIN path = 1 .. Len(path) /\ Len(path) \in Nat
  OBVIOUS
<1>2. \A i \in 1 .. Len(path) : path[i] \in Segments
  OBVIOUS
<1>3. "7" \in Segments
  BY DEF Segments, TemplateWords, NoSegment
<1>4. Concrete(path) \in [1 .. Len(path) -> Segments]
  BY <1>1, <1>2, <1>3 DEF Concrete
<1>5. Concrete(path) \in Seq(Segments)
  BY <1>1, <1>4
<1>6. DOMAIN Concrete(path) = 1 .. Len(path)
  BY <1>4
<1>7. Len(Concrete(path)) = Len(path)
  BY <1>1, <1>5, <1>6
<1>8. \A i \in DOMAIN path : Concrete(path)[i] = IF path[i] = "*" THEN "7" ELSE path[i]
  BY DEF Concrete
<1> QED
  BY <1>1, <1>5, <1>6, <1>7, <1>8 DEF Fits, NoSegment

\* No governed template fits what a calculation's template fits.
LEMMA TemplatesDiffer ==
    ASSUME NEW p \in External, NEW q \in CalculationOnly,
           p[1] = q[1], Len(p[2]) = Len(q[2]),
           \A i \in 1 .. Len(q[2]) : p[2][i] = q[2][i] \/ p[2][i] = "*" \/ q[2][i] = "*"
    PROVE  FALSE
<1>1. p[1] = "POST"
  BY CalculationTemplates
<1>2. CASE \E x \in {"replay", "counterfactual", "sensitivity"} : q[2] = <<"decisions", "*", x>>
  <2>1. Len(q[2]) = 3 /\ q[2][1] = "decisions"
    BY <1>2
  <2>2. p[2][1] \in {"decisions", "*"} /\ Len(p[2]) = 3
    BY <2>1
  <2> QED
    BY <1>1, <2>2, ExternalTemplates
<1>3. CASE q[2] \in {<<"execution", "jupiter", "quote">>, <<"risk", "montecarlo", "run">>}
  <2>1. /\ Len(q[2]) = 3 /\ q[2][1] # "*" /\ q[2][2] # "*" /\ q[2][3] # "*"
        /\ q[2][1] = "risk" \/ (q[2][2] = "jupiter" /\ q[2][3] = "quote")
    <3>1. CASE q[2] = <<"execution", "jupiter", "quote">>
      BY <3>1
    <3>2. CASE q[2] = <<"risk", "montecarlo", "run">>
      BY <3>2
    <3> QED
      BY <1>3, <3>1, <3>2
  <2>2. /\ Len(p[2]) = 3
        /\ p[2][1] \in {"risk", "*"} \/ (p[2][2] \in {"jupiter", "*"} /\ p[2][3] \in {"quote", "*"})
    BY <2>1
  <2>3. p[2] \in {<<"execution", "conditional-orders", "evaluate">>,
                   <<"execution", "jupiter", "swap">>, <<"ml", "train", "offline">>}
    BY <1>1, <2>2, ExternalTemplates
  <2> QED
    BY <2>2, <2>3
<1>4. CASE \E x \in {"risk", "allocation", "scenario", "geopolitical", "protection", "hedge",
                      "slippage", "replay", "sandbox"}, y \in TemplateWords : q[2] = <<x, y>>
  <2>1. /\ Len(q[2]) = 2
        /\ q[2][1] \in {"risk", "allocation", "scenario", "geopolitical", "protection", "hedge",
                        "slippage", "replay", "sandbox"}
    BY <1>4
  <2>2. p[2] \in {<<"execution", "order">>, <<"execution", "conditional-order">>,
                   <<"execution", "smart-order">>, <<"heuristics", "evaluate">>,
                   <<"backtest", "run">>}
    BY <1>1, <2>1, ExternalTemplates
  <2>3. p[2][1] \in {"execution", "heuristics", "backtest"}
    BY <2>2
  <2> QED
    BY <2>1, <2>3
<1> QED
  BY <1>2, <1>3, <1>4, CalculationTemplates

\* No path is both: what only calculates is governed by no token.
LEMMA ClassesDiffer ==
    ASSUME NEW method, NEW path \in Seq(Segments \cup {NoSegment}),
           Covers(External, method, path), Covers(CalculationOnly, method, path)
    PROVE  FALSE
<1>1. PICK p \in External : p[1] = method /\ Fits(p[2], path)
  BY DEF Covers
<1>2. PICK q \in CalculationOnly : q[1] = method /\ Fits(q[2], path)
  BY DEF Covers
<1>3. Len(p[2]) = Len(q[2])
  BY <1>1, <1>2 DEF Fits
<1>4. \A i \in 1 .. Len(q[2]) : p[2][i] = q[2][i] \/ p[2][i] = "*" \/ q[2][i] = "*"
  BY <1>1, <1>2 DEF Fits
<1> QED
  BY <1>1, <1>2, <1>3, <1>4, TemplatesDiffer

\* The page adds its token to every governed request of its own.
LEMMA PageCoversExternal ==
    ASSUME NEW p \in External
    PROVE  ProtectedMutation(p[1], Concrete(p[2]))
<1>1. p[2] \in Seq(Segments) /\ Fits(p[2], Concrete(p[2]))
  BY Templates, OwnPathsFit DEF Policies
<1>2. CASE p[1] = "POST" /\ p[2] \in PageExact
  <2>1. \A i \in DOMAIN p[2] : p[2][i] # "*"
    BY <1>2 DEF PageExact
  <2>2. Concrete(p[2]) = [i \in DOMAIN p[2] |-> p[2][i]]
    BY <2>1 DEF Concrete
  <2>3. Concrete(p[2]) = p[2]
    BY <1>1, <2>2
  <2> QED
    BY <1>2, <2>3 DEF ProtectedMutation
<1>3. CASE /\ p[1] = "POST"
           /\ p[2] \in {<<"ml", "models", "*", "promote">>, <<"ml", "models", "*", "rollback">>}
  BY <1>1, <1>3 DEF ProtectedMutation, ModelPath
<1>4. CASE p[1] = "DELETE" /\ p[2] = <<"execution", "conditional-order", "*">>
  BY <1>1, <1>4 DEF ProtectedMutation
<1>5. CASE p[1] \in {"PUT", "DELETE"} /\ p[2] = <<"watchlists", "*">>
  BY <1>1, <1>5 DEF ProtectedMutation, Watchlist
<1> QED
  BY <1>2, <1>3, <1>4, <1>5, ExternalTemplates DEF PageExact

\* A path with one more segment.
LEMMA OneMore ==
    ASSUME NEW S, NEW s \in Seq(S), NEW x \in S
    PROVE  /\ s \o <<x>> \in Seq(S) /\ Len(s \o <<x>>) = Len(s) + 1
           /\ (s \o <<x>>)[Len(s) + 1] = x
           /\ \A i \in 1 .. Len(s) : (s \o <<x>>)[i] = s[i]
OBVIOUS

\* A path that can be asked for, with and without its trailing slash.
LEMMA AskedPaths ==
    ASSUME NEW path \in Path, NEW slash \in BOOLEAN
    PROVE  Askable(path \o (IF slash THEN <<NoSegment>> ELSE <<>>))
<1>1. /\ path \in Seq(Segments) /\ Len(path) > 0 /\ Len(path) \in Nat
      /\ \A i \in 1 .. Len(path) : path[i] \in Segments
  BY DEF Path
<1>2. path[Len(path)] # NoSegment
  BY <1>1 DEF Segments
<1>3. path \in Seq(Segments \cup {NoSegment})
  BY <1>1
<1>4. path \o <<>> = path
  BY <1>1
<1>5. Askable(path)
  BY <1>1, <1>2, <1>3 DEF Askable, Unslashed, Slashed, Path
<1> DEFINE long == path \o <<NoSegment>>
<1>6. /\ long \in Seq(Segments \cup {NoSegment})
      /\ Len(long) = Len(path) + 1 /\ long[Len(path) + 1] = NoSegment
      /\ \A i \in 1 .. Len(path) : long[i] = path[i]
  <2> DEFINE S == Segments \cup {NoSegment}
  <2>1. path \in Seq(S) /\ NoSegment \in S
    BY <1>3
  <2> HIDE DEF S
  <2>2. /\ path \o <<NoSegment>> \in Seq(S) /\ Len(path \o <<NoSegment>>) = Len(path) + 1
        /\ (path \o <<NoSegment>>)[Len(path) + 1] = NoSegment
        /\ \A i \in 1 .. Len(path) : (path \o <<NoSegment>>)[i] = path[i]
    BY <2>1, OneMore
  <2> QED
    BY <2>2 DEF S
<1> HIDE DEF long
<1>7. Slashed(long) /\ Unslashed(long) = SubSeq(long, 1, Len(path))
  BY <1>1, <1>6 DEF Slashed, Unslashed
<1>8. SubSeq(long, 1, Len(path)) = path
  BY <1>1, <1>6
<1>9. Askable(long)
  BY <1>1, <1>6, <1>7, <1>8 DEF Askable, Path
<1> QED
  BY <1>4, <1>5, <1>9 DEF long

\* The redirect: the path without its slash is asked for as it is.
LEMMA UnslashedIsAskable ==
    ASSUME NEW path, Askable(path)
    PROVE  /\ Askable(Unslashed(path)) /\ Unslashed(Unslashed(path)) = Unslashed(path)
           /\ ~Slashed(path) => Unslashed(path) = path
<1>1. Unslashed(path) \in Path
  BY DEF Askable
<1> DEFINE u == Unslashed(path)
<1> HIDE DEF u
<1>2. /\ u \in Seq(Segments) /\ Len(u) > 0 /\ Len(u) \in Nat
      /\ \A i \in 1 .. Len(u) : u[i] \in Segments
  BY <1>1 DEF Path, u
<1>3. ~Slashed(u)
  BY <1>2 DEF Slashed, Segments
<1>4. Unslashed(u) = u
  BY <1>3 DEF Unslashed
<1>5. u \in Seq(Segments \cup {NoSegment})
  BY <1>2
<1> QED
  BY <1>1, <1>2, <1>3, <1>4, <1>5 DEF Askable, u, Unslashed

\* The gate in words: what is let through is classified, and the token presented
\* is the operator's or none is asked for.
LEMMA EnforcedMeans ==
    ASSUME NEW r, Enforced(r) = 0
    PROVE  /\ Classified(r.method, r.path, Policies)
           /\ \/ Classified(r.method, r.path, CalculationOnly)
              \/ /\ AuthRequired => settings.token # NoToken /\ r.bearer = settings.token
                 /\ <<r.method, r.path>> = Swap => settings.swap
BY DEF Enforced, TokenError

\* What is refused: what nobody classified, a missing or a wrong token, or a swap.
LEMMA RefusedMeans ==
    ASSUME NEW r, Enforced(r) # 0
    PROVE  \/ ~Classified(r.method, r.path, Policies)
           \/ /\ ~Classified(r.method, r.path, CalculationOnly)
              /\ \/ AuthRequired /\ (settings.token = NoToken \/ r.bearer # settings.token)
                 \/ <<r.method, r.path>> = Swap /\ ~settings.swap
BY DEF Enforced, TokenError

\* What the table covers, one of its two classes covers.
LEMMA CoversSplit ==
    ASSUME NEW method, NEW path
    PROVE  Covers(Policies, method, path) <=> Covers(External, method, path) \/ Covers(CalculationOnly, method, path)
BY DEF Covers, Policies

\* The swap is governed, and its path has no slash to lose.
LEMMA SwapIsGoverned ==
    ASSUME NEW r, Askable(r.path), <<r.method, Unslashed(r.path)>> = Swap
    PROVE  Covers(External, r.method, Unslashed(r.path))
<1>1. Swap \in External
  BY DEF Swap, External, Post, Each
<1>2. Fits(Swap[2], Swap[2])
  <2>1. Swap[2] = <<"execution", "jupiter", "swap">>
    BY DEF Swap
  <2> QED
    BY <2>1 DEF Fits
<1> QED
  BY <1>1, <1>2 DEF Covers

\* What the gate refuses, the configuration does not grant.
LEMMA RefusalIsRight ==
    ASSUME NEW r, Askable(r.path), Presented(r), routes = Policies, Enforced(r) # 0
    PROVE  ~Granted(r)
<1> SUFFICES ASSUME Granted(r) PROVE FALSE
  OBVIOUS
<1>1. Covers(Policies, r.method, Unslashed(r.path))
  BY DEF Granted
<1>2. /\ ~Covers(CalculationOnly, r.method, Unslashed(r.path))
      /\ \/ AuthRequired /\ (settings.token = NoToken \/ r.bearer # settings.token)
         \/ <<r.method, r.path>> = Swap /\ ~settings.swap
  BY <1>1, RefusedMeans DEF Classified
<1>3. Covers(External, r.method, Unslashed(r.path)) /\ r.bearer = r.holds
  BY <1>1, <1>2, CoversSplit DEF Presented
<1>4. AuthRequired => settings.token # NoToken /\ r.holds = settings.token
  BY <1>3 DEF Granted, AuthRequired, LiveCapable
<1>5. <<r.method, r.path>> = Swap => <<r.method, Unslashed(r.path)>> = Swap
  <2> SUFFICES ASSUME r.path = <<"execution", "jupiter", "swap">> PROVE Unslashed(r.path) = r.path
    BY DEF Swap
  <2>1. ~Slashed(r.path)
    BY DEF Slashed, NoSegment
  <2> QED
    BY <2>1 DEF Unslashed
<1> QED
  BY <1>2, <1>3, <1>4, <1>5 DEF Granted

\* What the gate lets through to the router and to the end, it grants.
LEMMA PassageIsRight ==
    ASSUME NEW r, Askable(r.path), Presented(r), routes = Policies, Enforced(r) = 0,
           Covers(routes, r.method, r.path),
           <<r.method, r.path>> = Swap => settings.mode = "live" /\ settings.enabled
    PROVE  Granted(r)
<1>1. r.path \in Seq(Segments \cup {NoSegment})
  BY DEF Askable
<1>2. Unslashed(r.path) = r.path
  BY <1>1, CoveredHasNoSlash DEF Unslashed
<1>3. ASSUME Covers(External, r.method, r.path)
      PROVE  /\ LiveCapable \/ settings.flag => settings.token # NoToken /\ r.holds = settings.token
             /\ <<r.method, r.path>> = Swap => settings.swap
  <2>1. ~Covers(CalculationOnly, r.method, r.path)
    BY <1>1, <1>3, ClassesDiffer
  <2>2. /\ AuthRequired => settings.token # NoToken /\ r.bearer = settings.token
        /\ <<r.method, r.path>> = Swap => settings.swap
    BY <1>2, <2>1, EnforcedMeans DEF Classified
  <2>3. r.bearer = r.holds
    BY <1>2, <2>1 DEF Presented
  <2> QED
    BY <2>2, <2>3 DEF AuthRequired
<1> QED
  BY <1>2, <1>3 DEF Granted

\* A request is judged by its method, path and tokens alone.
LEMMA JudgedAlike ==
    ASSUME NEW r, NEW q, r.method = q.method, r.path = q.path, r.holds = q.holds, r.bearer = q.bearer
    PROVE  /\ Granted(r) <=> Granted(q)
           /\ Enforced(r) = Enforced(q)
           /\ Presented(r) <=> Presented(q)
BY DEF Granted, Enforced, TokenError, Presented

\* A request begins with a path as it may be asked for, and a token that will do:
\* the page leaves its own out only where none is needed.
LEMMA SendKeeps ==
    ASSUME GateInv, NEW from, NEW route, route[2] \in Path, NEW slash \in BOOLEAN, NEW t,
           from = "page" => route \in Policies /\ slash = FALSE,
           Send(from, route, slash, t)
    PROVE  GateInv'
<1> DEFINE path == Concrete(route[2]) \o (IF slash THEN <<NoSegment>> ELSE <<>>)
<1>1. Concrete(route[2]) \in Path /\ Fits(route[2], Concrete(route[2]))
  BY OwnPathsFit DEF Path
<1>2. Askable(path)
  BY <1>1, AskedPaths
<1>3. ASSUME from = "page", ~ProtectedMutation(route[1], path)
      PROVE  Covers(CalculationOnly, route[1], Unslashed(path))
  <2>1. path = Concrete(route[2])
    BY <1>1, <1>3 DEF Path
  <2>2. route \in CalculationOnly
    BY <1>3, <2>1, PageCoversExternal DEF Policies
  <2>3. Unslashed(path) = path
    <3>1. ~Slashed(path)
      BY <1>1, <2>1 DEF Path, Slashed, Segments
    <3> QED
      BY <3>1 DEF Unslashed
  <2> QED
    BY <1>1, <2>1, <2>2, <2>3 DEF Covers
<1> HIDE DEF path
<1>4. /\ request'.at = "sent" /\ request'.path = path /\ request'.method = route[1]
      /\ request'.bearer = IF from = "page" /\ ~ProtectedMutation(route[1], path) THEN NoToken ELSE t
      /\ request'.holds = t
      /\ DOMAIN request' = {"at", "from", "method", "path", "holds", "bearer", "status"}
      /\ request' = [x \in DOMAIN request' |-> request'[x]]
      /\ serving /\ UNCHANGED <<routes, settings, serving>>
  BY DEF Send, Sent, path
<1>5. Presented(request')
  BY <1>3, <1>4 DEF Presented
<1>6. RequestShape'
  BY <1>4 DEF RequestShape
<1>7. (serving <=> Complete(routes))'
  BY <1>4 DEF GateInv, Complete
<1> QED
  BY <1>2, <1>4, <1>5, <1>6, <1>7 DEF GateInv, Presented

MovedTo(at) ==
    \/ request' = [request EXCEPT !.at = at]
    \/ \E status : request' = [request EXCEPT !.at = at, !.status = status]

\* A request moves on under the configuration it was judged by.
LEMMA MoveKeeps ==
    ASSUME GateInv, request.at # "none", UNCHANGED <<routes, settings, serving>>,
           NEW at \in {"routed", "handled", "redirected", "refused", "done"}, MovedTo(at),
           at \in {"routed", "handled"} => Enforced(request) = 0,
           at = "handled" => Covers(routes, request.method, request.path),
           at = "done" => Granted(request),
           at = "refused" => ~Granted(request)
    PROVE  GateInv'
<1>1. /\ DOMAIN request = {"at", "from", "method", "path", "holds", "bearer", "status"}
      /\ request = [x \in DOMAIN request |-> request[x]]
  BY DEF GateInv, RequestShape, NoRequest
<1>2. /\ DOMAIN request' = DOMAIN request /\ request' = [x \in DOMAIN request' |-> request'[x]]
      /\ request'.at = at /\ request'.method = request.method /\ request'.path = request.path
      /\ request'.holds = request.holds /\ request'.bearer = request.bearer
  BY <1>1 DEF MovedTo
<1>3. RequestShape'
  BY <1>1, <1>2 DEF RequestShape
<1>4. /\ Enforced(request)' = Enforced(request') /\ (Granted(request)' <=> Granted(request'))
      /\ (Presented(request)' <=> Presented(request'))
      /\ (serving <=> Complete(routes))'
  BY DEF Enforced, TokenError, AuthRequired, LiveCapable, Granted, Complete, GateInv, Presented
<1>5. /\ Enforced(request') = Enforced(request) /\ (Granted(request') <=> Granted(request))
      /\ (Presented(request') <=> Presented(request))
  BY <1>2, JudgedAlike
<1>6. serving' /\ Askable(request'.path) /\ Presented(request)'
  BY <1>2, <1>4, <1>5 DEF GateInv
<1> QED
  BY <1>2, <1>3, <1>4, <1>5, <1>6 DEF GateInv

\* The invariant is kept by every step of a request and of the server.
LEMMA GateStep == GateInv /\ [GateNext]_gateVars => GateInv'
<1> SUFFICES ASSUME GateInv, [GateNext]_gateVars PROVE GateInv'
  OBVIOUS
<1>0. /\ serving <=> Complete(routes)
      /\ RequestShape
      /\ request.at # "none" => /\ serving /\ routes = Policies
                               /\ Askable(request.path) /\ Presented(request)
  BY DEF GateInv, Complete
<1>1. ASSUME NEW route \in Policies, Send("page", route, FALSE, kept) PROVE GateInv'
  <2>1. route[2] \in Path
    BY Templates DEF Path
  <2> QED
    BY <1>1, <2>1, SendKeeps
<1>2. ASSUME NEW route \in CallerRoutes, NEW slash \in BOOLEAN, NEW t, Send("caller", route, slash, t)
      PROVE  GateInv'
  <2>1. route[2] # <<>> /\ route[2] \in Seq({route[2][i] : i \in DOMAIN route[2]} \ {NoSegment})
    BY GateAssumption DEF GateAssumption
  <2>2. {route[2][i] : i \in DOMAIN route[2]} \ {NoSegment} \subseteq Segments
    BY DEF Segments
  <2>3. route[2] \in Path
    BY <2>1, <2>2 DEF Path
  <2> QED
    BY <1>2, <2>3, SendKeeps
<1>3. CASE EnforceOperatorRequest
  <2>1. /\ request.at = "sent" /\ UNCHANGED <<routes, settings, serving>>
        /\ (Enforced(request) # 0 => ~Granted(request))
    BY <1>0, <1>3, RefusalIsRight DEF EnforceOperatorRequest
  <2>2. CASE Enforced(request) = 0
    <3>1. MovedTo("routed")
      BY <1>3, <2>2 DEF MovedTo, EnforceOperatorRequest
    <3> QED
      BY <2>1, <2>2, <3>1, MoveKeeps
  <2>3. CASE Enforced(request) # 0
    <3>1. MovedTo("refused")
      BY <1>3, <2>3 DEF MovedTo, EnforceOperatorRequest
    <3> QED
      BY <2>1, <2>3, <3>1, MoveKeeps
  <2> QED
    BY <2>2, <2>3
<1>4. CASE Dispatch
  <2>1. /\ request.at = "routed" /\ UNCHANGED <<routes, settings, serving>> /\ Enforced(request) = 0
    BY <1>4 DEF Dispatch, GateInv
  <2>2. CASE Covers(routes, request.method, request.path)
    <3>1. MovedTo("handled")
      BY <1>4, <2>2 DEF MovedTo, Dispatch
    <3> QED
      BY <2>1, <2>2, <3>1, MoveKeeps
  <2>3. CASE ~Covers(routes, request.method, request.path) /\ Slashed(request.path)
    <3>1. MovedTo("redirected")
      BY <1>4, <2>3 DEF MovedTo, Dispatch
    <3> QED
      BY <2>1, <3>1, MoveKeeps
  <2>4. ASSUME ~Covers(routes, request.method, request.path), ~Slashed(request.path) PROVE FALSE
    <3>1. Covers(Policies, request.method, Unslashed(request.path))
      BY <2>1, EnforcedMeans DEF Classified
    <3> QED
      BY <1>0, <2>1, <2>4, <3>1 DEF Unslashed
  <2> QED
    BY <2>2, <2>3, <2>4
<1>5. CASE FollowRedirect
  <2>1. /\ request.at = "redirected" /\ UNCHANGED <<routes, settings, serving>>
        /\ request' = [request EXCEPT !.at = "sent", !.path = Unslashed(@)]
    BY <1>5 DEF FollowRedirect
  <2>2. /\ DOMAIN request = {"at", "from", "method", "path", "holds", "bearer", "status"}
        /\ request = [x \in DOMAIN request |-> request[x]]
    BY <1>0, <2>1 DEF RequestShape, NoRequest
  <2>3. /\ DOMAIN request' = DOMAIN request /\ request' = [x \in DOMAIN request' |-> request'[x]]
        /\ request'.at = "sent" /\ request'.method = request.method
        /\ request'.path = Unslashed(request.path)
        /\ request'.holds = request.holds /\ request'.bearer = request.bearer
    BY <2>1, <2>2
  <2>4. RequestShape'
    BY <2>2, <2>3 DEF RequestShape
  <2>5. Askable(request'.path) /\ Unslashed(request'.path) = Unslashed(request.path)
    BY <1>0, <2>1, <2>3, UnslashedIsAskable
  <2>6. Presented(request)'
    BY <1>0, <2>1, <2>3, <2>5 DEF Presented
  <2> QED
    BY <1>0, <2>1, <2>3, <2>4, <2>5, <2>6 DEF GateInv, Complete
<1>6. CASE Handle
  <2>1. /\ request.at = "handled" /\ UNCHANGED <<routes, settings, serving>>
        /\ Enforced(request) = 0 /\ Covers(routes, request.method, request.path)
    BY <1>6 DEF Handle, GateInv
  <2>2. CASE <<request.method, request.path>> = Swap /\ ~(settings.mode = "live" /\ settings.enabled)
    <3>1. MovedTo("refused")
      BY <1>6, <2>2 DEF MovedTo, Handle
    <3>2. Unslashed(request.path) = request.path
      <4>1. ~Slashed(request.path)
        BY <1>0, <2>1, CoveredHasNoSlash DEF Askable
      <4> QED
        BY <4>1 DEF Unslashed
    <3>3. Covers(External, request.method, Unslashed(request.path))
      BY <1>0, <2>1, <2>2, <3>2, SwapIsGoverned
    <3>4. ~Granted(request)
      BY <2>2, <3>2, <3>3 DEF Granted
    <3> QED
      BY <2>1, <3>1, <3>4, MoveKeeps
  <2>3. CASE ~(<<request.method, request.path>> = Swap /\ ~(settings.mode = "live" /\ settings.enabled))
    <3>1. MovedTo("done")
      BY <1>6, <2>3 DEF MovedTo, Handle
    <3>2. Granted(request)
      BY <1>0, <2>1, <2>3, PassageIsRight
    <3> QED
      BY <2>1, <3>1, <3>2, MoveKeeps
  <2> QED
    BY <2>2, <2>3
<1>7. ASSUME NEW c, RestartGate(c) PROVE GateInv'
  <2>1. /\ UNCHANGED <<routes, serving>>
        /\ request' = NoRequest \/ (request' = request /\ request.at \in {"sent", "redirected"})
    BY <1>7 DEF RestartGate
  <2> QED
    BY <1>0, <2>1 DEF GateInv, NoRequest, RequestShape, Complete, Presented
<1>8. CASE CloseRequest
  BY <1>0, <1>8 DEF CloseRequest, GateInv, NoRequest, RequestShape, Complete
<1>9. CASE (\E t \in Token \cup {NoToken} : KeepToken(t)) \/ UNCHANGED gateVars
  <2>1. UNCHANGED <<settings, routes, serving, request>>
    BY <1>9 DEF KeepToken, gateVars
  <2>2. /\ Enforced(request)' = Enforced(request) /\ (Granted(request)' <=> Granted(request))
        /\ (Presented(request)' <=> Presented(request))
    BY <2>1 DEF Enforced, TokenError, AuthRequired, LiveCapable, Granted, Presented
  <2> QED
    BY <2>1, <2>2 DEF GateInv, RequestShape, Complete
<1> QED
  BY <1>1, <1>2, <1>3, <1>4, <1>5, <1>6, <1>7, <1>8, <1>9 DEF GateNext

\* A request runs its handler exactly when the configuration in force grants its
\* caller that, for any callers and tokens, by way of redirects and restarts.
THEOREM GateOpensExactly == GateSpec => []GateIsExact
<1>1. GateInit => GateInv
  BY DEF GateInit, NoRequest, GateInv, RequestShape
<1>2. GateInv => GateIsExact
  BY DEF GateInv, GateIsExact, Complete
<1> QED
  BY <1>1, <1>2, GateStep, PTL DEF GateSpec

-----------------------------------------------------------------------------
(* The pages of the dashboard.                                             *)

Kinds == Panels \cup {"run", "history", "support", "catalog"}

\* What a request is about: a page, a form, an event, a decision.
Topics == Pages \cup Forms \cup DecisionId \cup {NoDecision}
          \cup {"simulation", "second", "4h"}

Requests == [n : Nat, kind : Kinds, of : Topics, target : Nat, answer : Nat]

\* The panels whose handler announces that it is at work.
Announced == Boxes \cup {"replay", "performance", "backtest"}

Shape ==
    /\ DOMAIN panel = Panels
    /\ asks \subseteq Requests
    /\ drawing \in Nat /\ asked \in Nat /\ stored \in Nat
    /\ selected \in DecisionId \cup {NoDecision}
    /\ busy \subseteq Forms \cup {"lab"}
    /\ \A r \in asks : r.kind = "detail" => r.of \in DecisionId
    /\ \A p \in Panels : panel[p].is = "waiting" => p \in Announced

\* A request for outcomes is about the decision of the drawing it belongs to.
Addressed ==
    /\ HasBoxes => panel["detail"] = Shows(selected)
    /\ \A r \in asks : r.kind = "outcome" =>
          /\ r.target <= drawing
          /\ r.target = drawing => panel["detail"] = Shows(r.of)
    /\ panel["outcome"].is = "shown" => panel["outcome"] = panel["detail"]

DashInv == Shape /\ Addressed /\ WaitingIsAnswered

USE DashAssumption DEF DashAssumption, Panels, Boxes, Forms

\* The invariant holds of a page that has just been loaded.
LEMMA DashInitInv == DashInit => DashInv
<1> SUFFICES ASSUME DashInit PROVE DashInv
  OBVIOUS
<1> USE DEF DashInit, Blank
<1>1. Shape
  BY DEF Shape
<1>2. Addressed
  BY DEF Addressed, HasBoxes
<1>3. WaitingIsAnswered
  BY DEF WaitingIsAnswered
<1> QED
  BY <1>1, <1>2, <1>3 DEF DashInv

\* A request is sent and nothing, or one panel, announces it.
LEMMA RequestSent ==
  ASSUME Shape, NEW kind \in Kinds, NEW of \in Topics, NEW target \in Nat,
         FetchFor(kind, of, target), kind = "detail" => of \in DecisionId
  PROVE  /\ asks \subseteq asks' /\ asks' \subseteq Requests /\ asked' \in Nat
         /\ \A r \in asks' : r.kind = "detail" => r.of \in DecisionId
         /\ \A r \in asks' : r \in asks \/ (r.kind = kind /\ r.of = of /\ r.target = target)
         /\ \E r \in asks' : r.kind = kind /\ r.of = of /\ r.target = target
<1> DEFINE new == NewRequest(kind, of, target)
<1>1. new \in Requests /\ new.kind = kind /\ new.of = of /\ new.target = target
  BY DEF NewRequest, Requests, Shape, Unread
<1>2. asks' = asks \cup {new} /\ asked' = asked + 1
  BY DEF FetchFor
<1> HIDE DEF new
<1> QED
  BY <1>1, <1>2 DEF Shape

\* While the detail panel stands as it is, more requests answer no panel less.
LEMMA StillAnswered ==
  ASSUME WaitingIsAnswered, asks \subseteq asks', UNCHANGED drawing, panel'["detail"] = panel["detail"],
         NEW p \in Panels, panel[p].is = "waiting"
  PROVE  \E r \in asks' : PanelOf(r) = p /\ Lands(r)'
  BY DEF WaitingIsAnswered, PanelOf, Lands, HasBoxes

\* More requests on the way free what fewer would have freed.
LEMMA StillFreed ==
  ASSUME WaitingIsAnswered, asks \subseteq asks', NEW f \in busy
  PROVE  \E r \in asks' : f \in Freed(r, FALSE)
  BY DEF WaitingIsAnswered

\* The answer to such a request redraws panel p, or frees the button of f.
Redraws(kind, target, p) == \A r : r.kind = kind /\ r.target = target => PanelOf(r) = p /\ Lands(r)
Releases(kind, of, f) == \A r : r.kind = kind /\ r.of = of => f \in Freed(r, FALSE)

\* A handler that sends one request, and may announce it in a panel and
\* disable a button.
LEMMA AskStep ==
  ASSUME DashInv, NEW kind \in Kinds, NEW of \in Topics, NEW target \in Nat,
         FetchFor(kind, of, target), kind = "detail" => of \in DecisionId,
         kind = "outcome" => target = drawing /\ of = selected /\ HasBoxes,
         UNCHANGED <<drawing, selected, stored>>,
         NEW p \in Announced,
         \/ UNCHANGED panel
         \/ panel' = [panel EXCEPT ![p] = Waiting] /\ Redraws(kind, target, p),
         NEW f \in Forms \cup {"lab"},
         \/ UNCHANGED busy
         \/ busy' = busy \cup {f} /\ Releases(kind, of, f)
  PROVE  DashInv'
<1> USE DEF DashInv
<1>1. /\ asks \subseteq asks' /\ asks' \subseteq Requests /\ asked' \in Nat
      /\ \A r \in asks' : r.kind = "detail" => r.of \in DecisionId
      /\ \A r \in asks' : r \in asks \/ (r.kind = kind /\ r.of = of /\ r.target = target)
      /\ \E r \in asks' : r.kind = kind /\ r.of = of /\ r.target = target
  BY RequestSent
<1>2. /\ DOMAIN panel' = Panels /\ panel'["detail"] = panel["detail"]
      /\ \A q \in Panels : q # p => panel'[q] = panel[q]
      /\ panel'[p] = panel[p] \/ panel'[p] = Waiting
  BY DEF Shape, Announced
<1>3. Shape'
  <2>1. \A q \in Panels : panel'[q].is = "waiting" => q \in Announced
    BY <1>2 DEF Shape
  <2>2. busy' \subseteq Forms \cup {"lab"}
    BY DEF Shape
  <2> QED
    BY <1>1, <1>2, <2>1, <2>2 DEF Shape
<1>4. Addressed'
  <2>1. HasBoxes' <=> HasBoxes
    BY <1>2 DEF HasBoxes
  <2>2. HasBoxes => panel["detail"] = Shows(selected)
    BY DEF Addressed
  <2>3. ASSUME NEW r \in asks', r.kind = "outcome"
        PROVE  r.target <= drawing /\ (r.target = drawing => panel["detail"] = Shows(r.of))
    <3>1. CASE r \in asks
      BY <2>3, <3>1 DEF Addressed
    <3>2. CASE r \notin asks
      BY <1>1, <2>2, <2>3, <3>2 DEF Shape
    <3> QED
      BY <3>1, <3>2
  <2>4. panel'["outcome"].is = "shown" => panel'["outcome"] = panel'["detail"]
    BY <1>2 DEF Addressed, Waiting
  <2> QED
    BY <1>2, <2>1, <2>2, <2>3, <2>4 DEF Addressed, Shows
<1>5. WaitingIsAnswered'
  <2>1. ASSUME NEW q \in Panels, panel'[q].is = "waiting"
        PROVE  \E r \in asks' : PanelOf(r) = q /\ Lands(r)'
    <3>1. CASE panel[q].is = "waiting"
      BY <1>1, <1>2, <3>1, StillAnswered
    <3>2. CASE panel[q].is # "waiting"
      <4>1. q = p /\ \A r : r.kind = kind /\ r.target = target => PanelOf(r) = p /\ Lands(r)
        BY <1>2, <2>1, <3>2 DEF Redraws
      <4>2. PICK r \in asks' : r.kind = kind /\ r.of = of /\ r.target = target
        BY <1>1
      <4>3. PanelOf(r) = p /\ Lands(r)
        BY <4>1, <4>2
      <4>4. Lands(r)' <=> Lands(r)
        BY <1>2 DEF Lands, HasBoxes
      <4> QED
        BY <4>1, <4>3, <4>4
    <3> QED
      BY <3>1, <3>2
  <2>2. ASSUME NEW g \in busy' PROVE \E r \in asks' : g \in Freed(r, FALSE)
    <3>1. CASE g \in busy
      BY <1>1, <3>1, StillFreed
    <3>2. CASE g \notin busy
      BY <1>1, <2>2, <3>2 DEF Releases
    <3> QED
      BY <3>1, <3>2
  <2>3. \A r : PanelOf(r)' = PanelOf(r) /\ Freed(r, FALSE)' = Freed(r, FALSE)
    BY DEF PanelOf, Freed
  <2> QED
    BY <2>1, <2>2, <2>3 DEF WaitingIsAnswered
<1> QED
  BY <1>3, <1>4, <1>5

\* A handler that draws one panel without asking.
LEMMA DrawStep ==
  ASSUME DashInv, UNCHANGED <<asks, asked, drawing, selected, busy, stored>>,
         NEW p \in Panels \ {"detail"}, NEW what, panel' = [panel EXCEPT ![p] = what],
         what.is # "waiting", p = "outcome" => what.is # "shown"
  PROVE  DashInv'
<1> USE DEF DashInv
<1>1. /\ DOMAIN panel' = Panels /\ panel'["detail"] = panel["detail"]
      /\ \A q \in Panels : q # p => panel'[q] = panel[q]
      /\ panel'[p] = what
  BY DEF Shape
<1>2. Shape'
  BY <1>1 DEF Shape
<1>3. Addressed'
  BY <1>1 DEF Addressed, HasBoxes, Shows
<1>4. WaitingIsAnswered'
  BY <1>1 DEF WaitingIsAnswered, PanelOf, Lands, Freed, HasBoxes
<1> QED
  BY <1>2, <1>3, <1>4

\* The invariant does not depend on tabs, timers and visibility.
LEMMA RestStep ==
  ASSUME DashInv, UNCHANGED <<panel, asks, asked, drawing, selected, busy, stored>>
  PROVE  DashInv'
  BY DEF DashInv, Shape, Addressed, HasBoxes, WaitingIsAnswered, PanelOf, Lands, Freed, Shows

\* A request without a waiting panel or a disabled button keeps the invariant.
LEMMA AskQuietly ==
  ASSUME DashInv, NEW kind \in Kinds \ {"outcome"}, NEW of \in Topics, NEW target \in Nat,
         FetchFor(kind, of, target), kind = "detail" => of \in DecisionId,
         UNCHANGED <<drawing, selected, stored, panel, busy>>
  PROVE  DashInv'
<1>1. "replay" \in Announced /\ "order" \in Forms \cup {"lab"}
  BY DEF Announced
<1> QED
  BY <1>1, AskStep

\* So does one that is announced in the panel that its answer will redraw,
LEMMA AskInPanel ==
  ASSUME DashInv, NEW kind \in Kinds, NEW of \in Topics, Fetch(kind, of), kind # "detail",
         kind = "outcome" => of = selected, NEW p \in Announced, kind = p,
         kind \in Boxes => HasBoxes,
         Draw(p, Waiting), UNCHANGED <<drawing, selected, stored, busy>>
  PROVE  DashInv'
<1>1. Redraws(kind, drawing, p)
  BY DEF Redraws, PanelOf, Lands, Announced
<1>2. drawing \in Nat
  BY DEF DashInv, Shape
<1>3. FetchFor(kind, of, drawing) /\ panel' = [panel EXCEPT ![p] = Waiting]
  BY DEF Fetch, Draw
<1>4. kind = "outcome" => drawing = drawing /\ of = selected /\ HasBoxes
  OBVIOUS
<1>5. PICK f \in Forms \cup {"lab"} : TRUE
  OBVIOUS
<1> HIDE DEF Forms, Panels, Boxes
<1> QED
  BY <1>1, <1>2, <1>3, <1>4, <1>5, AskStep

\* and one that disables the button that its answer will free.
LEMMA AskWithButton ==
  ASSUME DashInv, NEW kind \in Forms \cup {"lab"}, NEW of \in Topics, Fetch(kind, of),
         busy' = busy \cup {kind}, UNCHANGED <<drawing, selected, stored>>,
         \/ UNCHANGED panel
         \/ kind = "run" /\ Draw("backtest", Waiting)
  PROVE  DashInv'
<1>1. Releases(kind, of, kind)
  BY DEF Releases, Freed
<1>2. Redraws("run", drawing, "backtest")
  BY DEF Redraws, PanelOf, Lands
<1>3. "backtest" \in Announced /\ drawing \in Nat /\ kind \in Kinds /\ kind # "detail" /\ kind # "outcome"
  BY DEF Announced, DashInv, Shape, Kinds
<1>4. FetchFor(kind, of, drawing)
  BY DEF Fetch
<1>5. CASE UNCHANGED panel
  <2> HIDE DEF Forms, Panels, Boxes
  <2> QED
    BY <1>1, <1>3, <1>4, <1>5, AskStep
<1>6. CASE kind = "run" /\ Draw("backtest", Waiting)
  <2>1. panel' = [panel EXCEPT !["backtest"] = Waiting]
    BY <1>6 DEF Draw
  <2>2. Redraws(kind, drawing, "backtest")
    BY <1>2, <1>6
  <2> HIDE DEF Forms, Panels, Boxes
  <2> QED
    BY <1>1, <1>3, <1>4, <2>1, <2>2, AskStep
<1> QED
  BY <1>5, <1>6

Views == [page : Pages, auto : BOOLEAN, visible : BOOLEAN, choices : Nat]

ViewTyped == view \in Views

\* A choice more is still a view.
LEMMA Counted == \A v \in Views : [v EXCEPT !.choices = @ + 1] \in Views
  BY DEF Views

\* The refresh of a page sends quiet requests only.
LEMMA PageAsk ==
  ASSUME DashInv, NEW page \in Pages, RefreshActiveTab(page), UNCHANGED <<panel, drawing, selected, busy, stored>>
  PROVE  DashInv'
<1>1. PageKind(page) \in Kinds \ {"outcome"} /\ PageKind(page) # "detail" /\ page \in Topics /\ drawing \in Nat
  BY DEF PageKind, Kinds, Topics, DashInv, Shape
<1>2. FetchFor(PageKind(page), page, drawing)
  BY DEF RefreshActiveTab, Fetch
<1> QED
  BY <1>1, <1>2, AskQuietly

\* What the user and the timers do.
LEMMA BoxStep ==
  ASSUME DashInv, NEW box \in {"counterfactual", "sensitivity"}, NEW inputs \in BOOLEAN, RunBox(box, inputs)
  PROVE  DashInv'
<1>1. CASE inputs /\ selected # NoDecision
  <2>1. selected \in Topics /\ box \in Announced /\ box \in Kinds
    BY DEF DashInv, Shape, Topics, Announced, Kinds
  <2> QED
    BY <1>1, <2>1, AskInPanel DEF RunBox
<1>2. CASE ~(inputs /\ selected # NoDecision)
  <2>1. box \in Panels \ {"detail"} /\ Broken.is # "waiting" /\ box # "outcome"
    BY DEF Broken
  <2>2. panel' = [panel EXCEPT ![box] = Broken] /\ UNCHANGED <<asks, asked, drawing, selected, busy, stored>>
    BY <1>2 DEF RunBox, Draw, AsksNothing
  <2> QED
    BY <2>1, <2>2, DrawStep
<1> QED
  BY <1>1, <1>2

\* The submission of a form keeps the invariant.
LEMMA FormStep ==
  ASSUME DashInv, NEW form \in Forms, NEW page, SubmitForm(form, page)
  PROVE  DashInv'
<1>1. form \in Topics
  BY DEF Topics
<1> QED
  BY <1>1, AskWithButton DEF SubmitForm

\* The choice of a tab or a decision keeps it.
LEMMA ChosenStep ==
  ASSUME DashInv, ViewTyped, NEW v, Chosen(v)
  PROVE  DashInv'
<1>1. view.page \in Pages
  BY DEF ViewTyped, Views
<1>2. CASE RefreshActiveTab(view.page)
  BY <1>1, <1>2, PageAsk DEF Chosen
<1>3. CASE AsksNothing
  BY <1>3, RestStep DEF Chosen, AsksNothing
<1> QED
  BY <1>2, <1>3 DEF Chosen

\* Whatever a user does keeps it.
LEMMA UserDash ==
  ASSUME DashInv, ViewTyped,
         \/ \E page \in Pages : SwitchTab(page)
         \/ RefreshPage \/ ToggleAutoRefresh \/ VisibilityChange \/ RefreshDiagnostics
         \/ \E d \in DecisionId : ShowDecision(d) \/ ReplayDecision(d)
         \/ LoadSelectedOutcomes \/ ClearCounterfactual \/ LoadPerformance
         \/ \E inputs \in BOOLEAN : RunCounterfactual(inputs) \/ RunSensitivity(inputs)
         \/ \E valid \in BOOLEAN : SubmitBacktest(valid)
         \/ \E n \in 1..MaxRuns : InspectRun(n)
         \/ SubmitOrder \/ SubmitRiskForm \/ SubmitGeoScenario \/ SubmitValidation \/ RunSimulation
         \/ SelectReaction("second")
  PROVE  DashInv'
<1>0. /\ drawing \in Nat /\ selected \in Topics /\ DecisionId \subseteq Topics /\ view.page \in Pages
      /\ {"run", "simulation", "second", "4h", "markets"} \subseteq Topics
  BY DEF DashInv, Shape, Topics, ViewTyped, Views, Pages
<1>1. ASSUME NEW page \in Pages, SwitchTab(page) PROVE DashInv'
  BY <1>1, PageAsk DEF SwitchTab
<1>2. CASE RefreshPage
  BY <1>0, <1>2, PageAsk DEF RefreshPage
<1>3. CASE ToggleAutoRefresh \/ VisibilityChange
  BY <1>3, ChosenStep DEF ToggleAutoRefresh, VisibilityChange
<1>4. CASE RefreshDiagnostics
  <2>1. "diagnostics" \in Kinds \ {"outcome"}
    BY DEF Kinds
  <2> QED
    BY <1>0, <1>4, <2>1, AskQuietly DEF RefreshDiagnostics, Fetch
<1>5. ASSUME NEW d \in DecisionId, ShowDecision(d) PROVE DashInv'
  <2>1. "detail" \in Kinds \ {"outcome"}
    BY DEF Kinds
  <2> QED
    BY <1>0, <1>5, <2>1, AskQuietly DEF ShowDecision, Fetch
<1>6. ASSUME NEW d \in DecisionId, ReplayDecision(d) PROVE DashInv'
  <2>1. "replay" \in Kinds /\ "replay" \in Announced
    BY DEF Kinds, Announced
  <2> QED
    BY <1>0, <1>6, <2>1, AskInPanel DEF ReplayDecision
<1>7. CASE LoadSelectedOutcomes
  <2>1. "outcome" \in Kinds /\ "outcome" \in Announced
    BY DEF Kinds, Announced
  <2> QED
    BY <1>0, <1>7, <2>1, AskInPanel DEF LoadSelectedOutcomes
<1>8. CASE ClearCounterfactual
  <2>1. Blank.is # "waiting"
    BY DEF Blank
  <2> QED
    BY <1>8, <2>1, DrawStep DEF ClearCounterfactual, Draw, AsksNothing
<1>9. CASE LoadPerformance
  <2>1. "performance" \in Kinds /\ "performance" \in Announced
    BY DEF Kinds, Announced
  <2> QED
    BY <1>0, <1>9, <2>1, AskInPanel DEF LoadPerformance
<1>10. ASSUME NEW inputs \in BOOLEAN, RunCounterfactual(inputs) \/ RunSensitivity(inputs) PROVE DashInv'
  BY <1>10, BoxStep DEF RunCounterfactual, RunSensitivity
<1>11. ASSUME NEW valid \in BOOLEAN, SubmitBacktest(valid) PROVE DashInv'
  <2>1. CASE valid
    BY <1>0, <1>11, <2>1, AskWithButton DEF SubmitBacktest
  <2>2. CASE ~valid
    <3>1. Broken.is # "waiting"
      BY DEF Broken
    <3> QED
      BY <1>11, <2>2, <3>1, DrawStep DEF SubmitBacktest, Draw, AsksNothing
  <2> QED
    BY <2>1, <2>2
<1>12. ASSUME NEW n \in 1..MaxRuns, InspectRun(n) PROVE DashInv'
  <2>1. "history" \in Kinds \ {"outcome"} /\ n \in Nat
    BY DEF Kinds
  <2> QED
    BY <1>0, <1>12, <2>1, AskQuietly DEF InspectRun
<1>13. CASE SubmitOrder \/ SubmitRiskForm \/ SubmitGeoScenario \/ SubmitValidation
  BY <1>13, FormStep DEF SubmitOrder, SubmitRiskForm, SubmitGeoScenario, SubmitValidation
<1>14. CASE RunSimulation
  <2>1. "simulation" \in Kinds \ {"outcome"}
    BY DEF Kinds
  <2> QED
    BY <1>0, <1>14, <2>1, AskQuietly DEF RunSimulation, Fetch
<1>15. CASE SelectReaction("second")
  BY <1>0, <1>15, AskWithButton DEF SelectReaction
<1> QED
  BY <1>1, <1>2, <1>3, <1>4, <1>5, <1>6, <1>7, <1>8, <1>9, <1>10, <1>11, <1>12, <1>13, <1>14, <1>15

-----------------------------------------------------------------------------
(* Answers.                                                                *)

\* An answer that leaves the detail panel alone: what it lands on waits no
\* longer, and what it frees is free or has another request on the way.
LEMMA AnswerStep ==
  ASSUME DashInv, NEW r \in asks, UNCHANGED <<drawing, selected>>, stored' \in Nat, asked' \in Nat,
         asks \ {r} \subseteq asks', asks' \subseteq Requests,
         \A q \in asks' : q \in asks \/ q.kind \notin {"outcome", "detail"},
         DOMAIN panel' = Panels, panel'["detail"] = panel["detail"],
         \A p \in Panels : panel'[p].is = "waiting" => panel[p].is = "waiting" /\ ~(p = PanelOf(r) /\ Lands(r)),
         \/ panel'["outcome"] = panel["outcome"]
         \/ panel'["outcome"].is # "shown"
         \/ r.kind = "outcome" /\ r.target = drawing /\ panel'["outcome"] = Shows(r.of),
         busy' \subseteq busy,
         \A f \in busy' : f \in Freed(r, FALSE) => \E q \in asks' : f \in Freed(q, FALSE)
  PROVE  DashInv'
<1> USE DEF DashInv
<1>1. Shape'
  BY DEF Shape
<1>2. Addressed'
  <2>1. HasBoxes' <=> HasBoxes
    BY DEF HasBoxes
  <2>2. panel'["outcome"].is = "shown" => panel'["outcome"] = panel'["detail"]
    BY DEF Addressed
  <2>3. \A q \in asks' : q.kind = "outcome" =>
            q.target <= drawing /\ (q.target = drawing => panel["detail"] = Shows(q.of))
    BY DEF Addressed
  <2> QED
    BY <2>1, <2>2, <2>3 DEF Addressed, Shows
<1>3. WaitingIsAnswered'
  <2>1. ASSUME NEW p \in Panels, panel'[p].is = "waiting"
        PROVE  \E q \in asks' : PanelOf(q) = p /\ Lands(q)'
    <3>1. panel[p].is = "waiting" /\ ~(p = PanelOf(r) /\ Lands(r))
      BY <2>1
    <3>2. PICK q \in asks : PanelOf(q) = p /\ Lands(q)
      BY <3>1 DEF WaitingIsAnswered
    <3>3. q \in asks'
      BY <3>1, <3>2
    <3>4. Lands(q)'
      BY <3>2 DEF Lands, HasBoxes
    <3> QED
      BY <3>2, <3>3, <3>4
  <2>2. ASSUME NEW f \in busy' PROVE \E q \in asks' : f \in Freed(q, FALSE)
    BY DEF WaitingIsAnswered
  <2>3. \A q : PanelOf(q)' = PanelOf(q) /\ Freed(q, FALSE)' = Freed(q, FALSE)
    BY DEF PanelOf, Freed
  <2> QED
    BY <2>1, <2>2, <2>3 DEF WaitingIsAnswered
<1> QED
  BY <1>1, <1>2, <1>3

\* The server's part: the answer is known, and still on its way.
LEMMA ServeStep ==
  ASSUME DashInv, NEW r \in asks, Serve(r)
  PROVE  DashInv'
<1> DEFINE s == [r EXCEPT !.answer = 1 + stored']
<1> USE DEF DashInv
<1>1. stored' \in Nat /\ r \in Requests
  BY DEF Serve, Shape
<1>2. /\ s \in Requests /\ s.kind = r.kind /\ s.of = r.of /\ s.target = r.target
  BY <1>1 DEF Requests
<1>3. asks' = (asks \ {r}) \cup {s} /\ r.kind \in {"run", "page"}
  BY DEF Serve, Changing
<1>4. UNCHANGED <<view, panel, drawing, selected, busy, asked>>
  BY DEF Serve
<1> HIDE DEF s
<1>5. \A p : PanelOf(s) = PanelOf(r) /\ (Lands(s) <=> Lands(r)) /\ Freed(s, FALSE) = Freed(r, FALSE)
  BY <1>2 DEF PanelOf, Lands, Freed
<1>6. Shape'
  BY <1>1, <1>2, <1>3, <1>4 DEF Shape
<1>7. Addressed'
  <2>1. HasBoxes' <=> HasBoxes
    BY <1>4 DEF HasBoxes
  <2> QED
    BY <1>2, <1>3, <1>4, <2>1 DEF Addressed, Shows
<1>8. WaitingIsAnswered'
  <2>1. ASSUME NEW p \in Panels, panel[p].is = "waiting"
        PROVE  \E q \in asks' : PanelOf(q) = p /\ Lands(q)'
    <3>1. PICK q \in asks : PanelOf(q) = p /\ Lands(q)
      BY <2>1 DEF WaitingIsAnswered
    <3>2. \A z : Lands(z)' <=> Lands(z)
      BY <1>4 DEF Lands, HasBoxes
    <3> QED
      BY <1>3, <1>5, <3>1, <3>2
  <2>2. ASSUME NEW f \in busy PROVE \E q \in asks' : f \in Freed(q, FALSE)
    BY <1>3, <1>5 DEF WaitingIsAnswered
  <2>3. \A q : PanelOf(q)' = PanelOf(q) /\ Freed(q, FALSE)' = Freed(q, FALSE)
    BY DEF PanelOf, Freed
  <2> QED
    BY <1>4, <2>1, <2>2, <2>3 DEF WaitingIsAnswered
<1> QED
  BY <1>6, <1>7, <1>8

\* What a handler asks for next.
LEMMA FollowUp ==
  ASSUME DashInv, ViewTyped, NEW r \in asks, NEW ok \in BOOLEAN, r.kind # "detail",
         Follow(r, IF ok THEN Continued(r) ELSE {})
  PROVE  /\ asks \ {r} \subseteq asks' /\ asks' \subseteq Requests /\ asked' \in Nat
         /\ \A q \in asks' : q \in asks \/ q.kind \notin {"outcome", "detail"}
         /\ ok /\ r.kind \in {"run", "validation"} => \E q \in asks' : q.kind = "support" /\ q.of = r.kind
<1> USE DEF DashInv
<1>0. view.page \in Pages /\ asks \subseteq Requests /\ asked \in Nat /\ drawing \in Nat
  BY DEF ViewTyped, Views, Shape
<1>1. CASE ok /\ r.kind \in {"run", "validation"}
  <2> DEFINE new == NewRequest("support", r.kind, drawing)
  <2>1. new \in Requests /\ new.kind = "support" /\ new.of = r.kind
    BY <1>0, <1>1 DEF NewRequest, Requests, Kinds, Topics, Unread
  <2>2. asks' = (asks \ {r}) \cup {new} /\ asked' = asked + Cardinality({new})
    BY <1>1 DEF Follow, Continued
  <2> HIDE DEF new
  <2>3. Cardinality({new}) = 1
    BY FS_Singleton
  <2> QED
    BY <1>0, <2>1, <2>2, <2>3
<1>2. CASE ok /\ r.kind = "order"
  <2> DEFINE new == NewRequest(PageKind(view.page), view.page, drawing)
  <2>1. new \in Requests /\ new.kind \in {"page", "catalog"}
    BY <1>0 DEF NewRequest, Requests, Kinds, Topics, Unread, PageKind
  <2>2. asks' = (asks \ {r}) \cup {new} /\ asked' = asked + Cardinality({new})
    BY <1>2 DEF Follow, Continued
  <2> HIDE DEF new
  <2>3. Cardinality({new}) = 1
    BY FS_Singleton
  <2> QED
    BY <1>0, <1>2, <2>1, <2>2, <2>3
<1>3. CASE ~ok \/ r.kind \notin {"run", "validation", "order"}
  <2>1. asks' = asks \ {r} /\ asked' = asked + Cardinality({})
    BY <1>3 DEF Follow, Continued
  <2>2. Cardinality({}) = 0
    BY FS_EmptySet
  <2> QED
    BY <1>0, <1>3, <2>1, <2>2
<1> QED
  BY <1>1, <1>2, <1>3

\* A button whose handler has ended is free; two handlers ask once more.
LEMMA FreedOrAsked ==
  ASSUME DashInv, NEW r \in asks, NEW ok \in BOOLEAN, busy' = busy \ Freed(r, ok),
         ok /\ r.kind \in {"run", "validation"} => \E q \in asks' : q.kind = "support" /\ q.of = r.kind
  PROVE  \A f \in busy' : f \in Freed(r, FALSE) => \E q \in asks' : f \in Freed(q, FALSE)
<1> TAKE f \in busy'
<1> HAVE f \in Freed(r, FALSE)
<1>1. ok /\ r.kind \in {"run", "validation"} /\ f = r.kind
  BY DEF Freed
<1>2. PICK q \in asks' : q.kind = "support" /\ q.of = r.kind
  BY <1>1
<1>3. Freed(q, FALSE) = {q.of}
  BY <1>2 DEF Freed
<1> QED
  BY <1>1, <1>2, <1>3

\* An outcome is drawn only under the decision it was asked for.
LEMMA OutcomeLands == \A r : r.kind = "outcome" /\ Lands(r) => r.target = drawing
  BY DEF Lands

\* What an answer draws is never a waiting panel, and never the detail panel.
LEMMA DrawnAnswer ==
  ASSUME DashInv, NEW r \in asks, NEW ok \in BOOLEAN, r.kind \notin {"detail", "support", "catalog"},
         DrawPanel(r, ok)
  PROVE  /\ DOMAIN panel' = Panels /\ panel'["detail"] = panel["detail"]
         /\ \A p \in Panels : panel'[p].is = "waiting" => panel[p].is = "waiting" /\ ~(p = PanelOf(r) /\ Lands(r))
         /\ \/ panel'["outcome"] = panel["outcome"]
            \/ panel'["outcome"].is # "shown"
            \/ r.kind = "outcome" /\ r.target = drawing /\ panel'["outcome"] = Shows(r.of)
<1> USE DEF DashInv
<1>1. DOMAIN panel = Panels /\ r.kind \in Kinds
      /\ \A p \in Panels : panel[p].is = "waiting" => p \in Announced
  BY DEF Shape, Requests
<1>2. CASE ~Lands(r)
  BY <1>1, <1>2 DEF DrawPanel
<1>3. CASE Lands(r) /\ r.kind = "page"
  <2>1. panel' = DrawPage(r, ok) /\ PanelOf(r) = "page"
    BY <1>3 DEF DrawPanel, PanelOf
  <2>2. /\ DrawnPage(r, ok).is # "waiting"
        /\ LatestRun(r, ok) = panel["backtest"] \/ LatestRun(r, ok).is # "waiting"
        /\ Studied(r, ok) = panel["lab"] \/ Studied(r, ok).is # "waiting"
    BY DEF DrawnPage, LatestRun, Studied, Broken, Blank, Shows
  <2>3. /\ DOMAIN panel' = Panels
        /\ panel'["page"] = DrawnPage(r, ok) /\ panel'["backtest"] = LatestRun(r, ok) /\ panel'["lab"] = Studied(r, ok)
        /\ \A p \in Panels \ {"page", "backtest", "lab"} : panel'[p] = panel[p]
    BY <1>1, <2>1 DEF DrawPage
  <2>4. \A p \in Panels : panel'[p].is = "waiting" => panel[p].is = "waiting" /\ p # "page"
    BY <2>2, <2>3
  <2> QED
    BY <2>1, <2>3, <2>4
<1>4. CASE Lands(r) /\ r.kind # "page"
  <2> DEFINE what == IF ok THEN Drawn(r) ELSE DrawnWithout(r)
             at   == PanelOf(r)
  <2>1. panel' = [panel EXCEPT ![at] = what]
    BY <1>4 DEF DrawPanel
  <2>3. at \in Panels /\ at # "detail" /\ (at = "outcome" => r.kind = "outcome")
    BY <1>1, <1>4 DEF PanelOf, Kinds
  <2>4. what.is # "waiting"
    <3>1. CASE ok
      BY <3>1 DEF Drawn, Shows
    <3>2. CASE ~ok /\ r.kind \in {"risk", "scenario", "simulation"}
      <4>1. r.kind \in Panels /\ r.kind \notin Announced
        BY <3>2 DEF Announced
      <4>2. panel[r.kind].is # "waiting"
        BY <1>1, <4>1
      <4> QED
        BY <3>2, <4>2 DEF DrawnWithout
    <3>3. CASE ~ok /\ r.kind \notin {"risk", "scenario", "simulation"}
      BY <3>3 DEF DrawnWithout, Shows, Broken
    <3> QED
      BY <3>1, <3>2, <3>3
  <2>5. r.kind = "outcome" => r.target = drawing /\ (what = Shows(r.of) \/ what.is # "shown")
    <3>1. ASSUME r.kind = "outcome" PROVE r.target = drawing
      BY <1>4, <3>1, OutcomeLands
    <3>2. ASSUME r.kind = "outcome" PROVE what = Shows(r.of) \/ what.is # "shown"
      <4>1. CASE ok
        BY <3>2, <4>1 DEF Drawn
      <4>2. CASE ~ok
        BY <3>2, <4>2 DEF DrawnWithout, Broken
      <4> QED
        BY <4>1, <4>2
    <3> QED
      BY <3>1, <3>2
  <2> HIDE DEF what, at
  <2>6. /\ DOMAIN panel' = Panels /\ panel'[at] = what
        /\ \A p \in Panels : p # at => panel'[p] = panel[p]
    BY <1>1, <2>1, <2>3
  <2>7. PanelOf(r) = at
    BY DEF at
  <2> QED
    BY <2>3, <2>4, <2>5, <2>6, <2>7
<1> QED
  BY <1>2, <1>3, <1>4

\* Another decision is opened: a new drawing, with empty boxes.
LEMMA DetailStep ==
  ASSUME DashInv, NEW r \in asks, NEW ok \in BOOLEAN, r.kind = "detail", Deliver(r, ok)
  PROVE  DashInv'
<1> USE DEF DashInv
<1>0. asks' = asks \ {r} /\ asked' = asked + 0 /\ busy' = busy \ {"detail"} /\ UNCHANGED stored
  <2>1. Continued(r) = {} /\ Freed(r, ok) = {"detail"}
    BY DEF Continued, Freed
  <2>2. Cardinality({}) = 0
    BY FS_EmptySet
  <2> QED
    BY <2>1, <2>2 DEF Deliver, Follow
<1>1. /\ drawing' = drawing + 1
      /\ panel' = [p \in Panels |->
                      IF p = "detail" THEN IF ok THEN Shows(r.of) ELSE Broken
                      ELSE IF p \in Boxes THEN Blank ELSE panel[p]]
      /\ selected' = IF ok THEN r.of ELSE selected
  BY DEF Deliver, DrawDetail
<1>2. /\ DOMAIN panel' = Panels
      /\ panel'["detail"] = IF ok THEN Shows(r.of) ELSE Broken
      /\ panel'["outcome"] = Blank
      /\ \A p \in Panels : panel'[p].is = "waiting" => p \notin Boxes \cup {"detail"} /\ panel'[p] = panel[p]
  <2>1. Broken.is # "waiting" /\ Blank.is # "waiting" /\ Shows(r.of).is # "waiting"
    BY DEF Broken, Blank, Shows
  <2> QED
    BY <1>1, <2>1
<1>3. Shape'
  <2>1. r.of \in DecisionId
    BY DEF Shape
  <2>2. selected' \in DecisionId \cup {NoDecision}
    BY <1>1, <2>1 DEF Shape
  <2>3. \A p \in Panels : panel'[p].is = "waiting" => p \in Announced
    BY <1>2 DEF Shape
  <2> QED
    BY <1>0, <1>1, <1>2, <2>2, <2>3 DEF Shape
<1>4. Addressed'
  <2>1. HasBoxes' => panel'["detail"] = Shows(selected')
    BY <1>1, <1>2 DEF HasBoxes, Broken, Shows
  <2>2. \A q \in asks' : q.kind = "outcome" => q.target <= drawing' /\ q.target # drawing'
    <3> TAKE q \in asks'
    <3>1. q.target \in Nat /\ drawing \in Nat /\ (q.kind = "outcome" => q.target <= drawing)
      BY <1>0 DEF Shape, Requests, Addressed
    <3> QED
      BY <1>1, <3>1
  <2>3. panel'["outcome"].is # "shown"
    BY <1>2 DEF Blank
  <2> QED
    BY <2>1, <2>2, <2>3 DEF Addressed, Shows
<1>5. WaitingIsAnswered'
  <2>1. ASSUME NEW p \in Panels, panel'[p].is = "waiting"
        PROVE  \E q \in asks' : PanelOf(q) = p /\ Lands(q)'
    <3>1. panel[p].is = "waiting" /\ p \notin Boxes /\ p # "detail"
      BY <1>2, <2>1
    <3>2. PICK q \in asks : PanelOf(q) = p
      BY <3>1 DEF WaitingIsAnswered
    <3>3. q # r
      BY <3>1, <3>2 DEF PanelOf
    <3>4. q.kind \notin Boxes
      BY <3>1, <3>2 DEF PanelOf
    <3>5. Lands(q)'
      BY <3>4 DEF Lands
    <3> QED
      BY <1>0, <3>2, <3>3, <3>5
  <2>2. ASSUME NEW f \in busy' PROVE \E q \in asks' : f \in Freed(q, FALSE)
    <3>1. f \in busy /\ f # "detail"
      BY <1>0
    <3>2. PICK q \in asks : f \in Freed(q, FALSE)
      BY <3>1 DEF WaitingIsAnswered
    <3>3. q # r
      BY <3>1, <3>2 DEF Freed
    <3> QED
      BY <1>0, <3>2, <3>3
  <2>3. \A q : PanelOf(q)' = PanelOf(q) /\ Freed(q, FALSE)' = Freed(q, FALSE)
    BY DEF PanelOf, Freed
  <2> QED
    BY <2>1, <2>2, <2>3 DEF WaitingIsAnswered
<1> QED
  BY <1>3, <1>4, <1>5

\* An answer, good or bad, keeps the invariant.
LEMMA DeliverStep ==
  ASSUME DashInv, ViewTyped, NEW r \in asks, NEW ok \in BOOLEAN, Deliver(r, ok)
  PROVE  DashInv'
<1>1. CASE r.kind = "detail"
  BY <1>1, DetailStep
<1>2. CASE r.kind # "detail"
  <2>1. /\ r.kind # "catalog" /\ UNCHANGED <<view, stored>> /\ busy' = busy \ Freed(r, ok)
        /\ Follow(r, IF ok THEN Continued(r) ELSE {})
    BY DEF Deliver
  <2>2. /\ asks \ {r} \subseteq asks' /\ asks' \subseteq Requests /\ asked' \in Nat
        /\ \A q \in asks' : q \in asks \/ q.kind \notin {"outcome", "detail"}
        /\ ok /\ r.kind \in {"run", "validation"} => \E q \in asks' : q.kind = "support" /\ q.of = r.kind
    BY <1>2, <2>1, FollowUp
  <2>3. \A f \in busy' : f \in Freed(r, FALSE) => \E q \in asks' : f \in Freed(q, FALSE)
    BY <2>1, <2>2, FreedOrAsked
  <2>4. stored' \in Nat
    BY <2>1 DEF DashInv, Shape
  <2>5. CASE r.kind = "support"
    <3>1. UNCHANGED <<panel, drawing, selected>> /\ PanelOf(r) = "page"
      BY <2>5 DEF Deliver, PanelOf
    <3>2. DOMAIN panel = Panels /\ panel["page"].is # "waiting"
      BY DEF DashInv, Shape, Announced
    <3> QED
      BY <2>1, <2>2, <2>3, <2>4, <3>1, <3>2, AnswerStep
  <2>6. CASE r.kind # "support"
    <3>1. DrawPanel(r, ok)
      BY <1>2, <2>6 DEF Deliver
    <3>2. UNCHANGED <<drawing, selected>>
      BY <3>1 DEF DrawPanel
    <3> QED
      BY <1>2, <2>1, <2>2, <2>3, <2>4, <2>6, <3>1, <3>2, DrawnAnswer, AnswerStep
  <2> QED
    BY <2>5, <2>6
<1> QED
  BY <1>1, <1>2

\* The answer to the catalogue of reactions, which asks for a study, keeps it too.
LEMMA CatalogStep ==
  ASSUME DashInv, NEW r \in asks, NEW eligible \in BOOLEAN, DeliverCatalog(r, eligible)
  PROVE  DashInv'
<1>0. /\ r.kind = "catalog" /\ UNCHANGED <<view, drawing, selected, busy, stored>>
      /\ PanelOf(r) = "page" /\ Freed(r, FALSE) = {"catalog"}
  BY DEF DeliverCatalog, PanelOf, Freed
<1>1. /\ asks \subseteq Requests /\ asked \in Nat /\ drawing \in Nat /\ stored \in Nat /\ r \in Requests
      /\ DOMAIN panel = Panels /\ "catalog" \notin busy
      /\ \A p \in Panels : panel[p].is = "waiting" => p \in Announced
  BY DEF DashInv, Shape
<1>2. \A f \in busy : f \notin Freed(r, FALSE)
  BY <1>0, <1>1
<1>3. panel["page"].is # "waiting"
  BY <1>1 DEF Announced
<1>4. CASE eligible
  <2> DEFINE new == NewRequest("page", r.of, drawing)
  <2>1. new \in Requests /\ new.kind = "page"
    BY <1>1 DEF NewRequest, Requests, Kinds, Unread
  <2>2. UNCHANGED panel /\ asks' = (asks \ {r}) \cup {new} /\ asked' = asked + Cardinality({new})
    BY <1>4 DEF DeliverCatalog, Follow
  <2> HIDE DEF new
  <2>3. Cardinality({new}) = 1
    BY FS_Singleton
  <2>4. \A q \in asks' : q \in asks \/ q.kind \notin {"outcome", "detail"}
    BY <2>1, <2>2
  <2>5. asks \ {r} \subseteq asks' /\ asks' \subseteq Requests /\ asked' \in Nat
    BY <1>1, <2>1, <2>2, <2>3
  <2> QED
    BY <1>0, <1>1, <1>2, <1>3, <2>2, <2>4, <2>5, AnswerStep
<1>5. CASE ~eligible
  <2>1. panel' = DrawPage(r, FALSE) /\ asks' = asks \ {r} /\ asked' = asked + Cardinality({})
    BY <1>5 DEF DeliverCatalog, Follow
  <2>2. Cardinality({}) = 0
    BY FS_EmptySet
  <2>3. /\ DrawnPage(r, FALSE).is # "waiting"
        /\ LatestRun(r, FALSE) = panel["backtest"]
        /\ Studied(r, FALSE) = panel["lab"] \/ Studied(r, FALSE).is # "waiting"
    BY DEF DrawnPage, LatestRun, Studied, Broken, Blank, Shows
  <2>4. /\ DOMAIN panel' = Panels
        /\ panel'["page"] = DrawnPage(r, FALSE) /\ panel'["backtest"] = LatestRun(r, FALSE) /\ panel'["lab"] = Studied(r, FALSE)
        /\ \A p \in Panels \ {"page", "backtest", "lab"} : panel'[p] = panel[p]
    BY <1>1, <2>1 DEF DrawPage
  <2>5. \A p \in Panels : panel'[p].is = "waiting" => panel[p].is = "waiting" /\ p # "page"
    BY <2>3, <2>4
  <2>6. /\ asks \ {r} \subseteq asks' /\ asks' \subseteq Requests /\ asked' \in Nat
        /\ \A q \in asks' : q \in asks
    BY <1>1, <2>1, <2>2
  <2>7. panel'["detail"] = panel["detail"] /\ panel'["outcome"] = panel["outcome"]
    BY <2>4
  <2> QED
    BY <1>0, <1>1, <1>2, <2>4, <2>5, <2>6, <2>7, AnswerStep
<1> QED
  BY <1>4, <1>5

\* Every step keeps the invariant and the types it needs.
LEMMA DashStep == ViewTyped /\ DashInv /\ [DashNext]_dashVars => ViewTyped' /\ DashInv'
<1> SUFFICES ASSUME ViewTyped, DashInv, [DashNext]_dashVars PROVE ViewTyped' /\ DashInv'
  OBVIOUS
<1>1. ASSUME NEW r \in asks, Serve(r) \/ \E ok \in BOOLEAN : Deliver(r, ok) \/ DeliverCatalog(r, ok)
      PROVE  UNCHANGED view /\ DashInv'
  BY <1>1, ServeStep, DeliverStep, CatalogStep DEF Serve, Deliver, DeliverCatalog
<1>2. CASE UNCHANGED dashVars
  BY <1>2, RestStep DEF dashVars, ViewTyped
<1>3. CASE DashNext
  <2>1. DashInv'
    BY <1>1, <1>3, UserDash DEF DashNext
  <2>2. \/ UNCHANGED view
        \/ \E page \in Pages : SwitchTab(page)
        \/ ToggleAutoRefresh \/ VisibilityChange
    BY <1>1, <1>3 DEF DashNext, RefreshPage, RefreshDiagnostics, ShowDecision, ReplayDecision, LoadSelectedOutcomes,
       RunBox, RunCounterfactual, RunSensitivity, ClearCounterfactual, LoadPerformance, SubmitBacktest, InspectRun,
       SubmitForm, SubmitOrder, SubmitRiskForm, SubmitGeoScenario, SubmitValidation, RunSimulation, SelectReaction
  <2>3. ViewTyped'
    <3>1. CASE UNCHANGED view
      BY <3>1 DEF ViewTyped, Views
    <3>2. ASSUME NEW page \in Pages, SwitchTab(page) PROVE ViewTyped'
      BY <3>2 DEF SwitchTab, ViewTyped, Views
    <3>3. CASE ToggleAutoRefresh
      <4>1. PICK b \in BOOLEAN : b = ~view.auto
        BY Zenon
      <4>2. [view EXCEPT !.auto = b] \in Views
        BY Zenon DEF Views, ViewTyped
      <4>3. view' = [[view EXCEPT !.auto = b] EXCEPT !.choices = @ + 1]
        BY <3>3, <4>1, Zenon DEF ToggleAutoRefresh, Chosen
      <4> QED
        BY <4>2, <4>3, Counted DEF ViewTyped
    <3>4. CASE VisibilityChange
      <4>1. PICK b \in BOOLEAN : b = ~view.visible
        BY Zenon
      <4>2. [view EXCEPT !.visible = b] \in Views
        BY Zenon DEF Views, ViewTyped
      <4>3. view' = [[view EXCEPT !.visible = b] EXCEPT !.choices = @ + 1]
        BY <3>4, <4>1, Zenon DEF VisibilityChange, Chosen
      <4> QED
        BY <4>2, <4>3, Counted DEF ViewTyped
    <3> QED
      BY <2>2, <3>1, <3>2, <3>3, <3>4
  <2> QED
    BY <2>1, <2>3
<1> QED
  BY <1>2, <1>3

\* They hold in every reachable state.
LEMMA DashInductive == DashSpec => [](ViewTyped /\ DashInv)
<1>1. DashInit => ViewTyped
  BY DEF DashInit, ViewTyped, Views, Pages
<1> QED
  BY <1>1, DashInitInv, DashStep, PTL DEF DashSpec

-----------------------------------------------------------------------------
(* Types.                                                                  *)

\* Requests are numbered as they are sent.
Numbered == (\A r \in asks : r.n \in 1..asked) /\ stored <= MaxRuns

\* A step that sends nothing, or one request.
Sends == \/ UNCHANGED <<asks, asked>>
         \/ \E kind, of, target : FetchFor(kind, of, target)

\* A request that is sent gets the next number.
LEMMA SendsNumbered ==
  ASSUME Numbered, asked \in Nat, Sends, UNCHANGED stored
  PROVE  Numbered'
<1>1. CASE UNCHANGED <<asks, asked>>
  BY <1>1 DEF Numbered
<1>2. ASSUME NEW kind, NEW of, NEW target, FetchFor(kind, of, target) PROVE Numbered'
  <2> DEFINE new == NewRequest(kind, of, target)
  <2>1. new.n = asked + 1
    BY DEF NewRequest
  <2>2. asks' = asks \cup {new} /\ asked' = asked + 1
    BY <1>2 DEF FetchFor
  <2> HIDE DEF new
  <2> QED
    BY <2>1, <2>2 DEF Numbered
<1> QED
  BY <1>1, <1>2 DEF Sends

\* An answer is followed by no request or by one.
LEMMA FollowNumbered ==
  ASSUME Numbered, asked \in Nat, UNCHANGED stored, NEW r \in asks, NEW kind, NEW of,
         Follow(r, {}) \/ Follow(r, {NewRequest(kind, of, drawing)})
  PROVE  Numbered'
<1>1. CASE Follow(r, {})
  <2>1. asks' = asks \ {r} /\ asked' = asked
    BY <1>1, FS_EmptySet DEF Follow
  <2> QED
    BY <2>1 DEF Numbered
<1>2. CASE Follow(r, {NewRequest(kind, of, drawing)})
  <2> DEFINE new == NewRequest(kind, of, drawing)
  <2>1. new.n = asked + 1
    BY DEF NewRequest
  <2>2. asks' = (asks \ {r}) \cup {new} /\ asked' = asked + Cardinality({new})
    BY <1>2 DEF Follow
  <2> HIDE DEF new
  <2>3. asked' = asked + 1
    BY <2>2, FS_Singleton
  <2> QED
    BY <2>1, <2>2, <2>3 DEF Numbered
<1> QED
  BY <1>1, <1>2

\* Every step numbers the requests it sends.
LEMMA NumberedStep ==
  ASSUME ViewTyped, DashInv, Numbered, [DashNext]_dashVars
  PROVE  Numbered'
<1>0. asked \in Nat /\ stored \in Nat /\ asks \subseteq Requests
  BY DEF DashInv, Shape
<1>1. ASSUME NEW r \in asks, Serve(r) PROVE Numbered'
  <2> DEFINE t == [r EXCEPT !.answer = 1 + stored']
  <2>1. t.n = r.n
    BY <1>0 DEF Requests
  <2>2. asks' = (asks \ {r}) \cup {t} /\ asked' = asked
    BY <1>1 DEF Serve
  <2>3. stored' <= MaxRuns
    BY <1>0, <1>1 DEF Serve, Numbered
  <2> HIDE DEF t
  <2> QED
    BY <2>1, <2>2, <2>3 DEF Numbered
<1>2. ASSUME NEW r \in asks, NEW ok \in BOOLEAN, Deliver(r, ok) PROVE Numbered'
  <2>1. Follow(r, IF ok THEN Continued(r) ELSE {}) /\ UNCHANGED stored
    BY <1>2 DEF Deliver
  <2>2. \/ Continued(r) = {}
        \/ \E kind, of : Continued(r) = {NewRequest(kind, of, drawing)}
    BY DEF Continued
  <2> QED
    BY <1>0, <2>1, <2>2, FollowNumbered
<1>3. ASSUME NEW r \in asks, NEW ok \in BOOLEAN, DeliverCatalog(r, ok) PROVE Numbered'
  <2>1. \E kind, of : Follow(r, {}) \/ Follow(r, {NewRequest(kind, of, drawing)})
    BY <1>3 DEF DeliverCatalog
  <2>2. UNCHANGED stored
    BY <1>3 DEF DeliverCatalog
  <2> QED
    BY <1>0, <2>1, <2>2, FollowNumbered
<1>4. CASE UNCHANGED dashVars
  BY <1>4 DEF dashVars, Numbered
<1>5. CASE DashNext
  <2>1. \/ Sends /\ UNCHANGED stored
        \/ \E r \in asks : Serve(r) \/ \E ok \in BOOLEAN : Deliver(r, ok) \/ DeliverCatalog(r, ok)
    BY <1>5 DEF DashNext, Sends, SwitchTab, RefreshPage, Chosen, ToggleAutoRefresh, VisibilityChange,
       RefreshActiveTab, Fetch, AsksNothing,
       RefreshDiagnostics, ShowDecision, ReplayDecision, LoadSelectedOutcomes, RunBox, RunCounterfactual,
       RunSensitivity, ClearCounterfactual, LoadPerformance, SubmitBacktest, InspectRun, SubmitForm, SubmitOrder,
       SubmitRiskForm, SubmitGeoScenario, SubmitValidation, RunSimulation, SelectReaction
  <2> QED
    BY <1>0, <1>1, <1>2, <1>3, <2>1, SendsNumbered
<1> QED
  BY <1>4, <1>5

\* The view, the panels, the requests under way and the server's runs keep
\* their types, and requests are numbered as they are sent.
THEOREM TypeCorrect == DashSpec => []DashTypeOK
<1>1. DashInit => Numbered
  BY DEF DashInit, Numbered
<1>2. ViewTyped /\ DashInv /\ Numbered /\ [DashNext]_dashVars => Numbered'
  BY NumberedStep
<1>3. ViewTyped /\ DashInv /\ Numbered => DashTypeOK
  BY DEF ViewTyped, Views, DashInv, Shape, Numbered, DashTypeOK
<1> QED
  BY <1>1, <1>2, <1>3, DashInductive, PTL DEF DashSpec

-----------------------------------------------------------------------------
(* What follows.                                                           *)

\* The realized outcomes under a decision are that decision's, for any number
\* of decisions opened in any order while answers are on their way.
THEOREM OutcomesBelong == DashSpec => []OutcomesUnderTheirDecision
<1>1. DashInv => OutcomesUnderTheirDecision
  BY DEF DashInv, Addressed, OutcomesUnderTheirDecision
<1> QED
  BY <1>1, DashInductive, PTL

\* A panel that says it is loading has a request on the way that redraws it,
\* and a disabled button one that frees it, whichever answers fail.
THEOREM NobodyWaits == DashSpec => []WaitingIsAnswered
<1>1. DashInv => WaitingIsAnswered
  BY DEF DashInv
<1> QED
  BY <1>1, DashInductive, PTL

-----------------------------------------------------------------------------
(* The live feed of one browser tab.                                       *)

\* Sequences are what the empty one grows to.
LEMMA SequencesGrow ==
  ASSUME NEW S, NEW T \in SUBSET Seq(S), <<>> \in T,
         \A s \in T, e \in S : Append(s, e) \in T
  PROVE  T = Seq(S)
<1> DEFINE N == {Len(s) : s \in Seq(S) \ T}
<1>1. N \subseteq Nat
  BY LenProperties
<1>2. ASSUME N # {} PROVE FALSE
  <2>1. PICK n \in N : \A m \in N : <<m, n>> \notin OpToRel(<, Nat)
    <3> HIDE DEF N
    <3> QED BY <1>1, <1>2, NatLessThanWellFounded, WFMin
  <2>2. PICK s \in Seq(S) \ T : Len(s) = n
    OBVIOUS
  <2>3. s # <<>>
    OBVIOUS
  <2>4. PICK t \in Seq(S), e \in S : s = Append(t, e)
    BY <2>3, SequenceEmptyOrAppend
  <2>5. Len(t) \in Nat /\ Len(s) = Len(t) + 1
    BY <2>4, AppendProperties, LenProperties
  <2>6. t \notin T
    BY <2>2, <2>4
  <2>7. Len(t) \in N
    BY <2>6
  <2>8. <<Len(t), n>> \in OpToRel(<, Nat)
    <3>1. \A m, k \in Nat : m < k => <<m, k>> \in OpToRel(<, Nat)
      BY DEF OpToRel
    <3>2. Len(t) \in Nat /\ n \in Nat /\ Len(t) < n
      BY <2>2, <2>5
    <3> HIDE DEF N
    <3> QED BY <3>1, <3>2
  <2> QED BY <2>1, <2>7, <2>8
<1>3. Seq(S) \subseteq T
  <2> SUFFICES ASSUME NEW s \in Seq(S), s \notin T PROVE FALSE
    OBVIOUS
  <2>1. Len(s) \in N
    OBVIOUS
  <2> HIDE DEF N
  <2> QED BY <1>2, <2>1
<1> QED BY <1>3

\* What has been saved after each message.
KeptAlong(saved, s) ==
    saved = [i \in 0..Len(s) |->
              IF i = 0 THEN <<>>
              ELSE IF s[i] \in Event THEN Append(saved[i-1], s[i]) ELSE saved[i-1]]

LEMMA KeptGrows ==
  ASSUME NEW S, NEW s \in Seq(S), NEW e \in S, NEW saved, KeptAlong(saved, s)
  PROVE  \E more : /\ KeptAlong(more, Append(s, e))
                   /\ more[Len(s) + 1] = IF e \in Event THEN Append(saved[Len(s)], e) ELSE saved[Len(s)]
<1> DEFINE n == Len(s)
           t == Append(s, e)
           last == IF e \in Event THEN Append(saved[n], e) ELSE saved[n]
           more == [i \in 0..n + 1 |-> IF i = n + 1 THEN last ELSE saved[i]]
<1>1. n \in Nat /\ Len(t) = n + 1 /\ t[n + 1] = e /\ \A i \in 1..n : t[i] = s[i]
  BY AppendProperties, LenProperties
<1> HIDE DEF n, t
<1>2. \A i \in 0..n : saved[i] = IF i = 0 THEN <<>>
                                ELSE IF s[i] \in Event THEN Append(saved[i-1], s[i]) ELSE saved[i-1]
  BY DEF KeptAlong, n
<1> HIDE DEF last
<1>3. \A i \in 0..n : more[i] = saved[i]
  BY <1>1
<1>4. more[n + 1] = last
  BY <1>1
<1>5. ASSUME NEW i \in 0..n + 1
      PROVE  more[i] = IF i = 0 THEN <<>>
                       ELSE IF t[i] \in Event THEN Append(more[i-1], t[i]) ELSE more[i-1]
  <2>1. CASE i = 0
    BY <1>1, <1>2, <1>3, <2>1
  <2>2. CASE i \in 1..n
    <3>1. i - 1 \in 0..n /\ i \in 0..n /\ i # 0 /\ t[i] = s[i]
      BY <1>1, <2>2
    <3>2. more[i-1] = saved[i-1] /\ more[i] = saved[i]
      BY <1>3, <3>1
    <3> HIDE DEF more
    <3> QED BY <1>2, <3>1, <3>2
  <2>3. CASE i = n + 1
    <3>1. n \in 0..n /\ i - 1 = n /\ i # 0
      BY <1>1, <2>3
    <3>2. more[n] = saved[n]
      BY <1>3, <3>1
    <3> HIDE DEF more
    <3> QED BY <1>1, <1>4, <2>3, <3>1, <3>2 DEF last
  <2> QED BY <1>1, <2>1, <2>2, <2>3
<1>6. KeptAlong(more, t)
  <2>1. more = [i \in 0..n + 1 |-> more[i]]
    OBVIOUS
  <2> HIDE DEF more
  <2>2. more = [i \in 0..n + 1 |->
                  IF i = 0 THEN <<>>
                  ELSE IF t[i] \in Event THEN Append(more[i-1], t[i]) ELSE more[i-1]]
    BY <1>5, <2>1, Zenon
  <2> QED BY <1>1, <2>2 DEF KeptAlong
<1>7. more[n + 1] = IF e \in Event THEN Append(saved[n], e) ELSE saved[n]
  BY <1>4 DEF last
<1> HIDE DEF more
<1> QED BY <1>6, <1>7 DEF n, t

\* Of any messages what has been saved exists,
LEMMA KeptExists ==
  ASSUME NEW S, NEW s \in Seq(S) PROVE \E saved : KeptAlong(saved, s)
<1> DEFINE T == {t \in Seq(S) : \E saved : KeptAlong(saved, t)}
<1>1. <<>> \in T
  <2> DEFINE saved == [i \in 0..0 |-> <<>>]
  <2>1. Len(<<>>) = 0 /\ <<>> \in Seq(S)
    BY EmptySeq
  <2>2. saved = [i \in 0..0 |-> IF i = 0 THEN <<>> ELSE IF <<>>[i] \in Event THEN Append(saved[i-1], <<>>[i])
                               ELSE saved[i-1]]
    BY SMT
  <2> HIDE DEF saved
  <2>3. KeptAlong(saved, <<>>)
    BY <2>1, <2>2 DEF KeptAlong
  <2> QED BY <2>1, <2>3
<1>2. \A t \in T, e \in S : Append(t, e) \in T
  <2> SUFFICES ASSUME NEW t \in Seq(S), NEW saved, KeptAlong(saved, t), NEW e \in S
               PROVE  Append(t, e) \in T
    OBVIOUS
  <2>1. \E more : KeptAlong(more, Append(t, e))
    BY KeptGrows
  <2> QED BY <2>1, AppendProperties
<1>3. T \in SUBSET Seq(S)
  OBVIOUS
<1>4. T = Seq(S)
  <2> HIDE DEF T
  <2> QED BY <1>1, <1>2, <1>3, SequencesGrow
<1> QED BY <1>4

\* and there is one of it.
LEMMA KeptOnce ==
  ASSUME NEW S, NEW s \in Seq(S), NEW a, NEW b, KeptAlong(a, s), KeptAlong(b, s)
  PROVE  a[Len(s)] = b[Len(s)]
<1> DEFINE n == Len(s)
           D == {i \in 0..n : a[i] # b[i]}
<1>1. n \in Nat
  BY LenProperties
<1>2. \A i \in 0..n :
         /\ a[i] = IF i = 0 THEN <<>> ELSE IF s[i] \in Event THEN Append(a[i-1], s[i]) ELSE a[i-1]
         /\ b[i] = IF i = 0 THEN <<>> ELSE IF s[i] \in Event THEN Append(b[i-1], s[i]) ELSE b[i-1]
  BY DEF KeptAlong
<1> HIDE DEF n
<1>3. ASSUME D # {} PROVE FALSE
  <2>1. D \subseteq Nat
    OBVIOUS
  <2>2. PICK i \in D : \A m \in D : <<m, i>> \notin OpToRel(<, Nat)
    <3> HIDE DEF D
    <3> QED BY <1>3, <2>1, NatLessThanWellFounded, WFMin
  <2>3. i \in 0..n /\ a[i] # b[i]
    OBVIOUS
  <2>4. i # 0
    BY <1>1, <1>2, <2>3
  <2>5. i - 1 \in 0..n /\ i - 1 \in Nat /\ i \in Nat /\ i - 1 < i
    BY <1>1, <2>3, <2>4
  <2>6. <<i - 1, i>> \in OpToRel(<, Nat)
    BY <2>5 DEF OpToRel
  <2>7. a[i-1] = b[i-1]
    BY <2>2, <2>5, <2>6
  <2> QED BY <1>2, <2>3, <2>4, <2>7
<1>4. n \in 0..n
  BY <1>1
<1> QED BY <1>3, <1>4 DEF n

\* The events of messages one by one.
LEMMA EventsByOne ==
  /\ EventsOf(<<>>) = <<>>
  /\ \A S : \A s \in Seq(S), e \in S :
        EventsOf(Append(s, e)) = IF e \in Event THEN Append(EventsOf(s), e) ELSE EventsOf(s)
<1>1. ASSUME NEW S, NEW s \in Seq(S), NEW saved, KeptAlong(saved, s)
      PROVE  EventsOf(s) = saved[Len(s)]
  <2> DEFINE own == CHOOSE k : KeptAlong(k, s)
  <2>1. KeptAlong(own, s)
    BY <1>1, Zenon
  <2>2. EventsOf(s) = own[Len(s)]
    BY Zenon DEF EventsOf, KeptAlong
  <2> HIDE DEF own
  <2> QED BY <1>1, <2>1, <2>2, KeptOnce
<1>2. EventsOf(<<>>) = <<>>
  <2>1. <<>> \in Seq({}) /\ Len(<<>>) = 0
    BY EmptySeq
  <2>2. PICK saved : KeptAlong(saved, <<>>)
    BY <2>1, KeptExists
  <2>3. saved[0] = <<>>
    BY <2>1, <2>2 DEF KeptAlong
  <2> QED BY <1>1, <2>1, <2>2, <2>3
<1>3. ASSUME NEW S, NEW s \in Seq(S), NEW e \in S
      PROVE  EventsOf(Append(s, e)) = IF e \in Event THEN Append(EventsOf(s), e) ELSE EventsOf(s)
  <2>1. PICK saved : KeptAlong(saved, s)
    BY KeptExists
  <2>2. PICK more : /\ KeptAlong(more, Append(s, e))
                    /\ more[Len(s) + 1] = IF e \in Event THEN Append(saved[Len(s)], e) ELSE saved[Len(s)]
    BY <2>1, KeptGrows
  <2>3. Append(s, e) \in Seq(S) /\ Len(Append(s, e)) = Len(s) + 1
    BY AppendProperties
  <2>4. EventsOf(s) = saved[Len(s)] /\ EventsOf(Append(s, e)) = more[Len(s) + 1]
    BY <1>1, <2>1, <2>2, <2>3
  <2> QED BY <2>2, <2>4
<1> QED BY <1>2, <1>3

Message == 0..MaxEvents + 1

\* The events of messages joined.
LEMMA EventsJoin ==
  \A S : \A s, t \in Seq(S) : /\ EventsOf(s) \in Seq(Event)
                              /\ EventsOf(s \o t) = EventsOf(s) \o EventsOf(t)
<1> SUFFICES ASSUME NEW S, NEW s \in Seq(S)
             PROVE  /\ EventsOf(s) \in Seq(Event)
                    /\ \A t \in Seq(S) : EventsOf(s \o t) = EventsOf(s) \o EventsOf(t)
  OBVIOUS
<1>1. EventsOf(s) \in Seq(Event)
  <2> DEFINE T == {t \in Seq(S) : EventsOf(t) \in Seq(Event)}
  <2>1. <<>> \in T
    BY EventsByOne, EmptySeq
  <2>2. ASSUME NEW t \in T, NEW e \in S PROVE Append(t, e) \in T
    <3>1. t \in Seq(S) /\ EventsOf(t) \in Seq(Event)
      OBVIOUS
    <3>2. Append(t, e) \in Seq(S)
      BY <3>1, AppendProperties
    <3>3. EventsOf(Append(t, e)) = IF e \in Event THEN Append(EventsOf(t), e) ELSE EventsOf(t)
      BY <3>1, EventsByOne
    <3>4. EventsOf(Append(t, e)) \in Seq(Event)
      BY <3>1, <3>3, AppendProperties
    <3> QED BY <3>2, <3>4
  <2>3. T \in SUBSET Seq(S)
    OBVIOUS
  <2>4. T = Seq(S)
    <3> HIDE DEF T
    <3> QED BY <2>1, <2>2, <2>3, SequencesGrow
  <2> QED BY <2>4
<1>2. ASSUME NEW t \in Seq(S) PROVE EventsOf(s \o t) = EventsOf(s) \o EventsOf(t)
  <2> DEFINE T == {u \in Seq(S) : /\ EventsOf(s \o u) = EventsOf(s) \o EventsOf(u)
                                  /\ EventsOf(u) \in Seq(Event)}
  <2>1. <<>> \in T
    <3>1. s \o <<>> = s /\ EventsOf(s) \o <<>> = EventsOf(s) /\ <<>> \in Seq(S) /\ <<>> \in Seq(Event)
      BY <1>1, ConcatEmptySeq, EmptySeq
    <3> QED BY <3>1, EventsByOne
  <2>2. ASSUME NEW u \in T, NEW e \in S PROVE Append(u, e) \in T
    <3>1. /\ u \in Seq(S) /\ EventsOf(s \o u) = EventsOf(s) \o EventsOf(u)
          /\ EventsOf(u) \in Seq(Event)
      OBVIOUS
    <3> DEFINE g == EventsOf(u)
    <3>2. Append(u, e) \in Seq(S) /\ s \o u \in Seq(S)
      BY <3>1, AppendProperties, ConcatProperties
    <3>3. s \o Append(u, e) = Append(s \o u, e)
      BY <3>1
    <3>4. EventsOf(Append(s \o u, e)) = IF e \in Event THEN Append(EventsOf(s \o u), e) ELSE EventsOf(s \o u)
      BY <3>2, EventsByOne
    <3>5. EventsOf(Append(u, e)) = IF e \in Event THEN Append(g, e) ELSE g
      BY <3>1, EventsByOne
    <3>6. e \in Event => EventsOf(s) \o Append(g, e) = Append(EventsOf(s) \o g, e)
      <4> HIDE DEF g
      <4>1. g \in Seq(Event)
        BY <3>1 DEF g
      <4> QED BY <1>1, <4>1
    <3>7. EventsOf(Append(u, e)) \in Seq(Event)
      BY <3>1, <3>5, AppendProperties
    <3>8. EventsOf(s \o Append(u, e)) = EventsOf(s) \o EventsOf(Append(u, e))
      BY <3>1, <3>3, <3>4, <3>5, <3>6
    <3> QED BY <3>2, <3>7, <3>8
  <2>3. T \in SUBSET Seq(S)
    OBVIOUS
  <2>4. T = Seq(S)
    <3> HIDE DEF T
    <3> QED BY <2>1, <2>2, <2>3, SequencesGrow
  <2> QED BY <2>4
<1> QED BY <1>1, <1>2

LEMMA Joining ==
  ASSUME NEW a \in Seq(Event), NEW b \in Seq(Event), NEW c \in Seq(Event)
  PROVE  a \o b \in Seq(Event) /\ (a \o b) \o c = a \o (b \o c)
  BY ConcatProperties, ConcatAssociative

\* Joining, as an operator the provers leave alone.
Join(p, q) == p \o q

LEMMA JoinAny ==
  /\ \A s1, s2 \in Seq(Event) : Join(s1, s2) \in Seq(Event)
  /\ \A s1, s2, s3 \in Seq(Event) : Join(Join(s1, s2), s3) = Join(s1, Join(s2, s3))
BY Joining DEF Join

LEMMA JoinShift ==
  \A s1, s2, s3, s4 \in Seq(Event) :
     Join(Join(s1, Join(s2, s3)), s4) = Join(Join(s1, s2), Join(s3, s4))
<1> SUFFICES ASSUME NEW s1 \in Seq(Event), NEW s2 \in Seq(Event),
                    NEW s3 \in Seq(Event), NEW s4 \in Seq(Event)
             PROVE  Join(Join(s1, Join(s2, s3)), s4) = Join(Join(s1, s2), Join(s3, s4))
  OBVIOUS
<1>1. PICK g \in Seq(Event) : g = Join(s1, s2)
  BY JoinAny
<1>2. Join(s1, Join(s2, s3)) = Join(g, s3)
  BY <1>1, JoinAny
<1>3. Join(Join(g, s3), s4) = Join(g, Join(s3, s4))
  BY JoinAny
<1> QED BY <1>1, <1>2, <1>3

\* What was added live, then the events in the buffer and those on the wire, then
\* those the listener has yet to forward.
Log(l, b, w, i) == Join(Join(Join(l, EventsOf(b)), EventsOf(w)), i)

\* The log is what the property looks at.
LEMMA LogParts ==
  ASSUME NEW l \in Seq(Event), NEW i \in Seq(Event), NEW b \in Seq(Message), NEW w \in Seq(Message)
  PROVE  /\ Log(l, b, w, i) \in Seq(Event)
         /\ Log(l, b, w, i) = l \o (EventsOf(b \o w) \o i)
<1>1. PICK p \in Seq(Event), q \in Seq(Event) : p = EventsOf(b) /\ q = EventsOf(w)
  BY EventsJoin
<1>2. EventsOf(b \o w) = Join(p, q)
  BY <1>1, EventsJoin DEF Join
<1>3. PICK h \in Seq(Event) : h = Join(p, q)
  BY JoinAny
<1>4. Join(Join(l, p), q) = Join(l, h)
  BY <1>3, JoinAny
<1>5. Join(Join(l, h), i) = Join(l, Join(h, i)) /\ Join(l, h) \in Seq(Event)
  BY JoinAny
<1>6. Log(l, b, w, i) = Join(Join(l, h), i)
  BY <1>1, <1>4, Zenon DEF Log
<1>7. Join(Join(l, h), i) \in Seq(Event)
  BY <1>5, JoinAny
<1>8. l \o (EventsOf(b \o w) \o i) = Join(l, Join(h, i))
  BY <1>2, <1>3, Zenon DEF Join
<1> QED BY <1>5, <1>6, <1>7, <1>8, Zenon

LEMMA EventsOfOne ==
  ASSUME NEW m \in Message, NEW w \in Seq(Message)
  PROVE  /\ EventsOf(<<m>>) = IF m \in Event THEN <<m>> ELSE <<>>
         /\ EventsOf(<<m>> \o w) = IF m \in Event THEN <<m>> \o EventsOf(w) ELSE EventsOf(w)
         /\ EventsOf(Append(w, m)) = IF m \in Event THEN Append(EventsOf(w), m) ELSE EventsOf(w)
<1>1. EventsOf(<<m>>) = IF m \in Event THEN <<m>> ELSE <<>>
  <2>1. <<>> \in Seq(Message) /\ Append(<<>>, m) = <<m>> 
    BY EmptySeq
  <2>2. EventsOf(Append(<<>>, m)) = IF m \in Event THEN Append(EventsOf(<<>>), m) ELSE EventsOf(<<>>)
    BY <2>1, EventsByOne
  <2>3. m \in Event => Append(<<>>, m) = <<m>>
    BY <2>1
  <2> QED BY <2>1, <2>2, <2>3, EventsByOne
<1>2. <<m>> \in Seq(Message) /\ EventsOf(w) \in Seq(Event)
  BY EventsJoin
<1>3. EventsOf(<<m>> \o w) = EventsOf(<<m>>) \o EventsOf(w)
  BY <1>2, EventsJoin
<1>4. <<>> \o EventsOf(w) = EventsOf(w)
  BY <1>2, ConcatEmptySeq
<1> QED BY <1>1, <1>3, <1>4, EventsByOne

\* How what is logged moves on its way to the tab.
LEMMA LogForwarded ==
  ASSUME NEW l \in Seq(Event), NEW i \in Seq(Event), NEW b \in Seq(Message), NEW w \in Seq(Message),
         i # <<>>
  PROVE  Log(l, b, Append(w, Head(i)), Tail(i)) = Log(l, b, w, i)
<1>1. PICK h \in Event, r \in Seq(Event) : h = Head(i) /\ r = Tail(i) /\ i = <<h>> \o r
  <2>1. Head(i) \in Event /\ Tail(i) \in Seq(Event) /\ i = <<Head(i)>> \o Tail(i)
    OBVIOUS
  <2> QED BY <2>1, Zenon
<1>2. h \in Message
  BY FeedAssumption DEF Event, Message, FeedAssumption
<1>3. PICK p \in Seq(Event), q \in Seq(Event) : p = EventsOf(b) /\ q = EventsOf(w)
  BY EventsJoin
<1>4. PICK o \in Seq(Event) : o = <<h>>
  <2>1. <<h>> \in Seq(Event)
    OBVIOUS
  <2> QED BY <2>1, Zenon
<1>5. EventsOf(Append(w, h)) = Join(q, o)
  <2>1. EventsOf(Append(w, h)) = Append(q, h)
    BY <1>2, <1>3, EventsOfOne
  <2>2. Append(q, h) = q \o <<h>>
    BY AppendIsConcat
  <2> QED BY <2>1, <2>2, <1>4, Zenon DEF Join
<1>6. PICK k \in Seq(Event) : k = Join(l, p)
  BY JoinAny
<1>7. Log(l, b, Append(w, h), r) = Join(Join(k, Join(q, o)), r)
  BY <1>3, <1>5, <1>6, Zenon DEF Log
<1>8. Log(l, b, w, i) = Join(Join(k, q), Join(o, r))
  BY <1>1, <1>3, <1>4, <1>6, Zenon DEF Log, Join
<1>9. Join(Join(k, Join(q, o)), r) = Join(Join(k, q), Join(o, r))
  <2>1. k \in Seq(Event) /\ q \in Seq(Event) /\ o \in Seq(Event) /\ r \in Seq(Event)
    OBVIOUS
  <2> QED BY <2>1, JoinShift, SMT
<1> QED BY <1>1, <1>7, <1>8, <1>9, Zenon

LEMMA LogReceived ==
  ASSUME NEW l \in Seq(Event), NEW i \in Seq(Event), NEW b \in Seq(Message), NEW w \in Seq(Message),
         w # <<>>
  PROVE  /\ Head(w) \notin Event => Log(l, b, Tail(w), i) = Log(l, b, w, i)
         /\ Log(l, Append(b, Head(w)), Tail(w), i) = Log(l, b, w, i)
<1>1. PICK h \in Message, r \in Seq(Message) : h = Head(w) /\ r = Tail(w) /\ w = <<h>> \o r
  <2>1. Head(w) \in Message /\ Tail(w) \in Seq(Message) /\ w = <<Head(w)>> \o Tail(w)
    OBVIOUS
  <2> QED BY <2>1, Zenon
<1>2. PICK p \in Seq(Event), q \in Seq(Event) : p = EventsOf(b) /\ q = EventsOf(r)
  BY EventsJoin
<1>3. CASE h \notin Event
  <2>1. EventsOf(w) = q /\ EventsOf(Append(b, h)) = p
    BY <1>1, <1>2, <1>3, EventsOfOne
  <2> QED BY <1>1, <1>2, <2>1, Zenon DEF Log
<1>4. CASE h \in Event
  <2>1. PICK o \in Seq(Event) : o = <<h>>
    <3>1. <<h>> \in Seq(Event)
      BY <1>4
    <3> QED BY <3>1, Zenon
  <2>2. EventsOf(w) = Join(o, q)
    <3>1. EventsOf(w) = <<h>> \o EventsOf(r)
      BY <1>1, <1>4, EventsOfOne
    <3> QED BY <1>2, <2>1, <3>1, Zenon DEF Join
  <2>3. EventsOf(Append(b, h)) = Join(p, o)
    <3>1. EventsOf(Append(b, h)) = Append(p, h)
      BY <1>2, <1>4, EventsOfOne
    <3>2. Append(p, h) = p \o <<h>>
      BY <1>4, AppendIsConcat
    <3> QED BY <2>1, <3>1, <3>2, Zenon DEF Join
  <2>4. Join(Join(l, Join(p, o)), q) = Join(Join(l, p), Join(o, q))
    <3>1. l \in Seq(Event) /\ p \in Seq(Event) /\ o \in Seq(Event) /\ q \in Seq(Event)
      OBVIOUS
    <3> QED BY <3>1, JoinShift, SMT
  <2>5. Log(l, Append(b, h), r, i) = Log(l, b, w, i)
    BY <1>2, <2>2, <2>3, <2>4, Zenon DEF Log
  <2> QED BY <1>1, <1>4, <2>5, Zenon
<1> QED BY <1>3, <1>4

LEMMA LogFlushed ==
  ASSUME NEW l \in Seq(Event), NEW i \in Seq(Event), NEW b \in Seq(Message), NEW w \in Seq(Message)
  PROVE  Log(l \o EventsOf(b), <<>>, w, i) = Log(l, b, w, i)
<1>1. PICK p \in Seq(Event) : p = EventsOf(b)
  BY EventsJoin
<1>2. PICK k \in Seq(Event) : k = Join(l, p)
  BY JoinAny
<1>3. Join(k, <<>>) = k
  BY ConcatEmptySeq DEF Join
<1>4. EventsOf(<<>>) = <<>>
  BY EventsByOne
<1>5. Log(k, <<>>, w, i) = Join(Join(k, EventsOf(w)), i)
  BY <1>3, <1>4, Zenon DEF Log
<1>6. l \o EventsOf(b) = k
  BY <1>1, <1>2, Zenon DEF Join
<1> QED BY <1>1, <1>2, <1>5, <1>6, Zenon DEF Log

LEMMA LogGrows ==
  ASSUME NEW l \in Seq(Event), NEW i \in Seq(Event), NEW b \in Seq(Message), NEW w \in Seq(Message)
  PROVE  /\ \A m \in Message \ Event : Log(l, b, Append(w, m), i) = Log(l, b, w, i)
         /\ \A e \in Event : Log(l, b, w, Append(i, e)) = Append(Log(l, b, w, i), e)
<1>1. ASSUME NEW m \in Message \ Event PROVE Log(l, b, Append(w, m), i) = Log(l, b, w, i)
  <2>1. EventsOf(Append(w, m)) = EventsOf(w)
    BY EventsOfOne
  <2> QED BY <2>1, Zenon DEF Log
<1>2. ASSUME NEW e \in Event PROVE Log(l, b, w, Append(i, e)) = Append(Log(l, b, w, i), e)
  <2>1. PICK p \in Seq(Event), q \in Seq(Event) : p = EventsOf(b) /\ q = EventsOf(w)
    BY EventsJoin
  <2>2. PICK g \in Seq(Event) : g = Join(Join(l, p), q)
    <3>1. Join(l, p) \in Seq(Event)
      BY JoinAny
    <3>2. Join(Join(l, p), q) \in Seq(Event)
      BY <3>1, JoinAny
    <3> QED BY <3>2, Zenon
  <2>3. g \o Append(i, e) = Append(g \o i, e)
    OBVIOUS
  <2> QED BY <2>1, <2>2, <2>3, Zenon DEF Log, Join
<1> QED BY <1>1, <1>2

\* The last entries of t are those of s.
Ends(s, t) == Len(s) <= Len(t) /\ \A i \in 1..Len(s) : s[i] = t[Len(t) - Len(s) + i]

LEMMA EndsIsSuffix ==
  ASSUME NEW s \in Seq(Event), NEW t \in Seq(Event), Ends(s, t)
  PROVE  IsSuffix(s, t)
<1> DEFINE n == Len(s)
           m == Len(t)
           a == [i \in 1..n |-> s[(n - i) + 1]]
           b == [i \in 1..m |-> t[(m - i) + 1]]
<1>1. n \in Nat /\ m \in Nat /\ n <= m
  BY LenProperties DEF Ends
<1>2. Len(a) = n /\ Len(b) = m
  BY <1>1
<1>3. \A i \in 1..n : s[(n - i) + 1] = t[(m - i) + 1]
  <2> SUFFICES ASSUME NEW i \in 1..n PROVE s[(n - i) + 1] = t[(m - i) + 1]
    OBVIOUS
  <2>1. (n - i) + 1 \in 1..n /\ m - n + ((n - i) + 1) = (m - i) + 1
    BY <1>1
  <2>2. \A j \in 1..n : s[j] = t[m - n + j]
    BY DEF Ends
  <2> HIDE DEF n, m
  <2> QED BY <2>1, <2>2
<1> HIDE DEF n, m
<1>4. \A i \in 1..n : a[i] = b[i]
  BY <1>1, <1>3
<1> HIDE DEF a, b
<1>5. SubSeq(a, 1, n) = SubSeq(b, 1, n)
  <2>1. SubSeq(a, 1, n) = [i \in 1..n |-> a[i]]
    BY <1>1
  <2>2. SubSeq(b, 1, n) = [i \in 1..n |-> b[i]]
    BY <1>1
  <2>3. [i \in 1..n |-> a[i]] = [i \in 1..n |-> b[i]]
    BY <1>4, Zenon
  <2> QED BY <2>1, <2>2, <2>3, Zenon
<1>6. Reverse(s) = a /\ Reverse(t) = b
  BY Zenon DEF Reverse, a, b, n, m
<1> QED BY <1>1, <1>2, <1>5, <1>6, Zenon DEF IsSuffix, IsPrefix

LEMMA EndsGrows ==
  ASSUME NEW s \in Seq(Event), NEW t \in Seq(Event), NEW e \in Event
  PROVE  /\ Ends(<<>>, t)
         /\ Ends(s, t) => Ends(Append(s, e), Append(t, e))
<1>1. Ends(<<>>, t)
  BY LenProperties DEF Ends
<1>2. ASSUME Ends(s, t) PROVE Ends(Append(s, e), Append(t, e))
  <2> DEFINE u == Append(s, e)
             v == Append(t, e)
             n == Len(s)
             m == Len(t)
  <2>1. n \in Nat /\ m \in Nat /\ n <= m /\ \A i \in 1..n : s[i] = t[m - n + i]
    BY <1>2, LenProperties DEF Ends
  <2>2. /\ Len(u) = n + 1 /\ u[n + 1] = e /\ \A i \in 1..n : u[i] = s[i]
        /\ Len(v) = m + 1 /\ v[m + 1] = e /\ \A i \in 1..m : v[i] = t[i]
    BY AppendProperties
  <2> HIDE DEF u, v, n, m
  <2>3. ASSUME NEW i \in 1..n + 1 PROVE u[i] = v[(m + 1) - (n + 1) + i]
    <3>1. CASE i = n + 1
      <4>1. (m + 1) - (n + 1) + i = m + 1
        BY <2>1, <3>1
      <4> QED BY <2>2, <3>1, <4>1
    <3>2. CASE i \in 1..n
      <4>1. (m + 1) - (n + 1) + i = m - n + i /\ m - n + i \in 1..m
        BY <2>1, <3>2
      <4> QED BY <2>1, <2>2, <3>2, <4>1
    <3> QED BY <2>1, <3>1, <3>2
  <2>4. n + 1 <= m + 1
    BY <2>1
  <2>5. Ends(u, v)
    BY <2>2, <2>3, <2>4 DEF Ends
  <2> QED BY <2>5 DEF u, v
<1> QED BY <1>1, <1>2

\* No event twice, all of them among the events that ids has.
Once(s, ids) ==
    /\ \A i \in 1..Len(s) : s[i] \in ids
    /\ \A i, j \in 1..Len(s) : s[i] = s[j] => i = j

LEMMA OnceGrows ==
  ASSUME NEW s \in Seq(Event), NEW ids, Once(s, ids), NEW e \in Event \ ids, NEW more,
         ids \cup {e} \subseteq more
  PROVE  Once(Append(s, e), more)
<1> DEFINE u == Append(s, e)
           n == Len(s)
<1>1. n \in Nat /\ Len(u) = n + 1 /\ u[n + 1] = e /\ \A i \in 1..n : u[i] = s[i]
  BY AppendProperties, LenProperties
<1> HIDE DEF u
<1>2. /\ \A i \in 1..n : s[i] \in ids
      /\ \A i, j \in 1..n : s[i] = s[j] => i = j
  BY DEF Once
<1> HIDE DEF n
<1>3. \A i \in 1..n + 1 : i = n + 1 \/ i \in 1..n
  BY <1>1
<1>4. \A i \in 1..n + 1 : u[i] \in more
  BY <1>1, <1>2, <1>3
<1>5. ASSUME NEW i \in 1..n + 1, NEW j \in 1..n + 1, u[i] = u[j] PROVE i = j
  BY <1>1, <1>2, <1>3, <1>5
<1> QED BY <1>1, <1>4, <1>5 DEF Once, u

LEMMA OnceShrinks ==
  ASSUME NEW s \in Seq(Event), NEW t \in Seq(Event), NEW ids, Once(Join(s, t), ids)
  PROVE  Once(s, ids)
<1> DEFINE u == Join(s, t)
<1>1. /\ Len(s) \in Nat /\ Len(u) \in Nat /\ Len(s) <= Len(u) /\ \A i \in 1..Len(s) : u[i] = s[i]
  <2>1. Len(u) = Len(s) + Len(t) /\ Len(s) \in Nat /\ Len(t) \in Nat
    BY ConcatProperties, LenProperties DEF Join
  <2>2. \A i \in 1..Len(s) : u[i] = s[i]
    BY ConcatProperties DEF Join
  <2> QED BY <2>1, <2>2
<1> HIDE DEF u
<1>2. Once(u, ids)
  BY DEF u
<1>3. \A i \in 1..Len(s) : i \in 1..Len(u)
  BY <1>1
<1> QED BY <1>1, <1>2, <1>3 DEF Once

LEMMA OnceIsInjective ==
  ASSUME NEW s \in Seq(Event), NEW ids, Once(s, ids)
  PROVE  IsInjective(s)
<1>1. DOMAIN s = 1..Len(s)
  BY LenProperties
<1> QED BY <1>1 DEF Once, IsInjective

Listening == {"none", "starting", "subscribed", "sleeping", "broken"}

ConnShape == [open : BOOLEAN, greeted : BOOLEAN, listener : Listening,
              inbox : Seq(Event), wire : Seq(Message)]

FeedShape ==
    /\ emitted \in 0..MaxEvents
    /\ emitting \in [Emitter -> [event : Nat, next : {"none", "publish", "insert"}]]
    /\ conn \in ConnShape
    /\ "buffer" \in DOMAIN tab /\ tab.buffer \in Seq(Message)
    /\ live \in Seq(Event) /\ owed \in Seq(Event)

LogNow == Log(live, tab.buffer, conn.wire, conn.inbox)

\* The events that are out of their emitters' hands.
Released == {n \in 1..emitted : \A e \in Emitter : emitting[e].next = "publish" => emitting[e].event # n}

\* Each event has one emitter, which publishes it once.
OwnEvents ==
    /\ \A e \in Emitter : emitting[e].next = "publish" => emitting[e].event \in 1..emitted
    /\ \A d, e \in Emitter :
          /\ emitting[d].next = "publish" /\ emitting[e].next = "publish"
          /\ emitting[d].event = emitting[e].event
          => d = e

FeedInv == /\ FeedShape
           /\ OwnEvents
           /\ Once(LogNow, Released)
           /\ Hears => Ends(owed, LogNow)

LEMMA InRange == \A n \in 1..emitted : emitted \in 0..MaxEvents => n \in Event
BY FeedAssumption DEF Event, FeedAssumption

LEMMA Empties == <<>> \in Seq(Event) /\ <<>> \in Seq(Message)
BY EmptySeq

LEMMA NoConnShape == NoConn \in ConnShape /\ [NoConn EXCEPT !.open = TRUE] \in ConnShape
BY Empties DEF NoConn, ConnShape, Listening

LEMMA MessageKinds ==
  Connected \in Message \ Event /\ Heartbeat \in Message \ Event /\ Event \subseteq Message
BY FeedAssumption DEF Connected, Heartbeat, Message, Event, FeedAssumption

LEMMA ShapeStep ==
  ASSUME FeedShape, OwnEvents, [LiveFeedNext]_liveFeedVars
  PROVE  FeedShape'
<1> USE DEF FeedShape
<1>0. CASE UNCHANGED liveFeedVars
  BY <1>0 DEF liveFeedVars
<1>1. ASSUME NEW e \in Emitter, StartEmit(e) PROVE FeedShape'
  BY <1>1, FeedAssumption DEF StartEmit, FeedAssumption
<1>2. ASSUME NEW e \in Emitter, Publish(e) PROVE FeedShape'
  <2>1. emitting[e].event \in Event
    BY <1>2, InRange DEF Publish, OwnEvents
  <2>2. conn.inbox \in Seq(Event) /\ conn.wire \in Seq(Message)
    BY DEF ConnShape
  <2>3. Append(conn.inbox, emitting[e].event) \in Seq(Event) /\ Append(owed, emitting[e].event) \in Seq(Event)
    BY <2>1, <2>2, AppendProperties
  <2>4. conn' \in ConnShape
    BY <1>2, <2>3 DEF Publish, ConnShape
  <2>5. owed' \in Seq(Event)
    BY <1>2, <2>3 DEF Publish
  <2>6. emitting' \in [Emitter -> [event : Nat, next : {"none", "publish", "insert"}]]
    BY <1>2 DEF Publish
  <2> QED BY <1>2, <2>4, <2>5, <2>6 DEF Publish
<1>3. ASSUME NEW e \in Emitter, NEW ok \in BOOLEAN, Insert(e, ok) PROVE FeedShape'
  BY <1>3 DEF Insert
<1>4. CASE Greet
  <2>1. Append(conn.wire, Connected) \in Seq(Message)
    BY MessageKinds, AppendProperties DEF ConnShape
  <2>2. conn' \in ConnShape
    BY <1>4, <2>1 DEF Greet, ConnShape, Listening
  <2> QED BY <1>4, <2>2 DEF Greet
<1>5. CASE Subscribe
  <2>1. conn' \in ConnShape
    BY <1>5 DEF Subscribe, ConnShape, Listening
  <2> QED BY <1>5, <2>1, Empties DEF Subscribe
<1>6. CASE Forward
  <2>1. Head(conn.inbox) \in Event /\ Tail(conn.inbox) \in Seq(Event)
    BY <1>6 DEF Forward, ConnShape
  <2>2. Append(conn.wire, Head(conn.inbox)) \in Seq(Message)
    BY <2>1, MessageKinds, AppendProperties DEF ConnShape
  <2>3. conn' \in ConnShape
    BY <1>6, <2>1, <2>2 DEF Forward, ConnShape
  <2> QED BY <1>6, <2>3 DEF Forward, serverVars
<1>7. CASE ListenerFails
  <2>1. conn' \in ConnShape
    BY <1>7, Empties DEF ListenerFails, ConnShape, Listening
  <2> QED BY <1>7, <2>1 DEF ListenerFails
<1>8. CASE ListenerWakes
  <2>1. conn' \in ConnShape
    BY <1>8 DEF ListenerWakes, ConnShape, Listening
  <2> QED BY <1>8, <2>1 DEF ListenerWakes, serverVars
<1>9. CASE Beat
  <2>1. Append(conn.wire, Heartbeat) \in Seq(Message)
    BY MessageKinds, AppendProperties DEF ConnShape
  <2>2. conn' \in ConnShape
    BY <1>9, <2>1 DEF Beat, ConnShape
  <2> QED BY <1>9, <2>2 DEF Beat, serverVars
<1>10. CASE OnOpen
  <2>1. conn' \in ConnShape
    BY <1>10, NoConnShape DEF OnOpen
  <2> QED BY <1>10, <2>1 DEF OnOpen, serverVars
<1>11. CASE OnClose
  <2>1. conn' \in ConnShape
    BY <1>11, NoConnShape DEF OnClose
  <2>2. tab'.buffer = tab.buffer /\ DOMAIN tab' = DOMAIN tab
    BY <1>11 DEF OnClose, Closed
  <2> QED BY <1>11, <2>1, <2>2 DEF OnClose, serverVars
<1>12. CASE OnMessage
  <2>1. Head(conn.wire) \in Message /\ Tail(conn.wire) \in Seq(Message)
    BY <1>12 DEF OnMessage, ConnShape
  <2>2. Append(tab.buffer, Head(conn.wire)) \in Seq(Message)
    BY <2>1, AppendProperties
  <2>3. conn' \in ConnShape
    BY <1>12, <2>1 DEF OnMessage, ConnShape
  <2>4. DOMAIN tab' = DOMAIN tab /\ tab'.buffer \in {tab.buffer, Append(tab.buffer, Head(conn.wire))}
    BY <1>12 DEF OnMessage
  <2> QED BY <1>12, <2>2, <2>3, <2>4 DEF OnMessage, serverVars
<1>13. CASE FlushWsMessages
  <2>1. DOMAIN tab' = DOMAIN tab /\ tab'.buffer = <<>>
    BY <1>13 DEF FlushWsMessages
  <2>2. live' \in Seq(Event)
    <3>1. EventsOf(tab.buffer) \in Seq(Event)
      BY EventsJoin
    <3> QED BY <1>13, <3>1, ConcatProperties DEF FlushWsMessages
  <2> QED BY <1>13, <2>1, <2>2, Empties DEF FlushWsMessages, serverVars
<1>14. CASE RedisFalls
  <2>1. conn' \in ConnShape
    BY <1>14 DEF RedisFalls, ConnShape, Listening
  <2> QED BY <1>14, <2>1 DEF RedisFalls
<1>15. CASE Connect \/ Hide \/ Show \/ RenderTimeline
  <2>1. DOMAIN tab' = DOMAIN tab /\ tab'.buffer = tab.buffer
    BY <1>15 DEF Connect, Hide, Show, RenderTimeline
  <2> QED BY <1>15, <2>1 DEF Connect, Hide, Show, RenderTimeline, serverVars
<1>16. CASE Refresh \/ (\E ok \in BOOLEAN : GetRecent(ok)) \/ RedisReturns \/ OtherCall \/ PingDue
  BY <1>16 DEF Refresh, GetRecent, RedisReturns, OtherCall, PingDue, serverVars
<1> QED
  BY <1>0, <1>1, <1>2, <1>3, <1>4, <1>5, <1>6, <1>7, <1>8, <1>9, <1>10, <1>11, <1>12, <1>13,
     <1>14, <1>15, <1>16 DEF LiveFeedNext

\* A step that emits nothing leaves what is logged, or drops its end together
\* with the subscription.
Kept == /\ LogNow' = LogNow
        /\ Hears' => owed' = <<>> \/ (Hears /\ owed' = owed)
Dropped == /\ \E t \in Seq(Event) : LogNow = Join(LogNow', t)
           /\ ~Hears'

LEMMA EndDropped ==
  ASSUME NEW l \in Seq(Event), NEW i \in Seq(Event), NEW b \in Seq(Message), NEW w \in Seq(Message)
  PROVE  /\ \E t \in Seq(Event) : Log(l, b, w, i) = Join(Log(l, b, w, <<>>), t)
         /\ \E t \in Seq(Event) : Log(l, b, w, i) = Join(Log(l, b, <<>>, <<>>), t)
<1>1. PICK p \in Seq(Event), q \in Seq(Event) : p = EventsOf(b) /\ q = EventsOf(w)
  BY EventsJoin
<1>2. PICK k \in Seq(Event) : k = Join(l, p)
  BY JoinAny
<1>3. PICK g \in Seq(Event) : g = Join(k, q)
  BY JoinAny
<1>4. Join(g, <<>>) = g /\ Join(k, <<>>) = k
  BY ConcatEmptySeq DEF Join
<1>5. Log(l, b, w, <<>>) = g /\ Log(l, b, w, i) = Join(g, i)
  BY <1>1, <1>2, <1>3, <1>4, Zenon DEF Log
<1>6. Log(l, b, <<>>, <<>>) = k
  BY <1>1, <1>2, <1>4, EventsByOne, Zenon DEF Log
<1>7. Join(g, i) = Join(k, Join(q, i)) /\ Join(q, i) \in Seq(Event)
  BY <1>3, JoinAny
<1> QED BY <1>5, <1>6, <1>7, Zenon

LEMMA LogStep ==
  ASSUME FeedShape, [LiveFeedNext]_liveFeedVars, UNCHANGED <<emitting, emitted>>
  PROVE  Kept \/ Dropped
<1> DEFINE b == tab.buffer
           w == conn.wire
           i == conn.inbox
<1>a. /\ b \in Seq(Message) /\ w \in Seq(Message) /\ i \in Seq(Event) /\ live \in Seq(Event)
      /\ "buffer" \in DOMAIN tab /\ conn \in ConnShape
  BY DEF FeedShape, ConnShape
<1>b. LogNow = Log(live, b, w, i) /\ LogNow' = Log(live', b', w', i')
  BY DEF LogNow
<1> HIDE DEF LogNow, Hears
<1>0. CASE UNCHANGED liveFeedVars
  BY <1>0 DEF liveFeedVars, Kept, Hears, LogNow
<1>1. ASSUME NEW e \in Emitter, StartEmit(e) \/ Publish(e) PROVE FALSE
  BY <1>1 DEF StartEmit, Publish, FeedShape
<1>2. ASSUME NEW e \in Emitter, NEW ok \in BOOLEAN, Insert(e, ok) PROVE Kept
  BY <1>2 DEF Insert, Kept, Hears, LogNow
<1>4. CASE Greet
  <2>1. w' = Append(w, Connected) /\ i' = i /\ b' = b /\ live' = live
    BY <1>a, <1>4 DEF Greet, ConnShape
  <2>2. Log(live, b, Append(w, Connected), i) = Log(live, b, w, i)
    BY <1>a, MessageKinds, LogGrows
  <2>3. ~Hears'
    BY <1>a, <1>4 DEF Greet, Hears, ConnShape
  <2> HIDE DEF b, w, i
  <2> QED BY <1>b, <2>1, <2>2, <2>3, Zenon DEF Kept
<1>5. CASE Subscribe
  <2>1. w' = w /\ i' = i /\ b' = b /\ live' = live /\ owed' = <<>>
    BY <1>a, <1>5 DEF Subscribe, ConnShape
  <2> HIDE DEF b, w, i
  <2> QED BY <1>b, <2>1, Zenon DEF Kept
<1>6. CASE Forward
  <2>1. /\ w' = Append(w, Head(i)) /\ i' = Tail(i) /\ b' = b /\ live' = live /\ owed' = owed
        /\ i # <<>> /\ Hears' = Hears
    BY <1>a, <1>6 DEF Forward, ConnShape, Hears
  <2>2. Log(live, b, Append(w, Head(i)), Tail(i)) = Log(live, b, w, i)
    <3> HIDE DEF b, w, i
    <3> QED BY <1>a, <2>1, LogForwarded
  <2> HIDE DEF b, w, i
  <2> QED BY <1>b, <2>1, <2>2, Zenon DEF Kept
<1>7. CASE ListenerFails
  <2>1. w' = w /\ i' = <<>> /\ b' = b /\ live' = live
    BY <1>a, <1>7 DEF ListenerFails, ConnShape
  <2>2. ~Hears'
    BY <1>a, <1>7 DEF ListenerFails, Hears, ConnShape
  <2>3. \E t \in Seq(Event) : Log(live, b, w, i) = Join(Log(live, b, w, <<>>), t)
    <3> HIDE DEF b, w, i
    <3> QED BY <1>a, EndDropped
  <2> HIDE DEF b, w, i
  <2>4. LogNow' = Log(live, b, w, <<>>)
    BY <1>b, <2>1, Zenon
  <2> QED BY <1>b, <2>2, <2>3, <2>4, Zenon DEF Dropped
<1>8. CASE ListenerWakes
  <2>1. w' = w /\ i' = i /\ b' = b /\ live' = live
    BY <1>a, <1>8 DEF ListenerWakes, ConnShape
  <2>2. ~Hears'
    BY <1>a, <1>8 DEF ListenerWakes, Hears, ConnShape
  <2> HIDE DEF b, w, i
  <2> QED BY <1>b, <2>1, <2>2, Zenon DEF Kept
<1>9. CASE Beat
  <2>1. /\ w' = Append(w, Heartbeat) /\ i' = i /\ b' = b /\ live' = live /\ owed' = owed
        /\ Hears' = Hears
    BY <1>a, <1>9 DEF Beat, ConnShape, Hears
  <2>2. Log(live, b, Append(w, Heartbeat), i) = Log(live, b, w, i)
    BY <1>a, MessageKinds, LogGrows
  <2> HIDE DEF b, w, i
  <2> QED BY <1>b, <2>1, <2>2, Zenon DEF Kept
<1>10. CASE OnOpen \/ OnClose
  <2>1. w' = <<>> /\ i' = <<>> /\ b' = b /\ live' = live
    <3>1. conn' = NoConn \/ conn' = [NoConn EXCEPT !.open = TRUE]
      BY <1>10 DEF OnOpen, OnClose
    <3>2. conn'.wire = <<>> /\ conn'.inbox = <<>>
      BY <3>1 DEF NoConn
    <3>3. tab'.buffer = tab.buffer
      BY <1>a, <1>10 DEF OnOpen, OnClose, Closed
    <3>4. live' = live
      BY <1>10 DEF OnOpen, OnClose
    <3> QED BY <3>2, <3>3, <3>4
  <2>2. ~Hears'
    BY <1>a, <1>10 DEF OnOpen, OnClose, NoConn, Hears, ConnShape
  <2>3. \E t \in Seq(Event) : Log(live, b, w, i) = Join(Log(live, b, <<>>, <<>>), t)
    <3> HIDE DEF b, w, i
    <3> QED BY <1>a, EndDropped
  <2> HIDE DEF b, w, i
  <2>4. LogNow' = Log(live, b, <<>>, <<>>)
    BY <1>b, <2>1, Zenon
  <2> QED BY <1>b, <2>2, <2>3, <2>4, Zenon DEF Dropped
<1>12. CASE OnMessage
  <2>1. /\ w' = Tail(w) /\ i' = i /\ live' = live /\ owed' = owed
        /\ b' = (IF Head(w) = Connected THEN b ELSE Append(b, Head(w)))
        /\ w # <<>> /\ Hears' = Hears
    BY <1>a, <1>12 DEF OnMessage, ConnShape, Hears
  <2>2. /\ Head(w) \notin Event => Log(live, b, Tail(w), i) = Log(live, b, w, i)
        /\ Log(live, Append(b, Head(w)), Tail(w), i) = Log(live, b, w, i)
    <3> HIDE DEF b, w, i
    <3> QED BY <1>a, <2>1, LogReceived
  <2>3. Connected \notin Event
    BY MessageKinds
  <2> HIDE DEF b, w, i
  <2>4. CASE Head(w) = Connected
    BY <1>b, <2>1, <2>2, <2>3, <2>4, Zenon DEF Kept
  <2>5. CASE Head(w) # Connected
    BY <1>b, <2>1, <2>2, <2>5, Zenon DEF Kept
  <2> QED BY <2>4, <2>5
<1>13. CASE FlushWsMessages
  <2>1. /\ b' = <<>> /\ live' = live \o EventsOf(b) /\ w' = w /\ i' = i /\ owed' = owed
        /\ Hears' = Hears
    BY <1>a, <1>13 DEF FlushWsMessages, Hears
  <2>2. Log(live \o EventsOf(b), <<>>, w, i) = Log(live, b, w, i)
    <3> HIDE DEF b, w, i
    <3> QED BY <1>a, LogFlushed
  <2> HIDE DEF b, w, i
  <2> QED BY <1>b, <2>1, <2>2, Zenon DEF Kept
<1>14. CASE RedisFalls
  <2>1. w' = w /\ i' = i /\ b' = b /\ live' = live
    BY <1>a, <1>14 DEF RedisFalls, ConnShape
  <2>2. ~Hears'
    BY <1>a, <1>14 DEF RedisFalls, Hears, ConnShape
  <2> HIDE DEF b, w, i
  <2> QED BY <1>b, <2>1, <2>2, Zenon DEF Kept
<1>15. CASE \/ Connect \/ Hide \/ Show \/ RenderTimeline
            \/ Refresh \/ (\E ok \in BOOLEAN : GetRecent(ok)) \/ RedisReturns \/ OtherCall \/ PingDue
  <2>1. b' = b /\ conn' = conn /\ live' = live /\ owed' = owed
    BY <1>a, <1>15 DEF Connect, Hide, Show, RenderTimeline, Refresh, GetRecent, RedisReturns,
                       OtherCall, PingDue, serverVars
  <2>2. w' = w /\ i' = i /\ Hears' = Hears
    BY <2>1 DEF Hears
  <2> HIDE DEF b, w, i
  <2> QED BY <1>b, <2>1, <2>2, Zenon DEF Kept
<1> QED
  BY <1>0, <1>1, <1>2, <1>4, <1>5, <1>6, <1>7, <1>8, <1>9, <1>10, <1>12, <1>13, <1>14, <1>15
     DEF LiveFeedNext

LEMMA LogTyped ==
  FeedShape => LogNow \in Seq(Event) /\ LogNow = live \o Pending
<1> SUFFICES ASSUME FeedShape PROVE LogNow \in Seq(Event) /\ LogNow = live \o Pending
  OBVIOUS
<1>1. /\ tab.buffer \in Seq(Message) /\ conn.wire \in Seq(Message) /\ conn.inbox \in Seq(Event)
      /\ live \in Seq(Event)
  BY DEF FeedShape, ConnShape
<1> QED BY <1>1, LogParts DEF LogNow, Pending

LEMMA FeedStep ==
  ASSUME FeedInv, [LiveFeedNext]_liveFeedVars
  PROVE  FeedInv'
<1>1. FeedShape /\ FeedShape' /\ OwnEvents
  BY ShapeStep DEF FeedInv
<1>2. LogNow \in Seq(Event) /\ LogNow' \in Seq(Event)
  <2>1. LogNow \in Seq(Event)
    BY <1>1, LogTyped
  <2>2. /\ tab'.buffer \in Seq(Message) /\ conn'.wire \in Seq(Message)
        /\ conn'.inbox \in Seq(Event) /\ live' \in Seq(Event)
    BY <1>1 DEF FeedShape, ConnShape
  <2>3. LogNow' \in Seq(Event)
    BY <2>2, LogParts DEF LogNow
  <2> QED BY <2>1, <2>3
<1>3. Once(LogNow, Released) /\ (Hears => Ends(owed, LogNow)) /\ owed \in Seq(Event)
  BY DEF FeedInv, FeedShape
<1> HIDE DEF LogNow, Hears
<1>4. CASE UNCHANGED <<emitting, emitted>>
  <2>1. OwnEvents' /\ Released' = Released
    BY <1>1, <1>4 DEF OwnEvents, Released
  <2>2. CASE Kept
    <3>1. Once(LogNow', Released')
      BY <1>3, <2>1, <2>2 DEF Kept
    <3>2. Hears' => Ends(owed', LogNow')
      <4>1. Ends(<<>>, LogNow)
        <5>1. \A t \in Seq(Event) : Len(<<>>) <= Len(t)
          BY LenProperties
        <5> QED BY <1>2, <5>1 DEF Ends
      <4> QED BY <1>3, <2>2, <4>1, Zenon DEF Kept
    <3> QED BY <1>1, <2>1, <3>1, <3>2 DEF FeedInv
  <2>3. CASE Dropped
    <3>1. Once(LogNow', Released')
      <4>1. PICK t \in Seq(Event) : LogNow = Join(LogNow', t)
        BY <2>3 DEF Dropped
      <4> QED BY <1>2, <1>3, <2>1, <4>1, OnceShrinks
    <3> QED BY <1>1, <2>1, <2>3, <3>1 DEF FeedInv, Dropped
  <2> QED BY <1>1, <1>4, <2>2, <2>3, LogStep
<1>5. ASSUME NEW e \in Emitter, StartEmit(e) PROVE FeedInv'
  <2>1. UNCHANGED <<live, tab, conn, owed>>
    BY <1>5 DEF StartEmit
  <2>2. LogNow' = LogNow /\ Hears' = Hears
    BY <2>1 DEF LogNow, Hears
  <2>3. /\ emitting'[e] = [event |-> emitted + 1, next |-> "publish"]
        /\ \A d \in Emitter \ {e} : emitting'[d] = emitting[d]
        /\ emitted' = emitted + 1 /\ emitted \in Nat
    BY <1>1, <1>5 DEF StartEmit, FeedShape
  <2>4. emitting'[e].event = emitted + 1 /\ emitting'[e].next = "publish"
    BY <2>3
  <2>5. OwnEvents'
    BY <1>1, <2>3, <2>4 DEF OwnEvents
  <2>6. Released \subseteq Released'
    BY <2>3, <2>4 DEF Released
  <2>7. Once(LogNow', Released')
    BY <1>3, <2>2, <2>6 DEF Once
  <2> QED BY <1>1, <1>3, <2>1, <2>2, <2>5, <2>7 DEF FeedInv
<1>6. ASSUME NEW e \in Emitter, Publish(e) PROVE FeedInv'
  <2>1. PICK n \in Event : n = emitting[e].event
    BY <1>1, <1>6, InRange DEF Publish, OwnEvents, FeedShape
  <2>2. /\ emitting[e].next = "publish" /\ emitting'[e].next = "insert"
        /\ \A d \in Emitter \ {e} : emitting'[d] = emitting[d]
        /\ emitted' = emitted /\ emitted \in Nat /\ n \in 1..emitted
    BY <1>1, <1>6, <2>1 DEF Publish, FeedShape, OwnEvents
  <2>3. OwnEvents'
    BY <1>1, <2>2 DEF OwnEvents
  <2>4. n \notin Released /\ Released \cup {n} \subseteq Released'
    BY <1>1, <2>1, <2>2 DEF Released, OwnEvents
  <2>5. Hears' = Hears
    BY <1>1, <1>6 DEF Publish, Hears, FeedShape, ConnShape
  <2>6. CASE feedRedis /\ Hears
    <3>1. /\ owed' = Append(owed, n) /\ conn'.inbox = Append(conn.inbox, n)
          /\ conn'.wire = conn.wire /\ tab' = tab /\ live' = live
      BY <1>1, <1>6, <2>1, <2>6 DEF Publish, Publishes, Reaches, GetsClient, FeedShape, ConnShape
    <3>2. LogNow' = Append(LogNow, n)
      <4>1. /\ live \in Seq(Event) /\ tab.buffer \in Seq(Message)
            /\ conn.wire \in Seq(Message) /\ conn.inbox \in Seq(Event)
        BY <1>1 DEF FeedShape, ConnShape
      <4>2. Log(live, tab.buffer, conn.wire, Append(conn.inbox, n))
            = Append(Log(live, tab.buffer, conn.wire, conn.inbox), n)
        BY <4>1, LogGrows
      <4> QED BY <3>1, <4>2, Zenon DEF LogNow
    <3>3. Once(LogNow', Released')
      BY <1>2, <1>3, <2>4, <3>2, OnceGrows
    <3>4. Ends(owed', LogNow')
      BY <1>2, <1>3, <2>6, <3>1, <3>2, EndsGrows
    <3> QED BY <1>1, <2>3, <3>3, <3>4 DEF FeedInv
  <2>7. CASE ~(feedRedis /\ Hears)
    <3>1. UNCHANGED <<owed, conn, tab, live>>
      BY <1>6, <2>7 DEF Publish, Publishes, Reaches
    <3>2. LogNow' = LogNow
      BY <3>1 DEF LogNow
    <3>3. Once(LogNow', Released')
      BY <1>3, <2>4, <3>2 DEF Once
    <3> QED BY <1>1, <1>3, <2>3, <2>5, <3>1, <3>2, <3>3 DEF FeedInv
  <2> QED BY <2>6, <2>7
<1>7. ASSUME NEW e \in Emitter, NEW ok \in BOOLEAN, Insert(e, ok) PROVE FeedInv'
  <2>1. UNCHANGED <<live, tab, conn, owed, emitted>>
    BY <1>7 DEF Insert
  <2>2. LogNow' = LogNow /\ Hears' = Hears
    BY <2>1 DEF LogNow, Hears
  <2>3. /\ emitting[e].next = "insert" /\ emitting'[e].next = "none"
        /\ \A d \in Emitter \ {e} : emitting'[d] = emitting[d]
    BY <1>1, <1>7 DEF Insert, FeedShape
  <2>4. OwnEvents'
    BY <1>1, <2>1, <2>3 DEF OwnEvents
  <2>5. Released' = Released
    BY <2>1, <2>3 DEF Released
  <2> QED BY <1>1, <1>3, <2>1, <2>2, <2>4, <2>5 DEF FeedInv
<1>8. \/ \E e \in Emitter : StartEmit(e) \/ Publish(e)
      \/ \E e \in Emitter, ok \in BOOLEAN : Insert(e, ok)
      \/ UNCHANGED <<emitting, emitted>>
  <2>1. CASE UNCHANGED liveFeedVars
    BY <2>1 DEF liveFeedVars
  <2>2. CASE LiveFeedNext
    BY <2>2 DEF LiveFeedNext, Greet, Subscribe, Forward, ListenerFails, ListenerWakes, Beat, Connect,
       OnOpen, OnClose, OnMessage, FlushWsMessages, Hide, Show, Refresh, GetRecent, RenderTimeline,
       RedisFalls, RedisReturns, OtherCall, PingDue, serverVars
  <2> QED BY <2>1, <2>2
<1> QED BY <1>4, <1>5, <1>6, <1>7, <1>8

\* While the listener is subscribed the tab gets every event published meanwhile,
\* once and in order, for any number of emitters, events and troubles.
THEOREM NothingMissed ==
  LiveFeedInit /\ [][LiveFeedNext]_liveFeedVars => []SubscribedTabMissesNothing
<1>1. LiveFeedInit => FeedInv
  <2> SUFFICES ASSUME LiveFeedInit PROVE FeedInv
    OBVIOUS
  <2>1. FeedShape /\ OwnEvents
    <3>1. conn \in ConnShape
      BY NoConnShape DEF LiveFeedInit
    <3>2. tab.buffer = <<>> /\ "buffer" \in DOMAIN tab
      BY DEF LiveFeedInit
    <3> QED BY <3>1, <3>2, Empties, FeedAssumption DEF LiveFeedInit, FeedShape, OwnEvents, FeedAssumption
  <2>2. LogNow = <<>>
    <3>1. LogNow = Log(<<>>, <<>>, <<>>, <<>>)
      BY DEF LiveFeedInit, NoConn, LogNow
    <3>2. Join(<<>>, <<>>) = <<>>
      BY Empties, ConcatEmptySeq DEF Join
    <3> QED BY <3>1, <3>2, EventsByOne, Zenon DEF Log
  <2>3. ~Hears
    BY DEF LiveFeedInit, NoConn, Hears
  <2>4. Once(<<>>, Released)
    BY Empties DEF Once
  <2> QED BY <2>1, <2>2, <2>3, <2>4 DEF FeedInv
<1>2. FeedInv /\ [LiveFeedNext]_liveFeedVars => FeedInv'
  BY FeedStep
<1>3. FeedInv => SubscribedTabMissesNothing
  <2> SUFFICES ASSUME FeedInv, Hears
               PROVE  IsSuffix(owed, live \o Pending) /\ IsInjective(live \o Pending)
    BY DEF SubscribedTabMissesNothing
  <2>1. LogNow \in Seq(Event) /\ LogNow = live \o Pending /\ owed \in Seq(Event)
    BY LogTyped DEF FeedInv, FeedShape
  <2>2. Ends(owed, LogNow) /\ Once(LogNow, Released)
    BY DEF FeedInv
  <2>3. IsSuffix(owed, LogNow) /\ IsInjective(LogNow)
    BY <2>1, <2>2, EndsIsSuffix, OnceIsInjective
  <2> QED BY <2>1, <2>3, Zenon
<1> QED BY <1>1, <1>2, <1>3, PTL
=============================================================================
