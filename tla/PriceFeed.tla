----------------------------- MODULE PriceFeed -----------------------------
(***************************************************************************)
(* From the price sources to the live gate, for one symbol.  Under its     *)
(* lease a source's job stores the source's price in Redis.  When the job  *)
(* is done its process refreshes the integrity status: it reads the prices *)
(* one source after the other, validates what it has read, and stores the  *)
(* status, which expires like the prices do.  The refresh holds no lease:  *)
(* between its steps other processes store prices and refresh as well.     *)
(* The router lets a live order through while the first price by priority  *)
(* is fresh and the stored status is "OK".                                 *)
(*                                                                         *)
(* validate raises in two cases, and the refresh then stores nothing:      *)
(*   - StateStore has no check_throttle, which it calls when sources       *)
(*     disagree;                                                           *)
(*   - it uses an undefined name when it has a research price to compare.  *)
(*                                                                         *)
(* A source has one key here.  X_F is X with the fault F; no action uses   *)
(* it.                                                                     *)
(***************************************************************************)
EXTENDS SchedulerLease, Sequences, FiniteSets

CONSTANTS Priority,     \* _EXECUTION_PRICE_ORDER, a sequence of sources
          Research,     \* _RESEARCH_PRICE_SOURCES
          Reads,        \* _CURRENT_PRICE_SOURCES, the order they are read in
          Price,        \* prices
          Lag,          \* by how many ticks a price's timestamp is behind (or
                        \* ahead of) the clock when it is stored
          ThresholdBps, \* deviation_threshold_bps
          Quorum,       \* required_quorum
          FreshFor,     \* PRICE_FRESHNESS_THRESHOLD_S, in ticks
          SnapshotTtl,  \* lifetime of a stored price
          IntegrityTtl  \* lifetime of a stored status

Execution == {Priority[i] : i \in DOMAIN Priority}

ASSUME FeedAssumption ==
    /\ Priority \in Seq(Source) /\ Research \subseteq Source \ Execution
    /\ Reads \in Seq(Source) /\ Execution \cup Research = {Reads[i] : i \in DOMAIN Reads}
    /\ Price \subseteq Nat \ {0} /\ Lag \subseteq Int
    /\ ThresholdBps \in Nat /\ Quorum \in Nat \ {0, 1}
    /\ FreshFor \in Nat /\ SnapshotTtl \in Nat \ {0} /\ IntegrityTtl \in Nat \ {0}

VARIABLES
    snap,       \* snap[s]: stored price, its timestamp and its expiry
    integrity,  \* stored status and its expiry
    refresh,    \* refresh[w]: "idle", "due", or the result of validate
    got,        \* got[w]: the prices that w's refresh has read so far
    reads,      \* reads[w]: how many sources it has read
    stored,     \* running jobs that have stored their price
    \* history
    met,        \* met[w][s]: fresh prices of s that Redis would have given at
                \* some moment of w's reading so far, 0 for none
    agreedAt,   \* last time the prices of a reading agreed, -1 for never
    lastFound   \* what the last refresh to finish had found

feedVars == <<snap, integrity, refresh, got, reads, stored>>
vars == <<leaseVars, feedVars, met, agreedAt, lastFound>>

NoSnap == [price |-> 0, ts |-> 0, until |-> 0]
NoStatus == [status |-> "UNKNOWN", until |-> 0]
Status == {"OK", "WARNING", "UNKNOWN"}
Snap == [price : Price \cup {0}, ts : Int, until : Nat]
NothingRead == [s \in Source |-> NoSnap]
NothingMet == [s \in Execution |-> {}]

TypeOK ==
    /\ LeaseTypeOK
    /\ now \in 0..MaxTime /\ jobs \in 0..MaxJobs /\ faults \in 0..MaxFaults
    /\ snap \in [Source -> Snap]
    /\ integrity \in [status : {"OK", "UNKNOWN"}, until : Nat]
    /\ refresh \in [Server -> {"idle", "due", "raised"} \cup Status]
    /\ got \in [Server -> [Source -> Snap]]
    /\ reads \in [Server -> 0..Len(Reads)]
    /\ stored \subseteq {ws \in Server \X Source : job[ws[1]][ws[2]] = "on"}
    /\ met \in [Server -> [Execution -> SUBSET (Price \cup {0})]]
    /\ agreedAt \in -1..MaxTime /\ lastFound \in Status

-----------------------------------------------------------------------------
(* PriceValidator.validate.                                                *)

Abs(n) == IF n < 0 THEN -n ELSE n

\* _deviation_bps(left, right) > deviation_threshold_bps
Deviates(left, right) == Abs(left - right) * 10000 > ThresholdBps * right

\* What validate makes of the prices g: those stored in time are usable.
Usable_AnyAge(g, s) == g[s] # NoSnap /\ g[s].ts <= now
Usable(g, s) == g[s] # NoSnap /\ g[s].ts <= now /\ now - g[s].ts <= FreshFor

UsableSources(g) == {s \in Execution : Usable(g, s)}

Disagreement(g) ==
    \E i, j \in DOMAIN Priority :
        /\ i < j /\ {Priority[i], Priority[j]} \subseteq UsableSources(g)
        /\ Deviates(g[Priority[i]].price, g[Priority[j]].price)

QuorumMet(g) == Cardinality(UsableSources(g)) >= Quorum

\* The status validate arrives at.
Found(g) ==
    IF ~QuorumMet(g) THEN "UNKNOWN" ELSE IF Disagreement(g) THEN "WARNING" ELSE "OK"

\* A research price is compared with the first execution price there is.
Corroborates(g) == (\E s \in Research : g[s] # NoSnap) /\ (\E s \in Execution : g[s] # NoSnap)

Validated(g) == IF Corroborates(g) \/ Found(g) = "WARNING" THEN "raised" ELSE Found(g)

-----------------------------------------------------------------------------
(* The router's view: the first price by priority, and the stored status.  *)

Stored(s) == snap[s] # NoSnap

PriceFound == \E s \in Execution : Stored(s)
First == LET i == CHOOSE i \in DOMAIN Priority :
                /\ Stored(Priority[i])
                /\ \A j \in 1..(i - 1) : ~Stored(Priority[j])
         IN Priority[i]

\* An order without a limit price passes the data checks of live mode.
LiveGate ==
    /\ up /\ PriceFound
    /\ now - snap[First].ts <= FreshFor
    /\ integrity.status = "OK"

-----------------------------------------------------------------------------
(* Actions.                                                                *)

Init ==
    /\ LeaseInit
    /\ snap = [s \in Source |-> NoSnap]
    /\ integrity = NoStatus
    /\ refresh = [w \in Server |-> "idle"]
    /\ got = [w \in Server |-> NothingRead] /\ reads = [w \in Server |-> 0]
    /\ stored = {} /\ met = [w \in Server |-> NothingMet]
    /\ agreedAt = -1 /\ lastFound = "UNKNOWN"

\* A refresh runs without giving up the event loop of its process.
Yields(w) == refresh[w] = "idle"

StartJob(w, s) ==
    /\ Yields(w)
    /\ \/ Claim(w, s)
       \/ \E applied, down \in BOOLEAN : ClaimFails(w, s, applied, down)
       \/ RunWithoutRedis(w, s)
    /\ UNCHANGED <<feedVars, lastFound>>

\* The job has its provider's answer and stores it.
Store(w, s, price, lag) ==
    /\ Yields(w) /\ job[w][s] = "on" /\ up
    /\ <<w, s>> \notin stored
    /\ stored' = stored \cup {<<w, s>>}
    /\ snap' = [snap EXCEPT ![s] =
            [price |-> price, ts |-> now - lag, until |-> now + SnapshotTtl]]
    /\ UNCHANGED <<leaseVars, integrity, refresh, got, reads, lastFound>>

\* A job that raises is not followed by a refresh.
FinishJob(w, s, raises) ==
    /\ Yields(w)
    /\ Finish(w, s)
    /\ stored' = stored \ {<<w, s>>}
    /\ refresh' = [refresh EXCEPT ![w] = IF raises THEN "idle" ELSE "due"]
    /\ UNCHANGED <<snap, integrity, got, reads, lastFound>>

\* validate_symbol reads the next source; without Redis it finds no price.
ReadSnapshot(w) ==
    /\ refresh[w] = "due" /\ reads[w] < Len(Reads)
    /\ LET s == Reads[reads[w] + 1]
       IN got' = [got EXCEPT ![w][s] = IF up THEN snap[s] ELSE NoSnap]
    /\ reads' = [reads EXCEPT ![w] = @ + 1]
    /\ UNCHANGED <<leaseVars, snap, integrity, refresh, stored, lastFound>>

\* It judges what it has read.
Validate(w) ==
    /\ refresh[w] = "due" /\ reads[w] = Len(Reads)
    /\ refresh' = [refresh EXCEPT ![w] = Validated(got[w])]
    /\ lastFound' = Found(got[w])
    /\ got' = [got EXCEPT ![w] = NothingRead]
    /\ reads' = [reads EXCEPT ![w] = 0]
    /\ UNCHANGED <<leaseVars, snap, integrity, stored>>

StatusUntil(time) == time + IntegrityTtl

\* The end of _refresh_price_integrity.
Publish(w) ==
    /\ refresh[w] \notin {"idle", "due"}
    /\ integrity' = IF up /\ refresh[w] # "raised"
                    THEN [status |-> refresh[w], until |-> StatusUntil(now)]
                    ELSE integrity
    /\ refresh' = [refresh EXCEPT ![w] = "idle"]
    /\ UNCHANGED <<leaseVars, snap, got, reads, stored, lastFound>>

RestartServer(w) ==
    /\ Restart(w)
    /\ stored' = {ws \in stored : ws[1] # w}
    /\ refresh' = [refresh EXCEPT ![w] = "idle"]
    /\ got' = [got EXCEPT ![w] = NothingRead]
    /\ reads' = [reads EXCEPT ![w] = 0]
    /\ UNCHANGED <<snap, integrity, lastFound>>

Redis ==
    /\ RedisDown \/ RedisUp
    /\ UNCHANGED <<feedVars, lastFound>>

\* A refresh takes less than a tick.
Clock ==
    /\ \A w \in Server : Yields(w)
    /\ Tick
    /\ snap' = [s \in Source |-> IF snap[s].until <= now' THEN NoSnap ELSE snap[s]]
    /\ integrity' = IF integrity.until <= now' THEN NoStatus ELSE integrity
    /\ UNCHANGED <<refresh, got, reads, stored, lastFound>>

\* History: the fresh price of s that Redis would give to a reader now, 0 for
\* none; and whether some reading of every source, each at a moment of its own,
\* has a quorum of fresh prices and no two apart.
Readable(s) == IF up /\ Stored(s) /\ now - snap[s].ts \in 0..FreshFor THEN snap[s].price ELSE 0

Agreement(m) ==
    \E f \in [Execution -> Price \cup {0}] :
        /\ \A s \in Execution : f[s] \in m[s]
        /\ Cardinality({s \in Execution : f[s] # 0}) >= Quorum
        /\ \A i, j \in DOMAIN Priority :
            i < j /\ f[Priority[i]] # 0 /\ f[Priority[j]] # 0 =>
                ~Deviates(f[Priority[i]], f[Priority[j]])

Next ==
    /\ \/ \E w \in Server, s \in Source :
            \/ StartJob(w, s)
            \/ \E price \in Price, lag \in Lag : Store(w, s, price, lag)
            \/ \E raises \in BOOLEAN : FinishJob(w, s, raises)
       \/ \E w \in Server : ReadSnapshot(w) \/ Validate(w) \/ Publish(w) \/ RestartServer(w)
       \/ Redis
       \/ Clock
    /\ met' = [w \in Server |->
            IF refresh'[w] = "due" THEN [s \in Execution |-> met[w][s] \cup {Readable(s)'}]
                                   ELSE NothingMet]
    /\ agreedAt' = IF \E w \in Server : Agreement(met'[w]) THEN now' ELSE agreedAt

Spec == Init /\ [][Next]_vars

-----------------------------------------------------------------------------
(* Properties.                                                             *)

\* "OK requires actual cross-source validation": while a live order would
\* pass, less than the lifetime of a status ago some refresh had a quorum of
\* fresh execution prices before it, no two apart, each of them at a moment of
\* its reading, whatever was stored between its reads, refreshed, delayed,
\* restarted or lost since.  The prices need not have held together.
LiveNeedsAgreement == LiveGate => agreedAt >= 0 /\ now - agreedAt < IntegrityTtl

\* "The system flags this as a WARNING and can block live trades until prices
\* converge": no live order passes after a refresh that found disagreement.
DisagreementBlocksLive == lastFound = "WARNING" => ~LiveGate
=============================================================================
