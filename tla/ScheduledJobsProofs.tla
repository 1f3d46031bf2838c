------------------------- MODULE ScheduledJobsProofs -------------------------
(***************************************************************************)
(* The ingest scheduler and the price feed that runs under it, for any     *)
(* processes, sources, prices, delays, lifetimes and failures: at most one *)
(* running job of a source holds an unexpired lease, and a live order      *)
(* passes only shortly after fresh prices of a quorum agreed.              *)
(*                                                                         *)
(* The leases.  The invariant says where the lease of a running job is: in *)
(* Redis, under the job's own token, until the time the job knows of.  A   *)
(* claim needs the lease to be free, a release spares a lease of another   *)
(* owner, and time frees a lease only when its job no longer holds it.     *)
(* Every step of the feed is one of the leases or leaves them alone.       *)
(*                                                                         *)
(* The prices.  Others store prices between the reads of a refresh.  What  *)
(* it has read of a source is a price that Redis held at some moment of    *)
(* the reading (Seen), so that an agreement validate sees is one that the  *)
(* history variable knows (FoundAgreed, Noticed).  A refresh takes less    *)
(* than a tick, so an "OK" on its way to the store is of this very tick    *)
(* (Fresh); once stored it expires before IntegrityTtl ticks have passed   *)
(* since that agreement (Dated).                                           *)
(***************************************************************************)
EXTENDS PriceFeed, FiniteSetTheorems, TLAPS

-----------------------------------------------------------------------------
(* The leases.                                                             *)

Backed == \A w \in Server, s \in Source :
    /\ job[w][s] = "off" => token[w][s] = 0
    /\ Holds(w, s) => lease[s] = [owner |-> w, until |-> token[w][s]]

IInv == LeaseTypeOK /\ Backed

USE LeaseAssumption DEF LeaseAssumption

\* Initially no job runs and no lease is taken.
LEMMA InitInv == LeaseInit => IInv
BY DEF LeaseInit, IInv, LeaseTypeOK, Backed, Holds, Free

\* A lease that is free is held by no job.
LEMMA FreeUnheld ==
    ASSUME IInv, NEW s \in Source, lease[s] = Free, NEW w \in Server
    PROVE  ~Holds(w, s)
<1>1. ASSUME Holds(w, s) PROVE lease[s].owner = w
  <2>1. lease[s] = [owner |-> w, until |-> token[w][s]]
    BY <1>1 DEF IInv, Backed
  <2>2. QED
    BY <2>1
<1>2. lease[s].owner = None
  BY DEF Free
<1>3. QED
  BY <1>1, <1>2

\* Taking a free lease keeps every job's claim where it is.
LEMMA ClaimInv == ASSUME IInv, NEW w \in Server, NEW s \in Source, Claim(w, s) PROVE IInv'
<1>1. LeaseTypeOK'
  BY DEF IInv, LeaseTypeOK, Claim, Taken, Started, Free
<1>2. Backed'
  <2> SUFFICES ASSUME NEW v \in Server, NEW r \in Source
               PROVE  /\ job'[v][r] = "off" => token'[v][r] = 0
                      /\ Holds(v, r)' => lease'[r] = [owner |-> v, until |-> token'[v][r]]
    BY DEF Backed
  <2>1. CASE v = w /\ r = s
    BY <2>1 DEF IInv, LeaseTypeOK, Claim, Taken, Started
  <2>2. CASE v # w /\ r = s
    <3>1. ~Holds(v, r)
      BY <2>2, FreeUnheld DEF Claim
    <3>2. QED
      BY <2>2, <3>1 DEF IInv, LeaseTypeOK, Backed, Holds, Claim, Started
  <2>3. CASE r # s
    BY <2>3 DEF IInv, LeaseTypeOK, Backed, Holds, Claim, Started
  <2>4. QED
    BY <2>1, <2>2, <2>3
<1>3. QED
  BY <1>1, <1>2 DEF IInv

\* A claim whose answer is lost may take a free lease, for no job.
LEMMA ClaimFailsInv ==
    ASSUME IInv, NEW w \in Server, NEW s \in Source, NEW applied \in BOOLEAN,
           NEW down \in BOOLEAN, ClaimFails(w, s, applied, down)
    PROVE  IInv'
<1>1. LeaseTypeOK'
  <2>1. now' = now /\ up' \in BOOLEAN /\ token' = token /\ faults' = faults + 1
    BY DEF ClaimFails
  <2>2. lease' \in [Source -> [owner : Server \cup {None}, until : Nat]]
    BY DEF IInv, LeaseTypeOK, ClaimFails, Taken
  <2>3. ASSUME NEW r \in Source
        PROVE  lease'[r] = Free \/ (lease'[r].owner # None /\ now < lease'[r].until)
    BY DEF IInv, LeaseTypeOK, ClaimFails, Taken, Free
  <2>4. job' \in [Server -> [Source -> {"off", "on"}]] /\ jobs' \in Nat
    BY DEF IInv, LeaseTypeOK, ClaimFails, Started
  <2>5. QED
    BY <2>1, <2>2, <2>3, <2>4 DEF IInv, LeaseTypeOK, Free
<1>2. Backed'
  <2> SUFFICES ASSUME NEW v \in Server, NEW r \in Source
               PROVE  /\ job'[v][r] = "off" => token'[v][r] = 0
                      /\ Holds(v, r)' => lease'[r] = [owner |-> v, until |-> token'[v][r]]
    BY DEF Backed
  <2>1. CASE v = w /\ r = s
    <3>1. token'[v][r] = 0 /\ now' = now
      BY <2>1 DEF IInv, Backed, ClaimFails
    <3>2. ~Holds(v, r)'
      BY <3>1 DEF Holds, IInv, LeaseTypeOK
    <3>3. QED
      BY <3>1, <3>2
  <2>2. CASE ~(v = w /\ r = s)
    <3>1. job'[v][r] = job[v][r] /\ token' = token /\ now' = now
      BY <2>2 DEF IInv, LeaseTypeOK, ClaimFails, Started
    <3>2. Holds(v, r)' => Holds(v, r)
      BY <3>1 DEF Holds
    <3>3. Holds(v, r) => lease'[r] = lease[r]
      BY FreeUnheld DEF IInv, LeaseTypeOK, ClaimFails
    <3>4. QED
      BY <3>1, <3>2, <3>3 DEF IInv, Backed
  <2>3. QED
    BY <2>1, <2>2
<1>3. QED
  BY <1>1, <1>2 DEF IInv

\* A job without a lease holds nothing.
LEMMA RunInv == ASSUME IInv, NEW w \in Server, NEW s \in Source, RunWithoutRedis(w, s) PROVE IInv'
<1>1. LeaseTypeOK'
  BY DEF IInv, LeaseTypeOK, RunWithoutRedis, Started
<1>2. Backed'
  BY DEF IInv, LeaseTypeOK, Backed, Holds, RunWithoutRedis, Started
<1>3. QED
  BY <1>1, <1>2 DEF IInv

\* A release leaves the lease of another owner alone.
LEMMA FinishInv == ASSUME IInv, NEW w \in Server, NEW s \in Source, Finish(w, s) PROVE IInv'
<1>1. LeaseTypeOK'
  BY DEF IInv, LeaseTypeOK, Finish, Released, Free
<1>2. Backed'
  <2> SUFFICES ASSUME NEW v \in Server, NEW r \in Source
               PROVE  /\ job'[v][r] = "off" => token'[v][r] = 0
                      /\ Holds(v, r)' => lease'[r] = [owner |-> v, until |-> token'[v][r]]
    BY DEF Backed
  <2>1. CASE v = w /\ r = s
    BY <2>1 DEF IInv, LeaseTypeOK, Holds, Finish
  <2>2. CASE ~(v = w /\ r = s)
    <3>1. job'[v][r] = job[v][r] /\ token'[v][r] = token[v][r] /\ now' = now
      BY <2>2 DEF IInv, LeaseTypeOK, Finish
    <3>2. Holds(v, r) => lease'[r] = lease[r]
      BY <2>2 DEF IInv, LeaseTypeOK, Backed, Finish, Released
    <3>3. QED
      BY <3>1, <3>2 DEF IInv, Backed, Holds
  <2>3. QED
    BY <2>1, <2>2
<1>3. QED
  BY <1>1, <1>2 DEF IInv

\* The jobs of a process that dies hold nothing any more.
LEMMA RestartInv == ASSUME IInv, NEW w \in Server, Restart(w) PROVE IInv'
<1>1. LeaseTypeOK'
  BY DEF IInv, LeaseTypeOK, Restart
<1>2. Backed'
  BY DEF IInv, LeaseTypeOK, Backed, Holds, Restart
<1>3. QED
  BY <1>1, <1>2 DEF IInv

\* A lease that expires is one that no job holds any more.
LEMMA TickInv == ASSUME IInv, Tick PROVE IInv'
<1>1. LeaseTypeOK'
  BY DEF IInv, LeaseTypeOK, Tick, Unexpired, Free
<1>2. Backed'
  BY DEF IInv, LeaseTypeOK, Backed, Holds, Tick, Unexpired
<1>3. QED
  BY <1>1, <1>2 DEF IInv

\* Every step keeps the invariant.
LEMMA StepInv == IInv /\ [LeaseNext]_leaseVars => IInv'
<1> SUFFICES ASSUME IInv, [LeaseNext]_leaseVars PROVE IInv'
  OBVIOUS
<1>1. ASSUME NEW w \in Server, NEW s \in Source, Claim(w, s) PROVE IInv'
  BY <1>1, ClaimInv
<1>2. ASSUME NEW w \in Server, NEW s \in Source, NEW applied \in BOOLEAN,
             NEW down \in BOOLEAN, ClaimFails(w, s, applied, down)
      PROVE  IInv'
  BY <1>2, ClaimFailsInv
<1>3. ASSUME NEW w \in Server, NEW s \in Source, RunWithoutRedis(w, s) PROVE IInv'
  BY <1>3, RunInv
<1>4. ASSUME NEW w \in Server, NEW s \in Source, Finish(w, s) PROVE IInv'
  BY <1>4, FinishInv
<1>5. ASSUME NEW w \in Server, Restart(w) PROVE IInv'
  BY <1>5, RestartInv
<1>6. CASE RedisDown \/ RedisUp
  <2>1. LeaseTypeOK'
    <3>1. up' \in BOOLEAN
      BY <1>6 DEF RedisDown, RedisUp
    <3>3. faults' \in Nat
      <4>1. CASE RedisDown
        BY <4>1 DEF IInv, LeaseTypeOK, RedisDown
      <4>2. CASE RedisUp
        BY <4>2 DEF IInv, LeaseTypeOK, RedisUp
      <4>3. QED
        BY <1>6, <4>1, <4>2
    <3>2. UNCHANGED <<now, lease, job, token, jobs>>
      BY <1>6 DEF RedisDown, RedisUp
    <3>4. QED
      BY <3>1, <3>2, <3>3 DEF IInv, LeaseTypeOK, Free
  <2>2. Backed'
    BY <1>6 DEF IInv, Backed, Holds, RedisDown, RedisUp
  <2>3. QED
    BY <2>1, <2>2 DEF IInv
<1>7. CASE Tick
  BY <1>7, TickInv
<1>8. CASE UNCHANGED leaseVars
  BY <1>8 DEF leaseVars, IInv, LeaseTypeOK, Backed, Holds
<1>9. QED
  BY <1>1, <1>2, <1>3, <1>4, <1>5, <1>6, <1>7, <1>8 DEF LeaseNext

\* The invariant of the leases holds in every reachable state.
LEMMA Inductive == LeaseSpec => []IInv
<1>1. QED
  BY InitInv, StepInv, PTL DEF LeaseSpec

\* The types of the lease state.
THEOREM LeaseTyped == LeaseSpec => []LeaseTypeOK
<1>1. IInv => LeaseTypeOK
  BY DEF IInv
<1>2. QED
  BY Inductive, <1>1, PTL

\* Of the processes that run a source's job, at most one holds an unexpired
\* lease, for any number of processes, sources, failures and restarts.
THEOREM Exclusive == LeaseSpec => []LeaseExclusive
<1>1. IInv => LeaseExclusive
  <2> SUFFICES ASSUME IInv, NEW s \in Source, NEW w1 \in Server, NEW w2 \in Server,
                      Holds(w1, s), Holds(w2, s)
               PROVE  w1 = w2
    BY DEF LeaseExclusive
  <2>1. lease[s] = [owner |-> w1, until |-> token[w1][s]]
    BY DEF IInv, Backed
  <2>2. lease[s] = [owner |-> w2, until |-> token[w2][s]]
    BY DEF IInv, Backed
  <2>3. QED
    BY <2>1, <2>2
<1>2. QED
  BY Inductive, <1>1, PTL

-----------------------------------------------------------------------------
(* The prices.                                                             *)

USE FeedAssumption DEF FeedAssumption

-----------------------------------------------------------------------------
(* The feed takes the scheduler's steps.                                   *)

\* Every step of the feed is a step of the leases or leaves them alone.
LEMMA FeedLeaseStep == [Next]_vars => [LeaseNext]_leaseVars
<1> SUFFICES ASSUME [Next]_vars PROVE LeaseNext \/ UNCHANGED leaseVars
  OBVIOUS
<1>1. ASSUME NEW w \in Server, NEW s \in Source, StartJob(w, s) PROVE LeaseNext
  BY <1>1 DEF StartJob, LeaseNext
<1>2. ASSUME NEW w \in Server, NEW s \in Source, NEW price \in Price, NEW lag \in Lag,
             Store(w, s, price, lag)
      PROVE  UNCHANGED leaseVars
  BY <1>2 DEF Store
<1>3. ASSUME NEW w \in Server, NEW s \in Source, NEW raises \in BOOLEAN,
             FinishJob(w, s, raises)
      PROVE  LeaseNext
  BY <1>3 DEF FinishJob, LeaseNext
<1>4. ASSUME NEW w \in Server, ReadSnapshot(w) \/ Validate(w) \/ Publish(w)
      PROVE  UNCHANGED leaseVars
  BY <1>4 DEF ReadSnapshot, Validate, Publish
<1>5. ASSUME NEW w \in Server, RestartServer(w) PROVE LeaseNext
  BY <1>5 DEF RestartServer, LeaseNext
<1>6. CASE Redis
  BY <1>6 DEF Redis, LeaseNext
<1>7. CASE Clock
  BY <1>7 DEF Clock, LeaseNext
<1>8. CASE UNCHANGED vars
  BY <1>8 DEF vars
<1>9. QED
  BY <1>1, <1>2, <1>3, <1>4, <1>5, <1>6, <1>7, <1>8 DEF Next

\* A behaviour of the price feed is one of the leases.
LEMMA FeedIsLease == Spec => LeaseSpec
<1>1. Init => LeaseInit
  BY DEF Init
<1>2. QED
  BY <1>1, FeedLeaseStep, PTL DEF Spec, LeaseSpec

\* Of the processes that run a source's job, at most one holds an unexpired
\* lease, in the feed as in the scheduler alone.
THEOREM FeedExclusive == Spec => []LeaseExclusive
BY FeedIsLease, Exclusive, PTL

-----------------------------------------------------------------------------
(* Types.                                                                  *)

\* What every step does to the history.
Recorded ==
    /\ met' = [w \in Server |->
            IF refresh'[w] = "due" THEN [s \in Execution |-> met[w][s] \cup {Readable(s)'}]
                                   ELSE NothingMet]
    /\ agreedAt' = IF \E w \in Server : Agreement(met'[w]) THEN now' ELSE agreedAt

\* The bounds of the leases' counters.
Bounded == now \in 0..MaxTime /\ jobs \in 0..MaxJobs /\ faults \in 0..MaxFaults

\* Every step counts within the bounds.
LEMMA BoundedStep == ASSUME LeaseTypeOK, Bounded, [LeaseNext]_leaseVars PROVE Bounded'
<1> USE LeaseAssumption DEF Bounded, LeaseTypeOK, LeaseAssumption
<1>1. ASSUME NEW w \in Server, NEW s \in Source, Claim(w, s) \/ RunWithoutRedis(w, s)
      PROVE  Bounded'
  BY <1>1 DEF Claim, RunWithoutRedis, Started
<1>2. ASSUME NEW w \in Server, NEW s \in Source, NEW applied \in BOOLEAN,
             NEW down \in BOOLEAN, ClaimFails(w, s, applied, down)
      PROVE  Bounded'
  <2>1. now' = now /\ faults' \in 0..MaxFaults
    BY <1>2 DEF ClaimFails
  <2>2. jobs' \in 0..MaxJobs
    BY <1>2 DEF ClaimFails, Started
  <2>3. QED
    BY <2>1, <2>2
<1>3. ASSUME NEW w \in Server, NEW s \in Source, Finish(w, s) PROVE Bounded'
  BY <1>3 DEF Finish
<1>4. ASSUME NEW w \in Server, Restart(w) PROVE Bounded'
  BY <1>4 DEF Restart
<1>5. CASE RedisDown
  BY <1>5 DEF RedisDown
<1>6. CASE RedisUp
  BY <1>6 DEF RedisUp
<1>7. CASE Tick
  BY <1>7 DEF Tick
<1>8. CASE UNCHANGED leaseVars
  BY <1>8 DEF leaseVars
<1>9. QED
  BY <1>1, <1>2, <1>3, <1>4, <1>5, <1>6, <1>7, <1>8 DEF LeaseNext

\* What the feed adds to the leases' state.
FeedTypeOK ==
    /\ snap \in [Source -> Snap]
    /\ integrity \in [status : {"OK", "UNKNOWN"}, until : Nat]
    /\ refresh \in [Server -> {"idle", "due", "raised"} \cup Status]
    /\ got \in [Server -> [Source -> Snap]]
    /\ reads \in [Server -> 0..Len(Reads)]
    /\ lastFound \in Status

\* Only running jobs have stored a price.
StoredRuns == stored \subseteq {ws \in Server \X Source : job[ws[1]][ws[2]] = "on"}

\* What validate returns.
LEMMA ValidatedType ==
    ASSUME NEW g
    PROVE  /\ Found(g) \in {"OK", "WARNING", "UNKNOWN"}
           /\ Validated(g) \in {"raised", "OK", "UNKNOWN"}
BY DEF Found, Validated

\* What is not a price yet is one of the snapshots.
LEMMA NothingTyped == NoSnap \in Snap /\ NothingRead \in [Source -> Snap] /\ 0 \in 0..Len(Reads)
<1>1. NoSnap \in Snap
  BY DEF NoSnap, Snap
<1>2. Len(Reads) \in Nat
  OBVIOUS
<1>3. QED
  BY <1>1, <1>2 DEF NothingRead

\* A warning is never stored.
NoWarning == \A w \in Server : refresh[w] # "WARNING"

\* Every step of the feed keeps its types.
LEMMA FeedTypeStep ==
    ASSUME TypeOK, NoWarning, now' \in Nat, [Next]_vars PROVE FeedTypeOK' /\ NoWarning'
<1> USE DEF FeedTypeOK, NoWarning, TypeOK, Status
<1>1. ASSUME NEW w \in Server, NEW s \in Source, StartJob(w, s) PROVE FeedTypeOK' /\ NoWarning'
  BY <1>1 DEF StartJob, feedVars
<1>2. ASSUME NEW w \in Server, NEW s \in Source, NEW price \in Price, NEW lag \in Lag,
             Store(w, s, price, lag)
      PROVE  FeedTypeOK' /\ NoWarning'
  <2>1. [price |-> price, ts |-> now - lag, until |-> now + SnapshotTtl]
            \in Snap
    BY DEF Snap
  <2>2. QED
    BY <1>2, <2>1 DEF Store
<1>3. ASSUME NEW w \in Server, NEW s \in Source, NEW raises \in BOOLEAN, FinishJob(w, s, raises)
      PROVE  FeedTypeOK' /\ NoWarning'
  BY <1>3 DEF FinishJob
<1>4. ASSUME NEW w \in Server, Validate(w) PROVE FeedTypeOK' /\ NoWarning'
  <2>1. Found(got[w]) \in Status /\ Validated(got[w]) \in {"raised", "OK", "UNKNOWN"}
    BY ValidatedType
  <2>2. got' \in [Server -> [Source -> Snap]] /\ reads' \in [Server -> 0..Len(Reads)]
    BY <1>4, NothingTyped DEF Validate
  <2>3. QED
    BY <1>4, <2>1, <2>2 DEF Validate
<1>5. ASSUME NEW w \in Server, ReadSnapshot(w) PROVE FeedTypeOK' /\ NoWarning'
  <2>1. PICK s \in Source :
            got' = [got EXCEPT ![w][s] = IF up THEN snap[s] ELSE NoSnap]
    <3>1. Reads[reads[w] + 1] \in Source
      BY <1>5 DEF ReadSnapshot
    <3>2. QED
      BY <1>5, <3>1 DEF ReadSnapshot
  <2>2. (IF up THEN snap[s] ELSE NoSnap) \in Snap
    BY NothingTyped
  <2>3. got' \in [Server -> [Source -> Snap]]
    BY <2>1, <2>2
  <2>4. reads' \in [Server -> 0..Len(Reads)]
    BY <1>5 DEF ReadSnapshot
  <2>5. QED
    BY <1>5, <2>3, <2>4 DEF ReadSnapshot
<1>6. ASSUME NEW w \in Server, Publish(w) PROVE FeedTypeOK' /\ NoWarning'
  <2>1. refresh[w] \in {"raised", "OK", "UNKNOWN"}
    BY <1>6 DEF Publish
  <2>2. integrity' \in [status : {"OK", "UNKNOWN"}, until : Nat]
    BY <1>6, <2>1 DEF Publish, StatusUntil
  <2>3. QED
    BY <1>6, <2>2 DEF Publish
<1>7. ASSUME NEW w \in Server, RestartServer(w) PROVE FeedTypeOK' /\ NoWarning'
  BY <1>7, NothingTyped DEF RestartServer
<1>8. CASE Redis
  BY <1>8 DEF Redis, feedVars
<1>9. CASE Clock
  BY <1>9, NothingTyped DEF Clock, NoStatus
<1>10. CASE UNCHANGED vars
  BY <1>10 DEF vars, feedVars
<1> HIDE DEF FeedTypeOK, NoWarning, TypeOK, Status
<1>11. QED
  BY <1>1, <1>2, <1>3, <1>4, <1>5, <1>6, <1>7, <1>8, <1>9, <1>10 DEF Next

\* What is noted of the moments of a reading are prices.
LEMMA MetType ==
    ASSUME TypeOK, snap' \in [Source -> Snap], Recorded
    PROVE  met' \in [Server -> [Execution -> SUBSET (Price \cup {0})]]
<1>1. ASSUME NEW s \in Execution PROVE Readable(s)' \in Price \cup {0}
  <2>1. s \in Source
    BY DEF Execution
  <2>2. QED
    BY <2>1 DEF Readable, Snap
<1>2. NothingMet \in [Execution -> SUBSET (Price \cup {0})]
  BY DEF NothingMet
<1>3. ASSUME NEW w \in Server
      PROVE  [s \in Execution |-> met[w][s] \cup {Readable(s)'}]
                \in [Execution -> SUBSET (Price \cup {0})]
  <2>1. met[w] \in [Execution -> SUBSET (Price \cup {0})]
    BY DEF TypeOK
  <2>2. \A s \in Execution : met[w][s] \cup {Readable(s)'} \in SUBSET (Price \cup {0})
    BY <1>1, <2>1
  <2>3. QED
    BY <2>2
<1>4. QED
  BY <1>2, <1>3 DEF Recorded

\* A price is stored by a running job, and forgotten when the job ends.
LEMMA StoredStep == ASSUME TypeOK, [Next]_vars PROVE StoredRuns'
<1> USE DEF StoredRuns, TypeOK, LeaseTypeOK
<1>1. ASSUME NEW w \in Server, NEW s \in Source, StartJob(w, s) PROVE StoredRuns'
  <2>1. stored' = stored
    BY <1>1 DEF StartJob, feedVars
  <2>2. \A v \in Server, r \in Source : job[v][r] = "on" => job'[v][r] = "on"
    <3>1. job' = job \/ job' = [job EXCEPT ![w][s] = "on"]
      BY <1>1 DEF StartJob, Claim, ClaimFails, RunWithoutRedis, Started
    <3>2. job \in [Server -> [Source -> {"off", "on"}]]
      OBVIOUS
    <3>3. CASE job' = job
      BY <3>3
    <3>4. CASE job' = [job EXCEPT ![w][s] = "on"]
      <4>1. ASSUME NEW v \in Server, NEW r \in Source
            PROVE  job'[v][r] = IF v = w /\ r = s THEN "on" ELSE job[v][r]
        BY <3>2, <3>4
      <4>2. QED
        BY <4>1
    <3>5. QED
      BY <3>1, <3>3, <3>4
  <2>3. QED
    BY <2>1, <2>2
<1>2. ASSUME NEW w \in Server, NEW s \in Source, NEW price \in Price, NEW lag \in Lag,
             Store(w, s, price, lag)
      PROVE  StoredRuns'
  BY <1>2 DEF Store, leaseVars
<1>3. ASSUME NEW w \in Server, NEW s \in Source, NEW raises \in BOOLEAN, FinishJob(w, s, raises)
      PROVE  StoredRuns'
  BY <1>3 DEF FinishJob, Finish
<1>4. ASSUME NEW w \in Server, ReadSnapshot(w) \/ Validate(w) \/ Publish(w) PROVE StoredRuns'
  BY <1>4 DEF ReadSnapshot, Validate, Publish, leaseVars
<1>5. ASSUME NEW w \in Server, RestartServer(w) PROVE StoredRuns'
  BY <1>5 DEF RestartServer, Restart
<1>6. CASE Redis
  BY <1>6 DEF Redis, RedisDown, RedisUp, feedVars
<1>7. CASE Clock
  BY <1>7 DEF Clock, Tick
<1>8. CASE UNCHANGED vars
  BY <1>8 DEF vars, feedVars, leaseVars
<1> HIDE DEF StoredRuns, TypeOK, LeaseTypeOK
<1>9. QED
  BY <1>1, <1>2, <1>3, <1>4, <1>5, <1>6, <1>7, <1>8 DEF Next

\* The types of the feed's state.
THEOREM FeedTyped == Spec => []TypeOK
<1>1. Init => IInv /\ TypeOK /\ NoWarning
  <2> SUFFICES ASSUME Init PROVE IInv /\ TypeOK /\ NoWarning
    OBVIOUS
  <2>1. IInv
    BY InitInv DEF Init
  <2>2. FeedTypeOK /\ stored = {} /\ agreedAt = -1 /\ NoWarning
    BY NothingTyped DEF Init, FeedTypeOK, NoStatus, Status, NoWarning
  <2>3. met \in [Server -> [Execution -> SUBSET (Price \cup {0})]]
    BY DEF Init, NothingMet
  <2>4. now = 0 /\ jobs = 0 /\ faults = 0
    BY DEF Init, LeaseInit
  <2>5. QED
    BY <2>1, <2>2, <2>3, <2>4, LeaseAssumption DEF IInv, TypeOK, FeedTypeOK
<1>2. IInv /\ TypeOK /\ NoWarning /\ [Next]_vars => (IInv /\ TypeOK /\ NoWarning)'
  <2> SUFFICES ASSUME IInv, TypeOK, NoWarning, [Next]_vars PROVE (IInv /\ TypeOK /\ NoWarning)'
    OBVIOUS
  <2>1. IInv'
    BY FeedLeaseStep, StepInv
  <2>2. Bounded'
    BY FeedLeaseStep, BoundedStep DEF TypeOK, Bounded
  <2>3. FeedTypeOK' /\ NoWarning'
    BY <2>2, FeedTypeStep DEF Bounded
  <2>4. StoredRuns'
    BY StoredStep
  <2>5. agreedAt' \in -1..MaxTime
    <3>1. agreedAt' = now' \/ agreedAt' = agreedAt
      BY DEF Next, vars
    <3>2. QED
      BY <2>2, <3>1 DEF Bounded, TypeOK
  <2>6. met' \in [Server -> [Execution -> SUBSET (Price \cup {0})]]
    <3>1. CASE Next
      <4>1. Recorded
        BY <3>1 DEF Next, Recorded
      <4>2. snap' \in [Source -> Snap]
        BY <2>3 DEF FeedTypeOK
      <4>3. QED
        BY <4>1, <4>2, MetType
    <3>2. CASE UNCHANGED vars
      BY <3>2 DEF vars, TypeOK
    <3>3. QED
      BY <3>1, <3>2
  <2>7. QED
    BY <2>1, <2>2, <2>3, <2>4, <2>5, <2>6 DEF IInv, TypeOK, Bounded, FeedTypeOK, StoredRuns
<1>3. QED
  BY <1>1, <1>2, PTL DEF Spec

-----------------------------------------------------------------------------
(* Agreement.                                                              *)

\* A price that is stored or was read is positive; timestamps and expiries
\* are times; no agreement lies in the future.
Typed ==
    /\ now \in Nat
    /\ \A s \in Source : snap[s] # NoSnap => snap[s].price # 0
    /\ \A w \in Server, s \in Source : got[w][s] # NoSnap => got[w][s].price # 0
    /\ integrity.until \in Nat
    /\ agreedAt \in Int /\ -1 <= agreedAt /\ agreedAt <= now

\* What validate makes of the price read from s, 0 for nothing.
Worth(g, s) == IF Usable(g, s) THEN g[s].price ELSE 0

\* What a refresh has read so far was there at some moment of its reading.
Seen(w) == refresh[w] = "due" =>
    \A i \in 1..reads[w] : Reads[i] \in Execution =>
        Worth(got[w], Reads[i]) \in met[w][Reads[i]]

ReadInv == \A w \in Server : (refresh[w] # "due" => reads[w] = 0) /\ Seen(w)

\* Prices that agree in the reading of some refresh are known to the history.
Noticed == \A w \in Server : Agreement(met[w]) => agreedAt = now

\* A status "OK" that is about to be stored is of this tick.
Fresh == \A w \in Server : refresh[w] = "OK" => agreedAt = now

\* A stored "OK" expires within its lifetime of an agreement.
Dated == integrity.status = "OK" =>
            /\ 0 <= agreedAt
            /\ now < integrity.until
            /\ integrity.until <= agreedAt + IntegrityTtl

AgreeInv == Typed /\ ReadInv /\ Noticed /\ Fresh /\ Dated

\* The sources of the execution prices are read.
LEMMA ExecutionRead == ASSUME NEW s \in Execution PROVE \E i \in 1..Len(Reads) : Reads[i] = s
<1>1. \E i \in DOMAIN Reads : Reads[i] = s
  OBVIOUS
<1>2. DOMAIN Reads = 1..Len(Reads)
  OBVIOUS
<1>3. QED
  BY <1>1, <1>2

\* When validate arrives at "OK", prices of a quorum agreed in its reading.
LEMMA FoundAgreed ==
    ASSUME TypeOK, Typed, ReadInv, NEW w \in Server, refresh[w] = "due",
           reads[w] = Len(Reads), Found(got[w]) = "OK"
    PROVE  Agreement(met[w])
<1> DEFINE f == [s \in Execution |-> Worth(got[w], s)]
<1>1. QuorumMet(got[w]) /\ ~Disagreement(got[w])
  BY DEF Found
<1>2. Execution \subseteq Source
  BY DEF Execution
<1>3. ASSUME NEW s \in Execution
      PROVE  f[s] \in Price \cup {0} /\ f[s] \in met[w][s] /\ (f[s] # 0 <=> Usable(got[w], s))
  <2>1. s \in Source
    BY <1>2
  <2>2. got[w][s] \in Snap
    BY <2>1 DEF TypeOK
  <2>3. Usable(got[w], s) => got[w][s].price # 0
    BY <2>1 DEF Usable, Typed
  <2>4. PICK i \in 1..Len(Reads) : Reads[i] = s
    BY ExecutionRead
  <2>5. Worth(got[w], s) \in met[w][s]
    BY <2>4 DEF ReadInv, Seen
  <2>6. QED
    BY <2>2, <2>3, <2>5 DEF Worth, Snap
<1>4. f \in [Execution -> Price \cup {0}]
  BY <1>3
<1>5. {s \in Execution : f[s] # 0} = UsableSources(got[w])
  BY <1>3 DEF UsableSources
<1>6. Cardinality({s \in Execution : f[s] # 0}) >= Quorum
  BY <1>1, <1>5 DEF QuorumMet
<1>7. ASSUME NEW i \in DOMAIN Priority, NEW j \in DOMAIN Priority, i < j,
             f[Priority[i]] # 0, f[Priority[j]] # 0
      PROVE  ~Deviates(f[Priority[i]], f[Priority[j]])
  <2>1. Priority[i] \in Execution /\ Priority[j] \in Execution
    BY DEF Execution
  <2>2. Usable(got[w], Priority[i]) /\ Usable(got[w], Priority[j])
    BY <1>3, <1>7, <2>1
  <2>3. f[Priority[i]] = got[w][Priority[i]].price /\ f[Priority[j]] = got[w][Priority[j]].price
    BY <2>1, <2>2 DEF Worth
  <2>4. {Priority[i], Priority[j]} \subseteq UsableSources(got[w])
    BY <2>1, <2>2 DEF UsableSources
  <2>5. ~Deviates(got[w][Priority[i]].price, got[w][Priority[j]].price)
    BY <1>1, <1>7, <2>4 DEF Disagreement
  <2>6. QED
    BY <2>3, <2>5
<1> HIDE DEF f
<1>8. QED
  BY <1>3, <1>4, <1>6, <1>7 DEF Agreement

\* Nothing agrees before anything is read.
LEMMA NothingAgrees == ~Agreement(NothingMet)
<1> SUFFICES ASSUME NEW f \in [Execution -> Price \cup {0}],
                    \A s \in Execution : f[s] \in NothingMet[s],
                    Cardinality({s \in Execution : f[s] # 0}) >= Quorum
             PROVE  FALSE
  BY DEF Agreement
<1>1. {s \in Execution : f[s] # 0} = {}
  BY DEF NothingMet
<1>2. ~(0 >= Quorum)
  OBVIOUS
<1>3. QED
  BY <1>1, <1>2, FS_EmptySet

\* Initially nothing is stored and nothing agrees.
LEMMA AgreeInit == Init => AgreeInv
<1> SUFFICES ASSUME Init PROVE AgreeInv
  OBVIOUS
<1>1. now = 0 /\ agreedAt = -1 /\ integrity = NoStatus
  BY DEF Init, LeaseInit
<1>2. \A s \in Source : snap[s] = NoSnap
  BY DEF Init
<1>3. \A w \in Server, s \in Source : got[w][s] = NoSnap
  BY DEF Init, NothingRead
<1>4. Typed
  BY <1>1, <1>2, <1>3 DEF Typed, NoStatus
<1>5. ReadInv
  BY DEF Init, ReadInv, Seen
<1>6. Noticed
  BY NothingAgrees DEF Init, Noticed
<1>7. Fresh
  BY DEF Init, Fresh
<1>8. Dated
  BY <1>1 DEF Dated, NoStatus
<1>9. QED
  BY <1>4, <1>5, <1>6, <1>7, <1>8 DEF AgreeInv

-----------------------------------------------------------------------------
(* The reading of one refresh beside what the others do.                   *)

\* A refresh that has read nothing new keeps what it knows.
LEMMA SeenKept ==
    ASSUME TypeOK, ReadInv, Recorded, now' = now, NEW w \in Server,
           got'[w] = got[w], reads'[w] = reads[w],
           refresh'[w] = "due" => (refresh[w] = "due" \/ reads[w] = 0)
    PROVE  Seen(w)'
<1> SUFFICES ASSUME refresh'[w] = "due", NEW i \in 1..reads[w], Reads[i] \in Execution
             PROVE  Worth(got[w], Reads[i])' \in met'[w][Reads[i]]
  BY DEF Seen
<1>1. refresh[w] = "due"
  OBVIOUS
<1>2. Worth(got[w], Reads[i]) \in met[w][Reads[i]]
  BY <1>1 DEF ReadInv, Seen
<1>3. Worth(got[w], Reads[i])' = Worth(got[w], Reads[i])
  BY DEF Worth, Usable
<1>4. met[w][Reads[i]] \subseteq met'[w][Reads[i]]
  BY DEF Recorded
<1>5. QED
  BY <1>2, <1>3, <1>4

\* Nothing read, nothing to know.
LEMMA SeenNothing == ASSUME NEW w \in Server, reads'[w] = 0 PROVE Seen(w)'
BY DEF Seen

\* What is read of a source is what Redis held at that moment.
LEMMA ReadSeen ==
    ASSUME TypeOK, Typed, ReadInv, Recorded, NEW w \in Server, ReadSnapshot(w)
    PROVE  Seen(w)'
<1>1. now' = now /\ up' = up /\ snap' = snap /\ refresh' = refresh /\ reads'[w] = reads[w] + 1
  BY DEF ReadSnapshot, leaseVars, TypeOK
<1>2. reads[w] \in 0..Len(Reads)
  BY DEF TypeOK
<1>3. PICK s \in Source : s = Reads[reads[w] + 1]
  <2>1. Reads[reads[w] + 1] \in Source
    BY <1>2 DEF ReadSnapshot
  <2>2. QED
    BY <2>1
<1>4. PICK value : value = IF up THEN snap[s] ELSE NoSnap
  OBVIOUS
<1>5. got'[w] = [got[w] EXCEPT ![s] = value]
  BY <1>3, <1>4 DEF ReadSnapshot, TypeOK
<1>6. got[w] \in [Source -> Snap] /\ snap[s] \in Snap
  BY DEF TypeOK
<1>7. refresh'[w] = "due"
  BY <1>1 DEF ReadSnapshot
<1>8. ASSUME s \in Execution PROVE Worth(got[w], s)' \in met'[w][s]
  <2>1. got'[w][s] = value
    BY <1>5, <1>6
  <2>2. Readable(s)' \in met'[w][s]
    BY <1>7, <1>8 DEF Recorded
  <2>3. Worth(got[w], s)' = IF value # NoSnap /\ value.ts <= now /\ now - value.ts <= FreshFor
                            THEN value.price ELSE 0
    BY <1>1, <2>1 DEF Worth, Usable
  <2>4. Readable(s)' = IF up /\ snap[s] # NoSnap /\ now - snap[s].ts \in 0..FreshFor
                       THEN snap[s].price ELSE 0
    BY <1>1 DEF Readable, Stored
  <2>5. snap[s].ts \in Int
    BY <1>6 DEF Snap
  <2>6. (snap[s].ts <= now /\ now - snap[s].ts <= FreshFor) <=> now - snap[s].ts \in 0..FreshFor
    BY <2>5 DEF Typed
  <2>7. Worth(got[w], s)' = Readable(s)'
    BY <1>4, <2>3, <2>4, <2>6
  <2>8. QED
    BY <2>2, <2>7
<1>9. ASSUME NEW i \in 1..reads'[w], Reads[i] \in Execution
      PROVE  Worth(got[w], Reads[i])' \in met'[w][Reads[i]]
  <2>1. CASE Reads[i] = s
    BY <1>8, <1>9, <2>1
  <2>2. CASE Reads[i] # s
    <3>1. i \in 1..reads[w]
      BY <1>1, <1>2, <1>3, <2>2
    <3>2. Worth(got[w], Reads[i]) \in met[w][Reads[i]]
      BY <1>1, <1>7, <1>9, <3>1 DEF ReadInv, Seen
    <3>3. Reads[i] \in Source
      BY <1>9 DEF Execution
    <3>4. got'[w][Reads[i]] = got[w][Reads[i]]
      BY <1>5, <1>6, <2>2, <3>3
    <3>5. Worth(got[w], Reads[i])' = Worth(got[w], Reads[i])
      BY <1>1, <3>4 DEF Worth, Usable
    <3>6. met[w][Reads[i]] \subseteq met'[w][Reads[i]]
      BY <1>7, <1>9 DEF Recorded
    <3>7. QED
      BY <3>2, <3>5, <3>6
  <2>3. QED
    BY <2>1, <2>2
<1>10. QED
  BY <1>9 DEF Seen

\* A step that reads nothing, or gives up what was read, keeps the invariant
\* of the readings.
LEMMA ReadingsKept ==
    ASSUME TypeOK, ReadInv, Recorded, now' = now,
           \A w \in Server :
                \/ /\ got'[w] = got[w] /\ reads'[w] = reads[w]
                   /\ (refresh'[w] = "due" <=> refresh[w] = "due") \/ reads[w] = 0
                \/ reads'[w] = 0
    PROVE  ReadInv'
<1> SUFFICES ASSUME NEW w \in Server
             PROVE  (refresh'[w] # "due" => reads'[w] = 0) /\ Seen(w)'
  BY DEF ReadInv
<1>1. CASE reads'[w] = 0
  BY <1>1, SeenNothing
<1>2. CASE /\ got'[w] = got[w] /\ reads'[w] = reads[w]
           /\ (refresh'[w] = "due" <=> refresh[w] = "due") \/ reads[w] = 0
  <2>1. Seen(w)'
    BY <1>2, SeenKept
  <2>2. refresh'[w] # "due" => reads'[w] = 0
    BY <1>2 DEF ReadInv
  <2>3. QED
    BY <2>1, <2>2
<1>3. QED
  BY <1>1, <1>2

-----------------------------------------------------------------------------
(* The steps.                                                              *)

\* A step within a tick that brings no new status "OK" and keeps the stored
\* status keeps the invariant.
LEMMA QuietStep ==
    ASSUME AgreeInv, Recorded, now' = now, Typed', ReadInv',
           integrity' = integrity,
           \A w \in Server : refresh'[w] = "OK" => refresh[w] = "OK"
    PROVE  AgreeInv'
<1>1. agreedAt' = now' \/ agreedAt' = agreedAt
  BY DEF Recorded
<1>2. Noticed'
  BY DEF Recorded, Noticed
<1>3. Fresh'
  BY <1>1 DEF AgreeInv, Fresh
<1>4. Dated'
  BY <1>1 DEF AgreeInv, Dated, Typed
<1>5. QED
  BY <1>2, <1>3, <1>4 DEF AgreeInv

\* The history may only move to now.
LEMMA TypedHistory ==
    ASSUME Typed, Recorded, now' \in Nat, now <= now'
    PROVE  agreedAt' \in Int /\ -1 <= agreedAt' /\ agreedAt' <= now'
<1>1. agreedAt' = now' \/ agreedAt' = agreedAt
  BY DEF Recorded
<1>2. QED
  BY <1>1 DEF Typed

\* A snapshot is positive wherever it is kept.
LEMMA TypedKept ==
    ASSUME Typed, Recorded, now' = now, integrity'.until \in Nat,
           \A s \in Source : snap'[s] # NoSnap => snap'[s].price # 0,
           \A w \in Server, s \in Source : got'[w][s] # NoSnap => got'[w][s].price # 0
    PROVE  Typed'
BY TypedHistory DEF Typed

\* Starting and ending a job, a restart and an outage bring no status.
LEMMA LeaseStepAgree ==
    ASSUME AgreeInv, TypeOK, Recorded,
           \/ \E w \in Server, s \in Source : StartJob(w, s)
           \/ \E w \in Server, s \in Source, raises \in BOOLEAN : FinishJob(w, s, raises)
           \/ \E w \in Server : RestartServer(w)
           \/ Redis
    PROVE  AgreeInv'
<1>1. now' = now
  BY DEF StartJob, FinishJob, RestartServer, Redis,
         Claim, ClaimFails, RunWithoutRedis, Finish, Restart, RedisDown, RedisUp
<1>2. snap' = snap /\ integrity' = integrity
  BY DEF StartJob, FinishJob, RestartServer, Redis, feedVars
<1>3. \A v \in Server : refresh'[v] = "OK" => refresh[v] = "OK"
  <2>1. refresh' = refresh \/ \E v \in Server, x \in {"idle", "due"} :
                                refresh' = [refresh EXCEPT ![v] = x]
    BY DEF StartJob, FinishJob, RestartServer, Redis, feedVars
  <2>2. refresh \in [Server -> {"idle", "due", "raised"} \cup Status]
    BY DEF TypeOK
  <2>3. QED
    BY <2>1, <2>2
<1>4. ASSUME NEW v \in Server
      PROVE  /\ \A s \in Source : got'[v][s] = got[v][s] \/ got'[v][s] = NoSnap
             /\ \/ /\ got'[v] = got[v] /\ reads'[v] = reads[v]
                   /\ (refresh'[v] = "due" <=> refresh[v] = "due") \/ reads[v] = 0
                \/ reads'[v] = 0
  <2>1. CASE \/ \E w \in Server, s \in Source : StartJob(w, s)
             \/ Redis
    BY <2>1 DEF StartJob, Redis, feedVars
  <2>2. ASSUME NEW w \in Server, NEW s \in Source, NEW raises \in BOOLEAN, FinishJob(w, s, raises)
        PROVE  /\ \A r \in Source : got'[v][r] = got[v][r] \/ got'[v][r] = NoSnap
               /\ \/ /\ got'[v] = got[v] /\ reads'[v] = reads[v]
                     /\ (refresh'[v] = "due" <=> refresh[v] = "due") \/ reads[v] = 0
                  \/ reads'[v] = 0
    <3>1. got' = got /\ reads' = reads
      BY <2>2 DEF FinishJob
    <3>2. v = w => reads[v] = 0
      BY <2>2 DEF FinishJob, Yields, AgreeInv, ReadInv
    <3>3. v # w => refresh'[v] = refresh[v]
      BY <2>2 DEF FinishJob, TypeOK
    <3>4. QED
      BY <3>1, <3>2, <3>3
  <2>3. ASSUME NEW w \in Server, RestartServer(w)
        PROVE  /\ \A r \in Source : got'[v][r] = got[v][r] \/ got'[v][r] = NoSnap
               /\ \/ /\ got'[v] = got[v] /\ reads'[v] = reads[v]
                     /\ (refresh'[v] = "due" <=> refresh[v] = "due") \/ reads[v] = 0
                  \/ reads'[v] = 0
    <3>1. CASE v = w
      BY <2>3, <3>1 DEF RestartServer, TypeOK, NothingRead
    <3>2. CASE v # w
      BY <2>3, <3>2 DEF RestartServer, TypeOK
    <3>3. QED
      BY <3>1, <3>2
  <2>4. QED
    BY <2>1, <2>2, <2>3
<1>5. Typed'
  BY <1>1, <1>2, <1>4, TypedKept DEF AgreeInv, Typed
<1>6. ReadInv'
  BY <1>1, <1>4, ReadingsKept DEF AgreeInv
<1>7. QED
  BY <1>1, <1>2, <1>3, <1>5, <1>6, QuietStep

\* Storing a price brings no status.
LEMMA StoreAgree ==
    ASSUME AgreeInv, NEW w \in Server, NEW s \in Source, NEW price \in Price, NEW lag \in Lag,
           TypeOK, Store(w, s, price, lag), Recorded
    PROVE  AgreeInv'
<1>1. /\ now' = now /\ integrity' = integrity /\ refresh' = refresh
      /\ got' = got /\ reads' = reads
  BY DEF Store, leaseVars
<1>2. \A r \in Source : snap'[r] # NoSnap => snap'[r].price # 0
  <2> SUFFICES ASSUME NEW r \in Source PROVE snap'[r] # NoSnap => snap'[r].price # 0
    OBVIOUS
  <2>1. snap' = [snap EXCEPT ![s] =
                    [price |-> price, ts |-> now - lag, until |-> now + SnapshotTtl]]
    BY DEF Store
  <2>2. snap \in [Source -> Snap]
    BY DEF TypeOK
  <2>3. price # 0
    OBVIOUS
  <2>4. CASE r = s
    <3>1. snap'[r] = [price |-> price, ts |-> now - lag, until |-> now + SnapshotTtl]
      BY <2>1, <2>2, <2>4
    <3>2. QED
      BY <2>3, <3>1
  <2>5. CASE r # s
    <3>1. snap'[r] = snap[r]
      BY <2>1, <2>2, <2>5
    <3>2. QED
      BY <3>1 DEF AgreeInv, Typed
  <2>6. QED
    BY <2>4, <2>5
<1>3. Typed'
  BY <1>1, <1>2, TypedKept DEF AgreeInv, Typed
<1>4. ReadInv'
  BY <1>1, ReadingsKept DEF AgreeInv
<1>5. QED
  BY <1>1, <1>3, <1>4, QuietStep

\* Reading a price brings no status.
LEMMA ReadAgree ==
    ASSUME AgreeInv, TypeOK, NEW w \in Server, ReadSnapshot(w), Recorded PROVE AgreeInv'
<1>1. now' = now /\ integrity' = integrity /\ refresh' = refresh /\ snap' = snap
  BY DEF ReadSnapshot, leaseVars
<1>2. PICK s \in Source : got' = [got EXCEPT ![w][s] = IF up THEN snap[s] ELSE NoSnap]
  <2>1. Reads[reads[w] + 1] \in Source
    BY DEF ReadSnapshot, TypeOK
  <2>2. QED
    BY <2>1 DEF ReadSnapshot
<1>3. ASSUME NEW v \in Server, NEW r \in Source
      PROVE  got'[v][r] # NoSnap => got'[v][r].price # 0
  <2>1. got'[v][r] = got[v][r] \/ got'[v][r] = NoSnap \/ got'[v][r] = snap[r]
    BY <1>2 DEF TypeOK
  <2>2. QED
    BY <2>1 DEF AgreeInv, Typed
<1>4. Typed'
  BY <1>1, <1>3, TypedKept DEF AgreeInv, Typed
<1>5. ReadInv'
  <2> SUFFICES ASSUME NEW v \in Server
               PROVE  (refresh'[v] # "due" => reads'[v] = 0) /\ Seen(v)'
    BY DEF ReadInv
  <2>1. CASE v = w
    <3>1. Seen(v)'
      BY <2>1, ReadSeen DEF AgreeInv
    <3>2. QED
      BY <1>1, <2>1, <3>1 DEF ReadSnapshot
  <2>2. CASE v # w
    <3>1. got'[v] = got[v] /\ reads'[v] = reads[v]
      BY <2>2 DEF ReadSnapshot, TypeOK
    <3>2. Seen(v)'
      BY <1>1, <3>1, SeenKept DEF AgreeInv
    <3>3. QED
      BY <1>1, <3>1, <3>2 DEF AgreeInv, ReadInv
  <2>3. QED
    BY <2>1, <2>2
<1>6. QED
  BY <1>1, <1>4, <1>5, QuietStep

\* validate arrives at "OK" only when prices agreed in its reading.
LEMMA ValidateAgree ==
    ASSUME AgreeInv, TypeOK, NEW w \in Server, Validate(w), Recorded PROVE AgreeInv'
<1>1. now' = now /\ integrity' = integrity /\ snap' = snap
  BY DEF Validate, leaseVars
<1>2. ASSUME NEW v \in Server
      PROVE  IF v = w THEN got'[v] = NothingRead /\ reads'[v] = 0
                      ELSE got'[v] = got[v] /\ reads'[v] = reads[v] /\ refresh'[v] = refresh[v]
  BY DEF Validate, TypeOK
<1>3. \A v \in Server, s \in Source : got'[v][s] = got[v][s] \/ got'[v][s] = NoSnap
  BY <1>2 DEF NothingRead
<1>4. Typed'
  BY <1>1, <1>3, TypedKept DEF AgreeInv, Typed
<1>5. ReadInv'
  BY <1>1, <1>2, ReadingsKept DEF AgreeInv
<1>6. Noticed'
  BY DEF Recorded, Noticed
<1>7. Fresh'
  <2> SUFFICES ASSUME NEW v \in Server, refresh'[v] = "OK" PROVE agreedAt' = now'
    BY DEF Fresh
  <2>1. refresh[v] = "OK" \/ Found(got[w]) = "OK"
    BY DEF Validate, Validated
  <2>2. ASSUME Found(got[w]) = "OK" PROVE Agreement(met[w])
    BY <2>2, FoundAgreed DEF Validate, AgreeInv
  <2>3. agreedAt = now
    BY <2>1, <2>2 DEF AgreeInv, Fresh, Noticed
  <2>4. QED
    BY <1>1, <2>3 DEF Recorded
<1>8. Dated'
  BY <1>1 DEF AgreeInv, Dated, Typed, Recorded
<1>9. QED
  BY <1>4, <1>5, <1>6, <1>7, <1>8 DEF AgreeInv

\* A status is dated by the tick it is stored in, and that is the tick of
\* the agreement.
LEMMA PublishAgree ==
    ASSUME AgreeInv, TypeOK, NEW w \in Server, Publish(w), Recorded PROVE AgreeInv'
<1>1. now' = now /\ snap' = snap /\ got' = got /\ reads' = reads
  BY DEF Publish, leaseVars
<1>2. integrity' = integrity \/ integrity' = [status |-> refresh[w], until |-> now + IntegrityTtl]
  BY DEF Publish, StatusUntil
<1>3. Typed'
  BY <1>1, <1>2, TypedKept DEF AgreeInv, Typed
<1>4. ReadInv'
  <2>1. \A v \in Server : refresh'[v] = "due" <=> refresh[v] = "due"
    BY DEF Publish, TypeOK
  <2>2. QED
    BY <1>1, <2>1, ReadingsKept DEF AgreeInv
<1>5. Noticed'
  BY DEF Recorded, Noticed
<1>6. \A v \in Server : refresh'[v] = "OK" => refresh[v] = "OK"
  BY DEF Publish
<1>7. Fresh'
  BY <1>1, <1>6 DEF AgreeInv, Fresh, Recorded
<1>8. Dated'
  <2>1. CASE integrity' = integrity
    BY <1>1, <2>1 DEF AgreeInv, Dated, Typed, Recorded
  <2>2. CASE integrity' = [status |-> refresh[w], until |-> now + IntegrityTtl]
    <3> SUFFICES ASSUME refresh[w] = "OK"
                 PROVE  0 <= agreedAt' /\ now' < integrity'.until
                        /\ integrity'.until <= agreedAt' + IntegrityTtl
      BY <2>2 DEF Dated
    <3>1. agreedAt' = now
      BY <1>1 DEF AgreeInv, Fresh, Recorded
    <3>2. QED
      BY <1>1, <2>2, <3>1 DEF AgreeInv, Typed
  <2>3. QED
    BY <1>2, <2>1, <2>2
<1>9. QED
  BY <1>3, <1>4, <1>5, <1>7, <1>8 DEF AgreeInv

\* No refresh is under way when the clock ticks, and what expires is gone.
LEMMA ClockAgree == ASSUME AgreeInv, Clock, Recorded PROVE AgreeInv'
<1>1. now' = now + 1 /\ refresh' = refresh /\ got' = got /\ reads' = reads
  BY DEF Clock, Tick
<1>2. \A r \in Source : snap'[r] # NoSnap => snap'[r].price # 0
  BY DEF Clock, AgreeInv, Typed
<1>3. integrity' = NoStatus \/ (integrity' = integrity /\ now' < integrity.until)
  BY <1>1 DEF Clock, AgreeInv, Typed
<1>4. Typed'
  BY <1>1, <1>2, <1>3, TypedHistory DEF AgreeInv, Typed, NoStatus
<1>5. ReadInv'
  <2>1. \A w \in Server : refresh[w] = "idle" /\ reads[w] = 0
    BY DEF Clock, Yields, AgreeInv, ReadInv
  <2>2. QED
    BY <1>1, <2>1 DEF ReadInv, Seen
<1>6. Noticed'
  BY DEF Recorded, Noticed
<1>7. Fresh'
  BY <1>1 DEF Clock, Yields, Fresh
<1>8. Dated'
  <2>1. agreedAt' = now' \/ agreedAt' = agreedAt
    BY DEF Recorded
  <2>2. QED
    BY <1>1, <1>3, <2>1 DEF AgreeInv, Dated, Typed, NoStatus
<1>9. QED
  BY <1>4, <1>5, <1>6, <1>7, <1>8 DEF AgreeInv

\* Every step keeps the invariant.
LEMMA AgreeStep == AgreeInv /\ TypeOK /\ [Next]_vars => AgreeInv'
<1> SUFFICES ASSUME AgreeInv, TypeOK, [Next]_vars PROVE AgreeInv'
  OBVIOUS
<1>1. CASE Next
  <2>0. Recorded
    BY <1>1 DEF Next, Recorded
  <2>1. CASE \/ \E w \in Server, s \in Source : StartJob(w, s)
             \/ \E w \in Server, s \in Source, raises \in BOOLEAN : FinishJob(w, s, raises)
             \/ \E w \in Server : RestartServer(w)
             \/ Redis
    BY <2>0, <2>1, LeaseStepAgree
  <2>2. ASSUME NEW w \in Server, NEW s \in Source, NEW price \in Price, NEW lag \in Lag,
               Store(w, s, price, lag)
        PROVE  AgreeInv'
    BY <2>0, <2>2, StoreAgree
  <2>3. ASSUME NEW w \in Server, ReadSnapshot(w) PROVE AgreeInv'
    BY <2>0, <2>3, ReadAgree
  <2>4. ASSUME NEW w \in Server, Validate(w) PROVE AgreeInv'
    BY <2>0, <2>4, ValidateAgree
  <2>5. ASSUME NEW w \in Server, Publish(w) PROVE AgreeInv'
    BY <2>0, <2>5, PublishAgree
  <2>6. CASE Clock
    BY <2>0, <2>6, ClockAgree
  <2>7. QED
    BY <1>1, <2>1, <2>2, <2>3, <2>4, <2>5, <2>6 DEF Next
<1>2. CASE UNCHANGED vars
  <2>1. /\ now' = now /\ integrity' = integrity /\ refresh' = refresh /\ snap' = snap
        /\ got' = got /\ reads' = reads /\ met' = met /\ agreedAt' = agreedAt
    BY <1>2 DEF vars, leaseVars, feedVars
  <2>2. Typed'
    BY <2>1 DEF AgreeInv, Typed
  <2>3. ReadInv'
    BY <2>1 DEF AgreeInv, ReadInv, Seen, Worth, Usable
  <2>4. Noticed'
    BY <2>1 DEF AgreeInv, Noticed, Agreement
  <2>5. Fresh'
    BY <2>1 DEF AgreeInv, Fresh
  <2>6. Dated'
    BY <2>1 DEF AgreeInv, Dated
  <2>7. QED
    BY <2>2, <2>3, <2>4, <2>5, <2>6 DEF AgreeInv
<1>3. QED
  BY <1>1, <1>2

\* A live order passes only while fresh prices of a quorum, each of them there
\* at some moment of one refresh's reading, have agreed less than the lifetime
\* of a status ago.
THEOREM LiveOnAgreement == Spec => []LiveNeedsAgreement
<1>1. AgreeInv => LiveNeedsAgreement
  BY DEF AgreeInv, Typed, Dated, LiveNeedsAgreement, LiveGate
<1>2. QED
  BY AgreeInit, AgreeStep, FeedTyped, <1>1, PTL DEF Spec
=============================================================================
