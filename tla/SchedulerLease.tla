--------------------------- MODULE SchedulerLease ---------------------------
(***************************************************************************)
(* The ingest scheduler's leases.  Every server process runs the same      *)
(* scheduler; before a source's job starts, its process claims the         *)
(* source's lease in Redis, a key with the claimant's token that expires   *)
(* by itself.  A process that finds the lease held skips the job, one that *)
(* finds no Redis runs it without a lease.  Nothing renews a lease or      *)
(* bounds a job.                                                           *)
(*                                                                         *)
(* A token is drawn for every claim.  Here it is the process: APScheduler  *)
(* runs a job once at a time in a process, and a process that died with a  *)
(* lease cannot claim it before it has expired.                            *)
(*                                                                         *)
(* A skipped job changes nothing here, so it is no action.                 *)
(* X_F is X with the fault F; no action uses it.                           *)
(***************************************************************************)
EXTENDS Integers

CONSTANTS Server,       \* server processes
          Source,       \* ingest sources, each with a job and a lease
          None,         \* nobody
          LeaseTtl,     \* REDIS_LEASE_TTL_S, in ticks
          MaxTime,      \* bound: ticks
          MaxJobs,      \* bound: jobs started
          MaxFaults     \* bound: restarts, and times Redis becomes unavailable

ASSUME LeaseAssumption ==
    /\ None \notin Server
    /\ LeaseTtl \in Nat \ {0} /\ MaxTime \in Nat /\ MaxJobs \in Nat /\ MaxFaults \in Nat

VARIABLES
    now,        \* the clock
    up,         \* Redis answers
    lease,      \* lease[s]: its owner and the time it expires
    job,        \* job[w][s]: "off" or "on"
    token,      \* token[w][s]: time until which the lease w claimed for its
                \* job lasts, 0 for a job without a lease
    jobs, faults

leaseVars == <<now, up, lease, job, token, jobs, faults>>

Free == [owner |-> None, until |-> 0]

LeaseTypeOK ==
    /\ now \in Nat /\ up \in BOOLEAN
    /\ lease \in [Source -> [owner : Server \cup {None}, until : Nat]]
    /\ \A s \in Source : lease[s] = Free \/ (lease[s].owner # None /\ now < lease[s].until)
    /\ job \in [Server -> [Source -> {"off", "on"}]]
    /\ token \in [Server -> [Source -> Nat]]
    /\ jobs \in Nat /\ faults \in Nat

LeaseInit ==
    /\ now = 0 /\ up = TRUE
    /\ lease = [s \in Source |-> Free]
    /\ job = [w \in Server |-> [s \in Source |-> "off"]]
    /\ token = [w \in Server |-> [s \in Source |-> 0]]
    /\ jobs = 0 /\ faults = 0

Started(w, s) ==
    /\ jobs < MaxJobs
    /\ jobs' = jobs + 1
    /\ job' = [job EXCEPT ![w][s] = "on"]

\* claim_lease: SET NX EX.
Taken(w) == [owner |-> w, until |-> now + LeaseTtl]

Claim(w, s) ==
    /\ job[w][s] = "off" /\ up
    /\ lease[s] = Free
    /\ lease' = [lease EXCEPT ![s] = Taken(w)]
    /\ token' = [token EXCEPT ![w][s] = now + LeaseTtl]
    /\ Started(w, s)
    /\ UNCHANGED <<now, up, faults>>

\* The claim fails, though Redis may have carried it out.  The job runs
\* without a lease if Redis is still unavailable, and is skipped otherwise.
ClaimFails(w, s, applied, down) ==
    /\ job[w][s] = "off" /\ up
    /\ faults < MaxFaults
    /\ faults' = faults + 1
    /\ applied => lease[s] = Free
    /\ lease' = IF applied THEN [lease EXCEPT ![s] = Taken(w)] ELSE lease
    /\ up' = ~down
    /\ IF down THEN Started(w, s) ELSE UNCHANGED <<job, jobs>>
    /\ UNCHANGED <<now, token>>

RunWithoutRedis(w, s) ==
    /\ job[w][s] = "off" /\ ~up
    /\ Started(w, s)
    /\ UNCHANGED <<now, up, lease, token, faults>>

\* release_lease deletes the key if it still holds the token.
Released_Always(w, s) == [lease EXCEPT ![s] = Free]
Released(w, s) == IF lease[s].owner = w THEN [lease EXCEPT ![s] = Free] ELSE lease

\* The job returns or raises.
Finish(w, s) ==
    /\ job[w][s] = "on"
    /\ job' = [job EXCEPT ![w][s] = "off"]
    /\ token' = [token EXCEPT ![w][s] = 0]
    /\ lease' = IF token[w][s] # 0 /\ up THEN Released(w, s) ELSE lease
    /\ UNCHANGED <<now, up, jobs, faults>>

RedisDown ==
    /\ up /\ faults < MaxFaults
    /\ up' = FALSE /\ faults' = faults + 1
    /\ UNCHANGED <<now, lease, job, token, jobs>>

RedisUp ==
    /\ ~up
    /\ up' = TRUE
    /\ UNCHANGED <<now, lease, job, token, jobs, faults>>

Restart(w) ==
    /\ faults < MaxFaults
    /\ faults' = faults + 1
    /\ job' = [job EXCEPT ![w] = [s \in Source |-> "off"]]
    /\ token' = [token EXCEPT ![w] = [s \in Source |-> 0]]
    /\ UNCHANGED <<now, up, lease, jobs>>

\* Keys expire with time, whether or not Redis can be reached.
Unexpired(time) == [s \in Source |-> IF lease[s].until <= time THEN Free ELSE lease[s]]

Tick ==
    /\ now < MaxTime
    /\ now' = now + 1
    /\ lease' = Unexpired(now + 1)
    /\ UNCHANGED <<up, job, token, jobs, faults>>

LeaseNext ==
    \/ \E w \in Server, s \in Source :
        \/ Claim(w, s)
        \/ \E applied, down \in BOOLEAN : ClaimFails(w, s, applied, down)
        \/ RunWithoutRedis(w, s)
        \/ Finish(w, s)
    \/ \E w \in Server : Restart(w)
    \/ RedisDown \/ RedisUp
    \/ Tick

LeaseSpec == LeaseInit /\ [][LeaseNext]_leaseVars

-----------------------------------------------------------------------------
(* Properties.                                                             *)

Holds(w, s) == job[w][s] = "on" /\ now < token[w][s]

\* Two processes run the job of one source only if one of them claimed no
\* lease or has outlived it: a late release, a lost answer or a restart never
\* hands out a lease that a running job still holds.
LeaseExclusive ==
    \A s \in Source, w1, w2 \in Server : Holds(w1, s) /\ Holds(w2, s) => w1 = w2
=============================================================================
