---------------------------- MODULE RiskRuntime ----------------------------
(***************************************************************************)
(* The limits of RiskEngine that depend on what happened before: daily     *)
(* loss and live cooldown.  Their state is shared through Redis            *)
(* (RiskRuntimeState) and copied into the fields of the engine of each     *)
(* process; when Redis is down an engine goes on with its own fields.      *)
(*                                                                         *)
(* An order is stamped when the router takes it.  The router then copies   *)
(* the shared state into the engine for the record of the decision, and    *)
(* check_constraints copies it again, decides on the engine's fields, and  *)
(* publishes the time of what it allowed.  The threads of a process share  *)
(* its engine and hold no lock; a status request copies the state too.     *)
(*                                                                         *)
(* Realized P&L is recorded by the paper executor, through an engine of    *)
(* its own that never checks an order; that engine's fields are left out.  *)
(* Leverage and margin only look at the order and may always refuse it.    *)
(* The throttle is left out: no code outside the tests sets it.            *)
(* X_F is X with the fault F; no action uses it.                           *)
(***************************************************************************)
EXTENDS Integers

CONSTANTS Process,      \* server processes, each with its router's engine
          NoProcess,    \* serves nobody
          Thread,       \* request threads
          RiskModes,        \* values EXECUTION_MODE may have been started with
          Cooldown,     \* COOLDOWN_SECONDS, in ticks
          MaxLoss,      \* MAX_DAILY_LOSS
          Realized,     \* realized P&L of a fill
          DayLength,    \* ticks of a day
          MaxTime,      \* bound: ticks
          MaxFills,     \* bound: fills that realize something
          MaxFaults     \* bound: restarts, and times Redis becomes unavailable

ASSUME RiskAssumption ==
    /\ NoProcess \notin Process
    /\ RiskModes \subseteq {"paper", "live"}
    /\ Cooldown \in Nat /\ MaxLoss \in Nat /\ Realized \subseteq Int \ {0}
    /\ DayLength \in Nat \ {0}
    /\ MaxTime \in Nat \ {0} /\ MaxFills \in Nat /\ MaxFaults \in Nat

VARIABLES
    riskMode,       \* EXECUTION_MODE
    now,        \* the clock; 0 is no time
    up,         \* Redis answers
    pnl,        \* risk:daily_pnl:<d>, by day
    last,       \* risk:last_action, 0 when missing
    engine,     \* engine[p]: fields of the router's engine of p
    stage,         \* pc[t]: "idle", "stamped", "recorded" after the first
                \* copy, "decide" after the second
    proc,       \* proc[t]: process that serves t
    asof,       \* asof[t]: as_of of the order of t
    \* history and bounds
    truth,      \* P&L realized, by day
    told,       \* P&L realized while Redis answered, by day
    approved,   \* time of the last approval of live exposure published
    due,        \* due[t]: limits that ought to refuse new exposure, by what
                \* t could know when it copied the shared state
    alone,      \* alone[t]: nobody else has written the engine of t's
                \* process since t copied, or can before t decides
    breach,     \* limits that an approval of new exposure has broken
    fills, faults

store == <<pnl, last>>
check == <<stage, proc, asof, due, alone>>
riskHistory == <<truth, told, approved, breach>>
riskVars == <<riskMode, now, up, store, engine, check, riskHistory, fills, faults>>

Day == 0..(MaxTime \div DayLength)
DayAt(time) == time \div DayLength
Today == DayAt(now)
Limits == {"loss", "toldLoss", "cooldown"}

RiskTypeOK ==
    /\ riskMode \in RiskModes /\ now \in 1..MaxTime /\ up \in BOOLEAN
    /\ pnl \in [Day -> Int] /\ last \in Nat
    /\ engine \in [Process -> [pnl : Int, day : Day \cup {-1}, last : Nat]]
    /\ stage \in [Thread -> {"idle", "stamped", "recorded", "decide"}]
    /\ proc \in [Thread -> Process \cup {NoProcess}] /\ asof \in [Thread -> Nat]
    /\ truth \in [Day -> Int] /\ told \in [Day -> Int] /\ approved \in Nat
    /\ due \in [Thread -> SUBSET Limits] /\ alone \in [Thread -> BOOLEAN]
    /\ breach \subseteq Limits
    /\ fills \in 0..MaxFills /\ faults \in 0..MaxFaults

NewEngine == [pnl |-> 0, day |-> -1, last |-> 0]

RiskInit ==
    /\ riskMode \in RiskModes /\ now = 1 /\ up = TRUE
    /\ pnl = [d \in Day |-> 0] /\ last = 0
    /\ engine = [p \in Process |-> NewEngine]
    /\ stage = [t \in Thread |-> "idle"]
    /\ proc = [t \in Thread |-> NoProcess] /\ asof = [t \in Thread |-> 0]
    /\ truth = [d \in Day |-> 0] /\ told = truth /\ approved = 0
    /\ due = [t \in Thread |-> {}] /\ alone = [t \in Thread |-> TRUE]
    /\ breach = {} /\ fills = 0 /\ faults = 0

-----------------------------------------------------------------------------
(* route_order and check_constraints.                                      *)

Arrive(t, p) ==
    /\ stage[t] = "idle"
    /\ stage' = [stage EXCEPT ![t] = "stamped"]
    /\ proc' = [proc EXCEPT ![t] = p]
    /\ asof' = [asof EXCEPT ![t] = now]
    /\ UNCHANGED <<riskMode, now, up, store, engine, due, alone, riskHistory, fills, faults>>

Deciding(p) == {t \in Thread : stage[t] = "decide" /\ proc[t] = p}

\* _sync_shared_state, after "reads" answers: the P&L, then the last action.
\* A field whose answer is missing stays as it is.
Synced(f, reads) ==
    [pnl  |-> IF reads >= 1 THEN pnl[Today] ELSE f.pnl,
     day  |-> IF reads >= 1 THEN Today ELSE f.day,
     last |-> IF reads = 2 /\ last # 0 THEN last ELSE f.last]

\* What forbids new exposure to t, given the answers it gets.  A check that
\* spans midnight is held to the loss of neither day.
Forbids(b, t, reads) ==
    \/ b = "loss" /\ truth[Today] < -MaxLoss
    \/ b = "toldLoss" /\ reads >= 1 /\ told[Today] < -MaxLoss /\ DayAt(asof[t]) = Today
    \/ b = "cooldown" /\ reads = 2 /\ riskMode = "live"
         /\ approved > 0 /\ asof[t] - approved < Cooldown

\* A copy into the engine of p.  The connection may break between answers.
Copy(p, reads) ==
    /\ IF up THEN reads < 2 => faults < MaxFaults ELSE reads = 0
    /\ up' = (reads = 2)
    /\ faults' = IF up /\ reads < 2 THEN faults + 1 ELSE faults
    /\ engine' = [engine EXCEPT ![p] = Synced(@, reads)]

\* _risk_replay_spec.
Record(t, reads) ==
    /\ stage[t] = "stamped"
    /\ Copy(proc[t], reads)
    /\ stage' = [stage EXCEPT ![t] = "recorded"]
    /\ alone' = [u \in Thread |-> alone[u] /\ u \notin Deciding(proc[t])]
    /\ UNCHANGED <<riskMode, now, store, proc, asof, due, riskHistory, fills>>

\* check_constraints, to the end of _sync_shared_state.
Sync(t, reads) ==
    /\ stage[t] = "recorded"
    /\ Copy(proc[t], reads)
    /\ stage' = [stage EXCEPT ![t] = "decide"]
    /\ due' = [due EXCEPT ![t] = {b \in Limits : Forbids(b, t, reads)}]
    /\ alone' = [u \in Thread |-> IF u = t THEN Deciding(proc[t]) = {}
                                  ELSE alone[u] /\ u \notin Deciding(proc[t])]
    /\ UNCHANGED <<riskMode, now, store, proc, asof, riskHistory, fills>>

\* get_status.
GetStatus(p, reads) ==
    /\ Copy(p, reads)
    /\ alone' = [u \in Thread |-> alone[u] /\ u \notin Deciding(p)]
    /\ UNCHANGED <<riskMode, now, store, stage, proc, asof, due, riskHistory, fills>>

\* The P&L field belongs to the day of its last reset.
RolledOver(f, day) == IF f.day = day THEN f ELSE [f EXCEPT !.pnl = 0, !.day = day]

\* An order that adds exposure passes the limits on the engine's fields.
WithinLimits(f, time) ==
    /\ f.pnl >= -MaxLoss
    /\ riskMode = "live" /\ f.last > 0 => time - f.last >= Cooldown

Finish(t) ==
    /\ stage' = [stage EXCEPT ![t] = "idle"]
    /\ asof' = [asof EXCEPT ![t] = 0]
    /\ proc' = [proc EXCEPT ![t] = NoProcess]
    /\ due' = [due EXCEPT ![t] = {}]
    /\ alone' = [alone EXCEPT ![t] = TRUE]

Published_Never(time) == last
Published(time) == IF up THEN time ELSE last

\* New exposure: allowed only within the limits, perhaps refused for its
\* leverage or margin all the same.  The time of the decision is kept and
\* published whether or not the order is submitted in the end.
DecideNew(t, pass) ==
    /\ stage[t] = "decide"
    /\ LET p == proc[t]
           f == RolledOver(engine[p], DayAt(asof[t]))
           allowed == pass /\ WithinLimits(f, asof[t])
       IN /\ engine' = [engine EXCEPT ![p] = IF allowed THEN [f EXCEPT !.last = asof[t]] ELSE f]
          /\ last' = IF allowed THEN Published(asof[t]) ELSE last
          /\ approved' = IF allowed /\ riskMode = "live" /\ up THEN asof[t] ELSE approved
          /\ breach' = IF allowed /\ alone[t] THEN breach \cup due[t] ELSE breach
    /\ Finish(t)
    /\ UNCHANGED <<riskMode, now, up, pnl, truth, told, fills, faults>>

\* A pure reduction passes every limit and leaves no mark.
DecideReduction(t) ==
    /\ stage[t] = "decide"
    /\ engine' = [engine EXCEPT ![proc[t]] = RolledOver(@, DayAt(asof[t]))]
    /\ Finish(t)
    /\ UNCHANGED <<riskMode, now, up, store, riskHistory, fills, faults>>

-----------------------------------------------------------------------------
(* record_pnl and the environment.                                         *)

Recorded_Set(value) == IF up THEN [pnl EXCEPT ![Today] = value] ELSE pnl
Recorded(value) == IF up THEN [pnl EXCEPT ![Today] = @ + value] ELSE pnl

\* PaperExecutor.place_order after a fill that realized something.
RecordPnl(value) ==
    /\ riskMode = "paper"
    /\ fills < MaxFills
    /\ fills' = fills + 1
    /\ truth' = [truth EXCEPT ![Today] = @ + value]
    /\ told' = IF up THEN [told EXCEPT ![Today] = @ + value] ELSE told
    /\ pnl' = Recorded(value)
    /\ UNCHANGED <<riskMode, now, up, last, engine, check, approved, breach, faults>>

RedisDown ==
    /\ up /\ faults < MaxFaults
    /\ up' = FALSE /\ faults' = faults + 1
    /\ UNCHANGED <<riskMode, now, store, engine, check, riskHistory, fills>>

RedisUp ==
    /\ ~up
    /\ up' = TRUE
    /\ UNCHANGED <<riskMode, now, store, engine, check, riskHistory, fills, faults>>

\* A process dies with its requests; the next one starts with a new engine.
RestartProcess(p) ==
    LET lost == {t \in Thread : stage[t] # "idle" /\ proc[t] = p} IN
    /\ faults < MaxFaults
    /\ faults' = faults + 1
    /\ engine' = [engine EXCEPT ![p] = NewEngine]
    /\ stage' = [t \in Thread |-> IF t \in lost THEN "idle" ELSE stage[t]]
    /\ asof' = [t \in Thread |-> IF t \in lost THEN 0 ELSE asof[t]]
    /\ proc' = [t \in Thread |-> IF t \in lost THEN NoProcess ELSE proc[t]]
    /\ due' = [t \in Thread |-> IF t \in lost THEN {} ELSE due[t]]
    /\ alone' = [t \in Thread |-> t \in lost \/ alone[t]]
    /\ UNCHANGED <<riskMode, now, up, store, riskHistory, fills>>

Tick ==
    /\ now < MaxTime
    /\ now' = now + 1
    /\ UNCHANGED <<riskMode, up, store, engine, check, riskHistory, fills, faults>>

RiskNext ==
    \/ \E t \in Thread :
        \/ \E p \in Process : Arrive(t, p)
        \/ \E reads \in 0..2 : Record(t, reads) \/ Sync(t, reads)
        \/ \E pass \in BOOLEAN : DecideNew(t, pass)
        \/ DecideReduction(t)
    \/ \E value \in Realized : RecordPnl(value)
    \/ \E p \in Process, reads \in 0..2 : GetStatus(p, reads)
    \/ \E p \in Process : RestartProcess(p)
    \/ RedisDown \/ RedisUp
    \/ Tick

RiskSpec == RiskInit /\ [][RiskNext]_riskVars

-----------------------------------------------------------------------------
(* Properties.                                                             *)

\* A check that reads the shared P&L allows no new exposure on a day whose
\* losses are beyond the limit, whichever processes realized them, provided
\* nobody else writes the engine of its process between its copy and its
\* decision: another thread may roll the P&L to another day.
LossLimitShared == "toldLoss" \notin breach

\* A check that reads the shared time allows no live exposure within the
\* cooldown of the last approval published by any process, with the same
\* proviso.  Checks that overlap in different processes may both approve.
CooldownShared == "cooldown" \notin breach

\* "Maximum daily loss in USD before trading is blocked".
DailyLossBlocks == "loss" \notin breach
=============================================================================
