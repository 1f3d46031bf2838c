------------------------ MODULE RiskRuntimeProofs ------------------------
(***************************************************************************)
(* For any processes, threads, limits, days and failures: a check that     *)
(* read the shared loss, or the shared time of the last approval, approves *)
(* no new exposure against it.                                             *)
(*                                                                         *)
(* What a check is due to refuse it must still see in its engine when it   *)
(* decides (LossSeen, CooldownSeen).  Its copy is complete because Redis   *)
(* holds all that was told to it (StoreKept), and it stays because nobody  *)
(* else of its process is between copy and decision (AloneDecides).        *)
(***************************************************************************)
EXTENDS RiskRuntime, TLAPS

\* Redis holds the P&L it was told and, in live mode, the last approval.
StoreKept == pnl = told /\ (riskMode = "live" => last = approved)

\* A request that is not idle is served, and was stamped in the past.
Served ==
    \A t \in Thread : /\ stage[t] # "idle" => proc[t] \in Process
                      /\ asof[t] <= now

\* While nobody else has written its engine, nobody else is about to.
AloneDecides ==
    \A t, u \in Thread :
        stage[t] = "decide" /\ alone[t] /\ stage[u] = "decide" /\ proc[u] = proc[t] => u = t

\* An undisturbed thread that was told of losses has them in its engine.
LossSeen ==
    \A t \in Thread : stage[t] = "decide" /\ alone[t] /\ "toldLoss" \in due[t] =>
        /\ engine[proc[t]].day = DayAt(asof[t])
        /\ engine[proc[t]].pnl < -MaxLoss

CooldownSeen ==
    \A t \in Thread : stage[t] = "decide" /\ alone[t] /\ "cooldown" \in due[t] =>
        /\ riskMode = "live" /\ engine[proc[t]].last > 0
        /\ asof[t] - engine[proc[t]].last < Cooldown

IInv ==
    /\ RiskTypeOK /\ StoreKept /\ Served /\ AloneDecides /\ LossSeen /\ CooldownSeen
    /\ LossLimitShared /\ CooldownShared

\* The day of an earlier time is no later day.
LEMMA DayOrder ==
  ASSUME NEW a \in Nat, NEW b \in Nat, a <= b
  PROVE  DayAt(a) \in Nat /\ DayAt(b) \in Nat /\ DayAt(a) <= DayAt(b)
  BY RiskAssumption, Z3 DEF RiskAssumption, DayAt

\* The day of the clock is a day.
LEMMA TodayType == RiskTypeOK => Today \in Day /\ now \in Nat
<1> SUFFICES ASSUME RiskTypeOK PROVE Today \in Day /\ now \in Nat
  OBVIOUS
<1>1. now \in Nat /\ MaxTime \in Nat /\ now <= MaxTime
  BY RiskAssumption DEF RiskTypeOK, RiskAssumption
<1>2. DayAt(now) \in Nat /\ DayAt(MaxTime) \in Nat /\ DayAt(now) <= DayAt(MaxTime)
  BY <1>1, DayOrder
<1> QED
  BY <1>1, <1>2 DEF Today, Day, DayAt

\* The day of a stamp is a day of the run.
LEMMA StampType ==
  ASSUME RiskTypeOK, Served, NEW t \in Thread
  PROVE  asof[t] \in Nat /\ DayAt(asof[t]) \in Day
<1>1. asof[t] \in Nat /\ now \in Nat /\ MaxTime \in Nat /\ asof[t] <= MaxTime
  BY RiskAssumption DEF RiskTypeOK, Served, RiskAssumption
<1>2. DayAt(asof[t]) \in Nat /\ DayAt(MaxTime) \in Nat /\ DayAt(asof[t]) <= DayAt(MaxTime)
  BY <1>1, DayOrder
<1> QED
  BY <1>1, <1>2 DEF Day, DayAt

Fields == [pnl : Int, day : Day \cup {-1}, last : Nat]

\* An engine that copies the shared state, or part of it, remains one;
LEMMA SyncedType ==
  ASSUME RiskTypeOK, NEW f \in Fields, NEW reads \in 0..2
  PROVE  Synced(f, reads) \in Fields
<1>1. pnl[Today] \in Int /\ Today \in Day /\ last \in Nat
  BY TodayType DEF RiskTypeOK
<1> QED
  BY <1>1 DEF Synced, Fields

\* one that rolls to another day does too, and keeps its last action.
LEMMA RolledOverType ==
  ASSUME NEW f \in Fields, NEW day \in Day
  PROVE  /\ RolledOver(f, day) \in Fields
         /\ RolledOver(f, day).last = f.last
<1>1. CASE f.day = day
  BY <1>1 DEF RolledOver
<1>2. CASE f.day # day
  <2>1. RolledOver(f, day) = [pnl |-> 0, day |-> day, last |-> f.last]
    BY <1>2 DEF RolledOver, Fields
  <2> QED
    BY <2>1 DEF Fields
<1> QED
  BY <1>1, <1>2

\* A copy changes the engine of its process only.
LEMMA CopyType ==
  ASSUME RiskTypeOK, NEW p \in Process, NEW reads \in 0..2, Copy(p, reads)
  PROVE  /\ up' \in BOOLEAN /\ faults' \in 0..MaxFaults
         /\ engine' \in [Process -> Fields]
         /\ engine'[p] = Synced(engine[p], reads)
         /\ \A q \in Process : q # p => engine'[q] = engine[q]
<1>1. engine \in [Process -> Fields]
  BY DEF RiskTypeOK, Fields
<1>2. Synced(engine[p], reads) \in Fields
  BY <1>1, SyncedType
<1>3. engine' = [engine EXCEPT ![p] = Synced(engine[p], reads)]
  BY DEF Copy
<1>4. faults' \in 0..MaxFaults
  BY RiskAssumption DEF Copy, RiskTypeOK, RiskAssumption
<1>5. up' \in BOOLEAN
  BY DEF Copy
<1> QED
  BY <1>1, <1>2, <1>3, <1>4, <1>5

\* A thread that is done is idle.
LEMMA FinishType ==
  ASSUME RiskTypeOK, NEW t \in Thread, Finish(t)
  PROVE  /\ stage' \in [Thread -> {"idle", "stamped", "recorded", "decide"}]
         /\ proc' \in [Thread -> Process \cup {NoProcess}] /\ asof' \in [Thread -> Nat]
         /\ due' \in [Thread -> SUBSET Limits] /\ alone' \in [Thread -> BOOLEAN]
  BY DEF Finish, RiskTypeOK

\* The invariant holds of fresh engines.
LEMMA InitInv == RiskInit => IInv
<1> SUFFICES ASSUME RiskInit PROVE IInv
  OBVIOUS
<1>1. RiskTypeOK
  BY RiskAssumption DEF RiskInit, RiskTypeOK, RiskAssumption, NewEngine
<1>2. StoreKept /\ Served /\ AloneDecides /\ LossSeen /\ CooldownSeen
  BY DEF RiskInit, StoreKept, Served, AloneDecides, LossSeen, CooldownSeen
<1>3. LossLimitShared /\ CooldownShared
  BY DEF RiskInit, LossLimitShared, CooldownShared
<1> QED
  BY <1>1, <1>2, <1>3 DEF IInv

-----------------------------------------------------------------------------
(* Types.                                                                  *)

\* Every step keeps the types,
LEMMA TypeStep == RiskTypeOK /\ Served /\ [RiskNext]_riskVars => RiskTypeOK'
<1> SUFFICES ASSUME RiskTypeOK, Served, [RiskNext]_riskVars PROVE RiskTypeOK'
  OBVIOUS
<1> USE DEF store, check, riskHistory
<1>1. ASSUME NEW t \in Thread, NEW p \in Process, Arrive(t, p) PROVE RiskTypeOK'
  BY <1>1, TodayType DEF Arrive, RiskTypeOK
<1>2. ASSUME NEW t \in Thread, NEW reads \in 0..2, Record(t, reads) PROVE RiskTypeOK'
  <2>1. proc[t] \in Process
    BY <1>2 DEF Record, Served
  <2>2. up' \in BOOLEAN /\ faults' \in 0..MaxFaults /\ engine' \in [Process -> Fields]
    BY <1>2, <2>1, CopyType DEF Record
  <2>3. alone' \in [Thread -> BOOLEAN]
    BY <1>2 DEF Record, RiskTypeOK, Deciding
  <2> QED
    BY <1>2, <2>2, <2>3 DEF Record, RiskTypeOK, Fields
<1>3. ASSUME NEW t \in Thread, NEW reads \in 0..2, Sync(t, reads) PROVE RiskTypeOK'
  <2>1. proc[t] \in Process
    BY <1>3 DEF Sync, Served
  <2>2. up' \in BOOLEAN /\ faults' \in 0..MaxFaults /\ engine' \in [Process -> Fields]
    BY <1>3, <2>1, CopyType DEF Sync
  <2>3. alone' \in [Thread -> BOOLEAN] /\ due' \in [Thread -> SUBSET Limits]
    BY <1>3 DEF Sync, RiskTypeOK, Deciding
  <2> QED
    BY <1>3, <2>2, <2>3 DEF Sync, RiskTypeOK, Fields
<1>4. ASSUME NEW t \in Thread, NEW pass \in BOOLEAN, DecideNew(t, pass) PROVE RiskTypeOK'
  <2> DEFINE f == RolledOver(engine[proc[t]], DayAt(asof[t]))
             allowed == pass /\ WithinLimits(f, asof[t])
  <2>1. proc[t] \in Process /\ engine \in [Process -> Fields]
    BY <1>4 DEF DecideNew, Served, RiskTypeOK, Fields
  <2>2. asof[t] \in Nat /\ f \in Fields
    BY <2>1, StampType, RolledOverType
  <2>3. engine' \in [Process -> Fields]
    <3>1. [f EXCEPT !.last = asof[t]] \in Fields
      BY <2>2 DEF Fields
    <3> HIDE DEF f, allowed
    <3>2. engine' = [engine EXCEPT ![proc[t]] = IF allowed THEN [f EXCEPT !.last = asof[t]] ELSE f]
      BY <1>4 DEF DecideNew, f, allowed
    <3> QED
      BY <2>1, <2>2, <3>1, <3>2
  <2>4. last' \in Nat /\ approved' \in Nat
    BY <1>4, <2>2 DEF DecideNew, Published, RiskTypeOK
  <2>5. breach' \subseteq Limits
    <3>1. due[t] \subseteq Limits /\ breach \subseteq Limits
      BY DEF RiskTypeOK
    <3>2. breach' = breach \cup due[t] \/ breach' = breach
      BY <1>4 DEF DecideNew
    <3> QED
      BY <3>1, <3>2
  <2>6. Finish(t) /\ UNCHANGED <<riskMode, now, up, pnl, truth, told, fills, faults>>
    BY <1>4 DEF DecideNew
  <2> QED
    BY <2>3, <2>4, <2>5, <2>6, FinishType DEF RiskTypeOK, Fields
<1>5. ASSUME NEW t \in Thread, DecideReduction(t) PROVE RiskTypeOK'
  <2>1. proc[t] \in Process /\ engine \in [Process -> Fields]
    BY <1>5 DEF DecideReduction, Served, RiskTypeOK, Fields
  <2>2. RolledOver(engine[proc[t]], DayAt(asof[t])) \in Fields
    BY <2>1, StampType, RolledOverType
  <2>3. engine' \in [Process -> Fields]
    BY <1>5, <2>1, <2>2 DEF DecideReduction
  <2> QED
    BY <1>5, <2>3, FinishType DEF DecideReduction, RiskTypeOK, Fields
<1>6. ASSUME NEW value \in Realized, RecordPnl(value) PROVE RiskTypeOK'
  <2>1. Today \in Day /\ value \in Int
    BY TodayType, RiskAssumption DEF RiskAssumption
  <2>2. truth' \in [Day -> Int] /\ told' \in [Day -> Int] /\ pnl' \in [Day -> Int]
    BY <1>6, <2>1 DEF RecordPnl, Recorded, RiskTypeOK
  <2>3. fills' \in 0..MaxFills
    BY <1>6, RiskAssumption DEF RecordPnl, RiskTypeOK, RiskAssumption
  <2> QED
    BY <1>6, <2>2, <2>3 DEF RecordPnl, RiskTypeOK
<1>7. ASSUME NEW p \in Process, NEW reads \in 0..2, GetStatus(p, reads) PROVE RiskTypeOK'
  <2>1. up' \in BOOLEAN /\ faults' \in 0..MaxFaults /\ engine' \in [Process -> Fields]
    BY <1>7, CopyType DEF GetStatus
  <2>2. alone' \in [Thread -> BOOLEAN]
    BY <1>7 DEF GetStatus, RiskTypeOK, Deciding
  <2> QED
    BY <1>7, <2>1, <2>2 DEF GetStatus, RiskTypeOK, Fields
<1>8. ASSUME NEW p \in Process, RestartProcess(p) PROVE RiskTypeOK'
  <2>1. faults' \in 0..MaxFaults
    BY <1>8, RiskAssumption DEF RestartProcess, RiskTypeOK, RiskAssumption
  <2>2. engine' \in [Process -> Fields]
    BY <1>8 DEF RestartProcess, RiskTypeOK, NewEngine, Fields
  <2>3. /\ stage' \in [Thread -> {"idle", "stamped", "recorded", "decide"}]
        /\ proc' \in [Thread -> Process \cup {NoProcess}] /\ asof' \in [Thread -> Nat]
        /\ due' \in [Thread -> SUBSET Limits] /\ alone' \in [Thread -> BOOLEAN]
    BY <1>8 DEF RestartProcess, RiskTypeOK
  <2> QED
    BY <1>8, <2>1, <2>2, <2>3 DEF RestartProcess, RiskTypeOK, Fields
<1>9. CASE RedisDown
  <2>1. faults \in 0..MaxFaults /\ MaxFaults \in Nat
    BY RiskAssumption DEF RiskTypeOK, RiskAssumption
  <2>2. faults < MaxFaults /\ faults' = faults + 1 /\ up' = FALSE
    BY <1>9 DEF RedisDown
  <2>3. faults' \in 0..MaxFaults
    BY <2>1, <2>2
  <2>4. up' \in BOOLEAN
    BY <2>2, Zenon
  <2>5. UNCHANGED <<riskMode, now, store, engine, check, riskHistory, fills>>
    BY <1>9 DEF RedisDown
  <2> QED
    BY <2>3, <2>4, <2>5 DEF RiskTypeOK
<1>10. CASE RedisUp
  BY <1>10 DEF RedisUp, RiskTypeOK
<1>11. CASE Tick
  BY <1>11, RiskAssumption DEF Tick, RiskTypeOK, RiskAssumption
<1>12. CASE UNCHANGED riskVars
  BY <1>12 DEF riskVars, RiskTypeOK
<1> HIDE DEF store, check, riskHistory
<1> QED
  BY <1>1, <1>2, <1>3, <1>4, <1>5, <1>6, <1>7, <1>8, <1>9, <1>10, <1>11, <1>12 DEF RiskNext

-----------------------------------------------------------------------------
(* One lemma per part of the invariant.                                    *)

\* the agreement of Redis with what has been told to it,
LEMMA StoreKeptStep == RiskTypeOK /\ StoreKept /\ [RiskNext]_riskVars => StoreKept'
<1> SUFFICES ASSUME RiskTypeOK, StoreKept, [RiskNext]_riskVars PROVE StoreKept'
  OBVIOUS
<1> USE DEF StoreKept, store, check, riskHistory
<1>1. ASSUME NEW t \in Thread, NEW p \in Process, Arrive(t, p) PROVE StoreKept'
  BY <1>1 DEF Arrive
<1>2. ASSUME NEW t \in Thread, NEW reads \in 0..2, Record(t, reads) \/ Sync(t, reads) PROVE StoreKept'
  BY <1>2 DEF Record, Sync
<1>3. ASSUME NEW t \in Thread, NEW pass \in BOOLEAN, DecideNew(t, pass) PROVE StoreKept'
  BY <1>3 DEF DecideNew, Published
<1>4. ASSUME NEW t \in Thread, DecideReduction(t) PROVE StoreKept'
  BY <1>4 DEF DecideReduction
<1>5. ASSUME NEW value \in Realized, RecordPnl(value) PROVE StoreKept'
  BY <1>5, RiskAssumption DEF RecordPnl, Recorded
<1>6. ASSUME NEW p \in Process, NEW reads \in 0..2, GetStatus(p, reads) PROVE StoreKept'
  BY <1>6 DEF GetStatus
<1>7. ASSUME NEW p \in Process, RestartProcess(p) PROVE StoreKept'
  BY <1>7 DEF RestartProcess
<1>8. CASE RedisDown \/ RedisUp \/ Tick
  BY <1>8 DEF RedisDown, RedisUp, Tick
<1>9. CASE UNCHANGED riskVars
  BY <1>9 DEF riskVars
<1> HIDE DEF StoreKept, store, check, riskHistory
<1> QED
  BY <1>1, <1>2, <1>3, <1>4, <1>5, <1>6, <1>7, <1>8, <1>9 DEF RiskNext

\* the process that serves a thread,
LEMMA ServedStep == RiskTypeOK /\ Served /\ [RiskNext]_riskVars => Served'
<1> SUFFICES ASSUME RiskTypeOK, Served, [RiskNext]_riskVars PROVE Served'
  OBVIOUS
<1>0. now \in Nat /\ asof \in [Thread -> Nat]
  BY TodayType DEF RiskTypeOK
<1> USE DEF Served, store, check, riskHistory
<1>1. ASSUME NEW t \in Thread, NEW p \in Process, Arrive(t, p) PROVE Served'
  BY <1>0, <1>1 DEF Arrive, RiskTypeOK
<1>2. ASSUME NEW t \in Thread, NEW reads \in 0..2, Record(t, reads) \/ Sync(t, reads) PROVE Served'
  BY <1>2 DEF Record, Sync, RiskTypeOK
<1>3. ASSUME NEW t \in Thread, Finish(t), now' = now PROVE Served'
  BY <1>0, <1>3 DEF Finish, RiskTypeOK
<1>4. ASSUME NEW t \in Thread, NEW pass \in BOOLEAN, DecideNew(t, pass) \/ DecideReduction(t) PROVE Served'
  BY <1>3, <1>4 DEF DecideNew, DecideReduction
<1>5. ASSUME NEW value \in Realized, RecordPnl(value) PROVE Served'
  BY <1>5 DEF RecordPnl
<1>6. ASSUME NEW p \in Process, NEW reads \in 0..2, GetStatus(p, reads) PROVE Served'
  BY <1>6 DEF GetStatus
<1>7. ASSUME NEW p \in Process, RestartProcess(p) PROVE Served'
  BY <1>0, <1>7 DEF RestartProcess, RiskTypeOK
<1>8. CASE RedisDown \/ RedisUp
  BY <1>8 DEF RedisDown, RedisUp
<1>9. CASE Tick
  BY <1>0, <1>9 DEF Tick
<1>10. CASE UNCHANGED riskVars
  BY <1>10 DEF riskVars
<1> HIDE DEF Served, store, check, riskHistory
<1> QED
  BY <1>1, <1>2, <1>4, <1>5, <1>6, <1>7, <1>8, <1>9, <1>10 DEF RiskNext

\* and at most one undisturbed thread in a process.
LEMMA AloneStep == RiskTypeOK /\ AloneDecides /\ [RiskNext]_riskVars => AloneDecides'
<1> SUFFICES ASSUME RiskTypeOK, AloneDecides, [RiskNext]_riskVars PROVE AloneDecides'
  OBVIOUS
<1> USE DEF AloneDecides, Deciding, store, check, riskHistory
<1>1. ASSUME NEW t \in Thread, NEW p \in Process, Arrive(t, p) PROVE AloneDecides'
  BY <1>1 DEF Arrive, RiskTypeOK
<1>2. ASSUME NEW t \in Thread, NEW reads \in 0..2, Record(t, reads) PROVE AloneDecides'
  BY <1>2 DEF Record, RiskTypeOK
<1>3. ASSUME NEW t \in Thread, NEW reads \in 0..2, Sync(t, reads) PROVE AloneDecides'
  BY <1>3 DEF Sync, RiskTypeOK
<1>4. ASSUME NEW t \in Thread, Finish(t) PROVE AloneDecides'
  BY <1>4 DEF Finish, RiskTypeOK
<1>5. ASSUME NEW t \in Thread, NEW pass \in BOOLEAN, DecideNew(t, pass) \/ DecideReduction(t)
      PROVE AloneDecides'
  BY <1>4, <1>5 DEF DecideNew, DecideReduction
<1>6. ASSUME NEW value \in Realized, RecordPnl(value) PROVE AloneDecides'
  BY <1>6 DEF RecordPnl
<1>7. ASSUME NEW p \in Process, NEW reads \in 0..2, GetStatus(p, reads) PROVE AloneDecides'
  BY <1>7 DEF GetStatus, RiskTypeOK
<1>8. ASSUME NEW p \in Process, RestartProcess(p) PROVE AloneDecides'
  BY <1>8 DEF RestartProcess, RiskTypeOK
<1>9. CASE RedisDown \/ RedisUp \/ Tick
  BY <1>9 DEF RedisDown, RedisUp, Tick
<1>10. CASE UNCHANGED riskVars
  BY <1>10 DEF riskVars
<1> HIDE DEF AloneDecides, Deciding, store, check, riskHistory
<1> QED
  BY <1>1, <1>2, <1>3, <1>5, <1>6, <1>7, <1>8, <1>9, <1>10 DEF RiskNext

-----------------------------------------------------------------------------
(* What t is due to see stays in its engine until it decides.              *)

\* t decides after the step as it would have before it, and its engine is as
\* it was.
Undisturbed(t) ==
    /\ stage[t] = "decide" /\ alone[t]
    /\ due'[t] = due[t] /\ asof'[t] = asof[t] /\ proc'[t] = proc[t]
    /\ engine'[proc[t]] = engine[proc[t]]

\* The second copy of t, while nobody else in its process decides.
Copied(t) ==
    \E reads \in 0..2 : stage[t] = "recorded" /\ Sync(t, reads)

\* Whoever stands between copy and decision alone after a step has just
\* copied, or the step left it undisturbed.
LEMMA Deciders ==
  ASSUME RiskTypeOK, Served, AloneDecides, [RiskNext]_riskVars,
         NEW t \in Thread, stage'[t] = "decide", alone'[t]
  PROVE  Undisturbed(t) \/ Copied(t)
<1> USE DEF Undisturbed, store, check, riskHistory
<1>0. engine \in [Process -> Fields] /\ proc \in [Thread -> Process \cup {NoProcess}]
  BY DEF RiskTypeOK, Fields
<1>1. ASSUME NEW u \in Thread, NEW p \in Process, Arrive(u, p) PROVE Undisturbed(t)
  BY <1>1 DEF Arrive, RiskTypeOK
<1>2. ASSUME NEW u \in Thread, NEW reads \in 0..2, Record(u, reads) PROVE Undisturbed(t)
  <2>1. u # t /\ stage[t] = "decide" /\ alone[t] /\ proc[t] # proc[u]
    BY <1>2 DEF Record, Deciding, RiskTypeOK
  <2>2. proc[t] \in Process /\ proc[u] \in Process
    BY <1>2, <2>1 DEF Record, Served
  <2>3. engine'[proc[t]] = engine[proc[t]]
    BY <1>0, <1>2, <2>1, <2>2 DEF Record, Copy
  <2> QED
    BY <1>2, <2>1, <2>3 DEF Record
<1>3. ASSUME NEW u \in Thread, NEW reads \in 0..2, Sync(u, reads) PROVE Undisturbed(t) \/ Copied(t)
  <2>1. CASE u = t
    BY <1>3, <2>1 DEF Copied, Sync
  <2>2. CASE u # t
    <3>1. stage[t] = "decide" /\ alone[t] /\ proc[t] # proc[u]
      BY <1>3, <2>2 DEF Sync, Deciding, RiskTypeOK
    <3>2. proc[t] \in Process /\ proc[u] \in Process
      BY <1>3, <3>1 DEF Sync, Served
    <3>3. engine'[proc[t]] = engine[proc[t]]
      BY <1>0, <1>3, <3>1, <3>2 DEF Sync, Copy
    <3>4. due'[t] = due[t]
      BY <1>3, <2>2 DEF Sync, RiskTypeOK
    <3> QED
      BY <1>3, <3>1, <3>3, <3>4 DEF Sync
  <2> QED
    BY <2>1, <2>2
<1>4. ASSUME NEW u \in Thread, stage[u] = "decide", Finish(u),
             \E f \in Fields : engine' = [engine EXCEPT ![proc[u]] = f]
      PROVE  Undisturbed(t)
  <2>1. u # t /\ stage[t] = "decide" /\ alone[t]
    BY <1>4 DEF Finish, RiskTypeOK
  <2>2. proc[t] # proc[u] /\ proc[t] \in Process /\ proc[u] \in Process
    BY <1>4, <2>1 DEF AloneDecides, Served
  <2> QED
    BY <1>0, <1>4, <2>1, <2>2 DEF Finish, RiskTypeOK
<1>5. ASSUME NEW u \in Thread, NEW pass \in BOOLEAN, DecideNew(u, pass) \/ DecideReduction(u)
      PROVE  Undisturbed(t)
  <2>1. stage[u] = "decide" /\ proc[u] \in Process /\ Finish(u)
    BY <1>5 DEF DecideNew, DecideReduction, Served
  <2> DEFINE f == RolledOver(engine[proc[u]], DayAt(asof[u]))
             g == [f EXCEPT !.last = asof[u]]
  <2>2. f \in Fields /\ asof[u] \in Nat
    BY <1>0, <2>1, StampType, RolledOverType
  <2>3. g \in Fields
    BY <2>2 DEF Fields
  <2>4. engine' = [engine EXCEPT ![proc[u]] = f] \/ engine' = [engine EXCEPT ![proc[u]] = g]
    BY <1>5 DEF DecideNew, DecideReduction
  <2> HIDE DEF f, g
  <2> QED
    BY <1>4, <2>1, <2>2, <2>3, <2>4
<1>6. ASSUME NEW value \in Realized, RecordPnl(value) PROVE Undisturbed(t)
  BY <1>6 DEF RecordPnl
<1>7. ASSUME NEW p \in Process, NEW reads \in 0..2, GetStatus(p, reads) PROVE Undisturbed(t)
  <2>1. stage[t] = "decide" /\ alone[t] /\ proc[t] # p
    BY <1>7 DEF GetStatus, Deciding, RiskTypeOK
  <2>2. proc[t] \in Process
    BY <2>1 DEF Served
  <2>3. engine'[proc[t]] = engine[proc[t]]
    BY <1>0, <1>7, <2>1, <2>2 DEF GetStatus, Copy
  <2> QED
    BY <1>7, <2>1, <2>3 DEF GetStatus
<1>8. ASSUME NEW p \in Process, RestartProcess(p) PROVE Undisturbed(t)
  <2>1. stage[t] = "decide" /\ proc[t] # p /\ alone[t]
    BY <1>8 DEF RestartProcess, RiskTypeOK
  <2>2. proc[t] \in Process
    BY <2>1 DEF Served
  <2>3. engine'[proc[t]] = engine[proc[t]]
    BY <1>0, <1>8, <2>1, <2>2 DEF RestartProcess
  <2> QED
    BY <1>8, <2>1, <2>3 DEF RestartProcess, RiskTypeOK
<1>9. CASE RedisDown \/ RedisUp \/ Tick
  BY <1>9 DEF RedisDown, RedisUp, Tick
<1>10. CASE UNCHANGED riskVars
  BY <1>10 DEF riskVars
<1> HIDE DEF Undisturbed, store, check, riskHistory
<1> QED
  BY <1>1, <1>2, <1>3, <1>5, <1>6, <1>7, <1>8, <1>9, <1>10 DEF RiskNext

\* What the second copy finds due is in the engine after it.
LEMMA CopiedSees ==
  ASSUME RiskTypeOK, StoreKept, Served, NEW t \in Thread, Copied(t)
  PROVE  /\ proc'[t] = proc[t] /\ asof'[t] = asof[t] /\ riskMode' = riskMode
         /\ "toldLoss" \in due'[t] => /\ engine'[proc[t]].day = DayAt(asof[t])
                                      /\ engine'[proc[t]].pnl < -MaxLoss
         /\ "cooldown" \in due'[t] => /\ riskMode = "live" /\ engine'[proc[t]].last > 0
                                      /\ asof[t] - engine'[proc[t]].last < Cooldown
<1>1. PICK reads \in 0..2 : stage[t] = "recorded" /\ Sync(t, reads)
  BY DEF Copied
<1>2. proc[t] \in Process
  BY <1>1 DEF Served
<1>3. Copy(proc[t], reads)
  BY <1>1 DEF Sync
<1>4. engine'[proc[t]] = Synced(engine[proc[t]], reads)
  BY <1>2, <1>3, CopyType
<1>5. due'[t] = {b \in Limits : Forbids(b, t, reads)}
  BY <1>1 DEF Sync, RiskTypeOK
<1>6. Today \in Day /\ last \in Nat /\ approved \in Nat
  BY TodayType DEF RiskTypeOK
<1>7. ASSUME "toldLoss" \in due'[t]
      PROVE  engine'[proc[t]].day = DayAt(asof[t]) /\ engine'[proc[t]].pnl < -MaxLoss
  <2>1. reads >= 1 /\ told[Today] < -MaxLoss /\ DayAt(asof[t]) = Today
    BY <1>5, <1>7 DEF Forbids
  <2> QED
    BY <1>4, <2>1 DEF Synced, StoreKept
<1>8. ASSUME "cooldown" \in due'[t]
      PROVE  /\ riskMode = "live" /\ engine'[proc[t]].last > 0
             /\ asof[t] - engine'[proc[t]].last < Cooldown
  <2>1. reads = 2 /\ riskMode = "live" /\ approved > 0 /\ asof[t] - approved < Cooldown
    BY <1>5, <1>8 DEF Forbids
  <2>2. engine'[proc[t]].last = approved
    BY <1>4, <1>6, <2>1 DEF Synced, StoreKept
  <2> QED
    BY <2>1, <2>2
<1> QED
  BY <1>1, <1>7, <1>8 DEF Sync, check

\* An undisturbed thread goes on seeing what it has copied.
LEMMA SeenStep ==
  RiskTypeOK /\ StoreKept /\ Served /\ AloneDecides /\ LossSeen /\ CooldownSeen /\ [RiskNext]_riskVars
    => LossSeen' /\ CooldownSeen'
<1> SUFFICES ASSUME RiskTypeOK, StoreKept, Served, AloneDecides, LossSeen, CooldownSeen, [RiskNext]_riskVars
             PROVE  LossSeen' /\ CooldownSeen'
  OBVIOUS
<1>1. SUFFICES ASSUME NEW t \in Thread, stage'[t] = "decide", alone'[t]
               PROVE  /\ "toldLoss" \in due'[t] =>
                            /\ engine'[proc'[t]].day = DayAt(asof'[t])
                            /\ engine'[proc'[t]].pnl < -MaxLoss
                      /\ "cooldown" \in due'[t] =>
                            /\ riskMode' = "live" /\ engine'[proc'[t]].last > 0
                            /\ asof'[t] - engine'[proc'[t]].last < Cooldown
  BY DEF LossSeen, CooldownSeen, DayAt
<1>2. riskMode' = riskMode
  BY DEF RiskNext, riskVars, Arrive, Record, Sync, DecideNew, DecideReduction, RecordPnl, GetStatus,
     RestartProcess, RedisDown, RedisUp, Tick
<1>3. CASE Copied(t)
  BY <1>3, CopiedSees
<1>4. CASE Undisturbed(t)
  BY <1>1, <1>2, <1>4 DEF Undisturbed, LossSeen, CooldownSeen
<1> QED
  BY <1>1, <1>3, <1>4, Deciders

\* An engine that shows the loss of the order's day, or an approval within the
\* cooldown of the order, is beyond its limits.
LEMMA BeyondLimits ==
  ASSUME RiskTypeOK, Served, NEW t \in Thread, stage[t] = "decide",
         \/ /\ engine[proc[t]].day = DayAt(asof[t])
            /\ engine[proc[t]].pnl < -MaxLoss
         \/ /\ riskMode = "live" /\ engine[proc[t]].last > 0
            /\ asof[t] - engine[proc[t]].last < Cooldown
  PROVE  ~WithinLimits(RolledOver(engine[proc[t]], DayAt(asof[t])), asof[t])
<1> DEFINE e == engine[proc[t]]
           f == RolledOver(e, DayAt(asof[t]))
<1>1. e \in Fields /\ asof[t] \in Nat /\ DayAt(asof[t]) \in Day
  BY StampType DEF Served, RiskTypeOK, Fields
<1>2. f \in Fields /\ f.last = e.last
  BY <1>1, RolledOverType
<1>3. CASE e.day = DayAt(asof[t]) /\ e.pnl < -MaxLoss
  <2>1. f = e
    BY <1>3 DEF RolledOver
  <2> QED
    BY <1>1, <1>3, <2>1, RiskAssumption DEF WithinLimits, Fields, RiskAssumption
<1>4. CASE riskMode = "live" /\ e.last > 0 /\ asof[t] - e.last < Cooldown
  <2> HIDE DEF f
  <2> QED
    BY <1>1, <1>2, <1>4, RiskAssumption DEF WithinLimits, Fields, RiskAssumption, f
<1> QED
  BY <1>3, <1>4

\* The invariant lets no decision breach a limit.
LEMMA LimitsStep == IInv /\ [RiskNext]_riskVars => LossLimitShared' /\ CooldownShared'
<1> SUFFICES ASSUME IInv, [RiskNext]_riskVars PROVE LossLimitShared' /\ CooldownShared'
  OBVIOUS
<1>1. ASSUME NEW t \in Thread, NEW pass \in BOOLEAN, DecideNew(t, pass)
      PROVE  LossLimitShared' /\ CooldownShared'
  <2>1. CASE breach' = breach
    BY <2>1 DEF IInv, LossLimitShared, CooldownShared
  <2>2. CASE /\ breach' = breach \cup due[t] /\ alone[t]
             /\ WithinLimits(RolledOver(engine[proc[t]], DayAt(asof[t])), asof[t])
    <3>1. stage[t] = "decide"
      BY <1>1 DEF DecideNew
    <3>2. "toldLoss" \notin due[t]
      BY <2>2, <3>1, BeyondLimits DEF IInv, LossSeen
    <3>3. "cooldown" \notin due[t]
      BY <2>2, <3>1, BeyondLimits DEF IInv, CooldownSeen
    <3> QED
      BY <2>2, <3>2, <3>3 DEF IInv, LossLimitShared, CooldownShared
  <2> QED
    BY <1>1, <2>1, <2>2 DEF DecideNew
<1>2. CASE breach' = breach
  BY <1>2 DEF IInv, LossLimitShared, CooldownShared
<1> QED
  BY <1>1, <1>2 DEF RiskNext, riskVars, riskHistory, Arrive, Record, Sync, DecideReduction, RecordPnl,
     GetStatus, RestartProcess, RedisDown, RedisUp, Tick

\* The invariant holds in every run.
THEOREM Invariance == RiskSpec => []IInv
<1>1. IInv /\ [RiskNext]_riskVars => IInv'
  BY TypeStep, StoreKeptStep, ServedStep, AloneStep, SeenStep, LimitsStep DEF IInv
<1> QED
  BY InitInv, <1>1, PTL DEF RiskSpec

\* Every variable holds a value of its type: the engines' P&L belongs to a day
\* of the run or to none.
THEOREM TypeCorrect == RiskSpec => []RiskTypeOK
  BY Invariance, PTL DEF IInv

\* A check that reads the shared P&L allows no new exposure on a day whose
\* told losses are beyond the limit.
THEOREM SharedLossRefuses == RiskSpec => []LossLimitShared
  BY Invariance, PTL DEF IInv

\* A check that reads the shared time of the last approval allows no live
\* exposure within its cooldown.
THEOREM SharedCooldownRefuses == RiskSpec => []CooldownShared
  BY Invariance, PTL DEF IInv
=============================================================================
