---------------------------- MODULE IngestProofs ----------------------------
(***************************************************************************)
(* For any workers, lists and units, any windows and page sizes: what the  *)
(* ledger calls a success is complete, histories have no hole but those of *)
(* an outage, and every sanctions change is on record or was dropped.      *)
(* Workers may overlap, stop between any two calls and forget.             *)
(*                                                                         *)
(* Ledger.  A run under way is on a row of its own, which nobody has       *)
(* closed; closed rows are numbered in the order they were closed          *)
(* (LedgerInv).                                                            *)
(*                                                                         *)
(* Success.  A run of a list has saved its entries up to those left over   *)
(* (SoFar); a run of units that is not partial has answered for those it   *)
(* does not still ask for (Answering).  So a row that becomes a success is *)
(* whole (CompleteInv).                                                    *)
(*                                                                         *)
(* Holes.  The funding rows of a coin are an interval, and the page a run  *)
(* writes goes on from what is held or fills a hole-free stretch of it,    *)
(* also when another run has written in between (Paged, Adjoins).  Of each *)
(* symbol whose bars it read to the end, a run holds what the window had   *)
(* when it began (Seen), and so does its closed row (Read).                *)
(*                                                                         *)
(* Changes.  What a worker remembers is a published list, and whatever it   *)
(* has otherwise than its last success is told by the changes that are     *)
(* recorded, dropped or still to be saved (Knows).  A run that succeeds    *)
(* has saved the list it remembers, so the telling is complete (OnRecord). *)
(***************************************************************************)
EXTENDS Ingest, FiniteSetTheorems, WellFoundedInduction, TLAPS

-----------------------------------------------------------------------------
(* The invariant.                                                          *)

\* Types: units, lists and changes, rows of the ledger, runs under way.
AllUnits == UNION {UnitsOf(s) : s \in SourceNames}
Histories == {"funding", "bars"}
Listed == Lists \cup {NoList}
ChangeType == {Change(u, before, after) : u \in Uids, before \in Lists, after \in Lists}

RunType == [source : SourceNames, worker : Workers, start : Nat, at : Nat, order : Nat,
            status : {"running", "absent", "skipped_lease", "success", "partial", "failure"},
            done : SUBSET AllUnits]
ContextType == [outcome : {"unset", "success", "failure"}, partial : BOOLEAN,
                received : BOOLEAN, persisted : BOOLEAN]
JobType == [source : SourceNames, run : Nat, ctx : ContextType, phase : {"fetch", "save"},
            units : Seq(AllUnits), rows : SUBSET (Nat \cup Uids), list : Listed,
            found : SUBSET ChangeType, done : SUBSET AllUnits]

IngestTyped ==
    /\ tick \in Nat
    /\ published \in Seq(Lists) /\ published # <<>>
    /\ runs \in Seq(RunType)
    /\ changes \subseteq ChangeType /\ dropped \subseteq ChangeType
    /\ DOMAIN series = Histories /\ series = [s \in Histories |-> series[s]]
    /\ \A s \in Histories : series[s] \in [UnitsOf(s) -> SUBSET Nat]
    /\ aggregate \in [by : Nat, failed : Int]
    /\ baseline \in [Workers -> Listed]
    /\ running \in [Workers -> JobType \cup {Idle}]

\* A run under way is on its worker's ledger row, which nobody has closed.
Open(w) ==
    LET i == running[w].run IN
    /\ i \in DOMAIN runs
    /\ runs[i].source = running[w].source /\ runs[i].worker = w
    /\ runs[i].status \in {"running", "absent"} /\ runs[i].order = 0
    /\ tick \in {runs[i].start, runs[i].start + 1}

\* A run asks for units of its source and has read rows of one of them.
Asks(j) ==
    /\ \A i \in DOMAIN j.units : j.units[i] \in UnitsOf(j.source)
    /\ j.done \subseteq UnitsOf(j.source)
    /\ IF j.source = "ofac" THEN j.rows \subseteq Uids ELSE j.rows \subseteq Nat
    /\ j.source # "ofac" =>
         (j.phase = "save" <=> j.rows # {}) /\ (j.phase = "save" => j.units # <<>>)

\* Where every worker stands, and the order in which rows were closed.
UnderWay == \A w \in Workers : running[w] # Idle => Open(w) /\ Asks(running[w])
Numbered ==
    /\ \A i \in DOMAIN runs : runs[i].order <= Completed
    /\ \A i, k \in DOMAIN runs : runs[i].order = runs[k].order => i = k \/ runs[i].order = 0
    /\ \A i \in DOMAIN runs : runs[i].order = 0 <=> runs[i].status \in {"running", "absent", "skipped_lease"}

LedgerInv == UnderWay /\ Numbered

\* A list that was published.
Publishes(L) == \E k \in DOMAIN published : published[k] = L

\* What is saved of run i is the records of the entries S of L.
Keeps(i, L, S) ==
    /\ \A r \in saved : r[1] = i => \E u \in S : r = <<i, u, L[u]>>
    /\ \A u \in S : <<i, u, L[u]>> \in saved

\* A run of a list has saved what is not left over,
SoFar(w) ==
    LET j == running[w] IN
    j.source = "ofac" =>
       IF j.phase = "fetch" THEN \A r \in saved : r[1] # j.run
       ELSE /\ j.list \in Lists /\ Publishes(j.list) /\ j.rows \subseteq DOMAIN j.list
            /\ Recorded(w) => Keeps(j.run, j.list, DOMAIN j.list \ j.rows)

\* a run that is not partial has answered for what it no longer asks for,
Answering(w) ==
    LET j == running[w] IN
    j.source \in {"bars", "tariffs"} /\ ~j.ctx.partial =>
       \A u \in UnitsOf(j.source) : u \in j.done \/ \E i \in DOMAIN j.units : j.units[i] = u

\* and a success for everything.
Stored(i) == \E L \in Lists : Publishes(L) /\ Keeps(i, L, DOMAIN L)
Whole(i) ==
    runs[i].status = "success" =>
       /\ runs[i].source = "ofac" => Stored(i)
       /\ runs[i].source \in {"bars", "tariffs"} => runs[i].done = UnitsOf(runs[i].source)

\* Records and the aggregate are of runs in the ledger, the latter of one that ended.
SavedOnly == \A r \in saved : r[1] \in DOMAIN runs
Aggregated ==
    aggregate.by # 0 =>
       /\ aggregate.by \in DOMAIN runs
       /\ runs[aggregate.by].status \in {"success", "partial", "running", "absent"}
       /\ \A w \in Workers : running[w] # Idle => running[w].run # aggregate.by
CompleteInv ==
    /\ \A w \in Workers : SoFar(w) /\ Answering(w)
    /\ \A i \in DOMAIN runs : Whole(i)
    /\ SavedOnly /\ Aggregated

\* Intervals, and the first time a coin is asked for.
Convex(S) == \A a, b \in S : a .. b \subseteq S
From(T) == IF T - Bootstrap >= 1 THEN T - Bootstrap ELSE 1
First(S, t) == t \in S /\ \A x \in S : t <= x
Saving(w, s) == running[w].source = s /\ running[w].phase = "save"
Started(w) == runs[running[w].run].start

\* Rows are of times that have come, funding rates without a hole.
Within == \A s \in Histories : \A u \in UnitsOf(s) : series[s][u] \subseteq 1..tick
FundingWhole == \A u \in UnitsOf("funding") : Convex(series["funding"][u])

\* Where a row may go that leaves no hole.
Adjoins(held, t, start) ==
    IF held = {} THEN t = From(tick) \/ (start # tick /\ t = From(tick - 1))
    ELSE \E a, b \in held : a - 1 <= t /\ t <= b + 1

\* The page that is being written begins there.
Paged(w) ==
    Saving(w, "funding") =>
       /\ Convex(running[w].rows)
       /\ \A t \in running[w].rows :
             First(running[w].rows, t) => Adjoins(series["funding"][Head(running[w].units)], t, Started(w))

\* The bars of u that a run from start to at has seen are held, or are among rows.
Held(u, at, start, rows) == \A t \in 1 .. start : at - Window <= t => t \in series["bars"][u] \cup rows
Seen(w) ==
    running[w].source = "bars" =>
       /\ \A u \in running[w].done : Held(u, tick, Started(w), {})
       /\ running[w].phase = "save" => Held(Head(running[w].units), tick, Started(w), running[w].rows)
InTime(w) == running[w].source \in Histories => running[w].rows \subseteq 1..tick
Read(i) ==
    runs[i].source = "bars" =>
       \A u \in runs[i].done : u \in UnitsOf("bars") /\ Held(u, runs[i].at, runs[i].start, {})
GapInv ==
    /\ Within /\ FundingWhole
    /\ \A w \in Workers : InTime(w) /\ Paged(w) /\ Seen(w)
    /\ \A i \in DOMAIN runs : Read(i)

\* A change there was, and the last success.
Real(c) == \E i, k \in DOMAIN published : i < k /\ published[i] = c.before /\ published[k] = c.after
Last(i) == i \in Successes /\ \A k \in Successes : runs[k].order <= runs[i].order

\* The changes S tell of every entry of L that M has otherwise.
Told(L, M, S) == \A u \in Uids : At(L, u) # At(M, u) => \E c \in S : c.uid = u /\ c.to = At(M, u)

\* What a run has found and not yet saved, and what its worker remembers.
Found(w) == IF Saving(w, "ofac") THEN running[w].found ELSE {}
Mem(w) ==
    /\ baseline[w] # NoList => Publishes(baseline[w])
    /\ Saving(w, "ofac") => running[w].list = baseline[w]
    /\ \A c \in Found(w) : Real(c)

\* The steps from a worker's last success to what it remembers are told,
Knows(w) ==
    \A i \in Successes : Last(i) /\ runs[i].worker = w /\ baseline[w] # NoList =>
        Told(RecordsOf(i), baseline[w], changes \cup dropped \cup Found(w))

\* and so are those between its successive successes.
Successive(i, k) ==
    /\ runs[i].worker = runs[k].worker /\ runs[i].order < runs[k].order
    /\ \A m \in Successes : runs[m].order \notin (runs[i].order + 1) .. (runs[k].order - 1)
OnRecord == \A i, k \in Successes : Successive(i, k) => Told(RecordsOf(i), RecordsOf(k), changes \cup dropped)
ChangeInv ==
    /\ \A w \in Workers : Mem(w) /\ Knows(w)
    /\ \A c \in changes : Real(c)
    /\ OnRecord

-----------------------------------------------------------------------------
(* Types and the ledger.                                                   *)

Outcome == {"success", "partial", "failure"}
\* The steps of a run, as the ledger sees them.
Ends(w, st) == running[w] # Idle /\ st \in Outcome /\ FinishRun(w, st)
Advances(w, j) ==
    /\ running[w] # Idle /\ Go(w, j)
    /\ j \in JobType /\ j.source = running[w].source /\ j.run = running[w].run /\ Asks(j)
Steps(w) == UNCHANGED <<tick, published>> /\ ((\E st \in Outcome : Ends(w, st)) \/ (\E j : Advances(w, j)))

\* The empty list, which stands for no memory, is never published.
LEMMA NoListUnlisted == NoList \notin Lists
BY IngestAssumption DEF IngestAssumption, NoList

\* What the sources ask for are units.
LEMMA UnitsTyped == \A s \in SourceNames : UnitsOf(s) \subseteq AllUnits /\ Units[s] \in Seq(UnitsOf(s)) /\ Units[s] \in Seq(AllUnits)
<1>1. \A s \in SourceNames : UnitsOf(s) \subseteq AllUnits /\ Units[s] \in Seq(UnitsOf(s))
  BY IngestAssumption DEF AllUnits, IngestAssumption
<1> QED BY <1>1

\* The status of a run that ends is one of the three.
LEMMA StatusTyped == ASSUME NEW c, c \in ContextType PROVE RunStatus(c) \in Outcome
BY DEF RunStatus, Outcome

\* What a worker works on.
LEMMA JobTyped ==
  ASSUME IngestTyped, NEW w \in Workers, running[w] # Idle
  PROVE running[w] \in JobType /\ running[w].source \in SourceNames
BY DEF IngestTyped, JobType

\* A worker that does something for a source has a run under way.
LEMMA NotIdle ==
  ASSUME IngestTyped, NEW w \in Workers, NEW s, NEW p, Doing(w, s, p), s \in SourceNames
  PROVE running[w] # Idle /\ running[w] \in JobType
BY DEF IngestTyped, JobType, Doing, Idle, SourceNames

\* The ledger's rows are numbered from 1,
LEMMA RunsNumbered == ASSUME IngestTyped PROVE DOMAIN runs = 1 .. Len(runs) /\ Len(runs) \in Nat
BY DEF IngestTyped

\* each is a row of a run,
LEMMA RowsTyped == ASSUME IngestTyped, NEW i \in DOMAIN runs PROVE runs[i] \in RunType
BY RunsNumbered DEF IngestTyped

\* and those that are closed can be counted.
LEMMA CompletedTyped == ASSUME IngestTyped PROVE Completed \in Nat
<1>1. IsFiniteSet(1 .. Len(runs))
  BY RunsNumbered, FS_Interval
<1>2. {i \in DOMAIN runs : runs[i].order # 0} \subseteq 1 .. Len(runs)
  BY RunsNumbered
<1> QED BY <1>1, <1>2, FS_Subset, FS_CardinalityType DEF Completed

\* The end of a run leaves the ledger and the workers typed.
LEMMA FinishTyped ==
  ASSUME IngestTyped, UnderWay, NEW w \in Workers, NEW st \in Outcome, Ends(w, st), UNCHANGED tick
  PROVE runs' \in Seq(RunType) /\ running' \in [Workers -> JobType \cup {Idle}]
<1>1. running[w] \in JobType /\ Open(w)
  BY JobTyped DEF Ends, UnderWay
<1>2. running' \in [Workers -> JobType \cup {Idle}]
  BY DEF Ends, FinishRun, IngestTyped
<1>3. Completed + 1 \in Nat
  BY CompletedTyped
<1>4. CASE UNCHANGED runs
  BY <1>2, <1>4 DEF IngestTyped
<1>5. CASE runs' = [runs EXCEPT ![running[w].run].status = st, ![running[w].run].at = tick,
                                  ![running[w].run].order = Completed + 1,
                                  ![running[w].run].done = running[w].done]
  <2> DEFINE i == running[w].run
             r == [runs[i] EXCEPT !.status = st, !.at = tick, !.order = Completed + 1, !.done = running[w].done]
  <2>1. i \in DOMAIN runs /\ runs[i] \in RunType
    BY <1>1 DEF Open, IngestTyped
  <2>2. runs' = [runs EXCEPT ![i] = r]
    BY <1>5, <2>1
  <2>3. r \in RunType
    BY <1>1, <1>3, <2>1 DEF RunType, JobType, Outcome, IngestTyped
  <2>4. runs' \in Seq(RunType)
    BY <2>1, <2>2, <2>3 DEF IngestTyped
  <2> QED BY <2>4, <1>2
<1> QED BY <1>4, <1>5 DEF Ends, FinishRun

\* What a step does to the tables, typed.
Tables == changes \subseteq ChangeType /\ dropped \subseteq ChangeType
    /\ DOMAIN series = Histories /\ series = [s \in Histories |-> series[s]]
    /\ (\A s \in Histories : series[s] \in [UnitsOf(s) -> SUBSET Nat])
    /\ aggregate \in [by : Nat, failed : Int]
    /\ baseline \in [Workers -> Listed]

\* A step of a run that leaves the tables typed leaves everything typed.
LEMMA StepsTyped ==
  ASSUME IngestTyped, UnderWay, NEW w \in Workers, Steps(w), Tables'
  PROVE IngestTyped'
<1>1. ASSUME NEW st \in Outcome, Ends(w, st) PROVE IngestTyped'
  BY <1>1, FinishTyped DEF IngestTyped, Tables, Steps
<1>2. ASSUME NEW j, Advances(w, j) PROVE IngestTyped'
  <2>1. UNCHANGED runs /\ running' \in [Workers -> JobType \cup {Idle}]
    BY <1>2 DEF Advances, Go, IngestTyped
  <2> QED BY <2>1 DEF IngestTyped, Tables, Steps
<1> QED BY <1>1, <1>2 DEF Steps

\* A run that raises takes a step: it ends,
LEMMA RaiseSteps ==
  ASSUME NEW w \in Workers, running[w] # Idle, Raise(w), UNCHANGED <<tick, published>>
  PROVE Steps(w)
BY DEF Raise, Steps, Ends, Outcome

\* and so does one that is closed with its context.
LEMMA CloseSteps ==
  ASSUME NEW w \in Workers, running[w] # Idle, NEW c \in ContextType, Close(w, c), UNCHANGED <<tick, published>>
  PROVE Steps(w)
BY StatusTyped DEF Close, Steps, Ends, Outcome

\* The latest list is one of those that may be published.
LEMMA LatestListed == ASSUME IngestTyped PROVE published[Len(published)] \in Lists
BY DEF IngestTyped

\* What is detected between two lists are changes.
LEMMA ChangesTyped == ASSUME NEW b \in Listed, NEW L \in Lists PROVE Changes(b, L) \subseteq ChangeType
<1>1. CASE b = NoList
  BY <1>1 DEF Changes
<1>2. CASE b # NoList
  <2>1. b \in Lists /\ Differ(b, L) \subseteq Uids
    BY <1>2, IngestAssumption DEF Listed, Differ, IngestAssumption
  <2> QED BY <2>1, <1>2 DEF Changes, ChangeType
<1> QED BY <1>1, <1>2

ReceivedList(w, L, before) == [running[w] EXCEPT !.phase = "save", !.rows = DOMAIN L, !.list = L,
                                     !.found = Changes(before, L),
                                     !.ctx.outcome = "success", !.ctx.received = TRUE]

\* Receiving a list is a step of its run and leaves everything typed;
LEMMA ReceiveListSteps ==
  ASSUME IngestTyped, UnderWay, NEW w \in Workers, ReceiveList(w), DurableBaseline \in Listed
  PROVE IngestTyped' /\ Steps(w)
<1> DEFINE L == published[Len(published)]
           before == IF baseline[w] = NoList THEN DurableBaseline ELSE baseline[w]
<1>1. running[w] \in JobType /\ running[w] # Idle /\ running[w].source = "ofac" /\ UNCHANGED <<tick, published>>
  BY NotIdle DEF ReceiveList, Doing, SourceNames
<1>2. L \in Lists /\ DOMAIN L \subseteq Uids
  BY LatestListed, IngestAssumption DEF IngestAssumption
<1>3. baseline' \in [Workers -> Listed]
  BY <1>2 DEF ReceiveList, IngestTyped, Listed
<1>4. Steps(w)
  <2>1. CASE Raise(w)
    BY <2>1, <1>1, RaiseSteps
  <2>2. CASE Go(w, ReceivedList(w, L, before))
    <3>1. Changes(before, L) \subseteq ChangeType
      BY <1>2, ChangesTyped DEF IngestTyped
    <3>2. ReceivedList(w, L, before) \in JobType
      <4> DEFINE c == [running[w].ctx EXCEPT !.outcome = "success", !.received = TRUE]
      <4>1. c \in ContextType
        BY <1>1 DEF JobType, ContextType
      <4>2. ReceivedList(w, L, before) = [running[w] EXCEPT !.phase = "save", !.rows = DOMAIN L, !.list = L,
                                     !.found = Changes(before, L), !.ctx = c]
        BY <1>1 DEF ReceivedList, JobType, ContextType
      <4>3. DOMAIN L \in SUBSET (Nat \cup Uids) /\ L \in Listed
        BY <1>2 DEF Listed
      <4> QED BY <4>1, <4>2, <4>3, <3>1, <1>1 DEF JobType
    <3>3. /\ ReceivedList(w, L, before).source = "ofac" /\ ReceivedList(w, L, before).run = running[w].run
          /\ ReceivedList(w, L, before).rows = DOMAIN L
          /\ ReceivedList(w, L, before).units = running[w].units /\ ReceivedList(w, L, before).done = running[w].done
      BY <1>1 DEF ReceivedList, JobType
    <3>4. Asks(ReceivedList(w, L, before))
      BY <3>3, <1>1, <1>2 DEF Asks, UnderWay, Histories
    <3> QED BY <3>2, <3>3, <3>4, <2>2, <1>1 DEF Steps, Advances
  <2> QED BY <2>1, <2>2 DEF ReceiveList, ReceivedList
<1>5. Tables'
  BY <1>3 DEF ReceiveList, tables, Tables, IngestTyped
<1> QED BY <1>4, <1>5, StepsTyped

\* so is saving a record,
LEMMA SaveRecordSteps ==
  ASSUME IngestTyped, UnderWay, NEW w \in Workers, SaveRecord(w)
  PROVE IngestTyped' /\ Steps(w)
<1>1. running[w] \in JobType /\ running[w] # Idle /\ running[w].source = "ofac" /\ UNCHANGED <<tick, published>>
  BY NotIdle DEF SaveRecord, Doing, SourceNames
<1>2. Steps(w)
  <2>1. CASE Raise(w)
    BY <2>1, <1>1, RaiseSteps
  <2>2. ASSUME NEW u, Go(w, [running[w] EXCEPT !.rows = @ \ {u}]) PROVE Steps(w)
    <3> DEFINE j == [running[w] EXCEPT !.rows = @ \ {u}]
    <3>1. j \in JobType
      BY <1>1 DEF JobType
    <3>2. j.source = "ofac" /\ j.run = running[w].run /\ j.rows = running[w].rows \ {u}
          /\ j.units = running[w].units /\ j.done = running[w].done
      BY <1>1 DEF JobType
    <3>3. Asks(j)
      BY <3>2, <1>1 DEF Asks, UnderWay, Histories
    <3> QED BY <3>1, <3>2, <3>3, <2>2, <1>1 DEF Steps, Advances
  <2> QED BY <2>1, <2>2 DEF SaveRecord
<1>3. Tables'
  BY <1>1 DEF SaveRecord, memory, Tables, IngestTyped, JobType
<1> QED BY <1>2, <1>3, StepsTyped

\* saving a change,
LEMMA SaveChangeSteps ==
  ASSUME IngestTyped, UnderWay, NEW w \in Workers, SaveChange(w)
  PROVE IngestTyped' /\ Steps(w)
<1>1. running[w] \in JobType /\ running[w] # Idle /\ running[w].source = "ofac" /\ UNCHANGED <<tick, published>>
  BY NotIdle DEF SaveChange, Doing, SourceNames
<1>2. Steps(w)
  <2>1. PICK c : Go(w, [running[w] EXCEPT !.found = @ \ {c}])
    BY DEF SaveChange
  <2> DEFINE j == [running[w] EXCEPT !.found = @ \ {c}]
  <2>2. j \in JobType
    BY <1>1 DEF JobType
  <2>3. j.source = "ofac" /\ j.run = running[w].run /\ j.rows = running[w].rows
        /\ j.units = running[w].units /\ j.done = running[w].done
    BY <1>1 DEF JobType
  <2>4. Asks(j)
    BY <2>3, <1>1 DEF Asks, UnderWay, Histories
  <2> QED BY <2>1, <2>2, <2>3, <2>4, <1>1 DEF Steps, Advances
<1>3. Tables'
  BY <1>1 DEF SaveChange, memory, Tables, IngestTyped, JobType
<1> QED BY <1>2, <1>3, StepsTyped

\* and closing the run of a list.
LEMMA CloseListSteps ==
  ASSUME IngestTyped, UnderWay, NEW w \in Workers, CloseList(w)
  PROVE IngestTyped' /\ Steps(w)
<1>1. running[w] \in JobType /\ running[w] # Idle /\ UNCHANGED <<tick, published>>
  BY NotIdle DEF CloseList, Doing, SourceNames
<1>2. [running[w].ctx EXCEPT !.persisted = TRUE] \in ContextType
  BY <1>1 DEF JobType, ContextType
<1>3. Steps(w)
  BY <1>1, <1>2, CloseSteps DEF CloseList
<1>4. Tables'
  BY DEF CloseList, memory, tables, Tables, IngestTyped
<1> QED BY <1>3, <1>4, StepsTyped

\* After a unit, the next.
LEMMA TailUnits ==
  ASSUME NEW q \in Seq(AllUnits), q # <<>>, NEW S, \A i \in DOMAIN q : q[i] \in S
  PROVE /\ Tail(q) \in Seq(AllUnits) /\ \A i \in DOMAIN Tail(q) : Tail(q)[i] \in S
        /\ Head(q) \in S /\ Head(q) \in AllUnits
        /\ \A i \in DOMAIN q : q[i] = Head(q) \/ \E k \in DOMAIN Tail(q) : q[i] = Tail(q)[k]
<1>1. Len(q) \in Nat \ {0} /\ DOMAIN q = 1 .. Len(q) /\ Len(Tail(q)) = Len(q) - 1 /\ Head(q) = q[1]
      /\ Tail(q) \in Seq(AllUnits) /\ DOMAIN Tail(q) = 1 .. Len(Tail(q))
      /\ \A i \in 1 .. Len(q) - 1 : Tail(q)[i] = q[i + 1]
  OBVIOUS
<1>2. \A i \in DOMAIN q : q[i] = Head(q) \/ \E k \in DOMAIN Tail(q) : q[i] = Tail(q)[k]
  <2> TAKE i \in DOMAIN q
  <2>1. CASE i = 1
    BY <1>1, <2>1
  <2>2. CASE i # 1
    <3>1. i - 1 \in DOMAIN Tail(q) /\ Tail(q)[i - 1] = q[i]
      BY <1>1, <2>2
    <3> QED BY <3>1
  <2> QED BY <2>1, <2>2
<1>3. Head(q) \in S /\ Head(q) \in AllUnits
  BY <1>1
<1>4. \A i \in DOMAIN Tail(q) : Tail(q)[i] \in S
  BY <1>1
<1> QED BY <1>1, <1>2, <1>3, <1>4

\* What a run is like after a unit that answered, and after one that failed.
LEMMA NextSteps ==
  ASSUME NEW j \in JobType, j.source \in SourceNames \ {"ofac"}, j.units # <<>>,
         \A i \in DOMAIN j.units : j.units[i] \in UnitsOf(j.source), j.done \subseteq UnitsOf(j.source)
  PROVE /\ Answered(j) \in JobType /\ Answered(j).source = j.source /\ Answered(j).run = j.run
        /\ Answered(j).ctx = j.ctx /\ Answered(j).rows = j.rows /\ Answered(j).units = Tail(j.units)
        /\ Answered(j).done = j.done \cup {Head(j.units)} /\ Answered(j).phase = "fetch"
        /\ j.rows = {} => Asks(Answered(j))
        /\ Failed(j) \in JobType /\ Failed(j).source = j.source /\ Failed(j).run = j.run
        /\ Failed(j).ctx = [j.ctx EXCEPT !.partial = j.source # "funding"]
        /\ Failed(j).rows = j.rows /\ Failed(j).units = Tail(j.units)
        /\ Failed(j).done = j.done /\ Failed(j).phase = "fetch"
        /\ j.rows = {} => Asks(Failed(j))
<1>1. /\ Tail(j.units) \in Seq(AllUnits) /\ \A i \in DOMAIN Tail(j.units) : Tail(j.units)[i] \in UnitsOf(j.source)
      /\ Head(j.units) \in UnitsOf(j.source) /\ Head(j.units) \in AllUnits
  BY TailUnits DEF JobType
<1> DEFINE c == [j.ctx EXCEPT !.partial = j.source # "funding"]
           a == Answered(j)
           f == Failed(j)
<1>2. c \in ContextType /\ j.ctx \in ContextType
  BY DEF JobType, ContextType
<1>3. a = [j EXCEPT !.units = Tail(j.units), !.phase = "fetch", !.done = j.done \cup {Head(j.units)}]
  BY DEF Answered, Next_, JobType
<1>4. f = [j EXCEPT !.units = Tail(j.units), !.phase = "fetch", !.ctx = c]
  BY DEF Failed, Next_, JobType
<1> HIDE DEF a, f
<1>5. /\ a \in JobType /\ a.source = j.source /\ a.run = j.run /\ a.ctx = j.ctx
      /\ a.rows = j.rows /\ a.units = Tail(j.units)
      /\ a.done = j.done \cup {Head(j.units)} /\ a.phase = "fetch"
  BY <1>1, <1>3 DEF JobType
<1>6. /\ f \in JobType /\ f.source = j.source /\ f.run = j.run /\ f.ctx = c
      /\ f.rows = j.rows /\ f.units = Tail(j.units) /\ f.done = j.done /\ f.phase = "fetch"
  <2> HIDE DEF c
  <2> QED BY <1>1, <1>2, <1>4 DEF JobType
<1>7. j.rows = {} => Asks(a) /\ Asks(f)
  BY <1>1, <1>5, <1>6 DEF Asks
<1> QED BY <1>5, <1>6, <1>7 DEF a, f

\* A worker that reads has no rows left over.
LEMMA FetchClean ==
  ASSUME NEW j \in JobType, Asks(j), j.source # "ofac", j.phase = "fetch"
  PROVE j.rows = {}
BY DEF Asks

\* Going on to the next unit is a step of a run.
LEMMA NextAdvances ==
  ASSUME NEW w \in Workers, running[w] # Idle,
         NEW j \in JobType, j.source \in SourceNames \ {"ofac"}, j.units # <<>>,
         \A i \in DOMAIN j.units : j.units[i] \in UnitsOf(j.source), j.done \subseteq UnitsOf(j.source),
         j.source = running[w].source, j.run = running[w].run, j.rows = {},
         UNCHANGED <<tick, published>>, Go(w, Answered(j)) \/ Go(w, Failed(j))
  PROVE Steps(w)
<1>1. /\ Answered(j) \in JobType /\ Answered(j).source = j.source /\ Answered(j).run = j.run /\ Asks(Answered(j))
      /\ Failed(j) \in JobType /\ Failed(j).source = j.source /\ Failed(j).run = j.run /\ Asks(Failed(j))
  BY NextSteps
<1>2. Advances(w, Answered(j)) \/ Advances(w, Failed(j))
  BY <1>1 DEF Advances
<1> QED BY <1>2 DEF Steps

\* The rows that are read are of times that have come.
LEMMA RowsRead ==
  ASSUME IngestTyped, NEW h \in SUBSET Nat
  PROVE FundingRows(h) \subseteq 1..tick /\ BarRows(h) \subseteq 1..tick
BY DEF FundingRows, BarRows, Page, Oldest

\* Receiving the rows of a unit is a step of its run and leaves everything typed.
LEMMA ReceiveRowsSteps ==
  ASSUME IngestTyped, UnderWay, NEW w \in Workers, NEW s \in Histories, ReceiveRows(w, s)
  PROVE IngestTyped' /\ Steps(w)
<1>1. running[w] \in JobType /\ running[w] # Idle /\ running[w].source = s /\ UNCHANGED <<tick, published>>
      /\ running[w].phase = "fetch" /\ running[w].units # <<>> /\ Asks(running[w])
  BY NotIdle DEF ReceiveRows, Doing, SourceNames, Histories, UnderWay
<1>2. running[w].rows = {}
  BY <1>1, FetchClean DEF Histories
<1>3. /\ \A i \in DOMAIN running[w].units : running[w].units[i] \in UnitsOf(s)
      /\ running[w].done \subseteq UnitsOf(s)
  BY <1>1 DEF Asks
<1>4. ASSUME Go(w, Failed(running[w])) \/ Go(w, Answered(running[w])) PROVE Steps(w)
  BY <1>1, <1>2, <1>3, <1>4, NextAdvances DEF Histories, SourceNames
<1>5. ASSUME Raise(w) PROVE Steps(w)
  BY <1>5, <1>1, RaiseSteps
<1>6. ASSUME NEW R \in SUBSET Nat, R # {},
             Go(w, [running[w] EXCEPT !.phase = "save", !.rows = R, !.ctx.received = @ \/ s = "bars"])
      PROVE Steps(w)
  <2> DEFINE c == [running[w].ctx EXCEPT !.received = @ \/ s = "bars"]
             j == [running[w] EXCEPT !.phase = "save", !.rows = R, !.ctx = c]
  <2>1. c \in ContextType
    BY <1>1 DEF JobType, ContextType
  <2>2. Go(w, j)
    BY <1>1, <1>6 DEF JobType, ContextType
  <2>3. j \in JobType /\ j.source = s /\ j.run = running[w].run /\ j.rows = R /\ j.phase = "save"
        /\ j.units = running[w].units /\ j.done = running[w].done
    <3> HIDE DEF c
    <3> QED BY <2>1, <1>1 DEF JobType
  <2> HIDE DEF j
  <2>4. Asks(j)
    BY <2>3, <1>1, <1>3, <1>6 DEF Asks, Histories
  <2> QED BY <2>2, <2>3, <2>4, <1>1 DEF Steps, Advances
<1>7. Steps(w)
  <2> DEFINE held == series[s][Unit(w)]
             rows == IF s = "funding" THEN FundingRows(held) ELSE BarRows(held)
  <2>1. Unit(w) \in UnitsOf(s)
    BY <1>1, <1>3, TailUnits DEF Unit, JobType
  <2>2. held \in SUBSET Nat
    BY <2>1 DEF IngestTyped
  <2>3. rows \in SUBSET Nat
    BY <2>2, RowsRead DEF IngestTyped
  <2>4. \/ Go(w, Failed(running[w])) \/ Raise(w)
        \/ rows = {} /\ Go(w, Answered(running[w]))
        \/ rows # {} /\ Go(w, [running[w] EXCEPT !.phase = "save", !.rows = rows, !.ctx.received = @ \/ s = "bars"])
    BY DEF ReceiveRows
  <2> HIDE DEF rows
  <2> QED BY <2>3, <2>4, <1>4, <1>5, <1>6
<1>8. Tables'
  BY DEF ReceiveRows, memory, tables, Tables, IngestTyped
<1> QED BY <1>7, <1>8, StepsTyped

\* A set of numbers has a smallest one, and a largest one if it is bounded.
LEMMA MinIs ==
  ASSUME NEW S \in SUBSET Nat, S # {}
  PROVE Min(S) \in S /\ \A x \in S : Min(S) <= x
<1> DEFINE C == {0 .. x : x \in S}
<1>1. C \subseteq FiniteSubsetsOf(Nat)
  <2> SUFFICES ASSUME NEW x \in S PROVE 0 .. x \in FiniteSubsetsOf(Nat)
    OBVIOUS
  <2>1. IsFiniteSet(0 .. x)
    BY FS_Interval
  <2> QED BY <2>1 DEF FiniteSubsetsOf
<1>2. C # {}
  OBVIOUS
<1>3. PICK c \in C : \A d \in C : ~(<<d, c>> \in StrictSubsetOrdering(Nat))
  <2> HIDE DEF C
  <2> QED BY <1>1, <1>2, FS_StrictSubsetOrderingWellFounded, WFMin
<1>4. PICK x \in S : c = 0 .. x
  OBVIOUS
<1>5. ASSUME NEW y \in S PROVE x <= y
  <2>1. x \in Nat /\ y \in Nat
    OBVIOUS
  <2>2. SUFFICES ASSUME y < x PROVE FALSE
    BY <2>1
  <2>3. 0 .. y \subseteq 0 .. x /\ x \in 0 .. x /\ x \notin 0 .. y
    BY <2>1, <2>2
  <2>4. <<0 .. y, c>> \in StrictSubsetOrdering(Nat)
    BY <2>3, <1>4 DEF StrictSubsetOrdering
  <2> QED BY <2>4, <1>3
<1> QED BY <1>5 DEF Min

\* A bounded one has a largest.
LEMMA MaxIs ==
  ASSUME NEW S \in SUBSET Nat, S # {}, NEW b \in Nat, \A x \in S : x <= b
  PROVE Max(S) \in S /\ \A x \in S : x <= Max(S)
<1> DEFINE T == {b - x : x \in S}
<1>1. \A x \in S : b - x \in Nat
  OBVIOUS
<1>2. T \in SUBSET Nat /\ T # {}
  BY <1>1
<1>3. Min(T) \in T /\ \A y \in T : Min(T) <= y
  <2> HIDE DEF T
  <2> QED BY <1>2, MinIs
<1>4. PICK x \in S : Min(T) = b - x
  BY <1>3
<1>5. ASSUME NEW y \in S PROVE y <= x
  <2>1. b - x <= b - y
    BY <1>3, <1>4
  <2>2. x \in Nat /\ y \in Nat
    OBVIOUS
  <2> QED BY <2>1, <2>2
<1> QED BY <1>5 DEF Max

\* A row that is written.
LEMMA RowWritten ==
  ASSUME IngestTyped, UnderWay, NEW w \in Workers, NEW s \in Histories, Doing(w, s, "save")
  PROVE /\ running[w] \in JobType /\ running[w] # Idle /\ running[w].source = s /\ running[w].phase = "save"
        /\ Asks(running[w]) /\ running[w].units # <<>> /\ Unit(w) \in UnitsOf(s)
        /\ running[w].rows \in SUBSET Nat /\ running[w].rows # {}
        /\ NextRow(w) \in running[w].rows /\ \A x \in running[w].rows : NextRow(w) <= x
        /\ Written(w, s) \in JobType /\ Written(w, s).source = s /\ Written(w, s).run = running[w].run
        /\ Written(w, s).phase = "save" /\ Written(w, s).rows = running[w].rows \ {NextRow(w)}
        /\ Written(w, s).units = running[w].units /\ Written(w, s).done = running[w].done
        /\ Written(w, s).ctx.partial = running[w].ctx.partial
<1>1. /\ running[w] \in JobType /\ running[w] # Idle /\ running[w].source = s /\ running[w].phase = "save"
      /\ Asks(running[w])
  BY NotIdle DEF Doing, Histories, SourceNames, UnderWay
<1>2. running[w].units # <<>> /\ running[w].rows \in SUBSET Nat /\ running[w].rows # {}
  BY <1>1 DEF Asks, Histories
<1>3. Unit(w) \in UnitsOf(s)
  BY <1>1, <1>2, TailUnits DEF Unit, Asks, JobType
<1>4. NextRow(w) \in running[w].rows /\ \A x \in running[w].rows : NextRow(w) <= x
  BY <1>2, MinIs DEF NextRow
<1> DEFINE b == NextRow(w) \notin series[s][Unit(w)]
           e == running[w].rows = {NextRow(w)}
           c == [running[w].ctx EXCEPT !.persisted = @ \/ b, !.received = @ \/ e]
<1>5. c \in ContextType /\ c.partial = running[w].ctx.partial
  <2> HIDE DEF b, e
  <2> QED BY <1>1 DEF JobType, ContextType
<1>6. Written(w, s) = [running[w] EXCEPT !.rows = running[w].rows \ {NextRow(w)}, !.ctx = c]
  BY <1>1 DEF Written, JobType, ContextType
<1> HIDE DEF c
<1>7. /\ Written(w, s) \in JobType /\ Written(w, s).source = s /\ Written(w, s).run = running[w].run
      /\ Written(w, s).phase = "save" /\ Written(w, s).rows = running[w].rows \ {NextRow(w)}
      /\ Written(w, s).units = running[w].units /\ Written(w, s).done = running[w].done /\ Written(w, s).ctx = c
  BY <1>1, <1>5, <1>6 DEF JobType
<1> QED BY <1>1, <1>2, <1>3, <1>4, <1>5, <1>7

\* A row written to one series is in it, and nowhere else.
LEMMA SeriesTyped ==
  ASSUME IngestTyped, NEW s \in Histories, NEW u \in UnitsOf(s), NEW t \in Nat,
         series' = [series EXCEPT ![s][u] = @ \cup {t}]
  PROVE /\ DOMAIN series' = Histories /\ series' = [x \in Histories |-> series'[x]]
        /\ \A x \in Histories : series'[x] \in [UnitsOf(x) -> SUBSET Nat]
        /\ \A x \in Histories : \A v \in UnitsOf(x) :
             series'[x][v] = IF x = s /\ v = u THEN series[x][v] \cup {t} ELSE series[x][v]
<1> DEFINE f == [series[s] EXCEPT ![u] = @ \cup {t}]
<1>1. series' = [series EXCEPT ![s] = f]
  BY DEF IngestTyped
<1>2. f \in [UnitsOf(s) -> SUBSET Nat] /\ \A v \in UnitsOf(s) : f[v] = IF v = u THEN series[s][v] \cup {t} ELSE series[s][v]
  BY DEF IngestTyped
<1> HIDE DEF f
<1>3. DOMAIN series' = Histories /\ series' = [x \in Histories |-> series'[x]]
  BY <1>1 DEF IngestTyped
<1>4. \A x \in Histories : series'[x] = IF x = s THEN f ELSE series[x]
  BY <1>1 DEF IngestTyped
<1> QED BY <1>2, <1>3, <1>4 DEF IngestTyped

\* Saving a row is a step of its run and leaves everything typed;
LEMMA SaveRowSteps ==
  ASSUME IngestTyped, UnderWay, NEW w \in Workers, NEW s \in Histories, SaveRow(w, s)
  PROVE IngestTyped' /\ Steps(w)
<1>0. Doing(w, s, "save") /\ UNCHANGED <<tick, published, changes, dropped, aggregate, baseline>>
  BY DEF SaveRow, memory
<1>1. /\ running[w] \in JobType /\ running[w] # Idle /\ running[w].source = s
      /\ Asks(running[w]) /\ running[w].units # <<>> /\ Unit(w) \in UnitsOf(s)
      /\ running[w].rows \in SUBSET Nat /\ NextRow(w) \in Nat
      /\ Written(w, s) \in JobType /\ Written(w, s).source = s /\ Written(w, s).run = running[w].run
      /\ Written(w, s).phase = "save" /\ Written(w, s).rows = running[w].rows \ {NextRow(w)}
      /\ Written(w, s).units = running[w].units /\ Written(w, s).done = running[w].done
  BY <1>0, RowWritten
<1>2. /\ \A i \in DOMAIN running[w].units : running[w].units[i] \in UnitsOf(s)
      /\ running[w].done \subseteq UnitsOf(s) /\ s \in SourceNames \ {"ofac"}
  BY <1>1 DEF Asks, Histories, SourceNames
<1>3. ASSUME Written(w, s).rows = {}, Go(w, Answered(Written(w, s))) PROVE Steps(w)
  BY <1>0, <1>1, <1>2, <1>3, NextAdvances
<1>4. ASSUME Written(w, s).rows # {}, Go(w, Written(w, s)) PROVE Steps(w)
  <2>1. Asks(Written(w, s))
    BY <1>1, <1>2, <1>4 DEF Asks, Histories
  <2> QED BY <1>0, <1>1, <1>4, <2>1 DEF Steps, Advances
<1>5. ASSUME Raise(w) PROVE Steps(w)
  BY <1>0, <1>1, <1>5, RaiseSteps
<1>6. ASSUME Go(w, Failed([running[w] EXCEPT !.rows = {}])) PROVE Steps(w)
  <2> DEFINE j == [running[w] EXCEPT !.rows = {}]
  <2>1. j \in JobType /\ j.source = s /\ j.run = running[w].run /\ j.rows = {}
        /\ j.units = running[w].units /\ j.done = running[w].done
    BY <1>1 DEF JobType
  <2> HIDE DEF j
  <2> QED BY <1>0, <1>1, <1>2, <1>6, <2>1, NextAdvances DEF j
<1>7. Steps(w)
  BY <1>3, <1>4, <1>5, <1>6 DEF SaveRow
<1>8. Tables'
  <2>1. CASE UNCHANGED series
    BY <2>1, <1>0 DEF Tables, IngestTyped
  <2>2. CASE series' = [series EXCEPT ![s][Unit(w)] = @ \cup {NextRow(w)}]
    <3> DEFINE u == Unit(w)
    <3>1. u \in UnitsOf(s) /\ series' = [series EXCEPT ![s][u] = @ \cup {NextRow(w)}]
      BY <1>1, <2>2
    <3> HIDE DEF u
    <3>2. /\ DOMAIN series' = Histories /\ series' = [x \in Histories |-> series'[x]]
          /\ \A x \in Histories : series'[x] \in [UnitsOf(x) -> SUBSET Nat]
      BY <3>1, <1>1, SeriesTyped
    <3> QED BY <3>2, <1>0 DEF Tables, IngestTyped
  <2> QED BY <2>1, <2>2 DEF SaveRow
<1> QED BY <1>7, <1>8, StepsTyped

\* so is closing a run of a history,
LEMMA CloseRowsSteps ==
  ASSUME IngestTyped, UnderWay, NEW w \in Workers, NEW s \in Histories, CloseRows(w, s)
  PROVE IngestTyped' /\ Steps(w)
<1>1. running[w] \in JobType /\ running[w] # Idle /\ UNCHANGED <<tick, published>>
  BY NotIdle DEF CloseRows, Doing, SourceNames, Histories
<1>2. [running[w].ctx EXCEPT !.outcome = IF running[w].done = {} THEN "failure" ELSE "success"] \in ContextType
  BY <1>1 DEF JobType, ContextType
<1>3. Steps(w)
  BY <1>1, <1>2, CloseSteps DEF CloseRows
<1>4. Tables'
  BY DEF CloseRows, memory, tables, Tables, IngestTyped
<1> QED BY <1>3, <1>4, StepsTyped

\* receiving a tariff batch,
LEMMA ReceiveBatchSteps ==
  ASSUME IngestTyped, UnderWay, NEW w \in Workers, ReceiveBatch(w)
  PROVE IngestTyped' /\ Steps(w)
<1>1. running[w] \in JobType /\ running[w] # Idle /\ running[w].source = "tariffs" /\ UNCHANGED <<tick, published>>
      /\ running[w].units # <<>> /\ Asks(running[w])
  BY NotIdle DEF ReceiveBatch, Doing, SourceNames, UnderWay
<1>2. /\ running[w].rows = {} /\ running[w].done \subseteq UnitsOf("tariffs") /\ "tariffs" \in SourceNames \ {"ofac"}
      /\ \A i \in DOMAIN running[w].units : running[w].units[i] \in UnitsOf("tariffs")
  <2>1. running[w].phase = "fetch"
    BY DEF ReceiveBatch, Doing
  <2> QED BY <2>1, <1>1, FetchClean DEF Asks, SourceNames
<1>3. ASSUME Go(w, Failed(running[w])) PROVE Steps(w)
  BY <1>1, <1>2, <1>3, NextAdvances
<1>4. ASSUME NEW r \in BOOLEAN,
             Go(w, [Answered(running[w]) EXCEPT !.ctx.received = TRUE, !.ctx.persisted = @ \/ r])
      PROVE Steps(w)
  <2> DEFINE a == Answered(running[w])
             c == [a.ctx EXCEPT !.received = TRUE, !.persisted = @ \/ r]
             j == [a EXCEPT !.ctx = c]
  <2>1. /\ a \in JobType /\ a.source = "tariffs" /\ a.run = running[w].run /\ Asks(a)
    BY <1>1, <1>2, NextSteps
  <2> HIDE DEF a
  <2>2. c \in ContextType
    BY <2>1 DEF JobType, ContextType
  <2>3. j = [a EXCEPT !.ctx.received = TRUE, !.ctx.persisted = @ \/ r]
    BY <2>1 DEF JobType, ContextType
  <2> HIDE DEF c
  <2>4. j \in JobType /\ j.source = a.source /\ j.run = a.run /\ j.units = a.units /\ j.rows = a.rows
        /\ j.phase = a.phase /\ j.done = a.done
    BY <2>1, <2>2 DEF JobType
  <2>5. Go(w, j)
    BY <1>4, <2>3 DEF a
  <2> HIDE DEF j
  <2>6. Asks(j)
    BY <2>1, <2>4 DEF Asks
  <2> QED BY <2>1, <2>4, <2>5, <2>6, <1>1 DEF Steps, Advances
<1>5. Steps(w)
  BY <1>3, <1>4 DEF ReceiveBatch, RecordObservations, Recorded
<1>6. Tables'
  BY DEF ReceiveBatch, memory, tables, Tables, IngestTyped
<1> QED BY <1>5, <1>6, StepsTyped

\* closing a tariff run with its aggregate,
LEMMA CloseTariffsSteps ==
  ASSUME IngestTyped, UnderWay, NEW w \in Workers, CloseTariffs(w)
  PROVE IngestTyped' /\ Steps(w)
<1>1. running[w] \in JobType /\ running[w] # Idle /\ UNCHANGED <<tick, published>>
  BY NotIdle DEF CloseTariffs, Doing, SourceNames
<1>2. [running[w].ctx EXCEPT !.outcome = IF running[w].done = {} THEN "failure" ELSE "success"] \in ContextType
  BY <1>1 DEF JobType, ContextType
<1>3. Steps(w)
  BY <1>1, <1>2, CloseSteps DEF CloseTariffs
<1>4. Len(Units["tariffs"]) \in Nat /\ Cardinality(running[w].done) \in Nat
  <2>1. Units["tariffs"] \in Seq(AllUnits)
    BY UnitsTyped DEF SourceNames
  <2>2. running[w].done \subseteq UnitsOf("tariffs")
    BY <1>1 DEF UnderWay, Asks, CloseTariffs, Doing
  <2>3. IsFiniteSet(UnitsOf("tariffs"))
    <3> DEFINE q == Units["tariffs"]
               S == 1 .. Len(q)
    <3>1. S = DOMAIN q /\ IsFiniteSet(S)
      BY <2>1, FS_Interval
    <3>2. UnitsOf("tariffs") = {q[i] : i \in S}
      BY <3>1 DEF UnitsOf
    <3> HIDE DEF q, S
    <3>3. [i \in S |-> q[i]] \in Surjection(S, {q[i] : i \in S})
      BY DEF Surjection
    <3> QED BY <3>1, <3>2, <3>3, FS_Surjection
  <2> QED BY <2>1, <2>2, <2>3, FS_Subset, FS_CardinalityType
<1>5. aggregate' \in [by : Nat, failed : Int]
  BY <1>1, <1>4 DEF CloseTariffs, IngestTyped, JobType
<1>6. Tables'
  BY <1>5 DEF CloseTariffs, memory, Tables, IngestTyped
<1> QED BY <1>3, <1>6, StepsTyped

\* and a run of the news, which is one step.
LEMMA ReceiveNewsSteps ==
  ASSUME IngestTyped, UnderWay, NEW w \in Workers, ReceiveNews(w)
  PROVE IngestTyped' /\ Steps(w)
<1>1. running[w] \in JobType /\ running[w] # Idle /\ UNCHANGED <<tick, published>>
  BY NotIdle DEF ReceiveNews, Doing, SourceNames
<1>2. /\ [running[w].ctx EXCEPT !.outcome = "success"] \in ContextType
      /\ [running[w].ctx EXCEPT !.outcome = "success", !.received = TRUE, !.persisted = TRUE] \in ContextType
  BY <1>1 DEF JobType, ContextType
<1>3. \/ Raise(w) \/ Close(w, [running[w].ctx EXCEPT !.outcome = "success"])
      \/ Close(w, [running[w].ctx EXCEPT !.outcome = "success", !.received = TRUE, !.persisted = TRUE])
  BY DEF ReceiveNews
<1>4. Steps(w)
  BY <1>1, <1>2, <1>3, CloseSteps, RaiseSteps
<1>5. Tables'
  BY DEF ReceiveNews, Tables, IngestTyped
<1> QED BY <1>4, <1>5, StepsTyped

\* What the end of a run does to the ledger: nothing, or its row is closed.
ClosesRow(w, st) ==
    LET i == running[w].run IN
    /\ Recorded(w) /\ DOMAIN runs' = DOMAIN runs /\ \A k \in DOMAIN runs \ {i} : runs'[k] = runs[k]
    /\ runs'[i].source = runs[i].source /\ runs'[i].worker = runs[i].worker /\ runs'[i].start = runs[i].start
    /\ runs'[i].status = st /\ runs'[i].at = tick /\ runs'[i].order = Completed + 1
    /\ runs'[i].done = running[w].done

\* A run that ends closes its row, or the update was refused.
LEMMA EndsDoes ==
  ASSUME IngestTyped, UnderWay, NEW w \in Workers, NEW st \in Outcome, Ends(w, st)
  PROVE /\ UNCHANGED runs \/ ClosesRow(w, st)
        /\ running[w] \in JobType /\ Open(w) /\ running' = [running EXCEPT ![w] = Idle]
<1>1. running[w] \in JobType /\ Open(w) /\ running' = [running EXCEPT ![w] = Idle]
  BY JobTyped DEF Ends, UnderWay, FinishRun
<1>2. ASSUME runs' = [runs EXCEPT ![running[w].run].status = st, ![running[w].run].at = tick,
                                  ![running[w].run].order = Completed + 1,
                                  ![running[w].run].done = running[w].done],
             Recorded(w)
      PROVE ClosesRow(w, st)
  <2> DEFINE i == running[w].run
             n == Completed + 1
             r == [runs[i] EXCEPT !.status = st, !.at = tick, !.order = n, !.done = running[w].done]
  <2>1. i \in DOMAIN runs /\ runs[i] \in RunType
    BY <1>1 DEF Open, IngestTyped
  <2>2. runs' = [runs EXCEPT ![i] = r]
    BY <1>2, <2>1
  <2>3. r.source = runs[i].source /\ r.worker = runs[i].worker /\ r.start = runs[i].start
        /\ r.status = st /\ r.at = tick /\ r.order = n /\ r.done = running[w].done
    <3> HIDE DEF n
    <3> QED BY <2>1 DEF RunType
  <2> HIDE DEF r
  <2>4. DOMAIN runs' = DOMAIN runs /\ runs'[i] = r /\ \A k \in DOMAIN runs \ {i} : runs'[k] = runs[k]
    BY <2>1, <2>2
  <2> QED BY <2>3, <2>4, <1>2 DEF ClosesRow
<1> QED BY <1>1, <1>2 DEF Ends, FinishRun

\* Two workers under way are on two rows.
LEMMA ApartRuns ==
  ASSUME UnderWay, NEW w \in Workers, NEW v \in Workers, v # w, running[w] # Idle, running[v] # Idle
  PROVE running[v].run # running[w].run
BY DEF UnderWay, Open

\* After a step of one worker every run under way is on an open row.
LEMMA StepsUnderWay ==
  ASSUME IngestTyped, UnderWay, NEW w \in Workers, Steps(w)
  PROVE UnderWay'
<1>1. ASSUME NEW st \in Outcome, Ends(w, st) PROVE UnderWay'
  <2>1. /\ UNCHANGED runs \/ ClosesRow(w, st)
        /\ running' = [running EXCEPT ![w] = Idle] /\ running[w] # Idle
    BY <1>1, EndsDoes DEF Ends
  <2> SUFFICES ASSUME NEW v \in Workers, running'[v] # Idle
               PROVE Open(v)' /\ Asks(running[v])'
    BY DEF UnderWay
  <2>2. v # w /\ running'[v] = running[v]
    BY <2>1 DEF IngestTyped
  <2>3. Open(v) /\ Asks(running[v]) /\ running[v].run # running[w].run
    BY <2>1, <2>2, ApartRuns DEF UnderWay
  <2>4. Asks(running[v])'
    BY <2>2, <2>3 DEF Asks
  <2>5. DOMAIN runs' = DOMAIN runs /\ runs'[running[v].run] = runs[running[v].run]
    BY <2>1, <2>3 DEF ClosesRow, Open
  <2> QED BY <2>2, <2>3, <2>4, <2>5 DEF Open, Steps
<1>2. ASSUME NEW j, Advances(w, j) PROVE UnderWay'
  <2>1. UNCHANGED runs /\ running' = [running EXCEPT ![w] = j] /\ Asks(j) /\ running[w] # Idle
        /\ j.source = running[w].source /\ j.run = running[w].run
    BY <1>2 DEF Advances, Go
  <2> SUFFICES ASSUME NEW v \in Workers, running'[v] # Idle
               PROVE Open(v)' /\ Asks(running[v])'
    BY DEF UnderWay
  <2>2. CASE v = w
    <3>1. running'[v] = j /\ Open(w)
      BY <2>1, <2>2 DEF IngestTyped, UnderWay
    <3> QED BY <2>1, <2>2, <3>1 DEF Open, Asks, Steps
  <2>3. CASE v # w
    <3>1. running'[v] = running[v] /\ Open(v) /\ Asks(running[v])
      BY <2>1, <2>3 DEF IngestTyped, UnderWay
    <3> QED BY <2>1, <3>1 DEF Open, Asks, Steps
  <2> QED BY <2>2, <2>3
<1> QED BY <1>1, <1>2 DEF Steps

\* A row that is closed takes the next number.
LEMMA CloseNumbered ==
  ASSUME IngestTyped, LedgerInv, NEW w \in Workers, NEW st \in Outcome, Ends(w, st), ClosesRow(w, st)
  PROVE Numbered' /\ Completed' = Completed + 1
<1> DEFINE i == running[w].run
           S == {k \in DOMAIN runs : runs[k].order # 0}
<1>1. i \in DOMAIN runs /\ runs[i].order = 0 /\ Completed \in Nat
  BY CompletedTyped DEF LedgerInv, UnderWay, Open, Ends
<1>2. /\ DOMAIN runs' = DOMAIN runs /\ \A k \in DOMAIN runs \ {i} : runs'[k] = runs[k]
      /\ runs'[i].status = st /\ runs'[i].order = Completed + 1
  BY DEF ClosesRow
<1>3. {k \in DOMAIN runs' : runs'[k].order # 0} = S \cup {i} /\ i \notin S
  BY <1>1, <1>2
<1>4. IsFiniteSet(S)
  <2>1. S \subseteq 1 .. Len(runs) /\ IsFiniteSet(1 .. Len(runs))
    BY RunsNumbered, FS_Interval
  <2> QED BY <2>1, FS_Subset
<1>5. Completed' = Completed + 1
  <2> HIDE DEF i
  <2>1. Cardinality(S \cup {i}) = Cardinality(S) + 1
    BY <1>3, <1>4, FS_AddElement
  <2> QED BY <2>1, <1>3 DEF Completed
<1>6. \A k \in DOMAIN runs : runs[k].order \in Nat
  BY RowsTyped DEF RunType
<1>7. \A k \in DOMAIN runs' : runs'[k].order <= Completed'
  <2> TAKE k \in DOMAIN runs'
  <2>1. CASE k = i
    BY <1>1, <1>2, <1>5, <2>1
  <2>2. CASE k # i
    BY <1>1, <1>2, <1>5, <1>6, <2>2 DEF LedgerInv, Numbered
  <2> QED BY <2>1, <2>2
<1>8. \A k, l \in DOMAIN runs' : runs'[k].order = runs'[l].order => k = l \/ runs'[k].order = 0
  <2> TAKE k, l \in DOMAIN runs'
  <2>1. \A m \in DOMAIN runs : runs[m].order # Completed + 1
    BY <1>1, <1>6 DEF LedgerInv, Numbered
  <2> QED BY <1>2, <2>1 DEF LedgerInv, Numbered
<1>9. \A k \in DOMAIN runs' : runs'[k].order = 0 <=> runs'[k].status \in {"running", "absent", "skipped_lease"}
  <2> TAKE k \in DOMAIN runs'
  <2>1. CASE k = i
    BY <1>1, <1>2, <2>1 DEF Outcome
  <2>2. CASE k # i
    BY <1>2, <2>2 DEF LedgerInv, Numbered
  <2> QED BY <2>1, <2>2
<1> QED BY <1>5, <1>7, <1>8, <1>9 DEF Numbered

\* Where no row changes the numbers stand.
LEMMA SameNumbered == ASSUME Numbered, UNCHANGED runs PROVE Numbered'
BY DEF Numbered, Completed

\* A step of a run keeps the ledger in order.
LEMMA StepsLedger ==
  ASSUME IngestTyped, LedgerInv, NEW w \in Workers, Steps(w)
  PROVE LedgerInv'
<1>1. UnderWay'
  BY StepsUnderWay DEF LedgerInv
<1>2. ASSUME NEW st \in Outcome, Ends(w, st) PROVE Numbered'
  BY <1>2, EndsDoes, CloseNumbered, SameNumbered DEF LedgerInv
<1>3. ASSUME NEW j, Advances(w, j) PROVE Numbered'
  BY <1>3, SameNumbered DEF Advances, Go, LedgerInv
<1> QED BY <1>1, <1>2, <1>3 DEF Steps, LedgerInv

\* A run that starts appends its row and touches no other;
LEMMA StartDoes ==
  ASSUME IngestTyped, NEW w \in Workers, NEW s \in SourceNames,
         NEW status \in {"running", "absent", "skipped_lease"}, StartRun(w, s, status)
  PROVE /\ runs' \in Seq(RunType) /\ DOMAIN runs' = DOMAIN runs \cup {Len(runs) + 1}
        /\ Len(runs) + 1 \notin DOMAIN runs /\ Len(runs) \in Nat
        /\ \A i \in DOMAIN runs : runs'[i] = runs[i]
        /\ runs'[Len(runs) + 1].source = s /\ runs'[Len(runs) + 1].worker = w
        /\ runs'[Len(runs) + 1].status = status /\ runs'[Len(runs) + 1].start = tick
        /\ runs'[Len(runs) + 1].order = 0 /\ runs'[Len(runs) + 1].done = {}
<1> DEFINE r == [source |-> s, worker |-> w, status |-> status, start |-> tick,
                          at |-> 0, order |-> 0, done |-> {}]
<1>1. /\ r \in RunType /\ r.source = s /\ r.worker = w /\ r.status = status /\ r.start = tick
      /\ r.order = 0 /\ r.done = {}
  BY DEF RunType, IngestTyped
<1>2. runs' = Append(runs, r)
  BY DEF StartRun
<1> HIDE DEF r
<1>3. runs \in Seq(RunType)
  BY DEF IngestTyped
<1>4. /\ Append(runs, r) \in Seq(RunType) /\ DOMAIN Append(runs, r) = DOMAIN runs \cup {Len(runs) + 1}
      /\ Len(runs) + 1 \notin DOMAIN runs /\ Len(runs) \in Nat
      /\ \A i \in DOMAIN runs : Append(runs, r)[i] = runs[i]
      /\ Append(runs, r)[Len(runs) + 1] = r
  BY <1>1, <1>3
<1> QED BY <1>1, <1>2, <1>4

\* the row has no number yet,
LEMMA StartNumbered ==
  ASSUME IngestTyped, Numbered, NEW w \in Workers, NEW s \in SourceNames,
         NEW status \in {"running", "absent", "skipped_lease"}, StartRun(w, s, status)
  PROVE Numbered' /\ Completed' = Completed
<1> DEFINE n == Len(runs) + 1
<1>1. /\ DOMAIN runs' = DOMAIN runs \cup {n} /\ n \notin DOMAIN runs
      /\ \A i \in DOMAIN runs : runs'[i] = runs[i]
      /\ runs'[n].order = 0 /\ runs'[n].status = status
  BY StartDoes
<1> HIDE DEF n
<1>2. {i \in DOMAIN runs' : runs'[i].order # 0} = {i \in DOMAIN runs : runs[i].order # 0}
  BY <1>1
<1>3. Completed' = Completed /\ Completed \in Nat
  BY <1>2, CompletedTyped DEF Completed
<1>4. \A k \in DOMAIN runs' : runs'[k].order <= Completed'
  BY <1>1, <1>3 DEF Numbered
<1>5. \A k, l \in DOMAIN runs' : runs'[k].order = runs'[l].order => k = l \/ runs'[k].order = 0
  BY <1>1 DEF Numbered
<1>6. \A k \in DOMAIN runs' : runs'[k].order = 0 <=> runs'[k].status \in {"running", "absent", "skipped_lease"}
  BY <1>1 DEF Numbered
<1> QED BY <1>3, <1>4, <1>5, <1>6 DEF Numbered

\* and every other run stays on its own.
LEMMA StartUnderWay ==
  ASSUME IngestTyped, UnderWay, NEW w \in Workers, NEW s \in SourceNames,
         NEW status \in {"running", "absent", "skipped_lease"}, StartRun(w, s, status), UNCHANGED tick,
         NEW v \in Workers, running[v] # Idle, UNCHANGED running[v]
  PROVE Open(v)' /\ Asks(running[v])'
<1>1. DOMAIN runs \subseteq DOMAIN runs' /\ \A i \in DOMAIN runs : runs'[i] = runs[i]
  BY StartDoes
<1>2. Open(v) /\ Asks(running[v])
  BY DEF UnderWay
<1> QED BY <1>1, <1>2 DEF Open, Asks

NewJob(s) == [source |-> s, run |-> Len(runs) + 1,
                  ctx |-> Context, phase |-> "fetch", units |-> Units[s], rows |-> {},
                  list |-> NoList, found |-> {}, done |-> {}]

\* A run that begins keeps types and ledger;
LEMMA BeginSteps ==
  ASSUME IngestTyped, LedgerInv, NEW w \in Workers, NEW s \in SourceNames, Begin(w, s)
  PROVE IngestTyped' /\ LedgerInv'
<1>1. PICK status \in {"running", "absent"} : StartRun(w, s, status)
  BY DEF Begin
<1>2. /\ running[w] = Idle /\ running' = [running EXCEPT ![w] = NewJob(s)] /\ UNCHANGED <<tick, published, memory, tables>>
  BY DEF Begin, NewJob
<1>3. NewJob(s) \in JobType /\ NewJob(s).source = s /\ NewJob(s).run = Len(runs) + 1 /\ Asks(NewJob(s))
  <2>1. Len(runs) + 1 \in Nat
    BY RunsNumbered
  <2>2. Context \in ContextType
    BY DEF Context, ContextType
  <2>3. Units[s] \in Seq(AllUnits) /\ \A i \in DOMAIN Units[s] : Units[s][i] \in UnitsOf(s)
    BY UnitsTyped DEF UnitsOf
  <2>4. NewJob(s) \in JobType /\ NewJob(s).source = s /\ NewJob(s).run = Len(runs) + 1 /\ NewJob(s).units = Units[s]
        /\ NewJob(s).done = {} /\ NewJob(s).rows = {} /\ NewJob(s).phase = "fetch"
    BY <2>1, <2>2, <2>3 DEF NewJob, JobType, Listed
  <2>5. Asks(NewJob(s))
    BY <2>3, <2>4 DEF Asks
  <2> QED BY <2>4, <2>5
<1>4. IngestTyped'
  <2>1. running' \in [Workers -> JobType \cup {Idle}]
    BY <1>2, <1>3 DEF IngestTyped
  <2>2. runs' \in Seq(RunType)
    BY <1>1, StartDoes
  <2> QED BY <2>1, <2>2, <1>2 DEF IngestTyped, memory, tables
<1>5. Numbered'
  BY <1>1, StartNumbered DEF LedgerInv
<1>6. ASSUME NEW v \in Workers, running'[v] # Idle PROVE Open(v)' /\ Asks(running[v])'
  <2>1. CASE v = w
    <3>1. running'[v] = NewJob(s)
      BY <1>2, <2>1 DEF IngestTyped
    <3>2. /\ Len(runs) + 1 \in DOMAIN runs' /\ runs'[Len(runs) + 1].source = s /\ runs'[Len(runs) + 1].worker = w
          /\ runs'[Len(runs) + 1].status = status /\ runs'[Len(runs) + 1].order = 0
          /\ runs'[Len(runs) + 1].start = tick
      BY <1>1, StartDoes
    <3>3. Open(v)'
      BY <3>1, <3>2, <1>2, <1>3, <2>1 DEF Open
    <3>4. Asks(running[v])'
      BY <3>1, <1>3 DEF Asks
    <3> QED BY <3>3, <3>4
  <2>2. CASE v # w
    <3>1. running'[v] = running[v]
      BY <1>2, <2>2 DEF IngestTyped
    <3> QED BY <1>1, <1>2, <1>6, <3>1, StartUnderWay DEF LedgerInv
  <2> QED BY <2>1, <2>2
<1> QED BY <1>4, <1>5, <1>6 DEF LedgerInv, UnderWay

\* so does one that is skipped because another worker holds the lease,
LEMMA SkipSteps ==
  ASSUME IngestTyped, LedgerInv, NEW w \in Workers, NEW s \in SourceNames, Skip(w, s)
  PROVE IngestTyped' /\ LedgerInv'
<1>1. StartRun(w, s, "skipped_lease") /\ UNCHANGED <<tick, published, memory, tables, running>>
  BY DEF Skip
<1>2. runs' \in Seq(RunType) /\ Numbered'
  BY <1>1, StartDoes, StartNumbered DEF LedgerInv
<1>3. IngestTyped'
  BY <1>1, <1>2 DEF IngestTyped, memory, tables
<1>4. ASSUME NEW v \in Workers, running'[v] # Idle PROVE Open(v)' /\ Asks(running[v])'
  BY <1>1, <1>4, StartUnderWay DEF LedgerInv
<1> QED BY <1>2, <1>3, <1>4 DEF LedgerInv, UnderWay

\* a worker that stops,
LEMMA CrashSteps ==
  ASSUME IngestTyped, LedgerInv, NEW w \in Workers, Crash(w)
  PROVE IngestTyped' /\ LedgerInv'
<1>1. IngestTyped' /\ UNCHANGED <<tick, runs>>
  BY DEF Crash, IngestTyped, tables, Listed
<1>2. Numbered'
  BY <1>1, SameNumbered DEF LedgerInv
<1>3. ASSUME NEW v \in Workers, running'[v] # Idle PROVE Open(v)' /\ Asks(running[v])'
  <2>1. running'[v] = running[v]
    BY <1>3 DEF Crash, IngestTyped
  <2> QED BY <2>1, <1>1, <1>3 DEF LedgerInv, UnderWay, Open, Asks
<1> QED BY <1>1, <1>2, <1>3 DEF LedgerInv, UnderWay

\* an hour that passes,
LEMMA HourSteps ==
  ASSUME IngestTyped, LedgerInv, Hour
  PROVE IngestTyped' /\ LedgerInv'
<1>1. tick' = tick + 1 /\ UNCHANGED <<published, runs, memory, tables, running>>
      /\ \A w \in Workers : running[w] # Idle => runs[running[w].run].start = tick
  BY DEF Hour
<1>2. IngestTyped'
  BY <1>1 DEF IngestTyped, memory, tables
<1>3. Numbered'
  BY <1>1, SameNumbered DEF LedgerInv
<1>4. ASSUME NEW v \in Workers, running'[v] # Idle PROVE Open(v)' /\ Asks(running[v])'
  BY <1>1, <1>4 DEF LedgerInv, UnderWay, Open, Asks
<1> QED BY <1>2, <1>3, <1>4 DEF LedgerInv, UnderWay

\* and another list that is published.
LEMMA PublishSteps ==
  ASSUME IngestTyped, LedgerInv, PublishList
  PROVE IngestTyped' /\ LedgerInv'
<1>1. PICK L \in Lists : published' = Append(published, L)
  BY DEF PublishList
<1>2. UNCHANGED <<tick, runs, memory, tables, running>>
  BY DEF PublishList
<1>3. published' \in Seq(Lists) /\ published' # <<>>
  BY <1>1 DEF IngestTyped
<1>4. IngestTyped'
  BY <1>2, <1>3 DEF IngestTyped, memory, tables
<1> QED BY <1>2, <1>4, SameNumbered DEF LedgerInv, UnderWay, Open, Asks

-----------------------------------------------------------------------------
(* What a success holds.                                                   *)

\* Where a run saved every entry of a list, its records are the list.
LEMMA RecordsAre ==
  ASSUME NEW i, NEW L \in Lists, Keeps(i, L, DOMAIN L)
  PROVE RecordsOf(i) = L
<1> DEFINE mine == {r \in saved : r[1] = i}
<1>0. \A r : r \in mine <=> \E u \in DOMAIN L : r = <<i, u, L[u]>>
  BY DEF Keeps
<1> HIDE DEF mine
<1>1. {r[2] : r \in mine} = DOMAIN L
  <2>1. \A r \in mine : r[2] \in DOMAIN L
    BY <1>0
  <2>2. \A u \in DOMAIN L : \E r \in mine : r[2] = u
    <3> TAKE u \in DOMAIN L
    <3>1. <<i, u, L[u]>> \in mine /\ <<i, u, L[u]>>[2] = u
      BY <1>0
    <3> QED BY <3>1
  <2> QED BY <2>1, <2>2
<1>2. ASSUME NEW u \in DOMAIN L PROVE (CHOOSE r \in mine : r[2] = u)[3] = L[u]
  <2>1. \A r \in mine : r[2] = u => r = <<i, u, L[u]>>
    BY <1>0
  <2>2. <<i, u, L[u]>> \in mine /\ <<i, u, L[u]>>[2] = u
    BY <1>0
  <2> DEFINE c == CHOOSE r \in mine : r[2] = u
  <2>3. c \in mine /\ c[2] = u
    BY <2>2
  <2> HIDE DEF c
  <2>4. c = <<i, u, L[u]>>
    BY <2>1, <2>3
  <2>5. c[3] = L[u]
    BY <2>4
  <2> QED BY <2>5 DEF c
<1>3. RecordsOf(i) = [u \in DOMAIN L |-> L[u]]
  BY <1>1, <1>2 DEF RecordsOf, mine
<1>4. L = [u \in DOMAIN L |-> L[u]]
  BY IngestAssumption DEF IngestAssumption
<1> QED BY <1>3, <1>4

\* The records of a success are a list that was published.
LEMMA SuccessStored ==
  ASSUME CompleteInv, NEW i \in Successes
  PROVE RecordsOf(i) \in Lists /\ Publishes(RecordsOf(i)) /\ Stored(i)
<1>1. Stored(i)
  BY DEF CompleteInv, Whole, Successes
<1>2. PICK L \in Lists : Publishes(L) /\ Keeps(i, L, DOMAIN L)
  BY <1>1 DEF Stored
<1> QED BY <1>1, <1>2, RecordsAre

\* The latest success is there to be chosen.
LEMMA LastChosen ==
  ASSUME IngestTyped, Numbered, Successes # {}
  PROVE LET i == CHOOSE i \in Successes : \A k \in Successes : runs[k].order <= runs[i].order
        IN i \in Successes /\ \A k \in Successes : runs[k].order <= runs[i].order
<1> DEFINE S == {runs[i].order : i \in Successes}
<1>1. \A i \in Successes : runs[i].order \in Nat /\ runs[i].order <= Completed
  BY RowsTyped DEF RunType, Numbered, Successes
<1>2. S \in SUBSET Nat /\ S # {} /\ \A x \in S : x <= Completed
  BY <1>1
<1>3. Max(S) \in S /\ \A x \in S : x <= Max(S)
  <2> HIDE DEF S
  <2> QED BY <1>2, CompletedTyped, MaxIs
<1>4. PICK i \in Successes : runs[i].order = Max(S)
  BY <1>3
<1>5. \A k \in Successes : runs[k].order <= runs[i].order
  BY <1>3, <1>4
<1> QED BY <1>5

\* What the database remembers is the list of the last success, or nothing.
LEMMA DurableListed ==
  ASSUME IngestTyped, LedgerInv, CompleteInv
  PROVE /\ DurableBaseline \in Listed
        /\ DurableBaseline # NoList => Publishes(DurableBaseline)
        /\ Successes = {} => DurableBaseline = NoList
        /\ \A i \in Successes : Last(i) => DurableBaseline = RecordsOf(i)
<1>1. CASE Successes = {}
  BY <1>1 DEF DurableBaseline, Listed
<1>2. CASE Successes # {}
  <2> DEFINE i == CHOOSE i \in Successes : \A k \in Successes : runs[k].order <= runs[i].order
  <2>1. i \in Successes /\ \A k \in Successes : runs[k].order <= runs[i].order
    BY <1>2, LastChosen DEF LedgerInv
  <2>2. DurableBaseline = RecordsOf(i)
    BY <1>2 DEF DurableBaseline
  <2> HIDE DEF i
  <2>3. ASSUME NEW k \in Successes, Last(k) PROVE k = i
    <3>1. runs[k].order \in Nat /\ runs[i].order \in Nat /\ runs[k].order <= runs[i].order /\ runs[i].order <= runs[k].order
      BY <2>1, <2>3, RowsTyped DEF RunType, Last, Successes
    <3>2. runs[k].order # 0 /\ k \in DOMAIN runs /\ i \in DOMAIN runs
      BY <2>1 DEF LedgerInv, Numbered, Successes
    <3> QED BY <3>1, <3>2 DEF LedgerInv, Numbered
  <2> QED BY <1>2, <2>1, <2>2, <2>3, SuccessStored DEF Listed
<1> QED BY <1>1, <1>2

\* A step of one worker leaves the others and all rows but its own alone.
Others(w) ==
    /\ running[w] # Idle /\ UNCHANGED <<tick, published>> /\ DOMAIN runs' = DOMAIN runs
    /\ \A i \in DOMAIN runs : i # running[w].run => runs'[i] = runs[i]
    /\ \A v \in Workers \ {w} : running'[v] = running[v]
    /\ running'[w] = Idle \/ running'[w].run = running[w].run
    /\ runs[running[w].run].status # "success" /\ running[w].run \in DOMAIN runs
    /\ runs'[running[w].run].source = runs[running[w].run].source
    /\ runs'[running[w].run].worker = w /\ runs[running[w].run].worker = w
    /\ runs'[running[w].run].start = runs[running[w].run].start
    /\ runs[running[w].run].source = running[w].source

\* A step of a run is such a step.
LEMMA StepsOthers ==
  ASSUME IngestTyped, UnderWay, NEW w \in Workers, Steps(w)
  PROVE Others(w)
<1>0. UNCHANGED <<tick, published>>
  BY DEF Steps
<1>1. ASSUME NEW st \in Outcome, Ends(w, st) PROVE Others(w)
  <2>1. /\ UNCHANGED runs \/ ClosesRow(w, st)
        /\ running' = [running EXCEPT ![w] = Idle] /\ Open(w) /\ running[w] # Idle
    BY <1>1, EndsDoes DEF Ends
  <2> QED BY <1>0, <2>1 DEF Others, ClosesRow, Open, IngestTyped
<1>2. ASSUME NEW j, Advances(w, j) PROVE Others(w)
  <2>1. UNCHANGED runs /\ running' = [running EXCEPT ![w] = j] /\ running[w] # Idle /\ j.run = running[w].run
        /\ Open(w)
    BY <1>2 DEF Advances, Go, UnderWay
  <2> QED BY <1>0, <2>1 DEF Others, Open, IngestTyped
<1> QED BY <1>1, <1>2 DEF Steps

\* What else a step has to show.
LEMMA CompleteStep ==
  ASSUME IngestTyped, LedgerInv, CompleteInv, NEW w \in Workers, Others(w),
         NEW n, n = running[w].run, saved \subseteq saved', \A r \in saved' \ saved : r[1] = n,
         SoFar(w)', Answering(w)', Whole(n)', Aggregated'
  PROVE CompleteInv'
<1>1. \A r : r[1] # n => (r \in saved' <=> r \in saved)
  OBVIOUS
<1>2. ASSUME NEW v \in Workers PROVE SoFar(v)' /\ Answering(v)'
  <2>1. CASE v = w
    BY <2>1
  <2>2. CASE v # w
    <3>1. running'[v] = running[v] /\ SoFar(v) /\ Answering(v)
      BY <2>2 DEF CompleteInv, Others
    <3>2. Answering(v)'
      BY <3>1 DEF Answering
    <3>3. CASE running[v].source = "ofac"
      <4>1. running[v] # Idle
        BY <3>3 DEF Idle
      <4>2. running[v].run # n /\ running[v].run \in DOMAIN runs
        BY <4>1, <2>2, ApartRuns DEF Others, LedgerInv, UnderWay, Open
      <4>3. runs'[running[v].run] = runs[running[v].run]
        BY <4>2 DEF Others
      <4>4. SoFar(v)'
        BY <3>1, <4>2, <4>3, <1>1 DEF SoFar, Recorded, Others, Publishes, Keeps
      <4> QED BY <4>4, <3>2
    <3>4. CASE running[v].source # "ofac"
      BY <3>1, <3>2, <3>4 DEF SoFar
    <3> QED BY <3>3, <3>4
  <2> QED BY <2>1, <2>2
<1>3. ASSUME NEW i \in DOMAIN runs' PROVE Whole(i)'
  <2>1. CASE i = n
    BY <2>1
  <2>2. CASE i # n
    <3>1. runs'[i] = runs[i] /\ Whole(i)
      BY <2>2 DEF Others, CompleteInv
    <3>2. Stored(i) => Stored(i)'
      BY <2>2, <1>1 DEF Stored, Publishes, Keeps, Others
    <3> QED BY <3>1, <3>2 DEF Whole
  <2> QED BY <2>1, <2>2
<1>4. SavedOnly'
  BY DEF SavedOnly, CompleteInv, Others
<1> QED BY <1>2, <1>3, <1>4 DEF CompleteInv

\* Where the aggregate is not written its run stays closed.
LEMMA AggregateKept ==
  ASSUME LedgerInv, CompleteInv, NEW w \in Workers, Others(w), UNCHANGED aggregate
  PROVE Aggregated'
<1> SUFFICES ASSUME aggregate.by # 0
             PROVE /\ aggregate.by \in DOMAIN runs'
                   /\ runs'[aggregate.by].status \in {"success", "partial", "running", "absent"}
                   /\ \A v \in Workers : running'[v] # Idle => running'[v].run # aggregate.by
  BY DEF Aggregated
<1>1. /\ aggregate.by \in DOMAIN runs
      /\ runs[aggregate.by].status \in {"success", "partial", "running", "absent"}
      /\ \A v \in Workers : running[v] # Idle => running[v].run # aggregate.by
  BY DEF CompleteInv, Aggregated
<1>2. running[w].run # aggregate.by
  BY <1>1 DEF Others
<1> QED BY <1>1, <1>2 DEF Others

\* A run that fails completes nothing.
LEMMA FailComplete ==
  ASSUME IngestTyped, LedgerInv, CompleteInv, NEW w \in Workers, Ends(w, "failure"),
         UNCHANGED <<tick, published, saved, aggregate>>
  PROVE CompleteInv'
<1>1. Steps(w)
  BY DEF Steps, Outcome
<1>2. Others(w) /\ Aggregated'
  BY <1>1, StepsOthers, AggregateKept DEF LedgerInv
<1>3. /\ UNCHANGED runs \/ ClosesRow(w, "failure")
      /\ running' = [running EXCEPT ![w] = Idle] /\ Open(w)
  BY EndsDoes DEF Outcome, LedgerInv
<1>4. running'[w].source = "none"
  BY <1>3 DEF IngestTyped, Idle
<1>5. PICK n : n = running[w].run
  OBVIOUS
<1>6. Whole(n)'
  BY <1>3, <1>5 DEF ClosesRow, Open, Whole
<1>7. SoFar(w)' /\ Answering(w)'
  BY <1>4 DEF SoFar, Answering
<1> QED BY <1>2, <1>5, <1>6, <1>7, CompleteStep

\* A run that goes on closes nothing.
LEMMA GoComplete ==
  ASSUME IngestTyped, LedgerInv, CompleteInv, NEW w \in Workers, Steps(w), NEW j, Go(w, j),
         UNCHANGED aggregate, saved \subseteq saved', \A r \in saved' \ saved : r[1] = running[w].run,
         running[w] # Idle, SoFar(w)', Answering(w)'
  PROVE CompleteInv'
<1>1. Others(w) /\ Aggregated'
  BY StepsOthers, AggregateKept DEF LedgerInv
<1>2. UNCHANGED runs
  BY DEF Go
<1>3. PICK n : n = running[w].run
  OBVIOUS
<1>4. Whole(n)'
  BY <1>1, <1>2, <1>3 DEF Whole, Others
<1> QED BY <1>1, <1>3, <1>4, CompleteStep

\* Receiving a list: the run has saved nothing of it yet.
LEMMA ReceiveListComplete ==
  ASSUME IngestTyped, LedgerInv, CompleteInv, NEW w \in Workers, ReceiveList(w)
  PROVE CompleteInv'
<1>0. Steps(w)
  BY ReceiveListSteps, DurableListed DEF LedgerInv
<1> DEFINE L == published[Len(published)]
           before == IF baseline[w] = NoList THEN DurableBaseline ELSE baseline[w]
<1>1. running[w] \in JobType /\ running[w] # Idle /\ running[w].source = "ofac" /\ running[w].phase = "fetch"
      /\ UNCHANGED <<tick, published, saved, aggregate>>
  BY NotIdle DEF ReceiveList, Doing, SourceNames, tables
<1>2. CASE Raise(w)
  BY <1>1, <1>2, FailComplete DEF Raise, Ends, Outcome
<1>3. CASE Go(w, ReceivedList(w, L, before))
  <2> DEFINE j == ReceivedList(w, L, before)
  <2>1. j.source = "ofac" /\ j.run = running[w].run /\ j.phase = "save" /\ j.list = L /\ j.rows = DOMAIN L
    BY <1>1 DEF ReceivedList, JobType
  <2> HIDE DEF j
  <2>2. running'[w] = j
    BY <1>3 DEF Go, IngestTyped, j
  <2>3. \A r \in saved : r[1] # j.run
    BY <1>1, <2>1 DEF CompleteInv, SoFar
  <2>5. L \in Lists /\ Publishes(L)'
    <3>1. Len(published) \in DOMAIN published
      BY DEF IngestTyped
    <3> QED BY <3>1, <1>1, LatestListed DEF Publishes
  <2>6. SoFar(w)'
    BY <1>1, <2>1, <2>2, <2>3, <2>5 DEF SoFar, Keeps, Publishes
  <2>7. Answering(w)'
    BY <2>1, <2>2 DEF Answering
  <2> QED BY <1>0, <1>1, <1>3, <2>6, <2>7, GoComplete DEF j
<1> QED BY <1>2, <1>3 DEF ReceiveList, ReceivedList

\* A run that ends has done what its status says.
LEMMA EndComplete ==
  ASSUME IngestTyped, LedgerInv, CompleteInv, NEW w \in Workers, NEW st \in Outcome, Ends(w, st),
         UNCHANGED <<tick, published, saved>>, Aggregated',
         st = "success" =>
           /\ running[w].source = "ofac" /\ Recorded(w) => Stored(running[w].run)
           /\ running[w].source \in {"bars", "tariffs"} => running[w].done = UnitsOf(running[w].source)
  PROVE CompleteInv'
<1>1. Others(w)
  BY StepsOthers DEF LedgerInv, Steps
<1>2. /\ UNCHANGED runs \/ ClosesRow(w, st)
      /\ running' = [running EXCEPT ![w] = Idle] /\ Open(w)
  BY EndsDoes DEF LedgerInv
<1>3. SoFar(w)' /\ Answering(w)'
  <2>1. running'[w].source = "none"
    BY <1>2 DEF IngestTyped, Idle
  <2> QED BY <2>1 DEF SoFar, Answering
<1>4. PICK n : n = running[w].run
  OBVIOUS
<1>5. Whole(n)'
  <2>1. CASE UNCHANGED runs
    BY <2>1, <1>2, <1>4 DEF Whole, Open
  <2>2. CASE ClosesRow(w, st)
    <3>1. runs'[n].source = running[w].source /\ runs'[n].status = st /\ runs'[n].done = running[w].done /\ Recorded(w)
      BY <2>2, <1>2, <1>4 DEF ClosesRow, Open
    <3>2. Stored(n) => Stored(n)'
      BY DEF Stored, Publishes, Keeps
    <3> QED BY <3>1, <3>2, <1>4 DEF Whole
  <2> QED BY <2>1, <2>2, <1>2
<1> QED BY <1>1, <1>3, <1>4, <1>5, CompleteStep

\* Saving a record: one more entry of the list is saved.
LEMMA SaveRecordComplete ==
  ASSUME IngestTyped, LedgerInv, CompleteInv, NEW w \in Workers, SaveRecord(w)
  PROVE CompleteInv'
<1>0. Steps(w)
  BY SaveRecordSteps DEF LedgerInv
<1>1. running[w] \in JobType /\ running[w] # Idle /\ running[w].source = "ofac" /\ running[w].phase = "save"
      /\ running[w].rows # {} /\ UNCHANGED <<tick, published, aggregate>>
  BY NotIdle DEF SaveRecord, Doing, SourceNames
<1>2. ASSUME Raise(w), UNCHANGED saved PROVE CompleteInv'
  BY <1>1, <1>2, FailComplete DEF Raise, Ends, Outcome
<1>u. PICK u : u = CHOOSE v \in running[w].rows : TRUE
  OBVIOUS
<1>r. PICK R : R = running[w].rows
  OBVIOUS
<1>v. u \in R
  BY <1>1, <1>u, <1>r
<1>3. ASSUME saved' = IF Recorded(w) THEN saved \cup {<<running[w].run, u, running[w].list[u]>>} ELSE saved,
             Go(w, [running[w] EXCEPT !.rows = @ \ {u}])
      PROVE CompleteInv'
  <2> DEFINE j == [running[w] EXCEPT !.rows = @ \ {u}]
  <2>1. j.source = "ofac" /\ j.run = running[w].run /\ j.phase = "save" /\ j.list = running[w].list
        /\ j.rows = running[w].rows \ {u}
    BY <1>1 DEF JobType
  <2> HIDE DEF j
  <2>2. running'[w] = j /\ UNCHANGED runs
    BY <1>3 DEF Go, IngestTyped, j
  <2>3. PICK n : n = running[w].run
    OBVIOUS
  <2>4. PICK L : L = running[w].list
    OBVIOUS
  <2>5. L \in Lists /\ Publishes(L) /\ running[w].rows \subseteq DOMAIN L
        /\ (Recorded(w) => Keeps(n, L, DOMAIN L \ running[w].rows))
    BY <1>1, <2>3, <2>4 DEF CompleteInv, SoFar
  <2>6. Recorded(w)' <=> Recorded(w)
    BY <2>1, <2>2 DEF Recorded
  <2>7. ASSUME Recorded(w) PROVE Keeps(n, L, DOMAIN L \ (R \ {u}))'
    <3>1. saved' = saved \cup {<<n, u, L[u]>>} /\ u \in DOMAIN L /\ Keeps(n, L, DOMAIN L \ R)
      BY <2>7, <1>3, <2>3, <2>4, <2>5, <1>v, <1>r
    <3>2. DOMAIN L \ (R \ {u}) = (DOMAIN L \ R) \cup {u}
      BY <3>1
    <3> QED BY <3>1, <3>2 DEF Keeps
  <2>8. Publishes(L)'
    BY <1>1, <2>5 DEF Publishes
  <2>9. SoFar(w)'
    <3>1. running'[w].rows = R \ {u} /\ running'[w].list = L /\ running'[w].run = n
          /\ running'[w].source = "ofac" /\ running'[w].phase = "save" /\ R \ {u} \subseteq DOMAIN L
      BY <2>1, <2>2, <2>3, <2>4, <2>5, <1>r
    <3> QED BY <3>1, <2>5, <2>6, <2>7, <2>8 DEF SoFar
  <2>10. Answering(w)'
    BY <2>1, <2>2 DEF Answering
  <2>11. saved \subseteq saved' /\ \A r \in saved' \ saved : r[1] = running[w].run
    BY <1>3
  <2> QED BY <1>0, <1>1, <1>3, <2>9, <2>10, <2>11, GoComplete DEF j
<1> QED BY <1>2, <1>3, <1>u DEF SaveRecord

\* Saving a change: no record is touched.
LEMMA SaveChangeComplete ==
  ASSUME IngestTyped, LedgerInv, CompleteInv, NEW w \in Workers, SaveChange(w)
  PROVE CompleteInv'
<1>0. Steps(w)
  BY SaveChangeSteps DEF LedgerInv
<1>1. running[w] \in JobType /\ running[w] # Idle /\ running[w].source = "ofac" /\ running[w].phase = "save"
      /\ UNCHANGED <<tick, published, aggregate, saved>>
  BY NotIdle DEF SaveChange, Doing, SourceNames
<1>2. PICK c : Go(w, [running[w] EXCEPT !.found = @ \ {c}])
  BY DEF SaveChange
<1> DEFINE j == [running[w] EXCEPT !.found = @ \ {c}]
<1>3. j.source = "ofac" /\ j.run = running[w].run /\ j.phase = "save" /\ j.list = running[w].list
      /\ j.rows = running[w].rows
  BY <1>1 DEF JobType
<1> HIDE DEF j
<1>4. running'[w] = j /\ UNCHANGED runs
  BY <1>2 DEF Go, IngestTyped, j
<1>5. SoFar(w)'
  BY <1>1, <1>3, <1>4 DEF CompleteInv, SoFar, Recorded, Keeps, Publishes
<1>6. Answering(w)'
  BY <1>3, <1>4 DEF Answering
<1> QED BY <1>0, <1>1, <1>2, <1>5, <1>6, GoComplete DEF j

\* Closing the run of a list: the rest of it is empty, so it is saved in full.
LEMMA CloseListComplete ==
  ASSUME IngestTyped, LedgerInv, CompleteInv, NEW w \in Workers, CloseList(w)
  PROVE CompleteInv'
<1>0. Steps(w)
  BY CloseListSteps DEF LedgerInv
<1>1. running[w] \in JobType /\ running[w] # Idle /\ running[w].source = "ofac" /\ running[w].phase = "save"
      /\ running[w].rows = {} /\ UNCHANGED <<tick, published, aggregate, saved>>
  BY NotIdle DEF CloseList, Doing, SourceNames, tables
<1>2. [running[w].ctx EXCEPT !.persisted = TRUE] \in ContextType
  BY <1>1 DEF JobType, ContextType
<1>3. PICK st \in Outcome : Ends(w, st)
  BY <1>1, <1>2, StatusTyped DEF CloseList, Close, Ends, Outcome
<1>4. Recorded(w) => Stored(running[w].run)
  <2>1. PICK L : L = running[w].list
    OBVIOUS
  <2>2. L \in Lists /\ Publishes(L) /\ (Recorded(w) => Keeps(running[w].run, L, DOMAIN L \ running[w].rows))
    BY <1>1, <2>1 DEF CompleteInv, SoFar
  <2>3. DOMAIN L \ running[w].rows = DOMAIN L
    BY <1>1
  <2> QED BY <2>2, <2>3 DEF Stored
<1>5. Aggregated'
  BY <1>0, <1>1, StepsOthers, AggregateKept DEF LedgerInv
<1> QED BY <1>1, <1>3, <1>4, <1>5, EndComplete

\* A run answers for a unit or is partial.
LEMMA NextAnswering ==
  ASSUME NEW w \in Workers, NEW j \in JobType, j.source \in SourceNames \ {"ofac"}, j.units # <<>>,
         \A i \in DOMAIN j.units : j.units[i] \in UnitsOf(j.source), j.done \subseteq UnitsOf(j.source),
         j.source \in {"bars", "tariffs"} /\ ~j.ctx.partial =>
            \A u \in UnitsOf(j.source) : u \in j.done \/ \E i \in DOMAIN j.units : j.units[i] = u,
         NEW k \in JobType, k.source = j.source, k.units = Tail(j.units),
         \/ k.ctx.partial = j.ctx.partial /\ k.done = j.done \cup {Head(j.units)}
         \/ k.ctx.partial = (j.source # "funding"),
         running'[w] = k
  PROVE Answering(w)' /\ SoFar(w)'
<1>1. \A i \in DOMAIN j.units : j.units[i] = Head(j.units) \/ \E l \in DOMAIN Tail(j.units) : j.units[i] = Tail(j.units)[l]
  BY TailUnits DEF JobType
<1>2. SoFar(w)'
  BY DEF SoFar
<1>3. ASSUME j.source \in {"bars", "tariffs"}, ~k.ctx.partial, NEW u \in UnitsOf(j.source)
      PROVE u \in k.done \/ \E i \in DOMAIN k.units : k.units[i] = u
  <2>1. ~j.ctx.partial /\ k.done = j.done \cup {Head(j.units)}
    BY <1>3
  <2>2. u \in j.done \/ \E i \in DOMAIN j.units : j.units[i] = u
    BY <2>1, <1>3
  <2> QED BY <2>1, <2>2, <1>1
<1>4. Answering(w)'
  BY <1>3 DEF Answering
<1> QED BY <1>2, <1>4

\* Receiving the rows of a unit: it is answered, under way, or the run is partial.
LEMMA ReceiveRowsComplete ==
  ASSUME IngestTyped, LedgerInv, CompleteInv, NEW w \in Workers, NEW s \in Histories, ReceiveRows(w, s)
  PROVE CompleteInv'
<1>0. Steps(w)
  BY ReceiveRowsSteps DEF LedgerInv
<1>1. running[w] \in JobType /\ running[w] # Idle /\ running[w].source = s /\ s \in SourceNames \ {"ofac"}
      /\ running[w].phase = "fetch" /\ running[w].units # <<>> /\ Asks(running[w])
      /\ UNCHANGED <<tick, published, saved, aggregate>>
  BY NotIdle DEF ReceiveRows, Doing, SourceNames, Histories, LedgerInv, UnderWay, tables
<1>2. /\ \A i \in DOMAIN running[w].units : running[w].units[i] \in UnitsOf(s)
      /\ running[w].done \subseteq UnitsOf(s)
  BY <1>1 DEF Asks
<1>3. /\ Answered(running[w]) \in JobType /\ Answered(running[w]).source = s
      /\ Answered(running[w]).units = Tail(running[w].units) /\ Answered(running[w]).ctx = running[w].ctx
      /\ Answered(running[w]).done = running[w].done \cup {Head(running[w].units)}
      /\ Failed(running[w]) \in JobType /\ Failed(running[w]).source = s
      /\ Failed(running[w]).units = Tail(running[w].units)
      /\ Failed(running[w]).ctx.partial = (s # "funding")
  <2>1. running[w].ctx \in ContextType
    BY <1>1 DEF JobType
  <2>2. [running[w].ctx EXCEPT !.partial = s # "funding"].partial = (s # "funding")
    BY <2>1 DEF ContextType
  <2> QED BY <1>1, <1>2, <2>2, NextSteps
<1>4. s \in {"bars", "tariffs"} /\ ~running[w].ctx.partial =>
        \A u \in UnitsOf(s) : u \in running[w].done \/ \E i \in DOMAIN running[w].units : running[w].units[i] = u
  BY <1>1 DEF CompleteInv, Answering
<1>5. ASSUME Raise(w) PROVE CompleteInv'
  BY <1>1, <1>5, FailComplete DEF Raise, Ends, Outcome
<1>6. ASSUME NEW k, k \in {Answered(running[w]), Failed(running[w])}, Go(w, k) PROVE CompleteInv'
  <2>1. running'[w] = k
    BY <1>6 DEF Go, IngestTyped
  <2>2. /\ k \in JobType /\ k.source = s /\ k.units = Tail(running[w].units)
        /\ \/ k.ctx.partial = running[w].ctx.partial /\ k.done = running[w].done \cup {Head(running[w].units)}
           \/ k.ctx.partial = (s # "funding")
    BY <1>3, <1>6
  <2>3. Answering(w)' /\ SoFar(w)'
    BY <1>1, <1>2, <1>4, <2>1, <2>2, NextAnswering
  <2> QED BY <1>0, <1>1, <1>6, <2>3, GoComplete
<1>7. ASSUME NEW R, Go(w, [running[w] EXCEPT !.phase = "save", !.rows = R, !.ctx.received = @ \/ s = "bars"])
      PROVE CompleteInv'
  <2> DEFINE j == [running[w] EXCEPT !.phase = "save", !.rows = R, !.ctx.received = @ \/ s = "bars"]
  <2>1. j.source = s /\ j.units = running[w].units /\ j.done = running[w].done
        /\ j.ctx.partial = running[w].ctx.partial
    BY <1>1 DEF JobType, ContextType
  <2> HIDE DEF j
  <2>2. running'[w] = j
    BY <1>7 DEF Go, IngestTyped, j
  <2>3. Answering(w)' /\ SoFar(w)'
    BY <1>1, <1>4, <2>1, <2>2 DEF Answering, SoFar
  <2> QED BY <1>0, <1>1, <1>7, <2>3, GoComplete DEF j
<1> QED BY <1>5, <1>6, <1>7 DEF ReceiveRows

\* Saving a row: the last one answers for its unit.
LEMMA SaveRowComplete ==
  ASSUME IngestTyped, LedgerInv, CompleteInv, NEW w \in Workers, NEW s \in Histories, SaveRow(w, s)
  PROVE CompleteInv'
<1>0. Steps(w) /\ Doing(w, s, "save") /\ UNCHANGED <<tick, published, saved, aggregate>>
  BY SaveRowSteps DEF LedgerInv, SaveRow
<1> DEFINE j == Written(w, s)
<1>1. /\ running[w] \in JobType /\ running[w] # Idle /\ running[w].source = s /\ s \in SourceNames \ {"ofac"}
      /\ Asks(running[w]) /\ running[w].units # <<>>
      /\ j \in JobType /\ j.source = s /\ j.units = running[w].units
      /\ j.done = running[w].done /\ j.ctx.partial = running[w].ctx.partial
  BY <1>0, RowWritten DEF LedgerInv, Histories, SourceNames
<1> HIDE DEF j
<1>2. /\ \A i \in DOMAIN running[w].units : running[w].units[i] \in UnitsOf(s)
      /\ running[w].done \subseteq UnitsOf(s)
  BY <1>1 DEF Asks
<1>3. s \in {"bars", "tariffs"} /\ ~running[w].ctx.partial =>
        \A u \in UnitsOf(s) : u \in running[w].done \/ \E i \in DOMAIN running[w].units : running[w].units[i] = u
  BY <1>1 DEF CompleteInv, Answering
<1>4. ASSUME Raise(w) PROVE CompleteInv'
  BY <1>0, <1>1, <1>4, FailComplete DEF Raise, Ends, Outcome
<1>5. ASSUME Go(w, Answered(j)) PROVE CompleteInv'
  <2>1. running'[w] = Answered(j)
    BY <1>5 DEF Go, IngestTyped
  <2>2. /\ Answered(j) \in JobType /\ Answered(j).source = s /\ Answered(j).units = Tail(j.units)
        /\ Answered(j).ctx = j.ctx /\ Answered(j).done = j.done \cup {Head(j.units)}
    BY <1>1, <1>2, NextSteps
  <2>3. Answering(w)' /\ SoFar(w)'
    BY <1>1, <1>2, <1>3, <2>1, <2>2, NextAnswering
  <2> QED BY <1>0, <1>1, <1>5, <2>3, GoComplete
<1>6. ASSUME Go(w, j) PROVE CompleteInv'
  <2>1. running'[w] = j
    BY <1>6 DEF Go, IngestTyped
  <2>2. Answering(w)' /\ SoFar(w)'
    BY <1>1, <1>3, <2>1 DEF Answering, SoFar
  <2> QED BY <1>0, <1>1, <1>6, <2>2, GoComplete
<1>7. ASSUME s = "funding", Go(w, Failed([running[w] EXCEPT !.rows = {}])) PROVE CompleteInv'
  <2> DEFINE k == [running[w] EXCEPT !.rows = {}]
  <2>1. k \in JobType /\ k.source = s /\ k.units = running[w].units /\ k.done = running[w].done
    BY <1>1 DEF JobType
  <2> HIDE DEF k
  <2>2. running'[w] = Failed(k)
    BY <1>7 DEF Go, IngestTyped, k
  <2>3. Failed(k).source = s
    BY <1>1, <1>2, <2>1, NextSteps
  <2>4. Answering(w)' /\ SoFar(w)'
    BY <2>2, <2>3, <1>7 DEF Answering, SoFar
  <2> QED BY <1>0, <1>1, <1>7, <2>4, GoComplete DEF k
<1> QED BY <1>4, <1>5, <1>6, <1>7 DEF SaveRow, j

\* Closing a run of a history: none of its units is left.
LEMMA CloseRowsComplete ==
  ASSUME IngestTyped, LedgerInv, CompleteInv, NEW w \in Workers, NEW s \in Histories, CloseRows(w, s)
  PROVE CompleteInv'
<1>0. Steps(w)
  BY CloseRowsSteps DEF LedgerInv
<1>1. running[w] \in JobType /\ running[w] # Idle /\ running[w].source = s
      /\ running[w].units = <<>> /\ Asks(running[w]) /\ UNCHANGED <<tick, published, saved, aggregate>>
  BY NotIdle DEF CloseRows, Doing, SourceNames, Histories, LedgerInv, UnderWay, tables
<1> DEFINE c == [running[w].ctx EXCEPT !.outcome = IF running[w].done = {} THEN "failure" ELSE "success"]
<1>2. c \in ContextType /\ c.partial = running[w].ctx.partial
  BY <1>1 DEF JobType, ContextType
<1>3. Ends(w, RunStatus(c)) /\ RunStatus(c) \in Outcome
  BY <1>1, <1>2, StatusTyped DEF CloseRows, Close, Ends
<1> HIDE DEF c
<1>4. RunStatus(c) = "success" => ~running[w].ctx.partial
  BY <1>2 DEF RunStatus
<1>5. s = "bars" /\ ~running[w].ctx.partial => running[w].done = UnitsOf(s)
  <2>1. DOMAIN running[w].units = {} /\ running[w].done \subseteq UnitsOf(s)
    BY <1>1 DEF Asks
  <2>2. \A x \in UnitsOf(s) : s = "bars" /\ ~running[w].ctx.partial =>
           x \in running[w].done \/ \E i \in DOMAIN running[w].units : running[w].units[i] = x
    BY <1>1 DEF CompleteInv, Answering
  <2> QED BY <2>1, <2>2
<1>6. Aggregated'
  BY <1>0, <1>1, StepsOthers, AggregateKept DEF LedgerInv
<1> QED BY <1>1, <1>3, <1>4, <1>5, <1>6, EndComplete DEF Histories

\* Receiving a tariff batch: it is answered, or the run is partial.
LEMMA ReceiveBatchComplete ==
  ASSUME IngestTyped, LedgerInv, CompleteInv, NEW w \in Workers, ReceiveBatch(w)
  PROVE CompleteInv'
<1>0. Steps(w)
  BY ReceiveBatchSteps DEF LedgerInv
<1>1. running[w] \in JobType /\ running[w] # Idle /\ running[w].source = "tariffs"
      /\ running[w].units # <<>> /\ Asks(running[w]) /\ UNCHANGED <<tick, published, saved, aggregate>>
  BY NotIdle DEF ReceiveBatch, Doing, SourceNames, LedgerInv, UnderWay, tables
<1>2. /\ \A i \in DOMAIN running[w].units : running[w].units[i] \in UnitsOf("tariffs")
      /\ running[w].done \subseteq UnitsOf("tariffs") /\ "tariffs" \in SourceNames \ {"ofac"}
  BY <1>1 DEF Asks, SourceNames
<1>3. ~running[w].ctx.partial =>
        \A u \in UnitsOf("tariffs") : u \in running[w].done \/ \E i \in DOMAIN running[w].units : running[w].units[i] = u
  BY <1>1 DEF CompleteInv, Answering
<1>4. ASSUME NEW k \in JobType, k.source = "tariffs", k.units = Tail(running[w].units), Go(w, k),
             \/ k.ctx.partial = running[w].ctx.partial /\ k.done = running[w].done \cup {Head(running[w].units)}
             \/ k.ctx.partial = TRUE
      PROVE CompleteInv'
  <2>1. running'[w] = k
    BY <1>4 DEF Go, IngestTyped
  <2>2. Answering(w)' /\ SoFar(w)'
    BY <1>1, <1>2, <1>3, <1>4, <2>1, NextAnswering
  <2> QED BY <1>0, <1>1, <1>4, <2>2, GoComplete
<1> DEFINE a == Answered(running[w])
           f == Failed(running[w])
<1>5. /\ a \in JobType /\ a.source = "tariffs" /\ a.units = Tail(running[w].units)
      /\ a.ctx = running[w].ctx /\ a.done = running[w].done \cup {Head(running[w].units)}
      /\ f \in JobType /\ f.source = "tariffs" /\ f.units = Tail(running[w].units)
      /\ f.ctx = [running[w].ctx EXCEPT !.partial = "tariffs" # "funding"]
  BY <1>1, <1>2, NextSteps
<1> HIDE DEF a, f
<1>6. f.ctx.partial = TRUE
  BY <1>1, <1>5 DEF JobType, ContextType
<1>7. ASSUME NEW r \in BOOLEAN, Go(w, [a EXCEPT !.ctx.received = TRUE, !.ctx.persisted = @ \/ r]) PROVE CompleteInv'
  <2> DEFINE c == [a.ctx EXCEPT !.received = TRUE, !.persisted = @ \/ r]
             j == [a EXCEPT !.ctx = c]
  <2>1. c \in ContextType /\ c.partial = a.ctx.partial /\ j = [a EXCEPT !.ctx.received = TRUE, !.ctx.persisted = @ \/ r]
    BY <1>5 DEF JobType, ContextType
  <2> HIDE DEF c
  <2>2. j \in JobType /\ j.source = "tariffs" /\ j.units = a.units /\ j.ctx = c /\ j.done = a.done
    BY <1>5, <2>1 DEF JobType
  <2>3. Go(w, j)
    BY <1>7, <2>1
  <2> HIDE DEF j
  <2> QED BY <1>4, <1>5, <2>1, <2>2, <2>3
<1> QED BY <1>4, <1>5, <1>6, <1>7 DEF ReceiveBatch, RecordObservations, Recorded, a, f

\* Closing a tariff run: the aggregate is of a run that has ended.
LEMMA CloseTariffsComplete ==
  ASSUME IngestTyped, LedgerInv, CompleteInv, NEW w \in Workers, CloseTariffs(w)
  PROVE CompleteInv'
<1>0. Steps(w)
  BY CloseTariffsSteps DEF LedgerInv
<1>1. running[w] \in JobType /\ running[w] # Idle /\ running[w].source = "tariffs"
      /\ running[w].units = <<>> /\ Asks(running[w]) /\ UNCHANGED <<tick, published, saved>>
  BY NotIdle DEF CloseTariffs, Doing, SourceNames, LedgerInv, UnderWay
<1> DEFINE c == [running[w].ctx EXCEPT !.outcome = IF running[w].done = {} THEN "failure" ELSE "success"]
<1>2. c \in ContextType /\ c.partial = running[w].ctx.partial /\ (running[w].done # {} => c.outcome = "success")
  BY <1>1 DEF JobType, ContextType
<1>3. Ends(w, RunStatus(c)) /\ RunStatus(c) \in Outcome
  BY <1>1, <1>2, StatusTyped DEF CloseTariffs, Close, Ends
<1> HIDE DEF c
<1>4. RunStatus(c) = "success" => ~running[w].ctx.partial
  BY <1>2 DEF RunStatus
<1>5. ~running[w].ctx.partial => running[w].done = UnitsOf("tariffs")
  <2>1. DOMAIN running[w].units = {} /\ running[w].done \subseteq UnitsOf("tariffs")
    BY <1>1 DEF Asks
  <2>2. \A x \in UnitsOf("tariffs") : ~running[w].ctx.partial =>
           x \in running[w].done \/ \E i \in DOMAIN running[w].units : running[w].units[i] = x
    BY <1>1 DEF CompleteInv, Answering
  <2> QED BY <2>1, <2>2
<1>6. Aggregated'
  <2>1. CASE UNCHANGED aggregate
    BY <1>0, <2>1, StepsOthers, AggregateKept DEF LedgerInv
  <2>2. CASE /\ running[w].done # {}
             /\ aggregate' = [by |-> running[w].run,
                              failed |-> Len(Units["tariffs"]) - Cardinality(running[w].done)]
    <3>1. PICK n : n = running[w].run
      OBVIOUS
    <3>2. aggregate'.by = n
      BY <2>2, <3>1
    <3>3. RunStatus(c) \in {"success", "partial"}
      BY <1>2, <2>2 DEF RunStatus
    <3>4. /\ UNCHANGED runs \/ ClosesRow(w, RunStatus(c))
          /\ running' = [running EXCEPT ![w] = Idle] /\ Open(w)
      BY <1>3, EndsDoes DEF LedgerInv
    <3>5. n \in DOMAIN runs' /\ runs'[n].status \in {"success", "partial", "running", "absent"}
      BY <3>1, <3>3, <3>4 DEF ClosesRow, Open
    <3>6. \A v \in Workers : running'[v] # Idle => running'[v].run # n
      <4> TAKE v \in Workers
      <4> HAVE running'[v] # Idle
      <4>1. v # w /\ running'[v] = running[v]
        BY <3>4 DEF IngestTyped
      <4> QED BY <4>1, <1>1, <3>1, ApartRuns DEF LedgerInv
    <3> QED BY <3>2, <3>5, <3>6 DEF Aggregated
  <2> QED BY <2>1, <2>2 DEF CloseTariffs
<1> QED BY <1>1, <1>3, <1>4, <1>5, <1>6, EndComplete

\* A run of the news claims nothing.
LEMMA ReceiveNewsComplete ==
  ASSUME IngestTyped, LedgerInv, CompleteInv, NEW w \in Workers, ReceiveNews(w)
  PROVE CompleteInv'
<1>0. Steps(w)
  BY ReceiveNewsSteps DEF LedgerInv
<1>1. running[w] \in JobType /\ running[w] # Idle /\ running[w].source = "news"
      /\ UNCHANGED <<tick, published, saved, aggregate>>
  BY NotIdle DEF ReceiveNews, Doing, SourceNames
<1>2. PICK st \in Outcome : Ends(w, st)
  <2>1. /\ [running[w].ctx EXCEPT !.outcome = "success"] \in ContextType
        /\ [running[w].ctx EXCEPT !.outcome = "success", !.received = TRUE, !.persisted = TRUE] \in ContextType
    BY <1>1 DEF JobType, ContextType
  <2>2. \/ Raise(w) \/ Close(w, [running[w].ctx EXCEPT !.outcome = "success"])
        \/ Close(w, [running[w].ctx EXCEPT !.outcome = "success", !.received = TRUE, !.persisted = TRUE])
    BY DEF ReceiveNews
  <2> QED BY <2>1, <2>2, <1>1, StatusTyped DEF Close, Raise, Ends, Outcome
<1>3. Aggregated'
  BY <1>0, <1>1, StepsOthers, AggregateKept DEF LedgerInv
<1> QED BY <1>1, <1>2, <1>3, EndComplete

\* What no run did leaves what they completed.
LEMMA QuietComplete ==
  ASSUME LedgerInv, CompleteInv, UNCHANGED <<saved, aggregate>>, DOMAIN runs \subseteq DOMAIN runs',
         \A i \in DOMAIN runs : runs'[i] = runs[i],
         \A i \in DOMAIN runs' \ DOMAIN runs : runs'[i].status # "success",
         \A L : Publishes(L) => Publishes(L)',
         \A v \in Workers : \/ running'[v] \in {Idle, running[v]}
                            \/ SoFar(v)' /\ Answering(v)' /\ running'[v].run \notin DOMAIN runs
  PROVE CompleteInv'
<1>1. ASSUME NEW v \in Workers PROVE SoFar(v)' /\ Answering(v)'
  <2>1. CASE running'[v] = Idle
    <3>1. running'[v].source = "none"
      BY <2>1 DEF Idle
    <3> QED BY <3>1 DEF SoFar, Answering
  <2>2. CASE running'[v] = running[v] /\ running[v] # Idle
    <3>1. SoFar(v) /\ Answering(v) /\ running[v].run \in DOMAIN runs
      BY <2>2 DEF CompleteInv, LedgerInv, UnderWay, Open
    <3>2. Recorded(v)' <=> Recorded(v)
      BY <3>1, <2>2 DEF Recorded
    <3> QED BY <2>2, <3>1, <3>2 DEF SoFar, Answering, Keeps
  <2> QED BY <2>1, <2>2
<1>2. ASSUME NEW i \in DOMAIN runs' PROVE Whole(i)'
  <2>1. CASE i \in DOMAIN runs
    <3>1. Stored(i) => Stored(i)'
      BY DEF Stored, Keeps
    <3> QED BY <2>1, <3>1 DEF CompleteInv, Whole
  <2> QED BY <2>1 DEF Whole
<1>3. SavedOnly'
  BY DEF SavedOnly, CompleteInv
<1>4. Aggregated'
  BY DEF Aggregated, CompleteInv
<1> QED BY <1>1, <1>2, <1>3, <1>4 DEF CompleteInv

\* A run that begins has saved nothing and asks for all of its units.
LEMMA BeginComplete ==
  ASSUME IngestTyped, LedgerInv, CompleteInv, NEW w \in Workers, NEW s \in SourceNames, Begin(w, s)
  PROVE CompleteInv'
<1>1. PICK status \in {"running", "absent"} : StartRun(w, s, status)
  BY DEF Begin
<1>2. /\ running[w] = Idle /\ running' = [running EXCEPT ![w] = NewJob(s)] /\ UNCHANGED <<published, saved, aggregate>>
  BY DEF Begin, NewJob, tables
<1>3. /\ NewJob(s).source = s /\ NewJob(s).run = Len(runs) + 1 /\ NewJob(s).phase = "fetch"
      /\ NewJob(s).units = Units[s]
  BY DEF NewJob
<1>4. /\ DOMAIN runs' = DOMAIN runs \cup {Len(runs) + 1} /\ Len(runs) + 1 \notin DOMAIN runs
      /\ \A i \in DOMAIN runs : runs'[i] = runs[i]
      /\ runs'[Len(runs) + 1].status = status
  BY <1>1, StartDoes
<1>5. running'[w] = NewJob(s)
  BY <1>2 DEF IngestTyped
<1>6. SoFar(w)' /\ Answering(w)' /\ running'[w].run \notin DOMAIN runs
  <2>1. \A u \in UnitsOf(s) : \E i \in DOMAIN Units[s] : Units[s][i] = u
    BY DEF UnitsOf
  <2>2. \A r \in saved' : r[1] # Len(runs) + 1
    BY <1>2, <1>4 DEF CompleteInv, SavedOnly
  <2> QED BY <1>3, <1>4, <1>5, <2>1, <2>2 DEF SoFar, Answering
<1>7. \A v \in Workers : \/ running'[v] \in {Idle, running[v]}
                         \/ SoFar(v)' /\ Answering(v)' /\ running'[v].run \notin DOMAIN runs
  <2> TAKE v \in Workers
  <2>1. CASE v = w
    BY <1>6, <2>1
  <2>2. CASE v # w
    BY <1>2, <2>2 DEF IngestTyped
  <2> QED BY <2>1, <2>2
<1> HIDE DEF IngestTyped
<1>8. \A L : Publishes(L) => Publishes(L)'
  BY <1>2 DEF Publishes
<1> QED BY <1>2, <1>4, <1>7, <1>8, QuietComplete

\* A run that is skipped is no success.
LEMMA SkipComplete ==
  ASSUME IngestTyped, LedgerInv, CompleteInv, NEW w \in Workers, NEW s \in SourceNames, Skip(w, s)
  PROVE CompleteInv'
<1>1. StartRun(w, s, "skipped_lease") /\ UNCHANGED <<published, running, saved, aggregate>>
  BY DEF Skip, tables
<1>2. /\ DOMAIN runs' = DOMAIN runs \cup {Len(runs) + 1} /\ Len(runs) + 1 \notin DOMAIN runs
      /\ \A i \in DOMAIN runs : runs'[i] = runs[i]
      /\ runs'[Len(runs) + 1].status = "skipped_lease"
  BY <1>1, StartDoes
<1>3. \A L : Publishes(L) => Publishes(L)'
  BY <1>1 DEF Publishes
<1> QED BY <1>1, <1>2, <1>3, QuietComplete

\* A worker that stops leaves what is stored.
LEMMA CrashComplete ==
  ASSUME IngestTyped, LedgerInv, CompleteInv, NEW w \in Workers, Crash(w)
  PROVE CompleteInv'
<1>1. UNCHANGED <<published, runs, saved, aggregate>> /\ \A v \in Workers : running'[v] \in {Idle, running[v]}
  BY DEF Crash, tables, IngestTyped
<1>2. \A L : Publishes(L) => Publishes(L)'
  BY <1>1 DEF Publishes
<1> QED BY <1>1, <1>2, QuietComplete

\* An hour that passes changes neither lists nor rows.
LEMMA HourComplete ==
  ASSUME LedgerInv, CompleteInv, Hour
  PROVE CompleteInv'
<1>1. UNCHANGED <<published, runs, saved, aggregate, running>>
  BY DEF Hour, tables
<1>2. \A L : Publishes(L) => Publishes(L)'
  BY <1>1 DEF Publishes
<1> QED BY <1>1, <1>2, QuietComplete

\* What was published stays published.
LEMMA PublishedStays ==
  ASSUME IngestTyped, NEW L \in Lists, published' = Append(published, L)
  PROVE /\ DOMAIN published' = DOMAIN published \cup {Len(published) + 1}
        /\ \A k \in DOMAIN published : published'[k] = published[k] /\ k < Len(published) + 1
        /\ published'[Len(published) + 1] = L
BY DEF IngestTyped

\* A list that is published makes no other one unpublished.
LEMMA PublishComplete ==
  ASSUME IngestTyped, LedgerInv, CompleteInv, PublishList
  PROVE CompleteInv'
<1>1. UNCHANGED <<runs, saved, aggregate, running>>
  BY DEF PublishList, tables
<1>2. PICK L \in Lists : published' = Append(published, L)
  BY DEF PublishList
<1>3. \A M : Publishes(M) => Publishes(M)'
  BY <1>2, PublishedStays DEF Publishes
<1> QED BY <1>1, <1>3, QuietComplete


IngestInv == IngestTyped /\ LedgerInv /\ CompleteInv

\* Before the first run nothing is stored.
LEMMA IngestInitially == IngestInit => IngestInv
<1> SUFFICES ASSUME IngestInit PROVE IngestInv
  OBVIOUS
<1>1. /\ tick \in Nat /\ runs = <<>> /\ saved = {} /\ changes = {} /\ dropped = {}
      /\ baseline \in [Workers -> Listed] /\ running = [w \in Workers |-> Idle]
  BY IngestAssumption DEF IngestInit, IngestAssumption, Listed
<1>2. published \in Seq(Lists) /\ published # <<>>
  <2>1. PICK L \in Lists : published = <<L>>
    BY DEF IngestInit
  <2>2. <<L>> \in Seq(Lists) /\ <<L>> # <<>>
    OBVIOUS
  <2> QED BY <2>1, <2>2
<1>3. /\ DOMAIN series = Histories /\ series = [s \in Histories |-> series[s]]
      /\ \A s \in Histories : series[s] \in [UnitsOf(s) -> SUBSET Nat]
  BY DEF IngestInit, Histories
<1>4. aggregate \in [by : Nat, failed : Int] /\ aggregate.by = 0
  BY DEF IngestInit
<1>5. runs \in Seq(RunType) /\ DOMAIN runs = {}
  BY <1>1
<1>6. IngestTyped
  BY <1>1, <1>2, <1>3, <1>4, <1>5 DEF IngestTyped
<1>7. LedgerInv
  BY <1>1, <1>5 DEF LedgerInv, UnderWay, Numbered
<1>8. CompleteInv
  <2>1. \A w \in Workers : running[w].source = "none"
    BY <1>1 DEF Idle
  <2> QED BY <1>1, <1>4, <1>5, <2>1 DEF CompleteInv, SoFar, Answering, SavedOnly, Aggregated
<1> QED BY <1>6, <1>7, <1>8 DEF IngestInv

\* Every step of every worker keeps types, ledger and stored successes.
LEMMA IngestInductive == IngestInv /\ [IngestNext(SourceNames)]_ingestVars => IngestInv'
<1> SUFFICES ASSUME IngestInv, [IngestNext(SourceNames)]_ingestVars PROVE IngestInv'
  OBVIOUS
<1>0. IngestTyped /\ LedgerInv /\ CompleteInv /\ UnderWay
  BY DEF IngestInv, LedgerInv
<1>1. ASSUME NEW w \in Workers, NEW s \in SourceNames, Begin(w, s) PROVE IngestInv'
  BY <1>0, <1>1, BeginSteps, BeginComplete DEF IngestInv
<1>2. ASSUME NEW w \in Workers, NEW s \in SourceNames, Skip(w, s) PROVE IngestInv'
  BY <1>0, <1>2, SkipSteps, SkipComplete DEF IngestInv
<1>3. ASSUME NEW w \in Workers, ReceiveList(w) PROVE IngestInv'
  BY <1>0, <1>3, DurableListed, ReceiveListSteps, StepsLedger, ReceiveListComplete DEF IngestInv
<1>4. ASSUME NEW w \in Workers, SaveRecord(w) PROVE IngestInv'
  BY <1>0, <1>4, SaveRecordSteps, StepsLedger, SaveRecordComplete DEF IngestInv
<1>5. ASSUME NEW w \in Workers, SaveChange(w) PROVE IngestInv'
  BY <1>0, <1>5, SaveChangeSteps, StepsLedger, SaveChangeComplete DEF IngestInv
<1>6. ASSUME NEW w \in Workers, CloseList(w) PROVE IngestInv'
  BY <1>0, <1>6, CloseListSteps, StepsLedger, CloseListComplete DEF IngestInv
<1>7. ASSUME NEW w \in Workers, ReceiveBatch(w) PROVE IngestInv'
  BY <1>0, <1>7, ReceiveBatchSteps, StepsLedger, ReceiveBatchComplete DEF IngestInv
<1>8. ASSUME NEW w \in Workers, CloseTariffs(w) PROVE IngestInv'
  BY <1>0, <1>8, CloseTariffsSteps, StepsLedger, CloseTariffsComplete DEF IngestInv
<1>9. ASSUME NEW w \in Workers, ReceiveNews(w) PROVE IngestInv'
  BY <1>0, <1>9, ReceiveNewsSteps, StepsLedger, ReceiveNewsComplete DEF IngestInv
<1>10. ASSUME NEW w \in Workers, Crash(w) PROVE IngestInv'
  BY <1>0, <1>10, CrashSteps, CrashComplete DEF IngestInv
<1>11. ASSUME NEW w \in Workers, NEW s \in Histories, ReceiveRows(w, s) PROVE IngestInv'
  BY <1>0, <1>11, ReceiveRowsSteps, StepsLedger, ReceiveRowsComplete DEF IngestInv
<1>12. ASSUME NEW w \in Workers, NEW s \in Histories, SaveRow(w, s) PROVE IngestInv'
  BY <1>0, <1>12, SaveRowSteps, StepsLedger, SaveRowComplete DEF IngestInv
<1>13. ASSUME NEW w \in Workers, NEW s \in Histories, CloseRows(w, s) PROVE IngestInv'
  BY <1>0, <1>13, CloseRowsSteps, StepsLedger, CloseRowsComplete DEF IngestInv
<1>14. ASSUME Hour PROVE IngestInv'
  BY <1>0, <1>14, HourSteps, HourComplete DEF IngestInv
<1>15. ASSUME PublishList PROVE IngestInv'
  BY <1>0, <1>15, PublishSteps, PublishComplete DEF IngestInv
<1>16. ASSUME UNCHANGED ingestVars PROVE IngestInv'
  <2>1. UNCHANGED <<tick, published, runs, saved, changes, dropped, series, aggregate, baseline, running>>
    BY <1>16 DEF ingestVars
  <2>2. IngestTyped'
    BY <1>0, <2>1 DEF IngestTyped
  <2>3. LedgerInv'
    BY <1>0, <2>1 DEF LedgerInv, UnderWay, Open, Asks, Numbered, Completed
  <2>4. CompleteInv'
    BY <1>0, <2>1, QuietComplete DEF Publishes
  <2> QED BY <2>2, <2>3, <2>4 DEF IngestInv
<1> QED BY <1>1, <1>2, <1>3, <1>4, <1>5, <1>6, <1>7, <1>8, <1>9, <1>10, <1>11, <1>12, <1>13, <1>14, <1>15, <1>16
        DEF IngestNext, Histories

\* Types, ledger and stored successes hold in every run of any workers, lists
\* and units, with any windows, page sizes and bounds.
THEOREM IngestInvariant == IngestSpec => []IngestInv
BY IngestInitially, IngestInductive, PTL DEF IngestSpec

\* A source asks for each of its units once.
LEMMA UnitsCounted == \A s \in SourceNames : Cardinality(UnitsOf(s)) = Len(Units[s])
<1> TAKE s \in SourceNames
<1> DEFINE q == Units[s]
           n == Len(q)
<1>1. q \in Seq(AllUnits) /\ IsInjective(q)
  BY UnitsTyped, IngestAssumption DEF IngestAssumption
<1>2. n \in Nat /\ DOMAIN q = 1 .. n
  BY <1>1
<1>3. q \in Bijection(1 .. n, UnitsOf(s))
  <2>1. q \in [1 .. n -> UnitsOf(s)]
    BY <1>1, <1>2 DEF UnitsOf
  <2>2. \A a, b \in DOMAIN q : q[a] = q[b] => a = b
    BY <1>1 DEF IsInjective
  <2>3. \A u \in UnitsOf(s) : \E i \in 1 .. n : q[i] = u
    BY <1>2 DEF UnitsOf
  <2> HIDE DEF q
  <2> QED BY <1>2, <2>1, <2>2, <2>3 DEF Bijection, Injection, Surjection, IsInjective
<1>4. IsFiniteSet(1 .. n) /\ Cardinality(1 .. n) = n
  BY <1>2, FS_Interval
<1>5. Cardinality(UnitsOf(s)) = n
  <2> HIDE DEF q, n
  <2>1. ExistsBijection(1 .. n, UnitsOf(s))
    BY <1>3 DEF ExistsBijection
  <2> QED BY <2>1, <1>2, <1>4, FS_CountingElements, FS_Bijection
<1> QED BY <1>5 DEF q, n

\* In every run, whatever stopped, failed or overlapped: a run that the ledger
\* calls a success (RunLedger.finish_run) holds a published list to its last
\* record, or answers for each of its units, and an aggregate that claims every
\* batch is of a run that did not fail.
THEOREM CompleteSuccesses == IngestSpec => []SuccessIsComplete
<1>1. IngestInv => SuccessIsComplete
  <2> SUFFICES ASSUME IngestInv PROVE SuccessIsComplete
    OBVIOUS
  <2>1. ASSUME NEW i \in DOMAIN runs, runs[i].status = "success", runs[i].source = "ofac"
        PROVE \E k \in DOMAIN published : published[k] = RecordsOf(i)
    <3>1. Publishes(RecordsOf(i))
      BY <2>1, SuccessStored DEF IngestInv, Successes
    <3> QED BY <3>1 DEF Publishes
  <2>2. ASSUME NEW i \in DOMAIN runs, runs[i].status = "success", runs[i].source \in {"bars", "tariffs"}
        PROVE Cardinality(runs[i].done) = Len(Units[runs[i].source])
    <3>1. runs[i].done = UnitsOf(runs[i].source)
      BY <2>2 DEF IngestInv, CompleteInv, Whole
    <3> QED BY <3>1, <2>2, UnitsCounted DEF SourceNames
  <2>3. aggregate.by # 0 => runs[aggregate.by].status \in {"success", "partial", "running", "absent"}
    BY DEF IngestInv, CompleteInv, Aggregated
  <2> QED BY <2>1, <2>2, <2>3 DEF SuccessIsComplete
<1> QED BY <1>1, IngestInvariant, PTL

-----------------------------------------------------------------------------
(* Histories without holes.                                                *)

\* A page holds the oldest rows, without a hole.
LEMMA PageIs ==
  ASSUME NEW T \in Nat, NEW S \in SUBSET (1 .. T), Convex(S)
  PROVE Page(S) \subseteq S /\ Convex(Page(S)) /\ \A t \in Page(S) : First(Page(S), t) => First(S, t)
<1>0. \A v \in S : v \in Nat
  OBVIOUS
<1>1. Page(S) \subseteq S /\ \A v \in Page(S) : v \in S
  BY DEF Page, Oldest
<1>2. ASSUME NEW t \in Page(S), NEW x \in S, x <= t PROVE x \in Page(S)
  <2> DEFINE X == {v \in S : v < x}
             Y == {v \in S : v < t}
  <2>0. t \in S /\ t \in Nat /\ x \in Nat
    BY <1>0, <1>1, <1>2
  <2>1. X \subseteq Y /\ Y \subseteq 1 .. T
    <3>0. \A v \in S : v < x => v < t
      <4> SUFFICES ASSUME NEW v \in S, v < x PROVE v < t
        OBVIOUS
      <4>1. v \in Nat
        BY <1>0
      <4> QED BY <1>2, <2>0, <4>1
    <3>1. X \subseteq Y
      BY <3>0
    <3>2. Y \subseteq S
      OBVIOUS
    <3> QED BY <3>1, <3>2
  <2>2. IsFiniteSet(Y)
    <3> HIDE DEF Y
    <3>1. IsFiniteSet(1 .. T)
      BY FS_Interval
    <3> QED BY <2>1, <3>1, FS_Subset
  <2>3. Cardinality(X) <= Cardinality(Y) /\ Cardinality(X) \in Nat /\ Cardinality(Y) \in Nat
    <3> HIDE DEF X, Y
    <3> QED BY <2>1, <2>2, FS_Subset, FS_CardinalityType
  <2>4. Cardinality(Y) < PageRows /\ PageRows \in Nat
    BY <1>2, IngestAssumption DEF Page, Oldest, IngestAssumption
  <2>5. Cardinality(X) < PageRows
    <3> HIDE DEF X, Y
    <3> QED BY <2>3, <2>4
  <2> QED BY <2>5 DEF Page, Oldest
<1>3. Convex(Page(S))
  <2> SUFFICES ASSUME NEW a \in Page(S), NEW b \in Page(S), NEW x \in a .. b PROVE x \in Page(S)
    BY DEF Convex
  <2>1. a \in S /\ b \in S /\ x <= b
    BY <1>1
  <2>2. x \in S
    BY <2>1 DEF Convex
  <2> QED BY <1>2, <2>1, <2>2
<1>4. \A t \in Page(S) : First(Page(S), t) => First(S, t)
  <2> SUFFICES ASSUME NEW t \in Page(S), First(Page(S), t), NEW x \in S PROVE t <= x
    BY <1>1 DEF First
  <2>1. t \in S /\ t \in Nat /\ x \in Nat
    BY <1>0, <1>1
  <2> QED BY <1>2, <2>1 DEF First
<1> QED BY <1>1, <1>3, <1>4

\* What a coin is asked for next to what is held of it.
LEMMA FundingPage ==
  ASSUME IngestTyped, NEW h \in SUBSET (1 .. tick), NEW start
  PROVE /\ Convex(FundingRows(h))
        /\ \A t \in FundingRows(h) : First(FundingRows(h), t) => Adjoins(h, t, start)
<1>1. tick \in Nat /\ Bootstrap \in Nat
  BY IngestAssumption DEF IngestTyped, IngestAssumption
<1> DEFINE S == {t \in 1..tick : IF h = {} THEN t >= tick - Bootstrap ELSE t > Max(h)}
<1>2. h # {} => Max(h) \in h /\ Max(h) \in 1 .. tick
  <2>1. h \in SUBSET Nat /\ \A x \in h : x <= tick
    BY <1>1
  <2> QED BY <1>1, <2>1, MaxIs
<1>3. S \in SUBSET (1 .. tick) /\ Convex(S)
  BY <1>1, <1>2 DEF Convex
<1>4. ASSUME NEW t \in S, First(S, t) PROVE Adjoins(h, t, start)
  <2>1. CASE h = {}
    <3>1. From(tick) \in S
      BY <1>1, <1>4, <2>1 DEF From
    <3>2. t <= From(tick) /\ From(tick) <= t
      BY <1>1, <1>4, <2>1, <3>1 DEF From, First
    <3> QED BY <1>1, <1>4, <2>1, <3>2 DEF Adjoins, From
  <2>2. CASE h # {}
    <3> DEFINE m == Max(h)
    <3>1. m \in h /\ m \in 1 .. tick /\ t > m
      BY <1>2, <1>4, <2>2
    <3>2. m + 1 \in S
      BY <1>1, <1>4, <2>2, <3>1
    <3>3. t <= m + 1
      BY <1>4, <3>2 DEF First
    <3> HIDE DEF m
    <3>4. m - 1 <= t /\ t <= m + 1
      BY <1>1, <1>4, <3>1, <3>3
    <3> QED BY <2>2, <3>1, <3>4 DEF Adjoins
  <2> QED BY <2>1, <2>2
<1>5. FundingRows(h) = Page(S)
  BY DEF FundingRows
<1> HIDE DEF S
<1>6. Page(S) \subseteq S /\ Convex(Page(S)) /\ \A t \in Page(S) : First(Page(S), t) => First(S, t)
  BY <1>1, <1>3, PageIs
<1> QED BY <1>4, <1>5, <1>6

\* The bars of a symbol that are read hold what the window does.
LEMMA BarsRead ==
  ASSUME IngestTyped, NEW h, NEW u, NEW start \in Nat, start <= tick
  PROVE /\ Held(u, tick, start, BarRows(h))
        /\ BarRows(h) \subseteq 1 .. tick
BY IngestAssumption DEF IngestTyped, IngestAssumption, Held, BarRows

\* A row next to what is held leaves no hole.
LEMMA AdjoinsConvex ==
  ASSUME IngestTyped, NEW h \in SUBSET Nat, Convex(h), NEW t \in Nat, NEW start, Adjoins(h, t, start)
  PROVE Convex(h \cup {t})
<1>1. CASE h = {}
  BY <1>1 DEF Convex
<1>2. CASE h # {}
  <2>1. PICK a \in h, b \in h : a - 1 <= t /\ t <= b + 1
    BY <1>2 DEF Adjoins
  <2>2. \A x \in h : \A y \in x .. t : y \in h \cup {t}
    <3> TAKE x \in h
    <3> TAKE y \in x .. t
    <3>1. y \in x .. b \/ y = t
      BY <2>1
    <3> QED BY <3>1 DEF Convex
  <2>3. \A x \in h : \A y \in t .. x : y \in h \cup {t}
    <3> TAKE x \in h
    <3> TAKE y \in t .. x
    <3>1. y \in a .. x \/ y = t
      BY <2>1
    <3> QED BY <3>1 DEF Convex
  <2>4. t .. t = {t}
    OBVIOUS
  <2> QED BY <2>2, <2>3, <2>4 DEF Convex
<1> QED BY <1>1, <1>2

\* It stays next to what is held when another run adds a row, or starts the series.
LEMMA AdjoinsStays ==
  ASSUME IngestTyped, NEW h \in SUBSET Nat, NEW t \in Nat, NEW start, Adjoins(h, t, start),
         NEW x \in Nat, NEW from, Adjoins(h, x, from)
  PROVE Adjoins(h \cup {x}, t, start)
<1>1. CASE h = {}
  <2>1. t \in {From(tick), From(tick - 1)} /\ x \in {From(tick), From(tick - 1)}
    BY <1>1 DEF Adjoins
  <2>2. From(tick) - 1 <= From(tick - 1) /\ From(tick - 1) <= From(tick) /\ From(tick) \in Int /\ From(tick - 1) \in Int
    BY IngestAssumption DEF From, IngestTyped, IngestAssumption
  <2>3. x - 1 <= t /\ t <= x + 1
    BY <2>1, <2>2
  <2> QED BY <2>3 DEF Adjoins
<1>2. CASE h # {}
  BY <1>2 DEF Adjoins
<1> QED BY <1>1, <1>2

\* What a run works on, unit by unit.
LEMMA AsksUnits ==
  ASSUME IngestTyped, LedgerInv, NEW v \in Workers, NEW s \in Histories, running[v].source = s
  PROVE /\ running[v] # Idle /\ running[v] \in JobType /\ Open(v) /\ Asks(running[v])
        /\ running[v].done \subseteq UnitsOf(s)
        /\ running[v].phase = "save" => running[v].units # <<>> /\ Head(running[v].units) \in UnitsOf(s)
        /\ Started(v) \in Nat /\ Started(v) <= tick
<1>1. running[v] # Idle /\ running[v] \in JobType /\ Open(v) /\ Asks(running[v])
  BY JobTyped DEF Idle, Histories, LedgerInv, UnderWay
<1>2. running[v].phase = "save" => running[v].units # <<>> /\ Head(running[v].units) \in UnitsOf(s)
  <2>1. /\ running[v].phase = "save" => running[v].units # <<>>
        /\ \A i \in DOMAIN running[v].units : running[v].units[i] \in UnitsOf(s)
    BY <1>1 DEF Asks, Histories
  <2> QED BY <1>1, <2>1, TailUnits DEF JobType
<1>3. Started(v) \in Nat /\ Started(v) <= tick
  BY <1>1, RowsTyped DEF Open, Started, RunType, IngestTyped
<1>4. running[v].done \subseteq UnitsOf(s)
  BY <1>1 DEF Asks
<1> QED BY <1>1, <1>2, <1>3, <1>4

\* What a step of one worker has to show of the histories.
LEMMA GapStep ==
  ASSUME IngestTyped, LedgerInv, GapInv, NEW w \in Workers, Others(w), NEW n, n = running[w].run,
         \A s \in Histories : \A u \in UnitsOf(s) : series[s][u] \subseteq series'[s][u],
         Within', FundingWhole',
         \A u \in UnitsOf("funding") : \A t \in Nat : \A start :
             Adjoins(series["funding"][u], t, start) => Adjoins(series["funding"][u], t, start)',
         InTime(w)', Paged(w)', Seen(w)', Read(n)'
  PROVE GapInv'
<1>1. ASSUME NEW v \in Workers, v # w PROVE InTime(v)' /\ Paged(v)' /\ Seen(v)'
  <2>1. running'[v] = running[v] /\ tick' = tick /\ InTime(v) /\ Paged(v) /\ Seen(v)
    BY <1>1 DEF Others, GapInv
  <2>2. CASE running[v].source \notin Histories
    BY <2>1, <2>2 DEF InTime, Paged, Seen, Saving, Histories
  <2>3. CASE running[v].source \in Histories
    <3>1. PICK s \in Histories : running[v].source = s
      BY <2>3
    <3>2. /\ running[v] # Idle /\ Open(v)
          /\ running[v].done \subseteq UnitsOf(s)
          /\ running[v].phase = "save" => Head(running[v].units) \in UnitsOf(s)
      BY <3>1, AsksUnits
    <3>3. Started(v)' = Started(v)
      BY <1>1, <2>1, <3>2, ApartRuns DEF Others, Started, LedgerInv, Open
    <3>4. InTime(v)'
      BY <2>1 DEF InTime
    <3>5. Paged(v)'
      <4>1. CASE Saving(v, "funding")
        <5>1. PICK u : u = Head(running[v].units)
          OBVIOUS
        <5>2. PICK b : b = Started(v)
          OBVIOUS
        <5>3. PICK R : R = running[v].rows
          OBVIOUS
        <5>4. u \in UnitsOf("funding") /\ R \subseteq Nat
          BY <2>1, <3>1, <3>2, <4>1, <5>1, <5>3 DEF Saving, InTime, IngestTyped
        <5>5. Convex(R) /\ \A t \in R : First(R, t) => Adjoins(series["funding"][u], t, b)
          BY <2>1, <4>1, <5>1, <5>2, <5>3 DEF Paged
        <5>6. \A t \in R : First(R, t) => Adjoins(series["funding"][u], t, b)'
          BY <5>4, <5>5
        <5> QED BY <2>1, <3>3, <5>1, <5>2, <5>3, <5>5, <5>6 DEF Paged, Adjoins
      <4>2. CASE ~Saving(v, "funding")
        BY <2>1, <4>2 DEF Paged, Saving
      <4> QED BY <4>1, <4>2
    <3>6. Seen(v)'
      BY <2>1, <3>1, <3>2, <3>3 DEF Seen, Held, Histories
    <3> QED BY <3>4, <3>5, <3>6
  <2> QED BY <2>2, <2>3
<1>2. ASSUME NEW i \in DOMAIN runs' PROVE Read(i)'
  <2>1. CASE i = n
    BY <2>1
  <2>2. CASE i # n
    BY <2>2 DEF Others, GapInv, Read, Held, Histories
  <2> QED BY <2>1, <2>2
<1> QED BY <1>1, <1>2 DEF GapInv

\* Where nothing is written.
LEMMA SameSeries ==
  ASSUME IngestTyped, LedgerInv, GapInv, NEW w \in Workers, Others(w), NEW n, n = running[w].run,
         UNCHANGED series, InTime(w)', Paged(w)', Seen(w)', Read(n)'
  PROVE GapInv'
<1>1. tick' = tick
  BY DEF Others
<1>2. Within' /\ FundingWhole'
  BY <1>1 DEF GapInv, Within, FundingWhole
<1>3. \A u \in UnitsOf("funding") : \A t \in Nat : \A start :
          Adjoins(series["funding"][u], t, start) => Adjoins(series["funding"][u], t, start)'
  BY <1>1 DEF Adjoins
<1> QED BY <1>2, <1>3, GapStep

\* A run that ends has read, of what it answered for, all that the window held.
LEMMA EndGap ==
  ASSUME IngestTyped, LedgerInv, GapInv, NEW w \in Workers, NEW st \in Outcome, Ends(w, st),
         UNCHANGED <<tick, published, series>>
  PROVE GapInv'
<1>1. Others(w)
  BY StepsOthers DEF LedgerInv, Steps
<1>2. /\ UNCHANGED runs \/ ClosesRow(w, st)
      /\ running' = [running EXCEPT ![w] = Idle] /\ Open(w)
  BY EndsDoes DEF LedgerInv
<1>3. InTime(w)' /\ Paged(w)' /\ Seen(w)'
  <2>1. running'[w].source = "none"
    BY <1>2 DEF IngestTyped, Idle
  <2> QED BY <2>1 DEF InTime, Paged, Seen, Saving, Histories
<1>4. PICK n : n = running[w].run
  OBVIOUS
<1>5. Read(n)'
  <2>1. CASE UNCHANGED runs
    BY <2>1, <1>2, <1>4 DEF Read, Open, GapInv, Held
  <2>2. CASE ClosesRow(w, st)
    <3>1. runs'[n].source = running[w].source /\ runs'[n].done = running[w].done /\ runs'[n].at = tick
          /\ runs'[n].start = Started(w)
      BY <2>2, <1>2, <1>4 DEF ClosesRow, Open, Started
    <3>2. running[w].source = "bars" => \A u \in running[w].done : u \in UnitsOf("bars") /\ Held(u, tick, Started(w), {})
      BY AsksUnits DEF Histories, GapInv, Seen
    <3> QED BY <3>1, <3>2 DEF Read, Held
  <2> QED BY <2>1, <2>2, <1>2
<1> QED BY <1>1, <1>3, <1>4, <1>5, SameSeries

\* A run under way has claimed nothing yet.
LEMMA GoRead ==
  ASSUME LedgerInv, GapInv, NEW w \in Workers, running[w] # Idle, UNCHANGED runs,
         \A u \in UnitsOf("bars") : series["bars"][u] \subseteq series'["bars"][u]
  PROVE Read(running[w].run) /\ \A n : n = running[w].run => Read(n)'
<1>1. running[w].run \in DOMAIN runs
  BY DEF LedgerInv, UnderWay, Open
<1> QED BY <1>1 DEF GapInv, Read, Held

\* The sources without a history leave the histories.
LEMMA OtherGap ==
  ASSUME IngestTyped, LedgerInv, GapInv, NEW w \in Workers, Steps(w), running[w].source \notin Histories,
         UNCHANGED series
  PROVE GapInv'
<1>0. UNCHANGED <<tick, published>> /\ Others(w)
  BY StepsOthers DEF Steps, LedgerInv
<1>1. ASSUME NEW st \in Outcome, Ends(w, st) PROVE GapInv'
  BY <1>0, <1>1, EndGap
<1>2. ASSUME NEW j, Advances(w, j) PROVE GapInv'
  <2>1. running'[w] = j /\ j.source \notin Histories /\ running[w] # Idle /\ UNCHANGED runs
    BY <1>2 DEF Advances, Go, IngestTyped
  <2>2. InTime(w)' /\ Paged(w)' /\ Seen(w)'
    BY <2>1 DEF InTime, Paged, Seen, Saving, Histories
  <2>3. PICK n : n = running[w].run
    OBVIOUS
  <2>4. Read(n)'
    BY <2>1, <2>3, GoRead
  <2> QED BY <1>0, <2>2, <2>3, <2>4, SameSeries
<1> QED BY <1>1, <1>2 DEF Steps

\* What a run goes on with.
LEMMA GoesOn ==
  ASSUME NEW w \in Workers, NEW k, running'[w] = k, UNCHANGED <<tick, runs>>, k.run = running[w].run,
         NEW b, b = Started(w), k.rows \subseteq 1..tick,
         k.source = "funding" /\ k.phase = "save" =>
            /\ Convex(k.rows)
            /\ \A t \in k.rows : First(k.rows, t) => Adjoins(series["funding"][Head(k.units)], t, b)',
         k.source = "bars" =>
            /\ \A u \in k.done : Held(u, tick, b, {})'
            /\ k.phase = "save" => Held(Head(k.units), tick, b, k.rows)'
  PROVE InTime(w)' /\ Paged(w)' /\ Seen(w)'
<1>1. Started(w)' = b
  BY DEF Started
<1>2. InTime(w)'
  BY DEF InTime
<1>3. Paged(w)'
  BY <1>1 DEF Paged, Saving, Adjoins
<1>4. Seen(w)'
  BY <1>1 DEF Seen, Held
<1> QED BY <1>2, <1>3, <1>4

\* Receiving the rows of a unit: a page of funding rates goes on from what is
\* held, and the bars read are those of the window.
LEMMA ReceiveRowsGap ==
  ASSUME IngestTyped, LedgerInv, GapInv, NEW w \in Workers, NEW s \in Histories, ReceiveRows(w, s)
  PROVE GapInv'
<1>0. Steps(w) /\ UNCHANGED <<tick, published, series>>
  BY ReceiveRowsSteps DEF LedgerInv, ReceiveRows, tables
<1>1. running[w] \in JobType /\ running[w] # Idle /\ running[w].source = s /\ s \in SourceNames \ {"ofac"}
      /\ running[w].phase = "fetch" /\ running[w].units # <<>> /\ Asks(running[w]) /\ running[w].rows = {}
  BY NotIdle, FetchClean DEF ReceiveRows, Doing, SourceNames, Histories, LedgerInv, UnderWay
<1>2. /\ \A i \in DOMAIN running[w].units : running[w].units[i] \in UnitsOf(s)
      /\ running[w].done \subseteq UnitsOf(s)
  BY <1>1 DEF Asks
<1>3. Head(running[w].units) \in UnitsOf(s)
  BY <1>1, <1>2, TailUnits DEF JobType
<1>4. PICK b : b = Started(w)
  OBVIOUS
<1>5. b \in Nat /\ b <= tick
  BY <1>1, <1>4, AsksUnits
<1>6. PICK h : h = series[s][Unit(w)]
  OBVIOUS
<1>7. h \in SUBSET (1 .. tick)
  BY <1>3, <1>6 DEF GapInv, Within, Unit
<1>8. s = "bars" => \A u \in running[w].done : Held(u, tick, b, {})
  BY <1>1, <1>4 DEF GapInv, Seen
<1>9. /\ Answered(running[w]).source = s /\ Answered(running[w]).run = running[w].run
      /\ Answered(running[w]).rows = {} /\ Answered(running[w]).phase = "fetch"
      /\ Answered(running[w]).done = running[w].done \cup {Head(running[w].units)}
      /\ Failed(running[w]).source = s /\ Failed(running[w]).run = running[w].run
      /\ Failed(running[w]).rows = {} /\ Failed(running[w]).phase = "fetch"
      /\ Failed(running[w]).done = running[w].done
  BY <1>1, <1>2, NextSteps
<1>10. ASSUME NEW k, Go(w, k), k.source = s, k.run = running[w].run, k.rows \subseteq 1 .. tick,
              s = "funding" /\ k.phase = "save" =>
                 /\ Convex(k.rows)
                 /\ \A t \in k.rows : First(k.rows, t) => Adjoins(series["funding"][Head(k.units)], t, b),
              s = "bars" =>
                 /\ \A u \in k.done : Held(u, tick, b, {})
                 /\ k.phase = "save" => Held(Head(k.units), tick, b, k.rows)
       PROVE GapInv'
  <2>1. running'[w] = k /\ UNCHANGED runs
    BY <1>10 DEF Go, IngestTyped
  <2>2. /\ s = "bars" =>
           /\ \A u \in k.done : Held(u, tick, b, {})'
           /\ k.phase = "save" => Held(Head(k.units), tick, b, k.rows)'
        /\ s = "funding" /\ k.phase = "save" =>
           \A t \in k.rows : First(k.rows, t) => Adjoins(series["funding"][Head(k.units)], t, b)'
    BY <1>0, <1>10 DEF Held, Adjoins
  <2>3. InTime(w)' /\ Paged(w)' /\ Seen(w)'
    BY <1>0, <1>4, <1>10, <2>1, <2>2, GoesOn
  <2>4. PICK n : n = running[w].run
    OBVIOUS
  <2>5. Read(n)'
    BY <1>0, <1>1, <2>1, <2>4, GoRead
  <2> QED BY <1>0, <2>3, <2>4, <2>5, StepsOthers, SameSeries DEF LedgerInv
<1>11. ASSUME Raise(w) PROVE GapInv'
  BY <1>0, <1>1, <1>11, EndGap DEF Raise, Ends, Outcome
<1>12. ASSUME Go(w, Failed(running[w])) PROVE GapInv'
  BY <1>8, <1>9, <1>10, <1>12
<1> DEFINE rows == IF s = "funding" THEN FundingRows(h) ELSE BarRows(h)
<1>13. rows \subseteq 1 .. tick
  <2>1. h \in SUBSET Nat
    BY <1>7 DEF IngestTyped
  <2> QED BY <2>1, RowsRead
<1>14. s = "bars" => Held(Head(running[w].units), tick, b, rows)
  BY <1>5, BarsRead DEF Histories
<1>15. s = "funding" =>
          Convex(rows) /\ \A t \in rows : First(rows, t) => Adjoins(h, t, b)
  BY <1>7, FundingPage
<1> HIDE DEF rows
<1>16. ASSUME rows = {}, Go(w, Answered(running[w])) PROVE GapInv'
  BY <1>8, <1>9, <1>10, <1>14, <1>16
<1>17. ASSUME Go(w, [running[w] EXCEPT !.phase = "save", !.rows = rows, !.ctx.received = @ \/ s = "bars"])
       PROVE GapInv'
  <2> DEFINE k == [running[w] EXCEPT !.phase = "save", !.rows = rows, !.ctx.received = @ \/ s = "bars"]
  <2>1. k.source = s /\ k.run = running[w].run /\ k.rows = rows /\ k.phase = "save"
        /\ k.units = running[w].units /\ k.done = running[w].done
    BY <1>1 DEF JobType
  <2>2. Go(w, k)
    BY <1>17
  <2> HIDE DEF k
  <2>3. s = "funding" => \A t \in rows : First(rows, t) => Adjoins(series["funding"][Head(k.units)], t, b)
    BY <1>6, <1>15, <2>1 DEF Unit
  <2> QED BY <1>8, <1>10, <1>13, <1>14, <1>15, <2>1, <2>2, <2>3
<1> QED BY <1>6, <1>11, <1>12, <1>16, <1>17 DEF ReceiveRows, rows

\* Closing a run of a history: what it answered for is held.
LEMMA CloseRowsGap ==
  ASSUME IngestTyped, LedgerInv, GapInv, NEW w \in Workers, NEW s \in Histories, CloseRows(w, s)
  PROVE GapInv'
<1>1. running[w] \in JobType /\ running[w] # Idle /\ UNCHANGED <<tick, published, series>>
  BY NotIdle DEF CloseRows, Doing, SourceNames, Histories, tables
<1>2. [running[w].ctx EXCEPT !.outcome = IF running[w].done = {} THEN "failure" ELSE "success"] \in ContextType
  BY <1>1 DEF JobType, ContextType
<1>3. PICK st \in Outcome : Ends(w, st)
  BY <1>1, <1>2, StatusTyped DEF CloseRows, Close, Ends
<1> QED BY <1>1, <1>3, EndGap

\* The first row of a page without a hole is next to what is held, and so is the
\* one after it.
LEMMA PageGoesOn ==
  ASSUME NEW R \in SUBSET Nat, Convex(R), NEW t \in Nat, First(R, t)
  PROVE /\ Convex(R \ {t})
        /\ \A x \in R \ {t} : First(R \ {t}, x) => \A h, b : Adjoins(h \cup {t}, x, b)
<1>1. Convex(R \ {t})
  <2> SUFFICES ASSUME NEW a \in R \ {t}, NEW b \in R \ {t}, NEW y \in a .. b PROVE y \in R \ {t}
    BY DEF Convex
  <2>1. y \in R
    BY DEF Convex
  <2>2. t <= a /\ t # a /\ a <= y /\ a \in Nat /\ y \in Int
    BY DEF First
  <2> QED BY <2>1, <2>2
<1>2. ASSUME NEW x \in R \ {t}, First(R \ {t}, x), NEW h, NEW b PROVE Adjoins(h \cup {t}, x, b)
  <2>1. x \in Nat /\ t <= x /\ t # x /\ t \in R
    BY DEF First
  <2>2. t + 1 \in t .. x /\ t + 1 # t
    BY <2>1
  <2>3. t + 1 \in R
    BY <2>1, <2>2 DEF Convex
  <2>4. x <= t + 1
    BY <1>2, <2>2, <2>3 DEF First
  <2>5. t - 1 <= x /\ x <= t + 1 /\ t \in h \cup {t} /\ h \cup {t} # {}
    BY <2>1, <2>4
  <2> QED BY <2>5 DEF Adjoins
<1> QED BY <1>1, <1>2

\* Saving a row: it adjoins what is held, also where another run added to it
\* in between, and the rest of the page adjoins the row.
LEMMA SaveRowGap ==
  ASSUME IngestTyped, LedgerInv, GapInv, NEW w \in Workers, NEW s \in Histories, SaveRow(w, s)
  PROVE GapInv'
<1>0. Steps(w) /\ Doing(w, s, "save") /\ UNCHANGED <<tick, published>>
  BY SaveRowSteps DEF LedgerInv, SaveRow
<1> DEFINE j == Written(w, s)
<1>1. /\ running[w] \in JobType /\ running[w] # Idle /\ running[w].source = s /\ s \in SourceNames \ {"ofac"}
      /\ running[w].phase = "save" /\ Asks(running[w]) /\ running[w].units # <<>> /\ Unit(w) \in UnitsOf(s)
      /\ running[w].rows \in SUBSET Nat /\ NextRow(w) \in Nat /\ First(running[w].rows, NextRow(w))
      /\ j \in JobType /\ j.source = s /\ j.units = running[w].units /\ j.run = running[w].run
      /\ j.done = running[w].done /\ j.rows = running[w].rows \ {NextRow(w)} /\ j.phase = "save"
  BY <1>0, RowWritten DEF LedgerInv, Histories, SourceNames, First
<1> HIDE DEF j
<1>2. /\ \A i \in DOMAIN running[w].units : running[w].units[i] \in UnitsOf(s)
      /\ running[w].done \subseteq UnitsOf(s)
  BY <1>1 DEF Asks
<1>3. PICK u, t, R, h, b : u = Unit(w) /\ t = NextRow(w) /\ R = running[w].rows /\ h = series[s][u] /\ b = Started(w)
  OBVIOUS
<1>4. /\ u \in UnitsOf(s) /\ t \in Nat /\ R \in SUBSET Nat /\ First(R, t) /\ R \subseteq 1 .. tick
      /\ h \in SUBSET Nat /\ u = Head(running[w].units)
  BY <1>1, <1>3 DEF GapInv, InTime, IngestTyped, Unit
<1>5. s = "funding" => Convex(R) /\ Convex(h) /\ Adjoins(h, t, b)
  <2>1. s = "funding" => Saving(w, "funding") /\ Paged(w) /\ FundingWhole
    BY <1>1 DEF GapInv, Saving
  <2> QED BY <1>3, <1>4, <2>1 DEF Paged, FundingWhole, First
<1>6. s = "bars" => (\A v \in running[w].done : Held(v, tick, b, {})) /\ Held(u, tick, b, R)
  BY <1>1, <1>3, <1>4 DEF GapInv, Seen
<1>7. PICK n : n = running[w].run
  OBVIOUS
<1>8. ASSUME Raise(w), UNCHANGED series PROVE GapInv'
  BY <1>0, <1>1, <1>8, EndGap DEF Raise, Ends, Outcome
<1>9. ASSUME s = "funding", UNCHANGED series, Go(w, Failed([running[w] EXCEPT !.rows = {}])) PROVE GapInv'
  <2> DEFINE k == [running[w] EXCEPT !.rows = {}]
  <2>1. k \in JobType /\ k.source = s /\ k.units = running[w].units /\ k.done = running[w].done /\ k.rows = {}
        /\ k.run = running[w].run
    BY <1>1 DEF JobType
  <2>2. Go(w, Failed(k))
    BY <1>9
  <2> HIDE DEF k
  <2>3. Failed(k).source = s /\ Failed(k).rows = {} /\ Failed(k).phase = "fetch" /\ Failed(k).run = running[w].run
    BY <1>1, <1>2, <2>1, NextSteps
  <2>4. running'[w] = Failed(k) /\ UNCHANGED runs
    BY <2>2 DEF Go, IngestTyped
  <2>5. InTime(w)' /\ Paged(w)' /\ Seen(w)'
    BY <2>3, <2>4, <1>9 DEF InTime, Paged, Seen, Saving
  <2>6. Read(n)'
    BY <1>1, <1>7, <1>9, <2>4, GoRead
  <2> QED BY <1>0, <1>7, <1>9, <2>5, <2>6, StepsOthers, SameSeries DEF LedgerInv
<1>10. ASSUME series' = [series EXCEPT ![s][Unit(w)] = @ \cup {NextRow(w)}],
              NEW k, Go(w, k), k \in {j, Answered(j)}, k = Answered(j) => R \ {t} = {}
       PROVE GapInv'
  <2>1. series' = [series EXCEPT ![s][u] = @ \cup {t}]
    BY <1>3, <1>10
  <2>2. \A x \in Histories : \A v \in UnitsOf(x) :
           series'[x][v] = IF x = s /\ v = u THEN h \cup {t} ELSE series[x][v]
    BY <1>3, <1>4, <2>1, SeriesTyped
  <2>3. \A x \in Histories : \A v \in UnitsOf(x) : series[x][v] \subseteq series'[x][v]
    BY <1>3, <2>2
  <2>4. Within'
    BY <1>0, <1>3, <1>4, <2>2 DEF Within, GapInv, First
  <2>5. FundingWhole'
    <3>1. s = "funding" => Convex(h \cup {t})
      BY <1>4, <1>5, AdjoinsConvex
    <3> QED BY <1>3, <2>2, <3>1 DEF FundingWhole, GapInv, Histories
  <2>6. \A v \in UnitsOf("funding") : \A x \in Nat : \A a :
          Adjoins(series["funding"][v], x, a) => Adjoins(series["funding"][v], x, a)'
    <3> SUFFICES ASSUME NEW v \in UnitsOf("funding"), NEW x \in Nat, NEW a, Adjoins(series["funding"][v], x, a)
                 PROVE Adjoins(series["funding"][v], x, a)'
      OBVIOUS
    <3>1. CASE s = "funding" /\ v = u
      <4>1. series'["funding"][v] = h \cup {t} /\ Adjoins(h, x, a)
        BY <1>3, <2>2, <3>1
      <4>2. Adjoins(h \cup {t}, x, a)
        BY <1>4, <1>5, <3>1, <4>1, AdjoinsStays
      <4> QED BY <1>0, <4>1, <4>2 DEF Adjoins
    <3>2. CASE ~(s = "funding" /\ v = u)
      <4>1. series'["funding"][v] = series["funding"][v]
        BY <2>2, <3>2 DEF Histories
      <4> QED BY <1>0, <4>1 DEF Adjoins
    <3> QED BY <3>1, <3>2
  <2>7. /\ k.source = s /\ k.run = running[w].run /\ k.rows = R \ {t}
        /\ \/ k.units = running[w].units /\ k.done = running[w].done /\ k.phase = "save"
           \/ k.phase = "fetch" /\ k.rows = {} /\ k.done = running[w].done \cup {u}
    <3>1. /\ Answered(j).source = s /\ Answered(j).run = j.run /\ Answered(j).rows = j.rows
          /\ Answered(j).phase = "fetch" /\ Answered(j).done = j.done \cup {Head(j.units)}
      BY <1>1, <1>2, NextSteps
    <3> QED BY <1>1, <1>3, <1>4, <1>10, <3>1
  <2>8. running'[w] = k /\ UNCHANGED runs
    BY <1>10 DEF Go, IngestTyped
  <2>9. s = "funding" /\ k.phase = "save" =>
           /\ Convex(k.rows)
           /\ \A x \in k.rows : First(k.rows, x) => Adjoins(series["funding"][Head(k.units)], x, b)'
    <3> SUFFICES ASSUME s = "funding", k.phase = "save"
                 PROVE /\ Convex(k.rows)
                       /\ \A x \in k.rows : First(k.rows, x) => Adjoins(series["funding"][Head(k.units)], x, b)'
      OBVIOUS
    <3>1. series'["funding"][Head(k.units)] = h \cup {t}
      BY <1>3, <1>4, <2>2, <2>7
    <3>2. Convex(R \ {t}) /\ \A x \in R \ {t} : First(R \ {t}, x) => Adjoins(h \cup {t}, x, b)
      BY <1>4, <1>5, PageGoesOn
    <3>3. \A x \in R \ {t} : Adjoins(h \cup {t}, x, b) => Adjoins(series["funding"][Head(k.units)], x, b)'
      BY <1>0, <3>1 DEF Adjoins
    <3> QED BY <2>7, <3>2, <3>3
  <2>10. s = "bars" =>
            /\ \A v \in k.done : Held(v, tick, b, {})'
            /\ k.phase = "save" => Held(Head(k.units), tick, b, k.rows)'
    <3> SUFFICES ASSUME s = "bars"
                 PROVE /\ \A v \in k.done : Held(v, tick, b, {})'
                       /\ k.phase = "save" => Held(Head(k.units), tick, b, k.rows)'
      OBVIOUS
    <3>1. Held(u, tick, b, k.rows)'
      BY <1>0, <1>3, <1>4, <1>6, <2>2, <2>7 DEF Held
    <3>2. \A v \in running[w].done : Held(v, tick, b, {})'
      BY <1>0, <1>2, <1>6, <2>3 DEF Held
    <3> QED BY <1>4, <2>7, <3>1, <3>2
  <2>11. InTime(w)' /\ Paged(w)' /\ Seen(w)'
    <3>1. k.rows \subseteq 1 .. tick
      BY <1>4, <2>7
    <3> QED BY <1>0, <1>3, <2>7, <2>8, <2>9, <2>10, <3>1, GoesOn
  <2>12. Read(n)'
    BY <1>1, <1>7, <2>3, <2>8, GoRead DEF Histories
  <2>13. Others(w)
    BY <1>0, StepsOthers DEF LedgerInv
  <2> QED BY <1>7, <2>3, <2>4, <2>5, <2>6, <2>11, <2>12, <2>13, GapStep
<1>11. j.rows = {} => R \ {t} = {}
  BY <1>1, <1>3
<1>12. ASSUME series' = [series EXCEPT ![s][Unit(w)] = @ \cup {NextRow(w)}],
              Go(w, IF j.rows = {} THEN Answered(j) ELSE j)
       PROVE GapInv'
  <2>1. CASE j.rows = {}
    BY <1>10, <1>11, <1>12, <2>1
  <2>2. CASE j.rows # {}
    <3>1. j # Answered(j)
      <4>1. Answered(j).phase = "fetch"
        BY <1>1, <1>2, NextSteps
      <4> QED BY <1>1, <4>1
    <3> QED BY <1>10, <1>12, <2>2, <3>1
  <2> QED BY <2>1, <2>2
<1> QED BY <1>8, <1>9, <1>12 DEF SaveRow, j

\* What no run did leaves the histories.
LEMMA QuietGap ==
  ASSUME IngestTyped, LedgerInv, GapInv, UNCHANGED <<tick, series>>, DOMAIN runs \subseteq DOMAIN runs',
         \A i \in DOMAIN runs : runs'[i] = runs[i],
         \A i \in DOMAIN runs' \ DOMAIN runs : runs'[i].done = {},
         \A v \in Workers : running'[v] \in {Idle, running[v]} \/ (InTime(v)' /\ Paged(v)' /\ Seen(v)')
  PROVE GapInv'
<1>1. ASSUME NEW v \in Workers PROVE InTime(v)' /\ Paged(v)' /\ Seen(v)'
  <2>1. CASE running'[v] = Idle
    <3>1. running'[v].source = "none"
      BY <2>1 DEF Idle
    <3> QED BY <3>1 DEF InTime, Paged, Seen, Saving, Histories
  <2>2. CASE running'[v] = running[v] /\ running[v] # Idle
    <3>1. InTime(v) /\ Paged(v) /\ Seen(v) /\ Started(v)' = Started(v)
      BY <2>2 DEF GapInv, LedgerInv, UnderWay, Open, Started
    <3> QED BY <2>2, <3>1 DEF InTime, Paged, Seen, Saving, Held, Adjoins
  <2> QED BY <2>1, <2>2
<1>2. ASSUME NEW i \in DOMAIN runs' PROVE Read(i)'
  BY DEF Read, Held, GapInv
<1>3. Within' /\ FundingWhole'
  BY DEF Within, FundingWhole, GapInv
<1> QED BY <1>1, <1>2, <1>3 DEF GapInv

\* A run that begins has read nothing.
LEMMA BeginGap ==
  ASSUME IngestTyped, LedgerInv, GapInv, NEW w \in Workers, NEW s \in SourceNames, Begin(w, s)
  PROVE GapInv'
<1>1. PICK status \in {"running", "absent"} : StartRun(w, s, status)
  BY DEF Begin
<1>2. /\ running[w] = Idle /\ running' = [running EXCEPT ![w] = NewJob(s)] /\ UNCHANGED <<tick, series>>
  BY DEF Begin, NewJob, tables
<1>3. NewJob(s).phase = "fetch" /\ NewJob(s).rows = {} /\ NewJob(s).done = {}
  BY DEF NewJob
<1>4. /\ DOMAIN runs' = DOMAIN runs \cup {Len(runs) + 1}
      /\ \A i \in DOMAIN runs : runs'[i] = runs[i]
      /\ runs'[Len(runs) + 1].done = {}
  BY <1>1, StartDoes
<1>5. running'[w] = NewJob(s)
  BY <1>2 DEF IngestTyped
<1>6. InTime(w)' /\ Paged(w)' /\ Seen(w)'
  BY <1>3, <1>5 DEF InTime, Paged, Seen, Saving
<1>7. ASSUME NEW v \in Workers
      PROVE running'[v] \in {Idle, running[v]} \/ (InTime(v)' /\ Paged(v)' /\ Seen(v)')
  <2>1. CASE v = w
    BY <1>6, <2>1
  <2>2. CASE v # w
    BY <1>2, <2>2 DEF IngestTyped
  <2> QED BY <2>1, <2>2
<1> QED BY <1>2, <1>4, <1>7, QuietGap

\* A run that is skipped reads nothing.
LEMMA SkipGap ==
  ASSUME IngestTyped, LedgerInv, GapInv, NEW w \in Workers, NEW s \in SourceNames, Skip(w, s)
  PROVE GapInv'
<1>1. StartRun(w, s, "skipped_lease") /\ UNCHANGED <<tick, series, running>>
  BY DEF Skip, tables
<1>2. /\ DOMAIN runs' = DOMAIN runs \cup {Len(runs) + 1}
      /\ \A i \in DOMAIN runs : runs'[i] = runs[i]
      /\ runs'[Len(runs) + 1].done = {}
  BY <1>1, StartDoes
<1> QED BY <1>1, <1>2, QuietGap

\* A worker that stops leaves the rows as far as they were written.
LEMMA CrashGap ==
  ASSUME IngestTyped, LedgerInv, GapInv, NEW w \in Workers, Crash(w)
  PROVE GapInv'
<1>1. UNCHANGED <<tick, runs, series>> /\ \A v \in Workers : running'[v] \in {Idle, running[v]}
  BY DEF Crash, tables, IngestTyped
<1> QED BY <1>1, QuietGap

\* An hour finds no run but those that started in the one before.
LEMMA HourGap ==
  ASSUME IngestTyped, LedgerInv, GapInv, Hour
  PROVE GapInv'
<1>1. tick \in Nat /\ tick' = tick + 1 /\ UNCHANGED <<runs, series, running>>
      /\ \A w \in Workers : running[w] # Idle => Started(w) = tick
  BY DEF Hour, tables, IngestTyped, Started
<1>2. Within' /\ FundingWhole'
  <2>1. 1 .. tick \subseteq 1 .. tick'
    BY <1>1
  <2> QED BY <1>1, <2>1 DEF Within, FundingWhole, GapInv
<1>3. ASSUME NEW i \in DOMAIN runs' PROVE Read(i)'
  BY <1>1, <1>3 DEF Read, Held, GapInv
<1>4. ASSUME NEW w \in Workers PROVE InTime(w)' /\ Paged(w)' /\ Seen(w)'
  <2>1. CASE running[w].source \notin Histories
    BY <1>1, <2>1 DEF InTime, Paged, Seen, Saving, Histories
  <2>2. CASE running[w].source \in Histories
    <3>1. PICK b : b = Started(w)
      OBVIOUS
    <3>2. Started(w)' = b /\ b = tick
      BY <1>1, <2>2, <3>1, AsksUnits DEF Started
    <3>3. InTime(w)'
      <4>1. 1 .. tick \subseteq 1 .. tick'
        BY <1>1
      <4> QED BY <1>1, <4>1 DEF InTime, GapInv
    <3>4. ASSUME NEW h, NEW t, Adjoins(h, t, b) PROVE Adjoins(h, t, b)'
      <4>1. CASE h = {}
        <5>1. t = From(tick) /\ b # tick' /\ From(tick) = From(tick' - 1)
          BY <1>1, <3>2, <3>4, <4>1 DEF Adjoins
        <5> QED BY <4>1, <5>1 DEF Adjoins
      <4>2. CASE h # {}
        BY <3>4, <4>2 DEF Adjoins
      <4> QED BY <4>1, <4>2
    <3>5. Paged(w)'
      BY <1>1, <3>1, <3>2, <3>4 DEF GapInv, Paged, Saving
    <3>6. \A u, R : Held(u, tick, b, R) => Held(u, tick, b, R)'
      <4> SUFFICES ASSUME NEW u, NEW R, Held(u, tick, b, R), NEW t \in 1 .. b, tick' - Window <= t
                   PROVE t \in series'["bars"][u] \cup R
        BY DEF Held
      <4>1. tick - Window <= t
        BY <1>1, IngestAssumption DEF IngestAssumption
      <4> QED BY <1>1, <4>1 DEF Held
    <3>7. Seen(w)'
      <4>1. Seen(w)
        BY DEF GapInv
      <4>2. PICK j : j = running[w]
        OBVIOUS
      <4>3. j.source = "bars" =>
              /\ \A u \in j.done : Held(u, tick, b, {})
              /\ j.phase = "save" => Held(Head(j.units), tick, b, j.rows)
        BY <3>1, <4>1, <4>2 DEF Seen
      <4>4. j.source = "bars" =>
              /\ \A u \in j.done : Held(u, tick, b, {})'
              /\ j.phase = "save" => Held(Head(j.units), tick, b, j.rows)'
        BY <3>6, <4>3
      <4> QED BY <1>1, <3>2, <4>2, <4>4 DEF Seen, Held
    <3> QED BY <3>3, <3>5, <3>7
  <2> QED BY <2>1, <2>2
<1> QED BY <1>2, <1>3, <1>4 DEF GapInv

\* A list that is published is none of the histories' business.
LEMMA PublishGap ==
  ASSUME IngestTyped, LedgerInv, GapInv, PublishList
  PROVE GapInv'
<1>1. UNCHANGED <<tick, runs, series, running>>
  BY DEF PublishList, tables
<1> QED BY <1>1, QuietGap

\* Before the first run the histories are empty.
LEMMA InitGap == IngestInit => GapInv
<1> SUFFICES ASSUME IngestInit PROVE GapInv
  OBVIOUS
<1>1. runs = <<>> /\ running = [w \in Workers |-> Idle]
      /\ \A s \in Histories : \A u \in UnitsOf(s) : series[s][u] = {}
  BY DEF IngestInit, Histories
<1>2. \A w \in Workers : running[w].source = "none"
  BY <1>1 DEF Idle
<1>3. DOMAIN runs = {}
  BY <1>1
<1> QED BY <1>1, <1>2, <1>3 DEF GapInv, Within, FundingWhole, Convex, InTime, Paged, Seen, Saving, Histories

\* Every step keeps the histories without holes but for those of an outage.
LEMMA StepGap == IngestInv /\ GapInv /\ [IngestNext(SourceNames)]_ingestVars => GapInv'
<1> SUFFICES ASSUME IngestInv, GapInv, [IngestNext(SourceNames)]_ingestVars PROVE GapInv'
  OBVIOUS
<1>0. IngestTyped /\ LedgerInv /\ CompleteInv /\ UnderWay
  BY DEF IngestInv, LedgerInv
<1>1. ASSUME NEW w \in Workers, NEW s \in SourceNames, Begin(w, s) \/ Skip(w, s) PROVE GapInv'
  BY <1>0, <1>1, BeginGap, SkipGap
<1>2. ASSUME NEW w \in Workers, running[w].source \notin Histories, UNCHANGED series, Steps(w) PROVE GapInv'
  BY <1>0, <1>2, OtherGap
<1>3. ASSUME NEW w \in Workers, ReceiveList(w) PROVE GapInv'
  BY <1>0, <1>2, <1>3, DurableListed, ReceiveListSteps DEF ReceiveList, Doing, Histories, tables
<1>4. ASSUME NEW w \in Workers, SaveRecord(w) PROVE GapInv'
  BY <1>0, <1>2, <1>4, SaveRecordSteps DEF SaveRecord, Doing, Histories
<1>5. ASSUME NEW w \in Workers, SaveChange(w) PROVE GapInv'
  BY <1>0, <1>2, <1>5, SaveChangeSteps DEF SaveChange, Doing, Histories
<1>6. ASSUME NEW w \in Workers, CloseList(w) PROVE GapInv'
  BY <1>0, <1>2, <1>6, CloseListSteps DEF CloseList, Doing, Histories, tables
<1>7. ASSUME NEW w \in Workers, ReceiveBatch(w) PROVE GapInv'
  BY <1>0, <1>2, <1>7, ReceiveBatchSteps DEF ReceiveBatch, Doing, Histories, tables
<1>8. ASSUME NEW w \in Workers, CloseTariffs(w) PROVE GapInv'
  BY <1>0, <1>2, <1>8, CloseTariffsSteps DEF CloseTariffs, Doing, Histories
<1>9. ASSUME NEW w \in Workers, ReceiveNews(w) PROVE GapInv'
  BY <1>0, <1>2, <1>9, ReceiveNewsSteps DEF ReceiveNews, Doing, Histories
<1>10. ASSUME NEW w \in Workers, Crash(w) PROVE GapInv'
  BY <1>0, <1>10, CrashGap
<1>11. ASSUME NEW w \in Workers, NEW s \in Histories, ReceiveRows(w, s) \/ SaveRow(w, s) \/ CloseRows(w, s) PROVE GapInv'
  BY <1>0, <1>11, ReceiveRowsGap, SaveRowGap, CloseRowsGap
<1>12. ASSUME Hour \/ PublishList PROVE GapInv'
  BY <1>0, <1>12, HourGap, PublishGap
<1>13. ASSUME UNCHANGED ingestVars PROVE GapInv'
  BY <1>0, <1>13, QuietGap DEF ingestVars
<1> QED BY <1>1, <1>3, <1>4, <1>5, <1>6, <1>7, <1>8, <1>9, <1>10, <1>11, <1>12, <1>13
        DEF IngestNext, Histories

\* In every run, whatever stopped, failed or overlapped: the settled funding
\* rates of a coin have no hole (fetch_funding_history goes on from the latest
\* row held, oldest rows first), and the bars of a symbol lack only what no run
\* read to its end within the window.
THEOREM HistoriesWhole == IngestSpec => []GapsAreOutages
<1>1. IngestSpec => []GapInv
  BY InitGap, StepGap, IngestInvariant, PTL DEF IngestSpec
<1>2. IngestInv /\ GapInv => GapsAreOutages
  <2> SUFFICES ASSUME IngestInv, GapInv,
                      NEW s \in Histories, NEW u \in DOMAIN series[s], NEW t \in 1 .. tick, t \notin series[s][u],
                      NEW v \in series[s][u], v < t, NEW x \in series[s][u], x > t
               PROVE /\ s = "bars"
                     /\ \A i \in DOMAIN runs : runs[i].source = s /\ u \in runs[i].done
                                               => ~(runs[i].at - Window <= t /\ t <= runs[i].start)
    BY DEF GapsAreOutages, Histories
  <2>1. u \in UnitsOf(s) /\ series[s][u] \subseteq 1 .. tick
    BY DEF IngestInv, IngestTyped, GapInv, Within
  <2>2. s = "bars"
    <3> SUFFICES ASSUME s = "funding" PROVE FALSE
      BY DEF Histories
    <3>1. t \in v .. x
      BY <2>1
    <3> QED BY <2>1, <3>1 DEF GapInv, FundingWhole, Convex
  <2>3. ASSUME NEW i \in DOMAIN runs, runs[i].source = "bars", u \in runs[i].done,
               runs[i].at - Window <= t, t <= runs[i].start
        PROVE FALSE
    <3>1. runs[i].start \in Nat
      BY RowsTyped DEF IngestInv, RunType
    <3>2. t \in 1 .. runs[i].start
      BY <2>3, <3>1
    <3> QED BY <2>2, <2>3, <3>2 DEF GapInv, Read, Held
  <2> QED BY <2>2, <2>3
<1> QED BY <1>1, <1>2, IngestInvariant, PTL

-----------------------------------------------------------------------------
(* Sanctions changes.                                                      *)

\* Who is told more is told as much.
LEMMA ToldMore == ASSUME NEW L, NEW M, NEW S, NEW T, Told(L, M, S), S \subseteq T PROVE Told(L, M, T)
BY DEF Told

\* Of a list that did not change there is nothing to tell.
LEMMA ToldSame == ASSUME NEW L, NEW S PROVE Told(L, L, S)
BY DEF Told

\* Records of other runs are not touched.
LEMMA RecordsStay ==
  ASSUME NEW i, \A r : r[1] = i => (r \in saved' <=> r \in saved)
  PROVE RecordsOf(i)' = RecordsOf(i)
<1> DEFINE Collected(S) == [u \in {r[2] : r \in S} |-> (CHOOSE r \in S : r[2] = u)[3]]
<1>1. {r \in saved' : r[1] = i} = {r \in saved : r[1] = i}
  OBVIOUS
<1>2. RecordsOf(i) = Collected({r \in saved : r[1] = i})
  BY Zenon DEF RecordsOf
<1>3. RecordsOf(i)' = Collected({r \in saved' : r[1] = i})
  BY Zenon DEF RecordsOf
<1> HIDE DEF Collected
<1> QED BY <1>1, <1>2, <1>3

\* What a step of one worker that closes no list has to show.
LEMMA ChangeStep ==
  ASSUME IngestTyped, LedgerInv, ChangeInv, NEW w \in Workers, Others(w), Successes' = Successes,
         UNCHANGED <<tick, published>>,
         \A i \in Successes : runs'[i] = runs[i] /\ RecordsOf(i)' = RecordsOf(i),
         \A v \in Workers \ {w} : baseline'[v] = baseline[v],
         changes \cup dropped \subseteq changes' \cup dropped', \A c \in changes' : Real(c),
         Mem(w)',
         \A i \in Successes : Last(i) /\ runs[i].worker = w /\ baseline'[w] # NoList =>
            \A L, S : L = RecordsOf(i) /\ S = changes' \cup dropped' \cup Found(w)' => Told(L, baseline'[w], S)
  PROVE ChangeInv'
<1>1. \A c : Real(c)' <=> Real(c)
  BY DEF Real
<1>2. ASSUME NEW i \in Successes PROVE Last(i)' <=> Last(i)
  BY DEF Last
<1>3. ASSUME NEW v \in Workers PROVE Mem(v)' /\ Knows(v)'
  <2>1. CASE v = w
    <3> SUFFICES ASSUME NEW i \in Successes, Last(i), runs[i].worker = w, baseline'[w] # NoList
                 PROVE Told(RecordsOf(i)', baseline'[w], changes' \cup dropped' \cup Found(w)')
      BY <1>2, <2>1 DEF Knows
    <3>1. RecordsOf(i)' = RecordsOf(i)
      OBVIOUS
    <3> QED BY <3>1
  <2>2. CASE v # w
    <3>1. running'[v] = running[v] /\ baseline'[v] = baseline[v]
      BY <2>2 DEF Others
    <3>2. Found(v)' = Found(v)
      BY <3>1 DEF Found, Saving
    <3>3. Mem(v)'
      BY <1>1, <3>1, <3>2 DEF Mem, Publishes, Saving, ChangeInv
    <3>4. ASSUME NEW i \in Successes, Last(i), runs[i].worker = v, baseline[v] # NoList
          PROVE Told(RecordsOf(i)', baseline'[v], changes' \cup dropped' \cup Found(v)')
      <4>1. Told(RecordsOf(i), baseline[v], changes \cup dropped \cup Found(v))
        BY <3>4 DEF ChangeInv, Knows
      <4>2. Told(RecordsOf(i), baseline[v], changes' \cup dropped' \cup Found(v))
        <5>1. changes \cup dropped \cup Found(v) \subseteq changes' \cup dropped' \cup Found(v)
          OBVIOUS
        <5> QED BY <4>1, <5>1, ToldMore
      <4> QED BY <3>1, <3>2, <4>2
    <3>5. Knows(v)'
      BY <1>2, <3>1, <3>4 DEF Knows
    <3> QED BY <3>3, <3>5
  <2> QED BY <2>1, <2>2
<1>4. OnRecord'
  <2> SUFFICES ASSUME NEW i \in Successes, NEW k \in Successes, Successive(i, k)'
               PROVE Told(RecordsOf(i)', RecordsOf(k)', changes' \cup dropped')
    BY DEF OnRecord
  <2>1. Successive(i, k)
    BY DEF Successive
  <2>2. Told(RecordsOf(i), RecordsOf(k), changes \cup dropped)
    BY <2>1 DEF ChangeInv, OnRecord
  <2>3. Told(RecordsOf(i), RecordsOf(k), changes' \cup dropped')
    BY <2>2, ToldMore
  <2>4. RecordsOf(i)' = RecordsOf(i) /\ RecordsOf(k)' = RecordsOf(k)
    OBVIOUS
  <2> QED BY <2>3, <2>4
<1> QED BY <1>1, <1>3, <1>4 DEF ChangeInv

\* A success is closed; a run under way is not.
LEMMA SuccessClosed ==
  ASSUME IngestTyped, LedgerInv, NEW w \in Workers, Others(w)
  PROVE /\ \A i \in Successes : i # running[w].run /\ runs'[i] = runs[i]
        /\ UNCHANGED runs => Successes' = Successes
        /\ \A n : n = running[w].run /\ (runs'[n].source # "ofac" \/ runs'[n].status # "success")
                  => Successes' = Successes
<1>1. \A i \in Successes : i # running[w].run /\ runs'[i] = runs[i]
  BY DEF Others, Successes
<1>2. UNCHANGED runs => Successes' = Successes
  BY DEF Successes
<1>3. ASSUME NEW n, n = running[w].run, runs'[n].source # "ofac" \/ runs'[n].status # "success"
      PROVE  Successes' = Successes
  BY <1>3 DEF Others, Successes
<1> QED BY <1>1, <1>2, <1>3

\* A run that ends, other than with a list in full, leaves no change behind.
LEMMA EndChange ==
  ASSUME IngestTyped, LedgerInv, ChangeInv, NEW w \in Workers, NEW st \in Outcome, Ends(w, st),
         UNCHANGED runs \/ running[w].source # "ofac" \/ st # "success",
         UNCHANGED <<tick, published, baseline, saved, changes>>, dropped \cup Found(w) \subseteq dropped'
  PROVE ChangeInv'
<1>1. Others(w)
  BY StepsOthers DEF LedgerInv, Steps
<1>2. /\ UNCHANGED runs \/ ClosesRow(w, st)
      /\ running' = [running EXCEPT ![w] = Idle] /\ Open(w)
  BY EndsDoes DEF LedgerInv
<1>3. running'[w].source = "none"
  BY <1>2 DEF IngestTyped, Idle
<1>4. PICK n : n = running[w].run
  OBVIOUS
<1>5. Successes' = Successes /\ \A i \in Successes : runs'[i] = runs[i]
  <2>1. ClosesRow(w, st) => runs'[n].source = running[w].source /\ runs'[n].status = st
    BY <1>2, <1>4 DEF ClosesRow, Open
  <2> QED BY <1>1, <1>2, <1>4, <2>1, SuccessClosed
<1>6. \A i : RecordsOf(i)' = RecordsOf(i)
  BY DEF RecordsOf
<1>7. \A c \in changes' : Real(c)
  BY DEF ChangeInv
<1>8. Mem(w)'
  BY <1>3 DEF ChangeInv, Mem, Saving, Found, Publishes
<1>9. ASSUME NEW i \in Successes, Last(i), runs[i].worker = w, baseline'[w] # NoList,
             NEW L, NEW S, L = RecordsOf(i), S = changes' \cup dropped' \cup Found(w)'
      PROVE Told(L, baseline'[w], S)
  <2>1. Told(RecordsOf(i), baseline[w], changes \cup dropped \cup Found(w))
    BY <1>9 DEF ChangeInv, Knows
  <2>2. changes \cup dropped \cup Found(w) \subseteq S
    BY <1>9
  <2>3. Told(L, baseline[w], S)
    BY <1>9, <2>1, <2>2, ToldMore
  <2> QED BY <2>3
<1>10. \A v \in Workers \ {w} : baseline'[v] = baseline[v]
  OBVIOUS
<1>11. changes \cup dropped \subseteq changes' \cup dropped'
  OBVIOUS
<1> QED BY <1>1, <1>5, <1>6, <1>7, <1>8, <1>9, <1>10, <1>11, ChangeStep

\* The other sources leave what concerns the list.
LEMMA OtherChange ==
  ASSUME IngestTyped, LedgerInv, ChangeInv, NEW w \in Workers, Steps(w), running[w].source # "ofac",
         UNCHANGED <<baseline, saved, changes, dropped>>
  PROVE ChangeInv'
<1>0. UNCHANGED <<tick, published>> /\ Others(w)
  BY StepsOthers DEF Steps, LedgerInv
<1>1. Found(w) = {}
  BY DEF Found, Saving
<1>2. ASSUME NEW st \in Outcome, Ends(w, st) PROVE ChangeInv'
  BY <1>0, <1>1, <1>2, EndChange
<1>3. ASSUME NEW j, Advances(w, j) PROVE ChangeInv'
  <2>1. running'[w].source # "ofac" /\ UNCHANGED runs
    BY <1>3 DEF Advances, Go, IngestTyped
  <2>2. Found(w)' = {}
    BY <2>1 DEF Found, Saving
  <2>3. Mem(w)'
    BY <1>0, <2>1, <2>2 DEF ChangeInv, Mem, Saving, Publishes
  <2>4. Successes' = Successes /\ \A i \in Successes : runs'[i] = runs[i]
    BY <1>0, <2>1, SuccessClosed
  <2>5. \A i : RecordsOf(i)' = RecordsOf(i)
    BY DEF RecordsOf
  <2>6. \A c \in changes' : Real(c)
    BY DEF ChangeInv
  <2>7. ASSUME NEW i \in Successes, Last(i), runs[i].worker = w, baseline'[w] # NoList,
               NEW L, NEW S, L = RecordsOf(i), S = changes' \cup dropped' \cup Found(w)'
        PROVE Told(L, baseline'[w], S)
    <3>1. Told(RecordsOf(i), baseline[w], changes \cup dropped \cup Found(w))
      BY <2>7 DEF ChangeInv, Knows
    <3>2. S = changes \cup dropped \cup Found(w)
      BY <1>1, <2>2, <2>7
    <3> QED BY <2>7, <3>1, <3>2
  <2>8. (\A v \in Workers \ {w} : baseline'[v] = baseline[v]) /\ changes \cup dropped \subseteq changes' \cup dropped'
    OBVIOUS
  <2> QED BY <1>0, <2>3, <2>4, <2>5, <2>6, <2>7, <2>8, ChangeStep
<1> QED BY <1>2, <1>3 DEF Steps

\* The changes from a list to the one published last tell of every entry.
LEMMA ChangesReal ==
  ASSUME IngestTyped, NEW b \in Listed, b # NoList => Publishes(b),
         NEW L, L = published[Len(published)]
  PROVE /\ \A c \in Changes(b, L) : Real(c)
        /\ b # NoList => Told(b, L, Changes(b, L))
<1>1. L \in Lists
  BY LatestListed
<1>2. CASE b = NoList
  BY <1>2 DEF Changes
<1>3. CASE b # NoList
  <2>1. PICK i \in DOMAIN published : published[i] = b
    BY <1>3 DEF Publishes
  <2>2. Len(published) \in DOMAIN published /\ i \in Nat /\ i <= Len(published) /\ Len(published) \in Nat
    BY DEF IngestTyped
  <2>3. Changes(b, L) = {Change(u, b, L) : u \in Differ(b, L)}
    BY <1>3 DEF Changes
  <2>4. ASSUME NEW c \in Changes(b, L) PROVE Real(c)
    <3>1. PICK u \in Differ(b, L) : c = Change(u, b, L)
      BY <2>3
    <3>2. c.before = b /\ c.after = L
      BY <3>1 DEF Change
    <3>3. b # L
      BY <3>1 DEF Differ
    <3>4. i < Len(published)
      BY <2>1, <2>2, <3>3
    <3> QED BY <2>1, <2>2, <3>2, <3>4 DEF Real
  <2>5. Told(b, L, Changes(b, L))
    <3> SUFFICES ASSUME NEW u \in Uids, At(b, u) # At(L, u)
                 PROVE \E c \in Changes(b, L) : c.uid = u /\ c.to = At(L, u)
      BY DEF Told
    <3>1. u \in Differ(b, L)
      BY DEF Differ, At
    <3>2. Change(u, b, L) \in Changes(b, L) /\ Change(u, b, L).uid = u /\ Change(u, b, L).to = At(L, u)
      BY <2>3, <3>1 DEF Change
    <3> QED BY <3>2
  <2> QED BY <2>4, <2>5
<1> QED BY <1>2, <1>3

\* Told of b and then from b on, one is told of all of it.
LEMMA ToldOn ==
  ASSUME NEW L, NEW b, NEW M, NEW S, NEW T, Told(L, b, S), Told(b, M, T)
  PROVE Told(L, M, S \cup T)
BY DEF Told

\* Receiving a list: what it changes in the one remembered is found, and what
\* is remembered moves on to it.
LEMMA ReceiveListChange ==
  ASSUME IngestTyped, LedgerInv, CompleteInv, ChangeInv, NEW w \in Workers, ReceiveList(w)
  PROVE ChangeInv'
<1>0. Steps(w)
  BY ReceiveListSteps, DurableListed DEF LedgerInv
<1> DEFINE L == published[Len(published)]
           before == IF baseline[w] = NoList THEN DurableBaseline ELSE baseline[w]
<1>1. running[w] \in JobType /\ running[w] # Idle /\ running[w].source = "ofac" /\ running[w].phase = "fetch"
      /\ UNCHANGED <<tick, published, saved, changes, dropped>> /\ Others(w)
  BY <1>0, NotIdle, StepsOthers DEF ReceiveList, Doing, SourceNames, tables, LedgerInv
<1>2. Found(w) = {}
  BY <1>1 DEF Found, Saving
<1>3. ASSUME Raise(w), UNCHANGED baseline PROVE ChangeInv'
  <2>1. Ends(w, "failure") /\ "failure" \in Outcome
    BY <1>1, <1>3 DEF Raise, Ends, Outcome
  <2>2. dropped \cup Found(w) \subseteq dropped'
    BY <1>1, <1>2
  <2> QED BY <1>1, <1>3, <2>1, <2>2, EndChange
<1>4. ASSUME Go(w, ReceivedList(w, L, before)), baseline' = [baseline EXCEPT ![w] = L] PROVE ChangeInv'
  <2> DEFINE j == ReceivedList(w, L, before)
  <2>1. j.source = "ofac" /\ j.phase = "save" /\ j.list = L /\ j.found = Changes(before, L)
    BY <1>1 DEF ReceivedList, JobType
  <2> HIDE DEF j
  <2>2. running'[w] = j /\ UNCHANGED runs
    BY <1>4 DEF Go, IngestTyped, j
  <2>3. baseline'[w] = L /\ \A v \in Workers \ {w} : baseline'[v] = baseline[v]
    BY <1>4 DEF IngestTyped
  <2>4. L \in Lists /\ Publishes(L)
    <3>1. Len(published) \in DOMAIN published
      BY DEF IngestTyped
    <3> QED BY <3>1, LatestListed DEF Publishes
  <2>5. before \in Listed /\ (before # NoList => Publishes(before))
    BY DurableListed DEF ChangeInv, Mem, IngestTyped
  <2> HIDE DEF before
  <2>6. PICK C : C = Changes(before, L)
    OBVIOUS
  <2>7. (\A c \in C : Real(c)) /\ (before # NoList => Told(before, L, C))
    BY <2>5, <2>6, ChangesReal
  <2>8. Found(w)' = C
    BY <2>1, <2>2, <2>6 DEF Found, Saving
  <2>9. PICK M : M = L
    OBVIOUS
  <2>10. Mem(w)'
    <3>1. baseline'[w] = M /\ running'[w].list = M
      BY <2>1, <2>2, <2>3, <2>9
    <3>2. Publishes(M)' /\ \A c \in C : Real(c)'
      BY <1>1, <2>4, <2>7, <2>9 DEF Publishes, Real
    <3> QED BY <2>8, <3>1, <3>2 DEF Mem, Publishes, Real
  <2>11. Successes' = Successes /\ \A i \in Successes : runs'[i] = runs[i]
    BY <1>1, <2>2, SuccessClosed
  <2>12. \A i : RecordsOf(i)' = RecordsOf(i)
    BY <1>1 DEF RecordsOf
  <2>13. \A c \in changes' : Real(c)
    BY <1>1 DEF ChangeInv
  <2>14. ASSUME NEW i \in Successes, Last(i), runs[i].worker = w, baseline'[w] # NoList,
                NEW K, NEW S, K = RecordsOf(i), S = changes' \cup dropped' \cup Found(w)'
         PROVE Told(K, baseline'[w], S)
    <3>1. S = (changes \cup dropped) \cup C
      BY <1>1, <2>8, <2>14
    <3>2. K # NoList
      BY <2>14, SuccessStored, NoListUnlisted
    <3>3. CASE baseline[w] = NoList
      <4>1. before = K
        BY <2>14, <3>3, DurableListed DEF before
      <4>2. Told(K, L, C)
        BY <2>7, <3>2, <4>1
      <4> QED BY <2>3, <3>1, <4>2, ToldMore
    <3>4. CASE baseline[w] # NoList
      <4>1. before = baseline[w]
        BY <3>4 DEF before
      <4>2. Told(K, before, changes \cup dropped)
        BY <1>2, <2>14, <3>4, <4>1 DEF ChangeInv, Knows
      <4>3. Told(before, L, C)
        BY <2>7, <3>4, <4>1
      <4>4. Told(K, L, S)
        BY <3>1, <4>2, <4>3, ToldOn
      <4> QED BY <2>3, <4>4
    <3> QED BY <3>3, <3>4
  <2>15. changes \cup dropped \subseteq changes' \cup dropped'
    BY <1>1
  <2> QED BY <1>1, <2>3, <2>10, <2>11, <2>12, <2>13, <2>14, <2>15, ChangeStep
<1> QED BY <1>3, <1>4 DEF ReceiveList, ReceivedList

\* Saving a record: a refusal drops what was found.
LEMMA SaveRecordChange ==
  ASSUME IngestTyped, LedgerInv, ChangeInv, NEW w \in Workers, SaveRecord(w)
  PROVE ChangeInv'
<1>0. Steps(w)
  BY SaveRecordSteps DEF LedgerInv
<1>1. running[w] \in JobType /\ running[w] # Idle /\ running[w].source = "ofac" /\ running[w].phase = "save"
      /\ UNCHANGED <<tick, published, changes, baseline>> /\ Others(w)
  BY <1>0, NotIdle, StepsOthers DEF SaveRecord, Doing, SourceNames, memory, LedgerInv
<1>2. Found(w) = running[w].found
  BY <1>1 DEF Found, Saving
<1>3. ASSUME Raise(w), UNCHANGED saved, dropped' = dropped \cup running[w].found PROVE ChangeInv'
  <2>1. Ends(w, "failure") /\ "failure" \in Outcome
    BY <1>1, <1>3 DEF Raise, Ends, Outcome
  <2>2. dropped \cup Found(w) \subseteq dropped'
    BY <1>2, <1>3
  <2> QED BY <1>1, <1>3, <2>1, <2>2, EndChange
<1>4. ASSUME NEW u, UNCHANGED dropped, Go(w, [running[w] EXCEPT !.rows = @ \ {u}]),
             saved' = IF Recorded(w) THEN saved \cup {<<running[w].run, u, running[w].list[u]>>} ELSE saved
      PROVE ChangeInv'
  <2> DEFINE j == [running[w] EXCEPT !.rows = @ \ {u}]
  <2>1. j.source = "ofac" /\ j.phase = "save" /\ j.list = running[w].list /\ j.found = running[w].found
    BY <1>1 DEF JobType
  <2> HIDE DEF j
  <2>2. running'[w] = j /\ UNCHANGED runs
    BY <1>4 DEF Go, IngestTyped, j
  <2>3. Found(w)' = Found(w)
    BY <1>2, <2>1, <2>2 DEF Found, Saving
  <2>4. Mem(w)'
    BY <1>1, <2>1, <2>2, <2>3 DEF ChangeInv, Mem, Saving, Publishes, Real
  <2>5. Successes' = Successes /\ \A i \in Successes : runs'[i] = runs[i] /\ i # running[w].run
    BY <1>1, <2>2, SuccessClosed
  <2>6. \A i \in Successes : RecordsOf(i)' = RecordsOf(i)
    <3> TAKE i \in Successes
    <3>1. PICK n : n = running[w].run
      OBVIOUS
    <3>2. \A r : r[1] # n => (r \in saved' <=> r \in saved)
      BY <1>4, <3>1
    <3>3. \A r : r[1] = i => (r \in saved' <=> r \in saved)
      BY <2>5, <3>1, <3>2
    <3> QED BY <3>3, RecordsStay
  <2>7. \A c \in changes' : Real(c)
    BY <1>1 DEF ChangeInv
  <2>8. ASSUME NEW i \in Successes, Last(i), runs[i].worker = w, baseline'[w] # NoList,
               NEW L, NEW S, L = RecordsOf(i), S = changes' \cup dropped' \cup Found(w)'
        PROVE Told(L, baseline'[w], S)
    <3>1. Told(RecordsOf(i), baseline[w], changes \cup dropped \cup Found(w))
      BY <1>1, <2>8 DEF ChangeInv, Knows
    <3>2. S = changes \cup dropped \cup Found(w)
      BY <1>1, <1>4, <2>3, <2>8
    <3> QED BY <1>1, <2>8, <3>1, <3>2
  <2>9. (\A v \in Workers \ {w} : baseline'[v] = baseline[v]) /\ changes \cup dropped \subseteq changes' \cup dropped'
    BY <1>1, <1>4
  <2> QED BY <1>1, <2>4, <2>5, <2>6, <2>7, <2>8, <2>9, ChangeStep
<1> QED BY <1>3, <1>4 DEF SaveRecord

\* Saving a change: what was found is on record or dropped.
LEMMA SaveChangeChange ==
  ASSUME IngestTyped, LedgerInv, ChangeInv, NEW w \in Workers, SaveChange(w)
  PROVE ChangeInv'
<1>0. Steps(w)
  BY SaveChangeSteps DEF LedgerInv
<1>1. running[w] \in JobType /\ running[w] # Idle /\ running[w].source = "ofac" /\ running[w].phase = "save"
      /\ UNCHANGED <<tick, published, saved, baseline>> /\ Others(w)
  BY <1>0, NotIdle, StepsOthers DEF SaveChange, Doing, SourceNames, memory, LedgerInv
<1>2. Found(w) = running[w].found
  BY <1>1 DEF Found, Saving
<1>3. PICK c \in running[w].found :
          /\ Go(w, [running[w] EXCEPT !.found = @ \ {c}])
          /\ \/ changes' = changes \cup {c} /\ UNCHANGED dropped
             \/ dropped' = dropped \cup {c} /\ UNCHANGED changes
  BY DEF SaveChange
<1> DEFINE j == [running[w] EXCEPT !.found = @ \ {c}]
<1>4. j.source = "ofac" /\ j.phase = "save" /\ j.list = running[w].list /\ j.found = running[w].found \ {c}
  BY <1>1 DEF JobType
<1> HIDE DEF j
<1>5. running'[w] = j /\ UNCHANGED runs
  BY <1>3 DEF Go, IngestTyped, j
<1>6. Found(w)' = Found(w) \ {c}
  BY <1>2, <1>4, <1>5 DEF Found, Saving
<1>7. Mem(w)'
  BY <1>1, <1>4, <1>5, <1>6 DEF ChangeInv, Mem, Saving, Publishes, Real
<1>8. Successes' = Successes /\ \A i \in Successes : runs'[i] = runs[i]
  BY <1>1, <1>5, SuccessClosed
<1>9. \A i : RecordsOf(i)' = RecordsOf(i)
  BY <1>1 DEF RecordsOf
<1>10. \A d \in changes' : Real(d)
  BY <1>2, <1>3 DEF ChangeInv, Mem
<1>11. ASSUME NEW i \in Successes, Last(i), runs[i].worker = w, baseline'[w] # NoList,
              NEW L, NEW S, L = RecordsOf(i), S = changes' \cup dropped' \cup Found(w)'
       PROVE Told(L, baseline'[w], S)
  <2>1. Told(RecordsOf(i), baseline[w], changes \cup dropped \cup Found(w))
    BY <1>1, <1>11 DEF ChangeInv, Knows
  <2>2. changes \cup dropped \cup Found(w) \subseteq S
    BY <1>3, <1>6, <1>11
  <2>3. Told(L, baseline[w], S)
    BY <1>11, <2>1, <2>2, ToldMore
  <2> QED BY <1>1, <2>3
<1>12. (\A v \in Workers \ {w} : baseline'[v] = baseline[v]) /\ changes \cup dropped \subseteq changes' \cup dropped'
  BY <1>1, <1>3
<1> QED BY <1>1, <1>7, <1>8, <1>9, <1>10, <1>11, <1>12, ChangeStep

\* The list a run has saved in full is the one its worker remembers.
LEMMA CloseListChange ==
  ASSUME IngestTyped, LedgerInv, CompleteInv, ChangeInv, NEW w \in Workers, CloseList(w)
  PROVE ChangeInv'
<1>1. running[w] \in JobType /\ running[w] # Idle /\ running[w].source = "ofac" /\ running[w].phase = "save"
      /\ running[w].rows = {} /\ running[w].found = {}
      /\ UNCHANGED <<tick, published, saved, changes, dropped, baseline>>
  BY NotIdle DEF CloseList, Doing, SourceNames, tables, memory
<1>2. [running[w].ctx EXCEPT !.persisted = TRUE] \in ContextType
  BY <1>1 DEF JobType, ContextType
<1>3. PICK st \in Outcome : Ends(w, st)
  BY <1>1, <1>2, StatusTyped DEF CloseList, Close, Ends, Outcome
<1>4. Found(w) = {}
  BY <1>1 DEF Found, Saving
<1>5. CASE UNCHANGED runs \/ st # "success"
  BY <1>1, <1>3, <1>4, <1>5, EndChange
<1>6. CASE ~UNCHANGED runs /\ st = "success"
  <2>1. ClosesRow(w, st) /\ running' = [running EXCEPT ![w] = Idle] /\ Open(w)
    BY <1>3, <1>6, EndsDoes DEF LedgerInv
  <2>2. PICK n : n = running[w].run
    OBVIOUS
  <2>3. /\ n \in DOMAIN runs /\ n \notin Successes /\ DOMAIN runs' = DOMAIN runs
        /\ \A k \in DOMAIN runs \ {n} : runs'[k] = runs[k]
        /\ runs'[n].source = "ofac" /\ runs'[n].status = "success" /\ runs'[n].worker = w
        /\ runs'[n].order = Completed + 1
    BY <1>1, <1>6, <2>1, <2>2 DEF ClosesRow, Open, Successes
  <2>4. Successes' = Successes \cup {n} /\ \A i \in Successes : i # n /\ i \in DOMAIN runs /\ runs'[i] = runs[i]
    BY <2>3 DEF Successes
  <2>5. Completed \in Nat /\ \A i \in Successes : runs[i].order \in Nat /\ runs[i].order <= Completed
    BY <2>4, CompletedTyped, RowsTyped DEF LedgerInv, Numbered, RunType
  <2>6. PICK L : L = running[w].list
    OBVIOUS
  <2>7. RecordsOf(n) = L /\ L = baseline[w]
    <3>1. L \in Lists /\ Keeps(n, L, DOMAIN L \ running[w].rows)
      BY <1>1, <2>1, <2>2, <2>6 DEF CompleteInv, SoFar, ClosesRow
    <3>2. DOMAIN L \ running[w].rows = DOMAIN L
      BY <1>1
    <3>3. L = baseline[w]
      BY <1>1, <2>6 DEF ChangeInv, Mem, Saving
    <3> QED BY <3>1, <3>2, <3>3, RecordsAre
  <2>8. \A i : RecordsOf(i)' = RecordsOf(i)
    BY <1>1 DEF RecordsOf
  <2>9. ASSUME NEW i \in Successes', Last(i)' PROVE i = n
    <3>1. runs'[n].order <= runs'[i].order
      BY <2>4, <2>9 DEF Last
    <3> QED BY <2>3, <2>4, <2>5, <3>1
  <2>10. ASSUME NEW v \in Workers PROVE Mem(v)' /\ Knows(v)'
    <3>1. Knows(v)'
      <4> SUFFICES ASSUME NEW i \in Successes', Last(i)', runs'[i].worker = v, baseline'[v] # NoList
                   PROVE Told(RecordsOf(i)', baseline'[v], changes' \cup dropped' \cup Found(v)')
        BY DEF Knows
      <4>1. i = n /\ v = w
        BY <2>3, <2>9
      <4>2. RecordsOf(i)' = L /\ baseline'[v] = L
        BY <1>1, <2>7, <2>8, <4>1
      <4> QED BY <4>2, ToldSame
    <3>2. Mem(v)'
      <4>1. CASE v = w
        <5>1. running'[v].source = "none"
          BY <2>1, <4>1 DEF IngestTyped, Idle
        <5> QED BY <1>1, <5>1 DEF ChangeInv, Mem, Saving, Found, Publishes
      <4>2. CASE v # w
        <5>1. running'[v] = running[v]
          BY <2>1, <4>2 DEF IngestTyped
        <5> QED BY <1>1, <5>1 DEF ChangeInv, Mem, Saving, Found, Publishes, Real
      <4> QED BY <4>1, <4>2
    <3> QED BY <3>1, <3>2
  <2>11. OnRecord'
    <3> SUFFICES ASSUME NEW i \in Successes', NEW k \in Successes', Successive(i, k)'
                 PROVE Told(RecordsOf(i)', RecordsOf(k)', changes' \cup dropped')
      BY DEF OnRecord
    <3>1. /\ runs'[i].worker = runs'[k].worker /\ runs'[i].order < runs'[k].order
          /\ \A m \in Successes : runs'[m].order \notin (runs'[i].order + 1) .. (runs'[k].order - 1)
      BY <2>4 DEF Successive
    <3>2. i \in Successes
      BY <2>3, <2>4, <2>5, <3>1
    <3>3. CASE k = n
      <4>1. runs[i].worker = w
        BY <2>3, <2>4, <3>1, <3>2, <3>3
      <4>2. Last(i)
        <5> SUFFICES ASSUME NEW m \in Successes PROVE runs[m].order <= runs[i].order
          BY <3>2 DEF Last
        <5>1. runs[m].order \notin (runs[i].order + 1) .. Completed
          BY <2>3, <2>4, <2>5, <3>1, <3>2, <3>3
        <5> QED BY <2>5, <3>2, <5>1
      <4>3. L # NoList
        <5>1. L \in Lists
          BY <1>1, <2>6 DEF CompleteInv, SoFar
        <5> QED BY <5>1, NoListUnlisted
      <4>4. Told(RecordsOf(i), L, changes \cup dropped \cup {})
        BY <1>4, <2>7, <3>2, <4>1, <4>2, <4>3 DEF ChangeInv, Knows
      <4> QED BY <1>1, <2>7, <2>8, <3>3, <4>4
    <3>4. CASE k # n
      <4>1. k \in Successes
        BY <2>4, <3>4
      <4>2. Successive(i, k)
        BY <2>4, <3>1, <3>2, <4>1 DEF Successive
      <4>3. Told(RecordsOf(i), RecordsOf(k), changes \cup dropped)
        BY <3>2, <4>1, <4>2 DEF ChangeInv, OnRecord
      <4> QED BY <1>1, <2>8, <4>3
    <3> QED BY <3>3, <3>4
  <2>12. \A c \in changes' : Real(c)'
    BY <1>1 DEF ChangeInv, Real
  <2> QED BY <2>10, <2>11, <2>12 DEF ChangeInv
<1> QED BY <1>5, <1>6

\* What no run did leaves what was told.
LEMMA QuietChange ==
  ASSUME IngestTyped, ChangeInv, UNCHANGED <<saved, changes, dropped>>,
         DOMAIN runs \subseteq DOMAIN runs', \A i \in DOMAIN runs : runs'[i] = runs[i],
         \A i \in DOMAIN runs' \ DOMAIN runs : runs'[i].status # "success",
         \A L : Publishes(L) => Publishes(L)', \A c : Real(c) => Real(c)',
         \A v \in Workers : \/ baseline'[v] = NoList /\ Found(v)' = {} /\ ~Saving(v, "ofac")'
                            \/ /\ baseline'[v] = baseline[v] /\ Found(v)' = Found(v)
                               /\ Saving(v, "ofac")' => Saving(v, "ofac") /\ running'[v] = running[v]
  PROVE ChangeInv'
<1>1. Successes' = Successes /\ \A i \in Successes : runs'[i] = runs[i]
  BY DEF Successes
<1>2. \A i : RecordsOf(i)' = RecordsOf(i)
  BY DEF RecordsOf
<1>3. \A i : Last(i)' <=> Last(i)
  BY <1>1 DEF Last
<1>4. ASSUME NEW v \in Workers PROVE Mem(v)' /\ Knows(v)'
  <2>1. CASE baseline'[v] = NoList /\ Found(v)' = {} /\ ~Saving(v, "ofac")'
    BY <2>1 DEF Mem, Knows
  <2>2. CASE /\ baseline'[v] = baseline[v] /\ Found(v)' = Found(v)
             /\ Saving(v, "ofac")' => Saving(v, "ofac") /\ running'[v] = running[v]
    <3>1. Mem(v) /\ Knows(v)
      BY DEF ChangeInv
    <3>2. Mem(v)'
      BY <2>2, <3>1 DEF Mem
    <3>3. Knows(v)'
      <4> SUFFICES ASSUME NEW i \in Successes, Last(i), runs[i].worker = v, baseline'[v] # NoList
                   PROVE Told(RecordsOf(i)', baseline'[v], changes' \cup dropped' \cup Found(v)')
        BY <1>1, <1>3 DEF Knows
      <4>1. Told(RecordsOf(i), baseline[v], changes \cup dropped \cup Found(v))
        BY <2>2, <3>1 DEF Knows
      <4> QED BY <1>2, <2>2, <4>1
    <3> QED BY <3>2, <3>3
  <2> QED BY <2>1, <2>2
<1>5. OnRecord'
  <2> SUFFICES ASSUME NEW i \in Successes, NEW k \in Successes, Successive(i, k)'
               PROVE Told(RecordsOf(i)', RecordsOf(k)', changes' \cup dropped')
    BY <1>1 DEF OnRecord
  <2>1. Successive(i, k)
    BY <1>1 DEF Successive
  <2>2. Told(RecordsOf(i), RecordsOf(k), changes \cup dropped)
    BY <2>1 DEF ChangeInv, OnRecord
  <2> QED BY <1>2, <2>2
<1> QED BY <1>4, <1>5 DEF ChangeInv

\* Nothing is found, and no list saved, where a run has not received it.
LEMMA FoundSame ==
  ASSUME NEW v, baseline'[v] = baseline[v], running'[v] = running[v]
  PROVE \/ baseline'[v] = NoList /\ Found(v)' = {} /\ ~Saving(v, "ofac")'
        \/ /\ baseline'[v] = baseline[v] /\ Found(v)' = Found(v)
           /\ Saving(v, "ofac")' => Saving(v, "ofac") /\ running'[v] = running[v]
BY DEF Found, Saving

\* A run that begins has found nothing.
LEMMA BeginChange ==
  ASSUME IngestTyped, LedgerInv, ChangeInv, NEW w \in Workers, NEW s \in SourceNames, Begin(w, s)
  PROVE ChangeInv'
<1>1. PICK status \in {"running", "absent"} : StartRun(w, s, status)
  BY DEF Begin
<1>2. /\ running[w] = Idle /\ running' = [running EXCEPT ![w] = NewJob(s)]
      /\ UNCHANGED <<published, saved, changes, dropped, baseline>>
  BY DEF Begin, NewJob, tables, memory
<1>3. NewJob(s).phase = "fetch" /\ Idle.source = "none"
  BY DEF NewJob, Idle
<1>4. /\ DOMAIN runs' = DOMAIN runs \cup {Len(runs) + 1} /\ Len(runs) + 1 \notin DOMAIN runs
      /\ \A i \in DOMAIN runs : runs'[i] = runs[i]
      /\ runs'[Len(runs) + 1].status = status
  BY <1>1, StartDoes
<1>5. ASSUME NEW v \in Workers
      PROVE \/ baseline'[v] = NoList /\ Found(v)' = {} /\ ~Saving(v, "ofac")'
            \/ /\ baseline'[v] = baseline[v] /\ Found(v)' = Found(v)
               /\ Saving(v, "ofac")' => Saving(v, "ofac") /\ running'[v] = running[v]
  <2>1. CASE v = w
    <3>1. running'[v].phase = "fetch" /\ running[v].source = "none"
      BY <1>2, <1>3, <2>1 DEF IngestTyped
    <3> QED BY <1>2, <3>1 DEF Found, Saving
  <2>2. CASE v # w
    <3>1. running'[v] = running[v] /\ baseline'[v] = baseline[v]
      BY <1>2, <2>2 DEF IngestTyped
    <3> QED BY <3>1, FoundSame
  <2> QED BY <2>1, <2>2
<1>6. (\A L : Publishes(L) => Publishes(L)') /\ \A c : Real(c) => Real(c)'
  BY <1>2 DEF Publishes, Real
<1> QED BY <1>2, <1>4, <1>5, <1>6, QuietChange

\* A run that is skipped finds nothing.
LEMMA SkipChange ==
  ASSUME IngestTyped, LedgerInv, ChangeInv, NEW w \in Workers, NEW s \in SourceNames, Skip(w, s)
  PROVE ChangeInv'
<1>1. StartRun(w, s, "skipped_lease") /\ UNCHANGED <<published, running, saved, changes, dropped, baseline>>
  BY DEF Skip, tables, memory
<1>2. /\ DOMAIN runs' = DOMAIN runs \cup {Len(runs) + 1} /\ Len(runs) + 1 \notin DOMAIN runs
      /\ \A i \in DOMAIN runs : runs'[i] = runs[i]
      /\ runs'[Len(runs) + 1].status = "skipped_lease"
  BY <1>1, StartDoes
<1>3. (\A L : Publishes(L) => Publishes(L)') /\ \A c : Real(c) => Real(c)'
  BY <1>1 DEF Publishes, Real
<1> QED BY <1>1, <1>2, <1>3, FoundSame, QuietChange

\* A worker that stops forgets, and what it had found is lost with it.
LEMMA CrashChange ==
  ASSUME IngestTyped, LedgerInv, ChangeInv, NEW w \in Workers, Crash(w)
  PROVE ChangeInv'
<1>1. UNCHANGED <<published, runs, saved, changes, dropped>>
  BY DEF Crash, tables
<1>2. running'[w] = Idle /\ baseline'[w] = NoList /\ Idle.source = "none"
      /\ \A v \in Workers \ {w} : running'[v] = running[v] /\ baseline'[v] = baseline[v]
  BY DEF Crash, IngestTyped, Idle
<1>3. Found(w)' = {} /\ ~Saving(w, "ofac")'
  BY <1>2 DEF Found, Saving
<1>4. (\A L : Publishes(L) => Publishes(L)') /\ \A c : Real(c) => Real(c)'
  BY <1>1 DEF Publishes, Real
<1> QED BY <1>1, <1>2, <1>3, <1>4, FoundSame, QuietChange

\* Neither does time that passes.
LEMMA StillChange ==
  ASSUME IngestTyped, LedgerInv, ChangeInv,
         UNCHANGED <<published, runs, saved, changes, dropped, baseline, running>>
  PROVE ChangeInv'
<1>1. (\A L : Publishes(L) => Publishes(L)') /\ \A c : Real(c) => Real(c)'
  BY DEF Publishes, Real
<1> QED BY <1>1, FoundSame, QuietChange

\* A list that is published comes after those of every change.
LEMMA PublishChange ==
  ASSUME IngestTyped, LedgerInv, ChangeInv, PublishList
  PROVE ChangeInv'
<1>1. UNCHANGED <<runs, saved, changes, dropped, baseline, running>>
  BY DEF PublishList, tables, memory
<1>2. PICK L \in Lists : published' = Append(published, L)
  BY DEF PublishList
<1>3. DOMAIN published \subseteq DOMAIN published' /\ \A k \in DOMAIN published : published'[k] = published[k]
  BY <1>2, PublishedStays
<1>4. (\A M : Publishes(M) => Publishes(M)') /\ \A c : Real(c) => Real(c)'
  BY <1>3 DEF Publishes, Real
<1> QED BY <1>1, <1>4, FoundSame, QuietChange

\* Before the first run there is neither list nor change.
LEMMA InitChange == IngestInit => ChangeInv
<1> SUFFICES ASSUME IngestInit PROVE ChangeInv
  OBVIOUS
<1>1. runs = <<>> /\ running = [w \in Workers |-> Idle] /\ baseline = [w \in Workers |-> NoList] /\ changes = {}
  BY DEF IngestInit
<1>2. \A w \in Workers : running[w].source = "none" /\ baseline[w] = NoList
  BY <1>1 DEF Idle
<1>3. Successes = {}
  BY <1>1 DEF Successes
<1> QED BY <1>1, <1>2, <1>3 DEF ChangeInv, Mem, Knows, OnRecord, Saving, Found

\* Every step keeps every change told of.
LEMMA StepChange == IngestInv /\ ChangeInv /\ [IngestNext(SourceNames)]_ingestVars => ChangeInv'
<1> SUFFICES ASSUME IngestInv, ChangeInv, [IngestNext(SourceNames)]_ingestVars PROVE ChangeInv'
  OBVIOUS
<1>0. IngestTyped /\ LedgerInv /\ CompleteInv /\ UnderWay
  BY DEF IngestInv, LedgerInv
<1>1. ASSUME NEW w \in Workers, NEW s \in SourceNames, Begin(w, s) \/ Skip(w, s) PROVE ChangeInv'
  BY <1>0, <1>1, BeginChange, SkipChange
<1>2. ASSUME NEW w \in Workers, ReceiveList(w) \/ SaveRecord(w) \/ SaveChange(w) \/ CloseList(w) PROVE ChangeInv'
  BY <1>0, <1>2, ReceiveListChange, SaveRecordChange, SaveChangeChange, CloseListChange
<1>3. ASSUME NEW w \in Workers, ReceiveBatch(w) PROVE ChangeInv'
  BY <1>0, <1>3, ReceiveBatchSteps, OtherChange DEF ReceiveBatch, Doing, memory, tables
<1>4. ASSUME NEW w \in Workers, CloseTariffs(w) PROVE ChangeInv'
  BY <1>0, <1>4, CloseTariffsSteps, OtherChange DEF CloseTariffs, Doing, memory
<1>5. ASSUME NEW w \in Workers, ReceiveNews(w) PROVE ChangeInv'
  BY <1>0, <1>5, ReceiveNewsSteps, OtherChange DEF ReceiveNews, Doing
<1>6. ASSUME NEW w \in Workers, Crash(w) PROVE ChangeInv'
  BY <1>0, <1>6, CrashChange
<1>7. ASSUME NEW w \in Workers, NEW s \in Histories, ReceiveRows(w, s) PROVE ChangeInv'
  BY <1>0, <1>7, ReceiveRowsSteps, OtherChange DEF ReceiveRows, Doing, memory, tables, Histories
<1>8. ASSUME NEW w \in Workers, NEW s \in Histories, SaveRow(w, s) PROVE ChangeInv'
  BY <1>0, <1>8, SaveRowSteps, OtherChange DEF SaveRow, Doing, memory, Histories
<1>9. ASSUME NEW w \in Workers, NEW s \in Histories, CloseRows(w, s) PROVE ChangeInv'
  BY <1>0, <1>9, CloseRowsSteps, OtherChange DEF CloseRows, Doing, memory, tables, Histories
<1>10. ASSUME Hour \/ UNCHANGED ingestVars PROVE ChangeInv'
  BY <1>0, <1>10, StillChange DEF Hour, ingestVars, memory, tables
<1>11. ASSUME PublishList PROVE ChangeInv'
  BY <1>0, <1>11, PublishChange
<1> QED BY <1>1, <1>2, <1>3, <1>4, <1>5, <1>6, <1>7, <1>8, <1>9, <1>10, <1>11
        DEF IngestNext, Histories

\* In every run, whatever stopped, failed or overlapped: each sanctions change
\* on record is the step from a published list to a later one, and between two
\* successive successes of one worker every entry that differs has its change on
\* record unless a refused write dropped it (process_records compares with the
\* memory, or after a restart with the list of the last success).
THEOREM ChangesKept == IngestSpec => []ChangesOnRecord
<1>1. IngestSpec => []ChangeInv
  BY InitChange, StepChange, IngestInvariant, PTL DEF IngestSpec
<1>2. ChangeInv => ChangesOnRecord
  BY DEF ChangeInv, Real, OnRecord, Successive, Told, ChangesOnRecord
<1> QED BY <1>1, <1>2, PTL
=============================================================================
