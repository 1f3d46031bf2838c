------------------------------- MODULE Ingest -------------------------------
(***************************************************************************)
(* Ingest runs of the sources that keep a history: the sanctions list      *)
(* (ofac), settled funding rates (funding), research bars (bars), tariffs  *)
(* (tariffs) and news (news).  Workers run the same jobs; the lease that   *)
(* SchedulerLease models keeps them apart unless it expires or Redis is    *)
(* down, so two runs of a source may overlap.  A worker may stop between   *)
(* any two calls and comes back without memory, and any call to a provider *)
(* or to the database may fail.  Providers are external: they publish one  *)
(* row per tick of the clock, and now and then another sanctions list.  A  *)
(* tick is the hour between two runs of a history: a run, whose requests   *)
(* time out in seconds, sees at most one.                                  *)
(***************************************************************************)
EXTENDS Integers, Sequences, FiniteSetsExt

CONSTANTS Workers, Uids,
          Lists,          \* the sanctions lists that may be published
          Units,          \* Units[s]: what a run of s asks for, in its order
          Bootstrap,      \* funding: how far back the first read goes
          PageRows,       \* funding: rows taken from one response
          FirstWindow, Window,     \* bars: first read, later reads
          Threshold,      \* news: the score that is a shock
          History,        \* rows that exist before the first run
          MaxTicks, MaxRuns, MaxLists    \* bounds

VARIABLES tick, published,      \* external: the time, the lists so far
          runs,                 \* ingest_runs, by id
          saved,                \* data_provenance: records of sanctions runs
          changes,              \* research_events, a set: the key is the change
          dropped,              \* changes detected whose writes were refused
          series,               \* series[s][unit]: times held, funding and bars
          aggregate, spikes,    \* tariff aggregate in Redis; shock events
          baseline, shock, running  \* memory of each worker

ingestVars == <<tick, published, runs, saved, changes, dropped, series, aggregate, spikes,
                baseline, shock, running>>
memory == <<baseline, shock>>
tables == <<saved, changes, dropped, series, aggregate, spikes>>

Idle == [source |-> "none"]
NoList == [u \in {} |-> "none"]
At(L, u) == IF u \in DOMAIN L THEN L[u] ELSE "absent"
SourceNames == {"ofac", "funding", "bars", "tariffs", "news"}
UnitsOf(s) == {Units[s][i] : i \in DOMAIN Units[s]}

\* A list has entries, a unit is asked for once, and the first read of the bars
\* of a symbol goes back at least as far as the later ones ("1mo" and "5d").
ASSUME IngestAssumption ==
    /\ \A L \in Lists : DOMAIN L \subseteq Uids /\ DOMAIN L # {} /\ L = [u \in DOMAIN L |-> L[u]]
    /\ \A s \in SourceNames : Units[s] \in Seq(UnitsOf(s)) /\ IsInjective(Units[s])
    /\ {History, Bootstrap, PageRows, Window, FirstWindow} \subseteq Nat
    /\ PageRows > 0 /\ Window <= FirstWindow

IngestInit ==
    /\ tick = History /\ published \in {<<L>> : L \in Lists}
    /\ runs = <<>> /\ saved = {} /\ changes = {} /\ dropped = {} /\ spikes = 0
    /\ series = [s \in {"funding", "bars"} |-> [u \in UnitsOf(s) |-> {}]]
    /\ aggregate = [by |-> 0, failed |-> 0]
    /\ baseline = [w \in Workers |-> NoList] /\ shock = [w \in Workers |-> 0]
    /\ running = [w \in Workers |-> Idle]

-----------------------------------------------------------------------------
(* A run and its ledger row.  A context tells apart only whether anything  *)
(* was received and persisted.  None of these sources has a fallback.      *)

RunStatus_NoPartial(c) == IF c.outcome = "success" THEN "success" ELSE "failure"

RunStatus(c) ==
    IF c.outcome # "success" THEN "failure"
    ELSE IF c.partial \/ (c.received /\ ~c.persisted) THEN "partial" ELSE "success"

Context == [outcome |-> "unset", partial |-> FALSE, received |-> FALSE, persisted |-> FALSE]

StartRun(w, s, status) ==
    runs' = Append(runs, [source |-> s, worker |-> w, status |-> status, start |-> tick,
                          at |-> 0, order |-> 0, done |-> {}])

\* A run that could not be started is not in the ledger: its status is absent.
Begin(w, s) ==
    /\ running[w] = Idle /\ Len(runs) < MaxRuns
    /\ StartRun(w, s, "running") \/ StartRun(w, s, "absent")
    /\ running' = [running EXCEPT ![w] = [source |-> s, run |-> Len(runs) + 1,
                  ctx |-> Context, phase |-> "fetch", units |-> Units[s], rows |-> {},
                  list |-> NoList, found |-> {}, done |-> {}]]
    /\ UNCHANGED <<tick, published, memory, tables>>

Skip(w, s) ==
    /\ running[w] = Idle /\ Len(runs) < MaxRuns
    /\ \E v \in Workers \ {w} : running[v].source = s
    /\ StartRun(w, s, "skipped_lease")
    /\ UNCHANGED <<tick, published, memory, tables, running>>

Completed == Cardinality({i \in DOMAIN runs : runs[i].order # 0})

Recorded(w) == runs[running[w].run].status # "absent"

\* finish_run and mark_failure: a refused update leaves the row running.
FinishRun(w, status) ==
    /\ \/ /\ Recorded(w)
          /\ runs' = [runs EXCEPT ![running[w].run].status = status, ![running[w].run].at = tick,
                                  ![running[w].run].order = Completed + 1,
                                  ![running[w].run].done = running[w].done]
       \/ UNCHANGED runs
    /\ running' = [running EXCEPT ![w] = Idle]

Raise(w) == FinishRun(w, "failure")
Close(w, ctx) == FinishRun(w, RunStatus(ctx))
Go(w, j) == running' = [running EXCEPT ![w] = j] /\ UNCHANGED runs
Doing(w, s, phase) == running[w].source = s /\ running[w].phase = phase

-----------------------------------------------------------------------------
(* The sanctions list.                                                     *)

Successes == {i \in DOMAIN runs : runs[i].source = "ofac" /\ runs[i].status = "success"}
RecordsOf(i) == LET mine == {r \in saved : r[1] = i}
                IN [u \in {r[2] : r \in mine} |-> (CHOOSE r \in mine : r[2] = u)[3]]

DurableBaseline_Forgets == NoList

DurableBaseline ==
    IF Successes = {} THEN NoList
    ELSE RecordsOf(CHOOSE i \in Successes : \A k \in Successes : runs[k].order <= runs[i].order)

\* Two versions of an entry differ when their canonical records do.
Differ(before, after) ==
    {u \in DOMAIN before \cup DOMAIN after : At(before, u) # At(after, u)}

\* A change is known by its transition, not by its time.
Change(u, before, after) ==
    [uid |-> u, from |-> At(before, u), to |-> At(after, u), before |-> before, after |-> after]

Changes(before, after) ==
    IF before = NoList THEN {} ELSE {Change(u, before, after) : u \in Differ(before, after)}

\* fetch and the first half of process_records: the memory moves here.
ReceiveList(w) ==
    /\ Doing(w, "ofac", "fetch")
    /\ \/ Raise(w) /\ UNCHANGED baseline
       \/ LET list == published[Len(published)]
              before == IF baseline[w] = NoList THEN DurableBaseline ELSE baseline[w]
          IN /\ baseline' = [baseline EXCEPT ![w] = list]
             /\ Go(w, [running[w] EXCEPT !.phase = "save", !.rows = DOMAIN list, !.list = list,
                                     !.found = Changes(before, list),
                                     !.ctx.outcome = "success", !.ctx.received = TRUE])
    /\ UNCHANGED <<tick, published, shock, tables>>

SaveRecord(w) ==
    /\ Doing(w, "ofac", "save") /\ running[w].rows # {}
    /\ \/ /\ LET u == CHOOSE v \in running[w].rows : TRUE     \* in the order of the list
             IN /\ saved' = IF Recorded(w) THEN saved \cup {<<running[w].run, u, running[w].list[u]>>}
                            ELSE saved
                /\ Go(w, [running[w] EXCEPT !.rows = @ \ {u}])
             /\ UNCHANGED dropped
       \/ /\ Raise(w)
          /\ dropped' = dropped \cup running[w].found
          /\ UNCHANGED saved
    /\ UNCHANGED <<tick, published, memory, changes, series, aggregate, spikes>>

SaveChange(w) ==
    /\ Doing(w, "ofac", "save") /\ running[w].rows = {}
    /\ \E c \in running[w].found :
          /\ Go(w, [running[w] EXCEPT !.found = @ \ {c}])
          /\ \/ changes' = changes \cup {c} /\ UNCHANGED dropped
             \/ dropped' = dropped \cup {c} /\ UNCHANGED changes
    /\ UNCHANGED <<tick, published, memory, saved, series, aggregate, spikes>>

CloseList(w) ==
    /\ Doing(w, "ofac", "save") /\ running[w].rows = {} /\ running[w].found = {}
    /\ Close(w, [running[w].ctx EXCEPT !.persisted = TRUE])
    /\ UNCHANGED <<tick, published, memory, tables>>

-----------------------------------------------------------------------------
(* Funding rates and bars: one unit after another.                         *)

Oldest(S, n) == {t \in S : Cardinality({v \in S : v < t}) < n}

Page_Newest(S) == {t \in S : Cardinality({v \in S : v > t}) < PageRows}

Page(S) == Oldest(S, PageRows)

\* After the latest row, or the bootstrap window; the oldest rows first.
FundingRows(held) ==
    Page({t \in 1..tick : IF held = {} THEN t >= tick - Bootstrap ELSE t > Max(held)})

BarRows(held) == {t \in 1..tick : t >= tick - (IF held = {} THEN FirstWindow ELSE Window)}

Unit(w) == Head(running[w].units)
Next_(j) == [j EXCEPT !.units = Tail(@), !.phase = "fetch"]
Failed(j) == [Next_(j) EXCEPT !.ctx.partial = j.source # "funding"]
Answered(j) == [Next_(j) EXCEPT !.done = @ \cup {Head(j.units)}]

ReceiveRows(w, s) ==
    /\ Doing(w, s, "fetch") /\ running[w].units # <<>>
    /\ \/ Go(w, Failed(running[w]))
       \/ s = "bars" /\ Raise(w)
       \/ LET held == series[s][Unit(w)]
              rows == IF s = "funding" THEN FundingRows(held) ELSE BarRows(held)
          IN Go(w, IF rows = {} THEN Answered(running[w])
                   ELSE [running[w] EXCEPT !.phase = "save", !.rows = rows,
                                       !.ctx.received = @ \/ s = "bars"])
    /\ UNCHANGED <<tick, published, memory, tables>>

\* Rows are written in the order of their times.
NextRow(w) == Min(running[w].rows)

Written(w, s) ==
    [running[w] EXCEPT !.rows = @ \ {NextRow(w)},
                       !.ctx.persisted = @ \/ NextRow(w) \notin series[s][Unit(w)],
                       !.ctx.received = @ \/ running[w].rows = {NextRow(w)}]

\* A row that is refused ends a coin; a chunk of bars that is refused ends the run.
SaveRow(w, s) ==
    /\ Doing(w, s, "save")
    /\ \/ /\ series' = [series EXCEPT ![s][Unit(w)] = @ \cup {NextRow(w)}]
          /\ Go(w, IF Written(w, s).rows = {} THEN Answered(Written(w, s)) ELSE Written(w, s))
       \/ /\ IF s = "funding" THEN Go(w, Failed([running[w] EXCEPT !.rows = {}])) ELSE Raise(w)
          /\ UNCHANGED series
    /\ UNCHANGED <<tick, published, memory, saved, changes, dropped, aggregate, spikes>>

CloseRows(w, s) ==
    /\ Doing(w, s, "fetch") /\ running[w].units = <<>>
    /\ Close(w, [running[w].ctx EXCEPT !.outcome = IF running[w].done = {} THEN "failure" ELSE "success"])
    /\ UNCHANGED <<tick, published, memory, tables>>

-----------------------------------------------------------------------------
(* Tariffs: a batch that fails is left out of the aggregate; observations  *)
(* are recorded if they can be.                                            *)

\* Without a run on record nothing is recorded for it.
RecordObservations(w) == {FALSE, Recorded(w)}

ReceiveBatch(w) ==
    /\ Doing(w, "tariffs", "fetch") /\ running[w].units # <<>>
    /\ \/ Go(w, Failed(running[w]))
       \/ \E recorded \in RecordObservations(w) :
             Go(w, [Answered(running[w]) EXCEPT !.ctx.received = TRUE,
                                            !.ctx.persisted = @ \/ recorded])
    /\ UNCHANGED <<tick, published, memory, tables>>

CloseTariffs(w) ==
    /\ Doing(w, "tariffs", "fetch") /\ running[w].units = <<>>
    /\ Close(w, [running[w].ctx EXCEPT !.outcome = IF running[w].done = {} THEN "failure" ELSE "success"])
    /\ \/ /\ running[w].done # {}
          /\ aggregate' = [by |-> running[w].run,
                           failed |-> Len(Units["tariffs"]) - Cardinality(running[w].done)]
       \/ UNCHANGED aggregate
    /\ UNCHANGED <<tick, published, memory, saved, changes, dropped, series, spikes>>

Scores == {0, Threshold}

\* News: a shock is announced on the way up, as this worker saw it.
CheckShockSpike(w, score) ==
    /\ shock' = [shock EXCEPT ![w] = score]
    /\ spikes' = IF score >= Threshold /\ shock[w] < Threshold THEN spikes + 1 ELSE spikes

ReceiveNews(w) ==
    /\ Doing(w, "news", "fetch")
    /\ \/ Raise(w) /\ UNCHANGED <<shock, spikes>>
       \/ Close(w, [running[w].ctx EXCEPT !.outcome = "success"]) /\ UNCHANGED <<shock, spikes>>
       \/ \E score \in Scores :
             /\ CheckShockSpike(w, score)
             /\ Close(w, [running[w].ctx EXCEPT !.outcome = "success", !.received = TRUE,
                                            !.persisted = TRUE])
    /\ UNCHANGED <<tick, published, baseline, saved, changes, dropped, series, aggregate>>

-----------------------------------------------------------------------------

Crash(w) ==
    /\ running[w] # Idle \/ baseline[w] # NoList \/ shock[w] # 0
    /\ running' = [running EXCEPT ![w] = Idle]
    /\ baseline' = [baseline EXCEPT ![w] = NoList]
    /\ shock' = [shock EXCEPT ![w] = 0]
    /\ UNCHANGED <<tick, published, runs, tables>>

Hour ==
    /\ tick < MaxTicks /\ tick' = tick + 1
    /\ \A w \in Workers : running[w] # Idle => runs[running[w].run].start = tick
    /\ UNCHANGED <<published, runs, tables, memory, running>>

PublishList ==
    /\ Len(published) < MaxLists
    /\ \E L \in Lists : published' = Append(published, L)
    /\ UNCHANGED <<tick, runs, tables, memory, running>>

IngestNext(Sources) ==
    \/ \E w \in Workers, s \in Sources : Begin(w, s) \/ Skip(w, s)
    \/ \E w \in Workers : \/ ReceiveList(w) \/ SaveRecord(w) \/ SaveChange(w) \/ CloseList(w)
                          \/ ReceiveBatch(w) \/ CloseTariffs(w) \/ ReceiveNews(w) \/ Crash(w)
    \/ \E w \in Workers, s \in {"funding", "bars"} :
           ReceiveRows(w, s) \/ SaveRow(w, s) \/ CloseRows(w, s)
    \/ Sources \cap {"funding", "bars"} # {} /\ Hour
    \/ "ofac" \in Sources /\ PublishList

IngestSpec == IngestInit /\ [][IngestNext(SourceNames)]_ingestVars

-----------------------------------------------------------------------------

\* The changes on record are those there were.  Each is the step from one list
\* that was published to one published later, also where a worker stopped in the
\* middle of a run and the next one compares with what the database holds; and
\* between two successive successful runs of one worker, restarted or not, each
\* entry that differs has a change on record, or a refused write has dropped it.
ChangesOnRecord ==
    /\ \A c \in changes : \E i, k \in DOMAIN published :
           i < k /\ published[i] = c.before /\ published[k] = c.after
    /\ \A i, k \in Successes :
           /\ runs[i].worker = runs[k].worker /\ runs[i].order < runs[k].order
           /\ \A m \in Successes : runs[m].order \notin (runs[i].order + 1) .. (runs[k].order - 1)
           => \A u \in Uids : At(RecordsOf(i), u) # At(RecordsOf(k), u) =>
                  \E c \in changes \cup dropped : c.uid = u /\ c.to = At(RecordsOf(k), u)

\* A history has no hole, whatever stopped or overlapped, except that bars lack
\* what no run read to its end within the window.
GapsAreOutages ==
    \A s \in {"funding", "bars"} : \A u \in DOMAIN series[s] : \A t \in 1..tick :
        /\ t \notin series[s][u] /\ \E v \in series[s][u] : v < t
        /\ \E v \in series[s][u] : v > t
        => /\ s = "bars"
           /\ \A i \in DOMAIN runs : runs[i].source = s /\ u \in runs[i].done
                                     => ~(runs[i].at - Window <= t /\ t <= runs[i].start)

\* A run that the ledger calls a success holds a published list to its last
\* record, or answers for each of its units; the aggregate that claims every
\* batch comes from no worse run than one that stored none of its observations.
SuccessIsComplete ==
    /\ \A i \in DOMAIN runs : runs[i].status = "success" =>
           /\ runs[i].source = "ofac" => \E k \in DOMAIN published : published[k] = RecordsOf(i)
           /\ runs[i].source \in {"bars", "tariffs"} => Cardinality(runs[i].done) = Len(Units[runs[i].source])
    /\ aggregate.by # 0 /\ aggregate.failed = 0 =>
           runs[aggregate.by].status \in {"success", "partial", "running", "absent"}
=============================================================================
