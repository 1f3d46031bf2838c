# Verification of Unified Marco Markets

TLA+ models of this repository, the TLC configurations that check them, and
theorems about them that TLAPS proves. Paths are relative to the repository's
root, and to `src/backend/` where they start with `api/`, `core/`, `compute/`,
`data/`, `execution/`, `ingest/`, `ml/` or `services/`.

The program is a FastAPI service. A server process runs the HTTP API, a thread
pool for the synchronous handlers, and the ingest scheduler on its event loop.
Processes share PostgreSQL (autocommitted statements; only the activation of a
model is a transaction of several) and Redis. All else, paper positions and
risk fields included, is the memory of one process. The documentation describes
several workers behind one Redis, so the models have several processes wherever
the code shares something.

## 1. Inventory

| Component | State | Operations | Hard behaviour | What makes it correct |
|---|---|---|---|---|
| Conditional orders (`api/execution_routes.py`, `data/repositories/orders_repo.py`) | rows: status, trailing extreme, bracket | create, cancel, evaluate: list, claim, place, settle or release, cancel siblings | overlapping evaluations, partial creation, a worker that dies between claim and settlement | one worker per claim, one placement, a filled leg closes its bracket, a claim ends |
| Order admission (`api/execution_routes.py`) | Redis keys; rows of intents and orders | classify, claim, store the intent, route, record | retries, lost answers, a claim that expires while its request runs, restarts | live new exposure once per key; what was submitted is on record |
| Execution router (`execution/router.py`, `compute/execution_decision.py`) | the record of the final decision | guards with early returns, the decision computed beside them, submission | guards written twice, facts read twice | record and outcome agree; no live submission past a gate |
| Risk engine (`compute/risk_engine.py`) | fields of each process, daily P&L and last action in Redis | check, record P&L, status, synchronise | several engines, outages between two reads, midnight, threads on one engine | what Redis knows binds every process |
| Ingest scheduler (`ingest/scheduler.py`) | a lease per source in Redis | claim, run, release | a job that outlives its lease, lost answers, outages | one leaseholder per source |
| Price validation and authority (`core/price_validator.py`, `core/price_authority.py`) | expiring prices and statuses in Redis | validate, publish, read | interleaved refreshes, late timestamps, validation that raises | live orders only on recent agreement |
| Position ledger, paper executor (`core/position_ledger.py`, `execution/paper_exec.py`) | positions and totals of a process; position rows | mark, fill, store | threads without a lock, rows out of order | what is held is what was filled; the newest row catches up |
| Backtester (`compute/backtester.py`) | a run's books and pending order | market, funding and recorded observations; synthetic days | equal timestamps, latency, gaps | no look-ahead; equity explained by fills |
| Model governance (`ml/`, `data/repositories/ml_repo.py`) | rows, transactions, a copy per process | train, promote, roll back, predict | row locks under READ COMMITTED, lost commits, stale copies | one active model; activations proceed; a promotion arrives |
| Decision audit, replay, counterfactuals (`compute/decision_*.py`, `compute/counterfactual_*.py`) | rows of `decision_audit` | record, replay, counterfactual, sweep | facts gathered while others change them | a stored decision replays; a reported boundary is the first |
| Decision outcomes (`compute/decision_outcomes.py`) | prices and context by time | report for one or many | batched reads with row limits, late rows | a batch reports what a single report does |
| Reaction Lab (`services/*reaction_service.py`, `compute/event_linked_outcomes.py`) | append-only histories | single study, statistics of many | different queries over growing tables | every query gives the answer of the whole history |
| Heuristic lab (`compute/heuristic_performance.py`) | evaluations | evaluate, upsert, report | re-evaluation over other windows | settled outcomes stay |
| Ingest run ledger (`data/repositories/ingest_repo.py`, `ingest/*_ingest.py`) | runs, histories, list records and changes | five sources with a history | workers that die, overlap, refused writes | changes on record, no holes, success is complete |
| Redis runtime (`core/redis_runtime.py`) | a link per process | ping, calls, reset | unchecked links between pings | part of the probes and the feed |
| Readiness (`core/readiness.py`) | none | five probes | reads at different moments | answers are borne out by some moment of the probe |
| Operator gate (`core/operator_auth.py`, `core/mutation_policy.py`, `src/frontend/assets/operator_access.js`) | the route table, the page's token | judge, redirect, dispatch, restart | two tables, redirects, restarts between them | a handler runs exactly when the configuration grants it |
| Event bus, websocket, timeline (`core/event_bus.py`, `api/ws_routes.py`, `src/frontend/assets/ws.js`) | events, sockets, a buffer | emit, greet, subscribe, forward, flush, poll | failing links, reconnection, hidden tabs | while subscribed no event is missed |
| Dashboard (`src/frontend/assets/app.js`, `ui.js` and others) | panels and requests under way | navigate, open, submit, answer | answers in any order | outcomes under their own decision; nobody waits forever |

`PROJECT.json` lists these with their sources, what of each is modelled, the
components that are not modelled (section 7), and 40 hazards at their lines.

    POST /order ------> admission --> router --> risk engine, execution agent
    evaluate request -> conditional     |  ^          |
       (calls the same place_order)     |  |          +-- Redis: daily loss, last action
                                        |  +-- Redis: prices, integrity status
    scheduler --lease--> job --> Redis  |
         +--> validation --> Redis      +--> executor (paper ledger or venue)
         +--> histories, run ledger     +--> decision_audit --> replay, outcomes
                                        +--> order_intents, orders, fills, positions
    events --> Redis pub/sub --> socket --> timeline
           \-> events table  --> poll  -->   of a tab

- The evaluator calls `place_order` as a function, with the key
  `conditional:<id>`.
- The router reads the prices and the integrity status that a refresh stored;
  nothing tells it that they changed.
- The paper executor records P&L in a risk engine of its own
  (`execution/router.py:54`). Redis is all that links it to the router's.
- Replays, outcomes and studies read rows that others append; they write
  nothing that a decision depends on.

## 2. Plan

Done: every component of the table above has a module, a run and properties.
Every safety and action property that a passing run checks is also a theorem
(section 5); the one liveness property is model-checked.

Next, should the code move there: the components of section 7, first of all
smart execution plans once a slice is submitted, and the live executors once one
is production ready.

## 3. The modules

An operator `X_F` is the operator `X` with a fault `F` in it. No action uses
one; each shows that a property notices that fault.

A Redis command and an autocommitted statement are atomic, and everything
between two of them interleaves. A call may fail without effect, or take effect
and lose its answer: the repositories turn both into `None` or an exception, so
the caller cannot tell them apart. Payloads, reasons, logging and
floating-point scores are left out; prices and sizes are small numbers.

### Orders

`ConditionalLifecycle` says what the table promises, without workers: an order
is offered, taken, placed at most once, settled or returned, or withdrawn.
`ConditionalOrders` has the rows (`status`, `extreme`, `parent`), intents and
Redis keys, a program counter per evaluating request (`pc`, its listing `todo`,
`seen`) and one per creating request (`creating`).

| Action of `ConditionalOrders` | Code |
|---|---|
| `CreateSingle`, `CreateBracketParent`, `CreateBracketChild` | the INSERTs of `create_conditional_order` |
| `CancelConditionalOrder`, `CancelBracketParent` | `delete_conditional_order` |
| `ListConditionalOrders`, `EvaluateOrder`, `FinishEvaluation` | the listing and the loop of `evaluate_conditional_orders`, with the write-back of a trailing extreme |
| `ClaimConditionalOrder`, `ReleaseConditionalClaim`, `MarkConditionalTriggered`, `MarkConditionalFilled`, `CancelOcoSiblings` | the guarded UPDATEs of `orders_repo.py` |
| `ClaimIdempotency`, `CreateIntent`, `RouteOrder` | `place_order`, called by the evaluator |
| `Crash`, `IdempotencyExpires` | environment |

`OrderAdmission` runs `place_order` for several requests on one market:
`Classify`, `ClaimIdempotency`, `CreateIntent`, `CheckRisk`, `FinalDecision`,
`Submit`, `RecordOrder`. The position is read once to classify and once more by
the risk engine; other requests, a venue's late fill (`VenueFill`), an expiring
key (`IdempotencyExpires`) and a `Restart` come in between. The other guards of
the router are the free choice `pass`.

`ExecutionDecision` holds the pure helpers that the router and the replay have
in common. `ExecutionRouter` is one call of `route_order`: one action per guard,
in the code's order, with its early return. What a guard reads is read when the
guard runs, so it may be anything; `audit` is the decision that
`_emit_pre_trade_decision` computes and records.

`RiskRuntime`: each process has an engine (daily P&L, its day, last action);
Redis has the shared copies. `Record` and `Sync` are the two copies that an
order causes (`_risk_replay_spec`, `check_constraints`), `DecideNew` and
`DecideReduction` the decision, `RecordPnl` the paper executor after a realizing
fill, `GetStatus` a status request. A copy may get both answers, one or none.

`LedgerAccounting` is what a fill or a mark makes of an entry. `PositionLedger`:
threads mark (`MarkPosition`), read and book (`BookFill`), write
(`WritePosition`) and store (`StoreFill`) without a lock. `Backtester`: one step
per observation, which is chosen when it is processed, so that no step can
depend on a later one.

### Prices, jobs, models

`SchedulerLease` is the claim and release of leases by jobs over a clock.
`PriceFeed` extends it: a job stores its price (`Store`) and ends
(`FinishJob`); its process reads the stored prices source by source
(`ReadSnapshot`), compares them (`Validate`) and publishes the status
(`Publish`), outside the lease, while other jobs store and publish between any
two of these steps. `LiveGate` is the router's reading. `validate` raises when
it finds disagreement (`check_throttle` does not exist) and when it compares a
research price (`research_corroborroboration` is undefined); then nothing is
published. A tick is half a minute.

`Ingest` has five sources with a history, each read by workers call by call
(`ReceiveList`, `SaveRecord`, `SaveChange`, `CloseList` of sanctions;
`ReceiveRows`, `SaveRow`, `CloseRows` of funding and bars; `ReceiveBatch`,
`CloseTariffs`; `ReceiveNews`), with refused writes, `Crash` between any two and
overlapping runs. A tick is the hour between two runs; a run sees at most one.

`ModelRegistry` has `activate_transactionally` statement by statement
(`LockTarget`, `LockRivals`, `ArchiveRivals`, `ActivateTarget`, `Commit`) with
row locks, the rereading of rows waited for, and the unique index on active
rows; then `InvalidateCache`, and predictions by every process (`LoadActive`,
`KeepModel`, `PredictFromCopy`).

### Decisions and studies

`DecisionAudit` gathers the record of one order, field by field. The router
copies the shared risk state into its engine (`CopyForRecord`) and records the
engine's fields (`RecordPnl`, `RecordLast`); `check_constraints` copies the
state again (`CopyForCheck`) and compares one field after the other
(`CheckLoss`, `CheckCooldown`); the router takes its figures (`TakeResult`),
asks the agent (`AskAgent`) and stores the row (`RecordDecision`). Between any
two of these, other threads of the process use the same engine: they copy
fields (`ThreadCopies`) and end checks of their own, which write the last
action, roll the P&L to another day and replace the figures (`ThreadChecks`);
other processes move the shared state (`MoveSharedState`). `disturbed`
remembers which fields were changed between their record and their use. Its
replay and counterfactuals are operators; so are the sweeps of
`SensitivitySweep`. `DecisionOutcomes` has the tables and their reads, single
and batched; `DecisionReport` the report's two passes as counts. `EventStudy`
and `HeuristicStudy` have tables that grow in any order, also late; the studies
are operators over them, one per query of the code, and are compared with what
the whole history gives.

### Console

`RedisRuntime` is a process's link to Redis. `Readiness` makes each probe read
by read while components come and go. `OperatorGate` is the route table, the
middleware, the redirect of a trailing slash and the page's own table.
`LiveFeed` follows an event from `emit` to the timeline of one tab (`EventsOf`
tells the events among the messages of its socket).
`DashboardPages` has the panels of a tab and the requests it waits for.

### Sums

`MCDesk`, `MCOrders`, `MCScheduledJobs` and `MCConsole` instantiate several
components at once. A constant variable `focus` chooses in the initial
state which of them moves; the others stay in their initial states. That is the
disjoint sum of their state spaces, so a component behaves exactly as it does
alone, and an invariant of one component is checked in all of its states. The
components of a sum share no state, and nothing is claimed of them together.

`Desk` is the composition without `focus`: router, ledger, registry, backtester,
audit record and reports in one behaviour, moving in any order, one at a time.
Its state space is the product, out of TLC's reach; `MCDesk` checks the sum of
its parts, and `DeskTypeCorrect` is about the composition itself.

## 4. The runs

| Run | Instance | Checks |
|---|---|---|
| `conditional_bracket` | one bracket, 2 evaluators, live, 1 failure or crash | `ClaimExclusive`, `PlacedAtMostOnce`, `FilledLegClosesGroup`, `ImplementsLifecycle` |
| `conditional_fair` | one bracket, or one trailing stop; 2 evaluators, paper, no failure; fair | `ClaimEnds` |
| `orders` | admission: 2 requests with one key, 1 with another, 1 failure or restart; limits: 2 processes, 2 threads, 2 days, 2 fills, 2 faults | `LiveOncePerKey`, `RepeatNeedsLapse`, `SubmissionOnRecord`, `LossLimitShared`, `CooldownShared` |
| `scheduled_jobs` | 2 processes, 2 price sources 100 bps apart, 3 jobs without a fault or 2 with one; each source with a history: 2 workers, 3 runs, 2 lists of 2 entries | `LeaseExclusive`, `LiveNeedsAgreement`, `ChangesOnRecord`, `GapsAreOutages`, `SuccessIsComplete` |
| `desk` | the router over every combination of facts; the ledger with 2 markets, 2 threads, 3 fills; the registry with 2 models, 2 operators, 2 processes; backtests of 4 observations; records beside other threads and processes, and their sweeps; reports over 2 decisions | `DeskTypeOK`, `AuditTellsOutcome`, `LiveSubmissionGuarded`, `BooksBalance`, `DurablePositionCatchesUp`, `OneActiveModel`, `ActivationsProceed`, `PromotionReachesItsProcess`, `NoLookAhead`, `BacktestBooksBalance`, `DecisionReplays`, `BoundarySeenFromBaseline`, `ReportedAsAlone`, `NamedCohortsAreFresh`, `ReportSettles` |
| `console` | probes over 2 symbols and 1 feed with 2 changes; the gate with 2 tokens and 1 restart; 2 emitters and one tab with 1 failure; 2 decisions and 4 requests; a study and the heuristics over every order of 4 rows | `ProbesAreWitnessed`, `GateIsExact`, `SubscribedTabMissesNothing`, `OutcomesUnderTheirDecision`, `WaitingIsAnswered`, `EveryReadAgrees`, `NothingLeftOut`, `ReactionStays`, `SettledEvaluationsStay` |
| `conditional_oco` | one bracket, 2 evaluators, paper, no failure | `OcoExclusive`, violated |
| `conditional_trailing` | a buying and a selling trailing stop, 2 evaluators, paper, no failure | `TrailingStopNeverLoosens`, violated |
| `admission_exposure` | as admission, live | `NewExposureAdmitted`, violated |
| `risk_unshared_loss` | as the limits of `orders`, paper | `DailyLossBlocks`, violated |
| `price_warning` | as the price feed, with a research source and no fault | `DisagreementBlocksLive`, violated |
| `decision_replay` | one order's record, one change by others | `VerdictRecomputes`, violated |

The properties that only proofs state (`TypeOK` of `OrderAdmission`,
`RiskTypeOK`, `DashTypeOK`) are in no run.

### Bounds, and why they are enough

- **Conditional orders.** Races are between two workers over one row or over
  the two legs of one bracket, so every run has two workers and one bracket, or
  trailing stops. Prices 1 and 3 hit the stop and the target; the price 2
  between them lets a trailing stop follow. `MaxFailures = 1` puts one failing
  call, lost answer or crash anywhere. The bracket of the safety run is live
  because only there may a submission be accepted without a fill or end
  unknown; the fair run is on paper and without failures, as its property
  exempts any run with one.
- **Router.** One call; sizes and prices give notionals on both sides of the
  cap and a missing price. Nothing else is bounded.
- **Admission.** Two requests with one key race or retry; the third has another
  key and changes the position between the two readings. All sell one unit from
  a position of 0 or 1, so each is a reduction or new exposure depending on
  what came before it.
- **Risk.** A cooldown of one tick can hold and can end; the day changes; each
  fill loses exactly `MaxLoss`, so one reaches the limit and two exceed it.
- **Prices and leases.** A price is stale after one tick and gone after two, a
  status and a lease last one: each expires while something else relies on it.
  The reads of a refresh interleave with the stores of two other jobs, or with
  one other job and one fault; two prices that never held together need one
  store between two reads.
- **Ledger, backtester.** Prices and costs are chosen so that no average entry
  and no fee is rounded (720 and 1440 have every weight of three fills of 2 and
  -1). Three fills open, add or flip, and close. Four observations have a
  decision, a fill after its latency, and one later decision.
- **Registry.** Two operators and two models have every lock order; three
  requests a promotion, a rollback and one more.
- **Records, reports, studies.** One change by another thread or process falls
  between any two steps of a record, besides any number of copies of the shared
  state by threads; that changes accumulate is the proof's matter. Row limits
  of one or two are exceeded by the rows there are, so a truncated read
  happens; two decisions make a batch.
- **Ingest.** Three runs of two workers are two that overlap and one after
  them; pages of two rows are exceeded by a gap of three ticks.
- **Console.** Two changes of components turn a fact between two reads and
  back; one failure falls anywhere on an event's way; four requests are two
  openings of a decision with their outcomes.

`CHECK_DEADLOCK FALSE` is set everywhere: the bounded counters and finished
requests stop each instance, and a server without requests is at rest.

### Fairness

Only `ClaimEnds` needs any: `BookSpec`, like `FairSpec`, has weak fairness of
`Busy(w)`, the next step of an evaluation that has been started, for each of the
two evaluators. A handler is run to its end by its
thread and waits for no other handler. Nobody is obliged to evaluate, cancel or
create, and keys need not expire. Failures and crashes are not excluded; the
property exempts runs with one, since a row left `triggering` by a dead worker
is never recovered by the code. That activations of models do not wait for one
another forever is stated without fairness, as `ActivationsProceed`: whenever
some wait, one of them does not.

## 5. What is proved

Every theorem holds for all values of the constants that the named `ASSUME`s
allow: constants have their types, null values differ from proper ones,
lifetimes are positive, a quorum is at least two, probed symbols and feeds are
sequences, callers' paths have no empty segment but for one trailing slash, a
sanctions list has entries, a source asks for a unit once, and the first read of
bars reaches back as far as the later ones. Horizons, tolerances, ages and row
limits are natural numbers and there are finitely many horizons, markets and
swept values; prices are positive and money is a whole number of units.

Two theorems assume more than constants. `LedgerBalances` and `RunsBalance` are
about the behaviours in which no average entry price is rounded
(`[][NothingRounded]_ledgerVars`, `[][NoRunRounded]_backtestVars`). The code
divides floating-point numbers where the model divides integers; a balance that
holds to the unit can only be stated where the division leaves no rest, and the
runs choose their prices so.

| Module | Theorems, and the properties they state |
|---|---|
| `ConditionalOrdersProofs` | `TypeCorrect`; `Exclusion` (`ClaimExclusive`); `AtMostOnePlacement` (`PlacedAtMostOnce`); `Refinement` (`ImplementsLifecycle`); `FilledCloses` (`FilledLegClosesGroup`) |
| `OrderAdmissionProofs` | `TypeCorrect`; `OncePerKey` (`LiveOncePerKey`); `RepeatsExplained` (`RepeatNeedsLapse`); `Recorded` (`SubmissionOnRecord`) |
| `RiskRuntimeProofs` | `TypeCorrect`; `SharedLossRefuses` (`LossLimitShared`); `SharedCooldownRefuses` (`CooldownShared`) |
| `ScheduledJobsProofs` | `LeaseTyped`; `Exclusive`, `FeedExclusive` (`LeaseExclusive`); `FeedTyped`; `LiveOnAgreement` (`LiveNeedsAgreement`) |
| `DeskProofs` | of the router: `RouterTypeCorrect`; `AuditFaithful` (`AuditTellsOutcome`, for a positive `MaxNotional`); `LiveGuarded` (`LiveSubmissionGuarded`); of the record: `AuditTypeCorrect`; `StoredReplays` (`DecisionReplays`); `BoundaryIsFirst` (`BoundarySeenFromBaseline`); of the books: `FillConserves`; `LedgerTypeCorrect`; `SizesBook`; `RowsCatchUp` (`DurablePositionCatchesUp`); `LedgerBalances` (`BooksBalance`, without rounding); of the backtester: `FillsComeLater` (`NoLookAhead`); `SyntheticBooks`; `RunsBalance` (`BacktestBooksBalance`, without rounding); of the registry: `RegistryTypeCorrect`; `ActiveOnce` (`OneActiveModel`); `PromotionArrives` (`PromotionReachesItsProcess`); `NoRing` (`ActivationsProceed`); of the reports: `CohortsAreFresh` (`NamedCohortsAreFresh`); `ReportsSettle` (`ReportSettles`); of the composition: `DeskTypeCorrect` (`DeskTypeOK`) |
| `StudyProofs` | of the outcomes: `BatchAndWindowChangeNothing` (`ReportedAsAlone`); of the reactions: `EveryQueryGivesTheReaction` (`EveryReadAgrees`); `SeenReactionsStay` (`ReactionStays`); of the statistics: `StatisticsLeaveNothingOut` (`NothingLeftOut`); of the heuristics: `SettledStay` (`SettledEvaluationsStay`) |
| `IngestProofs` | `IngestInvariant`; `CompleteSuccesses` (`SuccessIsComplete`); `HistoriesWhole` (`GapsAreOutages`); `ChangesKept` (`ChangesOnRecord`) |
| `ConsoleProofs` | of the probes: `ProbesTellTheTruth` (`ProbesAreWitnessed`); of the gate: `GateOpensExactly` (`GateIsExact`); of the pages: `TypeCorrect`; `OutcomesBelong` (`OutcomesUnderTheirDecision`); `NobodyWaits` (`WaitingIsAnswered`); of the timeline: `NothingMissed` (`SubscribedTabMissesNothing`) |

### The arguments

- **Conditional orders.** Exclusion alone is not inductive. `HeldRows`: a row
  under work is `triggering` or `cancelled`, so no claim can take it.
  `Progress`: a worker before the router has placed nothing, one after it has
  placed exactly once. `OpenUnplaced`: what can be claimed was never placed,
  because a claim is given back only before a placement. `Unborn` keeps a
  bracket's creation from reviving a row.

  `Refinement` maps the status of a row, with who works on it, to a phase
  (`PhaseOf`). A step moves at most one order, along an edge of the lifecycle
  (`OneMoves`, `Legal`), or stutters; the guard of each UPDATE says which.

  `FilledCloses`: after the cancellation of a filled leg a sibling is active
  only if that cancellation met it in another worker's hands (`spared`), if it
  was inserted after the listing that found its brother (`late`), or if a call
  failed (`Closed`); a worker on its way from fill to cancellation is still
  there unless it died, which counts as a failure. Nothing limits the number of
  evaluators.
- **Admission.** `OwnIntent`: a routed request that was classified as new
  exposure owns the intent of its key, and the UNIQUE key has one owner. The
  Redis claim cannot carry this, since it expires; `ClaimKept` and
  `ClaimsApart` say how far it goes, and give `RepeatsExplained`. `Progress`
  and `Audited` give `Recorded`.
- **Router.** A guard's condition holds behind it (`Passed`), a component's
  result is there once it has been asked (`Checked`), and the last stretch has
  a record (`OnRecord`). The record is faithful only under a positive
  `MAX_ORDER_NOTIONAL`: at 0 the decision takes it for no limit while the
  router blocks every order (section 6).
- **Replay.** Others write the engine at any time, so each field is followed on
  its own: from its record until the check compares it, it is the field of the
  engine and would survive another copy of the shared state, unless somebody
  changed it meanwhile (`FieldsKept`). The comparisons made so far are then
  those of the replay, or the decision depends on a field that was disturbed
  (`Compared`): a reduction depends on neither field, an order on paper not on
  the last action. `DisturbanceNoted` and `OthersStep` are about any step of
  another thread or process. That the verdict replays without this proviso is
  false (finding 6).
- **Risk.** What a check is due to refuse it still sees when it decides
  (`LossSeen`, `CooldownSeen`): its copy is complete because Redis holds all
  that it was told (`StoreKept`), and stays because nobody else of its process
  is between copy and decision (`AloneDecides`).
- **Leases and prices.** A job that believes in its lease has it in Redis,
  under its own token, until the time it knows of (`Backed`). Every step of the
  feed is one of the leases or leaves them alone. What a refresh has read was
  stored at the time of its read, within this tick (`Seen`, `ReadInv`). Prices
  compared in agreement were each found fresh during the refresh, though
  perhaps never together (`FoundAgreed`, `ReadAgree`): that is what
  `LiveNeedsAgreement` says of a live order, and it does not say that they held
  at one moment. A status `OK` on its way to the store is of this tick
  (`Fresh`), a stored one expires within its lifetime of an agreement
  (`Dated`), and the history misses no agreement (`Noticed`).
- **Registry.** A first promotion finds no active row to lock, so locks alone
  do not keep one model active. Whoever is about to commit has archived every
  active row but its own (`CommitReplaces`), only a commit changes which rows
  are active, and the unique index lets one transaction come to its commit at a
  time (`CommitsAlone`). A holder of an active row is past its look for rivals
  (`HoldersOfActive`), so there is no ring. A copy that is not the active model
  is about to be dropped or excused (`LoadedIsActive`, `KeptIsActive`).
- **Ledger.** Without a race the entry that a thread holds is the position plus
  its order (`SizesAgree`); after its write and until the next it is the
  position (`HeldIsWritten`). `FillConserves` says of `apply_fill` that a fill
  neither makes nor loses money, in all its cases, provided the average is
  exact. `LedgerBalances` adds the markets up: without a race the realised
  profit is the total of what each market explains, its open cost and the
  profits still on their way included (`ProfitExplained`). A total is a
  recursion over a set; that it has a solution is shown on the largest subset
  which has one (`SumExists`), and a total changes by what one of its members
  changes by (`TotalAfter`).
- **Backtester.** Each function a run is built from keeps its fills later than
  its decisions (`Timely`) and its capital, costs and profits in balance
  (`Balanced`); each synthetic day adds to the capital what it adds to its
  parts (`Explained`).
- **Sweeps.** A boundary is a pair of neighbours that decide differently. Were
  a point between the baseline and the nearest boundary to decide otherwise,
  the first such point and its neighbour would be a nearer boundary
  (`NearestIsFirst`). Giving a field the value it has in the record changes
  nothing (`BaselineCell`), so the baseline decides as recorded.
- **Reports.** The groups of a kind of cohort are a partition of the window's
  decisions (`FiledCount`, `NamedOnce`), and a decision is filed under a name
  only on a recorded label or a row young enough (`LabelsAreFresh`). What a
  step adds comes after every closed window (`AddedLater`), where no read of a
  closed report reaches, not even by its row limits (`ClosedLoads`).
- **Outcomes.** The one read of a batch is ordered as the reads of its windows
  are, so cut down to a window it is that window's read, and it is given up
  when it was cut short (`BatchReadsAlone`). A decision's cohorts depend on the
  last row of each series alone, and a context read that was not cut short has
  it (`ContextRowsSuffice`, `CohortsFollow`).
- **Reactions.** What an available reaction shows is the last row before the
  event and the first from its target on, under conditions on their ages
  (`ReactionsMean`). A query needs only enough rows around the event
  (`EnoughRows`), which each of the code's queries has (`SelectionsAgree`). A
  row stored later changes a reaction only by coming before the selected one
  (`LaterRow`).
- **Statistics.** The filter of overlapping events is a recursion over the
  events in their order; it has a solution (`ChainExists`), and of any solution
  `ChainKeeps` says what it leaves out and why.
- **Heuristics.** A settled evaluation is what the whole history gives at its
  time, whatever window it was made over (`HeuristicInv`): an outcome depends
  on the rows it may still be taken from alone (`SameOutcome`), and a row
  stored later comes too late for it (`HistoryStays`). Two evaluations of one
  time start from the same row, so they have the same outcomes, and from the
  same start the same context (`SettledStays`); of the same rows the same
  performance (`PerformanceFollows`).
- **Ingest.** A run under way is on a row of its own that nobody has closed,
  and closed rows are numbered in their order (`LedgerInv`). A run has saved
  what is not left over of its list (`SoFar`), and one that is not partial has
  answered for what it no longer asks for (`Answering`), so a row that becomes
  a success is whole. Funding rates of a coin are an interval, and a page that
  is being written goes on from it although another run may have added rows
  since (`Paged`, `AdjoinsStays`): both read the same oldest rows, none starts
  above what is held. Bars are compared with the window at the start of a run
  (`Seen`, `Read`), since an hour may pass before it ends. Whatever a worker
  remembers otherwise than its last success is told by changes that are
  recorded, dropped or still to be saved (`Knows`); that the database's own
  memory is the last success (`DurableListed`) carries this over a restart.
- **Probes.** The witness has every fact that holds now and every one that does
  not (`Seen`), and what is blamed was seen broken (`Blamed`). Every read made
  is either blamed or its fact was seen to hold (`Accounted`). Two reads rely
  on more than their own moment: the fallback to the old name of the SOL status
  is made only after the status's own key failed, or while an `OK` stands under
  the old name (`OldNameJustified`); and the risk runtime is judged by the
  process's link, which is as good as an answer because it is read last, after
  a ping of the same probe (`RuntimeReadLast`).
- **Gate.** What is before the router has passed the gate under the
  configuration in force; a redirect forgets its judgement, and a restart ends
  what was judged (`GateInv`). That the middleware's class is the class of the
  route which runs needs that no path fits templates of both classes
  (`ClassesDiffer`), and that the page's own table has all external routes
  (`PageCoversExternal`).
- **Dashboard.** An answer with outcomes is drawn only on the drawing it was
  asked from, which shows its decision (`Addressed`). What waits is awaited by
  a request whose handler redraws on every path (`WaitingIsAnswered` with
  `Shape`).
- **Timeline.** The log of what was shown, lies in the tab's buffer, is on the
  wire and is still with the listener stays as it is in every step, grows by
  the event being published, or loses its end together with the subscription
  (`LogStep`). What is owed is always an end of it (`EndsGrows`), and an event
  is logged after its emitter has let go of it, so never twice (`OnceGrows`).
- **Desk.** Each part's invariant speaks of the part's own variables; a step of
  one part leaves the others' alone (`PartsMoveApart`).

### Model-checked only

- `ClaimEnds`, a liveness property: fairness and ENABLED are out of the prover's
  reach.
- That the six findings are violations: a counterexample is TLC's to give.
- What recursive definitions compute. Induction over data is out of reach; where
  a theorem needs a recursion (totals, the filter of overlapping events, the
  events of a log), it is shown that a solution exists and what any solution
  satisfies, by a largest set or a least counterexample. What is folded into a
  context or a performance (`ContextOf`, `AggregateEvaluations`) is taken in
  the proofs as some function of its rows.

## 6. Findings

Each is the counterexample of a violated run; `PROJECT.json` quotes the lines.

1. `conditional_oco`: two overlapping evaluations place both legs of a bracket.
   `claim_conditional_order` guards one row, and siblings are cancelled only
   after a fill and only while `active`.
2. `conditional_trailing`: the extreme of a trailing stop is a maximum over the
   evaluator's own listing and written back without a guard; of two overlapping
   evaluations the one that listed earlier stores the older extreme last, and
   the stop loosens.
3. `admission_exposure`: whether an order needs a Redis claim and an intent is
   decided on an earlier reading of the position than the one that decides
   whether it adds exposure.
4. `risk_unshared_loss`: the paper executor books its losses in an engine that
   never checks an order.
5. `price_warning`: validation raises exactly when sources disagree, so the old
   `OK` stays until it expires.
6. `decision_replay`: the risk state on record is read from an engine that
   other threads write before it is checked; an order that one of them allows
   in between refuses this one for a cooldown of which its record knows
   nothing, and its replay allows it.

Other disagreements met while modelling, without a run of their own:

- "Reducing trades always go through" (`Explanation.md:154`) holds for the risk
  engine only: a reduction without a known price, or above the notional cap, is
  blocked before it (`execution/router.py:361`, 365).
- With `MAX_ORDER_NOTIONAL=0` the recorded decision allows what
  `execution/router.py:365` blocks (`compute/execution_decision.py:42`).
- An order refused by an early guard may become ALLOW in a counterfactual that
  lifts that guard, although risk engine and agent were never asked; a decision
  taken with an equity of zero is never stored (`Infinity` in its metrics).
- A sensitivity sweep under a fixed scenario reports the baseline and robustness
  of the decision without it (`compute/counterfactual_sensitivity.py`).
- A tab does not reconnect when it becomes visible (`ws.js:66`, `app.js:99`)
  and goes on polling some panels while hidden, against `Explanation.md:200` and
  203. Inserts that fail quietly contradict "nothing is lost" (206).
- The 100-row cap of single price reports is taken before symbol and venue are
  selected; the event statistics count and read in two statements.
- A malformed funding row stops its coin for good; a bars bootstrap that fails
  midway leaves a permanent hole, which `GapsAreOutages` excuses.
- Other processes keep their copy of a model after a promotion, and its
  prediction snapshot lives for two minutes.

## 7. What is not modelled

- Components: smart execution plans (no slice is ever submitted), the database
  pool, data-quality reports, provider clients, live executors (none is
  production ready, so what one answers is a free choice), market replay and
  sandbox, signal, risk and portfolio analytics, the remaining agents and
  routes. `PROJECT.json` gives the reason for each.
- Values of formulas: leverage, margin, slippage, scores, statistics of
  reports, backtests and studies. They are free choices where a decision
  depends on them, and the counts they are made of where they are reported.
- Timeouts of HTTP clients, except as a second request with the same key.
- In `RiskRuntime`, two checks that overlap in one process: the code holds no
  lock there and the properties exempt them; `alone` says exactly when. The
  throttle: only tests activate it.
- In `PriceFeed`, a refresh takes less than a tick.
- In `DecisionAudit`, the throttle; the daily P&L is that of the order's day,
  or 0 while the field is of another day. A copy of the shared state is one
  step, which a breaking connection may cut short after either answer.
- In `Ingest`, parsing, quotes, WTO and the bodies of GDELT events; a run sees
  at most one tick, and answers are valid rows.
- In `EventStudy`, the LIMIT of the listed sample. In `HeuristicStudy`, more
  than one venue and market, and the funding context.
- In `SensitivitySweep`, fixed scenarios and the realized overlay.
- In `Readiness`, the three execution venues that the price authority asks in
  turn for a symbol (`core/price_authority.py:46`) are one price per symbol,
  read in one step; the two old names of the SOL status are one; no executor is
  production ready, so a live configuration is never ready, and three keys that
  the data-quality page asks for are stored by nobody.
- In `OperatorGate`, paths with an empty segment other than one trailing slash.
- In `DashboardPages`, drawing and layout; a page's other panels are one.
