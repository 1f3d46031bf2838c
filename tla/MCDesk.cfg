INIT MCDeskInit
NEXT MCDeskNext
CONSTANTS
  None = None
  MaxNotional = 4
  BlockLive = TRUE
  Modes = {"paper", "live"}
  Size = {1, 2}
  Fill = {0, 1, 3}
  m1 = m1
  m2 = m2
  t1 = t1
  t2 = t2
  Market = {m1, m2}
  Trader = {t1, t2}
  NoOrder = NoOrder
  FillSize <- MCFillSize
  FillPrice = {720, 1440}
  MaxFills = 3
  MaxMishaps = 1
  a = a
  b = b
  o1 = o1
  o2 = o2
  h1 = h1
  h2 = h2
  Model = {a, b}
  Operator = {o1, o2}
  Host = {h1, h2}
  HostOf <- MCHostOf
  NoModel = NoModel
  MaxRequests = 3
  MaxDbFaults = 1
  Capital = 201600
  TickPrice = {50400, 100800}
  RateBps <- MCRate
  Latency = {0, 1}
  FeeBps = 50
  SlippageBps = 100
  AllocationPct = 50
  LeveragePct = 100
  SignalBps = 50
  Interval = 1
  RecordedSize <- MCRecordedSize
  MaxObs = 4
  Gap = {0, 1}
  Held <- MCHeld
  Quantity <- MCQuantity
  Quote = {0, 2}
  Equity = {0, 2}
  MaxLeverage = 2
  MarginPct = 60
  MaxDailyLoss = 1
  MaxSpread = 50
  MinDepth = 50
  Spread = {10, 60}
  Depth = {0, 10, 60}
  Pnl <- MCPnl
  Cooldown = 2
  Action = {1, 2, 3}
  Stamp = 3
  AxisRequests <- MCAxisRequests
  MaxPoints = 5
  MaxCells = 9
  MaxMoves = 1
  Candidates <- MCCandidates
  Venues = {"kraken"}
  VenueOrder <- MCVenueOrder
  HorizonOf <- MCHorizonOf
  Tolerance = 1
  RowLimit = 1
  BatchMaxRows = 1
  ContextMaxRows = 1
  Coins = {"usdc"}
  MaxAge <- MCMaxAge
  Labels = {"high", "unavailable"}
  Finals <- MCFinals
  Delay = 0
  PrimaryHorizon = "1h"
  DecayWindow = 1
  MaxClock = 4
  MaxRows = 2
  MaxDecisions = 2
INVARIANTS DeskTypeOK AuditTellsOutcome LiveSubmissionGuarded BooksBalance DurablePositionCatchesUp
  OneActiveModel ActivationsProceed PromotionReachesItsProcess NoLookAhead BacktestBooksBalance
  DecisionReplays BoundarySeenFromBaseline ReportedAsAlone NamedCohortsAreFresh
PROPERTY ReportSettles
CHECK_DEADLOCK FALSE
