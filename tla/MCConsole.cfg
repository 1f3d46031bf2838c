INIT ConsoleInit
NEXT ConsoleNext
CONSTANTS
  ReadySymbols <- MCReadySymbols
  LegacySymbol = "SOL"
  Feeds <- MCFeeds
  FreshAge = 2
  PriceAges = {2, 3}
  FeedAges = {3, 4, 11}
  Setups <- MCSetups
  NoAge = NoAge
  Missing = Missing
  MaxChanges = 2
  t1 = t1
  t2 = t2
  Token = {t1, t2}
  NoToken = NoToken
  Inventories <- MCInventories
  CallerRoutes <- MCCallerRoutes
  MaxRestarts = 1
  MaxSends = 1
  e1 = e1
  e2 = e2
  Emitter = {e1, e2}
  MaxEvents = 2
  MaxTroubles = 1
  MaxReconnect = 2
  TimelineCap = 2
  d1 = d1
  d2 = d2
  DecisionId = {d1, d2}
  MaxAsks = 4
  MaxRuns = 1
  MaxChoices = 1
  Candidates <- MCCandidates
  Venues = {"drift", "kraken"}
  VenueOrder <- MCVenueOrder
  HorizonOf <- MCHorizonOf
  Tolerance = 1
  RowLimit = 1
  BatchMaxRows = 2
  ContextMaxRows = 2
  Coins = {"usdc"}
  MaxAge <- MCMaxAge
  Labels = {"high", "unavailable"}
  Finals <- MCFinals
  Delay = 0
  MaxClock = 3
  MaxRows = 2
  MaxDecisions = 2
  Bars = {"btc"}
  MaxReferenceAge = 1
  MaxLag = 1
  RegimeReferenceAge = 1
  MaxLegAge = 1
  MaxSkew = 1
  FutureSkew = 0
  StudyReach = 2
  MaxStrata = 1
  CohortLimit = 1
  EventKinds <- MCEventKinds
  MaxStudyClock = 3
  MaxStored = 4
  HeuristicIds = {"stable_rotation", "shock_throttle"}
  Facts <- MCFacts
  QuotePrice = {1, 2}
  ReachOf <- MCHorizonOf
  Primary = "1h"
  LagLimit = 0
  SampleEvery = 1
  DecayHours = 1
  QueryRows = 2
  LateBy = 0
  MaxHour = 4
  MaxQuotes = 2
  MaxFacts = 1
  MaxEvaluations = 2
INVARIANTS ProbesAreWitnessed GateIsExact SubscribedTabMissesNothing
  OutcomesUnderTheirDecision WaitingIsAnswered EveryReadAgrees NothingLeftOut
PROPERTIES ReactionStays SettledEvaluationsStay
CHECK_DEADLOCK FALSE
