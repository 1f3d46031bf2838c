INIT JobsInit
NEXT JobsNext
CONSTANTS
  None = None
  pyth = pyth
  kraken = kraken
  yfinance = yfinance
  w1 = w1
  w2 = w2
  Server = {w1, w2}
  Source = {pyth, kraken}
  Priority <- MCPriority
  Reads <- MCReads
  Research = {}
  Price = {100, 101}
  Lag <- MCLag
  ThresholdBps = 50
  Quorum = 2
  FreshFor = 1
  SnapshotTtl = 2
  IntegrityTtl = 1
  LeaseTtl = 1
  MaxTime = 2
  MaxFaults = 1
  MaxJobs = 3
  Workers = {w1, w2}
  Uids = {"u", "v"}
  Lists <- MCLists
  Units <- MCUnits
  Bootstrap = 1
  PageRows = 2
  FirstWindow = 3
  Window = 1
  Threshold = 5
  MaxTicks = 4
  History = 2
  MaxRuns = 3
  MaxLists = 2
INVARIANTS LeaseExclusive LiveNeedsAgreement
  ChangesOnRecord GapsAreOutages SuccessIsComplete
SYMMETRY MCSymmetry
CHECK_DEADLOCK FALSE
