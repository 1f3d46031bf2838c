SPECIFICATION Spec
CONSTANTS
  None = None
  pyth = pyth
  kraken = kraken
  yfinance = yfinance
  w1 = w1
  w2 = w2
  Server = {w1, w2}
  Source = {pyth, kraken, yfinance}
  Priority <- MCPriority
  Reads <- MCReads
  Research = {yfinance}
  Price = {100, 101}
  Lag <- MCLag
  ThresholdBps = 50
  Quorum = 2
  FreshFor = 1
  SnapshotTtl = 3
  IntegrityTtl = 2
  LeaseTtl = 1
  MaxTime = 1
  MaxFaults = 0
  MaxJobs = 3
INVARIANTS DisagreementBlocksLive
SYMMETRY MCSymmetry
CHECK_DEADLOCK FALSE
