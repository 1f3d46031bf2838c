SPECIFICATION RiskSpec
CONSTANTS
  p1 = p1
  p2 = p2
  t1 = t1
  t2 = t2
  NoProcess = NoProcess
  Process = {p1, p2}
  Thread = {t1, t2}
  RiskModes = {"paper"}
  Cooldown = 2
  MaxLoss = 1
  Realized <- MCRealized
  DayLength = 2
  MaxTime = 3
  MaxFills = 2
  MaxFaults = 1
INVARIANTS DailyLossBlocks
SYMMETRY MCRiskSymmetry
CHECK_DEADLOCK FALSE
