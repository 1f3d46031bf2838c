INIT OrdersInit
NEXT OrdersNext
CONSTANTS
  None = None
  r1 = r1
  r2 = r2
  r3 = r3
  k1 = k1
  k2 = k2
  Request = {r1, r2, r3}
  Key = {k1, k2}
  KeyOf <- MCKeyOf
  SizeOf <- MCSizeOf
  Start = {0, 1}
  Modes = {"paper", "live"}
  MaxFailures = 1
  p1 = p1
  p2 = p2
  t1 = t1
  t2 = t2
  NoProcess = NoProcess
  Process = {p1, p2}
  Thread = {t1, t2}
  RiskModes = {"paper", "live"}
  Cooldown = 1
  MaxLoss = 1
  Realized <- MCRealized
  DayLength = 1
  MaxTime = 2
  MaxFills = 2
  MaxFaults = 2
SYMMETRY MCOrderSymmetry
INVARIANTS LiveOncePerKey RepeatNeedsLapse SubmissionOnRecord LossLimitShared CooldownShared
CHECK_DEADLOCK FALSE
