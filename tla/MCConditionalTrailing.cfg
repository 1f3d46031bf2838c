SPECIFICATION FairSpec
CONSTANTS
  None = None
  Single = {s1, s2}
  Group = {}
  Worker = {w1, w2}
  Modes = {"paper"}
  MaxFailures = 0
  Price = {1, 2, 3}
  KindOf <- MCKindOf
  SideOf <- MCSideOf
  TriggerOf <- MCTriggerOf
PROPERTIES TrailingStopNeverLoosens
CHECK_DEADLOCK FALSE
