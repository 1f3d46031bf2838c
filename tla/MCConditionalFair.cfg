SPECIFICATION BookSpec
CONSTANTS
  None = None
  Single = {s1}
  Group = {g1}
  Worker = {w1, w2}
  Modes = {"paper"}
  MaxFailures = 0
  Price = {1, 3}
  KindOf <- MCKindOf
  SideOf <- MCSideOf
  TriggerOf <- MCTriggerOf
PROPERTIES ClaimEnds
CHECK_DEADLOCK FALSE
