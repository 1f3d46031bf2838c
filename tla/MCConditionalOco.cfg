SPECIFICATION Spec
CONSTANTS
  None = None
  Single = {}
  Group = {g1}
  Worker = {w1, w2}
  Modes = {"paper"}
  MaxFailures = 0
  Price = {1, 3}
  KindOf <- MCKindOf
  SideOf <- MCSideOf
  TriggerOf <- MCTriggerOf
INVARIANTS OcoExclusive
CHECK_DEADLOCK FALSE
