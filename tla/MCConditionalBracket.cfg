SPECIFICATION Spec
CONSTANTS
  None = None
  Single = {}
  Group = {g1}
  Worker = {w1, w2}
  Modes = {"live"}
  MaxFailures = 1
  Price = {1, 3}
  KindOf <- MCKindOf
  SideOf <- MCSideOf
  TriggerOf <- MCTriggerOf
SYMMETRY MCSymmetry
INVARIANTS ClaimExclusive PlacedAtMostOnce FilledLegClosesGroup
PROPERTIES ImplementsLifecycle
CHECK_DEADLOCK FALSE
