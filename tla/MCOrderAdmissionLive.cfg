SPECIFICATION Spec
CONSTANTS
  None = None
  r1 = r1
  r2 = r2
  r3 = r3
  k1 = k1
  k2 = k2
  Request = {r1, r2, r3}
  Key = {k1, k2}
  KeyOf <- MCKeyOf
  SizeOf <- MCSizeOf
  Start = {0, 1}
  Modes = {"live"}
  MaxFailures = 1
SYMMETRY MCSymmetry
INVARIANTS NewExposureAdmitted
CHECK_DEADLOCK FALSE
