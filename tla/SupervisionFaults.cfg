SPECIFICATION Spec
CONSTANTS
  Instances = {g1, g2}
  Calls = {c1, c2}
  Ops <- AnyOp
  Faults = {"crash", "hang", "slow", "stuck"}
  None = None
  Corrupt = Corrupt
  Foreign = Foreign
SYMMETRY Symmetry
INVARIANT RestartSupersedes
PROPERTIES StatusNeverStrands SignalLicensed
CHECK_DEADLOCK FALSE
