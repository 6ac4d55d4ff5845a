SPECIFICATION Spec
CONSTANTS
  Instances = {g1}
  Calls = {c1}
  Ops <- AnyOp
  Faults = {"slow"}
  None = None
  Corrupt = Corrupt
  Foreign = Foreign

PROPERTY ClearedOnlyWhenQuiet
CHECK_DEADLOCK FALSE
