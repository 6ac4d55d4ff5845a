SPECIFICATION Spec
CONSTANTS
  Instances = {g1, g2}
  Calls = {c1, c2, c3}
  Ops <- StartStop
  Faults = {"crash", "disk", "token", "startup", "damage"}
  None = None
  Corrupt = Corrupt
  Foreign = Foreign
SYMMETRY Symmetry
INVARIANTS TypeOK OneGatewayUp FailedStartLeavesNoChild
PROPERTIES AdvertisedIsBound LostOnlyInWindow
CHECK_DEADLOCK FALSE
