SPECIFICATION FairSpec
CONSTANTS
  Instances = {g1, g2}
  Calls <- TwoCalls
  Ops <- StartAndRestart
  Faults = {"hang", "token", "foreign"}
  None = None
  Corrupt = Corrupt
  Foreign = Foreign

PROPERTIES CallsReturn SpawnsSettle DrainsFreePorts
CHECK_DEADLOCK FALSE
