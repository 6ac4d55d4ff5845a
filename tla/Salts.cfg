SPECIFICATION Spec
CONSTANTS
  g1 = g1
  g2 = g2
  c1 = c1
  c2 = c2
  Gateways <- MCGateways
  Commands <- MCCommands
  None = None
  Garbage = Garbage
  Theirs = Theirs
  Ephemeral = "no"
  Approved <- MCApproved
  MaxMints = 6
  Casts <- SaltCasts
INVARIANTS SaltsAgree
CHECK_DEADLOCK FALSE
