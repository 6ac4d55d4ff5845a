SPECIFICATION FairSpec
CONSTANTS
  MaxRequests = 2
  Keys = {"k1", "k2"}
  Arrivals <- Traffic
  Shortlist <- Three
  MaxSessions = 1
  MaxDecisions = 1
  None = None
  MaxBytes = 4
  Strict = "no"
  Token = "ours"
  Unset = {"keyless"}
  PoolSize = 1
  MaxChunks = 2
INVARIANTS TypeOK NeverSpliced ServedReleases Admission
PROPERTIES DrivesRouter AttemptsStart
CHECK_DEADLOCK FALSE
