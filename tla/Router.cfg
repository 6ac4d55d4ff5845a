SPECIFICATION RouterSpec
CONSTANTS
  MaxRequests = 4
  Keys = {"k1", "k2", "k3"}
  Arrivals <- Talk
  Shortlist <- OneOfEach
  MaxSessions = 2
  MaxDecisions = 3
  None = None
INVARIANTS RouterTypeOK RouteMatchesDecision KeepsRecentSessions
PROPERTY ToolResultFollows
CHECK_DEADLOCK FALSE
