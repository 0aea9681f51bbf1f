SPECIFICATION FairSpec
CONSTANTS
  MaxSessions = 3
  MaxCalls = 0
  MaxOutputs = 1
  MaxAttempts = 1
  Requests = {h1, h2}
  Routes = {"responses"}
PROPERTIES
  ClosingEnds
CHECK_DEADLOCK FALSE
