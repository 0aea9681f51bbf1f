SPECIFICATION FairSpec
CONSTANTS
  MaxSessions = 2
  MaxCalls = 1
  MaxOutputs = 1
  MaxAttempts = 1
  Requests = {h1, h2}
  Routes = {"responses"}
INVARIANTS
  IndexesAgree
  NoRunnerLeaks
  
PROPERTIES
  RelayCallsEnd
  EndReleasesReader
CHECK_DEADLOCK FALSE
