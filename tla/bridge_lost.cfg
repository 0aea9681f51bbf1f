SPECIFICATION Spec
CONSTANTS
  MaxSessions = 1
  MaxCalls = 2
  MaxOutputs = 2
  MaxAttempts = 2
  Requests = {h1}
  Routes = {"responses"}
INVARIANTS
  AcceptedOutputDelivered
CHECK_DEADLOCK FALSE
