SPECIFICATION Spec
CONSTANTS
  MaxSessions = 1
  MaxCalls = 3
  MaxOutputs = 2
  MaxAttempts = 2
  Requests = {h1, h2}
  Routes = {"responses", "chat"}
SYMMETRY RequestSymmetry
INVARIANTS
  TypeOK
  UnresolvedCallIsPending
  EndIsLast
  NativeErrorMeansNoDispatch
  AgentErrorFailsCalls
  CallHandedOutOnce
  OneReader
  ReaderHasAllAnswers
  EndReportedOnce
PROPERTIES
  ImplementsLedger
CHECK_DEADLOCK FALSE
