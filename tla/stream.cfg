SPECIFICATION Spec
CONSTANTS
  MaxBuffer = 2
  Natives = {"n1", "n2"}
  Strict = {"n1"}
  Respelled = {"n2"}
  NamedEach = {"n1"}
  Texts <- MCTexts
  MaxEvents = 4
INVARIANTS
  TypeOK
  ClaudeBlocks
  NothingAfterEnd
  ArgumentsInOrder
  ArgumentsWhole
  StopReasonTrue
  OneAttemptVisible
  AnsweredOnce
  LoggedAsReported
CHECK_DEADLOCK FALSE
