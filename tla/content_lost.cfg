SPECIFICATION ServicesSpec
CONSTANTS
  Models = {"m1", "m2"}
  NoList = NoList
  Static = {"m1"}
  ClaudeTarget <- MCClaudeTarget
  DefaultModels <- MCDefaultModels
  Boot = boot
  Callers = {c1, c2}
  Ttl = 2
  Grace = 1
  MaxRestarts = 1
  Passwords = {"p0", "p1"}
  Initial = "p0"
  Values = {"v1", "v2"}
  MaxStarts = 3
  Hosts = {"proxy", "h"}
  Trusted = {"proxy"}
  NoHost = "none"
  Limit <- MCLimit
  Window <- MCWindow
  MaxBody = 2
  Chunks = {1, 2}
  MaxLen = 20
  Sep = 1
  Pad = 2
  Hint = 1
  Mark = 1
  Reserve = 4
  Margin = 3
  LargeTools = 5
  Protocol = 3
  Names <- MCNames
  AgentLimit = 18
  PromptReserve = 8
  Notice = 2
  Marker = 2
  Floor = 2
  Headers = {4, 9}
  Sizes = {1, 7, 21}
  MaxMessages = 4
INVARIANT ContextComplete
CHECK_DEADLOCK FALSE
