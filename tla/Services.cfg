CONSTANTS
  Builtins = {workspace, mesh}
  UserBuilds = {a, b}
  Default = workspace
  Clients = {page}
  MaxHistory = 2
  MaxShipped = 2
  DiskFails = {TRUE, FALSE}
  local = local
  cloud = cloud
  Config <- LocalThenCloud
  Gateway = local
  Workers = {w1, w2}
  Starters = {startup}
  MaxRequests = 3
  MaxProcesses = 3
  KeyChoices = {TRUE, FALSE}
  Callers = {c1, c2}
  Accounts = {google, microsoft}
  Rotating = {microsoft}
  MaxTokens = 3
  MaxOperations = 3
  AccountFaults = {"lost_answer", "store_fails", "crash"}
  Focuses <- All
SPECIFICATION SFairSpec
INVARIANTS
  ServicesTypeOK
  ShownIsActive
  OneGatewayPerConnection
  CooldownLimitsFailures
  NoTokenComesBack
PROPERTIES
  EveryBatchEnds
CHECK_DEADLOCK FALSE
