CONSTANTS
  Workers = {w1}
  Steps <- OneStep
  Outcomes = {"ok", "error"}
  MaxRecords = 2
  MaxCreated = 4
  Threads = {text}
  Ids = {a}
  MaxWorkflows = 1
  MaxOps = 0
SPECIFICATION WSpec
INVARIANTS
  TelemetryNeverRefuses
CHECK_DEADLOCK FALSE
