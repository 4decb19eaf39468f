CONSTANTS
  c1 = c1
  c2 = c2
  cli = cli
  desktop = desktop
  Ids <- TwoIds
  Procs <- OneAgent
  MaxPasses = 1
  MaxOthers = 0
  Faults = {}
  BackendActs = {"edit"}
SPECIFICATION Spec
INVARIANTS
  PendingCanBeDiscarded
CHECK_DEADLOCK FALSE
