CONSTANTS
  c1 = c1
  c2 = c2
  cli = cli
  desktop = desktop
  Ids <- TwoIds
  Procs <- TwoAgents
  MaxPasses = 1
  MaxOthers = 0
  Faults = {}
  BackendActs = {"edit"}
SPECIFICATION Spec
INVARIANTS
  OnlyApprovedWorkIsPublished
CHECK_DEADLOCK FALSE
