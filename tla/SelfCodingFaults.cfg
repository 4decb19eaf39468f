CONSTANTS
  c1 = c1
  c2 = c2
  cli = cli
  desktop = desktop
  Ids <- TwoIds
  Procs <- OneAgent
  MaxPasses = 1
  MaxOthers = 1
  Faults = {"crash", "push_timeout", "save", "git", "raise"}
  BackendActs = {"edit", "commit_edit", "switch_edit"}
SPECIFICATION Spec
INVARIANTS
  OnlyApprovedWorkIsPublished
  ApprovedIsPublished
CHECK_DEADLOCK FALSE
