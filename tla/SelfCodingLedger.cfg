CONSTANTS
  c1 = c1
  c2 = c2
  cli = cli
  desktop = desktop
  Ids <- TwoIds
  Procs <- OneAgent
  MaxPasses = 2
  MaxOthers = 1
  Faults = {"crash", "save"}
  BackendActs = {"nothing", "edit", "switch_edit"}
SPECIFICATION Spec
PROPERTIES
  ImplementsLedger
  FailedRunLeavesNoTrace
CHECK_DEADLOCK FALSE
