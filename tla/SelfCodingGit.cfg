CONSTANTS
  c1 = c1
  c2 = c2
  cli = cli
  desktop = desktop
  Ids <- TwoIds
  Procs <- OneAgent
  MaxPasses = 2
  MaxOthers = 1
  Faults = {"git", "raise"}
  BackendActs = {"nothing", "edit"}
SPECIFICATION FairSpec
INVARIANTS
  TypeOK
  UndoneIsReverted
PROPERTIES
  LocalMainKeepsOthersWork
  UndoTouchesOnlyItsWork
  PromotionSettles
CHECK_DEADLOCK FALSE
