CONSTANTS
  Workers = {w1, w2}
  Steps <- TwoSteps
  Outcomes = {"ok", "asks", "error"}
  MaxRecords = 2
  MaxCreated = 3
  Threads = {text}
  Ids = {a, b, c}
  MaxWorkflows = 2
  MaxOps = 4
  Tabs = {"home", "coding"}
  Home = "home"
  PageRows = 1
  Refreshes = {r1, r2}
  MaxClicks = 2
  MaxGestures = 5
  Fragile = {"visualizer", "bridge", "mouths", "hands"}
  Awaited = {"hotkey", "mouths", "updater"}
  Slots = {1, 2}
  MaxVersion = 2
  MaxMoves = 2
  MaxFailures = 2
  WarmUp = warm
  Windows = {w}
  Gateways = {g1, g2}
  MaxConnects = 2
  Machines = {{"bundled"}, {"system", "npm"}, {"npm"}, {}}
  BundleFaults = {"silent"}
  m1 = m1
  m2 = m2
  Surfaces = {m1, m2, mine}
  GroupNames = {mg, own}
  Screens = {ms}
  MaxParticles = 3
  Entities = {thing, other}
  core = core
  target = target
  MasterSurfaces <- FixtureOrder
  masterGroup = mg
  masterScreen = ms
  masterUser = ann
  SnapshotIds = {day, night}
  t1 = t1
  t2 = t2
  masterSnapshot = mt
  MaxKept = 2
  MaxTime = 1
  People = {ann, bob}
  Regions3D = {lab}
  Machines3D = {pc}
  Topics = {cad, mtop}
  masterTopic = mtop
  Areas3D = {"workspace", "core", "history", "stores", "features", "smoke"}
  MaxCommands <- CommandBounds
SPECIFICATION ProgramFairSpec
INVARIANTS
  ProgramTypeOK
  ReportsAreAccepted
  StoppedIsOff
  ShownCanBeHidden
  InstalledIsPublished
  AcceptedIsWhole
  NewestAreKept
PROPERTIES
  OutcomeIsReported
  FileChangesByOneOperation
  WhatIsBegunEnds
CHECK_DEADLOCK FALSE
