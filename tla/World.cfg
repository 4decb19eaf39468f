CONSTANTS
  Things = {a, b}
  Polls = {p1, p2}
  MaxRestarts = 2
  look = look
  write = write
  post = post
  shape = shape
  route = route
  behind = behind
  control = control
  selfCoding = selfCoding
  Registered <- RegisteredOperations
  Universal = {post}
  Guarded <- GuardedOperations
  Routed = {route}
  Behind = {behind}
  Caught = {shape}
  MaxSteps = 2
  MaxActions = 2
  Areas = {x, y, z}
  MaxLoaded = 1
  MaxCache = 1
  MaxQueued = 2
  Budget = 2
  Loaders = {l1, l2}
  Stoppers = {s1, s2}
  Flavours = {"experience", "streamer"}
  Users = {ann, bob}
  Regions = {lab, den}
  Snapshots = {day, night}
  Bookmarks = {mark}
  MaxFrames = 2
  Displays = {left, right}
  Threads = {t1, t2}
  Profiles = {app}
  Strategies = {fast, small}
  Surfaces = {front, back}
  MaxCells = 5
  Crowd = 2
  Worlds = {w}
  Seeds = {seven, nine}
  defaultSeed = seven
  Sounds = {voice, game}
  MaxQueue = 3
  Kinds = {"application", "machine"}
  Names = {m, n}
  Core = core
  Subsystem = subsystem
  Found = {f1, f2}
  Tasks = {task}
  Made = {g1}
  MaxEntities = 5
  MaxHops = 2
  MaxChanges = 4
  MaxEnds = 1
  Windows = {f1}
  Shapers = {shaper}
  WriteFaults = {"layout"}
  MaxAsked = 3
  Callers = {c1, c2}
  TaskIds = {q1, q2}
  EventPolls = {p1, p2}
  WatchPolls = {o1}
  MaxFeed = 3
  Batch = 2
  Phones = {d1, d2}
  Operators = {o1}
  MaxTaps = 2
  Focuses <- All
SPECIFICATION WFairSpec
INVARIANTS
  WorldTypeOK
  PersonDecides
  AreaHasOnePlace
  TraceIsShortest
  ChangedIsRevertible
  TaskTellsOutcome
  DoneAsTold
PROPERTIES
  WorldReachesPage
CHECK_DEADLOCK FALSE
