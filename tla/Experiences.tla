---------------------------- MODULE Experiences ----------------------------
(***************************************************************************)
(* The stores behind the commands of the fullstack experience              *)
(* (neural_fullstack.py): users and their regions, the time machine,       *)
(* displays, optimizations, surfaces, the organism, synthetic worlds,      *)
(* sounds, and records that are only put and replaced.  Each has its own   *)
(* lock and no store reads another.                                        *)
(***************************************************************************)
EXTENDS Naturals, Sequences, SequencesExt

CONSTANTS
  Users, Regions,          \* of the shared workspaces
  Snapshots, Bookmarks,    \* identifiers and names of the time machine
  MaxFrames,               \* frames it keeps (1024)
  Displays, Threads,       \* displays, and who may reconnect them
  Profiles, Strategies,    \* of the optimizations
  Surfaces,                \* of the spatial dynamics
  MaxCells, Crowd,         \* the organism's limit, and when cells may retire (128)
  Worlds, Seeds, defaultSeed,
  Sounds, MaxQueue,        \* kinds of audio events, and how many are queued (2048)
  Kinds, Names             \* of the plain records

ASSUME SizesAssumption ==
  /\ {MaxFrames, MaxQueue} \subseteq Nat \ {0} /\ MaxCells \in Nat /\ Crowd \in 0..MaxCells
  /\ defaultSeed \in Seeds

VARIABLES
  active, known, private, shared, region,   \* users
  frames, bookmark,                         \* time machine
  display, layout, copy,                    \* displays; copy: what a reconnect holds
  rollback, last,                           \* optimizations
  mode, surface,                            \* surfaces
  cells, fertile, raised,                   \* organism
  world,                                    \* synthetic worlds
  queue, tuning,                            \* sounds
  record, allowed                           \* records; controlled applications

userVars == <<active, known, private, shared, region>>
historyVars == <<frames, bookmark>>
displayVars == <<display, layout, copy>>
optimizeVars == <<rollback, last>>
surfaceVars == <<mode, surface>>
organismVars == <<cells, fertile, raised>>
audioVars == <<queue, tuning>>
recordVars == <<record, allowed>>
evars == <<userVars, historyVars, displayVars, optimizeVars, surfaceVars, organismVars, world, audioVars, recordVars>>

none == "none"
RegionRecords == [owner : Users, shared : BOOLEAN, members : SUBSET Users]
NoRegion == [owner |-> none, shared |-> FALSE, members |-> {}]
WorldRecords == [seed : Seeds, populated : BOOLEAN]
NoWorld == [seed |-> none, populated |-> FALSE]

(* A display disconnected before it was registered has no size.            *)
DisplayStates == {none, "partial", "off", "on"}
Tunings == [mode : {"low", "balanced", "quality"}, game : BOOLEAN]
SurfaceStates == {none, "attached", "spatial", "detached"}

ETypeOK ==
  /\ active \in Users \cup {none} /\ known \subseteq Users
  /\ private \in [Users -> SUBSET Regions] /\ shared \in [Users -> SUBSET Regions]
  /\ region \in [Regions -> RegionRecords \cup {NoRegion}]
  /\ frames \in BoundedSeq(Snapshots, MaxFrames) /\ bookmark \in [Bookmarks -> Snapshots \cup {none}]
  /\ display \in [Displays -> DisplayStates] /\ layout \in [Displays -> DisplayStates]
  /\ copy \in [Threads -> Displays \cup {none}]
  /\ rollback \in [Profiles -> BOOLEAN] /\ last \in [Profiles -> Strategies \cup {none}]
  /\ mode \in {"desktop", "3d"} /\ surface \in [Surfaces -> SurfaceStates]
  /\ cells \in 0..MaxCells /\ fertile \in BOOLEAN /\ raised \in BOOLEAN
  /\ world \in [Worlds -> WorldRecords \cup {NoWorld}]
  /\ queue \in BoundedSeq(Sounds, MaxQueue) /\ tuning \in Tunings
  /\ record \in [Kinds -> SUBSET Names] /\ allowed \subseteq Names

-----------------------------------------------------------------------------
(* MultiUserExperience *)

Profile(u) ==
  /\ known' = known \cup {u} /\ active' = IF active = none THEN u ELSE active
  /\ UNCHANGED <<private, shared, region>>

SelectUser(u) ==
  u \in known /\ active' = u /\ UNCHANGED <<known, private, shared, region>>

(* set_layout, pin_neuron: the user becomes known, not active. *)
Arrange(u) == known' = known \cup {u} /\ UNCHANGED <<active, private, shared, region>>

(* A region is made or made over; only its new members are told.           *)
Region(r, owner, isShared, members) ==
  LET all == members \cup {owner} IN
  /\ region' = [region EXCEPT ![r] = [owner |-> owner, shared |-> isShared, members |-> all]]
  /\ IF isShared
     THEN /\ shared' = [u \in Users |-> IF u \in all THEN shared[u] \cup {r} ELSE shared[u]]
          /\ known' = known \cup all /\ UNCHANGED private
     ELSE /\ private' = [private EXCEPT ![owner] = @ \cup {r}]
          /\ known' = known \cup {owner} /\ UNCHANGED shared
  /\ UNCHANGED active

UserCommand ==
  \/ \E u \in Users : Profile(u) \/ SelectUser(u) \/ Arrange(u)
  \/ \E r \in Regions, u \in Users, s \in BOOLEAN, m \in SUBSET Users : Region(r, u, s, m)

-----------------------------------------------------------------------------
(* TimeMachineExperience: identifiers may be captured again.               *)

\* mutant: no frame is dropped
AllFrames(fs) == fs

LastFrames(fs) == IF Len(fs) > MaxFrames THEN Tail(fs) ELSE fs

Capture(s) == frames' = LastFrames(Append(frames, s)) /\ UNCHANGED bookmark

Bookmark(b, s) ==
  s \in ToSet(frames) /\ bookmark' = [bookmark EXCEPT ![b] = s] /\ UNCHANGED frames

HistoryCommand == \E s \in Snapshots : Capture(s) \/ \E b \in Bookmarks : Bookmark(b, s)

-----------------------------------------------------------------------------
(* DisplayExperience *)

Upserted(state) == IF state \in {none, "on"} THEN "on" ELSE "off"

UpdateDisplay(d) == display' = [display EXCEPT ![d] = Upserted(@)] /\ UNCHANGED <<layout, copy>>

Disconnect(d) ==
  /\ display' = [display EXCEPT ![d] = IF @ \in {none, "partial"} THEN "partial" ELSE "off"]
  /\ UNCHANGED <<layout, copy>>

(* reconnect updates, and writes its copy back without having kept the lock. *)
BeginReconnect(t, d) ==
  /\ copy[t] = none /\ copy' = [copy EXCEPT ![t] = d]
  /\ display' = [display EXCEPT ![d] = Upserted(@)] /\ UNCHANGED layout

EndReconnect(t) ==
  /\ copy[t] # none /\ copy' = [copy EXCEPT ![t] = none]
  /\ display' = [display EXCEPT ![copy[t]] = "on"] /\ UNCHANGED layout

SaveLayout == layout' = display /\ UNCHANGED <<display, copy>>

DisplayCommand ==
  \/ \E d \in Displays : UpdateDisplay(d) \/ Disconnect(d) \/ \E t \in Threads : BeginReconnect(t, d)
  \/ SaveLayout \/ \E t \in Threads : EndReconnect(t)

-----------------------------------------------------------------------------
(* OptimizationExperience: compare notes the strategy, apply also the one  *)
(* state to go back to.                                                    *)
CompareStrategies(p, s) == last' = [last EXCEPT ![p] = s] /\ UNCHANGED rollback
Apply(p, s) == last' = [last EXCEPT ![p] = s] /\ rollback' = [rollback EXCEPT ![p] = TRUE]
Rollback(p) == rollback[p] /\ rollback' = [rollback EXCEPT ![p] = FALSE] /\ UNCHANGED last

OptimizeCommand ==
  \E p \in Profiles : Rollback(p) \/ \E s \in Strategies : CompareStrategies(p, s) \/ Apply(p, s)

-----------------------------------------------------------------------------
(* SpatialDynamicsExperience, without its geometry.                        *)
SetSurface(s, state) == surface' = [surface EXCEPT ![s] = state] /\ UNCHANGED mode

Upsert(s) == surface[s] = none /\ SetSurface(s, "attached")

Transition(m) ==
  /\ mode' = m
  /\ surface' = [s \in Surfaces |-> IF surface[s] = none THEN none
                                    ELSE IF m = "desktop" THEN "attached" ELSE "spatial"]

SurfaceCommand ==
  \/ \E s \in Surfaces : Upsert(s) \/ SetSurface(s, "detached") \/ SetSurface(s, "attached")
  \/ \E m \in {"desktop", "3d"} : Transition(m)

-----------------------------------------------------------------------------
(* OrganismExperience.  A cell that may divide stays so: its growth is     *)
(* never reset.  Dividing adds to the cells that step goes through, which  *)
(* ends it: one cell more, and nobody is retired.                          *)
Divides(n) == fertile' /\ n < MaxCells
Retires(n) == \E r \in 0..n : cells' = n - r /\ (r > 0 => cells' >= Crowd)

(* The tick: cells are seeded, then the organism steps. *)
OrganismCommand ==
  \E seeded \in cells..MaxCells :
    /\ fertile' \in {fertile, seeded > 0} /\ raised' = Divides(seeded)
    /\ IF Divides(seeded) THEN cells' = seeded + 1 ELSE Retires(seeded)

-----------------------------------------------------------------------------
(* SimulationWorldExperience: populate evaluates create first.             *)
Create(w, s) == world' = [world EXCEPT ![w] = [seed |-> s, populated |-> FALSE]]
Populate(w) == world' = [world EXCEPT ![w] = [seed |-> defaultSeed, populated |-> TRUE]]

WorldCommand == \E w \in Worlds : Populate(w) \/ \E s \in Seeds : Create(w, s)

-----------------------------------------------------------------------------
(* AudioExperience: nothing takes the events from the queue (drain has no  *)
(* caller), so the oldest are dropped at its limit.                        *)
LastSounds(q) == IF Len(q) > MaxQueue THEN Tail(q) ELSE q

Emit(sound) == queue' = LastSounds(Append(queue, sound)) /\ UNCHANGED tuning
Tune(t) == tuning' = t /\ UNCHANGED queue

AudioCommand == (\E sound \in Sounds : Emit(sound)) \/ \E t \in Tunings : Tune(t)

-----------------------------------------------------------------------------
(* Records of browsers, games, sessions, walls, transfers, machines,       *)
(* applications, devices and resources: put, and replaced when put again.  *)
(* Only the control of a remote application depends on an earlier one; a   *)
(* new record of it has no control.                                        *)
Put(k, n) ==
  /\ record' = [record EXCEPT ![k] = @ \cup {n}]
  /\ allowed' = IF k = "application" THEN allowed \ {n} ELSE allowed

RequestControl(n, confirmed) ==
  /\ confirmed /\ n \in record["application"]
  /\ allowed' = allowed \cup {n} /\ UNCHANGED record

RecordCommand ==
  \E n \in Names : (\E k \in Kinds : Put(k, n)) \/ \E c \in BOOLEAN : RequestControl(n, c)

-----------------------------------------------------------------------------
EInit ==
  /\ active = none /\ known = {}
  /\ private = [u \in Users |-> {}] /\ shared = private /\ region = [r \in Regions |-> NoRegion]
  /\ frames = << >> /\ bookmark = [b \in Bookmarks |-> none]
  /\ display = [d \in Displays |-> none] /\ layout = display /\ copy = [t \in Threads |-> none]
  /\ rollback = [p \in Profiles |-> FALSE] /\ last = [p \in Profiles |-> none]
  /\ mode = "desktop" /\ surface = [s \in Surfaces |-> none]
  /\ cells = 0 /\ fertile = FALSE /\ raised = FALSE
  /\ world = [w \in Worlds |-> NoWorld]
  /\ queue = << >> /\ tuning = [mode |-> "balanced", game |-> FALSE]
  /\ record = [k \in Kinds |-> {}] /\ allowed = {}

(* FullStackNeuralExperience.command: one store per domain.                *)
UserStep == UserCommand /\ UNCHANGED <<historyVars, displayVars, optimizeVars, surfaceVars, organismVars, world, audioVars, recordVars>>
HistoryStep == HistoryCommand /\ UNCHANGED <<userVars, displayVars, optimizeVars, surfaceVars, organismVars, world, audioVars, recordVars>>
DisplayStep == DisplayCommand /\ UNCHANGED <<userVars, historyVars, optimizeVars, surfaceVars, organismVars, world, audioVars, recordVars>>
OptimizeStep == OptimizeCommand /\ UNCHANGED <<userVars, historyVars, displayVars, surfaceVars, organismVars, world, audioVars, recordVars>>
SurfaceStep == SurfaceCommand /\ UNCHANGED <<userVars, historyVars, displayVars, optimizeVars, organismVars, world, audioVars, recordVars>>
OrganismStep == OrganismCommand /\ UNCHANGED <<userVars, historyVars, displayVars, optimizeVars, surfaceVars, world, audioVars, recordVars>>
WorldStep == WorldCommand /\ UNCHANGED <<userVars, historyVars, displayVars, optimizeVars, surfaceVars, organismVars, audioVars, recordVars>>
AudioStep == AudioCommand /\ UNCHANGED <<userVars, historyVars, displayVars, optimizeVars, surfaceVars, organismVars, world, recordVars>>
RecordStep == RecordCommand /\ UNCHANGED <<userVars, historyVars, displayVars, optimizeVars, surfaceVars, organismVars, world, audioVars>>

Command ==
  \/ UserStep \/ HistoryStep \/ DisplayStep \/ OptimizeStep \/ SurfaceStep \/ OrganismStep \/ WorldStep
  \/ AudioStep \/ RecordStep

ESpec == EInit /\ [][Command]_evars

-----------------------------------------------------------------------------
(* No run checks the following, see the README, other disagreements: a     *)
(* profile lists only regions that are the user's; a bookmark names a      *)
(* frame that is kept; a registered display has a size; a step of the      *)
(* organism returns; a populated world keeps its seed; a detached surface  *)
(* stays detached until it is attached.                                    *)
ProfilesListOwnRegions ==
  \A u \in Users, r \in Regions :
    /\ r \in private[u] => region[r].owner = u /\ ~region[r].shared
    /\ r \in shared[u] => region[r].shared /\ u \in region[r].members
BookmarksResolve == \A b \in Bookmarks : bookmark[b] \in ToSet(frames) \cup {none}
RegisteredHasSize == \A d \in Displays : display[d] # "partial"
StepsReturn == ~raised
SeedsAreKept == [][\A w \in Worlds : Populate(w) /\ world[w] # NoWorld => world'[w].seed = world[w].seed]_evars
DetachedStays == [][\A s \in Surfaces : surface[s] = "detached" =>
                      surface'[s] = "detached" \/ SetSurface(s, "attached")]_evars

=============================================================================
