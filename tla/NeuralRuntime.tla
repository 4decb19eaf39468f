---------------------------- MODULE NeuralRuntime ----------------------------
(***************************************************************************)
(* NeuralAdvancedRuntime (neural_advanced.py): the workspace and the       *)
(* ecology, the history with its dry runs, and small stores; the commands  *)
(* that reach them one by one (neural_world.py:313), the features of the   *)
(* master scope, which work on fixtures of their own in the same state,    *)
(* and the smoke test that runs through them while commands go on.         *)
(* A call that raises changes nothing, but a feature that raises leaves    *)
(* its fixtures.  Streaming and the stores of the fullstack experience     *)
(* have modules of their own.                                              *)
(***************************************************************************)
EXTENDS Workspace, SequencesExt

CONSTANTS
  Entities,                \* what the neural world shows
  core, target,            \* the fixture cells, "master:core" and "master:target"
  MasterSurfaces,          \* the fixture surfaces, in order
  masterGroup, masterScreen, masterUser,
  SnapshotIds,             \* names a command gives its snapshots
  t1, t2,                  \* those of the smoke test, and the one of the features
  masterSnapshot,
  MaxKept,                 \* snapshots kept (512), and what a pruning keeps
  MaxTime,                 \* milliseconds that pass
  People, Regions3D, Machines3D, Topics, masterTopic,
  Areas3D,                 \* the parts of the commands: a behaviour commands one of them
  MaxCommands              \* and gives so many commands, for each part

ASSUME RuntimeAssumption ==
  /\ MaxKept \in Nat \ {0} /\ MaxTime \in Nat /\ MaxCommands \in [Areas3D -> Nat]
  /\ MasterSurfaces \in Seq(Surfaces) /\ Len(MasterSurfaces) \in 2..MaxZ /\ masterGroup \in GroupNames /\ masterScreen \in Screens
  /\ masterUser \in People /\ masterTopic \in Topics

VARIABLES
  workspace, ecology,
  history,      \* [kept, bookmarks]: the snapshots, the oldest first
  recency,      \* every identifier saved so far, the least recently saved first
  clock,        \* in milliseconds
  stores,       \* the small stores
  executed,     \* the features recorded as executed
  smoke,        \* features the smoke test has left
  area, commands

xvars == <<workspace, ecology, history, recency, clock, stores, executed, smoke, area, commands>>

DryRun(t) == <<"dryrun", t>>
SnapshotNames == SnapshotIds \cup {t1, t2, masterSnapshot} \cup {DryRun(t) : t \in 0..MaxTime}

-----------------------------------------------------------------------------
(* NeuralHistory and DryRunPlanner *)

(* No identifier is there twice.                                           *)
WithoutName(s, id) == IF id \in ToSet(s) THEN RemoveAt(s, CHOOSE i \in DOMAIN s : s[i] = id) ELSE s
AsLast(s, id) == Append(WithoutName(s, id), id)
NewestOf(s, n) == IF Len(s) <= n THEN s ELSE SubSeq(s, Len(s) - n + 1, Len(s))

\* mutant: a snapshot saved again stays where it was
KeptInPlace(kept, id) == IF id \in ToSet(kept) THEN kept ELSE NewestOf(Append(kept, id), MaxKept)

(* Saving again makes a snapshot the newest; then the oldest give way.     *)
Kept(kept, id) == NewestOf(AsLast(kept, id), MaxKept)
SavedSnapshot(h, id) == [h EXCEPT !.kept = Kept(@, id)]
Pruned(h, n) == [h EXCEPT !.kept = NewestOf(@, n)]
Bookmarked(h, topic) == [h EXCEPT !.bookmarks = @ \cup {topic}]

SaveSnapshot(id) == history' = SavedSnapshot(history, id) /\ recency' = AsLast(recency, id)

(* A dry run is named for the millisecond: two within one share the name,  *)
(* and the state to restore is that of the later.                          *)
RunDry(knownGood) ==
  IF knownGood THEN SaveSnapshot(DryRun(clock)) ELSE UNCHANGED <<history, recency>>

HistoryCommand ==
  /\ \/ \E id \in SnapshotIds : SaveSnapshot(id)
     \/ \E topic \in Topics : history' = Bookmarked(history, topic) /\ UNCHANGED recency
     \/ \E n \in 1..MaxKept : history' = Pruned(history, n) /\ UNCHANGED recency
     \/ \E knownGood \in BOOLEAN : RunDry(knownGood)
  /\ UNCHANGED <<workspace, ecology, clock, stores, executed>>

-----------------------------------------------------------------------------
(* The small stores, one record *)

EmptyStores == [
  shown |-> [d \in Screens |-> nobody], arranged |-> [d \in Screens |-> nobody],
  asleep |-> FALSE, resets |-> {},
  profiles |-> {}, regions |-> [r \in Regions3D |-> nobody], owners |-> [r \in Regions3D |-> nobody],
  members |-> [r \in Regions3D |-> {}], pins |-> {}, rooms |-> {},
  machines |-> {}, learned |-> {}, walls |-> {}, clipboard |-> nobody, transfers |-> FALSE,
  measured |-> {}, results |-> {}, audible |-> TRUE, sound |-> "adaptive", devices |-> {}, captions |-> TRUE]

IsStores(s) ==
  /\ s.shown \in [Screens -> {nobody, "on", "off"}] /\ s.arranged \in [Screens -> {nobody, "on", "off"}]
  /\ s.asleep \in BOOLEAN /\ s.resets \subseteq Topics
  /\ s.profiles \subseteq People /\ s.regions \in [Regions3D -> People \cup {nobody}]
  /\ s.owners \in [Regions3D -> People \cup {nobody}] /\ s.members \in [Regions3D -> SUBSET People]
  /\ s.pins \subseteq People /\ s.rooms \subseteq People /\ s.machines \subseteq Machines3D
  /\ s.learned \subseteq Topics /\ s.walls \subseteq Topics
  /\ s.clipboard \in Topics \cup {nobody} /\ s.transfers \in BOOLEAN
  /\ s.measured \subseteq {"samples", "costs", "baseline", "compared", "profile"}
  /\ s.results \subseteq {"world", "benchmark"} /\ s.audible \in BOOLEAN
  /\ s.sound \in {"adaptive", "game-priority", "low"} /\ s.devices \subseteq {"eye_gaze", "haptics"}
  /\ s.captions \in BOOLEAN

(* DisplayAwareness: also a display never seen is made by disconnecting it. *)
WithDisplay(s, d, connected) ==
  [s EXCEPT !.shown[d] = IF connected = nobody THEN (IF @ = nobody THEN "on" ELSE @) ELSE connected]
DisplayEffects(s, Which) ==
  {WithDisplay(s, d, how) : d \in Which, how \in {nobody, "on", "off"}}
  \cup {[s EXCEPT !.arranged = s.shown]}

(* ReliabilityManager: the reset of everything forgets those of regions.   *)
ReliabilityEffects(s, Which) ==
  {[s EXCEPT !.asleep = TRUE], [s EXCEPT !.asleep = FALSE], s}
  \cup {[s EXCEPT !.resets = @ \cup {r}] : r \in Which}
FullReset(s) == [s EXCEPT !.resets = {}]

(* MultiUserBrain: the first owner stays the owner, the last one called so *)
(* has the ownership.                                                      *)
WithProfile(s, u) == [s EXCEPT !.profiles = @ \cup {u}]
WithRegion(s, r, u, others) ==
  [s EXCEPT !.regions[r] = IF @ = nobody THEN u ELSE @, !.owners[r] = u, !.members[r] = @ \cup others]
PeopleEffects(s, u) ==
  {WithProfile(s, u), [WithProfile(s, u) EXCEPT !.rooms = @ \cup {u}],
   [WithProfile(s, u) EXCEPT !.pins = @ \cup {u}], s}
  \cup {WithRegion(s, r, u, others) : r \in Regions3D, others \in {{}, {u}}}
PeopleFeature(s) == UNION {PeopleEffects(s, u) : u \in People}

(* PerformanceIntelligence: samples, costs, baselines, comparisons and     *)
(* profiles; the policy, the heat map and the alerts are computed.         *)
Measured(s, kinds) == [s EXCEPT !.measured = @ \cup kinds]
PerformanceEffects(s) ==
  {Measured(s, {"samples"} \cup K) : K \in SUBSET {"costs", "baseline", "compared", "profile"}}

(* CrossApplicationIntelligence, BrowserAndGameProfiles, SimulationLab,    *)
(* AudioScene, RemoteRegionManager and AccessibilityAndXR.                 *)
TransferEffects(s, Which) == {[s EXCEPT !.transfers = TRUE], s} \cup {[s EXCEPT !.clipboard = x] : x \in Which}
ProfileEffects(s, Which) ==
  {[s EXCEPT !.learned = @ \cup {x}] : x \in Which} \cup {[s EXCEPT !.walls = @ \cup {x}] : x \in Which}
SimulationEffects(s) == {[s EXCEPT !.results = @ \cup {x}] : x \in {"world", "benchmark"}}
Heard(s, on, how) == [s EXCEPT !.audible = on, !.sound = how]
AudioEffects(s) == {s} \cup {Heard(s, on, how) : on \in BOOLEAN, how \in {"adaptive", "game-priority", "low"}}
RemoteEffects(s, Which) == {[s EXCEPT !.machines = @ \cup {m}] : m \in Which}
AccessEffects(s) ==
  {[s EXCEPT !.captions = on] : on \in BOOLEAN} \cup {[s EXCEPT !.devices = @ \cup {x}] : x \in {"eye_gaze", "haptics"}}

StoreCommand ==
  /\ stores' \in DisplayEffects(stores, Screens) \cup ReliabilityEffects(stores, Topics) \cup {FullReset(stores)}
                 \cup PeopleFeature(stores) \cup PerformanceEffects(stores)
                 \cup TransferEffects(stores, {}) \cup ProfileEffects(stores, Topics) \cup SimulationEffects(stores)
                 \cup AudioEffects(stores) \cup RemoteEffects(stores, Machines3D) \cup AccessEffects(stores)
  /\ UNCHANGED <<workspace, ecology, history, recency, clock, executed>>

-----------------------------------------------------------------------------
(* Commands on the workspace and the ecology, and what the world does.     *)

WorkspaceCommand ==
  /\ workspace' \in Commanded(workspace)
  /\ UNCHANGED <<ecology, history, recency, clock, stores, executed>>

CoreCommand ==
  /\ ecology' \in CoreCommanded(ecology)
  /\ UNCHANGED <<workspace, history, recency, clock, stores, executed>>

(* A snapshot of the world seeds the cells of what it shows, and a step.   *)
Observe ==
  /\ \E shown \in Lists(Entities) : ecology' = Stepped(Seeded(ecology, shown))
  /\ stores' = Measured(stores, {"costs"})
  /\ UNCHANGED <<workspace, history, recency, clock, executed>>

Tick == ecology' = Stepped(ecology) /\ UNCHANGED <<workspace, history, recency, clock, stores, executed>>

-----------------------------------------------------------------------------
(* The features of the master scope.  Each seeds its fixtures first: the   *)
(* two cells unless they are there, and the three surfaces anew.           *)

FixtureCells(e) == Seeded(e, <<core, target>>)
FixtureSurfaces(w) == Upserted(w, ToSet(MasterSurfaces), [place |-> "given"])

master == MasterSurfaces[1]
anchor == MasterSurfaces[2]

(* growth, filaments, reorganization and the others move cells only; the   *)
(* step is that of the ecology.                                            *)
CoreFeature(e) ==
  {Divided(e, core, 2), Dying(e, core), WithSatellite(e, core), Pulled(e), Stepped(e)}

(* The word "group" is looked for first: moving, resizing, rotating,       *)
(* hiding and restoring a group group the surfaces again.                  *)
SpatialFeature(w) ==
  {Grouped(w, masterGroup, MasterSurfaces), Stacked(w, masterGroup, MasterSurfaces), Tiled(w, MasterSurfaces),
   Snapped(w, master), GroupTurned(w, masterGroup), Tethered(w, master, anchor), Detached(w, master), w,
   Navigated(MonitorWall(w, masterScreen, MasterSurfaces), masterScreen), GiantWall(w, MasterSurfaces),
   Ordered(w, master, MaxZ), Ordered(w, master, 1), Moved(w, master)}
  \cup {Separated(w, moved) : moved \in Separable(w)}
TransitionFeature(w) == {Transitioned(w, to) : to \in {"desktop", "3d"}}

GameFeature(w) == {w, GiantWall(w, MasterSurfaces)}
DisplayFeature(w) ==
  {w, MonitorWall(w, masterScreen, MasterSurfaces), Navigated(w, masterScreen)}

(* Bookmarks, snapshots, pruning; a restoration reads.                     *)
HistoryFeature ==
  \/ SaveSnapshot(masterSnapshot)
  \/ history' = Bookmarked(history, masterTopic) /\ UNCHANGED recency
  \/ history' = Pruned(history, MaxKept) /\ UNCHANGED recency
  \/ UNCHANGED <<history, recency>>
PlanningFeature == RunDry(TRUE) \/ UNCHANGED <<history, recency>>

TransferFeature(s) == TransferEffects(s, {masterTopic})
BrowserFeature(s) == ProfileEffects(s, {masterTopic})
MeasureFeature(s) == PerformanceEffects(s)
AnalyticsFeature(s) == {Measured(s, {"samples"}), Measured(s, {"samples", "compared"})}
LearnFeature(s) == {Measured(s, {"profile", "compared"})}
ResetFeature(s) == ReliabilityEffects(s, {masterTopic})
TestFeature(s) == {[s EXCEPT !.results = @ \cup {"benchmark"}]}
RemoteFeature(s) == RemoteEffects(s, Machines3D) \cup {s}
AccessFeature(s) == AccessEffects(s) \cup {s}
AudioFeature(s) == AudioEffects(s)
StoreFeature(s) ==
  TransferFeature(s) \cup BrowserFeature(s) \cup MeasureFeature(s) \cup AnalyticsFeature(s) \cup LearnFeature(s)
  \cup ResetFeature(s) \cup TestFeature(s) \cup RemoteFeature(s) \cup AccessFeature(s) \cup AudioFeature(s)

(* A comparison raises unless both snapshots are kept; the fixtures stay.  *)
Raises == ~({t1, t2} \subseteq ToSet(history.kept))

Feature(category) ==
  LET e == FixtureCells(ecology)
      w == FixtureSurfaces(workspace)
  IN
  /\ \/ category = "core_neural" /\ ecology' \in CoreFeature(e)
        /\ workspace' = w /\ UNCHANGED <<history, recency, stores>>
     \/ category = "spatial_windows" /\ workspace' \in SpatialFeature(w)
        /\ ecology' = e /\ UNCHANGED <<history, recency, stores>>
     \/ category = "desktop_3d" /\ workspace' \in TransitionFeature(w)
        /\ ecology' = e /\ UNCHANGED <<history, recency, stores>>
     \/ category = "games" /\ workspace' \in GameFeature(w) /\ stores' \in ProfileEffects(stores, {masterTopic})
        /\ ecology' = e /\ UNCHANGED <<history, recency>>
     \/ category = "hardware_display" /\ workspace' \in DisplayFeature(w)
        /\ stores' \in DisplayEffects(stores, {masterScreen}) /\ ecology' = e /\ UNCHANGED <<history, recency>>
     \/ category = "memory_history" /\ HistoryFeature /\ workspace' = w /\ ecology' = e /\ UNCHANGED stores
     \/ category = "planning" /\ PlanningFeature /\ workspace' = w /\ ecology' = e /\ UNCHANGED stores
     \/ category = "time_machine" /\ workspace' = w /\ ecology' = e /\ UNCHANGED <<history, recency, stores>>
     \/ category = "multi_user" /\ stores' \in PeopleFeature(stores)
        /\ workspace' = w /\ ecology' = e /\ UNCHANGED <<history, recency>>
     \/ category = "others" /\ stores' \in StoreFeature(stores)
        /\ workspace' = w /\ ecology' = e /\ UNCHANGED <<history, recency>>
  /\ \/ executed' = executed \cup {category}
     \/ category = "time_machine" /\ Raises /\ UNCHANGED executed
  /\ UNCHANGED clock

Categories == {"core_neural", "spatial_windows", "desktop_3d", "games", "hardware_display", "memory_history",
               "planning", "time_machine", "multi_user", "others"}
FeatureCommand == \E category \in Categories : Feature(category)

-----------------------------------------------------------------------------
(* master_smoke_test makes fixtures and executes the features one by one,  *)
(* passing over those that raise; commands go on meanwhile.                *)

BeginSmoke ==
  /\ smoke = 0 /\ smoke' \in 1..2
  /\ history' = SavedSnapshot(SavedSnapshot(history, t1), t2)
  /\ recency' = AsLast(AsLast(recency, t1), t2)
  /\ stores' = [stores EXCEPT !.shown[masterScreen] = IF @ = nobody THEN "on" ELSE @,
                              !.profiles = @ \cup {masterUser}, !.results = @ \cup {"world"}]
  /\ UNCHANGED <<workspace, ecology, clock, executed>>
SmokeStep == smoke > 0 /\ smoke' = smoke - 1 /\ FeatureCommand

TimePasses ==
  /\ clock < MaxTime /\ clock' = clock + 1
  /\ UNCHANGED <<workspace, ecology, history, recency, stores, executed, smoke, commands>>

XInit ==
  /\ workspace = EmptyWorkspace /\ ecology = EmptyEcology
  /\ history = [kept |-> <<>>, bookmarks |-> {}] /\ recency = <<>> /\ clock = 0
  /\ stores = EmptyStores /\ executed = {} /\ smoke = 0
  /\ area \in Areas3D /\ commands = 0

(* The part of a behaviour's commands bounds the model, not the program.   *)
AreaCommand ==
  \/ area = "workspace" /\ WorkspaceCommand /\ UNCHANGED smoke
  \/ area = "core" /\ (CoreCommand \/ Observe \/ Tick) /\ UNCHANGED smoke
  \/ area = "history" /\ HistoryCommand /\ UNCHANGED smoke
  \/ area = "stores" /\ StoreCommand /\ UNCHANGED smoke
  \/ area = "features" /\ FeatureCommand /\ UNCHANGED smoke
  \/ area = "smoke" /\ HistoryCommand /\ UNCHANGED smoke
  \/ area = "smoke" /\ (BeginSmoke \/ SmokeStep)

XNext ==
  /\ \/ commands < MaxCommands[area] /\ commands' = commands + 1 /\ AreaCommand
     \/ area \in {"history", "smoke"} /\ TimePasses
  /\ UNCHANGED area

XSpec == XInit /\ [][XNext]_xvars

-----------------------------------------------------------------------------

XTypeOK ==
  /\ IsWorkspace(workspace) /\ \A c \in Cells(ecology) : ecology.cells[c] \in CellStates
  /\ history.kept \in SeqOf(SnapshotNames, MaxKept) /\ history.bookmarks \subseteq Topics
  /\ IsStores(stores) /\ executed \subseteq Categories /\ clock \in 0..MaxTime /\ smoke \in 0..2

(* What is kept are the snapshots saved last, in that order, whether they  *)
(* were saved for the first time or again, by a command, a dry run, a      *)
(* feature or the smoke test, and however often it was pruned between      *)
(* (save_snapshot, prune).                                                 *)
NewestAreKept == IsSuffix(history.kept, recency)

(* "Bounded particle ecology" (neural_advanced.py:85).  It is not: what is *)
(* full takes one more cell with every list that names a new one.          *)
EcologyIsBounded == Cardinality(Cells(ecology)) <= MaxParticles

(* Who is in a group's set names that group: left out by the same call.    *)
(* A surface grouped anew stays in the set of its old group and moves and  *)
(* hides with both (group, 428-434).                                       *)
GroupsAreDisjoint == \A g, h \in GroupNames : g # h => workspace.groups[g] \cap workspace.groups[h] = {}

(* A hidden surface is in a group that can be shown again (hide_group).    *)
HiddenCanBeShown ==
  \A s \in DOMAIN workspace.surfaces :
    workspace.surfaces[s].visible \/ \E g \in GroupNames : s \in workspace.groups[g]

(* The owner of a region is the one who has the ownership (region).        *)
RegionHasOneOwner == stores.regions = stores.owners

=============================================================================
