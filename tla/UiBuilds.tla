------------------------------ MODULE UiBuilds ------------------------------
(***************************************************************************)
(* The catalog of UI builds (UIBuildStore in ui_builds.py) and the build   *)
(* manager of the page, which activates a build, runs its script, and      *)
(* rolls back when the script throws.  The store's lock makes an operation *)
(* one step, except where it writes or removes several files: there the    *)
(* disk may fill up or the application may die in between.                 *)
(***************************************************************************)
EXTENDS Naturals, Sequences

CONSTANTS
  Builtins,      \* ids of the protected builds
  UserBuilds,    \* ids a user may save
  Default,       \* DEFAULT_BUILD_ID
  Clients,       \* activities of the page that may be under way at once
  MaxHistory,    \* MAX_ROLLBACK_HISTORY
  MaxShipped,    \* bound on the releases of the built-in builds
  DiskFails      \* BOOLEAN values: whether writes may fail and crashes tear them

ASSUME DefaultAssumption   == Default \in Builtins /\ Builtins \cap UserBuilds = {}
ASSUME UiBoundsAssumption  == {MaxHistory, MaxShipped} \subseteq Nat \ {0}
ASSUME DiskFailsAssumption == DiskFails \subseteq BOOLEAN

VARIABLES
  dir,       \* the directory of each build
  active,    \* state.json: the active build
  history,   \* state.json: the builds to roll back to, newest last
  writing,   \* the operation that is between two files
  app,       \* the application: down, starting or up
  shipped,   \* the release of the built-ins the application comes with
  client,    \* activities of the page
  shown,     \* the build the page displays, Base for none
  tears      \* one of DiskFails, fixed from the beginning

state  == <<active, history>>
uvars  == <<dir, state, writing, app, shipped, client, shown, tears>>

Builds == Builtins \cup UserBuilds
Base   == "base"
Floor  == 4
Qualities == Floor..5    \* UI_QUALITY_LADDER from the floor up

(* The release tells the versions of a built-in apart; saved builds have 0. *)
NoManifest == [release |-> 0, quality |-> 0]
NoAssets   == [release |-> 0, broken |-> FALSE]
Manifest == [release : 0..MaxShipped, quality : Qualities]
Assets   == [release : 0..MaxShipped, broken : BOOLEAN]
Nothing  == [step |-> "none"]
Idle     == [pc |-> "idle"]

Readable(b) == b \in Builds /\ dir[b].manifest # NoManifest
Quality(b)  == dir[b].manifest.quality
Payload(b)  == [build |-> b, broken |-> dir[b].assets.broken]

Free  == writing = Nothing
Quiet == Free /\ \A c \in Clients : client[c] = Idle

-----------------------------------------------------------------------------
(* state.json is replaced as a whole. *)

Others(b, h) ==
  LET others[n \in 0..Len(h)] ==
        IF n = 0 THEN << >> ELSE IF h[n] = b THEN others[n - 1] ELSE Append(others[n - 1], h[n])
  IN  others[Len(h)]

\* mutant: the history is not cut
CleanUncut(b, h) == Others(b, h)

(* The cleaning of _write_state: a build is not its own predecessor, and the oldest go. *)
Clean(b, h) ==
  LET others == Others(b, h)
      excess == Len(others) - MaxHistory
  IN  SubSeq(others, IF excess > 0 THEN excess + 1 ELSE 1, Len(others))

WriteState(b, h) == active' = b /\ history' = Clean(b, h)

(* active: an unreadable active build is replaced by the default one. *)
Heal == IF Readable(active) THEN UNCHANGED state ELSE WriteState(Default, << >>)

(* rollback: the newest entry that can still be read. *)
Rollback ==
  \/ \E i \in 1..Len(history) :
       /\ Readable(history[i]) /\ \A j \in i + 1..Len(history) : ~Readable(history[j])
       /\ WriteState(history[i], SubSeq(history, 1, i - 1))
  \/ (\A i \in 1..Len(history) : ~Readable(history[i])) /\ WriteState(Default, << >>)

-----------------------------------------------------------------------------
(* Start of the application: _ensure_builtins *)

Launch ==
  /\ app = "down"
  /\ app' = "starting"
  /\ UNCHANGED <<dir, state, writing, shipped, client, shown, tears>>

Outdated(b) == ~Readable(b) \/ dir[b].manifest.release # shipped

Write(b, manifest, assets) ==
  writing' = [step |-> "manifest", build |-> b, manifest |-> manifest, assets |-> assets]

InstallBuiltin(b) ==
  /\ app = "starting" /\ Free /\ Outdated(b)
  /\ Write(b, [release |-> shipped, quality |-> Floor],
              [release |-> shipped, broken |-> FALSE])
  /\ UNCHANGED <<dir, state, app, shipped, client, shown, tears>>

(* The page is loaded and asks for the active build (hydrate). *)
FinishStart ==
  /\ app = "starting" /\ Free /\ \A b \in Builtins : ~Outdated(b)
  /\ Heal
  /\ app' = "up" /\ shown' = Base
  /\ \E c \in Clients : client' = [client EXCEPT ![c] = [pc |-> "hydrate"]]
  /\ UNCHANGED <<dir, writing, shipped, tears>>

-----------------------------------------------------------------------------
(* Files *)

(* _write_build: each file is replaced atomically, the manifest first. *)
WriteManifest ==
  /\ writing.step = "manifest"
  /\ dir' = [dir EXCEPT ![writing.build].manifest = writing.manifest]
  /\ writing' = [writing EXCEPT !.step = "assets"]
  /\ UNCHANGED <<state, app, shipped, client, shown, tears>>

(* The three asset files count as one. *)
WriteAssets ==
  /\ writing.step = "assets"
  /\ dir' = [dir EXCEPT ![writing.build].assets = writing.assets]
  /\ writing' = Nothing
  /\ UNCHANGED <<state, app, shipped, client, shown, tears>>

RemoveFiles ==
  /\ writing.step = "remove"
  /\ dir' = [dir EXCEPT ![writing.build] = [manifest |-> NoManifest, assets |-> NoAssets]]
  /\ writing' = Nothing
  /\ UNCHANGED <<state, app, shipped, client, shown, tears>>

(* What a removal leaves behind when it stops half-way. *)
Remnants(b) ==
  IF writing.step # "remove" THEN {dir[b]}
  ELSE {dir[b], [dir[b] EXCEPT !.manifest = NoManifest], [dir[b] EXCEPT !.assets = NoAssets]}

(* The operation raises; at the start it takes the application down. *)
WriteFails ==
  /\ tears /\ ~Free
  /\ \E rest \in Remnants(writing.build) : dir' = [dir EXCEPT ![writing.build] = rest]
  /\ writing' = Nothing
  /\ app' = IF app = "starting" THEN "down" ELSE app
  /\ UNCHANGED <<state, shipped, client, shown, tears>>

(* The application is closed, or dies. *)
Stop ==
  /\ app # "down" /\ (tears \/ Quiet)
  /\ IF Free THEN UNCHANGED dir
     ELSE \E rest \in Remnants(writing.build) : dir' = [dir EXCEPT ![writing.build] = rest]
  /\ app' = "down" /\ writing' = Nothing /\ shown' = Base
  /\ client' = [c \in Clients |-> Idle]
  /\ UNCHANGED <<state, shipped, tears>>

(* Somebody removes a build by hand. *)
LoseBuild ==
  /\ app = "down"
  /\ \E b \in UserBuilds :
       dir' = [dir EXCEPT ![b] = [manifest |-> NoManifest, assets |-> NoAssets]]
  /\ UNCHANGED <<state, writing, app, shipped, client, shown, tears>>

Release ==
  /\ app = "down" /\ shipped < MaxShipped
  /\ shipped' = shipped + 1
  /\ UNCHANGED <<dir, state, writing, app, client, shown, tears>>

-----------------------------------------------------------------------------
(* Operations of the store *)

CanSave(b, quality) == Readable(b) => quality >= Quality(b)

SaveBuild(b) ==
  /\ app = "up" /\ Free
  /\ \E quality \in Qualities, broken \in BOOLEAN :
       /\ CanSave(b, quality)
       /\ Write(b, [release |-> 0, quality |-> quality], [release |-> 0, broken |-> broken])
  /\ UNCHANGED <<dir, state, app, shipped, client, shown, tears>>

\* mutant: the active build may be deleted
CanDeleteActive(b) == Readable(b)

CanDelete(b) == Readable(b) /\ b # active

DeleteBuild(b) ==
  /\ app = "up" /\ Free /\ CanDelete(b)
  /\ writing' = [step |-> "remove", build |-> b]
  /\ UNCHANGED <<dir, state, app, shipped, client, shown, tears>>

-----------------------------------------------------------------------------
(* The page *)

(* refresh asks for the catalog, which asks for the active build. *)
RefreshCatalog ==
  /\ app = "up" /\ Free
  /\ Heal
  /\ UNCHANGED <<dir, writing, app, shipped, client, shown, tears>>

Hydrate(c) ==
  /\ client[c].pc = "hydrate" /\ Free
  /\ Heal
  /\ client' = [client EXCEPT ![c] = [pc |-> "apply", payload |-> Payload(active')]]
  /\ UNCHANGED <<dir, writing, app, shipped, shown, tears>>

(* activate: the state is read before the active build is looked at. *)
Use(c, b) ==
  /\ app = "up" /\ client[c] = Idle /\ Free
  /\ Readable(b) /\ (Readable(active) => Quality(b) >= Quality(active))
  /\ IF b = active THEN UNCHANGED state ELSE WriteState(b, Append(history, active))
  /\ client' = [client EXCEPT ![c] = [pc |-> "apply", payload |-> Payload(b)]]
  /\ UNCHANGED <<dir, writing, app, shipped, shown, tears>>

Shows(payload) == shown' = IF payload.broken THEN Base ELSE payload.build

(* applyPayload: when the script throws the page rolls back. *)
Apply(c) ==
  /\ client[c].pc = "apply"
  /\ Shows(client[c].payload)
  /\ client' = [client EXCEPT ![c] = IF client[c].payload.broken
                                     THEN [client[c] EXCEPT !.pc = "rollback"] ELSE Idle]
  /\ UNCHANGED <<dir, state, writing, app, shipped, tears>>

(* The fallback of a failed build, or the ROLLBACK button. *)
RollBack(c) ==
  /\ app = "up" /\ Free
  /\ client[c].pc = "rollback" \/ client[c] = Idle
  /\ Rollback
  /\ client' = [client EXCEPT ![c] = [pc |-> "fallback", payload |-> Payload(active')]]
  /\ UNCHANGED <<dir, writing, app, shipped, shown, tears>>

(* A fallback that fails as well leaves the base interface. *)
ApplyFallback(c) ==
  /\ client[c].pc = "fallback"
  /\ Shows(client[c].payload)
  /\ client' = [client EXCEPT ![c] = Idle]
  /\ UNCHANGED <<dir, state, writing, app, shipped, tears>>

-----------------------------------------------------------------------------
UInit ==
  /\ dir = [b \in Builds |-> [manifest |-> NoManifest, assets |-> NoAssets]]
  /\ active = Default /\ history = << >>
  /\ writing = Nothing /\ app = "down" /\ shipped = 1
  /\ client = [c \in Clients |-> Idle] /\ shown = Base
  /\ tears \in DiskFails

FileStep == WriteManifest \/ WriteAssets \/ RemoveFiles \/ WriteFails

UNext ==
  \/ Launch \/ FinishStart \/ Stop \/ LoseBuild \/ Release \/ FileStep
  \/ \E b \in Builtins : InstallBuiltin(b)
  \/ \E b \in UserBuilds : SaveBuild(b) \/ DeleteBuild(b)
  \/ RefreshCatalog
  \/ \E c \in Clients : \/ Hydrate(c) \/ Apply(c) \/ RollBack(c) \/ ApplyFallback(c)
                        \/ \E b \in Builds : Use(c, b)

USpec == UInit /\ [][UNext]_uvars

-----------------------------------------------------------------------------
(* Properties *)

UTypeOK ==
  /\ dir \in [Builds -> [manifest : Manifest \cup {NoManifest}, assets : Assets]]
  /\ active \in Builds /\ history \in Seq(Builds) /\ Len(history) <= MaxHistory
  /\ app \in {"down", "starting", "up"} /\ shipped \in 1..MaxShipped
  /\ writing.step \in {"none", "manifest", "assets", "remove"}
  /\ ~Free => writing.build \in Builds
  /\ \A c \in Clients : client[c].pc \in {"idle", "hydrate", "apply", "rollback", "fallback"}
  /\ shown \in Builds \cup {Base} /\ tears \in BOOLEAN

(* A page at rest displays the build the store calls active, or only the base
   interface: deleting, healing and rolling back leave no other build on
   screen (ui-build-system.md:52). *)
ShownIsActive == app = "up" /\ Quiet /\ shown # Base => shown = active

(* No run checks this one, see the README, other disagreements.  Once started,
   the built-ins are those of the release, manifest and assets alike
   (test_ui_builds.py:114); it holds while no write was torn. *)
BuiltinsAreShipped ==
  app = "up" =>
    \A b \in Builtins : dir[b].manifest.release = shipped /\ dir[b].assets.release = shipped

=============================================================================
