--------------------------- MODULE DesktopProofs ---------------------------
(***************************************************************************)
(* Proofs about the desktop program, its update, its gateway, the build of *)
(* the gateway's runtime, the workspace page and the neural runtime, and   *)
(* about all of these together, for any values of the constants.           *)
(***************************************************************************)
EXTENDS MCProgram, WorkflowProofs, SequenceTheorems, FiniteSetTheorems, WellFoundedInduction, TLAPS

-----------------------------------------------------------------------------
(* The runtime's build *)

(* What is known of the pieces where the run is: the pieces at the         *)
(* destination are whole whenever they have a manifest, a check begins     *)
(* with one, and what is copied was inspected.                             *)
WholeByOrder ==
  /\ manifest => shipping = Pieces
  /\ step = "check" => manifest
  /\ step \in {"replace", "copy"} => staging = Pieces
  /\ step = "copy" => ~manifest

BundleInv == BTypeOK /\ WholeByOrder /\ AcceptedIsWhole

LEMMA BundleIsKept ==
  ASSUME "part_delete" \notin BundleFaults, BundleInv, BNext
  PROVE  BundleInv'
<1> USE DEF BundleInv, BTypeOK, WholeByOrder, AcceptedIsWhole, EndsRun
<1>1. CASE RunBuild
  BY <1>1 DEF RunBuild
<1>2. CASE Accept
  BY <1>2 DEF Accept
<1>3. CASE Reject
  BY <1>3 DEF Reject, Deleted, Fault
<1>4. CASE FetchNode \/ FetchPackage
  BY <1>4 DEF FetchNode, FetchPackage
<1>5. ASSUME NEW S \in SUBSET (Pieces \ {"node"}), InstallPackage(S)
      PROVE  BundleInv'
  BY <1>5 DEF InstallPackage
<1>6. CASE Repair
  <2>1. "node" \in Pieces
    BY DEF Pieces
  <2> QED BY <1>6, <2>1 DEF Repair
<1>7. CASE Inspect
  BY <1>7 DEF Inspect
<1>8. CASE ReplaceRuntime
  BY <1>8 DEF ReplaceRuntime, Deleted, Fault
<1>9. CASE Copy
  BY <1>9 DEF Copy
<1>10. CASE NameRuntime
  BY <1>10 DEF NameRuntime
<1>11. CASE Abort
  BY <1>11 DEF Abort
<1> QED BY <1>1, <1>2, <1>3, <1>4, <1>5, <1>6, <1>7, <1>8, <1>9, <1>10, <1>11 DEF BNext

(* Whatever an earlier run left when it raised or was killed, a run of the *)
(* build that ends well leaves every piece of the runtime, unless a        *)
(* deletion may leave a part.                                              *)
THEOREM AcceptedIsAlwaysWhole ==
  ASSUME "part_delete" \notin BundleFaults
  PROVE  BSpec => [](BTypeOK /\ AcceptedIsWhole)
<1>1. BInit => BundleInv
  BY DEF BInit, BundleInv, BTypeOK, WholeByOrder, AcceptedIsWhole
<1>2. BundleInv /\ [BNext]_bvars => BundleInv'
  <2>1. CASE BNext
    BY <2>1, BundleIsKept
  <2>2. CASE UNCHANGED bvars
    BY <2>2 DEF bvars, BundleInv, BTypeOK, WholeByOrder, AcceptedIsWhole
  <2> QED BY <2>1, <2>2
<1>3. BundleInv => BTypeOK /\ AcceptedIsWhole
  BY DEF BundleInv
<1> QED BY <1>1, <1>2, <1>3, PTL DEF BSpec

-----------------------------------------------------------------------------
(* The update *)

ProgramRecord ==
  [version : Versions \cup {0}, at : {"none", "waiting", "fetched", "loading", "loaded", "checked", "staged"},
   commit : Versions \cup {0}, digest : Versions \cup {0}, file : Versions \cup {0}, stopping : BOOLEAN]

ScriptRecord == [at : {"none", "waiting", "moved"}, commit : Versions \cup {0}, moves : 0..(MaxMoves - 1)]

(* A program that has read a release knows its commit, and a digest some   *)
(* release had; what it loads some release had; a script has a commit.     *)
Knows(p) ==
  /\ p.at \notin {"none", "waiting"} => p.commit \in Versions /\ p.digest \in 1..named
  /\ p.at = "loading" => p.file \in 1..named
HasCommit(q) == q.at # "none" => q.commit \in Versions

(* The files some release had, and the cut one once programs shared a download. *)
Sound(f) == f \in 0..named \/ (shared /\ f = Cut)

AtFile(p) == p.at \in {"loading", "loaded", "checked"}

(* One program is at a .download file, which holds what it has checked, or *)
(* is gone; no cut file passes from there to where it is installed.        *)
NotShared ==
  /\ \A s, t \in Slots : AtFile(programs[s]) /\ AtFile(programs[t]) /\ programs[s].commit = programs[t].commit => s = t
  /\ \A s \in Slots : programs[s].at = "checked" => partial[programs[s].commit] \in {0, programs[s].digest}

FilesArePublished ==
  /\ asset <= named
  /\ \A c \in Versions : Sound(staged[c]) /\ partial[c] \in (0..named) \cup {Cut}
  /\ Sound(installed) /\ installed # 0
  /\ \A s \in Slots : Knows(programs[s]) /\ HasCommit(scripts[s])
  /\ shared \/ NotShared

UpdateInv == UpdateTypeOK /\ FilesArePublished

LEMMA VersionNumbers == /\ MaxVersion \in Nat \ {0} /\ 0 \notin Versions /\ Cut \notin Versions \cup {0}
                        /\ Versions \subseteq Nat /\ Cut \in Nat /\ Files = Versions \cup {Cut} /\ Cut > MaxVersion
BY UpdateBounds DEF Versions, Cut, Files

(* What the update's records are built from is of its type. *)
LEMMA UpdateValues ==
  /\ NoProgram \in ProgramRecord /\ Knows(NoProgram) /\ ~AtFile(NoProgram)
  /\ NoScript \in ScriptRecord /\ HasCommit(NoScript)
  /\ \A v \in Versions : /\ [NoProgram EXCEPT !.version = v, !.at = "waiting"] \in ProgramRecord
                         /\ Knows([NoProgram EXCEPT !.version = v, !.at = "waiting"])
                         /\ ~AtFile([NoProgram EXCEPT !.version = v, !.at = "waiting"])
  /\ \A p \in ProgramRecord : Waiting(p) \in ProgramRecord /\ Knows(Waiting(p)) /\ ~AtFile(Waiting(p))
<1> USE DEF AtFile
<1>1. NoProgram \in ProgramRecord /\ Knows(NoProgram) /\ ~AtFile(NoProgram)
  BY DEF NoProgram, ProgramRecord, Knows
<1>2. NoScript \in ScriptRecord /\ HasCommit(NoScript)
  BY UpdateBounds DEF NoScript, ScriptRecord, HasCommit
<1>3. ASSUME NEW v \in Versions
      PROVE  /\ [NoProgram EXCEPT !.version = v, !.at = "waiting"] \in ProgramRecord
             /\ Knows([NoProgram EXCEPT !.version = v, !.at = "waiting"])
             /\ ~AtFile([NoProgram EXCEPT !.version = v, !.at = "waiting"])
  BY DEF NoProgram, ProgramRecord, Knows
<1>4. ASSUME NEW p \in ProgramRecord
      PROVE  Waiting(p) \in ProgramRecord /\ Knows(Waiting(p)) /\ ~AtFile(Waiting(p))
  BY DEF ProgramRecord, Knows, Waiting
<1> QED BY <1>1, <1>2, <1>3, <1>4

(* A slot whose program is replaced by one of the type that knows what it should. *)
LEMMA BecomesKeeps ==
  ASSUME UpdateInv, NEW s \in Slots, NEW p \in ProgramRecord, Knows(p), Becomes(s, p)
  PROVE  /\ programs' \in [Slots -> ProgramRecord]
         /\ programs'[s] = p /\ \A t \in Slots \ {s} : programs'[t] = programs[t]
         /\ \A t \in Slots : Knows(programs[t])'
         /\ named' = named /\ asset' = asset
BY DEF UpdateInv, UpdateTypeOK, FilesArePublished, Becomes, releaseVars, Knows, ProgramRecord

(* The rest of the invariant, when the releases stay. *)
LEMMA FilesKept ==
  ASSUME UpdateInv, named' = named, asset' = asset,
         programs' \in [Slots -> ProgramRecord], \A t \in Slots : Knows(programs[t])',
         scripts' \in [Slots -> ScriptRecord], \A t \in Slots : HasCommit(scripts[t])',
         staged' \in [Versions -> Files \cup {0}], partial' \in [Versions -> Files \cup {0}], installed' \in Files,
         \A c \in Versions : Sound(staged[c])' /\ partial'[c] \in (0..named) \cup {Cut},
         Sound(installed)', failures' \in 0..MaxFailures, shared' \in BOOLEAN, shared' \/ NotShared'
  PROVE  UpdateInv'
<1>1. installed' # 0
  BY VersionNumbers
<1> QED BY <1>1 DEF UpdateInv, UpdateTypeOK, FilesArePublished, ProgramRecord, ScriptRecord

LEMMA UpdateFacts ==
  ASSUME UpdateInv, NEW s \in Slots
  PROVE  /\ programs[s] \in ProgramRecord /\ Knows(programs[s]) /\ scripts[s] \in ScriptRecord /\ HasCommit(scripts[s])
         /\ named \in Versions /\ asset \in 0..named /\ installed \in Files
         /\ programs \in [Slots -> ProgramRecord] /\ scripts \in [Slots -> ScriptRecord]
         /\ \A t \in Slots : programs[t] \in ProgramRecord /\ Knows(programs[t]) /\ HasCommit(scripts[t])
<1>1. asset \in 0..named
  BY VersionNumbers DEF UpdateInv, UpdateTypeOK, FilesArePublished
<1> QED BY <1>1 DEF UpdateInv, UpdateTypeOK, FilesArePublished, ProgramRecord, ScriptRecord

LEMMA AnnounceKeeps ==
  ASSUME UpdateInv, Announce \/ ReplaceAsset
  PROVE  UpdateInv'
<1> USE UpdateBounds, VersionNumbers
     DEF UpdateInv, UpdateTypeOK, FilesArePublished, NotShared, AtFile, Sound, Knows, HasCommit, Versions
<1>1. CASE Announce
  BY <1>1 DEF Announce
<1>2. CASE ReplaceAsset
  BY <1>2 DEF ReplaceAsset
<1> QED BY <1>1, <1>2

(* A program that leaves the .download file, or was not at one, and what   *)
(* is deleted: those that stay alone there stay alone.                     *)
LEMMA StaysNotShared ==
  ASSUME UpdateInv, NEW s \in Slots, NEW p \in ProgramRecord, Knows(p), Becomes(s, p),
         UNCHANGED shared,
         AtFile(p) => AtFile(programs[s]) /\ p.commit = programs[s].commit,
         shared \/ (p.at = "checked" => partial'[p.commit] \in {0, p.digest}),
         \/ UNCHANGED partial
         \/ \E f : partial' = [partial EXCEPT ![programs[s].commit] = f] /\ (f = 0 \/ AtFile(programs[s]))
  PROVE  shared' \/ NotShared'
<1> SUFFICES ASSUME ~shared
             PROVE  NotShared'
  OBVIOUS
<1>0. NotShared
  BY DEF UpdateInv, FilesArePublished
<1>1. /\ programs'[s] = p /\ \A t \in Slots \ {s} : programs'[t] = programs[t]
  BY BecomesKeeps
<1>2. ASSUME NEW x \in Slots, NEW y \in Slots, AtFile(programs'[x]), AtFile(programs'[y]),
             programs'[x].commit = programs'[y].commit
      PROVE  x = y
  BY <1>0, <1>1, <1>2 DEF NotShared
<1>3. ASSUME NEW x \in Slots, programs'[x].at = "checked"
      PROVE  partial'[programs'[x].commit] \in {0, programs'[x].digest}
  <2>1. CASE x = s
    BY <1>1, <1>3, <2>1
  <2>2. CASE x # s
    <3>1. partial[programs[x].commit] \in {0, programs[x].digest} /\ programs'[x] = programs[x] /\ AtFile(programs[x])
      BY <1>0, <1>1, <1>3, <2>2 DEF NotShared, AtFile
    <3>2. partial \in [Versions -> Files \cup {0}] /\ programs[x].commit \in Versions
      BY <1>3, <3>1, UpdateFacts DEF UpdateInv, UpdateTypeOK, Knows
    <3>3. AtFile(programs[s]) => programs[s].commit # programs[x].commit
      BY <1>0, <2>2, <3>1 DEF NotShared
    <3> QED BY <3>1, <3>2, <3>3
  <2> QED BY <2>1, <2>2
<1> QED BY <1>2, <1>3 DEF NotShared, AtFile

(* Steps of a program that change its own record and the .download file. *)
LEMMA ProgramKeeps ==
  ASSUME UpdateInv, NEW s \in Slots,
         Open(s) \/ Fetch(s) \/ Receive(s) \/ Check(s) \/ Refuse(s) \/ HandOverFails(s) \/ Quit(s) \/ End(s)
  PROVE  UpdateInv'
<1> DEFINE c == programs[s].commit
           Deletes == \E f \in (0..named) \cup {Cut} :
                        partial' = [partial EXCEPT ![c] = f] /\ (f = 0 \/ AtFile(programs[s]))
           Done(p) == /\ p \in ProgramRecord /\ Knows(p) /\ Becomes(s, p)
                      /\ AtFile(p) => AtFile(programs[s]) /\ p.commit = c
                      /\ shared \/ (p.at = "checked" => partial'[p.commit] \in {0, p.digest})
                      /\ UNCHANGED partial \/ Deletes
<1>0. /\ programs[s] \in ProgramRecord /\ Knows(programs[s]) /\ named \in Versions /\ asset \in 0..named
      /\ installed \in Files /\ partial \in [Versions -> Files \cup {0}]
  BY UpdateFacts DEF UpdateInv, UpdateTypeOK
<1>1. UNCHANGED shared /\ FilesRest /\ failures' \in 0..MaxFailures
  <2>1. UNCHANGED shared /\ FilesRest /\ (failures' = failures \/ FailsByItself)
    <3>1. CASE Open(s) \/ Fetch(s) \/ Check(s) \/ Quit(s) \/ End(s)
      BY <3>1 DEF Open, Fetch, Check, Quit, End, NoDownload
    <3>2. CASE Receive(s)
      BY <3>2 DEF Receive
    <3>3. CASE Refuse(s)
      BY <3>3 DEF Refuse
    <3>4. CASE HandOverFails(s)
      BY <3>4 DEF HandOverFails
    <3> QED BY <3>1, <3>2, <3>3, <3>4
  <2> QED BY <2>1, UpdateBounds DEF FailsByItself, UpdateInv, UpdateTypeOK
<1>2. \E p : Done(p)
  <2>1. CASE Open(s)
    <3> DEFINE p == [NoProgram EXCEPT !.version = installed, !.at = "waiting"]
    <3>1. installed \in Versions
      BY <1>0, <2>1, VersionNumbers DEF Open
    <3>2. Done(p)
      BY <2>1, <3>1, UpdateValues DEF Open, NoDownload, AtFile
    <3> QED BY <3>2
  <2>2. CASE Fetch(s)
    <3> DEFINE p == [programs[s] EXCEPT !.at = "fetched", !.commit = named, !.digest = asset]
    <3>0. asset \in Versions /\ asset \in 1..named
      BY <1>0, <2>2, VersionNumbers DEF Fetch, UpdateInv, UpdateTypeOK
    <3>1. p \in ProgramRecord /\ Knows(p) /\ ~AtFile(p) /\ p.at = "fetched"
      BY <1>0, <3>0 DEF ProgramRecord, Knows, AtFile
    <3>2. Done(p)
      BY <2>2, <3>1 DEF Fetch, NoDownload
    <3> QED BY <3>2
  <2>3. CASE Receive(s)
    <3> DEFINE p == [programs[s] EXCEPT !.at = "loaded", !.file = 0]
    <3>1. p \in ProgramRecord /\ Knows(p) /\ p.at = "loaded" /\ p.commit = c /\ AtFile(programs[s])
      BY <1>0, <2>3 DEF Receive, Doing, ProgramRecord, Knows, AtFile
    <3>2. programs[s].file \in (0..named) \cup {Cut}
      BY <1>0, <2>3, VersionNumbers DEF Receive, Doing, Knows
    <3>3. Done(p)
      BY <2>3, <3>1, <3>2 DEF Receive, Holds
    <3> QED BY <3>3
  <2>4. CASE Check(s)
    <3> DEFINE p == [programs[s] EXCEPT !.at = "checked"]
    <3>1. p \in ProgramRecord /\ Knows(p) /\ p.commit = c /\ p.digest = programs[s].digest /\ AtFile(programs[s])
      BY <1>0, <2>4 DEF Check, Doing, ProgramRecord, Knows, AtFile
    <3>2. Done(p)
      BY <2>4, <3>1 DEF Check, NoDownload
    <3> QED BY <3>2
  <2>5. CASE Refuse(s)
    <3> DEFINE p == Waiting(programs[s])
    <3>1. p \in ProgramRecord /\ Knows(p) /\ ~AtFile(p) /\ p.at # "checked"
      BY <1>0, UpdateValues DEF AtFile
    <3>2. 0 \in (0..named) \cup {Cut}
      BY <1>0, VersionNumbers
    <3>3. Done(p)
      BY <2>5, <3>1, <3>2 DEF Refuse, Holds
    <3> QED BY <3>3
  <2>6. CASE HandOverFails(s)
    <3> DEFINE p == Waiting(programs[s])
    <3>1. p \in ProgramRecord /\ Knows(p) /\ ~AtFile(p) /\ p.at # "checked"
      BY <1>0, UpdateValues DEF AtFile
    <3>2. Done(p)
      BY <2>6, <3>1 DEF HandOverFails
    <3> QED BY <3>2
  <2>7. CASE Quit(s)
    <3> DEFINE p == [programs[s] EXCEPT !.stopping = TRUE]
    <3>1. p \in ProgramRecord /\ Knows(p) /\ p.at = programs[s].at /\ p.commit = c /\ p.digest = programs[s].digest
      BY <1>0 DEF ProgramRecord, Knows
    <3>2. AtFile(p) => AtFile(programs[s])
      BY <3>1 DEF AtFile
    <3>3. shared \/ (p.at = "checked" => partial'[p.commit] \in {0, p.digest})
      BY <2>7, <3>1 DEF Quit, NoDownload, UpdateInv, FilesArePublished, NotShared
    <3>4. Done(p)
      BY <2>7, <3>1, <3>2, <3>3 DEF Quit, NoDownload
    <3> QED BY <3>4
  <2>8. CASE End(s)
    BY <2>8, UpdateValues DEF End, NoDownload, AtFile, NoProgram
  <2> QED BY <2>1, <2>2, <2>3, <2>4, <2>5, <2>6, <2>7, <2>8
<1>3. PICK p : Done(p)
  BY <1>2
<1>4. shared' \/ NotShared'
  BY <1>1, <1>3, StaysNotShared
<1>5. partial' \in [Versions -> Files \cup {0}] /\ \A d \in Versions : partial'[d] \in (0..named) \cup {Cut}
  BY <1>0, <1>3, VersionNumbers DEF UpdateInv, FilesArePublished, Versions
<1>6. /\ programs' \in [Slots -> ProgramRecord] /\ \A t \in Slots : Knows(programs[t])'
      /\ named' = named /\ asset' = asset
  BY <1>3, BecomesKeeps
<1>7. /\ scripts' \in [Slots -> ScriptRecord] /\ (\A t \in Slots : HasCommit(scripts[t])')
      /\ staged' \in [Versions -> Files \cup {0}] /\ installed' \in Files /\ shared' \in BOOLEAN
      /\ (\A d \in Versions : Sound(staged[d])') /\ Sound(installed)'
  <2>1. UNCHANGED <<staged, installed, scripts, shared, named>>
    BY <1>1, <1>6 DEF FilesRest
  <2>2. /\ scripts \in [Slots -> ScriptRecord] /\ (\A t \in Slots : HasCommit(scripts[t]))
        /\ staged \in [Versions -> Files \cup {0}] /\ installed \in Files /\ shared \in BOOLEAN
        /\ (\A d \in Versions : Sound(staged[d])) /\ Sound(installed)
    BY UpdateFacts DEF UpdateInv, UpdateTypeOK, FilesArePublished
  <2> QED BY <2>1, <2>2 DEF Sound, HasCommit
<1> HIDE DEF Step
<1> QED BY <1>1, <1>4, <1>5, <1>6, <1>7, FilesKept

(* A program that opens the .download file is alone there, or shares it. *)
LEMMA LoadKeeps ==
  ASSUME UpdateInv, NEW s \in Slots, Load(s)
  PROVE  UpdateInv'
<1> DEFINE p == [programs[s] EXCEPT !.at = "loading", !.file = asset]
<1>1. /\ programs[s] \in ProgramRecord /\ Knows(programs[s]) /\ named \in Versions /\ asset \in 1..named
      /\ installed \in Files /\ partial \in [Versions -> Files \cup {0}]
  BY UpdateFacts, VersionNumbers DEF Load, UpdateInv, UpdateTypeOK
<1>2. p \in ProgramRecord /\ Knows(p) /\ p.at = "loading" /\ p.commit = programs[s].commit /\ p.commit \in Versions
  <2>1. asset \in Versions \cup {0} /\ programs[s].at = "fetched"
    BY <1>1, VersionNumbers DEF Load, Doing, UpdateInv, UpdateTypeOK
  <2> QED BY <1>1, <2>1 DEF ProgramRecord, Knows
<1>3. /\ programs' \in [Slots -> ProgramRecord] /\ \A t \in Slots : Knows(programs[t])'
      /\ programs'[s] = p /\ \A t \in Slots \ {s} : programs'[t] = programs[t]
      /\ named' = named /\ asset' = asset
  BY <1>2, BecomesKeeps DEF Load
<1>4. shared' \/ NotShared'
  <2> SUFFICES ASSUME ~shared'
               PROVE  NotShared'
    OBVIOUS
  <2>1. Others(s) = {} /\ shared' = shared /\ ~shared
    BY DEF Load
  <2>2. NotShared
    BY <2>1 DEF UpdateInv, FilesArePublished
  <2>3. \A t \in Slots \ {s} : AtFile(programs[t]) => programs[t].commit # p.commit
    BY <2>1, <1>2 DEF Others, AtFile
  <2>4. ASSUME NEW x \in Slots, NEW y \in Slots, AtFile(programs'[x]), AtFile(programs'[y]),
               programs'[x].commit = programs'[y].commit
        PROVE  x = y
    BY <1>3, <2>2, <2>3, <2>4 DEF NotShared
  <2>5. ASSUME NEW x \in Slots, programs'[x].at = "checked"
        PROVE  partial'[programs'[x].commit] \in {0, programs'[x].digest}
    <3>1. x # s /\ programs'[x] = programs[x] /\ AtFile(programs[x])
      BY <1>2, <1>3, <2>5 DEF AtFile
    <3>2. partial[programs[x].commit] \in {0, programs[x].digest} /\ programs[x].commit # p.commit
      BY <2>2, <2>3, <2>5, <3>1 DEF NotShared
    <3> QED BY <1>1, <1>2, <3>1, <3>2 DEF Load, Holds
  <2> QED BY <2>4, <2>5 DEF NotShared, AtFile
<1>5. partial' \in [Versions -> Files \cup {0}] /\ \A d \in Versions : partial'[d] \in (0..named) \cup {Cut}
  BY <1>1, <1>2, VersionNumbers DEF Load, Holds, UpdateInv, FilesArePublished
<1>6. failures' \in 0..MaxFailures /\ shared' \in BOOLEAN /\ (shared => shared')
  <2>1. failures \in 0..MaxFailures /\ shared \in BOOLEAN
    BY DEF UpdateInv, UpdateTypeOK
  <2>2. CASE Others(s) = {}
    BY <2>1, <2>2 DEF Load
  <2>3. CASE Others(s) # {}
    <3>1. failures' = failures + 1 /\ failures < MaxFailures /\ shared' = TRUE
      BY <2>3 DEF Load, FailsByItself
    <3> QED BY <2>1, <3>1, UpdateBounds
  <2> QED BY <2>2, <2>3
<1>7. \A f : Sound(f) => Sound(f)'
  BY <1>3, <1>6 DEF Sound
<1>8. /\ scripts' \in [Slots -> ScriptRecord] /\ (\A t \in Slots : HasCommit(scripts[t])')
      /\ staged' \in [Versions -> Files \cup {0}] /\ installed' \in Files
      /\ (\A d \in Versions : Sound(staged[d])') /\ Sound(installed)'
  <2>1. UNCHANGED <<staged, installed, scripts>>
    BY DEF Load, FilesRest
  <2>2. /\ scripts \in [Slots -> ScriptRecord] /\ (\A t \in Slots : HasCommit(scripts[t]))
        /\ staged \in [Versions -> Files \cup {0}] /\ installed \in Files
        /\ (\A d \in Versions : Sound(staged[d])) /\ Sound(installed)
    BY UpdateFacts DEF UpdateInv, UpdateTypeOK, FilesArePublished
  <2>3. (\A t \in Slots : HasCommit(scripts[t]))'
    BY <2>1, <2>2 DEF HasCommit
  <2>4. (\A d \in Versions : Sound(staged[d])') /\ Sound(installed)'
    BY <1>3, <1>6, <2>1, <2>2 DEF Sound
  <2> QED BY <2>1, <2>2, <2>3, <2>4
<1> QED BY <1>3, <1>4, <1>5, <1>6, <1>8, FilesKept

(* A staged file has the digest its release named, or was shared. *)
LEMMA StageKeeps ==
  ASSUME UpdateInv, NEW s \in Slots, Stage(s)
  PROVE  UpdateInv'
<1> DEFINE p == [programs[s] EXCEPT !.at = "staged"]
           c == programs[s].commit
<1>1. /\ programs[s] \in ProgramRecord /\ Knows(programs[s]) /\ named \in Versions
      /\ partial \in [Versions -> Files \cup {0}] /\ staged \in [Versions -> Files \cup {0}] /\ installed \in Files
  BY UpdateFacts DEF UpdateInv, UpdateTypeOK
<1>2. p \in ProgramRecord /\ Knows(p) /\ ~AtFile(p) /\ c \in Versions
  BY <1>1 DEF Stage, Doing, ProgramRecord, Knows, AtFile
<1>3. /\ programs' \in [Slots -> ProgramRecord] /\ \A t \in Slots : Knows(programs[t])'
      /\ named' = named /\ asset' = asset
  BY <1>2, BecomesKeeps DEF Stage
<1>4. Sound(partial[c]) /\ partial[c] \in Files \cup {0}
  <2>1. CASE shared
    BY <1>1, <1>2, <2>1 DEF Sound, UpdateInv, FilesArePublished
  <2>2. CASE ~shared
    <3>1. partial[c] \in {0, programs[s].digest} /\ programs[s].digest \in 1..named
      BY <1>1, <2>2 DEF Stage, Doing, Knows, NotShared, UpdateInv, FilesArePublished
    <3> QED BY <1>1, <1>2, <3>1, VersionNumbers DEF Sound
  <2> QED BY <2>1, <2>2
<1>5. staged' \in [Versions -> Files \cup {0}] /\ \A d \in Versions : Sound(staged'[d])
  BY <1>1, <1>2, <1>4 DEF Stage, UpdateInv, FilesArePublished
<1>6. partial' \in [Versions -> Files \cup {0}] /\ \A d \in Versions : partial'[d] \in (0..named) \cup {Cut}
  BY <1>1, <1>2, VersionNumbers DEF Stage, Holds, UpdateInv, FilesArePublished, Versions
<1>7. shared' \/ NotShared'
  <2>1. p.at # "checked"
    BY <1>1 DEF ProgramRecord
  <2> QED BY <1>1, <1>2, <2>1, StaysNotShared DEF Stage, Holds
<1> QED BY <1>1, <1>3, <1>5, <1>6, <1>7, FilesKept, UpdateFacts
        DEF Stage, UpdateInv, UpdateTypeOK, FilesArePublished, HasCommit, Sound

LEMMA HandOverKeeps ==
  ASSUME UpdateInv, NEW s \in Slots, HandOver(s)
  PROVE  UpdateInv'
<1> DEFINE q == [at |-> "waiting", commit |-> programs[s].commit, moves |-> 0]
<1>1. q \in ScriptRecord /\ HasCommit(q)
  BY UpdateBounds DEF HandOver, Doing, ScriptRecord, HasCommit, UpdateInv, UpdateTypeOK, FilesArePublished, Knows
<1>2. scripts' \in [Slots -> ScriptRecord] /\ \A t \in Slots : HasCommit(scripts'[t])
  BY <1>1 DEF HandOver, UpdateInv, UpdateTypeOK, FilesArePublished, ScriptRecord, HasCommit
<1>3. /\ programs' \in [Slots -> ProgramRecord] /\ \A t \in Slots : Knows(programs[t])'
      /\ named' = named /\ asset' = asset
  BY UpdateValues, BecomesKeeps DEF HandOver
<1>4. shared' \/ NotShared'
  BY UpdateValues, StaysNotShared DEF HandOver, NoDownload, NoProgram
<1> QED BY <1>2, <1>3, <1>4, FilesKept
        DEF HandOver, NoDownload, UpdateInv, UpdateTypeOK, FilesArePublished, HasCommit, Sound

LEMMA ScriptKeeps ==
  ASSUME UpdateInv, NEW s \in Slots, ScriptStep(s)
  PROVE  UpdateInv'
<1> DEFINE q == scripts[s]
<1>1. /\ q \in ScriptRecord /\ HasCommit(q) /\ named \in Versions /\ installed \in Files
      /\ staged \in [Versions -> Files \cup {0}] /\ \A c \in Versions : Sound(staged[c])
  BY UpdateFacts DEF UpdateInv, UpdateTypeOK, FilesArePublished
<1> DEFINE Follows(r) == r \in ScriptRecord /\ HasCommit(r) /\ scripts' = [scripts EXCEPT ![s] = r]
<1>2. ASSUME NEW r, Follows(r)
      PROVE  scripts' \in [Slots -> ScriptRecord] /\ \A t \in Slots : HasCommit(scripts'[t])
  BY <1>2 DEF UpdateInv, UpdateTypeOK, FilesArePublished, ScriptRecord, HasCommit
<1>3. CASE Move(s)
  <2>1. Follows([q EXCEPT !.at = "moved"])
    BY <1>3, <1>1 DEF Move, ScriptRecord, HasCommit
  <2>2. Sound(installed') /\ installed' \in Files
    BY <1>3, <1>1 DEF Move, CanMove, HasCommit
  <2>3. staged' \in [Versions -> Files \cup {0}] /\ \A c \in Versions : Sound(staged'[c])
    BY <1>1, <1>3, VersionNumbers DEF Move, HasCommit, Sound
  <2> HIDE DEF Follows
  <2> QED BY <1>2, <1>3, <2>1, <2>2, <2>3, FilesKept, UpdateFacts
          DEF Move, NoDownload, releaseVars, UpdateInv, UpdateTypeOK, FilesArePublished, Knows, Sound, NotShared
<1>4. CASE MoveFails(s)
  <2>1. \E r : Follows(r)
    <3>1. CASE q.moves + 1 = MaxMoves
      BY <1>4, <3>1, UpdateValues DEF MoveFails
    <3>2. CASE q.moves + 1 # MaxMoves
      <4> DEFINE r == [q EXCEPT !.moves = @ + 1]
      <4>1. r \in ScriptRecord /\ HasCommit(r)
        BY <1>1, <3>2, UpdateBounds DEF ScriptRecord, HasCommit
      <4>2. scripts' = [scripts EXCEPT ![s] = r]
        BY <1>4, <3>2 DEF MoveFails
      <4> QED BY <3>2, <4>1, <4>2
    <3> QED BY <3>1, <3>2
  <2>2. failures' \in 0..MaxFailures
    BY <1>4, UpdateBounds DEF MoveFails, FailsByItself, UpdateInv, UpdateTypeOK
  <2> HIDE DEF Follows
  <2> QED BY <1>2, <1>4, <2>1, <2>2, FilesKept, UpdateFacts
          DEF MoveFails, releaseVars, UpdateInv, UpdateTypeOK, FilesArePublished, Knows, Sound, NotShared
<1>5. CASE StartNew(s)
  <2>1. Follows(NoScript)
    BY <1>5, UpdateValues DEF StartNew
  <2>2. staged' \in [Versions -> Files \cup {0}] /\ \A c \in Versions : Sound(staged'[c])
    BY <1>1, <1>5, VersionNumbers DEF StartNew, HasCommit, Sound
  <2>3. /\ programs' \in [Slots -> ProgramRecord] /\ (\A t \in Slots : Knows(programs[t])')
        /\ named' = named /\ asset' = asset /\ (shared' \/ NotShared')
    <3>1. CASE installed = Cut
      BY <1>5, <3>1, UpdateFacts DEF StartNew, NoDownload, releaseVars, UpdateInv, FilesArePublished, Knows, NotShared
    <3>2. CASE installed # Cut
      <4> DEFINE p == [NoProgram EXCEPT !.version = installed, !.at = "waiting"]
      <4>1. installed \in Versions
        BY <1>1, <3>2, VersionNumbers
      <4>2. p \in ProgramRecord /\ Knows(p) /\ ~AtFile(p) /\ p.at # "checked"
        BY <4>1, UpdateValues DEF AtFile
      <4>3. Becomes(s, p)
        BY <1>5, <3>2 DEF StartNew
      <4> HIDE DEF p
      <4> QED BY <1>5, <4>2, <4>3, BecomesKeeps, StaysNotShared DEF StartNew, NoDownload
    <3> QED BY <3>1, <3>2
  <2> HIDE DEF Follows
  <2> QED BY <1>2, <1>5, <2>1, <2>2, <2>3, FilesKept
          DEF StartNew, NoDownload, UpdateInv, UpdateTypeOK, FilesArePublished, Sound
<1> QED BY <1>3, <1>4, <1>5 DEF ScriptStep

(* What is installed is always a whole file some release had, unless two   *)
(* programs shared a download: for any number of programs, releases,       *)
(* failures and tries of a script.                                         *)
THEOREM InstalledIsAlwaysPublished == UpdateSpec => [](UpdateTypeOK /\ InstalledIsPublished)
<1>1. UpdateInit => UpdateInv
  <2> SUFFICES ASSUME UpdateInit
               PROVE  UpdateInv
    OBVIOUS
  <2>1. programs \in [Slots -> ProgramRecord] /\ scripts \in [Slots -> ScriptRecord]
    BY UpdateValues DEF UpdateInit
  <2>2. \A s \in Slots : Knows(programs[s]) /\ HasCommit(scripts[s]) /\ ~AtFile(programs[s])
    BY UpdateValues DEF UpdateInit
  <2>3. /\ named \in Versions /\ asset \in Versions /\ installed \in Versions /\ failures \in 0..MaxFailures
        /\ asset <= named /\ installed \in 1..named /\ shared \in BOOLEAN
    <3>1. 1 \in Versions /\ 0 \in 0..MaxFailures
      BY UpdateBounds DEF Versions
    <3>2. named = 1 /\ asset = 1 /\ installed = 1 /\ failures = 0 /\ shared = FALSE
      BY DEF UpdateInit
    <3>3. shared \in BOOLEAN
      BY <3>2
    <3>4. asset <= named /\ installed \in 1..named
      BY <3>2
    <3> QED BY <3>1, <3>2, <3>3, <3>4
  <2>4. /\ staged \in [Versions -> Files \cup {0}] /\ \A c \in Versions : staged[c] = 0
        /\ partial \in [Versions -> Files \cup {0}] /\ \A c \in Versions : partial[c] = 0
    BY DEF UpdateInit
  <2>5. NotShared
    BY <2>2 DEF NotShared, AtFile
  <2> QED BY <2>1, <2>2, <2>3, <2>4, <2>5, VersionNumbers
          DEF UpdateInv, UpdateTypeOK, FilesArePublished, ProgramRecord, ScriptRecord, Sound
<1>2. UpdateInv /\ [UpdateNext]_updateVars => UpdateInv'
  <2> SUFFICES ASSUME UpdateInv, [UpdateNext]_updateVars
               PROVE  UpdateInv'
    OBVIOUS
  <2>1. CASE UNCHANGED updateVars
    BY <2>1 DEF updateVars, releaseVars, UpdateInv, UpdateTypeOK, FilesArePublished, Knows, HasCommit, Sound, NotShared, AtFile
  <2>2. CASE UpdateNext
    BY <2>2, AnnounceKeeps, ProgramKeeps, LoadKeeps, StageKeeps, HandOverKeeps, ScriptKeeps DEF UpdateNext, UpdateStep
  <2> QED BY <2>1, <2>2
<1>3. UpdateInv => UpdateTypeOK /\ InstalledIsPublished
  <2> SUFFICES ASSUME UpdateInv
               PROVE  UpdateTypeOK /\ InstalledIsPublished
    OBVIOUS
  <2>1. named \in Nat
    BY VersionNumbers DEF UpdateInv, UpdateTypeOK
  <2> QED BY <2>1 DEF UpdateInv, FilesArePublished, InstalledIsPublished, Sound
<1> QED BY <1>1, <1>2, <1>3, PTL DEF UpdateSpec

-----------------------------------------------------------------------------
(* The desktop program *)

(* What still runs though no step of the stop has told it to end, or raised for it. *)
Going == running \ (broken \cup late)

(* Without a host nothing but the visualizer was started. *)
StartedByOrder ==
  /\ at \in {"visualizer", "controller", "cleanup"} => ~hosted
  /\ ~hosted => running \subseteq {"visualizer"} /\ at \in {"visualizer", "controller", "cleanup", "stop visualizer", "ended"}

(* What the steps of the stop that are past have stopped. *)
StoppedSoFar ==
  /\ hosted /\ at \in Stops \ {"stop hotkey"} => "hotkey" \notin Going
  /\ at \in {"stop warm-up", "save", "stop hands", "stop voice", "stop visualizer", "close"} => "updater" \notin Going
  /\ at \in {"stop voice", "stop visualizer", "close"} => "hands" \notin Going
  /\ at \in {"stop visualizer", "close"} => Going \cap {"bridge", "mouths"} = {}
  /\ at = "close" => "visualizer" \notin Going
  /\ at = "ended" => Going \cap {"hotkey", "updater", "hands", "bridge", "mouths", "visualizer"} = {}

(* A bar that is shown is the host's, and visible once its close is said   *)
(* and its toggle is past, which holds the lock on the host's bar.         *)
FloatingIsKnown ==
  /\ ~ref => floating = "none" /\ toggling = "none"
  /\ toggling = "shows" => visible \/ crossed \/ leaving
  /\ floating = "shown" /\ closing # "said" /\ ~leaving /\ toggling # "hides" => visible \/ crossed

(* main and the components, and the windows: no step needs both. *)
MainTypes == at \in Places /\ hosted \in BOOLEAN /\ running \subseteq Components
             /\ broken \subseteq Components /\ late \subseteq Components
WindowTypes ==
  /\ saved \in BOOLEAN /\ main \in {"none", "open", "closed"} /\ floating \in {"none", "hidden", "shown"}
  /\ ref \in BOOLEAN /\ visible \in BOOLEAN /\ link \in BOOLEAN /\ settings \in {"none", "open", "closed"}
  /\ shutting \in BOOLEAN /\ closing \in {"none", "said", "hidden"} /\ leaving \in BOOLEAN
  /\ pressed \in {"none", "waits", "toggles"} /\ floatCall \in {"none", "toggles", "done"}
  /\ toggling \in {"none", "shows", "hides"} /\ crossed \in BOOLEAN

MainInv == MainTypes /\ StartedByOrder /\ StoppedSoFar
WindowInv == WindowTypes /\ FloatingIsKnown
HostInv == MainInv /\ WindowInv /\ gestures \in 0..MaxGestures

LEMMA HostTypes == HTypeOK <=> MainTypes /\ WindowTypes /\ gestures \in 0..MaxGestures
BY DEF HTypeOK, MainTypes, WindowTypes

LEMMA MainRests ==
  ASSUME MainInv, UNCHANGED <<at, hosted, running, broken, late>>
  PROVE  MainInv'
BY DEF MainInv, MainTypes, StartedByOrder, StoppedSoFar, Going

LEMMA WindowsRest ==
  ASSUME WindowInv, gestures \in 0..MaxGestures, saved' \in BOOLEAN, UNCHANGED windowVars
  PROVE  WindowInv' /\ gestures' \in 0..MaxGestures
BY DEF WindowInv, WindowTypes, FloatingIsKnown, windowVars, toggleVars

(* A step of the start. *)
LEMMA OnKeeps ==
  ASSUME MainInv, NEW from \in Starts, NEW to \in Starts \cup {"loop", "cleanup"}, NEW C \in SUBSET Components,
         On(from, to, C), hosted' \in BOOLEAN,
         \/ to = "cleanup" /\ hosted' = FALSE /\ C = {} /\ hosted = FALSE
         \/ to = "controller" /\ hosted' = FALSE /\ hosted = FALSE /\ C = {"visualizer"}
         \/ to \notin {"cleanup", "controller", "visualizer"} /\ hosted' = TRUE
  PROVE  MainInv'
<1>1. at' = to /\ running' = running \cup C /\ broken' = broken /\ late' = late
  BY DEF On
<1>2. MainTypes'
  BY <1>1 DEF MainInv, MainTypes, Starts, Places
<1>3. StoppedSoFar'
  BY <1>1 DEF StoppedSoFar, Starts, Stops
<1>4. StartedByOrder'
  BY <1>1 DEF MainInv, StartedByOrder
<1> QED BY <1>2, <1>3, <1>4 DEF MainInv

LEMMA StartKeeps ==
  ASSUME HostInv,
         VisualizerStarts \/ HostIsBuilt \/ HostStarts \/ VoiceStarts \/ HandsStart \/ UpdaterStarts \/ HotkeyStarts
  PROVE  HostInv'
<1>1. MainInv'
  <2> USE DEF Starts, Components
  <2>0. MainInv /\ hosted \in BOOLEAN
    BY DEF HostInv, MainInv, MainTypes
  <2>1. at \in {"visualizer", "controller"} => hosted = FALSE
    BY <2>0 DEF MainInv, StartedByOrder
  <2>2. at \in Starts \ {"visualizer", "controller"} => hosted = TRUE
    BY <2>0 DEF MainInv, StartedByOrder
  <2>3. CASE VisualizerStarts
    BY <2>0, <2>1, <2>3, OnKeeps DEF VisualizerStarts, On
  <2>4. CASE HostIsBuilt
    BY <2>0, <2>1, <2>4, OnKeeps DEF HostIsBuilt, On
  <2>5. CASE HostStarts
    BY <2>0, <2>2, <2>5, OnKeeps DEF HostStarts, On
  <2>6. CASE VoiceStarts
    BY <2>0, <2>2, <2>6, OnKeeps DEF VoiceStarts, On
  <2>7. CASE HandsStart
    BY <2>0, <2>2, <2>7, OnKeeps DEF HandsStart, On
  <2>8. CASE UpdaterStarts
    BY <2>0, <2>2, <2>8, OnKeeps DEF UpdaterStarts, On
  <2>9. CASE HotkeyStarts
    BY <2>0, <2>2, <2>9, OnKeeps DEF HotkeyStarts, On
  <2> QED BY <2>3, <2>4, <2>5, <2>6, <2>7, <2>8, <2>9
<1>2. UNCHANGED <<saved, windowVars>>
  BY DEF VisualizerStarts, HostIsBuilt, HostStarts, VoiceStarts, HandsStart, UpdaterStarts, HotkeyStarts, On
<1>3. saved' \in BOOLEAN
  BY <1>2 DEF HostInv, WindowInv, WindowTypes
<1> QED BY <1>1, <1>2, <1>3, WindowsRest DEF HostInv

(* A step of main between two places that starts and stops nothing. *)
LEMMA MadeKeeps ==
  ASSUME HostInv, WindowsAreMade \/ LoopEnds \/ CleanUp
  PROVE  HostInv'
<1>1. at' \in Places \ {"cleanup", "visualizer", "controller"} /\ UNCHANGED <<hosted, running, broken, late, saved, gestures>>
  BY DEF WindowsAreMade, LoopEnds, CleanUp, Places, Starts, Stops, windowVars
<1>2. \/ at \in {"windows", "loop"} /\ at' \in {"hotkey", "stop hotkey"}
      \/ at = "cleanup" /\ hosted = FALSE /\ at' = "stop visualizer"
  BY DEF WindowsAreMade, LoopEnds, CleanUp, HostInv, MainInv, StartedByOrder, MainTypes
<1>3. MainInv'
  BY <1>1, <1>2 DEF HostInv, MainInv, MainTypes, StartedByOrder, StoppedSoFar, Going, Stops
<1>4. WindowInv'
  <2>1. CASE WindowsAreMade
    <3>1. UNCHANGED <<saved, visible, link, settings, shutting, closing, leaving, toggleVars>>
      BY <2>1 DEF WindowsAreMade
    <3>2. \/ UNCHANGED <<main, floating, ref>>
          \/ main' = "open" /\ floating' = MadeFloating /\ ref' = TRUE
      BY <2>1 DEF WindowsAreMade
    <3>5. WindowTypes
      BY DEF HostInv, WindowInv
    <3>6. main' \in {"none", "open", "closed"} /\ floating' \in {"none", "hidden", "shown"}
      BY <3>2, <3>5 DEF MadeFloating, WindowTypes
    <3>7. ref' = ref \/ ref' = TRUE
      BY <3>2
    <3>8. ref' \in BOOLEAN
      BY <3>5, <3>7, Zenon DEF WindowTypes
    <3>9. /\ UNCHANGED <<saved, visible, link, settings, shutting, closing, leaving>>
          /\ UNCHANGED <<pressed, floatCall, toggling, crossed>>
      BY <3>1 DEF toggleVars
    <3>3. WindowTypes'
      BY <3>5, <3>6, <3>8, <3>9 DEF WindowTypes
    <3>4. FloatingIsKnown'
      BY <3>1, <3>2 DEF MadeFloating, HostInv, WindowInv, WindowTypes, FloatingIsKnown, toggleVars
    <3> QED BY <3>3, <3>4 DEF WindowInv
  <2>2. CASE LoopEnds \/ CleanUp
    <3>1. UNCHANGED windowVars /\ saved' \in BOOLEAN
      BY <1>1, <2>2 DEF LoopEnds, CleanUp, HostInv, WindowInv, WindowTypes
    <3> QED BY <3>1, WindowsRest DEF HostInv
  <2> QED BY <2>1, <2>2
<1> QED BY <1>1, <1>3, <1>4 DEF HostInv

(* A step of the stop: what it stops is off unless it raised, and what was *)
(* off stays off.                                                          *)
LEMMA OffKeeps ==
  ASSUME MainTypes, NEW C \in SUBSET Components, NEW from, NEW to, Off(from, to, C)
  PROVE  /\ running' \subseteq running /\ broken' \subseteq Components /\ late' \subseteq Components
         /\ Going' \subseteq Going \ C /\ at = from /\ at' = to /\ hosted' = hosted
BY DEF Off, Stuck, Slow, MainTypes, Going

LEMMA StopKeeps ==
  ASSUME HostInv,
         StopHotkey \/ StopSettings \/ StopFloating \/ StopUpdater \/ StopWarmUp
         \/ Save \/ StopHands \/ StopVoice \/ StopVisualizer \/ Close
  PROVE  HostInv'
<1> DEFINE Passes(to, C) ==
      \/ at = "stop hotkey" /\ to = "stop settings" /\ C = {"hotkey"}
      \/ at = "stop settings" /\ to = "stop floating"
      \/ at = "stop floating" /\ to = "stop updater"
      \/ at = "stop updater" /\ to = "stop warm-up" /\ C = {"updater"}
      \/ at = "stop warm-up" /\ to = "save"
      \/ at = "save" /\ to = "stop hands"
      \/ at = "stop hands" /\ to = "stop voice" /\ C = {"hands"}
      \/ at = "stop voice" /\ to = "stop visualizer" /\ C = {"bridge", "mouths"}
      \/ at = "stop visualizer" /\ to = "close" /\ hosted = TRUE /\ C = {"visualizer"}
      \/ at = "stop visualizer" /\ to = "ended" /\ hosted = FALSE /\ C = {"visualizer"}
      \/ at = "close" /\ to = "ended"
<1>1. PICK from \in Stops, to \in Places, C \in SUBSET Components : Off(from, to, C) /\ Passes(to, C)
  <2> USE DEF Components, Stops, Places
  <2>1. hosted \in BOOLEAN
    BY DEF HostInv, MainInv, MainTypes
  <2>2. CASE StopHotkey
    BY <2>2 DEF StopHotkey, Off
  <2>3. CASE StopSettings
    BY <2>3 DEF StopSettings, Off
  <2>4. CASE StopFloating
    BY <2>4 DEF StopFloating, Off
  <2>5. CASE StopUpdater
    BY <2>5 DEF StopUpdater, Off
  <2>6. CASE StopWarmUp \/ Save \/ Close
    BY <2>6 DEF StopWarmUp, Save, Close, Off
  <2>7. CASE StopHands \/ StopVoice
    BY <2>7 DEF StopHands, StopVoice, Off
  <2>8. CASE StopVisualizer
    BY <2>8, <2>1 DEF StopVisualizer, Off
  <2> QED BY <2>2, <2>3, <2>4, <2>5, <2>6, <2>7, <2>8
<1>2. MainInv
  BY DEF HostInv
<1>3. /\ running' \subseteq running /\ broken' \subseteq Components /\ late' \subseteq Components
      /\ Going' \subseteq Going \ C /\ at' = to /\ hosted' = hosted
  BY <1>1, <1>2, OffKeeps DEF MainInv
<1>4. MainTypes'
  BY <1>1, <1>2, <1>3 DEF MainInv, MainTypes, Places, Stops
<1>5. StartedByOrder'
  BY <1>1, <1>2, <1>3 DEF MainInv, StartedByOrder
<1>6. StoppedSoFar'
  <2> USE <1>1, <1>2, <1>3
  <2>1. hosted /\ to \in Stops \ {"stop hotkey"} => "hotkey" \notin Going'
    BY DEF MainInv, StoppedSoFar, Stops
  <2>6. to \in {"stop warm-up", "save", "stop hands", "stop voice", "stop visualizer", "close"} => "updater" \notin Going'
    BY DEF MainInv, StoppedSoFar
  <2>2. to \in {"stop voice", "stop visualizer", "close"} => "hands" \notin Going'
    BY DEF MainInv, StoppedSoFar
  <2>3. to \in {"stop visualizer", "close"} => Going' \cap {"bridge", "mouths"} = {}
    BY DEF MainInv, StoppedSoFar
  <2>4. to = "close" => "visualizer" \notin Going'
    BY DEF MainInv, StoppedSoFar
  <2>5. to = "ended" => Going' \cap {"hotkey", "updater", "hands", "bridge", "mouths", "visualizer"} = {}
    <3>1. CASE at = "close"
      BY <3>1 DEF MainInv, StartedByOrder, StoppedSoFar, Stops
    <3>2. CASE at = "stop visualizer" /\ hosted = FALSE /\ C = {"visualizer"}
      <4>1. Going \subseteq {"visualizer"}
        BY <3>2 DEF MainInv, StartedByOrder, Going
      <4> QED BY <3>2, <4>1
    <3> QED BY <3>1, <3>2
  <2> QED BY <2>1, <2>2, <2>3, <2>4, <2>5, <2>6 DEF StoppedSoFar
<1>7. WindowInv' /\ gestures' \in 0..MaxGestures
  <2>1. CASE StopHotkey \/ StopSettings \/ StopFloating
    BY <2>1 DEF StopHotkey, StopSettings, StopFloating, Free, toggleVars, HostInv, WindowInv, WindowTypes, FloatingIsKnown
  <2>2. CASE StopUpdater \/ StopWarmUp \/ Save \/ StopHands \/ StopVoice \/ StopVisualizer \/ Close
    <3>1. UNCHANGED windowVars /\ saved' \in BOOLEAN
      BY <2>2 DEF StopUpdater, StopWarmUp, Save, StopHands, StopVoice, StopVisualizer, Close, HostInv, WindowInv, WindowTypes
    <3> QED BY <3>1, WindowsRest DEF HostInv
  <2> QED BY <2>1, <2>2
<1> QED BY <1>4, <1>5, <1>6, <1>7 DEF HostInv, MainInv

(* What happens to the windows leaves main and the components alone. *)
LEMMA WindowKeeps ==
  ASSUME HostInv, WindowStep
  PROVE  HostInv'
<1>1. UNCHANGED mainVars
  BY DEF WindowStep, PressHotkey, HotkeyToggles, PressClose, PressFloat, ToggleEnds, FloatAnswered,
         CloseFloating, FloatingIsHidden, LinkIsShown,
         CloseMain, MainIsClosed, OpenSettings, CloseSettings, SettingsAreForgotten, Gesture
<1>2. gestures' = gestures \/ Gesture
  BY DEF WindowStep, PressHotkey, HotkeyToggles, PressClose, PressFloat, ToggleEnds, FloatAnswered,
         CloseFloating, FloatingIsHidden, LinkIsShown,
         CloseMain, MainIsClosed, OpenSettings, CloseSettings, SettingsAreForgotten
<1>3. gestures' \in 0..MaxGestures
  BY <1>2, HostBounds DEF HostInv, Gesture
<1>4. WindowInv'
  <2> USE <1>1 DEF HostInv, WindowInv, WindowTypes, FloatingIsKnown, mainVars, toggleVars
  <2>1. ASSUME NEW t \in BOOLEAN, BeginToggle(t), UNCHANGED <<main, settings, shutting, closing, leaving>>,
               pressed' \in {"none", "waits", "toggles"}, floatCall' \in {"none", "toggles", "done"}
        PROVE  WindowInv'
    BY <2>1 DEF BeginToggle, MadeFloating
  <2>2. CASE PressHotkey
    BY <2>2 DEF PressHotkey, Gesture
  <2>3. CASE HotkeyToggles
    BY <2>1, <2>3 DEF HotkeyToggles
  <2>4. CASE PressClose
    BY <2>1, <2>4 DEF PressClose
  <2>5. CASE PressFloat
    BY <2>1, <2>5 DEF PressFloat
  <2>6. CASE ToggleEnds
    <3>1. WindowTypes'
      BY <2>6 DEF ToggleEnds
    <3>2. FloatingIsKnown'
      BY <2>6 DEF ToggleEnds, Free
    <3> QED BY <3>1, <3>2
  <2>7. CASE FloatAnswered
    <3>1. WindowTypes'
      BY <2>7 DEF FloatAnswered
    <3>2. FloatingIsKnown'
      BY <2>7 DEF FloatAnswered
    <3> QED BY <3>1, <3>2
  <2>8. CASE CloseFloating
    BY <2>8 DEF CloseFloating, Gesture
  <2>9. CASE FloatingIsHidden
    BY <2>9 DEF FloatingIsHidden
  <2>10. CASE LinkIsShown
    BY <2>10 DEF LinkIsShown
  <2>11. CASE CloseMain
    BY <2>11 DEF CloseMain, Gesture
  <2>12. CASE MainIsClosed
    BY <2>12 DEF MainIsClosed, Free
  <2>13. CASE OpenSettings
    BY <2>13 DEF OpenSettings, Gesture
  <2>14. CASE CloseSettings \/ SettingsAreForgotten
    BY <2>14 DEF CloseSettings, SettingsAreForgotten, Gesture
  <2> QED BY <2>2, <2>3, <2>4, <2>5, <2>6, <2>7, <2>8, <2>9, <2>10, <2>11, <2>12, <2>13, <2>14 DEF WindowStep
<1> QED BY <1>1, <1>3, <1>4, MainRests DEF HostInv, mainVars

LEMMA ThreadKeeps ==
  ASSUME HostInv, WarmUpEnds \/ ExitForUpdate
  PROVE  HostInv'
<1>1. /\ broken' = broken /\ late' \subseteq late /\ hosted' = hosted /\ UNCHANGED <<saved, windowVars>>
      /\ running' \subseteq running \cup {"gateway"} /\ running \cap {"warm-up", "updater"} # {}
      /\ (at' = at /\ late' = late) \/ at' = "gone"
  BY DEF WarmUpEnds, ExitForUpdate
<1>2. MainTypes'
  BY <1>1 DEF HostInv, MainInv, MainTypes, Places, Components
<1>3. hosted = TRUE
  BY <1>1 DEF HostInv, MainInv, MainTypes, StartedByOrder
<1>4. StartedByOrder'
  BY <1>1, <1>3 DEF HostInv, MainInv, StartedByOrder
<1>5. StoppedSoFar'
  BY <1>1, <1>3 DEF HostInv, MainInv, StoppedSoFar, Going, Stops
<1>6. WindowInv' /\ gestures' \in 0..MaxGestures
  BY <1>1, WindowsRest DEF HostInv, WindowInv, WindowTypes
<1> QED BY <1>2, <1>4, <1>5, <1>6 DEF HostInv, MainInv

(* What is late was told to stop, also when it has ended. *)
LEMMA LateKeeps ==
  ASSUME HostInv, NEW c, LateEnds(c)
  PROVE  HostInv'
<1>1. /\ running' \subseteq running /\ late' \subseteq late /\ Going' \subseteq Going
      /\ UNCHANGED <<at, hosted, broken>> /\ UNCHANGED <<saved, windowVars>>
  BY DEF LateEnds, Going
<1>2. MainTypes' /\ StartedByOrder' /\ StoppedSoFar'
  BY <1>1 DEF HostInv, MainInv, MainTypes, StartedByOrder, StoppedSoFar
<1>3. WindowInv' /\ gestures' \in 0..MaxGestures
  BY <1>1, WindowsRest DEF HostInv, WindowInv, WindowTypes
<1> QED BY <1>2, <1>3 DEF HostInv, MainInv

LEMMA HostIsInvariant == HSpec => []HostInv
<1>1. HInit => HostInv
  <2> SUFFICES ASSUME HInit
               PROVE  HostInv
    OBVIOUS
  <2>1. MainInv
    BY DEF HInit, MainInv, MainTypes, StartedByOrder, StoppedSoFar, Going, Stops, Starts, Places
  <2>2. WindowInv
    BY DEF HInit, WindowInv, WindowTypes, FloatingIsKnown
  <2> QED BY <2>1, <2>2, HostBounds DEF HInit, HostInv
<1>2. HostInv /\ [HNext]_hvars => HostInv'
  <2> SUFFICES ASSUME HostInv, [HNext]_hvars
               PROVE  HostInv'
    OBVIOUS
  <2>1. CASE UNCHANGED hvars
    <3>1. UNCHANGED <<at, hosted, running, broken, late>> /\ UNCHANGED windowVars /\ saved' \in BOOLEAN
      BY <2>1 DEF hvars, mainVars, HostInv, WindowInv, WindowTypes
    <3> QED BY <3>1, MainRests, WindowsRest DEF HostInv
  <2>2. CASE MainStep
    BY <2>2, StartKeeps, MadeKeeps, StopKeeps DEF MainStep
  <2>3. CASE WindowStep \/ WarmUpEnds \/ ExitForUpdate
    BY <2>3, WindowKeeps, ThreadKeeps
  <2>4. CASE \E c \in Components : LateEnds(c)
    BY <2>4, LateKeeps
  <2> QED BY <2>1, <2>2, <2>3, <2>4 DEF HNext
<1> QED BY <1>1, <1>2, PTL DEF HSpec

(* For any number of gestures and any components whose stop may raise or   *)
(* not be awaited to its end, a program that came to its end has told what *)
(* it had started to stop (the finally of main, jarvis_desktop.py).        *)
THEOREM DesktopIsStopped == HSpec => [](HTypeOK /\ StoppedIsOff)
<1>1. HostInv => HTypeOK /\ StoppedIsOff
  <2> SUFFICES ASSUME HostInv
               PROVE  HTypeOK /\ StoppedIsOff
    OBVIOUS
  <2>1. StoppedIsOff
    BY DEF HostInv, MainInv, MainTypes, StoppedSoFar, Going, StoppedIsOff, Components
  <2> QED BY <2>1, HostTypes DEF HostInv, MainInv, WindowInv
<1> QED BY <1>1, HostIsInvariant, PTL

(* A floating bar that is shown is one the hotkey hides, into whichever    *)
(* step of a close handler the presses fell, unless a close event came     *)
(* into the toggle that showed it (toggle_text_link).                      *)
THEOREM BarCanAlwaysBeHidden == HSpec => []ShownCanBeHidden
<1>1. HostInv => ShownCanBeHidden
  BY DEF HostInv, WindowInv, FloatingIsKnown, ShownCanBeHidden, Free
<1> QED BY <1>1, HostIsInvariant, PTL

-----------------------------------------------------------------------------
(* The history of the neural runtime *)

Ends(s, t) == Len(s) <= Len(t) /\ \A i \in 1..Len(s) : s[i] = t[Len(t) - Len(s) + i]

NoneTwice(s) == \A i, j \in 1..Len(s) : s[i] = s[j] => i = j

(* The newest kept and the last saved agree, and the clock, which names the
   dry runs, has not run out of names. *)
KeptInv ==
  /\ clock \in 0..MaxTime /\ DOMAIN history = {"kept", "bookmarks"}
  /\ history.kept \in Seq(SnapshotNames) /\ recency \in Seq(SnapshotNames)
  /\ NoneTwice(recency) /\ Ends(history.kept, recency)

LEMMA SuffixEnds ==
  ASSUME NEW S, NEW s \in Seq(S), NEW t \in Seq(S), Ends(s, t) PROVE IsSuffix(s, t)
<1> DEFINE rs == Reverse(s)
           rt == Reverse(t)
<1>1. Len(s) \in Nat /\ Len(t) \in Nat /\ Len(s) <= Len(t)
  BY DEF Ends
<1>2. rs \in Seq(S) /\ Len(rs) = Len(s) /\ \A i \in 1..Len(s) : rs[i] = s[Len(s) - i + 1]
  <2>1. \A i \in 1..Len(s) : s[Len(s) - i + 1] \in S
    BY <1>1
  <2> QED BY <1>1, <2>1 DEF Reverse
<1>3. rt \in Seq(S) /\ Len(rt) = Len(t) /\ \A i \in 1..Len(t) : rt[i] = t[Len(t) - i + 1]
  <2>1. \A i \in 1..Len(t) : t[Len(t) - i + 1] \in S
    BY <1>1
  <2> QED BY <1>1, <2>1 DEF Reverse
<1> HIDE DEF rs, rt
<1>4. ASSUME NEW i \in 1..Len(s) PROVE rs[i] = rt[i]
  <2>1. Len(s) - i + 1 \in 1..Len(s) /\ i \in 1..Len(t) /\ Len(t) - Len(s) + (Len(s) - i + 1) = Len(t) - i + 1
    BY <1>1
  <2>2. s[Len(s) - i + 1] = t[Len(t) - i + 1]
    BY <2>1 DEF Ends
  <2> QED BY <1>2, <1>3, <2>1, <2>2
<1>5. SubSeq(rs, 1, Len(s)) \in Seq(S) /\ Len(SubSeq(rs, 1, Len(s))) = Len(s)
      /\ \A i \in 1..Len(s) : SubSeq(rs, 1, Len(s))[i] = rs[i]
  BY <1>1, <1>2, SubSeqProperties
<1>6. SubSeq(rt, 1, Len(s)) \in Seq(S) /\ Len(SubSeq(rt, 1, Len(s))) = Len(s)
      /\ \A i \in 1..Len(s) : SubSeq(rt, 1, Len(s))[i] = rt[i]
  BY <1>1, <1>3, SubSeqProperties
<1>7. SubSeq(rs, 1, Len(s)) = SubSeq(rt, 1, Len(s))
  BY <1>4, <1>5, <1>6, SeqEqual
<1> QED BY <1>1, <1>2, <1>3, <1>7 DEF IsSuffix, IsPrefix, rs, rt

LEMMA EndsOfEnds ==
  ASSUME NEW S, NEW s \in Seq(S), NEW t \in Seq(S), NEW u \in Seq(S), Ends(s, t), Ends(t, u) PROVE Ends(s, u)
<1>1. Len(s) \in Nat /\ Len(t) \in Nat /\ Len(u) \in Nat /\ Len(s) <= Len(t) /\ Len(t) <= Len(u)
  BY DEF Ends
<1>2. ASSUME NEW i \in 1..Len(s) PROVE s[i] = u[Len(u) - Len(s) + i]
  <2>1. Len(t) - Len(s) + i \in 1..Len(t) /\ Len(u) - Len(t) + (Len(t) - Len(s) + i) = Len(u) - Len(s) + i
    BY <1>1
  <2> QED BY <2>1 DEF Ends
<1> QED BY <1>1, <1>2 DEF Ends

(* Keeping the newest keeps the end. *)
LEMMA NewestEnds ==
  ASSUME NEW S, NEW s \in Seq(S), NEW n \in Nat \ {0}
  PROVE  NewestOf(s, n) \in Seq(S) /\ Ends(NewestOf(s, n), s)
<1>1. Len(s) \in Nat
  OBVIOUS
<1>2. CASE Len(s) <= n
  BY <1>1, <1>2 DEF NewestOf, Ends
<1>3. CASE ~(Len(s) <= n)
  <2> DEFINE m == Len(s) - n + 1
  <2>1. m \in 1..Len(s) /\ NewestOf(s, n) = SubSeq(s, m, Len(s))
    BY <1>1, <1>3 DEF NewestOf
  <2> HIDE DEF m
  <2>2. /\ SubSeq(s, m, Len(s)) \in Seq(S) /\ Len(SubSeq(s, m, Len(s))) = Len(s) - m + 1
        /\ \A i \in 1..Len(s) - m + 1 : SubSeq(s, m, Len(s))[i] = s[m + i - 1]
    BY <1>1, <2>1, SubSeqProperties
  <2>3. \A i \in 1..Len(s) - m + 1 : m + i - 1 = Len(s) - (Len(s) - m + 1) + i
    BY <1>1, <2>1
  <2> QED BY <1>1, <2>1, <2>2, <2>3 DEF Ends
<1> QED BY <1>2, <1>3

LEMMA RemovedAt ==
  ASSUME NEW S, NEW s \in Seq(S), NEW p \in 1..Len(s)
  PROVE  /\ RemoveAt(s, p) \in Seq(S) /\ Len(RemoveAt(s, p)) = Len(s) - 1
         /\ \A i \in 1..Len(s) - 1 : RemoveAt(s, p)[i] = IF i < p THEN s[i] ELSE s[i + 1]
<1> DEFINE a == SubSeq(s, 1, p - 1)
           b == SubSeq(s, p + 1, Len(s))
<1>1. Len(s) \in Nat /\ p \in Nat
  OBVIOUS
<1>2. a \in Seq(S) /\ Len(a) = p - 1 /\ \A i \in 1..p - 1 : a[i] = s[i]
  <2>1. CASE p = 1
    <3>1. a = << >>
      BY <1>1, <2>1, SubSeqEmpty
    <3> QED BY <2>1, <3>1
  <2>2. CASE p > 1
    BY <1>1, <2>2, SubSeqProperties
  <2> QED BY <1>1, <2>1, <2>2
<1>3. b \in Seq(S) /\ Len(b) = Len(s) - p /\ \A i \in 1..Len(s) - p : b[i] = s[p + i]
  <2>1. CASE p = Len(s)
    <3>1. b = << >>
      BY <1>1, <2>1, SubSeqEmpty
    <3> QED BY <2>1, <3>1
  <2>2. CASE p < Len(s)
    BY <1>1, <2>2, SubSeqProperties
  <2> QED BY <1>1, <2>1, <2>2
<1>4. RemoveAt(s, p) = a \o b
  BY DEF RemoveAt
<1> HIDE DEF a, b
<1>5. /\ a \o b \in Seq(S) /\ Len(a \o b) = Len(a) + Len(b)
      /\ \A i \in 1..Len(a) + Len(b) : (a \o b)[i] = IF i <= Len(a) THEN a[i] ELSE b[i - Len(a)]
  BY <1>2, <1>3, ConcatProperties
<1>6. ASSUME NEW i \in 1..Len(s) - 1 PROVE (a \o b)[i] = IF i < p THEN s[i] ELSE s[i + 1]
  <2>1. i \in 1..Len(a) + Len(b)
    BY <1>1, <1>2, <1>3
  <2>2. CASE i < p
    BY <1>1, <1>2, <1>5, <2>1, <2>2
  <2>3. CASE ~(i < p)
    <3>1. i - Len(a) \in 1..Len(s) - p /\ p + (i - Len(a)) = i + 1 /\ ~(i <= Len(a))
      BY <1>1, <1>2, <2>3
    <3> QED BY <1>3, <1>5, <2>1, <2>3, <3>1
  <2> QED BY <2>2, <2>3
<1> QED BY <1>1, <1>2, <1>3, <1>4, <1>5, <1>6

LEMMA WithoutNone ==
  ASSUME NEW s, NEW id, id \notin ToSet(s) PROVE WithoutName(s, id) = s
BY DEF WithoutName

LEMMA WithoutOne ==
  ASSUME NEW S, NEW s \in Seq(S), NoneTwice(s), NEW p \in 1..Len(s)
  PROVE  WithoutName(s, s[p]) = RemoveAt(s, p)
<1>1. DOMAIN s = 1..Len(s)
  OBVIOUS
<1>2. s[p] \in ToSet(s)
  BY <1>1 DEF ToSet
<1>3. (CHOOSE i \in DOMAIN s : s[i] = s[p]) = p
  BY <1>1 DEF NoneTwice
<1> QED BY <1>2, <1>3 DEF WithoutName

LEMMA IsThere ==
  ASSUME NEW S, NEW s \in Seq(S), NEW id
  PROVE  id \in ToSet(s) <=> \E p \in 1..Len(s) : s[p] = id
<1>1. DOMAIN s = 1..Len(s)
  OBVIOUS
<1> QED BY <1>1 DEF ToSet

(* What is taken out of both leaves the one the end of the other. *)
LEMMA WithoutEnds ==
  ASSUME NEW S, NEW k \in Seq(S), NEW r \in Seq(S), NEW id, NoneTwice(r), Ends(k, r)
  PROVE  /\ WithoutName(k, id) \in Seq(S) /\ WithoutName(r, id) \in Seq(S)
         /\ NoneTwice(WithoutName(r, id)) /\ id \notin ToSet(WithoutName(r, id))
         /\ Ends(WithoutName(k, id), WithoutName(r, id))
<1> DEFINE d == Len(r) - Len(k)
<1>1. Len(k) \in Nat /\ Len(r) \in Nat /\ d \in Nat /\ \A i \in 1..Len(k) : k[i] = r[d + i]
  BY DEF Ends
<1> HIDE DEF d
<1>2. CASE id \notin ToSet(r)
  <2>1. id \notin ToSet(k)
    <3>1. \A i \in 1..Len(k) : d + i \in 1..Len(r)
      BY <1>1 DEF d
    <3> QED BY <1>1, <1>2, <3>1, IsThere
  <2> QED BY <1>2, <2>1, WithoutNone
<1>3. CASE id \in ToSet(r)
  <2>1. PICK p \in 1..Len(r) : r[p] = id
    BY <1>3, IsThere
  <2>2. WithoutName(r, id) = RemoveAt(r, p)
    BY <2>1, WithoutOne
  <2>3. /\ RemoveAt(r, p) \in Seq(S) /\ Len(RemoveAt(r, p)) = Len(r) - 1
        /\ \A i \in 1..Len(r) - 1 : RemoveAt(r, p)[i] = IF i < p THEN r[i] ELSE r[i + 1]
    BY RemovedAt
  <2> DEFINE q == RemoveAt(r, p)
             from(i) == IF i < p THEN i ELSE i + 1
  <2> HIDE DEF q
  <2>4. ASSUME NEW i \in 1..Len(q) PROVE q[i] = r[from(i)] /\ from(i) \in 1..Len(r) /\ from(i) # p
    BY <1>1, <2>3 DEF q
  <2>5. NoneTwice(q)
    <3> SUFFICES ASSUME NEW i \in 1..Len(q), NEW j \in 1..Len(q), q[i] = q[j] PROVE i = j
      BY DEF NoneTwice
    <3>1. from(i) = from(j)
      BY <2>4 DEF NoneTwice
    <3> QED BY <1>1, <2>3, <3>1 DEF q
  <2>6. id \notin ToSet(q)
    <3> SUFFICES ASSUME NEW i \in 1..Len(q), q[i] = id PROVE FALSE
      BY <2>3, IsThere DEF q
    <3> QED BY <2>1, <2>4 DEF NoneTwice
  <2>7. WithoutName(k, id) \in Seq(S) /\ Ends(WithoutName(k, id), q)
    <3>1. CASE p > d
      <4> DEFINE n == p - d
      <4>1. n \in 1..Len(k) /\ k[n] = id /\ d + n = p
        <5>1. n \in 1..Len(k) /\ d + n = p
          BY <1>1, <2>1, <3>1 DEF d
        <5> QED BY <1>1, <2>1, <5>1
      <4> HIDE DEF n
      <4>2. NoneTwice(k)
        <5>1. \A i \in 1..Len(k) : d + i \in 1..Len(r)
          BY <1>1 DEF d
        <5>2. \A i, j \in 1..Len(k) : d + i = d + j => i = j
          BY <1>1
        <5> QED BY <1>1, <5>1, <5>2 DEF NoneTwice
      <4>3. WithoutName(k, id) = RemoveAt(k, n)
        BY <4>1, <4>2, WithoutOne
      <4>4. /\ RemoveAt(k, n) \in Seq(S) /\ Len(RemoveAt(k, n)) = Len(k) - 1
            /\ \A i \in 1..Len(k) - 1 : RemoveAt(k, n)[i] = IF i < n THEN k[i] ELSE k[i + 1]
        BY <4>1, RemovedAt
      <4>5. ASSUME NEW i \in 1..Len(k) - 1 PROVE RemoveAt(k, n)[i] = q[d + i]
        <5>1. d + i \in 1..Len(r) - 1
          BY <1>1 DEF d
        <5>2. CASE i < n
          <6>1. d + i < p /\ i \in 1..Len(k)
            BY <1>1, <4>1, <5>2
          <6> QED BY <1>1, <2>3, <4>4, <5>1, <5>2, <6>1 DEF q
        <5>3. CASE ~(i < n)
          <6>1. ~(d + i < p) /\ i + 1 \in 1..Len(k) /\ d + (i + 1) = d + i + 1
            BY <1>1, <4>1, <5>3
          <6> QED BY <1>1, <2>3, <4>4, <5>1, <5>3, <6>1 DEF q
        <5> QED BY <5>2, <5>3
      <4>6. Len(q) - Len(RemoveAt(k, n)) = d /\ Len(RemoveAt(k, n)) <= Len(q)
        BY <1>1, <2>3, <4>4 DEF d, q
      <4> QED BY <4>3, <4>4, <4>5, <4>6 DEF Ends
    <3>2. CASE ~(p > d)
      <4>1. id \notin ToSet(k)
        <5> SUFFICES ASSUME NEW i \in 1..Len(k), k[i] = id PROVE FALSE
          BY IsThere
        <5>1. d + i \in 1..Len(r) /\ d + i # p
          BY <1>1, <3>2 DEF d
        <5> QED BY <1>1, <2>1, <5>1 DEF NoneTwice
      <4>2. WithoutName(k, id) = k
        BY <4>1, WithoutNone
      <4>3. Len(q) - Len(k) = d - 1 /\ Len(k) <= Len(q)
        BY <1>1, <2>3, <3>2 DEF d, q
      <4>4. ASSUME NEW i \in 1..Len(k) PROVE k[i] = q[d - 1 + i]
        <5>1. d - 1 + i \in 1..Len(r) - 1 /\ ~(d - 1 + i < p) /\ d - 1 + i + 1 = d + i
          BY <1>1, <3>2 DEF d
        <5> QED BY <1>1, <2>3, <5>1 DEF q
      <4> QED BY <4>2, <4>3, <4>4 DEF Ends
    <3> QED BY <3>1, <3>2
  <2> QED BY <2>2, <2>3, <2>5, <2>6, <2>7 DEF q
<1> QED BY <1>2, <1>3

(* Saving, anew or again, keeps both in step. *)
LEMMA LastEnds ==
  ASSUME NEW S, NEW k \in Seq(S), NEW r \in Seq(S), NEW id \in S, NoneTwice(r), Ends(k, r)
  PROVE  /\ AsLast(k, id) \in Seq(S) /\ AsLast(r, id) \in Seq(S)
         /\ NoneTwice(AsLast(r, id)) /\ Ends(AsLast(k, id), AsLast(r, id))
<1> DEFINE a == WithoutName(k, id)
           b == WithoutName(r, id)
<1>1. a \in Seq(S) /\ b \in Seq(S) /\ NoneTwice(b) /\ id \notin ToSet(b) /\ Ends(a, b)
  BY WithoutEnds
<1>2. AsLast(k, id) = Append(a, id) /\ AsLast(r, id) = Append(b, id)
  BY DEF AsLast
<1> HIDE DEF a, b
<1>3. Len(a) \in Nat /\ Len(b) \in Nat /\ Len(a) <= Len(b)
  BY <1>1 DEF Ends
<1>4. /\ Append(a, id) \in Seq(S) /\ Len(Append(a, id)) = Len(a) + 1
      /\ Append(a, id)[Len(a) + 1] = id /\ \A i \in 1..Len(a) : Append(a, id)[i] = a[i]
  BY <1>1, AppendProperties
<1>5. /\ Append(b, id) \in Seq(S) /\ Len(Append(b, id)) = Len(b) + 1
      /\ Append(b, id)[Len(b) + 1] = id /\ \A i \in 1..Len(b) : Append(b, id)[i] = b[i]
  BY <1>1, AppendProperties
<1>6. NoneTwice(Append(b, id))
  <2>1. \A i \in 1..Len(b) : b[i] # id
    BY <1>1, IsThere
  <2>2. \A i \in 1..Len(b) + 1 : i \in 1..Len(b) \/ i = Len(b) + 1
    BY <1>3
  <2> QED BY <1>1, <1>5, <2>1, <2>2 DEF NoneTwice
<1>7. Ends(Append(a, id), Append(b, id))
  <2>1. Len(b) + 1 - (Len(a) + 1) = Len(b) - Len(a) /\ Len(a) + 1 <= Len(b) + 1
    BY <1>3
  <2>2. ASSUME NEW i \in 1..Len(a) + 1 PROVE Append(a, id)[i] = Append(b, id)[Len(b) - Len(a) + i]
    <3>1. CASE i = Len(a) + 1
      <4>1. Len(b) - Len(a) + i = Len(b) + 1
        BY <1>3, <3>1
      <4> QED BY <1>4, <1>5, <3>1, <4>1
    <3>2. CASE i # Len(a) + 1
      <4>1. i \in 1..Len(a) /\ Len(b) - Len(a) + i \in 1..Len(b)
        BY <1>3, <3>2
      <4> QED BY <1>1, <1>4, <1>5, <4>1 DEF Ends
    <3> QED BY <3>1, <3>2
  <2>3. Len(Append(b, id)) - Len(Append(a, id)) = Len(b) - Len(a) /\ Len(Append(a, id)) <= Len(Append(b, id))
    BY <1>4, <1>5, <2>1
  <2>4. \A i \in 1..Len(Append(a, id)) : Append(a, id)[i] = Append(b, id)[Len(Append(b, id)) - Len(Append(a, id)) + i]
    BY <1>4, <2>2, <2>3
  <2> QED BY <2>3, <2>4 DEF Ends
<1> QED BY <1>1, <1>2, <1>4, <1>5, <1>6, <1>7

LEMMA KeptSaved ==
  ASSUME KeptInv, NEW h, NEW r, NEW id \in SnapshotNames,
         DOMAIN h = {"kept", "bookmarks"}, h.kept \in Seq(SnapshotNames), r \in Seq(SnapshotNames),
         NoneTwice(r), Ends(h.kept, r)
  PROVE  /\ DOMAIN SavedSnapshot(h, id) = {"kept", "bookmarks"}
         /\ SavedSnapshot(h, id).kept \in Seq(SnapshotNames) /\ AsLast(r, id) \in Seq(SnapshotNames)
         /\ NoneTwice(AsLast(r, id)) /\ Ends(SavedSnapshot(h, id).kept, AsLast(r, id))
<1> DEFINE k == AsLast(h.kept, id)
<1>1. k \in Seq(SnapshotNames) /\ AsLast(r, id) \in Seq(SnapshotNames)
      /\ NoneTwice(AsLast(r, id)) /\ Ends(k, AsLast(r, id))
  BY LastEnds
<1> HIDE DEF k
<1>2. MaxKept \in Nat \ {0}
  BY RuntimeAssumption
<1>3. NewestOf(k, MaxKept) \in Seq(SnapshotNames) /\ Ends(NewestOf(k, MaxKept), k)
  BY <1>1, <1>2, NewestEnds
<1>4. Ends(NewestOf(k, MaxKept), AsLast(r, id))
  BY <1>1, <1>3, EndsOfEnds
<1>5. /\ DOMAIN SavedSnapshot(h, id) = {"kept", "bookmarks"}
      /\ SavedSnapshot(h, id).kept = NewestOf(k, MaxKept)
  BY DEF SavedSnapshot, Kept, k
<1> QED BY <1>1, <1>3, <1>4, <1>5

LEMMA SaveStep ==
  ASSUME KeptInv, NEW id \in SnapshotNames, SaveSnapshot(id), UNCHANGED clock
  PROVE  KeptInv'
<1>1. /\ DOMAIN history = {"kept", "bookmarks"} /\ history.kept \in Seq(SnapshotNames)
      /\ recency \in Seq(SnapshotNames) /\ NoneTwice(recency) /\ Ends(history.kept, recency)
  BY DEF KeptInv
<1>2. history' = SavedSnapshot(history, id) /\ recency' = AsLast(recency, id) /\ clock' = clock
  BY DEF SaveSnapshot
<1>3. /\ DOMAIN SavedSnapshot(history, id) = {"kept", "bookmarks"}
      /\ SavedSnapshot(history, id).kept \in Seq(SnapshotNames) /\ AsLast(recency, id) \in Seq(SnapshotNames)
      /\ NoneTwice(AsLast(recency, id)) /\ Ends(SavedSnapshot(history, id).kept, AsLast(recency, id))
  BY <1>1, KeptSaved
<1>4. clock' \in 0..MaxTime
  BY <1>2 DEF KeptInv
<1>5. DOMAIN history' = {"kept", "bookmarks"} /\ history'.kept \in Seq(SnapshotNames) /\ Ends(history'.kept, recency')
  BY <1>2, <1>3
<1>6. recency' \in Seq(SnapshotNames) /\ NoneTwice(recency')
  BY <1>2, <1>3
<1>7. SnapshotNames' = SnapshotNames
  BY DEF SnapshotNames, DryRun
<1> QED BY <1>4, <1>5, <1>6, <1>7 DEF KeptInv

LEMMA PruneStep ==
  ASSUME KeptInv, NEW n \in Nat \ {0}, history' = Pruned(history, n), UNCHANGED <<recency, clock>>
  PROVE  KeptInv'
<1>1. history.kept \in Seq(SnapshotNames) /\ recency \in Seq(SnapshotNames) /\ Ends(history.kept, recency)
  BY DEF KeptInv
<1>2. NewestOf(history.kept, n) \in Seq(SnapshotNames) /\ Ends(NewestOf(history.kept, n), history.kept)
  BY <1>1, NewestEnds
<1>3. Ends(NewestOf(history.kept, n), recency)
  BY <1>1, <1>2, EndsOfEnds
<1>4. DOMAIN history' = {"kept", "bookmarks"} /\ history'.kept = NewestOf(history.kept, n)
  BY DEF KeptInv, Pruned
<1>5. recency' = recency /\ clock' = clock
  OBVIOUS
<1>6. history'.kept \in Seq(SnapshotNames) /\ Ends(history'.kept, recency')
  BY <1>2, <1>3, <1>4, <1>5
<1>7. NoneTwice(recency') /\ recency' \in Seq(SnapshotNames) /\ clock' \in 0..MaxTime
  BY <1>5 DEF KeptInv
<1> QED BY <1>4, <1>6, <1>7 DEF KeptInv

LEMMA BookmarkStep ==
  ASSUME KeptInv, NEW topic, history' = Bookmarked(history, topic), UNCHANGED <<recency, clock>>
  PROVE  KeptInv'
<1>1. DOMAIN history' = {"kept", "bookmarks"} /\ history'.kept = history.kept
  BY DEF KeptInv, Bookmarked
<1>2. recency' = recency /\ clock' = clock
  OBVIOUS
<1>3. history'.kept \in Seq(SnapshotNames) /\ Ends(history'.kept, recency')
  BY <1>1, <1>2 DEF KeptInv
<1>4. NoneTwice(recency') /\ recency' \in Seq(SnapshotNames) /\ clock' \in 0..MaxTime
  BY <1>2 DEF KeptInv
<1> QED BY <1>1, <1>3, <1>4 DEF KeptInv

LEMMA RestStep ==
  ASSUME KeptInv, UNCHANGED <<history, recency>>, clock' \in 0..MaxTime
  PROVE  KeptInv'
BY DEF KeptInv, Ends, NoneTwice

LEMMA DryStep ==
  ASSUME KeptInv, NEW good \in BOOLEAN, RunDry(good), UNCHANGED clock
  PROVE  KeptInv'
<1>1. clock \in 0..MaxTime /\ clock' \in 0..MaxTime
  BY DEF KeptInv
<1>2. DryRun(clock) \in SnapshotNames
  BY <1>1 DEF SnapshotNames
<1>3. CASE good = TRUE
  BY <1>2, <1>3, SaveStep DEF RunDry
<1>4. CASE good = FALSE
  <2>1. UNCHANGED <<history, recency>>
    BY <1>4 DEF RunDry
  <2> QED BY <1>1, <2>1, RestStep
<1> QED BY <1>3, <1>4

LEMMA HistoryStep ==
  ASSUME KeptInv, HistoryCommand
  PROVE  KeptInv'
<1>1. UNCHANGED clock
  BY DEF HistoryCommand
<1>2. ASSUME NEW id \in SnapshotIds, SaveSnapshot(id) PROVE KeptInv'
  <2>1. id \in SnapshotNames
    BY DEF SnapshotNames
  <2> QED BY <1>1, <1>2, <2>1, SaveStep
<1>3. ASSUME NEW topic \in Topics, history' = Bookmarked(history, topic), UNCHANGED recency PROVE KeptInv'
  BY <1>1, <1>3, BookmarkStep
<1>4. ASSUME NEW n \in 1..MaxKept, history' = Pruned(history, n), UNCHANGED recency PROVE KeptInv'
  <2>1. n \in Nat \ {0}
    BY RuntimeAssumption
  <2> QED BY <1>1, <1>4, <2>1, PruneStep
<1>5. ASSUME NEW good \in BOOLEAN, RunDry(good) PROVE KeptInv'
  BY <1>1, <1>5, DryStep
<1> QED BY <1>2, <1>3, <1>4, <1>5 DEF HistoryCommand

LEMMA FeatureStep ==
  ASSUME KeptInv, FeatureCommand
  PROVE  KeptInv'
<1>1. PICK category \in Categories : Feature(category)
  BY DEF FeatureCommand
<1>2. UNCHANGED clock /\ (HistoryFeature \/ PlanningFeature \/ UNCHANGED <<history, recency>>)
  BY <1>1, Zenon DEF Feature
<1>3. clock' \in 0..MaxTime
  BY <1>2 DEF KeptInv
<1>4. CASE HistoryFeature
  <2>1. CASE SaveSnapshot(masterSnapshot)
    <3>1. masterSnapshot \in SnapshotNames
      BY DEF SnapshotNames
    <3> QED BY <1>2, <2>1, <3>1, SaveStep
  <2>2. CASE history' = Bookmarked(history, masterTopic) /\ UNCHANGED recency
    BY <1>2, <2>2, BookmarkStep
  <2>3. CASE history' = Pruned(history, MaxKept) /\ UNCHANGED recency
    <3>1. MaxKept \in Nat \ {0}
      BY RuntimeAssumption
    <3> QED BY <1>2, <2>3, <3>1, PruneStep
  <2>4. CASE UNCHANGED <<history, recency>>
    BY <1>3, <2>4, RestStep
  <2> QED BY <1>4, <2>1, <2>2, <2>3, <2>4 DEF HistoryFeature
<1>5. CASE PlanningFeature
  <2>1. CASE RunDry(TRUE)
    BY <1>2, <2>1, DryStep
  <2>2. CASE UNCHANGED <<history, recency>>
    BY <1>3, <2>2, RestStep
  <2> QED BY <1>5, <2>1, <2>2 DEF PlanningFeature
<1>6. CASE UNCHANGED <<history, recency>>
  BY <1>3, <1>6, RestStep
<1> QED BY <1>2, <1>4, <1>5, <1>6

(* The smoke test saves its two one after the other, in one call. *)
LEMMA SmokeBegins ==
  ASSUME KeptInv, BeginSmoke
  PROVE  KeptInv'
<1> DEFINE h == SavedSnapshot(history, t1)
           r == AsLast(recency, t1)
<1>1. t1 \in SnapshotNames /\ t2 \in SnapshotNames
  BY DEF SnapshotNames
<1>2. /\ DOMAIN history = {"kept", "bookmarks"} /\ history.kept \in Seq(SnapshotNames)
      /\ recency \in Seq(SnapshotNames) /\ NoneTwice(recency) /\ Ends(history.kept, recency)
  BY DEF KeptInv
<1>3. /\ DOMAIN h = {"kept", "bookmarks"} /\ h.kept \in Seq(SnapshotNames) /\ r \in Seq(SnapshotNames)
      /\ NoneTwice(r) /\ Ends(h.kept, r)
  BY <1>1, <1>2, KeptSaved
<1>4. history' = SavedSnapshot(h, t2) /\ recency' = AsLast(r, t2) /\ clock' = clock
  BY DEF BeginSmoke
<1> HIDE DEF h, r
<1>5. /\ DOMAIN SavedSnapshot(h, t2) = {"kept", "bookmarks"}
      /\ SavedSnapshot(h, t2).kept \in Seq(SnapshotNames) /\ AsLast(r, t2) \in Seq(SnapshotNames)
      /\ NoneTwice(AsLast(r, t2)) /\ Ends(SavedSnapshot(h, t2).kept, AsLast(r, t2))
  BY <1>1, <1>3, KeptSaved
<1>6. DOMAIN history' = {"kept", "bookmarks"} /\ history'.kept \in Seq(SnapshotNames) /\ Ends(history'.kept, recency')
  BY <1>4, <1>5
<1>7. recency' \in Seq(SnapshotNames) /\ NoneTwice(recency') /\ clock' \in 0..MaxTime
  BY <1>4, <1>5 DEF KeptInv
<1>8. SnapshotNames' = SnapshotNames
  BY DEF SnapshotNames, DryRun
<1> QED BY <1>6, <1>7, <1>8 DEF KeptInv

LEMMA RuntimeStep ==
  ASSUME KeptInv, [XNext]_xvars
  PROVE  KeptInv'
<1>1. clock \in 0..MaxTime /\ MaxTime \in Nat
  BY RuntimeAssumption DEF KeptInv
<1>2. CASE WorkspaceCommand \/ CoreCommand \/ Observe \/ Tick \/ StoreCommand \/ UNCHANGED xvars
  <2>1. UNCHANGED <<history, recency, clock>>
    BY <1>2 DEF WorkspaceCommand, CoreCommand, Observe, Tick, StoreCommand, xvars
  <2> QED BY <1>1, <2>1, RestStep
<1>3. CASE HistoryCommand
  BY <1>3, HistoryStep
<1>4. CASE FeatureCommand
  BY <1>4, FeatureStep
<1>5. CASE BeginSmoke
  BY <1>5, SmokeBegins
<1>6. CASE TimePasses
  <2>1. clock' \in 0..MaxTime
    BY <1>1, <1>6 DEF TimePasses
  <2>2. UNCHANGED <<history, recency>>
    BY <1>6 DEF TimePasses
  <2> QED BY <2>1, <2>2, RestStep
<1>7. XNext => AreaCommand \/ TimePasses
  BY DEF XNext
<1>8. AreaCommand => WorkspaceCommand \/ CoreCommand \/ Observe \/ Tick \/ StoreCommand \/ HistoryCommand
                     \/ FeatureCommand \/ BeginSmoke
  BY DEF AreaCommand, SmokeStep
<1> QED BY <1>2, <1>3, <1>4, <1>5, <1>6, <1>7, <1>8

(* What is kept are the snapshots saved last, in that order, whoever saved *)
(* them, however often one of them was saved again and however often they  *)
(* were pruned between.  The invariant: no name was saved last twice, and  *)
(* the two orders agree at their ends.                                     *)
THEOREM NewestAreAlwaysKept ==
  XSpec => []NewestAreKept
<1>1. XInit => KeptInv
  <2> SUFFICES ASSUME XInit PROVE KeptInv
    OBVIOUS
  <2>1. history = [kept |-> << >>, bookmarks |-> {}] /\ recency = << >> /\ clock = 0 /\ MaxTime \in Nat
    BY RuntimeAssumption DEF XInit
  <2>2. DOMAIN history = {"kept", "bookmarks"} /\ history.kept = << >>
    BY <2>1
  <2>3. << >> \in Seq(SnapshotNames) /\ Len(<< >>) = 0
    OBVIOUS
  <2> QED BY <2>1, <2>2, <2>3 DEF KeptInv, NoneTwice, Ends
<1>2. KeptInv /\ [XNext]_xvars => KeptInv'
  BY RuntimeStep
<1>3. KeptInv => NewestAreKept
  BY SuffixEnds DEF KeptInv, NewestAreKept
<1> QED BY <1>1, <1>2, <1>3, PTL DEF XSpec

-----------------------------------------------------------------------------
(* The workspace *)

SurfaceRecords ==
  [group : GroupNames \cup {nobody}, stack : GroupNames \cup {nobody}, z : 0..MaxZ, visible : BOOLEAN,
   state : {"attached", "detached"}, giant : BOOLEAN, tether : Surfaces \cup {nobody},
   screen : Screens \cup {nobody}, place : Places3D]

WorkspaceOf(w, D) ==
  /\ D \subseteq Surfaces
  /\ w \in [surfaces : [D -> SurfaceRecords], groups : [GroupNames -> SUBSET D], stacks : [GroupNames -> Seq(D)],
            screens : SUBSET Screens, mode : {"desktop", "3d"}]

Ordinary(w) == WorkspaceOf(w, DOMAIN w.surfaces)

LEMMA OrdinaryIs == ASSUME NEW w, Ordinary(w) PROVE IsWorkspace(w)
<1> USE DEF Ordinary, WorkspaceOf
<1>1. \A s \in DOMAIN w.surfaces : w.surfaces[s] \in SurfaceRecords
  OBVIOUS
<1>2. ASSUME NEW g \in GroupNames
      PROVE  w.groups[g] \subseteq DOMAIN w.surfaces /\ ToSet(w.stacks[g]) \subseteq DOMAIN w.surfaces
  <2>1. w.stacks[g] \in Seq(DOMAIN w.surfaces) /\ w.groups[g] \in SUBSET DOMAIN w.surfaces
    OBVIOUS
  <2> QED BY <2>1, ElementOfSeq, LenProperties DEF ToSet
<1> QED BY <1>1, <1>2 DEF IsWorkspace, SurfaceRecords

LEMMA WithSurfaces ==
  ASSUME NEW w, NEW D, WorkspaceOf(w, D), NEW f \in [D -> SurfaceRecords]
  PROVE  WorkspaceOf([w EXCEPT !.surfaces = f], D)
BY DEF WorkspaceOf

LEMMA DomainIs == ASSUME NEW w, NEW D, WorkspaceOf(w, D) PROVE DOMAIN w.surfaces = D /\ w.surfaces \in [D -> SurfaceRecords] /\ Ordinary(w)
BY DEF WorkspaceOf, Ordinary

LEMMA PlacedIs ==
  ASSUME NEW w, NEW D, WorkspaceOf(w, D), NEW ids, NEW how \in Places3D
  PROVE  WorkspaceOf(Placed(w, ids, how), D)
<1> DEFINE f == [s \in DOMAIN w.surfaces |-> IF s \in ids THEN [w.surfaces[s] EXCEPT !.place = how] ELSE w.surfaces[s]]
<1>1. Placed(w, ids, how) = [w EXCEPT !.surfaces = f]
  BY DEF Placed, Each
<1>2. f \in [D -> SurfaceRecords]
  BY DomainIs DEF SurfaceRecords
<1> HIDE DEF f
<1> QED BY <1>1, <1>2, WithSurfaces

(* What changes surfaces and leaves all else: the changes of Each are      *)
(* written out, one lemma for an operator.                                 *)
LEMMA GroupShownIs ==
  ASSUME NEW w, NEW D, WorkspaceOf(w, D), NEW g, NEW shown \in BOOLEAN
  PROVE  WorkspaceOf(GroupShown(w, g, shown), D)
<1> DEFINE f == [s \in DOMAIN w.surfaces |-> IF s \in w.groups[g] THEN [w.surfaces[s] EXCEPT !.visible = shown] ELSE w.surfaces[s]]
<1>1. GroupShown(w, g, shown) = [w EXCEPT !.surfaces = f]
  BY DEF GroupShown, Each
<1>2. f \in [D -> SurfaceRecords]
  BY DomainIs DEF SurfaceRecords
<1> HIDE DEF f
<1> QED BY <1>1, <1>2, WithSurfaces

LEMMA TiledIs == ASSUME NEW w, NEW D, WorkspaceOf(w, D), NEW ids PROVE WorkspaceOf(Tiled(w, ids), D)
BY PlacedIs DEF Tiled, Places3D

LEMMA GiantWallIs ==
  ASSUME NEW w, NEW D, WorkspaceOf(w, D), NEW ids
  PROVE  WorkspaceOf(GiantWall(w, ids), D)
<1> DEFINE t == Tiled(w, ids)
           f == [s \in DOMAIN t.surfaces |->
                   IF s \in ToSet(ids) THEN [t.surfaces[s] EXCEPT !.giant = TRUE, !.state = "detached"] ELSE t.surfaces[s]]
<1>1. GiantWall(w, ids) = [t EXCEPT !.surfaces = f]
  BY DEF GiantWall, Each
<1>2. WorkspaceOf(t, D)
  BY TiledIs
<1> HIDE DEF t
<1>3. f \in [D -> SurfaceRecords]
  <2>1. DOMAIN t.surfaces = D /\ \A s \in D : t.surfaces[s] \in SurfaceRecords
    BY <1>2, DomainIs
  <2>2. ASSUME NEW r \in SurfaceRecords
        PROVE  [r EXCEPT !.giant = TRUE, !.state = "detached"] \in SurfaceRecords
    BY DEF SurfaceRecords
  <2> QED BY <2>1, <2>2
<1> HIDE DEF f
<1> QED BY <1>1, <1>2, <1>3, WithSurfaces

LEMMA OrderedIs ==
  ASSUME NEW w, NEW D, WorkspaceOf(w, D), NEW x, NEW order \in 0..MaxZ
  PROVE  WorkspaceOf(Ordered(w, x, order), D)
<1> DEFINE f == [s \in DOMAIN w.surfaces |-> IF s \in {x} THEN [w.surfaces[s] EXCEPT !.z = order] ELSE w.surfaces[s]]
<1>1. Ordered(w, x, order) = [w EXCEPT !.surfaces = f]
  BY DEF Ordered, Each
<1>2. f \in [D -> SurfaceRecords]
  BY DomainIs DEF SurfaceRecords
<1> HIDE DEF f
<1> QED BY <1>1, <1>2, WithSurfaces

LEMMA TetheredIs ==
  ASSUME NEW w, NEW D, WorkspaceOf(w, D), NEW x, NEW a \in Surfaces
  PROVE  WorkspaceOf(Tethered(w, x, a), D)
<1> DEFINE f == [s \in DOMAIN w.surfaces |-> IF s \in {x} THEN [w.surfaces[s] EXCEPT !.tether = a] ELSE w.surfaces[s]]
<1>1. Tethered(w, x, a) = [w EXCEPT !.surfaces = f]
  BY DEF Tethered, Each
<1>2. f \in [D -> SurfaceRecords]
  BY DomainIs DEF SurfaceRecords
<1> HIDE DEF f
<1> QED BY <1>1, <1>2, WithSurfaces

LEMMA DetachedIs == ASSUME NEW w, NEW D, WorkspaceOf(w, D), NEW x PROVE WorkspaceOf(Detached(w, x), D)
<1> DEFINE f == [s \in DOMAIN w.surfaces |-> IF s \in {x} THEN [w.surfaces[s] EXCEPT !.state = "detached"] ELSE w.surfaces[s]]
<1>1. Detached(w, x) = [w EXCEPT !.surfaces = f]
  BY DEF Detached, Each
<1>2. f \in [D -> SurfaceRecords]
  BY DomainIs DEF SurfaceRecords
<1> HIDE DEF f
<1> QED BY <1>1, <1>2, WithSurfaces

LEMMA AttachedIs ==
  ASSUME NEW w, NEW D, WorkspaceOf(w, D), NEW x, NEW d \in Screens \cup {nobody}
  PROVE  WorkspaceOf(Attached(w, x, d), D)
<1> DEFINE f == [s \in DOMAIN w.surfaces |->
                   IF s \in {x} THEN [w.surfaces[s] EXCEPT !.state = "attached", !.screen = IF d = nobody THEN @ ELSE d]
                   ELSE w.surfaces[s]]
<1>1. Attached(w, x, d) = [w EXCEPT !.surfaces = f]
  BY DEF Attached, Each
<1>2. f \in [D -> SurfaceRecords]
  <2>1. DOMAIN w.surfaces = D /\ \A s \in D : w.surfaces[s] \in SurfaceRecords
    BY DomainIs
  <2>2. ASSUME NEW r \in SurfaceRecords
        PROVE  [r EXCEPT !.state = "attached", !.screen = IF d = nobody THEN @ ELSE d] \in SurfaceRecords
    BY DEF SurfaceRecords
  <2> QED BY <2>1, <2>2
<1> HIDE DEF f
<1> QED BY <1>1, <1>2, WithSurfaces

LEMMA RestoredIs == ASSUME NEW w, NEW D, WorkspaceOf(w, D), NEW ids PROVE WorkspaceOf(Restored(w, ids), D)
<1> DEFINE f == [s \in DOMAIN w.surfaces |-> IF s \in ToSet(ids) THEN [w.surfaces[s] EXCEPT !.visible = TRUE] ELSE w.surfaces[s]]
<1>1. Restored(w, ids) = [w EXCEPT !.surfaces = f]
  BY DEF Restored, Each
<1>2. f \in [D -> SurfaceRecords]
  <2>1. DOMAIN w.surfaces = D /\ \A s \in D : w.surfaces[s] \in SurfaceRecords
    BY DomainIs
  <2>2. ASSUME NEW r \in SurfaceRecords
        PROVE  [r EXCEPT !.visible = TRUE] \in SurfaceRecords
    BY DEF SurfaceRecords
  <2> QED BY <2>1, <2>2
<1> HIDE DEF f
<1> QED BY <1>1, <1>2, WithSurfaces

LEMMA GroupedIs ==
  ASSUME NEW w, NEW D, WorkspaceOf(w, D), NEW g \in GroupNames, NEW ids
  PROVE  WorkspaceOf(Grouped(w, g, ids), D)
<1> DEFINE f == [s \in DOMAIN w.surfaces |-> IF s \in ToSet(ids) THEN [w.surfaces[s] EXCEPT !.group = g] ELSE w.surfaces[s]]
           v == [w EXCEPT !.surfaces = f]
<1>1. Grouped(w, g, ids) = [v EXCEPT !.groups[g] = Members(w, ids)]
  BY DEF Grouped, Each
<1>2. f \in [D -> SurfaceRecords]
  BY DomainIs DEF SurfaceRecords
<1> HIDE DEF f
<1>3. WorkspaceOf(v, D)
  BY <1>2, WithSurfaces
<1>4. Members(w, ids) \in SUBSET D
  BY DomainIs DEF Members
<1> HIDE DEF v
<1>5. v.groups \in [GroupNames -> SUBSET D] /\ [v.groups EXCEPT ![g] = Members(w, ids)] \in [GroupNames -> SUBSET D]
  BY <1>3, <1>4 DEF WorkspaceOf
<1> QED BY <1>1, <1>3, <1>5 DEF WorkspaceOf

LEMMA ScreenIs ==
  ASSUME NEW w, NEW D, WorkspaceOf(w, D), NEW d \in Screens
  PROVE  WorkspaceOf([w EXCEPT !.screens = @ \cup {d}], D)
<1>1. w.screens \cup {d} \in SUBSET Screens
  BY DEF WorkspaceOf
<1> QED BY <1>1 DEF WorkspaceOf

LEMMA NavigatedIs ==
  ASSUME NEW w, NEW D, WorkspaceOf(w, D), NEW d \in Screens
  PROVE  WorkspaceOf(Navigated(w, d), D)
BY ScreenIs DEF Navigated

LEMMA MonitorWallIs ==
  ASSUME NEW w, NEW D, WorkspaceOf(w, D), NEW d \in Screens, NEW ids
  PROVE  WorkspaceOf(MonitorWall(w, d, ids), D)
<1>1. WorkspaceOf(Tiled(w, ids), D)
  BY TiledIs
<1> QED BY <1>1, ScreenIs DEF MonitorWall

LEMMA TransitionedIs ==
  ASSUME NEW w, NEW D, WorkspaceOf(w, D), NEW to \in {"desktop", "3d"}
  PROVE  WorkspaceOf(Transitioned(w, to), D)
BY DEF WorkspaceOf, Transitioned
(* Loops: what holds at first and is passed on by each turn holds of all.  *)
LEMMA UpTo ==
  ASSUME NEW N \in Nat, NEW T, 0 \in T, \A n \in 1..N : n - 1 \in T => n \in T
  PROVE  \A n \in 0..N : n \in T
<1> DEFINE Bad == {n \in 0..N : n \notin T}
<1> SUFFICES ASSUME Bad # {} PROVE FALSE
  OBVIOUS
<1>1. Bad \subseteq Nat
  OBVIOUS
<1>2. PICK x \in Bad : \A y \in Bad : ~(<<y, x>> \in OpToRel(<, Nat))
  BY <1>1, NatLessThanWellFounded, WFMin
<1>3. x \in 1..N /\ x - 1 \in 0..N /\ x - 1 < x
  <2>1. x \in 0..N /\ x # 0
    BY <1>2
  <2> QED BY <2>1
<1>4. x - 1 \notin Bad
  BY <1>1, <1>2, <1>3 DEF OpToRel
<1> QED BY <1>2, <1>3, <1>4

(* A loop of n turns over a set has a function of its turns.               *)
LEMMA LoopExists ==
  ASSUME NEW S, NEW a \in S, NEW N \in Nat, NEW G \in [1..N -> [S -> S]]
  PROVE  \E f \in [0..N -> S] : f[0] = a /\ \A n \in 1..N : f[n] = G[n][f[n - 1]]
<1> DEFINE T == {n \in 0..N : \E f \in [0..n -> S] : f[0] = a /\ \A i \in 1..n : f[i] = G[i][f[i - 1]]}
<1>1. 0 \in T
  <2> DEFINE g == [i \in 0..0 |-> a]
  <2>1. g \in [0..0 -> S] /\ g[0] = a
    OBVIOUS
  <2> HIDE DEF g
  <2>2. g[0] = a /\ \A i \in 1..0 : g[i] = G[i][g[i - 1]]
    BY <2>1
  <2> QED BY <2>1, <2>2
<1>2. ASSUME NEW n \in 1..N, n - 1 \in T
      PROVE  n \in T
  <2>1. PICK f \in [0..(n - 1) -> S] : f[0] = a /\ \A i \in 1..(n - 1) : f[i] = G[i][f[i - 1]]
    BY <1>2
  <2> DEFINE g == [i \in 0..n |-> IF i = n THEN G[n][f[n - 1]] ELSE f[i]]
  <2>2. f[n - 1] \in S /\ G[n] \in [S -> S]
    BY <2>1
  <2>3. G[n][f[n - 1]] \in S
    BY <2>2
  <2>4. g \in [0..n -> S]
    BY <2>3
  <2>5. g[0] = a
    BY <2>1
  <2>6. ASSUME NEW i \in 1..n PROVE g[i] = G[i][g[i - 1]]
    <3>1. i - 1 \in 0..(n - 1) /\ g[i - 1] = f[i - 1]
      OBVIOUS
    <3>2. CASE i = n
      BY <3>1, <3>2
    <3>3. CASE i # n
      BY <2>1, <3>1, <3>3
    <3> QED BY <3>2, <3>3
  <2> HIDE DEF g
  <2> QED BY <2>4, <2>5, <2>6
<1>3. N \in T
  <2> HIDE DEF T
  <2>1. \A n \in 0..N : n \in T
    BY <1>1, <1>2, UpTo
  <2> QED BY <2>1
<1> QED BY <1>3


(* A list keeps those of its surfaces that are known. *)
LEMMA KnownOfIs ==
  ASSUME NEW w, NEW D, WorkspaceOf(w, D), NEW ids, Len(ids) \in Nat
  PROVE  KnownOf(w, ids) \in Seq(D) /\ Len(KnownOf(w, ids)) <= Len(ids)
<1> DEFINE N == Len(ids)
           S == Seq(D)
           Turn(q, i) == IF ids[i] \in DOMAIN w.surfaces THEN Append(q, ids[i]) ELSE q
           G == [i \in 1..N |-> [q \in S |-> Turn(q, i)]]
           g == CHOOSE f : f = [i \in 0..N |-> IF i = 0 THEN <<>> ELSE Turn(f[i - 1], i)]
<1>1. N \in Nat /\ <<>> \in S
  BY EmptySeq
<1>2. KnownOf(w, ids) = g[N]
  BY DEF KnownOf
<1>3. ASSUME NEW i \in 1..N, NEW q \in S PROVE Turn(q, i) \in S /\ Len(Turn(q, i)) <= Len(q) + 1
  BY DomainIs, AppendProperties, LenProperties
<1> HIDE DEF Turn, S
<1>4. g = [i \in 0..N |-> IF i = 0 THEN <<>> ELSE Turn(g[i - 1], i)]
  <2>1. PICK f \in [0..N -> S] : f[0] = <<>> /\ \A i \in 1..N : f[i] = G[i][f[i - 1]]
    <3>1. G \in [1..N -> [S -> S]]
      BY <1>3
    <3> HIDE DEF N, G, g
    <3> QED BY <1>1, <3>1, LoopExists
  <2>2. ASSUME NEW i \in 1..N PROVE f[i] = Turn(f[i - 1], i)
    <3>1. f[i - 1] \in S
      BY <1>1, <2>1
    <3> QED BY <2>1, <3>1
  <2>3. f = [i \in 0..N |-> IF i = 0 THEN <<>> ELSE Turn(f[i - 1], i)]
    <3> HIDE DEF N, G, g
    <3> QED BY <1>1, <2>1, <2>2
  <2> HIDE DEF N
  <2> QED BY <2>3
<1> DEFINE T == {i \in 0..N : g[i] \in S /\ Len(g[i]) <= i}
<1> HIDE DEF g
<1>5. 0 \in T
  BY <1>1, <1>4
<1>6. ASSUME NEW i \in 1..N, i - 1 \in T PROVE i \in T
  <2>1. g[i] = Turn(g[i - 1], i)
    BY <1>1, <1>4
  <2>2. g[i - 1] \in S /\ Len(g[i - 1]) <= i - 1 /\ Len(g[i - 1]) \in Nat
    BY <1>6, LenProperties DEF S
  <2>3. g[i] \in S /\ Len(g[i]) <= Len(g[i - 1]) + 1 /\ Len(g[i]) \in Nat
    BY <1>3, <2>1, <2>2, LenProperties DEF S
  <2> QED BY <2>2, <2>3
<1> HIDE DEF T, N
<1>7. \A i \in 0..N : i \in T
  BY <1>1, <1>5, <1>6, UpTo
<1> QED BY <1>1, <1>2, <1>7 DEF T, S, N

LEMMA StackedIs ==
  ASSUME NEW w, NEW D, WorkspaceOf(w, D), NEW g \in GroupNames, NEW ids, Len(ids) \in 0..MaxZ
  PROVE  WorkspaceOf(Stacked(w, g, ids), D)
<1> DEFINE members == KnownOf(w, ids)
           order(s) == CHOOSE i \in DOMAIN members : members[i] = s
           f == [s \in DOMAIN w.surfaces |->
                   IF s \in ToSet(members) THEN [w.surfaces[s] EXCEPT !.stack = g, !.z = order(s) - 1] ELSE w.surfaces[s]]
           v == [w EXCEPT !.surfaces = f]
<1>1. members \in Seq(D) /\ Len(members) \in 0..MaxZ
  <2>1. members \in Seq(D) /\ Len(members) <= Len(ids)
    BY KnownOfIs
  <2> HIDE DEF members
  <2>2. Len(members) \in Nat
    BY <2>1, LenProperties
  <2>3. \A a \in Nat, b \in 0..MaxZ : a <= b => a \in 0..MaxZ
    BY DEF MaxZ
  <2>4. Len(members) \in 0..MaxZ
    BY <2>1, <2>2, <2>3
  <2> QED BY <2>1, <2>4
<1>2. Stacked(w, g, ids) = [v EXCEPT !.stacks[g] = members]
  BY DEF Stacked, WorkspaceOf
<1>3. f \in [D -> SurfaceRecords]
  <2>1. DOMAIN w.surfaces = D /\ \A s \in D : w.surfaces[s] \in SurfaceRecords
    BY DomainIs
  <2>2. ASSUME NEW s \in ToSet(members)
        PROVE  order(s) - 1 \in 0..MaxZ
    <3>1. order(s) \in DOMAIN members
      BY DEF ToSet
    <3> HIDE DEF members, order
    <3> QED BY <1>1, <3>1, LenProperties DEF MaxZ
  <2>3. ASSUME NEW r \in SurfaceRecords, NEW z \in 0..MaxZ
        PROVE  [r EXCEPT !.stack = g, !.z = z] \in SurfaceRecords
    BY DEF SurfaceRecords
  <2> HIDE DEF order, members
  <2> QED BY <2>1, <2>2, <2>3
<1> HIDE DEF f, members
<1>4. WorkspaceOf(v, D)
  BY <1>3, WithSurfaces
<1> HIDE DEF v
<1>5. v.stacks \in [GroupNames -> Seq(D)] /\ [v.stacks EXCEPT ![g] = members] \in [GroupNames -> Seq(D)]
  BY <1>1, <1>4 DEF WorkspaceOf
<1> QED BY <1>2, <1>4, <1>5 DEF WorkspaceOf

(* The fields a surface is given. *)
FieldsGiven == {<<>>, [place |-> "given"]} \cup {[group |-> g] : g \in GroupNames \cup {nobody}}

LEMMA UpsertedIs ==
  ASSUME NEW w, NEW D, WorkspaceOf(w, D), NEW S \in SUBSET Surfaces, NEW fields \in FieldsGiven
  PROVE  WorkspaceOf(Upserted(w, S, fields), D \cup S)
<1> DEFINE item(s) == Over(fields, IF s \in DOMAIN w.surfaces THEN w.surfaces[s] ELSE Fresh)
           f == Over([s \in S |-> item(s)], w.surfaces)
           h == [g \in GroupNames |-> w.groups[g] \cup {s \in S : item(s).group = g}]
<1>1. Upserted(w, S, fields) = [[w EXCEPT !.surfaces = f] EXCEPT !.groups = h]
  BY DEF Upserted, WorkspaceOf
<1>2. ASSUME NEW r \in SurfaceRecords PROVE Over(fields, r) \in SurfaceRecords
  <2>1. CASE fields = <<>>
    BY <2>1 DEF Over, SurfaceRecords
  <2>2. CASE fields = [place |-> "given"]
    BY <2>2 DEF Over, SurfaceRecords, Places3D
  <2>3. ASSUME NEW g \in GroupNames \cup {nobody}, fields = [group |-> g] PROVE Over(fields, r) \in SurfaceRecords
    BY <2>3 DEF Over, SurfaceRecords
  <2> QED BY <2>1, <2>2, <2>3 DEF FieldsGiven
<1>3. Fresh \in SurfaceRecords
  BY DEF Fresh, SurfaceRecords, Places3D, MaxZ
<1>4. \A s : item(s) \in SurfaceRecords
  BY <1>2, <1>3, DomainIs
<1> HIDE DEF item
<1>5. f \in [D \cup S -> SurfaceRecords]
  BY <1>4, DomainIs DEF Over
<1>6. h \in [GroupNames -> SUBSET (D \cup S)]
  BY DEF WorkspaceOf
<1>7. w.stacks \in [GroupNames -> Seq(D \cup S)]
  <2>1. \A g \in GroupNames : w.stacks[g] \in Seq(D \cup S)
    BY ElementOfSeq, SeqDef DEF WorkspaceOf
  <2> QED BY <2>1 DEF WorkspaceOf
<1> HIDE DEF f, h
<1> QED BY <1>1, <1>5, <1>6, <1>7 DEF WorkspaceOf

LEMMA ListsAre == ASSUME NEW S, NEW ids \in Lists(S) PROVE Len(ids) \in 0..2
BY DEF Lists, SeqOf

LEMMA CommandsKeepWorkspace ==
  ASSUME NEW w, Ordinary(w), NEW v
  PROVE  v \in Commanded(w) => Ordinary(v)
<1> DEFINE D == DOMAIN w.surfaces
           F == {<<>>} \cup {[group |-> g] : g \in GroupNames \cup {nobody}}
           One(s, f) == Upserted(w, {s}, f)
<1>1. WorkspaceOf(w, D) /\ D \subseteq Surfaces
  BY DEF Ordinary, WorkspaceOf
<1> HIDE DEF D
<1>2. ASSUME NEW s \in Surfaces, NEW f \in F, v = One(s, f)
      PROVE  Ordinary(v)
  BY DomainIs, <1>1, <1>2, UpsertedIs DEF FieldsGiven
<1> HIDE DEF F, One
<1>3. ASSUME NEW g \in GroupNames, NEW ids \in Lists(Surfaces), v \in {Grouped(w, g, ids), Stacked(w, g, ids)}
      PROVE  Ordinary(v)
  <2>1. Len(ids) \in 0..MaxZ
    BY ListsAre DEF MaxZ
  <2> QED BY DomainIs, <1>1, <1>3, <2>1, GroupedIs, StackedIs
<1>4. ASSUME NEW ids \in Lists(Surfaces), v \in {Tiled(w, ids), GiantWall(w, ids), Restored(w, ids)}
      PROVE  Ordinary(v)
  BY DomainIs, <1>1, <1>4, TiledIs, GiantWallIs, RestoredIs
<1>5. ASSUME NEW g \in GroupNames, NEW shown \in BOOLEAN, v \in {GroupMoved(w, g), GroupTurned(w, g), GroupShown(w, g, shown)}
      PROVE  Ordinary(v)
  BY DomainIs, <1>1, <1>5, PlacedIs, GroupShownIs DEF GroupMoved, GroupTurned, Places3D
<1>6. ASSUME NEW to \in {"desktop", "3d"}, v = Transitioned(w, to)
      PROVE  Ordinary(v)
  BY DomainIs, <1>1, <1>6, TransitionedIs
<1>7. ASSUME NEW s, v \in {Snapped(w, s), Moved(w, s), Detached(w, s)}
      PROVE  Ordinary(v)
  BY DomainIs, <1>1, <1>7, PlacedIs, DetachedIs DEF Snapped, Moved, Places3D
<1>8. ASSUME NEW s, NEW d \in Screens \cup {nobody}, v = Attached(w, s, d)
      PROVE  Ordinary(v)
  BY DomainIs, <1>1, <1>8, AttachedIs
<1>9. ASSUME NEW s, NEW a \in Surfaces, v = Tethered(w, s, a)
      PROVE  Ordinary(v)
  BY DomainIs, <1>1, <1>9, TetheredIs
<1>10. ASSUME NEW d \in Screens, v = Navigated(w, d)
       PROVE  Ordinary(v)
  BY DomainIs, <1>1, <1>10, NavigatedIs
<1> DEFINE A1 == {Upserted(w, {s}, f) : s \in Surfaces, f \in {<<>>} \cup {[group |-> g] : g \in GroupNames \cup {nobody}}}
           A2 == UNION {{Grouped(w, g, ids), Stacked(w, g, ids)} : g \in GroupNames, ids \in Lists(Surfaces)}
           A3 == UNION {{Tiled(w, ids), GiantWall(w, ids), Restored(w, ids)} : ids \in Lists(Surfaces)}
           A4 == UNION {{GroupMoved(w, g), GroupTurned(w, g)} : g \in GroupNames}
           A5 == {GroupShown(w, g, shown) : g \in GroupNames, shown \in BOOLEAN}
           A6 == {Transitioned(w, to) : to \in {"desktop", "3d"}}
           A7 == UNION {{Snapped(w, s), Moved(w, s), Detached(w, s)} : s \in DOMAIN w.surfaces}
           A8 == {Attached(w, s, d) : s \in DOMAIN w.surfaces, d \in Screens \cup {nobody}}
           A9 == {Tethered(w, s, a) : s \in DOMAIN w.surfaces, a \in Surfaces}
           A10 == {Navigated(w, d) : d \in Screens}
<1>11. Commanded(w) = A1 \cup A2 \cup A3 \cup A4 \cup A5 \cup A6 \cup A7 \cup A8 \cup A9 \cup A10
  BY DEF Commanded
<1>12. CASE v \in A1 \cup A2
  <2>1. A1 = {One(s, f) : s \in Surfaces, f \in F}
    BY DEF F, One
  <2> HIDE DEF A1
  <2> QED BY <1>2, <1>3, <1>12, <2>1
<1>13. CASE v \in A3 \cup A4
  BY <1>4, <1>5, <1>13
<1>14. CASE v \in A5 \cup A6
  BY <1>5, <1>6, <1>14
<1>15. CASE v \in A7
  BY <1>7, <1>15
<1>16. CASE v \in A8 \cup A9 \cup A10
  BY <1>8, <1>9, <1>10, <1>16
<1> HIDE DEF A1, A2, A3, A4, A5, A6, A7, A8, A9, A10
<1> QED BY <1>11, <1>12, <1>13, <1>14, <1>15, <1>16

(* The fixtures of the features, and what these do with them. *)
LEMMA FeaturesKeepWorkspace ==
  ASSUME NEW w, Ordinary(w)
  PROVE  /\ Ordinary(FixtureSurfaces(w))
         /\ \A v \in SpatialFeature(w) \cup TransitionFeature(w) \cup GameFeature(w) \cup DisplayFeature(w) : Ordinary(v)
<1> DEFINE D == DOMAIN w.surfaces
<1>1. WorkspaceOf(w, D)
  BY DEF Ordinary
<1>2. /\ ToSet(MasterSurfaces) \in SUBSET Surfaces /\ master \in Surfaces /\ anchor \in Surfaces
      /\ Len(MasterSurfaces) \in 0..MaxZ /\ masterGroup \in GroupNames /\ masterScreen \in Screens
  BY RuntimeAssumption, ElementOfSeq, LenProperties DEF ToSet, master, anchor, MaxZ
<1>3. Ordinary(FixtureSurfaces(w))
  BY <1>1, <1>2, UpsertedIs, DomainIs DEF FixtureSurfaces, FieldsGiven
<1> HIDE DEF D
<1>4. ASSUME NEW v \in SpatialFeature(w)
      PROVE  WorkspaceOf(v, D)
  <2>1. CASE v \in {Grouped(w, masterGroup, MasterSurfaces), Stacked(w, masterGroup, MasterSurfaces),
                    Tiled(w, MasterSurfaces), GiantWall(w, MasterSurfaces)}
    BY <1>1, <1>2, <2>1, GroupedIs, StackedIs, TiledIs, GiantWallIs
  <2>2. CASE v \in {Snapped(w, master), GroupTurned(w, masterGroup), w, Moved(w, master)}
    BY <1>1, <2>2, PlacedIs DEF Snapped, Moved, GroupTurned, Places3D
  <2>3. CASE v \in {Tethered(w, master, anchor), Detached(w, master)}
    BY <1>1, <1>2, <2>3, TetheredIs, DetachedIs
  <2>4. CASE v = Navigated(MonitorWall(w, masterScreen, MasterSurfaces), masterScreen)
    BY <1>1, <1>2, <2>4, NavigatedIs, MonitorWallIs
  <2>5. CASE v \in {Ordered(w, master, MaxZ), Ordered(w, master, 1)}
    BY <1>1, <2>5, OrderedIs DEF MaxZ
  <2>6. CASE v \in {Separated(w, moved) : moved \in Separable(w)}
    BY <1>1, <2>6, PlacedIs DEF Separated, Places3D
  <2> QED BY <2>1, <2>2, <2>3, <2>4, <2>5, <2>6 DEF SpatialFeature
<1>5. ASSUME NEW v \in TransitionFeature(w) PROVE WorkspaceOf(v, D)
  BY <1>1, <1>5, TransitionedIs DEF TransitionFeature
<1>6. ASSUME NEW v \in GameFeature(w) \cup DisplayFeature(w) PROVE WorkspaceOf(v, D)
  BY <1>1, <1>2, <1>6, GiantWallIs, MonitorWallIs, NavigatedIs DEF GameFeature, DisplayFeature
<1> QED BY <1>3, <1>4, <1>5, <1>6, DomainIs

-----------------------------------------------------------------------------
(* The ecology. *)
EcologyOf(e, C) == e \in [cells : [C -> CellStates], generation : Nat]
Living(e) == EcologyOf(e, Cells(e))

LEMMA LivingIs == ASSUME NEW e, NEW C, EcologyOf(e, C) PROVE Living(e) /\ Cells(e) = C
BY DEF EcologyOf, Living, Cells

LEMMA BornIs ==
  ASSUME NEW e, Living(e), NEW ids, NEW state \in CellStates
  PROVE  Living(Born(e, ids, state))
<1> DEFINE C == Cells(e)
           f == Over([id \in ids |-> state], e.cells)
<1>1. e.cells \in [C -> CellStates] /\ Born(e, ids, state) = [e EXCEPT !.cells = f]
  BY DEF Living, EcologyOf, Born
<1>2. f \in [ids \cup C -> CellStates]
  BY <1>1 DEF Over
<1> HIDE DEF f, C
<1>3. EcologyOf(Born(e, ids, state), ids \cup C)
  BY <1>1, <1>2 DEF Living, EcologyOf
<1> QED BY <1>3, LivingIs

LEMMA NextGeneration == ASSUME NEW e, Living(e) PROVE Living([e EXCEPT !.generation = @ + 1])
BY DEF Living, EcologyOf, Cells

LEMMA CoreCommandsLive ==
  ASSUME NEW e, Living(e)
  PROVE  /\ \A ids : Living(Seeded(e, ids))
         /\ \A p, n : Living(Divided(e, p, n))
         /\ \A p : Living(Dying(e, p)) /\ Living(WithSatellite(e, p)) /\ Living(Pulled(e))
         /\ Living(Stepped(e))
<1>1. ASSUME NEW ids PROVE Living(Seeded(e, ids))
  BY BornIs DEF Seeded, CellStates
<1>2. ASSUME NEW p, NEW n PROVE Living(Divided(e, p, n))
  BY NextGeneration, BornIs DEF Divided, CellStates
<1>3. ASSUME NEW p PROVE Living(Dying(e, p))
  <2>1. e.cells \in [Cells(e) -> CellStates] /\ [e.cells EXCEPT ![p] = "apoptosing"] \in [Cells(e) -> CellStates]
    BY DEF Living, EcologyOf, CellStates
  <2>2. EcologyOf(Dying(e, p), Cells(e))
    BY <2>1 DEF Dying, Living, EcologyOf
  <2> QED BY <2>2, LivingIs
<1>4. ASSUME NEW p PROVE Living(WithSatellite(e, p)) /\ Living(Pulled(e))
  BY NextGeneration, BornIs DEF WithSatellite, Pulled, CellStates
<1>5. Living(Stepped(e))
  <2> DEFINE f == [c \in DOMAIN e.cells |-> IF e.cells[c] = "growing" THEN "active" ELSE e.cells[c]]
  <2>1. f \in [Cells(e) -> CellStates] /\ Stepped(e) = [e EXCEPT !.cells = f]
    BY DEF Living, EcologyOf, CellStates, Stepped
  <2> HIDE DEF f
  <2>2. EcologyOf(Stepped(e), Cells(e))
    BY <2>1 DEF Living, EcologyOf
  <2> QED BY <2>2, LivingIs
<1> QED BY <1>1, <1>2, <1>3, <1>4, <1>5

LEMMA CoreLives ==
  ASSUME NEW e, Living(e), NEW f
  PROVE  /\ f \in CoreCommanded(e) => Living(f)
         /\ f \in CoreFeature(e) => Living(f)
         /\ Living(FixtureCells(e))
BY CoreCommandsLive DEF CoreCommanded, CoreFeature, FixtureCells

-----------------------------------------------------------------------------
(* The small stores. *)
Lit == {nobody, "on", "off"}
Kinds3D == {"samples", "costs", "baseline", "compared", "profile"}
StoreRecords ==
  [shown : [Screens -> Lit], arranged : [Screens -> Lit], asleep : BOOLEAN, resets : SUBSET Topics,
   profiles : SUBSET People, regions : [Regions3D -> People \cup {nobody}],
   owners : [Regions3D -> People \cup {nobody}], members : [Regions3D -> SUBSET People],
   pins : SUBSET People, rooms : SUBSET People, machines : SUBSET Machines3D,
   learned : SUBSET Topics, walls : SUBSET Topics, clipboard : Topics \cup {nobody}, transfers : BOOLEAN,
   measured : SUBSET Kinds3D, results : SUBSET {"world", "benchmark"}, audible : BOOLEAN,
   sound : {"adaptive", "game-priority", "low"}, devices : SUBSET {"eye_gaze", "haptics"}, captions : BOOLEAN]

LEMMA StoresAre == ASSUME NEW s \in StoreRecords PROVE IsStores(s)
BY DEF StoreRecords, IsStores, Lit, Kinds3D

LEMMA EmptyStoresAre == EmptyStores \in StoreRecords
BY DEF StoreRecords, EmptyStores, Lit, Kinds3D

LEMMA DisplaysKept ==
  ASSUME NEW s \in StoreRecords, NEW Which \in SUBSET Screens, NEW t \in DisplayEffects(s, Which)
  PROVE  t \in StoreRecords
<1>1. ASSUME NEW d \in Which, NEW how \in Lit, t = WithDisplay(s, d, how)
      PROVE  t \in StoreRecords
  <2>1. s.shown \in [Screens -> Lit] /\ d \in Screens
    BY DEF StoreRecords
  <2> DEFINE lit == IF how = nobody THEN (IF s.shown[d] = nobody THEN "on" ELSE s.shown[d]) ELSE how
             new == [s.shown EXCEPT ![d] = lit]
  <2>2. new \in [Screens -> Lit]
    BY <2>1 DEF Lit
  <2>3. t = [s EXCEPT !.shown = new]
    BY <1>1, <2>1 DEF WithDisplay, StoreRecords
  <2> HIDE DEF new
  <2> QED BY <2>2, <2>3 DEF StoreRecords
<1>2. CASE t = [s EXCEPT !.arranged = s.shown]
  BY <1>2 DEF StoreRecords
<1> QED BY <1>1, <1>2 DEF DisplayEffects, Lit

LEMMA ReliabilityKept ==
  ASSUME NEW s \in StoreRecords, NEW Which \in SUBSET Topics,
         NEW t \in ReliabilityEffects(s, Which) \cup {FullReset(s)}
  PROVE  t \in StoreRecords
<1>1. ASSUME NEW r \in Which, t = [s EXCEPT !.resets = @ \cup {r}]
      PROVE  t \in StoreRecords
  BY <1>1 DEF StoreRecords
<1>2. ASSUME NEW asleep \in BOOLEAN, t = [s EXCEPT !.asleep = asleep]
      PROVE  t \in StoreRecords
  BY <1>2 DEF StoreRecords
<1>3. CASE t = FullReset(s)
  BY <1>3 DEF StoreRecords, FullReset
<1> QED BY <1>1, <1>2, <1>3 DEF ReliabilityEffects

LEMMA PeopleKept ==
  ASSUME NEW s \in StoreRecords, NEW t \in PeopleFeature(s)
  PROVE  t \in StoreRecords
<1>1. PICK u \in People : t \in PeopleEffects(s, u)
  BY DEF PeopleFeature
<1>2. WithProfile(s, u) \in StoreRecords
  BY DEF StoreRecords, WithProfile
<1>3. ASSUME NEW r \in Regions3D, NEW others \in {{}, {u}}, t = WithRegion(s, r, u, others)
      PROVE  t \in StoreRecords
  <2> DEFINE regions == [s.regions EXCEPT ![r] = IF s.regions[r] = nobody THEN u ELSE s.regions[r]]
             owners == [s.owners EXCEPT ![r] = u]
             members == [s.members EXCEPT ![r] = s.members[r] \cup others]
  <2>1. /\ s.regions \in [Regions3D -> People \cup {nobody}] /\ s.owners \in [Regions3D -> People \cup {nobody}]
        /\ s.members \in [Regions3D -> SUBSET People]
    BY DEF StoreRecords
  <2>2. regions \in [Regions3D -> People \cup {nobody}] /\ owners \in [Regions3D -> People \cup {nobody}]
    BY <2>1
  <2>3. members \in [Regions3D -> SUBSET People]
    BY <2>1
  <2>4. t = [s EXCEPT !.regions = regions, !.owners = owners, !.members = members]
    BY <1>3, <2>1 DEF WithRegion, StoreRecords
  <2> HIDE DEF regions, owners, members
  <2> QED BY <2>2, <2>3, <2>4 DEF StoreRecords
<1>4. CASE t = [WithProfile(s, u) EXCEPT !.rooms = @ \cup {u}] \/ t = [WithProfile(s, u) EXCEPT !.pins = @ \cup {u}]
  BY <1>2, <1>4 DEF StoreRecords
<1> QED BY <1>1, <1>2, <1>3, <1>4 DEF PeopleEffects

LEMMA MeasureKept ==
  ASSUME NEW s \in StoreRecords, NEW K \in SUBSET Kinds3D
  PROVE  Measured(s, K) \in StoreRecords
BY DEF Measured, StoreRecords

LEMMA PerformanceKept ==
  ASSUME NEW s \in StoreRecords, NEW t \in PerformanceEffects(s) \cup AnalyticsFeature(s) \cup LearnFeature(s)
  PROVE  t \in StoreRecords
<1>1. CASE t \in PerformanceEffects(s)
  <2>1. PICK K \in SUBSET {"costs", "baseline", "compared", "profile"} : t = Measured(s, {"samples"} \cup K)
    BY <1>1 DEF PerformanceEffects
  <2>2. {"samples"} \cup K \in SUBSET Kinds3D
    BY DEF Kinds3D
  <2> QED BY <2>1, <2>2, MeasureKept
<1>2. CASE t \in AnalyticsFeature(s) \cup LearnFeature(s)
  BY <1>2, MeasureKept DEF AnalyticsFeature, LearnFeature, Kinds3D
<1> QED BY <1>1, <1>2

LEMMA TopicsKept ==
  ASSUME NEW s \in StoreRecords, NEW Which \in SUBSET Topics, NEW t \in TransferEffects(s, Which) \cup ProfileEffects(s, Which)
  PROVE  t \in StoreRecords
<1>1. ASSUME NEW x \in Which, t = [s EXCEPT !.clipboard = x] PROVE t \in StoreRecords
  BY <1>1 DEF StoreRecords
<1>2. ASSUME NEW x \in Which, t = [s EXCEPT !.learned = @ \cup {x}] PROVE t \in StoreRecords
  BY <1>2 DEF StoreRecords
<1>3. ASSUME NEW x \in Which, t = [s EXCEPT !.walls = @ \cup {x}] PROVE t \in StoreRecords
  BY <1>3 DEF StoreRecords
<1>4. ASSUME NEW transfers \in BOOLEAN, t = [s EXCEPT !.transfers = transfers]
      PROVE  t \in StoreRecords
  BY <1>4 DEF StoreRecords
<1> QED BY <1>1, <1>2, <1>3, <1>4 DEF TransferEffects, ProfileEffects

LEMMA OthersKept ==
  ASSUME NEW s \in StoreRecords,
         NEW t \in SimulationEffects(s) \cup AudioEffects(s) \cup RemoteEffects(s, Machines3D) \cup AccessEffects(s)
                   \cup TestFeature(s)
  PROVE  t \in StoreRecords
<1>1. ASSUME NEW x \in {"world", "benchmark"}, t = [s EXCEPT !.results = @ \cup {x}] PROVE t \in StoreRecords
  BY <1>1 DEF StoreRecords
<1>2. ASSUME NEW on \in BOOLEAN, NEW how \in {"adaptive", "game-priority", "low"},
             t = Heard(s, on, how)
      PROVE  t \in StoreRecords
  BY <1>2 DEF StoreRecords, Heard
<1>3. ASSUME NEW m \in Machines3D, t = [s EXCEPT !.machines = @ \cup {m}] PROVE t \in StoreRecords
  BY <1>3 DEF StoreRecords
<1>4. ASSUME NEW on \in BOOLEAN, t = [s EXCEPT !.captions = on] PROVE t \in StoreRecords
  BY <1>4 DEF StoreRecords
<1>5. ASSUME NEW x \in {"eye_gaze", "haptics"}, t = [s EXCEPT !.devices = @ \cup {x}] PROVE t \in StoreRecords
  BY <1>5 DEF StoreRecords
<1>6. CASE t \in SimulationEffects(s) \cup TestFeature(s)
  BY <1>1, <1>6 DEF SimulationEffects, TestFeature
<1>7. CASE t \in AudioEffects(s)
  BY <1>2, <1>7 DEF AudioEffects
<1>8. CASE t \in RemoteEffects(s, Machines3D) \cup AccessEffects(s)
  BY <1>3, <1>4, <1>5, <1>8 DEF RemoteEffects, AccessEffects
<1> QED BY <1>6, <1>7, <1>8

(* Every command and every feature keeps the stores. *)
LEMMA StoreCommandKept == ASSUME stores \in StoreRecords, StoreCommand PROVE stores' \in StoreRecords
BY DisplaysKept, ReliabilityKept, PeopleKept, PerformanceKept, TopicsKept, OthersKept DEF StoreCommand

LEMMA FeaturesKeepStores ==
  ASSUME NEW s \in StoreRecords, NEW t
  PROVE  /\ t \in StoreFeature(s) => t \in StoreRecords
         /\ t \in ProfileEffects(s, {masterTopic}) => t \in StoreRecords
         /\ t \in DisplayEffects(s, {masterScreen}) => t \in StoreRecords
         /\ t \in PeopleFeature(s) => t \in StoreRecords
<1>1. {masterTopic} \in SUBSET Topics /\ {masterScreen} \in SUBSET Screens
  BY RuntimeAssumption
<1>2. ASSUME t \in StoreFeature(s) PROVE t \in StoreRecords
  <2>1. CASE t \in TransferFeature(s) \cup BrowserFeature(s) \cup ResetFeature(s)
    BY <1>1, <2>1, TopicsKept, ReliabilityKept DEF TransferFeature, BrowserFeature, ResetFeature
  <2>2. CASE t \in MeasureFeature(s) \cup AnalyticsFeature(s) \cup LearnFeature(s)
    BY <2>2, PerformanceKept DEF MeasureFeature
  <2>3. CASE t \in TestFeature(s) \cup RemoteFeature(s) \cup AccessFeature(s) \cup AudioFeature(s)
    BY <2>3, OthersKept DEF RemoteFeature, AccessFeature, AudioFeature
  <2> QED BY <1>2, <2>1, <2>2, <2>3 DEF StoreFeature
<1> QED BY <1>1, <1>2, TopicsKept, DisplaysKept, PeopleKept

-----------------------------------------------------------------------------
(* The types of the neural runtime *)

HistoryLimit(h) == Len(h.kept) <= MaxKept /\ h.bookmarks \subseteq Topics

LEMMA NewestAreFew ==
  ASSUME NEW S, NEW s \in Seq(S), NEW n \in Nat \ {0}
  PROVE  Len(NewestOf(s, n)) <= n
<1>1. Len(s) \in Nat
  OBVIOUS
<1>2. CASE Len(s) <= n
  BY <1>2 DEF NewestOf
<1>3. CASE ~(Len(s) <= n)
  <2> DEFINE m == Len(s) - n + 1
  <2>1. m \in 1..Len(s) /\ NewestOf(s, n) = SubSeq(s, m, Len(s)) /\ Len(s) - m + 1 = n
    BY <1>1, <1>3 DEF NewestOf
  <2> HIDE DEF m
  <2>2. Len(SubSeq(s, m, Len(s))) = Len(s) - m + 1
    BY <1>1, <2>1, SubSeqProperties
  <2> QED BY <2>1, <2>2
<1> QED BY <1>2, <1>3

LEMMA SavedAreFew ==
  ASSUME NEW h, NEW r, NEW id \in SnapshotNames,
         DOMAIN h = {"kept", "bookmarks"}, h.kept \in Seq(SnapshotNames), r \in Seq(SnapshotNames),
         NoneTwice(r), Ends(h.kept, r)
  PROVE  Len(SavedSnapshot(h, id).kept) <= MaxKept /\ SavedSnapshot(h, id).bookmarks = h.bookmarks
<1> DEFINE k == AsLast(h.kept, id)
<1>1. k \in Seq(SnapshotNames)
  BY LastEnds
<1> HIDE DEF k
<1>2. MaxKept \in Nat \ {0}
  BY RuntimeAssumption
<1>3. Len(NewestOf(k, MaxKept)) <= MaxKept
  BY <1>1, <1>2, NewestAreFew
<1>4. SavedSnapshot(h, id).kept = NewestOf(k, MaxKept) /\ SavedSnapshot(h, id).bookmarks = h.bookmarks
  BY DEF SavedSnapshot, Kept, k
<1> QED BY <1>3, <1>4

LEMMA SaveKeepsLimit ==
  ASSUME KeptInv, HistoryLimit(history), NEW id \in SnapshotNames, SaveSnapshot(id)
  PROVE  HistoryLimit(history')
<1>1. Len(SavedSnapshot(history, id).kept) <= MaxKept /\ SavedSnapshot(history, id).bookmarks = history.bookmarks
  BY SavedAreFew DEF KeptInv
<1> QED BY <1>1 DEF SaveSnapshot, HistoryLimit

LEMMA PruneKeepsLimit ==
  ASSUME KeptInv, HistoryLimit(history), NEW n \in 1..MaxKept, history' = Pruned(history, n)
  PROVE  HistoryLimit(history')
<1>1. MaxKept \in Nat /\ n \in Nat \ {0} /\ n <= MaxKept /\ history.kept \in Seq(SnapshotNames)
  BY RuntimeAssumption DEF KeptInv
<1>2. Len(NewestOf(history.kept, n)) <= n /\ NewestOf(history.kept, n) \in Seq(SnapshotNames)
  BY <1>1, NewestAreFew, NewestEnds
<1>3. history'.kept = NewestOf(history.kept, n) /\ history'.bookmarks = history.bookmarks
  BY DEF KeptInv, Pruned
<1>4. Len(history'.kept) \in Nat
  BY <1>2, <1>3, LenProperties
<1> QED BY <1>1, <1>2, <1>3, <1>4 DEF HistoryLimit

LEMMA BookmarkKeepsLimit ==
  ASSUME KeptInv, HistoryLimit(history), NEW topic \in Topics, history' = Bookmarked(history, topic)
  PROVE  HistoryLimit(history')
BY DEF KeptInv, Bookmarked, HistoryLimit

LEMMA DryKeepsLimit ==
  ASSUME KeptInv, HistoryLimit(history), NEW good \in BOOLEAN, RunDry(good)
  PROVE  HistoryLimit(history')
<1>1. DryRun(clock) \in SnapshotNames
  BY DEF KeptInv, SnapshotNames
<1> QED BY <1>1, SaveKeepsLimit DEF RunDry

LEMMA HistoryKeepsLimit ==
  ASSUME KeptInv, HistoryLimit(history),
         HistoryCommand \/ HistoryFeature \/ PlanningFeature \/ BeginSmoke
  PROVE  HistoryLimit(history')
<1>1. CASE HistoryCommand
  BY <1>1, SaveKeepsLimit, PruneKeepsLimit, BookmarkKeepsLimit, DryKeepsLimit DEF HistoryCommand, SnapshotNames
<1>2. CASE HistoryFeature
  <2>1. masterTopic \in Topics /\ MaxKept \in 1..MaxKept /\ masterSnapshot \in SnapshotNames
    BY RuntimeAssumption DEF SnapshotNames
  <2> QED BY <1>2, <2>1, SaveKeepsLimit, PruneKeepsLimit, BookmarkKeepsLimit DEF HistoryFeature
<1>3. CASE PlanningFeature
  BY <1>3, DryKeepsLimit DEF PlanningFeature
<1>4. CASE BeginSmoke
  <2> DEFINE h == SavedSnapshot(history, t1)
             r == AsLast(recency, t1)
  <2>1. t1 \in SnapshotNames /\ t2 \in SnapshotNames
    BY DEF SnapshotNames
  <2>2. /\ DOMAIN history = {"kept", "bookmarks"} /\ history.kept \in Seq(SnapshotNames)
        /\ recency \in Seq(SnapshotNames) /\ NoneTwice(recency) /\ Ends(history.kept, recency)
    BY DEF KeptInv
  <2>3. /\ DOMAIN h = {"kept", "bookmarks"} /\ h.kept \in Seq(SnapshotNames) /\ r \in Seq(SnapshotNames)
        /\ NoneTwice(r) /\ Ends(h.kept, r)
    BY <2>1, <2>2, KeptSaved
  <2>4. h.bookmarks = history.bookmarks
    BY <2>1, <2>2, SavedAreFew
  <2>5. history' = SavedSnapshot(h, t2)
    BY <1>4 DEF BeginSmoke
  <2> HIDE DEF h, r
  <2>6. Len(SavedSnapshot(h, t2).kept) <= MaxKept /\ SavedSnapshot(h, t2).bookmarks = h.bookmarks
    BY <2>1, <2>3, SavedAreFew
  <2> QED BY <2>4, <2>5, <2>6 DEF HistoryLimit
<1> QED BY <1>1, <1>2, <1>3, <1>4

RuntimeTypes ==
  /\ Ordinary(workspace) /\ Living(ecology) /\ KeptInv /\ HistoryLimit(history)
  /\ stores \in StoreRecords /\ executed \subseteq Categories /\ smoke \in 0..2

LEMMA RuntimeTypesAre == ASSUME RuntimeTypes PROVE XTypeOK
<1>1. IsWorkspace(workspace) /\ IsStores(stores)
  BY OrdinaryIs, StoresAre DEF RuntimeTypes
<1>2. \A c \in Cells(ecology) : ecology.cells[c] \in CellStates
  BY DEF RuntimeTypes, Living, EcologyOf
<1>3. history.kept \in SeqOf(SnapshotNames, MaxKept)
  <2>1. history.kept \in Seq(SnapshotNames) /\ Len(history.kept) <= MaxKept
    BY DEF RuntimeTypes, KeptInv, HistoryLimit
  <2>2. MaxKept \in Nat
    BY RuntimeAssumption
  <2>3. Len(history.kept) \in 0..MaxKept /\ history.kept \in [1..Len(history.kept) -> SnapshotNames]
    BY <2>1, <2>2, LenProperties
  <2> QED BY <2>3 DEF SeqOf
<1> QED BY <1>1, <1>2, <1>3 DEF RuntimeTypes, KeptInv, HistoryLimit, XTypeOK

LEMMA RuntimeTypesStart == ASSUME XInit PROVE RuntimeTypes
<1>1. Ordinary(workspace)
  <2>1. EmptyWorkspace = workspace /\ \A S : << >> \in Seq(S)
    BY DEF XInit
  <2>2. workspace.surfaces \in [{} -> SurfaceRecords] /\ DOMAIN workspace.surfaces = {}
    <3>1. workspace.surfaces = << >>
      BY <2>1 DEF EmptyWorkspace
    <3>2. << >> \in Seq(SurfaceRecords) /\ Len(<< >>) = 0
      OBVIOUS
    <3>3. << >> \in [1..0 -> SurfaceRecords]
      BY <3>2, LenProperties
    <3>4. 1..0 = {}
      OBVIOUS
    <3> QED BY <3>1, <3>3, <3>4
  <2>3. WorkspaceOf(workspace, {})
    BY <2>1, <2>2 DEF EmptyWorkspace, WorkspaceOf
  <2> QED BY <2>3, DomainIs
<1>2. Living(ecology)
  BY DEF XInit, EmptyEcology, Living, EcologyOf, Cells
<1>3. KeptInv
  <2>1. history = [kept |-> << >>, bookmarks |-> {}] /\ recency = << >> /\ clock = 0 /\ MaxTime \in Nat
    BY RuntimeAssumption DEF XInit
  <2>2. DOMAIN history = {"kept", "bookmarks"} /\ history.kept = << >>
    BY <2>1
  <2>3. << >> \in Seq(SnapshotNames) /\ Len(<< >>) = 0
    OBVIOUS
  <2> QED BY <2>1, <2>2, <2>3 DEF KeptInv, NoneTwice, Ends
<1>4. HistoryLimit(history)
  BY RuntimeAssumption DEF XInit, HistoryLimit
<1> QED BY <1>1, <1>2, <1>3, <1>4, EmptyStoresAre DEF XInit, RuntimeTypes

(* A feature works on its fixtures. *)
LEMMA FeaturesKeepTypes ==
  ASSUME RuntimeTypes, NEW category \in Categories, Feature(category), KeptInv'
  PROVE  /\ Ordinary(workspace') /\ Living(ecology') /\ HistoryLimit(history')
         /\ stores' \in StoreRecords /\ executed' \subseteq Categories
<1> DEFINE e == FixtureCells(ecology)
           w == FixtureSurfaces(workspace)
<1>1. Living(e) /\ Ordinary(w)
  BY CoreLives, FeaturesKeepWorkspace DEF RuntimeTypes
<1> HIDE DEF e, w
<1>2. Living(ecology')
  BY <1>1, CoreLives DEF Feature, e
<1>3. Ordinary(workspace')
  BY <1>1, FeaturesKeepWorkspace DEF Feature, w
<1>4. stores' \in StoreRecords
  BY FeaturesKeepStores DEF Feature, RuntimeTypes
<1>5. HistoryLimit(history')
  BY HistoryKeepsLimit DEF Feature, RuntimeTypes
<1>6. executed' \subseteq Categories
  BY DEF Feature, RuntimeTypes
<1> QED BY <1>2, <1>3, <1>4, <1>5, <1>6

LEMMA RuntimeTypesKept == ASSUME RuntimeTypes, [XNext]_xvars PROVE RuntimeTypes'
<1>1. KeptInv'
  BY RuntimeStep DEF RuntimeTypes
<1> SUFFICES /\ Ordinary(workspace') /\ Living(ecology') /\ HistoryLimit(history')
             /\ stores' \in StoreRecords /\ executed' \subseteq Categories /\ smoke' \in 0..2
  BY <1>1 DEF RuntimeTypes, StoreRecords, Ordinary, WorkspaceOf, SurfaceRecords, Living, EcologyOf, HistoryLimit, Categories
<1>2. CASE WorkspaceCommand /\ UNCHANGED smoke
  BY <1>2, CommandsKeepWorkspace DEF WorkspaceCommand, RuntimeTypes
<1>3. CASE (CoreCommand \/ Observe \/ Tick) /\ UNCHANGED smoke
  <2>1. Living(ecology')
    BY <1>3, CoreLives, CoreCommandsLive DEF CoreCommand, Observe, Tick, RuntimeTypes
  <2>2. stores' \in StoreRecords
    BY <1>3, MeasureKept DEF CoreCommand, Observe, Tick, RuntimeTypes, Kinds3D
  <2> QED BY <1>3, <2>1, <2>2 DEF CoreCommand, Observe, Tick, RuntimeTypes
<1>4. CASE HistoryCommand /\ UNCHANGED smoke
  <2>1. HistoryLimit(history')
    BY <1>4, HistoryKeepsLimit DEF RuntimeTypes
  <2> QED BY <1>4, <2>1 DEF HistoryCommand, RuntimeTypes
<1>5. CASE StoreCommand /\ UNCHANGED smoke
  <2>1. stores' \in StoreRecords
    BY <1>5, StoreCommandKept DEF RuntimeTypes
  <2> QED BY <1>5, <2>1 DEF StoreCommand, RuntimeTypes
<1>6. CASE FeatureCommand /\ smoke' \in 0..2
  BY <1>1, <1>6, FeaturesKeepTypes DEF FeatureCommand
<1>7. CASE BeginSmoke
  <2>1. HistoryLimit(history')
    BY <1>7, HistoryKeepsLimit DEF RuntimeTypes
  <2>2. stores' \in StoreRecords
    BY <1>7, RuntimeAssumption DEF BeginSmoke, RuntimeTypes, StoreRecords, Lit
  <2> QED BY <1>7, <2>1, <2>2 DEF BeginSmoke, RuntimeTypes
<1>8. CASE TimePasses \/ UNCHANGED xvars
  BY <1>8 DEF TimePasses, xvars, RuntimeTypes
<1>9. SmokeStep => FeatureCommand /\ smoke' \in 0..2
  BY DEF SmokeStep, RuntimeTypes
<1>10. FeatureCommand /\ UNCHANGED smoke => smoke' \in 0..2
  BY DEF RuntimeTypes
<1> QED BY <1>2, <1>3, <1>4, <1>5, <1>6, <1>7, <1>8, <1>9, <1>10 DEF XNext, AreaCommand

(* For any surfaces, groups, people, topics and limits the variables of    *)
(* the neural runtime keep their types: the workspace names only what is   *)
(* there, and the history keeps at most MaxKept snapshots.                 *)
THEOREM RuntimeIsTyped == XSpec => []XTypeOK
BY RuntimeTypesStart, RuntimeTypesKept, RuntimeTypesAre, PTL DEF XSpec

-----------------------------------------------------------------------------
(* The types of the other parts *)

LEMMA GatewayBounds ==
  MaxConnects \in Nat /\ \A S \in Machines : S \subseteq {"bundled", "user-local", "system", "npm"}
BY ProvisioningAssumption

LEMMA GatewayTypesKept == ASSUME PTypeOK, [PNext]_pvars PROVE PTypeOK'
<1> USE DEF PTypeOK, To, Has
<1>1. CASE Status \/ UNCHANGED pvars
  BY <1>1 DEF Status, Found, First, pvars
<1>2. CASE WarmedUp
  BY <1>2 DEF WarmedUp
<1>3. ASSUME NEW c \in Ensurers, Connect(c) PROVE PTypeOK'
  <2>1. connects < MaxConnects /\ connects \in 0..MaxConnects
    BY <1>3 DEF Connect
  <2>2. connects + 1 \in 0..MaxConnects
    <3> HIDE DEF PTypeOK, To, Has
    <3> QED BY <2>1, GatewayBounds
  <2> QED BY <1>3, <2>2 DEF Connect
<1>4. ASSUME NEW c \in Ensurers, InstallCommand(c) PROVE PTypeOK'
  BY <1>4 DEF InstallCommand
<1>5. ASSUME NEW c \in Ensurers, Resolve(c) PROVE PTypeOK'
  BY <1>5 DEF Resolve, Found, First
<1>6. ASSUME NEW c \in Ensurers, Probe(c) \/ Spawn(c) \/ Await(c) PROVE PTypeOK'
  BY <1>6 DEF Probe, Spawn, Await
<1>7. ASSUME NEW c \in Ensurers, StartProcess(c) PROVE PTypeOK'
  BY <1>7 DEF StartProcess
<1>8. ASSUME NEW c \in Ensurers, Add(c) \/ Test(c) PROVE PTypeOK'
  BY <1>8 DEF Add, Test, SaysFailed
<1>9. ASSUME NEW g \in Gateways, Serve(g) \/ Crash(g) PROVE PTypeOK'
  BY <1>9 DEF Serve, Crash
<1> QED BY <1>1, <1>2, <1>3, <1>4, <1>5, <1>6, <1>7, <1>8, <1>9 DEF PNext, CallStep

LEMMA GatewayTypesStart == ASSUME PInit PROVE PTypeOK
<1>1. 0 \in 0..MaxConnects
  BY GatewayBounds
<1>2. sources \in Machines
  BY DEF PInit
<1>3. sources \subseteq {"bundled", "user-local", "system", "npm"}
  BY <1>2, GatewayBounds
<1>4. calls \in [Ensurers -> {"idle", "probe", "resolve", "spawn", "start", "wait", "ready", "not ready", "raised", "test", "done"}]
  BY DEF PInit
<1>5. whole \in BOOLEAN
  <2>1. whole = ("user-local" \in sources)
    BY DEF PInit
  <2>2. ("user-local" \in sources) \in BOOLEAN
    OBVIOUS
  <2> QED BY <2>1, <2>2, Zenon
<1>6. gateways \in [Gateways -> {"unused", "starting", "serving", "ended"}]
  BY DEF PInit
<1> QED BY <1>1, <1>3, <1>4, <1>5, <1>6 DEF PInit, PTypeOK

(* For any callers, gateways and machines the variables of the gateway     *)
(* keep their types.                                                       *)
THEOREM GatewayIsTyped == PSpec => []PTypeOK
BY GatewayTypesStart, GatewayTypesKept, PTL DEF PSpec

LEMMA BundleTypesKept == ASSUME BTypeOK, [BNext]_bvars PROVE BTypeOK'
<1> USE DEF BTypeOK, EndsRun
<1>1. CASE RunBuild \/ Accept \/ FetchNode \/ FetchPackage \/ Inspect \/ NameRuntime \/ Abort
  BY <1>1 DEF RunBuild, Accept, FetchNode, FetchPackage, Inspect, NameRuntime, Abort
<1>2. CASE Reject \/ ReplaceRuntime
  BY <1>2 DEF Reject, ReplaceRuntime, Deleted
<1>3. ASSUME NEW S \in SUBSET (Pieces \ {"node"}), InstallPackage(S) PROVE BTypeOK'
  BY <1>3 DEF InstallPackage
<1>4. CASE Repair
  BY <1>4 DEF Repair, Pieces
<1>5. CASE Copy \/ UNCHANGED bvars
  BY <1>5 DEF Copy, bvars
<1> QED BY <1>1, <1>2, <1>3, <1>4, <1>5 DEF BNext

(* The workspace page *)

HydrationRecord == [step : {"none", "asked", "answered"}, target : Tabs]

TabTypes ==
  /\ {tab, keptTab, recalled} \subseteq Tabs \cup {"none"} /\ active \in Tabs
  /\ bridge \in {"absent", "injected", "announced"} /\ clicks \in 0..MaxClicks
  /\ hydration \in [Moments -> HydrationRecord] /\ activations \in Seq(Tabs)

LEMMA PageBounds == Home \in Tabs /\ "none" \notin Tabs /\ PageRows \in Nat /\ MaxClicks \in Nat
BY TabsAssumption

LEMMA TabTypesKept == ASSUME TabTypes, TabStep \/ UNCHANGED tabVars PROVE TabTypes'
<1> USE DEF TabTypes
(* A view that is set. *)
<1>1. ASSUME NEW t \in Tabs, SetView(t) PROVE tab' \in Tabs /\ activations' \in Seq(Tabs)
  BY <1>1 DEF SetView
<1>2. ASSUME NEW moment \in Moments, NEW s \in {"none", "asked", "answered"}, NEW t \in Tabs, Hydrates(moment, s, t)
      PROVE  hydration' \in [Moments -> HydrationRecord]
  BY <1>2 DEF Hydrates, HydrationRecord
<1>3. \A t \in Tabs : Recalled(t) \in Tabs
  BY DEF Recalled
<1>4. CASE LoadTabs
  <2>1. {tab', recalled'} \subseteq Tabs \cup {"none"} /\ activations' \in Seq(Tabs)
    BY <1>1, <1>4, PageBounds DEF LoadTabs
  <2>2. hydration' \in [Moments -> HydrationRecord]
    BY <1>2, <1>4, PageBounds DEF LoadTabs, Moments
  <2> QED BY <1>4, <2>1, <2>2 DEF LoadTabs
<1>5. CASE Inject
  BY <1>5 DEF Inject
<1>6. CASE AnnounceBridge
  <2>1. hydration' \in [Moments -> HydrationRecord]
    BY <1>2, <1>6, PageBounds DEF AnnounceBridge, Moments
  <2> QED BY <1>6, <2>1 DEF AnnounceBridge
<1>7. ASSUME NEW moment \in Moments, AnswerState(moment) PROVE TabTypes'
  <2>1. hydration' \in [Moments -> HydrationRecord]
    BY <1>2, <1>3, <1>7 DEF AnswerState
  <2> QED BY <1>7, <2>1 DEF AnswerState
<1>8. ASSUME NEW moment \in Moments, Hydrated(moment) PROVE TabTypes'
  <2>1. hydration[moment].target \in Tabs
    BY DEF HydrationRecord
  <2>2. hydration' \in [Moments -> HydrationRecord]
    BY <1>2, <1>8, PageBounds DEF Hydrated
  <2>3. tab' \in Tabs /\ activations' \in Seq(Tabs)
    BY <1>1, <1>8, <2>1 DEF Hydrated
  <2> QED BY <1>8, <2>2, <2>3 DEF Hydrated
<1>9. ASSUME NEW t \in Tabs, Click(t) PROVE TabTypes'
  <2>1. tab' \in Tabs /\ activations' \in Seq(Tabs)
    BY <1>1, <1>9 DEF Click
  <2>2. clicks' \in 0..MaxClicks
    BY <1>9, PageBounds DEF Click
  <2> QED BY <1>9, <2>1, <2>2 DEF Click
<1>10. ASSUME NEW i \in DOMAIN activations, Activated(i) PROVE TabTypes'
  <2>1. i \in 1..Len(activations)
    BY <1>10, LenProperties
  <2>2. activations[i] \in Tabs
    BY <2>1, ElementOfSeq
  <2>3. RemoveAt(activations, i) \in Seq(Tabs)
    BY <2>1, RemovedAt
  <2> QED BY <1>10, <2>2, <2>3 DEF Activated
<1>11. CASE UNCHANGED tabVars
  BY <1>11 DEF tabVars
<1> QED BY <1>4, <1>5, <1>6, <1>7, <1>8, <1>9, <1>10, <1>11 DEF TabStep

(* A list for the page. *)
IsList(l) == DOMAIN l \subseteq ActivityIds /\ Cardinality(DOMAIN l) <= PageRows

RefreshRecord(r) ==
  DOMAIN r = {"step", "list"} /\ r.step \in {"idle", "asked", "answered"} /\ IsList(r.list)

RowTypes ==
  /\ IsList(rows) /\ cancelling \subseteq ActivityIds
  /\ DOMAIN refreshing = Refreshes /\ \A p \in Refreshes : RefreshRecord(refreshing[p])

LEMMA NoneIsAList == IsList(<< >>)
<1>1. DOMAIN << >> = {}
  OBVIOUS
<1> QED BY <1>1, FS_EmptySet, PageBounds DEF IsList

LEMMA LeastExists ==
  ASSUME NEW S \in SUBSET Nat, S # {}
  PROVE  \E m \in S : \A s \in S : m <= s
<1>1. PICK m \in S : \A s \in S : ~(<<s, m>> \in OpToRel(<, Nat))
  BY NatLessThanWellFounded, WFMin
<1>2. \A s \in S : ~(s < m)
  BY <1>1 DEF OpToRel
<1> QED BY <1>2

(* The activities listed are as many as are asked for: all but the oldest  *)
(* of them are newer than that one.                                        *)
LEMMA ListedIsAList == ASSUME StoreTypeOK PROVE IsList(Listed)
<1> DEFINE D == DOMAIN records
           newer(i) == {j \in D : j > i}
           S == {j \in D : Cardinality(newer(j)) < PageRows}
<1>1. D \subseteq ActivityIds /\ D \subseteq Nat /\ IsFiniteSet(D)
  <2>1. created \in Nat /\ D \subseteq 1..created /\ 1..created \subseteq ActivityIds
    BY CreatedAssumption DEF StoreTypeOK, ActivityIds
  <2>2. IsFiniteSet(1..created)
    BY <2>1, FS_Interval
  <2> QED BY <2>1, <2>2, FS_Subset
<1>2. DOMAIN Listed = S
  BY DEF Listed
<1>3. Cardinality(S) <= PageRows
  <2>1. CASE S = {}
    <3> HIDE DEF S
    <3>1. Cardinality(S) = 0
      BY <2>1, FS_EmptySet
    <3> QED BY <3>1, PageBounds
  <2>2. CASE S # {}
    <3>1. PICK m \in S : \A j \in S : m <= j
      <4>1. S \subseteq Nat
        BY <1>1
      <4> HIDE DEF S
      <4> QED BY <2>2, <4>1, LeastExists
    <3>2. S \ {m} \subseteq newer(m)
      BY <1>1, <3>1
    <3>3. IsFiniteSet(newer(m)) /\ IsFiniteSet(S)
      BY <1>1, FS_Subset
    <3>4. Cardinality(newer(m)) < PageRows /\ m \in S
      BY <3>1
    <3> HIDE DEF newer, S
    <3>5. Cardinality(S \ {m}) = Cardinality(S) - 1
      BY <3>3, <3>4, FS_RemoveElement
    <3>6. Cardinality(S \ {m}) <= Cardinality(newer(m))
      BY <3>2, <3>3, FS_Subset
    <3>7. Cardinality(S) \in Nat /\ Cardinality(newer(m)) \in Nat
      BY <3>3, FS_CardinalityType
    <3>8. Cardinality(S) - 1 <= Cardinality(newer(m))
      BY <3>5, <3>6
    <3>9. \A a, b, c \in Nat : a - 1 <= b /\ b < c => a <= c
      OBVIOUS
    <3> QED BY <3>4, <3>7, <3>8, <3>9, PageBounds
  <2> QED BY <2>1, <2>2
<1> QED BY <1>1, <1>2, <1>3 DEF IsList

(* The page asks the store and leaves it alone but for a cancellation. *)
LEMMA RowStepRuns == ASSUME RowStep PROVE [RNext]_rvars
BY DEF RowStep, RNext, RefreshStep, PressCancel, DeliverCancel, UserCancels, Known, rvars, store

LEMMA RowTypesKept == ASSUME StoreTypeOK, RowTypes, RowStep \/ UNCHANGED rowVars PROVE RowTypes'
<1> USE DEF RowTypes
<1>1. CASE (\E w \in Workers : (WorkerStep(w) \/ Request(w)) /\ UNCHANGED rowVars) \/ UNCHANGED rowVars
  BY <1>1 DEF rowVars, RefreshRecord
<1>2. ASSUME NEW p \in Refreshes, NEW r, RefreshRecord(r), refreshing' = [refreshing EXCEPT ![p] = r],
             IsList(rows'), UNCHANGED cancelling
      PROVE  RowTypes'
  <2>1. DOMAIN refreshing' = Refreshes /\ \A q \in Refreshes : refreshing'[q] = IF q = p THEN r ELSE refreshing[q]
    BY <1>2
  <2> QED BY <1>2, <2>1 DEF RefreshRecord
<1>3. ASSUME NEW p \in Refreshes, AskRows(p) PROVE RowTypes'
  <2> DEFINE r == [refreshing[p] EXCEPT !.step = "asked"]
  <2>1. RefreshRecord(r)
    BY DEF RefreshRecord
  <2>2. refreshing' = [refreshing EXCEPT ![p] = r]
    BY <1>3 DEF AskRows
  <2> HIDE DEF r
  <2> QED BY <1>2, <1>3, <2>1, <2>2 DEF AskRows
<1>4. ASSUME NEW p \in Refreshes, AnswerRows(p) PROVE RowTypes'
  <2> DEFINE r == [step |-> "answered", list |-> Listed]
  <2>1. RefreshRecord(r)
    BY ListedIsAList DEF RefreshRecord
  <2>2. refreshing' = [refreshing EXCEPT ![p] = r]
    BY <1>4 DEF AnswerRows
  <2> HIDE DEF r
  <2> QED BY <1>2, <1>4, <2>1, <2>2 DEF AnswerRows
<1>5. ASSUME NEW p \in Refreshes, ShowRows(p) PROVE RowTypes'
  <2>1. RefreshRecord(NoRefresh)
    BY NoneIsAList DEF RefreshRecord, NoRefresh
  <2>2. IsList(rows')
    BY <1>5 DEF ShowRows, RefreshRecord
  <2> QED BY <1>2, <1>5, <2>1, <2>2 DEF ShowRows
<1>6. ASSUME NEW id \in DOMAIN rows, PressCancel(id) PROVE RowTypes'
  BY <1>6 DEF PressCancel, IsList, RefreshRecord
<1>7. ASSUME NEW id \in cancelling, DeliverCancel(id) PROVE RowTypes'
  BY <1>7 DEF DeliverCancel, RefreshRecord
<1> QED BY <1>1, <1>3, <1>4, <1>5, <1>6, <1>7 DEF RowStep, RefreshStep

LEMMA PageTypesStart == ASSUME PageInit PROVE TabTypes /\ RowTypes
<1>1. NoHydration \in HydrationRecord
  BY PageBounds DEF NoHydration, HydrationRecord
<1>2. TabTypes
  BY <1>1, PageBounds DEF PageInit, TabTypes
<1>3. RefreshRecord(NoRefresh) /\ IsList(<< >>)
  BY NoneIsAList DEF RefreshRecord, NoRefresh
<1> QED BY <1>2, <1>3 DEF PageInit, RowTypes

LEMMA PageTypesAre == ASSUME TabTypes, RowTypes PROVE PageTypeOK
BY DEF TabTypes, RowTypes, IsList, RefreshRecord, HydrationRecord, PageTypeOK

-----------------------------------------------------------------------------
LEMMA BundleIsTyped == BSpec => []BTypeOK
<1>1. BInit => BTypeOK
  BY DEF BInit, BTypeOK
<1> QED BY <1>1, BundleTypesKept, PTL DEF BSpec

(* The program as a whole: a step of it is a step of one of its parts.     *)
LEMMA ProgramSteps ==
  ASSUME [ProgramNext]_programVars
  PROVE  /\ [RNext]_rvars /\ [FNext]_fvars /\ [HNext]_hvars /\ [UpdateNext]_updateVars
         /\ [PNext]_pvars /\ [BNext]_bvars /\ [XNext]_xvars
         /\ TabStep \/ UNCHANGED tabVars
         /\ RowStep \/ UNCHANGED rowVars
<1> USE DEF wvars, pageVars, desktopVars
<1>1. CASE UNCHANGED programVars
  BY <1>1 DEF programVars
<1>2. CASE WNext /\ UNCHANGED <<pageVars, desktopVars>>
  BY <1>2 DEF WNext, Runs, File
<1>3. CASE TabsStep(TabStep)
  BY <1>3 DEF TabsStep
<1>4. CASE RowsStep(RowStep)
  BY <1>4, RowStepRuns DEF RowsStep
<1>5. CASE DesktopStep(HNext)
  BY <1>5 DEF DesktopStep
<1>6. CASE UpdatesStep(UpdateNext)
  BY <1>6 DEF UpdatesStep
<1>7. CASE GatewayStep(PNext)
  BY <1>7 DEF GatewayStep
<1>8. CASE BundleStep(BNext)
  BY <1>8 DEF BundleStep
<1>9. CASE NeuralStep(XNext)
  BY <1>9 DEF NeuralStep
<1> QED BY <1>1, <1>2, <1>3, <1>4, <1>5, <1>6, <1>7, <1>8, <1>9 DEF ProgramNext

(* The program does what its parts do, so that what is proved of a part    *)
(* is true of the program.                                                 *)
THEOREM ProgramIsItsParts ==
  ProgramSpec => RSpec /\ FSpec /\ HSpec /\ UpdateSpec /\ PSpec /\ BSpec /\ XSpec
<1>1. ProgramInit => RInit /\ FInit /\ HInit /\ UpdateInit /\ PInit /\ BInit /\ XInit
  BY DEF ProgramInit
<1> QED BY <1>1, ProgramSteps, PTL DEF ProgramSpec, RSpec, FSpec, HSpec, UpdateSpec, PSpec, BSpec, XSpec

LEMMA PageIsTyped == ProgramSpec => []PageTypeOK
<1>1. ProgramInit => TabTypes /\ RowTypes
  BY PageTypesStart DEF ProgramInit
<1>2. RTypeOK /\ TabTypes /\ RowTypes /\ [ProgramNext]_programVars => TabTypes' /\ RowTypes'
  BY ProgramSteps, TabTypesKept, RowTypesKept DEF RTypeOK
<1>3. ProgramSpec => []RTypeOK
  BY ProgramIsItsParts, StoreKeepsItsLimit, PTL
<1>4. TabTypes /\ RowTypes => PageTypeOK
  BY PageTypesAre
<1> QED BY <1>1, <1>2, <1>3, <1>4, PTL DEF ProgramSpec

(* The variables of all the parts of the program keep their types, and its *)
(* stores their limits.                                                    *)
THEOREM ProgramIsTyped == ProgramSpec => []ProgramTypeOK
<1>1. RTypeOK /\ WithinCapacity /\ FTypeOK /\ PageTypeOK /\ HTypeOK /\ UpdateTypeOK /\ PTypeOK /\ BTypeOK /\ XTypeOK
      => ProgramTypeOK
  BY DEF ProgramTypeOK, WorkflowsTypeOK
<1> QED BY <1>1, ProgramIsItsParts, PageIsTyped, StoreKeepsItsLimit, FileIsTyped, DesktopIsStopped,
           InstalledIsAlwaysPublished, GatewayIsTyped, BundleIsTyped, RuntimeIsTyped, PTL

=============================================================================
