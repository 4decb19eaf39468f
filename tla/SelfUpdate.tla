----------------------------- MODULE SelfUpdate -----------------------------
(***************************************************************************)
(* The update of the desktop program: AutoUpdateController of              *)
(* src/scripts/jarvis_desktop.py and src/quality_of_life/self_update.py.   *)
(*                                                                         *)
(* A running program asks for the rolling release, downloads its           *)
(* Jarvis.exe, and, when the file has the digest the release named, leaves *)
(* a script behind and ends.  The script waits for the program, moves the  *)
(* file over the installed one, several times if the move fails, and       *)
(* starts it.                                                              *)
(*                                                                         *)
(* All programs that load one commit write the same .download file, which  *)
(* each opens for truncation, checks, and then moves to its place.         *)
(*                                                                         *)
(* The release is published outside of the repository, in two steps: its   *)
(* text names the new commit before its file is replaced.  A version is    *)
(* the number of its commit.  Windows does not replace the file of a       *)
(* program that runs, and neither moves nor deletes one open for writing.  *)
(***************************************************************************)
EXTENDS Naturals, FiniteSets

CONSTANTS
  Slots,       \* bound: the programs and scripts there are at a time
  MaxVersion,  \* bound: the releases
  MaxMoves,    \* how often the script tries to move the file (30 in the code)
  MaxFailures  \* bound: the steps that fail by themselves and the downloads that overlap

ASSUME UpdateBounds == MaxVersion \in Nat \ {0} /\ MaxMoves \in Nat \ {0} /\ MaxFailures \in Nat

VARIABLES
  named,      \* the version the release's text names
  asset,      \* the version of the release's file; 0 while it is replaced
  partial,    \* commit -> what its .download file holds; 0 for none
  staged,     \* commit -> the file left for its update; 0 for none
  installed,  \* what Jarvis.exe is
  programs,   \* slot -> the program that runs there
  scripts,    \* slot -> the script its program left
  failures,   \* what has failed by itself
  shared      \* history: a program opened the .download file another was at

releaseVars == <<named, asset>>
updateVars == <<releaseVars, partial, staged, installed, programs, scripts, failures, shared>>

Versions == 1..MaxVersion

(* A download that ends early, or two that were mixed: a file of no version. *)
Cut == MaxVersion + 1
Files == Versions \cup {Cut}

NoProgram == [version |-> 0, at |-> "none", commit |-> 0, digest |-> 0, file |-> 0, stopping |-> FALSE]
NoScript == [at |-> "none", commit |-> 0, moves |-> 0]

Active(s) == programs[s].at # "none"
Unused(s) == ~Active(s) /\ scripts[s].at = "none"

-----------------------------------------------------------------------------
(* The release. *)

Announce ==
  /\ asset = named /\ named < MaxVersion
  /\ named' = named + 1
  /\ UNCHANGED <<asset, partial, staged, installed, programs, scripts, failures, shared>>

(* The old file is deleted, then the new one is there. *)
ReplaceAsset ==
  /\ asset # named
  /\ asset' = IF asset = 0 THEN named ELSE 0
  /\ UNCHANGED <<named, partial, staged, installed, programs, scripts, failures, shared>>

-----------------------------------------------------------------------------
(* The program. *)

(* Something fails that need not fail. *)
FailsByItself == failures < MaxFailures /\ failures' = failures + 1

Doing(s, at) == Active(s) /\ programs[s].at = at

Becomes(s, p) == programs' = [programs EXCEPT ![s] = p] /\ UNCHANGED releaseVars

FilesRest == UNCHANGED <<staged, installed, scripts>>
NoDownload == UNCHANGED <<partial, failures, shared>>

(* The person starts the program when none runs; a cut file does not start. *)
Open(s) ==
  /\ Unused(s) /\ \A t \in Slots : ~Active(t) /\ installed # Cut
  /\ Becomes(s, [NoProgram EXCEPT !.version = installed, !.at = "waiting"]) /\ FilesRest /\ NoDownload

(* A release without its file is an error; one of the program's commit is no update. *)
Fetch(s) ==
  /\ Doing(s, "waiting") /\ ~programs[s].stopping
  /\ asset # 0 /\ named # programs[s].version
  /\ Becomes(s, [programs[s] EXCEPT !.at = "fetched", !.commit = named, !.digest = asset]) /\ FilesRest /\ NoDownload

(* The other programs at the .download file of this one, and those that have it open. *)
Others(s) ==
  {t \in Slots \ {s} : programs[t].commit = programs[s].commit /\ programs[t].at \in {"loading", "loaded", "checked"}}
HeldOpen(s) == \E t \in Others(s) : programs[t].at = "loading"

Holds(s, f) == partial' = [partial EXCEPT ![programs[s].commit] = f]

(* The release's address answers with what is there now; the file is truncated. *)
Load(s) ==
  /\ Doing(s, "fetched") /\ asset # 0
  /\ IF Others(s) = {} THEN UNCHANGED <<failures, shared>> ELSE FailsByItself /\ shared' = TRUE
  /\ Holds(s, Cut)
  /\ Becomes(s, [programs[s] EXCEPT !.at = "loading", !.file = asset]) /\ FilesRest

(* It arrives whole or cut, or mixed with what another program writes. *)
Receive(s) ==
  /\ Doing(s, "loading")
  /\ \/ Holds(s, programs[s].file) /\ UNCHANGED failures
     \/ Holds(s, Cut) /\ IF Others(s) = {} THEN FailsByItself ELSE UNCHANGED failures
  /\ Becomes(s, [programs[s] EXCEPT !.at = "loaded", !.file = 0]) /\ FilesRest /\ UNCHANGED shared

(* mutant: the digest is not compared *)
CheckAny(s) ==
  /\ Doing(s, "loaded")
  /\ Becomes(s, [programs[s] EXCEPT !.at = "checked"]) /\ FilesRest /\ NoDownload

Check(s) ==
  /\ Doing(s, "loaded") /\ partial[programs[s].commit] = programs[s].digest
  /\ Becomes(s, [programs[s] EXCEPT !.at = "checked"]) /\ FilesRest /\ NoDownload

(* What the file holds by now is left under the name of the commit. *)
Stage(s) ==
  /\ Doing(s, "checked") /\ partial[programs[s].commit] # 0 /\ ~HeldOpen(s)
  /\ staged' = [staged EXCEPT ![programs[s].commit] = partial[programs[s].commit]]
  /\ Holds(s, 0)
  /\ Becomes(s, [programs[s] EXCEPT !.at = "staged"]) /\ UNCHANGED <<installed, scripts, failures, shared>>

(* mutant: the release that was read is tried again *)
KeepsRelease(p) == [p EXCEPT !.at = "fetched", !.file = 0]

Waiting(p) == [p EXCEPT !.at = "waiting", !.commit = 0, !.digest = 0, !.file = 0]

(* A download that cannot be made or moved, or of another digest, is tried *)
(* again later; the .download file is deleted, whoever wrote it.           *)
Refuse(s) ==
  /\ \/ Doing(s, "loaded") /\ partial[programs[s].commit] # programs[s].digest /\ UNCHANGED failures
     \/ Doing(s, "checked") /\ (partial[programs[s].commit] = 0 \/ HeldOpen(s)) /\ UNCHANGED failures
     \/ Doing(s, "fetched") /\ asset = 0 /\ UNCHANGED failures
     \/ (Doing(s, "fetched") \/ Doing(s, "loading")) /\ FailsByItself
  /\ IF HeldOpen(s) THEN UNCHANGED partial ELSE Holds(s, 0)
  /\ Becomes(s, Waiting(programs[s])) /\ FilesRest /\ UNCHANGED shared

(* The script is started and the program ends, also one that is being closed. *)
HandOver(s) ==
  /\ Doing(s, "staged")
  /\ scripts' = [scripts EXCEPT ![s] = [at |-> "waiting", commit |-> programs[s].commit, moves |-> 0]]
  /\ Becomes(s, NoProgram) /\ NoDownload /\ UNCHANGED <<staged, installed>>

(* The script cannot be written or started: the program asks again later. *)
HandOverFails(s) ==
  /\ Doing(s, "staged") /\ FailsByItself
  /\ Becomes(s, Waiting(programs[s])) /\ FilesRest /\ UNCHANGED <<partial, shared>>

Quit(s) ==
  /\ Active(s) /\ ~programs[s].stopping
  /\ Becomes(s, [programs[s] EXCEPT !.stopping = TRUE]) /\ FilesRest /\ NoDownload

(* The stop waits three seconds for a check under way, and ends it with the program. *)
End(s) ==
  /\ Active(s) /\ programs[s].stopping
  /\ Becomes(s, NoProgram) /\ FilesRest /\ NoDownload

-----------------------------------------------------------------------------
(* The script.  Its program is gone, but another may have been opened. *)

CanMove(s) == staged[scripts[s].commit] # 0 /\ \A t \in Slots : ~Active(t)

Move(s) ==
  /\ scripts[s].at = "waiting" /\ CanMove(s)
  /\ installed' = staged[scripts[s].commit]
  /\ staged' = [staged EXCEPT ![scripts[s].commit] = 0]
  /\ scripts' = [scripts EXCEPT ![s].at = "moved"]
  /\ NoDownload /\ UNCHANGED <<releaseVars, programs>>

(* After the last try the script ends and starts nothing. *)
MoveFails(s) ==
  /\ scripts[s].at = "waiting"
  /\ IF CanMove(s) THEN FailsByItself ELSE UNCHANGED failures
  /\ LET moves == scripts[s].moves + 1
     IN  scripts' = [scripts EXCEPT ![s] = IF moves = MaxMoves THEN NoScript ELSE [scripts[s] EXCEPT !.moves = moves]]
  /\ UNCHANGED <<releaseVars, partial, staged, installed, programs, shared>>

(* The new program is started, and what lies under the name is deleted; a  *)
(* cut file does not start, which ends the script.                         *)
StartNew(s) ==
  /\ scripts[s].at = "moved"
  /\ scripts' = [scripts EXCEPT ![s] = NoScript]
  /\ IF installed = Cut
       THEN UNCHANGED <<releaseVars, staged, programs>>
       ELSE /\ staged' = [staged EXCEPT ![scripts[s].commit] = 0]
            /\ Becomes(s, [NoProgram EXCEPT !.version = installed, !.at = "waiting"])
  /\ NoDownload /\ UNCHANGED installed

-----------------------------------------------------------------------------

UpdateStep(s) ==
  Fetch(s) \/ Load(s) \/ Receive(s) \/ Check(s) \/ Stage(s) \/ Refuse(s) \/ HandOver(s) \/ HandOverFails(s)
ScriptStep(s) == Move(s) \/ MoveFails(s) \/ StartNew(s)

UpdateNext ==
  \/ Announce \/ ReplaceAsset
  \/ \E s \in Slots : Open(s) \/ UpdateStep(s) \/ Quit(s) \/ End(s) \/ ScriptStep(s)

UpdateInit ==
  /\ named = 1 /\ asset = 1 /\ installed = 1
  /\ partial = [c \in Versions |-> 0] /\ staged = [c \in Versions |-> 0]
  /\ programs = [s \in Slots |-> NoProgram] /\ scripts = [s \in Slots |-> NoScript]
  /\ failures = 0 /\ shared = FALSE

UpdateSpec == UpdateInit /\ [][UpdateNext]_updateVars

(* The release is completed, a program asks on, and a script runs on. *)
UpdateFairSpec ==
  /\ UpdateSpec /\ WF_updateVars(ReplaceAsset)
  /\ \A s \in Slots : WF_updateVars(UpdateStep(s)) /\ WF_updateVars(End(s)) /\ WF_updateVars(ScriptStep(s))

-----------------------------------------------------------------------------

UpdateTypeOK ==
  /\ named \in Versions /\ asset \in Versions \cup {0} /\ installed \in Files
  /\ partial \in [Versions -> Files \cup {0}] /\ staged \in [Versions -> Files \cup {0}]
  /\ programs \in [Slots -> [version : Versions \cup {0},
                             at : {"none", "waiting", "fetched", "loading", "loaded", "checked", "staged"},
                             commit : Versions \cup {0}, digest : Versions \cup {0}, file : Versions \cup {0},
                             stopping : BOOLEAN]]
  /\ scripts \in [Slots -> [at : {"none", "waiting", "moved"}, commit : Versions \cup {0}, moves : 0..(MaxMoves - 1)]]
  /\ failures \in 0..MaxFailures /\ shared \in BOOLEAN

(* What is installed is a whole file some release had, whatever was cut,   *)
(* replaced under the download or overtaken by another script: unless two  *)
(* programs were at the .download file of one commit, where what the one   *)
(* checked (self_update.py:139) may be truncated and cut by the other      *)
(* before it is moved (141).  No program is then left to start.            *)
InstalledIsPublished == installed \in 1..named \/ (shared /\ installed = Cut)

(* The releases end: a program that stays open is at last the newest.      *)
Settled ==
  named < MaxVersion \/ \A s \in Slots : ~Active(s) \/ programs[s].stopping \/ programs[s].version = MaxVersion
UpdatesSettle == []<>Settled

(* An update never goes back: a script that was slow moves its file after  *)
(* the newer one of a program that was opened meanwhile.                   *)
UpdatesGoForward == [][installed' >= installed]_updateVars

(* A program that was closed does not come back: the check under way does  *)
(* not look whether it is being stopped (jarvis_desktop.py:426).           *)
ClosedStaysClosed == [][\A s \in Slots : HandOver(s) => ~programs[s].stopping]_updateVars

(* A program that hands over is followed by one: not when every move fails *)
(* (JARVIS_SETUP.md:53).                                                   *)
SomethingRuns == \A s \in Slots : scripts[s].at = "waiting" ~> \E t \in Slots : Active(t)

=============================================================================
