---------------------------- MODULE Provisioning ----------------------------
(***************************************************************************)
(* The gateway of the desktop program (OmniRouteProvisioner of             *)
(* src/quality_of_life/omniroute_setup.py) and the provider settings that  *)
(* use it (src/scripts/jarvis_desktop.py).                                 *)
(*                                                                         *)
(* The warm-up at the start and every "connect" of the settings window     *)
(* make sure that the gateway runs: they look whether the port answers,    *)
(* find the command (installing it where nothing else is found), start a   *)
(* process unless theirs still runs, and wait for the port.  Nothing keeps *)
(* two of them apart.  A connect then stores the key and tests it with the *)
(* gateway's own command line, which may fail or run into its time limit.  *)
(*                                                                         *)
(* The gateway is outside of the repository: one process at a time has the *)
(* port, and one that finds it taken ends.                                 *)
(***************************************************************************)
EXTENDS Naturals, FiniteSets

CONSTANTS
  WarmUp,      \* the caller at the program's start
  Windows,     \* the calls of the settings window
  Gateways,    \* bound: the gateway processes
  MaxConnects, \* bound: the connects of the settings window
  Machines     \* what there is to find a command in

ASSUME ProvisioningAssumption ==
  Machines \subseteq SUBSET {"bundled", "user-local", "system", "npm"} /\ MaxConnects \in Nat

VARIABLES
  sources,   \* where a command is found: "bundled", "user-local", "system"; "npm" can install one
  resolved,  \* the command kept (_resolved)
  whole,     \* the installation under the data directory is complete
  gateways,  \* process -> what it does
  kept,      \* the process kept (_process)
  calls,     \* caller -> where it is
  stored,    \* the key of the last connect was stored
  page,      \* what the settings window says
  connects   \* how often it connected

pvars == <<sources, resolved, whole, gateways, kept, calls, stored, page, connects>>

Ensurers == {WarmUp} \cup Windows
NoProcess == "none"
Has(c, at) == calls[c] = at
To(c, at) == calls' = [calls EXCEPT ![c] = at]
Answers == \E g \in Gateways : gateways[g] = "serving"
Alive(g) == g # NoProcess /\ gateways[g] \in {"starting", "serving"}

-----------------------------------------------------------------------------
(* The command: bundled before installed before the system's. *)

First(S) ==
  IF "bundled" \in S THEN "bundled" ELSE IF "user-local" \in S THEN "user-local" ELSE IF "system" \in S THEN "system" ELSE "none"

Found == IF resolved # "none" THEN resolved ELSE First(sources)

(* The settings window's status keeps the command it finds, and installs none. *)
Status ==
  /\ resolved = "none" /\ Found # "none" /\ resolved' = Found
  /\ UNCHANGED <<sources, whole, gateways, kept, calls, stored, page, connects>>

(* An installation that fails, or that runs out of time, may leave a command. *)
InstallCommand(c) ==
  /\ Has(c, "resolve") /\ Found = "none" /\ "npm" \in sources
  /\ \/ sources' = sources \cup {"user-local"} /\ whole' = TRUE /\ resolved' = "user-local" /\ To(c, "spawn")
     \/ UNCHANGED <<sources, whole, resolved>> /\ To(c, "raised")
     \/ sources' = sources \cup {"user-local"} /\ UNCHANGED <<whole, resolved>> /\ To(c, "raised")
  /\ UNCHANGED <<gateways, kept, stored, page, connects>>

Resolve(c) ==
  /\ Has(c, "resolve")
  /\ \/ Found # "none" /\ resolved' = Found /\ To(c, "spawn")
     \/ Found = "none" /\ "npm" \notin sources /\ UNCHANGED resolved /\ To(c, "raised")
  /\ UNCHANGED <<sources, whole, gateways, kept, stored, page, connects>>

-----------------------------------------------------------------------------
(* ensure_running. *)

Connect(c) ==
  /\ c \in Windows /\ Has(c, "idle") /\ connects < MaxConnects
  /\ \A d \in Windows : Has(d, "idle")
  /\ connects' = connects + 1 /\ page' = "connecting" /\ stored' = FALSE /\ To(c, "probe")
  /\ UNCHANGED <<sources, resolved, whole, gateways, kept>>

Probe(c) ==
  /\ Has(c, "probe")
  /\ To(c, IF Answers THEN "ready" ELSE "resolve")
  /\ UNCHANGED <<sources, resolved, whole, gateways, kept, stored, page, connects>>

Spawn(c) ==
  /\ Has(c, "spawn") /\ To(c, IF Alive(kept) THEN "wait" ELSE "start")
  /\ UNCHANGED <<sources, resolved, whole, gateways, kept, stored, page, connects>>

(* A command that cannot be started raises. *)
StartProcess(c) ==
  /\ Has(c, "start")
  /\ \/ \E g \in Gateways :
          /\ gateways[g] = "unused"
          /\ gateways' = [gateways EXCEPT ![g] = "starting"]
          /\ kept' = g /\ To(c, "wait")
     \/ UNCHANGED <<gateways, kept>> /\ To(c, "raised")
  /\ UNCHANGED <<sources, resolved, whole, stored, page, connects>>

(* The port answers, the process ended, or the time is over. *)
Await(c) ==
  /\ Has(c, "wait")
  /\ \/ Answers /\ To(c, "ready")
     \/ ~Answers /\ To(c, "not ready")
  /\ UNCHANGED <<sources, resolved, whole, gateways, kept, stored, page, connects>>

-----------------------------------------------------------------------------
(* The warm-up only logs; a connect stores and tests. *)

WarmedUp ==
  /\ calls[WarmUp] \in {"ready", "not ready", "raised"} /\ To(WarmUp, "done")
  /\ UNCHANGED <<sources, resolved, whole, gateways, kept, stored, page, connects>>

SaysFailed(c) == page' = "failed" /\ To(c, "idle")

(* A key that is refused is not stored; one the time limit cut off may be. *)
Add(c) ==
  /\ c \in Windows
  /\ \/ Has(c, "ready") /\ stored' = TRUE /\ To(c, "test") /\ UNCHANGED page
     \/ Has(c, "ready") /\ stored' \in {stored, TRUE} /\ SaysFailed(c)
     \/ calls[c] \in {"not ready", "raised"} /\ UNCHANGED stored /\ SaysFailed(c)
  /\ UNCHANGED <<sources, resolved, whole, gateways, kept, connects>>

Test(c) ==
  /\ Has(c, "test")
  /\ \/ page' \in {"connected", "saved"} /\ To(c, "idle")
     \/ SaysFailed(c)
  /\ UNCHANGED <<sources, resolved, whole, gateways, kept, stored, connects>>

-----------------------------------------------------------------------------
(* The gateway's processes. *)

Serve(g) ==
  /\ gateways[g] = "starting"
  /\ gateways' = [gateways EXCEPT ![g] = IF Answers THEN "ended" ELSE "serving"]
  /\ UNCHANGED <<sources, resolved, whole, kept, calls, stored, page, connects>>

Crash(g) ==
  /\ gateways[g] \in {"starting", "serving"}
  /\ gateways' = [gateways EXCEPT ![g] = "ended"]
  /\ UNCHANGED <<sources, resolved, whole, kept, calls, stored, page, connects>>

-----------------------------------------------------------------------------

CallStep(c) == InstallCommand(c) \/ Resolve(c) \/ Probe(c) \/ Spawn(c) \/ StartProcess(c) \/ Await(c) \/ Add(c) \/ Test(c)

PNext ==
  \/ Status \/ WarmedUp
  \/ \E c \in Ensurers : Connect(c) \/ CallStep(c)
  \/ \E g \in Gateways : Serve(g) \/ Crash(g)

PInit ==
  /\ sources \in Machines
  /\ resolved = "none" /\ whole = ("user-local" \in sources)
  /\ gateways = [g \in Gateways |-> "unused"] /\ kept = NoProcess
  /\ calls = [c \in Ensurers |-> IF c = WarmUp THEN "probe" ELSE "idle"]
  /\ stored = FALSE /\ page = "" /\ connects = 0

PSpec == PInit /\ [][PNext]_pvars

(* A call goes on; its subprocesses have time limits, the gateway has none. *)
PFairSpec == PSpec /\ \A c \in Ensurers : WF_pvars(CallStep(c))

-----------------------------------------------------------------------------

PTypeOK ==
  /\ sources \subseteq {"bundled", "user-local", "system", "npm"}
  /\ resolved \in {"none", "bundled", "user-local", "system"} /\ whole \in BOOLEAN
  /\ gateways \in [Gateways -> {"unused", "starting", "serving", "ended"}]
  /\ kept \in Gateways \cup {NoProcess}
  /\ calls \in [Ensurers -> {"idle", "probe", "resolve", "spawn", "start", "wait", "ready", "not ready", "raised", "test", "done"}]
  /\ stored \in BOOLEAN /\ page \in {"", "connecting", "connected", "saved", "failed"}
  /\ connects \in 0..MaxConnects

(* Whatever the gateway does, the settings window gets its answer.         *)
ConnectIsAnswered == page = "connecting" ~> page # "connecting"

(* A window that says that the setup failed has stored nothing: the test   *)
(* that runs out of time after the key was stored says so too              *)
(* (jarvis_desktop.py:1055).                                               *)
FailedIsNotStored == page = "failed" => ~stored

(* One process at a time was started and runs: two callers that find none  *)
(* each start one (omniroute_setup.py:329).                                *)
OneProcess == Cardinality({g \in Gateways : gateways[g] \in {"starting", "serving"}}) <= 1

(* The command that is kept was installed to its end: one an installation *)
(* that was cut off left behind is found by the next call                  *)
(* (omniroute_setup.py:245).                                               *)
ResolvedIsWhole == resolved = "user-local" => whole

=============================================================================
