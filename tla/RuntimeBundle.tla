--------------------------- MODULE RuntimeBundle ---------------------------
(***************************************************************************)
(* The build of the gateway's runtime that is shipped with the program     *)
(* (src/scripts/prepare_omniroute_runtime.py).                             *)
(*                                                                         *)
(* A run that finds a runtime with the right manifest, in which the pieces *)
(* it looks at work, accepts it.  Any other is deleted, and a new one is   *)
(* downloaded, installed and inspected elsewhere, copied, and given its    *)
(* manifest last.  A run may raise or be killed at any step; the next one  *)
(* starts with what it left.                                               *)
(***************************************************************************)
EXTENDS FiniteSets

CONSTANT BundleFaults
(* "silent": a piece that works does not show it in time; "part_delete": a *)
(* deletion leaves a part.                                                 *)

VARIABLES
  step,      \* where the run is
  shipping,  \* the pieces at the destination
  manifest,  \* the destination has the manifest of this version
  staging,   \* the pieces in the temporary directory
  accepted   \* the pieces of the last run that ended well; all of them before

bvars == <<step, shipping, manifest, staging, accepted>>

Pieces == {"node", "entry", "native", "server"}

(* What the check of a runtime that is there looks at. *)
Inspected == {"node", "entry", "native"}

Fault(f) == f \in BundleFaults
EndsRun == step' = "idle"

(* What a deletion leaves of the pieces and of the manifest. *)
Deleted ==
  \/ shipping' = {} /\ manifest' = FALSE
  \/ Fault("part_delete") /\ shipping' \in SUBSET shipping /\ manifest' \in {FALSE, manifest}

-----------------------------------------------------------------------------

RunBuild ==
  /\ step = "idle"
  /\ step' = IF manifest /\ {"node", "entry"} \subseteq shipping THEN "check" ELSE "node"
  /\ UNCHANGED <<shipping, manifest, staging, accepted>>

Accept ==
  /\ step = "check" /\ Inspected \subseteq shipping
  /\ accepted' = shipping /\ EndsRun
  /\ UNCHANGED <<shipping, manifest, staging>>

(* Errors of this deletion are ignored. *)
Reject ==
  /\ step = "check" /\ (Inspected \subseteq shipping => Fault("silent"))
  /\ Deleted /\ step' = "node"
  /\ UNCHANGED <<staging, accepted>>

(* The archive has the pinned checksum and holds node and npm. *)
FetchNode ==
  /\ step = "node" /\ step' = "package"
  /\ UNCHANGED <<shipping, manifest, staging, accepted>>

(* The registry names the pinned version and commit, and the tarball has its digest. *)
FetchPackage ==
  /\ step = "package" /\ step' = "install" /\ staging' = {}
  /\ UNCHANGED <<shipping, manifest, accepted>>

(* npm installs the package and its dependencies, or parts of them. *)
InstallPackage(S) ==
  /\ step = "install" /\ staging' = S /\ step' = "repair"
  /\ UNCHANGED <<shipping, manifest, accepted>>

(* node and the native binary are put where the gateway looks for them. *)
Repair ==
  /\ step = "repair" /\ "native" \in staging
  /\ staging' = staging \cup {"node"} /\ step' = "inspect"
  /\ UNCHANGED <<shipping, manifest, accepted>>

Inspect ==
  /\ step = "inspect" /\ Pieces \subseteq staging
  /\ step' = "replace"
  /\ UNCHANGED <<shipping, manifest, staging, accepted>>

(* mutant: the manifest is written before the copy *)
ReplaceNamed ==
  /\ step = "replace" /\ shipping' = {} /\ manifest' = TRUE /\ step' = "copy"
  /\ UNCHANGED <<staging, accepted>>

(* This deletion raises when it leaves something. *)
ReplaceRuntime ==
  /\ step = "replace" /\ Deleted
  /\ step' = IF shipping' = {} /\ ~manifest' THEN "copy" ELSE "idle"
  /\ UNCHANGED <<staging, accepted>>

(* One piece after the other. *)
Copy ==
  /\ step = "copy"
  /\ \E p \in staging \ shipping : shipping' = shipping \cup {p}
  /\ UNCHANGED <<step, manifest, staging, accepted>>

NameRuntime ==
  /\ step = "copy" /\ shipping = staging
  /\ manifest' = TRUE /\ accepted' = shipping /\ EndsRun
  /\ UNCHANGED <<shipping, staging>>

(* Raised or killed. *)
Abort ==
  /\ step # "idle" /\ EndsRun
  /\ UNCHANGED <<shipping, manifest, staging, accepted>>

-----------------------------------------------------------------------------

BNext ==
  \/ RunBuild \/ Accept \/ Reject \/ FetchNode \/ FetchPackage
  \/ \E S \in SUBSET (Pieces \ {"node"}) : InstallPackage(S)
  \/ Repair \/ Inspect \/ ReplaceRuntime \/ Copy \/ NameRuntime \/ Abort

BInit ==
  /\ step = "idle" /\ shipping = {} /\ manifest = FALSE /\ staging = {} /\ accepted = Pieces

BSpec == BInit /\ [][BNext]_bvars

-----------------------------------------------------------------------------

BTypeOK ==
  /\ step \in {"idle", "check", "node", "package", "install", "repair", "inspect", "replace", "copy"}
  /\ shipping \subseteq Pieces /\ manifest \in BOOLEAN /\ staging \subseteq Pieces /\ accepted \subseteq Pieces

(* A run that ends well leaves a whole runtime, whatever the runs before   *)
(* it left: the check of one that is there does not look at the server, so *)
(* only the order of the copy and the manifest makes it whole.  A deletion *)
(* that leaves a part breaks it (prepare_omniroute_runtime.py:137).        *)
AcceptedIsWhole == accepted = Pieces

=============================================================================
