---------------------------- MODULE MCServices ----------------------------
(***************************************************************************)
(* The UI builds, the model router and the accounts share no variable: a   *)
(* behaviour of this module is one of one of them, chosen at the start.    *)
(***************************************************************************)
EXTENDS UiBuilds, ModelRouter, Accounts

CONSTANTS Focuses, local, cloud

VARIABLE focus

svars == <<uvars, mvars, avars, focus>>

LocalThenCloud == <<local, cloud>>
All == {"builds", "models", "accounts"}

(* What is chosen for the part that rests does not matter. *)
SInit ==
  /\ UInit /\ MInit /\ AInit /\ focus \in Focuses
  /\ focus # "builds" => tears = CHOOSE x \in DiskFails : TRUE
  /\ focus # "models" => haveKeys = CHOOSE x \in KeyChoices : TRUE

BuildsStep(A) == focus = "builds" /\ A /\ UNCHANGED <<mvars, avars, focus>>
ModelsStep(A) == focus = "models" /\ A /\ UNCHANGED <<uvars, avars, focus>>
AccountsStep(A) == focus = "accounts" /\ A /\ UNCHANGED <<uvars, mvars, focus>>

SSpec == SInit /\ [][BuildsStep(UNext) \/ ModelsStep(MNext) \/ AccountsStep(ANext)]_svars

(* The fairness of MFairSpec. *)
SFairSpec == SSpec /\ \A w \in Workers : WF_svars(ModelsStep(WorkerStep(w)))

(* The batch ends, in the behaviours that are about the router. *)
EveryBatchEnds == focus = "models" => BatchEnds

(* The type invariants. *)
ServicesTypeOK == UTypeOK /\ MTypeOK /\ ATypeOK

=============================================================================
