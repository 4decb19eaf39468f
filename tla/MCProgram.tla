----------------------------- MODULE MCProgram -----------------------------
(***************************************************************************)
(* The workflows, the desktop program, its update, its gateway, the build  *)
(* of the gateway's runtime and the neural runtime share no variable: a    *)
(* behaviour of this module is one of one of them, chosen at the start.    *)
(* The requests go on without the workspace page, or one with its list.    *)
(***************************************************************************)
EXTENDS MCWorkflows, WorkspacePage, DesktopHost, SelfUpdate, Provisioning, RuntimeBundle, NeuralRuntime

CONSTANTS m1, m2      \* the fixture surfaces
FixtureOrder == <<m1, m2>>
CommandBounds == [workspace |-> 4, core |-> 4, history |-> 5, stores |-> 2, features |-> 2, smoke |-> 3]

desktopVars == <<hvars, updateVars, pvars, bvars, xvars>>
pageVars == <<tabVars, rowVars>>
programVars == <<wvars, pageVars, desktopVars>>

(* What is chosen for the part that rests does not matter. *)
ProgramInit ==
  /\ RInit /\ FInit /\ PageInit /\ HInit /\ UpdateInit /\ PInit /\ BInit /\ XInit
  /\ focus \in {"runs", "file", "tabs", "rows", "desktop", "update", "gateway", "bundle", "neural"}
  /\ focus # "tabs" => keptTab = "none"
  /\ focus # "gateway" => sources = {}
  /\ focus # "neural" => area = "core"

DesktopStep(A) == focus = "desktop" /\ A /\ UNCHANGED <<wvars, pageVars, updateVars, pvars, bvars, xvars>>
UpdatesStep(A) == focus = "update" /\ A /\ UNCHANGED <<wvars, pageVars, hvars, pvars, bvars, xvars>>
GatewayStep(A) == focus = "gateway" /\ A /\ UNCHANGED <<wvars, pageVars, hvars, updateVars, bvars, xvars>>
BundleStep(A) == focus = "bundle" /\ A /\ UNCHANGED <<wvars, pageVars, hvars, updateVars, pvars, xvars>>
NeuralStep(A) == focus = "neural" /\ A /\ UNCHANGED <<wvars, pageVars, hvars, updateVars, pvars, bvars>>
TabsStep(A) == focus = "tabs" /\ A /\ UNCHANGED <<wvars, rowVars, desktopVars>>

(* With the page, one thread runs two unconfirmed workflows.               *)
RowsStep(A) ==
  /\ focus = "rows" /\ A /\ created' <= 2
  /\ \A w \in Workers : run'[w].pc # "coding" /\ ~run'[w].confirmed
  /\ \A w \in Workers \ {CHOOSE x \in Workers : TRUE} : run'[w].pc = "idle"
  /\ UNCHANGED <<fvars, focus, tabVars, desktopVars>>

ProgramNext ==
  \/ WNext /\ UNCHANGED <<pageVars, desktopVars>>
  \/ TabsStep(TabStep) \/ RowsStep(RowStep)
  \/ DesktopStep(HNext) \/ UpdatesStep(UpdateNext) \/ GatewayStep(PNext) \/ BundleStep(BNext)
  \/ NeuralStep(XNext)

ProgramSpec == ProgramInit /\ [][ProgramNext]_programVars

(* The fairness of RFairSpec, HFairSpec, UpdateFairSpec and PFairSpec; and *)
(* the list is refreshed every 1.5 seconds, and refreshes are answered.    *)
ProgramFairSpec ==
  /\ ProgramSpec
  /\ \A w \in Workers : WF_programVars(WorkerRuns(w) /\ UNCHANGED <<pageVars, desktopVars>>)
  /\ \A p \in Refreshes : WF_programVars(RowsStep(RefreshStep(p) /\ UNCHANGED cancelling))
  /\ WF_programVars(DesktopStep(MainStep)) /\ WF_programVars(DesktopStep(ToggleEnds))
  /\ WF_programVars(UpdatesStep(ReplaceAsset))
  /\ \A s \in Slots :
       /\ WF_programVars(UpdatesStep(UpdateStep(s))) /\ WF_programVars(UpdatesStep(End(s)))
       /\ WF_programVars(UpdatesStep(ScriptStep(s)))
  /\ \A c \in Ensurers : WF_programVars(GatewayStep(CallStep(c)))

(* What was begun ends: a request that runs a workflow or codes (the       *)
(* workers are alike), a change that the page has to show (RowsAreOld),    *)
(* the stop of a program whose window loop was left (LeftLoopEnds), the    *)
(* call of the settings window (ConnectIsAnswered) and the updates up to   *)
(* the newest release (UpdatesSettle).                                     *)
Begun ==
  \/ focus = "runs" /\ run[CHOOSE w \in Workers : TRUE].pc # "idle"
  \/ focus = "rows" /\ RowsAreOld
  \/ focus = "desktop" /\ at \in Stops
  \/ focus = "gateway" /\ page = "connecting"
  \/ focus = "update" /\ ~Settled
WhatIsBegunEnds == Begun ~> ~Begun

(* The types of all, and the store's limit of WorkflowsTypeOK. *)
ProgramTypeOK == WorkflowsTypeOK /\ PageTypeOK /\ HTypeOK /\ UpdateTypeOK /\ PTypeOK /\ BTypeOK /\ XTypeOK

=============================================================================
