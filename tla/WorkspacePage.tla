---------------------------- MODULE WorkspacePage ----------------------------
(***************************************************************************)
(* The workspace page (workspace_ui.py): the tabs, which the page keeps in *)
(* its local storage and tells the bridge of, and the list of activities,  *)
(* which it polls and may cancel, while the requests of WorkflowRuns go    *)
(* on.  No call of the page waits for another one: answers and effects     *)
(* come in any order.                                                      *)
(***************************************************************************)
EXTENDS WorkflowRuns, SequencesExt

CONSTANTS
  Tabs, Home,   \* the workspaces and the first of them
  PageRows,     \* rows the page asks for (8)
  Refreshes,    \* refreshes of the list that may be under way at once
  MaxClicks     \* bound on the clicks on tabs

ASSUME TabsAssumption == Home \in Tabs /\ "none" \notin Tabs /\ {PageRows, MaxClicks} \subseteq Nat

VARIABLES
  tab,          \* the view that is active
  keptTab,      \* "jarvis.activeWorkspace" of the local storage
  recalled,     \* storedWorkspace: what was kept when the script began
  bridge,       \* window.pywebview.api: "absent", "injected", "announced"
  hydration,    \* the hydrateWorkspace of the load, and that of "pywebviewready"
  active,       \* WorkspaceState.active, in the program
  activations,  \* activate_workspace calls under way
  clicks,       \* clicks on tabs so far
  rows,         \* the list on the page: the status of each shown activity
  refreshing,   \* what each refreshActivity waits for
  cancelling    \* activity_cancel calls under way

tabVars == <<tab, keptTab, recalled, bridge, hydration, active, activations, clicks>>
rowVars == <<rows, refreshing, cancelling>>
workspaceVars == <<rvars, tabVars, rowVars>>

Moments == {"load", "ready"}
NoHydration == [step |-> "none", target |-> Home]
NoRefresh == [step |-> "idle", list |-> << >>]

-----------------------------------------------------------------------------
(* Tabs *)

(* setView; only a click is kept. *)
SetView(t) ==
  /\ tab' = t
  /\ activations' = IF bridge = "absent" THEN activations ELSE Append(activations, t)

Hydrates(moment, step, target) ==
  hydration' = [hydration EXCEPT ![moment] = [step |-> step, target |-> target]]

(* The script is evaluated: what was kept is read once; without a bridge   *)
(* the view is set at once.                                                *)
Recalled(default) == IF recalled = "none" THEN default ELSE recalled
LoadTabs ==
  /\ tab = "none" /\ recalled' = keptTab
  /\ IF bridge = "absent"
     THEN SetView(IF keptTab = "none" THEN Home ELSE keptTab) /\ UNCHANGED hydration
     ELSE tab' = Home /\ Hydrates("load", "asked", Home) /\ UNCHANGED activations
  /\ UNCHANGED <<keptTab, bridge, active, clicks>>

(* pywebview injects its api, and announces it later: without a listener   *)
(* the announcement is lost.                                               *)
Inject ==
  /\ bridge = "absent" /\ bridge' = "injected"
  /\ UNCHANGED <<tab, keptTab, recalled, hydration, active, activations, clicks>>
AnnounceBridge ==
  /\ bridge = "injected" /\ bridge' = "announced"
  /\ IF tab = "none" THEN UNCHANGED hydration ELSE Hydrates("ready", "asked", Home)
  /\ UNCHANGED <<tab, keptTab, recalled, active, activations, clicks>>

(* workspace_state is read by one thread and its answer taken by another.  *)
AnswerState(moment) ==
  /\ hydration[moment].step = "asked" /\ Hydrates(moment, "answered", Recalled(active))
  /\ UNCHANGED <<tab, keptTab, recalled, bridge, active, activations, clicks>>
Hydrated(moment) ==
  /\ hydration[moment].step = "answered"
  /\ SetView(hydration[moment].target) /\ Hydrates(moment, "none", Home)
  /\ UNCHANGED <<keptTab, recalled, bridge, active, clicks>>

Click(t) ==
  /\ tab # "none" /\ clicks < MaxClicks /\ clicks' = clicks + 1
  /\ SetView(t) /\ keptTab' = t
  /\ UNCHANGED <<recalled, bridge, hydration, active>>

(* WorkspaceBridge.activate, in the order the threads come to it. *)
Activated(i) ==
  /\ active' = activations[i] /\ activations' = RemoveAt(activations, i)
  /\ UNCHANGED <<tab, keptTab, recalled, bridge, hydration, clicks>>

TabStep ==
  \/ LoadTabs \/ Inject \/ AnnounceBridge
  \/ \E moment \in Moments : AnswerState(moment) \/ Hydrated(moment)
  \/ \E t \in Tabs : Click(t)
  \/ \E i \in DOMAIN activations : Activated(i)

-----------------------------------------------------------------------------
(* Activities *)

(* activity_snapshot: the newest records. *)
Listed ==
  LET newer(i) == {j \in DOMAIN records : j > i}
  IN  [i \in {j \in DOMAIN records : Cardinality(newer(j)) < PageRows} |-> records[i].status]

AskRows(p) ==
  /\ refreshing[p].step = "idle" /\ refreshing' = [refreshing EXCEPT ![p].step = "asked"]
  /\ UNCHANGED <<rows, cancelling>>
AnswerRows(p) ==
  /\ refreshing[p].step = "asked"
  /\ refreshing' = [refreshing EXCEPT ![p] = [step |-> "answered", list |-> Listed]]
  /\ UNCHANGED <<rows, cancelling>>
ShowRows(p) ==
  /\ refreshing[p].step = "answered" /\ rows' = refreshing[p].list
  /\ refreshing' = [refreshing EXCEPT ![p] = NoRefresh]
  /\ UNCHANGED cancelling

RefreshStep(p) == (AskRows(p) \/ AnswerRows(p) \/ ShowRows(p)) /\ UNCHANGED rvars

(* The button is there while the activity is shown as live; the list is    *)
(* refreshed after the answer, as it is anyway.                            *)
PressCancel(id) ==
  /\ rows[id] \in Live /\ cancelling' = cancelling \cup {id}
  /\ UNCHANGED <<rvars, rows, refreshing>>

(* It may have ended by then, or be forgotten: request_cancel raises.      *)
DeliverCancel(id) ==
  /\ IF Known(id) /\ records[id].status \in Live THEN RequestCancel(id) ELSE UNCHANGED store
  /\ cancelling' = cancelling \ {id}
  /\ UNCHANGED <<run, refused, rows, refreshing>>

RowStep ==
  \/ \E w \in Workers : (WorkerStep(w) \/ Request(w)) /\ UNCHANGED rowVars
  \/ \E p \in Refreshes : RefreshStep(p)
  \/ \E id \in DOMAIN rows : PressCancel(id)
  \/ \E id \in cancelling : DeliverCancel(id)

-----------------------------------------------------------------------------
PageInit ==
  /\ keptTab \in {"none", Home} \cup Tabs /\ tab = "none" /\ recalled = "none" /\ bridge = "absent"
  /\ hydration = [m \in Moments |-> NoHydration] /\ active = Home /\ activations = << >> /\ clicks = 0
  /\ rows = << >> /\ refreshing = [p \in Refreshes |-> NoRefresh] /\ cancelling = {}

PageTypeOK ==
  /\ {tab, keptTab, recalled} \subseteq Tabs \cup {"none"} /\ active \in Tabs
  /\ bridge \in {"absent", "injected", "announced"} /\ clicks \in 0..MaxClicks
  /\ hydration \in [Moments -> [step : {"none", "asked", "answered"}, target : Tabs]]
  /\ activations \in Seq(Tabs)
  /\ DOMAIN rows \subseteq ActivityIds /\ cancelling \subseteq ActivityIds
  /\ Cardinality(DOMAIN rows) <= PageRows
  /\ \A p \in Refreshes : refreshing[p].step \in {"idle", "asked", "answered"}

(* The page shows what has become of the activities, whatever order its    *)
(* refreshes are answered in: what differs is put right.                   *)
RowsAreOld == rows # Listed

(* No run checks these, see the README, other disagreements.  The tab that *)
(* was chosen stays; the program knows the tab that is shown; what the     *)
(* person cancelled ends.                                                  *)
ChosenStays == clicks > 0 => tab = keptTab
ProgramKnowsTab ==
  tab # "none" /\ activations = << >> /\ hydration = [m \in Moments |-> NoHydration]
  /\ bridge = "announced" => active = tab
CancelledEnds ==
  \A id \in ActivityIds :
    (Known(id) /\ records[id].cancel) ~> ~(Known(id) /\ records[id].status \in Live)

=============================================================================
