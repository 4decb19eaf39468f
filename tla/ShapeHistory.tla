---------------------------- MODULE ShapeHistory ----------------------------
(***************************************************************************)
(* NeuralShapeController (neural_shape_controller.py): it gives entities   *)
(* of the neural graph other shapes and makes objects of its own, and      *)
(* notes for each the state before its first change, to restore it.  The   *)
(* world is written when the program ends, the history and the layout of   *)
(* windows (spatial_layout.py) by every call; a write may fail, and the    *)
(* program may die at any step.                                            *)
(***************************************************************************)
EXTENDS NeuralGraph

CONSTANTS
  Windows,      \* those of the found entities whose place is kept
  Shapers,      \* threads that call the controller
  WriteFaults,  \* which of "history" and "layout" may fail to be written
  MaxAsked      \* bound on the calls

ASSUME ShapersAssumption == Windows \subseteq Found /\ WriteFaults \subseteq {"history", "layout"} /\ MaxAsked \in Nat

VARIABLES
  history,      \* _history: what was before the first change
  historyFile,  \* shape-history.json
  windowStates, \* SpatialLayoutStore._states: the shape a window has there
  layoutFile,   \* spatial-layout.json
  shaping,      \* what the call of each thread is doing
  undone,       \* "reverted": since the world was saved; "lost": and the program died
  asked         \* calls so far

cvars == <<history, historyFile, windowStates, layoutFile, shaping, undone, asked>>
shapeVars == <<gvars, cvars>>

NoEntity == [shape |-> "none", visible |-> FALSE]
Places == Shapes \cup {"none"}

IdleCall == [op |-> "idle", step |-> "next", todo |-> {}, id |-> Core, entries |-> <<>>, fits |-> TRUE, done |-> {}]

-----------------------------------------------------------------------------
(* _snapshot_once: the entry, in memory before it is written.              *)

Observed(id, generated) ==
  [entity |-> IF generated \/ ~Exists(id) THEN NoEntity ELSE entities[id],
   place |-> IF generated \/ id \notin Windows THEN "none" ELSE windowStates[id], generated |-> generated]

\* mutant: the state is observed again with every change
ObserveAgain(id, generated) == Over(Single(id, Observed(id, generated)), history)

Observe(id, generated) == Over(history, Single(id, Observed(id, generated)))

(* A write replaces the file as a whole, or raises.                        *)
Outcomes(file) == {TRUE, file \notin WriteFaults}
WriteHistory(written) == historyFile' = IF written THEN history' ELSE historyFile
WriteLayout(written) == layoutFile' = IF written THEN windowStates' ELSE layoutFile

Goes(c, fields) == shaping' = [shaping EXCEPT ![c] = Over(fields, @)]
Calls(c, fields) ==
  /\ shaping[c] = IdleCall /\ asked < MaxAsked /\ asked' = asked + 1
  /\ Goes(c, fields)
  /\ UNCHANGED <<gvars, history, historyFile, windowStates, layoutFile, undone>>

(* create, apply, and apply_to_scope, which passes over what fails.  An    *)
(* identifier is never given twice.                                        *)
Given == DOMAIN entities \cup DOMAIN worldFile.entities \cup DOMAIN history \cup DOMAIN historyFile
CreateObject(c, id) == id \in Made \ Given /\ Calls(c, [op |-> "create", todo |-> {id}])
Brain == DOMAIN entities \ (Made \cup {Core, Subsystem})
ApplyShape(c, ids) == ids \in {{id} : id \in DOMAIN entities} \cup {Brain} /\ Calls(c, [op |-> "apply", todo |-> ids])

TakeSnapshot(c, id) ==
  /\ shaping[c].op \in {"create", "apply"} /\ shaping[c].step = "next" /\ id \in shaping[c].todo
  /\ history' = Observe(id, shaping[c].op = "create")
  /\ \E written \in Outcomes("history") :
       /\ IF id \in DOMAIN history THEN written /\ UNCHANGED historyFile ELSE WriteHistory(written)
       /\ Goes(c, [step |-> IF written THEN "change" ELSE "next", id |-> id, todo |-> shaping[c].todo \ {id}])
  /\ UNCHANGED <<gvars, windowStates, layoutFile, undone, asked>>

(* The world is changed if it has the target still, or has room.           *)
ChangeEntity(c) ==
  LET id == shaping[c].id
      may == IF shaping[c].op = "create" THEN HasPlace(id) ELSE Exists(id)
  IN  /\ shaping[c].step = "change"
      /\ entities' = IF may THEN Upserting(entities, id, [shape |-> "changed"]) ELSE entities
      /\ Goes(c, [step |-> IF may /\ id \in Windows THEN "place" ELSE "next"])
      /\ UNCHANGED <<relations, worldFile, ends, changes, history, historyFile, windowStates, layoutFile, undone, asked>>

PlaceWindow(c) ==
  /\ shaping[c].step = "place"
  /\ windowStates' = [windowStates EXCEPT ![shaping[c].id] = "changed"]
  /\ \E written \in Outcomes("layout") : WriteLayout(written)
  /\ Goes(c, [step |-> "next"])
  /\ UNCHANGED <<gvars, history, historyFile, undone, asked>>

-----------------------------------------------------------------------------
(* revert, revert_all: what is recorded is looked up first, restored entry *)
(* by entry, and what was restored is forgotten.                           *)

Revert(c, ids) ==
  /\ ids # {} /\ ids \in {{id} : id \in DOMAIN history \cap DOMAIN entities} \cup {DOMAIN history}
  /\ Calls(c, [op |-> "revert", todo |-> ids, entries |-> [id \in ids |-> history[id]]])

RestoreEntity(c, id) ==
  LET entry == shaping[c].entries[id]
      fits == entry.generated \/ entry.entity = NoEntity \/ HasPlace(id)
      layoutNext == id \in Windows /\ ~entry.generated
  IN  /\ shaping[c].op = "revert" /\ shaping[c].step = "next" /\ id \in shaping[c].todo
      /\ IF entry.generated
         THEN entities' = Removing(entities, id) /\ relations' = Unrelating(relations, id)
         ELSE /\ entities' = IF fits /\ entry.entity # NoEntity THEN Upserting(entities, id, entry.entity)
                             ELSE entities
              /\ UNCHANGED relations
      /\ undone' = [undone EXCEPT ![id] = IF fits /\ @ = "no" THEN "reverted" ELSE @]
      /\ Goes(c, [step |-> IF layoutNext THEN "layout" ELSE "next", id |-> id, fits |-> fits,
                  todo |-> shaping[c].todo \ {id},
                  done |-> shaping[c].done \cup (IF fits /\ ~layoutNext THEN {id} ELSE {})])
      /\ UNCHANGED <<worldFile, ends, changes, history, historyFile, windowStates, layoutFile, asked>>

(* What is not there need not be removed, and nothing is written then.     *)
RestoreLayout(c) ==
  LET id == shaping[c].id
      place == shaping[c].entries[id].place
      writes == place # "none" \/ windowStates[id] # "none"
  IN  /\ shaping[c].step = "layout"
      /\ windowStates' = [windowStates EXCEPT ![id] = place]
      /\ \E written \in Outcomes("layout") :
           /\ writes \/ written
           /\ IF writes THEN WriteLayout(written) ELSE UNCHANGED layoutFile
           /\ Goes(c, [step |-> "next",
                       done |-> shaping[c].done \cup (IF shaping[c].fits /\ written THEN {id} ELSE {})])
      /\ UNCHANGED <<gvars, history, historyFile, undone, asked>>

(* A create or an apply ends; a revert forgets what it restored.           *)
Forget(c) ==
  /\ shaping[c].op # "idle" /\ shaping[c].step = "next" /\ shaping[c].todo = {}
  /\ history' = [id \in DOMAIN history \ shaping[c].done |-> history[id]]
  /\ \E written \in Outcomes("history") : IF shaping[c].op = "revert" THEN WriteHistory(written) ELSE UNCHANGED historyFile
  /\ shaping' = [shaping EXCEPT ![c] = IdleCall]
  /\ UNCHANGED <<gvars, windowStates, layoutFile, undone, asked>>

ShaperStep(c) ==
  \/ \E id \in Made : CreateObject(c, id)
  \/ \E ids \in SUBSET DOMAIN entities : ApplyShape(c, ids)
  \/ \E ids \in SUBSET DOMAIN history : Revert(c, ids)
  \/ \E id \in shaping[c].todo : TakeSnapshot(c, id) \/ RestoreEntity(c, id)
  \/ ChangeEntity(c) \/ PlaceWindow(c) \/ RestoreLayout(c) \/ Forget(c)

-----------------------------------------------------------------------------
(* Besides the controller: a shape set by the page's own call, a window    *)
(* moved, what discovery finds and retires, and the end of the program.    *)

SetShape(id) ==
  /\ asked < MaxAsked /\ asked' = asked + 1 /\ Exists(id)
  /\ entities' = [entities EXCEPT ![id].shape = "set"]
  /\ IF id \in Windows
     THEN windowStates' = [windowStates EXCEPT ![id] = "set"] /\ \E written \in Outcomes("layout") : WriteLayout(written)
     ELSE UNCHANGED <<windowStates, layoutFile>>
  /\ UNCHANGED <<relations, worldFile, ends, changes, history, historyFile, shaping, undone>>

MoveWindow(w) ==
  /\ asked < MaxAsked /\ asked' = asked + 1
  /\ windowStates' = [windowStates EXCEPT ![w] = IF @ = "none" THEN "own" ELSE @]
  /\ \E written \in Outcomes("layout") : WriteLayout(written)
  /\ UNCHANGED <<gvars, history, historyFile, shaping, undone>>

WorldSaved == SaveWorld /\ undone' = [id \in Nodes |-> IF undone[id] = "reverted" THEN "no" ELSE undone[id]]

FindOrRetire(id) ==
  changes < MaxChanges /\ changes' = changes + 1 /\ (Discover(id) \/ RetireEntity(id))

EndProgram(orderly) ==
  /\ EndWorld(orderly)
  /\ history' = historyFile /\ windowStates' = layoutFile
  /\ undone' = [id \in Nodes |-> IF undone[id] # "reverted" THEN undone[id] ELSE IF orderly THEN "no" ELSE "lost"]
  /\ shaping' = [c \in Shapers |-> IdleCall]
  /\ UNCHANGED <<historyFile, layoutFile, asked>>

ShapeInit ==
  /\ GraphInit
  /\ history = <<>> /\ historyFile = <<>>
  /\ windowStates = [w \in Windows |-> "none"] /\ layoutFile = windowStates
  /\ shaping = [c \in Shapers |-> IdleCall] /\ undone = [id \in Nodes |-> "no"] /\ asked = 0

ShapeNext ==
  \/ \E c \in Shapers : ShaperStep(c)
  \/ \E id \in Nodes : SetShape(id)
  \/ \E w \in Windows : MoveWindow(w)
  \/ \E id \in Found : FindOrRetire(id) /\ UNCHANGED cvars
  \/ WorldSaved /\ UNCHANGED <<history, historyFile, windowStates, layoutFile, shaping, asked>>
  \/ \E orderly \in BOOLEAN : EndProgram(orderly)

ShapeSpec == ShapeInit /\ [][ShapeNext]_shapeVars

-----------------------------------------------------------------------------

IsHistory(h) ==
  /\ DOMAIN h \subseteq Nodes
  /\ \A id \in DOMAIN h : h[id] \in [entity : Entity \cup {NoEntity}, place : Places, generated : BOOLEAN]

ShapesTypeOK ==
  /\ GTypeOK /\ IsHistory(history) /\ IsHistory(historyFile)
  /\ windowStates \in [Windows -> Places] /\ layoutFile \in [Windows -> Places]
  /\ undone \in [Nodes -> {"no", "reverted", "lost"}] /\ asked \in 0..MaxAsked
  /\ \A c \in Shapers :
       /\ shaping[c].op \in {"idle", "create", "apply", "revert"}
       /\ shaping[c].step \in {"next", "change", "place", "layout"}
       /\ shaping[c].todo \subseteq Nodes /\ shaping[c].done \subseteq Nodes

(* "Every mutation records the first observed state of its target"          *)
(* (neural_shape_controller.py:4): what has a changed shape can be reverted, and to *)
(* a state of before the change, whatever failed and whenever the program   *)
(* died.  Only what was reverted comes back changed, and with nothing       *)
(* recorded, when the program dies before it has saved the world.           *)
ChangedIsRevertible ==
  \A id \in DOMAIN entities : undone[id] # "lost" =>
    /\ entities[id].shape = "changed" => id \in DOMAIN history
    /\ id \in DOMAIN history => history[id].entity.shape # "changed"

(* No run checks these, see the README, other disagreements.  The same of   *)
(* the layout: a removal that was not written is not tried again.           *)
LayoutIsRevertible ==
  \A w \in Windows : windowStates[w] = "changed" /\ undone[w] # "lost" => w \in DOMAIN history

(* A reverted shape stays reverted.                                         *)
RevertedStays == \A id \in Nodes : undone[id] # "lost"

=============================================================================
