------------------------------ MODULE MCWorld ------------------------------
(***************************************************************************)
(* The neural world, its graph and the history of its shapes, the dispatch *)
(* of a request, the task it shows and the feed of events, the streaming,  *)
(* the stores of the experience, and the phones: a behaviour of this       *)
(* module is one of one of them, or of one store, chosen at the start.     *)
(* The graph is one component with and without the shapes, the tasks are   *)
(* one with and without the page, and so are the phones with their         *)
(* mirrors, their notifications or their commands; the others share no     *)
(* variable.                                                               *)
(***************************************************************************)
EXTENDS NeuralWorld, Dispatch, Streaming, Experiences, ShapeHistory, TaskFeed, Devices

CONSTANTS look, write, post, shape, route, behind, Focuses

VARIABLE focus

wvars == <<nvars, dvars, tvars, evars, shapeVars, feedVars, deviceVars, focus>>

Stores == {"users", "history", "displays", "optimize", "surfaces", "organism", "worlds", "audio", "records"}
Phoning == {"screens", "companion", "commands"}
All == Stores \cup {"neurons", "restarts", "request", "streaming", "graph", "shapes", "tasks", "feed", "watch"} \cup Phoning
RegisteredOperations == {look, write, shape, route, control, selfCoding}
GuardedOperations == {write, post, behind, control, selfCoding}

(* What is chosen for the part that rests does not matter.  What is not   *)
(* allowed fails, and so may what is: all is allowed, or nothing, or all   *)
(* but one capability: writing, and what is done behind a routed operation. *)
WInit ==
  /\ NInit /\ DInit /\ TInit /\ EInit /\ ShapeInit /\ FeedInit /\ DevicesInit /\ focus \in Focuses
  /\ alive = {}
  /\ focus # "request" => text = (CHOOSE t \in Texts : TRUE) /\ policy = [allowed |-> {}, hook |-> FALSE]
  /\ focus = "request" => policy.allowed \in {Capabilities, Capabilities \ {write, behind}, {}}
  /\ focus \notin Phoning => plugged = Absent
  /\ focus # "streaming" => flavour = CHOOSE f \in Flavours : TRUE

(* Things that come and go while the program runs, or one while it is      *)
(* started again.                                                          *)
Neurons == {"neurons", "restarts"}
NeuronsStep(A) ==
  /\ focus \in Neurons /\ A
  /\ focus = "neurons" => UNCHANGED restarts
  /\ focus = "restarts" => alive' \subseteq {CHOOSE t \in Things : TRUE}
  /\ UNCHANGED <<dvars, tvars, evars, shapeVars, feedVars, deviceVars, focus>>
RequestStep(A) == focus = "request" /\ A /\ UNCHANGED <<nvars, tvars, evars, shapeVars, feedVars, deviceVars, focus>>
StreamingStep(A) == focus = "streaming" /\ A /\ UNCHANGED <<nvars, dvars, evars, shapeVars, feedVars, deviceVars, focus>>
StoreStep(part, A) == focus = part /\ A /\ UNCHANGED <<nvars, dvars, tvars, shapeVars, feedVars, deviceVars, focus>>
GraphStep(A) == focus = "graph" /\ A /\ UNCHANGED <<nvars, dvars, tvars, evars, cvars, feedVars, deviceVars, focus>>

(* With the shapes less is discovered.                                     *)
ShapesStep(A) ==
  focus = "shapes" /\ A /\ changes' <= 1 /\ UNCHANGED <<nvars, dvars, tvars, evars, feedVars, deviceVars, focus>>

(* Many requests without the page, or one request with it.                 *)
FeedStep(parts, A) == focus \in parts /\ A /\ UNCHANGED <<nvars, dvars, tvars, evars, shapeVars, deviceVars, focus>>
DeviceStep(parts, A) == focus \in parts /\ A /\ UNCHANGED <<nvars, dvars, tvars, evars, shapeVars, feedVars, focus>>
OneRequest ==
  LET c == CHOOSE x \in Callers : TRUE
      t == CHOOSE x \in TaskIds : TRUE
  IN  c \in Callers /\ RequestStage(c) /\ \A u \in TaskIds \ {t} : taskNode'[u] = "none"

WNext ==
  \/ NeuronsStep(NNext) \/ RequestStep(DNext) \/ StreamingStep(TNext)
  \/ GraphStep(GraphNext) \/ ShapesStep(ShapeNext)
  \/ FeedStep({"tasks"}, \E c \in Callers : RequestStage(c) /\ UNCHANGED pageVars)
  \/ FeedStep({"feed", "watch"}, (OneRequest /\ UNCHANGED pageVars) \/ Freeze)
  \/ \E p \in EventPolls : FeedStep({"feed"}, PollFeed(p))
  \/ \E p \in WatchPolls : FeedStep({"watch"}, PollFeed(p))
  \/ DeviceStep(Phoning, Outside)
  \/ \E o \in Operators :
       \/ DeviceStep({"screens"}, RegistryStep(o) \/ ScreenStep(o))
       \/ DeviceStep({"companion"}, CompanionStep(o)) \/ DeviceStep({"commands"}, CommandStep(o))
  \/ StoreStep("users", UserStep) \/ StoreStep("history", HistoryStep) \/ StoreStep("displays", DisplayStep)
  \/ StoreStep("optimize", OptimizeStep) \/ StoreStep("surfaces", SurfaceStep)
  \/ StoreStep("organism", OrganismStep) \/ StoreStep("worlds", WorldStep)
  \/ StoreStep("audio", AudioStep) \/ StoreStep("records", RecordStep)

WSpec == WInit /\ [][WNext]_wvars

(* The fairness of NFairSpec and FeedFairSpec: the polls of the snapshot   *)
(* and of the events share their names.                                    *)
Answered(p) == NeuronsStep(PollStep(p)) \/ (p \in EventPolls /\ FeedStep({"feed"}, PollFeed(p)))
WFairSpec ==
  /\ WSpec
  /\ (\A p \in Polls : WF_wvars(Answered(p))) /\ WF_wvars(NeuronsStep(BecomeDue))

(* What keeps running (RunningIsShown), and what was told of a request on  *)
(* a page that is not frozen, is on the page in the end and for good, in   *)
(* whatever order its polls are answered (pollSnapshot, pollEvents).       *)
Lasts(t) ==
  /\ focus \in Neurons => t \in alive
  /\ focus = "feed" => ~frozen
Reached(t) ==
  /\ focus \in Neurons => t \in page
  /\ focus = "feed" => screen.seen = published
WorldReachesPage == \A t \in Things : <>[]Lasts(t) => <>[]Reached(t)

WorldTypeOK == NTypeOK /\ DTypeOK /\ TTypeOK /\ ETypeOK /\ ShapesTypeOK /\ FeedTypeOK /\ DevicesTypeOK

=============================================================================
