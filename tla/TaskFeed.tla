------------------------------ MODULE TaskFeed ------------------------------
(***************************************************************************)
(* What a request tells while it is carried out: its task in the neural    *)
(* world (agent_orchestrator.py, runtime.py), the breadcrumbs of the       *)
(* observation mode (neural_observation.py), the bounded feed of events    *)
(* (neural_events.py), and the page that reads it (neural_mesh.py).  The   *)
(* text link and the voice carry out requests at once; the page does not   *)
(* await one answer before it asks again, so answers arrive in any order.  *)
(***************************************************************************)
EXTENDS Naturals, Sequences, SequencesExt, Records

CONSTANTS
  Callers,      \* threads that carry out requests
  TaskIds,      \* every request has a task of its own
  EventPolls,   \* polls for events that may be under way at once
  WatchPolls,   \* polls for the observation that may be
  MaxFeed,      \* events the bus keeps (10000)
  Batch         \* events in one answer (300; 40 for the observation)

ASSUME FeedAssumption == {MaxFeed, Batch} \subseteq Nat \ {0} /\ EventPolls \cap WatchPolls = {}

VARIABLES
  taskNode,   \* the status of each task in the neural world
  told,       \* history: what the caller was told of the request
  order,      \* the request of each caller
  observing,  \* NeuralObservationController: whether it is enabled
  feed,       \* NeuralEventBus._events
  published,  \* the sequence of the last event
  screen,     \* what the page took from the feed
  reading,    \* the polls
  frozen      \* S.frozen, or the page is hidden

requestVars == <<taskNode, told, order, observing, feed, published>>
pageVars == <<screen, reading, frozen>>
feedVars == <<requestVars, pageVars>>

Polling == EventPolls \cup WatchPolls
NoOrder == [step |-> "idle", task |-> {}, confirmed |-> FALSE, needs |-> FALSE]
NoPolling == [step |-> "idle", since |-> 0, list |-> <<>>, enabled |-> FALSE]

-----------------------------------------------------------------------------
(* publish and since of the bus *)

Event(kind, t) == [kind |-> kind, task |-> t]
Numbered(es) == [i \in DOMAIN es |-> [n |-> published + i, kind |-> es[i].kind, task |-> es[i].task]]
LastOf(s, n) == IF Len(s) > n THEN SubSeq(s, Len(s) - n + 1, Len(s)) ELSE s

Publish(es) == feed' = LastOf(feed \o Numbered(es), MaxFeed) /\ published' = published + Len(es)
Since(n) ==
  LET later[i \in 0..Len(feed)] ==   \* among the first i
        IF i = 0 THEN << >> ELSE IF feed[i].n > n THEN Append(later[i - 1], feed[i]) ELSE later[i - 1]
  IN  LastOf(later[Len(feed)], Batch)

(* publish_neural_observation: only while the observation is enabled.      *)
Crumb(enabled, t) == IF enabled THEN <<Event("observation", t)>> ELSE <<>>
Progress(t) == <<Event("progress", t)>>

-----------------------------------------------------------------------------
(* The request: execute and _execute_impl.  Each stage tells the task and  *)
(* the observation about itself.                                           *)

TaskOf(c) == CHOOSE t \in TaskIds : t \in order[c].task
AtStage(c, steps) == order[c].step \in steps
Moves(c, fields) == order' = [order EXCEPT ![c] = Over(fields, @)]

(* A request, or one that was asked about and is agreed to now.            *)
TaskStarts(c, t) ==
  /\ AtStage(c, {"idle", "asked"}) /\ taskNode[t] = "none"
  /\ \E confirmed \in {FALSE, AtStage(c, {"asked"})} :
       Moves(c, [step |-> "plan", task |-> {t}, confirmed |-> confirmed, needs |-> FALSE])
  /\ taskNode' = [taskNode EXCEPT ![t] = "queued"]
  /\ Publish(<<Event("created", t), Event("related", t)>>)
  /\ UNCHANGED <<told, observing>>

PlanSelected(c) ==
  LET t == TaskOf(c)
  IN  /\ AtStage(c, {"plan"}) /\ Moves(c, [step |-> "guarded"])
      /\ taskNode' = [taskNode EXCEPT ![t] = "running"]
      /\ Publish(Crumb(observing, t) \o Progress(t) \o Crumb(observing, t))
      /\ UNCHANGED <<told, observing>>

SetObserving(enabled) == observing' = enabled

(* The guarded stage may ask, or be the request to observe or not to.      *)
GuardedStage(c) ==
  LET t == TaskOf(c)
  IN  /\ AtStage(c, {"guarded"})
      /\ \E needs, observe \in BOOLEAN :
           /\ needs => observe = observing
           /\ Moves(c, [step |-> "further", needs |-> needs]) /\ SetObserving(observe)
           /\ taskNode' = [taskNode EXCEPT ![t] = IF needs THEN "waiting" ELSE "running"]
           /\ Publish(Progress(t) \o Crumb(observe, t))
      /\ UNCHANGED told

(* A computer goal or a typed plan that asks: the task is not told yet.    *)
FurtherAsks(c) ==
  /\ AtStage(c, {"further"}) /\ ~order[c].needs
  /\ Moves(c, [step |-> "answer", needs |-> TRUE])
  /\ UNCHANGED <<taskNode, told, observing, feed, published>>

CodingStage(c) ==
  LET t == TaskOf(c)
  IN  /\ AtStage(c, {"further"})
      /\ Moves(c, [step |-> "coded", needs |-> order[c].needs \/ ~order[c].confirmed])
      /\ taskNode' = [taskNode EXCEPT ![t] = "running"]
      /\ Publish(Crumb(observing, t) \o Progress(t) \o Crumb(observing, t))
      /\ UNCHANGED <<told, observing>>

SpecialistStage(c) ==
  LET t == TaskOf(c)
  IN  /\ AtStage(c, {"further", "coded"}) /\ Moves(c, [step |-> "answer"])
      /\ taskNode' = [taskNode EXCEPT ![t] = "running"]
      /\ Publish(Crumb(observing, t) \o Progress(t) \o Crumb(observing, t) \o Progress(t))
      /\ UNCHANGED <<told, observing>>

\* mutant: the task of a request that asks keeps the state of its last stage
StatusByStage(t, needs, verified) ==
  IF needs THEN taskNode[t] ELSE IF verified THEN "succeeded" ELSE "failed"

LastStatus(t, needs, verified) ==
  IF needs THEN "waiting" ELSE IF verified THEN "succeeded" ELSE "failed"

FinishRequest(c) ==
  LET t == TaskOf(c)
      needs == order[c].needs
  IN  /\ AtStage(c, {"further", "coded", "answer"})
      /\ \E verified \in {FALSE, ~needs} :
           /\ taskNode' = [taskNode EXCEPT ![t] = LastStatus(t, needs, verified)]
           /\ told' = [told EXCEPT ![t] = IF needs THEN "asked" ELSE IF verified THEN "verified" ELSE "unverified"]
      /\ Publish(Crumb(observing, t) \o (IF needs THEN Progress(t) ELSE <<Event("finished", t)>>))
      /\ order' = [order EXCEPT ![c] = [NoOrder EXCEPT !.step = IF needs THEN "asked" ELSE "idle"]]
      /\ UNCHANGED observing

(* Any stage may raise.                                                    *)
RequestRaises(c) ==
  LET t == TaskOf(c)
  IN  /\ ~AtStage(c, {"idle", "asked"}) /\ order' = [order EXCEPT ![c] = NoOrder]
      /\ taskNode' = [taskNode EXCEPT ![t] = "failed"] /\ told' = [told EXCEPT ![t] = "raised"]
      /\ Publish(<<Event("finished", t)>>)
      /\ UNCHANGED observing

RequestStage(c) ==
  \/ \E t \in TaskIds : TaskStarts(c, t)
  \/ PlanSelected(c) \/ GuardedStage(c) \/ FurtherAsks(c) \/ CodingStage(c) \/ SpecialistStage(c)
  \/ FinishRequest(c) \/ RequestRaises(c)

-----------------------------------------------------------------------------
(* The page: pollEvents and pollObservation *)

Reads(p, fields) == reading' = [reading EXCEPT ![p] = Over(fields, NoPolling)]
Later(n, list) == IF list = <<>> \/ Last(list).n < n THEN n ELSE Last(list).n
Named(list, kind) == {list[i].task : i \in {j \in DOMAIN list : list[j].kind = kind}}
LastNamed(list, kind) == Last(SelectSeq(list, LAMBDA e : e.kind = kind)).task

AskEvents(p) ==
  /\ p \in EventPolls /\ ~frozen /\ reading[p] = NoPolling
  /\ Reads(p, [step |-> "asked", since |-> screen.seen])
  /\ UNCHANGED screen

(* Whether it is enabled is answered first, and the events are asked after *)
(* that, from what has been noted by then.                                 *)
AskState(p) ==
  /\ p \in WatchPolls /\ ~frozen /\ reading[p] = NoPolling
  /\ Reads(p, [step |-> "state", enabled |-> observing])
  /\ UNCHANGED screen

TakeState(p) ==
  /\ reading[p].step = "state"
  /\ IF reading[p].enabled
     THEN Reads(p, [step |-> "asked", since |-> screen.noted]) /\ UNCHANGED screen
     ELSE reading' = [reading EXCEPT ![p] = NoPolling] /\ screen' = [screen EXCEPT !.box = "hidden"]

Serve(p) ==
  /\ reading[p].step = "asked"
  /\ Reads(p, [step |-> "served", list |-> Since(reading[p].since)])
  /\ UNCHANGED screen

TakeEvents(p) ==
  LET list == reading[p].list
  IN  /\ p \in EventPolls /\ reading[p].step = "served"
      /\ screen' = [screen EXCEPT !.seen = Later(@, list), !.births = @ \cup Named(list, "created")]
      /\ reading' = [reading EXCEPT ![p] = NoPolling]

TakeWatched(p) ==
  LET list == reading[p].list
  IN  /\ p \in WatchPolls /\ reading[p].step = "served"
      /\ screen' = [screen EXCEPT
           !.noted = Later(@, list),
           !.follow = IF Named(list, "progress") = {} THEN @ ELSE {LastNamed(list, "progress")},
           !.box = IF Named(list, "observation") = {} THEN "reason" ELSE "messages"]
      /\ reading' = [reading EXCEPT ![p] = NoPolling]

PollFeed(p) ==
  /\ AskEvents(p) \/ AskState(p) \/ TakeState(p) \/ Serve(p) \/ TakeEvents(p) \/ TakeWatched(p)
  /\ UNCHANGED <<requestVars, frozen>>
Freeze == frozen' = ~frozen /\ UNCHANGED <<requestVars, screen, reading>>

FeedInit ==
  /\ taskNode = [t \in TaskIds |-> "none"] /\ told = [t \in TaskIds |-> "none"]
  /\ order = [c \in Callers |-> NoOrder] /\ observing = FALSE /\ feed = <<>> /\ published = 0
  /\ screen = [seen |-> 0, noted |-> 0, births |-> {}, follow |-> {}, box |-> "hidden"]
  /\ reading = [p \in Polling |-> NoPolling] /\ frozen = FALSE

FeedNext ==
  \/ \E c \in Callers : RequestStage(c) /\ UNCHANGED pageVars
  \/ \E p \in Polling : PollFeed(p)
  \/ Freeze

(* The timer of the page goes on, and calls of the page are answered.      *)
FeedFairSpec ==
  /\ FeedInit /\ [][FeedNext]_feedVars
  /\ \A p \in EventPolls : WF_feedVars(PollFeed(p))

-----------------------------------------------------------------------------

FeedTypeOK ==
  /\ taskNode \in [TaskIds -> {"none", "queued", "running", "waiting", "succeeded", "failed"}]
  /\ told \in [TaskIds -> {"none", "asked", "verified", "unverified", "raised"}]
  /\ \A c \in Callers :
       /\ order[c].step \in {"idle", "plan", "guarded", "further", "coded", "answer", "asked"}
       /\ order[c].task \subseteq TaskIds
  /\ {observing, frozen} \subseteq BOOLEAN /\ Len(feed) <= MaxFeed /\ screen.births \subseteq TaskIds
  /\ \A i \in DOMAIN feed : feed[i].n = published - Len(feed) + i
  /\ \A p \in Polling : Len(reading[p].list) <= Batch /\ reading[p].since <= published

(* "Observable task neurons track real orchestration stages and            *)
(* failure/waiting/completion states" (neural-jarvis-acceptance.md:14):    *)
(* once a request is over, and however it ended, its task shows what the   *)
(* caller was told; until then it does not look ended.                     *)
TaskTellsOutcome ==
  \A t \in TaskIds :
    CASE told[t] = "none" -> taskNode[t] \in {"none", "queued", "running", "waiting"}
      [] told[t] = "asked" -> taskNode[t] = "waiting"
      [] told[t] = "verified" -> taskNode[t] = "succeeded"
      [] OTHER -> taskNode[t] = "failed"

(* The page catches up with the feed whenever nothing is published for a   *)
(* while, in whatever order its polls are answered, unless it is frozen.   *)
FeedReachesPage == []<>(screen.seen = published \/ frozen)

(* No run checks these, see the README, other disagreements.  A task waits *)
(* only while its request does; the page follows the task that was last    *)
(* told of; the page shows the birth of every task it has read past.       *)
WaitingIsAsked ==
  \A t \in TaskIds : told[t] = "asked" => \E c \in Callers : AtStage(c, {"asked"})
FollowsNewest ==
  [][screen'.follow # screen.follow => screen'.noted > screen.noted]_feedVars
BirthsAreShown == screen.seen = published => screen.births = {t \in TaskIds : taskNode[t] # "none"}

=============================================================================
