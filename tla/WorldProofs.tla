---------------------------- MODULE WorldProofs ----------------------------
(***************************************************************************)
(* Proofs about a request and what its task tells of it, the streaming of  *)
(* areas, the phones, the history of shapes, the graph and what is traced  *)
(* in it, and the types of all of them, for any callers, phones, areas and *)
(* entities, any bounds and whatever fails.                                *)
(***************************************************************************)
EXTENDS MCWorld, FiniteSetTheorems, SequenceTheorems, WellFoundedInduction, TLAPS

-----------------------------------------------------------------------------
(* The dispatch of a request *)

Untouched == \A p \in performed : p.op \in Behind

(* The flag of a request is set by the person alone.  Nothing that needs a
   confirmation has been done, but by routed operations, where a stage may
   still ask: at the intent, in the stages of an unconfirmed request but the
   plan's steps, which only the fast profile has, and wherever a question is
   the result so far, which a confirmed workflow never has. *)
DispatchInv ==
  /\ confirmed \in BOOLEAN /\ agreed \in BOOLEAN /\ (confirmed = TRUE => agreed = TRUE)
  /\ ChangesWereAgreed
  /\ stage = "intent" \/ context = "asks" => Untouched
  /\ confirmed = FALSE /\ (stage \in {"workflow", "goal", "plan"} \/ text.profile # "fast") => Untouched
  /\ stage = "workflow" /\ context = "asks" => confirmed = FALSE
  /\ stage \in {"goal", "plan", "steps"} => text.profile = "fast" /\ context # "asks"

(* What an operation may do: what needs a confirmation has one, and one that
   needs none does nothing guarded but what it is routed to. *)
LEMMA AttemptIsAgreed ==
  ASSUME DispatchInv, NEW o, NEW flag, flag => agreed, NEW outcome, Attempt(o, flag, outcome)
  PROVE  /\ agreed' = agreed => ChangesWereAgreed'
         /\ o \notin Guarded /\ Untouched => \A p \in performed' : p.op \in Behind
<1>1. PICK does \in Does(o), by \in Consents, effect \in BOOLEAN :
        /\ effect => May(o, flag \/ by = "hook") /\ (does # o => MayRoute(does, by))
        /\ performed' = performed \cup {p \in {[op |-> does, by |-> by]} : effect /\ does \in Guarded}
  BY DEF Attempt
<1>2. does # o => does \in Behind
  BY DEF Does
<1>3. ASSUME NEW p \in performed', p \notin performed
      PROVE  /\ p.op = does /\ p.by = by /\ does \in Guarded
             /\ May(o, flag \/ by = "hook") /\ (does # o => MayRoute(does, by))
  BY <1>1, <1>3
<1>4. ASSUME NEW p \in performed' PROVE agreed \/ p.by = "hook" \/ ConfirmedItself(p)
  <2>1. CASE p \in performed
    BY <2>1 DEF DispatchInv, ChangesWereAgreed
  <2>2. CASE p \notin performed /\ does = o
    <3>1. confirmed \/ flag \/ by = "hook"
      BY <1>3, <2>2 DEF May, MayInvoke, MayDispatch
    <3> QED BY <1>3, <2>2, <3>1 DEF DispatchInv
  <2>3. CASE p \notin performed /\ does # o
    BY <1>2, <1>3, <2>3 DEF MayRoute, ConfirmedItself
  <2> QED BY <2>1, <2>2, <2>3
<1>5. ASSUME o \notin Guarded, Untouched, NEW p \in performed' PROVE p.op \in Behind
  BY <1>2, <1>3, <1>5 DEF Untouched
<1>6. agreed' = agreed => ChangesWereAgreed'
  BY <1>4 DEF ChangesWereAgreed, ConfirmedItself
<1> QED BY <1>5, <1>6

LEMMA DispatchInit == ASSUME DInit PROVE DispatchInv
BY DEF DInit, DispatchInv, ChangesWereAgreed, Untouched

LEMMA NamedIntentKeeps == ASSUME DispatchInv, stage = "intent", NamedIntent PROVE DispatchInv'
<1>1. Untouched /\ ask' = ask
  BY DEF NamedIntent, DispatchInv, Goto
<1>2. AfterIntent \in {"coding", "goal", "plan"} /\ (AfterIntent # "coding" => text.profile = "fast")
  BY DEF AfterIntent
<1>3. CASE Rests /\ Goto(AfterIntent) /\ Outcome("none", FALSE)
  BY <1>1, <1>2, <1>3 DEF DispatchInv, ChangesWereAgreed, Untouched, Rests, Goto, Outcome, ask
<1>4. CASE Rests /\ Goto("coding") /\ Outcome("asks", FALSE)
  BY <1>1, <1>4 DEF DispatchInv, ChangesWereAgreed, Untouched, Rests, Goto, Outcome, ask
<1>5. ASSUME NEW outcome, Attempt(text.intent, FALSE, outcome), ~AsksFirst(text.intent),
             IF outcome # "fails" THEN Goto("coding") /\ Outcome("results", outcome = "done")
             ELSE Goto(IF text.intent \in Caught THEN AfterIntent ELSE "raised") /\ Outcome("none", FALSE)
      PROVE  DispatchInv'
  <2>1. ChangesWereAgreed'
    BY <1>1, <1>5, AttemptIsAgreed DEF ask
  <2>2. confirmed = FALSE => Untouched'
    BY <1>1, <1>5, AttemptIsAgreed DEF Untouched, AsksFirst
  <2>3. context' # "asks" /\ stage' \notin {"intent", "steps"}
        /\ (stage' \in {"goal", "plan"} => text.profile = "fast")
    BY <1>2, <1>5 DEF Goto, Outcome
  <2> QED BY <1>1, <2>1, <2>2, <2>3 DEF DispatchInv, ask
<1> QED BY <1>3, <1>4, <1>5 DEF NamedIntent

LEMMA IntentKeeps == ASSUME DispatchInv, Intent PROVE DispatchInv'
<1>1. CASE NamedIntent
  BY <1>1, NamedIntentKeeps DEF Intent
<1>2. CASE Goto("workflow") /\ Outcome("results", TRUE) /\ Rests
  <2>1. stage = "intent"
    BY DEF Intent
  <2> QED BY <1>2, <2>1 DEF Goto, Outcome, Rests, DispatchInv, ChangesWereAgreed, Untouched, ConfirmedItself, ask
<1> QED BY <1>1, <1>2 DEF Intent

LEMMA WorkflowKeeps == ASSUME DispatchInv, WorkflowStep \/ WorkflowEnds PROVE DispatchInv'
<1>1. stage = "workflow" /\ ask' = ask /\ stage' \in {"workflow", "coding", "raised"}
  BY DEF WorkflowStep, WorkflowEnds, Goto
<1>2. confirmed = FALSE => Untouched
  BY <1>1 DEF DispatchInv
<1>3. CASE Rests /\ (context' = context \/ ~confirmed)
  BY <1>1, <1>2, <1>3 DEF Rests, DispatchInv, ChangesWereAgreed, Untouched, ConfirmedItself, ask
<1>4. ASSUME NEW outcome, Attempt(Head(steps), confirmed, outcome), ~AsksFirst(Head(steps)),
             context' = context \/ ~confirmed
      PROVE  DispatchInv'
  <2>1. confirmed => agreed
    BY DEF DispatchInv
  <2>2. ChangesWereAgreed'
    BY <1>1, <1>4, <2>1, AttemptIsAgreed DEF ask
  <2>3. confirmed = FALSE => Untouched'
    BY <1>2, <1>4, <2>1, AttemptIsAgreed DEF Untouched, AsksFirst
  <2> QED BY <1>1, <1>4, <2>2, <2>3 DEF DispatchInv, ask
<1>5. CASE WorkflowEnds
  BY <1>3, <1>5 DEF WorkflowEnds, Outcome
<1>6. CASE WorkflowStep
  <2>1. CASE AsksFirst(Head(steps)) /\ Rests
    BY <1>3, <2>1 DEF AsksFirst
  <2>2. ASSUME ~AsksFirst(Head(steps)), NEW outcome, Attempt(Head(steps), confirmed, outcome),
               IF outcome = "done" THEN UNCHANGED <<context, verified>>
               ELSE \E c \in {context} \cup {d \in {"asks"} : ~confirmed} : Outcome(c, FALSE)
        PROVE  DispatchInv'
    BY <1>4, <2>2 DEF Outcome
  <2> QED BY <1>6, <2>1, <2>2 DEF WorkflowStep
<1> QED BY <1>5, <1>6

LEMMA GoalKeeps == ASSUME DispatchInv, GoalAsks \/ Act \/ GoalEnds PROVE DispatchInv'
<1>1. stage = "goal" /\ ask' = ask /\ text.profile = "fast" /\ context # "asks"
  BY DEF GoalAsks, Act, GoalEnds, Asks, Goto, DispatchInv
<1>2. CASE GoalAsks
  BY <1>1, <1>2 DEF GoalAsks, Asks, Goto, Outcome, Rests, DispatchInv, ChangesWereAgreed, Untouched, ask
<1>3. CASE Act
  <2>1. /\ confirmed = TRUE /\ agreed = TRUE /\ stage' \in {"goal", "coding"} /\ context' # "asks"
    BY <1>1, <1>3 DEF Act, Goto, Outcome, DispatchInv
  <2> QED BY <1>1, <2>1 DEF DispatchInv, ChangesWereAgreed, ConfirmedItself, ask
<1>4. CASE GoalEnds
  <2>1. /\ confirmed = TRUE /\ agreed = TRUE /\ stage' \in {"plan", "coding"} /\ context' # "asks"
    BY <1>1, <1>4 DEF GoalEnds, Goto, Outcome, DispatchInv
  <2> QED BY <1>1, <2>1 DEF DispatchInv, ChangesWereAgreed, ConfirmedItself, ask
<1> QED BY <1>2, <1>3, <1>4

LEMMA PlanKeeps == ASSUME DispatchInv, Plan PROVE DispatchInv'
<1>1. stage = "plan" /\ ask' = ask /\ performed' = performed /\ text.profile = "fast" /\ context # "asks"
      /\ stage' \in {"coding", "steps"}
  BY DEF Plan, Asks, Goto, Rests, DispatchInv
<1>2. CASE context' = "asks"
  <2>1. confirmed = FALSE /\ stage' = "coding"
    BY <1>1, <1>2 DEF Plan, PlanAsks, Asks, Goto, found, DispatchInv
  <2> QED BY <1>1, <2>1 DEF DispatchInv, ChangesWereAgreed, Untouched, ask
<1>3. CASE context' # "asks"
  BY <1>1, <1>3 DEF DispatchInv, ChangesWereAgreed, ConfirmedItself, ask
<1> QED BY <1>2, <1>3

LEMMA StepKeeps == ASSUME DispatchInv, Step PROVE DispatchInv'
<1>1. PICK outcome \in {"done", "fails"} : Attempt(Head(steps), FALSE, outcome)
  BY DEF Step
<1>2. stage = "steps" /\ ask' = ask /\ stage' \in {"coding", "steps"} /\ text.profile = "fast"
      /\ context # "asks" /\ context' # "asks"
  BY DEF Step, Goto, DispatchInv
<1>3. ChangesWereAgreed'
  BY <1>1, <1>2, AttemptIsAgreed DEF ask
<1> QED BY <1>2, <1>3 DEF DispatchInv, ask

LEMMA EndKeeps == ASSUME DispatchInv, Coding \/ Reply PROVE DispatchInv'
<1>1. CASE Coding
  <2>1. ask' = ask /\ stage' \in {"reply", "raised"}
    BY <1>1 DEF Coding, Goto
  <2>2. CASE Rests /\ (UNCHANGED context \/ (text.profile = "coding" /\ ~confirmed))
    <3>1. context' = "asks" => Untouched
      BY <2>2 DEF DispatchInv
    <3> QED BY <2>1, <2>2, <3>1 DEF DispatchInv, ChangesWereAgreed, Untouched, Rests, ask
  <2>3. ASSUME NEW outcome, Attempt(selfCoding, FALSE, outcome), confirmed, context' = "results" PROVE DispatchInv'
    <3>1. ChangesWereAgreed'
      BY <2>1, <2>3, AttemptIsAgreed DEF ask
    <3> QED BY <2>1, <2>3, <3>1 DEF DispatchInv, ask
  <2> QED BY <1>1, <2>2, <2>3 DEF Coding, Outcome
<1>2. CASE Reply
  BY <1>2 DEF Reply, Goto, Rests, DispatchInv, ChangesWereAgreed, Untouched, ask
<1> QED BY <1>1, <1>2

LEMMA PersonKeeps == ASSUME DispatchInv, Agree \/ \E t \in Texts : Ask(t) PROVE DispatchInv'
<1>1. CASE Agree
  BY <1>1 DEF Agree, Begin, DispatchInv, ChangesWereAgreed, Untouched
<1>2. ASSUME NEW t \in Texts, Ask(t) PROVE DispatchInv'
  BY <1>2 DEF Ask, Begin, DispatchInv, ChangesWereAgreed, Untouched
<1> QED BY <1>1, <1>2

(* On every way of a request through the stages, the workflow among them, the
   person, or the runtime's hook, agreed to whatever needs a confirmation, but
   for what a routed operation does on the word of its own step; and a request
   that is answered with a question has done nothing of the kind except by a
   routed step (AgentOrchestrator.execute, JARVIS_ORCHESTRATION.md, Safety
   boundary): for any operations, any policy, any plans and workflows and
   whatever raises. *)
THEOREM PersonAlwaysDecides == DSpec => []PersonDecides
<1>1. DispatchInv /\ [DNext]_dvars => DispatchInv'
  <2> SUFFICES ASSUME DispatchInv, [DNext]_dvars PROVE DispatchInv'
    OBVIOUS
  <2>1. CASE DNext
    BY <2>1, IntentKeeps, WorkflowKeeps, GoalKeeps, PlanKeeps, StepKeeps, EndKeeps, PersonKeeps DEF DNext, Advance
  <2>2. CASE UNCHANGED dvars
    BY <2>2 DEF dvars, ask, found, DispatchInv, ChangesWereAgreed, Untouched
  <2> QED BY <2>1, <2>2
<1>2. DispatchInv => PersonDecides
  BY DEF DispatchInv, PersonDecides, AsksBeforeActing, Untouched
<1> QED BY <1>1, <1>2, DispatchInit, PTL DEF DSpec

-----------------------------------------------------------------------------
(* What a request tells *)

OrderFields == {"step", "task", "confirmed", "needs"}
Underway == {"plan", "guarded", "further", "coded", "answer"}

(* A caller whose request is under way has a task of its own, which nobody was
   told the end of; whoever has none has no task.  A task is not touched before
   its request begins. *)
FeedInv ==
  /\ DOMAIN order = Callers /\ taskNode = [t \in TaskIds |-> taskNode[t]] /\ DOMAIN told = TaskIds
  /\ \A c \in Callers :
       /\ DOMAIN order[c] = OrderFields
       /\ IF order[c].step \in {"idle", "asked"} THEN order[c].task = {}
          ELSE \E t \in TaskIds : /\ order[c].task = {t} /\ told[t] = "none"
                                  /\ taskNode[t] \in {"queued", "running", "waiting"}
  /\ \A c, d \in Callers : c # d => order[c].task \cap order[d].task = {}
  /\ \A t \in TaskIds : taskNode[t] = "none" => told[t] = "none"
  /\ TaskTellsOutcome

LEMMA FeedStarts == ASSUME FeedInit PROVE FeedInv
BY DEF FeedInit, FeedInv, NoOrder, OrderFields, TaskTellsOutcome

LEMMA TaskIsKnown ==
  ASSUME FeedInv, NEW c \in Callers, order[c].step \notin {"idle", "asked"}
  PROVE  /\ TaskOf(c) \in TaskIds /\ order[c].task = {TaskOf(c)} /\ told[TaskOf(c)] = "none"
         /\ taskNode[TaskOf(c)] \in {"queued", "running", "waiting"}
<1>1. PICK t \in TaskIds : /\ order[c].task = {t} /\ told[t] = "none"
                           /\ taskNode[t] \in {"queued", "running", "waiting"}
  BY DEF FeedInv
<1>2. TaskOf(c) = t
  BY <1>1 DEF TaskOf
<1> QED BY <1>1, <1>2

(* A request goes on with its task. *)
LEMMA GoingOnKeeps ==
  ASSUME FeedInv, NEW c \in Callers, NEW t \in TaskIds, NEW status, NEW r,
         order[c].task = {t}, told[t] = "none", order[c].step \notin {"idle", "asked"},
         r.step \notin {"idle", "asked"}, r.task = {t}, DOMAIN r = OrderFields,
         order' = [order EXCEPT ![c] = r],
         status \in {"queued", "running", "waiting"}, taskNode' = [taskNode EXCEPT ![t] = status],
         told' = told
  PROVE  FeedInv'
<1>1. \A d \in Callers : order'[d].task = order[d].task /\ DOMAIN order'[d] = OrderFields
  BY DEF FeedInv
<1>2. \A u \in TaskIds : u # t => taskNode'[u] = taskNode[u]
  BY DEF FeedInv
<1>3. taskNode'[t] = status
  BY DEF FeedInv
<1>4. \A d \in Callers : d # c => order'[d] = order[d] /\ t \notin order[d].task
  BY DEF FeedInv
<1>5. \A d \in Callers :
        IF order'[d].step \in {"idle", "asked"} THEN order'[d].task = {}
        ELSE \E u \in TaskIds : /\ order'[d].task = {u} /\ told'[u] = "none"
                                /\ taskNode'[u] \in {"queued", "running", "waiting"}
  <2> TAKE d \in Callers
  <2>1. CASE d = c
    <3>1. order'[d] = r
      BY <2>1 DEF FeedInv
    <3> QED BY <1>3, <2>1, <3>1
  <2>2. CASE d # c
    BY <1>2, <1>4, <2>2 DEF FeedInv
  <2> QED BY <2>1, <2>2
<1>6. (DOMAIN order = Callers /\ taskNode = [u \in TaskIds |-> taskNode[u]] /\ DOMAIN told = TaskIds)'
  BY DEF FeedInv
<1>7. TaskTellsOutcome'
  BY <1>2, <1>3 DEF FeedInv, TaskTellsOutcome
<1>8. (\A d, e \in Callers : d # e => order[d].task \cap order[e].task = {})'
  BY <1>1 DEF FeedInv
<1>9. (\A u \in TaskIds : taskNode[u] = "none" => told[u] = "none")'
  BY <1>2, <1>3 DEF FeedInv
<1> QED BY <1>1, <1>5, <1>6, <1>7, <1>8, <1>9 DEF FeedInv

(* A request is over, and its caller told of it. *)
LEMMA EndingKeeps ==
  ASSUME FeedInv, NEW c \in Callers, NEW t \in TaskIds, NEW r, NEW status, NEW words,
         order[c].task = {t}, r.step \in {"idle", "asked"}, r.task = {}, DOMAIN r = OrderFields,
         order' = [order EXCEPT ![c] = r],
         taskNode' = [taskNode EXCEPT ![t] = status], told' = [told EXCEPT ![t] = words],
         \/ words = "asked" /\ status = "waiting"
         \/ words = "verified" /\ status = "succeeded"
         \/ words \in {"unverified", "raised"} /\ status = "failed"
  PROVE  FeedInv'
<1>1. order'[c] = r /\ \A d \in Callers : d # c => order'[d] = order[d] /\ t \notin order[d].task
  BY DEF FeedInv
<1>2. \A u \in TaskIds : u # t => taskNode'[u] = taskNode[u] /\ told'[u] = told[u]
  BY DEF FeedInv
<1>3. taskNode'[t] = status /\ told'[t] = words
  BY DEF FeedInv
<1>4. \A d \in Callers :
        /\ DOMAIN order'[d] = OrderFields
        /\ IF order'[d].step \in {"idle", "asked"} THEN order'[d].task = {}
           ELSE \E u \in TaskIds : /\ order'[d].task = {u} /\ told'[u] = "none"
                                   /\ taskNode'[u] \in {"queued", "running", "waiting"}
  <2> TAKE d \in Callers
  <2>1. CASE d = c
    BY <1>1, <2>1
  <2>2. CASE d # c
    BY <1>1, <1>2, <2>2 DEF FeedInv
  <2> QED BY <2>1, <2>2
<1>5. (DOMAIN order = Callers /\ taskNode = [u \in TaskIds |-> taskNode[u]] /\ DOMAIN told = TaskIds)'
  BY DEF FeedInv
<1>6. TaskTellsOutcome'
  BY <1>2, <1>3 DEF FeedInv, TaskTellsOutcome
<1>7. (\A d, e \in Callers : d # e => order[d].task \cap order[e].task = {})'
  BY <1>1 DEF FeedInv
<1>8. (\A u \in TaskIds : taskNode[u] = "none" => told[u] = "none")'
  BY <1>2, <1>3 DEF FeedInv
<1> QED BY <1>4, <1>5, <1>6, <1>7, <1>8 DEF FeedInv

LEMMA TaskStartsKeeps ==
  ASSUME FeedInv, NEW c \in Callers, NEW t \in TaskIds, TaskStarts(c, t)
  PROVE  FeedInv'
<1>1. PICK confirmed1 : Moves(c, [step |-> "plan", task |-> {t}, confirmed |-> confirmed1, needs |-> FALSE])
  BY DEF TaskStarts
<1>2. taskNode[t] = "none" /\ told[t] = "none" /\ told' = told /\ taskNode' = [taskNode EXCEPT ![t] = "queued"]
      /\ order[c].step \in {"idle", "asked"}
  BY DEF TaskStarts, FeedInv, AtStage
<1>3. /\ order'[c].step = "plan" /\ order'[c].task = {t} /\ DOMAIN order'[c] = OrderFields
      /\ DOMAIN order' = Callers /\ \A d \in Callers : d # c => order'[d] = order[d]
  BY <1>1 DEF Moves, Over, FeedInv, OrderFields
<1>4. \A d \in Callers : d # c => t \notin order[d].task
  BY <1>2 DEF FeedInv
<1>5. taskNode'[t] = "queued" /\ taskNode' = [u \in TaskIds |-> taskNode'[u]]
      /\ \A u \in TaskIds : u # t => taskNode'[u] = taskNode[u]
  BY <1>2 DEF FeedInv
<1>6. \A d \in Callers :
        /\ DOMAIN order'[d] = OrderFields
        /\ IF order'[d].step \in {"idle", "asked"} THEN order'[d].task = {}
           ELSE \E u \in TaskIds : /\ order'[d].task = {u} /\ told'[u] = "none"
                                   /\ taskNode'[u] \in {"queued", "running", "waiting"}
  <2> TAKE d \in Callers
  <2>1. CASE d = c
    BY <1>2, <1>3, <1>5, <2>1
  <2>2. CASE d # c
    BY <1>2, <1>3, <1>5, <2>2 DEF FeedInv
  <2> QED BY <2>1, <2>2
<1>7. (\A d, e \in Callers : d # e => order[d].task \cap order[e].task = {})'
  BY <1>3, <1>4 DEF FeedInv
<1>8. (\A u \in TaskIds : taskNode[u] = "none" => told[u] = "none")'
  BY <1>2, <1>5 DEF FeedInv
<1>9. TaskTellsOutcome'
  BY <1>2, <1>5 DEF FeedInv, TaskTellsOutcome
<1> QED BY <1>2, <1>3, <1>5, <1>6, <1>7, <1>8, <1>9 DEF FeedInv

LEMMA MidStagesKeep ==
  ASSUME FeedInv, NEW c \in Callers,
         PlanSelected(c) \/ GuardedStage(c) \/ FurtherAsks(c) \/ CodingStage(c) \/ SpecialistStage(c)
  PROVE  FeedInv'
<1> DEFINE t == TaskOf(c)
<1>1. order[c].step \notin {"idle", "asked"}
  BY DEF PlanSelected, GuardedStage, FurtherAsks, CodingStage, SpecialistStage, AtStage
<1>2. t \in TaskIds /\ order[c].task = {t} /\ told[t] = "none" /\ taskNode[t] \in {"queued", "running", "waiting"}
  BY <1>1, TaskIsKnown
<1>3. PICK status \in {"queued", "running", "waiting"} : taskNode' = [taskNode EXCEPT ![t] = status]
  <2>1. CASE FurtherAsks(c)
    <3>1. taskNode' = [taskNode EXCEPT ![t] = taskNode[t]]
      BY <2>1 DEF FurtherAsks, FeedInv
    <3> QED BY <1>2, <3>1
  <2>2. CASE GuardedStage(c)
    BY <2>2 DEF GuardedStage
  <2>3. CASE PlanSelected(c) \/ CodingStage(c) \/ SpecialistStage(c)
    BY <2>3 DEF PlanSelected, CodingStage, SpecialistStage
  <2> QED BY <2>1, <2>2, <2>3
<1>4. /\ told' = told /\ order' = [order EXCEPT ![c] = order'[c]]
      /\ order'[c].step \notin {"idle", "asked"} /\ order'[c].task = order[c].task
      /\ DOMAIN order'[c] = OrderFields
  <2>1. ASSUME NEW step \in {"guarded", "further", "answer", "coded"}, NEW needs,
               Moves(c, [step |-> step, needs |-> needs]) \/ Moves(c, [step |-> step])
        PROVE  /\ order' = [order EXCEPT ![c] = order'[c]]
               /\ order'[c].step \notin {"idle", "asked"} /\ order'[c].task = order[c].task
               /\ DOMAIN order'[c] = OrderFields
    BY <2>1 DEF Moves, Over, FeedInv, OrderFields
  <2>2. CASE PlanSelected(c)
    BY <2>1, <2>2 DEF PlanSelected
  <2>3. CASE GuardedStage(c)
    BY <2>1, <2>3 DEF GuardedStage
  <2>4. CASE FurtherAsks(c)
    BY <2>1, <2>4 DEF FurtherAsks
  <2>5. CASE CodingStage(c)
    BY <2>1, <2>5 DEF CodingStage
  <2>6. CASE SpecialistStage(c)
    BY <2>1, <2>6 DEF SpecialistStage
  <2> QED BY <2>2, <2>3, <2>4, <2>5, <2>6
<1> HIDE DEF t
<1> QED BY <1>1, <1>2, <1>3, <1>4, GoingOnKeeps

LEMMA EndStagesKeep ==
  ASSUME FeedInv, NEW c \in Callers, FinishRequest(c) \/ RequestRaises(c)
  PROVE  FeedInv'
<1> DEFINE t == TaskOf(c)
<1>1. order[c].step \notin {"idle", "asked"}
  BY DEF FinishRequest, RequestRaises, AtStage
<1>2. t \in TaskIds /\ order[c].task = {t}
  BY <1>1, TaskIsKnown
<1>3. \E r, status, words :
        /\ r.step \in {"idle", "asked"} /\ r.task = {} /\ DOMAIN r = OrderFields
        /\ order' = [order EXCEPT ![c] = r]
        /\ taskNode' = [taskNode EXCEPT ![t] = status] /\ told' = [told EXCEPT ![t] = words]
        /\ \/ words = "asked" /\ status = "waiting"
           \/ words = "verified" /\ status = "succeeded"
           \/ words \in {"unverified", "raised"} /\ status = "failed"
  <2>1. CASE RequestRaises(c)
    <3>1. NoOrder.step = "idle" /\ NoOrder.task = {} /\ DOMAIN NoOrder = OrderFields
      BY DEF NoOrder, OrderFields
    <3> QED BY <2>1, <3>1 DEF RequestRaises
  <2>2. CASE FinishRequest(c)
    <3> DEFINE needs == order[c].needs
               r == [NoOrder EXCEPT !.step = IF needs THEN "asked" ELSE "idle"]
    <3>1. r.step \in {"idle", "asked"} /\ r.task = {} /\ DOMAIN r = OrderFields
      BY DEF NoOrder, OrderFields
    <3>2. PICK good \in {FALSE, ~needs} :
            /\ taskNode' = [taskNode EXCEPT ![t] = LastStatus(t, needs, good)]
            /\ told' = [told EXCEPT ![t] = IF needs THEN "asked" ELSE IF good THEN "verified" ELSE "unverified"]
      BY <2>2 DEF FinishRequest
    <3>3. order' = [order EXCEPT ![c] = r]
      BY <2>2 DEF FinishRequest
    <3> HIDE DEF t, needs, r
    <3>4. CASE needs
      BY <3>1, <3>2, <3>3, <3>4 DEF LastStatus
    <3>5. CASE ~needs /\ good
      BY <3>1, <3>2, <3>3, <3>5 DEF LastStatus
    <3>6. CASE ~needs /\ ~good
      BY <3>1, <3>2, <3>3, <3>6 DEF LastStatus
    <3> QED BY <3>4, <3>5, <3>6
  <2> QED BY <2>1, <2>2
<1>4. PICK r, status, words :
        /\ r.step \in {"idle", "asked"} /\ r.task = {} /\ DOMAIN r = OrderFields
        /\ order' = [order EXCEPT ![c] = r]
        /\ taskNode' = [taskNode EXCEPT ![t] = status] /\ told' = [told EXCEPT ![t] = words]
        /\ \/ words = "asked" /\ status = "waiting"
           \/ words = "verified" /\ status = "succeeded"
           \/ words \in {"unverified", "raised"} /\ status = "failed"
  BY <1>3
<1> HIDE DEF t
<1> QED BY <1>2, <1>4, EndingKeeps

(* Once a request is over, and however it ended (asking, verified, unverified or
   by an exception of any stage), its task in the neural world shows what the
   caller was told, and until then it does not look ended (execute and
   _execute_impl, agent_orchestrator.py): for any callers and tasks, whatever the
   page reads meanwhile and however short the feed of events is. *)
THEOREM TasksTellOutcome == FeedInit /\ [][FeedNext]_feedVars => []TaskTellsOutcome
<1>1. FeedInv /\ [FeedNext]_feedVars => FeedInv'
  <2> SUFFICES ASSUME FeedInv, [FeedNext]_feedVars PROVE FeedInv'
    OBVIOUS
  <2>1. ASSUME NEW c \in Callers, RequestStage(c) PROVE FeedInv'
    BY <2>1, TaskStartsKeeps, MidStagesKeep, EndStagesKeep DEF RequestStage
  <2>2. CASE UNCHANGED requestVars
    BY <2>2 DEF requestVars, FeedInv, TaskTellsOutcome
  <2>3. ASSUME NEW p \in Polling, PollFeed(p) PROVE UNCHANGED requestVars
    BY <2>3 DEF PollFeed, requestVars
  <2>4. CASE Freeze
    BY <2>2, <2>4 DEF Freeze
  <2>5. CASE UNCHANGED feedVars
    BY <2>2, <2>5 DEF feedVars
  <2> QED BY <2>1, <2>2, <2>3, <2>4, <2>5 DEF FeedNext
<1>2. FeedInv => TaskTellsOutcome
  BY DEF FeedInv
<1> QED BY <1>1, <1>2, FeedStarts, PTL

-----------------------------------------------------------------------------
(* The streaming of areas *)

StreamInv ==
  /\ flavour \in Flavours /\ queued \in [Areas -> Nat] /\ loaded \subseteq Areas /\ cache \subseteq Areas
  /\ AreaHasOnePlace

LEMMA StreamStarts == ASSUME TInit PROVE StreamInv
<1>1. Cardinality(loaded) <= MaxLoaded
  BY FS_EmptySet, LimitsAssumption DEF TInit
<1> QED BY <1>1 DEF TInit, StreamInv, AreaHasOnePlace, Pending

(* Who is kept of a full store fits. *)
LEMMA TrimFits ==
  ASSUME NEW all, NEW limit \in Nat, NEW kept, IsFiniteSet(all), Trim(all, limit, kept)
  PROVE  kept \subseteq all /\ Cardinality(kept) <= limit
BY FS_CardinalityType DEF Trim

(* An area that is asked for leaves the cache and waits. *)
LEMMA RequestKeeps ==
  ASSUME StreamInv, NEW a \in Areas, Request(a) \/ RequestStreamer(a)
  PROVE  StreamInv'
<1>1. CASE Request(a)
  <2>1. CASE a \in loaded \/ queued[a] > 0
    BY <1>1, <2>1 DEF Request, places, StreamInv, AreaHasOnePlace, Pending
  <2>2. CASE ~(a \in loaded \/ queued[a] > 0)
    <3>1. /\ queued' = [queued EXCEPT ![a] = 1] /\ cache' = cache \ {a} /\ loaded' = loaded
          /\ flavour' = flavour
      BY <1>1, <2>2 DEF Request
    <3>2. queued' \in [Areas -> Nat] /\ cache' \subseteq Areas
      BY <3>1 DEF StreamInv
    <3>3. Pending' \subseteq Pending \cup {a}
      BY <3>1 DEF Pending, StreamInv
    <3>4. flavour = "experience" => \A b \in Areas : queued'[b] <= 1
      BY <3>1 DEF StreamInv, AreaHasOnePlace
    <3> QED BY <2>2, <3>1, <3>2, <3>3, <3>4 DEF StreamInv, AreaHasOnePlace
  <2> QED BY <2>1, <2>2
<1>2. CASE RequestStreamer(a)
  <2>1. flavour' # "experience" /\ queued' \in [Areas -> Nat] /\ cache' \subseteq Areas /\ loaded' = loaded
        /\ flavour' = flavour
    BY <1>2 DEF RequestStreamer, StreamInv
  <2> QED BY <2>1 DEF StreamInv, AreaHasOnePlace
<1> QED BY <1>1, <1>2

LEMMA PumpKeeps == ASSUME StreamInv, Pump PROVE StreamInv'
<1>1. PICK taken \in [Areas -> 0..MaxQueued] :
        /\ \A a \in Areas : taken[a] <= queued[a]
        /\ queued' = [a \in Areas |-> queued[a] - taken[a]]
        /\ Load({a \in Areas : taken[a] > 0})
        /\ flavour' = flavour
  BY DEF Pump
<1> DEFINE next == {a \in Areas : taken[a] > 0}
<1>2. PICK kept \in SUBSET (loaded \cup next) :
        /\ Trim(loaded \cup next, MaxLoaded, kept)
        /\ loaded' = kept /\ cache' = cache \cup ((loaded \cup next) \ kept)
  BY <1>1 DEF Load
<1>3. taken \in [Areas -> Nat]
  BY <1>1, LimitsAssumption
<1>4. queued' \in [Areas -> Nat]
  BY <1>1, <1>3 DEF StreamInv
<1>5. loaded \cup next \subseteq Areas
  BY DEF StreamInv
<1>6. Cardinality(loaded') <= MaxLoaded
  <2>1. IsFiniteSet(loaded \cup next)
    BY <1>5, FS_Subset, LimitsAssumption
  <2> HIDE DEF next
  <2> QED BY <1>2, <2>1, TrimFits, LimitsAssumption
<1>7. ASSUME flavour = "experience"
      PROVE  /\ loaded' \cap cache' = {} /\ Pending' \cap (loaded' \cup cache') = {}
             /\ \A a \in Areas : queued'[a] <= 1
  <2>1. next \subseteq Pending
    BY <1>1, <1>3 DEF Pending, StreamInv
  <2>2. loaded \cap cache = {} /\ Pending \cap (loaded \cup cache) = {} /\ \A a \in Areas : queued[a] <= 1
    BY <1>7 DEF StreamInv, AreaHasOnePlace
  <2>3. Pending' \subseteq Pending \ next
    BY <1>1, <1>3, <2>2 DEF Pending, StreamInv
  <2>4. \A a \in Areas : queued'[a] <= 1
    BY <1>1, <1>3, <2>2 DEF StreamInv
  <2> HIDE DEF next
  <2> QED BY <1>2, <2>1, <2>2, <2>3, <2>4
<1> QED BY <1>1, <1>2, <1>4, <1>5, <1>6, <1>7 DEF StreamInv, AreaHasOnePlace

LEMMA UnloadKeeps == ASSUME StreamInv, NEW a \in Areas, Unload(a) PROVE StreamInv'
<1>1. /\ loaded' = loaded \ {a} /\ a \in loaded /\ flavour' = flavour /\ queued' = queued
      /\ cache' \subseteq cache \cup {a}
  BY DEF Unload, Evicts, Trim
<1>2. Cardinality(loaded') <= MaxLoaded
  <2>1. IsFiniteSet(loaded)
    BY FS_Subset, LimitsAssumption DEF StreamInv
  <2>2. Cardinality(loaded \ {a}) \in Nat /\ Cardinality(loaded) \in Nat /\ Cardinality(loaded \ {a}) <= Cardinality(loaded)
    BY <2>1, FS_Subset, FS_CardinalityType
  <2> QED BY <1>1, <2>2, LimitsAssumption DEF StreamInv, AreaHasOnePlace
<1> QED BY <1>1, <1>2 DEF StreamInv, AreaHasOnePlace, Pending

(* An area of the experience is pending, loaded or cached and never two of
   these, and no more areas are loaded than there may be, in either class
   (WorldStreamingExperience.request, pump, unload; WorldStreamer): for any
   areas, limits, workers and callers. *)
THEOREM AreasKeepOnePlace == TSpec => []AreaHasOnePlace
<1>1. StreamInv /\ [TNext]_tvars => StreamInv'
  <2> SUFFICES ASSUME StreamInv, [TNext]_tvars PROVE StreamInv'
    OBVIOUS
  <2>1. CASE UNCHANGED <<flavour, places>>
    BY <2>1 DEF places, StreamInv, AreaHasOnePlace, Pending
  <2>2. ASSUME NEW w \in Loaders, StartWorker(w) \/ WorkerEnds(w) PROVE UNCHANGED <<flavour, places>>
    BY <2>2 DEF StartWorker, WorkerEnds
  <2>3. ASSUME NEW s \in Stoppers, StopWorker(s) PROVE UNCHANGED <<flavour, places>>
    BY <2>3 DEF StopWorker, Tell, TakeHandle, Join
  <2>4. CASE UNCHANGED tvars
    BY <2>1, <2>4 DEF tvars
  <2> QED BY <2>1, <2>2, <2>3, <2>4, RequestKeeps, PumpKeeps, UnloadKeeps DEF TNext, WorkerPumps
<1>2. StreamInv => AreaHasOnePlace
  BY DEF StreamInv
<1> QED BY <1>1, <1>2, StreamStarts, PTL DEF TSpec

-----------------------------------------------------------------------------
(* The phones *)

OpFields == {"kind", "at", "phones", "heard", "asked", "sent", "by", "away"}

(* A command was sent as often as it was answered, and is over when that is as
   often as it was asked for. *)
CommandOp(r) ==
  /\ DOMAIN r = OpFields /\ r.asked \in Nat /\ r.sent \in Nat
  /\ r.kind \in {"command", "automate"} =>
       /\ r.at \in {"state", "look", "send"} => r.sent < r.asked
       /\ r.at \in {"recheck", "done"} => r.sent = r.asked

CommandInv == DOMAIN op = Operators /\ \A o \in Operators : CommandOp(op[o])

LEMMA CommandsStart == ASSUME DevicesInit PROVE CommandInv
BY DEF DevicesInit, Rest, CommandInv, CommandOp, OpFields

(* It is enough to look at the thread that takes the step. *)
LEMMA OneThreadSteps ==
  ASSUME CommandInv, NEW o \in Operators, NEW r, CommandOp(r), op' = [op EXCEPT ![o] = r]
  PROVE  CommandInv'
<1>1. DOMAIN op' = Operators /\ op'[o] = r /\ \A q \in Operators : q # o => op'[q] = op[q]
  BY DEF CommandInv
<1>2. ASSUME NEW q \in Operators PROVE CommandOp(op'[q])
  BY <1>1 DEF CommandInv
<1> QED BY <1>1, <1>2 DEF CommandInv, CommandOp

LEMMA OutsideKeepsCommands == ASSUME CommandInv, Outside PROVE CommandInv'
<1>1. CASE UNCHANGED op
  BY <1>1 DEF CommandInv, CommandOp
<1>2. ASSUME NEW d \in Phones, NEW s, Replug(d, s) PROVE CommandInv'
  BY <1>2 DEF Replug, CommandInv, CommandOp, OpFields
<1> QED BY <1>1, <1>2 DEF Outside, MirrorEnds, AdbRestarts

(* A thread that begins. *)
LEMMA BeginKeepsCommands ==
  ASSUME CommandInv, NEW o \in Operators, NEW k, NEW step, NEW S, NEW n \in Nat, Begins(o, k, step, S, n),
         k \in {"command", "automate"} => step \in {"state", "look"} /\ n > 0
  PROVE  CommandInv'
<1> DEFINE r == [Rest EXCEPT !.kind = k, !.at = step, !.phones = S, !.asked = n]
<1>1. CommandOp(r)
  BY DEF CommandOp, Rest, OpFields
<1>2. op' = [op EXCEPT ![o] = r]
  BY DEF Begins
<1> HIDE DEF r
<1> QED BY <1>1, <1>2, OneThreadSteps

(* A thread that goes on with anything else than a command. *)
LEMMA OtherStepKeepsCommands ==
  ASSUME CommandInv, NEW o \in Operators, op[o].kind \notin {"command", "automate"}, NEW r,
         DOMAIN r = OpFields, r.kind = op[o].kind, r.asked = op[o].asked, r.sent = op[o].sent,
         op' = [op EXCEPT ![o] = r]
  PROVE  CommandInv'
<1>1. CommandOp(r)
  BY DEF CommandInv, CommandOp
<1> QED BY <1>1, OneThreadSteps

LEMMA RegistryKeepsCommands == ASSUME CommandInv, NEW o \in Operators, RegistryStep(o) PROVE CommandInv'
<1>1. ASSUME NEW heard, op' = [op EXCEPT ![o] = [Rest EXCEPT !.kind = "refresh", !.at = "write", !.heard = heard]]
      PROVE  CommandInv'
  <2> DEFINE r == [Rest EXCEPT !.kind = "refresh", !.at = "write", !.heard = heard]
  <2>1. CommandOp(r)
    BY DEF CommandOp, Rest, OpFields
  <2> HIDE DEF r
  <2> QED BY <1>1, <2>1, OneThreadSteps DEF r
<1>2. CASE WriteDevices(o)
  <2> DEFINE r == [op[o] EXCEPT !.at = "done"]
  <2>1. CommandOp(r)
    BY <1>2 DEF WriteDevices, At, CommandInv, CommandOp, OpFields
  <2>2. op' = [op EXCEPT ![o] = r]
    BY <1>2 DEF WriteDevices, GoesOn
  <2> HIDE DEF r
  <2> QED BY <2>1, <2>2, OneThreadSteps
<1>3. CASE UNCHANGED op
  BY <1>3 DEF CommandInv, CommandOp
<1> QED BY <1>1, <1>2, <1>3 DEF RegistryStep, RefreshDevices, SelectDevice

(* Where a thread is and what it has to do with may change, not more. *)
LEMMA MoveKeepsCommands ==
  ASSUME CommandInv, NEW o \in Operators, op[o].kind \notin {"command", "automate"},
         NEW step, NEW S, NEW by,
         \/ op' = [op EXCEPT ![o].at = step] \/ op' = [op EXCEPT ![o].at = step, ![o].by = by]
         \/ op' = [op EXCEPT ![o].at = step, ![o].phones = S, ![o].by = by]
  PROVE  CommandInv'
<1>1. /\ DOMAIN op' = Operators /\ \A q \in Operators : q # o => op'[q] = op[q]
      /\ DOMAIN op'[o] = OpFields /\ op'[o].kind = op[o].kind
      /\ op'[o].asked = op[o].asked /\ op'[o].sent = op[o].sent
  BY DEF CommandInv, CommandOp, OpFields
<1> QED BY <1>1 DEF CommandInv, CommandOp

LEMMA ScreensKeepCommands == ASSUME CommandInv, NEW o \in Operators, ScreenStep(o) PROVE CommandInv'
<1>1. ASSUME NEW S, ViewScreens(o, S) PROVE CommandInv'
  BY <1>1, BeginKeepsCommands DEF ViewScreens
<1>2. CASE LookAtScreen(o) \/ StartMirror(o) \/ LaunchMirror(o)
  <2>1. op[o].kind = "screen"
    BY <1>2 DEF LookAtScreen, StartMirror, LaunchMirror, At
  <2>2. ASSUME NEW S, NextScreen(o, S) PROVE CommandInv'
    <3> DEFINE step == IF S = {} THEN "done" ELSE "look"
    <3>1. op' = [op EXCEPT ![o].at = step, ![o].phones = S, ![o].by = nobody]
      BY <2>2 DEF NextScreen
    <3> HIDE DEF step
    <3> QED BY <2>1, <3>1, MoveKeepsCommands
  <2>3. ASSUME NEW step, GoesOn(o, step) PROVE CommandInv'
    BY <2>1, <2>3, MoveKeepsCommands DEF GoesOn
  <2>4. CASE LookAtScreen(o)
    <3>1. PICK d : op' = [op EXCEPT ![o].at = "start", ![o].by = d] \/ NextScreen(o, op[o].phones \ {d})
      BY <2>4 DEF LookAtScreen
    <3> QED BY <2>1, <2>2, <3>1, MoveKeepsCommands
  <2> QED BY <1>2, <2>2, <2>3, <2>4 DEF StartMirror, LaunchMirror
<1> QED BY <1>1, <1>2 DEF ScreenStep

LEMMA CompanionKeepsCommands == ASSUME CommandInv, NEW o \in Operators, CompanionStep(o) PROVE CommandInv'
<1>1. ASSUME NEW d \in Phones, ReadNotifications(o, d) PROVE CommandInv'
  BY <1>1, BeginKeepsCommands DEF ReadNotifications
<1>2. CASE TakePort(o) \/ AdvancePort(o) \/ ForwardPort(o) \/ AskCompanion(o)
  <2>1. op[o].kind = "notifications"
    BY <1>2 DEF TakePort, AdvancePort, ForwardPort, AskCompanion, At
  <2>2. PICK step, by : op' = [op EXCEPT ![o].at = step] \/ op' = [op EXCEPT ![o].at = step, ![o].by = by]
    BY <1>2 DEF TakePort, AdvancePort, ForwardPort, AskCompanion, GoesOn
  <2> QED BY <2>1, <2>2, MoveKeepsCommands
<1> QED BY <1>1, <1>2 DEF CompanionStep

LEMMA CommandsKeepCommands == ASSUME CommandInv, NEW o \in Operators, CommandStep(o) PROVE CommandInv'
<1>1. ASSUME NEW d \in Phones, SendCommand(o, d) PROVE CommandInv'
  BY <1>1, BeginKeepsCommands DEF SendCommand
<1>2. ASSUME NEW d \in Phones, NEW n \in 1..MaxTaps, Automate(o, d, n) PROVE CommandInv'
  BY <1>2, BeginKeepsCommands, PhonesAssumption DEF Automate
<1>3. CASE LookAtPhone(o) \/ Recheck(o)
  <2>1. PICK step : /\ op' = [op EXCEPT ![o].at = step]
                    /\ \/ step \in {"look", "send", "failed"} /\ op[o].at \in {"state", "look"}
                       \/ step = "done" /\ op[o].at = "recheck"
                    /\ op[o].kind \in {"command", "automate"}
    BY <1>3 DEF LookAtPhone, Recheck, GoesOn, At
  <2> DEFINE r == [op[o] EXCEPT !.at = step]
  <2>2. CommandOp(r)
    BY <2>1 DEF CommandInv, CommandOp, OpFields
  <2>3. op' = [op EXCEPT ![o] = r]
    BY <2>1
  <2> HIDE DEF r
  <2> QED BY <2>2, <2>3, OneThreadSteps
<1>4. CASE RunCommand(o)
  <2>1. op[o].kind \in {"command", "automate"} /\ op[o].at = "send" /\ op[o].sent < op[o].asked
        /\ CommandOp(op[o])
    BY <1>4 DEF RunCommand, At, CommandInv, CommandOp
  <2>2. CASE op' = [op EXCEPT ![o].at = AfterCommand(o), ![o].sent = @ + 1]
    <3> DEFINE r == [op[o] EXCEPT !.at = AfterCommand(o), !.sent = @ + 1]
    <3>1. CommandOp(r)
      BY <2>1 DEF AfterCommand, CommandOp, OpFields
    <3>2. op' = [op EXCEPT ![o] = r]
      BY <2>2
    <3> HIDE DEF r
    <3> QED BY <3>1, <3>2, OneThreadSteps
  <2>3. CASE GoesOn(o, "failed")
    <3> DEFINE r == [op[o] EXCEPT !.at = "failed"]
    <3>1. CommandOp(r)
      BY <2>1 DEF CommandOp, OpFields
    <3>2. op' = [op EXCEPT ![o] = r]
      BY <2>3 DEF GoesOn
    <3> HIDE DEF r
    <3> QED BY <3>1, <3>2, OneThreadSteps
  <2> QED BY <1>4, <2>2, <2>3 DEF RunCommand, AfterError
<1> QED BY <1>1, <1>2, <1>3, <1>4 DEF CommandStep

LEMMA CommandNext == ASSUME CommandInv, [DevicesNext]_deviceVars PROVE CommandInv'
<1>1. CASE UNCHANGED deviceVars
  BY <1>1 DEF deviceVars, CommandInv, CommandOp
<1> QED BY <1>1, OutsideKeepsCommands, RegistryKeepsCommands, ScreensKeepCommands, CompanionKeepsCommands,
           CommandsKeepCommands DEF DevicesNext

(* A command or an automation that is reported as done was done by the phone,
   every step of it, once each (AndroidAdbProvider._command, DeviceAutomation.run):
   for any phones, any number of threads, and however phones come and go. *)
THEOREM CommandsAreAlwaysDone == DevicesSpec => []CommandsAreDone
<1>1. CommandInv => CommandsAreDone
  BY DEF CommandInv, CommandOp, CommandsAreDone, At
<1> QED BY <1>1, CommandsStart, CommandNext, PTL DEF DevicesSpec

(* The rest needs that one thread at a time calls the tool: two of them start two
   mirrors of a phone, or give two phones one port. *)
OneOperator == \A o, q \in Operators : o = q

(* A mirror that is about to be launched does not run. *)
MirrorOp(r, mirrors) ==
  /\ r.phones \subseteq Phones
  /\ r.kind = "screen" /\ r.at \in {"start", "launch"} => r.by \in Phones
  /\ r.kind = "screen" /\ r.at = "launch" => mirrors[r.by] # "runs"

MirrorInv == DOMAIN mirror = Phones /\ orphans = {} /\ \A o \in Operators : MirrorOp(op[o], mirror)

(* No two phones have a port in common; the next one is free, but for the moment
   in which it was given away; there are ports enough; and what is asked is asked
   by the port of the phone. *)
WithPort == {d \in Phones : port[d] # 0}
Advancing(o) == At(o, {"notifications"}, "advance")
PortOp(r, ports, forwards) ==
  r.kind = "notifications" =>
    \E d \in Phones :
      /\ r.phones = {d}
      /\ r.at \in {"advance", "forward", "request"} => ports[d] # 0
      /\ r.at = "request" => forwards[ports[d]] \in {d, nobody}
      /\ r.at = "done" => r.by = d

PortInv ==
  /\ port \in [Phones -> 0..Cardinality(Phones)] /\ nextPort \in Nat \ {0} /\ forward \in [Ports -> Phones \cup {nobody}]
  /\ \A d, e \in Phones : port[d] = port[e] /\ port[d] # 0 => d = e
  /\ \A d \in Phones : port[d] <= nextPort
  /\ (\E o \in Operators : Advancing(o)) => Cardinality(WithPort) = nextPort
  /\ (\A o \in Operators : ~Advancing(o)) =>
       Cardinality(WithPort) + 1 = nextPort /\ \A d \in Phones : port[d] # nextPort
  /\ \A o \in Operators : PortOp(op[o], port, forward)

PhonesInv == CommandInv /\ MirrorInv /\ PortInv

LEMMA PhonesStart == ASSUME DevicesInit PROVE PhonesInv
<1>1. MirrorInv
  BY DEF DevicesInit, MirrorInv, MirrorOp, Rest
<1>2. PortInv
  <2>1. port \in [Phones -> 0..Cardinality(Phones)]
    BY FS_CardinalityType, PhonesAssumption DEF DevicesInit
  <2>2. WithPort = {} /\ Cardinality(WithPort) = 0
    <3>1. WithPort = {}
      BY DEF DevicesInit, WithPort
    <3> QED BY <3>1, FS_EmptySet
  <2>3. forward \in [Ports -> Phones \cup {nobody}]
    BY DEF DevicesInit
  <2>4. \A o \in Operators : PortOp(op[o], port, forward) /\ ~Advancing(o)
    BY DEF DevicesInit, Rest, PortOp, Advancing, At
  <2>5. nextPort = 1 /\ \A d \in Phones : port[d] = 0
    BY DEF DevicesInit
  <2> QED BY <2>1, <2>2, <2>3, <2>4, <2>5 DEF PortInv
<1> QED BY <1>1, <1>2, CommandsStart DEF PhonesInv

(* What the mirrors come to with a step of the thread that calls. *)
LEMMA MirrorStep ==
  ASSUME OneOperator, NEW o \in Operators, DOMAIN mirror' = Phones, orphans' = {}, MirrorOp(op'[o], mirror')
  PROVE  MirrorInv'
BY DEF OneOperator, MirrorInv, MirrorOp

LEMMA ScreensKeepMirrors ==
  ASSUME OneOperator, PhonesInv, NEW o \in Operators, ScreenStep(o)
  PROVE  MirrorInv'
<1> USE DEF OpFields
<1>1. DOMAIN op = Operators /\ DOMAIN op[o] = OpFields /\ MirrorOp(op[o], mirror)
      /\ DOMAIN mirror = Phones /\ orphans = {}
  BY DEF PhonesInv, CommandInv, CommandOp, MirrorInv
<1>2. ASSUME NEW S, NextScreen(o, S), S \subseteq Phones
      PROVE  op'[o].phones \subseteq Phones /\ op'[o].at \in {"done", "look"}
  BY <1>1, <1>2 DEF NextScreen
<1>3. ASSUME NEW S, ViewScreens(o, S) PROVE MirrorInv'
  <2>1. op'[o].at = "look" /\ op'[o].phones \subseteq Phones /\ mirror' = mirror /\ orphans' = orphans
    BY <1>1, <1>3 DEF ViewScreens, Begins, Rest, ListedPhones, mirrorVars
  <2> QED BY <1>1, <2>1, MirrorStep DEF MirrorOp
<1>4. CASE LookAtScreen(o)
  <2>1. mirror' = mirror /\ orphans' = orphans
    BY <1>4 DEF LookAtScreen, mirrorVars
  <2>2. PICK d \in op[o].phones :
          op' = [op EXCEPT ![o].at = "start", ![o].by = d] \/ NextScreen(o, op[o].phones \ {d})
    BY <1>4 DEF LookAtScreen
  <2>3. MirrorOp(op'[o], mirror')
    BY <1>1, <1>2, <2>2 DEF MirrorOp
  <2> QED BY <1>1, <2>1, <2>3, MirrorStep
<1>5. CASE StartMirror(o)
  <2>1. op[o].by \in Phones /\ op[o].phones \subseteq Phones /\ orphans' = orphans
    BY <1>1, <1>5 DEF StartMirror, At, MirrorOp
  <2>2. DOMAIN mirror' = Phones
    BY <1>1, <1>5 DEF StartMirror
  <2>3. MirrorOp(op'[o], mirror')
    <3>1. CASE Mirrored(op[o].by)
      BY <1>2, <1>5, <2>1, <3>1 DEF StartMirror, MirrorOp
    <3>2. CASE ~Mirrored(op[o].by)
      <4>1. op'[o].by = op[o].by /\ op'[o].phones = op[o].phones
        BY <1>1, <1>5, <3>2 DEF StartMirror, GoesOn
      <4>2. mirror'[op[o].by] = "none"
        BY <1>1, <1>5, <2>1, <3>2 DEF StartMirror
      <4> QED BY <2>1, <4>1, <4>2 DEF MirrorOp
    <3> QED BY <3>1, <3>2
  <2> QED BY <1>1, <2>1, <2>2, <2>3, MirrorStep
<1>6. CASE LaunchMirror(o)
  <2>1. op[o].by \in Phones /\ op[o].phones \subseteq Phones /\ mirror[op[o].by] # "runs"
    BY <1>1, <1>6 DEF LaunchMirror, At, MirrorOp
  <2>2. DOMAIN mirror' = Phones /\ orphans' = {}
    BY <1>1, <1>6, <2>1 DEF LaunchMirror, mirrorVars, Mirrored
  <2>3. MirrorOp(op'[o], mirror')
    BY <1>2, <1>6, <2>1 DEF LaunchMirror, MirrorOp
  <2> QED BY <2>2, <2>3, MirrorStep
<1> QED BY <1>3, <1>4, <1>5, <1>6 DEF ScreenStep

LEMMA OthersKeepMirrors ==
  ASSUME OneOperator, PhonesInv, NEW o \in Operators, RegistryStep(o) \/ CompanionStep(o) \/ CommandStep(o)
  PROVE  MirrorInv'
<1> USE DEF OpFields
<1>1. DOMAIN op = Operators /\ DOMAIN op[o] = OpFields /\ MirrorOp(op[o], mirror)
      /\ DOMAIN mirror = Phones /\ orphans = {}
  BY DEF PhonesInv, CommandInv, CommandOp, MirrorInv
<1>2. mirror' = mirror /\ orphans' = orphans
  <2>1. CASE RegistryStep(o)
    BY <2>1 DEF RegistryStep, RefreshDevices, WriteDevices, SelectDevice, mirrorVars
  <2>2. CASE CompanionStep(o)
    BY <2>2 DEF CompanionStep, TakePort, AdvancePort, ForwardPort, AskCompanion, ReadNotifications, mirrorVars
  <2>3. CASE CommandStep(o)
    BY <2>3 DEF CommandStep, LookAtPhone, RunCommand, Recheck, SendCommand, Automate, mirrorVars
  <2> QED BY <2>1, <2>2, <2>3
<1>3. ASSUME NEW k, k # "screen", NEW step, NEW S, S \subseteq Phones, NEW n, Begins(o, k, step, S, n) PROVE MirrorInv'
  <2>1. op'[o].kind = k /\ op'[o].phones = S
    BY <1>1, <1>3 DEF Begins, Rest
  <2> QED BY <1>1, <1>2, <1>3, <2>1, MirrorStep DEF MirrorOp
<1>4. ASSUME op[o].kind # "screen", op'[o].kind = op[o].kind, op'[o].phones = op[o].phones PROVE MirrorInv'
  BY <1>1, <1>2, <1>4, MirrorStep DEF MirrorOp
<1>5. CASE RegistryStep(o)
  <2>1. CASE RefreshDevices(o)
    <3>1. op'[o].kind = "refresh" /\ op'[o].phones = {}
      BY <1>1, <2>1 DEF RefreshDevices, Rest
    <3> QED BY <1>1, <1>2, <3>1, MirrorStep DEF MirrorOp
  <2>2. CASE WriteDevices(o)
    BY <1>1, <1>4, <2>2 DEF WriteDevices, At, GoesOn
  <2>3. CASE UNCHANGED op
    BY <1>1, <1>2, <2>3, MirrorStep
  <2> QED BY <1>5, <2>1, <2>2, <2>3 DEF RegistryStep, SelectDevice
<1>6. CASE CompanionStep(o)
  <2>1. ASSUME NEW d \in Phones, ReadNotifications(o, d) PROVE MirrorInv'
    BY <1>3, <2>1 DEF ReadNotifications
  <2>2. CASE TakePort(o) \/ AdvancePort(o) \/ ForwardPort(o) \/ AskCompanion(o)
    BY <1>1, <1>4, <2>2 DEF TakePort, AdvancePort, ForwardPort, AskCompanion, At, GoesOn
  <2> QED BY <1>6, <2>1, <2>2 DEF CompanionStep
<1>7. CASE CommandStep(o)
  <2>1. ASSUME NEW d \in Phones, SendCommand(o, d) PROVE MirrorInv'
    BY <1>3, <2>1 DEF SendCommand
  <2>2. ASSUME NEW d \in Phones, NEW n, Automate(o, d, n) PROVE MirrorInv'
    BY <1>3, <2>2 DEF Automate
  <2>3. CASE LookAtPhone(o) \/ RunCommand(o) \/ Recheck(o)
    BY <1>1, <1>4, <2>3 DEF LookAtPhone, RunCommand, Recheck, At, GoesOn
  <2> QED BY <1>7, <2>1, <2>2, <2>3 DEF CommandStep
<1> QED BY <1>5, <1>6, <1>7

LEMMA OutsideKeepsMirrors == ASSUME PhonesInv, Outside PROVE MirrorInv'
<1>1. CASE AdbRestarts
  BY <1>1 DEF AdbRestarts, mirrorVars, PhonesInv, MirrorInv, MirrorOp
<1>2. ASSUME NEW d \in Phones, MirrorEnds(d) PROVE MirrorInv'
  BY <1>2 DEF MirrorEnds, PhonesInv, MirrorInv, MirrorOp
<1>3. ASSUME NEW d \in Phones, NEW s, Replug(d, s) PROVE MirrorInv'
  <2>1. ASSUME NEW o \in Operators
        PROVE  op'[o].kind = op[o].kind /\ op'[o].at = op[o].at /\ op'[o].by = op[o].by /\ op'[o].phones = op[o].phones
    BY <1>3, <2>1 DEF Replug, PhonesInv, CommandInv, CommandOp, OpFields
  <2> QED BY <1>3, <2>1 DEF Replug, mirrorVars, PhonesInv, MirrorInv, MirrorOp
<1> QED BY <1>1, <1>2, <1>3 DEF Outside

(* What the ports come to with a step of the thread that calls. *)
LEMMA PortsAreFinite == WithPort \subseteq Phones /\ IsFiniteSet(WithPort) /\ Cardinality(WithPort) \in Nat
<1>1. WithPort \subseteq Phones
  BY DEF WithPort
<1> QED BY <1>1, PhonesAssumption, FS_Subset, FS_CardinalityType

LEMMA NotAdvancing ==
  ASSUME OneOperator, PhonesInv, NEW o \in Operators, ~Advancing(o)
  PROVE  Cardinality(WithPort) + 1 = nextPort /\ \A d \in Phones : port[d] # nextPort
BY DEF OneOperator, PhonesInv, PortInv

LEMMA OthersKeepPorts ==
  ASSUME OneOperator, PhonesInv, NEW o \in Operators, ~Advancing(o), UNCHANGED <<forward, portVars>>,
         ~Advancing(o)', PortOp(op'[o], port, forward)
  PROVE  PortInv'
<1>1. port' = port /\ nextPort' = nextPort /\ forward' = forward
  BY DEF portVars
<1>2. WithPort' = WithPort
  BY <1>1 DEF WithPort
<1>3. (\A q \in Operators : ~Advancing(q))' /\ (\A q \in Operators : PortOp(op[q], port, forward))'
  <2>1. \A q \in Operators : q = o
    BY DEF OneOperator
  <2>2. (\A q \in Operators : ~Advancing(q))'
    BY <2>1
  <2>3. ASSUME NEW q \in Operators PROVE PortOp(op'[q], port', forward')
    BY <1>1, <2>1
  <2> QED BY <2>2, <2>3
<1> QED BY <1>1, <1>2, <1>3, NotAdvancing DEF PhonesInv, PortInv

LEMMA OtherStepsKeepPorts ==
  ASSUME OneOperator, PhonesInv, NEW o \in Operators, RegistryStep(o) \/ ScreenStep(o) \/ CommandStep(o)
  PROVE  PortInv'
<1> USE DEF OpFields
<1>1. DOMAIN op = Operators /\ DOMAIN op[o] = OpFields /\ PortOp(op[o], port, forward)
  BY DEF PhonesInv, CommandInv, CommandOp, PortInv
<1>2. UNCHANGED <<forward, portVars>>
  <2>1. CASE RegistryStep(o)
    BY <2>1 DEF RegistryStep, RefreshDevices, WriteDevices, SelectDevice, adbVars
  <2>2. CASE ScreenStep(o)
    BY <2>2 DEF ScreenStep, ViewScreens, LookAtScreen, StartMirror, LaunchMirror, adbVars
  <2>3. CASE CommandStep(o)
    BY <2>3 DEF CommandStep, LookAtPhone, RunCommand, Recheck, SendCommand, Automate, adbVars
  <2> QED BY <2>1, <2>2, <2>3
<1>3. ASSUME op'[o].kind # "notifications", op[o].kind # "notifications" \/ Idle(o) PROVE PortInv'
  <2>1. ~Advancing(o) /\ ~Advancing(o)' /\ PortOp(op'[o], port, forward)
    BY <1>3 DEF Advancing, At, Idle, PortOp
  <2> QED BY <1>2, <2>1, OthersKeepPorts
<1>4. ASSUME NEW k, k # "notifications", NEW step, NEW S, NEW n, Begins(o, k, step, S, n) PROVE PortInv'
  <2>1. op'[o].kind = k /\ Idle(o)
    BY <1>1, <1>4 DEF Begins, Rest
  <2> QED BY <1>3, <1>4, <2>1
<1>5. ASSUME op[o].kind # "notifications", op'[o].kind = op[o].kind PROVE PortInv'
  BY <1>3, <1>5
<1>6. CASE RegistryStep(o)
  <2>1. CASE RefreshDevices(o)
    <3>1. op'[o].kind = "refresh" /\ Idle(o)
      BY <1>1, <2>1 DEF RefreshDevices, Rest
    <3> QED BY <1>3, <3>1
  <2>2. CASE WriteDevices(o)
    BY <1>1, <1>5, <2>2 DEF WriteDevices, At, GoesOn
  <2>3. CASE UNCHANGED op
    BY <1>2, <2>3 DEF PhonesInv, PortInv, portVars, WithPort, PortOp, Advancing, At
  <2> QED BY <1>6, <2>1, <2>2, <2>3 DEF RegistryStep, SelectDevice
<1>7. CASE ScreenStep(o)
  <2>1. ASSUME NEW S, ViewScreens(o, S) PROVE PortInv'
    BY <1>4, <2>1 DEF ViewScreens
  <2>2. ASSUME NEW S, NextScreen(o, S) PROVE op'[o].kind = op[o].kind
    BY <1>1, <2>2 DEF NextScreen
  <2>3. ASSUME NEW step, GoesOn(o, step) PROVE op'[o].kind = op[o].kind
    BY <1>1, <2>3 DEF GoesOn
  <2>4. CASE LookAtScreen(o) \/ StartMirror(o) \/ LaunchMirror(o)
    <3>1. op[o].kind = "screen"
      BY <2>4 DEF LookAtScreen, StartMirror, LaunchMirror, At
    <3>2. CASE LookAtScreen(o)
      <4>1. PICK d : op' = [op EXCEPT ![o].at = "start", ![o].by = d] \/ NextScreen(o, op[o].phones \ {d})
        BY <3>2 DEF LookAtScreen
      <4> QED BY <1>1, <1>5, <2>2, <3>1, <4>1
    <3>3. CASE StartMirror(o) \/ LaunchMirror(o)
      BY <1>5, <2>2, <2>3, <3>1, <3>3 DEF StartMirror, LaunchMirror
    <3> QED BY <2>4, <3>2, <3>3
  <2> QED BY <1>7, <2>1, <2>4 DEF ScreenStep
<1>8. CASE CommandStep(o)
  <2>1. ASSUME NEW d \in Phones, SendCommand(o, d) PROVE PortInv'
    BY <1>4, <2>1 DEF SendCommand
  <2>2. ASSUME NEW d \in Phones, NEW n, Automate(o, d, n) PROVE PortInv'
    BY <1>4, <2>2 DEF Automate
  <2>3. CASE LookAtPhone(o) \/ RunCommand(o) \/ Recheck(o)
    BY <1>1, <1>5, <2>3 DEF LookAtPhone, RunCommand, Recheck, At, GoesOn
  <2> QED BY <1>8, <2>1, <2>2, <2>3 DEF CommandStep
<1> QED BY <1>6, <1>7, <1>8

(* The phone whose notifications are asked for. *)
LEMMA PhoneIsKnown ==
  ASSUME NEW o \in Operators, PortOp(op[o], port, forward), op[o].kind = "notifications"
  PROVE  /\ Phone(o) \in Phones /\ op[o].phones = {Phone(o)}
         /\ op[o].at \in {"advance", "forward", "request"} => port[Phone(o)] # 0
         /\ op[o].at = "request" => forward[port[Phone(o)]] \in {Phone(o), nobody}
<1>1. PICK d \in Phones :
        /\ op[o].phones = {d} /\ (op[o].at \in {"advance", "forward", "request"} => port[d] # 0)
        /\ (op[o].at = "request" => forward[port[d]] \in {d, nobody})
  BY DEF PortOp
<1>2. Phone(o) = d
  BY <1>1 DEF Phone
<1> QED BY <1>1, <1>2

LEMMA TakePortKeeps ==
  ASSUME OneOperator, PhonesInv, NEW o \in Operators, TakePort(o)
  PROVE  PortInv'
<1> DEFINE d == Phone(o)
<1>1. /\ DOMAIN op = Operators /\ DOMAIN op[o] = OpFields /\ PortOp(op[o], port, forward) /\ ~Advancing(o)
      /\ op[o].kind = "notifications" /\ op[o].at = "port"
  BY DEF PhonesInv, CommandInv, CommandOp, PortInv, TakePort, Advancing, At
<1>2. d \in Phones /\ op[o].phones = {d}
  BY <1>1, PhoneIsKnown
<1>3. forward' = forward /\ nextPort' = nextPort
  BY DEF TakePort, adbVars
<1>4. CASE port[d] = 0
  <2>1. port' = [port EXCEPT ![d] = nextPort] /\ op' = [op EXCEPT ![o].at = "advance"]
    BY <1>4 DEF TakePort, GoesOn
  <2>2. /\ op'[o].kind = "notifications" /\ op'[o].at = "advance" /\ op'[o].phones = {d}
    BY <1>1, <1>2, <2>1 DEF OpFields
  <2>3. /\ port \in [Phones -> 0..Cardinality(Phones)] /\ nextPort \in Nat \ {0}
        /\ (\A e \in Phones : port[e] <= nextPort)
        /\ \A e, f \in Phones : port[e] = port[f] /\ port[e] # 0 => e = f
    BY DEF PhonesInv, PortInv
  <2>4. port'[d] = nextPort /\ \A e \in Phones : e # d => port'[e] = port[e]
    BY <1>2, <2>1, <2>3
  <2> HIDE DEF d
  <2>5. WithPort' = WithPort \cup {d} /\ d \notin WithPort
    BY <1>2, <1>4, <2>3, <2>4 DEF WithPort
  <2>6. Cardinality(WithPort') = nextPort
    BY <1>1, <2>5, NotAdvancing, PortsAreFinite, FS_AddElement
  <2>7. nextPort <= Cardinality(Phones) /\ Cardinality(Phones) \in Nat
    <3>1. WithPort' \subseteq Phones
      BY DEF WithPort
    <3> QED BY <2>6, <3>1, PhonesAssumption, FS_Subset, FS_CardinalityType
  <2>8. port' \in [Phones -> 0..Cardinality(Phones)]
    BY <1>2, <2>1, <2>3, <2>7
  <2>9. /\ (\A e, f \in Phones : port[e] = port[f] /\ port[e] # 0 => e = f)'
        /\ (\A e \in Phones : port[e] <= nextPort)'
    BY <1>1, <1>3, <2>3, <2>4, NotAdvancing
  <2>10. (\E q \in Operators : Advancing(q))' /\ ~(\A q \in Operators : ~Advancing(q))'
    <3>1. Advancing(o)'
      BY <2>2 DEF Advancing, At
    <3> QED BY <3>1
  <2>11. PortOp(op'[o], port', forward')
    BY <1>2, <2>2, <2>3, <2>4 DEF PortOp
  <2>12. \A q \in Operators : PortOp(op'[q], port', forward')
    BY <2>11 DEF OneOperator
  <2>13. forward' \in [Ports -> Phones \cup {nobody}] /\ nextPort' \in Nat \ {0}
    BY <1>3 DEF PhonesInv, PortInv
  <2> QED BY <1>3, <2>6, <2>8, <2>9, <2>10, <2>12, <2>13 DEF PortInv
<1>5. CASE port[d] # 0
  <2>1. UNCHANGED <<forward, portVars>> /\ op' = [op EXCEPT ![o].at = "forward"]
    BY <1>3, <1>5 DEF TakePort, GoesOn, portVars
  <2>2. op'[o].kind = "notifications" /\ op'[o].at = "forward" /\ op'[o].phones = {d}
    BY <1>1, <1>2, <2>1 DEF OpFields
  <2> HIDE DEF d
  <2>3. PortOp(op'[o], port, forward) /\ ~Advancing(o)'
    BY <1>2, <1>5, <2>2 DEF PortOp, Advancing, At
  <2> QED BY <1>1, <2>1, <2>3, OthersKeepPorts
<1> QED BY <1>4, <1>5

LEMMA AdvancePortKeeps ==
  ASSUME OneOperator, PhonesInv, NEW o \in Operators, AdvancePort(o)
  PROVE  PortInv'
<1> DEFINE d == Phone(o)
<1>1. /\ DOMAIN op = Operators /\ DOMAIN op[o] = OpFields /\ PortOp(op[o], port, forward) /\ Advancing(o)
      /\ op[o].kind = "notifications" /\ op[o].at = "advance"
  BY DEF PhonesInv, CommandInv, CommandOp, PortInv, AdvancePort, Advancing, At
<1>2. d \in Phones /\ op[o].phones = {d} /\ port[d] # 0
  BY <1>1, PhoneIsKnown
<1>3. forward' = forward /\ port' = port /\ nextPort' = nextPort + 1 /\ op' = [op EXCEPT ![o].at = "forward"]
  BY DEF AdvancePort, adbVars, GoesOn
<1>4. op'[o].kind = "notifications" /\ op'[o].at = "forward" /\ op'[o].phones = {d}
  BY <1>1, <1>2, <1>3 DEF OpFields
<1> HIDE DEF d
<1>5. /\ port \in [Phones -> 0..Cardinality(Phones)] /\ nextPort \in Nat \ {0}
      /\ (\A e \in Phones : port[e] <= nextPort) /\ Cardinality(WithPort) = nextPort
  BY <1>1 DEF PhonesInv, PortInv
<1>6. \A e \in Phones : port'[e] <= nextPort' /\ port'[e] # nextPort'
  <2>1. TAKE e \in Phones
  <2>2. port[e] \in Nat /\ port[e] <= nextPort
    BY <1>5, PhonesAssumption, FS_CardinalityType
  <2> QED BY <1>3, <1>5, <2>2
<1>7. WithPort' = WithPort /\ Cardinality(WithPort') + 1 = nextPort'
  <2>1. WithPort' = WithPort
    BY <1>3 DEF WithPort
  <2> QED BY <1>3, <1>5, <2>1
<1>8. \A q \in Operators : ~Advancing(q)' /\ PortOp(op'[q], port', forward')
  BY <1>2, <1>3, <1>4 DEF OneOperator, PortOp, Advancing, At
<1> QED BY <1>3, <1>5, <1>6, <1>7, <1>8 DEF PhonesInv, PortInv

LEMMA ForwardPortKeeps ==
  ASSUME OneOperator, PhonesInv, NEW o \in Operators, ForwardPort(o) \/ AskCompanion(o)
  PROVE  PortInv'
<1> DEFINE d == Phone(o)
<1>1. /\ DOMAIN op = Operators /\ DOMAIN op[o] = OpFields /\ PortOp(op[o], port, forward) /\ ~Advancing(o)
      /\ op[o].kind = "notifications" /\ op[o].at \in {"forward", "request"}
  BY DEF PhonesInv, CommandInv, CommandOp, PortInv, ForwardPort, AskCompanion, Advancing, At
<1>2. d \in Phones /\ op[o].phones = {d} /\ port[d] # 0
      /\ (op[o].at = "request" => forward[port[d]] \in {d, nobody})
  BY <1>1, PhoneIsKnown
<1>3. CASE GoesOn(o, "failed") /\ forward' = forward
  <2>1. op'[o].kind = "notifications" /\ op'[o].at = "failed" /\ op'[o].phones = {d}
    BY <1>1, <1>2, <1>3 DEF GoesOn, OpFields
  <2>2. UNCHANGED <<forward, portVars>>
    BY <1>3 DEF ForwardPort, AskCompanion
  <2> HIDE DEF d
  <2>3. PortOp(op'[o], port, forward) /\ ~Advancing(o)'
    BY <1>2, <2>1 DEF PortOp, Advancing, At
  <2> QED BY <1>1, <2>2, <2>3, OthersKeepPorts
<1>4. CASE ForwardPort(o) /\ GoesOn(o, "request") /\ forward' = [forward EXCEPT ![port[d]] = d]
  <2>1. op'[o].kind = "notifications" /\ op'[o].at = "request" /\ op'[o].phones = {d}
    BY <1>1, <1>2, <1>4 DEF GoesOn, OpFields
  <2>2. port' = port /\ nextPort' = nextPort
    BY <1>4 DEF ForwardPort, portVars
  <2> HIDE DEF d
  <2>3. port[d] \in Ports /\ forward \in [Ports -> Phones \cup {nobody}]
    BY <1>2, PhonesAssumption, FS_CardinalityType DEF PhonesInv, PortInv, Ports
  <2>4. forward' \in [Ports -> Phones \cup {nobody}] /\ forward'[port[d]] = d
    BY <1>2, <1>4, <2>3
  <2>5. WithPort' = WithPort
    BY <2>2 DEF WithPort
  <2>6. ~Advancing(o)' /\ PortOp(op'[o], port', forward')
    BY <1>2, <2>1, <2>2, <2>4 DEF PortOp, Advancing, At
  <2>7. \A q \in Operators : ~Advancing(q)' /\ PortOp(op'[q], port', forward')
    BY <2>6 DEF OneOperator
  <2> QED BY <1>1, <2>2, <2>4, <2>5, <2>7, NotAdvancing DEF PhonesInv, PortInv
<1>5. CASE AskCompanion(o) /\ ~GoesOn(o, "failed")
  <2>1. /\ op[o].at = "request" /\ forward[port[d]] # nobody
        /\ op' = [op EXCEPT ![o].at = "done", ![o].by = forward[port[d]]]
    BY <1>5 DEF AskCompanion, At
  <2>2. op'[o].kind = "notifications" /\ op'[o].at = "done" /\ op'[o].phones = {d} /\ op'[o].by = d
    BY <1>1, <1>2, <2>1 DEF OpFields
  <2>3. UNCHANGED <<forward, portVars>>
    BY <1>5 DEF AskCompanion, adbVars
  <2> HIDE DEF d
  <2>4. PortOp(op'[o], port, forward) /\ ~Advancing(o)'
    BY <1>2, <2>2 DEF PortOp, Advancing, At
  <2> QED BY <1>1, <2>3, <2>4, OthersKeepPorts
<1>6. ASSUME AskCompanion(o) PROVE forward' = forward
  BY <1>6 DEF AskCompanion, adbVars
<1> QED BY <1>3, <1>4, <1>5, <1>6 DEF ForwardPort

LEMMA CompanionKeepsPorts ==
  ASSUME OneOperator, PhonesInv, NEW o \in Operators, CompanionStep(o)
  PROVE  PortInv'
<1>1. ASSUME NEW d \in Phones, ReadNotifications(o, d) PROVE PortInv'
  <2>1. /\ DOMAIN op = Operators /\ Idle(o)
        /\ op' = [op EXCEPT ![o] = [Rest EXCEPT !.kind = "notifications", !.at = "port", !.phones = {d}, !.asked = 0]]
    BY <1>1 DEF PhonesInv, CommandInv, ReadNotifications, Begins
  <2>2. op'[o].kind = "notifications" /\ op'[o].at = "port" /\ op'[o].phones = {d}
    BY <2>1 DEF Rest
  <2>3. ~Advancing(o) /\ ~Advancing(o)' /\ PortOp(op'[o], port, forward)
    BY <2>1, <2>2 DEF Advancing, At, Idle, PortOp
  <2>4. UNCHANGED <<forward, portVars>>
    BY <1>1 DEF ReadNotifications, adbVars
  <2> QED BY <2>3, <2>4, OthersKeepPorts
<1> QED BY <1>1, TakePortKeeps, AdvancePortKeeps, ForwardPortKeeps DEF CompanionStep

(* Whatever happens outside leaves a port with its phone or with nobody. *)
LEMMA OutsideKeepsPorts == ASSUME PhonesInv, Outside PROVE PortInv'
<1>1. /\ port' = port /\ nextPort' = nextPort /\ WithPort' = WithPort
      /\ DOMAIN op = Operators /\ \A o \in Operators : DOMAIN op[o] = OpFields
  BY DEF Outside, MirrorEnds, Replug, AdbRestarts, portVars, WithPort, PhonesInv, CommandInv, CommandOp
<1>2. \A o \in Operators :
        op'[o].kind = op[o].kind /\ op'[o].at = op[o].at /\ op'[o].by = op[o].by /\ op'[o].phones = op[o].phones
  <2>1. CASE op' = op
    BY <2>1
  <2>2. ASSUME NEW d, NEW s, Replug(d, s)
        PROVE  \A o \in Operators :
                 op'[o].kind = op[o].kind /\ op'[o].at = op[o].at /\ op'[o].by = op[o].by /\ op'[o].phones = op[o].phones
    BY <1>1, <2>2 DEF Replug, OpFields
  <2> QED BY <2>1, <2>2 DEF Outside, MirrorEnds, AdbRestarts
<1>3. forward \in [Ports -> Phones \cup {nobody}] /\ forward' \in [Ports -> Phones \cup {nobody}]
      /\ \A p \in Ports : forward'[p] \in {forward[p], nobody}
  BY DEF PhonesInv, PortInv, Outside, MirrorEnds, Replug, AdbRestarts, adbVars
<1>4. \A d \in Phones : port[d] # 0 => port[d] \in Ports
  BY PhonesAssumption, FS_CardinalityType DEF PhonesInv, PortInv, Ports
<1>5. ASSUME NEW o \in Operators PROVE PortOp(op'[o], port', forward')
  <2>1. SUFFICES ASSUME op[o].kind = "notifications" PROVE PortOp(op'[o], port', forward')
    BY <1>2 DEF PortOp
  <2>2. PICK d \in Phones :
          /\ op[o].phones = {d}
          /\ op[o].at \in {"advance", "forward", "request"} => port[d] # 0
          /\ op[o].at = "request" => forward[port[d]] \in {d, nobody}
          /\ op[o].at = "done" => op[o].by = d
    BY <2>1 DEF PhonesInv, PortInv, PortOp
  <2>3. op[o].at = "request" => forward'[port[d]] \in {d, nobody}
    BY <1>3, <1>4, <2>2
  <2> QED BY <1>1, <1>2, <2>2, <2>3 DEF PortOp
<1>6. \A o \in Operators : Advancing(o)' <=> Advancing(o)
  BY <1>2 DEF Advancing, At
<1>7. (\A o \in Operators : PortOp(op[o], port, forward))'
  BY <1>5 DEF PortOp
<1>8. ((\E o \in Operators : Advancing(o))' <=> \E o \in Operators : Advancing(o))
      /\ ((\A o \in Operators : ~Advancing(o))' <=> \A o \in Operators : ~Advancing(o))
  BY <1>6
<1> QED BY <1>1, <1>3, <1>7, <1>8 DEF PhonesInv, PortInv

LEMMA PhonesNext == ASSUME OneOperator, PhonesInv, [DevicesNext]_deviceVars PROVE PhonesInv'
<1>1. CASE DevicesNext
  <2>1. CommandInv'
    BY CommandNext DEF PhonesInv
  <2>2. CASE Outside
    BY <2>1, <2>2, OutsideKeepsMirrors, OutsideKeepsPorts DEF PhonesInv
  <2>3. ASSUME NEW o \in Operators, RegistryStep(o) \/ CommandStep(o) PROVE PhonesInv'
    BY <2>1, <2>3, OthersKeepMirrors, OtherStepsKeepPorts DEF PhonesInv
  <2>4. ASSUME NEW o \in Operators, ScreenStep(o) PROVE PhonesInv'
    BY <2>1, <2>4, ScreensKeepMirrors, OtherStepsKeepPorts DEF PhonesInv
  <2>5. ASSUME NEW o \in Operators, CompanionStep(o) PROVE PhonesInv'
    BY <2>1, <2>5, OthersKeepMirrors, CompanionKeepsPorts DEF PhonesInv
  <2> QED BY <1>1, <2>2, <2>3, <2>4, <2>5 DEF DevicesNext
<1>2. CASE UNCHANGED deviceVars
  <2>1. CommandInv'
    BY CommandNext DEF PhonesInv
  <2>2. MirrorInv'
    BY <1>2 DEF deviceVars, mirrorVars, PhonesInv, MirrorInv, MirrorOp
  <2>3. PortInv'
    BY <1>2 DEF deviceVars, adbVars, portVars, PhonesInv, PortInv, PortOp, WithPort, Advancing, At
  <2> QED BY <2>1, <2>2, <2>3 DEF PhonesInv
<1> QED BY <1>1, <1>2

(* With one thread at a time that calls the tool, what is reported as done of a
   phone was done by that phone, all of it, its notifications come from it and
   through a port of its own, and no phone is shown by two mirrors
   (AndroidCompanionClient.request, MultiDeviceMirrorManager.start,
   AndroidAdbProvider._command): for any number of phones, whichever of them are
   unplugged or come back between any two steps, whenever adb fails or starts
   again and mirrors end. *)
THEOREM PhonesDoAsTold ==
  ASSUME OneOperator
  PROVE  DevicesSpec => []DoneAsTold
<1>1. PhonesInv /\ [DevicesNext]_deviceVars => PhonesInv'
  BY PhonesNext
<1>2. PhonesInv => DoneAsTold
  <2> SUFFICES ASSUME PhonesInv PROVE DoneAsTold
    OBVIOUS
  <2>2. CommandsAreDone
    BY DEF PhonesInv, CommandInv, CommandOp, CommandsAreDone, At
  <2>3. AnswersAreOwn
    BY DEF PhonesInv, PortInv, PortOp, AnswersAreOwn, At
  <2> QED BY <2>2, <2>3 DEF DoneAsTold, PhonesInv, MirrorInv
<1> QED BY <1>1, <1>2, PhonesStart, PTL DEF DevicesSpec

-----------------------------------------------------------------------------
(* The history of the shapes *)

CallFields == {"op", "step", "todo", "id", "entries", "fits", "done"}
IsChanged(es, id) == id \in DOMAIN es /\ es[id].shape = "changed"

(* Neither the world nor its file holds a change of the entity that would have to
   be reverted. *)
Clean(id) ==
  /\ IsChanged(entities, id) => undone[id] = "lost"
  /\ IsChanged(worldFile.entities, id) => undone[id] # "no"

ChangeCall(r) ==
  /\ r.done = {} /\ r.step \in {"next", "change", "place"}
  /\ r.op = "create" => r.todo \subseteq Nodes
  /\ r.op = "apply" => r.todo \subseteq DOMAIN entities
  /\ r.step = "change" => r.id \in DOMAIN history

RevertCall(r) ==
  /\ r.step \in {"next", "layout"} /\ r.todo \subseteq DOMAIN r.entries /\ r.done \subseteq DOMAIN r.entries
  /\ DOMAIN r.entries \subseteq DOMAIN history /\ \A id \in DOMAIN r.entries : r.entries[id] = history[id]
  /\ \A id \in r.done : Clean(id)
  /\ r.step = "layout" => r.id \in DOMAIN r.entries /\ (r.fits => Clean(r.id))

ShapeCall(r) ==
  /\ DOMAIN r = CallFields /\ r.op \in {"idle", "create", "apply", "revert"}
  /\ r.op = "idle" => r.step = "next"
  /\ r.op \in {"create", "apply"} => ChangeCall(r)
  /\ r.op = "revert" => RevertCall(r)

AreEntities(es) == DOMAIN es \subseteq Nodes /\ \A id \in DOMAIN es : es[id] \in Entity

AreFirstStates ==
  /\ history = [id \in DOMAIN history |-> history[id]] /\ DOMAIN history \subseteq Nodes /\ historyFile = history
  /\ \A id \in DOMAIN history :
       /\ IF history[id].generated THEN history[id].entity = NoEntity ELSE history[id].entity \in Entity
       /\ undone[id] # "lost" => history[id].entity.shape # "changed"

ShapeInv ==
  /\ AreEntities(entities) /\ AreEntities(worldFile.entities) /\ AreFirstStates
  /\ undone \in [Nodes -> {"no", "reverted", "lost"}]
  /\ \A id \in Nodes :
       /\ IsChanged(entities, id) /\ undone[id] # "lost" => id \in DOMAIN history
       /\ IsChanged(worldFile.entities, id) /\ undone[id] = "no" => id \in DOMAIN history
  /\ DOMAIN shaping = Shapers /\ \A c \in Shapers : ShapeCall(shaping[c])

(* One thread at a time calls the controller: of two, the one's revert may forget
   what the other's change relies on. *)
OneShaper == \A c, d \in Shapers : c = d

LEMMA NewIsEntity == NewEntity \in Entity /\ ~(NoEntity \in Entity) /\ NewEntity.shape # "changed" /\ NoEntity.shape # "changed"
BY DEF NewEntity, NoEntity, Entity, Shapes

(* What upserting does to the entities. *)
LEMMA UpsertChange ==
  ASSUME NEW es, AreEntities(es), NEW id \in Nodes
  PROVE  LET new == Upserting(es, id, [shape |-> "changed"])
         IN  /\ AreEntities(new) /\ DOMAIN new = DOMAIN es \cup {id}
             /\ \A x \in Nodes : x # id => (IsChanged(new, x) <=> IsChanged(es, x))
<1> DEFINE old == IF id \in DOMAIN es THEN es[id] ELSE NewEntity
           value == Over([shape |-> "changed"], old)
           new == Upserting(es, id, [shape |-> "changed"])
<1>1. old \in Entity
  BY NewIsEntity DEF AreEntities
<1>2. value \in Entity
  BY <1>1 DEF Over, Entity, Shapes
<1>3. DOMAIN new = DOMAIN es \cup {id} /\ new[id] = value /\ \A x \in DOMAIN es : x # id => new[x] = es[x]
  BY DEF Upserting, Over, Single
<1> HIDE DEF new, value, old
<1>4. AreEntities(new)
  BY <1>2, <1>3 DEF AreEntities
<1>5. \A x \in Nodes : x # id => (IsChanged(new, x) <=> IsChanged(es, x))
  BY <1>3 DEF IsChanged
<1> QED BY <1>3, <1>4, <1>5 DEF new

LEMMA UpsertSight ==
  ASSUME NEW es, AreEntities(es), NEW id \in Nodes
  PROVE  LET new == Upserting(es, id, [visible |-> TRUE])
         IN  /\ AreEntities(new) /\ DOMAIN new = DOMAIN es \cup {id}
             /\ \A x \in Nodes : IsChanged(new, x) => IsChanged(es, x)
<1> DEFINE old == IF id \in DOMAIN es THEN es[id] ELSE NewEntity
           value == Over([visible |-> TRUE], old)
           new == Upserting(es, id, [visible |-> TRUE])
<1>1. old \in Entity
  BY NewIsEntity DEF AreEntities
<1>2. value \in Entity /\ value.shape = old.shape
  BY <1>1 DEF Over, Entity, Shapes
<1>3. DOMAIN new = DOMAIN es \cup {id} /\ new[id] = value /\ \A x \in DOMAIN es : x # id => new[x] = es[x]
  BY DEF Upserting, Over, Single
<1>4. id \notin DOMAIN es => old.shape # "changed"
  BY NewIsEntity
<1>5. id \in DOMAIN es => old = es[id]
  OBVIOUS
<1> HIDE DEF new, value, old
<1>6. AreEntities(new)
  BY <1>2, <1>3 DEF AreEntities
<1>7. \A x \in Nodes : IsChanged(new, x) => IsChanged(es, x)
  BY <1>2, <1>3, <1>4, <1>5 DEF IsChanged
<1> QED BY <1>3, <1>6, <1>7 DEF new

LEMMA UpsertWhole ==
  ASSUME NEW es, AreEntities(es), NEW id \in Nodes, NEW e \in Entity
  PROVE  LET new == Upserting(es, id, e)
         IN  /\ AreEntities(new) /\ DOMAIN new = DOMAIN es \cup {id} /\ new[id].shape = e.shape
             /\ \A x \in Nodes : x # id => (IsChanged(new, x) <=> IsChanged(es, x))
<1> DEFINE old == IF id \in DOMAIN es THEN es[id] ELSE NewEntity
           value == Over(e, old)
           new == Upserting(es, id, e)
<1>1. old \in Entity
  BY NewIsEntity DEF AreEntities
<1>2. value \in Entity /\ value.shape = e.shape
  BY <1>1 DEF Over, Entity, Shapes
<1>3. DOMAIN new = DOMAIN es \cup {id} /\ new[id] = value /\ \A x \in DOMAIN es : x # id => new[x] = es[x]
  BY DEF Upserting, Over, Single
<1> HIDE DEF new, value, old
<1>4. AreEntities(new)
  BY <1>2, <1>3 DEF AreEntities
<1>5. \A x \in Nodes : x # id => (IsChanged(new, x) <=> IsChanged(es, x))
  BY <1>3 DEF IsChanged
<1> QED BY <1>2, <1>3, <1>4, <1>5 DEF new

LEMMA ShapeStarts == ASSUME ShapeInit PROVE ShapeInv
<1>1. entities = [id \in {Core, Subsystem} |-> NewEntity] /\ worldFile.entities = <<>> /\ history = <<>>
      /\ historyFile = <<>> /\ undone = [id \in Nodes |-> "no"] /\ shaping = [c \in Shapers |-> IdleCall]
  BY DEF ShapeInit, GraphInit, Bootstrap
<1>2. AreEntities(entities) /\ \A id \in Nodes : ~IsChanged(entities, id)
  BY <1>1, NewIsEntity DEF AreEntities, IsChanged, Nodes
<1>3. AreEntities(worldFile.entities) /\ \A id \in Nodes : ~IsChanged(worldFile.entities, id)
  BY <1>1 DEF AreEntities, IsChanged
<1>4. AreFirstStates
  BY <1>1 DEF AreFirstStates
<1>5. \A c \in Shapers : ShapeCall(shaping[c])
  BY <1>1 DEF ShapeCall, IdleCall, CallFields
<1> QED BY <1>1, <1>2, <1>3, <1>4, <1>5 DEF ShapeInv

(* It is enough to look at the call of the thread that takes the step. *)
LEMMA OneCallSteps ==
  ASSUME OneShaper, ShapeInv, NEW c \in Shapers, DOMAIN shaping' = Shapers, ShapeCall(shaping[c])',
         AreEntities(entities)', worldFile' = worldFile, AreFirstStates',
         undone' \in [Nodes -> {"no", "reverted", "lost"}],
         \A id \in Nodes :
           /\ IsChanged(entities', id) /\ undone'[id] # "lost" => id \in DOMAIN history'
           /\ IsChanged(worldFile.entities, id) /\ undone'[id] = "no" => id \in DOMAIN history'
  PROVE  ShapeInv'
<1>1. (\A d \in Shapers : ShapeCall(shaping[d]))'
  <2> SUFFICES ASSUME NEW d \in Shapers PROVE ShapeCall(shaping[d])'
    OBVIOUS
  <2>1. c = d
    BY DEF OneShaper
  <2> QED BY <2>1
<1>2. AreEntities(worldFile.entities)'
  BY DEF ShapeInv, AreEntities
<1>3. (\A id \in Nodes :
         /\ IsChanged(entities, id) /\ undone[id] # "lost" => id \in DOMAIN history
         /\ IsChanged(worldFile.entities, id) /\ undone[id] = "no" => id \in DOMAIN history)'
  BY DEF IsChanged
<1> QED BY <1>1, <1>2, <1>3 DEF ShapeInv

(* A step of a call that touches no entity and no entry. *)
LEMMA QuietStep ==
  ASSUME OneShaper, ShapeInv, NEW c \in Shapers, DOMAIN shaping' = Shapers, ShapeCall(shaping[c])',
         UNCHANGED <<entities, worldFile, history, historyFile, undone>>
  PROVE  ShapeInv'
<1>1. AreEntities(entities)' /\ AreFirstStates'
  BY DEF ShapeInv, AreEntities, AreFirstStates
<1> QED BY <1>1, OneCallSteps DEF ShapeInv, IsChanged

LEMMA CallsBegin ==
  ASSUME OneShaper, ShapeInv, NEW c \in Shapers,
         \/ \E id \in Made : CreateObject(c, id)
         \/ \E ids \in SUBSET DOMAIN entities : ApplyShape(c, ids)
         \/ \E ids \in SUBSET DOMAIN history : Revert(c, ids)
  PROVE  ShapeInv'
<1>1. ASSUME NEW fields, Calls(c, fields)
      PROVE  /\ DOMAIN shaping' = Shapers /\ shaping'[c] = Over(fields, IdleCall)
             /\ UNCHANGED <<entities, worldFile, history, historyFile, undone>>
  BY <1>1 DEF Calls, Goes, gvars, ShapeInv
<1>2. ASSUME NEW id \in Made, CreateObject(c, id) PROVE ShapeInv'
  <2> DEFINE r == Over([op |-> "create", todo |-> {id}], IdleCall)
  <2>1. r.op = "create" /\ r.step = "next" /\ r.todo = {id} /\ r.done = {} /\ DOMAIN r = CallFields
    BY DEF Over, IdleCall, CallFields
  <2>2. /\ DOMAIN shaping' = Shapers /\ shaping'[c] = r
        /\ UNCHANGED <<entities, worldFile, history, historyFile, undone>>
    BY <1>1, <1>2 DEF CreateObject
  <2> HIDE DEF r
  <2>3. ShapeCall(shaping[c])'
    BY <2>1, <2>2 DEF ShapeCall, ChangeCall, Nodes
  <2> QED BY <2>2, <2>3, QuietStep
<1>3. ASSUME NEW ids \in SUBSET DOMAIN entities, ApplyShape(c, ids) PROVE ShapeInv'
  <2> DEFINE r == Over([op |-> "apply", todo |-> ids], IdleCall)
  <2>1. r.op = "apply" /\ r.step = "next" /\ r.todo = ids /\ r.done = {} /\ DOMAIN r = CallFields
    BY DEF Over, IdleCall, CallFields
  <2>2. /\ DOMAIN shaping' = Shapers /\ shaping'[c] = r
        /\ UNCHANGED <<entities, worldFile, history, historyFile, undone>>
    BY <1>1, <1>3 DEF ApplyShape
  <2> HIDE DEF r
  <2>3. ShapeCall(shaping[c])'
    BY <2>1, <2>2 DEF ShapeCall, ChangeCall
  <2> QED BY <2>2, <2>3, QuietStep
<1>4. ASSUME NEW ids \in SUBSET DOMAIN history, Revert(c, ids) PROVE ShapeInv'
  <2> DEFINE entries == [id \in ids |-> history[id]]
             r == Over([op |-> "revert", todo |-> ids, entries |-> entries], IdleCall)
  <2>1. /\ r.op = "revert" /\ r.step = "next" /\ r.todo = ids /\ r.done = {} /\ DOMAIN r = CallFields
        /\ r.entries = entries
    BY DEF Over, IdleCall, CallFields
  <2>2. /\ DOMAIN shaping' = Shapers /\ shaping'[c] = r
        /\ UNCHANGED <<entities, worldFile, history, historyFile, undone>>
    BY <1>1, <1>4 DEF Revert
  <2>3. DOMAIN entries = ids /\ \A id \in ids : entries[id] = history[id]
    OBVIOUS
  <2> HIDE DEF r, entries
  <2>4. ShapeCall(shaping[c])'
    BY <2>1, <2>2, <2>3 DEF ShapeCall, RevertCall
  <2> QED BY <2>2, <2>4, QuietStep
<1> QED BY <1>2, <1>3, <1>4

(* With a history that is always written, what is recorded is in the file. *)
LEMMA SnapshotKeeps ==
  ASSUME OneShaper, "history" \notin WriteFaults, ShapeInv, NEW c \in Shapers, NEW id \in shaping[c].todo, TakeSnapshot(c, id)
  PROVE  ShapeInv'
<1> DEFINE r == shaping[c]
           generated == r.op = "create"
<1>1. /\ ShapeCall(r) /\ ChangeCall(r) /\ r.op \in {"create", "apply"} /\ r.step = "next" /\ id \in Nodes
      /\ (r.op = "apply" => id \in DOMAIN entities)
  BY DEF ShapeInv, ShapeCall, TakeSnapshot, ChangeCall, AreEntities
<1>2. UNCHANGED <<entities, worldFile, undone>>
  BY DEF TakeSnapshot, gvars
<1>3. /\ history' = Observe(id, generated) /\ historyFile' = IF id \in DOMAIN history THEN historyFile ELSE history'
      /\ shaping' = [shaping EXCEPT ![c] = Over([step |-> "change", id |-> id, todo |-> r.todo \ {id}], r)]
  BY DEF TakeSnapshot, Outcomes, WriteHistory, Goes
<1>4. /\ DOMAIN shaping' = Shapers /\ DOMAIN shaping'[c] = CallFields /\ shaping'[c].op = r.op
      /\ shaping'[c].step = "change" /\ shaping'[c].id = id /\ shaping'[c].todo = r.todo \ {id}
      /\ shaping'[c].done = r.done
  <2>1. DOMAIN shaping = Shapers /\ DOMAIN r = CallFields
    BY <1>1 DEF ShapeInv, ShapeCall
  <2> QED BY <1>3, <2>1 DEF Over, CallFields
<1> HIDE DEF r
<1>5. DOMAIN history' = DOMAIN history \cup {id} /\ history' = [x \in DOMAIN history' |-> history'[x]]
      /\ (\A x \in DOMAIN history : history'[x] = history[x])
      /\ (id \notin DOMAIN history => history'[id] = Observed(id, generated))
  BY <1>3 DEF Observe, Over, Single
<1>6. historyFile' = history'
  <2>1. CASE id \in DOMAIN history
    <3>1. DOMAIN history' = DOMAIN history
      BY <1>5, <2>1
    <3>2. history' = history
      BY <1>5, <3>1 DEF ShapeInv, AreFirstStates
    <3> QED BY <1>3, <2>1, <3>2 DEF ShapeInv, AreFirstStates
  <2>2. CASE id \notin DOMAIN history
    BY <1>3, <2>2
  <2> QED BY <2>1, <2>2
<1>7. AreFirstStates'
  <2> DEFINE sighted == Observed(id, generated)
  <2>1. ASSUME id \notin DOMAIN history
        PROVE  /\ sighted.generated = generated
               /\ sighted.entity = IF generated THEN NoEntity ELSE entities[id]
               /\ (IF sighted.generated THEN sighted.entity = NoEntity ELSE sighted.entity \in Entity)
               /\ (undone[id] # "lost" => sighted.entity.shape # "changed")
    <3>1. CASE generated
      BY <3>1, NewIsEntity DEF Observed
    <3>2. CASE ~generated
      <4>1. id \in DOMAIN entities /\ sighted.entity = entities[id] /\ sighted.generated = FALSE
        BY <1>1, <3>2 DEF Observed, Exists
      <4>2. entities[id] \in Entity /\ (undone[id] # "lost" => entities[id].shape # "changed")
        BY <1>1, <2>1, <4>1 DEF ShapeInv, AreEntities, IsChanged
      <4> QED BY <3>2, <4>1, <4>2
    <3> QED BY <3>1, <3>2
  <2> HIDE DEF sighted, generated
  <2>2. ASSUME NEW x \in DOMAIN history'
        PROVE  /\ IF history'[x].generated THEN history'[x].entity = NoEntity ELSE history'[x].entity \in Entity
               /\ undone'[x] # "lost" => history'[x].entity.shape # "changed"
    <3>1. CASE x \in DOMAIN history
      BY <1>2, <1>5, <3>1 DEF ShapeInv, AreFirstStates
    <3>2. CASE x \notin DOMAIN history
      BY <1>2, <1>5, <2>1, <3>2 DEF sighted
    <3> QED BY <3>1, <3>2
  <2>3. DOMAIN history' \subseteq Nodes
    BY <1>1, <1>5 DEF ShapeInv, AreFirstStates
  <2> QED BY <1>5, <1>6, <2>2, <2>3 DEF AreFirstStates
<1>8. ShapeCall(shaping[c])'
  BY <1>1, <1>2, <1>4, <1>5 DEF ShapeCall, ChangeCall
<1>9. AreEntities(entities)'
  BY <1>2 DEF ShapeInv, AreEntities
<1> QED BY <1>2, <1>4, <1>5, <1>7, <1>8, <1>9, OneCallSteps DEF ShapeInv, IsChanged

LEMMA ChangeKeeps ==
  ASSUME OneShaper, ShapeInv, NEW c \in Shapers, ChangeEntity(c) \/ PlaceWindow(c)
  PROVE  ShapeInv'
<1> DEFINE r == shaping[c]
           id == r.id
<1>1. ShapeCall(r) /\ ChangeCall(r) /\ r.op \in {"create", "apply"} /\ (r.step = "change" => id \in DOMAIN history)
      /\ AreEntities(entities) /\ AreFirstStates
  BY DEF ShapeInv, ShapeCall, ChangeEntity, PlaceWindow, ChangeCall, RevertCall
<1>2. UNCHANGED <<worldFile, history, historyFile, undone>>
  BY DEF ChangeEntity, PlaceWindow, gvars
<1>3. PICK step \in {"next", "place"} : shaping' = [shaping EXCEPT ![c] = Over([step |-> step], r)]
  BY DEF ChangeEntity, PlaceWindow, Goes
<1>4. /\ DOMAIN shaping' = Shapers /\ DOMAIN shaping'[c] = CallFields /\ shaping'[c].op = r.op
      /\ shaping'[c].step = step /\ shaping'[c].todo = r.todo /\ shaping'[c].done = r.done
  <2>1. DOMAIN shaping = Shapers /\ DOMAIN r = CallFields
    BY <1>1 DEF ShapeInv, ShapeCall
  <2> QED BY <1>3, <2>1 DEF Over, CallFields
<1>5. AreFirstStates'
  BY <1>1, <1>2 DEF AreFirstStates
<1>6. CASE entities' = entities
  <2>1. ShapeCall(shaping[c])'
    BY <1>1, <1>4, <1>6 DEF ShapeCall, ChangeCall
  <2>2. AreEntities(entities)'
    BY <1>1, <1>6 DEF AreEntities
  <2> QED BY <1>2, <1>4, <1>5, <1>6, <2>1, <2>2, OneCallSteps DEF ShapeInv, IsChanged
<1>7. CASE r.step = "change" /\ entities' = Upserting(entities, id, [shape |-> "changed"])
  <2> HIDE DEF r, id
  <2>1. id \in Nodes
    BY <1>1, <1>7 DEF AreFirstStates
  <2>2. /\ AreEntities(entities') /\ DOMAIN entities' = DOMAIN entities \cup {id}
        /\ \A x \in Nodes : x # id => (IsChanged(entities', x) <=> IsChanged(entities, x))
    BY <1>1, <1>7, <2>1, UpsertChange
  <2>3. ShapeCall(shaping[c])'
    BY <1>1, <1>4, <2>2 DEF ShapeCall, ChangeCall
  <2>4. AreEntities(entities)'
    BY <2>2 DEF AreEntities
  <2>5. \A x \in Nodes :
          /\ IsChanged(entities', x) /\ undone'[x] # "lost" => x \in DOMAIN history'
          /\ IsChanged(worldFile.entities, x) /\ undone'[x] = "no" => x \in DOMAIN history'
    BY <1>1, <1>2, <1>7, <2>2 DEF ShapeInv
  <2>6. undone' \in [Nodes -> {"no", "reverted", "lost"}]
    BY <1>2 DEF ShapeInv
  <2> QED BY <1>2, <1>4, <1>5, <2>3, <2>4, <2>5, <2>6, OneCallSteps
<1> QED BY <1>6, <1>7 DEF ChangeEntity, PlaceWindow, gvars

LEMMA RestoreKeeps ==
  ASSUME OneShaper, ShapeInv, NEW c \in Shapers, NEW id \in shaping[c].todo, RestoreEntity(c, id)
  PROVE  ShapeInv'
<1> DEFINE r == shaping[c]
           entry == r.entries[id]
           fits == entry.generated \/ entry.entity = NoEntity \/ HasPlace(id)
           layoutNext == id \in Windows /\ ~entry.generated
<1>1. ShapeCall(r) /\ RevertCall(r) /\ r.op = "revert" /\ r.step = "next"
      /\ AreEntities(entities) /\ AreFirstStates
  BY DEF ShapeInv, ShapeCall, RestoreEntity
<1>2. UNCHANGED <<worldFile, history, historyFile>>
  BY DEF RestoreEntity
<1>3. /\ id \in DOMAIN history /\ id \in DOMAIN r.entries /\ id \in Nodes /\ entry = history[id]
      /\ (IF entry.generated THEN entry.entity = NoEntity ELSE entry.entity \in Entity)
      /\ (undone[id] # "lost" => entry.entity.shape # "changed")
  BY <1>1 DEF RevertCall, AreFirstStates
<1>4. /\ shaping' = [shaping EXCEPT ![c] = Over([step |-> IF layoutNext THEN "layout" ELSE "next", id |-> id, fits |-> fits,
                  todo |-> r.todo \ {id}, done |-> r.done \cup (IF fits /\ ~layoutNext THEN {id} ELSE {})], r)]
      /\ undone' = [undone EXCEPT ![id] = IF fits /\ @ = "no" THEN "reverted" ELSE @]
  BY DEF RestoreEntity, Goes
<1>5. /\ AreEntities(entities') /\ (\A x \in Nodes : x # id => (IsChanged(entities', x) => IsChanged(entities, x)))
      /\ IF fits THEN IsChanged(entities', id) => undone[id] = "lost" ELSE entities' = entities
  <2>1. CASE entry.generated
    <3>1. entities' = Removing(entities, id) /\ fits
      BY <2>1 DEF RestoreEntity
    <3>2. AreEntities(entities') /\ id \notin DOMAIN entities' /\ \A x \in DOMAIN entities' : x \in DOMAIN entities /\ entities'[x] = entities[x]
      BY <1>1, <3>1 DEF Removing, AreEntities
    <3> QED BY <3>1, <3>2 DEF IsChanged
  <2>2. CASE ~entry.generated /\ ~fits
    <3>1. entities' = entities
      BY <2>2 DEF RestoreEntity
    <3> HIDE DEF fits, entry
    <3>2. AreEntities(entities')
      BY <1>1, <3>1
    <3> QED BY <2>2, <3>1, <3>2
  <2>3. CASE ~entry.generated /\ fits
    <3>1. entry.entity \in Entity /\ entities' = Upserting(entities, id, entry.entity)
      BY <1>3, <2>3, NewIsEntity DEF RestoreEntity
    <3> DEFINE e == entry.entity
    <3> HIDE DEF e
    <3>2. AreEntities(entities) /\ id \in Nodes /\ e \in Entity /\ entities' = Upserting(entities, id, e)
      BY <1>1, <1>3, <3>1 DEF e
    <3>3. /\ AreEntities(entities') /\ DOMAIN entities' = DOMAIN entities \cup {id} /\ entities'[id].shape = e.shape
          /\ \A x \in Nodes : x # id => (IsChanged(entities', x) <=> IsChanged(entities, x))
      BY <3>2, UpsertWhole
    <3>4. /\ AreEntities(entities') /\ DOMAIN entities' = DOMAIN entities \cup {id} /\ entities'[id].shape = entry.entity.shape
          /\ \A x \in Nodes : x # id => (IsChanged(entities', x) <=> IsChanged(entities, x))
      BY <3>3 DEF e
    <3> QED BY <1>3, <2>3, <3>4 DEF IsChanged
  <2> QED BY <2>1, <2>2, <2>3
<1>6. /\ DOMAIN shaping' = Shapers /\ DOMAIN shaping'[c] = CallFields /\ shaping'[c].op = "revert"
      /\ shaping'[c].step = (IF layoutNext THEN "layout" ELSE "next") /\ shaping'[c].id = id /\ shaping'[c].fits = fits
      /\ shaping'[c].todo = r.todo \ {id} /\ shaping'[c].entries = r.entries
      /\ shaping'[c].done = r.done \cup (IF fits /\ ~layoutNext THEN {id} ELSE {})
  <2>1. DOMAIN shaping = Shapers /\ DOMAIN r = CallFields
    BY <1>1 DEF ShapeInv, ShapeCall
  <2> HIDE DEF layoutNext, fits, entry
  <2> QED BY <1>1, <1>4, <2>1 DEF Over, CallFields
<1> HIDE DEF layoutNext, fits, entry, r
<1>7. /\ undone' \in [Nodes -> {"no", "reverted", "lost"}]
      /\ \A x \in Nodes : x # id => undone'[x] = undone[x]
      /\ undone'[id] = "lost" <=> undone[id] = "lost"
      /\ fits => undone'[id] # "no"
      /\ undone'[id] = "no" => undone[id] = "no"
  BY <1>3, <1>4 DEF ShapeInv
<1>8. AreFirstStates'
  BY <1>1, <1>2, <1>7 DEF AreFirstStates
<1>9. \A x \in Nodes : Clean(x) => Clean(x)'
  <2> SUFFICES ASSUME NEW x \in Nodes, Clean(x) PROVE Clean(x)'
    OBVIOUS
  <2>1. CASE x = id
    BY <1>2, <1>5, <1>7, <2>1 DEF Clean, IsChanged
  <2>2. CASE x # id
    <3>1. undone'[x] = undone[x] /\ (IsChanged(entities', x) => IsChanged(entities, x))
      BY <1>5, <1>7, <2>2
    <3> QED BY <1>2, <3>1 DEF Clean, IsChanged
  <2> QED BY <2>1, <2>2
<1>10. fits => Clean(id)'
  BY <1>5, <1>7 DEF Clean, IsChanged
<1>11. ShapeCall(shaping[c])'
  <2>1. DOMAIN history \subseteq Nodes
    BY <1>1 DEF AreFirstStates
  <2>2. \A x \in shaping'[c].done : Clean(x)'
    BY <1>1, <1>6, <1>9, <1>10, <2>1 DEF RevertCall
  <2>3. RevertCall(shaping[c])'
    BY <1>1, <1>2, <1>3, <1>6, <1>10, <2>2 DEF RevertCall
  <2> QED BY <1>6, <2>3 DEF ShapeCall
<1>12. \A x \in Nodes :
         /\ IsChanged(entities', x) /\ undone'[x] # "lost" => x \in DOMAIN history'
         /\ IsChanged(worldFile.entities, x) /\ undone'[x] = "no" => x \in DOMAIN history'
  BY <1>2, <1>3, <1>5, <1>7 DEF ShapeInv
<1>13. AreEntities(entities)'
  BY <1>5 DEF AreEntities
<1> QED BY <1>2, <1>6, <1>7, <1>8, <1>11, <1>12, <1>13, OneCallSteps

LEMMA LayoutKeeps ==
  ASSUME OneShaper, ShapeInv, NEW c \in Shapers, RestoreLayout(c)
  PROVE  ShapeInv'
<1> DEFINE r == shaping[c]
<1>1. ShapeCall(r) /\ RevertCall(r) /\ r.op = "revert" /\ r.step = "layout"
  BY DEF ShapeInv, ShapeCall, RestoreLayout, ChangeCall
<1>2. UNCHANGED <<entities, worldFile, history, historyFile, undone>>
  BY DEF RestoreLayout, gvars
<1>3. PICK more \in {{}, {r.id}} :
        /\ shaping' = [shaping EXCEPT ![c] = Over([step |-> "next", done |-> r.done \cup more], r)]
        /\ more = {r.id} => r.fits
  <2>1. PICK written : Goes(c, [step |-> "next", done |-> r.done \cup (IF r.fits /\ written THEN {r.id} ELSE {})])
    BY DEF RestoreLayout
  <2> QED BY <2>1 DEF Goes
<1>4. /\ DOMAIN shaping' = Shapers /\ DOMAIN shaping'[c] = CallFields /\ shaping'[c].op = "revert"
      /\ shaping'[c].step = "next" /\ shaping'[c].todo = r.todo /\ shaping'[c].entries = r.entries
      /\ shaping'[c].done = r.done \cup more
  <2>1. DOMAIN shaping = Shapers /\ DOMAIN r = CallFields
    BY <1>1 DEF ShapeInv, ShapeCall
  <2> QED BY <1>1, <1>3, <2>1 DEF Over, CallFields
<1> HIDE DEF r
<1>5. \A x : Clean(x)' <=> Clean(x)
  BY <1>2 DEF Clean, IsChanged
<1>6. RevertCall(shaping[c])'
  BY <1>1, <1>2, <1>3, <1>4, <1>5 DEF RevertCall
<1>7. ShapeCall(shaping[c])'
  BY <1>4, <1>6 DEF ShapeCall
<1> QED BY <1>2, <1>4, <1>7, QuietStep

LEMMA ForgetKeeps ==
  ASSUME OneShaper, "history" \notin WriteFaults, ShapeInv, NEW c \in Shapers, Forget(c)
  PROVE  ShapeInv'
<1> DEFINE r == shaping[c]
<1>1. ShapeCall(r) /\ r.op # "idle" /\ (r.op = "revert" => \A id \in r.done : Clean(id)) /\ (r.op # "revert" => r.done = {})
      /\ AreEntities(entities) /\ AreFirstStates
  BY DEF ShapeInv, ShapeCall, ChangeCall, RevertCall, Forget
<1>2. UNCHANGED <<entities, worldFile, undone>>
  BY DEF Forget, gvars
<1>3. /\ history' = [id \in DOMAIN history \ r.done |-> history[id]]
      /\ (r.op = "revert" => historyFile' = history') /\ (r.op # "revert" => historyFile' = historyFile)
      /\ shaping' = [shaping EXCEPT ![c] = IdleCall]
  BY DEF Forget, Outcomes, WriteHistory
<1>4. DOMAIN shaping' = Shapers /\ shaping'[c] = IdleCall
  BY <1>3 DEF ShapeInv
<1>5. historyFile' = history'
  <2>1. CASE r.op = "revert"
    BY <1>3, <2>1
  <2>2. CASE r.op # "revert"
    BY <1>1, <1>3, <2>2 DEF AreFirstStates
  <2> QED BY <2>1, <2>2
<1>6. ShapeCall(shaping[c])'
  BY <1>4 DEF ShapeCall, IdleCall, CallFields
<1> HIDE DEF r
<1>7. DOMAIN history' = DOMAIN history \ r.done /\ \A id \in DOMAIN history' : history'[id] = history[id]
  BY <1>3
<1>8. AreFirstStates'
  BY <1>1, <1>2, <1>3, <1>5, <1>7 DEF AreFirstStates
<1>9. \A x \in Nodes :
        /\ IsChanged(entities', x) /\ undone'[x] # "lost" => x \in DOMAIN history'
        /\ IsChanged(worldFile.entities, x) /\ undone'[x] = "no" => x \in DOMAIN history'
  BY <1>1, <1>2, <1>7 DEF ShapeInv, Clean
<1>10. AreEntities(entities)'
  BY <1>1, <1>2 DEF AreEntities
<1>11. undone' \in [Nodes -> {"no", "reverted", "lost"}]
  BY <1>2 DEF ShapeInv
<1> QED BY <1>2, <1>4, <1>6, <1>8, <1>9, <1>10, <1>11, OneCallSteps

(* Other writers of the world change no shape to a recorded one. *)
LEMMA WorldKeeps ==
  ASSUME ShapeInv, AreEntities(entities'), DOMAIN entities \subseteq DOMAIN entities',
         \A id \in Nodes : IsChanged(entities', id) => IsChanged(entities, id),
         UNCHANGED <<worldFile, history, historyFile, shaping, undone>>
  PROVE  ShapeInv'
<1>1. AreEntities(entities)' /\ AreEntities(worldFile.entities)' /\ AreFirstStates'
  BY DEF ShapeInv, AreEntities, AreFirstStates
<1>2. ASSUME NEW c \in Shapers PROVE ShapeCall(shaping[c])'
  <2>1. ShapeCall(shaping[c]) /\ DOMAIN history \subseteq Nodes
    BY DEF ShapeInv, AreFirstStates
  <2>2. \A id \in Nodes : Clean(id) => Clean(id)'
    BY DEF Clean, IsChanged
  <2>3. RevertCall(shaping[c]) => RevertCall(shaping[c])'
    BY <2>1, <2>2 DEF RevertCall
  <2>4. (ChangeCall(shaping[c]) => ChangeCall(shaping[c])')
    BY DEF ChangeCall
  <2> QED BY <2>1, <2>3, <2>4 DEF ShapeCall
<1>3. (\A id \in Nodes :
         /\ IsChanged(entities, id) /\ undone[id] # "lost" => id \in DOMAIN history
         /\ IsChanged(worldFile.entities, id) /\ undone[id] = "no" => id \in DOMAIN history)'
  BY DEF ShapeInv, IsChanged
<1>4. (undone \in [Nodes -> {"no", "reverted", "lost"}] /\ DOMAIN shaping = Shapers)'
  BY DEF ShapeInv
<1> QED BY <1>1, <1>2, <1>3, <1>4 DEF ShapeInv

LEMMA OthersKeepShapes ==
  ASSUME ShapeInv,
         \/ \E id \in Nodes : SetShape(id)
         \/ \E w \in Windows : MoveWindow(w)
         \/ \E id \in Found : FindOrRetire(id) /\ UNCHANGED cvars
         \/ UNCHANGED shapeVars
  PROVE  ShapeInv'
<1>1. AreEntities(entities)
  BY DEF ShapeInv
<1>2. ASSUME UNCHANGED <<entities, worldFile, history, historyFile, shaping, undone>> PROVE ShapeInv'
  <2>1. AreEntities(entities') /\ \A id \in Nodes : IsChanged(entities', id) => IsChanged(entities, id)
    BY <1>1, <1>2
  <2> QED BY <1>2, <2>1, WorldKeeps
<1>3. ASSUME NEW id \in Nodes, SetShape(id) PROVE ShapeInv'
  <2>1. id \in DOMAIN entities /\ entities' = [entities EXCEPT ![id].shape = "set"]
        /\ UNCHANGED <<worldFile, history, historyFile, shaping, undone>>
    BY <1>3 DEF SetShape, Exists
  <2>2. entities[id] \in Entity /\ [entities[id] EXCEPT !.shape = "set"] \in Entity
    BY <1>1, <2>1 DEF AreEntities, Entity, Shapes
  <2>3. AreEntities(entities') /\ DOMAIN entities' = DOMAIN entities
    BY <1>1, <2>1, <2>2 DEF AreEntities
  <2>4. \A x \in Nodes : IsChanged(entities', x) => IsChanged(entities, x)
    BY <2>1, <2>2 DEF IsChanged, Entity
  <2> QED BY <2>1, <2>3, <2>4, WorldKeeps
<1>4. ASSUME NEW id \in Found, Discover(id), UNCHANGED cvars PROVE ShapeInv'
  <2>1. entities' = Upserting(entities, id, [visible |-> TRUE]) /\ id \in Nodes
        /\ UNCHANGED <<worldFile, history, historyFile, shaping, undone>>
    BY <1>4 DEF Discover, Nodes, cvars
  <2>2. /\ AreEntities(entities') /\ DOMAIN entities' = DOMAIN entities \cup {id}
        /\ \A x \in Nodes : IsChanged(entities', x) => IsChanged(entities, x)
    BY <1>1, <2>1, UpsertSight
  <2> QED BY <2>1, <2>2, WorldKeeps
<1>5. ASSUME NEW id \in Found, RetireEntity(id), UNCHANGED cvars PROVE ShapeInv'
  <2>1. id \in DOMAIN entities /\ entities' = [entities EXCEPT ![id].visible = FALSE]
        /\ UNCHANGED <<worldFile, history, historyFile, shaping, undone>>
    BY <1>5 DEF RetireEntity, Exists, cvars
  <2>2. entities[id] \in Entity /\ [entities[id] EXCEPT !.visible = FALSE] \in Entity
    BY <1>1, <2>1 DEF AreEntities, Entity, Shapes
  <2>3. AreEntities(entities') /\ DOMAIN entities' = DOMAIN entities
    BY <1>1, <2>1, <2>2 DEF AreEntities
  <2>4. \A x \in Nodes : IsChanged(entities', x) => IsChanged(entities, x)
    BY <2>1, <2>2 DEF IsChanged, Entity
  <2> QED BY <2>1, <2>3, <2>4, WorldKeeps
<1>6. ASSUME NEW w, MoveWindow(w) PROVE ShapeInv'
  BY <1>2, <1>6 DEF MoveWindow, gvars
<1>7. CASE UNCHANGED shapeVars
  BY <1>2, <1>7 DEF shapeVars, gvars, cvars
<1> QED BY <1>3, <1>4, <1>5, <1>6, <1>7 DEF FindOrRetire

(* The file holds what the world does, but for its tasks. *)
LEMMA SavedWorld ==
  ASSUME AreEntities(entities)
  PROVE  /\ AreEntities(CurrentWorld.entities)
         /\ \A id : IsChanged(CurrentWorld.entities, id) => IsChanged(entities, id)
<1>1. /\ DOMAIN CurrentWorld.entities \subseteq DOMAIN entities
      /\ \A id \in DOMAIN CurrentWorld.entities : CurrentWorld.entities[id] = entities[id]
  BY DEF CurrentWorld
<1> QED BY <1>1 DEF AreEntities, IsChanged

LEMMA SaveKeeps ==
  ASSUME ShapeInv, WorldSaved, UNCHANGED <<history, historyFile, windowStates, layoutFile, shaping, asked>>
  PROVE  ShapeInv'
<1>1. AreEntities(entities) /\ AreFirstStates /\ undone \in [Nodes -> {"no", "reverted", "lost"}]
  BY DEF ShapeInv
<1>2. worldFile' = CurrentWorld /\ entities' = entities
      /\ undone' = [id \in Nodes |-> IF undone[id] = "reverted" THEN "no" ELSE undone[id]]
  BY DEF WorldSaved, SaveWorld
<1>3. /\ undone' \in [Nodes -> {"no", "reverted", "lost"}]
      /\ \A id \in Nodes : undone'[id] = "lost" <=> undone[id] = "lost"
  BY <1>1, <1>2
<1>4. AreEntities(worldFile'.entities) /\ \A id : IsChanged(worldFile'.entities, id) => IsChanged(entities, id)
  BY <1>1, <1>2, SavedWorld
<1>5. AreEntities(entities)' /\ AreEntities(worldFile.entities)' /\ AreFirstStates'
  BY <1>1, <1>2, <1>3, <1>4 DEF AreEntities, AreFirstStates
<1>6. (\A id \in Nodes :
         /\ IsChanged(entities, id) /\ undone[id] # "lost" => id \in DOMAIN history
         /\ IsChanged(worldFile.entities, id) /\ undone[id] = "no" => id \in DOMAIN history)'
  <2> SUFFICES ASSUME NEW id \in Nodes
               PROVE  /\ IsChanged(entities', id) /\ undone'[id] # "lost" => id \in DOMAIN history'
                      /\ IsChanged(worldFile'.entities, id) /\ undone'[id] = "no" => id \in DOMAIN history'
    BY DEF IsChanged
  <2>1. IsChanged(entities, id) /\ undone[id] # "lost" => id \in DOMAIN history
    BY DEF ShapeInv
  <2> QED BY <1>2, <1>3, <1>4, <2>1
<1>7. ASSUME NEW c \in Shapers PROVE ShapeCall(shaping[c])'
  <2>1. ShapeCall(shaping[c]) /\ DOMAIN history \subseteq Nodes
    BY <1>1 DEF ShapeInv, AreFirstStates
  <2>2. ASSUME NEW id \in Nodes, Clean(id) PROVE Clean(id)'
    <3>1. undone'[id] = "lost" <=> undone[id] = "lost"
      BY <1>3
    <3>2. IsChanged(worldFile'.entities, id) => IsChanged(entities, id)
      BY <1>4
    <3> QED BY <1>2, <2>2, <3>1, <3>2 DEF Clean, IsChanged
  <2>3. RevertCall(shaping[c]) => RevertCall(shaping[c])'
    BY <2>1, <2>2 DEF RevertCall
  <2>4. ChangeCall(shaping[c]) => ChangeCall(shaping[c])'
    BY <1>2 DEF ChangeCall
  <2> QED BY <2>1, <2>3, <2>4 DEF ShapeCall
<1> QED BY <1>3, <1>5, <1>6, <1>7 DEF ShapeInv

(* A program that starts has the world of the file, and its history. *)
LEMMA EndKeepsShapes ==
  ASSUME ShapeInv, NEW orderly \in BOOLEAN, EndProgram(orderly)
  PROVE  ShapeInv'
<1>1. AreEntities(entities) /\ AreEntities(worldFile.entities) /\ AreFirstStates
      /\ undone \in [Nodes -> {"no", "reverted", "lost"}]
  BY DEF ShapeInv
<1>2. /\ worldFile' = (IF orderly THEN CurrentWorld ELSE worldFile) /\ entities' = LoadedEntities(worldFile')
      /\ history' = history /\ historyFile' = historyFile /\ shaping' = [c \in Shapers |-> IdleCall]
      /\ undone' = [id \in Nodes |-> IF undone[id] # "reverted" THEN undone[id] ELSE IF orderly THEN "no" ELSE "lost"]
  BY <1>1 DEF EndProgram, EndWorld, AreFirstStates
<1>3. AreEntities(worldFile'.entities)
  BY <1>1, <1>2, SavedWorld
<1>4. AreEntities(entities') /\ \A id \in Nodes : IsChanged(entities', id) => IsChanged(worldFile'.entities, id)
  <2>1. Bootstrap.entities = [id \in {Core, Subsystem} |-> NewEntity]
    BY DEF Bootstrap
  <2>2. /\ DOMAIN entities' = DOMAIN worldFile'.entities \cup {Core, Subsystem}
        /\ \A id \in DOMAIN entities' : entities'[id] = IF id \in DOMAIN worldFile'.entities THEN worldFile'.entities[id] ELSE NewEntity
    BY <1>2, <2>1 DEF LoadedEntities, Over
  <2> QED BY <1>3, <2>2, NewIsEntity DEF AreEntities, IsChanged, Nodes
<1>5. undone' \in [Nodes -> {"no", "reverted", "lost"}] /\ \A id \in Nodes : undone[id] = "lost" => undone'[id] = "lost"
  BY <1>1, <1>2
<1>6. ASSUME NEW id \in Nodes, IsChanged(worldFile'.entities, id), undone'[id] # "lost" PROVE id \in DOMAIN history
  <2>1. CASE orderly
    <3>1. IsChanged(entities, id) /\ undone[id] # "lost"
      BY <1>1, <1>2, <1>5, <1>6, <2>1, SavedWorld
    <3> QED BY <3>1 DEF ShapeInv
  <2>2. CASE ~orderly
    <3>1. IsChanged(worldFile.entities, id) /\ undone[id] = "no"
      BY <1>1, <1>2, <1>6, <2>2
    <3> QED BY <3>1 DEF ShapeInv
  <2> QED BY <2>1, <2>2
<1>7. AreEntities(entities)' /\ AreEntities(worldFile.entities)' /\ AreFirstStates'
  BY <1>1, <1>2, <1>3, <1>4, <1>5 DEF AreEntities, AreFirstStates
<1>8. (\A id \in Nodes :
         /\ IsChanged(entities, id) /\ undone[id] # "lost" => id \in DOMAIN history
         /\ IsChanged(worldFile.entities, id) /\ undone[id] = "no" => id \in DOMAIN history)'
  BY <1>2, <1>4, <1>6 DEF IsChanged
<1>9. DOMAIN shaping' = Shapers /\ \A c \in Shapers : shaping'[c] = IdleCall
  BY <1>2
<1>10. (\A c \in Shapers : ShapeCall(shaping[c]))'
  BY <1>9 DEF ShapeCall, IdleCall, CallFields
<1> QED BY <1>5, <1>7, <1>8, <1>9, <1>10 DEF ShapeInv

LEMMA ShapesNext ==
  ASSUME OneShaper, "history" \notin WriteFaults, ShapeInv, [ShapeNext]_shapeVars
  PROVE  ShapeInv'
<1>1. ASSUME NEW c \in Shapers, ShaperStep(c) PROVE ShapeInv'
  BY <1>1, CallsBegin, SnapshotKeeps, ChangeKeeps, RestoreKeeps, LayoutKeeps, ForgetKeeps DEF ShaperStep
<1> QED BY <1>1, OthersKeepShapes, SaveKeeps, EndKeepsShapes DEF ShapeNext

(* What has a changed shape can be reverted, and to a state of before the change,
   for any entities, windows, rooms and bounds, whichever writes of the layout
   fail and whenever the program dies (NeuralShapeController: _snapshot_once,
   apply, revert): when one thread at a time calls the controller, and its
   history can be written.  Without either it does not hold, see the README. *)
THEOREM ChangesAreRevertible ==
  ASSUME OneShaper, "history" \notin WriteFaults
  PROVE  ShapeSpec => []ChangedIsRevertible
<1>1. ShapeInv /\ [ShapeNext]_shapeVars => ShapeInv'
  BY ShapesNext
<1>2. ShapeInv => ChangedIsRevertible
  BY DEF ShapeInv, AreEntities, AreFirstStates, IsChanged, ChangedIsRevertible
<1> QED BY <1>1, <1>2, ShapeStarts, PTL DEF ShapeSpec

-----------------------------------------------------------------------------
(* The search of the graph *)

(* Loops: what holds at first and is passed on by each turn holds of all.  *)
LEMMA UpTo ==
  ASSUME NEW N \in Nat, NEW T, 0 \in T, \A n \in 1..N : n - 1 \in T => n \in T
  PROVE  \A n \in 0..N : n \in T
<1> DEFINE Bad == {n \in 0..N : n \notin T}
<1> SUFFICES ASSUME Bad # {} PROVE FALSE
  OBVIOUS
<1>1. Bad \subseteq Nat
  OBVIOUS
<1>2. PICK x \in Bad : \A y \in Bad : ~(<<y, x>> \in OpToRel(<, Nat))
  BY <1>1, NatLessThanWellFounded, WFMin
<1>3. x \in 1..N /\ x - 1 \in 0..N /\ x - 1 < x
  <2>1. x \in 0..N /\ x # 0
    BY <1>2
  <2> QED BY <2>1
<1>4. x - 1 \notin Bad
  BY <1>1, <1>2, <1>3 DEF OpToRel
<1> QED BY <1>2, <1>3, <1>4

(* A loop of n turns over a set has a function of its turns.               *)
LEMMA LoopExists ==
  ASSUME NEW S, NEW a \in S, NEW N \in Nat, NEW G \in [1..N -> [S -> S]]
  PROVE  \E f \in [0..N -> S] : f[0] = a /\ \A n \in 1..N : f[n] = G[n][f[n - 1]]
<1> DEFINE T == {n \in 0..N : \E f \in [0..n -> S] : f[0] = a /\ \A i \in 1..n : f[i] = G[i][f[i - 1]]}
<1>1. 0 \in T
  <2> DEFINE g == [i \in 0..0 |-> a]
  <2>1. g \in [0..0 -> S] /\ g[0] = a
    OBVIOUS
  <2> HIDE DEF g
  <2>2. g[0] = a /\ \A i \in 1..0 : g[i] = G[i][g[i - 1]]
    BY <2>1
  <2> QED BY <2>1, <2>2
<1>2. ASSUME NEW n \in 1..N, n - 1 \in T
      PROVE  n \in T
  <2>1. PICK f \in [0..(n - 1) -> S] : f[0] = a /\ \A i \in 1..(n - 1) : f[i] = G[i][f[i - 1]]
    BY <1>2
  <2> DEFINE g == [i \in 0..n |-> IF i = n THEN G[n][f[n - 1]] ELSE f[i]]
  <2>2. f[n - 1] \in S /\ G[n] \in [S -> S]
    BY <2>1
  <2>3. G[n][f[n - 1]] \in S
    BY <2>2
  <2>4. g \in [0..n -> S]
    BY <2>3
  <2>5. g[0] = a
    BY <2>1
  <2>6. ASSUME NEW i \in 1..n PROVE g[i] = G[i][g[i - 1]]
    <3>1. i - 1 \in 0..(n - 1) /\ g[i - 1] = f[i - 1]
      OBVIOUS
    <3>2. CASE i = n
      BY <3>1, <3>2
    <3>3. CASE i # n
      BY <2>1, <3>1, <3>3
    <3> QED BY <3>2, <3>3
  <2> HIDE DEF g
  <2> QED BY <2>4, <2>5, <2>6
<1>3. N \in T
  <2> HIDE DEF T
  <2>1. \A n \in 0..N : n \in T
    BY <1>1, <1>2, UpTo
  <2> QED BY <2>1
<1> QED BY <1>3

(* What a search of the graph holds. *)
Ids == DOMAIN entities

GraphIsWhole ==
  /\ IsFiniteSet(Ids) /\ Ids \subseteq Nodes
  /\ relations \in Seq(Ids \X Ids)

(* Joined by a relation, in either direction. *)
Near(a, b) == \E i \in 1..Len(relations) : relations[i] = <<a, b>> \/ relations[i] = <<b, a>>

Ways == Seq(Ids \X Ids)
PathsOf == [at : Ids, hops : Ways]
Searches == [queue : Seq(PathsOf), visited : SUBSET Ids, done : BOOLEAN, path : Ways]

(* Components. *)
LEMMA PairIs ==
  ASSUME NEW A, NEW B, NEW p \in A \X B
  PROVE  p = <<p[1], p[2]>> /\ p[1] \in A /\ p[2] \in B
OBVIOUS

LEMMA RelationIs ==
  ASSUME GraphIsWhole, NEW i \in 1..Len(relations)
  PROVE  /\ relations[i] \in Ids \X Ids /\ relations[i] = <<relations[i][1], relations[i][2]>>
         /\ relations[i][1] \in Ids /\ relations[i][2] \in Ids
<1>1. relations[i] \in Ids \X Ids
  BY ElementOfSeq DEF GraphIsWhole
<1> QED BY <1>1, PairIs

(* What more steps over relations reach is near to what was reached. *)
LEMMA ReachGrows ==
  ASSUME GraphIsWhole, NEW start \in Ids
  PROVE  /\ Reach(start)[0] = {start}
         /\ \A n \in 1..MaxHops : \A b \in Reach(start)[n] :
              b \in Reach(start)[n - 1] \/ \E a \in Reach(start)[n - 1] : Near(a, b)
<1> DEFINE More(X) == {id \in Nodes : \E r \in ToSet(relations) : id \in {r[1], r[2]} /\ {r[1], r[2]} \cap X # {}}
           S == SUBSET Nodes
           G == [n \in 1..MaxHops |-> [X \in S |-> X \cup More(X)]]
           reach == CHOOSE f : f = [n \in 0..MaxHops |-> IF n = 0 THEN {start} ELSE f[n - 1] \cup More(f[n - 1])]
<1>1. MaxHops \in Nat
  BY GraphAssumption
<1>2. {start} \in S /\ G \in [1..MaxHops -> [S -> S]]
  BY DEF GraphIsWhole
<1>3. PICK f \in [0..MaxHops -> S] : f[0] = {start} /\ \A n \in 1..MaxHops : f[n] = G[n][f[n - 1]]
  <2> DEFINE a == {start}
  <2>1. a \in S
    BY <1>2
  <2> HIDE DEF S, G, a
  <2>2. \E f \in [0..MaxHops -> S] : f[0] = a /\ \A n \in 1..MaxHops : f[n] = G[n][f[n - 1]]
    BY <1>1, <1>2, <2>1, LoopExists
  <2> QED BY <2>2 DEF a
<1>4. ASSUME NEW n \in 1..MaxHops PROVE f[n] = f[n - 1] \cup More(f[n - 1])
  <2>1. f[n - 1] \in S
    BY <1>1, <1>3
  <2>2. G[n] = [X \in S |-> X \cup More(X)]
    OBVIOUS
  <2> HIDE DEF S, More, G
  <2>3. G[n][f[n - 1]] = f[n - 1] \cup More(f[n - 1])
    BY <2>1, <2>2
  <2> QED BY <1>3, <2>3
<1>5. f = [n \in 0..MaxHops |-> IF n = 0 THEN {start} ELSE f[n - 1] \cup More(f[n - 1])]
  <2> HIDE DEF S, G, More
  <2> QED BY <1>1, <1>3, <1>4
<1>6. reach = [n \in 0..MaxHops |-> IF n = 0 THEN {start} ELSE reach[n - 1] \cup More(reach[n - 1])]
  <2> HIDE DEF More
  <2> QED BY <1>5
<1>7. Reach(start) = reach
  BY DEF Reach
<1> HIDE DEF reach
<1>8. reach[0] = {start} /\ \A n \in 1..MaxHops : reach[n] = reach[n - 1] \cup More(reach[n - 1])
  <2> HIDE DEF More
  <2>1. 0 \in 0..MaxHops /\ \A n \in 1..MaxHops : n \in 0..MaxHops /\ n # 0
    BY <1>1
  <2> QED BY <1>6, <2>1
<1>9. ASSUME NEW X, NEW b \in More(X)
      PROVE  b \in X \/ \E a \in X : Near(a, b)
  <2>1. PICK i \in 1..Len(relations) : b \in {relations[i][1], relations[i][2]} /\ {relations[i][1], relations[i][2]} \cap X # {}
    BY <1>9 DEF ToSet, GraphIsWhole
  <2>2. relations[i] = <<relations[i][1], relations[i][2]>>
    BY <2>1, RelationIs
  <2> QED BY <2>1, <2>2 DEF Near
<1> HIDE DEF More
<1> QED BY <1>7, <1>8, <1>9

-----------------------------------------------------------------------------

(* Less hops do not reach it. *)
Far(start, id, hops) == \A m \in Nat : m < hops => id \notin Reach(start)[m]

(* All its neighbours were visited. *)
Closed(s, id) == \A b \in Ids : Near(id, b) => b \in s.visited

(* A path to it is in the queue. *)
Waits(s, id) == \E i \in 1..Len(s.queue) : s.queue[i].at = id

(* A way of any length, none included. *)
LeadsTo(hops, start, id) == IF hops = << >> THEN id = start ELSE Joins(hops, start, id)

(* A path of the search is a shortest one to an entity that was visited.   *)
Shortest(p, start) ==
  LeadsTo(p.hops, start, p.at) /\ Len(p.hops) <= MaxHops /\ Far(start, p.at, Len(p.hops))

(* While the search goes on: hops of the paths that wait are k, or one     *)
(* more behind them, and whoever does not wait was not looked for and led  *)
(* to all its neighbours, unless it is too far.                            *)
PathsWait(s, start, k) ==
  /\ s \in Searches /\ s.done = FALSE /\ s.path = << >> /\ start \in s.visited
  /\ \A i \in 1..Len(s.queue) : s.queue[i].at \in s.visited /\ Shortest(s.queue[i], start)
  /\ \A i \in 1..Len(s.queue) : Len(s.queue[i].hops) \in k..(k + 1)
  /\ \A i, j \in 1..Len(s.queue) : i <= j => Len(s.queue[i].hops) <= Len(s.queue[j].hops)

(* Was taken from the queue, and what was done then. *)
LookedAt(s, start, to, id) == id # to /\ (Closed(s, id) \/ Far(start, id, MaxHops))

Searching(s, start, to) ==
  /\ \E k \in Nat : PathsWait(s, start, k)
  /\ \A id \in s.visited : Waits(s, id) \/ LookedAt(s, start, to, id)

(* What is near enough was visited.                                        *)
LEMMA BallIsVisited ==
  ASSUME GraphIsWhole, NEW start \in Ids, NEW s, start \in s.visited, s.visited \subseteq Ids, NEW K \in 0..MaxHops,
         \A id \in s.visited, m \in 0..(K - 1) : id \in Reach(start)[m] => Closed(s, id)
  PROVE  \A m \in 0..K : Reach(start)[m] \subseteq s.visited
<1> DEFINE T == {m \in 0..K : Reach(start)[m] \subseteq s.visited}
<1>1. MaxHops \in Nat /\ K \in Nat /\ K <= MaxHops
  BY GraphAssumption
<1>2. 0 \in T
  BY <1>1, ReachGrows
<1>3. ASSUME NEW m \in 1..K, m - 1 \in T
      PROVE  m \in T
  <2>1. m \in 1..MaxHops /\ m - 1 \in 0..(K - 1)
    BY <1>1
  <2>2. ASSUME NEW b \in Reach(start)[m] PROVE b \in s.visited
    <3>1. b \in Reach(start)[m - 1] \/ \E a \in Reach(start)[m - 1] : Near(a, b)
      BY <2>1, ReachGrows
    <3>2. CASE \E a \in Reach(start)[m - 1] : Near(a, b)
      <4>1. PICK a \in Reach(start)[m - 1] : Near(a, b)
        BY <3>2
      <4>2. a \in s.visited /\ Closed(s, a)
        BY <1>3, <2>1, <4>1
      <4>3. b \in Ids
        BY <4>1, RelationIs DEF Near
      <4> QED BY <4>1, <4>2, <4>3 DEF Closed
    <3> QED BY <1>3, <3>1, <3>2
  <2> QED BY <2>2
<1> HIDE DEF T
<1>4. \A m \in 0..K : m \in T
  BY <1>1, <1>2, <1>3, UpTo
<1> QED BY <1>4 DEF T

(* Before a path of k hops is taken, all that is within k was visited.     *)
LEMMA VisitedWithin ==
  ASSUME GraphIsWhole, NEW start \in Ids, NEW to, NEW s, Searching(s, start, to), s.queue # << >>
  PROVE  /\ Len(s.queue[1].hops) \in 0..MaxHops
         /\ \A m \in 0..Len(s.queue[1].hops) : Reach(start)[m] \subseteq s.visited
<1>1. PICK k \in Nat : PathsWait(s, start, k)
  BY DEF Searching
<1>2. s.queue \in Seq(PathsOf) /\ s.visited \subseteq Ids /\ start \in s.visited
  BY <1>1 DEF PathsWait, Searches
<1>3. 1 \in 1..Len(s.queue)
  BY <1>2, EmptySeq
<1> DEFINE K == Len(s.queue[1].hops)
<1>4. K \in Nat /\ K <= MaxHops /\ MaxHops \in Nat
  <2>1. s.queue[1] \in PathsOf
    BY <1>2, <1>3, ElementOfSeq
  <2> QED BY <1>1, <1>3, <2>1, GraphAssumption DEF PathsWait, Shortest, PathsOf, Ways
<1>5. ASSUME NEW id \in s.visited, NEW m \in 0..(K - 1), id \in Reach(start)[m]
      PROVE  Closed(s, id)
  <2>1. m \in Nat /\ m < K /\ m < MaxHops
    BY <1>4
  <2>2. ~Waits(s, id)
    <3> SUFFICES ASSUME NEW i \in 1..Len(s.queue), s.queue[i].at = id PROVE FALSE
      BY DEF Waits
    <3>1. K <= Len(s.queue[i].hops) /\ Far(start, s.queue[i].at, Len(s.queue[i].hops))
      BY <1>1, <1>3 DEF PathsWait, Shortest
    <3>2. s.queue[i] \in PathsOf
      BY <1>2, ElementOfSeq
    <3>3. Len(s.queue[i].hops) \in Nat
      BY <3>2 DEF PathsOf, Ways
    <3> QED BY <1>4, <1>5, <2>1, <3>1, <3>3 DEF Far
  <2>3. LookedAt(s, start, to, id)
    BY <2>2 DEF Searching
  <2> QED BY <1>5, <2>1, <2>3 DEF LookedAt, Far
<1>6. K \in 0..MaxHops
  BY <1>4
<1> HIDE DEF K
<1>7. \A m \in 0..K : Reach(start)[m] \subseteq s.visited
  BY <1>2, <1>5, <1>6, BallIsVisited
<1> QED BY <1>6, <1>7 DEF K

(* When nothing waits any more, what was not found is too far.             *)
LEMMA NothingWaits ==
  ASSUME GraphIsWhole, NEW start \in Ids, NEW to, NEW s, Searching(s, start, to), s.queue = << >>
  PROVE  to \notin Reach(start)[MaxHops]
<1>1. PICK k \in Nat : PathsWait(s, start, k)
  BY DEF Searching
<1>2. s.visited \subseteq Ids /\ start \in s.visited
  BY <1>1 DEF PathsWait, Searches
<1>3. MaxHops \in Nat
  BY GraphAssumption
<1>4. ASSUME NEW id \in s.visited PROVE LookedAt(s, start, to, id)
  BY DEF Searching, Waits
<1>5. ASSUME NEW id \in s.visited, NEW m \in 0..(MaxHops - 1), id \in Reach(start)[m]
      PROVE  Closed(s, id)
  BY <1>3, <1>4, <1>5 DEF LookedAt, Far
<1>6. \A m \in 0..MaxHops : Reach(start)[m] \subseteq s.visited
  BY <1>2, <1>3, <1>5, BallIsVisited
<1> QED BY <1>3, <1>4, <1>6 DEF LookedAt

(* A way goes on by one more hop.                                          *)
LEMMA OneHopMore ==
  ASSUME GraphIsWhole, NEW start \in Ids, NEW p \in PathsOf, LeadsTo(p.hops, start, p.at), NEW b \in Ids, Near(p.at, b)
  PROVE  LET hops == Append(p.hops, <<p.at, b>>)
         IN  hops \in Ways /\ hops # << >> /\ Len(hops) = Len(p.hops) + 1 /\ LeadsTo(hops, start, b)
<1> DEFINE h == p.hops
           e == <<p.at, b>>
           g == Append(h, e)
           n == Len(h)
<1>1. h \in Ways /\ p.at \in Ids /\ n \in Nat /\ e \in Ids \X Ids /\ e[1] = p.at /\ e[2] = b
  BY DEF PathsOf, Ways
<1>2. e \in ToSet(relations) \/ <<b, p.at>> \in ToSet(relations)
  BY DEF Near, ToSet, GraphIsWhole
<1>3. LeadsTo(h, start, p.at)
  OBVIOUS
<1> HIDE DEF h, e
<1>4. g \in Ways /\ Len(g) = n + 1 /\ g[n + 1] = e /\ \A i \in 1..n : g[i] = h[i]
  BY <1>1, AppendProperties DEF Ways
<1>5. g # << >>
  BY <1>1, <1>4
<1>6. Joins(g, start, b)
  <2>1. DOMAIN g = 1..n + 1 /\ DOMAIN h = 1..n
    BY <1>1, <1>4 DEF Ways
  <2>2. Last(g)[2] = b
    BY <1>1, <1>4 DEF Last
  <2>3. CASE n = 0
    <3>1. h = << >>
      BY <1>1, <2>3, EmptySeq DEF Ways
    <3>2. p.at = start
      BY <1>3, <3>1 DEF LeadsTo
    <3>3. g[1] = e
      BY <1>4, <2>3
    <3> QED BY <1>1, <1>2, <1>4, <2>1, <2>2, <2>3, <3>2, <3>3 DEF Joins, e
  <2>4. CASE n # 0
    <3>1. h # << >> /\ 1 \in 1..n
      BY <1>1, <2>4
    <3>2. Joins(h, start, p.at)
      BY <1>3, <3>1 DEF LeadsTo
    <3>3. g[1] = h[1] /\ h[n][2] = p.at
      BY <1>1, <1>4, <3>1, <3>2 DEF Joins, Last
    <3>4. g[1][1] = start
      BY <3>2, <3>3 DEF Joins
    <3>5. ASSUME NEW i \in 1..n + 1
          PROVE  <<g[i][1], g[i][2]>> \in ToSet(relations) \/ <<g[i][2], g[i][1]>> \in ToSet(relations)
      <4>1. CASE i = n + 1
        BY <1>1, <1>2, <1>4, <4>1 DEF e
      <4>2. CASE i # n + 1
        <5>1. i \in 1..n /\ g[i] = h[i]
          BY <1>1, <1>4, <4>2
        <5> QED BY <2>1, <3>2, <5>1 DEF Joins
      <4> QED BY <4>1, <4>2
    <3>6. ASSUME NEW i \in 1..n
          PROVE  g[i][2] = g[i + 1][1]
      <4>1. CASE i = n
        BY <1>1, <1>4, <3>3, <4>1
      <4>2. CASE i # n
        <5>1. i \in 1..(n - 1) /\ i + 1 \in 1..n
          BY <1>1, <4>2
        <5> QED BY <1>4, <3>2, <5>1 DEF Joins
      <4> QED BY <4>1, <4>2
    <3>7. 1..(Len(g) - 1) = 1..n
      BY <1>1, <1>4
    <3> HIDE DEF g
    <3> QED BY <2>1, <2>2, <3>4, <3>5, <3>6, <3>7 DEF Joins
  <2> QED BY <2>3, <2>4
<1> QED BY <1>4, <1>5, <1>6 DEF LeadsTo, h, e

(* What one relation adds to a search.                                     *)
LEMMA VisitIs ==
  ASSUME GraphIsWhole, NEW s \in Searches, NEW i \in 1..Len(relations), NEW p \in PathsOf
  PROVE  LET t == Visit(s, relations[i], p)
         IN  /\ t \in Searches /\ t.done = s.done /\ t.path = s.path
             /\ \/ t = s /\ \A b \in Ids : relations[i] \in {<<p.at, b>>, <<b, p.at>>} => b \in s.visited \/ b = p.at
                \/ \E b \in Ids \ s.visited :
                     /\ Near(p.at, b) /\ relations[i] \in {<<p.at, b>>, <<b, p.at>>} /\ t.visited = s.visited \cup {b}
                     /\ t.queue = Append(s.queue, Path(b, Append(p.hops, <<p.at, b>>)))
<1> DEFINE r == relations[i]
           b == IF r[1] = p.at THEN r[2] ELSE r[1]
           t == [s EXCEPT !.visited = @ \cup {b}, !.queue = Append(@, Path(b, Append(p.hops, <<p.at, b>>)))]
<1>1. r = <<r[1], r[2]>> /\ r[1] \in Ids /\ r[2] \in Ids
  BY RelationIs
<1>2. p.at \in Ids /\ p.hops \in Ways
  BY DEF PathsOf
<1>3. CASE p.at \notin {r[1], r[2]} \/ b \in s.visited
  <2>1. Visit(s, r, p) = s
    BY <1>3 DEF Visit
  <2>2. ASSUME NEW c \in Ids, r \in {<<p.at, c>>, <<c, p.at>>} PROVE c \in s.visited \/ c = p.at
    BY <1>1, <1>3, <2>2
  <2> QED BY <2>1, <2>2
<1>4. CASE p.at \in {r[1], r[2]} /\ b \notin s.visited
  <2>1. Visit(s, r, p) = t
    BY <1>4 DEF Visit
  <2>2. b \in Ids /\ r \in {<<p.at, b>>, <<b, p.at>>}
    BY <1>1, <1>4
  <2> HIDE DEF b, r
  <2>3. Near(p.at, b)
    BY <2>2 DEF Near, r
  <2>4. Append(p.hops, <<p.at, b>>) \in Ways
    BY <1>2, <2>2, AppendProperties DEF Ways
  <2>5. Path(b, Append(p.hops, <<p.at, b>>)) \in PathsOf
    BY <2>2, <2>4 DEF Path, PathsOf
  <2>6. s.queue \in Seq(PathsOf) /\ s.visited \subseteq Ids
    BY DEF Searches
  <2>7. Append(s.queue, Path(b, Append(p.hops, <<p.at, b>>))) \in Seq(PathsOf)
    BY <2>5, <2>6, AppendProperties
  <2>8. t \in Searches /\ t.done = s.done /\ t.path = s.path /\ t.visited = s.visited \cup {b}
        /\ t.queue = Append(s.queue, Path(b, Append(p.hops, <<p.at, b>>)))
    BY <2>2, <2>6, <2>7 DEF Searches
  <2> HIDE DEF t
  <2> QED BY <1>4, <2>1, <2>2, <2>3, <2>8 DEF r
<1> QED BY <1>3, <1>4

(* The loop over the relations, by the turns it takes.                     *)
LEMMA ExpandIs ==
  ASSUME GraphIsWhole, NEW s \in Searches, NEW p \in PathsOf
  PROVE  \E f : /\ Expand(s, p) = f[Len(relations)] /\ f[0] = s
                /\ \A n \in 1..Len(relations) : f[n] = Visit(f[n - 1], relations[n], p)
<1> DEFINE L == Len(relations)
           G == [n \in 1..L |-> [t \in Searches |-> Visit(t, relations[n], p)]]
           g == CHOOSE f : f = [n \in 0..L |-> IF n = 0 THEN s ELSE Visit(f[n - 1], relations[n], p)]
<1>1. L \in Nat
  BY DEF GraphIsWhole
<1>2. G \in [1..L -> [Searches -> Searches]]
  <2>1. \A n \in 1..L : \A t \in Searches : Visit(t, relations[n], p) \in Searches
    BY VisitIs
  <2> QED BY <2>1
<1>3. PICK f \in [0..L -> Searches] : f[0] = s /\ \A n \in 1..L : f[n] = G[n][f[n - 1]]
  <2> HIDE DEF L, G
  <2> QED BY <1>1, <1>2, LoopExists
<1>4. ASSUME NEW n \in 1..L PROVE f[n] = Visit(f[n - 1], relations[n], p)
  <2>1. f[n - 1] \in Searches
    BY <1>1, <1>3
  <2>2. G[n] = [t \in Searches |-> Visit(t, relations[n], p)]
    OBVIOUS
  <2> HIDE DEF G
  <2>3. G[n][f[n - 1]] = Visit(f[n - 1], relations[n], p)
    BY <2>1, <2>2
  <2> QED BY <1>3, <2>3
<1>5. f = [n \in 0..L |-> IF n = 0 THEN s ELSE Visit(f[n - 1], relations[n], p)]
  <2> HIDE DEF G, L
  <2> QED BY <1>1, <1>3, <1>4
<1>6. g = [n \in 0..L |-> IF n = 0 THEN s ELSE Visit(g[n - 1], relations[n], p)]
  <2> HIDE DEF L
  <2> QED BY <1>5
<1>7. Expand(s, p) = g[L]
  BY DEF Expand
<1> HIDE DEF g, L
<1>8. g[0] = s /\ \A n \in 1..L : g[n] = Visit(g[n - 1], relations[n], p)
  <2>1. 0 \in 0..L /\ \A n \in 1..L : n \in 0..L /\ n # 0
    BY <1>1
  <2> QED BY <1>6, <2>1
<1> QED BY <1>7, <1>8 DEF L

(* In the midst of that loop, over the neighbours of p.                    *)
Expanding(s, start, to, p, n, t) ==
  /\ PathsWait(t, start, Len(p.hops)) /\ s.visited \subseteq t.visited
  /\ \A id \in t.visited : Waits(t, id) \/ id = p.at \/ LookedAt(t, start, to, id)
  /\ \A i \in 1..n : \A b \in Ids : relations[i] \in {<<p.at, b>>, <<b, p.at>>} => b \in t.visited
  /\ Cardinality(t.visited) - Len(t.queue) = Cardinality(s.visited) - Len(s.queue)

(* Each turn of that loop keeps it so. *)
LEMMA VisitKeeps ==
  ASSUME GraphIsWhole, NEW start \in Ids, NEW to, NEW p \in PathsOf, Shortest(p, start), Len(p.hops) < MaxHops,
         NEW s, \A m \in 0..Len(p.hops) : Reach(start)[m] \subseteq s.visited, p.at \in s.visited,
         NEW n \in 1..Len(relations), NEW t, Expanding(s, start, to, p, n - 1, t)
  PROVE  Expanding(s, start, to, p, n, Visit(t, relations[n], p))
<1> DEFINE u == Visit(t, relations[n], p)
           k == Len(p.hops)
<1>0. n \in Nat /\ n <= Len(relations)
  BY DEF GraphIsWhole
<1>1. t \in Searches /\ k \in Nat /\ MaxHops \in Nat /\ p.at \in t.visited
  BY GraphAssumption DEF Expanding, PathsWait, PathsOf, Ways
<1>2. u \in Searches /\ u.done = FALSE /\ u.path = << >>
  BY <1>1, VisitIs DEF Expanding, PathsWait
<1>3. ASSUME NEW i \in 1..n, i # n PROVE i \in 1..(n - 1)
  BY <1>0, <1>3
<1>4. CASE u = t /\ \A b \in Ids : relations[n] \in {<<p.at, b>>, <<b, p.at>>} => b \in t.visited \/ b = p.at
  <2>1. \A i \in 1..n : \A b \in Ids : relations[i] \in {<<p.at, b>>, <<b, p.at>>} => b \in t.visited
    BY <1>1, <1>3, <1>4 DEF Expanding
  <2> HIDE DEF u
  <2> QED BY <1>4, <2>1 DEF Expanding, u
<1>5. ASSUME NEW b \in Ids \ t.visited,
             Near(p.at, b) /\ relations[n] \in {<<p.at, b>>, <<b, p.at>>} /\ u.visited = t.visited \cup {b},
             u.queue = Append(t.queue, Path(b, Append(p.hops, <<p.at, b>>)))
      PROVE  Expanding(s, start, to, p, n, u)
  <2> DEFINE q == Path(b, Append(p.hops, <<p.at, b>>))
             N == Len(t.queue)
  <2>1. t.queue \in Seq(PathsOf) /\ N \in Nat /\ t.visited \subseteq Ids /\ p.at \in Ids
    BY <1>1 DEF Searches, PathsOf
  <2>2. q.at = b /\ q.hops \in Ways /\ Len(q.hops) = k + 1 /\ LeadsTo(q.hops, start, b)
    <3>1. LeadsTo(p.hops, start, p.at)
      BY DEF Shortest
    <3> QED BY <1>5, <3>1, OneHopMore DEF Path
  <2>3. Far(start, b, k + 1)
    <3> SUFFICES ASSUME NEW m \in Nat, m < k + 1 PROVE b \notin Reach(start)[m]
      BY DEF Far
    <3>1. m \in 0..k
      BY <1>1
    <3> QED BY <3>1, <1>5 DEF Expanding
  <2>4. Shortest(q, start)
    BY <1>1, <2>2, <2>3 DEF Shortest
  <2>5. q \in PathsOf
    BY <2>2 DEF Path, PathsOf
  <2> HIDE DEF q, u
  <2>6. u.queue \in Seq(PathsOf) /\ Len(u.queue) = N + 1 /\ u.queue[N + 1] = q /\ \A i \in 1..N : u.queue[i] = t.queue[i]
    <3>1. u.queue = Append(t.queue, q)
      BY <1>5 DEF q
    <3> QED BY <2>1, <2>5, <3>1, AppendProperties
  <2>7. ASSUME NEW i \in 1..N + 1 PROVE (i = N + 1 /\ u.queue[i] = q) \/ (i \in 1..N /\ u.queue[i] = t.queue[i])
    <3>1. i = N + 1 \/ i \in 1..N
      BY <2>1
    <3> QED BY <2>6, <3>1
  <2>8. PathsWait(t, start, k)
    BY DEF Expanding
  <2>9. \A i \in 1..N : Len(t.queue[i].hops) \in k..(k + 1)
    BY <2>8 DEF PathsWait
  <2>10. PathsWait(u, start, k)
    <3>1. start \in u.visited
      BY <1>5, <2>8 DEF PathsWait
    <3>2. \A i \in 1..N + 1 : u.queue[i].at \in u.visited /\ Shortest(u.queue[i], start)
      BY <1>5, <2>2, <2>4, <2>7, <2>8 DEF PathsWait
    <3>3. \A i \in 1..N + 1 : Len(u.queue[i].hops) \in k..(k + 1)
      <4> SUFFICES ASSUME NEW i \in 1..N + 1 PROVE Len(u.queue[i].hops) \in k..(k + 1)
        OBVIOUS
      <4>1. k + 1 \in k..(k + 1)
        BY <1>1
      <4> QED BY <2>2, <2>7, <2>9, <4>1
    <3>4. ASSUME NEW i \in 1..N + 1, NEW j \in 1..N + 1, i <= j
          PROVE  Len(u.queue[i].hops) <= Len(u.queue[j].hops)
      <4>1. CASE j = N + 1
        BY <1>1, <2>2, <2>6, <3>3, <4>1
      <4>2. CASE j # N + 1
        <5>1. j \in 1..N /\ i \in 1..N
          BY <2>1, <3>4, <4>2
        <5> QED BY <2>6, <2>8, <3>4, <5>1 DEF PathsWait
      <4> QED BY <4>1, <4>2
    <3> QED BY <1>2, <2>6, <3>1, <3>2, <3>3, <3>4 DEF PathsWait
  <2>11. ASSUME NEW id \in u.visited PROVE Waits(u, id) \/ id = p.at \/ LookedAt(u, start, to, id)
    <3>1. CASE id = b
      <4>1. N + 1 \in 1..Len(u.queue)
        BY <2>1, <2>6
      <4> QED BY <2>2, <2>6, <3>1, <4>1 DEF Waits
    <3>2. CASE id # b
      <4>1. id \in t.visited
        BY <1>5, <3>2
      <4>2. Waits(t, id) => Waits(u, id)
        <5>1. \A i \in 1..N : i \in 1..N + 1
          BY <2>1
        <5> QED BY <2>6, <5>1 DEF Waits
      <4>3. LookedAt(t, start, to, id) => LookedAt(u, start, to, id)
        BY <1>5 DEF LookedAt, Closed
      <4> QED BY <4>1, <4>2, <4>3 DEF Expanding
    <3> QED BY <3>1, <3>2
  <2>12. ASSUME NEW i \in 1..n, NEW c \in Ids, relations[i] \in {<<p.at, c>>, <<c, p.at>>}
         PROVE  c \in u.visited
    <3>1. CASE i = n
      <4>1. c = b \/ c = p.at
        BY <1>5, <2>12, <3>1
      <4> QED BY <1>1, <1>5, <4>1
    <3>2. CASE i # n
      BY <1>3, <1>5, <2>12, <3>2 DEF Expanding
    <3> QED BY <3>1, <3>2
  <2>13. Cardinality(u.visited) = Cardinality(t.visited) + 1
    <3>1. IsFiniteSet(t.visited)
      BY <2>1, FS_Subset DEF GraphIsWhole
    <3> QED BY <1>5, <3>1, FS_AddElement
  <2>14. Cardinality(u.visited) - Len(u.queue) = Cardinality(s.visited) - Len(s.queue)
    <3>1. Cardinality(t.visited) \in Nat
      BY <2>1, FS_Subset, FS_CardinalityType DEF GraphIsWhole
    <3>2. Cardinality(t.visited) - N = Cardinality(s.visited) - Len(s.queue)
      BY DEF Expanding
    <3>3. Cardinality(u.visited) - Len(u.queue) = Cardinality(t.visited) - N
      <4> DEFINE c == Cardinality(t.visited)
                 d == Len(u.queue)
      <4>1. d = N + 1 /\ N \in Nat /\ c \in Nat
        BY <2>1, <2>6, <3>1
      <4>2. Cardinality(u.visited) = c + 1
        BY <2>13
      <4> HIDE DEF c, d, N
      <4>3. Cardinality(u.visited) - d = c - N
        BY <4>1, <4>2
      <4> QED BY <4>3 DEF c, d
    <3> QED BY <3>2, <3>3
  <2> QED BY <1>5, <2>10, <2>11, <2>12, <2>14 DEF Expanding
<1> HIDE DEF u
<1>6. \/ u = t /\ \A b \in Ids : relations[n] \in {<<p.at, b>>, <<b, p.at>>} => b \in t.visited \/ b = p.at
      \/ \E b \in Ids \ t.visited :
           /\ Near(p.at, b) /\ relations[n] \in {<<p.at, b>>, <<b, p.at>>} /\ u.visited = t.visited \cup {b}
           /\ u.queue = Append(t.queue, Path(b, Append(p.hops, <<p.at, b>>)))
  BY <1>1, VisitIs DEF u
<1> QED BY <1>4, <1>5, <1>6 DEF u

(* The path that is taken, and what the search is without it.              *)
LEMMA TakenPath ==
  ASSUME GraphIsWhole, NEW start \in Ids, NEW to, NEW s, Searching(s, start, to), s.queue # << >>
  PROVE  LET p == Head(s.queue)
             t == [s EXCEPT !.queue = Tail(@)]
         IN  /\ p \in PathsOf /\ p.at \in s.visited /\ Shortest(p, start) /\ Len(p.hops) \in 0..MaxHops
             /\ t.visited = s.visited /\ t.path = << >> /\ t.done = FALSE /\ t \in Searches
             /\ Len(s.queue) \in Nat /\ Len(t.queue) = Len(s.queue) - 1
             /\ PathsWait(t, start, Len(p.hops))
             /\ \A id \in s.visited : Waits(t, id) \/ id = p.at \/ LookedAt(t, start, to, id)
<1> DEFINE p == Head(s.queue)
           t == [s EXCEPT !.queue = Tail(@)]
           N == Len(s.queue)
<1>1. PICK k \in Nat : PathsWait(s, start, k)
  BY DEF Searching
<1>2. s.queue \in Seq(PathsOf) /\ N \in Nat /\ s \in Searches /\ N # 0
  BY <1>1, EmptySeq DEF PathsWait, Searches
<1>3. p = s.queue[1] /\ 1 \in 1..N /\ p \in PathsOf
  BY <1>2
<1>4. p.at \in s.visited /\ Shortest(p, start) /\ Len(p.hops) \in 0..MaxHops /\ Len(p.hops) \in k..(k + 1)
  <2>1. Len(p.hops) \in Nat /\ MaxHops \in Nat
    BY <1>3, GraphAssumption DEF PathsOf, Ways
  <2> QED BY <1>1, <1>3, <2>1 DEF PathsWait, Shortest
<1>5. /\ Tail(s.queue) \in Seq(PathsOf) /\ Len(Tail(s.queue)) = N - 1
      /\ \A i \in 1..(N - 1) : Tail(s.queue)[i] = s.queue[i + 1]
  BY <1>2, HeadTailProperties
<1>6. t.visited = s.visited /\ t.path = << >> /\ t.done = FALSE /\ t \in Searches /\ t.queue = Tail(s.queue)
  BY <1>1, <1>2, <1>5 DEF PathsWait, Searches
<1> HIDE DEF p, t
<1>7. PathsWait(t, start, Len(p.hops))
  <2>1. \A i \in 1..(N - 1) : i + 1 \in 1..N /\ 1 <= i + 1
    BY <1>2
  <2>2. ASSUME NEW i \in 1..(N - 1)
        PROVE  /\ t.queue[i].at \in t.visited /\ Shortest(t.queue[i], start)
               /\ Len(t.queue[i].hops) \in Len(p.hops)..(Len(p.hops) + 1)
    <3>1. t.queue[i] = s.queue[i + 1] /\ i + 1 \in 1..N
      BY <1>5, <1>6, <2>1
    <3>2. Len(s.queue[i + 1].hops) \in k..(k + 1) /\ Len(p.hops) <= Len(s.queue[i + 1].hops)
      BY <1>1, <1>3, <2>1, <3>1 DEF PathsWait
    <3>3. Len(s.queue[i + 1].hops) \in Len(p.hops)..(Len(p.hops) + 1)
      BY <1>1, <1>4, <3>2
    <3> QED BY <1>1, <1>6, <3>1, <3>3 DEF PathsWait
  <2>3. ASSUME NEW i \in 1..(N - 1), NEW j \in 1..(N - 1), i <= j
        PROVE  Len(t.queue[i].hops) <= Len(t.queue[j].hops)
    <3>1. i + 1 \in 1..N /\ j + 1 \in 1..N /\ i + 1 <= j + 1
      BY <1>2, <2>3
    <3>2. Len(s.queue[i + 1].hops) <= Len(s.queue[j + 1].hops)
      BY <1>1, <3>1 DEF PathsWait
    <3> QED BY <1>5, <1>6, <3>2
  <2>4. start \in t.visited
    BY <1>1, <1>6 DEF PathsWait
  <2>5. Len(t.queue) = N - 1
    BY <1>5, <1>6
  <2> QED BY <1>6, <2>2, <2>3, <2>4, <2>5 DEF PathsWait
<1>8. ASSUME NEW id \in s.visited
      PROVE  Waits(t, id) \/ id = p.at \/ LookedAt(t, start, to, id)
  <2>1. CASE Waits(s, id)
    <3>1. PICK i \in 1..N : s.queue[i].at = id
      BY <2>1 DEF Waits
    <3>2. CASE i = 1
      BY <1>3, <3>1, <3>2
    <3>3. CASE i # 1
      <4>1. i - 1 \in 1..(N - 1) /\ (i - 1) + 1 = i
        BY <1>2, <3>3
      <4>2. t.queue[i - 1].at = id
        BY <1>5, <1>6, <3>1, <4>1
      <4> QED BY <1>5, <1>6, <4>1, <4>2 DEF Waits
    <3> QED BY <3>2, <3>3
  <2>2. CASE LookedAt(s, start, to, id)
    BY <1>6, <2>2 DEF LookedAt, Closed
  <2> QED BY <2>1, <2>2 DEF Searching
<1>9. Len(t.queue) = N - 1
  BY <1>5, <1>6
<1> QED BY <1>2, <1>3, <1>4, <1>6, <1>7, <1>8, <1>9 DEF p, t

(* All the loop over the relations leaves.                                 *)
LEMMA ExpandKeeps ==
  ASSUME GraphIsWhole, NEW start \in Ids, NEW to, NEW p \in PathsOf, Shortest(p, start), Len(p.hops) < MaxHops,
         p.at # to, NEW s, \A m \in 0..Len(p.hops) : Reach(start)[m] \subseteq s.visited, p.at \in s.visited,
         Expanding(s, start, to, p, 0, s)
  PROVE  /\ Searching(Expand(s, p), start, to)
         /\ Cardinality(Expand(s, p).visited) - Len(Expand(s, p).queue) = Cardinality(s.visited) - Len(s.queue)
<1> DEFINE L == Len(relations)
<1>1. s \in Searches /\ L \in Nat
  BY DEF Expanding, PathsWait, GraphIsWhole
<1>2. PICK f : /\ Expand(s, p) = f[L] /\ f[0] = s
               /\ \A n \in 1..L : f[n] = Visit(f[n - 1], relations[n], p)
  BY <1>1, ExpandIs
<1> DEFINE T == {n \in 0..L : Expanding(s, start, to, p, n, f[n])}
<1>3. 0 \in T
  BY <1>1, <1>2
<1>4. ASSUME NEW n \in 1..L, n - 1 \in T
      PROVE  n \in T
  <2>1. Expanding(s, start, to, p, n - 1, f[n - 1])
    BY <1>4
  <2>2. Expanding(s, start, to, p, n, Visit(f[n - 1], relations[n], p))
    BY <2>1, VisitKeeps
  <2> QED BY <1>2, <2>2
<1>5. Expanding(s, start, to, p, L, f[L])
  <2> HIDE DEF T
  <2>1. \A n \in 0..L : n \in T
    BY <1>1, <1>3, <1>4, UpTo
  <2>2. L \in T
    BY <1>1, <2>1
  <2> QED BY <2>2 DEF T
<1> DEFINE t == f[L]
<1> HIDE DEF t
<1>6. Expanding(s, start, to, p, L, t)
  BY <1>5 DEF t
<1>7. Closed(t, p.at)
  BY <1>6 DEF Closed, Expanding, Near
<1>8. Len(p.hops) \in Nat
  BY DEF PathsOf, Ways
<1>9. Searching(t, start, to)
  BY <1>6, <1>7, <1>8 DEF Searching, Expanding, LookedAt
<1> QED BY <1>2, <1>6, <1>9 DEF t, Expanding

(* What a search that is over found.                                       *)
Answer(path, start, to) ==
  IF path = << >> THEN start = to
  ELSE Len(path) <= MaxHops /\ Joins(path, start, to) /\ to \notin Reach(start)[Len(path) - 1]

(* After n turns: found, or nothing waits, or n entities were looked at.   *)
AfterTurns(s, start, to, n) ==
  \/ s.done = TRUE /\ Answer(s.path, start, to)
  \/ /\ Searching(s, start, to)
     /\ s.queue = << >> \/ Cardinality(s.visited) - Len(s.queue) = n

(* A turn of the search keeps it so: the path of the least hops is taken. *)
LEMMA TurnKeeps ==
  ASSUME GraphIsWhole, NEW start \in Ids, NEW to \in Ids, NEW n \in Nat, NEW s, AfterTurns(s, start, to, n)
  PROVE  AfterTurns(Turn(s, to), start, to, n + 1)
<1>1. CASE s.done
  BY <1>1 DEF AfterTurns, Turn, Searching, PathsWait
<1>2. CASE ~s.done /\ s.queue = << >>
  BY <1>2 DEF AfterTurns, Turn
<1>3. CASE ~s.done /\ s.queue # << >>
  <2> DEFINE p == Head(s.queue)
             t == [s EXCEPT !.queue = Tail(@)]
  <2>1. Searching(s, start, to) /\ Cardinality(s.visited) - Len(s.queue) = n
    BY <1>3 DEF AfterTurns
  <2>2. /\ p \in PathsOf /\ p.at \in s.visited /\ Shortest(p, start) /\ Len(p.hops) \in 0..MaxHops
        /\ t.visited = s.visited /\ t.path = << >> /\ t.done = FALSE /\ t \in Searches
        /\ Len(s.queue) \in Nat /\ Len(t.queue) = Len(s.queue) - 1
        /\ PathsWait(t, start, Len(p.hops))
        /\ \A id \in s.visited : Waits(t, id) \/ id = p.at \/ LookedAt(t, start, to, id)
    BY <1>3, <2>1, TakenPath
  <2>3. Turn(s, to) = IF p.at = to THEN [t EXCEPT !.done = TRUE, !.path = p.hops]
                      ELSE IF Len(p.hops) >= MaxHops THEN t ELSE Expand(t, p)
    BY <1>3 DEF Turn
  <2>4. \A m \in 0..Len(p.hops) : Reach(start)[m] \subseteq s.visited
    <3>1. p = s.queue[1]
      BY <1>3, <2>1 DEF Searching, PathsWait, Searches
    <3> QED BY <1>3, <2>1, <3>1, VisitedWithin
  <2> HIDE DEF p, t
  <2>5. Cardinality(t.visited) \in Nat /\ Cardinality(t.visited) - Len(t.queue) = n + 1
    <3>1. s.visited \subseteq Ids
      BY <2>2 DEF Searches
    <3>2. Cardinality(s.visited) \in Nat
      BY <3>1, FS_Subset, FS_CardinalityType DEF GraphIsWhole
    <3> QED BY <2>1, <2>2, <3>2
  <2>6. CASE p.at = to
    <3>1. Turn(s, to).done = TRUE /\ Turn(s, to).path = p.hops
      BY <2>2, <2>3, <2>6 DEF Searches
    <3>2. Answer(p.hops, start, to)
      <4>1. CASE p.hops = << >>
        BY <2>2, <2>6, <4>1 DEF Shortest, LeadsTo, Answer
      <4>2. CASE p.hops # << >>
        <5>1. p.hops \in Seq(Ids \X Ids) /\ Len(p.hops) \in Nat /\ Len(p.hops) # 0
          BY <2>2, <4>2, EmptySeq DEF PathsOf, Ways
        <5>2. Len(p.hops) - 1 \in Nat /\ Len(p.hops) - 1 < Len(p.hops)
          BY <5>1
        <5>3. to \notin Reach(start)[Len(p.hops) - 1]
          BY <2>2, <2>6, <5>2 DEF Shortest, Far
        <5> QED BY <2>2, <2>6, <4>2, <5>3 DEF Shortest, LeadsTo, Answer
      <4> QED BY <4>1, <4>2
    <3> QED BY <3>1, <3>2 DEF AfterTurns
  <2>7. CASE p.at # to /\ Len(p.hops) >= MaxHops
    <3>1. Far(start, p.at, MaxHops)
      BY <2>2, <2>7, GraphAssumption DEF Shortest, Far
    <3>2. \A id \in t.visited : Waits(t, id) \/ LookedAt(t, start, to, id)
      BY <2>2, <2>7, <3>1 DEF LookedAt
    <3>3. Searching(t, start, to)
      BY <2>2, <3>2, GraphAssumption DEF Searching
    <3>4. Turn(s, to) = t
      BY <2>3, <2>7
    <3> QED BY <2>5, <3>3, <3>4 DEF AfterTurns
  <2>8. CASE p.at # to /\ ~(Len(p.hops) >= MaxHops)
    <3>1. Turn(s, to) = Expand(t, p) /\ Len(p.hops) < MaxHops
      BY <2>2, <2>3, <2>8, GraphAssumption
    <3>2. Expanding(t, start, to, p, 0, t)
      BY <2>2 DEF Expanding
    <3>3. /\ Searching(Expand(t, p), start, to)
          /\ Cardinality(Expand(t, p).visited) - Len(Expand(t, p).queue) = Cardinality(t.visited) - Len(t.queue)
      BY <2>2, <2>4, <2>8, <3>1, <3>2, ExpandKeeps
    <3> QED BY <2>5, <3>1, <3>3 DEF AfterTurns
  <2> QED BY <2>6, <2>7, <2>8
<1> QED BY <1>1, <1>2, <1>3

(* A turn of a search over the graph is a search over it.                  *)
LEMMA TurnIsSearch == ASSUME GraphIsWhole, NEW to \in Ids, NEW s \in Searches PROVE Turn(s, to) \in Searches
<1>1. CASE s.done \/ s.queue = << >>
  BY <1>1 DEF Turn
<1>2. CASE ~s.done /\ s.queue # << >>
  <2> DEFINE p == Head(s.queue)
             t == [s EXCEPT !.queue = Tail(@)]
             u == [t EXCEPT !.done = TRUE, !.path = p.hops]
  <2>1. s.queue \in Seq(PathsOf) /\ p \in PathsOf /\ Tail(s.queue) \in Seq(PathsOf)
    <3>1. s.queue \in Seq(PathsOf)
      BY DEF Searches
    <3> QED BY <1>2, <3>1, HeadTailProperties
  <2>2. t \in Searches
    BY <2>1 DEF Searches
  <2>3. u \in Searches
    BY <2>1, <2>2 DEF Searches, PathsOf
  <2>4. Turn(s, to) = IF p.at = to THEN u ELSE IF Len(p.hops) >= MaxHops THEN t ELSE Expand(t, p)
    BY <1>2 DEF Turn
  <2> HIDE DEF p, t, u
  <2>5. Expand(t, p) \in Searches
    <3>1. PICK f : /\ Expand(t, p) = f[Len(relations)] /\ f[0] = t
                   /\ \A n \in 1..Len(relations) : f[n] = Visit(f[n - 1], relations[n], p)
      BY <2>1, <2>2, ExpandIs
    <3> DEFINE T == {n \in 0..Len(relations) : f[n] \in Searches}
               L == Len(relations)
    <3>2. L \in Nat
      BY DEF GraphIsWhole
    <3>3. 0 \in T
      BY <2>2, <3>1, <3>2
    <3>4. ASSUME NEW n \in 1..L, n - 1 \in T PROVE n \in T
      <4>1. f[n - 1] \in Searches
        BY <3>4
      <4>2. Visit(f[n - 1], relations[n], p) \in Searches
        BY <2>1, <4>1, VisitIs
      <4> QED BY <3>1, <3>2, <4>2
    <3> HIDE DEF T
    <3>5. L \in T
      <4>1. \A n \in 0..L : n \in T
        BY <3>2, <3>3, <3>4, UpTo
      <4> QED BY <3>2, <4>1
    <3> QED BY <3>1, <3>5 DEF T
  <2> QED BY <2>2, <2>3, <2>4, <2>5
<1> QED BY <1>1, <1>2

(* A trace, by the turns it takes.                                         *)
LEMMA TraceIs ==
  ASSUME GraphIsWhole, NEW start \in Ids, NEW to \in Ids
  PROVE  \E f : LET turns == Cardinality(Ids) + 1
                IN  /\ Trace(start, to) = f[turns].path
                    /\ f[0] = [queue |-> <<Path(start, << >>)>>, visited |-> {start}, done |-> FALSE, path |-> << >>]
                    /\ \A n \in 1..turns : f[n] = Turn(f[n - 1], to)
<1> DEFINE N == Cardinality(Ids) + 1
           first == [queue |-> <<Path(start, << >>)>>, visited |-> {start}, done |-> FALSE, path |-> << >>]
           G == [n \in 1..N |-> [t \in Searches |-> Turn(t, to)]]
           g == CHOOSE f : f = [n \in 0..N |-> IF n = 0 THEN first ELSE Turn(f[n - 1], to)]
<1>1. N \in Nat
  BY FS_CardinalityType DEF GraphIsWhole
<1>2. G \in [1..N -> [Searches -> Searches]]
  BY TurnIsSearch
<1>3. first \in Searches
  <2>1. << >> \in Ways
    BY EmptySeq DEF Ways
  <2>2. Path(start, << >>) \in PathsOf
    BY <2>1 DEF Path, PathsOf
  <2>3. <<Path(start, << >>)>> \in Seq(PathsOf)
    BY <2>2
  <2> QED BY <2>1, <2>3 DEF Searches
<1>4. PICK f \in [0..N -> Searches] : f[0] = first /\ \A n \in 1..N : f[n] = G[n][f[n - 1]]
  <2> HIDE DEF N, G, first
  <2> QED BY <1>1, <1>2, <1>3, LoopExists
<1>5. ASSUME NEW n \in 1..N PROVE f[n] = Turn(f[n - 1], to)
  <2>1. f[n - 1] \in Searches
    <3> HIDE DEF N
    <3> QED BY <1>1, <1>4
  <2>2. G[n] = [t \in Searches |-> Turn(t, to)]
    OBVIOUS
  <2> HIDE DEF G
  <2>3. G[n][f[n - 1]] = Turn(f[n - 1], to)
    BY <2>1, <2>2
  <2> QED BY <1>4, <2>3
<1>6. f = [n \in 0..N |-> IF n = 0 THEN first ELSE Turn(f[n - 1], to)]
  <2> HIDE DEF G, N, first
  <2> QED BY <1>1, <1>4, <1>5
<1>7. g = [n \in 0..N |-> IF n = 0 THEN first ELSE Turn(g[n - 1], to)]
  <2> HIDE DEF N, first
  <2> QED BY <1>6
<1>8. Trace(start, to) = g[N].path
  BY DEF Trace, Ids
<1> HIDE DEF g, N, first
<1>9. g[0] = first /\ \A n \in 1..N : g[n] = Turn(g[n - 1], to)
  <2>1. 0 \in 0..N /\ \A n \in 1..N : n \in 0..N /\ n # 0
    BY <1>1
  <2> QED BY <1>7, <2>1
<1> QED BY <1>8, <1>9 DEF N, first

(* A search begins with the path of no hops.                               *)
LEMMA SearchBegins ==
  ASSUME GraphIsWhole, NEW start \in Ids, NEW to \in Ids
  PROVE  AfterTurns([queue |-> <<Path(start, << >>)>>, visited |-> {start}, done |-> FALSE, path |-> << >>], start, to, 0)
<1> DEFINE p == Path(start, << >>)
           s == [queue |-> <<p>>, visited |-> {start}, done |-> FALSE, path |-> << >>]
<1>1. << >> \in Ways /\ Len(<< >>) = 0 /\ MaxHops \in Nat
  BY EmptySeq, GraphAssumption DEF Ways
<1>2. p \in PathsOf /\ p.at = start /\ p.hops = << >>
  BY <1>1 DEF Path, PathsOf
<1> HIDE DEF p
<1>3. s.queue \in Seq(PathsOf) /\ Len(s.queue) = 1 /\ s.queue[1] = p
  BY <1>2
<1>4. s \in Searches /\ s.done = FALSE /\ s.path = << >> /\ s.visited = {start}
  BY <1>1, <1>3 DEF Searches
<1>5. Shortest(p, start)
  BY <1>1, <1>2 DEF Shortest, LeadsTo, Far
<1> HIDE DEF s
<1>6. PathsWait(s, start, 0)
  <2>1. \A i \in 1..Len(s.queue) : i = 1
    BY <1>3
  <2>2. Len(p.hops) = 0 /\ 0 \in 0..(0 + 1)
    BY <1>1, <1>2
  <2> QED BY <1>2, <1>3, <1>4, <1>5, <2>1, <2>2 DEF PathsWait
<1>7. Searching(s, start, to)
  BY <1>2, <1>3, <1>4, <1>6 DEF Searching, Waits
<1>8. Cardinality(s.visited) - Len(s.queue) = 0
  <2>1. Cardinality({start}) = 1
    BY FS_Singleton
  <2>2. Cardinality(s.visited) = 1 /\ Len(s.queue) = 1
    BY <1>3, <1>4, <2>1
  <2> QED BY <2>2
<1> QED BY <1>7, <1>8 DEF AfterTurns, s, p

(* There are turns enough to look at all that was visited.                 *)
LEMMA ShortestIsFound == GraphIsWhole => TraceIsShortest
<1> SUFFICES ASSUME GraphIsWhole, NEW start \in Ids, NEW to \in Ids
             PROVE  LET path == Trace(start, to)
                    IN  IF path = << >> THEN start = to \/ to \notin Reach(start)[MaxHops]
                        ELSE Len(path) <= MaxHops /\ Joins(path, start, to) /\ to \notin Reach(start)[Len(path) - 1]
  BY DEF TraceIsShortest, Ids
<1> DEFINE N == Cardinality(Ids) + 1
<1>1. PICK f : /\ Trace(start, to) = f[N].path
               /\ f[0] = [queue |-> <<Path(start, << >>)>>, visited |-> {start}, done |-> FALSE, path |-> << >>]
               /\ \A n \in 1..N : f[n] = Turn(f[n - 1], to)
  BY TraceIs
<1>2. Cardinality(Ids) \in Nat /\ N \in Nat
  BY FS_CardinalityType DEF GraphIsWhole
<1> DEFINE T == {n \in 0..N : AfterTurns(f[n], start, to, n)}
<1>3. 0 \in T
  BY <1>1, <1>2, SearchBegins
<1>4. ASSUME NEW n \in 1..N, n - 1 \in T PROVE n \in T
  <2>1. n - 1 \in Nat /\ (n - 1) + 1 = n /\ n \in 0..N /\ AfterTurns(f[n - 1], start, to, n - 1)
    BY <1>2, <1>4
  <2>2. AfterTurns(Turn(f[n - 1], to), start, to, (n - 1) + 1)
    BY <2>1, TurnKeeps
  <2> HIDE DEF N
  <2> QED BY <1>1, <2>1, <2>2
<1>5. AfterTurns(f[N], start, to, N)
  <2> HIDE DEF T, N
  <2>1. \A n \in 0..N : n \in T
    BY <1>2, <1>3, <1>4, UpTo
  <2>2. N \in T
    BY <1>2, <2>1
  <2> QED BY <2>2 DEF T
<1> DEFINE s == f[N]
<1> HIDE DEF s
<1>6. AfterTurns(s, start, to, N) /\ Trace(start, to) = s.path
  BY <1>1, <1>5 DEF s
<1>7. CASE Answer(s.path, start, to)
  BY <1>6, <1>7 DEF Answer
<1>8. CASE Searching(s, start, to) /\ (s.queue = << >> \/ Cardinality(s.visited) - Len(s.queue) = N)
  <2>1. s.path = << >> /\ s \in Searches
    BY <1>8 DEF Searching, PathsWait
  <2>2. s.queue = << >>
    <3>1. s.visited \subseteq Ids /\ Len(s.queue) \in Nat
      BY <2>1 DEF Searches
    <3>2. Cardinality(s.visited) \in Nat /\ Cardinality(s.visited) <= Cardinality(Ids)
      BY <3>1, FS_Subset, FS_CardinalityType DEF GraphIsWhole
    <3> QED BY <1>2, <1>8, <3>1, <3>2
  <2>3. to \notin Reach(start)[MaxHops]
    BY <1>8, <2>2, NothingWaits
  <2> QED BY <1>6, <2>1, <2>3
<1> QED BY <1>6, <1>7, <1>8 DEF AfterTurns

-----------------------------------------------------------------------------
(* What the graph always is *)

(* Relations between what is known, each of them once. *)
Orders(nodes) == {rs \in Seq(nodes \X nodes) : IsInjective(rs)}

(* What they are, place by place. *)
LEMMA OrdersAre ==
  ASSUME NEW nodes, NEW rs \in Orders(nodes)
  PROVE  /\ rs \in Seq(nodes \X nodes) /\ Len(rs) \in Nat /\ DOMAIN rs = 1..Len(rs)
         /\ \A i, j \in 1..Len(rs) : rs[i] = rs[j] => i = j
<1>1. rs \in Seq(nodes \X nodes) /\ IsInjective(rs)
  BY DEF Orders
<1>2. Len(rs) \in Nat /\ DOMAIN rs = 1..Len(rs)
  BY <1>1
<1> QED BY <1>1, <1>2 DEF IsInjective

LEMMA EndsAreKnown ==
  ASSUME NEW nodes, NEW rs \in Orders(nodes), NEW i \in 1..Len(rs)
  PROVE  rs[i] \in nodes \X nodes /\ rs[i] = <<rs[i][1], rs[i][2]>> /\ rs[i][1] \in nodes /\ rs[i][2] \in nodes
<1>1. rs \in Seq(nodes \X nodes)
  BY DEF Orders
<1>2. rs[i] \in nodes \X nodes
  BY <1>1, ElementOfSeq
<1> QED BY <1>2, PairIs

(* One more, that is not among them. *)
LEMMA AppendKeepsOrder ==
  ASSUME NEW nodes, NEW rs \in Orders(nodes), NEW r \in nodes \X nodes, \A i \in 1..Len(rs) : rs[i] # r
  PROVE  Append(rs, r) \in Orders(nodes)
<1> DEFINE more == Append(rs, r)
           N == Len(rs)
<1>1. rs \in Seq(nodes \X nodes) /\ N \in Nat /\ \A i, j \in 1..N : rs[i] = rs[j] => i = j
  BY OrdersAre
<1>2. more \in Seq(nodes \X nodes) /\ Len(more) = N + 1 /\ more[N + 1] = r /\ \A i \in 1..N : more[i] = rs[i]
  BY <1>1, AppendProperties
<1> HIDE DEF more
<1>3. DOMAIN more = 1..N + 1
  BY <1>2
<1>4. ASSUME NEW i \in 1..N + 1, NEW j \in 1..N + 1, more[i] = more[j] PROVE i = j
  <2>1. i = N + 1 \/ i \in 1..N
    BY <1>1
  <2>2. j = N + 1 \/ j \in 1..N
    BY <1>1
  <2> QED BY <1>1, <1>2, <1>4, <2>1, <2>2
<1> QED BY <1>2, <1>3, <1>4 DEF Orders, IsInjective, more

LEMMA RelatingKeepsOrder ==
  ASSUME NEW nodes, NEW rs \in Orders(nodes), NEW a \in nodes, NEW b \in nodes
  PROVE  Relating(rs, a, b) \in Orders(nodes)
<1>1. CASE <<a, b>> \in ToSet(rs)
  BY <1>1 DEF Relating
<1>2. CASE <<a, b>> \notin ToSet(rs)
  <2>1. \A i \in 1..Len(rs) : rs[i] # <<a, b>>
    BY <1>2, OrdersAre DEF ToSet
  <2>2. Append(rs, <<a, b>>) \in Orders(nodes)
    BY <2>1, AppendKeepsOrder
  <2> QED BY <1>2, <2>2 DEF Relating
<1> QED BY <1>1, <1>2

(* Relations stay such where more is known. *)
LEMMA MoreIsKnown == ASSUME NEW nodes, NEW more, nodes \subseteq more PROVE Orders(nodes) \subseteq Orders(more)
<1> SUFFICES ASSUME NEW rs \in Orders(nodes) PROVE rs \in Orders(more)
  OBVIOUS
<1>1. rs \in Seq(nodes \X nodes) /\ \A i \in 1..Len(rs) : rs[i] \in nodes \X nodes
  BY OrdersAre, EndsAreKnown
<1>2. nodes \X nodes \subseteq more \X more
  OBVIOUS
<1>3. rs \in Seq(more \X more)
  <2>1. rs = [i \in 1..Len(rs) |-> rs[i]] /\ Len(rs) \in Nat
    BY <1>1
  <2>2. rs \in [1..Len(rs) -> more \X more]
    BY <1>1, <1>2, <2>1
  <2> QED BY <2>1, <2>2
<1> QED BY <1>3 DEF Orders

(* The core and its subsystem are related at the start. *)
LEMMA BootstrapIs ==
  ASSUME NEW nodes, {Core, Subsystem} \subseteq nodes
  PROVE  Bootstrap.relations \in Orders(nodes)
<1> DEFINE r == <<Core, Subsystem>>
<1>1. Bootstrap.relations = <<r>>
  BY DEF Bootstrap
<1>2. r \in nodes \X nodes
  OBVIOUS
<1> HIDE DEF r
<1>3. <<r>> \in Seq(nodes \X nodes) /\ DOMAIN <<r>> = {1}
  BY <1>2
<1> QED BY <1>1, <1>3 DEF Orders, IsInjective

(* A world that is saved: relations of what is not kept are among its own. *)
IsWorld(file) ==
  /\ AreEntities(file.entities) /\ IsFiniteSet(DOMAIN file.entities)
  /\ Cardinality(DOMAIN file.entities \cup {Core, Subsystem}) <= MaxEntities
  /\ file.relations \in Seq(Nodes \X Nodes)

(* The loop over the relations of the file. *)
LEMMA LoadedIsOrder ==
  ASSUME NEW file, IsWorld(file)
  PROVE  LoadedRelations(file) \in Orders(DOMAIN LoadedEntities(file))
<1> DEFINE nodes == DOMAIN LoadedEntities(file)
           N == Len(file.relations)
           r(n) == file.relations[n]
           S == Orders(nodes)
           Add(rs, n) == IF {r(n)[1], r(n)[2]} \subseteq nodes THEN Relating(rs, r(n)[1], r(n)[2]) ELSE rs
           G == [n \in 1..N |-> [rs \in S |-> Add(rs, n)]]
           first == Bootstrap.relations
           g == CHOOSE f : f = [n \in 0..N |-> IF n = 0 THEN first ELSE Add(f[n - 1], n)]
<1>1. N \in Nat
  BY DEF IsWorld
<1>2. ASSUME NEW n \in 1..N, NEW rs \in S PROVE Add(rs, n) \in S
  <2>1. CASE {r(n)[1], r(n)[2]} \subseteq nodes
    <3> HIDE DEF r, nodes
    <3>1. r(n)[1] \in nodes /\ r(n)[2] \in nodes
      BY <2>1
    <3> QED BY <2>1, <3>1, RelatingKeepsOrder
  <2>2. CASE ~({r(n)[1], r(n)[2]} \subseteq nodes)
    BY <2>2
  <2> QED BY <2>1, <2>2
<1>3. first \in S
  <2>1. {Core, Subsystem} \subseteq nodes
    BY DEF LoadedEntities, Over, Bootstrap
  <2> HIDE DEF nodes, first
  <2> QED BY <2>1, BootstrapIs DEF first
<1>4. PICK f \in [0..N -> S] : f[0] = first /\ \A n \in 1..N : f[n] = G[n][f[n - 1]]
  <2>1. G \in [1..N -> [S -> S]]
    <3> HIDE DEF Add, S
    <3> QED BY <1>2
  <2> HIDE DEF N, G, first, S, g, Add, r, nodes
  <2> QED BY <1>1, <1>3, <2>1, LoopExists
<1>5. ASSUME NEW n \in 1..N PROVE f[n] = Add(f[n - 1], n)
  <2>1. f[n - 1] \in S
    <3> HIDE DEF N, S, G, first
    <3> QED BY <1>1, <1>4
  <2>2. G[n] = [rs \in S |-> Add(rs, n)]
    OBVIOUS
  <2> HIDE DEF G, Add, S
  <2>3. G[n][f[n - 1]] = Add(f[n - 1], n)
    BY <2>1, <2>2
  <2> QED BY <1>4, <2>3
<1>6. f = [n \in 0..N |-> IF n = 0 THEN first ELSE Add(f[n - 1], n)]
  <2> HIDE DEF G, N, first, S, Add
  <2> QED BY <1>1, <1>4, <1>5
<1>7. g = [n \in 0..N |-> IF n = 0 THEN first ELSE Add(g[n - 1], n)]
  <2> HIDE DEF N, first, Add
  <2> QED BY <1>6
<1>8. LoadedRelations(file) = g[N]
  BY DEF LoadedRelations
<1> DEFINE T == {n \in 0..N : g[n] \in S}
<1> HIDE DEF g
<1>9. N \in T
  <2> HIDE DEF N, first, S
  <2>1. 0 \in 0..N /\ \A n \in 1..N : n \in 0..N /\ n # 0
    BY <1>1
  <2>2. 0 \in T
    <3> HIDE DEF Add
    <3> QED BY <1>3, <1>7, <2>1
  <2>3. ASSUME NEW n \in 1..N, n - 1 \in T PROVE n \in T
    <3>1. g[n - 1] \in S /\ g[n] = Add(g[n - 1], n)
      <4> HIDE DEF Add
      <4> QED BY <1>7, <2>1, <2>3
    <3> HIDE DEF Add
    <3> QED BY <1>2, <2>1, <3>1
  <2> HIDE DEF T
  <2>4. \A n \in 0..N : n \in T
    BY <1>1, <2>2, <2>3, UpTo
  <2>5. N \in 0..N
    BY <1>1
  <2> QED BY <2>4, <2>5
<1> QED BY <1>8, <1>9

(* What is left of relations without one of their ends. *)
LEMMA UnrelatingIsOrder ==
  ASSUME NEW nodes, NEW rs \in Orders(nodes), NEW id
  PROVE  Unrelating(rs, id) \in Orders(nodes \ {id})
<1> DEFINE N == Len(rs)
           K == nodes \ {id}
           S == Seq(K \X K)
           Ends(n) == id \in {rs[n][1], rs[n][2]}
           Left(kept, n) == IF Ends(n) THEN kept ELSE Append(kept, rs[n])
           G == [n \in 1..N |-> [kept \in S |-> Left(kept, n)]]
           g == CHOOSE f : f = [n \in 0..N |-> IF n = 0 THEN << >> ELSE Left(f[n - 1], n)]
<1>1. /\ N \in Nat /\ \A i, j \in 1..N : rs[i] = rs[j] => i = j
      /\ \A i \in 1..N : rs[i] = <<rs[i][1], rs[i][2]>> /\ rs[i][1] \in nodes /\ rs[i][2] \in nodes
  <2> HIDE DEF K, S, Left, Ends, G, g
  <2>1. N \in Nat /\ \A i, j \in 1..N : rs[i] = rs[j] => i = j
    BY OrdersAre
  <2>2. ASSUME NEW i \in 1..N PROVE rs[i] = <<rs[i][1], rs[i][2]>> /\ rs[i][1] \in nodes /\ rs[i][2] \in nodes
    BY EndsAreKnown
  <2> QED BY <2>1, <2>2
<1>2. ASSUME NEW n \in 1..N, ~Ends(n) PROVE rs[n] \in K \X K
  <2>1. rs[n] = <<rs[n][1], rs[n][2]>> /\ rs[n][1] \in K /\ rs[n][2] \in K
    BY <1>1, <1>2
  <2> QED BY <2>1
<1>3. G \in [1..N -> [S -> S]]
  <2>1. ASSUME NEW n \in 1..N, NEW kept \in S PROVE (Left(kept, n)) \in S
    BY <1>2, AppendProperties
  <2> HIDE DEF Left, S, K
  <2> QED BY <2>1
<1>4. << >> \in S
  OBVIOUS
<1>5. PICK f \in [0..N -> S] : f[0] = << >> /\ \A n \in 1..N : f[n] = G[n][f[n - 1]]
  <2> DEFINE a == << >>
  <2>1. a \in S
    BY <1>4
  <2> HIDE DEF N, G, S, a, g, K, Left, Ends
  <2>2. \E f \in [0..N -> S] : f[0] = a /\ \A n \in 1..N : f[n] = G[n][f[n - 1]]
    BY <1>1, <1>3, <2>1, LoopExists
  <2> QED BY <2>2 DEF a
<1>6. ASSUME NEW n \in 1..N PROVE f[n] = Left(f[n - 1], n)
  <2>1. f[n - 1] \in S
    <3> HIDE DEF N, S, G
    <3> QED BY <1>1, <1>5
  <2>2. G[n] = [kept \in S |-> Left(kept, n)]
    OBVIOUS
  <2> HIDE DEF G, Ends, S
  <2>3. G[n][f[n - 1]] = Left(f[n - 1], n)
    BY <2>1, <2>2
  <2> QED BY <1>5, <2>3
<1>7. f = [n \in 0..N |-> IF n = 0 THEN << >> ELSE Left(f[n - 1], n)]
  <2> HIDE DEF G, N, S, Left
  <2> QED BY <1>1, <1>5, <1>6
<1>8. g = [n \in 0..N |-> IF n = 0 THEN << >> ELSE Left(g[n - 1], n)]
  <2> HIDE DEF N, Left
  <2> QED BY <1>7
<1>9. Unrelating(rs, id) = g[N]
  BY DEF Unrelating
<1> HIDE DEF g, G, N
(* Each is one of those looked at so far, and none came twice. *)
<1> DEFINE FromFirst(kept, n) == \A i \in 1..Len(kept) : \E j \in 1..n : kept[i] = rs[j]
           T == {n \in 0..N : g[n] \in Orders(K) /\ FromFirst(g[n], n)}
<1>10. 0 \in 0..N /\ \A n \in 1..N : n \in 0..N /\ n # 0
  BY <1>1
<1>11. 0 \in T
  <2>1. g[0] = << >>
    BY <1>8, <1>10
  <2>2. << >> \in Orders(K) /\ FromFirst(<< >>, 0)
    BY DEF Orders, IsInjective
  <2> QED BY <1>10, <2>1, <2>2
<1>12. ASSUME NEW n \in 1..N, n - 1 \in T PROVE n \in T
  <2>1. g[n - 1] \in Orders(K) /\ FromFirst(g[n - 1], n - 1)
    BY <1>12
  <2>2. g[n] = Left(g[n - 1], n)
    <3> HIDE DEF Left
    <3> QED BY <1>8, <1>10
  <2>3. \A j \in 1..(n - 1) : j \in 1..n /\ j \in 1..N /\ j # n
    BY <1>1
  <2>4. CASE Ends(n)
    BY <1>10, <2>1, <2>2, <2>3, <2>4
  <2>5. CASE ~Ends(n)
    <3>1. rs[n] \in K \X K
      BY <1>2, <2>5
    <3>2. ASSUME NEW i \in 1..Len(g[n - 1]) PROVE g[n - 1][i] # rs[n]
      <4>1. PICK j \in 1..(n - 1) : g[n - 1][i] = rs[j]
        BY <2>1
      <4> QED BY <1>1, <2>3, <4>1
    <3>3. Append(g[n - 1], rs[n]) \in Orders(K)
      <4> HIDE DEF K
      <4> QED BY <2>1, <3>1, <3>2, AppendKeepsOrder
    <3>4. FromFirst(Append(g[n - 1], rs[n]), n)
      <4> DEFINE kept == g[n - 1]
                 L == Len(kept)
      <4>1. kept \in Seq(K \X K) /\ L \in Nat
        BY <2>1, OrdersAre
      <4>2. FromFirst(kept, n - 1)
        BY <2>1
      <4> HIDE DEF kept, K
      <4>3. Len(Append(kept, rs[n])) = L + 1 /\ Append(kept, rs[n])[L + 1] = rs[n] /\ \A i \in 1..L : Append(kept, rs[n])[i] = kept[i]
        BY <3>1, <4>1, AppendProperties
      <4>4. ASSUME NEW i \in 1..L + 1 PROVE \E j \in 1..n : Append(kept, rs[n])[i] = rs[j]
        <5>1. CASE i = L + 1
          <6>1. n \in 1..n
            BY <1>1
          <6> QED BY <4>3, <5>1, <6>1
        <5>2. CASE i # L + 1
          <6>1. i \in 1..L
            BY <4>1, <5>2
          <6> QED BY <2>3, <4>2, <4>3, <6>1
        <5> QED BY <5>1, <5>2
      <4>5. FromFirst(Append(kept, rs[n]), n)
        BY <4>3, <4>4
      <4> QED BY <4>5 DEF kept
    <3> QED BY <1>10, <2>2, <2>5, <3>3, <3>4
  <2> QED BY <2>4, <2>5
<1>13. N \in T
  <2> HIDE DEF T
  <2>1. \A n \in 0..N : n \in T
    BY <1>1, <1>11, <1>12, UpTo
  <2>2. N \in 0..N
    BY <1>1
  <2> QED BY <2>1, <2>2
<1> QED BY <1>9, <1>13

(* The graph: the core and its subsystem are never removed, relations have both
   their ends in it, and a world that is loaded has room. *)
GraphInv ==
  /\ AreEntities(entities) /\ IsFiniteSet(Ids) /\ Cardinality(Ids) <= MaxEntities
  /\ {Core, Subsystem} \subseteq Ids /\ relations \in Orders(Ids) /\ IsWorld(worldFile)
  /\ ends \in 0..MaxEnds /\ changes \in 0..MaxChanges

(* The graph of the bootstrap. *)
LEMMA GraphStarts == ASSUME GraphInit PROVE GraphInv
<1>1. /\ entities = [id \in {Core, Subsystem} |-> NewEntity] /\ relations = Bootstrap.relations
      /\ worldFile = [entities |-> << >>, relations |-> << >>] /\ ends = 0 /\ changes = 0
  BY DEF GraphInit, Bootstrap
<1>2. IsFiniteSet({Core, Subsystem}) /\ Cardinality({Core, Subsystem}) = 2
  <2>1. IsFiniteSet({Core}) /\ Cardinality({Core}) = 1 /\ Subsystem \notin {Core}
    BY FS_Singleton, GraphAssumption
  <2>2. IsFiniteSet({Core} \cup {Subsystem}) /\ Cardinality({Core} \cup {Subsystem}) = 2
    BY <2>1, FS_AddElement
  <2>3. {Core} \cup {Subsystem} = {Core, Subsystem}
    OBVIOUS
  <2> QED BY <2>2, <2>3
<1>3. Ids = {Core, Subsystem} /\ AreEntities(entities)
  BY <1>1, NewIsEntity DEF Ids, AreEntities, Nodes
<1>4. relations \in Orders(Ids)
  BY <1>1, <1>3, BootstrapIs
<1>5. IsWorld(worldFile)
  <2>1. worldFile.entities = << >> /\ worldFile.relations = << >>
    BY <1>1
  <2>2. DOMAIN worldFile.entities = {} /\ worldFile.relations \in Seq(Nodes \X Nodes)
    BY <2>1
  <2>3. {} \cup {Core, Subsystem} = {Core, Subsystem} /\ IsFiniteSet({})
    BY FS_EmptySet
  <2> QED BY <1>2, <2>2, <2>3, GraphAssumption DEF IsWorld, AreEntities
<1> QED BY <1>1, <1>2, <1>3, <1>4, <1>5, GraphAssumption DEF GraphInv

(* A step that adds an entity, when there is a place for it, and relations. *)
LEMMA GraphGrows ==
  ASSUME GraphInv, NEW id, HasPlace(id), AreEntities(entities'), DOMAIN entities' = DOMAIN entities \cup {id},
         relations' \in Orders(DOMAIN entities'), worldFile' = worldFile,
         ends' \in 0..MaxEnds, changes' \in 0..MaxChanges
  PROVE  GraphInv'
<1> DEFINE more == DOMAIN entities \cup {id}
<1>1. IsFiniteSet(DOMAIN entities) /\ Cardinality(DOMAIN entities) \in Nat /\ Cardinality(DOMAIN entities) <= MaxEntities
  BY FS_CardinalityType DEF GraphInv, Ids
<1>2. IsFiniteSet(more) /\ Cardinality(more) <= MaxEntities
  <2>1. CASE Exists(id)
    <3>1. more = DOMAIN entities
      BY <2>1 DEF Exists
    <3> QED BY <1>1, <3>1
  <2>2. CASE ~Exists(id)
    <3>1. IsFiniteSet(more) /\ Cardinality(more) = Cardinality(DOMAIN entities) + 1
      BY <1>1, <2>2, FS_AddElement DEF Exists
    <3> QED BY <1>1, <2>2, <3>1, GraphAssumption DEF HasPlace
  <2> QED BY <2>1, <2>2
<1>3. {Core, Subsystem} \subseteq more
  BY DEF GraphInv, Ids
<1> HIDE DEF more
<1>4. Ids' = more
  BY DEF Ids, more
<1>5. IsWorld(worldFile)'
  BY DEF GraphInv, IsWorld, AreEntities
<1> QED BY <1>2, <1>3, <1>4, <1>5 DEF GraphInv, Ids, AreEntities

(* A step that leaves the entities there are. *)
LEMMA GraphRests ==
  ASSUME GraphInv, AreEntities(entities'), DOMAIN entities' = DOMAIN entities,
         relations' \in Orders(DOMAIN entities), IsWorld(worldFile'),
         ends' \in 0..MaxEnds, changes' \in 0..MaxChanges
  PROVE  GraphInv'
<1>1. Ids' = Ids
  BY DEF Ids
<1>2. IsWorld(worldFile)' /\ AreEntities(entities)'
  BY DEF IsWorld, AreEntities
<1> QED BY <1>1, <1>2 DEF GraphInv, Ids

(* What discovery and a task add, and what is retired. *)
LEMMA DiscoveryKeepsGraph ==
  ASSUME GraphInv, NEW id \in Found \cup Tasks, Discover(id) \/ StartTask(id) \/ RetireEntity(id), changes' \in 0..MaxChanges
  PROVE  GraphInv'
<1>1. id \in Nodes /\ AreEntities(entities) /\ relations \in Orders(DOMAIN entities)
      /\ {Core, Subsystem} \subseteq DOMAIN entities /\ ends \in 0..MaxEnds /\ IsWorld(worldFile)
  BY DEF GraphInv, Nodes, Ids
<1>2. CASE Discover(id) \/ StartTask(id)
  <2>1. /\ HasPlace(id) /\ entities' = Upserting(entities, id, [visible |-> TRUE])
        /\ worldFile' = worldFile /\ ends' = ends
        /\ relations' \in {relations, Relating(relations, Subsystem, id), Relating(relations, Core, id)}
    BY <1>2 DEF Discover, StartTask
  <2>2. AreEntities(entities') /\ DOMAIN entities' = DOMAIN entities \cup {id}
    BY <1>1, <2>1, UpsertSight
  <2> DEFINE nodes == DOMAIN entities'
  <2>3. relations \in Orders(nodes) /\ id \in nodes /\ Core \in nodes /\ Subsystem \in nodes
    <3>1. DOMAIN entities \subseteq nodes
      BY <2>2
    <3> HIDE DEF nodes
    <3>2. relations \in Orders(nodes)
      BY <1>1, <3>1, MoreIsKnown
    <3> QED BY <1>1, <2>2, <3>1, <3>2 DEF nodes
  <2>4. relations' \in Orders(nodes)
    <3> HIDE DEF nodes
    <3> QED BY <2>1, <2>3, RelatingKeepsOrder
  <2> QED BY <1>1, <2>1, <2>2, <2>4, GraphGrows
<1>3. CASE RetireEntity(id)
  <2>1. /\ id \in DOMAIN entities /\ entities' = [entities EXCEPT ![id].visible = FALSE]
        /\ UNCHANGED <<relations, worldFile, ends>>
    BY <1>3 DEF RetireEntity, Exists
  <2>2. AreEntities(entities') /\ DOMAIN entities' = DOMAIN entities
    BY <1>1, <2>1 DEF AreEntities, Entity
  <2> QED BY <1>1, <2>1, <2>2, GraphRests
<1> QED BY <1>2, <1>3

LEMMA RelateKeepsGraph ==
  ASSUME GraphInv, NEW source \in Nodes, NEW to \in Nodes, Relate(source, to), changes' \in 0..MaxChanges
  PROVE  GraphInv'
<1>1. /\ source \in DOMAIN entities /\ to \in DOMAIN entities /\ UNCHANGED <<entities, worldFile, ends>>
      /\ relations' = Relating(relations, source, to)
  BY DEF Relate, Exists
<1> DEFINE nodes == DOMAIN entities
<1>2. relations \in Orders(nodes) /\ AreEntities(entities) /\ ends \in 0..MaxEnds /\ IsWorld(worldFile)
  BY DEF GraphInv, Ids
<1>3. relations' \in Orders(nodes)
  <2> HIDE DEF nodes
  <2>1. source \in nodes /\ to \in nodes
    BY <1>1 DEF nodes
  <2> QED BY <1>1, <1>2, <2>1, RelatingKeepsOrder
<1> QED BY <1>1, <1>2, <1>3, GraphRests

(* The world as it is saved. *)
LEMMA SavedIsWorld == ASSUME GraphInv PROVE IsWorld(CurrentWorld)
<1>1. /\ CurrentWorld.entities = [id \in DOMAIN entities \ Tasks |-> entities[id]] /\ CurrentWorld.relations = relations
  BY DEF CurrentWorld
<1>2. AreEntities(entities) /\ {Core, Subsystem} \subseteq DOMAIN entities
  BY DEF GraphInv, Ids
<1> DEFINE kept == DOMAIN CurrentWorld.entities
<1>3. kept = DOMAIN entities \ Tasks /\ AreEntities(CurrentWorld.entities)
  BY <1>1, <1>2 DEF AreEntities
<1>4. Cardinality(kept \cup {Core, Subsystem}) <= MaxEntities /\ IsFiniteSet(kept)
  <2>1. kept \cup {Core, Subsystem} \subseteq DOMAIN entities /\ kept \subseteq DOMAIN entities
    BY <1>2, <1>3
  <2> HIDE DEF kept
  <2>2. IsFiniteSet(DOMAIN entities) /\ Cardinality(DOMAIN entities) <= MaxEntities
    BY DEF GraphInv, Ids
  <2> DEFINE both == kept \cup {Core, Subsystem}
  <2>3. IsFiniteSet(kept) /\ IsFiniteSet(both) /\ Cardinality(both) <= Cardinality(DOMAIN entities)
    <3> HIDE DEF both
    <3>1. both \subseteq DOMAIN entities
      BY <2>1 DEF both
    <3> QED BY <2>1, <2>2, <3>1, FS_Subset
  <2>4. Cardinality(both) \in Nat /\ Cardinality(DOMAIN entities) \in Nat /\ MaxEntities \in Nat
    BY <2>2, <2>3, FS_CardinalityType, GraphAssumption
  <2> HIDE DEF both
  <2>5. Cardinality(both) <= MaxEntities
    BY <2>2, <2>3, <2>4
  <2> QED BY <2>3, <2>5 DEF both
<1>5. CurrentWorld.relations \in Seq(Nodes \X Nodes)
  <2>1. Ids \subseteq Nodes
    BY <1>2 DEF AreEntities, Ids
  <2>2. relations \in Orders(Nodes)
    BY <2>1, MoreIsKnown DEF GraphInv
  <2> QED BY <1>1, <2>2 DEF Orders
<1> QED BY <1>3, <1>4, <1>5 DEF IsWorld

LEMMA SaveKeepsGraph == ASSUME GraphInv, SaveWorld PROVE GraphInv'
<1>1. AreEntities(entities) /\ relations \in Orders(DOMAIN entities) /\ ends \in 0..MaxEnds /\ changes \in 0..MaxChanges
  BY DEF GraphInv, Ids
<1>2. UNCHANGED <<entities, relations, ends, changes>> /\ worldFile' = CurrentWorld
  BY DEF SaveWorld
<1> QED BY <1>1, <1>2, SavedIsWorld, GraphRests

(* What is loaded is the bootstrap, and over it what was saved. *)
LEMMA EndKeepsGraph == ASSUME GraphInv, NEW orderly \in BOOLEAN, EndWorld(orderly) PROVE GraphInv'
<1>1. /\ worldFile' = (IF orderly THEN CurrentWorld ELSE worldFile) /\ changes' = changes
      /\ entities' = LoadedEntities(worldFile') /\ relations' = LoadedRelations(worldFile')
      /\ ends < MaxEnds /\ ends' = ends + 1
  BY DEF EndWorld
<1>2. IsWorld(worldFile') /\ ends' \in 0..MaxEnds /\ changes' \in 0..MaxChanges
  BY <1>1, SavedIsWorld, GraphAssumption DEF GraphInv
<1> DEFINE kept == worldFile'.entities
<1>3. /\ DOMAIN entities' = DOMAIN kept \cup {Core, Subsystem}
      /\ \A id \in DOMAIN entities' : entities'[id] = IF id \in DOMAIN kept THEN kept[id] ELSE NewEntity
  <2>1. Bootstrap.entities = [id \in {Core, Subsystem} |-> NewEntity]
    BY DEF Bootstrap
  <2> QED BY <1>1, <2>1 DEF LoadedEntities, Over
<1>4. AreEntities(kept) /\ IsFiniteSet(DOMAIN kept) /\ Cardinality(DOMAIN kept \cup {Core, Subsystem}) <= MaxEntities
  BY <1>2 DEF IsWorld
<1>5. relations' \in Orders(DOMAIN entities')
  <2> DEFINE file == worldFile'
  <2>1. IsWorld(file)
    BY <1>2
  <2> HIDE DEF file
  <2>2. LoadedRelations(file) \in Orders(DOMAIN LoadedEntities(file))
    BY <2>1, LoadedIsOrder
  <2> QED BY <1>1, <2>2 DEF file
<1> HIDE DEF kept
<1>6. AreEntities(entities)'
  BY <1>3, <1>4, NewIsEntity DEF AreEntities, Nodes
<1>7. IsFiniteSet(DOMAIN entities')
  <2>1. IsFiniteSet({Core, Subsystem})
    <3>1. IsFiniteSet({Core}) /\ {Core, Subsystem} = {Core} \cup {Subsystem}
      BY FS_Singleton
    <3> QED BY <3>1, FS_AddElement
  <2> DEFINE roots == {Core, Subsystem}
  <2>2. IsFiniteSet(roots)
    BY <2>1
  <2> HIDE DEF roots
  <2>3. IsFiniteSet(DOMAIN kept \cup roots)
    BY <1>4, <2>2, FS_Union
  <2> QED BY <1>3, <2>3 DEF roots
<1>8. IsWorld(worldFile)'
  BY <1>2 DEF IsWorld, AreEntities
<1> QED BY <1>2, <1>3, <1>4, <1>5, <1>6, <1>7, <1>8 DEF GraphInv, Ids

LEMMA GraphSteps == ASSUME GraphInv, [GraphNext]_gvars PROVE GraphInv'
<1>1. CASE GraphChanges
  <2>1. changes' \in 0..MaxChanges
    BY <1>1, GraphAssumption DEF GraphChanges, GraphInv
  <2> QED BY <1>1, <2>1, DiscoveryKeepsGraph, RelateKeepsGraph DEF GraphChanges
<1>2. CASE UNCHANGED gvars
  <2>1. AreEntities(entities) /\ relations \in Orders(DOMAIN entities) /\ IsWorld(worldFile)
        /\ ends \in 0..MaxEnds /\ changes \in 0..MaxChanges
    BY DEF GraphInv, Ids
  <2> QED BY <1>2, <2>1, GraphRests DEF gvars
<1> QED BY <1>1, <1>2, SaveKeepsGraph, EndKeepsGraph DEF GraphNext

(* Such a graph is one that a trace may search. *)
LEMMA GraphIsFit == ASSUME GraphInv PROVE TraceIsShortest /\ GTypeOK
<1>1. TraceIsShortest
  <2>1. GraphIsWhole
    BY DEF GraphInv, GraphIsWhole, AreEntities, Ids, Orders
  <2> QED BY <2>1, ShortestIsFound
<1>2. IsInjective(relations)
  BY DEF GraphInv, Orders
<1>3. HasEnds
  <2> SUFFICES ASSUME NEW r \in ToSet(relations) PROVE {r[1], r[2]} \subseteq DOMAIN entities
    BY DEF HasEnds
  <2>1. relations \in Orders(Ids)
    BY DEF GraphInv
  <2>2. PICK i \in 1..Len(relations) : r = relations[i]
    BY <2>1, OrdersAre DEF ToSet
  <2>3. r[1] \in Ids /\ r[2] \in Ids
    BY <2>1, <2>2, EndsAreKnown
  <2> QED BY <2>3 DEF Ids
<1>4. GTypeOK
  BY <1>2, <1>3 DEF GTypeOK, GraphInv, AreEntities, Ids
<1> QED BY <1>1, <1>4

(* A trace is a way between two entities, of the least number of hops, and there is
   none only when they are further apart than the hops allowed (NeuralWorld.trace):
   for any entities, relations and limits, whatever is discovered, related and
   retired, saved or not before the program ends, and with what is loaded then. *)
THEOREM TracesAreShortest == GraphSpec => []TraceIsShortest
BY GraphStarts, GraphSteps, GraphIsFit, PTL DEF GraphSpec

-----------------------------------------------------------------------------
(* The graph with the shapes *)

(* Only what the controller made is recorded as made. *)
MadeEntries(h) == IsHistory(h) /\ \A id \in DOMAIN h : h[id].generated => id \in Made

(* What a call holds: a revert goes through entries it has. *)
TypedCall(r) ==
  /\ DOMAIN r = CallFields /\ r.op \in {"idle", "create", "apply", "revert"}
  /\ r.step \in {"next", "change", "place", "layout"} /\ r.id \in Nodes
  /\ r.todo \subseteq Nodes /\ r.done \subseteq Nodes /\ MadeEntries(r.entries)
  /\ r.op = "create" => r.todo \subseteq Made
  /\ r.op = "revert" => r.todo \subseteq DOMAIN r.entries
  /\ r.step = "layout" => r.id \in DOMAIN r.entries

LayoutsTyped == windowStates \in [Windows -> Places] /\ layoutFile \in [Windows -> Places]
UndoneTyped == undone \in [Nodes -> {"no", "reverted", "lost"}]

(* The graph, the history and its file, the layout and its file, the calls. *)
ShapesTyped ==
  /\ GraphInv /\ MadeEntries(history) /\ MadeEntries(historyFile) /\ LayoutsTyped /\ UndoneTyped /\ asked \in 0..MaxAsked
  /\ DOMAIN shaping = Shapers /\ \A c \in Shapers : TypedCall(shaping[c])

LEMMA NothingIsRecorded == MadeEntries(<< >>)
BY DEF MadeEntries, IsHistory

LEMMA IdleIsTyped == TypedCall(IdleCall)
<1>1. /\ DOMAIN IdleCall = CallFields /\ IdleCall.op = "idle" /\ IdleCall.step = "next" /\ IdleCall.id = Core
      /\ IdleCall.todo = {} /\ IdleCall.done = {} /\ IdleCall.entries = << >>
  BY DEF IdleCall, CallFields
<1> QED BY <1>1, NothingIsRecorded DEF TypedCall, Nodes

LEMMA TypesStart == ASSUME ShapeInit PROVE ShapesTyped
<1>1. /\ GraphInit /\ history = << >> /\ historyFile = << >> /\ windowStates = [w \in Windows |-> "none"]
      /\ layoutFile = windowStates /\ shaping = [c \in Shapers |-> IdleCall] /\ undone = [id \in Nodes |-> "no"] /\ asked = 0
  BY DEF ShapeInit
<1>2. LayoutsTyped /\ UndoneTyped
  BY <1>1 DEF LayoutsTyped, UndoneTyped, Places
<1>3. DOMAIN shaping = Shapers /\ \A c \in Shapers : TypedCall(shaping[c])
  BY <1>1, IdleIsTyped
<1> QED BY <1>1, <1>2, <1>3, GraphStarts, NothingIsRecorded, ShapersAssumption DEF ShapesTyped

LEMMA GraphIsLeft == ASSUME GraphInv, UNCHANGED gvars PROVE GraphInv'
BY GraphSteps

(* A step of one call. *)
LEMMA TypedStep ==
  ASSUME ShapesTyped, NEW c \in Shapers, NEW r, shaping' = [shaping EXCEPT ![c] = r], TypedCall(r),
         GraphInv', MadeEntries(history'), MadeEntries(historyFile'), LayoutsTyped', UndoneTyped', asked' \in 0..MaxAsked
  PROVE  ShapesTyped'
<1>1. DOMAIN shaping' = Shapers /\ \A d \in Shapers : shaping'[d] = IF d = c THEN r ELSE shaping[d]
  BY DEF ShapesTyped
<1>2. ASSUME NEW d \in Shapers PROVE TypedCall(shaping'[d])
  <2>1. CASE d = c
    BY <1>1, <2>1
  <2>2. CASE d # c
    <3>1. shaping'[d] = shaping[d] /\ TypedCall(shaping[d])
      BY <1>1, <2>2 DEF ShapesTyped
    <3> QED BY <3>1
  <2> QED BY <2>1, <2>2
<1>3. (\A d \in Shapers : TypedCall(shaping[d]))'
  BY <1>2 DEF TypedCall, MadeEntries, IsHistory
<1>4. MadeEntries(history)' /\ MadeEntries(historyFile)'
  BY DEF MadeEntries, IsHistory
<1> QED BY <1>1, <1>3, <1>4 DEF ShapesTyped

LEMMA CallBeginsTyped ==
  ASSUME ShapesTyped, NEW c \in Shapers,
         \/ \E id \in Made : CreateObject(c, id)
         \/ \E ids \in SUBSET DOMAIN entities : ApplyShape(c, ids)
         \/ \E ids \in SUBSET DOMAIN history : Revert(c, ids)
  PROVE  ShapesTyped'
<1>1. ASSUME NEW fields, Calls(c, fields), TypedCall(Over(fields, IdleCall)) PROVE ShapesTyped'
  <2>1. /\ shaping[c] = IdleCall /\ asked < MaxAsked /\ asked' = asked + 1
        /\ shaping' = [shaping EXCEPT ![c] = Over(fields, shaping[c])]
        /\ UNCHANGED <<gvars, history, historyFile, windowStates, layoutFile, undone>>
    BY <1>1 DEF Calls, Goes
  <2>2. asked' \in 0..MaxAsked /\ LayoutsTyped' /\ UndoneTyped' /\ MadeEntries(history') /\ MadeEntries(historyFile')
    BY <2>1, ShapersAssumption DEF ShapesTyped, LayoutsTyped, UndoneTyped
  <2>3. GraphInv'
    BY <2>1, GraphIsLeft DEF ShapesTyped
  <2> QED BY <1>1, <2>1, <2>2, <2>3, TypedStep
<1>2. ASSUME NEW id \in Made, CreateObject(c, id) PROVE ShapesTyped'
  <2> DEFINE fields == [op |-> "create", todo |-> {id}]
             r == Over(fields, IdleCall)
  <2>1. r.op = "create" /\ r.step = "next" /\ r.todo = {id} /\ r.done = {} /\ r.id = Core /\ r.entries = << >> /\ DOMAIN r = CallFields
    BY DEF Over, IdleCall, CallFields
  <2> HIDE DEF r
  <2>2. TypedCall(r)
    BY <2>1, NothingIsRecorded DEF TypedCall, Nodes
  <2> QED BY <1>1, <1>2, <2>2 DEF CreateObject, r
<1>3. ASSUME NEW ids \in SUBSET DOMAIN entities, ApplyShape(c, ids) PROVE ShapesTyped'
  <2> DEFINE fields == [op |-> "apply", todo |-> ids]
             r == Over(fields, IdleCall)
  <2>1. r.op = "apply" /\ r.step = "next" /\ r.todo = ids /\ r.done = {} /\ r.id = Core /\ r.entries = << >> /\ DOMAIN r = CallFields
    BY DEF Over, IdleCall, CallFields
  <2>2. ids \subseteq Nodes
    BY DEF ShapesTyped, GraphInv, AreEntities
  <2> HIDE DEF r
  <2>3. TypedCall(r)
    BY <2>1, <2>2, NothingIsRecorded DEF TypedCall, Nodes
  <2> QED BY <1>1, <1>3, <2>3 DEF ApplyShape, r
<1>4. ASSUME NEW ids \in SUBSET DOMAIN history, Revert(c, ids) PROVE ShapesTyped'
  <2> DEFINE entries == [id \in ids |-> history[id]]
             fields == [op |-> "revert", todo |-> ids, entries |-> entries]
             r == Over(fields, IdleCall)
  <2>1. r.op = "revert" /\ r.step = "next" /\ r.todo = ids /\ r.done = {} /\ r.id = Core /\ r.entries = entries /\ DOMAIN r = CallFields
    BY DEF Over, IdleCall, CallFields
  <2>2. MadeEntries(entries) /\ DOMAIN entries = ids /\ ids \subseteq Nodes
    BY DEF ShapesTyped, MadeEntries, IsHistory
  <2> HIDE DEF r, entries
  <2>3. TypedCall(r)
    BY <2>1, <2>2 DEF TypedCall, Nodes
  <2> QED BY <1>1, <1>4, <2>3 DEF Revert, r, entries
<1> QED BY <1>2, <1>3, <1>4

(* A call that goes on has its fields changed. *)
LEMMA GoesOver ==
  ASSUME ShapesTyped, NEW c \in Shapers, NEW fields, Goes(c, fields)
  PROVE  shaping' = [shaping EXCEPT ![c] = Over(fields, shaping[c])] /\ TypedCall(shaping[c])
BY DEF Goes, ShapesTyped

LEMMA SnapshotIsTyped ==
  ASSUME ShapesTyped, NEW c \in Shapers, NEW id \in shaping[c].todo, TakeSnapshot(c, id)
  PROVE  ShapesTyped'
<1> DEFINE s == shaping[c]
<1>1. TypedCall(s) /\ DOMAIN shaping = Shapers
  BY DEF ShapesTyped
<1>2. PICK written \in BOOLEAN :
        /\ IF id \in DOMAIN history THEN written /\ UNCHANGED historyFile ELSE WriteHistory(written)
        /\ Goes(c, [step |-> IF written THEN "change" ELSE "next", id |-> id, todo |-> s.todo \ {id}])
  BY DEF TakeSnapshot, Outcomes
<1>3. /\ s.op \in {"create", "apply"} /\ s.step = "next" /\ history' = Observe(id, s.op = "create")
      /\ UNCHANGED <<gvars, windowStates, layoutFile, undone, asked>>
  BY DEF TakeSnapshot
<1> DEFINE fields == [step |-> IF written THEN "change" ELSE "next", id |-> id, todo |-> s.todo \ {id}]
           r == Over(fields, s)
<1>4. shaping' = [shaping EXCEPT ![c] = r]
  BY <1>2, GoesOver
<1> HIDE DEF s
<1>5. id \in Nodes /\ (s.op = "create" => id \in Made)
  BY <1>1 DEF TypedCall, s
<1>6. /\ DOMAIN r = CallFields /\ r.op = s.op /\ r.step \in {"change", "next"} /\ r.id = id /\ r.todo = s.todo \ {id}
      /\ r.done = s.done /\ r.entries = s.entries
  BY <1>1 DEF Over, TypedCall, CallFields
<1> HIDE DEF r
<1>7. TypedCall(r)
  BY <1>1, <1>3, <1>5, <1>6 DEF TypedCall
<1>8. MadeEntries(history')
  <2> DEFINE e == Observed(id, s.op = "create")
  <2>1. e \in [entity : Entity \cup {NoEntity}, place : Places, generated : BOOLEAN] /\ (e.generated => id \in Made)
    <3>1. Exists(id) => entities[id] \in Entity
      BY DEF ShapesTyped, GraphInv, AreEntities, Exists
    <3>2. id \in Windows => windowStates[id] \in Places
      BY DEF ShapesTyped, LayoutsTyped
    <3>3. "none" \in Places
      BY DEF Places
    <3>4. e = [entity |-> IF s.op = "create" \/ ~Exists(id) THEN NoEntity ELSE entities[id],
               place |-> IF s.op = "create" \/ id \notin Windows THEN "none" ELSE windowStates[id],
               generated |-> s.op = "create"]
      BY DEF Observed
    <3> HIDE DEF e
    <3>5. (s.op = "create") \in BOOLEAN
      OBVIOUS
    <3> QED BY <1>5, <3>1, <3>2, <3>3, <3>4, <3>5
  <2> HIDE DEF e
  <2>2. history' = Over(history, Single(id, e))
    BY <1>3 DEF Observe, e
  <2>3. /\ DOMAIN history' = DOMAIN history \cup {id}
        /\ \A x \in DOMAIN history' : history'[x] = IF x \in DOMAIN history THEN history[x] ELSE e
    BY <2>2 DEF Over, Single
  <2>4. MadeEntries(history)
    BY DEF ShapesTyped
  <2> QED BY <1>5, <2>1, <2>3, <2>4 DEF MadeEntries, IsHistory
<1>9. MadeEntries(historyFile')
  BY <1>2, <1>8 DEF WriteHistory, ShapesTyped
<1>10. GraphInv' /\ LayoutsTyped' /\ UndoneTyped' /\ asked' \in 0..MaxAsked
  BY <1>3, GraphIsLeft DEF ShapesTyped, LayoutsTyped, UndoneTyped
<1> QED BY <1>4, <1>7, <1>8, <1>9, <1>10, TypedStep

LEMMA ChangeIsTyped == ASSUME ShapesTyped, NEW c \in Shapers, ChangeEntity(c) PROVE ShapesTyped'
<1> DEFINE s == shaping[c]
           id == s.id
           may == IF s.op = "create" THEN HasPlace(id) ELSE Exists(id)
           fields == [step |-> IF may /\ id \in Windows THEN "place" ELSE "next"]
           r == Over(fields, s)
<1>1. TypedCall(s)
  BY DEF ShapesTyped
<1>2. /\ entities' = IF may THEN Upserting(entities, id, [shape |-> "changed"]) ELSE entities
      /\ Goes(c, fields)
      /\ UNCHANGED <<relations, worldFile, ends, changes, history, historyFile, windowStates, layoutFile, undone, asked>>
  BY DEF ChangeEntity
<1>3. shaping' = [shaping EXCEPT ![c] = r]
  BY <1>2, GoesOver
<1>4. id \in Nodes
  BY <1>1 DEF TypedCall
<1> HIDE DEF id
<1>5. GraphInv'
  <2>1. CASE may
    <3>1. HasPlace(id)
      BY <2>1 DEF HasPlace
    <3>2. AreEntities(entities) /\ relations \in Orders(DOMAIN entities) /\ ends \in 0..MaxEnds /\ changes \in 0..MaxChanges /\ GraphInv
      BY DEF ShapesTyped, GraphInv, Ids
    <3>3. AreEntities(entities') /\ DOMAIN entities' = DOMAIN entities \cup {id}
      BY <1>2, <1>4, <2>1, <3>2, UpsertChange
    <3>4. relations' \in Orders(DOMAIN entities')
      <4> DEFINE nodes == DOMAIN entities
                 more == DOMAIN entities'
      <4>1. nodes \subseteq more /\ relations \in Orders(nodes)
        BY <3>2, <3>3
      <4> HIDE DEF nodes, more
      <4>2. relations \in Orders(more)
        BY <4>1, MoreIsKnown
      <4> QED BY <1>2, <4>2 DEF more
    <3> QED BY <1>2, <3>1, <3>2, <3>3, <3>4, GraphGrows
  <2>2. CASE ~may
    BY <1>2, <2>2, GraphIsLeft DEF gvars, ShapesTyped
  <2> QED BY <2>1, <2>2
<1> HIDE DEF s
<1>6. /\ DOMAIN r = CallFields /\ r.op = s.op /\ r.step \in {"place", "next"} /\ r.id = s.id /\ r.todo = s.todo
      /\ r.done = s.done /\ r.entries = s.entries
  BY <1>1 DEF Over, TypedCall, CallFields
<1> HIDE DEF r
<1>7. TypedCall(r)
  BY <1>1, <1>6 DEF TypedCall
<1>8. MadeEntries(history') /\ MadeEntries(historyFile') /\ LayoutsTyped' /\ UndoneTyped' /\ asked' \in 0..MaxAsked
  BY <1>2 DEF ShapesTyped, LayoutsTyped, UndoneTyped
<1> QED BY <1>3, <1>5, <1>7, <1>8, TypedStep

LEMMA PlaceIsTyped == ASSUME ShapesTyped, NEW c \in Shapers, PlaceWindow(c) PROVE ShapesTyped'
<1> DEFINE s == shaping[c]
           r == Over([step |-> "next"], s)
<1>1. TypedCall(s)
  BY DEF ShapesTyped
<1>2. /\ windowStates' = [windowStates EXCEPT ![s.id] = "changed"] /\ layoutFile' \in {windowStates', layoutFile}
      /\ Goes(c, [step |-> "next"]) /\ UNCHANGED <<gvars, history, historyFile, undone, asked>>
  BY DEF PlaceWindow, WriteLayout
<1>3. shaping' = [shaping EXCEPT ![c] = r]
  BY <1>2, GoesOver
<1>4. LayoutsTyped'
  BY <1>2 DEF ShapesTyped, LayoutsTyped, Places, Shapes
<1> HIDE DEF s
<1>5. /\ DOMAIN r = CallFields /\ r.op = s.op /\ r.step = "next" /\ r.id = s.id /\ r.todo = s.todo
      /\ r.done = s.done /\ r.entries = s.entries
  BY <1>1 DEF Over, TypedCall, CallFields
<1> HIDE DEF r
<1>6. TypedCall(r)
  BY <1>1, <1>5 DEF TypedCall
<1>7. GraphInv' /\ MadeEntries(history') /\ MadeEntries(historyFile') /\ UndoneTyped' /\ asked' \in 0..MaxAsked
  BY <1>2, GraphIsLeft DEF ShapesTyped, UndoneTyped
<1> QED BY <1>3, <1>4, <1>6, <1>7, TypedStep

(* What was made is removed with its relations, never the core. *)
LEMMA RemovalKeepsGraph ==
  ASSUME GraphInv, NEW id \in Made, entities' = Removing(entities, id), relations' = Unrelating(relations, id),
         UNCHANGED <<worldFile, ends, changes>>
  PROVE  GraphInv'
<1> DEFINE nodes == DOMAIN entities
           left == nodes \ {id}
<1>1. AreEntities(entities) /\ IsFiniteSet(nodes) /\ Cardinality(nodes) <= MaxEntities /\ {Core, Subsystem} \subseteq nodes
      /\ relations \in Orders(nodes)
  BY DEF GraphInv, Ids
<1>2. id # Core /\ id # Subsystem
  BY GraphAssumption
<1>3. entities' = [x \in left |-> entities[x]]
  BY DEF Removing
<1>4. DOMAIN entities' = left /\ AreEntities(entities') /\ {Core, Subsystem} \subseteq left
  BY <1>1, <1>2, <1>3 DEF AreEntities
<1>5. IsFiniteSet(left) /\ Cardinality(left) <= MaxEntities
  <2>1. left \subseteq nodes
    OBVIOUS
  <2> HIDE DEF left, nodes
  <2>2. IsFiniteSet(left) /\ Cardinality(left) <= Cardinality(nodes)
    BY <1>1, <2>1, FS_Subset
  <2>3. Cardinality(left) \in Nat /\ Cardinality(nodes) \in Nat /\ MaxEntities \in Nat
    BY <1>1, <2>2, FS_CardinalityType, GraphAssumption
  <2> QED BY <1>1, <2>2, <2>3
<1>6. relations' \in Orders(left)
  <2> HIDE DEF nodes
  <2> QED BY <1>1, UnrelatingIsOrder
<1>7. IsWorld(worldFile)' /\ ends' \in 0..MaxEnds /\ changes' \in 0..MaxChanges
  BY DEF GraphInv, IsWorld, AreEntities
<1> HIDE DEF left
<1>8. Ids' = left /\ AreEntities(entities)'
  BY <1>4 DEF Ids, AreEntities
<1> QED BY <1>4, <1>5, <1>6, <1>7, <1>8 DEF GraphInv

LEMMA RestoreIsTyped ==
  ASSUME ShapesTyped, NEW c \in Shapers, NEW id \in shaping[c].todo, RestoreEntity(c, id)
  PROVE  ShapesTyped'
<1> DEFINE s == shaping[c]
           entry == s.entries[id]
           fits == entry.generated \/ entry.entity = NoEntity \/ HasPlace(id)
           layoutNext == id \in Windows /\ ~entry.generated
           done == s.done \cup (IF fits /\ ~layoutNext THEN {id} ELSE {})
           fields == [step |-> IF layoutNext THEN "layout" ELSE "next", id |-> id, fits |-> fits,
                      todo |-> s.todo \ {id}, done |-> done]
           r == Over(fields, s)
<1>1. TypedCall(s)
  BY DEF ShapesTyped
<1>2. /\ s.op = "revert" /\ s.step = "next"
      /\ IF entry.generated
         THEN entities' = Removing(entities, id) /\ relations' = Unrelating(relations, id)
         ELSE /\ entities' = IF fits /\ entry.entity # NoEntity THEN Upserting(entities, id, entry.entity)
                             ELSE entities
              /\ UNCHANGED relations
      /\ undone' = [undone EXCEPT ![id] = IF fits /\ @ = "no" THEN "reverted" ELSE @]
      /\ Goes(c, fields)
      /\ UNCHANGED <<worldFile, ends, changes, history, historyFile, windowStates, layoutFile, asked>>
  BY DEF RestoreEntity
<1>3. shaping' = [shaping EXCEPT ![c] = r]
  BY <1>2, GoesOver
<1>4. /\ id \in DOMAIN s.entries /\ id \in Nodes /\ entry \in [entity : Entity \cup {NoEntity}, place : Places, generated : BOOLEAN]
      /\ (entry.generated => id \in Made)
  BY <1>1, <1>2 DEF TypedCall, MadeEntries, IsHistory
<1>5. UndoneTyped'
  BY <1>2 DEF ShapesTyped, UndoneTyped
<1> HIDE DEF s
<1>6. /\ DOMAIN r = CallFields /\ r.op = s.op /\ r.step \in {"layout", "next"} /\ r.id = id /\ r.todo = s.todo \ {id}
      /\ r.done = done /\ r.entries = s.entries
  <2> HIDE DEF fits, layoutNext, done
  <2> QED BY <1>1 DEF Over, TypedCall, CallFields
<1>7. done \subseteq Nodes
  BY <1>1, <1>4 DEF TypedCall
<1> HIDE DEF r, done
<1>8. TypedCall(r)
  BY <1>1, <1>4, <1>6, <1>7 DEF TypedCall
<1> HIDE DEF entry
<1>9. GraphInv'
  <2> USE DEF ShapesTyped
  <2>1. CASE entry.generated
    BY <1>2, <1>4, <2>1, RemovalKeepsGraph
  <2>2. CASE ~entry.generated /\ fits /\ entry.entity # NoEntity
    <3>1. HasPlace(id) /\ entry.entity \in Entity
      BY <1>4, <2>2
    <3>2. AreEntities(entities) /\ relations \in Orders(DOMAIN entities) /\ ends \in 0..MaxEnds /\ changes \in 0..MaxChanges
      BY DEF GraphInv, Ids
    <3>3. AreEntities(entities') /\ DOMAIN entities' = DOMAIN entities \cup {id}
      <4> DEFINE e == entry.entity
      <4>1. entities' = Upserting(entities, id, e) /\ e \in Entity
        BY <1>2, <2>2, <3>1
      <4> HIDE DEF e
      <4> QED BY <1>4, <3>2, <4>1, UpsertWhole
    <3>4. relations' \in Orders(DOMAIN entities')
      <4> DEFINE nodes == DOMAIN entities
                 more == DOMAIN entities'
      <4>1. nodes \subseteq more /\ relations \in Orders(nodes)
        BY <3>2, <3>3
      <4> HIDE DEF nodes, more
      <4>2. relations \in Orders(more)
        BY <4>1, MoreIsKnown
      <4> QED BY <1>2, <2>2, <4>2 DEF more
    <3> QED BY <1>2, <3>1, <3>2, <3>3, <3>4, GraphGrows
  <2>3. CASE ~entry.generated /\ ~(fits /\ entry.entity # NoEntity)
    BY <1>2, <2>3, GraphIsLeft DEF gvars
  <2> QED BY <2>1, <2>2, <2>3
<1>10. MadeEntries(history') /\ MadeEntries(historyFile') /\ LayoutsTyped' /\ asked' \in 0..MaxAsked
  BY <1>2 DEF ShapesTyped, LayoutsTyped
<1> QED BY <1>3, <1>5, <1>8, <1>9, <1>10, TypedStep

LEMMA LayoutIsTyped == ASSUME ShapesTyped, NEW c \in Shapers, RestoreLayout(c) PROVE ShapesTyped'
<1> DEFINE s == shaping[c]
           place == s.entries[s.id].place
<1>1. TypedCall(s)
  BY DEF ShapesTyped
<1>2. PICK written \in BOOLEAN : /\ layoutFile' \in {windowStates', layoutFile}
                                 /\ Goes(c, [step |-> "next", done |-> s.done \cup (IF s.fits /\ written THEN {s.id} ELSE {})])
  BY DEF RestoreLayout, Outcomes, WriteLayout
<1>3. /\ s.step = "layout" /\ windowStates' = [windowStates EXCEPT ![s.id] = place]
      /\ UNCHANGED <<gvars, history, historyFile, undone, asked>>
  BY DEF RestoreLayout
<1> DEFINE done == s.done \cup (IF s.fits /\ written THEN {s.id} ELSE {})
           fields == [step |-> "next", done |-> done]
           r == Over(fields, s)
<1>4. shaping' = [shaping EXCEPT ![c] = r]
  BY <1>2, GoesOver
<1>5. place \in Places /\ s.id \in Nodes
  BY <1>1, <1>3 DEF TypedCall, MadeEntries, IsHistory
<1>6. LayoutsTyped'
  <2> HIDE DEF place, s
  <2> QED BY <1>2, <1>3, <1>5 DEF ShapesTyped, LayoutsTyped
<1> HIDE DEF s
<1>7. done \subseteq Nodes
  BY <1>1, <1>5 DEF TypedCall
<1>8. /\ DOMAIN r = CallFields /\ r.op = s.op /\ r.step = "next" /\ r.id = s.id /\ r.todo = s.todo
      /\ r.done = done /\ r.entries = s.entries
  <2> HIDE DEF done
  <2> QED BY <1>1 DEF Over, TypedCall, CallFields
<1> HIDE DEF r, done
<1>9. TypedCall(r)
  BY <1>1, <1>7, <1>8 DEF TypedCall
<1>10. GraphInv' /\ MadeEntries(history') /\ MadeEntries(historyFile') /\ UndoneTyped' /\ asked' \in 0..MaxAsked
  BY <1>3, GraphIsLeft DEF ShapesTyped, UndoneTyped
<1> QED BY <1>4, <1>6, <1>9, <1>10, TypedStep

LEMMA ForgetIsTyped == ASSUME ShapesTyped, NEW c \in Shapers, Forget(c) PROVE ShapesTyped'
<1>1. /\ history' = [id \in DOMAIN history \ shaping[c].done |-> history[id]] /\ historyFile' \in {history', historyFile}
      /\ shaping' = [shaping EXCEPT ![c] = IdleCall] /\ UNCHANGED <<gvars, windowStates, layoutFile, undone, asked>>
  BY DEF Forget, WriteHistory
<1>2. MadeEntries(history) /\ MadeEntries(historyFile)
  BY DEF ShapesTyped
<1>3. MadeEntries(history') /\ MadeEntries(historyFile')
  <2>1. MadeEntries(history')
    BY <1>1, <1>2 DEF MadeEntries, IsHistory
  <2> QED BY <1>1, <1>2, <2>1
<1>4. GraphInv' /\ LayoutsTyped' /\ UndoneTyped' /\ asked' \in 0..MaxAsked
  BY <1>1, GraphIsLeft DEF ShapesTyped, LayoutsTyped, UndoneTyped
<1> QED BY <1>1, <1>3, <1>4, IdleIsTyped, TypedStep

(* Steps that leave the controller. *)
LEMMA OutsideIsTyped ==
  ASSUME ShapesTyped, GraphInv', LayoutsTyped', UndoneTyped', asked' \in 0..MaxAsked, UNCHANGED <<history, historyFile, shaping>>
  PROVE  ShapesTyped'
<1>1. MadeEntries(history)' /\ MadeEntries(historyFile)' /\ (\A c \in Shapers : TypedCall(shaping[c]))'
  BY DEF ShapesTyped, MadeEntries, IsHistory, TypedCall
<1> QED BY <1>1 DEF ShapesTyped

LEMMA OthersAreTyped ==
  ASSUME ShapesTyped,
         \/ \E id \in Nodes : SetShape(id)
         \/ \E w \in Windows : MoveWindow(w)
         \/ \E id \in Found : FindOrRetire(id) /\ UNCHANGED cvars
         \/ WorldSaved /\ UNCHANGED <<history, historyFile, windowStates, layoutFile, shaping, asked>>
         \/ UNCHANGED shapeVars
  PROVE  ShapesTyped'
<1>1. GraphInv /\ LayoutsTyped /\ UndoneTyped /\ asked \in 0..MaxAsked /\ MaxAsked \in Nat
  BY ShapersAssumption DEF ShapesTyped
<1>2. ASSUME NEW id \in Nodes, SetShape(id) PROVE ShapesTyped'
  <2>1. /\ asked' \in 0..MaxAsked /\ id \in DOMAIN entities /\ entities' = [entities EXCEPT ![id].shape = "set"]
        /\ UNCHANGED <<relations, worldFile, ends, changes, history, historyFile, shaping, undone>>
    BY <1>1, <1>2 DEF SetShape, Exists
  <2>2. LayoutsTyped'
    <3>1. /\ windowStates' = [windowStates EXCEPT ![id] = "set"] \/ windowStates' = windowStates
          /\ layoutFile' \in {windowStates', layoutFile}
      BY <1>2 DEF SetShape, WriteLayout
    <3> QED BY <1>1, <3>1 DEF LayoutsTyped, Places, Shapes
  <2>3. AreEntities(entities) /\ relations \in Orders(DOMAIN entities) /\ IsWorld(worldFile)
        /\ ends \in 0..MaxEnds /\ changes \in 0..MaxChanges
    BY <1>1 DEF GraphInv, Ids
  <2>4. AreEntities(entities') /\ DOMAIN entities' = DOMAIN entities
    BY <2>1, <2>3 DEF AreEntities, Entity, Shapes
  <2>5. GraphInv'
    BY <1>1, <2>1, <2>3, <2>4, GraphRests
  <2> QED BY <1>1, <2>1, <2>2, <2>5, OutsideIsTyped DEF UndoneTyped
<1>3. ASSUME NEW w \in Windows, MoveWindow(w) PROVE ShapesTyped'
  <2>1. /\ asked' \in 0..MaxAsked /\ windowStates' = [windowStates EXCEPT ![w] = IF @ = "none" THEN "own" ELSE @]
        /\ layoutFile' \in {windowStates', layoutFile} /\ UNCHANGED <<gvars, history, historyFile, shaping, undone>>
    BY <1>1, <1>3 DEF MoveWindow, WriteLayout
  <2>2. LayoutsTyped' /\ UndoneTyped'
    BY <1>1, <2>1 DEF LayoutsTyped, UndoneTyped, Places, Shapes
  <2> QED BY <1>1, <2>1, <2>2, GraphIsLeft, OutsideIsTyped
<1>4. ASSUME NEW id \in Found, FindOrRetire(id), UNCHANGED cvars PROVE ShapesTyped'
  <2>1. changes' \in 0..MaxChanges /\ (Discover(id) \/ RetireEntity(id))
    BY <1>1, <1>4, GraphAssumption DEF FindOrRetire, GraphInv
  <2>2. GraphInv'
    BY <1>1, <2>1, DiscoveryKeepsGraph
  <2> QED BY <1>1, <1>4, <2>2, OutsideIsTyped DEF cvars, LayoutsTyped, UndoneTyped
<1>5. ASSUME WorldSaved, UNCHANGED <<history, historyFile, windowStates, layoutFile, shaping, asked>> PROVE ShapesTyped'
  <2>1. GraphInv'
    BY <1>1, <1>5, SaveKeepsGraph DEF WorldSaved
  <2>2. UndoneTyped' /\ LayoutsTyped'
    BY <1>1, <1>5 DEF WorldSaved, UndoneTyped, LayoutsTyped
  <2> QED BY <1>1, <1>5, <2>1, <2>2, OutsideIsTyped
<1>6. CASE UNCHANGED shapeVars
  BY <1>1, <1>6, GraphIsLeft, OutsideIsTyped DEF shapeVars, cvars, LayoutsTyped, UndoneTyped
<1> QED BY <1>2, <1>3, <1>4, <1>5, <1>6

LEMMA EndIsTyped == ASSUME ShapesTyped, NEW orderly \in BOOLEAN, EndProgram(orderly) PROVE ShapesTyped'
<1>1. /\ EndWorld(orderly) /\ history' = historyFile /\ historyFile' = historyFile /\ windowStates' = layoutFile /\ layoutFile' = layoutFile
      /\ undone' = [id \in Nodes |-> IF undone[id] # "reverted" THEN undone[id] ELSE IF orderly THEN "no" ELSE "lost"]
      /\ shaping' = [c \in Shapers |-> IdleCall] /\ asked' = asked
  BY DEF EndProgram
<1>2. GraphInv'
  BY <1>1, EndKeepsGraph DEF ShapesTyped
<1>3. MadeEntries(history)' /\ MadeEntries(historyFile)'
  BY <1>1 DEF ShapesTyped, MadeEntries, IsHistory
<1>4. LayoutsTyped' /\ UndoneTyped' /\ asked' \in 0..MaxAsked
  BY <1>1 DEF ShapesTyped, LayoutsTyped, UndoneTyped
<1>5. DOMAIN shaping' = Shapers /\ \A c \in Shapers : TypedCall(shaping'[c])
  BY <1>1, IdleIsTyped
<1>6. (\A c \in Shapers : TypedCall(shaping[c]))'
  BY <1>5 DEF TypedCall, MadeEntries, IsHistory
<1> QED BY <1>2, <1>3, <1>4, <1>5, <1>6 DEF ShapesTyped

LEMMA TypesNext == ASSUME ShapesTyped, [ShapeNext]_shapeVars PROVE ShapesTyped'
<1>1. ASSUME NEW c \in Shapers, ShaperStep(c) PROVE ShapesTyped'
  BY <1>1, CallBeginsTyped, SnapshotIsTyped, ChangeIsTyped, PlaceIsTyped, RestoreIsTyped, LayoutIsTyped, ForgetIsTyped
     DEF ShaperStep
<1> QED BY <1>1, OthersAreTyped, EndIsTyped DEF ShapeNext

LEMMA TypedIsFit == ASSUME ShapesTyped PROVE TraceIsShortest /\ ShapesTypeOK
<1>1. GraphInv
  BY DEF ShapesTyped
<1> QED BY <1>1, GraphIsFit DEF ShapesTyped, ShapesTypeOK, MadeEntries, LayoutsTyped, UndoneTyped, TypedCall

(* The same while any number of threads change and revert shapes, make objects and
   remove them with their relations (NeuralShapeController, retire), whichever
   writes fail and whenever the program dies; and all state keeps its types. *)
THEOREM ShapesKeepTraces == ShapeSpec => [](TraceIsShortest /\ ShapesTypeOK)
BY TypesStart, TypesNext, TypedIsFit, PTL DEF ShapeSpec

-----------------------------------------------------------------------------
(* The types of the neurons, of a request, of the areas and of the stores *)

LEMMA NeuronTypesStart == ASSUME NInit PROVE NTypeOK
BY RestartsAssumption DEF NInit, NTypeOK, NodeStates, NoPoll

LEMMA NeuronTypesKept == ASSUME NTypeOK, [NNext]_nvars PROVE NTypeOK'
<1> DEFINE Steps == {"idle", "show", "retire", "look", "answer"}
           PollRecords == [step : Steps, listing : SUBSET Things, todo : SUBSET Things]
<1>1. ASSUME NEW p \in Polls, NEW r \in PollRecords, poll' = [poll EXCEPT ![p] = r] PROVE poll' \in [Polls -> PollRecords]
  BY <1>1 DEF NTypeOK
<1>2. ASSUME NEW p \in Polls PROVE /\ poll[p].listing \subseteq Things /\ poll[p].todo \subseteq Things
                                   /\ poll[p].step \in Steps /\ poll[p] \in PollRecords
  BY DEF NTypeOK
<1>3. ASSUME NEW p \in Polls, BeginPoll(p) PROVE NTypeOK'
  <2>1. CASE due
    BY <1>1, <1>3, <2>1 DEF BeginPoll, Listed, machine, NTypeOK
  <2>2. CASE ~due
    BY <1>2, <1>3, <2>2 DEF BeginPoll, machine, NTypeOK
  <2> QED BY <2>1, <2>2
<1>4. ASSUME NEW p \in Polls, NEW t \in Things, Show(p, t) \/ Retire(p, t) PROVE NTypeOK'
  <2>1. poll' \in [Polls -> PollRecords]
    BY <1>2, <1>4 DEF Show, Retire, NTypeOK
  <2>2. node' \in [Things -> NodeStates]
    BY <1>4 DEF Show, Retire, NTypeOK, NodeStates
  <2> QED BY <1>4, <2>1, <2>2 DEF Show, Retire, machine, NTypeOK
<1>5. ASSUME NEW p \in Polls, Compare(p) PROVE NTypeOK'
  <2>1. poll' \in [Polls -> PollRecords]
    BY <1>2, <1>5 DEF Compare, NTypeOK
  <2> QED BY <1>5, <2>1 DEF Compare, machine, NTypeOK
<1>6. ASSUME NEW p \in Polls, EndSync(p) PROVE NTypeOK'
  <2>1. poll' \in [Polls -> PollRecords]
    BY <1>6 DEF EndSync, NTypeOK, NoPoll
  <2> QED BY <1>2, <1>6, <2>1 DEF EndSync, machine, NTypeOK
<1>7. ASSUME NEW p \in Polls, Look(p) \/ Receive(p) PROVE NTypeOK'
  <2>1. NoPoll \in PollRecords /\ [NoPoll EXCEPT !.step = "answer", !.listing = Visible] \in PollRecords
    BY DEF NoPoll, Visible
  <2>2. poll' \in [Polls -> PollRecords]
    BY <1>1, <1>7, <2>1 DEF Look, Receive
  <2> QED BY <1>2, <1>7, <2>2 DEF Look, Receive, machine, NTypeOK
<1>8. ASSUME NEW orderly \in BOOLEAN, Restart(orderly) PROVE NTypeOK'
  BY <1>8, RestartsAssumption DEF Restart, Save, NTypeOK, NoPoll
<1>9. CASE BecomeDue \/ (\E t \in Things : Changes(t)) \/ UNCHANGED nvars
  BY <1>9 DEF BecomeDue, Changes, nvars, machine, NTypeOK
<1> QED BY <1>3, <1>4, <1>5, <1>6, <1>7, <1>8, <1>9 DEF NNext, PollStep, SyncStep

(* Sequences of at most n. *)
LEMMA BoundedIs ==
  ASSUME NEW S, NEW n \in Nat, NEW s \in BoundedSeq(S, n)
  PROVE  s \in Seq(S) /\ Len(s) \in Nat /\ Len(s) <= n
<1>1. PICK m \in 0..n : s \in [1..m -> S]
  BY DEF BoundedSeq, SeqOf
<1>2. s \in Seq(S)
  BY <1>1, SeqDef
<1>3. DOMAIN s = 1..m /\ DOMAIN s = 1..Len(s) /\ Len(s) \in Nat
  BY <1>1, <1>2, LenProperties
<1> QED BY <1>2, <1>3

LEMMA IsBounded ==
  ASSUME NEW S, NEW n \in Nat, NEW s \in Seq(S), Len(s) <= n
  PROVE  s \in BoundedSeq(S, n)
<1>1. s \in [1..Len(s) -> S] /\ Len(s) \in 0..n
  BY LenProperties
<1> QED BY <1>1 DEF BoundedSeq, SeqOf

LEMMA NoneIsBounded == ASSUME NEW S, NEW n \in Nat PROVE << >> \in BoundedSeq(S, n)
<1>1. << >> \in Seq(S) /\ Len(<< >>) = 0
  BY EmptySeq
<1>2. << >> \in [1..0 -> S] /\ 0 \in 0..n
  BY <1>1, LenProperties
<1> QED BY <1>2 DEF BoundedSeq, SeqOf

(* A queue that drops its oldest beyond its limit keeps to it. *)
LEMMA DropsOldest ==
  ASSUME NEW S, NEW n \in Nat \ {0}, NEW s \in BoundedSeq(S, n), NEW e \in S
  PROVE  (IF Len(Append(s, e)) > n THEN Tail(Append(s, e)) ELSE Append(s, e)) \in BoundedSeq(S, n)
<1> DEFINE more == Append(s, e)
<1>1. s \in Seq(S) /\ Len(s) <= n /\ Len(s) \in Nat
  BY BoundedIs
<1>2. more \in Seq(S) /\ Len(more) = Len(s) + 1 /\ more # << >>
  BY <1>1
<1>3. Tail(more) \in Seq(S) /\ Len(Tail(more)) = Len(more) - 1
  BY <1>2, HeadTailProperties
<1> HIDE DEF more
<1> DEFINE rest == Tail(more)
<1>4. rest \in Seq(S) /\ Len(rest) <= n
  BY <1>1, <1>2, <1>3
<1> HIDE DEF rest
<1>5. rest \in BoundedSeq(S, n)
  BY <1>4, IsBounded
<1>6. Len(more) > n \/ more \in BoundedSeq(S, n)
  BY <1>1, <1>2, IsBounded
<1>7. (IF Len(more) > n THEN rest ELSE more) \in BoundedSeq(S, n)
  BY <1>5, <1>6
<1> QED BY <1>7 DEF more, rest

(* A plan has steps while it is gone through. *)
DispatchTypes == DTypeOK /\ (stage = "steps" => steps # << >>)

LEMMA DispatchTypesStart == ASSUME DInit PROVE DispatchTypes
<1>1. << >> \in BoundedSeq(Operations, MaxSteps)
  BY NoneIsBounded, OperationsAssumption
<1>2. actions \in 0..MaxActions /\ performed \subseteq [op : Guarded, by : {"none", "hook", "step"}]
  BY OperationsAssumption DEF DInit
<1>3. policy \in [allowed : SUBSET Capabilities, hook : BOOLEAN] /\ text \in Texts
  BY DEF DInit
<1> QED BY <1>1, <1>2, <1>3 DEF DInit, DispatchTypes, DTypeOK, Stages

LEMMA AttemptTypes ==
  ASSUME DispatchTypes, NEW o, NEW flag, NEW outcome, Attempt(o, flag, outcome)
  PROVE  performed' \subseteq [op : Guarded, by : {"none", "hook", "step"}]
<1>1. PICK does \in Does(o), by \in Consents, effect \in BOOLEAN :
        performed' = performed \cup {p \in {[op |-> does, by |-> by]} : effect /\ does \in Guarded}
  BY DEF Attempt
<1>2. by \in {"none", "hook", "step"}
  BY DEF Consents
<1> QED BY <1>1, <1>2 DEF DispatchTypes, DTypeOK

(* The steps of a plan or of a workflow are those that were set out. *)
LEMMA SetOut ==
  ASSUME NEW Ops \in SUBSET Operations, NEW s \in BoundedSeq(Ops, MaxSteps)
  PROVE  s \in BoundedSeq(Operations, MaxSteps)
<1>1. s \in Seq(Ops) /\ Len(s) <= MaxSteps
  BY BoundedIs, OperationsAssumption
<1>2. s \in Seq(Operations)
  BY <1>1, SeqMonotonic
<1> QED BY <1>1, <1>2, IsBounded, OperationsAssumption

LEMMA TailBounded ==
  ASSUME NEW S, NEW n \in Nat, NEW s \in BoundedSeq(S, n), s # << >>
  PROVE  Head(s) \in S /\ Tail(s) \in BoundedSeq(S, n)
<1> DEFINE rest == Tail(s)
<1>1. s \in Seq(S) /\ Len(s) \in Nat /\ Len(s) <= n
  BY BoundedIs
<1>2. Head(s) \in S /\ rest \in Seq(S) /\ Len(rest) = Len(s) - 1
  BY <1>1, HeadTailProperties
<1>3. Len(rest) <= n
  BY <1>1, <1>2
<1> HIDE DEF rest
<1>4. rest \in BoundedSeq(S, n)
  BY <1>2, <1>3, IsBounded
<1> QED BY <1>2, <1>4 DEF rest

LEMMA DispatchTypesKept == ASSUME DispatchTypes, [DNext]_dvars PROVE DispatchTypes'
<1>1. << >> \in BoundedSeq(Operations, MaxSteps) /\ MaxActions \in Nat /\ 0 \in 0..MaxActions
  BY NoneIsBounded, OperationsAssumption
<1>3. AfterIntent \in {"coding", "goal", "plan"}
  BY DEF AfterIntent
<1>4. control \in Guarded
  BY OperationsAssumption
<1>5. CASE Intent /\ NamedIntent
  <2>1. PICK s \in {"coding", "goal", "plan", "raised"}, c \in {"none", "asks", "results"}, ok \in BOOLEAN :
          Goto(s) /\ Outcome(c, ok)
    BY <1>3, <1>5 DEF NamedIntent
  <2>2. performed' \subseteq [op : Guarded, by : {"none", "hook", "step"}]
    BY <1>5, AttemptTypes DEF NamedIntent, Rests, DispatchTypes, DTypeOK
  <2> QED BY <1>5, <2>1, <2>2 DEF NamedIntent, Goto, Outcome, ask, DispatchTypes, DTypeOK, Stages
<1>2. CASE steps' \in Workflows /\ Goto("workflow") /\ Outcome("results", TRUE) /\ UNCHANGED actions /\ Rests
  <2>1. steps' \in BoundedSeq(Operations, MaxSteps)
    BY <1>2, SetOut DEF Workflows, Operations
  <2> QED BY <1>2, <2>1 DEF Goto, Outcome, Rests, ask, DispatchTypes, DTypeOK, Stages
<1>14. CASE WorkflowStep \/ WorkflowEnds
  <2>1. steps' \in BoundedSeq(Operations, MaxSteps)
    <3>1. steps # << >> => Tail(steps) \in BoundedSeq(Operations, MaxSteps)
      BY TailBounded, OperationsAssumption DEF DispatchTypes, DTypeOK
    <3>2. steps' = << >> \/ (steps # << >> /\ steps' = Tail(steps))
      BY <1>14 DEF WorkflowStep, WorkflowEnds
    <3> DEFINE Bounded(s) == s \in BoundedSeq(Operations, MaxSteps)
    <3>3. Bounded(<< >>) /\ (steps # << >> => Bounded(Tail(steps)))
      BY <1>1, <3>1
    <3> HIDE DEF Bounded
    <3>4. Bounded(steps')
      BY <3>2, <3>3
    <3> QED BY <3>4 DEF Bounded
  <2>2. performed' \subseteq [op : Guarded, by : {"none", "hook", "step"}]
    BY <1>14, AttemptTypes DEF WorkflowStep, WorkflowEnds, Rests, DispatchTypes, DTypeOK
  <2>3. context' \in {"none", "asks", "results"} /\ verified' \in BOOLEAN
    BY <1>14 DEF WorkflowStep, WorkflowEnds, Outcome, DispatchTypes, DTypeOK
  <2>4. stage' \in {"workflow", "coding", "raised"} /\ policy' = policy /\ ask' = ask /\ actions' = actions
    BY <1>14 DEF WorkflowStep, WorkflowEnds, Goto
  <2> QED BY <2>1, <2>2, <2>3, <2>4 DEF ask, DispatchTypes, DTypeOK, Stages
<1>6. CASE GoalAsks \/ GoalEnds
  BY <1>6 DEF GoalAsks, GoalEnds, Asks, Goto, Outcome, Rests, ask, DispatchTypes, DTypeOK, Stages
<1>7. CASE Act
  <2>1. performed' \subseteq [op : Guarded, by : {"none", "hook", "step"}]
    <3>1. [op |-> control, by |-> "none"] \in [op : Guarded, by : {"none", "hook", "step"}]
      BY <1>4
    <3> QED BY <1>7, <3>1 DEF Act, DispatchTypes, DTypeOK
  <2>2. actions' \in 0..MaxActions
    BY <1>1, <1>7 DEF Act, DispatchTypes, DTypeOK
  <2> QED BY <1>7, <2>1, <2>2 DEF Act, Goto, Outcome, ask, DispatchTypes, DTypeOK, Stages
<1>8. CASE Plan
  <2>1. CASE steps' \in Plans /\ Goto("steps") /\ UNCHANGED <<actions, context, verified>> /\ Rests
    <3>1. steps' \in BoundedSeq(Operations \ {control, selfCoding}, MaxSteps) /\ steps' # << >>
      BY <2>1 DEF Plans
    <3>4. steps' \in BoundedSeq(Operations, MaxSteps)
      BY <3>1, SetOut
    <3> QED BY <2>1, <3>1, <3>4 DEF Goto, Rests, ask, DispatchTypes, DTypeOK, Stages
  <2>2. CASE Goto("coding") /\ UNCHANGED steps
    BY <1>8, <2>2 DEF Plan, Asks, Goto, Outcome, Rests, found, ask, DispatchTypes, DTypeOK, Stages
  <2> QED BY <1>8, <2>1, <2>2 DEF Plan, Asks, found
<1>9. CASE Step
  <2>3. Tail(steps) \in BoundedSeq(Operations, MaxSteps)
    BY <1>9, TailBounded, OperationsAssumption DEF Step, DispatchTypes, DTypeOK
  <2>4. performed' \subseteq [op : Guarded, by : {"none", "hook", "step"}]
    BY <1>9, AttemptTypes DEF Step
  <2>5. CASE Goto("coding") /\ steps' = << >> /\ UNCHANGED <<context, verified>>
    BY <1>1, <1>9, <2>4, <2>5 DEF Step, Goto, ask, DispatchTypes, DTypeOK, Stages
  <2>6. CASE /\ steps' = Tail(steps) /\ context' = "results" /\ verified' = (Tail(steps) = << >>)
             /\ Goto(IF Tail(steps) = << >> THEN "coding" ELSE "steps")
    <3> DEFINE rest == Tail(steps)
    <3>1. rest \in BoundedSeq(Operations, MaxSteps)
      BY <2>3
    <3>2. /\ steps' = rest /\ verified' \in BOOLEAN /\ stage' \in {"coding", "steps"}
          /\ (stage' = "steps" => rest # << >>) /\ policy' = policy /\ ask' = ask
      BY <2>6 DEF Goto
    <3> HIDE DEF rest
    <3> QED BY <1>9, <2>4, <2>6, <3>1, <3>2 DEF Step, ask, DispatchTypes, DTypeOK, Stages
  <2> QED BY <1>9, <2>5, <2>6 DEF Step
<1>10. CASE Coding
  <2>2. performed' \subseteq [op : Guarded, by : {"none", "hook", "step"}]
    BY <1>10, AttemptTypes DEF Coding, Rests, DispatchTypes, DTypeOK
  <2> QED BY <1>10, <2>2 DEF Coding, Goto, Outcome, ask, DispatchTypes, DTypeOK, Stages
<1>11. CASE Reply
  BY <1>11 DEF Reply, Goto, Rests, ask, DispatchTypes, DTypeOK, Stages
<1>12. CASE Agree \/ \E t \in Texts : Ask(t)
  BY <1>1, <1>12 DEF Agree, Ask, Begin, DispatchTypes, DTypeOK, Stages
<1>13. CASE UNCHANGED dvars
  BY <1>13 DEF dvars, ask, found, DispatchTypes, DTypeOK
<1> QED BY <1>2, <1>5, <1>6, <1>7, <1>8, <1>9, <1>10, <1>11, <1>12, <1>13, <1>14 DEF DNext, Advance, Intent

LEMMA StreamTypesStart == ASSUME TInit PROVE TTypeOK
<1>1. queued \in [Areas -> 0..MaxQueued]
  BY LimitsAssumption DEF TInit
<1>2. stopper \in [Stoppers -> [step : {"idle", "told", "joins"}, worker : Loaders \cup {NoWorker}]]
  BY DEF TInit
<1> QED BY <1>1, <1>2 DEF TInit, TTypeOK

LEMMA StreamTypesKept == ASSUME TTypeOK, [TNext]_tvars PROVE TTypeOK'
<1>1. ASSUME NEW a \in Areas, Request(a) \/ RequestStreamer(a) PROVE TTypeOK'
  <2>1. queued' \in [Areas -> 0..MaxQueued]
    BY <1>1, LimitsAssumption DEF Request, RequestStreamer, places, TTypeOK
  <2>2. loaded' \subseteq Areas /\ cache' \subseteq Areas
    BY <1>1 DEF Request, RequestStreamer, places, TTypeOK
  <2> QED BY <1>1, <2>1, <2>2 DEF Request, RequestStreamer, threads, TTypeOK
<1>2. ASSUME NEW a \in Areas, Unload(a) PROVE TTypeOK'
  <2>1. loaded' \subseteq Areas /\ cache' \subseteq Areas
    BY <1>2 DEF Unload, Evicts, TTypeOK, Trim
  <2> QED BY <1>2, <2>1 DEF Unload, Evicts, threads, TTypeOK
<1>3. CASE Pump /\ UNCHANGED threads
  <2>1. PICK taken \in [Areas -> 0..MaxQueued] :
          /\ \A a \in Areas : taken[a] <= queued[a]
          /\ queued' = [a \in Areas |-> queued[a] - taken[a]]
          /\ Load({a \in Areas : taken[a] > 0}) /\ UNCHANGED flavour
    BY <1>3 DEF Pump
  <2>2. queued' \in [Areas -> 0..MaxQueued]
    <3>1. ASSUME NEW a \in Areas PROVE queued[a] - taken[a] \in 0..MaxQueued
      BY <2>1, LimitsAssumption DEF TTypeOK
    <3> QED BY <2>1, <3>1
  <2>3. loaded' \subseteq Areas /\ cache' \subseteq Areas
    BY <2>1 DEF Load, TTypeOK
  <2> QED BY <1>3, <2>1, <2>2, <2>3 DEF threads, TTypeOK
<1>4. ASSUME NEW w \in Loaders, StartWorker(w) \/ WorkerEnds(w) PROVE TTypeOK'
  BY <1>4 DEF StartWorker, WorkerEnds, places, TTypeOK
<1>5. ASSUME NEW s \in Stoppers, StopWorker(s) PROVE TTypeOK'
  <2>1. stopper' \in [Stoppers -> [step : {"idle", "told", "joins"}, worker : Loaders \cup {NoWorker}]]
    BY <1>5 DEF StopWorker, Tell, TakeHandle, Join, TTypeOK
  <2>2. stopping' \in BOOLEAN /\ handle' \in Loaders \cup {NoWorker} /\ workers' = workers /\ UNCHANGED <<flavour, places>>
    BY <1>5 DEF StopWorker, Tell, TakeHandle, Join, TTypeOK
  <2> QED BY <2>1, <2>2 DEF places, TTypeOK
<1>6. CASE UNCHANGED tvars
  BY <1>6 DEF tvars, places, threads, TTypeOK
<1> QED BY <1>1, <1>2, <1>3, <1>4, <1>5, <1>6 DEF TNext, WorkerPumps

(* Each store keeps its types, and none touches another. *)
UserTypes ==
  /\ active \in Users \cup {none} /\ known \subseteq Users
  /\ private \in [Users -> SUBSET Regions] /\ shared \in [Users -> SUBSET Regions]
  /\ region \in [Regions -> RegionRecords \cup {NoRegion}]
HistoryTypes == frames \in BoundedSeq(Snapshots, MaxFrames) /\ bookmark \in [Bookmarks -> Snapshots \cup {none}]
DisplayTypes ==
  /\ display \in [Displays -> DisplayStates] /\ layout \in [Displays -> DisplayStates]
  /\ copy \in [Threads -> Displays \cup {none}]
OptimizeTypes == rollback \in [Profiles -> BOOLEAN] /\ last \in [Profiles -> Strategies \cup {none}]
SurfaceTypes == mode \in {"desktop", "3d"} /\ surface \in [Surfaces -> SurfaceStates]
OrganismTypes == cells \in 0..MaxCells /\ fertile \in BOOLEAN /\ raised \in BOOLEAN
WorldTypes == world \in [Worlds -> WorldRecords \cup {NoWorld}]
AudioTypes == queue \in BoundedSeq(Sounds, MaxQueue) /\ tuning \in Tunings
RecordTypes == record \in [Kinds -> SUBSET Names] /\ allowed \subseteq Names

StoreTypes ==
  /\ UserTypes /\ HistoryTypes /\ DisplayTypes /\ OptimizeTypes /\ SurfaceTypes /\ OrganismTypes /\ WorldTypes
  /\ AudioTypes /\ RecordTypes

LEMMA StoreTypesAre == StoreTypes <=> ETypeOK
BY DEF StoreTypes, ETypeOK, UserTypes, HistoryTypes, DisplayTypes, OptimizeTypes, SurfaceTypes, OrganismTypes,
       WorldTypes, AudioTypes, RecordTypes

LEMMA StoreTypesStart == ASSUME EInit PROVE StoreTypes
<1>1. UserTypes
  BY DEF EInit, UserTypes
<1>2. HistoryTypes
  BY NoneIsBounded, SizesAssumption DEF EInit, HistoryTypes
<1>3. DisplayTypes /\ OptimizeTypes /\ SurfaceTypes /\ WorldTypes /\ RecordTypes
  BY DEF EInit, DisplayTypes, DisplayStates, OptimizeTypes, SurfaceTypes, SurfaceStates, WorldTypes, RecordTypes
<1>4. OrganismTypes
  <2>1. cells \in 0..MaxCells
    BY SizesAssumption DEF EInit
  <2>2. fertile \in BOOLEAN /\ raised \in BOOLEAN
    BY DEF EInit
  <2> QED BY <2>1, <2>2 DEF OrganismTypes
<1>5. AudioTypes
  BY NoneIsBounded, SizesAssumption DEF EInit, AudioTypes, Tunings
<1> QED BY <1>1, <1>2, <1>3, <1>4, <1>5 DEF StoreTypes

LEMMA UsersKeepTypes == ASSUME UserTypes, UserCommand PROVE UserTypes'
<1>1. ASSUME NEW u \in Users, Profile(u) \/ SelectUser(u) \/ Arrange(u) PROVE UserTypes'
  BY <1>1 DEF Profile, SelectUser, Arrange, UserTypes
<1>2. ASSUME NEW r \in Regions, NEW u \in Users, NEW s \in BOOLEAN, NEW m \in SUBSET Users, Region(r, u, s, m)
      PROVE  UserTypes'
  <2>1. [owner |-> u, shared |-> s, members |-> m \cup {u}] \in RegionRecords
    BY DEF RegionRecords
  <2>2. region' \in [Regions -> RegionRecords \cup {NoRegion}]
    BY <1>2, <2>1 DEF Region, UserTypes
  <2>3. shared' \in [Users -> SUBSET Regions] /\ private' \in [Users -> SUBSET Regions] /\ known' \subseteq Users
    <3>1. CASE s
      BY <1>2, <3>1 DEF Region, UserTypes
    <3>2. CASE ~s
      BY <1>2, <3>2 DEF Region, UserTypes
    <3> QED BY <3>1, <3>2
  <2> QED BY <1>2, <2>2, <2>3 DEF Region, UserTypes
<1> QED BY <1>1, <1>2 DEF UserCommand

LEMMA HistoryKeepsTypes == ASSUME HistoryTypes, HistoryCommand PROVE HistoryTypes'
<1>1. ASSUME NEW s \in Snapshots, Capture(s) PROVE HistoryTypes'
  BY <1>1, DropsOldest, SizesAssumption DEF Capture, LastFrames, HistoryTypes
<1>2. ASSUME NEW s \in Snapshots, NEW b \in Bookmarks, Bookmark(b, s) PROVE HistoryTypes'
  BY <1>2 DEF Bookmark, HistoryTypes
<1> QED BY <1>1, <1>2 DEF HistoryCommand

LEMMA DisplaysKeepTypes == ASSUME DisplayTypes, DisplayCommand PROVE DisplayTypes'
<1>1. ASSUME NEW d \in Displays, UpdateDisplay(d) \/ Disconnect(d) PROVE DisplayTypes'
  BY <1>1 DEF UpdateDisplay, Disconnect, Upserted, DisplayTypes, DisplayStates
<1>2. ASSUME NEW t \in Threads, NEW d \in Displays, BeginReconnect(t, d) PROVE DisplayTypes'
  BY <1>2 DEF BeginReconnect, Upserted, DisplayTypes, DisplayStates
<1>3. ASSUME NEW t \in Threads, EndReconnect(t) PROVE DisplayTypes'
  BY <1>3 DEF EndReconnect, DisplayTypes, DisplayStates
<1>4. CASE SaveLayout
  BY <1>4 DEF SaveLayout, DisplayTypes
<1> QED BY <1>1, <1>2, <1>3, <1>4 DEF DisplayCommand

LEMMA OptimizationsKeepTypes == ASSUME OptimizeTypes, OptimizeCommand PROVE OptimizeTypes'
BY DEF OptimizeCommand, CompareStrategies, Apply, Rollback, OptimizeTypes

LEMMA SurfacesKeepTypes == ASSUME SurfaceTypes, SurfaceCommand PROVE SurfaceTypes'
<1>1. ASSUME NEW s \in Surfaces, NEW state \in SurfaceStates, SetSurface(s, state) PROVE SurfaceTypes'
  BY <1>1 DEF SetSurface, SurfaceTypes
<1>2. ASSUME NEW m \in {"desktop", "3d"}, Transition(m) PROVE SurfaceTypes'
  BY <1>2 DEF Transition, SurfaceTypes, SurfaceStates
<1> QED BY <1>1, <1>2 DEF SurfaceCommand, Upsert, SurfaceStates

LEMMA OrganismKeepsTypes == ASSUME OrganismTypes, OrganismCommand PROVE OrganismTypes'
<1>1. PICK seeded \in cells..MaxCells :
        /\ fertile' \in {fertile, seeded > 0} /\ raised' = Divides(seeded)
        /\ IF Divides(seeded) THEN cells' = seeded + 1 ELSE Retires(seeded)
  BY DEF OrganismCommand
<1>2. raised' \in BOOLEAN
  BY <1>1 DEF Divides
<1>3. fertile' \in BOOLEAN
  <2>1. (seeded > 0) \in BOOLEAN
    OBVIOUS
  <2>2. fertile \in BOOLEAN
    BY DEF OrganismTypes
  <2> DEFINE some == seeded > 0
  <2>3. fertile' \in {fertile, some} /\ some \in BOOLEAN
    BY <1>1, <2>1
  <2> HIDE DEF some
  <2> QED BY <2>2, <2>3
<1>4. seeded \in Nat /\ seeded <= MaxCells /\ MaxCells \in Nat
  BY SizesAssumption DEF OrganismTypes
<1>5. cells' \in 0..MaxCells
  <2>1. CASE Divides(seeded)
    <3>1. cells' = seeded + 1
      BY <1>1, <2>1
    <3>2. seeded < MaxCells
      BY <2>1 DEF Divides
    <3> QED BY <1>4, <3>1, <3>2
  <2>2. CASE ~Divides(seeded)
    <3>1. Retires(seeded)
      BY <1>1, <2>2
    <3>2. PICK r \in 0..seeded : cells' = seeded - r
      BY <3>1 DEF Retires
    <3> QED BY <1>4, <3>2
  <2> QED BY <2>1, <2>2
<1> QED BY <1>2, <1>3, <1>5 DEF OrganismTypes

LEMMA WorldsKeepTypes == ASSUME WorldTypes, WorldCommand PROVE WorldTypes'
<1>1. ASSUME NEW w \in Worlds, NEW s \in Seeds, NEW full \in BOOLEAN,
             world' = [world EXCEPT ![w] = [seed |-> s, populated |-> full]]
      PROVE  WorldTypes'
  <2>1. [seed |-> s, populated |-> full] \in WorldRecords
    BY DEF WorldRecords
  <2> QED BY <1>1, <2>1 DEF WorldTypes
<1> QED BY <1>1, SizesAssumption DEF WorldCommand, Create, Populate

LEMMA SoundsKeepTypes == ASSUME AudioTypes, AudioCommand PROVE AudioTypes'
<1>1. ASSUME NEW sound \in Sounds, Emit(sound) PROVE AudioTypes'
  BY <1>1, DropsOldest, SizesAssumption DEF Emit, LastSounds, AudioTypes
<1>2. ASSUME NEW t \in Tunings, Tune(t) PROVE AudioTypes'
  BY <1>2 DEF Tune, AudioTypes
<1> QED BY <1>1, <1>2 DEF AudioCommand

LEMMA RecordsKeepTypes == ASSUME RecordTypes, RecordCommand PROVE RecordTypes'
BY DEF RecordCommand, Put, RequestControl, RecordTypes

LEMMA StoreTypesKept == ASSUME StoreTypes, [Command]_evars PROVE StoreTypes'
<1>1. /\ UNCHANGED userVars => UserTypes'
      /\ UNCHANGED historyVars => HistoryTypes'
      /\ UNCHANGED displayVars => DisplayTypes'
      /\ UNCHANGED optimizeVars => OptimizeTypes'
      /\ UNCHANGED surfaceVars => SurfaceTypes'
      /\ UNCHANGED organismVars => OrganismTypes'
      /\ UNCHANGED world => WorldTypes'
      /\ UNCHANGED audioVars => AudioTypes'
      /\ UNCHANGED recordVars => RecordTypes'
  BY DEF StoreTypes, userVars, historyVars, displayVars, optimizeVars, surfaceVars, organismVars, audioVars, recordVars,
         UserTypes, HistoryTypes, DisplayTypes, OptimizeTypes, SurfaceTypes, OrganismTypes, WorldTypes, AudioTypes,
         RecordTypes
<1>2. CASE UNCHANGED evars
  BY <1>1, <1>2 DEF evars, StoreTypes
<1>3. CASE UserStep \/ HistoryStep \/ DisplayStep
  BY <1>1, <1>3, UsersKeepTypes, HistoryKeepsTypes, DisplaysKeepTypes DEF UserStep, HistoryStep, DisplayStep, StoreTypes
<1>4. CASE OptimizeStep \/ SurfaceStep \/ OrganismStep
  BY <1>1, <1>4, OptimizationsKeepTypes, SurfacesKeepTypes, OrganismKeepsTypes
     DEF OptimizeStep, SurfaceStep, OrganismStep, StoreTypes
<1>5. CASE WorldStep \/ AudioStep \/ RecordStep
  BY <1>1, <1>5, WorldsKeepTypes, SoundsKeepTypes, RecordsKeepTypes DEF WorldStep, AudioStep, RecordStep, StoreTypes
<1> QED BY <1>2, <1>3, <1>4, <1>5 DEF Command

-----------------------------------------------------------------------------
(* The types of the feed *)

FeedKinds == {"created", "related", "observation", "progress", "finished"}
Told == [kind : FeedKinds, task : TaskIds]
Notices == [n : Nat, kind : FeedKinds, task : TaskIds]
ReadingFields == {"step", "since", "list", "enabled"}

(* The events that are kept are the last ones, numbered without a gap. *)
FeedIsNumbered(log, n) ==
  /\ log \in Seq(Notices) /\ n \in Nat /\ Len(log) <= n
  /\ \A i \in 1..Len(log) : log[i].n = n - Len(log) + i

(* What was read, or is to be read on from, was published. *)
ReadOf(list, n) == list \in Seq(Notices) /\ Len(list) <= Batch /\ \A i \in 1..Len(list) : list[i].n <= n
ReadingTyped(r, n) == DOMAIN r = ReadingFields /\ r.since \in 0..n /\ ReadOf(r.list, n) /\ r.enabled \in BOOLEAN

RequestTypes ==
  /\ taskNode \in [TaskIds -> {"none", "queued", "running", "waiting", "succeeded", "failed"}]
  /\ told \in [TaskIds -> {"none", "asked", "verified", "unverified", "raised"}]
  /\ \A c \in Callers : order[c].step \in {"idle", "plan", "guarded", "further", "coded", "answer", "asked"}
  /\ observing \in BOOLEAN
LogTypes == FeedIsNumbered(feed, published) /\ Len(feed) <= MaxFeed
PageTypes ==
  /\ screen.seen \in 0..published /\ screen.noted \in 0..published /\ screen.births \subseteq TaskIds
  /\ DOMAIN screen = {"seen", "noted", "births", "follow", "box"} /\ frozen \in BOOLEAN
  /\ DOMAIN reading = Polling /\ \A p \in Polling : ReadingTyped(reading[p], published)

FeedTypes == FeedInv /\ RequestTypes /\ LogTypes /\ PageTypes

LEMMA FeedTypesAre == ASSUME FeedTypes PROVE FeedTypeOK
<1>1. \A c \in Callers : order[c].task \subseteq TaskIds
  BY DEF FeedTypes, FeedInv
<1>2. DOMAIN feed = 1..Len(feed)
  BY LenProperties DEF FeedTypes, LogTypes, FeedIsNumbered
<1>3. \A i \in DOMAIN feed : feed[i].n = published - Len(feed) + i
  BY <1>2 DEF FeedTypes, LogTypes, FeedIsNumbered
<1>4. \A p \in Polling : Len(reading[p].list) <= Batch /\ reading[p].since <= published
  BY DEF FeedTypes, LogTypes, FeedIsNumbered, PageTypes, ReadingTyped, ReadOf
<1> QED BY <1>1, <1>3, <1>4 DEF FeedTypes, RequestTypes, LogTypes, PageTypes, FeedTypeOK

LEMMA NothingIsRead == ASSUME NEW n \in Nat PROVE ReadingTyped(NoPolling, n)
<1>1. << >> \in Seq(Notices) /\ Len(<< >>) = 0
  BY EmptySeq
<1>2. ReadOf(<< >>, n)
  BY <1>1, FeedAssumption DEF ReadOf
<1> QED BY <1>2 DEF ReadingTyped, NoPolling, ReadingFields

LEMMA FeedTypesStart == ASSUME FeedInit PROVE FeedTypes
<1>1. RequestTypes
  BY DEF FeedInit, RequestTypes, NoOrder
<1>2. LogTypes
  <2>1. << >> \in Seq(Notices) /\ Len(<< >>) = 0
    BY EmptySeq
  <2> QED BY <2>1, FeedAssumption DEF FeedInit, LogTypes, FeedIsNumbered
<1>3. PageTypes
  <2>1. /\ screen = [seen |-> 0, noted |-> 0, births |-> {}, follow |-> {}, box |-> "hidden"]
        /\ reading = [p \in Polling |-> NoPolling] /\ frozen = FALSE /\ published = 0
    BY DEF FeedInit
  <2>2. screen.seen = 0 /\ screen.noted = 0 /\ 0 \in 0..published
    BY <2>1
  <2>6. frozen \in BOOLEAN
    BY <2>1
  <2>5. screen.births \subseteq TaskIds /\ DOMAIN screen = {"seen", "noted", "births", "follow", "box"}
    BY <2>1
  <2>3. ReadingTyped(NoPolling, published)
    BY <2>1, NothingIsRead
  <2>4. DOMAIN reading = Polling /\ \A p \in Polling : reading[p] = NoPolling
    BY <2>1
  <2> QED BY <2>2, <2>3, <2>4, <2>5, <2>6 DEF PageTypes
<1> QED BY <1>1, <1>2, <1>3, FeedStarts DEF FeedTypes

(* The last n of a sequence. *)
LEMMA LastOfIs ==
  ASSUME NEW S, NEW s \in Seq(S), NEW n \in Nat
  PROVE  /\ LastOf(s, n) \in Seq(S) /\ Len(LastOf(s, n)) \in Nat /\ Len(LastOf(s, n)) <= n /\ Len(LastOf(s, n)) <= Len(s)
         /\ \A i \in 1..Len(LastOf(s, n)) : LastOf(s, n)[i] = s[Len(s) - Len(LastOf(s, n)) + i]
<1>1. Len(s) \in Nat /\ \A i \in 1..Len(s) : s[i] \in S
  BY LenProperties, ElementOfSeq
<1>2. CASE Len(s) > n
  <2> DEFINE m == Len(s) - n + 1
             t == SubSeq(s, m, Len(s))
  <2>1. m \in 1..(Len(s) + 1) /\ \A i \in m..Len(s) : s[i] \in S
    BY <1>1, <1>2
  <2>2. /\ t \in Seq(S) /\ Len(t) = IF m <= Len(s) THEN Len(s) - m + 1 ELSE 0
        /\ \A i \in 1..(Len(s) - m + 1) : t[i] = s[m + i - 1]
    BY <1>1, <2>1, SubSeqProperties
  <2> HIDE DEF t
  <2>3. Len(t) = n /\ \A i \in 1..n : t[i] = s[Len(s) - n + i]
    BY <1>1, <1>2, <2>2
  <2>4. LastOf(s, n) = t
    BY <1>2 DEF LastOf, t
  <2> DEFINE l == LastOf(s, n)
  <2>5. l = t
    BY <2>4
  <2> HIDE DEF l
  <2>6. l \in Seq(S) /\ Len(l) \in Nat /\ Len(l) <= n /\ Len(l) <= Len(s)
    BY <1>1, <1>2, <2>2, <2>3, <2>5
  <2>7. \A i \in 1..Len(l) : l[i] = s[Len(s) - Len(l) + i]
    BY <2>3, <2>5
  <2> QED BY <2>6, <2>7 DEF l
<1>3. CASE ~(Len(s) > n)
  <2>1. LastOf(s, n) = s
    BY <1>3 DEF LastOf
  <2> QED BY <1>1, <1>3, <2>1
<1> QED BY <1>2, <1>3

LEMMA PublishKeepsLog ==
  ASSUME LogTypes, NEW es \in Seq(Told), Publish(es)
  PROVE  LogTypes' /\ published <= published'
<1> DEFINE more == Numbered(es)
           all == feed \o more
           kept == LastOf(all, MaxFeed)
<1>1. /\ feed \in Seq(Notices) /\ published \in Nat /\ Len(feed) <= published /\ Len(feed) \in Nat
      /\ \A i \in 1..Len(feed) : feed[i].n = published - Len(feed) + i
  BY LenProperties DEF LogTypes, FeedIsNumbered
<1>2. Len(es) \in Nat /\ DOMAIN es = 1..Len(es) /\ \A i \in 1..Len(es) : es[i] \in Told
  BY LenProperties, ElementOfSeq
<1>3. more \in [1..Len(es) -> Notices] /\ \A i \in 1..Len(es) : more[i].n = published + i
  <2>1. ASSUME NEW i \in 1..Len(es) PROVE [n |-> published + i, kind |-> es[i].kind, task |-> es[i].task] \in Notices
    BY <1>1, <1>2 DEF Told, Notices
  <2> QED BY <1>2, <2>1 DEF Numbered
<1>4. more \in Seq(Notices) /\ Len(more) = Len(es)
  <2> HIDE DEF more
  <2>1. more \in Seq(Notices)
    BY <1>2, <1>3, SeqDef
  <2>2. DOMAIN more = 1..Len(es) /\ DOMAIN more = 1..Len(more) /\ Len(more) \in Nat
    BY <1>3, <2>1, LenProperties
  <2> QED BY <1>2, <2>1, <2>2
<1> HIDE DEF more
<1>5. /\ all \in Seq(Notices) /\ Len(all) = Len(feed) + Len(es)
      /\ \A i \in 1..(Len(feed) + Len(es)) : all[i] = IF i <= Len(feed) THEN feed[i] ELSE more[i - Len(feed)]
  <2> HIDE DEF all
  <2>1. /\ feed \o more \in Seq(Notices) /\ Len(feed \o more) = Len(feed) + Len(more)
        /\ \A i \in 1..(Len(feed) + Len(more)) :
             (feed \o more)[i] = IF i <= Len(feed) THEN feed[i] ELSE more[i - Len(feed)]
    BY <1>1, <1>4, ConcatProperties
  <2> QED BY <1>4, <2>1 DEF all
<1> HIDE DEF all
<1>6. \A i \in 1..Len(all) : all[i].n = published - Len(feed) + i
  <2> TAKE i \in 1..Len(all)
  <2>1. CASE i <= Len(feed)
    <3>1. i \in 1..Len(feed) /\ all[i] = feed[i]
      BY <1>1, <1>2, <1>5, <2>1
    <3> QED BY <1>1, <3>1
  <2>2. CASE ~(i <= Len(feed))
    <3>1. i - Len(feed) \in 1..Len(es) /\ all[i] = more[i - Len(feed)]
      BY <1>1, <1>2, <1>5, <2>2
    <3>2. more[i - Len(feed)].n = published + (i - Len(feed))
      BY <1>3, <3>1
    <3> QED BY <1>1, <3>1, <3>2
  <2> QED BY <2>1, <2>2
<1>7. /\ kept \in Seq(Notices) /\ Len(kept) \in Nat /\ Len(kept) <= MaxFeed /\ Len(kept) <= Len(all)
      /\ \A i \in 1..Len(kept) : kept[i] = all[Len(all) - Len(kept) + i]
  BY <1>5, LastOfIs, FeedAssumption
<1> HIDE DEF kept
<1>8. feed' = kept /\ published' = published + Len(es)
  BY DEF Publish, kept, all, more
<1>9. \A i \in 1..Len(kept) : kept[i].n = published' - Len(kept) + i
  <2> TAKE i \in 1..Len(kept)
  <2> DEFINE j == Len(all) - Len(kept) + i
  <2>1. j \in 1..Len(all) /\ kept[i] = all[j]
    BY <1>1, <1>2, <1>5, <1>7
  <2>2. published - Len(feed) + j = published' - Len(kept) + i
    BY <1>1, <1>2, <1>5, <1>7, <1>8
  <2> HIDE DEF j
  <2>3. all[j].n = published - Len(feed) + j
    BY <1>6, <2>1
  <2> QED BY <2>1, <2>2, <2>3
<1>10. FeedIsNumbered(kept, published') /\ Len(kept) <= MaxFeed
  BY <1>1, <1>2, <1>5, <1>7, <1>8, <1>9 DEF FeedIsNumbered
<1> QED BY <1>1, <1>2, <1>8, <1>10 DEF LogTypes

(* What a poll is answered with: the last of the events after the one it names. *)
LEMMA SinceIsRead == ASSUME LogTypes, NEW n PROVE ReadOf(Since(n), published)
<1> DEFINE N == Len(feed)
           S == {s \in Seq(Notices) : \A i \in 1..Len(s) : s[i].n <= published}
           Add(s, k) == IF feed[k].n > n THEN Append(s, feed[k]) ELSE s
           G == [k \in 1..N |-> [s \in S |-> Add(s, k)]]
           g == CHOOSE f : f = [k \in 0..N |-> IF k = 0 THEN << >> ELSE Add(f[k - 1], k)]
<1>1. N \in Nat /\ published \in Nat /\ \A i \in 1..N : feed[i] \in Notices /\ feed[i].n <= published
  <2>1. feed \in Seq(Notices) /\ published \in Nat /\ N <= published
        /\ \A i \in 1..N : feed[i].n = published - N + i
    BY DEF LogTypes, FeedIsNumbered
  <2>2. N \in Nat /\ \A i \in 1..N : feed[i] \in Notices
    BY <2>1, LenProperties, ElementOfSeq
  <2>3. ASSUME NEW i \in 1..N PROVE feed[i].n <= published
    BY <2>1, <2>2
  <2> QED BY <2>1, <2>2, <2>3
<1>2. << >> \in S
  <2>1. << >> \in Seq(Notices) /\ Len(<< >>) = 0
    BY EmptySeq
  <2> QED BY <2>1
<1>3. ASSUME NEW k \in 1..N, NEW s \in S PROVE Add(s, k) \in S
  <2> DEFINE more == Append(s, feed[k])
  <2>1. s \in Seq(Notices) /\ Len(s) \in Nat /\ feed[k] \in Notices
    BY <1>1, LenProperties
  <2>2. more \in Seq(Notices) /\ Len(more) = Len(s) + 1 /\ more[Len(s) + 1] = feed[k]
        /\ \A i \in 1..Len(s) : more[i] = s[i]
    BY <2>1, AppendProperties
  <2> HIDE DEF more
  <2>3. ASSUME NEW i \in 1..Len(more) PROVE more[i].n <= published
    <3>1. CASE i = Len(s) + 1
      BY <1>1, <2>2, <3>1
    <3>2. CASE i # Len(s) + 1
      <4>1. i \in 1..Len(s)
        BY <2>1, <2>2, <3>2
      <4> QED BY <2>2, <4>1
    <3> QED BY <3>1, <3>2
  <2>4. more \in S
    BY <2>2, <2>3
  <2> QED BY <2>4 DEF more
<1>4. PICK f \in [0..N -> S] : f[0] = << >> /\ \A k \in 1..N : f[k] = G[k][f[k - 1]]
  <2>1. G \in [1..N -> [S -> S]]
    <3> HIDE DEF Add, S
    <3> QED BY <1>3
  <2> HIDE DEF N, G, S, g, Add
  <2> QED BY <1>1, <1>2, <2>1, LoopExists
<1>5. ASSUME NEW k \in 1..N PROVE f[k] = Add(f[k - 1], k)
  <2>1. f[k - 1] \in S
    <3> HIDE DEF N, S, G
    <3> QED BY <1>1, <1>4
  <2>2. G[k] = [s \in S |-> Add(s, k)]
    OBVIOUS
  <2> HIDE DEF G, Add, S
  <2>3. G[k][f[k - 1]] = Add(f[k - 1], k)
    BY <2>1, <2>2
  <2> QED BY <1>4, <2>3
<1>6. f = [k \in 0..N |-> IF k = 0 THEN << >> ELSE Add(f[k - 1], k)]
  <2> HIDE DEF G, N, S, Add
  <2> QED BY <1>1, <1>4, <1>5
<1>7. g = [k \in 0..N |-> IF k = 0 THEN << >> ELSE Add(g[k - 1], k)]
  <2> HIDE DEF N, Add
  <2> QED BY <1>6
<1>8. Since(n) = LastOf(g[N], Batch)
  BY DEF Since
<1> DEFINE T == {k \in 0..N : g[k] \in S}
<1> HIDE DEF g
<1>9. N \in T
  <2>1. 0 \in T
    BY <1>1, <1>2, <1>7
  <2>2. ASSUME NEW k \in 1..N, k - 1 \in T PROVE k \in T
    <3>1. g[k] = Add(g[k - 1], k)
      <4> HIDE DEF Add, T, S
      <4> QED BY <1>1, <1>7
    <3>2. g[k - 1] \in S
      BY <2>2
    <3>3. g[k] \in S
      <4> HIDE DEF Add, S
      <4> QED BY <1>3, <3>1, <3>2
    <3> QED BY <3>3
  <2> HIDE DEF T, S, Add
  <2>3. \A k \in 0..N : k \in T
    BY <1>1, <2>1, <2>2, UpTo
  <2> QED BY <1>1, <2>3
<1> DEFINE all == g[N]
<1>10. all \in Seq(Notices) /\ \A i \in 1..Len(all) : all[i].n <= published
  BY <1>9
<1> HIDE DEF all, T, S, Add, N
<1> DEFINE list == LastOf(all, Batch)
<1>11. /\ list \in Seq(Notices) /\ Len(list) \in Nat /\ Len(list) <= Batch /\ Len(list) <= Len(all)
       /\ \A i \in 1..Len(list) : list[i] = all[Len(all) - Len(list) + i]
  BY <1>10, LastOfIs, FeedAssumption
<1> HIDE DEF list
<1>12. ASSUME NEW i \in 1..Len(list) PROVE list[i].n <= published
  <2>1. Len(all) \in Nat
    BY <1>10, LenProperties
  <2>2. Len(all) - Len(list) + i \in 1..Len(all)
    BY <1>11, <2>1
  <2> QED BY <1>10, <1>11, <2>2
<1>13. Since(n) = list
  BY <1>8 DEF list, all
<1> QED BY <1>11, <1>12, <1>13 DEF ReadOf

(* What every stage of a request tells is of its own task. *)
LEMMA StagesPublish ==
  ASSUME FeedTypes, NEW c \in Callers, RequestStage(c)
  PROVE  (\E es \in Seq(Told) : Publish(es)) \/ UNCHANGED <<feed, published>>
<1> DEFINE t == TaskOf(c)
<1>1. ASSUME NEW u \in TaskIds, NEW kind \in FeedKinds PROVE <<Event(kind, u)>> \in Seq(Told)
  <2>1. Event(kind, u) \in Told
    BY DEF Event, Told
  <2> QED BY <2>1
<1>2. << >> \in Seq(Told)
  BY EmptySeq
<1>3. ASSUME NEW u \in TaskIds, NEW enabled \in BOOLEAN
      PROVE  Crumb(enabled, u) \in Seq(Told) /\ Progress(u) \in Seq(Told) /\ <<Event("finished", u)>> \in Seq(Told)
  BY <1>1, <1>2 DEF Crumb, Progress, FeedKinds
<1>4. ASSUME order[c].step \notin {"idle", "asked"} PROVE t \in TaskIds
  BY <1>4, TaskIsKnown DEF FeedTypes
<1>5. observing \in BOOLEAN
  BY DEF FeedTypes, RequestTypes
<1>6. ASSUME NEW u \in TaskIds, TaskStarts(c, u) PROVE \E es \in Seq(Told) : Publish(es)
  <2>1. Event("created", u) \in Told /\ Event("related", u) \in Told
    BY DEF Event, Told, FeedKinds
  <2>2. <<Event("created", u), Event("related", u)>> \in Seq(Told)
    BY <2>1
  <2> QED BY <1>6, <2>2 DEF TaskStarts
<1>7. CASE PlanSelected(c) \/ CodingStage(c)
  <2>1. t \in TaskIds
    BY <1>4, <1>7 DEF PlanSelected, CodingStage, AtStage
  <2>2. Publish(Crumb(observing, t) \o Progress(t) \o Crumb(observing, t))
    BY <1>7 DEF PlanSelected, CodingStage
  <2> HIDE DEF t
  <2>3. Crumb(observing, t) \in Seq(Told) /\ Progress(t) \in Seq(Told)
    BY <1>3, <1>5, <2>1
  <2>4. Crumb(observing, t) \o Progress(t) \o Crumb(observing, t) \in Seq(Told)
    BY <2>3, ConcatProperties
  <2> QED BY <2>2, <2>4
<1>8. CASE SpecialistStage(c)
  <2>1. t \in TaskIds
    BY <1>4, <1>8 DEF SpecialistStage, AtStage
  <2>2. Publish(Crumb(observing, t) \o Progress(t) \o Crumb(observing, t) \o Progress(t))
    BY <1>8 DEF SpecialistStage
  <2> HIDE DEF t
  <2>3. Crumb(observing, t) \in Seq(Told) /\ Progress(t) \in Seq(Told)
    BY <1>3, <1>5, <2>1
  <2>4. Crumb(observing, t) \o Progress(t) \o Crumb(observing, t) \in Seq(Told)
    BY <2>3, ConcatProperties
  <2>5. Crumb(observing, t) \o Progress(t) \o Crumb(observing, t) \o Progress(t) \in Seq(Told)
    BY <2>3, <2>4, ConcatProperties
  <2> QED BY <2>2, <2>5
<1>9. CASE GuardedStage(c)
  <2>1. t \in TaskIds
    BY <1>4, <1>9 DEF GuardedStage, AtStage
  <2>2. PICK observe \in BOOLEAN : Publish(Progress(t) \o Crumb(observe, t))
    BY <1>9 DEF GuardedStage
  <2> HIDE DEF t
  <2>3. Progress(t) \o Crumb(observe, t) \in Seq(Told)
    BY <1>3, <2>1, ConcatProperties
  <2> QED BY <2>2, <2>3
<1>10. CASE FinishRequest(c)
  <2>1. t \in TaskIds
    BY <1>4, <1>10 DEF FinishRequest, AtStage
  <2>2. PICK end : end \in {Progress(t), <<Event("finished", t)>>} /\ Publish(Crumb(observing, t) \o end)
    BY <1>10 DEF FinishRequest
  <2> HIDE DEF t
  <2>3. Crumb(observing, t) \in Seq(Told) /\ end \in Seq(Told)
    BY <1>3, <1>5, <2>1, <2>2
  <2>4. Crumb(observing, t) \o end \in Seq(Told)
    BY <2>3, ConcatProperties
  <2> QED BY <2>2, <2>4
<1>11. CASE RequestRaises(c)
  <2>1. t \in TaskIds
    BY <1>4, <1>11 DEF RequestRaises, AtStage
  <2>2. Publish(<<Event("finished", t)>>)
    BY <1>11 DEF RequestRaises
  <2> HIDE DEF t
  <2> QED BY <1>3, <2>1, <2>2
<1>12. CASE FurtherAsks(c)
  BY <1>12 DEF FurtherAsks
<1> QED BY <1>6, <1>7, <1>8, <1>9, <1>10, <1>11, <1>12 DEF RequestStage

LEMMA StagesKeepRequests ==
  ASSUME FeedTypes, NEW c \in Callers, RequestStage(c)
  PROVE  RequestTypes'
<1> DEFINE Statuses == {"none", "queued", "running", "waiting", "succeeded", "failed"}
           Words == {"none", "asked", "verified", "unverified", "raised"}
           OrderSteps == {"idle", "plan", "guarded", "further", "coded", "answer", "asked"}
<1>1. /\ taskNode \in [TaskIds -> Statuses] /\ told \in [TaskIds -> Words] /\ observing \in BOOLEAN
      /\ \A d \in Callers : order[d].step \in OrderSteps
      /\ DOMAIN order = Callers /\ \A d \in Callers : DOMAIN order[d] = OrderFields
  BY DEF FeedTypes, RequestTypes, FeedInv
<1>2. ASSUME NEW r, r.step \in OrderSteps, order' = [order EXCEPT ![c] = r]
      PROVE  \A d \in Callers : order'[d].step \in OrderSteps
  BY <1>1, <1>2
<1>3. ASSUME NEW step \in OrderSteps, NEW task, NEW needs, NEW agreed1,
             \/ Moves(c, [step |-> step]) \/ Moves(c, [step |-> step, needs |-> needs])
             \/ Moves(c, [step |-> step, task |-> task, confirmed |-> agreed1, needs |-> needs])
      PROVE  \A d \in Callers : order'[d].step \in OrderSteps
  BY <1>1, <1>3 DEF Moves, Over, OrderFields
<1>4. ASSUME NEW t, NEW status \in Statuses, taskNode' = [taskNode EXCEPT ![t] = status]
      PROVE  taskNode' \in [TaskIds -> Statuses]
  BY <1>1, <1>4
<1>5. ASSUME NEW t, NEW words \in Words, told' = [told EXCEPT ![t] = words]
      PROVE  told' \in [TaskIds -> Words]
  BY <1>1, <1>5
<1>6. \A d \in Callers : order'[d].step \in OrderSteps
  <2>1. ASSUME NEW t \in TaskIds, TaskStarts(c, t) PROVE \A d \in Callers : order'[d].step \in OrderSteps
    BY <1>3, <2>1 DEF TaskStarts
  <2>2. CASE PlanSelected(c) \/ GuardedStage(c) \/ FurtherAsks(c) \/ CodingStage(c) \/ SpecialistStage(c)
    BY <1>3, <2>2 DEF PlanSelected, GuardedStage, FurtherAsks, CodingStage, SpecialistStage
  <2>3. CASE FinishRequest(c) \/ RequestRaises(c)
    <3>1. NoOrder.step = "idle"
      BY DEF NoOrder
    <3>2. CASE RequestRaises(c)
      <4>1. order' = [order EXCEPT ![c] = NoOrder] /\ NoOrder.step \in OrderSteps
        BY <3>1, <3>2 DEF RequestRaises
      <4> HIDE DEF OrderSteps
      <4> QED BY <1>2, <4>1
    <3>3. CASE FinishRequest(c)
      <4> DEFINE latest == IF order[c].needs THEN "asked" ELSE "idle"
                 r == [NoOrder EXCEPT !.step = latest]
      <4>1. order' = [order EXCEPT ![c] = r]
        BY <3>3 DEF FinishRequest
      <4>2. latest \in OrderSteps
        OBVIOUS
      <4> HIDE DEF latest
      <4>3. r.step = latest
        BY DEF NoOrder
      <4>4. r.step \in OrderSteps
        BY <4>2, <4>3
      <4> HIDE DEF r, OrderSteps
      <4> QED BY <1>2, <4>1, <4>4
    <3> QED BY <2>3, <3>2, <3>3
  <2> QED BY <2>1, <2>2, <2>3 DEF RequestStage
<1>7. taskNode' \in [TaskIds -> Statuses]
  <2>1. CASE FinishRequest(c)
    <3>1. PICK good, needs : taskNode' = [taskNode EXCEPT ![TaskOf(c)] = LastStatus(TaskOf(c), needs, good)]
      BY <2>1 DEF FinishRequest
    <3>2. LastStatus(TaskOf(c), needs, good) \in Statuses
      BY DEF LastStatus
    <3> QED BY <1>4, <3>1, <3>2
  <2>2. CASE ~FinishRequest(c)
    BY <1>1, <1>4, <2>2 DEF RequestStage, TaskStarts, PlanSelected, GuardedStage, FurtherAsks, CodingStage,
                            SpecialistStage, RequestRaises
  <2> QED BY <2>1, <2>2
<1>8. told' \in [TaskIds -> Words]
  <2>1. CASE FinishRequest(c)
    BY <1>5, <2>1 DEF FinishRequest
  <2>2. CASE ~FinishRequest(c)
    BY <1>1, <1>5, <2>2 DEF RequestStage, TaskStarts, PlanSelected, GuardedStage, FurtherAsks, CodingStage,
                            SpecialistStage, RequestRaises
  <2> QED BY <2>1, <2>2
<1>9. observing' \in BOOLEAN
  BY <1>1 DEF RequestStage, TaskStarts, PlanSelected, GuardedStage, SetObserving, FurtherAsks, CodingStage,
              SpecialistStage, FinishRequest, RequestRaises
<1> QED BY <1>6, <1>7, <1>8, <1>9 DEF RequestTypes

(* What the page has read stays read when more is published. *)
LEMMA PageIsKept ==
  ASSUME PageTypes, UNCHANGED pageVars, published \in Nat, published' \in Nat, published <= published'
  PROVE  PageTypes'
<1>1. ASSUME NEW p \in Polling PROVE ReadingTyped(reading[p], published')
  <2>1. ReadingTyped(reading[p], published)
    BY DEF PageTypes
  <2> DEFINE list == reading[p].list
  <2>2. ReadOf(list, published)
    BY <2>1 DEF ReadingTyped
  <2> HIDE DEF list
  <2>3. ReadOf(list, published')
    <3>1. \A i \in 1..Len(list) : list[i] \in Notices
      BY <2>2, ElementOfSeq DEF ReadOf
    <3>2. \A i \in 1..Len(list) : list[i].n \in Nat
      BY <3>1 DEF Notices
    <3>3. \A i \in 1..Len(list) : list[i].n <= published'
      BY <2>2, <3>2 DEF ReadOf
    <3> QED BY <2>2, <3>3 DEF ReadOf
  <2>4. reading[p].since \in 0..published'
    BY <2>1 DEF ReadingTyped
  <2> QED BY <2>1, <2>3, <2>4 DEF ReadingTyped, list
<1>2. screen.seen \in 0..published' /\ screen.noted \in 0..published'
  BY DEF PageTypes
<1>3. screen' = screen /\ reading' = reading /\ frozen' = frozen
  BY DEF pageVars
<1>4. (\A p \in Polling : ReadingTyped(reading[p], published))'
  BY <1>1, <1>3 DEF ReadingTyped, ReadOf
<1> QED BY <1>2, <1>3, <1>4 DEF PageTypes

LEMMA StagesKeepFeed ==
  ASSUME FeedTypes, NEW c \in Callers, RequestStage(c), UNCHANGED pageVars
  PROVE  FeedTypes'
<1>1. FeedInv'
  BY TaskStartsKeeps, MidStagesKeep, EndStagesKeep DEF FeedTypes, RequestStage
<1>2. LogTypes' /\ published \in Nat /\ published' \in Nat /\ published <= published'
  <2>1. CASE UNCHANGED <<feed, published>>
    BY <2>1 DEF FeedTypes, LogTypes, FeedIsNumbered
  <2>2. ASSUME NEW es \in Seq(Told), Publish(es) PROVE LogTypes' /\ published <= published'
    BY <2>2, PublishKeepsLog DEF FeedTypes
  <2>3. LogTypes' /\ published \in Nat /\ published <= published'
    BY <2>1, <2>2, StagesPublish DEF FeedTypes, LogTypes, FeedIsNumbered
  <2> QED BY <2>3 DEF LogTypes, FeedIsNumbered
<1> QED BY <1>1, <1>2, StagesKeepRequests, PageIsKept DEF FeedTypes

(* The steps of a poll. *)
LEMMA PollKeepsFeed == ASSUME FeedTypes, NEW p \in Polling, PollFeed(p) PROVE FeedTypes'
<1>1. requestVars' = requestVars /\ frozen' = frozen
  BY DEF PollFeed
<1>2. FeedInv' /\ RequestTypes' /\ LogTypes' /\ published' = published
  BY <1>1 DEF requestVars, FeedTypes, FeedInv, TaskTellsOutcome, RequestTypes, LogTypes, FeedIsNumbered
<1>3. /\ published \in Nat /\ DOMAIN reading = Polling /\ \A q \in Polling : ReadingTyped(reading[q], published)
      /\ screen.seen \in 0..published /\ screen.noted \in 0..published /\ screen.births \subseteq TaskIds
      /\ DOMAIN screen = {"seen", "noted", "births", "follow", "box"} /\ frozen \in BOOLEAN /\ observing \in BOOLEAN
  BY DEF FeedTypes, LogTypes, FeedIsNumbered, RequestTypes, PageTypes
<1>4. ASSUME NEW r, ReadingTyped(r, published), reading' = [reading EXCEPT ![p] = r]
      PROVE  DOMAIN reading' = Polling /\ \A q \in Polling : ReadingTyped(reading'[q], published)
  <2>1. DOMAIN reading' = Polling /\ \A q \in Polling : reading'[q] = IF q = p THEN r ELSE reading[q]
    BY <1>3, <1>4
  <2>2. ASSUME NEW q \in Polling PROVE ReadingTyped(reading'[q], published)
    <3>1. CASE q = p
      BY <1>4, <2>1, <3>1
    <3>2. CASE q # p
      BY <1>3, <2>1, <3>2
    <3> QED BY <3>1, <3>2
  <2> QED BY <2>1, <2>2
<1>5. ASSUME DOMAIN reading' = Polling, \A q \in Polling : ReadingTyped(reading'[q], published),
             screen'.seen \in 0..published, screen'.noted \in 0..published, screen'.births \subseteq TaskIds,
             DOMAIN screen' = {"seen", "noted", "births", "follow", "box"}
      PROVE  FeedTypes'
  <2>1. (\A q \in Polling : ReadingTyped(reading[q], published))'
    BY <1>2, <1>5 DEF ReadingTyped, ReadOf
  <2>2. PageTypes'
    BY <1>1, <1>2, <1>3, <1>5, <2>1 DEF PageTypes
  <2> QED BY <1>2, <2>2 DEF FeedTypes
<1>6. ReadingTyped(NoPolling, published)
  BY <1>3, NothingIsRead
<1>7. ReadOf(<< >>, published)
  BY <1>6 DEF ReadingTyped, NoPolling
<1>8. CASE AskEvents(p) \/ AskState(p) \/ (TakeState(p) /\ reading[p].enabled) \/ Serve(p)
  <2>1. PICK r : ReadingTyped(r, published) /\ reading' = [reading EXCEPT ![p] = r]
    <3>1. CASE AskEvents(p) \/ (TakeState(p) /\ reading[p].enabled)
      <4>1. PICK n \in 0..published : Reads(p, [step |-> "asked", since |-> n])
        BY <1>3, <3>1 DEF AskEvents, TakeState
      <4> DEFINE r == Over([step |-> "asked", since |-> n], NoPolling)
      <4>2. r.since = n /\ r.list = << >> /\ r.enabled = FALSE /\ DOMAIN r = ReadingFields
        BY DEF Over, NoPolling, ReadingFields
      <4> HIDE DEF r
      <4>3. ReadingTyped(r, published)
        BY <1>7, <4>2 DEF ReadingTyped
      <4> QED BY <4>1, <4>3 DEF Reads, r
    <3>2. CASE AskState(p)
      <4> DEFINE r == Over([step |-> "state", enabled |-> observing], NoPolling)
      <4>1. r.since = 0 /\ r.list = << >> /\ r.enabled = observing /\ DOMAIN r = ReadingFields
        BY DEF Over, NoPolling, ReadingFields
      <4> HIDE DEF r
      <4>2. ReadingTyped(r, published)
        BY <1>3, <1>7, <4>1 DEF ReadingTyped
      <4> QED BY <3>2, <4>2 DEF AskState, Reads, r
    <3>3. CASE Serve(p)
      <4> DEFINE list == Since(reading[p].since)
                 r == Over([step |-> "served", list |-> list], NoPolling)
      <4>1. ReadOf(list, published)
        BY SinceIsRead DEF FeedTypes
      <4> HIDE DEF list
      <4>2. r.since = 0 /\ r.list = list /\ r.enabled = FALSE /\ DOMAIN r = ReadingFields
        BY DEF Over, NoPolling, ReadingFields
      <4> HIDE DEF r
      <4>3. r.since \in 0..published
        BY <1>3, <4>2
      <4>4. r.enabled \in BOOLEAN
        BY <4>2
      <4>5. ReadingTyped(r, published)
        BY <4>1, <4>2, <4>3, <4>4 DEF ReadingTyped
      <4> QED BY <3>3, <4>5 DEF Serve, Reads, r, list
    <3> QED BY <1>8, <3>1, <3>2, <3>3
  <2>2. screen' = screen
    BY <1>8 DEF AskEvents, AskState, TakeState, Serve
  <2> QED BY <1>3, <1>4, <1>5, <2>1, <2>2
<1>9. CASE TakeState(p) /\ ~reading[p].enabled
  <2>1. reading' = [reading EXCEPT ![p] = NoPolling] /\ screen' = [screen EXCEPT !.box = "hidden"]
    BY <1>9 DEF TakeState
  <2> QED BY <1>3, <1>4, <1>5, <1>6, <2>1
<1>10. CASE TakeEvents(p) \/ TakeWatched(p)
  <2> DEFINE list == reading[p].list
  <2>1. list \in Seq(Notices) /\ \A i \in 1..Len(list) : list[i].n <= published
    BY <1>3 DEF ReadingTyped, ReadOf
  <2> HIDE DEF list
  <2>2. ASSUME NEW n \in 0..published PROVE Later(n, list) \in 0..published
    <3>1. CASE list = << >>
      BY <3>1 DEF Later
    <3>2. CASE list # << >>
      <4>1. Len(list) \in Nat \ {0} /\ Len(list) \in 1..Len(list)
        BY <2>1, <3>2, EmptySeq
      <4>2. Last(list) \in Notices /\ Last(list).n <= published
        BY <2>1, <4>1, ElementOfSeq DEF Last
      <4>3. Last(list).n \in 0..published
        BY <1>3, <4>2 DEF Notices
      <4> QED BY <2>2, <4>3 DEF Later
    <3> QED BY <3>1, <3>2
  <2>3. ASSUME NEW kind PROVE Named(list, kind) \subseteq TaskIds
    <3>1. \A i \in 1..Len(list) : list[i] \in Notices
      BY <2>1, ElementOfSeq
    <3>2. DOMAIN list = 1..Len(list)
      BY <2>1, LenProperties
    <3>3. \A i \in DOMAIN list : list[i].task \in TaskIds
      BY <3>1, <3>2 DEF Notices
    <3> QED BY <3>3 DEF Named
  <2>4. reading' = [reading EXCEPT ![p] = NoPolling]
    BY <1>10 DEF TakeEvents, TakeWatched
  <2>5. /\ screen'.seen \in 0..published /\ screen'.noted \in 0..published /\ screen'.births \subseteq TaskIds
        /\ DOMAIN screen' = {"seen", "noted", "births", "follow", "box"}
    <3>1. CASE TakeEvents(p)
      <4>1. screen' = [screen EXCEPT !.seen = Later(screen.seen, list), !.births = screen.births \cup Named(list, "created")]
        BY <3>1 DEF TakeEvents, list
      <4> QED BY <1>3, <2>2, <2>3, <4>1
    <3>2. CASE TakeWatched(p)
      <4>1. PICK follow, box : screen' = [screen EXCEPT !.noted = Later(screen.noted, list), !.follow = follow, !.box = box]
        BY <3>2 DEF TakeWatched, list
      <4> QED BY <1>3, <2>2, <4>1
    <3> QED BY <1>10, <3>1, <3>2
  <2> QED BY <1>4, <1>5, <1>6, <2>4, <2>5
<1> QED BY <1>8, <1>9, <1>10 DEF PollFeed

LEMMA FeedTypesKept == ASSUME FeedTypes, [FeedNext]_feedVars PROVE FeedTypes'
<1>1. CASE UNCHANGED requestVars /\ UNCHANGED <<screen, reading>> /\ frozen' \in BOOLEAN
  <2>1. FeedInv' /\ RequestTypes' /\ LogTypes'
    BY <1>1 DEF requestVars, FeedTypes, FeedInv, TaskTellsOutcome, RequestTypes, LogTypes, FeedIsNumbered
  <2>2. PageTypes'
    BY <1>1 DEF requestVars, FeedTypes, PageTypes, ReadingTyped, ReadOf
  <2> QED BY <2>1, <2>2 DEF FeedTypes
<1>2. CASE Freeze
  BY <1>1, <1>2 DEF Freeze, FeedTypes, PageTypes
<1>3. CASE UNCHANGED feedVars
  BY <1>1, <1>3 DEF feedVars, pageVars, FeedTypes, PageTypes
<1> QED BY <1>2, <1>3, StagesKeepFeed, PollKeepsFeed DEF FeedNext

-----------------------------------------------------------------------------
(* The types of the phones, with any number of threads *)

OpRecords ==
  [kind : OpKinds, at : OpSteps, phones : SUBSET Phones, heard : [Phones -> PhoneStates],
   asked : 0..MaxTaps, sent : 0..MaxTaps, by : Phones \cup {nobody}, away : BOOLEAN]

(* The phone that a mirror is started for, or that notifications are read of. *)
PhoneOp(r, ports) ==
  /\ r.kind = "screen" /\ r.at \in {"start", "launch"} => r.by \in Phones
  /\ r.kind = "notifications" =>
       \E d \in Phones : r.phones = {d} /\ (r.at \in {"advance", "forward", "request"} => ports[d] # 0)
DeviceOps == op \in [Operators -> OpRecords] /\ \A o \in Operators : PhoneOp(op[o], port)

(* A phone gets a port once, from one thread, and the next port is counted after that. *)
Settled == {d \in Phones : port[d] # 0 /\ \A o \in Operators : Advancing(o) => op[o].phones # {d}}
PortsGiven ==
  /\ port \in [Phones -> Ports \cup {0}] /\ forward \in [Ports -> Phones \cup {nobody}]
  /\ \A o, q \in Operators : Advancing(o) /\ Advancing(q) /\ op[o].phones = op[q].phones => o = q
  /\ nextPort = Cardinality(Settled) + 1

Listing ==
  /\ plugged \in [Phones -> PhoneStates] /\ registered \in [Phones -> PhoneStates]
  /\ selected \in ListedPhones \cup {nobody}
Showing == mirror \in [Phones -> {"none", "runs", "ended"}] /\ orphans \subseteq Phones
DeviceTypes == CommandInv /\ DeviceOps /\ PortsGiven /\ Listing /\ Showing

LEMMA SettledIsFinite == Settled \subseteq Phones /\ IsFiniteSet(Settled) /\ Cardinality(Settled) \in Nat
<1>1. Settled \subseteq Phones
  BY DEF Settled
<1> QED BY <1>1, PhonesAssumption, FS_Subset, FS_CardinalityType

LEMMA DeviceTypesAre == ASSUME DeviceTypes PROVE DevicesTypeOK
<1>1. nextPort \in 1..(Cardinality(Phones) + 1)
  <2>1. Cardinality(Settled) <= Cardinality(Phones) /\ Cardinality(Phones) \in Nat /\ Cardinality(Settled) \in Nat
    BY SettledIsFinite, PhonesAssumption, FS_Subset, FS_CardinalityType
  <2> QED BY <2>1 DEF DeviceTypes, PortsGiven
<1>2. op \in [Operators -> OpRecords]
  BY DEF DeviceTypes, DeviceOps
<1> QED BY <1>1, <1>2 DEF DeviceTypes, PortsGiven, Listing, Showing, DevicesTypeOK, OpRecords

LEMMA RestIsTyped == Rest \in OpRecords /\ Absent \in [Phones -> PhoneStates]
<1>1. Absent \in [Phones -> PhoneStates]
  BY DEF Absent, PhoneStates
<1> QED BY <1>1, PhonesAssumption DEF Rest, OpRecords, OpKinds, OpSteps

LEMMA DeviceTypesStart == ASSUME DevicesInit PROVE DeviceTypes
<1>1. DeviceOps
  <2>1. PhoneOp(Rest, port)
    BY DEF Rest, PhoneOp
  <2>2. op = [o \in Operators |-> Rest]
    BY DEF DevicesInit
  <2> QED BY <2>1, <2>2, RestIsTyped DEF DeviceOps
<1>2. PortsGiven
  <2>1. port = [d \in Phones |-> 0] /\ forward = [p \in Ports |-> nobody] /\ nextPort = 1
    BY DEF DevicesInit
  <2>2. \A o \in Operators : ~Advancing(o)
    BY DEF DevicesInit, Rest, Advancing, At
  <2>3. Settled = {}
    BY <2>1 DEF Settled
  <2>4. Cardinality(Settled) = 0
    BY <2>3, FS_EmptySet
  <2> QED BY <2>1, <2>2, <2>4 DEF PortsGiven
<1>3. Listing
  <2>1. plugged \in [Phones -> PhoneStates] /\ registered \in {plugged, Absent}
    BY DEF DevicesInit, Answers
  <2>2. selected \in ListedPhones \cup {nobody}
    BY DEF DevicesInit
  <2> QED BY <2>1, <2>2, RestIsTyped DEF Listing
<1>4. Showing
  BY DEF DevicesInit, Showing
<1> QED BY <1>1, <1>2, <1>3, <1>4, CommandsStart DEF DeviceTypes

(* It is enough to look at the thread that takes the step, and while no port is
   given away, at nothing else. *)
OnlySteps(o) == op' = [op EXCEPT ![o] = op'[o]]

LEMMA ThreadIsTyped ==
  ASSUME DeviceOps, NEW o \in Operators, OnlySteps(o), op'[o] \in OpRecords, PhoneOp(op'[o], port'),
         \A d \in Phones : port[d] # 0 => port'[d] # 0
  PROVE  DeviceOps'
<1>1. op' \in [Operators -> OpRecords] /\ \A q \in Operators : q # o => op'[q] = op[q]
  <2> DEFINE r == op'[o]
  <2>1. r \in OpRecords /\ op' = [op EXCEPT ![o] = r]
    BY DEF OnlySteps
  <2> HIDE DEF r
  <2> QED BY <2>1 DEF DeviceOps
<1>3. ASSUME NEW q \in Operators PROVE PhoneOp(op'[q], port')
  <2>1. CASE q = o
    BY <2>1
  <2>2. CASE q # o
    <3>1. op'[q] = op[q] /\ PhoneOp(op[q], port)
      BY <1>1, <2>2 DEF DeviceOps
    <3> QED BY <3>1 DEF PhoneOp
  <2> QED BY <2>1, <2>2
<1> QED BY <1>1, <1>3 DEF DeviceOps, PhoneOp

LEMMA PortsStayGiven ==
  ASSUME PortsGiven, port' = port, nextPort' = nextPort, forward' \in [Ports -> Phones \cup {nobody}],
         \A q \in Operators : Advancing(q)' <=> Advancing(q),
         \A q \in Operators : Advancing(q) => op'[q].phones = op[q].phones
  PROVE  PortsGiven'
<1>1. Settled' = Settled
  BY DEF Settled
<1>2. (\A o, q \in Operators : Advancing(o) /\ Advancing(q) /\ op[o].phones = op[q].phones => o = q)'
  BY DEF PortsGiven
<1> QED BY <1>1, <1>2 DEF PortsGiven

(* Every step but those that give a port away. *)
LEMMA PlainStep ==
  ASSUME DeviceTypes, NEW o \in Operators, OnlySteps(o), op'[o] \in OpRecords, PhoneOp(op'[o], port),
         ~Advancing(o), ~Advancing(o)', UNCHANGED portVars, forward' \in [Ports -> Phones \cup {nobody}]
  PROVE  DeviceOps' /\ PortsGiven'
<1>1. port' = port /\ nextPort' = nextPort
  BY DEF portVars
<1>2. DeviceOps'
  BY <1>1, ThreadIsTyped DEF DeviceTypes
<1>3. ASSUME NEW q \in Operators PROVE (Advancing(q)' <=> Advancing(q)) /\ (Advancing(q) => op'[q].phones = op[q].phones)
  <2>1. CASE q = o
    BY <2>1
  <2>2. CASE q # o
    <3>1. op'[q] = op[q]
      BY <2>2 DEF OnlySteps, DeviceTypes, DeviceOps
    <3> QED BY <3>1 DEF Advancing, At
  <2> QED BY <2>1, <2>2
<1>4. PortsGiven'
  BY <1>1, <1>3, PortsStayGiven DEF DeviceTypes
<1> QED BY <1>2, <1>4

LEMMA BeginIsPlain ==
  ASSUME DeviceTypes, NEW o \in Operators, NEW k \in OpKinds, NEW step \in OpSteps, NEW S \in SUBSET Phones,
         NEW n \in 0..MaxTaps, Begins(o, k, step, S, n), UNCHANGED <<forward, portVars>>,
         k = "screen" => step = "look",
         k = "notifications" => step = "port" /\ \E d \in Phones : S = {d}
  PROVE  DeviceOps' /\ PortsGiven'
<1> DEFINE r == [Rest EXCEPT !.kind = k, !.at = step, !.phones = S, !.asked = n]
<1>1. r \in OpRecords
  BY RestIsTyped DEF OpRecords
<1>2. r.kind = k /\ r.at = step /\ r.phones = S
  BY DEF Rest
<1>3. DOMAIN op = Operators /\ op' = [op EXCEPT ![o] = r] /\ op[o].at \in {"done", "failed"}
  BY DEF DeviceTypes, DeviceOps, Begins, Idle
<1> HIDE DEF r
<1>4. OnlySteps(o) /\ op'[o] = r
  BY <1>3 DEF OnlySteps
<1>5. PhoneOp(op'[o], port)
  BY <1>2, <1>4 DEF PhoneOp
<1>6. ~Advancing(o) /\ ~Advancing(o)'
  BY <1>2, <1>3, <1>4 DEF Advancing, At
<1>7. forward' \in [Ports -> Phones \cup {nobody}] /\ UNCHANGED portVars
  BY DEF DeviceTypes, PortsGiven
<1> QED BY <1>1, <1>4, <1>5, <1>6, <1>7, PlainStep


(* A thread that goes on. *)
LEMMA MoveIsPlain ==
  ASSUME DeviceTypes, NEW o \in Operators, NEW step \in OpSteps, NEW S \in SUBSET Phones,
         NEW by \in Phones \cup {nobody},
         \/ op' = [op EXCEPT ![o].at = step] \/ op' = [op EXCEPT ![o].at = step, ![o].by = by]
         \/ op' = [op EXCEPT ![o].at = step, ![o].phones = S, ![o].by = by]
  PROVE  /\ OnlySteps(o) /\ op'[o] \in OpRecords /\ op'[o].kind = op[o].kind /\ op'[o].at = step
         /\ op'[o].by \in {op[o].by, by} /\ op'[o].phones \in {op[o].phones, S}
<1>1. op \in [Operators -> OpRecords]
  BY DEF DeviceTypes, DeviceOps
<1>2. ASSUME NEW r, r \in OpRecords, op' = [op EXCEPT ![o] = r] PROVE OnlySteps(o) /\ op'[o] = r
  BY <1>1, <1>2 DEF OnlySteps
<1>3. PICK r : r \in {[op[o] EXCEPT !.at = step], [op[o] EXCEPT !.at = step, !.by = by],
                      [op[o] EXCEPT !.at = step, !.phones = S, !.by = by]}
               /\ op' = [op EXCEPT ![o] = r]
  OBVIOUS
<1>4. r \in OpRecords
  BY <1>1, <1>3 DEF OpRecords
<1>5. r.kind = op[o].kind /\ r.at = step /\ r.by \in {op[o].by, by} /\ r.phones \in {op[o].phones, S}
  BY <1>1, <1>3 DEF OpRecords
<1> HIDE DEF OnlySteps
<1> QED BY <1>2, <1>3, <1>4, <1>5

LEMMA OpIsTyped ==
  ASSUME DeviceTypes, NEW o \in Operators
  PROVE  /\ op[o] \in OpRecords /\ PhoneOp(op[o], port) /\ op[o].phones \subseteq Phones
         /\ op[o].by \in Phones \cup {nobody} /\ op[o].heard \in [Phones -> PhoneStates]
BY DEF DeviceTypes, DeviceOps, OpRecords

(* A thread that goes on with something else than notifications. *)
LEMMA OtherMoveIsPlain ==
  ASSUME DeviceTypes, NEW o \in Operators, op[o].kind # "notifications", UNCHANGED <<forward, portVars>>,
         OnlySteps(o), op'[o] \in OpRecords, op'[o].kind = op[o].kind,
         op[o].kind = "screen" /\ op'[o].at \in {"start", "launch"} => op'[o].by \in Phones
  PROVE  DeviceOps' /\ PortsGiven'
<1>1. PhoneOp(op'[o], port) /\ ~Advancing(o) /\ ~Advancing(o)'
  BY DEF PhoneOp, Advancing, At
<1>2. forward' \in [Ports -> Phones \cup {nobody}] /\ UNCHANGED portVars
  BY DEF DeviceTypes, PortsGiven
<1> QED BY <1>1, <1>2, PlainStep

LEMMA RegistryKeepsTypes == ASSUME DeviceTypes, NEW o \in Operators, RegistryStep(o) PROVE DeviceTypes'
<1>1. UNCHANGED <<forward, portVars, plugged>> /\ Showing'
  BY DEF RegistryStep, RefreshDevices, WriteDevices, SelectDevice, adbVars, mirrorVars, DeviceTypes, Showing
<1>2. DeviceOps' /\ PortsGiven'
  <2>1. CASE RefreshDevices(o)
    <3>1. PICK heard \in Answers :
            Idle(o) /\ op' = [op EXCEPT ![o] = [Rest EXCEPT !.kind = "refresh", !.at = "write", !.heard = heard]]
      BY <2>1 DEF RefreshDevices
    <3> DEFINE r == [Rest EXCEPT !.kind = "refresh", !.at = "write", !.heard = heard]
    <3>2. heard \in [Phones -> PhoneStates]
      BY RestIsTyped DEF Answers, DeviceTypes, Listing
    <3>3. r \in OpRecords
      BY <3>2, RestIsTyped DEF OpRecords, OpKinds, OpSteps
    <3>4. r.kind = "refresh"
      BY DEF Rest
    <3>5. op' = [op EXCEPT ![o] = r] /\ op \in [Operators -> OpRecords] /\ op[o].at \in {"done", "failed"}
      BY <3>1 DEF DeviceTypes, DeviceOps, Idle
    <3> HIDE DEF r
    <3>6. OnlySteps(o) /\ op'[o] = r
      BY <3>5 DEF OnlySteps
    <3>7. PhoneOp(op'[o], port) /\ ~Advancing(o) /\ ~Advancing(o)'
      BY <3>4, <3>5, <3>6 DEF PhoneOp, Advancing, At
    <3>8. forward' \in [Ports -> Phones \cup {nobody}]
      BY <1>1 DEF DeviceTypes, PortsGiven
    <3> QED BY <1>1, <3>3, <3>6, <3>7, <3>8, PlainStep
  <2>2. CASE WriteDevices(o)
    <3>1. op[o].kind = "refresh" /\ op' = [op EXCEPT ![o].at = "done"] /\ "done" \in OpSteps
      BY <2>2 DEF WriteDevices, At, GoesOn, OpSteps
    <3>2. OnlySteps(o) /\ op'[o] \in OpRecords /\ op'[o].kind = op[o].kind
      BY <3>1, MoveIsPlain
    <3> QED BY <1>1, <3>1, <3>2, OtherMoveIsPlain
  <2>3. CASE UNCHANGED op
    BY <1>1, <2>3 DEF portVars, DeviceTypes, DeviceOps, PhoneOp, PortsGiven, Settled, Advancing, At
  <2> QED BY <2>1, <2>2, <2>3 DEF RegistryStep, SelectDevice
<1>3. Listing'
  <2>1. CASE RefreshDevices(o)
    BY <1>1, <2>1 DEF RefreshDevices, registryVars, DeviceTypes, Listing, ListedPhones
  <2>2. CASE WriteDevices(o)
    <3>1. registered' \in [Phones -> PhoneStates]
      BY <2>2, OpIsTyped DEF WriteDevices
    <3>2. selected' \in ListedPhones' \cup {nobody}
      BY <2>2 DEF WriteDevices, ListedPhones
    <3> QED BY <1>1, <3>1, <3>2 DEF DeviceTypes, Listing
  <2>3. ASSUME NEW d \in Phones, SelectDevice(d) PROVE Listing'
    BY <1>1, <2>3 DEF SelectDevice, DeviceTypes, Listing, ListedPhones
  <2> QED BY <2>1, <2>2, <2>3 DEF RegistryStep
<1> QED BY <1>1, <1>2, <1>3, RegistryKeepsCommands DEF DeviceTypes

LEMMA ListingStays == ASSUME Listing, UNCHANGED <<plugged, registryVars>> PROVE Listing'
BY DEF Listing, ListedPhones, registryVars

LEMMA ScreensKeepTypes == ASSUME DeviceTypes, NEW o \in Operators, ScreenStep(o) PROVE DeviceTypes'
<1>1. UNCHANGED <<forward, portVars, plugged, registryVars>>
  BY DEF ScreenStep, ViewScreens, LookAtScreen, StartMirror, LaunchMirror, adbVars
<1>2. op[o] \in OpRecords /\ op[o].phones \subseteq Phones /\ PhoneOp(op[o], port)
  BY OpIsTyped
<1>3. {"done", "look", "start", "launch"} \subseteq OpSteps /\ "screen" \in OpKinds /\ 0 \in 0..MaxTaps
  BY PhonesAssumption DEF OpSteps, OpKinds
<1>4. ASSUME NEW S \in SUBSET Phones, NextScreen(o, S), op[o].kind = "screen" PROVE DeviceOps' /\ PortsGiven'
  <2> DEFINE step == IF S = {} THEN "done" ELSE "look"
  <2>1. step \in {"done", "look"} /\ op' = [op EXCEPT ![o].at = step, ![o].phones = S, ![o].by = nobody]
    BY <1>4 DEF NextScreen
  <2> HIDE DEF step
  <2>2. step \in OpSteps /\ nobody \in Phones \cup {nobody}
    BY <1>3, <2>1
  <2>3. OnlySteps(o) /\ op'[o] \in OpRecords /\ op'[o].kind = op[o].kind /\ op'[o].at = step
    BY <2>1, <2>2, MoveIsPlain
  <2> QED BY <1>1, <1>4, <2>1, <2>3, OtherMoveIsPlain
<1>5. ASSUME NEW S, ViewScreens(o, S) PROVE DeviceTypes'
  <2>1. S \in SUBSET Phones /\ Begins(o, "screen", "look", S, 0) /\ mirrorVars' = mirrorVars
    BY <1>5 DEF ViewScreens, ListedPhones
  <2>2. DeviceOps' /\ PortsGiven'
    <3>1. "look" \in OpSteps
      BY <1>3
    <3> QED BY <1>1, <1>3, <2>1, <3>1, BeginIsPlain
  <2>3. Showing'
    BY <2>1 DEF mirrorVars, DeviceTypes, Showing
  <2> QED BY <1>1, <2>2, <2>3, ListingStays, ScreensKeepCommands DEF DeviceTypes
<1>6. CASE LookAtScreen(o)
  <2>1. op[o].kind = "screen" /\ mirrorVars' = mirrorVars
    BY <1>6 DEF LookAtScreen, At
  <2>2. PICK d \in op[o].phones :
          op' = [op EXCEPT ![o].at = "start", ![o].by = d] \/ NextScreen(o, op[o].phones \ {d})
    BY <1>6 DEF LookAtScreen
  <2>3. DeviceOps' /\ PortsGiven'
    <3>1. CASE op' = [op EXCEPT ![o].at = "start", ![o].by = d]
      <4>1. d \in Phones /\ d \in Phones \cup {nobody} /\ "start" \in OpSteps
        BY <1>2, <1>3
      <4>2. op'[o].by = d
        BY <1>2, <3>1 DEF DeviceTypes, DeviceOps, OpRecords
      <4>3. OnlySteps(o) /\ op'[o] \in OpRecords /\ op'[o].kind = op[o].kind
        BY <3>1, <4>1, MoveIsPlain
      <4> QED BY <1>1, <2>1, <4>1, <4>2, <4>3, OtherMoveIsPlain
    <3>2. CASE NextScreen(o, op[o].phones \ {d})
      BY <1>2, <1>4, <2>1, <3>2
    <3> QED BY <2>2, <3>1, <3>2
  <2>4. Showing'
    BY <2>1 DEF mirrorVars, DeviceTypes, Showing
  <2> QED BY <1>1, <2>3, <2>4, ListingStays, ScreensKeepCommands DEF DeviceTypes
<1>7. CASE StartMirror(o) \/ LaunchMirror(o)
  <2>1. op[o].kind = "screen" /\ op[o].by \in Phones
    BY <1>2, <1>7 DEF StartMirror, LaunchMirror, At, PhoneOp
  <2>2. NextScreen(o, op[o].phones \ {op[o].by}) \/ GoesOn(o, "launch")
    BY <1>7 DEF StartMirror, LaunchMirror
  <2>3. DeviceOps' /\ PortsGiven'
    <3>1. CASE NextScreen(o, op[o].phones \ {op[o].by})
      BY <1>2, <1>4, <2>1, <3>1
    <3>2. CASE GoesOn(o, "launch")
      <4>1. op' = [op EXCEPT ![o].at = "launch"] /\ "launch" \in OpSteps
        BY <1>3, <3>2 DEF GoesOn
      <4>2. OnlySteps(o) /\ op'[o] \in OpRecords /\ op'[o].kind = op[o].kind
        BY <4>1, MoveIsPlain
      <4>3. op'[o].by = op[o].by
        BY <1>2, <4>1 DEF DeviceTypes, DeviceOps, OpRecords
      <4> QED BY <1>1, <2>1, <4>2, <4>3, OtherMoveIsPlain
    <3> QED BY <2>2, <3>1, <3>2
  <2>4. Showing'
    <3>1. CASE StartMirror(o)
      BY <2>1, <3>1 DEF StartMirror, DeviceTypes, Showing
    <3>2. CASE LaunchMirror(o)
      BY <2>1, <3>2 DEF LaunchMirror, mirrorVars, DeviceTypes, Showing
    <3> QED BY <1>7, <3>1, <3>2
  <2> QED BY <1>1, <2>3, <2>4, ListingStays, ScreensKeepCommands DEF DeviceTypes
<1> QED BY <1>5, <1>6, <1>7 DEF ScreenStep

LEMMA CommandsKeepTypes == ASSUME DeviceTypes, NEW o \in Operators, CommandStep(o) PROVE DeviceTypes'
<1>1. UNCHANGED <<forward, portVars, plugged, registryVars, mirrorVars>>
  BY DEF CommandStep, LookAtPhone, RunCommand, Recheck, SendCommand, Automate, adbVars
<1>2. op[o] \in OpRecords /\ MaxTaps \in Nat \ {0} /\ 1 \in 0..MaxTaps
  BY OpIsTyped, PhonesAssumption
<1>3. DeviceOps' /\ PortsGiven'
  <2>1. ASSUME NEW d \in Phones, SendCommand(o, d) PROVE DeviceOps' /\ PortsGiven'
    <3>1. Begins(o, "command", "look", {d}, 1) /\ "command" \in OpKinds /\ "look" \in OpSteps /\ {d} \in SUBSET Phones
      BY <2>1 DEF SendCommand, OpKinds, OpSteps
    <3> QED BY <1>1, <1>2, <3>1, BeginIsPlain
  <2>2. ASSUME NEW d \in Phones, NEW n \in 1..MaxTaps, Automate(o, d, n) PROVE DeviceOps' /\ PortsGiven'
    <3>1. Begins(o, "automate", "state", {d}, n) /\ "automate" \in OpKinds /\ "state" \in OpSteps /\ {d} \in SUBSET Phones
      BY <2>2 DEF Automate, OpKinds, OpSteps
    <3>2. n \in 0..MaxTaps
      BY <1>2
    <3> QED BY <1>1, <3>1, <3>2, BeginIsPlain
  <2>3. ASSUME op[o].kind \in {"command", "automate"}, NEW step \in OpSteps, op' = [op EXCEPT ![o].at = step]
        PROVE  DeviceOps' /\ PortsGiven'
    <3>1. OnlySteps(o) /\ op'[o] \in OpRecords /\ op'[o].kind = op[o].kind
      BY <2>3, MoveIsPlain
    <3> QED BY <1>1, <2>3, <3>1, OtherMoveIsPlain
  <2>4. CASE LookAtPhone(o) \/ Recheck(o)
    <3>1. PICK step \in {"failed", "look", "send", "done"} : op' = [op EXCEPT ![o].at = step]
      BY <2>4 DEF LookAtPhone, Recheck, GoesOn
    <3>2. op[o].kind \in {"command", "automate"} /\ step \in OpSteps
      BY <2>4 DEF LookAtPhone, Recheck, At, OpSteps
    <3> QED BY <2>3, <3>1, <3>2
  <2>5. CASE RunCommand(o)
    <3>1. op[o].kind \in {"command", "automate"} /\ op[o].at = "send" /\ op[o].sent < op[o].asked
      BY <2>5 DEF RunCommand, At, DeviceTypes, CommandInv, CommandOp
    <3>2. CASE GoesOn(o, "failed")
      <4>1. "failed" \in OpSteps
        BY DEF OpSteps
      <4> QED BY <2>3, <3>1, <3>2, <4>1 DEF GoesOn
    <3>3. CASE op' = [op EXCEPT ![o].at = AfterCommand(o), ![o].sent = @ + 1]
      <4>1. AfterCommand(o) \in {"look", "recheck", "done"} /\ AfterCommand(o) \in OpSteps
        BY DEF AfterCommand, OpSteps
      <4> DEFINE next == AfterCommand(o)
                 r == [op[o] EXCEPT !.at = next, !.sent = op[o].sent + 1]
      <4>2. next \in OpSteps
        BY <4>1
      <4>3. op' = [op EXCEPT ![o] = r]
        BY <3>3
      <4> HIDE DEF next
      <4>4. op[o].sent + 1 \in 0..MaxTaps
        BY <1>2, <3>1 DEF OpRecords
      <4>5. r \in OpRecords
        BY <1>2, <4>2, <4>4 DEF OpRecords
      <4>6. r.kind = op[o].kind
        BY <1>2 DEF OpRecords
      <4> HIDE DEF r
      <4>7. OnlySteps(o) /\ op'[o] = r
        BY <4>3 DEF OnlySteps, DeviceTypes, DeviceOps
      <4> QED BY <1>1, <3>1, <4>5, <4>6, <4>7, OtherMoveIsPlain
    <3> QED BY <2>5, <3>2, <3>3 DEF RunCommand, AfterError
  <2> QED BY <2>1, <2>2, <2>4, <2>5 DEF CommandStep
<1>4. Showing'
  BY <1>1 DEF mirrorVars, DeviceTypes, Showing
<1> QED BY <1>1, <1>3, <1>4, ListingStays, CommandsKeepCommands DEF DeviceTypes

(* The phone that notifications are read of. *)
LEMMA ReadPhone ==
  ASSUME DeviceTypes, NEW o \in Operators, op[o].kind = "notifications"
  PROVE  /\ Phone(o) \in Phones /\ op[o].phones = {Phone(o)}
         /\ op[o].at \in {"advance", "forward", "request"} => port[Phone(o)] # 0
<1>1. PICK d \in Phones : op[o].phones = {d} /\ (op[o].at \in {"advance", "forward", "request"} => port[d] # 0)
  BY OpIsTyped DEF PhoneOp
<1>2. Phone(o) = d
  BY <1>1 DEF Phone
<1> QED BY <1>1, <1>2

LEMMA TakePortKeepsTypes ==
  ASSUME DeviceTypes, NEW o \in Operators, TakePort(o), port[Phone(o)] = 0
  PROVE  DeviceOps' /\ PortsGiven'
<1> DEFINE d == Phone(o)
<1>1. op[o].kind = "notifications" /\ op[o].at = "port" /\ forward' = forward /\ nextPort' = nextPort
      /\ port' = [port EXCEPT ![d] = nextPort] /\ op' = [op EXCEPT ![o].at = "advance"]
  BY DEF TakePort, At, GoesOn, adbVars
<1>2. d \in Phones /\ op[o].phones = {d} /\ port[d] = 0
  BY <1>1, ReadPhone
<1> HIDE DEF d
<1>3. port \in [Phones -> Ports \cup {0}] /\ nextPort = Cardinality(Settled) + 1
      /\ \A p, q \in Operators : Advancing(p) /\ Advancing(q) /\ op[p].phones = op[q].phones => p = q
  BY DEF DeviceTypes, PortsGiven
<1>4. nextPort \in Ports
  <2>1. d \notin Settled
    BY <1>2 DEF Settled
  <2>2. Cardinality(Settled \cup {d}) = Cardinality(Settled) + 1
    BY <2>1, SettledIsFinite, FS_AddElement
  <2>3. Settled \cup {d} \subseteq Phones
    BY <1>2, SettledIsFinite
  <2>4. Cardinality(Settled \cup {d}) <= Cardinality(Phones) /\ Cardinality(Phones) \in Nat
    BY <2>3, PhonesAssumption, FS_Subset, FS_CardinalityType
  <2> QED BY <1>3, <2>2, <2>4, SettledIsFinite DEF Ports
<1>5. nextPort # 0
  BY <1>3, SettledIsFinite
<1>6. /\ port' \in [Phones -> Ports \cup {0}] /\ port'[d] # 0
      /\ \A e \in Phones : e # d => port'[e] = port[e]
  BY <1>1, <1>2, <1>3, <1>4, <1>5
<1>7. "advance" \in OpSteps /\ nobody \in Phones \cup {nobody}
  BY DEF OpSteps
<1>8. OnlySteps(o) /\ op'[o] \in OpRecords /\ op'[o].kind = "notifications" /\ op'[o].at = "advance"
  BY <1>1, <1>7, MoveIsPlain
<1>9. op'[o].phones = {d} /\ \A q \in Operators : q # o => op'[q] = op[q]
  BY <1>1, <1>2 DEF DeviceTypes, DeviceOps, OpRecords
<1>10. DeviceOps'
  <2>1. PhoneOp(op'[o], port')
    BY <1>2, <1>6, <1>8, <1>9 DEF PhoneOp
  <2>2. \A e \in Phones : port[e] # 0 => port'[e] # 0
    BY <1>2, <1>6
  <2> QED BY <1>8, <2>1, <2>2, ThreadIsTyped DEF DeviceTypes
<1>11. Advancing(o)' /\ ~Advancing(o) /\ \A q \in Operators : q # o => (Advancing(q)' <=> Advancing(q))
  BY <1>1, <1>8, <1>9 DEF Advancing, At
<1>12. \A q \in Operators : Advancing(q) => op[q].phones # {d}
  <2> TAKE q \in Operators
  <2>1. SUFFICES ASSUME Advancing(q) PROVE op[q].phones # {d}
    OBVIOUS
  <2>2. op[q].kind = "notifications" /\ op[q].at = "advance"
    BY <2>1 DEF Advancing, At
  <2>3. op[q].phones = {Phone(q)} /\ port[Phone(q)] # 0
    BY <2>2, ReadPhone
  <2> QED BY <1>2, <2>3
<1>13. Settled' = Settled
  <2>1. ASSUME NEW e \in Phones, e # d
        PROVE  (\A q \in Operators : Advancing(q)' => op'[q].phones # {e}) <=> \A q \in Operators : Advancing(q) => op[q].phones # {e}
    BY <1>9, <1>11, <2>1
  <2>2. \A e \in Phones : e \in Settled' <=> e \in Settled
    <3> TAKE e \in Phones
    <3>1. CASE e = d
      <4>1. d \notin Settled
        BY <1>2 DEF Settled
      <4>2. d \notin Settled'
        BY <1>9, <1>11 DEF Settled
      <4> QED BY <3>1, <4>1, <4>2
    <3>2. CASE e # d
      BY <1>6, <2>1, <3>2 DEF Settled
    <3> QED BY <3>1, <3>2
  <2> QED BY <2>2 DEF Settled
<1>14. (\A p, q \in Operators : Advancing(p) /\ Advancing(q) /\ op[p].phones = op[q].phones => p = q)'
  <2>1. ASSUME NEW p \in Operators, NEW q \in Operators, Advancing(p)', Advancing(q)', op'[p].phones = op'[q].phones
        PROVE  p = q
    <3>1. CASE p = o \/ q = o
      BY <1>9, <1>11, <1>12, <2>1, <3>1
    <3>2. CASE p # o /\ q # o
      BY <1>3, <1>9, <1>11, <2>1, <3>2
    <3> QED BY <3>1, <3>2
  <2> QED BY <2>1
<1>15. forward' \in [Ports -> Phones \cup {nobody}] /\ nextPort' = Cardinality(Settled') + 1
  BY <1>1, <1>3, <1>13 DEF DeviceTypes, PortsGiven
<1> QED BY <1>6, <1>10, <1>14, <1>15 DEF PortsGiven

LEMMA AdvancePortKeepsTypes ==
  ASSUME DeviceTypes, NEW o \in Operators, AdvancePort(o)
  PROVE  DeviceOps' /\ PortsGiven'
<1> DEFINE d == Phone(o)
<1>1. op[o].kind = "notifications" /\ op[o].at = "advance" /\ forward' = forward /\ nextPort' = nextPort + 1
      /\ port' = port /\ op' = [op EXCEPT ![o].at = "forward"] /\ Advancing(o)
  BY DEF AdvancePort, At, GoesOn, adbVars, Advancing
<1>2. d \in Phones /\ op[o].phones = {d} /\ port[d] # 0
  BY <1>1, ReadPhone
<1> HIDE DEF d
<1>3. nextPort = Cardinality(Settled) + 1
      /\ \A p, q \in Operators : Advancing(p) /\ Advancing(q) /\ op[p].phones = op[q].phones => p = q
  BY DEF DeviceTypes, PortsGiven
<1>4. "forward" \in OpSteps /\ nobody \in Phones \cup {nobody}
  BY DEF OpSteps
<1>5. OnlySteps(o) /\ op'[o] \in OpRecords /\ op'[o].kind = "notifications" /\ op'[o].at = "forward"
  BY <1>1, <1>4, MoveIsPlain
<1>6. op'[o].phones = {d} /\ \A q \in Operators : q # o => op'[q] = op[q]
  BY <1>1, <1>2 DEF DeviceTypes, DeviceOps, OpRecords
<1>7. DeviceOps'
  <2>1. PhoneOp(op'[o], port')
    BY <1>1, <1>2, <1>5, <1>6 DEF PhoneOp
  <2> QED BY <1>1, <1>5, <2>1, ThreadIsTyped DEF DeviceTypes
<1>8. ~Advancing(o)' /\ \A q \in Operators : q # o => (Advancing(q)' <=> Advancing(q))
  BY <1>5, <1>6 DEF Advancing, At
<1>9. Settled' = Settled \cup {d} /\ d \notin Settled
  <2>1. d \notin Settled
    BY <1>1, <1>2 DEF Settled
  <2>2. ASSUME NEW e \in Phones, e # d
        PROVE  (\A q \in Operators : Advancing(q)' => op'[q].phones # {e}) <=> \A q \in Operators : Advancing(q) => op[q].phones # {e}
    BY <1>2, <1>6, <1>8, <2>2
  <2>3. \A q \in Operators : Advancing(q)' => op'[q].phones # {d}
    <3> TAKE q \in Operators
    <3>1. CASE q = o
      BY <1>8, <3>1
    <3>2. CASE q # o
      BY <1>1, <1>2, <1>3, <1>6, <1>8, <3>2
    <3> QED BY <3>1, <3>2
  <2>4. \A e \in Phones : e \in Settled' <=> e \in Settled \cup {d}
    <3> TAKE e \in Phones
    <3>1. CASE e = d
      BY <1>1, <1>2, <2>3, <3>1 DEF Settled
    <3>2. CASE e # d
      BY <1>1, <2>2, <3>2 DEF Settled
    <3> QED BY <3>1, <3>2
  <2> QED BY <1>2, <2>1, <2>4 DEF Settled
<1>10. Cardinality(Settled') = Cardinality(Settled) + 1
  BY <1>9, SettledIsFinite, FS_AddElement
<1>11. (\A p, q \in Operators : Advancing(p) /\ Advancing(q) /\ op[p].phones = op[q].phones => p = q)'
  BY <1>3, <1>6, <1>8
<1>12. port' \in [Phones -> Ports \cup {0}] /\ forward' \in [Ports -> Phones \cup {nobody}]
  BY <1>1 DEF DeviceTypes, PortsGiven
<1> QED BY <1>1, <1>3, <1>7, <1>10, <1>11, <1>12 DEF PortsGiven

LEMMA CompanionKeepsTypes == ASSUME DeviceTypes, NEW o \in Operators, CompanionStep(o) PROVE DeviceTypes'
<1>1. UNCHANGED <<plugged, registryVars, mirrorVars>>
  BY DEF CompanionStep, TakePort, AdvancePort, ForwardPort, AskCompanion, ReadNotifications, adbVars
<1>2. ASSUME op[o].kind = "notifications", op[o].at \in {"port", "forward", "request"}, UNCHANGED portVars,
             forward' \in [Ports -> Phones \cup {nobody}], NEW step \in {"forward", "request", "done", "failed"},
             NEW by \in Phones \cup {nobody}, port[Phone(o)] # 0,
             op' = [op EXCEPT ![o].at = step] \/ op' = [op EXCEPT ![o].at = step, ![o].by = by]
      PROVE  DeviceOps' /\ PortsGiven'
  <2> DEFINE d == Phone(o)
  <2>1. d \in Phones /\ op[o].phones = {d} /\ port[d] # 0
    BY <1>2, ReadPhone
  <2> HIDE DEF d
  <2>2. step \in OpSteps /\ {} \in SUBSET Phones
    BY DEF OpSteps
  <2>3. OnlySteps(o) /\ op'[o] \in OpRecords /\ op'[o].kind = op[o].kind /\ op'[o].at = step
    <3> HIDE DEF OnlySteps
    <3>1. CASE op' = [op EXCEPT ![o].at = step]
      BY <2>2, <3>1, MoveIsPlain
    <3>2. CASE op' = [op EXCEPT ![o].at = step, ![o].by = by]
      BY <2>2, <3>2, MoveIsPlain
    <3> QED BY <1>2, <3>1, <3>2
  <2>4. op'[o].phones = {d}
    BY <1>2, <2>1 DEF DeviceTypes, DeviceOps, OpRecords
  <2>5. PhoneOp(op'[o], port) /\ ~Advancing(o) /\ ~Advancing(o)'
    BY <1>2, <2>1, <2>3, <2>4 DEF PhoneOp, Advancing, At
  <2> QED BY <1>2, <2>3, <2>5, PlainStep
<1>3. forward \in [Ports -> Phones \cup {nobody}] /\ nobody \in Phones \cup {nobody}
  BY DEF DeviceTypes, PortsGiven
<1>4. ASSUME NEW d \in Phones, ReadNotifications(o, d) PROVE DeviceOps' /\ PortsGiven'
  <2>1. Begins(o, "notifications", "port", {d}, 0) /\ UNCHANGED <<forward, portVars>>
    BY <1>4 DEF ReadNotifications, adbVars
  <2>2. "notifications" \in OpKinds /\ "port" \in OpSteps /\ {d} \in SUBSET Phones /\ 0 \in 0..MaxTaps
    BY PhonesAssumption DEF OpKinds, OpSteps
  <2> QED BY <2>1, <2>2, BeginIsPlain
<1>5. ASSUME TakePort(o) PROVE DeviceOps' /\ PortsGiven'
  <2>1. CASE port[Phone(o)] = 0
    BY <1>5, <2>1, TakePortKeepsTypes
  <2>2. CASE port[Phone(o)] # 0
    <3>1. /\ op[o].kind = "notifications" /\ op[o].at = "port" /\ UNCHANGED portVars /\ forward' = forward
          /\ op' = [op EXCEPT ![o].at = "forward"]
      BY <1>5, <2>2 DEF TakePort, At, GoesOn, adbVars, portVars
    <3> QED BY <1>2, <1>3, <2>2, <3>1
  <2> QED BY <2>1, <2>2
<1>6. ASSUME ForwardPort(o) \/ AskCompanion(o) PROVE DeviceOps' /\ PortsGiven'
  <2>1. /\ op[o].kind = "notifications" /\ op[o].at \in {"forward", "request"} /\ UNCHANGED portVars
    BY <1>6 DEF ForwardPort, AskCompanion, At
  <2>2. Phone(o) \in Phones /\ port[Phone(o)] # 0
    BY <2>1, ReadPhone
  <2>3. port[Phone(o)] \in Ports
    BY <2>2 DEF DeviceTypes, PortsGiven
  <2>4. forward' \in [Ports -> Phones \cup {nobody}]
    <3>1. forward' = forward \/ forward' = [forward EXCEPT ![port[Phone(o)]] = Phone(o)]
      BY <1>6 DEF ForwardPort, AskCompanion, adbVars
    <3> HIDE DEF Phone
    <3> QED BY <1>3, <2>2, <3>1
  <2>5. forward[port[Phone(o)]] \in Phones \cup {nobody}
    BY <1>3, <2>3
  <2>6. PICK step \in {"request", "done", "failed"} :
          op' = [op EXCEPT ![o].at = step] \/ op' = [op EXCEPT ![o].at = step, ![o].by = forward[port[Phone(o)]]]
    BY <1>6 DEF ForwardPort, AskCompanion, GoesOn
  <2> QED BY <1>2, <2>1, <2>2, <2>4, <2>5, <2>6
<1>7. DeviceOps' /\ PortsGiven'
  BY <1>4, <1>5, <1>6, AdvancePortKeepsTypes DEF CompanionStep
<1>8. Showing'
  BY <1>1 DEF mirrorVars, DeviceTypes, Showing
<1> QED BY <1>1, <1>7, <1>8, ListingStays, CompanionKeepsCommands DEF DeviceTypes

LEMMA OutsideKeepsTypes == ASSUME DeviceTypes, Outside PROVE DeviceTypes'
<1>1. UNCHANGED <<port, nextPort, registered, selected>>
  BY DEF Outside, MirrorEnds, Replug, AdbRestarts, portVars, registryVars
<1>2. forward' \in [Ports -> Phones \cup {nobody}]
  BY DEF Outside, MirrorEnds, Replug, AdbRestarts, adbVars, DeviceTypes, PortsGiven
<1>3. op' \in [Operators -> OpRecords] /\ \A o \in Operators :
        op'[o].kind = op[o].kind /\ op'[o].at = op[o].at /\ op'[o].by = op[o].by /\ op'[o].phones = op[o].phones
  <2>1. CASE op' = op
    BY <2>1 DEF DeviceTypes, DeviceOps
  <2>2. ASSUME NEW d, NEW s, Replug(d, s)
        PROVE  op' \in [Operators -> OpRecords] /\ \A o \in Operators :
                 op'[o].kind = op[o].kind /\ op'[o].at = op[o].at /\ op'[o].by = op[o].by /\ op'[o].phones = op[o].phones
    <3>1. op' = [o \in Operators |-> [op[o] EXCEPT !.away = @ \/ (d \in op[o].phones /\ s # "ready")]]
      BY <2>2 DEF Replug
    <3>2. ASSUME NEW o \in Operators, NEW gone \in BOOLEAN
          PROVE  LET r == [op[o] EXCEPT !.away = gone] IN
                 r \in OpRecords /\ r.kind = op[o].kind /\ r.at = op[o].at /\ r.by = op[o].by /\ r.phones = op[o].phones
      BY OpIsTyped DEF OpRecords
    <3>3. \A o \in Operators : (op[o].away \/ (d \in op[o].phones /\ s # "ready")) \in BOOLEAN
      OBVIOUS
    <3> QED BY <3>1, <3>2, <3>3
  <2> QED BY <2>1, <2>2 DEF Outside, MirrorEnds, AdbRestarts
<1>4. DeviceOps'
  <2>1. ASSUME NEW o \in Operators PROVE PhoneOp(op'[o], port')
    BY <1>1, <1>3, OpIsTyped DEF PhoneOp
  <2> QED BY <1>3, <2>1 DEF DeviceOps, PhoneOp
<1>5. PortsGiven'
  <2>1. \A o \in Operators : Advancing(o)' <=> Advancing(o)
    BY <1>3 DEF Advancing, At
  <2> QED BY <1>1, <1>2, <1>3, <2>1, PortsStayGiven DEF DeviceTypes
<1>6. Listing' /\ Showing'
  <2>1. plugged' \in [Phones -> PhoneStates]
    BY DEF Outside, MirrorEnds, Replug, AdbRestarts, adbVars, DeviceTypes, Listing
  <2>2. Listing'
    BY <1>1, <2>1 DEF DeviceTypes, Listing, ListedPhones
  <2>3. Showing'
    BY DEF Outside, MirrorEnds, Replug, AdbRestarts, mirrorVars, DeviceTypes, Showing
  <2> QED BY <2>2, <2>3
<1> QED BY <1>4, <1>5, <1>6, OutsideKeepsCommands DEF DeviceTypes

LEMMA DeviceTypesKept == ASSUME DeviceTypes, [DevicesNext]_deviceVars PROVE DeviceTypes'
<1>1. CASE UNCHANGED deviceVars
  <2>1. DeviceOps' /\ PortsGiven'
    BY <1>1 DEF deviceVars, adbVars, portVars, DeviceTypes, DeviceOps, PhoneOp, PortsGiven, Settled, Advancing, At
  <2>2. Listing' /\ Showing'
    BY <1>1 DEF deviceVars, adbVars, registryVars, mirrorVars, DeviceTypes, Listing, ListedPhones, Showing
  <2> QED BY <1>1, <2>1, <2>2, CommandNext DEF DeviceTypes
<1> QED BY <1>1, OutsideKeepsTypes, RegistryKeepsTypes, ScreensKeepTypes, CompanionKeepsTypes, CommandsKeepTypes
        DEF DevicesNext

-----------------------------------------------------------------------------
(* The types of the whole *)

AllTypes ==
  NTypeOK /\ DispatchTypes /\ TTypeOK /\ StoreTypes /\ ShapesTyped /\ FeedTypes /\ DeviceTypes

LEMMA AllTypesStart == ASSUME WInit PROVE AllTypes
BY NeuronTypesStart, DispatchTypesStart, StreamTypesStart, StoreTypesStart, TypesStart, FeedTypesStart,
   DeviceTypesStart DEF WInit, AllTypes

(* A step of the world is a step of one of its parts. *)
LEMMA WorldSteps ==
  ASSUME [WNext]_wvars
  PROVE  /\ [NNext]_nvars /\ [DNext]_dvars /\ [TNext]_tvars /\ [Command]_evars /\ [FeedNext]_feedVars
         /\ [DevicesNext]_deviceVars /\ focus' = focus
         /\ (focus = "graph" /\ GraphNext /\ UNCHANGED cvars) \/ (focus # "graph" /\ ShapeNext) \/ UNCHANGED shapeVars
<1> DEFINE OfParts ==
             /\ [NNext]_nvars /\ [DNext]_dvars /\ [TNext]_tvars /\ [Command]_evars /\ [FeedNext]_feedVars
             /\ [DevicesNext]_deviceVars /\ focus' = focus
             /\ (focus = "graph" /\ GraphNext /\ UNCHANGED cvars) \/ (focus # "graph" /\ ShapeNext) \/ UNCHANGED shapeVars
<1>1. CASE NeuronsStep(NNext) \/ RequestStep(DNext) \/ StreamingStep(TNext)
  BY <1>1 DEF NeuronsStep, RequestStep, StreamingStep
<1>2. CASE GraphStep(GraphNext)
  BY <1>2 DEF GraphStep
<1>3. CASE ShapesStep(ShapeNext)
  BY <1>3 DEF ShapesStep
<1>4. ASSUME FeedNext, UNCHANGED <<nvars, dvars, tvars, evars, shapeVars, deviceVars, focus>> PROVE OfParts
  BY <1>4
<1>5. CASE FeedStep({"tasks"}, \E c \in Callers : RequestStage(c) /\ UNCHANGED pageVars)
  BY <1>4, <1>5 DEF FeedStep, FeedNext
<1>6. CASE FeedStep({"feed", "watch"}, (OneRequest /\ UNCHANGED pageVars) \/ Freeze)
  <2>1. /\ (OneRequest /\ UNCHANGED pageVars) \/ Freeze
        /\ UNCHANGED <<nvars, dvars, tvars, evars, shapeVars, deviceVars, focus>>
    BY <1>6 DEF FeedStep
  <2>2. CASE OneRequest /\ UNCHANGED pageVars
    <3> DEFINE c == CHOOSE x \in Callers : TRUE
    <3>1. RequestStage(c)
      BY <2>2 DEF OneRequest
    <3>2. c \in Callers
      BY <2>2 DEF OneRequest
    <3> HIDE DEF c
    <3> QED BY <1>4, <2>1, <2>2, <3>1, <3>2 DEF FeedNext
  <2> QED BY <1>4, <2>1, <2>2 DEF FeedNext
<1>7. ASSUME NEW p \in Polling, NEW parts, FeedStep(parts, PollFeed(p)) PROVE OfParts
  BY <1>4, <1>7 DEF FeedStep, FeedNext
<1>8. CASE DeviceStep(Phoning, Outside)
  BY <1>8 DEF DeviceStep, DevicesNext
<1>9. ASSUME NEW o \in Operators,
             \/ DeviceStep({"screens"}, RegistryStep(o) \/ ScreenStep(o))
             \/ DeviceStep({"companion"}, CompanionStep(o)) \/ DeviceStep({"commands"}, CommandStep(o))
      PROVE  OfParts
  BY <1>9 DEF DeviceStep, DevicesNext
<1>10. CASE \/ StoreStep("users", UserStep) \/ StoreStep("history", HistoryStep) \/ StoreStep("displays", DisplayStep)
            \/ StoreStep("optimize", OptimizeStep) \/ StoreStep("surfaces", SurfaceStep)
            \/ StoreStep("organism", OrganismStep) \/ StoreStep("worlds", WorldStep)
            \/ StoreStep("audio", AudioStep) \/ StoreStep("records", RecordStep)
  BY <1>10 DEF StoreStep, Command
<1>11. CASE UNCHANGED wvars
  BY <1>11 DEF wvars
<1>12. \A p \in EventPolls \cup WatchPolls : p \in Polling
  BY DEF Polling
<1> QED BY <1>1, <1>2, <1>3, <1>5, <1>6, <1>7, <1>8, <1>9, <1>10, <1>11, <1>12 DEF WNext

LEMMA AllTypesKept == ASSUME AllTypes, [WNext]_wvars PROVE AllTypes'
<1>1. ShapesTyped'
  <2>1. CASE GraphNext /\ UNCHANGED cvars
    <3>1. GraphInv' /\ LayoutsTyped' /\ UndoneTyped' /\ asked' \in 0..MaxAsked
      BY <2>1, GraphSteps DEF AllTypes, ShapesTyped, cvars, LayoutsTyped, UndoneTyped
    <3> QED BY <2>1, <3>1, OutsideIsTyped DEF AllTypes, cvars
  <2>2. CASE [ShapeNext]_shapeVars
    BY <2>2, TypesNext DEF AllTypes
  <2> QED BY <2>1, <2>2, WorldSteps
<1> QED BY <1>1, WorldSteps, NeuronTypesKept, DispatchTypesKept, StreamTypesKept, StoreTypesKept, FeedTypesKept,
           DeviceTypesKept DEF AllTypes

LEMMA AllTypesAre == ASSUME AllTypes PROVE WorldTypeOK
BY StoreTypesAre, TypedIsFit, FeedTypesAre, DeviceTypesAre DEF AllTypes, DispatchTypes, WorldTypeOK

(* All state of the neural world, the graph and its shapes, requests, tasks and
   what the page reads of them, the areas, the stores and the phones keeps its
   types; the events that are kept are the last that were told of, numbered
   without a gap, a page never reads on from one that was not told of
   (NeuralEventBus.publish, since); and no phone gets a port there is none for
   (AndroidCompanionClient.request): with any number of callers, polls and threads. *)
THEOREM WorldsAreTyped == WSpec => []WorldTypeOK
BY AllTypesStart, AllTypesKept, AllTypesAre, PTL DEF WSpec

(* The world does what its parts do, the graph with or without its shapes, so that
   what is proved of a part is true of the world. *)
THEOREM WorldIsItsParts ==
  WSpec => /\ NSpec /\ DSpec /\ TSpec /\ ESpec /\ FeedInit /\ [][FeedNext]_feedVars /\ DevicesSpec
           /\ focus = "graph" => GraphSpec
           /\ focus # "graph" => ShapeSpec
<1>1. WInit => NInit /\ DInit /\ TInit /\ EInit /\ ShapeInit /\ GraphInit /\ FeedInit /\ DevicesInit
  BY DEF WInit, ShapeInit
<1>2. [WNext]_wvars /\ focus = "graph" => [GraphNext]_gvars /\ (focus = "graph")'
  BY WorldSteps DEF shapeVars
<1>3. [WNext]_wvars /\ focus # "graph" => [ShapeNext]_shapeVars /\ (focus # "graph")'
  BY WorldSteps
<1>4. [WNext]_wvars => [NNext]_nvars /\ [DNext]_dvars /\ [TNext]_tvars /\ [Command]_evars /\ [FeedNext]_feedVars
                       /\ [DevicesNext]_deviceVars
  BY WorldSteps
<1> QED BY <1>1, <1>2, <1>3, <1>4, PTL DEF WSpec, NSpec, DSpec, TSpec, ESpec, DevicesSpec, GraphSpec, ShapeSpec

=============================================================================
