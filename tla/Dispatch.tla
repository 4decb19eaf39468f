------------------------------ MODULE Dispatch ------------------------------
(***************************************************************************)
(* One request on its way through AgentOrchestrator: the workflow or the   *)
(* intent it names, a goal reached by using the computer, a plan of the    *)
(* model, the coding stage and the reply; every operation by way of the    *)
(* policy (QoLOrchestrator.run, UniversalToolBroker.invoke), but for the   *)
(* computer.  Two operations need no confirmation themselves and do what   *)
(* another capability guards: they ask for that one, unless the step that  *)
(* names them says in its arguments that it is confirmed.                  *)
(* A stage that raises is not the end: the next one may begin although the *)
(* first has done part of its work.  Requests share nothing but tools, so  *)
(* one at a time is enough.                                                *)
(***************************************************************************)
EXTENDS Naturals, Sequences, SequencesExt

CONSTANTS
  Registered,    \* operations registered with the orchestrator
  Universal,     \* operations of the tool broker
  Guarded,       \* those whose capability is in require_confirmation (READs of the broker are not)
  Routed,        \* those that do what another capability is for (neural.fullstack.command, neural.master.execute)
  Behind,        \* what they do that is guarded
  Caught,        \* intents whose errors are caught: the shapes
  control,       \* what the computer tool does
  selfCoding,    \* self_coding.run
  MaxSteps,      \* bound on the steps of a plan (8 in planner.py) or a workflow (_MAX_STEPS)
  MaxActions     \* ComputerUseAgent.max_steps

ASSUME OperationsAssumption ==
  /\ Guarded \subseteq Registered \cup Universal \cup Behind /\ Caught \subseteq Registered \ Guarded
  /\ Registered \cap Universal = {} /\ Routed \subseteq Registered \ Guarded
  /\ Behind \subseteq Guarded \ (Registered \cup Universal)
  /\ {control, selfCoding} \subseteq Guarded \cap Registered
  /\ MaxSteps \in Nat /\ MaxActions \in Nat

VARIABLES
  policy,      \* the capabilities allowed, and whether there is a hook
  stage,       \* where the request is
  text,        \* what was asked
  confirmed,   \* the flag of execute
  agreed,      \* the person said yes to the question asked about this text
  steps,       \* what is left of the plan or the workflow
  actions,     \* actions of the computer so far
  context,     \* deterministic_context: "none", "asks" or "results"
  verified,    \* deterministic_verified, then OrchestrationResult.verified
  performed    \* what was done that is guarded since the person spoke, and who was asked about it

ask == <<text, confirmed, agreed>>
found == <<steps, actions, context, verified>>
dvars == <<policy, stage, ask, found, performed>>

Operations == Registered \cup Universal
Capabilities == Operations \cup Behind
Nothing == "no intent"

(* What matters of a text: its intent, whether it looks like a goal for    *)
(* the computer or a mutation, and its profile.  No intent is routed.      *)
Texts == [intent : {Nothing} \cup (Registered \ ({control, selfCoding} \cup Routed)), goal : BOOLEAN,
          mutating : BOOLEAN, profile : {"fast", "coding", "other"}]
Stages == {"idle", "intent", "workflow", "goal", "plan", "steps", "coding", "reply", "answered", "raised"}

DTypeOK ==
  /\ policy \in [allowed : SUBSET Capabilities, hook : BOOLEAN]
  /\ stage \in Stages /\ text \in Texts /\ confirmed \in BOOLEAN /\ agreed \in BOOLEAN
  /\ steps \in BoundedSeq(Operations, MaxSteps) /\ actions \in 0..MaxActions
  /\ context \in {"none", "asks", "results"} /\ verified \in BOOLEAN
  /\ performed \subseteq [op : Guarded, by : {"none", "hook", "step"}]

-----------------------------------------------------------------------------
(* Policy *)

(* QoLOrchestrator.run: allowed, and where it must be confirmed the hook   *)
(* said yes; it does not know of the request's flag, the broker does.      *)
MayDispatch(op, hook) == op \in policy.allowed /\ (op \in Guarded => hook)

(* UniversalToolBroker.invoke *)
MayInvoke(op) == op \in policy.allowed /\ (op \in Guarded => confirmed)

May(op, hook) == IF op \in Universal THEN MayInvoke(op) ELSE MayDispatch(op, hook)

(* _neural_fullstack_execute, _neural_master_execute: the hook said yes,   *)
(* or the step did.                                                        *)
MayRoute(does, by) == does \in policy.allowed /\ by \in {"hook", "step"}

Does(op) == {op} \cup {does \in Behind : op \in Routed}
Consents == {"none", "step"} \cup {by \in {"hook"} : policy.hook}

(* An operation is refused, done, done but not seen to be right, or it     *)
(* raises, before or after its effect (a tool that timed out still runs).  *)
(* A workflow that was confirmed takes that for the hook's answer.         *)
Attempt(op, flag, outcome) ==
  \E does \in Does(op), by \in Consents, effect \in BOOLEAN :
    /\ (by = "step" => does # op) /\ (by = "hook" => op \notin Universal)
    /\ effect => May(op, flag \/ by = "hook") /\ (does # op => MayRoute(does, by))
    /\ outcome # "fails" => effect
    /\ performed' = performed \cup {p \in {[op |-> does, by |-> by]} : effect /\ does \in Guarded}

-----------------------------------------------------------------------------
(* The person *)

Begin(t, flag) ==
  /\ text' = t /\ confirmed' = flag /\ stage' = "intent"
  /\ steps' = << >> /\ actions' = 0 /\ context' = "none" /\ verified' = FALSE
  /\ UNCHANGED policy

Ask(t) ==
  /\ stage \in {"idle", "answered", "raised"}
  /\ Begin(t, FALSE) /\ agreed' = FALSE /\ performed' = {}

(* The dialog, and the same text again, planned anew. *)
Agree ==
  /\ stage = "answered" /\ context = "asks" /\ ~confirmed
  /\ Begin(text, TRUE) /\ agreed' = TRUE /\ UNCHANGED performed

-----------------------------------------------------------------------------
(* The stages *)

Goto(s) == stage' = s /\ UNCHANGED <<policy, ask>>
Outcome(c, ok) == context' = c /\ verified' = ok
Rests == UNCHANGED performed

Asks(s) == Goto(s) /\ Outcome("asks", FALSE) /\ UNCHANGED <<steps, actions>> /\ Rests

(* Where the next stage begins, after what an earlier one has found.       *)
AfterIntent == IF text.profile # "fast" THEN "coding" ELSE IF text.goal THEN "goal" ELSE "plan"

\* mutant: the policy alone decides
AsksNever(op) == FALSE

(* Every intent with an effect asks first.                                 *)
AsksFirst(op) == op \in Guarded /\ ~confirmed

NamedIntent ==
  /\ UNCHANGED <<steps, actions>>
  /\ \/ text.intent = Nothing /\ Goto(AfterIntent) /\ Outcome("none", FALSE) /\ Rests
     \/ text.intent # Nothing /\ AsksFirst(text.intent) /\ Goto("coding") /\ Outcome("asks", FALSE) /\ Rests
     \/ /\ text.intent # Nothing /\ ~AsksFirst(text.intent)
        /\ \E outcome \in {"done", "unverified", "fails"} :
             /\ Attempt(text.intent, FALSE, outcome)
             /\ IF outcome # "fails" THEN Goto("coding") /\ Outcome("results", outcome = "done")
                ELSE Goto(IF text.intent \in Caught THEN AfterIntent ELSE "raised") /\ Outcome("none", FALSE)

(* The workflows are read anew each time, so any text may name one, with   *)
(* any registered operations for steps; else its intent is looked for.     *)
Workflows == BoundedSeq(Registered, MaxSteps) \ {<< >>}

Intent ==
  /\ stage = "intent"
  /\ \/ NamedIntent
     \/ steps' \in Workflows /\ Goto("workflow") /\ Outcome("results", TRUE) /\ UNCHANGED actions /\ Rests

(* WorkflowService.execute: a step that must be confirmed ends a run that  *)
(* was not; one that fails ends it or not, as the workflow says, and may   *)
(* itself have missed a confirmation.                                      *)
WorkflowStep ==
  /\ stage = "workflow" /\ steps # << >> /\ UNCHANGED actions
  /\ \/ AsksFirst(Head(steps)) /\ Goto("coding") /\ Outcome("asks", FALSE) /\ steps' = << >> /\ Rests
     \/ /\ ~AsksFirst(Head(steps))
        /\ \E outcome \in {"done", "fails"} :
             /\ Attempt(Head(steps), confirmed, outcome)
             /\ IF outcome = "done" THEN UNCHANGED <<context, verified>> /\ steps' = Tail(steps) /\ Goto("workflow")
                ELSE /\ \E c \in {context} \cup {d \in {"asks"} : ~confirmed} : Outcome(c, FALSE)
                     /\ \/ steps' = Tail(steps) /\ Goto("workflow")
                        \/ steps' = << >> /\ Goto("coding")

(* All steps are done, or the run was cancelled; saving it may raise.      *)
WorkflowEnds ==
  /\ stage = "workflow" /\ steps' = << >> /\ UNCHANGED actions /\ Rests
  /\ Outcome(context, verified /\ steps = << >>)
  /\ Goto("coding") \/ Goto("raised")

(* ComputerUseAgent.run: the tool itself is called, not the policy.  An    *)
(* error of the model or the screen ends the stage without a result.       *)
GoalAsks == stage = "goal" /\ ~confirmed /\ Asks("coding")

Act ==
  /\ stage = "goal" /\ confirmed /\ actions < MaxActions
  /\ actions' = actions + 1 /\ UNCHANGED steps
  /\ performed' = performed \cup {[op |-> control, by |-> "none"]}
  /\ \/ Goto("goal") /\ UNCHANGED <<context, verified>>
     \/ Goto("coding") /\ Outcome("results", FALSE)

GoalEnds ==
  /\ stage = "goal" /\ confirmed /\ UNCHANGED <<steps, actions, performed>>
  /\ \/ actions < MaxActions /\ Goto("coding") /\ Outcome("results", TRUE)
     \/ actions = MaxActions /\ Goto("coding") /\ Outcome("results", FALSE)
     \/ Goto("plan") /\ Outcome("none", FALSE)

(* parse_plan: background jobs, self-coding and nested calls are not       *)
(* offered.                                                                *)
Plans == BoundedSeq(Operations \ {control, selfCoding}, MaxSteps) \ {<< >>}
PlanAsks == text.mutating /\ ~confirmed

Plan ==
  /\ stage = "plan"
  /\ \/ Goto("coding") /\ UNCHANGED found /\ Rests
     \/ PlanAsks /\ Asks("coding")
     \/ ~PlanAsks /\ steps' \in Plans /\ Goto("steps") /\ UNCHANGED <<actions, context, verified>> /\ Rests

(* The plan ends with its last step or with the first that fails; without  *)
(* any result it leaves nothing but its errors.                            *)
Step ==
  /\ stage = "steps" /\ UNCHANGED actions
  /\ \E outcome \in {"done", "fails"} :
       /\ Attempt(Head(steps), FALSE, outcome)
       /\ IF outcome = "fails"
          THEN Goto("coding") /\ steps' = << >> /\ UNCHANGED <<context, verified>>
          ELSE /\ steps' = Tail(steps) /\ context' = "results"
               /\ verified' = (Tail(steps) = << >>)
               /\ Goto(IF Tail(steps) = << >> THEN "coding" ELSE "steps")

(* _coding_context, see WorkflowRuns; other profiles have no such stage.   *)
Coding ==
  /\ stage = "coding" /\ UNCHANGED <<steps, actions>>
  /\ \/ text.profile # "coding" /\ Goto("reply") /\ UNCHANGED <<context, verified>> /\ Rests
     \/ text.profile = "coding" /\ ~confirmed /\ Goto("reply") /\ Outcome("asks", FALSE) /\ Rests
     \/ /\ text.profile = "coding" /\ confirmed
        /\ \E outcome \in {"done", "unverified", "fails"} :
             /\ Attempt(selfCoding, FALSE, outcome)
             /\ Goto(IF outcome = "fails" THEN "raised" ELSE "reply")
             /\ Outcome("results", outcome = "done")

(* A verified result or a question of the fast profile is the answer; else *)
(* the model formulates one, or fails.                                     *)
IsAnswer == context # "none" /\ (verified \/ context = "asks") /\ text.profile = "fast"

Reply ==
  /\ stage = "reply" /\ Rests /\ UNCHANGED <<steps, actions, context>>
  /\ \/ Goto("answered") /\ verified' = (context # "asks" /\ (verified \/ context = "none"))
     \/ ~IsAnswer /\ Goto("raised") /\ verified' = FALSE

Advance ==
  \/ Intent \/ WorkflowStep \/ WorkflowEnds \/ GoalAsks \/ Act \/ GoalEnds \/ Plan \/ Step \/ Coding \/ Reply

DInit ==
  /\ policy \in [allowed : SUBSET Capabilities, hook : BOOLEAN]
  /\ stage = "idle" /\ text \in Texts /\ confirmed = FALSE /\ agreed = FALSE
  /\ steps = << >> /\ actions = 0 /\ context = "none" /\ verified = FALSE
  /\ performed = {}

DNext == Advance \/ Agree \/ \E t \in Texts : Ask(t)

DSpec == DInit /\ [][DNext]_dvars

-----------------------------------------------------------------------------
(* Whatever needs a confirmation was agreed to by the person, or by the    *)
(* runtime's hook, on every way through the stages                         *)
(* (JARVIS_ORCHESTRATION.md, Safety boundary), with one exception: what a  *)
(* routed operation does when the plan or the workflow itself says that it *)
(* is confirmed (see the README, other disagreements).  And a request that *)
(* is answered with a question has done nothing guarded so far, but by a   *)
(* routed step of a workflow: declining it leaves everything as it was     *)
(* (AgentOrchestrator.execute).                                            *)
ConfirmedItself(p) == p.by = "step" /\ p.op \in Behind
ChangesWereAgreed == \A p \in performed : agreed \/ p.by = "hook" \/ ConfirmedItself(p)
AsksBeforeActing ==
  stage = "answered" /\ context = "asks" => \A p \in performed : p.op \in Behind
PersonDecides == ChangesWereAgreed /\ AsksBeforeActing

=============================================================================
