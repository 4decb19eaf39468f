---------------------------- MODULE WorkflowRuns ----------------------------
(***************************************************************************)
(* Running workflows (WorkflowService.execute in workflows.py) and coding  *)
(* requests (_coding_context in agent_orchestrator.py) on the threads of   *)
(* the desktop, while the workspace page may request cancellation of any   *)
(* activity.  Between two calls of the activity store any other thread may *)
(* act.                                                                    *)
(***************************************************************************)
EXTENDS Activities, Sequences

CONSTANTS
  Workers,    \* threads that execute requests
  Steps,      \* the workflow: [protected, continues] of each step
  Outcomes    \* how a dispatched step may end, a subset of AllOutcomes

AllOutcomes == {"ok", "asks", "error"}

ASSUME StepsAssumption ==
  Steps \in Seq([protected : BOOLEAN, continues : BOOLEAN]) /\ Len(Steps) > 0
ASSUME OutcomesAssumption == Outcomes \subseteq AllOutcomes

VARIABLES
  run,      \* what each worker is doing
  refused   \* a coding request was refused because telemetry was full

rvars == <<records, created, run, refused>>

NoActivity == 0

Resting == [pc |-> "idle", act |-> NoActivity, seen |-> "queued", step |-> 1,
            done |-> 0, confirmed |-> FALSE, stopped |-> FALSE, asks |-> FALSE,
            errors |-> FALSE]

Run == [pc : {"idle", "begin", "check", "go", "dispatch", "finish", "coding", "code"},
        act : {NoActivity} \cup ActivityIds, seen : Live \cup Terminal,
        step : 1..Len(Steps) + 1, done : 0..Len(Steps), confirmed : BOOLEAN,
        stopped : BOOLEAN, asks : BOOLEAN, errors : BOOLEAN]

Watched(w) == run[w].act # NoActivity

Set(w, r) == run' = [run EXCEPT ![w] = r]

(* activity_store.update, when there is an activity: `seen` is the local copy
   the code keeps of the record. *)
Report(w, status, r) ==
  IF Watched(w)
  THEN Update(run[w].act, status) /\ Set(w, [r EXCEPT !.seen = status])
  ELSE UNCHANGED store /\ Set(w, r)

-----------------------------------------------------------------------------
(* WorkflowService.execute *)

(* Without room in the store the run goes on unobserved. *)
Start(w, confirmed) ==
  LET r == [Resting EXCEPT !.pc = "begin", !.confirmed = confirmed] IN
  /\ run[w].pc = "idle"
  /\ \/ Create /\ Set(w, [r EXCEPT !.act = NextId])
     \/ ~HasRoom /\ Set(w, r) /\ UNCHANGED store
  /\ UNCHANGED refused

Begin(w) ==
  /\ run[w].pc = "begin"
  /\ Report(w, "running", [run[w] EXCEPT !.pc = "check"])
  /\ UNCHANGED refused

CancelSeen(w) == Watched(w) /\ Known(run[w].act) /\ records[run[w].act].cancel

(* The cancellation check at the head of each step. *)
StopHere(w) == CancelSeen(w)

AcknowledgeStop(w) ==
  /\ run[w].pc = "check" /\ run[w].step <= Len(Steps) /\ StopHere(w)
  /\ Acknowledge(run[w].act)
  /\ Set(w, [run[w] EXCEPT !.pc = "finish", !.seen = "cancelled", !.stopped = TRUE,
                           !.errors = TRUE])
  /\ UNCHANGED refused

NeedsConfirmation(w) == Steps[run[w].step].protected /\ ~run[w].confirmed

(* Cancellation may still arrive between this look and the step. *)
PassCheck(w) ==
  /\ run[w].pc = "check" /\ run[w].step <= Len(Steps) /\ ~StopHere(w)
  /\ Set(w, [run[w] EXCEPT !.pc = "go"])
  /\ UNCHANGED <<store, refused>>

WaitForConfirmation(w) ==
  /\ run[w].pc = "go"
  /\ NeedsConfirmation(w)
  /\ Report(w, "waiting", [run[w] EXCEPT !.pc = "finish", !.asks = TRUE, !.errors = TRUE])
  /\ UNCHANGED refused

Dispatch(w) ==
  /\ run[w].pc = "go" /\ ~NeedsConfirmation(w)
  /\ Report(w, "running", [run[w] EXCEPT !.pc = "dispatch"])
  /\ UNCHANGED refused

AfterFailure(w, continues) ==
  IF continues THEN [run[w] EXCEPT !.pc = "check", !.step = @ + 1, !.errors = TRUE]
               ELSE [run[w] EXCEPT !.pc = "finish", !.errors = TRUE]

StepSucceeds(w) ==
  /\ run[w].pc = "dispatch" /\ "ok" \in Outcomes
  /\ Report(w, "running", [run[w] EXCEPT !.pc = "check", !.step = @ + 1, !.done = @ + 1])
  /\ UNCHANGED refused

(* A PermissionError that speaks of confirmation, in an unconfirmed run. *)
StepAsks(w) ==
  /\ run[w].pc = "dispatch" /\ "asks" \in Outcomes /\ ~run[w].confirmed
  /\ Report(w, "waiting",
            [AfterFailure(w, Steps[run[w].step].continues) EXCEPT !.asks = TRUE])
  /\ UNCHANGED refused

StepFails(w) ==
  LET continues == Steps[run[w].step].continues IN
  /\ run[w].pc = "dispatch" /\ "error" \in Outcomes
  /\ Report(w, IF continues THEN "running" ELSE "failed", AfterFailure(w, continues))
  /\ UNCHANGED refused

Success(w) == ~run[w].errors /\ run[w].done = Len(Steps)

\* mutant: a run that was already reported as failed is reported again
FinalStatusAlways(w) ==
  IF run[w].stopped \/ run[w].asks THEN {}
  ELSE IF Success(w) THEN {"succeeded"} ELSE {"failed"}

\* mutant: a run that waits for confirmation is closed as well
FinalStatusWaiting(w) ==
  IF run[w].seen = "failed" \/ run[w].stopped THEN {}
  ELSE IF Success(w) THEN {"succeeded"} ELSE {"failed"}

(* The closing update, which failed, cancelled and waiting runs skip. *)
FinalStatus(w) ==
  IF run[w].seen = "failed" \/ run[w].stopped \/ run[w].asks THEN {}
  ELSE IF Success(w) THEN {"succeeded"} ELSE {"failed"}

Finish(w) ==
  /\ \/ run[w].pc = "finish"
     \/ run[w].pc = "check" /\ run[w].step > Len(Steps)
  /\ IF FinalStatus(w) # {}
     THEN \E s \in FinalStatus(w) : Report(w, s, Resting)
     ELSE Set(w, Resting) /\ UNCHANGED store
  /\ run'[w].pc = "idle"
  /\ UNCHANGED refused

-----------------------------------------------------------------------------
(* _coding_context *)

(* create raises when the store is full, and the request ends there. *)
StartCoding(w, confirmed) ==
  /\ run[w].pc = "idle"
  /\ \/ /\ Create
        /\ Set(w, [Resting EXCEPT !.pc = "coding", !.act = NextId,
                                  !.confirmed = confirmed])
        /\ UNCHANGED refused
     \/ /\ ~HasRoom
        /\ refused' = TRUE
        /\ UNCHANGED <<store, run>>

(* Without confirmation the record is left waiting; confirming later starts
   another request with a record of its own. *)
ReportCoding(w) ==
  /\ run[w].pc = "coding"
  /\ IF run[w].confirmed
     THEN Report(w, "running", [run[w] EXCEPT !.pc = "code"])
     ELSE Update(run[w].act, "waiting") /\ Set(w, Resting)
  /\ UNCHANGED refused

FinishCoding(w) ==
  /\ run[w].pc = "code"
  /\ \E status \in {"succeeded", "failed"} : Update(run[w].act, status)
  /\ Set(w, Resting)
  /\ UNCHANGED refused

-----------------------------------------------------------------------------
(* activity_cancel of the workspace page. *)
UserCancels ==
  /\ \E id \in DOMAIN records : RequestCancel(id)
  /\ UNCHANGED <<run, refused>>

WorkerStep(w) ==
  \/ Begin(w) \/ AcknowledgeStop(w) \/ PassCheck(w) \/ WaitForConfirmation(w)
  \/ Dispatch(w)
  \/ StepSucceeds(w) \/ StepAsks(w) \/ StepFails(w) \/ Finish(w)
  \/ ReportCoding(w) \/ FinishCoding(w)

Request(w) == \E confirmed \in BOOLEAN : Start(w, confirmed) \/ StartCoding(w, confirmed)

RInit ==
  /\ StoreInit
  /\ run = [w \in Workers |-> Resting]
  /\ refused = FALSE

RNext ==
  \/ \E w \in Workers : WorkerStep(w) \/ Request(w)
  \/ UserCancels

RSpec == RInit /\ [][RNext]_rvars

RFairSpec == RSpec /\ \A w \in Workers : WF_rvars(WorkerStep(w))

-----------------------------------------------------------------------------
(* Properties *)

RTypeOK == StoreTypeOK /\ run \in [Workers -> Run] /\ refused \in BOOLEAN

(* What the next step of a run may report, by where the run is. *)
Ahead(w) ==
  [idle     |-> {},
   begin    |-> {"running"},
   check    |-> {"cancelled"} \cup FinalStatus(w),
   go       |-> {"running", "waiting"},
   dispatch |-> {"running", "waiting", "failed"},
   finish   |-> FinalStatus(w),
   coding   |-> {"running", "waiting"},
   code     |-> {"succeeded", "failed"}][run[w].pc]

(* A run never raises out of its own bookkeeping: its record is there, however
   many others made room in the store, and takes each update the run may be
   about to make (execute, _coding_context). *)
ReportsAreAccepted ==
  \A w \in Workers : Watched(w) => \A status \in Ahead(w) : CanUpdate(run[w].act, status)

(* What became of a run. *)
Outcome(w) ==
  IF run[w].stopped THEN "cancelled"
  ELSE IF run[w].asks THEN "waiting"
  ELSE IF Success(w) THEN "succeeded" ELSE "failed"

(* What the record shows once the run is over is what became of the run: all
   steps done, a step failed, cancelled, or waiting for an answer.  (The record
   of a cancelled or failed run may already be evicted.) *)
OutcomeIsReported ==
  [][\A w \in Workers :
       /\ Watched(w) /\ run[w].pc \in {"check", "finish"} /\ run'[w].pc = "idle"
       /\ run[w].act \in DOMAIN records'
       => records'[run[w].act].status = Outcome(w)]_rvars

(* "running: currently executing" (workspace-reliability-design.md:55): a
   running record belongs to a run under way. *)
RunningHasRunner ==
  \A i \in DOMAIN records : records[i].status = "running" =>
    \E w \in Workers : run[w].pc # "idle" /\ run[w].act = i

(* The activity layer is observational (workspace-reliability-design.md:26):
   a full store must not stop a coding request. *)
TelemetryNeverRefuses == ~refused

=============================================================================
