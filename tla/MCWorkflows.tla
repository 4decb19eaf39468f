---------------------------- MODULE MCWorkflows -----------------------------
(***************************************************************************)
(* Runs of workflows and the file of their definitions share no variable,  *)
(* and no property speaks of both: a behaviour of this module is one of    *)
(* the first or one of the second, chosen at the start, so that the states *)
(* add up instead of multiplying.                                          *)
(***************************************************************************)
EXTENDS WorkflowRuns, WorkflowFile

VARIABLE focus

wvars == <<rvars, fvars, focus>>

Step(protected, continues) == [protected |-> protected, continues |-> continues]

(* A step that may fail and be passed over, one that needs confirmation. *)
TwoSteps == <<Step(FALSE, TRUE), Step(TRUE, FALSE)>>
OneStep  == <<Step(FALSE, FALSE)>>

WInit == RInit /\ FInit /\ focus \in {"runs", "file"}

Runs == focus = "runs" /\ RNext /\ UNCHANGED <<fvars, focus>>

File == focus = "file" /\ FNext /\ UNCHANGED <<rvars, focus>>

WorkerRuns(w) == focus = "runs" /\ WorkerStep(w) /\ UNCHANGED <<fvars, focus>>

WNext == Runs \/ File

WSpec == WInit /\ [][WNext]_wvars

(* The types of both; and the store keeps to its limit, however many requests
   make room at once (activity.py:188). *)
WorkflowsTypeOK == RTypeOK /\ WithinCapacity /\ FTypeOK

=============================================================================
