---------------------------- MODULE WorkflowFile ----------------------------
(***************************************************************************)
(* The JSON file of workflow definitions (WorkflowStore in workflows.py).  *)
(* Every operation reads the file, changes its copy, writes the copy to    *)
(* one temporary file and renames that over the file, without a lock: the  *)
(* text link and the voice bridge each run requests on a thread of their   *)
(* own.  The file system is that of Windows, the packaged target: a file   *)
(* somebody has open for writing cannot be renamed or removed.             *)
(***************************************************************************)
EXTENDS Naturals, FiniteSets

CONSTANTS
  Threads,
  Ids,            \* ids of workflows, each with a name of its own
  MaxWorkflows,   \* _MAX_WORKFLOWS
  MaxOps          \* bound on the operations begun

ASSUME MaxOpsAssumption == MaxOps \in Nat
ASSUME MaxWorkflowsAssumption == MaxWorkflows \in Nat

VARIABLES
  file,   \* what the file holds
  tmp,    \* the temporary file: [exists, data, writers]
  op,     \* the operation each thread is in
  begun   \* how many operations were begun

fvars == <<file, tmp, op, begun>>

Kinds   == {"create", "replace", "delete", "record"}
Absent  == 0
(* A definition is told apart by the number of the operation that wrote it. *)
Catalog == [Ids -> Absent..MaxOps]
Nothing == [id \in Ids |-> Absent]

(* What a file holds: a catalog, no byte yet, or text that is not JSON. *)
Data     == [text : {"whole", "empty", "garbled"}, catalog : Catalog]
Whole(c) == [text |-> "whole", catalog |-> c]
Empty    == [text |-> "empty", catalog |-> Nothing]
Garbled  == [text |-> "garbled", catalog |-> Nothing]

NoTmp == [exists |-> FALSE, data |-> Empty, writers |-> {}]

NoOperation == [pc |-> "idle"]

FileOperation == [pc : {"open", "flush", "rename"}, kind : Kinds, id : Ids,
              stamp : 1..MaxOps, new : Catalog]

Stored(c) == {id \in Ids : c[id] # Absent}

\* mutant: a run is recorded whether or not the workflow still exists
ApplicableAlways(kind, id, c) == kind = "create" => c[id] = Absent

(* create raises for an id in use, replace and record_run for an unknown one;
   deleting an unknown one changes nothing. *)
Applicable(kind, id, c) == (kind = "create") <=> (c[id] = Absent)

Apply(kind, id, stamp, c) ==
  [c EXCEPT ![id] = IF kind = "delete" THEN Absent ELSE stamp]

(* _read, the change and the size check.  An unreadable file raises. *)
BeginChange(t) == \E kind \in Kinds, id \in Ids :
  /\ op[t] = NoOperation /\ begun < MaxOps /\ file.text = "whole"
  /\ Applicable(kind, id, file.catalog)
  /\ LET new == Apply(kind, id, begun + 1, file.catalog) IN
       /\ Cardinality(Stored(new)) <= MaxWorkflows
       /\ op' = [op EXCEPT ![t] = [pc |-> "open", kind |-> kind, id |-> id,
                                   stamp |-> begun + 1, new |-> new]]
  /\ begun' = begun + 1
  /\ UNCHANGED <<file, tmp>>

\* mutant: the file itself is rewritten
OpenTempInPlace(t) ==
  /\ op[t] # NoOperation /\ op[t].pc = "open"
  /\ tmp' = [exists |-> TRUE, data |-> Empty, writers |-> tmp.writers \cup {t}]
  /\ file' = Empty
  /\ op' = [op EXCEPT ![t].pc = "flush"]
  /\ UNCHANGED begun

(* write_text truncates the temporary file and writes when it closes it. *)
OpenTemp(t) ==
  /\ op[t] # NoOperation /\ op[t].pc = "open"
  /\ tmp' = [exists |-> TRUE, data |-> Empty, writers |-> tmp.writers \cup {t}]
  /\ op' = [op EXCEPT ![t].pc = "flush"]
  /\ UNCHANGED <<file, begun>>

CloseTemp(t) == tmp.writers \ {t}

(* Over the text of another writer a shorter text leaves a tail behind. *)
FlushTemp(t) ==
  /\ op[t] # NoOperation /\ op[t].pc = "flush"
  /\ \E data \in {Whole(op[t].new)} \cup (IF tmp.data = Empty THEN {} ELSE {Garbled}) :
       tmp' = [tmp EXCEPT !.data = data, !.writers = CloseTemp(t)]
  /\ op' = [op EXCEPT ![t].pc = "rename"]
  /\ UNCHANGED <<file, begun>>

(* The disk is full: write_text raises, and what was written stays. *)
FlushFails(t) ==
  /\ op[t] # NoOperation /\ op[t].pc = "flush"
  /\ tmp' = [tmp EXCEPT !.data = Garbled, !.writers = @ \ {t}]
  /\ op' = [op EXCEPT ![t] = NoOperation]
  /\ UNCHANGED <<file, begun>>

RenameTemp(t) ==
  /\ op[t] # NoOperation /\ op[t].pc = "rename"
  /\ tmp.exists /\ tmp.writers = {}
  /\ file' = tmp.data
  /\ tmp' = NoTmp
  /\ op' = [op EXCEPT ![t] = NoOperation]
  /\ UNCHANGED begun

(* The temporary file is gone or in use, or a reader has the file open: the
   temporary file is removed if that is possible, and the call raises. *)
RenameFails(t) ==
  /\ op[t] # NoOperation /\ op[t].pc = "rename"
  /\ tmp' = IF tmp.writers = {} THEN NoTmp ELSE tmp
  /\ op' = [op EXCEPT ![t] = NoOperation]
  /\ UNCHANGED <<file, begun>>

ProcessDies ==
  /\ op' = [t \in Threads |-> NoOperation]
  /\ tmp' = [tmp EXCEPT !.writers = {}]
  /\ UNCHANGED <<file, begun>>

FInit ==
  /\ file = Whole(Nothing)
  /\ tmp = NoTmp
  /\ op = [t \in Threads |-> NoOperation]
  /\ begun = 0

FNext ==
  \/ \E t \in Threads : \/ BeginChange(t) \/ OpenTemp(t) \/ FlushTemp(t) \/ FlushFails(t)
                        \/ RenameTemp(t) \/ RenameFails(t)
  \/ ProcessDies

FSpec == FInit /\ [][FNext]_fvars

-----------------------------------------------------------------------------
(* Properties *)

(* Types, and the open handles are those of the threads that write. *)
FTypeOK ==
  /\ file \in Data /\ begun \in 0..MaxOps
  /\ tmp \in [exists : BOOLEAN, data : Data, writers : SUBSET Threads]
  /\ op \in [Threads -> FileOperation \cup {NoOperation}]
  /\ tmp.writers = {t \in Threads : op[t].pc = "flush"}

(* "Atomic local JSON persistence" (workflows.py:225): whatever fails, and
   whenever the process dies, the file goes from one whole catalog to the one
   that a single operation makes of it, and only an operation that still
   applies to it does so. *)
FileChangesByOneOperation ==
  [][file' # file =>
       /\ file.text = "whole"
       /\ \E t \in Threads :
            /\ op[t] # NoOperation
            /\ Applicable(op[t].kind, op[t].id, file.catalog)
            /\ file' = Whole(Apply(op[t].kind, op[t].id, op[t].stamp, file.catalog))]_fvars

=============================================================================
