-------------------------- MODULE SelfCodingProofs --------------------------
(***************************************************************************)
(* Proofs about SelfCoding for any set of ids, any bounds, any faults and  *)
(* any behaviour of the coding CLI.                                        *)
(***************************************************************************)
EXTENDS SelfCoding, TLAPS

-----------------------------------------------------------------------------
(* Histories *)

(* A prefix of a prefix is a prefix. *)
LEMMA PrefixTransitive ==
  ASSUME NEW a \in History, NEW b \in History, NEW c \in History,
         IsPrefix(a, b), IsPrefix(b, c)
  PROVE  IsPrefix(a, c)
<1>1. Len(a) <= Len(b) /\ Len(b) <= Len(c)
  BY DEF IsPrefix
<1>2. \A i \in 1..Len(a) : a[i] = b[i]
  <2> TAKE i \in 1..Len(a)
  <2>1. SubSeq(a, 1, Len(a))[i] = a[i] /\ SubSeq(b, 1, Len(a))[i] = b[i]
    BY <1>1 DEF History
  <2> QED BY <2>1 DEF IsPrefix
<1>3. \A i \in 1..Len(b) : b[i] = c[i]
  <2> TAKE i \in 1..Len(b)
  <2>1. SubSeq(b, 1, Len(b))[i] = b[i] /\ SubSeq(c, 1, Len(b))[i] = c[i]
    BY <1>1 DEF History
  <2> QED BY <2>1 DEF IsPrefix
<1>4. \A i \in 1..Len(a) : a[i] = c[i]
  BY <1>1, <1>2, <1>3 DEF History
<1>5. SubSeq(a, 1, Len(a)) = SubSeq(c, 1, Len(a))
  BY <1>1, <1>4 DEF History
<1> QED BY <1>1, <1>5 DEF IsPrefix, History

(* Every history is a prefix of itself and of what is appended to it. *)
LEMMA PrefixGrows ==
  ASSUME NEW h \in History, NEW x \in Commit
  PROVE  IsPrefix(h, h) /\ IsPrefix(h, Append(h, x)) /\ Append(h, x) \in History
<1>1. \A i \in 1..Len(h) : Append(h, x)[i] = h[i]
  BY DEF History
<1>2. SubSeq(h, 1, Len(h)) = SubSeq(Append(h, x), 1, Len(h))
  BY <1>1 DEF History
<1> QED BY <1>2 DEF IsPrefix, History

-----------------------------------------------------------------------------
(* Types *)

OpTypes   == op \in [Procs -> Operation] /\ LoopBounds
DataTypes == /\ head \in Branches /\ ref \in [Branches -> History]
             /\ tree \subseteq Ids /\ origin \in History
             /\ meta \in [Ids -> Checkpoint]
             /\ used \subseteq Ids /\ asked \subseteq Ids
             /\ others \in 0..MaxOthers /\ raised \subseteq Ids

TypeInv == TypeOK /\ LoopBounds

Looping == {"branch", "backend", "verify", "commit", "record"}

(* An operation that may stand at its pc: what LoopBounds says of one process. *)
InBounds(o) == /\ o.pc \in Looping => o.left > 0
               /\ o.pc \in {"uswitch", "revert"} => o.left <= Len(o.cp.commits)

LEMMA TypeInvParts == TypeInv <=> OpTypes /\ DataTypes
BY DEF TypeInv, TypeOK, OpTypes, DataTypes

LEMMA TypeInvParts2 == TypeInv' <=> OpTypes' /\ DataTypes'
BY DEF TypeInv, TypeOK, OpTypes, DataTypes

LEMMA OperationFields ==
  ASSUME NEW o \in Operation
  PROVE  /\ o.pc \in Pcs /\ o.cp \in Checkpoint /\ o.prev \in Branches /\ o.left \in Nat
         /\ o.cp.id \in Ids /\ o.cp.base \in Branches
         /\ o.cp.baseline \in History /\ o.cp.promoted \in History
         /\ o.cp.commits \in Seq(History)
BY DEF Operation, Checkpoint

LEMMA CurrentOperation ==
  ASSUME OpTypes, NEW p \in Procs
  PROVE  op[p] \in Operation /\ InBounds(op[p])
BY DEF OpTypes, LoopBounds, InBounds, Looping

(* What the helpers of the agent build. *)
LEMMA ValueTypes ==
  /\ \A c \in Ids : Absent(c) \in Checkpoint
  /\ Idle \in Operation /\ InBounds(Idle)
  /\ \A cp \in Checkpoint, s \in States, sha \in History : Mark(cp, s, sha) \in Checkpoint
  /\ \A cp \in Checkpoint : LastCommit(cp) \in History
  /\ NoCommit \in History
  /\ Main \in Branches /\ Ids \subseteq Branches
<1>1. NoCommit \in History
  BY DEF NoCommit, History
<1>2. \A c \in Ids : Absent(c) \in Checkpoint
  BY <1>1 DEF Absent, Checkpoint, States, Branches
<1>3. Idle \in Operation /\ InBounds(Idle)
  BY <1>2, IdsAssumption DEF Idle, Operation, Pcs, Branches, InBounds, Looping
<1>4. \A cp \in Checkpoint, s \in States, sha \in History : Mark(cp, s, sha) \in Checkpoint
  BY DEF Mark, Checkpoint
<1>5. \A cp \in Checkpoint : LastCommit(cp) \in History
  BY <1>1 DEF LastCommit, Checkpoint
<1> QED BY <1>1, <1>2, <1>3, <1>4, <1>5 DEF Branches

(* A process that replaces its operation by a well-formed one. *)
LEMMA OpStepTypes ==
  ASSUME OpTypes, NEW p \in Procs, NEW o \in Operation, InBounds(o),
         op' = [op EXCEPT ![p] = o]
  PROVE  OpTypes'
BY DEF OpTypes, LoopBounds, InBounds, Looping

LEMMA DoneTypes ==
  ASSUME OpTypes, NEW p \in Procs, Done(p)
  PROVE  OpTypes'
BY OpStepTypes, ValueTypes DEF Done

LEMMA GotoTypes ==
  ASSUME OpTypes, NEW p \in Procs, NEW pc \in Pcs, Goto(p, pc),
         pc \in Looping => op[p].left > 0,
         pc \in {"uswitch", "revert"} => op[p].left <= Len(op[p].cp.commits)
  PROVE  OpTypes'
<1> DEFINE o == [op[p] EXCEPT !.pc = pc]
<1>1. o \in Operation /\ InBounds(o)
  BY CurrentOperation DEF Operation, InBounds, Looping
<1>2. op' = [op EXCEPT ![p] = o]
  BY DEF Goto, OpTypes
<1> QED BY <1>1, <1>2, OpStepTypes

LEMMA SaveTypes ==
  ASSUME DataTypes, NEW cp \in Checkpoint, Save(cp)
  PROVE  meta' \in [Ids -> Checkpoint]
BY DEF DataTypes, Save, Checkpoint

LEMMA KeepTypes ==
  ASSUME DataTypes, NEW h \in History, Keep(h)
  PROVE  ref' \in [Branches -> History]
BY DEF DataTypes, Keep

LEMMA CommitTypes ==
  ASSUME DataTypes, NEW e \in SUBSET Ids, NEW h \in History
  PROVE  /\ Append(ref[head], Change(e)) \in History
         /\ Append(ref[head], RevertOf(h)) \in History
<1>1. Change(e) \in Commit /\ RevertOf(h) \in Commit
  BY DEF Change, RevertOf, Commit, History
<1> QED BY <1>1 DEF DataTypes, History

(* Every step of run preserves the types. *)
LEMMA RunTypes ==
  ASSUME TypeInv, NEW p \in Procs, RunStep(p)
  PROVE  TypeInv'
<1>0. OpTypes /\ DataTypes /\ op[p] \in Operation /\ InBounds(op[p])
  BY TypeInvParts, CurrentOperation
<1> USE <1>0, ValueTypes, OperationFields
<1>1. ASSUME NEW c \in Ids, NEW n \in 1..MaxPasses, StartRun(p, c, n) PROVE TypeInv'
  <2> DEFINE cp == [Absent(c) EXCEPT !.state = "pending", !.baseline = ref[head], !.base = head]
             o  == [pc |-> "branch", prev |-> head, left |-> n, cp |-> cp]
  <2>1. cp \in Checkpoint
    BY DEF Absent, Checkpoint, States, Branches, DataTypes, NoCommit, History
  <2>2. o \in Operation /\ InBounds(o)
    BY <2>1, BoundsAssumption DEF Operation, Pcs, RunPcs, InBounds, DataTypes
  <2>3. OpTypes'
    BY <1>1, <2>2, OpStepTypes DEF StartRun
  <2>4. DataTypes'
    BY <1>1 DEF DataTypes, StartRun, repo
  <2> QED BY <2>3, <2>4, TypeInvParts2
<1>2. CASE CreateBranch(p)
  <2>1. OpTypes'
    BY <1>2, GotoTypes, DoneTypes DEF CreateBranch, Pcs, RunPcs, InBounds, Looping, At
  <2>2. DataTypes'
    BY <1>2 DEF DataTypes, CreateBranch, repo, States
  <2> QED BY <2>1, <2>2, TypeInvParts2
<1>3. CASE Backend(p)
  <2>1. OpTypes'
    BY <1>3, GotoTypes DEF Backend, Pcs, RunPcs, InBounds, Looping, At
  <2>2. PICK act \in BackendActs : CliActs(op[p].cp.id, act)
    BY <1>3 DEF Backend
  <2>3. /\ head' \in Branches /\ ref' \in [Branches -> History] /\ tree' \subseteq Ids
    <3> DEFINE dirty == tree \cup {op[p].cp.id}
    <3>1. dirty \subseteq Ids
      BY DEF DataTypes
    <3>2. Append(ref[head], Change(dirty)) \in History
      BY <3>1, CommitTypes
    <3>3. act \in AllActs
      BY ActsAssumption
    <3> QED BY <2>2, <3>1, <3>2, <3>3, KeepTypes DEF CliActs, AllActs, DataTypes, repo
  <2>4. DataTypes'
    BY <1>3, <2>3 DEF DataTypes, Backend
  <2> QED BY <2>1, <2>4, TypeInvParts2
<1>4. CASE Verify(p)
  <2>1. OpTypes'
    BY <1>4, GotoTypes, DoneTypes DEF Verify, Pcs, RunPcs, InBounds, Looping, At
  <2>2. DataTypes'
    BY <1>4 DEF DataTypes, Verify, repo, States
  <2> QED BY <2>1, <2>2, TypeInvParts2
<1>5. CASE CommitPass(p)
  <2>1. OpTypes'
    BY <1>5, GotoTypes, DoneTypes DEF CommitPass, Pcs, RunPcs, InBounds, Looping, At
  <2>2. DataTypes'
    BY <1>5, CommitTypes, KeepTypes DEF DataTypes, CommitPass, repo, States, repo
  <2> QED BY <2>1, <2>2, TypeInvParts2
<1>6. CASE RecordPass(p)
  <2> DEFINE cp   == [op[p].cp EXCEPT !.commits = Append(@, ref[head])]
             left == op[p].left - 1
             o    == [op[p] EXCEPT !.cp = cp, !.left = left,
                                   !.pc = IF left > 0 THEN "backend" ELSE "publish"]
  <2>1. cp \in Checkpoint
    <3>1. Append(op[p].cp.commits, ref[head]) \in Seq(History)
      BY DEF DataTypes
    <3>2. \A x \in Checkpoint, s \in Seq(History) : [x EXCEPT !.commits = s] \in Checkpoint
      BY DEF Checkpoint
    <3>3. cp = [op[p].cp EXCEPT !.commits = Append(op[p].cp.commits, ref[head])]
      OBVIOUS
    <3> HIDE DEF cp
    <3> QED BY <3>1, <3>2, <3>3
  <2>2. left \in Nat
    BY <1>6 DEF RecordPass, At, InBounds, Looping
  <2>3. o \in Operation /\ InBounds(o)
    BY <2>1, <2>2 DEF Operation, InBounds, Looping, Pcs, RunPcs
  <2>4. CASE Save(cp) /\ op' = [op EXCEPT ![p].cp = cp, ![p].left = left,
                                     ![p].pc = IF left > 0 THEN "backend" ELSE "publish"]
    <3>1. op' = [op EXCEPT ![p] = o]
      BY <2>4 DEF OpTypes
    <3>2. OpTypes'
      BY <2>3, <3>1, OpStepTypes
    <3>3. DataTypes'
      BY <1>6, <2>1, <2>4, SaveTypes DEF DataTypes, RecordPass, repo
    <3> QED BY <3>2, <3>3, TypeInvParts2
  <2>5. CASE UNCHANGED meta /\ Goto(p, "reset")
    <3>1. OpTypes'
      BY <2>5, GotoTypes DEF Pcs, RunPcs, Looping
    <3>2. DataTypes'
      BY <1>6, <2>5 DEF DataTypes, RecordPass, repo
    <3> QED BY <3>1, <3>2, TypeInvParts2
  <2> QED BY <1>6, <2>4, <2>5 DEF RecordPass, SaveFails
<1>7. CASE PublishBranch(p)
  <2>1. OpTypes'
    BY <1>7, GotoTypes, DoneTypes DEF PublishBranch, Pcs, RunPcs, InBounds, Looping, At
  <2>2. DataTypes'
    BY <1>7 DEF DataTypes, PublishBranch, repo, States
  <2> QED BY <2>1, <2>2, TypeInvParts2
<1>8. CASE ResetRun(p)
  <2>1. OpTypes'
    BY <1>8, GotoTypes, DoneTypes DEF ResetRun, Pcs, RunPcs, InBounds, Looping, At
  <2>2. DataTypes'
    BY <1>8, KeepTypes DEF DataTypes, ResetRun, repo, States
  <2> QED BY <2>1, <2>2, TypeInvParts2
<1>9. CASE RestoreBase(p)
  <2>1. OpTypes'
    BY <1>9, GotoTypes, DoneTypes DEF RestoreBase, Pcs, RunPcs, InBounds, Looping, At
  <2>2. DataTypes'
    BY <1>9 DEF DataTypes, RestoreBase, repo, States
  <2> QED BY <2>1, <2>2, TypeInvParts2
<1>10. CASE DeleteBranch(p)
  <2>1. OpTypes'
    BY <1>10, GotoTypes, DoneTypes DEF DeleteBranch, Pcs, RunPcs, InBounds, Looping, At
  <2>2. DataTypes'
    BY <1>10 DEF DataTypes, DeleteBranch, repo, States
  <2> QED BY <2>1, <2>2, TypeInvParts2
<1>11. CASE Unlink(p)
  <2>1. OpTypes'
    BY <1>11, GotoTypes, DoneTypes DEF Unlink, Pcs, RunPcs, InBounds, Looping, At
  <2>2. DataTypes'
    BY <1>11, SaveTypes DEF DataTypes, Unlink, repo, States
  <2> QED BY <2>1, <2>2, TypeInvParts2
<1> QED BY <1>1, <1>2, <1>3, <1>4, <1>5, <1>6, <1>7, <1>8, <1>9, <1>10, <1>11 DEF RunStep

(* Every step of approve_checkpoint preserves the types. *)
LEMMA ApproveTypes ==
  ASSUME TypeInv, NEW p \in Procs, ApproveStep(p)
  PROVE  TypeInv'
<1>0. OpTypes /\ DataTypes /\ op[p] \in Operation /\ InBounds(op[p])
  BY TypeInvParts, CurrentOperation
<1> USE <1>0, ValueTypes, OperationFields
<1>1. ASSUME NEW c \in Ids, StartApprove(p, c) PROVE TypeInv'
  <2> DEFINE o == [pc |-> "claim", prev |-> head, left |-> 0, cp |-> meta[c]]
  <2>1. o \in Operation /\ InBounds(o)
    BY DEF Operation, Pcs, ApprovePcs, InBounds, Looping, DataTypes
  <2>2. OpTypes'
    BY <1>1, <2>1, OpStepTypes DEF StartApprove
  <2>3. DataTypes'
    BY <1>1 DEF DataTypes, StartApprove, repo
  <2> QED BY <2>2, <2>3, TypeInvParts2
<1>2. CASE SaveClaim(p)
  <2>1. OpTypes'
    BY <1>2, GotoTypes, DoneTypes DEF SaveClaim, Pcs, ApprovePcs, InBounds, Looping, At
  <2>2. DataTypes'
    BY <1>2, SaveTypes DEF DataTypes, SaveClaim, repo, States, SaveFails
  <2> QED BY <2>1, <2>2, TypeInvParts2
<1>3. CASE SwitchToMain(p)
  <2>1. OpTypes'
    BY <1>3, GotoTypes, DoneTypes DEF SwitchToMain, Pcs, ApprovePcs, InBounds, Looping, At
  <2>2. DataTypes'
    BY <1>3, SaveTypes DEF DataTypes, SwitchToMain, repo, States, SaveFails
  <2> QED BY <2>1, <2>2, TypeInvParts2
<1>4. CASE MergeCheckpoint(p)
  <2> DEFINE c == op[p].cp.id
             merged == IF IsPrefix(ref[head], ref[c]) THEN ref[c] ELSE ref[head]
             o == [op[p] EXCEPT !.cp.promoted = merged, !.pc = "note"]
  <2>1. merged \in History
    BY DEF DataTypes
  <2>2. DataTypes'
    BY <1>4, <2>1, KeepTypes DEF DataTypes, MergeCheckpoint
  <2>3. CASE op' = [op EXCEPT ![p].cp.promoted = merged, ![p].pc = "note"]
    <3>1. o \in Operation /\ InBounds(o)
      BY <2>1 DEF Operation, Checkpoint, InBounds, Looping, Pcs, ApprovePcs
    <3>2. op' = [op EXCEPT ![p] = o]
      BY <2>3 DEF OpTypes
    <3> QED BY <2>2, <3>1, <3>2, OpStepTypes, TypeInvParts2
  <2>4. CASE Goto(p, "abort")
    BY <2>2, <2>4, GotoTypes, TypeInvParts2 DEF Pcs, ApprovePcs, Looping
  <2> QED BY <1>4, <2>3, <2>4 DEF MergeCheckpoint
<1>5. CASE SavePromoted(p)
  <2>1. OpTypes'
    BY <1>5, GotoTypes, DoneTypes DEF SavePromoted, Pcs, ApprovePcs, InBounds, Looping, At
  <2>2. DataTypes'
    BY <1>5, SaveTypes DEF DataTypes, SavePromoted, repo, States, SaveFails
  <2> QED BY <2>1, <2>2, TypeInvParts2
<1>6. CASE PushMain(p)
  <2>1. OpTypes'
    BY <1>6, GotoTypes, DoneTypes DEF PushMain, Pcs, ApprovePcs, InBounds, Looping, At, Push
  <2>2. DataTypes'
    BY <1>6 DEF DataTypes, PushMain, repo, States, Push, PushLands
  <2> QED BY <2>1, <2>2, TypeInvParts2
<1>7. CASE SaveApproved(p)
  <2>1. OpTypes'
    BY <1>7, GotoTypes, DoneTypes DEF SaveApproved, Pcs, ApprovePcs, InBounds, Looping, At
  <2>2. DataTypes'
    BY <1>7, SaveTypes DEF DataTypes, SaveApproved, repo, States, SaveFails
  <2> QED BY <2>1, <2>2, TypeInvParts2
<1>8. CASE AbortApprove(p)
  <2>1. OpTypes'
    BY <1>8, GotoTypes, DoneTypes DEF AbortApprove, Pcs, ApprovePcs, InBounds, Looping, At
  <2>2. DataTypes'
    BY <1>8, KeepTypes DEF DataTypes, AbortApprove, repo, States, ResetMain
  <2> QED BY <2>1, <2>2, TypeInvParts2
<1>9. CASE SaveReleased(p)
  <2>1. OpTypes'
    BY <1>9, GotoTypes, DoneTypes DEF SaveReleased, Pcs, ApprovePcs, InBounds, Looping, At
  <2>2. DataTypes'
    BY <1>9, SaveTypes DEF DataTypes, SaveReleased, repo, States, SaveFails
  <2> QED BY <2>1, <2>2, TypeInvParts2
<1>10. CASE SwitchBack(p)
  <2>1. OpTypes'
    BY <1>10, GotoTypes, DoneTypes DEF SwitchBack, Pcs, ApprovePcs, InBounds, Looping, At
  <2>2. DataTypes'
    BY <1>10 DEF DataTypes, SwitchBack, repo, States
  <2> QED BY <2>1, <2>2, TypeInvParts2
<1> QED BY <1>1, <1>2, <1>3, <1>4, <1>5, <1>6, <1>7, <1>8, <1>9, <1>10 DEF ApproveStep

(* Every step of undo_checkpoint preserves the types. *)
LEMMA UndoTypes ==
  ASSUME TypeInv, NEW p \in Procs, UndoStep(p)
  PROVE  TypeInv'
<1>0. OpTypes /\ DataTypes /\ op[p] \in Operation /\ InBounds(op[p])
  BY TypeInvParts, CurrentOperation
<1> USE <1>0, ValueTypes, OperationFields
<1>1. ASSUME NEW c \in Ids, StartDiscard(p, c) PROVE TypeInv'
  <2> DEFINE o == [pc |-> IF head = c THEN "leave" ELSE "drop",
                   prev |-> head, left |-> 0, cp |-> meta[c]]
  <2>1. o \in Operation /\ InBounds(o)
    BY DEF Operation, Pcs, UndoPcs, InBounds, Looping, DataTypes
  <2>2. OpTypes'
    BY <1>1, <2>1, OpStepTypes DEF StartDiscard
  <2>3. DataTypes'
    BY <1>1 DEF DataTypes, StartDiscard, repo
  <2> QED BY <2>2, <2>3, TypeInvParts2
<1>2. ASSUME NEW c \in Ids, StartRevert(p, c) PROVE TypeInv'
  <2> DEFINE o == [pc |-> "uswitch", prev |-> head, left |-> RevertsDue(meta[c]),
                   cp |-> meta[c]]
  <2>1. meta[c] \in Checkpoint /\ Len(meta[c].commits) \in Nat
    BY DEF DataTypes, Checkpoint
  <2>2. o \in Operation /\ InBounds(o)
    BY <2>1 DEF Operation, Pcs, UndoPcs, InBounds, Looping, DataTypes, RevertsDue
  <2>3. OpTypes'
    BY <1>2, <2>2, OpStepTypes DEF StartRevert
  <2>4. DataTypes'
    BY <1>2 DEF DataTypes, StartRevert, repo
  <2> QED BY <2>3, <2>4, TypeInvParts2
<1>3. CASE LeaveBranch(p)
  <2>1. OpTypes'
    BY <1>3, GotoTypes, DoneTypes DEF LeaveBranch, Pcs, UndoPcs, InBounds, Looping, At
  <2>2. DataTypes'
    BY <1>3 DEF DataTypes, LeaveBranch, repo, States
  <2> QED BY <2>1, <2>2, TypeInvParts2
<1>4. CASE DropBranch(p)
  <2>1. OpTypes'
    BY <1>4, GotoTypes, DoneTypes DEF DropBranch, Pcs, UndoPcs, InBounds, Looping, At
  <2>2. DataTypes'
    BY <1>4 DEF DataTypes, DropBranch, repo, States
  <2> QED BY <2>1, <2>2, TypeInvParts2
<1>5. CASE SaveDiscarded(p)
  <2>1. OpTypes'
    BY <1>5, GotoTypes, DoneTypes DEF SaveDiscarded, Pcs, UndoPcs, InBounds, Looping, At
  <2>2. DataTypes'
    BY <1>5, SaveTypes DEF DataTypes, SaveDiscarded, repo, States, SaveFails
  <2> QED BY <2>1, <2>2, TypeInvParts2
<1>6. CASE SwitchToRevert(p)
  <2>1. OpTypes'
    BY <1>6, GotoTypes, DoneTypes DEF SwitchToRevert, Pcs, UndoPcs, InBounds, Looping, At
  <2>2. DataTypes'
    BY <1>6 DEF DataTypes, SwitchToRevert, repo, States
  <2> QED BY <2>1, <2>2, TypeInvParts2
<1>7. CASE RevertCommit(p)
  <2> DEFINE left == op[p].left
             o    == [op[p] EXCEPT !.left = left - 1]
  <2>1. CASE /\ left > 0
             /\ Keep(Append(ref[head], RevertOf(op[p].cp.commits[left])))
             /\ op' = [op EXCEPT ![p].left = left - 1]
    <3>1. op[p].cp.commits[left] \in History
      BY <1>7, <2>1 DEF RevertCommit, At, InBounds
    <3>2. DataTypes'
      BY <1>7, <2>1, <3>1, CommitTypes, KeepTypes DEF DataTypes, RevertCommit
    <3>3. o \in Operation /\ InBounds(o)
      BY <1>7, <2>1 DEF Operation, RevertCommit, At, InBounds, Looping
    <3>4. op' = [op EXCEPT ![p] = o]
      BY <2>1 DEF OpTypes
    <3> QED BY <3>2, <3>3, <3>4, OpStepTypes, TypeInvParts2
  <2>2. CASE UNCHANGED ref /\ (Goto(p, "uabort") \/ Goto(p, "umark"))
    <3>1. OpTypes'
      BY <2>2, GotoTypes DEF Pcs, UndoPcs, Looping
    <3>2. DataTypes'
      BY <1>7, <2>2 DEF DataTypes, RevertCommit
    <3> QED BY <3>1, <3>2, TypeInvParts2
  <2>3. CASE /\ op[p].left > 0 /\ Goto(p, "uabort")
             /\ Keep(Append(ref[head], RevertOf(op[p].cp.commits[op[p].left])))
    <3>1. op[p].cp.commits[op[p].left] \in History
      BY <1>7, <2>3 DEF RevertCommit, At, InBounds
    <3>2. DataTypes'
      BY <1>7, <2>3, <3>1, CommitTypes, KeepTypes DEF DataTypes, RevertCommit
    <3>3. OpTypes'
      BY <2>3, GotoTypes DEF Pcs, UndoPcs, Looping
    <3> QED BY <3>2, <3>3, TypeInvParts2
  <2> QED BY <1>7, <2>1, <2>2, <2>3 DEF RevertCommit
<1>8. CASE SaveUndoing(p)
  <2>1. OpTypes'
    BY <1>8, GotoTypes, DoneTypes DEF SaveUndoing, Pcs, UndoPcs, InBounds, Looping, At
  <2>2. DataTypes'
    BY <1>8, SaveTypes DEF DataTypes, SaveUndoing, repo, States, SaveFails
  <2> QED BY <2>1, <2>2, TypeInvParts2
<1>9. CASE PushRevert(p)
  <2>1. OpTypes'
    BY <1>9, GotoTypes, DoneTypes DEF PushRevert, Pcs, UndoPcs, InBounds, Looping, At, Push
  <2>2. DataTypes'
    BY <1>9 DEF DataTypes, PushRevert, repo, States, Push, PushLands
  <2> QED BY <2>1, <2>2, TypeInvParts2
<1>10. CASE SaveUndone(p)
  <2>1. OpTypes'
    BY <1>10, GotoTypes, DoneTypes DEF SaveUndone, Pcs, UndoPcs, InBounds, Looping, At
  <2>2. DataTypes'
    BY <1>10, SaveTypes DEF DataTypes, SaveUndone, repo, States, SaveFails
  <2> QED BY <2>1, <2>2, TypeInvParts2
<1>11. CASE AbortRevert(p)
  <2>1. OpTypes'
    BY <1>11, GotoTypes, DoneTypes DEF AbortRevert, Pcs, UndoPcs, InBounds, Looping, At
  <2>2. DataTypes'
    BY <1>11, KeepTypes DEF DataTypes, AbortRevert, repo, States, ResetMain
  <2> QED BY <2>1, <2>2, TypeInvParts2
<1>12. CASE SaveStillApproved(p)
  <2>1. OpTypes'
    BY <1>12, GotoTypes, DoneTypes DEF SaveStillApproved, Pcs, UndoPcs, InBounds, Looping, At
  <2>2. DataTypes'
    BY <1>12, SaveTypes DEF DataTypes, SaveStillApproved, repo, States, SaveFails
  <2> QED BY <2>1, <2>2, TypeInvParts2
<1> QED BY <1>1, <1>2, <1>3, <1>4, <1>5, <1>6, <1>7, <1>8, <1>9, <1>10, <1>11, <1>12 DEF UndoStep

(* A command that raises ends the operation, or passes over a deletion. *)
LEMMA RaisingEffect ==
  ASSUME NEW p \in Procs, CommandRaises(p)
  PROVE  /\ Done(p) \/ (op[p].pc \in {"restore", "delete"} /\ Goto(p, "unlink"))
         /\ UNCHANGED <<repo, origin, meta, used, asked, others>>
         /\ raised' \in {raised, raised \cup {op[p].cp.id}}
BY DEF CommandRaises

(* A crash, a command that raises, other people and the user preserve the types. *)
LEMMA EnvironmentTypes ==
  ASSUME TypeInv, OthersPush \/ UserStep \/ \E p \in Procs : CommandRaises(p) \/ Crash(p)
  PROVE  TypeInv'
<1>0. OpTypes /\ DataTypes
  BY TypeInvParts
<1>1. ASSUME NEW p \in Procs, Crash(p) PROVE TypeInv'
  BY <1>0, <1>1, DoneTypes, TypeInvParts2 DEF Crash, DataTypes, repo
<1>2. Other(others) \in Commit
  BY <1>0, BoundsAssumption DEF Other, Commit, DataTypes
<1>3. UNCHANGED op => OpTypes'
  BY <1>0 DEF OpTypes, LoopBounds
<1>4. CASE OthersPush
  BY <1>0, <1>2, <1>3, <1>4, BoundsAssumption, TypeInvParts2
     DEF OthersPush, DataTypes, History, repo
<1>5. CASE UserCommits
  <2>1. Append(ref[Main], Other(others)) \in History
    BY <1>0, <1>2, ValueTypes DEF DataTypes, History
  <2> QED BY <1>0, <1>3, <1>5, <2>1, KeepTypes, BoundsAssumption, TypeInvParts2
          DEF UserCommits, DataTypes
<1>6. CASE UserPulls
  BY <1>0, <1>3, <1>6, KeepTypes, TypeInvParts2 DEF UserPulls, DataTypes
<1>7. CASE UserSwitches
  BY <1>0, <1>3, <1>7, TypeInvParts2 DEF UserSwitches, DataTypes
<1>8. ASSUME NEW p \in Procs, CommandRaises(p) PROVE TypeInv'
  <2>1. op[p].cp.id \in Ids
    BY <1>0, CurrentOperation, OperationFields
  <2>2. DataTypes'
    BY <1>0, <1>8, <2>1, RaisingEffect DEF DataTypes, repo
  <2>3. OpTypes'
    BY <1>0, <1>8, RaisingEffect, DoneTypes, GotoTypes DEF Pcs, RunPcs, Looping
  <2> QED BY <2>2, <2>3, TypeInvParts2
<1> QED BY <1>1, <1>4, <1>5, <1>6, <1>7, <1>8 DEF UserStep

(* The types hold initially. *)
LEMMA InitTypes ==
  ASSUME Init
  PROVE  TypeInv
<1>1. Root \in Commit
  BY BoundsAssumption DEF Root, Other, Commit
<1>2. <<Root>> \in History
  BY <1>1 DEF History
<1>3. DataTypes
  BY <1>2, ValueTypes, BoundsAssumption DEF Init, DataTypes
<1>4. OpTypes
  BY ValueTypes DEF Init, OpTypes, LoopBounds, InBounds, Looping
<1> QED BY <1>3, <1>4, TypeInvParts

(* Every step preserves the types. *)
LEMMA NextTypes ==
  ASSUME TypeInv, [Next]_vars
  PROVE  TypeInv'
<1>1. CASE Next
  BY <1>1, RunTypes, ApproveTypes, UndoTypes, EnvironmentTypes DEF Next, AgentStep
<1>2. CASE UNCHANGED vars
  BY <1>2 DEF vars, TypeInv, TypeOK, LoopBounds
<1> QED BY <1>1, <1>2

(* Every operation works on well-formed branches, metadata and local copies,
   and its loops stay within the passes and commits they have. *)
THEOREM TypeCorrect == Spec => [](TypeOK /\ LoopBounds)
<1>1. Init => TypeInv
  BY InitTypes
<1>2. TypeInv /\ [Next]_vars => TypeInv'
  BY NextTypes
<1>3. Spec => []TypeInv
  BY <1>1, <1>2, PTL DEF Spec
<1> QED BY <1>3, PTL DEF TypeInv

-----------------------------------------------------------------------------
(* Promotion, for a clone with one agent at work *)

OneAgent == \A p, q \in Procs : p = q

Inv == TypeInv /\ PromotionInv /\ ApprovedIsPublished

(* What one operation knows, as PromotionInv says it of each. *)
Knows(o) ==
  /\ o.pc \in RunPcs \cup {"claim", "switch"} => o.cp.state = "pending"
  /\ o.pc = "merge" => head = Main
  /\ o.pc \in {"note", "push"} => ref[Main] = o.cp.promoted /\ o.cp.promoted # NoCommit
  /\ o.pc \in {"finish", "uswitch", "revert", "umark", "upush", "ufinish",
               "uabort", "urelease"} =>
       o.cp.promoted # NoCommit /\ IsPrefix(o.cp.promoted, origin)

LEMMA PromotionIsKnown ==
  ASSUME OneAgent, NEW p \in Procs
  PROVE  /\ PromotionInv <=> Knows(op[p])
         /\ PromotionInv' <=> Knows(op[p])'
BY DEF OneAgent, PromotionInv, Knows, At

(* The remote's main only ever grows. *)
LEMMA OriginGrows ==
  ASSUME TypeInv, [Next]_vars
  PROVE  IsPrefix(origin, origin')
<1>0. origin \in History
  BY DEF TypeInv, TypeOK
<1>1. IsPrefix(origin, origin)
  BY <1>0 DEF IsPrefix, History
<1>2. CASE OthersPush
  <2>1. Other(others) \in Commit
    BY BoundsAssumption DEF Other, Commit, TypeInv, TypeOK
  <2> QED BY <1>0, <1>2, <2>1, PrefixGrows DEF OthersPush
<1>3. ASSUME NEW p \in Procs, PushMain(p) \/ PushRevert(p) PROVE IsPrefix(origin, origin')
  BY <1>1, <1>3 DEF PushMain, PushRevert, Push, PushLands
<1>4. ASSUME NEW p \in Procs, RunStep(p) PROVE origin' = origin
  BY <1>4 DEF RunStep, StartRun, CreateBranch, Backend, Verify, CommitPass, RecordPass,
              PublishBranch, ResetRun, RestoreBase, DeleteBranch, Unlink
<1>5. ASSUME NEW p \in Procs, ApproveStep(p), ~PushMain(p) PROVE origin' = origin
  BY <1>5 DEF ApproveStep, StartApprove, SaveClaim, SwitchToMain, MergeCheckpoint,
              SavePromoted, SaveApproved, AbortApprove, SaveReleased, SwitchBack
<1>6. ASSUME NEW p \in Procs, UndoStep(p), ~PushRevert(p) PROVE origin' = origin
  BY <1>6 DEF UndoStep, StartDiscard, StartRevert, LeaveBranch, DropBranch, SaveDiscarded,
              SwitchToRevert, RevertCommit, SaveUndoing, SaveUndone, AbortRevert,
              SaveStillApproved
<1>7. ASSUME NEW p \in Procs, CommandRaises(p) \/ Crash(p) PROVE origin' = origin
  BY <1>7 DEF CommandRaises, Crash
<1>8. UserStep => origin' = origin
  BY DEF UserStep, UserCommits, UserPulls, UserSwitches
<1>9. UNCHANGED vars => origin' = origin
  BY DEF vars
<1> QED BY <1>1, <1>2, <1>3, <1>4, <1>5, <1>6, <1>7, <1>8, <1>9 DEF Next, AgentStep

(* A promoted commit stays part of the remote's main. *)
LEMMA StaysPublished ==
  ASSUME TypeInv, TypeInv', IsPrefix(origin, origin'),
         NEW sha \in History, IsPrefix(sha, origin)
  PROVE  IsPrefix(sha, origin')
BY PrefixTransitive DEF TypeInv, TypeOK

LEMMA ApprovedStays ==
  ASSUME TypeInv, TypeInv', ApprovedIsPublished, IsPrefix(origin, origin'), UNCHANGED meta
  PROVE  ApprovedIsPublished'
BY StaysPublished DEF ApprovedIsPublished, TypeInv, TypeOK, Checkpoint

(* Writing metadata is harmless unless it claims "approved" without cause. *)
LEMMA ApprovedSaved ==
  ASSUME TypeInv, ApprovedIsPublished, UNCHANGED origin,
         NEW cp \in Checkpoint, Save(cp),
         cp.state = "approved" => cp.promoted # NoCommit /\ IsPrefix(cp.promoted, origin)
  PROVE  ApprovedIsPublished'
BY DEF ApprovedIsPublished, TypeInv, TypeOK, Save

(* What a commit that exists is part of exists. *)
LEMMA NonEmptyPrefix ==
  ASSUME NEW a \in History, NEW b \in History, IsPrefix(a, b), a # NoCommit
  PROVE  b # NoCommit
BY DEF IsPrefix, NoCommit, History

(* Moving on to pc leaves the rest of the operation as it was. *)
LEMMA GotoEffect ==
  ASSUME TypeInv, NEW p \in Procs, NEW pc, Goto(p, pc)
  PROVE  op'[p].pc = pc /\ op'[p].cp = op[p].cp
BY DEF Goto, TypeInv, TypeOK, Operation

LEMMA DoneEffect ==
  ASSUME TypeInv, NEW p \in Procs, Done(p)
  PROVE  op'[p].pc = "idle"
BY DEF Done, TypeInv, TypeOK, Idle

LEMMA MarkEffect ==
  ASSUME NEW cp \in Checkpoint, NEW s \in States, NEW sha \in History
  PROVE  /\ Mark(cp, s, sha) \in Checkpoint
         /\ Mark(cp, s, sha).state = s /\ Mark(cp, s, sha).promoted = sha
BY DEF Mark, Checkpoint

(* Every step of run preserves what promotions know and claim. *)
LEMMA RunPromotion ==
  ASSUME Inv, OneAgent, NEW p \in Procs, RunStep(p)
  PROVE  PromotionInv' /\ ApprovedIsPublished'
<1>1. TypeInv /\ TypeInv' /\ ApprovedIsPublished /\ Knows(op[p]) /\ IsPrefix(origin, origin')
  BY RunTypes, OriginGrows, PromotionIsKnown DEF Inv, Next, AgentStep
<1>2. /\ op[p] \in Operation /\ op[p].cp \in Checkpoint /\ op[p].cp.promoted \in History
      /\ meta \in [Ids -> Checkpoint] /\ head \in Branches /\ ref \in [Branches -> History]
  BY <1>1, TypeInvParts, CurrentOperation, OperationFields DEF DataTypes
<1> USE <1>1, <1>2, GotoEffect, DoneEffect
<1>3. ASSUME NEW c \in Ids, NEW n \in 1..MaxPasses, StartRun(p, c, n) PROVE PromotionInv' /\ ApprovedIsPublished'
  <2>1. Knows(op[p])'
    BY <1>3 DEF StartRun, Knows, RunPcs, Absent, TypeInv, TypeOK
  <2>2. ApprovedIsPublished'
    BY <1>3, ApprovedStays DEF StartRun
  <2> QED BY <2>1, <2>2, PromotionIsKnown
<1>4. CASE CreateBranch(p)
  <2>1. Knows(op[p])'
    BY <1>4 DEF CreateBranch, Knows, At, repo, RunPcs
  <2>2. ApprovedIsPublished'
    BY <1>4, ApprovedStays DEF CreateBranch
  <2> QED BY <2>1, <2>2, PromotionIsKnown
<1>5. CASE Backend(p)
  <2>1. Knows(op[p])'
    BY <1>5 DEF Backend, Knows, At, repo, RunPcs
  <2>2. ApprovedIsPublished'
    BY <1>5, ApprovedStays DEF Backend
  <2> QED BY <2>1, <2>2, PromotionIsKnown
<1>6. CASE Verify(p)
  <2>1. Knows(op[p])'
    BY <1>6 DEF Verify, Knows, At, repo, RunPcs
  <2>2. ApprovedIsPublished'
    BY <1>6, ApprovedStays DEF Verify
  <2> QED BY <2>1, <2>2, PromotionIsKnown
<1>7. CASE CommitPass(p)
  <2>1. Knows(op[p])'
    BY <1>7 DEF CommitPass, Knows, At, repo, RunPcs
  <2>2. ApprovedIsPublished'
    BY <1>7, ApprovedStays DEF CommitPass
  <2> QED BY <2>1, <2>2, PromotionIsKnown
<1>8. CASE RecordPass(p)
  <2> DEFINE cp   == [op[p].cp EXCEPT !.commits = Append(@, ref[head])]
             left == op[p].left - 1
  <2>0. /\ cp \in Checkpoint /\ cp.state = "pending"
        /\ op'[p].pc \in {"backend", "publish", "reset"} /\ op'[p].cp.state = "pending"
        /\ Save(cp) \/ UNCHANGED meta
    <3>1. op[p].cp.state = "pending"
      BY <1>8 DEF RecordPass, Knows, At, RunPcs
    <3>2. Append(op[p].cp.commits, ref[head]) \in Seq(History)
      BY DEF Checkpoint
    <3>3. cp \in Checkpoint /\ cp.state = "pending"
      <4>1. \A x \in Checkpoint, s \in Seq(History) :
              LET y == [x EXCEPT !.commits = s] IN y \in Checkpoint /\ y.state = x.state
        BY DEF Checkpoint
      <4>2. cp = [op[p].cp EXCEPT !.commits = Append(op[p].cp.commits, ref[head])]
        OBVIOUS
      <4> HIDE DEF cp
      <4> QED BY <3>1, <3>2, <4>1, <4>2
    <3>4. CASE /\ Save(cp)
               /\ op' = [op EXCEPT ![p].cp = cp, ![p].left = left,
                                  ![p].pc = IF left > 0 THEN "backend" ELSE "publish"]
      <4>1. op'[p].cp = cp /\ op'[p].pc \in {"backend", "publish"}
        <5> HIDE DEF cp, left
        <5> QED BY <3>4 DEF Operation, TypeInv, TypeOK
      <4> QED BY <3>3, <3>4, <4>1
    <3>5. CASE UNCHANGED meta /\ Goto(p, "reset")
      BY <3>1, <3>3, <3>5
    <3> HIDE DEF cp, left
    <3> QED BY <1>8, <3>4, <3>5 DEF RecordPass, cp, left, SaveFails
  <2> HIDE DEF cp, left
  <2>1. Knows(op[p])'
    BY <2>0 DEF Knows
  <2>2. ApprovedIsPublished'
    BY <1>8, <2>0, ApprovedStays, ApprovedSaved DEF RecordPass
  <2> QED BY <2>1, <2>2, PromotionIsKnown
<1>9. CASE PublishBranch(p)
  <2>1. Knows(op[p])'
    BY <1>9 DEF PublishBranch, Knows, At, repo, RunPcs
  <2>2. ApprovedIsPublished'
    BY <1>9, ApprovedStays DEF PublishBranch
  <2> QED BY <2>1, <2>2, PromotionIsKnown
<1>10. CASE ResetRun(p)
  <2>1. Knows(op[p])'
    BY <1>10 DEF ResetRun, Knows, At, repo, RunPcs
  <2>2. ApprovedIsPublished'
    BY <1>10, ApprovedStays DEF ResetRun
  <2> QED BY <2>1, <2>2, PromotionIsKnown
<1>11. CASE RestoreBase(p)
  <2>1. Knows(op[p])'
    BY <1>11 DEF RestoreBase, Knows, At, repo, RunPcs
  <2>2. ApprovedIsPublished'
    BY <1>11, ApprovedStays DEF RestoreBase
  <2> QED BY <2>1, <2>2, PromotionIsKnown
<1>12. CASE DeleteBranch(p)
  <2>1. Knows(op[p])'
    BY <1>12 DEF DeleteBranch, Knows, At, repo, RunPcs
  <2>2. ApprovedIsPublished'
    BY <1>12, ApprovedStays DEF DeleteBranch
  <2> QED BY <2>1, <2>2, PromotionIsKnown
<1>13. CASE Unlink(p)
  <2>1. Knows(op[p])'
    BY <1>13 DEF Unlink, Knows, At, repo, RunPcs
  <2>2. ApprovedIsPublished'
    <3> DEFINE cp == Absent(op[p].cp.id)
    <3>1. cp \in Checkpoint /\ cp.state = "absent"
      BY ValueTypes, OperationFields DEF Absent
    <3> HIDE DEF cp
    <3> QED BY <1>13, <3>1, ApprovedSaved DEF Unlink, cp
  <2> QED BY <2>1, <2>2, PromotionIsKnown
<1> QED BY <1>3, <1>4, <1>5, <1>6, <1>7, <1>8, <1>9, <1>10, <1>11, <1>12, <1>13 DEF RunStep

(* Every step of approve_checkpoint preserves what promotions know and claim. *)
LEMMA ApprovePromotion ==
  ASSUME Inv, OneAgent, NEW p \in Procs, ApproveStep(p)
  PROVE  PromotionInv' /\ ApprovedIsPublished'
<1>1. TypeInv /\ TypeInv' /\ ApprovedIsPublished /\ Knows(op[p]) /\ IsPrefix(origin, origin')
  BY ApproveTypes, OriginGrows, PromotionIsKnown DEF Inv, Next, AgentStep
<1>2. /\ op[p] \in Operation /\ op[p].cp \in Checkpoint /\ op[p].cp.promoted \in History
      /\ meta \in [Ids -> Checkpoint] /\ head \in Branches /\ ref \in [Branches -> History]
  BY <1>1, TypeInvParts, CurrentOperation, OperationFields DEF DataTypes
<1> USE <1>1, <1>2, GotoEffect, DoneEffect
<1>3. ASSUME NEW c \in Ids, StartApprove(p, c) PROVE PromotionInv' /\ ApprovedIsPublished'
  <2>1. Knows(op[p])'
    BY <1>3 DEF StartApprove, Knows, RunPcs, Absent, TypeInv, TypeOK
  <2>2. ApprovedIsPublished'
    BY <1>3, ApprovedStays DEF StartApprove
  <2> QED BY <2>1, <2>2, PromotionIsKnown
<1>4. CASE SaveClaim(p)
  <2>1. Knows(op[p])'
    BY <1>4 DEF SaveClaim, Knows, At, repo, RunPcs
  <2>2. ApprovedIsPublished'
    BY <1>4, ApprovedStays, ApprovedSaved, MarkEffect, ValueTypes DEF SaveClaim, SaveFails, States, Knows, At
  <2> QED BY <2>1, <2>2, PromotionIsKnown
<1>5. CASE SwitchToMain(p)
  <2>1. Knows(op[p])'
    BY <1>5 DEF SwitchToMain, Knows, At, repo, RunPcs
  <2>2. ApprovedIsPublished'
    <3>1. op[p].cp.state = "pending"
      BY <1>5 DEF SwitchToMain, Knows, At
    <3> QED BY <1>5, <3>1, ApprovedStays, ApprovedSaved DEF SwitchToMain, SaveFails
  <2> QED BY <2>1, <2>2, PromotionIsKnown
<1>6. CASE MergeCheckpoint(p)
  <2>1. Knows(op[p])'
    <3> DEFINE c == op[p].cp.id
               merged == IF IsPrefix(ref[head], ref[c]) THEN ref[c] ELSE ref[head]
    <3>1. CASE /\ ref[c] # NoCommit
               /\ IsPrefix(ref[head], ref[c]) \/ IsPrefix(ref[c], ref[head])
               /\ Keep(merged)
               /\ op' = [op EXCEPT ![p].cp.promoted = merged, ![p].pc = "note"]
      <4>1. head = Main
        BY <1>6 DEF MergeCheckpoint, Knows, At
      <4>2. ref'[Main] = merged /\ head' = head
        BY <1>6, <3>1, <4>1 DEF MergeCheckpoint, Keep
      <4>3. merged # NoCommit
        <5>1. c \in Branches
          BY OperationFields, ValueTypes
        <5>2. ref[c] \in History /\ ref[head] \in History
          BY <5>1
        <5> HIDE DEF c
        <5> QED BY <3>1, <5>2, NonEmptyPrefix DEF merged
      <4>4. op'[p].pc = "note" /\ op'[p].cp.promoted = merged
        <5> HIDE DEF merged
        <5> QED BY <3>1 DEF TypeInv, TypeOK, Operation, Checkpoint
      <4> QED BY <4>2, <4>3, <4>4 DEF Knows, RunPcs
    <3>2. CASE Goto(p, "abort")
      BY <3>2 DEF Knows, RunPcs
    <3> QED BY <1>6, <3>1, <3>2 DEF MergeCheckpoint
  <2>2. ApprovedIsPublished'
    BY <1>6, ApprovedStays DEF MergeCheckpoint
  <2> QED BY <2>1, <2>2, PromotionIsKnown
<1>7. CASE SavePromoted(p)
  <2>1. Knows(op[p])'
    BY <1>7 DEF SavePromoted, Knows, At, repo, RunPcs
  <2>2. ApprovedIsPublished'
    BY <1>7, ApprovedStays, ApprovedSaved, MarkEffect, ValueTypes DEF SavePromoted, SaveFails, States, Knows, At
  <2> QED BY <2>1, <2>2, PromotionIsKnown
<1>8. CASE PushMain(p)
  <2>0. ref[Main] = op[p].cp.promoted /\ op[p].cp.promoted # NoCommit
    BY <1>8 DEF PushMain, Knows, At
  <2>1. Knows(op[p])'
    <3>1. CASE PushLands /\ Goto(p, "finish")
      <4>1. IsPrefix(op[p].cp.promoted, origin')
        BY <2>0, <3>1 DEF PushLands, IsPrefix, History
      <4> QED BY <2>0, <3>1, <4>1 DEF Knows, RunPcs
    <3>2. CASE Goto(p, "abort")
      BY <3>2 DEF Knows, RunPcs
    <3> QED BY <1>8, <3>1, <3>2 DEF PushMain, Push
  <2>2. ApprovedIsPublished'
    BY <1>8, ApprovedStays DEF PushMain
  <2> QED BY <2>1, <2>2, PromotionIsKnown
<1>9. CASE SaveApproved(p)
  <2>1. Knows(op[p])'
    BY <1>9 DEF SaveApproved, Knows, At, repo, RunPcs
  <2>2. ApprovedIsPublished'
    <3> DEFINE cp == Mark(op[p].cp, "approved", op[p].cp.promoted)
    <3>1. op[p].cp.promoted # NoCommit /\ IsPrefix(op[p].cp.promoted, origin)
      BY <1>9 DEF SaveApproved, Knows, At
    <3>2. "approved" \in States
      BY DEF States
    <3>3. cp \in Checkpoint /\ cp.promoted = op[p].cp.promoted
      BY <3>2, MarkEffect
    <3>4. (Save(cp) \/ UNCHANGED meta) /\ UNCHANGED origin
      BY <1>9 DEF SaveApproved, SaveFails
    <3> HIDE DEF cp
    <3> QED BY <3>1, <3>3, <3>4, ApprovedStays, ApprovedSaved
  <2> QED BY <2>1, <2>2, PromotionIsKnown
<1>10. CASE AbortApprove(p)
  <2>1. Knows(op[p])'
    BY <1>10 DEF AbortApprove, Knows, At, repo, RunPcs
  <2>2. ApprovedIsPublished'
    BY <1>10, ApprovedStays DEF AbortApprove
  <2> QED BY <2>1, <2>2, PromotionIsKnown
<1>11. CASE SaveReleased(p)
  <2>1. Knows(op[p])'
    BY <1>11 DEF SaveReleased, Knows, At, repo, RunPcs
  <2>2. ApprovedIsPublished'
    BY <1>11, ApprovedStays, ApprovedSaved, MarkEffect, ValueTypes DEF SaveReleased, SaveFails, States, Knows, At
  <2> QED BY <2>1, <2>2, PromotionIsKnown
<1>12. CASE SwitchBack(p)
  <2>1. Knows(op[p])'
    BY <1>12 DEF SwitchBack, Knows, At, repo, RunPcs
  <2>2. ApprovedIsPublished'
    BY <1>12, ApprovedStays DEF SwitchBack
  <2> QED BY <2>1, <2>2, PromotionIsKnown
<1> QED BY <1>3, <1>4, <1>5, <1>6, <1>7, <1>8, <1>9, <1>10, <1>11, <1>12 DEF ApproveStep

(* Every step of undo_checkpoint preserves what promotions know and claim. *)
LEMMA UndoPromotion ==
  ASSUME Inv, OneAgent, NEW p \in Procs, UndoStep(p)
  PROVE  PromotionInv' /\ ApprovedIsPublished'
<1>1. TypeInv /\ TypeInv' /\ ApprovedIsPublished /\ Knows(op[p]) /\ IsPrefix(origin, origin')
  BY UndoTypes, OriginGrows, PromotionIsKnown DEF Inv, Next, AgentStep
<1>2. /\ op[p] \in Operation /\ op[p].cp \in Checkpoint /\ op[p].cp.promoted \in History
      /\ meta \in [Ids -> Checkpoint] /\ head \in Branches /\ ref \in [Branches -> History]
  BY <1>1, TypeInvParts, CurrentOperation, OperationFields DEF DataTypes
<1> USE <1>1, <1>2, GotoEffect, DoneEffect
<1>3. ASSUME NEW c \in Ids, StartDiscard(p, c) PROVE PromotionInv' /\ ApprovedIsPublished'
  <2>1. Knows(op[p])'
    BY <1>3 DEF StartDiscard, Knows, RunPcs, Absent, TypeInv, TypeOK
  <2>2. ApprovedIsPublished'
    BY <1>3, ApprovedStays DEF StartDiscard
  <2> QED BY <2>1, <2>2, PromotionIsKnown
<1>4. ASSUME NEW c \in Ids, StartRevert(p, c) PROVE PromotionInv' /\ ApprovedIsPublished'
  <2>1. Knows(op[p])'
    BY <1>4 DEF StartRevert, Knows, RunPcs, Absent, TypeInv, TypeOK, ApprovedIsPublished, MainsAt
  <2>2. ApprovedIsPublished'
    BY <1>4, ApprovedStays DEF StartRevert
  <2> QED BY <2>1, <2>2, PromotionIsKnown
<1>5. CASE LeaveBranch(p)
  <2>1. Knows(op[p])'
    BY <1>5 DEF LeaveBranch, Knows, At, repo, RunPcs
  <2>2. ApprovedIsPublished'
    BY <1>5, ApprovedStays DEF LeaveBranch
  <2> QED BY <2>1, <2>2, PromotionIsKnown
<1>6. CASE DropBranch(p)
  <2>1. Knows(op[p])'
    BY <1>6 DEF DropBranch, Knows, At, repo, RunPcs
  <2>2. ApprovedIsPublished'
    BY <1>6, ApprovedStays DEF DropBranch
  <2> QED BY <2>1, <2>2, PromotionIsKnown
<1>7. CASE SaveDiscarded(p)
  <2>1. Knows(op[p])'
    BY <1>7 DEF SaveDiscarded, Knows, At, repo, RunPcs
  <2>2. ApprovedIsPublished'
    BY <1>7, ApprovedStays, ApprovedSaved, MarkEffect, ValueTypes DEF SaveDiscarded, SaveFails, States, Knows, At
  <2> QED BY <2>1, <2>2, PromotionIsKnown
<1>8. CASE SwitchToRevert(p)
  <2>1. Knows(op[p])'
    BY <1>8 DEF SwitchToRevert, Knows, At, repo, RunPcs
  <2>2. ApprovedIsPublished'
    BY <1>8, ApprovedStays DEF SwitchToRevert
  <2> QED BY <2>1, <2>2, PromotionIsKnown
<1>9. CASE RevertCommit(p)
  <2>1. Knows(op[p])'
    <3>1. op'[p].cp = op[p].cp /\ op'[p].pc \in {"revert", "uabort", "umark"}
      BY <1>9 DEF RevertCommit, At, TypeInv, TypeOK, Operation
    <3> QED BY <1>9, <3>1 DEF RevertCommit, Knows, At, RunPcs
  <2>2. ApprovedIsPublished'
    BY <1>9, ApprovedStays DEF RevertCommit
  <2> QED BY <2>1, <2>2, PromotionIsKnown
<1>10. CASE SaveUndoing(p)
  <2>1. Knows(op[p])'
    BY <1>10 DEF SaveUndoing, Knows, At, repo, RunPcs
  <2>2. ApprovedIsPublished'
    BY <1>10, ApprovedStays, ApprovedSaved, MarkEffect, ValueTypes DEF SaveUndoing, SaveFails, States, Knows, At
  <2> QED BY <2>1, <2>2, PromotionIsKnown
<1>11. CASE PushRevert(p)
  <2>1. Knows(op[p])'
    <3>1. op[p].cp.promoted # NoCommit /\ IsPrefix(op[p].cp.promoted, origin)
      BY <1>11 DEF PushRevert, Knows, At
    <3>2. IsPrefix(op[p].cp.promoted, origin')
      BY <3>1, StaysPublished
    <3>3. op'[p].cp = op[p].cp /\ op'[p].pc \in {"ufinish", "uabort"}
      BY <1>11 DEF PushRevert, Push
    <3> QED BY <3>1, <3>2, <3>3 DEF Knows, RunPcs
  <2>2. ApprovedIsPublished'
    BY <1>11, ApprovedStays DEF PushRevert
  <2> QED BY <2>1, <2>2, PromotionIsKnown
<1>12. CASE SaveUndone(p)
  <2>1. Knows(op[p])'
    BY <1>12 DEF SaveUndone, Knows, At, repo, RunPcs
  <2>2. ApprovedIsPublished'
    BY <1>12, ApprovedStays, ApprovedSaved, MarkEffect, ValueTypes DEF SaveUndone, SaveFails, States, Knows, At
  <2> QED BY <2>1, <2>2, PromotionIsKnown
<1>13. CASE AbortRevert(p)
  <2>1. Knows(op[p])'
    BY <1>13 DEF AbortRevert, Knows, At, repo, RunPcs
  <2>2. ApprovedIsPublished'
    BY <1>13, ApprovedStays DEF AbortRevert
  <2> QED BY <2>1, <2>2, PromotionIsKnown
<1>14. CASE SaveStillApproved(p)
  <2>1. Knows(op[p])'
    BY <1>14 DEF SaveStillApproved, Knows, At, repo, RunPcs
  <2>2. ApprovedIsPublished'
    <3> DEFINE cp == Mark(op[p].cp, "approved", op[p].cp.promoted)
    <3>1. op[p].cp.promoted # NoCommit /\ IsPrefix(op[p].cp.promoted, origin)
      BY <1>14 DEF SaveStillApproved, Knows, At
    <3>2. "approved" \in States
      BY DEF States
    <3>3. cp \in Checkpoint /\ cp.promoted = op[p].cp.promoted
      BY <3>2, MarkEffect
    <3>4. (Save(cp) \/ UNCHANGED meta) /\ UNCHANGED origin
      BY <1>14 DEF SaveStillApproved, SaveFails
    <3> HIDE DEF cp
    <3> QED BY <3>1, <3>3, <3>4, ApprovedStays, ApprovedSaved
  <2> QED BY <2>1, <2>2, PromotionIsKnown
<1> QED BY <1>3, <1>4, <1>5, <1>6, <1>7, <1>8, <1>9, <1>10, <1>11, <1>12, <1>13, <1>14 DEF UndoStep

(* So do crashes, other people and the user. *)
LEMMA EnvironmentPromotion ==
  ASSUME Inv, OneAgent, OthersPush \/ UserStep \/ \E p \in Procs : CommandRaises(p) \/ Crash(p)
  PROVE  PromotionInv' /\ ApprovedIsPublished'
<1>1. TypeInv /\ TypeInv' /\ ApprovedIsPublished /\ IsPrefix(origin, origin')
  BY EnvironmentTypes, OriginGrows DEF Inv, Next
<1>2. ApprovedIsPublished'
  BY <1>1, ApprovedStays DEF OthersPush, UserStep, UserCommits, UserPulls, UserSwitches, CommandRaises, Crash
<1>3. ASSUME NEW p \in Procs PROVE Knows(op[p])'
  <2>1. Knows(op[p]) /\ op[p].cp.promoted \in History
    BY PromotionIsKnown, <1>1, TypeInvParts, CurrentOperation, OperationFields DEF Inv
  <2>2. CASE OthersPush
    BY <1>1, <2>1, <2>2, StaysPublished DEF OthersPush, Knows, repo
  <2>3. CASE UserStep
    BY <2>3 DEF UserStep, UserCommits, UserPulls, UserSwitches, Knows, AllIdle, RunPcs
  <2>4. CASE Crash(p)
    BY <1>1, <2>4, DoneEffect DEF Crash, Knows, RunPcs
  <2>5. CASE CommandRaises(p) /\ Done(p)
    BY <1>1, <2>5, DoneEffect DEF Knows, RunPcs
  <2>6. CASE op[p].pc \in {"restore", "delete"} /\ Goto(p, "unlink")
    BY <1>1, <2>1, <2>6, GotoEffect DEF Knows, RunPcs
  <2> QED BY <2>2, <2>3, <2>4, <2>5, <2>6, RaisingEffect DEF OneAgent
<1> QED BY <1>2, <1>3, PromotionIsKnown, ProcsAssumption

(* What every operation knows of promotions, and what the metadata claims, is
   preserved by every step. *)
LEMMA PromotionNext ==
  ASSUME OneAgent, Inv, [Next]_vars
  PROVE  Inv'
<1>1. TypeInv'
  BY NextTypes DEF Inv
<1>2. CASE Next
  BY <1>1, <1>2, RunPromotion, ApprovePromotion, UndoPromotion, EnvironmentPromotion
     DEF Next, AgentStep, Inv
<1>3. CASE UNCHANGED vars
  BY <1>1, <1>3 DEF vars, Inv, PromotionInv, ApprovedIsPublished, At
<1> QED BY <1>2, <1>3

LEMMA PromotionInit == ASSUME Init PROVE Inv
BY InitTypes, ValueTypes DEF Init, Inv, PromotionInv, ApprovedIsPublished, Idle, At, Absent, RunPcs

(* A checkpoint whose metadata says "approved" names a commit that is part of
   the remote's main, and stays so: whatever the coding CLI does, whoever
   else pushes, wherever the agent crashes, whichever write or command fails,
   and whether or not a timed-out push went through. *)
THEOREM ApprovedIsAlwaysPublished ==
  ASSUME OneAgent
  PROVE  Spec => []ApprovedIsPublished
<1>1. Init => Inv
  BY PromotionInit
<1>2. Inv /\ [Next]_vars => Inv'
  BY PromotionNext
<1>3. Inv => ApprovedIsPublished
  BY DEF Inv
<1> QED BY <1>1, <1>2, <1>3, PTL DEF Spec

=============================================================================
