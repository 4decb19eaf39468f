----------------------------- MODULE SelfCoding -----------------------------
(***************************************************************************)
(* The checkpoint lifecycle of the guarded coding loop                     *)
(* (self_coding/agent.py): `run` previews work on a branch of its own,     *)
(* `approve_checkpoint` promotes it to main, `undo_checkpoint` discards or *)
(* reverts it.  Each operation is the sequence of Git commands and         *)
(* metadata writes the code issues; a step is one command that changes the *)
(* repository, the remote or the metadata, with the reads just before it.  *)
(***************************************************************************)
EXTENDS GitHistory

CONSTANTS
  Procs,        \* agents that may operate on the clone: CLI runs, desktop
  MaxPasses,    \* bound on SelfCodingConfig.max_passes
  MaxOthers,    \* bound on unrelated commits made by people
  Faults,       \* which of AllFaults the environment may inject
  BackendActs   \* what the coding CLI may do, a subset of AllActs

AllFaults == {"crash", "push_timeout", "save", "git", "raise"}
AllActs   == {"nothing", "edit", "commit", "commit_edit", "switch_edit"}
Main      == "main"

ASSUME IdsAssumption    == Main \notin Ids /\ Ids # {}
ASSUME ProcsAssumption  == Procs # {}
ASSUME BoundsAssumption == MaxPasses \in Nat \ {0} /\ MaxOthers \in Nat
ASSUME FaultsAssumption == Faults \subseteq AllFaults
ASSUME ActsAssumption   == BackendActs \subseteq AllActs

VARIABLES
  head,     \* the branch HEAD is attached to
  ref,      \* the local branches: branch -> history
  tree,     \* goals whose edits are uncommitted in the work tree
  origin,   \* main of the remote
  meta,     \* .git/jarvis-checkpoints/<id>.json
  op,       \* the operation each process is in the middle of
  used,     \* ids handed out by _new_branch
  asked,    \* ids whose promotion somebody explicitly requested
  others,   \* number of unrelated commits so far
  raised    \* history: the ids an operation left where a command raised

repo == <<head, ref, tree>>
vars == <<head, ref, tree, origin, meta, op, used, asked, others, raised>>

-----------------------------------------------------------------------------
(* Checkpoints; an id is also the name of the checkpoint's branch. *)

Branches == {Main} \cup Ids
States == {"absent", "pending", "promoting", "approved", "undoing", "undone"}

Checkpoint == [id : Ids, state : States, baseline : History, base : Branches,
               commits : Seq(History), promoted : History]

Absent(c) == [id |-> c, state |-> "absent", baseline |-> NoCommit, base |-> Main,
              commits |-> <<>>, promoted |-> NoCommit]

\* mutant: the two values swapped
MarkSwapped(cp, s, sha) == [cp EXCEPT !.state = sha, !.promoted = s]

Mark(cp, s, sha) == [cp EXCEPT !.state = s, !.promoted = sha]

RunPcs     == {"branch", "backend", "verify", "commit", "record", "publish",
               "reset", "restore", "delete", "unlink"}
ApprovePcs == {"claim", "switch", "merge", "note", "push", "finish",
               "abort", "release", "back"}
UndoPcs    == {"leave", "drop", "dropped", "uswitch", "revert", "umark",
               "upush", "ufinish", "uabort", "urelease"}
Pcs        == {"idle"} \cup RunPcs \cup ApprovePcs \cup UndoPcs

Operation == [pc : Pcs, cp : Checkpoint, prev : Branches, left : Nat]

Idle == [pc |-> "idle", cp |-> Absent(CHOOSE c \in Ids : TRUE),
         prev |-> Main, left |-> 0]

AllIdle == \A p \in Procs : op[p].pc = "idle"

(* validate_repo: a clean tree on an attached branch. *)
Clean == tree = {}

-----------------------------------------------------------------------------
(* Shared steps *)

At(p, pc)   == op[p].pc = pc
Goto(p, pc) == op' = [op EXCEPT ![p].pc = pc]
Done(p)     == op' = [op EXCEPT ![p] = Idle]

Save(cp) == meta' = [meta EXCEPT ![cp.id] = cp]

(* A metadata write that fails raises OSError before anything is replaced. *)
SaveFails == "save" \in Faults /\ UNCHANGED meta

(* A Git command whose exit status is not zero and that changed nothing. *)
GitFails == "git" \in Faults

(* A command that times out, or whose executable is missing, raises instead. *)
GitRaises == "raise" \in Faults

CanSwitch(b) == ref[b] # NoCommit

(* push origin main: the remote accepts a fast-forward only. *)
PushLands == IsPrefix(origin, ref[Main]) /\ origin' = ref[Main]

Keep(h) == ref' = [ref EXCEPT ![head] = h]

-----------------------------------------------------------------------------
(* run *)

(* validate_repo, then the reads of _new_branch. *)
StartRun(p, c, passes) ==
  /\ At(p, "idle") /\ Clean /\ c \notin used
  /\ used' = used \cup {c}
  /\ op' = [op EXCEPT ![p] =
       [pc |-> "branch", prev |-> head, left |-> passes,
        cp |-> [Absent(c) EXCEPT !.state = "pending", !.baseline = ref[head],
                                 !.base = head]]]
  /\ UNCHANGED <<repo, origin, meta, asked, others, raised>>

(* switch -c: the new branch starts where HEAD is now. *)
CreateBranch(p) ==
  LET c == op[p].cp.id IN
  /\ At(p, "branch")
  /\ \/ /\ ref' = [ref EXCEPT ![c] = ref[head]]
        /\ head' = c
        /\ Goto(p, "backend")
     \/ GitFails /\ Done(p) /\ UNCHANGED <<head, ref>>
  /\ UNCHANGED <<tree, origin, meta, used, asked, others, raised>>

(* The coding CLI works in the tree; it may commit by itself or move HEAD. *)
CliActs(c, act) ==
  LET dirty == tree \cup {c} IN
  CASE act = "nothing"     -> UNCHANGED repo
    [] act = "edit"        -> tree' = dirty /\ UNCHANGED <<head, ref>>
    [] act = "commit"      -> /\ Keep(Append(ref[head], Change(dirty)))
                              /\ tree' = {} /\ UNCHANGED head
    [] act = "commit_edit" -> /\ Keep(Append(ref[head], Change(dirty)))
                              /\ tree' = {c} /\ UNCHANGED head
    [] act = "switch_edit" -> head' = Main /\ tree' = dirty /\ UNCHANGED ref

Backend(p) ==
  /\ At(p, "backend")
  /\ \E act \in BackendActs : CliActs(op[p].cp.id, act)
  /\ Goto(p, "verify") \/ Goto(p, "reset")
  /\ UNCHANGED <<origin, meta, used, asked, others, raised>>

(* Tests, quality floor and `status`: an unchanged tree is a failure. *)
Verify(p) ==
  /\ At(p, "verify")
  /\ (~Clean /\ Goto(p, "commit")) \/ Goto(p, "reset")
  /\ UNCHANGED <<repo, origin, meta, used, asked, others, raised>>

(* add --all; commit: whatever the tree holds goes on the current branch. *)
CommitPass(p) ==
  /\ At(p, "commit")
  /\ \/ /\ ~Clean
        /\ Keep(Append(ref[head], Change(tree)))
        /\ tree' = {}
        /\ Goto(p, "record")
     \/ /\ Clean \/ GitFails
        /\ Goto(p, "reset") /\ UNCHANGED <<ref, tree>>
  /\ UNCHANGED <<head, origin, meta, used, asked, others, raised>>

(* rev-parse HEAD, which may fail, then the pending checkpoint is saved. *)
RecordPass(p) ==
  LET cp == [op[p].cp EXCEPT !.commits = Append(@, ref[head])]
      left == op[p].left - 1
  IN
  /\ At(p, "record")
  /\ \/ /\ Save(cp)
        /\ op' = [op EXCEPT ![p].cp = cp, ![p].left = left,
                            ![p].pc = IF left > 0 THEN "backend" ELSE "publish"]
     \/ (SaveFails \/ (GitFails /\ UNCHANGED meta)) /\ Goto(p, "reset")
  /\ UNCHANGED <<repo, origin, used, asked, others, raised>>

(* push_branch: the remote's checkpoint branches are read by nobody, so only
   whether the push failed matters. *)
PublishBranch(p) ==
  /\ At(p, "publish")
  /\ Done(p) \/ Goto(p, "reset")
  /\ UNCHANGED <<repo, origin, meta, used, asked, others, raised>>

(* _rollback: reset --hard, clean -fd, status; whichever fails is the last. *)
ResetRun(p) ==
  /\ At(p, "reset")
  /\ \/ Keep(op[p].cp.baseline) /\ tree' = {} /\ Goto(p, "restore")
     \/ GitFails /\ Goto(p, "unlink") /\ UNCHANGED <<ref, tree>>
     \/ GitFails /\ Goto(p, "unlink") /\ Keep(op[p].cp.baseline) /\ tree' \in {{}, tree}
  /\ UNCHANGED <<head, origin, meta, used, asked, others, raised>>

\* mutant: the base branch is not restored
StayOnCheckpoint(p) ==
  /\ At(p, "restore")
  /\ Goto(p, "delete")
  /\ UNCHANGED <<repo, origin, meta, used, asked, others, raised>>

(* switch base_branch; its exit status is ignored. *)
RestoreBase(p) ==
  LET base == op[p].cp.base IN
  /\ At(p, "restore")
  /\ \/ CanSwitch(base) /\ head' = base
     \/ (~CanSwitch(base) \/ GitFails) /\ UNCHANGED head
  /\ Goto(p, "delete")
  /\ UNCHANGED <<ref, tree, origin, meta, used, asked, others, raised>>

(* branch -D refuses the branch HEAD is on. *)
CanDelete(c) == ref[c] # NoCommit /\ head # c

DeleteBranch(p) ==
  LET c == op[p].cp.id IN
  /\ At(p, "delete")
  /\ \/ CanDelete(c) /\ ref' = [ref EXCEPT ![c] = NoCommit]
     \/ (~CanDelete(c) \/ GitFails) /\ UNCHANGED ref
  /\ Goto(p, "unlink")
  /\ UNCHANGED <<head, tree, origin, meta, used, asked, others, raised>>

(* The finally clause: the metadata goes even when the rollback raised. *)
Unlink(p) ==
  /\ At(p, "unlink")
  /\ Save(Absent(op[p].cp.id))
  /\ Done(p)
  /\ UNCHANGED <<repo, origin, used, asked, others, raised>>

RunStep(p) ==
  \/ \E c \in Ids, n \in 1..MaxPasses : StartRun(p, c, n)
  \/ CreateBranch(p) \/ Backend(p) \/ Verify(p) \/ CommitPass(p)
  \/ RecordPass(p) \/ PublishBranch(p) \/ ResetRun(p) \/ RestoreBase(p)
  \/ DeleteBranch(p) \/ Unlink(p)

-----------------------------------------------------------------------------
(* approve_checkpoint *)

LastCommit(cp) == IF cp.commits = <<>> THEN NoCommit ELSE cp.commits[Len(cp.commits)]

(* _refers_to_checkpoint *)
RefersToCheckpoint(cp) ==
  ref[cp.id] # NoCommit /\ cp.commits # <<>> /\ ref[cp.id] = LastCommit(cp)

\* mutants: local main, or neither main, is compared
RemoteMainAt(sha) == origin = sha
AnyMain(sha)      == TRUE

(* fetch, then both mains are compared with the commit expected there. *)
MainsAt(sha) == origin = sha /\ ref[Main] = sha

(* Load, validate, and the comparison of both mains with the baseline.
   A refusal changes nothing. *)
StartApprove(p, c) ==
  LET cp == meta[c] IN
  /\ At(p, "idle")
  /\ cp.state = "pending" /\ Clean /\ RefersToCheckpoint(cp)
  /\ MainsAt(cp.baseline)
  /\ asked' = asked \cup {c}
  /\ op' = [op EXCEPT ![p] = [pc |-> "claim", prev |-> head, left |-> 0, cp |-> cp]]
  /\ UNCHANGED <<repo, origin, meta, used, others, raised>>

SaveClaim(p) ==
  LET cp == op[p].cp IN
  /\ At(p, "claim")
  /\ \/ Save(Mark(cp, "promoting", NoCommit)) /\ Goto(p, "switch")
     \/ SaveFails /\ Done(p)
  /\ UNCHANGED <<repo, origin, used, asked, others, raised>>

SwitchToMain(p) ==
  /\ At(p, "switch")
  /\ \/ head' = Main /\ Goto(p, "merge") /\ UNCHANGED meta
     \/ /\ GitFails /\ Done(p)
        /\ Save(op[p].cp) \/ SaveFails
        /\ UNCHANGED head
  /\ UNCHANGED <<ref, tree, origin, used, asked, others, raised>>

(* merge --ff-only, rev-parse HEAD; the second may fail after the first. *)
MergeCheckpoint(p) ==
  LET c == op[p].cp.id
      merged == IF IsPrefix(ref[head], ref[c]) THEN ref[c] ELSE ref[head]
  IN
  /\ At(p, "merge")
  /\ \/ /\ ref[c] # NoCommit
        /\ IsPrefix(ref[head], ref[c]) \/ IsPrefix(ref[c], ref[head])
        /\ Keep(merged)
        /\ \/ op' = [op EXCEPT ![p].cp.promoted = merged, ![p].pc = "note"]
           \/ GitFails /\ Goto(p, "abort")
     \/ /\ \/ GitFails
           \/ ref[c] = NoCommit
           \/ ~IsPrefix(ref[head], ref[c]) /\ ~IsPrefix(ref[c], ref[head])
        /\ Goto(p, "abort") /\ UNCHANGED ref
  /\ UNCHANGED <<head, tree, origin, meta, used, asked, others, raised>>

SavePromoted(p) ==
  LET cp == op[p].cp IN
  /\ At(p, "note")
  /\ \/ Save(Mark(cp, "promoting", cp.promoted)) /\ Goto(p, "push")
     \/ SaveFails /\ Goto(p, "abort")
  /\ UNCHANGED <<repo, origin, used, asked, others, raised>>

\* mutant: the exit status of the push is ignored
PushUnchecked(p, next, failed) ==
  (PushLands \/ UNCHANGED origin) /\ Goto(p, next)

(* The push lands, is refused, or times out with the answer unknown: _run
   turns TimeoutExpired into an error although the remote may have moved. *)
Push(p, next, failed) ==
  \/ PushLands /\ Goto(p, next)
  \/ UNCHANGED origin /\ Goto(p, failed)
  \/ "push_timeout" \in Faults /\ PushLands /\ Goto(p, failed)

PushMain(p) ==
  /\ At(p, "push")
  /\ Push(p, "finish", "abort")
  /\ UNCHANGED <<repo, meta, used, asked, others, raised>>

\* mutant: no pushed_remote flag, so a failed write takes the rollback path
SaveApprovedOrAbort(p) ==
  LET cp == op[p].cp IN
  /\ At(p, "finish")
  /\ \/ Save(Mark(cp, "approved", cp.promoted)) /\ Done(p)
     \/ SaveFails /\ Goto(p, "abort")
  /\ UNCHANGED <<repo, origin, used, asked, others, raised>>

(* A failed write is reported and the checkpoint stays promoting. *)
SaveApproved(p) ==
  LET cp == op[p].cp IN
  /\ At(p, "finish")
  /\ Save(Mark(cp, "approved", cp.promoted)) \/ SaveFails
  /\ Done(p)
  /\ UNCHANGED <<repo, origin, used, asked, others, raised>>

(* reset --hard on whatever HEAD is; its exit status is ignored. *)
ResetMain(target) ==
  \/ Keep(target) /\ tree' = {}
  \/ GitFails /\ UNCHANGED <<ref, tree>>

AbortApprove(p) ==
  /\ At(p, "abort")
  /\ ResetMain(op[p].cp.baseline)
  /\ Goto(p, "release")
  /\ UNCHANGED <<head, origin, meta, used, asked, others, raised>>

\* mutant: the rollback does not put the metadata back
ReleaseUnsaved(p) ==
  /\ At(p, "release")
  /\ Goto(p, "back")
  /\ UNCHANGED <<repo, origin, meta, used, asked, others, raised>>

SaveReleased(p) ==
  LET cp == Mark(op[p].cp, "pending", NoCommit) IN
  /\ At(p, "release")
  /\ \/ Save(cp) /\ Goto(p, "back")
     \/ SaveFails /\ Done(p)
  /\ UNCHANGED <<repo, origin, used, asked, others, raised>>

SwitchBack(p) ==
  LET prev == op[p].prev IN
  /\ At(p, "back")
  /\ \/ CanSwitch(prev) /\ head' = prev
     \/ (~CanSwitch(prev) \/ GitFails) /\ UNCHANGED head
  /\ Done(p)
  /\ UNCHANGED <<ref, tree, origin, meta, used, asked, others, raised>>

ApproveStep(p) ==
  \/ \E c \in Ids : StartApprove(p, c)
  \/ SaveClaim(p) \/ SwitchToMain(p) \/ MergeCheckpoint(p) \/ SavePromoted(p)
  \/ PushMain(p) \/ SaveApproved(p) \/ AbortApprove(p) \/ SaveReleased(p)
  \/ SwitchBack(p)

-----------------------------------------------------------------------------
(* undo_checkpoint *)

StartDiscard(p, c) ==
  LET cp == meta[c] IN
  /\ At(p, "idle") /\ cp.state = "pending" /\ Clean
  /\ op' = [op EXCEPT ![p] =
       [pc |-> IF head = c THEN "leave" ELSE "drop",
        prev |-> head, left |-> 0, cp |-> cp]]
  /\ UNCHANGED <<repo, origin, meta, used, asked, others, raised>>

LeaveBranch(p) ==
  LET base == op[p].cp.base IN
  /\ At(p, "leave")
  /\ \/ CanSwitch(base) /\ head' = base /\ Goto(p, "drop")
     \/ (~CanSwitch(base) \/ GitFails) /\ Done(p) /\ UNCHANGED head
  /\ UNCHANGED <<ref, tree, origin, meta, used, asked, others, raised>>

DropBranch(p) ==
  LET c == op[p].cp.id IN
  /\ At(p, "drop")
  /\ \/ CanDelete(c) /\ ref' = [ref EXCEPT ![c] = NoCommit] /\ Goto(p, "dropped")
     \/ (~CanDelete(c) \/ GitFails) /\ Done(p) /\ UNCHANGED ref
  /\ UNCHANGED <<head, tree, origin, meta, used, asked, others, raised>>

SaveDiscarded(p) ==
  /\ At(p, "dropped")
  /\ Save(Mark(op[p].cp, "undone", NoCommit)) \/ SaveFails
  /\ Done(p)
  /\ UNCHANGED <<repo, origin, used, asked, others, raised>>

\* mutant: the loop stops one commit early
AllButOldest(cp) == Len(cp.commits) - 1

(* The loop over reversed(commits). *)
RevertsDue(cp) == Len(cp.commits)

(* Load, validate, and the comparison of both mains with promoted_sha. *)
StartRevert(p, c) ==
  LET cp == meta[c] IN
  /\ At(p, "idle")
  /\ cp.state = "approved" /\ cp.promoted # NoCommit /\ Clean
  /\ MainsAt(cp.promoted)
  /\ op' = [op EXCEPT ![p] = [pc |-> "uswitch", prev |-> head,
                              left |-> RevertsDue(cp), cp |-> cp]]
  /\ UNCHANGED <<repo, origin, meta, used, asked, others, raised>>

SwitchToRevert(p) ==
  /\ At(p, "uswitch")
  /\ \/ head' = Main /\ Goto(p, "revert")
     \/ GitFails /\ Done(p) /\ UNCHANGED head
  /\ UNCHANGED <<ref, tree, origin, meta, used, asked, others, raised>>

(* One `revert --no-edit` of the loop, newest commit first.  A conflict is
   aborted, which restores the tree; rev-parse may fail after a revert. *)
RevertCommit(p) ==
  LET left == op[p].left IN
  /\ At(p, "revert")
  /\ \/ /\ left > 0
        /\ Keep(Append(ref[head], RevertOf(op[p].cp.commits[left])))
        /\ op' = [op EXCEPT ![p].left = left - 1]
     \/ left > 0 /\ Goto(p, "uabort") /\ UNCHANGED ref
     \/ /\ GitFails /\ left > 0
        /\ Keep(Append(ref[head], RevertOf(op[p].cp.commits[left]))) /\ Goto(p, "uabort")
     \/ left = 0 /\ Goto(p, "umark") /\ UNCHANGED ref
  /\ UNCHANGED <<head, tree, origin, meta, used, asked, others, raised>>

SaveUndoing(p) ==
  LET cp == op[p].cp IN
  /\ At(p, "umark")
  /\ \/ Save(Mark(cp, "undoing", cp.promoted)) /\ Goto(p, "upush")
     \/ SaveFails /\ Goto(p, "uabort")
  /\ UNCHANGED <<repo, origin, used, asked, others, raised>>

PushRevert(p) ==
  /\ At(p, "upush")
  /\ Push(p, "ufinish", "uabort")
  /\ UNCHANGED <<repo, meta, used, asked, others, raised>>

SaveUndone(p) ==
  LET cp == op[p].cp IN
  /\ At(p, "ufinish")
  /\ Save(Mark(cp, "undone", cp.promoted)) \/ SaveFails
  /\ Done(p)
  /\ UNCHANGED <<repo, origin, used, asked, others, raised>>

AbortRevert(p) ==
  /\ At(p, "uabort")
  /\ ResetMain(op[p].cp.promoted)
  /\ Goto(p, "urelease")
  /\ UNCHANGED <<head, origin, meta, used, asked, others, raised>>

SaveStillApproved(p) ==
  LET cp == op[p].cp IN
  /\ At(p, "urelease")
  /\ Save(Mark(cp, "approved", cp.promoted)) \/ SaveFails
  /\ Done(p)
  /\ UNCHANGED <<repo, origin, used, asked, others, raised>>

UndoStep(p) ==
  \/ \E c \in Ids : StartDiscard(p, c) \/ StartRevert(p, c)
  \/ LeaveBranch(p) \/ DropBranch(p) \/ SaveDiscarded(p)
  \/ SwitchToRevert(p) \/ RevertCommit(p) \/ SaveUndoing(p) \/ PushRevert(p)
  \/ SaveUndone(p) \/ AbortRevert(p) \/ SaveStillApproved(p)

-----------------------------------------------------------------------------
(* A command that raises outside of every try ends the operation where it is,
   the command done or not, so that the place after it is one to raise at, too.
   In `switch main` of the promotion (agent.py:446) and in `reset --hard` of an
   except clause (493, 592) the metadata is then not put back. *)
Unsettled == {"switch", "merge", "abort", "release", "uabort", "urelease"}

Unguarded(p) ==
  \/ op[p].pc \in {"branch", "leave", "drop", "dropped", "uswitch"}
  \/ At(p, "backend") /\ op[p].cp.commits = <<>>
  \/ At(p, "revert") /\ op[p].left = RevertsDue(op[p].cp)

(* In the rollback of a run the `switch` (399) that raises passes over the
   deletion; everywhere else a command that raises ends like one that fails. *)
CommandRaises(p) ==
  /\ GitRaises
  /\ \/ op[p].pc \in Unsettled /\ Done(p) /\ raised' = raised \cup {op[p].cp.id}
     \/ Unguarded(p) /\ Done(p) /\ UNCHANGED raised
     \/ op[p].pc \in {"restore", "delete"} /\ Goto(p, "unlink") /\ UNCHANGED raised
  /\ UNCHANGED <<repo, origin, meta, used, asked, others>>

-----------------------------------------------------------------------------
(* The environment *)

(* The process dies, or is interrupted by what `except Exception` lets by. *)
Crash(p) ==
  /\ "crash" \in Faults /\ ~At(p, "idle")
  /\ Done(p)
  /\ UNCHANGED <<repo, origin, meta, used, asked, others, raised>>

(* Somebody else pushes to the remote, at any moment. *)
OthersPush ==
  /\ others < MaxOthers
  /\ others' = others + 1
  /\ origin' = Append(origin, Other(others))
  /\ UNCHANGED <<repo, meta, op, used, asked, raised>>

(* The user works in the clone between operations. *)
UserCommits ==
  /\ AllIdle /\ head = Main /\ Clean /\ others < MaxOthers
  /\ others' = others + 1
  /\ Keep(Append(ref[Main], Other(others)))
  /\ UNCHANGED <<head, tree, origin, meta, op, used, asked, raised>>

UserPulls ==
  /\ AllIdle /\ head = Main /\ Clean
  /\ IsPrefix(ref[Main], origin) /\ Keep(origin)
  /\ UNCHANGED <<head, tree, origin, meta, op, used, asked, others, raised>>

(* A tree that an operation left dirty is cleaned first. *)
UserSwitches ==
  /\ AllIdle
  /\ \E b \in Branches : CanSwitch(b) /\ head' = b
  /\ tree' = {}
  /\ UNCHANGED <<ref, origin, meta, op, used, asked, others, raised>>

UserStep == UserCommits \/ UserPulls \/ UserSwitches

-----------------------------------------------------------------------------
Root == Other(MaxOthers)

Init ==
  /\ head = Main
  /\ ref = [b \in Branches |-> IF b = Main THEN <<Root>> ELSE NoCommit]
  /\ tree = {}
  /\ origin = <<Root>>
  /\ meta = [c \in Ids |-> Absent(c)]
  /\ op = [p \in Procs |-> Idle]
  /\ used = {}
  /\ asked = {}
  /\ others = 0
  /\ raised = {}

AgentStep(p) == RunStep(p) \/ ApproveStep(p) \/ UndoStep(p)

Next ==
  \/ \E p \in Procs : AgentStep(p) \/ CommandRaises(p) \/ Crash(p)
  \/ OthersPush \/ UserStep

Spec == Init /\ [][Next]_vars

-----------------------------------------------------------------------------
(* Properties *)

TypeOK ==
  /\ head \in Branches
  /\ ref \in [Branches -> History]
  /\ tree \subseteq Ids
  /\ origin \in History
  /\ meta \in [Ids -> Checkpoint]
  /\ op \in [Procs -> Operation]
  /\ used \subseteq Ids
  /\ asked \subseteq Ids
  /\ others \in 0..MaxOthers
  /\ raised \subseteq Ids

(* The loops of run and undo stay within the passes and commits they have;
   with TypeOK this is inductive. *)
LoopBounds ==
  \A p \in Procs :
    /\ op[p].pc \in {"branch", "backend", "verify", "commit", "record"} => op[p].left > 0
    /\ op[p].pc \in {"uswitch", "revert"} => op[p].left <= Len(op[p].cp.commits)

(* What an operation under way knows: its copy of the checkpoint is a pending
   one until it is promoted; before the push local main is the promoted commit;
   from the push on the remote has it for good. *)
PromotionInv ==
  \A p \in Procs :
    LET sha == op[p].cp.promoted IN
    /\ op[p].pc \in RunPcs \cup {"claim", "switch"} => op[p].cp.state = "pending"
    /\ At(p, "merge") => head = Main
    /\ op[p].pc \in {"note", "push"} => ref[Main] = sha /\ sha # NoCommit
    /\ op[p].pc \in {"finish", "uswitch", "revert", "umark", "upush", "ufinish",
                     "uabort", "urelease"} => sha # NoCommit /\ IsPrefix(sha, origin)

(* Nothing reaches the remote's main that nobody approved: "successful work
   is never published directly to main" (agent.py:6).  The work of a preview
   may sit in the tree, on a branch, below another preview or on local main
   when some other promotion pushes. *)
OnlyApprovedWorkIsPublished ==
  \A i \in 1..Len(origin) : origin[i].edits \subseteq asked

(* Metadata says "approved" only when the promoted commit is part of the
   remote's main, whatever else landed, failed, or crashed. *)
ApprovedIsPublished ==
  \A c \in Ids : meta[c].state = "approved" =>
    meta[c].promoted # NoCommit /\ IsPrefix(meta[c].promoted, origin)

(* A checkpoint whose promotion was given up is not on the remote's main
   (README.md:15, "remains pending until an explicit --approve"). *)
PendingIsUnpublished ==
  \A c \in Ids : meta[c].state = "pending" => ~IsPrefix(LastCommit(meta[c]), origin)

(* After an undo no change of the checkpoint is in effect on the remote's
   main, its discard and its revert alike (README.md:16). *)
UndoneIsReverted ==
  \A c \in Ids : meta[c].state = "undone" =>
    InEffect(meta[c].baseline, LastCommit(meta[c]), origin) = {}

(* A pending checkpoint can be discarded: undo finds its branch, and a branch
   to return to if it must leave it (README.md:16). *)
PendingCanBeDiscarded ==
  AllIdle => \A c \in Ids : meta[c].state = "pending" =>
    ref[c] # NoCommit /\ (head = c => CanSwitch(meta[c].base))

(* A failed run ends where it began: on its base branch, at its baseline,
   tree clean, with neither branch nor metadata (agent.py:4, README.md:14). *)
FailedRunLeavesNoTrace ==
  [][\A p \in Procs : Unlink(p) =>
       LET cp == op[p].cp IN
       /\ head' = cp.base /\ ref'[cp.base] = cp.baseline /\ tree' = {}
       /\ ref'[cp.id] = NoCommit /\ meta'[cp.id] = Absent(cp.id)]_vars

(* No operation, failed or not, loses a commit people made on local main:
   every reset --hard that lands there returns to where main was. *)
LocalMainKeepsOthersWork ==
  [][\A i \in 1..Len(ref[Main]) : ref[Main][i].kind = "other" =>
       i <= Len(ref'[Main]) /\ ref'[Main][i] = ref[Main][i]]_vars

(* An undo publishes reverts on top of exactly the promoted commit: it
   refuses to touch main when unrelated work has landed (README.md:17). *)
UndoTouchesOnlyItsWork ==
  [][\A p \in Procs : At(p, "upush") /\ ~At(p, "upush")' /\ origin' # origin =>
       /\ origin = op[p].cp.promoted
       /\ IsPrefix(origin, origin')
       /\ \A i \in Len(origin) + 1 .. Len(origin') : origin'[i].kind = "revert"]_vars

(* The metadata and the remote, seen as the ledger the agent promises. *)
Ledger == INSTANCE CheckpointLedger WITH
  main  <- origin,
  entry <- [c \in Ids |-> [state |-> meta[c].state, from |-> meta[c].baseline,
                           upto  |-> LastCommit(meta[c])]]

(* Every operation, with its crashes and failures, does to the metadata and
   to the remote only what the ledger allows. *)
ImplementsLedger == Ledger!LSpec

-----------------------------------------------------------------------------
(* A process that has not crashed goes on to its next command. *)
Fairness ==
  \A p \in Procs : WF_vars(~At(p, "idle") /\ AgentStep(p))

FairSpec == Spec /\ Fairness

(* A promotion or an undo under way is settled, whatever the remote does: each
   failure path of approve and undo puts the metadata back, but for a command
   that times out there (agent.py:89), which leaves it as it is for good. *)
PromotionSettles ==
  \A c \in Ids : meta[c].state \in {"promoting", "undoing"} ~>
                 meta[c].state \notin {"promoting", "undoing"} \/ c \in raised

=============================================================================
