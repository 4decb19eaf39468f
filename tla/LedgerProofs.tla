------------------------------ MODULE LedgerProofs ------------------------------
(***************************************************************************)
(* The agent implements the checkpoint ledger, step by step, and an undo   *)
(* leaves none of its checkpoint's work in effect: one agent in the clone, *)
(* a push whose answer arrives, and a coding CLI that leaves committing to *)
(* the loop.  SelfCodingFaults shows what goes wrong without the second    *)
(* (agent.py:493) and the third (agent.py:549); that nothing keeps a       *)
(* second agent out of the clone is what SelfCodingTwoAgents shows.        *)
(***************************************************************************)
EXTENDS CheckpointProofs

NoPushTimeouts == "push_timeout" \notin Faults
LoopCommits    == BackendActs \cap {"commit", "commit_edit"} = {}

-----------------------------------------------------------------------------
(* What is not promoted is not out *)

(* No commit of h holds work of checkpoint c. *)
NotOut(c, h) == \A i \in 1..Len(h) : c \notin h[i].edits

(* Previewed, withdrawn or discarded, but never pushed. *)
Unpublished(cp) ==
  cp.state \in {"absent", "pending"} \/ (cp.state = "undone" /\ cp.promoted = NoCommit)

(* The steps of an approval before its push, and those of its rollback. *)
HoldPcs == {"claim", "switch", "merge", "note", "push", "abort", "release"}

OutInv ==
  /\ \A c \in Ids : Unpublished(meta[c]) => NotOut(c, origin)
  /\ \A p \in Procs : op[p].pc \in HoldPcs => NotOut(op[p].cp.id, origin)

(* A history that ends in work of c is not below one that holds none of it. *)
LEMMA NotBelow ==
  ASSUME NEW c \in Ids, NEW h \in History, NEW g \in History, EndsIn(c, h), NotOut(c, g)
  PROVE  ~IsPrefix(h, g)
<1> SUFFICES ASSUME IsPrefix(h, g) PROVE FALSE
  OBVIOUS
<1>1. Len(h) \in Nat \ {0} /\ Len(h) <= Len(g) /\ h[Len(h)] = g[Len(h)] /\ Len(g) \in Nat
  BY PrefixPointwise, HistoryFacts DEF EndsIn
<1>2. c \in g[Len(h)].edits
  BY <1>1, ChangeFields DEF EndsIn
<1> QED BY <1>1, <1>2 DEF NotOut

(* Metadata written over metadata as unpublished as before. *)
LEMMA OutSaved ==
  ASSUME TypeInv, OutInv, NEW p \in Procs, OneAgent, NEW cp \in Checkpoint, Save(cp), UNCHANGED origin,
         Unpublished(cp) => Unpublished(meta[cp.id]) \/ NotOut(cp.id, origin),
         op'[p].pc \in HoldPcs => NotOut(op'[p].cp.id, origin)
  PROVE  OutInv'
<1>1. meta \in [Ids -> Checkpoint] /\ cp.id \in Ids
  BY TypeInvParts DEF DataTypes, Checkpoint
<1>2. meta'[cp.id] = cp /\ \A d \in Ids \ {cp.id} : meta'[d] = meta[d]
  BY <1>1 DEF Save
<1>3. ASSUME NEW d \in Ids PROVE Unpublished(meta[d])' => NotOut(d, origin)'
  BY <1>1, <1>2 DEF OutInv, Unpublished, NotOut
<1>4. ASSUME NEW q \in Procs PROVE (op[q].pc \in HoldPcs => NotOut(op[q].cp.id, origin))'
  BY DEF OneAgent, NotOut
<1> QED BY <1>3, <1>4 DEF OutInv

LEMMA OutKept ==
  ASSUME OutInv, NEW p \in Procs, OneAgent, UNCHANGED <<meta, origin>>,
         op'[p].pc \in HoldPcs => NotOut(op'[p].cp.id, origin)
  PROVE  OutInv'
<1>1. ASSUME NEW d \in Ids PROVE Unpublished(meta[d])' => NotOut(d, origin)'
  BY DEF OutInv, Unpublished, NotOut
<1>2. ASSUME NEW q \in Procs PROVE (op[q].pc \in HoldPcs => NotOut(op[q].cp.id, origin))'
  BY DEF OneAgent, NotOut
<1> QED BY <1>1, <1>2 DEF OutInv

(* A history that grows by commits without work of c. *)
LEMMA OutGrows ==
  ASSUME NEW c \in Ids, NEW h \in History, NEW g \in History, NotOut(c, h), IsPrefix(h, g),
         \A i \in Len(h) + 1 .. Len(g) : c \notin g[i].edits
  PROVE  NotOut(c, g)
<1>1. Len(h) \in Nat /\ Len(g) \in Nat /\ \A i \in 1..Len(h) : h[i] = g[i]
  BY PrefixPointwise, HistoryFacts
<1> QED BY <1>1 DEF NotOut

LEMMA OutRun ==
  ASSUME OneAgent, Inv, CloneInv, OutInv, NEW p \in Procs, RunStep(p)
  PROVE  OutInv'
<1>1. /\ TypeInv /\ Phase(op[p]) /\ op[p] \in Operation /\ op[p].cp \in Checkpoint /\ op[p].cp.id \in Ids
      /\ op \in [Procs -> Operation] /\ ref[head] \in History
  BY OnePhase, TypeInvParts, CurrentOperation, OperationFields DEF Inv, DataTypes, TypeInv, TypeOK
<1> USE <1>1
<1>2. CASE RecordPass(p)
  <2> DEFINE cp   == [op[p].cp EXCEPT !.commits = Append(@, ref[head])]
             left == op[p].left - 1
  <2>1. cp \in Checkpoint /\ cp.id = op[p].cp.id
    <3>1. Append(op[p].cp.commits, ref[head]) \in Seq(History)
      BY DEF Checkpoint
    <3>2. \A x \in Checkpoint, s \in Seq(History) :
            [x EXCEPT !.commits = s] \in Checkpoint /\ [x EXCEPT !.commits = s].id = x.id
      BY DEF Checkpoint
    <3>3. cp = [op[p].cp EXCEPT !.commits = Append(op[p].cp.commits, ref[head])]
      OBVIOUS
    <3> HIDE DEF cp
    <3> QED BY <3>1, <3>2, <3>3
  <2> HIDE DEF cp, left
  <2>2. Unpublished(meta[cp.id]) /\ UNCHANGED origin
    BY <1>2, <2>1 DEF RecordPass, At, Phase, RunInv, RunPcs, Unpublished
  <2>3. CASE /\ Save(cp)
             /\ op' = [op EXCEPT ![p].cp = cp, ![p].left = left,
                                ![p].pc = IF left > 0 THEN "backend" ELSE "publish"]
    <3>1. op'[p].pc \notin HoldPcs
      BY <2>3 DEF Operation, HoldPcs
    <3> QED BY <2>1, <2>2, <2>3, <3>1, OutSaved
  <2>4. CASE UNCHANGED meta /\ Goto(p, "reset")
    BY <2>2, <2>4, GotoEffect, OutKept DEF HoldPcs
  <2> QED BY <1>2, <2>3, <2>4 DEF RecordPass, SaveFails, cp, left
<1>3. CASE Unlink(p)
  <2>1. Unpublished(meta[op[p].cp.id])
    BY <1>3 DEF Unlink, At, Phase, RunInv, RunPcs, Unpublished
  <2>2. Absent(op[p].cp.id) \in Checkpoint /\ Absent(op[p].cp.id).id = op[p].cp.id
    BY ValueTypes DEF Absent
  <2> QED BY <1>3, <2>1, <2>2, DoneEffect, OutSaved DEF Unlink, HoldPcs
<1>4. ASSUME NEW c \in Ids, NEW n \in 1..MaxPasses, StartRun(p, c, n) PROVE OutInv'
  BY <1>4, OutKept DEF StartRun, HoldPcs
<1>5. CASE /\ UNCHANGED <<meta, origin>>
           /\ Done(p) \/ \E pc \in {"backend", "verify", "commit", "record", "reset", "restore", "delete", "unlink"} : Goto(p, pc)
  <2>1. op'[p].pc \notin HoldPcs
    BY <1>5, GotoEffect, DoneEffect DEF HoldPcs, Pcs, RunPcs
  <2> QED BY <1>5, <2>1, OutKept
<1> QED BY <1>2, <1>3, <1>4, <1>5
        DEF RunStep, CreateBranch, Backend, Verify, CommitPass, PublishBranch, ResetRun, RestoreBase, DeleteBranch, repo

LEMMA OutApprove ==
  ASSUME OneAgent, NoPushTimeouts, Inv, CloneInv, OutInv, NEW p \in Procs, ApproveStep(p)
  PROVE  OutInv'
<1> DEFINE o == op[p]
           c == op[p].cp.id
<1>1. /\ TypeInv /\ RepoInv /\ Phase(o) /\ o \in Operation /\ o.cp \in Checkpoint /\ c \in Ids
      /\ op \in [Procs -> Operation] /\ ref \in [Branches -> History] /\ origin \in History
      /\ o.cp.promoted \in History /\ o.cp.baseline \in History /\ meta \in [Ids -> Checkpoint] /\ Main \in Branches
      /\ o.pc \in HoldPcs => NotOut(c, origin)
      /\ "pending" \in States /\ "promoting" \in States /\ "approved" \in States /\ NoCommit \in History
  BY OnePhase, TypeInvParts, CurrentOperation, OperationFields, ValueTypes
     DEF Inv, DataTypes, TypeInv, TypeOK, OutInv, States
<1>2. ASSUME NEW s \in States, NEW sha \in History
      PROVE  Mark(o.cp, s, sha) \in Checkpoint /\ Mark(o.cp, s, sha).id = c /\ Mark(o.cp, s, sha).state = s
  <2> DEFINE cp == o.cp
  <2>1. cp \in Checkpoint
    BY <1>1
  <2> HIDE DEF cp
  <2>2. Mark(cp, s, sha) \in Checkpoint /\ Mark(cp, s, sha).id = cp.id /\ Mark(cp, s, sha).state = s
    BY <2>1, MarkFields
  <2> QED BY <2>2 DEF cp
<1> USE <1>1
<1>3. ASSUME NEW d \in Ids, StartApprove(p, d) PROVE OutInv'
  <2>1. NotOut(d, origin) /\ meta[d].id = d
    BY <1>3 DEF StartApprove, OutInv, Unpublished, RepoInv, RecordInv
  <2> QED BY <1>3, <2>1, OutKept DEF StartApprove
<1>4. CASE SaveClaim(p)
  <2> DEFINE m == Mark(o.cp, "promoting", NoCommit)
  <2>1. m \in Checkpoint /\ m.id = c /\ m.state = "promoting"
    BY <1>2
  <2>2. NotOut(c, origin) /\ UNCHANGED origin /\ ((Save(m) /\ Goto(p, "switch")) \/ (UNCHANGED meta /\ Done(p)))
    BY <1>4 DEF SaveClaim, At, HoldPcs, SaveFails
  <2> HIDE DEF m
  <2>3. CASE Save(m) /\ Goto(p, "switch")
    BY <2>1, <2>2, <2>3, GotoEffect, OutSaved
  <2>4. CASE UNCHANGED meta /\ Done(p)
    BY <2>2, <2>4, DoneEffect, OutKept DEF HoldPcs
  <2> QED BY <2>2, <2>3, <2>4
<1>5. CASE SwitchToMain(p)
  <2>1. NotOut(c, origin) /\ UNCHANGED origin
    BY <1>5 DEF SwitchToMain, At, HoldPcs
  <2>2. CASE UNCHANGED meta
    BY <1>5, <2>1, <2>2, GotoEffect, DoneEffect, OutKept DEF SwitchToMain, HoldPcs
  <2>3. CASE Save(o.cp) /\ Done(p)
    BY <2>1, <2>3, DoneEffect, OutSaved DEF HoldPcs
  <2> QED BY <1>5, <2>2, <2>3 DEF SwitchToMain, SaveFails
<1>6. CASE MergeCheckpoint(p)
  <2>1. NotOut(c, origin) /\ UNCHANGED <<meta, origin>>
    BY <1>6 DEF MergeCheckpoint, At, HoldPcs
  <2>2. op'[p].cp.id = c
    BY <1>6, GotoEffect DEF MergeCheckpoint, Operation, Checkpoint
  <2> QED BY <2>1, <2>2, OutKept
<1>7. CASE SavePromoted(p)
  <2> DEFINE m == Mark(o.cp, "promoting", o.cp.promoted)
  <2>1. m \in Checkpoint /\ m.id = c /\ m.state = "promoting"
    BY <1>2
  <2>2. NotOut(c, origin) /\ UNCHANGED origin /\ ((Save(m) /\ Goto(p, "push")) \/ (UNCHANGED meta /\ Goto(p, "abort")))
    BY <1>7 DEF SavePromoted, At, HoldPcs, SaveFails
  <2> HIDE DEF m
  <2>3. op'[p].cp.id = c
    BY <2>2, GotoEffect
  <2> QED BY <2>1, <2>2, <2>3, OutSaved, OutKept DEF Unpublished
<1>8. CASE PushMain(p)
  <2>1. /\ meta[c].state = "promoting" /\ NotOut(c, origin) /\ UNCHANGED meta
        /\ Work(c, o.cp.baseline, ref[Main]) /\ Grown(o.cp.baseline, origin)
    BY <1>8 DEF PushMain, At, Phase, ApproveInv, ApprovePcs, HoldPcs
  <2>2. CASE PushLands /\ Goto(p, "finish")
    <3>1. op'[p].pc = "finish"
      BY <2>2, GotoEffect
    <3>2. \A i \in Len(o.cp.baseline) + 1 .. Len(ref[Main]) : ref[Main][i].kind = "change" /\ ref[Main][i].edits = {c}
      BY <2>1, ChangeFields DEF Work
    <3>3. origin = o.cp.baseline /\ origin' = ref[Main] /\ IsPrefix(origin, ref[Main])
      BY <2>1, <2>2, <3>2, PushedOnto DEF Work, PushLands
    <3>4. ASSUME NEW d \in Ids, Unpublished(meta[d]) PROVE NotOut(d, origin')
      <4>1. d # c /\ NotOut(d, origin)
        BY <2>1, <3>4 DEF OutInv, Unpublished
      <4> QED BY <3>2, <3>3, <4>1, OutGrows
    <3>5. ASSUME NEW q \in Procs PROVE (op[q].pc \in HoldPcs)' = FALSE
      BY <3>1 DEF OneAgent, HoldPcs
    <3> QED BY <2>1, <3>4, <3>5 DEF OutInv, Unpublished, NotOut
  <2>3. CASE UNCHANGED origin /\ Goto(p, "abort")
    BY <2>1, <2>3, GotoEffect, OutKept
  <2> QED BY <1>8, <2>2, <2>3 DEF PushMain, Push, NoPushTimeouts
<1>9. CASE SaveApproved(p)
  <2> DEFINE m == Mark(o.cp, "approved", o.cp.promoted)
  <2>1. m \in Checkpoint /\ m.id = c /\ m.state = "approved"
    BY <1>2
  <2>2. UNCHANGED origin /\ Done(p) /\ (Save(m) \/ UNCHANGED meta)
    BY <1>9 DEF SaveApproved, SaveFails
  <2> HIDE DEF m
  <2> QED BY <2>1, <2>2, DoneEffect, OutSaved, OutKept DEF Unpublished, HoldPcs
<1>10. CASE AbortApprove(p)
  BY <1>10, GotoEffect, OutKept DEF AbortApprove, At, HoldPcs
<1>11. CASE SaveReleased(p)
  <2> DEFINE m == Mark(o.cp, "pending", NoCommit)
  <2>1. m \in Checkpoint /\ m.id = c
    BY <1>2
  <2>2. NotOut(c, origin) /\ UNCHANGED origin /\ ((Save(m) /\ Goto(p, "back")) \/ (UNCHANGED meta /\ Done(p)))
    BY <1>11 DEF SaveReleased, At, HoldPcs, SaveFails
  <2> HIDE DEF m
  <2>3. op'[p].pc \notin HoldPcs
    BY <2>2, GotoEffect, DoneEffect DEF HoldPcs
  <2> QED BY <2>1, <2>2, <2>3, OutSaved, OutKept
<1>12. CASE SwitchBack(p)
  BY <1>12, DoneEffect, OutKept DEF SwitchBack, HoldPcs
<1> QED BY <1>3, <1>4, <1>5, <1>6, <1>7, <1>8, <1>9, <1>10, <1>11, <1>12 DEF ApproveStep

LEMMA OutUndo ==
  ASSUME OneAgent, Inv, CloneInv, OutInv, NEW p \in Procs, UndoStep(p)
  PROVE  OutInv'
<1> DEFINE o == op[p]
           c == op[p].cp.id
<1>1. /\ TypeInv /\ RepoInv /\ Phase(o) /\ Knows(o) /\ o \in Operation /\ o.cp \in Checkpoint /\ c \in Ids
      /\ op \in [Procs -> Operation] /\ ref \in [Branches -> History] /\ origin \in History
      /\ o.cp.promoted \in History /\ meta \in [Ids -> Checkpoint] /\ Main \in Branches
      /\ "undoing" \in States /\ "undone" \in States /\ "approved" \in States /\ NoCommit \in History
  BY OnePhase, PromotionIsKnown, TypeInvParts, CurrentOperation, OperationFields, ValueTypes
     DEF Inv, DataTypes, TypeInv, TypeOK, OutInv, States
<1>2. ASSUME NEW s \in States, NEW sha \in History
      PROVE  /\ Mark(o.cp, s, sha) \in Checkpoint /\ Mark(o.cp, s, sha).id = c
             /\ Mark(o.cp, s, sha).state = s /\ Mark(o.cp, s, sha).promoted = sha
  <2> DEFINE cp == o.cp
  <2>1. cp \in Checkpoint
    BY <1>1
  <2> HIDE DEF cp
  <2>2. /\ Mark(cp, s, sha) \in Checkpoint /\ Mark(cp, s, sha).id = cp.id
        /\ Mark(cp, s, sha).state = s /\ Mark(cp, s, sha).promoted = sha
    BY <2>1, MarkFields
  <2> QED BY <2>2 DEF cp
<1> USE <1>1
<1>3. ASSUME NEW m \in Checkpoint, m.id = c, Unpublished(m) => Unpublished(meta[c]),
             Save(m) \/ UNCHANGED meta, UNCHANGED origin, op'[p].pc \notin HoldPcs
      PROVE  OutInv'
  BY <1>3, OutSaved, OutKept
<1>4. ASSUME NEW d \in Ids, StartDiscard(p, d) \/ StartRevert(p, d) PROVE OutInv'
  <2>1. UNCHANGED <<meta, origin>> /\ op'[p].pc \notin HoldPcs
    BY <1>4 DEF StartDiscard, StartRevert, HoldPcs
  <2> QED BY <2>1, OutKept
<1>5. CASE SaveDiscarded(p)
  <2>1. Unpublished(meta[c])
    BY <1>5 DEF SaveDiscarded, At, Phase, UndoInv, DiscardPcs, Unpublished
  <2> QED BY <1>2, <1>3, <1>5, <2>1, DoneEffect DEF SaveDiscarded, SaveFails, HoldPcs
<1>6. CASE SaveUndoing(p)
  <2> DEFINE m == Mark(o.cp, "undoing", o.cp.promoted)
  <2>1. m \in Checkpoint /\ m.id = c /\ m.state = "undoing"
    BY <1>2
  <2>2. op'[p].pc \notin HoldPcs /\ UNCHANGED origin /\ (Save(m) \/ UNCHANGED meta)
    BY <1>6, GotoEffect DEF SaveUndoing, SaveFails, HoldPcs
  <2> HIDE DEF m
  <2> QED BY <1>3, <2>1, <2>2 DEF Unpublished
<1>7. CASE SaveUndone(p)
  <2> DEFINE m == Mark(o.cp, "undone", o.cp.promoted)
  <2>1. m \in Checkpoint /\ m.id = c /\ m.state = "undone" /\ m.promoted = o.cp.promoted
    BY <1>2
  <2>2. op'[p].pc \notin HoldPcs /\ UNCHANGED origin /\ (Save(m) \/ UNCHANGED meta)
    BY <1>7, DoneEffect DEF SaveUndone, SaveFails, HoldPcs
  <2>3. o.cp.promoted # NoCommit
    BY <1>7 DEF SaveUndone, At, Knows
  <2> HIDE DEF m
  <2> QED BY <1>3, <2>1, <2>2, <2>3 DEF Unpublished
<1>8. CASE SaveStillApproved(p)
  <2> DEFINE m == Mark(o.cp, "approved", o.cp.promoted)
  <2>1. m \in Checkpoint /\ m.id = c /\ m.state = "approved"
    BY <1>2
  <2>2. op'[p].pc \notin HoldPcs /\ UNCHANGED origin /\ (Save(m) \/ UNCHANGED meta)
    BY <1>8, DoneEffect DEF SaveStillApproved, SaveFails, HoldPcs
  <2> HIDE DEF m
  <2> QED BY <1>3, <2>1, <2>2 DEF Unpublished
<1>9. CASE PushRevert(p)
  <2>1. op'[p].pc \notin HoldPcs /\ UNCHANGED meta
    BY <1>9, GotoEffect DEF PushRevert, Push, HoldPcs
  <2>2. CASE PushLands
    <3>1. Undoes(o.cp.promoted, ref[Main]) /\ Grown(o.cp.promoted, origin)
      BY <1>9 DEF PushRevert, At, Phase, UndoInv
    <3>2. /\ origin' = ref[Main] /\ IsPrefix(origin, ref[Main])
          /\ \A i \in Len(o.cp.promoted) + 1 .. Len(ref[Main]) :
               ref[Main][i].kind # "other" /\ ref[Main][i].edits = {}
      BY <2>2, <3>1 DEF Undoes, PushLands
    <3>3. origin = o.cp.promoted
      BY <3>1, <3>2, PushedOnto DEF Undoes
    <3>4. ASSUME NEW d \in Ids, NotOut(d, origin) PROVE NotOut(d, origin')
      BY <3>2, <3>3, <3>4, OutGrows
    <3>5. \A q \in Procs : op'[q].pc \notin HoldPcs
      BY <2>1 DEF OneAgent
    <3> QED BY <2>1, <3>4, <3>5 DEF OutInv, Unpublished
  <2>3. CASE UNCHANGED origin
    BY <2>1, <2>3, OutKept
  <2> QED BY <1>9, <2>2, <2>3 DEF PushRevert, Push
<1>10. CASE RevertCommit(p)
  <2>1. UNCHANGED <<meta, origin>> /\ op'[p].pc \notin HoldPcs
    BY <1>10, GotoEffect DEF RevertCommit, At, Operation, HoldPcs
  <2> QED BY <2>1, OutKept
<1>11. CASE LeaveBranch(p) \/ DropBranch(p) \/ SwitchToRevert(p) \/ AbortRevert(p)
  <2>1. UNCHANGED <<meta, origin>> /\ op'[p].pc \notin HoldPcs
    BY <1>11, GotoEffect, DoneEffect DEF LeaveBranch, DropBranch, SwitchToRevert, AbortRevert, HoldPcs
  <2> QED BY <2>1, OutKept
<1> QED BY <1>4, <1>5, <1>6, <1>7, <1>8, <1>9, <1>10, <1>11 DEF UndoStep

LEMMA OutEnvironment ==
  ASSUME OneAgent, Inv, OutInv, OthersPush \/ UserStep \/ \E p \in Procs : CommandRaises(p) \/ Crash(p)
  PROVE  OutInv'
<1>1. /\ op \in [Procs -> Operation] /\ origin \in History /\ others \in Nat
      /\ \A p \in Procs : op[p].pc \in HoldPcs => op[p].cp.id \in Ids /\ NotOut(op[p].cp.id, origin)
  BY TypeInvParts, OperationFields, BoundsAssumption DEF OpTypes, DataTypes, Inv, OutInv
<1>2. CASE OthersPush
  <2>1. UNCHANGED <<meta, op>> /\ origin' = Append(origin, Other(others))
    BY <1>2 DEF OthersPush
  <2>2. /\ origin' \in History /\ IsPrefix(origin, origin')
        /\ \A i \in Len(origin) + 1 .. Len(origin') : origin'[i].edits = {}
    <3> DEFINE x == Other(others)
    <3>1. x \in Commit /\ x.edits = {} /\ origin' = Append(origin, x)
      BY <1>1, <2>1, ChangeFields
    <3> HIDE DEF x
    <3>2. /\ origin' \in History /\ IsPrefix(origin, origin')
          /\ Len(origin') = Len(origin) + 1 /\ origin'[Len(origin) + 1] = x /\ Len(origin) \in Nat
      BY <1>1, <3>1, Appended, PrefixGrows, HistoryFacts
    <3> QED BY <3>1, <3>2
  <2>3. ASSUME NEW d \in Ids, NotOut(d, origin) PROVE NotOut(d, origin')
    BY <1>1, <2>2, <2>3, OutGrows
  <2> QED BY <1>1, <2>1, <2>3 DEF OutInv, Unpublished
<1>3. CASE UserStep
  <2>1. UNCHANGED <<meta, op, origin>>
    BY <1>3 DEF UserStep, UserCommits, UserPulls, UserSwitches
  <2> QED BY <2>1 DEF OutInv, Unpublished, NotOut
<1>4. ASSUME NEW p \in Procs, CommandRaises(p) \/ Crash(p) PROVE OutInv'
  <2>1. UNCHANGED <<meta, origin>> /\ op'[p].pc \notin HoldPcs
    BY <1>1, <1>4, DoneEffect, GotoEffect, RaisingEffect DEF Crash, Inv, HoldPcs
  <2> QED BY <2>1, OutKept
<1> QED BY <1>2, <1>3, <1>4

LEMMA OutNext ==
  ASSUME OneAgent, NoPushTimeouts, Inv, CloneInv, OutInv, [Next]_vars
  PROVE  OutInv'
<1>1. CASE Next
  BY <1>1, OutRun, OutApprove, OutUndo, OutEnvironment DEF Next, AgentStep
<1>2. CASE UNCHANGED vars
  BY <1>2 DEF vars, OutInv, Unpublished, NotOut
<1> QED BY <1>1, <1>2

LEMMA OutInit == ASSUME Init PROVE OutInv
<1>1. Root \in Commit /\ Root.edits = {}
  BY BoundsAssumption, ChangeFields DEF Root
<1>2. \A c \in Ids : NotOut(c, origin)
  BY <1>1 DEF Init, NotOut
<1>3. \A p \in Procs : op[p].pc \notin HoldPcs
  BY DEF Init, Idle, HoldPcs
<1> QED BY <1>2, <1>3 DEF OutInv

-----------------------------------------------------------------------------
(* What is recorded of a checkpoint covers its branch *)

(* Every commit above the baseline, up to the n-th, is one of those recorded:
   the reverts of undo_checkpoint are due for the recorded ones alone. *)
Covers(cp, n) ==
  \A i \in Len(cp.baseline) + 1 .. n : \E k \in 1..Len(cp.commits) : Len(cp.commits[k]) = i

(* The steps of a promotion and of an undo that work on a copy of what was
   promoted. *)
SpanPcs == {"claim", "switch", "merge", "note", "push", "finish"} \cup (UndoPcs \ DiscardPcs)

CoverRecord(c) ==
  /\ meta[c].state # "absent" /\ ref[c] = LastCommit(meta[c]) => Covers(meta[c], Len(ref[c]))
  /\ meta[c].state = "approved" => Covers(meta[c], Len(LastCommit(meta[c])))
  /\ KeepsToBranch /\ meta[c].state # "absent" => Work(c, meta[c].baseline, LastCommit(meta[c]))

(* The passes recorded so far end below the tip of the branch, and where the
   tip has a commit more, that one is recorded next. *)
CoverPhase(o, c) ==
  /\ o.pc = "branch" => o.cp.commits = <<>>
  /\ o.pc \in CliPcs /\ head = c =>
       \A k \in 1..Len(o.cp.commits) :
         Len(o.cp.baseline) < Len(o.cp.commits[k]) /\ Len(o.cp.commits[k]) <= Len(ref[c])
  /\ o.pc = "record" /\ head = c =>
       /\ Len(o.cp.baseline) < Len(ref[c])
       /\ \A k \in 1..Len(o.cp.commits) : Len(o.cp.commits[k]) < Len(ref[c])
       /\ Covers(o.cp, Len(ref[c]) - 1)
  /\ o.pc \in CliPcs \ {"reset"} /\ ~(o.pc = "record" /\ head = c) => Covers(o.cp, Len(ref[c]))
  /\ o.pc \in SpanPcs => Covers(o.cp, Len(LastCommit(o.cp)))

CoverInv ==
  /\ \A c \in Ids : CoverRecord(c)
  /\ \A p \in Procs : CoverPhase(op[p], op[p].cp.id)

LEMMA OneCover ==
  ASSUME OneAgent, NEW p \in Procs
  PROVE  /\ CoverInv <=> (\A c \in Ids : CoverRecord(c)) /\ CoverPhase(op[p], op[p].cp.id)
         /\ CoverInv' <=> (\A c \in Ids : CoverRecord(c)') /\ CoverPhase(op[p], op[p].cp.id)'
BY DEF OneAgent, CoverInv

(* A record that is written or left as it was. *)
LEMMA RecordBecomes ==
  ASSUME NEW c \in Ids, NEW cp \in Checkpoint, meta'[c] = cp,
         cp.state # "absent" /\ ref'[c] = LastCommit(cp) => Covers(cp, Len(ref'[c])),
         cp.state = "approved" => Covers(cp, Len(LastCommit(cp))),
         KeepsToBranch /\ cp.state # "absent" => Work(c, cp.baseline, LastCommit(cp))
  PROVE  CoverRecord(c)'
<1>1. (meta[c].state # "absent" /\ ref[c] = LastCommit(meta[c]) => Covers(meta[c], Len(ref[c])))'
  BY DEF LastCommit, Covers
<1>2. (meta[c].state = "approved" => Covers(meta[c], Len(LastCommit(meta[c]))))'
  BY DEF LastCommit, Covers
<1>3. (KeepsToBranch /\ meta[c].state # "absent" => Work(c, meta[c].baseline, LastCommit(meta[c])))'
  BY DEF LastCommit, Work, IsPrefix, Change, KeepsToBranch
<1> QED BY <1>1, <1>2, <1>3 DEF CoverRecord

LEMMA RecordStays ==
  ASSUME TypeInv, NEW c \in Ids, CoverRecord(c), meta'[c] = meta[c], ref'[c] = ref[c]
  PROVE  CoverRecord(c)'
<1> DEFINE cp == meta[c]
<1>1. cp \in Checkpoint /\ meta'[c] = cp
  BY TypeInvParts DEF DataTypes
<1>2. /\ cp.state # "absent" /\ ref'[c] = LastCommit(cp) => Covers(cp, Len(ref'[c]))
      /\ cp.state = "approved" => Covers(cp, Len(LastCommit(cp)))
      /\ KeepsToBranch /\ cp.state # "absent" => Work(c, cp.baseline, LastCommit(cp))
  BY DEF CoverRecord
<1> HIDE DEF cp
<1> QED BY <1>1, <1>2, RecordBecomes

(* Branches that stay or go away leave the records covered. *)
LEMMA CoverKept ==
  ASSUME TypeInv, RepoInv, CoverInv, UNCHANGED meta,
         \A c \in Ids : \/ ref'[c] = ref[c] \/ ref'[c] = NoCommit \/ meta[c].state = "absent"
                        \/ ref'[c] # LastCommit(meta[c])
  PROVE  \A c \in Ids : CoverRecord(c)'
<1> SUFFICES ASSUME NEW c \in Ids PROVE CoverRecord(c)'
  OBVIOUS
<1>1. meta[c].state # "absent" => LastCommit(meta[c]) # NoCommit
  BY DEF RepoInv, RecordInv, EndsIn
<1> DEFINE cp == meta[c]
<1>0. cp \in Checkpoint
  BY TypeInvParts DEF DataTypes
<1>2. /\ cp.state # "absent" /\ ref[c] = LastCommit(cp) => Covers(cp, Len(ref[c]))
      /\ cp.state = "approved" => Covers(cp, Len(LastCommit(cp)))
      /\ KeepsToBranch /\ cp.state # "absent" => Work(c, cp.baseline, LastCommit(cp))
  BY DEF CoverInv, CoverRecord
<1>3. cp.state # "absent" => LastCommit(cp) # NoCommit
  BY <1>1
<1>4. meta'[c] = cp
  OBVIOUS
<1>5. \/ ref'[c] = ref[c] \/ ref'[c] = NoCommit \/ cp.state = "absent" \/ ref'[c] # LastCommit(cp)
  OBVIOUS
<1> HIDE DEF cp
<1>6. cp.state # "absent" /\ ref'[c] = LastCommit(cp) => Covers(cp, Len(ref'[c]))
  BY <1>2, <1>3, <1>5
<1> QED BY <1>0, <1>2, <1>4, <1>6, RecordBecomes

(* So does metadata that tells of the same commits in another state. *)
LEMMA CoverSaved ==
  ASSUME TypeInv, CoverInv, UNCHANGED ref, NEW cp \in Checkpoint, Save(cp),
         \/ cp.state = "absent"
         \/ /\ meta[cp.id].state # "absent"
            /\ cp.baseline = meta[cp.id].baseline /\ cp.commits = meta[cp.id].commits
            /\ cp.state = "approved" => Covers(cp, Len(LastCommit(cp)))
  PROVE  \A c \in Ids : CoverRecord(c)'
<1>1. meta \in [Ids -> Checkpoint] /\ cp.id \in Ids
  BY TypeInvParts DEF DataTypes, Checkpoint
<1>2. meta'[cp.id] = cp /\ \A d \in Ids \ {cp.id} : meta'[d] = meta[d]
  BY <1>1 DEF Save
<1> SUFFICES ASSUME NEW c \in Ids PROVE CoverRecord(c)'
  OBVIOUS
<1>3. CASE c # cp.id
  BY <1>2, <1>3, RecordStays DEF CoverInv
<1>4. CASE c = cp.id
  <2>1. CASE cp.state = "absent"
    BY <1>2, <1>4, <2>1 DEF CoverRecord
  <2>2. CASE cp.state # "absent"
    <3>1. LastCommit(cp) = LastCommit(meta[c])
      BY <1>4, <2>2 DEF LastCommit
    <3>2. \A n : Covers(cp, n) <=> Covers(meta[c], n)
      BY <1>4, <2>2 DEF Covers
    <3>3. ref[c] = LastCommit(cp) => Covers(cp, Len(ref[c]))
      BY <1>4, <2>2, <3>1, <3>2 DEF CoverInv, CoverRecord
    <3>4. CoverRecord(c)'
      <4>1. meta'[c] = cp
        BY <1>2, <1>4
      <4>2. LastCommit(meta'[c]) = LastCommit(cp) /\ \A n : Covers(meta'[c], n) <=> Covers(cp, n)
        BY <4>1
      <4>3. KeepsToBranch => Work(c, cp.baseline, LastCommit(cp))
        BY <1>4, <2>2, <3>1 DEF CoverInv, CoverRecord
      <4> QED BY <2>2, <3>3, <4>1, <4>2, <4>3 DEF CoverRecord, LastCommit, Covers, Work
    <3> QED BY <3>4
  <2> QED BY <2>1, <2>2
<1> QED BY <1>3, <1>4

(* A step outside the CLI's part of a run, on a copy that was covered. *)
LEMMA CoverCopied ==
  ASSUME NEW p \in Procs, op'[p].pc \notin CliPcs \cup {"branch"},
         op'[p].pc \in SpanPcs =>
           /\ op[p].pc \in SpanPcs /\ CoverPhase(op[p], op[p].cp.id)
           /\ op'[p].cp.baseline = op[p].cp.baseline /\ op'[p].cp.commits = op[p].cp.commits
  PROVE  CoverPhase(op[p], op[p].cp.id)'
BY DEF CoverPhase, CliPcs, Covers, LastCommit

(* One more pass is recorded. *)
LEMMA CoversMore ==
  ASSUME NEW cp \in Checkpoint, NEW more \in Checkpoint, NEW h \in History,
         more.baseline = cp.baseline, more.commits = Append(cp.commits, h), NEW n \in Nat
  PROVE  /\ Covers(cp, n) => Covers(more, n)
         /\ Covers(cp, Len(h) - 1) => Covers(more, Len(h))
<1>1. /\ Len(more.commits) = Len(cp.commits) + 1 /\ more.commits[Len(cp.commits) + 1] = h
      /\ \A k \in 1..Len(cp.commits) : more.commits[k] = cp.commits[k]
      /\ Len(cp.commits) \in Nat /\ Len(h) \in Nat /\ Len(cp.baseline) \in Nat
  BY HistoryFacts DEF Checkpoint
<1>2. ASSUME NEW i \in Nat, \E k \in 1..Len(cp.commits) : Len(cp.commits[k]) = i
      PROVE  \E k \in 1..Len(more.commits) : Len(more.commits[k]) = i
  <2>1. PICK k \in 1..Len(cp.commits) : Len(cp.commits[k]) = i
    BY <1>2
  <2>2. k \in 1..Len(more.commits) /\ Len(more.commits[k]) = i
    BY <1>1, <2>1
  <2> QED BY <2>2
<1>3. Covers(cp, n) => Covers(more, n)
  BY <1>1, <1>2 DEF Covers
<1>4. ASSUME Covers(cp, Len(h) - 1) PROVE Covers(more, Len(h))
  <2> SUFFICES ASSUME NEW i \in Len(more.baseline) + 1 .. Len(h)
               PROVE  \E k \in 1..Len(more.commits) : Len(more.commits[k]) = i
    BY DEF Covers
  <2>1. CASE i = Len(h)
    <3>1. Len(cp.commits) + 1 \in 1..Len(more.commits) /\ Len(more.commits[Len(cp.commits) + 1]) = i
      BY <1>1, <2>1
    <3> QED BY <3>1
  <2>2. CASE i # Len(h)
    <3>1. i \in Len(cp.baseline) + 1 .. Len(h) - 1 /\ i \in Nat
      BY <1>1, <2>2
    <3> QED BY <1>2, <1>4, <3>1 DEF Covers
  <2> QED BY <2>1, <2>2
<1> QED BY <1>3, <1>4

LEMMA CoverRun ==
  ASSUME OneAgent, LoopCommits, Inv, CloneInv, CoverInv, NEW p \in Procs, RunStep(p)
  PROVE  CoverInv'
<1> DEFINE o == op[p]
           c == op[p].cp.id
<1>1. /\ TypeInv /\ RepoInv /\ Phase(o) /\ CoverPhase(o, c)
      /\ op \in [Procs -> Operation] /\ o \in Operation /\ o.cp \in Checkpoint /\ c \in Ids
      /\ o.cp.baseline \in History /\ o.cp.base \in Branches /\ o.cp.commits \in Seq(History)
      /\ meta \in [Ids -> Checkpoint] /\ head \in Branches /\ ref \in [Branches -> History]
      /\ Main \in Branches /\ Ids \subseteq Branches /\ Main \notin Ids
  BY OnePhase, OneCover, TypeInvParts, CurrentOperation, OperationFields, ValueTypes, IdsAssumption
     DEF Inv, DataTypes, TypeInv, TypeOK
<1> USE <1>1
<1>2. o.pc \in CliPcs =>
        /\ head \in {c, Main} /\ Work(c, o.cp.baseline, ref[c])
        /\ meta[c].state = "absent" \/ (meta[c].state = "pending" /\ Same(o))
  BY DEF Phase, RunInv, OnBranch, CliPcs, RunPcs
<1>3. meta[c].state # "absent" /\ Same(o) /\ head = c /\ o.pc \in CliPcs =>
        Len(o.cp.baseline) < Len(LastCommit(meta[c])) /\ Len(LastCommit(meta[c])) <= Len(ref[c])
  <2> SUFFICES ASSUME meta[c].state # "absent", Same(o), head = c, o.pc \in CliPcs
               PROVE  Len(o.cp.baseline) < Len(LastCommit(meta[c])) /\ Len(LastCommit(meta[c])) <= Len(ref[c])
    OBVIOUS
  <2>1. LastCommit(meta[c]) # NoCommit /\ meta[c].commits = o.cp.commits
    BY DEF RepoInv, RecordInv, EndsIn, Same
  <2>2. Len(o.cp.commits) \in 1..Len(o.cp.commits) /\ LastCommit(meta[c]) = o.cp.commits[Len(o.cp.commits)]
    BY <2>1 DEF LastCommit
  <2> QED BY <2>2 DEF CoverPhase
<1>4. ASSUME NEW d \in Ids, NEW n \in 1..MaxPasses, StartRun(p, d, n) PROVE CoverInv'
  <2>1. \A e \in Ids : CoverRecord(e)'
    BY <1>4, CoverKept DEF StartRun, repo
  <2>2. op'[p].pc = "branch" /\ op'[p].cp.commits = <<>>
    BY <1>4 DEF StartRun, Absent
  <2>3. CoverPhase(op[p], op[p].cp.id)'
    BY <2>2 DEF CoverPhase, CliPcs, SpanPcs, UndoPcs
  <2> QED BY <2>1, <2>3, OneCover
<1>5. CASE CreateBranch(p)
  <2>1. meta[c].state = "absent" /\ ref[head] = o.cp.baseline /\ o.cp.commits = <<>>
    BY <1>5 DEF CreateBranch, At, Phase, RunInv, CoverPhase
  <2>2. \A e \in Ids : CoverRecord(e)'
    BY <1>5, <2>1, CoverKept DEF CreateBranch
  <2>3. CASE ref' = [ref EXCEPT ![c] = ref[head]] /\ Goto(p, "backend")
    <3>1. op'[p].pc = "backend" /\ op'[p].cp = o.cp /\ ref'[c] = o.cp.baseline
      BY <2>1, <2>3, GotoEffect
    <3>2. CoverPhase(op[p], op[p].cp.id)'
      BY <2>1, <3>1, HistoryFacts DEF CoverPhase, Covers, SpanPcs, UndoPcs
    <3> QED BY <2>2, <3>2, OneCover
  <2>4. CASE Done(p)
    BY <2>2, <2>4, DoneEffect, CoverCopied, OneCover DEF CliPcs, SpanPcs, UndoPcs
  <2> QED BY <1>5, <2>3, <2>4 DEF CreateBranch
<1>6. CASE Backend(p)
  <2>1. PICK act \in BackendActs : CliActs(c, act)
    BY <1>6 DEF Backend
  <2>2. act \in {"nothing", "edit", "switch_edit"}
    BY ActsAssumption DEF AllActs, LoopCommits
  <2>3. UNCHANGED <<ref, meta>> /\ head' \in {head, Main}
    BY <1>6, <2>1, <2>2 DEF CliActs, repo, Backend
  <2>4. o.pc = "backend" /\ op'[p].pc \in {"verify", "reset"} /\ op'[p].cp = o.cp
    BY <1>6, GotoEffect DEF Backend, At
  <2>5. \A e \in Ids : CoverRecord(e)'
    BY <2>3, CoverKept
  <2>6. CoverPhase(op[p], op[p].cp.id)'
    BY <2>3, <2>4 DEF CoverPhase, Covers, CliPcs, SpanPcs, UndoPcs
  <2> QED BY <2>5, <2>6, OneCover
<1>7. CASE Verify(p)
  <2>1. /\ o.pc = "verify" /\ op'[p].pc \in {"commit", "reset"} /\ op'[p].cp = o.cp
        /\ UNCHANGED <<head, ref, meta>>
    BY <1>7, GotoEffect DEF Verify, At, repo
  <2>2. \A e \in Ids : CoverRecord(e)'
    BY <2>1, CoverKept
  <2>3. CoverPhase(op[p], op[p].cp.id)'
    BY <2>1 DEF CoverPhase, Covers, CliPcs, SpanPcs, UndoPcs
  <2> QED BY <2>2, <2>3, OneCover
<1>8. CASE CommitPass(p)
  <2>1. o.pc = "commit" /\ UNCHANGED <<head, meta>> /\ op'[p].cp = o.cp
    BY <1>8, GotoEffect DEF CommitPass, At
  <2>2. CASE Keep(Append(ref[head], Change(tree))) /\ Goto(p, "record")
    <3>1. op'[p].pc = "record"
      BY <2>2, GotoEffect
    <3>2. CASE head = c
      <4>1. Change(tree) \in Commit
        BY TypeInvParts DEF DataTypes, Change, Commit
      <4>2. /\ Len(ref'[c]) = Len(ref[c]) + 1 /\ \A e \in Ids \ {c} : ref'[e] = ref[e]
        BY <2>2, <3>2, <4>1, Appended DEF Keep
      <4>3. Len(o.cp.baseline) <= Len(ref[c]) /\ Len(ref[c]) \in Nat /\ Len(o.cp.baseline) \in Nat
        BY <1>2, <2>1, PrefixPointwise, HistoryFacts DEF CliPcs, Work
      <4>4. meta[c].state = "absent" \/ ref'[c] # LastCommit(meta[c])
        BY <1>2, <1>3, <2>1, <3>2, <4>2, <4>3 DEF CliPcs
      <4>5. \A e \in Ids : CoverRecord(e)'
        BY <2>1, <4>2, <4>4, CoverKept
      <4>6. Len(ref'[c]) - 1 = Len(ref[c]) /\ Covers(o.cp, Len(ref[c]))
        BY <2>1, <4>2, <4>3 DEF CoverPhase, CliPcs
      <4>7. \A k \in 1..Len(o.cp.commits) :
              /\ Len(o.cp.baseline) < Len(o.cp.commits[k]) /\ Len(o.cp.commits[k]) <= Len(ref[c])
              /\ Len(o.cp.commits[k]) \in Nat
        BY <2>1, <3>2, HistoryFacts DEF CoverPhase, CliPcs
      <4>8. \A k \in 1..Len(o.cp.commits) :
              /\ Len(o.cp.baseline) < Len(o.cp.commits[k])
              /\ Len(o.cp.commits[k]) < Len(ref'[c]) /\ Len(o.cp.commits[k]) <= Len(ref'[c])
        BY <4>2, <4>3, <4>7
      <4>9. Len(o.cp.baseline) < Len(ref'[c])
        BY <4>2, <4>3
      <4>10. CoverPhase(op[p], op[p].cp.id)'
        BY <2>1, <3>1, <3>2, <4>6, <4>8, <4>9 DEF CoverPhase, Covers, CliPcs, SpanPcs, UndoPcs
      <4> QED BY <4>5, <4>10, OneCover
    <3>3. CASE head # c
      <4>1. head = Main /\ \A e \in Ids : ref'[e] = ref[e]
        BY <1>2, <2>1, <2>2, <3>3 DEF Keep, CliPcs
      <4>2. \A e \in Ids : CoverRecord(e)'
        BY <2>1, <4>1, CoverKept
      <4>3. CoverPhase(op[p], op[p].cp.id)'
        BY <2>1, <3>1, <3>3, <4>1 DEF CoverPhase, Covers, CliPcs, SpanPcs, UndoPcs
      <4> QED BY <4>2, <4>3, OneCover
    <3> QED BY <3>2, <3>3
  <2>3. CASE Goto(p, "reset") /\ UNCHANGED ref
    <3>1. op'[p].pc = "reset"
      BY <2>3, GotoEffect
    <3>2. \A e \in Ids : CoverRecord(e)'
      BY <2>1, <2>3, CoverKept
    <3>3. CoverPhase(op[p], op[p].cp.id)'
      BY <2>1, <2>3, <3>1 DEF CoverPhase, Covers, CliPcs, SpanPcs, UndoPcs
    <3> QED BY <3>2, <3>3, OneCover
  <2> QED BY <1>8, <2>2, <2>3 DEF CommitPass
<1>9. CASE RecordPass(p)
  <2> DEFINE cp   == [op[p].cp EXCEPT !.commits = Append(@, ref[head])]
             left == op[p].left - 1
  <2>1. /\ cp \in Checkpoint /\ cp.id = c /\ cp.baseline = o.cp.baseline
        /\ cp.commits = Append(o.cp.commits, ref[head]) /\ cp.state = "pending"
    <3>1. Append(op[p].cp.commits, ref[head]) \in Seq(History)
      OBVIOUS
    <3>2. \A x \in Checkpoint, s \in Seq(History) :
            LET y == [x EXCEPT !.commits = s] IN
            /\ y \in Checkpoint /\ y.id = x.id /\ y.baseline = x.baseline /\ y.commits = s
            /\ y.state = x.state
      BY DEF Checkpoint
    <3>3. cp = [op[p].cp EXCEPT !.commits = Append(op[p].cp.commits, ref[head])]
      OBVIOUS
    <3>4. o.cp.state = "pending"
      BY <1>9, PromotionIsKnown DEF RecordPass, At, Inv, Knows, RunPcs
    <3> HIDE DEF cp
    <3> QED BY <3>1, <3>2, <3>3, <3>4
  <2> HIDE DEF cp, left
  <2>2. o.pc = "record" /\ UNCHANGED <<head, ref>>
    BY <1>9 DEF RecordPass, At, repo
  <2>3. CASE /\ Save(cp)
             /\ op' = [op EXCEPT ![p].cp = cp, ![p].left = left,
                                ![p].pc = IF left > 0 THEN "backend" ELSE "publish"]
    <3>1. op'[p].pc \in {"backend", "publish"} /\ op'[p].cp = cp
      BY <2>3 DEF Operation
    <3>2. Covers(cp, Len(ref[c]))
      <4>0. /\ ref[c] \in History /\ ref[head] \in History /\ Len(ref[c]) \in Nat
            /\ Covers(o.cp, Len(ref[c])) => Covers(cp, Len(ref[c]))
            /\ Covers(o.cp, Len(ref[head]) - 1) => Covers(cp, Len(ref[head]))
        <5>1. ref[c] \in History /\ ref[head] \in History /\ Len(ref[c]) \in Nat
          BY HistoryFacts
        <5>2. /\ Covers(o.cp, Len(ref[c])) => Covers(cp, Len(ref[c]))
              /\ Covers(o.cp, Len(ref[head]) - 1) => Covers(cp, Len(ref[head]))
          <6> DEFINE x == o.cp
                     h == ref[head]
                     n == Len(ref[c])
          <6>1. x \in Checkpoint /\ h \in History /\ n \in Nat /\ cp.baseline = x.baseline
                /\ cp.commits = Append(x.commits, h)
            BY <2>1, <5>1
          <6> HIDE DEF x, h, n
          <6>2. (Covers(x, n) => Covers(cp, n)) /\ (Covers(x, Len(h) - 1) => Covers(cp, Len(h)))
            BY <2>1, <6>1, CoversMore
          <6> QED BY <6>2 DEF x, h, n
        <5> QED BY <5>1, <5>2
      <4>1. CASE head = c
        BY <2>2, <4>0, <4>1 DEF CoverPhase
      <4>2. CASE head # c
        BY <2>2, <4>0, <4>2 DEF CoverPhase, CliPcs
      <4> QED BY <4>1, <4>2
    <3>3. \A e \in Ids : CoverRecord(e)'
      <4>1. meta'[c] = cp /\ \A d \in Ids \ {c} : meta'[d] = meta[d]
        BY <2>1, <2>3 DEF Save
      <4>2. ASSUME NEW d \in Ids PROVE CoverRecord(d)'
        <5>1. CASE d = c
          <6>1. LastCommit(cp) = ref[head]
            <7> DEFINE x == o.cp.commits
                       h == ref[head]
            <7>1. Len(Append(x, h)) = Len(x) + 1 /\ Append(x, h)[Len(x) + 1] = h /\ Append(x, h) # <<>>
              OBVIOUS
            <7> HIDE DEF x, h
            <7> QED BY <2>1, <7>1 DEF LastCommit, x, h
          <6>2. KeepsToBranch => Work(c, cp.baseline, LastCommit(cp))
            BY <2>1, <2>2, <6>1 DEF Phase, RunInv, CliPcs, OnBranch
          <6>3. meta'[d] = cp /\ ref'[d] = ref[c]
            BY <2>2, <4>1, <5>1
          <6>4. KeepsToBranch /\ cp.state # "absent" => Work(d, cp.baseline, LastCommit(cp))
            BY <5>1, <6>2
          <6>5. /\ cp.state # "absent" /\ ref'[d] = LastCommit(cp) => Covers(cp, Len(ref'[d]))
                /\ cp.state # "approved"
            BY <2>1, <3>2, <6>3
          <6>6. cp.state = "approved" => Covers(cp, Len(LastCommit(cp)))
            BY <6>5
          <6> QED BY <2>1, <6>3, <6>4, <6>5, <6>6, RecordBecomes
        <5>2. CASE d # c
          BY <2>2, <4>1, <5>2, RecordStays DEF CoverInv
        <5> QED BY <5>1, <5>2
      <4> QED BY <4>2
    <3>4. head = c => \A k \in 1..Len(cp.commits) :
            Len(cp.baseline) < Len(cp.commits[k]) /\ Len(cp.commits[k]) <= Len(ref[c])
      <4> SUFFICES ASSUME head = c, NEW k \in 1..Len(cp.commits)
                   PROVE  Len(cp.baseline) < Len(cp.commits[k]) /\ Len(cp.commits[k]) <= Len(ref[c])
        OBVIOUS
      <4>1. CASE k = Len(o.cp.commits) + 1
        BY <2>1, <2>2, <4>1, HistoryFacts DEF CoverPhase
      <4>2. CASE k # Len(o.cp.commits) + 1
        <5>1. k \in 1..Len(o.cp.commits) /\ cp.commits[k] = o.cp.commits[k]
          BY <2>1, <4>2
        <5> QED BY <2>1, <2>2, <5>1 DEF CoverPhase, CliPcs
      <4> QED BY <4>1, <4>2
    <3>5. CoverPhase(op[p], op[p].cp.id)'
      BY <2>1, <2>2, <3>1, <3>2, <3>4 DEF CoverPhase, Covers, CliPcs, SpanPcs, UndoPcs
    <3> QED BY <3>3, <3>5, OneCover
  <2>4. CASE UNCHANGED meta /\ Goto(p, "reset")
    <3>1. op'[p].pc = "reset" /\ op'[p].cp = o.cp /\ UNCHANGED meta
      BY <2>4, GotoEffect
    <3>2. \A e \in Ids : CoverRecord(e)'
      BY <2>2, <3>1, CoverKept
    <3>3. CoverPhase(op[p], op[p].cp.id)'
      BY <2>2, <3>1 DEF CoverPhase, Covers, CliPcs, SpanPcs, UndoPcs
    <3> QED BY <3>2, <3>3, OneCover
  <2> QED BY <1>9, <2>3, <2>4 DEF RecordPass, SaveFails, cp, left
<1>10. CASE PublishBranch(p)
  <2>1. o.pc = "publish" /\ UNCHANGED <<head, ref, meta>>
    BY <1>10 DEF PublishBranch, At, repo
  <2>2. \A e \in Ids : CoverRecord(e)'
    BY <2>1, CoverKept
  <2>3. CoverPhase(op[p], op[p].cp.id)'
    <3>1. CASE Done(p)
      BY <3>1, DoneEffect, CoverCopied DEF CliPcs, SpanPcs, UndoPcs
    <3>2. CASE Goto(p, "reset")
      BY <2>1, <3>2, GotoEffect DEF CoverPhase, Covers, CliPcs, SpanPcs, UndoPcs
    <3> QED BY <1>10, <3>1, <3>2 DEF PublishBranch
  <2> QED BY <2>2, <2>3, OneCover
<1>11. CASE ResetRun(p)
  <2>1. o.pc = "reset" /\ UNCHANGED <<head, meta>> /\ op'[p].pc \in {"restore", "unlink"}
    BY <1>11, GotoEffect DEF ResetRun, At
  <2>2. ref' = ref \/ Keep(o.cp.baseline)
    BY <1>11 DEF ResetRun
  <2>3. \A e \in Ids : \/ ref'[e] = ref[e] \/ meta[e].state = "absent" \/ ref'[e] # LastCommit(meta[e])
    <3> TAKE e \in Ids
    <3>1. CASE e = c /\ head = c
      BY <1>2, <1>3, <2>1, <2>2, <3>1, HistoryFacts DEF Keep, CliPcs
    <3>2. CASE ~(e = c /\ head = c)
      BY <1>2, <2>1, <2>2, <3>2 DEF Keep, CliPcs
    <3> QED BY <3>1, <3>2
  <2>4. CoverPhase(op[p], op[p].cp.id)'
    BY <2>1, CoverCopied DEF CliPcs, SpanPcs, UndoPcs
  <2> QED BY <2>1, <2>3, <2>4, CoverKept, OneCover
<1>12. CASE RestoreBase(p)
  <2>1. op'[p].pc = "delete" /\ UNCHANGED <<ref, meta>>
    BY <1>12, GotoEffect DEF RestoreBase
  <2> QED BY <2>1, CoverKept, CoverCopied, OneCover DEF CliPcs, SpanPcs, UndoPcs
<1>13. CASE DeleteBranch(p)
  <2>1. op'[p].pc = "unlink" /\ UNCHANGED meta
    BY <1>13, GotoEffect DEF DeleteBranch
  <2>2. \A e \in Ids : ref'[e] = ref[e] \/ ref'[e] = NoCommit
    BY <1>13 DEF DeleteBranch
  <2> QED BY <2>1, <2>2, CoverKept, CoverCopied, OneCover DEF CliPcs, SpanPcs, UndoPcs
<1>14. CASE Unlink(p)
  <2>1. Absent(c) \in Checkpoint /\ Absent(c).state = "absent" /\ Save(Absent(c)) /\ UNCHANGED ref
    BY <1>14, ValueTypes DEF Unlink, Absent, repo
  <2>2. \A e \in Ids : CoverRecord(e)'
    BY <2>1, CoverSaved
  <2>3. op'[p].pc = "idle"
    BY <1>14, DoneEffect DEF Unlink
  <2> QED BY <2>2, <2>3, CoverCopied, OneCover DEF CliPcs, SpanPcs, UndoPcs
<1> QED BY <1>4, <1>5, <1>6, <1>7, <1>8, <1>9, <1>10, <1>11, <1>12, <1>13, <1>14 DEF RunStep

(* What another state of the same commits covers. *)
LEMMA MarkCovers ==
  ASSUME NEW cp \in Checkpoint, NEW s \in States, NEW sha \in History
  PROVE  /\ Covers(cp, Len(LastCommit(cp))) <=>
              Covers(Mark(cp, s, sha), Len(LastCommit(Mark(cp, s, sha))))
         /\ Mark(cp, s, sha) \in Checkpoint /\ Mark(cp, s, sha).id = cp.id
         /\ Mark(cp, s, sha).state = s /\ Mark(cp, s, sha).promoted = sha
         /\ Mark(cp, s, sha).baseline = cp.baseline /\ Mark(cp, s, sha).commits = cp.commits
         /\ LastCommit(Mark(cp, s, sha)) = LastCommit(cp)
<1> DEFINE m == Mark(cp, s, sha)
<1>1. /\ m \in Checkpoint /\ m.id = cp.id /\ m.state = s /\ m.promoted = sha
      /\ m.baseline = cp.baseline /\ m.commits = cp.commits /\ LastCommit(m) = LastCommit(cp)
  BY MarkFields
<1> HIDE DEF m
<1>2. Covers(cp, Len(LastCommit(cp))) <=> Covers(m, Len(LastCommit(m)))
  BY <1>1 DEF Covers
<1> QED BY <1>1, <1>2 DEF m

LEMMA CoverApprove ==
  ASSUME OneAgent, Inv, CloneInv, CoverInv, NEW p \in Procs, ApproveStep(p)
  PROVE  CoverInv'
<1> DEFINE o == op[p]
           c == op[p].cp.id
<1>1. /\ TypeInv /\ RepoInv /\ Phase(o) /\ CoverPhase(o, c)
      /\ op \in [Procs -> Operation] /\ o \in Operation /\ o.cp \in Checkpoint /\ c \in Ids
      /\ o.cp.baseline \in History /\ o.cp.promoted \in History
      /\ meta \in [Ids -> Checkpoint] /\ head \in Branches /\ ref \in [Branches -> History]
      /\ Main \in Branches /\ Ids \subseteq Branches /\ Main \notin Ids
      /\ "pending" \in States /\ "promoting" \in States /\ "approved" \in States /\ NoCommit \in History
  BY OnePhase, OneCover, TypeInvParts, CurrentOperation, OperationFields, ValueTypes, IdsAssumption
     DEF Inv, DataTypes, TypeInv, TypeOK, States
<1>0. ASSUME NEW s \in States, NEW sha \in History
      PROVE  /\ Covers(o.cp, Len(LastCommit(o.cp))) <=>
                  Covers(Mark(o.cp, s, sha), Len(LastCommit(Mark(o.cp, s, sha))))
             /\ Mark(o.cp, s, sha) \in Checkpoint /\ Mark(o.cp, s, sha).id = c
             /\ Mark(o.cp, s, sha).state = s
             /\ Mark(o.cp, s, sha).baseline = o.cp.baseline /\ Mark(o.cp, s, sha).commits = o.cp.commits
  <2> DEFINE cp == o.cp
  <2>1. cp \in Checkpoint
    BY <1>1
  <2> HIDE DEF cp
  <2>2. /\ Covers(cp, Len(LastCommit(cp))) <=>
             Covers(Mark(cp, s, sha), Len(LastCommit(Mark(cp, s, sha))))
        /\ Mark(cp, s, sha) \in Checkpoint /\ Mark(cp, s, sha).id = cp.id
        /\ Mark(cp, s, sha).state = s
        /\ Mark(cp, s, sha).baseline = cp.baseline /\ Mark(cp, s, sha).commits = cp.commits
    BY <2>1, MarkCovers
  <2> QED BY <2>2 DEF cp
<1> USE <1>1
<1>2. o.pc \in ApprovePcs \ {"back"} => meta[c].state # "absent" /\ Same(o)
  BY DEF Phase, ApproveInv
(* Saving a copy in another state, from a step that has one. *)
<1>3. ASSUME NEW m \in Checkpoint, m.id = c, m.baseline = o.cp.baseline, m.commits = o.cp.commits,
             m.state = "approved" => Covers(m, Len(LastCommit(m))),
             o.pc \in ApprovePcs \ {"back"}, Save(m) \/ UNCHANGED meta, UNCHANGED ref
      PROVE  \A d \in Ids : CoverRecord(d)'
  BY <1>2, <1>3, CoverSaved, CoverKept DEF Same
<1>4. ASSUME op'[p].cp = o.cp, o.pc \in SpanPcs \/ op'[p].pc \notin SpanPcs,
             op'[p].pc \notin CliPcs \cup {"branch"}
      PROVE  CoverPhase(op[p], op[p].cp.id)'
  BY <1>4, CoverCopied
<1>5. ASSUME Done(p) PROVE CoverPhase(op[p], op[p].cp.id)'
  BY <1>5, DoneEffect, CoverCopied DEF CliPcs, SpanPcs, UndoPcs
<1>6. ASSUME NEW d \in Ids, StartApprove(p, d) PROVE CoverInv'
  <2>1. /\ UNCHANGED <<ref, meta>> /\ op'[p].pc = "claim" /\ op'[p].cp = meta[d]
        /\ meta[d].state = "pending" /\ ref[meta[d].id] = LastCommit(meta[d]) /\ meta[d].id = d
    BY <1>6 DEF StartApprove, RefersToCheckpoint, repo, RepoInv, RecordInv
  <2>2. Covers(meta[d], Len(LastCommit(meta[d])))
    BY <2>1 DEF CoverInv, CoverRecord
  <2>3. CoverPhase(op[p], op[p].cp.id)'
    BY <2>1, <2>2 DEF CoverPhase, CliPcs, Covers, LastCommit
  <2> QED BY <2>1, <2>3, CoverKept, OneCover
<1>7. CASE SaveClaim(p)
  <2> DEFINE m == Mark(o.cp, "promoting", NoCommit)
  <2>1. /\ m \in Checkpoint /\ m.id = c /\ m.state = "promoting"
        /\ m.baseline = o.cp.baseline /\ m.commits = o.cp.commits
    BY <1>0
  <2>2. /\ o.pc = "claim" /\ UNCHANGED ref /\ (Save(m) \/ UNCHANGED meta)
        /\ Goto(p, "switch") \/ Done(p)
    BY <1>7 DEF SaveClaim, At, SaveFails, repo
  <2> HIDE DEF m
  <2>3. \A d \in Ids : CoverRecord(d)'
    BY <1>3, <2>1, <2>2 DEF ApprovePcs
  <2>4. CoverPhase(op[p], op[p].cp.id)'
    BY <1>4, <1>5, <2>2, GotoEffect DEF SpanPcs, CliPcs
  <2> QED BY <2>3, <2>4, OneCover
<1>8. CASE SwitchToMain(p)
  <2>1. /\ o.pc = "switch" /\ UNCHANGED ref /\ (Save(o.cp) \/ UNCHANGED meta)
        /\ Goto(p, "merge") \/ Done(p)
    BY <1>8 DEF SwitchToMain, At, SaveFails
  <2>2. o.cp.state = "pending"
    BY <2>1, PromotionIsKnown DEF Inv, Knows
  <2>3. \A d \in Ids : CoverRecord(d)'
    BY <1>3, <2>1, <2>2 DEF ApprovePcs
  <2>4. CoverPhase(op[p], op[p].cp.id)'
    BY <1>4, <1>5, <2>1, GotoEffect DEF SpanPcs, CliPcs
  <2> QED BY <2>3, <2>4, OneCover
<1>9. CASE MergeCheckpoint(p)
  <2>1. /\ o.pc = "merge" /\ UNCHANGED <<head, meta>> /\ op'[p].pc \in {"note", "abort"}
        /\ op'[p].cp.baseline = o.cp.baseline /\ op'[p].cp.commits = o.cp.commits
    BY <1>9, GotoEffect DEF MergeCheckpoint, At, Operation, Checkpoint
  <2>2. \A e \in Ids : ref'[e] = ref[e]
    BY <1>9, <2>1 DEF MergeCheckpoint, Keep, Phase, ApproveInv
  <2>3. CoverPhase(op[p], op[p].cp.id)'
    BY <2>1, CoverCopied DEF SpanPcs, CliPcs
  <2> QED BY <2>1, <2>2, <2>3, CoverKept, OneCover
<1>10. CASE SavePromoted(p)
  <2> DEFINE m == Mark(o.cp, "promoting", o.cp.promoted)
  <2>1. /\ m \in Checkpoint /\ m.id = c /\ m.state = "promoting"
        /\ m.baseline = o.cp.baseline /\ m.commits = o.cp.commits
    BY <1>0
  <2>2. /\ o.pc = "note" /\ UNCHANGED ref /\ (Save(m) \/ UNCHANGED meta)
        /\ Goto(p, "push") \/ Goto(p, "abort")
    BY <1>10 DEF SavePromoted, At, SaveFails, repo
  <2> HIDE DEF m
  <2>3. \A d \in Ids : CoverRecord(d)'
    BY <1>3, <2>1, <2>2 DEF ApprovePcs
  <2>4. CoverPhase(op[p], op[p].cp.id)'
    BY <1>4, <2>2, GotoEffect DEF SpanPcs, CliPcs
  <2> QED BY <2>3, <2>4, OneCover
<1>11. CASE PushMain(p)
  <2>1. /\ o.pc = "push" /\ UNCHANGED <<ref, meta>> /\ op'[p].pc \in {"finish", "abort"}
        /\ op'[p].cp = o.cp
    BY <1>11, GotoEffect DEF PushMain, Push, At, repo
  <2> QED BY <1>4, <2>1, CoverKept, OneCover DEF SpanPcs, CliPcs
<1>12. CASE SaveApproved(p)
  <2> DEFINE m == Mark(o.cp, "approved", o.cp.promoted)
  <2>1. /\ m \in Checkpoint /\ m.id = c
        /\ m.baseline = o.cp.baseline /\ m.commits = o.cp.commits
        /\ Covers(o.cp, Len(LastCommit(o.cp))) <=> Covers(m, Len(LastCommit(m)))
    BY <1>0
  <2>2. o.pc = "finish" /\ UNCHANGED ref /\ Done(p) /\ (Save(m) \/ UNCHANGED meta)
    BY <1>12 DEF SaveApproved, At, SaveFails, repo
  <2>3. Covers(o.cp, Len(LastCommit(o.cp)))
    BY <2>2 DEF CoverPhase, SpanPcs
  <2> HIDE DEF m
  <2>4. \A d \in Ids : CoverRecord(d)'
    BY <1>3, <2>1, <2>2, <2>3 DEF ApprovePcs
  <2> QED BY <1>5, <2>2, <2>4, OneCover
<1>13. CASE AbortApprove(p)
  <2>1. /\ o.pc = "abort" /\ head = Main /\ UNCHANGED meta /\ op'[p].pc = "release" /\ op'[p].cp = o.cp
    BY <1>13, GotoEffect DEF AbortApprove, At, Phase, ApproveInv
  <2>2. \A e \in Ids : ref'[e] = ref[e]
    BY <1>13, <2>1 DEF AbortApprove, ResetMain, Keep
  <2> QED BY <1>4, <2>1, <2>2, CoverKept, OneCover DEF SpanPcs, CliPcs, UndoPcs
<1>14. CASE SaveReleased(p)
  <2> DEFINE m == Mark(o.cp, "pending", NoCommit)
  <2>1. /\ m \in Checkpoint /\ m.id = c /\ m.state = "pending"
        /\ m.baseline = o.cp.baseline /\ m.commits = o.cp.commits
    BY <1>0
  <2>2. /\ o.pc = "release" /\ UNCHANGED ref /\ (Save(m) \/ UNCHANGED meta)
        /\ Goto(p, "back") \/ Done(p)
    BY <1>14 DEF SaveReleased, At, SaveFails, repo
  <2> HIDE DEF m
  <2>3. \A d \in Ids : CoverRecord(d)'
    BY <1>3, <2>1, <2>2 DEF ApprovePcs
  <2>4. CoverPhase(op[p], op[p].cp.id)'
    BY <1>4, <1>5, <2>2, GotoEffect DEF SpanPcs, CliPcs, UndoPcs
  <2> QED BY <2>3, <2>4, OneCover
<1>15. CASE SwitchBack(p)
  BY <1>5, <1>15, CoverKept, OneCover DEF SwitchBack
<1> QED BY <1>6, <1>7, <1>8, <1>9, <1>10, <1>11, <1>12, <1>13, <1>14, <1>15 DEF ApproveStep

LEMMA CoverUndo ==
  ASSUME OneAgent, Inv, CloneInv, CoverInv, NEW p \in Procs, UndoStep(p)
  PROVE  CoverInv'
<1> DEFINE o == op[p]
           c == op[p].cp.id
<1>1. /\ TypeInv /\ RepoInv /\ Phase(o) /\ CoverPhase(o, c)
      /\ op \in [Procs -> Operation] /\ o \in Operation /\ o.cp \in Checkpoint /\ c \in Ids
      /\ o.cp.promoted \in History
      /\ meta \in [Ids -> Checkpoint] /\ head \in Branches /\ ref \in [Branches -> History]
      /\ Main \in Branches /\ Ids \subseteq Branches /\ Main \notin Ids
      /\ "undoing" \in States /\ "undone" \in States /\ "approved" \in States /\ NoCommit \in History
  BY OnePhase, OneCover, TypeInvParts, CurrentOperation, OperationFields, ValueTypes, IdsAssumption
     DEF Inv, DataTypes, TypeInv, TypeOK, States
<1>0. ASSUME NEW s \in States, NEW sha \in History
      PROVE  /\ Covers(o.cp, Len(LastCommit(o.cp))) <=>
                  Covers(Mark(o.cp, s, sha), Len(LastCommit(Mark(o.cp, s, sha))))
             /\ Mark(o.cp, s, sha) \in Checkpoint /\ Mark(o.cp, s, sha).id = c
             /\ Mark(o.cp, s, sha).state = s
             /\ Mark(o.cp, s, sha).baseline = o.cp.baseline /\ Mark(o.cp, s, sha).commits = o.cp.commits
  <2> DEFINE cp == o.cp
  <2>1. cp \in Checkpoint
    BY <1>1
  <2> HIDE DEF cp
  <2>2. /\ Covers(cp, Len(LastCommit(cp))) <=>
             Covers(Mark(cp, s, sha), Len(LastCommit(Mark(cp, s, sha))))
        /\ Mark(cp, s, sha) \in Checkpoint /\ Mark(cp, s, sha).id = cp.id
        /\ Mark(cp, s, sha).state = s
        /\ Mark(cp, s, sha).baseline = cp.baseline /\ Mark(cp, s, sha).commits = cp.commits
    BY <2>1, MarkCovers
  <2> QED BY <2>2 DEF cp
<1> USE <1>1
<1>2. /\ o.pc \in {"umark", "ufinish", "urelease"} =>
           meta[c].state # "absent" /\ Same(o) /\ Covers(o.cp, Len(LastCommit(o.cp)))
      /\ o.pc = "dropped" => meta[c].state # "absent" /\ Same(o)
  BY DEF Phase, UndoInv, UndoPcs, DiscardPcs, Same, CoverPhase, SpanPcs
<1>3. ASSUME NEW s \in {"undoing", "undone", "approved"}, NEW sha \in History,
             s = "approved" => Covers(o.cp, Len(LastCommit(o.cp))),
             o.pc \in {"umark", "ufinish", "urelease", "dropped"},
             Save(Mark(o.cp, s, sha)) \/ UNCHANGED meta, UNCHANGED ref
      PROVE  \A d \in Ids : CoverRecord(d)'
  <2> DEFINE m == Mark(o.cp, s, sha)
  <2>1. /\ m \in Checkpoint /\ m.id = c /\ m.state = s
        /\ m.baseline = o.cp.baseline /\ m.commits = o.cp.commits
        /\ Covers(o.cp, Len(LastCommit(o.cp))) <=> Covers(m, Len(LastCommit(m)))
    BY <1>0
  <2>2. Save(m) \/ UNCHANGED meta
    BY <1>3
  <2> HIDE DEF m
  <2> QED BY <1>2, <1>3, <2>1, <2>2, CoverSaved, CoverKept DEF Same
<1>4. ASSUME op'[p].cp = o.cp, o.pc \in SpanPcs \/ op'[p].pc \notin SpanPcs,
             op'[p].pc \notin CliPcs \cup {"branch"}
      PROVE  CoverPhase(op[p], op[p].cp.id)'
  BY <1>4, CoverCopied
<1>5. ASSUME Done(p) PROVE CoverPhase(op[p], op[p].cp.id)'
  BY <1>5, DoneEffect, CoverCopied DEF CliPcs, SpanPcs, UndoPcs
<1>6. ASSUME NEW d \in Ids, StartDiscard(p, d) PROVE CoverInv'
  <2>1. UNCHANGED <<ref, meta>> /\ op'[p].pc \in {"leave", "drop"}
    BY <1>6 DEF StartDiscard, repo
  <2> QED BY <2>1, CoverKept, CoverCopied, OneCover DEF SpanPcs, CliPcs, DiscardPcs
<1>7. ASSUME NEW d \in Ids, StartRevert(p, d) PROVE CoverInv'
  <2>1. /\ UNCHANGED <<ref, meta>> /\ op'[p].pc = "uswitch" /\ op'[p].cp = meta[d]
        /\ meta[d].state = "approved"
    BY <1>7 DEF StartRevert, repo
  <2>2. Covers(meta[d], Len(LastCommit(meta[d])))
    BY <2>1 DEF CoverInv, CoverRecord
  <2>3. CoverPhase(op[p], op[p].cp.id)'
    BY <2>1, <2>2 DEF CoverPhase, CliPcs, Covers, LastCommit
  <2> QED BY <2>1, <2>3, CoverKept, OneCover
<1>8. CASE LeaveBranch(p)
  <2>1. UNCHANGED <<ref, meta>> /\ (Done(p) \/ Goto(p, "drop"))
    BY <1>8 DEF LeaveBranch
  <2>2. CoverPhase(op[p], op[p].cp.id)'
    BY <1>4, <1>5, <2>1, GotoEffect DEF SpanPcs, CliPcs, DiscardPcs
  <2> QED BY <2>1, <2>2, CoverKept, OneCover
<1>9. CASE DropBranch(p)
  <2>1. /\ UNCHANGED meta /\ (Done(p) \/ Goto(p, "dropped"))
        /\ \A e \in Ids : ref'[e] = ref[e] \/ ref'[e] = NoCommit
    BY <1>9 DEF DropBranch
  <2>2. CoverPhase(op[p], op[p].cp.id)'
    BY <1>4, <1>5, <2>1, GotoEffect DEF SpanPcs, CliPcs, DiscardPcs
  <2> QED BY <2>1, <2>2, CoverKept, OneCover
<1>10. CASE SaveDiscarded(p)
  BY <1>3, <1>5, <1>10, OneCover DEF SaveDiscarded, At, SaveFails, repo
<1>11. CASE SwitchToRevert(p)
  <2>1. o.pc = "uswitch" /\ UNCHANGED <<ref, meta>> /\ (Done(p) \/ Goto(p, "revert"))
    BY <1>11 DEF SwitchToRevert, At
  <2>2. CoverPhase(op[p], op[p].cp.id)'
    BY <1>4, <1>5, <2>1, GotoEffect DEF SpanPcs, CliPcs, UndoPcs, DiscardPcs
  <2> QED BY <2>1, <2>2, CoverKept, OneCover
<1>12. CASE RevertCommit(p)
  <2>1. /\ o.pc = "revert" /\ head = Main /\ UNCHANGED meta /\ op'[p].cp = o.cp
        /\ op'[p].pc \in {"revert", "uabort", "umark"}
    BY <1>12, GotoEffect DEF RevertCommit, At, Operation, Phase, UndoInv
  <2>2. \A e \in Ids : ref'[e] = ref[e]
    BY <1>12, <2>1 DEF RevertCommit, Keep
  <2>3. CoverPhase(op[p], op[p].cp.id)'
    BY <1>4, <2>1 DEF SpanPcs, CliPcs, UndoPcs, DiscardPcs
  <2> QED BY <2>1, <2>2, <2>3, CoverKept, OneCover
<1>13. CASE SaveUndoing(p)
  <2>1. /\ o.pc = "umark" /\ UNCHANGED ref /\ (Save(Mark(o.cp, "undoing", o.cp.promoted)) \/ UNCHANGED meta)
        /\ Goto(p, "upush") \/ Goto(p, "uabort")
    BY <1>13 DEF SaveUndoing, At, SaveFails, repo
  <2>2. \A d \in Ids : CoverRecord(d)'
    BY <1>3, <2>1
  <2>3. CoverPhase(op[p], op[p].cp.id)'
    BY <1>4, <2>1, GotoEffect DEF SpanPcs, CliPcs, UndoPcs, DiscardPcs
  <2> QED BY <2>2, <2>3, OneCover
<1>14. CASE PushRevert(p)
  <2>1. /\ o.pc = "upush" /\ UNCHANGED <<ref, meta>> /\ op'[p].pc \in {"ufinish", "uabort"}
        /\ op'[p].cp = o.cp
    BY <1>14, GotoEffect DEF PushRevert, Push, At, repo
  <2> QED BY <1>4, <2>1, CoverKept, OneCover DEF SpanPcs, CliPcs, UndoPcs, DiscardPcs
<1>15. CASE SaveUndone(p)
  BY <1>3, <1>5, <1>15, OneCover DEF SaveUndone, At, SaveFails, repo
<1>16. CASE AbortRevert(p)
  <2>1. o.pc = "uabort" /\ head = Main /\ UNCHANGED meta /\ op'[p].pc = "urelease" /\ op'[p].cp = o.cp
    BY <1>16, GotoEffect DEF AbortRevert, At, Phase, UndoInv
  <2>2. \A e \in Ids : ref'[e] = ref[e]
    BY <1>16, <2>1 DEF AbortRevert, ResetMain, Keep
  <2> QED BY <1>4, <2>1, <2>2, CoverKept, OneCover DEF SpanPcs, CliPcs, UndoPcs, DiscardPcs
<1>17. CASE SaveStillApproved(p)
  BY <1>2, <1>3, <1>5, <1>17, OneCover DEF SaveStillApproved, At, SaveFails, repo
<1> QED BY <1>6, <1>7, <1>8, <1>9, <1>10, <1>11, <1>12, <1>13, <1>14, <1>15, <1>16, <1>17 DEF UndoStep

LEMMA CoverEnvironment ==
  ASSUME OneAgent, Inv, CloneInv, CoverInv, OthersPush \/ UserStep \/ \E p \in Procs : CommandRaises(p) \/ Crash(p)
  PROVE  CoverInv'
<1>1. PICK p \in Procs : Procs = {p}
  BY ProcsAssumption DEF OneAgent
<1>2. /\ op \in [Procs -> Operation] /\ RepoInv /\ CoverPhase(op[p], op[p].cp.id)
      /\ head \in Branches /\ ref \in [Branches -> History]
      /\ Main \in Branches /\ Ids \subseteq Branches /\ Main \notin Ids /\ TypeInv
  BY OnePhase, OneCover, ValueTypes, IdsAssumption DEF TypeInv, TypeOK, Inv
<1>3. CASE OthersPush
  <2>1. UNCHANGED <<head, ref, meta, op>>
    BY <1>3 DEF OthersPush, repo
  <2>2. \A e \in Ids : CoverRecord(e)'
    BY <1>2, <2>1, CoverKept
  <2>3. CoverPhase(op[p], op[p].cp.id)'
    BY <1>2, <2>1 DEF CoverPhase, Covers, LastCommit
  <2> QED BY <2>2, <2>3, OneCover
<1>4. CASE UserStep
  <2>1. UNCHANGED meta /\ op' = op /\ op[p].pc = "idle"
    BY <1>4 DEF UserStep, UserCommits, UserPulls, UserSwitches, AllIdle
  <2>2. \A e \in Ids : ref'[e] = ref[e]
    BY <1>2, <1>4 DEF UserStep, UserCommits, UserPulls, UserSwitches, Keep
  <2>3. CoverPhase(op[p], op[p].cp.id)'
    BY <2>1, CoverCopied DEF CliPcs, SpanPcs, UndoPcs
  <2> QED BY <1>2, <2>1, <2>2, <2>3, CoverKept, OneCover
<1>5. CASE Crash(p)
  <2>1. UNCHANGED <<ref, meta>> /\ Done(p)
    BY <1>5 DEF Crash, repo
  <2>2. \A e \in Ids : CoverRecord(e)'
    BY <1>2, <2>1, CoverKept
  <2>3. CoverPhase(op[p], op[p].cp.id)'
    BY <1>2, <2>1, DoneEffect, CoverCopied DEF CliPcs, SpanPcs, UndoPcs
  <2> QED BY <2>2, <2>3, OneCover
<1>6. CASE CommandRaises(p)
  <2>1. UNCHANGED <<ref, meta>>
    BY <1>6, RaisingEffect DEF repo
  <2>2. \A e \in Ids : CoverRecord(e)'
    BY <1>2, <2>1, CoverKept
  <2>3. op'[p].pc \in {"idle", "unlink"}
    BY <1>2, <1>6, RaisingEffect, DoneEffect, GotoEffect
  <2>4. CoverPhase(op[p], op[p].cp.id)'
    BY <1>2, <2>1, <2>3, CoverCopied DEF CliPcs, SpanPcs, UndoPcs
  <2> QED BY <2>2, <2>4, OneCover
<1> QED BY <1>1, <1>3, <1>4, <1>5, <1>6

LEMMA CoverNext ==
  ASSUME OneAgent, LoopCommits, Inv, CloneInv, CoverInv, [Next]_vars
  PROVE  CoverInv'
<1>1. CASE Next
  BY <1>1, CoverRun, CoverApprove, CoverUndo, CoverEnvironment DEF Next, AgentStep
<1>2. CASE UNCHANGED vars
  BY <1>2 DEF vars, CoverInv, CoverRecord, CoverPhase, Covers, LastCommit, Work
<1> QED BY <1>1, <1>2

LEMMA CoverInit == ASSUME Init PROVE CoverInv
<1>1. ASSUME NEW c \in Ids PROVE CoverRecord(c)
  BY DEF Init, Absent, CoverRecord
<1>2. ASSUME NEW p \in Procs PROVE CoverPhase(op[p], op[p].cp.id)
  <2>1. op[p].pc = "idle"
    BY DEF Init, Idle
  <2> QED BY <2>1 DEF CoverPhase, CliPcs, SpanPcs, UndoPcs
<1> QED BY <1>1, <1>2 DEF CoverInv

-----------------------------------------------------------------------------
(* What an undo has reverted *)

(* Above `from`, h reverts its n-th commit. *)
Reverted(h, from, n) ==
  \E j \in Len(from) + 1 .. Len(h) : h[j].kind = "revert" /\ h[j].at = n

RevertPcs == {"uswitch", "revert", "umark", "upush"}

(* The loop goes from the newest commit to the oldest; from the mark on all
   recorded commits are reverted, and so is what the push has published. *)
RevertPhase(o) ==
  /\ o.pc \in RevertPcs =>
       \A k \in 1..Len(o.cp.commits) :
         k > o.left \/ o.pc \in {"umark", "upush"} =>
           Reverted(ref[Main], o.cp.promoted, Len(o.cp.commits[k]))
  /\ o.pc = "ufinish" => InEffect(o.cp.baseline, LastCommit(o.cp), origin) = {}

(* Metadata that says a promotion was undone. *)
Retracted(cp) == cp.state = "undone" /\ cp.promoted # NoCommit

RevertRecord(c) ==
  Retracted(meta[c]) =>
    /\ IsPrefix(LastCommit(meta[c]), origin)
    /\ InEffect(meta[c].baseline, LastCommit(meta[c]), origin) = {}

RevertInv ==
  /\ \A c \in Ids : RevertRecord(c)
  /\ \A p \in Procs : RevertPhase(op[p])

LEMMA OneRevert ==
  ASSUME OneAgent, NEW p \in Procs
  PROVE  /\ RevertInv <=> (\A c \in Ids : RevertRecord(c)) /\ RevertPhase(op[p])
         /\ RevertInv' <=> (\A c \in Ids : RevertRecord(c)') /\ RevertPhase(op[p])'
BY DEF OneAgent, RevertInv

(* A revert appended to a history that is not below `from`. *)
LEMMA RevertedGrows ==
  ASSUME NEW from \in History, NEW h \in History, NEW k \in History, Len(from) <= Len(h)
  PROVE  /\ \A n : Reverted(h, from, n) => Reverted(Append(h, RevertOf(k)), from, n)
         /\ Reverted(Append(h, RevertOf(k)), from, Len(k))
<1> DEFINE x == RevertOf(k)
           g == Append(h, x)
<1>1. x \in Commit /\ x.kind = "revert" /\ x.at = Len(k)
  BY ChangeFields
<1> HIDE DEF x
<1>2. /\ Len(g) = Len(h) + 1 /\ g[Len(h) + 1] = x /\ \A i \in 1..Len(h) : g[i] = h[i]
      /\ Len(h) \in Nat /\ Len(from) \in Nat
  BY <1>1, Appended, HistoryFacts
<1> HIDE DEF g
<1>3. ASSUME NEW n, Reverted(h, from, n) PROVE Reverted(g, from, n)
  <2>1. PICK j \in Len(from) + 1 .. Len(h) : h[j].kind = "revert" /\ h[j].at = n
    BY <1>3 DEF Reverted
  <2>2. j \in Len(from) + 1 .. Len(g) /\ g[j] = h[j]
    BY <1>2
  <2> QED BY <2>1, <2>2 DEF Reverted
<1>4. Reverted(g, from, Len(k))
  <2>1. Len(h) + 1 \in Len(from) + 1 .. Len(g)
    BY <1>2
  <2> QED BY <1>1, <1>2, <2>1 DEF Reverted
<1> QED BY <1>3, <1>4 DEF g, x

(* When what is recorded covers the promoted commits, and each recorded commit
   is reverted, nothing of the promotion is in effect. *)
LEMMA AllReverted ==
  ASSUME NEW cp \in Checkpoint, NEW h \in History, Covers(cp, Len(LastCommit(cp))),
         \A k \in 1..Len(cp.commits) : Reverted(h, LastCommit(cp), Len(cp.commits[k]))
  PROVE  InEffect(cp.baseline, LastCommit(cp), h) = {}
<1> SUFFICES ASSUME NEW i \in InEffect(cp.baseline, LastCommit(cp), h) PROVE FALSE
  OBVIOUS
<1> DEFINE to == LastCommit(cp)
<1>1. to \in History /\ Len(to) \in Nat /\ Len(cp.baseline) \in Nat /\ Len(h) \in Nat
  BY ValueTypes, HistoryFacts DEF Checkpoint
<1> HIDE DEF to
<1>2. /\ i \in Len(cp.baseline) + 1 .. Len(to)
      /\ \A j \in i + 1 .. Len(h) : ~(h[j].kind = "revert" /\ h[j].at = i)
  BY DEF InEffect, to
<1>3. PICK k \in 1..Len(cp.commits) : Len(cp.commits[k]) = i
  BY <1>2 DEF Covers, to
<1>4. PICK j \in Len(to) + 1 .. Len(h) : h[j].kind = "revert" /\ h[j].at = i
  BY <1>3 DEF Reverted, to
<1>5. j \in i + 1 .. Len(h)
  BY <1>1, <1>2, <1>4
<1> QED BY <1>2, <1>4, <1>5

(* What is not in effect stays out of effect as main grows. *)
LEMMA StaysOut ==
  ASSUME NEW from \in History, NEW to \in History, NEW h \in History, NEW g \in History,
         IsPrefix(to, h), IsPrefix(h, g), InEffect(from, to, h) = {}
  PROVE  InEffect(from, to, g) = {}
<1> SUFFICES ASSUME NEW i \in InEffect(from, to, g) PROVE FALSE
  OBVIOUS
<1>1. /\ Len(from) \in Nat /\ Len(to) \in Nat /\ Len(h) \in Nat /\ Len(g) \in Nat
      /\ Len(to) <= Len(h) /\ Len(h) <= Len(g)
      /\ \A j \in 1..Len(h) : h[j] = g[j]
  BY PrefixPointwise, HistoryFacts
<1>2. /\ i \in Len(from) + 1 .. Len(to) /\ g[i] = to[i]
      /\ \A j \in i + 1 .. Len(g) : ~(g[j].kind = "revert" /\ g[j].at = i)
  BY DEF InEffect
<1>3. i <= Len(h) /\ h[i] = to[i] /\ \A j \in i + 1 .. Len(h) : ~(h[j].kind = "revert" /\ h[j].at = i)
  BY <1>1, <1>2
<1>4. i \in InEffect(from, to, h)
  BY <1>2, <1>3 DEF InEffect
<1> QED BY <1>4

(* Records of undone promotions, while main grows. *)
LEMMA RecordsStay ==
  ASSUME TypeInv, RevertInv, IsPrefix(origin, origin'), origin' \in History,
         \A c \in Ids : Retracted(meta'[c]) => meta'[c] = meta[c]
  PROVE  \A c \in Ids : RevertRecord(c)'
<1> SUFFICES ASSUME NEW c \in Ids, Retracted(meta'[c]) PROVE RevertRecord(c)'
  BY DEF RevertRecord, Retracted
<1>1. meta'[c] = meta[c] /\ Retracted(meta[c])
  OBVIOUS
<1>2. /\ origin \in History /\ meta[c] \in Checkpoint /\ meta[c].baseline \in History
      /\ LastCommit(meta[c]) \in History
  BY TypeInvParts, ValueTypes DEF DataTypes, Checkpoint
<1>3. /\ IsPrefix(LastCommit(meta[c]), origin')
      /\ InEffect(meta[c].baseline, LastCommit(meta[c]), origin') = {}
  BY <1>1, <1>2, PrefixTransitive, StaysOut DEF RevertInv, RevertRecord
<1>4. LastCommit(meta[c])' = LastCommit(meta[c]) /\ meta'[c].baseline = meta[c].baseline
  BY <1>1 DEF LastCommit
<1> QED BY <1>3, <1>4 DEF RevertRecord, InEffect, IsPrefix

(* Metadata that is written but does not say so. *)
LEMMA SavedUnretracted ==
  ASSUME TypeInv, NEW cp \in Checkpoint, ~Retracted(cp), Save(cp) \/ UNCHANGED meta
  PROVE  \A c \in Ids : Retracted(meta'[c]) => meta'[c] = meta[c]
<1>1. meta \in [Ids -> Checkpoint] /\ cp.id \in Ids
  BY TypeInvParts DEF DataTypes, Checkpoint
<1> QED BY <1>1 DEF Save

LEMMA RevertRun ==
  ASSUME OneAgent, Inv, CloneInv, RevertInv, NEW p \in Procs, RunStep(p)
  PROVE  RevertInv'
<1>1. /\ TypeInv /\ TypeInv' /\ op[p] \in Operation /\ op[p].cp \in Checkpoint /\ op[p].cp.id \in Ids
      /\ op \in [Procs -> Operation] /\ ref[head] \in History /\ origin \in History
  BY RunTypes, TypeInvParts, CurrentOperation, OperationFields DEF Inv, DataTypes, TypeInv, TypeOK
<1> USE <1>1
<1>2. op'[p].pc \notin RevertPcs \cup {"ufinish"} /\ origin' = origin
  <2>1. CASE RecordPass(p)
    BY <2>1, GotoEffect DEF RecordPass, RevertPcs, Operation
  <2>2. ASSUME NEW d \in Ids, NEW n \in 1..MaxPasses, StartRun(p, d, n)
        PROVE  op'[p].pc \notin RevertPcs \cup {"ufinish"} /\ origin' = origin
    BY <2>2 DEF StartRun, RevertPcs
  <2>3. CASE CreateBranch(p) \/ Backend(p) \/ Verify(p) \/ CommitPass(p) \/ PublishBranch(p)
    BY <2>3, GotoEffect, DoneEffect DEF CreateBranch, Backend, Verify, CommitPass, PublishBranch, RevertPcs
  <2>4. CASE ResetRun(p) \/ RestoreBase(p) \/ DeleteBranch(p) \/ Unlink(p)
    BY <2>4, GotoEffect, DoneEffect DEF ResetRun, RestoreBase, DeleteBranch, Unlink, RevertPcs
  <2> QED BY <2>1, <2>2, <2>3, <2>4 DEF RunStep
<1>3. \A c \in Ids : Retracted(meta'[c]) => meta'[c] = meta[c]
  <2>1. CASE RecordPass(p)
    <3> DEFINE cp == [op[p].cp EXCEPT !.commits = Append(@, ref[head])]
    <3>1. cp \in Checkpoint /\ cp.state = op[p].cp.state
      <4>1. Append(op[p].cp.commits, ref[head]) \in Seq(History)
        BY DEF Checkpoint
      <4>2. \A x \in Checkpoint, s \in Seq(History) :
              [x EXCEPT !.commits = s] \in Checkpoint /\ [x EXCEPT !.commits = s].state = x.state
        BY DEF Checkpoint
      <4>3. cp = [op[p].cp EXCEPT !.commits = Append(op[p].cp.commits, ref[head])]
        OBVIOUS
      <4> HIDE DEF cp
      <4> QED BY <4>1, <4>2, <4>3
    <3>2. op[p].cp.state = "pending"
      BY <2>1, PromotionIsKnown DEF RecordPass, At, Inv, Knows, RunPcs
    <3>3. Save(cp) \/ UNCHANGED meta
      BY <2>1 DEF RecordPass, SaveFails
    <3> HIDE DEF cp
    <3> QED BY <3>1, <3>2, <3>3, SavedUnretracted DEF Retracted
  <2>2. CASE Unlink(p)
    <3>1. Absent(op[p].cp.id) \in Checkpoint /\ ~Retracted(Absent(op[p].cp.id))
      BY ValueTypes DEF Absent, Retracted
    <3> QED BY <2>2, <3>1, SavedUnretracted DEF Unlink
  <2>3. CASE UNCHANGED meta
    BY <2>3
  <2> QED BY <2>1, <2>2, <2>3 DEF RunStep, StartRun, CreateBranch, Backend, Verify, CommitPass, PublishBranch,
                                  ResetRun, RestoreBase, DeleteBranch
<1>4. \A c \in Ids : RevertRecord(c)'
  BY <1>2, <1>3, RecordsStay, HistoryFacts
<1>5. RevertPhase(op[p])'
  BY <1>2 DEF RevertPhase
<1> QED BY <1>4, <1>5, OneRevert

LEMMA RevertApprove ==
  ASSUME OneAgent, Inv, CloneInv, RevertInv, NEW p \in Procs, ApproveStep(p)
  PROVE  RevertInv'
<1>1. /\ TypeInv /\ TypeInv' /\ op[p] \in Operation /\ op[p].cp \in Checkpoint /\ op[p].cp.id \in Ids
      /\ op \in [Procs -> Operation] /\ origin \in History /\ origin' \in History
      /\ op[p].cp.promoted \in History /\ NoCommit \in History
      /\ "pending" \in States /\ "promoting" \in States /\ "approved" \in States
  BY ApproveTypes, ValueTypes, TypeInvParts, CurrentOperation, OperationFields
     DEF Inv, DataTypes, TypeInv, TypeOK, States
<1>2. IsPrefix(origin, origin')
  BY <1>1, OriginGrows DEF Next, AgentStep
<1> USE <1>1
<1>3. op'[p].pc \notin RevertPcs \cup {"ufinish"}
  <2>1. CASE MergeCheckpoint(p)
    BY <2>1, GotoEffect DEF MergeCheckpoint, RevertPcs, Operation
  <2>2. ASSUME NEW d \in Ids, StartApprove(p, d) PROVE op'[p].pc \notin RevertPcs \cup {"ufinish"}
    BY <2>2 DEF StartApprove, RevertPcs
  <2>3. CASE SaveClaim(p) \/ SwitchToMain(p) \/ SavePromoted(p) \/ PushMain(p)
    BY <2>3, GotoEffect, DoneEffect DEF SaveClaim, SwitchToMain, SavePromoted, PushMain, Push, RevertPcs
  <2>4. CASE SaveApproved(p) \/ AbortApprove(p) \/ SaveReleased(p) \/ SwitchBack(p)
    BY <2>4, GotoEffect, DoneEffect DEF SaveApproved, AbortApprove, SaveReleased, SwitchBack, RevertPcs
  <2> QED BY <2>1, <2>2, <2>3, <2>4 DEF ApproveStep
<1>4. \A c \in Ids : Retracted(meta'[c]) => meta'[c] = meta[c]
  <2>0. ASSUME NEW s \in {"pending", "promoting", "approved"}, NEW sha \in History,
               Save(Mark(op[p].cp, s, sha)) \/ UNCHANGED meta
        PROVE  \A c \in Ids : Retracted(meta'[c]) => meta'[c] = meta[c]
    <3>1. Mark(op[p].cp, s, sha) \in Checkpoint /\ Mark(op[p].cp, s, sha).state = s
      <4> DEFINE cp == op[p].cp
      <4>1. cp \in Checkpoint /\ s \in States
        OBVIOUS
      <4> HIDE DEF cp
      <4>2. Mark(cp, s, sha) \in Checkpoint /\ Mark(cp, s, sha).state = s
        BY <4>1, MarkFields
      <4> QED BY <4>2 DEF cp
    <3> QED BY <2>0, <3>1, SavedUnretracted DEF Retracted
  <2>1. CASE SaveClaim(p)
    BY <2>0, <2>1 DEF SaveClaim, SaveFails
  <2>2. CASE SwitchToMain(p)
    <3>1. op[p].cp.state = "pending"
      BY <2>2, PromotionIsKnown DEF SwitchToMain, At, Inv, Knows
    <3> QED BY <2>2, <3>1, SavedUnretracted DEF SwitchToMain, SaveFails, Retracted
  <2>3. CASE SavePromoted(p)
    BY <2>0, <2>3 DEF SavePromoted, SaveFails
  <2>4. CASE SaveApproved(p)
    BY <2>0, <2>4 DEF SaveApproved, SaveFails
  <2>5. CASE SaveReleased(p)
    BY <2>0, <2>5 DEF SaveReleased, SaveFails
  <2>6. CASE UNCHANGED meta
    BY <2>6
  <2> QED BY <2>1, <2>2, <2>3, <2>4, <2>5, <2>6
          DEF ApproveStep, StartApprove, MergeCheckpoint, PushMain, AbortApprove, SwitchBack
<1>5. \A c \in Ids : RevertRecord(c)'
  BY <1>2, <1>4, RecordsStay
<1>6. RevertPhase(op[p])'
  BY <1>3 DEF RevertPhase
<1> QED BY <1>5, <1>6, OneRevert

LEMMA RevertUndo ==
  ASSUME OneAgent, Inv, CloneInv, CoverInv, RevertInv, NEW p \in Procs, UndoStep(p)
  PROVE  RevertInv'
<1> DEFINE o == op[p]
           c == op[p].cp.id
<1>1. /\ TypeInv /\ TypeInv' /\ RepoInv /\ Phase(o) /\ Knows(o) /\ RevertPhase(o) /\ CoverPhase(o, c)
      /\ op \in [Procs -> Operation] /\ o \in Operation /\ o.cp \in Checkpoint /\ c \in Ids
      /\ o.cp.promoted \in History /\ o.cp.commits \in Seq(History) /\ o.left \in Nat /\ InBounds(o)
      /\ o.cp.baseline \in History /\ meta \in [Ids -> Checkpoint] /\ head \in Branches
      /\ ref \in [Branches -> History] /\ Main \in Branches
      /\ origin \in History /\ origin' \in History /\ NoCommit \in History
      /\ "undoing" \in States /\ "undone" \in States /\ "approved" \in States
  BY UndoTypes, OnePhase, OneCover, OneRevert, PromotionIsKnown, TypeInvParts, CurrentOperation, OperationFields,
     ValueTypes
     DEF Inv, DataTypes, TypeInv, TypeOK, States
<1>2. IsPrefix(origin, origin')
  BY <1>1, OriginGrows DEF Next, AgentStep
<1>0. ASSUME NEW s \in States, NEW sha \in History
      PROVE  /\ Mark(o.cp, s, sha) \in Checkpoint /\ Mark(o.cp, s, sha).id = c
             /\ Mark(o.cp, s, sha).state = s /\ Mark(o.cp, s, sha).promoted = sha
             /\ Mark(o.cp, s, sha).baseline = o.cp.baseline
             /\ LastCommit(Mark(o.cp, s, sha)) = LastCommit(o.cp)
  <2> DEFINE cp == o.cp
  <2>1. cp \in Checkpoint
    BY <1>1
  <2> HIDE DEF cp
  <2>2. /\ Mark(cp, s, sha) \in Checkpoint /\ Mark(cp, s, sha).id = cp.id
        /\ Mark(cp, s, sha).state = s /\ Mark(cp, s, sha).promoted = sha
        /\ Mark(cp, s, sha).baseline = cp.baseline /\ LastCommit(Mark(cp, s, sha)) = LastCommit(cp)
    BY <2>1, MarkCovers
  <2> QED BY <2>2 DEF cp
<1> USE <1>1
<1>3. ASSUME NEW m \in Checkpoint, ~Retracted(m), Save(m) \/ UNCHANGED meta
      PROVE  \A d \in Ids : RevertRecord(d)'
  BY <1>2, <1>3, SavedUnretracted, RecordsStay
<1>4. ASSUME UNCHANGED meta PROVE \A d \in Ids : RevertRecord(d)'
  BY <1>2, <1>4, RecordsStay
<1>5. ASSUME op'[p].pc \notin RevertPcs \cup {"ufinish"} PROVE RevertPhase(op[p])'
  BY <1>5 DEF RevertPhase
<1>6. ASSUME NEW d \in Ids, StartDiscard(p, d) PROVE RevertInv'
  <2>1. UNCHANGED meta /\ op'[p].pc \notin RevertPcs \cup {"ufinish"}
    BY <1>6 DEF StartDiscard, RevertPcs
  <2> QED BY <1>4, <1>5, <2>1, OneRevert
<1>7. ASSUME NEW d \in Ids, StartRevert(p, d) PROVE RevertInv'
  <2>1. /\ UNCHANGED meta /\ op'[p].pc = "uswitch" /\ op'[p].cp = meta[d]
        /\ op'[p].left = Len(meta[d].commits)
    BY <1>7 DEF StartRevert, RevertsDue
  <2>2. ~ \E k \in 1..Len(meta[d].commits) : k > Len(meta[d].commits)
    BY DEF Checkpoint
  <2>3. RevertPhase(op[p])'
    BY <2>1, <2>2 DEF RevertPhase
  <2> QED BY <1>4, <2>1, <2>3, OneRevert
<1>8. CASE LeaveBranch(p) \/ DropBranch(p) \/ AbortRevert(p)
  <2>1. UNCHANGED meta /\ op'[p].pc \notin RevertPcs \cup {"ufinish"}
    BY <1>8, GotoEffect, DoneEffect DEF LeaveBranch, DropBranch, AbortRevert, RevertPcs
  <2> QED BY <1>4, <1>5, <2>1, OneRevert
<1>9. CASE SaveDiscarded(p)
  <2> DEFINE m == Mark(o.cp, "undone", NoCommit)
  <2>1. m \in Checkpoint /\ ~Retracted(m)
    BY <1>0 DEF Retracted
  <2>2. (Save(m) \/ UNCHANGED meta) /\ op'[p].pc \notin RevertPcs \cup {"ufinish"}
    BY <1>9, DoneEffect DEF SaveDiscarded, SaveFails, RevertPcs
  <2> HIDE DEF m
  <2> QED BY <1>3, <1>5, <2>1, <2>2, OneRevert
<1>10. CASE SwitchToRevert(p)
  <2>1. UNCHANGED <<ref, meta>> /\ o.pc = "uswitch"
    BY <1>10 DEF SwitchToRevert, At
  <2>2. CASE Done(p)
    <3>1. op'[p].pc \notin RevertPcs \cup {"ufinish"}
      BY <2>2, DoneEffect DEF RevertPcs
    <3> QED BY <1>4, <1>5, <2>1, <3>1, OneRevert
  <2>3. CASE Goto(p, "revert")
    <3>1. op'[p].pc = "revert" /\ op'[p].cp = o.cp /\ op'[p].left = o.left
      BY <2>3, GotoEffect DEF Goto, Operation
    <3>2. RevertPhase(op[p])'
      BY <2>1, <3>1 DEF RevertPhase, RevertPcs, Reverted
    <3> QED BY <1>4, <2>1, <3>2, OneRevert
  <2> QED BY <1>10, <2>2, <2>3 DEF SwitchToRevert
<1>11. CASE RevertCommit(p)
  <2>1. /\ UNCHANGED meta /\ o.pc = "revert" /\ head = Main /\ op'[p].cp = o.cp
        /\ Undoes(o.cp.promoted, ref[Main]) /\ o.left <= Len(o.cp.commits)
    BY <1>11, GotoEffect DEF RevertCommit, At, Operation, Phase, UndoInv, InBounds
  <2>2. CASE /\ o.left > 0 /\ Keep(Append(ref[head], RevertOf(o.cp.commits[o.left])))
             /\ op' = [op EXCEPT ![p].left = o.left - 1]
    <3> DEFINE k0 == o.cp.commits[o.left]
               g == Append(ref[Main], RevertOf(k0))
    <3>1. k0 \in History /\ Len(o.cp.promoted) <= Len(ref[Main]) /\ ref[Main] \in History
      BY <2>1, <2>2, PrefixPointwise DEF Undoes
    <3>2. /\ \A n : Reverted(ref[Main], o.cp.promoted, n) => Reverted(g, o.cp.promoted, n)
          /\ Reverted(g, o.cp.promoted, Len(k0))
      BY <3>1, RevertedGrows
    <3>3. ref'[Main] = g
      BY <2>1, <2>2 DEF Keep
    <3> HIDE DEF g
    <3>4. op'[p].pc = "revert" /\ op'[p].left = o.left - 1
      BY <2>1, <2>2 DEF Operation
    <3>5. ASSUME NEW k \in 1..Len(o.cp.commits), k > o.left - 1
          PROVE  Reverted(g, o.cp.promoted, Len(o.cp.commits[k]))
      <4>1. CASE k = o.left
        BY <3>2, <4>1
      <4>2. CASE k # o.left
        <5>1. k > o.left
          BY <3>5, <4>2
        <5> QED BY <2>1, <3>2, <5>1 DEF RevertPhase, RevertPcs
      <4> QED BY <4>1, <4>2
    <3>6. RevertPhase(op[p])'
      BY <2>1, <3>3, <3>4, <3>5 DEF RevertPhase, RevertPcs, Reverted
    <3> QED BY <1>4, <2>1, <3>6, OneRevert
  <2>3. CASE Goto(p, "uabort")
    <3>1. op'[p].pc \notin RevertPcs \cup {"ufinish"}
      BY <2>3, GotoEffect DEF RevertPcs
    <3> QED BY <1>4, <1>5, <2>1, <3>1, OneRevert
  <2>4. CASE o.left = 0 /\ Goto(p, "umark") /\ UNCHANGED ref
    <3>1. op'[p].pc = "umark"
      BY <2>4, GotoEffect
    <3>2. \A k \in 1..Len(o.cp.commits) : Reverted(ref[Main], o.cp.promoted, Len(o.cp.commits[k]))
      BY <2>1, <2>4 DEF RevertPhase, RevertPcs
    <3>3. RevertPhase(op[p])'
      BY <2>1, <2>4, <3>1, <3>2 DEF RevertPhase, RevertPcs, Reverted
    <3> QED BY <1>4, <2>1, <3>3, OneRevert
  <2> QED BY <1>11, <2>2, <2>3, <2>4 DEF RevertCommit
<1>12. CASE SaveUndoing(p)
  <2> DEFINE m == Mark(o.cp, "undoing", o.cp.promoted)
  <2>1. m \in Checkpoint /\ ~Retracted(m)
    BY <1>0 DEF Retracted
  <2>2. /\ o.pc = "umark" /\ UNCHANGED ref /\ (Save(m) \/ UNCHANGED meta)
        /\ op'[p].pc \in {"upush", "uabort"} /\ op'[p].cp = o.cp
    BY <1>12, GotoEffect DEF SaveUndoing, SaveFails, At, repo
  <2> HIDE DEF m
  <2>3. RevertPhase(op[p])'
    BY <2>2 DEF RevertPhase, RevertPcs, Reverted
  <2> QED BY <1>3, <2>1, <2>2, <2>3, OneRevert
<1>13. CASE PushRevert(p)
  <2>1. o.pc = "upush" /\ UNCHANGED <<ref, meta>> /\ op'[p].cp = o.cp
    BY <1>13, GotoEffect DEF PushRevert, Push, At, repo
  <2>2. CASE PushLands /\ Goto(p, "ufinish")
    <3>1. op'[p].pc = "ufinish" /\ origin' = ref[Main]
      BY <2>2, GotoEffect DEF PushLands
    <3>2. o.cp.promoted = LastCommit(o.cp) /\ Covers(o.cp, Len(LastCommit(o.cp)))
      BY <2>1 DEF Phase, UndoInv, UndoPcs, DiscardPcs, CoverPhase, SpanPcs
    <3>3. \A k \in 1..Len(o.cp.commits) : Reverted(ref[Main], LastCommit(o.cp), Len(o.cp.commits[k]))
      BY <2>1, <3>2 DEF RevertPhase, RevertPcs
    <3>4. InEffect(o.cp.baseline, LastCommit(o.cp), ref[Main]) = {}
      BY <3>2, <3>3, AllReverted
    <3>5. RevertPhase(op[p])'
      BY <2>1, <3>1, <3>4 DEF RevertPhase, RevertPcs, InEffect, LastCommit
    <3> QED BY <1>4, <2>1, <3>5, OneRevert
  <2>3. CASE Goto(p, "uabort")
    <3>1. op'[p].pc \notin RevertPcs \cup {"ufinish"}
      BY <2>3, GotoEffect DEF RevertPcs
    <3> QED BY <1>4, <1>5, <2>1, <3>1, OneRevert
  <2> QED BY <1>13, <2>2, <2>3 DEF PushRevert, Push
<1>14. CASE SaveUndone(p)
  <2> DEFINE m == Mark(o.cp, "undone", o.cp.promoted)
  <2>1. m \in Checkpoint /\ m.id = c /\ m.baseline = o.cp.baseline /\ LastCommit(m) = LastCommit(o.cp)
    BY <1>0
  <2>2. /\ o.pc = "ufinish" /\ (Save(m) \/ UNCHANGED meta) /\ origin' = origin
        /\ op'[p].pc \notin RevertPcs \cup {"ufinish"}
    BY <1>14, DoneEffect DEF SaveUndone, SaveFails, At, RevertPcs
  <2>3. IsPrefix(LastCommit(m), origin) /\ InEffect(m.baseline, LastCommit(m), origin) = {}
    BY <2>1, <2>2 DEF RevertPhase, Knows, Phase, UndoInv, UndoPcs, DiscardPcs
  <2> HIDE DEF m
  <2>4. CASE Save(m)
    <3>1. meta'[c] = m /\ \A d \in Ids \ {c} : meta'[d] = meta[d]
      BY <2>1, <2>4 DEF Save
    <3>2. ASSUME NEW d \in Ids PROVE RevertRecord(d)'
      <4>1. CASE d = c
        <5>1. LastCommit(meta[d])' = LastCommit(m) /\ meta'[d].baseline = m.baseline
          BY <3>1, <4>1 DEF LastCommit
        <5> QED BY <2>2, <2>3, <5>1 DEF RevertRecord, InEffect, IsPrefix
      <4>2. CASE d # c
        BY <2>2, <3>1, <4>2 DEF RevertInv, RevertRecord, Retracted, LastCommit, InEffect, IsPrefix
      <4> QED BY <4>1, <4>2
    <3> QED BY <1>5, <2>2, <3>2, OneRevert
  <2>5. CASE UNCHANGED meta
    BY <1>4, <1>5, <2>2, <2>5, OneRevert
  <2> QED BY <2>2, <2>4, <2>5
<1>15. CASE SaveStillApproved(p)
  <2> DEFINE m == Mark(o.cp, "approved", o.cp.promoted)
  <2>1. m \in Checkpoint /\ ~Retracted(m)
    BY <1>0 DEF Retracted
  <2>2. (Save(m) \/ UNCHANGED meta) /\ op'[p].pc \notin RevertPcs \cup {"ufinish"}
    BY <1>15, DoneEffect DEF SaveStillApproved, SaveFails, RevertPcs
  <2> HIDE DEF m
  <2> QED BY <1>3, <1>5, <2>1, <2>2, OneRevert
<1> QED BY <1>6, <1>7, <1>8, <1>9, <1>10, <1>11, <1>12, <1>13, <1>14, <1>15 DEF UndoStep

LEMMA RevertEnvironment ==
  ASSUME OneAgent, Inv, CloneInv, RevertInv, OthersPush \/ UserStep \/ \E p \in Procs : CommandRaises(p) \/ Crash(p)
  PROVE  RevertInv'
<1>1. PICK p \in Procs : Procs = {p}
  BY ProcsAssumption DEF OneAgent
<1>2. /\ TypeInv /\ TypeInv' /\ op[p] \in Operation /\ op[p].cp \in Checkpoint /\ RevertPhase(op[p]) /\ Knows(op[p])
      /\ op[p].cp.baseline \in History /\ LastCommit(op[p].cp) \in History /\ Phase(op[p])
      /\ origin \in History /\ origin' \in History
  BY EnvironmentTypes, OneRevert, OnePhase, PromotionIsKnown, ValueTypes, TypeInvParts, CurrentOperation, OperationFields
     DEF Inv, DataTypes, TypeInv, TypeOK
<1>3. IsPrefix(origin, origin')
  BY <1>2, OriginGrows DEF Next
<1>4. UNCHANGED meta
  BY DEF OthersPush, UserStep, UserCommits, UserPulls, UserSwitches, CommandRaises, Crash
<1>5. \A c \in Ids : RevertRecord(c)'
  BY <1>2, <1>3, <1>4, RecordsStay
<1>6. CASE OthersPush
  <2>1. UNCHANGED <<ref, op>>
    BY <1>6 DEF OthersPush, repo
  <2>2. op[p].pc = "ufinish" => InEffect(op[p].cp.baseline, LastCommit(op[p].cp), origin') = {}
    BY <1>2, <1>3, StaysOut DEF RevertPhase, Knows, Phase, UndoInv, UndoPcs, DiscardPcs
  <2>3. RevertPhase(op[p])'
    BY <1>2, <2>1, <2>2 DEF RevertPhase, Reverted, LastCommit, InEffect
  <2> QED BY <1>5, <2>3, OneRevert
<1>7. CASE UserStep
  <2>1. op' = op /\ op[p].pc = "idle"
    BY <1>7 DEF UserStep, UserCommits, UserPulls, UserSwitches, AllIdle
  <2>2. RevertPhase(op[p])'
    BY <2>1 DEF RevertPhase, RevertPcs
  <2> QED BY <1>5, <2>2, OneRevert
<1>8. CASE CommandRaises(p) \/ Crash(p)
  <2>1. op'[p].pc \in {"idle", "unlink"}
    BY <1>2, <1>8, DoneEffect, GotoEffect, RaisingEffect DEF Crash
  <2>2. RevertPhase(op[p])'
    BY <2>1 DEF RevertPhase, RevertPcs
  <2> QED BY <1>5, <2>2, OneRevert
<1> QED BY <1>1, <1>6, <1>7, <1>8

LEMMA RevertNext ==
  ASSUME OneAgent, Inv, CloneInv, CoverInv, RevertInv, [Next]_vars
  PROVE  RevertInv'
<1>1. CASE Next
  BY <1>1, RevertRun, RevertApprove, RevertUndo, RevertEnvironment DEF Next, AgentStep
<1>2. CASE UNCHANGED vars
  <2>1. UNCHANGED <<ref, meta, op, origin>> /\ origin \in History /\ TypeInv
    BY <1>2, TypeInvParts DEF vars, Inv, DataTypes
  <2>2. \A c \in Ids : RevertRecord(c)'
    BY <2>1, RecordsStay, HistoryFacts
  <2>3. ASSUME NEW p \in Procs PROVE RevertPhase(op[p])'
    <3>1. RevertPhase(op[p])
      BY DEF RevertInv
    <3> QED BY <2>1, <3>1 DEF RevertPhase, Reverted, InEffect, LastCommit
  <2> QED BY <2>2, <2>3 DEF RevertInv
<1> QED BY <1>1, <1>2

LEMMA RevertInit == ASSUME Init PROVE RevertInv
<1>1. ASSUME NEW c \in Ids PROVE RevertRecord(c)
  BY DEF Init, Absent, RevertRecord, Retracted
<1>2. ASSUME NEW p \in Procs PROVE RevertPhase(op[p])
  <2>1. op[p].pc = "idle"
    BY DEF Init, Idle
  <2> QED BY <2>1 DEF RevertPhase, RevertPcs
<1> QED BY <1>1, <1>2 DEF RevertInv

-----------------------------------------------------------------------------
(* The invariant of the specification *)

LedgerInv == OutInv /\ CoverInv /\ RevertInv

LEMMA LedgerIsKept ==
  ASSUME OneAgent, NoPushTimeouts, LoopCommits
  PROVE  Spec => [](Inv /\ CloneInv /\ LedgerInv)
<1>1. Init => Inv /\ CloneInv /\ LedgerInv
  BY PromotionInit, CloneInit, OutInit, CoverInit, RevertInit DEF LedgerInv
<1>2. (Inv /\ CloneInv /\ LedgerInv) /\ [Next]_vars => (Inv /\ CloneInv /\ LedgerInv)'
  BY PromotionNext, CloneNext, OutNext, CoverNext, RevertNext DEF LedgerInv
<1> QED BY <1>1, <1>2, PTL DEF Spec

(* After an undo no change of the checkpoint is in effect on the remote's main
   (README.md:16): a discarded checkpoint never was on it, and an approved one
   is reverted commit by commit.  The coding CLI leaves HEAD and committing to
   the loop; with a push whose answer is lost, or commits of its own, it is
   false. *)
THEOREM UndoneIsAlwaysReverted ==
  ASSUME OneAgent, NoPushTimeouts, LoopCommits, KeepsToBranch
  PROVE  Spec => []UndoneIsReverted
<1>1. ASSUME Inv, CloneInv, LedgerInv, NEW c \in Ids, meta[c].state = "undone"
      PROVE  InEffect(meta[c].baseline, LastCommit(meta[c]), origin) = {}
  <2>1. CASE Retracted(meta[c])
    BY <1>1, <2>1 DEF LedgerInv, RevertInv, RevertRecord
  <2>2. CASE ~Retracted(meta[c])
    <3>1. NotOut(c, origin)
      BY <1>1, <2>2 DEF LedgerInv, OutInv, Unpublished, Retracted
    <3>2. Work(c, meta[c].baseline, LastCommit(meta[c]))
      BY <1>1 DEF LedgerInv, CoverInv, CoverRecord
    <3>3. /\ meta[c].baseline \in History /\ LastCommit(meta[c]) \in History /\ origin \in History
      BY <1>1, TypeInvParts, ValueTypes DEF Inv, DataTypes, Checkpoint
    <3>4. ASSUME NEW i \in InEffect(meta[c].baseline, LastCommit(meta[c]), origin) PROVE FALSE
      <4>1. /\ i \in Len(meta[c].baseline) + 1 .. Len(LastCommit(meta[c])) /\ i <= Len(origin)
            /\ origin[i] = LastCommit(meta[c])[i]
        BY DEF InEffect
      <4>2. origin[i] = Change({c})
        BY <3>2, <4>1 DEF Work
      <4>3. i \in 1..Len(origin)
        BY <3>3, <4>1, HistoryFacts
      <4> QED BY <3>1, <4>2, <4>3, ChangeFields DEF NotOut
    <3> QED BY <3>4
  <2> QED BY <2>1, <2>2
<1>2. Inv /\ CloneInv /\ LedgerInv => UndoneIsReverted
  BY <1>1 DEF UndoneIsReverted
<1> QED BY <1>2, LedgerIsKept, PTL

-----------------------------------------------------------------------------
(* The refinement, step by step *)

LEMMA LedgerState ==
  ASSUME NEW c \in Ids
  PROVE  /\ Ledger!State(c) = meta[c].state
         /\ Ledger!Published(c) <=> IsPrefix(LastCommit(meta[c]), origin)
BY DEF Ledger!State, Ledger!Published, Ledger!IsPrefix, IsPrefix

(* The same commits in another state are the same entry in another state. *)
LEMMA LedgerBecomes ==
  ASSUME TypeInv, NEW cp \in Checkpoint, Save(cp), UNCHANGED origin,
         cp.baseline = meta[cp.id].baseline, cp.commits = meta[cp.id].commits
  PROVE  Ledger!Become(cp.id, meta[cp.id].state, cp.state)
<1>1. meta \in [Ids -> Checkpoint] /\ cp.id \in Ids
  BY TypeInvParts DEF DataTypes, Checkpoint
<1>2. meta' = [d \in Ids |-> IF d = cp.id THEN cp ELSE meta[d]]
  BY <1>1 DEF Save
<1>3. LastCommit(cp) = LastCommit(meta[cp.id])
  BY DEF LastCommit
<1> QED BY <1>1, <1>2, <1>3 DEF Ledger!Become, Ledger!State

(* ... and in the same state are the same entry. *)
LEMMA LedgerStays ==
  ASSUME TypeInv, NEW cp \in Checkpoint, Save(cp), UNCHANGED origin, cp.state = meta[cp.id].state,
         cp.baseline = meta[cp.id].baseline, cp.commits = meta[cp.id].commits
  PROVE  UNCHANGED Ledger!lvars
<1>1. meta \in [Ids -> Checkpoint] /\ cp.id \in Ids
  BY TypeInvParts DEF DataTypes, Checkpoint
<1>2. meta' = [d \in Ids |-> IF d = cp.id THEN cp ELSE meta[d]]
  BY <1>1 DEF Save
<1>3. LastCommit(cp) = LastCommit(meta[cp.id])
  BY DEF LastCommit
<1> QED BY <1>1, <1>2, <1>3 DEF Ledger!lvars

LEMMA LedgerIdle ==
  ASSUME UNCHANGED <<meta, origin>>
  PROVE  UNCHANGED Ledger!lvars
BY DEF Ledger!lvars, LastCommit

LEMMA LedgerPreviews ==
  ASSUME TypeInv, NEW cp \in Checkpoint, Save(cp), UNCHANGED origin,
         meta[cp.id].state \in {"absent", "pending"}, cp.state = "pending",
         ~IsPrefix(LastCommit(cp), origin)
  PROVE  Ledger!LNext
<1>1. meta \in [Ids -> Checkpoint] /\ cp.id \in Ids
  BY TypeInvParts DEF DataTypes, Checkpoint
<1>2. meta' = [d \in Ids |-> IF d = cp.id THEN cp ELSE meta[d]]
  BY <1>1 DEF Save
<1>3. Ledger!Preview(cp.id)
  BY <1>1, <1>2 DEF Ledger!Preview, Ledger!State, Ledger!Published, Ledger!IsPrefix, IsPrefix
<1> QED BY <1>1, <1>3 DEF Ledger!LNext

LEMMA LedgerWithdraws ==
  ASSUME TypeInv, NEW cp \in Checkpoint, Save(cp), UNCHANGED origin,
         meta[cp.id].state \in {"absent", "pending"}, cp.state = "absent"
  PROVE  Ledger!LNext
<1>1. meta \in [Ids -> Checkpoint] /\ cp.id \in Ids
  BY TypeInvParts DEF DataTypes, Checkpoint
<1>2. meta' = [d \in Ids |-> IF d = cp.id THEN cp ELSE meta[d]]
  BY <1>1 DEF Save
<1>3. Ledger!Withdraw(cp.id)
  BY <1>1, <1>2 DEF Ledger!Withdraw, Ledger!State
<1> QED BY <1>1, <1>3 DEF Ledger!LNext

(* run: a pass previews, a failure withdraws. *)
LEMMA RunRefines ==
  ASSUME OneAgent, Inv, CloneInv, LedgerInv, NEW p \in Procs, RunStep(p)
  PROVE  [Ledger!LNext]_(Ledger!lvars)
<1> DEFINE o == op[p]
           c == op[p].cp.id
<1>1. /\ TypeInv /\ RepoInv /\ Phase(o) /\ o \in Operation /\ o.cp \in Checkpoint /\ c \in Ids
      /\ ref \in [Branches -> History] /\ head \in Branches /\ origin \in History
      /\ meta \in [Ids -> Checkpoint] /\ ref[head] \in History
  BY OnePhase, TypeInvParts, CurrentOperation, OperationFields DEF Inv, DataTypes, TypeInv, TypeOK
<1> USE <1>1
<1>2. CASE RecordPass(p)
  <2> DEFINE cp == [op[p].cp EXCEPT !.commits = Append(@, ref[head])]
  <2>1. cp \in Checkpoint /\ cp.id = c /\ cp.state = o.cp.state /\ LastCommit(cp) = ref[head]
    <3>1. ASSUME NEW x \in Checkpoint, NEW h \in History
          PROVE  LET y == [x EXCEPT !.commits = Append(x.commits, h)]
                 IN  y \in Checkpoint /\ y.id = x.id /\ y.state = x.state /\ LastCommit(y) = h
      <4> DEFINE s == Append(x.commits, h)
                 y == [x EXCEPT !.commits = s]
      <4>0. x.commits \in Seq(History)
        BY DEF Checkpoint
      <4>1. s \in Seq(History) /\ s # <<>> /\ s[Len(s)] = h
        BY <4>0
      <4> HIDE DEF s
      <4>2. y \in Checkpoint /\ y.id = x.id /\ y.state = x.state /\ y.commits = s
        BY <4>1 DEF Checkpoint
      <4> HIDE DEF y
      <4>3. LastCommit(y) = h
        BY <4>1, <4>2 DEF LastCommit
      <4> QED BY <4>2, <4>3 DEF s, y
    <3>2. cp = [op[p].cp EXCEPT !.commits = Append(op[p].cp.commits, ref[head])]
      OBVIOUS
    <3> HIDE DEF cp
    <3> QED BY <3>1, <3>2
  <2>2. o.pc = "record" /\ origin' = origin /\ (Save(cp) \/ UNCHANGED meta)
    BY <1>2 DEF RecordPass, At, SaveFails
  <2> HIDE DEF cp
  <2>3. /\ meta[c].state \in {"absent", "pending"} /\ EndsIn(c, ref[head])
        /\ o.cp.state = "pending"
    BY <2>2, PromotionIsKnown DEF Phase, RunInv, RunPcs, Inv, Knows
  <2>4. NotOut(c, origin)
    BY <2>3 DEF LedgerInv, OutInv, Unpublished
  <2>5. CASE Save(cp)
    <3>1. ~IsPrefix(LastCommit(cp), origin)
      BY <2>1, <2>3, <2>4, NotBelow
    <3> QED BY <2>1, <2>2, <2>3, <2>5, <3>1, LedgerPreviews
  <2>6. CASE UNCHANGED meta
    BY <2>2, <2>6, LedgerIdle
  <2> QED BY <2>2, <2>5, <2>6
<1>3. CASE Unlink(p)
  <2>1. meta[c].state \in {"absent", "pending"} /\ origin' = origin
    BY <1>3 DEF Unlink, At, Phase, RunInv, RunPcs
  <2>2. Absent(c) \in Checkpoint /\ Absent(c).id = c /\ Absent(c).state = "absent" /\ Save(Absent(c))
    BY <1>3, ValueTypes DEF Unlink, Absent
  <2> QED BY <2>1, <2>2, LedgerWithdraws
<1>4. CASE UNCHANGED <<meta, origin>>
  BY <1>4, LedgerIdle
<1> QED BY <1>2, <1>3, <1>4
        DEF RunStep, StartRun, CreateBranch, Backend, Verify, CommitPass, PublishBranch, ResetRun, RestoreBase,
            DeleteBranch

(* approve_checkpoint: a claim is published, confirmed, or released. *)
LEMMA ApproveRefines ==
  ASSUME OneAgent, NoPushTimeouts, Inv, CloneInv, LedgerInv, NEW p \in Procs, ApproveStep(p)
  PROVE  [Ledger!LNext]_(Ledger!lvars)
<1> DEFINE o == op[p]
           c == op[p].cp.id
<1>1. /\ TypeInv /\ RepoInv /\ Phase(o) /\ Knows(o) /\ o \in Operation /\ o.cp \in Checkpoint /\ c \in Ids
      /\ ref \in [Branches -> History] /\ origin \in History /\ Main \in Branches
      /\ meta \in [Ids -> Checkpoint] /\ o.cp.promoted \in History /\ o.cp.baseline \in History
      /\ "pending" \in States /\ "promoting" \in States /\ "approved" \in States /\ NoCommit \in History
  BY OnePhase, PromotionIsKnown, TypeInvParts, CurrentOperation, OperationFields, ValueTypes
     DEF Inv, DataTypes, TypeInv, TypeOK, States
<1>0. ASSUME NEW s \in States, NEW sha \in History
      PROVE  /\ Mark(o.cp, s, sha) \in Checkpoint /\ Mark(o.cp, s, sha).id = c
             /\ Mark(o.cp, s, sha).state = s
             /\ Mark(o.cp, s, sha).baseline = o.cp.baseline /\ Mark(o.cp, s, sha).commits = o.cp.commits
  <2> DEFINE cp == o.cp
  <2>1. cp \in Checkpoint
    BY <1>1
  <2> HIDE DEF cp
  <2>2. /\ Mark(cp, s, sha) \in Checkpoint /\ Mark(cp, s, sha).id = cp.id
        /\ Mark(cp, s, sha).state = s
        /\ Mark(cp, s, sha).baseline = cp.baseline /\ Mark(cp, s, sha).commits = cp.commits
    BY <2>1, MarkCovers
  <2> QED BY <2>2 DEF cp
<1> USE <1>1
<1>2. ASSUME o.pc \in ApprovePcs \ {"back"}
      PROVE  /\ Same(o) /\ meta[c].state = IF o.pc = "claim" THEN "pending" ELSE "promoting"
             /\ LastCommit(meta[c]) = LastCommit(o.cp) /\ EndsIn(c, LastCommit(o.cp))
             /\ LastCommit(o.cp) \in History
  <2>1. Same(o) /\ meta[c].state = IF o.pc = "claim" THEN "pending" ELSE "promoting"
    BY <1>2 DEF Phase, ApproveInv
  <2>2. LastCommit(meta[c]) = LastCommit(o.cp)
    BY <2>1 DEF Same, LastCommit
  <2>3. meta[c].state # "absent"
    BY <2>1
  <2> QED BY <2>1, <2>2, <2>3, ValueTypes DEF RepoInv, RecordInv
(* Not on the remote's main, as long as the approval is under way. *)
<1>3. ASSUME o.pc \in HoldPcs PROVE ~IsPrefix(LastCommit(o.cp), origin)
  BY <1>2, <1>3, NotBelow DEF LedgerInv, OutInv, HoldPcs, ApprovePcs
<1>4. CASE SaveClaim(p)
  <2> DEFINE m == Mark(o.cp, "promoting", NoCommit)
  <2>1. m \in Checkpoint /\ m.id = c /\ m.state = "promoting" /\ m.baseline = o.cp.baseline /\ m.commits = o.cp.commits
    BY <1>0
  <2>2. o.pc = "claim" /\ origin' = origin /\ (Save(m) \/ UNCHANGED meta)
    BY <1>4 DEF SaveClaim, At, SaveFails
  <2> HIDE DEF m
  <2>3. meta[c].state = "pending" /\ Same(o)
    BY <1>2, <2>2 DEF ApprovePcs
  <2>4. Save(m) => Ledger!Become(c, "pending", "promoting")
    BY <2>1, <2>2, <2>3, LedgerBecomes DEF Same
  <2> QED BY <2>2, <2>4, LedgerIdle DEF Ledger!LNext, Ledger!Claim
<1>5. CASE SwitchToMain(p)
  <2>1. o.pc = "switch" /\ origin' = origin /\ (Save(o.cp) \/ UNCHANGED meta)
    BY <1>5 DEF SwitchToMain, At, SaveFails
  <2>2. meta[c].state = "promoting" /\ Same(o) /\ o.cp.state = "pending" /\ ~Ledger!Published(c)
    BY <1>2, <1>3, <2>1, LedgerState DEF ApprovePcs, HoldPcs, Knows
  <2>3. Save(o.cp) => Ledger!Become(c, "promoting", "pending")
    BY <2>1, <2>2, LedgerBecomes DEF Same
  <2> QED BY <2>1, <2>2, <2>3, LedgerIdle DEF Ledger!LNext, Ledger!Release
<1>6. CASE SavePromoted(p)
  <2> DEFINE m == Mark(o.cp, "promoting", o.cp.promoted)
  <2>1. m \in Checkpoint /\ m.id = c /\ m.state = "promoting" /\ m.baseline = o.cp.baseline /\ m.commits = o.cp.commits
    BY <1>0
  <2>2. o.pc = "note" /\ origin' = origin /\ (Save(m) \/ UNCHANGED meta)
    BY <1>6 DEF SavePromoted, At, SaveFails
  <2> HIDE DEF m
  <2>3. meta[c].state = "promoting" /\ Same(o)
    BY <1>2, <2>2 DEF ApprovePcs
  <2> QED BY <2>1, <2>2, <2>3, LedgerStays, LedgerIdle DEF Same
<1>7. CASE PushMain(p)
  <2>1. o.pc = "push" /\ UNCHANGED meta
    BY <1>7 DEF PushMain, At
  <2>2. /\ meta[c].state = "promoting" /\ Same(o) /\ LastCommit(meta[c]) = LastCommit(o.cp)
        /\ ref[Main] = LastCommit(o.cp) /\ Work(c, o.cp.baseline, ref[Main]) /\ Grown(o.cp.baseline, origin)
    BY <1>2, <2>1 DEF ApprovePcs, Phase, ApproveInv
  <2>3. CASE PushLands
    <3>1. \A i \in Len(o.cp.baseline) + 1 .. Len(ref[Main]) : ref[Main][i].kind = "change"
      BY <2>2, ChangeFields DEF Work
    <3>2. origin = o.cp.baseline /\ origin' = ref[Main]
      BY <2>2, <2>3, <3>1, PushedOnto DEF Work, PushLands
    <3>3. origin = meta[c].baseline /\ origin' = LastCommit(meta[c])
      BY <2>2, <3>2 DEF Same
    <3>4. Ledger!Publish(c)
      BY <2>1, <2>2, <3>3 DEF Ledger!Publish, Ledger!State, LastCommit
    <3> QED BY <3>4 DEF Ledger!LNext
  <2>4. CASE UNCHANGED origin
    BY <2>1, <2>4, LedgerIdle
  <2> QED BY <1>7, <2>3, <2>4 DEF PushMain, Push
<1>8. CASE SaveApproved(p)
  <2> DEFINE m == Mark(o.cp, "approved", o.cp.promoted)
  <2>1. m \in Checkpoint /\ m.id = c /\ m.state = "approved" /\ m.baseline = o.cp.baseline /\ m.commits = o.cp.commits
    BY <1>0
  <2>2. o.pc = "finish" /\ origin' = origin /\ (Save(m) \/ UNCHANGED meta)
    BY <1>8 DEF SaveApproved, At, SaveFails
  <2> HIDE DEF m
  <2>3. meta[c].state = "promoting" /\ Same(o) /\ Ledger!Published(c)
    BY <1>2, <2>2, LedgerState DEF ApprovePcs, Knows, Phase, ApproveInv
  <2>4. Save(m) => Ledger!Become(c, "promoting", "approved")
    BY <2>1, <2>2, <2>3, LedgerBecomes DEF Same
  <2> QED BY <2>2, <2>3, <2>4, LedgerIdle DEF Ledger!LNext, Ledger!Confirm
<1>9. CASE SaveReleased(p)
  <2> DEFINE m == Mark(o.cp, "pending", NoCommit)
  <2>1. m \in Checkpoint /\ m.id = c /\ m.state = "pending" /\ m.baseline = o.cp.baseline /\ m.commits = o.cp.commits
    BY <1>0
  <2>2. o.pc = "release" /\ origin' = origin /\ (Save(m) \/ UNCHANGED meta)
    BY <1>9 DEF SaveReleased, At, SaveFails
  <2> HIDE DEF m
  <2>3. meta[c].state = "promoting" /\ Same(o) /\ ~Ledger!Published(c)
    BY <1>2, <1>3, <2>2, LedgerState DEF ApprovePcs, HoldPcs
  <2>4. Save(m) => Ledger!Become(c, "promoting", "pending")
    BY <2>1, <2>2, <2>3, LedgerBecomes DEF Same
  <2> QED BY <2>2, <2>3, <2>4, LedgerIdle DEF Ledger!LNext, Ledger!Release
<1>10. CASE UNCHANGED <<meta, origin>>
  BY <1>10, LedgerIdle
<1> QED BY <1>4, <1>5, <1>6, <1>7, <1>8, <1>9, <1>10
        DEF ApproveStep, StartApprove, MergeCheckpoint, AbortApprove, SwitchBack


(* undo_checkpoint: a preview is discarded; an approved checkpoint is claimed,
   its reverts are published and confirmed, or it is approved again. *)
LEMMA UndoRefines ==
  ASSUME OneAgent, Inv, CloneInv, LedgerInv, NEW p \in Procs, UndoStep(p)
  PROVE  [Ledger!LNext]_(Ledger!lvars)
<1> DEFINE o == op[p]
           c == op[p].cp.id
<1>1. /\ TypeInv /\ RepoInv /\ Phase(o) /\ Knows(o) /\ RevertPhase(o) /\ CoverPhase(o, c)
      /\ o \in Operation /\ o.cp \in Checkpoint /\ c \in Ids
      /\ ref \in [Branches -> History] /\ origin \in History /\ Main \in Branches
      /\ meta \in [Ids -> Checkpoint] /\ o.cp.promoted \in History
      /\ "undoing" \in States /\ "undone" \in States /\ "approved" \in States /\ NoCommit \in History
  BY OnePhase, OneCover, OneRevert, PromotionIsKnown, TypeInvParts, CurrentOperation, OperationFields, ValueTypes
     DEF Inv, LedgerInv, DataTypes, TypeInv, TypeOK, States
<1>0. ASSUME NEW s \in States, NEW sha \in History
      PROVE  /\ Mark(o.cp, s, sha) \in Checkpoint /\ Mark(o.cp, s, sha).id = c
             /\ Mark(o.cp, s, sha).state = s
             /\ Mark(o.cp, s, sha).baseline = o.cp.baseline /\ Mark(o.cp, s, sha).commits = o.cp.commits
  <2> DEFINE cp == o.cp
  <2>1. cp \in Checkpoint
    BY <1>1
  <2> HIDE DEF cp
  <2>2. /\ Mark(cp, s, sha) \in Checkpoint /\ Mark(cp, s, sha).id = cp.id
        /\ Mark(cp, s, sha).state = s
        /\ Mark(cp, s, sha).baseline = cp.baseline /\ Mark(cp, s, sha).commits = cp.commits
    BY <2>1, MarkCovers
  <2> QED BY <2>2 DEF cp
<1> USE <1>1
<1>2. ASSUME o.pc \in UndoPcs \ DiscardPcs
      PROVE  /\ Same(o) /\ LastCommit(meta[c]) = LastCommit(o.cp)
             /\ o.cp.promoted = LastCommit(o.cp) /\ Covers(o.cp, Len(LastCommit(o.cp)))
  <2>1. Same(o) /\ o.cp.promoted = LastCommit(o.cp)
    BY <1>2 DEF Phase, UndoInv
  <2>2. LastCommit(meta[c]) = LastCommit(o.cp)
    BY <2>1 DEF Same, LastCommit
  <2> QED BY <1>2, <2>1, <2>2 DEF CoverPhase, SpanPcs
<1>3. CASE SaveDiscarded(p)
  <2> DEFINE m == Mark(o.cp, "undone", NoCommit)
  <2>1. m \in Checkpoint /\ m.id = c /\ m.state = "undone" /\ m.baseline = o.cp.baseline /\ m.commits = o.cp.commits
    BY <1>0
  <2>2. o.pc = "dropped" /\ origin' = origin /\ (Save(m) \/ UNCHANGED meta)
    BY <1>3 DEF SaveDiscarded, At, SaveFails
  <2> HIDE DEF m
  <2>3. meta[c] = o.cp /\ meta[c].state = "pending"
    BY <2>2 DEF Phase, UndoInv, DiscardPcs
  <2>4. EndsIn(c, LastCommit(meta[c])) /\ NotOut(c, origin) /\ LastCommit(meta[c]) \in History
    BY <2>3, ValueTypes DEF RepoInv, RecordInv, LedgerInv, OutInv, Unpublished
  <2>5. ~Ledger!Published(c)
    BY <2>4, NotBelow, LedgerState
  <2>6. Save(m) => Ledger!Become(c, "pending", "undone")
    BY <2>1, <2>2, <2>3, LedgerBecomes
  <2> QED BY <2>2, <2>5, <2>6, LedgerIdle DEF Ledger!LNext, Ledger!Discard
<1>4. CASE SaveUndoing(p)
  <2> DEFINE m == Mark(o.cp, "undoing", o.cp.promoted)
  <2>1. m \in Checkpoint /\ m.id = c /\ m.state = "undoing" /\ m.baseline = o.cp.baseline /\ m.commits = o.cp.commits
    BY <1>0
  <2>2. o.pc = "umark" /\ origin' = origin /\ (Save(m) \/ UNCHANGED meta)
    BY <1>4 DEF SaveUndoing, At, SaveFails
  <2> HIDE DEF m
  <2>3. meta[c].state = "approved" /\ Same(o)
    BY <1>2, <2>2 DEF Phase, UndoInv, UndoPcs, DiscardPcs
  <2>4. Save(m) => Ledger!Become(c, "approved", "undoing")
    BY <2>1, <2>2, <2>3, LedgerBecomes DEF Same
  <2> QED BY <2>2, <2>4, LedgerIdle DEF Ledger!LNext, Ledger!ClaimUndo
<1>5. CASE PushRevert(p)
  <2>1. o.pc = "upush" /\ UNCHANGED meta
    BY <1>5 DEF PushRevert, At
  <2>2. /\ meta[c].state = "undoing" /\ Same(o) /\ LastCommit(meta[c]) = LastCommit(o.cp)
        /\ o.cp.promoted = LastCommit(o.cp) /\ Covers(o.cp, Len(LastCommit(o.cp)))
        /\ Undoes(o.cp.promoted, ref[Main]) /\ Grown(o.cp.promoted, origin)
    BY <1>2, <2>1 DEF Phase, UndoInv, UndoPcs, DiscardPcs
  <2>3. CASE PushLands
    <3>1. ref[Main] \in History /\ IsPrefix(origin, ref[Main]) /\ origin' = ref[Main]
      BY <2>3 DEF PushLands
    <3>2. /\ IsPrefix(o.cp.promoted, ref[Main])
          /\ \A i \in Len(o.cp.promoted) + 1 .. Len(ref[Main]) : ref[Main][i].kind # "other"
      BY <2>2 DEF Undoes
    <3>3. origin = LastCommit(meta[c])
      BY <2>2, <3>1, <3>2, PushedOnto
    <3>4. \A k \in 1..Len(o.cp.commits) : Reverted(ref[Main], LastCommit(o.cp), Len(o.cp.commits[k]))
      BY <2>1, <2>2 DEF RevertPhase, RevertPcs
    <3>5. InEffect(o.cp.baseline, LastCommit(o.cp), ref[Main]) = {}
      BY <2>2, <3>1, <3>4, AllReverted
    <3>6. InEffect(meta[c].baseline, LastCommit(meta[c]), origin') = {}
      BY <2>2, <3>1, <3>5 DEF Same
    <3>7. Ledger!Retract(c)
      <4>1. Ledger!State(c) = "undoing"
        BY <2>2 DEF Ledger!State
      <4>2. Ledger!IsPrefix(origin, origin')
        BY <3>1 DEF Ledger!IsPrefix, IsPrefix
      <4>3. Ledger!InEffect(meta[c].baseline, LastCommit(meta[c]), origin') = {}
        BY <3>6 DEF Ledger!InEffect, InEffect
      <4>4. UNCHANGED [d \in Ids |-> [state |-> meta[d].state, from |-> meta[d].baseline,
                                      upto |-> LastCommit(meta[d])]]
        BY <2>1 DEF LastCommit
      <4> QED BY <3>3, <4>1, <4>2, <4>3, <4>4 DEF Ledger!Retract
    <3> QED BY <3>7 DEF Ledger!LNext
  <2>4. CASE UNCHANGED origin
    BY <2>1, <2>4, LedgerIdle
  <2> QED BY <1>5, <2>3, <2>4 DEF PushRevert, Push
<1>6. CASE SaveUndone(p)
  <2> DEFINE m == Mark(o.cp, "undone", o.cp.promoted)
  <2>1. m \in Checkpoint /\ m.id = c /\ m.state = "undone" /\ m.baseline = o.cp.baseline /\ m.commits = o.cp.commits
    BY <1>0
  <2>2. o.pc = "ufinish" /\ origin' = origin /\ (Save(m) \/ UNCHANGED meta)
    BY <1>6 DEF SaveUndone, At, SaveFails
  <2> HIDE DEF m
  <2>3. meta[c].state = "undoing" /\ Same(o) /\ LastCommit(meta[c]) = LastCommit(o.cp)
    BY <1>2, <2>2 DEF Phase, UndoInv, UndoPcs, DiscardPcs
  <2>4. InEffect(meta[c].baseline, LastCommit(meta[c]), origin) = {}
    BY <2>2, <2>3 DEF RevertPhase, Same
  <2>5. Save(m) => Ledger!Become(c, "undoing", "undone")
    BY <2>1, <2>2, <2>3, LedgerBecomes DEF Same
  <2>6. Ledger!InEffect(meta[c].baseline, LastCommit(meta[c]), origin) = {}
    BY <2>4 DEF Ledger!InEffect, InEffect
  <2>7. Save(m) => Ledger!LNext
    BY <2>5, <2>6 DEF Ledger!LNext, Ledger!ConfirmUndo
  <2>8. UNCHANGED meta => UNCHANGED Ledger!lvars
    BY <2>2, LedgerIdle
  <2> QED BY <2>2, <2>7, <2>8
<1>7. CASE SaveStillApproved(p)
  <2> DEFINE m == Mark(o.cp, "approved", o.cp.promoted)
  <2>1. m \in Checkpoint /\ m.id = c /\ m.state = "approved" /\ m.baseline = o.cp.baseline /\ m.commits = o.cp.commits
    BY <1>0
  <2>2. o.pc = "urelease" /\ origin' = origin /\ (Save(m) \/ UNCHANGED meta)
    BY <1>7 DEF SaveStillApproved, At, SaveFails
  <2> HIDE DEF m
  <2>3. meta[c].state \in {"approved", "undoing"} /\ Same(o)
    BY <1>2, <2>2 DEF Phase, UndoInv, UndoPcs, DiscardPcs
  <2>4. CASE Save(m) /\ meta[c].state = "undoing"
    <3>1. Ledger!Become(c, "undoing", "approved")
      BY <2>1, <2>2, <2>3, <2>4, LedgerBecomes DEF Same
    <3> QED BY <3>1 DEF Ledger!LNext, Ledger!ReleaseUndo
  <2>5. CASE Save(m) /\ meta[c].state = "approved"
    BY <2>1, <2>2, <2>3, <2>5, LedgerStays DEF Same
  <2> QED BY <2>2, <2>3, <2>4, <2>5, LedgerIdle
<1>8. CASE UNCHANGED <<meta, origin>>
  BY <1>8, LedgerIdle
<1> QED BY <1>3, <1>4, <1>5, <1>6, <1>7, <1>8
        DEF UndoStep, StartDiscard, StartRevert, LeaveBranch, DropBranch, SwitchToRevert, RevertCommit, AbortRevert

(* Others push; users, a crash and a command that raises change neither metadata nor the remote. *)
LEMMA EnvironmentRefines ==
  ASSUME TypeInv, OthersPush \/ UserStep \/ \E p \in Procs : CommandRaises(p) \/ Crash(p)
  PROVE  [Ledger!LNext]_(Ledger!lvars)
<1>1. CASE OthersPush
  <2> DEFINE x == Other(others)
  <2>1. origin \in History /\ x \in Commit /\ x.kind = "other"
    BY TypeInvParts, ChangeFields DEF DataTypes, TypeInv, TypeOK
  <2>2. origin' = Append(origin, x) /\ UNCHANGED meta
    BY <1>1 DEF OthersPush
  <2> HIDE DEF x
  <2>3. /\ Len(Append(origin, x)) = Len(origin) + 1 /\ IsPrefix(origin, Append(origin, x))
        /\ Append(origin, x)[Len(origin) + 1] = x
    BY <2>1, Appended, PrefixGrows
  <2>4. Ledger!OthersWork
    <3> DEFINE g == Append(origin, x)
    <3>1. origin' = g /\ Len(g) = Len(origin) + 1 /\ IsPrefix(origin, g) /\ g[Len(g)] = x
      BY <2>2, <2>3
    <3> HIDE DEF g
    <3>2. Ledger!IsPrefix(origin, origin')
      BY <3>1 DEF Ledger!IsPrefix, IsPrefix
    <3>3. /\ Len(origin') = Len(origin) + 1 /\ origin'[Len(origin')].kind = "other"
      BY <2>1, <3>1
    <3> QED BY <2>2, <3>2, <3>3 DEF Ledger!OthersWork, LastCommit
  <2> QED BY <2>4 DEF Ledger!LNext
<1>2. CASE UNCHANGED <<meta, origin>>
  BY <1>2, LedgerIdle
<1> QED BY <1>1, <1>2 DEF UserStep, UserCommits, UserPulls, UserSwitches, CommandRaises, Crash

LEMMA LedgerStarts == ASSUME Init PROVE Ledger!LInit
<1>0. Root \in Commit
  BY ChangeFields, BoundsAssumption DEF Root
<1>1. <<Root>> \in History
  BY <1>0 DEF History
<1>2. origin = <<Root>> /\ \A c \in Ids : meta[c] = Absent(c)
  BY DEF Init
<1>3. \A c \in Ids : /\ Absent(c).state = "absent" /\ Absent(c).baseline = NoCommit
                     /\ LastCommit(Absent(c)) = NoCommit
  BY DEF Absent, LastCommit
<1> QED BY <1>1, <1>2, <1>3 DEF Ledger!LInit, Ledger!History, Ledger!Commit, History, Commit, Ledger!NoCommit, NoCommit

(* Every operation, with its failures, crashes and whatever other people do to
   clone and remote, does to the metadata and to the remote's main only what
   the ledger allows (agent.py:485, README.md:12): a promotion is claimed, then
   published and confirmed or released, an undo is claimed, then retracted and
   confirmed or released, and nothing else moves the remote's main.  It is so
   when the answer of a push is not lost, since what was pushed is then taken to
   be pending or approved still, and when the coding CLI makes no commits of its
   own, which the metadata need not name; crashes, failed writes and commands
   that fail or raise are included. *)
THEOREM AgentImplementsLedger ==
  ASSUME OneAgent, NoPushTimeouts, LoopCommits
  PROVE  Spec => ImplementsLedger
<1>1. Init => Ledger!LInit
  BY LedgerStarts
<1>2. (Inv /\ CloneInv /\ LedgerInv) /\ [Next]_vars => [Ledger!LNext]_(Ledger!lvars)
  <2> SUFFICES ASSUME Inv, CloneInv, LedgerInv, [Next]_vars
               PROVE  [Ledger!LNext]_(Ledger!lvars)
    OBVIOUS
  <2>1. CASE Next
    BY <2>1, RunRefines, ApproveRefines, UndoRefines, EnvironmentRefines DEF Next, AgentStep, Inv
  <2>2. CASE UNCHANGED vars
    BY <2>2, LedgerIdle DEF vars
  <2> QED BY <2>1, <2>2
<1> QED BY <1>1, <1>2, LedgerIsKept, PTL DEF Spec, ImplementsLedger, Ledger!LSpec
=============================================================================
