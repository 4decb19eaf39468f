---------------------------- MODULE CheckpointProofs ----------------------------
(***************************************************************************)
(* What the branches of a clone hold while one agent works in it: the      *)
(* invariant behind the safety properties of run, approve_checkpoint and   *)
(* undo_checkpoint, for any ids, any bounds, any faults and any behaviour  *)
(* of the coding CLI, but where a theorem says otherwise.                  *)
(***************************************************************************)
EXTENDS SelfCodingProofs

-----------------------------------------------------------------------------
(* Histories that grow *)

(* h is `from` and then work of checkpoint c alone. *)
Work(c, from, h) ==
  IsPrefix(from, h) /\ \A i \in Len(from) + 1 .. Len(h) : h[i] = Change({c})

(* h is `from` and then reverts. *)
Undoes(from, h) ==
  IsPrefix(from, h) /\ \A i \in Len(from) + 1 .. Len(h) : h[i].kind = "revert" /\ h[i].edits = {}

(* h is `from`, or somebody else's commit is the next one. *)
Grown(from, h) ==
  IsPrefix(from, h) /\ (Len(h) > Len(from) => h[Len(from) + 1].kind = "other")

(* The last commit of h is work of checkpoint c. *)
EndsIn(c, h) == h # NoCommit /\ h[Len(h)] = Change({c})

(* A prefix, commit by commit. *)
LEMMA PrefixPointwise ==
  ASSUME NEW a \in History, NEW b \in History
  PROVE  IsPrefix(a, b) <=> Len(a) <= Len(b) /\ \A i \in 1..Len(a) : a[i] = b[i]
<1>1. ASSUME IsPrefix(a, b) PROVE \A i \in 1..Len(a) : a[i] = b[i]
  <2> TAKE i \in 1..Len(a)
  <2>1. SubSeq(a, 1, Len(a))[i] = a[i] /\ SubSeq(b, 1, Len(a))[i] = b[i]
    BY <1>1 DEF History, IsPrefix
  <2> QED BY <1>1, <2>1 DEF IsPrefix
<1>2. ASSUME Len(a) <= Len(b), \A i \in 1..Len(a) : a[i] = b[i]
      PROVE  IsPrefix(a, b)
  <2>1. SubSeq(a, 1, Len(a)) = SubSeq(b, 1, Len(a))
    BY <1>2 DEF History
  <2> QED BY <1>2, <2>1 DEF IsPrefix
<1> QED BY <1>1, <1>2 DEF IsPrefix

(* Two histories of one length, one a prefix of the other, are the same. *)
LEMMA PrefixSame ==
  ASSUME NEW a \in History, NEW b \in History, IsPrefix(a, b), Len(b) <= Len(a)
  PROVE  a = b
<1>1. Len(a) = Len(b) /\ \A i \in 1..Len(a) : a[i] = b[i]
  BY PrefixPointwise DEF History
<1> QED BY <1>1 DEF History

(* A work commit is a commit. *)
LEMMA ChangeFields ==
  /\ \A c \in Ids : /\ Change({c}) \in Commit
                    /\ Change({c}).kind = "change" /\ Change({c}).edits = {c}
  /\ \A h \in History : /\ RevertOf(h) \in Commit /\ RevertOf(h).kind = "revert"
                        /\ RevertOf(h).edits = {} /\ RevertOf(h).at = Len(h)
  /\ \A n \in Nat : Other(n) \in Commit /\ Other(n).kind = "other" /\ Other(n).edits = {}
BY DEF Change, RevertOf, Other, Commit, History

(* What a history is once a commit is appended. *)
LEMMA Appended ==
  ASSUME NEW h \in History, NEW x \in Commit
  PROVE  /\ Append(h, x) \in History /\ Append(h, x) # NoCommit
         /\ Len(Append(h, x)) = Len(h) + 1 /\ Append(h, x)[Len(h) + 1] = x
         /\ \A i \in 1..Len(h) : Append(h, x)[i] = h[i]
BY DEF History, NoCommit

LEMMA HistoryFacts ==
  ASSUME NEW h \in History
  PROVE  /\ Len(h) \in Nat /\ IsPrefix(h, h) /\ IsPrefix(NoCommit, h)
         /\ (h = NoCommit) <=> (Len(h) = 0)
         /\ \A i \in 1..Len(h) : h[i] \in Commit
<1>1. NoCommit \in History /\ Len(NoCommit) = 0
  BY DEF NoCommit, History
<1>2. IsPrefix(h, h) /\ IsPrefix(NoCommit, h)
  <2>1. IsPrefix(h, h)
    BY PrefixPointwise DEF History
  <2>2. Len(h) \in Nat
    BY DEF History
  <2>3. Len(NoCommit) <= Len(h) /\ \A i \in 1..Len(NoCommit) : NoCommit[i] = h[i]
    BY <1>1, <2>2
  <2>4. IsPrefix(NoCommit, h)
    BY <1>1, <2>3, PrefixPointwise
  <2> QED BY <2>1, <2>4
<1>3. (h = NoCommit) <=> (Len(h) = 0)
  BY DEF History, NoCommit
<1>4. Len(h) \in Nat /\ \A i \in 1..Len(h) : h[i] \in Commit
  BY DEF History
<1> QED BY <1>2, <1>3, <1>4

(* Work grows by work, an undo by reverts, and what others push stays. *)
LEMMA WorkGrows ==
  ASSUME NEW c \in Ids, NEW from \in History, NEW h \in History
  PROVE  /\ Work(c, h, h)
         /\ Work(c, from, h) => Work(c, from, Append(h, Change({c})))
         /\ EndsIn(c, Append(h, Change({c})))
<1> DEFINE g == Append(h, Change({c}))
<1>1. /\ g \in History /\ Len(g) = Len(h) + 1 /\ g[Len(h) + 1] = Change({c}) /\ g # NoCommit
      /\ \A i \in 1..Len(h) : g[i] = h[i]
  BY ChangeFields, Appended
<1>2. Len(h) \in Nat /\ Len(from) \in Nat /\ IsPrefix(h, h)
  BY HistoryFacts
<1>3. Work(c, h, h)
  BY <1>2 DEF Work
<1> HIDE DEF g
<1>4. Work(c, from, h) => Work(c, from, g)
  <2> SUFFICES ASSUME Work(c, from, h) PROVE Work(c, from, g)
    OBVIOUS
  <2>1. IsPrefix(from, g)
    BY <1>1, <1>2, PrefixPointwise DEF Work
  <2>2. ASSUME NEW i \in Len(from) + 1 .. Len(g) PROVE g[i] = Change({c})
    <3>1. CASE i = Len(h) + 1
      BY <1>1, <3>1
    <3>2. CASE i # Len(h) + 1
      <4>1. i \in Len(from) + 1 .. Len(h) /\ i \in 1..Len(h)
        BY <1>1, <1>2, <3>2
      <4> QED BY <1>1, <4>1 DEF Work
    <3> QED BY <3>1, <3>2
  <2> QED BY <2>1, <2>2 DEF Work
<1>5. EndsIn(c, g)
  BY <1>1 DEF EndsIn
<1> QED BY <1>3, <1>4, <1>5 DEF g

LEMMA UndoesGrows ==
  ASSUME NEW from \in History, NEW h \in History, NEW k \in History
  PROVE  /\ Undoes(h, h)
         /\ Undoes(from, h) => Undoes(from, Append(h, RevertOf(k)))
<1> DEFINE g == Append(h, RevertOf(k))
<1>1. /\ g \in History /\ Len(g) = Len(h) + 1 /\ g[Len(h) + 1] = RevertOf(k)
      /\ \A i \in 1..Len(h) : g[i] = h[i]
  BY ChangeFields, Appended
<1>2. Len(h) \in Nat /\ Len(from) \in Nat /\ IsPrefix(h, h)
  BY HistoryFacts
<1>3. Undoes(h, h)
  BY <1>2 DEF Undoes
<1> HIDE DEF g
<1>4. Undoes(from, h) => Undoes(from, g)
  <2> SUFFICES ASSUME Undoes(from, h) PROVE Undoes(from, g)
    OBVIOUS
  <2>1. IsPrefix(from, g)
    BY <1>1, <1>2, PrefixPointwise DEF Undoes
  <2>2. \A i \in Len(from) + 1 .. Len(g) : g[i].kind = "revert" /\ g[i].edits = {}
    BY <1>1, <1>2, ChangeFields DEF Undoes
  <2> QED BY <2>1, <2>2 DEF Undoes
<1> QED BY <1>3, <1>4 DEF g

LEMMA GrownGrows ==
  ASSUME NEW from \in History, NEW h \in History, NEW n \in Nat
  PROVE  Grown(h, h) /\ (Grown(from, h) => Grown(from, Append(h, Other(n))))
<1> DEFINE g == Append(h, Other(n))
<1>1. /\ g \in History /\ Len(g) = Len(h) + 1 /\ g[Len(h) + 1] = Other(n)
      /\ \A i \in 1..Len(h) : g[i] = h[i]
  BY ChangeFields, Appended
<1>2. Len(h) \in Nat /\ Len(from) \in Nat /\ IsPrefix(h, h)
  BY HistoryFacts
<1>3. Grown(h, h)
  BY <1>2 DEF Grown
<1> HIDE DEF g
<1>4. Grown(from, h) => Grown(from, g)
  <2> SUFFICES ASSUME Grown(from, h) PROVE Grown(from, g)
    OBVIOUS
  <2>1. IsPrefix(from, g) /\ Len(from) <= Len(h)
    BY <1>1, <1>2, PrefixPointwise DEF Grown
  <2>2. Len(h) = Len(from) \/ Len(from) + 1 \in 1..Len(h)
    BY <1>2, <2>1
  <2>3. g[Len(from) + 1].kind = "other"
    BY <1>1, <1>2, <2>2, ChangeFields DEF Grown
  <2> QED BY <2>1, <2>3 DEF Grown
<1> QED BY <1>3, <1>4 DEF g

(* What agrees with the remote's main but for one's own commits can only be
   pushed while nobody else has pushed. *)
LEMMA PushedOnto ==
  ASSUME NEW from \in History, NEW mine \in History, NEW theirs \in History,
         Grown(from, theirs), IsPrefix(from, mine), IsPrefix(theirs, mine),
         \A i \in Len(from) + 1 .. Len(mine) : mine[i].kind # "other"
  PROVE  theirs = from
<1>1. Len(from) \in Nat /\ Len(mine) \in Nat /\ Len(theirs) \in Nat
  BY HistoryFacts
<1>2. Len(theirs) <= Len(mine) /\ \A i \in 1..Len(theirs) : theirs[i] = mine[i]
  BY PrefixPointwise
<1>3. ~(Len(theirs) > Len(from))
  BY <1>1, <1>2 DEF Grown
<1> QED BY <1>1, <1>3, PrefixSame DEF Grown

-----------------------------------------------------------------------------
(* The invariant *)

NoGitFaults == Faults \cap {"git", "raise"} = {}
KeepsToBranch == "switch_edit" \notin BackendActs

(* Between the creation of its branch and the rollback or the end of a run. *)
CliPcs == {"backend", "verify", "commit", "record", "publish", "reset"}

(* An id that has not been handed out names nothing yet. *)
Fresh(c) == ref[c] = NoCommit /\ meta[c] = Absent(c) /\ c \notin asked

(* The metadata of a checkpoint and its branch: above the baseline the branch
   holds work of this checkpoint alone, and so ends what was recorded last. *)
RecordInv(c) ==
  /\ meta[c].id = c
  /\ c \notin used => Fresh(c)
  /\ meta[c].state # "absent" =>
       EndsIn(c, LastCommit(meta[c])) /\ meta[c].baseline # NoCommit
  /\ meta[c].state # "absent" /\ ref[c] # NoCommit => Work(c, meta[c].baseline, ref[c])
  /\ meta[c].state = "approved" => meta[c].promoted = LastCommit(meta[c])

RepoInv ==
  /\ ref[Main] # NoCommit /\ ref[head] # NoCommit
  /\ \A c \in Ids : RecordInv(c)

(* The operation's copy and the metadata tell of the same commits. *)
Same(o) == meta[o.cp.id].baseline = o.cp.baseline /\ meta[o.cp.id].commits = o.cp.commits

(* While the CLI works: HEAD is on the new branch, or on main where the CLI
   went there; the tree and the branch above the baseline hold this
   checkpoint's edits alone; the base is where it was. *)
OnBranch(cp) ==
  /\ head \in {cp.id, Main} /\ (KeepsToBranch => head = cp.id) /\ tree \subseteq {cp.id}
  /\ ref[cp.id] # NoCommit /\ Work(cp.id, cp.baseline, ref[cp.id])
  /\ ref[cp.base] = cp.baseline \/ (cp.base = Main /\ head = Main)

(* run *)
RunInv(o, c) ==
  /\ o.pc \in RunPcs =>
       /\ c \notin asked /\ o.cp.base # c /\ o.cp.baseline # NoCommit
       /\ meta[c].state = "absent" \/ (meta[c].state = "pending" /\ Same(o))
  /\ o.pc = "branch" =>
       /\ head = o.cp.base /\ ref[head] = o.cp.baseline /\ tree = {}
       /\ ref[c] = NoCommit /\ meta[c].state = "absent"
  /\ o.pc \in CliPcs => OnBranch(o.cp)
  /\ o.pc = "record" => EndsIn(c, ref[head])
  /\ NoGitFaults /\ o.pc \in {"restore", "delete", "unlink"} =>
       tree = {} /\ ref[o.cp.base] = o.cp.baseline
  /\ NoGitFaults /\ o.pc \in {"delete", "unlink"} => head = o.cp.base
  /\ NoGitFaults /\ o.pc = "unlink" => ref[c] = NoCommit

(* approve_checkpoint: until the push, local main is the baseline or what is
   promoted, and the remote's main the baseline or grown by others. *)
ApproveInv(o, c) ==
  /\ o.pc \in ApprovePcs \ {"back"} =>
       /\ c \in asked /\ Same(o)
       /\ meta[c].state = IF o.pc = "claim" THEN "pending" ELSE "promoting"
  /\ o.pc \in {"claim", "switch", "merge"} =>
       ref[c] = LastCommit(o.cp) /\ ref[Main] = o.cp.baseline
  /\ o.pc \in {"merge", "note", "push", "abort"} => head = Main
  /\ o.pc \in {"note", "push"} => ref[Main] = LastCommit(o.cp)
  /\ o.pc \in {"note", "push", "abort"} => Work(c, o.cp.baseline, ref[Main])
  /\ o.pc \in {"note", "push", "finish"} => o.cp.promoted = LastCommit(o.cp)
  /\ o.pc \in {"claim", "switch", "merge", "note", "push"} => Grown(o.cp.baseline, origin)

DiscardPcs == {"leave", "drop", "dropped"}

(* undo_checkpoint: until the push, local main is the promoted commit with
   reverts on top of it. *)
UndoInv(o, c) ==
  /\ o.pc \in DiscardPcs => meta[c] = o.cp /\ meta[c].state = "pending"
  /\ o.pc \in UndoPcs \ DiscardPcs => Same(o) /\ o.cp.promoted = LastCommit(o.cp)
  /\ o.pc \in {"uswitch", "revert", "umark"} => meta[c].state = "approved"
  /\ o.pc \in {"upush", "ufinish"} => meta[c].state = "undoing"
  /\ o.pc \in {"uabort", "urelease"} => meta[c].state \in {"approved", "undoing"}
  /\ o.pc \in {"revert", "umark", "upush", "uabort"} => head = Main
  /\ o.pc \in {"uswitch", "revert", "umark", "upush", "uabort"} =>
       Undoes(o.cp.promoted, ref[Main])
  /\ o.pc \in {"uswitch", "revert", "umark", "upush"} => Grown(o.cp.promoted, origin)

Phase(o) ==
  /\ o.pc # "idle" => o.cp.id \in used
  /\ RunInv(o, o.cp.id) /\ ApproveInv(o, o.cp.id) /\ UndoInv(o, o.cp.id)

CloneInv ==
  OnlyApprovedWorkIsPublished /\ RepoInv /\ \A p \in Procs : Phase(op[p])

LEMMA OnePhase ==
  ASSUME OneAgent, NEW p \in Procs
  PROVE  /\ CloneInv <=> OnlyApprovedWorkIsPublished /\ RepoInv /\ Phase(op[p])
         /\ CloneInv' <=> OnlyApprovedWorkIsPublished' /\ RepoInv' /\ Phase(op[p])'
BY DEF OneAgent, CloneInv

-----------------------------------------------------------------------------
(* Steps on the metadata and the branches *)

(* A process that is idle is in no phase. *)
LEMMA IdlePhase ==
  ASSUME TypeInv, NEW p \in Procs, Done(p)
  PROVE  Phase(op[p])'
BY DoneEffect DEF Phase, RunInv, ApproveInv, UndoInv, RunPcs, ApprovePcs, UndoPcs, CliPcs, DiscardPcs

(* Writing metadata. *)
LEMMA MetaStep ==
  ASSUME TypeInv, RepoInv, NEW cp \in Checkpoint, Save(cp), UNCHANGED <<head, ref, used, asked>>,
         cp.id \in used,
         cp.state # "absent" =>
           /\ EndsIn(cp.id, LastCommit(cp)) /\ cp.baseline # NoCommit
           /\ ref[cp.id] # NoCommit => Work(cp.id, cp.baseline, ref[cp.id]),
         cp.state = "approved" => cp.promoted = LastCommit(cp)
  PROVE  RepoInv' /\ meta'[cp.id] = cp
<1>1. meta \in [Ids -> Checkpoint] /\ cp.id \in Ids
  BY DEF TypeInv, TypeOK, Checkpoint
<1>2. meta'[cp.id] = cp /\ \A c \in Ids \ {cp.id} : meta'[c] = meta[c]
  BY <1>1 DEF Save
<1>3. ASSUME NEW c \in Ids PROVE RecordInv(c)'
  <2>1. CASE c = cp.id
    BY <1>2, <2>1 DEF RepoInv, RecordInv, LastCommit
  <2>2. CASE c # cp.id
    BY <1>2, <2>2 DEF RepoInv, RecordInv, LastCommit, Fresh
  <2> QED BY <2>1, <2>2
<1> QED BY <1>2, <1>3 DEF RepoInv

LEMMA MarkFields ==
  ASSUME NEW cp \in Checkpoint, NEW s \in States, NEW sha \in History
  PROVE  /\ Mark(cp, s, sha) \in Checkpoint
         /\ Mark(cp, s, sha).state = s /\ Mark(cp, s, sha).promoted = sha
         /\ Mark(cp, s, sha).id = cp.id /\ Mark(cp, s, sha).base = cp.base
         /\ Mark(cp, s, sha).baseline = cp.baseline /\ Mark(cp, s, sha).commits = cp.commits
         /\ LastCommit(Mark(cp, s, sha)) = LastCommit(cp)
BY DEF Mark, Checkpoint, LastCommit

(* Writing another state of the same commits. *)
LEMMA MarkStep ==
  ASSUME TypeInv, RepoInv, NEW cp \in Checkpoint, Save(cp), UNCHANGED <<head, ref, used, asked>>,
         cp.id \in used, meta[cp.id].state # "absent",
         meta[cp.id].baseline = cp.baseline, meta[cp.id].commits = cp.commits,
         cp.state = "approved" => cp.promoted = LastCommit(cp)
  PROVE  RepoInv' /\ meta'[cp.id] = cp
<1>1. cp.id \in Ids /\ LastCommit(meta[cp.id]) = LastCommit(cp)
  BY DEF LastCommit, Checkpoint
<1>2. /\ EndsIn(cp.id, LastCommit(cp)) /\ cp.baseline # NoCommit
      /\ ref[cp.id] # NoCommit => Work(cp.id, cp.baseline, ref[cp.id])
  BY <1>1 DEF RepoInv, RecordInv
<1> QED BY <1>2, MetaStep

(* Moving HEAD, and branches that stay, go or grow by their own work. *)
LEMMA RefStep ==
  ASSUME TypeInv, RepoInv, UNCHANGED <<meta, used, asked>>,
         ref'[Main] # NoCommit, ref'[head'] # NoCommit,
         \A c \in Ids : \/ ref'[c] = ref[c] \/ ref'[c] = NoCommit
                        \/ /\ c \in used
                           /\ meta[c].state # "absent" => Work(c, meta[c].baseline, ref'[c])
  PROVE  RepoInv'
<1>1. ASSUME NEW c \in Ids PROVE RecordInv(c)'
  BY DEF RepoInv, RecordInv, LastCommit, Fresh
<1> QED BY <1>1 DEF RepoInv

LEMMA HeadStep ==
  ASSUME TypeInv, RepoInv, UNCHANGED <<ref, meta, used, asked>>, ref[head'] # NoCommit
  PROVE  RepoInv'
BY RefStep DEF RepoInv

(* A commit of this checkpoint's edits, on its branch or on main. *)
LEMMA CommitOnBranch ==
  ASSUME TypeInv, RepoInv, NEW cp \in Checkpoint, OnBranch(cp), cp.base # cp.id, cp.id \in used,
         meta[cp.id].state = "absent" \/ meta[cp.id].baseline = cp.baseline,
         Keep(Append(ref[head], Change({cp.id}))), tree' \subseteq {cp.id},
         UNCHANGED <<head, meta, used, asked>>
  PROVE  RepoInv' /\ OnBranch(cp)' /\ EndsIn(cp.id, ref'[head])
<1> DEFINE c == cp.id
           g == Append(ref[head], Change({c}))
<1>1. /\ c \in Ids /\ c \in Branches /\ Main \in Branches /\ Main # c /\ cp.base \in Branches
      /\ cp.baseline \in History /\ head \in Branches /\ ref \in [Branches -> History]
      /\ Ids \subseteq Branches
  BY IdsAssumption, ValueTypes DEF TypeInv, TypeOK, Checkpoint
<1>2. g \in History /\ g # NoCommit /\ EndsIn(c, g)
  BY <1>1, ChangeFields, Appended, WorkGrows
<1>3. head = c => Work(c, cp.baseline, g)
  BY <1>1, WorkGrows DEF OnBranch
<1>4. ref'[head] = g /\ \A b \in Branches \ {head} : ref'[b] = ref[b]
  BY <1>1 DEF Keep
<1> HIDE DEF g
<1>5. ref'[c] # NoCommit /\ Work(c, cp.baseline, ref'[c])
  BY <1>1, <1>2, <1>3, <1>4 DEF OnBranch
<1>6. ref'[Main] # NoCommit
  BY <1>1, <1>2, <1>4 DEF RepoInv
<1>7. OnBranch(cp)'
  BY <1>1, <1>2, <1>4, <1>5 DEF OnBranch
<1>8. \A d \in Ids : \/ ref'[d] = ref[d]
                       \/ /\ d \in used
                          /\ meta[d].state # "absent" => Work(d, meta[d].baseline, ref'[d])
  <2> TAKE d \in Ids
  <2>1. CASE d = c
    BY <1>5, <2>1
  <2>2. CASE d # c
    BY <1>1, <1>4, <2>2, IdsAssumption DEF OnBranch
  <2> QED BY <2>1, <2>2
<1>9. ref'[head'] # NoCommit
  BY <1>2, <1>4
<1>10. RepoInv'
  BY <1>6, <1>8, <1>9, RefStep
<1> QED BY <1>2, <1>4, <1>7, <1>10

(* Every step of run preserves the invariant. *)
LEMMA RunClone ==
  ASSUME OneAgent, Inv, CloneInv, NEW p \in Procs, RunStep(p)
  PROVE  CloneInv'
<1>1. TypeInv /\ TypeInv' /\ OnlyApprovedWorkIsPublished /\ RepoInv /\ Phase(op[p])
  BY RunTypes, OnePhase DEF Inv
<1> DEFINE o == op[p]
           c == op[p].cp.id
<1>2. /\ op \in [Procs -> Operation] /\ o \in Operation /\ o.cp \in Checkpoint /\ c \in Ids
      /\ o.cp.baseline \in History /\ o.cp.base \in Branches /\ o.cp.commits \in Seq(History)
      /\ meta \in [Ids -> Checkpoint] /\ head \in Branches /\ ref \in [Branches -> History]
      /\ ref' \in [Branches -> History] /\ head' \in Branches
      /\ Main \in Branches /\ Ids \subseteq Branches /\ Main \notin Ids /\ tree \subseteq Ids
  BY <1>1, TypeInvParts, CurrentOperation, OperationFields, ValueTypes, IdsAssumption
     DEF DataTypes, TypeInv, TypeOK
<1> USE <1>1, <1>2
<1>3. ASSUME NEW d \in Ids, NEW n \in 1..MaxPasses, StartRun(p, d, n) PROVE CloneInv'
  <2>1. d \notin used /\ Fresh(d) /\ ref[head] # NoCommit /\ head # d
    BY <1>3 DEF StartRun, RepoInv, RecordInv, Fresh
  <2>2. /\ op'[p].pc = "branch" /\ op'[p].cp.id = d /\ op'[p].cp.base = head
        /\ op'[p].cp.baseline = ref[head]
    BY <1>3 DEF StartRun, Absent
  <2>3. RepoInv'
    BY <1>3, <2>1 DEF StartRun, repo, RepoInv, RecordInv, LastCommit, Fresh
  <2>4. Phase(op[p])'
    BY <1>3, <2>1, <2>2
       DEF StartRun, repo, Clean, Fresh, Absent, Phase, RunInv, ApproveInv, UndoInv, RunPcs, ApprovePcs,
           UndoPcs, CliPcs, DiscardPcs
  <2>5. OnlyApprovedWorkIsPublished'
    BY <1>3 DEF StartRun, OnlyApprovedWorkIsPublished
  <2> QED BY <2>3, <2>4, <2>5, OnePhase
<1>4. CASE CreateBranch(p)
  <2>1. /\ head = o.cp.base /\ ref[head] = o.cp.baseline /\ tree = {} /\ ref[c] = NoCommit
        /\ meta[c].state = "absent" /\ c \in used /\ c \notin asked /\ o.cp.base # c
        /\ o.cp.baseline # NoCommit
    BY <1>4 DEF CreateBranch, At, Phase, RunInv, RunPcs
  <2>2. OnlyApprovedWorkIsPublished'
    BY <1>4 DEF CreateBranch, OnlyApprovedWorkIsPublished
  <2>3. CASE ref' = [ref EXCEPT ![c] = ref[head]] /\ head' = c /\ Goto(p, "backend")
    <3>1. op'[p].pc = "backend" /\ op'[p].cp = o.cp
      BY <2>3, GotoEffect
    <3>2. /\ ref'[c] = o.cp.baseline /\ \A b \in Branches \ {c} : ref'[b] = ref[b]
          /\ UNCHANGED <<meta, used, asked, tree>>
      BY <1>4, <2>1, <2>3 DEF CreateBranch
    <3>3. RepoInv'
      BY <2>1, <2>3, <3>2, RefStep DEF RepoInv
    <3>4. Work(c, o.cp.baseline, ref'[c])
      BY <3>2, WorkGrows
    <3>5. Phase(op[p])'
      BY <2>1, <2>3, <3>1, <3>2, <3>4
         DEF Phase, RunInv, ApproveInv, UndoInv, RunPcs, ApprovePcs, UndoPcs, CliPcs, DiscardPcs,
             OnBranch
    <3> QED BY <2>2, <3>3, <3>5, OnePhase
  <2>4. CASE Done(p) /\ UNCHANGED <<head, ref>>
    BY <1>4, <2>2, <2>4, IdlePhase, OnePhase, RefStep DEF CreateBranch, RepoInv
  <2> QED BY <1>4, <2>3, <2>4 DEF CreateBranch
<1>5. CASE Backend(p)
  <2>1. PICK act \in BackendActs : CliActs(c, act)
    BY <1>5 DEF Backend
  <2>2. /\ c \in used /\ c \notin asked /\ o.cp.base # c /\ o.cp.baseline # NoCommit /\ OnBranch(o.cp)
        /\ meta[c].state = "absent" \/ (meta[c].state = "pending" /\ Same(o))
    BY <1>5 DEF Backend, At, Phase, RunInv, RunPcs, CliPcs
  <2>3. act \in AllActs
    BY ActsAssumption
  <2>4. tree \cup {c} = {c} /\ UNCHANGED <<origin, meta, used, asked>>
    BY <1>5, <2>2 DEF OnBranch, Backend
  <2>5. op'[p].pc \in {"verify", "reset"} /\ op'[p].cp = o.cp
    BY <1>5, GotoEffect DEF Backend
  <2>6. RepoInv' /\ OnBranch(op[p].cp)'
    <3>1. CASE act = "nothing"
      BY <2>1, <2>2, <2>4, <2>5, <3>1, HeadStep DEF CliActs, repo, OnBranch, RepoInv
    <3>2. CASE act = "edit"
      BY <2>1, <2>2, <2>4, <2>5, <3>2, HeadStep DEF CliActs, OnBranch, RepoInv
    <3>3. CASE act = "switch_edit"
      BY <2>1, <2>2, <2>4, <2>5, <3>3, HeadStep DEF CliActs, OnBranch, RepoInv, KeepsToBranch
    <3>4. CASE act \in {"commit", "commit_edit"}
      <4>1. Keep(Append(ref[head], Change({c}))) /\ tree' \subseteq {c} /\ head' = head
        BY <2>1, <2>4, <3>4 DEF CliActs
      <4> QED BY <2>2, <2>4, <2>5, <4>1, CommitOnBranch DEF Same
    <3> QED BY <2>3, <3>1, <3>2, <3>3, <3>4 DEF AllActs
  <2>7. Phase(op[p])'
    BY <2>2, <2>4, <2>5, <2>6
       DEF Phase, RunInv, ApproveInv, UndoInv, RunPcs, ApprovePcs, UndoPcs, CliPcs, DiscardPcs,
           OnBranch, Same
  <2> QED BY <2>4, <2>6, <2>7, OnePhase DEF OnlyApprovedWorkIsPublished
<1>6. CASE Verify(p)
  <2>1. /\ op'[p].pc \in {"commit", "reset"} /\ op'[p].cp = o.cp
        /\ UNCHANGED <<repo, origin, meta, used, asked>>
    BY <1>6, GotoEffect DEF Verify
  <2>2. RepoInv'
    BY <2>1, HeadStep DEF repo, RepoInv
  <2>3. Phase(op[p])'
    BY <1>6, <2>1
       DEF Verify, At, repo, Phase, RunInv, ApproveInv, UndoInv, RunPcs, ApprovePcs, UndoPcs, CliPcs, DiscardPcs,
           OnBranch, Same
  <2> QED BY <2>1, <2>2, <2>3, OnePhase DEF OnlyApprovedWorkIsPublished
<1>7. CASE CommitPass(p)
  <2>1. /\ c \in used /\ c \notin asked /\ o.cp.base # c /\ o.cp.baseline # NoCommit /\ OnBranch(o.cp)
        /\ meta[c].state = "absent" \/ (meta[c].state = "pending" /\ Same(o))
        /\ tree \subseteq {c}
    BY <1>7 DEF CommitPass, At, Phase, RunInv, RunPcs, CliPcs, OnBranch
  <2>2. UNCHANGED <<head, origin, meta, used, asked>>
    BY <1>7 DEF CommitPass
  <2>3. CASE ~Clean /\ Keep(Append(ref[head], Change(tree))) /\ tree' = {} /\ Goto(p, "record")
    <3>1. op'[p].pc = "record" /\ op'[p].cp = o.cp
      BY <2>3, GotoEffect
    <3>2. tree = {c}
      BY <2>1, <2>3 DEF Clean
    <3>3. RepoInv' /\ OnBranch(op[p].cp)' /\ EndsIn(c, ref'[head])
      BY <2>1, <2>2, <2>3, <3>1, <3>2, CommitOnBranch DEF Same
    <3>4. Phase(op[p])'
      BY <2>1, <2>2, <3>1, <3>3
         DEF Phase, RunInv, ApproveInv, UndoInv, RunPcs, ApprovePcs, UndoPcs, CliPcs, DiscardPcs, Same
    <3> QED BY <2>2, <3>3, <3>4, OnePhase DEF OnlyApprovedWorkIsPublished
  <2>4. CASE Goto(p, "reset") /\ UNCHANGED <<ref, tree>>
    <3>1. op'[p].pc = "reset" /\ op'[p].cp = o.cp
      BY <2>4, GotoEffect
    <3>2. RepoInv'
      BY <2>2, <2>4, HeadStep DEF RepoInv
    <3>3. Phase(op[p])'
      BY <2>1, <2>2, <2>4, <3>1
         DEF Phase, RunInv, ApproveInv, UndoInv, RunPcs, ApprovePcs, UndoPcs, CliPcs, DiscardPcs,
           OnBranch, Same
    <3> QED BY <2>2, <3>2, <3>3, OnePhase DEF OnlyApprovedWorkIsPublished
  <2> QED BY <1>7, <2>3, <2>4 DEF CommitPass
<1>8. CASE RecordPass(p)
  <2> DEFINE cp   == [op[p].cp EXCEPT !.commits = Append(@, ref[head])]
             left == op[p].left - 1
  <2>1. /\ c \in used /\ c \notin asked /\ o.cp.base # c /\ o.cp.baseline # NoCommit /\ OnBranch(o.cp)
        /\ meta[c].state = "absent" \/ (meta[c].state = "pending" /\ Same(o))
        /\ EndsIn(c, ref[head])
    BY <1>8 DEF RecordPass, At, Phase, RunInv, RunPcs, CliPcs
  <2>2. UNCHANGED <<repo, origin, used, asked>>
    BY <1>8 DEF RecordPass
  <2>3. o.cp.state = "pending"
    BY <1>8, PromotionIsKnown DEF RecordPass, At, Inv, Knows, RunPcs
  <2>4. /\ cp \in Checkpoint /\ cp.id = c /\ cp.state = "pending" /\ cp.base = o.cp.base
        /\ cp.baseline = o.cp.baseline /\ LastCommit(cp) = ref[head]
    <3>1. ASSUME NEW x \in Checkpoint, NEW h \in History
          PROVE  LET y == [x EXCEPT !.commits = Append(x.commits, h)]
                 IN  /\ y \in Checkpoint /\ y.id = x.id /\ y.state = x.state /\ y.base = x.base
                     /\ y.baseline = x.baseline /\ LastCommit(y) = h
      <4> DEFINE s == Append(x.commits, h)
                 y == [x EXCEPT !.commits = s]
      <4>1. s \in Seq(History) /\ s # <<>> /\ s[Len(s)] = h
        BY DEF Checkpoint
      <4> HIDE DEF s
      <4>2. /\ y \in Checkpoint /\ y.id = x.id /\ y.state = x.state /\ y.base = x.base
            /\ y.baseline = x.baseline /\ y.commits = s
        BY <4>1 DEF Checkpoint
      <4> HIDE DEF y
      <4>3. LastCommit(y) = h
        BY <4>1, <4>2 DEF LastCommit
      <4> QED BY <4>2, <4>3 DEF s, y
    <3>2. cp = [op[p].cp EXCEPT !.commits = Append(op[p].cp.commits, ref[head])]
      OBVIOUS
    <3> HIDE DEF cp
    <3> QED BY <2>3, <3>1, <3>2
  <2> HIDE DEF cp, left
  <2>5. CASE /\ Save(cp)
             /\ op' = [op EXCEPT ![p].cp = cp, ![p].left = left,
                                ![p].pc = IF left > 0 THEN "backend" ELSE "publish"]
    <3>1. op'[p].pc \in {"backend", "publish"} /\ op'[p].cp = cp
      BY <2>5 DEF Operation
    <3>2. RepoInv' /\ meta'[c] = cp
      BY <2>1, <2>2, <2>4, <2>5, MetaStep DEF repo, OnBranch
    <3>3. OnBranch(op[p].cp)'
      BY <2>1, <2>2, <2>4, <3>1 DEF OnBranch, repo
    <3>4. Phase(op[p])'
      BY <2>1, <2>2, <2>4, <3>1, <3>2, <3>3
         DEF Phase, RunInv, ApproveInv, UndoInv, RunPcs, ApprovePcs, UndoPcs, CliPcs, DiscardPcs, Same
    <3> QED BY <2>2, <3>2, <3>4, OnePhase DEF OnlyApprovedWorkIsPublished
  <2>6. CASE UNCHANGED meta /\ Goto(p, "reset")
    <3>1. op'[p].pc = "reset" /\ op'[p].cp = o.cp /\ UNCHANGED meta
      BY <2>6, GotoEffect
    <3>2. RepoInv'
      BY <2>2, <3>1, HeadStep DEF RepoInv, repo
    <3>3. Phase(op[p])'
      BY <2>1, <2>2, <3>1
         DEF repo, Phase, RunInv, ApproveInv, UndoInv, RunPcs, ApprovePcs, UndoPcs, CliPcs, DiscardPcs,
           OnBranch, Same
    <3> QED BY <2>2, <3>2, <3>3, OnePhase DEF OnlyApprovedWorkIsPublished
  <2> QED BY <1>8, <2>5, <2>6 DEF RecordPass, SaveFails, cp, left
<1>9. CASE PublishBranch(p)
  <2>1. UNCHANGED <<repo, origin, meta, used, asked>> /\ RepoInv'
    BY <1>9, HeadStep DEF PublishBranch, RepoInv, repo
  <2>2. CASE Done(p)
    BY <2>1, <2>2, IdlePhase, OnePhase DEF OnlyApprovedWorkIsPublished
  <2>3. CASE Goto(p, "reset")
    <3>1. op'[p].pc = "reset" /\ op'[p].cp = o.cp
      BY <2>3, GotoEffect
    <3>2. Phase(op[p])'
      BY <1>9, <2>1, <3>1
         DEF PublishBranch, At, repo, Phase, RunInv, ApproveInv, UndoInv, RunPcs, ApprovePcs, UndoPcs, CliPcs, DiscardPcs,
           OnBranch, Same
    <3> QED BY <2>1, <3>2, OnePhase DEF OnlyApprovedWorkIsPublished
  <2> QED BY <1>9, <2>2, <2>3 DEF PublishBranch
<1>10. CASE ResetRun(p)
  <2>1. /\ c \in used /\ c \notin asked /\ o.cp.base # c /\ o.cp.baseline # NoCommit /\ OnBranch(o.cp)
        /\ meta[c].state = "absent" \/ (meta[c].state = "pending" /\ Same(o))
    BY <1>10 DEF ResetRun, At, Phase, RunInv, RunPcs, CliPcs
  <2>2. UNCHANGED <<head, origin, meta, used, asked>>
    BY <1>10 DEF ResetRun
  <2>3. ASSUME Keep(o.cp.baseline) PROVE RepoInv' /\ ref'[o.cp.base] = o.cp.baseline
    <3>1. ref'[head] = o.cp.baseline /\ \A b \in Branches \ {head} : ref'[b] = ref[b]
      BY <2>3 DEF Keep
    <3>2. ref'[o.cp.base] = o.cp.baseline /\ ref'[Main] # NoCommit
      BY <2>1, <3>1 DEF OnBranch, RepoInv
    <3>3. Work(c, o.cp.baseline, o.cp.baseline)
      BY WorkGrows
    <3>4. ASSUME NEW d \in Ids
          PROVE  \/ ref'[d] = ref[d]
                 \/ /\ d \in used
                    /\ meta[d].state # "absent" => Work(d, meta[d].baseline, ref'[d])
      BY <2>1, <3>1, <3>3 DEF OnBranch, Same
    <3> QED BY <2>1, <2>2, <3>1, <3>2, <3>4, RefStep
  <2>4. CASE /\ Keep(o.cp.baseline)
             /\ (tree' = {} /\ Goto(p, "restore")) \/ (GitFails /\ Goto(p, "unlink"))
    <3>1. /\ op'[p].cp = o.cp
          /\ (op'[p].pc = "restore" /\ tree' = {}) \/ (op'[p].pc = "unlink" /\ ~NoGitFaults)
      BY <2>4, GotoEffect DEF GitFails, NoGitFaults
    <3>2. Phase(op[p])'
      BY <2>1, <2>2, <2>4, <2>3, <3>1
         DEF Phase, RunInv, ApproveInv, UndoInv, RunPcs, ApprovePcs, UndoPcs, CliPcs, DiscardPcs,
           OnBranch, Same
    <3> QED BY <2>2, <2>4, <2>3, <3>2, OnePhase DEF OnlyApprovedWorkIsPublished
  <2>5. CASE GitFails /\ Goto(p, "unlink") /\ UNCHANGED <<ref, tree>>
    <3>1. op'[p].pc = "unlink" /\ op'[p].cp = o.cp /\ ~NoGitFaults
      BY <2>5, GotoEffect DEF GitFails, NoGitFaults
    <3>2. RepoInv'
      BY <2>2, <2>5, HeadStep DEF RepoInv
    <3>3. Phase(op[p])'
      BY <2>1, <2>2, <2>5, <3>1
         DEF Phase, RunInv, ApproveInv, UndoInv, RunPcs, ApprovePcs, UndoPcs, CliPcs, DiscardPcs,
           OnBranch, Same
    <3> QED BY <2>2, <3>2, <3>3, OnePhase DEF OnlyApprovedWorkIsPublished
  <2> QED BY <1>10, <2>4, <2>5 DEF ResetRun
<1>11. CASE RestoreBase(p)
  <2>1. /\ c \in used /\ c \notin asked /\ o.cp.base # c /\ o.cp.baseline # NoCommit
        /\ meta[c].state = "absent" \/ (meta[c].state = "pending" /\ Same(o))
        /\ NoGitFaults => tree = {} /\ ref[o.cp.base] = o.cp.baseline
    BY <1>11 DEF RestoreBase, At, Phase, RunInv, RunPcs
  <2>2. /\ op'[p].pc = "delete" /\ op'[p].cp = o.cp
        /\ UNCHANGED <<ref, tree, origin, meta, used, asked>>
        /\ NoGitFaults => head' = o.cp.base
    BY <1>11, <2>1, GotoEffect DEF RestoreBase, CanSwitch, GitFails, NoGitFaults
  <2>3. RepoInv'
    BY <1>11, <2>2, HeadStep DEF RestoreBase, CanSwitch, RepoInv
  <2>4. Phase(op[p])'
    BY <2>1, <2>2
       DEF Phase, RunInv, ApproveInv, UndoInv, RunPcs, ApprovePcs, UndoPcs, CliPcs, DiscardPcs,
           OnBranch, Same
  <2> QED BY <2>2, <2>3, <2>4, OnePhase DEF OnlyApprovedWorkIsPublished
<1>12. CASE DeleteBranch(p)
  <2>1. /\ c \in used /\ c \notin asked /\ o.cp.base # c /\ o.cp.baseline # NoCommit
        /\ meta[c].state = "absent" \/ (meta[c].state = "pending" /\ Same(o))
        /\ NoGitFaults => tree = {} /\ ref[o.cp.base] = o.cp.baseline /\ head = o.cp.base
    BY <1>12 DEF DeleteBranch, At, Phase, RunInv, RunPcs
  <2>2. /\ op'[p].pc = "unlink" /\ op'[p].cp = o.cp
        /\ UNCHANGED <<head, tree, origin, meta, used, asked>>
    BY <1>12, GotoEffect DEF DeleteBranch
  <2>3. /\ \A b \in Branches \ {c} : ref'[b] = ref[b]
        /\ ref'[c] = ref[c] \/ (ref'[c] = NoCommit /\ head # c)
        /\ NoGitFaults => ref'[c] = NoCommit
    BY <1>12, <2>1 DEF DeleteBranch, CanDelete, GitFails, NoGitFaults
  <2>4. RepoInv'
    BY <2>2, <2>3, RefStep DEF RepoInv
  <2>5. Phase(op[p])'
    BY <2>1, <2>2, <2>3
       DEF Phase, RunInv, ApproveInv, UndoInv, RunPcs, ApprovePcs, UndoPcs, CliPcs, DiscardPcs,
           OnBranch, Same
  <2> QED BY <2>2, <2>4, <2>5, OnePhase DEF OnlyApprovedWorkIsPublished
<1>13. CASE Unlink(p)
  <2>1. c \in used /\ UNCHANGED <<repo, origin, used, asked>> /\ Save(Absent(c)) /\ Done(p)
    BY <1>13 DEF Unlink, At, Phase
  <2>2. Absent(c) \in Checkpoint /\ Absent(c).id = c /\ Absent(c).state = "absent"
    BY ValueTypes DEF Absent
  <2>3. RepoInv'
    <3> DEFINE cp == Absent(c)
    <3> HIDE DEF cp
    <3>1. Save(cp) /\ cp \in Checkpoint /\ cp.id = c /\ cp.state = "absent"
      BY <2>1, <2>2 DEF cp
    <3> QED BY <2>1, <3>1, MetaStep DEF repo
  <2> QED BY <2>1, <2>3, IdlePhase, OnePhase DEF OnlyApprovedWorkIsPublished
<1> QED BY <1>3, <1>4, <1>5, <1>6, <1>7, <1>8, <1>9, <1>10, <1>11, <1>12, <1>13 DEF RunStep

(* Every step of approve_checkpoint preserves the invariant. *)
LEMMA ApproveClone ==
  ASSUME OneAgent, Inv, CloneInv, NEW p \in Procs, ApproveStep(p)
  PROVE  CloneInv'
<1>1. TypeInv /\ TypeInv' /\ OnlyApprovedWorkIsPublished /\ RepoInv /\ Phase(op[p]) /\ Knows(op[p])
  BY ApproveTypes, OnePhase, PromotionIsKnown DEF Inv
<1> DEFINE o == op[p]
           c == op[p].cp.id
<1>2. /\ op \in [Procs -> Operation] /\ o \in Operation /\ o.cp \in Checkpoint /\ c \in Ids
      /\ o.cp.baseline \in History /\ o.cp.promoted \in History /\ LastCommit(o.cp) \in History
      /\ meta \in [Ids -> Checkpoint] /\ head \in Branches /\ ref \in [Branches -> History]
      /\ origin \in History /\ ref' \in [Branches -> History] /\ head' \in Branches
      /\ Main \in Branches /\ Ids \subseteq Branches /\ Main \notin Ids /\ NoCommit \in History
      /\ "promoting" \in States /\ "approved" \in States /\ "pending" \in States
  BY <1>1, TypeInvParts, CurrentOperation, OperationFields, ValueTypes, IdsAssumption
     DEF DataTypes, TypeInv, TypeOK, States
<1>0. ASSUME NEW s \in States, NEW sha \in History
      PROVE  /\ Mark(o.cp, s, sha) \in Checkpoint
             /\ Mark(o.cp, s, sha).state = s /\ Mark(o.cp, s, sha).promoted = sha
             /\ Mark(o.cp, s, sha).id = c
             /\ Mark(o.cp, s, sha).baseline = o.cp.baseline
             /\ Mark(o.cp, s, sha).commits = o.cp.commits
             /\ LastCommit(Mark(o.cp, s, sha)) = LastCommit(o.cp)
  <2>0. o.cp \in Checkpoint
    BY <1>2
  <2>1. Mark(o.cp, s, sha) \in Checkpoint
    BY <2>0, MarkFields
  <2>2. Mark(o.cp, s, sha).state = s /\ Mark(o.cp, s, sha).promoted = sha
    BY <2>0, MarkFields
  <2>3. Mark(o.cp, s, sha).id = c
    BY <2>0, MarkFields
  <2>4. Mark(o.cp, s, sha).baseline = o.cp.baseline /\ Mark(o.cp, s, sha).commits = o.cp.commits
    BY <2>0, MarkFields
  <2>5. LastCommit(Mark(o.cp, s, sha)) = LastCommit(o.cp)
    BY <2>0, MarkFields
  <2> QED BY <2>1, <2>2, <2>3, <2>4, <2>5
<1> USE <1>1, <1>2
(* What is common to the steps that write or give up the promotion. *)
<1>3. ASSUME o.pc \in ApprovePcs \ {"back"}
      PROVE  /\ c \in used /\ c \in asked /\ Same(o)
             /\ meta[c].state \in {"pending", "promoting"}
             /\ o.pc # "claim" => meta[c].state = "promoting"
             /\ LastCommit(meta[c]) = LastCommit(o.cp)
             /\ LastCommit(o.cp) # NoCommit /\ o.cp.baseline # NoCommit
  BY <1>3 DEF Phase, ApproveInv, ApprovePcs, Same, RepoInv, RecordInv, EndsIn, LastCommit
<1>4. ASSUME NEW d \in Ids, StartApprove(p, d) PROVE CloneInv'
  <2> DEFINE cp == meta[d]
  <2>1. /\ cp.state = "pending" /\ ref[d] = LastCommit(cp) /\ origin = cp.baseline
        /\ ref[Main] = cp.baseline /\ asked' = asked \cup {d}
        /\ UNCHANGED <<head, ref, tree, origin, meta, used>>
    BY <1>4 DEF StartApprove, RefersToCheckpoint, MainsAt, repo, RepoInv, RecordInv
  <2>2. cp.id = d /\ d \in used
    BY <2>1 DEF RepoInv, RecordInv, Fresh, Absent
  <2>3. op'[p].pc = "claim" /\ op'[p].cp = cp
    BY <1>4 DEF StartApprove
  <2>4. RepoInv'
    BY <2>1, <2>2 DEF RepoInv, RecordInv, LastCommit, Fresh
  <2>5. Grown(cp.baseline, origin)
    BY <2>1, GrownGrows
  <2>6. Phase(op[p])'
    BY <2>1, <2>2, <2>3, <2>5
       DEF Phase, RunInv, ApproveInv, UndoInv, RunPcs, ApprovePcs, UndoPcs, CliPcs, DiscardPcs, Same,
           LastCommit
  <2>7. OnlyApprovedWorkIsPublished'
    BY <2>1 DEF OnlyApprovedWorkIsPublished
  <2> QED BY <2>4, <2>6, <2>7, OnePhase
<1>5. CASE SaveClaim(p)
  <2>1. UNCHANGED <<repo, origin, used, asked>> /\ o.pc = "claim"
    BY <1>5 DEF SaveClaim, At
  <2>2. CASE Save(Mark(o.cp, "promoting", NoCommit)) /\ Goto(p, "switch")
    <3> DEFINE m == Mark(o.cp, "promoting", NoCommit)
    <3>1. /\ m \in Checkpoint /\ m.state = "promoting" /\ m.id = c
          /\ m.baseline = o.cp.baseline /\ m.commits = o.cp.commits
      BY <1>0
    <3> HIDE DEF m
    <3>2. RepoInv' /\ meta'[c] = m
      BY <1>3, <2>1, <2>2, <3>1, MarkStep DEF m, repo, Same, ApprovePcs
    <3>3. op'[p].pc = "switch" /\ op'[p].cp = o.cp
      BY <2>2, GotoEffect
    <3>4. Phase(op[p])'
      BY <1>3, <2>1, <3>1, <3>2, <3>3
         DEF repo, Phase, RunInv, ApproveInv, UndoInv, RunPcs, ApprovePcs, UndoPcs, CliPcs, DiscardPcs, Same
    <3> QED BY <2>1, <3>2, <3>4, OnePhase DEF OnlyApprovedWorkIsPublished
  <2>3. CASE SaveFails /\ Done(p)
    BY <2>1, <2>3, HeadStep, IdlePhase, OnePhase DEF OnlyApprovedWorkIsPublished, SaveFails, repo, RepoInv
  <2> QED BY <1>5, <2>2, <2>3 DEF SaveClaim
<1>6. CASE SwitchToMain(p)
  <2>1. UNCHANGED <<ref, tree, origin, used, asked>> /\ o.pc = "switch"
    BY <1>6 DEF SwitchToMain, At
  <2>2. CASE head' = Main /\ Goto(p, "merge") /\ UNCHANGED meta
    <3>1. op'[p].pc = "merge" /\ op'[p].cp = o.cp
      BY <2>2, GotoEffect
    <3>2. RepoInv'
      BY <2>1, <2>2, HeadStep DEF RepoInv
    <3>3. Phase(op[p])'
      BY <2>1, <2>2, <3>1
         DEF Phase, RunInv, ApproveInv, UndoInv, RunPcs, ApprovePcs, UndoPcs, CliPcs, DiscardPcs, Same
    <3> QED BY <2>1, <3>2, <3>3, OnePhase DEF OnlyApprovedWorkIsPublished
  <2>3. CASE Done(p) /\ (Save(o.cp) \/ SaveFails) /\ UNCHANGED head
    <3>1. o.cp.state = "pending"
      BY <2>1 DEF Knows
    <3>2. RepoInv'
      BY <1>3, <2>1, <2>3, <3>1, MarkStep, HeadStep DEF ApprovePcs, Same, SaveFails, RepoInv
    <3> QED BY <2>1, <2>3, <3>2, IdlePhase, OnePhase DEF OnlyApprovedWorkIsPublished
  <2> QED BY <1>6, <2>2, <2>3 DEF SwitchToMain
<1>7. CASE MergeCheckpoint(p)
  <2> DEFINE merged == IF IsPrefix(ref[head], ref[c]) THEN ref[c] ELSE ref[head]
  <2>1. /\ UNCHANGED <<head, tree, origin, meta, used, asked>> /\ o.pc = "merge" /\ head = Main
        /\ ref[c] = LastCommit(o.cp) /\ ref[Main] = o.cp.baseline /\ Grown(o.cp.baseline, origin)
    BY <1>7 DEF MergeCheckpoint, At, Phase, ApproveInv
  <2>2. Work(c, o.cp.baseline, ref[c])
    BY <1>3, <2>1 DEF ApprovePcs, Same, RepoInv, RecordInv
  <2>3. merged = ref[c]
    BY <2>1, <2>2 DEF Work
  <2>4. CASE Keep(merged) /\ op' = [op EXCEPT ![p].cp.promoted = merged, ![p].pc = "note"]
    <3> DEFINE cp == [o.cp EXCEPT !.promoted = merged]
    <3>1. /\ cp.id = c /\ cp.baseline = o.cp.baseline /\ cp.commits = o.cp.commits /\ cp.promoted = merged
          /\ LastCommit(cp) = LastCommit(o.cp)
      <4> HIDE DEF merged
      <4> QED BY DEF Checkpoint, LastCommit
    <3>2. op'[p].pc = "note" /\ op'[p].cp = cp
      <4> HIDE DEF merged
      <4> QED BY <2>4 DEF Operation, Checkpoint
    <3>3. ref'[Main] = ref[c] /\ \A b \in Branches \ {Main} : ref'[b] = ref[b]
      BY <2>1, <2>3, <2>4 DEF Keep
    <3> HIDE DEF merged, cp
    <3>4. RepoInv'
      BY <1>3, <2>1, <3>3, RefStep DEF ApprovePcs
    <3>5. Phase(op[p])'
      BY <1>3, <2>1, <2>2, <2>3, <3>1, <3>2, <3>3
         DEF Phase, RunInv, ApproveInv, UndoInv, RunPcs, ApprovePcs, UndoPcs, CliPcs, DiscardPcs, Same
    <3> QED BY <2>1, <3>4, <3>5, OnePhase DEF OnlyApprovedWorkIsPublished
  <2>5. CASE Goto(p, "abort") /\ UNCHANGED ref
    <3>1. op'[p].pc = "abort" /\ op'[p].cp = o.cp
      BY <2>5, GotoEffect
    <3>2. RepoInv'
      BY <2>1, <2>5, HeadStep DEF RepoInv
    <3>3. Work(c, o.cp.baseline, ref[Main])
      BY <2>1, WorkGrows
    <3>4. Phase(op[p])'
      BY <1>3, <2>1, <2>5, <3>1, <3>3
         DEF Phase, RunInv, ApproveInv, UndoInv, RunPcs, ApprovePcs, UndoPcs, CliPcs, DiscardPcs, Same
    <3> QED BY <2>1, <3>2, <3>4, OnePhase DEF OnlyApprovedWorkIsPublished
  <2>6. CASE Goto(p, "abort") /\ Keep(merged)
    <3>1. op'[p].pc = "abort" /\ op'[p].cp = o.cp
      BY <2>6, GotoEffect
    <3>2. ref'[Main] = ref[c] /\ \A b \in Branches \ {Main} : ref'[b] = ref[b]
      BY <2>1, <2>3, <2>6 DEF Keep
    <3>3. RepoInv'
      BY <1>3, <2>1, <3>2, RefStep DEF ApprovePcs
    <3>4. Phase(op[p])'
      BY <1>3, <2>1, <2>2, <3>1, <3>2
         DEF Phase, RunInv, ApproveInv, UndoInv, RunPcs, ApprovePcs, UndoPcs, CliPcs, DiscardPcs, Same
    <3> QED BY <2>1, <3>3, <3>4, OnePhase DEF OnlyApprovedWorkIsPublished
  <2> QED BY <1>7, <2>4, <2>5, <2>6 DEF MergeCheckpoint
<1>8. CASE SavePromoted(p)
  <2>1. UNCHANGED <<repo, origin, used, asked>> /\ o.pc = "note"
    BY <1>8 DEF SavePromoted, At
  <2>2. CASE Save(Mark(o.cp, "promoting", o.cp.promoted)) /\ Goto(p, "push")
    <3> DEFINE m == Mark(o.cp, "promoting", o.cp.promoted)
    <3>1. /\ m \in Checkpoint /\ m.state = "promoting" /\ m.id = c
          /\ m.baseline = o.cp.baseline /\ m.commits = o.cp.commits
      BY <1>0
    <3> HIDE DEF m
    <3>2. RepoInv' /\ meta'[c] = m
      BY <1>3, <2>1, <2>2, <3>1, MarkStep DEF m, repo, Same, ApprovePcs
    <3>3. op'[p].pc = "push" /\ op'[p].cp = o.cp
      BY <2>2, GotoEffect
    <3>4. Phase(op[p])'
      BY <1>3, <2>1, <3>1, <3>2, <3>3
         DEF repo, Phase, RunInv, ApproveInv, UndoInv, RunPcs, ApprovePcs, UndoPcs, CliPcs, DiscardPcs, Same
    <3> QED BY <2>1, <3>2, <3>4, OnePhase DEF OnlyApprovedWorkIsPublished
  <2>3. CASE SaveFails /\ Goto(p, "abort")
    <3>1. op'[p].pc = "abort" /\ op'[p].cp = o.cp /\ UNCHANGED meta
      BY <2>3, GotoEffect DEF SaveFails
    <3>2. RepoInv'
      BY <2>1, <3>1, HeadStep DEF RepoInv, repo
    <3>3. Phase(op[p])'
      BY <2>1, <3>1
         DEF repo, Phase, RunInv, ApproveInv, UndoInv, RunPcs, ApprovePcs, UndoPcs, CliPcs, DiscardPcs, Same
    <3> QED BY <2>1, <3>2, <3>3, OnePhase DEF OnlyApprovedWorkIsPublished
  <2> QED BY <1>8, <2>2, <2>3 DEF SavePromoted
<1>9. CASE PushMain(p)
  <2>1. /\ UNCHANGED <<repo, meta, used, asked>> /\ o.pc = "push" /\ head = Main
        /\ Work(c, o.cp.baseline, ref[Main]) /\ o.cp.promoted = LastCommit(o.cp)
        /\ Grown(o.cp.baseline, origin)
    BY <1>9 DEF PushMain, At, Phase, ApproveInv
  <2>2. /\ op'[p].pc \in {"finish", "abort"} /\ op'[p].cp = o.cp
        /\ origin' = origin \/ origin' = ref[Main]
    BY <1>9, GotoEffect DEF PushMain, Push, PushLands
  <2>3. RepoInv'
    BY <2>1, HeadStep DEF repo, RepoInv
  <2>4. OnlyApprovedWorkIsPublished'
    <3>1. CASE origin' = origin
      BY <2>1, <3>1 DEF OnlyApprovedWorkIsPublished
    <3>2. CASE origin' = ref[Main]
      <4> DEFINE base == o.cp.baseline
                 local == ref[Main]
      <4>1. /\ base \in History /\ local \in History /\ Len(base) \in Nat /\ Len(local) \in Nat
            /\ Len(base) <= Len(local) /\ Len(base) <= Len(origin)
            /\ \A i \in 1..Len(base) : base[i] = local[i] /\ base[i] = origin[i]
        BY <2>1, PrefixPointwise, HistoryFacts DEF Work, Grown
      <4>2. \A i \in Len(base) + 1 .. Len(local) : local[i].edits = {c}
        BY <2>1, ChangeFields DEF Work
      <4>3. c \in asked
        BY <1>3, <2>1 DEF ApprovePcs
      <4> HIDE DEF base, local
      <4>4. ASSUME NEW i \in 1..Len(local) PROVE local[i].edits \subseteq asked
        <5>1. CASE i \in 1..Len(base)
          <6>1. i \in 1..Len(origin) /\ local[i] = origin[i]
            BY <4>1, <5>1 DEF base, local
          <6> QED BY <6>1 DEF OnlyApprovedWorkIsPublished
        <5>2. CASE i \in Len(base) + 1 .. Len(local)
          BY <4>2, <4>3, <5>2
        <5> QED BY <4>1, <5>1, <5>2
      <4> QED BY <2>1, <3>2, <4>4 DEF OnlyApprovedWorkIsPublished, local
    <3> QED BY <2>2, <3>1, <3>2
  <2>5. Phase(op[p])'
    BY <1>3, <2>1, <2>2
       DEF repo, Phase, RunInv, ApproveInv, UndoInv, RunPcs, ApprovePcs, UndoPcs, CliPcs, DiscardPcs, Same
  <2> QED BY <2>3, <2>4, <2>5, OnePhase
<1>10. CASE SaveApproved(p)
  <2>1. /\ UNCHANGED <<repo, origin, used, asked>> /\ o.pc = "finish" /\ Done(p)
        /\ o.cp.promoted = LastCommit(o.cp)
        /\ Save(Mark(o.cp, "approved", o.cp.promoted)) \/ UNCHANGED meta
    BY <1>10 DEF SaveApproved, At, SaveFails, Phase, ApproveInv
  <2>2. RepoInv'
    <3> DEFINE m == Mark(o.cp, "approved", o.cp.promoted)
    <3>1. /\ m \in Checkpoint /\ m.state = "approved" /\ m.id = c /\ m.promoted = LastCommit(m)
          /\ m.baseline = o.cp.baseline /\ m.commits = o.cp.commits
      BY <1>0, <2>1
    <3>2. Save(m) \/ UNCHANGED meta
      BY <2>1
    <3> HIDE DEF m
    <3> QED BY <1>3, <2>1, <3>1, <3>2, MarkStep, HeadStep DEF repo, Same, ApprovePcs, RepoInv
  <2> QED BY <2>1, <2>2, IdlePhase, OnePhase DEF OnlyApprovedWorkIsPublished
<1>11. CASE AbortApprove(p)
  <2>1. /\ UNCHANGED <<head, origin, meta, used, asked>> /\ o.pc = "abort" /\ head = Main
        /\ op'[p].pc = "release" /\ op'[p].cp = o.cp
    BY <1>11, GotoEffect DEF AbortApprove, At, Phase, ApproveInv
  <2>2. /\ \A b \in Branches \ {Main} : ref'[b] = ref[b]
        /\ ref'[Main] = ref[Main] \/ ref'[Main] = o.cp.baseline
    BY <1>11, <2>1 DEF AbortApprove, ResetMain, Keep
  <2>3. RepoInv'
    BY <1>3, <2>1, <2>2, RefStep DEF ApprovePcs, RepoInv
  <2>4. Phase(op[p])'
    BY <1>3, <2>1
       DEF Phase, RunInv, ApproveInv, UndoInv, RunPcs, ApprovePcs, UndoPcs, CliPcs, DiscardPcs, Same
  <2> QED BY <2>1, <2>3, <2>4, OnePhase DEF OnlyApprovedWorkIsPublished
<1>12. CASE SaveReleased(p)
  <2>1. /\ UNCHANGED <<repo, origin, used, asked>> /\ o.pc = "release"
        /\ Save(Mark(o.cp, "pending", NoCommit)) \/ UNCHANGED meta
        /\ Goto(p, "back") \/ Done(p)
    BY <1>12 DEF SaveReleased, At, SaveFails
  <2>2. RepoInv'
    <3> DEFINE m == Mark(o.cp, "pending", NoCommit)
    <3>1. /\ m \in Checkpoint /\ m.state = "pending" /\ m.id = c
          /\ m.baseline = o.cp.baseline /\ m.commits = o.cp.commits
      BY <1>0
    <3>2. Save(m) \/ UNCHANGED meta
      BY <2>1
    <3> HIDE DEF m
    <3> QED BY <1>3, <2>1, <3>1, <3>2, MarkStep, HeadStep DEF repo, Same, ApprovePcs, RepoInv
  <2>3. ASSUME Goto(p, "back") PROVE Phase(op[p])'
    <3>1. op'[p].pc = "back" /\ op'[p].cp = o.cp
      BY <2>3, GotoEffect
    <3> QED BY <1>3, <2>1, <3>1
         DEF Phase, RunInv, ApproveInv, UndoInv, RunPcs, ApprovePcs, UndoPcs, CliPcs, DiscardPcs
  <2> QED BY <2>1, <2>2, <2>3, IdlePhase, OnePhase DEF OnlyApprovedWorkIsPublished
<1>13. CASE SwitchBack(p)
  <2>1. UNCHANGED <<ref, tree, origin, meta, used, asked>> /\ Done(p) /\ ref[head'] # NoCommit
    BY <1>13 DEF SwitchBack, CanSwitch, RepoInv
  <2> QED BY <2>1, HeadStep, IdlePhase, OnePhase DEF OnlyApprovedWorkIsPublished
<1> QED BY <1>4, <1>5, <1>6, <1>7, <1>8, <1>9, <1>10, <1>11, <1>12, <1>13 DEF ApproveStep

(* Every step of undo_checkpoint preserves the invariant. *)
LEMMA UndoClone ==
  ASSUME OneAgent, Inv, CloneInv, NEW p \in Procs, UndoStep(p)
  PROVE  CloneInv'
<1>1. TypeInv /\ TypeInv' /\ OnlyApprovedWorkIsPublished /\ RepoInv /\ Phase(op[p]) /\ Knows(op[p])
  BY UndoTypes, OnePhase, PromotionIsKnown DEF Inv
<1> DEFINE o == op[p]
           c == op[p].cp.id
<1>2. /\ op \in [Procs -> Operation] /\ o \in Operation /\ o.cp \in Checkpoint /\ c \in Ids
      /\ o.cp.promoted \in History /\ LastCommit(o.cp) \in History /\ o.cp.commits \in Seq(History)
      /\ o.left \in Nat /\ InBounds(o)
      /\ meta \in [Ids -> Checkpoint] /\ head \in Branches /\ ref \in [Branches -> History]
      /\ origin \in History /\ ref' \in [Branches -> History] /\ head' \in Branches
      /\ Main \in Branches /\ Ids \subseteq Branches /\ Main \notin Ids /\ NoCommit \in History
      /\ "undoing" \in States /\ "approved" \in States /\ "undone" \in States
  BY <1>1, TypeInvParts, CurrentOperation, OperationFields, ValueTypes, IdsAssumption
     DEF DataTypes, TypeInv, TypeOK, States
<1>0. ASSUME NEW s \in States, NEW sha \in History
      PROVE  /\ Mark(o.cp, s, sha) \in Checkpoint
             /\ Mark(o.cp, s, sha).state = s /\ Mark(o.cp, s, sha).promoted = sha
             /\ Mark(o.cp, s, sha).id = c
             /\ Mark(o.cp, s, sha).baseline = o.cp.baseline
             /\ Mark(o.cp, s, sha).commits = o.cp.commits
             /\ LastCommit(Mark(o.cp, s, sha)) = LastCommit(o.cp)
  <2>0. o.cp \in Checkpoint
    BY <1>2
  <2>1. Mark(o.cp, s, sha) \in Checkpoint
    BY <2>0, MarkFields
  <2>2. Mark(o.cp, s, sha).state = s /\ Mark(o.cp, s, sha).promoted = sha
    BY <2>0, MarkFields
  <2>3. Mark(o.cp, s, sha).id = c
    BY <2>0, MarkFields
  <2>4. Mark(o.cp, s, sha).baseline = o.cp.baseline /\ Mark(o.cp, s, sha).commits = o.cp.commits
    BY <2>0, MarkFields
  <2>5. LastCommit(Mark(o.cp, s, sha)) = LastCommit(o.cp)
    BY <2>0, MarkFields
  <2> QED BY <2>1, <2>2, <2>3, <2>4, <2>5
<1> USE <1>1, <1>2
(* What is common to the steps of a discard, and to those of a revert. *)
<1>3. ASSUME o.pc \in DiscardPcs
      PROVE  c \in used /\ meta[c] = o.cp /\ meta[c].state = "pending" /\ Same(o)
  BY <1>3 DEF Phase, UndoInv, DiscardPcs, Same
<1>4. ASSUME o.pc \in UndoPcs \ DiscardPcs
      PROVE  /\ c \in used /\ Same(o) /\ o.cp.promoted = LastCommit(o.cp)
             /\ meta[c].state \in {"approved", "undoing"}
             /\ o.cp.promoted # NoCommit /\ IsPrefix(o.cp.promoted, origin)
  BY <1>4 DEF Phase, UndoInv, UndoPcs, DiscardPcs, Knows
<1>5. ASSUME NEW d \in Ids, StartDiscard(p, d) PROVE CloneInv'
  <2>1. /\ meta[d].state = "pending" /\ UNCHANGED <<repo, origin, meta, used, asked>>
        /\ op'[p].pc \in {"leave", "drop"} /\ op'[p].cp = meta[d]
    BY <1>5 DEF StartDiscard
  <2>2. meta[d].id = d /\ d \in used
    BY <2>1 DEF RepoInv, RecordInv, Fresh, Absent
  <2>3. RepoInv'
    BY <2>1, HeadStep DEF RepoInv, repo
  <2>4. Phase(op[p])'
    BY <2>1, <2>2
       DEF repo, Phase, RunInv, ApproveInv, UndoInv, RunPcs, ApprovePcs, UndoPcs, CliPcs, DiscardPcs, Same
  <2> QED BY <2>1, <2>3, <2>4, OnePhase DEF OnlyApprovedWorkIsPublished
<1>6. ASSUME NEW d \in Ids, StartRevert(p, d) PROVE CloneInv'
  <2>1. /\ meta[d].state = "approved" /\ UNCHANGED <<repo, origin, meta, used, asked>>
        /\ meta[d].promoted = origin /\ meta[d].promoted = ref[Main]
        /\ op'[p].pc = "uswitch" /\ op'[p].cp = meta[d]
    BY <1>6 DEF StartRevert, MainsAt
  <2>2. meta[d].id = d /\ d \in used /\ meta[d].promoted = LastCommit(meta[d])
    BY <2>1 DEF RepoInv, RecordInv, Fresh, Absent
  <2>3. Undoes(meta[d].promoted, ref[Main]) /\ Grown(meta[d].promoted, origin)
    BY <2>1, UndoesGrows, GrownGrows
  <2>4. RepoInv'
    BY <2>1, HeadStep DEF RepoInv, repo
  <2>5. Phase(op[p])'
    BY <2>1, <2>2, <2>3
       DEF repo, LastCommit, Phase, RunInv, ApproveInv, UndoInv, RunPcs, ApprovePcs, UndoPcs, CliPcs, DiscardPcs, Same
  <2> QED BY <2>1, <2>4, <2>5, OnePhase DEF OnlyApprovedWorkIsPublished
<1>7. CASE LeaveBranch(p)
  <2>1. UNCHANGED <<ref, tree, origin, meta, used, asked>> /\ o.pc = "leave" /\ ref[head'] # NoCommit
    BY <1>7 DEF LeaveBranch, At, CanSwitch, RepoInv
  <2>2. RepoInv'
    BY <2>1, HeadStep
  <2>3. ASSUME Goto(p, "drop") PROVE Phase(op[p])'
    <3>1. op'[p].pc = "drop" /\ op'[p].cp = o.cp
      BY <2>3, GotoEffect
    <3> QED BY <1>3, <2>1, <3>1
         DEF Phase, RunInv, ApproveInv, UndoInv, RunPcs, ApprovePcs, UndoPcs, CliPcs, DiscardPcs, Same
  <2> QED BY <1>7, <2>1, <2>2, <2>3, IdlePhase, OnePhase DEF LeaveBranch, OnlyApprovedWorkIsPublished
<1>8. CASE DropBranch(p)
  <2>1. /\ UNCHANGED <<head, tree, origin, meta, used, asked>> /\ o.pc = "drop"
        /\ \A b \in Branches \ {c} : ref'[b] = ref[b]
        /\ ref'[c] = ref[c] \/ (ref'[c] = NoCommit /\ head # c)
    BY <1>8 DEF DropBranch, At, CanDelete
  <2>2. RepoInv'
    BY <2>1, RefStep DEF RepoInv
  <2>3. ASSUME Goto(p, "dropped") PROVE Phase(op[p])'
    <3>1. op'[p].pc = "dropped" /\ op'[p].cp = o.cp
      BY <2>3, GotoEffect
    <3> QED BY <1>3, <2>1, <3>1
         DEF Phase, RunInv, ApproveInv, UndoInv, RunPcs, ApprovePcs, UndoPcs, CliPcs, DiscardPcs, Same
  <2> QED BY <1>8, <2>1, <2>2, <2>3, IdlePhase, OnePhase DEF DropBranch, OnlyApprovedWorkIsPublished
<1>9. CASE SaveDiscarded(p)
  <2>1. /\ UNCHANGED <<repo, origin, used, asked>> /\ o.pc = "dropped" /\ Done(p)
        /\ Save(Mark(o.cp, "undone", NoCommit)) \/ UNCHANGED meta
    BY <1>9 DEF SaveDiscarded, At, SaveFails
  <2>2. RepoInv'
    <3> DEFINE m == Mark(o.cp, "undone", NoCommit)
    <3>1. /\ m \in Checkpoint /\ m.state = "undone" /\ m.id = c
          /\ m.baseline = o.cp.baseline /\ m.commits = o.cp.commits
      BY <1>0
    <3>2. Save(m) \/ UNCHANGED meta
      BY <2>1
    <3> HIDE DEF m
    <3> QED BY <1>3, <2>1, <3>1, <3>2, MarkStep, HeadStep DEF repo, Same, DiscardPcs, RepoInv
  <2> QED BY <2>1, <2>2, IdlePhase, OnePhase DEF OnlyApprovedWorkIsPublished
<1>10. CASE SwitchToRevert(p)
  <2>1. UNCHANGED <<ref, tree, origin, meta, used, asked>> /\ o.pc = "uswitch"
    BY <1>10 DEF SwitchToRevert, At
  <2>2. RepoInv'
    BY <1>10, <2>1, HeadStep DEF SwitchToRevert, RepoInv
  <2>3. ASSUME Goto(p, "revert"), head' = Main PROVE Phase(op[p])'
    <3>1. op'[p].pc = "revert" /\ op'[p].cp = o.cp
      BY <2>3, GotoEffect
    <3> QED BY <1>4, <2>1, <2>3, <3>1
         DEF Phase, RunInv, ApproveInv, UndoInv, RunPcs, ApprovePcs, UndoPcs, CliPcs, DiscardPcs, Same
  <2> QED BY <1>10, <2>1, <2>2, <2>3, IdlePhase, OnePhase DEF SwitchToRevert, OnlyApprovedWorkIsPublished
<1>11. CASE RevertCommit(p)
  <2>1. /\ UNCHANGED <<head, tree, origin, meta, used, asked>> /\ o.pc = "revert" /\ head = Main
        /\ Undoes(o.cp.promoted, ref[Main]) /\ Grown(o.cp.promoted, origin) /\ meta[c].state = "approved"
    BY <1>11 DEF RevertCommit, At, Phase, UndoInv
  <2>2. CASE /\ o.left > 0 /\ Keep(Append(ref[head], RevertOf(o.cp.commits[o.left])))
             /\ op' = [op EXCEPT ![p].left = o.left - 1]
    <3> DEFINE g == Append(ref[head], RevertOf(o.cp.commits[o.left]))
    <3>1. op'[p].pc = "revert" /\ op'[p].cp = o.cp
      BY <2>1, <2>2 DEF Operation
    <3>2. o.cp.commits[o.left] \in History
      BY <2>1, <2>2 DEF InBounds
    <3>3. g \in History /\ g # NoCommit /\ Undoes(o.cp.promoted, g)
      BY <2>1, <3>2, ChangeFields, Appended, UndoesGrows
    <3>4. ref'[Main] = g /\ \A b \in Branches \ {Main} : ref'[b] = ref[b]
      BY <2>1, <2>2 DEF Keep
    <3> HIDE DEF g
    <3>5. RepoInv'
      BY <2>1, <3>3, <3>4, RefStep
    <3>6. Phase(op[p])'
      BY <1>4, <2>1, <3>1, <3>3, <3>4
         DEF Phase, RunInv, ApproveInv, UndoInv, RunPcs, ApprovePcs, UndoPcs, CliPcs, DiscardPcs, Same
    <3> QED BY <2>1, <3>5, <3>6, OnePhase DEF OnlyApprovedWorkIsPublished
  <2>3. CASE (Goto(p, "uabort") \/ Goto(p, "umark")) /\ UNCHANGED ref
    <3>1. op'[p].pc \in {"uabort", "umark"} /\ op'[p].cp = o.cp
      BY <2>3, GotoEffect
    <3>2. RepoInv'
      BY <2>1, <2>3, HeadStep DEF RepoInv
    <3>3. Phase(op[p])'
      BY <1>4, <2>1, <2>3, <3>1
         DEF Phase, RunInv, ApproveInv, UndoInv, RunPcs, ApprovePcs, UndoPcs, CliPcs, DiscardPcs, Same
    <3> QED BY <2>1, <3>2, <3>3, OnePhase DEF OnlyApprovedWorkIsPublished
  <2>4. CASE /\ o.left > 0 /\ Keep(Append(ref[head], RevertOf(o.cp.commits[o.left])))
             /\ Goto(p, "uabort")
    <3> DEFINE g == Append(ref[head], RevertOf(o.cp.commits[o.left]))
    <3>1. op'[p].pc = "uabort" /\ op'[p].cp = o.cp
      BY <2>4, GotoEffect
    <3>2. o.cp.commits[o.left] \in History
      BY <2>1, <2>4 DEF InBounds
    <3>3. g \in History /\ g # NoCommit /\ Undoes(o.cp.promoted, g)
      BY <2>1, <3>2, ChangeFields, Appended, UndoesGrows
    <3>4. ref'[Main] = g /\ \A b \in Branches \ {Main} : ref'[b] = ref[b]
      BY <2>1, <2>4 DEF Keep
    <3> HIDE DEF g
    <3>5. RepoInv'
      BY <2>1, <3>3, <3>4, RefStep
    <3>6. Phase(op[p])'
      BY <1>4, <2>1, <3>1, <3>3, <3>4
         DEF Phase, RunInv, ApproveInv, UndoInv, RunPcs, ApprovePcs, UndoPcs, CliPcs, DiscardPcs, Same
    <3> QED BY <2>1, <3>5, <3>6, OnePhase DEF OnlyApprovedWorkIsPublished
  <2> QED BY <1>11, <2>2, <2>3, <2>4 DEF RevertCommit
<1>12. CASE SaveUndoing(p)
  <2>1. UNCHANGED <<repo, origin, used, asked>> /\ o.pc = "umark"
    BY <1>12 DEF SaveUndoing, At
  <2>2. CASE Save(Mark(o.cp, "undoing", o.cp.promoted)) /\ Goto(p, "upush")
    <3> DEFINE m == Mark(o.cp, "undoing", o.cp.promoted)
    <3>1. /\ m \in Checkpoint /\ m.state = "undoing" /\ m.id = c
          /\ m.baseline = o.cp.baseline /\ m.commits = o.cp.commits
      BY <1>0
    <3>2. Save(m)
      BY <2>2
    <3> HIDE DEF m
    <3>3. RepoInv' /\ meta'[c] = m
      BY <1>4, <2>1, <3>1, <3>2, MarkStep DEF repo, Same, UndoPcs, DiscardPcs
    <3>4. op'[p].pc = "upush" /\ op'[p].cp = o.cp
      BY <2>2, GotoEffect
    <3>5. Phase(op[p])'
      BY <1>4, <2>1, <3>1, <3>3, <3>4
         DEF repo, Phase, RunInv, ApproveInv, UndoInv, RunPcs, ApprovePcs, UndoPcs, CliPcs, DiscardPcs, Same
    <3> QED BY <2>1, <3>3, <3>5, OnePhase DEF OnlyApprovedWorkIsPublished
  <2>3. CASE SaveFails /\ Goto(p, "uabort")
    <3>1. op'[p].pc = "uabort" /\ op'[p].cp = o.cp /\ UNCHANGED meta
      BY <2>3, GotoEffect DEF SaveFails
    <3>2. RepoInv'
      BY <2>1, <3>1, HeadStep DEF RepoInv, repo
    <3>3. Phase(op[p])'
      BY <1>4, <2>1, <3>1
         DEF repo, Phase, RunInv, ApproveInv, UndoInv, RunPcs, ApprovePcs, UndoPcs, CliPcs, DiscardPcs, Same
    <3> QED BY <2>1, <3>2, <3>3, OnePhase DEF OnlyApprovedWorkIsPublished
  <2> QED BY <1>12, <2>2, <2>3 DEF SaveUndoing
<1>13. CASE PushRevert(p)
  <2>1. /\ UNCHANGED <<repo, meta, used, asked>> /\ o.pc = "upush" /\ head = Main
        /\ Undoes(o.cp.promoted, ref[Main]) /\ Grown(o.cp.promoted, origin) /\ meta[c].state = "undoing"
    BY <1>13 DEF PushRevert, At, Phase, UndoInv
  <2>2. /\ op'[p].pc \in {"ufinish", "uabort"} /\ op'[p].cp = o.cp
        /\ origin' = origin \/ origin' = ref[Main]
    BY <1>13, GotoEffect DEF PushRevert, Push, PushLands
  <2>3. RepoInv'
    BY <2>1, HeadStep DEF repo, RepoInv
  <2>4. OnlyApprovedWorkIsPublished'
    <3>1. CASE origin' = origin
      BY <2>1, <3>1 DEF OnlyApprovedWorkIsPublished
    <3>2. CASE origin' = ref[Main]
      <4> DEFINE base == o.cp.promoted
                 local == ref[Main]
      <4>1. /\ base \in History /\ local \in History /\ Len(base) \in Nat /\ Len(local) \in Nat
            /\ Len(base) <= Len(local) /\ Len(base) <= Len(origin)
            /\ \A i \in 1..Len(base) : base[i] = local[i] /\ base[i] = origin[i]
        BY <2>1, PrefixPointwise, HistoryFacts DEF Undoes, Grown
      <4>2. \A i \in Len(base) + 1 .. Len(local) : local[i].edits = {}
        BY <2>1 DEF Undoes
      <4> HIDE DEF base, local
      <4>3. ASSUME NEW i \in 1..Len(local) PROVE local[i].edits \subseteq asked
        <5>1. CASE i \in 1..Len(base)
          <6>1. i \in 1..Len(origin) /\ local[i] = origin[i]
            BY <4>1, <5>1 DEF base, local
          <6> QED BY <6>1 DEF OnlyApprovedWorkIsPublished
        <5>2. CASE i \in Len(base) + 1 .. Len(local)
          BY <4>2, <5>2
        <5> QED BY <4>1, <5>1, <5>2
      <4> QED BY <2>1, <3>2, <4>3 DEF OnlyApprovedWorkIsPublished, local
    <3> QED BY <2>2, <3>1, <3>2
  <2>5. Phase(op[p])'
    BY <1>4, <2>1, <2>2
       DEF repo, Phase, RunInv, ApproveInv, UndoInv, RunPcs, ApprovePcs, UndoPcs, CliPcs, DiscardPcs, Same
  <2> QED BY <2>3, <2>4, <2>5, OnePhase
<1>14. CASE SaveUndone(p)
  <2>1. /\ UNCHANGED <<repo, origin, used, asked>> /\ o.pc = "ufinish" /\ Done(p)
        /\ Save(Mark(o.cp, "undone", o.cp.promoted)) \/ UNCHANGED meta
    BY <1>14 DEF SaveUndone, At, SaveFails
  <2>2. RepoInv'
    <3> DEFINE m == Mark(o.cp, "undone", o.cp.promoted)
    <3>1. /\ m \in Checkpoint /\ m.state = "undone" /\ m.id = c
          /\ m.baseline = o.cp.baseline /\ m.commits = o.cp.commits
      BY <1>0
    <3>2. Save(m) \/ UNCHANGED meta
      BY <2>1
    <3> HIDE DEF m
    <3> QED BY <1>4, <2>1, <3>1, <3>2, MarkStep, HeadStep DEF repo, Same, UndoPcs, DiscardPcs, RepoInv
  <2> QED BY <2>1, <2>2, IdlePhase, OnePhase DEF OnlyApprovedWorkIsPublished
<1>15. CASE AbortRevert(p)
  <2>1. /\ UNCHANGED <<head, origin, meta, used, asked>> /\ o.pc = "uabort" /\ head = Main
        /\ op'[p].pc = "urelease" /\ op'[p].cp = o.cp
    BY <1>15, GotoEffect DEF AbortRevert, At, Phase, UndoInv
  <2>2. /\ \A b \in Branches \ {Main} : ref'[b] = ref[b]
        /\ ref'[Main] = ref[Main] \/ ref'[Main] = o.cp.promoted
    BY <1>15, <2>1 DEF AbortRevert, ResetMain, Keep
  <2>3. RepoInv'
    BY <1>4, <2>1, <2>2, RefStep DEF UndoPcs, DiscardPcs, RepoInv
  <2>4. Phase(op[p])'
    BY <1>4, <2>1
       DEF Phase, RunInv, ApproveInv, UndoInv, RunPcs, ApprovePcs, UndoPcs, CliPcs, DiscardPcs, Same
  <2> QED BY <2>1, <2>3, <2>4, OnePhase DEF OnlyApprovedWorkIsPublished
<1>16. CASE SaveStillApproved(p)
  <2>1. /\ UNCHANGED <<repo, origin, used, asked>> /\ o.pc = "urelease" /\ Done(p)
        /\ Save(Mark(o.cp, "approved", o.cp.promoted)) \/ UNCHANGED meta
    BY <1>16 DEF SaveStillApproved, At, SaveFails
  <2>2. RepoInv'
    <3> DEFINE m == Mark(o.cp, "approved", o.cp.promoted)
    <3>1. /\ m \in Checkpoint /\ m.state = "approved" /\ m.id = c /\ m.promoted = LastCommit(m)
          /\ m.baseline = o.cp.baseline /\ m.commits = o.cp.commits
      BY <1>0, <1>4, <2>1 DEF UndoPcs, DiscardPcs
    <3>2. Save(m) \/ UNCHANGED meta
      BY <2>1
    <3> HIDE DEF m
    <3> QED BY <1>4, <2>1, <3>1, <3>2, MarkStep, HeadStep DEF repo, Same, UndoPcs, DiscardPcs, RepoInv
  <2> QED BY <2>1, <2>2, IdlePhase, OnePhase DEF OnlyApprovedWorkIsPublished
<1> QED BY <1>5, <1>6, <1>7, <1>8, <1>9, <1>10, <1>11, <1>12, <1>13, <1>14, <1>15, <1>16 DEF UndoStep

(* So do crashes, other people and the user. *)
LEMMA EnvironmentClone ==
  ASSUME OneAgent, Inv, CloneInv, OthersPush \/ UserStep \/ \E p \in Procs : CommandRaises(p) \/ Crash(p)
  PROVE  CloneInv'
<1>1. PICK p \in Procs : TRUE
  BY ProcsAssumption
<1>2. /\ TypeInv /\ TypeInv' /\ OnlyApprovedWorkIsPublished /\ RepoInv /\ Phase(op[p])
  BY EnvironmentTypes, OnePhase DEF Inv
<1>3. /\ op[p] \in Operation /\ op[p].cp.baseline \in History /\ op[p].cp.promoted \in History
      /\ head \in Branches /\ ref \in [Branches -> History] /\ origin \in History
      /\ Main \in Branches /\ Ids \subseteq Branches /\ Main \notin Ids /\ others \in Nat
  BY <1>2, TypeInvParts, CurrentOperation, OperationFields, ValueTypes, IdsAssumption, BoundsAssumption
     DEF DataTypes, TypeInv, TypeOK
<1> USE <1>2, <1>3
<1>4. CASE OthersPush
  <2>1. origin' = Append(origin, Other(others)) /\ UNCHANGED <<repo, meta, op, used, asked>>
    BY <1>4 DEF OthersPush
  <2>2. RepoInv'
    BY <2>1, HeadStep DEF repo, RepoInv
  <2>3. OnlyApprovedWorkIsPublished'
    <3>1. /\ Len(origin') = Len(origin) + 1 /\ origin'[Len(origin) + 1] = Other(others)
          /\ \A i \in 1..Len(origin) : origin'[i] = origin[i]
      BY <2>1, ChangeFields, Appended
    <3>2. Len(origin) \in Nat
      BY HistoryFacts
    <3>3. ASSUME NEW i \in 1..Len(origin') PROVE origin'[i].edits \subseteq asked'
      <4>1. CASE i = Len(origin) + 1
        BY <3>1, <4>1, ChangeFields
      <4>2. CASE i \in 1..Len(origin)
        BY <2>1, <3>1, <4>2 DEF OnlyApprovedWorkIsPublished
      <4> QED BY <3>1, <3>2, <4>1, <4>2
    <3> QED BY <3>3 DEF OnlyApprovedWorkIsPublished
  <2>4. /\ Grown(op[p].cp.baseline, origin) => Grown(op[p].cp.baseline, origin')
        /\ Grown(op[p].cp.promoted, origin) => Grown(op[p].cp.promoted, origin')
    BY <2>1, GrownGrows
  <2>5. Phase(op[p])'
    BY <2>1, <2>4
       DEF repo, OnBranch, Phase, RunInv, ApproveInv, UndoInv, RunPcs, ApprovePcs, UndoPcs, CliPcs, DiscardPcs, Same
  <2> QED BY <2>2, <2>3, <2>5, OnePhase
<1>5. CASE UserStep
  <2>1. op[p].pc = "idle" /\ UNCHANGED <<origin, meta, op, used, asked>>
    BY <1>5 DEF UserStep, UserCommits, UserPulls, UserSwitches, AllIdle, At
  <2>2. RepoInv'
    <3>1. CASE UserCommits
      <4> DEFINE g == Append(ref[Main], Other(others))
      <4>1. g # NoCommit
        BY ChangeFields, Appended
      <4> HIDE DEF g
      <4>2. ref'[Main] = g /\ head' = Main /\ \A b \in Branches \ {Main} : ref'[b] = ref[b]
        BY <3>1 DEF UserCommits, Keep, g
      <4> QED BY <2>1, <4>1, <4>2, RefStep
    <3>2. CASE UserPulls
      <4>1. ref'[Main] = origin /\ head' = Main /\ \A b \in Branches \ {Main} : ref'[b] = ref[b]
        BY <3>2 DEF UserPulls, Keep
      <4>2. origin # NoCommit
        BY <3>2, NonEmptyPrefix DEF UserPulls, RepoInv
      <4> QED BY <2>1, <4>1, <4>2, RefStep
    <3>3. CASE UserSwitches
      BY <2>1, <3>3, HeadStep DEF UserSwitches, CanSwitch
    <3> QED BY <1>5, <3>1, <3>2, <3>3 DEF UserStep
  <2>3. Phase(op[p])'
    BY <2>1
       DEF Phase, RunInv, ApproveInv, UndoInv, RunPcs, ApprovePcs, UndoPcs, CliPcs, DiscardPcs, Same
  <2> QED BY <2>1, <2>2, <2>3, OnePhase DEF OnlyApprovedWorkIsPublished
<1>6. ASSUME NEW q \in Procs, Crash(q) PROVE CloneInv'
  <2>1. Done(q) /\ UNCHANGED <<repo, origin, meta, used, asked>>
    BY <1>6 DEF Crash
  <2>2. RepoInv'
    BY <2>1, HeadStep DEF repo, RepoInv
  <2> QED BY <2>1, <2>2, IdlePhase, OnePhase DEF OnlyApprovedWorkIsPublished
<1>7. ASSUME NEW q \in Procs, CommandRaises(q) PROVE CloneInv'
  <2>1. UNCHANGED <<repo, origin, meta, used, asked>>
    BY <1>7, RaisingEffect
  <2>2. RepoInv'
    BY <2>1, HeadStep DEF repo, RepoInv
  <2>3. CASE Done(q)
    BY <2>1, <2>2, <2>3, IdlePhase, OnePhase DEF OnlyApprovedWorkIsPublished
  <2>4. CASE op[q].pc \in {"restore", "delete"} /\ Goto(q, "unlink")
    <3>1. op'[q].pc = "unlink" /\ op'[q].cp = op[q].cp /\ q = p
      BY <2>4, GotoEffect DEF OneAgent
    <3>2. ~NoGitFaults
      BY <1>7 DEF CommandRaises, GitRaises, NoGitFaults
    <3>3. Phase(op[p])'
      BY <2>1, <2>4, <3>1, <3>2
         DEF repo, Phase, RunInv, ApproveInv, UndoInv, RunPcs, ApprovePcs, UndoPcs, CliPcs, DiscardPcs, Same
    <3> QED BY <2>1, <2>2, <3>3, OnePhase DEF OnlyApprovedWorkIsPublished
  <2> QED BY <1>7, <2>3, <2>4, RaisingEffect
<1> QED BY <1>4, <1>5, <1>6, <1>7

-----------------------------------------------------------------------------
(* The invariant of the specification *)

LEMMA CloneInit == ASSUME Init PROVE CloneInv
<1>1. Root \in Commit /\ Root.edits = {}
  BY BoundsAssumption, ChangeFields DEF Root
<1>2. <<Root>> # NoCommit /\ Len(<<Root>>) = 1 /\ <<Root>>[1] = Root
  BY <1>1 DEF NoCommit
<1>3. OnlyApprovedWorkIsPublished
  <2>1. ASSUME NEW i \in 1..Len(origin) PROVE origin[i].edits \subseteq asked
    BY <1>1, <1>2 DEF Init
  <2> QED BY <2>1 DEF OnlyApprovedWorkIsPublished
<1>4. RepoInv
  <2>1. ref[Main] # NoCommit /\ ref[head] # NoCommit
    BY <1>2, ValueTypes DEF Init
  <2>2. ASSUME NEW c \in Ids PROVE RecordInv(c)
    BY IdsAssumption, ValueTypes DEF Init, RecordInv, Fresh, Absent
  <2> QED BY <2>1, <2>2 DEF RepoInv
<1>5. ASSUME NEW p \in Procs PROVE Phase(op[p])
  BY DEF Init, Idle, Phase, RunInv, ApproveInv, UndoInv, RunPcs, ApprovePcs, UndoPcs, CliPcs, DiscardPcs
<1> QED BY <1>3, <1>4, <1>5 DEF CloneInv

LEMMA CloneNext ==
  ASSUME OneAgent, Inv, CloneInv, [Next]_vars
  PROVE  CloneInv'
<1>1. CASE Next
  BY <1>1, RunClone, ApproveClone, UndoClone, EnvironmentClone DEF Next, AgentStep
<1>2. CASE UNCHANGED vars
  BY <1>2 DEF vars, CloneInv, OnlyApprovedWorkIsPublished, RepoInv, RecordInv, Fresh, LastCommit,
              Phase, RunInv, ApproveInv, UndoInv, OnBranch, Same
<1> QED BY <1>1, <1>2

(* With one agent in the clone, both invariants hold throughout. *)
LEMMA CloneIsKept ==
  ASSUME OneAgent
  PROVE  Spec => [](Inv /\ CloneInv)
<1>1. Init => Inv /\ CloneInv
  BY PromotionInit, CloneInit
<1>2. (Inv /\ CloneInv) /\ [Next]_vars => (Inv /\ CloneInv)'
  BY PromotionNext, CloneNext
<1> QED BY <1>1, <1>2, PTL DEF Spec

(* "successful work is never published directly to main" (agent.py:6):
   whatever the coding CLI commits, wherever it leaves HEAD, and whichever
   step fails, an agent alone in its clone pushes to main no work but that of
   checkpoints somebody asked it to approve. *)
THEOREM OnlyApprovedWorkEver ==
  ASSUME OneAgent
  PROVE  Spec => []OnlyApprovedWorkIsPublished
<1>1. Inv /\ CloneInv => OnlyApprovedWorkIsPublished
  BY DEF CloneInv
<1> QED BY <1>1, CloneIsKept, PTL

(* What an undo publishes are reverts right on top of the promoted commit
   (README.md:17): another commit that lands on the remote while it reverts
   makes the push fail. *)
THEOREM UndoAddsReverts ==
  ASSUME OneAgent
  PROVE  Spec => UndoTouchesOnlyItsWork
<1> DEFINE Adds(p) ==
      At(p, "upush") /\ ~At(p, "upush")' /\ origin' # origin =>
        /\ origin = op[p].cp.promoted
        /\ IsPrefix(origin, origin')
        /\ \A i \in Len(origin) + 1 .. Len(origin') : origin'[i].kind = "revert"
<1>1. ASSUME Inv, CloneInv, [Next]_vars, NEW p \in Procs,
             At(p, "upush"), ~At(p, "upush")', origin' # origin
      PROVE  /\ origin = op[p].cp.promoted
             /\ IsPrefix(origin, origin')
             /\ \A i \in Len(origin) + 1 .. Len(origin') : origin'[i].kind = "revert"
  <2>1. op' # op
    BY <1>1 DEF At
  <2>2. AgentStep(p) \/ CommandRaises(p) \/ Crash(p)
    <3>1. Next
      BY <1>1 DEF vars
    <3>2. ~OthersPush /\ ~UserStep
      BY <2>1 DEF OthersPush, UserStep, UserCommits, UserPulls, UserSwitches
    <3> QED BY <3>1, <3>2 DEF Next, OneAgent
  <2>3. ~CommandRaises(p) /\ ~Crash(p) /\ ~RunStep(p)
    BY <1>1 DEF CommandRaises, Crash, RunStep, StartRun, CreateBranch, Backend, Verify, CommitPass, RecordPass, PublishBranch,
                ResetRun, RestoreBase, DeleteBranch, Unlink, At
  <2>4. ~ApproveStep(p)
    BY <1>1 DEF ApproveStep, StartApprove, SaveClaim, SwitchToMain, MergeCheckpoint, SavePromoted, PushMain,
                SaveApproved, AbortApprove, SaveReleased, SwitchBack, At
  <2>5. UndoStep(p) => PushRevert(p)
    BY <1>1 DEF UndoStep, StartDiscard, StartRevert, LeaveBranch, DropBranch, SaveDiscarded, SwitchToRevert,
                RevertCommit, SaveUndoing, SaveUndone, AbortRevert, SaveStillApproved, At
  <2>6. origin' = ref[Main] /\ IsPrefix(origin, ref[Main])
    BY <1>1, <2>2, <2>3, <2>4, <2>5 DEF AgentStep, PushRevert, Push, PushLands
  <2>7. Undoes(op[p].cp.promoted, ref[Main]) /\ Grown(op[p].cp.promoted, origin)
    BY <1>1 DEF At, CloneInv, Phase, UndoInv
  <2>8. op[p].cp.promoted \in History /\ ref[Main] \in History /\ origin \in History
    BY <1>1, TypeInvParts, CurrentOperation, OperationFields, ValueTypes DEF Inv, DataTypes
  <2>9. \A i \in Len(op[p].cp.promoted) + 1 .. Len(ref[Main]) : ref[Main][i].kind = "revert"
    BY <2>7 DEF Undoes
  <2>10. origin = op[p].cp.promoted
    BY <2>6, <2>7, <2>8, <2>9, PushedOnto DEF Undoes
  <2> QED BY <2>6, <2>9, <2>10
<1>2. ASSUME Inv /\ CloneInv, [Next]_vars PROVE [\A p \in Procs : Adds(p)]_vars
  BY <1>1, <1>2
<1>3. (Inv /\ CloneInv) /\ [Next]_vars => [\A p \in Procs : Adds(p)]_vars
  BY <1>2
<1>4. Spec => [][\A p \in Procs : Adds(p)]_vars
  BY <1>3, CloneIsKept, PTL DEF Spec
<1> QED BY <1>4 DEF UndoTouchesOnlyItsWork

-----------------------------------------------------------------------------
(* What a step does to the branches *)

(* A run that fails is gone without a trace (agent.py:4, README.md:14): one
   agent, and Git commands that do what they are asked.  A Git command that
   fails in the rollback leaves the branch behind, as the code accepts. *)
THEOREM FailedRunsLeaveNoTrace ==
  ASSUME OneAgent, NoGitFaults
  PROVE  Spec => FailedRunLeavesNoTrace
<1> DEFINE Gone(p) ==
      Unlink(p) =>
        LET cp == op[p].cp IN
        /\ head' = cp.base /\ ref'[cp.base] = cp.baseline /\ tree' = {}
        /\ ref'[cp.id] = NoCommit /\ meta'[cp.id] = Absent(cp.id)
<1>1. ASSUME Inv, CloneInv, NEW p \in Procs PROVE Gone(p)
  <2> SUFFICES ASSUME Unlink(p)
               PROVE  LET cp == op[p].cp IN
                      /\ head' = cp.base /\ ref'[cp.base] = cp.baseline /\ tree' = {}
                      /\ ref'[cp.id] = NoCommit /\ meta'[cp.id] = Absent(cp.id)
    OBVIOUS
  <2>1. /\ tree = {} /\ ref[op[p].cp.base] = op[p].cp.baseline
        /\ head = op[p].cp.base /\ ref[op[p].cp.id] = NoCommit
    BY <1>1 DEF Unlink, At, CloneInv, Phase, RunInv
  <2>2. op[p].cp.id \in Ids /\ meta \in [Ids -> Checkpoint]
    BY <1>1, TypeInvParts, CurrentOperation, OperationFields DEF Inv, DataTypes
  <2>3. UNCHANGED repo /\ meta'[op[p].cp.id] = Absent(op[p].cp.id)
    BY <2>2 DEF Unlink, Save, Absent
  <2> QED BY <2>1, <2>3 DEF repo
<1>2. (Inv /\ CloneInv) /\ [Next]_vars => [\A p \in Procs : Gone(p)]_vars
  BY <1>1
<1>3. Spec => [][\A p \in Procs : Gone(p)]_vars
  BY <1>2, CloneIsKept, PTL DEF Spec
<1> QED BY <1>3 DEF FailedRunLeavesNoTrace

(* The commits of others in h stand in g where they stood. *)
KeepsOthers(h, g) ==
  \A i \in 1..Len(h) : h[i].kind = "other" => i <= Len(g) /\ g[i] = h[i]

(* So it is when a history grows, and when it is cut down to a commit above
   which there is nothing of others. *)
LEMMA OthersKept ==
  ASSUME NEW h \in History, NEW g \in History,
         \/ IsPrefix(h, g)
         \/ IsPrefix(g, h) /\ \A i \in Len(g) + 1 .. Len(h) : h[i].kind # "other"
  PROVE  KeepsOthers(h, g)
<1>1. Len(h) \in Nat /\ Len(g) \in Nat
  BY HistoryFacts
<1>2. CASE IsPrefix(h, g)
  BY <1>1, <1>2, PrefixPointwise DEF KeepsOthers
<1>3. CASE IsPrefix(g, h) /\ \A i \in Len(g) + 1 .. Len(h) : h[i].kind # "other"
  <2> SUFFICES ASSUME NEW i \in 1..Len(h), h[i].kind = "other"
               PROVE  i <= Len(g) /\ g[i] = h[i]
    BY DEF KeepsOthers
  <2>1. i <= Len(g)
    BY <1>1, <1>3
  <2> QED BY <1>1, <1>3, <2>1, PrefixPointwise
<1> QED BY <1>2, <1>3

(* Every step leaves local main, lets it grow, or takes back its own work. *)
LEMMA LocalMainStep ==
  ASSUME OneAgent, KeepsToBranch, Inv, CloneInv, Next
  PROVE  KeepsOthers(ref[Main], ref'[Main])
<1>1. PICK p \in Procs : Procs = {p}
  BY ProcsAssumption DEF OneAgent
<1> DEFINE o == op[p]
           c == op[p].cp.id
<1>2. /\ TypeInv /\ RepoInv /\ Phase(o)
      /\ o \in Operation /\ o.cp \in Checkpoint /\ c \in Ids /\ InBounds(o)
      /\ o.cp.baseline \in History /\ o.cp.promoted \in History /\ o.cp.commits \in Seq(History)
      /\ o.left \in Nat /\ head \in Branches /\ ref \in [Branches -> History] /\ origin \in History
      /\ Main \in Branches /\ Ids \subseteq Branches /\ Main \notin Ids /\ others \in Nat
  BY OnePhase, TypeInvParts, CurrentOperation, OperationFields, ValueTypes, IdsAssumption, BoundsAssumption
     DEF DataTypes, TypeInv, TypeOK, Inv
<1>3. KeepsOthers(ref[Main], ref[Main])
  BY <1>2, OthersKept, HistoryFacts
<1> USE <1>2
<1>4. CASE RunStep(p)
  <2>1. o.pc \in CliPcs => head = c
    BY DEF Phase, RunInv, OnBranch
  <2>2. CASE Backend(p)
    <3>1. PICK act \in BackendActs : CliActs(c, act)
      BY <2>2 DEF Backend
    <3>2. head = c /\ act \in AllActs
      BY <2>1, <2>2, ActsAssumption DEF Backend, At, CliPcs
    <3>3. ref'[Main] = ref[Main]
      BY <3>1, <3>2 DEF CliActs, AllActs, Keep, repo
    <3> QED BY <1>3, <3>3
  <2>3. CASE CommitPass(p) \/ ResetRun(p)
    <3>1. head = c
      BY <2>1, <2>3 DEF CommitPass, ResetRun, At, CliPcs
    <3>2. ref'[Main] = ref[Main]
      BY <2>3, <3>1 DEF CommitPass, ResetRun, Keep
    <3> QED BY <1>3, <3>2
  <2>4. CASE CreateBranch(p) \/ DeleteBranch(p)
    BY <1>3, <2>4 DEF CreateBranch, DeleteBranch
  <2>5. CASE UNCHANGED ref
    BY <1>3, <2>5
  <2> QED BY <1>4, <2>2, <2>3, <2>4, <2>5
          DEF RunStep, StartRun, Verify, RecordPass, PublishBranch, RestoreBase, Unlink, repo
<1>5. CASE ApproveStep(p)
  <2>1. CASE MergeCheckpoint(p)
    <3>1. head = Main
      BY <2>1 DEF MergeCheckpoint, At, Phase, ApproveInv
    <3>2. \/ ref'[Main] = ref[Main]
          \/ ref'[Main] = ref[c] /\ IsPrefix(ref[Main], ref[c])
      BY <2>1, <3>1 DEF MergeCheckpoint, Keep
    <3> QED BY <1>3, <3>2, OthersKept
  <2>2. CASE AbortApprove(p)
    <3>1. head = Main /\ Work(c, o.cp.baseline, ref[Main])
      BY <2>2 DEF AbortApprove, At, Phase, ApproveInv
    <3>2. ref'[Main] = ref[Main] \/ ref'[Main] = o.cp.baseline
      BY <2>2, <3>1 DEF AbortApprove, ResetMain, Keep
    <3>3. \A i \in Len(o.cp.baseline) + 1 .. Len(ref[Main]) : ref[Main][i].kind = "change"
      BY <3>1, ChangeFields DEF Work
    <3>4. KeepsOthers(ref[Main], o.cp.baseline)
      BY <3>1, <3>3, OthersKept DEF Work
    <3> QED BY <1>3, <3>2, <3>4
  <2>3. CASE UNCHANGED ref
    BY <1>3, <2>3
  <2> QED BY <1>5, <2>1, <2>2, <2>3
          DEF ApproveStep, StartApprove, SaveClaim, SwitchToMain, SavePromoted, PushMain, SaveApproved,
              SaveReleased, SwitchBack, repo
<1>6. CASE UndoStep(p)
  <2>1. CASE RevertCommit(p)
    <3>1. head = Main
      BY <2>1 DEF RevertCommit, At, Phase, UndoInv
    <3>2. CASE o.left > 0 /\ Keep(Append(ref[head], RevertOf(o.cp.commits[o.left])))
      <4>1. o.cp.commits[o.left] \in History
        <5>1. o.left <= Len(o.cp.commits)
          BY <2>1 DEF RevertCommit, At, InBounds
        <5> QED BY <3>2, <5>1
      <4>2. RevertOf(o.cp.commits[o.left]) \in Commit
        BY <4>1, ChangeFields
      <4>3. ref'[Main] = Append(ref[Main], RevertOf(o.cp.commits[o.left]))
        BY <3>1, <3>2 DEF Keep
      <4> QED BY <4>2, <4>3, PrefixGrows, OthersKept
    <3>3. CASE UNCHANGED ref
      BY <1>3, <3>3
    <3> QED BY <2>1, <3>2, <3>3 DEF RevertCommit
  <2>2. CASE AbortRevert(p)
    <3>1. head = Main /\ Undoes(o.cp.promoted, ref[Main])
      BY <2>2 DEF AbortRevert, At, Phase, UndoInv
    <3>2. ref'[Main] = ref[Main] \/ ref'[Main] = o.cp.promoted
      BY <2>2, <3>1 DEF AbortRevert, ResetMain, Keep
    <3>3. KeepsOthers(ref[Main], o.cp.promoted)
      BY <3>1, OthersKept DEF Undoes
    <3> QED BY <1>3, <3>2, <3>3
  <2>3. CASE DropBranch(p)
    BY <1>3, <2>3 DEF DropBranch
  <2>4. CASE UNCHANGED ref
    BY <1>3, <2>4
  <2> QED BY <1>6, <2>1, <2>2, <2>3, <2>4
          DEF UndoStep, StartDiscard, StartRevert, LeaveBranch, SaveDiscarded, SwitchToRevert, SaveUndoing,
              PushRevert, SaveUndone, SaveStillApproved, repo
<1>7. CASE UserStep
  <2>1. CASE UserCommits
    <3>1. ref'[Main] = Append(ref[Main], Other(others))
      BY <2>1 DEF UserCommits, Keep
    <3> QED BY <3>1, ChangeFields, PrefixGrows, OthersKept
  <2>2. CASE UserPulls
    BY <2>2, OthersKept DEF UserPulls, Keep
  <2>3. CASE UserSwitches
    BY <1>3, <2>3 DEF UserSwitches
  <2> QED BY <1>7, <2>1, <2>2, <2>3 DEF UserStep
<1>8. CASE OthersPush \/ CommandRaises(p) \/ Crash(p)
  BY <1>3, <1>8 DEF OthersPush, CommandRaises, Crash, repo
<1> QED BY <1>1, <1>4, <1>5, <1>6, <1>7, <1>8 DEF Next, AgentStep

(* No operation, failed or not, loses a commit people made on local main, as
   long as the coding CLI stays on the branch it was given: the rollback of a
   run resets whatever branch HEAD is on (agent.py:398). *)
THEOREM LocalMainIsKept ==
  ASSUME OneAgent, KeepsToBranch
  PROVE  Spec => LocalMainKeepsOthersWork
<1>1. (Inv /\ CloneInv) /\ [Next]_vars => [KeepsOthers(ref[Main], ref'[Main])]_vars
  BY LocalMainStep
<1>2. Spec => [][KeepsOthers(ref[Main], ref'[Main])]_vars
  BY <1>1, CloneIsKept, PTL DEF Spec
<1> QED BY <1>2 DEF LocalMainKeepsOthersWork, KeepsOthers

=============================================================================
