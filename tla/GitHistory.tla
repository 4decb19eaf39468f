---------------------------- MODULE GitHistory ----------------------------
(***************************************************************************)
(* Git commits as the self-coding agent uses them (external: Git itself).  *)
(* A commit is named by its history, the sequence of changes from the      *)
(* root: equal histories are equal SHAs, a fast-forward is a prefix, and   *)
(* the empty sequence is "no such commit".                                 *)
(***************************************************************************)
EXTENDS Naturals, SequencesExt

CONSTANT Ids          \* goals, as the checkpoints made for them are named

Commit   == [kind : {"change", "revert", "other"}, edits : SUBSET Ids, at : Nat]
History  == Seq(Commit)
NoCommit == <<>>

Change(edits) == [kind |-> "change", edits |-> edits, at |-> 0]
RevertOf(h)   == [kind |-> "revert", edits |-> {}, at |-> Len(h)]
Other(n)      == [kind |-> "other", edits |-> {}, at |-> n]

(* Positions of the commits `to` adds to `from` that are part of h and that
   no later commit of h reverts. *)
InEffect(from, to, h) ==
  {i \in Len(from) + 1 .. Len(to) :
     /\ i <= Len(h) /\ h[i] = to[i]
     /\ \A j \in i + 1 .. Len(h) : ~(h[j].kind = "revert" /\ h[j].at = i)}

=============================================================================
