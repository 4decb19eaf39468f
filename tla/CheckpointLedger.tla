------------------------- MODULE CheckpointLedger -------------------------
(***************************************************************************)
(* What self_coding promises about a checkpoint, and nothing of how:       *)
(* one remote main that only ever grows, and a record per checkpoint whose *)
(* state never claims what main does not show.                             *)
(***************************************************************************)
EXTENDS GitHistory

VARIABLES
  main,      \* the remote's main
  entry      \* per checkpoint: its state, and the commits it spans

lvars == <<main, entry>>

LInit ==
  /\ main \in History
  /\ \A c \in Ids : entry[c] = [state |-> "absent", from |-> NoCommit, upto |-> NoCommit]

State(c)    == entry[c].state
Published(c) == IsPrefix(entry[c].upto, main)

Become(c, from, to) ==
  /\ State(c) = from
  /\ entry' = [entry EXCEPT ![c].state = to]
  /\ UNCHANGED main

(* A verified pass extends the preview; a later failure withdraws it. *)
Preview(c) ==
  /\ State(c) \in {"absent", "pending"}
  /\ State(c)' = "pending" /\ ~Published(c)'
  /\ \A d \in Ids \ {c} : entry'[d] = entry[d]
  /\ UNCHANGED main

Withdraw(c) ==
  /\ State(c) \in {"absent", "pending"}
  /\ State(c)' = "absent"
  /\ \A d \in Ids \ {c} : entry'[d] = entry[d]
  /\ UNCHANGED main

Claim(c)   == Become(c, "pending", "promoting")
Confirm(c) == Published(c) /\ Become(c, "promoting", "approved")
Release(c) == ~Published(c) /\ Become(c, "promoting", "pending")
Discard(c) == ~Published(c) /\ Become(c, "pending", "undone")

(* Promotion is a fast-forward from the baseline to the checkpoint's head. *)
Publish(c) ==
  /\ State(c) = "promoting"
  /\ main = entry[c].from /\ main' = entry[c].upto
  /\ UNCHANGED entry

ClaimUndo(c)   == Become(c, "approved", "undoing")
ReleaseUndo(c) == Become(c, "undoing", "approved")
ConfirmUndo(c) ==
  /\ InEffect(entry[c].from, entry[c].upto, main) = {}
  /\ Become(c, "undoing", "undone")

(* An undo adds reverts to the promoted commit and removes nothing. *)
Retract(c) ==
  /\ State(c) = "undoing"
  /\ main = entry[c].upto /\ IsPrefix(main, main')
  /\ InEffect(entry[c].from, entry[c].upto, main') = {}
  /\ UNCHANGED entry

OthersWork ==
  /\ Len(main') = Len(main) + 1 /\ IsPrefix(main, main')
  /\ main'[Len(main')].kind = "other"
  /\ UNCHANGED entry

LNext ==
  \/ OthersWork
  \/ \E c \in Ids :
       \/ Preview(c) \/ Withdraw(c) \/ Claim(c) \/ Publish(c) \/ Confirm(c)
       \/ Release(c) \/ Discard(c) \/ ClaimUndo(c) \/ Retract(c)
       \/ ConfirmUndo(c) \/ ReleaseUndo(c)

LSpec == LInit /\ [][LNext]_lvars

=============================================================================
