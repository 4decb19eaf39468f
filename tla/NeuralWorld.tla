---------------------------- MODULE NeuralWorld ----------------------------
(***************************************************************************)
(* The neural world: nodes for what runs on the machine, found by          *)
(* NeuralDiscovery, kept in NeuralWorld and in world.json, and shown by    *)
(* the page, which polls snapshots (neural_mesh.py).                       *)
(*                                                                         *)
(* The page notes that it polled when a snapshot arrives, and the bridge   *)
(* that it discovered when a discovery has ended.  While one takes long,   *)
(* polls that begin later find it still due: several threads run it at     *)
(* once, each with its own listing, and answers arrive in any order.       *)
(***************************************************************************)
EXTENDS Naturals

CONSTANTS
  Things,       \* processes, applications, pages, accounts or services
  Polls,        \* snapshots the page may have asked for at once
  MaxRestarts   \* bound on the ends of the program

ASSUME RestartsAssumption == MaxRestarts \in Nat

VARIABLES
  alive,     \* what runs on the machine
  node,      \* NeuralWorld._entities: "none", "shown" or "retired"
  seen,      \* NeuralDiscovery._seen_processes
  due,       \* 8 seconds have passed since _last_discovery
  poll,      \* what the thread of each request is doing
  page,      \* S.nodes: what the page shows
  saved,     \* world.json
  restarts   \* ends of the program so far

machine == <<alive, due>>
nvars == <<machine, node, seen, poll, page, saved, restarts>>

NodeStates == {"none", "shown", "retired"}

NoPoll == [step |-> "idle", listing |-> {}, todo |-> {}]
AtStep(p, step) == poll[p].step = step

NTypeOK ==
  /\ alive \subseteq Things /\ seen \subseteq Things /\ page \subseteq Things
  /\ due \in BOOLEAN /\ restarts \in 0..MaxRestarts
  /\ node \in [Things -> NodeStates] /\ saved \in [Things -> NodeStates]
  /\ poll \in [Polls -> [step : {"idle", "show", "retire", "look", "answer"},
                         listing : SUBSET Things, todo : SUBSET Things]]

-----------------------------------------------------------------------------
(* neural_world_snapshot, up to the listing that a discovery starts with. *)
Listed(p) == poll' = [poll EXCEPT ![p] = [step |-> "show", listing |-> alive, todo |-> alive]]

BeginPoll(p) ==
  /\ AtStep(p, "idle")
  /\ IF due THEN Listed(p) ELSE poll' = [poll EXCEPT ![p].step = "look"]
  /\ UNCHANGED <<machine, node, seen, page, saved, restarts>>

(* Every listed thing is upserted, also one that was retired; WantedNew:  *)
(* only those not seen before.                                            *)
WantedNew(listing) == listing \ seen
Wanted(listing) == listing

Show(p, t) ==
  /\ AtStep(p, "show") /\ t \in poll[p].todo \cap Wanted(poll[p].listing)
  /\ node' = [node EXCEPT ![t] = "shown"]
  /\ poll' = [poll EXCEPT ![p].todo = @ \ {t}]
  /\ UNCHANGED <<machine, seen, page, saved, restarts>>

(* The stale ones are computed once, from what was seen last. *)
Compare(p) ==
  /\ AtStep(p, "show") /\ poll[p].todo \cap Wanted(poll[p].listing) = {}
  /\ poll' = [poll EXCEPT ![p].step = "retire", ![p].todo = seen \ poll[p].listing]
  /\ UNCHANGED <<machine, node, seen, page, saved, restarts>>

Retire(p, t) ==
  /\ AtStep(p, "retire") /\ t \in poll[p].todo
  /\ node' = [node EXCEPT ![t] = IF @ = "none" THEN "none" ELSE "retired"]
  /\ poll' = [poll EXCEPT ![p].todo = @ \ {t}]
  /\ UNCHANGED <<machine, seen, page, saved, restarts>>

EndSync(p) ==
  /\ AtStep(p, "retire") /\ poll[p].todo = {}
  /\ seen' = poll[p].listing /\ due' = FALSE
  /\ poll' = [poll EXCEPT ![p] = [NoPoll EXCEPT !.step = "look"]]
  /\ UNCHANGED <<alive, node, page, saved, restarts>>

SyncStep(p) ==
  \/ Compare(p) \/ EndSync(p)
  \/ \E t \in Things : Show(p, t) \/ Retire(p, t)

(* NeuralWorld.snapshot *)
Visible == {t \in Things : node[t] = "shown"}

Look(p) ==
  /\ AtStep(p, "look")
  /\ poll' = [poll EXCEPT ![p] = [NoPoll EXCEPT !.step = "answer", !.listing = Visible]]
  /\ UNCHANGED <<machine, node, seen, page, saved, restarts>>

(* pollSnapshot, once it has the answer. *)
Receive(p) ==
  /\ AtStep(p, "answer")
  /\ page' = poll[p].listing
  /\ poll' = [poll EXCEPT ![p] = NoPoll]
  /\ UNCHANGED <<machine, node, seen, saved, restarts>>

PollStep(p) == BeginPoll(p) \/ SyncStep(p) \/ Look(p) \/ Receive(p)

-----------------------------------------------------------------------------
(* The environment *)

BecomeDue ==
  /\ ~due /\ due' = TRUE
  /\ UNCHANGED <<alive, node, seen, poll, page, saved, restarts>>

Changes(t) ==
  /\ alive' = IF t \in alive THEN alive \ {t} ELSE alive \cup {t}
  /\ UNCHANGED <<due, node, seen, poll, page, saved, restarts>>

(* The program ends, having saved the world or not, and starts again: every *)
(* entity of the file is upserted as it was; nothing was seen yet.          *)
Save(orderly) == IF orderly THEN node ELSE saved

Restart(orderly) ==
  /\ restarts < MaxRestarts /\ restarts' = restarts + 1
  /\ saved' = Save(orderly) /\ node' = saved'
  /\ seen' = {} /\ due' = TRUE /\ page' = {}
  /\ poll' = [p \in Polls |-> NoPoll]
  /\ UNCHANGED alive

NInit ==
  /\ alive \in SUBSET Things /\ due = TRUE
  /\ node = [t \in Things |-> "none"] /\ saved = node
  /\ seen = {} /\ page = {} /\ restarts = 0
  /\ poll = [p \in Polls |-> NoPoll]

NNext ==
  \/ \E p \in Polls : PollStep(p)
  \/ BecomeDue
  \/ \E t \in Things : Changes(t)
  \/ \E orderly \in BOOLEAN : Restart(orderly)

(* The page is visible and polls, every request ends, and time passes. *)
NFair == (\A p \in Polls : WF_nvars(PollStep(p))) /\ WF_nvars(BecomeDue)

NSpec == NInit /\ [][NNext]_nvars
NFairSpec == NSpec /\ NFair

-----------------------------------------------------------------------------
(* What keeps running is shown in the end, and for good: a listing taken   *)
(* before it started may retire it, a discovery that overtook another may  *)
(* forget it, and an old answer may hide it, but only for a while          *)
(* (NeuralDiscovery.sync_extended, pollSnapshot).                          *)
RunningIsShown == \A t \in Things : <>[](t \in alive) => <>[](t \in page)

(* No run checks the following one, see the README, other disagreements.   *)
(* What has ended is hidden in the end: neural_discovery.py retires what   *)
(* is no longer listed.  A restart breaks it with one poll, two polls at   *)
(* once break it without a restart.                                        *)
EndedIsRetired == \A t \in Things : <>[](t \notin alive) => <>[](t \notin page)

=============================================================================
