--------------------------- MODULE ServicesProofs ---------------------------
(***************************************************************************)
(* Proofs about ModelRouter, UiBuilds and Accounts, for any targets,       *)
(* threads, builds, accounts and bounds.                                   *)
(***************************************************************************)
EXTENDS MCServices, FiniteSetTheorems, SequenceTheorems, WellFoundedInduction, TLAPS

-----------------------------------------------------------------------------
(* The model router: gateways *)

Gateways == [state : {"booting", "serving", "dead"}, by : {"connection", "lifecycle"}]

GatewayTypes ==
  /\ process \in Seq(Gateways)
  /\ own \in 0..Len(process)
  /\ starter \in [Starters -> 0..Len(process)]

(* OneGatewayPerConnection is not inductive: a thread starts a gateway when its
   connection's own is dead, so no other one may be alive. *)
OnlyOwnIsAlive ==
  \A p \in Processes : Live(p) /\ process[p].by = "connection" => p = own

GatewayInv == GatewayTypes /\ OnlyOwnIsAlive

(* No gateway of the connection is alive when its own one is not. *)
LEMMA NoneAlive ==
  ASSUME GatewayInv, NeedsProcess, NEW p \in Processes, process[p].by = "connection"
  PROVE  ~Live(p)
BY DEF GatewayInv, GatewayTypes, OnlyOwnIsAlive, NeedsProcess, Processes

(* A gateway that is appended changes none of the others. *)
LEMMA AppendedGateway ==
  ASSUME GatewayTypes, NEW by \in {"connection", "lifecycle"}, Started(by)
  PROVE  /\ process' \in Seq(Gateways) /\ Len(process') = Len(process) + 1
         /\ \A p \in 1..Len(process) : process'[p] = process[p]
         /\ process'[Len(process')] = [state |-> "booting", by |-> by]
<1> DEFINE new == [state |-> "booting", by |-> by]
<1>1. new \in Gateways
  BY DEF Gateways
<1> HIDE DEF new
<1>2. process' = Append(process, new) /\ process \in Seq(Gateways)
  BY DEF Started, GatewayTypes, new
<1>3. process' \in Seq(Gateways) /\ Len(process') = Len(process) + 1
  BY <1>1, <1>2
<1>4. /\ \A p \in 1..Len(process) : process'[p] = process[p]
      /\ process'[Len(process')] = new
  BY <1>1, <1>2, <1>3
<1> QED BY <1>3, <1>4 DEF new

(* A gateway that changes its state keeps the rest. *)
LEMMA TurnedGateway ==
  ASSUME GatewayTypes, NEW p \in Processes, NEW s \in {"serving", "dead"},
         process' = [process EXCEPT ![p].state = s]
  PROVE  /\ process' \in Seq(Gateways) /\ Len(process') = Len(process)
         /\ \A q \in 1..Len(process) :
              /\ process'[q].by = process[q].by
              /\ process'[q].state = (IF q = p THEN s ELSE process[q].state)
<1>1. process \in Seq(Gateways) /\ p \in 1..Len(process)
  BY DEF GatewayTypes, Processes
<1>2. /\ DOMAIN process' = 1..Len(process)
      /\ \A q \in 1..Len(process) :
           process'[q] = IF q = p THEN [process[q] EXCEPT !.state = s] ELSE process[q]
  BY <1>1
<1>3. \A q \in 1..Len(process) : process[q] \in Gateways
  BY <1>1
<1>4. \A q \in 1..Len(process) :
        /\ process'[q] \in Gateways
        /\ process'[q].by = process[q].by
        /\ process'[q].state = (IF q = p THEN s ELSE process[q].state)
  BY <1>2, <1>3 DEF Gateways
<1>5. process' \in Seq(Gateways) /\ Len(process') = Len(process)
  BY <1>1, <1>2, <1>4
<1> QED BY <1>4, <1>5

-----------------------------------------------------------------------------
(* Steps *)

(* A step that neither starts nor ends a gateway. *)
LEMMA OthersKeep ==
  ASSUME GatewayInv, UNCHANGED <<process, own>>,
         starter' = starter \/ \E s \in Starters : starter' = [starter EXCEPT ![s] = 0]
  PROVE  GatewayInv'
<1>1. GatewayTypes'
  BY DEF GatewayInv, GatewayTypes
<1>2. OnlyOwnIsAlive'
  BY DEF GatewayInv, OnlyOwnIsAlive, Live, Processes
<1> QED BY <1>1, <1>2 DEF GatewayInv

(* A gateway boots or dies; who waited for it may leave. *)
LEMMA TurnKeeps ==
  ASSUME GatewayInv, NEW p \in Processes, NEW s \in {"serving", "dead"},
         Live(p) \/ s = "dead",
         process' = [process EXCEPT ![p].state = s], own' = own,
         starter' = starter \/ \E w \in Starters : starter' = [starter EXCEPT ![w] = 0]
  PROVE  GatewayInv'
<1>1. GatewayTypes
  BY DEF GatewayInv
<1>2. /\ process' \in Seq(Gateways) /\ Len(process') = Len(process)
      /\ \A q \in 1..Len(process) :
           /\ process'[q].by = process[q].by
           /\ process'[q].state = (IF q = p THEN s ELSE process[q].state)
  BY <1>1, TurnedGateway
<1>3. GatewayTypes'
  BY <1>1, <1>2 DEF GatewayTypes
<1>4. ASSUME NEW q \in 1..Len(process), Live(q)', process'[q].by = "connection"
      PROVE  q = own
  <2>1. Live(q)
    BY <1>2, <1>4 DEF Live
  <2> QED BY <1>2, <1>4, <2>1 DEF GatewayInv, OnlyOwnIsAlive, Processes
<1>5. OnlyOwnIsAlive'
  BY <1>2, <1>4 DEF OnlyOwnIsAlive, Processes, Live
<1> QED BY <1>3, <1>5 DEF GatewayInv

(* The connection starts a gateway, its own being dead. *)
LEMMA ConnectionStartKeeps ==
  ASSUME GatewayInv, NeedsProcess, Started("connection"), own' = Len(process'),
         starter' = starter
  PROVE  GatewayInv'
<1>1. GatewayTypes
  BY DEF GatewayInv
<1>2. /\ process' \in Seq(Gateways) /\ Len(process') = Len(process) + 1
      /\ \A p \in 1..Len(process) : process'[p] = process[p]
  BY <1>1, AppendedGateway
<1>3. GatewayTypes'
  BY <1>1, <1>2 DEF GatewayTypes
<1>4. ASSUME NEW q \in 1..Len(process), process'[q].by = "connection"
      PROVE  ~Live(q)'
  <2>1. ~Live(q)
    BY <1>2, <1>4, NoneAlive DEF Processes
  <2> QED BY <1>2, <2>1 DEF Live
<1>5. OnlyOwnIsAlive'
  BY <1>1, <1>2, <1>4 DEF OnlyOwnIsAlive, Processes, GatewayTypes
<1> QED BY <1>3, <1>5 DEF GatewayInv

(* The desktop starts a gateway. *)
LEMMA LifecycleStartKeeps ==
  ASSUME GatewayInv, NEW s \in Starters, Started("lifecycle"), own' = own,
         starter' = [starter EXCEPT ![s] = Len(process')]
  PROVE  GatewayInv'
<1>1. GatewayTypes
  BY DEF GatewayInv
<1>2. /\ process' \in Seq(Gateways) /\ Len(process') = Len(process) + 1
      /\ \A p \in 1..Len(process) : process'[p] = process[p]
      /\ process'[Len(process')] = [state |-> "booting", by |-> "lifecycle"]
  BY <1>1, AppendedGateway
<1>3. GatewayTypes'
  BY <1>1, <1>2 DEF GatewayTypes
<1>4. ASSUME NEW q \in 1..Len(process'), Live(q)', process'[q].by = "connection"
      PROVE  q = own
  <2>1. q \in 1..Len(process)
    BY <1>1, <1>2, <1>4 DEF GatewayTypes
  <2>2. Live(q)
    BY <1>2, <1>4, <2>1 DEF Live
  <2> QED BY <1>2, <1>4, <2>1, <2>2 DEF GatewayInv, OnlyOwnIsAlive, Processes
<1>5. OnlyOwnIsAlive'
  BY <1>4 DEF OnlyOwnIsAlive, Processes, Live
<1> QED BY <1>3, <1>5 DEF GatewayInv

LEMMA GatewayInvInitially == MInit => GatewayInv
<1> SUFFICES ASSUME MInit PROVE GatewayInv
  OBVIOUS
<1>1. process = << >> /\ own = 0 /\ starter = [s \in Starters |-> 0]
  BY DEF MInit
<1>2. GatewayTypes
  BY <1>1 DEF GatewayTypes
<1>3. OnlyOwnIsAlive
  BY <1>1 DEF OnlyOwnIsAlive, Processes
<1> QED BY <1>2, <1>3 DEF GatewayInv

(* One step per action of MNext. *)
LEMMA GatewayInvKept == GatewayInv /\ [MNext]_mvars => GatewayInv'
<1> SUFFICES ASSUME GatewayInv, [MNext]_mvars PROVE GatewayInv'
  OBVIOUS
<1>1. ASSUME NEW w \in Workers, TakeRequest(w) PROVE GatewayInv'
  BY <1>1, OthersKeep DEF TakeRequest, connection, starting
<1>2. ASSUME NEW w \in Workers, PickTarget(w) PROVE GatewayInv'
  BY <1>2, OthersKeep DEF PickTarget, connection, starting
<1>3. ASSUME NEW w \in Workers, Post(w) PROVE GatewayInv'
  BY <1>3, OthersKeep DEF Post, connection, starting
<1>4. ASSUME NEW w \in Workers, ProbeReady(w) PROVE GatewayInv'
  BY <1>4, OthersKeep DEF ProbeReady, connection, starting
<1>5. ASSUME NEW w \in Workers, EnterLock(w) PROVE GatewayInv'
  BY <1>5, OthersKeep DEF EnterLock, starting
<1>6. ASSUME NEW w \in Workers, Wait(w) PROVE GatewayInv'
  BY <1>6, OthersKeep DEF Wait, starting
<1>7. ASSUME NEW w \in Workers, StartGateway(w) PROVE GatewayInv'
  <2>1. starter' = starter
    BY <1>7 DEF StartGateway, starting
  <2>2. CASE NeedsProcess /\ Started("connection") /\ own' = Len(process')
    BY <2>1, <2>2, ConnectionStartKeeps
  <2>3. CASE NeedsProcess /\ own' = 0 /\ UNCHANGED process
    <3>1. GatewayTypes'
      BY <2>1, <2>3 DEF GatewayInv, GatewayTypes
    <3>2. OnlyOwnIsAlive'
      BY <2>3, NoneAlive DEF OnlyOwnIsAlive, Processes, Live
    <3> QED BY <3>1, <3>2 DEF GatewayInv
  <2>4. CASE UNCHANGED <<own, process>>
    BY <2>1, <2>4, OthersKeep
  <2> QED BY <1>7, <2>2, <2>3, <2>4 DEF StartGateway
<1>8. ASSUME NEW s \in Starters, EnsureOnce(s) PROVE GatewayInv'
  <2>1. own' = own
    BY <1>8 DEF EnsureOnce, connection
  <2>2. CASE UNCHANGED <<starter, process>>
    BY <2>1, <2>2, OthersKeep
  <2>3. CASE Started("lifecycle") /\ starter' = [starter EXCEPT ![s] = Len(process')]
    BY <2>1, <2>3, LifecycleStartKeeps
  <2> QED BY <1>8, <2>2, <2>3 DEF EnsureOnce
<1>9. ASSUME NEW s \in Starters, AwaitStart(s) PROVE GatewayInv'
  <2>1. own' = own /\ starter' = [starter EXCEPT ![s] = 0]
    BY <1>9 DEF AwaitStart, connection
  <2>2. CASE UNCHANGED process
    BY <2>1, <2>2, OthersKeep
  <2>3. CASE process' = [process EXCEPT ![starter[s]].state = "dead"]
    <3>1. starter[s] \in Processes
      BY <1>9 DEF AwaitStart, GatewayInv, GatewayTypes, Processes
    <3> QED BY <2>1, <2>3, <3>1, TurnKeeps
  <2> QED BY <1>9, <2>2, <2>3 DEF AwaitStart
<1>10. ASSUME NEW p \in Processes, Boots(p) PROVE GatewayInv'
  <2> DEFINE next == IF Serving THEN "dead" ELSE "serving"
  <2>1. next \in {"serving", "dead"} /\ Live(p)
    BY <1>10 DEF Boots, Live
  <2>2. process' = [process EXCEPT ![p].state = next] /\ own' = own /\ starter' = starter
    BY <1>10 DEF Boots, connection, starting
  <2> HIDE DEF next
  <2> QED BY <2>1, <2>2, TurnKeeps
<1>11. ASSUME NEW p \in Processes, Dies(p) PROVE GatewayInv'
  BY <1>11, TurnKeeps DEF Dies, connection, starting
<1>12. ASSUME NEW t \in Targets, Expire(t) PROVE GatewayInv'
  BY <1>12, OthersKeep DEF Expire, connection, starting
<1>13. CASE UNCHANGED mvars
  BY <1>13, OthersKeep DEF mvars, connection, starting
<1>14. ASSUME NEW w \in Workers, Escapes(w) PROVE GatewayInv'
  BY <1>14, OthersKeep DEF Escapes, connection, starting
<1> QED
  BY <1>1, <1>2, <1>3, <1>4, <1>5, <1>6, <1>7, <1>8, <1>9, <1>10, <1>11, <1>12, <1>13, <1>14
  DEF MNext, WorkerStep

(* The connection never has two gateways alive, for any number of threads,
   starters, targets and processes: the own one is the only one, and ensure_ready
   starts another only when it is dead (omniroute.py:123). *)
THEOREM OneGatewayAlways == MSpec => []OneGatewayPerConnection
<1>1. GatewayInv => OneGatewayPerConnection
  BY DEF GatewayInv, OnlyOwnIsAlive, OneGatewayPerConnection
<1> QED BY <1>1, GatewayInvInitially, GatewayInvKept, PTL DEF MSpec

-----------------------------------------------------------------------------
(* Requests *)

BatchTypes ==
  /\ worker \in [Workers -> {Resting} \cup Request]
  /\ \A w \in Workers : worker[w].pc \in CallPcs => worker[w].rest # << >>
HealthTypes ==
  /\ cooling \subseteq Targets /\ warm \subseteq Targets
  /\ strikes \in [Targets -> Nat]

(* A request tries the targets of the configuration. *)
LEMMA OrdersAreSequences == Orders \subseteq Seq(Targets)
<1>1. Config \in Seq(Targets)
  BY TargetsAssumption DEF Targets
<1>2. \A t \in Targets : \E i \in 1..Len(Config) : Config[i] = t
  BY <1>1 DEF Targets, ToSet
<1>3. IsFiniteSet(Targets)
  BY <1>1, <1>2 DEF IsFiniteSet
<1>4. Cardinality(Targets) \in Nat
  BY <1>3, FS_CardinalityType
<1>5. [1..Cardinality(Targets) -> Targets] \subseteq Seq(Targets)
  BY <1>4
<1> QED BY <1>5 DEF Orders, SetToSeqs

(* A request that does not rest is at a target, or has tried them all. *)
LEMMA RequestShape ==
  ASSUME BatchTypes, NEW w \in Workers, worker[w].pc \in CallPcs \cup {"pick"}
  PROVE  /\ worker[w] \in Request /\ worker[w].rest \in Seq(Targets)
         /\ worker[w].rest # << >> =>
              Target(w) \in Targets /\ Tail(worker[w].rest) \in Seq(Targets)
<1>1. worker[w] \in Request
  BY DEF BatchTypes, Resting, CallPcs
<1>2. worker[w].rest \in Seq(Targets)
  BY <1>1 DEF Request
<1> QED BY <1>1, <1>2, HeadTailProperties DEF Target

(* The request goes on with its target. *)
LEMMA RequestGoesOn ==
  ASSUME BatchTypes, NEW w \in Workers, worker[w].pc \in CallPcs \cup {"pick"},
         worker[w].rest # << >>, NEW pc \in CallPcs, Goes(w, pc)
  PROVE  /\ BatchTypes'
         /\ worker' = [worker EXCEPT ![w] = At(pc, worker[w].rest)]
<1>1. worker[w] \in Request
  BY RequestShape
<1>2. [worker[w] EXCEPT !.pc = pc] = At(pc, worker[w].rest)
  BY <1>1 DEF At, Request
<1>3. worker' = [worker EXCEPT ![w] = [worker[w] EXCEPT !.pc = pc]]
  BY DEF Goes
<1>4. worker' = [worker EXCEPT ![w] = At(pc, worker[w].rest)]
  BY <1>2, <1>3
<1>5. At(pc, worker[w].rest) \in Request
  BY <1>1 DEF At, Request
<1> QED BY <1>4, <1>5 DEF BatchTypes, At

(* The request leaves its target. *)
LEMMA GivesUp ==
  ASSUME BatchTypes, NEW w \in Workers, worker[w].pc \in CallPcs \cup {"pick"},
         worker[w].rest # << >>, GivesUpTarget(w)
  PROVE  /\ BatchTypes' /\ worker'[w].pc = "pick"
         /\ \A v \in Workers : v # w => worker'[v] = worker[v]
<1>1. Tail(worker[w].rest) \in Seq(Targets)
  BY RequestShape
<1>2. At("pick", Tail(worker[w].rest)) \in Request
  BY <1>1 DEF At, Request
<1>3. worker' = [worker EXCEPT ![w] = At("pick", Tail(worker[w].rest))]
  BY DEF GivesUpTarget
<1> QED BY <1>2, <1>3 DEF BatchTypes, At, CallPcs

(* The request ends, or begins. *)
LEMMA TakesOrRests ==
  ASSUME BatchTypes, NEW w \in Workers, NEW r \in {Resting} \cup Request,
         r.pc \notin CallPcs, worker' = [worker EXCEPT ![w] = r]
  PROVE  /\ BatchTypes' /\ worker'[w].pc \notin CallPcs
         /\ \A v \in Workers : v # w => worker'[v] = worker[v]
BY DEF BatchTypes

-----------------------------------------------------------------------------
(* Failures under way *)

(* The threads that have looked at the cooldown of a target and not failed yet. *)
Calling(t) == {w \in Workers : worker[w].pc \in CallPcs /\ Target(w) = t}

(* CooldownLimitsFailures is not inductive: each call under way may add a failure. *)
CallsAndStrikes ==
  \A t \in Targets :
    /\ t \notin cooling => strikes[t] = 0
    /\ Cardinality(Calling(t)) + strikes[t] <= Cardinality(Workers)

(* What a step may do to the calls C and the failures n of a target: end calls, begin
   a call or end the cooldown when no failure counts, or turn a call into a failure. *)
Moves(C, n, D, m) ==
  \/ D \subseteq C /\ m = n
  \/ m = 0
  \/ m = n + 1 /\ \E w \in C : D \subseteq C \ {w}

LEMMA MovesAreBounded ==
  ASSUME NEW C \in SUBSET Workers, NEW D \in SUBSET Workers, NEW n \in Nat, NEW m \in Nat,
         Moves(C, n, D, m), Cardinality(C) + n <= Cardinality(Workers)
  PROVE  Cardinality(D) + m <= Cardinality(Workers)
<1>1. IsFiniteSet(Workers)
  BY WorkersAssumption
<1>2. /\ IsFiniteSet(C) /\ IsFiniteSet(D)
      /\ Cardinality(D) <= Cardinality(Workers)
  BY <1>1, FS_Subset
<1>3. {Cardinality(Workers), Cardinality(C), Cardinality(D)} \subseteq Nat
  BY <1>1, <1>2, FS_CardinalityType
<1>4. CASE D \subseteq C /\ m = n
  <2>1. Cardinality(D) <= Cardinality(C)
    BY <1>2, <1>4, FS_Subset
  <2> QED BY <1>3, <1>4, <2>1
<1>5. CASE m = 0
  BY <1>2, <1>3, <1>5
<1>6. CASE m = n + 1 /\ \E w \in C : D \subseteq C \ {w}
  <2>1. PICK w \in C : D \subseteq C \ {w}
    BY <1>6
  <2>2. IsFiniteSet(C \ {w}) /\ Cardinality(C \ {w}) = Cardinality(C) - 1
    BY <1>2, FS_RemoveElement
  <2>3. Cardinality(D) <= Cardinality(C \ {w})
    BY <2>1, <2>2, FS_Subset
  <2> QED BY <1>3, <1>6, <2>2, <2>3
<1> QED BY <1>4, <1>5, <1>6 DEF Moves

-----------------------------------------------------------------------------
(* Steps of the requests *)

RequestInv == BatchTypes /\ HealthTypes /\ CallsAndStrikes

(* A step that moves every target keeps the bound. *)
LEMMA MovesKeep ==
  ASSUME RequestInv, BatchTypes', HealthTypes',
         \A t \in Targets : /\ t \notin cooling' => strikes'[t] = 0
                            /\ Moves(Calling(t), strikes[t], Calling(t)', strikes'[t])
  PROVE  RequestInv'
<1> SUFFICES ASSUME NEW t \in Targets
             PROVE  Cardinality(Calling(t)') + strikes'[t] <= Cardinality(Workers)
  BY DEF RequestInv, CallsAndStrikes
<1>1. Calling(t) \in SUBSET Workers /\ Calling(t)' \in SUBSET Workers
  BY DEF Calling
<1>2. strikes[t] \in Nat /\ strikes'[t] \in Nat
  BY DEF RequestInv, HealthTypes
<1>3. Cardinality(Calling(t)) + strikes[t] <= Cardinality(Workers)
  BY DEF RequestInv, CallsAndStrikes
<1> HIDE DEF Calling
<1> QED BY <1>1, <1>2, <1>3, MovesAreBounded

(* A thread leaves its target without a failure, or takes or ends a request. *)
LEMMA LeavingKeeps ==
  ASSUME RequestInv, BatchTypes', NEW w \in Workers, worker'[w].pc \notin CallPcs,
         \A v \in Workers : v # w => worker'[v] = worker[v],
         UNCHANGED health
  PROVE  RequestInv'
<1>1. \A t \in Targets : Calling(t)' \subseteq Calling(t)
  BY DEF Calling, Target
<1>2. HealthTypes' /\ strikes' = strikes /\ cooling' = cooling
  BY DEF RequestInv, HealthTypes, health
<1> QED BY <1>1, <1>2, MovesKeep DEF RequestInv, CallsAndStrikes, Moves

(* A call goes on. *)
LEMMA GoingKeeps ==
  ASSUME RequestInv, NEW w \in Workers, worker[w].pc \in CallPcs, NEW pc \in CallPcs,
         Goes(w, pc), UNCHANGED health
  PROVE  RequestInv'
<1>1. BatchTypes
  BY DEF RequestInv
<1>2. worker[w].rest # << >>
  BY <1>1 DEF BatchTypes
<1>3. BatchTypes' /\ worker' = [worker EXCEPT ![w] = At(pc, worker[w].rest)]
  BY <1>1, <1>2, RequestGoesOn
<1>4. \A v \in Workers : worker'[v].rest = worker[v].rest
                        /\ (worker'[v].pc \in CallPcs <=> worker[v].pc \in CallPcs)
  <2>1. w \in DOMAIN worker
    BY <1>1 DEF BatchTypes
  <2> QED BY <1>3, <2>1 DEF At, BatchTypes
<1>5. \A t \in Targets : Calling(t)' = Calling(t)
  BY <1>4 DEF Calling, Target
<1>6. HealthTypes' /\ strikes' = strikes /\ cooling' = cooling
  BY DEF RequestInv, HealthTypes, health
<1> QED BY <1>3, <1>5, <1>6, MovesKeep DEF RequestInv, CallsAndStrikes, Moves

(* A call begins: its target does not cool, so no failure counts. *)
LEMMA BeginningKeeps ==
  ASSUME RequestInv, NEW w \in Workers, worker[w].pc = "pick", worker[w].rest # << >>,
         Target(w) \notin cooling, NEW pc \in CallPcs, Goes(w, pc), UNCHANGED health
  PROVE  RequestInv'
<1>1. BatchTypes
  BY DEF RequestInv
<1>2. BatchTypes' /\ worker' = [worker EXCEPT ![w] = At(pc, worker[w].rest)]
  BY <1>1, RequestGoesOn
<1>3. HealthTypes' /\ strikes' = strikes /\ cooling' = cooling
  BY DEF RequestInv, HealthTypes, health
<1>4. \A v \in Workers : /\ worker'[v].rest = worker[v].rest
                         /\ v # w => worker'[v] = worker[v]
  <2>1. w \in DOMAIN worker
    BY <1>1 DEF BatchTypes
  <2> QED BY <1>2, <2>1 DEF At, BatchTypes
<1>5. ASSUME NEW t \in Targets PROVE Moves(Calling(t), strikes[t], Calling(t)', strikes'[t])
  <2>1. CASE t = Target(w)
    BY <1>3, <2>1 DEF RequestInv, CallsAndStrikes, Moves
  <2>2. CASE t # Target(w)
    <3>1. Calling(t)' \subseteq Calling(t)
      BY <1>4, <2>2 DEF Calling, Target
    <3> QED BY <1>3, <3>1 DEF Moves
  <2> QED BY <2>1, <2>2
<1> QED BY <1>2, <1>3, <1>5, MovesKeep DEF RequestInv, CallsAndStrikes

(* A call fails: it counts from now on, and is no longer under way. *)
LEMMA FailingKeeps ==
  ASSUME RequestInv, NEW w \in Workers, worker[w].pc \in CallPcs, Fails(w)
  PROVE  RequestInv'
<1>1. BatchTypes /\ HealthTypes
  BY DEF RequestInv
<1>2. worker[w].rest # << >>
  BY <1>1 DEF BatchTypes
<1>3. Target(w) \in Targets
  BY <1>1, <1>2, RequestShape
<1>4. /\ BatchTypes' /\ worker'[w].pc = "pick"
      /\ \A v \in Workers : v # w => worker'[v] = worker[v]
  BY <1>1, <1>2, GivesUp DEF Fails
<1>5. /\ cooling' = cooling \cup {Target(w)} /\ warm' = warm
      /\ strikes' = [strikes EXCEPT ![Target(w)] = @ + 1]
  BY DEF Fails, RecordFailure
<1>6. HealthTypes'
  BY <1>1, <1>3, <1>5 DEF HealthTypes
<1>7. ASSUME NEW t \in Targets PROVE Moves(Calling(t), strikes[t], Calling(t)', strikes'[t])
  <2>1. Calling(t)' \subseteq Calling(t) \ {w}
    BY <1>4 DEF Calling, Target, CallPcs
  <2>2. CASE t = Target(w)
    <3>1. w \in Calling(t)
      BY <2>2 DEF Calling
    <3>2. strikes'[t] = strikes[t] + 1
      BY <1>1, <1>5, <2>2 DEF HealthTypes
    <3> QED BY <2>1, <3>1, <3>2 DEF Moves
  <2>3. CASE t # Target(w)
    <3>1. strikes'[t] = strikes[t]
      BY <1>1, <1>5, <2>3 DEF HealthTypes
    <3> QED BY <2>1, <3>1 DEF Moves
  <2> QED BY <2>2, <2>3
<1>8. \A t \in Targets : t \notin cooling' => strikes'[t] = 0
  BY <1>1, <1>5 DEF HealthTypes, RequestInv, CallsAndStrikes
<1> QED BY <1>4, <1>6, <1>7, <1>8, MovesKeep

(* A call raises: it counts while the target cools, and is no longer under way. *)
LEMMA EscapingKeeps ==
  ASSUME RequestInv, NEW w \in Workers, worker[w].pc \in CallPcs, PassOver(Target(w)),
         worker' = [worker EXCEPT ![w] = Resting]
  PROVE  RequestInv'
<1>1. BatchTypes /\ HealthTypes
  BY DEF RequestInv
<1>2. worker[w].rest # << >>
  BY <1>1 DEF BatchTypes
<1>3. Target(w) \in Targets
  BY <1>1, <1>2, RequestShape
<1>4. /\ BatchTypes' /\ worker'[w].pc \notin CallPcs
      /\ \A v \in Workers : v # w => worker'[v] = worker[v]
  BY <1>1, TakesOrRests DEF Resting, CallPcs
<1>5. /\ cooling' = cooling /\ warm' = warm
      /\ strikes' = IF Target(w) \in cooling THEN [strikes EXCEPT ![Target(w)] = @ + 1] ELSE strikes
  BY DEF PassOver
<1>6. HealthTypes'
  BY <1>1, <1>3, <1>5 DEF HealthTypes
<1>7. ASSUME NEW t \in Targets PROVE Moves(Calling(t), strikes[t], Calling(t)', strikes'[t])
  <2>1. Calling(t)' \subseteq Calling(t) \ {w}
    BY <1>4 DEF Calling, Target
  <2>2. CASE t = Target(w) /\ t \in cooling
    <3>1. w \in Calling(t)
      BY <2>2 DEF Calling
    <3>2. strikes'[t] = strikes[t] + 1
      BY <1>1, <1>5, <2>2 DEF HealthTypes
    <3> QED BY <2>1, <3>1, <3>2 DEF Moves
  <2>3. CASE t # Target(w) \/ t \notin cooling
    <3>1. strikes'[t] = strikes[t]
      BY <1>1, <1>5, <2>3 DEF HealthTypes
    <3> QED BY <2>1, <3>1 DEF Moves
  <2> QED BY <2>2, <2>3
<1>8. \A t \in Targets : t \notin cooling' => strikes'[t] = 0
  BY <1>1, <1>5 DEF HealthTypes, RequestInv, CallsAndStrikes
<1> QED BY <1>4, <1>6, <1>7, <1>8, MovesKeep

(* A cooldown ends, by a success that ends the request w, or as time passes. *)
LEMMA ForgettingKeeps ==
  ASSUME RequestInv, BatchTypes', NEW t \in Targets,
         cooling' = cooling \ {t}, strikes' = [strikes EXCEPT ![t] = 0], warm' \subseteq Targets,
         \A v \in Workers : worker'[v] = worker[v] \/ worker'[v].pc \notin CallPcs
  PROVE  RequestInv'
<1>1. HealthTypes'
  BY DEF RequestInv, HealthTypes
<1>2. ASSUME NEW u \in Targets
      PROVE  /\ u \notin cooling' => strikes'[u] = 0
             /\ Moves(Calling(u), strikes[u], Calling(u)', strikes'[u])
  <2>1. Calling(u)' \subseteq Calling(u)
    BY DEF Calling, Target
  <2>2. strikes'[u] = IF u = t THEN 0 ELSE strikes[u]
    BY DEF RequestInv, HealthTypes
  <2> QED BY <2>1, <2>2 DEF Moves, RequestInv, CallsAndStrikes
<1> QED BY <1>1, <1>2, MovesKeep

LEMMA RequestInvInitially == MInit => RequestInv
<1> SUFFICES ASSUME MInit PROVE RequestInv
  OBVIOUS
<1>1. /\ worker = [w \in Workers |-> Resting] /\ cooling = {} /\ warm = {}
      /\ strikes = [t \in Targets |-> 0]
  BY DEF MInit
<1>2. BatchTypes
  BY <1>1 DEF BatchTypes, Resting, CallPcs
<1>3. HealthTypes
  BY <1>1 DEF HealthTypes
<1>4. \A t \in Targets : Calling(t) = {}
  BY <1>1 DEF Calling, Resting, CallPcs
<1>5. IsFiniteSet(Workers) /\ Cardinality(Workers) \in Nat /\ Cardinality({}) = 0
  BY WorkersAssumption, FS_CardinalityType, FS_EmptySet
<1>6. CallsAndStrikes
  BY <1>1, <1>4, <1>5 DEF CallsAndStrikes
<1> QED BY <1>2, <1>3, <1>6 DEF RequestInv

(* One step per action of MNext. *)
LEMMA RequestInvKept == RequestInv /\ [MNext]_mvars => RequestInv'
<1> SUFFICES ASSUME RequestInv, [MNext]_mvars PROVE RequestInv'
  OBVIOUS
<1>0. BatchTypes /\ HealthTypes
  BY DEF RequestInv
<1>1. ASSUME NEW w \in Workers, TakeRequest(w) PROVE RequestInv'
  <2>1. PICK order \in Orders : worker' = [worker EXCEPT ![w] = At("pick", order)]
    BY <1>1 DEF TakeRequest
  <2>2. At("pick", order) \in Request /\ At("pick", order).pc \notin CallPcs
    BY <2>1, OrdersAreSequences DEF At, Request, CallPcs
  <2>3. /\ BatchTypes' /\ worker'[w].pc \notin CallPcs
        /\ \A v \in Workers : v # w => worker'[v] = worker[v]
    BY <1>0, <2>1, <2>2, TakesOrRests
  <2> QED BY <1>1, <2>3, LeavingKeeps DEF TakeRequest
<1>2. ASSUME NEW w \in Workers, PickTarget(w) PROVE RequestInv'
  <2>1. worker[w].pc = "pick" /\ UNCHANGED health
    BY <1>2 DEF PickTarget
  <2>2. CASE worker[w].rest = << >> /\ worker' = [worker EXCEPT ![w] = Resting]
    <3>1. /\ BatchTypes' /\ worker'[w].pc \notin CallPcs
          /\ \A v \in Workers : v # w => worker'[v] = worker[v]
      BY <1>0, <2>2, TakesOrRests DEF Resting, CallPcs
    <3> QED BY <2>1, <3>1, LeavingKeeps
  <2>3. CASE worker[w].rest # << >> /\ GivesUpTarget(w)
    <3>1. /\ BatchTypes' /\ worker'[w].pc = "pick"
          /\ \A v \in Workers : v # w => worker'[v] = worker[v]
      BY <1>0, <2>1, <2>3, GivesUp
    <3> QED BY <2>1, <3>1, LeavingKeeps DEF CallPcs
  <2>4. CASE /\ worker[w].rest # << >> /\ ~Skips(Target(w))
             /\ Goes(w, IF Target(w) = Gateway THEN "probe" ELSE "post")
    <3> DEFINE pc == IF Target(w) = Gateway THEN "probe" ELSE "post"
    <3>1. pc \in CallPcs
      BY DEF CallPcs
    <3>2. Goes(w, pc)
      BY <2>4
    <3> HIDE DEF pc
    <3> QED BY <2>1, <2>4, <3>1, <3>2, BeginningKeeps DEF Skips
  <2> QED BY <1>2, <2>2, <2>3, <2>4 DEF PickTarget
<1>3. ASSUME NEW w \in Workers, Post(w) PROVE RequestInv'
  <2>1. worker[w].pc \in CallPcs
    BY <1>3 DEF Post, CallPcs
  <2>2. worker[w].rest # << >>
    BY <1>0, <2>1 DEF BatchTypes
  <2>3. CASE GivesUpTarget(w) /\ UNCHANGED health
    <3>1. /\ BatchTypes' /\ worker'[w].pc = "pick"
          /\ \A v \in Workers : v # w => worker'[v] = worker[v]
      BY <1>0, <2>1, <2>2, <2>3, GivesUp
    <3> QED BY <2>3, <3>1, LeavingKeeps DEF CallPcs
  <2>4. CASE RecordSuccess(Target(w)) /\ worker' = [worker EXCEPT ![w] = Resting]
    <3>1. /\ BatchTypes' /\ worker'[w].pc \notin CallPcs
          /\ \A v \in Workers : v # w => worker'[v] = worker[v]
      BY <1>0, <2>4, TakesOrRests DEF Resting, CallPcs
    <3>2. Target(w) \in Targets
      BY <1>0, <2>1, <2>2, RequestShape
    <3>3. /\ cooling' = cooling \ {Target(w)} /\ warm' \subseteq Targets
          /\ strikes' = [strikes EXCEPT ![Target(w)] = 0]
      BY <1>0, <2>4, <3>2 DEF RecordSuccess, HealthTypes
    <3>4. \A v \in Workers : worker'[v] = worker[v] \/ worker'[v].pc \notin CallPcs
      BY <3>1
    <3> QED BY <3>1, <3>2, <3>3, <3>4, ForgettingKeeps
  <2>5. CASE Fails(w)
    BY <2>1, <2>5, FailingKeeps
  <2> QED BY <1>3, <2>3, <2>4, <2>5 DEF Post
<1>4. ASSUME NEW w \in Workers, ProbeReady(w) PROVE RequestInv'
  <2>1. worker[w].pc \in CallPcs /\ UNCHANGED health
    BY <1>4 DEF ProbeReady, CallPcs
  <2>2. PICK answered \in BOOLEAN : Goes(w, IF ready /\ answered THEN "post" ELSE "locked")
    BY <1>4 DEF ProbeReady
  <2>3. Goes(w, "post") \/ Goes(w, "locked")
    BY <2>2
  <2> QED BY <2>1, <2>3, GoingKeeps DEF CallPcs
<1>5. ASSUME NEW w \in Workers, EnterLock(w) PROVE RequestInv'
  <2>1. worker[w].pc \in CallPcs /\ UNCHANGED health
    BY <1>5 DEF EnterLock, CallPcs
  <2>2. Goes(w, "post") \/ Goes(w, "start")
    BY <1>5 DEF EnterLock
  <2> QED BY <2>1, <2>2, GoingKeeps DEF CallPcs
<1>6. ASSUME NEW w \in Workers, Wait(w) PROVE RequestInv'
  <2>1. worker[w].pc \in CallPcs /\ (Fails(w) \/ (Goes(w, "post") /\ UNCHANGED health))
    BY <1>6 DEF Wait, CallPcs
  <2> QED BY <2>1, GoingKeeps, FailingKeeps DEF CallPcs
<1>7. ASSUME NEW w \in Workers, StartGateway(w) PROVE RequestInv'
  <2>1. worker[w].pc \in CallPcs /\ (Fails(w) \/ (Goes(w, "waiting") /\ UNCHANGED health))
    BY <1>7 DEF StartGateway, CallPcs
  <2> QED BY <2>1, GoingKeeps, FailingKeeps DEF CallPcs
<1>8. ASSUME NEW t \in Targets, Expire(t) PROVE RequestInv'
  <2>1. /\ worker' = worker /\ warm' = warm /\ cooling' = cooling \ {t}
        /\ strikes' = [strikes EXCEPT ![t] = 0]
    BY <1>8 DEF Expire, batch
  <2>2. BatchTypes' /\ warm' \subseteq Targets
    BY <1>0, <2>1 DEF BatchTypes, HealthTypes
  <2> QED BY <2>1, <2>2, ForgettingKeeps
<1>9. CASE UNCHANGED <<worker, health>>
  <2>1. UNCHANGED <<worker, cooling, warm, strikes>>
    BY <1>9 DEF health
  <2>2. BatchTypes' /\ HealthTypes' /\ CallsAndStrikes'
    BY <2>1 DEF RequestInv, BatchTypes, HealthTypes, CallsAndStrikes, Calling, Target
  <2> QED BY <2>2 DEF RequestInv
<1>10. ASSUME NEW s \in Starters, EnsureOnce(s) \/ AwaitStart(s) PROVE RequestInv'
  BY <1>9, <1>10 DEF EnsureOnce, AwaitStart, batch
<1>11. ASSUME NEW p \in Processes, Boots(p) \/ Dies(p) PROVE RequestInv'
  BY <1>9, <1>11 DEF Boots, Dies, batch
<1>12. CASE UNCHANGED mvars
  BY <1>9, <1>12 DEF mvars, batch
<1>13. ASSUME NEW w \in Workers, Escapes(w) PROVE RequestInv'
  BY <1>13, EscapingKeeps DEF Escapes, CallPcs
<1> QED
  BY <1>1, <1>2, <1>3, <1>4, <1>5, <1>6, <1>7, <1>8, <1>10, <1>11, <1>12, <1>13 DEF MNext, WorkerStep

(* While a target cools no more failures are added, recorded or not, than threads
   were in a call to it, for any number of threads, requests and targets (router.py:225): the calls
   under way and the failures counted are together at most the threads. *)
THEOREM CooldownLimits == MSpec => []CooldownLimitsFailures
<1>1. RequestInv => CooldownLimitsFailures
  <2> SUFFICES ASSUME RequestInv, NEW t \in Targets
               PROVE  strikes[t] <= Cardinality(Workers)
    BY DEF CooldownLimitsFailures
  <2>1. /\ Calling(t) \in SUBSET Workers /\ strikes[t] \in Nat
        /\ Cardinality(Calling(t)) + strikes[t] <= Cardinality(Workers)
    BY DEF RequestInv, HealthTypes, CallsAndStrikes, Calling
  <2>2. Cardinality(Calling(t)) \in Nat /\ Cardinality(Workers) \in Nat
    BY <2>1, WorkersAssumption, FS_Subset, FS_CardinalityType
  <2> QED BY <2>1, <2>2
<1> QED BY <1>1, RequestInvInitially, RequestInvKept, PTL DEF MSpec

-----------------------------------------------------------------------------
(* Types *)

PlainTypes ==
  /\ left \in 0..MaxRequests /\ Len(process) <= MaxProcesses
  /\ ready \in BOOLEAN /\ latch \in BOOLEAN /\ haveKeys \in BOOLEAN

RouterInv == RequestInv /\ GatewayInv /\ PlainTypes

LEMMA RouterInvInitially == MInit => RouterInv
<1> SUFFICES ASSUME MInit PROVE PlainTypes
  BY RequestInvInitially, GatewayInvInitially DEF RouterInv
<1>1. MaxRequests \in Nat /\ MaxProcesses \in Nat
  BY RouterBoundsAssumption
<1>2. left \in 0..MaxRequests /\ Len(process) <= MaxProcesses
  BY <1>1 DEF MInit
<1>3. haveKeys \in BOOLEAN
  BY KeyAssumption DEF MInit
<1> QED BY <1>2, <1>3 DEF MInit, PlainTypes

(* The number of gateways grows only where there is room. *)
LEMMA ProcessesWithinBound ==
  ASSUME RouterInv, [MNext]_mvars
  PROVE  Len(process') <= MaxProcesses
<1>1. GatewayTypes /\ Len(process) <= MaxProcesses /\ MaxProcesses \in Nat
  BY RouterBoundsAssumption DEF RouterInv, GatewayInv, PlainTypes
<1>2. CASE process' = process
  BY <1>1, <1>2
<1>3. ASSUME NEW by \in {"connection", "lifecycle"}, Started(by), CanStart
      PROVE  Len(process') <= MaxProcesses
  <2>1. Len(process') = Len(process) + 1
    BY <1>1, <1>3, AppendedGateway
  <2> QED BY <1>1, <1>3, <2>1 DEF CanStart, GatewayTypes
<1>4. ASSUME NEW p \in Processes, NEW s \in {"serving", "dead"},
             process' = [process EXCEPT ![p].state = s]
      PROVE  Len(process') <= MaxProcesses
  BY <1>1, <1>4, TurnedGateway
<1>5. ASSUME NEW w \in Workers, WorkerStep(w) PROVE Len(process') <= MaxProcesses
  <2>1. process' = process \/ (Started("connection") /\ CanStart)
    BY <1>5 DEF WorkerStep, TakeRequest, PickTarget, Post, ProbeReady, EnterLock, StartGateway, Wait
  <2> QED BY <1>2, <1>3, <2>1
<1>6. ASSUME NEW s \in Starters, EnsureOnce(s) PROVE Len(process') <= MaxProcesses
  BY <1>2, <1>3, <1>6 DEF EnsureOnce
<1>7. ASSUME NEW s \in Starters, AwaitStart(s) PROVE Len(process') <= MaxProcesses
  <2>1. starter[s] \in Processes
    BY <1>1, <1>7 DEF AwaitStart, GatewayTypes, Processes
  <2>2. process' = process \/ process' = [process EXCEPT ![starter[s]].state = "dead"]
    BY <1>7 DEF AwaitStart
  <2> QED BY <1>2, <1>4, <2>1, <2>2
<1>8. ASSUME NEW p \in Processes, Boots(p) PROVE Len(process') <= MaxProcesses
  <2>1. \/ process' = [process EXCEPT ![p].state = "dead"]
        \/ process' = [process EXCEPT ![p].state = "serving"]
    BY <1>8 DEF Boots
  <2> QED BY <1>4, <2>1
<1>9. ASSUME NEW p \in Processes, Dies(p) PROVE Len(process') <= MaxProcesses
  BY <1>4, <1>9 DEF Dies
<1>10. ASSUME NEW t \in Targets, Expire(t) PROVE Len(process') <= MaxProcesses
  BY <1>2, <1>10 DEF Expire
<1>11. CASE UNCHANGED mvars
  BY <1>2, <1>11 DEF mvars
<1>12. ASSUME NEW w \in Workers, Escapes(w) PROVE Len(process') <= MaxProcesses
  BY <1>2, <1>12 DEF Escapes
<1> QED BY <1>5, <1>6, <1>7, <1>8, <1>9, <1>10, <1>11, <1>12 DEF MNext

LEMMA RouterInvKept == RouterInv /\ [MNext]_mvars => RouterInv'
<1> SUFFICES ASSUME RouterInv, [MNext]_mvars PROVE RouterInv'
  OBVIOUS
<1>1. RequestInv' /\ GatewayInv'
  BY RequestInvKept, GatewayInvKept DEF RouterInv
<1>2. Len(process') <= MaxProcesses
  BY ProcessesWithinBound
<1>3. left \in 0..MaxRequests /\ MaxRequests \in Nat
  BY RouterBoundsAssumption DEF RouterInv, PlainTypes
<1>4. left' = left \/ (left > 0 /\ left' = left - 1)
  BY DEF MNext, WorkerStep, TakeRequest, PickTarget, Post, Escapes, ProbeReady, EnterLock, StartGateway,
     Wait, EnsureOnce, AwaitStart, Boots, Dies, Expire, batch, mvars
<1>5. left' \in 0..MaxRequests
  BY <1>3, <1>4
<1>6. (ready' = ready \/ ready' = TRUE) /\ (latch' = latch \/ latch' = TRUE) /\ haveKeys' = haveKeys
  BY DEF MNext, WorkerStep, TakeRequest, PickTarget, Post, Escapes, ProbeReady, EnterLock, StartGateway,
     Wait, EnsureOnce, AwaitStart, Boots, Dies, Expire, connection, starting, mvars
<1>7. PlainTypes'
  BY <1>2, <1>5, <1>6 DEF RouterInv, PlainTypes
<1> QED BY <1>1, <1>7 DEF RouterInv

LEMMA RouterTypesAre == RouterInv => MTypeOK
BY DEF RouterInv, RequestInv, GatewayInv, PlainTypes, BatchTypes, HealthTypes, GatewayTypes,
   Gateways, MTypeOK

(* Every variable keeps its type; a thread in a call has a target. *)
THEOREM RouterTypes == MSpec => []MTypeOK
BY RouterTypesAre, RouterInvInitially, RouterInvKept, PTL DEF MSpec

-----------------------------------------------------------------------------
(* UI builds *)

OneClient == \A c, d \in Clients : c = d

BuildFields == {"manifest", "assets"}
WriteFields == {"step", "build", "manifest", "assets"}

DirTypes ==
  /\ DOMAIN dir = Builds /\ \A b \in Builds : DOMAIN dir[b] = BuildFields

WritingTypes ==
  /\ writing.step \in {"none", "manifest", "assets", "remove"} /\ (writing.step = "none" <=> Free)
  /\ writing.step \in {"manifest", "assets"} =>
       /\ DOMAIN writing = WriteFields /\ writing.build \in Builds /\ writing.manifest # NoManifest
  /\ writing.step = "remove" => writing.build \in UserBuilds /\ writing.build # active

(* While the application is up its built-in builds and the active one can be read. *)
UpIsReadable == app = "up" => Readable(active) /\ \A b \in Builtins : Readable(b)

(* What the activity of the page is about to display is active; between two of
   them the page displays the active build or the base interface. *)
PageInv ==
  /\ DOMAIN client = Clients
  /\ \A c \in Clients :
       /\ client[c].pc \in {"idle", "hydrate", "apply", "rollback", "fallback"}
       /\ client[c].pc \in {"apply", "rollback", "fallback"} => DOMAIN client[c] = {"pc", "payload"}
       /\ client[c].pc \in {"apply", "fallback"} => client[c].payload.build = active
       /\ client[c].pc \in {"hydrate", "rollback"} => shown = Base
       /\ client[c].pc = "idle" => shown \in {Base, active}
       /\ app # "up" => client[c].pc = "idle"
  /\ IF app = "up" THEN Clients # {} ELSE shown = Base

BuildInv == DirTypes /\ WritingTypes /\ UpIsReadable /\ PageInv

LEMMA BuildsStart == ASSUME UInit PROVE BuildInv
<1>1. Free /\ writing.step = "none" /\ app = "down" /\ shown = Base
  BY DEF UInit, Free, Nothing
<1>2. DOMAIN client = Clients /\ \A c \in Clients : client[c].pc = "idle"
  BY DEF UInit, Idle
<1>3. DirTypes
  BY DEF UInit, DirTypes, BuildFields
<1> QED BY <1>1, <1>2, <1>3 DEF BuildInv, WritingTypes, UpIsReadable, PageInv

(* The store gives up the active build only for one that can be read. *)
LEMMA ActiveStaysReadable ==
  ASSUME BuildInv, app = "up", Heal \/ Rollback \/ \E b \in Builds : Readable(b) /\ active' = b
  PROVE  Readable(active') /\ (Heal => active' = active)
<1>1. Readable(active) /\ Readable(Default)
  BY DefaultAssumption DEF BuildInv, UpIsReadable
<1>2. CASE Heal
  BY <1>1, <1>2 DEF Heal, state
<1>3. CASE Rollback
  BY <1>1, <1>3 DEF Rollback, WriteState, Heal, state
<1> QED BY <1>1, <1>2, <1>3 DEF Heal, state

LEMMA FilesRest ==
  ASSUME BuildInv, UNCHANGED <<dir, writing>>, active' = active \/ Free,
         app' = "up" => Readable(active') /\ \A b \in Builtins : Readable(b)
  PROVE  DirTypes' /\ WritingTypes' /\ UpIsReadable'
<1>1. DirTypes' /\ Free' = Free
  BY DEF BuildInv, DirTypes, Free
<1>2. Free => writing.step = "none"
  BY DEF Free, Nothing
<1>3. WritingTypes'
  BY <1>1, <1>2 DEF BuildInv, WritingTypes
<1>4. Readable(active)' <=> Readable(active')
  BY DEF Readable
<1>5. \A b \in Builtins : Readable(b)' <=> Readable(b)
  BY DEF Readable
<1> QED BY <1>1, <1>3, <1>4, <1>5 DEF UpIsReadable

LEMMA PageRests ==
  ASSUME BuildInv, UNCHANGED <<active, client, shown>>, app' = "up" <=> app = "up"
  PROVE  PageInv'
BY DEF BuildInv, PageInv

(* One activity of the only client. *)
LEMMA PageMoves ==
  ASSUME BuildInv, OneClient, NEW c \in Clients, NEW r, client' = [client EXCEPT ![c] = r], app' = "up",
         r.pc \in {"idle", "hydrate", "apply", "rollback", "fallback"},
         r.pc \in {"apply", "rollback", "fallback"} => DOMAIN r = {"pc", "payload"},
         r.pc \in {"apply", "fallback"} => r.payload.build = active',
         r.pc \in {"hydrate", "rollback"} => shown' = Base,
         r.pc = "idle" => shown' \in {Base, active'}
  PROVE  PageInv'
<1>1. DOMAIN client' = Clients /\ \A d \in Clients : client'[d] = r
  BY DEF BuildInv, PageInv, OneClient
<1> QED BY <1>1 DEF PageInv

LEMMA BuildInvKept == ASSUME OneClient PROVE BuildInv /\ [UNext]_uvars => BuildInv'
<1> SUFFICES ASSUME BuildInv, [UNext]_uvars PROVE BuildInv'
  OBVIOUS
<1> USE DEF state
<1>1. \A b \in Builds : DOMAIN dir[b] = BuildFields
  BY DEF BuildInv, DirTypes
<1>2. /\ DOMAIN dir = Builds /\ DOMAIN client = Clients /\ (writing.step = "none" <=> Free)
      /\ Builtins \subseteq Builds /\ UserBuilds \subseteq Builds
  BY DEF BuildInv, DirTypes, PageInv, WritingTypes, Builds
<1>3. \A c \in Clients : client[c].pc # "idle" => app = "up"
  BY DEF BuildInv, PageInv
<1>4. app = "up" => Readable(active) /\ \A b \in Builtins : Readable(b)
  BY DEF BuildInv, UpIsReadable
(* Steps of the files. *)
<1>5. ASSUME Launch \/ LoseBuild \/ Release PROVE BuildInv'
  <2>1. PageInv' /\ app' # "up" /\ UNCHANGED writing /\ UNCHANGED active
    BY <1>5, PageRests DEF Launch, LoseBuild, Release
  <2>2. DirTypes'
    BY <1>1, <1>2, <1>5 DEF Launch, LoseBuild, Release, DirTypes, BuildFields
  <2>3. WritingTypes'
    BY <2>1 DEF BuildInv, WritingTypes, Free
  <2> QED BY <2>1, <2>2, <2>3 DEF BuildInv, UpIsReadable
<1>6. ASSUME NEW b \in Builds, NEW manifest, NEW assets, manifest # NoManifest, Write(b, manifest, assets),
             UNCHANGED <<dir, state, app, client, shown>>
      PROVE  BuildInv'
  <2>1. writing'.step = "manifest" /\ DOMAIN writing' = WriteFields /\ writing'.build = b /\ writing'.manifest = manifest
    BY <1>6 DEF Write, WriteFields
  <2>2. ~Free'
    BY <2>1 DEF Free, Nothing
  <2>3. WritingTypes'
    BY <1>6, <2>1, <2>2 DEF WritingTypes
  <2>4. DirTypes' /\ UpIsReadable'
    BY <1>6 DEF BuildInv, DirTypes, UpIsReadable, Readable
  <2> QED BY <1>6, <2>3, <2>4, PageRests DEF BuildInv
<1>7. ASSUME NEW b \in Builtins, InstallBuiltin(b) PROVE BuildInv'
  <2>1. [release |-> shipped, quality |-> Floor] # NoManifest
    BY DEF NoManifest, Floor
  <2> QED BY <1>2, <1>6, <1>7, <2>1 DEF InstallBuiltin
<1>8. ASSUME NEW b \in UserBuilds, SaveBuild(b) PROVE BuildInv'
  <2>1. PICK quality \in Qualities, broken \in BOOLEAN :
          Write(b, [release |-> 0, quality |-> quality], [release |-> 0, broken |-> broken])
    BY <1>8 DEF SaveBuild
  <2>2. [release |-> 0, quality |-> quality] # NoManifest
    BY DEF NoManifest, Floor, Qualities
  <2> QED BY <1>2, <1>6, <1>8, <2>1, <2>2 DEF SaveBuild
<1>9. ASSUME NEW b \in UserBuilds, DeleteBuild(b) PROVE BuildInv'
  <2>1. writing'.step = "remove" /\ writing'.build = b /\ b # active /\ active' = active
    BY <1>9 DEF DeleteBuild, CanDelete
  <2>2. ~Free'
    BY <2>1 DEF Free, Nothing
  <2>3. WritingTypes'
    BY <2>1, <2>2 DEF WritingTypes
  <2>4. DirTypes' /\ UpIsReadable'
    BY <1>9 DEF BuildInv, DirTypes, UpIsReadable, Readable, DeleteBuild
  <2> QED BY <1>9, <2>3, <2>4, PageRests DEF BuildInv, DeleteBuild
<1>10. ASSUME FileStep PROVE BuildInv'
  <2>1. UNCHANGED <<active, client, shown>> /\ (app' = "up" <=> app = "up")
    BY <1>10 DEF FileStep, WriteManifest, WriteAssets, RemoveFiles, WriteFails
  <2>2. CASE WriteManifest
    <3>1. writing.build \in Builds /\ writing.manifest # NoManifest /\ DOMAIN writing = WriteFields
      BY <2>2 DEF WriteManifest, BuildInv, WritingTypes
    <3>2. /\ DOMAIN dir' = Builds /\ \A b \in Builds : b # writing.build => dir'[b] = dir[b]
          /\ DOMAIN dir'[writing.build] = BuildFields /\ dir'[writing.build].manifest = writing.manifest
      BY <1>1, <1>2, <2>2, <3>1 DEF WriteManifest, BuildFields
    <3>3. /\ writing'.step = "assets" /\ DOMAIN writing' = WriteFields /\ writing'.build = writing.build
          /\ writing'.manifest = writing.manifest
      BY <2>2, <3>1 DEF WriteManifest, WriteFields
    <3>4. ~Free'
      BY <3>3 DEF Free, Nothing
    <3>5. WritingTypes'
      BY <3>1, <3>3, <3>4 DEF WritingTypes
    <3>6. \A b \in Builds : Readable(b) => Readable(b)'
      BY <3>1, <3>2 DEF Readable
    <3>7. UpIsReadable'
      BY <1>2, <1>4, <2>1, <3>6 DEF UpIsReadable, Readable
    <3>8. DirTypes'
      BY <1>1, <3>2 DEF DirTypes
    <3> QED BY <2>1, <3>5, <3>7, <3>8, PageRests DEF BuildInv
  <2>3. CASE WriteAssets
    <3>1. writing.build \in Builds
      BY <2>3 DEF WriteAssets, BuildInv, WritingTypes
    <3>2. DOMAIN dir' = Builds /\ \A b \in Builds : DOMAIN dir'[b] = BuildFields /\ dir'[b].manifest = dir[b].manifest
      BY <1>1, <1>2, <2>3, <3>1 DEF WriteAssets, BuildFields
    <3>3. Free' /\ writing'.step = "none"
      BY <2>3 DEF WriteAssets, Free, Nothing
    <3>4. \A b \in Builds : Readable(b) => Readable(b)'
      BY <3>2 DEF Readable
    <3>5. UpIsReadable'
      BY <1>2, <1>4, <2>1, <3>4 DEF UpIsReadable, Readable
    <3> QED BY <2>1, <3>2, <3>3, <3>5, PageRests DEF BuildInv, WritingTypes, DirTypes
  <2>4. CASE RemoveFiles \/ WriteFails
    <3>1. Free' /\ writing'.step = "none"
      BY <2>4 DEF RemoveFiles, WriteFails, Free, Nothing
    <3>2. writing.build \in Builds /\ (writing.step = "remove" => writing.build \in UserBuilds /\ writing.build # active)
      BY <1>2, <2>4 DEF RemoveFiles, WriteFails, BuildInv, WritingTypes
    <3>3. PICK rest :
            /\ dir' = [dir EXCEPT ![writing.build] = rest] /\ DOMAIN rest = BuildFields
            /\ writing.step # "remove" => rest = dir[writing.build]
      <4>1. CASE RemoveFiles
        <5>1. dir' = [dir EXCEPT ![writing.build] = [manifest |-> NoManifest, assets |-> NoAssets]]
              /\ writing.step = "remove"
          BY <4>1 DEF RemoveFiles
        <5>2. DOMAIN [manifest |-> NoManifest, assets |-> NoAssets] = BuildFields
          BY DEF BuildFields
        <5> QED BY <5>1, <5>2
      <4>2. CASE WriteFails
        <5>1. PICK rest \in Remnants(writing.build) : dir' = [dir EXCEPT ![writing.build] = rest]
          BY <4>2 DEF WriteFails
        <5>2. DOMAIN rest = BuildFields /\ (writing.step # "remove" => rest = dir[writing.build])
          BY <1>1, <3>2, <5>1 DEF Remnants
        <5> QED BY <5>1, <5>2
      <4> QED BY <2>4, <4>1, <4>2
    <3>4. DOMAIN dir' = Builds /\ \A b \in Builds : dir'[b] = IF b = writing.build THEN rest ELSE dir[b]
      BY <1>2, <3>3
    <3>5. DirTypes'
      BY <1>1, <3>3, <3>4 DEF DirTypes
    <3>6. ASSUME NEW b \in Builds, b = active \/ b \in Builtins, Readable(b) PROVE Readable(b)'
      BY <3>2, <3>3, <3>4, <3>6, DefaultAssumption DEF Readable
    <3>7. UpIsReadable'
      BY <1>2, <1>4, <2>1, <3>6 DEF UpIsReadable, Readable
    <3> QED BY <2>1, <3>1, <3>5, <3>7, PageRests DEF BuildInv, WritingTypes
  <2> QED BY <1>10, <2>2, <2>3, <2>4 DEF FileStep
<1>11. CASE Stop
  <2>1. app' # "up" /\ shown' = Base /\ Free' /\ writing'.step = "none"
    BY <1>11 DEF Stop, Free, Nothing
  <2>2. DOMAIN client' = Clients /\ \A c \in Clients : client'[c].pc = "idle"
    BY <1>11 DEF Stop, Idle
  <2>3. DirTypes'
    <3>1. CASE UNCHANGED dir
      BY <3>1 DEF BuildInv, DirTypes
    <3>2. CASE ~Free
      <4>1. PICK rest \in Remnants(writing.build) : dir' = [dir EXCEPT ![writing.build] = rest]
        BY <1>11, <3>2 DEF Stop
      <4>2. writing.build \in Builds
        BY <1>2, <3>2 DEF BuildInv, WritingTypes
      <4>3. DOMAIN rest = BuildFields
        BY <1>1, <4>1, <4>2 DEF Remnants
      <4> QED BY <1>1, <1>2, <4>1, <4>3 DEF DirTypes
    <3> QED BY <1>11, <3>1, <3>2 DEF Stop
  <2> QED BY <2>1, <2>2, <2>3 DEF BuildInv, WritingTypes, UpIsReadable, PageInv
(* Steps of the page. *)
<1>12. CASE FinishStart
  <2>1. \A b \in Builtins : Readable(b)
    BY <1>12 DEF FinishStart, Outdated
  <2>2. Readable(active')
    BY <1>12, <2>1, DefaultAssumption DEF FinishStart, Heal, WriteState
  <2>3. DirTypes' /\ WritingTypes' /\ UpIsReadable'
    BY <1>12, <2>1, <2>2, FilesRest DEF FinishStart
  <2>4. PICK c \in Clients : client' = [client EXCEPT ![c] = [pc |-> "hydrate"]]
    BY <1>12 DEF FinishStart
  <2>5. app' = "up" /\ shown' = Base
    BY <1>12 DEF FinishStart
  <2>6. PageInv'
    <3> DEFINE r == [pc |-> "hydrate"]
    <3>1. r.pc = "hydrate"
      OBVIOUS
    <3>2. client' = [client EXCEPT ![c] = r]
      BY <2>4
    <3> HIDE DEF r
    <3> QED BY <2>5, <3>1, <3>2, PageMoves
  <2> QED BY <2>3, <2>6 DEF BuildInv
<1>13. CASE RefreshCatalog
  <2>1. app = "up" /\ active' = active /\ Readable(active')
    BY <1>13, ActiveStaysReadable DEF RefreshCatalog
  <2> QED BY <1>4, <1>13, <2>1, FilesRest, PageRests DEF RefreshCatalog, BuildInv
<1>14. ASSUME NEW c \in Clients, Hydrate(c) \/ RollBack(c) \/ \E b \in Builds : Use(c, b) PROVE BuildInv'
  <2>1. app = "up" /\ Free /\ UNCHANGED <<dir, writing, app, shown>>
    BY <1>3, <1>14 DEF Hydrate, RollBack, Use
  <2>2. PICK r : /\ client' = [client EXCEPT ![c] = r] /\ DOMAIN r = {"pc", "payload"}
                 /\ r.pc \in {"apply", "fallback"} /\ r.payload.build = active' /\ Readable(active')
    <3>1. CASE Hydrate(c)
      <4>1. client' = [client EXCEPT ![c] = [pc |-> "apply", payload |-> Payload(active')]] /\ Readable(active')
        BY <2>1, <3>1, ActiveStaysReadable DEF Hydrate
      <4> QED BY <4>1 DEF Payload
    <3>2. CASE RollBack(c)
      <4>1. client' = [client EXCEPT ![c] = [pc |-> "fallback", payload |-> Payload(active')]] /\ Readable(active')
        BY <2>1, <3>2, ActiveStaysReadable DEF RollBack
      <4> QED BY <4>1 DEF Payload
    <3>3. ASSUME NEW b \in Builds, Use(c, b)
          PROVE  \E r : /\ client' = [client EXCEPT ![c] = r] /\ DOMAIN r = {"pc", "payload"}
                        /\ r.pc \in {"apply", "fallback"} /\ r.payload.build = active' /\ Readable(active')
      <4>1. client' = [client EXCEPT ![c] = [pc |-> "apply", payload |-> Payload(b)]] /\ Readable(b) /\ active' = b
        BY <3>3 DEF Use, WriteState
      <4> QED BY <4>1 DEF Payload
    <3> QED BY <1>14, <3>1, <3>2, <3>3
  <2>3. DirTypes' /\ WritingTypes' /\ UpIsReadable'
    BY <1>4, <2>1, <2>2, FilesRest
  <2>4. PageInv'
    BY <2>1, <2>2, PageMoves
  <2> QED BY <2>3, <2>4 DEF BuildInv
<1>15. ASSUME NEW c \in Clients, Apply(c) \/ ApplyFallback(c) PROVE BuildInv'
  <2>1. app = "up" /\ UNCHANGED <<dir, state, writing, app>>
    BY <1>3, <1>15 DEF Apply, ApplyFallback
  <2>2. /\ client[c].pc \in {"apply", "fallback"} /\ client[c].payload.build = active
        /\ DOMAIN client[c] = {"pc", "payload"}
    BY <1>15 DEF Apply, ApplyFallback, BuildInv, PageInv
  <2>3. PICK r : /\ client' = [client EXCEPT ![c] = r]
                 /\ \/ r.pc = "idle" /\ shown' \in {Base, active'}
                    \/ r.pc = "rollback" /\ DOMAIN r = {"pc", "payload"} /\ shown' = Base
    <3>1. CASE client' = [client EXCEPT ![c] = Idle]
      <4>1. Shows(client[c].payload)
        BY <1>15 DEF Apply, ApplyFallback
      <4>2. shown' \in {Base, active'} /\ Idle.pc = "idle"
        BY <2>1, <2>2, <4>1 DEF Shows, Idle
      <4> QED BY <3>1, <4>2
    <3>2. CASE Apply(c) /\ client[c].payload.broken
      <4>1. client' = [client EXCEPT ![c] = [client[c] EXCEPT !.pc = "rollback"]] /\ shown' = Base
        BY <3>2 DEF Apply, Shows
      <4>2. [client[c] EXCEPT !.pc = "rollback"].pc = "rollback"
            /\ DOMAIN [client[c] EXCEPT !.pc = "rollback"] = {"pc", "payload"}
        BY <2>2
      <4> QED BY <4>1, <4>2
    <3>3. client' = [client EXCEPT ![c] = Idle] \/ (Apply(c) /\ client[c].payload.broken)
      BY <1>15 DEF Apply, ApplyFallback
    <3> QED BY <3>1, <3>2, <3>3
  <2>4. DirTypes' /\ WritingTypes' /\ UpIsReadable'
    BY <1>4, <2>1, FilesRest
  <2>5. PageInv'
    BY <2>1, <2>3, PageMoves
  <2> QED BY <2>4, <2>5 DEF BuildInv
<1>16. CASE UNCHANGED uvars
  <2>1. UNCHANGED <<dir, writing, active, client, shown, app>>
    BY <1>16 DEF uvars
  <2>2. DirTypes' /\ WritingTypes' /\ UpIsReadable'
    BY <1>4, <2>1, FilesRest
  <2> QED BY <2>1, <2>2, PageRests DEF BuildInv
<1> QED BY <1>5, <1>7, <1>8, <1>9, <1>10, <1>11, <1>12, <1>13, <1>14, <1>15, <1>16 DEF UNext

(* A page at rest displays the active build or the base interface, for any
   builds, releases and history, however writes fail and the application dies
   (UIBuildStore).  Two activities of the page at once break it, see the README. *)
THEOREM ShownIsAlwaysActive == ASSUME OneClient PROVE USpec => []ShownIsActive
<1>1. BuildInv => ShownIsActive
  BY DEF BuildInv, PageInv, ShownIsActive, Quiet, Idle
<1> QED BY <1>1, BuildsStart, BuildInvKept, PTL DEF USpec

-----------------------------------------------------------------------------
(* The history of the builds *)

(* What a turn of a loop passes on holds after the last. *)
LEMMA TurnsPassOn ==
  ASSUME NEW N \in Nat, NEW T, 0 \in T, \A n \in 1..N : n - 1 \in T => n \in T
  PROVE  N \in T
<1> DEFINE Bad == {n \in 0..N : n \notin T}
<1> SUFFICES ASSUME Bad # {} PROVE FALSE
  OBVIOUS
<1>1. Bad \subseteq Nat
  OBVIOUS
<1>2. PICK x \in Bad : \A y \in Bad : ~(<<y, x>> \in OpToRel(<, Nat))
  BY <1>1, NatLessThanWellFounded, WFMin
<1>3. x \in 1..N /\ x - 1 \in 0..N /\ x - 1 < x
  <2>1. x \in 0..N /\ x # 0
    BY <1>2
  <2> QED BY <2>1
<1>4. x - 1 \notin Bad
  BY <1>1, <1>2, <1>3 DEF OpToRel
<1> QED BY <1>2, <1>3, <1>4

(* The loop of Others, for the first n builds. *)
LoopTo(n, b, h, f) ==
  /\ f \in [0..n -> Seq(Builds)] /\ f[0] = << >>
  /\ \A i \in 1..n : f[i] = IF h[i] = b THEN f[i - 1] ELSE Append(f[i - 1], h[i])

LEMMA LoopRuns ==
  ASSUME NEW b, NEW h \in Seq(Builds)
  PROVE  \E f : LoopTo(Len(h), b, h, f)
<1> DEFINE N == Len(h)
           T == {n \in 0..N : \E f : LoopTo(n, b, h, f)}
<1>1. N \in Nat
  OBVIOUS
<1>2. 0 \in T
  <2> DEFINE f == [i \in 0..0 |-> << >>]
  <2>1. LoopTo(0, b, h, f)
    BY DEF LoopTo
  <2> QED BY <1>1, <2>1
<1>3. ASSUME NEW n \in 1..N, n - 1 \in T PROVE n \in T
  <2>1. PICK f : LoopTo(n - 1, b, h, f)
    BY <1>3
  <2> DEFINE next == IF h[n] = b THEN f[n - 1] ELSE Append(f[n - 1], h[n])
             g == [i \in 0..n |-> IF i = n THEN next ELSE f[i]]
  <2>2. f[n - 1] \in Seq(Builds) /\ h[n] \in Builds
    BY <2>1 DEF LoopTo
  <2>3. next \in Seq(Builds)
    BY <2>2, AppendProperties
  <2> HIDE DEF next
  <2>4. g \in [0..n -> Seq(Builds)] /\ g[0] = << >>
    BY <2>1, <2>3 DEF LoopTo
  <2>5. ASSUME NEW i \in 1..n PROVE g[i] = IF h[i] = b THEN g[i - 1] ELSE Append(g[i - 1], h[i])
    <3>1. i - 1 \in 0..n - 1 /\ g[i - 1] = f[i - 1]
      OBVIOUS
    <3>2. CASE i = n
      <4>1. g[i] = next
        BY <3>2
      <4> QED BY <3>1, <3>2, <4>1 DEF next
    <3>3. CASE i # n
      <4>1. i \in 1..n - 1 /\ g[i] = f[i]
        BY <3>3
      <4> QED BY <2>1, <3>1, <4>1 DEF LoopTo
    <3> QED BY <3>2, <3>3
  <2> HIDE DEF g
  <2>6. LoopTo(n, b, h, g)
    BY <2>4, <2>5 DEF LoopTo
  <2> QED BY <2>6
<1>4. N \in T
  <2> HIDE DEF T, N
  <2> QED BY <1>1, <1>2, <1>3, TurnsPassOn
<1> QED BY <1>4

LEMMA OthersAreBuilds ==
  ASSUME NEW b, NEW h \in Seq(Builds)
  PROVE  Others(b, h) \in Seq(Builds)
<1> DEFINE N == Len(h)
           Next(f, n) == IF h[n] = b THEN f[n - 1] ELSE Append(f[n - 1], h[n])
           others == CHOOSE f : f = [n \in 0..N |-> IF n = 0 THEN << >> ELSE Next(f, n)]
<1>1. PICK f : LoopTo(N, b, h, f)
  BY LoopRuns
<1>2. f = [n \in 0..N |-> IF n = 0 THEN << >> ELSE Next(f, n)]
  <2>1. N \in Nat /\ f \in [0..N -> Seq(Builds)] /\ f[0] = << >>
    BY <1>1 DEF LoopTo
  <2>2. \A n \in 1..N : f[n] = Next(f, n)
    BY <1>1 DEF LoopTo
  <2> HIDE DEF Next, N
  <2> QED BY <2>1, <2>2
<1>3. others = [n \in 0..N |-> IF n = 0 THEN << >> ELSE Next(others, n)]
  <2> HIDE DEF Next, N
  <2> QED BY <1>2
<1>4. Others(b, h) = others[N]
  BY DEF Others
<1> HIDE DEF others
<1> DEFINE T == {n \in 0..N : others[n] \in Seq(Builds)}
<1>5. N \in Nat /\ \A n \in 1..N : h[n] \in Builds
  OBVIOUS
<1>6. 0 \in T
  <2>1. 0 \in 0..N
    BY <1>5
  <2> HIDE DEF N, Next
  <2>2. others[0] = << >>
    BY <1>3, <2>1
  <2>3. others[0] \in Seq(Builds)
    BY <2>2
  <2> QED BY <2>1, <2>3
<1>7. ASSUME NEW n \in 1..N, n - 1 \in T PROVE n \in T
  <2>1. n \in 0..N /\ n # 0 /\ h[n] \in Builds
    BY <1>5
  <2>2. others[n - 1] \in Seq(Builds)
    BY <1>7
  <2>3. others[n] = Next(others, n)
    <3> HIDE DEF N, Next
    <3> QED BY <1>3, <2>1
  <2>4. Next(others, n) \in Seq(Builds)
    <3>1. CASE h[n] = b
      BY <2>2, <3>1
    <3>2. CASE h[n] # b
      <4>1. Next(others, n) = Append(others[n - 1], h[n])
        BY <3>2
      <4> QED BY <2>1, <2>2, <4>1, AppendProperties
    <3> QED BY <3>1, <3>2
  <2> HIDE DEF N, Next
  <2> QED BY <2>1, <2>3, <2>4
<1>8. N \in T
  <2> HIDE DEF T, N
  <2> QED BY <1>5, <1>6, <1>7, TurnsPassOn
<1> QED BY <1>4, <1>8

(* The history is cut to its limit. *)
LEMMA CleanIsShort ==
  ASSUME NEW b, NEW h \in Seq(Builds)
  PROVE  Clean(b, h) \in Seq(Builds) /\ Len(Clean(b, h)) <= MaxHistory
<1> DEFINE others == Others(b, h)
           first == IF Len(others) - MaxHistory > 0 THEN Len(others) - MaxHistory + 1 ELSE 1
<1>1. others \in Seq(Builds) /\ MaxHistory \in Nat /\ MaxHistory # 0
  BY OthersAreBuilds, UiBoundsAssumption
<1>2. Clean(b, h) = SubSeq(others, first, Len(others))
  BY DEF Clean
<1> HIDE DEF others
<1>3. first \in 1..Len(others) + 1 /\ Len(others) - first + 1 <= MaxHistory
  BY <1>1
<1>4. SubSeq(others, first, Len(others)) \in Seq(Builds)
      /\ Len(SubSeq(others, first, Len(others))) = Len(others) - first + 1
  <2> HIDE DEF first
  <2>1. first \in 1..Len(others) + 1 /\ Len(others) \in Nat /\ Len(others) \in first - 1..Len(others)
    BY <1>1, <1>3
  <2> QED BY <1>1, <2>1, SubSeqProperties
<1> QED BY <1>2, <1>3, <1>4

-----------------------------------------------------------------------------
(* The types of the builds *)

(* The types of what is stored, of what is being written, and of the page. *)
Directory == [manifest : Manifest \cup {NoManifest}, assets : Assets]

StoreTypes ==
  /\ dir \in [Builds -> Directory]
  /\ active \in Builds /\ history \in Seq(Builds) /\ Len(history) <= MaxHistory

WriteTypes ==
  \/ writing = Nothing
  \/ writing \in [step : {"manifest", "assets"}, build : Builds, manifest : Manifest, assets : Assets]
  \/ writing \in [step : {"remove"}, build : Builds]

ActivityTypes ==
  {[pc |-> "idle"], [pc |-> "hydrate"]}
    \cup [pc : {"apply", "rollback", "fallback"}, payload : [build : Builds, broken : BOOLEAN]]

PageTypes == client \in [Clients -> ActivityTypes] /\ shown \in Builds \cup {Base}

AppTypes == app \in {"down", "starting", "up"} /\ shipped \in 1..MaxShipped /\ tears \in BOOLEAN

BuildTypes == StoreTypes /\ WriteTypes /\ PageTypes /\ AppTypes

LEMMA BuildTypesAre == BuildTypes => UTypeOK
<1> SUFFICES ASSUME BuildTypes PROVE UTypeOK
  OBVIOUS
<1>1. writing.step \in {"none", "manifest", "assets", "remove"} /\ (~Free => writing.build \in Builds)
  BY DEF BuildTypes, WriteTypes, Nothing, Free
<1>2. \A c \in Clients : client[c].pc \in {"idle", "hydrate", "apply", "rollback", "fallback"}
  <2>1. \A r \in ActivityTypes : r.pc \in {"idle", "hydrate", "apply", "rollback", "fallback"}
    BY DEF ActivityTypes
  <2> QED BY <2>1 DEF BuildTypes, PageTypes
<1> QED BY <1>1, <1>2 DEF BuildTypes, StoreTypes, PageTypes, AppTypes, UTypeOK, Directory

LEMMA NothingIsTyped ==
  /\ NoManifest \in Manifest \cup {NoManifest} /\ NoAssets \in Assets
  /\ [manifest |-> NoManifest, assets |-> NoAssets] \in Directory
  /\ Idle \in ActivityTypes
<1>1. MaxShipped \in Nat
  BY UiBoundsAssumption
<1>2. NoAssets \in Assets
  BY <1>1 DEF NoAssets, Assets
<1>3. Idle \in ActivityTypes
  BY DEF Idle, ActivityTypes
<1> QED BY <1>2, <1>3 DEF Directory

LEMMA BuildTypesInitially == UInit => BuildTypes
<1> SUFFICES ASSUME UInit PROVE BuildTypes
  OBVIOUS
<1>1. dir \in [Builds -> Directory]
  BY NothingIsTyped DEF UInit
<1>2. active \in Builds /\ history \in Seq(Builds) /\ Len(history) <= MaxHistory
  BY DefaultAssumption, UiBoundsAssumption DEF UInit, Builds
<1>3. PageTypes
  BY NothingIsTyped DEF UInit, PageTypes
<1>4. AppTypes
  BY UiBoundsAssumption, DiskFailsAssumption DEF UInit, AppTypes
<1> QED BY <1>1, <1>2, <1>3, <1>4 DEF BuildTypes, StoreTypes, WriteTypes, UInit

(* state.json: every way of writing it keeps its type. *)
LEMMA StateIsTyped ==
  ASSUME StoreTypes, UNCHANGED dir,
         \/ Heal \/ Rollback \/ UNCHANGED state
         \/ \E b \in Builds : WriteState(b, Append(history, active))
  PROVE  StoreTypes'
<1>1. /\ dir \in [Builds -> Directory] /\ active \in Builds /\ history \in Seq(Builds) /\ Len(history) <= MaxHistory
      /\ Default \in Builds /\ << >> \in Seq(Builds)
  BY DefaultAssumption DEF StoreTypes, Builds
<1>2. ASSUME NEW b \in Builds, NEW h \in Seq(Builds), WriteState(b, h) PROVE StoreTypes'
  <2>1. active' = b /\ history' = Clean(b, h)
    BY <1>2 DEF WriteState
  <2>2. Clean(b, h) \in Seq(Builds) /\ Len(Clean(b, h)) <= MaxHistory
    BY CleanIsShort
  <2> QED BY <1>1, <2>1, <2>2 DEF StoreTypes
<1>3. CASE UNCHANGED state
  BY <1>1, <1>3 DEF StoreTypes, state
<1>4. CASE Heal
  BY <1>1, <1>2, <1>3, <1>4 DEF Heal
<1>5. CASE Rollback
  <2>1. CASE WriteState(Default, << >>)
    BY <1>1, <1>2, <2>1
  <2>2. ASSUME NEW i \in 1..Len(history), WriteState(history[i], SubSeq(history, 1, i - 1))
        PROVE  StoreTypes'
    <3>1. history[i] \in Builds
      BY <1>1
    <3>2. \A j \in 1..i - 1 : history[j] \in Builds
      BY <1>1
    <3>3. SubSeq(history, 1, i - 1) \in Seq(Builds)
      BY <3>2, SubSeqProperties
    <3> QED BY <1>2, <2>2, <3>1, <3>3
  <2> QED BY <1>5, <2>1, <2>2 DEF Rollback
<1>6. ASSUME NEW b \in Builds, WriteState(b, Append(history, active)) PROVE StoreTypes'
  <2>1. Append(history, active) \in Seq(Builds)
    BY <1>1, AppendProperties
  <2> QED BY <1>2, <1>6, <2>1
<1> QED BY <1>3, <1>4, <1>5, <1>6

LEMMA PayloadIsTyped ==
  ASSUME StoreTypes, NEW b \in Builds, NEW pc \in {"apply", "rollback", "fallback"}
  PROVE  [pc |-> pc, payload |-> Payload(b)] \in ActivityTypes
<1>1. dir[b] \in Directory
  BY DEF StoreTypes
<1>2. dir[b].assets.broken \in BOOLEAN
  BY <1>1 DEF Directory, Assets
<1> QED BY <1>2 DEF ActivityTypes, Payload

(* An activity of the page goes on. *)
LEMMA ActivityIsTyped ==
  ASSUME PageTypes, NEW c \in Clients, NEW r \in ActivityTypes, client' = [client EXCEPT ![c] = r],
         shown' \in Builds \cup {Base}
  PROVE  PageTypes'
BY DEF PageTypes

LEMMA PageKeepsTypes ==
  ASSUME PageTypes, UNCHANGED <<client, shown>>
  PROVE  PageTypes'
BY DEF PageTypes

(* A directory is replaced, by one of its type. *)
LEMMA DirectoryIsReplaced ==
  ASSUME StoreTypes, UNCHANGED state, NEW b \in Builds, NEW rest \in Directory,
         dir' = [dir EXCEPT ![b] = rest]
  PROVE  StoreTypes'
BY DEF StoreTypes, state

LEMMA RemnantsAreTyped ==
  ASSUME StoreTypes, NEW b \in Builds, NEW rest \in Remnants(b)
  PROVE  rest \in Directory
<1>1. dir[b] \in Directory
  BY DEF StoreTypes
<1>2. [dir[b] EXCEPT !.manifest = NoManifest] \in Directory
  BY <1>1 DEF Directory
<1>3. [dir[b] EXCEPT !.assets = NoAssets] \in Directory
  BY <1>1, NothingIsTyped DEF Directory
<1> QED BY <1>1, <1>2, <1>3 DEF Remnants

(* What is being written names a build. *)
LEMMA WrittenIsBuild ==
  ASSUME WriteTypes, ~Free
  PROVE  /\ writing.build \in Builds
         /\ writing.step \in {"manifest", "assets"} =>
              writing \in [step : {"manifest", "assets"}, build : Builds, manifest : Manifest, assets : Assets]
<1>1. CASE writing \in [step : {"remove"}, build : Builds]
  BY <1>1
<1>2. CASE writing \in [step : {"manifest", "assets"}, build : Builds, manifest : Manifest, assets : Assets]
  BY <1>2
<1> QED BY <1>1, <1>2 DEF WriteTypes, Free

LEMMA BuildTypesKept == BuildTypes /\ [UNext]_uvars => BuildTypes'
<1> SUFFICES ASSUME BuildTypes, [UNext]_uvars PROVE BuildTypes'
  OBVIOUS
<1>1. StoreTypes /\ WriteTypes /\ PageTypes /\ AppTypes
  BY DEF BuildTypes
<1>2. MaxShipped \in Nat /\ Builtins \subseteq Builds /\ UserBuilds \subseteq Builds
  BY UiBoundsAssumption DEF Builds
<1>3. ASSUME Launch \/ Release PROVE BuildTypes'
  <2>1. StoreTypes' /\ WriteTypes'
    BY <1>1, <1>3 DEF Launch, Release, StoreTypes, WriteTypes, state
  <2>2. AppTypes'
    BY <1>1, <1>2, <1>3 DEF Launch, Release, AppTypes
  <2> QED BY <1>1, <1>3, <2>1, <2>2, PageKeepsTypes DEF Launch, Release, BuildTypes
<1>4. CASE LoseBuild
  <2>1. PICK b \in UserBuilds : dir' = [dir EXCEPT ![b] = [manifest |-> NoManifest, assets |-> NoAssets]]
    BY <1>4 DEF LoseBuild
  <2>2. StoreTypes'
    BY <1>1, <1>2, <1>4, <2>1, NothingIsTyped, DirectoryIsReplaced DEF LoseBuild
  <2> QED BY <1>1, <1>4, <2>2, PageKeepsTypes DEF LoseBuild, BuildTypes, WriteTypes, AppTypes
<1>5. ASSUME NEW b \in Builds, NEW manifest \in Manifest, NEW assets \in Assets, Write(b, manifest, assets),
             UNCHANGED <<dir, state, app, shipped, client, shown, tears>>
      PROVE  BuildTypes'
  <2>1. WriteTypes'
    BY <1>5 DEF Write, WriteTypes
  <2>2. StoreTypes'
    BY <1>1, <1>5 DEF StoreTypes, state
  <2> QED BY <1>1, <1>5, <2>1, <2>2, PageKeepsTypes DEF BuildTypes, AppTypes
<1>6. ASSUME NEW b \in Builtins, InstallBuiltin(b) PROVE BuildTypes'
  <2>1. [release |-> shipped, quality |-> Floor] \in Manifest
    BY <1>1, <1>2 DEF Manifest, AppTypes, Qualities, Floor
  <2>2. [release |-> shipped, broken |-> FALSE] \in Assets
    BY <1>1, <1>2 DEF Assets, AppTypes
  <2> QED BY <1>2, <1>5, <1>6, <2>1, <2>2 DEF InstallBuiltin
<1>7. ASSUME NEW b \in UserBuilds, SaveBuild(b) PROVE BuildTypes'
  <2>1. PICK quality \in Qualities, broken \in BOOLEAN :
          Write(b, [release |-> 0, quality |-> quality], [release |-> 0, broken |-> broken])
    BY <1>7 DEF SaveBuild
  <2>2. [release |-> 0, quality |-> quality] \in Manifest /\ [release |-> 0, broken |-> broken] \in Assets
    BY <1>2 DEF Manifest, Assets
  <2> QED BY <1>2, <1>5, <1>7, <2>1, <2>2 DEF SaveBuild
<1>8. ASSUME NEW b \in UserBuilds, DeleteBuild(b) PROVE BuildTypes'
  <2>1. WriteTypes'
    BY <1>2, <1>8 DEF DeleteBuild, WriteTypes
  <2>2. StoreTypes'
    BY <1>1, <1>8 DEF DeleteBuild, StoreTypes, state
  <2> QED BY <1>1, <1>8, <2>1, <2>2, PageKeepsTypes DEF DeleteBuild, BuildTypes, AppTypes
<1>9. CASE WriteManifest
  <2>1. writing \in [step : {"manifest", "assets"}, build : Builds, manifest : Manifest, assets : Assets]
    BY <1>1, <1>9, WrittenIsBuild DEF WriteManifest, Free, Nothing
  <2>2. WriteTypes'
    BY <1>9, <2>1 DEF WriteManifest, WriteTypes
  <2>3. dir \in [Builds -> Directory] /\ dir[writing.build] \in Directory
    BY <1>1, <2>1 DEF StoreTypes
  <2> DEFINE rest == [dir[writing.build] EXCEPT !.manifest = writing.manifest]
  <2>4. rest \in Directory
    BY <2>1, <2>3 DEF Directory
  <2>5. dir' = [dir EXCEPT ![writing.build] = rest]
    BY <1>9 DEF WriteManifest
  <2> HIDE DEF rest
  <2>6. StoreTypes'
    BY <1>1, <1>9, <2>1, <2>4, <2>5, DirectoryIsReplaced DEF WriteManifest
  <2> QED BY <1>1, <1>9, <2>2, <2>6, PageKeepsTypes DEF WriteManifest, BuildTypes, AppTypes
<1>10. CASE WriteAssets
  <2>1. writing \in [step : {"manifest", "assets"}, build : Builds, manifest : Manifest, assets : Assets]
    BY <1>1, <1>10, WrittenIsBuild DEF WriteAssets, Free, Nothing
  <2>2. dir \in [Builds -> Directory] /\ dir[writing.build] \in Directory
    BY <1>1, <2>1 DEF StoreTypes
  <2> DEFINE rest == [dir[writing.build] EXCEPT !.assets = writing.assets]
  <2>3. rest \in Directory
    BY <2>1, <2>2 DEF Directory
  <2>4. dir' = [dir EXCEPT ![writing.build] = rest]
    BY <1>10 DEF WriteAssets
  <2> HIDE DEF rest
  <2>5. StoreTypes'
    BY <1>1, <1>10, <2>1, <2>3, <2>4, DirectoryIsReplaced DEF WriteAssets
  <2> QED BY <1>1, <1>10, <2>5, PageKeepsTypes DEF WriteAssets, BuildTypes, AppTypes, WriteTypes
(* Files that are removed, and what is left of them otherwise. *)
<1>11. ASSUME ~Free, UNCHANGED state, UNCHANGED dir \/ \E rest \in Remnants(writing.build) : dir' = [dir EXCEPT ![writing.build] = rest]
       PROVE  StoreTypes'
  <2>1. writing.build \in Builds
    BY <1>1, <1>11, WrittenIsBuild
  <2>2. CASE UNCHANGED dir
    BY <1>1, <1>11, <2>2 DEF StoreTypes, state
  <2>3. ASSUME NEW rest \in Remnants(writing.build), dir' = [dir EXCEPT ![writing.build] = rest] PROVE StoreTypes'
    BY <1>1, <1>11, <2>1, <2>3, RemnantsAreTyped, DirectoryIsReplaced
  <2> QED BY <1>11, <2>2, <2>3
<1>12. CASE RemoveFiles
  <2>1. writing.build \in Builds
    BY <1>1, <1>12, WrittenIsBuild DEF RemoveFiles, Free, Nothing
  <2>2. dir' = [dir EXCEPT ![writing.build] = [manifest |-> NoManifest, assets |-> NoAssets]]
    BY <1>12 DEF RemoveFiles
  <2>3. StoreTypes'
    BY <1>1, <1>12, <2>1, <2>2, NothingIsTyped, DirectoryIsReplaced DEF RemoveFiles
  <2> QED BY <1>1, <1>12, <2>3, PageKeepsTypes DEF RemoveFiles, BuildTypes, AppTypes, WriteTypes
<1>13. CASE WriteFails
  <2>1. StoreTypes'
    BY <1>11, <1>13 DEF WriteFails
  <2>2. AppTypes'
    BY <1>1, <1>13 DEF WriteFails, AppTypes
  <2> QED BY <1>1, <1>13, <2>1, <2>2, PageKeepsTypes DEF WriteFails, BuildTypes, WriteTypes
<1>14. CASE Stop
  <2>1. StoreTypes'
    <3>1. CASE UNCHANGED dir
      BY <1>1, <1>14, <3>1 DEF Stop, StoreTypes, state
    <3>2. CASE ~Free
      BY <1>11, <1>14, <3>2 DEF Stop
    <3> QED BY <1>14, <3>1, <3>2 DEF Stop
  <2>2. PageTypes'
    BY <1>14, NothingIsTyped DEF Stop, PageTypes
  <2>3. AppTypes' /\ WriteTypes'
    BY <1>1, <1>14 DEF Stop, AppTypes, WriteTypes
  <2> QED BY <2>1, <2>2, <2>3 DEF BuildTypes
<1>15. CASE FinishStart
  <2>1. StoreTypes'
    BY <1>1, <1>15, StateIsTyped DEF FinishStart
  <2>2. PageTypes'
    <3>1. [pc |-> "hydrate"] \in ActivityTypes
      BY DEF ActivityTypes
    <3>2. PICK c \in Clients : client' = [client EXCEPT ![c] = [pc |-> "hydrate"]]
      BY <1>15 DEF FinishStart
    <3> QED BY <1>1, <1>15, <3>1, <3>2, ActivityIsTyped DEF FinishStart
  <2>3. AppTypes' /\ WriteTypes'
    BY <1>1, <1>15 DEF FinishStart, AppTypes, WriteTypes
  <2> QED BY <2>1, <2>2, <2>3 DEF BuildTypes
<1>16. CASE RefreshCatalog
  <2>1. StoreTypes'
    BY <1>1, <1>16, StateIsTyped DEF RefreshCatalog
  <2> QED BY <1>1, <1>16, <2>1, PageKeepsTypes DEF RefreshCatalog, BuildTypes, AppTypes, WriteTypes
<1>17. ASSUME NEW c \in Clients, Hydrate(c) \/ RollBack(c) \/ \E b \in Builds : Use(c, b) PROVE BuildTypes'
  <2>1. UNCHANGED <<dir, writing, app, shipped, shown, tears>>
    BY <1>17 DEF Hydrate, RollBack, Use
  <2>2. StoreTypes'
    BY <1>1, <1>17, <2>1, StateIsTyped DEF Hydrate, RollBack, Use
  <2>3. active' \in Builds
    BY <2>2 DEF StoreTypes
  <2>4. PICK b \in Builds, pc \in {"apply", "fallback"} : client' = [client EXCEPT ![c] = [pc |-> pc, payload |-> Payload(b)]]
    BY <1>17, <2>3 DEF Hydrate, RollBack, Use
  <2>5. PageTypes'
    BY <1>1, <2>1, <2>4, PayloadIsTyped, ActivityIsTyped DEF PageTypes
  <2> QED BY <1>1, <2>1, <2>2, <2>5 DEF BuildTypes, AppTypes, WriteTypes
<1>18. ASSUME NEW c \in Clients, Apply(c) \/ ApplyFallback(c) PROVE BuildTypes'
  <2>1. client[c] \in ActivityTypes /\ client[c].pc \in {"apply", "fallback"}
    BY <1>1, <1>18 DEF Apply, ApplyFallback, PageTypes
  <2>2. client[c] \in [pc : {"apply", "rollback", "fallback"}, payload : [build : Builds, broken : BOOLEAN]]
    BY <2>1 DEF ActivityTypes
  <2>3. shown' \in Builds \cup {Base}
    BY <1>18, <2>2 DEF Apply, ApplyFallback, Shows
  <2>4. [client[c] EXCEPT !.pc = "rollback"] \in ActivityTypes
    BY <2>2 DEF ActivityTypes
  <2>5. PICK r \in ActivityTypes : client' = [client EXCEPT ![c] = r]
    BY <1>18, <2>4, NothingIsTyped DEF Apply, ApplyFallback
  <2>6. PageTypes'
    BY <1>1, <2>3, <2>5, ActivityIsTyped
  <2> QED BY <1>1, <1>18, <2>6 DEF Apply, ApplyFallback, BuildTypes, StoreTypes, AppTypes, WriteTypes, state
<1>19. CASE UNCHANGED uvars
  BY <1>1, <1>19 DEF uvars, state, BuildTypes, StoreTypes, AppTypes, WriteTypes, PageTypes
<1> QED BY <1>3, <1>4, <1>6, <1>7, <1>8, <1>9, <1>10, <1>12, <1>13, <1>14, <1>15, <1>16, <1>17, <1>18, <1>19 DEF UNext, FileStep

-----------------------------------------------------------------------------
(* Accounts *)

WorkFields == {"step", "account", "token", "copy", "then"}
Works(r) == r.step \notin {"idle", "browser"}

(* A refresh token that was just issued to a thread, and is stored nowhere. *)
InHand(r) == r.step \in {"identify", "keep"} \/ (r.step = "store" /\ r.account \in Rotating)

(* The refresh token that the one in hand was obtained with. *)
Used(r) == IF r.step = "store" THEN r.copy ELSE {}

(* Where a token of the account may be found. *)
Of(a, t) ==
  \/ t \in usable[a] \/ keyring[a] = t
  \/ \E c \in Callers : /\ Works(caller[c]) /\ caller[c].account = a
                        /\ caller[c].token = t \/ t \in Used(caller[c])

TokenTypes ==
  /\ issued \in Nat /\ DOMAIN caller = Callers /\ superseded \subseteq 1..issued
  /\ keyring \in [Accounts -> 0..issued] /\ usable \in [Accounts -> SUBSET (1..issued)]
  /\ \A c \in Callers : Works(caller[c]) =>
       /\ DOMAIN caller[c] = WorkFields /\ caller[c].account \in Accounts
       /\ caller[c].token \in 0..issued /\ Used(caller[c]) \subseteq 1..issued

(* A token belongs to one account; one in hand is found nowhere else; one that was
   used up is honoured no more; and none that was superseded is stored, or about
   to be, or honoured for a thread that has it still. *)
OneOwner == \A t \in 1..issued, a, b \in Accounts : Of(a, t) /\ Of(b, t) => a = b

HandIsFresh ==
  \A c \in Callers : InHand(caller[c]) =>
    /\ caller[c].token # 0 /\ caller[c].token \notin superseded /\ \A a \in Accounts : keyring[a] # caller[c].token
    /\ \A d \in Callers : d # c /\ Works(caller[d]) =>
         caller[d].token # caller[c].token /\ caller[c].token \notin Used(caller[d])

UsedIsOver ==
  \A c \in Callers : caller[c].step = "store" =>
    /\ caller[c].token \notin caller[c].copy /\ \A a \in Accounts : caller[c].copy \cap usable[a] = {}
    /\ caller[c].account \notin Rotating => caller[c].copy = {}

SupersededIsOver ==
  \A t \in superseded :
    /\ \A a \in Accounts : keyring[a] # t
    /\ \A c \in Callers : Works(caller[c]) /\ caller[c].token = t =>
         /\ caller[c].step # "store"
         /\ caller[c].step = "post" => t \notin usable[caller[c].account]

TokenInv == TokenTypes /\ OneOwner /\ HandIsFresh /\ UsedIsOver /\ SupersededIsOver

LEMMA TokensStart == ASSUME AInit PROVE TokenInv
<1>1. \A c \in Callers : caller[c].step = "idle"
  BY DEF AInit, NoWork
<1>2. TokenTypes /\ issued = 0 /\ superseded = {}
  BY <1>1 DEF AInit, TokenTypes, Works
<1> QED BY <1>1, <1>2 DEF TokenInv, OneOwner, HandIsFresh, UsedIsOver, SupersededIsOver, InHand

(* A thread that goes on, if at all, without a new token. *)
GoesOn(c) ==
  \/ caller'[c] = caller[c] \/ ~Works(caller'[c])
  \/ /\ DOMAIN caller'[c] = WorkFields /\ caller'[c].account \in Accounts /\ caller'[c].step # "identify"
     /\ caller'[c].step = "store" => /\ caller'[c].copy = {} /\ caller'[c].account \notin Rotating
                                     /\ caller[c].step = "post" /\ caller[c].token \in usable[caller[c].account]
                                     /\ caller'[c].token = caller[c].token
     /\ caller'[c].step = "post" => caller'[c].token = keyring[caller'[c].account]
     /\ \/ /\ Works(caller[c]) /\ caller'[c].token = caller[c].token /\ caller'[c].account = caller[c].account
           /\ caller'[c].step = "keep" => caller[c].step = "identify"
        \/ /\ caller'[c].step # "keep" /\ caller'[c].token \in {0, keyring[caller'[c].account]}

LEMMA GoingOnKeeps ==
  ASSUME TokenInv, UNCHANGED <<issued, superseded>>, DOMAIN caller' = Callers,
         \A c \in Callers : GoesOn(c),
         keyring' \in [Accounts -> 0..issued], \A a \in Accounts : keyring'[a] \in {0, keyring[a]},
         usable' \in [Accounts -> SUBSET (1..issued)], \A a \in Accounts : usable'[a] \subseteq usable[a]
  PROVE  TokenInv'
<1>1. ASSUME NEW c \in Callers, Works(caller'[c])
      PROVE  /\ DOMAIN caller'[c] = WorkFields /\ caller'[c].account \in Accounts
             /\ caller'[c].token \in 0..issued /\ Used(caller'[c]) \subseteq 1..issued
  <2>1. CASE caller'[c] = caller[c]
    BY <1>1, <2>1 DEF TokenInv, TokenTypes
  <2>2. CASE caller'[c] # caller[c]
    BY <1>1, <2>2 DEF TokenInv, TokenTypes, GoesOn, Used
  <2> QED BY <2>1, <2>2
<1>2. TokenTypes'
  BY <1>1 DEF TokenInv, TokenTypes, Works, Used
<1>3. ASSUME NEW c \in Callers, Works(caller'[c])
      PROVE  /\ caller'[c].token # 0 => Of(caller'[c].account, caller'[c].token)
             /\ Used(caller'[c]) # {} => caller'[c] = caller[c]
  BY <1>3 DEF GoesOn, Of, Used, TokenInv, TokenTypes
<1>4. ASSUME NEW a \in Accounts, NEW t \in 1..issued, Of(a, t)' PROVE Of(a, t)
  <2>1. CASE t \in usable'[a] \/ keyring'[a] = t
    BY <2>1 DEF Of
  <2>2. ASSUME NEW d \in Callers, Works(caller'[d]), caller'[d].account = a,
               caller'[d].token = t \/ t \in Used(caller'[d])
        PROVE  Of(a, t)
    <3>1. CASE caller'[d].token = t
      BY <1>3, <2>2, <3>1
    <3>2. CASE t \in Used(caller'[d])
      BY <1>3, <2>2, <3>2 DEF Of
    <3> QED BY <2>2, <3>1, <3>2
  <2> QED BY <1>4, <2>1, <2>2 DEF Of, Works, Used
<1>5. OneOwner'
  BY <1>4 DEF TokenInv, OneOwner
<1>6. HandIsFresh'
  <2> SUFFICES ASSUME NEW c \in Callers, InHand(caller'[c])
               PROVE  /\ caller'[c].token # 0 /\ caller'[c].token \notin superseded
                      /\ \A a \in Accounts : keyring'[a] # caller'[c].token
                      /\ \A d \in Callers : d # c /\ Works(caller'[d]) =>
                           caller'[d].token # caller'[c].token /\ caller'[c].token \notin Used(caller'[d])
    BY DEF HandIsFresh, InHand, Works, Used
  <2>1. InHand(caller[c]) /\ caller'[c].token = caller[c].token
    BY DEF InHand, Works, GoesOn
  <2>2. /\ caller[c].token # 0 /\ caller[c].token \notin superseded
        /\ \A a \in Accounts : keyring[a] # caller[c].token
    BY <2>1 DEF TokenInv, HandIsFresh
  <2>3. ASSUME NEW d \in Callers, d # c, Works(caller'[d])
        PROVE  caller'[d].token # caller[c].token /\ caller[c].token \notin Used(caller'[d])
    <3>1. Works(caller[d]) => caller[d].token # caller[c].token /\ caller[c].token \notin Used(caller[d])
      BY <2>1, <2>3 DEF TokenInv, HandIsFresh
    <3>2. CASE caller'[d] = caller[d]
      BY <2>3, <3>1, <3>2
    <3>3. CASE caller'[d] # caller[d]
      BY <1>3, <2>2, <2>3, <3>1, <3>3 DEF GoesOn
    <3> QED BY <3>2, <3>3
  <2> QED BY <2>1, <2>2, <2>3
<1>7. UsedIsOver'
  <2> SUFFICES ASSUME NEW c \in Callers, caller'[c].step = "store"
               PROVE  /\ caller'[c].token \notin caller'[c].copy
                      /\ \A a \in Accounts : caller'[c].copy \cap usable'[a] = {}
                      /\ caller'[c].account \notin Rotating => caller'[c].copy = {}
    BY DEF UsedIsOver
  <2>1. CASE caller'[c] = caller[c]
    BY <2>1 DEF TokenInv, UsedIsOver
  <2>2. CASE caller'[c] # caller[c]
    BY <2>2 DEF GoesOn, Works
  <2> QED BY <2>1, <2>2
<1>8. SupersededIsOver'
  <2> SUFFICES ASSUME NEW t \in superseded
               PROVE  /\ \A a \in Accounts : keyring'[a] # t
                      /\ \A c \in Callers : Works(caller'[c]) /\ caller'[c].token = t =>
                           /\ caller'[c].step # "store"
                           /\ caller'[c].step = "post" => t \notin usable'[caller'[c].account]
    BY DEF SupersededIsOver, Works
  <2>1. t # 0 /\ \A a \in Accounts : keyring[a] # t
    BY DEF TokenInv, TokenTypes, SupersededIsOver
  <2>2. ASSUME NEW c \in Callers, Works(caller'[c]), caller'[c].token = t
        PROVE  /\ caller'[c].step # "store"
               /\ caller'[c].step = "post" => t \notin usable'[caller'[c].account]
    <3>1. CASE caller'[c] = caller[c]
      <4>1. /\ caller[c].step # "store"
            /\ caller[c].step = "post" => t \notin usable[caller[c].account] /\ caller[c].account \in Accounts
        BY <2>2, <3>1 DEF TokenInv, TokenTypes, SupersededIsOver
      <4> QED BY <3>1, <4>1
    <3>2. CASE caller'[c] # caller[c]
      <4>1. caller'[c].step # "post"
        BY <2>1, <2>2, <3>2 DEF GoesOn
      <4>2. ASSUME caller'[c].step = "store" PROVE FALSE
        <5>1. caller[c].step = "post" /\ caller[c].token = t /\ t \in usable[caller[c].account] /\ Works(caller[c])
          BY <2>2, <3>2, <4>2 DEF GoesOn, Works
        <5> QED BY <5>1 DEF TokenInv, SupersededIsOver
      <4> QED BY <4>1, <4>2
    <3> QED BY <3>1, <3>2
  <2> QED BY <2>1, <2>2
<1> QED BY <1>2, <1>5, <1>6, <1>7, <1>8 DEF TokenInv

(* A new token is issued, to a thread that uses up the one it has, or none. *)
LEMMA IssuingKeeps ==
  ASSUME TokenInv, NEW c \in Callers, NEW a \in Accounts, NEW used \in SUBSET usable[a],
         UNCHANGED <<keyring, superseded>>, issued' = issued + 1,
         usable' = [usable EXCEPT ![a] = (@ \ used) \cup {issued + 1}],
         DOMAIN caller' = Callers, \A d \in Callers : d # c => caller'[d] = caller[d],
         used # {} => /\ Works(caller[c]) /\ used = {caller[c].token},
         \/ ~Works(caller'[c])
         \/ /\ DOMAIN caller'[c] = WorkFields /\ caller'[c].account = a /\ caller'[c].token = issued + 1
            /\ \/ caller'[c].step = "identify"
               \/ caller'[c].step = "store" /\ caller'[c].copy = used /\ a \in Rotating
  PROVE  TokenInv'
<1>1. Works(caller'[c]) => Used(caller'[c]) \subseteq used
  BY DEF Used
<1>2. issued \in Nat /\ used \subseteq 1..issued
  BY DEF TokenInv, TokenTypes
<1>3. TokenTypes'
  <2>1. usable' \in [Accounts -> SUBSET (1..issued')] /\ keyring' \in [Accounts -> 0..issued']
        /\ superseded' \subseteq 1..issued' /\ issued' \in Nat
    BY <1>2 DEF TokenInv, TokenTypes
  <2>2. ASSUME NEW d \in Callers, Works(caller'[d])
        PROVE  /\ DOMAIN caller'[d] = WorkFields /\ caller'[d].account \in Accounts
               /\ caller'[d].token \in 0..issued' /\ Used(caller'[d]) \subseteq 1..issued'
    <3>1. CASE d = c
      <4>1. used \subseteq 1..issued' /\ issued + 1 \in 0..issued'
        BY <1>2
      <4>2. DOMAIN caller'[c] = WorkFields /\ caller'[c].account = a /\ caller'[c].token = issued + 1
        BY <2>2, <3>1
      <4>3. Used(caller'[c]) \subseteq 1..issued'
        BY <1>1, <2>2, <3>1, <4>1
      <4> QED BY <3>1, <4>1, <4>2, <4>3
    <3>2. CASE d # c
      BY <1>2, <2>2, <3>2 DEF TokenInv, TokenTypes
    <3> QED BY <3>1, <3>2
  <2> QED BY <2>1, <2>2 DEF TokenTypes, Works, Used
<1>4. ASSUME NEW b \in Accounts, NEW t, Of(b, t)', t # issued + 1 \/ b # a, t # 0 PROVE Of(b, t)
  <2>1. CASE t \in usable'[b] \/ keyring'[b] = t
    BY <1>4, <2>1 DEF Of, TokenInv, TokenTypes
  <2>2. ASSUME NEW d \in Callers, Works(caller'[d]), caller'[d].account = b,
               caller'[d].token = t \/ t \in Used(caller'[d])
        PROVE  Of(b, t)
    <3>1. CASE d = c
      BY <1>1, <1>4, <2>2, <3>1 DEF Of
    <3>2. CASE d # c
      BY <2>2, <3>2 DEF Of
    <3> QED BY <3>1, <3>2
  <2> QED BY <1>4, <2>1, <2>2 DEF Of, Works, Used
<1>5. ASSUME NEW b \in Accounts PROVE ~Of(b, issued + 1)
  BY <1>2 DEF Of, TokenInv, TokenTypes
<1>6. OneOwner'
  <2> SUFFICES ASSUME NEW t \in 1..issued', NEW b \in Accounts, NEW d \in Accounts, Of(b, t)', Of(d, t)'
               PROVE  b = d
    BY DEF OneOwner, Of
  <2>1. CASE t = issued + 1
    BY <1>2, <1>4, <1>5, <2>1
  <2>2. CASE t # issued + 1
    BY <1>2, <1>4, <2>2 DEF TokenInv, OneOwner
  <2> QED BY <2>1, <2>2
<1>7. HandIsFresh'
  <2> SUFFICES ASSUME NEW d \in Callers, InHand(caller'[d])
               PROVE  /\ caller'[d].token # 0 /\ caller'[d].token \notin superseded
                      /\ \A b \in Accounts : keyring[b] # caller'[d].token
                      /\ \A e \in Callers : e # d /\ Works(caller'[e]) =>
                           caller'[e].token # caller'[d].token /\ caller'[d].token \notin Used(caller'[e])
    BY DEF HandIsFresh, InHand, Works, Used
  <2>1. CASE d = c
    <3>1. caller'[d].token = issued + 1
      BY <2>1 DEF InHand, Works
    <3>2. ASSUME NEW e \in Callers, e # d, Works(caller'[e])
          PROVE  caller'[e].token # issued + 1 /\ issued + 1 \notin Used(caller'[e])
      BY <1>2, <2>1, <3>2 DEF TokenInv, TokenTypes
    <3> QED BY <1>2, <3>1, <3>2 DEF TokenInv, TokenTypes
  <2>2. CASE d # c
    <3>1. caller'[d] = caller[d] /\ InHand(caller[d]) /\ Works(caller[d])
      BY <2>2 DEF InHand, Works
    <3>2. /\ caller[d].token # 0 /\ caller[d].token \notin superseded
          /\ \A b \in Accounts : keyring[b] # caller[d].token
      BY <3>1 DEF TokenInv, HandIsFresh
    <3>3. ASSUME NEW e \in Callers, e # d, Works(caller'[e])
          PROVE  caller'[e].token # caller[d].token /\ caller[d].token \notin Used(caller'[e])
      <4>1. Works(caller[e]) => caller[e].token # caller[d].token /\ caller[d].token \notin Used(caller[e])
        BY <3>1, <3>3 DEF TokenInv, HandIsFresh
      <4>2. CASE e = c
        <5>1. caller[d].token # issued + 1
          BY <1>2, <3>1 DEF TokenInv, TokenTypes
        <5> QED BY <1>1, <3>3, <4>1, <4>2, <5>1
      <4>3. CASE e # c
        BY <3>3, <4>1, <4>3
      <4> QED BY <4>2, <4>3
    <3> QED BY <3>1, <3>2, <3>3
  <2> QED BY <2>1, <2>2
<1>8. UsedIsOver'
  <2> SUFFICES ASSUME NEW d \in Callers, caller'[d].step = "store"
               PROVE  /\ caller'[d].token \notin caller'[d].copy
                      /\ \A b \in Accounts : caller'[d].copy \cap usable'[b] = {}
                      /\ caller'[d].account \notin Rotating => caller'[d].copy = {}
    BY DEF UsedIsOver
  <2>1. CASE d = c
    <3>1. caller'[d].token = issued + 1 /\ caller'[d].copy = used /\ caller'[d].account \in Rotating
      BY <2>1 DEF Works
    <3>2. ASSUME NEW b \in Accounts, NEW t \in used PROVE t \notin usable'[b]
      <4>1. CASE b = a
        BY <1>2, <4>1 DEF TokenInv, TokenTypes
      <4>2. CASE b # a
        BY <1>2, <4>2 DEF TokenInv, TokenTypes, OneOwner, Of
      <4> QED BY <4>1, <4>2
    <3>3. used \cap {issued + 1} = {}
      BY <1>2
    <3>4. ASSUME NEW b \in Accounts PROVE used \cap usable'[b] = {}
      BY <3>2
    <3> QED BY <3>1, <3>3, <3>4
  <2>2. CASE d # c
    <3>1. Used(caller[d]) = caller[d].copy /\ caller[d].copy \subseteq 1..issued
      BY <2>2 DEF Used, Works, TokenInv, TokenTypes
    <3>2. /\ caller[d].token \notin caller[d].copy
          /\ caller[d].account \notin Rotating => caller[d].copy = {}
      BY <2>2 DEF TokenInv, UsedIsOver
    <3>3. ASSUME NEW b \in Accounts PROVE caller[d].copy \cap usable'[b] = {}
      <4>1. usable'[b] \subseteq usable[b] \cup {issued + 1}
        BY DEF TokenInv, TokenTypes
      <4>2. issued + 1 \notin caller[d].copy
        BY <1>2, <3>1
      <4>3. caller[d].copy \cap usable[b] = {}
        BY <2>2 DEF TokenInv, UsedIsOver
      <4> QED BY <4>1, <4>2, <4>3
    <3>4. caller'[d] = caller[d]
      BY <2>2
    <3> QED BY <3>2, <3>3, <3>4
  <2> QED BY <2>1, <2>2
<1>9. SupersededIsOver'
  <2> SUFFICES ASSUME NEW t \in superseded
               PROVE  /\ \A b \in Accounts : keyring[b] # t
                      /\ \A d \in Callers : Works(caller'[d]) /\ caller'[d].token = t =>
                           /\ caller'[d].step # "store"
                           /\ caller'[d].step = "post" => t \notin usable'[caller'[d].account]
    BY DEF SupersededIsOver, Works
  <2>1. t # issued + 1 /\ \A b \in Accounts : keyring[b] # t
    BY <1>2 DEF TokenInv, TokenTypes, SupersededIsOver
  <2>2. ASSUME NEW d \in Callers, Works(caller'[d]), caller'[d].token = t
        PROVE  /\ caller'[d].step # "store"
               /\ caller'[d].step = "post" => t \notin usable'[caller'[d].account]
    <3>1. d # c
      BY <2>1, <2>2
    <3>2. /\ caller[d].step # "store" /\ caller[d].account \in Accounts
          /\ caller[d].step = "post" => t \notin usable[caller[d].account]
      BY <2>2, <3>1 DEF TokenInv, TokenTypes, SupersededIsOver
    <3>3. \A b \in Accounts : usable'[b] \subseteq usable[b] \cup {issued + 1}
      BY DEF TokenInv, TokenTypes
    <3> QED BY <2>1, <3>1, <3>2, <3>3
  <2> QED BY <2>1, <2>2
<1> QED BY <1>3, <1>6, <1>7, <1>8, <1>9 DEF TokenInv

(* A thread stores the token in hand, and so supersedes the one it used. *)
LEMMA StoringKeeps ==
  ASSUME TokenInv, NEW c \in Callers, caller[c].step \in {"keep", "store"}, UNCHANGED <<usable, issued>>,
         keyring' = [keyring EXCEPT ![caller[c].account] = caller[c].token],
         superseded' = superseded \cup Used(caller[c]) \cup Replaced(caller[c].account),
         DOMAIN caller' = Callers, \A d \in Callers : d # c => caller'[d] = caller[d],
         \/ ~Works(caller'[c])
         \/ /\ DOMAIN caller'[c] = WorkFields /\ caller'[c].account = caller[c].account
            /\ caller'[c].token = caller[c].token /\ caller'[c].step \notin {"identify", "keep", "post", "store"}
  PROVE  TokenInv'
<1> DEFINE a == caller[c].account
<1>1. /\ Works(caller[c]) /\ a \in Accounts /\ caller[c].token \in 0..issued
      /\ Used(caller[c]) \subseteq 1..issued /\ Used(caller'[c]) = {}
  BY DEF Works, Used, TokenInv, TokenTypes
<1>0. Replaced(a) \subseteq 1..issued /\ superseded' \subseteq 1..issued
  <2>1. Replaced(a) \subseteq 1..issued
    BY <1>1 DEF Replaced, TokenInv, TokenTypes
  <2>2. superseded \subseteq 1..issued
    BY DEF TokenInv, TokenTypes
  <2> QED BY <1>1, <2>1, <2>2
<1>2. TokenTypes'
  <2>1. ASSUME NEW d \in Callers, Works(caller'[d])
        PROVE  /\ DOMAIN caller'[d] = WorkFields /\ caller'[d].account \in Accounts
               /\ caller'[d].token \in 0..issued' /\ Used(caller'[d]) \subseteq 1..issued'
    <3>1. CASE d = c
      BY <1>1, <2>1, <3>1
    <3>2. CASE d # c
      BY <2>1, <3>2 DEF TokenInv, TokenTypes
    <3> QED BY <3>1, <3>2
  <2> QED BY <1>0, <1>1, <2>1 DEF TokenInv, TokenTypes, Works, Used
<1>3. ASSUME NEW b \in Accounts, NEW t, Of(b, t)' PROVE Of(b, t)
  <2>1. CASE t \in usable'[b] \/ keyring'[b] = t
    BY <1>1, <2>1 DEF Of, TokenInv, TokenTypes
  <2>2. ASSUME NEW d \in Callers, Works(caller'[d]), caller'[d].account = b,
               caller'[d].token = t \/ t \in Used(caller'[d])
        PROVE  Of(b, t)
    <3>1. CASE d = c
      BY <1>1, <2>2, <3>1 DEF Of
    <3>2. CASE d # c
      BY <2>2, <3>2 DEF Of
    <3> QED BY <3>1, <3>2
  <2> QED BY <1>3, <2>1, <2>2 DEF Of, Works, Used
<1>4. OneOwner'
  BY <1>3 DEF TokenInv, OneOwner
<1>5. HandIsFresh'
  <2> SUFFICES ASSUME NEW d \in Callers, InHand(caller'[d])
               PROVE  /\ caller'[d].token # 0 /\ caller'[d].token \notin superseded'
                      /\ \A b \in Accounts : keyring'[b] # caller'[d].token
                      /\ \A e \in Callers : e # d /\ Works(caller'[e]) =>
                           caller'[e].token # caller'[d].token /\ caller'[d].token \notin Used(caller'[e])
    BY DEF HandIsFresh, InHand, Works, Used
  <2>1. d # c /\ caller'[d] = caller[d] /\ InHand(caller[d])
    BY DEF InHand, Works
  <2>2. /\ caller[d].token # 0 /\ caller[d].token \notin superseded
        /\ \A b \in Accounts : keyring[b] # caller[d].token
        /\ \A e \in Callers : e # d /\ Works(caller[e]) =>
             caller[e].token # caller[d].token /\ caller[d].token \notin Used(caller[e])
    BY <2>1 DEF TokenInv, HandIsFresh
  <2>3. caller[c].token # caller[d].token /\ caller[d].token \notin Used(caller[c])
    BY <1>1, <2>1, <2>2
  <2>4. ASSUME NEW e \in Callers, e # d, Works(caller'[e])
        PROVE  caller'[e].token # caller[d].token /\ caller[d].token \notin Used(caller'[e])
    <3>1. CASE e = c
      BY <1>1, <2>3, <2>4, <3>1
    <3>2. CASE e # c
      BY <2>2, <2>4, <3>2
    <3> QED BY <3>1, <3>2
  <2>5. \A b \in Accounts : keyring'[b] # caller[d].token
    BY <2>2, <2>3 DEF TokenInv, TokenTypes
  <2>6. caller[d].token \notin Replaced(a)
    BY <1>1, <2>2 DEF Replaced
  <2> QED BY <2>1, <2>2, <2>3, <2>4, <2>5, <2>6
<1>6. UsedIsOver'
  BY DEF TokenInv, UsedIsOver, Works
<1>7. SupersededIsOver'
  <2> SUFFICES ASSUME NEW t \in superseded'
               PROVE  /\ \A b \in Accounts : keyring'[b] # t
                      /\ \A d \in Callers : Works(caller'[d]) /\ caller'[d].token = t =>
                           /\ caller'[d].step # "store"
                           /\ caller'[d].step = "post" => t \notin usable[caller'[d].account]
    BY DEF SupersededIsOver, Works
  <2>1. \A b \in Accounts : keyring'[b] = IF b = a THEN caller[c].token ELSE keyring[b]
    BY DEF TokenInv, TokenTypes
  (* It is enough to look at the other threads as they were. *)
  <2>2. SUFFICES /\ caller[c].token # t /\ \A b \in Accounts : b # a => keyring[b] # t
                 /\ \A d \in Callers : d # c /\ Works(caller[d]) /\ caller[d].token = t =>
                      /\ caller[d].step # "store"
                      /\ caller[d].step = "post" => t \notin usable[caller[d].account]
    BY <2>1
  <2>3. CASE t \in superseded
    <3>1. caller[c].token # t
      <4>1. CASE InHand(caller[c])
        BY <2>3, <4>1 DEF TokenInv, HandIsFresh
      <4>2. CASE ~InHand(caller[c])
        BY <1>1, <2>3, <4>2 DEF InHand, TokenInv, SupersededIsOver
      <4> QED BY <4>1, <4>2
    <3> QED BY <2>3, <3>1 DEF TokenInv, SupersededIsOver
  <2>4. CASE t \in Used(caller[c])
    <3>1. caller[c].step = "store" /\ t \in caller[c].copy /\ t \in 1..issued /\ Of(a, t)
      BY <1>1, <2>4 DEF Used, Of
    <3>2. a \in Rotating /\ caller[c].token # t /\ \A b \in Accounts : t \notin usable[b]
      BY <3>1 DEF TokenInv, UsedIsOver
    <3>3. \A b \in Accounts : Of(b, t) => b = a
      BY <1>1, <3>1 DEF TokenInv, OneOwner
    <3>4. \A b \in Accounts : b # a => keyring[b] # t
      BY <3>3 DEF Of
    <3>5. ASSUME NEW d \in Callers, d # c, Works(caller[d]), caller[d].token = t
          PROVE  /\ caller[d].step # "store"
                 /\ caller[d].step = "post" => t \notin usable[caller[d].account]
      <4>1. caller[d].account \in Accounts /\ caller[d].account = a
        BY <3>3, <3>5 DEF Of, TokenInv, TokenTypes
      <4>2. caller[d].step # "store"
        BY <1>1, <2>4, <3>2, <3>5, <4>1 DEF InHand, TokenInv, HandIsFresh
      <4> QED BY <3>2, <4>1, <4>2
    <3> QED BY <3>2, <3>4, <3>5
  <2>5. CASE t \in Replaced(a)
    <3>1. t = keyring[a] /\ t # 0 /\ t \in 1..issued /\ Of(a, t)
      BY <1>0, <1>1, <2>5 DEF Replaced, Of
    <3>2. ASSUME NEW d \in Callers, caller[d].step \in {"post", "store"}, caller[d].account = a PROVE caller[d].token # t
      BY <2>5, <3>2 DEF Replaced, UnderWay, Mine
    <3>3. \A b \in Accounts : Of(b, t) => b = a
      BY <1>1, <3>1 DEF TokenInv, OneOwner
    <3>4. caller[c].token # t
      <4>1. CASE caller[c].step = "store"
        BY <3>2, <4>1
      <4>2. CASE caller[c].step = "keep"
        BY <1>1, <3>1, <4>2 DEF InHand, TokenInv, HandIsFresh
      <4> QED BY <4>1, <4>2
    <3>5. \A b \in Accounts : b # a => keyring[b] # t
      BY <3>3 DEF Of
    <3>6. ASSUME NEW d \in Callers, d # c, Works(caller[d]), caller[d].token = t
          PROVE  caller[d].step \notin {"post", "store"}
      <4>1. caller[d].account = a
        BY <3>3, <3>6 DEF Of, TokenInv, TokenTypes
      <4> QED BY <3>2, <3>6, <4>1
    <3> QED BY <3>4, <3>5, <3>6
  <2> QED BY <2>3, <2>4, <2>5
<1> QED BY <1>2, <1>4, <1>5, <1>6, <1>7 DEF TokenInv

LEMMA TokensStep == TokenInv /\ [ANext]_avars => TokenInv'
<1> SUFFICES ASSUME TokenInv, [ANext]_avars PROVE TokenInv'
  OBVIOUS
<1> USE DEF Does, Then, Ends, Mine, StoreFails, Wrote, NoWork, provider, tokens, files
<1>0. ASSUME NEW c \in Callers, Works(caller[c])
      PROVE  /\ DOMAIN caller[c] = WorkFields /\ caller[c].account \in Accounts /\ caller[c].token \in 0..issued
  BY <1>0 DEF TokenInv, TokenTypes
<1>1. DOMAIN caller = Callers /\ issued \in Nat /\ keyring \in [Accounts -> 0..issued]
      /\ usable \in [Accounts -> SUBSET (1..issued)]
  BY DEF TokenInv, TokenTypes
(* A step of a thread that neither issues a token nor changes what is stored. *)
<1>2. ASSUME UNCHANGED <<usable, issued, keyring, superseded>>, NEW c \in Callers,
             DOMAIN caller' = Callers, \A d \in Callers : d # c => caller'[d] = caller[d], GoesOn(c)
      PROVE  TokenInv'
  BY <1>1, <1>2, GoingOnKeeps DEF GoesOn
<1>3. ASSUME UNCHANGED <<usable, issued, keyring, superseded>>, NEW c \in Callers, Ends(c) PROVE TokenInv'
  <2>1. DOMAIN caller' = Callers /\ (\A d \in Callers : d # c => caller'[d] = caller[d]) /\ GoesOn(c)
    BY <1>1, <1>3 DEF GoesOn, Works
  <2> QED BY <1>2, <1>3, <2>1
<1>4. ASSUME UNCHANGED <<usable, issued, keyring, superseded>>, NEW c \in Callers, Works(caller[c]),
             DOMAIN caller' = Callers, \A d \in Callers : d # c => caller'[d] = caller[d],
             DOMAIN caller'[c] = DOMAIN caller[c], caller'[c].account = caller[c].account,
             caller'[c].token = caller[c].token, caller'[c].step \notin {"identify", "keep", "post", "store"}
      PROVE  TokenInv'
  <2>1. GoesOn(c)
    BY <1>0, <1>4 DEF GoesOn
  <2> QED BY <1>2, <1>4, <2>1
<1>5. ASSUME NEW c \in Callers, NEW a \in Accounts,
             BeginDisconnect(c, a) \/ BeginRefresh(c, a) \/ BeginRead(c, a) \/ BeginWrite(c, a)
      PROVE  TokenInv'
  <2>1. ASSUME NEW step \in {"forget", "load", "check", "widen"}, NEW then, Select(c, a, step, then)
        PROVE  TokenInv'
    <3>1. caller' = [caller EXCEPT ![c] = Caller(step, a, 0, {}, then)]
          /\ UNCHANGED <<usable, issued, keyring, superseded>>
      BY <2>1 DEF Select
    <3>2. DOMAIN caller' = Callers /\ (\A d \in Callers : d # c => caller'[d] = caller[d])
          /\ caller'[c] = Caller(step, a, 0, {}, then)
      BY <1>1, <3>1
    <3>3. GoesOn(c)
      BY <2>1, <3>2 DEF Caller, GoesOn, WorkFields
    <3> QED BY <1>2, <3>1, <3>2, <3>3
  <2>2. CASE BeginDisconnect(c, a)
    BY <2>1, <2>2 DEF BeginDisconnect
  <2>3. CASE BeginRefresh(c, a)
    BY <2>1, <2>3 DEF BeginRefresh
  <2>4. CASE BeginRead(c, a)
    BY <2>1, <2>4 DEF BeginRead
  <2>5. CASE BeginWrite(c, a)
    BY <2>1, <2>5 DEF BeginWrite
  <2> QED BY <1>5, <2>2, <2>3, <2>4, <2>5
<1>6. ASSUME NEW c \in Callers, BeginConnect(c) \/ Ages(c) PROVE TokenInv'
  <2>1. /\ UNCHANGED <<usable, issued, keyring, superseded>>
        /\ caller' = caller \/ caller' = [caller EXCEPT ![c] = [step |-> "browser"]]
    BY <1>6 DEF BeginConnect, Ages
  <2>2. DOMAIN caller' = Callers /\ (\A d \in Callers : d # c => caller'[d] = caller[d]) /\ GoesOn(c)
    BY <1>1, <2>1 DEF GoesOn, Works
  <2> QED BY <1>2, <2>1, <2>2
<1>7. ASSUME NEW c \in Callers, ConnectStep(c) PROVE TokenInv'
  <2>1. CASE NoCallback(c)
    BY <1>3, <2>1 DEF NoCallback
  <2>2. CASE Exchange(c)
    <3>1. CASE Ends(c) /\ UNCHANGED provider
      BY <1>3, <2>2, <3>1 DEF Exchange
    <3>2. CASE ~(Ends(c) /\ UNCHANGED provider)
      <4>1. PICK a \in Accounts :
              /\ usable' = [usable EXCEPT ![a] = @ \cup {issued'}] /\ issued' = issued + 1
              /\ caller' = [caller EXCEPT ![c] = Caller("identify", a, issued', {}, "connect")]
        BY <2>2, <3>2 DEF Exchange
      <4>2. usable' = [usable EXCEPT ![a] = (@ \ {}) \cup {issued + 1}]
        BY <4>1
      <4>3. UNCHANGED <<keyring, superseded>>
        BY <2>2 DEF Exchange
      <4>4. /\ DOMAIN caller' = Callers /\ (\A d \in Callers : d # c => caller'[d] = caller[d])
            /\ caller'[c] = Caller("identify", a, issued + 1, {}, "connect")
        BY <1>1, <4>1
      <4>5. /\ DOMAIN caller'[c] = WorkFields /\ caller'[c].account = a /\ caller'[c].token = issued + 1
            /\ caller'[c].step = "identify"
        BY <4>4 DEF Caller, WorkFields
      <4>6. {} \in SUBSET usable[a]
        OBVIOUS
      <4> QED BY <4>1, <4>2, <4>3, <4>4, <4>5, <4>6, IssuingKeeps
    <3> QED BY <3>1, <3>2
  <2>3. CASE Identify(c)
    <3>1. UNCHANGED <<usable, issued, keyring, superseded>> /\ Works(caller[c]) /\ caller[c].step = "identify"
      BY <2>3 DEF Identify, Works
    <3>2. CASE Then(c, "keep")
      <4>1. DOMAIN caller' = Callers /\ (\A d \in Callers : d # c => caller'[d] = caller[d])
        BY <1>1, <3>2
      <4>2. DOMAIN caller[c] = WorkFields /\ caller[c].account \in Accounts
        BY <1>0, <3>1
      <4>3. /\ DOMAIN caller'[c] = WorkFields /\ caller'[c].account = caller[c].account
            /\ caller'[c].token = caller[c].token /\ caller'[c].step = "keep"
        BY <1>1, <3>2, <4>2 DEF WorkFields
      <4>4. GoesOn(c)
        BY <3>1, <4>2, <4>3 DEF GoesOn
      <4> QED BY <1>2, <3>1, <4>1, <4>4
    <3> QED BY <1>3, <2>3, <3>1, <3>2 DEF Identify
  <2>4. CASE Keep(c)
    <3>1. CASE /\ Keeps(Mine(c), caller[c].token) /\ Then(c, "register")
               /\ superseded' = superseded \cup Replaced(Mine(c))
      <4>1. /\ caller[c].step = "keep" /\ Works(caller[c]) /\ UNCHANGED <<usable, issued>>
            /\ superseded' = superseded \cup Replaced(caller[c].account)
            /\ keyring' = [keyring EXCEPT ![caller[c].account] = caller[c].token]
        BY <2>4, <3>1 DEF Keep, Keeps, Works
      <4>2. DOMAIN caller' = Callers /\ (\A d \in Callers : d # c => caller'[d] = caller[d])
        BY <1>1, <3>1
      <4>3. DOMAIN caller[c] = WorkFields
        BY <1>0, <4>1
      <4>4. /\ DOMAIN caller'[c] = WorkFields /\ caller'[c].account = caller[c].account
            /\ caller'[c].token = caller[c].token /\ caller'[c].step = "register"
        BY <1>1, <3>1, <4>3 DEF WorkFields
      <4>5. superseded' = superseded \cup Used(caller[c]) \cup Replaced(caller[c].account)
        BY <4>1 DEF Used
      <4> QED BY <4>1, <4>2, <4>4, <4>5, StoringKeeps
    <3>2. CASE StoreFails(c) /\ UNCHANGED <<tokens, superseded>>
      BY <1>3, <2>4, <3>2 DEF Keep
    <3> QED BY <2>4, <3>1, <3>2 DEF Keep
  <2>5. CASE Register(c)
    BY <1>0, <1>1, <1>3, <1>4, <2>5 DEF Register, Works, WorkFields
  <2>6. CASE WriteList(c, "list", "grant")
    BY <1>0, <1>1, <1>3, <1>4, <2>6 DEF WriteList, Works, WorkFields
  <2>7. CASE Grant(c, "grant", {"read"}, "save_grant")
    BY <1>0, <1>1, <1>3, <1>4, <2>7 DEF Grant, Works, WorkFields
  <2>8. CASE WriteGrants(c, "save_grant", "enable") \/ WriteGrants(c, "save_enabled", "idle")
    BY <1>0, <1>1, <1>3, <1>4, <2>8 DEF WriteGrants, Works, WorkFields
  <2>9. CASE Enable(c)
    BY <1>0, <1>1, <1>3, <1>4, <2>9 DEF Enable, Works, WorkFields
  <2> QED BY <1>7, <2>1, <2>2, <2>3, <2>4, <2>5, <2>6, <2>7, <2>8, <2>9 DEF ConnectStep
<1>8. ASSUME NEW c \in Callers, DisconnectStep(c) PROVE TokenInv'
  <2>1. CASE Forget(c)
    <3>1. /\ UNCHANGED <<usable, issued, superseded>> /\ Works(caller[c])
          /\ caller' = [caller EXCEPT ![c].step = "unlist"] \/ Ends(c)
      BY <2>1 DEF Forget, Works
    <3>2. DOMAIN caller' = Callers /\ (\A d \in Callers : d # c => caller'[d] = caller[d])
      BY <1>1, <3>1
    <3>3. DOMAIN caller[c] = WorkFields /\ caller[c].account \in Accounts
      BY <1>0, <3>1
    <3>4. GoesOn(c)
      <4>1. CASE Ends(c)
        BY <1>1, <4>1 DEF GoesOn, Works
      <4>2. CASE caller' = [caller EXCEPT ![c].step = "unlist"]
        <5>1. /\ DOMAIN caller'[c] = WorkFields /\ caller'[c].account = caller[c].account
              /\ caller'[c].token = caller[c].token /\ caller'[c].step = "unlist"
          BY <1>1, <3>3, <4>2 DEF WorkFields
        <5> QED BY <3>1, <3>3, <5>1 DEF GoesOn
      <4> QED BY <3>1, <4>1, <4>2
    <3>5. \A d \in Callers : GoesOn(d)
      BY <3>2, <3>4 DEF GoesOn
    <3>6. keyring' \in [Accounts -> 0..issued] /\ \A a \in Accounts : keyring'[a] \in {0, keyring[a]}
      BY <1>1, <2>1 DEF Forget
    <3> QED BY <1>1, <3>1, <3>2, <3>5, <3>6, GoingOnKeeps
  <2>2. CASE Unlist(c)
    BY <1>0, <1>1, <1>3, <1>4, <2>2 DEF Unlist, Works, WorkFields
  <2>3. CASE WriteList(c, "unlisted", "drop")
    BY <1>0, <1>1, <1>3, <1>4, <2>3 DEF WriteList, Works, WorkFields
  <2>4. CASE DropGrant(c)
    BY <1>0, <1>1, <1>3, <1>4, <2>4 DEF DropGrant, Works, WorkFields
  <2>5. CASE WriteGrants(c, "dropped", "disable")
    BY <1>0, <1>1, <1>3, <1>4, <2>5 DEF WriteGrants, Works, WorkFields
  <2>6. CASE Disable(c)
    BY <1>3, <2>6 DEF Disable
  <2> QED BY <1>8, <2>1, <2>2, <2>3, <2>4, <2>5, <2>6 DEF DisconnectStep
<1>9. ASSUME NEW c \in Callers, RequestStep(c) PROVE TokenInv'
  <2>1. CASE Grant(c, "widen", {"write"}, "widened")
    BY <1>0, <1>1, <1>3, <1>4, <2>1 DEF Grant, Works, WorkFields
  <2>2. CASE WriteGrants(c, "widened", "check")
    BY <1>0, <1>1, <1>3, <1>4, <2>2 DEF WriteGrants, Works, WorkFields
  <2>3. CASE Check(c)
    BY <1>0, <1>1, <1>3, <1>4, <2>3 DEF Check, Works, WorkFields
  <2>4. CASE LoadToken(c)
    <3>1. UNCHANGED <<usable, issued, keyring, superseded>> /\ Works(caller[c])
      BY <2>4 DEF LoadToken, Works
    <3>2. CASE ~Ends(c)
      <4>1. PICK step \in {"post", "send"} :
              caller' = [caller EXCEPT ![c].step = step, ![c].token = keyring[Mine(c)]]
        BY <2>4, <3>2 DEF LoadToken
      <4>2. DOMAIN caller' = Callers /\ (\A d \in Callers : d # c => caller'[d] = caller[d])
        BY <1>1, <4>1
      <4>3. DOMAIN caller[c] = WorkFields /\ caller[c].account \in Accounts
        BY <1>0, <3>1
      <4>4. /\ DOMAIN caller'[c] = WorkFields /\ caller'[c].account = caller[c].account
            /\ caller'[c].token = keyring[caller[c].account] /\ caller'[c].step = step
        BY <1>1, <4>1, <4>3 DEF WorkFields
      <4>5. GoesOn(c)
        BY <4>3, <4>4 DEF GoesOn
      <4> QED BY <1>2, <3>1, <4>2, <4>5
    <3> QED BY <1>3, <3>1, <3>2
  <2>5. CASE PostRefresh(c)
    <3> DEFINE a == caller[c].account
               old == caller[c].token
    <3>1. /\ caller[c].step = "post" /\ Works(caller[c]) /\ UNCHANGED <<keyring, superseded>>
          /\ DOMAIN caller[c] = WorkFields /\ a \in Accounts /\ old \in 0..issued
      BY <1>0, <2>5 DEF PostRefresh, Works
    <3>2. CASE Ends(c) /\ UNCHANGED provider
      BY <1>3, <3>1, <3>2
    <3>3. CASE ~(Ends(c) /\ UNCHANGED provider) /\ a \in Rotating
      <4>1. /\ old \in usable[a] /\ issued' = issued + 1
            /\ usable' = [usable EXCEPT ![a] = (@ \ {old}) \cup {issued + 1}]
            /\ \/ caller' = [caller EXCEPT ![c].step = "store", ![c].token = Kept(old, issued + 1), ![c].copy = {old}]
               \/ Ends(c)
        BY <2>5, <3>3 DEF PostRefresh
      <4>2. Kept(old, issued + 1) = issued + 1
        BY <1>1 DEF Kept
      <4>3. DOMAIN caller' = Callers /\ (\A d \in Callers : d # c => caller'[d] = caller[d])
        BY <1>1, <4>1
      <4>4. \/ ~Works(caller'[c])
            \/ /\ DOMAIN caller'[c] = WorkFields /\ caller'[c].account = a /\ caller'[c].token = issued + 1
               /\ caller'[c].step = "store" /\ caller'[c].copy = {old} /\ a \in Rotating
        BY <1>1, <3>1, <3>3, <4>1, <4>2 DEF WorkFields, Works
      <4>5. {old} \in SUBSET usable[a]
        BY <4>1
      <4> HIDE DEF a, old
      <4>6. {old} # {} => Works(caller[c]) /\ {old} = {caller[c].token}
        BY <3>1 DEF old
      <4> QED BY <3>1, <4>1, <4>3, <4>4, <4>5, <4>6, IssuingKeeps
    <3>4. CASE ~(Ends(c) /\ UNCHANGED provider) /\ a \notin Rotating
      <4>1. /\ old \in usable[a] /\ issued' = issued /\ usable' = [usable EXCEPT ![a] = @]
            /\ \/ caller' = [caller EXCEPT ![c].step = "store", ![c].token = Kept(old, 0), ![c].copy = {}]
               \/ Ends(c)
        BY <2>5, <3>4 DEF PostRefresh
      <4>2. UNCHANGED <<usable, issued, keyring, superseded>>
        BY <1>1, <3>1, <4>1
      <4>3. CASE ~Ends(c)
        <5>1. DOMAIN caller' = Callers /\ (\A d \in Callers : d # c => caller'[d] = caller[d])
          BY <1>1, <4>1
        <5>2. /\ DOMAIN caller'[c] = WorkFields /\ caller'[c].account = a /\ caller'[c].token = old
              /\ caller'[c].step = "store" /\ caller'[c].copy = {}
          BY <1>1, <3>1, <4>1, <4>3 DEF WorkFields, Kept
        <5>3. GoesOn(c)
          BY <3>1, <3>4, <4>1, <5>2 DEF GoesOn
        <5> QED BY <1>2, <4>2, <5>1, <5>3
      <4> QED BY <1>3, <4>2, <4>3
    <3> QED BY <3>2, <3>3, <3>4
  <2>6. CASE StoreRefreshed(c)
    <3>1. CASE StoreFails(c) /\ UNCHANGED <<tokens, superseded>>
      BY <1>3, <2>6, <3>1 DEF StoreRefreshed
    <3>2. CASE ~(StoreFails(c) /\ UNCHANGED <<tokens, superseded>>)
      <4>1. /\ caller[c].step = "store" /\ Works(caller[c]) /\ UNCHANGED <<usable, issued>>
            /\ keyring' = [keyring EXCEPT ![caller[c].account] = caller[c].token]
            /\ superseded' = superseded \cup caller[c].copy \cup Replaced(caller[c].account)
            /\ Ends(c) \/ caller' = [caller EXCEPT ![c].step = "send", ![c].copy = {}]
        BY <2>6, <3>2 DEF StoreRefreshed, Keeps, Works
      <4>2. DOMAIN caller' = Callers /\ (\A d \in Callers : d # c => caller'[d] = caller[d])
        BY <1>1, <4>1
      <4>3. DOMAIN caller[c] = WorkFields
        BY <1>0, <4>1
      <4>4. \/ ~Works(caller'[c])
            \/ /\ DOMAIN caller'[c] = WorkFields /\ caller'[c].account = caller[c].account
               /\ caller'[c].token = caller[c].token /\ caller'[c].step = "send"
        BY <1>1, <4>1, <4>3 DEF WorkFields, Works
      <4>5. superseded' = superseded \cup Used(caller[c]) \cup Replaced(caller[c].account)
        BY <4>1 DEF Used
      <4> QED BY <4>1, <4>2, <4>4, <4>5, StoringKeeps
    <3> QED BY <3>1, <3>2
  <2>7. CASE Send(c)
    BY <1>3, <2>7 DEF Send
  <2> QED BY <1>9, <2>1, <2>2, <2>3, <2>4, <2>5, <2>6, <2>7 DEF RequestStep
<1>10. ASSUME NEW a \in Accounts, AccessExpires(a) \/ Withdraw(a) PROVE TokenInv'
  <2>1. (\A c \in Callers : GoesOn(c)) /\ UNCHANGED <<caller, issued, superseded, keyring>>
    BY <1>10 DEF AccessExpires, Withdraw, GoesOn
  <2>2. usable' \in [Accounts -> SUBSET (1..issued)] /\ \A b \in Accounts : usable'[b] \subseteq usable[b]
    BY <1>1, <1>10 DEF AccessExpires, Withdraw
  <2> QED BY <1>1, <2>1, <2>2, GoingOnKeeps
<1>11. CASE Restart
  BY <1>1, <1>11, GoingOnKeeps DEF Restart, GoesOn, Works
<1>12. CASE UNCHANGED avars
  BY <1>1, <1>12, GoingOnKeeps DEF avars, GoesOn
<1> QED BY <1>5, <1>6, <1>7, <1>8, <1>9, <1>10, <1>11, <1>12 DEF ANext

(* A refresh token that a stored one was obtained with is never stored again, nor
   is one whose place another took while no refresh of it was under way, for any
   number of threads and accounts, whichever of them rotate, whatever answers are
   lost, stores fail and restarts happen (OAuthBroker.refresh).  A token that a
   refresh has in hand when the account is connected again may come back. *)
THEOREM TokensNeverComeBack == ASpec => []NoTokenComesBack
<1>1. TokenInv => NoTokenComesBack
  BY DEF TokenInv, SupersededIsOver, NoTokenComesBack
<1> QED BY <1>1, TokensStart, TokensStep, PTL DEF ASpec

-----------------------------------------------------------------------------
(* The types of the accounts *)

(* The types of the accounts; what a thread read, and is about to write, depends on
   its step. *)
ListSteps  == {"list", "unlisted"}
GrantSteps == {"save_grant", "save_enabled", "dropped", "widened"}

WorkTyped(r) ==
  /\ DOMAIN r = WorkFields /\ r.step \in Steps
  /\ r.account \in Accounts /\ r.token \in 0..MaxTokens
  /\ r.then \in {"refresh", "read", "write", "connect"}
  /\ r.step \in ListSteps => r.copy \subseteq Accounts
  /\ r.step \in GrantSteps => r.copy \in Grants
  /\ r.step = "store" => r.copy \subseteq 1..MaxTokens

ThreadTyped(r) == r = NoWork \/ r = [step |-> "browser"] \/ WorkTyped(r)

ThreadTypes == DOMAIN caller = Callers /\ \A c \in Callers : ThreadTyped(caller[c])

TokenBounds ==
  /\ usable \in [Accounts -> SUBSET (1..MaxTokens)] /\ issued \in 0..MaxTokens
  /\ keyring \in [Accounts -> 0..MaxTokens]
  /\ expired \subseteq Accounts /\ superseded \subseteq 1..MaxTokens

RegistryTypes ==
  /\ listed \subseteq Accounts /\ listFile \subseteq Accounts
  /\ grants \in Grants /\ grantFile \in Grants

FlowTypes == pending \in [Callers -> {"none", "open", "old"}] /\ begun \in 0..MaxOperations

AccountTypes == ThreadTypes /\ TokenBounds /\ RegistryTypes /\ FlowTypes

LEMMA AccountTypesAre == AccountTypes => ATypeOK
<1> SUFFICES ASSUME AccountTypes PROVE ATypeOK
  OBVIOUS
<1>1. \A c \in Callers :
       \/ caller[c] = NoWork
       \/ caller[c] = [step |-> "browser"]
       \/ /\ caller[c].step \in Steps
          /\ caller[c].account \in Accounts /\ caller[c].token \in 0..MaxTokens
          /\ caller[c].then \in {"refresh", "read", "write", "connect"}
  BY DEF AccountTypes, ThreadTypes, ThreadTyped, WorkTyped
<1> QED BY <1>1 DEF AccountTypes, TokenBounds, RegistryTypes, FlowTypes, ATypeOK

LEMMA NoGrantsAreGrants == [a \in Accounts |-> NoGrant] \in Grants
BY DEF NoGrant, Grants

LEMMA AccountTypesInitially == AInit => AccountTypes
<1> SUFFICES ASSUME AInit PROVE AccountTypes
  OBVIOUS
<1>1. MaxTokens \in Nat /\ MaxOperations \in Nat
  BY TokensAssumption
<1>2. ThreadTypes
  BY DEF AInit, ThreadTypes, ThreadTyped
<1>3. TokenBounds
  BY <1>1 DEF AInit, TokenBounds
<1>4. RegistryTypes /\ FlowTypes
  BY <1>1, NoGrantsAreGrants DEF AInit, RegistryTypes, FlowTypes
<1> QED BY <1>2, <1>3, <1>4 DEF AccountTypes

(* A thread goes on with work of its type. *)
LEMMA ThreadGoesOn ==
  ASSUME ThreadTypes, NEW c \in Callers, NEW r, ThreadTyped(r), caller' = [caller EXCEPT ![c] = r]
  PROVE  ThreadTypes'
<1>1. DOMAIN caller' = Callers /\ \A d \in Callers : ThreadTyped(caller'[d])
  BY DEF ThreadTypes
<1> QED BY <1>1 DEF ThreadTypes, ThreadTyped, WorkTyped

LEMMA ThreadEnds ==
  ASSUME ThreadTypes, NEW c \in Callers, Ends(c)
  PROVE  ThreadTypes'
BY ThreadGoesOn DEF Ends, ThreadTyped

(* A thread at a step of an operation has its work. *)
LEMMA ThreadHasWork ==
  ASSUME ThreadTypes, NEW c \in Callers, caller[c].step \notin {"idle", "browser"}
  PROVE  WorkTyped(caller[c])
BY DEF ThreadTypes, ThreadTyped, NoWork

(* A step for which what was read does not matter. *)
LEMMA ThreadSteps ==
  ASSUME ThreadTypes, NEW c \in Callers, caller[c].step \notin {"idle", "browser"},
         NEW step \in Steps \ (ListSteps \cup GrantSteps \cup {"store"}), NEW r, DOMAIN r = WorkFields,
         r.step = step, r.account = caller[c].account, r.then = caller[c].then,
         r.token \in 0..MaxTokens, caller' = [caller EXCEPT ![c] = r]
  PROVE  ThreadTypes'
<1>1. WorkTyped(caller[c])
  BY ThreadHasWork
<1>2. WorkTyped(r)
  BY <1>1 DEF WorkTyped
<1> QED BY <1>2, ThreadGoesOn DEF ThreadTyped

(* A thread goes on to such a step with the token it has. *)
LEMMA ThreadMoves ==
  ASSUME ThreadTypes, NEW c \in Callers, caller[c].step \notin {"idle", "browser"},
         NEW step \in Steps \ (ListSteps \cup GrantSteps \cup {"store"}), Then(c, step) \/ Wrote(c, step)
  PROVE  ThreadTypes'
<1>1. WorkTyped(caller[c])
  BY ThreadHasWork
<1>2. DOMAIN caller[c] = WorkFields /\ caller[c].token \in 0..MaxTokens /\ c \in DOMAIN caller
  BY <1>1 DEF WorkTyped, ThreadTypes
<1>3. CASE Then(c, step)
  <2> DEFINE r == [caller[c] EXCEPT !.step = step]
  <2>1. caller' = [caller EXCEPT ![c] = r]
    BY <1>3 DEF Then
  <2>2. DOMAIN r = WorkFields /\ r.step = step /\ r.account = caller[c].account /\ r.then = caller[c].then
        /\ r.token = caller[c].token
    BY <1>2 DEF WorkFields
  <2> HIDE DEF r
  <2> QED BY <1>2, <2>1, <2>2, ThreadSteps
<1>4. CASE Wrote(c, step)
  <2> DEFINE r == [caller[c] EXCEPT !.step = step, !.copy = {}]
  <2>1. caller' = [caller EXCEPT ![c] = r]
    BY <1>4 DEF Wrote
  <2>2. DOMAIN r = WorkFields /\ r.step = step /\ r.account = caller[c].account /\ r.then = caller[c].then
        /\ r.token = caller[c].token
    BY <1>2 DEF WorkFields
  <2> HIDE DEF r
  <2> QED BY <1>2, <2>1, <2>2, ThreadSteps
<1> QED BY <1>3, <1>4

(* A thread reads what it is about to write. *)
LEMMA ThreadCopies ==
  ASSUME ThreadTypes, NEW c \in Callers, caller[c].step \notin {"idle", "browser"}, NEW step, NEW copy,
         \/ step \in ListSteps /\ copy \subseteq Accounts
         \/ step \in GrantSteps /\ copy \in Grants,
         caller' = [caller EXCEPT ![c].step = step, ![c].copy = copy]
  PROVE  ThreadTypes'
<1>1. WorkTyped(caller[c])
  BY ThreadHasWork
<1> DEFINE r == [caller[c] EXCEPT !.step = step, !.copy = copy]
<1>2. caller' = [caller EXCEPT ![c] = r]
  OBVIOUS
<1>3. /\ DOMAIN r = WorkFields /\ r.step = step /\ r.copy = copy /\ r.account = caller[c].account
      /\ r.then = caller[c].then /\ r.token = caller[c].token
  BY <1>1 DEF WorkTyped, WorkFields
<1> HIDE DEF r
<1>4. WorkTyped(r)
  BY <1>1, <1>3 DEF WorkTyped, ListSteps, GrantSteps, Steps
<1> QED BY <1>2, <1>4, ThreadGoesOn DEF ThreadTyped

(* An operation begins, or a flow has its token. *)
LEMMA ThreadBegins ==
  ASSUME ThreadTypes, NEW c \in Callers, NEW a \in Accounts, NEW token \in 0..MaxTokens,
         NEW step \in Steps \ (ListSteps \cup GrantSteps \cup {"store"}),
         NEW then \in {"refresh", "read", "write", "connect"},
         caller' = [caller EXCEPT ![c] = Caller(step, a, token, {}, then)]
  PROVE  ThreadTypes'
<1>1. WorkTyped(Caller(step, a, token, {}, then))
  BY DEF WorkTyped, Caller, WorkFields
<1> QED BY <1>1, ThreadGoesOn DEF ThreadTyped

LEMMA AccountTypesKept == AccountTypes /\ [ANext]_avars => AccountTypes'
<1> SUFFICES ASSUME AccountTypes, [ANext]_avars PROVE AccountTypes'
  OBVIOUS
<1> USE DEF Does, provider, tokens, files
<1>1. ThreadTypes /\ TokenBounds /\ RegistryTypes /\ FlowTypes
  BY DEF AccountTypes
<1>2. MaxTokens \in Nat /\ MaxOperations \in Nat
  BY TokensAssumption
<1>3. ASSUME NEW c \in Callers, caller[c].step \notin {"idle", "browser"}
      PROVE  WorkTyped(caller[c]) /\ Mine(c) \in Accounts
  BY <1>1, <1>3, ThreadHasWork DEF WorkTyped, Mine
(* Steps that change only the thread, and perhaps its flow. *)
<1>4. ASSUME ThreadTypes', FlowTypes', UNCHANGED <<provider, tokens, listed, grants, files, superseded>>
      PROVE  AccountTypes'
  BY <1>1, <1>4 DEF AccountTypes, TokenBounds, RegistryTypes
<1>5. ASSUME UNCHANGED <<pending, begun>> PROVE FlowTypes'
  BY <1>1, <1>5 DEF FlowTypes
<1>6. Purged \in [Callers -> {"none", "open", "old"}]
  BY <1>1 DEF Purged, FlowTypes
<1>7. ASSUME NEW c \in Callers, BeginConnect(c) PROVE AccountTypes'
  <2>1. ThreadTypes'
    BY <1>1, <1>7, ThreadGoesOn DEF BeginConnect, ThreadTyped
  <2>2. FlowTypes'
    BY <1>1, <1>2, <1>6, <1>7 DEF BeginConnect, FlowTypes
  <2> QED BY <1>4, <1>7, <2>1, <2>2 DEF BeginConnect
<1>8. ASSUME NEW c \in Callers, Ages(c) PROVE AccountTypes'
  <2>1. ThreadTypes'
    BY <1>1, <1>8 DEF Ages, ThreadTypes, ThreadTyped, WorkTyped
  <2>2. FlowTypes'
    BY <1>1, <1>8 DEF Ages, FlowTypes
  <2> QED BY <1>4, <1>8, <2>1, <2>2 DEF Ages
<1>9. ASSUME NEW c \in Callers, Ends(c), UNCHANGED <<provider, tokens, listed, grants, files, pending, begun, superseded>>
      PROVE  AccountTypes'
  BY <1>1, <1>4, <1>5, <1>9, ThreadEnds
<1>10. ASSUME NEW c \in Callers, NoCallback(c) \/ Send(c) PROVE AccountTypes'
  BY <1>9, <1>10 DEF NoCallback, Send
<1>11. ASSUME NEW c \in Callers, Exchange(c) PROVE AccountTypes'
  <2>1. CASE Ends(c) /\ pending' = Purged /\ UNCHANGED provider
    <3>1. FlowTypes'
      BY <1>1, <1>6, <1>11, <2>1 DEF Exchange, FlowTypes
    <3> QED BY <1>1, <1>4, <1>11, <2>1, <3>1, ThreadEnds DEF Exchange
  <2>2. ASSUME NEW a \in Accounts, issued < MaxTokens, issued' = issued + 1,
               usable' = [usable EXCEPT ![a] = @ \cup {issued'}],
               caller' = [caller EXCEPT ![c] = Caller("identify", a, issued', {}, "connect")],
               pending' = [Purged EXCEPT ![c] = "none"]
        PROVE  AccountTypes'
    <3>1. issued' \in 1..MaxTokens
      BY <1>1, <1>2, <2>2 DEF TokenBounds
    <3>2. TokenBounds'
      <4>1. usable' \in [Accounts -> SUBSET (1..MaxTokens)]
        BY <1>1, <2>2, <3>1 DEF TokenBounds
      <4> QED BY <1>1, <1>2, <1>11, <3>1, <4>1 DEF TokenBounds, Exchange
    <3>3. ThreadTypes'
      <4>1. issued' \in 0..MaxTokens /\ "identify" \in Steps \ (ListSteps \cup GrantSteps \cup {"store"})
        BY <3>1 DEF Steps, ListSteps, GrantSteps
      <4> QED BY <1>1, <2>2, <4>1, ThreadBegins
    <3>4. FlowTypes'
      BY <1>1, <1>6, <1>11, <2>2 DEF FlowTypes, Exchange
    <3> QED BY <1>1, <1>11, <3>2, <3>3, <3>4 DEF AccountTypes, RegistryTypes, Exchange
  <2> QED BY <1>11, <2>1, <2>2 DEF Exchange
<1>12. ASSUME NEW c \in Callers, Identify(c) PROVE AccountTypes'
  <2>1. CASE Then(c, "keep")
    <3>1. ThreadTypes'
      BY <1>1, <1>12, <2>1, ThreadMoves DEF Identify, Steps, ListSteps, GrantSteps
    <3> QED BY <1>4, <1>5, <1>12, <3>1 DEF Identify
  <2> QED BY <1>9, <1>12, <2>1 DEF Identify
(* What is stored for an account. *)
<1>13. ASSUME NEW a \in Accounts, NEW token \in 0..MaxTokens, Keeps(a, token) PROVE
              keyring' \in [Accounts -> 0..MaxTokens] /\ expired' \subseteq Accounts
  BY <1>1, <1>13 DEF Keeps, TokenBounds
<1>13a. ASSUME NEW a \in Accounts PROVE Replaced(a) \subseteq 1..MaxTokens
  BY <1>1, <1>13a DEF Replaced, TokenBounds
<1>14. ASSUME NEW c \in Callers, Keep(c) PROVE AccountTypes'
  <2>1. WorkTyped(caller[c]) /\ Mine(c) \in Accounts
    BY <1>3, <1>14 DEF Keep
  <2>2. CASE /\ Keeps(Mine(c), caller[c].token) /\ Then(c, "register")
             /\ superseded' = superseded \cup Replaced(Mine(c))
    <3>1. ThreadTypes'
      BY <1>1, <1>14, <2>2, ThreadMoves DEF Keep, Steps, ListSteps, GrantSteps
    <3>2. keyring' \in [Accounts -> 0..MaxTokens] /\ expired' \subseteq Accounts
      BY <1>13, <2>1, <2>2 DEF WorkTyped
    <3>3. superseded' \subseteq 1..MaxTokens
      BY <1>1, <1>14, <1>13a, <2>1, <2>2 DEF Keep, TokenBounds, StoreFails, Ends, Then, NoWork, Does
    <3>4. TokenBounds'
      BY <1>1, <1>14, <3>2, <3>3 DEF Keep, TokenBounds
    <3> QED BY <1>1, <1>5, <1>14, <3>1, <3>4 DEF Keep, AccountTypes, RegistryTypes
  <2> QED BY <1>9, <1>14, <2>2 DEF Keep, StoreFails
(* The registry and the files. *)
<1>15. ASSUME NEW c \in Callers, Register(c) \/ Unlist(c) PROVE AccountTypes'
  <2>1. WorkTyped(caller[c]) /\ Mine(c) \in Accounts /\ caller[c].step \notin {"idle", "browser"}
    BY <1>3, <1>15 DEF Register, Unlist
  <2>2. ThreadTypes'
    <3>1. CASE Register(c)
      <4>1. listFile \cup {Mine(c)} \subseteq Accounts
        BY <1>1, <2>1 DEF RegistryTypes
      <4> QED BY <1>1, <2>1, <3>1, <4>1, ThreadCopies DEF Register, ListSteps
    <3>2. CASE Unlist(c)
      <4>1. listFile \ {Mine(c)} \subseteq Accounts
        BY <1>1 DEF RegistryTypes
      <4> QED BY <1>1, <2>1, <3>2, <4>1, ThreadCopies DEF Unlist, ListSteps
    <3> QED BY <1>15, <3>1, <3>2
  <2>3. RegistryTypes'
    BY <1>1, <1>15, <2>1 DEF Register, Unlist, RegistryTypes
  <2> QED BY <1>1, <1>5, <1>15, <2>2, <2>3 DEF AccountTypes, TokenBounds, Register, Unlist
<1>16. ASSUME NEW c \in Callers, NEW step \in ListSteps, NEW next \in {"grant", "drop"}, WriteList(c, step, next)
       PROVE  AccountTypes'
  <2>1. caller[c].step = step /\ step \notin {"idle", "browser"}
    BY <1>16 DEF WriteList, ListSteps
  <2>2. WorkTyped(caller[c])
    BY <1>3, <2>1
  <2>3. CASE listFile' = caller[c].copy /\ Wrote(c, next)
    <3>1. ThreadTypes'
      BY <1>1, <2>1, <2>3, ThreadMoves DEF Steps, ListSteps, GrantSteps
    <3>2. RegistryTypes'
      BY <1>1, <1>16, <2>1, <2>2, <2>3 DEF WriteList, RegistryTypes, WorkTyped
    <3> QED BY <1>1, <1>5, <1>16, <3>1, <3>2 DEF WriteList, AccountTypes, TokenBounds
  <2> QED BY <1>9, <1>16, <2>3 DEF WriteList, StoreFails
<1>17. ASSUME NEW c \in Callers, NEW step \in Steps, NEW scopes \in SUBSET {"read", "write"}, NEW next \in GrantSteps,
              Grant(c, step, scopes, next)
       PROVE  AccountTypes'
  <2>1. caller[c].step \notin {"idle", "browser"}
    BY <1>17 DEF Grant, Steps
  <2>2. Mine(c) \in Accounts
    BY <1>3, <2>1
  <2> DEFINE old == grants[Mine(c)]
             new == Granted(old, scopes)
  <2>3. old \in [scopes : SUBSET {"read", "write"}, enabled : BOOLEAN]
    BY <1>1, <2>2 DEF RegistryTypes, Grants
  <2>4. new \in [scopes : SUBSET {"read", "write"}, enabled : BOOLEAN]
    <3> HIDE DEF old
    <3>1. old.scopes \cup scopes \in SUBSET {"read", "write"}
      BY <2>3
    <3> QED BY <2>3, <3>1 DEF Granted
  <2>5. grants' = [grants EXCEPT ![Mine(c)] = new]
    BY <1>17 DEF Grant
  <2> HIDE DEF new
  <2>6. grants' \in Grants
    BY <1>1, <2>4, <2>5 DEF RegistryTypes, Grants
  <2>7. ThreadTypes'
    BY <1>1, <1>17, <2>1, <2>6, ThreadCopies DEF Grant
  <2>8. RegistryTypes'
    BY <1>1, <1>17, <2>6 DEF Grant, RegistryTypes
  <2> QED BY <1>1, <1>5, <1>17, <2>7, <2>8 DEF Grant, AccountTypes, TokenBounds
<1>18. ASSUME NEW c \in Callers, NEW enabled \in BOOLEAN, caller[c].step \notin {"idle", "browser"},
              grants' = [grants EXCEPT ![Mine(c)].enabled = enabled]
       PROVE  grants' \in Grants
  <2>1. Mine(c) \in Accounts
    BY <1>3, <1>18
  <2>2. grants \in Grants
    BY <1>1 DEF RegistryTypes
  <2> QED BY <1>18, <2>1, <2>2 DEF Grants
<1>19. ASSUME NEW c \in Callers, Enable(c) PROVE AccountTypes'
  <2>1. grants' \in Grants
    BY <1>18, <1>19 DEF Enable
  <2>2. ThreadTypes'
    BY <1>1, <1>19, <2>1, ThreadCopies DEF Enable, GrantSteps
  <2>3. RegistryTypes'
    BY <1>1, <1>19, <2>1 DEF Enable, RegistryTypes
  <2> QED BY <1>1, <1>5, <1>19, <2>2, <2>3 DEF Enable, AccountTypes, TokenBounds
<1>20. ASSUME NEW c \in Callers, NEW step \in GrantSteps, NEW next \in {"enable", "idle", "disable", "check"},
              WriteGrants(c, step, next)
       PROVE  AccountTypes'
  <2>1. caller[c].step = step /\ step \notin {"idle", "browser"}
    BY <1>20 DEF WriteGrants, GrantSteps
  <2>2. WorkTyped(caller[c])
    BY <1>3, <2>1
  <2>3. CASE grantFile' = caller[c].copy /\ IF next = "idle" THEN Ends(c) ELSE Wrote(c, next)
    <3>1. ThreadTypes'
      <4>1. CASE next = "idle"
        BY <1>1, <2>3, <4>1, ThreadEnds
      <4>2. CASE next # "idle"
        BY <1>1, <2>1, <2>3, <4>2, ThreadMoves DEF Steps, ListSteps, GrantSteps
      <4> QED BY <4>1, <4>2
    <3>2. RegistryTypes'
      BY <1>1, <1>20, <2>1, <2>2, <2>3 DEF WriteGrants, RegistryTypes, WorkTyped
    <3> QED BY <1>1, <1>5, <1>20, <3>1, <3>2 DEF WriteGrants, AccountTypes, TokenBounds
  <2> QED BY <1>9, <1>20, <2>3 DEF WriteGrants, StoreFails
<1>21. ASSUME NEW c \in Callers, ConnectStep(c) PROVE AccountTypes'
  BY <1>10, <1>11, <1>12, <1>14, <1>15, <1>16, <1>17, <1>19, <1>20, <1>21
     DEF ConnectStep, ListSteps, GrantSteps, Steps
<1>22. ASSUME NEW c \in Callers, NEW a \in Accounts,
              BeginDisconnect(c, a) \/ BeginRefresh(c, a) \/ BeginRead(c, a) \/ BeginWrite(c, a)
       PROVE  AccountTypes'
  <2>1. PICK step \in {"forget", "load", "check", "widen"}, then \in {"refresh", "read", "write", "connect"} :
          Select(c, a, step, then)
    BY <1>22 DEF BeginDisconnect, BeginRefresh, BeginRead, BeginWrite
  <2>2. step \in Steps \ (ListSteps \cup GrantSteps \cup {"store"}) /\ 0 \in 0..MaxTokens
    BY <1>2 DEF Steps, ListSteps, GrantSteps
  <2>3. ThreadTypes'
    BY <1>1, <2>1, <2>2, ThreadBegins DEF Select
  <2>4. FlowTypes'
    BY <1>1, <1>2, <2>1 DEF Select, FlowTypes
  <2> QED BY <1>4, <2>1, <2>3, <2>4 DEF Select
<1>23. ASSUME NEW c \in Callers, Forget(c) PROVE AccountTypes'
  <2>1. Mine(c) \in Accounts
    BY <1>3, <1>23 DEF Forget
  <2>2. CASE keyring' = [keyring EXCEPT ![Mine(c)] = 0] /\ Then(c, "unlist")
    <3>1. ThreadTypes'
      BY <1>1, <1>23, <2>2, ThreadMoves DEF Forget, Steps, ListSteps, GrantSteps
    <3>2. TokenBounds'
      BY <1>1, <1>2, <1>23, <2>1, <2>2 DEF Forget, TokenBounds
    <3> QED BY <1>1, <1>5, <1>23, <3>1, <3>2 DEF Forget, AccountTypes, RegistryTypes
  <2> QED BY <1>9, <1>23, <2>2 DEF Forget, StoreFails
<1>24. ASSUME NEW c \in Callers, DropGrant(c) PROVE AccountTypes'
  <2>1. [grantFile EXCEPT ![Mine(c)] = NoGrant] \in Grants
    BY <1>1 DEF RegistryTypes, Grants, NoGrant
  <2>2. ThreadTypes'
    BY <1>1, <1>24, <2>1, ThreadCopies DEF DropGrant, GrantSteps
  <2> QED BY <1>4, <1>5, <1>24, <2>2 DEF DropGrant
<1>25. ASSUME NEW c \in Callers, Disable(c) PROVE AccountTypes'
  <2>1. grants' \in Grants
    BY <1>18, <1>25 DEF Disable
  <2>2. ThreadTypes'
    BY <1>1, <1>25, ThreadEnds DEF Disable
  <2>3. RegistryTypes'
    BY <1>1, <1>25, <2>1 DEF Disable, RegistryTypes
  <2> QED BY <1>1, <1>5, <1>25, <2>2, <2>3 DEF Disable, AccountTypes, TokenBounds
<1>26. ASSUME NEW c \in Callers, DisconnectStep(c) PROVE AccountTypes'
  BY <1>15, <1>16, <1>20, <1>23, <1>24, <1>25, <1>26 DEF DisconnectStep, ListSteps, GrantSteps
<1>27. ASSUME NEW c \in Callers, Check(c) PROVE AccountTypes'
  <2>1. CASE Then(c, "load")
    <3>1. ThreadTypes'
      BY <1>1, <1>27, <2>1, ThreadMoves DEF Check, Steps, ListSteps, GrantSteps
    <3> QED BY <1>4, <1>5, <1>27, <3>1 DEF Check
  <2> QED BY <1>9, <1>27, <2>1 DEF Check
<1>28. ASSUME NEW c \in Callers, LoadToken(c) PROVE AccountTypes'
  <2>1. WorkTyped(caller[c]) /\ Mine(c) \in Accounts /\ caller[c].step \notin {"idle", "browser"}
    BY <1>3, <1>28 DEF LoadToken
  <2>2. keyring[Mine(c)] \in 0..MaxTokens
    BY <1>1, <2>1 DEF TokenBounds
  <2>3. ASSUME NEW step \in {"post", "send"},
               caller' = [caller EXCEPT ![c].step = step, ![c].token = keyring[Mine(c)]]
        PROVE  AccountTypes'
    <3> DEFINE r == [caller[c] EXCEPT !.step = step, !.token = keyring[Mine(c)]]
    <3>1. caller' = [caller EXCEPT ![c] = r]
      BY <2>3
    <3>2. /\ DOMAIN r = WorkFields /\ r.step = step /\ r.account = caller[c].account /\ r.then = caller[c].then
          /\ r.token \in 0..MaxTokens
      BY <2>1, <2>2 DEF WorkTyped, WorkFields
    <3>3. step \in Steps \ (ListSteps \cup GrantSteps \cup {"store"})
      BY DEF Steps, ListSteps, GrantSteps
    <3> HIDE DEF r
    <3>4. ThreadTypes'
      BY <1>1, <2>1, <3>1, <3>2, <3>3, ThreadSteps
    <3> QED BY <1>4, <1>5, <1>28, <3>4 DEF LoadToken
  <2> QED BY <1>9, <1>28, <2>3 DEF LoadToken, StoreFails
<1>29. ASSUME NEW c \in Callers, PostRefresh(c) PROVE AccountTypes'
  <2>1. WorkTyped(caller[c]) /\ Mine(c) \in Accounts /\ caller[c].step \notin {"idle", "browser"}
    BY <1>3, <1>29 DEF PostRefresh
  <2> DEFINE a == Mine(c)
             old == caller[c].token
             answer == IF a \in Rotating THEN issued + 1 ELSE 0
             copy == IF a \in Rotating THEN {old} ELSE {}
             r == [caller[c] EXCEPT !.step = "store", !.token = Kept(old, answer), !.copy = copy]
  <2>2. CASE Ends(c) /\ UNCHANGED provider
    BY <1>9, <1>29, <2>2 DEF PostRefresh
  <2>3. ASSUME old \in usable[a], a \in Rotating => issued < MaxTokens,
               issued' = IF a \in Rotating THEN answer ELSE issued,
               usable' = [usable EXCEPT ![a] = IF a \in Rotating THEN (@ \ {old}) \cup {answer} ELSE @],
               caller' = [caller EXCEPT ![c] = r] \/ Ends(c)
        PROVE  AccountTypes'
    <3>1. old \in 1..MaxTokens /\ answer \in 0..MaxTokens /\ Kept(old, answer) \in 0..MaxTokens
          /\ (a \in Rotating => answer \in 1..MaxTokens)
      BY <1>1, <1>2, <2>1, <2>3 DEF TokenBounds, Kept
    <3>2. TokenBounds'
      <4> HIDE DEF a, old, answer
      <4>1. usable' \in [Accounts -> SUBSET (1..MaxTokens)]
        BY <1>1, <2>3, <3>1 DEF TokenBounds
      <4>2. issued' \in 0..MaxTokens
        BY <1>1, <2>3, <3>1 DEF TokenBounds
      <4> QED BY <1>1, <1>29, <4>1, <4>2 DEF TokenBounds, PostRefresh
    <3>3. ThreadTypes'
      <4>1. CASE Ends(c)
        BY <1>1, <4>1, ThreadEnds
      <4>2. CASE caller' = [caller EXCEPT ![c] = r]
        <5>1. copy \subseteq 1..MaxTokens
          BY <3>1
        <5>2. /\ DOMAIN r = WorkFields /\ r.step = "store" /\ r.account = caller[c].account
              /\ r.then = caller[c].then /\ r.token = Kept(old, answer) /\ r.copy = copy
          BY <2>1 DEF WorkTyped, WorkFields
        <5> HIDE DEF r, copy, old, answer
        <5>3. WorkTyped(r)
          BY <2>1, <3>1, <5>1, <5>2 DEF WorkTyped, ListSteps, GrantSteps, Steps
        <5> QED BY <1>1, <4>2, <5>3, ThreadGoesOn DEF ThreadTyped
      <4> QED BY <2>3, <4>1, <4>2
    <3> QED BY <1>1, <1>5, <1>29, <3>2, <3>3 DEF PostRefresh, AccountTypes, RegistryTypes
  <2> QED BY <1>29, <2>2, <2>3 DEF PostRefresh
<1>30. ASSUME NEW c \in Callers, StoreRefreshed(c) PROVE AccountTypes'
  <2>1. WorkTyped(caller[c]) /\ Mine(c) \in Accounts /\ caller[c].step = "store"
    BY <1>3, <1>30 DEF StoreRefreshed
  <2>2. CASE StoreFails(c) /\ UNCHANGED <<tokens, superseded>>
    BY <1>9, <1>30, <2>2 DEF StoreRefreshed, StoreFails
  <2>3. CASE /\ Keeps(Mine(c), caller[c].token)
             /\ IF caller[c].then = "refresh" THEN Ends(c) ELSE Wrote(c, "send")
             /\ superseded' = superseded \cup caller[c].copy \cup Replaced(Mine(c))
    <3>1. ThreadTypes'
      <4>1. CASE Ends(c)
        BY <1>1, <4>1, ThreadEnds
      <4>2. CASE Wrote(c, "send")
        BY <1>1, <2>1, <4>2, ThreadMoves DEF Steps, ListSteps, GrantSteps
      <4> QED BY <2>3, <4>1, <4>2
    <3>2. keyring' \in [Accounts -> 0..MaxTokens] /\ expired' \subseteq Accounts
      BY <1>13, <2>1, <2>3 DEF WorkTyped
    <3>3. superseded' \subseteq 1..MaxTokens
      BY <1>1, <1>13a, <2>1, <2>3 DEF WorkTyped, TokenBounds
    <3>4. TokenBounds'
      BY <1>1, <1>30, <3>2, <3>3 DEF TokenBounds, StoreRefreshed
    <3> QED BY <1>1, <1>5, <1>30, <3>1, <3>4 DEF StoreRefreshed, AccountTypes, RegistryTypes
  <2> QED BY <1>30, <2>2, <2>3 DEF StoreRefreshed
<1>31. ASSUME NEW c \in Callers, RequestStep(c) PROVE AccountTypes'
  BY <1>10, <1>17, <1>20, <1>27, <1>28, <1>29, <1>30, <1>31 DEF RequestStep, GrantSteps, Steps
(* The environment. *)
<1>32. ASSUME NEW a \in Accounts, AccessExpires(a) \/ Withdraw(a) PROVE AccountTypes'
  <2>1. ThreadTypes'
    BY <1>1, <1>32 DEF AccessExpires, Withdraw, ThreadTypes, ThreadTyped, WorkTyped
  <2>2. TokenBounds'
    BY <1>1, <1>32 DEF AccessExpires, Withdraw, TokenBounds
  <2> QED BY <1>1, <1>32, <2>1, <2>2 DEF AccessExpires, Withdraw, AccountTypes, RegistryTypes, FlowTypes
<1>33. CASE Restart
  <2>1. ThreadTypes'
    BY <1>33 DEF Restart, ThreadTypes, ThreadTyped
  <2>2. RegistryTypes'
    BY <1>1, <1>33, NoGrantsAreGrants DEF Restart, RegistryTypes
  <2>3. FlowTypes'
    BY <1>1, <1>33 DEF Restart, FlowTypes
  <2> QED BY <1>1, <1>33, <2>1, <2>2, <2>3 DEF Restart, AccountTypes, TokenBounds
<1>34. CASE UNCHANGED avars
  BY <1>1, <1>34 DEF avars, AccountTypes, ThreadTypes, ThreadTyped, WorkTyped, TokenBounds, RegistryTypes, FlowTypes
<1> QED BY <1>7, <1>8, <1>21, <1>22, <1>26, <1>31, <1>32, <1>33, <1>34 DEF ANext

-----------------------------------------------------------------------------
(* The services together *)

LEMMA ServicesKeepTypes ==
  ASSUME BuildTypes /\ RouterInv /\ AccountTypes,
         [BuildsStep(UNext) \/ ModelsStep(MNext) \/ AccountsStep(ANext)]_svars
  PROVE  (BuildTypes /\ RouterInv /\ AccountTypes)'
<1>1. [UNext]_uvars /\ [MNext]_mvars /\ [ANext]_avars
  BY DEF BuildsStep, ModelsStep, AccountsStep, svars
<1> QED BY <1>1, BuildTypesKept, RouterInvKept, AccountTypesKept

(* What builds, router and accounts keep has its type at every step, for any number of
   activities, threads and callers, whatever fails: the history of the builds has at
   most MaxHistory entries (UIBuildStore._write_state), what is about to be written to
   a file is what that file holds (AccountStore), and no more tokens and gateways are
   counted than there are. *)
THEOREM ServicesAreTyped == SSpec => []ServicesTypeOK
<1>1. SInit => BuildTypes /\ RouterInv /\ AccountTypes
  BY BuildTypesInitially, RouterInvInitially, AccountTypesInitially DEF SInit
<1>2. BuildTypes /\ RouterInv /\ AccountTypes => ServicesTypeOK
  BY BuildTypesAre, RouterTypesAre, AccountTypesAre DEF ServicesTypeOK
<1> QED BY <1>1, <1>2, ServicesKeepTypes, PTL DEF SSpec

(* The services do what builds, router and accounts do, so that what is proved of one
   of these is true of the services. *)
THEOREM ServicesAreTheirParts == SSpec => USpec /\ MSpec /\ ASpec
<1>1. SInit => UInit /\ MInit /\ AInit
  BY DEF SInit
<1>2. [BuildsStep(UNext) \/ ModelsStep(MNext) \/ AccountsStep(ANext)]_svars
      => [UNext]_uvars /\ [MNext]_mvars /\ [ANext]_avars
  BY DEF BuildsStep, ModelsStep, AccountsStep, svars
<1> QED BY <1>1, <1>2, PTL DEF SSpec, USpec, MSpec, ASpec

=============================================================================
