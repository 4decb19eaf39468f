---------------------------- MODULE ModelRouter ----------------------------
(***************************************************************************)
(* A batch of model requests (CloudModelRouter.complete_many) over threads *)
(* that share the cooldowns, the learned latencies and the one connection  *)
(* to the local OmniRoute gateway, which the connection starts on demand   *)
(* (OmniRouteConnection.ensure_ready) and which other threads of the       *)
(* desktop start too (_ensure_omniroute_once).  All requests have the same *)
(* profile: those of different profiles share the gateway only.            *)
(***************************************************************************)
EXTENDS Naturals, FiniteSets, Sequences, SequencesExt

CONSTANTS
  Config,        \* the targets in the order they are configured
  Gateway,       \* the target that is the local gateway
  Workers,       \* threads of the executor
  Starters,      \* threads that call _ensure_omniroute_once
  MaxRequests,   \* bound on the requests of the batch
  MaxProcesses,  \* bound on the gateways that can be started: then Popen raises
  KeyChoices     \* BOOLEAN values: whether the keys of the remote targets are set

ASSUME TargetsAssumption ==
  Config \in Seq(ToSet(Config)) /\ IsInjective(Config) /\ Gateway \in ToSet(Config)
ASSUME WorkersAssumption == IsFiniteSet(Workers)
ASSUME RouterBoundsAssumption == {MaxRequests, MaxProcesses} \subseteq Nat
ASSUME KeyAssumption == KeyChoices \subseteq BOOLEAN

VARIABLES
  worker,    \* each thread of the executor
  left,      \* requests no thread has taken
  cooling,   \* targets in _failure_cooldowns whose time has not come
  warm,      \* targets in _latency_samples
  ready,     \* OmniRouteConnection._ready
  own,       \* OmniRouteConnection._process, 0 for None
  process,   \* the gateways started so far
  latch,     \* _OMNIROUTE_READY
  starter,   \* each thread of Starters
  haveKeys,  \* one of KeyChoices, fixed from the beginning
  strikes    \* failures of a target since it is cooling

batch == <<worker, left>>
health == <<cooling, warm, strikes>>
connection == <<ready, own>>
starting == <<latch, starter>>
mvars == <<batch, health, connection, process, starting, haveKeys>>

Targets == ToSet(Config)
Processes == 1..Len(process)

(* A thread of the executor; rest are the targets not yet tried. *)
Resting == [pc |-> "rest"]
At(pc, rest) == [pc |-> pc, rest |-> rest]
Target(w) == Head(worker[w].rest)
CallPcs == {"probe", "locked", "start", "waiting", "post"}
Request == [pc : CallPcs \cup {"pick"}, rest : Seq(Targets)]

-----------------------------------------------------------------------------
(* The gateway: a process serves once the port is its own. *)

Live(p) == process[p].state \in {"booting", "serving"}
Serving == \E p \in Processes : process[p].state = "serving"

(* A probe may time out although the gateway serves. *)
Probes(answered) == answered \in (IF Serving THEN BOOLEAN ELSE {FALSE})

Started(by) == process' = Append(process, [state |-> "booting", by |-> by])
CanStart == Len(process) < MaxProcesses

Boots(p) ==
  /\ process[p].state = "booting"
  /\ process' = [process EXCEPT ![p].state = IF Serving THEN "dead" ELSE "serving"]
  /\ UNCHANGED <<batch, health, connection, starting, haveKeys>>

Dies(p) ==
  /\ Live(p)
  /\ process' = [process EXCEPT ![p].state = "dead"]
  /\ UNCHANGED <<batch, health, connection, starting, haveKeys>>

-----------------------------------------------------------------------------
(* Cooldowns *)

RecordFailure(t) ==
  /\ cooling' = cooling \cup {t}
  /\ strikes' = [strikes EXCEPT ![t] = @ + 1]
  /\ UNCHANGED warm

(* A failure that nothing records. *)
PassOver(t) ==
  /\ strikes' = IF t \in cooling THEN [strikes EXCEPT ![t] = @ + 1] ELSE strikes
  /\ UNCHANGED <<cooling, warm>>

RecordSuccess(t) ==
  /\ cooling' = cooling \ {t} /\ warm' = warm \cup {t}
  /\ strikes' = [strikes EXCEPT ![t] = 0]

Expire(t) ==
  /\ t \in cooling
  /\ cooling' = cooling \ {t} /\ strikes' = [strikes EXCEPT ![t] = 0]
  /\ UNCHANGED <<batch, warm, connection, process, starting, haveKeys>>

-----------------------------------------------------------------------------
(* Requests *)

(* _ordered_targets: by the latency learned, which may be any, then as configured. *)
Precedes(a, b) ==
  \/ a \in warm
  \/ b \notin warm /\ \E i, j \in DOMAIN Config : i < j /\ Config[i] = a /\ Config[j] = b

Orders ==
  {order \in SetToSeqs(Targets) :
     \A i, j \in DOMAIN order : i < j => Precedes(order[i], order[j])}

TakeRequest(w) ==
  /\ worker[w] = Resting /\ left > 0
  /\ left' = left - 1
  /\ \E order \in Orders : worker' = [worker EXCEPT ![w] = At("pick", order)]
  /\ UNCHANGED <<health, connection, process, starting, haveKeys>>

(* The next target is tried, or the request has failed. *)
Goes(w, pc) == worker' = [worker EXCEPT ![w].pc = pc]
GivesUpTarget(w) == worker' = [worker EXCEPT ![w] = At("pick", Tail(@.rest))]

Fails(w) == GivesUpTarget(w) /\ RecordFailure(Target(w))

\* mutant: a cooldown is not looked at
SkipsNone(t) == FALSE

Skips(t) == t \in cooling

(* The beginning of try_target. *)
PickTarget(w) ==
  /\ worker[w].pc = "pick"
  /\ IF worker[w].rest = << >> THEN worker' = [worker EXCEPT ![w] = Resting]
     ELSE IF Skips(Target(w)) THEN GivesUpTarget(w)
     ELSE Goes(w, IF Target(w) = Gateway THEN "probe" ELSE "post")
  /\ UNCHANGED <<left, health, connection, process, starting, haveKeys>>

(* ensure_ready before the lock *)
ProbeReady(w) ==
  /\ worker[w].pc = "probe"
  /\ \E answered \in BOOLEAN :
       /\ Probes(answered)
       /\ Goes(w, IF ready /\ answered THEN "post" ELSE "locked")
  /\ UNCHANGED <<left, health, connection, process, starting, haveKeys>>

\* mutant: threads probe and start without the lock
LockOpen == TRUE

(* One thread at a time probes, starts and waits. *)
LockFree == \A o \in Workers : worker[o].pc \notin {"start", "waiting"}

EnterLock(w) ==
  /\ worker[w].pc = "locked" /\ LockFree
  /\ \/ Probes(TRUE) /\ ready' = TRUE /\ Goes(w, "post")
     \/ Probes(FALSE) /\ Goes(w, "start") /\ UNCHANGED ready
  /\ UNCHANGED <<left, health, own, process, starting, haveKeys>>

\* mutant: the process of an earlier call is forgotten
NeedsAny == TRUE

(* No process of the connection is alive. *)
NeedsProcess == own # 0 => ~Live(own)

(* A gateway that an earlier caller started and gave up waiting for is waited
   for again. *)
StartGateway(w) ==
  /\ worker[w].pc = "start"
  /\ \/ /\ NeedsProcess /\ CanStart
        /\ Started("connection") /\ own' = Len(process')
        /\ Goes(w, "waiting") /\ UNCHANGED health
     \/ /\ NeedsProcess /\ ~CanStart
        /\ own' = 0 /\ Fails(w) /\ UNCHANGED process
     \/ /\ ~NeedsProcess
        /\ Goes(w, "waiting") /\ UNCHANGED <<own, process, health>>
  /\ UNCHANGED <<left, ready, starting, haveKeys>>

\* mutant: only an answer ends the wait
WaitEndsByAnswer == FALSE

(* The deadline passes, or the process is seen to be dead. *)
WaitEnds == TRUE

Wait(w) ==
  /\ worker[w].pc = "waiting"
  /\ \/ /\ Probes(TRUE) /\ ready' = TRUE /\ Goes(w, "post") /\ UNCHANGED health
     \/ /\ WaitEnds /\ Fails(w) /\ UNCHANGED ready
  /\ UNCHANGED <<left, own, process, starting, haveKeys>>

(* The call itself: without a key a remote target fails and does not cool. *)
Post(w) ==
  /\ worker[w].pc = "post"
  /\ IF Target(w) # Gateway /\ ~haveKeys THEN GivesUpTarget(w) /\ UNCHANGED health
     ELSE \/ /\ Target(w) = Gateway => Serving
             /\ RecordSuccess(Target(w))
             /\ worker' = [worker EXCEPT ![w] = Resting]
          \/ Fails(w)
  /\ UNCHANGED <<left, connection, process, starting, haveKeys>>

(* A connection cut after the request was sent, an answer of another shape or
   none in HTTP: the `except` of call and probe name neither, so the request
   ends with the error, no target is tried after this one, and this one does
   not cool.  complete_many raises it when the other requests have ended. *)
Escapes(w) ==
  /\ \/ worker[w].pc \in {"probe", "waiting"}
     \/ worker[w].pc = "locked" /\ LockFree
     \/ worker[w].pc = "post" /\ (Target(w) = Gateway \/ haveKeys)
  /\ PassOver(Target(w))
  /\ worker' = [worker EXCEPT ![w] = Resting]
  /\ UNCHANGED <<left, connection, process, starting, haveKeys>>

WorkerStep(w) ==
  \/ TakeRequest(w) \/ PickTarget(w) \/ Post(w)
  \/ ProbeReady(w) \/ EnterLock(w) \/ StartGateway(w) \/ Wait(w)

-----------------------------------------------------------------------------
(* _ensure_omniroute_once, in the threads of the start and of a text *)

(* ensure_available up to its loop; Popen may raise. *)
EnsureOnce(s) ==
  /\ starter[s] = 0 /\ ~latch
  /\ \/ Probes(TRUE) /\ latch' = TRUE /\ UNCHANGED <<starter, process>>
     \/ /\ Probes(FALSE) /\ CanStart
        /\ Started("lifecycle") /\ starter' = [starter EXCEPT ![s] = Len(process')]
        /\ UNCHANGED latch
  /\ UNCHANGED <<batch, health, connection, haveKeys>>

(* An answer, whoever serves; the own process is dead; or time is up, and it is terminated. *)
AwaitStart(s) ==
  /\ starter[s] # 0
  /\ \/ Probes(TRUE) /\ latch' = TRUE /\ UNCHANGED process
     \/ ~Live(starter[s]) /\ UNCHANGED <<latch, process>>
     \/ process' = [process EXCEPT ![starter[s]].state = "dead"] /\ UNCHANGED latch
  /\ starter' = [starter EXCEPT ![s] = 0]
  /\ UNCHANGED <<batch, health, connection, haveKeys>>

-----------------------------------------------------------------------------
MInit ==
  /\ worker = [w \in Workers |-> Resting] /\ left = MaxRequests
  /\ cooling = {} /\ warm = {} /\ strikes = [t \in Targets |-> 0]
  /\ ready = FALSE /\ own = 0 /\ process = << >>
  /\ latch = FALSE /\ starter = [s \in Starters |-> 0]
  /\ haveKeys \in KeyChoices

MNext ==
  \/ \E w \in Workers : WorkerStep(w) \/ Escapes(w)
  \/ \E s \in Starters : EnsureOnce(s) \/ AwaitStart(s)
  \/ \E p \in Processes : Boots(p) \/ Dies(p)
  \/ \E t \in Targets : Expire(t)

MSpec == MInit /\ [][MNext]_mvars

(* The threads run; the gateway and the clock owe nothing, and no call must raise. *)
MFairness == \A w \in Workers : WF_mvars(WorkerStep(w))

MFairSpec == MSpec /\ MFairness

-----------------------------------------------------------------------------
(* Properties *)

MTypeOK ==
  /\ worker \in [Workers -> {Resting} \cup Request]
  /\ \A w \in Workers : worker[w].pc \in CallPcs => worker[w].rest # << >>
  /\ left \in 0..MaxRequests /\ cooling \subseteq Targets /\ warm \subseteq Targets
  /\ strikes \in [Targets -> Nat]
  /\ ready \in BOOLEAN /\ latch \in BOOLEAN /\ haveKeys \in BOOLEAN
  /\ process \in Seq([state : {"booting", "serving", "dead"}, by : {"connection", "lifecycle"}])
  /\ Len(process) <= MaxProcesses /\ own \in 0..Len(process)
  /\ starter \in [Starters -> 0..Len(process)]

(* The connection never has two gateways alive, however many threads find that
   none answers, give up waiting, or come back later (omniroute.py:123). *)
OneGatewayPerConnection ==
  \A p, q \in Processes :
    Live(p) /\ Live(q) /\ process[p].by = "connection" /\ process[q].by = "connection" => p = q

(* "A bad provider is not retried on every request" (plans/2026-09-15-multi-ai-
   jarvis-orchestration.md:140): while a target cools, each thread can add one
   failure at most, recorded or not, that of the call it was in.  A target whose
   failures escape does not cool, and every request tries it (router.py:248). *)
CooldownLimitsFailures ==
  \A t \in Targets : t \in cooling => strikes[t] <= Cardinality(Workers)

(* Every request of the batch ends, with a gateway that never answers, dies, or
   is started by somebody else as well. *)
BatchEnds == <>(left = 0 /\ \A w \in Workers : worker[w] = Resting)

=============================================================================
