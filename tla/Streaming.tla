----------------------------- MODULE Streaming -----------------------------
(***************************************************************************)
(* The streaming of the world's areas: WorldStreamingExperience            *)
(* (neural_fullstack.py), with its lock, and WorldStreamer                 *)
(* (neural_advanced.py), which has none and queues an area again that is   *)
(* already queued.  A worker loads what is pending; it is stopped by an    *)
(* event that the next start clears.                                       *)
(***************************************************************************)
EXTENDS Naturals, FiniteSetsExt

CONSTANTS
  Areas,        \* regions of the world
  MaxLoaded,    \* areas kept loaded, max_loaded or max_regions
  MaxCache,     \* areas kept in the cache of the first kind
  MaxQueued,    \* bound on the times an area is queued by the second
  Budget,       \* areas loaded by one pump
  Loaders,     \* threads that may have been started
  Stoppers,     \* callers of stop_worker
  Flavours      \* which of the two classes: "experience" or "streamer"

ASSUME LimitsAssumption ==
  /\ IsFiniteSet(Areas) /\ {MaxLoaded, MaxCache, MaxQueued, Budget} \subseteq Nat \ {0}
  /\ Flavours \subseteq {"experience", "streamer"}

VARIABLES
  flavour,    \* the class
  queued,     \* how often an area is in _pending
  loaded,     \* _loaded
  cache,      \* _cache
  workers,    \* the worker threads that run
  handle,     \* _worker
  stopping,   \* _worker_stop is set
  stopper     \* stop_worker of each caller

places == <<queued, loaded, cache>>
threads == <<workers, handle, stopping, stopper>>
tvars == <<flavour, places, threads>>

NoWorker == "no worker"

TTypeOK ==
  /\ flavour \in Flavours /\ stopping \in BOOLEAN
  /\ queued \in [Areas -> 0..MaxQueued] /\ loaded \subseteq Areas /\ cache \subseteq Areas
  /\ workers \subseteq Loaders /\ handle \in Loaders \cup {NoWorker}
  /\ stopper \in [Stoppers -> [step : {"idle", "told", "joins"}, worker : Loaders \cup {NoWorker}]]

Pending == {a \in Areas : queued[a] > 0}

-----------------------------------------------------------------------------
(* An area that is loaded or pending stays where it is; one that is cached  *)
(* leaves the cache, or stays there, with RequestCopies.                   *)
RequestCopies(a) ==
  /\ flavour = "experience" /\ a \notin loaded
  /\ queued' = [queued EXCEPT ![a] = 1]
  /\ UNCHANGED <<flavour, loaded, cache, threads>>

Request(a) ==
  /\ flavour = "experience"
  /\ IF a \in loaded \/ queued[a] > 0 THEN UNCHANGED places
     ELSE queued' = [queued EXCEPT ![a] = 1] /\ cache' = cache \ {a} /\ UNCHANGED loaded
  /\ UNCHANGED <<flavour, threads>>

(* The streamer queues whatever is not loaded. *)
RequestStreamer(a) ==
  /\ flavour = "streamer" /\ a \notin loaded /\ queued[a] < MaxQueued
  /\ queued' = [queued EXCEPT ![a] = @ + 1] /\ cache' = cache \ {a}
  /\ UNCHANGED <<flavour, loaded, threads>>

(* Which areas come first, and which are the victims, is a matter of their *)
(* priorities and ages: any.                                               *)
Trim(all, limit, kept) == kept \subseteq all /\ (IF Cardinality(all) > limit THEN Cardinality(kept) = limit ELSE kept = all)

(* Victims of a full store go to the cache, which is not trimmed then.     *)
Load(next) ==
  \E kept \in SUBSET (loaded \cup next) :
    /\ Trim(loaded \cup next, MaxLoaded, kept)
    /\ loaded' = kept /\ cache' = cache \cup ((loaded \cup next) \ kept)

InAll(q) == MapThenSumSet(LAMBDA a : q[a], Areas)

Pump ==
  \E taken \in [Areas -> 0..MaxQueued] :
    /\ \A a \in Areas : taken[a] <= queued[a]
    /\ InAll(taken) = IF InAll(queued) > Budget THEN Budget ELSE InAll(queued)
    /\ queued' = [a \in Areas |-> queued[a] - taken[a]]
    /\ Load({a \in Areas : taken[a] > 0})
    /\ UNCHANGED flavour

Evicts(gone) ==
  /\ gone \subseteq loaded /\ loaded' = loaded \ gone
  /\ IF flavour = "streamer" THEN cache' = cache \cup gone
     ELSE \E kept \in SUBSET (cache \cup gone) : Trim(cache \cup gone, MaxCache, kept) /\ cache' = kept
  /\ UNCHANGED <<flavour, queued, threads>>

Unload(a) == a \in loaded /\ Evicts({a})

-----------------------------------------------------------------------------
(* The worker of the experience; the streamer's is left out. *)

StartWorker(w) ==
  /\ flavour = "experience" /\ handle \notin workers /\ w \notin workers
  /\ stopping' = FALSE /\ workers' = workers \cup {w} /\ handle' = w
  /\ UNCHANGED <<flavour, places, stopper>>

(* stop_worker sets the event, takes the handle, and waits a second.       *)
Tell(s) ==
  /\ flavour = "experience" /\ stopper[s].step = "idle" /\ stopping' = TRUE
  /\ stopper' = [stopper EXCEPT ![s].step = "told"]
  /\ UNCHANGED <<flavour, places, workers, handle>>

TakeHandle(s) ==
  /\ stopper[s].step = "told"
  /\ stopper' = [stopper EXCEPT ![s] = [step |-> IF handle = NoWorker THEN "idle" ELSE "joins", worker |-> handle]]
  /\ handle' = NoWorker
  /\ UNCHANGED <<flavour, places, workers, stopping>>

Join(s) ==
  /\ stopper[s].step = "joins"
  /\ stopper' = [stopper EXCEPT ![s] = [step |-> "idle", worker |-> NoWorker]]
  /\ UNCHANGED <<flavour, places, workers, handle, stopping>>

StopWorker(s) == Tell(s) \/ TakeHandle(s) \/ Join(s)

(* The worker sees the event when it waits, not while it pumps. *)
WorkerPumps(w) == w \in workers /\ Pump /\ UNCHANGED threads
WorkerEnds(w) ==
  /\ w \in workers /\ stopping /\ workers' = workers \ {w}
  /\ UNCHANGED <<flavour, places, handle, stopping, stopper>>

TInit ==
  /\ flavour \in Flavours /\ queued = [a \in Areas |-> 0] /\ loaded = {} /\ cache = {}
  /\ workers = {} /\ handle = NoWorker /\ stopping = FALSE
  /\ stopper = [s \in Stoppers |-> [step |-> "idle", worker |-> NoWorker]]

TNext ==
  \/ \E a \in Areas : Request(a) \/ RequestStreamer(a) \/ Unload(a)
  \/ Pump /\ UNCHANGED threads
  \/ \E w \in Loaders : StartWorker(w) \/ WorkerPumps(w) \/ WorkerEnds(w)
  \/ \E s \in Stoppers : StopWorker(s)

TSpec == TInit /\ [][TNext]_tvars

-----------------------------------------------------------------------------
(* An area of the experience is pending, loaded or cached, never two of    *)
(* these, and no more are loaded than there may be, whoever pumps          *)
(* (WorldStreamingExperience.request, pump, unload).                       *)
AreaHasOnePlace ==
  /\ Cardinality(loaded) <= MaxLoaded
  /\ flavour = "experience" =>
       loaded \cap cache = {} /\ Pending \cap (loaded \cup cache) = {} /\ \A a \in Areas : queued[a] <= 1

(* No run checks the following, see the README, other disagreements: the   *)
(* streamer, too, has an area in one place; the cache keeps to its limit;  *)
(* one worker runs at a time.                                              *)
StreamerHasOnePlace == loaded \cap cache = {} /\ Pending \cap (loaded \cup cache) = {}
CacheIsBounded == flavour = "experience" => Cardinality(cache) <= MaxCache
OneWorker == Cardinality(workers) <= 1

=============================================================================
