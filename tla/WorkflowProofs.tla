--------------------------- MODULE WorkflowProofs ---------------------------
(***************************************************************************)
(* Proofs about the runs of workflows, the store of their activities and   *)
(* the file of definitions, for any workers, steps, outcomes and limits.   *)
(***************************************************************************)
EXTENDS WorkflowRuns, WorkflowFile, FiniteSetTheorems, TLAPS

-----------------------------------------------------------------------------
(* The store *)

Statuses == Live \cup Terminal

(* StoreTypeOK, and that the records are a function. *)
Retained ==
  /\ created \in 0..MaxCreated
  /\ DOMAIN records \subseteq 1..created
  /\ records \in [DOMAIN records -> Record]

LEMMA RetainedTypes == Retained => StoreTypeOK
BY DEF Retained, StoreTypeOK

(* What a call of the store does to the records of other activities than a: *)
(* none is made, none changes its status, and no live one is lost.          *)
Touches(a) ==
  /\ created' >= created
  /\ \A i \in DOMAIN records \ {a} :
       records[i].status \in Live => i \in DOMAIN records' /\ records'[i].status = records[i].status
  /\ \A i \in DOMAIN records' \ {a} : i \in DOMAIN records /\ records'[i].status = records[i].status

LEMMA CreateEffect ==
  ASSUME Retained, Create
  PROVE  /\ Retained' /\ Touches(NextId) /\ created' = NextId
         /\ NextId \in DOMAIN records' /\ records'[NextId].status = "queued"
<1>1. /\ DOMAIN Trimmed \subseteq DOMAIN records
      /\ \A i \in DOMAIN Trimmed : Trimmed[i] = records[i]
      /\ \A i \in DOMAIN records : records[i].status \in Live => i \in DOMAIN Trimmed
  BY DEF Trimmed, Without, Evictable, Oldest, Finished, Live, Terminal
<1>2. created \in Nat /\ created' = created + 1 /\ created' \in 0..MaxCreated /\ NextId = created + 1
  BY CreatedAssumption DEF Create, NextId, Retained
<1>3. DOMAIN records' = DOMAIN Trimmed \cup {NextId}
  BY DEF Create
<1>4. /\ \A i \in DOMAIN Trimmed : i # NextId /\ records'[i] = records[i]
      /\ records'[NextId] = [status |-> "queued", cancel |-> FALSE]
  BY <1>1, <1>2 DEF Create, Retained
<1>5. records' \in [DOMAIN records' -> Record]
  <2>1. \A i \in DOMAIN records' : records'[i] \in Record
    <3>1. \A i \in DOMAIN Trimmed : records[i] \in Record
      BY <1>1 DEF Retained
    <3>2. [status |-> "queued", cancel |-> FALSE] \in Record
      BY DEF Record, Live
    <3> QED BY <1>3, <1>4, <3>1, <3>2
  <2>2. records' = [i \in DOMAIN records' |-> records'[i]]
    BY <1>3 DEF Create
  <2> QED BY <2>1, <2>2
<1>6. DOMAIN records' \subseteq 1..created'
  BY <1>1, <1>2, <1>3 DEF Retained
<1>7. Touches(NextId)
  BY <1>1, <1>2, <1>3, <1>4 DEF Touches
<1> QED BY <1>2, <1>3, <1>4, <1>5, <1>6, <1>7 DEF Retained

(* A call that changes the status of one record at most. *)
LEMMA StatusEffect ==
  ASSUME Retained, NEW id \in DOMAIN records, NEW status \in Statuses,
         records' = [records EXCEPT ![id].status = status], UNCHANGED created
  PROVE  Retained' /\ Touches(id) /\ DOMAIN records' = DOMAIN records /\ records'[id].status = status
<1>1. \A i \in DOMAIN records : i # id => records'[i] = records[i]
  BY DEF Retained
<1>2. records'[id] = [records[id] EXCEPT !.status = status] /\ records[id] \in Record
  BY DEF Retained
<1>3. records'[id].status = status /\ records'[id] \in Record
  BY <1>2 DEF Record, Statuses
<1>4. records' \in [DOMAIN records -> Record] /\ DOMAIN records' = DOMAIN records
  BY <1>1, <1>3 DEF Retained
<1> QED BY <1>1, <1>3, <1>4 DEF Retained, Touches

LEMMA CancelEffect ==
  ASSUME Retained, NEW id \in DOMAIN records, RequestCancel(id)
  PROVE  Retained' /\ DOMAIN records' = DOMAIN records /\ created' = created
         /\ \A i \in DOMAIN records : records'[i].status = records[i].status
<1>1. \A i \in DOMAIN records : records[i] \in Record
  BY DEF Retained
<1>2. records'[id] = [records[id] EXCEPT !.cancel = TRUE]
      /\ \A i \in DOMAIN records \ {id} : records'[i] = records[i]
  BY DEF RequestCancel, Retained
<1>3. \A i \in DOMAIN records : records'[i].status = records[i].status /\ records'[i] \in Record
  BY <1>1, <1>2 DEF Record
<1>4. records' \in [DOMAIN records -> Record] /\ DOMAIN records' = DOMAIN records
  BY <1>3 DEF RequestCancel, Retained
<1> QED BY <1>3, <1>4 DEF Retained, RequestCancel

-----------------------------------------------------------------------------
(* The store's limit *)

LEMMA RecordsAreFinite ==
  ASSUME Retained, NEW S \in SUBSET DOMAIN records
  PROVE  IsFiniteSet(S)
<1>1. created \in Int /\ S \subseteq 1..created
  BY DEF Retained
<1>2. IsFiniteSet(1..created)
  BY <1>1, FS_Interval
<1> QED BY <1>1, <1>2, FS_Subset

LEMMA CreateWithin ==
  ASSUME Retained, Create
  PROVE  WithinCapacity'
<1>1. DOMAIN Trimmed \subseteq DOMAIN records
  BY DEF Trimmed, Without
<1>2. IsFiniteSet(DOMAIN Trimmed)
  BY <1>1, RecordsAreFinite
<1>3. DOMAIN records' = DOMAIN Trimmed \cup {NextId}
  BY DEF Create
<1>4. Cardinality(DOMAIN Trimmed) \in Nat /\ Cardinality(DOMAIN Trimmed) < MaxRecords
  BY <1>2, FS_CardinalityType DEF Create, HasRoom
<1>5. /\ IsFiniteSet(DOMAIN Trimmed \cup {NextId})
      /\ Cardinality(DOMAIN Trimmed \cup {NextId}) =
           IF NextId \in DOMAIN Trimmed THEN Cardinality(DOMAIN Trimmed) ELSE Cardinality(DOMAIN Trimmed) + 1
  BY <1>2, FS_AddElement
<1> QED BY <1>3, <1>4, <1>5, CapacityAssumption DEF WithinCapacity

-----------------------------------------------------------------------------
(* The runs *)

(* What every run knows of its activity, in a store of given records: until *)
(* a run is finished its activity is retained and live.                     *)
Owned(r, recs, n) ==
  /\ r.act # NoActivity => r.act \in 1..n
  /\ r.pc = "idle" => r.act = NoActivity
  /\ r.pc \in {"coding", "code"} => r.act # NoActivity
  /\ r.act # NoActivity /\ r.pc # "finish" => r.act \in DOMAIN recs /\ recs[r.act].status \in Live
  /\ r.pc \in {"go", "dispatch"} => r.step <= Len(Steps)
  /\ r.done < r.step
  /\ r.pc = "finish" /\ r.act # NoActivity /\ ~r.stopped /\ ~r.asks => r.seen = "failed"

OneRunEach ==
  \A v, w \in Workers : v # w /\ run[v].act # NoActivity => run[v].act # run[w].act

RunsInv ==
  /\ Retained /\ run \in [Workers -> Run] /\ refused \in BOOLEAN
  /\ \A w \in Workers : Owned(run[w], records, created)
  /\ OneRunEach

(* The steps for which a run's answer is the last thing its record says: a  *)
(* step that asks and may be passed over is followed by one that asks.      *)
AskingStopsNext ==
  "asks" \in Outcomes => \A i \in 1..(Len(Steps) - 1) : Steps[i].continues => Steps[i + 1].protected

(* What the record of a finished run says of it; and a run that asked has   *)
(* nothing before it but the question.                                      *)
Told(r, recs) ==
  /\ r.stopped => r.pc = "finish"
  /\ r.pc \in {"begin", "check", "go", "dispatch"} => r.seen \in Live
  /\ r.pc = "finish" => r.errors
  /\ r.pc = "finish" /\ r.act \in DOMAIN recs =>
       /\ r.stopped => recs[r.act].status = "cancelled"
       /\ ~r.stopped /\ r.asks => recs[r.act].status = "waiting"
       /\ ~r.stopped /\ ~r.asks => recs[r.act].status = "failed"
  /\ r.asks /\ r.pc # "finish" =>
       /\ r.pc \in {"check", "go"} /\ ~r.confirmed
       /\ r.step <= Len(Steps) => Steps[r.step].protected
       /\ r.act # NoActivity => recs[r.act].status = "waiting"

AllTold == \A w \in Workers : Told(run[w], records)

(* A step of a worker, on activity a, that makes its run r. *)
Acts(w, a, r) ==
  /\ r \in Run /\ Set(w, r) /\ a \in {run[w].act, NextId} /\ r.act \in {NoActivity, a}
  /\ Retained' /\ Touches(a) /\ refused' \in BOOLEAN
  /\ Owned(r, records', created')
  /\ AskingStopsNext /\ Told(run[w], records) => Told(r, records')

LEMMA ActsKeep ==
  ASSUME RunsInv, NEW w \in Workers, NEW a, NEW r, Acts(w, a, r)
  PROVE  RunsInv' /\ (AskingStopsNext /\ AllTold => AllTold')
<1>1. run' = [run EXCEPT ![w] = r] /\ r \in Run
  BY DEF Acts, Set
<1>2. run' \in [Workers -> Run] /\ run'[w] = r /\ \A v \in Workers \ {w} : run'[v] = run[v]
  BY <1>1 DEF RunsInv
<1>3. \A v \in Workers \ {w} : run[v].act # NoActivity => run[v].act # a /\ run[v].act \in 1..created
  BY CreatedAssumption DEF RunsInv, OneRunEach, Acts, NextId, Owned, Retained
<1>4. ASSUME NEW v \in Workers \ {w}
      PROVE  /\ Owned(run[v], records', created')
             /\ Told(run[v], records) => Told(run[v], records')
  <2>1. Owned(run[v], records, created)
    BY DEF RunsInv
  <2>2. created \in Nat /\ created' \in Nat /\ created' >= created
    BY DEF RunsInv, Retained, Acts, Touches
  <2>3. NoActivity \notin DOMAIN records /\ NoActivity \notin DOMAIN records'
    BY <2>2 DEF RunsInv, Retained, Acts, NoActivity
  <2>4. run[v].act \in DOMAIN records' =>
          run[v].act \in DOMAIN records /\ records'[run[v].act].status = records[run[v].act].status
    BY <1>3, <2>3 DEF Acts, Touches
  <2>5. run[v].act \in DOMAIN records /\ records[run[v].act].status \in Live =>
          run[v].act \in DOMAIN records' /\ records'[run[v].act].status = records[run[v].act].status
    BY <1>3, <2>3 DEF Acts, Touches
  <2>6. Owned(run[v], records', created')
    BY <2>1, <2>2, <2>5 DEF Owned
  <2>7. ASSUME Told(run[v], records)
        PROVE  Told(run[v], records')
    BY <2>1, <2>4, <2>5, <2>7 DEF Told, Owned, Live
  <2> QED BY <2>6, <2>7
<1>5. \A v \in Workers : Owned(run'[v], records', created')
  BY <1>2, <1>4 DEF Acts
<1>6. OneRunEach'
  BY <1>2, <1>3 DEF OneRunEach, Acts, RunsInv
<1>7. AskingStopsNext /\ AllTold => AllTold'
  BY <1>2, <1>4 DEF AllTold, Acts
<1> QED BY <1>2, <1>5, <1>6, <1>7 DEF RunsInv, Acts

(* The run's record as Report leaves it. *)
Reported(w, status, r) == IF Watched(w) THEN [r EXCEPT !.seen = status] ELSE r

LEMMA ElementOf ==
  ASSUME NEW S, NEW s \in Seq(S), NEW i \in 1..Len(s)
  PROVE  s[i] \in S
OBVIOUS

LEMMA RunTypes ==
  ASSUME RunsInv, NEW w \in Workers
  PROVE  /\ run[w] \in Run /\ Owned(run[w], records, created) /\ Resting \in Run /\ Retained
         /\ Len(Steps) \in Nat \ {0} /\ \A i \in 1..Len(Steps) : Steps[i].protected \in BOOLEAN /\ Steps[i].continues \in BOOLEAN
<1>1. Len(Steps) \in Nat \ {0} /\ \A i \in 1..Len(Steps) : Steps[i].protected \in BOOLEAN /\ Steps[i].continues \in BOOLEAN
  <2>1. Len(Steps) \in Nat /\ Len(Steps) > 0
    BY StepsAssumption
  <2>2. \A i \in 1..Len(Steps) : Steps[i] \in [protected : BOOLEAN, continues : BOOLEAN]
    BY StepsAssumption, ElementOf
  <2> QED BY <2>1, <2>2
<1>2. Resting \in Run
  BY <1>1 DEF Resting, Run, NoActivity, Live, Terminal
<1> QED BY <1>1, <1>2 DEF RunsInv

(* A call that leaves the store alone touches nothing. *)
LEMMA StoreRests ==
  ASSUME Retained, UNCHANGED store, NEW a
  PROVE  Retained' /\ Touches(a)
BY DEF Retained, Touches, store

LEMMA ReportEffect ==
  ASSUME RunsInv, NEW w \in Workers, NEW status \in Statuses, NEW r \in Run, Report(w, status, r)
  PROVE  /\ Reported(w, status, r) \in Run /\ Set(w, Reported(w, status, r))
         /\ Retained' /\ Touches(run[w].act) /\ created' = created
         /\ run[w].act # NoActivity => run[w].act \in DOMAIN records' /\ records'[run[w].act].status = status
         /\ run[w].act = NoActivity => UNCHANGED store
<1>1. Reported(w, status, r) \in Run
  BY DEF Reported, Run, Statuses
<1>2. CASE Watched(w)
  BY <1>1, <1>2, StatusEffect DEF Report, Update, CanUpdate, Known, Watched, Reported, RunsInv
<1>3. CASE ~Watched(w)
  BY <1>1, <1>3, StoreRests DEF Report, Watched, Reported, RunsInv, store
<1> QED BY <1>2, <1>3

(* The steps that report what the run becomes, where that is known. *)
LEMMA ReportActs ==
  ASSUME RunsInv, NEW w \in Workers, NEW status \in Statuses, NEW r \in Run, Report(w, status, r),
         r.act = run[w].act \/ r.act = NoActivity, refused' = refused,
         r.pc = "idle" => r.act = NoActivity,
         r.pc \in {"coding", "code"} => run[w].act # NoActivity /\ r.act = run[w].act,
         r.pc # "finish" => r.act = NoActivity \/ status \in Live,
         r.pc \in {"go", "dispatch"} => r.step <= Len(Steps),
         r.done < r.step,
         r.pc = "finish" => r.asks \/ status = "failed",
         ASSUME AskingStopsNext, Told(run[w], records), NEW recs,
                run[w].act # NoActivity => run[w].act \in DOMAIN recs /\ recs[run[w].act].status = status,
                run[w].act = NoActivity => recs = records
         PROVE  Told(Reported(w, status, r), recs)
  PROVE  Acts(w, run[w].act, Reported(w, status, r))
<1> DEFINE q == Reported(w, status, r)
<1>1. /\ q.act = r.act /\ q.pc = r.pc /\ q.done = r.done /\ q.step = r.step
      /\ q.asks = r.asks /\ (run[w].act # NoActivity => q.seen = status)
  BY DEF Reported, Run, Watched
<1>2. /\ q \in Run /\ Set(w, q) /\ Retained' /\ Touches(run[w].act) /\ created' = created
      /\ run[w].act # NoActivity => run[w].act \in DOMAIN records' /\ records'[run[w].act].status = status
      /\ run[w].act = NoActivity => UNCHANGED store
  BY ReportEffect
<1>3. Owned(q, records', created')
  BY <1>1, <1>2 DEF Owned, RunsInv
<1>4. AskingStopsNext /\ Told(run[w], records) => Told(q, records')
  BY <1>2 DEF store
<1>5. refused' \in BOOLEAN
  BY DEF RunsInv
<1> QED BY <1>1, <1>2, <1>3, <1>4, <1>5 DEF Acts

LEMMA StartActs ==
  ASSUME RunsInv, NEW w \in Workers, NEW confirmed \in BOOLEAN, Start(w, confirmed) \/ StartCoding(w, confirmed)
  PROVE  RunsInv' /\ (AskingStopsNext /\ AllTold => AllTold')
<1> DEFINE b == [Resting EXCEPT !.pc = "begin", !.confirmed = confirmed]
           s == [b EXCEPT !.act = NextId]
           c == [Resting EXCEPT !.pc = "coding", !.act = NextId, !.confirmed = confirmed]
<1>1. Retained /\ Resting \in Run /\ Len(Steps) \in Nat \ {0} /\ created \in Nat /\ refused \in BOOLEAN
  BY RunTypes, CreatedAssumption DEF RunsInv, Retained
<1>2. b \in Run /\ (NextId \in ActivityIds => s \in Run /\ c \in Run)
  BY <1>1 DEF Run, Live
<1>3. ASSUME Create, NEW r \in {s, c}, Set(w, r), refused' = refused
      PROVE  Acts(w, NextId, r)
  <2>1. /\ Retained' /\ Touches(NextId) /\ created' = NextId
        /\ NextId \in DOMAIN records' /\ records'[NextId].status = "queued"
    BY <1>1, <1>3, CreateEffect
  <2>2. NextId \in ActivityIds /\ NextId # NoActivity
    BY <1>1, <1>3, CreatedAssumption DEF Create, NextId, ActivityIds, NoActivity
  <2>3. /\ r.pc \in {"begin", "coding"} /\ r.act = NextId /\ r.done = 0 /\ r.step = 1 /\ r.seen = "queued"
        /\ r.stopped = FALSE /\ r.asks = FALSE
    BY <1>1 DEF Resting, Run
  <2>4. Owned(r, records', created') /\ Told(r, records')
    BY <1>1, <2>1, <2>2, <2>3 DEF Owned, Told, Live, NextId
  <2> QED BY <1>1, <1>2, <1>3, <2>1, <2>2, <2>3, <2>4 DEF Acts
<1>4. ASSUME UNCHANGED store, Set(w, b), refused' = refused
      PROVE  Acts(w, NextId, b)
  <2>1. /\ b.pc = "begin" /\ b.act = NoActivity /\ b.done = 0 /\ b.step = 1 /\ b.seen = "queued"
        /\ b.stopped = FALSE /\ b.asks = FALSE
    BY <1>1 DEF Resting, Run
  <2>2. Owned(b, records', created') /\ Told(b, records')
    BY <2>1 DEF Owned, Told, Live
  <2> QED BY <1>1, <1>2, <1>4, <2>1, <2>2, StoreRests DEF Acts
<1>5. ASSUME UNCHANGED <<store, run>>, refused' \in BOOLEAN
      PROVE  RunsInv' /\ (AllTold => AllTold')
  BY <1>5 DEF RunsInv, Retained, OneRunEach, AllTold, store
<1> QED BY <1>1, <1>3, <1>4, <1>5, ActsKeep DEF Start, StartCoding

(* Steps that leave the store alone, or report by themselves. *)
LEMMA QuietActs ==
  ASSUME RunsInv, NEW w \in Workers, NEW r \in Run, UNCHANGED store, Set(w, r), refused' = refused,
         r.act \in {NoActivity, run[w].act}, Owned(r, records, created),
         AskingStopsNext /\ Told(run[w], records) => Told(r, records)
  PROVE  Acts(w, run[w].act, r)
BY StoreRests DEF Acts, RunsInv, store

LEMMA StatusActs ==
  ASSUME RunsInv, NEW w \in Workers, NEW r \in Run, NEW status \in Statuses, run[w].act \in DOMAIN records,
         records' = [records EXCEPT ![run[w].act].status = status], UNCHANGED created,
         Set(w, r), refused' = refused, r.act \in {NoActivity, run[w].act},
         \A recs : run[w].act \in DOMAIN recs /\ recs[run[w].act].status = status =>
           Owned(r, recs, created) /\ (AskingStopsNext /\ Told(run[w], records) => Told(r, recs))
  PROVE  Acts(w, run[w].act, r)
BY StatusEffect DEF Acts, RunsInv

LEMMA WorkerActs ==
  ASSUME RunsInv, NEW w \in Workers, WorkerStep(w)
  PROVE  \E a, r : Acts(w, a, r)
<1> DEFINE o == run[w]
<1>1. /\ o \in Run /\ Owned(o, records, created) /\ Resting \in Run /\ Retained
      /\ Len(Steps) \in Nat \ {0} /\ \A i \in 1..Len(Steps) : Steps[i].protected \in BOOLEAN /\ Steps[i].continues \in BOOLEAN
  BY RunTypes
<1>2. /\ o.step \in 1..Len(Steps) + 1 /\ o.done \in 0..Len(Steps) /\ o.done < o.step
      /\ o.pc = "idle" => o.act = NoActivity
      /\ o.confirmed \in BOOLEAN /\ o.stopped \in BOOLEAN /\ o.asks \in BOOLEAN /\ o.errors \in BOOLEAN
      /\ o.pc \in {"go", "dispatch"} => o.step \in 1..Len(Steps)
  BY <1>1 DEF Owned, Run
<1>3. Resting.pc = "idle" /\ Resting.act = NoActivity /\ Resting.done < Resting.step
      /\ Resting.asks = FALSE /\ Resting.stopped = FALSE
  BY DEF Resting
<1>4. NoActivity \notin DOMAIN records
  BY <1>1 DEF Retained, NoActivity
<1>5. CASE Begin(w)
  <2> DEFINE r == [o EXCEPT !.pc = "check"]
  <2>1. r \in Run
    BY <1>1 DEF Run
  <2>2. Report(w, "running", r) /\ refused' = refused
    BY <1>5 DEF Begin
  <2>3. ASSUME Told(o, records), NEW recs
        PROVE  Told(Reported(w, "running", r), recs)
    BY <1>1, <1>5, <2>3 DEF Begin, Told, Reported, Run, Live
  <2>4. Acts(w, o.act, Reported(w, "running", r))
    BY <1>1, <1>2, <2>1, <2>2, <2>3, ReportActs DEF Statuses, Live, Run
  <2> QED BY <2>4
<1>6. CASE AcknowledgeStop(w)
  <2> DEFINE r == [o EXCEPT !.pc = "finish", !.seen = "cancelled", !.stopped = TRUE, !.errors = TRUE]
  <2>1. r \in Run /\ Set(w, r) /\ refused' = refused /\ UNCHANGED created
    BY <1>1, <1>6 DEF AcknowledgeStop, Acknowledge, Run, Terminal
  <2>2. o.act \in DOMAIN records /\ records' = [records EXCEPT ![o.act].status = "cancelled"]
    BY <1>6 DEF AcknowledgeStop, Acknowledge, Known
  <2>3. ASSUME NEW recs, o.act \in DOMAIN recs /\ recs[o.act].status = "cancelled"
        PROVE  Owned(r, recs, created) /\ (Told(o, records) => Told(r, recs))
    BY <1>1, <2>3 DEF Owned, Told, Run
  <2>4. Acts(w, o.act, r)
    BY <1>1, <2>1, <2>2, <2>3, StatusActs DEF Statuses, Terminal, Run
  <2> QED BY <2>4
<1>7. CASE PassCheck(w)
  <2> DEFINE r == [o EXCEPT !.pc = "go"]
  <2>1. r \in Run /\ Set(w, r) /\ refused' = refused /\ UNCHANGED store
    BY <1>1, <1>7 DEF PassCheck, Run
  <2>2. Owned(r, records, created) /\ (Told(o, records) => Told(r, records))
    BY <1>1, <1>7 DEF PassCheck, Owned, Told, Run
  <2>3. Acts(w, o.act, r)
    BY <1>1, <2>1, <2>2, QuietActs DEF Run
  <2> QED BY <2>3
<1>8. CASE WaitForConfirmation(w)
  <2> DEFINE r == [o EXCEPT !.pc = "finish", !.asks = TRUE, !.errors = TRUE]
  <2>1. r \in Run
    BY <1>1 DEF Run
  <2>2. Report(w, "waiting", r) /\ refused' = refused
    BY <1>8 DEF WaitForConfirmation
  <2>3. ASSUME Told(o, records), NEW recs,
               o.act # NoActivity => o.act \in DOMAIN recs /\ recs[o.act].status = "waiting",
               o.act = NoActivity => recs = records
        PROVE  Told(Reported(w, "waiting", r), recs)
    BY <1>1, <1>4, <1>8, <2>3 DEF WaitForConfirmation, Told, Reported, Run, Live
  <2>4. Acts(w, o.act, Reported(w, "waiting", r))
    BY <1>1, <1>2, <2>1, <2>2, <2>3, ReportActs DEF Statuses, Live, Run
  <2> QED BY <2>4
<1>9. CASE Dispatch(w)
  <2> DEFINE r == [o EXCEPT !.pc = "dispatch"]
  <2>1. r \in Run
    BY <1>1 DEF Run
  <2>2. Report(w, "running", r) /\ refused' = refused /\ o.pc = "go"
    BY <1>9 DEF Dispatch
  <2>3. ASSUME Told(o, records), NEW recs
        PROVE  Told(Reported(w, "running", r), recs)
    <3>1. o.asks = FALSE
      BY <1>2, <1>9, <2>3 DEF Dispatch, NeedsConfirmation, Told
    <3> QED BY <1>1, <2>2, <2>3, <3>1 DEF Told, Reported, Run, Live
  <2>4. r.act = o.act /\ r.pc = "dispatch" /\ r.done < r.step /\ r.step <= Len(Steps)
    BY <1>1, <1>2, <2>2 DEF Run
  <2> HIDE DEF r
  <2>5. Acts(w, o.act, Reported(w, "running", r))
    BY <2>1, <2>2, <2>3, <2>4, ReportActs DEF Statuses, Live
  <2> QED BY <2>5
<1>10. CASE StepSucceeds(w)
  <2> DEFINE r == [o EXCEPT !.pc = "check", !.step = @ + 1, !.done = @ + 1]
  <2>1. r \in Run
    <3>1. o.step + 1 \in 1..Len(Steps) + 1 /\ o.done + 1 \in 0..Len(Steps)
      BY <1>1, <1>2, <1>10 DEF StepSucceeds
    <3> QED BY <1>1, <3>1 DEF Run
  <2>2. Report(w, "running", r) /\ refused' = refused /\ o.pc = "dispatch"
    BY <1>10 DEF StepSucceeds
  <2>3. ASSUME Told(o, records), NEW recs
        PROVE  Told(Reported(w, "running", r), recs)
    BY <1>1, <1>2, <2>2, <2>3 DEF Told, Reported, Run, Live
  <2>4. r.act = o.act /\ r.pc = "check" /\ r.done < r.step
    BY <1>1, <1>2 DEF Run
  <2>5. Acts(w, o.act, Reported(w, "running", r))
    BY <2>1, <2>2, <2>3, <2>4, ReportActs DEF Statuses, Live
  <2> QED BY <2>5
<1>11. CASE StepAsks(w)
  <2> DEFINE r == [AfterFailure(w, Steps[o.step].continues) EXCEPT !.asks = TRUE]
  <2>1. r \in Run /\ r.act = o.act /\ r.done = o.done /\ r.asks = TRUE /\ r.errors = TRUE /\ r.confirmed = o.confirmed
        /\ r.stopped = o.stopped /\ r.seen = o.seen
    <3>1. o.step + 1 \in 1..Len(Steps) + 1
      BY <1>1, <1>2, <1>11 DEF StepAsks
    <3>2. CASE Steps[o.step].continues
      BY <1>1, <3>1, <3>2 DEF AfterFailure, Run
    <3>3. CASE ~Steps[o.step].continues
      BY <1>1, <3>3 DEF AfterFailure, Run
    <3> QED BY <3>2, <3>3
  <2>2. \/ Steps[o.step].continues /\ r.pc = "check" /\ r.step = o.step + 1
        \/ ~Steps[o.step].continues /\ r.pc = "finish" /\ r.step = o.step
    BY <1>1 DEF AfterFailure, Run
  <2>3. Report(w, "waiting", r) /\ refused' = refused /\ o.pc = "dispatch" /\ "asks" \in Outcomes /\ o.confirmed = FALSE
    BY <1>2, <1>11 DEF StepAsks
  <2>4. ASSUME AskingStopsNext, Told(o, records), NEW recs,
               o.act # NoActivity => o.act \in DOMAIN recs /\ recs[o.act].status = "waiting",
               o.act = NoActivity => recs = records
        PROVE  Told(Reported(w, "waiting", r), recs)
    <3> DEFINE q == Reported(w, "waiting", r)
    <3> SUFFICES Told(q, recs)
      OBVIOUS
    <3>1. q.pc = r.pc /\ q.act = r.act /\ q.step = r.step /\ q.asks = TRUE /\ q.errors = TRUE /\ q.stopped = FALSE
          /\ q.confirmed = FALSE /\ q.seen \in Live
      BY <1>1, <2>1, <2>3, <2>4 DEF Told, Reported, Run, Live
    <3>2. r.step <= Len(Steps) /\ r.pc = "check" => Steps[r.step].protected
      BY <1>1, <1>2, <2>2, <2>3, <2>4 DEF AskingStopsNext
    <3> HIDE DEF q, r
    <3> QED BY <1>4, <2>1, <2>2, <2>4, <3>1, <3>2 DEF Told
  <2>5. r.done < r.step
    BY <1>2, <2>1, <2>2
  <2> HIDE DEF r
  <2>6. Acts(w, o.act, Reported(w, "waiting", r))
    BY <2>1, <2>2, <2>3, <2>4, <2>5, ReportActs DEF Statuses, Live
  <2> QED BY <2>6
<1>12. CASE StepFails(w)
  <2> DEFINE r == AfterFailure(w, Steps[o.step].continues)
             status == IF Steps[o.step].continues THEN "running" ELSE "failed"
  <2>1. r \in Run /\ r.act = o.act /\ r.done = o.done /\ r.asks = o.asks /\ r.errors = TRUE /\ r.confirmed = o.confirmed
        /\ r.stopped = o.stopped /\ r.seen = o.seen
    <3>1. o.step + 1 \in 1..Len(Steps) + 1
      BY <1>1, <1>2, <1>12 DEF StepFails
    <3>2. CASE Steps[o.step].continues
      BY <1>1, <3>1, <3>2 DEF AfterFailure, Run
    <3>3. CASE ~Steps[o.step].continues
      BY <1>1, <3>3 DEF AfterFailure, Run
    <3> QED BY <3>2, <3>3
  <2>2. \/ status = "running" /\ r.pc = "check" /\ r.step = o.step + 1
        \/ status = "failed" /\ r.pc = "finish" /\ r.step = o.step
    BY <1>1 DEF AfterFailure, Run
  <2>3. Report(w, status, r) /\ refused' = refused /\ o.pc = "dispatch"
    BY <1>12 DEF StepFails
  <2> HIDE DEF r, status
  <2>4. ASSUME Told(o, records), NEW recs,
               o.act # NoActivity => o.act \in DOMAIN recs /\ recs[o.act].status = status,
               o.act = NoActivity => recs = records
        PROVE  Told(Reported(w, status, r), recs)
    <3> DEFINE q == Reported(w, status, r)
    <3> SUFFICES Told(q, recs)
      OBVIOUS
    <3>1. q.pc = r.pc /\ q.act = r.act /\ q.step = r.step /\ q.asks = FALSE /\ q.errors = TRUE /\ q.stopped = FALSE
          /\ q.seen = IF o.act # NoActivity THEN status ELSE o.seen
      BY <1>1, <1>2, <2>1, <2>3, <2>4 DEF Told, Reported, Run, Live, Watched
    <3>2. o.seen \in Live
      BY <2>3, <2>4 DEF Told
    <3> HIDE DEF q
    <3> QED BY <1>4, <2>1, <2>2, <2>4, <3>1, <3>2 DEF Told, Live
  <2>5. r.done < r.step
    BY <1>2, <2>1, <2>2
  <2>6. Acts(w, o.act, Reported(w, status, r))
    BY <2>1, <2>2, <2>3, <2>4, <2>5, ReportActs DEF Statuses, Live, Terminal
  <2> QED BY <2>6
<1>13. CASE Finish(w)
  <2>1. CASE FinalStatus(w) # {}
    <3>1. PICK s \in FinalStatus(w) : Report(w, s, Resting)
      BY <1>13, <2>1 DEF Finish
    <3>2. s \in Statuses
      BY <3>1 DEF FinalStatus, Statuses, Terminal
    <3>3. ASSUME NEW recs
          PROVE  Told(Reported(w, s, Resting), recs)
      BY <1>1, <1>3 DEF Told, Reported, Run
    <3>4. Acts(w, o.act, Reported(w, s, Resting))
      BY <1>1, <1>3, <1>13, <3>1, <3>2, <3>3, ReportActs DEF Finish
    <3> QED BY <3>4
  <2>2. CASE FinalStatus(w) = {}
    <3>1. Owned(Resting, records, created) /\ Told(Resting, records)
      BY <1>3 DEF Owned, Told
    <3>2. Acts(w, o.act, Resting)
      BY <1>1, <1>3, <1>13, <2>2, <3>1, QuietActs DEF Finish
    <3> QED BY <3>2
  <2> QED BY <2>1, <2>2
<1>14. ASSUME NEW status \in Statuses, o.pc \in {"coding", "code"}, Update(o.act, status), Set(w, Resting), refused' = refused
       PROVE  Acts(w, o.act, Resting)
  <2>1. \A recs : Owned(Resting, recs, created) /\ Told(Resting, recs)
    BY <1>3 DEF Owned, Told
  <2>2. o.act \in DOMAIN records /\ records' = [records EXCEPT ![o.act].status = status] /\ UNCHANGED created
    BY <1>14 DEF Update, CanUpdate, Known
  <2> QED BY <1>1, <1>3, <1>14, <2>1, <2>2, StatusActs
<1>15. CASE ReportCoding(w)
  <2> DEFINE r == [o EXCEPT !.pc = "code"]
  <2>1. CASE ~o.confirmed
    BY <1>14, <1>15, <2>1 DEF ReportCoding, Statuses, Live
  <2>2. CASE o.confirmed
    <3>1. r \in Run
      BY <1>1 DEF Run
    <3>2. Report(w, "running", r) /\ refused' = refused /\ o.pc = "coding" /\ o.act # NoActivity
      BY <1>1, <1>15, <2>2 DEF ReportCoding, Owned
    <3>3. ASSUME Told(o, records), NEW recs
          PROVE  Told(Reported(w, "running", r), recs)
      BY <1>1, <1>2, <3>2, <3>3 DEF Told, Reported, Run
    <3>4. Acts(w, o.act, Reported(w, "running", r))
      BY <1>1, <1>2, <3>1, <3>2, <3>3, ReportActs DEF Statuses, Live, Run
    <3> QED BY <3>4
  <2> QED BY <2>1, <2>2
<1>16. CASE FinishCoding(w)
  BY <1>14, <1>16 DEF FinishCoding, Statuses, Terminal
<1> QED BY <1>5, <1>6, <1>7, <1>8, <1>9, <1>10, <1>11, <1>12, <1>13, <1>15, <1>16 DEF WorkerStep

LEMMA UserKeeps ==
  ASSUME RunsInv, UserCancels
  PROVE  RunsInv' /\ (AllTold => AllTold')
<1>1. PICK id \in DOMAIN records : RequestCancel(id)
  BY DEF UserCancels
<1>2. /\ Retained' /\ DOMAIN records' = DOMAIN records /\ created' = created
      /\ \A i \in DOMAIN records : records'[i].status = records[i].status
  BY <1>1, CancelEffect DEF RunsInv
<1>3. run' = run /\ refused' = refused
  BY DEF UserCancels
<1>4. \A w \in Workers : Owned(run[w], records', created')
  BY <1>2 DEF RunsInv, Owned
<1>5. NoActivity \notin DOMAIN records
  BY DEF RunsInv, Retained, NoActivity
<1>6. ASSUME NEW w \in Workers, Told(run[w], records)
      PROVE  Told(run[w], records')
  <2>1. Owned(run[w], records, created)
    BY DEF RunsInv
  <2> QED BY <1>2, <1>5, <1>6, <2>1 DEF Told, Owned
<1> QED BY <1>2, <1>3, <1>4, <1>6 DEF RunsInv, OneRunEach, AllTold

LEMMA RunsStep ==
  ASSUME RunsInv, [RNext]_rvars
  PROVE  RunsInv' /\ (AskingStopsNext /\ AllTold => AllTold')
<1>1. CASE UNCHANGED rvars
  BY <1>1 DEF rvars, RunsInv, Retained, OneRunEach, AllTold
<1>2. ASSUME NEW w \in Workers, WorkerStep(w) \/ Request(w)
      PROVE  RunsInv' /\ (AskingStopsNext /\ AllTold => AllTold')
  BY <1>2, WorkerActs, ActsKeep, StartActs DEF Request
<1> QED BY <1>1, <1>2, UserKeeps DEF RNext

LEMMA RunsInit == RInit => RunsInv /\ AllTold
<1> SUFFICES ASSUME RInit
             PROVE  RunsInv /\ AllTold
  OBVIOUS
<1>1. Retained
  BY CreatedAssumption DEF RInit, StoreInit, Retained
<1>2. Resting \in Run /\ Resting.pc = "idle" /\ Resting.act = NoActivity /\ Resting.done < Resting.step
      /\ Resting.asks = FALSE /\ Resting.stopped = FALSE
  <2>1. Len(Steps) \in Nat
    BY StepsAssumption
  <2> QED BY <2>1 DEF Resting, Run, NoActivity, Live, Terminal
<1>3. Owned(Resting, records, created) /\ Told(Resting, records)
  BY <1>2 DEF Owned, Told
<1> QED BY <1>1, <1>2, <1>3 DEF RInit, RunsInv, OneRunEach, AllTold

(* Only a create changes which records there are. *)
LEMMA LimitStep ==
  ASSUME RunsInv, WithinCapacity, [RNext]_rvars
  PROVE  WithinCapacity'
<1>1. CASE Create
  BY <1>1, CreateWithin DEF RunsInv
<1>2. ASSUME NEW id, NEW status, Update(id, status) \/ Acknowledge(id) \/ RequestCancel(id)
      PROVE  DOMAIN records' = DOMAIN records
  BY <1>2 DEF Update, Acknowledge, RequestCancel
<1>3. CASE UserCancels
  BY <1>2, <1>3 DEF UserCancels, WithinCapacity
<1>4. ASSUME NEW w \in Workers, WorkerStep(w)
      PROVE  DOMAIN records' = DOMAIN records
  <2>1. ASSUME NEW status, NEW r, Report(w, status, r)
        PROVE  DOMAIN records' = DOMAIN records
    BY <1>2, <2>1 DEF Report, store
  <2>2. CASE Begin(w) \/ WaitForConfirmation(w) \/ Dispatch(w)
    BY <2>1, <2>2 DEF Begin, WaitForConfirmation, Dispatch
  <2>3. CASE StepSucceeds(w) \/ StepAsks(w) \/ StepFails(w)
    BY <2>1, <2>3 DEF StepSucceeds, StepAsks, StepFails
  <2>4. CASE AcknowledgeStop(w) \/ PassCheck(w)
    BY <1>2, <2>4 DEF AcknowledgeStop, PassCheck, store
  <2>5. CASE Finish(w)
    BY <2>1, <2>5 DEF Finish, store
  <2>6. CASE ReportCoding(w) \/ FinishCoding(w)
    BY <1>2, <2>1, <2>6 DEF ReportCoding, FinishCoding
  <2> QED BY <1>4, <2>2, <2>3, <2>4, <2>5, <2>6 DEF WorkerStep
<1>5. ASSUME NEW w \in Workers, Request(w), ~Create
      PROVE  DOMAIN records' = DOMAIN records
  BY <1>5 DEF Request, Start, StartCoding, store
<1>6. CASE UNCHANGED rvars
  BY <1>6 DEF rvars, WithinCapacity
<1> QED BY <1>1, <1>3, <1>4, <1>5, <1>6 DEF RNext, WithinCapacity

(* The end of a run. *)
LEMMA FinishTells ==
  ASSUME RunsInv, NEW w \in Workers, Told(run[w], records), Finish(w), Watched(w), run[w].act \in DOMAIN records'
  PROVE  records'[run[w].act].status = Outcome(w)
<1> DEFINE o == run[w]
<1>1. /\ o.stopped \in BOOLEAN /\ o.asks \in BOOLEAN /\ o.errors \in BOOLEAN
      /\ o.pc \in {"check", "finish"} /\ o.act # NoActivity /\ Resting \in Run
  BY RunTypes DEF Finish, Run, Watched
<1>2. CASE FinalStatus(w) = {}
  <2>1. records' = records
    BY <1>2 DEF Finish, store
  <2>2. o.seen = "failed" \/ o.stopped = TRUE \/ o.asks = TRUE
    BY <1>1, <1>2 DEF FinalStatus
  <2>3. CASE o.stopped = TRUE
    BY <1>1, <2>1, <2>3 DEF Told, Outcome
  <2>4. CASE o.stopped = FALSE /\ o.asks = TRUE
    BY <1>1, <2>1, <2>4 DEF Told, Outcome
  <2>5. CASE o.stopped = FALSE /\ o.asks = FALSE
    <3>1. o.pc = "finish"
      BY <1>1, <2>2, <2>5 DEF Told, Live
    <3>2. ~Success(w)
      BY <3>1 DEF Told, Success
    <3> QED BY <2>1, <2>5, <3>1, <3>2 DEF Told, Outcome
  <2> QED BY <1>1, <2>3, <2>4, <2>5
<1>3. CASE FinalStatus(w) # {}
  <2>1. PICK s \in FinalStatus(w) : Report(w, s, Resting)
    BY <1>3 DEF Finish
  <2>2. o.stopped = FALSE /\ o.asks = FALSE /\ s = IF Success(w) THEN "succeeded" ELSE "failed"
    BY <1>1, <2>1 DEF FinalStatus
  <2>3. records'[o.act].status = s
    BY <1>1, <2>1, <2>2, ReportEffect DEF Statuses, Terminal
  <2> QED BY <2>2, <2>3 DEF Outcome
<1> QED BY <1>2, <1>3

(* No step but its own Finish ends a run of a workflow. *)
LEMMA FinishEnds ==
  ASSUME RunsInv, NEW w \in Workers, [RNext]_rvars,
         run[w].pc \in {"check", "finish"}, run'[w].pc = "idle"
  PROVE  Finish(w)
<1>1. run' # run
  OBVIOUS
<1>2. PICK v \in Workers : WorkerStep(v) \/ Request(v)
  BY <1>1 DEF RNext, UserCancels, rvars
<1>3. \E r : Set(v, r)
  BY <1>1, <1>2, WorkerActs DEF Acts, Request, Start, StartCoding
<1>4. v = w
  BY <1>3 DEF Set, RunsInv
<1>5. WorkerStep(w)
  BY <1>2, <1>4 DEF Request, Start, StartCoding
<1>6. ASSUME NEW r \in Run, Set(w, r)
      PROVE  r.pc = "idle"
  BY <1>6 DEF Set, RunsInv
<1>7. ~AcknowledgeStop(w) /\ ~PassCheck(w)
  <2> DEFINE stop == [run[w] EXCEPT !.pc = "finish", !.seen = "cancelled", !.stopped = TRUE, !.errors = TRUE]
             pass == [run[w] EXCEPT !.pc = "go"]
  <2>1. stop \in Run /\ stop.pc = "finish" /\ pass \in Run /\ pass.pc = "go"
    BY RunTypes DEF Run, Terminal
  <2> QED BY <1>6, <2>1 DEF AcknowledgeStop, PassCheck
<1> QED BY <1>5, <1>7 DEF WorkerStep, Begin, WaitForConfirmation, Dispatch, StepSucceeds, StepAsks, StepFails,
           ReportCoding, FinishCoding

-----------------------------------------------------------------------------
(* The theorems *)

LEMMA RunsAreInvariant == RSpec => []RunsInv
<1>1. RunsInv /\ [RNext]_rvars => RunsInv'
  BY RunsStep
<1> QED BY <1>1, RunsInit, PTL DEF RSpec

(* For any workers, steps, outcomes and limits the variables keep their    *)
(* types, and the store its limit, however many requests make room in it.  *)
THEOREM StoreKeepsItsLimit == RSpec => [](RTypeOK /\ WithinCapacity)
<1>1. RInit => WithinCapacity
  BY FS_EmptySet, CapacityAssumption DEF RInit, StoreInit, WithinCapacity
<1>2. RunsInv /\ WithinCapacity /\ [RNext]_rvars => WithinCapacity'
  BY LimitStep
<1>3. RunsInv => RTypeOK
  BY RetainedTypes DEF RunsInv, RTypeOK
<1> QED BY <1>1, <1>2, <1>3, RunsAreInvariant, RunsInit, PTL DEF RSpec

(* No run raises out of its own bookkeeping: the store retains the record  *)
(* of a run that goes on and accepts whatever the run may report next,     *)
(* however many other requests fill it and whoever cancels meanwhile       *)
(* (execute and _coding_context; update, _trim).                           *)
THEOREM ReportsAreAlwaysAccepted == RSpec => []ReportsAreAccepted
<1>1. RunsInv => ReportsAreAccepted
  <2> SUFFICES ASSUME RunsInv, NEW w \in Workers, Watched(w), NEW status \in Ahead(w)
               PROVE  CanUpdate(run[w].act, status)
    BY DEF ReportsAreAccepted
  <2>1. Owned(run[w], records, created) /\ run[w] \in Run
    BY DEF RunsInv
  <2>2. run[w].pc # "finish"
    BY <2>1 DEF Owned, Watched, Ahead, FinalStatus
  <2>3. status \in (Live \ {"queued"}) \cup Terminal
    BY <2>1, <2>2 DEF Ahead, FinalStatus, Run, Live, Terminal
  <2> QED BY <2>1, <2>2, <2>3 DEF Owned, Watched, CanUpdate, Known, Allowed
<1> QED BY <1>1, RunsAreInvariant, PTL

(* What a record shows of a run that is over is what became of the run,    *)
(* when a step that asks and may be passed over is followed by one that    *)
(* asks.                                                                   *)
THEOREM OutcomeIsAlwaysReported ==
  ASSUME AskingStopsNext
  PROVE  RSpec => OutcomeIsReported
<1> DEFINE Truthful == \A w \in Workers :
       /\ Watched(w) /\ run[w].pc \in {"check", "finish"} /\ run'[w].pc = "idle"
       /\ run[w].act \in DOMAIN records'
       => records'[run[w].act].status = Outcome(w)
<1>1. ASSUME RunsInv, AllTold, [RNext]_rvars
      PROVE  [Truthful]_rvars
  BY <1>1, FinishEnds, FinishTells DEF AllTold
<1>2. RunsInv /\ AllTold /\ [RNext]_rvars => AllTold'
  BY RunsStep
<1>3. RunsInv /\ AllTold /\ [RNext]_rvars => [Truthful]_rvars
  BY <1>1
<1> QED BY <1>2, <1>3, RunsInit, RunsAreInvariant, PTL DEF RSpec, OutcomeIsReported

-----------------------------------------------------------------------------
(* The file of definitions *)

OneThread == \A t, u \in Threads : t = u

OperationFields == {"pc", "kind", "id", "stamp", "new"}

(* What an operation has read is still in the file, and the temporary file
   holds what it is about to rename. *)
OperationInv(o) ==
  o = NoOperation \/
    /\ DOMAIN o = OperationFields /\ o.pc \in {"open", "flush", "rename"} /\ o # NoOperation
    /\ file.text = "whole" /\ Applicable(o.kind, o.id, file.catalog)
    /\ o.new = Apply(o.kind, o.id, o.stamp, file.catalog)
    /\ o.pc = "flush" => tmp.data = Empty
    /\ o.pc = "rename" => tmp.data = Whole(o.new)

FileInv ==
  /\ file.text = "whole" /\ DOMAIN op = Threads /\ DOMAIN tmp = {"exists", "data", "writers"}
  /\ \A t \in Threads : OperationInv(op[t])

LEMMA FileInvStart == ASSUME FInit PROVE FileInv
<1>1. file.text = "whole" /\ DOMAIN op = Threads /\ \A t \in Threads : op[t] = NoOperation
  BY DEF FInit, Whole
<1>2. DOMAIN tmp = {"exists", "data", "writers"}
  BY DEF FInit, NoTmp
<1> QED BY <1>1, <1>2 DEF FileInv, OperationInv

LEMMA FileInvKept == ASSUME OneThread PROVE FileInv /\ [FNext]_fvars => FileInv'
<1> SUFFICES ASSUME FileInv, [FNext]_fvars PROVE FileInv'
  OBVIOUS
<1> USE DEF FileInv
(* The only thread goes on. *)
<1>1. ASSUME NEW t \in Threads, NEW o, op' = [op EXCEPT ![t] = o], OperationInv(o)', file'.text = "whole",
             DOMAIN tmp' = {"exists", "data", "writers"}
      PROVE  FileInv'
  <2>1. DOMAIN op' = Threads /\ \A u \in Threads : op'[u] = o
    BY <1>1 DEF OneThread
  <2>2. \A u \in Threads : OperationInv(op[u])'
    BY <1>1, <2>1 DEF OperationInv
  <2> QED BY <1>1, <2>1, <2>2
<1>2. ASSUME NEW t \in Threads, op' = [op EXCEPT ![t] = NoOperation], file'.text = "whole",
             DOMAIN tmp' = {"exists", "data", "writers"}
      PROVE  FileInv'
  BY <1>1, <1>2 DEF OperationInv
(* It goes on with the operation it is in. *)
<1>3. ASSUME NEW t \in Threads, op[t] # NoOperation, NEW pc \in {"flush", "rename"}, op' = [op EXCEPT ![t].pc = pc],
             UNCHANGED file, DOMAIN tmp' = {"exists", "data", "writers"},
             pc = "flush" => tmp'.data = Empty, pc = "rename" => tmp'.data = Whole(op[t].new)
      PROVE  FileInv'
  <2>1. OperationInv(op[t])
    OBVIOUS
  <2>2. PICK o : o = [op[t] EXCEPT !.pc = pc]
    OBVIOUS
  <2>3. /\ DOMAIN o = OperationFields /\ o.pc = pc /\ o.kind = op[t].kind /\ o.id = op[t].id
        /\ o.stamp = op[t].stamp /\ o.new = op[t].new
    BY <1>3, <2>1, <2>2 DEF OperationInv, OperationFields
  <2>4. o # NoOperation
    BY <1>3, <2>3 DEF NoOperation
  <2>5. op' = [op EXCEPT ![t] = o]
    BY <1>3, <2>2
  <2>6. OperationInv(o)'
    BY <1>3, <2>1, <2>3, <2>4 DEF OperationInv
  <2> QED BY <1>1, <1>3, <2>5, <2>6
<1>4. ASSUME NEW t \in Threads, BeginChange(t) PROVE FileInv'
  <2>1. PICK kind \in Kinds, id \in Ids :
          /\ Applicable(kind, id, file.catalog)
          /\ op' = [op EXCEPT ![t] = [pc |-> "open", kind |-> kind, id |-> id, stamp |-> begun + 1,
                                      new |-> Apply(kind, id, begun + 1, file.catalog)]]
    BY <1>4 DEF BeginChange
  <2>2. PICK o : o = [pc |-> "open", kind |-> kind, id |-> id, stamp |-> begun + 1,
                      new |-> Apply(kind, id, begun + 1, file.catalog)]
    OBVIOUS
  <2>3. /\ DOMAIN o = OperationFields /\ o.pc = "open" /\ o.kind = kind /\ o.id = id
        /\ o.stamp = begun + 1 /\ o.new = Apply(kind, id, begun + 1, file.catalog)
    BY <2>2 DEF OperationFields
  <2>4. op' = [op EXCEPT ![t] = o] /\ o # NoOperation
    BY <2>1, <2>3, <2>2 DEF NoOperation
  <2>5. UNCHANGED <<file, tmp>>
    BY <1>4 DEF BeginChange
  <2>6. OperationInv(o)'
    BY <2>1, <2>3, <2>4, <2>5 DEF OperationInv
  <2> QED BY <1>1, <2>4, <2>5, <2>6
<1>5. ASSUME NEW t \in Threads, OpenTemp(t) PROVE FileInv'
  BY <1>3, <1>5 DEF OpenTemp
<1>6. ASSUME NEW t \in Threads, FlushTemp(t) PROVE FileInv'
  <2>1. op[t] # NoOperation /\ op[t].pc = "flush" /\ tmp.data = Empty
    BY <1>6 DEF FlushTemp, OperationInv
  <2>2. tmp' = [tmp EXCEPT !.data = Whole(op[t].new), !.writers = CloseTemp(t)]
    BY <1>6, <2>1 DEF FlushTemp
  <2>3. tmp'.data = Whole(op[t].new) /\ DOMAIN tmp' = {"exists", "data", "writers"}
    BY <2>2
  <2> QED BY <1>3, <1>6, <2>1, <2>3 DEF FlushTemp
<1>7. ASSUME NEW t \in Threads, FlushFails(t) PROVE FileInv'
  BY <1>2, <1>7 DEF FlushFails
<1>8. ASSUME NEW t \in Threads, RenameTemp(t) PROVE FileInv'
  <2>1. tmp.data = Whole(op[t].new)
    BY <1>8 DEF RenameTemp, OperationInv
  <2>2. file'.text = "whole" /\ DOMAIN tmp' = {"exists", "data", "writers"}
    BY <1>8, <2>1 DEF RenameTemp, Whole, NoTmp
  <2> QED BY <1>2, <1>8, <2>2 DEF RenameTemp
<1>9. ASSUME NEW t \in Threads, RenameFails(t) PROVE FileInv'
  BY <1>2, <1>9 DEF RenameFails, NoTmp
<1>10. CASE ProcessDies
  BY <1>10 DEF ProcessDies, OperationInv
<1>11. CASE UNCHANGED fvars
  <2>1. ASSUME NEW t \in Threads PROVE OperationInv(op[t])'
    BY <1>11 DEF OperationInv, fvars
  <2> QED BY <1>11, <2>1 DEF fvars
<1> QED BY <1>4, <1>5, <1>6, <1>7, <1>8, <1>9, <1>10, <1>11 DEF FNext

(* The file goes from one whole catalog to the one a single operation makes of
   it, whatever writes and renames fail and whenever the process dies, for any
   number of definitions (WorkflowStore).  Two threads break it, see the README. *)
THEOREM FileChangesSoundly == ASSUME OneThread PROVE FSpec => FileChangesByOneOperation
<1>1. FileInv /\ [FNext]_fvars =>
        [file' # file =>
           /\ file.text = "whole"
           /\ \E t \in Threads :
                /\ op[t] # NoOperation
                /\ Applicable(op[t].kind, op[t].id, file.catalog)
                /\ file' = Whole(Apply(op[t].kind, op[t].id, op[t].stamp, file.catalog))]_fvars
  <2> SUFFICES ASSUME FileInv, FNext, file' # file
               PROVE  /\ file.text = "whole"
                      /\ \E t \in Threads :
                           /\ op[t] # NoOperation
                           /\ Applicable(op[t].kind, op[t].id, file.catalog)
                           /\ file' = Whole(Apply(op[t].kind, op[t].id, op[t].stamp, file.catalog))
    OBVIOUS
  <2>1. PICK t \in Threads : RenameTemp(t)
    BY DEF FNext, BeginChange, OpenTemp, FlushTemp, FlushFails, RenameFails, ProcessDies
  <2>2. op[t] # NoOperation /\ op[t].pc = "rename" /\ file' = tmp.data
    BY <2>1 DEF RenameTemp
  <2>3. OperationInv(op[t])
    BY DEF FileInv
  <2> QED BY <2>2, <2>3 DEF OperationInv, FileInv
<1> QED BY <1>1, FileInvStart, FileInvKept, PTL DEF FSpec, FileChangesByOneOperation

(* The types of the file *)

LEMMA AppliedIsCatalog ==
  ASSUME NEW c \in Catalog, NEW kind, NEW id \in Ids, NEW stamp \in 1..MaxOps
  PROVE  Apply(kind, id, stamp, c) \in Catalog
BY MaxOpsAssumption DEF Catalog, Apply, Absent

LEMMA FileValues ==
  /\ Empty \in Data /\ Garbled \in Data /\ \A c \in Catalog : Whole(c) \in Data
  /\ NoTmp \in [exists : BOOLEAN, data : Data, writers : SUBSET Threads] /\ NoTmp.writers = {}
  /\ NoOperation \notin FileOperation /\ NoOperation.pc = "idle"
<1>1. Nothing \in Catalog
  BY MaxOpsAssumption DEF Nothing, Catalog, Absent
<1>2. Empty \in Data /\ Garbled \in Data /\ \A c \in Catalog : Whole(c) \in Data
  BY <1>1 DEF Empty, Garbled, Whole, Data
<1>3. NoTmp \in [exists : BOOLEAN, data : Data, writers : SUBSET Threads] /\ NoTmp.writers = {}
  BY <1>2 DEF NoTmp
<1>4. NoOperation.pc = "idle" /\ \A o \in FileOperation : o.pc # "idle"
  BY DEF NoOperation, FileOperation
<1> QED BY <1>2, <1>3, <1>4

LEMMA FileTypesKept == ASSUME FTypeOK, [FNext]_fvars PROVE FTypeOK'
<1> USE DEF FTypeOK
<1>1. ASSUME NEW t \in Threads, op[t] # NoOperation
      PROVE  op[t] \in FileOperation /\ op[t].new \in Catalog
  BY <1>1 DEF FileOperation
(* One thread goes on: the handles follow its step. *)
<1>2. ASSUME NEW t \in Threads, NEW o \in FileOperation \cup {NoOperation}, op' = [op EXCEPT ![t] = o],
             NEW data \in Data, NEW exists \in BOOLEAN,
             tmp' = [exists |-> exists, data |-> data,
                     writers |-> IF o.pc = "flush" THEN tmp.writers \cup {t} ELSE tmp.writers \ {t}],
             file' \in Data, begun' \in 0..MaxOps
      PROVE  FTypeOK'
  <2>1. op' \in [Threads -> FileOperation \cup {NoOperation}] /\ op'[t] = o /\ \A u \in Threads \ {t} : op'[u] = op[u]
    BY <1>2
  <2>2. tmp'.writers = {u \in Threads : op'[u].pc = "flush"}
    BY <1>2, <2>1
  <2>3. tmp' \in [exists : BOOLEAN, data : Data, writers : SUBSET Threads]
    BY <1>2
  <2> QED BY <1>2, <2>1, <2>2, <2>3
<1>3. ASSUME NEW t \in Threads, BeginChange(t) PROVE FTypeOK'
  <2>1. PICK kind \in Kinds, id \in Ids :
          LET new == Apply(kind, id, begun + 1, file.catalog) IN
            op' = [op EXCEPT ![t] = [pc |-> "open", kind |-> kind, id |-> id, stamp |-> begun + 1, new |-> new]]
    BY <1>3 DEF BeginChange
  <2> DEFINE new == Apply(kind, id, begun + 1, file.catalog)
             o == [pc |-> "open", kind |-> kind, id |-> id, stamp |-> begun + 1, new |-> new]
  <2>2. begun + 1 \in 1..MaxOps /\ begun' = begun + 1 /\ op[t] = NoOperation /\ UNCHANGED <<file, tmp>>
    BY <1>3, MaxOpsAssumption DEF BeginChange
  <2>3. new \in Catalog
    BY <2>2, AppliedIsCatalog DEF Data
  <2> HIDE DEF new
  <2>4. o \in FileOperation /\ o.pc = "open"
    BY <2>2, <2>3 DEF FileOperation
  <2>5. op' = [op EXCEPT ![t] = o]
    BY <2>1 DEF new
  <2> HIDE DEF o
  <2>6. tmp.exists \in BOOLEAN /\ tmp.data \in Data /\ t \notin tmp.writers
        /\ tmp = [exists |-> tmp.exists, data |-> tmp.data, writers |-> tmp.writers]
    BY <2>2, FileValues
  <2>7. tmp' = [exists |-> tmp.exists, data |-> tmp.data, writers |-> tmp.writers \ {t}]
    BY <2>2, <2>6
  <2>8. begun' \in 0..MaxOps /\ file' \in Data
    BY <2>2
  <2> QED BY <1>2, <2>4, <2>5, <2>6, <2>7, <2>8
<1>4. ASSUME NEW t \in Threads, OpenTemp(t) PROVE FTypeOK'
  <2> DEFINE o == [op[t] EXCEPT !.pc = "flush"]
  <2>1. o \in FileOperation /\ o.pc = "flush"
    BY <1>1, <1>4 DEF OpenTemp, FileOperation
  <2>2. op' = [op EXCEPT ![t] = o] /\ UNCHANGED <<file, begun>>
        /\ tmp' = [exists |-> TRUE, data |-> Empty, writers |-> tmp.writers \cup {t}]
    BY <1>4 DEF OpenTemp
  <2> HIDE DEF o
  <2> QED BY <1>2, <2>1, <2>2, FileValues
<1>5. ASSUME NEW t \in Threads, FlushTemp(t) PROVE FTypeOK'
  <2> DEFINE o == [op[t] EXCEPT !.pc = "rename"]
  <2>1. o \in FileOperation /\ o.pc = "rename"
    BY <1>1, <1>5 DEF FlushTemp, FileOperation
  <2>2. PICK data \in Data : tmp' = [tmp EXCEPT !.data = data, !.writers = tmp.writers \ {t}]
    BY <1>1, <1>5, FileValues DEF FlushTemp, CloseTemp
  <2>3. op' = [op EXCEPT ![t] = o] /\ UNCHANGED <<file, begun>>
    BY <1>5 DEF FlushTemp
  <2> HIDE DEF o
  <2>4. tmp' = [exists |-> tmp.exists, data |-> data, writers |-> tmp.writers \ {t}] /\ tmp.exists \in BOOLEAN
    BY <2>2
  <2> QED BY <1>2, <2>1, <2>3, <2>4
<1>6. ASSUME NEW t \in Threads, FlushFails(t) PROVE FTypeOK'
  <2>1. tmp' = [exists |-> tmp.exists, data |-> Garbled, writers |-> tmp.writers \ {t}] /\ tmp.exists \in BOOLEAN
    BY <1>6 DEF FlushFails
  <2>2. op' = [op EXCEPT ![t] = NoOperation] /\ UNCHANGED <<file, begun>>
    BY <1>6 DEF FlushFails
  <2> QED BY <1>2, <2>1, <2>2, FileValues
<1>7. ASSUME NEW t \in Threads, RenameTemp(t) \/ RenameFails(t) PROVE FTypeOK'
  <2>1. op' = [op EXCEPT ![t] = NoOperation] /\ file' \in Data /\ UNCHANGED begun
    BY <1>7 DEF RenameTemp, RenameFails
  <2>2. tmp.exists \in BOOLEAN /\ tmp.data \in Data /\ t \notin tmp.writers
        /\ tmp = [exists |-> tmp.exists, data |-> tmp.data, writers |-> tmp.writers]
    BY <1>7 DEF RenameTemp, RenameFails
  <2>3. CASE tmp' = tmp
    <3>1. tmp' = [exists |-> tmp.exists, data |-> tmp.data, writers |-> tmp.writers \ {t}]
      BY <2>2, <2>3
    <3> QED BY <1>2, <2>1, <2>2, <3>1, FileValues
  <2>4. CASE tmp' = NoTmp /\ tmp.writers = {}
    <3>1. tmp' = [exists |-> FALSE, data |-> Empty, writers |-> tmp.writers \ {t}]
      BY <2>4 DEF NoTmp
    <3> QED BY <1>2, <2>1, <3>1, FileValues
  <2> QED BY <1>7, <2>3, <2>4 DEF RenameTemp, RenameFails
<1>8. CASE ProcessDies
  <2>1. op' \in [Threads -> FileOperation \cup {NoOperation}] /\ \A t \in Threads : op'[t].pc = "idle"
    BY <1>8, FileValues DEF ProcessDies
  <2>2. tmp' \in [exists : BOOLEAN, data : Data, writers : SUBSET Threads] /\ tmp'.writers = {}
    BY <1>8 DEF ProcessDies
  <2> QED BY <1>8, <2>1, <2>2 DEF ProcessDies
<1>9. CASE UNCHANGED fvars
  BY <1>9 DEF fvars
<1> QED BY <1>3, <1>4, <1>5, <1>6, <1>7, <1>8, <1>9 DEF FNext

LEMMA FileTypesStart == ASSUME FInit PROVE FTypeOK
<1>1. Nothing \in Catalog
  BY MaxOpsAssumption DEF Nothing, Catalog, Absent
<1> QED BY <1>1, FileValues, MaxOpsAssumption DEF FInit, FTypeOK

(* The operations, the file and the temporary file keep their types, for   *)
(* any threads, and the open handles are those of the threads that write.  *)
THEOREM FileIsTyped == FSpec => []FTypeOK
BY FileTypesStart, FileTypesKept, PTL DEF FSpec

=============================================================================
