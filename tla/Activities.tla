----------------------------- MODULE Activities -----------------------------
(***************************************************************************)
(* The bounded store of activity records (quality_of_life/activity.py).    *)
(* Every operation holds the store's lock, so each is one action.  Ids are *)
(* numbered in order of creation, which is the order of the OrderedDict.   *)
(***************************************************************************)
EXTENDS Naturals, FiniteSets

CONSTANTS
  MaxRecords,   \* max_records of the store
  MaxCreated    \* bound on the records ever created

ASSUME CapacityAssumption == MaxRecords \in Nat \ {0}
ASSUME CreatedAssumption  == MaxCreated \in Nat

VARIABLES
  records,      \* the retained records: a function on some of the ids
  created       \* how many records were created

store == <<records, created>>

ActivityIds == 1..MaxCreated
Live        == {"queued", "running", "waiting"}
Terminal    == {"succeeded", "failed", "cancelled"}
Record      == [status : Live \cup Terminal, cancel : BOOLEAN]

(* _ALLOWED: a live record may go anywhere but back to the queue. *)
Allowed(from) == IF from \in Live THEN (Live \ {"queued"}) \cup Terminal ELSE {}

Known(id) == id \in DOMAIN records

Without(ids) == [i \in DOMAIN records \ ids |-> records[i]]

Oldest(ids) == {i \in ids : \A j \in ids : i <= j}

Finished == {i \in DOMAIN records : records[i].status \in Terminal}

(* _trim: only finished records make room, the oldest first. *)
Evictable == Oldest(Finished)

(* A full store stays full by one create at most, so the loop runs once. *)
Trimmed ==
  IF Cardinality(DOMAIN records) >= MaxRecords THEN Without(Evictable) ELSE records

\* mutant: a full store takes one more
HasRoomForOneMore == Cardinality(DOMAIN Trimmed) <= MaxRecords

HasRoom == Cardinality(DOMAIN Trimmed) < MaxRecords

(* Ids are fresh (uuid4). *)
NextId == created + 1

(* create, when it does not raise ActivityCapacityError. *)
Create ==
  /\ created < MaxCreated /\ HasRoom
  /\ created' = created + 1
  /\ records' = [i \in DOMAIN Trimmed \cup {NextId} |->
       IF i = NextId THEN [status |-> "queued", cancel |-> FALSE] ELSE Trimmed[i]]

CanUpdate(id, status) == Known(id) /\ status \in Allowed(records[id].status)

Update(id, status) ==
  /\ CanUpdate(id, status)
  /\ records' = [records EXCEPT ![id].status = status]
  /\ UNCHANGED created

(* request_cancel: a terminal record raises, a repeated request does nothing. *)
RequestCancel(id) ==
  /\ Known(id) /\ records[id].status \in Live
  /\ records' = [records EXCEPT ![id].cancel = TRUE]
  /\ UNCHANGED created

(* acknowledge_cancel *)
Acknowledge(id) ==
  /\ Known(id)
  /\ records[id].status \in Live => records[id].cancel
  /\ records[id].status \in Live \cup {"cancelled"}
  /\ records' = [records EXCEPT ![id].status = "cancelled"]
  /\ UNCHANGED created

StoreInit == records = << >> /\ created = 0

StoreTypeOK ==
  /\ created \in 0..MaxCreated
  /\ DOMAIN records \subseteq 1..created
  /\ \A i \in DOMAIN records : records[i] \in Record

(* The store never holds more than max_records records. *)
WithinCapacity == Cardinality(DOMAIN records) <= MaxRecords

=============================================================================
