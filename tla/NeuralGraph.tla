----------------------------- MODULE NeuralGraph -----------------------------
(***************************************************************************)
(* The graph that NeuralWorld (neural_world.py) keeps: entities and the    *)
(* relations between them, what is found in it by hops, and world.json.    *)
(* Every method runs under one lock.  An entity is what the shape          *)
(* controller tells apart: its shape, and whether it is visible.           *)
(***************************************************************************)
EXTENDS Naturals, Sequences, FiniteSets, SequencesExt, Records

CONSTANTS
  Core, Subsystem,   \* what the bootstrap makes: the core, and one for its subsystems
  Found,             \* windows, processes and others that discovery finds
  Tasks,             \* requests under way
  Made,              \* identifiers of generated objects
  MaxEntities,       \* the budget of entities (50000)
  MaxHops,           \* of a trace (8; the page asks for 12)
  MaxChanges,        \* bound on the changes of the graph
  MaxEnds            \* bound on the ends of the program

ASSUME GraphAssumption ==
  /\ Core # Subsystem /\ {Core, Subsystem} \cap (Found \cup Tasks \cup Made) = {}
  /\ MaxEntities \in Nat /\ MaxEntities >= 2 /\ {MaxHops, MaxChanges, MaxEnds} \subseteq Nat

VARIABLES
  entities,    \* the known ones
  relations,   \* pairs, in the order they were first made
  worldFile,   \* world.json
  ends,        \* ends of the program so far
  changes      \* changes of the graph so far

gvars == <<entities, relations, worldFile, ends, changes>>

Nodes == {Core, Subsystem} \cup Found \cup Tasks \cup Made
Shapes == {"own", "set", "changed"}
Entity == [shape : Shapes, visible : BOOLEAN]
NewEntity == [shape |-> "own", visible |-> TRUE]

-----------------------------------------------------------------------------
(* upsert, retire, relate *)

Exists(id) == id \in DOMAIN entities
HasPlace(id) == Exists(id) \/ Cardinality(DOMAIN entities) < MaxEntities

Upserting(es, id, fields) ==
  Over(Single(id, Over(fields, IF id \in DOMAIN es THEN es[id] ELSE NewEntity)), es)

(* A removed entity takes its relations along.                             *)
Removing(es, id) == [x \in DOMAIN es \ {id} |-> es[x]]
Unrelating(rs, id) ==
  LET left[n \in 0..Len(rs)] ==
        IF n = 0 THEN <<>> ELSE IF id \in {rs[n][1], rs[n][2]} THEN left[n - 1] ELSE Append(left[n - 1], rs[n])
  IN  left[Len(rs)]

(* Made again, a relation keeps its place.                                 *)
Relating(rs, source, to) == IF <<source, to>> \in ToSet(rs) THEN rs ELSE Append(rs, <<source, to>>)

(* What discovery lists is shown, and related to a subsystem or to         *)
(* nothing; without a place for it the discovery ends there.               *)
Discover(id) ==
  /\ HasPlace(id)
  /\ entities' = Upserting(entities, id, [visible |-> TRUE])
  /\ relations' \in {Relating(relations, Subsystem, id), relations}
  /\ UNCHANGED <<worldFile, ends>>

(* neural_task_started: a task is not kept in the file, its relation is.   *)
StartTask(id) ==
  /\ HasPlace(id) /\ entities' = Upserting(entities, id, [visible |-> TRUE])
  /\ relations' = Relating(relations, Core, id)
  /\ UNCHANGED <<worldFile, ends>>

RetireEntity(id) ==
  /\ Exists(id) /\ entities' = [entities EXCEPT ![id].visible = FALSE]
  /\ UNCHANGED <<relations, worldFile, ends>>

Relate(source, to) ==
  /\ Exists(source) /\ Exists(to)
  /\ relations' = Relating(relations, source, to)
  /\ UNCHANGED <<entities, worldFile, ends>>

-----------------------------------------------------------------------------
(* trace: breadth first, over relations in either direction and in their   *)
(* order.  found[n] is what n turns of the loop leave; every entity is     *)
(* visited once, so there are no more turns than entities.                 *)

Path(id, hops) == [at |-> id, hops |-> hops]

Visit(acc, r, current) ==
  LET next == IF r[1] = current.at THEN r[2] ELSE r[1]
  IN  IF current.at \notin {r[1], r[2]} \/ next \in acc.visited THEN acc
      ELSE [acc EXCEPT !.visited = @ \cup {next},
                       !.queue = Append(@, Path(next, Append(current.hops, <<current.at, next>>)))]

Expand(s, current) ==
  LET after[n \in 0..Len(relations)] == IF n = 0 THEN s ELSE Visit(after[n - 1], relations[n], current)
  IN  after[Len(relations)]

\* mutant: one hop more than allowed
TurnOneMore(s, to) ==
  IF s.queue = <<>> \/ s.done THEN s
  ELSE LET current == Head(s.queue)
           rest == [s EXCEPT !.queue = Tail(@)]
       IN  IF current.at = to THEN [rest EXCEPT !.done = TRUE, !.path = current.hops]
           ELSE IF Len(current.hops) > MaxHops THEN rest
           ELSE Expand(rest, current)

Turn(s, to) ==
  IF s.queue = <<>> \/ s.done THEN s
  ELSE LET current == Head(s.queue)
           rest == [s EXCEPT !.queue = Tail(@)]
       IN  IF current.at = to THEN [rest EXCEPT !.done = TRUE, !.path = current.hops]
           ELSE IF Len(current.hops) >= MaxHops THEN rest
           ELSE Expand(rest, current)

Trace(start, to) ==
  LET turns == Cardinality(DOMAIN entities) + 1
      found[n \in 0..turns] ==
        IF n = 0 THEN [queue |-> <<Path(start, <<>>)>>, visited |-> {start}, done |-> FALSE, path |-> <<>>]
        ELSE Turn(found[n - 1], to)
  IN  found[turns].path

(* search, connected to what the words match: of two related matches only  *)
(* the second one is found.                                                *)
Connected(ids) ==
  {IF r[1] \in ids THEN r[2] ELSE r[1] : r \in {x \in ToSet(relations) : {x[1], x[2]} \cap ids # {}}}

(* snapshot: what the page is given, the core first, then up to a limit.   *)
SeenByPage == {id \in DOMAIN entities : entities[id].visible}

-----------------------------------------------------------------------------
(* save; __init__ with _bootstrap and _load_persisted.  A relation of the  *)
(* file that lost an end is passed over.                                   *)

CurrentWorld == [entities |-> [id \in DOMAIN entities \ Tasks |-> entities[id]], relations |-> relations]
Bootstrap == [entities |-> [id \in {Core, Subsystem} |-> NewEntity], relations |-> <<<<Core, Subsystem>>>>]

LoadedEntities(world) == Over(world.entities, Bootstrap.entities)
LoadedRelations(world) ==
  LET known == DOMAIN LoadedEntities(world)
      count == Len(world.relations)
      loaded[n \in 0..count] ==
        IF n = 0 THEN Bootstrap.relations
        ELSE LET r == world.relations[n]
             IN  IF {r[1], r[2]} \subseteq known THEN Relating(loaded[n - 1], r[1], r[2]) ELSE loaded[n - 1]
  IN  loaded[count]

SaveWorld == worldFile' = CurrentWorld /\ UNCHANGED <<entities, relations, ends, changes>>

(* The program ends, in order and with the world saved, or not.            *)
EndWorld(orderly) ==
  /\ ends < MaxEnds /\ ends' = ends + 1
  /\ worldFile' = IF orderly THEN CurrentWorld ELSE worldFile
  /\ entities' = LoadedEntities(worldFile') /\ relations' = LoadedRelations(worldFile')
  /\ UNCHANGED changes

GraphInit ==
  /\ entities = Bootstrap.entities /\ relations = Bootstrap.relations
  /\ worldFile = [entities |-> <<>>, relations |-> <<>>] /\ ends = 0 /\ changes = 0

GraphChanges ==
  /\ changes < MaxChanges /\ changes' = changes + 1
  /\ \/ \E id \in Found : Discover(id) \/ RetireEntity(id)
     \/ \E id \in Tasks : StartTask(id)
     \/ \E source, to \in Nodes : Relate(source, to)

GraphNext ==
  \/ GraphChanges
  \/ SaveWorld
  \/ \E orderly \in BOOLEAN : EndWorld(orderly)

GraphSpec == GraphInit /\ [][GraphNext]_gvars

-----------------------------------------------------------------------------

HasEnds == \A r \in ToSet(relations) : {r[1], r[2]} \subseteq DOMAIN entities

GTypeOK ==
  /\ DOMAIN entities \subseteq Nodes /\ \A id \in DOMAIN entities : entities[id] \in Entity
  /\ Cardinality(DOMAIN entities) <= MaxEntities
  /\ IsInjective(relations) /\ HasEnds /\ ends \in 0..MaxEnds /\ changes \in 0..MaxChanges

(* How many hops apart, written without the search: n is enough when to is *)
(* among what n steps over relations reach.                                *)
Reach(start) ==
  LET reach[n \in 0..MaxHops] ==
        IF n = 0 THEN {start}
        ELSE reach[n - 1] \cup {id \in Nodes : \E r \in ToSet(relations) :
                                  /\ id \in {r[1], r[2]} /\ {r[1], r[2]} \cap reach[n - 1] # {}}
  IN  reach

Joins(path, start, to) ==
  /\ path[1][1] = start /\ Last(path)[2] = to
  /\ \A i \in DOMAIN path : <<path[i][1], path[i][2]>> \in ToSet(relations)
                            \/ <<path[i][2], path[i][1]>> \in ToSet(relations)
  /\ \A i \in 1..(Len(path) - 1) : path[i][2] = path[i + 1][1]

(* A trace is a way from the one to the other, and none is shorter; there  *)
(* is none only when they are further apart than the hops allowed, or the  *)
(* same (trace, the ways of the neural page).                              *)
TraceIsShortest ==
  \A start, to \in DOMAIN entities :
    LET path == Trace(start, to)
    IN  IF path = <<>> THEN start = to \/ to \notin Reach(start)[MaxHops]
        ELSE Len(path) <= MaxHops /\ Joins(path, start, to) /\ to \notin Reach(start)[Len(path) - 1]

(* No run checks this one, see the README, other disagreements.  Filtering *)
(* by "connected_to" finds every neighbour of what the words match.        *)
ConnectedAreAll ==
  \A ids \in SUBSET DOMAIN entities :
    Connected(ids) = {id \in Nodes : \E r \in ToSet(relations) : \E a \in ids : {id, a} = {r[1], r[2]}}

=============================================================================
