------------------------------ MODULE Workspace ------------------------------
(***************************************************************************)
(* The spatial workspace and the liquid ecology of neural_advanced.py:     *)
(* surfaces with their groups, stacks and displays, and cells that divide, *)
(* die and are seeded with the entities of the neural world.  Each method  *)
(* runs under its lock, so it is an operator from a state to the next one. *)
(* Geometry is left to what a surface's place was last made by.            *)
(***************************************************************************)
EXTENDS Naturals, Sequences, FiniteSets, SequencesExt, Records

CONSTANTS
  Surfaces,        \* identifiers of surfaces
  GroupNames,      \* of groups and of stacks
  Screens,         \* displays a wall may hang on
  MaxParticles     \* the ecology's limit (4096)

ASSUME WorkspaceAssumption == MaxParticles \in Nat \ {0}

nobody == "none"

(* WorkspaceSurface, what its place is made of left out.                   *)
Fresh == [group |-> nobody, stack |-> nobody, z |-> 0, visible |-> TRUE, state |-> "attached",
          giant |-> FALSE, tether |-> nobody, screen |-> nobody, place |-> "given"]
Places3D == {"given", "tiled", "snapped", "moved"}
MaxZ == 10         \* the order the features ask for

EmptyWorkspace == [surfaces |-> <<>>, groups |-> [g \in GroupNames |-> {}],
                   stacks |-> [g \in GroupNames |-> <<>>], screens |-> {}, mode |-> "desktop"]

IsWorkspace(w) ==
  /\ DOMAIN w.surfaces \subseteq Surfaces
  /\ \A s \in DOMAIN w.surfaces : w.surfaces[s] \in
       [group : GroupNames \cup {nobody}, stack : GroupNames \cup {nobody}, z : 0..MaxZ, visible : BOOLEAN,
        state : {"attached", "detached"}, giant : BOOLEAN, tether : Surfaces \cup {nobody},
        screen : Screens \cup {nobody}, place : Places3D]
  /\ \A g \in GroupNames : /\ w.groups[g] \subseteq DOMAIN w.surfaces
                           /\ ToSet(w.stacks[g]) \subseteq DOMAIN w.surfaces
  /\ w.screens \subseteq Screens /\ w.mode \in {"desktop", "3d"}

Members(w, ids) == ToSet(ids) \cap DOMAIN w.surfaces

(* What is done to each of some surfaces; those not known are passed over. *)
Each(w, ids, Change(_)) ==
  [w EXCEPT !.surfaces = [s \in DOMAIN w.surfaces |-> IF s \in ids THEN Change(@[s]) ELSE @[s]]]
Placed(w, ids, how) == Each(w, ids, LAMBDA s : [s EXCEPT !.place = how])

-----------------------------------------------------------------------------
(* SpatialWorkspace *)

(* Surfaces are made or changed in the given fields.  Each joins the group *)
(* it names, now or since before, and leaves none.                         *)
Upserted(w, S, fields) ==
  LET item(s) == Over(fields, IF s \in DOMAIN w.surfaces THEN w.surfaces[s] ELSE Fresh)
  IN  [w EXCEPT !.surfaces = Over([s \in S |-> item(s)], @),
                !.groups = [g \in GroupNames |-> @[g] \cup {s \in S : item(s).group = g}]]

(* The group is replaced; those left out go on naming it, and the new      *)
(* members stay in the sets of the groups they were in.                    *)
Grouped(w, g, ids) ==
  [Each(w, ToSet(ids), LAMBDA s : [s EXCEPT !.group = g]) EXCEPT !.groups[g] = Members(w, ids)]

(* Those of a list that are known, in its order. *)
KnownOf(w, ids) ==
  LET known[i \in 0..Len(ids)] ==   \* of the first i
        IF i = 0 THEN <<>> ELSE IF ids[i] \in DOMAIN w.surfaces THEN Append(known[i - 1], ids[i]) ELSE known[i - 1]
  IN  known[Len(ids)]

Stacked(w, g, ids) ==
  LET members == KnownOf(w, ids)
      order(s) == CHOOSE i \in DOMAIN members : members[i] = s
  IN  [w EXCEPT !.stacks[g] = members,
                !.surfaces = [s \in DOMAIN w.surfaces |->
                   IF s \in ToSet(members) THEN [@[s] EXCEPT !.stack = g, !.z = order(s) - 1] ELSE @[s]]]

Tiled(w, ids) == Placed(w, ToSet(ids), "tiled")
Snapped(w, s) == Placed(w, {s}, "snapped")

(* move_group changes places; resize_group and rotate_group change sizes   *)
(* and angles, which are left out.                                         *)
GroupMoved(w, g) == Placed(w, w.groups[g], "moved")
GroupTurned(w, g) == w
GroupShown(w, g, shown) == Each(w, w.groups[g], LAMBDA s : [s EXCEPT !.visible = shown])

GiantWall(w, ids) ==
  Each(Tiled(w, ids), ToSet(ids), LAMBDA s : [s EXCEPT !.giant = TRUE, !.state = "detached"])
Transitioned(w, to) == [w EXCEPT !.mode = to]
Ordered(w, s, order) == Each(w, {s}, LAMBDA x : [x EXCEPT !.z = order])

(* Of two visible surfaces that overlap the later one is moved a little,   *)
(* never the first; which overlap is geometry.                             *)
Separable(w) == {M \in SUBSET {s \in DOMAIN w.surfaces : w.surfaces[s].visible} :
                   M # {} => \E s \in DOMAIN w.surfaces \ M : w.surfaces[s].visible}
Separated(w, moved) == Placed(w, moved, "moved")

MonitorWall(w, d, ids) == [Tiled(w, ids) EXCEPT !.screens = @ \cup {d}]
Navigated(w, d) == [w EXCEPT !.screens = @ \cup {d}]
Moved(w, s) == Placed(w, {s}, "moved")                   \* jiggle, elastic_move, freeform
Tethered(w, s, anchor) == Each(w, {s}, LAMBDA x : [x EXCEPT !.tether = anchor])
Detached(w, s) == Each(w, {s}, LAMBDA x : [x EXCEPT !.state = "detached"])
Attached(w, s, d) ==
  Each(w, {s}, LAMBDA x : [x EXCEPT !.state = "attached", !.screen = IF d = nobody THEN @ ELSE d])
Restored(w, ids) == Each(w, ToSet(ids), LAMBDA s : [s EXCEPT !.visible = TRUE])

(* command_workspace: a method that looks the surface up raises when it is *)
(* not known, and changes nothing.                                         *)
Lists(S) == {list \in SeqOf(S, 2) : IsInjective(list)}
Commanded(w) ==
  {Upserted(w, {s}, f) : s \in Surfaces, f \in {<<>>} \cup {[group |-> g] : g \in GroupNames \cup {nobody}}}
  \cup (UNION {{Grouped(w, g, ids), Stacked(w, g, ids)} : g \in GroupNames, ids \in Lists(Surfaces)})
  \cup (UNION {{Tiled(w, ids), GiantWall(w, ids), Restored(w, ids)} : ids \in Lists(Surfaces)})
  \cup (UNION {{GroupMoved(w, g), GroupTurned(w, g)} : g \in GroupNames})
  \cup {GroupShown(w, g, shown) : g \in GroupNames, shown \in BOOLEAN}
  \cup {Transitioned(w, to) : to \in {"desktop", "3d"}}
  \cup (UNION {{Snapped(w, s), Moved(w, s), Detached(w, s)} : s \in DOMAIN w.surfaces})
  \cup {Attached(w, s, d) : s \in DOMAIN w.surfaces, d \in Screens \cup {nobody}}
  \cup {Tethered(w, s, a) : s \in DOMAIN w.surfaces, a \in Surfaces}
  \cup {Navigated(w, d) : d \in Screens}

-----------------------------------------------------------------------------
(* LiquidEcology: the cells and a counter that names the children.         *)

EmptyEcology == [cells |-> <<>>, generation |-> 0]
CellStates == {"active", "growing", "apoptosing"}
Cells(e) == DOMAIN e.cells
Full(e) == Cardinality(Cells(e)) >= MaxParticles

Born(e, ids, state) == [e EXCEPT !.cells = Over([id \in ids |-> state], @)]

(* The limit is looked at after a cell was added: a full ecology takes one *)
(* new cell of every list it is seeded with.                               *)
Seeded(e, ids) ==
  LET new(i) == {ids[j] : j \in 1..i} \ Cells(e)       \* among the first i
      taken  == {i \in DOMAIN ids : new(i - 1) = {} \/ Cardinality(Cells(e) \cup new(i - 1)) < MaxParticles}
  IN  Born(e, {ids[i] : i \in taken} \ Cells(e), "active")

(* mitosis: one to four children, as far as there is room.                 *)
Divided(e, parent, count) ==
  LET named == [e EXCEPT !.generation = @ + 1]
      room  == {i \in 1..count : Cardinality(Cells(e)) + i <= MaxParticles}
  IN  Born(named, {<<parent, "child", named.generation, i>> : i \in room}, "growing")

(* apoptosis_sequence, and apoptosis as the command calls it: the cell     *)
(* stays.                                                                  *)
Dying(e, id) == [e EXCEPT !.cells[id] = "apoptosing"]

WithSatellite(e, parent) ==
  LET named == [e EXCEPT !.generation = @ + 1]
  IN  IF Full(e) THEN named ELSE Born(named, {<<parent, "satellite", named.generation, 0>>}, "active")

(* reconnect, magnetic_relationship, growth_sequence and reorganize_core   *)
(* need their cells and change speeds, places and the log of events.       *)
Pulled(e) == e

(* step moves every cell and makes the growing ones active.                *)
Stepped(e) == [e EXCEPT !.cells = [c \in DOMAIN @ |-> IF @[c] = "growing" THEN "active" ELSE @[c]]]

CoreCommanded(e) ==
  {Stepped(e)} \cup (UNION {{Divided(e, p, 1), Divided(e, p, 2), Dying(e, p), WithSatellite(e, p), Pulled(e)} : p \in Cells(e)})

=============================================================================
