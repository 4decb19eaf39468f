------------------------------ MODULE Records ------------------------------
(***************************************************************************)
(* A dictionary updated by another, or a record by some of its fields:     *)
(* what the operator @@ of the module TLC says, with a definition.         *)
(***************************************************************************)

Over(f, g) == [x \in DOMAIN f \cup DOMAIN g |-> IF x \in DOMAIN f THEN f[x] ELSE g[x]]

Single(x, value) == [y \in {x} |-> value]

=============================================================================
