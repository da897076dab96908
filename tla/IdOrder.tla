------------------------------- MODULE IdOrder -------------------------------
(***************************************************************************)
(* Numbers in their order: where the tools number the ids of a file anew,  *)
(* or visit them in sorted order.                                          *)
(***************************************************************************)
EXTENDS Naturals, FiniteSets

(* The number of smaller ids: where an id comes in sorted order, from 0. *)
Rank(ids, id) == Cardinality({i \in ids : i < id})

(* The ids in their order. *)
InIdOrder(ids) ==
    [n \in 1 .. Cardinality(ids) |-> CHOOSE id \in ids : Rank(ids, id) = n - 1]

=============================================================================
