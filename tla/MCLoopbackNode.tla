--------------------------- MODULE MCLoopbackNode ---------------------------
(***************************************************************************)
(* A node with two local instances, one on another machine, a catalog that *)
(* is embedded under two hashes, and three attachments.  Twins and the     *)
(* listener exist.                                                         *)
(***************************************************************************)
EXTENDS LoopbackNode, TLC

CONSTANTS here, there

MCInstances == {1, 2, 3}
MCPlaced == (1 :> here) @@ (2 :> here) @@ (3 :> there)
MCNames == (1 :> {"cabin"}) @@ (2 :> {"body"}) @@ (3 :> {"chassis"})
MCCatalogs == {[name |-> "cabin", hash |-> 1], [name |-> "cabin", hash |-> 2],
               [name |-> "body", hash |-> 1], [name |-> "chassis", hash |-> 1]}
=============================================================================
