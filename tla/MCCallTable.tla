----------------------------- MODULE MCCallTable -----------------------------
(***************************************************************************)
(* A table of two slots in a three-slot correlation space, so that one     *)
(* slot index names no slot, with two generations: each slot is used up to *)
(* the last generation it has and its generation wraps to 0.               *)
(***************************************************************************)
EXTENDS CallTable
==============================================================================
