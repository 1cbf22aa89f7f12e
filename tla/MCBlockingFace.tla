--------------------------- MODULE MCBlockingFace ---------------------------
(***************************************************************************)
(* Two blocking clients that compete for one slot, the first with a bound  *)
(* and a timeout and the second with neither, and a serving thread that    *)
(* takes one claim in a poll and restarts once.                            *)
(***************************************************************************)
EXTENDS BlockingFace

CONSTANTS first, second

MCClientTask == <<first, second>>
MCLimits == <<{"ahead"}, {"none", "ahead"}>>
=============================================================================
