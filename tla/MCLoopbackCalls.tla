--------------------------- MODULE MCLoopbackCalls ---------------------------
(***************************************************************************)
(* The loopback's call store: two slots, two callers, two handlers of one  *)
(* member, two sends, one failing settlement, and a task that registers on *)
(* the server's and the callers' interests.                                *)
(***************************************************************************)
EXTENDS LoopbackCalls

==============================================================================
