-------------------------- MODULE MCLoopbackStreams --------------------------
(***************************************************************************)
(* Calls with streams on small instances.  MCLoopbackStreams.cfg: one call *)
(* with a stream parameter and a reply stream, a handler, a settlement     *)
(* that fails and a task that waits on the streams of either side.         *)
(* MCLoopbackRelease.cfg: one command and two handlers under fair handles, *)
(* for what must eventually happen.                                        *)
(***************************************************************************)
EXTENDS LoopbackStreams

==============================================================================
