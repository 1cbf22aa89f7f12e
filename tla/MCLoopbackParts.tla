--------------------------- MODULE MCLoopbackParts ---------------------------
(***************************************************************************)
(* Three parts of the loopback that share no state with one another: the   *)
(* attachments of a node, and the signals and the events of its store.  A  *)
(* run follows one of them, chosen at the start, while the others rest.    *)
(* Events: one sink, two sources, two events, two tasks that wait in turn. *)
(***************************************************************************)
EXTENDS MCLoopbackNode, MCLoopbackSignals, LoopbackEvents

VARIABLE part

PartsInit ==
    /\ part \in {"node", "signals", "events"}
    /\ Init /\ SignalsInit /\ EventsInit

NodeStep == part = "node" /\ Next /\ UNCHANGED <<signalVars, eventVars>>

\* Signals and events may stop: their histories are bounded.
SignalsStep ==
    /\ part = "signals" /\ UNCHANGED <<vars, eventVars>>
    /\ SignalsNext \/ UNCHANGED signalVars

EventsStep ==
    /\ part = "events" /\ UNCHANGED <<vars, signalVars>>
    /\ EventsNext \/ UNCHANGED eventVars

PartsSpec ==
    PartsInit /\ [][(NodeStep \/ SignalsStep \/ EventsStep) /\ UNCHANGED part]_<<part, vars, signalVars, eventVars>>
==============================================================================
