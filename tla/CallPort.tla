------------------------------ MODULE CallPort ------------------------------
(***************************************************************************)
(* What ridl_rt::port::Caller promises of every call, whatever runtime is  *)
(* behind the port: a call is sent once, is answered at most once, keeps   *)
(* its answer until its caller lets go of it, and is gone for good         *)
(* afterwards.  It never disappears unanswered.                            *)
(*                                                                         *)
(* CallTable.tla and LoopbackCalls.tla are shown to implement this.        *)
(***************************************************************************)
CONSTANTS
    Calls,    \* the correlations
    Answers,  \* the outcomes a call is answered with
    NoAnswer

VARIABLE view  \* what the caller of each correlation sees

Unsent    == [state |-> "Unsent", answer |-> NoAnswer]
Pending   == [state |-> "Pending", answer |-> NoAnswer]
Forgotten == [state |-> "Forgotten", answer |-> NoAnswer]
Answered(a) == [state |-> "Answered", answer |-> a]

Same(c) == view'[c] = view[c]

Init == view = [c \in Calls |-> Unsent]

\* Caller::command and Caller::query send one call.
Send ==
    \E c \in Calls :
        view[c] = Unsent /\ view'[c] = Pending /\ \A d \in Calls \ {c} : Same(d)

\* A settlement answers one call; the drop of a provider may answer several.
Answer ==
    \E a \in Answers :
        \A c \in Calls : Same(c) \/ (view[c] = Pending /\ view'[c] = Answered(a))

\* Caller::forget lets go of one call, the drop of a caller of all it sent.
Forget ==
    \A c \in Calls :
        Same(c) \/ (view[c].state \in {"Pending", "Answered"} /\ view'[c] = Forgotten)

Next == DOMAIN view' = Calls /\ (Send \/ Answer \/ Forget)

Spec == Init /\ [][Next]_view
=============================================================================
