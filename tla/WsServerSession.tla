-------------------------- MODULE WsServerSession ---------------------------
(***************************************************************************)
(* One server session of ridl-transport-ws against any client: a client    *)
(* that repeats requests, overruns its credit, leaves gaps in a stream,    *)
(* sends frames late, and sends what the protocol does not allow.          *)
(*                                                                         *)
(* The client is bounded by the frames it may send and by how many.  Two   *)
(* history variables record what it was told.                              *)
(***************************************************************************)
EXTENDS WsServer

CONSTANTS
    Frames,        \* the frames the client may send
    MaxMessages    \* bound on the messages of a run

\* Request numbers and credit are unsigned in the code.
ASSUME FramesAssumption ==
    \A f \in Frames : f.seq \in Nat /\ (f.form = "credit" => f.credit \in Nat)

VARIABLES
    received,   \* messages received so far
    answered,   \* the first final frame sent for each request
    over        \* the streams <<seq, stream>> the client was told are over

vars == <<serverVars, received, answered, over>>

Init ==
    /\ ServerInit
    /\ received = 0
    /\ answered = <<>>
    /\ over = {}

\* The histories, after a step that sends out'.
Finals == {f \in Range(out') : IsFinal(f)}
UploadEnds == {<<f.seq, f.stream>> : f \in {g \in Range(out') : g.form = "end" /\ g.stream # 0}}
RefusedUploads ==
    UNION {{<<f.seq, k>> : k \in DOMAIN calls[f.seq].uploads} :
           f \in {g \in Finals : /\ g.form = "response" /\ g.outcome = "refused"
                               /\ g.seq \in DOMAIN calls}}

Record ==
    /\ answered' = [s \in DOMAIN answered \cup {f.seq : f \in Finals} |->
          IF s \in DOMAIN answered THEN answered[s] ELSE CHOOSE f \in Finals : f.seq = s]
    /\ over' = over \cup UploadEnds \cup RefusedUploads

Receive(f) ==
    /\ received < MaxMessages
    /\ received' = received + 1
    /\ OnMessage(f)
    /\ Record

Tick == (StartTick \/ PollCall) /\ Record /\ UNCHANGED received
Advance == (Tock \/ Clock) /\ Record /\ UNCHANGED received

Next == (\E f \in Frames : Receive(f)) \/ Tick \/ Advance

\* The connection's loop runs its tick every tick_interval, and time passes
\* however often it runs (Tock waits for the tick under way, hence SF).
Fairness ==
    /\ WF_vars(Tick)
    /\ SF_vars(Tock /\ Record /\ UNCHANGED received)

Spec == Init /\ [][Next]_vars /\ Fairness

-----------------------------------------------------------------------------
(***************************************************************************)
(* Each request is answered once.  Whatever the client repeats and however *)
(* the provider, the abandon bound and the stops race, a step sends at     *)
(* most one final frame for a request, and a later one, for a repeat, is   *)
(* the same response again, or `interrupted` in place of a stream; no      *)
(* chunk of a reply follows its end.                                       *)
(***************************************************************************)
OneAnswer == [][
    /\ \A i, j \in DOMAIN out' :
          IsFinal(out'[i]) /\ IsFinal(out'[j]) /\ out'[i].seq = out'[j].seq => i = j
    /\ \A f \in Range(out') :
          LET again == IF answered[f.seq].form = "response" THEN answered[f.seq]
                       ELSE EndOut(f.seq, 0, 1, "interrupted")
          IN  f.seq \in DOMAIN answered /\ (IsFinal(f) \/ f.form = "chunk") => f = again]_vars

(***************************************************************************)
(* Once the client was told that a parameter stream is over, by its end or *)
(* by a refusal of the whole call, no credit and no second end follows for *)
(* it, although a call accepted before outlives its answer while another   *)
(* stream of it is open.                                                   *)
(***************************************************************************)
SilentAfterEnd == [][
    \A i \in DOMAIN out' :
       LET f == out'[i]
       IN  f.form \in {"credit", "end"} /\ f.stream # 0 =>
             /\ <<f.seq, f.stream>> \notin over
             /\ ~\E j \in 1..(i - 1) : /\ out'[j].form = "end"
                                       /\ out'[j].seq = f.seq /\ out'[j].stream = f.stream]_vars

\* The debug_assert of Calls::settle ("settled twice") cannot fire: a call
\* that still has an answer to give has none kept.
NotSettledTwice ==
    \A s \in DOMAIN calls \cap DOMAIN kept : calls[s].settled

\* At most once: a request whose number was taken before is never handed to
\* the provider again, kept response or not, and no step settles it twice.
NeverPresentedAgain == [][
    /\ \A s \in 1..highest : s \in DOMAIN calls' => s \in DOMAIN calls
    /\ NotSettledTwice']_vars

\* No call is held for ever: with a provider that never answers and a client
\* that goes silent in the middle of a stream, the abandon bound ends it.
CallsEnd == \A s \in {f.seq : f \in Frames} : s \in DOMAIN calls ~> s \notin DOMAIN calls
=============================================================================
