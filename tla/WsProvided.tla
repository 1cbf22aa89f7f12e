----------------------------- MODULE WsProvided -----------------------------
(***************************************************************************)
(* The calls of a providing connection: claims of the local Handler port   *)
(* forwarded to a remote provider (server/provided/calls.rs and its driver *)
(* server/provided.rs), and the TypeScript provider that handles them      *)
(* (provision_calls.ts), over a websocket that may be lost.                *)
(*                                                                         *)
(* The tick is a loop over the port; its turns are steps of their own,     *)
(* because the port's other side and the port itself change between them.  *)
(* A request carries the claim it was made from, and a response carries it *)
(* back: the wire has only the seq, and the payloads stand for the rest.   *)
(* The deadline of a pending call, and the age of its stamp, is a flag     *)
(* that goes up at any moment.                                             *)
(***************************************************************************)
EXTENDS Integers, FiniteSets, Sequences, SequencesExt

CONSTANTS
    Claims,     \* the claims of a run, in the order they may arrive: 1..n
    Capacity    \* Calls::capacity and CAPACITY, both 64 in the code

ASSUME WsProvidedAssumption ==
    /\ Claims = 1..Cardinality(Claims)
    /\ Capacity \in Nat \ {0}

VARIABLES
    \* the local port (external)
    attached,    \* the runtime behind the port is there
    queue,       \* claims waiting: [claim, shape]
    claimed,     \* claims presented and not settled
    settled,     \* claims whose caller has its outcome or has forgotten it
    \* the server's session
    pending,     \* Calls::pending, by seq: [claim, due]
    next,        \* Calls::next
    short,       \* Calls::short, the claim or 0
    phase,       \* "idle", "taking" during a tick, or "over"
    \* the connection
    toProvider, toSession, link,
    \* the provider
    highest,     \* #highest
    active,      \* #active, with the claim of each
    running,     \* the calls whose handler has been started
    kept,        \* #kept, the last responses, oldest first
    ended        \* #ended

portVars == <<attached, queue, claimed, settled>>
providedVars == <<pending, next, short, phase>>
providerVars == <<highest, active, running, kept, ended>>
vars == <<portVars, providedVars, toProvider, toSession, link, providerVars>>

Restricted(f, S) == [x \in DOMAIN f \cap S |-> f[x]]
Minus(f, x) == Restricted(f, DOMAIN f \ {x})
Arrived == settled \cup claimed \cup {queue[i].claim : i \in DOMAIN queue}

Init ==
    /\ attached = TRUE
    /\ queue = <<>>
    /\ claimed = {}
    /\ settled = {}
    /\ pending = <<>>
    /\ next = 0
    /\ short = 0
    /\ phase = "idle"
    /\ toProvider = <<>>
    /\ toSession = <<>>
    /\ link = "open"
    /\ highest = 0
    /\ active = <<>>
    /\ running = {}
    /\ kept = <<>>
    /\ ended = FALSE

-----------------------------------------------------------------------------
(* The local port. *)

\* A call arrives: fit to be forwarded, one the session refuses by itself
\* (not in its table, too old or too long for the wire), or one whose
\* arguments do not fit the session's buffer.
Arrive ==
    \E c \in Claims, shape \in {"good", "refused", "short"} :
       /\ attached /\ phase # "over" /\ c = Cardinality(Arrived) + 1
       /\ queue' = Append(queue, [claim |-> c, shape |-> shape])
       /\ UNCHANGED <<attached, claimed, settled, providedVars, toProvider, toSession, link, providerVars>>

\* The caller forgets its call: a later settle answers UnknownClaim.
Withdraw ==
    \E c \in claimed :
       /\ claimed' = claimed \ {c}
       /\ settled' = settled \cup {c}
       /\ UNCHANGED <<attached, queue, providedVars, toProvider, toSession, link, providerVars>>

\* The runtime behind the port goes, and its calls with it.
Detach ==
    /\ attached
    /\ attached' = FALSE
    /\ claimed' = {}
    /\ queue' = <<>>
    /\ UNCHANGED <<settled, providedVars, toProvider, toSession, link, providerVars>>

\* Handler::settle of each of `these` claims: the ones still open are settled.
PortSettles(these) ==
    /\ settled' = settled \cup (these \cap claimed)
    /\ claimed' = claimed \ these

\* Calls::settle: the call stays pending only while the port is gone.
Settled(p, seqs) == IF attached THEN Restricted(p, DOMAIN p \ seqs) ELSE p

-----------------------------------------------------------------------------
(* The server's session. *)

ClaimsOf(seqs) == {pending[s].claim : s \in seqs}

\* Mutant: nothing expires; a response is waited for.
NeverDue == {}

\* The calls Calls::expire settles, as undelivered or with a timeout.
Due == {s \in DOMAIN pending : pending[s].due}

\* A deadline passes.
Pass ==
    \E s \in DOMAIN pending \ Due :
       /\ pending' = [pending EXCEPT ![s].due = TRUE]
       /\ UNCHANGED <<portVars, next, short, phase, toProvider, toSession, link, providerVars>>

\* Calls::tick, first Calls::expire.
StartTick ==
    /\ phase = "idle"
    /\ Due # {} \/ queue # <<>> \/ ~attached
    /\ PortSettles(ClaimsOf(Due))
    /\ pending' = Settled(pending, Due)
    /\ phase' = "taking"
    /\ UNCHANGED <<attached, queue, next, short, toProvider, toSession, link, providerVars>>

\* Mutant: a seq follows the highest one pending.
SeqAfterPending ==
    IF pending = <<>> THEN 1 ELSE 1 + CHOOSE s \in DOMAIN pending : \A t \in DOMAIN pending : t <= s

\* The seq of the next claim; one the session refuses itself gives it back.
NextSeq == next + 1

\* Calls::tick, one turn of its loop; nothing waiting, or no room, ends it.
TakeGood ==
    /\ phase = "taking" /\ attached /\ Cardinality(DOMAIN pending) < Capacity
    /\ queue # <<>> /\ Head(queue).shape = "good"
    /\ LET c == Head(queue).claim
           s == NextSeq
       IN  /\ pending' = [x \in DOMAIN pending \cup {s} |->
                             IF x = s THEN [claim |-> c, due |-> FALSE] ELSE pending[x]]
           /\ claimed' = claimed \cup {c}
           /\ next' = s
           /\ toProvider' = Append(toProvider, [seq |-> s, claim |-> c])
    /\ queue' = Tail(queue)
    /\ UNCHANGED <<attached, settled, short, phase, toSession, link, providerVars>>

\* A refusal is settled at once; when the port goes away under it the call
\* stays pending under its seq and the loop stops.
TakeRefused ==
    /\ phase = "taking" /\ attached /\ Cardinality(DOMAIN pending) < Capacity
    /\ queue # <<>> /\ Head(queue).shape = "refused"
    /\ LET c == Head(queue).claim
           s == NextSeq
       IN  \/ /\ settled' = settled \cup {c}
              /\ queue' = Tail(queue)
              /\ UNCHANGED <<attached, claimed, pending, next, phase>>
           \/ /\ attached' = FALSE
              /\ queue' = <<>>
              /\ claimed' = {}
              /\ pending' = [x \in DOMAIN pending \cup {s} |->
                                IF x = s THEN [claim |-> c, due |-> FALSE] ELSE pending[x]]
              /\ next' = s
              /\ phase' = "idle"
              /\ UNCHANGED settled
    /\ UNCHANGED <<short, toProvider, toSession, link, providerVars>>

\* A claim too long for the buffer stays the port's next until it is settled.
TakeShort ==
    /\ phase = "taking" /\ attached /\ Cardinality(DOMAIN pending) < Capacity
    /\ queue # <<>> /\ Head(queue).shape = "short"
    /\ LET c == Head(queue).claim
       IN  \/ /\ settled' = settled \cup {c}
              /\ queue' = Tail(queue)
              /\ short' = 0
              /\ UNCHANGED <<attached, claimed, phase>>
           \/ /\ attached' = FALSE
              /\ queue' = <<>>
              /\ claimed' = {}
              /\ short' = c
              /\ phase' = "idle"
              /\ UNCHANGED settled
    /\ UNCHANGED <<pending, next, toProvider, toSession, link, providerVars>>

\* Calls::down, when the session is dropped: every claim it holds is settled.
Over ==
    /\ PortSettles(ClaimsOf(DOMAIN pending) \cup ({short} \ {0}))
    /\ pending' = <<>>
    /\ short' = 0
    /\ phase' = "over"
    /\ toSession' = <<>>
    /\ UNCHANGED <<attached, queue, next, toProvider, link, providerVars>>

\* The loop ends for want of a claim or of room; a detached port, met before
\* either, closes the connection (1001).
EndTick ==
    /\ phase = "taking"
    /\ LET full == Cardinality(DOMAIN pending) >= Capacity
       IN  \/ /\ full \/ (attached /\ queue = <<>>)
              /\ phase' = "idle"
              /\ UNCHANGED <<portVars, pending, next, short, toProvider, toSession, link, providerVars>>
           \/ /\ ~full /\ ~attached
              /\ Over

\* Calls::response, after Calls::expire.
OnResponse ==
    /\ phase = "idle"
    /\ toSession # <<>>
    /\ LET over == Due \cup ({Head(toSession).seq} \cap DOMAIN pending)
       IN  /\ PortSettles(ClaimsOf(over))
           /\ pending' = Settled(pending, over)
    /\ toSession' = Tail(toSession)
    /\ UNCHANGED <<attached, queue, next, short, phase, toProvider, link, providerVars>>

ServerEnds ==
    /\ phase = "idle"
    /\ link = "lost" \/ (ended /\ toSession = <<>>)
    /\ Over

-----------------------------------------------------------------------------
(* The provider. *)

\* What is sent reaches the server's queue while its session lives.
SendToServer(f) == toSession' = IF phase = "over" THEN toSession ELSE Append(toSession, f)

\* settle(): the response goes out and is kept, the oldest making room.
Answered(f) ==
    /\ SendToServer(f)
    /\ kept' = LET all == Append(kept, f)
               IN  IF Len(all) > Capacity THEN Tail(all) ELSE all

\* ProvidedCalls.dispatch of a request seen before: the response, if kept.
Repeated(f) ==
    /\ toSession' = toSession \o SelectSeq(kept, LAMBDA r : r.seq = f.seq)
    /\ UNCHANGED <<highest, active, kept>>

\* Of a new one: answered at once when it is not served here, too long, or one
\* too many; lost when that answer cannot be sent; else its handler is queued.
Taken(f) ==
    \/ /\ highest' = f.seq
       /\ Answered(f)
       /\ UNCHANGED active
    \/ UNCHANGED <<highest, active, kept, toSession>>
    \/ /\ Cardinality(DOMAIN active) < Capacity
       /\ highest' = f.seq
       /\ active' = [x \in DOMAIN active \cup {f.seq} |->
                        IF x = f.seq THEN f.claim ELSE active[x]]
       /\ UNCHANGED <<kept, toSession>>

\* Whether a request is one the provider has seen: by the highest seq only.
IsRepeat(f) == f.seq <= highest

Dispatch ==
    /\ ~ended
    /\ toProvider # <<>>
    /\ LET f == Head(toProvider)
       IN  IF IsRepeat(f) THEN Repeated(f) ELSE Taken(f)
    /\ toProvider' = Tail(toProvider)
    /\ UNCHANGED <<portVars, providedVars, link, running, ended>>

\* The handler starts in a task of its own, unless the session ended before.
RunHandler ==
    \E s \in DOMAIN active \ running :
       /\ ~ended
       /\ running' = running \cup {s}
       /\ UNCHANGED <<portVars, providedVars, toProvider, toSession, link, highest, active, kept, ended>>

\* It settles; a result that does not fit the call, or none, is dropped and
\* the request is left to the server's deadline.
HandlerReturns ==
    \E s \in running, answers \in BOOLEAN :
       /\ ~ended
       /\ running' = running \ {s}
       /\ active' = Minus(active, s)
       /\ IF answers THEN Answered([seq |-> s, claim |-> active[s]])
          ELSE UNCHANGED <<kept, toSession>>
       /\ UNCHANGED <<portVars, providedVars, toProvider, link, highest, ended>>

\* Provision.close or the end of the connection.
ProviderEnds ==
    /\ ~ended
    /\ ended' = TRUE
    /\ active' = <<>>
    /\ running' = {}
    /\ kept' = <<>>
    /\ toProvider' = <<>>
    /\ UNCHANGED <<portVars, providedVars, toSession, link, highest>>

Lose ==
    /\ link = "open"
    /\ link' = "lost"
    /\ UNCHANGED <<portVars, providedVars, toProvider, toSession, providerVars>>

-----------------------------------------------------------------------------
Tick == StartTick \/ TakeGood \/ TakeRefused \/ TakeShort \/ EndTick

Next ==
    \/ Arrive \/ Withdraw \/ Detach
    \/ Pass \/ Tick \/ OnResponse \/ ServerEnds
    \/ Dispatch \/ RunHandler \/ HandlerReturns \/ ProviderEnds
    \/ Lose

\* The server's loop runs its tick and every deadline passes.  Nothing is
\* asked of the provider, of its handlers or of the network.
Fairness == WF_vars(Tick) /\ WF_vars(Pass) /\ WF_vars(ServerEnds) /\ WF_vars(OnResponse)

Spec == Init /\ [][Next]_vars /\ Fairness

-----------------------------------------------------------------------------
(***************************************************************************)
(* A response settles the claim its request was made from: a late one, of  *)
(* a call that expired or was refused meanwhile, never meets another claim *)
(* under its seq, although a seq the session did not send is given out     *)
(* again.                                                                  *)
(***************************************************************************)
RightClaim ==
    \A f \in Range(toSession) : f.seq \in DOMAIN pending => pending[f.seq].claim = f.claim

\* No request is taken for a repeat: the provider tells a new one by the
\* highest seq alone, and the session gives a seq of a claim it refused out
\* again, skips one it could not settle, and never repeats a request.
RequestsAreNew ==
    \A i \in DOMAIN toProvider :
       /\ ~IsRepeat(toProvider[i])
       /\ \A j \in 1..(i - 1) : toProvider[j].seq < toProvider[i].seq

(***************************************************************************)
(* Every claim the session has taken is pending under exactly one seq until *)
(* it is settled, and none is left when the session is over.               *)
(***************************************************************************)
NoClaimLost ==
    /\ claimed \subseteq ClaimsOf(DOMAIN pending)
    /\ \A s, t \in DOMAIN pending : pending[s].claim = pending[t].claim => s = t

\* A claim and a seq name each other as long as either end may use them: the
\* response under way, the call pending and the claim open at the port; and
\* the provider takes every request for the new one it is.
ClaimsMatch == RightClaim /\ NoClaimLost /\ RequestsAreNew

\* Every claim taken is settled, whatever the provider and the connection do.
ClaimsSettle == \A c \in Claims : c \in claimed ~> c \notin claimed
=============================================================================
