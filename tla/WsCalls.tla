------------------------------ MODULE WsCalls -------------------------------
(***************************************************************************)
(* The calls of one connection, both ends: the TypeScript client's call    *)
(* table (calls.ts, duplex.ts) and the server session (WsServer) over the  *)
(* two directions of a websocket, each first in first out.  The connection *)
(* may be lost at any moment, with whatever is under way in it.            *)
(*                                                                         *)
(* The user of the client writes, closes, aborts, reads and cancels when   *)
(* it likes or never.  A timer of the client is set or not; a set one may  *)
(* fire at any moment.  Both ends are built from one catalog, so the two   *)
(* payload limits agree; the client checks its own before it sends.        *)
(***************************************************************************)
EXTENDS WsServer

CONSTANTS
    MaxCalls,    \* bound on the calls of a run
    MaxWrites,   \* bound on the chunks written to one upload
    MaxReads     \* bound on the chunks read from one reply stream

\* The client opens one upload for a call (UPLOAD_STREAM), never several.
ASSUME WsCallsAssumption ==
    /\ \A m \in Members : Shape[m].params <= 1
    /\ {MaxCalls, MaxWrites, MaxReads} \subseteq Nat

VARIABLES
    mine,        \* the client's calls by seq, the settled ones kept as a history
    toServer,    \* frames under way to the server
    toClient,    \* frames under way to the client
    link,        \* "open", or "lost"
    attached,    \* the client's session has not ended
    violated     \* the client closed the session for a frame it did not expect

clientVars == <<mine, toServer, toClient, link, attached, violated>>
callsVars == <<serverVars, clientVars>>

-----------------------------------------------------------------------------
(* The client's call table. *)

Uploads(m) == Shape[m].params > 0
IsQuery(m) == Shape[m].kind = "query"

\* The timer runs from the request, or from the upload's close for a query
\* with an upload and a plain reply.
ClientCall(m) ==
    [member |-> m, live |-> TRUE, result |-> "pending",
     timer |-> ~(Uploads(m) /\ IsQuery(m) /\ ~Streamed(m)),
     settled |-> FALSE, open |-> Uploads(m), closed |-> FALSE,
     granted |-> InitialCredit, sent |-> 0,
     replyGranted |-> InitialCredit, received |-> 0, buffered |-> 0, read |-> 0]

Live == {s \in DOMAIN mine : mine[s].live}

\* The call leaves the table; what was written and received stays known.
Forgotten(c, result) ==
    [c EXCEPT !.live = FALSE, !.timer = FALSE, !.open = FALSE, !.settled = FALSE,
              !.granted = 0, !.replyGranted = 0, !.buffered = 0, !.read = 0,
              !.result = IF @ = "pending" THEN result ELSE @]

ChunkIn(s, n)     == [form |-> "chunk", seq |-> s, member |-> mine[s].member,
                      stream |-> 1, n |-> n, big |-> FALSE]
EndIn(s, k, n, o) == [form |-> "end", seq |-> s, member |-> mine[s].member,
                      stream |-> k, n |-> n, outcome |-> o]
CreditIn(s, c)    == [form |-> "credit", seq |-> s, member |-> mine[s].member,
                      stream |-> 0, credit |-> c]
Stop(s)           == EndIn(s, 0, 1, "interrupted")

\* The client's step on call s: the new record, and what it sends.
Update(s, c, fs) ==
    /\ attached
    /\ mine' = [mine EXCEPT ![s] = c]
    /\ toServer' = toServer \o fs
    /\ UNCHANGED <<serverVars, toClient, link, attached, violated>>

-----------------------------------------------------------------------------
(* What the user of the client does. *)

\* command, query, stream, commandUpload, queryUpload and duplex.
Start(m) ==
    LET s == Cardinality(DOMAIN mine) + 1
    IN  /\ attached
        /\ s <= MaxCalls
        /\ mine' = [x \in 1..s |-> IF x = s THEN ClientCall(m) ELSE mine[x]]
        /\ toServer' = Append(toServer,
                              [form |-> "request", seq |-> s, member |-> m, big |-> FALSE])
        /\ UNCHANGED <<serverVars, toClient, link, attached, violated>>

\* Mutant: a write in the way of the last granted chunk is let through.
WriteOneAhead(s) ==
    /\ mine[s].open
    /\ mine[s].sent <= mine[s].granted
    /\ mine[s].sent < MaxWrites
    /\ Update(s, [mine[s] EXCEPT !.sent = @ + 1], <<ChunkIn(s, mine[s].sent + 1)>>)

\* A write waits until a chunk is granted.
Write(s) ==
    /\ mine[s].open
    /\ mine[s].sent < mine[s].granted
    /\ mine[s].sent < MaxWrites
    /\ Update(s, [mine[s] EXCEPT !.sent = @ + 1], <<ChunkIn(s, mine[s].sent + 1)>>)

\* A payload over the limit interrupts the upload and fails the call.
WriteTooLong(s) ==
    /\ mine[s].open
    /\ Update(s, Forgotten(mine[s], "failed"),
              <<EndIn(s, 1, mine[s].sent + 1, "interrupted")>>
              \o IF Streamed(mine[s].member) THEN <<Stop(s)>> ELSE <<>>)

CloseUpload(s) ==
    LET c == [mine[s] EXCEPT !.open = FALSE, !.closed = TRUE]
        m == mine[s].member
    IN  /\ mine[s].open
        /\ Update(s, IF Streamed(m) THEN c
                     ELSE IF IsQuery(m) THEN [c EXCEPT !.timer = TRUE]
                     ELSE IF c.settled THEN Forgotten(c, "ok") ELSE c,
                  <<EndIn(s, 1, mine[s].sent + 1, "end")>>)

AbortUpload(s) ==
    LET c == [mine[s] EXCEPT !.open = FALSE]
        m == mine[s].member
        end == EndIn(s, 1, mine[s].sent + 1, "interrupted")
    IN  /\ mine[s].open
        /\ IF Streamed(m) THEN Update(s, Forgotten(c, "failed"), <<end, Stop(s)>>)
           ELSE Update(s, IF IsQuery(m) \/ c.settled THEN Forgotten(c, "failed") ELSE c, <<end>>)

Read(s) ==
    /\ mine[s].buffered > 0
    /\ mine[s].read < MaxReads
    /\ Update(s, [mine[s] EXCEPT !.buffered = @ - 1, !.read = @ + 1], <<>>)

Cancel(s) ==
    /\ Streamed(mine[s].member)
    /\ Update(s, Forgotten(mine[s], "failed"), <<Stop(s)>>)

-----------------------------------------------------------------------------
(* What the client does by itself. *)

\* The reader's pull grants the room that is neither filled nor granted.
Pull(s) ==
    LET c == mine[s]
        room == (InitialCredit - c.buffered) - (c.replyGranted - c.received)
    IN  /\ Streamed(c.member)
        /\ room > 0
        /\ Update(s, [c EXCEPT !.replyGranted = @ + room], <<CreditIn(s, room)>>)

\* A call with a reply stream is stopped when its bound passes; the others
\* are let go without a word to the server.
Timeout(s) ==
    /\ mine[s].timer
    /\ Update(s, Forgotten(mine[s], "failed"),
              IF Streamed(mine[s].member) THEN <<Stop(s)>> ELSE <<>>)

-----------------------------------------------------------------------------
(* Frames of the server: Calls.settle, Calls.onStream, DuplexCall.onStream. *)

\* What a frame makes of the call: its record, what is sent, and whether the
\* frame is one the call cannot receive.
Step(c, fs) == [call |-> c, send |-> fs, unexpected |-> FALSE]
Unexpected(c) == [call |-> c, send |-> <<>>, unexpected |-> TRUE]

OnResponse(c, f) ==
    LET done == Step(Forgotten(c, IF f.outcome = "ok" THEN "ok" ELSE "failed"), <<>>)
    IN  IF Streamed(c.member)
        THEN IF f.outcome = "ok" \/ c.received > 0 THEN Unexpected(c) ELSE done
        ELSE IF f.outcome = "ok" /\ c.open /\ ~IsQuery(c.member)
        THEN Step([c EXCEPT !.timer = FALSE, !.settled = TRUE, !.result = "ok"], <<>>)
        ELSE done

\* Mutant: a grant replaces what was granted before.
GrantReplaces(c, f) ==
    CASE f.form = "credit" -> Step([c EXCEPT !.granted = f.credit], <<>>)
      [] f.form = "end"    -> Step(Forgotten(c, "failed"), <<>>)
      [] OTHER             -> Unexpected(c)

OnUploadFrame(c, f) ==
    CASE f.form = "credit" -> Step([c EXCEPT !.granted = @ + f.credit], <<>>)
      [] f.form = "end"    -> Step(Forgotten(c, "failed"), <<>>)
      [] OTHER             -> Unexpected(c)

OnReplyFrame(c, f) ==
    LET failed == Forgotten(c, "failed")
    IN  CASE f.form = "credit" -> Unexpected(c)
          [] f.form # "credit" /\ f.n # c.received + 1 ->
               Step(failed, IF f.form = "chunk" THEN <<Stop(f.seq)>> ELSE <<>>)
          [] f.form = "end" /\ f.n = c.received + 1 ->
               Step(IF f.outcome = "end" THEN Forgotten(c, "ok") ELSE failed, <<>>)
          [] OTHER ->
               IF c.received = c.replyGranted THEN Unexpected(c)
               ELSE Step([c EXCEPT !.received = @ + 1, !.buffered = @ + 1, !.timer = FALSE], <<>>)

OnFrame(c, f) ==
    CASE f.form = "response" -> OnResponse(c, f)
      [] f.form # "response" /\ f.stream = 1 /\ Uploads(c.member)  -> OnUploadFrame(c, f)
      [] f.form # "response" /\ f.stream = 0 /\ Streamed(c.member) -> OnReplyFrame(c, f)
      [] OTHER -> Unexpected(c)

\* Mutant: the end of the session fails only the calls with a timer set.
DownTimed(calls_) == [s \in DOMAIN calls_ |->
                         IF calls_[s].timer THEN Forgotten(calls_[s], "failed") ELSE calls_[s]]

\* Calls.fail: the session's end rejects every call in flight.
Down(calls_) == [s \in DOMAIN calls_ |->
                    IF calls_[s].live THEN Forgotten(calls_[s], "failed") ELSE calls_[s]]

ClientReceive ==
    /\ attached
    /\ toClient # <<>>
    /\ LET f == Head(toClient)
           r == OnFrame(mine[f.seq], f)
       IN  \/ /\ f.seq \notin Live            \* reported and dropped
              /\ toClient' = Tail(toClient)
              /\ UNCHANGED <<mine, toServer, attached, violated>>
           \/ /\ f.seq \in Live /\ ~r.unexpected
              /\ toClient' = Tail(toClient)
              /\ mine' = [mine EXCEPT ![f.seq] = r.call]
              /\ toServer' = toServer \o r.send
              /\ UNCHANGED <<attached, violated>>
           \/ /\ f.seq \in Live /\ r.unexpected
              /\ violated' = TRUE
              /\ attached' = FALSE
              /\ mine' = Down(mine)
              /\ toClient' = <<>>
              /\ UNCHANGED toServer
    /\ UNCHANGED <<serverVars, link>>

-----------------------------------------------------------------------------
(* The connection. *)

ServerSends == toClient' = (IF attached THEN toClient \o out' ELSE <<>>)

ServerReceive ==
    /\ toServer # <<>>
    /\ OnMessage(Head(toServer))
    /\ toServer' = Tail(toServer)
    /\ ServerSends
    /\ UNCHANGED <<mine, link, attached, violated>>

TickCalls ==
    /\ StartTick \/ PollCall
    /\ ServerSends
    /\ UNCHANGED <<mine, toServer, link, attached, violated>>

Age == Tock /\ UNCHANGED clientVars
BackendClock == Clock /\ UNCHANGED clientVars

\* The connection breaks: each end may still take some of what has reached it.
Lose ==
    /\ link = "open"
    /\ link' = "lost"
    /\ UNCHANGED <<serverVars, mine, toServer, toClient, attached, violated>>

\* Session.close by the user: the calls end now, what was sent still arrives.
CloseSession ==
    /\ attached
    /\ attached' = FALSE
    /\ mine' = Down(mine)
    /\ toClient' = <<>>
    /\ UNCHANGED <<serverVars, toServer, link, violated>>

\* The socket's end, after what had arrived.
ClientEnds ==
    /\ attached
    /\ link = "lost" \/ (closed # 0 /\ toClient = <<>>)
    /\ attached' = FALSE
    /\ mine' = Down(mine)
    /\ toClient' = <<>>
    /\ UNCHANGED <<serverVars, toServer, link, violated>>

\* Session::close, on the end of the connection.
ServerEnds ==
    /\ closed = 0
    /\ todo = {}
    /\ link = "lost" \/ (~attached /\ toServer = <<>>)
    /\ Close(1001, <<>>)
    /\ toServer' = <<>>
    /\ UNCHANGED <<highest, kept, ring, mine, toClient, link, attached, violated>>

CallsInit ==
    /\ ServerInit
    /\ mine = <<>>
    /\ toServer = <<>>
    /\ toClient = <<>>
    /\ link = "open"
    /\ attached = TRUE
    /\ violated = FALSE

User ==
    \/ \E m \in Members : Start(m)
    \/ \E s \in Live : \/ Write(s) \/ WriteTooLong(s) \/ CloseUpload(s) \/ AbortUpload(s)
                       \/ Read(s) \/ Cancel(s)

CallsNext ==
    \/ User
    \/ \E s \in Live : Pull(s) \/ Timeout(s)
    \/ ClientReceive \/ ServerReceive \/ TickCalls \/ Age \/ BackendClock
    \/ Lose \/ CloseSession \/ ClientEnds \/ ServerEnds

\* Both event loops run, time passes and a set timer fires; nothing is asked
\* of the user, of the provider or of the network.
CallsFairness ==
    /\ WF_callsVars(ClientReceive) /\ WF_callsVars(ServerReceive)
    /\ WF_callsVars(TickCalls) /\ SF_callsVars(Age)
    /\ WF_callsVars(\E s \in Live : Timeout(s)) /\ WF_callsVars(\E s \in Live : Pull(s))
    /\ WF_callsVars(ClientEnds) /\ WF_callsVars(ServerEnds)

CallsSpec == CallsInit /\ [][CallsNext]_callsVars /\ CallsFairness

-----------------------------------------------------------------------------
(* What is under way on a channel about stream k of call s: a number of    *)
(* chunks, or an amount of credit.                                         *)
Amount(f, s, k, form) ==
    IF f.form = form /\ f.seq = s /\ f.stream = k
    THEN IF form = "credit" THEN f.credit ELSE 1
    ELSE 0
Total(ns) == LET sum[i \in 0..Len(ns)] == IF i = 0 THEN 0 ELSE sum[i - 1] + ns[i]
             IN  sum[Len(ns)]
Under(chan, s, k, form) == Total([i \in DOMAIN chan |-> Amount(chan[i], s, k, form)])

(***************************************************************************)
(* Whatever the user, the provider, the timers and the two event loops do, *)
(* neither end ever sends what the other closes the session for: no chunk  *)
(* beyond the credit, no frame of a form the call does not take, although  *)
(* each end forgets calls on its own while frames about them are under way. *)
(***************************************************************************)
NoViolation == closed # 1002 /\ ~violated

(***************************************************************************)
(* Credit is neither lost nor made: for a stream open at both ends, what   *)
(* the sender may still send is what the receiver has granted less what is *)
(* queued and what is under way, in both directions.                       *)
(***************************************************************************)
CreditConserved ==
    link = "open" /\ attached /\ closed = 0 =>
      \A s \in Live \cap DOMAIN calls :
        LET c == mine[s]
        IN  /\ c.open /\ calls[s].uploads[1].state = "open" =>
                 calls[s].uploads[1].credit =
                   (c.granted - c.sent) + Under(toServer, s, 1, "chunk")
                                        + Under(toClient, s, 1, "credit")
            /\ Streamed(c.member) =>
                 c.replyGranted - c.received =
                   calls[s].reply.credit + Under(toClient, s, 0, "chunk")
                                         + Under(toServer, s, 0, "credit")

(***************************************************************************)
(* A stream that ends well is whole.  The provider is given the end of an  *)
(* upload only after every chunk the client wrote before it closed the     *)
(* upload, and never for one it aborted; and the server's buffer holds no  *)
(* more than the initial credit.                                           *)
(***************************************************************************)
UploadsWhole ==
    \A s \in DOMAIN calls : \A k \in DOMAIN calls[s].uploads :
      LET u == calls[s].uploads[k]
      IN  /\ u.state = "ended" => /\ mine[s].closed
                                  /\ u.queued = 0
                                  /\ u.seqIn = mine[s].sent + 1
          /\ u.queued <= InitialCredit

\* Every call of the client ends: it is answered, times out, is abandoned by
\* the server, or goes down with the connection; no user, provider or network
\* has to cooperate.
EveryCallSettles ==
    \A s \in 1..MaxCalls :
       (s \in DOMAIN mine /\ mine[s].live) ~> (s \in DOMAIN mine /\ ~mine[s].live)
=============================================================================
