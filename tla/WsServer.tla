------------------------------ MODULE WsServer ------------------------------
(***************************************************************************)
(* The calls and streams of one server session of ridl-transport-ws:       *)
(* server/session.rs, with its correlation map and kept responses          *)
(* (server/calls.rs) and its parameter streams (server/upload.rs).         *)
(*                                                                         *)
(* A handler of the session is one action.  The tick is a scan over the    *)
(* calls in flight when it starts (`todo`), one PollCall step per call;    *)
(* no message is handled before it is over, as in the connection's loop,   *)
(* but the provider behind the ports moves between two steps of it.        *)
(* What a port answers (send, ack, reply, push, end, pull) is external: any *)
(* answer its contract admits.  The frames a step sends are `out`.         *)
(*                                                                         *)
(* A payload is only "within the member's limit" or `big`; chunks are      *)
(* counted, because each stream numbers them; the refusals `contract`,     *)
(* `corrupt` and `busy` are one outcome.  Instants are ages that saturate  *)
(* at the bound they are compared with.                                    *)
(***************************************************************************)
EXTENDS Integers, FiniteSets, Sequences, SequencesExt

CONSTANTS
    Members,         \* the commands and queries of the member table
    Foreign,         \* targets the table does not hold
    Shape,           \* what the table says of each member, see below
    CarriesStreams,  \* frame version 3 over ports with streams
    InitialCredit,   \* INITIAL_CREDIT, 4 in the code
    ChunksPerTick,   \* CHUNKS_PER_TICK, 64 in the code
    AbandonAfter,    \* call_abandon_after
    Bound,           \* the `max` of a bounded member
    Lags,            \* how old a request's stamp may be when it is received
    Retained,        \* RETAINED, 64 in the code
    MaxRetained      \* max_retained_bytes, a kept response counting one

ASSUME WsServerAssumption ==
    /\ Members \cap Foreign = {}
    /\ Shape \in [Members -> [kind : {"command", "query"}, reply : BOOLEAN,
                              params : Nat, bounded : BOOLEAN]]
    /\ \A m \in Members : Shape[m].reply => Shape[m].kind = "query"
    /\ CarriesStreams \in BOOLEAN
    /\ {InitialCredit, ChunksPerTick, AbandonAfter, Retained, MaxRetained} \subseteq Nat \ {0}
    /\ Bound \in Nat
    /\ Lags \subseteq Nat

VARIABLES
    highest,   \* Calls::highest, the highest request seq taken as new
    calls,     \* Calls::in_flight, by the request's seq
    kept,      \* Calls::settled, the responses kept, by the request's seq
    ring,      \* Calls::ring, the kept responses with no bound, oldest first
    closed,    \* the close code of the session, 0 while it is open
    todo,      \* the calls the tick under way has still to poll
    out        \* the frames the last step sent

serverVars == <<highest, calls, kept, ring, closed, todo, out>>

-----------------------------------------------------------------------------
(* Frames the server sends. *)
Response(s, o)     == [form |-> "response", seq |-> s, outcome |-> o]
ChunkOut(s, n)     == [form |-> "chunk", seq |-> s, stream |-> 0, n |-> n]
EndOut(s, k, n, o) == [form |-> "end", seq |-> s, stream |-> k, n |-> n, outcome |-> o]
CreditOut(s, k, c) == [form |-> "credit", seq |-> s, stream |-> k, credit |-> c]

\* The end or response that answers the whole call, not one of its uploads.
IsFinal(f) == f.form = "response" \/ (f.form = "end" /\ f.stream = 0)

Without(f, S) == [x \in DOMAIN f \ S |-> f[x]]
Older(age, max) == IF age < max THEN age + 1 ELSE max

NewUpload == [state |-> "open", seqIn |-> 0, credit |-> InitialCredit,
              queued |-> 0, ended |-> FALSE, idle |-> 0]

NewReply == [seqOut |-> 0, credit |-> InitialCredit, held |-> FALSE, idle |-> 0]

NewCall(m, lag) ==
    [member  |-> m, settled |-> FALSE, age |-> 0,
     since   |-> IF Shape[m].bounded THEN lag ELSE 0,
     uploads |-> [k \in 1..Shape[m].params |-> NewUpload],
     reply   |-> NewReply]

Streamed(m) == m \in Members /\ Shape[m].reply
NeedsStreams(m) == Shape[m].reply \/ Shape[m].params > 0
OpenUploads(call) == {k \in DOMAIN call.uploads : call.uploads[k].state = "open"}

ServerInit ==
    /\ highest = 0
    /\ calls = <<>>
    /\ kept = <<>>
    /\ ring = <<>>
    /\ closed = 0
    /\ todo = {}
    /\ out = <<>>

-----------------------------------------------------------------------------
(* The kept responses. *)

\* Calls::expire: what the bound has passed is let go.
Expire == Without(kept, {s \in DOMAIN kept : kept[s].bounded /\ kept[s].left < 0})

\* Calls::settle with Session::retention: a response is kept until the bound
\* of its member has passed since the earlier of stamp and receipt, or as one
\* of the last Retained.
Settle(k, s, m, since, f) ==
    LET bounded == m \in Members /\ Shape[m].bounded
        entry == [frame |-> f, bounded |-> bounded,
                  left |-> IF bounded /\ since <= Bound THEN Bound - since ELSE -1]
        ring1 == IF bounded THEN ring ELSE Append(ring, s)
        over == Len(ring1) > Retained
        all == [x \in DOMAIN k \cup {s} |-> IF x = s THEN entry ELSE k[x]]
    IN  [kept |-> IF over THEN Without(all, {Head(ring1)}) ELSE all,
         ring |-> IF over THEN Tail(ring1) ELSE ring1]

\* The session ends: Session::close forgets every call in flight.
Close(code, fs) ==
    /\ closed' = code
    /\ calls' = <<>>
    /\ todo' = {}
    /\ out' = fs

Continue(cs, fs) ==
    /\ calls' = cs
    /\ out' = fs
    /\ UNCHANGED closed

\* The frames fs are sent and f is kept for a repeat of the request; with too
\* much kept the session closes with 1008, after the frames.
ConcludeWith(k, s, m, since, f, cs, fs) ==
    LET after == Settle(k, s, m, since, f)
    IN  /\ kept' = after.kept
        /\ ring' = after.ring
        /\ IF Cardinality(DOMAIN after.kept) > MaxRetained
           THEN Close(1008, fs)
           ELSE Continue(cs, fs)

\* Session::respond keeps the response it sends.
Respond(k, s, m, since, outcome, cs, before, after) ==
    ConcludeWith(k, s, m, since, Response(s, outcome), cs,
                 before \o <<Response(s, outcome)>> \o after)

\* Mutant: the end that was sent is kept, and not `interrupted`.
KeepPlainEnd(k, s, m, since, cs, fs) ==
    ConcludeWith(k, s, m, since, EndOut(s, 0, 1, "end"), cs, fs)

\* Session::keep_stream_end keeps an interrupted end in place of the stream.
KeepStreamEnd(k, s, m, since, cs, fs) ==
    ConcludeWith(k, s, m, since, EndOut(s, 0, 1, "interrupted"), cs, fs)

-----------------------------------------------------------------------------
(* Parameter streams. *)

\* Mutant: the end of an upload overtakes the chunks the ports had no room for.
DrainEndFirst(u) ==
    IF u.state # "open" THEN {[upload |-> u, taken |-> 0, fate |-> "none"]}
    ELSE {[upload |-> [u EXCEPT !.state = IF u.ended THEN "ended" ELSE "open",
                                !.queued = @ - t, !.credit = @ + t],
           taken |-> t, fate |-> IF u.ended THEN "ended" ELSE "none"] : t \in 0..u.queued}

\* Upload::drain: the ports take some of the queued chunks, then have no room,
\* fail, or take the end once nothing is queued before it.
DrainFates(u) ==
    {d \in (0..u.queued) \X {"none", "ended", "refused", "detached"} :
        LET all == d[1] = u.queued
        IN  CASE d[2] = "none"  -> ~(u.ended /\ all)
              [] d[2] = "ended" -> u.ended /\ all
              [] OTHER          -> u.ended \/ ~all}

AfterDrain(u, taken, fate) ==
    [u EXCEPT !.state = CASE fate = "none" -> "open"
                          [] fate = "ended" -> "ended"
                          [] OTHER -> "stopped",
              !.queued = IF fate \in {"refused", "detached"} THEN 0 ELSE @ - taken,
              !.credit = @ + taken,
              !.idle = IF taken > 0 THEN 0 ELSE @]

DrainResults(u) ==
    IF u.state # "open" THEN {[upload |-> u, taken |-> 0, fate |-> "none"]}
    ELSE {[upload |-> AfterDrain(u, d[1], d[2]), taken |-> d[1], fate |-> d[2]] : d \in DrainFates(u)}

Drains(call) ==
    LET each == UNION {DrainResults(call.uploads[k]) : k \in DOMAIN call.uploads}
    IN  {d \in [DOMAIN call.uploads -> each] :
            \A k \in DOMAIN d : d[k] \in DrainResults(call.uploads[k])}

Drained(call, d) == [call EXCEPT !.uploads = [k \in DOMAIN d |-> d[k].upload]]

\* What drain_uploads sends: credit for the chunks taken unless the client has
\* ended the stream, and the end of a stream the provider refused.
DrainFrames(s, d) ==
    FlattenSeq([k \in DOMAIN d |->
        IF \E j \in 1..(k - 1) : d[j].fate = "detached" THEN <<>>
        ELSE (IF d[k].taken > 0 /\ ~d[k].upload.ended
              THEN <<CreditOut(s, k, d[k].taken)>> ELSE <<>>)
             \o (IF d[k].fate = "refused" THEN <<EndOut(s, k, 1, "refused")>> ELSE <<>>)])

\* The ports are gone: the pass stops there and the session closes with 1001.
Gone(d) == \E k \in DOMAIN d : d[k].fate = "detached"

Stopped(u) == [u EXCEPT !.state = "stopped", !.queued = 0]

\* Mutant: the ends of the other streams are not remembered.
InterruptAll(s, call) ==
    FlattenSeq([k \in DOMAIN call.uploads |-> <<EndOut(s, k, 1, "interrupted")>>])

\* Session::interrupt_uploads.
InterruptFrames(s, call) ==
    FlattenSeq([k \in DOMAIN call.uploads |->
        IF k \in OpenUploads(call) THEN <<EndOut(s, k, 1, "interrupted")>> ELSE <<>>])

\* Session::finish_uploads: a settled call lives while an upload is open.
Finished(s, call) ==
    IF call.settled /\ OpenUploads(call) = {}
    THEN Without(calls, {s})
    ELSE [calls EXCEPT ![s] = call]

-----------------------------------------------------------------------------
(* Messages of the client. *)

\* Mutant: a seq is placed by what is recorded of it, not by the highest one.
SeenByRecord(s, k) ==
    IF s \in DOMAIN calls THEN "in flight"
    ELSE IF s \in DOMAIN k THEN "settled"
    ELSE "new"

\* Calls::seen: where a request's seq belongs.
Seen(s, k) ==
    IF s > highest THEN "new"
    ELSE IF s \in DOMAIN calls THEN "in flight"
    ELSE IF s \in DOMAIN k THEN "settled"
    ELSE "older"

\* Session::request.  The seq is placed before anything else is looked at.
Request(f) ==
    LET s == f.seq
        m == f.member
        k == Expire
        Refuse(lag) ==
            IF Streamed(m)
            THEN KeepStreamEnd(k, s, m, lag, calls, <<EndOut(s, 0, 1, "refused")>>)
            ELSE Respond(k, s, m, lag, "refused", calls, <<>>, <<>>)
        Served == m \in Members /\ (NeedsStreams(m) => CarriesStreams)
    IN  /\ f.form = "request"
        /\ UNCHANGED todo
        /\ \/ /\ Seen(s, k) = "settled"
              /\ kept' = k
              /\ Continue(calls, <<k[s].frame>>)
              /\ UNCHANGED <<highest, ring>>
           \/ /\ Seen(s, k) \in {"in flight", "older"}
              /\ kept' = k
              /\ Continue(calls, <<>>)
              /\ UNCHANGED <<highest, ring>>
           \/ /\ Seen(s, k) = "new"
              /\ highest' = s
              /\ \E lag \in Lags :
                    \/ /\ ~Served
                       /\ Respond(k, s, m, lag, "refused", calls, <<>>, <<>>)
                    \/ /\ Served
                       /\ Refuse(lag)      \* over the limit, or the ports refuse the send
                    \/ /\ Served /\ ~f.big
                       /\ kept' = k
                       /\ Continue([x \in DOMAIN calls \cup {s} |->
                                       IF x = s THEN NewCall(m, lag) ELSE calls[x]], <<>>)
                       /\ UNCHANGED ring
                    \/ /\ Served /\ ~f.big
                       /\ kept' = k
                       /\ Close(1001, <<>>)
                       /\ UNCHANGED ring

\* The call a stream frame names; a frame with another target is ignored.
Named(f) == f.seq \in DOMAIN calls /\ calls[f.seq].member = f.member

Ignore == Continue(calls, <<>>) /\ UNCHANGED <<highest, kept, ring, todo>>
Violation == Close(1002, <<>>) /\ UNCHANGED <<highest, kept, ring>>

\* Drains the call's uploads and saves it, after a chunk or an end was queued.
DrainAndFinish(s, call) ==
    \E d \in Drains(call) :
       /\ IF Gone(d) THEN Close(1001, DrainFrames(s, d))
          ELSE /\ Continue(Finished(s, Drained(call, d)), DrainFrames(s, d))
               /\ UNCHANGED todo
       /\ UNCHANGED <<highest, kept, ring>>

\* Session::receive_chunk and Upload::receive_chunk.
ReceiveChunk(f) ==
    LET s == f.seq
        call == calls[s]
        u == call.uploads[f.stream]
        Others == [call EXCEPT !.uploads[f.stream] = Stopped(u)]
        Queued == [u EXCEPT !.seqIn = f.n, !.credit = @ - 1, !.queued = @ + 1, !.idle = 0]
    IN  /\ f.form = "chunk"
        /\ \/ f.seq \in DOMAIN calls /\ ~Named(f) /\ Ignore
           \/ f.seq \notin DOMAIN calls /\ f.stream # 0 /\ Ignore
           \/ f.stream = 0 /\ (Named(f) \/ f.seq \notin DOMAIN calls) /\ Violation
           \/ Named(f) /\ f.stream # 0 /\ f.stream \notin DOMAIN call.uploads /\ Violation
           \/ /\ Named(f) /\ f.stream \in DOMAIN call.uploads
              /\ \/ (u.state # "open" \/ u.ended) /\ Ignore
                 \/ u.state = "open" /\ ~u.ended /\ u.credit = 0 /\ Violation
                 \/ /\ u.state = "open" /\ ~u.ended /\ u.credit > 0
                    /\ \/ /\ f.n # u.seqIn + 1
                          /\ Continue(Finished(s, [call EXCEPT !.uploads[f.stream] = Stopped(u)]),
                                      <<EndOut(s, f.stream, 1, "interrupted")>>)
                          /\ UNCHANGED <<highest, kept, ring, todo>>
                       \/ /\ f.n = u.seqIn + 1 /\ f.big
                          /\ Continue(Without(calls, {s}),
                                      <<EndOut(s, f.stream, 1, "refused")>>
                                      \o InterruptFrames(s, Others))
                          /\ UNCHANGED <<highest, kept, ring, todo>>
                       \/ /\ f.n = u.seqIn + 1 /\ ~f.big
                          /\ DrainAndFinish(s, [call EXCEPT !.uploads[f.stream] = Queued])

\* Session::end_upload and Upload::receive_end: the client ends or interrupts
\* one of its parameter streams.
EndUpload(f) ==
    LET s == f.seq
        call == calls[s]
        u == call.uploads[f.stream]
        Accepting == Named(f) /\ f.stream \in DOMAIN call.uploads /\ u.state = "open" /\ ~u.ended
        plain == Shape[call.member].kind = "query" /\ ~Shape[call.member].reply
        Whole == [u EXCEPT !.seqIn = f.n, !.ended = TRUE, !.idle = 0]
        Ended(lag) == [call EXCEPT !.uploads[f.stream] = Whole,
                                   !.age = IF plain THEN 0 ELSE @,
                                   !.since = IF plain /\ Shape[call.member].bounded THEN lag ELSE @]
    IN  /\ f.form = "end"
        /\ f.stream # 0
        /\ \/ ~Accepting /\ Ignore
           \/ Accepting /\ f.outcome \notin {"end", "interrupted"} /\ Violation
           \/ /\ Accepting
              /\ f.outcome = "interrupted" \/ (f.outcome = "end" /\ f.n # u.seqIn + 1)
              /\ Continue(Finished(s, [call EXCEPT !.uploads[f.stream] = Stopped(u)]),
                          IF f.n # u.seqIn + 1
                          THEN <<EndOut(s, f.stream, 1, "interrupted")>> ELSE <<>>)
              /\ UNCHANGED <<highest, kept, ring, todo>>
           \/ /\ Accepting /\ f.outcome = "end" /\ f.n = u.seqIn + 1
              /\ \E lag \in Lags : DrainAndFinish(s, Ended(lag))

\* Session::stop_stream on stream 0: the client stops the reply stream.
StopStream(f) ==
    LET s == f.seq
        call == calls[s]
    IN  /\ f.form = "end"
        /\ f.stream = 0
        /\ \/ s \in DOMAIN calls /\ ~Named(f) /\ Ignore
           \/ (Named(f) \/ s \notin DOMAIN calls) /\ f.outcome \in {"end", "busy"} /\ Violation
           \/ /\ f.outcome \in {"interrupted", "refused"}
              /\ s \notin DOMAIN calls \/ (Named(f) /\ ~Streamed(call.member))
              /\ Ignore
           \/ /\ f.outcome \in {"interrupted", "refused"}
              /\ Named(f) /\ Streamed(call.member)
              /\ KeepStreamEnd(kept, s, call.member, call.since, Without(calls, {s}),
                               InterruptFrames(s, call))
              /\ UNCHANGED <<highest, todo>>

\* Session::grant: credit for the reply stream.
Granted(r, credit) == [r EXCEPT !.credit = @ + credit, !.idle = 0]

Grant(f) ==
    /\ f.form = "credit"
    /\ Continue(IF Named(f) /\ f.stream = 0 /\ Streamed(f.member)
                THEN [calls EXCEPT ![f.seq].reply = Granted(@, f.credit)]
                ELSE calls, <<>>)
    /\ UNCHANGED <<highest, kept, ring, todo>>

\* Session::on_message, for the frames about calls on an attached session.
OnMessage(f) ==
    /\ closed = 0
    /\ todo = {}
    /\ Request(f) \/ ReceiveChunk(f) \/ EndUpload(f) \/ StopStream(f) \/ Grant(f)
-----------------------------------------------------------------------------
(* The tick: Session::poll_calls. *)

\* Kept responses expire, then the calls in flight are polled in turn.
StartTick ==
    /\ closed = 0
    /\ todo = {}
    /\ DOMAIN calls # {} \/ Expire # kept
    /\ kept' = Expire
    /\ todo' = DOMAIN calls
    /\ out' = <<>>
    /\ UNCHANGED <<highest, calls, ring, closed>>

\* Session::poll_stream: `sent` chunks, a chunk held back for want of credit
\* sent first, then what stops the loop.  A chunk pulled with no credit left
\* is held.
Pulls(r) ==
    LET limit == IF r.credit < ChunksPerTick THEN r.credit ELSE ChunksPerTick
        fates == {"pending", "end", "refused", "interrupted", "detached"}
        first == IF r.held THEN 1 ELSE 0
    IN  IF r.held /\ r.credit = 0
        THEN {[sent |-> 0, held |-> TRUE, fate |-> "pending"]}
        ELSE {p \in [sent : first..limit, held : BOOLEAN, fate : fates] :
                 /\ p.held => p.sent = r.credit /\ p.fate = "pending"
                 /\ p.sent = ChunksPerTick => ~p.held /\ p.fate = "pending"}

Pulled(r, p) == [r EXCEPT !.seqOut = @ + p.sent, !.credit = @ - p.sent,
                          !.held = p.held, !.idle = IF p.sent > 0 THEN 0 ELSE @]

\* Mutant: a duplex call is given up only when its uploads are over as well.
IdleWhenEnded(call) ==
    /\ call.reply.idle >= AbandonAfter
    /\ OpenUploads(call) = {}

\* A duplex call is given up when neither direction has moved.
StreamIdle(call) ==
    /\ call.reply.idle >= AbandonAfter
    /\ \A k \in DOMAIN call.uploads : call.uploads[k].idle >= AbandonAfter

PollStream(s, call, before) ==
    \E p \in Pulls(call.reply) :
        LET r == Pulled(call.reply, p)
            after == [call EXCEPT !.reply = r]
            sent == before \o [i \in 1..p.sent |-> ChunkOut(s, call.reply.seqOut + i)]
            fate == IF p.fate = "pending" /\ StreamIdle(after) THEN "interrupted" ELSE p.fate
        IN  CASE fate = "detached" ->
                   /\ Close(1001, sent)
                   /\ UNCHANGED <<kept, ring>>
              [] fate = "pending" ->
                   /\ Continue([calls EXCEPT ![s] = after], sent)
                   /\ UNCHANGED <<kept, ring>>
              [] OTHER ->
                   KeepStreamEnd(kept, s, call.member, call.since, Without(calls, {s}),
                       sent \o <<EndOut(s, 0, r.seqOut + 1, fate)>> \o InterruptFrames(s, call))

Accepted(call) == [call EXCEPT !.settled = TRUE]

\* A call without a reply stream, its uploads drained: ack or reply is read.
PollOutcome(s, call, before) ==
    LET Forget(fs) == Continue(Without(calls, {s}), fs) /\ UNCHANGED <<kept, ring>>
    IN  \/ /\ OpenUploads(call) = {} /\ call.age >= AbandonAfter
           /\ Forget(before)
        \/ /\ OpenUploads(call) # {} \/ call.age < AbandonAfter
           /\ Continue([calls EXCEPT ![s] = call], before)
           /\ UNCHANGED <<kept, ring>>
        \* a refusal covers the whole call, its uploads included
        \/ Respond(kept, s, call.member, call.since, "refused", Without(calls, {s}), <<>>, <<>>)
        \* an accepted command lives on until its uploads are over
        \/ /\ Shape[call.member].kind = "command" /\ DOMAIN call.uploads # {}
           /\ Respond(kept, s, call.member, call.since, "ok",
                      Finished(s, Accepted(call)), before, <<>>)
        \/ /\ Shape[call.member].kind = "query" \/ DOMAIN call.uploads = {}
           /\ Respond(kept, s, call.member, call.since, "ok", Without(calls, {s}),
                      before, InterruptFrames(s, call))
        \/ Forget(before \o InterruptFrames(s, call))       \* the ports know no such call
        \/ /\ Shape[call.member].kind = "query"             \* reply(): the ports are gone
           /\ Close(1001, <<>>)
           /\ UNCHANGED <<kept, ring>>

\* One turn of the loop of poll_calls.
PollCall ==
    /\ closed = 0
    /\ todo # {}
    /\ LET s == CHOOSE x \in todo : \A y \in todo : x <= y
           found == calls[s]
       IN  \E d \in Drains(found) :
             LET call == Drained(found, d)
                 before == DrainFrames(s, d)
                 stalled == /\ ~Streamed(call.member)
                            /\ \E k \in OpenUploads(call) : call.uploads[k].idle >= AbandonAfter
             IN  IF Gone(d)
                 THEN Close(1001, before) /\ UNCHANGED <<kept, ring>>
                 ELSE /\ \/ /\ stalled
                            /\ Continue(Without(calls, {s}), before \o InterruptFrames(s, call))
                            /\ UNCHANGED <<kept, ring>>
                         \/ /\ ~stalled /\ call.settled
                            /\ Continue(Finished(s, call), before)
                            /\ UNCHANGED <<kept, ring>>
                         \/ /\ ~stalled /\ ~call.settled /\ Streamed(call.member)
                            /\ PollStream(s, call, before)
                         \/ /\ ~stalled /\ ~call.settled /\ ~Streamed(call.member)
                            /\ PollOutcome(s, call, before)
                      /\ todo' = IF closed' = 0 THEN todo \ {s} ELSE {}
    /\ UNCHANGED highest

-----------------------------------------------------------------------------
(* Time. *)

\* The connection's clock, which call_abandon_after is measured on.
Waited(u) == [u EXCEPT !.idle = Older(@, AbandonAfter)]
AgedCall(call) ==
    [call EXCEPT !.age = Older(@, AbandonAfter),
                 !.uploads = [k \in DOMAIN call.uploads |-> Waited(call.uploads[k])],
                 !.reply = Waited(@)]

Tock ==
    /\ closed = 0
    /\ todo = {}
    /\ calls' = [s \in DOMAIN calls |-> AgedCall(calls[s])]
    /\ calls' # calls
    /\ out' = <<>>
    /\ UNCHANGED <<highest, kept, ring, closed, todo>>

\* The backend's clock, which the bound of a member is measured on.
Clock ==
    /\ closed = 0
    /\ calls' = [s \in DOMAIN calls |->
          IF Shape[calls[s].member].bounded
          THEN [calls[s] EXCEPT !.since = Older(@, Bound + 1)] ELSE calls[s]]
    /\ kept' = [s \in DOMAIN kept |->
          IF kept[s].left >= 0 THEN [kept[s] EXCEPT !.left = @ - 1] ELSE kept[s]]
    /\ <<calls, kept>>' # <<calls, kept>>
    /\ out' = <<>>
    /\ UNCHANGED <<highest, ring, closed, todo>>
=============================================================================
