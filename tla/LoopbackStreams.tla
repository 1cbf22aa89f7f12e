--------------------------- MODULE LoopbackStreams ---------------------------
(***************************************************************************)
(* The loopback's calls with their streams: the operations of StreamCaller *)
(* on a correlation and of StreamHandler on a claim, which move chunks     *)
(* through a bounded window, end and abort streams, and finish a deferred  *)
(* forget.  The reply stream is produced by the provider, a stream         *)
(* parameter by the caller (Side::producer).                               *)
(*                                                                         *)
(* A chunk is "bytes" or "empty"; a chunk too long for the member, and a   *)
(* pull whose buffer is too short for the next chunk, change nothing but   *)
(* that they name the stream.                                              *)
(***************************************************************************)
EXTENDS LoopbackCalls

CONSTANTS
    StreamWindow,  \* STREAM_WINDOW: the non-empty chunks one stream holds
    MaxQueue       \* bound: the chunks of one queue, the empty ones included

ASSUME StreamAssumption == StreamWindow \in Nat \ {0} /\ MaxQueue \in Nat

Sides == {"Caller", "Provider"}
\* Mutant: a change wakes the side that made it.
OtherSame(side) == side

Other(side) == IF side = "Caller" THEN "Provider" ELSE "Caller"
Producer(s) == IF s = ReplyStream THEN "Provider" ELSE "Caller"

\* StreamState::full
Full(st) == Cardinality({p \in DOMAIN st.chunks : st.chunks[p] = "bytes"}) >= StreamWindow
\* StreamState::closed answers an error for a side whose push, end or abort
\* the stream no longer takes.
Closed(st) == Finished(st)

\* Store::caller_slot and Store::claim_slot: who may address the streams of
\* the call in slot i, by its correlation or its claim.
CallerMay(i) == calls[i] # NoCall /\ ~calls[i].forgotten /\ callers # {}
Holder(k) ==
    CASE Claimed(k) /\ Owner(k).taken -> Owner(k).handler
      [] Claimed(k) /\ ~Owner(k).taken -> None
      [] OTHER -> k.settledBy
HandlerMay(h, i) == /\ h \in handlers
                    /\ calls[i] # NoCall /\ calls[i].claim # None
                    /\ Holder(calls[i]) = h
May(side, i) ==
    IF side = "Caller" THEN CallerMay(i) ELSE \E h \in handlers : HandlerMay(h, i)

\* Store::take_stream_waker of `side` on stream s, put on the wake list.
WakeSide(x, s, side) ==
    IF side = "Caller"
    THEN [x EXCEPT !.e = TakeStreamEntry(@, x.k.correlation, s),
                   !.wake = @ \cup {<<"Stream", x.k.correlation, s, x.e.streams[s]>>}]
    ELSE [x EXCEPT !.k.streams[s].waker = NoWaker,
                   !.wake = @ \cup ClaimStreamWaiters(x.k, {s})]

\* The cell with stream s left as st; a provider's move is remembered.
WithStream(x, s, st) == [x EXCEPT !.k.streams[s] = st]
Used(x, side) == IF side = "Provider" THEN [x EXCEPT !.k.providerUsedStreams = TRUE] ELSE x

streamRest == <<pending, nextSent, callerVars, claims, nextClaim, handlerVars, claimWaker,
                faultVars, released>>

\* Store::pull by the receiver: a chunk, the end or the failure, or Pending,
\* which only names the stream.
PullCell(x, side, s) ==
    LET st == Stream(x.k, s)
        named == WithStream(x, s, st)
    IN  CASE st.chunks # <<>> ->
                WakeSide(Used(WithStream(x, s, [st EXCEPT !.chunks = Tail(@)]), side), s, Other(side))
          [] st.chunks = <<>> /\ Finished(st) /\ side = "Provider" ->
                ReleaseIfDrained(Used(WithStream(x, s, [st EXCEPT !.drained = TRUE]), side))
          [] OTHER -> named
Pull(side, i, s) ==
    /\ May(side, i)
    /\ Producer(s) # side
    /\ ApplyTo(i, PullCell(Cell(i), side, s))
    /\ UNCHANGED streamRest

\* Store::push by the producer: refused once the stream is closed or the call
\* forgotten, answered 0 while the window is full.
PushCell(x, side, s, chunk) ==
    LET st == Stream(x.k, s)
    IN  CASE side = "Provider" /\ x.k.forgotten -> x
          [] ~(side = "Provider" /\ x.k.forgotten)
                /\ (Closed(st) \/ (chunk = "bytes" /\ Full(st))) -> WithStream(x, s, st)
          [] OTHER ->
                WakeSide(Used(WithStream(x, s, [st EXCEPT !.chunks = Append(@, chunk)]), side),
                         s, Other(side))
Push(side, i, s, chunk) ==
    /\ May(side, i)
    /\ Producer(s) = side
    /\ Len(calls[i].streams[s].chunks) < MaxQueue
    /\ ApplyTo(i, PushCell(Cell(i), side, s, chunk))
    /\ UNCHANGED streamRest

\* Store::end by the producer.
EndCell(x, side, s) ==
    LET st == Stream(x.k, s)
    IN  CASE side = "Provider" /\ x.k.forgotten -> x
          [] ~(side = "Provider" /\ x.k.forgotten) /\ Closed(st) -> WithStream(x, s, st)
          [] OTHER -> WakeSide(WithStream(x, s, [st EXCEPT !.ended = TRUE]), s, Other(side))

\* Store::abort by either side.
AbortCell(x, side, s) ==
    LET st == Stream(x.k, s)
        receiver == Producer(s) # side
        dropped == IF receiver THEN <<>> ELSE st.chunks
        provider == side = "Provider"
        refused == [st EXCEPT !.chunks = dropped, !.drained = @ \/ (receiver /\ provider)]
        stopped == [st EXCEPT !.chunks = dropped, !.drained = @ \/ provider, !.stopped = side]
        done(y) == IF provider THEN ReleaseIfDrained(y) ELSE y
    IN  IF Finished(st)
        THEN IF receiver THEN done(Used(WithStream(x, s, refused), side))
             ELSE Used(WithStream(x, s, refused), side)
        ELSE done(WakeSide(Used(WithStream(x, s, stopped), side), s, Other(side)))

CallerEnd(i, s) ==
    /\ CallerMay(i)
    /\ Producer(s) = "Caller"
    /\ ApplyTo(i, EndCell(Cell(i), "Caller", s))
    /\ UNCHANGED streamRest

CallerAbort(i, s) ==
    /\ CallerMay(i)
    /\ ApplyTo(i, AbortCell(Cell(i), "Caller", s))
    /\ UNCHANGED streamRest

\* Store::end_claim and Store::abort_claim: on the reply stream of a claim
\* still held they settle the claim, with the caller's refusal when it aborted
\* the stream; on any other stream they end or abort it.
EndOutcome(k) ==
    IF k.forgotten \/ Stream(k, ReplyStream).stopped = "Caller" THEN "Err" ELSE "Ok"
EndClaim(h, i, s) ==
    /\ HandlerMay(h, i)
    /\ IF s = ReplyStream /\ Claimed(calls[i])
       THEN SettleClaim(h, calls[i].claim, EndOutcome(calls[i]))
       ELSE /\ Producer(s) = "Provider"
            /\ ApplyTo(i, EndCell(Cell(i), "Provider", s))
            /\ UNCHANGED streamRest
AbortClaim(h, i, s) ==
    /\ HandlerMay(h, i)
    /\ IF s = ReplyStream /\ Claimed(calls[i])
       THEN SettleClaim(h, calls[i].claim, "Err")
       ELSE /\ ApplyTo(i, AbortCell(Cell(i), "Provider", s))
            /\ UNCHANGED streamRest

\* The injected failure spent on a claim's end or abort, which named the reply
\* stream first.
EndClaimFails(h, i) ==
    /\ HandlerMay(h, i)
    /\ Claimed(calls[i])
    /\ failNextSettle
    /\ failNextSettle' = FALSE
    /\ ApplyTo(i, WithStream(Cell(i), ReplyStream, Stream(calls[i], ReplyStream)))
    /\ UNCHANGED <<pending, nextSent, callerVars, claims, nextClaim, handlerVars, claimWaker,
                   faults, released>>

\* Store::wait_stream
WaitStream(c, s, task) ==
    /\ callers # {}
    /\ Known(c)
    /\ ~calls[SlotOf(c)].pendingForget
    /\ StoresStream(slots[SlotOf(c)], c, s)
    /\ slots' = [slots EXCEPT ![SlotOf(c)] = WakeOnStreamEntry(@, c, s, task)]
    /\ asleep' = (asleep \ {<<"Stream", c, s, slots[SlotOf(c)].streams[s]>>})
                    \cup {<<"Stream", c, s, task>>}
    /\ UNCHANGED <<calls, slotWaker, panicked, streamRest>>

\* Store::wait_claim_stream: a stream that is finished keeps no waker.
WaitClaimStream(h, i, s, task) ==
    LET st == Stream(calls[i], s)
        id == calls[i].claim
    IN  /\ HandlerMay(h, i)
        /\ ~calls[i].forgotten
        /\ calls' = [calls EXCEPT ![i].streams[s] =
                        IF Finished(st) THEN st ELSE [st EXCEPT !.waker = task]]
        /\ asleep' = IF Finished(st) THEN asleep
                     ELSE (asleep \ {<<"ClaimStream", id, s, st.waker>>})
                            \cup {<<"ClaimStream", id, s, task>>}
        /\ UNCHANGED <<slots, slotWaker, panicked, streamRest>>

-----------------------------------------------------------------------------
NextStream ==
    \/ \E side \in Sides, i \in Slots, s \in StreamNos :
        \/ Pull(side, i, s)
        \/ \E chunk \in {"bytes", "empty"} : Push(side, i, s, chunk)
    \/ \E i \in Slots, s \in StreamNos :
        \/ CallerEnd(i, s)
        \/ CallerAbort(i, s)
        \/ \E h \in Handlers :
            \/ EndClaim(h, i, s)
            \/ AbortClaim(h, i, s)
            \/ \E task \in Wakers : WaitClaimStream(h, i, s, task)
    \/ \E h \in Handlers, i \in Slots : EndClaimFails(h, i)
    \/ \E c \in Correlations, s \in StreamNos, task \in Wakers : WaitStream(c, s, task)

StreamsNext == Next \/ NextStream
StreamsSpec == Init /\ [][StreamsNext]_vars

(***************************************************************************)
(* The fairness a provider owes.  It goes on taking claims, with a buffer  *)
(* long enough after a ShortClaim; it settles every claim it was presented,*)
(* again when the settlement failed; and it reads the stream parameters of *)
(* a call on to their end.  A provider that does less is dropped, which is *)
(* CloseHandler.  Nothing is assumed of callers.                           *)
(***************************************************************************)
Fairness ==
    /\ \A h \in Handlers :
        /\ WF_vars(NextClaim(h, TRUE))
        /\ \A id \in ClaimIds :
            WF_vars(SettleFails(h, id) \/ \E outcome \in {"Ok", "Err"} : Settle(h, id, outcome))
    /\ \A i \in Slots, s \in StreamNos : WF_vars(Pull("Provider", i, s))
FairSpec == StreamsSpec /\ Fairness

-----------------------------------------------------------------------------
\* The stream as registration r's side sees it is still waiting: nothing to
\* receive, or no window to produce into, and not finished; or its own side
\* finished it, which its own side knows.
Idle(st, side, s) ==
    ~Finished(st) /\ IF Producer(s) = side THEN Full(st) ELSE st.chunks = <<>>
OwnFinish(st, side, s) == st.stopped = side \/ (st.ended /\ Producer(s) = side)
\* The live, unforgotten call whose stream registration r is about.
StreamCall(r) ==
    {i \in Slots :
        /\ calls[i] # NoCall /\ ~calls[i].forgotten
        /\ \/ r[1] = "Stream" /\ calls[i].correlation = r[2]
           \/ /\ r[1] = "ClaimStream" /\ calls[i].claim = r[2]
              /\ Holder(calls[i]) \in handlers}
WaiterSide(r) == IF r[1] = "Stream" THEN "Caller" ELSE "Provider"
StreamBlocked(r) ==
    \E i \in StreamCall(r) : Idle(Stream(calls[i], r[3]), WaiterSide(r), r[3])
StreamUnchanged(r) ==
    \E i \in StreamCall(r) :
        LET st == Stream(calls[i], r[3])
        IN  Idle(st, WaiterSide(r), r[3]) \/ OwnFinish(st, WaiterSide(r), r[3])

\* A chunk or an end that arrives, a window that frees, the other side's abort,
\* a settlement, a forget or a handler's drop wakes the task that waits for it
\* on the stream (Interest::Stream and Interest::ClaimStream).
StreamWakeOnChange ==
    [][\A r \in asleep : StreamBlocked(r) /\ ~StreamUnchanged(r)' => r \notin asleep']_vars

\* What a caller pushed and ended before it forgot the call stays readable by
\* the handler that has the call: neither forget nor the caller's drop takes
\* the chunks away or gives the slot to another call.
EndedParameterKept ==
    [][released' # released =>
        \A i \in Slots, s \in StreamNos \ {ReplyStream} :
            LET k == calls[i]
            IN  /\ k # NoCall
                /\ Claimed(k) \/ k.settledBy # None
                /\ k.streams[s].ended /\ k.streams[s].chunks # <<>>
                => /\ calls'[i] # NoCall
                   /\ calls'[i].correlation = k.correlation
                   /\ calls'[i].streams[s].chunks = k.streams[s].chunks]_vars

\* A handler is only ever presented a call whose streams no other handler has
\* moved: nothing read to its end, nothing replied, nothing stopped by a
\* provider.
WaitingStreamsUntouched ==
    \A i \in Slots :
        LET k == calls[i]
        IN  k # NoCall /\ Waiting(k) =>
                /\ k.streams[ReplyStream].chunks = <<>> /\ ~k.streams[ReplyStream].ended
                /\ \A s \in StreamNos : k.streams[s].stopped # "Provider" /\ ~k.streams[s].drained

\* A deferred forget is over as soon as the provider has read every parameter
\* to its end: it never holds a slot for nothing.
DeferredWhileUnread ==
    \A i \in Slots : calls[i] # NoCall /\ calls[i].pendingForget => Undrained(calls[i])

\* A stream of a settled call that no handler reads any more has stopped, one
\* that is named later too, so its caller is refused and never waits.
NoStreamWithoutReader ==
    \A i \in Slots :
        LET k == calls[i]
        IN  k # NoCall /\ slots[i].state = "Settled" =>
                /\ Finished(Stream(k, ReplyStream))
                /\ k.settledBy \notin handlers => \A s \in StreamNos : Finished(Stream(k, s))

(***************************************************************************)
(* The streams of a call keep to the life of the call, whoever of caller   *)
(* and handlers forgets, settles, aborts or goes first: no slot is held    *)
(* for nobody, no half-moved call is presented again, no forget is         *)
(* deferred for nothing, no stream is open without a reader and no waker   *)
(* of it is dropped.                                                       *)
(***************************************************************************)
StreamsConsistent ==
    /\ NoSlotLost
    /\ WaitingStreamsUntouched
    /\ DeferredWhileUnread
    /\ NoStreamWithoutReader
    /\ NoLostWaker

-----------------------------------------------------------------------------
\* The slot of a forgotten call comes back: at once, at the settlement, or
\* after a deferred forget when the provider has read the parameters; no
\* order of forget, abort, drop and settlement keeps it
\* (Store::forget, release_if_drained, close_handler).
ForgottenComesBack == \A c \in Correlations : c \in released ~> ~Known(c)

\* A call some open handler serves does not stay in flight: it is presented,
\* by another handler after a drop or a ShortClaim too, and settled.
InFlight(c) == Known(c) /\ slots[SlotOf(c)].state \in {"InFlight", "Forgotten"}
HasServer(c) == \E h \in handlers : Known(c) /\ Serves(h, calls[SlotOf(c)].member)
ServedIsSettled ==
    \A c \in Correlations : InFlight(c) ~> ~InFlight(c) \/ ~HasServer(c)
==============================================================================
