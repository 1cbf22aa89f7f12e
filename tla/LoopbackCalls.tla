---------------------------- MODULE LoopbackCalls ----------------------------
(***************************************************************************)
(* The call half of the loopback runtime (crates/ridl-loopback): the store *)
(* every caller and handler handle shares, behind one lock.  Each action   *)
(* is one critical section, the wakers it takes included; they are woken   *)
(* after the lock is released (handle.rs, locked).                         *)
(*                                                                         *)
(* What happens to one call is given as operators on a cell: the call's    *)
(* slot in the table, its entry in the store, and the `wake` list the code *)
(* threads through every operation.  LoopbackStreams.tla adds the          *)
(* operations on a call's streams.                                         *)
(*                                                                         *)
(* Left out: argument and reply bytes, envelopes, trace contexts, sequence *)
(* numbers and size limits.  A refused payload changes nothing; a buffer   *)
(* too short for a claim's arguments is the choice `fits` of NextClaim.    *)
(***************************************************************************)
EXTENDS Correlate, SequencesExt

CONSTANTS
    N,            \* SLOTS: the slots of the call table
    Members,      \* the (interface, ordinal) keys calls are sent to
    Kinds,        \* the CallKinds that are sent: "Command", "Query" or both
    MaxCallers, MaxHandlers,  \* bounds: handles opened over a run
    MaxSends,     \* bound: calls sent over a run
    MaxFaults,    \* bound: uses of the fail_next_settle hook
    NoCall, NoOwner,
    Noop          \* Waker::noop(), the waker a deferred forget stores

ASSUME LoopbackAssumption ==
    /\ N \in Nat \ {0} /\ N <= SlotSpan
    /\ {MaxCallers, MaxHandlers, MaxSends, MaxFaults} \subseteq Nat
    /\ MaxSends < GenSpan
    /\ Kinds \subseteq {"Command", "Query"}
    /\ Noop \in Tasks
    /\ 0 \in StreamNos /\ StreamNos \subseteq Nat
    /\ {"Ok", "Err", "Undelivered", "Interrupted"} \subseteq Outcomes

Slots == 0 .. N - 1
Callers == 1 .. MaxCallers
Handlers == 1 .. MaxHandlers
ClaimIds == 1 .. MaxSends
Correlations == {Correlation(g, i) : g \in 0 .. GenSpan - 1, i \in 0 .. SlotSpan - 1}
ReplyStream == 0
None == 0  \* Option::None of a claim id, a handler id

VARIABLES
    slots,          \* Store::table
    calls,          \* Store::calls, NoCall for a slot with no entry
    pending,        \* Store::pending
    nextSent,       \* Store::next_sent
    callers,        \* the ids of Store::callers
    nextCaller,     \* Store::next_caller_id
    slotWaker,      \* each caller's Interest::Slot waker
    claims,         \* Store::claims, NoOwner for an id not in the map
    nextClaim,      \* Store::next_claim_id
    handlers,       \* the ids of Store::handlers
    nextHandler,    \* Store::next_handler_id
    served,         \* HandlerState::served
    claimWaker,     \* each handler's Interest::Claim waker
    failNextSettle, \* Store::fail_next_settle
    faults,         \* how often the hook was used
    panicked,       \* an unreachable!, an expect or a map index failed
    released,       \* history: the correlations the caller forgot
    asleep          \* history: registrations whose waker was not woken yet

vars == <<slots, calls, pending, nextSent, callers, nextCaller, slotWaker, claims,
          nextClaim, handlers, nextHandler, served, claimWaker, failNextSettle, faults,
          panicked, released, asleep>>

-----------------------------------------------------------------------------
(***************************************************************************)
(* Streams of a call (StreamState).  A stream exists once an operation     *)
(* named it.  `stopped` is the side that stopped it.                       *)
(***************************************************************************)
UnnamedStream ==
    [named |-> FALSE, chunks |-> <<>>, ended |-> FALSE, stopped |-> "No",
     drained |-> FALSE, waker |-> NoWaker]

Finished(st) == st.ended \/ st.stopped # "No"

\* StreamState::release
ReleaseStream(st) ==
    [st EXCEPT !.chunks = <<>>, !.drained = TRUE,
               !.stopped = IF Finished(st) THEN @ ELSE "Provider"]

\* Mutant: a stream named after the parameters were released stays open.
StreamNotReleased(k, s) ==
    IF k.streams[s].named THEN k.streams[s]
    ELSE [UnnamedStream EXCEPT !.named = TRUE,
                               !.stopped = IF k.forgotten THEN "Caller" ELSE "No"]

\* CallEntry::stream: stream s, made when nothing has named it yet.
Stream(k, s) ==
    LET fresh == [UnnamedStream EXCEPT !.named = TRUE,
                                       !.stopped = IF k.forgotten THEN "Caller" ELSE "No"]
    IN  CASE k.streams[s].named -> k.streams[s]
          [] ~k.streams[s].named /\ k.parametersReleased /\ s # ReplyStream -> ReleaseStream(fresh)
          [] OTHER -> fresh

\* CallEntry::undrained
Undrained(k) ==
    \E s \in StreamNos \ {ReplyStream} : k.streams[s].named /\ ~k.streams[s].drained

-----------------------------------------------------------------------------
(***************************************************************************)
(* A registration is <<kind, id, stream, task>>.                           *)
(***************************************************************************)
OutcomeWaiter(e, c) == {<<"Outcome", c, 0, e.waker>>}
StreamWaiters(e, c) == {<<"Stream", c, s, e.streams[s]>> : s \in StreamNos}
ClaimStreamWaiters(k, ss) == {<<"ClaimStream", k.claim, s, k.streams[s].waker>> : s \in ss}

Cell(i) == [e |-> slots[i], k |-> calls[i], wake |-> {}, freed |-> FALSE, panic |-> FALSE]
Panic(x) == [x EXCEPT !.panic = TRUE]

\* Table::take_streams on the cell's slot.
TakeStreams(x) ==
    [x EXCEPT !.e = TakeStreamsEntry(@), !.wake = @ \cup StreamWaiters(x.e, x.k.correlation)]

\* Store::reclaimed: the entry goes with every stream waker of the call.  The
\* callers' Slot wakers are taken by Apply.
Reclaim(x) ==
    [TakeStreams(x) EXCEPT
        !.k = NoCall, !.freed = TRUE,
        !.wake = @ \cup ClaimStreamWaiters(x.k, {s \in StreamNos : x.k.streams[s].named})]

\* Store::forget_in_table
ForgetInTable(x) ==
    LET c == x.k.correlation
        y == [x EXCEPT !.e = ForgetEntry(@, c)]
    IN  CASE ForgetAnswer(x.e, c) = "Reclaimed" -> Reclaim(y)
          [] ForgetAnswer(x.e, c) = "Marked" ->
                [TakeStreams(y) EXCEPT !.wake = @ \cup OutcomeWaiter(x.e, c),
                                       !.k.forgotten = TRUE]
          [] OTHER -> x

\* Store::withdraw: settle, then forget unless the settlement reclaimed.
Withdraw(x) ==
    LET c == x.k.correlation
        y == [x EXCEPT !.e = SettleEntry(@, c, "Undelivered")]
    IN  CASE SettleAnswer(x.e, c) = "Recorded" /\ ForgetAnswer(y.e, c) = "Reclaimed" ->
                Reclaim([y EXCEPT !.e = ForgetEntry(@, c), !.wake = @ \cup OutcomeWaiter(x.e, c)])
          [] SettleAnswer(x.e, c) = "Reclaimed" -> Reclaim(y)
          [] OTHER -> Panic(x)

\* Store::interrupt_streams, of a call the caller has not forgotten.
InterruptStreams(x) ==
    IF x.k.forgotten THEN x
    ELSE [x EXCEPT
        !.k.streams = [s \in StreamNos |->
            LET st == x.k.streams[s]
            IN  IF ~st.named THEN st
                ELSE [st EXCEPT !.waker = NoWaker,
                                !.stopped = IF Finished(st) THEN @ ELSE "Caller"]],
        !.wake = @ \cup ClaimStreamWaiters(x.k, StreamNos)]

\* Mutant: a deferred forget is not finished when the last parameter is read.
ReleaseIfDrainedNever(x) == x

\* Store::release_if_drained
ReleaseIfDrained(x) ==
    IF x.k.pendingForget /\ ~Undrained(x.k)
    THEN ForgetInTable([x EXCEPT !.k.pendingForget = FALSE])
    ELSE x

\* CallEntry::release_parameters
ReleaseParameters(x) ==
    LET params == {s \in StreamNos \ {ReplyStream} : x.k.streams[s].named}
    IN  [x EXCEPT
            !.k.parametersReleased = TRUE,
            !.k.streams = [s \in StreamNos |->
                IF s \in params THEN [ReleaseStream(x.k.streams[s]) EXCEPT !.waker = NoWaker]
                ELSE x.k.streams[s]],
            !.wake = @ \cup ClaimStreamWaiters(x.k, params)]

-----------------------------------------------------------------------------
(***************************************************************************)
(* Claims.                                                                 *)
(***************************************************************************)
Owner(k) == IF k.claim = None THEN NoOwner ELSE claims[k.claim]
Claimed(k) == Owner(k) # NoOwner
\* Store::offered: presented through ShortClaim and not taken.
Offered(k) == Claimed(k) /\ ~Owner(k).taken
HeldBy(h, k) == Claimed(k) /\ Owner(k).handler = h
Waiting(k) == k.correlation \in Range(pending)

\* HandlerState::serves: an empty served set is no filter.
Admits(members, member) == members = {} \/ member \in members
Serves(h, member) == Admits(served[h], member)
\* Where next_claim finds the next call for a served set, and claim_waiting
\* whether there is one.
Servable(members) == {p \in DOMAIN pending : Admits(members, calls[SlotOf(pending[p])].member)}
ClaimWaiting(h) == Servable(served[h]) # {}

\* Mutant: a forget is never deferred.
DefersNever(k) == FALSE

\* Store::defer_forget, of a call a handler holds or settled.
Defers(k) ==
    /\ ~k.forgotten
    /\ Claimed(k) \/ k.settledBy # None
    /\ Undrained(k)
DeferForget(x) ==
    LET c == x.k.correlation
    IN  [TakeStreams(x) EXCEPT
            !.k.forgotten = TRUE, !.k.pendingForget = TRUE,
            !.e = WakeOnEntry(@, c, Noop),
            !.wake = @ \cup OutcomeWaiter(x.e, c)]

\* Store::forget on the call it names: withdrawn while no handler has it,
\* deferred while the provider has a parameter to read, else told to the table.
Withdrawable(k) == ~k.pendingForget /\ Waiting(k) /\ ~Offered(k)
ForgetCell(x) ==
    LET y == InterruptStreams(x)
    IN  CASE x.k.pendingForget -> x
          [] Withdrawable(x.k) -> Withdraw(y)
          [] ~x.k.pendingForget /\ ~Withdrawable(x.k) /\ Defers(y.k) -> DeferForget(y)
          [] OTHER -> ForgetInTable(y)

\* The reply stream ends with a settlement Ok and stops with an error.
FinishReply(k, outcome) ==
    LET st == Stream(k, ReplyStream)
    IN  [k EXCEPT !.streams[ReplyStream] =
            CASE Finished(st) -> st
              [] ~Finished(st) /\ outcome = "Ok" -> [st EXCEPT !.ended = TRUE]
              [] OTHER -> [st EXCEPT !.stopped = "Provider"]]

\* Store::settle, past its checks, on the call the claim names.
SettleCell(x, h, outcome) ==
    LET c == x.k.correlation
        settled == [x EXCEPT !.e = SettleEntry(@, c, outcome), !.k.settledBy = h,
                             !.wake = @ \cup OutcomeWaiter(x.e, c)]
        done == IF x.k.kind = "Query" \/ outcome # "Ok" THEN ReleaseParameters(settled)
                ELSE settled
    IN  CASE SettleAnswer(x.e, c) = "Recorded" ->
                ReleaseIfDrained(TakeStreams([done EXCEPT !.k = FinishReply(@, outcome)]))
          [] SettleAnswer(x.e, c) = "Reclaimed" ->
                Reclaim([x EXCEPT !.e = SettleEntry(@, c, outcome)])
          [] OTHER -> Panic(x)

\* Store::interrupt_claim
InterruptClaim(x) ==
    LET c == x.k.correlation
        y == ReleaseParameters(x)
        z == [y EXCEPT !.k = [FinishReply(@, "Interrupted") EXCEPT
                                  !.streams[ReplyStream].waker = NoWaker],
                       !.wake = @ \cup ClaimStreamWaiters(y.k, {ReplyStream}),
                       !.e = SettleEntry(@, c, "Interrupted")]
    IN  CASE SettleAnswer(x.e, c) = "Recorded" ->
                [TakeStreams(z) EXCEPT !.wake = @ \cup OutcomeWaiter(x.e, c)]
          [] SettleAnswer(x.e, c) = "Reclaimed" -> Reclaim(z)
          [] OTHER -> Panic(x)

\* Store::close_handler, first loop and the forgets it releases: the dropped
\* handler's stream wakers are taken, and no provider is left for the
\* parameters of a call it settled.
TakeClaimStreams(x) ==
    [x EXCEPT !.k.streams = [s \in StreamNos |-> [x.k.streams[s] EXCEPT !.waker = NoWaker]],
              !.wake = @ \cup ClaimStreamWaiters(x.k, StreamNos)]

DropSettled(x) ==
    LET y == TakeClaimStreams(TakeStreams(ReleaseParameters([x EXCEPT !.k.settledBy = None])))
    IN  IF x.k.pendingForget THEN ForgetInTable([y EXCEPT !.k.pendingForget = FALSE]) ELSE y

\* Mutant: nothing returns at the drop.
ReturnsNever(h, k) == FALSE

\* Store::close_handler, the claims it held: a forgotten call is withdrawn, one
\* whose streams the handler moved is interrupted, the others return.
Returns(h, k) ==
    HeldBy(h, k) /\ Owner(k).taken /\ ~k.forgotten /\ ~k.providerUsedStreams
DropHeld(x, h) ==
    LET y == TakeClaimStreams(x)
    IN  CASE x.k.forgotten -> Withdraw(y)
          [] ~x.k.forgotten /\ Owner(x.k).taken /\ x.k.providerUsedStreams -> InterruptClaim(y)
          [] OTHER -> y
CloseHandlerCell(x, h) ==
    CASE x.k # NoCall /\ HeldBy(h, x.k) -> DropHeld(x, h)
      [] x.k # NoCall /\ ~HeldBy(h, x.k) /\ x.k.settledBy = h -> DropSettled(x)
      [] OTHER -> x

-----------------------------------------------------------------------------
\* The cells an operation leaves behind, put back: a reclaimed slot wakes
\* every caller waiting for one, and `more` is woken beside what the cells are.
Apply(cells, more) ==
    LET woken == more \cup UNION {cells[i].wake : i \in Slots}
        freed == \E i \in Slots : cells[i].freed
    IN  /\ slots' = [i \in Slots |-> cells[i].e]
        /\ calls' = [i \in Slots |-> cells[i].k]
        /\ panicked' = \E i \in Slots : cells[i].panic
        /\ slotWaker' = IF freed THEN [k \in Callers |-> NoWaker] ELSE slotWaker
        /\ asleep' = {r \in asleep \ woken : ~(freed /\ r[1] = "Slot")}

\* Only the cell of slot i changes.
ApplyTo(i, x) == Apply([j \in Slots |-> IF j = i THEN x ELSE Cell(j)], {})

\* Store::wake_handlers_serving, of every handler in hs: the wakers taken.
ClaimWaiters(hs) == {<<"Claim", h, 0, claimWaker[h]>> : h \in hs}

\* The call under c has its entry: every operation on another correlation
\* finds nothing and changes nothing.
HasEntry(c) == SlotOf(c) \in Slots /\ calls[SlotOf(c)] # NoCall
Known(c) == HasEntry(c) /\ calls[SlotOf(c)].correlation = c

\* What is left of the waiting calls when those of gone are removed.
Without(queue, gone) ==
    LET left[n \in 0 .. Len(queue)] ==
            IF n = 0 THEN <<>>
            ELSE IF queue[n] \in gone THEN left[n - 1] ELSE Append(left[n - 1], queue[n])
    IN  left[Len(queue)]

-----------------------------------------------------------------------------
Init ==
    /\ slots = [i \in Slots |-> FreeEntry]
    /\ calls = [i \in Slots |-> NoCall]
    /\ pending = <<>>
    /\ nextSent = 0
    /\ callers = {} /\ nextCaller = 1
    /\ slotWaker = [k \in Callers |-> NoWaker]
    /\ claims = [id \in ClaimIds |-> NoOwner]
    /\ nextClaim = 1
    /\ handlers = {} /\ nextHandler = 1
    /\ served = [h \in Handlers |-> {}]
    /\ claimWaker = [h \in Handlers |-> NoWaker]
    /\ failNextSettle = FALSE /\ faults = 0
    /\ panicked = FALSE
    /\ released = {}
    /\ asleep = {}

callerVars == <<callers, nextCaller>>
handlerVars == <<handlers, nextHandler, served>>
faultVars == <<failNextSettle, faults>>

OpenCaller ==
    /\ nextCaller <= MaxCallers
    /\ callers' = callers \cup {nextCaller}
    /\ nextCaller' = nextCaller + 1
    /\ UNCHANGED <<slots, calls, pending, nextSent, slotWaker, claims, nextClaim, handlerVars,
                   claimWaker, faultVars, panicked, released, asleep>>

OpenHandler ==
    /\ nextHandler <= MaxHandlers
    /\ handlers' = handlers \cup {nextHandler}
    /\ nextHandler' = nextHandler + 1
    /\ UNCHANGED <<slots, calls, pending, nextSent, callerVars, slotWaker, claims, nextClaim,
                   served, claimWaker, faultVars, panicked, released, asleep>>

\* CallerHandle::send and Store::send.  With no free slot the answer is Busy.
NewCall(c, caller, kind, member) ==
    [correlation |-> c, caller |-> caller, kind |-> kind, member |-> member, sent |-> nextSent,
     forgotten |-> FALSE, claim |-> None, settledBy |-> None,
     streams |-> [s \in StreamNos |-> UnnamedStream], pendingForget |-> FALSE,
     parametersReleased |-> FALSE, providerUsedStreams |-> FALSE]
FreeSlots == {i \in Slots : slots[i].state = "Free"}

Send(caller, kind, member) ==
    /\ caller \in callers
    /\ nextSent < MaxSends
    /\ FreeSlots # {}
    /\ LET i == Min(FreeSlots)
           c == Correlation(slots[i].generation, i)
           woken == {h \in handlers : Serves(h, member)}
           cell == [Cell(i) EXCEPT !.e = Inserted(@, 0), !.k = NewCall(c, caller, kind, member)]
       IN  /\ Apply([j \in Slots |-> IF j = i THEN cell ELSE Cell(j)], ClaimWaiters(woken))
           /\ pending' = Append(pending, c)
           /\ claimWaker' = [h \in Handlers |-> IF h \in woken THEN NoWaker ELSE claimWaker[h]]
    /\ nextSent' = nextSent + 1
    /\ UNCHANGED <<callerVars, claims, nextClaim, handlerVars, faultVars, released>>

\* CallerHandle::forget, of its own call or of any other caller's.
Forget(c) ==
    /\ callers # {}
    /\ Known(c)
    /\ LET k == calls[SlotOf(c)]
       IN  /\ ApplyTo(SlotOf(c), ForgetCell(Cell(SlotOf(c))))
           /\ pending' = IF Withdrawable(k) THEN Without(pending, {c}) ELSE pending
    /\ released' = released \cup {c}
    /\ UNCHANGED <<nextSent, callerVars, claims, nextClaim, handlerVars, claimWaker, faultVars>>

\* CallerHandle's Drop and Store::close_caller: its calls are forgotten.
CloseCaller(caller) ==
    LET sent == {i \in Slots : calls[i] # NoCall /\ calls[i].caller = caller}
        gone == {calls[i].correlation : i \in {j \in sent : Withdrawable(calls[j])}}
    IN  /\ caller \in callers
        /\ callers' = callers \ {caller}
        /\ Apply([i \in Slots |-> IF i \in sent THEN ForgetCell(Cell(i)) ELSE Cell(i)],
                 {<<"Slot", caller, 0, slotWaker[caller]>>})
        /\ pending' = Without(pending, gone)
        /\ released' = released \cup {calls[i].correlation : i \in sent}
        /\ UNCHANGED <<nextSent, nextCaller, claims, nextClaim, handlerVars, claimWaker, faultVars>>

\* Store::serve: a waiting call the handler now serves wakes it.
ServeWakes(h, member) == Servable(served[h] \cup {member}) # {}
Serve(h, member) ==
    /\ h \in handlers
    /\ served' = [served EXCEPT ![h] = @ \cup {member}]
    /\ IF ServeWakes(h, member)
       THEN /\ claimWaker' = [claimWaker EXCEPT ![h] = NoWaker]
            /\ asleep' = asleep \ ClaimWaiters({h})
       ELSE UNCHANGED <<claimWaker, asleep>>
    /\ UNCHANGED <<slots, calls, pending, nextSent, callerVars, slotWaker, claims, nextClaim,
                   handlers, nextHandler, faultVars, panicked, released>>

\* Store::next_claim: the first waiting call h serves, taken when its arguments
\* fit the buffer and only offered (ReadError::ShortClaim) when they do not.
Mints(i) == calls[i].claim = None
NextClaim(h, fits) ==
    /\ h \in handlers
    /\ ClaimWaiting(h)
    /\ LET c == pending[Min(Servable(served[h]))]
           i == SlotOf(c)
           id == IF Mints(i) THEN nextClaim ELSE calls[i].claim
       IN  /\ calls' = [calls EXCEPT ![i].claim = id]
           /\ nextClaim' = IF Mints(i) THEN nextClaim + 1 ELSE nextClaim
           /\ claims' = [claims EXCEPT ![id] = [call |-> c, handler |-> h, taken |-> fits]]
           /\ pending' = IF fits THEN Without(pending, {c}) ELSE pending
    /\ UNCHANGED <<slots, nextSent, callerVars, slotWaker, handlerVars, claimWaker, faultVars,
                   panicked, released, asleep>>

\* Store::settle of a claim h holds, taken or only offered.
SettleClaim(h, id, outcome) ==
    /\ claims[id] # NoOwner /\ claims[id].handler = h
    /\ ~failNextSettle
    /\ claims' = [claims EXCEPT ![id] = NoOwner]
    /\ LET c == claims[id].call
       IN  /\ pending' = IF claims[id].taken THEN pending ELSE Without(pending, {c})
           /\ IF HasEntry(c)
              THEN ApplyTo(SlotOf(c), SettleCell(Cell(SlotOf(c)), h, outcome))
              ELSE /\ panicked' = TRUE
                   /\ UNCHANGED <<slots, calls, slotWaker, asleep>>
    /\ UNCHANGED <<nextSent, callerVars, nextClaim, handlerVars, claimWaker, faultVars, released>>
Settle(h, id, outcome) == h \in handlers /\ SettleClaim(h, id, outcome)

\* The injected failure is spent on a claim that exists, which stays held.
SettleFails(h, id) ==
    /\ h \in handlers
    /\ claims[id] # NoOwner /\ claims[id].handler = h
    /\ failNextSettle
    /\ failNextSettle' = FALSE
    /\ UNCHANGED <<slots, calls, pending, nextSent, callerVars, slotWaker, claims, nextClaim,
                   handlerVars, claimWaker, faults, panicked, released, asleep>>

\* Loopback::fail_next_settle, the test hook.
FailNextSettle ==
    /\ faults < MaxFaults
    /\ failNextSettle' = TRUE
    /\ faults' = faults + 1
    /\ UNCHANGED <<slots, calls, pending, nextSent, callerVars, slotWaker, claims, nextClaim,
                   handlerVars, claimWaker, panicked, released, asleep>>

\* Mutant: a returned call goes to the back of the queue.
InsertBySentAtBack(queue, k) == Append(queue, k.correlation)

\* HandlerHandle's Drop and Store::close_handler.  A returned call goes back to
\* its place by send order (partition_point), and the handlers that serve it
\* are woken.
InsertBySent(queue, k) ==
    LET before == {p \in DOMAIN queue : calls[SlotOf(queue[p])].sent < k.sent}
    IN  InsertAt(queue, Cardinality(before) + 1, k.correlation)

\* Mutant: a returned call wakes no other handler.
ReturnWakesNobody(h, returned) == {}

\* The handlers a returned call waits for now.
ReturnWakes(h, returned) == {g \in handlers \ {h} : \E k \in returned : Serves(g, k.member)}

CloseHandler(h) ==
    LET has(i) == calls[i] # NoCall
        returned == {calls[i] : i \in {j \in Slots : has(j) /\ Returns(h, calls[j])}}
        withdrawn == {calls[i].correlation : i \in
                        {j \in Slots : /\ has(j) /\ HeldBy(h, calls[j])
                                       /\ Offered(calls[j]) /\ calls[j].forgotten}}
        queue[id \in 0 .. MaxSends] ==  \* the claims held are gone through by their ids
            IF id = 0 THEN Without(pending, withdrawn)
            ELSE IF \E k \in returned : k.claim = id
                 THEN InsertBySent(queue[id - 1], CHOOSE k \in returned : k.claim = id)
                 ELSE queue[id - 1]
        woken == ReturnWakes(h, returned)
    IN  /\ h \in handlers
        /\ handlers' = handlers \ {h}
        /\ Apply([i \in Slots |-> CloseHandlerCell(Cell(i), h)], ClaimWaiters(woken \cup {h}))
        /\ claims' = [id \in ClaimIds |->
                        IF claims[id] # NoOwner /\ claims[id].handler = h THEN NoOwner
                        ELSE claims[id]]
        /\ pending' = queue[MaxSends]
        /\ served' = [served EXCEPT ![h] = {}]
        /\ claimWaker' = [g \in Handlers |->
                            IF g \in woken \cup {h} THEN NoWaker ELSE claimWaker[g]]
        /\ UNCHANGED <<nextSent, callerVars, nextClaim, nextHandler, faultVars, released>>

-----------------------------------------------------------------------------
(***************************************************************************)
(* Registrations (Wakeable::wake_on).  A waker the store does not keep is  *)
(* woken at once and its task does not sleep.                              *)
(***************************************************************************)
Wakers == Tasks \ {Noop}

\* Store::wait_outcome
WaitOutcome(c, task) ==
    /\ callers # {}
    /\ Known(c)
    /\ ~calls[SlotOf(c)].pendingForget
    /\ StoresOutcome(slots[SlotOf(c)], c)
    /\ slots' = [slots EXCEPT ![SlotOf(c)] = WakeOnEntry(@, c, task)]
    /\ asleep' = (asleep \ OutcomeWaiter(slots[SlotOf(c)], c)) \cup {<<"Outcome", c, 0, task>>}
    /\ UNCHANGED <<calls, pending, nextSent, callerVars, slotWaker, claims, nextClaim,
                   handlerVars, claimWaker, faultVars, panicked, released>>

\* Waiters::register, then take when the change is already there: what is
\* stored, and who is asleep afterwards.
Registered(task, ready) == IF ready THEN NoWaker ELSE task
AsleepOn(kind, id, stored, task, ready) ==
    (asleep \ {<<kind, id, 0, stored>>}) \cup (IF ready THEN {} ELSE {<<kind, id, 0, task>>})

\* Store::wait_slot
SlotReady == \E i \in Slots : calls[i] = NoCall
WaitSlot(caller, task) ==
    /\ caller \in callers
    /\ slotWaker' = [slotWaker EXCEPT ![caller] = Registered(task, SlotReady)]
    /\ asleep' = AsleepOn("Slot", caller, slotWaker[caller], task, SlotReady)
    /\ UNCHANGED <<slots, calls, pending, nextSent, callerVars, claims, nextClaim, handlerVars,
                   claimWaker, faultVars, panicked, released>>

\* Store::wait_claim
WaitClaim(h, task) ==
    /\ h \in handlers
    /\ claimWaker' = [claimWaker EXCEPT ![h] = Registered(task, ClaimWaiting(h))]
    /\ asleep' = AsleepOn("Claim", h, claimWaker[h], task, ClaimWaiting(h))
    /\ UNCHANGED <<slots, calls, pending, nextSent, callerVars, slotWaker, claims, nextClaim,
                   handlerVars, faultVars, panicked, released>>

-----------------------------------------------------------------------------
Next ==
    \/ OpenCaller
    \/ OpenHandler
    \/ FailNextSettle
    \/ \E caller \in Callers :
        \/ \E kind \in Kinds, member \in Members : Send(caller, kind, member)
        \/ CloseCaller(caller)
        \/ \E task \in Wakers : WaitSlot(caller, task)
    \/ \E c \in Correlations :
        \/ Forget(c)
        \/ \E task \in Wakers : WaitOutcome(c, task)
    \/ \E h \in Handlers :
        \/ \E member \in Members : Serve(h, member)
        \/ \E fits \in BOOLEAN : NextClaim(h, fits)
        \/ \E id \in ClaimIds :
            \/ \E outcome \in {"Ok", "Err"} : Settle(h, id, outcome)
            \/ SettleFails(h, id)
        \/ CloseHandler(h)
        \/ \E task \in Wakers : WaitClaim(h, task)

Spec == Init /\ [][Next]_vars

-----------------------------------------------------------------------------
StreamType ==
    [named : BOOLEAN, chunks : Seq({"empty", "bytes"}), ended : BOOLEAN,
     stopped : {"No", "Caller", "Provider"}, drained : BOOLEAN, waker : Tasks \cup {NoWaker}]

CallEntry ==
    [correlation : Correlations, caller : Callers, kind : Kinds,
     member : Members, sent : 0 .. MaxSends, forgotten : BOOLEAN,
     claim : ClaimIds \cup {None}, settledBy : Handlers \cup {None},
     streams : [StreamNos -> StreamType], pendingForget : BOOLEAN,
     parametersReleased : BOOLEAN, providerUsedStreams : BOOLEAN]

ClaimOwner == [call : Correlations, handler : Handlers, taken : BOOLEAN]

\* What stands for no entry and no owner is neither.
ASSUME NoneAssumption == NoCall \notin CallEntry /\ NoOwner \notin ClaimOwner

Registrations ==
    {"Outcome", "Stream", "ClaimStream", "Slot", "Claim"} \X Nat \X Nat \X Wakers

TypeOK ==
    /\ slots \in [Slots -> Entry]
    /\ calls \in [Slots -> CallEntry \cup {NoCall}]
    /\ pending \in Seq(Correlations)
    /\ nextSent \in 0 .. MaxSends
    /\ callers \subseteq Callers /\ nextCaller \in 1 .. MaxCallers + 1
    /\ slotWaker \in [Callers -> Wakers \cup {NoWaker}]
    /\ claims \in [ClaimIds -> ClaimOwner \cup {NoOwner}]
    /\ nextClaim \in 1 .. MaxSends + 1
    /\ handlers \subseteq Handlers /\ nextHandler \in 1 .. MaxHandlers + 1
    /\ served \in [Handlers -> SUBSET Members]
    /\ claimWaker \in [Handlers -> Wakers \cup {NoWaker}]
    /\ failNextSettle \in BOOLEAN /\ faults \in 0 .. MaxFaults
    /\ panicked \in BOOLEAN
    /\ released \subseteq Correlations
    /\ asleep \subseteq Registrations

\* No unreachable!, expect or map index of the store fails, whatever the order
\* of sends, claims, settlements, forgets and drops (withdraw, settle,
\* interrupt_claim, forget_in_table).
NoPanic == ~panicked

\* The store keeps an entry for exactly the calls the table holds, under the
\* correlation the table holds them by: slot reuse never mixes two calls.
EntriesMatchTable ==
    \A i \in Slots :
        IF slots[i].state = "Free" THEN calls[i] = NoCall
        ELSE /\ calls[i] # NoCall
             /\ SlotOf(calls[i].correlation) = i
             /\ Held(slots[i], calls[i].correlation)

\* A call in flight is in exactly one place: once among the waiting calls, or
\* taken by an open handler.  A settled one is in neither.
InFlightSomewhere ==
    \A i \in Slots :
        LET k == calls[i]
            places == {p \in DOMAIN pending : pending[p] = k.correlation}
            taken == Claimed(k) /\ Owner(k).taken
        IN  k # NoCall =>
                /\ Claimed(k) => Owner(k).handler \in handlers /\ Owner(k).call = k.correlation
                /\ IF slots[i].state = "Settled" THEN places = {} /\ ~Claimed(k)
                   ELSE IF taken THEN places = {} ELSE Cardinality(places) = 1

\* Every claim on record names a call in flight that still carries its id, so
\* a provider never settles another call through a stale claim.
ClaimsNameCalls ==
    \A id \in ClaimIds :
        claims[id] # NoOwner =>
            /\ Known(claims[id].call)
            /\ calls[SlotOf(claims[id].call)].claim = id
            /\ slots[SlotOf(claims[id].call)].state \in {"InFlight", "Forgotten"}

\* The waiting calls are in send order, a call returned by a dropped handler
\* included, so a handler is always presented the oldest call it serves.
WaitingInSendOrder ==
    \A p, q \in DOMAIN pending :
        p < q => calls[SlotOf(pending[p])].sent < calls[SlotOf(pending[q])].sent

(***************************************************************************)
(* The store is consistent with its table and with itself, whatever the    *)
(* order of sends, claims, short claims, failed settlements, forgets and   *)
(* drops: no lookup that the code expects to succeed fails, an entry is    *)
(* exactly a call of the table, a call is in one place, a claim names the  *)
(* call it was minted for, and the waiting calls are in send order.        *)
(***************************************************************************)
StoreConsistent ==
    /\ TypeOK /\ NoPanic /\ EntriesMatchTable
    /\ InFlightSomewhere /\ ClaimsNameCalls /\ WaitingInSendOrder

\* No slot is lost: each call that holds one has an open caller that has not
\* forgotten it, or an open handler whose settlement, reading or drop will
\* give the slot back (the rule stated on Store::forget and close_caller).
NoSlotLost ==
    \A i \in Slots :
        LET k == calls[i]
        IN  k # NoCall =>
                \/ ~k.forgotten /\ k.caller \in callers
                \/ k.forgotten /\ (Claimed(k) \/ k.settledBy \in handlers)

\* Mutant: reply answers for a call whose forget is deferred.
ReplyDeferred(c) ==
    IF SlotOf(c) \in Slots THEN OutcomeOf(slots[SlotOf(c)], c) ELSE NoOutcome

\* What Caller::ack and Caller::reply answer.
Ack(c) ==
    IF Known(c) /\ ~calls[SlotOf(c)].pendingForget /\ calls[SlotOf(c)].kind = "Command"
    THEN OutcomeOf(slots[SlotOf(c)], c) ELSE NoOutcome
Reply(c) ==
    IF Known(c) /\ calls[SlotOf(c)].pendingForget THEN NoOutcome
    ELSE IF SlotOf(c) \in Slots THEN OutcomeOf(slots[SlotOf(c)], c) ELSE NoOutcome

\* What the caller of c sees of it through the port.
View(c) ==
    CASE Reply(c) # NoOutcome -> [state |-> "Answered", answer |-> Reply(c)]
      [] Reply(c) = NoOutcome /\ c \in released -> [state |-> "Forgotten", answer |-> NoOutcome]
      [] Reply(c) = NoOutcome /\ c \notin released /\ Known(c) ->
            [state |-> "Pending", answer |-> NoOutcome]
      [] OTHER -> [state |-> "Unsent", answer |-> NoOutcome]
Port == INSTANCE CallPort WITH
    Calls <- Correlations, Answers <- Outcomes \ {"Undelivered"}, NoAnswer <- NoOutcome,
    view <- [c \in Correlations |-> View(c)]

\* The store implements the calls of the port: whatever handlers hold, return
\* or drop, no call is lost without an answer, answered twice, changed once
\* answered, or revived or readable once forgotten, a deferred forget included;
\* and nobody ever reads the Undelivered a withdrawal settles with.
PortSpec == Port!Spec

-----------------------------------------------------------------------------
(***************************************************************************)
(* Wakers.                                                                 *)
(***************************************************************************)
\* The waker of registration r is where the store keeps it.
Stored(r) ==
    LET id == r[2] s == r[3] task == r[4]
    IN  CASE r[1] = "Slot"    -> slotWaker[id] = task
          [] r[1] = "Claim"   -> claimWaker[id] = task
          [] r[1] = "Outcome" -> Known(id) /\ slots[SlotOf(id)].waker = task
          [] r[1] = "Stream"  -> Known(id) /\ slots[SlotOf(id)].streams[s] = task
          [] r[1] = "ClaimStream" ->
                \E i \in Slots : /\ calls[i] # NoCall /\ calls[i].claim = id
                                 /\ calls[i].streams[s].waker = task

\* A task asleep on a registration has its waker in the store: none is
\* overwritten, dropped with an entry or left on a reused slot.
NoLostWaker == \A r \in asleep : Stored(r)

\* What the registration waits for has not happened: the task's read would
\* answer that there is nothing yet.  LoopbackStreams has the stream kinds.
Blocked(r) ==
    LET id == r[2]
    IN  CASE r[1] = "Slot"  -> ~SlotReady
          [] r[1] = "Claim" -> ~ClaimWaiting(id)
          [] r[1] = "Outcome" ->
                Known(id) /\ ~calls[SlotOf(id)].forgotten /\ slots[SlotOf(id)].state = "InFlight"
          [] OTHER -> FALSE

\* A change a task waits for wakes it: no slot freed, call queued or returned,
\* outcome recorded or call forgotten leaves its waiter asleep (the contract
\* of Wakeable: register, then read).
WakeOnChange ==
    [][\A r \in asleep : Blocked(r) /\ ~Blocked(r)' => r \notin asleep']_vars
==============================================================================
