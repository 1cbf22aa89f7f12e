---------------------------- MODULE LoopbackEvents ----------------------------
(***************************************************************************)
(* The event half of the loopback runtime (crates/ridl-loopback): each     *)
(* source handle has a subscription set, a queue of its own and one waker; *)
(* a sink raises an occurrence into the queue of every source subscribed   *)
(* at that moment, under a sequence number of its own counters.            *)
(*                                                                         *)
(* Left out: payload bytes, stamps and trace contexts.  A buffer too short *)
(* and an occurrence over the event's limit change nothing.                *)
(***************************************************************************)
EXTENDS Naturals, Sequences, FiniteSets

CONSTANTS
    Events,      \* the (interface, ordinal) keys events are raised under
    Sinks,       \* the sink handles
    MaxSources,  \* bound: source handles opened over a run
    MaxRaises,   \* bound: occurrences one sink raises of one event
    Tasks, NoWaker

ASSUME EventAssumption ==
    MaxSources \in Nat /\ MaxRaises \in Nat /\ NoWaker \notin Tasks

Sources == 1 .. MaxSources

VARIABLES
    sources,     \* the ids of Store::sources
    nextSource,  \* Store::next_source_id
    subscribed,  \* SourceState::subscribed
    queue,       \* SourceState::queue
    waker,       \* SourceState::waiters, the Interest::Event waker
    raised,      \* each SinkHandle::seqs
    read,        \* history: the last occurrence of each channel a subscription is past
    asleep       \* history: registrations <<source, task>> not woken yet

eventVars == <<sources, nextSource, subscribed, queue, waker, raised, read, asleep>>

EventsInit ==
    /\ sources = {} /\ nextSource = 1
    /\ subscribed = [id \in Sources |-> {}]
    /\ queue = [id \in Sources |-> <<>>]
    /\ waker = [id \in Sources |-> NoWaker]
    /\ raised = [k \in Sinks |-> [event \in Events |-> 0]]
    /\ read = [id \in Sources |-> [k \in Sinks |-> [event \in Events |-> 0]]]
    /\ asleep = {}

OpenSource ==
    /\ nextSource <= MaxSources
    /\ sources' = sources \cup {nextSource}
    /\ nextSource' = nextSource + 1
    /\ UNCHANGED <<subscribed, queue, waker, raised, read, asleep>>

\* SourceHandle's Drop and Store::close_source.  The waker is dropped, not
\* woken: no task can read the source any more.
CloseSource(id) ==
    /\ id \in sources
    /\ sources' = sources \ {id}
    /\ subscribed' = [subscribed EXCEPT ![id] = {}]
    /\ queue' = [queue EXCEPT ![id] = <<>>]
    /\ waker' = [waker EXCEPT ![id] = NoWaker]
    /\ asleep' = {r \in asleep : r[1] # id}
    /\ UNCHANGED <<nextSource, raised, read>>

\* Store::subscribe: a new subscription is owed what is raised from now on.
Subscribe(id, events) ==
    /\ id \in sources
    /\ subscribed' = [subscribed EXCEPT ![id] = @ \cup events]
    /\ read' = [read EXCEPT ![id] = [k \in Sinks |-> [event \in Events |->
                    IF event \in events \ subscribed[id] THEN raised[k][event] ELSE @[k][event]]]]
    /\ UNCHANGED <<sources, nextSource, queue, waker, raised, asleep>>

\* Mutant: what is queued stays queued.
StillSubscribedAll(o, events) == TRUE

\* Store::unsubscribe drops what is queued for the events that leave.
StillSubscribed(o, events) == o.event \in events
\* What a queue keeps when only `events` are subscribed, in its order.
KeptOf(q, events) == {i \in DOMAIN q : StillSubscribed(q[i], events)}
Place(q, events, i) == Cardinality({j \in KeptOf(q, events) : j <= i})
Filtered(q, events) ==
    [n \in 1 .. Cardinality(KeptOf(q, events)) |->
        q[CHOOSE i \in KeptOf(q, events) : Place(q, events, i) = n]]
Unsubscribe(id, events) ==
    /\ id \in sources
    /\ subscribed' = [subscribed EXCEPT ![id] = @ \ events]
    /\ queue' = [queue EXCEPT ![id] = Filtered(@, subscribed[id] \ events)]
    /\ UNCHANGED <<sources, nextSource, waker, raised, read, asleep>>

\* SinkHandle::raise and Store::raise: every source subscribed now has the
\* occurrence queued and its waker woken.
Listening(event) == {id \in sources : event \in subscribed[id]}
Woken(ids) == [id \in Sources |-> IF id \in ids THEN NoWaker ELSE waker[id]]
NextSeq(k, event) == raised[k][event] + 1
Raise(k, event) ==
    LET o == [sink |-> k, event |-> event, seq |-> NextSeq(k, event)]
        to == Listening(event)
    IN  /\ raised[k][event] < MaxRaises
        /\ raised' = [raised EXCEPT ![k][event] = @ + 1]
        /\ queue' = [id \in Sources |-> IF id \in to THEN Append(queue[id], o) ELSE queue[id]]
        /\ waker' = Woken(to)
        /\ asleep' = asleep \ {<<id, waker[id]>> : id \in to}
        /\ UNCHANGED <<sources, nextSource, subscribed, read>>

\* Store::next_event, with a buffer long enough.
NextEvent(id) ==
    /\ id \in sources
    /\ queue[id] # <<>>
    /\ queue' = [queue EXCEPT ![id] = Tail(@)]
    /\ read' = [read EXCEPT ![id][Head(queue[id]).sink][Head(queue[id]).event] =
                    Head(queue[id]).seq]
    /\ UNCHANGED <<sources, nextSource, subscribed, waker, raised, asleep>>

\* Store::wait_event: a displaced waker is woken, and the new one at once
\* when an occurrence is queued already.
Ready(id) == queue[id] # <<>>
WaitEvent(id, task) ==
    /\ id \in sources
    /\ waker' = [waker EXCEPT ![id] = IF Ready(id) THEN NoWaker ELSE task]
    /\ asleep' = (asleep \ {<<id, waker[id]>>}) \cup (IF Ready(id) THEN {} ELSE {<<id, task>>})
    /\ UNCHANGED <<sources, nextSource, subscribed, queue, raised, read>>

EventsNext ==
    \/ OpenSource
    \/ \E id \in Sources :
        \/ CloseSource(id)
        \/ NextEvent(id)
        \/ \E events \in SUBSET Events : Subscribe(id, events) \/ Unsubscribe(id, events)
        \/ \E task \in Tasks : WaitEvent(id, task)
    \/ \E k \in Sinks, event \in Events : Raise(k, event)

EventsSpec == EventsInit /\ [][EventsNext]_eventVars

-----------------------------------------------------------------------------
\* A source has queued, in order and once each, exactly the occurrences a sink
\* raised since the subscription began and the source has not read: nothing
\* of another subscription, nothing retroactive, no gap in seq where nothing
\* was lost, whatever else the source subscribes to and drops.
Due(q, k, event) ==
    {q[i].seq : i \in {j \in DOMAIN q : q[j].sink = k /\ q[j].event = event}}
InOrder(q) ==
    \A i, j \in DOMAIN q :
        i < j /\ q[i].sink = q[j].sink /\ q[i].event = q[j].event => q[i].seq < q[j].seq
QueuedIsOwed ==
    \A id \in sources :
        /\ InOrder(queue[id])
        /\ \A k \in Sinks, event \in Events :
              Due(queue[id], k, event) =
                 IF event \in subscribed[id]
                 THEN (read[id][k][event] + 1) .. raised[k][event]
                 ELSE {}

\* A task asleep on a source has its waker stored there and nothing to read:
\* no raise, displacement or read leaves it asleep over a queued occurrence.
SleepsOverNothing ==
    \A r \in asleep : waker[r[1]] = r[2] /\ queue[r[1]] = <<>>

\* What is owed to a subscriber is queued, in order, and its task is awake
\* for it.
OwedAndAwake == QueuedIsOwed /\ SleepsOverNothing
==============================================================================
