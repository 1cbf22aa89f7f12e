----------------------------- MODULE WsSignals ------------------------------
(***************************************************************************)
(* The signals of one interface over one connection: the server session    *)
(* (session.rs: subscribe, unsubscribe, read, poll_signals,                *)
(* publish_signal, scan_changes) and the TypeScript client (session.ts:    *)
(* subscribe, unsubscribe, read, #onAnswer, #onPublish), while the         *)
(* provider commits between any two steps of either.                       *)
(*                                                                         *)
(* A subscribe sets the mark and then fetches, and a tick scans and then   *)
(* fetches each signal: those are steps of their own, because the provider *)
(* may commit between them.  A sample is its version, 0 the initial one,   *)
(* so that two samples are equal in every field when their versions are.   *)
(* A frame remembers in `for` the operation the server sent it for, which  *)
(* the wire does not carry and the client does not look at.                *)
(***************************************************************************)
EXTENDS Integers, FiniteSets, Sequences, SequencesExt

CONSTANTS
    Signals,      \* the signals the provider serves, as ordinals
    Unserved,     \* signals of the table the provider refuses to read
    Sizes,        \* whether a committed value may be over the member's limit
    Modes,        \* {"scanning"}, {"polling"} or both
    Asks,         \* the operations the client may start, as <<form, signal>>
    MaxCommits,   \* bound on the commits of a run
    MaxOps        \* bound on the operations of the client

ASSUME WsSignalsAssumption ==
    /\ Signals \cup Unserved \subseteq Nat \ {0}
    /\ Signals \cap Unserved = {}
    /\ Sizes \subseteq BOOLEAN /\ FALSE \in Sizes
    /\ Modes \subseteq {"scanning", "polling"}
    /\ Asks \subseteq {"subscribe", "unsubscribe", "read"} \X (Signals \cup Unserved)
    /\ {MaxCommits, MaxOps} \subseteq Nat

All == Signals \cup Unserved

VARIABLES
    mode,         \* Backend::scannable: whether changes can be scanned
    value,        \* the provider's samples: version and size
    changedAt,    \* the generation of each signal's last commit
    generation,   \* the generation of the interface
    subscribed,   \* SignalChannel::subscribed
    channel,      \* SignalChannel::counter and last, for the channels there are
    mark,         \* the watermark of the interface, or -1
    job,          \* the handler under way between two of its steps
    toServer, toClient,
    ops,          \* operations the client has started
    waiting,      \* #waiting, per signal
    signals,      \* #signals
    held,         \* #held
    early,        \* history: a publish settled a read it was not sent for
    crossed       \* history: an answer settled another operation than its own

backendVars == <<mode, value, changedAt, generation>>
sessionVars == <<subscribed, channel, mark, job>>
clientVars == <<ops, waiting, signals, held, early, crossed>>
signalsVars == <<backendVars, sessionVars, toServer, toClient, clientVars>>

Idle == [op |-> "none"]
With(f, k, v) == [x \in DOMAIN f \cup {k} |-> IF x = k THEN v ELSE f[x]]
Drop(f, k) == [x \in DOMAIN f \ {k} |-> f[x]]

SignalsInit ==
    /\ mode \in Modes
    /\ value = [s \in Signals |-> [version |-> 0, big |-> FALSE]]
    /\ changedAt = [s \in Signals |-> 0]
    /\ generation = 0
    /\ subscribed = {}
    /\ channel = <<>>
    /\ mark = -1
    /\ job = Idle
    /\ toServer = <<>>
    /\ toClient = <<>>
    /\ ops = 0
    /\ waiting = [s \in All |-> <<>>]
    /\ signals = {}
    /\ held = <<>>
    /\ early = FALSE
    /\ crossed = FALSE

\* The provider commits a new value of a signal (external to the session).
Commit(s, big) ==
    /\ generation < MaxCommits
    /\ generation' = generation + 1
    /\ value' = [value EXCEPT ![s] = [version |-> generation + 1, big |-> big]]
    /\ changedAt' = [changedAt EXCEPT ![s] = generation + 1]
    /\ UNCHANGED <<mode, sessionVars, toServer, toClient, clientVars>>

-----------------------------------------------------------------------------
(* The server session. *)

AcceptedFor(s, id) == [form |-> "accepted", signal |-> s, for |-> id]
RefusedFor(s, id)  == [form |-> "refused", signal |-> s, for |-> id]

\* Session::fetch_signal.
Fetch(s) == IF s \in Unserved THEN "contract" ELSE IF value[s].big THEN "too large" ELSE "sample"

\* Session::publish_signal: the frame and the channel after it.  The seq is 0
\* under Init, the last one for the sample sent last unless `fresh`, and the
\* next one otherwise.
Channel(s) == IF s \in DOMAIN channel THEN channel[s] ELSE [counter |-> 0, last |-> -1]

\* Mutant: only a scanned change takes the next seq.
SeqOnScanOnly(s, fresh) ==
    IF value[s].version = 0 THEN 0
    ELSE IF ~fresh /\ Channel(s).counter > 0 THEN Channel(s).counter
    ELSE Channel(s).counter + 1

PublishSeq(s, fresh) ==
    LET v == value[s].version
        ch == Channel(s)
    IN  IF v = 0 THEN 0
        ELSE IF ~fresh /\ ch.last = v THEN ch.counter
        ELSE ch.counter + 1

PublishFrame(s, fresh, id) ==
    [form |-> "publish", signal |-> s, seq |-> PublishSeq(s, fresh),
     version |-> value[s].version, for |-> id]

\* An initial sample makes no channel where there is none.
Published(s, fresh, isNew) ==
    IF value[s].version = 0 /\ ~isNew /\ s \notin DOMAIN channel THEN channel
    ELSE With(channel, s, [counter |-> IF value[s].version = 0 THEN Channel(s).counter
                                       ELSE PublishSeq(s, fresh),
                           last |-> value[s].version])

Handle(form) ==
    /\ job = Idle
    /\ toServer # <<>>
    /\ Head(toServer).form = form
    /\ toServer' = Tail(toServer)

\* Mutant: each subscribe marks the interface anew.
SubscribeRemarks ==
    LET s == Head(toServer).signal
        id == Head(toServer).id
    IN  /\ Handle("subscribe")
        /\ IF s \in subscribed
           THEN /\ toClient' = Append(toClient, AcceptedFor(s, id))
                /\ UNCHANGED <<mark, job>>
           ELSE /\ mark' = IF mode = "scanning" THEN generation ELSE mark
                /\ job' = [op |-> "subscribe", signal |-> s, id |-> id,
                           marked |-> mode = "scanning" /\ mark = -1]
                /\ UNCHANGED toClient
        /\ UNCHANGED <<backendVars, subscribed, channel, clientVars>>

\* Session::subscribe_signal, to the mark.
Subscribe ==
    LET s == Head(toServer).signal
        id == Head(toServer).id
    IN  /\ Handle("subscribe")
        /\ IF s \in subscribed
           THEN /\ toClient' = Append(toClient, AcceptedFor(s, id))
                /\ UNCHANGED <<mark, job>>
           ELSE /\ mark' = IF mode = "scanning" /\ mark = -1 THEN generation ELSE mark
                /\ job' = [op |-> "subscribe", signal |-> s, id |-> id,
                           marked |-> mode = "scanning" /\ mark = -1]
                /\ UNCHANGED toClient
        /\ UNCHANGED <<backendVars, subscribed, channel, clientVars>>

\* Session::subscribe_signal, from the fetch.
SubscribeFetched ==
    LET s == job.signal
        id == job.id
    IN  /\ job.op = "subscribe"
        /\ job' = Idle
        /\ CASE Fetch(s) = "contract" ->
                  /\ mark' = IF job.marked THEN -1 ELSE mark
                  /\ toClient' = Append(toClient, RefusedFor(s, id))
                  /\ UNCHANGED <<subscribed, channel>>
             [] Fetch(s) = "sample" ->
                  /\ subscribed' = subscribed \cup {s}
                  /\ channel' = Published(s, FALSE, TRUE)
                  /\ toClient' = toClient \o <<AcceptedFor(s, id), PublishFrame(s, FALSE, 0)>>
                  /\ UNCHANGED mark
             [] Fetch(s) = "too large" ->
                  /\ subscribed' = subscribed \cup {s}
                  /\ channel' = With(channel, s, Channel(s))
                  /\ toClient' = Append(toClient, AcceptedFor(s, id))
                  /\ UNCHANGED mark
        /\ UNCHANGED <<backendVars, toServer, clientVars>>

\* Session::unsubscribe: the mark goes with the last subscription.
Unsubscribe ==
    /\ Handle("unsubscribe")
    /\ subscribed' = subscribed \ {Head(toServer).signal}
    /\ mark' = IF subscribed' = {} THEN -1 ELSE mark
    /\ UNCHANGED <<backendVars, channel, job, toClient, clientVars>>

\* Mutant: a read of a value over the limit is not answered.
ReadSilent ==
    LET s == Head(toServer).signal
        id == Head(toServer).id
    IN  /\ Handle("read")
        /\ IF Fetch(s) = "sample"
           THEN /\ channel' = Published(s, FALSE, FALSE)
                /\ toClient' = Append(toClient, PublishFrame(s, FALSE, id))
           ELSE /\ toClient' = IF Fetch(s) = "contract" THEN Append(toClient, RefusedFor(s, id))
                               ELSE toClient
                /\ UNCHANGED channel
        /\ UNCHANGED <<backendVars, subscribed, mark, job, clientVars>>

\* Session::read.
Read ==
    LET s == Head(toServer).signal
        id == Head(toServer).id
    IN  /\ Handle("read")
        /\ IF Fetch(s) = "sample"
           THEN /\ channel' = Published(s, FALSE, FALSE)
                /\ toClient' = Append(toClient, PublishFrame(s, FALSE, id))
           ELSE /\ toClient' = Append(toClient, RefusedFor(s, id))
                /\ UNCHANGED channel
        /\ UNCHANGED <<backendVars, subscribed, mark, job, clientVars>>

Polling(left) == IF left = {} THEN Idle ELSE [op |-> "poll", left |-> left]

\* Session::scan_changes: the subscribed signals with a later commit than the
\* mark, which catches up; without a scan, every subscribed signal.
StartPoll ==
    /\ job = Idle
    /\ IF mode = "scanning"
       THEN /\ mark # -1 /\ mark < generation
            /\ mark' = generation
            /\ job' = Polling({s \in subscribed : changedAt[s] > mark})
       ELSE /\ subscribed # {}
            /\ job' = Polling(subscribed)
            /\ UNCHANGED mark
    /\ UNCHANGED <<backendVars, subscribed, channel, toServer, toClient, clientVars>>

\* Session::poll_signals, one signal; in ordinal order.
PollSignal ==
    LET s == CHOOSE x \in job.left : \A y \in job.left : x <= y
        fresh == mode = "scanning"
    IN  /\ job.op = "poll"
        /\ job' = Polling(job.left \ {s})
        /\ IF Fetch(s) = "sample" /\ (fresh \/ Channel(s).last # value[s].version)
           THEN /\ channel' = Published(s, fresh, TRUE)
                /\ toClient' = Append(toClient, PublishFrame(s, fresh, 0))
           ELSE UNCHANGED <<channel, toClient>>
        /\ UNCHANGED <<backendVars, subscribed, mark, toServer, clientVars>>

-----------------------------------------------------------------------------
(* The client. *)

Send(form, s, w) ==
    /\ <<form, s>> \in Asks /\ ops < MaxOps
    /\ ops' = ops + 1
    /\ toServer' = Append(toServer, [form |-> form, signal |-> s, id |-> ops + 1])
    /\ waiting' = w
    /\ UNCHANGED <<backendVars, sessionVars, toClient, early, crossed>>

Enqueue(s, op) == [waiting EXCEPT ![s] = Append(@, [op |-> op, id |-> ops + 1, dropped |-> FALSE])]

ClientSubscribe(s) == Send("subscribe", s, Enqueue(s, "subscribe")) /\ UNCHANGED <<signals, held>>
ClientRead(s)      == Send("read", s, Enqueue(s, "read")) /\ UNCHANGED <<signals, held>>

\* A subscribe still waiting is answered, but subscribes nothing.
Dropped(asked) ==
    [i \in DOMAIN asked |-> [asked[i] EXCEPT !.dropped = @ \/ asked[i].op = "subscribe"]]

ClientUnsubscribe(s) ==
    /\ Send("unsubscribe", s, [waiting EXCEPT ![s] = Dropped(@)])
    /\ signals' = signals \ {s}
    /\ held' = Drop(held, s)

\* Session.#onAnswer.
OnAnswer(f) ==
    LET s == f.signal
        asked == waiting[s]
        used == asked # <<>> /\ (f.form = "refused" \/ Head(asked).op = "subscribe")
    IN  /\ f.form \in {"accepted", "refused"}
        /\ waiting' = IF used THEN [waiting EXCEPT ![s] = Tail(asked)] ELSE waiting
        /\ signals' = IF used /\ f.form = "accepted" /\ ~Head(asked).dropped
                      THEN signals \cup {s} ELSE signals
        /\ crossed' = (crossed \/ (used /\ Head(asked).id # f.for))
        /\ UNCHANGED <<held, early>>

\* Session.#takeReads.
AfterReads(asked) == SelectInSeq(asked, LAMBDA w : w.op # "read")
TakeReads(asked) == IF AfterReads(asked) = 0 THEN <<>> ELSE SubSeq(asked, AfterReads(asked), Len(asked))

\* Session.#onPublish: every read at the head is settled, and the sample is
\* held when the signal is subscribed and the seq is above the held one's.
OnPublish(f) ==
    LET s == f.signal
        later == s \notin DOMAIN held \/ f.seq > held[s].seq
    IN  /\ f.form = "publish"
        /\ waiting' = [waiting EXCEPT ![s] = TakeReads(@)]
        /\ held' = IF s \in signals /\ later
                   THEN With(held, s, [seq |-> f.seq, version |-> f.version]) ELSE held
        /\ early' = (early \/ \E i \in 1..(Len(waiting[s]) - Len(TakeReads(waiting[s]))) :
                                 waiting[s][i].id # f.for)
        /\ UNCHANGED <<signals, crossed>>

ClientReceive ==
    /\ toClient # <<>>
    /\ OnAnswer(Head(toClient)) \/ OnPublish(Head(toClient))
    /\ toClient' = Tail(toClient)
    /\ UNCHANGED <<backendVars, sessionVars, toServer, ops>>

-----------------------------------------------------------------------------
Session == \/ Subscribe \/ SubscribeFetched \/ Unsubscribe \/ Read
           \/ StartPoll \/ PollSignal

SignalsNext ==
    \/ \E s \in Signals, big \in Sizes : Commit(s, big)
    \/ \E s \in All : ClientSubscribe(s) \/ ClientUnsubscribe(s) \/ ClientRead(s)
    \/ Session
    \/ ClientReceive

\* The connection's loop turns to the messages and to the tick again and
\* again; neither starves the other.
SignalsFairness ==
    /\ WF_signalsVars(ClientReceive)
    /\ WF_signalsVars(SubscribeFetched) /\ WF_signalsVars(PollSignal)
    /\ SF_signalsVars(Subscribe \/ Unsubscribe \/ Read)
    /\ SF_signalsVars(StartPoll)

SignalsSpec == SignalsInit /\ [][SignalsNext]_signalsVars /\ SignalsFairness

-----------------------------------------------------------------------------
Quiet == toServer = <<>> /\ toClient = <<>> /\ job = Idle

\* A session seq above 0 names one sample of its signal, in the frames under
\* way and in what the client holds: the client drops an equal seq unseen.
SameSeqSameSample ==
    \A i, j \in DOMAIN toClient :
       LET f == toClient[i]
           g == toClient[j]
       IN  f.form = "publish" =>
             /\ g.form = "publish" /\ f.signal = g.signal /\ f.seq = g.seq =>
                  f.version = g.version
             /\ f.signal \in DOMAIN held /\ f.seq = held[f.signal].seq =>
                  f.version = held[f.signal].version

(***************************************************************************)
(* The two ends agree on the subscriptions once nothing is under way, after *)
(* any sequence of subscribes and unsubscribes that crossed their answers; *)
(* and the interface is marked exactly while something is subscribed.      *)
(***************************************************************************)
SubscriptionsAgree ==
    /\ Quiet => signals \subseteq subscribed
    /\ Quiet /\ ~crossed => signals = subscribed
    /\ mode = "scanning" /\ job = Idle => (mark # -1 <=> subscribed # {})

(***************************************************************************)
(* An answer settles the operation it was sent for, as long as no publish  *)
(* has settled a read that it was not sent for: answers carry no           *)
(* correlation, and the client gives each to the head of its queue.  After *)
(* such a publish the read's own refusal may reject the next operation.    *)
(***************************************************************************)
AnswersExact == crossed => early

\* The two ends agree on what a seq stands for, on what is subscribed and on
\* the operation an answer is for.
EndsAgree == SameSeqSameSample /\ SubscriptionsAgree /\ AnswersExact

\* Every subscribe and every read of the client is settled, by its own answer
\* or by a publish that came first.
OperationsSettle == \A s \in All : []<>(waiting[s] = <<>>)

(***************************************************************************)
(* Once the provider and the client rest, the client holds the latest      *)
(* sample of every signal it is subscribed to: no commit slips between the *)
(* mark, the scan and the fetches.  An answer that settled the wrong       *)
(* operation (see AnswersExact) is excepted: a subscribe rejected that     *)
(* way, and asked for again, is accepted with no publish, and the client   *)
(* holds nothing until the next commit.                                    *)
(***************************************************************************)
HeldConverges ==
    <>[](crossed \/ \A s \in signals :
            value[s].big \/ (s \in DOMAIN held /\ held[s].version = value[s].version))
=============================================================================
