------------------------------ MODULE Correlate ------------------------------
(***************************************************************************)
(* One slot of ridl_rt::correlate::Table, the caller-side call table every *)
(* runtime with asynchronous replies keeps (crates/ridl-rt/src/correlate.rs).*)
(*                                                                         *)
(* A slot is a record; every operation of the table changes one slot, so   *)
(* each is given here as the slot it leaves behind.  CallTable.tla drives  *)
(* a whole table with these operators, and LoopbackCalls.tla uses the same *)
(* operators for the table inside the loopback store.                      *)
(*                                                                         *)
(* A waker is represented by the task it wakes: Waker::will_wake is        *)
(* equality of tasks.                                                      *)
(***************************************************************************)
EXTENDS Naturals, FiniteSets

CONSTANTS
    SlotSpan,      \* 2^16: the slot indices a correlation has room for
    GenSpan,       \* 2^48: the generations a correlation has room for
    StreamWakers,  \* STREAM_WAKERS: the stream wakers one slot stores
    StreamNos,     \* the stream numbers tasks register on
    Tasks,         \* the tasks whose wakers are stored
    Outcomes,      \* the Result<(), CallError> values a call settles with
    NoWaker, NoOutcome

ASSUME SpanAssumption == SlotSpan \in Nat \ {0} /\ GenSpan \in Nat \ {0}
ASSUME WakerAssumption == StreamWakers \in Nat /\ NoWaker \notin Tasks
ASSUME OutcomeAssumption == NoOutcome \notin Outcomes

(***************************************************************************)
(* Correlation((generation << SLOT_BITS) | slot) and its two halves.       *)
(***************************************************************************)
Correlation(generation, index) == generation * SlotSpan + index
SlotOf(c) == c % SlotSpan
GenerationOf(c) == c \div SlotSpan

NoStreams == [s \in StreamNos |-> NoWaker]

(***************************************************************************)
(* State::Free, InFlight { forgotten: false }, InFlight { forgotten: true }*)
(* and Settled(outcome), the outcome kept beside it.                       *)
(***************************************************************************)
States == {"Free", "InFlight", "Forgotten", "Settled"}

Entry ==
    [generation : 0 .. GenSpan - 1,
     state : States,
     outcome : Outcomes \cup {NoOutcome},
     reservation : Nat,
     waker : Tasks \cup {NoWaker},
     streams : [StreamNos -> Tasks \cup {NoWaker}]]

FreeEntry ==
    [generation |-> 0, state |-> "Free", outcome |-> NoOutcome,
     reservation |-> 0, waker |-> NoWaker, streams |-> NoStreams]

\* Table::held: the slot of c holds a call under c's generation.
Held(e, c) == e.generation = GenerationOf(c) /\ e.state # "Free"

\* Table::insert, on the free slot it found.
Inserted(e, reservation) ==
    [e EXCEPT !.state = "InFlight", !.reservation = reservation,
              !.streams = NoStreams]

\* Mutant: the generation is not advanced.
ReclaimedSameGeneration(e) ==
    [e EXCEPT !.state = "Free", !.outcome = NoOutcome, !.reservation = 0, !.waker = NoWaker]

\* Table::reclaim, without the credit to the budget.  The stream wakers stay
\* for take_streams.
Reclaimed(e) ==
    [e EXCEPT !.state = "Free", !.outcome = NoOutcome, !.reservation = 0,
              !.waker = NoWaker, !.generation = (@ + 1) % GenSpan]

\* Mutants: a settlement ignores the forgotten mark; a second one is recorded.
SettleAnswerForgottenRecorded(e, c) ==
    IF Held(e, c) /\ e.state \in {"InFlight", "Forgotten"} THEN "Recorded" ELSE "Unknown"
SettleAnswerTwice(e, c) ==
    IF ~Held(e, c) THEN "Unknown"
    ELSE IF e.state = "Forgotten" THEN "Reclaimed" ELSE "Recorded"

\* What Table::settle answers: Recorded, Reclaimed or Unknown.
SettleAnswer(e, c) ==
    IF ~Held(e, c) THEN "Unknown"
    ELSE CASE e.state = "InFlight"  -> "Recorded"
           [] e.state = "Forgotten" -> "Reclaimed"
           [] OTHER                 -> "Unknown"

\* Table::settle: the first settlement is recorded and its waker handed back;
\* that of a forgotten call reclaims the slot.
SettleEntry(e, c, outcome) ==
    CASE SettleAnswer(e, c) = "Recorded" ->
            [e EXCEPT !.state = "Settled", !.outcome = outcome, !.waker = NoWaker]
      [] SettleAnswer(e, c) = "Reclaimed" -> Reclaimed(e)
      [] OTHER -> e

\* What Table::forget answers: Reclaimed, Marked or Unknown.
ForgetAnswer(e, c) ==
    IF ~Held(e, c) THEN "Unknown"
    ELSE CASE e.state = "Settled"  -> "Reclaimed"
           [] e.state = "InFlight" -> "Marked"
           [] OTHER                -> "Unknown"

\* Table::forget: a settled call's slot is free at once, a call in flight is
\* marked and its outcome waker handed back.
ForgetEntry(e, c) ==
    CASE ForgetAnswer(e, c) = "Reclaimed" -> Reclaimed(e)
      [] ForgetAnswer(e, c) = "Marked" ->
            [e EXCEPT !.state = "Forgotten", !.waker = NoWaker]
      [] OTHER -> e

\* Table::outcome.
OutcomeOf(e, c) ==
    IF Held(e, c) /\ e.state = "Settled" THEN e.outcome ELSE NoOutcome

\* Mutant: a waker is stored for a call that is settled already.
StoresOutcomeSettled(e, c) == Held(e, c) /\ e.state \in {"InFlight", "Settled"}

\* Table::wake_on stores the waker only while an outcome is still to come;
\* otherwise it hands the waker straight back.
StoresOutcome(e, c) == Held(e, c) /\ e.state = "InFlight"
WakeOnEntry(e, c, task) ==
    IF StoresOutcome(e, c) THEN [e EXCEPT !.waker = task] ELSE e

\* Table::wake_on_stream stores one waker for each stream of a call that is
\* not forgotten, a settled one too, in at most STREAM_WAKERS cells.
StreamsStored(e) == {s \in StreamNos : e.streams[s] # NoWaker}
StoresStream(e, c, s) ==
    /\ Held(e, c)
    /\ e.state \in {"InFlight", "Settled"}
    /\ s \in StreamsStored(e) \/ Cardinality(StreamsStored(e)) < StreamWakers
WakeOnStreamEntry(e, c, s, task) ==
    IF StoresStream(e, c, s) THEN [e EXCEPT !.streams[s] = task] ELSE e

\* Table::take_stream and Table::take_streams.
TakeStreamEntry(e, c, s) ==
    IF Held(e, c) THEN [e EXCEPT !.streams[s] = NoWaker] ELSE e
TakeStreamsEntry(e) == [e EXCEPT !.streams = NoStreams]
==============================================================================
