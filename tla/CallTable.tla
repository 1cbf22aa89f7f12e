------------------------------ MODULE CallTable ------------------------------
(***************************************************************************)
(* ridl_rt::correlate::Table<N> under any sequence of calls a runtime can  *)
(* make of it, stale and made-up correlations included.  A runtime holds   *)
(* its lock across settle or forget and the take_streams that must follow  *)
(* (the contract on Settled and Forgotten), so the pair is one action.     *)
(***************************************************************************)
EXTENDS Correlate, FiniteSetsExt

CONSTANTS
    N,             \* the slots of the table
    Reservations,  \* the byte counts a runtime reserves for a call
    Budgets,       \* the byte budgets a table is built with, or NoBudget
    NoBudget,
    OutcomeKey,    \* the key of a registration on the outcome, beside StreamNos
    BudgetMax,     \* u64::MAX, where the credit at reclaim saturates
    MaxLives       \* bound: reclaims of one slot, at most one generation cycle

ASSUME TableAssumption == N \in Nat \ {0} /\ N <= SlotSpan
ASSUME KeyAssumption == OutcomeKey \notin StreamNos
ASSUME BudgetAssumption ==
    /\ Reservations \subseteq Nat
    /\ BudgetMax \in Nat
    /\ NoBudget \notin 0 .. BudgetMax
    /\ Budgets \subseteq (0 .. BudgetMax) \cup {NoBudget}
\* A slot that is reclaimed GenSpan times issues its first correlation again:
\* the table's promises are those of one cycle of generations.
ASSUME LivesAssumption == MaxLives \in Nat /\ MaxLives <= GenSpan

VARIABLES
    slots,     \* Table::slots
    budget,    \* Table::budget
    capacity,  \* history: the budget Table::new was given
    lives,     \* history: how often each slot was reclaimed
    issued,    \* history: the correlations insert returned
    released,  \* history: the correlations forget accepted
    asleep     \* history: registrations <<c, key, task>> not yet handed back

vars == <<slots, budget, capacity, lives, issued, released, asleep>>

Index == 0 .. N - 1
\* Every u64 is a correlation a caller may pass.
Correlations == {Correlation(g, i) : g \in 0 .. GenSpan - 1, i \in 0 .. SlotSpan - 1}

At(c) == slots[SlotOf(c)]
HeldAt(c) == SlotOf(c) \in Index /\ Held(At(c), c)
Readable(c) == IF HeldAt(c) THEN OutcomeOf(At(c), c) ELSE NoOutcome

TypeOK ==
    /\ slots \in [Index -> Entry]
    /\ budget \in (0 .. BudgetMax) \cup {NoBudget}
    /\ capacity \in (0 .. BudgetMax) \cup {NoBudget}
    /\ lives \in [Index -> 0 .. MaxLives]
    /\ issued \subseteq Correlations
    /\ released \subseteq Correlations
    /\ asleep \subseteq Correlations \X (StreamNos \cup {OutcomeKey}) \X Tasks

\* Table::new
Init ==
    /\ slots = [i \in Index |-> FreeEntry]
    /\ budget \in Budgets
    /\ capacity = budget
    /\ lives = [i \in Index |-> 0]
    /\ issued = {}
    /\ released = {}
    /\ asleep = {}

\* Mutant: the reclaim does not credit the budget.
CreditedNothing(reservation) == budget

(***************************************************************************)
(* The budget: checked_sub at insert, saturating_add at reclaim.           *)
(***************************************************************************)
Affords(reservation) == budget # NoBudget => reservation <= budget
Debited(reservation) ==
    IF budget = NoBudget THEN NoBudget ELSE budget - reservation
Credited(reservation) ==
    CASE budget = NoBudget -> NoBudget
      [] budget # NoBudget /\ budget + reservation > BudgetMax -> BudgetMax
      [] OTHER -> budget + reservation

\* The registrations under c whose wakers the entry would hand back.
OutcomeWaiter(e, c) == {<<c, OutcomeKey, e.waker>>}
StreamWaiters(e, c) == {<<c, s, e.streams[s]>> : s \in StreamNos}

\* The lowest free slot, as position() finds it.
LowestFree(i) ==
    /\ slots[i].state = "Free"
    /\ \A j \in Index : j < i => slots[j].state # "Free"

Insert(i, reservation) ==
    /\ LowestFree(i)
    /\ Affords(reservation)
    /\ lives[i] < MaxLives
    /\ budget' = Debited(reservation)
    /\ slots' = [slots EXCEPT ![i] = Inserted(@, reservation)]
    /\ issued' = issued \cup {Correlation(slots[i].generation, i)}
    /\ UNCHANGED <<capacity, lives, released, asleep>>

\* settle(c, outcome), then take_streams(slot(c)) unless the answer is Unknown.
Settle(c, outcome) ==
    /\ HeldAt(c)
    /\ SettleAnswer(At(c), c) # "Unknown"
    /\ slots' = [slots EXCEPT ![SlotOf(c)] =
                    TakeStreamsEntry(SettleEntry(@, c, outcome))]
    /\ IF SettleAnswer(At(c), c) = "Reclaimed"
       THEN /\ budget' = Credited(At(c).reservation)
            /\ lives' = [lives EXCEPT ![SlotOf(c)] = @ + 1]
            /\ asleep' = asleep \ StreamWaiters(At(c), c)
       ELSE /\ asleep' = asleep \ (OutcomeWaiter(At(c), c) \cup StreamWaiters(At(c), c))
            /\ UNCHANGED <<budget, lives>>
    /\ UNCHANGED <<capacity, issued, released>>

\* forget(c), then take_streams(slot(c)) unless the answer is Unknown.
Forget(c) ==
    /\ HeldAt(c)
    /\ ForgetAnswer(At(c), c) # "Unknown"
    /\ slots' = [slots EXCEPT ![SlotOf(c)] = TakeStreamsEntry(ForgetEntry(@, c))]
    /\ IF ForgetAnswer(At(c), c) = "Reclaimed"
       THEN /\ budget' = Credited(At(c).reservation)
            /\ lives' = [lives EXCEPT ![SlotOf(c)] = @ + 1]
            /\ asleep' = asleep \ StreamWaiters(At(c), c)
       ELSE /\ asleep' = asleep \ (OutcomeWaiter(At(c), c) \cup StreamWaiters(At(c), c))
            /\ UNCHANGED <<budget, lives>>
    /\ released' = released \cup {c}
    /\ UNCHANGED <<capacity, issued>>

\* wake_on: a waker that is not stored is handed back at once, so its task
\* does not sleep; a displaced waker is handed back.
WakeOn(c, task) ==
    /\ HeldAt(c)
    /\ StoresOutcome(At(c), c)
    /\ slots' = [slots EXCEPT ![SlotOf(c)] = WakeOnEntry(@, c, task)]
    /\ asleep' = (asleep \ OutcomeWaiter(At(c), c)) \cup {<<c, OutcomeKey, task>>}
    /\ UNCHANGED <<budget, capacity, lives, issued, released>>

WakeOnStream(c, s, task) ==
    /\ HeldAt(c)
    /\ StoresStream(At(c), c, s)
    /\ slots' = [slots EXCEPT ![SlotOf(c)] = WakeOnStreamEntry(@, c, s, task)]
    /\ asleep' = (asleep \ {<<c, s, At(c).streams[s]>>}) \cup {<<c, s, task>>}
    /\ UNCHANGED <<budget, capacity, lives, issued, released>>

TakeStream(c, s) ==
    /\ HeldAt(c)
    /\ At(c).streams[s] # NoWaker
    /\ slots' = [slots EXCEPT ![SlotOf(c)] = TakeStreamEntry(@, c, s)]
    /\ asleep' = asleep \ {<<c, s, At(c).streams[s]>>}
    /\ UNCHANGED <<budget, capacity, lives, issued, released>>

Next ==
    \/ \E i \in Index, reservation \in Reservations : Insert(i, reservation)
    \/ \E c \in Correlations :
        \/ \E outcome \in Outcomes : Settle(c, outcome)
        \/ Forget(c)
        \/ \E task \in Tasks : WakeOn(c, task)
        \/ \E s \in StreamNos, task \in Tasks : WakeOnStream(c, s, task)
        \/ \E s \in StreamNos : TakeStream(c, s)

Spec == Init /\ [][Next]_vars

-----------------------------------------------------------------------------
\* Bytes debited from the budget and not yet credited are exactly the
\* reservations of the calls the table holds: nothing leaks at reclaim, nothing
\* is credited twice, and the saturating credit never saturates
\* (Table::insert, Table::reclaim).
BudgetConserved ==
    budget # NoBudget =>
        budget + MapThenSumSet(LAMBDA i : slots[i].reservation, Index) = capacity

\* The table can still wake the registration r = <<c, key, task>>: its waker is
\* stored under the key, in the slot of the very call it names, and that call
\* can still change.
CanWake(r) ==
    /\ HeldAt(r[1])
    /\ IF r[2] = OutcomeKey
       THEN At(r[1]).state = "InFlight" /\ At(r[1]).waker = r[3]
       ELSE At(r[1]).state \in {"InFlight", "Settled"} /\ At(r[1]).streams[r[2]] = r[3]

\* A task asleep on a registration is one the table can still wake.
\* Table::reclaim and Table::insert drop wakers without waking them, so no call
\* may reach either with a waker still owed.
NoLostWaker == \A r \in asleep : CanWake(r)

\* A correlation that was forgotten reads no outcome, takes no registration and
\* is never the name of a later call in the same slot (Table::forget: "c has no
\* readable outcome afterwards").
ForgottenStaysForgotten ==
    \A c \in released :
        /\ Readable(c) = NoOutcome
        /\ HeldAt(c) => At(c).state = "Forgotten"

\* insert never returns a correlation it returned before, up to the slot's
\* last generation.
NeverReissued ==
    [][\A c \in Correlations : ~HeldAt(c) /\ HeldAt(c)' => c \notin issued]_vars

\* The first settlement is the outcome: once readable it reads the same until
\* the caller forgets the call (Table::settle).
OutcomeStable ==
    [][\A c \in Correlations :
        Readable(c) # NoOutcome =>
            Readable(c)' = Readable(c) \/ (c \in released' /\ Readable(c)' = NoOutcome)]_vars

\* What the caller of c sees of it.
View(c) ==
    CASE c \in released -> [state |-> "Forgotten", answer |-> NoOutcome]
      [] c \notin released /\ ~HeldAt(c) -> [state |-> "Unsent", answer |-> NoOutcome]
      [] c \notin released /\ HeldAt(c) /\ At(c).state # "Settled" ->
            [state |-> "Pending", answer |-> NoOutcome]
      [] OTHER -> [state |-> "Answered", answer |-> At(c).outcome]
Port == INSTANCE CallPort WITH
    Calls <- Correlations, Answers <- Outcomes, NoAnswer <- NoOutcome,
    view <- [c \in Correlations |-> View(c)]

\* The table implements the calls of the port: no call is answered twice, lost
\* without an answer, revived after a forget or sent under a name in use.
PortSpec == Port!Spec
==============================================================================
