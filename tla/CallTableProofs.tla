--------------------------- MODULE CallTableProofs ---------------------------
(***************************************************************************)
(* Theorems of the call table, for every number of slots, budget, task and *)
(* stream number, and every size of the correlation's two halves.          *)
(***************************************************************************)
EXTENDS CallTable, FiniteSetTheorems, WellFoundedInduction, TLAPS

\* A correlation keeps its generation and its slot apart: packing them with
\* (generation << SLOT_BITS) | slot loses neither half.
LEMMA CorrelationHalves ==
    ASSUME NEW g \in Nat, NEW i \in 0 .. SlotSpan - 1
    PROVE  SlotOf(Correlation(g, i)) = i /\ GenerationOf(Correlation(g, i)) = g
<1> DEFINE x == g * SlotSpan + i
           d == x \div SlotSpan
           m == x % SlotSpan
<1>1. SlotSpan \in Nat \ {0} /\ x \in Nat
  BY SpanAssumption
<1>2. d \in Int /\ m \in 0 .. SlotSpan - 1 /\ x = d * SlotSpan + m
  BY <1>1
<1>3. (d - g) * SlotSpan = i - m
  BY <1>1, <1>2
<1>4. i - m < SlotSpan /\ i - m > -SlotSpan
  BY <1>1, <1>2
<1>5. ~(d > g)
  BY <1>1, <1>2, <1>3, <1>4
<1>6. ~(d < g)
  BY <1>1, <1>2, <1>3, <1>4
<1>7. d = g /\ m = i
  BY <1>1, <1>2, <1>3, <1>5, <1>6
<1> QED
  BY <1>7 DEF SlotOf, GenerationOf, Correlation

\* Advancing a generation stays within the bits a correlation keeps for it.
LEMMA NextGeneration ==
    ASSUME NEW g \in 0 .. GenSpan - 1
    PROVE  /\ (g + 1) % GenSpan \in 0 .. GenSpan - 1
           /\ g + 1 < GenSpan => (g + 1) % GenSpan = g + 1
  BY SpanAssumption

-----------------------------------------------------------------------------
(***************************************************************************)
(* The inductive invariant.  The generation of a slot counts its reclaims  *)
(* until it wraps, which a slot that holds a call never has; a correlation *)
(* issued or released belongs to a generation the slot has already left,   *)
(* or to the call it holds now.                                            *)
(***************************************************************************)
GenerationCountsLives ==
    \A i \in Index :
        /\ lives[i] < GenSpan => slots[i].generation = lives[i]
        /\ slots[i].state # "Free" => lives[i] < MaxLives

IssuedBefore ==
    \A c \in issued :
        /\ SlotOf(c) \in Index
        /\ \/ GenerationOf(c) < lives[SlotOf(c)]
           \/ GenerationOf(c) = lives[SlotOf(c)] /\ At(c).state # "Free"

ReleasedBefore ==
    \A c \in released :
        /\ SlotOf(c) \in Index
        /\ \/ GenerationOf(c) < lives[SlotOf(c)]
           \/ GenerationOf(c) = lives[SlotOf(c)] /\ At(c).state = "Forgotten"

IInv ==
    /\ TypeOK
    /\ GenerationCountsLives
    /\ IssuedBefore
    /\ ReleasedBefore
    /\ NoLostWaker

\* Both halves of a correlation are in range, and a correlation is its halves.
LEMMA CorrelationType ==
    ASSUME NEW c \in Correlations
    PROVE  /\ SlotOf(c) \in 0 .. SlotSpan - 1
           /\ GenerationOf(c) \in 0 .. GenSpan - 1
           /\ c = Correlation(GenerationOf(c), SlotOf(c))
<1>1. PICK g \in 0 .. GenSpan - 1, i \in 0 .. SlotSpan - 1 : c = Correlation(g, i)
  BY DEF Correlations
<1>2. SlotOf(c) = i /\ GenerationOf(c) = g
  BY <1>1, CorrelationHalves, SpanAssumption
<1> QED
  BY <1>1, <1>2

\* The slot each operation leaves behind is an entry.
LEMMA InsertedType ==
    ASSUME NEW e \in Entry, NEW reservation \in Nat
    PROVE  Inserted(e, reservation) \in Entry
  BY DEF Entry, States, Inserted, NoStreams

\* A slot whose stream wakers are taken is an entry, a reclaimed one too.
LEMMA ReclaimedType ==
    ASSUME NEW e \in Entry
    PROVE  TakeStreamsEntry(e) \in Entry /\ TakeStreamsEntry(Reclaimed(e)) \in Entry
  BY NextGeneration, SpanAssumption DEF Entry, States, Reclaimed, TakeStreamsEntry, NoStreams

\* Debits and credits keep the budget a u64, or no budget.
LEMMA BudgetTypes ==
    ASSUME TypeOK, NEW reservation \in Nat
    PROVE  /\ Affords(reservation) => Debited(reservation) \in (0 .. BudgetMax) \cup {NoBudget}
           /\ Credited(reservation) \in (0 .. BudgetMax) \cup {NoBudget}
  BY BudgetAssumption DEF TypeOK, Affords, Debited, Credited

\* An empty table satisfies the inductive invariant.
LEMMA InitInv == Init => IInv
<1> SUFFICES ASSUME Init PROVE IInv
  OBVIOUS
<1>1. FreeEntry \in Entry
  BY SpanAssumption DEF FreeEntry, Entry, States, NoStreams
<1>2. TypeOK
  BY <1>1, BudgetAssumption, LivesAssumption DEF Init, TypeOK
<1>3. GenerationCountsLives
  BY DEF Init, GenerationCountsLives, FreeEntry
<1> QED
  BY <1>2, <1>3 DEF Init, IInv, IssuedBefore, ReleasedBefore, NoLostWaker

\* What Insert leaves of every slot.
LEMMA InsertInv ==
    ASSUME IInv, NEW i \in Index, NEW reservation \in Reservations, Insert(i, reservation)
    PROVE  IInv'
<1> DEFINE c0 == Correlation(slots[i].generation, i)
<1>1. TypeOK /\ reservation \in Nat /\ i \in 0 .. SlotSpan - 1
  BY BudgetAssumption, TableAssumption, SpanAssumption DEF IInv, Index
<1>2. slots[i] \in Entry /\ slots[i].generation \in 0 .. GenSpan - 1
  BY <1>1 DEF TypeOK, Entry
<1>3. c0 \in Correlations /\ SlotOf(c0) = i /\ GenerationOf(c0) = slots[i].generation
  BY <1>1, <1>2, CorrelationHalves, SpanAssumption DEF Correlations
<1>4. lives[i] < GenSpan /\ slots[i].generation = lives[i] /\ slots[i].state = "Free"
  BY <1>1, LivesAssumption, SpanAssumption
     DEF IInv, GenerationCountsLives, Insert, TypeOK, LowestFree
<1>5. /\ slots' = [slots EXCEPT ![i] = Inserted(slots[i], reservation)]
      /\ slots'[i].state = "InFlight" /\ slots'[i].generation = slots[i].generation
      /\ \A j \in Index \ {i} : slots'[j] = slots[j]
  BY <1>1, <1>2 DEF Insert, TypeOK, Inserted, Entry
<1>6. TypeOK'
  BY <1>1, <1>2, <1>3, InsertedType, BudgetTypes DEF Insert, TypeOK
<1>7. GenerationCountsLives'
  BY <1>4, <1>5 DEF Insert, IInv, GenerationCountsLives
<1>8. IssuedBefore'
  BY <1>3, <1>4, <1>5 DEF Insert, IInv, IssuedBefore, At
<1>9. ReleasedBefore'
  BY <1>4, <1>5 DEF Insert, IInv, ReleasedBefore, At
<1>10. NoLostWaker'
  BY <1>4, <1>5 DEF Insert, IInv, NoLostWaker, CanWake, HeldAt, Held, At
<1> QED
  BY <1>6, <1>7, <1>8, <1>9, <1>10 DEF IInv

\* A step that ends the call under c: the slot is reclaimed and the stream
\* waiters are woken; no outcome waiter is left to wake.
LEMMA ReclaimInv ==
    ASSUME IInv, NEW c \in Correlations, HeldAt(c), At(c).state \in {"Forgotten", "Settled"},
           slots' = [slots EXCEPT ![SlotOf(c)] = TakeStreamsEntry(Reclaimed(At(c)))],
           budget' = Credited(At(c).reservation),
           lives' = [lives EXCEPT ![SlotOf(c)] = @ + 1],
           asleep' = asleep \ StreamWaiters(At(c), c),
           released' \subseteq released \cup {c},
           UNCHANGED <<capacity, issued>>
    PROVE  IInv'
<1> DEFINE i == SlotOf(c)
<1>1. /\ TypeOK /\ i \in Index /\ At(c) = slots[i]
      /\ slots[i] \in Entry /\ slots[i].generation \in 0 .. GenSpan - 1
  BY DEF IInv, TypeOK, HeldAt, At, Entry
<1>2. /\ slots[i].state # "Free" /\ lives[i] < MaxLives /\ lives[i] \in Nat
      /\ lives[i] < GenSpan /\ slots[i].generation = lives[i] /\ GenerationOf(c) = lives[i]
  BY <1>1, LivesAssumption, SpanAssumption
     DEF IInv, TypeOK, GenerationCountsLives, HeldAt, Held
<1>3. /\ slots'[i].state = "Free"
      /\ slots'[i].generation = (lives[i] + 1) % GenSpan
      /\ \A j \in Index \ {i} : slots'[j] = slots[j] /\ lives'[j] = lives[j]
      /\ lives'[i] = lives[i] + 1
  BY <1>1, <1>2 DEF TypeOK, Entry, TakeStreamsEntry, Reclaimed
<1>4. TypeOK'
  <2>1. TakeStreamsEntry(Reclaimed(At(c))) \in Entry
    BY <1>1, ReclaimedType
  <2>2. budget' \in (0 .. BudgetMax) \cup {NoBudget}
    BY <1>1, BudgetTypes DEF Entry
  <2>3. lives' \in [Index -> 0 .. MaxLives]
    BY <1>1, <1>2, LivesAssumption DEF TypeOK
  <2> QED
    BY <1>1, <2>1, <2>2, <2>3 DEF TypeOK
<1>5. GenerationCountsLives'
  BY <1>1, <1>2, <1>3, NextGeneration, SpanAssumption, LivesAssumption
     DEF IInv, GenerationCountsLives
<1>6. IssuedBefore'
  <2> SUFFICES ASSUME NEW d \in issued
               PROVE  SlotOf(d) \in Index /\ (\/ GenerationOf(d) < lives'[SlotOf(d)]
                                              \/ /\ GenerationOf(d) = lives'[SlotOf(d)]
                                                 /\ slots'[SlotOf(d)].state # "Free")
    BY DEF IssuedBefore, At
  <2>1. SlotOf(d) \in Index /\ GenerationOf(d) \in Nat
    BY <1>1, CorrelationType DEF IInv, TypeOK, IssuedBefore
  <2> QED
    BY <1>2, <1>3, <2>1 DEF IInv, IssuedBefore, At
<1>7. ReleasedBefore'
  <2> SUFFICES ASSUME NEW d \in released \cup {c}
               PROVE  SlotOf(d) \in Index /\ (\/ GenerationOf(d) < lives'[SlotOf(d)]
                                              \/ /\ GenerationOf(d) = lives'[SlotOf(d)]
                                                 /\ slots'[SlotOf(d)].state = "Forgotten")
    BY DEF ReleasedBefore, At
  <2>1. SlotOf(d) \in Index /\ GenerationOf(d) \in Nat
    BY <1>1, CorrelationType DEF IInv, TypeOK, ReleasedBefore
  <2> QED
    BY <1>2, <1>3, <2>1 DEF IInv, ReleasedBefore, At
<1>8. NoLostWaker'
  <2> SUFFICES ASSUME NEW r \in asleep, r \notin StreamWaiters(At(c), c)
               PROVE  SlotOf(r[1]) \in Index /\ SlotOf(r[1]) # i
    BY <1>1, <1>3 DEF IInv, NoLostWaker, CanWake, HeldAt, Held, At
  <2>1. r \in Correlations \X (StreamNos \cup {OutcomeKey}) \X Tasks
    BY <1>1 DEF TypeOK
  <2>2. HeldAt(r[1]) /\ SlotOf(r[1]) \in Index
    BY DEF IInv, NoLostWaker, CanWake, HeldAt
  <2>3. SUFFICES ASSUME SlotOf(r[1]) = i PROVE FALSE
    BY <2>2
  <2>4. r[1] = c
    BY <2>1, <2>2, <2>3, CorrelationType DEF HeldAt, Held, At
  <2>5. r[2] # OutcomeKey /\ slots[i].streams[r[2]] = r[3]
    BY <1>1, <2>4 DEF IInv, NoLostWaker, CanWake, At
  <2>6. r = <<c, r[2], r[3]>> /\ r[2] \in StreamNos
    BY <2>1, <2>4, <2>5
  <2> QED
    BY <1>1, <2>5, <2>6 DEF StreamWaiters
<1> QED
  BY <1>4, <1>5, <1>6, <1>7, <1>8 DEF IInv

\* Waking every waiter the slot of c stores leaves asleep only tasks that wait
\* on the calls of other slots.
LEMMA AwakeElsewhere ==
    ASSUME IInv, NEW c \in Correlations, HeldAt(c), NEW r \in asleep,
           r \notin OutcomeWaiter(At(c), c) \cup StreamWaiters(At(c), c)
    PROVE  SlotOf(r[1]) \in Index /\ SlotOf(r[1]) # SlotOf(c)
<1>1. r \in Correlations \X (StreamNos \cup {OutcomeKey}) \X Tasks
  BY DEF IInv, TypeOK
<1>2. HeldAt(r[1]) /\ SlotOf(r[1]) \in Index
  BY DEF IInv, NoLostWaker, CanWake, HeldAt
<1>3. SUFFICES ASSUME SlotOf(r[1]) = SlotOf(c) PROVE FALSE
  BY <1>2
<1>4. r[1] = c
  BY <1>1, <1>2, <1>3, CorrelationType DEF HeldAt, Held, At
<1>5. r = <<c, r[2], r[3]>>
  BY <1>1, <1>4
<1>6. CASE r[2] = OutcomeKey
  BY <1>4, <1>5, <1>6 DEF IInv, NoLostWaker, CanWake, OutcomeWaiter
<1>7. CASE r[2] # OutcomeKey
  <2>1. r[2] \in StreamNos /\ At(c).streams[r[2]] = r[3]
    BY <1>1, <1>4, <1>7 DEF IInv, NoLostWaker, CanWake
  <2> QED
    BY <1>5, <2>1 DEF StreamWaiters
<1> QED
  BY <1>6, <1>7

\* settle keeps the invariant: a recorded outcome wakes every waiter of the
\* call, a forgotten call is reclaimed.
LEMMA SettleInv ==
    ASSUME IInv, NEW c \in Correlations, NEW outcome \in Outcomes, Settle(c, outcome)
    PROVE  IInv'
<1> DEFINE i == SlotOf(c)
<1>1. /\ TypeOK /\ HeldAt(c) /\ i \in Index /\ At(c) = slots[i] /\ slots[i] \in Entry
      /\ slots[i].generation = GenerationOf(c) /\ slots[i].state # "Free"
  BY DEF IInv, TypeOK, Settle, HeldAt, Held, At
<1>2. CASE SettleAnswer(At(c), c) = "Reclaimed"
  <2>1. At(c).state = "Forgotten"
    BY <1>1, <1>2 DEF SettleAnswer
  <2>2. SettleEntry(At(c), c, outcome) = Reclaimed(At(c))
    BY <1>2 DEF SettleEntry
  <2> QED
    BY <1>1, <1>2, <2>1, <2>2, ReclaimInv DEF Settle, At
<1>3. CASE SettleAnswer(At(c), c) # "Reclaimed"
  <2> DEFINE e == [slots[i] EXCEPT !.state = "Settled", !.outcome = outcome, !.waker = NoWaker]
  <2>1. SettleAnswer(At(c), c) = "Recorded" /\ slots[i].state = "InFlight"
    BY <1>1, <1>3 DEF Settle, SettleAnswer
  <2>2. slots' = [slots EXCEPT ![i] = TakeStreamsEntry(e)]
    BY <1>1, <2>1 DEF Settle, SettleEntry
  <2>3. e \in Entry /\ TakeStreamsEntry(e) \in Entry
    <3>1. e \in Entry
      BY <1>1 DEF Entry, States
    <3> QED
      BY <3>1, ReclaimedType
  <2>4. /\ slots'[i].state = "Settled" /\ slots'[i].generation = slots[i].generation
        /\ \A j \in Index \ {i} : slots'[j] = slots[j]
    BY <1>1, <2>2 DEF TypeOK, Entry, TakeStreamsEntry
  <2>5. /\ UNCHANGED <<budget, capacity, lives, issued, released>>
        /\ asleep' = asleep \ (OutcomeWaiter(At(c), c) \cup StreamWaiters(At(c), c))
    BY <1>3 DEF Settle
  <2>6. TypeOK'
    BY <1>1, <2>2, <2>3, <2>5 DEF TypeOK
  <2>7. GenerationCountsLives'
    BY <1>1, <2>4, <2>5 DEF IInv, GenerationCountsLives
  <2>8. IssuedBefore'
    BY <1>1, <2>4, <2>5 DEF IInv, IssuedBefore, At
  <2>9. ReleasedBefore'
    BY <1>1, <2>1, <2>4, <2>5 DEF IInv, ReleasedBefore, At
  <2>10. NoLostWaker'
    BY <1>1, <2>4, <2>5, AwakeElsewhere DEF IInv, NoLostWaker, CanWake, HeldAt, Held, At
  <2> QED
    BY <2>6, <2>7, <2>8, <2>9, <2>10 DEF IInv
<1> QED
  BY <1>2, <1>3

\* forget keeps the invariant: a settled call is reclaimed, a call in flight is
\* marked and every waiter of it is woken.
LEMMA ForgetInv ==
    ASSUME IInv, NEW c \in Correlations, Forget(c)
    PROVE  IInv'
<1> DEFINE i == SlotOf(c)
<1>1. /\ TypeOK /\ HeldAt(c) /\ i \in Index /\ At(c) = slots[i] /\ slots[i] \in Entry
      /\ slots[i].generation = GenerationOf(c) /\ slots[i].state # "Free"
  BY DEF IInv, TypeOK, Forget, HeldAt, Held, At
<1>2. CASE ForgetAnswer(At(c), c) = "Reclaimed"
  <2>1. At(c).state = "Settled"
    BY <1>1, <1>2 DEF ForgetAnswer
  <2>2. ForgetEntry(At(c), c) = Reclaimed(At(c))
    BY <1>2 DEF ForgetEntry
  <2> QED
    BY <1>1, <1>2, <2>1, <2>2, ReclaimInv DEF Forget, At
<1>3. CASE ForgetAnswer(At(c), c) # "Reclaimed"
  <2> DEFINE e == [slots[i] EXCEPT !.state = "Forgotten", !.waker = NoWaker]
  <2>1. ForgetAnswer(At(c), c) = "Marked" /\ slots[i].state = "InFlight"
    BY <1>1, <1>3 DEF Forget, ForgetAnswer
  <2>2. slots' = [slots EXCEPT ![i] = TakeStreamsEntry(e)]
    BY <1>1, <2>1 DEF Forget, ForgetEntry
  <2>3. e \in Entry /\ TakeStreamsEntry(e) \in Entry
    <3>1. e \in Entry
      BY <1>1 DEF Entry, States
    <3> QED
      BY <3>1, ReclaimedType
  <2>4. /\ slots'[i].state = "Forgotten" /\ slots'[i].generation = slots[i].generation
        /\ \A j \in Index \ {i} : slots'[j] = slots[j]
    BY <1>1, <2>2 DEF TypeOK, Entry, TakeStreamsEntry
  <2>5. /\ UNCHANGED <<budget, capacity, lives, issued>>
        /\ released' = released \cup {c}
        /\ asleep' = asleep \ (OutcomeWaiter(At(c), c) \cup StreamWaiters(At(c), c))
    BY <1>3 DEF Forget
  <2>6. TypeOK'
    BY <1>1, <2>2, <2>3, <2>5 DEF TypeOK
  <2>7. GenerationCountsLives'
    BY <1>1, <2>4, <2>5 DEF IInv, GenerationCountsLives
  <2>8. IssuedBefore'
    BY <1>1, <2>4, <2>5 DEF IInv, IssuedBefore, At
  <2>9. ReleasedBefore'
    <3>1. GenerationOf(c) = lives[i]
      BY <1>1, LivesAssumption, SpanAssumption DEF IInv, TypeOK, GenerationCountsLives
    <3> QED
      BY <1>1, <2>1, <2>4, <2>5, <3>1 DEF IInv, ReleasedBefore, At
  <2>10. NoLostWaker'
    BY <1>1, <2>4, <2>5, AwakeElsewhere DEF IInv, NoLostWaker, CanWake, HeldAt, Held, At
  <2> QED
    BY <2>6, <2>7, <2>8, <2>9, <2>10 DEF IInv
<1> QED
  BY <1>2, <1>3

\* A step that only moves wakers in and out of the slot of c keeps every part
\* of the invariant but the one about wakers.
LEMMA WakersOnly ==
    ASSUME IInv, NEW c \in Correlations, HeldAt(c), NEW e \in Entry,
           slots' = [slots EXCEPT ![SlotOf(c)] = e],
           e.state = At(c).state, e.generation = At(c).generation,
           asleep' \subseteq Correlations \X (StreamNos \cup {OutcomeKey}) \X Tasks,
           UNCHANGED <<budget, capacity, lives, issued, released>>,
           NoLostWaker'
    PROVE  IInv'
<1>1. TypeOK /\ SlotOf(c) \in Index
  BY DEF IInv, HeldAt
<1>2. TypeOK'
  BY <1>1 DEF TypeOK
<1>3. \A j \in Index : /\ slots'[j].state = slots[j].state
                       /\ slots'[j].generation = slots[j].generation
  BY <1>1 DEF TypeOK, At
<1>4. GenerationCountsLives' /\ IssuedBefore' /\ ReleasedBefore'
  BY <1>3 DEF IInv, GenerationCountsLives, IssuedBefore, ReleasedBefore, At
<1> QED
  BY <1>2, <1>4 DEF IInv

\* A registration on c names c and nothing else in c's slot.
LEMMA SameSlotSameCall ==
    ASSUME IInv, NEW c \in Correlations, HeldAt(c), NEW r \in asleep
    PROVE  /\ r \in Correlations \X (StreamNos \cup {OutcomeKey}) \X Tasks
           /\ r = <<r[1], r[2], r[3]>>
           /\ SlotOf(r[1]) \in Index
           /\ SlotOf(r[1]) = SlotOf(c) => r[1] = c
<1>1. r \in Correlations \X (StreamNos \cup {OutcomeKey}) \X Tasks
  BY DEF IInv, TypeOK
<1>2. HeldAt(r[1]) /\ SlotOf(r[1]) \in Index
  BY DEF IInv, NoLostWaker, CanWake, HeldAt
<1>3. SlotOf(r[1]) = SlotOf(c) => r[1] = c
  BY <1>1, <1>2, CorrelationType DEF HeldAt, Held, At
<1> QED
  BY <1>1, <1>2, <1>3

\* wake_on keeps the invariant: a displaced task is woken, not forgotten.
LEMMA WakeOnInv ==
    ASSUME IInv, NEW c \in Correlations, NEW task \in Tasks, WakeOn(c, task)
    PROVE  IInv'
<1> DEFINE i == SlotOf(c)
           e == [slots[i] EXCEPT !.waker = task]
<1>1. /\ TypeOK /\ HeldAt(c) /\ i \in Index /\ At(c) = slots[i] /\ slots[i] \in Entry
      /\ slots[i].generation = GenerationOf(c) /\ slots[i].state = "InFlight"
  BY DEF IInv, TypeOK, WakeOn, StoresOutcome, HeldAt, Held, At
<1>2. slots' = [slots EXCEPT ![i] = e]
  BY <1>1 DEF WakeOn, WakeOnEntry
<1>3. /\ e \in Entry /\ e.state = "InFlight" /\ e.generation = slots[i].generation
      /\ e.waker = task /\ e.streams = slots[i].streams
  BY <1>1 DEF Entry, States
<1>4. asleep' = (asleep \ {<<c, OutcomeKey, slots[i].waker>>}) \cup {<<c, OutcomeKey, task>>}
  BY <1>1 DEF WakeOn, OutcomeWaiter
<1>5. asleep' \subseteq Correlations \X (StreamNos \cup {OutcomeKey}) \X Tasks
  BY <1>1, <1>4 DEF TypeOK
<1>6. slots'[i] = e /\ \A j \in Index \ {i} : slots'[j] = slots[j]
  BY <1>1, <1>2 DEF TypeOK
<1>7. NoLostWaker'
  <2>1. ASSUME NEW r \in asleep, r # <<c, OutcomeKey, slots[i].waker>>
        PROVE  /\ SlotOf(r[1]) \in Index
               /\ SlotOf(r[1]) = i => r[1] = c /\ r[2] # OutcomeKey
    BY <1>1, <2>1, SameSlotSameCall DEF IInv, NoLostWaker, CanWake
  <2>2. ASSUME NEW r \in asleep, r # <<c, OutcomeKey, slots[i].waker>>
        PROVE  CanWake(r)'
    <3>1. CanWake(r) /\ SlotOf(r[1]) \in Index
      BY <2>1, <2>2 DEF IInv, NoLostWaker
    <3>2. CASE SlotOf(r[1]) # i
      BY <1>6, <3>1, <3>2 DEF CanWake, HeldAt, Held, At
    <3>3. CASE SlotOf(r[1]) = i
      <4>1. r[1] = c /\ r[2] # OutcomeKey
        BY <2>1, <2>2, <3>3
      <4>2. /\ slots'[i].state = slots[i].state /\ slots'[i].generation = slots[i].generation
            /\ slots'[i].streams = slots[i].streams
        BY <1>1, <1>3, <1>6
      <4> QED
        BY <3>1, <4>1, <4>2 DEF CanWake, HeldAt, Held, At
    <3> QED
      BY <3>2, <3>3
  <2>3. HeldAt(c)' /\ slots'[i].state = "InFlight" /\ slots'[i].waker = task
    BY <1>1, <1>3, <1>6 DEF HeldAt, Held, At
  <2> QED
    BY <1>4, <2>2, <2>3 DEF NoLostWaker, CanWake, At
<1> QED
  BY <1>1, <1>2, <1>3, <1>5, <1>7, WakersOnly DEF WakeOn

\* wake_on_stream keeps the invariant.
LEMMA WakeOnStreamInv ==
    ASSUME IInv, NEW c \in Correlations, NEW s \in StreamNos, NEW task \in Tasks,
           WakeOnStream(c, s, task)
    PROVE  IInv'
<1> DEFINE i == SlotOf(c)
           e == [slots[i] EXCEPT !.streams[s] = task]
<1>1. /\ TypeOK /\ HeldAt(c) /\ i \in Index /\ At(c) = slots[i] /\ slots[i] \in Entry
      /\ slots[i].generation = GenerationOf(c) /\ slots[i].state \in {"InFlight", "Settled"}
  BY DEF IInv, TypeOK, WakeOnStream, StoresStream, HeldAt, Held, At
<1>2. slots' = [slots EXCEPT ![i] = e]
  BY <1>1 DEF WakeOnStream, WakeOnStreamEntry
<1>3. /\ e \in Entry /\ e.state = slots[i].state /\ e.generation = slots[i].generation
      /\ e.waker = slots[i].waker /\ e.streams = [slots[i].streams EXCEPT ![s] = task]
  BY <1>1 DEF Entry, States
<1>4. e.streams[s] = task /\ \A t \in StreamNos \ {s} : e.streams[t] = slots[i].streams[t]
  BY <1>1, <1>3 DEF Entry
<1>5. asleep' = (asleep \ {<<c, s, slots[i].streams[s]>>}) \cup {<<c, s, task>>}
  BY <1>1 DEF WakeOnStream
<1>6. asleep' \subseteq Correlations \X (StreamNos \cup {OutcomeKey}) \X Tasks
  BY <1>1, <1>5 DEF TypeOK
<1>7. slots'[i] = e /\ \A j \in Index \ {i} : slots'[j] = slots[j]
  BY <1>1, <1>2 DEF TypeOK
<1>8. NoLostWaker'
  <2>1. ASSUME NEW r \in asleep, r # <<c, s, slots[i].streams[s]>>
        PROVE  /\ SlotOf(r[1]) \in Index /\ r[2] \in StreamNos \cup {OutcomeKey}
               /\ SlotOf(r[1]) = i => r[1] = c /\ r[2] # s
    BY <1>1, <2>1, SameSlotSameCall, KeyAssumption DEF IInv, NoLostWaker, CanWake
  <2>2. ASSUME NEW r \in asleep, r # <<c, s, slots[i].streams[s]>>
        PROVE  CanWake(r)'
    <3>1. CanWake(r) /\ SlotOf(r[1]) \in Index
      BY <2>1, <2>2 DEF IInv, NoLostWaker
    <3>2. CASE SlotOf(r[1]) # i
      BY <1>7, <3>1, <3>2 DEF CanWake, HeldAt, Held, At
    <3>3. CASE SlotOf(r[1]) = i
      <4>1. r[1] = c /\ r[2] \in (StreamNos \ {s}) \cup {OutcomeKey}
        BY <2>1, <2>2, <3>3, KeyAssumption
      <4>2. /\ slots'[i].state = slots[i].state /\ slots'[i].generation = slots[i].generation
            /\ slots'[i].waker = slots[i].waker
        BY <1>1, <1>3, <1>7
      <4>3. \A t \in StreamNos \ {s} : slots'[i].streams[t] = slots[i].streams[t]
        BY <1>4, <1>7
      <4> QED
        BY <3>1, <4>1, <4>2, <4>3 DEF CanWake, HeldAt, Held, At
    <3> QED
      BY <3>2, <3>3
  <2>3. HeldAt(c)' /\ slots'[i].state \in {"InFlight", "Settled"} /\ slots'[i].streams[s] = task
    BY <1>1, <1>3, <1>4, <1>7 DEF HeldAt, Held, At
  <2> QED
    BY <1>5, <2>2, <2>3, KeyAssumption DEF NoLostWaker, CanWake, At
<1> QED
  BY <1>1, <1>2, <1>3, <1>6, <1>8, WakersOnly DEF WakeOnStream

\* take_stream keeps the invariant.
LEMMA TakeStreamInv ==
    ASSUME IInv, NEW c \in Correlations, NEW s \in StreamNos, TakeStream(c, s)
    PROVE  IInv'
<1> DEFINE i == SlotOf(c)
           e == [slots[i] EXCEPT !.streams[s] = NoWaker]
<1>1. /\ TypeOK /\ HeldAt(c) /\ i \in Index /\ At(c) = slots[i] /\ slots[i] \in Entry
      /\ slots[i].generation = GenerationOf(c) /\ slots[i].state # "Free"
  BY DEF IInv, TypeOK, TakeStream, HeldAt, Held, At
<1>2. slots' = [slots EXCEPT ![i] = e]
  BY <1>1 DEF TakeStream, TakeStreamEntry, HeldAt
<1>3. /\ e \in Entry /\ e.state = slots[i].state /\ e.generation = slots[i].generation
      /\ e.waker = slots[i].waker /\ e.streams = [slots[i].streams EXCEPT ![s] = NoWaker]
  BY <1>1 DEF Entry, States
<1>4. \A t \in StreamNos \ {s} : e.streams[t] = slots[i].streams[t]
  BY <1>1, <1>3 DEF Entry
<1>5. asleep' = asleep \ {<<c, s, slots[i].streams[s]>>}
  BY <1>1 DEF TakeStream
<1>6. asleep' \subseteq Correlations \X (StreamNos \cup {OutcomeKey}) \X Tasks
  BY <1>1, <1>5 DEF TypeOK
<1>7. slots'[i] = e /\ \A j \in Index \ {i} : slots'[j] = slots[j]
  BY <1>1, <1>2 DEF TypeOK
<1>8. NoLostWaker'
  <2>1. ASSUME NEW r \in asleep, r # <<c, s, slots[i].streams[s]>>
        PROVE  /\ SlotOf(r[1]) \in Index /\ r[2] \in StreamNos \cup {OutcomeKey}
               /\ SlotOf(r[1]) = i => r[1] = c /\ r[2] # s
    BY <1>1, <2>1, SameSlotSameCall, KeyAssumption DEF IInv, NoLostWaker, CanWake
  <2>2. ASSUME NEW r \in asleep, r # <<c, s, slots[i].streams[s]>>
        PROVE  CanWake(r)'
    <3>1. CanWake(r) /\ SlotOf(r[1]) \in Index
      BY <2>1, <2>2 DEF IInv, NoLostWaker
    <3>2. CASE SlotOf(r[1]) # i
      BY <1>7, <3>1, <3>2 DEF CanWake, HeldAt, Held, At
    <3>3. CASE SlotOf(r[1]) = i
      <4>1. r[1] = c /\ r[2] \in (StreamNos \ {s}) \cup {OutcomeKey}
        BY <2>1, <2>2, <3>3, KeyAssumption
      <4>2. /\ slots'[i].state = slots[i].state /\ slots'[i].generation = slots[i].generation
            /\ slots'[i].waker = slots[i].waker
        BY <1>1, <1>3, <1>7
      <4>3. \A t \in StreamNos \ {s} : slots'[i].streams[t] = slots[i].streams[t]
        BY <1>4, <1>7
      <4> QED
        BY <3>1, <4>1, <4>2, <4>3 DEF CanWake, HeldAt, Held, At
    <3> QED
      BY <3>2, <3>3
  <2> QED
    BY <1>5, <2>2 DEF NoLostWaker
<1>9. UNCHANGED <<budget, capacity, lives, issued, released>>
  BY DEF TakeStream
<1> QED
  BY <1>1, <1>2, <1>3, <1>6, <1>8, <1>9, WakersOnly

\* Every step of the table keeps the inductive invariant.
LEMMA NextInv == IInv /\ [Next]_vars => IInv'
<1> SUFFICES ASSUME IInv, [Next]_vars PROVE IInv'
  OBVIOUS
<1>1. ASSUME NEW i \in Index, NEW reservation \in Reservations, Insert(i, reservation)
      PROVE  IInv'
  BY <1>1, InsertInv
<1>2. ASSUME NEW c \in Correlations, NEW outcome \in Outcomes, Settle(c, outcome)
      PROVE  IInv'
  BY <1>2, SettleInv
<1>3. ASSUME NEW c \in Correlations, Forget(c)
      PROVE  IInv'
  BY <1>3, ForgetInv
<1>4. ASSUME NEW c \in Correlations, NEW task \in Tasks, WakeOn(c, task)
      PROVE  IInv'
  BY <1>4, WakeOnInv
<1>5. ASSUME NEW c \in Correlations, NEW s \in StreamNos, NEW task \in Tasks,
             WakeOnStream(c, s, task)
      PROVE  IInv'
  BY <1>5, WakeOnStreamInv
<1>6. ASSUME NEW c \in Correlations, NEW s \in StreamNos, TakeStream(c, s)
      PROVE  IInv'
  BY <1>6, TakeStreamInv
<1>7. CASE UNCHANGED vars
  BY <1>7 DEF vars, IInv, TypeOK, GenerationCountsLives, IssuedBefore, ReleasedBefore,
              NoLostWaker, CanWake, HeldAt, Held, At
<1> QED
  BY <1>1, <1>2, <1>3, <1>4, <1>5, <1>6, <1>7 DEF Next

\* The invariant holds in every reachable state of the table.
LEMMA Invariance == Spec => []IInv
<1>1. Init => IInv
  BY InitInv
<1>2. IInv /\ [Next]_vars => IInv'
  BY NextInv
<1> QED
  BY <1>1, <1>2, PTL DEF Spec

-----------------------------------------------------------------------------
\* The table keeps its types under any sequence of operations: generations
\* stay in the bits a correlation has for them, the budget stays a u64.
THEOREM TypeCorrect == Spec => []TypeOK
<1>1. IInv => TypeOK
  BY DEF IInv
<1> QED
  BY <1>1, Invariance, PTL

\* No waker is dropped: whatever settles, is forgotten, reclaimed or inserted,
\* a task still asleep on a registration is one the table still holds the
\* waker of.
THEOREM WakersKept == Spec => []NoLostWaker
<1>1. IInv => NoLostWaker
  BY DEF IInv
<1> QED
  BY <1>1, Invariance, PTL

\* A forgotten correlation stays unreadable for a whole cycle of generations,
\* however its slot is reused.
THEOREM ForgottenIsFinal == Spec => []ForgottenStaysForgotten
<1>1. IInv => ForgottenStaysForgotten
  <2> SUFFICES ASSUME IInv, NEW c \in released, HeldAt(c)
               PROVE  At(c).state = "Forgotten"
    BY DEF ForgottenStaysForgotten, Readable, OutcomeOf
  <2>1. /\ SlotOf(c) \in Index /\ At(c).state # "Free"
        /\ At(c).generation = GenerationOf(c)
    BY DEF HeldAt, Held
  <2>2. GenerationOf(c) = lives[SlotOf(c)] /\ lives[SlotOf(c)] \in Nat
    BY <2>1, LivesAssumption, SpanAssumption DEF IInv, TypeOK, GenerationCountsLives, At
  <2> QED
    BY <2>1, <2>2 DEF IInv, ReleasedBefore
<1> QED
  BY <1>1, Invariance, PTL

\* insert never names a call with a correlation it has already given out.
THEOREM CorrelationsFresh == Spec => NeverReissued
<1> DEFINE Fresh == \A c \in Correlations : ~HeldAt(c) /\ HeldAt(c)' => c \notin issued
<1>1. IInv /\ IInv' /\ [Next]_vars => [Fresh]_vars
  <2> SUFFICES ASSUME IInv, IInv', NEW c \in Correlations, ~HeldAt(c), HeldAt(c)',
                      [Next]_vars, c \in issued
               PROVE  FALSE
    OBVIOUS
  <2>1. SlotOf(c) \in Index /\ GenerationOf(c) < lives[SlotOf(c)] /\ lives[SlotOf(c)] \in Nat
    BY LivesAssumption, SpanAssumption
       DEF IInv, TypeOK, IssuedBefore, HeldAt, Held, At, GenerationCountsLives
  <2>2. GenerationOf(c) = lives'[SlotOf(c)]
    BY LivesAssumption, SpanAssumption
       DEF IInv, TypeOK, HeldAt, Held, At, GenerationCountsLives
  <2>3. \/ lives' = lives
        \/ \E i : lives' = [lives EXCEPT ![i] = @ + 1]
    BY DEF Next, Insert, Settle, Forget, WakeOn, WakeOnStream, TakeStream, vars
  <2>4. lives'[SlotOf(c)] >= lives[SlotOf(c)]
    BY <2>1, <2>3 DEF IInv, TypeOK
  <2>5. GenerationOf(c) \in Nat
    BY CorrelationType
  <2> QED
    BY <2>1, <2>2, <2>4, <2>5
<1>2. Spec => [][Fresh]_vars
  BY <1>1, Invariance, PTL DEF Spec
<1> QED
  BY <1>2 DEF NeverReissued

\* An outcome, once readable, reads the same until its caller forgets the call:
\* no later settlement, no reuse of another slot and no registration changes it.
THEOREM OutcomesStable == Spec => OutcomeStable
<1> DEFINE Stable == \A c \in Correlations :
               Readable(c) # NoOutcome =>
                   Readable(c)' = Readable(c) \/ (c \in released' /\ Readable(c)' = NoOutcome)
<1>1. IInv /\ IInv' /\ [Next]_vars => [Stable]_vars
  <2> SUFFICES ASSUME IInv, IInv', [Next]_vars, NEW c \in Correlations,
                      Readable(c) # NoOutcome
               PROVE  \/ Readable(c)' = Readable(c)
                      \/ c \in released' /\ Readable(c)' = NoOutcome
    OBVIOUS
  <2> DEFINE i == SlotOf(c)
  <2>1. /\ HeldAt(c) /\ i \in Index /\ At(c) = slots[i] /\ slots[i] \in Entry
        /\ slots[i].state = "Settled" /\ slots[i].generation = GenerationOf(c)
        /\ Readable(c) = slots[i].outcome
    BY DEF IInv, TypeOK, Readable, OutcomeOf, HeldAt, Held, At
  <2>2. ASSUME slots'[i].state = slots[i].state, slots'[i].generation = slots[i].generation,
               slots'[i].outcome = slots[i].outcome
        PROVE  Readable(c)' = Readable(c)
    BY <2>1, <2>2 DEF Readable, OutcomeOf, HeldAt, Held, At
  <2>3. ASSUME NEW j \in Index, NEW reservation \in Reservations, Insert(j, reservation)
        PROVE  Readable(c)' = Readable(c)
    <3>1. i # j
      BY <2>1, <2>3 DEF Insert, LowestFree
    <3> QED
      BY <2>1, <2>2, <2>3, <3>1 DEF Insert, IInv, TypeOK
  <2>4. ASSUME NEW d \in Correlations, NEW outcome \in Outcomes, Settle(d, outcome)
        PROVE  Readable(c)' = Readable(c)
    <3>1. SlotOf(d) # i
      BY <2>1, <2>4 DEF Settle, SettleAnswer, At
    <3> QED
      BY <2>1, <2>2, <2>4, <3>1 DEF Settle, IInv, TypeOK
  <2>5. ASSUME NEW d \in Correlations, Forget(d)
        PROVE  Readable(c)' = Readable(c) \/ (c \in released' /\ Readable(c)' = NoOutcome)
    <3>1. CASE SlotOf(d) # i
      BY <2>1, <2>2, <2>5, <3>1 DEF Forget, IInv, TypeOK
    <3>2. CASE SlotOf(d) = i
      <4>1. d = c
        BY <2>1, <2>5, <3>2, CorrelationType DEF Forget, HeldAt, Held, At
      <4>2. slots'[i] = TakeStreamsEntry(Reclaimed(slots[i]))
        BY <2>1, <2>5, <4>1 DEF Forget, IInv, TypeOK, ForgetEntry, ForgetAnswer, HeldAt
      <4>3. slots'[i].state = "Free"
        BY <2>1, <4>2 DEF TakeStreamsEntry, Reclaimed, Entry
      <4> QED
        BY <2>5, <4>1, <4>3 DEF Forget, Readable, HeldAt, Held, At
    <3> QED
      BY <3>1, <3>2
  <2>6. ASSUME NEW d \in Correlations, NEW task \in Tasks, WakeOn(d, task)
        PROVE  Readable(c)' = Readable(c)
    BY <2>1, <2>2, <2>6 DEF WakeOn, WakeOnEntry, IInv, TypeOK, Entry, At, HeldAt
  <2>7. ASSUME NEW d \in Correlations, NEW s \in StreamNos, NEW task \in Tasks,
               WakeOnStream(d, s, task)
        PROVE  Readable(c)' = Readable(c)
    BY <2>1, <2>2, <2>7 DEF WakeOnStream, WakeOnStreamEntry, IInv, TypeOK, Entry, At, HeldAt
  <2>8. ASSUME NEW d \in Correlations, NEW s \in StreamNos, TakeStream(d, s)
        PROVE  Readable(c)' = Readable(c)
    BY <2>1, <2>2, <2>8 DEF TakeStream, TakeStreamEntry, IInv, TypeOK, Entry, At, HeldAt
  <2>9. CASE UNCHANGED vars
    BY <2>2, <2>9 DEF vars
  <2> QED
    BY <2>3, <2>4, <2>5, <2>6, <2>7, <2>8, <2>9 DEF Next
<1>2. Spec => [][Stable]_vars
  BY <1>1, Invariance, PTL DEF Spec
<1> QED
  BY <1>2 DEF OutcomeStable

-----------------------------------------------------------------------------
(* The table implements the calls of the port.  An operation of the table  *)
(* moves the view of one call; every other correlation, those of the same  *)
(* slot included, keeps its view.                                          *)

\* A call the table has marked forgotten is one its caller forgot.
MarkedReleased ==
    \A c \in Correlations : HeldAt(c) /\ At(c).state = "Forgotten" => c \in released

\* A call that was not forgotten is never marked, and the other way round.
LEMMA HeldNotReleased ==
    ASSUME IInv, NEW c \in Correlations, HeldAt(c), At(c).state # "Forgotten"
    PROVE  c \notin released
<1>1. /\ SlotOf(c) \in Index /\ At(c).state # "Free"
      /\ At(c).generation = GenerationOf(c)
  BY DEF HeldAt, Held
<1>2. GenerationOf(c) = lives[SlotOf(c)] /\ lives[SlotOf(c)] \in Nat
  BY <1>1, LivesAssumption, SpanAssumption DEF IInv, TypeOK, GenerationCountsLives, At
<1> QED
  BY <1>1, <1>2 DEF IInv, ReleasedBefore

\* A step on the slot of c that frees it or keeps its generation moves no other
\* correlation: not one of another slot, and not another one of the same slot.
LEMMA OneCall ==
    ASSUME IInv, NEW c \in Correlations, SlotOf(c) \in Index,
           At(c).generation = GenerationOf(c),
           \A j \in Index \ {SlotOf(c)} : slots'[j] = slots[j],
           \/ slots'[SlotOf(c)].state = "Free"
           \/ slots'[SlotOf(c)].generation = At(c).generation,
           released \subseteq released', released' \subseteq released \cup {c},
           NEW d \in Correlations, d # c
    PROVE  /\ View(d)' = View(d)
           /\ (HeldAt(d)' <=> HeldAt(d))
           /\ HeldAt(d) => At(d)' = At(d)
<1>1. CASE SlotOf(d) # SlotOf(c)
  <2>1. SlotOf(d) \in Index => At(d)' = At(d)
    BY <1>1 DEF At
  <2>2. (HeldAt(d)' <=> HeldAt(d))
    BY <2>1 DEF HeldAt, Held
  <2>3. HeldAt(d) => At(d)' = At(d)
    BY <2>1 DEF HeldAt
  <2> QED
    BY <2>2, <2>3 DEF View
<1>2. CASE SlotOf(d) = SlotOf(c)
  <2>1. GenerationOf(d) # GenerationOf(c)
    BY <1>2, CorrelationType
  <2>2. ~HeldAt(d) /\ ~HeldAt(d)'
    BY <1>2, <2>1 DEF HeldAt, Held, At
  <2>3. d \in released' <=> d \in released
    OBVIOUS
  <2>4. View(d)' = View(d)
    BY <2>2, <2>3 DEF View, HeldAt
  <2> QED
    BY <2>2, <2>4
<1> QED
  BY <1>1, <1>2

\* insert: the new correlation goes from unsent to pending.
LEMMA InsertView ==
    ASSUME IInv, NEW i \in Index, NEW reservation \in Reservations, Insert(i, reservation)
    PROVE  \E c \in Correlations :
               /\ ~HeldAt(c) /\ c \notin released
               /\ View(c) = [state |-> "Unsent", answer |-> NoOutcome]
               /\ View(c)' = [state |-> "Pending", answer |-> NoOutcome]
               /\ HeldAt(c)' /\ At(c)'.state = "InFlight"
               /\ \A d \in Correlations \ {c} :
                    /\ View(d)' = View(d)
                    /\ (HeldAt(d)' <=> HeldAt(d)) /\ (HeldAt(d) => At(d)' = At(d))
<1>1. TypeOK /\ reservation \in Nat /\ i \in 0 .. SlotSpan - 1
  BY BudgetAssumption, TableAssumption, SpanAssumption DEF IInv, Index
<1>2. slots[i] \in Entry /\ slots[i].generation \in 0 .. GenSpan - 1
  BY <1>1 DEF TypeOK, Entry
<1>3. PICK c \in Correlations : SlotOf(c) = i /\ GenerationOf(c) = slots[i].generation
  BY <1>1, <1>2, CorrelationHalves, SpanAssumption DEF Correlations
<1>4. /\ slots[i].state = "Free" /\ slots[i].generation = lives[i] /\ lives[i] \in Nat
      /\ released' = released
  BY <1>1, LivesAssumption, SpanAssumption
     DEF IInv, GenerationCountsLives, Insert, TypeOK, LowestFree
<1>5. /\ slots'[i].state = "InFlight" /\ slots'[i].generation = slots[i].generation
      /\ \A j \in Index \ {i} : slots'[j] = slots[j]
  BY <1>1, <1>2 DEF Insert, TypeOK, Inserted, Entry
<1>6. c \notin released /\ c \notin released'
  BY <1>3, <1>4 DEF IInv, ReleasedBefore, At
<1>7. ~HeldAt(c) /\ HeldAt(c)' /\ At(c)'.state = "InFlight"
  BY <1>3, <1>4, <1>5 DEF HeldAt, Held, At
<1>8. /\ View(c) = [state |-> "Unsent", answer |-> NoOutcome]
      /\ View(c)' = [state |-> "Pending", answer |-> NoOutcome]
  BY <1>6, <1>7 DEF View
<1>9. ASSUME NEW d \in Correlations \ {c}
      PROVE  View(d)' = View(d) /\ (HeldAt(d)' <=> HeldAt(d)) /\ (HeldAt(d) => At(d)' = At(d))
  BY <1>3, <1>4, <1>5, OneCall DEF At
<1> QED
  BY <1>6, <1>7, <1>8, <1>9

\* settle: the first settlement answers a pending call; that of a forgotten
\* call moves no view.
LEMMA SettleView ==
    ASSUME IInv, MarkedReleased, NEW c \in Correlations, NEW outcome \in Outcomes,
           Settle(c, outcome)
    PROVE  /\ \A d \in Correlations \ {c} :
                /\ View(d)' = View(d)
                /\ (HeldAt(d)' <=> HeldAt(d)) /\ (HeldAt(d) => At(d)' = At(d))
           /\ HeldAt(c)' => At(c)'.state # "Forgotten"
           /\ \/ View(c)' = View(c)
              \/ /\ View(c) = [state |-> "Pending", answer |-> NoOutcome]
                 /\ View(c)' = [state |-> "Answered", answer |-> outcome]
<1> DEFINE i == SlotOf(c)
<1>1. /\ TypeOK /\ HeldAt(c) /\ i \in Index /\ At(c) = slots[i] /\ slots[i] \in Entry
      /\ slots[i].generation = GenerationOf(c) /\ slots[i].state # "Free"
      /\ released' = released
      /\ slots' = [slots EXCEPT ![i] = TakeStreamsEntry(SettleEntry(slots[i], c, outcome))]
  BY DEF IInv, TypeOK, Settle, HeldAt, Held, At
<1>2. CASE SettleAnswer(At(c), c) = "Reclaimed"
  <2>1. slots[i].state = "Forgotten" /\ c \in released
    BY <1>1, <1>2 DEF SettleAnswer, MarkedReleased
  <2>2. SettleEntry(slots[i], c, outcome) = Reclaimed(slots[i])
    BY <1>1, <1>2 DEF SettleEntry
  <2>3. slots'[i].state = "Free" /\ \A j \in Index \ {i} : slots'[j] = slots[j]
    BY <1>1, <2>2 DEF TypeOK, TakeStreamsEntry, Reclaimed, Entry
  <2>4. ~HeldAt(c)' /\ View(c)' = View(c)
    BY <1>1, <2>1, <2>3 DEF View, HeldAt, Held, At
  <2> QED
    BY <1>1, <2>3, <2>4, OneCall
<1>3. CASE SettleAnswer(At(c), c) # "Reclaimed"
  <2>1. SettleAnswer(slots[i], c) = "Recorded" /\ slots[i].state = "InFlight"
    BY <1>1, <1>3 DEF Settle, SettleAnswer
  <2>2. SettleEntry(slots[i], c, outcome)
          = [slots[i] EXCEPT !.state = "Settled", !.outcome = outcome, !.waker = NoWaker]
    BY <2>1 DEF SettleEntry
  <2>3. /\ slots'[i].state = "Settled" /\ slots'[i].generation = slots[i].generation
        /\ slots'[i].outcome = outcome
        /\ \A j \in Index \ {i} : slots'[j] = slots[j]
    BY <1>1, <2>2 DEF TypeOK, Entry, TakeStreamsEntry
  <2>4. HeldAt(c)' /\ At(c)' = slots'[i]
    BY <1>1, <2>3 DEF HeldAt, Held, At
  <2>5. c \notin released
    BY <1>1, <2>1, HeldNotReleased
  <2>6. /\ View(c) = [state |-> "Pending", answer |-> NoOutcome]
        /\ View(c)' = [state |-> "Answered", answer |-> outcome]
    BY <1>1, <2>1, <2>3, <2>4, <2>5 DEF View
  <2> QED
    BY <1>1, <2>3, <2>4, <2>6, OneCall
<1> QED
  BY <1>2, <1>3

\* forget: a pending or answered call is let go of.
LEMMA ForgetView ==
    ASSUME IInv, NEW c \in Correlations, Forget(c)
    PROVE  /\ \A d \in Correlations \ {c} :
                /\ View(d)' = View(d)
                /\ (HeldAt(d)' <=> HeldAt(d)) /\ (HeldAt(d) => At(d)' = At(d))
           /\ View(c).state \in {"Pending", "Answered"}
           /\ View(c)' = [state |-> "Forgotten", answer |-> NoOutcome]
<1> DEFINE i == SlotOf(c)
<1>1. /\ TypeOK /\ HeldAt(c) /\ i \in Index /\ At(c) = slots[i] /\ slots[i] \in Entry
      /\ slots[i].generation = GenerationOf(c) /\ slots[i].state # "Free"
      /\ released' = released \cup {c}
      /\ slots' = [slots EXCEPT ![i] = TakeStreamsEntry(ForgetEntry(slots[i], c))]
  BY DEF IInv, TypeOK, Forget, HeldAt, Held, At
<1>2. /\ ForgetAnswer(slots[i], c) # "Unknown"
      /\ slots[i].state \in {"InFlight", "Settled"}
  BY <1>1 DEF Forget, ForgetAnswer, Entry, States
<1>3. c \notin released
  BY <1>1, <1>2, HeldNotReleased
<1>4. /\ slots'[i].state = "Free" \/ slots'[i].generation = slots[i].generation
      /\ \A j \in Index \ {i} : slots'[j] = slots[j]
  <2>1. CASE ForgetAnswer(slots[i], c) = "Reclaimed"
    <3>1. ForgetEntry(slots[i], c) = Reclaimed(slots[i])
      BY <2>1 DEF ForgetEntry
    <3> QED
      BY <1>1, <3>1 DEF TypeOK, TakeStreamsEntry, Reclaimed, Entry
  <2>2. CASE ForgetAnswer(slots[i], c) # "Reclaimed"
    <3>1. ForgetAnswer(slots[i], c) = "Marked"
      BY <1>2, <2>2 DEF ForgetAnswer
    <3>2. ForgetEntry(slots[i], c) = [slots[i] EXCEPT !.state = "Forgotten", !.waker = NoWaker]
      BY <3>1 DEF ForgetEntry
    <3> QED
      BY <1>1, <3>2 DEF TypeOK, TakeStreamsEntry, Entry
  <2> QED
    BY <2>1, <2>2
<1>5. View(c).state \in {"Pending", "Answered"}
  BY <1>1, <1>3 DEF View
<1>6. View(c)' = [state |-> "Forgotten", answer |-> NoOutcome]
  BY <1>1 DEF View
<1>7. ASSUME NEW d \in Correlations \ {c}
      PROVE  View(d)' = View(d) /\ (HeldAt(d)' <=> HeldAt(d)) /\ (HeldAt(d) => At(d)' = At(d))
  BY <1>1, <1>4, OneCall
<1> QED
  BY <1>5, <1>6, <1>7

\* A registration or the taking of a stream waker moves no view at all.
LEMMA WakerView ==
    ASSUME IInv, NEW c \in Correlations, HeldAt(c), NEW e \in Entry,
           slots' = [slots EXCEPT ![SlotOf(c)] = e],
           e.state = At(c).state, e.generation = At(c).generation, e.outcome = At(c).outcome,
           released' = released,
           NEW d \in Correlations
    PROVE  View(d)' = View(d) /\ (HeldAt(d)' <=> HeldAt(d)) /\ (HeldAt(d) => At(d)'.state = At(d).state)
<1>1. /\ SlotOf(c) \in Index /\ At(c) = slots[SlotOf(c)]
      /\ At(c).generation = GenerationOf(c) /\ slots \in [Index -> Entry]
  BY DEF IInv, TypeOK, HeldAt, Held, At
<1>2. slots'[SlotOf(c)] = e /\ \A j \in Index \ {SlotOf(c)} : slots'[j] = slots[j]
  BY <1>1
<1>3. CASE d = c
  BY <1>1, <1>2, <1>3 DEF View, HeldAt, Held, At
<1>4. CASE d # c
  BY <1>1, <1>2, <1>4, OneCall
<1> QED
  BY <1>3, <1>4

\* The three operations that only move wakers.
WakerStep(c) ==
    \/ \E task \in Tasks : WakeOn(c, task)
    \/ \E s \in StreamNos, task \in Tasks : WakeOnStream(c, s, task)
    \/ \E s \in StreamNos : TakeStream(c, s)

\* None of them moves a view or a state.
LEMMA WakersView ==
    ASSUME IInv, NEW c \in Correlations, WakerStep(c)
    PROVE  \A d \in Correlations :
               View(d)' = View(d) /\ (HeldAt(d)' <=> HeldAt(d)) /\ (HeldAt(d) => At(d)'.state = At(d).state)
<1> DEFINE i == SlotOf(c)
<1>1. /\ TypeOK /\ HeldAt(c) /\ i \in Index /\ At(c) = slots[i] /\ slots[i] \in Entry
      /\ released' = released
  BY DEF IInv, TypeOK, WakerStep, WakeOn, WakeOnStream, TakeStream, HeldAt, At
<1>2. CASE \E task \in Tasks : WakeOn(c, task)
  <2>0. PICK task \in Tasks : WakeOn(c, task)
    BY <1>2
  <2> DEFINE e == [slots[i] EXCEPT !.waker = task]
  <2>1. slots' = [slots EXCEPT ![i] = e]
    BY <1>1, <2>0 DEF WakeOn, WakeOnEntry
  <2>2. /\ e \in Entry /\ e.state = At(c).state /\ e.generation = At(c).generation
        /\ e.outcome = At(c).outcome
    BY <1>1 DEF Entry
  <2> QED
    BY <1>1, <2>1, <2>2, WakerView
<1>3. CASE \E s \in StreamNos, task \in Tasks : WakeOnStream(c, s, task)
  <2>0. PICK s \in StreamNos, task \in Tasks : WakeOnStream(c, s, task)
    BY <1>3
  <2> DEFINE e == [slots[i] EXCEPT !.streams[s] = task]
  <2>1. slots' = [slots EXCEPT ![i] = e]
    BY <1>1, <2>0 DEF WakeOnStream, WakeOnStreamEntry
  <2>2. /\ e \in Entry /\ e.state = At(c).state /\ e.generation = At(c).generation
        /\ e.outcome = At(c).outcome
    BY <1>1 DEF Entry
  <2> QED
    BY <1>1, <2>1, <2>2, WakerView
<1>4. CASE \E s \in StreamNos : TakeStream(c, s)
  <2>0. PICK s \in StreamNos : TakeStream(c, s)
    BY <1>4
  <2> DEFINE e == [slots[i] EXCEPT !.streams[s] = NoWaker]
  <2>1. slots' = [slots EXCEPT ![i] = e]
    BY <1>1, <2>0 DEF TakeStream, TakeStreamEntry, HeldAt
  <2>2. /\ e \in Entry /\ e.state = At(c).state /\ e.generation = At(c).generation
        /\ e.outcome = At(c).outcome
    BY <1>1 DEF Entry
  <2> QED
    BY <1>1, <2>1, <2>2, WakerView
<1> QED
  BY <1>2, <1>3, <1>4 DEF WakerStep

\* Every step keeps the marks: only forget marks a call, and it releases it.
LEMMA NextMarked == IInv /\ MarkedReleased /\ [Next]_vars => MarkedReleased'
<1> SUFFICES ASSUME IInv, MarkedReleased, [Next]_vars,
                    NEW d \in Correlations, HeldAt(d)', At(d)'.state = "Forgotten"
             PROVE  d \in released'
  BY DEF MarkedReleased
<1>1. ASSUME NEW i \in Index, NEW reservation \in Reservations, Insert(i, reservation)
      PROVE  d \in released'
  <2>1. released' = released
    BY <1>1 DEF Insert
  <2>2. HeldAt(d) /\ At(d)' = At(d)
    BY <1>1, InsertView
  <2> QED
    BY <2>1, <2>2 DEF MarkedReleased
<1>2. ASSUME NEW c \in Correlations, NEW outcome \in Outcomes, Settle(c, outcome)
      PROVE  d \in released'
  <2>1. released' = released
    BY <1>2 DEF Settle
  <2>2. HeldAt(d) /\ At(d)' = At(d)
    BY <1>2, SettleView
  <2> QED
    BY <2>1, <2>2 DEF MarkedReleased
<1>3. ASSUME NEW c \in Correlations, Forget(c)
      PROVE  d \in released'
  <2>1. released' = released \cup {c}
    BY <1>3 DEF Forget
  <2>2. d # c => HeldAt(d) /\ At(d)' = At(d)
    BY <1>3, ForgetView
  <2> QED
    BY <2>1, <2>2 DEF MarkedReleased
<1>4. ASSUME NEW c \in Correlations, WakerStep(c)
      PROVE  d \in released'
  <2>1. released' = released
    BY <1>4 DEF WakerStep, WakeOn, WakeOnStream, TakeStream
  <2>2. HeldAt(d) /\ At(d)'.state = At(d).state
    BY <1>4, WakersView
  <2> QED
    BY <2>1, <2>2 DEF MarkedReleased
<1>5. CASE UNCHANGED vars
  BY <1>5 DEF vars, MarkedReleased, HeldAt, Held, At
<1> QED
  BY <1>1, <1>2, <1>3, <1>4, <1>5 DEF Next, WakerStep

\* A step of the table is a step of the port or moves no view.
LEMMA PortStep ==
    IInv /\ MarkedReleased /\ [Next]_vars
        => [Port!Next]_([c \in Correlations |-> View(c)])
<1> SUFFICES ASSUME IInv, MarkedReleased, [Next]_vars
             PROVE  \/ Port!Send \/ Port!Answer \/ Port!Forget
                    \/ \A d \in Correlations : View(d)' = View(d)
  BY DEF Port!Next
<1>1. ASSUME NEW i \in Index, NEW reservation \in Reservations, Insert(i, reservation)
      PROVE  Port!Send
  <2>1. PICK c \in Correlations :
           /\ View(c) = [state |-> "Unsent", answer |-> NoOutcome]
           /\ View(c)' = [state |-> "Pending", answer |-> NoOutcome]
           /\ \A d \in Correlations \ {c} : View(d)' = View(d)
    BY <1>1, InsertView
  <2> QED
    BY <2>1 DEF Port!Send, Port!Same, Port!Unsent, Port!Pending
<1>2. ASSUME NEW c \in Correlations, NEW outcome \in Outcomes, Settle(c, outcome)
      PROVE  Port!Answer
  <2>1. /\ \A d \in Correlations \ {c} : View(d)' = View(d)
        /\ \/ View(c)' = View(c)
           \/ /\ View(c) = [state |-> "Pending", answer |-> NoOutcome]
              /\ View(c)' = [state |-> "Answered", answer |-> outcome]
    BY <1>2, SettleView
  <2> QED
    BY <2>1 DEF Port!Answer, Port!Same, Port!Pending, Port!Answered
<1>3. ASSUME NEW c \in Correlations, Forget(c)
      PROVE  Port!Forget
  <2>1. /\ \A d \in Correlations \ {c} : View(d)' = View(d)
        /\ View(c).state \in {"Pending", "Answered"}
        /\ View(c)' = [state |-> "Forgotten", answer |-> NoOutcome]
    BY <1>3, ForgetView
  <2> QED
    BY <2>1 DEF Port!Forget, Port!Same, Port!Forgotten
<1>4. ASSUME NEW c \in Correlations, WakerStep(c)
      PROVE  \A d \in Correlations : View(d)' = View(d)
  BY <1>4, WakersView
<1>5. CASE UNCHANGED vars
  BY <1>5 DEF vars, View, HeldAt, Held, At
<1> QED
  BY <1>1, <1>2, <1>3, <1>4, <1>5 DEF Next, WakerStep

-----------------------------------------------------------------------------
\* The table implements the calls of the port: through any sequence of its
\* operations each call is sent once, answered at most once, keeps its answer
\* until it is forgotten, and never vanishes or comes back.
THEOREM TableImplementsPort == Spec => PortSpec
<1>1. Init => Port!Init
  BY DEF Init, Port!Init, Port!Unsent, View, HeldAt, Held, At, FreeEntry
<1>2. Init => MarkedReleased
  BY DEF Init, MarkedReleased, HeldAt, Held, At, FreeEntry
<1>3. IInv /\ MarkedReleased /\ [Next]_vars => MarkedReleased'
  BY NextMarked
<1>4. IInv /\ MarkedReleased /\ [Next]_vars => [Port!Next]_([c \in Correlations |-> View(c)])
  BY PortStep
<1> QED
  BY <1>1, <1>2, <1>3, <1>4, Invariance, PTL DEF Spec, PortSpec, Port!Spec

-----------------------------------------------------------------------------
(***************************************************************************)
(* The budget.  A sum over the slots is a fold over the set of indices; a  *)
(* statement about it for every set is proved by a least counterexample in *)
(* the number of elements.                                                 *)
(***************************************************************************)

\* The element a fold takes out of s next.
Picked(s) == CHOOSE x \in s : TRUE

\* f sums the reservations of the table t over every set of D.
SumsOver(D, t, f) ==
    f = [s \in D |-> IF s = {} THEN 0
                     ELSE t[Picked(s)].reservation + f[s \ {Picked(s)}]]

\* The bytes the calls of the table t have reserved.
Reserved(t) == (CHOOSE f : SumsOver(SUBSET Index, t, f))[Index]

\* A set of numbers has a least one.
LEMMA LeastNumber ==
    ASSUME NEW S \in SUBSET Nat, S # {}
    PROVE  \E n \in S : \A m \in S : n <= m
<1> DEFINE R == OpToRel(<, Nat)
<1>1. IsWellFoundedOn(R, Nat)
  BY NatLessThanWellFounded
<1>2. PICK x \in S : \A y \in S : ~(<<y, x>> \in R)
  <2> HIDE DEF R
  <2> QED BY <1>1, WFMin, Zenon
<1>3. \A y \in S : ~(y < x)
  BY <1>2 DEF OpToRel
<1> QED BY <1>3

\* Removing the picked element of a set of indices leaves a smaller one.
LEMMA Smaller ==
    ASSUME NEW s \in SUBSET Index, s # {}
    PROVE  /\ Picked(s) \in s /\ Picked(s) \in Index
           /\ s \ {Picked(s)} \in SUBSET Index
           /\ Cardinality(s) \in Nat
           /\ Cardinality(s \ {Picked(s)}) = Cardinality(s) - 1
           /\ Cardinality(s) - 1 \in Nat
<1>1. IsFiniteSet(Index)
  BY TableAssumption, FS_Interval DEF Index
<1>2. IsFiniteSet(s)
  BY <1>1, FS_Subset
<1>3. Picked(s) \in s
  BY DEF Picked
<1>4. Cardinality(s) \in Nat /\ Cardinality(s) # 0
  BY <1>2, FS_CardinalityType, FS_EmptySet
<1>5. Cardinality(s \ {Picked(s)}) = Cardinality(s) - 1
  BY <1>2, <1>3, FS_RemoveElement
<1> QED BY <1>3, <1>4, <1>5

\* The sets of at most n indices.
UpTo(n) == {s \in SUBSET Index : Cardinality(s) <= n}

\* The sums over the sets of at most n indices exist: those of the smaller sets
\* give the sum of the next one.
LEMMA SumsUpTo ==
    ASSUME NEW t, NEW n \in Nat
    PROVE  \E f : SumsOver(UpTo(n), t, f)
<1> DEFINE Bad == {m \in Nat : ~\E f : SumsOver(UpTo(m), t, f)}
<1> SUFFICES ASSUME Bad # {} PROVE FALSE
  OBVIOUS
<1>1. PICK m \in Bad : \A k \in Bad : m <= k
  BY LeastNumber
<1>2. PICK g : m # 0 => SumsOver(UpTo(m - 1), t, g)
  BY <1>1
<1> DEFINE f == [s \in UpTo(m) |-> IF s = {} THEN 0
                                   ELSE t[Picked(s)].reservation + g[s \ {Picked(s)}]]
<1>3. ASSUME NEW s \in UpTo(m), s # {}
      PROVE  f[s \ {Picked(s)}] = g[s \ {Picked(s)}]
  <2> DEFINE r == s \ {Picked(s)}
  <2>1. /\ s \in SUBSET Index /\ r \in SUBSET Index
        /\ Cardinality(s) \in Nat /\ Cardinality(s) <= m
        /\ Cardinality(r) = Cardinality(s) - 1 /\ Cardinality(r) \in Nat
    BY <1>3, Smaller DEF UpTo
  <2> HIDE DEF r
  <2>2. m # 0 /\ r \in UpTo(m - 1) /\ r \in UpTo(m)
    BY <1>1, <2>1 DEF UpTo
  <2>3. g = [x \in UpTo(m - 1) |-> IF x = {} THEN 0
                                   ELSE t[Picked(x)].reservation + g[x \ {Picked(x)}]]
    BY <1>2, <2>2 DEF SumsOver
  <2>4. g[r] = IF r = {} THEN 0 ELSE t[Picked(r)].reservation + g[r \ {Picked(r)}]
    BY <2>2, <2>3
  <2>5. f[r] = IF r = {} THEN 0 ELSE t[Picked(r)].reservation + g[r \ {Picked(r)}]
    BY <2>2
  <2> QED BY <2>4, <2>5 DEF r
<1>4. SumsOver(UpTo(m), t, f)
  <2>1. \A s \in UpTo(m) :
          f[s] = IF s = {} THEN 0 ELSE t[Picked(s)].reservation + f[s \ {Picked(s)}]
    BY <1>3
  <2>2. f = [s \in UpTo(m) |-> f[s]]
    OBVIOUS
  <2> HIDE DEF f
  <2> QED BY <2>1, <2>2 DEF SumsOver
<1> QED BY <1>1, <1>4

\* Some function sums the reservations over every set of indices.
LEMMA SumsExist ==
    ASSUME NEW t
    PROVE  SumsOver(SUBSET Index, t, CHOOSE f : SumsOver(SUBSET Index, t, f))
<1>1. IsFiniteSet(Index)
  BY TableAssumption, FS_Interval DEF Index
<1>2. Cardinality(Index) \in Nat
  BY <1>1, FS_CardinalityType
<1>3. UpTo(Cardinality(Index)) = SUBSET Index
  BY <1>1, FS_Subset DEF UpTo
<1>4. \E f : SumsOver(SUBSET Index, t, f)
  BY <1>2, <1>3, SumsUpTo
<1> QED BY <1>4

\* The tables t and u have the same reservations but in slot i.
SlotChanged(t, u, i) ==
    /\ \A j \in Index : t[j].reservation \in Nat /\ u[j].reservation \in Nat
    /\ \A j \in Index \ {i} : u[j].reservation = t[j].reservation

\* The sums f of t and g of u differ by what slot i differs by.
SumsDiffer(t, u, i, f, g) ==
    \A s \in SUBSET Index :
        /\ f[s] \in Nat
        /\ g[s] = f[s] + (IF i \in s THEN u[i].reservation - t[i].reservation ELSE 0)

\* The sums of two tables that differ in slot i only differ by that slot.
LEMMA SumsChanged ==
    ASSUME NEW t, NEW u, NEW f, NEW g, NEW i \in Index,
           SumsOver(SUBSET Index, t, f), SumsOver(SUBSET Index, u, g),
           SlotChanged(t, u, i)
    PROVE  SumsDiffer(t, u, i, f, g)
<1> DEFINE d == u[i].reservation - t[i].reservation
           Good(s) == f[s] \in Nat /\ g[s] = f[s] + (IF i \in s THEN d ELSE 0)
           Bad == {m \in Nat : \E s \in SUBSET Index : Cardinality(s) = m /\ ~Good(s)}
<1>0. \A s \in SUBSET Index :
         /\ f[s] = IF s = {} THEN 0 ELSE t[Picked(s)].reservation + f[s \ {Picked(s)}]
         /\ g[s] = IF s = {} THEN 0 ELSE u[Picked(s)].reservation + g[s \ {Picked(s)}]
  BY DEF SumsOver
<1>1. Bad = {}
  <2> SUFFICES ASSUME Bad # {} PROVE FALSE
    OBVIOUS
  <2>1. PICK m \in Bad : \A k \in Bad : m <= k
    <3>1. Bad \in SUBSET Nat
      OBVIOUS
    <3> HIDE DEF Bad
    <3> QED BY <3>1, LeastNumber
  <2>2. PICK s \in SUBSET Index : Cardinality(s) = m /\ ~Good(s)
    BY <2>1
  <2>3. s # {}
    <3> SUFFICES ASSUME s = {} PROVE FALSE
      OBVIOUS
    <3>1. f[s] = 0 /\ g[s] = 0
      BY <1>0
    <3> QED BY <2>2, <3>1
  <2> DEFINE p == Picked(s)
             r == s \ {p}
  <2>4. /\ p \in s /\ p \in Index /\ r \in SUBSET Index
        /\ Cardinality(r) = m - 1 /\ m \in Nat /\ m - 1 \in Nat
    BY <2>2, <2>3, Smaller
  <2>5. f[s] = t[p].reservation + f[r] /\ g[s] = u[p].reservation + g[r]
    BY <1>0, <2>3
  <2>6. (i \in r) <=> (i \in s /\ i # p)
    OBVIOUS
  <2> HIDE DEF p, r
  <2>7. Good(r)
    <3>1. ~(m <= m - 1)
      BY <2>4
    <3> QED BY <2>1, <2>4, <3>1
  <2>8. t[p].reservation \in Nat /\ u[p].reservation \in Nat /\ d \in Int
    BY <2>4 DEF SlotChanged
  <2>9. CASE p = i
    <3>1. u[p].reservation = t[p].reservation + d /\ i \in s /\ i \notin r
      BY <2>4, <2>6, <2>8, <2>9
    <3> HIDE DEF d
    <3> QED BY <2>2, <2>5, <2>7, <2>8, <3>1
  <2>10. CASE p # i
    <3>1. u[p].reservation = t[p].reservation /\ ((i \in s) <=> (i \in r))
      BY <2>4, <2>6, <2>10 DEF SlotChanged
    <3> HIDE DEF d
    <3> QED BY <2>2, <2>5, <2>7, <2>8, <3>1
  <2> QED BY <2>9, <2>10
<1>2. ASSUME NEW s \in SUBSET Index PROVE Good(s)
  <2>1. IsFiniteSet(s)
    <3>1. IsFiniteSet(Index)
      BY TableAssumption, FS_Interval DEF Index
    <3> QED BY <3>1, FS_Subset
  <2>2. Cardinality(s) \in Nat
    BY <2>1, FS_CardinalityType
  <2> HIDE DEF Good
  <2> QED BY <1>1, <2>2
<1> QED BY <1>2 DEF SumsDiffer

\* A table with a reservation changed in slot i only, or in none.
LEMMA ReservedChanged ==
    ASSUME NEW t, NEW u, NEW i \in Index, SlotChanged(t, u, i)
    PROVE  /\ Reserved(t) \in Nat
           /\ Reserved(u) = Reserved(t) + (u[i].reservation - t[i].reservation)
<1> DEFINE f == CHOOSE h : SumsOver(SUBSET Index, t, h)
           g == CHOOSE h : SumsOver(SUBSET Index, u, h)
<1>1. SumsOver(SUBSET Index, t, f) /\ SumsOver(SUBSET Index, u, g)
  BY SumsExist
<1>2. Reserved(t) = f[Index] /\ Reserved(u) = g[Index]
  BY DEF Reserved
<1> HIDE DEF f, g
<1>3. SumsDiffer(t, u, i, f, g)
  BY <1>1, SumsChanged
<1>4. Index \in SUBSET Index
  OBVIOUS
<1> QED BY <1>2, <1>3, <1>4 DEF SumsDiffer

\* The calls of a table have at least the bytes of any one of them.
LEMMA ReservedAtLeast ==
    ASSUME NEW t, NEW i \in Index, \A j \in Index : t[j].reservation \in Nat
    PROVE  t[i].reservation <= Reserved(t) /\ Reserved(t) \in Nat
<1> DEFINE u == [j \in Index |-> [reservation |-> IF j = i THEN 0 ELSE t[j].reservation]]
<1>1. SlotChanged(t, u, i) /\ SlotChanged(u, u, i) /\ u[i].reservation = 0
  BY DEF SlotChanged
<1> HIDE DEF u
<1>2. Reserved(t) \in Nat /\ Reserved(u) = Reserved(t) + (u[i].reservation - t[i].reservation)
  BY <1>1, ReservedChanged
<1>3. Reserved(u) \in Nat
  BY <1>1, ReservedChanged
<1> QED BY <1>1, <1>2, <1>3

\* No bytes are reserved when no slot has a reservation.
LEMMA ReservedNone ==
    ASSUME NEW t, \A j \in Index : t[j].reservation = 0
    PROVE  Reserved(t) = 0
<1> DEFINE f == CHOOSE h : SumsOver(SUBSET Index, t, h)
           Bad == {m \in Nat : \E s \in SUBSET Index : Cardinality(s) = m /\ f[s] # 0}
<1>1. SumsOver(SUBSET Index, t, f)
  BY SumsExist
<1>2. Reserved(t) = f[Index]
  BY DEF Reserved
<1> HIDE DEF f
<1>3. \A s \in SUBSET Index :
         f[s] = IF s = {} THEN 0 ELSE t[Picked(s)].reservation + f[s \ {Picked(s)}]
  BY <1>1 DEF SumsOver
<1>4. Bad = {}
  <2> SUFFICES ASSUME Bad # {} PROVE FALSE
    OBVIOUS
  <2>1. PICK m \in Bad : \A k \in Bad : m <= k
    <3>1. Bad \in SUBSET Nat
      OBVIOUS
    <3> HIDE DEF Bad
    <3> QED BY <3>1, LeastNumber
  <2>2. PICK s \in SUBSET Index : Cardinality(s) = m /\ f[s] # 0
    BY <2>1
  <2>3. s # {}
    BY <1>3, <2>2
  <2> DEFINE r == s \ {Picked(s)}
  <2>4. /\ Picked(s) \in Index /\ r \in SUBSET Index
        /\ Cardinality(r) = m - 1 /\ m \in Nat /\ m - 1 \in Nat
    BY <2>2, <2>3, Smaller
  <2>5. f[s] = t[Picked(s)].reservation + f[r]
    BY <1>3, <2>3
  <2> HIDE DEF r
  <2>6. f[r] = 0
    <3>1. ~(m <= m - 1)
      BY <2>4
    <3> QED BY <2>1, <2>4, <3>1
  <2> QED BY <2>2, <2>4, <2>5, <2>6
<1>5. IsFiniteSet(Index) /\ Index \in SUBSET Index
  BY TableAssumption, FS_Interval DEF Index
<1>6. Cardinality(Index) \in Nat
  BY <1>5, FS_CardinalityType
<1> QED BY <1>2, <1>4, <1>5, <1>6

-----------------------------------------------------------------------------
\* The bytes in use, with what keeps a credit from saturating: a table without
\* a budget stays one, and a free slot holds no reservation.
BudgetInv ==
    /\ budget # NoBudget => capacity # NoBudget /\ budget + Reserved(slots) = capacity
    /\ \A i \in Index : slots[i].state = "Free" => slots[i].reservation = 0

\* The sum the property is about is the one of the lemmas.
LEMMA BudgetSummed ==
    ASSUME BudgetInv
    PROVE  BudgetConserved
  BY Zenon DEF BudgetInv, BudgetConserved, Reserved, SumsOver, Picked, MapThenSumSet, MapThenFoldSet

\* How the bytes of slot i and the budget change together: not at all, debited
\* at insert, credited at reclaim.
Balanced(i, e) ==
    \/ budget' = budget /\ e.reservation = slots[i].reservation
    \/ /\ slots[i].reservation = 0 /\ Affords(e.reservation)
       /\ budget' = Debited(e.reservation)
    \/ e.reservation = 0 /\ budget' = Credited(slots[i].reservation)

\* A balanced change of one slot keeps the bytes conserved.
LEMMA BalancedKeeps ==
    ASSUME IInv, BudgetInv, NEW i \in Index, NEW e \in Entry,
           slots' = [slots EXCEPT ![i] = e], capacity' = capacity,
           e.state = "Free" => e.reservation = 0, Balanced(i, e)
    PROVE  BudgetInv'
<1> DEFINE a == slots[i].reservation
           b == e.reservation
           R == Reserved(slots)
<1>1. /\ slots \in [Index -> Entry] /\ BudgetMax \in Nat /\ NoBudget \notin 0 .. BudgetMax
      /\ budget \in (0 .. BudgetMax) \cup {NoBudget}
      /\ capacity \in (0 .. BudgetMax) \cup {NoBudget}
  BY BudgetAssumption DEF IInv, TypeOK
<1>2. /\ \A j \in Index : slots[j].reservation \in Nat
      /\ a \in Nat /\ b \in Nat
  BY <1>1 DEF Entry
<1>3. slots'[i] = e /\ \A j \in Index \ {i} : slots'[j] = slots[j]
  BY <1>1
<1>4. SlotChanged(slots, slots', i)
  BY <1>2, <1>3 DEF SlotChanged
<1>5. R \in Nat /\ a <= R
  BY <1>2, ReservedAtLeast
<1>6. Reserved(slots') = R + (b - a)
  <2> DEFINE u == slots'
  <2>1. SlotChanged(slots, u, i) /\ u[i].reservation = b
    BY <1>3, <1>4
  <2> HIDE DEF u
  <2>2. Reserved(u) = Reserved(slots) + (u[i].reservation - slots[i].reservation)
    BY <2>1, ReservedChanged
  <2> QED BY <2>1, <2>2 DEF u
<1>7. \A j \in Index : slots'[j].state = "Free" => slots'[j].reservation = 0
  BY <1>3 DEF BudgetInv
<1>8. budget # NoBudget => capacity # NoBudget /\ budget + R = capacity
  BY DEF BudgetInv
<1>9. budget' # NoBudget => capacity # NoBudget /\ budget' + (R + (b - a)) = capacity
  <2> HIDE DEF a, b, R
  <2>1. \/ budget' = budget /\ b = a
        \/ a = 0 /\ Affords(b) /\ budget' = Debited(b)
        \/ b = 0 /\ budget' = Credited(a)
    BY DEF Balanced, a, b
  <2>2. CASE budget' = budget /\ b = a
    BY <1>1, <1>2, <1>5, <1>8, <2>2
  <2>3. CASE a = 0 /\ Affords(b) /\ budget' = Debited(b)
    BY <1>1, <1>2, <1>5, <1>8, <2>3 DEF Affords, Debited
  <2>4. CASE b = 0 /\ budget' = Credited(a)
    BY <1>1, <1>2, <1>5, <1>8, <2>4 DEF Credited
  <2> QED BY <2>1, <2>2, <2>3, <2>4
<1> HIDE DEF a, b, R
<1>10. budget' # NoBudget => capacity' # NoBudget /\ budget' + Reserved(slots') = capacity'
  BY <1>6, <1>9
<1>11. BudgetInv' <=> /\ budget' # NoBudget =>
                            capacity' # NoBudget /\ budget' + Reserved(slots') = capacity'
                      /\ \A j \in Index : slots'[j].state = "Free" => slots'[j].reservation = 0
  BY DEF BudgetInv, Reserved
<1> QED BY <1>7, <1>10, <1>11

\* A reclaim credits what the slot had reserved.
LEMMA ReclaimKeeps ==
    ASSUME IInv, BudgetInv, NEW c \in Correlations, HeldAt(c), capacity' = capacity,
           slots' = [slots EXCEPT ![SlotOf(c)] = TakeStreamsEntry(Reclaimed(At(c)))],
           budget' = Credited(At(c).reservation)
    PROVE  BudgetInv'
<1> DEFINE i == SlotOf(c)
           e == TakeStreamsEntry(Reclaimed(At(c)))
<1>1. i \in Index /\ At(c) = slots[i] /\ slots[i] \in Entry
  BY DEF IInv, TypeOK, HeldAt, At
<1>2. e \in Entry /\ e.reservation = 0
  BY <1>1, ReclaimedType DEF Entry, TakeStreamsEntry, Reclaimed
<1>3. Balanced(i, e)
  BY <1>1, <1>2 DEF Balanced
<1> HIDE DEF e
<1> QED BY <1>1, <1>2, <1>3, BalancedKeeps DEF e

\* A step that keeps the reservation of the call c, and the budget, keeps the
\* bytes conserved.
LEMMA UnreservedKeeps ==
    ASSUME IInv, BudgetInv, NEW c \in Correlations, HeldAt(c), NEW e \in Entry,
           slots' = [slots EXCEPT ![SlotOf(c)] = e], e.state # "Free",
           e.reservation = At(c).reservation, UNCHANGED <<budget, capacity>>
    PROVE  BudgetInv'
<1>1. SlotOf(c) \in Index /\ At(c) = slots[SlotOf(c)]
  BY DEF HeldAt, At
<1>2. Balanced(SlotOf(c), e)
  BY <1>1 DEF Balanced
<1> QED BY <1>1, <1>2, BalancedKeeps

\* Every step keeps the bytes conserved.
LEMMA NextBudget == IInv /\ BudgetInv /\ [Next]_vars => BudgetInv'
<1> SUFFICES ASSUME IInv, BudgetInv, [Next]_vars PROVE BudgetInv'
  OBVIOUS
<1>t. ASSUME NEW c \in Correlations, HeldAt(c)
      PROVE  /\ SlotOf(c) \in Index /\ At(c) = slots[SlotOf(c)]
             /\ At(c) \in Entry /\ At(c).state # "Free"
  BY <1>t DEF IInv, TypeOK, HeldAt, Held, At
<1>1. ASSUME NEW i \in Index, NEW reservation \in Reservations, Insert(i, reservation)
      PROVE  BudgetInv'
  <2> DEFINE e == Inserted(slots[i], reservation)
  <2>1. reservation \in Nat /\ slots[i] \in Entry
    BY BudgetAssumption DEF IInv, TypeOK
  <2>2. e \in Entry /\ e.reservation = reservation /\ e.state = "InFlight"
    BY <2>1, InsertedType DEF Inserted, Entry
  <2>3. slots[i].reservation = 0
    BY <1>1 DEF Insert, LowestFree, BudgetInv
  <2>4. Balanced(i, e)
    BY <1>1, <2>2, <2>3 DEF Insert, Balanced
  <2>5. slots' = [slots EXCEPT ![i] = e] /\ capacity' = capacity
    BY <1>1 DEF Insert
  <2> HIDE DEF e
  <2> QED BY <2>2, <2>4, <2>5, BalancedKeeps
<1>2. ASSUME NEW c \in Correlations, NEW outcome \in Outcomes, Settle(c, outcome)
      PROVE  BudgetInv'
  <2>0. HeldAt(c) /\ At(c) = slots[SlotOf(c)] /\ At(c) \in Entry /\ SlotOf(c) \in Index
    BY <1>2, <1>t DEF Settle
  <2>1. CASE SettleAnswer(At(c), c) = "Reclaimed"
    <3>1. SettleEntry(At(c), c, outcome) = Reclaimed(At(c))
      BY <2>1 DEF SettleEntry
    <3> QED BY <1>2, <2>0, <2>1, <3>1, ReclaimKeeps DEF Settle, At
  <2>2. CASE SettleAnswer(At(c), c) # "Reclaimed"
    <3> DEFINE r == [At(c) EXCEPT !.state = "Settled", !.outcome = outcome, !.waker = NoWaker]
               e == TakeStreamsEntry(r)
    <3>1. SettleAnswer(At(c), c) = "Recorded"
      BY <1>2, <2>2 DEF Settle, SettleAnswer
    <3>2. slots' = [slots EXCEPT ![SlotOf(c)] = e] /\ UNCHANGED <<budget, capacity>>
      BY <1>2, <2>0, <3>1 DEF Settle, SettleEntry
    <3>3. r \in Entry /\ r.state = "Settled" /\ r.reservation = At(c).reservation
      BY <2>0 DEF Entry, States
    <3> HIDE DEF r
    <3>4. e \in Entry /\ e.state = "Settled" /\ e.reservation = At(c).reservation
      BY <3>3, ReclaimedType DEF TakeStreamsEntry, Entry
    <3> HIDE DEF e
    <3> QED BY <2>0, <3>2, <3>4, UnreservedKeeps
  <2> QED BY <2>1, <2>2
<1>3. ASSUME NEW c \in Correlations, Forget(c)
      PROVE  BudgetInv'
  <2>0. HeldAt(c) /\ At(c) = slots[SlotOf(c)] /\ At(c) \in Entry /\ SlotOf(c) \in Index
    BY <1>3, <1>t DEF Forget
  <2>1. CASE ForgetAnswer(At(c), c) = "Reclaimed"
    <3>1. ForgetEntry(At(c), c) = Reclaimed(At(c))
      BY <2>1 DEF ForgetEntry
    <3> QED BY <1>3, <2>0, <2>1, <3>1, ReclaimKeeps DEF Forget, At
  <2>2. CASE ForgetAnswer(At(c), c) # "Reclaimed"
    <3> DEFINE r == [At(c) EXCEPT !.state = "Forgotten", !.waker = NoWaker]
               e == TakeStreamsEntry(r)
    <3>1. ForgetAnswer(At(c), c) = "Marked"
      BY <1>3, <2>2 DEF Forget, ForgetAnswer
    <3>2. slots' = [slots EXCEPT ![SlotOf(c)] = e] /\ UNCHANGED <<budget, capacity>>
      BY <1>3, <2>0, <3>1 DEF Forget, ForgetEntry
    <3>3. r \in Entry /\ r.state = "Forgotten" /\ r.reservation = At(c).reservation
      BY <2>0 DEF Entry, States
    <3> HIDE DEF r
    <3>4. e \in Entry /\ e.state = "Forgotten" /\ e.reservation = At(c).reservation
      BY <3>3, ReclaimedType DEF TakeStreamsEntry, Entry
    <3> HIDE DEF e
    <3> QED BY <2>0, <3>2, <3>4, UnreservedKeeps
  <2> QED BY <2>1, <2>2
<1>4. ASSUME NEW c \in Correlations, NEW task \in Tasks, WakeOn(c, task)
      PROVE  BudgetInv'
  <2> DEFINE e == [At(c) EXCEPT !.waker = task]
  <2>0. /\ HeldAt(c) /\ At(c) = slots[SlotOf(c)] /\ At(c) \in Entry /\ At(c).state # "Free"
        /\ SlotOf(c) \in Index
    BY <1>4, <1>t DEF WakeOn
  <2>1. slots' = [slots EXCEPT ![SlotOf(c)] = e] /\ UNCHANGED <<budget, capacity>>
    BY <1>4, <2>0 DEF WakeOn, WakeOnEntry
  <2>2. e \in Entry /\ e.state # "Free" /\ e.reservation = At(c).reservation
    BY <2>0 DEF Entry
  <2> HIDE DEF e
  <2> QED BY <2>0, <2>1, <2>2, UnreservedKeeps
<1>5. ASSUME NEW c \in Correlations, NEW s \in StreamNos, NEW task \in Tasks,
             WakeOnStream(c, s, task)
      PROVE  BudgetInv'
  <2> DEFINE e == [At(c) EXCEPT !.streams[s] = task]
  <2>0. /\ HeldAt(c) /\ At(c) = slots[SlotOf(c)] /\ At(c) \in Entry /\ At(c).state # "Free"
        /\ SlotOf(c) \in Index
    BY <1>5, <1>t DEF WakeOnStream
  <2>1. slots' = [slots EXCEPT ![SlotOf(c)] = e] /\ UNCHANGED <<budget, capacity>>
    BY <1>5, <2>0 DEF WakeOnStream, WakeOnStreamEntry
  <2>2. e \in Entry /\ e.state # "Free" /\ e.reservation = At(c).reservation
    BY <2>0 DEF Entry
  <2> HIDE DEF e
  <2> QED BY <2>0, <2>1, <2>2, UnreservedKeeps
<1>6. ASSUME NEW c \in Correlations, NEW s \in StreamNos, TakeStream(c, s)
      PROVE  BudgetInv'
  <2> DEFINE e == [At(c) EXCEPT !.streams[s] = NoWaker]
  <2>0. /\ HeldAt(c) /\ At(c) = slots[SlotOf(c)] /\ At(c) \in Entry /\ At(c).state # "Free"
        /\ SlotOf(c) \in Index
    BY <1>6, <1>t DEF TakeStream
  <2>1. slots' = [slots EXCEPT ![SlotOf(c)] = e] /\ UNCHANGED <<budget, capacity>>
    BY <1>6, <2>0 DEF TakeStream, TakeStreamEntry, HeldAt
  <2>2. e \in Entry /\ e.state # "Free" /\ e.reservation = At(c).reservation
    BY <2>0 DEF Entry
  <2> HIDE DEF e
  <2> QED BY <2>0, <2>1, <2>2, UnreservedKeeps
<1>7. CASE UNCHANGED vars
  BY <1>7 DEF vars, BudgetInv, Reserved
<1> QED
  BY <1>1, <1>2, <1>3, <1>4, <1>5, <1>6, <1>7 DEF Next

\* Bytes are neither leaked at reclaim nor credited twice, and the saturating
\* credit never saturates: the budget and the reservations of the calls held
\* are the capacity the table was built with (Table::insert, Table::reclaim).
THEOREM BudgetKept == Spec => []BudgetConserved
<1>1. Init => BudgetInv
  <2> SUFFICES ASSUME Init PROVE BudgetInv
    OBVIOUS
  <2>1. \A i \in Index : slots[i].reservation = 0
    BY DEF Init, FreeEntry
  <2>2. Reserved(slots) = 0
    BY <2>1, ReservedNone
  <2>3. budget # NoBudget => budget \in Nat /\ capacity = budget
    BY BudgetAssumption DEF Init
  <2> QED BY <2>1, <2>2, <2>3 DEF BudgetInv
<1>2. IInv /\ BudgetInv /\ [Next]_vars => BudgetInv'
  BY NextBudget
<1>3. BudgetInv => BudgetConserved
  BY BudgetSummed
<1> QED
  BY <1>1, <1>2, <1>3, Invariance, PTL DEF Spec
==============================================================================
