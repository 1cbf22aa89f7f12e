--------------------------- MODULE LoopbackPortProofs ---------------------------
(***************************************************************************)
(* Theorems about what the loopback shows to the two ends of a call, on    *)
(* the invariants of LoopbackCallsProofs.                                  *)
(*                                                                         *)
(* What callers see implements CallPort: RInv ties the calls that were     *)
(* forgotten to the generations of the slots, Shown is what a caller sees  *)
(* in a state, Seen and LetGo what it sees of an operation on a cell, and  *)
(* every step sends a call, forgets some, or answers some with one outcome *)
(* (Shows).                                                                *)
(*                                                                         *)
(* Nobody sleeps on what has happened (WakeOnChange): whoever a step puts  *)
(* to sleep has nothing to go on with (Registers), a step that adds to the *)
(* queue or to what a handler serves wakes whom it concerns (Summons), and *)
(* a step that answers a call wakes its waker, which is stored (Sleeping). *)
(* Calm says the same of the states, for slots, claims and outcomes.       *)
(*                                                                         *)
(* A parameter a caller has ended stays readable after the forget          *)
(* (EndedParameterKept): EInv says that what a provider is done with holds *)
(* nothing, so that a parameter with chunks counts as undrained and the    *)
(* forget is deferred.                                                     *)
(*                                                                         *)
(* Nobody sleeps on a stream that has changed (StreamWakeOnChange): a side *)
(* whose waker an operation leaves on a stream still waits there, or made  *)
(* the change itself (Attends), and its handler still has the call         *)
(* (Attended).  A claim's id is used once, so whoever is registered on it  *)
(* after the step is registered on the call it slept on before.            *)
(***************************************************************************)
EXTENDS LoopbackCallsProofs

-----------------------------------------------------------------------------
(***************************************************************************)
(* What the caller of a call sees of an operation on it.                   *)
(***************************************************************************)
\* The operation lets nothing be seen but an answer out of A: the call goes
\* only when it was forgotten, and the slot it leaves has another generation.
Told(e, k, f, l, A) ==
    IF l = NoCall THEN k.forgotten /\ f.generation = (e.generation + 1) % GenSpan
    ELSE /\ f.generation = e.generation
         /\ l.forgotten <=> k.forgotten
         /\ \/ k.forgotten
            \/ f.state = e.state /\ f.outcome = e.outcome
            \/ e.state = "InFlight" /\ f.state = "Settled" /\ f.outcome \in A
Seen(x, y, A) == Told(x.e, x.k, y.e, y.k, A)

\* The operation forgets the call.
LetGo(x, y) ==
    IF y.k = NoCall THEN y.e.generation = (x.e.generation + 1) % GenSpan
    ELSE y.e.generation = x.e.generation /\ y.k.forgotten

\* What is seen of one operation after another.
LEMMA SeenTwice ==
    ASSUME NEW x, NEW y, NEW z, NEW A, Seen(x, y, A), y.k # NoCall, Seen(y, z, A)
    PROVE  Seen(x, z, A)
  BY DEF Seen, Told

\* Nothing is seen of a cell left alone.
LEMMA SeenSelf ==
    ASSUME NEW x, NEW A, x.k # NoCall
    PROVE  Seen(x, x, A)
  BY DEF Seen, Told

\* Nor of one whose streams were moved.
LEMMA SeenMoved ==
    ASSUME NEW x, NEW y, NEW A, CellMoved(x, y)
    PROVE  Seen(x, y, A) /\ y.k # NoCall
  BY NoneAssumption DEF CellMoved, StreamsMoved, Seen, Told

\* A forget after an operation lets go of the call.
LEMMA LetGoSeen ==
    ASSUME NEW x, NEW y, NEW z, NEW A, Seen(x, y, A), y.k # NoCall, LetGo(y, z)
    PROVE  LetGo(x, z)
  BY DEF Seen, Told, LetGo

\* Nothing is seen of letting go of a forgotten call.
LEMMA ForgottenSeen ==
    ASSUME NEW x, NEW y, NEW A, x.k.forgotten, LetGo(x, y)
    PROVE  Seen(x, y, A)
  BY DEF Seen, Told, LetGo

\* A forgotten call that is left alone is let go of.
LEMMA ForgottenLetGo ==
    ASSUME NEW x, x.k # NoCall, x.k.forgotten
    PROVE  LetGo(x, x)
  BY DEF LetGo

\* Storing and taking wakers leaves the outcome of a slot.
LEMMA SlotTold ==
    ASSUME NEW e \in Entry, NEW c, NEW s \in StreamNos, NEW task \in Tasks \cup {NoWaker}
    PROVE  /\ TakeStreamsEntry(e).outcome = e.outcome
           /\ TakeStreamEntry(e, c, s).outcome = e.outcome
           /\ WakeOnEntry(e, c, task).outcome = e.outcome
           /\ WakeOnStreamEntry(e, c, s, task).outcome = e.outcome
<1>1. TakeStreamsEntry(e).outcome = e.outcome
  BY DEF TakeStreamsEntry, Entry
<1>2. TakeStreamEntry(e, c, s).outcome = e.outcome
  BY DEF TakeStreamEntry, Entry
<1>3. WakeOnEntry(e, c, task).outcome = e.outcome
  BY DEF WakeOnEntry, Entry
<1>4. WakeOnStreamEntry(e, c, s, task).outcome = e.outcome
  BY DEF WakeOnStreamEntry, Entry
<1> QED BY <1>1, <1>2, <1>3, <1>4

\* A settlement records its outcome, or frees the slot of a forgotten call.
LEMMA SlotSettled ==
    ASSUME NEW e \in Entry, NEW c, NEW o, Held(e, c)
    PROVE  /\ e.state = "InFlight" => SettleEntry(e, c, o).outcome = o
           /\ e.state = "Forgotten" =>
                 SettleEntry(e, c, o).generation = (e.generation + 1) % GenSpan
<1>1. Reclaimed(e).generation = (e.generation + 1) % GenSpan
  BY DEF Reclaimed, Entry
<1>2. e.state = "InFlight" => SettleEntry(e, c, o).outcome = o
  BY DEF SettleEntry, SettleAnswer, Entry
<1>3. e.state = "Forgotten" => SettleEntry(e, c, o) = Reclaimed(e)
  BY DEF SettleEntry, SettleAnswer
<1> QED BY <1>1, <1>2, <1>3

\* A forget frees the slot of a settled one.
LEMMA SlotFreed ==
    ASSUME NEW e \in Entry, NEW c, Held(e, c), e.state = "Settled"
    PROVE  ForgetEntry(e, c).generation = (e.generation + 1) % GenSpan
<1>1. Reclaimed(e).generation = (e.generation + 1) % GenSpan
  BY DEF Reclaimed, Entry
<1>2. ForgetEntry(e, c) = Reclaimed(e)
  BY DEF ForgetEntry, ForgetAnswer
<1> QED BY <1>1, <1>2

\* A reclaimed slot has the next generation.
LEMMA ReclaimLetGo ==
    ASSUME NEW x, NEW z, IsCell(z), z.e \in Entry,
           z.e.generation = (x.e.generation + 1) % GenSpan
    PROVE  LetGo(x, Reclaim(z)) /\ Reclaim(z).k = NoCall
<1> DEFINE y == Reclaim(z)
<1>1. y.e = TakeStreamsEntry(z.e) /\ y.k = NoCall
  BY ReclaimFields
<1> HIDE DEF y
<1>2. y.e.generation = z.e.generation
  BY <1>1, StreamsTaken
<1>3. LetGo(x, y) /\ y.k = NoCall
  BY <1>1, <1>2 DEF LetGo
<1> QED BY <1>3 DEF y

\* Nothing is seen of taking the stream wakers.
LEMMA TakeStreamsSeen ==
    ASSUME NEW x, NEW i, NEW A, Good(x, i), x.k # NoCall
    PROVE  Seen(x, TakeStreams(x), A) /\ TakeStreams(x).k = x.k
<1> DEFINE y == TakeStreams(x)
<1>1. y.e = TakeStreamsEntry(x.e) /\ y.k = x.k
  BY TakeStreamsFields DEF Good
<1>2. x.e \in Entry
  BY DEF Good, CellOK
<1> HIDE DEF y
<1>3. y.e.state = x.e.state /\ y.e.generation = x.e.generation /\ y.e.outcome = x.e.outcome
  <2>1. 0 \in StreamNos /\ NoWaker \in Tasks \cup {NoWaker}
    BY LoopbackAssumption
  <2> QED BY <1>1, <1>2, <2>1, StreamsTaken, SlotTold
<1>4. Seen(x, y, A)
  BY <1>1, <1>3 DEF Seen, Told
<1> QED BY <1>1, <1>4 DEF y

\* Forgetting a call in the table lets go of it.
LEMMA ForgetInTableLetGo ==
    ASSUME NEW x, NEW i, Occupied(x, i), x.k.pendingForget = FALSE,
           x.e.state = "Forgotten" => x.k.forgotten
    PROVE  LetGo(x, ForgetInTable(x))
<1> DEFINE c == x.k.correlation
           y == [x EXCEPT !.e = ForgetEntry(@, c)]
<1>1. x.e \in Entry /\ Held(x.e, c) /\ IsCell(x) /\ x.k \in CallEntry /\ x.k # NoCall
  BY NoneAssumption DEF Occupied
<1>2. IsCell(y) /\ y.e = ForgetEntry(x.e, c) /\ y.k = x.k
  BY <1>1 DEF IsCell
<1>3. x.e.state \in {"InFlight", "Forgotten", "Settled"}
  BY <1>1 DEF Held, Entry, States
<1>4. ForgetInTable(x) =
         CASE ForgetAnswer(x.e, c) = "Reclaimed" -> Reclaim(y)
           [] ForgetAnswer(x.e, c) = "Marked" ->
                 [TakeStreams(y) EXCEPT !.wake = @ \cup OutcomeWaiter(x.e, c),
                                        !.k.forgotten = TRUE]
           [] OTHER -> x
  BY DEF ForgetInTable
<1> HIDE DEF y
<1>5. CASE x.e.state = "Settled"
  <2>1. ForgetAnswer(x.e, c) = "Reclaimed" /\ y.e \in Entry
    BY <1>1, <1>2, <1>5, EntryForgotten
  <2>2. ForgetInTable(x) = Reclaim(y)
    BY <1>4, <2>1
  <2>3. y.e.generation = (x.e.generation + 1) % GenSpan
    BY <1>1, <1>2, <1>5, SlotFreed
  <2> QED BY <1>2, <2>1, <2>2, <2>3, ReclaimLetGo
<1>6. CASE x.e.state = "InFlight"
  <2>1. /\ ForgetAnswer(x.e, c) = "Marked" /\ y.e \in Entry
        /\ y.e.generation = x.e.generation
    BY <1>1, <1>2, <1>6, EntryForgotten
  <2> DEFINE u == TakeStreams(y)
             w == [u EXCEPT !.wake = @ \cup OutcomeWaiter(x.e, c), !.k.forgotten = TRUE]
  <2>2. ForgetInTable(x) = w
    BY <1>4, <2>1
  <2>3. IsCell(u) /\ u.e = TakeStreamsEntry(y.e) /\ u.k = x.k
    BY <1>2, TakeStreamsFields
  <2>4. u.e.generation = x.e.generation
    BY <2>1, <2>3, StreamsTaken
  <2> HIDE DEF u
  <2>5. w.e = u.e /\ w.k = [x.k EXCEPT !.forgotten = TRUE]
    BY <2>3 DEF IsCell
  <2> HIDE DEF w
  <2>6. w.k \in CallEntry /\ w.k.forgotten
    BY <1>1, <2>5 DEF CallEntry
  <2> QED BY <2>2, <2>4, <2>5, <2>6, NoneAssumption DEF LetGo
<1>7. CASE x.e.state = "Forgotten"
  <2>1. ForgetAnswer(x.e, c) = "Unknown"
    BY <1>1, <1>7, EntryForgotten
  <2>2. ForgetInTable(x) = x
    BY <1>4, <2>1
  <2> QED BY <1>1, <1>7, <2>2, ForgottenLetGo
<1> QED BY <1>3, <1>5, <1>6, <1>7

\* So does withdrawing it: the Undelivered it is settled with is never seen.
LEMMA WithdrawLetGo ==
    ASSUME NEW x, NEW i, Occupied(x, i), x.e.state \in {"InFlight", "Forgotten"}
    PROVE  LetGo(x, Withdraw(x)) /\ Withdraw(x).k = NoCall
<1> DEFINE c == x.k.correlation
           y == [x EXCEPT !.e = SettleEntry(@, c, "Undelivered")]
           z == [y EXCEPT !.e = ForgetEntry(@, c), !.wake = @ \cup OutcomeWaiter(x.e, c)]
<1>1. x.e \in Entry /\ Held(x.e, c) /\ IsCell(x)
  BY DEF Occupied
<1>2. IsCell(y) /\ y.e = SettleEntry(x.e, c, "Undelivered") /\ y.k = x.k
  BY <1>1 DEF IsCell
<1>3. "Undelivered" \in Outcomes
  BY LoopbackAssumption
<1>4. Withdraw(x) =
         CASE SettleAnswer(x.e, c) = "Recorded" /\ ForgetAnswer(y.e, c) = "Reclaimed" -> Reclaim(z)
           [] SettleAnswer(x.e, c) = "Reclaimed" -> Reclaim(y)
           [] OTHER -> Panic(x)
  BY DEF Withdraw
<1>5. IsCell(z) /\ z.e = ForgetEntry(y.e, c)
  BY <1>2 DEF IsCell
<1> HIDE DEF y, z
<1>6. CASE x.e.state = "InFlight"
  <2>1. /\ SettleAnswer(x.e, c) = "Recorded" /\ y.e \in Entry /\ y.e.state = "Settled"
        /\ y.e.generation = x.e.generation
    BY <1>1, <1>2, <1>3, <1>6, EntrySettled
  <2>2. Held(y.e, c)
    BY <1>1, <2>1 DEF Held
  <2>3. ForgetAnswer(y.e, c) = "Reclaimed" /\ z.e \in Entry
    BY <1>5, <2>1, <2>2, EntryForgotten
  <2>4. z.e.generation = (x.e.generation + 1) % GenSpan
    BY <1>5, <2>1, <2>2, SlotFreed
  <2>5. Withdraw(x) = Reclaim(z)
    BY <1>4, <2>1, <2>3
  <2> QED BY <1>5, <2>3, <2>4, <2>5, ReclaimLetGo
<1>7. CASE x.e.state = "Forgotten"
  <2>1. SettleAnswer(x.e, c) = "Reclaimed" /\ y.e \in Entry
    BY <1>1, <1>2, <1>3, <1>7, EntrySettled
  <2>2. Withdraw(x) = Reclaim(y)
    BY <1>4, <2>1
  <2>3. y.e.generation = (x.e.generation + 1) % GenSpan
    BY <1>1, <1>2, <1>7, SlotSettled
  <2> QED BY <1>2, <2>1, <2>2, <2>3, ReclaimLetGo
<1> QED BY <1>6, <1>7

\* Nothing is seen of finishing a deferred forget.
LEMMA DeferredForgetSeen ==
    ASSUME NEW x, NEW i, NEW A, Good(x, i), x.k # NoCall, x.k.pendingForget
    PROVE  Seen(x, ForgetInTable([x EXCEPT !.k.pendingForget = FALSE]), A)
<1> DEFINE y == [x EXCEPT !.k.pendingForget = FALSE]
<1>1. Occupied(x, i) /\ x.k.forgotten /\ IsCell(x) /\ x.k \in CallEntry
  BY GoodOccupied DEF Occupied
<1>2. IsCell(y) /\ y.e = x.e /\ y.panic = x.panic /\ y.k = [x.k EXCEPT !.pendingForget = FALSE]
  BY <1>1 DEF IsCell
<1> HIDE DEF y
<1>3. /\ y.k \in CallEntry /\ SameCall(x.k, y.k) /\ y.k.pendingForget = FALSE
      /\ y.k.forgotten = x.k.forgotten /\ y.k.settledBy = x.k.settledBy
  BY <1>1, <1>2, UnmarkedEntry
<1>4. Occupied(y, i)
  BY <1>1, <1>2, <1>3 DEF Occupied, SameCall
<1> DEFINE z == ForgetInTable(y)
<1>5. LetGo(y, z)
  BY <1>1, <1>3, <1>4, ForgetInTableLetGo
<1> HIDE DEF z
<1>6. LetGo(x, z)
  BY <1>2, <1>5 DEF LetGo
<1>7. Seen(x, z, A)
  BY <1>1, <1>6, ForgottenSeen
<1> QED BY <1>7 DEF y, z

\* Nor when it is finished only once everything is read.
LEMMA ReleaseIfDrainedSeen ==
    ASSUME NEW x, NEW i, NEW A, Good(x, i), x.k # NoCall
    PROVE  Seen(x, ReleaseIfDrained(x), A)
<1>1. CASE x.k.pendingForget /\ ~Undrained(x.k)
  <2>1. ReleaseIfDrained(x) = ForgetInTable([x EXCEPT !.k.pendingForget = FALSE])
    BY <1>1 DEF ReleaseIfDrained
  <2> QED BY <1>1, <2>1, DeferredForgetSeen
<1>2. CASE ~(x.k.pendingForget /\ ~Undrained(x.k))
  <2>1. ReleaseIfDrained(x) = x
    BY <1>2 DEF ReleaseIfDrained
  <2> QED BY <2>1, SeenSelf
<1> QED BY <1>1, <1>2

\* Deferring a forget lets go of the call.
LEMMA DeferForgetLetGo ==
    ASSUME NEW x, NEW i, Good(x, i), x.k # NoCall
    PROVE  LetGo(x, DeferForget(x))
<1> DEFINE c == x.k.correlation
           u == TakeStreams(x)
           y == [u EXCEPT !.k.forgotten = TRUE, !.k.pendingForget = TRUE,
                          !.e = WakeOnEntry(@, c, Noop),
                          !.wake = @ \cup OutcomeWaiter(x.e, c)]
<1>1. Good(u, i) /\ u.k = x.k
  BY TakeStreamsMoved
<1>2. u.e \in Entry /\ IsCell(u) /\ u.k \in CallEntry
  BY <1>1, GoodOccupied DEF Occupied
<1>3. u.e.generation = x.e.generation
  <2>1. u.e = TakeStreamsEntry(x.e) /\ x.e \in Entry
    BY TakeStreamsFields DEF Good, CellOK
  <2> QED BY <2>1, StreamsTaken
<1>4. DeferForget(x) = y
  BY DEF DeferForget
<1> HIDE DEF u
<1> DEFINE f == WakeOnEntry(u.e, c, Noop)
<1>5. f.generation = u.e.generation
  <2>1. Noop \in Tasks \cup {NoWaker}
    BY LoopbackAssumption
  <2> QED BY <1>2, <2>1, WakerStored
<1> HIDE DEF f
<1>6. y.e = f /\ y.k = [u.k EXCEPT !.forgotten = TRUE, !.pendingForget = TRUE]
  BY <1>2 DEF IsCell, f
<1> HIDE DEF y
<1>7. y.k \in CallEntry /\ y.k.forgotten
  BY <1>2, <1>6 DEF CallEntry
<1> QED BY <1>3, <1>4, <1>5, <1>6, <1>7, NoneAssumption DEF LetGo

\* And so does a forget, whichever of these it is.
LEMMA ForgetCellLetGo ==
    ASSUME NEW x, NEW i, Good(x, i), x.k # NoCall,
           Waiting(x.k) => x.e.state # "Settled"
    PROVE  LetGo(x, ForgetCell(x))
<1> DEFINE y == InterruptStreams(x)
           A == {}
<1>1. Occupied(x, i) /\ x.e.state \in {"InFlight", "Forgotten", "Settled"}
      /\ (x.k.pendingForget => x.k.forgotten)
  BY GoodOccupied
<1>2. CellMoved(x, y)
  BY <1>1, InterruptStreamsMoved
<1>3. ForgetCell(x) =
         CASE x.k.pendingForget -> x
           [] Withdrawable(x.k) -> Withdraw(y)
           [] ~x.k.pendingForget /\ ~Withdrawable(x.k) /\ Defers(y.k) -> DeferForget(y)
           [] OTHER -> ForgetInTable(y)
  BY DEF ForgetCell
<1> HIDE DEF y, A
<1>4. Good(y, i) /\ y.k # NoCall /\ y.e.state = x.e.state
  BY <1>2, MovedGood
<1>5. Occupied(y, i) /\ (y.e.state = "Forgotten" => y.k.forgotten)
  BY <1>4, GoodOccupied
<1>6. Seen(x, y, A)
  BY <1>2, SeenMoved
<1>7. CASE x.k.pendingForget
  <2>1. ForgetCell(x) = x
    BY <1>3, <1>7 DEF Withdrawable
  <2> QED BY <1>1, <1>7, <2>1, ForgottenLetGo
<1>8. CASE Withdrawable(x.k)
  <2>1. ForgetCell(x) = Withdraw(y) /\ x.e.state # "Settled"
    BY <1>3, <1>8 DEF Withdrawable
  <2>2. LetGo(y, Withdraw(y))
    BY <1>1, <1>4, <1>5, <2>1, WithdrawLetGo
  <2> QED BY <1>4, <1>6, <2>1, <2>2, LetGoSeen
<1>9. CASE ~x.k.pendingForget /\ ~Withdrawable(x.k) /\ Defers(y.k)
  <2>1. ForgetCell(x) = DeferForget(y)
    BY <1>3, <1>9
  <2>2. LetGo(y, DeferForget(y))
    BY <1>4, DeferForgetLetGo
  <2> QED BY <1>4, <1>6, <2>1, <2>2, LetGoSeen
<1>10. CASE ~x.k.pendingForget /\ ~Withdrawable(x.k) /\ ~Defers(y.k)
  <2>1. ForgetCell(x) = ForgetInTable(y)
    BY <1>3, <1>10
  <2>2. y.k.pendingForget = FALSE
    BY <1>1, <1>2, <1>10 DEF CellMoved, StreamsMoved, Occupied, CallEntry
  <2>3. LetGo(y, ForgetInTable(y))
    BY <1>5, <2>2, ForgetInTableLetGo
  <2> QED BY <1>4, <1>6, <2>1, <2>3, LetGoSeen
<1> QED BY <1>7, <1>8, <1>9, <1>10

\* A settlement shows its outcome.
LEMMA SettleCellSeen ==
    ASSUME NEW x, NEW i, Good(x, i), x.k # NoCall, x.e.state \in {"InFlight", "Forgotten"},
           NEW h \in Handlers, NEW outcome \in Outcomes
    PROVE  Seen(x, SettleCell(x, h, outcome), {outcome})
<1> DEFINE c == x.k.correlation
           settled == [x EXCEPT !.e = SettleEntry(@, c, outcome), !.k.settledBy = h,
                                !.wake = @ \cup OutcomeWaiter(x.e, c)]
           done == IF x.k.kind = "Query" \/ outcome # "Ok" THEN ReleaseParameters(settled)
                   ELSE settled
           replied == [done EXCEPT !.k = FinishReply(@, outcome)]
           gone == [x EXCEPT !.e = SettleEntry(@, c, outcome)]
           A == {outcome}
<1>1. Occupied(x, i) /\ x.e \in Entry /\ x.k \in CallEntry /\ Held(x.e, c) /\ IsCell(x)
  BY GoodOccupied DEF Occupied
<1>2. SettleCell(x, h, outcome) =
         CASE SettleAnswer(x.e, c) = "Recorded" -> ReleaseIfDrained(TakeStreams(replied))
           [] SettleAnswer(x.e, c) = "Reclaimed" -> Reclaim(gone)
           [] OTHER -> Panic(x)
  BY DEF SettleCell
<1>3. /\ IsCell(settled) /\ settled.e = SettleEntry(x.e, c, outcome) /\ settled.panic = x.panic
      /\ settled.k = [x.k EXCEPT !.settledBy = h]
  BY <1>1 DEF IsCell
<1>4. IsCell(gone) /\ gone.e = SettleEntry(x.e, c, outcome)
  BY <1>1 DEF IsCell
<1>0. outcome \in A
  OBVIOUS
<1> HIDE DEF settled, gone, A
<1>5. CASE x.e.state = "Forgotten"
  <2>1. SettleAnswer(x.e, c) = "Reclaimed" /\ gone.e \in Entry
    BY <1>1, <1>4, <1>5, EntrySettled
  <2>2. SettleCell(x, h, outcome) = Reclaim(gone)
    BY <1>2, <2>1
  <2>3. gone.e.generation = (x.e.generation + 1) % GenSpan
    BY <1>1, <1>4, <1>5, SlotSettled
  <2>4. LetGo(x, Reclaim(gone))
    BY <1>4, <2>1, <2>3, ReclaimLetGo
  <2>5. x.k.forgotten
    BY <1>5, GoodOccupied
  <2>6. Seen(x, Reclaim(gone), A)
    BY <2>4, <2>5, ForgottenSeen
  <2> QED BY <2>2, <2>6 DEF A
<1>6. CASE x.e.state = "InFlight"
  <2>1. /\ SettleAnswer(x.e, c) = "Recorded" /\ settled.e \in Entry
        /\ settled.e.state = "Settled" /\ settled.e.generation = x.e.generation
    BY <1>1, <1>3, <1>6, EntrySettled
  <2>2. /\ settled.k \in CallEntry /\ SameCall(x.k, settled.k)
        /\ settled.k.forgotten = x.k.forgotten /\ settled.k.pendingForget = x.k.pendingForget
    BY <1>1, <1>3 DEF CallEntry, SameCall
  <2>3. Occupied(settled, i)
    BY <1>1, <1>3, <2>1, <2>2 DEF Occupied, Held, SameCall
  <2>4. Good(settled, i) /\ settled.k # NoCall
    BY <1>6, <2>1, <2>2, <2>3, GoodOccupied, OccupiedGood
  <2>5. CellMoved(settled, done)
    <3>1. CellMoved(settled, ReleaseParameters(settled))
      BY <1>3, <2>2, ReleaseParametersMoved
    <3>2. CellMoved(settled, settled)
      BY <1>3, <2>2 DEF CellMoved, StreamsMoved, SameCall
    <3> QED BY <3>1, <3>2
  <2> HIDE DEF done
  <2>6. CellMoved(done, replied)
    <3>1. IsCell(done) /\ done.k \in CallEntry
      BY <2>5 DEF CellMoved, StreamsMoved
    <3>2. StreamsMoved(done.k, FinishReply(done.k, outcome))
      BY <3>1, FinishReplyMoved
    <3>3. /\ IsCell(replied) /\ replied.e = done.e /\ replied.panic = done.panic
          /\ replied.k = FinishReply(done.k, outcome)
      BY <3>1 DEF IsCell
    <3> QED BY <3>2, <3>3 DEF CellMoved
  <2> HIDE DEF replied
  <2>7. CellMoved(settled, replied)
    BY <2>5, <2>6, MovedTwice
  <2>8. Good(replied, i) /\ replied.k # NoCall
    BY <2>4, <2>7, MovedGood
  <2> DEFINE w == TakeStreams(replied)
             z == ReleaseIfDrained(w)
  <2>9. Good(w, i) /\ w.k = replied.k /\ Seen(replied, w, A)
    BY <2>8, TakeStreamsMoved, TakeStreamsSeen
  <2> HIDE DEF w
  <2>10. Seen(w, z, A)
    BY <2>8, <2>9, ReleaseIfDrainedSeen
  <2>11. SettleCell(x, h, outcome) = z
    BY <1>2, <2>1 DEF w
  <2> HIDE DEF z
  <2>12. Seen(x, settled, A)
    <3>1. settled.e.outcome = outcome
      BY <1>1, <1>3, <1>6, SlotSettled
    <3> QED BY <1>0, <1>6, <2>1, <2>2, <2>4, <3>1 DEF Seen, Told
  <2>13. Seen(settled, replied, A)
    BY <2>7, SeenMoved
  <2>14. Seen(x, replied, A)
    BY <2>4, <2>12, <2>13, SeenTwice
  <2>15. Seen(x, w, A)
    BY <2>8, <2>9, <2>14, SeenTwice
  <2>16. Seen(x, z, A)
    BY <2>8, <2>9, <2>10, <2>15, SeenTwice
  <2> QED BY <2>11, <2>16 DEF A
<1> QED BY <1>5, <1>6

\* An interrupted claim shows Interrupted.
LEMMA InterruptClaimSeen ==
    ASSUME NEW x, NEW i, Good(x, i), x.k # NoCall, x.e.state \in {"InFlight", "Forgotten"},
           NEW A, "Interrupted" \in A
    PROVE  Seen(x, InterruptClaim(x), A)
<1> DEFINE c == x.k.correlation
           y == ReleaseParameters(x)
           l == [FinishReply(y.k, "Interrupted") EXCEPT !.streams[ReplyStream].waker = NoWaker]
           z == [y EXCEPT !.k = [FinishReply(@, "Interrupted") EXCEPT
                                  !.streams[ReplyStream].waker = NoWaker],
                          !.wake = @ \cup ClaimStreamWaiters(y.k, {ReplyStream}),
                          !.e = SettleEntry(@, c, "Interrupted")]
<1>1. Occupied(x, i) /\ x.e \in Entry /\ x.k \in CallEntry /\ Held(x.e, c) /\ IsCell(x)
  BY GoodOccupied DEF Occupied
<1>2. InterruptClaim(x) =
         CASE SettleAnswer(x.e, c) = "Recorded" ->
                 [TakeStreams(z) EXCEPT !.wake = @ \cup OutcomeWaiter(x.e, c)]
           [] SettleAnswer(x.e, c) = "Reclaimed" -> Reclaim(z)
           [] OTHER -> Panic(x)
  BY DEF InterruptClaim
<1>3. CellMoved(x, y)
  BY <1>1, ReleaseParametersMoved
<1> HIDE DEF y
<1>4. IsCell(y) /\ y.e = x.e /\ y.k \in CallEntry /\ y.k.forgotten = x.k.forgotten
  BY <1>3 DEF CellMoved, StreamsMoved
<1>5. IsCell(z) /\ z.e = SettleEntry(y.e, c, "Interrupted") /\ z.k = l
  BY <1>4 DEF IsCell
<1> HIDE DEF z
<1>6. l.forgotten = x.k.forgotten /\ l \in CallEntry
  <2> DEFINE r == FinishReply(y.k, "Interrupted")
             st == [r.streams[ReplyStream] EXCEPT !.waker = NoWaker]
             f == [r.streams EXCEPT ![ReplyStream] = st]
  <2>1. StreamsMoved(y.k, r)
    BY <1>4, FinishReplyMoved
  <2>2. r \in CallEntry /\ r.forgotten = x.k.forgotten /\ ReplyStream \in StreamNos
    BY <1>4, <2>1, LoopbackAssumption DEF StreamsMoved, ReplyStream
  <2>3. l = [r EXCEPT !.streams = f]
    OBVIOUS
  <2> HIDE DEF r
  <2>4. r.streams \in [StreamNos -> StreamType] /\ r.streams[ReplyStream] \in StreamType
    BY <2>2 DEF CallEntry
  <2>5. st \in StreamType
    BY <2>4 DEF StreamType
  <2> HIDE DEF st
  <2>6. f \in [StreamNos -> StreamType]
    BY <2>4, <2>5
  <2> HIDE DEF f
  <2>7. StreamsMoved(r, [r EXCEPT !.streams = f])
    BY <2>2, <2>6, StreamsReplaced
  <2> QED BY <2>2, <2>3, <2>7 DEF StreamsMoved
<1> HIDE DEF l
<1>7. "Interrupted" \in Outcomes
  BY LoopbackAssumption
<1>8. CASE x.e.state = "Forgotten"
  <2>1. SettleAnswer(x.e, c) = "Reclaimed" /\ z.e \in Entry
    BY <1>1, <1>4, <1>5, <1>7, <1>8, EntrySettled
  <2>2. InterruptClaim(x) = Reclaim(z)
    BY <1>2, <2>1
  <2>3. z.e.generation = (x.e.generation + 1) % GenSpan
    BY <1>1, <1>4, <1>5, <1>8, SlotSettled
  <2>4. LetGo(x, Reclaim(z))
    BY <1>5, <2>1, <2>3, ReclaimLetGo
  <2>5. x.k.forgotten
    BY <1>8, GoodOccupied
  <2> QED BY <2>2, <2>4, <2>5, ForgottenSeen
<1>9. CASE x.e.state = "InFlight"
  <2>1. /\ SettleAnswer(x.e, c) = "Recorded" /\ z.e \in Entry /\ z.e.state = "Settled"
        /\ z.e.generation = x.e.generation
    BY <1>1, <1>4, <1>5, <1>7, <1>9, EntrySettled
  <2>2. z.e.outcome = "Interrupted"
    BY <1>1, <1>4, <1>5, <1>9, SlotSettled
  <2> DEFINE u == TakeStreams(z)
             w == [u EXCEPT !.wake = @ \cup OutcomeWaiter(x.e, c)]
  <2>3. IsCell(u) /\ u.e = TakeStreamsEntry(z.e) /\ u.k = z.k
    BY <1>5, TakeStreamsFields
  <2>4. InterruptClaim(x) = w
    BY <1>2, <2>1
  <2> HIDE DEF u
  <2>5. w.e = u.e /\ w.k = u.k
    BY <2>3 DEF IsCell
  <2> HIDE DEF w
  <2>6. w.e.state = "Settled" /\ w.e.generation = x.e.generation /\ w.e.outcome = "Interrupted"
    <3>1. 0 \in StreamNos /\ NoWaker \in Tasks \cup {NoWaker}
      BY LoopbackAssumption
    <3> QED BY <2>1, <2>2, <2>3, <2>5, <3>1, StreamsTaken, SlotTold
  <2>7. w.k # NoCall /\ w.k.forgotten = x.k.forgotten
    BY <1>5, <1>6, <2>3, <2>5, NoneAssumption
  <2>8. Seen(x, w, A)
    BY <1>9, <2>6, <2>7 DEF Seen, Told
  <2> QED BY <2>4, <2>8
<1> QED BY <1>8, <1>9

\* Nothing is seen when the handler that settled a call goes.
LEMMA DropSettledSeen ==
    ASSUME NEW x, NEW i, NEW A, Good(x, i), x.k # NoCall, x.e.state = "Settled"
    PROVE  Seen(x, DropSettled(x), A)
<1> DEFINE v == [x EXCEPT !.k.settledBy = None]
           p == ReleaseParameters(v)
           t == TakeStreams(p)
           y == TakeClaimStreams(t)
<1>1. Occupied(x, i) /\ x.k \in CallEntry /\ IsCell(x)
  BY GoodOccupied DEF Occupied
<1>2. IsCell(v) /\ v.e = x.e /\ v.panic = x.panic /\ v.k = [x.k EXCEPT !.settledBy = None]
  BY <1>1 DEF IsCell
<1>3. DropSettled(x) =
         IF x.k.pendingForget THEN ForgetInTable([y EXCEPT !.k.pendingForget = FALSE]) ELSE y
  BY DEF DropSettled
<1> HIDE DEF v
<1>4. /\ v.k \in CallEntry /\ SameCall(x.k, v.k) /\ v.k.settledBy = None
      /\ v.k.forgotten = x.k.forgotten /\ v.k.pendingForget = x.k.pendingForget
  BY <1>1, <1>2 DEF CallEntry, SameCall, None
<1>5. Occupied(v, i)
  BY <1>1, <1>2, <1>4 DEF Occupied, SameCall
<1>6. Good(v, i) /\ v.k # NoCall
  BY <1>2, <1>4, <1>5, GoodOccupied, OccupiedGood
<1>7. CellMoved(v, p)
  BY <1>2, <1>4, ReleaseParametersMoved
<1> HIDE DEF p
<1>8. Good(p, i) /\ p.k # NoCall /\ p.k \in CallEntry
  BY <1>6, <1>7, MovedGood DEF CellMoved, StreamsMoved
<1>9. Good(t, i) /\ t.k = p.k /\ Seen(p, t, A)
  BY <1>8, TakeStreamsMoved, TakeStreamsSeen
<1> HIDE DEF t
<1>10. CellMoved(t, y)
  BY <1>8, <1>9, TakeClaimStreamsMoved DEF Good
<1> HIDE DEF y
<1>11. Good(y, i) /\ y.k # NoCall
  BY <1>8, <1>9, <1>10, MovedGood
<1>12. y.k.pendingForget = x.k.pendingForget
  BY <1>4, <1>7, <1>9, <1>10 DEF CellMoved, StreamsMoved, SameCall
<1>13. Seen(x, y, A)
  <2>1. Seen(x, v, A)
    BY <1>2, <1>4, <1>6 DEF Seen, Told
  <2>2. Seen(v, p, A) /\ Seen(t, y, A)
    BY <1>7, <1>10, SeenMoved
  <2>3. Seen(x, p, A)
    BY <1>6, <2>1, <2>2, SeenTwice
  <2>4. Seen(x, t, A)
    BY <1>8, <1>9, <2>3, SeenTwice
  <2> QED BY <1>8, <1>9, <2>2, <2>4, SeenTwice
<1>14. CASE x.k.pendingForget
  <2> DEFINE w == ForgetInTable([y EXCEPT !.k.pendingForget = FALSE])
  <2>1. Seen(y, w, A)
    BY <1>11, <1>12, <1>14, DeferredForgetSeen
  <2>2. DropSettled(x) = w
    BY <1>3, <1>14
  <2> HIDE DEF w
  <2> QED BY <1>11, <1>13, <2>1, <2>2, SeenTwice
<1>15. CASE ~x.k.pendingForget
  <2>1. DropSettled(x) = y
    BY <1>3, <1>15
  <2> QED BY <1>13, <2>1
<1> QED BY <1>14, <1>15

\* When the handler that holds a claim goes, Interrupted may be.
LEMMA DropHeldSeen ==
    ASSUME NEW x, NEW i, Good(x, i), x.k # NoCall, x.e.state \in {"InFlight", "Forgotten"},
           NEW h, NEW A, "Interrupted" \in A
    PROVE  Seen(x, DropHeld(x, h), A)
<1> DEFINE y == TakeClaimStreams(x)
<1>1. CellMoved(x, y)
  BY GoodOccupied, TakeClaimStreamsMoved DEF Occupied
<1>2. DropHeld(x, h) =
         CASE x.k.forgotten -> Withdraw(y)
           [] ~x.k.forgotten /\ Owner(x.k).taken /\ x.k.providerUsedStreams -> InterruptClaim(y)
           [] OTHER -> y
  BY DEF DropHeld
<1> HIDE DEF y
<1>3. Good(y, i) /\ y.k # NoCall /\ y.e.state = x.e.state
  BY <1>1, MovedGood
<1>4. Seen(x, y, A) /\ (y.k.forgotten <=> x.k.forgotten)
  <2>1. Seen(x, y, A)
    BY <1>1, SeenMoved
  <2> QED BY <1>1, <2>1 DEF CellMoved, StreamsMoved
<1>5. CASE x.k.forgotten
  <2>1. DropHeld(x, h) = Withdraw(y)
    BY <1>2, <1>5
  <2>2. Occupied(y, i)
    BY <1>3, GoodOccupied
  <2>3. LetGo(y, Withdraw(y))
    BY <1>3, <2>2, WithdrawLetGo
  <2>4. LetGo(x, Withdraw(y))
    BY <1>3, <1>4, <2>3, LetGoSeen
  <2> QED BY <1>5, <2>1, <2>4, ForgottenSeen
<1>6. CASE ~x.k.forgotten /\ Owner(x.k).taken /\ x.k.providerUsedStreams
  <2>1. DropHeld(x, h) = InterruptClaim(y)
    BY <1>2, <1>6
  <2>2. Seen(y, InterruptClaim(y), A)
    BY <1>3, InterruptClaimSeen
  <2> QED BY <1>3, <1>4, <2>1, <2>2, SeenTwice
<1>7. CASE ~x.k.forgotten /\ ~(Owner(x.k).taken /\ x.k.providerUsedStreams)
  <2>1. DropHeld(x, h) = y
    BY <1>2, <1>7
  <2> QED BY <1>4, <2>1
<1> QED BY <1>5, <1>6, <1>7

(***************************************************************************)
(* The operations on one stream show the caller nothing of its call.       *)
(***************************************************************************)
\* Nothing is seen of leaving one stream another one.
LEMMA WithStreamSeen ==
    ASSUME NEW x, NEW i, NEW A, Good(x, i), x.k # NoCall, NEW s \in StreamNos,
           NEW st \in StreamType, NEW side
    PROVE  /\ Seen(x, WithStream(x, s, st), A)
           /\ Seen(x, Used(WithStream(x, s, st), side), A)
<1> DEFINE u == WithStream(x, s, st)
           y == Used(u, side)
<1>1. IsCell(x) /\ x.k \in CallEntry
  BY GoodOccupied DEF Occupied
<1>2. CellMoved(x, u)
  BY <1>1, WithStreamMoved
<1> HIDE DEF u
<1>3. CellMoved(u, y)
  BY <1>2, UsedMoved DEF CellMoved, StreamsMoved
<1>4. CellMoved(x, y)
  BY <1>2, <1>3, MovedTwice
<1> HIDE DEF y
<1>5. Seen(x, u, A) /\ Seen(x, y, A)
  BY <1>2, <1>4, SeenMoved
<1> QED BY <1>5 DEF u, y

\* Nothing is seen of waking one side of a stream.
LEMMA WakeSideSeen ==
    ASSUME NEW x, NEW i, NEW A, Good(x, i), x.k # NoCall, NEW s \in StreamNos, NEW side
    PROVE  Seen(x, WakeSide(x, s, side), A)
<1>1. IsCell(x) /\ x.k \in CallEntry /\ x.e \in Entry
  BY GoodOccupied DEF Occupied
<1>2. CASE side = "Caller"
  <2> DEFINE f == TakeStreamEntry(x.e, x.k.correlation, s)
             y == [x EXCEPT !.e = TakeStreamEntry(@, x.k.correlation, s),
                            !.wake = @ \cup {<<"Stream", x.k.correlation, s, x.e.streams[s]>>}]
  <2>1. WakeSide(x, s, side) = y
    BY <1>2 DEF WakeSide
  <2>2. f.state = x.e.state /\ f.generation = x.e.generation /\ f.outcome = x.e.outcome
    <3>1. NoWaker \in Tasks \cup {NoWaker}
      OBVIOUS
    <3> QED BY <1>1, <3>1, StreamWakerTaken, SlotTold
  <2>3. y.e = f /\ y.k = x.k
    BY <1>1 DEF IsCell
  <2> HIDE DEF y, f
  <2>4. Seen(x, y, A)
    BY <2>2, <2>3 DEF Seen, Told
  <2> QED BY <2>1, <2>4
<1>3. CASE side # "Caller"
  <2> DEFINE st == [x.k.streams[s] EXCEPT !.waker = NoWaker]
             f == [x.k.streams EXCEPT ![s] = st]
             y == [x EXCEPT !.k.streams[s].waker = NoWaker,
                            !.wake = @ \cup ClaimStreamWaiters(x.k, {s})]
  <2>1. WakeSide(x, s, side) = y
    BY <1>3 DEF WakeSide
  <2>2. x.k.streams \in [StreamNos -> StreamType] /\ x.k.streams[s] \in StreamType
    BY <1>1 DEF CallEntry
  <2>3. st \in StreamType
    BY <2>2 DEF StreamType
  <2>4. IsCell(y) /\ y.e = x.e /\ y.panic = x.panic /\ y.k = [x.k EXCEPT !.streams = f]
    BY <1>1 DEF IsCell
  <2> HIDE DEF st
  <2>5. f \in [StreamNos -> StreamType]
    BY <2>2, <2>3
  <2> HIDE DEF f, y
  <2>6. CellMoved(x, y)
    BY <1>1, <2>4, <2>5, StreamsReplaced DEF CellMoved
  <2> QED BY <2>1, <2>6, SeenMoved
<1> QED BY <1>2, <1>3

\* Nor of moving a stream and waking its other side.
LEMMA MovedAndWokenSeen ==
    ASSUME NEW x, NEW i, NEW A, Good(x, i), x.k # NoCall, NEW s \in StreamNos,
           NEW st \in StreamType, NEW side, NEW other
    PROVE  Seen(x, WakeSide(Used(WithStream(x, s, st), side), s, other), A)
<1> DEFINE u == Used(WithStream(x, s, st), side)
           y == WakeSide(u, s, other)
<1>1. Kept(x, u, i) /\ u.k # NoCall /\ Seen(x, u, A)
  BY WithStreamGood, WithStreamSeen
<1> HIDE DEF u
<1>2. Seen(u, y, A)
  BY <1>1, WakeSideSeen DEF Kept
<1> HIDE DEF y
<1>3. Seen(x, y, A)
  BY <1>1, <1>2, SeenTwice
<1> QED BY <1>3 DEF u, y

\* A pull.
LEMMA PullCellSeen ==
    ASSUME NEW x, NEW i, NEW A, Good(x, i), x.k # NoCall, NEW s \in StreamNos, NEW side
    PROVE  Seen(x, PullCell(x, side, s), A)
<1> DEFINE st == Stream(x.k, s)
           t == [st EXCEPT !.chunks = Tail(@)]
           d == [st EXCEPT !.drained = TRUE]
           pulled == WakeSide(Used(WithStream(x, s, t), side), s, Other(side))
           ended == Used(WithStream(x, s, d), side)
<1>1. st \in StreamType
  BY GoodOccupied, StreamsTyped DEF Occupied
<1>2. PullCell(x, side, s) =
         CASE st.chunks # <<>> -> pulled
           [] st.chunks = <<>> /\ Finished(st) /\ side = "Provider" -> ReleaseIfDrained(ended)
           [] OTHER -> WithStream(x, s, st)
  BY DEF PullCell
<1> HIDE DEF st
<1>3. CASE st.chunks # <<>>
  <2>1. t \in StreamType
    BY <1>1, <1>3 DEF StreamType
  <2> HIDE DEF t
  <2>2. Seen(x, pulled, A)
    BY <2>1, MovedAndWokenSeen
  <2>3. PullCell(x, side, s) = pulled
    BY <1>2, <1>3
  <2> QED BY <2>2, <2>3
<1>4. CASE st.chunks = <<>> /\ Finished(st) /\ side = "Provider"
  <2>1. d \in StreamType
    BY <1>1 DEF StreamType
  <2> HIDE DEF d
  <2>2. Good(ended, i) /\ ended.k # NoCall /\ Seen(x, ended, A)
    BY <2>1, WithStreamGood, WithStreamSeen DEF Kept
  <2>3. PullCell(x, side, s) = ReleaseIfDrained(ended)
    BY <1>2, <1>4
  <2> HIDE DEF ended
  <2>4. Seen(ended, ReleaseIfDrained(ended), A)
    BY <2>2, ReleaseIfDrainedSeen
  <2> QED BY <2>2, <2>3, <2>4, SeenTwice
<1>5. CASE ~(st.chunks # <<>>) /\ ~(st.chunks = <<>> /\ Finished(st) /\ side = "Provider")
  <2>1. PullCell(x, side, s) = WithStream(x, s, st)
    BY <1>2, <1>5
  <2> QED BY <1>1, <2>1, WithStreamSeen
<1> QED BY <1>3, <1>4, <1>5

\* A push.
LEMMA PushCellSeen ==
    ASSUME NEW x, NEW i, NEW A, Good(x, i), x.k # NoCall, NEW s \in StreamNos, NEW side,
           NEW chunk \in {"bytes", "empty"}
    PROVE  Seen(x, PushCell(x, side, s, chunk), A)
<1> DEFINE st == Stream(x.k, s)
           t == [st EXCEPT !.chunks = Append(@, chunk)]
           pushed == WakeSide(Used(WithStream(x, s, t), side), s, Other(side))
<1>1. st \in StreamType
  BY GoodOccupied, StreamsTyped DEF Occupied
<1>2. PushCell(x, side, s, chunk) \in {x, WithStream(x, s, st), pushed}
  BY DEF PushCell
<1> HIDE DEF st
<1>3. t \in StreamType
  BY <1>1 DEF StreamType
<1> HIDE DEF t
<1>4. Seen(x, x, A)
  BY SeenSelf
<1>5. Seen(x, WithStream(x, s, st), A)
  BY <1>1, WithStreamSeen
<1>6. Seen(x, pushed, A)
  BY <1>3, MovedAndWokenSeen
<1> HIDE DEF pushed
<1> QED BY <1>2, <1>4, <1>5, <1>6

\* The end of a stream.
LEMMA EndCellSeen ==
    ASSUME NEW x, NEW i, NEW A, Good(x, i), x.k # NoCall, NEW s \in StreamNos, NEW side
    PROVE  Seen(x, EndCell(x, side, s), A)
<1> DEFINE st == Stream(x.k, s)
           t == [st EXCEPT !.ended = TRUE]
           u == WithStream(x, s, t)
           ended == WakeSide(u, s, Other(side))
<1>1. st \in StreamType
  BY GoodOccupied, StreamsTyped DEF Occupied
<1>2. EndCell(x, side, s) \in {x, WithStream(x, s, st), ended}
  BY DEF EndCell
<1> HIDE DEF st
<1>3. t \in StreamType
  BY <1>1 DEF StreamType
<1> HIDE DEF t
<1>4. Seen(x, x, A)
  BY SeenSelf
<1>5. Seen(x, WithStream(x, s, st), A)
  BY <1>1, WithStreamSeen
<1>6. Good(u, i) /\ u.k # NoCall /\ Seen(x, u, A)
  BY <1>3, WithStreamGood, WithStreamSeen DEF Kept
<1> HIDE DEF u
<1>7. Seen(u, ended, A)
  BY <1>6, WakeSideSeen
<1> HIDE DEF ended
<1>8. Seen(x, ended, A)
  BY <1>6, <1>7, SeenTwice
<1> QED BY <1>2, <1>4, <1>5, <1>8

\* Its abort.
LEMMA AbortCellSeen ==
    ASSUME NEW x, NEW i, NEW A, Good(x, i), x.k # NoCall, NEW s \in StreamNos, NEW side \in Sides
    PROVE  Seen(x, AbortCell(x, side, s), A)
<1> DEFINE st == Stream(x.k, s)
           receiver == Producer(s) # side
           dropped == IF receiver THEN <<>> ELSE st.chunks
           provider == side = "Provider"
           refused == [st EXCEPT !.chunks = dropped, !.drained = @ \/ (receiver /\ provider)]
           stopped == [st EXCEPT !.chunks = dropped, !.drained = @ \/ provider, !.stopped = side]
           a == Used(WithStream(x, s, refused), side)
           b == WakeSide(Used(WithStream(x, s, stopped), side), s, Other(side))
<1>1. st \in StreamType
  BY GoodOccupied, StreamsTyped DEF Occupied
<1>2. AbortCell(x, side, s) \in {a, ReleaseIfDrained(a), b, ReleaseIfDrained(b)}
  BY DEF AbortCell
<1> HIDE DEF st
<1>3. dropped \in Seq({"empty", "bytes"})
  BY <1>1 DEF StreamType
<1> HIDE DEF dropped, receiver, provider
<1>4. refused \in StreamType
  BY <1>1, <1>3 DEF StreamType
<1>5. stopped \in StreamType
  BY <1>1, <1>3 DEF StreamType, Sides
<1> HIDE DEF refused, stopped
<1>6. Kept(x, a, i) /\ a.k # NoCall /\ Seen(x, a, A)
  BY <1>4, WithStreamGood, WithStreamSeen
<1>7. Kept(x, b, i) /\ b.k # NoCall /\ Seen(x, b, A)
  BY <1>5, MovedAndWoken, MovedAndWokenSeen
<1> HIDE DEF a, b
<1>8. Seen(a, ReleaseIfDrained(a), A) /\ Seen(b, ReleaseIfDrained(b), A)
  BY <1>6, <1>7, ReleaseIfDrainedSeen DEF Kept
<1>9. Seen(x, ReleaseIfDrained(a), A) /\ Seen(x, ReleaseIfDrained(b), A)
  BY <1>6, <1>7, <1>8, SeenTwice
<1> QED BY <1>2, <1>6, <1>7, <1>9

(***************************************************************************)
(* What the caller of a call sees.                                         *)
(***************************************************************************)
\* The calls forgotten are those the store has marked or has no more; a slot
\* has the generations of the calls sent through it; an answer that can be
\* read is one that was settled with.
RInv ==
    /\ \A i \in Slots :
          calls[i] # NoCall =>
             /\ calls[i].forgotten <=> calls[i].correlation \in released
             /\ slots[i].generation + 1 <= nextSent
             /\ ~calls[i].forgotten /\ slots[i].state = "Settled" =>
                   slots[i].outcome \in Outcomes \ {"Undelivered"}
    /\ \A i \in Slots : slots[i].generation <= nextSent
    /\ \A c \in released :
          /\ SlotOf(c) \in Slots
          /\ GenerationOf(c) <= slots[SlotOf(c)].generation
          /\ calls[SlotOf(c)] = NoCall => GenerationOf(c) < slots[SlotOf(c)].generation

\* A correlation is its two halves.
LEMMA SameHalves ==
    ASSUME NEW c \in Correlations, NEW d \in Correlations,
           SlotOf(c) = SlotOf(d), GenerationOf(c) = GenerationOf(d)
    PROVE  c = d
<1>1. PICK g \in 0 .. GenSpan - 1, i \in 0 .. SlotSpan - 1 : c = Correlation(g, i)
  BY DEF Correlations
<1>2. PICK h \in 0 .. GenSpan - 1, j \in 0 .. SlotSpan - 1 : d = Correlation(h, j)
  BY DEF Correlations
<1>3. g \in Nat /\ h \in Nat
  BY SpanAssumption
<1>4. SlotOf(c) = i /\ GenerationOf(c) = g /\ SlotOf(d) = j /\ GenerationOf(d) = h
  BY <1>1, <1>2, <1>3, CorrelationHalves
<1> QED BY <1>1, <1>2, <1>4

\* The state the caller of c sees.
Shown(c) ==
    /\ c \in released => View(c) = [state |-> "Forgotten", answer |-> NoOutcome]
    /\ c \notin released /\ ~Known(c) => View(c) = [state |-> "Unsent", answer |-> NoOutcome]
    /\ c \notin released /\ Known(c) =>
          IF slots[SlotOf(c)].state = "Settled"
          THEN View(c) = [state |-> "Answered", answer |-> slots[SlotOf(c)].outcome]
          ELSE View(c) = [state |-> "Pending", answer |-> NoOutcome]

\* It is what Reply and the history of forgets give.
LEMMA ViewShown == IInv /\ RInv => \A c \in Correlations : Shown(c)
<1> SUFFICES ASSUME IInv, RInv, NEW c \in Correlations PROVE Shown(c)
  OBVIOUS
<1> DEFINE i == SlotOf(c)
<1>1. CASE Known(c)
  <2>1. i \in Slots /\ calls[i] # NoCall /\ calls[i].correlation = c
    BY <1>1 DEF Known, HasEntry
  <2>2. CellOK(slots[i], calls[i], i)
    BY <2>1 DEF IInv, CellsOK
  <2>3. /\ Held(slots[i], c)
        /\ calls[i].pendingForget => calls[i].forgotten
        /\ (slots[i].state = "Forgotten") <=> (calls[i].forgotten /\ ~calls[i].pendingForget)
        /\ slots[i].state \in {"InFlight", "Forgotten", "Settled"}
    BY <2>1, <2>2, LiveCall DEF CellOK
  <2>4. /\ calls[i].forgotten <=> c \in released
        /\ ~calls[i].forgotten /\ slots[i].state = "Settled" =>
              slots[i].outcome \in Outcomes \ {"Undelivered"}
    BY <2>1 DEF RInv
  <2>5. Reply(c) = IF calls[i].pendingForget \/ slots[i].state # "Settled" THEN NoOutcome
                   ELSE slots[i].outcome
    BY <1>1, <2>1, <2>3 DEF Reply, OutcomeOf
  <2>6. CASE c \in released
    <3>1. Reply(c) = NoOutcome
      BY <2>3, <2>4, <2>5, <2>6
    <3> QED BY <2>6, <3>1 DEF Shown, View
  <2>7. CASE c \notin released
    <3>1. ~calls[i].forgotten /\ ~calls[i].pendingForget
      BY <2>3, <2>4, <2>7
    <3>2. CASE slots[i].state = "Settled"
      <4>1. Reply(c) = slots[i].outcome /\ Reply(c) # NoOutcome
        BY <2>4, <2>5, <3>1, <3>2, OutcomeAssumption
      <4> QED BY <1>1, <2>7, <3>2, <4>1 DEF Shown, View
    <3>3. CASE slots[i].state # "Settled"
      <4>1. Reply(c) = NoOutcome
        BY <2>5, <3>3
      <4> QED BY <1>1, <2>7, <3>3, <4>1 DEF Shown, View
    <3> QED BY <3>2, <3>3
  <2> QED BY <2>6, <2>7
<1>2. CASE ~Known(c)
  <2>1. Reply(c) = NoOutcome
    <3>1. CASE i \notin Slots
      BY <1>2, <3>1 DEF Reply
    <3>2. CASE i \in Slots /\ calls[i] = NoCall
      <4>1. CellOK(slots[i], calls[i], i)
        BY <3>2 DEF IInv, CellsOK
      <4>2. slots[i].state = "Free"
        BY <3>2, <4>1, NoneAssumption DEF CellOK
      <4> QED BY <1>2, <4>2 DEF Reply, OutcomeOf
    <3>3. CASE i \in Slots /\ calls[i] # NoCall
      <4> DEFINE d == calls[i].correlation
      <4>1. d \in Correlations /\ SlotOf(d) = i /\ d # c
        BY <1>2, <3>3, LiveCall DEF Known, HasEntry
      <4>2. CellOK(slots[i], calls[i], i)
        BY <3>3 DEF IInv, CellsOK
      <4>3. slots[i].generation = GenerationOf(d)
        BY <3>3, <4>2 DEF CellOK, Held
      <4>4. GenerationOf(c) # GenerationOf(d)
        BY <4>1, SameHalves
      <4>5. ~Held(slots[i], c)
        BY <4>3, <4>4 DEF Held
      <4> QED BY <1>2, <4>5 DEF Reply, OutcomeOf
    <3> QED BY <3>1, <3>2, <3>3
  <2> QED BY <1>2, <2>1 DEF Shown, View
<1> QED BY <1>1, <1>2

\* And so it is after a step.
LEMMA ViewShownNext == (IInv /\ RInv)' => (\A c \in Correlations : Shown(c))'
  BY ViewShown, PTL

\* A step that sends nothing and forgets nothing, and answers with A only.
ToldAll(A) ==
    /\ released' = released /\ nextSent' = nextSent
    /\ \A i \in Slots :
          IF calls[i] = NoCall
          THEN calls'[i] = NoCall /\ slots'[i].generation = slots[i].generation
          ELSE Told(slots[i], calls[i], slots'[i], calls'[i], A)

\* The slot of a call before and after.
LEMMA CallSlot ==
    ASSUME IInv, NEW i \in Slots
    PROVE  /\ slots[i] \in Entry /\ slots[i].generation \in 0 .. GenSpan - 1
           /\ calls[i] # NoCall =>
                 /\ calls[i].correlation \in Correlations
                 /\ SlotOf(calls[i].correlation) = i
                 /\ GenerationOf(calls[i].correlation) = slots[i].generation
                 /\ calls[i].forgotten \in BOOLEAN
<1>1. CellOK(slots[i], calls[i], i)
  BY DEF IInv, CellsOK
<1>2. slots[i] \in Entry /\ slots[i].generation \in 0 .. GenSpan - 1
  BY <1>1 DEF CellOK, Entry
<1>3. ASSUME calls[i] # NoCall
      PROVE  /\ calls[i].correlation \in Correlations
             /\ SlotOf(calls[i].correlation) = i
             /\ GenerationOf(calls[i].correlation) = slots[i].generation
             /\ calls[i].forgotten \in BOOLEAN
  BY <1>1, <1>3 DEF CellOK, Held, CallEntry
<1> QED BY <1>2, <1>3

SlotsMatch ==
    \A i \in Slots :
        /\ slots[i] \in Entry /\ slots[i].generation \in 0 .. GenSpan - 1
        /\ calls[i] # NoCall =>
              /\ calls[i].correlation \in Correlations
              /\ SlotOf(calls[i].correlation) = i
              /\ GenerationOf(calls[i].correlation) = slots[i].generation
              /\ calls[i].forgotten \in BOOLEAN

\* And after a step.
LEMMA CallSlotNext ==
    IInv' => \A i \in Slots :
        /\ slots'[i] \in Entry /\ slots'[i].generation \in 0 .. GenSpan - 1
        /\ calls'[i] # NoCall =>
              /\ calls'[i].correlation \in Correlations
              /\ SlotOf(calls'[i].correlation) = i
              /\ GenerationOf(calls'[i].correlation) = slots'[i].generation
              /\ calls'[i].forgotten \in BOOLEAN
<1>1. IInv => SlotsMatch
  BY CallSlot DEF SlotsMatch
<1>2. IInv' => SlotsMatch'
  BY <1>1, PTL
<1> QED BY <1>2 DEF SlotsMatch

\* The next generation of the slot of a call does not wrap.
LEMMA NoWrap ==
    ASSUME IInv, RInv, NEW i \in Slots, calls[i] # NoCall
    PROVE  (slots[i].generation + 1) % GenSpan = slots[i].generation + 1
<1>1. slots[i].generation \in 0 .. GenSpan - 1
  BY CallSlot
<1>2. slots[i].generation + 1 <= nextSent /\ nextSent \in 0 .. MaxSends
  BY DEF RInv, IInv, TypeOK
<1>3. MaxSends \in Nat /\ MaxSends < GenSpan /\ GenSpan \in Nat
  BY LoopbackAssumption, SpanAssumption
<1> QED BY <1>1, <1>2, <1>3

\* Such a step leaves a call where it was, under the same correlation.
LEMMA ToldSlot ==
    ASSUME IInv, IInv', RInv, NEW A, ToldAll(A), NEW i \in Slots
    PROVE  /\ calls'[i] # NoCall =>
                 /\ calls[i] # NoCall
                 /\ calls'[i].correlation = calls[i].correlation
                 /\ slots'[i].generation = slots[i].generation
                 /\ calls'[i].forgotten = calls[i].forgotten
                 /\ \/ calls[i].forgotten
                    \/ slots'[i].state = slots[i].state /\ slots'[i].outcome = slots[i].outcome
                    \/ slots[i].state = "InFlight" /\ slots'[i].state = "Settled"
                       /\ slots'[i].outcome \in A
           /\ calls'[i] = NoCall =>
                 IF calls[i] = NoCall THEN slots'[i].generation = slots[i].generation
                 ELSE calls[i].forgotten /\ slots'[i].generation = slots[i].generation + 1
<1>1. ASSUME calls'[i] # NoCall
      PROVE  /\ calls[i] # NoCall
             /\ calls'[i].correlation = calls[i].correlation
             /\ slots'[i].generation = slots[i].generation
             /\ calls'[i].forgotten = calls[i].forgotten
             /\ \/ calls[i].forgotten
                \/ slots'[i].state = slots[i].state /\ slots'[i].outcome = slots[i].outcome
                \/ slots[i].state = "InFlight" /\ slots'[i].state = "Settled"
                   /\ slots'[i].outcome \in A
  <2>1. calls[i] # NoCall /\ Told(slots[i], calls[i], slots'[i], calls'[i], A)
    BY <1>1 DEF ToldAll
  <2>2. slots'[i].generation = slots[i].generation
        /\ (calls'[i].forgotten <=> calls[i].forgotten)
        /\ \/ calls[i].forgotten
           \/ slots'[i].state = slots[i].state /\ slots'[i].outcome = slots[i].outcome
           \/ slots[i].state = "InFlight" /\ slots'[i].state = "Settled"
              /\ slots'[i].outcome \in A
    BY <1>1, <2>1 DEF Told
  <2> DEFINE c == calls[i].correlation
             d == calls'[i].correlation
  <2>3. c \in Correlations /\ SlotOf(c) = i /\ GenerationOf(c) = slots[i].generation
        /\ calls[i].forgotten \in BOOLEAN
    BY <2>1, CallSlot
  <2>4. d \in Correlations /\ SlotOf(d) = i /\ GenerationOf(d) = slots'[i].generation
        /\ calls'[i].forgotten \in BOOLEAN
    BY <1>1, CallSlotNext
  <2>5. c = d
    <3> HIDE DEF c, d
    <3> QED BY <2>2, <2>3, <2>4, SameHalves
  <2>6. calls'[i].forgotten = calls[i].forgotten
    BY <2>2, <2>3, <2>4
  <2> QED BY <2>1, <2>2, <2>5, <2>6
<1>2. ASSUME calls'[i] = NoCall
      PROVE  IF calls[i] = NoCall THEN slots'[i].generation = slots[i].generation
             ELSE calls[i].forgotten /\ slots'[i].generation = slots[i].generation + 1
  <2>1. CASE calls[i] = NoCall
    BY <2>1 DEF ToldAll
  <2>2. CASE calls[i] # NoCall
    <3>1. Told(slots[i], calls[i], slots'[i], calls'[i], A)
      BY <2>2 DEF ToldAll
    <3>2. calls[i].forgotten /\ slots'[i].generation = (slots[i].generation + 1) % GenSpan
      BY <1>2, <3>1 DEF Told
    <3> QED BY <2>2, <3>2, NoWrap
  <2> QED BY <2>1, <2>2
<1> QED BY <1>1, <1>2

\* It keeps the invariant of what is seen.
LEMMA ToldRInv ==
    ASSUME IInv, IInv', RInv, NEW A \in SUBSET (Outcomes \ {"Undelivered"}), ToldAll(A)
    PROVE  RInv'
<1>0. released' = released /\ nextSent' = nextSent
  BY DEF ToldAll
<1>1. \A i \in Slots : slots[i].generation \in Nat /\ slots[i].generation <= nextSent
  BY CallSlot, SpanAssumption DEF RInv
<1>2. nextSent \in Nat
  BY LoopbackAssumption DEF IInv, TypeOK
<1>3. ASSUME NEW i \in Slots, calls'[i] # NoCall
      PROVE  /\ calls'[i].forgotten <=> calls'[i].correlation \in released
             /\ slots'[i].generation + 1 <= nextSent
             /\ ~calls'[i].forgotten /\ slots'[i].state = "Settled" =>
                   slots'[i].outcome \in Outcomes \ {"Undelivered"}
  <2>1. /\ calls[i] # NoCall
        /\ calls'[i].correlation = calls[i].correlation
        /\ slots'[i].generation = slots[i].generation
        /\ calls'[i].forgotten = calls[i].forgotten
        /\ \/ calls[i].forgotten
           \/ slots'[i].state = slots[i].state /\ slots'[i].outcome = slots[i].outcome
           \/ slots[i].state = "InFlight" /\ slots'[i].state = "Settled"
              /\ slots'[i].outcome \in A
    BY <1>3, ToldSlot
  <2>2. /\ calls[i].forgotten <=> calls[i].correlation \in released
        /\ slots[i].generation + 1 <= nextSent
        /\ ~calls[i].forgotten /\ slots[i].state = "Settled" =>
              slots[i].outcome \in Outcomes \ {"Undelivered"}
    BY <2>1 DEF RInv
  <2> QED BY <2>1, <2>2
<1>4. ASSUME NEW i \in Slots
      PROVE  /\ slots'[i].generation \in Nat
             /\ slots[i].generation <= slots'[i].generation
             /\ slots'[i].generation <= nextSent
  <2>1. \/ slots'[i].generation = slots[i].generation
        \/ calls[i] # NoCall /\ slots'[i].generation = slots[i].generation + 1
    BY ToldSlot
  <2>2. calls[i] # NoCall => slots[i].generation + 1 <= nextSent
    BY DEF RInv
  <2> QED BY <1>1, <1>2, <2>1, <2>2
<1>5. ASSUME NEW c \in released
      PROVE  /\ SlotOf(c) \in Slots
             /\ GenerationOf(c) <= slots'[SlotOf(c)].generation
             /\ calls'[SlotOf(c)] = NoCall => GenerationOf(c) < slots'[SlotOf(c)].generation
  <2> DEFINE i == SlotOf(c)
             g == GenerationOf(c)
  <2>1. i \in Slots /\ g <= slots[i].generation
        /\ (calls[i] = NoCall => g < slots[i].generation)
    BY DEF RInv
  <2>2. g \in Int
    <3>1. c \in Nat
      BY CorrelationNumber DEF IInv, TypeOK
    <3> QED BY <3>1, SpanAssumption DEF GenerationOf
  <2> HIDE DEF i, g
  <2>3. calls'[i] = NoCall => \/ calls[i] = NoCall /\ slots'[i].generation = slots[i].generation
                              \/ slots'[i].generation = slots[i].generation + 1
    BY <2>1, ToldSlot
  <2>4. g <= slots'[i].generation /\ (calls'[i] = NoCall => g < slots'[i].generation)
    BY <1>1, <1>4, <2>1, <2>2, <2>3
  <2> QED BY <2>1, <2>4 DEF i, g
<1> QED BY <1>0, <1>3, <1>4, <1>5 DEF RInv

\* And what a caller sees of its call changes to an answer of A at most.
LEMMA ToldView ==
    ASSUME IInv, IInv', RInv, RInv', NEW A, ToldAll(A), NEW c \in Correlations
    PROVE  \/ View(c)' = View(c)
           \/ \E a \in A : /\ View(c) = [state |-> "Pending", answer |-> NoOutcome]
                           /\ View(c)' = [state |-> "Answered", answer |-> a]
<1> DEFINE i == SlotOf(c)
<1>1. Shown(c) /\ Shown(c)'
  BY ViewShown, ViewShownNext
<1>2. released' = released
  BY DEF ToldAll
<1>3. CASE c \in released
  BY <1>1, <1>2, <1>3 DEF Shown
<1>4. CASE c \notin released /\ Known(c)
  <2>1. i \in Slots /\ calls[i] # NoCall /\ calls[i].correlation = c
    BY <1>4 DEF Known, HasEntry
  <2>2. ~calls[i].forgotten
    BY <1>4, <2>1 DEF RInv
  <2>3. calls'[i] # NoCall
    BY <2>1, <2>2, ToldSlot
  <2>4. /\ calls'[i].correlation = c
        /\ \/ slots'[i].state = slots[i].state /\ slots'[i].outcome = slots[i].outcome
           \/ slots[i].state = "InFlight" /\ slots'[i].state = "Settled"
              /\ slots'[i].outcome \in A
    BY <2>1, <2>2, <2>3, ToldSlot
  <2>5. Known(c)'
    BY <2>1, <2>3, <2>4 DEF Known, HasEntry
  <2>6. IF slots[i].state = "Settled"
        THEN View(c) = [state |-> "Answered", answer |-> slots[i].outcome]
        ELSE View(c) = [state |-> "Pending", answer |-> NoOutcome]
    BY <1>1, <1>4 DEF Shown
  <2>7. IF slots'[i].state = "Settled"
        THEN View(c)' = [state |-> "Answered", answer |-> slots'[i].outcome]
        ELSE View(c)' = [state |-> "Pending", answer |-> NoOutcome]
    BY <1>1, <1>2, <1>4, <2>5 DEF Shown
  <2> QED BY <2>4, <2>6, <2>7
<1>5. CASE c \notin released /\ ~Known(c)
  <2>1. ~Known(c)'
    <3> SUFFICES ASSUME i \in Slots, calls'[i] # NoCall, calls'[i].correlation = c
                 PROVE  FALSE
      BY DEF Known, HasEntry
    <3>1. calls[i] # NoCall /\ calls[i].correlation = c
      BY ToldSlot
    <3> QED BY <1>5, <3>1 DEF Known, HasEntry
  <2> QED BY <1>1, <1>2, <1>5, <2>1 DEF Shown
<1> QED BY <1>3, <1>4, <1>5

\* A step that forgets the calls in the slots of D, and changes no other call.
LetGoAll(D) ==
    /\ released' = released \cup {calls[i].correlation : i \in D}
    /\ nextSent' = nextSent
    /\ \A i \in Slots :
          IF calls[i] = NoCall
          THEN calls'[i] = NoCall /\ slots'[i].generation = slots[i].generation
          ELSE IF i \in D
          THEN IF calls'[i] = NoCall
               THEN slots'[i].generation = (slots[i].generation + 1) % GenSpan
               ELSE slots'[i].generation = slots[i].generation /\ calls'[i].forgotten
          ELSE calls'[i] = calls[i] /\ slots'[i] = slots[i]

\* It leaves a call where it was, under the same correlation, or takes one of D.
LEMMA LetGoSlot ==
    ASSUME IInv, IInv', RInv, NEW D \in SUBSET Live, LetGoAll(D), NEW i \in Slots
    PROVE  /\ calls'[i] # NoCall =>
                 /\ calls[i] # NoCall
                 /\ calls'[i].correlation = calls[i].correlation
                 /\ slots'[i].generation = slots[i].generation
                 /\ IF i \in D THEN calls'[i].forgotten
                    ELSE calls'[i] = calls[i] /\ slots'[i] = slots[i]
           /\ calls'[i] = NoCall =>
                 IF calls[i] = NoCall THEN slots'[i].generation = slots[i].generation
                 ELSE i \in D /\ slots'[i].generation = slots[i].generation + 1
<1>1. ASSUME calls'[i] # NoCall
      PROVE  /\ calls[i] # NoCall
             /\ calls'[i].correlation = calls[i].correlation
             /\ slots'[i].generation = slots[i].generation
             /\ IF i \in D THEN calls'[i].forgotten
                ELSE calls'[i] = calls[i] /\ slots'[i] = slots[i]
  <2>1. calls[i] # NoCall /\ slots'[i].generation = slots[i].generation
        /\ IF i \in D THEN calls'[i].forgotten
           ELSE calls'[i] = calls[i] /\ slots'[i] = slots[i]
    BY <1>1 DEF LetGoAll
  <2> DEFINE c == calls[i].correlation
             d == calls'[i].correlation
  <2>3. c \in Correlations /\ SlotOf(c) = i /\ GenerationOf(c) = slots[i].generation
    BY <2>1, CallSlot
  <2>4. d \in Correlations /\ SlotOf(d) = i /\ GenerationOf(d) = slots'[i].generation
    BY <1>1, CallSlotNext
  <2>5. c = d
    <3> HIDE DEF c, d
    <3> QED BY <2>1, <2>3, <2>4, SameHalves
  <2> QED BY <2>1, <2>5
<1>2. ASSUME calls'[i] = NoCall
      PROVE  IF calls[i] = NoCall THEN slots'[i].generation = slots[i].generation
             ELSE i \in D /\ slots'[i].generation = slots[i].generation + 1
  <2>1. CASE calls[i] = NoCall
    BY <2>1 DEF LetGoAll
  <2>2. CASE calls[i] # NoCall
    <3>1. i \in D /\ slots'[i].generation = (slots[i].generation + 1) % GenSpan
      BY <1>2, <2>2 DEF LetGoAll
    <3> QED BY <2>2, <3>1, NoWrap
  <2> QED BY <2>1, <2>2
<1> QED BY <1>1, <1>2

\* Only the calls in D are newly released.
LEMMA NewlyReleased ==
    ASSUME IInv, NEW D \in SUBSET Live, LetGoAll(D), NEW i \in Slots, calls[i] # NoCall
    PROVE  calls[i].correlation \in released' <=> (calls[i].correlation \in released \/ i \in D)
<1> DEFINE c == calls[i].correlation
<1>1. SlotOf(c) = i
  BY CallSlot
<1>2. \A j \in D : SlotOf(calls[j].correlation) = j
  BY CallSlot DEF Live
<1>3. released' = released \cup {calls[j].correlation : j \in D}
  BY DEF LetGoAll
<1>4. (\E j \in D : c = calls[j].correlation) <=> i \in D
  BY <1>1, <1>2
<1> QED BY <1>3, <1>4

\* It keeps the invariant of what is seen.
LEMMA LetGoRInv ==
    ASSUME IInv, IInv', RInv, NEW D \in SUBSET Live, LetGoAll(D)
    PROVE  RInv'
<1>0. released' = released \cup {calls[i].correlation : i \in D} /\ nextSent' = nextSent
  BY DEF LetGoAll
<1>1. \A i \in Slots : slots[i].generation \in Nat /\ slots[i].generation <= nextSent
  BY CallSlot, SpanAssumption DEF RInv
<1>2. nextSent \in Nat
  BY LoopbackAssumption DEF IInv, TypeOK
<1>3. ASSUME NEW i \in Slots, calls'[i] # NoCall
      PROVE  /\ calls'[i].forgotten <=> calls'[i].correlation \in released'
             /\ slots'[i].generation + 1 <= nextSent
             /\ ~calls'[i].forgotten /\ slots'[i].state = "Settled" =>
                   slots'[i].outcome \in Outcomes \ {"Undelivered"}
  <2>1. /\ calls[i] # NoCall
        /\ calls'[i].correlation = calls[i].correlation
        /\ slots'[i].generation = slots[i].generation
        /\ IF i \in D THEN calls'[i].forgotten
           ELSE calls'[i] = calls[i] /\ slots'[i] = slots[i]
    BY <1>3, LetGoSlot
  <2>2. /\ calls[i].forgotten <=> calls[i].correlation \in released
        /\ slots[i].generation + 1 <= nextSent
        /\ ~calls[i].forgotten /\ slots[i].state = "Settled" =>
              slots[i].outcome \in Outcomes \ {"Undelivered"}
    BY <2>1 DEF RInv
  <2>3. calls[i].correlation \in released' <=> (calls[i].correlation \in released \/ i \in D)
    BY <2>1, NewlyReleased
  <2> QED BY <2>1, <2>2, <2>3
<1>4. ASSUME NEW i \in Slots
      PROVE  /\ slots'[i].generation \in Nat
             /\ slots[i].generation <= slots'[i].generation
             /\ slots'[i].generation <= nextSent
  <2>1. \/ slots'[i].generation = slots[i].generation
        \/ calls[i] # NoCall /\ slots'[i].generation = slots[i].generation + 1
    BY LetGoSlot
  <2>2. calls[i] # NoCall => slots[i].generation + 1 <= nextSent
    BY DEF RInv
  <2> QED BY <1>1, <1>2, <2>1, <2>2
<1>5. ASSUME NEW c \in released'
      PROVE  /\ SlotOf(c) \in Slots
             /\ GenerationOf(c) <= slots'[SlotOf(c)].generation
             /\ calls'[SlotOf(c)] = NoCall => GenerationOf(c) < slots'[SlotOf(c)].generation
  <2> DEFINE i == SlotOf(c)
             g == GenerationOf(c)
  <2>1. /\ i \in Slots /\ g <= slots[i].generation
        /\ (calls[i] = NoCall => g < slots[i].generation)
        /\ g \in Int
    <3>1. CASE c \in released
      <4>1. c \in Nat
        BY <3>1, CorrelationNumber DEF IInv, TypeOK
      <4>2. g \in Int
        BY <4>1, SpanAssumption DEF GenerationOf
      <4> QED BY <3>1, <4>2 DEF RInv
    <3>2. CASE c \notin released
      <4>1. PICK j \in D : c = calls[j].correlation
        BY <1>0, <3>2
      <4>2. j \in Slots /\ calls[j] # NoCall
        BY DEF Live
      <4>3. i = j /\ g = slots[j].generation
        BY <4>1, <4>2, CallSlot
      <4> HIDE DEF i, g
      <4>4. slots[j].generation \in Nat
        BY <1>1, <4>2
      <4> QED BY <4>2, <4>3, <4>4
    <3> QED BY <3>1, <3>2
  <2> HIDE DEF i, g
  <2>3. calls'[i] = NoCall => \/ calls[i] = NoCall /\ slots'[i].generation = slots[i].generation
                              \/ slots'[i].generation = slots[i].generation + 1
    BY <2>1, LetGoSlot
  <2>4. g <= slots'[i].generation /\ (calls'[i] = NoCall => g < slots'[i].generation)
    BY <1>1, <1>4, <2>1, <2>3
  <2> QED BY <2>1, <2>4 DEF i, g
<1> QED BY <1>0, <1>3, <1>4, <1>5 DEF RInv

\* And a caller sees at most that its call is forgotten.
LEMMA LetGoView ==
    ASSUME IInv, IInv', RInv, RInv', NEW D \in SUBSET Live, LetGoAll(D), NEW c \in Correlations
    PROVE  \/ View(c)' = View(c)
           \/ /\ View(c).state \in {"Pending", "Answered"}
              /\ View(c)' = [state |-> "Forgotten", answer |-> NoOutcome]
<1> DEFINE i == SlotOf(c)
<1>1. Shown(c) /\ Shown(c)'
  BY ViewShown, ViewShownNext
<1>2. released' = released \cup {calls[j].correlation : j \in D}
  BY DEF LetGoAll
<1>3. CASE c \in released
  BY <1>1, <1>2, <1>3 DEF Shown
<1>4. CASE c \notin released /\ Known(c)
  <2>1. i \in Slots /\ calls[i] # NoCall /\ calls[i].correlation = c
    BY <1>4 DEF Known, HasEntry
  <2>2. c \in released' <=> i \in D
    BY <1>4, <2>1, NewlyReleased
  <2>3. IF slots[i].state = "Settled"
        THEN View(c) = [state |-> "Answered", answer |-> slots[i].outcome]
        ELSE View(c) = [state |-> "Pending", answer |-> NoOutcome]
    BY <1>1, <1>4 DEF Shown
  <2>4. CASE i \in D
    <3>1. View(c)' = [state |-> "Forgotten", answer |-> NoOutcome]
      BY <1>1, <2>2, <2>4 DEF Shown
    <3> QED BY <2>3, <3>1
  <2>5. CASE i \notin D
    <3>1. calls'[i] = calls[i] /\ slots'[i] = slots[i]
      BY <2>1, <2>5 DEF LetGoAll
    <3>2. Known(c)'
      BY <2>1, <3>1 DEF Known, HasEntry
    <3>3. IF slots'[i].state = "Settled"
          THEN View(c)' = [state |-> "Answered", answer |-> slots'[i].outcome]
          ELSE View(c)' = [state |-> "Pending", answer |-> NoOutcome]
      BY <1>1, <2>2, <2>5, <3>2 DEF Shown
    <3> QED BY <2>3, <3>1, <3>3
  <2> QED BY <2>4, <2>5
<1>5. CASE c \notin released /\ ~Known(c)
  <2>1. ~Known(c)'
    <3> SUFFICES ASSUME i \in Slots, calls'[i] # NoCall, calls'[i].correlation = c
                 PROVE  FALSE
      BY DEF Known, HasEntry
    <3>1. calls[i] # NoCall /\ calls[i].correlation = c
      BY LetGoSlot
    <3> QED BY <1>5, <3>1 DEF Known, HasEntry
  <2>2. c \notin released'
    <3> SUFFICES ASSUME NEW j \in D, c = calls[j].correlation PROVE FALSE
      BY <1>2, <1>5
    <3>1. j \in Slots /\ calls[j] # NoCall /\ SlotOf(c) = j
      BY CallSlot DEF Live
    <3> QED BY <1>5, <3>1 DEF Known, HasEntry
  <2> QED BY <1>1, <1>5, <2>1, <2>2 DEF Shown
<1> QED BY <1>3, <1>4, <1>5

\* A step that sends the call c through slot i, and changes no other call.
SentAs(c, i) ==
    /\ released' = released /\ nextSent' = nextSent + 1
    /\ calls[i] = NoCall /\ calls'[i] # NoCall
    /\ calls'[i].correlation = c
    /\ SlotOf(c) = i /\ GenerationOf(c) = slots[i].generation
    /\ ~calls'[i].forgotten /\ slots'[i].state = "InFlight"
    /\ slots'[i].generation = slots[i].generation
    /\ \A j \in Slots \ {i} : calls'[j] = calls[j] /\ slots'[j] = slots[j]

\* Send.
LEMMA SendSent ==
    ASSUME IInv, NEW caller \in Callers, NEW kind \in Kinds, NEW member \in Members,
           Send(caller, kind, member)
    PROVE  \E i \in Slots, c \in Correlations : SentAs(c, i)
<1> DEFINE i == Min(FreeSlots)
           c == Correlation(slots[i].generation, i)
           k == NewCall(c, caller, kind, member)
           cell == [Cell(i) EXCEPT !.e = Inserted(@, 0), !.k = NewCall(c, caller, kind, member)]
           cells == [j \in Slots |-> IF j = i THEN cell ELSE Cell(j)]
           more == ClaimWaiters({h \in handlers : Serves(h, member)})
<1>1. /\ Apply(cells, more) /\ pending' = Append(pending, c)
      /\ nextSent < MaxSends /\ nextSent' = nextSent + 1
      /\ UNCHANGED <<claims, nextClaim, handlers>>
  BY DEF Send, handlerVars
<1>2. i \in Slots /\ slots[i].state = "Free"
  <2>1. FreeSlots # {} /\ FreeSlots \in SUBSET Slots /\ FreeSlots \in SUBSET Nat
    <3>1. FreeSlots # {}
      BY DEF Send
    <3>2. FreeSlots \subseteq Slots
      BY DEF FreeSlots
    <3>3. Slots \subseteq Nat
      BY LoopbackAssumption DEF Slots
    <3> QED BY <3>1, <3>2, <3>3
  <2>2. Min(FreeSlots) \in FreeSlots
    BY <2>1, MinIsLeast
  <2> QED BY <2>1, <2>2 DEF FreeSlots
<1> HIDE DEF more, i
<1>3. slots[i] \in Entry /\ slots[i].generation \in 0 .. GenSpan - 1 /\ calls[i] = NoCall
  <2>1. CellOK(slots[i], calls[i], i)
    BY <1>2 DEF IInv, CellsOK
  <2> QED BY <1>2, <2>1 DEF CellOK, Entry
<1>4. c \in Correlations /\ SlotOf(c) = i /\ GenerationOf(c) = slots[i].generation
  <2>1. i \in 0 .. SlotSpan - 1
    BY <1>2, LoopbackAssumption, SpanAssumption DEF Slots
  <2>2. slots[i].generation \in Nat
    BY <1>3, SpanAssumption
  <2>3. SlotOf(c) = i /\ GenerationOf(c) = slots[i].generation
    BY <2>1, <2>2, CorrelationHalves
  <2> QED BY <1>3, <2>1, <2>3 DEF Correlations
<1> HIDE DEF c
<1>5. nextSent \in Nat /\ nextSent \in 0 .. MaxSends /\ nextClaim \in Nat /\ nextClaim >= 1
  BY LoopbackAssumption DEF IInv, TypeOK
<1>6. /\ k \in CallEntry /\ k.correlation = c /\ k.sent = nextSent /\ k.claim = None
      /\ k.forgotten = FALSE /\ k.pendingForget = FALSE /\ k.settledBy = None
  <2>1. [s \in StreamNos |-> UnnamedStream] \in [StreamNos -> StreamType]
    BY StreamsTyped
  <2>2. None \in ClaimIds \cup {None} /\ None \in Handlers \cup {None}
    OBVIOUS
  <2> HIDE DEF k
  <2>3. k = NewCall(c, caller, kind, member)
    BY DEF k
  <2> QED BY <1>4, <1>5, <2>1, <2>2, <2>3 DEF NewCall, CallEntry
<1> DEFINE f == Inserted(slots[i], 0)
<1>7. f \in Entry /\ f.state = "InFlight" /\ f.generation = slots[i].generation
  BY <1>3 DEF Inserted, Entry, States, NoStreams
<1>8. IsCell(cell) /\ cell.e = f /\ cell.k = k /\ cell.panic = FALSE
  BY DEF IsCell, Cell
<1> HIDE DEF k, f, cell
<1>9. k # NoCall
  BY <1>6, NoneAssumption
<1>10. Good(cell, i)
  <2>1. Held(f, c)
    BY <1>4, <1>7 DEF Held
  <2>2. CellOK(f, k, i)
    BY <1>4, <1>6, <1>7, <2>1 DEF CellOK
  <2> QED BY <1>8, <2>2 DEF Good
<1>11. \A j \in Slots : cells[j] = IF j = i THEN cell ELSE Cell(j)
  OBVIOUS
<1> HIDE DEF cells
<1>12. \A j \in Slots : Good(cells[j], j)
  BY <1>10, <1>11, CellGood
<1>13. /\ slots' = [j \in Slots |-> cells[j].e] /\ calls' = [j \in Slots |-> cells[j].k]
       /\ slots' \in [Slots -> Entry]
       /\ calls' \in [Slots -> CallEntry \cup {NoCall}]
       /\ slotWaker' \in [Callers -> Wakers \cup {NoWaker}]
       /\ asleep' \subseteq Registrations
       /\ panicked' = FALSE
       /\ CellsOK'
  BY <1>1, <1>12, Applied
<1>14. /\ calls'[i] = k /\ slots'[i] = f
       /\ \A j \in Slots \ {i} : calls'[j] = calls[j] /\ slots'[j] = slots[j]
  BY <1>2, <1>8, <1>11, <1>13, CellGood
<1>15. released' = released
  BY DEF Send
<1>16. SentAs(c, i)
  BY <1>1, <1>3, <1>4, <1>6, <1>7, <1>9, <1>14, <1>15 DEF SentAs
<1> QED BY <1>2, <1>4, <1>16

\* A call that is sent was not known before, and not forgotten.
LEMMA SentFresh ==
    ASSUME IInv, RInv, NEW i \in Slots, NEW c \in Correlations, SentAs(c, i)
    PROVE  c \notin released /\ ~Known(c)
<1>1. calls[i] = NoCall /\ SlotOf(c) = i /\ GenerationOf(c) = slots[i].generation
  BY DEF SentAs
<1>2. slots[i].generation \in Nat
  BY CallSlot, SpanAssumption
<1>3. c \in released => GenerationOf(c) < slots[i].generation
  BY <1>1 DEF RInv
<1> QED BY <1>1, <1>2, <1>3 DEF Known, HasEntry

\* Sending keeps the invariant of what is seen.
LEMMA SentRInv ==
    ASSUME IInv, RInv, NEW i \in Slots, NEW c \in Correlations, SentAs(c, i)
    PROVE  RInv'
<1>0. released' = released /\ nextSent' = nextSent + 1
  BY DEF SentAs
<1>1. nextSent \in Nat /\ \A j \in Slots : slots[j].generation \in Nat
  BY CallSlot, SpanAssumption, LoopbackAssumption DEF IInv, TypeOK
<1>2. ASSUME NEW j \in Slots, calls'[j] # NoCall
      PROVE  /\ calls'[j].forgotten <=> calls'[j].correlation \in released
             /\ slots'[j].generation + 1 <= nextSent'
             /\ ~calls'[j].forgotten /\ slots'[j].state = "Settled" =>
                   slots'[j].outcome \in Outcomes \ {"Undelivered"}
  <2>1. CASE j = i
    <3>1. /\ ~calls'[i].forgotten /\ calls'[i].correlation = c
          /\ slots'[i].state = "InFlight" /\ slots'[i].generation = slots[i].generation
      BY DEF SentAs
    <3>2. slots[i].generation <= nextSent
      BY DEF RInv
    <3>3. c \notin released
      BY SentFresh
    <3>4. slots'[i].generation + 1 <= nextSent'
      BY <1>0, <1>1, <3>1, <3>2
    <3> QED BY <2>1, <3>1, <3>3, <3>4
  <2>2. CASE j # i
    <3>1. calls'[j] = calls[j] /\ slots'[j] = slots[j]
      BY <2>2 DEF SentAs
    <3>2. /\ calls[j].forgotten <=> calls[j].correlation \in released
          /\ slots[j].generation + 1 <= nextSent
          /\ ~calls[j].forgotten /\ slots[j].state = "Settled" =>
                slots[j].outcome \in Outcomes \ {"Undelivered"}
      BY <1>2, <3>1 DEF RInv
    <3>3. slots[j].generation + 1 <= nextSent + 1
      BY <1>1, <3>2
    <3> QED BY <1>0, <3>1, <3>2, <3>3
  <2> QED BY <2>1, <2>2
<1>3. \A j \in Slots : slots'[j].generation = slots[j].generation
                       /\ (calls'[j] = NoCall => calls[j] = NoCall)
  BY DEF SentAs
<1>4. \A j \in Slots : slots'[j].generation <= nextSent'
  <2>1. \A j \in Slots : slots[j].generation <= nextSent
    BY DEF RInv
  <2> QED BY <1>0, <1>1, <1>3, <2>1
<1>5. ASSUME NEW d \in released
      PROVE  /\ SlotOf(d) \in Slots
             /\ GenerationOf(d) <= slots'[SlotOf(d)].generation
             /\ calls'[SlotOf(d)] = NoCall => GenerationOf(d) < slots'[SlotOf(d)].generation
  BY <1>3 DEF RInv
<1> QED BY <1>0, <1>2, <1>4, <1>5 DEF RInv

\* And shows one call as pending.
LEMMA SentView ==
    ASSUME IInv, IInv', RInv, RInv', NEW i \in Slots, NEW c \in Correlations, SentAs(c, i)
    PROVE  /\ View(c) = [state |-> "Unsent", answer |-> NoOutcome]
           /\ View(c)' = [state |-> "Pending", answer |-> NoOutcome]
           /\ \A d \in Correlations \ {c} : View(d)' = View(d)
<1>0. released' = released
  BY DEF SentAs
<1>1. c \notin released /\ ~Known(c)
  BY SentFresh
<1>2. \A d \in Correlations : Shown(d) /\ Shown(d)'
  BY ViewShown, ViewShownNext
<1>3. View(c) = [state |-> "Unsent", answer |-> NoOutcome]
  BY <1>1, <1>2 DEF Shown
<1>4. Known(c)' /\ slots'[SlotOf(c)].state # "Settled"
  BY DEF SentAs, Known, HasEntry
<1>5. View(c)' = [state |-> "Pending", answer |-> NoOutcome]
  BY <1>0, <1>1, <1>2, <1>4 DEF Shown
<1>6. ASSUME NEW d \in Correlations \ {c} PROVE View(d)' = View(d)
  <2> DEFINE j == SlotOf(d)
  <2>1. CASE j = i
    <3>1. ~Known(d) /\ ~Known(d)'
      BY <2>1 DEF SentAs, Known, HasEntry
    <3> QED BY <1>0, <1>2, <3>1 DEF Shown
  <2>2. CASE j # i
    <3>1. (Known(d)' <=> Known(d)) /\ (j \in Slots => slots'[j] = slots[j])
      BY <2>2 DEF SentAs, Known, HasEntry
    <3>2. Known(d) => j \in Slots
      BY DEF Known, HasEntry
    <3>3. CASE d \in released
      BY <1>0, <1>2, <3>3 DEF Shown
    <3>4. CASE d \notin released /\ ~Known(d)
      BY <1>0, <1>2, <3>1, <3>4 DEF Shown
    <3>5. CASE d \notin released /\ Known(d)
      <4> DEFINE V == IF slots[j].state = "Settled"
                      THEN [state |-> "Answered", answer |-> slots[j].outcome]
                      ELSE [state |-> "Pending", answer |-> NoOutcome]
      <4>1. View(d) = V
        BY <1>2, <3>5 DEF Shown
      <4>2. slots'[j] = slots[j] /\ Known(d)'
        BY <3>1, <3>2, <3>5
      <4>3. View(d)' = V
        BY <1>0, <1>2, <3>5, <4>2 DEF Shown
      <4> QED BY <4>1, <4>3
    <3> QED BY <3>3, <3>4, <3>5
  <2> QED BY <2>1, <2>2
<1> QED BY <1>3, <1>5, <1>6

Answerable == Outcomes \ {"Undelivered"}

\* A step that changes no call shows nothing.
LEMMA QuietTold ==
    ASSUME NEW A, UNCHANGED <<slots, calls, released, nextSent>>
    PROVE  ToldAll(A)
  BY DEF ToldAll, Told

\* A step of one cell shows what is seen of the cell.
LEMMA OneTold ==
    ASSUME IInv, NEW i \in Slots, calls[i] # NoCall, NEW x, NEW A, Seen(Cell(i), x, A),
           ApplyTo(i, x), UNCHANGED <<released, nextSent>>
    PROVE  ToldAll(A)
<1> DEFINE cells == [j \in Slots |-> IF j = i THEN x ELSE Cell(j)]
<1>1. slots' = [j \in Slots |-> cells[j].e] /\ calls' = [j \in Slots |-> cells[j].k]
  BY DEF ApplyTo, Apply
<1>2. cells[i] = x /\ \A j \in Slots \ {i} : cells[j] = Cell(j)
  OBVIOUS
<1> HIDE DEF cells
<1>3. \A j \in Slots \ {i} : slots'[j] = slots[j] /\ calls'[j] = calls[j]
  BY <1>1, <1>2, CellGood
<1>4. Told(slots[i], calls[i], slots'[i], calls'[i], A)
  <2>1. Cell(i).e = slots[i] /\ Cell(i).k = calls[i]
    BY CellGood
  <2>2. slots'[i] = x.e /\ calls'[i] = x.k
    BY <1>1, <1>2
  <2> QED BY <2>1, <2>2 DEF Seen
<1> QED BY <1>3, <1>4 DEF ToldAll, Told

\* A pull.
LEMMA PullTold ==
    ASSUME IInv, NEW side \in Sides, NEW i \in Slots, NEW s \in StreamNos, NEW A, Pull(side, i, s)
    PROVE  ToldAll(A)
<1> DEFINE x == Cell(i)
           y == PullCell(x, side, s)
<1>1. calls[i] # NoCall
  BY MayLive DEF Pull
<1>2. Good(x, i) /\ x.k # NoCall
  BY <1>1, CellGood
<1>3. ApplyTo(i, y) /\ UNCHANGED <<released, nextSent>>
  BY DEF Pull, streamRest
<1> HIDE DEF x
<1>4. Seen(x, y, A)
  BY <1>2, PullCellSeen
<1> HIDE DEF y
<1> QED BY <1>1, <1>3, <1>4, OneTold DEF x

\* A push.
LEMMA PushTold ==
    ASSUME IInv, NEW side \in Sides, NEW i \in Slots, NEW s \in StreamNos,
           NEW chunk \in {"bytes", "empty"}, NEW A, Push(side, i, s, chunk)
    PROVE  ToldAll(A)
<1> DEFINE x == Cell(i)
           y == PushCell(x, side, s, chunk)
<1>1. calls[i] # NoCall
  BY MayLive DEF Push
<1>2. Good(x, i) /\ x.k # NoCall
  BY <1>1, CellGood
<1>3. ApplyTo(i, y) /\ UNCHANGED <<released, nextSent>>
  BY DEF Push, streamRest
<1> HIDE DEF x
<1>4. Seen(x, y, A)
  BY <1>2, PushCellSeen
<1> HIDE DEF y
<1> QED BY <1>1, <1>3, <1>4, OneTold DEF x

\* The end of a stream that settles nothing.
LEMMA EndTold ==
    ASSUME IInv, NEW i \in Slots, NEW s \in StreamNos, NEW side, NEW A, calls[i] # NoCall,
           ApplyTo(i, EndCell(Cell(i), side, s)), UNCHANGED streamRest
    PROVE  ToldAll(A)
<1> DEFINE x == Cell(i)
           y == EndCell(x, side, s)
<1>2. Good(x, i) /\ x.k # NoCall
  BY CellGood
<1>3. ApplyTo(i, y) /\ UNCHANGED <<released, nextSent>>
  BY DEF streamRest
<1> HIDE DEF x
<1>4. Seen(x, y, A)
  BY <1>2, EndCellSeen
<1> HIDE DEF y
<1> QED BY <1>3, <1>4, OneTold DEF x

\* The abort of a stream that settles nothing.
LEMMA AbortTold ==
    ASSUME IInv, NEW i \in Slots, NEW s \in StreamNos, NEW side \in Sides, NEW A,
           calls[i] # NoCall,
           ApplyTo(i, AbortCell(Cell(i), side, s)), UNCHANGED streamRest
    PROVE  ToldAll(A)
<1> DEFINE x == Cell(i)
           y == AbortCell(x, side, s)
<1>2. Good(x, i) /\ x.k # NoCall
  BY CellGood
<1>3. ApplyTo(i, y) /\ UNCHANGED <<released, nextSent>>
  BY DEF streamRest
<1> HIDE DEF x
<1>4. Seen(x, y, A)
  BY <1>2, AbortCellSeen
<1> HIDE DEF y
<1> QED BY <1>3, <1>4, OneTold DEF x

\* A caller ends or aborts a stream.
LEMMA CallerEndTold ==
    ASSUME IInv, NEW i \in Slots, NEW s \in StreamNos, NEW A,
           CallerEnd(i, s) \/ CallerAbort(i, s)
    PROVE  ToldAll(A)
<1>1. calls[i] # NoCall
  BY DEF CallerEnd, CallerAbort, CallerMay
<1>2. \/ ApplyTo(i, EndCell(Cell(i), "Caller", s)) /\ UNCHANGED streamRest
      \/ ApplyTo(i, AbortCell(Cell(i), "Caller", s)) /\ UNCHANGED streamRest
  BY DEF CallerEnd, CallerAbort
<1>3. "Caller" \in Sides
  BY DEF Sides
<1> QED BY <1>1, <1>2, <1>3, EndTold, AbortTold

\* A handler settles a claim.
LEMMA SettleTold ==
    ASSUME IInv, NEW h \in Handlers, NEW id \in ClaimIds, NEW outcome \in Outcomes,
           SettleClaim(h, id, outcome)
    PROVE  ToldAll({outcome})
<1> DEFINE c == claims[id].call
           i == SlotOf(c)
           x == Cell(i)
           y == SettleCell(x, h, outcome)
           A == {outcome}
<1>1. /\ i \in Slots /\ calls[i] # NoCall /\ slots[i].state \in {"InFlight", "Forgotten"}
  BY ClaimCall DEF SettleClaim
<1>2. HasEntry(c)
  BY <1>1 DEF HasEntry
<1>3. ApplyTo(i, y) /\ UNCHANGED <<released, nextSent>>
  BY <1>2 DEF SettleClaim
<1>4. Good(x, i) /\ x.k # NoCall /\ x.e.state \in {"InFlight", "Forgotten"}
  BY <1>1, CellGood
<1> HIDE DEF x, i
<1>5. Seen(x, y, A)
  BY <1>4, SettleCellSeen
<1> HIDE DEF y, A
<1>6. ToldAll(A)
  BY <1>1, <1>3, <1>5, OneTold DEF x
<1> QED BY <1>6 DEF A

\* A claim's end or abort, which settles it on the reply stream.
LEMMA EndClaimTold ==
    ASSUME IInv, NEW h \in Handlers, NEW i \in Slots, NEW s \in StreamNos,
           EndClaim(h, i, s) \/ AbortClaim(h, i, s)
    PROVE  \E a \in Answerable : ToldAll({a})
<1>1. calls[i] # NoCall
  BY DEF EndClaim, AbortClaim, HandlerMay
<1>2. {"Ok", "Err"} \subseteq Outcomes /\ {"Ok", "Err"} \subseteq Answerable
  BY LoopbackAssumption DEF Answerable
<1>3. CASE s = ReplyStream /\ Claimed(calls[i])
  <2>1. calls[i].claim \in ClaimIds
    BY <1>1, <1>3, OwnedCall DEF Claimed
  <2>2. EndOutcome(calls[i]) \in {"Ok", "Err"}
    BY DEF EndOutcome
  <2>3. \E outcome \in {"Ok", "Err"} : SettleClaim(h, calls[i].claim, outcome)
    BY <1>3, <2>2 DEF EndClaim, AbortClaim
  <2> QED BY <1>2, <2>1, <2>3, SettleTold
<1>4. CASE ~(s = ReplyStream /\ Claimed(calls[i]))
  <2>1. \/ ApplyTo(i, EndCell(Cell(i), "Provider", s)) /\ UNCHANGED streamRest
        \/ ApplyTo(i, AbortCell(Cell(i), "Provider", s)) /\ UNCHANGED streamRest
    BY <1>4 DEF EndClaim, AbortClaim
  <2>2. "Provider" \in Sides
    BY DEF Sides
  <2>3. \A a \in Answerable : ToldAll({a})
    BY <1>1, <2>1, <2>2, EndTold, AbortTold
  <2> QED BY <1>2, <2>3
<1> QED BY <1>3, <1>4

\* The injected failure of a claim's end.
LEMMA EndClaimFailsTold ==
    ASSUME IInv, NEW h \in Handlers, NEW i \in Slots, NEW A, EndClaimFails(h, i)
    PROVE  ToldAll(A)
<1> DEFINE x == Cell(i)
           st == Stream(calls[i], ReplyStream)
           y == WithStream(x, ReplyStream, st)
<1>1. calls[i] # NoCall
  BY DEF EndClaimFails, HandlerMay
<1>2. Good(x, i) /\ x.k # NoCall
  BY <1>1, CellGood
<1>3. ApplyTo(i, y) /\ UNCHANGED <<released, nextSent>>
  BY DEF EndClaimFails
<1>4. ReplyStream \in StreamNos
  BY LoopbackAssumption DEF ReplyStream
<1>5. st \in StreamType
  BY <1>1, <1>4, LiveCall, StreamsTyped
<1> HIDE DEF x, st
<1>6. Seen(x, y, A)
  BY <1>2, <1>4, <1>5, WithStreamSeen
<1> HIDE DEF y
<1> QED BY <1>1, <1>3, <1>6, OneTold DEF x

\* A step that changes one slot but not what is answered from it.
LEMMA SlotStoredTold ==
    ASSUME IInv, NEW i \in Slots, NEW f, NEW A, slots' = [slots EXCEPT ![i] = f],
           f.state = slots[i].state, f.generation = slots[i].generation,
           f.outcome = slots[i].outcome,
           UNCHANGED <<calls, released, nextSent>>
    PROVE  ToldAll(A)
<1>1. slots \in [Slots -> Entry]
  BY TypesNow
<1>2. slots'[i] = f /\ \A j \in Slots \ {i} : slots'[j] = slots[j]
  BY <1>1
<1> QED BY <1>2 DEF ToldAll, Told

\* A task waits for an outcome.
LEMMA WaitOutcomeTold ==
    ASSUME IInv, NEW c \in Correlations, NEW task \in Wakers, NEW A, WaitOutcome(c, task)
    PROVE  ToldAll(A)
<1> DEFINE i == SlotOf(c)
           f == WakeOnEntry(slots[i], c, task)
<1>1. /\ i \in Slots /\ calls[i] # NoCall
      /\ slots' = [slots EXCEPT ![i] = f]
      /\ UNCHANGED <<calls, released, nextSent>>
  BY DEF WaitOutcome, Known, HasEntry
<1>2. slots[i] \in Entry /\ task \in Tasks \cup {NoWaker}
  BY <1>1, LiveCall DEF Wakers
<1> HIDE DEF i
<1>3. f.state = slots[i].state /\ f.generation = slots[i].generation
  BY <1>2, WakerStored
<1>4. f.outcome = slots[i].outcome
  BY <1>2 DEF WakeOnEntry, Entry
<1> HIDE DEF f
<1> QED BY <1>1, <1>3, <1>4, SlotStoredTold

\* A caller's task waits for a stream.
LEMMA WaitStreamTold ==
    ASSUME IInv, NEW c \in Correlations, NEW s \in StreamNos, NEW task \in Wakers, NEW A,
           WaitStream(c, s, task)
    PROVE  ToldAll(A)
<1> DEFINE i == SlotOf(c)
           f == WakeOnStreamEntry(slots[i], c, s, task)
<1>1. /\ i \in Slots /\ calls[i] # NoCall
      /\ slots' = [slots EXCEPT ![i] = f]
      /\ UNCHANGED <<calls, released, nextSent>>
  BY DEF WaitStream, Known, HasEntry, streamRest
<1>2. slots[i] \in Entry /\ task \in Tasks \cup {NoWaker}
  BY <1>1, LiveCall DEF Wakers
<1> HIDE DEF i
<1>3. f.state = slots[i].state /\ f.generation = slots[i].generation
  BY <1>2, StreamWakerStored
<1>4. f.outcome = slots[i].outcome
  BY <1>2 DEF WakeOnStreamEntry, Entry
<1> HIDE DEF f
<1> QED BY <1>1, <1>3, <1>4, SlotStoredTold

\* A step that changes one entry but not whether its call is forgotten.
LEMMA EntryStoredTold ==
    ASSUME IInv, IInv', NEW i \in Slots, NEW k, NEW A, calls' = [calls EXCEPT ![i] = k],
           calls[i] # NoCall, k.forgotten = calls[i].forgotten,
           UNCHANGED <<slots, released, nextSent>>
    PROVE  ToldAll(A)
<1>1. calls \in [Slots -> CallEntry \cup {NoCall}]
  BY TypesNow
<1>2. calls'[i] = k /\ \A j \in Slots \ {i} : calls'[j] = calls[j]
  BY <1>1
<1>3. calls'[i] # NoCall
  <2>1. CellOK(slots'[i], calls'[i], i)
    BY DEF IInv, CellsOK
  <2>2. slots'[i].state # "Free"
    BY LiveCall
  <2> QED BY <2>1, <2>2, NoneAssumption DEF CellOK
<1> QED BY <1>2, <1>3 DEF ToldAll, Told

\* A provider's task waits for a stream.
LEMMA WaitClaimStreamTold ==
    ASSUME IInv, IInv', NEW h \in Handlers, NEW i \in Slots, NEW s \in StreamNos,
           NEW task \in Wakers, NEW A, WaitClaimStream(h, i, s, task)
    PROVE  ToldAll(A)
<1> DEFINE st == Stream(calls[i], s)
           t == IF Finished(st) THEN st ELSE [st EXCEPT !.waker = task]
           k == [calls[i] EXCEPT !.streams[s] = t]
<1>1. /\ calls[i] # NoCall /\ calls' = [calls EXCEPT ![i].streams[s] = t]
      /\ UNCHANGED <<slots, released, nextSent>>
  BY DEF WaitClaimStream, HandlerMay, streamRest
<1> HIDE DEF t
<1>2. calls' = [calls EXCEPT ![i] = k]
  BY <1>1
<1>3. k.forgotten = calls[i].forgotten
  BY <1>1, LiveCall DEF CallEntry
<1> HIDE DEF k
<1> QED BY <1>1, <1>2, <1>3, EntryStoredTold

\* A handler is presented a call.
LEMMA NextClaimTold ==
    ASSUME IInv, IInv', NEW h \in Handlers, NEW fits, NEW A, NextClaim(h, fits)
    PROVE  ToldAll(A)
<1> DEFINE c == pending[Min(Servable(served[h]))]
           i == SlotOf(c)
           id == IF Mints(i) THEN nextClaim ELSE calls[i].claim
           k == [calls[i] EXCEPT !.claim = id]
<1>1. /\ ClaimWaiting(h) /\ calls' = [calls EXCEPT ![i].claim = id]
      /\ UNCHANGED <<slots, released, nextSent>>
  BY DEF NextClaim
<1>2. i \in Slots /\ calls[i] # NoCall
  BY <1>1, PresentedCall
<1> HIDE DEF i, id
<1>3. calls' = [calls EXCEPT ![i] = k]
  BY <1>1
<1>4. k.forgotten = calls[i].forgotten
  BY <1>2, LiveCall DEF CallEntry
<1> HIDE DEF k
<1> QED BY <1>1, <1>2, <1>3, <1>4, EntryStoredTold

\* The drop of a handler.
LEMMA CloseHandlerTold ==
    ASSUME IInv, NEW h \in Handlers, CloseHandler(h)
    PROVE  ToldAll({"Interrupted"})
<1> DEFINE A == {"Interrupted"}
           cells == [i \in Slots |-> CloseHandlerCell(Cell(i), h)]
<1>1. /\ slots' = [i \in Slots |-> cells[i].e] /\ calls' = [i \in Slots |-> cells[i].k]
      /\ UNCHANGED <<released, nextSent>>
  BY DEF CloseHandler, Apply
<1>2. "Interrupted" \in A
  OBVIOUS
<1> HIDE DEF A
<1>3. ASSUME NEW i \in Slots
      PROVE  IF calls[i] = NoCall
             THEN calls'[i] = NoCall /\ slots'[i].generation = slots[i].generation
             ELSE Told(slots[i], calls[i], slots'[i], calls'[i], A)
  <2> DEFINE x == Cell(i)
             z == CloseHandlerCell(x, h)
             k == calls[i]
  <2>1. Good(x, i) /\ x.e = slots[i] /\ x.k = k
    BY CellGood
  <2>2. z = CASE x.k # NoCall /\ HeldBy(h, x.k) -> DropHeld(x, h)
              [] x.k # NoCall /\ ~HeldBy(h, x.k) /\ x.k.settledBy = h -> DropSettled(x)
              [] OTHER -> x
    BY DEF CloseHandlerCell
  <2>3. slots'[i] = z.e /\ calls'[i] = z.k
    BY <1>1
  <2> HIDE DEF x, z
  <2>4. CASE k = NoCall
    <3>1. z = x
      BY <2>1, <2>2, <2>4
    <3> QED BY <2>1, <2>3, <2>4, <3>1
  <2>5. ASSUME k # NoCall PROVE Seen(x, z, A)
    <3>1. CASE HeldBy(h, k)
      <4>1. z = DropHeld(x, h)
        BY <2>1, <2>2, <2>5, <3>1
      <4>2. x.e.state \in {"InFlight", "Forgotten"}
        <5>1. Owner(k) # NoOwner
          BY <3>1 DEF HeldBy, Claimed
        <5> QED BY <2>1, <2>5, <5>1, OwnedCall
      <4> QED BY <1>2, <2>1, <2>5, <4>1, <4>2, DropHeldSeen
    <3>2. CASE ~HeldBy(h, k) /\ k.settledBy = h
      <4>1. z = DropSettled(x)
        BY <2>1, <2>2, <2>5, <3>2
      <4>2. x.e.state = "Settled"
        <5>1. CellOK(slots[i], k, i)
          BY DEF IInv, CellsOK
        <5>2. slots[i].state # "Free" /\ h # None
          BY <2>5, <5>1 DEF CellOK, Handlers, None
        <5> QED BY <2>1, <3>2, <5>1, <5>2 DEF CellOK
      <4> QED BY <2>1, <2>5, <4>1, <4>2, DropSettledSeen
    <3>3. CASE ~HeldBy(h, k) /\ k.settledBy # h
      <4>1. z = x
        BY <2>1, <2>2, <3>3
      <4> QED BY <2>1, <2>5, <4>1, SeenSelf
    <3> QED BY <3>1, <3>2, <3>3
  <2>6. CASE k # NoCall
    BY <2>1, <2>3, <2>5, <2>6 DEF Seen
  <2> QED BY <2>4, <2>6
<1>4. ToldAll(A)
  BY <1>1, <1>3 DEF ToldAll
<1> QED BY <1>4 DEF A

\* What a forget leaves of one cell.
LEMMA ForgottenLets ==
    ASSUME IInv, NEW i \in Slots, calls[i] # NoCall
    PROVE  LetGo(Cell(i), ForgetCell(Cell(i)))
<1> DEFINE x == Cell(i)
<1>1. Good(x, i) /\ x.e = slots[i] /\ x.k = calls[i]
  BY CellGood
<1>2. Waiting(calls[i]) => slots[i].state # "Settled"
  BY WaitingIff DEF WaitsIn
<1> HIDE DEF x
<1>3. LetGo(x, ForgetCell(x))
  BY <1>1, <1>2, ForgetCellLetGo
<1> QED BY <1>3 DEF x

\* A step that forgets the cells of D, and changes no other.
LEMMA AppliedLets ==
    ASSUME IInv, NEW D \in SUBSET Live, NEW cells, NEW more, Apply(cells, more),
           \A i \in Slots : cells[i] = IF i \in D THEN ForgetCell(Cell(i)) ELSE Cell(i),
           released' = released \cup {calls[i].correlation : i \in D},
           nextSent' = nextSent
    PROVE  LetGoAll(D)
<1>1. slots' = [i \in Slots |-> cells[i].e] /\ calls' = [i \in Slots |-> cells[i].k]
  BY DEF Apply
<1>2. ASSUME NEW i \in Slots, i \notin D
      PROVE  slots'[i] = slots[i] /\ calls'[i] = calls[i]
  BY <1>1, <1>2, CellGood
<1>3. ASSUME NEW i \in D
      PROVE  /\ calls[i] # NoCall
             /\ IF calls'[i] = NoCall
                THEN slots'[i].generation = (slots[i].generation + 1) % GenSpan
                ELSE slots'[i].generation = slots[i].generation /\ calls'[i].forgotten
  <2>1. i \in Slots /\ calls[i] # NoCall
    BY DEF Live
  <2> DEFINE x == Cell(i)
             y == ForgetCell(x)
  <2>2. x.e = slots[i] /\ LetGo(x, y)
    BY <2>1, CellGood, ForgottenLets
  <2>3. slots'[i] = y.e /\ calls'[i] = y.k
    BY <1>1, <2>1
  <2> HIDE DEF x, y
  <2> QED BY <2>1, <2>2, <2>3 DEF LetGo
<1> QED BY <1>2, <1>3 DEF LetGoAll, Live

(***************************************************************************)
(* Whom a forget leaves asleep.                                            *)
(***************************************************************************)
\* No task waits for the outcome of a forgotten call in the slot f.
Hushed(f, l) == l.forgotten /\ f.state = "InFlight" => f.waker \notin Wakers

\* The table marks a call in flight, and frees the slot of a settled one.
LEMMA ForgetInTableHushed ==
    ASSUME NEW x, NEW i, Occupied(x, i), x.e.state # "Forgotten",
           ForgetInTable(x).k # NoCall
    PROVE  ForgetInTable(x).e.state = "Forgotten"
<1> DEFINE c == x.k.correlation
           y == [x EXCEPT !.e = ForgetEntry(@, c)]
<1>1. x.e \in Entry /\ Held(x.e, c) /\ IsCell(x) /\ x.panic = FALSE
  BY DEF Occupied
<1>2. IsCell(y) /\ y.e = ForgetEntry(x.e, c) /\ y.k = x.k /\ y.panic = FALSE
  BY <1>1 DEF IsCell
<1>3. x.e.state \in {"InFlight", "Settled"}
  BY <1>1 DEF Held, Entry, States
<1>4. ForgetInTable(x) =
         CASE ForgetAnswer(x.e, c) = "Reclaimed" -> Reclaim(y)
           [] ForgetAnswer(x.e, c) = "Marked" ->
                 [TakeStreams(y) EXCEPT !.wake = @ \cup OutcomeWaiter(x.e, c),
                                        !.k.forgotten = TRUE]
           [] OTHER -> x
  BY DEF ForgetInTable
<1> HIDE DEF y
<1>5. CASE x.e.state = "Settled"
  <2>1. ForgetAnswer(x.e, c) = "Reclaimed" /\ y.e.state = "Free" /\ y.e \in Entry
    BY <1>1, <1>2, <1>5, EntryForgotten
  <2>2. ForgetInTable(x) = Reclaim(y)
    BY <1>4, <2>1
  <2>3. Reclaim(y).k = NoCall
    BY <1>2, <2>1, ReclaimGood
  <2> QED BY <2>2, <2>3
<1>6. CASE x.e.state = "InFlight"
  <2>1. /\ ForgetAnswer(x.e, c) = "Marked" /\ y.e.state = "Forgotten" /\ y.e \in Entry
    BY <1>1, <1>2, <1>6, EntryForgotten
  <2> DEFINE u == TakeStreams(y)
             w == [u EXCEPT !.wake = @ \cup OutcomeWaiter(x.e, c), !.k.forgotten = TRUE]
  <2>2. ForgetInTable(x) = w
    BY <1>4, <2>1
  <2>3. IsCell(u) /\ u.e = TakeStreamsEntry(y.e)
    BY <1>2, TakeStreamsFields
  <2>4. u.e.state = "Forgotten"
    BY <2>1, <2>3, StreamsTaken
  <2> HIDE DEF u
  <2>5. w.e = u.e
    BY <2>3 DEF IsCell
  <2> HIDE DEF w
  <2> QED BY <2>2, <2>4, <2>5
<1> QED BY <1>3, <1>5, <1>6

\* A deferred forget leaves the waker that does nothing.
LEMMA DeferForgetHushed ==
    ASSUME NEW x, NEW i, Good(x, i), x.k # NoCall, ~x.k.forgotten
    PROVE  LET y == DeferForget(x) IN y.e.state = "InFlight" => y.e.waker = Noop
<1> DEFINE c == x.k.correlation
           u == TakeStreams(x)
           y == [u EXCEPT !.k.forgotten = TRUE, !.k.pendingForget = TRUE,
                          !.e = WakeOnEntry(@, c, Noop),
                          !.wake = @ \cup OutcomeWaiter(x.e, c)]
<1>1. Good(u, i) /\ u.k = x.k /\ u.e.state = x.e.state
  BY TakeStreamsMoved
<1>2. Occupied(u, i)
  BY <1>1, GoodOccupied
<1>3. DeferForget(x) = y
  BY DEF DeferForget
<1>4. u.e \in Entry /\ Held(u.e, c) /\ IsCell(u)
  BY <1>1, <1>2 DEF Occupied
<1> HIDE DEF u
<1> DEFINE f == WakeOnEntry(u.e, c, Noop)
<1>5. f.state = u.e.state /\ (u.e.state = "InFlight" => f.waker = Noop)
  BY <1>4 DEF WakeOnEntry, StoresOutcome, Entry
<1> HIDE DEF f
<1>6. y.e = f
  BY <1>4 DEF IsCell, f
<1> HIDE DEF y
<1> QED BY <1>3, <1>5, <1>6

\* What a forget leaves of the call it names.
LEMMA ForgetCellHushed ==
    ASSUME NEW x, NEW i, Good(x, i), x.k # NoCall, ~x.k.forgotten,
           Waiting(x.k) => x.e.state # "Settled"
    PROVE  LET y == ForgetCell(x) IN y.k # NoCall => Hushed(y.e, y.k)
<1> DEFINE y == InterruptStreams(x)
<1>1. Occupied(x, i) /\ x.e.state \in {"InFlight", "Forgotten", "Settled"} /\ ~x.k.pendingForget
  BY GoodOccupied
<1>2. CellMoved(x, y)
  BY <1>1, InterruptStreamsMoved
<1>3. ForgetCell(x) =
         CASE x.k.pendingForget -> x
           [] Withdrawable(x.k) -> Withdraw(y)
           [] ~x.k.pendingForget /\ ~Withdrawable(x.k) /\ Defers(y.k) -> DeferForget(y)
           [] OTHER -> ForgetInTable(y)
  BY DEF ForgetCell
<1> HIDE DEF y
<1>4. Good(y, i) /\ y.k # NoCall /\ y.e.state = x.e.state
  BY <1>2, MovedGood
<1>5. Occupied(y, i) /\ (y.e.state = "Forgotten" => y.k.forgotten)
  BY <1>4, GoodOccupied
<1>6. ~y.k.forgotten
  BY <1>2 DEF CellMoved, StreamsMoved
<1>7. CASE Withdrawable(x.k)
  <2>1. ForgetCell(x).k = NoCall
    BY <1>7, ForgetCellGood
  <2> QED BY <2>1
<1>8. CASE ~Withdrawable(x.k) /\ Defers(y.k)
  <2>1. ForgetCell(x) = DeferForget(y)
    BY <1>1, <1>3, <1>8
  <2>2. DeferForget(y).e.state = "InFlight" => DeferForget(y).e.waker = Noop
    BY <1>4, <1>6, DeferForgetHushed
  <2> QED BY <2>1, <2>2, NoWakerIsNone DEF Hushed
<1>9. CASE ~Withdrawable(x.k) /\ ~Defers(y.k)
  <2>1. ForgetCell(x) = ForgetInTable(y)
    BY <1>1, <1>3, <1>9
  <2>2. ForgetInTable(y).k # NoCall => ForgetInTable(y).e.state = "Forgotten"
    BY <1>5, <1>6, ForgetInTableHushed
  <2> QED BY <2>1, <2>2 DEF Hushed
<1> QED BY <1>7, <1>8, <1>9

\* A call that a step forgets is waited for by nobody after it.
NewlyHushed ==
    \A i \in Slots :
        calls[i] # NoCall /\ ~calls[i].forgotten /\ calls'[i] # NoCall
            => Hushed(slots'[i], calls'[i])

\* A step that forgets the cells of D leaves nobody waiting for them.
LEMMA AppliedHushed ==
    ASSUME IInv, NEW D \in SUBSET Live, NEW cells, NEW more, Apply(cells, more),
           \A i \in Slots : cells[i] = IF i \in D THEN ForgetCell(Cell(i)) ELSE Cell(i)
    PROVE  NewlyHushed
<1>1. slots' = [i \in Slots |-> cells[i].e] /\ calls' = [i \in Slots |-> cells[i].k]
  BY DEF Apply
<1> SUFFICES ASSUME NEW i \in Slots, calls[i] # NoCall, ~calls[i].forgotten, calls'[i] # NoCall
             PROVE  Hushed(slots'[i], calls'[i])
  BY DEF NewlyHushed
<1> DEFINE x == Cell(i)
           y == ForgetCell(x)
<1>2. Good(x, i) /\ x.e = slots[i] /\ x.k = calls[i]
  BY CellGood
<1>3. CASE i \in D
  <2>1. Waiting(calls[i]) => slots[i].state # "Settled"
    BY WaitingIff DEF WaitsIn
  <2> HIDE DEF x
  <2>2. y.k # NoCall => Hushed(y.e, y.k)
    BY <1>2, <2>1, ForgetCellHushed
  <2> HIDE DEF y
  <2>3. slots'[i] = y.e /\ calls'[i] = y.k
    BY <1>1, <1>3 DEF x, y
  <2> QED BY <2>2, <2>3
<1>4. CASE i \notin D
  <2>1. calls'[i] = calls[i]
    BY <1>1, <1>2, <1>4
  <2> QED BY <2>1 DEF Hushed
<1> QED BY <1>3, <1>4

\* Forget.
LEMMA ForgetLets ==
    ASSUME IInv, NEW c \in Correlations, Forget(c)
    PROVE  \E D \in SUBSET Live : LetGoAll(D) /\ NewlyHushed
<1> DEFINE i == SlotOf(c)
           D == {i}
           cells == [j \in Slots |-> IF j = i THEN ForgetCell(Cell(i)) ELSE Cell(j)]
           more == {}
<1>1. i \in Slots /\ calls[i] # NoCall /\ calls[i].correlation = c
  BY DEF Forget, Known, HasEntry
<1>2. /\ Apply(cells, more) /\ released' = released \cup {c} /\ nextSent' = nextSent
  BY DEF Forget, ApplyTo
<1> HIDE DEF i, more
<1>3. \A j \in Slots : cells[j] = IF j \in D THEN ForgetCell(Cell(j)) ELSE Cell(j)
  OBVIOUS
<1>4. D \in SUBSET Live /\ {calls[j].correlation : j \in D} = {c}
  BY <1>1 DEF Live
<1> HIDE DEF cells, D
<1>5. LetGoAll(D) /\ NewlyHushed
  BY <1>2, <1>3, <1>4, AppliedLets, AppliedHushed
<1> QED BY <1>4, <1>5

\* The drop of a caller: all its calls are forgotten at once.
LEMMA CloseCallerLets ==
    ASSUME IInv, NEW caller \in Callers, CloseCaller(caller)
    PROVE  \E D \in SUBSET Live : LetGoAll(D) /\ NewlyHushed
<1> DEFINE D == {i \in Slots : calls[i] # NoCall /\ calls[i].caller = caller}
           cells == [i \in Slots |-> IF i \in D THEN ForgetCell(Cell(i)) ELSE Cell(i)]
           more == {<<"Slot", caller, 0, slotWaker[caller]>>}
<1>1. /\ Apply(cells, more) /\ released' = released \cup {calls[i].correlation : i \in D}
      /\ nextSent' = nextSent
  BY DEF CloseCaller
<1>2. D \in SUBSET Live
  BY DEF Live
<1> HIDE DEF D, more
<1>3. \A i \in Slots : cells[i] = IF i \in D THEN ForgetCell(Cell(i)) ELSE Cell(i)
  OBVIOUS
<1> HIDE DEF cells
<1>4. LetGoAll(D) /\ NewlyHushed
  BY <1>1, <1>2, <1>3, AppliedLets, AppliedHushed
<1> QED BY <1>2, <1>4

\* What a step is for the callers: it sends a call, forgets some, or answers
\* some with one outcome a caller may read.
Shows ==
    \/ \E i \in Slots, c \in Correlations : SentAs(c, i)
    \/ \E D \in SUBSET Live : LetGoAll(D) /\ NewlyHushed
    \/ \E a \in Answerable : ToldAll({a})

\* What handlers settle with, and what a drop does.
LEMMA SomeAnswer == {"Ok", "Err", "Interrupted"} \subseteq Answerable /\ {"Ok", "Err"} \subseteq Outcomes
  BY LoopbackAssumption DEF Answerable

\* Every operation on calls is one of these.
LEMMA CallsNextShows == IInv /\ IInv' /\ Next => Shows
<1> SUFFICES ASSUME IInv, IInv', Next PROVE Shows
  OBVIOUS
<1>0. {"Ok", "Err", "Interrupted"} \subseteq Answerable /\ {"Ok", "Err"} \subseteq Outcomes
  BY SomeAnswer
<1>a. ASSUME NEW a \in Answerable, ToldAll({a}) PROVE Shows
  BY <1>a DEF Shows
<1>b. (\A a \in Answerable : ToldAll({a})) => Shows
  BY <1>0, <1>a
<1>c. UNCHANGED <<slots, calls, released, nextSent>> => Shows
  BY <1>b, QuietTold
<1>1. CASE OpenCaller \/ OpenHandler \/ FailNextSettle
  BY <1>1, <1>c DEF OpenCaller, OpenHandler, FailNextSettle
<1>2. ASSUME NEW caller \in Callers, NEW kind \in Kinds, NEW member \in Members,
             Send(caller, kind, member)
      PROVE  Shows
  BY <1>2, SendSent DEF Shows
<1>3. ASSUME NEW caller \in Callers, CloseCaller(caller)
      PROVE  Shows
  BY <1>3, CloseCallerLets DEF Shows
<1>4. ASSUME NEW caller \in Callers, NEW task \in Wakers, WaitSlot(caller, task)
      PROVE  Shows
  BY <1>4, <1>c DEF WaitSlot
<1>5. ASSUME NEW c \in Correlations, Forget(c)
      PROVE  Shows
  BY <1>5, ForgetLets DEF Shows
<1>6. ASSUME NEW c \in Correlations, NEW task \in Wakers, WaitOutcome(c, task)
      PROVE  Shows
  BY <1>6, <1>b, WaitOutcomeTold
<1>7. ASSUME NEW h \in Handlers, NEW member \in Members, Serve(h, member)
      PROVE  Shows
  BY <1>7, <1>c DEF Serve
<1>8. ASSUME NEW h \in Handlers, NEW fits \in BOOLEAN, NextClaim(h, fits)
      PROVE  Shows
  BY <1>8, <1>b, NextClaimTold
<1>9. ASSUME NEW h \in Handlers, NEW id \in ClaimIds, NEW outcome \in {"Ok", "Err"},
             Settle(h, id, outcome)
      PROVE  Shows
  BY <1>0, <1>9, <1>a, SettleTold DEF Settle
<1>10. ASSUME NEW h \in Handlers, NEW id \in ClaimIds, SettleFails(h, id)
      PROVE  Shows
  BY <1>10, <1>c DEF SettleFails
<1>11. ASSUME NEW h \in Handlers, CloseHandler(h)
      PROVE  Shows
  BY <1>0, <1>11, <1>a, CloseHandlerTold
<1>12. ASSUME NEW h \in Handlers, NEW task \in Wakers, WaitClaim(h, task)
      PROVE  Shows
  BY <1>12, <1>c DEF WaitClaim
<1> QED
  BY <1>1, <1>2, <1>3, <1>4, <1>5, <1>6, <1>7, <1>8, <1>9, <1>10, <1>11, <1>12 DEF Next

\* And every operation on a call's streams.
LEMMA StreamsNextShows == IInv /\ IInv' /\ NextStream => Shows
<1> SUFFICES ASSUME IInv, IInv', NextStream PROVE Shows
  OBVIOUS
<1>a. ASSUME \A a \in Answerable : ToldAll({a}) PROVE Shows
  BY <1>a, SomeAnswer DEF Shows
<1>1. ASSUME NEW side \in Sides, NEW i \in Slots, NEW s \in StreamNos, Pull(side, i, s)
      PROVE  Shows
  BY <1>1, <1>a, PullTold
<1>2. ASSUME NEW side \in Sides, NEW i \in Slots, NEW s \in StreamNos,
             NEW chunk \in {"bytes", "empty"}, Push(side, i, s, chunk)
      PROVE  Shows
  BY <1>2, <1>a, PushTold
<1>3. ASSUME NEW i \in Slots, NEW s \in StreamNos, CallerEnd(i, s) \/ CallerAbort(i, s)
      PROVE  Shows
  BY <1>3, <1>a, CallerEndTold
<1>4. ASSUME NEW i \in Slots, NEW s \in StreamNos, NEW h \in Handlers,
             EndClaim(h, i, s) \/ AbortClaim(h, i, s)
      PROVE  Shows
  BY <1>4, EndClaimTold DEF Shows
<1>5. ASSUME NEW i \in Slots, NEW s \in StreamNos, NEW h \in Handlers, NEW task \in Wakers,
             WaitClaimStream(h, i, s, task)
      PROVE  Shows
  BY <1>5, <1>a, WaitClaimStreamTold
<1>6. ASSUME NEW h \in Handlers, NEW i \in Slots, EndClaimFails(h, i)
      PROVE  Shows
  BY <1>6, <1>a, EndClaimFailsTold
<1>7. ASSUME NEW c \in Correlations, NEW s \in StreamNos, NEW task \in Wakers,
             WaitStream(c, s, task)
      PROVE  Shows
  BY <1>7, <1>a, WaitStreamTold
<1> QED
  BY <1>1, <1>2, <1>3, <1>4, <1>5, <1>6, <1>7 DEF NextStream

\* Each keeps the invariant of what is seen.
LEMMA ShowsRInv == IInv /\ IInv' /\ RInv /\ Shows => RInv'
<1> SUFFICES ASSUME IInv, IInv', RInv, Shows PROVE RInv'
  OBVIOUS
<1>1. ASSUME NEW i \in Slots, NEW c \in Correlations, SentAs(c, i) PROVE RInv'
  BY <1>1, SentRInv
<1>2. ASSUME NEW D \in SUBSET Live, LetGoAll(D) PROVE RInv'
  BY <1>2, LetGoRInv
<1>3. ASSUME NEW a \in Answerable, ToldAll({a}) PROVE RInv'
  <2> DEFINE A == {a}
  <2>1. A \in SUBSET (Outcomes \ {"Undelivered"}) /\ ToldAll(A)
    BY <1>3 DEF Answerable
  <2> HIDE DEF A
  <2> QED BY <2>1, ToldRInv
<1> QED BY <1>1, <1>2, <1>3 DEF Shows

\* Each is a step of the port.
LEMMA ShowsPort ==
    IInv /\ IInv' /\ RInv /\ RInv' /\ Shows => Port!Next
<1> SUFFICES ASSUME IInv, IInv', RInv, RInv', Shows
             PROVE  Port!Send \/ Port!Answer \/ Port!Forget
  BY DEF Port!Next
<1>1. ASSUME NEW i \in Slots, NEW c \in Correlations, SentAs(c, i)
      PROVE  Port!Send
  <2>1. /\ View(c) = [state |-> "Unsent", answer |-> NoOutcome]
        /\ View(c)' = [state |-> "Pending", answer |-> NoOutcome]
        /\ \A d \in Correlations \ {c} : View(d)' = View(d)
    BY <1>1, SentView
  <2> QED BY <2>1 DEF Port!Send, Port!Same, Port!Unsent, Port!Pending
<1>2. ASSUME NEW D \in SUBSET Live, LetGoAll(D)
      PROVE  Port!Forget
  <2>1. \A c \in Correlations :
           \/ View(c)' = View(c)
           \/ /\ View(c).state \in {"Pending", "Answered"}
              /\ View(c)' = [state |-> "Forgotten", answer |-> NoOutcome]
    BY <1>2, LetGoView
  <2> QED BY <2>1 DEF Port!Forget, Port!Same, Port!Forgotten
<1>3. ASSUME NEW a \in Answerable, ToldAll({a})
      PROVE  Port!Answer
  <2> DEFINE A == {a}
  <2>1. ToldAll(A)
    BY <1>3
  <2>2. A = {a}
    OBVIOUS
  <2> HIDE DEF A
  <2>3. \A c \in Correlations :
           \/ View(c)' = View(c)
           \/ \E b \in A : /\ View(c) = [state |-> "Pending", answer |-> NoOutcome]
                           /\ View(c)' = [state |-> "Answered", answer |-> b]
    BY <2>1, ToldView
  <2>4. \A c \in Correlations :
           \/ View(c)' = View(c)
           \/ /\ View(c) = [state |-> "Pending", answer |-> NoOutcome]
              /\ View(c)' = [state |-> "Answered", answer |-> a]
    BY <2>2, <2>3
  <2> QED BY <2>4 DEF Port!Answer, Port!Same, Port!Pending, Port!Answered, Answerable
<1> QED BY <1>1, <1>2, <1>3 DEF Shows

\* A step of neither shows nothing.
LEMMA StutterShows == RInv /\ UNCHANGED vars
    => RInv' /\ \A c \in Correlations : View(c)' = View(c)
  BY DEF vars, RInv, View, Reply, Known, HasEntry

\* The first state.
LEMMA InitShows == Init => RInv /\ Port!Init
<1> SUFFICES ASSUME Init PROVE RInv /\ Port!Init
  OBVIOUS
<1>1. /\ slots = [i \in Slots |-> FreeEntry] /\ calls = [i \in Slots |-> NoCall]
      /\ nextSent = 0 /\ released = {}
  BY DEF Init
<1>2. \A i \in Slots : slots[i].generation = 0 /\ slots[i].state = "Free"
  BY <1>1 DEF FreeEntry
<1>3. RInv
  BY <1>1, <1>2 DEF RInv
<1>4. \A c \in Correlations : Reply(c) = NoOutcome /\ ~Known(c)
  BY <1>1, <1>2 DEF Reply, Known, HasEntry, OutcomeOf, Held
<1>5. Port!Init
  BY <1>1, <1>4 DEF Port!Init, Port!Unsent, View
<1> QED BY <1>3, <1>5

\* A step of the store is a step of the port or moves no view.
LEMMA PortStep ==
    IInv /\ RInv /\ [StreamsNext]_vars
        => RInv' /\ [Port!Next]_([c \in Correlations |-> View(c)])
<1> SUFFICES ASSUME IInv, RInv, [StreamsNext]_vars
             PROVE  RInv' /\ [Port!Next]_([c \in Correlations |-> View(c)])
  OBVIOUS
<1>1. CASE StreamsNext
  <2>1. IInv'
    BY <1>1, CallsNextInv, StreamsNextInv DEF StreamsNext
  <2>2. Shows
    BY <1>1, <2>1, CallsNextShows, StreamsNextShows DEF StreamsNext
  <2>3. RInv'
    BY <2>1, <2>2, ShowsRInv
  <2> QED BY <2>1, <2>2, <2>3, ShowsPort
<1>2. CASE UNCHANGED vars
  BY <1>2, StutterShows
<1> QED BY <1>1, <1>2

\* The store of the loopback implements the calls of the port, streams and all.
THEOREM LoopbackImplementsPort == StreamsSpec => PortSpec
<1>1. Init => IInv
  BY InitInv
<1>2. IInv /\ [StreamsNext]_vars => IInv'
  BY CallsNextInv, StreamsNextInv, StutterInv DEF StreamsNext
<1>3. Init => RInv /\ Port!Init
  BY InitShows
<1>4. IInv /\ RInv /\ [StreamsNext]_vars
        => RInv' /\ [Port!Next]_([c \in Correlations |-> View(c)])
  BY PortStep
<1> QED
  BY <1>1, <1>2, <1>3, <1>4, PTL DEF StreamsSpec, PortSpec, Port!Spec

(***************************************************************************)
(* Who is asleep, and what there is to wait for.                           *)
(***************************************************************************)
WaitingNow == WaitingSet(claims, slots, calls)

\* A task that falls asleep in a step has nothing to go on with.
Registers ==
    \A r \in asleep' :
        \/ r \in asleep
        \/ r[1] = "Slot" /\ ~SlotReady /\ calls' = calls
        \/ /\ r[1] = "Claim" /\ r[2] \in handlers /\ ~ClaimWaiting(r[2])
           /\ UNCHANGED <<slots, calls, claims, pending, handlers, served>>
        \/ r[1] = "Outcome" /\ ~calls[SlotOf(r[2])].forgotten /\ calls' = calls
        \/ r[1] \in {"Stream", "ClaimStream"}

\* An operation on cells puts nobody to sleep.
LEMMA AppliedRegisters ==
    ASSUME NEW cells, NEW more, Apply(cells, more)
    PROVE  Registers
  BY DEF Apply, Registers

\* Nor does one on a single cell.
LEMMA OneRegisters ==
    ASSUME NEW i, NEW x, ApplyTo(i, x)
    PROVE  Registers
  BY AppliedRegisters DEF ApplyTo

\* Nor any step that only wakes.
LEMMA FewerRegister ==
    ASSUME asleep' \subseteq asleep
    PROVE  Registers
  BY DEF Registers

\* Whoever an operation on calls puts to sleep has nothing to go on with.
LEMMA CallsNextRegisters == IInv /\ Next => Registers
<1> SUFFICES ASSUME IInv, Next PROVE Registers
  OBVIOUS
<1>1. CASE OpenCaller \/ OpenHandler \/ FailNextSettle
  BY <1>1, FewerRegister DEF OpenCaller, OpenHandler, FailNextSettle
<1>2. ASSUME NEW caller \in Callers, NEW kind \in Kinds, NEW member \in Members,
             Send(caller, kind, member)
      PROVE  Registers
  BY <1>2, AppliedRegisters DEF Send
<1>3. ASSUME NEW caller \in Callers, CloseCaller(caller)
      PROVE  Registers
  BY <1>3, AppliedRegisters DEF CloseCaller
<1>4. ASSUME NEW caller \in Callers, NEW task \in Wakers, WaitSlot(caller, task)
      PROVE  Registers
  <2>1. calls' = calls /\ \A r \in asleep' : r \in asleep \/ (~SlotReady /\ r[1] = "Slot")
    BY <1>4 DEF WaitSlot, AsleepOn
  <2> QED BY <2>1 DEF Registers
<1>5. ASSUME NEW c \in Correlations, Forget(c)
      PROVE  Registers
  BY <1>5, OneRegisters DEF Forget
<1>6. ASSUME NEW c \in Correlations, NEW task \in Wakers, WaitOutcome(c, task)
      PROVE  Registers
  <2> DEFINE i == SlotOf(c)
  <2>1. /\ i \in Slots /\ calls[i] # NoCall /\ ~calls[i].pendingForget
        /\ slots[i].state = "InFlight"
    BY <1>6 DEF WaitOutcome, Known, HasEntry, StoresOutcome
  <2>2. ~calls[i].forgotten
    <3>1. Good(Cell(i), i) /\ Cell(i).e = slots[i] /\ Cell(i).k = calls[i]
      BY <2>1, CellGood
    <3> QED BY <2>1, <3>1, GoodOccupied
  <2>3. calls' = calls
        /\ \A r \in asleep' : r \in asleep \/ (r[1] = "Outcome" /\ r[2] = c)
    BY <1>6 DEF WaitOutcome
  <2> QED BY <2>2, <2>3 DEF Registers
<1>7. ASSUME NEW h \in Handlers, NEW member \in Members, Serve(h, member)
      PROVE  Registers
  BY <1>7, FewerRegister DEF Serve
<1>8. ASSUME NEW h \in Handlers, NEW fits \in BOOLEAN, NextClaim(h, fits)
      PROVE  Registers
  BY <1>8, FewerRegister DEF NextClaim
<1>9. ASSUME NEW h \in Handlers, NEW id \in ClaimIds, NEW outcome \in {"Ok", "Err"},
             Settle(h, id, outcome)
      PROVE  Registers
  BY <1>9, OneRegisters, FewerRegister DEF Settle, SettleClaim
<1>10. ASSUME NEW h \in Handlers, NEW id \in ClaimIds, SettleFails(h, id)
      PROVE  Registers
  BY <1>10, FewerRegister DEF SettleFails
<1>11. ASSUME NEW h \in Handlers, CloseHandler(h)
      PROVE  Registers
  BY <1>11, AppliedRegisters DEF CloseHandler
<1>12. ASSUME NEW h \in Handlers, NEW task \in Wakers, WaitClaim(h, task)
      PROVE  Registers
  <2>1. /\ h \in handlers
        /\ UNCHANGED <<slots, calls, claims, pending, handlers, served>>
        /\ \A r \in asleep' : r \in asleep \/ (~ClaimWaiting(h) /\ r[1] = "Claim" /\ r[2] = h)
    BY <1>12 DEF WaitClaim, AsleepOn, handlerVars
  <2> QED BY <2>1 DEF Registers
<1> QED
  BY <1>1, <1>2, <1>3, <1>4, <1>5, <1>6, <1>7, <1>8, <1>9, <1>10, <1>11, <1>12 DEF Next

\* An operation on streams puts nobody to sleep outside of streams.
LEMMA StreamsNextRegisters == NextStream => Registers
<1> SUFFICES ASSUME NextStream PROVE Registers
  OBVIOUS
<1>1. ASSUME NEW side \in Sides, NEW i \in Slots, NEW s \in StreamNos, Pull(side, i, s)
      PROVE  Registers
  BY <1>1, OneRegisters DEF Pull
<1>2. ASSUME NEW side \in Sides, NEW i \in Slots, NEW s \in StreamNos,
             NEW chunk \in {"bytes", "empty"}, Push(side, i, s, chunk)
      PROVE  Registers
  BY <1>2, OneRegisters DEF Push
<1>3. ASSUME NEW i \in Slots, NEW s \in StreamNos, CallerEnd(i, s) \/ CallerAbort(i, s)
      PROVE  Registers
  BY <1>3, OneRegisters DEF CallerEnd, CallerAbort
<1>a. ASSUME NEW h, NEW id, NEW outcome, SettleClaim(h, id, outcome) PROVE Registers
  BY <1>a, OneRegisters, FewerRegister DEF SettleClaim
<1>4. ASSUME NEW i \in Slots, NEW s \in StreamNos, NEW h \in Handlers,
             EndClaim(h, i, s) \/ AbortClaim(h, i, s)
      PROVE  Registers
  BY <1>4, <1>a, OneRegisters DEF EndClaim, AbortClaim
<1>5. ASSUME NEW i \in Slots, NEW s \in StreamNos, NEW h \in Handlers, NEW task \in Wakers,
             WaitClaimStream(h, i, s, task)
      PROVE  Registers
  <2>1. \A r \in asleep' : r \in asleep \/ r[1] = "ClaimStream"
    BY <1>5 DEF WaitClaimStream
  <2> QED BY <2>1 DEF Registers
<1>6. ASSUME NEW h \in Handlers, NEW i \in Slots, EndClaimFails(h, i)
      PROVE  Registers
  BY <1>6, OneRegisters DEF EndClaimFails
<1>7. ASSUME NEW c \in Correlations, NEW s \in StreamNos, NEW task \in Wakers,
             WaitStream(c, s, task)
      PROVE  Registers
  <2>1. \A r \in asleep' : r \in asleep \/ r[1] = "Stream"
    BY <1>7 DEF WaitStream
  <2> QED BY <2>1 DEF Registers
<1> QED
  BY <1>1, <1>2, <1>3, <1>4, <1>5, <1>6, <1>7 DEF NextStream

\* What a step adds to the queue, or to what a handler serves, wakes the
\* handlers that would be presented it.
Summons ==
    \A r \in asleep' :
        r \in asleep /\ r[1] = "Claim" /\ r[2] \in handlers =>
            /\ r[2] \in handlers'
            /\ \A c \in WaitingNow' :
                  Admits(served'[r[2]], calls'[SlotOf(c)].member) =>
                      c \in WaitingNow /\ Admits(served[r[2]], calls'[SlotOf(c)].member)

\* The calls of the queue are those that wait.
Queued == \A c : c \in WaitingNow <=> \E p \in DOMAIN pending : pending[p] = c

\* The queue's order is no part of it.
LEMMA QueuedNow == IInv => Queued
<1> SUFFICES ASSUME IInv PROVE Queued
  OBVIOUS
<1>1. Lists(pending, WaitingNow, SentOf(calls))
  BY DEF IInv, QueueOK, WaitingNow
<1> QED BY <1>1, ElementOfSeq, LenProperties DEF Lists, Queued

\* And so it is after a step.
LEMMA QueuedNext == IInv' => Queued'
  BY QueuedNow, PTL

\* A step that takes calls out of the queue adds none.
LEMMA QueueThinned ==
    ASSUME IInv, IInv', NEW gone, pending' = pending \/ pending' = Without(pending, gone)
    PROVE  WaitingNow' \subseteq WaitingNow
<1> SUFFICES ASSUME NEW c \in WaitingNow' PROVE c \in WaitingNow
  OBVIOUS
<1>1. PICK p \in DOMAIN pending' : pending'[p] = c
  BY QueuedNext DEF Queued
<1>2. CASE pending' = pending
  BY <1>1, <1>2, QueuedNow DEF Queued
<1>3. CASE pending' = Without(pending, gone)
  <2> DEFINE W == WaitingNow
  <2>1. Lists(pending, W, SentOf(calls))
    BY DEF IInv, QueueOK, WaitingNow
  <2> HIDE DEF W
  <2>2. Lists(pending', W \ gone, SentOf(calls))
    BY <1>3, <2>1, ListsWithout
  <2>3. pending'[p] \in W \ gone
    BY <1>1, <2>2, ElementOfSeq, LenProperties DEF Lists
  <2> QED BY <1>1, <2>3 DEF W
<1> QED BY <1>2, <1>3

\* Such a step summons nobody.
LEMMA NobodySummoned ==
    ASSUME IInv, IInv', pending' = pending \/ \E gone : pending' = Without(pending, gone),
           served' = served, handlers \subseteq handlers'
    PROVE  Summons
<1>1. WaitingNow' \subseteq WaitingNow
  BY QueueThinned
<1> QED BY <1>1 DEF Summons

\* Whoever sleeps for a claim is the task its handler's waker is for.
LEMMA ClaimSleeper ==
    ASSUME IInv, SInv, NEW r \in asleep, r[1] = "Claim"
    PROVE  r[2] \in Handlers /\ r = <<"Claim", r[2], 0, claimWaker[r[2]]>>
<1>1. r \in Registrations /\ SleepsOn(r)
  BY TypesNow DEF SInv, Sleeping
<1>2. r[2] \in Handlers /\ r[3] = 0 /\ claimWaker[r[2]] = r[4]
  BY <1>1 DEF SleepsOn, StoredIn
<1>3. r = <<r[1], r[2], r[3], r[4]>>
  BY <1>1, RegistrationParts
<1> QED BY <1>2, <1>3

\* A send wakes whom the call can be presented to.
LEMMA SendSummons ==
    ASSUME IInv, IInv', SInv, NEW caller \in Callers, NEW kind \in Kinds,
           NEW member \in Members, Send(caller, kind, member)
    PROVE  Summons
<1> DEFINE i == Min(FreeSlots)
           c == Correlation(slots[i].generation, i)
           k == NewCall(c, caller, kind, member)
           cell == [Cell(i) EXCEPT !.e = Inserted(@, 0), !.k = NewCall(c, caller, kind, member)]
           cells == [j \in Slots |-> IF j = i THEN cell ELSE Cell(j)]
           woken == {h \in handlers : Serves(h, member)}
           more == ClaimWaiters(woken)
<1>1. /\ Apply(cells, more) /\ pending' = Append(pending, c)
      /\ UNCHANGED <<handlers, served>>
  BY DEF Send, handlerVars
<1>2. i \in Slots
  <2>1. FreeSlots # {} /\ FreeSlots \in SUBSET Slots /\ FreeSlots \in SUBSET Nat
    <3>1. FreeSlots # {}
      BY DEF Send
    <3>2. FreeSlots \subseteq Slots
      BY DEF FreeSlots
    <3>3. Slots \subseteq Nat
      BY LoopbackAssumption DEF Slots
    <3> QED BY <3>1, <3>2, <3>3
  <2>2. Min(FreeSlots) \in FreeSlots
    BY <2>1, MinIsLeast
  <2> QED BY <2>1, <2>2
<1>3. asleep' \subseteq asleep \ more
  BY <1>1 DEF Apply
<1>4. calls' = [j \in Slots |-> cells[j].k]
  BY <1>1 DEF Apply
<1> HIDE DEF i, more
<1>5. k.member = member
  BY DEF NewCall
<1>6. cell.k = k
  BY DEF Cell
<1> HIDE DEF k, cell
<1>7. calls'[i].member = member
  BY <1>2, <1>4, <1>5, <1>6
<1>8. SlotOf(c) = i
  <2>1. i \in 0 .. SlotSpan - 1
    BY <1>2, LoopbackAssumption, SpanAssumption DEF Slots
  <2>2. slots[i].generation \in Nat
    <3>1. CellOK(slots[i], calls[i], i)
      BY <1>2 DEF IInv, CellsOK
    <3>2. slots[i] \in Entry
      BY <3>1 DEF CellOK
    <3> QED BY <3>2, SpanAssumption DEF Entry
  <2> QED BY <2>1, <2>2, CorrelationHalves
<1> HIDE DEF c, cells
<1>9. \A d \in WaitingNow' : d = c \/ d \in WaitingNow
  <2> SUFFICES ASSUME NEW d \in WaitingNow' PROVE d = c \/ d \in WaitingNow
    OBVIOUS
  <2>1. PICK p \in DOMAIN pending' : pending'[p] = d
    BY QueuedNext DEF Queued
  <2>2. pending \in Seq(Correlations)
    BY DEF IInv, TypeOK
  <2>3. DOMAIN pending' = 1 .. Len(pending) + 1 /\ DOMAIN pending = 1 .. Len(pending)
        /\ Len(pending) \in Nat
    BY <1>1, <2>2
  <2>4. CASE p \in DOMAIN pending
    <3>1. pending[p] = d
      BY <1>1, <2>1, <2>2, <2>4
    <3> QED BY <2>4, <3>1, QueuedNow DEF Queued
  <2>5. CASE p \notin DOMAIN pending
    <3>1. p = Len(pending) + 1
      BY <2>1, <2>3, <2>5
    <3> QED BY <1>1, <2>1, <2>2, <3>1
  <2> QED BY <2>4, <2>5
<1> SUFFICES ASSUME NEW r \in asleep', r \in asleep, r[1] = "Claim", r[2] \in handlers,
                    NEW d \in WaitingNow', Admits(served'[r[2]], calls'[SlotOf(d)].member)
             PROVE  d \in WaitingNow
  BY <1>1 DEF Summons
<1>10. r[2] \in Handlers /\ r = <<"Claim", r[2], 0, claimWaker[r[2]]>>
  BY ClaimSleeper
<1>11. ASSUME d = c PROVE FALSE
  <2>1. r[2] \in woken
    BY <1>1, <1>7, <1>8, <1>11 DEF Serves
  <2> HIDE DEF woken
  <2>2. r \in more
    BY <1>10, <2>1 DEF more, ClaimWaiters
  <2> QED BY <1>3, <2>2
<1> QED BY <1>9, <1>11

\* A handler that serves one more member is woken for what waits.
LEMMA ServeSummons ==
    ASSUME IInv, IInv', SInv, NEW h \in Handlers, NEW member \in Members, Serve(h, member)
    PROVE  Summons
<1>1. /\ UNCHANGED <<slots, calls, claims, pending, handlers>>
      /\ served' = [served EXCEPT ![h] = @ \cup {member}]
      /\ ServeWakes(h, member) => asleep' = asleep \ ClaimWaiters({h})
  BY DEF Serve
<1>2. served \in [Handlers -> SUBSET Members]
  BY TypesNow DEF RestTyped
<1>3. served'[h] = served[h] \cup {member} /\ \A g \in Handlers \ {h} : served'[g] = served[g]
  BY <1>1, <1>2
<1>4. WaitingNow' = WaitingNow
  BY <1>1 DEF WaitingNow, WaitingSet, WaitsIn, OwnerIn
<1> SUFFICES ASSUME NEW r \in asleep', r \in asleep, r[1] = "Claim",
                    NEW d \in WaitingNow, Admits(served'[r[2]], calls[SlotOf(d)].member)
             PROVE  Admits(served[r[2]], calls[SlotOf(d)].member)
  BY <1>1, <1>4 DEF Summons
<1>5. r[2] \in Handlers /\ r = <<"Claim", r[2], 0, claimWaker[r[2]]>>
  BY ClaimSleeper
<1>6. ASSUME r[2] = h PROVE FALSE
  <2>1. PICK p \in DOMAIN pending : pending[p] = d
    BY QueuedNow DEF Queued
  <2>2. p \in Servable(served[h] \cup {member})
    BY <1>3, <1>6, <2>1 DEF Servable
  <2>3. ServeWakes(h, member)
    BY <2>2 DEF ServeWakes
  <2>4. r \in ClaimWaiters({h})
    BY <1>5, <1>6 DEF ClaimWaiters
  <2> QED BY <1>1, <2>3, <2>4
<1> QED BY <1>3, <1>5, <1>6

\* A drop wakes whom a returned call can be presented to.
LEMMA CloseHandlerSummons ==
    ASSUME IInv, IInv', SInv, NEW h \in Handlers, CloseHandler(h)
    PROVE  Summons
<1> DEFINE returned == {calls[i] : i \in {j \in Slots : calls[j] # NoCall /\ Returns(h, calls[j])}}
           woken == ReturnWakes(h, returned)
           more == ClaimWaiters(woken \cup {h})
           cells == [i \in Slots |-> CloseHandlerCell(Cell(i), h)]
<1>1. Apply(cells, more) /\ handlers' = handlers \ {h} /\ served' = [served EXCEPT ![h] = {}]
  BY DEF CloseHandler
<1>2. asleep' \subseteq asleep \ more
  BY <1>1 DEF Apply
<1>3. CameBack(h) /\ Followed
  BY CloseHandlerCore
<1>4. \A g \in Handlers \ {h} : served'[g] = served[g]
  <2>1. served \in [Handlers -> SUBSET Members]
    BY TypesNow DEF RestTyped
  <2> QED BY <1>1, <2>1
<1> HIDE DEF cells
<1> SUFFICES ASSUME NEW r \in asleep', r \in asleep, r[1] = "Claim", r[2] \in handlers
             PROVE  /\ r[2] \in handlers'
                    /\ \A d \in WaitingNow' :
                          Admits(served'[r[2]], calls'[SlotOf(d)].member) =>
                            d \in WaitingNow /\ Admits(served[r[2]], calls'[SlotOf(d)].member)
  BY DEF Summons
<1>5. r[2] \in Handlers /\ r = <<"Claim", r[2], 0, claimWaker[r[2]]>>
  BY ClaimSleeper
<1>6. r[2] \notin woken \cup {h}
  <2> DEFINE U == woken \cup {h}
  <2> HIDE DEF U
  <2>1. r[2] \in U => r \in ClaimWaiters(U)
    BY <1>5 DEF ClaimWaiters
  <2>2. r \notin ClaimWaiters(U)
    BY <1>2 DEF U
  <2> QED BY <2>1, <2>2 DEF U
<1>7. ASSUME NEW d \in WaitingNow', Admits(served'[r[2]], calls'[SlotOf(d)].member)
      PROVE  d \in WaitingNow
  <2>1. CASE d \in WaitingNow
    BY <2>1
  <2>2. CASE \E i \in Slots : calls[i] # NoCall /\ calls[i].correlation = d /\ Returns(h, calls[i])
    <3>1. PICK i \in Slots : /\ calls[i] # NoCall /\ calls[i].correlation = d
                             /\ Returns(h, calls[i])
      BY <2>2
    <3>2. calls[i] \in returned
      BY <3>1
    <3>3. SlotOf(d) = i
      BY <3>1, LiveCall
    <3>4. calls'[i] # NoCall
      BY <3>3 DEF WaitingNow, WaitingSet, WaitsIn
    <3>5. calls'[i].member = calls[i].member
      BY <1>3, <3>1, <3>4 DEF Followed
    <3>6. Serves(r[2], calls[i].member)
      BY <1>4, <1>5, <1>6, <1>7, <3>3, <3>5 DEF Serves
    <3> HIDE DEF returned
    <3>7. r[2] \in woken
      BY <1>6, <3>2, <3>6 DEF ReturnWakes
    <3> QED BY <1>6, <3>7
  <2> QED BY <1>3, <2>1, <2>2 DEF CameBack, WaitingNow
<1> QED BY <1>1, <1>4, <1>5, <1>6, <1>7

\* A settlement summons nobody.
LEMMA SettleClaimSummons ==
    ASSUME IInv, IInv', NEW h, NEW id, NEW outcome, SettleClaim(h, id, outcome)
    PROVE  Summons
<1>1. \/ pending' = pending \/ \E gone : pending' = Without(pending, gone)
  BY DEF SettleClaim
<1>2. UNCHANGED <<served, handlers>>
  BY DEF SettleClaim, handlerVars
<1> QED BY <1>1, <1>2, NobodySummoned

\* Nor does a step that leaves the queue alone.
LEMMA StillSummons ==
    ASSUME IInv, IInv', pending' = pending, served' = served, handlers \subseteq handlers'
    PROVE  Summons
  BY NobodySummoned

\* Every operation on calls wakes whom it gives something to serve.
LEMMA CallsNextSummons == IInv /\ IInv' /\ SInv /\ Next => Summons
<1> SUFFICES ASSUME IInv, IInv', SInv, Next PROVE Summons
  OBVIOUS
<1>1. CASE OpenCaller \/ OpenHandler \/ FailNextSettle
  BY <1>1, StillSummons DEF OpenCaller, OpenHandler, FailNextSettle, handlerVars
<1>2. ASSUME NEW caller \in Callers, NEW kind \in Kinds, NEW member \in Members,
             Send(caller, kind, member)
      PROVE  Summons
  BY <1>2, SendSummons
<1>3. ASSUME NEW caller \in Callers, CloseCaller(caller)
      PROVE  Summons
  <2>1. \E gone : pending' = Without(pending, gone)
    BY <1>3 DEF CloseCaller
  <2>2. UNCHANGED <<served, handlers>>
    BY <1>3 DEF CloseCaller, handlerVars
  <2> QED BY <2>1, <2>2, NobodySummoned
<1>4. ASSUME NEW caller \in Callers, NEW task \in Wakers, WaitSlot(caller, task)
      PROVE  Summons
  BY <1>4, StillSummons DEF WaitSlot, handlerVars
<1>5. ASSUME NEW c \in Correlations, Forget(c)
      PROVE  Summons
  <2>1. \/ pending' = pending \/ \E gone : pending' = Without(pending, gone)
    BY <1>5 DEF Forget
  <2>2. UNCHANGED <<served, handlers>>
    BY <1>5 DEF Forget, handlerVars
  <2> QED BY <2>1, <2>2, NobodySummoned
<1>6. ASSUME NEW c \in Correlations, NEW task \in Wakers, WaitOutcome(c, task)
      PROVE  Summons
  BY <1>6, StillSummons DEF WaitOutcome, handlerVars
<1>7. ASSUME NEW h \in Handlers, NEW member \in Members, Serve(h, member)
      PROVE  Summons
  BY <1>7, ServeSummons
<1>8. ASSUME NEW h \in Handlers, NEW fits \in BOOLEAN, NextClaim(h, fits)
      PROVE  Summons
  <2>1. \/ pending' = pending \/ \E gone : pending' = Without(pending, gone)
    BY <1>8 DEF NextClaim
  <2>2. UNCHANGED <<served, handlers>>
    BY <1>8 DEF NextClaim, handlerVars
  <2> QED BY <2>1, <2>2, NobodySummoned
<1>9. ASSUME NEW h \in Handlers, NEW id \in ClaimIds, NEW outcome \in {"Ok", "Err"},
             Settle(h, id, outcome)
      PROVE  Summons
  BY <1>9, SettleClaimSummons DEF Settle
<1>10. ASSUME NEW h \in Handlers, NEW id \in ClaimIds, SettleFails(h, id)
      PROVE  Summons
  BY <1>10, StillSummons DEF SettleFails, handlerVars
<1>11. ASSUME NEW h \in Handlers, CloseHandler(h)
      PROVE  Summons
  BY <1>11, CloseHandlerSummons
<1>12. ASSUME NEW h \in Handlers, NEW task \in Wakers, WaitClaim(h, task)
      PROVE  Summons
  BY <1>12, StillSummons DEF WaitClaim, handlerVars
<1> QED
  BY <1>1, <1>2, <1>3, <1>4, <1>5, <1>6, <1>7, <1>8, <1>9, <1>10, <1>11, <1>12 DEF Next

\* And every operation on a call's streams.
LEMMA StreamsNextSummons == IInv /\ IInv' /\ NextStream => Summons
<1> SUFFICES ASSUME IInv, IInv', NextStream PROVE Summons
  OBVIOUS
<1>a. UNCHANGED streamRest => Summons
  BY StillSummons DEF streamRest, handlerVars
<1>1. ASSUME NEW side \in Sides, NEW i \in Slots, NEW s \in StreamNos, Pull(side, i, s)
      PROVE  Summons
  BY <1>1, <1>a DEF Pull
<1>2. ASSUME NEW side \in Sides, NEW i \in Slots, NEW s \in StreamNos,
             NEW chunk \in {"bytes", "empty"}, Push(side, i, s, chunk)
      PROVE  Summons
  BY <1>2, <1>a DEF Push
<1>3. ASSUME NEW i \in Slots, NEW s \in StreamNos, CallerEnd(i, s) \/ CallerAbort(i, s)
      PROVE  Summons
  BY <1>3, <1>a DEF CallerEnd, CallerAbort
<1>4. ASSUME NEW i \in Slots, NEW s \in StreamNos, NEW h \in Handlers,
             EndClaim(h, i, s) \/ AbortClaim(h, i, s)
      PROVE  Summons
  BY <1>4, <1>a, SettleClaimSummons DEF EndClaim, AbortClaim
<1>5. ASSUME NEW i \in Slots, NEW s \in StreamNos, NEW h \in Handlers, NEW task \in Wakers,
             WaitClaimStream(h, i, s, task)
      PROVE  Summons
  BY <1>5, <1>a DEF WaitClaimStream
<1>6. ASSUME NEW h \in Handlers, NEW i \in Slots, EndClaimFails(h, i)
      PROVE  Summons
  BY <1>6, StillSummons DEF EndClaimFails, handlerVars
<1>7. ASSUME NEW c \in Correlations, NEW s \in StreamNos, NEW task \in Wakers,
             WaitStream(c, s, task)
      PROVE  Summons
  BY <1>7, <1>a DEF WaitStream
<1> QED
  BY <1>1, <1>2, <1>3, <1>4, <1>5, <1>6, <1>7 DEF NextStream

(***************************************************************************)
(* No task sleeps on what has happened.                                    *)
(***************************************************************************)
CalmSlots == \A r \in asleep : r[1] = "Slot" => \A i \in Slots : calls[i] # NoCall
CalmClaims ==
    \A r \in asleep : r[1] = "Claim" => r[2] \in handlers /\ ~ClaimWaiting(r[2])
CalmOutcomes ==
    \A r \in asleep : r[1] = "Outcome" =>
        \A i \in Slots : calls[i] # NoCall /\ calls[i].correlation = r[2] => ~calls[i].forgotten
Calm == CalmSlots /\ CalmClaims /\ CalmOutcomes

\* A slot that is freed leaves nobody asleep for one.
LEMMA CalmSlotsNext ==
    ASSUME CalmSlots, Registers, Followed
    PROVE  CalmSlots'
<1> SUFFICES ASSUME NEW r \in asleep', r[1] = "Slot", NEW i \in Slots, calls'[i] = NoCall
             PROVE  FALSE
  BY DEF CalmSlots
<1>1. CASE r \in asleep
  <2>1. calls[i] # NoCall
    BY <1>1 DEF CalmSlots
  <2> QED BY <2>1 DEF Followed
<1>2. CASE ~SlotReady /\ calls' = calls
  BY <1>2 DEF SlotReady
<1> QED BY <1>1, <1>2 DEF Registers

\* Whether a handler would be presented a call, by the calls that wait.
Presentable ==
    \A h : ClaimWaiting(h) <=> \E c \in WaitingNow : Admits(served[h], calls[SlotOf(c)].member)

\* It is whether one of them is of a member it serves.
LEMMA PresentableNow == IInv => Presentable
  BY QueuedNow DEF Presentable, Queued, ClaimWaiting, Servable

\* And so it is after a step.
LEMMA PresentableNext == IInv' => Presentable'
  BY PresentableNow, PTL

\* Nobody is left asleep for a claim that is there.
LEMMA CalmClaimsNext ==
    ASSUME IInv, IInv', CalmClaims, Registers, Summons, Followed
    PROVE  CalmClaims'
<1> SUFFICES ASSUME NEW r \in asleep', r[1] = "Claim"
             PROVE  r[2] \in handlers' /\ ~ClaimWaiting(r[2])'
  BY DEF CalmClaims
<1>1. CASE r \in asleep
  <2>1. r[2] \in handlers /\ ~ClaimWaiting(r[2])
    BY <1>1 DEF CalmClaims
  <2>2. ASSUME NEW c \in WaitingNow', Admits(served'[r[2]], calls'[SlotOf(c)].member)
        PROVE  FALSE
    <3>1. c \in WaitingNow /\ Admits(served[r[2]], calls'[SlotOf(c)].member)
      BY <1>1, <2>1, <2>2 DEF Summons
    <3>2. SlotOf(c) \in Slots /\ calls[SlotOf(c)] # NoCall /\ calls'[SlotOf(c)] # NoCall
      BY <2>2, <3>1 DEF WaitingNow, WaitingSet, WaitsIn
    <3>3. calls'[SlotOf(c)].member = calls[SlotOf(c)].member
      BY <3>2 DEF Followed
    <3> QED BY <2>1, <3>1, <3>3, PresentableNow DEF Presentable
  <2>3. ~ClaimWaiting(r[2])'
    BY <2>2, PresentableNext DEF Presentable
  <2>4. r[2] \in handlers'
    BY <1>1, <2>1 DEF Summons
  <2> QED BY <2>3, <2>4
<1>2. CASE /\ r[2] \in handlers /\ ~ClaimWaiting(r[2])
           /\ UNCHANGED <<slots, calls, claims, pending, handlers, served>>
  BY <1>2 DEF ClaimWaiting, Servable
<1> QED BY <1>1, <1>2 DEF Registers

\* The waker of a sleeper is in the slot of a call in flight.
OutcomeSlept ==
    \A r \in asleep : r[1] = "Outcome" =>
        \E i \in Slots : /\ calls[i] # NoCall /\ calls[i].correlation = r[2]
                         /\ slots[i].waker = r[4] /\ r[4] \in Wakers
                         /\ slots[i].state = "InFlight" /\ SlotOf(r[2]) = i

\* It is where the waker was stored.
LEMMA OutcomeSleeps == IInv /\ SInv => OutcomeSlept
<1> SUFFICES ASSUME IInv, SInv, NEW r \in asleep, r[1] = "Outcome"
             PROVE  \E i \in Slots : /\ calls[i] # NoCall /\ calls[i].correlation = r[2]
                                     /\ slots[i].waker = r[4] /\ r[4] \in Wakers
                                     /\ slots[i].state = "InFlight" /\ SlotOf(r[2]) = i
  BY DEF OutcomeSlept
<1>1. r \in Registrations /\ SleepsOn(r)
  BY TypesNow DEF SInv, Sleeping
<1>2. PICK i \in Slots : StoredIn(slots[i], calls[i], r)
  BY <1>1 DEF SleepsOn
<1>3. calls[i] # NoCall /\ calls[i].correlation = r[2] /\ slots[i].waker = r[4]
  BY <1>2 DEF StoredIn
<1>4. r[4] \in Wakers
  BY <1>1, RegistrationParts
<1>5. slots[i].state = "InFlight"
  <2>1. SoundBut(slots[i], calls[i])
    BY <1>3, SoundNow DEF SoundCall
  <2> QED BY <1>3, <1>4, <2>1, NoWakerIsNone DEF SoundBut
<1>6. SlotOf(r[2]) = i
  BY <1>3, LiveCall
<1> QED BY <1>3, <1>4, <1>5, <1>6

\* And after a step.
LEMMA OutcomeSleepsNext == IInv' /\ SInv' => OutcomeSlept'
  BY OutcomeSleeps, PTL

\* Nobody is left asleep for the outcome of a forgotten call.
LEMMA CalmOutcomesNext ==
    ASSUME IInv, IInv', SInv, SInv', CalmOutcomes, Registers, Shows
    PROVE  CalmOutcomes'
<1> SUFFICES ASSUME NEW r \in asleep', r[1] = "Outcome",
                    NEW i \in Slots, calls'[i] # NoCall, calls'[i].correlation = r[2]
             PROVE  ~calls'[i].forgotten
  BY DEF CalmOutcomes
<1>1. SlotOf(r[2]) = i
  BY CallSlotNext
<1>2. slots'[i].waker = r[4] /\ r[4] \in Wakers /\ slots'[i].state = "InFlight"
  BY <1>1, OutcomeSleepsNext DEF OutcomeSlept
<1>3. CASE r \in asleep
  <2>1. calls[i] # NoCall /\ calls[i].correlation = r[2] /\ ~calls[i].forgotten
    BY <1>1, <1>3, OutcomeSleeps DEF OutcomeSlept, CalmOutcomes
  <2>2. ASSUME NEW j \in Slots, NEW c \in Correlations, SentAs(c, j) PROVE calls'[i] = calls[i]
    BY <2>1, <2>2 DEF SentAs
  <2>3. ASSUME NewlyHushed PROVE ~calls'[i].forgotten
    BY <1>2, <2>1, <2>3 DEF NewlyHushed, Hushed
  <2>4. ASSUME NEW a \in Answerable, ToldAll({a}) PROVE ~calls'[i].forgotten
    BY <2>1, <2>4 DEF ToldAll, Told
  <2> QED BY <2>1, <2>2, <2>3, <2>4 DEF Shows
<1>4. CASE ~calls[SlotOf(r[2])].forgotten /\ calls' = calls
  BY <1>1, <1>4
<1> QED BY <1>3, <1>4 DEF Registers

\* A step of the store, streams and all, keeps everything that is known of it.
LEMMA CalmNext ==
    IInv /\ SInv /\ Calm /\ [StreamsNext]_vars => Calm'
<1> SUFFICES ASSUME IInv, SInv, Calm, [StreamsNext]_vars PROVE Calm'
  OBVIOUS
<1>1. CASE StreamsNext
  <2>1. IInv' /\ Followed
    BY <1>1, CallsNextInv, StreamsNextInv DEF StreamsNext
  <2>2. SInv'
    BY <1>1, CallsNextSound, StreamsNextSound DEF StreamsNext
  <2>3. Shows
    BY <1>1, <2>1, CallsNextShows, StreamsNextShows DEF StreamsNext
  <2>4. Registers
    BY <1>1, CallsNextRegisters, StreamsNextRegisters DEF StreamsNext
  <2>5. Summons
    BY <1>1, <2>1, CallsNextSummons, StreamsNextSummons DEF StreamsNext
  <2> QED BY <2>1, <2>2, <2>3, <2>4, <2>5, CalmSlotsNext, CalmClaimsNext, CalmOutcomesNext DEF Calm
<1>2. CASE UNCHANGED vars
  BY <1>2 DEF Calm, CalmSlots, CalmClaims, CalmOutcomes, ClaimWaiting, Servable, vars
<1> QED BY <1>1, <1>2

\* What a task sleeps on outside of streams has not happened.
StillBlocked == \A r \in asleep : r[1] \in {"Slot", "Claim", "Outcome"} => Blocked(r)

\* It follows from where the wakers are stored.
LEMMA CalmBlocks == IInv /\ SInv /\ Calm => StillBlocked
<1> SUFFICES ASSUME IInv, SInv, Calm, NEW r \in asleep, r[1] \in {"Slot", "Claim", "Outcome"}
             PROVE  Blocked(r)
  BY DEF StillBlocked
<1>1. CASE r[1] = "Slot"
  BY <1>1 DEF Blocked, Calm, CalmSlots, SlotReady
<1>2. CASE r[1] = "Claim"
  BY <1>2 DEF Blocked, Calm, CalmClaims
<1>3. CASE r[1] = "Outcome"
  <2>1. Known(r[2]) /\ ~calls[SlotOf(r[2])].forgotten /\ slots[SlotOf(r[2])].state = "InFlight"
    BY <1>3, OutcomeSleeps DEF OutcomeSlept, Calm, CalmOutcomes, Known, HasEntry
  <2> QED BY <1>3, <2>1 DEF Blocked
<1> QED BY <1>1, <1>2, <1>3

\* What a task sleeps on in a stream is another property.
LEMMA BlockedKinds == \A r : Blocked(r) => r[1] \in {"Slot", "Claim", "Outcome"}
  BY DEF Blocked

\* A change a task waits for wakes it: no slot freed, call queued or returned,
\* outcome recorded or call forgotten leaves its waiter asleep.
THEOREM LoopbackWakesOnChange == StreamsSpec => WakeOnChange
<1>1. Init => IInv /\ SInv /\ Calm
  BY InitInv, InitSound DEF Init, Calm, CalmSlots, CalmClaims, CalmOutcomes
<1>2. IInv /\ SInv /\ Calm /\ [StreamsNext]_vars => (IInv /\ SInv /\ Calm)'
  <2>1. IInv /\ [StreamsNext]_vars => IInv'
    BY CallsNextInv, StreamsNextInv, StutterInv DEF StreamsNext
  <2>2. IInv /\ SInv /\ [StreamsNext]_vars => SInv'
    BY CallsNextSound, StreamsNextSound, StutterSound DEF StreamsNext
  <2> QED BY <2>1, <2>2, CalmNext
<1>3. IInv /\ SInv /\ Calm => StillBlocked
  BY CalmBlocks
<1>4. StillBlocked' => [\A r \in asleep : Blocked(r) /\ ~Blocked(r)' => r \notin asleep']_vars
  BY BlockedKinds DEF StillBlocked
<1> QED BY <1>1, <1>2, <1>3, <1>4, PTL DEF StreamsSpec, WakeOnChange

\* So of the calls alone: each of their steps is one of the store with streams.
THEOREM CallsWakeOnChange == Spec => WakeOnChange
<1>1. [Next]_vars => [StreamsNext]_vars
  BY DEF StreamsNext
<1>2. Spec => StreamsSpec
  BY <1>1, PTL DEF Spec, StreamsSpec
<1> QED BY <1>2, LoopbackWakesOnChange

(***************************************************************************)
(* What the provider is done with is empty and finished, so a parameter    *)
(* that still holds chunks is not drained.                                 *)
(***************************************************************************)
\* The stream, the call's parameters, and an operation that leaves them so.
Spent(st) == st.drained => st.chunks = <<>> /\ Finished(st)
Emptied(k) == \A s \in StreamNos \ {ReplyStream} : Spent(k.streams[s])
Spends(x, y) == y.k # NoCall /\ Emptied(x.k) => Emptied(y.k)

\* What two operations leave, one after the other.
LEMMA SpendsTwice ==
    ASSUME NEW x, NEW y, NEW z, Spends(x, y), y.k # NoCall, Spends(y, z)
    PROVE  Spends(x, z)
  BY DEF Spends

\* An operation that leaves the streams alone.
LEMMA SpendsSame ==
    ASSUME NEW x, NEW y, y.k = NoCall \/ y.k.streams = x.k.streams
    PROVE  Spends(x, y)
  BY DEF Spends, Emptied

\* One that leaves each parameter spent that was.
LEMMA SpendsEach ==
    ASSUME NEW x, NEW y,
           \A s \in StreamNos \ {ReplyStream} : Spent(x.k.streams[s]) => Spent(y.k.streams[s])
    PROVE  Spends(x, y)
  BY DEF Spends, Emptied

\* A stream nothing had named is made so.
LEMMA StreamSpent ==
    ASSUME NEW k \in CallEntry, NEW s \in StreamNos, Spent(k.streams[s])
    PROVE  Spent(Stream(k, s))
<1> DEFINE fresh == [UnnamedStream EXCEPT !.named = TRUE,
                                          !.stopped = IF k.forgotten THEN "Caller" ELSE "No"]
<1>1. fresh \in StreamType /\ ~fresh.drained
  <2>1. UnnamedStream \in StreamType /\ ~UnnamedStream.drained
    BY StreamsTyped DEF UnnamedStream
  <2> DEFINE how == IF k.forgotten THEN "Caller" ELSE "No"
  <2>2. how \in {"No", "Caller", "Provider"}
    OBVIOUS
  <2> HIDE DEF how
  <2>3. [UnnamedStream EXCEPT !.named = TRUE, !.stopped = how] \in StreamType
        /\ ~[UnnamedStream EXCEPT !.named = TRUE, !.stopped = how].drained
    BY <2>1, <2>2 DEF StreamType
  <2> QED BY <2>3 DEF how
<1>2. Stream(k, s) = CASE k.streams[s].named -> k.streams[s]
                       [] ~k.streams[s].named /\ k.parametersReleased /\ s # ReplyStream ->
                             ReleaseStream(fresh)
                       [] OTHER -> fresh
  BY DEF Stream
<1> HIDE DEF fresh
<1>3. ReleaseStream(fresh).chunks = <<>> /\ Finished(ReleaseStream(fresh))
  BY <1>1 DEF ReleaseStream, StreamType, Finished
<1> QED BY <1>1, <1>2, <1>3 DEF Spent

\* The store of the wakers of callers is no part of the streams.
LEMMA TakeStreamsSpends ==
    ASSUME NEW x, IsCell(x)
    PROVE  Spends(x, TakeStreams(x)) /\ TakeStreams(x).k = x.k
<1>1. TakeStreams(x).k = x.k
  BY TakeStreamsFields
<1> HIDE DEF TakeStreams
<1> QED BY <1>1, SpendsSame

\* Telling the table of a forget leaves the streams alone.
LEMMA ForgetInTableSpends ==
    ASSUME NEW x, IsCell(x), x.k \in CallEntry
    PROVE  LET y == ForgetInTable(x)
           IN  /\ Spends(x, y)
               /\ y.k # NoCall => y.k.streams = x.k.streams
<1> DEFINE c == x.k.correlation
           y == [x EXCEPT !.e = ForgetEntry(@, c)]
           u == TakeStreams(y)
           w == [u EXCEPT !.wake = @ \cup OutcomeWaiter(x.e, c), !.k.forgotten = TRUE]
           z == ForgetInTable(x)
<1>1. z = CASE ForgetAnswer(x.e, c) = "Reclaimed" -> Reclaim(y)
            [] ForgetAnswer(x.e, c) = "Marked" -> w
            [] OTHER -> x
  BY DEF ForgetInTable
<1> HIDE DEF z
<1>2. IsCell(y) /\ y.k = x.k
  BY DEF IsCell
<1> HIDE DEF y
<1>3. IsCell(u) /\ u.k = x.k
  BY <1>2, TakeStreamsFields
<1>4. Reclaim(y).k = NoCall
  BY <1>2, ReclaimFields
<1> HIDE DEF u
<1>5. w.k = [x.k EXCEPT !.forgotten = TRUE]
  BY <1>3 DEF IsCell
<1> HIDE DEF w
<1>6. w.k.streams = x.k.streams
  BY <1>5 DEF CallEntry
<1>7. z.k = NoCall \/ z.k.streams = x.k.streams
  BY <1>1, <1>4, <1>6
<1> QED BY <1>7, SpendsSame DEF z

\* An interrupted stream keeps what it holds.
LEMMA InterruptStreamsSpends ==
    ASSUME NEW x, IsCell(x), x.k \in CallEntry
    PROVE  LET y == InterruptStreams(x)
           IN  /\ Spends(x, y)
               /\ \A s \in StreamNos : /\ y.k.streams[s].chunks = x.k.streams[s].chunks
                                       /\ y.k.streams[s].drained = x.k.streams[s].drained
                                       /\ y.k.streams[s].named = x.k.streams[s].named
<1> DEFINE y == InterruptStreams(x)
           g(s) == LET st == x.k.streams[s]
                   IN  IF ~st.named THEN st
                       ELSE [st EXCEPT !.waker = NoWaker,
                                       !.stopped = IF Finished(st) THEN @ ELSE "Caller"]
           f == [s \in StreamNos |-> g(s)]
           more == ClaimStreamWaiters(x.k, StreamNos)
<1>1. ASSUME NEW s \in StreamNos
      PROVE  /\ g(s).chunks = x.k.streams[s].chunks /\ g(s).drained = x.k.streams[s].drained
             /\ g(s).named = x.k.streams[s].named
             /\ Finished(x.k.streams[s]) => Finished(g(s))
  <2> DEFINE st == x.k.streams[s]
  <2>1. st \in StreamType
    BY DEF CallEntry
  <2>2. g(s) = IF ~st.named THEN st
               ELSE [st EXCEPT !.waker = NoWaker,
                               !.stopped = IF Finished(st) THEN @ ELSE "Caller"]
    OBVIOUS
  <2> HIDE DEF st, g
  <2>3. g(s).chunks = st.chunks /\ g(s).drained = st.drained /\ g(s).named = st.named
        /\ (Finished(st) => Finished(g(s)))
    BY <2>1, <2>2 DEF StreamType, Finished
  <2> QED BY <2>3 DEF st
<1>2. \A s \in StreamNos : f[s] = g(s)
  OBVIOUS
<1>3. y = IF x.k.forgotten THEN x ELSE [x EXCEPT !.k.streams = f, !.wake = @ \cup more]
  BY DEF InterruptStreams
<1> HIDE DEF y, f, g, more
<1>4. y.k = x.k \/ y.k = [x.k EXCEPT !.streams = f]
  BY <1>3 DEF IsCell
<1>5. y.k.streams = x.k.streams \/ y.k.streams = f
  BY <1>4 DEF CallEntry
<1>6. \A s \in StreamNos : /\ y.k.streams[s].chunks = x.k.streams[s].chunks
                           /\ y.k.streams[s].drained = x.k.streams[s].drained
                           /\ y.k.streams[s].named = x.k.streams[s].named
                           /\ Finished(x.k.streams[s]) => Finished(y.k.streams[s])
  BY <1>1, <1>2, <1>5
<1>7. Spends(x, y)
  BY <1>6, SpendsEach DEF Spent
<1> QED BY <1>6, <1>7 DEF y

\* A released parameter is emptied and stopped at once.
LEMMA ReleaseParametersSpends ==
    ASSUME NEW x, IsCell(x), x.k \in CallEntry
    PROVE  Spends(x, ReleaseParameters(x))
<1> DEFINE y == ReleaseParameters(x)
           params == {s \in StreamNos \ {ReplyStream} : x.k.streams[s].named}
           g(s) == IF s \in params THEN [ReleaseStream(x.k.streams[s]) EXCEPT !.waker = NoWaker]
                   ELSE x.k.streams[s]
           f == [s \in StreamNos |-> g(s)]
           more == ClaimStreamWaiters(x.k, params)
<1>1. y = [x EXCEPT !.k.parametersReleased = TRUE, !.k.streams = f, !.wake = @ \cup more]
  BY DEF ReleaseParameters
<1>2. ASSUME NEW s \in params PROVE Spent(g(s))
  <2> DEFINE r == ReleaseStream(x.k.streams[s])
  <2>1. x.k.streams[s] \in StreamType /\ g(s) = [r EXCEPT !.waker = NoWaker]
    BY DEF CallEntry
  <2>2. r.chunks = <<>> /\ Finished(r) /\ r \in StreamType
    <3>1. r \in StreamType
      BY <2>1, StreamsTyped
    <3> QED BY <2>1, <3>1 DEF ReleaseStream, Finished, StreamType
  <2> HIDE DEF r, g
  <2> QED BY <2>1, <2>2 DEF Finished, StreamType, Spent
<1>3. \A s \in StreamNos \ params : g(s) = x.k.streams[s]
  OBVIOUS
<1>4. \A s \in StreamNos : f[s] = g(s)
  OBVIOUS
<1> HIDE DEF y, f, g, more, params
<1>5. y.k = [x.k EXCEPT !.parametersReleased = TRUE, !.streams = f]
  BY <1>1 DEF IsCell
<1>6. y.k.streams = f
  BY <1>5 DEF CallEntry
<1>7. ASSUME NEW s \in StreamNos \ {ReplyStream}, Spent(x.k.streams[s])
      PROVE  Spent(y.k.streams[s])
  BY <1>2, <1>3, <1>4, <1>6, <1>7
<1> QED BY <1>7, SpendsEach DEF y

\* Taking the wakers of a claim's streams.
LEMMA TakeClaimStreamsSpends ==
    ASSUME NEW x, IsCell(x), x.k \in CallEntry
    PROVE  Spends(x, TakeClaimStreams(x))
<1> DEFINE y == TakeClaimStreams(x)
           g(s) == [x.k.streams[s] EXCEPT !.waker = NoWaker]
           f == [s \in StreamNos |-> g(s)]
           more == ClaimStreamWaiters(x.k, StreamNos)
<1>1. y = [x EXCEPT !.k.streams = f, !.wake = @ \cup more]
  BY DEF TakeClaimStreams
<1>2. ASSUME NEW s \in StreamNos, Spent(x.k.streams[s]) PROVE Spent(g(s))
  <2>1. x.k.streams[s] \in StreamType
    BY DEF CallEntry
  <2> QED BY <1>2, <2>1 DEF StreamType, Spent, Finished
<1>3. \A s \in StreamNos : f[s] = g(s)
  OBVIOUS
<1> HIDE DEF y, f, g, more
<1>4. y.k = [x.k EXCEPT !.streams = f]
  BY <1>1 DEF IsCell
<1>5. y.k.streams = f
  BY <1>4 DEF CallEntry
<1>6. ASSUME NEW s \in StreamNos \ {ReplyStream}, Spent(x.k.streams[s])
      PROVE  Spent(y.k.streams[s])
  BY <1>2, <1>3, <1>5, <1>6
<1> QED BY <1>6, SpendsEach DEF y

\* The forget that was deferred.
LEMMA UnmarkedForgetSpends ==
    ASSUME NEW x, IsCell(x), x.k \in CallEntry
    PROVE  Spends(x, ForgetInTable([x EXCEPT !.k.pendingForget = FALSE]))
<1> DEFINE z == [x EXCEPT !.k.pendingForget = FALSE]
           y == ForgetInTable(z)
<1>1. IsCell(z) /\ z.k = [x.k EXCEPT !.pendingForget = FALSE]
  BY DEF IsCell
<1> HIDE DEF z
<1>2. z.k \in CallEntry /\ z.k.streams = x.k.streams
  BY <1>1, UnmarkedEntry
<1>3. y.k # NoCall => y.k.streams = z.k.streams
  BY <1>1, <1>2, ForgetInTableSpends
<1> HIDE DEF y
<1>4. y.k = NoCall \/ y.k.streams = x.k.streams
  BY <1>2, <1>3
<1> QED BY <1>4, SpendsSame DEF y, z

\* And when everything is read.
LEMMA ReleaseIfDrainedSpends ==
    ASSUME NEW x, IsCell(x), x.k \in CallEntry
    PROVE  Spends(x, ReleaseIfDrained(x))
<1>1. Spends(x, x)
  BY SpendsSame
<1> QED BY <1>1, UnmarkedForgetSpends DEF ReleaseIfDrained

\* Deferring a forget leaves the streams alone, and the call in its slot.
LEMMA DeferForgetSpends ==
    ASSUME NEW x, IsCell(x), x.k \in CallEntry
    PROVE  LET y == DeferForget(x)
           IN  Spends(x, y) /\ y.k.streams = x.k.streams /\ SameCall(x.k, y.k) /\ y.k \in CallEntry
<1> DEFINE c == x.k.correlation
           u == TakeStreams(x)
           y == [u EXCEPT !.k.forgotten = TRUE, !.k.pendingForget = TRUE,
                          !.e = WakeOnEntry(@, c, Noop),
                          !.wake = @ \cup OutcomeWaiter(x.e, c)]
<1>1. IsCell(u) /\ u.k = x.k
  BY TakeStreamsFields
<1>2. DeferForget(x) = y
  BY DEF DeferForget
<1> HIDE DEF u
<1>3. y.k = [x.k EXCEPT !.forgotten = TRUE, !.pendingForget = TRUE]
  BY <1>1 DEF IsCell
<1> HIDE DEF y
<1>4. y.k.streams = x.k.streams /\ SameCall(x.k, y.k) /\ y.k \in CallEntry
  BY <1>3 DEF CallEntry, SameCall
<1>5. Spends(x, y)
  BY <1>4, SpendsSame
<1> QED BY <1>2, <1>4, <1>5

\* A forget.
LEMMA ForgetCellSpends ==
    ASSUME NEW x, NEW i, Good(x, i), x.k # NoCall,
           Waiting(x.k) => x.e.state # "Settled"
    PROVE  Spends(x, ForgetCell(x))
<1> DEFINE y == InterruptStreams(x)
<1>1. Occupied(x, i) /\ IsCell(x) /\ x.k \in CallEntry
  BY GoodOccupied DEF Occupied
<1>2. Spends(x, y)
  BY <1>1, InterruptStreamsSpends
<1>3. CellMoved(x, y)
  BY <1>1, InterruptStreamsMoved
<1>4. IsCell(y) /\ y.k \in CallEntry /\ y.k # NoCall
  BY <1>3, NoneAssumption DEF CellMoved, StreamsMoved
<1>5. ForgetCell(x) =
         CASE x.k.pendingForget -> x
           [] Withdrawable(x.k) -> Withdraw(y)
           [] ~x.k.pendingForget /\ ~Withdrawable(x.k) /\ Defers(y.k) -> DeferForget(y)
           [] OTHER -> ForgetInTable(y)
  BY DEF ForgetCell
<1> HIDE DEF y
<1>6. CASE Withdrawable(x.k)
  <2>1. ForgetCell(x).k = NoCall
    BY <1>6, ForgetCellGood
  <2> QED BY <2>1, SpendsSame
<1>7. CASE ~Withdrawable(x.k)
  <2>1. Spends(x, x)
    BY SpendsSame
  <2>2. Spends(y, DeferForget(y)) /\ Spends(y, ForgetInTable(y))
    BY <1>4, DeferForgetSpends, ForgetInTableSpends
  <2>3. Spends(x, DeferForget(y)) /\ Spends(x, ForgetInTable(y))
    BY <1>2, <1>4, <2>2, SpendsTwice
  <2> QED BY <1>5, <1>7, <2>1, <2>3
<1> QED BY <1>6, <1>7

\* Finishing the reply leaves the parameters alone.
LEMMA FinishReplySpends ==
    ASSUME NEW k \in CallEntry, NEW outcome
    PROVE  \A s \in StreamNos \ {ReplyStream} : FinishReply(k, outcome).streams[s] = k.streams[s]
<1> DEFINE st == Stream(k, ReplyStream)
           t == CASE Finished(st) -> st
                  [] ~Finished(st) /\ outcome = "Ok" -> [st EXCEPT !.ended = TRUE]
                  [] OTHER -> [st EXCEPT !.stopped = "Provider"]
           f == [k.streams EXCEPT ![ReplyStream] = t]
           l == FinishReply(k, outcome)
<1>1. l = [k EXCEPT !.streams = f]
  BY DEF FinishReply
<1> HIDE DEF l, t
<1>2. \A s \in StreamNos \ {ReplyStream} : f[s] = k.streams[s]
  BY DEF CallEntry
<1> HIDE DEF f
<1>3. l.streams = f
  BY <1>1 DEF CallEntry
<1> QED BY <1>2, <1>3 DEF l

\* A settlement.
LEMMA SettleCellSpends ==
    ASSUME NEW x, NEW i, Good(x, i), x.k # NoCall, x.e.state \in {"InFlight", "Forgotten"},
           NEW h \in Handlers, NEW outcome \in Outcomes
    PROVE  Spends(x, SettleCell(x, h, outcome))
<1> DEFINE c == x.k.correlation
           settled == [x EXCEPT !.e = SettleEntry(@, c, outcome), !.k.settledBy = h,
                                !.wake = @ \cup OutcomeWaiter(x.e, c)]
           done == IF x.k.kind = "Query" \/ outcome # "Ok" THEN ReleaseParameters(settled)
                   ELSE settled
           replied == [done EXCEPT !.k = FinishReply(@, outcome)]
           gone == [x EXCEPT !.e = SettleEntry(@, c, outcome)]
           y == SettleCell(x, h, outcome)
<1>1. x.e \in Entry /\ x.k \in CallEntry /\ Held(x.e, c) /\ IsCell(x)
  BY GoodOccupied DEF Occupied
<1>2. y = CASE SettleAnswer(x.e, c) = "Recorded" -> ReleaseIfDrained(TakeStreams(replied))
            [] SettleAnswer(x.e, c) = "Reclaimed" -> Reclaim(gone)
            [] OTHER -> Panic(x)
  BY DEF SettleCell
<1>3. IsCell(settled) /\ settled.k = [x.k EXCEPT !.settledBy = h]
  BY <1>1 DEF IsCell
<1>4. IsCell(gone)
  BY <1>1 DEF IsCell
<1> HIDE DEF settled, gone, y
<1>5. settled.k \in CallEntry /\ settled.k.streams = x.k.streams
  BY <1>1, <1>3 DEF CallEntry
<1>6. Spends(x, settled) /\ settled.k # NoCall
  BY <1>5, SpendsSame, NoneAssumption
<1>7. Spends(settled, done) /\ IsCell(done) /\ done.k \in CallEntry /\ done.k # NoCall
  <2>1. Spends(settled, settled)
    BY SpendsSame
  <2>2. Spends(settled, ReleaseParameters(settled))
        /\ CellMoved(settled, ReleaseParameters(settled))
    BY <1>3, <1>5, ReleaseParametersSpends, ReleaseParametersMoved
  <2>3. ReleaseParameters(settled).k \in CallEntry /\ IsCell(ReleaseParameters(settled))
    BY <2>2 DEF CellMoved, StreamsMoved
  <2> QED BY <1>3, <1>5, <2>1, <2>2, <2>3, NoneAssumption
<1> HIDE DEF done
<1>8. IsCell(replied) /\ replied.k = FinishReply(done.k, outcome)
  BY <1>7 DEF IsCell
<1> HIDE DEF replied
<1>9. replied.k \in CallEntry /\ replied.k # NoCall
  BY <1>7, <1>8, FinishReplyMoved, NoneAssumption DEF StreamsMoved
<1>10. Spends(done, replied)
  BY <1>7, <1>8, FinishReplySpends, SpendsEach
<1> DEFINE w == TakeStreams(replied)
<1>11. Spends(replied, w) /\ w.k = replied.k /\ IsCell(w)
  BY <1>8, TakeStreamsSpends, TakeStreamsFields
<1> HIDE DEF w
<1>12. Spends(w, ReleaseIfDrained(w))
  BY <1>9, <1>11, ReleaseIfDrainedSpends
<1>13. Spends(x, ReleaseIfDrained(w))
  <2>1. Spends(x, done)
    BY <1>6, <1>7, SpendsTwice
  <2>2. Spends(x, replied)
    BY <1>7, <1>10, <2>1, SpendsTwice
  <2>3. Spends(x, w)
    BY <1>9, <1>11, <2>2, SpendsTwice
  <2> QED BY <1>9, <1>11, <1>12, <2>3, SpendsTwice
<1>14. CASE x.e.state = "Forgotten"
  <2>1. y = Reclaim(gone)
    BY <1>1, <1>2, <1>14, EntrySettled
  <2>2. y.k = NoCall
    BY <1>4, <2>1, ReclaimFields
  <2> QED BY <2>2, SpendsSame DEF y
<1>15. CASE x.e.state = "InFlight"
  <2>1. SettleAnswer(x.e, c) = "Recorded"
    BY <1>1, <1>15, EntrySettled
  <2>2. y = ReleaseIfDrained(w)
    BY <1>2, <2>1 DEF w
  <2> QED BY <1>13, <2>2 DEF y
<1> QED BY <1>14, <1>15

\* The interruption of a claim.
LEMMA InterruptClaimSpends ==
    ASSUME NEW x, NEW i, Good(x, i), x.k # NoCall, x.e.state \in {"InFlight", "Forgotten"}
    PROVE  Spends(x, InterruptClaim(x))
<1> DEFINE c == x.k.correlation
           y == ReleaseParameters(x)
           r == FinishReply(y.k, "Interrupted")
           l == [r EXCEPT !.streams[ReplyStream].waker = NoWaker]
           z == [y EXCEPT !.k = [FinishReply(@, "Interrupted") EXCEPT
                                  !.streams[ReplyStream].waker = NoWaker],
                          !.wake = @ \cup ClaimStreamWaiters(y.k, {ReplyStream}),
                          !.e = SettleEntry(@, c, "Interrupted")]
           u == TakeStreams(z)
           w == [u EXCEPT !.wake = @ \cup OutcomeWaiter(x.e, c)]
<1>1. x.e \in Entry /\ x.k \in CallEntry /\ Held(x.e, c) /\ IsCell(x)
  BY GoodOccupied DEF Occupied
<1>2. InterruptClaim(x) =
         CASE SettleAnswer(x.e, c) = "Recorded" -> w
           [] SettleAnswer(x.e, c) = "Reclaimed" -> Reclaim(z)
           [] OTHER -> Panic(x)
  BY DEF InterruptClaim
<1>3. Spends(x, y) /\ CellMoved(x, y)
  BY <1>1, ReleaseParametersSpends, ReleaseParametersMoved
<1> HIDE DEF y
<1>4. IsCell(y) /\ y.k \in CallEntry /\ y.k # NoCall
  BY <1>3, NoneAssumption DEF CellMoved, StreamsMoved
<1>5. IsCell(z) /\ z.k = l
  BY <1>4 DEF IsCell
<1>6. \A s \in StreamNos \ {ReplyStream} : r.streams[s] = y.k.streams[s]
  BY <1>4, FinishReplySpends
<1>7. r \in CallEntry
  BY <1>4, FinishReplyMoved DEF StreamsMoved
<1> HIDE DEF r, z
<1>8. \A s \in StreamNos \ {ReplyStream} : l.streams[s] = r.streams[s]
  <2> DEFINE st == [r.streams[ReplyStream] EXCEPT !.waker = NoWaker]
             f == [r.streams EXCEPT ![ReplyStream] = st]
  <2>1. l = [r EXCEPT !.streams = f]
    OBVIOUS
  <2> HIDE DEF st
  <2>2. \A s \in StreamNos \ {ReplyStream} : f[s] = r.streams[s]
    BY <1>7 DEF CallEntry
  <2> HIDE DEF f, l
  <2>3. l.streams = f
    BY <1>7, <2>1 DEF CallEntry
  <2> QED BY <2>2, <2>3
<1> HIDE DEF l
<1>9. Spends(y, z)
  BY <1>5, <1>6, <1>8, SpendsEach
<1>10. u.k = z.k /\ IsCell(u)
  BY <1>5, TakeStreamsFields
<1> HIDE DEF u
<1>11. w.k = z.k
  BY <1>10 DEF IsCell
<1> HIDE DEF w
<1>12. Spends(x, z)
  BY <1>3, <1>4, <1>9, SpendsTwice
<1>13. Spends(x, w)
  BY <1>11, <1>12 DEF Spends
<1>14. Spends(x, Reclaim(z))
  BY <1>5, ReclaimFields, SpendsSame
<1>15. SettleAnswer(x.e, c) \in {"Recorded", "Reclaimed"}
  BY <1>1, EntrySettled, LoopbackAssumption
<1> QED BY <1>2, <1>13, <1>14, <1>15

\* The drop of the handler that holds the call.
LEMMA DropHeldSpends ==
    ASSUME NEW x, NEW i, Good(x, i), x.k # NoCall, x.e.state \in {"InFlight", "Forgotten"}, NEW h
    PROVE  Spends(x, DropHeld(x, h))
<1> DEFINE y == TakeClaimStreams(x)
<1>1. IsCell(x) /\ x.k \in CallEntry
  BY GoodOccupied DEF Occupied
<1>2. Spends(x, y) /\ CellMoved(x, y)
  BY <1>1, TakeClaimStreamsSpends, TakeClaimStreamsMoved
<1>3. DropHeld(x, h) =
         CASE x.k.forgotten -> Withdraw(y)
           [] ~x.k.forgotten /\ Owner(x.k).taken /\ x.k.providerUsedStreams -> InterruptClaim(y)
           [] OTHER -> y
  BY DEF DropHeld
<1> HIDE DEF y
<1>4. Good(y, i) /\ y.k # NoCall /\ y.e.state = x.e.state
  BY <1>2, MovedGood
<1>5. Spends(x, InterruptClaim(y))
  BY <1>2, <1>4, InterruptClaimSpends, SpendsTwice
<1>6. Spends(x, Withdraw(y))
  <2>1. Withdraw(y).k = NoCall
    BY <1>4, GoodOccupied, WithdrawGood
  <2> QED BY <2>1, SpendsSame
<1> QED BY <1>2, <1>3, <1>5, <1>6

\* The drop of the handler that settled it.
LEMMA DropSettledSpends ==
    ASSUME NEW x, NEW i, Good(x, i), x.k # NoCall
    PROVE  Spends(x, DropSettled(x))
<1> DEFINE v == [x EXCEPT !.k.settledBy = None]
           p == ReleaseParameters(v)
           t == TakeStreams(p)
           y == TakeClaimStreams(t)
<1>1. IsCell(x) /\ x.k \in CallEntry
  BY GoodOccupied DEF Occupied
<1>2. IsCell(v) /\ v.k = [x.k EXCEPT !.settledBy = None]
  BY <1>1 DEF IsCell
<1>3. DropSettled(x) =
         IF x.k.pendingForget THEN ForgetInTable([y EXCEPT !.k.pendingForget = FALSE]) ELSE y
  BY DEF DropSettled
<1> HIDE DEF v
<1>4. v.k \in CallEntry /\ v.k.streams = x.k.streams
  BY <1>1, <1>2 DEF CallEntry, None
<1>5. Spends(x, v) /\ v.k # NoCall
  BY <1>4, SpendsSame, NoneAssumption
<1>6. Spends(v, p) /\ CellMoved(v, p)
  BY <1>2, <1>4, ReleaseParametersSpends, ReleaseParametersMoved
<1> HIDE DEF p
<1>7. IsCell(p) /\ p.k \in CallEntry /\ p.k # NoCall
  BY <1>6, NoneAssumption DEF CellMoved, StreamsMoved
<1>8. Spends(p, t) /\ t.k = p.k /\ IsCell(t)
  BY <1>7, TakeStreamsSpends, TakeStreamsFields
<1> HIDE DEF t
<1>9. Spends(t, y) /\ CellMoved(t, y)
  BY <1>7, <1>8, TakeClaimStreamsSpends, TakeClaimStreamsMoved
<1> HIDE DEF y
<1>10. IsCell(y) /\ y.k \in CallEntry /\ y.k # NoCall
  BY <1>9, NoneAssumption DEF CellMoved, StreamsMoved
<1>11. Spends(x, y)
  <2>1. Spends(x, p)
    BY <1>5, <1>6, SpendsTwice
  <2>2. Spends(x, t)
    BY <1>7, <1>8, <2>1, SpendsTwice
  <2> QED BY <1>7, <1>8, <1>9, <2>2, SpendsTwice
<1>12. Spends(x, ForgetInTable([y EXCEPT !.k.pendingForget = FALSE]))
  BY <1>10, <1>11, UnmarkedForgetSpends, SpendsTwice
<1> QED BY <1>3, <1>11, <1>12

\* What becomes of one stream.
LEMMA UsedSpends ==
    ASSUME NEW x, IsCell(x), x.k \in CallEntry, NEW s \in StreamNos, NEW t \in StreamType,
           s # ReplyStream /\ Spent(Stream(x.k, s)) => Spent(t), NEW side, NEW other
    PROVE  LET y == Used(WithStream(x, s, t), side)
               z == WakeSide(y, s, other)
           IN  /\ Spends(x, WithStream(x, s, t))
               /\ Spends(x, y) /\ IsCell(y) /\ y.k \in CallEntry
               /\ Spends(x, z) /\ IsCell(z) /\ z.k \in CallEntry
<1> DEFINE u == WithStream(x, s, t)
           y == Used(u, side)
           z == WakeSide(y, s, other)
<1>1. u.k = [x.k EXCEPT !.streams[s] = t] /\ IsCell(u)
  BY DEF WithStream, IsCell
<1>2. CellMoved(x, u)
  BY WithStreamMoved
<1> HIDE DEF u
<1>3. u.k \in CallEntry /\ u.k # NoCall
  BY <1>2, NoneAssumption DEF CellMoved, StreamsMoved
<1>4. u.k.streams = [x.k.streams EXCEPT ![s] = t]
  BY <1>1 DEF CallEntry
<1>5. Spends(x, u)
  <2>1. x.k.streams \in [StreamNos -> StreamType]
    BY DEF CallEntry
  <2>2. ASSUME NEW r \in StreamNos \ {ReplyStream}, Spent(x.k.streams[r])
        PROVE  Spent(u.k.streams[r])
    <3>1. CASE r = s
      <4>1. Spent(Stream(x.k, s))
        BY <2>2, <3>1, StreamSpent
      <4> QED BY <1>4, <2>1, <2>2, <3>1, <4>1
    <3>2. CASE r # s
      BY <1>4, <2>1, <2>2, <3>2
    <3> QED BY <3>1, <3>2
  <2> QED BY <2>2, SpendsEach
<1>6. CellMoved(u, y)
  BY <1>1, <1>3, UsedMoved
<1>7. y.k = u.k \/ y.k = [u.k EXCEPT !.providerUsedStreams = TRUE]
  BY <1>1 DEF Used, IsCell
<1> HIDE DEF y
<1>8. y.k \in CallEntry /\ y.k # NoCall /\ IsCell(y)
  BY <1>6, NoneAssumption DEF CellMoved, StreamsMoved
<1>9. y.k.streams = u.k.streams
  BY <1>3, <1>7 DEF CallEntry
<1>10. Spends(x, y)
  BY <1>3, <1>5, <1>9, SpendsSame, SpendsTwice
<1>11. Spends(y, z) /\ IsCell(z) /\ z.k \in CallEntry
  <2>1. CASE other = "Caller"
    <3>1. z.k = y.k /\ IsCell(z)
      BY <1>8, <2>1 DEF WakeSide, IsCell
    <3> QED BY <1>8, <3>1, SpendsSame
  <2>2. CASE other # "Caller"
    <3> DEFINE w == [y.k.streams[s] EXCEPT !.waker = NoWaker]
               f == [y.k.streams EXCEPT ![s] = w]
    <3>1. z.k = [y.k EXCEPT !.streams = f] /\ IsCell(z)
      BY <1>8, <2>2 DEF WakeSide, IsCell
    <3>2. y.k.streams \in [StreamNos -> StreamType]
      BY <1>8 DEF CallEntry
    <3>3. w \in StreamType /\ (Spent(y.k.streams[s]) => Spent(w))
      BY <3>2, NoWakerIsNone DEF StreamType, Spent, Finished
    <3> HIDE DEF w
    <3>4. f \in [StreamNos -> StreamType] /\ f[s] = w
          /\ \A r \in StreamNos \ {s} : f[r] = y.k.streams[r]
      BY <3>2, <3>3
    <3> HIDE DEF f, z
    <3>5. z.k \in CallEntry
      BY <1>8, <3>1, <3>4, OtherStreams
    <3>6. z.k.streams = f
      BY <1>8, <3>1 DEF CallEntry
    <3>7. ASSUME NEW r \in StreamNos \ {ReplyStream}, Spent(y.k.streams[r])
          PROVE  Spent(z.k.streams[r])
      BY <3>3, <3>4, <3>6, <3>7
    <3> QED BY <3>1, <3>5, <3>7, SpendsEach
  <2> QED BY <2>1, <2>2
<1>12. Spends(x, z)
  BY <1>8, <1>10, <1>11, SpendsTwice
<1> QED BY <1>5, <1>8, <1>10, <1>11, <1>12 DEF u, y

\* The type of a stream.
LEMMA StreamTyped ==
    ASSUME NEW k \in CallEntry, NEW s \in StreamNos
    PROVE  Stream(k, s) \in StreamType
  BY StreamsTyped

\* A pull drains a finished stream only when nothing is left in it.
LEMMA PullCellSpends ==
    ASSUME NEW x, IsCell(x), x.k \in CallEntry, NEW s \in StreamNos, NEW side
    PROVE  Spends(x, PullCell(x, side, s))
<1> DEFINE st == Stream(x.k, s)
           t == [st EXCEPT !.chunks = Tail(@)]
           d == [st EXCEPT !.drained = TRUE]
           y == Used(WithStream(x, s, d), side)
<1>1. st \in StreamType
  BY StreamTyped
<1>2. PullCell(x, side, s) =
         CASE st.chunks # <<>> -> WakeSide(Used(WithStream(x, s, t), side), s, Other(side))
           [] st.chunks = <<>> /\ Finished(st) /\ side = "Provider" -> ReleaseIfDrained(y)
           [] OTHER -> WithStream(x, s, st)
  BY DEF PullCell
<1>3. CASE st.chunks # <<>>
  <2>1. t \in StreamType /\ (Spent(st) => Spent(t))
    <3> DEFINE q == Tail(st.chunks)
    <3>1. q \in Seq({"empty", "bytes"})
      BY <1>1, <1>3 DEF StreamType
    <3>2. t = [st EXCEPT !.chunks = q]
      OBVIOUS
    <3> HIDE DEF q, t, st
    <3> QED BY <1>1, <1>3, <3>1, <3>2 DEF StreamType, Spent
  <2> HIDE DEF t
  <2>2. Spends(x, WakeSide(Used(WithStream(x, s, t), side), s, Other(side)))
    BY <2>1, UsedSpends
  <2> QED BY <1>2, <1>3, <2>2
<1>4. CASE st.chunks = <<>> /\ Finished(st)
  <2>1. d \in StreamType /\ Spent(d)
    BY <1>1, <1>4 DEF StreamType, Spent, Finished
  <2> HIDE DEF d
  <2>2. Spends(x, y) /\ IsCell(y) /\ y.k \in CallEntry
    BY <2>1, UsedSpends
  <2> HIDE DEF y
  <2>3. Spends(x, ReleaseIfDrained(y))
    BY <2>2, ReleaseIfDrainedSpends, SpendsTwice, NoneAssumption
  <2>4. Spends(x, WithStream(x, s, st))
    BY <1>1, UsedSpends
  <2> QED BY <1>2, <1>4, <2>3, <2>4
<1>5. CASE st.chunks = <<>> /\ ~Finished(st)
  <2>1. Spends(x, WithStream(x, s, st))
    BY <1>1, UsedSpends
  <2> QED BY <1>2, <1>5, <2>1
<1> QED BY <1>3, <1>4, <1>5

\* A push is refused by a finished stream.
LEMMA PushCellSpends ==
    ASSUME NEW x, IsCell(x), x.k \in CallEntry, NEW s \in StreamNos, NEW side,
           NEW chunk \in {"bytes", "empty"}
    PROVE  Spends(x, PushCell(x, side, s, chunk))
<1> DEFINE st == Stream(x.k, s)
           t == [st EXCEPT !.chunks = Append(@, chunk)]
           z == WakeSide(Used(WithStream(x, s, t), side), s, Other(side))
<1>1. st \in StreamType
  BY StreamTyped
<1>2. PushCell(x, side, s, chunk) =
         CASE side = "Provider" /\ x.k.forgotten -> x
           [] ~(side = "Provider" /\ x.k.forgotten)
                 /\ (Closed(st) \/ (chunk = "bytes" /\ Full(st))) -> WithStream(x, s, st)
           [] OTHER -> z
  BY DEF PushCell
<1>3. Spends(x, x) /\ Spends(x, WithStream(x, s, st))
  BY <1>1, UsedSpends, SpendsSame
<1>4. ASSUME ~Closed(st) PROVE Spends(x, z)
  <2>1. t \in StreamType /\ (Spent(st) => Spent(t))
    <3> DEFINE q == Append(st.chunks, chunk)
    <3>1. q \in Seq({"empty", "bytes"})
      BY <1>1 DEF StreamType
    <3>2. t = [st EXCEPT !.chunks = q]
      OBVIOUS
    <3> HIDE DEF q, t, st
    <3> QED BY <1>1, <1>4, <3>1, <3>2 DEF StreamType, Spent, Closed
  <2> HIDE DEF t
  <2> QED BY <2>1, UsedSpends
<1> HIDE DEF z
<1> QED BY <1>2, <1>3, <1>4

\* The end of a stream.
LEMMA EndCellSpends ==
    ASSUME NEW x, IsCell(x), x.k \in CallEntry, NEW s \in StreamNos, NEW side
    PROVE  Spends(x, EndCell(x, side, s))
<1> DEFINE st == Stream(x.k, s)
           t == [st EXCEPT !.ended = TRUE]
           z == WakeSide(WithStream(x, s, t), s, Other(side))
<1>1. st \in StreamType
  BY StreamTyped
<1>2. EndCell(x, side, s) =
         CASE side = "Provider" /\ x.k.forgotten -> x
           [] ~(side = "Provider" /\ x.k.forgotten) /\ Closed(st) -> WithStream(x, s, st)
           [] OTHER -> z
  BY DEF EndCell
<1>3. Spends(x, x) /\ Spends(x, WithStream(x, s, st))
  BY <1>1, UsedSpends, SpendsSame
<1>4. t \in StreamType /\ (Spent(st) => Spent(t))
  BY <1>1 DEF StreamType, Spent, Finished
<1> HIDE DEF t
<1>5. Used(WithStream(x, s, t), "Caller") = WithStream(x, s, t)
  BY DEF Used
<1>6. Spends(x, WakeSide(Used(WithStream(x, s, t), "Caller"), s, Other(side)))
  BY <1>4, UsedSpends
<1> QED BY <1>2, <1>3, <1>5, <1>6

\* An abort by the receiver drops what the stream holds.
LEMMA AbortCellSpends ==
    ASSUME NEW x, IsCell(x), x.k \in CallEntry, NEW s \in StreamNos, NEW side \in Sides
    PROVE  Spends(x, AbortCell(x, side, s))
<1> DEFINE st == Stream(x.k, s)
           receiver == Producer(s) # side
           dropped == IF receiver THEN <<>> ELSE st.chunks
           provider == side = "Provider"
           refused == [st EXCEPT !.chunks = dropped, !.drained = @ \/ (receiver /\ provider)]
           stopped == [st EXCEPT !.chunks = dropped, !.drained = @ \/ provider, !.stopped = side]
           a == Used(WithStream(x, s, refused), side)
           b == WakeSide(Used(WithStream(x, s, stopped), side), s, Other(side))
<1>1. st \in StreamType
  BY StreamTyped
<1>2. AbortCell(x, side, s) =
         IF Finished(st)
         THEN IF receiver THEN IF provider THEN ReleaseIfDrained(a) ELSE a ELSE a
         ELSE IF provider THEN ReleaseIfDrained(b) ELSE b
  BY DEF AbortCell
<1> HIDE DEF st
<1>3. /\ dropped \in Seq({"empty", "bytes"}) /\ (st.chunks = <<>> => dropped = <<>>)
      /\ receiver => dropped = <<>>
  BY <1>1 DEF StreamType
<1>4. /\ receiver \in BOOLEAN /\ provider \in BOOLEAN
      /\ s # ReplyStream => (receiver <=> provider)
  BY DEF Producer, Sides
<1> HIDE DEF dropped, receiver, provider
<1>5. /\ refused \in StreamType
      /\ Finished(st) => Finished(refused)
      /\ refused.drained = (st.drained \/ (receiver /\ provider))
      /\ refused.chunks = dropped
  BY <1>1, <1>3, <1>4 DEF StreamType, Finished
<1>6. /\ stopped \in StreamType /\ Finished(stopped)
      /\ stopped.drained = (st.drained \/ provider)
      /\ stopped.chunks = dropped
  BY <1>1, <1>3, <1>4 DEF StreamType, Sides, Finished
<1> HIDE DEF refused, stopped
<1>7. Finished(st) => (Spent(st) => Spent(refused))
  BY <1>3, <1>5 DEF Spent
<1>8. s # ReplyStream => (Spent(st) => Spent(stopped))
  BY <1>3, <1>4, <1>6 DEF Spent
<1>9. Finished(st) => Spends(x, a) /\ IsCell(a) /\ a.k \in CallEntry
  BY <1>5, <1>7, UsedSpends DEF st
<1>10. Spends(x, b) /\ IsCell(b) /\ b.k \in CallEntry
  BY <1>6, <1>8, UsedSpends DEF st
<1> HIDE DEF a, b
<1>11. Finished(st) => Spends(x, ReleaseIfDrained(a))
  BY <1>9, ReleaseIfDrainedSpends, SpendsTwice, NoneAssumption
<1>12. Spends(x, ReleaseIfDrained(b))
  BY <1>10, ReleaseIfDrainedSpends, SpendsTwice, NoneAssumption
<1> QED BY <1>2, <1>9, <1>10, <1>11, <1>12

\* So it is with every call of the store.
EInv == \A i \in Slots : calls[i] # NoCall => Emptied(calls[i])

\* Operations on cells that leave the parameters spent.
LEMMA AppliedEmptied ==
    ASSUME EInv, NEW cells, NEW more, Apply(cells, more),
           \A i \in Slots : calls[i] # NoCall => Spends(Cell(i), cells[i]),
           \A i \in Slots : calls[i] = NoCall /\ cells[i].k # NoCall => Emptied(cells[i].k)
    PROVE  EInv'
<1>1. calls' = [i \in Slots |-> cells[i].k]
  BY DEF Apply
<1> SUFFICES ASSUME NEW i \in Slots, calls'[i] # NoCall PROVE Emptied(calls'[i])
  BY DEF EInv
<1>2. calls'[i] = cells[i].k
  BY <1>1
<1>3. CASE calls[i] = NoCall
  BY <1>2, <1>3
<1>4. CASE calls[i] # NoCall
  <2>1. Spends(Cell(i), cells[i]) /\ Cell(i).k = calls[i] /\ Emptied(calls[i])
    BY <1>4, CellFields DEF EInv
  <2> QED BY <1>2, <2>1 DEF Spends
<1> QED BY <1>3, <1>4

\* An operation on one cell.
LEMMA OneEmptied ==
    ASSUME EInv, NEW i \in Slots, calls[i] # NoCall, NEW x, ApplyTo(i, x), Spends(Cell(i), x)
    PROVE  EInv'
<1> DEFINE cells == [j \in Slots |-> IF j = i THEN x ELSE Cell(j)]
<1>1. Apply(cells, {})
  BY DEF ApplyTo
<1>2. \A j \in Slots : cells[j] = IF j = i THEN x ELSE Cell(j)
  OBVIOUS
<1> HIDE DEF cells
<1>3. \A j \in Slots : calls[j] # NoCall => Spends(Cell(j), cells[j])
  BY <1>2, SpendsSame
<1>4. \A j \in Slots : calls[j] = NoCall => cells[j].k = NoCall
  BY <1>2, CellFields
<1> QED BY <1>1, <1>3, <1>4, AppliedEmptied

\* A forget of a live call.
LEMMA ForgottenSpends ==
    ASSUME IInv, NEW i \in Slots, calls[i] # NoCall
    PROVE  Spends(Cell(i), ForgetCell(Cell(i)))
<1> DEFINE x == Cell(i)
<1>1. Good(x, i) /\ x.e = slots[i] /\ x.k = calls[i]
  BY CellGood
<1>2. Waiting(calls[i]) => slots[i].state # "Settled"
  BY WaitingIff DEF WaitsIn
<1> HIDE DEF x
<1>3. Spends(x, ForgetCell(x))
  BY <1>1, <1>2, ForgetCellSpends
<1> QED BY <1>3 DEF x

\* The drop of a handler, of a live call.
LEMMA DroppedSpends ==
    ASSUME IInv, NEW i \in Slots, calls[i] # NoCall, NEW h
    PROVE  Spends(Cell(i), CloseHandlerCell(Cell(i), h))
<1> DEFINE x == Cell(i)
<1>1. Good(x, i) /\ x.e = slots[i] /\ x.k = calls[i]
  BY CellGood
<1>2. HeldBy(h, calls[i]) => slots[i].state \in {"InFlight", "Forgotten"}
  BY OwnedCall DEF HeldBy, Claimed
<1> HIDE DEF x
<1>3. CloseHandlerCell(x, h) =
        CASE x.k # NoCall /\ HeldBy(h, x.k) -> DropHeld(x, h)
          [] x.k # NoCall /\ ~HeldBy(h, x.k) /\ x.k.settledBy = h -> DropSettled(x)
          [] OTHER -> x
  BY DEF CloseHandlerCell
<1>4. CASE HeldBy(h, calls[i])
  <2>1. CloseHandlerCell(x, h) = DropHeld(x, h)
    BY <1>1, <1>3, <1>4
  <2>2. Spends(x, DropHeld(x, h))
    BY <1>1, <1>2, <1>4, DropHeldSpends
  <2> QED BY <2>1, <2>2 DEF x
<1>5. CASE ~HeldBy(h, calls[i]) /\ calls[i].settledBy = h
  <2>1. CloseHandlerCell(x, h) = DropSettled(x)
    BY <1>1, <1>3, <1>5
  <2>2. Spends(x, DropSettled(x))
    BY <1>1, DropSettledSpends
  <2> QED BY <2>1, <2>2 DEF x
<1>6. CASE ~HeldBy(h, calls[i]) /\ calls[i].settledBy # h
  <2>1. CloseHandlerCell(x, h) = x
    BY <1>1, <1>3, <1>6
  <2>2. Spends(x, x)
    BY SpendsSame
  <2> QED BY <2>1, <2>2 DEF x
<1> QED BY <1>4, <1>5, <1>6

\* A new call has no stream yet.
LEMMA NewCallEmptied ==
    ASSUME NEW c, NEW caller, NEW kind, NEW member
    PROVE  Emptied(NewCall(c, caller, kind, member))
  BY DEF NewCall, Emptied, Spent, UnnamedStream

\* Send.
LEMMA SendEmptied ==
    ASSUME IInv, EInv, NEW caller \in Callers, NEW kind \in Kinds, NEW member \in Members,
           Send(caller, kind, member)
    PROVE  EInv'
<1> DEFINE i == Min(FreeSlots)
           c == Correlation(slots[i].generation, i)
           woken == {h \in handlers : Serves(h, member)}
           cell == [Cell(i) EXCEPT !.e = Inserted(@, 0), !.k = NewCall(c, caller, kind, member)]
           cells == [j \in Slots |-> IF j = i THEN cell ELSE Cell(j)]
           more == ClaimWaiters(woken)
<1>1. FreeSlots # {} /\ Apply(cells, more)
  BY DEF Send
<1>2. i \in FreeSlots
  <2>1. FreeSlots \in SUBSET Nat
    BY LoopbackAssumption DEF FreeSlots, Slots
  <2> QED BY <1>1, <2>1, MinIsLeast
<1>3. i \in Slots /\ calls[i] = NoCall
  BY <1>2 DEF FreeSlots, IInv, TypeOK, CellsOK, CellOK
<1>4. \A j \in Slots : cells[j] = IF j = i THEN cell ELSE Cell(j)
  OBVIOUS
<1>5. cell.k = NewCall(c, caller, kind, member)
  BY DEF Cell
<1>6. Emptied(cell.k)
  BY <1>5, NewCallEmptied
<1> HIDE DEF cells, cell, i, woken, more, c
<1>7. \A j \in Slots : calls[j] # NoCall => Spends(Cell(j), cells[j])
  BY <1>3, <1>4, SpendsSame
<1>8. \A j \in Slots : calls[j] = NoCall /\ cells[j].k # NoCall => Emptied(cells[j].k)
  BY <1>4, <1>6, CellFields
<1> QED BY <1>1, <1>7, <1>8, AppliedEmptied

\* The drop of a caller.
LEMMA CloseCallerEmptied ==
    ASSUME IInv, EInv, NEW caller \in Callers, CloseCaller(caller)
    PROVE  EInv'
<1> DEFINE sent == {i \in Slots : calls[i] # NoCall /\ calls[i].caller = caller}
           cells == [i \in Slots |-> IF i \in sent THEN ForgetCell(Cell(i)) ELSE Cell(i)]
           more == {<<"Slot", caller, 0, slotWaker[caller]>>}
<1>1. Apply(cells, more)
  BY DEF CloseCaller
<1>2. \A i \in Slots : cells[i] = IF i \in sent THEN ForgetCell(Cell(i)) ELSE Cell(i)
  OBVIOUS
<1>3. \A i \in sent : i \in Slots /\ calls[i] # NoCall
  OBVIOUS
<1> HIDE DEF cells, sent, more
<1>4. \A j \in Slots : calls[j] # NoCall => Spends(Cell(j), cells[j])
  BY <1>2, <1>3, SpendsSame, ForgottenSpends
<1>5. \A j \in Slots : calls[j] = NoCall => cells[j].k = NoCall
  BY <1>2, <1>3, CellFields
<1> QED BY <1>1, <1>4, <1>5, AppliedEmptied

\* A settlement.
LEMMA SettleEmptied ==
    ASSUME IInv, EInv, NEW h \in Handlers, NEW id \in ClaimIds, NEW outcome \in Outcomes,
           SettleClaim(h, id, outcome)
    PROVE  EInv'
<1> DEFINE c == claims[id].call
           i == SlotOf(c)
           x == Cell(i)
<1>1. i \in Slots /\ calls[i] # NoCall /\ slots[i].state \in {"InFlight", "Forgotten"}
  BY ClaimCall DEF SettleClaim
<1>2. ApplyTo(i, SettleCell(x, h, outcome))
  BY <1>1 DEF SettleClaim, HasEntry
<1>3. Good(x, i) /\ x.e = slots[i] /\ x.k = calls[i]
  BY <1>1, CellGood
<1> HIDE DEF x, i, c
<1>4. Spends(x, SettleCell(x, h, outcome))
  BY <1>1, <1>3, SettleCellSpends
<1>5. x = Cell(i)
  BY DEF x
<1> QED BY <1>1, <1>2, <1>4, <1>5, OneEmptied

\* The drop of a handler.
LEMMA CloseHandlerEmptied ==
    ASSUME IInv, EInv, NEW h \in Handlers, CloseHandler(h)
    PROVE  EInv'
<1> DEFINE woken == ReturnWakes(h, {calls[i] : i \in {j \in Slots : calls[j] # NoCall /\ Returns(h, calls[j])}})
           cells == [i \in Slots |-> CloseHandlerCell(Cell(i), h)]
           more == ClaimWaiters(woken \cup {h})
<1>1. Apply(cells, more)
  BY DEF CloseHandler
<1>2. \A i \in Slots : cells[i] = CloseHandlerCell(Cell(i), h)
  OBVIOUS
<1> HIDE DEF woken, cells, more
<1>3. \A j \in Slots : calls[j] # NoCall => Spends(Cell(j), cells[j])
  BY <1>2, DroppedSpends
<1>4. \A j \in Slots : calls[j] = NoCall => cells[j].k = NoCall
  BY <1>2, CellFields DEF CloseHandlerCell
<1> QED BY <1>1, <1>3, <1>4, AppliedEmptied

\* Presenting a call leaves its streams alone.
LEMMA NextClaimEmptied ==
    ASSUME IInv, EInv, NEW h \in Handlers, NEW fits \in BOOLEAN, NextClaim(h, fits)
    PROVE  EInv'
<1> DEFINE c == pending[Min(Servable(served[h]))]
           i == SlotOf(c)
           id == IF Mints(i) THEN nextClaim ELSE calls[i].claim
<1>1. i \in Slots /\ calls[i] # NoCall
  BY PresentedCall DEF NextClaim
<1>2. calls' = [calls EXCEPT ![i].claim = id]
  BY DEF NextClaim
<1>3. calls \in [Slots -> CallEntry \cup {NoCall}] /\ calls[i] \in CallEntry
  BY <1>1, LiveCall DEF IInv, TypeOK
<1> HIDE DEF i, id, c
<1>4. calls'[i] = [calls[i] EXCEPT !.claim = id] /\ \A j \in Slots \ {i} : calls'[j] = calls[j]
  BY <1>1, <1>2, <1>3
<1>5. calls'[i].streams = calls[i].streams
  BY <1>3, <1>4 DEF CallEntry
<1> QED BY <1>1, <1>4, <1>5 DEF EInv, Emptied

\* Every operation of the store.
LEMMA CallsNextEmptied == IInv /\ EInv /\ Next => EInv'
<1> SUFFICES ASSUME IInv, EInv, Next PROVE EInv'
  OBVIOUS
<1>0. {"Ok", "Err"} \subseteq Outcomes /\ (calls' = calls => EInv')
  BY LoopbackAssumption DEF EInv
<1>1. CASE OpenCaller \/ OpenHandler \/ FailNextSettle
  BY <1>0, <1>1 DEF OpenCaller, OpenHandler, FailNextSettle
<1>2. ASSUME NEW caller \in Callers,
             \/ \E kind \in Kinds, member \in Members : Send(caller, kind, member)
             \/ CloseCaller(caller)
      PROVE  EInv'
  BY <1>2, SendEmptied, CloseCallerEmptied
<1>3. ASSUME NEW caller \in Callers, NEW task \in Wakers, WaitSlot(caller, task)
      PROVE  EInv'
  BY <1>0, <1>3 DEF WaitSlot
<1>4. ASSUME NEW c \in Correlations, Forget(c)
      PROVE  EInv'
  BY <1>4, ForgottenSpends, OneEmptied DEF Forget, Known, HasEntry
<1>5. ASSUME NEW c \in Correlations, NEW task \in Wakers, WaitOutcome(c, task)
      PROVE  EInv'
  BY <1>0, <1>5 DEF WaitOutcome
<1>6. ASSUME NEW h \in Handlers, NEW member \in Members, Serve(h, member)
      PROVE  EInv'
  BY <1>0, <1>6 DEF Serve
<1>7. ASSUME NEW h \in Handlers,
             (\E fits \in BOOLEAN : NextClaim(h, fits)) \/ CloseHandler(h)
      PROVE  EInv'
  BY <1>7, NextClaimEmptied, CloseHandlerEmptied
<1>8. ASSUME NEW h \in Handlers, NEW id \in ClaimIds, NEW outcome \in {"Ok", "Err"},
             Settle(h, id, outcome)
      PROVE  EInv'
  BY <1>0, <1>8, SettleEmptied DEF Settle
<1>9. ASSUME NEW h \in Handlers, NEW id \in ClaimIds, SettleFails(h, id)
      PROVE  EInv'
  BY <1>0, <1>9 DEF SettleFails
<1>10. ASSUME NEW h \in Handlers, NEW task \in Wakers, WaitClaim(h, task)
      PROVE  EInv'
  BY <1>0, <1>10 DEF WaitClaim
<1> QED
  BY <1>1, <1>2, <1>3, <1>4, <1>5, <1>6, <1>7, <1>8, <1>9, <1>10 DEF Next

\* The call a side addresses is live.
LEMMA MayCell ==
    ASSUME IInv, NEW side, NEW i \in Slots, May(side, i)
    PROVE  /\ calls[i] # NoCall /\ calls[i] \in CallEntry
           /\ IsCell(Cell(i)) /\ Cell(i).k = calls[i]
<1>1. calls[i] # NoCall
  BY MayTook
<1> QED BY <1>1, LiveCall, CellGood

\* So is the call a handler addresses.
LEMMA HandlerMayCell ==
    ASSUME IInv, NEW h, NEW i \in Slots, HandlerMay(h, i)
    PROVE  /\ calls[i] # NoCall /\ calls[i] \in CallEntry
           /\ IsCell(Cell(i)) /\ Cell(i).k = calls[i]
<1>1. calls[i] # NoCall
  BY DEF HandlerMay
<1> QED BY <1>1, LiveCall, CellGood

\* The end or abort of a claim's stream.
LEMMA EndClaimEmptied ==
    ASSUME IInv, EInv, NEW h \in Handlers, NEW i \in Slots, NEW s \in StreamNos,
           EndClaim(h, i, s) \/ AbortClaim(h, i, s)
    PROVE  EInv'
<1>1. /\ calls[i] # NoCall /\ calls[i] \in CallEntry
      /\ IsCell(Cell(i)) /\ Cell(i).k = calls[i]
  BY HandlerMayCell DEF EndClaim, AbortClaim
<1>2. {"Ok", "Err"} \subseteq Outcomes /\ "Provider" \in Sides
  BY LoopbackAssumption DEF Sides
<1>3. CASE s = ReplyStream /\ Claimed(calls[i])
  <2>1. calls[i].claim \in ClaimIds
    BY <1>1, <1>3, OwnedCall DEF Claimed
  <2>2. EndOutcome(calls[i]) \in {"Ok", "Err"}
    BY DEF EndOutcome
  <2>3. PICK outcome \in {"Ok", "Err"} : SettleClaim(h, calls[i].claim, outcome)
    BY <1>3, <2>2 DEF EndClaim, AbortClaim
  <2> QED BY <1>2, <2>1, <2>3, SettleEmptied
<1>4. CASE ~(s = ReplyStream /\ Claimed(calls[i]))
  <2>1. \/ ApplyTo(i, EndCell(Cell(i), "Provider", s))
        \/ ApplyTo(i, AbortCell(Cell(i), "Provider", s))
    BY <1>4 DEF EndClaim, AbortClaim
  <2> DEFINE x == Cell(i)
  <2>2. IsCell(x) /\ x.k \in CallEntry
    BY <1>1
  <2> HIDE DEF x
  <2>3. Spends(x, EndCell(x, "Provider", s)) /\ Spends(x, AbortCell(x, "Provider", s))
    BY <1>2, <2>2, EndCellSpends, AbortCellSpends
  <2> QED BY <1>1, <2>1, <2>3, OneEmptied DEF x
<1> QED BY <1>3, <1>4

\* A provider's task waits for a stream.
LEMMA WaitClaimStreamEmptied ==
    ASSUME IInv, EInv, NEW h \in Handlers, NEW i \in Slots, NEW s \in StreamNos,
           NEW task \in Wakers, WaitClaimStream(h, i, s, task)
    PROVE  EInv'
<1> DEFINE st == Stream(calls[i], s)
           t == IF Finished(st) THEN st ELSE [st EXCEPT !.waker = task]
           f == [calls[i].streams EXCEPT ![s] = t]
           l == [calls[i] EXCEPT !.streams = f]
<1>1. calls[i] # NoCall /\ calls' = [calls EXCEPT ![i].streams[s] = t]
  BY DEF WaitClaimStream, HandlerMay
<1>2. calls[i] \in CallEntry /\ calls \in [Slots -> CallEntry \cup {NoCall}]
  BY <1>1, LiveCall DEF IInv, TypeOK
<1>3. st \in StreamType
  BY <1>2, StreamsTyped
<1>4. calls' = [calls EXCEPT ![i] = l]
  BY <1>1
<1>5. t \in StreamType /\ (Spent(st) => Spent(t))
  <2> HIDE DEF st
  <2> QED BY <1>3 DEF StreamType, Wakers, Finished, Spent
<1> HIDE DEF t
<1>6. l.streams[s] = t /\ \A q \in StreamNos \ {s} : l.streams[q] = calls[i].streams[q]
  BY <1>2 DEF CallEntry
<1> HIDE DEF l
<1>7. Emptied(calls[i])
  BY <1>1 DEF EInv
<1>8. Emptied(l)
  <2> SUFFICES ASSUME NEW q \in StreamNos \ {ReplyStream} PROVE Spent(l.streams[q])
    BY DEF Emptied
  <2>1. Spent(calls[i].streams[q])
    BY <1>7 DEF Emptied
  <2>2. CASE q = s
    <3>1. Spent(st)
      BY <1>2, <2>1, <2>2, StreamSpent
    <3> QED BY <1>5, <1>6, <2>2, <3>1
  <2>3. CASE q # s
    BY <1>6, <2>1, <2>3
  <2> QED BY <2>2, <2>3
<1>9. calls'[i] = l /\ \A j \in Slots \ {i} : calls'[j] = calls[j]
  BY <1>2, <1>4
<1> QED BY <1>8, <1>9 DEF EInv

\* The injected failure of a claim's end.
LEMMA EndClaimFailsEmptied ==
    ASSUME IInv, EInv, NEW h \in Handlers, NEW i \in Slots, EndClaimFails(h, i)
    PROVE  EInv'
<1> DEFINE x == Cell(i)
           st == Stream(x.k, ReplyStream)
<1>1. calls[i] # NoCall /\ calls[i] \in CallEntry /\ IsCell(x) /\ x.k = calls[i]
  BY HandlerMayCell DEF EndClaimFails
<1>2. ApplyTo(i, WithStream(x, ReplyStream, st))
  BY <1>1 DEF EndClaimFails
<1>3. ReplyStream \in StreamNos
  BY LoopbackAssumption DEF ReplyStream
<1>4. st \in StreamType
  BY <1>1, <1>3, StreamsTyped
<1> HIDE DEF x, st
<1>5. Spends(x, WithStream(x, ReplyStream, st))
  BY <1>1, <1>3, <1>4, UsedSpends
<1>6. x = Cell(i)
  BY DEF x
<1> QED BY <1>1, <1>2, <1>5, <1>6, OneEmptied

\* And every operation on a call's streams.
LEMMA StreamsNextEmptied == IInv /\ EInv /\ NextStream => EInv'
<1> SUFFICES ASSUME IInv, EInv, NextStream PROVE EInv'
  OBVIOUS
<1>1. ASSUME NEW side \in Sides, NEW i \in Slots, NEW s \in StreamNos, Pull(side, i, s)
      PROVE  EInv'
  <2> DEFINE x == Cell(i)
  <2>1. calls[i] # NoCall /\ IsCell(x) /\ x.k \in CallEntry /\ ApplyTo(i, PullCell(x, side, s))
    BY <1>1, MayCell DEF Pull
  <2> HIDE DEF x
  <2>2. Spends(x, PullCell(x, side, s))
    BY <2>1, PullCellSpends
  <2> QED BY <2>1, <2>2, OneEmptied DEF x
<1>2. ASSUME NEW side \in Sides, NEW i \in Slots, NEW s \in StreamNos,
             NEW chunk \in {"bytes", "empty"}, Push(side, i, s, chunk)
      PROVE  EInv'
  <2> DEFINE x == Cell(i)
  <2>1. calls[i] # NoCall /\ IsCell(x) /\ x.k \in CallEntry
        /\ ApplyTo(i, PushCell(x, side, s, chunk))
    BY <1>2, MayCell DEF Push
  <2> HIDE DEF x
  <2>2. Spends(x, PushCell(x, side, s, chunk))
    BY <2>1, PushCellSpends
  <2> QED BY <2>1, <2>2, OneEmptied DEF x
<1>3. ASSUME NEW i \in Slots, NEW s \in StreamNos, CallerEnd(i, s) \/ CallerAbort(i, s)
      PROVE  EInv'
  <2> DEFINE x == Cell(i)
  <2>1. May("Caller", i)
    BY <1>3 DEF CallerEnd, CallerAbort, May
  <2>2. calls[i] # NoCall /\ IsCell(x) /\ x.k \in CallEntry
    BY <2>1, MayCell
  <2>3. ApplyTo(i, EndCell(x, "Caller", s)) \/ ApplyTo(i, AbortCell(x, "Caller", s))
    BY <1>3 DEF CallerEnd, CallerAbort
  <2> HIDE DEF x
  <2>4. "Caller" \in Sides
    BY DEF Sides
  <2>5. Spends(x, EndCell(x, "Caller", s)) /\ Spends(x, AbortCell(x, "Caller", s))
    BY <2>2, <2>4, EndCellSpends, AbortCellSpends
  <2> QED BY <2>2, <2>3, <2>5, OneEmptied DEF x
<1>4. ASSUME NEW i \in Slots, NEW s \in StreamNos, NEW h \in Handlers,
             \/ EndClaim(h, i, s)
             \/ AbortClaim(h, i, s)
             \/ \E task \in Wakers : WaitClaimStream(h, i, s, task)
      PROVE  EInv'
  BY <1>4, EndClaimEmptied, WaitClaimStreamEmptied
<1>5. ASSUME NEW h \in Handlers, NEW i \in Slots, EndClaimFails(h, i)
      PROVE  EInv'
  BY <1>5, EndClaimFailsEmptied
<1>6. ASSUME NEW c \in Correlations, NEW s \in StreamNos, NEW task \in Wakers,
             WaitStream(c, s, task)
      PROVE  EInv'
  BY <1>6 DEF WaitStream, EInv
<1> QED
  BY <1>1, <1>2, <1>3, <1>4, <1>5, <1>6 DEF NextStream

\* A forget of a call with a parameter that is unread is deferred, or was.
LEMMA ForgetCellKeeps ==
    ASSUME NEW x, NEW i, Good(x, i), x.k # NoCall, Shaped(x.k), Emptied(x.k),
           ~Withdrawable(x.k), Claimed(x.k) \/ x.k.settledBy # None,
           NEW s \in StreamNos \ {ReplyStream},
           x.k.streams[s].ended, x.k.streams[s].chunks # <<>>
    PROVE  LET y == ForgetCell(x)
           IN  /\ y.k # NoCall /\ y.k.correlation = x.k.correlation
               /\ y.k.streams[s].chunks = x.k.streams[s].chunks
<1> DEFINE y == InterruptStreams(x)
<1>1. /\ Occupied(x, i) /\ x.k \in CallEntry /\ IsCell(x)
      /\ x.e \in Entry /\ Held(x.e, x.k.correlation)
      /\ (x.e.state = "Forgotten") <=> (x.k.forgotten /\ ~x.k.pendingForget)
  BY GoodOccupied DEF Occupied
<1>2. ForgetCell(x) =
         CASE x.k.pendingForget -> x
           [] Withdrawable(x.k) -> Withdraw(y)
           [] ~x.k.pendingForget /\ ~Withdrawable(x.k) /\ Defers(y.k) -> DeferForget(y)
           [] OTHER -> ForgetInTable(y)
  BY DEF ForgetCell
<1>3. CASE x.k.pendingForget
  BY <1>2, <1>3
<1>4. CASE ~x.k.pendingForget /\ x.k.forgotten
  <2>1. y = x
    BY <1>4 DEF InterruptStreams
  <2>2. ~Defers(x.k)
    BY <1>4 DEF Defers
  <2>3. ForgetCell(x) = ForgetInTable(x)
    BY <1>2, <1>4, <2>1, <2>2
  <2>4. ForgetAnswer(x.e, x.k.correlation) = "Unknown"
    BY <1>1, <1>4, EntryForgotten
  <2>5. ForgetInTable(x) = x
    BY <2>4 DEF ForgetInTable
  <2> QED BY <2>3, <2>5
<1>5. CASE ~x.k.pendingForget /\ ~x.k.forgotten
  <2>1. CellMoved(x, y)
    BY <1>1, InterruptStreamsMoved
  <2>2. /\ y.k.streams[s].chunks = x.k.streams[s].chunks
        /\ y.k.streams[s].drained = x.k.streams[s].drained
        /\ y.k.streams[s].named = x.k.streams[s].named
    BY <1>1, InterruptStreamsSpends
  <2> HIDE DEF y
  <2>3. /\ IsCell(y) /\ y.k \in CallEntry /\ ~y.k.forgotten /\ y.k.settledBy = x.k.settledBy
        /\ y.k.claim = x.k.claim /\ y.k.correlation = x.k.correlation
    BY <1>5, <2>1 DEF CellMoved, StreamsMoved, SameCall
  <2>4. x.k.streams[s].named
    BY DEF Shaped, UnnamedStream
  <2>5. ~x.k.streams[s].drained
    BY DEF Emptied, Spent
  <2>6. Undrained(y.k)
    BY <2>2, <2>4, <2>5 DEF Undrained
  <2>7. Claimed(y.k) \/ y.k.settledBy # None
    BY <2>3 DEF Claimed, Owner
  <2>8. Defers(y.k)
    BY <2>3, <2>6, <2>7 DEF Defers
  <2>9. ForgetCell(x) = DeferForget(y)
    BY <1>2, <1>5, <2>8
  <2> DEFINE z == DeferForget(y)
  <2>10. z.k.streams = y.k.streams /\ SameCall(y.k, z.k) /\ z.k \in CallEntry
    BY <2>3, DeferForgetSpends
  <2> HIDE DEF z
  <2>11. ForgetCell(x) = z
    BY <2>9 DEF z
  <2> QED BY <2>2, <2>3, <2>10, <2>11, NoneAssumption DEF SameCall
<1> QED BY <1>3, <1>4, <1>5

\* The caller ended stream s of the call k, and the handler that has the call
\* has not read it all.
Unread(k, s) ==
    /\ k # NoCall
    /\ Claimed(k) \/ k.settledBy # None
    /\ k.streams[s].ended /\ k.streams[s].chunks # <<>>

\* So a forget of a live call keeps what is unread.
LEMMA ForgottenKeeps ==
    ASSUME IInv, SInv, EInv, NEW i \in Slots, NEW s \in StreamNos \ {ReplyStream},
           Unread(calls[i], s)
    PROVE  LET y == ForgetCell(Cell(i))
           IN  /\ y.k # NoCall /\ y.k.correlation = calls[i].correlation
               /\ y.k.streams[s].chunks = calls[i].streams[s].chunks
<1> DEFINE x == Cell(i)
<1>1. calls[i] # NoCall /\ (Claimed(calls[i]) \/ calls[i].settledBy # None)
      /\ calls[i].streams[s].ended /\ calls[i].streams[s].chunks # <<>>
  BY DEF Unread
<1>2. Good(x, i) /\ x.e = slots[i] /\ x.k = calls[i] /\ SoundCall(slots[i], calls[i])
  BY <1>1, SoundNow
<1>3. Shaped(calls[i]) /\ Emptied(calls[i])
  BY <1>1, <1>2 DEF SoundCall, SoundBut, EInv
<1>4. calls[i].settledBy # None => slots[i].state = "Settled"
  BY <1>1, <1>2, GoodOccupied DEF Occupied
<1>5. ~Withdrawable(calls[i])
  <2> SUFFICES ASSUME Waiting(calls[i]), ~Offered(calls[i]) PROVE FALSE
    BY DEF Withdrawable
  <2>1. WaitsIn(claims, slots[i], calls[i])
    BY <1>1, WaitingIff
  <2>2. Claimed(calls[i])
    BY <1>1, <1>4, <2>1 DEF WaitsIn
  <2> QED BY <2>1, <2>2 DEF WaitsIn, OwnerIn, Offered, Claimed, Owner
<1> HIDE DEF x
<1>6. LET y == ForgetCell(x)
      IN  /\ y.k # NoCall /\ y.k.correlation = x.k.correlation
          /\ y.k.streams[s].chunks = x.k.streams[s].chunks
  BY <1>1, <1>2, <1>3, <1>5, ForgetCellKeeps
<1> QED BY <1>2, <1>6 DEF x

\* A forget and a caller's drop are the only steps that forget.
LEMMA WhoReleases ==
    ASSUME StreamsNext, released' # released
    PROVE  \/ \E c \in Correlations : Forget(c)
           \/ \E caller \in Callers : CloseCaller(caller)
<1>1. ASSUME NextStream PROVE FALSE
  <2>1. ASSUME NEW side, NEW i, NEW s, NEW chunk, Pull(side, i, s) \/ Push(side, i, s, chunk)
        PROVE  FALSE
    BY <2>1 DEF Pull, Push, streamRest
  <2>2. ASSUME NEW i, NEW s, CallerEnd(i, s) \/ CallerAbort(i, s) PROVE FALSE
    BY <2>2 DEF CallerEnd, CallerAbort, streamRest
  <2>3. ASSUME NEW h, NEW i, NEW s, EndClaim(h, i, s) \/ AbortClaim(h, i, s) PROVE FALSE
    BY <2>3 DEF EndClaim, AbortClaim, SettleClaim, streamRest
  <2>4. ASSUME NEW h, NEW i, NEW s, NEW task,
               WaitClaimStream(h, i, s, task) \/ EndClaimFails(h, i)
        PROVE  FALSE
    BY <2>4 DEF WaitClaimStream, EndClaimFails, streamRest
  <2>5. ASSUME NEW c, NEW s, NEW task, WaitStream(c, s, task) PROVE FALSE
    BY <2>5 DEF WaitStream, streamRest
  <2> QED BY <1>1, <2>1, <2>2, <2>3, <2>4, <2>5 DEF NextStream
<1>2. Next
  BY <1>1 DEF StreamsNext
<1> QED
  BY <1>2 DEF Next, OpenCaller, OpenHandler, FailNextSettle, Send, WaitSlot, WaitOutcome, Serve,
              NextClaim, Settle, SettleClaim, SettleFails, CloseHandler, WaitClaim

\* And so does a step that forgets.
LEMMA ReleaseKeeps ==
    ASSUME IInv, SInv, EInv, StreamsNext, released' # released,
           NEW i \in Slots, NEW s \in StreamNos \ {ReplyStream}, Unread(calls[i], s)
    PROVE  /\ calls'[i] # NoCall /\ calls'[i].correlation = calls[i].correlation
           /\ calls'[i].streams[s].chunks = calls[i].streams[s].chunks
<1>1. calls'[i] = calls[i] \/ calls'[i] = ForgetCell(Cell(i)).k
  <2>1. CASE \E c \in Correlations : Forget(c)
    <3>1. PICK c : ApplyTo(SlotOf(c), ForgetCell(Cell(SlotOf(c))))
      BY <2>1 DEF Forget
    <3> QED BY <3>1, CellFields DEF ApplyTo, Apply
  <2>2. CASE \E caller \in Callers : CloseCaller(caller)
    <3>1. PICK sent, more :
             Apply([j \in Slots |-> IF j \in sent THEN ForgetCell(Cell(j)) ELSE Cell(j)], more)
      BY <2>2 DEF CloseCaller
    <3> QED BY <3>1, CellFields DEF Apply
  <2> QED BY <2>1, <2>2, WhoReleases
<1> QED BY <1>1, ForgottenKeeps DEF Unread

\* What a caller pushed and ended before its call was forgotten stays in the
\* store for the handler that has the call.
THEOREM LoopbackKeepsEndedParameters == StreamsSpec => EndedParameterKept
<1>1. Init => IInv /\ SInv /\ EInv
  BY InitInv, InitSound DEF Init, EInv
<1>2. IInv /\ SInv /\ EInv /\ [StreamsNext]_vars => (IInv /\ SInv /\ EInv)'
  <2> SUFFICES ASSUME IInv, SInv, EInv, [StreamsNext]_vars PROVE IInv' /\ SInv' /\ EInv'
    OBVIOUS
  <2>1. CASE Next
    BY <2>1, CallsNextInv, CallsNextSound, CallsNextEmptied
  <2>2. CASE NextStream
    BY <2>2, StreamsNextInv, StreamsNextSound, StreamsNextEmptied
  <2>3. CASE UNCHANGED vars
    BY <2>3, StutterInv, StutterSound DEF vars, EInv
  <2> QED BY <2>1, <2>2, <2>3 DEF StreamsNext
<1> DEFINE Keeps ==
       released' # released =>
        \A i \in Slots, s \in StreamNos \ {ReplyStream} :
            LET k == calls[i]
            IN  /\ k # NoCall
                /\ Claimed(k) \/ k.settledBy # None
                /\ k.streams[s].ended /\ k.streams[s].chunks # <<>>
                => /\ calls'[i] # NoCall
                   /\ calls'[i].correlation = k.correlation
                   /\ calls'[i].streams[s].chunks = k.streams[s].chunks
<1>3. IInv /\ SInv /\ EInv /\ [StreamsNext]_vars => [Keeps]_vars
  <2> SUFFICES ASSUME IInv, SInv, EInv, StreamsNext PROVE Keeps
    OBVIOUS
  <2>1. ASSUME released' # released,
               NEW i \in Slots, NEW s \in StreamNos \ {ReplyStream}, Unread(calls[i], s)
        PROVE  /\ calls'[i] # NoCall /\ calls'[i].correlation = calls[i].correlation
               /\ calls'[i].streams[s].chunks = calls[i].streams[s].chunks
    BY <2>1, ReleaseKeeps
  <2> QED BY <2>1 DEF Unread
<1>4. IInv /\ SInv /\ EInv /\ [][Keeps]_vars => EndedParameterKept
  BY DEF EndedParameterKept
<1> HIDE DEF Keeps
<1> QED BY <1>1, <1>2, <1>3, <1>4, PTL DEF StreamsSpec

(***************************************************************************)
(* A side that keeps its waker on a stream still waits for it.             *)
(***************************************************************************)
\* Side waits for stream s, as st: nothing has happened there for it.
Waits(st, side, s) == Idle(st, side, s) \/ OwnFinish(st, side, s)

\* The call k became l: the provider whose waker is on a stream still waits.
Rests(k, l) ==
    \A s \in StreamNos : l.streams[s].waker \in Wakers =>
        /\ k.streams[s].waker \in Wakers
        /\ l.forgotten => k.forgotten
        /\ k.streams[s].named =>
              /\ l.streams[s].named
              /\ Waits(k.streams[s], "Provider", s) => Waits(l.streams[s], "Provider", s)

\* No caller's waker on a stream is in the slot of the cell.
Deaf(y) == \A s \in StreamNos : y.e.streams[s] \notin Wakers

\* The cell x became y: either side whose waker is on a stream still waits.
Attends(x, y) ==
    y.k # NoCall =>
        /\ Rests(x.k, y.k)
        /\ \A s \in StreamNos : y.e.streams[s] \in Wakers =>
              /\ x.e.streams[s] \in Wakers
              /\ y.k.forgotten => x.k.forgotten
              /\ Waits(Stream(x.k, s), "Caller", s) => Waits(Stream(y.k, s), "Caller", s)

\* Two steps of a call, one after the other.
LEMMA RestsTwice ==
    ASSUME NEW k, NEW l, NEW m, Rests(k, l), Rests(l, m)
    PROVE  Rests(k, m)
  BY DEF Rests

\* Two steps of a cell.
LEMMA AttendsTwice ==
    ASSUME NEW x, NEW y, NEW z, Attends(x, y), y.k # NoCall, Attends(y, z)
    PROVE  Attends(x, z)
<1>1. CASE z.k = NoCall
  BY <1>1 DEF Attends
<1>2. CASE z.k # NoCall
  <2>1. Rests(x.k, z.k)
    BY <1>2, RestsTwice DEF Attends
  <2> QED BY <1>2, <2>1 DEF Attends
<1> QED BY <1>1, <1>2

\* A step that leaves the streams and the forget alone.
LEMMA RestsSame ==
    ASSUME NEW k, NEW l, l.streams = k.streams, l.forgotten => k.forgotten
    PROVE  Rests(k, l)
  BY DEF Rests

\* One that leaves no waker of the provider.
LEMMA RestsSilent ==
    ASSUME NEW k, NEW l, \A s \in StreamNos : l.streams[s].waker \notin Wakers
    PROVE  Rests(k, l)
  BY DEF Rests

\* No step at all.
LEMMA AttendsSelf ==
    ASSUME NEW x
    PROVE  Attends(x, x)
  BY RestsSame DEF Attends

\* Nobody waits on a call that goes.
LEMMA AttendsGone ==
    ASSUME NEW x, NEW y, y.k = NoCall
    PROVE  Attends(x, y)
  BY DEF Attends

\* With no waker of a caller left, the provider is all there is to look at.
LEMMA AttendsDeaf ==
    ASSUME NEW x, NEW y, Rests(x.k, y.k), Deaf(y)
    PROVE  Attends(x, y)
  BY DEF Attends, Deaf

\* Taking the wakers of the caller leaves none.
LEMMA TakeStreamsDeaf ==
    ASSUME NEW x, IsCell(x), x.e \in Entry
    PROVE  LET y == TakeStreams(x)
           IN  IsCell(y) /\ y.k = x.k /\ Deaf(y)
<1> DEFINE y == TakeStreams(x)
<1>1. IsCell(y) /\ y.e = TakeStreamsEntry(x.e) /\ y.k = x.k
  BY TakeStreamsFields
<1> HIDE DEF y
<1>2. y.e.streams = NoStreams
  BY <1>1 DEF TakeStreamsEntry, Entry
<1>3. Deaf(y)
  BY <1>2, NoWakerIsNone DEF Deaf, NoStreams
<1> QED BY <1>1, <1>3 DEF y

\* Telling the table of a forget leaves the streams alone.
LEMMA ForgetInTableLeaves ==
    ASSUME NEW x, NEW i, Occupied(x, i)
    PROVE  LET y == ForgetInTable(x)
           IN  \/ y.k = NoCall
               \/ y = x /\ x.e.state = "Forgotten"
               \/ y.k = [x.k EXCEPT !.forgotten = TRUE] /\ Deaf(y)
<1> DEFINE c == x.k.correlation
           y == [x EXCEPT !.e = ForgetEntry(@, c)]
           u == TakeStreams(y)
           w == [u EXCEPT !.wake = @ \cup OutcomeWaiter(x.e, c), !.k.forgotten = TRUE]
           z == ForgetInTable(x)
<1>0. IsCell(x) /\ x.e \in Entry /\ x.k \in CallEntry /\ Held(x.e, c)
  BY DEF Occupied
<1>1. z = CASE ForgetAnswer(x.e, c) = "Reclaimed" -> Reclaim(y)
            [] ForgetAnswer(x.e, c) = "Marked" -> w
            [] OTHER -> x
  BY DEF ForgetInTable
<1> HIDE DEF z
<1>2. IsCell(y) /\ y.k = x.k /\ y.e = ForgetEntry(x.e, c)
  BY <1>0 DEF IsCell
<1> HIDE DEF y
<1>3. y.e \in Entry
  BY <1>0, <1>2, EntryForgotten
<1>4. IsCell(u) /\ u.k = x.k /\ Deaf(u)
  BY <1>2, <1>3, TakeStreamsDeaf
<1>5. Reclaim(y).k = NoCall
  BY <1>2, ReclaimFields
<1> HIDE DEF u
<1>6. w.k = [x.k EXCEPT !.forgotten = TRUE] /\ w.e = u.e
  BY <1>4 DEF IsCell
<1> HIDE DEF w
<1>7. Deaf(w)
  BY <1>4, <1>6 DEF Deaf
<1>8. x.e.state \in {"InFlight", "Forgotten", "Settled"}
  BY <1>0 DEF Entry, States, Held
<1>9. CASE x.e.state = "Forgotten"
  <2>1. ForgetAnswer(x.e, c) = "Unknown"
    BY <1>0, <1>9, EntryForgotten
  <2> QED BY <1>1, <1>9, <2>1 DEF z
<1>10. CASE x.e.state = "InFlight"
  <2>1. ForgetAnswer(x.e, c) = "Marked"
    BY <1>0, <1>10, EntryForgotten
  <2> QED BY <1>1, <1>6, <1>7, <2>1 DEF z
<1>11. CASE x.e.state = "Settled"
  <2>1. ForgetAnswer(x.e, c) = "Reclaimed"
    BY <1>0, <1>11, EntryForgotten
  <2> QED BY <1>1, <1>5, <2>1 DEF z
<1> QED BY <1>8, <1>9, <1>10, <1>11

\* Interrupting the streams of a call takes the wakers of both sides.
LEMMA InterruptStreamsSilent ==
    ASSUME NEW x, IsCell(x), x.k \in CallEntry, Shaped(x.k), ~x.k.forgotten
    PROVE  \A s \in StreamNos : InterruptStreams(x).k.streams[s].waker \notin Wakers
<1> DEFINE y == InterruptStreams(x)
           g(s) == LET st == x.k.streams[s]
                   IN  IF ~st.named THEN st
                       ELSE [st EXCEPT !.waker = NoWaker,
                                       !.stopped = IF Finished(st) THEN @ ELSE "Caller"]
           f == [s \in StreamNos |-> g(s)]
           more == ClaimStreamWaiters(x.k, StreamNos)
<1>1. ASSUME NEW s \in StreamNos
      PROVE  g(s).waker \notin Wakers
  <2> DEFINE st == x.k.streams[s]
  <2>1. st \in StreamType /\ (~st.named => st.waker = NoWaker)
    BY DEF CallEntry, Shaped, UnnamedStream
  <2>2. g(s) = IF ~st.named THEN st
               ELSE [st EXCEPT !.waker = NoWaker,
                               !.stopped = IF Finished(st) THEN @ ELSE "Caller"]
    OBVIOUS
  <2> HIDE DEF st, g
  <2>3. g(s).waker = NoWaker
    BY <2>1, <2>2 DEF StreamType
  <2> QED BY <2>3, NoWakerIsNone
<1>2. \A s \in StreamNos : f[s] = g(s)
  OBVIOUS
<1>3. y = [x EXCEPT !.k.streams = f, !.wake = @ \cup more]
  BY DEF InterruptStreams
<1> HIDE DEF y, f, g, more
<1>4. y.k = [x.k EXCEPT !.streams = f]
  BY <1>3 DEF IsCell
<1>5. y.k.streams = f
  BY <1>4 DEF CallEntry
<1> QED BY <1>1, <1>2, <1>5 DEF y

\* Deferring a forget takes no waker and moves no stream.
LEMMA DeferForgetLeaves ==
    ASSUME NEW x, NEW i, Occupied(x, i)
    PROVE  LET y == DeferForget(x)
           IN  y.k.streams = x.k.streams /\ Deaf(y)
<1> DEFINE c == x.k.correlation
           u == TakeStreams(x)
           y == [u EXCEPT !.k.forgotten = TRUE, !.k.pendingForget = TRUE,
                          !.e = WakeOnEntry(@, c, Noop),
                          !.wake = @ \cup OutcomeWaiter(x.e, c)]
<1>0. IsCell(x) /\ x.e \in Entry /\ x.k \in CallEntry
  BY DEF Occupied
<1>1. IsCell(u) /\ u.k = x.k /\ Deaf(u)
  BY <1>0, TakeStreamsDeaf
<1>2. u.e \in Entry
  BY <1>0, TakeStreamsFields, StreamsTaken
<1>3. DeferForget(x) = y
  BY DEF DeferForget
<1> HIDE DEF u
<1>4. y.k = [x.k EXCEPT !.forgotten = TRUE, !.pendingForget = TRUE]
      /\ y.e = WakeOnEntry(u.e, c, Noop)
  BY <1>1 DEF IsCell
<1> HIDE DEF y
<1>5. y.k.streams = x.k.streams
  BY <1>0, <1>4 DEF CallEntry
<1>6. y.e.streams = u.e.streams
  BY <1>2, <1>4 DEF WakeOnEntry, Entry
<1> QED BY <1>1, <1>3, <1>5, <1>6 DEF Deaf

\* Whoever forgets a call leaves nobody asleep on its streams.
LEMMA ForgetCellAttends ==
    ASSUME NEW x, NEW i, Good(x, i), x.k # NoCall, Shaped(x.k),
           Waiting(x.k) => x.e.state # "Settled"
    PROVE  Attends(x, ForgetCell(x))
<1> DEFINE y == InterruptStreams(x)
<1>1. /\ Occupied(x, i) /\ IsCell(x) /\ x.k \in CallEntry
      /\ x.k.pendingForget => x.k.forgotten
      /\ (x.e.state = "Forgotten") <=> (x.k.forgotten /\ ~x.k.pendingForget)
  BY GoodOccupied DEF Occupied
<1>2. CellMoved(x, y)
  BY <1>1, InterruptStreamsMoved
<1>3. ForgetCell(x) =
         CASE x.k.pendingForget -> x
           [] Withdrawable(x.k) -> Withdraw(y)
           [] ~x.k.pendingForget /\ ~Withdrawable(x.k) /\ Defers(y.k) -> DeferForget(y)
           [] OTHER -> ForgetInTable(y)
  BY DEF ForgetCell
<1>4. Attends(x, x)
  BY AttendsSelf
<1>5. CASE Withdrawable(x.k)
  <2>1. ForgetCell(x).k = NoCall
    BY <1>5, ForgetCellGood
  <2> QED BY <2>1, AttendsGone
<1>6. CASE x.k.forgotten /\ ~x.k.pendingForget /\ ~Withdrawable(x.k)
  <2>1. y = x
    BY <1>6 DEF InterruptStreams
  <2>2. ~Defers(x.k)
    BY <1>6 DEF Defers
  <2>3. ForgetCell(x) = ForgetInTable(x)
    BY <1>3, <1>6, <2>1, <2>2
  <2>4. Held(x.e, x.k.correlation) /\ x.e \in Entry
    BY <1>1 DEF Occupied
  <2>5. ForgetAnswer(x.e, x.k.correlation) = "Unknown"
    BY <1>1, <1>6, <2>4, EntryForgotten
  <2>6. ForgetInTable(x) = x
    BY <2>5 DEF ForgetInTable
  <2> QED BY <1>4, <2>3, <2>6
<1>7. CASE ~x.k.forgotten /\ ~Withdrawable(x.k)
  <2>1. \A s \in StreamNos : y.k.streams[s].waker \notin Wakers
    BY <1>1, <1>7, InterruptStreamsSilent
  <2>2. Good(y, i) /\ y.k # NoCall
    BY <1>2, MovedGood
  <2> HIDE DEF y
  <2>3. Occupied(y, i) /\ y.k \in CallEntry
    BY <2>2, GoodOccupied DEF Occupied
  <2>4. Attends(x, DeferForget(y))
    <3>1. DeferForget(y).k.streams = y.k.streams /\ Deaf(DeferForget(y))
      BY <2>3, DeferForgetLeaves
    <3> QED BY <2>1, <3>1, RestsSilent, AttendsDeaf
  <2>5. Attends(x, ForgetInTable(y))
    <3> DEFINE z == ForgetInTable(y)
    <3>1. \/ z.k = NoCall
          \/ z = y /\ y.e.state = "Forgotten"
          \/ z.k = [y.k EXCEPT !.forgotten = TRUE] /\ Deaf(z)
      BY <2>3, ForgetInTableLeaves
    <3>2. y.e.state # "Forgotten"
      BY <1>1, <1>2, <1>7 DEF CellMoved
    <3> HIDE DEF z
    <3>3. CASE z.k = NoCall
      BY <3>3, AttendsGone DEF z
    <3>4. CASE z.k = [y.k EXCEPT !.forgotten = TRUE] /\ Deaf(z)
      <4>1. z.k.streams = y.k.streams
        BY <2>3, <3>4 DEF CallEntry
      <4>2. Rests(x.k, z.k)
        BY <2>1, <4>1, RestsSilent
      <4> QED BY <3>4, <4>2, AttendsDeaf DEF z
    <3> QED BY <3>1, <3>2, <3>3, <3>4
  <2> QED BY <1>1, <1>3, <1>7, <2>4, <2>5 DEF y
<1>8. CASE x.k.pendingForget /\ ~Withdrawable(x.k)
  BY <1>3, <1>4, <1>8
<1> QED BY <1>5, <1>6, <1>7, <1>8

\* What finishing a deferred forget leaves, which had been forgotten.
LEMMA UnmarkedForgetAttends ==
    ASSUME NEW x, NEW i, Good(x, i), x.k # NoCall, x.k.pendingForget
    PROVE  Attends(x, ForgetInTable([x EXCEPT !.k.pendingForget = FALSE]))
<1> DEFINE z == [x EXCEPT !.k.pendingForget = FALSE]
           y == ForgetInTable(z)
<1>1. Occupied(x, i) /\ IsCell(x) /\ x.k \in CallEntry /\ x.k.forgotten
      /\ x.e.state # "Forgotten"
  BY GoodOccupied DEF Occupied
<1>2. IsCell(z) /\ z.k = [x.k EXCEPT !.pendingForget = FALSE] /\ z.e = x.e /\ z.panic = x.panic
  BY <1>1 DEF IsCell
<1> HIDE DEF z
<1>3. /\ z.k \in CallEntry /\ z.k.streams = x.k.streams /\ z.k.forgotten
      /\ SameCall(x.k, z.k) /\ z.k.settledBy = x.k.settledBy
  BY <1>1, <1>2, UnmarkedEntry, ZenonT(30)
<1>4. Occupied(z, i)
  BY <1>1, <1>2, <1>3 DEF Occupied, SameCall
<1>5. \/ y.k = NoCall
      \/ y = z /\ z.e.state = "Forgotten"
      \/ y.k = [z.k EXCEPT !.forgotten = TRUE] /\ Deaf(y)
  BY <1>4, ForgetInTableLeaves
<1> HIDE DEF y
<1>6. CASE y.k = NoCall
  BY <1>6, AttendsGone DEF y, z
<1>7. CASE y.k = [z.k EXCEPT !.forgotten = TRUE] /\ Deaf(y)
  <2>1. y.k.streams = x.k.streams
    BY <1>3, <1>7 DEF CallEntry
  <2>2. Rests(x.k, y.k)
    BY <1>1, <2>1, RestsSame
  <2> QED BY <1>7, <2>2, AttendsDeaf DEF y, z
<1> QED BY <1>1, <1>2, <1>5, <1>6, <1>7

\* The release of a call that is read to its end.
LEMMA ReleaseIfDrainedAttends ==
    ASSUME NEW x, NEW i, Good(x, i), x.k # NoCall
    PROVE  Attends(x, ReleaseIfDrained(x))
<1>1. Attends(x, x)
  BY AttendsSelf
<1> QED BY <1>1, UnmarkedForgetAttends DEF ReleaseIfDrained

\* No provider's waker is on a stream of the call.
Mute(k) == \A s \in StreamNos : k.streams[s].waker \notin Wakers

\* No waker comes back.
LEMMA MuteStays ==
    ASSUME NEW k, NEW l, Mute(k), Rests(k, l)
    PROVE  Mute(l)
  BY DEF Mute, Rests

\* A released parameter has its provider woken, the others stay.
LEMMA ReleaseParametersRests ==
    ASSUME NEW x, IsCell(x), x.k \in CallEntry
    PROVE  Rests(x.k, ReleaseParameters(x).k)
<1> DEFINE y == ReleaseParameters(x)
           params == {s \in StreamNos \ {ReplyStream} : x.k.streams[s].named}
           g(s) == IF s \in params THEN [ReleaseStream(x.k.streams[s]) EXCEPT !.waker = NoWaker]
                   ELSE x.k.streams[s]
           f == [s \in StreamNos |-> g(s)]
           more == ClaimStreamWaiters(x.k, params)
<1>1. y = [x EXCEPT !.k.parametersReleased = TRUE, !.k.streams = f, !.wake = @ \cup more]
  BY DEF ReleaseParameters
<1>2. ASSUME NEW s \in params PROVE g(s).waker = NoWaker
  <2> DEFINE r == ReleaseStream(x.k.streams[s])
  <2>1. x.k.streams[s] \in StreamType /\ g(s) = [r EXCEPT !.waker = NoWaker]
    BY DEF CallEntry
  <2>2. r \in StreamType
    BY <2>1, StreamsTyped
  <2> HIDE DEF r, g
  <2> QED BY <2>1, <2>2 DEF StreamType
<1>3. \A s \in StreamNos \ params : g(s) = x.k.streams[s]
  OBVIOUS
<1>4. \A s \in StreamNos : f[s] = g(s)
  OBVIOUS
<1> HIDE DEF y, f, g, more, params
<1>5. y.k = [x.k EXCEPT !.parametersReleased = TRUE, !.streams = f]
  BY <1>1 DEF IsCell
<1>6. y.k.streams = f /\ y.k.forgotten = x.k.forgotten
  BY <1>5 DEF CallEntry
<1>7. \A s \in StreamNos : y.k.streams[s].waker \notin Wakers \/ y.k.streams[s] = x.k.streams[s]
  BY <1>2, <1>3, <1>4, <1>6, NoWakerIsNone
<1> QED BY <1>6, <1>7 DEF Rests, y

\* The reply that is finished with its settlement is finished by its own side.
LEMMA FinishReplyRests ==
    ASSUME NEW k \in CallEntry, Shaped(k), NEW outcome
    PROVE  Rests(k, FinishReply(k, outcome))
<1> DEFINE st == Stream(k, ReplyStream)
           t == CASE Finished(st) -> st
                  [] ~Finished(st) /\ outcome = "Ok" -> [st EXCEPT !.ended = TRUE]
                  [] OTHER -> [st EXCEPT !.stopped = "Provider"]
           f == [k.streams EXCEPT ![ReplyStream] = t]
           l == FinishReply(k, outcome)
<1>1. l = [k EXCEPT !.streams = f]
  BY DEF FinishReply
<1>2. ReplyStream \in StreamNos
  BY LoopbackAssumption DEF ReplyStream
<1>3. st \in StreamType /\ st.named /\ st.waker = k.streams[ReplyStream].waker
      /\ (k.streams[ReplyStream].named => st = k.streams[ReplyStream])
  BY <1>2, StreamAnswered
<1> HIDE DEF l
<1>4. t.waker = st.waker /\ t.named
      /\ (Waits(st, "Provider", ReplyStream) => Waits(t, "Provider", ReplyStream))
  <2> HIDE DEF st
  <2>1. CASE Finished(st)
    BY <1>3, <2>1
  <2>2. CASE ~Finished(st) /\ outcome = "Ok"
    <3>1. t = [st EXCEPT !.ended = TRUE]
      BY <2>2
    <3> HIDE DEF t
    <3>2. t.ended /\ t.waker = st.waker /\ t.named
      BY <1>3, <3>1 DEF StreamType
    <3> QED BY <3>2 DEF Waits, OwnFinish, Producer
  <2>3. CASE ~Finished(st) /\ outcome # "Ok"
    <3>1. t = [st EXCEPT !.stopped = "Provider"]
      BY <2>3
    <3> HIDE DEF t
    <3>2. t.stopped = "Provider" /\ t.waker = st.waker /\ t.named
      BY <1>3, <3>1 DEF StreamType
    <3> QED BY <3>2 DEF Waits, OwnFinish
  <2> QED BY <2>1, <2>2, <2>3
<1> HIDE DEF t, st
<1>5. f[ReplyStream] = t /\ \A s \in StreamNos \ {ReplyStream} : f[s] = k.streams[s]
  BY <1>2 DEF CallEntry
<1> HIDE DEF f
<1>6. l.streams = f /\ l.forgotten = k.forgotten
  BY <1>1 DEF CallEntry
<1>7. ASSUME NEW s \in StreamNos, l.streams[s].waker \in Wakers
      PROVE  /\ k.streams[s].waker \in Wakers
             /\ l.forgotten => k.forgotten
             /\ k.streams[s].named =>
                   /\ l.streams[s].named
                   /\ Waits(k.streams[s], "Provider", s) => Waits(l.streams[s], "Provider", s)
  <2>1. CASE s = ReplyStream
    BY <1>3, <1>4, <1>5, <1>6, <1>7, <2>1
  <2>2. CASE s # ReplyStream
    BY <1>5, <1>6, <1>7, <2>2
  <2> QED BY <2>1, <2>2
<1> QED BY <1>7 DEF Rests, l

\* A settlement wakes the caller on every stream it ends.
LEMMA SettleCellAttends ==
    ASSUME NEW x, NEW i, Good(x, i), x.k # NoCall, x.e.state \in {"InFlight", "Forgotten"},
           Shaped(x.k), NEW h \in Handlers, NEW outcome \in Outcomes
    PROVE  Attends(x, SettleCell(x, h, outcome))
<1> DEFINE c == x.k.correlation
           settled == [x EXCEPT !.e = SettleEntry(@, c, outcome), !.k.settledBy = h,
                                !.wake = @ \cup OutcomeWaiter(x.e, c)]
           done == IF x.k.kind = "Query" \/ outcome # "Ok" THEN ReleaseParameters(settled)
                   ELSE settled
           replied == [done EXCEPT !.k = FinishReply(@, outcome)]
           gone == [x EXCEPT !.e = SettleEntry(@, c, outcome)]
           y == SettleCell(x, h, outcome)
<1>1. /\ Occupied(x, i) /\ x.e \in Entry /\ x.k \in CallEntry /\ Held(x.e, c) /\ IsCell(x)
      /\ x.panic = FALSE
  BY GoodOccupied DEF Occupied
<1>2. y = CASE SettleAnswer(x.e, c) = "Recorded" -> ReleaseIfDrained(TakeStreams(replied))
            [] SettleAnswer(x.e, c) = "Reclaimed" -> Reclaim(gone)
            [] OTHER -> Panic(x)
  BY DEF SettleCell
<1>3. IsCell(settled) /\ settled.k = [x.k EXCEPT !.settledBy = h]
      /\ settled.e = SettleEntry(x.e, c, outcome) /\ settled.panic = x.panic
  BY <1>1 DEF IsCell
<1>4. IsCell(gone)
  BY <1>1 DEF IsCell
<1> HIDE DEF settled, gone, y
<1>5. CASE x.e.state = "Forgotten"
  <2>1. y = Reclaim(gone)
    BY <1>1, <1>2, <1>5, EntrySettled
  <2>2. y.k = NoCall
    BY <1>4, <2>1, ReclaimFields
  <2> QED BY <2>2, AttendsGone DEF y
<1>6. CASE x.e.state = "InFlight"
  <2>1. /\ SettleAnswer(x.e, c) = "Recorded" /\ settled.e \in Entry
        /\ settled.e.state = "Settled" /\ settled.e.generation = x.e.generation
    BY <1>1, <1>3, <1>6, EntrySettled
  <2>2. /\ settled.k \in CallEntry /\ SameCall(x.k, settled.k) /\ settled.k.settledBy = h
        /\ settled.k.forgotten = x.k.forgotten /\ settled.k.pendingForget = x.k.pendingForget
        /\ settled.k.streams = x.k.streams
        /\ settled.k.parametersReleased = x.k.parametersReleased
    BY <1>1, <1>3 DEF CallEntry, SameCall
  <2>3. Occupied(settled, i)
    BY <1>1, <1>3, <2>1, <2>2 DEF Occupied, Held, SameCall
  <2>4. Good(settled, i) /\ settled.k # NoCall
    BY <1>6, <2>1, <2>2, <2>3, GoodOccupied, OccupiedGood
  <2>5. Shaped(settled.k) /\ Rests(x.k, settled.k)
    <3>1. Rests(x.k, settled.k)
      BY <2>2, RestsSame
    <3> QED BY <2>2, <3>1 DEF Shaped
  <2>6. CellMoved(settled, done) /\ Shaped(done.k) /\ Rests(settled.k, done.k)
    <3>1. CASE x.k.kind = "Query" \/ outcome # "Ok"
      <4> DEFINE p == ReleaseParameters(settled)
      <4>1. Carried(settled, p) /\ Shaped(p.k) /\ Rests(settled.k, p.k)
        BY <1>3, <2>2, <2>5, ReleaseCarried, ReleaseParametersRests
      <4>2. done = p
        BY <3>1
      <4> HIDE DEF p
      <4> QED BY <4>1, <4>2 DEF Carried
    <3>2. CASE ~(x.k.kind = "Query" \/ outcome # "Ok")
      <4>1. done = settled
        BY <3>2
      <4>2. CellMoved(settled, settled)
        BY <1>3, <2>2 DEF CellMoved, StreamsMoved, SameCall
      <4>3. Rests(settled.k, settled.k)
        BY RestsSame
      <4> QED BY <2>5, <4>1, <4>2, <4>3
    <3> QED BY <3>1, <3>2
  <2> HIDE DEF done
  <2> DEFINE l == FinishReply(done.k, outcome)
  <2>7. IsCell(done) /\ done.k \in CallEntry
    BY <2>6 DEF CellMoved, StreamsMoved
  <2>8. StreamsMoved(done.k, l) /\ Rests(done.k, l)
    BY <2>6, <2>7, FinishReplyShaped, FinishReplyRests
  <2>9. /\ IsCell(replied) /\ replied.e = done.e /\ replied.panic = done.panic
        /\ replied.k = l
    BY <2>7 DEF IsCell
  <2> HIDE DEF replied, l
  <2>10. CellMoved(done, replied)
    BY <2>8, <2>9 DEF CellMoved
  <2>11. CellMoved(settled, replied)
    BY <2>6, <2>10, MovedTwice
  <2>12. Good(replied, i) /\ replied.k # NoCall /\ replied.e.state = "Settled"
         /\ replied.e = settled.e
    BY <2>1, <2>4, <2>11, MovedGood DEF CellMoved
  <2>13. Rests(x.k, replied.k)
    <3>1. Rests(x.k, done.k)
      BY <2>5, <2>6, RestsTwice
    <3> QED BY <2>8, <2>9, <3>1, RestsTwice
  <2> DEFINE w == TakeStreams(replied)
  <2>14. Good(w, i) /\ w.k = replied.k
    BY <2>12, TakeStreamsMoved
  <2>15. Deaf(w)
    BY <2>1, <2>9, <2>12, TakeStreamsDeaf
  <2>16. y = ReleaseIfDrained(w)
    BY <1>2, <2>1 DEF w
  <2> HIDE DEF w
  <2>17. Attends(x, w)
    BY <2>13, <2>14, <2>15, AttendsDeaf
  <2>18. Attends(w, y)
    BY <2>12, <2>14, <2>16, ReleaseIfDrainedAttends
  <2>19. Attends(x, y)
    BY <2>12, <2>14, <2>17, <2>18, AttendsTwice
  <2> QED BY <2>19 DEF y
<1> QED BY <1>5, <1>6

\* So does the settlement of a dropped claim.
LEMMA InterruptClaimAttends ==
    ASSUME NEW x, NEW i, Good(x, i), x.k # NoCall, x.e.state \in {"InFlight", "Forgotten"},
           Shaped(x.k)
    PROVE  LET y == InterruptClaim(x)
           IN  Attends(x, y) /\ (Mute(x.k) /\ y.k # NoCall => Mute(y.k))
<1> DEFINE c == x.k.correlation
           y == ReleaseParameters(x)
           r == FinishReply(y.k, "Interrupted")
           l == [r EXCEPT !.streams[ReplyStream].waker = NoWaker]
           z == [y EXCEPT !.k = [FinishReply(@, "Interrupted") EXCEPT
                                  !.streams[ReplyStream].waker = NoWaker],
                          !.wake = @ \cup ClaimStreamWaiters(y.k, {ReplyStream}),
                          !.e = SettleEntry(@, c, "Interrupted")]
           u == TakeStreams(z)
           w == [u EXCEPT !.wake = @ \cup OutcomeWaiter(x.e, c)]
<1>1. x.e \in Entry /\ x.k \in CallEntry /\ Held(x.e, c) /\ IsCell(x)
  BY GoodOccupied DEF Occupied
<1>2. InterruptClaim(x) =
         CASE SettleAnswer(x.e, c) = "Recorded" -> w
           [] SettleAnswer(x.e, c) = "Reclaimed" -> Reclaim(z)
           [] OTHER -> Panic(x)
  BY DEF InterruptClaim
<1>3. Carried(x, y) /\ Shaped(y.k) /\ Rests(x.k, y.k)
  BY <1>1, ReleaseCarried, ReleaseParametersRests
<1> HIDE DEF y
<1>4. IsCell(y) /\ y.k \in CallEntry /\ y.k # NoCall /\ y.e = x.e
  BY <1>3 DEF Carried, CellMoved, StreamsMoved
<1>5. IsCell(z) /\ z.k = l /\ z.e = SettleEntry(x.e, c, "Interrupted")
  BY <1>4 DEF IsCell
<1>6. r \in CallEntry /\ Rests(y.k, r)
  BY <1>3, <1>4, FinishReplyMoved, FinishReplyRests DEF StreamsMoved
<1> HIDE DEF r, z
<1>7. Rests(r, l)
  <2> DEFINE st == [r.streams[ReplyStream] EXCEPT !.waker = NoWaker]
             f == [r.streams EXCEPT ![ReplyStream] = st]
  <2>1. l = [r EXCEPT !.streams = f]
    OBVIOUS
  <2>2. ReplyStream \in StreamNos
    BY LoopbackAssumption DEF ReplyStream
  <2>3. st.waker = NoWaker
    BY <1>6, <2>2 DEF CallEntry, StreamType
  <2> HIDE DEF st
  <2>4. f[ReplyStream] = st /\ \A s \in StreamNos \ {ReplyStream} : f[s] = r.streams[s]
    BY <1>6, <2>2 DEF CallEntry
  <2> HIDE DEF f, l
  <2>5. l.streams = f /\ l.forgotten = r.forgotten
    BY <1>6, <2>1 DEF CallEntry
  <2> QED BY <2>3, <2>4, <2>5, NoWakerIsNone DEF Rests
<1> HIDE DEF l
<1>8. Rests(x.k, z.k)
  <2>1. Rests(x.k, r)
    BY <1>3, <1>6, RestsTwice
  <2> QED BY <1>5, <1>7, <2>1, RestsTwice
<1>9. "Interrupted" \in Outcomes
  BY LoopbackAssumption
<1>10. z.e \in Entry
  BY <1>1, <1>5, <1>9, EntrySettled
<1>11. u.k = z.k /\ IsCell(u) /\ Deaf(u)
  BY <1>5, <1>10, TakeStreamsDeaf
<1> HIDE DEF u
<1>12. w.k = z.k /\ w.e = u.e
  BY <1>11 DEF IsCell
<1> HIDE DEF w
<1>13. Deaf(w) /\ Rests(x.k, w.k)
  BY <1>8, <1>11, <1>12 DEF Deaf
<1>14. Attends(x, w) /\ (Mute(x.k) => Mute(w.k))
  BY <1>13, AttendsDeaf, MuteStays
<1>15. Attends(x, Reclaim(z)) /\ Reclaim(z).k = NoCall
  BY <1>5, ReclaimFields, AttendsGone
<1>16. SettleAnswer(x.e, c) \in {"Recorded", "Reclaimed"}
  BY <1>1, <1>9, EntrySettled
<1> QED BY <1>2, <1>14, <1>15, <1>16

\* What is waited for does not depend on who waits.
LEMMA WakerApart ==
    ASSUME NEW st \in StreamType, NEW t, t = [st EXCEPT !.waker = NoWaker], NEW side, NEW s
    PROVE  t.named = st.named /\ (Waits(st, side, s) <=> Waits(t, side, s))
<1>1. /\ t.named = st.named /\ t.chunks = st.chunks /\ t.ended = st.ended
      /\ t.stopped = st.stopped
  BY DEF StreamType
<1> QED BY <1>1 DEF Waits, Idle, OwnFinish, Finished, Full

\* The streams that are named answer for themselves, the others by what is known
\* of their call.
LEMMA StreamBy ==
    ASSUME NEW k, NEW l, NEW s, l.streams[s].named = k.streams[s].named,
           l.forgotten = k.forgotten, l.parametersReleased = k.parametersReleased
    PROVE  \/ k.streams[s].named /\ Stream(k, s) = k.streams[s] /\ Stream(l, s) = l.streams[s]
           \/ Stream(l, s) = Stream(k, s)
  BY DEF Stream

\* Taking the provider's wakers leaves the callers as they are.
LEMMA TakeClaimStreamsAttends ==
    ASSUME NEW x, IsCell(x), x.k \in CallEntry
    PROVE  LET y == TakeClaimStreams(x)
           IN  Attends(x, y) /\ Mute(y.k)
<1> DEFINE y == TakeClaimStreams(x)
           g(s) == [x.k.streams[s] EXCEPT !.waker = NoWaker]
           f == [s \in StreamNos |-> g(s)]
           more == ClaimStreamWaiters(x.k, StreamNos)
<1>1. y = [x EXCEPT !.k.streams = f, !.wake = @ \cup more]
  BY DEF TakeClaimStreams
<1>2. ASSUME NEW s \in StreamNos
      PROVE  /\ g(s).waker = NoWaker /\ g(s).named = x.k.streams[s].named
             /\ Waits(x.k.streams[s], "Caller", s) => Waits(g(s), "Caller", s)
  <2>1. x.k.streams[s] \in StreamType
    BY DEF CallEntry
  <2>2. g(s).waker = NoWaker
    BY <2>1 DEF StreamType
  <2> QED BY <2>1, <2>2, WakerApart
<1>3. \A s \in StreamNos : f[s] = g(s)
  OBVIOUS
<1> HIDE DEF y, f, g, more
<1>4. y.k = [x.k EXCEPT !.streams = f] /\ y.e = x.e
  BY <1>1 DEF IsCell
<1>5. y.k.streams = f /\ y.k.forgotten = x.k.forgotten
      /\ y.k.parametersReleased = x.k.parametersReleased
  BY <1>4 DEF CallEntry
<1>6. Mute(y.k)
  BY <1>2, <1>3, <1>5, NoWakerIsNone DEF Mute
<1>7. Rests(x.k, y.k)
  BY <1>6, RestsSilent DEF Mute
<1>8. ASSUME NEW s \in StreamNos, Waits(Stream(x.k, s), "Caller", s)
      PROVE  Waits(Stream(y.k, s), "Caller", s)
  <2>1. y.k.streams[s].named = x.k.streams[s].named
    BY <1>2, <1>3, <1>5
  <2>2. \/ x.k.streams[s].named /\ Stream(x.k, s) = x.k.streams[s]
           /\ Stream(y.k, s) = y.k.streams[s]
        \/ Stream(y.k, s) = Stream(x.k, s)
    BY <1>5, <2>1, StreamBy
  <2>3. Waits(x.k.streams[s], "Caller", s) => Waits(y.k.streams[s], "Caller", s)
    BY <1>2, <1>3, <1>5
  <2> QED BY <1>8, <2>2, <2>3
<1>9. Attends(x, y)
  BY <1>4, <1>5, <1>7, <1>8 DEF Attends
<1> QED BY <1>6, <1>9 DEF y

\* A claim that is dropped leaves no waker of its provider.
LEMMA DropHeldAttends ==
    ASSUME NEW x, NEW i, Good(x, i), x.k # NoCall, x.e.state \in {"InFlight", "Forgotten"},
           SoundBut(x.e, x.k), NEW h
    PROVE  LET y == DropHeld(x, h)
           IN  Attends(x, y) /\ (y.k # NoCall => Mute(y.k))
<1> DEFINE y == TakeClaimStreams(x)
           z == DropHeld(x, h)
<1>1. IsCell(x) /\ x.k \in CallEntry
  BY GoodOccupied DEF Occupied
<1>2. Attends(x, y) /\ Mute(y.k) /\ CellMoved(x, y)
  BY <1>1, TakeClaimStreamsAttends, TakeClaimStreamsMoved
<1>3. z = CASE x.k.forgotten -> Withdraw(y)
            [] ~x.k.forgotten /\ Owner(x.k).taken /\ x.k.providerUsedStreams -> InterruptClaim(y)
            [] OTHER -> y
  BY DEF DropHeld
<1>4. SoundBut(y.e, y.k)
  BY <1>1, TakeClaimCarried
<1> HIDE DEF y, z
<1>5. Good(y, i) /\ y.k # NoCall /\ y.e.state = x.e.state
  BY <1>2, MovedGood
<1>6. Withdraw(y).k = NoCall
  BY <1>5, GoodOccupied, WithdrawGood
<1>7. Attends(x, Withdraw(y))
  BY <1>6, AttendsGone
<1> DEFINE w == InterruptClaim(y)
<1>8. Attends(y, w) /\ (w.k # NoCall => Mute(w.k))
  BY <1>2, <1>4, <1>5, InterruptClaimAttends DEF SoundBut
<1> HIDE DEF w
<1>9. Attends(x, w)
  BY <1>2, <1>5, <1>8, AttendsTwice
<1>10. z = Withdraw(y) \/ z = w \/ z = y
  BY <1>3 DEF w
<1>11. Attends(x, z) /\ (z.k # NoCall => Mute(z.k))
  BY <1>2, <1>6, <1>7, <1>8, <1>9, <1>10
<1> QED BY <1>11 DEF z

\* Nor does a settled call whose handler is dropped.
LEMMA DropSettledAttends ==
    ASSUME NEW x, NEW i, Good(x, i), x.k # NoCall, x.e.state = "Settled", SoundBut(x.e, x.k)
    PROVE  LET y == DropSettled(x)
           IN  Attends(x, y) /\ (y.k # NoCall => Mute(y.k))
<1> DEFINE v == [x EXCEPT !.k.settledBy = None]
           p == ReleaseParameters(v)
           t == TakeStreams(p)
           y == TakeClaimStreams(t)
           z == DropSettled(x)
<1>1. Occupied(x, i) /\ x.k \in CallEntry /\ IsCell(x) /\ x.e \in Entry
  BY GoodOccupied DEF Occupied
<1>2. IsCell(v) /\ v.e = x.e /\ v.panic = x.panic /\ v.k = [x.k EXCEPT !.settledBy = None]
  BY <1>1 DEF IsCell
<1>3. z = IF x.k.pendingForget THEN ForgetInTable([y EXCEPT !.k.pendingForget = FALSE]) ELSE y
  BY DEF DropSettled
<1> HIDE DEF v, z
<1>4. /\ v.k \in CallEntry /\ SameCall(x.k, v.k) /\ v.k.settledBy = None
      /\ v.k.forgotten = x.k.forgotten /\ v.k.pendingForget = x.k.pendingForget
      /\ v.k.streams = x.k.streams
  BY <1>1, <1>2 DEF CallEntry, SameCall, None
<1>5. Occupied(v, i)
  BY <1>1, <1>2, <1>4 DEF Occupied, SameCall
<1>6. Good(v, i) /\ v.k # NoCall
  BY <1>2, <1>4, <1>5, GoodOccupied, OccupiedGood
<1>7. Rests(x.k, v.k)
  BY <1>4, RestsSame
<1>8. CellMoved(v, p) /\ Rests(v.k, p.k)
  BY <1>2, <1>4, ReleaseParametersMoved, ReleaseParametersRests
<1> HIDE DEF p
<1>9. Good(p, i) /\ p.k # NoCall /\ p.k \in CallEntry /\ p.e = x.e /\ IsCell(p)
  BY <1>2, <1>6, <1>8, MovedGood DEF CellMoved, StreamsMoved
<1>10. Good(t, i) /\ t.k = p.k /\ IsCell(t) /\ Deaf(t)
  BY <1>1, <1>9, TakeStreamsMoved, TakeStreamsDeaf
<1> HIDE DEF t
<1>11. CellMoved(t, y) /\ Attends(t, y) /\ Mute(y.k)
  BY <1>9, <1>10, TakeClaimStreamsMoved, TakeClaimStreamsAttends
<1> HIDE DEF y
<1>12. Good(y, i) /\ y.k # NoCall /\ y.k.pendingForget = x.k.pendingForget
  BY <1>4, <1>8, <1>9, <1>10, <1>11, MovedGood DEF CellMoved, StreamsMoved
<1>13. Attends(x, t)
  <2>1. Rests(x.k, p.k)
    BY <1>7, <1>8, RestsTwice
  <2> QED BY <1>10, <2>1, AttendsDeaf
<1>14. Attends(x, y)
  BY <1>9, <1>10, <1>11, <1>13, AttendsTwice
<1> DEFINE w == ForgetInTable([y EXCEPT !.k.pendingForget = FALSE])
<1>15. CASE x.k.pendingForget
  <2>1. Attends(y, w)
    BY <1>12, <1>15, UnmarkedForgetAttends
  <2>2. z = w
    BY <1>3, <1>15
  <2> HIDE DEF w
  <2>3. Attends(x, z)
    BY <1>12, <1>14, <2>1, <2>2, AttendsTwice
  <2>4. z.k # NoCall => Mute(z.k)
    <3>1. z.k # NoCall => Rests(y.k, z.k)
      BY <2>1, <2>2 DEF Attends
    <3> QED BY <1>11, <3>1, MuteStays
  <2> QED BY <2>3, <2>4 DEF z
<1>16. CASE ~x.k.pendingForget
  <2>1. z = y
    BY <1>3, <1>16
  <2> QED BY <1>11, <1>14, <2>1 DEF z
<1> QED BY <1>15, <1>16

\* Stream s of the call k was left t, in l.
LeftAs(k, l, s, t) ==
    /\ l.streams = [k.streams EXCEPT ![s] = t]
    /\ l.forgotten = k.forgotten /\ l.parametersReleased = k.parametersReleased

\* A call with one stream replaced has the others as before.
LEMMA OtherStreamsLeft ==
    ASSUME NEW k \in CallEntry, NEW l, NEW s \in StreamNos, NEW t, t.named, LeftAs(k, l, s, t)
    PROVE  /\ l.streams[s] = t /\ Stream(l, s) = t
           /\ \A q \in StreamNos \ {s} :
                 l.streams[q] = k.streams[q] /\ Stream(l, q) = Stream(k, q)
<1>1. k.streams \in [StreamNos -> StreamType]
  BY DEF CallEntry
<1>2. l.streams[s] = t /\ \A q \in StreamNos \ {s} : l.streams[q] = k.streams[q]
  BY <1>1 DEF LeftAs
<1>3. Stream(l, s) = t
  BY <1>2 DEF Stream
<1>4. ASSUME NEW q \in StreamNos \ {s} PROVE Stream(l, q) = Stream(k, q)
  <2>1. l.streams[q] = k.streams[q]
    BY <1>2
  <2> QED BY <2>1 DEF Stream, LeftAs
<1> QED BY <1>2, <1>3, <1>4

\* One stream moves: who has a waker there still waits.
LEMMA OneStreamAttends ==
    ASSUME NEW x, x.k \in CallEntry, Shaped(x.k), NEW s \in StreamNos, NEW t, t.named, NEW y,
           LeftAs(x.k, y.k, s, t),
           t.waker \in Wakers =>
              /\ t.waker = x.k.streams[s].waker
              /\ Waits(Stream(x.k, s), "Provider", s) => Waits(t, "Provider", s),
           \A q \in StreamNos \ {s} : y.e.streams[q] = x.e.streams[q],
           y.e.streams[s] \in Wakers =>
              /\ x.e.streams[s] \in Wakers
              /\ Waits(Stream(x.k, s), "Caller", s) => Waits(t, "Caller", s)
    PROVE  Attends(x, y)
<1>1. /\ y.k.streams[s] = t /\ Stream(y.k, s) = t
      /\ \A q \in StreamNos \ {s} :
            y.k.streams[q] = x.k.streams[q] /\ Stream(y.k, q) = Stream(x.k, q)
  <2> DEFINE k == x.k
             l == y.k
  <2>1. k \in CallEntry /\ LeftAs(k, l, s, t)
    OBVIOUS
  <2> HIDE DEF k, l
  <2>2. /\ l.streams[s] = t /\ Stream(l, s) = t
        /\ \A q \in StreamNos \ {s} :
              l.streams[q] = k.streams[q] /\ Stream(l, q) = Stream(k, q)
    BY <2>1, OtherStreamsLeft
  <2> QED BY <2>2 DEF k, l
<1>2. y.k.forgotten = x.k.forgotten
  BY DEF LeftAs
<1>3. x.k.streams[s].named => Stream(x.k, s) = x.k.streams[s]
  BY DEF Stream
<1>4. ASSUME NEW q \in StreamNos, y.k.streams[q].waker \in Wakers
      PROVE  /\ x.k.streams[q].waker \in Wakers
             /\ y.k.forgotten => x.k.forgotten
             /\ x.k.streams[q].named =>
                   /\ y.k.streams[q].named
                   /\ Waits(x.k.streams[q], "Provider", q) => Waits(y.k.streams[q], "Provider", q)
  <2>1. CASE q = s
    BY <1>1, <1>2, <1>3, <1>4, <2>1
  <2>2. CASE q # s
    BY <1>1, <1>2, <1>4, <2>2
  <2> QED BY <2>1, <2>2
<1>5. Rests(x.k, y.k)
  BY <1>4 DEF Rests
<1>6. ASSUME NEW q \in StreamNos, y.e.streams[q] \in Wakers
      PROVE  /\ x.e.streams[q] \in Wakers
             /\ y.k.forgotten => x.k.forgotten
             /\ Waits(Stream(x.k, q), "Caller", q) => Waits(Stream(y.k, q), "Caller", q)
  <2>1. CASE q = s
    BY <1>1, <1>2, <1>6, <2>1
  <2>2. CASE q # s
    BY <1>1, <1>2, <1>6, <2>2
  <2> QED BY <2>1, <2>2
<1> QED BY <1>5, <1>6 DEF Attends

\* What a side makes of a stream, for the side itself and for the other.
LEMMA MoverAttends ==
    ASSUME NEW x, NEW i, Good(x, i), x.k # NoCall, Shaped(x.k),
           NEW s \in StreamNos, NEW t \in StreamType, t.named, t.waker = Stream(x.k, s).waker,
           NEW side \in Sides
    PROVE  LET st == Stream(x.k, s)
               u == WithStream(x, s, t)
               y == Used(u, side)
               z == WakeSide(y, s, Other(side))
               z0 == WakeSide(u, s, Other(side))
           IN  /\ Good(u, i) /\ Good(y, i) /\ Good(z, i)
               /\ u.k # NoCall /\ y.k # NoCall /\ z.k # NoCall
               /\ (\A by \in Sides : Waits(st, by, s) => Waits(t, by, s)) =>
                     Attends(x, u) /\ Attends(x, y)
               /\ (Waits(st, side, s) => Waits(t, side, s)) =>
                     Attends(x, z) /\ Attends(x, z0)
<1> DEFINE st == Stream(x.k, s)
           u == WithStream(x, s, t)
           y == Used(u, side)
           z == WakeSide(y, s, Other(side))
           z0 == WakeSide(u, s, Other(side))
<1>1. /\ IsCell(x) /\ x.k \in CallEntry /\ x.e \in Entry /\ Held(x.e, x.k.correlation)
      /\ x.k.streams \in [StreamNos -> StreamType]
  BY GoodOccupied DEF Occupied, CallEntry
<1>2. st.waker = x.k.streams[s].waker
  BY <1>1, StreamAnswered
<1>3. Good(u, i) /\ u.k # NoCall /\ Good(y, i) /\ y.k # NoCall
  BY WithStreamGood DEF Kept
<1>4. IsCell(u) /\ u.e = x.e /\ u.k = [x.k EXCEPT !.streams[s] = t]
  BY <1>1 DEF WithStream, IsCell
<1> HIDE DEF u
<1>5. y = IF side = "Provider" THEN [u EXCEPT !.k.providerUsedStreams = TRUE] ELSE u
  BY DEF Used
<1> HIDE DEF y
<1>6. LeftAs(x.k, u.k, s, t) /\ u.k.correlation = x.k.correlation
  BY <1>1, <1>4 DEF CallEntry, LeftAs
<1>7. u.k \in CallEntry
  BY <1>3, GoodOccupied DEF Occupied
<1>8. /\ IsCell(y) /\ y.e = x.e
      /\ y.k = u.k \/ y.k = [u.k EXCEPT !.providerUsedStreams = TRUE]
  BY <1>4, <1>5 DEF IsCell
<1>9. LeftAs(x.k, y.k, s, t) /\ y.k.correlation = x.k.correlation
  BY <1>6, <1>7, <1>8 DEF CallEntry, LeftAs
<1>10. y.k \in CallEntry
  BY <1>3, GoodOccupied DEF Occupied
<1>11. "Caller" \in Sides /\ "Provider" \in Sides
  BY DEF Sides
<1>12. ASSUME \A by \in Sides : Waits(st, by, s) => Waits(t, by, s)
       PROVE  Attends(x, u) /\ Attends(x, y)
  <2>1. ASSUME NEW v, LeftAs(x.k, v.k, s, t), v.e = x.e PROVE Attends(x, v)
    <3>1. Waits(st, "Provider", s) => Waits(t, "Provider", s)
      BY <1>11, <1>12
    <3>2. Waits(st, "Caller", s) => Waits(t, "Caller", s)
      BY <1>11, <1>12
    <3> QED BY <1>1, <1>2, <2>1, <3>1, <3>2, OneStreamAttends
  <2> QED BY <1>4, <1>6, <1>8, <1>9, <2>1
<1>13. ASSUME Waits(st, side, s) => Waits(t, side, s), NEW v, IsCell(v), v.e = x.e,
              v.k \in CallEntry, LeftAs(x.k, v.k, s, t), v.k.correlation = x.k.correlation
       PROVE  Attends(x, WakeSide(v, s, Other(side)))
  <2> DEFINE w == WakeSide(v, s, Other(side))
  <2>1. CASE side = "Provider"
    <3>1. w = [v EXCEPT !.e = TakeStreamEntry(@, v.k.correlation, s),
                        !.wake = @ \cup {<<"Stream", v.k.correlation, s, v.e.streams[s]>>}]
      BY <2>1 DEF WakeSide, Other
    <3> HIDE DEF w
    <3>2. w.k = v.k /\ w.e = TakeStreamEntry(x.e, x.k.correlation, s)
      BY <1>13, <3>1 DEF IsCell
    <3>3. w.e.streams[s] = NoWaker /\ \A q \in StreamNos \ {s} : w.e.streams[q] = x.e.streams[q]
      BY <1>1, <3>2 DEF TakeStreamEntry, Entry
    <3> QED BY <1>1, <1>2, <1>13, <2>1, <3>2, <3>3, NoWakerIsNone, OneStreamAttends DEF w
  <2>2. CASE side = "Caller"
    <3> DEFINE r == [t EXCEPT !.waker = NoWaker]
               more == ClaimStreamWaiters(v.k, {s})
    <3>1. w = [v EXCEPT !.k.streams[s].waker = NoWaker, !.wake = @ \cup more]
      BY <2>2 DEF WakeSide, Other
    <3>2. v.k.streams = [x.k.streams EXCEPT ![s] = t] /\ v.k.streams[s] = t
      BY <1>1, <1>13 DEF LeftAs
    <3>3. r.waker = NoWaker /\ r.named = t.named /\ (Waits(t, "Caller", s) => Waits(r, "Caller", s))
      <4>1. r.waker = NoWaker
        BY DEF StreamType
      <4> QED BY <4>1, WakerApart
    <3> HIDE DEF more, w
    <3>4. w.e = x.e /\ w.k = [v.k EXCEPT !.streams = [@ EXCEPT ![s] = r]]
      BY <1>13, <3>1, <3>2 DEF IsCell
    <3> HIDE DEF r
    <3>5. /\ w.k.streams = [v.k.streams EXCEPT ![s] = r] /\ w.k.forgotten = v.k.forgotten
          /\ w.k.parametersReleased = v.k.parametersReleased
      BY <1>13, <3>4 DEF CallEntry
    <3>6. [v.k.streams EXCEPT ![s] = r] = [x.k.streams EXCEPT ![s] = r]
      BY <1>1, <3>2
    <3>7. LeftAs(x.k, w.k, s, r)
      BY <1>13, <3>5, <3>6 DEF LeftAs
    <3>8. r.waker \notin Wakers
      BY <3>3, NoWakerIsNone
    <3>9. Waits(st, "Caller", s) => Waits(r, "Caller", s)
      BY <1>13, <2>2, <3>3
    <3>10. r.named
      BY <3>3
    <3> HIDE DEF st
    <3> QED BY <1>1, <3>4, <3>7, <3>8, <3>9, <3>10, OneStreamAttends DEF w, st
  <2> QED BY <2>1, <2>2 DEF Sides
<1>14. Good(z, i) /\ z.k # NoCall
  BY <1>3, WakeSideGood DEF Kept
<1>15. (Waits(st, side, s) => Waits(t, side, s)) => Attends(x, z) /\ Attends(x, z0)
  BY <1>4, <1>6, <1>7, <1>8, <1>9, <1>10, <1>13
<1> HIDE DEF z, z0, st
<1> QED BY <1>3, <1>12, <1>14, <1>15 DEF u, y, z, z0, st

\* What a side waits for is in the chunks and the ends of the stream.
LEMMA WaitsAlike ==
    ASSUME NEW st, NEW t, t.chunks = st.chunks, t.ended = st.ended, t.stopped = st.stopped,
           NEW side, NEW s
    PROVE  Waits(st, side, s) <=> Waits(t, side, s)
  BY DEF Waits, Idle, OwnFinish, Finished, Full

\* Naming a stream changes nothing.
LEMMA NamedAttends ==
    ASSUME NEW x, NEW i, Good(x, i), x.k # NoCall, Shaped(x.k), NEW s \in StreamNos
    PROVE  Attends(x, WithStream(x, s, Stream(x.k, s)))
<1> DEFINE st == Stream(x.k, s)
           y == WithStream(x, s, st)
<1>1. st \in StreamType /\ st.named
  BY GoodOccupied, StreamAnswered DEF Occupied
<1>2. "Caller" \in Sides
  BY DEF Sides
<1>3. Attends(x, y)
  BY <1>1, <1>2, MoverAttends
<1> QED BY <1>3

\* A pull wakes the side that produces, which may find the window open.
LEMMA PullCellAttends ==
    ASSUME NEW x, NEW i, Good(x, i), x.k # NoCall, Shaped(x.k),
           NEW s \in StreamNos, NEW side \in Sides, Producer(s) # side
    PROVE  Attends(x, PullCell(x, side, s))
<1> DEFINE st == Stream(x.k, s)
           t == [st EXCEPT !.chunks = Tail(@)]
           d == [st EXCEPT !.drained = TRUE]
           ended == Used(WithStream(x, s, d), side)
           pulled == WakeSide(Used(WithStream(x, s, t), side), s, Other(side))
<1>1. st \in StreamType /\ st.named
  BY GoodOccupied, StreamAnswered DEF Occupied
<1>2. PullCell(x, side, s) =
         CASE st.chunks # <<>> -> pulled
           [] st.chunks = <<>> /\ Finished(st) /\ side = "Provider" -> ReleaseIfDrained(ended)
           [] OTHER -> WithStream(x, s, st)
  BY DEF PullCell
<1> HIDE DEF st
<1>3. CASE st.chunks # <<>>
  <2>1. /\ t \in StreamType /\ t.named /\ t.waker = st.waker /\ t.ended = st.ended
        /\ t.stopped = st.stopped
    <3> DEFINE q == Tail(st.chunks)
    <3>1. q \in Seq({"empty", "bytes"})
      BY <1>1, <1>3 DEF StreamType
    <3>2. t = [st EXCEPT !.chunks = q]
      OBVIOUS
    <3> HIDE DEF q, t
    <3> QED BY <1>1, <3>1, <3>2 DEF StreamType
  <2> HIDE DEF t
  <2>2. Waits(st, side, s) => Waits(t, side, s)
    BY <1>3, <2>1 DEF Waits, Idle, OwnFinish
  <2>3. Attends(x, pulled)
    BY <2>1, <2>2, MoverAttends DEF st
  <2>4. PullCell(x, side, s) = pulled
    BY <1>2, <1>3
  <2> QED BY <2>3, <2>4
<1>4. CASE st.chunks = <<>> /\ Finished(st) /\ side = "Provider"
  <2>1. /\ d \in StreamType /\ d.named /\ d.waker = st.waker /\ d.ended = st.ended
        /\ d.stopped = st.stopped /\ d.chunks = st.chunks
    BY <1>1 DEF StreamType
  <2> HIDE DEF d
  <2>2. \A by \in Sides : Waits(st, by, s) => Waits(d, by, s)
    BY <2>1, WaitsAlike
  <2>3. Attends(x, ended) /\ Good(ended, i) /\ ended.k # NoCall
    BY <2>1, <2>2, MoverAttends DEF st
  <2>4. PullCell(x, side, s) = ReleaseIfDrained(ended)
    BY <1>2, <1>4
  <2> HIDE DEF ended
  <2> QED BY <2>3, <2>4, ReleaseIfDrainedAttends, AttendsTwice
<1>5. CASE ~(st.chunks # <<>>) /\ ~(st.chunks = <<>> /\ Finished(st) /\ side = "Provider")
  <2>1. PullCell(x, side, s) = WithStream(x, s, st)
    BY <1>2, <1>5
  <2> QED BY <2>1, NamedAttends DEF st
<1> QED BY <1>3, <1>4, <1>5

\* A full window does not empty by a push.
LEMMA FullKept ==
    ASSUME NEW st \in StreamType, NEW t, t = [st EXCEPT !.chunks = Append(@, "empty")], Full(st)
    PROVE  Full(t)
<1> DEFINE a == st.chunks
           b == Append(a, "empty")
           P == {p \in DOMAIN a : a[p] = "bytes"}
           Q == {p \in DOMAIN b : b[p] = "bytes"}
<1>1. a \in Seq({"empty", "bytes"}) /\ t.chunks = b
  BY DEF StreamType
<1> HIDE DEF a
<1>2. /\ DOMAIN a = 1 .. Len(a) /\ DOMAIN b = 1 .. Len(a) + 1 /\ Len(a) \in Nat
      /\ \A p \in 1 .. Len(a) : b[p] = a[p]
      /\ b[Len(a) + 1] = "empty"
  BY <1>1, AppendProperties, LenProperties
<1> HIDE DEF b
<1>3. P = Q
  BY <1>2
<1>4. Cardinality(P) >= StreamWindow
  BY DEF Full, a
<1> HIDE DEF P, Q
<1>5. Cardinality(Q) >= StreamWindow
  BY <1>3, <1>4
<1> QED BY <1>1, <1>5 DEF Full, Q

\* A push wakes the side that consumes, which has something to read.
LEMMA PushCellAttends ==
    ASSUME NEW x, NEW i, Good(x, i), x.k # NoCall, Shaped(x.k),
           NEW s \in StreamNos, NEW side \in Sides, Producer(s) = side,
           NEW chunk \in {"bytes", "empty"}
    PROVE  Attends(x, PushCell(x, side, s, chunk))
<1> DEFINE st == Stream(x.k, s)
           t == [st EXCEPT !.chunks = Append(@, chunk)]
           pushed == WakeSide(Used(WithStream(x, s, t), side), s, Other(side))
<1>1. st \in StreamType /\ st.named
  BY GoodOccupied, StreamAnswered DEF Occupied
<1>2. PushCell(x, side, s, chunk) =
         CASE side = "Provider" /\ x.k.forgotten -> x
           [] ~(side = "Provider" /\ x.k.forgotten)
                 /\ (Closed(st) \/ (chunk = "bytes" /\ Full(st))) -> WithStream(x, s, st)
           [] OTHER -> pushed
  BY DEF PushCell
<1>3. Attends(x, x) /\ Attends(x, WithStream(x, s, st))
  BY AttendsSelf, NamedAttends
<1> HIDE DEF st
<1>4. ASSUME ~Closed(st), ~(chunk = "bytes" /\ Full(st)) PROVE Attends(x, pushed)
  <2>1. t \in StreamType /\ t.named /\ t.waker = st.waker /\ t.ended = st.ended
        /\ t.stopped = st.stopped
    <3> DEFINE q == Append(st.chunks, chunk)
    <3>1. q \in Seq({"empty", "bytes"})
      BY <1>1 DEF StreamType
    <3>2. t = [st EXCEPT !.chunks = q]
      OBVIOUS
    <3> HIDE DEF q, t
    <3> QED BY <1>1, <3>1, <3>2 DEF StreamType
  <2>2. Full(st) => Full(t)
    BY <1>1, <1>4, FullKept
  <2> HIDE DEF t
  <2>3. Waits(st, side, s) => Waits(t, side, s)
    BY <1>4, <2>1, <2>2 DEF Waits, Idle, OwnFinish, Finished, Closed
  <2> QED BY <2>1, <2>3, MoverAttends DEF st
<1> HIDE DEF pushed
<1> QED BY <1>2, <1>3, <1>4

\* An end wakes the other side.
LEMMA EndCellAttends ==
    ASSUME NEW x, NEW i, Good(x, i), x.k # NoCall, Shaped(x.k),
           NEW s \in StreamNos, NEW side \in Sides, Producer(s) = side
    PROVE  Attends(x, EndCell(x, side, s))
<1> DEFINE st == Stream(x.k, s)
           t == [st EXCEPT !.ended = TRUE]
           ended == WakeSide(WithStream(x, s, t), s, Other(side))
<1>1. st \in StreamType /\ st.named
  BY GoodOccupied, StreamAnswered DEF Occupied
<1>2. EndCell(x, side, s) \in {x, WithStream(x, s, st), ended}
  BY DEF EndCell
<1>3. Attends(x, x) /\ Attends(x, WithStream(x, s, st))
  BY AttendsSelf, NamedAttends
<1> HIDE DEF st
<1>4. t \in StreamType /\ t.named /\ t.waker = st.waker /\ t.ended = TRUE
  BY <1>1 DEF StreamType
<1> HIDE DEF t
<1>5. Waits(t, side, s)
  BY <1>4 DEF Waits, OwnFinish
<1>6. Attends(x, ended)
  BY <1>4, <1>5, MoverAttends DEF st
<1> HIDE DEF ended
<1> QED BY <1>2, <1>3, <1>6

\* And so does an abort.
LEMMA AbortCellAttends ==
    ASSUME NEW x, NEW i, Good(x, i), x.k # NoCall, Shaped(x.k),
           NEW s \in StreamNos, NEW side \in Sides
    PROVE  Attends(x, AbortCell(x, side, s))
<1> DEFINE st == Stream(x.k, s)
           receiver == Producer(s) # side
           dropped == IF receiver THEN <<>> ELSE st.chunks
           provider == side = "Provider"
           refused == [st EXCEPT !.chunks = dropped, !.drained = @ \/ (receiver /\ provider)]
           stopped == [st EXCEPT !.chunks = dropped, !.drained = @ \/ provider, !.stopped = side]
           a == Used(WithStream(x, s, refused), side)
           b == WakeSide(Used(WithStream(x, s, stopped), side), s, Other(side))
<1>1. st \in StreamType /\ st.named
  BY GoodOccupied, StreamAnswered DEF Occupied
<1>2. AbortCell(x, side, s) =
         IF Finished(st)
         THEN IF receiver THEN IF provider THEN ReleaseIfDrained(a) ELSE a ELSE a
         ELSE IF provider THEN ReleaseIfDrained(b) ELSE b
  BY DEF AbortCell
<1> HIDE DEF st
<1>3. dropped \in Seq({"empty", "bytes"})
  BY <1>1 DEF StreamType
<1>4. receiver \in BOOLEAN /\ provider \in BOOLEAN
  OBVIOUS
<1> HIDE DEF dropped, receiver
<1>5. /\ refused \in StreamType /\ refused.named /\ refused.waker = st.waker
      /\ refused.ended = st.ended /\ refused.stopped = st.stopped
  BY <1>1, <1>3, <1>4 DEF StreamType
<1>6. /\ stopped \in StreamType /\ stopped.named /\ stopped.waker = st.waker
      /\ stopped.stopped = side
  BY <1>1, <1>3, <1>4 DEF StreamType, Sides
<1> HIDE DEF refused, stopped
<1>7. ASSUME Finished(st) PROVE Attends(x, a) /\ Good(a, i) /\ a.k # NoCall
  <2>1. \A by \in Sides : Waits(st, by, s) => Waits(refused, by, s)
    BY <1>5, <1>7 DEF Waits, Idle, OwnFinish
  <2> QED BY <1>5, <2>1, MoverAttends DEF st
<1>8. Attends(x, b) /\ Good(b, i) /\ b.k # NoCall
  <2>1. Waits(stopped, side, s)
    BY <1>6 DEF Waits, OwnFinish
  <2> QED BY <1>6, <2>1, MoverAttends DEF st
<1> HIDE DEF a, b, provider
<1>9. Finished(st) => Attends(x, ReleaseIfDrained(a))
  BY <1>7, ReleaseIfDrainedAttends, AttendsTwice
<1>10. Attends(x, ReleaseIfDrained(b))
  BY <1>8, ReleaseIfDrainedAttends, AttendsTwice
<1> QED BY <1>2, <1>7, <1>8, <1>9, <1>10

\* Store::claim_slot's handler of the call k, with the claims of cl.
HolderIn(cl, k) ==
    LET o == OwnerIn(cl, k)
    IN  CASE o # NoOwner /\ o.taken -> o.handler
          [] o # NoOwner /\ ~o.taken -> None
          [] OTHER -> k.settledBy

\* Side waits for stream s of l as it did of k, and has not forgotten it since.
StillWaits(k, l, side, s) ==
    /\ l.forgotten => k.forgotten
    /\ Waits(Stream(k, s), side, s) => Waits(Stream(l, s), side, s)

\* The call k became l in the slot e, under the claims cl and the handlers ha:
\* whoever has a waker on a stream of it waits as before, and a provider that
\* has one still has the call.
AttendedBy(k, l, e, cl, ha) ==
    /\ \A s \in StreamNos : e.streams[s] \in Wakers => StillWaits(k, l, "Caller", s)
    /\ \A s \in StreamNos : l.streams[s].waker \in Wakers =>
          /\ StillWaits(k, l, "Provider", s)
          /\ HolderIn(claims, k) \in handlers => HolderIn(cl, l) \in ha
    /\ l.claim = k.claim \/ (k.claim = None /\ l.claim = nextClaim)
Attended ==
    \A i \in Slots : calls'[i] # NoCall =>
        IF calls[i] = NoCall THEN calls'[i].claim = None
        ELSE AttendedBy(calls[i], calls'[i], slots'[i], claims', handlers')

\* A call that stays as it is.
LEMMA SameAttended ==
    ASSUME NEW k, NEW e, NEW cl, NEW ha, HolderIn(claims, k) \in handlers => HolderIn(cl, k) \in ha
    PROVE  AttendedBy(k, k, e, cl, ha)
  BY DEF AttendedBy, StillWaits

\* A call keeps its handler with its claim and its settlement.
LEMMA HolderSame ==
    ASSUME NEW k, NEW l, l.claim = k.claim, l.settledBy = k.settledBy, NEW ha, handlers \subseteq ha
    PROVE  HolderIn(claims, k) \in handlers => HolderIn(claims, l) \in ha
<1>1. OwnerIn(claims, l) = OwnerIn(claims, k)
  BY DEF OwnerIn
<1>2. HolderIn(claims, l) = HolderIn(claims, k)
  BY <1>1 DEF HolderIn
<1> QED BY <1>2

\* What the operations on a cell leave.
LEMMA CellAttended ==
    ASSUME NEW x, NEW i, Good(x, i), x.k # NoCall, Shaped(x.k), NEW y, Attends(x, y),
           y.k # NoCall, y.k.claim = x.k.claim, NEW cl, NEW ha,
           Mute(y.k) \/ (HolderIn(claims, x.k) \in handlers => HolderIn(cl, y.k) \in ha)
    PROVE  AttendedBy(x.k, y.k, y.e, cl, ha)
<1> DEFINE k == x.k
           l == y.k
<1>1. \A s \in StreamNos : y.e.streams[s] \in Wakers => StillWaits(k, l, "Caller", s)
  BY DEF Attends, StillWaits
<1>2. ASSUME NEW s \in StreamNos, l.streams[s].waker \in Wakers
      PROVE  /\ StillWaits(k, l, "Provider", s)
             /\ HolderIn(claims, k) \in handlers => HolderIn(cl, l) \in ha
  <2>1. k.streams[s].waker \in Wakers /\ Rests(k, l)
    BY <1>2 DEF Attends, Rests
  <2>2. k.streams[s].named
    BY <2>1, NoWakerIsNone DEF Shaped, UnnamedStream
  <2>3. /\ l.streams[s].named /\ (l.forgotten => k.forgotten)
        /\ Waits(k.streams[s], "Provider", s) => Waits(l.streams[s], "Provider", s)
    BY <1>2, <2>1, <2>2 DEF Rests
  <2>4. Stream(k, s) = k.streams[s] /\ Stream(l, s) = l.streams[s]
    BY <2>2, <2>3 DEF Stream
  <2>5. ~Mute(l)
    BY <1>2 DEF Mute
  <2>6. StillWaits(k, l, "Provider", s)
    BY <2>3, <2>4 DEF StillWaits
  <2> QED BY <2>5, <2>6
<1> QED BY <1>1, <1>2 DEF AttendedBy

\* Such operations on all the cells.
LEMMA AppliedAttended ==
    ASSUME NEW cells, NEW more, Apply(cells, more),
           \A i \in Slots : cells[i].k # NoCall =>
              IF calls[i] = NoCall THEN cells[i].k.claim = None
              ELSE AttendedBy(calls[i], cells[i].k, cells[i].e, claims', handlers')
    PROVE  Attended
<1>1. slots' = [i \in Slots |-> cells[i].e] /\ calls' = [i \in Slots |-> cells[i].k]
  BY DEF Apply
<1> SUFFICES ASSUME NEW i \in Slots, calls'[i] # NoCall
             PROVE  IF calls[i] = NoCall THEN calls'[i].claim = None
                    ELSE AttendedBy(calls[i], calls'[i], slots'[i], claims', handlers')
  BY DEF Attended
<1>2. calls'[i] = cells[i].k /\ slots'[i] = cells[i].e
  BY <1>1
<1> QED BY <1>2

\* A step that leaves the calls and the claims alone.
LEMMA QuietAttended ==
    ASSUME UNCHANGED <<calls, claims>>, handlers \subseteq handlers'
    PROVE  Attended
<1> SUFFICES ASSUME NEW i \in Slots, calls[i] # NoCall
             PROVE  AttendedBy(calls[i], calls[i], slots'[i], claims, handlers')
  BY DEF Attended
<1>1. HolderIn(claims, calls[i]) \in handlers => HolderIn(claims, calls[i]) \in handlers'
  OBVIOUS
<1> QED BY <1>1, SameAttended

\* An operation of one side on a stream of one call.
LEMMA OneAttended ==
    ASSUME IInv, SInv, NEW i \in Slots, calls[i] # NoCall, NEW x, NEW side,
           Steered(Cell(i), x, side), Attends(Cell(i), x), ApplyTo(i, x),
           UNCHANGED <<claims, handlers>>
    PROVE  Attended
<1> DEFINE cells == [j \in Slots |-> IF j = i THEN x ELSE Cell(j)]
<1>1. Apply(cells, {})
  BY DEF ApplyTo
<1>2. cells[i] = x /\ \A j \in Slots \ {i} : cells[j] = Cell(j)
  OBVIOUS
<1> HIDE DEF cells
<1>3. ASSUME NEW j \in Slots, cells[j].k # NoCall
      PROVE  IF calls[j] = NoCall THEN cells[j].k.claim = None
             ELSE AttendedBy(calls[j], cells[j].k, cells[j].e, claims', handlers')
  <2>1. CASE j = i
    <3> DEFINE y == Cell(i)
    <3>1. Good(y, i) /\ y.k = calls[i] /\ Shaped(y.k)
      BY SoundNow DEF SoundCall, SoundBut
    <3>2. x.k # NoCall
      BY <1>2, <1>3, <2>1
    <3>3. x.k.claim = y.k.claim /\ x.k.settledBy = y.k.settledBy /\ Attends(y, x)
      BY <3>2 DEF Steered, Minded, Passed, SameCall
    <3> HIDE DEF y
    <3>4. HolderIn(claims, y.k) \in handlers => HolderIn(claims, x.k) \in handlers
      BY <3>3, HolderSame
    <3>5. AttendedBy(y.k, x.k, x.e, claims, handlers)
      BY <3>1, <3>2, <3>3, <3>4, CellAttended
    <3> QED BY <1>2, <2>1, <3>1, <3>5
  <2>2. CASE j # i
    <3>1. cells[j].e = slots[j] /\ cells[j].k = calls[j]
      BY <1>2, <2>2, CellFields
    <3>2. AttendedBy(calls[j], calls[j], slots[j], claims, handlers)
      BY SameAttended
    <3> QED BY <1>3, <3>1, <3>2
  <2> QED BY <2>1, <2>2
<1> QED BY <1>1, <1>3, AppliedAttended

\* A call that is forgotten.
LEMMA ForgottenAttended ==
    ASSUME IInv, SInv, NEW i \in Slots, calls[i] # NoCall
    PROVE  LET y == ForgetCell(Cell(i))
           IN  y.k # NoCall => AttendedBy(calls[i], y.k, y.e, claims, handlers)
<1> DEFINE x == Cell(i)
           y == ForgetCell(x)
<1>1. /\ Good(x, i) /\ x.e = slots[i] /\ x.k = calls[i] /\ SoundCall(x.e, x.k)
  BY SoundNow
<1>2. Waiting(calls[i]) <=> WaitsIn(claims, slots[i], calls[i])
  BY WaitingIff
<1>3. Waiting(x.k) => x.e.state # "Settled"
  BY <1>1, <1>2 DEF WaitsIn
<1> HIDE DEF x
<1>4. Minded(x, y) /\ (y.k # NoCall => y.k.settledBy = x.k.settledBy)
  BY <1>1, <1>3, ForgetCellMinded
<1>5. Shaped(x.k)
  BY <1>1 DEF SoundCall, SoundBut
<1>6. Attends(x, y)
  BY <1>1, <1>3, <1>5, ForgetCellAttends
<1> HIDE DEF y
<1>7. ASSUME y.k # NoCall PROVE AttendedBy(x.k, y.k, y.e, claims, handlers)
  <2>1. y.k.claim = x.k.claim /\ y.k.settledBy = x.k.settledBy
    BY <1>4, <1>7 DEF Minded, Passed, SameCall
  <2>2. HolderIn(claims, x.k) \in handlers => HolderIn(claims, y.k) \in handlers
    BY <2>1, HolderSame
  <2> QED BY <1>1, <1>5, <1>6, <1>7, <2>1, <2>2, CellAttended
<1> QED BY <1>1, <1>7 DEF x, y

\* A step that forgets some calls.
LEMMA ForgetAttended ==
    ASSUME IInv, SInv, NEW cells, NEW more, Apply(cells, more), NEW sent,
           \A i \in Slots : cells[i] = IF i \in sent THEN ForgetCell(Cell(i)) ELSE Cell(i),
           \A i \in sent : calls[i] # NoCall,
           UNCHANGED <<claims, handlers>>
    PROVE  Attended
<1>1. ASSUME NEW j \in Slots, cells[j].k # NoCall
      PROVE  IF calls[j] = NoCall THEN cells[j].k.claim = None
             ELSE AttendedBy(calls[j], cells[j].k, cells[j].e, claims', handlers')
  <2>1. CASE j \in sent
    BY <1>1, <2>1, ForgottenAttended
  <2>2. CASE j \notin sent
    <3>1. cells[j].e = slots[j] /\ cells[j].k = calls[j]
      BY <2>2, CellFields
    <3>2. AttendedBy(calls[j], calls[j], slots[j], claims, handlers)
      BY SameAttended
    <3> QED BY <1>1, <3>1, <3>2
  <2> QED BY <2>1, <2>2
<1> QED BY <1>1, AppliedAttended

\* A new call has no claim.
LEMMA SendAttended ==
    ASSUME IInv, SInv, NEW caller \in Callers, NEW kind \in Kinds, NEW member \in Members,
           Send(caller, kind, member)
    PROVE  Attended
<1> DEFINE i == Min(FreeSlots)
           c == Correlation(slots[i].generation, i)
           woken == {h \in handlers : Serves(h, member)}
           cell == [Cell(i) EXCEPT !.e = Inserted(@, 0), !.k = NewCall(c, caller, kind, member)]
           cells == [j \in Slots |-> IF j = i THEN cell ELSE Cell(j)]
           more == ClaimWaiters(woken)
<1>1. FreeSlots # {} /\ Apply(cells, more) /\ UNCHANGED <<handlers, claims>>
  BY DEF Send, callerVars, handlerVars
<1>2. i \in FreeSlots
  <2>1. FreeSlots \in SUBSET Nat
    BY LoopbackAssumption DEF FreeSlots, Slots
  <2> QED BY <1>1, <2>1, MinIsLeast
<1>3. i \in Slots /\ calls[i] = NoCall
  BY <1>2 DEF FreeSlots, IInv, TypeOK, CellsOK, CellOK
<1>4. \A j \in Slots : cells[j] = IF j = i THEN cell ELSE Cell(j)
  OBVIOUS
<1>5. cell.k = NewCall(c, caller, kind, member)
  BY DEF Cell
<1>6. cell.k.claim = None
  BY <1>5 DEF NewCall
<1> HIDE DEF cells, cell, i, woken, more, c
<1>7. ASSUME NEW j \in Slots, cells[j].k # NoCall
      PROVE  IF calls[j] = NoCall THEN cells[j].k.claim = None
             ELSE AttendedBy(calls[j], cells[j].k, cells[j].e, claims', handlers')
  <2>1. CASE j = i
    BY <1>3, <1>4, <1>6, <2>1
  <2>2. CASE j # i
    <3>1. cells[j].e = slots[j] /\ cells[j].k = calls[j]
      BY <1>4, <2>2, CellFields
    <3>2. AttendedBy(calls[j], calls[j], slots[j], claims', handlers')
      BY <1>1, SameAttended
    <3> QED BY <1>7, <3>1, <3>2
  <2> QED BY <2>1, <2>2
<1> QED BY <1>1, <1>7, AppliedAttended

\* A caller's drop forgets its calls.
LEMMA CloseCallerAttended ==
    ASSUME IInv, SInv, NEW caller \in Callers, CloseCaller(caller)
    PROVE  Attended
<1> DEFINE sent == {i \in Slots : calls[i] # NoCall /\ calls[i].caller = caller}
           cells == [i \in Slots |-> IF i \in sent THEN ForgetCell(Cell(i)) ELSE Cell(i)]
           more == {<<"Slot", caller, 0, slotWaker[caller]>>}
<1>1. Apply(cells, more) /\ UNCHANGED <<claims, handlers>>
  BY DEF CloseCaller, handlerVars
<1>2. \A i \in Slots : cells[i] = IF i \in sent THEN ForgetCell(Cell(i)) ELSE Cell(i)
  OBVIOUS
<1>3. \A i \in sent : calls[i] # NoCall
  OBVIOUS
<1> HIDE DEF cells, sent, more
<1> QED BY <1>1, <1>2, <1>3, ForgetAttended

\* A forget.
LEMMA ForgetOpAttended ==
    ASSUME IInv, SInv, NEW c \in Correlations, Forget(c)
    PROVE  Attended
<1> DEFINE n == SlotOf(c)
           sent == {n}
           cells == [i \in Slots |-> IF i = n THEN ForgetCell(Cell(n)) ELSE Cell(i)]
<1>1. n \in Slots /\ calls[n] # NoCall /\ Apply(cells, {}) /\ UNCHANGED <<claims, handlers>>
  BY DEF Forget, Known, HasEntry, ApplyTo, handlerVars
<1>2. \A i \in Slots : cells[i] = IF i \in sent THEN ForgetCell(Cell(i)) ELSE Cell(i)
  OBVIOUS
<1>3. \A i \in sent : calls[i] # NoCall
  BY <1>1
<1> HIDE DEF cells, sent, n
<1> QED BY <1>1, <1>2, <1>3, ForgetAttended

\* A settlement hands its call from the claim to the handler.
LEMMA SettleAttended ==
    ASSUME IInv, SInv, NEW h \in Handlers, NEW id \in ClaimIds, NEW outcome \in Outcomes,
           SettleClaim(h, id, outcome), UNCHANGED handlers
    PROVE  Attended
<1> DEFINE c == claims[id].call
           i == SlotOf(c)
           x == Cell(i)
           y == SettleCell(x, h, outcome)
           cells == [j \in Slots |-> IF j = i THEN y ELSE Cell(j)]
<1>1. /\ claims[id] \in ClaimOwner /\ claims[id] # NoOwner
      /\ i \in Slots /\ calls[i] # NoCall /\ calls[i].correlation = c
      /\ calls[i].claim = id /\ slots[i].state \in {"InFlight", "Forgotten"}
      /\ claims[id].handler \in handlers
  BY ClaimCall DEF SettleClaim
<1>2. HasEntry(c)
  BY <1>1 DEF HasEntry
<1>3. /\ Apply(cells, {}) /\ claims' = [claims EXCEPT ![id] = NoOwner] /\ h \in handlers
  BY <1>1, <1>2 DEF SettleClaim, ApplyTo
<1>4. /\ SoundCall(slots[i], calls[i]) /\ Good(x, i) /\ x.e = slots[i] /\ x.k = calls[i]
  BY <1>1, SoundNow
<1>5. cells[i] = y /\ \A j \in Slots \ {i} : cells[j] = Cell(j)
  BY <1>1
<1> HIDE DEF cells, x, c, i
<1>6. Shaped(x.k)
  BY <1>4 DEF SoundCall, SoundBut
<1>7. /\ Minded(x, y)
      /\ y.k # NoCall => y.k.settledBy = h
  BY <1>1, <1>4, SettleCellMinded
<1>8. Attends(x, y)
  BY <1>1, <1>4, <1>6, SettleCellAttends
<1> HIDE DEF y
<1>9. claims \in [ClaimIds -> ClaimOwner \cup {NoOwner}] /\ id # None
  BY DEF IInv, TypeOK, ClaimIds, None
<1>10. ASSUME NEW j \in Slots, cells[j].k # NoCall
       PROVE  IF calls[j] = NoCall THEN cells[j].k.claim = None
              ELSE AttendedBy(calls[j], cells[j].k, cells[j].e, claims', handlers')
  <2>1. CASE j = i
    <3>1. y.k # NoCall /\ cells[j] = y
      BY <1>5, <1>10, <2>1
    <3>2. y.k.claim = x.k.claim /\ y.k.settledBy = h
      BY <1>7, <3>1 DEF Minded, Passed, SameCall
    <3>3. HolderIn(claims', y.k) = h
      <4>1. OwnerIn(claims', y.k) = NoOwner
        BY <1>1, <1>3, <1>4, <1>9, <3>2 DEF OwnerIn
      <4> QED BY <3>2, <4>1 DEF HolderIn
    <3>4. HolderIn(claims, x.k) \in handlers => HolderIn(claims', y.k) \in handlers'
      BY <1>3, <3>3
    <3> DEFINE cl == claims'
               ha == handlers'
    <3>5. HolderIn(claims, x.k) \in handlers => HolderIn(cl, y.k) \in ha
      BY <3>4
    <3> HIDE DEF cl, ha
    <3>6. AttendedBy(x.k, y.k, y.e, cl, ha)
      BY <1>1, <1>4, <1>6, <1>8, <3>1, <3>2, <3>5, CellAttended
    <3> QED BY <1>1, <1>4, <2>1, <3>1, <3>6 DEF cl, ha
  <2>2. CASE j # i
    <3>1. cells[j].e = slots[j] /\ cells[j].k = calls[j]
      BY <1>5, <2>2, CellFields
    <3>2. OwnerIn(claims', calls[j]) = OwnerIn(claims, calls[j])
      <4>1. calls[j].claim # id
        BY <1>1, <1>9, <1>10, <2>2, <3>1, ClaimOnce
      <4>2. calls[j].claim \in ClaimIds \cup {None}
        BY <1>10, <3>1, LiveCall
      <4> QED BY <1>3, <1>9, <4>1, <4>2 DEF OwnerIn
    <3>3. HolderIn(claims, calls[j]) \in handlers => HolderIn(claims', calls[j]) \in handlers'
      BY <3>2 DEF HolderIn
    <3>4. AttendedBy(calls[j], calls[j], slots[j], claims', handlers')
      BY <3>3, SameAttended
    <3> QED BY <1>10, <3>1, <3>4
  <2> QED BY <2>1, <2>2
<1> QED BY <1>3, <1>10, AppliedAttended

\* A drop of a handler leaves no claim of the ones it had, and the others theirs.
LEMMA DroppedAttended ==
    ASSUME IInv, SInv, NEW h \in Handlers, NEW i \in Slots, calls[i] # NoCall
    PROVE  LET y == CloseHandlerCell(Cell(i), h)
           IN  y.k # NoCall =>
                  AttendedBy(calls[i], y.k, y.e, ClaimsWithout(h), handlers \ {h})
<1> DEFINE x == Cell(i)
           y == CloseHandlerCell(x, h)
           cl == ClaimsWithout(h)
           ha == handlers \ {h}
<1>1. /\ SoundCall(slots[i], calls[i])
      /\ Good(x, i) /\ x.e = slots[i] /\ x.k = calls[i]
  BY SoundNow
<1>2. x.k.settledBy # None => x.e.state = "Settled"
  BY <1>1, GoodOccupied DEF Occupied
<1>3. y = CASE x.k # NoCall /\ HeldBy(h, x.k) -> DropHeld(x, h)
            [] x.k # NoCall /\ ~HeldBy(h, x.k) /\ x.k.settledBy = h -> DropSettled(x)
            [] OTHER -> x
  BY DEF CloseHandlerCell
<1>4. SoundBut(x.e, x.k) /\ Shaped(x.k)
  BY <1>1 DEF SoundCall, SoundBut
<1> HIDE DEF x, y
<1>5. ASSUME Attends(x, y), Minded(x, y), y.k # NoCall => Mute(y.k), y.k # NoCall
      PROVE  AttendedBy(calls[i], y.k, y.e, cl, ha)
  <2>1. y.k.claim = x.k.claim
    BY <1>5 DEF Minded, Passed, SameCall
  <2> HIDE DEF cl, ha
  <2>2. AttendedBy(x.k, y.k, y.e, cl, ha)
    BY <1>1, <1>4, <1>5, <2>1, CellAttended
  <2> QED BY <1>1, <2>2
<1>6. CASE HeldBy(h, calls[i])
  <2>1. y = DropHeld(x, h)
    BY <1>1, <1>3, <1>6
  <2>2. slots[i].state \in {"InFlight", "Forgotten"}
    BY <1>6, OwnedCall DEF HeldBy, Claimed
  <2>3. Minded(x, y)
    BY <1>1, <2>1, <2>2, DropHeldMinded
  <2>4. Attends(x, y) /\ (y.k # NoCall => Mute(y.k))
    BY <1>1, <1>4, <2>1, <2>2, DropHeldAttends
  <2> QED BY <1>5, <2>3, <2>4 DEF x, y
<1>7. CASE ~HeldBy(h, calls[i]) /\ calls[i].settledBy = h
  <2>1. y = DropSettled(x)
    BY <1>1, <1>3, <1>7
  <2>2. x.e.state = "Settled"
    BY <1>1, <1>2, <1>7 DEF Handlers, None
  <2>3. Minded(x, y)
    BY <1>1, <2>1, <2>2, DropSettledMinded
  <2>4. Attends(x, y) /\ (y.k # NoCall => Mute(y.k))
    BY <1>1, <1>4, <2>1, <2>2, DropSettledAttends
  <2> QED BY <1>5, <2>3, <2>4 DEF x, y
<1>8. CASE ~HeldBy(h, calls[i]) /\ calls[i].settledBy # h
  <2>1. y = x
    BY <1>1, <1>3, <1>8
  <2>2. OwnerIn(cl, calls[i]) = OwnerIn(claims, calls[i])
    <3>1. calls[i].claim \in ClaimIds \cup {None}
      BY LiveCall
    <3>2. CASE calls[i].claim = None
      BY <3>2 DEF OwnerIn
    <3>3. CASE calls[i].claim # None
      <4>1. ~(claims[calls[i].claim] # NoOwner /\ claims[calls[i].claim].handler = h)
        BY <1>8, <3>3 DEF HeldBy, Claimed, Owner
      <4>2. cl[calls[i].claim] = claims[calls[i].claim]
        BY <3>1, <3>3, <4>1 DEF ClaimsWithout
      <4> QED BY <3>3, <4>2 DEF OwnerIn
    <3> QED BY <3>2, <3>3
  <2>3. HolderIn(cl, calls[i]) = HolderIn(claims, calls[i])
    BY <2>2 DEF HolderIn
  <2>4. HolderIn(claims, calls[i]) # h
    <3>1. h # None
      BY DEF Handlers, None
    <3> QED BY <1>8, <3>1 DEF HolderIn, OwnerIn, HeldBy, Claimed, Owner
  <2>5. HolderIn(claims, calls[i]) \in handlers => HolderIn(cl, calls[i]) \in ha
    BY <2>3, <2>4
  <2>6. AttendedBy(calls[i], calls[i], slots[i], cl, ha)
    BY <2>5, SameAttended
  <2> QED BY <1>1, <2>1, <2>6 DEF x, y
<1> QED BY <1>6, <1>7, <1>8

\* The drop of a handler.
LEMMA CloseHandlerAttended ==
    ASSUME IInv, SInv, NEW h \in Handlers, CloseHandler(h)
    PROVE  Attended
<1> DEFINE woken == ReturnWakes(h, {calls[i] : i \in {j \in Slots : calls[j] # NoCall /\ Returns(h, calls[j])}})
           cells == [i \in Slots |-> CloseHandlerCell(Cell(i), h)]
           more == ClaimWaiters(woken \cup {h})
<1>1. /\ handlers' = handlers \ {h}
      /\ Apply(cells, more)
      /\ claims' = ClaimsWithout(h)
  BY DEF CloseHandler, ClaimsWithout
<1>2. \A i \in Slots : cells[i] = CloseHandlerCell(Cell(i), h)
  OBVIOUS
<1> HIDE DEF woken, cells, more
<1>3. ASSUME NEW j \in Slots, cells[j].k # NoCall
      PROVE  IF calls[j] = NoCall THEN cells[j].k.claim = None
             ELSE AttendedBy(calls[j], cells[j].k, cells[j].e, claims', handlers')
  <2>1. calls[j] # NoCall
    BY <1>2, <1>3, DroppedCell
  <2> QED BY <1>1, <1>2, <1>3, <2>1, DroppedAttended
<1> QED BY <1>1, <1>3, AppliedAttended

\* The call that is presented was no handler's, and keeps its streams.
LEMMA NextClaimAttended ==
    ASSUME IInv, SInv, NEW h \in Handlers, NEW fits \in BOOLEAN, NextClaim(h, fits)
    PROVE  Attended
<1> DEFINE c == pending[Min(Servable(served[h]))]
           i == SlotOf(c)
           id == IF Mints(i) THEN nextClaim ELSE calls[i].claim
           own == [call |-> c, handler |-> h, taken |-> fits]
           W == WaitingSet(claims, slots, calls)
<1>1. /\ c \in W
      /\ i \in Slots /\ calls[i] # NoCall
      /\ Mints(i) => nextClaim \in ClaimIds
      /\ ~Mints(i) => calls[i].claim \in ClaimIds
  BY PresentedCall DEF NextClaim
<1>2. /\ calls' = [calls EXCEPT ![i].claim = id]
      /\ claims' = [claims EXCEPT ![id] = own]
      /\ UNCHANGED <<slots, handlers>>
  BY DEF NextClaim, handlerVars
<1>3. id \in ClaimIds /\ id # None
  BY <1>1 DEF ClaimIds, None
<1>4. /\ calls \in [Slots -> CallEntry \cup {NoCall}] /\ calls[i] \in CallEntry
      /\ claims \in [ClaimIds -> ClaimOwner \cup {NoOwner}]
      /\ nextClaim \in Nat
  BY <1>1, LiveCall, LoopbackAssumption, SMTT(30) DEF IInv, TypeOK
<1>5. WaitsIn(claims, slots[i], calls[i])
  BY <1>1 DEF WaitingSet
<1> HIDE DEF c, own, W
<1>6. \A j \in Slots : calls[j] # NoCall /\ j # i => calls[j].claim # id
  <2> SUFFICES ASSUME NEW j \in Slots, calls[j] # NoCall, j # i, calls[j].claim = id PROVE FALSE
    OBVIOUS
  <2>1. CASE Mints(i)
    <3>1. calls[j].claim < nextClaim /\ calls[j].claim = nextClaim
      BY <2>1 DEF IInv, Numbered, Live
    <3> QED BY <1>4, <3>1
  <2>2. CASE ~Mints(i)
    BY <1>1, <2>2, ClaimOnce DEF Mints
  <2> QED BY <2>1, <2>2
<1>7. id = calls[i].claim \/ (calls[i].claim = None /\ id = nextClaim)
  BY DEF Mints
<1> HIDE DEF id, i
<1>8. /\ calls'[i] = [calls[i] EXCEPT !.claim = id]
      /\ \A j \in Slots \ {i} : calls'[j] = calls[j]
  BY <1>1, <1>2, <1>4
<1>9. /\ calls'[i].claim = id /\ calls'[i].streams = calls[i].streams
      /\ calls'[i].forgotten = calls[i].forgotten
      /\ calls'[i].parametersReleased = calls[i].parametersReleased
      /\ calls'[i].settledBy = calls[i].settledBy
  BY <1>3, <1>4, <1>8 DEF CallEntry
<1>10. \A n \in ClaimIds \ {id} : claims'[n] = claims[n]
  BY <1>2, <1>3, <1>4
<1>11. HolderIn(claims, calls[i]) \notin handlers
  <2>1. slots[i].state # "Settled" /\ calls[i].settledBy = None
    <3>1. Good(Cell(i), i) /\ Cell(i).e = slots[i] /\ Cell(i).k = calls[i]
      BY <1>1, CellGood
    <3>2. calls[i].settledBy # None => slots[i].state = "Settled"
      BY <1>1, <3>1, GoodOccupied DEF Occupied
    <3> QED BY <1>5, <3>2 DEF WaitsIn
  <2>2. HolderIn(claims, calls[i]) = None
    BY <1>5, <2>1 DEF HolderIn, WaitsIn
  <2> QED BY <2>2, TypesNow DEF IInv, TypeOK, Handlers, None
<1> SUFFICES ASSUME NEW j \in Slots, calls'[j] # NoCall
             PROVE  IF calls[j] = NoCall THEN calls'[j].claim = None
                    ELSE AttendedBy(calls[j], calls'[j], slots'[j], claims', handlers')
  BY DEF Attended
<1>12. CASE j = i
  <2> DEFINE k == calls[i]
             l == calls'[i]
  <2>1. \A s \in StreamNos : Stream(l, s) = Stream(k, s)
    BY <1>9 DEF Stream
  <2>2. \A side, s : s \in StreamNos => StillWaits(k, l, side, s)
    BY <1>9, <2>1 DEF StillWaits
  <2>3. AttendedBy(k, l, slots'[i], claims', handlers')
    BY <1>7, <1>9, <1>11, <2>2 DEF AttendedBy
  <2> QED BY <1>1, <1>12, <2>3
<1>13. CASE j # i
  <2>1. calls'[j] = calls[j] /\ calls[j] # NoCall
    BY <1>8, <1>13
  <2>2. OwnerIn(claims', calls[j]) = OwnerIn(claims, calls[j])
    <3>1. calls[j].claim \in ClaimIds \cup {None} /\ calls[j].claim # id
      BY <1>6, <1>13, <2>1, LiveCall
    <3> QED BY <1>10, <3>1 DEF OwnerIn
  <2>3. HolderIn(claims, calls[j]) \in handlers => HolderIn(claims', calls[j]) \in handlers'
    BY <1>2, <2>2 DEF HolderIn
  <2>4. AttendedBy(calls[j], calls[j], slots'[j], claims', handlers')
    BY <2>3, SameAttended
  <2> QED BY <2>1, <2>4
<1> QED BY <1>12, <1>13

\* Each operation on calls leaves whoever waits for a stream waiting.
LEMMA CallsNextAttended == IInv /\ SInv /\ Next => Attended
<1> SUFFICES ASSUME IInv, SInv, Next PROVE Attended
  OBVIOUS
<1>0. {"Ok", "Err"} \subseteq Outcomes
  BY LoopbackAssumption
<1>1. CASE OpenCaller \/ OpenHandler \/ FailNextSettle
  BY <1>1, QuietAttended DEF OpenCaller, OpenHandler, FailNextSettle, handlerVars, callerVars
<1>2. ASSUME NEW caller \in Callers,
             \/ \E kind \in Kinds, member \in Members : Send(caller, kind, member)
             \/ CloseCaller(caller)
      PROVE  Attended
  BY <1>2, SendAttended, CloseCallerAttended
<1>3. ASSUME NEW caller \in Callers, NEW task \in Wakers, WaitSlot(caller, task)
      PROVE  Attended
  BY <1>3, QuietAttended DEF WaitSlot, handlerVars
<1>4. ASSUME NEW c \in Correlations, Forget(c)
      PROVE  Attended
  BY <1>4, ForgetOpAttended
<1>5. ASSUME NEW c \in Correlations, NEW task \in Wakers, WaitOutcome(c, task)
      PROVE  Attended
  BY <1>5, QuietAttended DEF WaitOutcome, handlerVars
<1>6. ASSUME NEW h \in Handlers, NEW member \in Members, Serve(h, member)
      PROVE  Attended
  BY <1>6, QuietAttended DEF Serve
<1>7. ASSUME NEW h \in Handlers,
             (\E fits \in BOOLEAN : NextClaim(h, fits)) \/ CloseHandler(h)
      PROVE  Attended
  BY <1>7, NextClaimAttended, CloseHandlerAttended
<1>8. ASSUME NEW h \in Handlers, NEW id \in ClaimIds, NEW outcome \in {"Ok", "Err"},
             Settle(h, id, outcome)
      PROVE  Attended
  <2>1. SettleClaim(h, id, outcome) /\ UNCHANGED handlers
    BY <1>8 DEF Settle, SettleClaim, handlerVars
  <2> QED BY <1>0, <2>1, SettleAttended
<1>9. ASSUME NEW h \in Handlers, NEW id \in ClaimIds, SettleFails(h, id)
      PROVE  Attended
  BY <1>9, QuietAttended DEF SettleFails, handlerVars
<1>10. ASSUME NEW h \in Handlers, NEW task \in Wakers, WaitClaim(h, task)
      PROVE  Attended
  BY <1>10, QuietAttended DEF WaitClaim, handlerVars
<1> QED
  BY <1>1, <1>2, <1>3, <1>4, <1>5, <1>6, <1>7, <1>8, <1>9, <1>10 DEF Next

\* A pull.
LEMMA PullAttended ==
    ASSUME IInv, SInv, NEW side \in Sides, NEW i \in Slots, NEW s \in StreamNos, Pull(side, i, s)
    PROVE  Attended
<1> DEFINE x == Cell(i)
           y == PullCell(x, side, s)
<1>1. calls[i] # NoCall /\ Producer(s) # side
  BY MayTook DEF Pull
<1>2. Good(x, i) /\ x.k # NoCall /\ SoundCall(x.e, x.k)
  BY <1>1, SoundNow
<1>3. ApplyTo(i, y) /\ UNCHANGED streamRest
  BY DEF Pull
<1> HIDE DEF x
<1>4. Shaped(x.k)
  BY <1>2 DEF SoundCall, SoundBut
<1>5. Steered(x, y, side) /\ Attends(x, y)
  BY <1>1, <1>2, <1>4, PullCellSteered, PullCellAttends
<1> HIDE DEF y
<1> QED BY <1>1, <1>3, <1>5, RestOfStreams, OneAttended DEF x

\* A push.
LEMMA PushAttended ==
    ASSUME IInv, SInv, NEW side \in Sides, NEW i \in Slots, NEW s \in StreamNos,
           NEW chunk \in {"bytes", "empty"}, Push(side, i, s, chunk)
    PROVE  Attended
<1> DEFINE x == Cell(i)
           y == PushCell(x, side, s, chunk)
<1>1. calls[i] # NoCall /\ Producer(s) = side
  BY MayTook DEF Push
<1>2. Good(x, i) /\ x.k # NoCall /\ SoundCall(x.e, x.k)
  BY <1>1, SoundNow
<1>3. ApplyTo(i, y) /\ UNCHANGED streamRest
  BY DEF Push
<1> HIDE DEF x
<1>4. Shaped(x.k)
  BY <1>2 DEF SoundCall, SoundBut
<1>5. Steered(x, y, side) /\ Attends(x, y)
  BY <1>1, <1>2, <1>4, PushCellSteered, PushCellAttends
<1> HIDE DEF y
<1> QED BY <1>1, <1>3, <1>5, RestOfStreams, OneAttended DEF x

\* The end of a stream.
LEMMA EndAttended ==
    ASSUME IInv, SInv, NEW i \in Slots, NEW s \in StreamNos, NEW side \in Sides,
           calls[i] # NoCall, Producer(s) = side,
           side = "Provider" => slots[i].state = "Settled",
           ApplyTo(i, EndCell(Cell(i), side, s)), UNCHANGED streamRest
    PROVE  Attended
<1> DEFINE x == Cell(i)
           y == EndCell(x, side, s)
<1>1. /\ Good(x, i) /\ x.k # NoCall /\ SoundCall(x.e, x.k)
      /\ side = "Provider" => x.e.state = "Settled"
  BY SoundNow
<1>2. ApplyTo(i, y)
  OBVIOUS
<1> HIDE DEF x
<1>3. Shaped(x.k)
  BY <1>1 DEF SoundCall, SoundBut
<1>4. Steered(x, y, side) /\ Attends(x, y)
  BY <1>1, <1>3, EndCellSteered, EndCellAttends
<1> HIDE DEF y
<1> QED BY <1>2, <1>4, RestOfStreams, OneAttended DEF x

\* The abort of a stream.
LEMMA AbortAttended ==
    ASSUME IInv, SInv, NEW i \in Slots, NEW s \in StreamNos, NEW side \in Sides,
           calls[i] # NoCall, ApplyTo(i, AbortCell(Cell(i), side, s)), UNCHANGED streamRest
    PROVE  Attended
<1> DEFINE x == Cell(i)
           y == AbortCell(x, side, s)
<1>1. Good(x, i) /\ x.k # NoCall /\ SoundCall(x.e, x.k)
  BY SoundNow
<1>2. ApplyTo(i, y)
  OBVIOUS
<1> HIDE DEF x
<1>3. Shaped(x.k)
  BY <1>1 DEF SoundCall, SoundBut
<1>4. Steered(x, y, side) /\ Attends(x, y)
  BY <1>1, <1>3, AbortCellSteered, AbortCellAttends
<1> HIDE DEF y
<1> QED BY <1>2, <1>4, RestOfStreams, OneAttended DEF x

\* Either of them by the caller.
LEMMA CallerEndAttended ==
    ASSUME IInv, SInv, NEW i \in Slots, NEW s \in StreamNos, CallerEnd(i, s) \/ CallerAbort(i, s)
    PROVE  Attended
<1>1. calls[i] # NoCall
  BY DEF CallerEnd, CallerAbort, CallerMay
<1>2. \/ /\ Producer(s) = "Caller"
         /\ ApplyTo(i, EndCell(Cell(i), "Caller", s)) /\ UNCHANGED streamRest
      \/ ApplyTo(i, AbortCell(Cell(i), "Caller", s)) /\ UNCHANGED streamRest
  BY DEF CallerEnd, CallerAbort
<1>3. "Caller" \in Sides
  BY DEF Sides
<1> QED BY <1>1, <1>2, <1>3, EndAttended, AbortAttended

\* Either of them by the handler, a settlement when the stream is the reply.
LEMMA EndClaimAttended ==
    ASSUME IInv, SInv, NEW h \in Handlers, NEW i \in Slots, NEW s \in StreamNos,
           EndClaim(h, i, s) \/ AbortClaim(h, i, s)
    PROVE  Attended
<1>1. /\ calls[i] # NoCall
      /\ ~Claimed(calls[i]) => slots[i].state = "Settled"
  BY HolderTook DEF EndClaim, AbortClaim
<1>2. {"Ok", "Err"} \subseteq Outcomes /\ "Provider" \in Sides
  BY LoopbackAssumption DEF Sides
<1>3. CASE s = ReplyStream /\ Claimed(calls[i])
  <2>1. calls[i].claim \in ClaimIds
    BY <1>1, <1>3, OwnedCall DEF Claimed
  <2>2. EndOutcome(calls[i]) \in {"Ok", "Err"}
    BY DEF EndOutcome
  <2>3. PICK outcome \in {"Ok", "Err"} : SettleClaim(h, calls[i].claim, outcome)
    BY <1>3, <2>2 DEF EndClaim, AbortClaim
  <2>4. UNCHANGED handlers
    BY <2>3 DEF SettleClaim, handlerVars
  <2> QED BY <1>2, <2>1, <2>3, <2>4, SettleAttended
<1>4. CASE ~(s = ReplyStream /\ Claimed(calls[i]))
  <2>1. \/ /\ Producer(s) = "Provider"
           /\ ApplyTo(i, EndCell(Cell(i), "Provider", s)) /\ UNCHANGED streamRest
        \/ ApplyTo(i, AbortCell(Cell(i), "Provider", s)) /\ UNCHANGED streamRest
    BY <1>4 DEF EndClaim, AbortClaim
  <2>2. Producer(s) = "Provider" => s = ReplyStream
    BY DEF Producer
  <2>3. Producer(s) = "Provider" => slots[i].state = "Settled"
    BY <1>1, <1>4, <2>2
  <2> QED BY <1>1, <1>2, <2>1, <2>3, EndAttended, AbortAttended
<1> QED BY <1>3, <1>4

\* The failure that is injected names the reply stream.
LEMMA EndClaimFailsAttended ==
    ASSUME IInv, SInv, NEW h \in Handlers, NEW i \in Slots, EndClaimFails(h, i)
    PROVE  Attended
<1> DEFINE x == Cell(i)
           y == WithStream(x, ReplyStream, Stream(x.k, ReplyStream))
           side == "Caller"
<1>1. calls[i] # NoCall
  BY DEF EndClaimFails, HandlerMay
<1>2. Good(x, i) /\ x.k # NoCall /\ SoundCall(x.e, x.k) /\ x.k = calls[i]
  BY <1>1, SoundNow
<1>3. ApplyTo(i, y) /\ UNCHANGED <<claims, handlers>>
  BY <1>2 DEF EndClaimFails, handlerVars
<1>4. ReplyStream \in StreamNos
  BY LoopbackAssumption DEF ReplyStream
<1> HIDE DEF x
<1>5. Shaped(x.k)
  BY <1>2 DEF SoundCall, SoundBut
<1>6. Steered(x, y, side) /\ Attends(x, y)
  BY <1>2, <1>4, <1>5, NamedSteered, NamedAttends
<1> HIDE DEF y, side
<1> QED BY <1>1, <1>3, <1>6, OneAttended DEF x

\* A provider that waits changes nothing but its waker.
LEMMA WaitClaimStreamAttended ==
    ASSUME IInv, SInv, NEW h \in Handlers, NEW i \in Slots, NEW s \in StreamNos,
           NEW task \in Wakers, WaitClaimStream(h, i, s, task)
    PROVE  Attended
<1> DEFINE k == calls[i]
           st == Stream(k, s)
           t == IF Finished(st) THEN st ELSE [st EXCEPT !.waker = task]
           f == [k.streams EXCEPT ![s] = t]
           l == [k EXCEPT !.streams = f]
<1>1. /\ k # NoCall
      /\ calls' = [calls EXCEPT ![i].streams[s] = t]
      /\ UNCHANGED <<slots, claims, handlers>>
  BY DEF WaitClaimStream, HandlerMay, streamRest, handlerVars
<1>2. k \in CallEntry /\ SoundCall(slots[i], k)
  BY <1>1, LiveCall, SoundNow
<1>3. st \in StreamType /\ st.named
  BY <1>2, StreamAnswered DEF SoundCall, SoundBut
<1>4. calls' = [calls EXCEPT ![i] = l]
  BY <1>1
<1>5. /\ t.named /\ t.chunks = st.chunks /\ t.ended = st.ended /\ t.stopped = st.stopped
  <2> HIDE DEF st
  <2> QED BY <1>3 DEF StreamType
<1> HIDE DEF t, st
<1>6. /\ l.streams = f
      /\ l.forgotten = k.forgotten /\ l.parametersReleased = k.parametersReleased
      /\ l.settledBy = k.settledBy /\ l.claim = k.claim
  BY <1>2 DEF CallEntry
<1>7. calls'[i] = l /\ \A j \in Slots \ {i} : calls'[j] = calls[j]
  BY <1>4, TypesNow
<1>8. LeftAs(k, l, s, t)
  BY <1>6 DEF LeftAs
<1> HIDE DEF l, f, k
<1>9. /\ l.streams[s] = t /\ Stream(l, s) = t
      /\ \A q \in StreamNos \ {s} : l.streams[q] = k.streams[q] /\ Stream(l, q) = Stream(k, q)
  BY <1>2, <1>5, <1>8, OtherStreamsLeft
<1>10. \A side, q : q \in StreamNos => StillWaits(k, l, side, q)
  <2> SUFFICES ASSUME NEW side, NEW q \in StreamNos PROVE StillWaits(k, l, side, q)
    OBVIOUS
  <2>1. CASE q = s
    <3>1. Waits(st, side, s) <=> Waits(t, side, s)
      BY <1>5, WaitsAlike
    <3> QED BY <1>6, <1>9, <2>1, <3>1 DEF StillWaits, st
  <2>2. CASE q # s
    BY <1>6, <1>9, <2>2 DEF StillWaits
  <2> QED BY <2>1, <2>2
<1>11. HolderIn(claims, k) \in handlers => HolderIn(claims, l) \in handlers
  BY <1>6, HolderSame
<1>12. AttendedBy(k, l, slots[i], claims, handlers)
  BY <1>6, <1>10, <1>11 DEF AttendedBy
<1> SUFFICES ASSUME NEW j \in Slots, calls'[j] # NoCall
             PROVE  IF calls[j] = NoCall THEN calls'[j].claim = None
                    ELSE AttendedBy(calls[j], calls'[j], slots[j], claims, handlers)
  BY <1>1 DEF Attended
<1>13. CASE j = i
  BY <1>1, <1>7, <1>12, <1>13 DEF k
<1>14. CASE j # i
  <2>1. AttendedBy(calls[j], calls[j], slots[j], claims, handlers)
    BY SameAttended
  <2> QED BY <1>7, <1>14, <2>1
<1> QED BY <1>13, <1>14

\* So does each operation on streams.
LEMMA StreamsNextAttended == IInv /\ SInv /\ NextStream => Attended
<1> SUFFICES ASSUME IInv, SInv, NextStream PROVE Attended
  OBVIOUS
<1>1. ASSUME NEW side \in Sides, NEW i \in Slots, NEW s \in StreamNos,
             Pull(side, i, s) \/ \E chunk \in {"bytes", "empty"} : Push(side, i, s, chunk)
      PROVE  Attended
  BY <1>1, PullAttended, PushAttended
<1>2. ASSUME NEW i \in Slots, NEW s \in StreamNos, CallerEnd(i, s) \/ CallerAbort(i, s)
      PROVE  Attended
  BY <1>2, CallerEndAttended
<1>3. ASSUME NEW i \in Slots, NEW s \in StreamNos, NEW h \in Handlers,
             \/ EndClaim(h, i, s) \/ AbortClaim(h, i, s)
             \/ \E task \in Wakers : WaitClaimStream(h, i, s, task)
      PROVE  Attended
  BY <1>3, EndClaimAttended, WaitClaimStreamAttended
<1>4. ASSUME NEW h \in Handlers, NEW i \in Slots, EndClaimFails(h, i)
      PROVE  Attended
  BY <1>4, EndClaimFailsAttended
<1>5. ASSUME NEW c \in Correlations, NEW s \in StreamNos, NEW task \in Wakers,
             WaitStream(c, s, task)
      PROVE  Attended
  BY <1>5, QuietAttended DEF WaitStream, streamRest, handlerVars
<1> QED BY <1>1, <1>2, <1>3, <1>4, <1>5 DEF NextStream

\* A task asleep on a stream is registered on the call it waits for.
StreamSlept ==
    \A r \in asleep : r[1] \in {"Stream", "ClaimStream"} =>
        /\ r[3] \in StreamNos /\ r[4] \in Wakers
        /\ \E j \in Slots :
              /\ calls[j] # NoCall
              /\ r[1] = "Stream" => /\ calls[j].correlation = r[2] /\ SlotOf(r[2]) = j
                                    /\ slots[j].streams[r[3]] = r[4]
              /\ r[1] = "ClaimStream" => /\ calls[j].claim = r[2] /\ r[2] # None
                                         /\ calls[j].streams[r[3]].waker = r[4]

\* As Sleeping has it.
LEMMA StreamSleeps == IInv /\ SInv => StreamSlept
<1> SUFFICES ASSUME IInv, SInv, NEW r \in asleep, r[1] \in {"Stream", "ClaimStream"}
             PROVE  /\ r[3] \in StreamNos /\ r[4] \in Wakers
                    /\ \E j \in Slots :
                          /\ calls[j] # NoCall
                          /\ r[1] = "Stream" => /\ calls[j].correlation = r[2] /\ SlotOf(r[2]) = j
                                                /\ slots[j].streams[r[3]] = r[4]
                          /\ r[1] = "ClaimStream" => /\ calls[j].claim = r[2] /\ r[2] # None
                                                     /\ calls[j].streams[r[3]].waker = r[4]
  BY DEF StreamSlept
<1>1. r \in Registrations /\ SleepsOn(r)
  BY TypesNow DEF SInv, Sleeping
<1>2. PICK j \in Slots : StoredIn(slots[j], calls[j], r)
  BY <1>1 DEF SleepsOn
<1>3. r[4] \in Wakers
  BY <1>1, RegistrationParts
<1>4. calls[j] # NoCall
  BY <1>2 DEF StoredIn
<1>5. SlotOf(calls[j].correlation) = j
  BY <1>4, LiveCall
<1>6. CASE r[1] = "Stream"
  BY <1>2, <1>3, <1>4, <1>5, <1>6 DEF StoredIn
<1>7. CASE r[1] = "ClaimStream"
  BY <1>2, <1>3, <1>4, <1>7 DEF StoredIn
<1> QED BY <1>6, <1>7

\* And after the step.
LEMMA StreamSleepsNext == IInv' /\ SInv' => StreamSlept'
  BY StreamSleeps, PTL

\* StreamUnchanged of the calls cs, the claims cl and the handlers ha.
UnchangedIn(cs, cl, ha, r) ==
    \E i \in Slots :
        /\ cs[i] # NoCall /\ ~cs[i].forgotten
        /\ \/ r[1] = "Stream" /\ cs[i].correlation = r[2]
           \/ r[1] = "ClaimStream" /\ cs[i].claim = r[2] /\ HolderIn(cl, cs[i]) \in ha
        /\ Waits(Stream(cs[i], r[3]), WaiterSide(r), r[3])
UnchangedAgrees == \A r : UnchangedIn(calls, claims, handlers, r) => StreamUnchanged(r)

\* The handler of a call, in the state.
LEMMA HolderAgrees ==
    ASSUME NEW k
    PROVE  Holder(k) = HolderIn(claims, k)
  BY DEF Holder, HolderIn, Claimed, Owner, OwnerIn

\* They say the same.
LEMMA UnchangedIs == UnchangedAgrees
<1> SUFFICES ASSUME NEW r, NEW i \in Slots, calls[i] # NoCall, ~calls[i].forgotten,
                    \/ r[1] = "Stream" /\ calls[i].correlation = r[2]
                    \/ /\ r[1] = "ClaimStream" /\ calls[i].claim = r[2]
                       /\ HolderIn(claims, calls[i]) \in handlers,
                    Waits(Stream(calls[i], r[3]), WaiterSide(r), r[3])
             PROVE  StreamUnchanged(r)
  BY DEF UnchangedAgrees, UnchangedIn
<1>1. i \in StreamCall(r)
  BY HolderAgrees DEF StreamCall
<1> QED BY <1>1 DEF StreamUnchanged, Waits

\* And after the step.
LEMMA UnchangedIsNext == UnchangedAgrees'
  BY UnchangedIs, PTL

\* A task that waits for a stream, and is still asleep on it after a step that
\* leaves every waiter waiting, finds the stream as it was.
LEMMA StaysWaiting ==
    ASSUME IInv, SInv, IInv', SInv', Attended,
           NEW r \in asleep, r \in asleep', StreamBlocked(r)
    PROVE  UnchangedIn(calls', claims', handlers', r)
<1>1. PICK i \in Slots :
         /\ calls[i] # NoCall /\ ~calls[i].forgotten
         /\ \/ r[1] = "Stream" /\ calls[i].correlation = r[2]
            \/ /\ r[1] = "ClaimStream" /\ calls[i].claim = r[2]
               /\ HolderIn(claims, calls[i]) \in handlers
         /\ Idle(Stream(calls[i], r[3]), WaiterSide(r), r[3])
  BY HolderAgrees DEF StreamBlocked, StreamCall
<1>2. StreamSlept'
  BY StreamSleepsNext
<1>3. r[3] \in StreamNos /\ r[4] \in Wakers
  BY <1>1, <1>2 DEF StreamSlept
<1>4. PICK j \in Slots :
         /\ calls'[j] # NoCall
         /\ r[1] = "Stream" => /\ calls'[j].correlation = r[2] /\ SlotOf(r[2]) = j
                               /\ slots'[j].streams[r[3]] = r[4]
         /\ r[1] = "ClaimStream" => /\ calls'[j].claim = r[2] /\ r[2] # None
                                    /\ calls'[j].streams[r[3]].waker = r[4]
  BY <1>1, <1>2 DEF StreamSlept
<1>5. Waits(Stream(calls[i], r[3]), WaiterSide(r), r[3])
  BY <1>1 DEF Waits
<1>6. CASE r[1] = "Stream"
  <2>1. i = j
    BY <1>1, <1>4, <1>6, LiveCall
  <2>2. AttendedBy(calls[i], calls'[i], slots'[i], claims', handlers')
    BY <1>1, <1>4, <2>1 DEF Attended
  <2>3. StillWaits(calls[i], calls'[i], "Caller", r[3])
    BY <1>3, <1>4, <1>6, <2>1, <2>2 DEF AttendedBy
  <2>4. WaiterSide(r) = "Caller"
    BY <1>6 DEF WaiterSide
  <2>5. ~calls'[i].forgotten /\ Waits(Stream(calls'[i], r[3]), WaiterSide(r), r[3])
    BY <1>1, <1>5, <2>3, <2>4 DEF StillWaits
  <2> QED BY <1>4, <1>6, <2>1, <2>5 DEF UnchangedIn
<1>7. CASE r[1] = "ClaimStream"
  <2>1. calls[j] # NoCall
    BY <1>4, <1>7 DEF Attended
  <2>2. AttendedBy(calls[j], calls'[j], slots'[j], claims', handlers')
    BY <1>4, <2>1 DEF Attended
  <2>3. calls[i].claim < nextClaim /\ calls[i].claim \in Nat /\ nextClaim \in Nat
    <3>1. calls[i].claim \in ClaimIds \cup {None}
      BY <1>1, LiveCall
    <3>2. calls[i].claim \in Nat
      BY <3>1 DEF ClaimIds, None
    <3>3. calls[i].claim < nextClaim
      BY <1>1 DEF IInv, Numbered, Live
    <3>4. nextClaim \in Nat
      BY LoopbackAssumption DEF IInv, TypeOK
    <3> QED BY <3>2, <3>3, <3>4
  <2>4. calls[j].claim = r[2]
    <3>1. calls[j].claim = r[2] \/ nextClaim = r[2]
      BY <1>4, <1>7, <2>2 DEF AttendedBy
    <3> QED BY <1>1, <1>7, <2>3, <3>1
  <2>5. i = j
    BY <1>1, <1>4, <1>7, <2>1, <2>4, ClaimOnce
  <2>6. /\ StillWaits(calls[i], calls'[i], "Provider", r[3])
        /\ HolderIn(claims, calls[i]) \in handlers => HolderIn(claims', calls'[i]) \in handlers'
    BY <1>3, <1>4, <1>7, <2>2, <2>5 DEF AttendedBy
  <2>7. WaiterSide(r) = "Provider"
    BY <1>7 DEF WaiterSide
  <2>8. ~calls'[i].forgotten /\ Waits(Stream(calls'[i], r[3]), WaiterSide(r), r[3])
    BY <1>1, <1>5, <2>6, <2>7 DEF StillWaits
  <2> QED BY <1>1, <1>4, <1>7, <2>5, <2>6, <2>8 DEF UnchangedIn
<1> QED BY <1>1, <1>6, <1>7

\* A change a task waits for on a stream wakes it: no chunk, window, end, abort,
\* settlement or drop leaves the stream's waiter asleep.
THEOREM LoopbackWakesStreamsOnChange == StreamsSpec => StreamWakeOnChange
<1>1. Init => IInv /\ SInv
  BY InitInv, InitSound
<1>2. IInv /\ SInv /\ [StreamsNext]_vars => (IInv /\ SInv)'
  BY CallsNextInv, CallsNextSound, StreamsNextInv, StreamsNextSound, StutterInv, StutterSound
     DEF StreamsNext
<1> DEFINE Wakes == \A r \in asleep : StreamBlocked(r) /\ ~StreamUnchanged(r)' => r \notin asleep'
<1>3. IInv /\ SInv /\ [StreamsNext]_vars => [Wakes]_vars
  <2> SUFFICES ASSUME IInv, SInv, StreamsNext PROVE Wakes
    OBVIOUS
  <2>1. IInv' /\ SInv'
    BY CallsNextInv, CallsNextSound, StreamsNextInv, StreamsNextSound DEF StreamsNext
  <2>2. Attended
    BY CallsNextAttended, StreamsNextAttended DEF StreamsNext
  <2>3. ASSUME NEW r \in asleep, StreamBlocked(r), r \in asleep' PROVE StreamUnchanged(r)'
    <3>1. UnchangedIn(calls', claims', handlers', r)
      BY <2>1, <2>2, <2>3, StaysWaiting
    <3> QED BY <3>1, UnchangedIsNext DEF UnchangedAgrees
  <2> QED BY <2>3
<1>4. IInv /\ SInv /\ [][Wakes]_vars => StreamWakeOnChange
  BY DEF StreamWakeOnChange
<1> HIDE DEF Wakes
<1> QED BY <1>1, <1>2, <1>3, <1>4, PTL DEF StreamsSpec
==============================================================================
