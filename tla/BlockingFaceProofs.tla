--------------------------- MODULE BlockingFaceProofs ---------------------------
(***************************************************************************)
(* Theorems about the threads of the blocking face, on the invariants of   *)
(* LoopbackCallsProofs and LoopbackPortProofs.                             *)
(*                                                                         *)
(* Sound collects what is known of the store.  Every step of a thread is   *)
(* an operation of the store, or leaves it alone (ThreadsUseStore), so     *)
(* Sound holds of every run of the face.  FInv adds the threads: a client  *)
(* has a correlation exactly from its send until it returns (Phases), and  *)
(* a thread that has registered is asleep in the store, or its wake is on  *)
(* the way (ClientsAlert, ServerAlert).  The last is what a thread that    *)
(* parks relies on: a park that does not return at once is over a waker    *)
(* the store still holds, and what the store holds has nothing to go on    *)
(* with.  Tracked says that a client waits for each call of its that is    *)
(* not forgotten, so that an idle one has left none behind.                *)
(***************************************************************************)
EXTENDS BlockingFace, LoopbackPortProofs

-----------------------------------------------------------------------------
(***************************************************************************)
(* The store under the face.                                               *)
(***************************************************************************)
\* A call that was settled was presented to a handler: the one settlement
\* without a claim, a withdrawal, takes the call along.
SettledClaimed ==
    \A i \in Slots : calls[i] # NoCall /\ slots[i].state = "Settled" => calls[i].claim # None

\* All that is known of the store.
Sound == IInv /\ SInv /\ RInv /\ Calm /\ SettledClaimed

\* The first state.
LEMMA InitStore == Init => Sound
<1> SUFFICES ASSUME Init PROVE Sound
  OBVIOUS
<1>1. IInv /\ SInv /\ RInv
  BY InitInv, InitSound, InitShows
<1>2. Calm /\ SettledClaimed
  BY DEF Init, Calm, CalmSlots, CalmClaims, CalmOutcomes, SettledClaimed
<1> QED BY <1>1, <1>2 DEF Sound

\* A step of the store, or of neither of its threads.
StoreMoved ==
    /\ Followed
    /\ Shows \/ (calls' = calls /\ slots' = slots /\ nextSent' = nextSent)

\* Every step is one of these.
LEMMA StepCarried == IInv /\ [Next]_vars => IInv' /\ StoreMoved
<1> SUFFICES ASSUME IInv, [Next]_vars PROVE IInv' /\ StoreMoved
  OBVIOUS
<1>1. CASE Next
  <2>1. IInv' /\ Followed
    BY <1>1, CallsNextInv
  <2>2. Shows
    BY <1>1, <2>1, CallsNextShows
  <2> QED BY <2>1, <2>2 DEF StoreMoved
<1>2. CASE UNCHANGED vars
  <2>1. IInv' /\ Followed
    BY <1>2, StutterInv
  <2> QED BY <1>2, <2>1 DEF StoreMoved, vars
<1> QED BY <1>1, <1>2

\* Only a send adds a call.
LEMMA NobodyNew ==
    ASSUME IInv, StoreMoved, nextSent' = nextSent, NEW i \in Slots, calls'[i] # NoCall
    PROVE  calls[i] # NoCall
<1>1. nextSent \in Nat
  BY LoopbackAssumption DEF IInv, TypeOK
<1>2. ASSUME NEW j \in Slots, NEW c \in Correlations, SentAs(c, j) PROVE FALSE
  BY <1>1, <1>2 DEF SentAs
<1>3. ASSUME NEW D \in SUBSET Live, LetGoAll(D) PROVE calls[i] # NoCall
  BY <1>3 DEF LetGoAll
<1>4. ASSUME NEW a \in Answerable, ToldAll({a}) PROVE calls[i] # NoCall
  BY <1>4 DEF ToldAll
<1> QED BY <1>2, <1>3, <1>4 DEF StoreMoved, Shows

\* A forgotten call stays forgotten.
LEMMA StaysForgotten ==
    ASSUME StoreMoved, NEW i \in Slots, calls[i] # NoCall, calls[i].forgotten, calls'[i] # NoCall,
           IInv, IInv'
    PROVE  calls'[i].forgotten
<1>0. calls[i].forgotten = TRUE /\ calls'[i].forgotten \in BOOLEAN
  <2>1. calls[i] \in CallEntry
    BY LiveCall
  <2>2. calls' \in [Slots -> CallEntry \cup {NoCall}]
    BY DEF IInv, TypeOK
  <2> QED BY <2>1, <2>2 DEF CallEntry
<1>2. ASSUME NEW j \in Slots, NEW c \in Correlations, SentAs(c, j) PROVE calls'[i].forgotten
  BY <1>2 DEF SentAs
<1>3. ASSUME NEW D \in SUBSET Live, LetGoAll(D) PROVE calls'[i].forgotten
  BY <1>3 DEF LetGoAll
<1>4. ASSUME NEW a \in Answerable, ToldAll({a}) PROVE calls'[i].forgotten
  BY <1>4 DEF ToldAll, Told
<1> QED BY <1>0, <1>2, <1>3, <1>4 DEF StoreMoved, Shows

\* And so it stays.
LEMMA SettledClaimedNext ==
    ASSUME IInv, SettledClaimed, StoreMoved
    PROVE  SettledClaimed'
<1> SUFFICES ASSUME NEW i \in Slots, calls'[i] # NoCall, slots'[i].state = "Settled"
             PROVE  calls'[i].claim # None
  BY DEF SettledClaimed
<1>1. CASE calls[i] # NoCall
  BY <1>1 DEF StoreMoved, Followed, SettledClaimed
<1>2. CASE calls[i] = NoCall
  <2>1. ASSUME NEW j \in Slots, NEW c \in Correlations, SentAs(c, j) PROVE FALSE
    BY <1>2, <2>1 DEF SentAs
  <2>2. ASSUME NEW D \in SUBSET Live, LetGoAll(D) PROVE FALSE
    BY <1>2, <2>2 DEF LetGoAll
  <2>3. ASSUME NEW a \in Answerable, ToldAll({a}) PROVE FALSE
    BY <1>2, <2>3 DEF ToldAll
  <2> QED BY <1>2, <2>1, <2>2, <2>3 DEF StoreMoved, Shows
<1> QED BY <1>1, <1>2

\* A step keeps all of it.
LEMMA StoreStep == Sound /\ [Next]_vars => Sound' /\ StoreMoved
<1> SUFFICES ASSUME Sound, [Next]_vars PROVE Sound' /\ StoreMoved
  OBVIOUS
<1>1. IInv' /\ StoreMoved
  BY StepCarried DEF Sound
<1>2. [StreamsNext]_vars
  BY DEF StreamsNext
<1>3. SInv'
  BY CallsNextSound, StutterSound DEF Sound
<1>4. RInv'
  BY <1>2, PortStep DEF Sound
<1>5. Calm'
  BY <1>2, CalmNext DEF Sound
<1>6. SettledClaimed'
  BY <1>1, SettledClaimedNext DEF Sound
<1> QED BY <1>1, <1>3, <1>4, <1>5, <1>6 DEF Sound

\* A forgotten call that still has its slot is in a handler's hands.
LEMMA ForgottenClaimed ==
    ASSUME Sound, NEW i \in Slots, calls[i] # NoCall, calls[i].forgotten
    PROVE  calls[i].claim # None
<1>1. HeldFor(callers, handlers, claims, calls[i])
  BY SoundNow DEF Sound, SoundIn
<1>2. CASE OwnerIn(claims, calls[i]) # NoOwner
  BY <1>2 DEF OwnerIn
<1>3. CASE calls[i].settledBy # None
  <2>1. slots[i].state = "Settled"
    <3>1. CellOK(slots[i], calls[i], i)
      BY DEF Sound, IInv, CellsOK
    <3> QED BY <1>3, <3>1 DEF CellOK
  <2> QED BY <2>1 DEF Sound, SettledClaimed
<1> QED BY <1>1, <1>2, <1>3 DEF HeldFor

\* A call that is sent takes a slot of its own.
LEMMA SentCall ==
    ASSUME IInv, NEW caller \in Callers, NEW which \in Kinds, NEW member \in Members,
           Send(caller, which, member)
    PROVE  LET i == Min(FreeSlots)
               c == Correlation(slots[i].generation, i)
           IN  /\ i \in Slots /\ calls[i] = NoCall
               /\ c \in Correlations
               /\ calls'[i].correlation = c /\ calls'[i].caller = caller
               /\ \A j \in Slots \ {i} : calls'[j] = calls[j]
<1> DEFINE i == Min(FreeSlots)
           c == Correlation(slots[i].generation, i)
           k == NewCall(c, caller, which, member)
           cell == [Cell(i) EXCEPT !.e = Inserted(@, 0), !.k = NewCall(c, caller, which, member)]
           cells == [j \in Slots |-> IF j = i THEN cell ELSE Cell(j)]
           more == ClaimWaiters({h \in handlers : Serves(h, member)})
<1>1. Apply(cells, more)
  BY DEF Send
<1>2. i \in Slots /\ slots[i].state = "Free"
  <2>1. FreeSlots # {} /\ FreeSlots \in SUBSET Slots /\ FreeSlots \in SUBSET Nat
    <3>1. FreeSlots # {}
      BY DEF Send
    <3>2. FreeSlots \subseteq Slots
      BY DEF FreeSlots
    <3>3. Slots \subseteq Nat
      BY LoopbackAssumption DEF Slots
    <3> QED BY <3>1, <3>2, <3>3
  <2>2. Min(FreeSlots) \in FreeSlots
    BY <2>1, MinIsLeast
  <2> QED BY <2>1, <2>2 DEF FreeSlots
<1> HIDE DEF more, i
<1>3. slots[i].generation \in 0 .. GenSpan - 1 /\ calls[i] = NoCall
  <2>1. CellOK(slots[i], calls[i], i)
    BY <1>2 DEF IInv, CellsOK
  <2> QED BY <1>2, <2>1 DEF CellOK, Entry
<1>4. c \in Correlations
  <2>1. i \in 0 .. SlotSpan - 1
    BY <1>2, LoopbackAssumption, SpanAssumption DEF Slots
  <2> QED BY <1>3, <2>1 DEF Correlations
<1> HIDE DEF c
<1>5. k.correlation = c /\ k.caller = caller
  BY DEF NewCall
<1>6. cell.k = k
  BY DEF Cell
<1> HIDE DEF k, cell
<1>7. calls' = [j \in Slots |-> cells[j].k]
  BY <1>1 DEF Apply
<1>8. calls'[i] = k
  BY <1>2, <1>6, <1>7
<1>9. \A j \in Slots \ {i} : calls'[j] = calls[j]
  BY <1>7, CellFields
<1> QED BY <1>2, <1>3, <1>4, <1>5, <1>8, <1>9 DEF c, i

(***************************************************************************)
(* The threads.                                                            *)
(***************************************************************************)
Places ==
    {"unbound", "idle", "call", "bound", "slot", "send",
     "outcome", "read", "expiry", "forget", "pending", "park"}
FaceTyped ==
    /\ at \in [Callers -> Places]
    /\ kind \in [Callers -> Kinds]
    /\ waiting \in [Callers -> Correlations \cup {NoCorrelation}]
    /\ handler \in Handlers \cup {None}

\* Before its send a call has no correlation, and after it one until it
\* returns.
Unsent == {"unbound", "idle", "call", "bound", "slot", "send"}
Sent == {"outcome", "read", "expiry", "forget"}
Phases ==
    \A c \in Callers :
        /\ at[c] \in Unsent => waiting[c] = NoCorrelation
        /\ at[c] \in Sent => waiting[c] # NoCorrelation

\* What a client's thread registers for in its poll, and where it has; and
\* where the serving thread has.
Watched(c) ==
    IF waiting[c] = NoCorrelation THEN <<"Slot", c, 0, ClientTask[c]>>
    ELSE <<"Outcome", waiting[c], 0, ClientTask[c]>>
Watching == {"send", "read", "expiry", "pending", "park"}
ServerWatching == {"claim", "settle", "pending", "park"}

\* The thread is asleep in the store, or its wake is on the way.
Alert(r) == r \in asleep \/ ~Asleep(r[4])
ClientsAlert == \A c \in Callers : at[c] \in Watching => Alert(Watched(c))
ServerAlert == server \in ServerWatching => Alert(<<"Claim", handler, 0, ServerTask>>)

FInv == FaceTyped /\ Phases /\ ClientsAlert /\ ServerAlert

\* A step loses no wake of a thread.
Wakes(t) ==
    /\ t \in token \cup waking => t \in token' \cup waking'
    /\ \A r \in asleep \ asleep' : r[4] = t => t \in token' \cup waking'

\* Such a step leaves an alert thread asleep, or with its wake on the way.
LEMMA AlertStays ==
    ASSUME NEW r, Alert(r), Wakes(r[4])
    PROVE  r \in asleep' \/ r[4] \in token' \cup waking'
  BY DEF Alert, Asleep, Wakes

\* Or of anybody.
AllWake == \A t : Wakes(t)

\* A step that only puts threads on the wake list loses nobody's wake.
LEMMA HandedOut ==
    ASSUME NEW back, HandsOut(back), token' = token
    PROVE  AllWake
<1>1. waking' = (waking \cup {r[4] : r \in asleep \ asleep'}) \cup back
  BY DEF HandsOut
<1>2. \A r \in asleep \ asleep' : r[4] \in waking'
  BY <1>1
<1> QED BY <1>1, <1>2 DEF Wakes, AllWake

\* Nor does one that wakes nobody.
LEMMA NobodyWoken ==
    ASSUME asleep' = asleep, waking \subseteq waking', token' = token
    PROVE  AllWake
  BY DEF Wakes, AllWake

\* What the thread of client c does to the others.
OthersLeft(c) ==
    /\ \A d \in Callers \ {c} : waiting'[d] = waiting[d] /\ Wakes(ClientTask[d])
    /\ UNCHANGED <<server, handler>> /\ Wakes(ServerTask)

\* A step of client c that is on its way, or whose registration is kept.
LEMMA ClientKeeps ==
    ASSUME FInv, NEW c \in Callers, NEW where \in Places,
           at' = [at EXCEPT ![c] = where], OthersLeft(c),
           kind' \in [Callers -> Kinds],
           waiting' \in [Callers -> Correlations \cup {NoCorrelation}],
           where \in Unsent => waiting'[c] = NoCorrelation,
           where \in Sent => waiting'[c] # NoCorrelation,
           where \in Watching => Alert(Watched(c))'
    PROVE  FInv'
<1>1. /\ at' \in [Callers -> Places] /\ at'[c] = where
      /\ \A d \in Callers \ {c} : at'[d] = at[d]
  BY DEF FInv, FaceTyped
<1>2. FaceTyped'
  BY <1>1 DEF FInv, FaceTyped, OthersLeft
<1>3. Phases'
  BY <1>1 DEF FInv, Phases, OthersLeft
<1>4. ClientsAlert'
  <2> SUFFICES ASSUME NEW d \in Callers, at'[d] \in Watching PROVE Alert(Watched(d))'
    BY DEF ClientsAlert
  <2>1. CASE d = c
    BY <1>1, <2>1
  <2>2. CASE d # c
    <3>1. Alert(Watched(d)) /\ Wakes(ClientTask[d]) /\ waiting'[d] = waiting[d]
      BY <1>1, <2>2 DEF FInv, ClientsAlert, OthersLeft
    <3> DEFINE r == Watched(d)
    <3>2. Watched(d)' = r
      BY <3>1 DEF Watched
    <3>3. r[4] = ClientTask[d]
      BY DEF Watched
    <3> HIDE DEF r
    <3>4. r \in asleep' \/ r[4] \in token' \cup waking'
      <4>1. Alert(r) /\ Wakes(r[4])
        BY <3>1, <3>3 DEF r
      <4> QED BY <4>1, AlertStays
    <3> QED BY <3>2, <3>4 DEF Alert, Asleep
  <2> QED BY <2>1, <2>2
<1>5. ServerAlert'
  <2> DEFINE r == <<"Claim", handler, 0, ServerTask>>
  <2>1. r[4] = ServerTask
    OBVIOUS
  <2>2. server \in ServerWatching => Alert(r)
    BY DEF FInv, ServerAlert
  <2>3. <<"Claim", handler', 0, ServerTask>> = r /\ Wakes(ServerTask) /\ server' = server
    BY DEF OthersLeft
  <2> HIDE DEF r
  <2>4. server \in ServerWatching => r \in asleep' \/ r[4] \in token' \cup waking'
    <3> SUFFICES ASSUME server \in ServerWatching PROVE r \in asleep' \/ r[4] \in token' \cup waking'
      OBVIOUS
    <3>1. Alert(r) /\ Wakes(r[4])
      BY <2>1, <2>2, <2>3
    <3> QED BY <3>1, AlertStays
  <2> QED BY <2>3, <2>4 DEF ServerAlert, Alert, Asleep
<1> QED BY <1>2, <1>3, <1>4, <1>5 DEF FInv

\* A step of client c alone, which wakes nobody and registers for nothing.
LEMMA ClientStrides ==
    ASSUME FInv, NEW c \in Callers, NEW where \in Places, at' = [at EXCEPT ![c] = where],
           asleep' = asleep, kind' \in [Callers -> Kinds],
           UNCHANGED <<waiting, server, handler, waking, token>>,
           where \in Unsent => waiting[c] = NoCorrelation,
           where \in Sent => waiting[c] # NoCorrelation,
           where \in Watching => at[c] \in Watching
    PROVE  FInv'
<1>1. OthersLeft(c)
  BY NobodyWoken DEF OthersLeft, AllWake
<1>2. where \in Watching => Alert(Watched(c))'
  BY DEF FInv, ClientsAlert, Watched, Alert, Asleep
<1>3. waiting' \in [Callers -> Correlations \cup {NoCorrelation}]
  BY DEF FInv, FaceTyped
<1> QED BY <1>1, <1>2, <1>3, ClientKeeps

\* A step of the serving thread.
LEMMA ServerKeeps ==
    ASSUME FInv, UNCHANGED <<at, kind, waiting>>, \A c \in Callers : Wakes(ClientTask[c]),
           handler' \in Handlers \cup {None},
           server' \in ServerWatching => Alert(<<"Claim", handler, 0, ServerTask>>)'
    PROVE  FInv'
<1>1. FaceTyped' /\ Phases' /\ ServerAlert'
  BY DEF FInv, FaceTyped, Phases, ServerAlert
<1>2. ClientsAlert'
  <2> SUFFICES ASSUME NEW d \in Callers, at[d] \in Watching PROVE Alert(Watched(d))'
    BY DEF ClientsAlert
  <2> DEFINE r == Watched(d)
  <2>1. Watched(d)' = r
    BY DEF Watched
  <2>2. r[4] = ClientTask[d]
    BY DEF Watched
  <2>3. Alert(r) /\ Wakes(r[4])
    BY <2>2 DEF FInv, ClientsAlert
  <2> HIDE DEF r
  <2>4. r \in asleep' \/ r[4] \in token' \cup waking'
    BY <2>3, AlertStays
  <2> QED BY <2>1, <2>4 DEF Alert, Asleep
<1> QED BY <1>1, <1>2 DEF FInv

\* One that registers for nothing and keeps its handle.
LEMMA ServerStrides ==
    ASSUME FInv, UNCHANGED <<at, kind, waiting, handler>>, AllWake,
           server' \in ServerWatching => server \in ServerWatching
    PROVE  FInv'
<1> DEFINE r == <<"Claim", handler, 0, ServerTask>>
<1>1. r[4] = ServerTask /\ <<"Claim", handler', 0, ServerTask>> = r
  OBVIOUS
<1>2. ASSUME server \in ServerWatching
      PROVE  Alert(<<"Claim", handler, 0, ServerTask>>)'
  <2>1. Alert(r) /\ Wakes(r[4])
    BY <1>2 DEF FInv, ServerAlert, AllWake
  <2> HIDE DEF r
  <2>2. r \in asleep' \/ r[4] \in token' \cup waking'
    BY <2>1, AlertStays
  <2> QED BY <1>1, <2>2 DEF Alert, Asleep
<1>3. handler' \in Handlers \cup {None} /\ \A c \in Callers : Wakes(ClientTask[c])
  BY DEF FInv, FaceTyped, AllWake
<1> HIDE DEF r
<1> QED BY <1>2, <1>3, ServerKeeps

(***************************************************************************)
(* The steps of the threads.                                               *)
(***************************************************************************)
\* A client's steps that register for nothing.
LEMMA StridesInv ==
    ASSUME FInv, NEW c \in Callers,
           \/ Bind(c)
           \/ \E k \in Kinds, max, timeout \in Limits[c] : Call(c, k, max, timeout)
           \/ SendRefused(c) \/ CheckBound(c) \/ ReadOutcome(c) \/ CheckExpiry(c)
           \/ PollPending(c) \/ ParkEnds(c)
    PROVE  FInv'
<1>0. FaceTyped /\ (at[c] \in Unsent => waiting[c] = NoCorrelation)
        /\ (at[c] \in Sent => waiting[c] # NoCorrelation)
  BY DEF FInv, Phases
<1>1. CASE Bind(c)
  <2>1. at' = [at EXCEPT ![c] = "idle"] /\ asleep' = asleep /\ at[c] = "unbound"
        /\ UNCHANGED <<kind, waiting, server, handler, waking, token>>
    BY <1>1 DEF Bind, OpenCaller, Goes, serverVars
  <2> QED BY <1>0, <2>1, ClientStrides DEF Unsent, Sent, Watching, Places, FaceTyped
<1>2. ASSUME NEW k \in Kinds, NEW max, NEW timeout, Call(c, k, max, timeout) PROVE FInv'
  <2>1. at' = [at EXCEPT ![c] = "call"] /\ asleep' = asleep /\ at[c] = "idle"
        /\ kind' = [kind EXCEPT ![c] = k]
        /\ UNCHANGED <<waiting, server, handler, waking, token>>
    BY <1>2 DEF Call, vars, serverVars
  <2> QED BY <1>0, <2>1, ClientStrides DEF Unsent, Sent, Watching, Places, FaceTyped
<1> DEFINE Strides(where) ==
             /\ at' = [at EXCEPT ![c] = where] /\ asleep' = asleep
             /\ UNCHANGED <<kind, waiting, server, handler, waking, token>>
<1>3. CASE SendRefused(c)
  <2>1. Strides("idle") /\ at[c] \in {"call", "send"}
    BY <1>3 DEF SendRefused, Goes, vars, serverVars
  <2> QED BY <1>0, <2>1, ClientStrides DEF Unsent, Sent, Watching, Places, FaceTyped
<1>4. CASE CheckBound(c)
  <2>1. (Strides("idle") \/ Strides("slot")) /\ at[c] = "bound"
    BY <1>4 DEF CheckBound, Goes, vars, serverVars
  <2> QED BY <1>0, <2>1, ClientStrides DEF Unsent, Sent, Watching, Places, FaceTyped
<1>5. CASE ReadOutcome(c)
  <2>1. (Strides("forget") \/ Strides("expiry")) /\ at[c] = "read"
    BY <1>5 DEF ReadOutcome, Goes, vars, serverVars
  <2> QED BY <1>0, <2>1, ClientStrides DEF Unsent, Sent, Watching, Places, FaceTyped
<1>6. CASE CheckExpiry(c)
  <2>1. (Strides("forget") \/ Strides("pending")) /\ at[c] = "expiry"
    BY <1>6 DEF CheckExpiry, Goes, vars, serverVars
  <2> QED BY <1>0, <2>1, ClientStrides DEF Unsent, Sent, Watching, Places, FaceTyped
<1>7. CASE PollPending(c)
  <2>1. /\ at[c] = "pending"
        /\ \/ Strides("idle") /\ waiting[c] = NoCorrelation
           \/ Strides("forget") /\ waiting[c] # NoCorrelation
           \/ Strides("park")
    BY <1>7 DEF PollPending, AfterTimeout, Goes, vars, serverVars
  <2> QED BY <1>0, <2>1, ClientStrides DEF Unsent, Sent, Watching, Places, FaceTyped
<1>8. CASE ParkEnds(c)
  <2>1. \/ Strides("bound") /\ waiting[c] = NoCorrelation
        \/ Strides("outcome") /\ waiting[c] # NoCorrelation
    BY <1>8 DEF ParkEnds, Poll, UnsentPoll, WaitingPoll, Goes, vars, serverVars
  <2> QED BY <1>0, <2>1, ClientStrides DEF Unsent, Sent, Watching, Places, FaceTyped
<1> QED BY <1>1, <1>2, <1>3, <1>4, <1>5, <1>6, <1>7, <1>8

\* Its sends, registrations and forgets, which hand wakers out.
LEMMA SendsInv ==
    ASSUME IInv, FInv, NEW c \in Callers, TrySend(c)
    PROVE  FInv'
<1>0. FaceTyped /\ waiting[c] = NoCorrelation /\ at[c] \in {"call", "send"}
  BY DEF FInv, Phases, TrySend, Unsent
<1> DEFINE w == Correlation(slots[Min(FreeSlots)].generation, Min(FreeSlots))
<1>1. CASE /\ Send(c, kind[c], Member)
           /\ waiting' = [waiting EXCEPT ![c] = w]
           /\ Goes(c, WaitingPoll) /\ HandsOut({})
  <2>1. w \in Correlations
    <3>1. kind[c] \in Kinds /\ Member \in Members
      BY <1>0, FaceAssumption DEF FaceTyped
    <3> QED BY <1>1, <3>1, SentCall
  <2> HIDE DEF w
  <2>2. /\ waiting' \in [Callers -> Correlations \cup {NoCorrelation}]
        /\ waiting'[c] # NoCorrelation /\ \A d \in Callers \ {c} : waiting'[d] = waiting[d]
    BY <1>0, <1>1, <2>1, FaceAssumption DEF FaceTyped
  <2>3. at' = [at EXCEPT ![c] = "outcome"] /\ UNCHANGED <<kind, server, handler, token>>
    BY <1>1 DEF TrySend, Goes, WaitingPoll, serverVars
  <2>4. OthersLeft(c)
    BY <1>1, <2>2, <2>3, HandedOut DEF OthersLeft, AllWake
  <2> QED BY <1>0, <2>2, <2>3, <2>4, ClientKeeps DEF Unsent, Sent, Watching, Places, FaceTyped
<1>2. CASE UNCHANGED <<vars, waiting, waking>>
           /\ Goes(c, IF at[c] = "call" THEN UnsentPoll ELSE "pending")
  <2>1. /\ asleep' = asleep /\ UNCHANGED <<kind, waiting, server, handler, waking, token>>
        /\ \/ at' = [at EXCEPT ![c] = "bound"]
           \/ at' = [at EXCEPT ![c] = "pending"] /\ at[c] = "send"
    BY <1>0, <1>2 DEF TrySend, Goes, UnsentPoll, vars, serverVars
  <2> QED BY <1>0, <2>1, ClientStrides DEF Unsent, Sent, Watching, Places, FaceTyped
<1> QED BY <1>1, <1>2 DEF TrySend

\* Registering for a slot: to sleep, or awake for another poll.
LEMMA RegisterSlotInv ==
    ASSUME FInv, NEW c \in Callers, RegisterSlot(c)
    PROVE  FInv'
<1>0. FaceTyped /\ waiting[c] = NoCorrelation
  BY DEF FInv, Phases, RegisterSlot, Unsent
<1>1. /\ at' = [at EXCEPT ![c] = "send"] /\ UNCHANGED <<kind, waiting, server, handler, token>>
      /\ HandsOut(IF SlotReady THEN {ClientTask[c]} ELSE {})
      /\ asleep' = AsleepOn("Slot", c, slotWaker[c], ClientTask[c], SlotReady)
  BY DEF RegisterSlot, WaitSlot, Goes, serverVars
<1>2. OthersLeft(c)
  BY <1>1, HandedOut DEF OthersLeft, AllWake
<1>3. Alert(Watched(c))'
  <2>1. SlotReady => ClientTask[c] \in waking'
    BY <1>1 DEF HandsOut
  <2>2. ~SlotReady => <<"Slot", c, 0, ClientTask[c]>> \in asleep'
    BY <1>1 DEF AsleepOn
  <2>3. Watched(c)' = <<"Slot", c, 0, ClientTask[c]>>
    BY <1>0, <1>1 DEF Watched
  <2> QED BY <2>1, <2>2, <2>3 DEF Alert, Asleep
<1> QED BY <1>0, <1>1, <1>2, <1>3, ClientKeeps DEF Unsent, Sent, Places, FaceTyped

\* Registering for an outcome.
LEMMA RegisterOutcomeInv ==
    ASSUME FInv, NEW c \in Callers, RegisterOutcome(c)
    PROVE  FInv'
<1>0. FaceTyped /\ waiting[c] # NoCorrelation
  BY DEF FInv, Phases, RegisterOutcome, Sent
<1>1. /\ at' = [at EXCEPT ![c] = "read"] /\ UNCHANGED <<kind, waiting, server, handler, token>>
      /\ \/ WaitOutcome(waiting[c], ClientTask[c]) /\ HandsOut({})
         \/ waking' = waking \cup {ClientTask[c]} /\ asleep' = asleep
  BY DEF RegisterOutcome, Goes, serverVars, vars
<1>2. OthersLeft(c)
  BY <1>1, HandedOut, NobodyWoken DEF OthersLeft, AllWake
<1>3. Alert(Watched(c))'
  <2>1. WaitOutcome(waiting[c], ClientTask[c]) =>
           <<"Outcome", waiting[c], 0, ClientTask[c]>> \in asleep'
    BY DEF WaitOutcome
  <2>2. Watched(c)' = <<"Outcome", waiting[c], 0, ClientTask[c]>>
    BY <1>0, <1>1 DEF Watched
  <2> QED BY <1>1, <2>1, <2>2 DEF Alert, Asleep
<1> QED BY <1>0, <1>1, <1>2, <1>3, ClientKeeps DEF Unsent, Sent, Places, FaceTyped

\* A return forgets the call, and has no correlation any more.
LEMMA ForgetCallInv ==
    ASSUME FInv, NEW c \in Callers, ForgetCall(c)
    PROVE  FInv'
<1>0. FaceTyped
  BY DEF FInv
<1>1. /\ at' = [at EXCEPT ![c] = "idle"] /\ UNCHANGED <<kind, server, handler, token>>
      /\ waiting' = [waiting EXCEPT ![c] = NoCorrelation]
      /\ HandsOut({}) \/ (asleep' = asleep /\ waking' = waking)
  BY DEF ForgetCall, Goes, serverVars, vars
<1>2. /\ waiting' \in [Callers -> Correlations \cup {NoCorrelation}]
      /\ waiting'[c] = NoCorrelation /\ \A d \in Callers \ {c} : waiting'[d] = waiting[d]
  BY <1>0, <1>1 DEF FaceTyped
<1>3. OthersLeft(c)
  BY <1>1, <1>2, HandedOut, NobodyWoken DEF OthersLeft, AllWake
<1> QED BY <1>0, <1>1, <1>2, <1>3, ClientKeeps DEF Unsent, Sent, Watching, Places, FaceTyped

\* Its unpark token is no other thread's.
LEMMA UnparkedInv ==
    ASSUME FInv, NEW c \in Callers, Unparked(c)
    PROVE  FInv'
<1>0. FaceTyped
  BY DEF FInv
<1>1. /\ UNCHANGED <<kind, waiting, server, handler, waking>> /\ asleep' = asleep
      /\ token' = token \ {ClientTask[c]}
      /\ \/ at' = [at EXCEPT ![c] = "bound"] /\ waiting[c] = NoCorrelation
         \/ at' = [at EXCEPT ![c] = "outcome"] /\ waiting[c] # NoCorrelation
  BY DEF Unparked, Poll, UnsentPoll, WaitingPoll, Goes, vars, serverVars
<1>2. OthersLeft(c)
  BY <1>1, FaceAssumption DEF OthersLeft, Wakes
<1> QED BY <1>0, <1>1, <1>2, ClientKeeps DEF Unsent, Sent, Watching, Places, FaceTyped

\* The serving thread.
LEMMA ServerInv ==
    ASSUME IInv, FInv, ServerStep \/ StopServing
    PROVE  FInv'
<1>0. FaceTyped /\ \A c \in Callers : ClientTask[c] # ServerTask
  BY FaceAssumption DEF FInv
<1>1. CASE OpenServer
  <2>1. /\ UNCHANGED <<at, kind, waiting, server, waking, token>> /\ asleep' = asleep
        /\ server = "off" /\ handler' = nextHandler /\ nextHandler <= MaxHandlers
    BY <1>1 DEF OpenServer, OpenHandler, clientVars
  <2>2. nextHandler \in Handlers
    BY <2>1, LoopbackAssumption DEF IInv, TypeOK, Handlers
  <2>3. \A c \in Callers : Wakes(ClientTask[c])
    BY <2>1, NobodyWoken DEF AllWake
  <2>4. server' \notin ServerWatching
    BY <2>1 DEF ServerWatching
  <2> QED BY <2>1, <2>2, <2>3, <2>4, ServerKeeps
<1>2. CASE StartServing \/ TakeClaim \/ SettleTaken
  <2>1. /\ UNCHANGED <<at, kind, waiting, handler, token>> /\ HandsOut({})
        /\ \/ server' = "poll"
           \/ server = "claim" /\ server' = "settle"
           \/ server = "settle" /\ server' = "claim"
    BY <1>2 DEF StartServing, TakeClaim, SettleTaken, ServerGoes, clientVars
  <2>2. AllWake
    BY <2>1, HandedOut
  <2> QED BY <2>1, <2>2, ServerStrides DEF ServerWatching
<1>3. CASE RegisterClaim
  <2>1. /\ UNCHANGED <<at, kind, waiting, handler, token>>
        /\ HandsOut(IF ClaimWaiting(handler) THEN {ServerTask} ELSE {})
        /\ asleep' = AsleepOn("Claim", handler, claimWaker[handler], ServerTask, ClaimWaiting(handler))
    BY <1>3 DEF RegisterClaim, WaitClaim, clientVars
  <2>2. \A c \in Callers : Wakes(ClientTask[c])
    BY <2>1, HandedOut DEF AllWake
  <2>3. Alert(<<"Claim", handler, 0, ServerTask>>)'
    <3>1. ClaimWaiting(handler) => ServerTask \in waking'
      BY <2>1 DEF HandsOut
    <3>2. ~ClaimWaiting(handler) => <<"Claim", handler, 0, ServerTask>> \in asleep'
      BY <2>1 DEF AsleepOn
    <3> QED BY <2>1, <3>1, <3>2 DEF Alert, Asleep
  <2>4. handler' \in Handlers \cup {None}
    BY <1>0, <2>1 DEF FaceTyped
  <2> QED BY <2>1, <2>2, <2>3, <2>4, ServerKeeps
<1>4. CASE ServePending \/ ServePark
  <2>1. /\ UNCHANGED <<at, kind, waiting, handler, token>> /\ asleep' = asleep
        /\ waking \subseteq waking' /\ server \in {"claim", "pending"}
    BY <1>4 DEF ServePending, ServePark, clientVars, vars
  <2> QED BY <2>1, NobodyWoken, ServerStrides DEF ServerWatching
<1>5. CASE ServerUnparked
  <2>1. /\ UNCHANGED <<at, kind, waiting, handler, waking>> /\ asleep' = asleep
        /\ token' = token \ {ServerTask} /\ server' = "poll"
    BY <1>5 DEF ServerUnparked, ServerGoes, clientVars, vars
  <2>2. \A c \in Callers : Wakes(ClientTask[c])
    BY <1>0, <2>1 DEF Wakes
  <2>3. handler' \in Handlers \cup {None} /\ server' \notin ServerWatching
    BY <1>0, <2>1 DEF FaceTyped, ServerWatching
  <2> QED BY <2>1, <2>2, <2>3, ServerKeeps
<1>6. CASE StopServing
  <2>1. /\ UNCHANGED <<at, kind, waiting, token>> /\ handler' = None /\ server' = "off"
        /\ waking' = waking \cup ({r[4] : r \in asleep \ asleep'} \ {ServerTask})
    BY <1>6 DEF StopServing, ServerGoes, clientVars
  <2>2. \A r \in asleep \ asleep' : r[4] # ServerTask => r[4] \in waking'
    BY <2>1
  <2>3. \A c \in Callers : Wakes(ClientTask[c])
    BY <1>0, <2>1, <2>2 DEF Wakes
  <2>4. handler' \in Handlers \cup {None} /\ server' \notin ServerWatching
    BY <2>1 DEF ServerWatching
  <2> QED BY <2>1, <2>3, <2>4, ServerKeeps
<1> QED BY <1>1, <1>2, <1>3, <1>4, <1>5, <1>6 DEF ServerStep

\* Time and the wakes themselves, and a step that changes nothing.
LEMMA QuietInv ==
    ASSUME FInv, \/ \E c \in Callers : BoundPasses(c) \/ TimeoutPasses(c)
                 \/ \E task \in Wakers : Unpark(task)
                 \/ UNCHANGED allVars
    PROVE  FInv'
<1>1. /\ UNCHANGED <<at, kind, waiting, server, handler>> /\ asleep' = asleep
      /\ token \cup waking \subseteq token' \cup waking'
  BY DEF BoundPasses, TimeoutPasses, Unpark, allVars, vars, faceVars, clientVars, serverVars
<1>2. AllWake
  BY <1>1 DEF Wakes, AllWake
<1> QED BY <1>1, <1>2, ServerStrides

\* Every step of the threads.
LEMMA FaceStepInv == IInv /\ FInv /\ [FaceNext]_allVars => FInv'
<1> SUFFICES ASSUME IInv, FInv, [FaceNext]_allVars PROVE FInv'
  OBVIOUS
<1>1. ASSUME NEW c \in Callers,
             \/ Bind(c)
             \/ \E k \in Kinds, max, timeout \in Limits[c] : Call(c, k, max, timeout)
             \/ ClientStep(c) \/ SendRefused(c) \/ ParkEnds(c)
      PROVE  FInv'
  BY <1>1, StridesInv, SendsInv, RegisterSlotInv, RegisterOutcomeInv, ForgetCallInv, UnparkedInv
  DEF ClientStep
<1>2. CASE ServerStep \/ StopServing
  BY <1>2, ServerInv
<1>3. CASE \/ \E c \in Callers : BoundPasses(c) \/ TimeoutPasses(c)
           \/ \E task \in Wakers : Unpark(task)
           \/ UNCHANGED allVars
  BY <1>3, QuietInv
<1> QED BY <1>1, <1>2, <1>3 DEF FaceNext

\* The claim the serving thread settles is the one it was presented.
Presented == server = "settle" => claim \in ClaimIds

\* What a handler is presented is a claim of the store.
LEMMA TakesClaim ==
    ASSUME IInv, FInv, TakeClaim
    PROVE  claim' \in ClaimIds
<1>1. PICK fits \in BOOLEAN : NextClaim(handler, fits)
  BY DEF TakeClaim
<1>2. handler \in Handlers /\ ClaimWaiting(handler)
  BY <1>1 DEF NextClaim, IInv, TypeOK
<1> DEFINE c == pending[Min(Servable(served[handler]))]
           i == SlotOf(c)
           id == IF Mints(i) THEN nextClaim ELSE calls[i].claim
<1>3. /\ i \in Slots /\ calls[i] # NoCall
      /\ Mints(i) => nextClaim \in ClaimIds
      /\ ~Mints(i) => calls[i].claim \in ClaimIds
  BY <1>2, PresentedCall
<1>4. calls' = [calls EXCEPT ![i].claim = id] /\ claim' = calls'[i].claim
  BY <1>1 DEF NextClaim, TakeClaim
<1> HIDE DEF c, i
<1>5. calls[i] \in CallEntry /\ calls \in [Slots -> CallEntry \cup {NoCall}]
  BY <1>3, LiveCall DEF IInv, TypeOK
<1>6. id \in ClaimIds
  BY <1>3
<1> HIDE DEF id
<1>7. calls'[i].claim = id
  BY <1>3, <1>4, <1>5 DEF CallEntry
<1> QED BY <1>4, <1>6, <1>7

\* And it stays the one.
LEMMA PresentedNext == IInv /\ FInv /\ Presented /\ [FaceNext]_allVars => Presented'
<1> SUFFICES ASSUME IInv, FInv, Presented, [FaceNext]_allVars PROVE Presented'
  OBVIOUS
<1>1. CASE TakeClaim
  BY <1>1, TakesClaim DEF Presented
<1>2. CASE server' # "settle" \/ UNCHANGED <<server, claim>>
  BY <1>2 DEF Presented
<1>3. ASSUME NEW c \in Callers,
             \/ Bind(c)
             \/ \E k \in Kinds, max, timeout \in Limits[c] : Call(c, k, max, timeout)
             \/ ClientStep(c) \/ SendRefused(c) \/ ParkEnds(c)
             \/ BoundPasses(c) \/ TimeoutPasses(c)
      PROVE  UNCHANGED <<server, claim>>
  BY <1>3 DEF Bind, Call, ClientStep, TrySend, CheckBound, RegisterSlot, RegisterOutcome,
              ReadOutcome, CheckExpiry, ForgetCall, PollPending, Unparked, SendRefused, ParkEnds,
              BoundPasses, TimeoutPasses, serverVars
<1>4. ASSUME OpenServer \/ StartServing \/ RegisterClaim \/ SettleTaken \/ ServePending
             \/ ServePark \/ ServerUnparked \/ StopServing
      PROVE  server' # "settle" \/ UNCHANGED <<server, claim>>
  BY <1>4 DEF OpenServer, StartServing, RegisterClaim, SettleTaken, ServePending, ServePark,
              ServerUnparked, StopServing, ServerGoes
<1>5. ASSUME UNCHANGED allVars \/ \E task \in Wakers : Unpark(task)
      PROVE  UNCHANGED <<server, claim>>
  BY <1>5 DEF Unpark, allVars, faceVars, serverVars
<1> QED BY <1>1, <1>2, <1>3, <1>4, <1>5 DEF FaceNext, ServerStep

\* Whatever a thread does to the store is an operation of the store.
LEMMA ThreadsUseStore == IInv /\ FInv /\ Presented /\ [FaceNext]_allVars => [Next]_vars
<1> SUFFICES ASSUME IInv, FInv, Presented, [FaceNext]_allVars PROVE [Next]_vars
  OBVIOUS
<1>0. Member \in Members /\ ServerTask \in Wakers /\ \A c \in Callers : ClientTask[c] \in Wakers
  BY FaceAssumption
<1>1. ASSUME NEW c \in Callers, Bind(c) PROVE Next
  BY <1>1 DEF Bind, Next
<1>2. ASSUME NEW c \in Callers, TrySend(c) PROVE [Next]_vars
  <2>1. kind[c] \in Kinds
    BY DEF FInv, FaceTyped
  <2>2. Send(c, kind[c], Member) => Next
    BY <1>0, <2>1 DEF Next
  <2> QED BY <1>2, <2>2 DEF TrySend
<1>3. ASSUME NEW c \in Callers, RegisterSlot(c) PROVE Next
  BY <1>0, <1>3 DEF RegisterSlot, Next
<1>4. ASSUME NEW c \in Callers, RegisterOutcome(c) \/ ForgetCall(c) PROVE [Next]_vars
  <2>1. waiting[c] \in Correlations
    BY <1>4 DEF FInv, FaceTyped, Phases, Sent, RegisterOutcome, ForgetCall
  <2>2. WaitOutcome(waiting[c], ClientTask[c]) \/ Forget(waiting[c]) => Next
    BY <1>0, <2>1 DEF Next
  <2> QED BY <1>4, <2>2 DEF RegisterOutcome, ForgetCall
<1>5. ASSUME NEW c \in Callers,
             \/ SendRefused(c) \/ CheckBound(c) \/ ReadOutcome(c) \/ CheckExpiry(c)
             \/ PollPending(c) \/ ParkEnds(c) \/ Unparked(c) \/ BoundPasses(c) \/ TimeoutPasses(c)
             \/ \E k \in Kinds, max, timeout \in Limits[c] : Call(c, k, max, timeout)
      PROVE  UNCHANGED vars
  BY <1>5 DEF SendRefused, CheckBound, ReadOutcome, CheckExpiry, PollPending, ParkEnds,
              Unparked, BoundPasses, TimeoutPasses, Call
<1>6. CASE OpenServer
  BY <1>6 DEF OpenServer, Next
<1> DEFINE Served ==
             \/ Serve(handler, Member) \/ WaitClaim(handler, ServerTask) \/ CloseHandler(handler)
             \/ \E fits \in BOOLEAN : NextClaim(handler, fits)
             \/ \E outcome \in {"Ok", "Err"} : Settle(handler, claim, outcome) /\ claim \in ClaimIds
<1>7. CASE Served
  <2>1. handler \in Handlers
    BY <1>7 DEF Serve, WaitClaim, CloseHandler, NextClaim, Settle, IInv, TypeOK
  <2> QED BY <1>0, <1>7, <2>1 DEF Next
<1>8. CASE StartServing \/ RegisterClaim \/ TakeClaim \/ SettleTaken \/ StopServing
  <2>1. Served
    BY <1>8 DEF StartServing, RegisterClaim, TakeClaim, SettleTaken, StopServing, Presented
  <2> HIDE DEF Served
  <2> QED BY <1>7, <2>1
<1>9. CASE ServePending \/ ServePark \/ ServerUnparked \/ UNCHANGED allVars
           \/ \E task \in Wakers : Unpark(task)
  BY <1>9 DEF ServePending, ServePark, ServerUnparked, Unpark, allVars
<1> QED BY <1>1, <1>2, <1>3, <1>4, <1>5, <1>6, <1>8, <1>9 DEF FaceNext, ClientStep, ServerStep

(***************************************************************************)
(* No thread sleeps over something it could do.                            *)
(***************************************************************************)
\* Who sleeps in the store has nothing to do, and its waker is stored.
LEMMA SlotSleeper ==
    ASSUME Sound, NEW c \in Callers, NEW task, <<"Slot", c, 0, task>> \in asleep
    PROVE  FreeSlots = {} /\ slotWaker[c] = task
<1> DEFINE r == <<"Slot", c, 0, task>>
<1>1. r[1] = "Slot" /\ r[2] = c /\ r[4] = task /\ r \in asleep
  OBVIOUS
<1> HIDE DEF r
<1>2. \A i \in Slots : calls[i] # NoCall
  BY <1>1 DEF Sound, Calm, CalmSlots
<1>3. FreeSlots = {}
  BY <1>2 DEF FreeSlots, Sound, IInv, CellsOK, CellOK
<1>4. SleepsOn(r)
  BY <1>1 DEF Sound, SInv, Sleeping
<1>5. slotWaker[c] = task
  BY <1>1, <1>4 DEF SleepsOn, StoredIn
<1> QED BY <1>3, <1>5

\* A client that sleeps for the outcome of its call.
LEMMA OutcomeSleeper ==
    ASSUME Sound, NEW w, NEW task, <<"Outcome", w, 0, task>> \in asleep
    PROVE  Ack(w) = NoOutcome /\ Reply(w) = NoOutcome /\ slots[SlotOf(w)].waker = task
<1> DEFINE r == <<"Outcome", w, 0, task>>
<1>1. r[1] = "Outcome" /\ r[2] = w /\ r[4] = task /\ r \in asleep
  OBVIOUS
<1> HIDE DEF r
<1>2. PICK i \in Slots : /\ calls[i] # NoCall /\ calls[i].correlation = w
                         /\ slots[i].waker = task /\ slots[i].state = "InFlight" /\ SlotOf(w) = i
  BY <1>1, OutcomeSleeps DEF Sound, OutcomeSlept
<1>3. OutcomeOf(slots[SlotOf(w)], w) = NoOutcome
  BY <1>2 DEF OutcomeOf
<1> QED BY <1>2, <1>3 DEF Ack, Reply

\* A handler that sleeps for a claim.
LEMMA ClaimSleeps ==
    ASSUME Sound, NEW h, NEW task, <<"Claim", h, 0, task>> \in asleep
    PROVE  ~ClaimWaiting(h) /\ claimWaker[h] = task
<1> DEFINE r == <<"Claim", h, 0, task>>
<1>1. r[1] = "Claim" /\ r[2] = h /\ r[4] = task /\ r \in asleep
  OBVIOUS
<1> HIDE DEF r
<1>2. ~ClaimWaiting(h)
  BY <1>1 DEF Sound, Calm, CalmClaims
<1>3. SleepsOn(r)
  BY <1>1 DEF Sound, SInv, Sleeping
<1>4. claimWaker[h] = task
  BY <1>1, <1>3 DEF SleepsOn, StoredIn
<1> QED BY <1>2, <1>4

\* Threads that are alert sleep soundly on a store that is sound.
LEMMA AlertSleepsSoundly == Sound /\ FInv => SleepsSoundly
<1> SUFFICES ASSUME Sound, FInv PROVE SleepsSoundly
  OBVIOUS
<1>1. ASSUME NEW c \in Callers, at[c] = "park", Asleep(ClientTask[c])
      PROVE  IF waiting[c] = NoCorrelation
             THEN FreeSlots = {} /\ slotWaker[c] = ClientTask[c]
             ELSE Outcome(c) = NoOutcome /\ slots[SlotOf(waiting[c])].waker = ClientTask[c]
  <2> DEFINE r == Watched(c)
  <2>1. r[4] = ClientTask[c]
    BY DEF Watched
  <2>2. Alert(r)
    BY <1>1 DEF FInv, ClientsAlert, Watching
  <2> HIDE DEF r
  <2>3. r \in asleep
    BY <1>1, <2>1, <2>2 DEF Alert
  <2>4. CASE waiting[c] = NoCorrelation
    <3>1. <<"Slot", c, 0, ClientTask[c]>> \in asleep
      BY <2>3, <2>4 DEF r, Watched
    <3> QED BY <2>4, <3>1, SlotSleeper
  <2>5. CASE waiting[c] # NoCorrelation
    <3>1. <<"Outcome", waiting[c], 0, ClientTask[c]>> \in asleep
      BY <2>3, <2>5 DEF r, Watched
    <3>2. /\ Ack(waiting[c]) = NoOutcome /\ Reply(waiting[c]) = NoOutcome
          /\ slots[SlotOf(waiting[c])].waker = ClientTask[c]
      BY <3>1, OutcomeSleeper
    <3> QED BY <2>5, <3>2 DEF Outcome
  <2> QED BY <2>4, <2>5
<1>2. ASSUME server = "park", Asleep(ServerTask)
      PROVE  ~ClaimWaiting(handler) /\ claimWaker[handler] = ServerTask
  <2> DEFINE r == <<"Claim", handler, 0, ServerTask>>
  <2>1. r[4] = ServerTask
    OBVIOUS
  <2>2. Alert(r)
    BY <1>2 DEF FInv, ServerAlert, ServerWatching
  <2> HIDE DEF r
  <2>3. r \in asleep
    BY <1>2, <2>1, <2>2 DEF Alert
  <2> QED BY <2>3, ClaimSleeps DEF r
<1> QED BY <1>1, <1>2 DEF SleepsSoundly

\* The first state.
LEMMA FaceInitInv == FaceInit => Sound /\ FInv /\ Presented
<1> SUFFICES ASSUME FaceInit PROVE Sound /\ FInv /\ Presented
  OBVIOUS
<1>1. Sound
  BY InitStore DEF FaceInit
<1>2. /\ at = [c \in Callers |-> "unbound"] /\ waiting = [c \in Callers |-> NoCorrelation]
      /\ kind \in [Callers -> Kinds] /\ server = "off" /\ handler = None
  BY DEF FaceInit
<1> QED
  BY <1>1, <1>2 DEF FInv, FaceTyped, Phases, ClientsAlert, ServerAlert, Presented, Places,
                    Unsent, Sent, Watching, ServerWatching

\* Every step of the face keeps the invariant, and is one of the store.
LEMMA FaceKeeps ==
    Sound /\ FInv /\ Presented /\ [FaceNext]_allVars
        => Sound' /\ FInv' /\ Presented' /\ StoreMoved
<1> SUFFICES ASSUME Sound, FInv, Presented, [FaceNext]_allVars
             PROVE  Sound' /\ FInv' /\ Presented' /\ StoreMoved
  OBVIOUS
<1>1. IInv
  BY DEF Sound
<1>2. [Next]_vars
  BY <1>1, ThreadsUseStore
<1> QED BY <1>1, <1>2, StoreStep, FaceStepInv, PresentedNext

\* What clients and server do to the store, through ports that are polled and
\* threads that park, is a run of the store: what is proved of its calls holds
\* under the face.
THEOREM BlockingFaceUsesStore == FaceSpec => Spec
<1>1. FaceInit => Init /\ Sound /\ FInv /\ Presented
  BY FaceInitInv DEF FaceInit
<1>2. Sound /\ FInv /\ Presented /\ [FaceNext]_allVars => (Sound /\ FInv /\ Presented)'
  BY FaceKeeps
<1>3. Sound /\ FInv /\ Presented /\ [FaceNext]_allVars => [Next]_vars
  BY ThreadsUseStore DEF Sound
<1> QED BY <1>1, <1>2, <1>3, PTL DEF FaceSpec, Spec

\* No wake is lost between a poll and the park after it: a thread that is
\* parked, and that nobody is about to unpark, has nothing to do, and its waker
\* is where the next change finds it.
THEOREM BlockingFaceSleepsSoundly == FaceSpec => []SleepsSoundly
<1>1. FaceInit => Sound /\ FInv /\ Presented
  BY FaceInitInv
<1>2. Sound /\ FInv /\ Presented /\ [FaceNext]_allVars => (Sound /\ FInv /\ Presented)'
  BY FaceKeeps
<1>3. Sound /\ FInv => SleepsSoundly
  BY AlertSleepsSoundly
<1> QED BY <1>1, <1>2, <1>3, PTL DEF FaceSpec

(***************************************************************************)
(* A call that returned leaves nothing waiting.                            *)
(***************************************************************************)
\* A client waits for each call of its that is not forgotten.
Tracked ==
    \A i \in Slots :
        calls[i] # NoCall => calls[i].forgotten \/ waiting[calls[i].caller] = calls[i].correlation

\* A step that sends nothing, and after which whoever waits still does.
LEMMA TrackedStays ==
    ASSUME Sound, Sound', StoreMoved, Tracked, nextSent' = nextSent,
           \A i \in Slots :
              calls[i] # NoCall /\ calls'[i] # NoCall /\ waiting[calls[i].caller] = calls[i].correlation
                 => calls'[i].forgotten \/ waiting'[calls[i].caller] = waiting[calls[i].caller]
    PROVE  Tracked'
<1> SUFFICES ASSUME NEW i \in Slots, calls'[i] # NoCall
             PROVE  calls'[i].forgotten \/ waiting'[calls'[i].caller] = calls'[i].correlation
  BY DEF Tracked
<1>1. calls[i] # NoCall
  BY NobodyNew DEF Sound
<1>2. calls'[i].caller = calls[i].caller /\ calls'[i].correlation = calls[i].correlation
  BY <1>1 DEF StoreMoved, Followed
<1>3. CASE calls[i].forgotten
  BY <1>1, <1>3, StaysForgotten DEF Sound
<1>4. CASE waiting[calls[i].caller] = calls[i].correlation
  BY <1>1, <1>2, <1>4
<1> QED BY <1>1, <1>3, <1>4 DEF Tracked

\* The call a client sends is the one it waits for.
LEMMA TrySendTracked ==
    ASSUME Sound, Sound', StoreMoved, FInv, Tracked, NEW c \in Callers, TrySend(c)
    PROVE  Tracked'
<1>0. /\ waiting \in [Callers -> Correlations \cup {NoCorrelation}] /\ kind[c] \in Kinds
      /\ waiting[c] = NoCorrelation /\ NoCorrelation \notin Correlations /\ Member \in Members
  BY FaceAssumption DEF FInv, FaceTyped, Phases, TrySend, Unsent
<1> DEFINE i == Min(FreeSlots)
           w == Correlation(slots[i].generation, i)
<1>1. CASE Send(c, kind[c], Member) /\ waiting' = [waiting EXCEPT ![c] = w]
  <2>1. /\ i \in Slots /\ calls[i] = NoCall /\ w \in Correlations
        /\ calls'[i].correlation = w /\ calls'[i].caller = c
        /\ \A j \in Slots \ {i} : calls'[j] = calls[j]
    BY <1>0, <1>1, SentCall DEF Sound
  <2> HIDE DEF i, w
  <2>2. waiting'[c] = w /\ \A d \in Callers \ {c} : waiting'[d] = waiting[d]
    BY <1>0, <1>1
  <2> SUFFICES ASSUME NEW j \in Slots, calls'[j] # NoCall
               PROVE  calls'[j].forgotten \/ waiting'[calls'[j].caller] = calls'[j].correlation
    BY DEF Tracked
  <2>3. CASE j = i
    BY <2>1, <2>2, <2>3
  <2>4. CASE j # i
    <3>1. calls'[j] = calls[j] /\ calls[j] # NoCall
      BY <2>1, <2>4
    <3>2. calls[j].caller \in Callers /\ calls[j].correlation \in Correlations
      BY <3>1, LiveCall DEF Sound, CallEntry
    <3> QED BY <1>0, <2>2, <3>1, <3>2 DEF Tracked
  <2> QED BY <2>3, <2>4
<1>2. CASE UNCHANGED <<vars, waiting>>
  <2>1. nextSent' = nextSent /\ waiting' = waiting
    BY <1>2 DEF vars
  <2> QED BY <2>1, TrackedStays
<1> QED BY <1>1, <1>2 DEF TrySend

\* The call it returns from is forgotten.
LEMMA ForgetCallTracked ==
    ASSUME Sound, Sound', StoreMoved, FInv, Tracked, NEW c \in Callers, ForgetCall(c)
    PROVE  Tracked'
<1>0. /\ waiting \in [Callers -> Correlations \cup {NoCorrelation}]
      /\ waiting' = [waiting EXCEPT ![c] = NoCorrelation]
  BY DEF FInv, FaceTyped, ForgetCall
<1>1. nextSent' = nextSent
  BY DEF ForgetCall, Forget, vars
<1>2. ASSUME NEW i \in Slots, calls[i] # NoCall, calls'[i] # NoCall,
             waiting[calls[i].caller] = calls[i].correlation
      PROVE  calls'[i].forgotten \/ waiting'[calls[i].caller] = waiting[calls[i].caller]
  <2>1. calls[i].caller \in Callers /\ SlotOf(calls[i].correlation) = i
    BY <1>2, LiveCall DEF Sound, CallEntry
  <2>2. CASE calls[i].caller = c
    <3>1. Known(waiting[c])
      BY <1>2, <2>1, <2>2 DEF Known, HasEntry
    <3>2. calls[i].correlation \in released'
      BY <1>2, <2>2, <3>1 DEF ForgetCall, Forget
    <3>3. calls'[i].correlation = calls[i].correlation
      BY <1>2 DEF StoreMoved, Followed
    <3>4. calls'[i].forgotten
      BY <1>2, <3>2, <3>3 DEF Sound, RInv
    <3> QED BY <3>4
  <2>3. CASE calls[i].caller # c
    BY <1>0, <2>1, <2>3
  <2> QED BY <2>2, <2>3
<1> QED BY <1>1, <1>2, TrackedStays

\* Every step.
LEMMA TrackedNext ==
    ASSUME Sound, Sound', StoreMoved, FInv, Presented, Tracked, [FaceNext]_allVars
    PROVE  Tracked'
<1>a. nextSent' = nextSent /\ waiting' = waiting => Tracked'
  BY TrackedStays
<1>1. ASSUME NEW c \in Callers,
             \/ Bind(c)
             \/ \E k \in Kinds, max, timeout \in Limits[c] : Call(c, k, max, timeout)
             \/ CheckBound(c) \/ RegisterSlot(c) \/ RegisterOutcome(c) \/ ReadOutcome(c)
             \/ CheckExpiry(c) \/ PollPending(c) \/ Unparked(c) \/ SendRefused(c) \/ ParkEnds(c)
             \/ BoundPasses(c) \/ TimeoutPasses(c)
      PROVE  nextSent' = nextSent /\ waiting' = waiting
  BY <1>1 DEF Bind, OpenCaller, Call, CheckBound, RegisterSlot, WaitSlot, RegisterOutcome,
              WaitOutcome, ReadOutcome, CheckExpiry, PollPending, Unparked, SendRefused, ParkEnds,
              BoundPasses, TimeoutPasses, vars
<1>2. ASSUME ServerStep \/ StopServing
      PROVE  nextSent' = nextSent /\ waiting' = waiting
  BY <1>2 DEF ServerStep, OpenServer, OpenHandler, StartServing, Serve, RegisterClaim, WaitClaim,
              TakeClaim, NextClaim, SettleTaken, Settle, SettleClaim, ServePending, ServePark,
              StopServing, CloseHandler, ServerUnparked, clientVars, vars
<1>3. ASSUME UNCHANGED allVars \/ \E task \in Wakers : Unpark(task)
      PROVE  nextSent' = nextSent /\ waiting' = waiting
  BY <1>3 DEF Unpark, allVars, faceVars, clientVars, vars
<1>4. ASSUME NEW c \in Callers, TrySend(c) \/ ForgetCall(c) PROVE Tracked'
  BY <1>4, TrySendTracked, ForgetCallTracked
<1> QED BY <1>a, <1>1, <1>2, <1>3, <1>4 DEF FaceNext, ClientStep

\* A client that is idle waits for none.
LEMMA TrackedLeavesNothing == Sound /\ FInv /\ Tracked => NothingLeftWaiting
<1> SUFFICES ASSUME Sound, FInv, Tracked,
                    NEW c \in Callers, NEW i \in Slots,
                    at[c] = "idle", calls[i] # NoCall, calls[i].caller = c
             PROVE  calls[i].forgotten /\ calls[i].claim # None
  BY DEF NothingLeftWaiting
<1>1. waiting[c] = NoCorrelation
  BY DEF FInv, Phases, Unsent
<1>2. calls[i].correlation \in Correlations
  BY LiveCall DEF Sound
<1>3. calls[i].forgotten
  BY <1>1, <1>2, FaceAssumption DEF Tracked
<1> QED BY <1>3, ForgottenClaimed

\* When a blocking call has returned, with its outcome, at its bound, at its
\* timeout or refused, a call of that client that is left is forgotten and in a
\* handler's hands: none waits to be presented.
THEOREM BlockingFaceLeavesNothing == FaceSpec => []NothingLeftWaiting
<1>1. FaceInit => Sound /\ FInv /\ Presented /\ Tracked
  BY FaceInitInv DEF FaceInit, Init, Tracked
<1>2. Sound /\ FInv /\ Presented /\ Tracked /\ [FaceNext]_allVars
        => (Sound /\ FInv /\ Presented /\ Tracked)'
  BY FaceKeeps, TrackedNext
<1>3. Sound /\ FInv /\ Tracked => NothingLeftWaiting
  BY TrackedLeavesNothing
<1> QED BY <1>1, <1>2, <1>3, PTL DEF FaceSpec
==============================================================================
