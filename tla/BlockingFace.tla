---------------------------- MODULE BlockingFace ----------------------------
(***************************************************************************)
(* A generated blocking face over the loopback: client threads that make   *)
(* calls, one after the other, and a thread that serves them.  Each is     *)
(* ridl_rt::task::block_on over a generated future (ridl-backend-rust,     *)
(* face/futures.rs and face/serve.rs), each of whose port calls is one     *)
(* critical section of LoopbackCalls.tla.                                  *)
(*                                                                         *)
(* block_on polls, and parks its thread until the waker it polled with is  *)
(* woken.  A store operation hands its wakers out under the lock, and they *)
(* are woken after it: `waking` holds those in between, and Unpark may     *)
(* come any time later, before, during or after the next poll or park.     *)
(*                                                                         *)
(* A client has a bound on the port's clock (the member's max), which the  *)
(* loopback wakes nobody for, and a timeout on the wall clock.  A waker is *)
(* the thread it unparks.  Uploads and streamed replies are left out.      *)
(***************************************************************************)
EXTENDS LoopbackCalls

CONSTANTS
    ClientTask,   \* the waker of each client's thread
    ServerTask,   \* the waker of the serving thread
    Member,       \* the member that is called and served
    Budget,       \* SERVE_BUDGET
    Limits,       \* the deadlines each client makes its calls with: "none", "ahead" or both
    NoCorrelation

ASSUME FaceAssumption ==
    /\ ClientTask \in [Callers -> Wakers] /\ ServerTask \in Wakers
    /\ \A c \in Callers : ClientTask[c] # ServerTask  \* each thread has a waker of its own
    /\ \A c, d \in Callers : ClientTask[c] = ClientTask[d] => c = d
    /\ Member \in Members /\ Budget \in Nat \ {0}
    /\ Limits \in [Callers -> SUBSET {"none", "ahead"}] /\ NoCorrelation \notin Correlations

VARIABLES
    at,       \* where each client's thread is
    kind,     \* the kind of each client's call
    waiting,  \* the correlation of a future in its Waiting phase
    bound,    \* the call's deadline on the port's clock
    timer,    \* block_on's deadline
    started,  \* calls started over a run, bounded by MaxSends
    server,   \* where the serving thread is
    handler,  \* the handle it serves with, None between two serves
    claim,    \* the claim it has taken
    budget,   \* the claims this poll may still take
    waking,   \* wakers handed out and not woken yet
    token     \* the threads whose unpark token is set

clientVars == <<at, kind, waiting, bound, timer, started>>
serverVars == <<server, handler, claim, budget>>
faceVars == <<clientVars, serverVars, waking, token>>
allVars == <<vars, faceVars>>

FaceInit ==
    /\ Init
    /\ at = [c \in Callers |-> "unbound"]
    /\ kind \in {[c \in Callers |-> k] : k \in Kinds}
    /\ waiting = [c \in Callers |-> NoCorrelation]
    /\ bound = [c \in Callers |-> "none"] /\ timer = [c \in Callers |-> "none"]
    /\ started = 0
    /\ server = "off" /\ handler = None /\ claim = None /\ budget = 0
    /\ waking = {} /\ token = {}

-----------------------------------------------------------------------------
\* The wakers a store step takes from who is asleep, and those it hands back.
HandsOut(back) == waking' = waking \cup {r[4] : r \in asleep \ asleep'} \cup back

\* A client's thread goes on; a call that returns takes its deadlines along.
Deadlines(deadlines, c, where) == [deadlines EXCEPT ![c] = IF where = "idle" THEN "none" ELSE @]
Goes(c, where) ==
    /\ at' = [at EXCEPT ![c] = where]
    /\ bound' = Deadlines(bound, c, where) /\ timer' = Deadlines(timer, c, where)

\* Mutant: a poll reads the outcome without registering.
WaitingPollReads == "read"

\* The poll of a waiting future begins with its registration, the poll of an
\* unsent one with its bound.
WaitingPoll == "outcome"
UnsentPoll == "bound"
Poll(c) == IF waiting[c] = NoCorrelation THEN UnsentPoll ELSE WaitingPoll

-----------------------------------------------------------------------------
\* Client::new over a caller handle of its own.
Bind(c) ==
    /\ at[c] = "unbound" /\ nextCaller = c
    /\ OpenCaller
    /\ Goes(c, "idle")
    /\ UNCHANGED <<kind, waiting, started, serverVars, waking, token>>

\* A method of blocking::Client: the deadlines, and the future, which sends.
Call(c, k, max, timeout) ==
    /\ at[c] = "idle" /\ started < MaxSends
    /\ started' = started + 1
    /\ kind' = [kind EXCEPT ![c] = k]
    /\ bound' = [bound EXCEPT ![c] = max] /\ timer' = [timer EXCEPT ![c] = timeout]
    /\ at' = [at EXCEPT ![c] = "call"]
    /\ UNCHANGED <<vars, waiting, serverVars, waking, token>>

\* The send of the method, and the one of a later poll.  Busy keeps the
\* argument: the method's future is polled at once, a poll is Pending.
TrySend(c) ==
    /\ at[c] \in {"call", "send"}
    /\ \/ /\ Send(c, kind[c], Member)
          /\ waiting' = [waiting EXCEPT ![c] =
                            Correlation(slots[Min(FreeSlots)].generation, Min(FreeSlots))]
          /\ Goes(c, WaitingPoll)
          /\ HandsOut({})
       \/ /\ FreeSlots = {}
          /\ Goes(c, IF at[c] = "call" THEN UnsentPoll ELSE "pending")
          /\ UNCHANGED <<vars, waiting, waking>>
    /\ UNCHANGED <<kind, started, serverVars, token>>

\* Any other refusal of the send: a precondition, a size, a detached runtime.
SendRefused(c) ==
    /\ at[c] \in {"call", "send"}
    /\ Goes(c, "idle")
    /\ UNCHANGED <<vars, kind, waiting, started, serverVars, waking, token>>

\* Future::poll of an unsent call whose bound has passed is Busy, and sends
\* nothing.
CheckBound(c) ==
    /\ at[c] = "bound"
    /\ Goes(c, IF bound[c] = "passed" THEN "idle" ELSE "slot")
    /\ UNCHANGED <<vars, kind, waiting, started, serverVars, waking, token>>

RegisterSlot(c) ==
    /\ at[c] = "slot"
    /\ WaitSlot(c, ClientTask[c])
    /\ HandsOut(IF SlotReady THEN {ClientTask[c]} ELSE {})
    /\ Goes(c, "send")
    /\ UNCHANGED <<kind, waiting, started, serverVars, token>>

\* The store keeps the waker, or wakes it at once.
Keeps(c) == Known(c) /\ ~calls[SlotOf(c)].pendingForget /\ StoresOutcome(slots[SlotOf(c)], c)
RegisterOutcome(c) ==
    /\ at[c] = "outcome"
    /\ \/ WaitOutcome(waiting[c], ClientTask[c]) /\ HandsOut({})
       \/ /\ ~Keeps(waiting[c])
          /\ waking' = waking \cup {ClientTask[c]}
          /\ UNCHANGED vars
    /\ Goes(c, "read")
    /\ UNCHANGED <<kind, waiting, started, serverVars, token>>

\* poll_ack and poll_reply.
Outcome(c) == IF kind[c] = "Command" THEN Ack(waiting[c]) ELSE Reply(waiting[c])
ReadOutcome(c) ==
    /\ at[c] = "read"
    /\ Goes(c, IF Outcome(c) # NoOutcome THEN "forget" ELSE "expiry")
    /\ UNCHANGED <<vars, kind, waiting, started, serverVars, waking, token>>

\* Not answered yet: at its bound the call is given up.
CheckExpiry(c) ==
    /\ at[c] = "expiry"
    /\ Goes(c, IF bound[c] = "passed" THEN "forget" ELSE "pending")
    /\ UNCHANGED <<vars, kind, waiting, started, serverVars, waking, token>>

\* The future leaves Waiting: poll forgets the call, or Drop does.
ForgetCall(c) ==
    /\ at[c] = "forget"
    /\ \/ Forget(waiting[c]) /\ HandsOut({})
       \/ ~Known(waiting[c]) /\ UNCHANGED <<vars, waking>>
    /\ waiting' = [waiting EXCEPT ![c] = NoCorrelation]
    /\ Goes(c, "idle")
    /\ UNCHANGED <<kind, started, serverVars, token>>

\* Mutant: block_on's None leaves the call at the port.
AfterTimeoutKeeps(c) == "idle"

\* block_on after a Pending poll: it gives up at its deadline, and the drop
\* of a future that was sent forgets the call.
AfterTimeout(c) == IF waiting[c] = NoCorrelation THEN "idle" ELSE "forget"
PollPending(c) ==
    /\ at[c] = "pending"
    /\ Goes(c, IF timer[c] = "passed" THEN AfterTimeout(c) ELSE "park")
    /\ UNCHANGED <<vars, kind, waiting, started, serverVars, waking, token>>

\* thread::park and park_timeout: the token is taken, or the time is up.
Unparked(c) ==
    /\ at[c] = "park"
    /\ ClientTask[c] \in token \/ timer[c] = "passed"
    /\ token' = token \ {ClientTask[c]}
    /\ Goes(c, Poll(c))
    /\ UNCHANGED <<vars, kind, waiting, started, serverVars, waking>>

\* A park may end on its own.
ParkEnds(c) ==
    /\ at[c] = "park"
    /\ Goes(c, Poll(c))
    /\ UNCHANGED <<vars, kind, waiting, started, serverVars, waking, token>>

ClientStep(c) ==
    \/ TrySend(c) \/ CheckBound(c) \/ RegisterSlot(c) \/ RegisterOutcome(c) \/ ReadOutcome(c)
    \/ CheckExpiry(c) \/ ForgetCall(c) \/ PollPending(c) \/ Unparked(c)

\* Time: Loopback::advance wakes nobody.
BoundPasses(c) ==
    /\ bound[c] = "ahead" /\ bound' = [bound EXCEPT ![c] = "passed"]
    /\ UNCHANGED <<vars, at, kind, waiting, timer, started, serverVars, waking, token>>
TimeoutPasses(c) ==
    /\ timer[c] = "ahead" /\ timer' = [timer EXCEPT ![c] = "passed"]
    /\ UNCHANGED <<vars, at, kind, waiting, bound, started, serverVars, waking, token>>

-----------------------------------------------------------------------------
ServerGoes(where) == server' = where

\* blocking::serve with a new handle; the served set is registered before
\* the first poll.
OpenServer ==
    /\ server = "off" /\ handler = None
    /\ handler' = nextHandler
    /\ OpenHandler
    /\ UNCHANGED <<clientVars, server, claim, budget, waking, token>>
StartServing ==
    /\ server = "off" /\ handler # None
    /\ Serve(handler, Member) /\ HandsOut({})
    /\ ServerGoes("poll")
    /\ UNCHANGED <<clientVars, handler, claim, budget, token>>

\* Serve::poll registers, with the budget of one poll.
RegisterClaim ==
    /\ server = "poll"
    /\ WaitClaim(handler, ServerTask)
    /\ HandsOut(IF ClaimWaiting(handler) THEN {ServerTask} ELSE {})
    /\ budget' = Budget
    /\ ServerGoes("claim")
    /\ UNCHANGED <<clientVars, handler, claim, token>>

\* dispatch takes the next claim, or only its id when the arguments do not
\* fit; either is settled.
MayTake == budget > 0
TakeClaim ==
    /\ server = "claim" /\ MayTake
    /\ \E fits \in BOOLEAN : NextClaim(handler, fits)
    /\ LET c == pending[Min(Servable(served[handler]))]
       IN  claim' = calls'[SlotOf(c)].claim
    /\ HandsOut({})
    /\ ServerGoes("settle")
    /\ UNCHANGED <<clientVars, handler, budget, token>>
SettleTaken ==
    /\ server = "settle"
    /\ \E outcome \in {"Ok", "Err"} : Settle(handler, claim, outcome)
    /\ HandsOut({})
    /\ claim' = None /\ budget' = budget - 1
    /\ ServerGoes("claim")
    /\ UNCHANGED <<clientVars, handler, token>>

\* No claim is left, or the poll stopped at its budget and wakes itself.
ServePending ==
    /\ server = "claim" /\ (~MayTake \/ ~ClaimWaiting(handler))
    /\ waking' = waking \cup (IF budget = 0 THEN {ServerTask} ELSE {})
    /\ ServerGoes("pending")
    /\ UNCHANGED <<vars, clientVars, handler, claim, budget, token>>

\* block_on of the server: it parks, or its timeout has passed and the handle
\* is dropped; the program serves again with a new one.
ServePark ==
    /\ server = "pending"
    /\ ServerGoes("park")
    /\ UNCHANGED <<vars, clientVars, handler, claim, budget, waking, token>>
StopServing ==
    /\ server = "pending" /\ nextHandler <= MaxHandlers
    /\ CloseHandler(handler)
    /\ waking' = waking \cup ({r[4] : r \in asleep \ asleep'} \ {ServerTask})
    /\ handler' = None
    /\ ServerGoes("off")
    /\ UNCHANGED <<clientVars, claim, budget, token>>
ServerUnparked ==
    /\ server = "park" /\ ServerTask \in token
    /\ token' = token \ {ServerTask}
    /\ ServerGoes("poll")
    /\ UNCHANGED <<vars, clientVars, handler, claim, budget, waking>>

ServerStep ==
    \/ OpenServer \/ StartServing \/ RegisterClaim \/ TakeClaim \/ SettleTaken
    \/ ServePending \/ ServePark \/ ServerUnparked

\* Unpark::wake, after the lock of the step that took the waker is released.
Unpark(task) ==
    /\ task \in waking
    /\ waking' = waking \ {task} /\ token' = token \cup {task}
    /\ UNCHANGED <<vars, clientVars, serverVars>>

FaceNext ==
    \/ \E c \in Callers :
        \/ Bind(c)
        \/ \E k \in Kinds, max, timeout \in Limits[c] : Call(c, k, max, timeout)
        \/ ClientStep(c) \/ SendRefused(c) \/ ParkEnds(c)
        \/ BoundPasses(c) \/ TimeoutPasses(c)
    \/ ServerStep \/ StopServing
    \/ \E task \in Wakers : Unpark(task)

FaceSpec == FaceInit /\ [][FaceNext]_allVars

-----------------------------------------------------------------------------
\* A parked thread nobody is about to unpark has nothing to do and its waker
\* is where the next change finds it: no wake is lost between a poll and the
\* park after it, whatever runs between a registration, a read and the wake.
Asleep(task) == task \notin token \cup waking
SleepsSoundly ==
    /\ \A c \in Callers : at[c] = "park" /\ Asleep(ClientTask[c]) =>
        IF waiting[c] = NoCorrelation
        THEN FreeSlots = {} /\ slotWaker[c] = ClientTask[c]
        ELSE Outcome(c) = NoOutcome /\ slots[SlotOf(waiting[c])].waker = ClientTask[c]
    /\ server = "park" /\ Asleep(ServerTask) =>
        ~ClaimWaiting(handler) /\ claimWaker[handler] = ServerTask

\* When a call of the blocking client has returned, with its outcome, at its
\* bound, at its timeout or refused, nothing of it waits at the port: a call
\* that is left is forgotten and in a handler's hands.
NothingLeftWaiting ==
    \A c \in Callers, i \in Slots :
        at[c] = "idle" /\ calls[i] # NoCall /\ calls[i].caller = c =>
            calls[i].forgotten /\ calls[i].claim # None

=============================================================================
