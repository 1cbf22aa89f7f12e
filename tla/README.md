# ridl: TLA+ models, model checking and proofs

This directory holds the specifications of the parts of ridl whose correctness
depends on the *order* of things: the runtime contract (`crates/ridl-rt`), the
in-process runtime that implements it (`crates/ridl-loopback`), the WebSocket
transport on top of it with its TypeScript client, and the three records that the
command line keeps in files: the published baseline, the interface lock and the remote units.
Every definition is a translation of the source; `PROJECT.json` maps each one to the lines it stands for.

    tlc -workers 2 -config MCCallTable.cfg MCCallTable     # one run
    tlapm CallTableProofs.tla                              # the proofs of one module

A module `X` that something is proved about has its theorems in `XProofs`:
`CallTableProofs`, `LoopbackPartsProofs` (of the node, signals and events, as
`MCLoopbackParts`), `LoopbackCallsProofs`, on top of it `LoopbackPortProofs`, and on
top of that `BlockingFaceProofs` (which uses what they prove of the store),
`WsServerProofs` (of the server session, and of the calls at both ends of a
connection), `WsProvidedProofs` (of the provided calls, and of the signals at both
ends), and `RecordsProofs` (of the interface lock, the remote units and the
baselines, as `MCRecords`) (section 4).

## 1. The system and its parts

ridl is an interface description language. Most of its crates are a compiler:
text in, text out. The part that runs beside user programs is small, concurrent
and stateful, and it is where most of the models are. What the command line
writes to disk is read, replaced and merged by other processes and by git, and
that is where the others are.

| Part | State it keeps | Operations | Modelled by |
| --- | --- | --- | --- |
| `ridl-rt` `correlate::Table<N>` | `N` slots (generation, state, outcome, reservation, wakers), a byte budget | insert, settle, forget, outcome, wake_on, wake_on_stream, take_stream(s) | `Correlate`, `CallTable` |
| `ridl-rt` `port::Caller` | what a caller sees of each call | command, query, ack, reply, forget | `CallPort` (abstract) |
| `ridl-loopback` calls | the table, one entry for each call, the queue of waiting calls, claims, caller and handler handles | send, ack, reply, forget, serve, next_claim, settle, the drops of both handles, registrations | `LoopbackCalls` |
| `ridl-loopback` streams | for each call, streams of chunks with an end, a stop and a waker on each side | pull, push, end, abort from both sides, end_claim, abort_claim, registrations | `LoopbackStreams` |
| `ridl-loopback` signals | the published entry and check of each channel, a generation for each interface, each writer's staged changes | set, invalidate, touch, commit, check_with, read, scan, advance | `LoopbackSignals` |
| `ridl-loopback` events | each source's subscription, queue and waker, each sink's counters | open, close, subscribe, unsubscribe, raise, next, wake_on | `LoopbackEvents` |
| `ridl-loopback` `Node` | stores by catalog, grants, reservations by identity | attach, drop of an attachment | `LoopbackNode` |
| `ridl-rt` `task::block_on` | the unpark token of a thread | poll, park, wake | `BlockingFace` |
| generated Rust face (`ridl-backend-rust` `face/`) | the phase of each call future, the deadlines, the served handle and its budget | a client's method, `Future::poll` and drop, `serve`, `dispatch` | `BlockingFace` (commands and queries) |
| `ridl-transport-ws` server session | calls in flight, kept responses, uploads, reply streams and their credit; subscriptions, seq and last sample of each signal, the scan mark | on_message, tick, poll_calls, poll_signals | `WsServer`, `WsServerSession`, `WsSignals` |
| `ridl-transport-ws` provided ports | the claims forwarded to a remote provider | tick, response, expire, down | `WsProvided` |
| TypeScript client (`packages/ridl-transport-ws`) | calls with timers and credit; queued operations, subscriptions, held samples; the calls a provider handles | command, query, stream, uploads, duplex; subscribe, unsubscribe, read; dispatch; close, frames received | `WsCalls`, `WsSignals`, `WsProvided` |
| `ridl baseline`, `ridl diff` | a directory of snapshots, a transaction marker, staging and backup directories | stage, publish, roll back, read | `BaselinePublication` |
| `ridl lock`, `ridl lock merge` | `interfaces.lock`: next number, entries | allocate, rename, retire, merge | `InterfaceLock` |
| builds and `ridl vendor` with remote units | `ridl.lock`, a content-addressed cache, `vendor/` | fetch, store, pin, verify, vendor | `RemoteUnits` |
| parser, resolver, checker, IR, descriptors, back ends, diff, formatter | none between calls | pure functions of text | not modelled |
| language server, MCP server | open documents, salsa memo tables | request handlers | not modelled |
| other commands, xtask, conformance suites, editor plugin | none | sequential commands and tests | not modelled |

How they interact. Every loopback handle (reader, writer, source, sink, caller,
handler) is a reference to one `Store` behind one mutex. `handle.rs::locked` runs
one store operation under the lock with a list of wakers to fill, releases the
lock, and wakes them. So an operation is a critical section, tasks interleave
between operations, and no waker runs inside one: **each action of the models is
one critical section, together with the wakers it takes.** A consumer that waits
*registers* (`wake_on`) and then *reads*; both are store operations, and another
handle may run between them. The store's call half embeds the correlation table
of `ridl-rt` and must keep its own maps in step with it. The generated face drives
the ports: a blocking client is `block_on` over a call future, a server is
`block_on` over `Serve`, and what one thread wakes another must see. A `Node`
hands out the handles of several stores by instance number.

A WebSocket session owns ports of a runtime as any program does. Its loop
(`run_upgraded_clock`) handles one message or runs one tick at a time; the
provider behind the ports moves between any two of its port calls. The client is
one JavaScript event loop: a frame, a timer or a call of the user at a time. The
two directions of the socket are first in, first out, until the connection is
lost; the client does not reconnect. `ridl baseline` and `ridl diff` meet only in
the file system, and so do the commands that build with remote units; lines of
development meet only in git's merges.

What is hard here:

* a call is in one of many places (waiting, offered to a handler with too short
  a buffer, held, settled, forgotten, settled with unread stream parameters,
  forgotten with the forget deferred) and forget, settle and the drop of either
  handle may come in any of them;
* slots are reused, and correlations and claim ids outlive the calls they name;
* wakers are stored in cells that are overwritten, taken and dropped; one that
  is dropped unwoken is a task that sleeps for ever;
* a settlement may fail and be tried again; a handler may be dropped with half
  of a stream moved;
* both ends of a connection forget calls on their own while frames about them are
  under way, requests are repeated, and answers of signals carry no correlation;
* a publication of many files is interrupted, fails, fails to roll back, overlaps
  another one or is read meanwhile;
* numbers that must never move are allocated on several branches and merged;
* a cache is filled and a vendored tree replaced while a process dies, another one
  does the same, or the server serves something else under the same version.

`PROJECT.json` lists these as hazards, each at the line where it bites, with the
properties that would catch it.

## 2. The modules

### `Correlate` and `CallTable`: `ridl_rt::correlate::Table`

`Correlate` is one slot: a record with the generation, the state (`Free`,
`InFlight`, `Forgotten` for `InFlight { forgotten: true }`, `Settled`), the
outcome, the reservation, the outcome waker and the stream wakers. Each table
operation is an operator from slot to slot, with a companion operator for the
answer (`SettleAnswer`: Recorded, Reclaimed, Unknown). A correlation is the
number `generation * SlotSpan + index`, decoded with `\div` and `%`; a generation
is advanced modulo `GenSpan`. A waker is the task it wakes.

`CallTable` is the whole table under any sequence of calls, made-up and stale
correlations included. `settle` and `forget` are taken together with the
`take_streams` that their contract requires under the same lock. Calls that the
table answers with Unknown or with the waker handed back change nothing and are
left out of `Next`. History variables record what was issued, what was forgotten
and who is asleep.

### `CallPort`: what `ridl_rt::port::Caller` promises

The abstract specification of a call as its caller sees it, with no slots, no
queue and no provider: `Unsent`, `Pending`, `Answered` with an outcome, and
`Forgotten`. A send starts one call; an answer is given once and does not change;
a forget (or the drop of the caller) ends calls for good; nothing else happens to
a call. `CallTable` and `LoopbackCalls` each define `View(c)`, the caller's view
computed from their own state, and `PortSpec`, the abstract specification under
that mapping. `Reply` hides the outcome of a settled call whose forget is
deferred, and that is where the mapping of the loopback says something: the
table still holds the answer, the port must not show it.

### `LoopbackCalls` and `LoopbackStreams`: the call half of `Store`

The store threads a `wake` list through its helper functions; the model does the
same with a *cell*: a slot of the table, the call's entry, the set of
registrations woken so far, and whether the slot was freed or a panic reached.
`Withdraw`, `Reclaim`, `ForgetInTable`, `DeferForget`, `SettleCell`,
`InterruptClaim` and so on are functions from cell to cell, named as in the code,
and an action applies one to the cells it touches (`Apply`). An `unreachable!`,
`expect` or map index that would fail sets `panicked`.

`NextClaim(h, fits)` is `next_claim`: with `fits` false it is the ShortClaim
answer, which mints (or moves) a claim and leaves the call queued. `CloseHandler`
is the whole of `close_handler`: the calls it settled, the calls it held, what is
returned in send order, what is interrupted and what is withdrawn.
`SettleFails` is the store's own failure hook.

`LoopbackStreams` EXTENDS it with both sides' stream operations, the window of
non-empty chunks, and the reply stream's `end_claim`/`abort_claim`, which settle.

### `LoopbackSignals`, `LoopbackEvents`

`LoopbackSignals` keeps the staged changes on the writers, as the code does, so
`commit` meets a store that other handles changed since. A check is the set of
values it accepts. `Scan` is given the marks in the order they are passed and the
length of the buffer; `Served` are the leading marks whose changes fit in it one
interface after the other, which is where the code's loop breaks off, and only
those move. `LoopbackEvents` is the sources, with history variables for what each
subscription is past and who is asleep; a queue after an unsubscribe is what its
filter keeps, in order (`Filtered`).

### `LoopbackNode`: `Node::attach` and the drop of an attachment

The stores and grants are computed from the descriptor (`Local`, `Grants`,
`Stores`): a catalog name may be embedded under several hashes, and each is
granted. The thread of an attachment takes `Attach` (everything `attach` answers
without the mutex; what it refuses there changes nothing and is left out),
`Check` or `Refuse`, `Count`, and `OpenPorts`; the mutex is a variable, held from
`Check` to `Count`. A drop follows the order of the fields: `Drop`, one
`DropHandle` for each of the handles that closes itself in the store (source,
caller, handler), `DropReservation`. `Wrapped` keeps the negation of an i32: the
listener is `-MaxNo - 1`, the one number whose negation is not in range.

### `BlockingFace`: generated clients and server over the loopback

EXTENDS `LoopbackCalls`. Each client is a thread that makes blocking calls one
after the other; the server is a thread in `blocking::serve`. A step is one port
call (one critical section of `LoopbackCalls`) or one decision of the future or
of `block_on`. `at` and `server` are the program counters:

| Code | Actions |
| --- | --- |
| `Client::method`: deadlines and first send | `Call`, `TrySend`, `SendRefused` |
| `poll` in `Unsent`: bound, `wake_on(Slot)`, send | `CheckBound`, `RegisterSlot`, `TrySend` |
| `poll` in `Waiting`: `wake_on(Outcome)`, read, bound, forget | `RegisterOutcome`, `ReadOutcome`, `CheckExpiry`, `ForgetCall` |
| drop of the future at the timeout | `PollPending`, `ForgetCall` |
| `block_on`: deadline, park | `PollPending`, `Unparked`, `ParkEnds` |
| `Unpark::wake` of a waker taken earlier | `Unpark` |
| `serve`, `Serve::poll`, `dispatch` | `OpenServer`, `StartServing`, `RegisterClaim`, `TakeClaim`, `SettleTaken`, `ServePending` |
| `blocking::serve` at its timeout | `StopServing` |

The store hands wakers out under its lock and they are woken after it: `waking`
holds them in between, so a wake may arrive before, during or after the next
poll or park. Time is two flags for each call: its bound on the port's clock,
which nobody is woken for, and `block_on`'s deadline, which ends a park.

### `WsServer` and `WsServerSession`: the calls of one server session

`WsServer` is `server/session.rs` with `calls.rs` and `upload.rs`: the calls in
flight, the kept responses with their ring and their expiry, and the streams. A
message handler is one action (`OnMessage`: `Request`, `ReceiveChunk`,
`EndUpload`, `StopStream`, `Grant`), with everything it drains, answers and
closes. The tick is `StartTick` and one `PollCall` for each call that was in
flight then, because the ports move between them. What a port answers is any
answer its contract admits. Ages saturate at the bound they are compared with.
`WsServerSession` puts any client in front of it: one that repeats requests,
overruns its credit, skips a chunk, goes silent or breaks the protocol.

### `WsCalls`: both ends of the calls of a connection

EXTENDS `WsServer` with the client's call table (`calls.ts`, `duplex.ts`): the six
shapes of call, the writes that wait for credit, the reads that grant it, the
timers, cancellation, and what each frame does to a call that is there, settled
or gone. `Lose` cuts the connection with all that is under way in it; each end
then notices on its own (`ClientEnds`, `ServerEnds`).

### `WsSignals`: both ends of the signals of an interface

The server subscribes in two steps (mark, fetch) and polls in several (scan,
then fetch each signal), with the provider's commits between any of them, and
numbers its publishes per signal (`PublishSeq`). The client keeps a queue of
operations for each signal, gives an answer to its head and drops a publish with
a seq it holds. A frame carries, beside what the wire does, the operation it was
sent for; only the properties look at it.

### `WsProvided`: calls served by a remote provider

Claims of a local port are taken one by one by the tick (`TakeGood`,
`TakeRefused`, `TakeShort`), forwarded under a fresh seq, and settled by a
response, by their deadline or by the end of the session; `provision_calls.ts`
dispatches them, tells repeats by the highest seq and keeps its last responses.
The callers withdraw, the port goes and the connection is lost at any moment.

### `BaselinePublication`: `ridl baseline` and `ridl diff` on one directory

A file is the publication that wrote it and whether it is whole. A process is a
program counter over `run_baseline`, `publish_baseline` and `replace_with_io`:

| Code | Actions |
| --- | --- |
| the check for a marker, staging, the compile and the gates | `Begin`, `Stage`, and their refusals |
| `publish_baseline`: a directory is there or not | `Probe`, `FirstPublished`, `FirstFailed` |
| the list of the directory, the backup, the marker (`create_new`) | `Scan`, `Mark`, `WriteMarker`, and their failures |
| the loop over the fresh files, the context last: `link_or_copy`, `rename` | `LinkOld`, `Install`, and their failures |
| old files without a replacement | `MoveStale`, `MoveStaleFailed` |
| success: marker, staging, backup | `Commit`, `Unmark`, `Clean` |
| rollback in reverse: retract, restore, marker | `Retract`, `Restore`, `Settle`, and their failures, `SettleIncomplete` |

`Crash` ends a process between any two steps. `DiffBegin`, `DiffList`, `DiffRead`
and `DiffContext` are `load_diff_side`: the marker, the list, the files one by
one, the context and its fingerprints.

### `InterfaceLock`: numbers on a main line and its branches

A line is what it declares and its table: `next` and the entries. `Allocate`,
`Rename` and `Retire` are the forms of `ridl lock`; `Merge` is the three-way merge
of `interface_lock.rs`, number by number, with the entries of theirs that both
sides allocated renumbered from `next` and a live key on two numbers refused.
`Land` merges a branch into the main line, `Update` the main line into a branch.
Author and git are external. A branch that has allocated lands before it is
updated, as the design of the lock asks (`docs/archive/2026-09-13-lock-design.md`,
lines 396-401): in a merge *into* the branch, ours would be the branch, and the
numbers of the main line would give way.

### `RemoteUnits`: `ridl.lock`, the cache and `vendor/`

A directory is the artifact its files are from and whether all of them are there;
its `tree` hash is just that. A command is a record: what it read of the manifest
and the lockfile, the imports it has still to resolve, the lock entries it has so
far, and where it is.

| Code | Actions |
| --- | --- |
| `load_remotes`: manifest and lockfile are read | `StartCommand` |
| `materialize_imports`: a vendored tree with a pin, a cache hit, a frozen miss | `ServeVendored`, `CacheHit`, `FrozenMiss` |
| `fetch`, the checks after it | `Miss`, `Fetch`, `FetchFails`, `VerifyFetched` |
| `Cache::store`: staging directory, unpack, rename or adoption | `StoreHit`, `StoreStage`, `StoreUnpack`, `StoreRename`, `StoreFails` |
| `write_lockfile` (`fs::write`: truncate, then write) | `LockTruncate`, `LockWrite`, `LockWriteFails`, `LockKept` |
| the units are read, the command answers | `Load`, `Answer` |
| `write_vendor`: leftovers, copy and check, the two renames, the old tree, strays | `ClearLeftovers`, `LeaveAsIs`, `Copy`, `CopyChecked`, `SwapOut`, `SwapIn`, `DropOld`, `RemoveStray`, `StrayRemoved`, `Vendored`, and their failures |

`Die` ends a command between any two steps; its process id may be used again, so a
later command may find its staging directories. `Release` (the server serves
something else) and `EditImports` are external.

### Abstractions

Argument and reply bytes, envelopes, trace contexts, byte limits and time stamps
of calls and events are left out: no branch that changes state depends on their
content, only on lengths, and a refused length changes nothing. A chunk of the
loopback is `"bytes"` or `"empty"`, because the window counts non-empty chunks
only; one of the transport is within its limit or `big`. Outcomes are `Ok`, `Err`,
and the two the store makes itself, `Undelivered` and `Interrupted`; the refusals
of the session that differ only in their code are one.

## 3. The runs

| Run | Instance | Checks |
| --- | --- | --- |
| `call_table` | 2 slots of 3 indices, 2 generations, budget 2 or none, 2 tasks, 2 streams with 1 waker cell | `BudgetConserved`, `NoLostWaker`, `ForgottenStaysForgotten`, `PortSpec`, `NeverReissued` |
| `loopback_calls` | 2 slots, 2 callers, 2 handlers, 2 sends, 1 failed settlement, 1 task | `StoreConsistent`, `WakeOnChange` |
| `loopback_streams` | 1 slot, 1 caller, 1 handler, 1 call with a parameter and a reply stream, queue and window of 1, 1 failed settlement, 1 task | `StreamsConsistent`, `EndedParameterKept`, `StreamWakeOnChange` |
| `loopback_release` | 1 slot, 1 caller, 2 handlers, 1 command, fair providers | `ForgottenComesBack`, `ServedIsSettled`, `PortSpec` |
| `loopback_parts` | node: 3 attachments, 3 instances of which 2 local, twins and the listener. Signals: an interface of two channels beside one of one, 2 commits, good and bad values, late checks, buffers of 1 to 3. Events: 1 sink, 2 sources, 2 events, 3 raises of each, 2 tasks | `NoOpposites`, `RefusedForLive`, `PublishedExactly`, `NothingMissed`, `OwedAndAwake` |
| `blocking_face` | 1 slot, 2 clients, 2 queries with bound and timeout, a server with a budget of 1 that restarts once | `SleepsSoundly`, `NothingLeftWaiting` |
| `ws_server` | a command with 2 uploads, a bounded query with one, a duplex query; 5 messages out of 24 frames; 1 kept response | `OneAnswer`, `SilentAfterEnd`, `NeverPresentedAgain`, `CallsEnd` |
| `ws_calls` | one call of each of the 6 shapes, credit 1, 2 writes, 1 read, a connection that may be lost | `NoViolation`, `CreditConserved`, `UploadsWhole`, `EveryCallSettles` |
| `ws_signals` | 2 signals and one the provider refuses, 2 commits, 3 operations, scanning and polling | `EndsAgree`, `OperationsSettle`, `HeldConverges` |
| `ws_provided` | 3 claims of every shape over 2 places | `ClaimsMatch`, `ClaimsSettle` |
| `records` | baseline: an earlier publication or none, 2 publishers, 3 snapshots and the context, 1 reader. Lock: 2 branches and the main line, 2 names, 3 numbers, 5 edits. Units: 2 commands, beside each other or one after the other, 1 import and 2 artifacts, 1 change of what is served, 1 edit of the manifest | `BaselineRecoverable`, `ReadsAreWhole`, `TablesWellFormed`, `StoresWhole`, `PinsHold`, `MainPermanent`, `OrphansAreRecent` |
| `baseline_overlap` | 2 publishers that each replace one snapshot and add one | `PublishedWholesale`, violated |

`loopback_parts` and `records` follow one of their three parts, which share no state: it
is chosen in the initial state and the others rest, so each part is explored as if
alone.

Several properties are conjunctions of named parts, each with its own comment:
`StoreConsistent` (`NoPanic`: no lookup the code expects to succeed fails;
`EntriesMatchTable`; `InFlightSomewhere`: a call is in exactly one place;
`ClaimsNameCalls`; `WaitingInSendOrder`), `StreamsConsistent` (`NoSlotLost`,
`WaitingStreamsUntouched`, `DeferredWhileUnread`, `NoStreamWithoutReader`,
`NoLostWaker`), `PublishedExactly` (`LiveChecked`, `GenerationIsOneCommit`,
`GenerationHasChange`), `OwedAndAwake` (`QueuedIsOwed`, `SleepsOverNothing`),
`EndsAgree` (`SameSeqSameSample`, `SubscriptionsAgree`, `AnswersExact`),
`ClaimsMatch` (`RightClaim`, `NoClaimLost`, `RequestsAreNew`) and
`BaselineRecoverable` (`WholeUnlessMarked`, `NothingLost`).

**The finding.** `replace_with_io` lists the directory before it takes the marker,
and `run_baseline` looks for a marker before it compiles. When two runs of `ridl
baseline` overlap so that one lists, the other publishes and finishes, and the
first then takes the marker, it replaces and removes what it listed: a snapshot
the other one added stays beside it, unmarked, although the comment on
`run_baseline` (`crates/ridl/src/main.rs:905`) says that the directory "ends up
holding exactly the packages the workspace declares now". `baseline_overlap`
shows it. The same staleness lets a rollback retract a name of which no backup
was made, and lets the gates compare with a publication that is replaced since.
`WholeUnlessMarked` and `NothingLost` therefore speak of publications whose list
was right when they took the marker; the variable `history` remembers whether one
was not. `ReadsAreWhole` holds without that condition, because the context is
checked last.

**What the other runs say beyond "it holds".**

* `AnswersExact` is conditional. `docs/design/ridl-transport-ws-ts.md:298` says of
  the client's queue "This is exact for the server as built". It is, as long as no
  publish settles a read it was not sent for; after one, the read's own refusal
  may reject the next operation on the signal. `SubscriptionsAgree` and
  `HeldConverges` say what still holds then.
* `OrphansAreRecent` has an exception. `docs/archive/2026-09-13-lock-design.md:309`
  says that merging two clean branches never leaves the main line unclear. One
  line may delete a declaration that has no entry yet while the other gives it
  one: both build and their merge has an orphan. The property is that this is the
  only way.
* `PinsHold` is conditional. `ridl.lock` is read when a command starts and written
  back at its end with no lock, truncated first: a command that overlaps another
  one's write may undo its entry, and one that dies in between leaves the file cut
  short. The property speaks of runs in which neither happened. What it says of
  `vendor/` and of what is loaded also needs the manifest not to be edited under a
  running command: with the lockfile never lost, a `ridl vendor` may wait before its
  copies while its import is removed, dropped from the lock, imported again at
  another artifact and vendored by a second command, and then swaps its own, stale
  unit in. It takes two edits and three commands, more than the instance below has;
  the attempt to prove the property without the condition showed it, and a run with
  two URLs and those numbers confirmed it. `StoresWhole` holds without any condition.
* `ReadsAreWhole` is about a directory that has a context. A legacy baseline, and
  readers that do not compare the fingerprints, have only the marker.

**Bounds and why they are enough.** A call meets at most one caller and the
handlers that are presented it one after the other, so two handlers give every
"returned by one, taken by another" case and two slots every "one call beside
another". The returned-call order needs a call that returns in front of one that
waits. Stream windows and queues of one separate full from empty, and an empty
chunk passes a full window. Slot spans larger than the table (3 against 2) keep
correlations whose slot does not exist. Two generations make the table wrap
(`GenSpan = MaxLives`), which is exactly the cycle `NeverReissued` promises. The
scan needs an interface that fits where another does not. `OutcomeStable` has no
run: it is proved, and `PortSpec` implies it.

Two clients and one slot make every wait for a slot happen, with another client
that may take it first, and a budget of one makes the server stop with claims
waiting; a bound or a timeout that is ahead may pass at any step or never.

Five messages are a request, two frames of its streams, a stop and a repeat, or
two requests with a repeat that meets an evicted response (one is kept). Credit of
one with two writes makes a write wait, a grant cross a chunk and an end cross a
grant. The calls of one connection do not share credit or timers, so one call of
each shape is enough for `ws_calls`; what several calls share, the seq and the
kept responses, is in `ws_server`. Three operations are a subscribe, an
unsubscribe and what follows them; two commits one that is published and one
that crosses it. Three claims over two places give a full table and a seq given
out again. The publications of `records` replace, add and drop files, in either
order or overlapping. Three numbers let both branches allocate one and the loser
be renumbered, and five edits let one of them rename or retire what it allocated
(six were explored as well). Two commands on remote units are beside each other,
or one after the other that ended or died, with its process id or another; one release lets
what is served differ from what is pinned, one edit leaves a stray behind. (What takes
more than that is the subject of the proofs of section 4.)

**Deadlock** is checked in `loopback_parts`, `records` and `baseline_overlap`. In
the others handles, sends, messages and operations are bounded, or a session
ends, so they reach states where nothing is left to do, and so does the program.

**Fairness.** `FairSpec` (`loopback_release`) assumes that an open handler
goes on taking claims with a long enough buffer, that it settles each claim it
was presented (again after a failed settlement), and that the provider reads the
parameters of a call on to their end. These are the duties of the serve loop the
Rust back end generates and of the handler contract in `port.rs`; a provider that
stops doing them is dropped, which is the unfair action `CloseHandler`. Nothing
is assumed of callers: they may forget, abort, keep or drop at any time.

The WebSocket runs assume that the two event loops run: the connection's loop
(`server.rs`, `run_upgraded_clock`) selects between the next message and the next
tick, so it takes both again and again, and a tick that has begun goes on. Strong
fairness is used where an action waits for the tick or the handler under way to
end (`Tock` and `Age`, the passing of time; `StartPoll` and the messages of
`WsSignals`): it is disabled meanwhile but enabled again each time the loop comes
round. A timer that is set fires. Nothing is assumed of the user, of the provider
or its handlers, or of the network: a provider may never answer, a client may go
silent and a connection may be lost or not.

## 4. What is proved

Each theorem holds for every value of the constants that the named assumptions
admit: any number of slots, threads, sources, branches, commands or publishers.

| Module | Theorems | Assumption |
| --- | --- | --- |
| `CallTableProofs` | `TypeCorrect`, `WakersKept` (`NoLostWaker`), `ForgottenIsFinal` (`ForgottenStaysForgotten`), `CorrelationsFresh` (`NeverReissued`), `OutcomesStable` (`OutcomeStable`), `BudgetKept` (`BudgetConserved`), `TableImplementsPort` (`PortSpec`: the table implements `CallPort`) | `TableAssumption`, `KeyAssumption`, `BudgetAssumption`, `LivesAssumption`, those of `Correlate` |
| `LoopbackPartsProofs` | of the node: `ReservationsExact` (`ReservedExactly`), `OppositesExcluded` (`NoOpposites`), `RefusalsJustified` (`RefusedForLive`); of signals: `PublicationsCoherent` (`PublishedExactly`), `ScansComplete` (`NothingMissed`); of events: `SubscribersServed` (`OwedAndAwake`) | `NodeAssumption`, `SignalAssumption`, `EventAssumption` |
| `LoopbackCallsProofs` | `StoreStaysConsistent`, of the calls, and `StoreStaysConsistentWithStreams`, of the calls with their streams (`StoreConsistent`); `StreamsStayConsistent` (`StreamsConsistent`) | `LoopbackAssumption`, `NoneAssumption`, those of `Correlate` |
| `LoopbackPortProofs` | `LoopbackImplementsPort` (`PortSpec`); `LoopbackWakesOnChange`, with streams, and `CallsWakeOnChange`, without (`WakeOnChange`); `LoopbackKeepsEndedParameters` (`EndedParameterKept`); `LoopbackWakesStreamsOnChange` (`StreamWakeOnChange`) | those of `LoopbackCallsProofs` |
| `BlockingFaceProofs` | `BlockingFaceUsesStore` (the threads refine the store's calls), `BlockingFaceSleepsSoundly` (`SleepsSoundly`), `BlockingFaceLeavesNothing` (`NothingLeftWaiting`) | `FaceAssumption`, those of `LoopbackCallsProofs` |
| `WsServerProofs` | `AnsweredOnce` (`OneAnswer`), `EndsAreSilent` (`SilentAfterEnd`), `PresentedOnce` (`NeverPresentedAgain`), `SessionInvariant`; of calls, both ends: `CallsNeverViolate` (`NoViolation`), `CallsConserveCredit` (`CreditConserved`), `CallsUploadsWhole` (`UploadsWhole`) | `WsServerAssumption`; `FramesAssumption`; `WsCallsAssumption` |
| `WsProvidedProofs` | `ResponsesMatch` (`ClaimsMatch`); of signals, both ends: `SignalsEndsAgree` (`EndsAgree`) | `WsProvidedAssumption`; `WsSignalsAssumption` |
| `RecordsProofs` | of the interface lock: `LocksParse` (`TablesWellFormed`), `NumbersPermanent` (`MainPermanent`), `OrphansExplained` (`OrphansAreRecent`); of the remote units: `StoresStayWhole` (`StoresWhole`), `PinsStay` (`PinsHold`); of the baselines: `DiffsAreWhole` (`ReadsAreWhole`), `BaselineStays` (`BaselineRecoverable`) | `LockAssumption`; `RemoteAssumption`, `NoneAssumption`; `PublicationAssumption`, `AbsentAssumption` |

None of the properties is inductive alone. What each needs besides, and why:

**The table.** Assumptions: the spans are positive naturals, the table has at most `SlotSpan`
slots (`SLOT_INDEX_FITS`), the marker values are not values, and a slot is
reclaimed at most `GenSpan` times. The last one is the honest limit of the
design: after 2^48 lives a slot issues its first correlation again.

The inductive invariant `IInv` adds three facts to `TypeOK` and `NoLostWaker`:

* `GenerationCountsLives`: a slot's generation is the number of its lives
  until the last one, and a slot that holds a call has a life left, so
  generations never repeat within the cycle;
* `IssuedBefore`: an issued correlation has a generation no later than its
  slot's, and an earlier one when the slot is free, so a free slot's next
  correlation was never issued;
* `ReleasedBefore`: a forgotten correlation has an earlier generation than its
  slot's, or names the call in it that is marked forgotten.

`NoLostWaker` says a sleeping task's waker is in the slot of the very call it
named; together with `Held` it tells two calls of one slot apart. `ReclaimInv`
proves the one hard step, a slot that is freed, once for both of its callers
(settlement of a forgotten call, forget of a settled one); `AwakeElsewhere`
shows that a waker not handed out by it is another slot's. `CorrelationHalves`
and `NextGeneration` are the arithmetic of encoding, decoding and masking.

The refinement needs one more invariant, `MarkedReleased` (a slot that is marked
forgotten holds a call whose correlation was released), because the view of such
a call is `Forgotten` and not `Pending`. Each action changes the view of one
correlation at most: `OneCall` says that two correlations of one slot of which
both name the call in it are the same, so `InsertView`, `SettleView` and
`ForgetView` each exhibit the one call that moves, and `WakerView` and
`WakersView` show that registrations and taken wakers move none.

`BudgetConserved` speaks of a sum over the slots, a fold that takes the elements of
a set one by one. `SumsExist` proves that there is a function the fold denotes, and
`SumsChanged` what one changed slot does to it, each by a least counterexample in
the number of elements (induction over a set, with no operator to instantiate). Then
every step is `Balanced`: it leaves a slot's reservation and the budget alone,
debits one and enters it in the other, or credits it back. `BudgetInv` adds that a
free slot reserves nothing; a credit never saturates, because the budget and what
is reserved are the capacity, which is at most `BudgetMax`.

**The node.** Assumptions: finitely many attachments, and the descriptor's
instances are positive numbers. The inductive invariant `NodeInv` adds to `TypeOK`
and `ReservedExactly`:

* `CheckStands`: a thread between its check and its count holds the mutex, and
  what it checked is still so, which is the reason for the lock to span both;
* `Numbered`: a thread that attaches or is attached has a number, and ports are
  open only on an attachment that holds a reservation (the order of the drop);
* `NoOppositeReservations`: no two holders of a reservation have opposite
  numbers. `NoOpposites` follows through `Numbered`.

`ReservedExactly` is about cardinalities: the lemmas on adding a holder to and
taking one from a finite set carry the two steps that change the counts.

**The signals.** Assumption: a channel is a number within its interface, what
stands for no value is none, and times and commits are counted up to a bound. `PublishedBefore` (nothing published is of a later generation, commit or
time than the last one) is why a commit's new generation is a fresh name: the
channels that carry it are exactly those the commit published. `MarksBehind` (no
mark is ahead of its interface) is why a scan that serves an interface moves its
mark forward and never back over a change. The steps that stage, read or advance
disturb neither; `CommitInv` and `ScanInv` are the two that have to be worked for.

**The events.** Assumption: sources and raises are counted up to a bound, and no
task is the marker for none.
`AllOwed` says of each source that its queue is in order and that the occurrences
of each event in it are exactly the numbers after the last one read, up to the
last one raised, when the event is subscribed, and none otherwise. It rests on
`ClosedAreEmpty` (a source number that is opened has nothing left from an earlier
life) and `ReadIsRaised`. The lemmas on queues (`OwedAppended` for a raise,
`OwedRead` for a read, `OwedFiltered` for an unsubscribe) carry it through the
three steps that change a queue; `PlaceCounts` counts the places a filter keeps.
`SleepsOverNothing` is inductive beside it: a raise wakes the sources it serves.

**The calls of the loopback.** Assumptions: the table has no more slots than a
correlation has room for, the bounds are naturals and stay below the generations
of a slot, a stream number is a natural and 0 the reply stream, and what stands
for no entry and no owner is neither. `IInv` is what the steps keep:

* `CellsOK` relates a slot to the entry of its call, and the marks of a forget to
  the state of the slot: a call is marked in the table exactly when it is
  forgotten and the forget is not deferred, so `withdraw`, `settle` and
  `interrupt_claim` always meet an answer they expect (`NoPanic`);
* `Numbered`: sends and claims are numbered apart, and there are claim ids left for
  the calls that have none, which is why a claim minted is no other call's;
* `ClaimsOK`: a claim on record names the one call that carries its id;
* `QueueOK`: the queue lists, once each and in send order, the calls that wait
  (not settled, not taken by a handler). `InFlightSomewhere` and
  `WaitingInSendOrder` are read off it.

Each operation on a cell is first shown to leave a good cell, `Kept` when it
answers nothing (it frees a settled call only) and `Answered` when it settles; the
operations on streams are `Kept`, and only move streams (`StreamsMoved`) unless
they finish a deferred forget. `KeptStore` then carries every forget and every
operation on a stream, and `SettleCore`, `NextClaimCore`, `SendCore` and
`CloseHandlerCore` the rest. The last one puts the calls a dropped handler had
taken back one by one, by claim id, each at its place by send order:
`ListsInserted` and `AllReturned` show that the queue lists them all in the end,
whatever the order of their ids is.

`StreamsConsistent` rests on `IInv` and on `SInv`, which follows every stream and
every waker through the life of its call:

* `SoundCall` relates the streams of a call to the state of its slot: a stream
  nothing has named is as new, a settled call's reply stream has stopped, one that
  a handler's drop settled has its parameters released and every stream named
  later is born stopped, a call no provider has used has untouched streams, and a
  deferred forget has something unread;
* `HeldFor` names who gives the slot back: the caller of a call that is not
  forgotten is open, and a forgotten one has a claim or an open handler that
  settled it, because a handler's drop finishes every forget deferred for it;
* `SoundIn` adds that a call that waits was never used by a provider, which is why a
  drop may return it to the queue: `HolderTook` shows that a handler reaches the
  streams of no waiting call, an offered one included;
* `Sleeping`: whoever sleeps has its waker in the slot, in the stream or with the
  handle it named. `Woken(x, y)` says of an operation that every waker it takes is
  put on the wake list or stays; it composes (`WokenTwice`), so it is proved of the
  parts an operation is made of, up to `Minded` for forgets, settlements and drops
  and `Steered` for what one side does to one stream. `AppliedSleeping` then carries
  a whole step and `RegisterSleeping` a registration.

That the loopback implements `CallPort` (`LoopbackImplementsPort`) rests on `IInv` and
on `RInv`: a call in the store was forgotten exactly when its correlation is in the
history of forgets, a slot's generation is at most the number of sends (so it never
wraps, and a forgotten correlation names no later call), and an answer that can be read
is one a handler or a drop settled with. `Shown` reads the view of a correlation off the
state of its slot. Each operation on a cell is either `Seen` (all the caller sees is an
answer out of a given set, or nothing) or `LetGo` (the call is forgotten); `Shows` says
that every step sends one call, lets go of some, or tells some one answer, and
`ShowsPort` that each of the three is a step of the port.

`WakeOnChange` is about steps and is proved from a statement about states, `Calm`: who
sleeps for a slot sleeps while there is none, who sleeps for a claim belongs to an open
handler that could be presented nothing, and who sleeps for an outcome sleeps on a call
that is not forgotten (with `Sleeping`, one that is in flight). Four facts about each
step carry it. `Followed`: a call that goes leaves nobody asleep for a slot, and one
that stays is the same call. `Shows`: a call that is forgotten or answered wakes its
waiter. `Registers`: whoever a step puts to sleep has nothing to go on with, because the
store reads after it has stored the waker. `Summons`: a step that adds to the queue, or
to what a handler serves, wakes the handlers it concerns, which for the drop of a handler
means that each call it returns is offered to all the others.

`EndedParameterKept` rests on one more invariant, `EInv`: a parameter the provider is
done with (drained) is finished and holds nothing (`Emptied`). `Spends` says of each
operation on a cell that it leaves that so. A parameter that ended with chunks is
then undrained, and a forget of a call a handler has claimed or settled is deferred
(`ForgetCellKeeps`) or was told already and changes nothing; only a call that waits is
withdrawn, and no handler has that one. `WhoReleases` shows that no other step forgets.

`StreamWakeOnChange` is proved of steps, with no invariant besides `IInv` and `SInv`. A
registration that is in `asleep` before and after a step has its waker stored after
it (`Sleeping`), so it is enough that no operation leaves a waker where its owner has
something new to see. `Attends(x, y)` says so of an operation on a cell: a waker that is
on a stream afterwards was there before, and its side, if it was waiting, still is,
or has made the end itself (`Waits`); a caller's waker that is left means that the
call was not forgotten. It composes like `Woken` and is proved of the same parts
(`ForgetCellAttends`, `SettleCellAttends`, `DropHeldAttends`, and `PullCellAttends` to
`AbortCellAttends`). `Attended` carries it to a whole step and adds that a provider whose
waker stays still has the call: a settlement hands it from the claim to the handler,
and the drop of a handler leaves no waker of its own (`Mute`). The id of a claim is
minted above all others (`Numbered`), so `StaysWaiting` finds the registration after the
step on the very call it was made for.

**The blocking face.** Assumptions: each client's thread and the serving thread have
a waker of their own, and what stands for no correlation is none. `Sound` collects
what is known of the store (`IInv`, `SInv`, `RInv`, `Calm`, and `SettledClaimed`: a call
that was settled had been presented). Every step of a thread is an operation of the
store or leaves it alone (`ThreadsUseStore`), with the help of `Presented` (the claim the
serving thread settles is one it was given), so `Sound` holds under the face and
`FaceSpec` implements `Spec`. `FInv` adds the threads:

* `Phases`: a client has a correlation exactly from its send until its return;
* `ClientsAlert`, `ServerAlert`: from the registration of a poll on, through the read, the
  checks of the deadlines and the park, a thread is asleep in the store under what
  it watches, or its wake is on the way (the wake list or the token of its unpark).

The second is the handshake of `block_on`: a step of another thread that takes the waker
puts it on the wake list, and a park consumes a token only to poll again. A thread that
is parked without a wake is then asleep in the store, and `Sound` says that what it
watches has not happened. A waker shared by two threads would break it, which is what the
assumption rules out. `NothingLeftWaiting` needs `Tracked` besides: a client waits
for each call of its that is not forgotten, so an idle one has none; a forgotten call that
is still in the store has a claim (`ForgottenClaimed`).

**The server session.** Assumptions: the bounds of the code are naturals, only a
query has a reply stream, and a frame's request number and credit are unsigned.
The client may send any set of frames, and the provider answers as it likes.
`IInv` is three facts: `SessionOK` (numbers up to `highest`, what an entry of each
map looks like, and that only a command outlives its answer), `Answers` (a call
that was answered has no answer left to give, nothing is kept for a call that has
one, and what is kept is what a repeat of the recorded answer would say) and
`OverIsOver` (a stream the client was told is over is not open). Every handler and
every turn of the tick is about one request, and `Touches(s)` says what such a step
may do: the other calls keep their answer state and open no stream, a kept response
is new only for an unanswered request and repeats the final frame of the step, and
the frames sent are `Orderly` (nothing about a stream after its end, ends only for
streams that close, one final frame). `Touched...` prove the invariant and the three
action properties of any such step; `RequestTouches` to `ClockTouches`, one for each
handler, prove that it is one. What a step sends is put together from parts with
`SentAfter` (one after the other) and `BlocksInOrder` (for each upload in turn),
which rests on `Flattened`, what `FlattenSeq` does to any sequence of sequences.

**Calls at both ends.** Assumptions: those of the server session, and that a call of
the client has at most one upload (`UPLOAD_STREAM`); the bounds of a run are any
naturals. Nothing is assumed of the user, of the provider or of the connection.
`CallsInv` is an account of every stream over three places, the client's record, the
session's call and the two directions between them:

* `Counted`: of an upload, what the client sent and the session's credit are
  together what the client was granted, the chunks under way and the credit under
  way; of a reply, what the client granted is what it received, the session's credit,
  the chunks under way and the grants under way. `Under` sums a channel, and a call
  the session is still to be asked for counts with the accounts it will start with
  (`There`, `UploadOf`, `ReplyOf`), since a client sends on before it is heard;
* `UploadFits`: credit and queue of an open upload are the initial credit, and an
  upload that ended was closed by the client and has every chunk;
* `Requested` and `AskFits`: requests are under way in the order of their numbers and
  each goes before what is sent about its call, and an end under way carries the number
  after the last chunk that was sent. A frame that names no call in flight is therefore
  about one that is over, which the session ignores;
* `Within` and `RefusedFirst`: what is under way to the client is within what it
  granted, and a streamed call that is refused has had nothing else;
* `ToldFits` (in `Typed`): no frame is under way that its call does not take.

Either end may forget a call while frames about it are under way. A client that does
stops counting (`Live`), and the session goes on with its credit and the frames it is
still to read. So the balance of an upload is claimed while the client has it open,
and that the chunks under way are within the session's credit is claimed always;
`NoViolation` needs the second, `CreditConserved` is the first. A step of the client
is `Moved`, the move of one record with what it sends and takes; a step of the session
is `Served`, what it takes and sends, stream by stream (`UploadServed`,
`ReplyServed`). `MovedInv` and `ServedInv` prove the invariant of any such step, and
one lemma for each operation and handler (`WriteInv` to `StartInv`, `ReceiveChunkInv`
to `PollCallInv`) that it is one. `TotalConcat`, the sum over two sequences, is
what the accounts rest on. `Total` is a recursive function; that its equation has a
solution (`SumsExist`) is proved by the least number for which it had none.

**Signals at both ends.** Assumptions: signals are positive numbers, those served and
those not are disjoint, and the client asks for what is one or the other. There is no
bound on commits or operations but the two constants, which are any naturals.
`SignalsInv` has one part for each thing that lies between the two ends:

* `Numbered`: of each signal, no seq that is under way or held is above the counter of
  its channel, the counter's own seq stands for the last sample it numbered, and equal
  seqs stand for equal samples (`SameSeqSameSample`). Commits only move forward, so a
  new number always stands for a new sample;
* `JobFits` and `Marked`: what a handler between two of its steps holds, and that the
  interface is marked from the first subscription on, also while that one is fetched;
* `WantedWill`: `Will(s)` reads off the messages to the server whether it will have `s`
  subscribed once it has read them. Its own steps never change that, so it is enough
  that each step of the client moves what it wants (`Wanted`: subscribed, or asked and
  not taken back) together with it;
* `InOrder`: the operations under way are numbered upwards through the three places
  they pass, the messages to the server, the handler and the frames to the client;
* `WaitsForOwed`: each operation in a queue of the client is still owed an answer, and,
  until a publish settled a read early, each one that is owed is in a queue.

The last two give `AnswersExact`: the answer at the head of the connection is of the
oldest operation that is owed, and the head of a queue is the oldest that waits, so
they are the same one as long as nothing left the queue by another way. A publish that
settles a read early is that other way, which is why the property is conditional, and
`WantedWill` keeps only one of its directions once an answer has gone astray.

**The provided calls.** `PortInv` is what the port and the session hold (a claim
is in the queue, claimed or settled, arrives once and is pending under one seq),
`FrameInv` what the connection and the provider hold: every frame and every active
call carries a seq that was given out and, if that seq is still pending, the claim
it is pending for. `FrameInv` is what makes a late response harmless: its seq is
gone or still means the same claim, because seqs are not used twice.
`HandlersActive` keeps the provider's handlers among its active calls.

**The interface lock.** `BasesContinue` relates three tables: what a branch and
the main line had in common is well formed, and both have carried it on (no number
lost, moved to another interface or brought back). `OnlyAllocatedAdd` says that a
branch that has not allocated has only numbers it parted with, and is the reason
that updating such a branch from the main line renumbers nothing of the main
line's. The merge is proved to be well formed and to continue both sides from
these; `BeforeCounts` (counting off a finite set of numbers) is what makes the
renumbered entries distinct and below the new `next`.

**The remote units.** `StoresStayWhole` rests on `Progress` and `VendorProgress`,
which say of each command, at each of its places, what it holds there (a finished
unpack is whole; a copy that was checked is what the entry says; a stray being
removed is in `removing`). `PinsStay` adds, under the conditions of the property,
`FirstKept` (the lockfile in force, which while one command writes is the one it
had read, keeps every first pin) and `Lockstep`: every running command has read
the manifest as it is, and each pin in force either is what the command read or
follows it. That last one is what an edit under a command breaks, and where the
condition of `PinsHold` comes from.

**The publication.** `Safe` holds whatever list was stale: the marker stands while
its process replaces, so nobody else does (`Here`; every other process is in the
frame `Others` of a replacing step); fresh files are staged or installed
(`InPlace`); and a directory that is there has its context (`Directory`). With
that, `ReadsAreWhole` needs no condition: while a reader reads, a publication that
replaces a file it has read also replaces the context before it checks it.
`BaselineRecoverable` needs `Exact`, as long as no list was stale: `Replaced` (what
has been replaced so far, and that the rest is still the publication that was
listed), `Committed` (a backup that is to be kept is complete) and `Unfinished`.
The last one is carried for itself, because a process that dies or whose rollback
fails loses its lists and leaves only the marker: every file of the publication
before and of the new one is then somewhere.

**Model-checked only**, and why:

* liveness needs fairness and ENABLED: `ForgottenComesBack`, `ServedIsSettled`,
  `CallsEnd`, `EveryCallSettles`, `OperationsSettle`, `HeldConverges`,
  `ClaimsSettle`.

Every other property of a passing run is stated by a theorem.

## 5. Plan

1. **done**: `Correlate`, `CallTable` and `LoopbackNode` with proofs; the other
   loopback modules; `BlockingFace` for commands and queries; `CallPort`, with the
   table and the loopback proved to implement it.
2. **done**: the WebSocket session, its client, the provided calls, and both ends
   composed over a connection that may be lost.
3. **done**: the publication of a baseline, the interface lock and the remote units.
4. Proofs: **done** for the table, the node, signals, events, the consistency of the
   loopback's store and of its streams, the wakes of its calls and streams, the
   parameters a forget leaves, the blocking face over it, the server session, calls
   and signals at both ends, the provided calls and the three records. What is left is
   liveness, which the prover does not reach.
5. Models: events and fixed values of the session with their block reads, the
   signals and events a remote program provides, the streamed calls of the
   generated face, two `ridl vendor` at once.

## 6. Not modelled, and why

The compiler (lexer, parser, resolver, checker, IR, back ends, diff, formatter)
is pure functions over unbounded text; its incremental state belongs to salsa. It
is most of the repository's lines, generated code included, and has no order of
events for a model to explore. Framing and WebSocket I/O are byte layouts; the
session models take decoded frames. The language and MCP servers answer requests
over the compiler's queries. The other commands run once over files and print.
Payload limits, `provision_fixed` and `read_fixed` of the loopback are values set
before anything runs. Of a session the attach, events, the reads of a fixed and
the heartbeat are left out, and of `ridl lock` the text of the file and the edits
of instances (the instance lock). Of remote units, `ridl vendor --check`, several
keys for one URL and two `ridl vendor` at once are left out: a `ridl vendor` takes
the staging directories it finds in `vendor/` for those of an interrupted run. Memory orderings are not modelled: every shared state is behind a
mutex or in one event loop.
