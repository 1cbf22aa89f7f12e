--------------------------- MODULE LoopbackSignals ---------------------------
(***************************************************************************)
(* The signal half of the loopback runtime (crates/ridl-loopback): writers *)
(* stage changes on their own handle and publish them with commit, one     *)
(* generation for each interface touched; readers read, and scan for what  *)
(* changed since their watermarks.  Each action that takes the store's     *)
(* lock is one critical section.                                           *)
(*                                                                         *)
(* A payload is a member of Values; a check (SignalReader::check_with) is  *)
(* the set of the values it accepts, Values itself when none is registered.*)
(* A payload over its member's limit is refused before it is staged.       *)
(***************************************************************************)
EXTENDS Naturals, FiniteSets, SequencesExt

CONSTANTS
    Interfaces,
    Keys,         \* the channels: <<interface, ordinal>>
    Values,       \* the payloads writers set
    Staged,       \* the changes staged for each channel: values, "Invalidate", "Touch"
    Empty,        \* the zero bytes of a channel with no good value
    Checks,       \* the checks registered for each channel: sets of accepted values
    Writers,      \* the writer handles
    Scanners,     \* the readers that keep watermarks and scan
    Rooms,        \* the lengths of the buffers they scan into
    MaxTime,      \* the clock's last value, where advance saturates
    MaxCommits,   \* bound: commits over a run
    NoEntry, NoChange

\* Provenance: Live, Invalid(Declared) or Invalid(Detected).
Provenances == {"Live", "Declared", "Detected"}
\* Entry: what a channel holds once published.
Entry == [bytes : Values \cup {Empty}, provenance : Provenances, stamp : Nat, seq : Nat, changedAt : Nat]

ASSUME SignalAssumption ==
    /\ Keys \subseteq Interfaces \X Nat
    /\ Empty \notin Values
    /\ Staged \in [Keys -> SUBSET (Values \cup {"Invalidate", "Touch"})]
    /\ Checks \in [Keys -> SUBSET SUBSET Values]
    /\ Rooms \subseteq Nat
    /\ MaxTime \in Nat /\ MaxCommits \in Nat
    /\ Values \cap {"Invalidate", "Touch"} = {}
    /\ NoChange \notin Values \cup {"Invalidate", "Touch"}
    /\ NoEntry \notin Entry

VARIABLES
    now,          \* Store::now
    signals,      \* Store::signals, NoEntry for a channel never published
    checks,       \* Store::checks
    generations,  \* Store::generations
    staged,       \* each WriterHandle::staged
    seqs,         \* each WriterHandle::seqs
    marks,        \* each scanner's Watermark for each interface
    commits,      \* history: commits made
    commitOf,     \* history: the commit each channel was last published by
    told          \* history: the commit of the change each scan last reported

signalVars == <<now, signals, checks, generations, staged, seqs, marks, commits, commitOf, told>>

KeysOf(iface) == {key \in Keys : key[1] = iface}
Published(key) == signals[key] # NoEntry
SignalsInit ==
    /\ now = 0
    /\ signals = [key \in Keys |-> NoEntry]
    /\ checks = [key \in Keys |-> Values]
    /\ generations = [iface \in Interfaces |-> 0]
    /\ staged = [w \in Writers |-> [key \in Keys |-> NoChange]]
    /\ seqs = [w \in Writers |-> [key \in Keys |-> 0]]
    /\ marks = [r \in Scanners |-> [iface \in Interfaces |-> 0]]
    /\ commits = 0
    /\ commitOf = [key \in Keys |-> 0]
    /\ told = [r \in Scanners |-> [key \in Keys |-> 0]]

\* Store::advance: the clock never goes back, and stops at its last value.
Later(by) == IF now + by > MaxTime THEN MaxTime ELSE now + by
Advance(by) ==
    /\ now' = Later(by)
    /\ UNCHANGED <<signals, checks, generations, staged, seqs, marks, commits, commitOf, told>>

\* Store::check_with: a held Live value that fails is cleared, in place: no
\* generation, sequence number or stamp changes.
Rechecked(entry, check) ==
    IF entry.provenance = "Live" /\ entry.bytes \notin check
    THEN [entry EXCEPT !.bytes = Empty, !.provenance = "Detected"]
    ELSE entry
CheckWith(key, check) ==
    /\ checks' = [checks EXCEPT ![key] = check]
    /\ signals' = [signals EXCEPT ![key] = IF @ = NoEntry THEN @ ELSE Rechecked(@, check)]
    /\ UNCHANGED <<now, generations, staged, seqs, marks, commits, commitOf, told>>

\* WriterHandle::set, invalidate and touch.  A touch yields to what is staged.
Stage(w, key, change) ==
    /\ staged' = [staged EXCEPT ![w][key] =
                    IF change = "Touch" /\ @ # NoChange THEN @ ELSE change]
    /\ UNCHANGED <<now, signals, checks, generations, seqs, marks, commits, commitOf, told>>

(***************************************************************************)
(* Store::commit.  The touches of unpublished channels are dropped first,  *)
(* then each interface with a change left has its generation advanced once.*)
(***************************************************************************)
Effective(w) ==
    {key \in Keys : staged[w][key] # NoChange /\ (staged[w][key] = "Touch" => Published(key))}

\* Mutant: no touch advances the generation.
AdvancedByValues(w) ==
    [iface \in Interfaces |->
        IF \E key \in KeysOf(iface) : staged[w][key] \notin {NoChange, "Touch"}
        THEN generations[iface] + 1 ELSE generations[iface]]
Advanced(w) ==
    [iface \in Interfaces |->
        IF Effective(w) \cap KeysOf(iface) # {} THEN generations[iface] + 1
        ELSE generations[iface]]
HeldBytes(key) == IF Published(key) THEN signals[key].bytes ELSE Empty
\* The value and provenance a staged change publishes: a value its check
\* rejects keeps the bytes held, a touch re-affirms the entry as it is.
Outcome(key, change) ==
    CASE change = "Touch" -> [bytes |-> HeldBytes(key), provenance |-> signals[key].provenance]
      [] change = "Invalidate" -> [bytes |-> HeldBytes(key), provenance |-> "Declared"]
      [] change \in checks[key] -> [bytes |-> change, provenance |-> "Live"]
      [] OTHER -> [bytes |-> HeldBytes(key), provenance |-> "Detected"]
Committed(w, key) ==
    LET out == Outcome(key, staged[w][key])
    IN  [bytes |-> out.bytes, provenance |-> out.provenance, stamp |-> now,
         seq |-> seqs[w][key] + 1, changedAt |-> Advanced(w)[key[1]]]
Commit(w) ==
    /\ commits < MaxCommits
    /\ generations' = Advanced(w)
    /\ signals' = [key \in Keys |->
                    IF key \in Effective(w) THEN Committed(w, key) ELSE signals[key]]
    /\ seqs' = [seqs EXCEPT ![w] =
                    [key \in Keys |-> IF key \in Effective(w) THEN @[key] + 1 ELSE @[key]]]
    /\ staged' = [staged EXCEPT ![w] = [key \in Keys |-> NoChange]]
    /\ commits' = commits + 1
    /\ commitOf' = [key \in Keys |-> IF key \in Effective(w) THEN commits' ELSE commitOf[key]]
    /\ UNCHANGED <<now, checks, marks, told>>

(***************************************************************************)
(* Store::scan over the scanner's marks in the order it passes them, into  *)
(* a buffer of `room` changes: an interface's changes are written all      *)
(* together, or the scan stops before it.                                  *)
(***************************************************************************)
Behind(r, iface) == marks[r][iface] < generations[iface]
Changes(r, iface) ==
    {key \in KeysOf(iface) :
        Behind(r, iface) /\ Published(key) /\ signals[key].changedAt > marks[r][iface]}

\* The interfaces the scan gets through: what it has found up to each fits.
Served(r, order, room) ==
    {order[n] : n \in {k \in DOMAIN order :
        Cardinality(UNION {Changes(r, order[i]) : i \in 1..k}) <= room}}

\* Mutant: the mark of an interface that does not fit is updated too.
MarkedAll(r, served, iface) ==
    IF Behind(r, iface) THEN generations[iface] ELSE marks[r][iface]
Marked(r, served, iface) ==
    IF iface \in served /\ Behind(r, iface) THEN generations[iface] ELSE marks[r][iface]

Scan(r, order, room) ==
    LET served == Served(r, order, room)
    IN  /\ marks' = [marks EXCEPT ![r] = [iface \in Interfaces |-> Marked(r, served, iface)]]
        /\ told' = [told EXCEPT ![r] = [key \in Keys |->
                        IF key[1] \in served /\ key \in Changes(r, key[1])
                        THEN commitOf[key] ELSE @[key]]]
        /\ UNCHANGED <<now, signals, checks, generations, staged, seqs, commits, commitOf>>

SignalsNext ==
    \/ Advance(1)
    \/ \E key \in Keys : \E check \in Checks[key] : CheckWith(key, check)
    \/ \E w \in Writers :
        \/ \E key \in Keys : \E change \in Staged[key] : Stage(w, key, change)
        \/ Commit(w)
    \/ \E r \in Scanners, order \in SetToSeqs(Interfaces), room \in Rooms : Scan(r, order, room)

SignalsSpec == SignalsInit /\ [][SignalsNext]_signalVars

-----------------------------------------------------------------------------
\* What a consumer reads as Live always passes the check registered now: a
\* check registered late, a rejected set, an invalidation and a touch of an
\* entry never leave a Live value the check refuses (check_with, commit).
LiveChecked ==
    \A key \in Keys :
        Published(key) /\ signals[key].provenance = "Live" => signals[key].bytes \in checks[key]

\* A scanner whose mark has reached a channel's last change was told of that
\* very publication, however its buffers cut the scans short: no change falls
\* between the marks (Store::scan, "the order the caller is served in").
NothingMissed ==
    \A r \in Scanners, key \in Keys :
        Published(key) /\ marks[r][key[1]] >= signals[key].changedAt
            => told[r][key] = commitOf[key]

\* The channels of an interface that carry one generation were published by
\* one commit, under one stamp, and the others by others: a generation names
\* one coherent publication (SignalWriter::commit).
GenerationIsOneCommit ==
    \A k1, k2 \in Keys :
        k1[1] = k2[1] /\ Published(k1) /\ Published(k2) =>
            /\ signals[k1].changedAt = signals[k2].changedAt <=> commitOf[k1] = commitOf[k2]
            /\ signals[k1].changedAt < signals[k2].changedAt => signals[k1].stamp <= signals[k2].stamp
            /\ commitOf[k1] = commitOf[k2] => signals[k1].stamp = signals[k2].stamp

\* No interface has a generation nothing was published at: a commit whose
\* every change is a touch of an unpublished channel changes nothing at all.
GenerationHasChange ==
    \A iface \in Interfaces :
        generations[iface] > 0 =>
            \E key \in KeysOf(iface) :
                Published(key) /\ signals[key].changedAt = generations[iface]

\* A generation is exactly one publication of its interface, and what is read
\* as Live in it passes the check registered now.
PublishedExactly == LiveChecked /\ GenerationIsOneCommit /\ GenerationHasChange
==============================================================================
