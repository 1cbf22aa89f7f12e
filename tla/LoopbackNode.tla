---------------------------- MODULE LoopbackNode ----------------------------
(***************************************************************************)
(* The node of one machine (crates/ridl-loopback, node.rs): a store for    *)
(* each catalog the machine's instances are granted, and the identities    *)
(* attached to them.  An instance and its debug twin, number and -number,  *)
(* may not be attached at once, on any catalogs; attachments of one        *)
(* identity are counted, and its number is free again when the last of     *)
(* them is gone.                                                           *)
(*                                                                         *)
(* Threads attach and drop concurrently.  The map of counts is behind a    *)
(* mutex that an attach keeps from its conflict check to its count, and a  *)
(* drop closes the ports of the attachment, one store operation for each   *)
(* handle, before it gives the reservation back.                           *)
(***************************************************************************)
EXTENDS Integers, FiniteSets

CONSTANTS
    Attachments,  \* the attachments threads make; one may be made again
    MaxNo,        \* i32::MAX
    Debug,        \* the crate's `debug` feature: twins and the listener exist
    Machine,      \* the machine of this node
    Instances,    \* the descriptor's instances
    Placed,       \* the machine each instance is placed on
    Names,        \* the catalog names each instance offers or maps
    Catalogs,     \* the embedded catalogs, records of a name and a hash
    NoHolder      \* the mutex is free

ASSUME NodeAssumption ==
    /\ IsFiniteSet(Attachments) /\ NoHolder \notin Attachments
    /\ MaxNo \in Nat /\ Debug \in BOOLEAN
    /\ Instances \subseteq 1 .. MaxNo

\* contract::InstanceNo: the numbers a program can make.
Listener == -MaxNo - 1
InstanceNos == IF Debug THEN ((-MaxNo .. MaxNo) \ {0}) \cup {Listener} ELSE 1 .. MaxNo
Wrapped(n) == IF n > MaxNo THEN n - 2 * (MaxNo + 1) ELSE n

\* Node::from_descriptor.  A name may be embedded under several hashes, and
\* each is granted.
Local == {i \in Instances : Placed[i] = Machine}
Grants(i) == {c \in Catalogs : c.name \in Names[i]}
Stores == UNION {Grants(i) : i \in Local}

VARIABLES
    lock,    \* who holds the mutex of Node::reservations
    counts,  \* the map in it: the attachments of each number
    phase,   \* where the thread of each attachment is
    number,  \* Reservation::number of each attachment
    ports    \* how many handles of Attachment::ports are open

vars == <<lock, counts, phase, number, ports>>

Phases == {"none", "admitted", "checked", "counted", "open", "dropped"}

\* SourceHandle, CallerHandle and HandlerHandle close in the store one by one.
Handles == 3

TypeOK ==
    /\ lock \in Attachments \cup {NoHolder}
    /\ DOMAIN counts \subseteq InstanceNos
    /\ \A n \in DOMAIN counts : counts[n] \in Nat \ {0}
    /\ phase \in [Attachments -> Phases]
    /\ number \in [Attachments -> InstanceNos \cup {0}]
    /\ ports \in [Attachments -> 0 .. Handles]

Init ==
    /\ lock = NoHolder
    /\ counts = [n \in {} |-> 0]
    /\ phase = [a \in Attachments |-> "none"]
    /\ number = [a \in Attachments |-> 0]
    /\ ports = [a \in Attachments |-> 0]

-----------------------------------------------------------------------------
\* Node::attach up to the lock: what it answers without it changes nothing.
IsListener(n) == Debug /\ n = Listener
Positive(n) == IF n < 0 THEN -n ELSE n
Granted(n, catalog) ==
    /\ catalog \in Stores
    /\ IsListener(n) \/ (Positive(n) \in Local /\ catalog \in Grants(Positive(n)))

Attach(a, n, catalog) ==
    /\ phase[a] = "none"
    /\ Granted(n, catalog)
    /\ phase' = [phase EXCEPT ![a] = "admitted"]
    /\ number' = [number EXCEPT ![a] = n]
    /\ UNCHANGED <<lock, counts, ports>>

\* Mutant: the listener's number is negated too.
ConflictsListener(n) == Wrapped(-n) \in DOMAIN counts

\* The opposite identity has a reservation.
Conflicts(n) == ~IsListener(n) /\ Wrapped(-n) \in DOMAIN counts

\* Mutant: the mutex is released between the check and the count.
HeldAfterCheckNot(a) == NoHolder

HeldAfterCheck(a) == a

\* IdentityConflict.
Refuse(a) ==
    /\ phase[a] = "admitted" /\ lock = NoHolder
    /\ Conflicts(number[a])
    /\ phase' = [phase EXCEPT ![a] = "none"]
    /\ UNCHANGED <<lock, counts, number, ports>>

Check(a) ==
    /\ phase[a] = "admitted" /\ lock = NoHolder
    /\ ~Conflicts(number[a])
    /\ lock' = HeldAfterCheck(a)
    /\ phase' = [phase EXCEPT ![a] = "checked"]
    /\ UNCHANGED <<counts, number, ports>>

\* *counts.entry(number).or_default() += 1, and the end of the guard.
Count(a) ==
    /\ phase[a] = "checked"
    /\ counts' = [n \in DOMAIN counts \cup {number[a]} |->
                    (IF n \in DOMAIN counts THEN counts[n] ELSE 0)
                        + (IF n = number[a] THEN 1 ELSE 0)]
    /\ lock' = NoHolder
    /\ phase' = [phase EXCEPT ![a] = "counted"]
    /\ UNCHANGED <<number, ports>>

\* store.attach() opens the handles, outside the mutex.
OpenPorts(a) ==
    /\ phase[a] = "counted"
    /\ phase' = [phase EXCEPT ![a] = "open"]
    /\ ports' = [ports EXCEPT ![a] = Handles]
    /\ UNCHANGED <<lock, counts, number>>

\* An attachment is dropped: its fields are, in their order.
Drop(a) ==
    /\ phase[a] = "open"
    /\ phase' = [phase EXCEPT ![a] = "dropped"]
    /\ UNCHANGED <<lock, counts, number, ports>>

DropHandle(a) ==
    /\ phase[a] = "dropped" /\ ports[a] > 0
    /\ ports' = [ports EXCEPT ![a] = @ - 1]
    /\ UNCHANGED <<lock, counts, phase, number>>

PortsClosed(a) == ports[a] = 0

\* The map after one attachment of n is gone.
Uncounted(n) ==
    IF counts[n] = 1
    THEN [k \in DOMAIN counts \ {n} |-> counts[k]]
    ELSE [counts EXCEPT ![n] = @ - 1]

\* Reservation's Drop.  An absent number is its expect, which is never met:
\* ReservedExactly.
DropReservation(a) ==
    /\ phase[a] = "dropped" /\ PortsClosed(a) /\ lock = NoHolder
    /\ number[a] \in DOMAIN counts
    /\ counts' = Uncounted(number[a])
    /\ phase' = [phase EXCEPT ![a] = "none"]
    /\ UNCHANGED <<lock, number, ports>>

Next ==
    \E a \in Attachments :
        \/ \E n \in InstanceNos, catalog \in Catalogs : Attach(a, n, catalog)
        \/ Refuse(a) \/ Check(a) \/ Count(a) \/ OpenPorts(a)
        \/ Drop(a) \/ DropHandle(a) \/ DropReservation(a)

Spec == Init /\ [][Next]_vars

-----------------------------------------------------------------------------
Holders(n) == {a \in Attachments : number[a] = n /\ phase[a] \in {"counted", "open", "dropped"}}

\* The counts are the attachments that hold a reservation, whatever was
\* attached and dropped in between: Reservation's Drop always finds its
\* number, and a number without attachments is not in the map.
ReservedExactly ==
    \A n \in InstanceNos :
        IF Holders(n) = {}
        THEN n \notin DOMAIN counts
        ELSE n \in DOMAIN counts /\ counts[n] = Cardinality(Holders(n))

\* No handle of an instance is open while one of its twin is: not while two
\* threads attach them at once, not while an attachment is half dropped.
NoOpposites ==
    \A a, b \in Attachments :
        ports[a] > 0 /\ ports[b] > 0 => number[a] # -number[b]

\* An attach is refused for an attachment of the opposite identity that is
\* still alive, and for nothing else: no reservation outlives its attachment,
\* and listeners do not conflict with each other.
RefusedForLive ==
    [][\A a \in Attachments :
        phase[a] = "admitted" /\ phase'[a] = "none" => Holders(-number[a]) # {}]_vars
=============================================================================
