------------------------ MODULE LoopbackPartsProofs ------------------------
(***************************************************************************)
(* The three parts of the loopback that share no state with the calls, as  *)
(* in MCLoopbackParts, each for every value of its constants: the          *)
(* reservations of a node, what is published and scanned of signals, and   *)
(* what is queued for the subscribers of events.                           *)
(***************************************************************************)
EXTENDS LoopbackNode, LoopbackSignals, LoopbackEvents, SequenceTheorems, FiniteSetTheorems, TLAPS

-----------------------------------------------------------------------------
(***************************************************************************)
(* The node: reservations are exact and exclusive for any number of        *)
(* attachments and instances, with and without the `debug` feature.        *)
(***************************************************************************)
Reserved(a) == phase[a] \in {"counted", "open", "dropped"}

\* The mutex is held exactly by the attach between its check and its count,
\* and what it checked still holds.
CheckStands ==
    /\ \A a \in Attachments : phase[a] = "checked" => lock = a /\ ~Conflicts(number[a])
    /\ \A a \in Attachments : lock = a => phase[a] = "checked"

\* A thread in an attach has its number, and handles only inside a reservation.
Numbered ==
    \A a \in Attachments :
        /\ phase[a] # "none" => number[a] \in InstanceNos
        /\ ports[a] > 0 => phase[a] \in {"open", "dropped"}

\* Reservations, not only open handles, are never of opposite numbers.
NoOppositeReservations ==
    \A a, b \in Attachments : Reserved(a) /\ Reserved(b) => number[a] # -number[b]

NodeInv == TypeOK /\ CheckStands /\ Numbered /\ ReservedExactly /\ NoOppositeReservations

-----------------------------------------------------------------------------
\* A number is an integer other than zero, and only the listener's opposite
\* wraps around.
LEMMA Opposite ==
    ASSUME NEW n \in InstanceNos
    PROVE  /\ n \in Int /\ n # 0
           /\ ~IsListener(n) => Wrapped(-n) = -n
           /\ IsListener(n) => -n \notin InstanceNos
BY NodeAssumption DEF InstanceNos, IsListener, Wrapped, Listener

\* A number in the map is held by an attachment, and one that is not is not.
LEMMA MapIsHolders ==
    ASSUME NodeInv, NEW n \in InstanceNos
    PROVE  n \in DOMAIN counts <=> Holders(n) # {}
BY DEF NodeInv, ReservedExactly

\* Steps that change no holder and no count keep the map exact.
LEMMA SameHolders ==
    ASSUME ReservedExactly, counts' = counts, number' = number,
           \A a \in Attachments : Reserved(a)' <=> Reserved(a)
    PROVE  ReservedExactly'
<1>1. ASSUME NEW n \in InstanceNos PROVE Holders(n)' = Holders(n)
    BY DEF Holders, Reserved
<1> QED BY <1>1 DEF ReservedExactly

\* Initially nothing is attached.
LEMMA NodeInitInv == Init => NodeInv
<1> SUFFICES ASSUME Init PROVE NodeInv
    OBVIOUS
<1>1. TypeOK
    BY NodeAssumption DEF Init, TypeOK, Phases, Handles
<1>2. ReservedExactly
    BY DEF Init, ReservedExactly, Holders
<1>3. CheckStands /\ Numbered /\ NoOppositeReservations
    BY NodeAssumption DEF Init, CheckStands, Numbered, NoOppositeReservations, Reserved
<1> QED BY <1>1, <1>2, <1>3 DEF NodeInv

\* An attach that passes its first checks holds nothing yet.
LEMMA AttachInv ==
    ASSUME NodeInv, NEW a \in Attachments, NEW n \in InstanceNos, NEW catalog \in Catalogs,
           Attach(a, n, catalog)
    PROVE  NodeInv'
<1> USE DEF NodeInv
<1>1. TypeOK'
    BY DEF TypeOK, Attach, Phases
<1>2. CheckStands'
    BY DEF CheckStands, TypeOK, Attach, Conflicts, IsListener, Wrapped
<1>3. Numbered'
    BY DEF Numbered, TypeOK, Attach
<1>4. ReservedExactly'
  <2>1. ASSUME NEW k \in InstanceNos PROVE Holders(k)' = Holders(k)
    BY DEF Holders, Attach, TypeOK
  <2> QED BY <2>1 DEF ReservedExactly, Attach
<1>5. NoOppositeReservations'
    BY DEF NoOppositeReservations, Reserved, TypeOK, Attach
<1> QED BY <1>1, <1>2, <1>3, <1>4, <1>5

\* Steps outside the mutex, and the check, move no reservation.
LEMMA PhaseInv ==
    ASSUME NodeInv, NEW a \in Attachments,
           Refuse(a) \/ Check(a) \/ OpenPorts(a) \/ Drop(a) \/ DropHandle(a)
    PROVE  NodeInv'
<1> USE DEF NodeInv
<1>1. /\ counts' = counts /\ number' = number
      /\ \A b \in Attachments : Reserved(b)' <=> Reserved(b)
    BY DEF TypeOK, Reserved, Refuse, Check, OpenPorts, Drop, DropHandle
<1>2. TypeOK'
    BY DEF TypeOK, Phases, Handles, Refuse, Check, OpenPorts, Drop, DropHandle, HeldAfterCheck
<1>3. \A n : Conflicts(n)' = Conflicts(n)
    BY <1>1 DEF Conflicts
<1>4. CheckStands'
    BY <1>1, <1>3, NodeAssumption DEF CheckStands, TypeOK, Refuse, Check, OpenPorts, Drop,
        DropHandle, HeldAfterCheck
<1>5. Numbered'
    BY DEF Numbered, TypeOK, Refuse, Check, OpenPorts, Drop, DropHandle, Handles
<1>6. NoOppositeReservations'
    BY <1>1 DEF NoOppositeReservations
<1> QED BY <1>1, <1>2, <1>4, <1>5, <1>6, SameHolders

\* The count of an attach that found no opposite under the same lock.
LEMMA CountInv ==
    ASSUME NodeInv, NEW a \in Attachments, Count(a)
    PROVE  NodeInv'
<1> USE DEF NodeInv
<1>n. PICK n \in InstanceNos : n = number[a]
    BY DEF Count, Numbered
<1>0. lock = a /\ ~Conflicts(n) /\ a \notin Holders(n)
    BY <1>n DEF Count, CheckStands, Holders
<1>1. TypeOK'
    BY <1>n, <1>0 DEF TypeOK, Count, Phases
<1>2. CheckStands'
    BY <1>n, <1>0, NodeAssumption DEF CheckStands, TypeOK, Count
<1>3. Numbered'
    BY DEF Numbered, TypeOK, Count
<1>4. ReservedExactly'
  <2>1. Holders(n)' = Holders(n) \cup {a}
    BY <1>n DEF Holders, Count, TypeOK
  <2>2. ASSUME NEW k \in InstanceNos, k # n PROVE Holders(k)' = Holders(k)
    BY <1>n, <2>2 DEF Holders, Count, TypeOK
  <2>3. IsFiniteSet(Holders(n))
    BY NodeAssumption, FS_Subset DEF Holders
  <2>4. Cardinality(Holders(n)') = Cardinality(Holders(n)) + 1
    BY <1>0, <2>1, <2>3, FS_AddElement
  <2>5. n \in DOMAIN counts' /\ counts'[n] = Cardinality(Holders(n)')
    BY <1>n, <1>0, <2>4, FS_EmptySet DEF ReservedExactly, Count
  <2>6. ASSUME NEW k \in InstanceNos, k # n
        PROVE  (k \in DOMAIN counts' <=> k \in DOMAIN counts)
                    /\ (k \in DOMAIN counts => counts'[k] = counts[k])
    BY <1>n, <2>6 DEF Count, TypeOK
  <2> QED BY <2>1, <2>2, <2>5, <2>6 DEF ReservedExactly
<1>5. NoOppositeReservations'
  <2>1. ASSUME NEW b \in Attachments, Reserved(b) PROVE number[b] # -n
    <3>1. number[b] \in InstanceNos /\ b \in Holders(number[b])
        BY <2>1 DEF Numbered, Reserved, Holders
    <3>2. number[b] \in DOMAIN counts
        BY <3>1, MapIsHolders
    <3> QED BY <1>0, <3>1, <3>2, Opposite DEF Conflicts
  <2>2. ASSUME NEW b \in Attachments, Reserved(b) PROVE n # -number[b]
    BY <2>1, <2>2, Opposite DEF Numbered, Reserved
  <2>3. n # -n
    BY Opposite
  <2>4. number' = number /\ \A b \in Attachments : Reserved(b)' => Reserved(b) \/ b = a
    BY DEF Reserved, Count, TypeOK
  <2> QED BY <1>n, <2>1, <2>2, <2>3, <2>4 DEF NoOppositeReservations
<1> QED BY <1>1, <1>2, <1>3, <1>4, <1>5

\* The end of a reservation.
LEMMA DropReservationInv ==
    ASSUME NodeInv, NEW a \in Attachments, DropReservation(a)
    PROVE  NodeInv'
<1> USE DEF NodeInv
<1>n. PICK n \in InstanceNos : n = number[a]
    BY DEF DropReservation, Numbered
<1>0. a \in Holders(n) /\ n \in DOMAIN counts
    BY <1>n DEF DropReservation, Holders
<1>1. counts[n] = Cardinality(Holders(n)) /\ counts[n] \in Nat \ {0}
    BY <1>0 DEF ReservedExactly, TypeOK
<1>2. TypeOK'
    BY <1>n, <1>0, <1>1 DEF TypeOK, DropReservation, Uncounted, Phases
<1>3. CheckStands'
    BY NodeAssumption DEF CheckStands, TypeOK, DropReservation
<1>4. Numbered'
    BY DEF Numbered, TypeOK, DropReservation, PortsClosed
<1>5. ReservedExactly'
  <2>1. Holders(n)' = Holders(n) \ {a}
    BY <1>n DEF Holders, DropReservation, TypeOK
  <2>2. ASSUME NEW k \in InstanceNos, k # n PROVE Holders(k)' = Holders(k)
    BY <1>n, <2>2 DEF Holders, DropReservation, TypeOK
  <2>3. IsFiniteSet(Holders(n)) /\ IsFiniteSet(Holders(n)')
    BY <2>1, NodeAssumption, FS_Subset DEF Holders
  <2>4. Cardinality(Holders(n)') = Cardinality(Holders(n)) - 1
    BY <1>0, <2>1, <2>3, FS_RemoveElement
  <2>5. IF Holders(n)' = {}
        THEN n \notin DOMAIN counts'
        ELSE n \in DOMAIN counts' /\ counts'[n] = Cardinality(Holders(n)')
    <3>1. Holders(n)' = {} <=> counts[n] = 1
        BY <1>1, <2>3, <2>4, FS_EmptySet
    <3> QED BY <1>n, <1>0, <1>1, <2>4, <3>1 DEF DropReservation, Uncounted
  <2>6. ASSUME NEW k \in InstanceNos, k # n
        PROVE  (k \in DOMAIN counts' <=> k \in DOMAIN counts)
                    /\ (k \in DOMAIN counts => counts'[k] = counts[k])
    BY <1>n, <2>6 DEF DropReservation, Uncounted
  <2> QED BY <2>2, <2>5, <2>6 DEF ReservedExactly
<1>6. NoOppositeReservations'
    BY DEF NoOppositeReservations, Reserved, DropReservation, TypeOK
<1> QED BY <1>2, <1>3, <1>4, <1>5, <1>6

\* The invariant is inductive.
LEMMA NextInv == NodeInv /\ [Next]_vars => NodeInv'
<1> SUFFICES ASSUME NodeInv, [Next]_vars PROVE NodeInv'
    OBVIOUS
<1>1. CASE UNCHANGED vars
    BY <1>1, ZenonT(30) DEF vars, NodeInv, TypeOK, CheckStands, Numbered, ReservedExactly, Holders,
        NoOppositeReservations, Reserved, Conflicts
<1>2. CASE Next
  <2>1. PICK a \in Attachments :
            \/ \E n \in InstanceNos, catalog \in Catalogs : Attach(a, n, catalog)
            \/ Refuse(a) \/ Check(a) \/ Count(a) \/ OpenPorts(a)
            \/ Drop(a) \/ DropHandle(a) \/ DropReservation(a)
    BY <1>2 DEF Next
  <2> QED BY <2>1, AttachInv, PhaseInv, CountInv, DropReservationInv
<1> QED BY <1>1, <1>2

\* Every reachable state satisfies the invariant.
LEMMA NodeInvariant == Spec => []NodeInv
BY NodeInitInv, NextInv, PTL DEF Spec

-----------------------------------------------------------------------------
\* The map of counts is exact for any number of attachments: the expect of
\* Reservation's Drop never fails and no number stays reserved for nobody.
THEOREM ReservationsExact == Spec => []ReservedExactly
<1>1. NodeInv => ReservedExactly
    BY DEF NodeInv
<1> QED BY NodeInvariant, <1>1, PTL

\* An instance and its twin never have handles open at once.
THEOREM OppositesExcluded == Spec => []NoOpposites
<1>1. NodeInv => NoOpposites
    BY DEF NodeInv, NoOpposites, NoOppositeReservations, Numbered, Reserved
<1> QED BY NodeInvariant, <1>1, PTL

\* IdentityConflict is only ever answered while the opposite is attached.
THEOREM RefusalsJustified == Spec => RefusedForLive
<1>1. NodeInv /\ [Next]_vars =>
        [\A a \in Attachments :
            phase[a] = "admitted" /\ phase'[a] = "none" => Holders(-number[a]) # {}]_vars
  <2> SUFFICES ASSUME NodeInv, Next, NEW a \in Attachments,
                      phase[a] = "admitted", phase'[a] = "none"
               PROVE  Holders(-number[a]) # {}
    OBVIOUS
  <2>1. Refuse(a)
    BY DEF Next, NodeInv, TypeOK, Attach, Refuse, Check, Count, OpenPorts, Drop, DropHandle,
        DropReservation
  <2>2. number[a] \in InstanceNos
    BY DEF NodeInv, Numbered
  <2>3. -number[a] \in DOMAIN counts /\ -number[a] \in InstanceNos
    BY <2>1, <2>2, Opposite DEF Refuse, Conflicts, NodeInv, TypeOK
  <2> QED BY <2>3, MapIsHolders
<1> QED BY NodeInvariant, <1>1, PTL DEF Spec, RefusedForLive

-----------------------------------------------------------------------------
(***************************************************************************)
(* Signals: what is published, read and scanned agrees for any interfaces, *)
(* channels, payloads, checks, writers and scanners.                       *)
(***************************************************************************)
Changed == Values \cup {"Invalidate", "Touch", NoChange}

SignalsTypeOK ==
    /\ now \in 0..MaxTime /\ commits \in Nat
    /\ signals \in [Keys -> Entry \cup {NoEntry}]
    /\ checks \in [Keys -> SUBSET Values]
    /\ generations \in [Interfaces -> Nat]
    /\ staged \in [Writers -> [Keys -> Changed]]
    /\ seqs \in [Writers -> [Keys -> Nat]]
    /\ marks \in [Scanners -> [Interfaces -> Nat]]
    /\ commitOf \in [Keys -> Nat]
    /\ told \in [Scanners -> [Keys -> Nat]]

\* Nothing published is of a later generation, commit or time than the last.
PublishedBefore ==
    \A key \in Keys : Published(key) =>
        /\ signals[key].changedAt <= generations[key[1]]
        /\ signals[key].stamp <= now
        /\ commitOf[key] <= commits

\* No mark is ahead of its interface.
MarksBehind == \A r \in Scanners, iface \in Interfaces : marks[r][iface] <= generations[iface]

SignalsInv == SignalsTypeOK /\ PublishedBefore /\ MarksBehind /\ PublishedExactly /\ NothingMissed

-----------------------------------------------------------------------------
\* A channel's interface is one of the interfaces.
LEMMA KeyOfInterface ==
    /\ \A key \in Keys : key[1] \in Interfaces
    /\ \A iface \in Interfaces, key \in Keys : key \in KeysOf(iface) <=> key[1] = iface
BY SignalAssumption DEF KeysOf

LEMMA SignalsInitInv == SignalsInit => SignalsInv
<1> SUFFICES ASSUME SignalsInit PROVE SignalsInv
  OBVIOUS
<1>1. \A key \in Keys : ~Published(key)
  BY DEF SignalsInit, Published
<1>2. SignalsTypeOK
  BY SignalAssumption DEF SignalsInit, SignalsTypeOK, Changed
<1>3. MarksBehind /\ \A iface \in Interfaces : generations[iface] = 0
  BY DEF SignalsInit, MarksBehind
<1>4. PublishedExactly
  BY <1>1, <1>3 DEF PublishedExactly, LiveChecked, GenerationIsOneCommit, GenerationHasChange
<1> QED BY <1>1, <1>2, <1>3, <1>4 DEF SignalsInv, PublishedBefore, NothingMissed

\* A step that leaves every channel's publication, and the generations and
\* marks, as they are.
LEMMA StillInv ==
    ASSUME SignalsInv, SignalsTypeOK', now <= now',
           UNCHANGED <<generations, marks, commits, commitOf, told>>,
           \A key \in Keys :
              /\ Published(key)' <=> Published(key)
              /\ Published(key) => /\ signals'[key].changedAt = signals[key].changedAt
                                   /\ signals'[key].stamp = signals[key].stamp,
           LiveChecked'
    PROVE  SignalsInv'
<1>1. PublishedBefore'
  BY DEF SignalsInv, SignalsTypeOK, PublishedBefore, Entry, Published
<1>2. MarksBehind' /\ NothingMissed'
  BY DEF SignalsInv, MarksBehind, NothingMissed
<1>3. GenerationIsOneCommit'
  BY DEF SignalsInv, PublishedExactly, GenerationIsOneCommit
<1>4. GenerationHasChange'
  BY KeyOfInterface DEF SignalsInv, PublishedExactly, GenerationHasChange, KeysOf
<1> QED BY <1>1, <1>2, <1>3, <1>4 DEF SignalsInv, PublishedExactly

LEMMA AdvanceInv ==
    ASSUME SignalsInv, Advance(1)
    PROVE  SignalsInv'
<1>1. now' \in 0..MaxTime /\ now <= now'
  BY SignalAssumption DEF SignalsInv, SignalsTypeOK, Advance, Later
<1>2. SignalsTypeOK'
  BY <1>1 DEF SignalsInv, SignalsTypeOK, Advance
<1>3. LiveChecked'
  BY DEF SignalsInv, Advance, PublishedExactly, LiveChecked, Published
<1> QED BY <1>1, <1>2, <1>3, StillInv DEF Advance, Published

LEMMA StageInv ==
    ASSUME SignalsInv, NEW w \in Writers, NEW key \in Keys, NEW change \in Staged[key], Stage(w, key, change)
    PROVE  SignalsInv'
<1>1. change \in Changed
  BY SignalAssumption DEF Changed
<1>2. SignalsTypeOK' /\ now <= now'
  BY <1>1 DEF SignalsInv, SignalsTypeOK, Stage
<1>3. LiveChecked'
  BY DEF SignalsInv, Stage, PublishedExactly, LiveChecked, Published
<1> QED BY <1>2, <1>3, StillInv DEF Stage, Published

\* A check registered late clears the value it refuses and nothing else.
LEMMA CheckWithInv ==
    ASSUME SignalsInv, NEW key \in Keys, NEW check \in Checks[key], CheckWith(key, check)
    PROVE  SignalsInv'
<1>1. check \in SUBSET Values /\ SignalsTypeOK /\ LiveChecked
  BY SignalAssumption DEF SignalsInv, PublishedExactly
<1>2. /\ checks' = [checks EXCEPT ![key] = check]
      /\ signals' = [signals EXCEPT ![key] =
                        IF signals[key] = NoEntry THEN signals[key] ELSE Rechecked(signals[key], check)]
      /\ UNCHANGED <<now, generations, staged, seqs, marks, commits, commitOf, told>>
  BY DEF CheckWith
<1>3. ASSUME NEW e \in Entry
      PROVE  /\ Rechecked(e, check) \in Entry
             /\ Rechecked(e, check).changedAt = e.changedAt
             /\ Rechecked(e, check).stamp = e.stamp
             /\ Rechecked(e, check).provenance = "Live" => Rechecked(e, check).bytes \in check
  BY DEF Rechecked, Entry, Provenances
<1>4. \A k \in Keys :
        /\ signals[k] = NoEntry => signals'[k] = NoEntry
        /\ signals[k] # NoEntry => signals[k] \in Entry /\ signals'[k] \in Entry
        /\ k # key => signals'[k] = signals[k] /\ checks'[k] = checks[k]
        /\ checks'[key] = check
        /\ signals[key] # NoEntry => signals'[key] = Rechecked(signals[key], check)
  BY <1>1, <1>2, <1>3 DEF SignalsTypeOK
<1>5. SignalsTypeOK' /\ now <= now'
  BY <1>1, <1>2, <1>4 DEF SignalsTypeOK
<1>6. \A k \in Keys :
        /\ Published(k)' <=> Published(k)
        /\ Published(k) => /\ signals'[k].changedAt = signals[k].changedAt
                           /\ signals'[k].stamp = signals[k].stamp
  BY <1>3, <1>4, SignalAssumption DEF Published
<1>7. LiveChecked'
  BY <1>1, <1>3, <1>4, SignalAssumption DEF LiveChecked, Published
<1> QED BY <1>2, <1>5, <1>6, <1>7, StillInv

-----------------------------------------------------------------------------
\* What a commit publishes on a channel: an entry of this time, of the next
\* generation of the interface, Live only with a value its check accepts.
LEMMA Publishes ==
    ASSUME SignalsInv, NEW w \in Writers, NEW key \in Effective(w)
    PROVE  /\ key \in Keys /\ Committed(w, key) \in Entry
           /\ Committed(w, key).stamp = now
           /\ Committed(w, key).changedAt = generations[key[1]] + 1
           /\ Advanced(w)[key[1]] = generations[key[1]] + 1
           /\ Committed(w, key).provenance = "Live" => Committed(w, key).bytes \in checks[key]
<1> DEFINE change == staged[w][key]
           out == Outcome(key, change)
<1>1. key \in Keys /\ change # NoChange /\ (change = "Touch" => Published(key))
  BY DEF Effective
<1>2. SignalsTypeOK /\ LiveChecked
  BY DEF SignalsInv, PublishedExactly
<1>3. change \in Values \cup {"Invalidate", "Touch"}
  BY <1>1, <1>2 DEF SignalsTypeOK, Changed
<1>4. HeldBytes(key) \in Values \cup {Empty}
  BY <1>1, <1>2 DEF SignalsTypeOK, Entry, HeldBytes, Published
<1>5. checks[key] \subseteq Values
  BY <1>1, <1>2 DEF SignalsTypeOK
<1>6. Published(key) => signals[key] \in Entry
  BY <1>1, <1>2 DEF SignalsTypeOK, Published
<1>7. /\ out.bytes \in Values \cup {Empty} /\ out.provenance \in Provenances
      /\ out.provenance = "Live" => out.bytes \in checks[key]
  <2>1. CASE change = "Touch"
    <3>1. out = [bytes |-> HeldBytes(key), provenance |-> signals[key].provenance]
      BY <2>1, <1>5, SignalAssumption DEF Outcome
    <3>2. signals[key].provenance \in Provenances /\ HeldBytes(key) = signals[key].bytes
      BY <1>1, <1>6, <2>1 DEF Entry, HeldBytes
    <3> QED BY <1>1, <1>2, <1>4, <2>1, <3>1, <3>2 DEF LiveChecked
  <2>2. CASE change = "Invalidate"
    <3>1. out = [bytes |-> HeldBytes(key), provenance |-> "Declared"]
      BY <2>2, <1>5, SignalAssumption DEF Outcome
    <3> QED BY <1>4, <3>1 DEF Provenances
  <2>3. CASE change \in checks[key]
    <3>1. out = [bytes |-> change, provenance |-> "Live"]
      BY <2>3, <1>5, SignalAssumption DEF Outcome
    <3> QED BY <1>5, <2>3, <3>1 DEF Provenances
  <2>4. CASE change \notin checks[key] /\ change # "Touch" /\ change # "Invalidate"
    <3>1. out = [bytes |-> HeldBytes(key), provenance |-> "Detected"]
      BY <2>4 DEF Outcome
    <3> QED BY <1>4, <3>1 DEF Provenances
  <2> QED BY <2>1, <2>2, <2>3, <2>4
<1>8. key[1] \in Interfaces /\ key \in KeysOf(key[1])
  BY <1>1, KeyOfInterface
<1>9. Advanced(w)[key[1]] = generations[key[1]] + 1
  BY <1>8 DEF Advanced
<1>10. generations[key[1]] \in Nat /\ now \in Nat /\ seqs[w][key] \in Nat
  BY <1>1, <1>2, <1>8 DEF SignalsTypeOK
<1> HIDE DEF out
<1>11. Committed(w, key) = [bytes |-> out.bytes, provenance |-> out.provenance, stamp |-> now,
                            seq |-> seqs[w][key] + 1, changedAt |-> generations[key[1]] + 1]
  BY <1>9 DEF Committed, out
<1> QED BY <1>1, <1>7, <1>9, <1>10, <1>11 DEF Entry

LEMMA CommitInv ==
    ASSUME SignalsInv, NEW w \in Writers, Commit(w)
    PROVE  SignalsInv'
<1>1. /\ generations' = Advanced(w)
      /\ signals' = [key \in Keys |-> IF key \in Effective(w) THEN Committed(w, key) ELSE signals[key]]
      /\ commits' = commits + 1
      /\ commitOf' = [key \in Keys |-> IF key \in Effective(w) THEN commits + 1 ELSE commitOf[key]]
      /\ UNCHANGED <<now, checks, marks, told>>
  BY DEF Commit
<1>2. SignalsTypeOK /\ PublishedBefore /\ MarksBehind /\ PublishedExactly /\ NothingMissed
  BY DEF SignalsInv
<1>3. \A key \in Keys : key \in Effective(w) =>
        /\ signals'[key] \in Entry /\ signals'[key] # NoEntry
        /\ signals'[key].stamp = now
        /\ signals'[key].changedAt = generations[key[1]] + 1
        /\ generations'[key[1]] = generations[key[1]] + 1
        /\ signals'[key].provenance = "Live" => signals'[key].bytes \in checks[key]
        /\ commitOf'[key] = commits + 1
  BY <1>1, Publishes, SignalAssumption
<1>4. \A key \in Keys : key \notin Effective(w) =>
        signals'[key] = signals[key] /\ commitOf'[key] = commitOf[key]
  BY <1>1
<1>5. /\ generations' \in [Interfaces -> Nat]
      /\ \A iface \in Interfaces :
            /\ generations'[iface] = generations[iface] \/ generations'[iface] = generations[iface] + 1
            /\ generations'[iface] # generations[iface] =>
                  \E key \in Keys : key \in Effective(w) /\ key[1] = iface
            /\ generations[iface] \in Nat /\ generations'[iface] \in Nat
  <2>1. \A iface \in Interfaces : generations[iface] \in Nat
    BY <1>2 DEF SignalsTypeOK
  <2>2. \A iface \in Interfaces :
           generations'[iface] = IF Effective(w) \cap KeysOf(iface) # {}
                                 THEN generations[iface] + 1 ELSE generations[iface]
    BY <1>1 DEF Advanced
  <2>3. generations' \in [Interfaces -> Nat]
    BY <1>1, <2>1 DEF Advanced
  <2>4. \A iface \in Interfaces :
           Effective(w) \cap KeysOf(iface) # {} => \E key \in Keys : key \in Effective(w) /\ key[1] = iface
    BY DEF KeysOf
  <2> QED BY <2>1, <2>2, <2>3, <2>4
<1>6. \A key \in Keys : key[1] \in Interfaces
  BY KeyOfInterface
<1>7. SignalsTypeOK'
  <2>1. signals' \in [Keys -> Entry \cup {NoEntry}]
    BY <1>1, <1>2, <1>3, <1>4 DEF SignalsTypeOK
  <2>2. commits' \in Nat /\ commitOf' \in [Keys -> Nat]
    BY <1>1, <1>2 DEF SignalsTypeOK
  <2>3. staged' \in [Writers -> [Keys -> Changed]]
    BY <1>2 DEF Commit, SignalsTypeOK, Changed
  <2>4. seqs' \in [Writers -> [Keys -> Nat]]
    BY <1>2 DEF Commit, SignalsTypeOK
  <2> QED BY <1>1, <1>2, <1>5, <2>1, <2>2, <2>3, <2>4 DEF SignalsTypeOK
<1>8. /\ now \in Nat /\ commits \in Nat
      /\ \A key \in Keys : signals[key] # NoEntry =>
            /\ signals[key].changedAt \in Nat /\ signals[key].stamp \in Nat /\ commitOf[key] \in Nat
            /\ signals[key].changedAt <= generations[key[1]]
            /\ signals[key].stamp <= now /\ commitOf[key] <= commits
  BY <1>2 DEF SignalsTypeOK, Entry, PublishedBefore, Published
<1>9. PublishedBefore'
  <2> SUFFICES ASSUME NEW key \in Keys, Published(key)'
               PROVE  /\ signals'[key].changedAt <= generations'[key[1]]
                      /\ signals'[key].stamp <= now'
                      /\ commitOf'[key] <= commits'
    BY DEF PublishedBefore
  <2>1. CASE key \in Effective(w)
    BY <1>1, <1>3, <1>5, <1>6, <1>8, <2>1
  <2>2. CASE key \notin Effective(w)
    BY <1>1, <1>4, <1>5, <1>6, <1>8, <2>2 DEF Published
  <2> QED BY <2>1, <2>2
<1>10. MarksBehind'
  <2> SUFFICES ASSUME NEW r \in Scanners, NEW iface \in Interfaces
               PROVE  marks'[r][iface] <= generations'[iface]
    BY DEF MarksBehind
  <2>1. marks[r][iface] \in Nat /\ marks[r][iface] <= generations[iface]
    BY <1>2 DEF MarksBehind, SignalsTypeOK
  <2> QED BY <1>1, <1>5, <2>1
<1>11. LiveChecked'
  BY <1>1, <1>2, <1>3, <1>4 DEF PublishedExactly, LiveChecked, Published
<1>12. GenerationIsOneCommit'
  <2> SUFFICES ASSUME NEW k1 \in Keys, NEW k2 \in Keys,
                      k1[1] = k2[1], signals'[k1] # NoEntry, signals'[k2] # NoEntry
               PROVE  /\ signals'[k1].changedAt = signals'[k2].changedAt <=> commitOf'[k1] = commitOf'[k2]
                      /\ signals'[k1].changedAt < signals'[k2].changedAt => signals'[k1].stamp <= signals'[k2].stamp
                      /\ commitOf'[k1] = commitOf'[k2] => signals'[k1].stamp = signals'[k2].stamp
    BY DEF GenerationIsOneCommit, Published
  <2>1. CASE k1 \in Effective(w) /\ k2 \in Effective(w)
    BY <1>3, <1>5, <1>6, <1>8, <2>1
  <2>2. CASE k1 \in Effective(w) /\ k2 \notin Effective(w)
    BY <1>3, <1>4, <1>5, <1>6, <1>8, <2>2
  <2>3. CASE k1 \notin Effective(w) /\ k2 \in Effective(w)
    BY <1>3, <1>4, <1>5, <1>6, <1>8, <2>3
  <2>4. CASE k1 \notin Effective(w) /\ k2 \notin Effective(w)
    BY <1>2, <1>4, <2>4 DEF PublishedExactly, GenerationIsOneCommit, Published
  <2> QED BY <2>1, <2>2, <2>3, <2>4
<1>13. GenerationHasChange'
  <2> SUFFICES ASSUME NEW iface \in Interfaces, generations'[iface] > 0
               PROVE  \E key \in KeysOf(iface) :
                         signals'[key] # NoEntry /\ signals'[key].changedAt = generations'[iface]
    BY DEF GenerationHasChange, Published
  <2>1. CASE \E key \in Keys : key \in Effective(w) /\ key[1] = iface
    BY <1>3, <2>1, KeyOfInterface
  <2>2. CASE ~\E key \in Keys : key \in Effective(w) /\ key[1] = iface
    <3>1. generations'[iface] = generations[iface] /\ generations[iface] > 0
      BY <1>5, <2>2
    <3>2. PICK key \in KeysOf(iface) : signals[key] # NoEntry /\ signals[key].changedAt = generations[iface]
      BY <1>2, <3>1 DEF PublishedExactly, GenerationHasChange, Published
    <3>3. key \in Keys /\ key \notin Effective(w)
      BY <2>2, <3>2 DEF KeysOf
    <3> QED BY <1>4, <3>1, <3>2, <3>3
  <2> QED BY <2>1, <2>2
<1>14. NothingMissed'
  <2> SUFFICES ASSUME NEW r \in Scanners, NEW key \in Keys, signals'[key] # NoEntry,
                      marks'[r][key[1]] >= signals'[key].changedAt
               PROVE  told'[r][key] = commitOf'[key]
    BY DEF NothingMissed, Published
  <2>1. marks[r][key[1]] \in Nat /\ marks[r][key[1]] <= generations[key[1]]
    BY <1>2, <1>6 DEF MarksBehind, SignalsTypeOK
  <2>2. key \notin Effective(w)
    BY <1>1, <1>3, <1>5, <1>6, <2>1
  <2> QED BY <1>1, <1>2, <1>4, <2>2 DEF NothingMissed, Published
<1> QED BY <1>7, <1>9, <1>10, <1>11, <1>12, <1>13, <1>14 DEF SignalsInv, PublishedExactly

\* A scan tells of every change of the interfaces whose marks it moves.
LEMMA ScanInv ==
    ASSUME SignalsInv, NEW r \in Scanners, NEW order, NEW room, Scan(r, order, room)
    PROVE  SignalsInv'
<1> DEFINE served == Served(r, order, room)
<1>1. /\ marks' = [marks EXCEPT ![r] = [iface \in Interfaces |-> Marked(r, served, iface)]]
      /\ told' = [told EXCEPT ![r] = [key \in Keys |->
                      IF key[1] \in served /\ key \in Changes(r, key[1])
                      THEN commitOf[key] ELSE told[r][key]]]
      /\ UNCHANGED <<now, signals, checks, generations, staged, seqs, commits, commitOf>>
  BY DEF Scan, SignalsInv, SignalsTypeOK
<1> HIDE DEF served
<1>2. SignalsTypeOK /\ PublishedBefore /\ MarksBehind /\ PublishedExactly /\ NothingMissed
  BY DEF SignalsInv
<1>3. \A iface \in Interfaces :
        /\ marks[r][iface] \in Nat /\ generations[iface] \in Nat
        /\ marks[r][iface] <= generations[iface]
        /\ marks'[r][iface] = Marked(r, served, iface)
        /\ Marked(r, served, iface) \in Nat /\ Marked(r, served, iface) <= generations[iface]
  BY <1>1, <1>2 DEF SignalsTypeOK, MarksBehind, Marked
<1>4. \A s \in Scanners : s # r => marks'[s] = marks[s] /\ told'[s] = told[s]
  BY <1>1, <1>2 DEF SignalsTypeOK
<1>5. SignalsTypeOK'
  <2>1. marks' \in [Scanners -> [Interfaces -> Nat]]
    BY <1>1, <1>2, <1>3 DEF SignalsTypeOK
  <2>2. told' \in [Scanners -> [Keys -> Nat]]
    BY <1>1, <1>2 DEF SignalsTypeOK
  <2> QED BY <1>1, <1>2, <2>1, <2>2 DEF SignalsTypeOK
<1>6. MarksBehind'
  BY <1>1, <1>2, <1>3, <1>4 DEF MarksBehind
<1>7. PublishedBefore'
  BY <1>1, <1>2 DEF PublishedBefore, Published
<1>8. PublishedExactly'
  BY <1>1, <1>2 DEF PublishedExactly, LiveChecked, GenerationIsOneCommit, GenerationHasChange, Published
<1>9. NothingMissed'
  <2> SUFFICES ASSUME NEW s \in Scanners, NEW key \in Keys, signals[key] # NoEntry,
                      marks'[s][key[1]] >= signals[key].changedAt
               PROVE  told'[s][key] = commitOf[key]
    BY <1>1 DEF NothingMissed, Published
  <2>1. CASE s # r
    BY <1>2, <1>4, <2>1 DEF NothingMissed, Published
  <2>2. CASE s = r
    <3>1. key[1] \in Interfaces /\ key \in KeysOf(key[1])
      BY KeyOfInterface
    <3>2. told'[r][key] = IF key[1] \in served /\ key \in Changes(r, key[1])
                          THEN commitOf[key] ELSE told[r][key]
      BY <1>1, <1>2 DEF SignalsTypeOK
    <3>3. signals[key].changedAt \in Nat
      BY <1>2 DEF SignalsTypeOK, Entry
    <3>4. CASE marks[r][key[1]] >= signals[key].changedAt
      BY <1>2, <2>2, <3>2, <3>4 DEF NothingMissed, Published
    <3>5. CASE ~(marks[r][key[1]] >= signals[key].changedAt)
      <4>1. key[1] \in served /\ Behind(r, key[1])
        BY <1>3, <2>2, <3>1, <3>5 DEF Marked
      <4>2. key \in Changes(r, key[1])
        BY <1>3, <3>1, <3>3, <3>5, <4>1 DEF Changes, Published
      <4> QED BY <2>2, <3>2, <4>1, <4>2
    <3> QED BY <3>4, <3>5
  <2> QED BY <2>1, <2>2
<1> QED BY <1>5, <1>6, <1>7, <1>8, <1>9 DEF SignalsInv

LEMMA SignalsStutterInv ==
    ASSUME SignalsInv, UNCHANGED signalVars
    PROVE  SignalsInv'
<1>1. SignalsTypeOK' /\ now <= now' /\ LiveChecked'
  BY DEF SignalsInv, SignalsTypeOK, signalVars, PublishedExactly, LiveChecked, Published
<1> QED BY <1>1, StillInv DEF signalVars, Published

THEOREM SignalsInvariant == SignalsSpec => []SignalsInv
<1>1. SignalsInv /\ [SignalsNext]_signalVars => SignalsInv'
  BY AdvanceInv, CheckWithInv, StageInv, CommitInv, ScanInv, SignalsStutterInv DEF SignalsNext
<1> QED BY SignalsInitInv, <1>1, PTL DEF SignalsSpec

\* A generation is one publication of its interface, whichever writers commit
\* and whatever they touch, and no Live value a reader sees is one the check
\* registered now refuses.
THEOREM PublicationsCoherent == SignalsSpec => []PublishedExactly
<1>1. SignalsInv => PublishedExactly
  BY DEF SignalsInv
<1> QED BY SignalsInvariant, <1>1, PTL

\* However short the buffers and whatever the order of the marks, a scanner
\* whose mark has reached a channel's last change was told of it.
THEOREM ScansComplete == SignalsSpec => []NothingMissed
<1>1. SignalsInv => NothingMissed
  BY DEF SignalsInv
<1> QED BY SignalsInvariant, <1>1, PTL

-----------------------------------------------------------------------------
(***************************************************************************)
(* Events: what is owed to a subscriber is queued for any events, sinks,   *)
(* sources, tasks and number of occurrences.                               *)
(***************************************************************************)
Occurrence == [sink : Sinks, event : Events, seq : Nat]

EventsTypeOK ==
    /\ sources \in SUBSET Sources /\ nextSource \in Nat \ {0}
    /\ subscribed \in [Sources -> SUBSET Events]
    /\ queue \in [Sources -> Seq(Occurrence)]
    /\ waker \in [Sources -> Tasks \cup {NoWaker}]
    /\ raised \in [Sinks -> [Events -> Nat]]
    /\ read \in [Sources -> [Sinks -> [Events -> Nat]]]
    /\ asleep \in SUBSET (Sources \X Tasks)

\* A source not open has nothing, and the next one opened is not open yet.
ClosedAreEmpty ==
    /\ \A id \in Sources \ sources : subscribed[id] = {} /\ queue[id] = <<>>
    /\ \A id \in sources : id < nextSource

\* Nothing is read before it is raised.
ReadIsRaised ==
    \A id \in Sources, k \in Sinks, event \in Events : read[id][k][event] <= raised[k][event]

\* What a queue must hold, of one source.
Owed(q, subs, past, upTo) ==
    /\ InOrder(q)
    /\ \A k \in Sinks, event \in Events :
          Due(q, k, event) = IF event \in subs THEN (past[k][event] + 1) .. upTo[k][event] ELSE {}

AllOwed == \A id \in Sources : Owed(queue[id], subscribed[id], read[id], raised)

EventsInv == EventsTypeOK /\ ClosedAreEmpty /\ ReadIsRaised /\ AllOwed /\ SleepsOverNothing

-----------------------------------------------------------------------------
(* Queues. *)

\* The places of what is kept count it off in order.
LEMMA PlaceCounts ==
    ASSUME NEW q \in Seq(Occurrence), NEW events
    PROVE  LET K == KeptOf(q, events)
           IN  /\ K \subseteq DOMAIN q /\ Cardinality(K) \in Nat
               /\ \A i \in K : Place(q, events, i) \in 1..Cardinality(K)
               /\ \A i, j \in K : i < j => Place(q, events, i) < Place(q, events, j)
               /\ \A n \in 1..Cardinality(K) : \E i \in K : Place(q, events, i) = n
<1> DEFINE K == KeptOf(q, events)
           UpTo(i) == {j \in K : j <= i}
           c == Cardinality(K)
           place == [i \in K |-> Place(q, events, i)]
<1>1. DOMAIN q = 1..Len(q) /\ Len(q) \in Nat /\ K \subseteq DOMAIN q
  BY LenProperties DEF KeptOf
<1>2. IsFiniteSet(1..Len(q))
  BY <1>1, FS_Interval
<1>3. IsFiniteSet(K) /\ K \in SUBSET Nat
  BY <1>1, <1>2, FS_Subset
<1> HIDE DEF K
<1>4. c \in Nat
  BY <1>3, FS_CardinalityType
<1>5. \A i : IsFiniteSet(UpTo(i)) /\ Cardinality(UpTo(i)) \in Nat /\ Cardinality(UpTo(i)) <= c
             /\ Place(q, events, i) = Cardinality(UpTo(i))
  BY <1>3, FS_Subset, FS_CardinalityType DEF Place, K
<1>6. ASSUME NEW i \in K PROVE Place(q, events, i) \in 1..c
  <2>1. i \in UpTo(i)
    BY <1>3
  <2>2. UpTo(i) # {}
    BY <2>1
  <2> HIDE DEF UpTo, c
  <2>3. Cardinality(UpTo(i)) # 0
    BY <1>5, <2>2, FS_EmptySet
  <2> QED BY <1>4, <1>5, <2>3
<1>7. ASSUME NEW i \in K, NEW j \in K, i < j PROVE Place(q, events, i) < Place(q, events, j)
  <2>1. i \in Nat /\ j \in Nat
    BY <1>3
  <2>2. \A m \in K : m <= i => m <= j
    BY <1>3, <1>7, <2>1
  <2>3. j \in UpTo(j) /\ j \notin UpTo(i)
    BY <1>7, <2>1
  <2>4. UpTo(i) \in SUBSET UpTo(j) /\ UpTo(i) # UpTo(j)
    BY <2>2, <2>3
  <2> HIDE DEF UpTo, c
  <2>5. Cardinality(UpTo(i)) <= Cardinality(UpTo(j)) /\ Cardinality(UpTo(i)) # Cardinality(UpTo(j))
    BY <1>5, <2>4, FS_Subset
  <2> QED BY <1>5, <2>5
<1>8. \A n \in 1..c : \E i \in K : Place(q, events, i) = n
  <2>1. place \in [K -> 1..c]
    BY <1>6
  <2>2. ASSUME NEW i \in K, NEW j \in K, place[i] = place[j] PROVE i = j
    <3>1. i \in Nat /\ j \in Nat /\ Place(q, events, i) = Place(q, events, j)
      BY <1>3, <2>2
    <3>2. ~(i < j) /\ ~(j < i)
      BY <1>6, <1>7, <3>1
    <3> QED BY <3>1, <3>2
  <2> HIDE DEF place
  <2>3. place \in Injection(K, 1..c)
    BY <2>1, <2>2 DEF Injection, IsInjective
  <2>4. IsFiniteSet(1..c) /\ Cardinality(1..c) = c
    BY <1>4, FS_Interval
  <2>5. place \in Surjection(K, 1..c)
    BY <2>3, <2>4, FS_Injection
  <2>6. \A n \in 1..c : \E i \in K : place[i] = n
    BY <2>5 DEF Surjection
  <2> QED BY <2>6 DEF place
<1> QED BY <1>1, <1>4, <1>6, <1>7, <1>8 DEF K

\* A filtered queue has what is kept, all of it, in the order it had.
LEMMA FilteredKeeps ==
    ASSUME NEW q \in Seq(Occurrence), NEW events
    PROVE  LET f == Filtered(q, events)
           IN  /\ f \in Seq(Occurrence)
               /\ \A i \in DOMAIN q : StillSubscribed(q[i], events) => \E n \in DOMAIN f : f[n] = q[i]
               /\ \A n \in DOMAIN f : \E i \in DOMAIN q : StillSubscribed(q[i], events) /\ f[n] = q[i]
               /\ \A n, m \in DOMAIN f : n < m =>
                     \E i, j \in DOMAIN q :
                        /\ i < j /\ f[n] = q[i] /\ f[m] = q[j]
                        /\ StillSubscribed(q[i], events) /\ StillSubscribed(q[j], events)
<1> DEFINE K == KeptOf(q, events)
           c == Cardinality(K)
           P(i) == Place(q, events, i)
           at == [n \in 1..c |-> CHOOSE i \in K : P(i) = n]
           f == Filtered(q, events)
<1>1. /\ K \subseteq DOMAIN q /\ c \in Nat
      /\ \A i \in K : P(i) \in 1..c
      /\ \A i, j \in K : i < j => P(i) < P(j)
      /\ \A n \in 1..c : \E i \in K : P(i) = n
  BY PlaceCounts
<1>2. f = [n \in 1..c |-> q[at[n]]]
  BY DEF Filtered
<1>3. \A i \in K : StillSubscribed(q[i], events)
  BY DEF KeptOf
<1>4. \A i \in DOMAIN q : StillSubscribed(q[i], events) => i \in K
  BY DEF KeptOf
<1>5. \A i \in DOMAIN q : i \in Nat /\ q[i] \in Occurrence
  BY ElementOfSeq, LenProperties
<1> HIDE DEF K, P, f
<1>6. \A n \in 1..c : at[n] \in K /\ P(at[n]) = n
  BY <1>1
<1> HIDE DEF at, c
<1>7. DOMAIN f = 1..c /\ \A n \in 1..c : f[n] = q[at[n]] /\ f[n] \in Occurrence
  BY <1>1, <1>2, <1>5, <1>6
<1>8. f \in Seq(Occurrence)
  BY <1>1, <1>2, <1>7, IsASeq
<1>9. ASSUME NEW i \in K PROVE \E n \in DOMAIN f : f[n] = q[i]
  <2>1. P(i) \in 1..c /\ at[P(i)] \in K /\ P(at[P(i)]) = P(i)
    BY <1>1, <1>6
  <2>2. i \in Nat /\ at[P(i)] \in Nat
    BY <1>1, <1>5, <2>1
  <2>3. ~(i < at[P(i)]) /\ ~(at[P(i)] < i)
    BY <1>1, <2>1
  <2>4. at[P(i)] = i
    BY <2>2, <2>3
  <2> QED BY <1>7, <2>1, <2>4
<1>10. ASSUME NEW n \in 1..c, NEW m \in 1..c, n < m PROVE at[n] < at[m]
  <2>1. at[n] \in K /\ at[m] \in K /\ P(at[n]) = n /\ P(at[m]) = m
    BY <1>6
  <2>2. at[n] \in Nat /\ at[m] \in Nat /\ n \in Nat /\ m \in Nat
    BY <1>1, <1>5, <2>1
  <2>3. ~(at[m] < at[n]) /\ at[n] # at[m]
    BY <1>1, <1>10, <2>1, <2>2
  <2> QED BY <2>2, <2>3
<1>11. \A n \in DOMAIN f : \E i \in DOMAIN q : StillSubscribed(q[i], events) /\ f[n] = q[i]
  BY <1>1, <1>3, <1>6, <1>7
<1>12. \A n, m \in DOMAIN f : n < m =>
         \E i, j \in DOMAIN q :
            /\ i < j /\ f[n] = q[i] /\ f[m] = q[j]
            /\ StillSubscribed(q[i], events) /\ StillSubscribed(q[j], events)
  BY <1>1, <1>3, <1>6, <1>7, <1>10
<1> QED BY <1>4, <1>8, <1>9, <1>11, <1>12 DEF f

LEMMA OwedNothing ==
    ASSUME NEW past, NEW upTo
    PROVE  Owed(<<>>, {}, past, upTo)
BY DEF Owed, InOrder, Due

\* Events that leave take what is queued for them, and nothing else.
LEMMA OwedFiltered ==
    ASSUME NEW q \in Seq(Occurrence), NEW subs, NEW left \in SUBSET subs, NEW past, NEW upTo,
           Owed(q, subs, past, upTo)
    PROVE  Owed(Filtered(q, left), left, past, upTo) /\ Filtered(q, left) \in Seq(Occurrence)
<1> DEFINE f == Filtered(q, left)
<1>1. /\ f \in Seq(Occurrence)
      /\ \A i \in DOMAIN q : q[i].event \in left => \E n \in DOMAIN f : f[n] = q[i]
      /\ \A n \in DOMAIN f : \E i \in DOMAIN q : q[i].event \in left /\ f[n] = q[i]
      /\ \A n, m \in DOMAIN f : n < m =>
            \E i, j \in DOMAIN q : i < j /\ f[n] = q[i] /\ f[m] = q[j]
  BY FilteredKeeps DEF StillSubscribed
<1> HIDE DEF f
<1>2. InOrder(f)
  <2> SUFFICES ASSUME NEW n \in DOMAIN f, NEW m \in DOMAIN f, n < m,
                      f[n].sink = f[m].sink, f[n].event = f[m].event
               PROVE  f[n].seq < f[m].seq
    BY DEF InOrder
  <2>1. PICK i \in DOMAIN q, j \in DOMAIN q : i < j /\ f[n] = q[i] /\ f[m] = q[j]
    BY <1>1
  <2> QED BY <2>1 DEF Owed, InOrder
<1>3. ASSUME NEW k \in Sinks, NEW event \in Events
      PROVE  Due(f, k, event) = IF event \in left THEN Due(q, k, event) ELSE {}
  <2>1. CASE event \in left
    <3>1. \A x \in Due(f, k, event) : x \in Due(q, k, event)
      BY <1>1 DEF Due
    <3>2. \A x \in Due(q, k, event) : x \in Due(f, k, event)
      <4> SUFFICES ASSUME NEW i \in DOMAIN q, q[i].sink = k, q[i].event = event
                   PROVE  q[i].seq \in Due(f, k, event)
        BY DEF Due
      <4>1. PICK n \in DOMAIN f : f[n] = q[i]
        BY <1>1, <2>1
      <4> QED BY <4>1 DEF Due
    <3> QED BY <2>1, <3>1, <3>2
  <2>2. CASE event \notin left
    BY <1>1, <2>2 DEF Due
  <2> QED BY <2>1, <2>2
<1>4. \A k \in Sinks, event \in Events :
         Due(f, k, event) = IF event \in left THEN (past[k][event] + 1) .. upTo[k][event] ELSE {}
  BY <1>3 DEF Owed
<1> QED BY <1>1, <1>2, <1>4 DEF Owed, f

\* A new occurrence follows the ones queued before it.
NoneAhead(past, upTo) == \A k \in Sinks, event \in Events : past[k][event] <= upTo[k][event]
OneMore(upTo, upTo2, o) ==
    /\ upTo2[o.sink][o.event] = upTo[o.sink][o.event] + 1
    /\ \A k \in Sinks, event \in Events :
          k # o.sink \/ event # o.event => upTo2[k][event] = upTo[k][event]

LEMMA OwedAppended ==
    ASSUME NEW q \in Seq(Occurrence), NEW subs, NEW past, NEW upTo, NEW upTo2, NEW o \in Occurrence,
           past \in [Sinks -> [Events -> Nat]], upTo \in [Sinks -> [Events -> Nat]],
           NoneAhead(past, upTo), Owed(q, subs, past, upTo),
           o.event \in subs, o.seq = upTo[o.sink][o.event] + 1, OneMore(upTo, upTo2, o)
    PROVE  Owed(Append(q, o), subs, past, upTo2) /\ Append(q, o) \in Seq(Occurrence)
<1> DEFINE k0 == o.sink
           e0 == o.event
           a == Append(q, o)
           last == Len(q) + 1
<1>0. k0 \in Sinks /\ e0 \in Events
  BY DEF Occurrence
<1>1. o \in Occurrence /\ o.sink = k0 /\ o.event = e0 /\ o.seq = upTo[k0][e0] + 1
  OBVIOUS
<1>raised. /\ e0 \in subs /\ upTo[k0][e0] \in Nat
      /\ upTo2[k0][e0] = upTo[k0][e0] + 1
      /\ \A k \in Sinks, event \in Events :
            /\ past[k][event] \in Nat /\ upTo[k][event] \in Nat /\ past[k][event] <= upTo[k][event]
            /\ k # k0 \/ event # e0 => upTo2[k][event] = upTo[k][event]
  BY <1>0 DEF OneMore, NoneAhead
<1> HIDE DEF k0, e0
<1>2. /\ a \in Seq(Occurrence) /\ Len(q) \in Nat
      /\ DOMAIN q = 1..Len(q) /\ DOMAIN a = 1..last
      /\ \A i \in 1..Len(q) : a[i] = q[i]
      /\ a[last] = o
  BY <1>1, AppendProperties, LenProperties
<1>3. \A i \in DOMAIN q : q[i] \in Occurrence
  BY ElementOfSeq, LenProperties
<1> HIDE DEF a
<1>4. \A i \in DOMAIN a : i \in DOMAIN q \/ i = last
  BY <1>2
<1>5. \A i \in DOMAIN q : i \in DOMAIN a /\ a[i] = q[i] /\ i < last
  BY <1>2
<1>6. last \in DOMAIN a
  BY <1>2
<1> HIDE DEF last
<1>7. ASSUME NEW i \in DOMAIN q, q[i].sink = k0, q[i].event = e0
      PROVE  q[i].seq <= upTo[k0][e0]
  <2>1. q[i].seq \in Due(q, k0, e0)
    BY <1>7 DEF Due
  <2>2. Due(q, k0, e0) = (past[k0][e0] + 1) .. upTo[k0][e0]
    BY <1>0, <1>raised DEF Owed
  <2> QED BY <2>1, <2>2
<1>8. InOrder(a)
  <2> SUFFICES ASSUME NEW i \in DOMAIN a, NEW j \in DOMAIN a, i < j,
                      a[i].sink = a[j].sink, a[i].event = a[j].event
               PROVE  a[i].seq < a[j].seq
    BY DEF InOrder
  <2>1. CASE j \in DOMAIN q
    <3>1. i \in DOMAIN q
      BY <1>2, <2>1 DEF last
    <3> QED BY <1>5, <2>1, <3>1 DEF Owed, InOrder
  <2>2. CASE j = last
    <3>1. i \in DOMAIN q
      BY <1>2, <2>2 DEF last
    <3>2. a[i] = q[i] /\ a[j].seq = upTo[k0][e0] + 1 /\ q[i].sink = k0 /\ q[i].event = e0
      BY <1>1, <1>2, <1>5, <2>2, <3>1
    <3>3. q[i].seq \in Nat /\ upTo[k0][e0] \in Nat
      BY <1>3, <1>raised, <3>1 DEF Occurrence
    <3> QED BY <1>7, <3>1, <3>2, <3>3
  <2> QED BY <1>4, <2>1, <2>2
<1>9. ASSUME NEW k \in Sinks, NEW event \in Events
      PROVE  Due(a, k, event) = Due(q, k, event) \cup (IF k = k0 /\ event = e0 THEN {upTo[k0][e0] + 1} ELSE {})
  <2>1. \A x \in Due(q, k, event) : x \in Due(a, k, event)
    BY <1>5 DEF Due
  <2>2. k = k0 /\ event = e0 => upTo[k0][e0] + 1 \in Due(a, k, event)
    BY <1>1, <1>2, <1>6 DEF Due
  <2>3. \A x \in Due(a, k, event) :
           x \in Due(q, k, event) \/ (k = k0 /\ event = e0 /\ x = upTo[k0][e0] + 1)
    <3> SUFFICES ASSUME NEW i \in DOMAIN a, a[i].sink = k, a[i].event = event
                 PROVE  \/ a[i].seq \in Due(q, k, event)
                        \/ k = k0 /\ event = e0 /\ a[i].seq = upTo[k0][e0] + 1
      BY DEF Due
    <3>1. CASE i \in DOMAIN q
      BY <1>5, <3>1 DEF Due
    <3>2. CASE i = last
      BY <1>1, <1>2, <3>2
    <3> QED BY <1>4, <3>1, <3>2
  <2> QED BY <2>1, <2>2, <2>3
<1>10. ASSUME NEW k \in Sinks, NEW event \in Events
       PROVE  Due(a, k, event) = IF event \in subs THEN (past[k][event] + 1) .. upTo2[k][event] ELSE {}
  <2>1. Due(q, k, event) = IF event \in subs THEN (past[k][event] + 1) .. upTo[k][event] ELSE {}
    BY DEF Owed
  <2>2. past[k][event] \in Nat /\ upTo[k][event] \in Nat /\ past[k][event] <= upTo[k][event]
    BY <1>raised
  <2>3. CASE k = k0 /\ event = e0
    <3>1. upTo2[k][event] = upTo[k][event] + 1
      BY <1>raised, <2>3
    <3>2. Due(a, k, event) = ((past[k][event] + 1) .. upTo[k][event]) \cup {upTo[k][event] + 1}
      BY <1>9, <1>raised, <2>1, <2>3
    <3> DEFINE x == past[k][event]
               y == upTo[k][event]
    <3>3. x \in Nat /\ y \in Nat /\ x <= y
      BY <2>2
    <3> HIDE DEF x, y
    <3>4. ((x + 1) .. y) \cup {y + 1} = (x + 1) .. (y + 1)
      <4>1. \A m \in (x + 1) .. y : m \in (x + 1) .. (y + 1)
        BY <3>3
      <4>2. y + 1 \in (x + 1) .. (y + 1)
        BY <3>3
      <4>3. \A m \in (x + 1) .. (y + 1) : m \in (x + 1) .. y \/ m = y + 1
        BY <3>3
      <4> DEFINE A == (x + 1) .. y
                 B == (x + 1) .. (y + 1)
                 z == y + 1
      <4> HIDE DEF A, B, z
      <4>4. A \cup {z} = B
        <5>1. (\A m \in A : m \in B) /\ z \in B /\ \A m \in B : m \in A \/ m = z
          BY <4>1, <4>2, <4>3 DEF A, B, z
        <5> QED BY <5>1
      <4> QED BY <4>4 DEF A, B, z
    <3>5. Due(a, k, event) = (x + 1) .. upTo2[k][event]
      BY <3>1, <3>2, <3>4 DEF x, y
    <3>6. event \in subs
      BY <1>raised, <2>3
    <3> QED BY <3>5, <3>6 DEF x
  <2>4. CASE ~(k = k0 /\ event = e0)
    <3>1. upTo2[k][event] = upTo[k][event]
      BY <1>raised, <2>4
    <3> DEFINE d == Due(q, k, event)
    <3>2. Due(a, k, event) = d
      <4> HIDE DEF d
      <4>1. Due(a, k, event) = d \cup {}
        BY ONLY <1>9, <2>4 DEF d
      <4> QED BY ONLY <4>1
    <3> QED BY <2>1, <3>1, <3>2
  <2> QED BY <2>3, <2>4
<1> QED BY <1>2, <1>8, <1>10 DEF Owed, a

\* The first of a queue is the next of its channel to be read.
LEMMA OwedRead ==
    ASSUME NEW q \in Seq(Occurrence), q # <<>>, NEW subs, NEW past \in [Sinks -> [Events -> Nat]],
           NEW upTo \in [Sinks -> [Events -> Nat]],
           Owed(q, subs, past, upTo)
    PROVE  LET h == Head(q)
           IN  /\ h \in Occurrence
               /\ h.event \in subs
               /\ h.seq = past[h.sink][h.event] + 1
               /\ h.seq <= upTo[h.sink][h.event]
               /\ Tail(q) \in Seq(Occurrence)
               /\ Owed(Tail(q), subs, [past EXCEPT ![h.sink][h.event] = h.seq], upTo)
<1> DEFINE h == Head(q)
           t == Tail(q)
           later == [past EXCEPT ![h.sink][h.event] = h.seq]
<1>1. /\ h \in Occurrence /\ t \in Seq(Occurrence) /\ Len(t) = Len(q) - 1
      /\ \A i \in 1..Len(t) : t[i] = q[i + 1]
  BY HeadTailProperties
<1>2. /\ Len(q) \in Nat \ {0} /\ DOMAIN q = 1..Len(q) /\ DOMAIN t = 1..Len(t) /\ h = q[1]
  BY <1>1, EmptySeq, LenProperties
<1> HIDE DEF t, h
<1>3. 1 \in DOMAIN q /\ \A i \in DOMAIN q : i \in Nat /\ (i # 1 => i > 1)
  BY <1>2
<1>4. \A i \in DOMAIN t : i + 1 \in DOMAIN q /\ t[i] = q[i + 1] /\ i \in Nat /\ i + 1 # 1
  BY <1>1, <1>2
<1>5. ASSUME NEW i \in DOMAIN q, i # 1 PROVE \E n \in DOMAIN t : t[n] = q[i]
  <2>1. i - 1 \in DOMAIN t /\ (i - 1) + 1 = i
    BY <1>1, <1>2, <1>5
  <2> QED BY <1>1, <1>2, <2>1
<1>6. h.sink \in Sinks /\ h.event \in Events /\ h.seq \in Nat
  BY <1>1 DEF Occurrence
<1> DEFINE first == past[h.sink][h.event]
           end == upTo[h.sink][h.event]
<1>7. first \in Nat /\ end \in Nat
  BY <1>6
<1>8. h.seq \in Due(q, h.sink, h.event)
  BY <1>2, <1>3 DEF Due
<1>9. h.event \in subs /\ Due(q, h.sink, h.event) = (first + 1) .. end
  BY <1>6, <1>8 DEF Owed
<1> HIDE DEF first, end
<1>10. h.seq >= first + 1 /\ h.seq <= end
  BY <1>7, <1>8, <1>9
<1>11. h.seq = first + 1
  <2>1. first + 1 \in Due(q, h.sink, h.event)
    BY <1>6, <1>7, <1>9, <1>10
  <2>2. PICK i \in DOMAIN q : q[i].sink = h.sink /\ q[i].event = h.event /\ q[i].seq = first + 1
    BY <2>1 DEF Due
  <2>3. CASE i = 1
    BY <1>2, <2>2, <2>3
  <2>4. CASE i # 1
    <3>1. 1 < i
      BY <1>3, <2>4
    <3>2. h.seq < first + 1
      BY <1>2, <1>3, <2>2, <3>1 DEF Owed, InOrder
    <3> QED BY <1>6, <1>7, <1>10, <3>2
  <2> QED BY <2>3, <2>4
<1>12. InOrder(t)
  <2> SUFFICES ASSUME NEW i \in DOMAIN t, NEW j \in DOMAIN t, i < j,
                      t[i].sink = t[j].sink, t[i].event = t[j].event
               PROVE  t[i].seq < t[j].seq
    BY DEF InOrder
  <2>1. i + 1 \in DOMAIN q /\ j + 1 \in DOMAIN q /\ t[i] = q[i + 1] /\ t[j] = q[j + 1] /\ i + 1 < j + 1
    BY <1>4
  <2> QED BY <2>1 DEF Owed, InOrder
<1>13. ASSUME NEW k \in Sinks, NEW event \in Events
       PROVE  Due(t, k, event) = IF event \in subs THEN (later[k][event] + 1) .. upTo[k][event] ELSE {}
  <2>0. \A x \in Due(t, k, event) : x \in Due(q, k, event)
    BY <1>4 DEF Due
  <2>1. CASE k = h.sink /\ event = h.event
    <3>1. later[k][event] = h.seq
      BY <1>6, <2>1
    <3>2. ASSUME NEW x \in Due(t, k, event) PROVE x # h.seq
      <4>1. PICK i \in DOMAIN t : t[i].sink = k /\ t[i].event = event /\ t[i].seq = x
        BY DEF Due
      <4>2. i + 1 \in DOMAIN q /\ t[i] = q[i + 1] /\ 1 < i + 1
        BY <1>3, <1>4
      <4>3. h.seq < x
        BY <1>2, <1>3, <2>1, <4>1, <4>2 DEF Owed, InOrder
      <4>4. x \in Int
        BY <1>7, <1>9, <2>0, <2>1
      <4> QED BY <1>6, <4>3, <4>4
    <3>3. ASSUME NEW x \in Due(q, k, event), x # h.seq PROVE x \in Due(t, k, event)
      <4>1. PICK i \in DOMAIN q : q[i].sink = k /\ q[i].event = event /\ q[i].seq = x
        BY DEF Due
      <4>2. i # 1
        BY <1>2, <3>3, <4>1
      <4>3. PICK n \in DOMAIN t : t[n] = q[i]
        BY <1>5, <4>2
      <4> QED BY <4>1, <4>3 DEF Due
    <3>4. Due(t, k, event) = ((first + 1) .. end) \ {first + 1}
      BY <1>9, <1>11, <2>0, <2>1, <3>2, <3>3
    <3>5. Due(t, k, event) = (h.seq + 1) .. end
      BY <1>7, <1>11, <3>4
    <3> QED BY <1>9, <2>1, <3>1, <3>5 DEF end
  <2>2. CASE ~(k = h.sink /\ event = h.event)
    <3>1. later[k][event] = past[k][event]
      BY <1>6, <2>2
    <3>2. ASSUME NEW x \in Due(q, k, event) PROVE x \in Due(t, k, event)
      <4>1. PICK i \in DOMAIN q : q[i].sink = k /\ q[i].event = event /\ q[i].seq = x
        BY DEF Due
      <4>2. i # 1
        BY <1>2, <2>2, <4>1
      <4>3. PICK n \in DOMAIN t : t[n] = q[i]
        BY <1>5, <4>2
      <4> QED BY <4>1, <4>3 DEF Due
    <3>3. Due(t, k, event) = Due(q, k, event)
      BY <2>0, <3>2
    <3> QED BY <3>1, <3>3 DEF Owed
  <2> QED BY <2>1, <2>2
<1>14. Owed(t, subs, later, upTo)
  BY <1>12, <1>13 DEF Owed
<1> QED BY <1>1, <1>6, <1>9, <1>10, <1>11, <1>14 DEF t, h, first, end

-----------------------------------------------------------------------------
(* Steps. *)

LEMMA EventsInitInv == EventsInit => EventsInv
<1> SUFFICES ASSUME EventsInit PROVE EventsInv
  OBVIOUS
<1>1. EventsTypeOK
  BY EmptySeq DEF EventsInit, EventsTypeOK
<1>2. \A id \in Sources : queue[id] = <<>> /\ subscribed[id] = {}
  BY DEF EventsInit
<1>3. AllOwed
  BY <1>2, OwedNothing DEF AllOwed
<1>4. ClosedAreEmpty /\ ReadIsRaised /\ SleepsOverNothing
  BY <1>2 DEF EventsInit, ClosedAreEmpty, ReadIsRaised, SleepsOverNothing
<1> QED BY <1>1, <1>3, <1>4 DEF EventsInv

LEMMA OpenSourceInv ==
    ASSUME EventsInv, OpenSource
    PROVE  EventsInv'
<1>1. nextSource \in Sources /\ nextSource' = nextSource + 1 /\ sources' = sources \cup {nextSource}
      /\ UNCHANGED <<subscribed, queue, waker, raised, read, asleep>>
  BY EventAssumption DEF OpenSource, EventsInv, EventsTypeOK, Sources
<1>2. EventsTypeOK'
  BY <1>1 DEF EventsInv, EventsTypeOK
<1>3. ClosedAreEmpty'
  BY <1>1 DEF EventsInv, ClosedAreEmpty, EventsTypeOK, Sources
<1> QED BY <1>1, <1>2, <1>3 DEF EventsInv, ReadIsRaised, AllOwed, SleepsOverNothing

LEMMA CloseSourceInv ==
    ASSUME EventsInv, NEW id \in Sources, CloseSource(id)
    PROVE  EventsInv'
<1>1. /\ sources' = sources \ {id}
      /\ subscribed' = [subscribed EXCEPT ![id] = {}]
      /\ queue' = [queue EXCEPT ![id] = <<>>]
      /\ waker' = [waker EXCEPT ![id] = NoWaker]
      /\ asleep' = {r \in asleep : r[1] # id}
      /\ UNCHANGED <<nextSource, raised, read>>
  BY DEF CloseSource
<1>2. /\ subscribed'[id] = {} /\ queue'[id] = <<>>
      /\ \A x \in Sources : x # id =>
            subscribed'[x] = subscribed[x] /\ queue'[x] = queue[x] /\ waker'[x] = waker[x]
  BY <1>1 DEF EventsInv, EventsTypeOK
<1>3. EventsTypeOK'
  BY <1>1, EmptySeq DEF EventsInv, EventsTypeOK
<1>4. ClosedAreEmpty'
  BY <1>1, <1>2 DEF EventsInv, ClosedAreEmpty
<1>5. AllOwed'
  <2> SUFFICES ASSUME NEW x \in Sources PROVE Owed(queue'[x], subscribed'[x], read[x], raised)
    BY <1>1 DEF AllOwed
  <2>1. x # id => Owed(queue[x], subscribed[x], read[x], raised)
    BY DEF EventsInv, AllOwed
  <2> QED BY <1>2, <2>1, OwedNothing
<1>6. SleepsOverNothing'
  BY <1>1, <1>2 DEF EventsInv, EventsTypeOK, SleepsOverNothing
<1> QED BY <1>1, <1>3, <1>4, <1>5, <1>6 DEF EventsInv, ReadIsRaised

LEMMA SubscribeInv ==
    ASSUME EventsInv, NEW id \in Sources, NEW events \in SUBSET Events, Subscribe(id, events)
    PROVE  EventsInv'
<1> DEFINE past == [k \in Sinks |-> [event \in Events |->
                       IF event \in events \ subscribed[id] THEN raised[k][event] ELSE read[id][k][event]]]
<1>1. /\ id \in sources
      /\ subscribed' = [subscribed EXCEPT ![id] = subscribed[id] \cup events]
      /\ read' = [read EXCEPT ![id] = past]
      /\ UNCHANGED <<sources, nextSource, queue, waker, raised, asleep>>
  BY DEF Subscribe, EventsInv, EventsTypeOK
<1>2. EventsTypeOK
  BY DEF EventsInv
<1>3. past \in [Sinks -> [Events -> Nat]]
  BY <1>2 DEF EventsTypeOK
<1>4. \A k \in Sinks, event \in Events :
         past[k][event] = IF event \in events \ subscribed[id] THEN raised[k][event] ELSE read[id][k][event]
  OBVIOUS
<1> HIDE DEF past
<1>5. /\ subscribed'[id] = subscribed[id] \cup events /\ read'[id] = past
      /\ \A x \in Sources : x # id => subscribed'[x] = subscribed[x] /\ read'[x] = read[x]
  BY <1>1, <1>2 DEF EventsTypeOK
<1>6. EventsTypeOK'
  BY <1>1, <1>2, <1>3 DEF EventsTypeOK
<1>7. ClosedAreEmpty' /\ SleepsOverNothing'
  BY <1>1, <1>5 DEF EventsInv, ClosedAreEmpty, SleepsOverNothing
<1>8. ReadIsRaised'
  <2> SUFFICES ASSUME NEW x \in Sources, NEW k \in Sinks, NEW event \in Events
               PROVE  read'[x][k][event] <= raised[k][event]
    BY <1>1 DEF ReadIsRaised
  <2>1. read[x][k][event] <= raised[k][event] /\ raised[k][event] \in Nat
    BY <1>2 DEF EventsInv, ReadIsRaised, EventsTypeOK
  <2> QED BY <1>4, <1>5, <2>1
<1>9. AllOwed'
  <2> SUFFICES ASSUME NEW x \in Sources PROVE Owed(queue[x], subscribed'[x], read'[x], raised)
    BY <1>1 DEF AllOwed
  <2>1. Owed(queue[x], subscribed[x], read[x], raised)
    BY DEF EventsInv, AllOwed
  <2>2. CASE x = id
    <3> SUFFICES ASSUME NEW k \in Sinks, NEW event \in Events
                 PROVE  Due(queue[id], k, event) =
                           IF event \in subscribed[id] \cup events
                           THEN (past[k][event] + 1) .. raised[k][event] ELSE {}
      BY <1>5, <2>1, <2>2 DEF Owed
    <3>1. Due(queue[id], k, event) =
             IF event \in subscribed[id] THEN (read[id][k][event] + 1) .. raised[k][event] ELSE {}
      BY <2>1, <2>2 DEF Owed
    <3>2. raised[k][event] \in Nat
      BY <1>2 DEF EventsTypeOK
    <3>3. (raised[k][event] + 1) .. raised[k][event] = {}
      BY <3>2
    <3> QED BY <1>4, <3>1, <3>3
  <2> QED BY <1>5, <2>1, <2>2
<1> QED BY <1>6, <1>7, <1>8, <1>9 DEF EventsInv

LEMMA UnsubscribeInv ==
    ASSUME EventsInv, NEW id \in Sources, NEW events \in SUBSET Events, Unsubscribe(id, events)
    PROVE  EventsInv'
<1> DEFINE left == subscribed[id] \ events
           kept == Filtered(queue[id], left)
<1>1. /\ id \in sources
      /\ subscribed' = [subscribed EXCEPT ![id] = left]
      /\ queue' = [queue EXCEPT ![id] = kept]
      /\ UNCHANGED <<sources, nextSource, waker, raised, read, asleep>>
  BY DEF Unsubscribe, EventsInv, EventsTypeOK
<1>2. EventsTypeOK /\ left \in SUBSET subscribed[id] /\ left \in SUBSET Events
  BY DEF EventsInv, EventsTypeOK
<1>3. queue[id] \in Seq(Occurrence) /\ Owed(queue[id], subscribed[id], read[id], raised)
  BY <1>2 DEF EventsTypeOK, EventsInv, AllOwed
<1> HIDE DEF left
<1>4. Owed(kept, left, read[id], raised) /\ kept \in Seq(Occurrence)
  BY <1>2, <1>3, OwedFiltered
<1>5. queue[id] = <<>> => kept = <<>>
  <2> SUFFICES ASSUME queue[id] = <<>> PROVE kept = <<>>
    OBVIOUS
  <2>1. \A n \in DOMAIN kept : \E i \in DOMAIN queue[id] : TRUE
    BY <1>3, FilteredKeeps
  <2>2. DOMAIN queue[id] = {}
    OBVIOUS
  <2> HIDE DEF kept
  <2>3. DOMAIN kept = {}
    BY <2>1, <2>2
  <2>4. DOMAIN kept = 1..Len(kept) /\ Len(kept) \in Nat
    BY <1>4, LenProperties
  <2>5. Len(kept) = 0
    BY <2>3, <2>4
  <2> QED BY <1>4, <2>5, EmptySeq
<1> HIDE DEF kept
<1>6. /\ subscribed'[id] = left /\ queue'[id] = kept
      /\ \A x \in Sources : x # id => subscribed'[x] = subscribed[x] /\ queue'[x] = queue[x]
  BY <1>1, <1>2 DEF EventsTypeOK
<1>7. EventsTypeOK'
  BY <1>1, <1>2, <1>4 DEF EventsTypeOK
<1>8. ClosedAreEmpty' /\ ReadIsRaised'
  BY <1>1, <1>6 DEF EventsInv, ClosedAreEmpty, ReadIsRaised
<1>9. SleepsOverNothing'
  BY <1>1, <1>5, <1>6 DEF EventsInv, EventsTypeOK, SleepsOverNothing
<1>10. AllOwed'
  <2> SUFFICES ASSUME NEW x \in Sources PROVE Owed(queue'[x], subscribed'[x], read[x], raised)
    BY <1>1 DEF AllOwed
  <2>1. Owed(queue[x], subscribed[x], read[x], raised)
    BY DEF EventsInv, AllOwed
  <2> QED BY <1>4, <1>6, <2>1
<1> QED BY <1>7, <1>8, <1>9, <1>10 DEF EventsInv

LEMMA RaiseInv ==
    ASSUME EventsInv, NEW k0 \in Sinks, NEW e0 \in Events, Raise(k0, e0)
    PROVE  EventsInv'
<1> DEFINE n == raised[k0][e0] + 1
           o == [sink |-> k0, event |-> e0, seq |-> n]
           to == Listening(e0)
<1>1. /\ raised' = [raised EXCEPT ![k0][e0] = raised[k0][e0] + 1]
      /\ queue' = [id \in Sources |-> IF id \in to THEN Append(queue[id], o) ELSE queue[id]]
      /\ waker' = [id \in Sources |-> IF id \in to THEN NoWaker ELSE waker[id]]
      /\ asleep' = asleep \ {<<id, waker[id]>> : id \in to}
      /\ UNCHANGED <<sources, nextSource, subscribed, read>>
  BY DEF Raise, NextSeq, Woken, EventsInv, EventsTypeOK
<1>2. EventsTypeOK
  BY DEF EventsInv
<1>3. /\ raised' \in [Sinks -> [Events -> Nat]]
      /\ raised'[k0][e0] = raised[k0][e0] + 1
      /\ \A k \in Sinks, event \in Events : k # k0 \/ event # e0 => raised'[k][event] = raised[k][event]
      /\ \A k \in Sinks, event \in Events : raised[k][event] \in Nat
  BY <1>1, <1>2 DEF EventsTypeOK
<1>4. \A id \in to : id \in sources /\ id \in Sources /\ e0 \in subscribed[id]
  BY <1>2 DEF Listening, EventsTypeOK
<1> HIDE DEF to
<1>5. ASSUME NEW id \in Sources
      PROVE  /\ Owed(queue'[id], subscribed[id], read[id], raised')
             /\ queue'[id] \in Seq(Occurrence)
  <2>1. /\ Owed(queue[id], subscribed[id], read[id], raised) /\ queue[id] \in Seq(Occurrence)
        /\ read[id] \in [Sinks -> [Events -> Nat]] /\ raised \in [Sinks -> [Events -> Nat]]
        /\ \A k \in Sinks, event \in Events : read[id][k][event] <= raised[k][event]
    BY <1>2 DEF EventsInv, AllOwed, EventsTypeOK, ReadIsRaised
  <2>2. CASE id \in to
    <3>1. queue'[id] = Append(queue[id], o)
      BY <1>1, <2>2
    <3>2. Owed(Append(queue[id], o), subscribed[id], read[id], raised') /\ Append(queue[id], o) \in Seq(Occurrence)
      <4> DEFINE q == queue[id]
                 subs == subscribed[id]
                 past == read[id]
                 upTo2 == raised'
      <4>1. /\ o \in Occurrence /\ o.event \in subs /\ o.seq = raised[o.sink][o.event] + 1
            /\ o.sink = k0 /\ o.event = e0
        BY <1>3, <1>4, <2>2 DEF Occurrence
      <4> HIDE DEF o
      <4>2. OneMore(raised, upTo2, o)
        BY <1>3, <4>1 DEF OneMore
      <4>3. /\ Owed(q, subs, past, raised) /\ q \in Seq(Occurrence)
            /\ past \in [Sinks -> [Events -> Nat]] /\ raised \in [Sinks -> [Events -> Nat]]
            /\ NoneAhead(past, raised)
        BY <2>1 DEF NoneAhead
      <4> HIDE DEF q, subs, past, upTo2
      <4>4. Owed(Append(q, o), subs, past, upTo2) /\ Append(q, o) \in Seq(Occurrence)
        BY <4>1, <4>2, <4>3, OwedAppended
      <4> QED BY <4>4 DEF q, subs, past, upTo2
    <3> QED BY <3>1, <3>2
  <2>3. CASE id \notin to
    <3>1. queue'[id] = queue[id]
      BY <1>1, <2>3
    <3>2. e0 \notin subscribed[id]
      <4>1. id \in sources => e0 \notin subscribed[id]
        BY <2>3 DEF to, Listening
      <4> QED BY <4>1 DEF EventsInv, ClosedAreEmpty
    <3>3. \A event \in subscribed[id] : event # e0
      BY <3>2
    <3>4. Owed(queue[id], subscribed[id], read[id], raised')
      BY <1>3, <2>1, <3>3 DEF Owed
    <3> QED BY <2>1, <3>1, <3>4
  <2> QED BY <2>2, <2>3
<1>6. EventsTypeOK'
  <2>1. queue' \in [Sources -> Seq(Occurrence)]
    BY <1>1, <1>5
  <2>2. waker' \in [Sources -> Tasks \cup {NoWaker}]
    BY <1>1, <1>2 DEF EventsTypeOK
  <2> QED BY <1>1, <1>2, <1>3, <2>1, <2>2 DEF EventsTypeOK
<1>7. ClosedAreEmpty'
  BY <1>1, <1>4 DEF EventsInv, ClosedAreEmpty
<1>8. ReadIsRaised'
  <2> SUFFICES ASSUME NEW x \in Sources, NEW k \in Sinks, NEW event \in Events
               PROVE  read[x][k][event] <= raised'[k][event]
    BY <1>1 DEF ReadIsRaised
  <2>1. read[x][k][event] <= raised[k][event] /\ read[x][k][event] \in Nat /\ raised[k][event] \in Nat
    BY <1>2 DEF EventsInv, ReadIsRaised, EventsTypeOK
  <2>2. raised'[k][event] = raised[k][event] \/ raised'[k][event] = raised[k][event] + 1
    BY <1>3
  <2> QED BY <2>1, <2>2
<1>9. SleepsOverNothing'
  <2> SUFFICES ASSUME NEW r \in asleep' PROVE waker'[r[1]] = r[2] /\ queue'[r[1]] = <<>>
    BY DEF SleepsOverNothing
  <2>1. /\ r \in asleep /\ waker[r[1]] = r[2] /\ queue[r[1]] = <<>>
        /\ r[1] \in Sources /\ r = <<r[1], r[2]>>
    BY <1>1, <1>2 DEF EventsInv, SleepsOverNothing, EventsTypeOK
  <2>2. r[1] \notin to
    BY <1>1, <2>1
  <2> QED BY <1>1, <2>1, <2>2
<1>10. AllOwed'
  BY <1>1, <1>5 DEF AllOwed
<1> QED BY <1>6, <1>7, <1>8, <1>9, <1>10 DEF EventsInv

LEMMA NextEventInv ==
    ASSUME EventsInv, NEW id \in Sources, NextEvent(id)
    PROVE  EventsInv'
<1> DEFINE q == queue[id]
           h == Head(queue[id])
           past == [read[id] EXCEPT ![h.sink][h.event] = h.seq]
<1>1. /\ id \in sources /\ q # <<>>
      /\ queue' = [queue EXCEPT ![id] = Tail(q)]
      /\ UNCHANGED <<sources, nextSource, subscribed, waker, raised, asleep>>
  BY DEF NextEvent, EventsInv, EventsTypeOK
<1>2. EventsTypeOK
  BY DEF EventsInv
<1>3. /\ q \in Seq(Occurrence) /\ Owed(q, subscribed[id], read[id], raised)
      /\ read[id] \in [Sinks -> [Events -> Nat]] /\ raised \in [Sinks -> [Events -> Nat]]
  BY <1>2 DEF EventsInv, AllOwed, EventsTypeOK
<1>4. /\ h \in Occurrence
      /\ h.seq <= raised[h.sink][h.event]
      /\ Tail(q) \in Seq(Occurrence)
      /\ Owed(Tail(q), subscribed[id], past, raised)
  BY <1>1, <1>3, OwedRead
<1>5. h.sink \in Sinks /\ h.event \in Events /\ h.seq \in Nat
  BY <1>4 DEF Occurrence
<1>6. read' = [read EXCEPT ![id] = past]
  BY <1>2, <1>5 DEF NextEvent, EventsTypeOK
<1>7. /\ past \in [Sinks -> [Events -> Nat]]
      /\ \A k \in Sinks, event \in Events :
            past[k][event] = IF k = h.sink /\ event = h.event THEN h.seq ELSE read[id][k][event]
  BY <1>3, <1>5
<1> HIDE DEF past, q, h
<1>8. /\ queue'[id] = Tail(q) /\ read'[id] = past
      /\ \A x \in Sources : x # id => queue'[x] = queue[x] /\ read'[x] = read[x]
  BY <1>1, <1>2, <1>6 DEF EventsTypeOK
<1>9. EventsTypeOK'
  BY <1>1, <1>2, <1>4, <1>6, <1>7 DEF EventsTypeOK
<1>10. ClosedAreEmpty'
  BY <1>1, <1>8 DEF EventsInv, ClosedAreEmpty
<1>11. ReadIsRaised'
  <2> SUFFICES ASSUME NEW x \in Sources, NEW k \in Sinks, NEW event \in Events
               PROVE  read'[x][k][event] <= raised[k][event]
    BY <1>1 DEF ReadIsRaised
  <2>1. read[x][k][event] <= raised[k][event]
    BY DEF EventsInv, ReadIsRaised
  <2> QED BY <1>4, <1>7, <1>8, <2>1
<1>12. SleepsOverNothing'
  <2> SUFFICES ASSUME NEW r \in asleep PROVE waker[r[1]] = r[2] /\ queue'[r[1]] = <<>>
    BY <1>1 DEF SleepsOverNothing
  <2>1. waker[r[1]] = r[2] /\ queue[r[1]] = <<>> /\ r[1] \in Sources
    BY <1>2 DEF EventsInv, SleepsOverNothing, EventsTypeOK
  <2>2. r[1] # id
    BY <1>1, <2>1 DEF q
  <2> QED BY <1>8, <2>1, <2>2
<1>13. AllOwed'
  <2> SUFFICES ASSUME NEW x \in Sources PROVE Owed(queue'[x], subscribed[x], read'[x], raised)
    BY <1>1 DEF AllOwed
  <2>1. Owed(queue[x], subscribed[x], read[x], raised)
    BY DEF EventsInv, AllOwed
  <2> QED BY <1>4, <1>8, <2>1
<1> QED BY <1>9, <1>10, <1>11, <1>12, <1>13 DEF EventsInv

LEMMA WaitEventInv ==
    ASSUME EventsInv, NEW id \in Sources, NEW task \in Tasks, WaitEvent(id, task)
    PROVE  EventsInv'
<1>1. /\ waker' = [waker EXCEPT ![id] = IF Ready(id) THEN NoWaker ELSE task]
      /\ asleep' = (asleep \ {<<id, waker[id]>>}) \cup (IF Ready(id) THEN {} ELSE {<<id, task>>})
      /\ UNCHANGED <<sources, nextSource, subscribed, queue, raised, read>>
  BY DEF WaitEvent
<1>2. EventsTypeOK
  BY DEF EventsInv
<1>3. EventsTypeOK'
  BY <1>1, <1>2 DEF EventsTypeOK
<1>4. SleepsOverNothing'
  <2> SUFFICES ASSUME NEW r \in asleep' PROVE waker'[r[1]] = r[2] /\ queue[r[1]] = <<>>
    BY <1>1 DEF SleepsOverNothing
  <2>1. CASE r \in asleep /\ r # <<id, waker[id]>>
    <3>1. waker[r[1]] = r[2] /\ queue[r[1]] = <<>> /\ r[1] \in Sources /\ r = <<r[1], r[2]>>
      BY <1>2, <2>1 DEF EventsInv, SleepsOverNothing, EventsTypeOK
    <3>2. r[1] # id
      BY <2>1, <3>1
    <3> QED BY <1>1, <1>2, <3>1, <3>2 DEF EventsTypeOK
  <2>2. CASE ~Ready(id) /\ r = <<id, task>>
    BY <1>1, <1>2, <2>2 DEF Ready, EventsTypeOK
  <2> QED BY <1>1, <2>1, <2>2
<1> QED BY <1>1, <1>3, <1>4 DEF EventsInv, ClosedAreEmpty, ReadIsRaised, AllOwed

LEMMA EventsStutterInv ==
    ASSUME EventsInv, UNCHANGED eventVars
    PROVE  EventsInv'
BY DEF EventsInv, eventVars, EventsTypeOK, ClosedAreEmpty, ReadIsRaised, AllOwed, SleepsOverNothing

THEOREM EventsInvariant == EventsSpec => []EventsInv
<1>1. EventsInv /\ [EventsNext]_eventVars => EventsInv'
  BY OpenSourceInv, CloseSourceInv, SubscribeInv, UnsubscribeInv, RaiseInv, NextEventInv,
     WaitEventInv, EventsStutterInv DEF EventsNext
<1> QED BY EventsInitInv, <1>1, PTL DEF EventsSpec

\* A subscriber's queue holds exactly what was raised for it and it has not
\* read, in order and once each, and no task sleeps over it: for any number of
\* sources, sinks and occurrences, whatever is subscribed, dropped and waited
\* for in between.
THEOREM SubscribersServed == EventsSpec => []OwedAndAwake
<1>1. EventsInv => OwedAndAwake
  BY DEF EventsInv, EventsTypeOK, AllOwed, Owed, OwedAndAwake, QueuedIsOwed
<1> QED BY EventsInvariant, <1>1, PTL
=============================================================================
