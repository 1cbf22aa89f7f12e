---------------------------- MODULE RecordsProofs ----------------------------
(***************************************************************************)
(* Theorems about the records that commands keep on disk, one part for     *)
(* each of the three.                                                      *)
(*                                                                         *)
(* The interface lock: every table that is ever written is well formed, a  *)
(* number on the main line is for ever, and a merge of two lines that      *)
(* build orphans only what one of them deleted, for any number of          *)
(* branches, names and edits.                                              *)
(*                                                                         *)
(* The remote units: what RemoteUnits promises of the cache, of `vendor/`  *)
(* and of the pins, for any commands, URLs, artifacts and bounds.          *)
(*                                                                         *)
(* The publication of a baseline: what one that is interrupted, fails, is  *)
(* rolled back or meets another one leaves behind, and what `ridl diff`    *)
(* reads meanwhile, for any processes, snapshots and emitted sets.         *)
(***************************************************************************)
EXTENDS InterfaceLock, RemoteUnits, BaselinePublication, FiniteSetTheorems,
        WellFoundedInduction, TLAPS

-----------------------------------------------------------------------------
(* The interface lock.                                                     *)

LockEntry == [number : Nat, key : Keys, retired : BOOLEAN, made : Lines \X Keys]
LineState == [decl : SUBSET Keys, next : Nat, table : SUBSET LockEntry]

LockTypeOK ==
  /\ line \in [Lines -> LineState]
  /\ base \in [Branches -> LineState]
  /\ allocated \in SUBSET Branches
  /\ edits \in Nat

\* What a branch and the main line had in common both have carried on.
BasesContinue ==
  \A b \in Branches :
    /\ WellFormed(base[b])
    /\ Continues(base[b], line[b])
    /\ Continues(base[b], line[Main])

\* The numbers of one table are all in the other.
NumbersIn(at, other) == \A e \in at.table : \E f \in other.table : f.number = e.number

\* A branch that has not allocated has the numbers it parted with.
OnlyAllocatedAdd == \A b \in Branches \ allocated : NumbersIn(line[b], base[b])

LockInv == LockTypeOK /\ TablesWellFormed /\ BasesContinue /\ OnlyAllocatedAdd

-----------------------------------------------------------------------------
\* Before counts a finite set of numbers off in order.
LEMMA BeforeCounts ==
  ASSUME NEW S \in SUBSET Nat, IsFiniteSet(S)
  PROVE  /\ \A n : Before(S, n) \in Nat
         /\ \A m, n \in S : m < n => Before(S, m) < Before(S, n)
         /\ \A n \in S : Before(S, n) < Cardinality(S)
<1> DEFINE Below(n) == {m \in S : m < n}
<1>1. \A n : IsFiniteSet(Below(n)) /\ Before(S, n) = Cardinality(Below(n))
  BY FS_Subset DEF Before
<1>2. \A n : Before(S, n) \in Nat
  BY <1>1, FS_CardinalityType
<1>3. ASSUME NEW m \in S, NEW n \in S, m < n PROVE Before(S, m) < Before(S, n)
  <2>0. m \in Nat /\ n \in Nat
    OBVIOUS
  <2>1. /\ \A k \in S : k < m => k < n
        /\ m \in Below(n) /\ m \notin Below(m)
    BY <1>3, <2>0
  <2>3. Below(m) \in SUBSET Below(n) /\ Below(m) # Below(n)
    BY <2>1
  <2> HIDE DEF Below
  <2>2. Cardinality(Below(m)) <= Cardinality(Below(n)) /\ Cardinality(Below(m)) # Cardinality(Below(n))
    BY <2>3, <1>1, FS_Subset
  <2> QED BY <2>2, <1>1, <1>2
<1>4. ASSUME NEW n \in S PROVE Before(S, n) < Cardinality(S)
  <2>1. Below(n) \in SUBSET S /\ Below(n) # S
    OBVIOUS
  <2> HIDE DEF Below
  <2>2. Cardinality(Below(n)) <= Cardinality(S) /\ Cardinality(Below(n)) # Cardinality(S)
    BY <2>1, FS_Subset
  <2> QED BY <2>2, <1>1, <1>2, FS_CardinalityType
<1> QED BY <1>2, <1>3, <1>4

LEMMA BeforeInjective ==
  ASSUME NEW S \in SUBSET Nat, IsFiniteSet(S)
  PROVE  \A m, n \in S : Before(S, m) = Before(S, n) => m = n
<1> SUFFICES ASSUME NEW m \in S, NEW n \in S, Before(S, m) = Before(S, n) PROVE m = n
  OBVIOUS
<1>1. m \in Nat /\ n \in Nat /\ Before(S, m) \in Nat
  BY BeforeCounts
<1>2. CASE m < n
  BY <1>1, <1>2, BeforeCounts
<1>3. CASE n < m
  BY <1>1, <1>3, BeforeCounts
<1> QED BY <1>1, <1>2, <1>3

\* The highest of the three `next`.
LEMMA HighestNext ==
  ASSUME NEW x \in Nat, NEW y \in Nat, NEW z \in Nat
  PROVE  Max({x, y, z}) \in Nat /\ x <= Max({x, y, z}) /\ y <= Max({x, y, z}) /\ z <= Max({x, y, z})
<1>1. \E m \in {x, y, z} : \A n \in {x, y, z} : m >= n
  OBVIOUS
<1> QED BY <1>1 DEF Max

LEMMA ContinuesTransitive ==
  ASSUME NEW x \in LineState, NEW y \in LineState, NEW z \in LineState,
         Continues(x, y), Continues(y, z)
  PROVE  Continues(x, z)
BY DEF Continues, LineState, LockEntry

LEMMA ContinuesItself ==
  ASSUME NEW x \in LineState
  PROVE  Continues(x, x)
BY DEF Continues, LineState

\* In a well-formed table a number is seen as what its one entry says.
LEMMA SeenEntry ==
  ASSUME NEW at \in LineState, WellFormed(at), NEW e \in at.table
  PROVE  Seen(at.table, e.number) = {<<e.key, e.retired>>}
BY DEF Seen, WellFormed, LineState, LockEntry

\* What is seen at a number is an entry's.
LEMMA SeenNothing ==
  ASSUME NEW table, NEW n
  PROVE  Seen(table, n) = {} <=> \A e \in table : e.number # n
BY DEF Seen

LEMMA SeenAlike ==
  ASSUME NEW at \in LineState, WellFormed(at), NEW e \in at.table,
         NEW other, Seen(other, e.number) = Seen(at.table, e.number)
  PROVE  \E x \in other : x.number = e.number /\ x.key = e.key /\ x.retired = e.retired
<1>1. <<e.key, e.retired>> \in Seen(other, e.number)
  BY SeenEntry
<1>2. PICK x \in {f \in other : f.number = e.number} : <<e.key, e.retired>> = <<x.key, x.retired>>
  BY <1>1 DEF Seen
<1> QED BY <1>2

-----------------------------------------------------------------------------
\* What a merge reads and makes: three tables, the numbers both sides
\* allocated, and the first one for the entries that give way.
Mergeable(b, o, t) ==
  /\ b \in LineState /\ WellFormed(b)
  /\ o \in LineState /\ WellFormed(o)
  /\ t \in LineState /\ WellFormed(t)
FirstNew(b, o, t) == Max({b.next, o.next, t.next})

\* The numbers both allocated are counted off from the first new one.
LEMMA BothCounts ==
  ASSUME NEW b, NEW o, NEW t, Mergeable(b, o, t)
  PROVE  /\ FirstNew(b, o, t) \in Nat
         /\ b.next <= FirstNew(b, o, t) /\ o.next <= FirstNew(b, o, t) /\ t.next <= FirstNew(b, o, t)
         /\ Both(b, o, t) \in SUBSET Nat /\ IsFiniteSet(Both(b, o, t))
         /\ Cardinality(Both(b, o, t)) \in Nat
<1>1. b.next \in Nat /\ o.next \in Nat /\ t.next \in Nat
  BY DEF Mergeable, LineState
<1>2. /\ FirstNew(b, o, t) \in Nat
      /\ b.next <= FirstNew(b, o, t) /\ o.next <= FirstNew(b, o, t) /\ t.next <= FirstNew(b, o, t)
  BY <1>1, HighestNext DEF FirstNew
<1>3. \A n \in Both(b, o, t) : \E e \in o.table : e.number = n
  BY DEF Both, Seen
<1>4. \A e \in o.table : e.number \in 0..FirstNew(b, o, t)
  BY <1>1, <1>2 DEF Mergeable, WellFormed, LineState, LockEntry
<1>5. Both(b, o, t) \in SUBSET (0..FirstNew(b, o, t))
  BY <1>3, <1>4
<1>6. IsFiniteSet(0..FirstNew(b, o, t))
  BY <1>2, FS_Interval
<1>7. IsFiniteSet(Both(b, o, t))
  BY <1>5, <1>6, FS_Subset
<1> QED BY <1>2, <1>5, <1>7, FS_CardinalityType

\* At each number one side decides, ours where it is not theirs; the
\* entries that give way come after all of them.
LEMMA MergeTable ==
  ASSUME NEW b, NEW o, NEW t, Mergeable(b, o, t)
  PROVE  /\ Merge(b, o, t).next = FirstNew(b, o, t) + Cardinality(Both(b, o, t))
         /\ Merge(b, o, t).table =
                {e \in t.table : IsTheirs(b, o, t, e.number)}
                  \cup {e \in o.table : ~IsTheirs(b, o, t, e.number)}
                  \cup {[f EXCEPT !.number = FirstNew(b, o, t) + Before(Both(b, o, t), f.number)] :
                            f \in {e \in t.table : e.number \in Both(b, o, t)}}
<1>1. \A n \in Both(b, o, t) : ~IsTheirs(b, o, t, n)
  BY DEF Both, Contended, IsTheirs, TakesTheirs
<1>2. \A both : KeptAt(OursFirst(o.table, t.table), both) = {e \in o.table : e.number \in both}
  BY DEF KeptAt, OursFirst
<1>3. \A both, next : Renumbered(OursFirst(o.table, t.table), both, next) =
          {[f EXCEPT !.number = next + Before(both, f.number)] :
                            f \in {e \in t.table : e.number \in both}}
  BY DEF Renumbered, OursFirst
<1>4. FromOurs(b, o, t, Both(b, o, t)) \cup {e \in o.table : e.number \in Both(b, o, t)}
        = {e \in o.table : ~IsTheirs(b, o, t, e.number)}
  BY <1>1 DEF FromOurs
<1> QED BY <1>2, <1>3, <1>4 DEF Merge, FromTheirs, FirstNew

\* An entry that gives way keeps everything but its number.
LEMMA GivesWay ==
  ASSUME NEW b, NEW o, NEW t, Mergeable(b, o, t), NEW f \in t.table, f.number \in Both(b, o, t),
         NEW e, e = [f EXCEPT !.number = FirstNew(b, o, t) + Before(Both(b, o, t), f.number)]
  PROVE  /\ e \in LockEntry
         /\ e.key = f.key /\ e.retired = f.retired /\ e.made = f.made
         /\ e.number = FirstNew(b, o, t) + Before(Both(b, o, t), f.number)
         /\ e.number >= FirstNew(b, o, t)
         /\ e.number < FirstNew(b, o, t) + Cardinality(Both(b, o, t))
<1>1. f \in LockEntry
  BY DEF Mergeable, LineState
<1>2. /\ Before(Both(b, o, t), f.number) \in Nat
      /\ Before(Both(b, o, t), f.number) < Cardinality(Both(b, o, t))
  BY BothCounts, BeforeCounts
<1> QED BY <1>1, <1>2, BothCounts DEF LockEntry

\* What comes out of a clean merge parses: numbers are unique because each
\* one is decided by one side and those that give way are new, live names
\* because the driver refuses them.
LEMMA MergeWellFormed ==
  ASSUME NEW b, NEW o, NEW t, Mergeable(b, o, t), Merge(b, o, t).clean
  PROVE  /\ Merge(b, o, t).next \in Nat
         /\ Merge(b, o, t).table \in SUBSET LockEntry
         /\ WellFormed([decl |-> {}, next |-> Merge(b, o, t).next, table |-> Merge(b, o, t).table])
<1> DEFINE first == FirstNew(b, o, t)
           both == Both(b, o, t)
           m == Merge(b, o, t)
           theirs == {e \in t.table : IsTheirs(b, o, t, e.number)}
           ours == {e \in o.table : ~IsTheirs(b, o, t, e.number)}
           new == {[f EXCEPT !.number = first + Before(both, f.number)] :
                     f \in {e \in t.table : e.number \in both}}
<1>1. m.next = first + Cardinality(both) /\ m.table = theirs \cup ours \cup new
  BY MergeTable
<1>2. /\ first \in Nat /\ Cardinality(both) \in Nat /\ m.next \in Nat
      /\ both \in SUBSET Nat /\ IsFiniteSet(both)
      /\ o.next <= first /\ t.next <= first
  BY <1>1, BothCounts
<1>3. \A e \in theirs : e \in t.table /\ e \in LockEntry /\ e.number < first /\ IsTheirs(b, o, t, e.number)
  BY <1>2 DEF Mergeable, WellFormed, LineState, LockEntry
<1>4. \A e \in ours : e \in o.table /\ e \in LockEntry /\ e.number < first /\ ~IsTheirs(b, o, t, e.number)
  BY <1>2 DEF Mergeable, WellFormed, LineState, LockEntry
<1>5. \A e \in new : \E f \in t.table :
        /\ f.number \in both /\ e = [f EXCEPT !.number = first + Before(both, f.number)]
  OBVIOUS
<1>6. \A e \in new : e \in LockEntry /\ e.number >= first /\ e.number < m.next
  BY <1>1, <1>5, GivesWay
<1>7. ASSUME NEW e \in new, NEW f \in new, e.number = f.number PROVE e = f
  <2>1. PICK x \in t.table :
          /\ x.number \in both /\ e = [x EXCEPT !.number = first + Before(both, x.number)]
    BY <1>5
  <2>2. PICK y \in t.table :
          /\ y.number \in both /\ f = [y EXCEPT !.number = first + Before(both, y.number)]
    BY <1>5
  <2>3. e.number = first + Before(both, x.number) /\ f.number = first + Before(both, y.number)
    BY <2>1, <2>2, GivesWay
  <2> DEFINE i == Before(both, x.number)
             j == Before(both, y.number)
  <2>a. i \in Nat /\ j \in Nat
    BY <1>2, BeforeCounts
  <2>b. first + i = first + j
    BY <1>7, <2>3
  <2>4. i = j
    <3> HIDE DEF first, i, j
    <3> QED BY <1>2, <2>a, <2>b
  <2>6. x.number = y.number
    BY <1>2, <2>1, <2>2, <2>4, BeforeInjective
  <2>7. x = y
    BY <2>6 DEF Mergeable, WellFormed
  <2> QED BY <2>1, <2>2, <2>7
<1> HIDE DEF first, both, m, theirs, ours, new
<1>8. m.table \in SUBSET LockEntry /\ \A e \in m.table : e.number < m.next
  BY <1>1, <1>2, <1>3, <1>4, <1>6 DEF LockEntry
<1>9. ASSUME NEW e \in m.table, NEW f \in m.table, e.number = f.number PROVE e = f
  <2>1. CASE e \in new
    <3>1. f \in new
      BY <1>1, <1>2, <1>3, <1>4, <1>6, <1>9, <2>1 DEF LockEntry
    <3> QED BY <1>7, <1>9, <2>1, <3>1
  <2>2. CASE f \in new
    <3>1. e \in new
      BY <1>1, <1>2, <1>3, <1>4, <1>6, <1>9, <2>2 DEF LockEntry
    <3> QED BY <1>7, <1>9, <2>2, <3>1
  <2>3. CASE e \notin new /\ f \notin new
    <3>1. (e \in theirs /\ f \in theirs) \/ (e \in ours /\ f \in ours)
      BY <1>1, <1>3, <1>4, <1>9, <2>3
    <3> QED BY <1>3, <1>4, <1>9, <3>1 DEF Mergeable, WellFormed
  <2> QED BY <2>1, <2>2, <2>3
<1>10. ASSUME NEW e \in m.table, NEW f \in m.table, ~e.retired, ~f.retired, e.key = f.key PROVE e = f
  BY <1>10 DEF m, Merge, Duplicated
<1> QED BY <1>2, <1>8, <1>9, <1>10 DEF WellFormed, Live, m

\* Ours carries on in the merge: what the merge takes from theirs instead
\* is an entry both sides have from the base.
LEMMA MergeContinuesOurs ==
  ASSUME NEW b, NEW o, NEW t, Mergeable(b, o, t), Continues(b, o), Continues(b, t)
  PROVE  Continues(o, Merge(b, o, t))
<1>1. ASSUME NEW e \in o.table
      PROVE  \E f \in Merge(b, o, t).table :
                f.number = e.number /\ f.made = e.made /\ (e.retired => f.retired)
  <2>1. CASE ~IsTheirs(b, o, t, e.number)
    BY <2>1, MergeTable
  <2>2. CASE IsTheirs(b, o, t, e.number)
    <3>1. Seen(b.table, e.number) = Seen(o.table, e.number)
      BY <2>2 DEF IsTheirs, TakesTheirs
    <3>2. PICK x \in b.table : x.number = e.number /\ x.key = e.key /\ x.retired = e.retired
      BY <3>1, SeenAlike DEF Mergeable
    <3>3. PICK y \in o.table : y.number = x.number /\ y.made = x.made
      BY <3>2 DEF Continues
    <3>4. y = e
      BY <3>2, <3>3 DEF Mergeable, WellFormed
    <3>5. PICK f \in t.table : f.number = x.number /\ f.made = x.made /\ (x.retired => f.retired)
      BY <3>2 DEF Continues
    <3>6. f \in Merge(b, o, t).table
      BY <2>2, <3>2, <3>5, MergeTable
    <3> QED BY <3>2, <3>3, <3>4, <3>5, <3>6
  <2> QED BY <2>1, <2>2
<1>2. o.next <= Merge(b, o, t).next
  BY MergeTable, BothCounts DEF Mergeable, LineState
<1> QED BY <1>1, <1>2 DEF Continues

\* Theirs carries on too, with the same numbers, where ours has none of its
\* own: there is nothing to give way to.
LEMMA MergeContinuesTheirs ==
  ASSUME NEW b, NEW o, NEW t, Mergeable(b, o, t), Continues(b, o), Continues(b, t),
         Merge(b, o, t).clean, NumbersIn(o, b)
  PROVE  Continues(t, Merge(b, o, t)) /\ NumbersIn(Merge(b, o, t), t)
<1>1. Both(b, o, t) = {}
  <2>1. ASSUME NEW n \in Both(b, o, t) PROVE FALSE
    <3>1. Seen(b.table, n) = {} /\ Seen(o.table, n) # {}
      BY DEF Both
    <3> QED BY <3>1, SeenNothing DEF NumbersIn
  <2> QED BY <2>1
<1>2. Merge(b, o, t).table = {e \in t.table : IsTheirs(b, o, t, e.number)}
                               \cup {e \in o.table : ~IsTheirs(b, o, t, e.number)}
  BY <1>1, MergeTable
<1>3. ASSUME NEW e \in t.table, ~IsTheirs(b, o, t, e.number)
      PROVE  \E f \in o.table : f.number = e.number /\ f.made = e.made /\ (e.retired => f.retired)
  <2>2. Contended(b, o, t) = {}
    BY <1>1 DEF Merge
  <2>3. \/ Seen(o.table, e.number) = Seen(t.table, e.number)
        \/ Seen(b.table, e.number) = Seen(t.table, e.number)
    BY <1>3, <2>2 DEF Contended, IsTheirs, TakesTheirs
  <2>4. PICK x \in b.table : x.number = e.number
    <3>1. \/ \E x \in o.table : x.number = e.number
          \/ \E x \in b.table : x.number = e.number
      BY <2>3, SeenAlike DEF Mergeable
    <3> QED BY <3>1 DEF NumbersIn
  <2>5. PICK y \in t.table : y.number = x.number /\ y.made = x.made
    BY <2>4 DEF Continues
  <2>6. y = e
    BY <2>4, <2>5 DEF Mergeable, WellFormed
  <2>7. PICK f \in o.table : f.number = x.number /\ f.made = x.made /\ (x.retired => f.retired)
    BY <2>4 DEF Continues
  <2>8. CASE Seen(o.table, e.number) = Seen(t.table, e.number)
    <3>1. PICK g \in o.table : g.number = e.number /\ g.retired = e.retired
      BY <2>8, SeenAlike DEF Mergeable
    <3>2. g = f
      BY <2>4, <2>7, <3>1 DEF Mergeable, WellFormed
    <3> QED BY <2>4, <2>5, <2>6, <2>7, <3>1, <3>2
  <2>9. CASE Seen(b.table, e.number) = Seen(t.table, e.number)
    <3>1. PICK g \in b.table : g.number = e.number /\ g.retired = e.retired
      BY <2>9, SeenAlike DEF Mergeable
    <3>2. g = x
      BY <2>4, <3>1 DEF Mergeable, WellFormed
    <3> QED BY <2>4, <2>5, <2>6, <2>7, <3>1, <3>2
  <2> QED BY <2>3, <2>8, <2>9
<1>4. t.next <= Merge(b, o, t).next
  BY MergeTable, BothCounts DEF Mergeable, LineState
<1>5. Continues(t, Merge(b, o, t))
  <2>1. ASSUME NEW e \in t.table
        PROVE  \E f \in Merge(b, o, t).table :
                  f.number = e.number /\ f.made = e.made /\ (e.retired => f.retired)
    BY <1>2, <1>3
  <2> QED BY <1>4, <2>1 DEF Continues
<1>6. ASSUME NEW e \in o.table PROVE \E f \in t.table : f.number = e.number
  BY DEF NumbersIn, Continues
<1> QED BY <1>2, <1>5, <1>6 DEF NumbersIn
-----------------------------------------------------------------------------
\* Nothing is declared at first and the table is empty.
LEMMA InitInv == LockInit => LockInv
<1> SUFFICES ASSUME LockInit PROVE LockInv
  OBVIOUS
<1>1. NewLine \in LineState /\ WellFormed(NewLine) /\ Continues(NewLine, NewLine)
  BY DEF NewLine, LineState, WellFormed, Live, Continues
<1>2. LockTypeOK
  BY <1>1 DEF LockInit, LockTypeOK
<1>3. TablesWellFormed /\ BasesContinue /\ OnlyAllocatedAdd
  BY <1>1 DEF LockInit, TablesWellFormed, BasesContinue, OnlyAllocatedAdd, Lines, NumbersIn, NewLine
<1> QED BY <1>2, <1>3 DEF LockInv

\* An edit that adds no number, loses none and leaves a well-formed table.
LEMMA EditedInv ==
  ASSUME LockInv, NEW l \in Lines, NEW at \in LineState, Edited(l, at),
         WellFormed(at), Continues(line[l], at), NumbersIn(at, line[l])
  PROVE  LockInv' /\ Continues(line[Main], line'[Main])
<1> USE DEF LockInv
<1>1. LockTypeOK' /\ line'[l] = at /\ \A k \in Lines \ {l} : line'[k] = line[k]
  BY DEF LockTypeOK, Edited
<1>2. TablesWellFormed'
  BY <1>1 DEF TablesWellFormed
<1>3. \A k \in Lines : line[k] \in LineState /\ Continues(line[k], line'[k])
  BY <1>1, ContinuesItself DEF LockTypeOK
<1>4. BasesContinue'
  BY <1>1, <1>3, ContinuesTransitive DEF BasesContinue, Edited, Lines, LockTypeOK
<1>5. OnlyAllocatedAdd'
  <2>1. ASSUME NEW b \in Branches \ allocated PROVE NumbersIn(line'[b], base[b])
    <3>1. CASE b = l
      BY <1>1, <3>1 DEF OnlyAllocatedAdd, NumbersIn
    <3>2. CASE b # l
      BY <1>1, <3>2 DEF OnlyAllocatedAdd, Lines
    <3> QED BY <3>1, <3>2
  <2> QED BY <2>1 DEF OnlyAllocatedAdd, Edited
<1> QED BY <1>1, <1>2, <1>3, <1>4, <1>5 DEF Lines

\* Declarations are no concern of the table.
LEMMA DeclarationInv ==
  ASSUME LockInv, NEW l \in Lines, NEW k \in Keys, Declare(l, k) \/ Undeclare(l, k)
  PROVE  LockInv' /\ Continues(line[Main], line'[Main])
<1>1. PICK decl \in SUBSET Keys : Edited(l, [line[l] EXCEPT !.decl = decl])
  BY DEF Declare, Undeclare, LockInv, LockTypeOK, LineState
<1> DEFINE at == [line[l] EXCEPT !.decl = decl]
<1>2. at \in LineState /\ at.table = line[l].table /\ at.next = line[l].next
  BY DEF LockInv, LockTypeOK, LineState
<1>3. WellFormed(at) /\ Continues(line[l], at) /\ NumbersIn(at, line[l])
  <2>1. line[l].next \in Nat /\ WellFormed(line[l])
    BY DEF LockInv, LockTypeOK, LineState, TablesWellFormed
  <2> HIDE DEF at
  <2> QED BY <1>2, <2>1 DEF WellFormed, Live, Continues, NumbersIn
<1> QED BY <1>1, <1>2, <1>3, EditedInv

\* An entry is changed in place: to a name that has no live entry, or
\* retired.
LEMMA InPlaceInv ==
  ASSUME LockInv, NEW l \in Lines, NEW e \in line[l].table,
         Retire(l, e) \/ \E new \in Keys : Rename(l, e, new)
  PROVE  LockInv' /\ Continues(line[Main], line'[Main])
<1>1. PICK f \in LockEntry :
        /\ f.number = e.number /\ f.made = e.made /\ (e.retired => f.retired)
        /\ \A g \in Live(line[l]) : ~f.retired => g.key # f.key
        /\ Edited(l, [line[l] EXCEPT !.table = (@ \ {e}) \cup {f}])
  <2>1. e \in LockEntry /\ line[l] \in LineState
    BY DEF LockInv, LockTypeOK, LineState
  <2>2. CASE Retire(l, e)
    <3>1. [e EXCEPT !.retired = TRUE] \in LockEntry /\ [e EXCEPT !.retired = TRUE].retired
          /\ [e EXCEPT !.retired = TRUE].number = e.number /\ [e EXCEPT !.retired = TRUE].made = e.made
      BY <2>1 DEF LockEntry
    <3> QED BY <2>2, <3>1 DEF Retire
  <2>3. CASE \E new \in Keys : Rename(l, e, new)
    <3>1. PICK new \in Keys : Rename(l, e, new)
      BY <2>3
    <3>2. \A g \in Live(line[l]) : g.key # new
      BY <3>1 DEF Rename, Provisional, LiveKeys
    <3>3. [e EXCEPT !.key = new] \in LockEntry /\ [e EXCEPT !.key = new].key = new
          /\ [e EXCEPT !.key = new].retired = e.retired
          /\ [e EXCEPT !.key = new].number = e.number /\ [e EXCEPT !.key = new].made = e.made
      BY <2>1 DEF LockEntry
    <3> QED BY <3>1, <3>2, <3>3 DEF Rename
  <2> QED BY <2>2, <2>3
<1> DEFINE at == [line[l] EXCEPT !.table = (@ \ {e}) \cup {f}]
<1>2. at \in LineState /\ at.table = (line[l].table \ {e}) \cup {f} /\ at.next = line[l].next
  BY DEF LockInv, LockTypeOK, LineState
<1>3. line[l].next \in Nat /\ WellFormed(line[l])
  BY DEF LockInv, LockTypeOK, LineState, TablesWellFormed
<1> HIDE DEF at
<1>4. WellFormed(at)
  BY <1>1, <1>2, <1>3 DEF WellFormed, Live
<1>5. Continues(line[l], at) /\ NumbersIn(at, line[l])
  BY <1>1, <1>2, <1>3 DEF Continues, NumbersIn
<1> QED BY <1>1, <1>2, <1>4, <1>5, EditedInv DEF at

\* The numbers an allocation gives out are new, and so are its live names.
LEMMA AllocateInv ==
  ASSUME LockInv, NEW l \in Lines, Allocate(l)
  PROVE  LockInv' /\ Continues(line[Main], line'[Main])
<1> DEFINE at == line[l]
           names == Provisional(at)
           fresh == Allocation(l, at)
           new == [at EXCEPT !.next = @ + Cardinality(fresh), !.table = @ \cup fresh]
<1>1. at \in LineState /\ at.next \in Nat /\ WellFormed(at)
  BY DEF LockInv, LockTypeOK, LineState, TablesWellFormed
<1>2. names \in SUBSET Keys /\ names \in SUBSET Nat /\ IsFiniteSet(names)
  BY <1>1, LockAssumption, FS_Subset DEF Provisional, LineState
<1>3. \A k \in names : Before(names, k) \in Nat /\ Before(names, k) < Cardinality(names)
  BY <1>2, BeforeCounts
<1> DEFINE entry == [k \in names |-> [number |-> at.next + Before(names, k), key |-> k,
                                       retired |-> FALSE, made |-> <<l, k>>]]
<1>a. \A k \in names : entry[k] \in fresh
  BY DEF Allocation
<1>b. \A e \in fresh : \E k \in names : e = entry[k]
  BY DEF Allocation
<1> HIDE DEF names
<1>c. \A k \in names :
        /\ entry[k] \in LockEntry /\ entry[k].key = k /\ ~entry[k].retired
        /\ entry[k].number = at.next + Before(names, k)
  BY <1>1, <1>2, <1>3 DEF LockEntry
<1> HIDE DEF entry, fresh
<1>4. \A e \in fresh :
        /\ e \in LockEntry /\ e.key \in names /\ ~e.retired
        /\ e.number = at.next + Before(names, e.key)
  BY <1>b, <1>c
<1>5. \A e, f \in fresh : e.key = f.key => e = f
  BY <1>b, <1>c
<1>6. \A e, f \in fresh : e.number = f.number => e = f
  <2> SUFFICES ASSUME NEW e \in fresh, NEW f \in fresh, e.number = f.number PROVE e = f
    OBVIOUS
  <2>1. e.key \in names /\ f.key \in names
    BY <1>4
  <2>2. /\ Before(names, e.key) \in Nat /\ Before(names, f.key) \in Nat
        /\ at.next + Before(names, e.key) = at.next + Before(names, f.key)
    BY <1>3, <1>4, <2>1
  <2>3. Before(names, e.key) = Before(names, f.key)
    <3> DEFINE i == Before(names, e.key)
               j == Before(names, f.key)
               n == at.next
    <3>1. i \in Nat /\ j \in Nat /\ n \in Nat /\ n + i = n + j
      BY <1>1, <2>2
    <3> HIDE DEF i, j, n
    <3>2. i = j
      BY <3>1
    <3> QED BY <3>2 DEF i, j
  <2>4. e.key = f.key
    <3>1. \A m, n \in names : Before(names, m) = Before(names, n) => m = n
      BY <1>2, BeforeInjective
    <3> QED BY <2>1, <2>3, <3>1
  <2> QED BY <1>5, <2>4
<1>7. IsFiniteSet(fresh) /\ Cardinality(fresh) = Cardinality(names)
  <2>1. entry \in Bijection(names, fresh)
    BY <1>a, <1>b, <1>c DEF entry, Bijection, Injection, Surjection, IsInjective
  <2> QED BY <1>2, <2>1, FS_Bijection DEF ExistsBijection
<1>8. Cardinality(names) \in Nat /\ Cardinality(fresh) \in Nat
  BY <1>2, <1>7, FS_CardinalityType
<1>9. /\ new \in LineState /\ new.next = at.next + Cardinality(fresh)
      /\ new.table = at.table \cup fresh
  <2> HIDE DEF at
  <2>1. at.table \cup fresh \in SUBSET LockEntry /\ at.next + Cardinality(fresh) \in Nat
    BY <1>1, <1>4, <1>8 DEF LineState
  <2> QED BY <1>1, <2>1 DEF LineState
<1> HIDE DEF new
<1>10. WellFormed(new)
  <2>1. \A e \in at.table : e \in LockEntry /\ e.number < at.next
    BY <1>1 DEF WellFormed, LineState
  <2>2. \A e \in fresh : e.number >= at.next /\ e.number < new.next
    BY <1>1, <1>3, <1>4, <1>7, <1>8, <1>9
  <2>3. \A e \in new.table : e.number < new.next
    BY <1>1, <1>8, <1>9, <2>1, <2>2 DEF LockEntry
  <2>4. \A e, f \in new.table : e.number = f.number => e = f
    BY <1>1, <1>6, <1>9, <1>4, <2>1, <2>2 DEF WellFormed, LockEntry
  <2>5. \A e \in Live(at) : e.key \notin names
    BY DEF names, Provisional, LiveKeys
  <2>6. \A e, f \in Live(new) : e.key = f.key => e = f
    BY <1>1, <1>4, <1>5, <1>9, <2>5 DEF WellFormed, Live
  <2> QED BY <2>3, <2>4, <2>6 DEF WellFormed
<1>11. Continues(at, new)
  BY <1>1, <1>8, <1>9 DEF Continues
<1>12. /\ line' = [line EXCEPT ![l] = new] /\ UNCHANGED <<base, edits>>
       /\ allocated' = IF l = Main THEN allocated ELSE allocated \cup {l}
  BY DEF Allocate, new, fresh
<1> HIDE DEF at
<1>13. LockTypeOK' /\ line'[l] = new /\ \A k \in Lines \ {l} : line'[k] = line[k]
  BY <1>9, <1>12 DEF LockInv, LockTypeOK, Lines
<1>14. TablesWellFormed'
  BY <1>10, <1>13 DEF LockInv, TablesWellFormed
<1>15. \A k \in Lines : line[k] \in LineState /\ line'[k] \in LineState /\ Continues(line[k], line'[k])
  BY <1>9, <1>11, <1>13, ContinuesItself DEF LockInv, LockTypeOK, at
<1>16. BasesContinue'
  BY <1>12, <1>15, ContinuesTransitive DEF LockInv, BasesContinue, Lines, LockTypeOK
<1>17. OnlyAllocatedAdd'
  BY <1>12, <1>13, LockAssumption DEF LockInv, OnlyAllocatedAdd, Lines
<1> QED BY <1>13, <1>14, <1>15, <1>16, <1>17 DEF LockInv, Lines

\* What a merge of the declarations and the lock makes.
LEMMA MergedState ==
  ASSUME NEW b, NEW o, NEW t, Mergeable(b, o, t), NEW new \in Merged(b, o, t)
  PROVE  /\ new \in LineState /\ WellFormed(new)
         /\ new.decl = (o.decl \cap t.decl) \cup ((o.decl \cup t.decl) \ b.decl)
         /\ new.next = Merge(b, o, t).next /\ new.table = Merge(b, o, t).table
         /\ Merge(b, o, t).clean
<1>1. /\ new = [decl |-> (o.decl \cap t.decl) \cup ((o.decl \cup t.decl) \ b.decl),
                next |-> Merge(b, o, t).next, table |-> Merge(b, o, t).table]
      /\ Merge(b, o, t).clean
  BY DEF Merged
<1>2. o.decl \in SUBSET Keys /\ t.decl \in SUBSET Keys
  BY DEF Mergeable, LineState
<1>3. new \in LineState
  BY <1>1, <1>2, MergeWellFormed DEF LineState
<1>4. WellFormed(new)
  BY <1>1, MergeWellFormed DEF WellFormed, Live
<1> QED BY <1>1, <1>3, <1>4

\* A branch lands: the main line goes on, whatever of the branch gives way,
\* and the two have all of it in common.
LEMMA LandInv ==
  ASSUME LockInv, NEW b \in Branches, Land(b)
  PROVE  LockInv' /\ Continues(line[Main], line'[Main])
<1>1. PICK new \in Merged(base[b], line[Main], line[b]) :
        /\ line' = [line EXCEPT ![Main] = new, ![b] = new]
        /\ base' = [base EXCEPT ![b] = new]
  BY DEF Land
<1>2. Mergeable(base[b], line[Main], line[b])
  BY DEF LockInv, LockTypeOK, TablesWellFormed, BasesContinue, Mergeable, Lines
<1>3. new \in LineState /\ WellFormed(new)
  BY <1>1, <1>2, MergedState
<1>4. Continues(line[Main], new)
  <2>1. Continues(line[Main], Merge(base[b], line[Main], line[b]))
    BY <1>2, MergeContinuesOurs DEF LockInv, BasesContinue
  <2> QED BY <1>1, <1>2, <2>1, MergedState DEF Continues
<1>5. Continues(new, new)
  BY <1>3, ContinuesItself
<1>6. /\ line'[Main] = new /\ line'[b] = new /\ base'[b] = new
      /\ \A c \in Branches \ {b} : line'[c] = line[c] /\ base'[c] = base[c]
  BY <1>1, LockAssumption DEF LockInv, LockTypeOK, Lines
<1>7. LockTypeOK'
  BY <1>1, <1>3 DEF LockInv, LockTypeOK, Land
<1>8. TablesWellFormed'
  BY <1>3, <1>6 DEF LockInv, TablesWellFormed, Lines
<1>9. BasesContinue'
  <2>1. ASSUME NEW c \in Branches \ {b} PROVE Continues(base[c], new)
    BY <1>3, <1>4, ContinuesTransitive DEF LockInv, LockTypeOK, BasesContinue, Lines
  <2> QED BY <1>3, <1>5, <1>6, <2>1 DEF LockInv, BasesContinue
<1>10. OnlyAllocatedAdd'
  BY <1>6 DEF LockInv, OnlyAllocatedAdd, Land, NumbersIn
<1> QED BY <1>4, <1>6, <1>7, <1>8, <1>9, <1>10 DEF LockInv

\* A branch that has not allocated takes the main line in: it has nothing
\* the main line could give way to.
LEMMA UpdateInv ==
  ASSUME LockInv, NEW b \in Branches, Update(b)
  PROVE  LockInv' /\ Continues(line[Main], line'[Main])
<1>1. PICK new \in Merged(base[b], line[b], line[Main]) :
        /\ line' = [line EXCEPT ![b] = new]
        /\ base' = [base EXCEPT ![b] = line[Main]]
  BY DEF Update
<1>2. Mergeable(base[b], line[b], line[Main])
  BY DEF LockInv, LockTypeOK, TablesWellFormed, BasesContinue, Mergeable, Lines
<1>3. new \in LineState /\ WellFormed(new) /\ line[Main] \in LineState /\ WellFormed(line[Main])
  BY <1>1, <1>2, MergedState DEF Mergeable
<1>4. Continues(line[Main], new) /\ NumbersIn(new, line[Main])
  <2>1. NumbersIn(line[b], base[b])
    BY DEF LockInv, OnlyAllocatedAdd, Update
  <2>2. /\ Continues(line[Main], Merge(base[b], line[b], line[Main]))
        /\ NumbersIn(Merge(base[b], line[b], line[Main]), line[Main])
    BY <1>1, <1>2, <2>1, MergedState, MergeContinuesTheirs DEF LockInv, BasesContinue
  <2> QED BY <1>1, <1>2, <2>2, MergedState DEF Continues, NumbersIn
<1>5. Continues(line[Main], line[Main])
  BY <1>3, ContinuesItself
<1>6. /\ line'[Main] = line[Main] /\ line'[b] = new /\ base'[b] = line[Main]
      /\ \A c \in Branches \ {b} : line'[c] = line[c] /\ base'[c] = base[c]
  BY <1>1, LockAssumption DEF LockInv, LockTypeOK, Lines
<1>7. LockTypeOK'
  BY <1>1, <1>3 DEF LockInv, LockTypeOK, Update
<1>8. TablesWellFormed'
  BY <1>3, <1>6 DEF LockInv, TablesWellFormed, Lines
<1>9. BasesContinue'
  BY <1>3, <1>4, <1>5, <1>6 DEF LockInv, BasesContinue
<1>10. OnlyAllocatedAdd'
  BY <1>4, <1>6 DEF LockInv, OnlyAllocatedAdd, Update
<1> QED BY <1>5, <1>6, <1>7, <1>8, <1>9, <1>10 DEF LockInv

\* What a merge of two lines that build orphans: a declaration of the base
\* that one of them deleted, and no entry of the base.
LEMMA MergedOrphans ==
  ASSUME NEW b, NEW o, NEW t, Mergeable(b, o, t), NEW new \in Merged(b, o, t),
         Orphans(o) = {}, Orphans(t) = {},
         NEW e \in Live(new), e.key \notin new.decl
  PROVE  /\ e.key \in b.decl
         /\ (e.key \in t.decl) # (e.key \in o.decl)
         /\ \A f \in Live(b) : <<f.number, f.key>> # <<e.number, e.key>>
<1>1. e \in Merge(b, o, t).table /\ ~e.retired
  BY MergedState DEF Live
<1>2. new.decl = (o.decl \cap t.decl) \cup ((o.decl \cup t.decl) \ b.decl)
  BY MergedState
<1>3. /\ \A x \in o.table : ~x.retired => x.key \in o.decl
      /\ \A x \in t.table : ~x.retired => x.key \in t.decl
  BY DEF Orphans, LiveKeys, Live
<1>4. \/ e \in t.table /\ IsTheirs(b, o, t, e.number)
      \/ e \in o.table /\ ~IsTheirs(b, o, t, e.number)
      \/ e.number >= FirstNew(b, o, t) /\ \E f \in t.table : f.key = e.key /\ f.retired = e.retired
  <2>1. \/ e \in t.table /\ IsTheirs(b, o, t, e.number)
        \/ e \in o.table /\ ~IsTheirs(b, o, t, e.number)
        \/ \E f \in t.table : f.number \in Both(b, o, t)
              /\ e = [f EXCEPT !.number = FirstNew(b, o, t) + Before(Both(b, o, t), f.number)]
    BY <1>1, MergeTable
  <2> QED BY <2>1, GivesWay
<1>5. e.key \in o.decl \/ e.key \in t.decl
  BY <1>1, <1>3, <1>4
<1>6. e.key \in b.decl /\ ~(e.key \in o.decl /\ e.key \in t.decl)
  BY <1>2, <1>5
<1>7. ASSUME NEW f \in Live(b), f.number = e.number, f.key = e.key PROVE FALSE
  <2>1. f \in b.table /\ ~f.retired
    BY DEF Live
  <2>2. e.number < FirstNew(b, o, t)
    BY <1>7, <2>1, BothCounts DEF Mergeable, WellFormed, LineState, LockEntry
  <2>3. CASE e \in t.table /\ IsTheirs(b, o, t, e.number)
    <3>1. Seen(o.table, f.number) = Seen(b.table, f.number)
      BY <1>7, <2>3 DEF IsTheirs, TakesTheirs
    <3>2. PICK x \in o.table : x.number = f.number /\ x.key = f.key /\ x.retired = f.retired
      BY <2>1, <3>1, SeenAlike DEF Mergeable
    <3>3. e.key \in o.decl /\ e.key \in t.decl
      BY <1>1, <1>3, <1>7, <2>1, <2>3, <3>2
    <3> QED BY <1>6, <3>3
  <2>4. CASE e \in o.table /\ ~IsTheirs(b, o, t, e.number)
    <3>1. Seen(o.table, e.number) = Seen(b.table, e.number)
      <4>1. Seen(o.table, e.number) = {<<e.key, e.retired>>}
        BY <2>4, SeenEntry DEF Mergeable
      <4>2. Seen(b.table, f.number) = {<<f.key, f.retired>>}
        BY <2>1, SeenEntry DEF Mergeable
      <4>3. e.retired = FALSE /\ f.retired = FALSE
        BY <1>1, <2>1, <2>4 DEF Mergeable, LineState, LockEntry
      <4> QED BY <1>7, <4>1, <4>2, <4>3
    <3>2. Seen(t.table, e.number) = Seen(o.table, e.number)
      BY <2>4, <3>1 DEF IsTheirs, TakesTheirs
    <3>3. PICK x \in t.table : x.number = e.number /\ x.key = e.key /\ x.retired = e.retired
      BY <2>4, <3>2, SeenAlike DEF Mergeable
    <3>4. e.key \in o.decl /\ e.key \in t.decl
      BY <1>1, <1>3, <2>4, <3>3
    <3> QED BY <1>6, <3>4
  <2>5. e.number \in Nat /\ FirstNew(b, o, t) \in Nat
    BY <1>7, <2>1, BothCounts DEF Mergeable, LineState, LockEntry
  <2> QED BY <1>4, <2>2, <2>3, <2>4, <2>5
<1> QED BY <1>5, <1>6, <1>7

-----------------------------------------------------------------------------
\* Each step keeps the invariant and carries the main line on.
LEMMA StepInv ==
  ASSUME LockInv, LockNext
  PROVE  LockInv' /\ Continues(line[Main], line'[Main])
<1>1. ASSUME NEW l \in Lines, NEW k \in Keys, Declare(l, k) \/ Undeclare(l, k)
      PROVE  LockInv' /\ Continues(line[Main], line'[Main])
  BY <1>1, DeclarationInv
<1>2. ASSUME NEW l \in Lines, NEW e \in line[l].table, Retire(l, e) \/ \E new \in Keys : Rename(l, e, new)
      PROVE  LockInv' /\ Continues(line[Main], line'[Main])
  BY <1>2, InPlaceInv
<1>3. ASSUME NEW l \in Lines, Allocate(l)
      PROVE  LockInv' /\ Continues(line[Main], line'[Main])
  BY <1>3, AllocateInv
<1>4. ASSUME NEW b \in Branches, Land(b) \/ Update(b)
      PROVE  LockInv' /\ Continues(line[Main], line'[Main])
  BY <1>4, LandInv, UpdateInv
<1> QED BY <1>1, <1>2, <1>3, <1>4 DEF LockNext

LEMMA StutterInv ==
  ASSUME LockInv, UNCHANGED lockVars
  PROVE  LockInv'
BY DEF lockVars, LockInv, LockTypeOK, TablesWellFormed, BasesContinue, OnlyAllocatedAdd

LEMMA Invariant == LockSpec => []LockInv
<1>1. LockInv /\ [LockNext]_lockVars => LockInv'
  BY StepInv, StutterInv
<1> QED BY InitInv, <1>1, PTL DEF LockSpec

\* Every lock that is written, by `ridl lock` or by the merge driver, on any
\* line and in any order of edits and merges, is one that parse accepts.
THEOREM LocksParse == LockSpec => []TablesWellFormed
<1>1. LockInv => TablesWellFormed
  BY DEF LockInv
<1> QED BY Invariant, <1>1, PTL

\* A number on the main line is for ever: no step of anybody loses an entry
\* there, gives its number to another interface or brings a retired one back.
THEOREM NumbersPermanent == LockSpec => MainPermanent
<1>1. LockInv /\ [LockNext]_lockVars => [Continues(line[Main], line'[Main])]_lockVars
  BY StepInv
<1> QED BY Invariant, <1>1, PTL DEF LockSpec, MainPermanent

\* Landing a branch that builds on a main line that builds orphans nothing
\* but an entry made since they parted, of a declaration one side deleted.
THEOREM OrphansExplained == LockSpec => OrphansAreRecent
<1> DEFINE Explained ==
      \A b \in Branches :
        /\ base'[b] # base[b] /\ line'[Main] # line[Main]
        /\ Orphans(line[Main]) = {} /\ Orphans(line[b]) = {}
        => \A e \in Live(line'[Main]) :
             e.key \in Orphans(line'[Main]) =>
               /\ e.key \in base[b].decl
               /\ (e.key \in line[b].decl) # (e.key \in line[Main].decl)
               /\ \A f \in Live(base[b]) : <<f.number, f.key>> # <<e.number, e.key>>
<1>1. ASSUME LockInv, LockNext PROVE Explained
  <2> SUFFICES ASSUME NEW b \in Branches, base'[b] # base[b], line'[Main] # line[Main],
                      Orphans(line[Main]) = {}, Orphans(line[b]) = {},
                      NEW e \in Live(line'[Main]), e.key \in Orphans(line'[Main])
               PROVE  /\ e.key \in base[b].decl
                      /\ (e.key \in line[b].decl) # (e.key \in line[Main].decl)
                      /\ \A f \in Live(base[b]) : <<f.number, f.key>> # <<e.number, e.key>>
    OBVIOUS
  <2>1. PICK c \in Branches : Land(c) \/ Update(c)
    BY <1>1 DEF LockNext, Declare, Undeclare, Retire, Rename, Allocate, Edited
  <2>2. c = b
    BY <1>1, <2>1 DEF Land, Update, LockInv, LockTypeOK
  <2>3. ~Update(b)
    BY <1>1, LockAssumption DEF Update, LockInv, LockTypeOK, Lines
  <2>4. PICK new \in Merged(base[b], line[Main], line[b]) :
          line' = [line EXCEPT ![Main] = new, ![b] = new]
    BY <2>1, <2>2, <2>3 DEF Land
  <2>5. line'[Main] = new
    BY <1>1, <2>4, LockAssumption DEF LockInv, LockTypeOK, Lines
  <2>6. Mergeable(base[b], line[Main], line[b])
    BY <1>1 DEF LockInv, LockTypeOK, TablesWellFormed, BasesContinue, Mergeable, Lines
  <2>7. e.key \notin new.decl
    BY <2>5 DEF Orphans
  <2> QED BY <2>4, <2>5, <2>6, <2>7, MergedOrphans
<1> HIDE DEF Explained
<1>2. LockInv /\ [LockNext]_lockVars => [Explained]_lockVars
  BY <1>1
<1> QED BY Invariant, <1>2, PTL DEF LockSpec, OrphansAreRecent, Explained

-----------------------------------------------------------------------------
(* The remote units.                                                       *)

UnitDirs == {None} \cup {Full(a) : a \in Artifacts} \cup {Part(a) : a \in Artifacts}
WholePins == {Pinned(a) : a \in Artifacts}
Pins == {None} \cup WholePins \cup {PinnedOnce(a) : a \in Artifacts}

Fetching == {"fetch", "store", "unpack", "rename", "verify"}
Vendoring == {"copy", "check", "swap", "install", "drop", "stray"}
Handling == Fetching \cup (Vendoring \ {"copy"})
After == {"load", "loaded"} \cup Vendoring
CommandPhases == {"idle", "resolve", "write"} \cup Fetching \cup After

(* A command: what it found for the import is a pin with its tree.         *)
Command(got) ==
  [at : CommandPhases, kind : {None, "build", "frozen", "vendor"}, units : SUBSET Urls,
   lock : [Urls -> Pins], todo : SUBSET Urls, artifact : {None} \cup Artifacts,
   vendored : BOOLEAN, entry : [Urls -> {None} \cup WholePins],
   from : [Urls -> {None, "vendor", "cache"}], failed : BOOLEAN, got : {got}]

CommandOK(r) == r \in Command(r.got)

Pasts ==
  [first : [Urls -> {None} \cup Artifacts], vendored : SUBSET Urls, removing : SUBSET Urls,
   raced : BOOLEAN, cut : BOOLEAN, edited : BOOLEAN]

CommandsOK ==
  /\ cmd = [c \in Commands |-> cmd[c]]
  /\ \A c \in Commands : CommandOK(cmd[c])

RemoteTypeOK ==
  /\ imports \subseteq Urls
  /\ served \in [Urls -> Artifacts]
  /\ pins \in [Urls -> Pins]
  /\ cache \in [Urls -> [Artifacts -> UnitDirs]]
  /\ unpacked \in [Urls -> [Commands -> [Artifacts -> UnitDirs]]]
  /\ vendor \in [Urls -> UnitDirs]
  /\ copied \in [Commands -> [Urls -> UnitDirs]]
  /\ replaced \in [Commands -> [Urls -> UnitDirs]]
  /\ CommandsOK
  /\ past \in Pasts

-----------------------------------------------------------------------------
(* The inductive invariant. *)

(* The imports that a command has not looked for yet.                      *)
Open(c) == IF At(c, "resolve") \/ cmd[c].at \in Fetching THEN cmd[c].todo ELSE {}

(* A lockfile entry written by a command that had read another.            *)
Follows(new, prior) == new = prior \/ (new \in WholePins /\ (prior # None => new.sha = prior.sha))

(* Where a command is, and what it has found.                              *)
Progress(c) ==
  /\ cmd[c].at \in Handling => cmd[c].todo # {}
  /\ cmd[c].at \in Fetching \cup {"write"} => cmd[c].kind # "frozen"
  /\ cmd[c].at \in {"write", "loaded"} \cup Vendoring => ~cmd[c].failed
  /\ InVendor(c) => cmd[c].kind = "vendor"
  /\ cmd[c].at \in Fetching \ {"fetch"} => cmd[c].artifact \in Artifacts
  /\ At(c, "rename") =>
       unpacked[Current(c)][c][cmd[c].artifact] = Full(cmd[c].artifact)
  /\ At(c, "verify") => Entry(c) # None
  /\ ~cmd[c].failed => \A u \in cmd[c].units \ Open(c) :
       /\ cmd[c].entry[u] # None
       /\ Follows(cmd[c].entry[u], cmd[c].lock[u])
       /\ cmd[c].kind = "frozen" => cmd[c].entry[u] = cmd[c].lock[u]

(* How far `ridl vendor` is.                                               *)
VendorProgress(c) ==
  /\ At(c, "stray") => /\ cmd[c].todo = {Current(c)} /\ Current(c) \notin cmd[c].units
                       /\ ~vendor[Current(c)].whole
  /\ cmd[c].at \in Vendoring \ {"stray"} => cmd[c].todo \subseteq cmd[c].units
  /\ InVendor(c) => \A u \in cmd[c].units \ cmd[c].todo : vendor[u] = cmd[c].entry[u].tree
  /\ cmd[c].at \in {"check", "swap", "install"} =>
       vendor[Current(c)] # cmd[c].entry[Current(c)].tree
  /\ cmd[c].at \in {"swap", "install"} =>
       copied[c][Current(c)] = cmd[c].entry[Current(c)].tree
  /\ At(c, "drop") => vendor[Current(c)] = cmd[c].entry[Current(c)].tree

OneVendors == \A c, d \in Commands : InVendor(c) /\ InVendor(d) => c = d

(* The lockfile, or the one that is being written over.                    *)
InForce(p) ==
  \/ p = pins /\ \A c \in Commands : ~Writing(c)
  \/ \E c \in Commands : Writing(c) /\ p = cmd[c].lock

Honest == ~past.raced /\ ~past.cut
Steady == Honest /\ ~past.edited

FirstKept ==
  Honest =>
    /\ \A c, d \in Commands : Writing(c) /\ Writing(d) => c = d
    /\ \A p \in [Urls -> Pins] : InForce(p) =>
         \A u \in Urls : past.first[u] # None => p[u] # None /\ p[u].sha = past.first[u]

(* What a command knows of a lockfile p in force.                          *)
AbreastOf(c, p) ==
  \A u \in cmd[c].units :
    /\ Follows(p[u], cmd[c].lock[u])
    /\ cmd[c].kind # "frozen" /\ ~cmd[c].failed /\ cmd[c].at \in After => p[u] = cmd[c].entry[u]
    /\ /\ ~cmd[c].failed /\ u \notin Open(c) /\ cmd[c].from[u] = "vendor"
       /\ p[u] \in {cmd[c].lock[u], cmd[c].entry[u]}
       => vendor[u] = cmd[c].entry[u].tree

Abreast(c) == \A p \in [Urls -> Pins] : InForce(p) => AbreastOf(c, p)

GotVerified(c) ==
  At(c, "loaded") => \A u \in cmd[c].units : cmd[c].got[u] = cmd[c].entry[u].tree

VendoredAs(p) == \A u \in past.vendored : p[u] \in WholePins /\ vendor[u] = p[u].tree

Lockstep ==
  /\ \A c \in Commands : ~At(c, "idle") => cmd[c].units = imports /\ Abreast(c)
  /\ \A p \in [Urls -> Pins] : InForce(p) => VendoredAs(p)
  /\ \A c \in Commands : GotVerified(c)

LockstepKept == Steady => Lockstep

(* What holds whatever becomes of the lockfile.                            *)
Ours ==
  /\ RemoteTypeOK
  /\ StoresWhole
  /\ OneVendors
  /\ \A c \in Commands : Progress(c) /\ VendorProgress(c)

RemoteInv ==
  /\ Ours
  /\ FirstKept
  /\ LockstepKept
-----------------------------------------------------------------------------
(* The units are taken in their order. *)

LEMMA FirstOfUnits ==
  ASSUME NEW S \in SUBSET Nat, S # {}
  PROVE  Min(S) \in S
<1> DEFINE R == OpToRel(<, Nat)
<1>1. IsWellFoundedOn(R, Nat)
  BY NatLessThanWellFounded
<1>2. PICK x \in S : \A y \in S : ~(<<y, x>> \in R)
  <2> HIDE DEF R
  <2> QED BY <1>1, WFMin, Zenon
<1>3. \A y \in S : ~(y < x)
  BY <1>2 DEF OpToRel
<1>4. \A y \in S : x =< y
  BY <1>3
<1> QED BY <1>4 DEF Min

LEMMA CurrentOpen ==
  ASSUME RemoteTypeOK, NEW c \in Commands, cmd[c].todo # {}
  PROVE  Current(c) \in cmd[c].todo /\ Current(c) \in Urls
<1>1. cmd[c].todo \in SUBSET Urls
  BY DEF RemoteTypeOK, CommandsOK, CommandOK, Command
<1>2. cmd[c].todo \in SUBSET Nat
  BY <1>1, RemoteAssumption
<1> QED BY <1>1, <1>2, FirstOfUnits DEF Current

(* The pins, and no directory and no pin, are told apart.                  *)
LEMMA NoneApart ==
  /\ None \notin WholePins
  /\ \A p \in WholePins : p.sha \in Artifacts /\ p.tree = Full(p.sha) /\ p.tree # None
  /\ \A p \in WholePins : \A q \in WholePins : p.sha = q.sha => p = q
  /\ \A a \in Artifacts : Pinned(a) \in WholePins /\ Pinned(a).sha = a /\ Full(a) # None
<1>1. \A a \in Artifacts : None # Full(a) /\ None # Pinned(a)
  BY NoneAssumption
<1>2. \A a \in Artifacts : Pinned(a).sha = a /\ Pinned(a).tree = Full(a)
  BY DEF Pinned
<1>3. \A p \in WholePins : \E a \in Artifacts : p = Pinned(a)
  BY DEF WholePins
<1>4. \A a \in Artifacts : Pinned(a) \in WholePins
  BY DEF WholePins
<1> QED BY <1>1, <1>2, <1>3, <1>4

LEMMA PinValues ==
  ASSUME NEW p \in Pins, p # None
  PROVE  /\ p.sha \in Artifacts
         /\ p.tree \in {None, Full(p.sha)}
         /\ p.tree # None => p \in WholePins
  BY RemoteAssumption, NoneAssumption DEF Pins, WholePins, Pinned, PinnedOnce, Full

LEMMA FollowsOn ==
  ASSUME NEW p \in Pins, NEW q \in Pins, NEW r \in Pins
  PROVE  /\ Follows(p, p)
         /\ Follows(r, q) /\ Follows(q, p) => Follows(r, p)
         /\ Follows(q, p) /\ p \in WholePins => q = p
         /\ Follows(q, p) /\ p # None => q # None /\ q.sha = p.sha
  BY NoneApart, PinValues DEF Follows

-----------------------------------------------------------------------------
(* What a step does to the commands. *)

Alone(c) == \A d \in Commands \ {c} : cmd'[d] = cmd[d]

SameFinds(c) ==
  /\ cmd'[c].entry = cmd[c].entry
  /\ cmd'[c].from = cmd[c].from
  /\ cmd'[c].failed = cmd[c].failed

SameRun(c) ==
  /\ cmd'[c].kind = cmd[c].kind
  /\ cmd'[c].units = cmd[c].units
  /\ cmd'[c].lock = cmd[c].lock

(* A command goes on with the same finds.                                  *)
Moved(c, where, todo) ==
  /\ CommandsOK' /\ Alone(c) /\ SameRun(c) /\ SameFinds(c)
  /\ cmd'[c].at = where /\ cmd'[c].todo = todo

Settled(c, u) ==
  /\ CommandsOK' /\ Alone(c) /\ SameRun(c)
  /\ cmd'[c].at = "resolve" /\ cmd'[c].todo = cmd[c].todo \ {u}
  /\ \A v \in Urls \ {u} : /\ cmd'[c].entry[v] = cmd[c].entry[v]
                           /\ cmd'[c].from[v] = cmd[c].from[v]

(* The unit of u is found, or its import is dropped.                       *)
Accepted(c, u, entry, from) ==
  /\ Settled(c, u)
  /\ cmd'[c].entry[u] = entry /\ cmd'[c].from[u] = from
  /\ cmd'[c].failed = cmd[c].failed

Rejected(c, u) == Settled(c, u) /\ cmd'[c].failed

LEMMA AcceptSteps ==
  ASSUME RemoteTypeOK, NEW c \in Commands, NEW u \in Urls, NEW entry \in WholePins,
         NEW from \in {"vendor", "cache"}, Accept(c, u, entry, from)
  PROVE  Accepted(c, u, entry, from)
<1>1. cmd[c] \in Command(cmd[c].got)
  BY DEF RemoteTypeOK, CommandsOK, CommandOK
<1>2. cmd = [d \in Commands |-> cmd[d]] /\ \A d \in Commands : CommandOK(cmd[d])
  BY DEF RemoteTypeOK, CommandsOK
<1>3. /\ cmd' = [d \in Commands |-> cmd'[d]] /\ Alone(c) /\ SameRun(c)
      /\ cmd'[c].at = "resolve" /\ cmd'[c].todo = cmd[c].todo \ {u}
      /\ cmd'[c].failed = cmd[c].failed
  <2>1. cmd' = [d \in Commands |-> cmd'[d]]
    <3>1. DOMAIN cmd = Commands
      BY <1>2
    <3>2. DOMAIN cmd' = Commands
      BY <3>1 DEF Accept
    <3> DEFINE h == [cmd EXCEPT ![c].at = "resolve", ![c].todo = @ \ {u}, ![c].artifact = None,
                            ![c].vendored = FALSE, ![c].entry[u] = entry]
    <3>3. cmd' = [h EXCEPT ![c].from[u] = from]
      BY DEF Accept
    <3>4. cmd' = [d \in DOMAIN cmd' |-> cmd'[d]]
      <4> HIDE DEF h
      <4> QED BY <3>3
    <3> QED BY <3>2, <3>4
  <2>2. Alone(c)
    BY <1>2 DEF Accept, Alone
  <2>3. SameRun(c) /\ cmd'[c].at = "resolve" /\ cmd'[c].todo = cmd[c].todo \ {u}
    BY <1>1, <1>2, SMTT(30) DEF Accept, SameRun, Command
  <2>4. cmd'[c].failed = cmd[c].failed
    BY <1>1, <1>2, SMTT(30) DEF Accept, Command
  <2> QED BY <2>1, <2>2, <2>3, <2>4, ZenonT(30)
<1>4. /\ cmd'[c].entry = [cmd[c].entry EXCEPT ![u] = entry]
      /\ cmd'[c].from = [cmd[c].from EXCEPT ![u] = from]
  BY <1>1, <1>2 DEF Accept, Command
<1>5. CommandOK(cmd'[c])
  <2>1. cmd'[c] = [cmd[c] EXCEPT !.at = "resolve", !.todo = @ \ {u}, !.artifact = None,
                     !.vendored = FALSE, !.entry = [@ EXCEPT ![u] = entry],
                     !.from = [@ EXCEPT ![u] = from]]
    BY <1>1, <1>2 DEF Accept, Command
  <2>2. /\ [cmd[c].entry EXCEPT ![u] = entry] \in [Urls -> {None} \cup WholePins]
        /\ [cmd[c].from EXCEPT ![u] = from] \in [Urls -> {None, "vendor", "cache"}]
        /\ "resolve" \in CommandPhases /\ cmd[c].todo \ {u} \in SUBSET Urls
    BY <1>1 DEF CommandPhases, Command
  <2>3. cmd'[c].got = cmd[c].got
    BY <1>1, <2>1 DEF Command
  <2> QED BY <1>1, <2>1, <2>2, <2>3, ZenonT(30) DEF CommandOK, Command
<1>6. cmd[c].entry \in [Urls -> {None} \cup WholePins] /\ cmd[c].from \in [Urls -> {None, "vendor", "cache"}]
  BY <1>1 DEF Command
<1>7. /\ cmd'[c].entry[u] = entry /\ cmd'[c].from[u] = from
      /\ \A v \in Urls \ {u} : /\ cmd'[c].entry[v] = cmd[c].entry[v]
                               /\ cmd'[c].from[v] = cmd[c].from[v]
  BY <1>4, <1>6
<1>8. CommandsOK'
  BY <1>2, <1>3, <1>5 DEF CommandsOK, Alone
<1> QED BY <1>3, <1>7, <1>8 DEF Accepted, Settled

LEMMA RejectSteps ==
  ASSUME RemoteTypeOK, NEW c \in Commands, NEW u \in Urls, Reject(c, u)
  PROVE  Rejected(c, u)
<1>1. cmd[c] \in Command(cmd[c].got)
  BY DEF RemoteTypeOK, CommandsOK, CommandOK
<1>2. cmd = [d \in Commands |-> cmd[d]] /\ \A d \in Commands : CommandOK(cmd[d])
  BY DEF RemoteTypeOK, CommandsOK
<1>3. /\ cmd' = [d \in Commands |-> cmd'[d]] /\ Alone(c) /\ SameRun(c)
      /\ cmd'[c].at = "resolve" /\ cmd'[c].todo = cmd[c].todo \ {u}
      /\ cmd'[c].failed
      /\ cmd'[c].entry = cmd[c].entry /\ cmd'[c].from = cmd[c].from
  BY <1>1, <1>2 DEF Reject, Alone, SameRun, Command
<1>5. CommandOK(cmd'[c])
  <2>1. cmd'[c] = [cmd[c] EXCEPT !.at = "resolve", !.todo = @ \ {u}, !.artifact = None,
                     !.vendored = FALSE, !.failed = TRUE]
    BY <1>1, <1>2 DEF Reject
  <2>2. "resolve" \in CommandPhases /\ cmd[c].todo \ {u} \in SUBSET Urls
    BY <1>1 DEF CommandPhases, Command
  <2>3. cmd'[c].got = cmd[c].got
    BY <1>1, <2>1 DEF Command
  <2> QED BY <1>1, <2>1, <2>2, <2>3 DEF CommandOK, Command
<1>6. CommandsOK'
  BY <1>2, <1>3, <1>5 DEF CommandsOK, Alone
<1> QED BY <1>3, <1>6 DEF Rejected, Settled

Goes(c, where, todo, artifact, vendored, got) ==
  cmd' = [cmd EXCEPT ![c] = [cmd[c] EXCEPT !.at = where, !.todo = todo,
            !.artifact = artifact, !.vendored = vendored, !.got = got]]

LEMMA MoveSteps ==
  ASSUME RemoteTypeOK, NEW c \in Commands, NEW where \in CommandPhases, NEW todo \in SUBSET Urls,
         NEW artifact \in {None} \cup Artifacts, NEW vendored \in BOOLEAN, NEW got,
         Goes(c, where, todo, artifact, vendored, got)
  PROVE  /\ Moved(c, where, todo)
         /\ cmd'[c].artifact = artifact /\ cmd'[c].vendored = vendored
         /\ cmd'[c].got = got
<1>1. cmd[c] \in Command(cmd[c].got)
  BY DEF RemoteTypeOK, CommandsOK, CommandOK
<1>2. cmd = [d \in Commands |-> cmd[d]] /\ \A d \in Commands : CommandOK(cmd[d])
  BY DEF RemoteTypeOK, CommandsOK
<1>3. /\ cmd' = [d \in Commands |-> cmd'[d]] /\ Alone(c)
      /\ cmd'[c] = [cmd[c] EXCEPT !.at = where, !.todo = todo,
                      !.artifact = artifact, !.vendored = vendored, !.got = got]
  BY <1>2 DEF Alone, Goes
<1>4. /\ SameRun(c) /\ SameFinds(c)
      /\ cmd'[c].at = where /\ cmd'[c].todo = todo
      /\ cmd'[c].artifact = artifact /\ cmd'[c].vendored = vendored
      /\ cmd'[c].got = got
  BY <1>1, <1>3 DEF SameRun, SameFinds, Command
<1>5. CommandOK(cmd'[c])
  BY <1>1, <1>3, <1>4 DEF CommandOK, Command
<1> QED BY <1>2, <1>3, <1>4, <1>5 DEF Moved, CommandsOK, Alone

(* The steps that only go on with the next thing.                          *)
LEMMA AtSteps ==
  ASSUME RemoteTypeOK, NEW c \in Commands, NEW where \in CommandPhases, cmd' = [cmd EXCEPT ![c].at = where]
  PROVE  Moved(c, where, cmd[c].todo) /\ cmd'[c].artifact = cmd[c].artifact
<1>1. cmd[c] \in Command(cmd[c].got)
  BY DEF RemoteTypeOK, CommandsOK, CommandOK
<1>2. Goes(c, where, cmd[c].todo, cmd[c].artifact, cmd[c].vendored, cmd[c].got)
  BY <1>1 DEF Command, Goes
<1>3. /\ cmd[c].todo \in SUBSET Urls /\ cmd[c].artifact \in {None} \cup Artifacts
      /\ cmd[c].vendored \in BOOLEAN
  BY <1>1 DEF Command
<1> QED BY <1>2, <1>3, MoveSteps

LEMMA TodoSteps ==
  ASSUME RemoteTypeOK, NEW c \in Commands, NEW where \in CommandPhases, NEW todo \in SUBSET Urls,
         cmd' = [cmd EXCEPT ![c].at = where, ![c].todo = todo]
  PROVE  Moved(c, where, todo)
<1>1. cmd[c] \in Command(cmd[c].got)
  BY DEF RemoteTypeOK, CommandsOK, CommandOK
<1>2. Goes(c, where, todo, cmd[c].artifact, cmd[c].vendored, cmd[c].got)
  BY <1>1 DEF Command, Goes
<1>3. cmd[c].artifact \in {None} \cup Artifacts /\ cmd[c].vendored \in BOOLEAN
  BY <1>1 DEF Command
<1> QED BY <1>2, <1>3, MoveSteps

(* A new command, and one that ends.                                       *)
Begun(c) ==
  /\ CommandsOK' /\ Alone(c)
  /\ cmd'[c].at = IF imports = {} THEN "load" ELSE "resolve"
  /\ cmd'[c].units = imports /\ cmd'[c].todo = imports
  /\ cmd'[c].lock = pins /\ ~cmd'[c].failed

RunEnded(c) ==
  /\ CommandsOK' /\ Alone(c)
  /\ cmd'[c].at = "idle" /\ cmd'[c].units = {}

LEMMA StartSteps ==
  ASSUME RemoteTypeOK, NEW c \in Commands, StartCommand(c)
  PROVE  Begun(c)
<1>1. cmd = [d \in Commands |-> cmd[d]] /\ \A d \in Commands : CommandOK(cmd[d])
  BY DEF RemoteTypeOK, CommandsOK
<1>2. PICK kind \in {"build", "frozen", "vendor"} :
        cmd' = [cmd EXCEPT ![c] = [Idle EXCEPT
                 !.at = IF imports = {} THEN "load" ELSE "resolve",
                 !.kind = kind, !.units = imports, !.lock = pins, !.todo = imports]]
  BY DEF StartCommand
<1>3. /\ cmd' = [d \in Commands |-> cmd'[d]] /\ Alone(c)
      /\ cmd'[c] = [Idle EXCEPT
                 !.at = IF imports = {} THEN "load" ELSE "resolve",
                 !.kind = kind, !.units = imports, !.lock = pins, !.todo = imports]
  BY <1>1, <1>2 DEF Alone
<1>4. /\ imports \in SUBSET Urls /\ pins \in [Urls -> Pins]
      /\ NoPins \in [Urls -> {None} \cup WholePins]
      /\ NoPins \in [Urls -> {None, "vendor", "cache"}]
  BY DEF RemoteTypeOK, NoPins
<1>5. CommandOK(cmd'[c])
  <2>1. cmd'[c] = [at |-> IF imports = {} THEN "load" ELSE "resolve", kind |-> kind,
                   units |-> imports, lock |-> pins, todo |-> imports, artifact |-> None,
                   vendored |-> FALSE, entry |-> NoPins, from |-> NoPins, failed |-> FALSE,
                   got |-> NoPins]
    BY <1>3 DEF Idle
  <2>2. (IF imports = {} THEN "load" ELSE "resolve") \in CommandPhases
    BY DEF CommandPhases, After
  <2> QED BY <1>4, <2>1, <2>2 DEF CommandOK, Command
<1>6. /\ cmd'[c].at = IF imports = {} THEN "load" ELSE "resolve"
      /\ cmd'[c].units = imports /\ cmd'[c].todo = imports
      /\ cmd'[c].lock = pins /\ ~cmd'[c].failed
  BY <1>3 DEF Idle
<1> QED BY <1>1, <1>3, <1>5, <1>6 DEF Begun, CommandsOK, Alone

LEMMA FinishSteps ==
  ASSUME RemoteTypeOK, NEW c \in Commands, Finish(c)
  PROVE  RunEnded(c)
<1>1. cmd = [d \in Commands |-> cmd[d]] /\ \A d \in Commands : CommandOK(cmd[d])
  BY DEF RemoteTypeOK, CommandsOK
<1>3. cmd' = [d \in Commands |-> cmd'[d]] /\ Alone(c) /\ cmd'[c] = Idle
  BY <1>1 DEF Alone, Finish
<1>4. /\ NoPins \in [Urls -> {None} \cup WholePins] /\ NoPins \in [Urls -> Pins]
      /\ NoPins \in [Urls -> {None, "vendor", "cache"}]
  BY DEF NoPins, Pins
<1>5. CommandOK(cmd'[c])
  BY <1>3, <1>4 DEF CommandOK, Command, Idle, CommandPhases
<1>6. cmd'[c].at = "idle" /\ cmd'[c].units = {}
  BY <1>3 DEF Idle
<1> QED BY <1>1, <1>3, <1>5, <1>6 DEF RunEnded, CommandsOK, Alone

-----------------------------------------------------------------------------
(* What a step of the resolution does: it finds the unit of the import it  *)
(* is at, drops the import, or goes on with it.                            *)

AtUnit(c) == cmd[c].at \in {"resolve"} \cup Fetching /\ cmd[c].todo # {}

Finds(c) ==
  /\ AtUnit(c) /\ UNCHANGED <<world, pins, stores, tree, past>>
  /\ \E entry \in WholePins, from \in {"vendor", "cache"} :
       /\ Accepted(c, Current(c), entry, from)
       /\ Follows(entry, Pin(c, Current(c)))
       /\ cmd[c].kind = "frozen" => entry = Pin(c, Current(c))
       /\ from = "vendor" => vendor[Current(c)] = entry.tree

StagedAlone(c) ==
  /\ unpacked' \in [Urls -> [Commands -> [Artifacts -> UnitDirs]]]
  /\ \A u \in Urls : \A d \in Commands \ {c} : unpacked'[u][d] = unpacked[u][d]

Drops(c) ==
  /\ AtUnit(c) /\ UNCHANGED <<world, pins, cache, tree, past>>
  /\ StagedAlone(c)
  /\ Rejected(c, Current(c))

CacheGrows ==
  /\ cache' \in [Urls -> [Artifacts -> UnitDirs]]
  /\ \A u \in Urls : \A a \in Artifacts :
       cache'[u][a] = cache[u][a] \/ (cache[u][a] = None /\ cache'[u][a] = Full(a))

GoesOn(c) ==
  /\ AtUnit(c) /\ UNCHANGED <<world, pins, tree, past>>
  /\ StagedAlone(c)
  /\ CacheGrows
  /\ \E where \in Fetching : Moved(c, where, cmd[c].todo)
  /\ Progress(c)'

Resolves(c) == Finds(c) \/ Drops(c) \/ GoesOn(c)

LEMMA VerifyResolves ==
  ASSUME Ours, NEW c \in Commands, AtUnit(c), NEW sha \in Artifacts,
         NEW vendored \in BOOLEAN, cache[Current(c)][sha] # None,
         cmd[c].kind = "frozen" => Pin(c, Current(c)) # None /\ PinnedTree(c, Current(c)) # None,
         Verify(c, Current(c), sha, vendored),
         UNCHANGED <<world, pins, stores, tree, past>>
  PROVE  Finds(c) \/ Drops(c)
<1> DEFINE u == Current(c)
           found == cache[u][sha]
           wanted == IF PinnedTree(c, u) = None THEN found ELSE PinnedTree(c, u)
<1>1. RemoteTypeOK /\ u \in Urls
  BY CurrentOpen DEF Ours, AtUnit
<1>2. Pin(c, u) \in Pins
  BY <1>1 DEF RemoteTypeOK, CommandsOK, CommandOK, Command, Pin
<1>3. found = Full(sha)
  BY <1>1 DEF Ours, StoresWhole
<1>4. CASE Accept(c, u, [sha |-> sha, tree |-> wanted], IF vendored THEN "vendor" ELSE "cache")
           /\ (Pin(c, u) # None => Pin(c, u).sha = sha) /\ found = wanted
           /\ (vendored => vendor[u] = wanted)
  <2>1. [sha |-> sha, tree |-> wanted] = Pinned(sha)
    BY <1>3, <1>4 DEF Pinned
  <2>2. Pinned(sha) \in WholePins /\ Pinned(sha).tree = wanted /\ Pinned(sha).sha = sha
    BY <1>3, <1>4, NoneApart DEF Pinned
  <2>3. Accepted(c, u, Pinned(sha), IF vendored THEN "vendor" ELSE "cache")
    BY <1>1, <1>4, <2>1, <2>2, AcceptSteps
  <2>4. Follows(Pinned(sha), Pin(c, u))
    BY <1>4, <2>2 DEF Follows
  <2>5. cmd[c].kind = "frozen" => Pinned(sha) = Pin(c, u)
    <3>1. CASE cmd[c].kind = "frozen"
      <4>1. Pin(c, u) \in WholePins
        BY <1>2, <3>1, PinValues DEF PinnedTree
      <4> QED BY <1>4, <2>2, <3>1, <4>1, NoneApart
    <3> QED BY <3>1
  <2>6. (IF vendored THEN "vendor" ELSE "cache") \in {"vendor", "cache"}
        /\ ((IF vendored THEN "vendor" ELSE "cache") = "vendor" => vendor[u] = Pinned(sha).tree)
    BY <1>4, <2>2
  <2> QED
    <3> HIDE DEF u, wanted, found
    <3>1. Finds(c)
      BY <2>2, <2>3, <2>4, <2>5, <2>6 DEF Finds, u
    <3> QED BY <3>1
<1>5. CASE Reject(c, u)
  <2>1. Rejected(c, u)
    BY <1>1, <1>5, RejectSteps
  <2>2. StagedAlone(c)
    BY <1>1 DEF StagedAlone, RemoteTypeOK, stores
  <2> QED BY <2>1, <2>2 DEF Drops, stores
<1> QED
  BY <1>4, <1>5 DEF Verify

LEMMA DropResolves ==
  ASSUME Ours, NEW c \in Commands, AtUnit(c), Reject(c, Current(c)), StagedAlone(c),
         UNCHANGED <<world, pins, cache, tree, past>>
  PROVE  Drops(c)
<1>1. RemoteTypeOK /\ Current(c) \in Urls
  BY CurrentOpen DEF Ours, AtUnit
<1>2. Rejected(c, Current(c))
  BY <1>1, RejectSteps
<1> QED BY <1>2 DEF Drops

LEMMA StagedUntouched ==
  ASSUME RemoteTypeOK, NEW c \in Commands, UNCHANGED unpacked
  PROVE  StagedAlone(c)
  BY DEF RemoteTypeOK, StagedAlone

LEMMA StagingAlone ==
  ASSUME RemoteTypeOK, NEW c \in Commands, Current(c) \in Urls, cmd[c].artifact \in Artifacts,
         NEW dir \in UnitDirs, InStaging(c, dir)
  PROVE  StagedAlone(c) /\ unpacked'[Current(c)][c][cmd[c].artifact] = dir
<1>2. unpacked \in [Urls -> [Commands -> [Artifacts -> UnitDirs]]]
  BY DEF RemoteTypeOK
<1> DEFINE m == [unpacked[Current(c)][c] EXCEPT ![cmd[c].artifact] = dir]
<1>3. m \in [Artifacts -> UnitDirs] /\ m[cmd[c].artifact] = dir
  BY <1>2
<1>4. unpacked' = [unpacked EXCEPT ![Current(c)] = [unpacked[Current(c)] EXCEPT ![c] = m]]
  BY DEF InStaging, Staging
<1> HIDE DEF m
<1> QED BY <1>2, <1>3, <1>4 DEF StagedAlone

LEMMA DirValues ==
  /\ None \in UnitDirs
  /\ \A a \in Artifacts : Full(a) \in UnitDirs /\ Part(a) \in UnitDirs
  BY DEF UnitDirs

LEMMA FindingResolves ==
  ASSUME Ours, NEW c \in Commands, ServeVendored(c) \/ CacheHit(c) \/ FrozenMiss(c)
  PROVE  Resolves(c)
<1>1. AtUnit(c) /\ RemoteTypeOK
  BY DEF ServeVendored, CacheHit, FrozenMiss, Resolving, At, AtUnit, Ours
<1>2. Current(c) \in Urls /\ Pin(c, Current(c)) \in Pins
  BY <1>1, CurrentOpen DEF AtUnit, RemoteTypeOK, CommandsOK, CommandOK, Command, Pin
<1>3. UNCHANGED <<world, pins, stores, tree, past>>
  BY DEF ServeVendored, CacheHit, FrozenMiss
<1>4. StagedAlone(c) /\ UNCHANGED <<world, pins, cache, tree, past>>
  BY <1>1, <1>3, StagedUntouched DEF stores
<1>5. CASE ServeVendored(c)
  <2>1. CASE Reject(c, Current(c))
    BY <1>1, <1>4, <2>1, DropResolves DEF Resolves
  <2>2. CASE /\ vendor[Current(c)] = PinnedTree(c, Current(c))
             /\ Accept(c, Current(c), Pin(c, Current(c)), "vendor")
    <3>1. Pin(c, Current(c)) # None /\ PinnedTree(c, Current(c)) = Pin(c, Current(c)).tree
          /\ Pin(c, Current(c)).tree # None
      BY <1>5 DEF ServeVendored, ByVendor, PinnedTree
    <3>2. Pin(c, Current(c)) \in WholePins
      BY <1>2, <3>1, PinValues
    <3>3. Accepted(c, Current(c), Pin(c, Current(c)), "vendor")
      BY <1>1, <1>2, <2>2, <3>2, AcceptSteps
    <3>4. Finds(c)
      BY <1>1, <1>3, <2>2, <3>1, <3>2, <3>3 DEF Finds, Follows
    <3> QED BY <3>4 DEF Resolves
  <2> QED BY <1>5, <2>1, <2>2 DEF ServeVendored
<1>6. CASE CacheHit(c)
  <2>1. CASE Reject(c, Current(c))
    BY <1>1, <1>4, <2>1, DropResolves DEF Resolves
  <2>2. CASE /\ ~(cmd[c].kind = "frozen" /\ PinnedTree(c, Current(c)) = None)
             /\ Verify(c, Current(c), Pin(c, Current(c)).sha, VendoredDir(c, Current(c)) # None)
    <3>1. Pin(c, Current(c)) # None /\ cache[Current(c)][Pin(c, Current(c)).sha] # None
      BY <1>6 DEF CacheHit, ByCache
    <3>2. Pin(c, Current(c)).sha \in Artifacts
      BY <1>2, <3>1, PinValues
    <3>3. Finds(c) \/ Drops(c)
      BY <1>1, <1>3, <2>2, <3>1, <3>2, VerifyResolves
    <3> QED BY <3>3 DEF Resolves
  <2> QED BY <1>6, <2>1, <2>2 DEF CacheHit
<1>7. CASE FrozenMiss(c)
  BY <1>1, <1>4, <1>7, DropResolves DEF Resolves, FrozenMiss
<1> QED BY <1>5, <1>6, <1>7

LEMMA FetchingResolves ==
  ASSUME Ours, NEW c \in Commands, Miss(c) \/ Fetch(c) \/ FetchFails(c)
  PROVE  Resolves(c)
<1>1. AtUnit(c) /\ RemoteTypeOK
  BY DEF Miss, Fetch, FetchFails, Resolving, At, AtUnit, Ours, Progress, Handling, Fetching
<1>2. Current(c) \in Urls
  BY <1>1, CurrentOpen DEF AtUnit
<1>3. UNCHANGED <<world, pins, stores, tree, past>>
  BY DEF Miss, Fetch, FetchFails
<1>4. /\ StagedAlone(c) /\ UNCHANGED <<world, pins, cache, tree, past>>
      /\ cache' \in [Urls -> [Artifacts -> UnitDirs]]
  BY <1>1, <1>3, StagedUntouched DEF stores, RemoteTypeOK
<1>5. cmd[c] \in Command(cmd[c].got)
  BY <1>1 DEF RemoteTypeOK, CommandsOK, CommandOK
<1>6. CASE Miss(c)
  <2>1. Goes(c, "fetch", cmd[c].todo, cmd[c].artifact, VendoredDir(c, Current(c)) # None, cmd[c].got)
    BY <1>5, <1>6 DEF Miss, Goes, Command
  <2> DEFINE vendored == VendoredDir(c, Current(c)) # None
  <2>5. /\ "fetch" \in CommandPhases /\ cmd[c].todo \in SUBSET Urls
        /\ cmd[c].artifact \in {None} \cup Artifacts /\ vendored \in BOOLEAN
    BY <1>5 DEF Command, CommandPhases, Fetching
  <2>2. Moved(c, "fetch", cmd[c].todo)
    <3> HIDE DEF vendored
    <3>1. Goes(c, "fetch", cmd[c].todo, cmd[c].artifact, vendored, cmd[c].got)
      BY <2>1 DEF vendored
    <3> QED BY <1>1, <2>5, <3>1, MoveSteps
  <2>3. Progress(c)'
    BY <1>1, <1>6, <2>2, ZenonT(30) DEF Ours, Progress, Moved, SameRun, SameFinds, Miss, Resolving, At,
       Handling, Fetching, Vendoring, InVendor, Open, AtUnit
  <2>4. GoesOn(c)
    BY <1>1, <1>3, <1>4, <2>2, <2>3 DEF GoesOn, CacheGrows, Fetching
  <2> QED BY <2>4 DEF Resolves
<1>7. CASE Fetch(c)
  <2> DEFINE sent == served[Current(c)]
  <2>1. sent \in Artifacts
    BY <1>1, <1>2 DEF RemoteTypeOK
  <2>2. Goes(c, "store", cmd[c].todo, sent, cmd[c].vendored, cmd[c].got)
    BY <1>5, <1>7 DEF Fetch, Goes, Command
  <2>5. /\ "store" \in CommandPhases /\ cmd[c].todo \in SUBSET Urls
        /\ sent \in {None} \cup Artifacts /\ cmd[c].vendored \in BOOLEAN
    BY <1>5, <2>1 DEF Command, CommandPhases, Fetching
  <2>3. Moved(c, "store", cmd[c].todo) /\ cmd'[c].artifact \in Artifacts
    <3> HIDE DEF sent
    <3>1. Moved(c, "store", cmd[c].todo)
      BY <1>1, <2>2, <2>5, MoveSteps
    <3>2. cmd'[c].artifact = sent
      BY <1>1, <2>2, <2>5, MoveSteps
    <3> QED BY <2>1, <3>1, <3>2
  <2>4. Progress(c)'
    BY <1>1, <1>7, <2>3, ZenonT(30) DEF Ours, Progress, Moved, SameRun, SameFinds, Fetch, At,
       Handling, Fetching, Vendoring, InVendor, Open, AtUnit
  <2>6. GoesOn(c)
    BY <1>1, <1>3, <1>4, <2>3, <2>4 DEF GoesOn, CacheGrows, Fetching
  <2> QED BY <2>6 DEF Resolves
<1>8. CASE FetchFails(c)
  BY <1>1, <1>4, <1>8, DropResolves DEF Resolves, FetchFails
<1> QED BY <1>6, <1>7, <1>8

LEMMA StoringResolves ==
  ASSUME Ours, NEW c \in Commands,
         StoreHit(c) \/ StoreStage(c) \/ StoreUnpack(c) \/ StoreFails(c) \/ StoreRename(c)
  PROVE  Resolves(c)
<1>1. /\ AtUnit(c) /\ RemoteTypeOK /\ Progress(c)
      /\ cmd[c].artifact \in Artifacts /\ cmd[c].at \in {"store", "unpack", "rename"}
  BY DEF StoreHit, StoreStage, StoreUnpack, StoreFails, StoreRename, At, AtUnit, Ours,
     Progress, Handling, Fetching
<1>2. Current(c) \in Urls
  BY <1>1, CurrentOpen DEF AtUnit
<1>3. UNCHANGED <<world, pins, tree, past>>
  BY DEF StoreHit, StoreStage, StoreUnpack, StoreFails, StoreRename
<1>4. \A dir \in UnitDirs : InStaging(c, dir) =>
        StagedAlone(c) /\ unpacked'[Current(c)][c][cmd[c].artifact] = dir
  BY <1>1, <1>2, StagingAlone
<1>5. {None, Part(cmd[c].artifact), Full(cmd[c].artifact)} \subseteq UnitDirs
  BY <1>1, DirValues
<1>6. DropStaging(c) => StagedAlone(c)
  BY <1>4, <1>5 DEF DropStaging
<1>7. UNCHANGED unpacked => StagedAlone(c)
  BY <1>1, StagedUntouched
<1>8. \A where \in Fetching :
        cmd' = [cmd EXCEPT ![c].at = where] =>
          Moved(c, where, cmd[c].todo) /\ cmd'[c].artifact = cmd[c].artifact
  <2>1. Fetching \subseteq CommandPhases
    BY DEF CommandPhases
  <2> QED BY <1>1, <2>1, AtSteps
<1>9. cache \in [Urls -> [Artifacts -> UnitDirs]] /\ (UNCHANGED cache => cache' \in [Urls -> [Artifacts -> UnitDirs]])
  BY <1>1 DEF RemoteTypeOK
<1>10. CASE StoreHit(c)
  <2>1. Moved(c, "verify", cmd[c].todo) /\ cmd'[c].artifact = cmd[c].artifact
    BY <1>8, <1>10 DEF StoreHit, Fetching
  <2>2. UNCHANGED <<cache, unpacked>> /\ Entry(c) # None
    BY <1>10 DEF StoreHit, stores
  <2>3. Progress(c)'
    BY <1>1, <2>1, <2>2 DEF Progress, Moved, SameRun, SameFinds, At, Current, Entry,
       Handling, Fetching, Vendoring, InVendor, Open, AtUnit
  <2>4. GoesOn(c)
    BY <1>1, <1>3, <1>7, <1>9, <2>1, <2>2, <2>3 DEF GoesOn, CacheGrows, Fetching
  <2> QED BY <2>4 DEF Resolves
<1>11. CASE StoreStage(c)
  <2>1. Moved(c, "unpack", cmd[c].todo) /\ cmd'[c].artifact = cmd[c].artifact
    BY <1>8, <1>11 DEF StoreStage, Fetching
  <2>2. UNCHANGED cache /\ StagedAlone(c)
    BY <1>4, <1>5, <1>11 DEF StoreStage
  <2>3. Progress(c)'
    BY <1>1, <2>1, <2>2 DEF Progress, Moved, SameRun, SameFinds, At, Current, Entry,
       Handling, Fetching, Vendoring, InVendor, Open, AtUnit
  <2>4. GoesOn(c)
    BY <1>1, <1>3, <1>9, <2>1, <2>2, <2>3 DEF GoesOn, CacheGrows, Fetching
  <2> QED BY <2>4 DEF Resolves
<1>12. CASE StoreUnpack(c)
  <2>1. Moved(c, "rename", cmd[c].todo) /\ cmd'[c].artifact = cmd[c].artifact
    BY <1>8, <1>12 DEF StoreUnpack, Fetching
  <2>2. /\ UNCHANGED cache /\ StagedAlone(c)
        /\ unpacked'[Current(c)][c][cmd[c].artifact] = Full(cmd[c].artifact)
    BY <1>4, <1>5, <1>12 DEF StoreUnpack
  <2>3. Progress(c)'
    BY <1>1, <2>1, <2>2 DEF Progress, Moved, SameRun, SameFinds, At, Current, Entry,
       Handling, Fetching, Vendoring, InVendor, Open, AtUnit
  <2>4. GoesOn(c)
    BY <1>1, <1>3, <1>9, <2>1, <2>2, <2>3 DEF GoesOn, CacheGrows, Fetching
  <2> QED BY <2>4 DEF Resolves
<1>13. CASE StoreFails(c)
  <2>1. StagedAlone(c)
    BY <1>6, <1>7, <1>13 DEF StoreFails
  <2> QED BY <1>1, <1>3, <1>13, <2>1, DropResolves DEF Resolves, StoreFails
<1>14. CASE StoreRename(c)
  <2> DEFINE u == Current(c)
             a == cmd[c].artifact
  <2>1. Moved(c, "verify", cmd[c].todo) /\ cmd'[c].artifact = a
    BY <1>8, <1>14 DEF StoreRename, Fetching
  <2>2. /\ StagedAlone(c) /\ cache' \in [Urls -> [Artifacts -> UnitDirs]]
        /\ cache'[u][a] # None
        /\ \A v \in Urls : \A b \in Artifacts :
             cache'[v][b] = cache[v][b] \/ (cache[v][b] = None /\ cache'[v][b] = Full(b))
    <3>1. CASE Entry(c) = None
      <4>1. unpacked[u][c][a] = Full(a)
        BY <1>1, <1>14 DEF Progress, StoreRename, At
      <4>2. cache' = [cache EXCEPT ![u][a] = Full(a)] /\ InStaging(c, None)
        BY <1>14, <3>1, <4>1 DEF StoreRename, Staging
      <4>3. Full(a) \in UnitDirs /\ Full(a) # None
        BY <1>1, DirValues, NoneApart
      <4>4. cache[u][a] = None
        BY <3>1 DEF Entry
      <4> HIDE DEF u, a
      <4>5. u \in Urls /\ a \in Artifacts
        BY <1>1, <1>2 DEF u, a
      <4>6. /\ cache' \in [Urls -> [Artifacts -> UnitDirs]] /\ cache'[u][a] = Full(a)
            /\ \A v \in Urls : \A b \in Artifacts : v # u \/ b # a => cache'[v][b] = cache[v][b]
        BY <1>9, <4>2, <4>3, <4>5
      <4> QED BY <1>4, <1>5, <4>2, <4>3, <4>4, <4>6
    <3>2. CASE Entry(c) # None
      BY <1>6, <1>9, <1>14, <3>2 DEF StoreRename, Entry
    <3> QED BY <3>1, <3>2
  <2>3. Progress(c)'
    <3>1. Current(c)' = u /\ Entry(c)' # None
      BY <2>1, <2>2 DEF Moved, Current, Entry
    <3> QED BY <1>1, <2>1, <3>1 DEF Progress, Moved, SameRun, SameFinds, At,
       Handling, Fetching, Vendoring, InVendor, Open, AtUnit
  <2>4. GoesOn(c)
    BY <1>1, <1>3, <2>1, <2>2, <2>3 DEF GoesOn, CacheGrows, Fetching
  <2> QED BY <2>4 DEF Resolves
<1> QED BY <1>10, <1>11, <1>12, <1>13, <1>14

LEMMA VerifyingResolves ==
  ASSUME Ours, NEW c \in Commands, VerifyFetched(c)
  PROVE  Resolves(c)
<1>1. /\ AtUnit(c) /\ RemoteTypeOK /\ Progress(c) /\ cmd[c].kind # "frozen"
      /\ cmd[c].artifact \in Artifacts
      /\ cache[Current(c)][cmd[c].artifact] # None
  BY DEF VerifyFetched, At, AtUnit, Ours, Progress, Handling, Fetching, Entry
<1>2. cmd[c].vendored \in BOOLEAN
  BY <1>1 DEF RemoteTypeOK, CommandsOK, CommandOK, Command
<1>3. /\ Verify(c, Current(c), cmd[c].artifact, cmd[c].vendored)
      /\ UNCHANGED <<world, pins, stores, tree, past>>
  BY DEF VerifyFetched
<1> QED BY <1>1, <1>2, <1>3, VerifyResolves DEF Resolves

Resolution(c) ==
  \/ ServeVendored(c) \/ CacheHit(c) \/ FrozenMiss(c) \/ Miss(c)
  \/ Fetch(c) \/ FetchFails(c)
  \/ StoreHit(c) \/ StoreStage(c) \/ StoreUnpack(c) \/ StoreFails(c) \/ StoreRename(c)
  \/ VerifyFetched(c)

LEMMA ResolutionResolves ==
  ASSUME Ours, NEW c \in Commands, Resolution(c)
  PROVE  Resolves(c)
  BY FindingResolves, FetchingResolves, StoringResolves, VerifyingResolves DEF Resolution

-----------------------------------------------------------------------------
(* What a step leaves to the other commands. *)

LEMMA OthersProgress ==
  ASSUME Ours, NEW c \in Commands, NEW d \in Commands \ {c},
         Alone(c), StagedAlone(c), CacheGrows
  PROVE  Progress(d)'
<1>1. cmd'[d] = cmd[d] /\ Progress(d) /\ RemoteTypeOK
  BY DEF Alone, Ours
<1>2. CASE At(d, "rename") \/ At(d, "verify")
  <2>1. Current(d) \in Urls /\ cmd[d].artifact \in Artifacts
    BY <1>1, <1>2, CurrentOpen DEF Progress, At, Handling, Fetching
  <2>2. unpacked'[Current(d)][d] = unpacked[Current(d)][d]
    BY <2>1 DEF StagedAlone
  <2>3. Entry(d) # None => cache'[Current(d)][cmd[d].artifact] # None
    BY <2>1 DEF CacheGrows, Entry
  <2>4. Current(d)' = Current(d) /\ Entry(d)' = cache'[Current(d)][cmd[d].artifact]
    BY <1>1 DEF Current, Entry
  <2> QED BY <1>1, <2>2, <2>3, <2>4 DEF Progress, At, InVendor, Open
<1>3. CASE ~At(d, "rename") /\ ~At(d, "verify")
  BY <1>1, <1>3 DEF Progress, At, InVendor, Open
<1> QED BY <1>2, <1>3

LEMMA OthersVendor ==
  ASSUME Ours, NEW c \in Commands, NEW d \in Commands \ {c}, Alone(c),
         InVendor(d) => UNCHANGED vendor /\ copied'[d] = copied[d]
  PROVE  VendorProgress(d)'
<1>1. cmd'[d] = cmd[d] /\ VendorProgress(d)
  BY DEF Alone, Ours
<1>2. Current(d)' = Current(d)
  BY <1>1 DEF Current
<1>3. CASE InVendor(d)
  BY <1>1, <1>2, <1>3 DEF VendorProgress, InVendor, At, Vendoring
<1>4. CASE ~InVendor(d)
  BY <1>1, <1>4 DEF VendorProgress, InVendor, At, Vendoring
<1> QED BY <1>3, <1>4

(* A command that is not about `vendor/` disturbs none that is.            *)
LEMMA OthersGoOn ==
  ASSUME Ours, NEW c \in Commands, Alone(c), StagedAlone(c), CacheGrows, UNCHANGED tree,
         Progress(c)', cmd'[c].at \notin Vendoring
  PROVE  OneVendors' /\ \A d \in Commands : Progress(d)' /\ VendorProgress(d)'
<1>1. \A d \in Commands \ {c} : Progress(d)'
  BY OthersProgress
<1>2. UNCHANGED <<vendor, copied>>
  BY DEF tree
<1>3. \A d \in Commands \ {c} : VendorProgress(d)'
  BY <1>2, OthersVendor
<1>4. VendorProgress(c)'
  BY DEF VendorProgress, InVendor, At, Vendoring
<1>5. OneVendors'
  BY DEF Ours, OneVendors, InVendor, Alone, Vendoring
<1> QED BY <1>1, <1>3, <1>4, <1>5

LEMMA StoresStay ==
  ASSUME StoresWhole, CacheGrows, UNCHANGED <<vendor, past>>
  PROVE  StoresWhole'
  BY DEF StoresWhole, CacheGrows

LEMMA SameStores ==
  ASSUME RemoteTypeOK, UNCHANGED stores, NEW c \in Commands
  PROVE  StagedAlone(c) /\ CacheGrows
  BY DEF RemoteTypeOK, stores, StagedAlone, CacheGrows

LEMMA FindsOurs ==
  ASSUME Ours, NEW c \in Commands, Finds(c)
  PROVE  Ours'
<1>1. PICK entry \in WholePins, from \in {"vendor", "cache"} :
        /\ Accepted(c, Current(c), entry, from)
        /\ Follows(entry, Pin(c, Current(c)))
        /\ cmd[c].kind = "frozen" => entry = Pin(c, Current(c))
  BY DEF Finds
<1>2. RemoteTypeOK /\ StoresWhole /\ Progress(c)
  BY DEF Ours
<1>3. UNCHANGED <<world, pins, stores, tree, past>> /\ AtUnit(c)
  BY DEF Finds
<1>4. Current(c) \in Urls
  BY <1>2, <1>3, CurrentOpen DEF AtUnit
<1>5. RemoteTypeOK'
  BY <1>1, <1>2, <1>3 DEF RemoteTypeOK, Accepted, Settled, world, stores, tree
<1>6. StagedAlone(c) /\ CacheGrows
  BY <1>2, <1>3, SameStores
<1>7. StoresWhole'
  BY <1>2, <1>3, <1>6, StoresStay DEF tree
<1>8. Progress(c)'
  <2>1. /\ cmd'[c].at = "resolve" /\ cmd'[c].failed = cmd[c].failed
        /\ cmd'[c].kind = cmd[c].kind /\ cmd'[c].units = cmd[c].units
        /\ cmd'[c].lock = cmd[c].lock /\ cmd'[c].todo = cmd[c].todo \ {Current(c)}
        /\ cmd'[c].entry[Current(c)] = entry
        /\ \A v \in Urls \ {Current(c)} : cmd'[c].entry[v] = cmd[c].entry[v]
    BY <1>1 DEF Accepted, Settled, SameRun
  <2>2. Open(c) = cmd[c].todo /\ Open(c)' = cmd[c].todo \ {Current(c)}
    BY <1>3, <2>1 DEF Open, AtUnit, At
  <2>3. ASSUME ~cmd[c].failed, NEW u \in cmd[c].units, u \notin Open(c)'
        PROVE  /\ cmd'[c].entry[u] # None
               /\ Follows(cmd'[c].entry[u], cmd[c].lock[u])
               /\ cmd[c].kind = "frozen" => cmd'[c].entry[u] = cmd[c].lock[u]
    <3>1. u \in Urls
      BY <1>2 DEF RemoteTypeOK, CommandsOK, CommandOK, Command
    <3>2. CASE u = Current(c)
      BY <1>1, <2>1, <3>2, NoneApart DEF Pin
    <3>3. CASE u # Current(c)
      BY <1>2, <2>1, <2>2, <2>3, <3>1, <3>3 DEF Progress
    <3> QED BY <3>2, <3>3
  <2> QED BY <2>1, <2>3 DEF Progress, At, InVendor, Handling, Fetching, Vendoring
<1>9. OneVendors' /\ \A d \in Commands : Progress(d)' /\ VendorProgress(d)'
  BY <1>1, <1>3, <1>6, <1>8, OthersGoOn DEF Accepted, Settled, Vendoring
<1> QED BY <1>5, <1>7, <1>9 DEF Ours

LEMMA DropsOurs ==
  ASSUME Ours, NEW c \in Commands, Drops(c)
  PROVE  Ours'
<1>1. RemoteTypeOK /\ StoresWhole /\ Progress(c)
  BY DEF Ours
<1>2. UNCHANGED <<world, pins, cache, tree, past>> /\ StagedAlone(c) /\ Rejected(c, Current(c))
  BY DEF Drops
<1>3. RemoteTypeOK'
  BY <1>1, <1>2 DEF RemoteTypeOK, Rejected, Settled, StagedAlone, world, tree
<1>4. CacheGrows
  BY <1>1, <1>2 DEF RemoteTypeOK, CacheGrows
<1>5. StoresWhole'
  BY <1>1, <1>2, <1>4, StoresStay DEF tree
<1>6. Progress(c)'
  BY <1>2 DEF Rejected, Settled, Progress, At, InVendor, Handling, Fetching, Vendoring
<1>7. OneVendors' /\ \A d \in Commands : Progress(d)' /\ VendorProgress(d)'
  BY <1>2, <1>4, <1>6, OthersGoOn DEF Rejected, Settled, Vendoring
<1> QED BY <1>3, <1>5, <1>7 DEF Ours

LEMMA GoesOnOurs ==
  ASSUME Ours, NEW c \in Commands, GoesOn(c)
  PROVE  Ours'
<1>1. RemoteTypeOK /\ StoresWhole
  BY DEF Ours
<1>2. PICK where \in Fetching : Moved(c, where, cmd[c].todo)
  BY DEF GoesOn
<1>3. UNCHANGED <<world, pins, tree, past>> /\ StagedAlone(c) /\ CacheGrows /\ Progress(c)'
  BY DEF GoesOn
<1>4. RemoteTypeOK'
  BY <1>1, <1>2, <1>3 DEF RemoteTypeOK, Moved, StagedAlone, CacheGrows, world, tree
<1>5. StoresWhole'
  BY <1>1, <1>3, StoresStay DEF tree
<1>6. OneVendors' /\ \A d \in Commands : Progress(d)' /\ VendorProgress(d)'
  BY <1>2, <1>3, OthersGoOn DEF Moved, Fetching, Vendoring
<1> QED BY <1>4, <1>5, <1>6 DEF Ours

-----------------------------------------------------------------------------
(* The steps between the resolution and `vendor/`. *)

LEMMA PlainOurs ==
  ASSUME Ours, NEW c \in Commands, RemoteTypeOK', Alone(c), UNCHANGED <<stores, tree>>,
         past'.removing = past.removing, Progress(c)', cmd'[c].at \notin Vendoring
  PROVE  Ours'
<1>1. StagedAlone(c) /\ CacheGrows
  BY SameStores DEF Ours
<1>2. StoresWhole'
  BY DEF Ours, StoresWhole, stores, tree
<1>3. OneVendors' /\ \A d \in Commands : Progress(d)' /\ VendorProgress(d)'
  BY <1>1, OthersGoOn
<1> QED BY <1>2, <1>3 DEF Ours

LEMMA EndedProgress ==
  ASSUME NEW c \in Commands, RunEnded(c)
  PROVE  Progress(c)' /\ cmd'[c].at \notin Vendoring
  BY DEF RunEnded, Progress, At, InVendor, Handling, Fetching, Vendoring

LEMMA EndedOurs ==
  ASSUME Ours, NEW c \in Commands, Finish(c), UNCHANGED <<world, pins, stores, tree>>,
         past'.removing = past.removing,
         past' \in Pasts
  PROVE  Ours'
<1>1. RemoteTypeOK
  BY DEF Ours
<1>2. RunEnded(c)
  BY <1>1, FinishSteps
<1>3. RemoteTypeOK'
  BY <1>1, <1>2 DEF RemoteTypeOK, RunEnded, world, stores, tree
<1> QED BY <1>2, <1>3, EndedProgress, PlainOurs DEF RunEnded

LEMMA StartOurs ==
  ASSUME Ours, NEW c \in Commands, StartCommand(c)
  PROVE  Ours'
<1>1. RemoteTypeOK
  BY DEF Ours
<1>2. Begun(c)
  BY <1>1, StartSteps
<1>3. UNCHANGED <<world, pins, stores, tree>>
  BY DEF StartCommand
<1>4. past'.removing = past.removing /\ past' \in Pasts
  BY <1>1 DEF RemoteTypeOK, StartCommand, Pasts
<1>5. RemoteTypeOK'
  BY <1>1, <1>2, <1>3, <1>4 DEF RemoteTypeOK, Begun, Pasts, world, stores, tree
<1>6. Progress(c)'
  BY <1>2 DEF Begun, Progress, At, InVendor, Open, Handling, Fetching, Vendoring
<1> QED BY <1>2, <1>3, <1>4, <1>5, <1>6, PlainOurs DEF Begun, Vendoring

LEMMA CutPins ==
  ASSUME NEW entry \in [Urls -> {None} \cup WholePins], NEW p \in CutShort(entry)
  PROVE  p \in [Urls -> Pins]
<1>1. \A q \in WholePins : [q EXCEPT !.tree = None] \in Pins
  BY DEF WholePins, Pinned, PinnedOnce, Pins
<1>2. \A u \in Urls : entry[u] \in Pins /\ (entry[u] # None => entry[u] \in WholePins)
  BY DEF Pins
<1>3. None \in Pins
  BY DEF Pins
<1>4. CASE p = NoPins
  BY <1>3, <1>4 DEF NoPins
<1>5. CASE p # NoPins
  <2>1. PICK n \in Urls :
          p = [u \in Urls |-> IF u < n \/ entry[u] = None THEN entry[u]
                 ELSE IF u = n THEN [entry[u] EXCEPT !.tree = None] ELSE None]
    BY <1>5 DEF CutShort
  <2> QED BY <1>1, <1>2, <1>3, <2>1
<1> QED BY <1>4, <1>5

LockStep(c) == LockKept(c) \/ LockTruncate(c) \/ LockWrite(c) \/ LockWriteFails(c)

LEMMA LockMoves ==
  ASSUME RemoteTypeOK, NEW c \in Commands, LockStep(c)
  PROVE  /\ Moved(c, IF LockTruncate(c) THEN "write" ELSE "load", cmd[c].todo)
         /\ UNCHANGED <<world, stores, tree>>
         /\ Open(c) = {} /\ cmd[c].at \in {"resolve", "write"}
<1>1. {"write", "load"} \subseteq CommandPhases
  BY DEF CommandPhases, After
<1>2. UNCHANGED <<world, stores, tree>>
  BY DEF LockStep, LockKept, LockTruncate, LockWrite, LockWriteFails
<1>3. Open(c) = {} /\ cmd[c].at \in {"resolve", "write"}
  BY DEF LockStep, LockKept, LockTruncate, LockWrite, LockWriteFails, Resolved, Writing, At,
     Open, Fetching
<1>4. CASE LockTruncate(c)
  <2>1. Moved(c, "write", cmd[c].todo)
    BY <1>1, <1>4, AtSteps DEF LockTruncate
  <2> QED BY <1>2, <1>3, <1>4, <2>1
<1>5. CASE ~LockTruncate(c)
  <2>1. cmd' = [cmd EXCEPT ![c].at = "load"]
    BY <1>5 DEF LockStep, LockKept, LockWrite, LockWriteFails
  <2>2. Moved(c, "load", cmd[c].todo)
    BY <1>1, <2>1, AtSteps
  <2> QED BY <1>2, <1>3, <1>5, <2>2
<1> QED BY <1>4, <1>5

LEMMA LockOurs ==
  ASSUME Ours, NEW c \in Commands, LockStep(c)
  PROVE  Ours'
<1>1. RemoteTypeOK /\ Progress(c)
  BY DEF Ours
<1> DEFINE where == IF LockTruncate(c) THEN "write" ELSE "load"
<1>2. /\ Moved(c, where, cmd[c].todo)
      /\ UNCHANGED <<world, stores, tree>>
      /\ Open(c) = {} /\ cmd[c].at \in {"resolve", "write"}
  BY <1>1, LockMoves
<1>3. cmd[c].entry \in [Urls -> {None} \cup WholePins]
  BY <1>1 DEF RemoteTypeOK, CommandsOK, CommandOK, Command
<1>4. \A u \in Urls : cmd[c].entry[u] # None => cmd[c].entry[u].sha \in Artifacts
  BY <1>3, NoneApart
<1>5. past'.removing = past.removing /\ past' \in Pasts
  <2>1. past \in Pasts
    BY <1>1 DEF RemoteTypeOK, Pasts
  <2>2. CASE LockKept(c)
    BY <2>1, <2>2 DEF Pasts, LockKept, Regenerates
  <2>3. CASE LockTruncate(c)
    BY <2>1, <2>3 DEF Pasts, LockTruncate
  <2>4. CASE LockWrite(c)
    <3> DEFINE firsts == [u \in Urls |-> IF u \notin cmd[c].units THEN None
                            ELSE IF past.first[u] # None \/ cmd[c].entry[u] = None THEN past.first[u]
                            ELSE cmd[c].entry[u].sha]
    <3>1. past' = [past EXCEPT !.first = firsts, !.vendored = @ \cap cmd[c].units]
      BY <2>4 DEF LockWrite
    <3>2. firsts \in [Urls -> {None} \cup Artifacts]
      BY <1>4, <2>1 DEF Pasts
    <3> HIDE DEF firsts
    <3> QED BY <2>1, <3>1, <3>2 DEF Pasts
  <2>5. CASE LockWriteFails(c)
    BY <2>1, <2>5 DEF Pasts, LockWriteFails
  <2> QED BY <2>2, <2>3, <2>4, <2>5 DEF LockStep
<1>6. pins' \in [Urls -> Pins]
  <2>1. NoPins \in [Urls -> Pins] /\ cmd[c].entry \in [Urls -> Pins]
    BY <1>3 DEF NoPins, Pins
  <2>2. LockKept(c) => pins' = pins
    BY DEF LockKept
  <2>3. LockTruncate(c) => pins' = NoPins
    BY DEF LockTruncate
  <2>4. LockWrite(c) => pins' = cmd[c].entry
    BY DEF LockWrite
  <2>5. LockWriteFails(c) => pins' \in [Urls -> Pins]
    BY <1>3, CutPins DEF LockWriteFails
  <2> QED BY <1>1, <2>1, <2>2, <2>3, <2>4, <2>5 DEF LockStep, RemoteTypeOK
<1>7. where \in {"write", "load"}
  OBVIOUS
<1>8. where = "write" => cmd[c].kind # "frozen" /\ ~cmd[c].failed
  BY DEF LockTruncate, Regenerates
<1> HIDE DEF where
<1>9. RemoteTypeOK'
  BY <1>1, <1>2, <1>5, <1>6 DEF RemoteTypeOK, Moved, Pasts, world, stores, tree
<1>10. Progress(c)'
  BY <1>1, <1>2, <1>7, <1>8 DEF Moved, SameRun, SameFinds, Progress, At, InVendor, Open,
     Handling, Fetching, Vendoring
<1> QED BY <1>2, <1>5, <1>7, <1>9, <1>10, PlainOurs DEF Moved, Vendoring

(* What a command that is not dropped has found for its imports.           *)
LEMMA FoundUnits ==
  ASSUME Ours, NEW c \in Commands, ~cmd[c].failed, NEW u \in cmd[c].units \ Open(c)
  PROVE  /\ u \in Urls /\ cmd[c].entry[u] \in WholePins
         /\ cmd[c].entry[u].sha \in Artifacts
         /\ cmd[c].entry[u].tree = Full(cmd[c].entry[u].sha)
         /\ Full(cmd[c].entry[u].sha) \in UnitDirs \ {None}
<1>1. u \in Urls /\ cmd[c].entry \in [Urls -> {None} \cup WholePins]
  BY DEF Ours, RemoteTypeOK, CommandsOK, CommandOK, Command
<1>2. cmd[c].entry[u] # None
  BY DEF Ours, Progress
<1>3. cmd[c].entry[u] \in WholePins
  BY <1>1, <1>2
<1> QED BY <1>1, <1>3, NoneApart, DirValues

LEMMA LoadOurs ==
  ASSUME Ours, NEW c \in Commands, Load(c)
  PROVE  Ours'
<1>1. RemoteTypeOK /\ Progress(c)
  BY DEF Ours
<1>2. UNCHANGED <<world, pins, stores, tree, past>> /\ At(c, "load") /\ ~cmd[c].failed
  BY DEF Load
<1>3. CASE Finish(c)
  BY <1>1, <1>2, <1>3, EndedOurs DEF RemoteTypeOK
<1>4. CASE \E got : cmd' = [cmd EXCEPT ![c].at = "loaded", ![c].got = got]
  <2>1. PICK got : cmd' = [cmd EXCEPT ![c].at = "loaded", ![c].got = got]
    BY <1>4
  <2>2. cmd[c] \in Command(cmd[c].got)
    BY <1>1 DEF RemoteTypeOK, CommandsOK, CommandOK
  <2>3. Goes(c, "loaded", cmd[c].todo, cmd[c].artifact, cmd[c].vendored, got)
    BY <2>1, <2>2 DEF Goes, Command
  <2>4. /\ "loaded" \in CommandPhases /\ cmd[c].todo \in SUBSET Urls
        /\ cmd[c].artifact \in {None} \cup Artifacts /\ cmd[c].vendored \in BOOLEAN
    BY <2>2 DEF Command, CommandPhases, After
  <2>5. Moved(c, "loaded", cmd[c].todo)
    BY <1>1, <2>3, <2>4, MoveSteps
  <2>6. RemoteTypeOK'
    BY <1>1, <1>2, <2>5 DEF RemoteTypeOK, Moved, world, stores, tree
  <2>7. Progress(c)'
    BY <1>1, <1>2, <2>5 DEF Moved, SameRun, SameFinds, Progress, At, InVendor, Open,
       Handling, Fetching, Vendoring
  <2> QED BY <1>2, <2>5, <2>6, <2>7, PlainOurs DEF Moved, Vendoring
<1> QED
  <2> DEFINE dirs == [u \in Urls |-> CASE cmd[c].from[u] = "vendor" -> vendor[u]
                                   [] cmd[c].from[u] = "cache" -> cache[u][cmd[c].entry[u].sha]
                                   [] OTHER -> None]
  <2>1. Finish(c) \/ cmd' = [cmd EXCEPT ![c].at = "loaded", ![c].got = dirs]
    BY DEF Load
  <2> HIDE DEF dirs
  <2> QED BY <1>3, <1>4, <2>1

(* The commands that end.                                                  *)
LEMMA EndsOurs ==
  ASSUME Ours, NEW c \in Commands,
         Answer(c) \/ DropOldFails(c) \/ StrayFails(c) \/ Vendored(c) \/ Die(c)
  PROVE  Ours'
<1>1. RemoteTypeOK
  BY DEF Ours
<1>2. Finish(c) /\ UNCHANGED <<world, pins, stores, tree>>
  BY DEF Answer, DropOldFails, StrayFails, Vendored, Die
<1>3. past \in Pasts /\ cmd[c].units \in SUBSET Urls
  BY <1>1 DEF RemoteTypeOK, CommandsOK, CommandOK, Command
<1>4. past'.removing = past.removing /\ past' \in Pasts
  <2>1. CASE UNCHANGED past
    BY <1>3, <2>1
  <2>2. CASE Vendored(c)
    <3> DEFINE more == past.vendored \cup {u \in cmd[c].units : pins[u] = cmd[c].entry[u]}
    <3>1. more \in SUBSET Urls
      BY <1>3 DEF Pasts
    <3>2. past' = [past EXCEPT !.vendored = more]
      BY <2>2 DEF Vendored
    <3> HIDE DEF more
    <3> QED BY <1>3, <3>1, <3>2 DEF Pasts
  <2>3. CASE Die(c)
    BY <1>3, <2>3 DEF Pasts, Die, Writing, At
  <2> QED BY <2>1, <2>2, <2>3 DEF Answer, DropOldFails, StrayFails
<1> QED BY <1>2, <1>4, EndedOurs

LEMMA WorldOurs ==
  ASSUME Ours, NEW u \in Urls, Release(u) \/ EditImports(u)
  PROVE  Ours'
<1>1. UNCHANGED <<pins, stores, tree, cmd>> /\ past'.removing = past.removing
  BY DEF Release, EditImports, Ours, RemoteTypeOK, Pasts
<1>2. RemoteTypeOK'
  <2>1. past' \in Pasts
    <3>1. past \in Pasts
      BY DEF Ours, RemoteTypeOK
    <3> QED BY <3>1 DEF Release, EditImports, Pasts
  <2>2. imports' \subseteq Urls
    BY DEF Ours, RemoteTypeOK, Release, EditImports
  <2>3. served' \in [Urls -> Artifacts]
    BY DEF Ours, RemoteTypeOK, Release, EditImports
  <2>4. CommandsOK'
    BY <1>1 DEF Ours, RemoteTypeOK, CommandsOK
  <2> QED BY <1>1, <2>1, <2>2, <2>3, <2>4 DEF Ours, RemoteTypeOK, stores, tree
<1>3. StoresWhole'
  BY <1>1 DEF Ours, StoresWhole, stores, tree
<1>4. OneVendors'
  BY <1>1 DEF Ours, OneVendors, InVendor
<1>5. ASSUME NEW c \in Commands PROVE Progress(c)' /\ VendorProgress(c)'
  BY <1>1 DEF Ours, Progress, VendorProgress, At, InVendor, Open, Entry, Current, stores, tree
<1> QED BY <1>2, <1>3, <1>4, <1>5 DEF Ours

-----------------------------------------------------------------------------
(* The steps of write_vendor. *)

LEMMA VendorOurs ==
  ASSUME Ours, NEW c \in Commands, \A d \in Commands \ {c} : ~InVendor(d),
         RemoteTypeOK', Alone(c), UNCHANGED stores, StoresWhole', Progress(c)', VendorProgress(c)'
  PROVE  Ours'
<1>1. StagedAlone(c) /\ CacheGrows
  BY SameStores DEF Ours
<1>2. \A d \in Commands \ {c} : Progress(d)' /\ VendorProgress(d)'
  BY <1>1, OthersProgress, OthersVendor
<1>3. OneVendors'
  BY DEF OneVendors, InVendor, Alone
<1> QED BY <1>2, <1>3 DEF Ours

LEMMA VendorAlone ==
  ASSUME Ours, NEW c \in Commands, InVendor(c)
  PROVE  \A d \in Commands \ {c} : ~InVendor(d)
  BY DEF Ours, OneVendors

LEMMA VendorEnds ==
  ASSUME Ours, NEW c \in Commands, InVendor(c), Finish(c), UNCHANGED <<world, pins, stores>>,
         vendor' \in [Urls -> UnitDirs], copied' \in [Commands -> [Urls -> UnitDirs]],
         replaced' \in [Commands -> [Urls -> UnitDirs]], past' \in Pasts, StoresWhole'
  PROVE  Ours'
<1>1. RemoteTypeOK
  BY DEF Ours
<1>2. RunEnded(c)
  BY <1>1, FinishSteps
<1>3. RemoteTypeOK'
  BY <1>1, <1>2 DEF RemoteTypeOK, RunEnded, world, stores
<1>4. VendorProgress(c)'
  BY <1>2 DEF RunEnded, VendorProgress, InVendor, At, Vendoring
<1> QED BY <1>2, <1>3, <1>4, EndedProgress, VendorAlone, VendorOurs DEF RunEnded

LEMMA VendorMoves ==
  ASSUME Ours, NEW c \in Commands, NEW where \in Vendoring, NEW todo,
         Moved(c, where, todo), where # "copy" => todo # {},
         ~cmd[c].failed, cmd[c].kind = "vendor", Open(c) = {}
  PROVE  Progress(c)'
  BY DEF Ours, Moved, SameRun, SameFinds, Progress, At, InVendor, Open,
     Handling, Fetching, Vendoring

(* What is so of a command within write_vendor, and of the unit it is at.  *)
InVendorFacts(c) ==
  /\ RemoteTypeOK /\ StoresWhole /\ VendorProgress(c) /\ \A d \in Commands \ {c} : ~InVendor(d)
  /\ ~cmd[c].failed /\ cmd[c].kind = "vendor" /\ Open(c) = {}
  /\ cmd[c].todo \in SUBSET Urls /\ cmd[c].units \in SUBSET Urls
  /\ vendor \in [Urls -> UnitDirs] /\ past \in Pasts
  /\ copied \in [Commands -> [Urls -> UnitDirs]] /\ replaced \in [Commands -> [Urls -> UnitDirs]]
  /\ cmd[c].todo # {} => Current(c) \in cmd[c].todo /\ Current(c) \in Urls
  /\ \A u \in cmd[c].units :
       /\ cmd[c].entry[u].sha \in Artifacts
       /\ cmd[c].entry[u].tree = Full(cmd[c].entry[u].sha)
       /\ Full(cmd[c].entry[u].sha) \in UnitDirs \ {None}

LEMMA WithinVendor ==
  ASSUME Ours, NEW c \in Commands, InVendor(c)
  PROVE  InVendorFacts(c)
<1>1. RemoteTypeOK /\ StoresWhole /\ VendorProgress(c) /\ Progress(c)
  BY DEF Ours
<1>2. ~cmd[c].failed /\ cmd[c].kind = "vendor" /\ Open(c) = {}
  BY <1>1 DEF Progress, InVendor, Vendoring, Open, At, Fetching
<1>3. cmd[c].todo # {} => Current(c) \in cmd[c].todo /\ Current(c) \in Urls
  BY <1>1, CurrentOpen
<1>4. \A u \in cmd[c].units :
       /\ cmd[c].entry[u].sha \in Artifacts
       /\ cmd[c].entry[u].tree = Full(cmd[c].entry[u].sha)
       /\ Full(cmd[c].entry[u].sha) \in UnitDirs \ {None}
  BY <1>2, FoundUnits
<1>5. /\ cmd[c].todo \in SUBSET Urls /\ cmd[c].units \in SUBSET Urls
      /\ vendor \in [Urls -> UnitDirs] /\ past \in Pasts
      /\ copied \in [Commands -> [Urls -> UnitDirs]] /\ replaced \in [Commands -> [Urls -> UnitDirs]]
  BY <1>1 DEF RemoteTypeOK, CommandsOK, CommandOK, Command
<1> QED BY <1>1, <1>2, <1>3, <1>4, <1>5, VendorAlone DEF InVendorFacts

LEMMA AtHandled ==
  ASSUME Ours, NEW c \in Commands, cmd[c].at \in Handling \ Fetching
  PROVE  InVendor(c) /\ cmd[c].todo # {}
  BY DEF Ours, Progress, InVendor, Handling, Vendoring, Fetching

LEMMA ClearOurs ==
  ASSUME Ours, NEW c \in Commands, ClearLeftovers(c)
  PROVE  Ours'
<1>1. RemoteTypeOK /\ StoresWhole /\ Progress(c)
  BY DEF Ours
<1>2. /\ \A d \in Commands : ~InVendor(d)
      /\ UNCHANGED <<world, pins, stores, vendor, past>>
      /\ cmd[c].at = "loaded" /\ cmd[c].kind = "vendor"
      /\ cmd' = [cmd EXCEPT ![c].at = "copy", ![c].todo = cmd[c].units]
  BY DEF ClearLeftovers, At
<1>3. cmd[c].units \in SUBSET Urls /\ "copy" \in CommandPhases
  BY <1>1 DEF RemoteTypeOK, CommandsOK, CommandOK, Command, CommandPhases, After, Vendoring
<1>4. Moved(c, "copy", cmd[c].units)
  BY <1>1, <1>2, <1>3, TodoSteps
<1>5. copied' \in [Commands -> [Urls -> UnitDirs]] /\ replaced' \in [Commands -> [Urls -> UnitDirs]]
  BY DirValues DEF ClearLeftovers, NoPins
<1>6. RemoteTypeOK'
  BY <1>1, <1>2, <1>4, <1>5 DEF RemoteTypeOK, Moved, world, stores
<1>7. StoresWhole'
  BY <1>1, <1>2 DEF StoresWhole, stores
<1>8. Progress(c)'
  <2>1. ~cmd[c].failed /\ Open(c) = {}
    BY <1>1, <1>2 DEF Progress, Open, At, Fetching
  <2> QED BY <1>2, <1>4, <2>1, VendorMoves DEF Vendoring
<1>9. VendorProgress(c)'
  BY <1>4 DEF Moved, SameRun, VendorProgress, At, InVendor, Vendoring
<1> QED BY <1>2, <1>4, <1>6, <1>7, <1>8, <1>9, VendorOurs DEF Moved

(* The unit that a command is at is copied, or is already there.           *)
LEMMA CopyNextMoves ==
  ASSUME RemoteTypeOK, NEW c \in Commands, NEW where \in {"copy"}, CopyNext(c, where)
  PROVE  Moved(c, "copy", cmd[c].todo \ {Current(c)})
<1>1. cmd[c].todo \ {Current(c)} \in SUBSET Urls /\ "copy" \in CommandPhases
  BY DEF RemoteTypeOK, CommandsOK, CommandOK, Command, CommandPhases, After, Vendoring
<1>2. cmd' = [cmd EXCEPT ![c].at = "copy", ![c].todo = cmd[c].todo \ {Current(c)}]
  BY DEF CopyNext
<1> QED BY <1>1, <1>2, TodoSteps

LEMMA LeaveOurs ==
  ASSUME Ours, NEW c \in Commands, LeaveAsIs(c)
  PROVE  Ours'
<1>1. InVendor(c) /\ cmd[c].at = "copy" /\ cmd[c].todo # {}
  BY DEF LeaveAsIs, Copying, At, InVendor
<1>2. InVendorFacts(c) /\ RemoteTypeOK
  BY <1>1, WithinVendor DEF Ours
<1>3. UNCHANGED <<world, pins, stores, tree, past>> /\ UpToDate(c, Current(c))
  BY DEF LeaveAsIs
<1>4. Moved(c, "copy", cmd[c].todo \ {Current(c)})
  BY <1>2, CopyNextMoves DEF LeaveAsIs
<1>5. RemoteTypeOK'
  BY <1>2, <1>3, <1>4 DEF RemoteTypeOK, Moved, world, stores, tree
<1>6. StoresWhole'
  BY <1>2, <1>3 DEF InVendorFacts, StoresWhole, stores, tree
<1>7. Progress(c)'
  BY <1>2, <1>4, VendorMoves DEF InVendorFacts, Vendoring
<1>8. VendorProgress(c)'
  BY <1>1, <1>2, <1>3, <1>4 DEF Moved, SameRun, SameFinds, InVendorFacts, VendorProgress, At,
     InVendor, Vendoring, UpToDate, tree
<1> QED BY <1>2, <1>3, <1>4, <1>5, <1>6, <1>7, <1>8, VendorOurs DEF Moved, InVendorFacts

LEMMA VendorSteps ==
  ASSUME Ours, NEW c \in Commands, InVendorFacts(c), NEW where \in Vendoring, NEW todo,
         Moved(c, where, todo), where # "copy" => todo # {},
         UNCHANGED <<world, pins, stores>>,
         vendor' \in [Urls -> UnitDirs], copied' \in [Commands -> [Urls -> UnitDirs]],
         replaced' \in [Commands -> [Urls -> UnitDirs]], past' \in Pasts,
         StoresWhole', VendorProgress(c)'
  PROVE  Ours'
<1>1. RemoteTypeOK'
  BY DEF Ours, RemoteTypeOK, Moved, world, stores
<1>2. Progress(c)'
  BY VendorMoves DEF InVendorFacts
<1> QED BY <1>1, <1>2, VendorOurs DEF Moved, InVendorFacts

(* The steps that go on with the same unit.                                *)
LEMMA SameUnit ==
  ASSUME RemoteTypeOK, NEW c \in Commands, NEW where \in Vendoring, cmd' = [cmd EXCEPT ![c].at = where]
  PROVE  Moved(c, where, cmd[c].todo) /\ Current(c)' = Current(c)
<1>1. where \in CommandPhases
  BY DEF CommandPhases, After
<1>2. Moved(c, where, cmd[c].todo)
  BY <1>1, AtSteps
<1> QED BY <1>2 DEF Moved, Current

LEMMA CopyOurs ==
  ASSUME Ours, NEW c \in Commands, Copy(c)
  PROVE  Ours'
<1>1. InVendor(c) /\ cmd[c].at = "copy" /\ cmd[c].todo # {}
  BY DEF Copy, Copying, At, InVendor
<1>2. InVendorFacts(c) /\ RemoteTypeOK
  BY <1>1, WithinVendor DEF Ours
<1> DEFINE u == Current(c)
<1>3. /\ UNCHANGED <<world, pins, stores, vendor, replaced, past>> /\ ~UpToDate(c, u)
      /\ copied' = [copied EXCEPT ![c][u] = Part(cmd[c].entry[u].sha)]
  BY DEF Copy
<1>4. Moved(c, "check", cmd[c].todo) /\ Current(c)' = u
  BY <1>2, SameUnit DEF Copy, Vendoring
<1>5. u \in cmd[c].units
  BY <1>1, <1>2 DEF InVendorFacts, VendorProgress, Vendoring
<1>6. copied' \in [Commands -> [Urls -> UnitDirs]]
  BY <1>2, <1>3, <1>5, DirValues DEF InVendorFacts
<1>7. StoresWhole'
  BY <1>2, <1>3 DEF InVendorFacts, StoresWhole, stores
<1>8. VendorProgress(c)'
  BY <1>1, <1>2, <1>3, <1>4 DEF Moved, SameRun, SameFinds, InVendorFacts, VendorProgress, At,
     InVendor, Vendoring, UpToDate
<1> QED BY <1>1, <1>2, <1>3, <1>4, <1>6, <1>7, <1>8, VendorSteps DEF Vendoring, InVendorFacts

LEMMA CopyCheckedOurs ==
  ASSUME Ours, NEW c \in Commands, CopyChecked(c)
  PROVE  Ours'
<1>1. InVendor(c) /\ cmd[c].at = "check" /\ cmd[c].todo # {}
  BY AtHandled DEF CopyChecked, At, Handling, Vendoring, Fetching
<1>2. InVendorFacts(c) /\ RemoteTypeOK
  BY <1>1, WithinVendor DEF Ours
<1> DEFINE u == Current(c)
           dir == cmd[c].entry[u].tree
           where == IF vendor[u] = None THEN "install" ELSE "swap"
<1>3. /\ UNCHANGED <<world, pins, stores, vendor, replaced, past>>
      /\ copied' = [copied EXCEPT ![c][u] = dir]
      /\ cmd' = [cmd EXCEPT ![c].at = where]
  BY DEF CopyChecked
<1>4. where \in {"install", "swap"}
  OBVIOUS
<1>5. u \in cmd[c].units /\ u \in Urls
  BY <1>1, <1>2 DEF InVendorFacts, VendorProgress, Vendoring
<1>6. dir \in UnitDirs /\ vendor[u] # dir
  BY <1>1, <1>2, <1>5 DEF InVendorFacts, VendorProgress
<1> HIDE DEF where
<1>7. Moved(c, where, cmd[c].todo) /\ Current(c)' = u
  BY <1>2, <1>3, <1>4, SameUnit DEF Vendoring
<1>8. copied' \in [Commands -> [Urls -> UnitDirs]] /\ copied'[c][u] = dir
  BY <1>2, <1>3, <1>5, <1>6 DEF InVendorFacts
<1>9. StoresWhole'
  BY <1>2, <1>3 DEF InVendorFacts, StoresWhole, stores
<1>10. VendorProgress(c)'
  BY <1>1, <1>2, <1>3, <1>4, <1>6, <1>7, <1>8 DEF Moved, SameRun, SameFinds, InVendorFacts,
     VendorProgress, At, InVendor, Vendoring
<1>11. where \in Vendoring /\ (where # "copy" => cmd[c].todo # {})
  BY <1>1, <1>4 DEF Vendoring
<1>12. vendor' \in [Urls -> UnitDirs] /\ replaced' \in [Commands -> [Urls -> UnitDirs]] /\ past' \in Pasts
  BY <1>2, <1>3 DEF InVendorFacts
<1> QED BY <1>2, <1>3, <1>7, <1>8, <1>9, <1>10, <1>11, <1>12, VendorSteps

LEMMA CopyFailsOurs ==
  ASSUME Ours, NEW c \in Commands, CopyFails(c)
  PROVE  Ours'
<1>1. InVendor(c) /\ cmd[c].todo # {}
  BY AtHandled DEF CopyFails, At, Handling, Vendoring, Fetching
<1>2. InVendorFacts(c)
  BY <1>1, WithinVendor
<1>3. Finish(c) /\ UNCHANGED <<world, pins, stores, vendor, replaced, past>>
  BY DEF CopyFails
<1>4. copied' \in [Commands -> [Urls -> UnitDirs]]
  <2>1. copied' \in {copied, [copied EXCEPT ![c][Current(c)] = None]}
    BY DEF CopyFails
  <2>2. copied \in [Commands -> [Urls -> UnitDirs]]
    BY <1>2 DEF InVendorFacts
  <2> QED BY <2>1, <2>2, DirValues
<1>5. StoresWhole'
  BY <1>2, <1>3 DEF InVendorFacts, StoresWhole, stores
<1> QED BY <1>1, <1>2, <1>3, <1>4, <1>5, VendorEnds DEF InVendorFacts

LEMMA SwapOutOurs ==
  ASSUME Ours, NEW c \in Commands, SwapOut(c)
  PROVE  Ours'
<1>1. InVendor(c) /\ cmd[c].at = "swap" /\ cmd[c].todo # {}
  BY AtHandled DEF SwapOut, At, Handling, Vendoring, Fetching
<1>2. InVendorFacts(c) /\ RemoteTypeOK
  BY <1>1, WithinVendor DEF Ours
<1> DEFINE u == Current(c)
<1>3. /\ UNCHANGED <<world, pins, stores, copied>>
      /\ replaced' = [replaced EXCEPT ![c][u] = vendor[u]]
      /\ vendor' = [vendor EXCEPT ![u] = None]
      /\ past' = [past EXCEPT !.removing = @ \ {u}]
      /\ cmd' = [cmd EXCEPT ![c].at = "install"]
  BY DEF SwapOut
<1>4. Moved(c, "install", cmd[c].todo) /\ Current(c)' = u
  BY <1>2, <1>3, SameUnit DEF Vendoring
<1>5. u \in cmd[c].units /\ u \in Urls /\ u \in cmd[c].todo
  BY <1>1, <1>2 DEF InVendorFacts, VendorProgress, Vendoring
<1>6. /\ vendor' \in [Urls -> UnitDirs] /\ vendor'[u] = None
      /\ \A v \in Urls \ {u} : vendor'[v] = vendor[v]
      /\ replaced' \in [Commands -> [Urls -> UnitDirs]]
  BY <1>2, <1>3, <1>5, DirValues DEF InVendorFacts
<1>7. past' \in Pasts /\ past'.removing = past.removing \ {u}
  BY <1>2, <1>3 DEF InVendorFacts, Pasts
<1>8. StoresWhole'
  BY <1>2, <1>3, <1>6, <1>7 DEF InVendorFacts, StoresWhole, stores
<1>9. cmd[c].entry[u].tree # None
  BY <1>2, <1>5 DEF InVendorFacts
<1>10. VendorProgress(c)'
  BY <1>1, <1>2, <1>3, <1>4, <1>5, <1>6, <1>9 DEF Moved, SameRun, SameFinds, InVendorFacts,
     VendorProgress, At, InVendor, Vendoring
<1> QED BY <1>1, <1>2, <1>3, <1>4, <1>6, <1>7, <1>8, <1>10, VendorSteps DEF Vendoring, InVendorFacts

LEMMA SwapInOurs ==
  ASSUME Ours, NEW c \in Commands, SwapIn(c)
  PROVE  Ours'
<1>1. InVendor(c) /\ cmd[c].at = "install" /\ cmd[c].todo # {}
  BY AtHandled DEF SwapIn, At, Handling, Vendoring, Fetching
<1>2. InVendorFacts(c) /\ RemoteTypeOK
  BY <1>1, WithinVendor DEF Ours
<1> DEFINE u == Current(c)
           dir == cmd[c].entry[u].tree
<1>3. u \in cmd[c].units /\ u \in Urls /\ u \in cmd[c].todo
  BY <1>1, <1>2 DEF InVendorFacts, VendorProgress, Vendoring
<1>4. /\ UNCHANGED <<world, pins, stores, replaced, past>>
      /\ vendor' = [vendor EXCEPT ![u] = copied[c][u]]
      /\ copied' = [copied EXCEPT ![c][u] = None]
  BY DEF SwapIn
<1>5. copied[c][u] = dir /\ dir \in UnitDirs /\ dir.whole
  <2>1. copied[c][u] = dir
    BY <1>1, <1>2 DEF InVendorFacts, VendorProgress
  <2>2. dir = Full(cmd[c].entry[u].sha) /\ dir \in UnitDirs
    BY <1>2, <1>3 DEF InVendorFacts
  <2> QED BY <2>1, <2>2 DEF Full
<1>6. /\ vendor' \in [Urls -> UnitDirs] /\ vendor'[u] = dir
      /\ \A v \in Urls \ {u} : vendor'[v] = vendor[v]
      /\ copied' \in [Commands -> [Urls -> UnitDirs]]
  BY <1>2, <1>3, <1>4, <1>5, DirValues DEF InVendorFacts
<1>7. StoresWhole'
  BY <1>2, <1>4, <1>5, <1>6 DEF InVendorFacts, StoresWhole, stores
<1>8. replaced' \in [Commands -> [Urls -> UnitDirs]] /\ past' \in Pasts
  BY <1>2, <1>4 DEF InVendorFacts
<1>9. CASE CopyNext(c, "copy")
  <2>1. Moved(c, "copy", cmd[c].todo \ {u})
    BY <1>2, <1>9, CopyNextMoves
  <2>2. VendorProgress(c)'
    BY <1>1, <1>2, <1>3, <1>6, <2>1 DEF Moved, SameRun, SameFinds, InVendorFacts,
       VendorProgress, At, InVendor, Vendoring
  <2> QED BY <1>2, <1>4, <1>6, <1>7, <1>8, <2>1, <2>2, VendorSteps DEF Vendoring
<1>10. CASE cmd' = [cmd EXCEPT ![c].at = "drop"]
  <2>1. Moved(c, "drop", cmd[c].todo) /\ Current(c)' = u
    BY <1>2, <1>10, SameUnit DEF Vendoring
  <2>2. VendorProgress(c)'
    BY <1>1, <1>2, <1>3, <1>6, <2>1 DEF Moved, SameRun, SameFinds, InVendorFacts,
       VendorProgress, At, InVendor, Vendoring
  <2> QED BY <1>1, <1>2, <1>4, <1>6, <1>7, <1>8, <2>1, <2>2, VendorSteps DEF Vendoring
<1> QED BY <1>9, <1>10 DEF SwapIn

LEMMA TreeUpdate ==
  ASSUME NEW c \in Commands, NEW u \in Urls, NEW dir \in UnitDirs,
         NEW f \in [Commands -> [Urls -> UnitDirs]], NEW g \in {f, [f EXCEPT ![c][u] = dir]}
  PROVE  g \in [Commands -> [Urls -> UnitDirs]]
  OBVIOUS

LEMMA SwapFailsOurs ==
  ASSUME Ours, NEW c \in Commands, SwapFails(c)
  PROVE  Ours'
<1>1. InVendor(c) /\ cmd[c].todo # {}
  BY AtHandled DEF SwapFails, At, Handling, Vendoring, Fetching
<1>2. InVendorFacts(c)
  BY <1>1, WithinVendor
<1> DEFINE u == Current(c)
<1>3. Finish(c) /\ UNCHANGED <<world, pins, stores>> /\ u \in Urls
  BY <1>1, <1>2 DEF SwapFails, InVendorFacts
<1>4. copied \in [Commands -> [Urls -> UnitDirs]] /\ replaced \in [Commands -> [Urls -> UnitDirs]]
      /\ vendor \in [Urls -> UnitDirs] /\ past \in Pasts /\ StoresWhole
  BY <1>2 DEF InVendorFacts
<1>5. CASE UNCHANGED <<tree, past>>
  <2>1. StoresWhole'
    BY <1>3, <1>4, <1>5 DEF StoresWhole, stores, tree
  <2> QED BY <1>1, <1>3, <1>4, <1>5, <2>1, VendorEnds DEF tree
<1>6. CASE /\ replaced[c][u] # None
           /\ copied' \in {copied, [copied EXCEPT ![c][u] = None]}
           /\ UNCHANGED <<vendor, replaced, past>>
  <2>1. StoresWhole'
    BY <1>3, <1>4, <1>6 DEF StoresWhole, stores
  <2>2. copied' \in [Commands -> [Urls -> UnitDirs]]
    <3> HIDE DEF u
    <3> QED BY <1>3, <1>4, <1>6, DirValues, TreeUpdate, ZenonT(30)
  <2> QED BY <1>1, <1>3, <1>4, <1>6, <2>1, <2>2, VendorEnds
<1>7. CASE /\ replaced[c][u] # None
           /\ copied' \in {copied, [copied EXCEPT ![c][u] = None]}
           /\ vendor' = [vendor EXCEPT ![u] = replaced[c][u]]
           /\ replaced' = [replaced EXCEPT ![c][u] = None]
           /\ past' = [past EXCEPT !.removing = IF vendor'[u].whole THEN @ ELSE @ \cup {u}]
  <2>1. /\ copied' \in [Commands -> [Urls -> UnitDirs]]
        /\ vendor' \in [Urls -> UnitDirs] /\ \A v \in Urls \ {u} : vendor'[v] = vendor[v]
        /\ replaced' \in [Commands -> [Urls -> UnitDirs]]
    <3> HIDE DEF u
    <3>1. copied' \in [Commands -> [Urls -> UnitDirs]]
      BY <1>3, <1>4, <1>7, DirValues, TreeUpdate, ZenonT(30)
    <3>2. replaced' \in [Commands -> [Urls -> UnitDirs]]
      BY <1>3, <1>4, <1>7, DirValues, TreeUpdate
    <3>3. replaced[c][u] \in UnitDirs
      BY <1>3, <1>4
    <3>4. vendor' \in [Urls -> UnitDirs] /\ \A v \in Urls \ {u} : vendor'[v] = vendor[v]
      BY <1>3, <1>4, <1>7, <3>3
    <3> QED BY <3>1, <3>2, <3>4
  <2>2. /\ past' \in Pasts /\ past.removing \subseteq past'.removing
        /\ vendor'[u].whole \/ u \in past'.removing
    <3> DEFINE whole == vendor'[u].whole
    <3>1. past' = [past EXCEPT !.removing = IF whole THEN @ ELSE @ \cup {u}]
      BY <1>7
    <3> HIDE DEF whole
    <3>2. /\ past' \in Pasts /\ past.removing \subseteq past'.removing
          /\ whole \/ u \in past'.removing
      BY <1>3, <1>4, <3>1 DEF Pasts
    <3> QED BY <3>2 DEF whole
  <2>3. StoresWhole'
    <3>1. ASSUME NEW v \in Urls, vendor'[v] # None
          PROVE  vendor'[v].whole \/ v \in past'.removing
      <4>1. CASE v = u
        BY <2>2, <4>1
      <4>2. CASE v # u
        BY <1>4, <2>1, <2>2, <3>1, <4>2 DEF StoresWhole
      <4> QED BY <4>1, <4>2
    <3> QED BY <1>3, <1>4, <3>1 DEF StoresWhole, stores
  <2> QED BY <1>1, <1>3, <2>1, <2>2, <2>3, VendorEnds
<1> QED BY <1>5, <1>6, <1>7 DEF SwapFails

LEMMA DropOldOurs ==
  ASSUME Ours, NEW c \in Commands, DropOld(c)
  PROVE  Ours'
<1>1. InVendor(c) /\ cmd[c].at = "drop" /\ cmd[c].todo # {}
  BY AtHandled DEF DropOld, At, Handling, Vendoring, Fetching
<1>2. InVendorFacts(c) /\ RemoteTypeOK
  BY <1>1, WithinVendor DEF Ours
<1> DEFINE u == Current(c)
<1>3. /\ UNCHANGED <<world, pins, stores, vendor, copied, past>>
      /\ replaced' = [replaced EXCEPT ![c][u] = None]
  BY DEF DropOld
<1>4. Moved(c, "copy", cmd[c].todo \ {u})
  BY <1>2, CopyNextMoves DEF DropOld
<1>5. replaced' \in [Commands -> [Urls -> UnitDirs]]
  BY <1>2, <1>3, DirValues DEF InVendorFacts
<1>6. StoresWhole'
  BY <1>2, <1>3 DEF InVendorFacts, StoresWhole, stores
<1>7. VendorProgress(c)'
  BY <1>1, <1>2, <1>3, <1>4 DEF Moved, SameRun, SameFinds, InVendorFacts,
     VendorProgress, At, InVendor, Vendoring
<1> QED BY <1>2, <1>3, <1>4, <1>5, <1>6, <1>7, VendorSteps DEF Vendoring, InVendorFacts

LEMMA RemoveStrayOurs ==
  ASSUME Ours, NEW c \in Commands, RemoveStray(c)
  PROVE  Ours'
<1>1. InVendor(c) /\ cmd[c].at = "copy" /\ cmd[c].todo = {}
  BY DEF RemoveStray, At, InVendor
<1>2. InVendorFacts(c) /\ RemoteTypeOK
  BY <1>1, WithinVendor DEF Ours
<1>3. PICK u \in Strays(c) :
        /\ cmd' = [cmd EXCEPT ![c].at = "stray", ![c].todo = {u}]
        /\ vendor' = [vendor EXCEPT ![u].whole = FALSE]
        /\ past' = [past EXCEPT !.removing = @ \cup {u}, !.vendored = @ \ {u}]
  BY DEF RemoveStray
<1>4. UNCHANGED <<world, pins, stores, copied, replaced>>
  BY DEF RemoveStray
<1>5. u \in Urls /\ u \notin cmd[c].units /\ vendor[u] # None
  BY <1>3 DEF Strays
<1>6. Moved(c, "stray", {u})
  <2>1. {u} \in SUBSET Urls /\ "stray" \in CommandPhases
    BY <1>5 DEF CommandPhases, After, Vendoring
  <2> QED BY <1>2, <1>3, <2>1, TodoSteps
<1>7. [vendor[u] EXCEPT !.whole = FALSE] \in UnitDirs
  <2>1. vendor[u] \in UnitDirs
    BY <1>2, <1>5 DEF InVendorFacts
  <2> DEFINE S == [of : Artifacts, whole : BOOLEAN]
  <2>2. vendor[u] \in S
    <3>1. \A a \in Artifacts : Full(a) \in S /\ Part(a) \in S
      BY DEF Full, Part
    <3> HIDE DEF S
    <3> QED BY <1>5, <2>1, <3>1 DEF UnitDirs
  <2>3. [vendor[u] EXCEPT !.whole = FALSE] \in S
    BY <2>2
  <2>4. \A r \in S : r = Full(r.of) \/ r = Part(r.of)
    BY DEF Full, Part
  <2>5. \A r \in S : r \in UnitDirs
    BY <2>4, DirValues
  <2> QED BY <2>3, <2>5
<1>8. vendor' \in [Urls -> UnitDirs] /\ \A v \in Urls \ {u} : vendor'[v] = vendor[v]
  <2>1. vendor' = [vendor EXCEPT ![u] = [vendor[u] EXCEPT !.whole = FALSE]]
    BY <1>3
  <2> QED BY <1>2, <1>5, <1>7, <2>1 DEF InVendorFacts
<1>9. past' \in Pasts /\ past'.removing = past.removing \cup {u}
  BY <1>2, <1>3, <1>5 DEF InVendorFacts, Pasts
<1>10. StoresWhole'
  BY <1>2, <1>4, <1>8, <1>9 DEF InVendorFacts, StoresWhole, stores
<1>12. Current(c)' = u
  <2>1. {u} \in SUBSET Nat
    BY <1>5, RemoteAssumption
  <2> QED BY <1>6, <2>1, FirstOfUnits DEF Moved, Current
<1>13. ~vendor'[u].whole
  <2>1. vendor[u] \in [of : Artifacts, whole : BOOLEAN]
    <3> DEFINE S == [of : Artifacts, whole : BOOLEAN]
    <3>1. \A a \in Artifacts : Full(a) \in S /\ Part(a) \in S
      BY DEF Full, Part
    <3> HIDE DEF S
    <3>2. vendor[u] \in S
      BY <1>2, <1>5, <3>1 DEF InVendorFacts, UnitDirs
    <3> QED BY <3>2 DEF S
  <2>2. vendor' = [vendor EXCEPT ![u] = [vendor[u] EXCEPT !.whole = FALSE]]
    BY <1>3
  <2>3. vendor'[u] = [vendor[u] EXCEPT !.whole = FALSE]
    BY <1>2, <1>5, <2>2 DEF InVendorFacts
  <2> QED BY <2>1, <2>3
<1>11. VendorProgress(c)'
  BY <1>1, <1>2, <1>5, <1>6, <1>8, <1>12, <1>13 DEF Moved, SameRun, SameFinds, InVendorFacts,
     VendorProgress, At, InVendor, Vendoring
<1> QED BY <1>2, <1>4, <1>6, <1>8, <1>9, <1>10, <1>11, VendorSteps DEF Vendoring, InVendorFacts

LEMMA StrayRemovedOurs ==
  ASSUME Ours, NEW c \in Commands, StrayRemoved(c)
  PROVE  Ours'
<1>1. InVendor(c) /\ cmd[c].at = "stray" /\ cmd[c].todo # {}
  BY AtHandled DEF StrayRemoved, At, Handling, Vendoring, Fetching
<1>2. InVendorFacts(c) /\ RemoteTypeOK
  BY <1>1, WithinVendor DEF Ours
<1> DEFINE u == Current(c)
<1>3. /\ UNCHANGED <<world, pins, stores, copied, replaced>>
      /\ vendor' = [vendor EXCEPT ![u] = None]
      /\ past' = [past EXCEPT !.removing = @ \ {u}]
  BY DEF StrayRemoved
<1>4. u \in cmd[c].todo /\ u \in Urls
  BY <1>1, <1>2 DEF InVendorFacts
<1>5. Moved(c, "copy", cmd[c].todo \ {u})
  BY <1>2, CopyNextMoves DEF StrayRemoved
<1>6. /\ vendor' \in [Urls -> UnitDirs] /\ vendor'[u] = None
      /\ \A v \in Urls \ {u} : vendor'[v] = vendor[v]
  BY <1>2, <1>3, <1>4, DirValues DEF InVendorFacts
<1>7. past' \in Pasts /\ past'.removing = past.removing \ {u}
  BY <1>2, <1>3 DEF InVendorFacts, Pasts
<1>8. StoresWhole'
  BY <1>2, <1>3, <1>6, <1>7 DEF InVendorFacts, StoresWhole, stores
<1>9. VendorProgress(c)'
  BY <1>1, <1>2, <1>4, <1>5, <1>6 DEF Moved, SameRun, SameFinds, InVendorFacts,
     VendorProgress, At, InVendor, Vendoring
<1> QED BY <1>2, <1>3, <1>5, <1>6, <1>7, <1>8, <1>9, VendorSteps DEF Vendoring, InVendorFacts

LEMMA InitOurs == RemoteInit => Ours
<1> SUFFICES ASSUME RemoteInit PROVE Ours
  OBVIOUS
<1>1. /\ NoPins \in [Urls -> {None} \cup WholePins] /\ NoPins \in [Urls -> Pins]
      /\ NoPins \in [Urls -> {None, "vendor", "cache"}] /\ NoPins \in [Urls -> UnitDirs]
  BY DirValues DEF NoPins, Pins
<1>2. \A c \in Commands : cmd[c] = Idle
  BY DEF RemoteInit
<1>3. CommandOK(Idle)
  BY <1>1 DEF CommandOK, Command, Idle, CommandPhases
<1>4. CommandsOK
  BY <1>3 DEF RemoteInit, CommandsOK
<1>5. pins \in [Urls -> Pins]
  BY DEF RemoteInit, Pins, WholePins
<1>6. past \in Pasts
  <2> DEFINE firsts == [u \in Urls |-> IF pins[u] = None THEN None ELSE pins[u].sha]
  <2>1. firsts \in [Urls -> {None} \cup Artifacts]
    BY <1>5, PinValues
  <2>2. past = [first |-> firsts, vendored |-> {}, removing |-> {}, raced |-> FALSE,
                cut |-> FALSE, edited |-> FALSE]
    BY DEF RemoteInit
  <2> HIDE DEF firsts
  <2> QED BY <2>1, <2>2 DEF Pasts
<1>7. vendor \in [Urls -> {None} \cup {Full(a) : a \in Artifacts}]
  BY DEF RemoteInit
<1>8. vendor \in [Urls -> UnitDirs]
  BY <1>7 DEF UnitDirs
<1>9. RemoteTypeOK
  BY <1>1, <1>4, <1>5, <1>6, <1>8, DirValues DEF RemoteInit, RemoteTypeOK
<1>10. StoresWhole
  BY <1>7 DEF RemoteInit, StoresWhole, Full
<1>11. Idle.at = "idle" /\ Idle.units = {}
  BY DEF Idle
<1>12. ASSUME NEW c \in Commands PROVE ~InVendor(c) /\ Progress(c) /\ VendorProgress(c)
  BY <1>2, <1>11 DEF Progress, VendorProgress, InVendor, At, Handling, Fetching, Vendoring
<1>13. OneVendors
  BY <1>12 DEF OneVendors
<1> QED BY <1>9, <1>10, <1>12, <1>13 DEF Ours

LEMMA RunOurs ==
  ASSUME Ours, NEW c \in Commands, Run(c)
  PROVE  Ours'
<1>1. CASE Resolution(c)
  BY <1>1, ResolutionResolves, FindsOurs, DropsOurs, GoesOnOurs DEF Resolves
<1>2. CASE LockStep(c)
  BY <1>2, LockOurs
<1> QED
  BY <1>1, <1>2, StartOurs, LoadOurs, EndsOurs, ClearOurs, LeaveOurs, CopyOurs, CopyCheckedOurs,
     CopyFailsOurs, SwapOutOurs, SwapInOurs, SwapFailsOurs, DropOldOurs, RemoveStrayOurs,
     StrayRemovedOurs DEF Run, Resolution, LockStep

LEMMA StepOurs == Ours /\ [RemoteNext]_remoteVars => Ours'
<1> SUFFICES ASSUME Ours, [RemoteNext]_remoteVars PROVE Ours'
  OBVIOUS
<1>1. CASE RemoteNext
  BY <1>1, RunOurs, WorldOurs DEF RemoteNext
<1>2. CASE UNCHANGED remoteVars
  BY <1>2 DEF remoteVars, world, stores, tree, Ours, RemoteTypeOK, CommandsOK, StoresWhole, OneVendors,
     Progress, VendorProgress, InVendor, At, Open, Current, Entry
<1> QED BY <1>1, <1>2

(* Commands that store and vendor at once, die anywhere and clear up after *)
(* each other never leave part of a unit where it is looked for: Cache::   *)
(* store renames whole directories only, and write_vendor replaces what is *)
(* there by a copy that was checked.                                       *)
THEOREM StoresStayWhole == RemoteSpec => []StoresWhole
<1>1. Ours => StoresWhole
  BY DEF Ours
<1> QED BY <1>1, InitOurs, StepOurs, PTL DEF RemoteSpec

-----------------------------------------------------------------------------
(* The lockfile in force, from one step to the next. *)

Shrinks == \A p \in [Urls -> Pins] : InForce(p)' => InForce(p)

(* What is noted of the lockfile is never taken back.                      *)
LEMMA NotesStay ==
  ASSUME Ours, NEW c \in Commands, Run(c)
  PROVE  /\ past.raced => past'.raced
         /\ past.cut => past'.cut
         /\ past'.edited = past.edited /\ imports' = imports
         /\ ~LockWrite(c) => past'.first = past.first
<1>1. past \in Pasts
  BY DEF Ours, RemoteTypeOK
<1>2. CASE UNCHANGED <<world, past>>
  BY <1>2 DEF world
<1>3. CASE /\ UNCHANGED world
           /\ \/ StartCommand(c) \/ LockKept(c) \/ LockTruncate(c) \/ LockWrite(c) \/ LockWriteFails(c)
              \/ SwapOut(c) \/ RemoveStray(c) \/ StrayRemoved(c) \/ Vendored(c) \/ Die(c)
  BY <1>1, <1>3 DEF Pasts, world, StartCommand, LockKept, LockTruncate, LockWrite, LockWriteFails,
     SwapOut, RemoveStray, StrayRemoved, Vendored, Die
<1>4. CASE SwapFails(c)
  <2> DEFINE removing == past'.removing
  <2>1. UNCHANGED past \/ \E r : past' = [past EXCEPT !.removing = r]
    BY <1>4 DEF SwapFails
  <2>2. PICK r : UNCHANGED past \/ past' = [past EXCEPT !.removing = r]
    BY <2>1
  <2> QED BY <1>1, <1>4, <2>2 DEF Pasts, SwapFails, world
<1> QED
  <2>1. UNCHANGED world
    BY DEF Run, StartCommand, ServeVendored, CacheHit, FrozenMiss, Miss, Fetch, FetchFails, StoreHit,
       StoreStage, StoreUnpack, StoreFails, StoreRename, VerifyFetched, LockKept, LockTruncate,
       LockWrite, LockWriteFails, Load, Answer, ClearLeftovers, LeaveAsIs, Copy, CopyChecked,
       CopyFails, SwapOut, SwapIn, SwapFails, DropOld, DropOldFails, RemoveStray, StrayRemoved,
       StrayFails, Vendored, Die
  <2>2. UNCHANGED past \/ StartCommand(c) \/ LockKept(c) \/ LockTruncate(c) \/ LockWrite(c)
        \/ LockWriteFails(c) \/ SwapOut(c) \/ SwapFails(c) \/ RemoveStray(c) \/ StrayRemoved(c)
        \/ Vendored(c) \/ Die(c)
    BY DEF Run, ServeVendored, CacheHit, FrozenMiss, Miss, Fetch, FetchFails, StoreHit,
       StoreStage, StoreUnpack, StoreFails, StoreRename, VerifyFetched,
       Load, Answer, ClearLeftovers, LeaveAsIs, Copy, CopyChecked,
       CopyFails, SwapIn, DropOld, DropOldFails, StrayFails
  <2> QED BY <1>2, <1>3, <1>4, <2>1, <2>2

(* The steps that have nothing to do with the lockfile.                    *)
LEMMA NoWriter ==
  ASSUME NEW c \in Commands, Alone(c), UNCHANGED pins, ~Writing(c), cmd'[c].at # "write"
  PROVE  Shrinks /\ \A d \in Commands : Writing(d)' <=> Writing(d)
<1>1. \A d \in Commands : Writing(d)' <=> Writing(d)
  BY DEF Alone, Writing, At
<1>2. \A d \in Commands : Writing(d) => cmd'[d].lock = cmd[d].lock
  BY DEF Alone
<1> QED BY <1>1, <1>2 DEF Shrinks, InForce

(* What every step but the writing of the lockfile does to it, unless it   *)
(* is one that takes the honesty of the lockfile away.                     *)
NoWrite(c) ==
  /\ Shrinks /\ past'.first = past.first
  /\ \A d \in Commands : Writing(d)' => Writing(d) \/ (d = c /\ \A e \in Commands : ~Writing(e))

LEMMA QuietSteps ==
  ASSUME Ours, NEW c \in Commands, Run(c), ~LockStep(c), Alone(c),
         cmd'[c].at # "write", ~Writing(c)
  PROVE  NoWrite(c)
<1>1. UNCHANGED pins
  BY DEF Run, LockStep, StartCommand, ServeVendored, CacheHit, FrozenMiss, Miss, Fetch, FetchFails,
     StoreHit, StoreStage, StoreUnpack, StoreFails, StoreRename, VerifyFetched,
     Load, Answer, ClearLeftovers, LeaveAsIs, Copy, CopyChecked,
     CopyFails, SwapOut, SwapIn, SwapFails, DropOld, DropOldFails, RemoveStray, StrayRemoved,
     StrayFails, Vendored, Die
<1>2. past'.first = past.first
  BY NotesStay DEF LockStep
<1> QED BY <1>1, <1>2, NoWriter DEF NoWrite

VendorStep(c) ==
  \/ ClearLeftovers(c) \/ LeaveAsIs(c) \/ Copy(c) \/ CopyChecked(c) \/ SwapOut(c) \/ SwapIn(c)
  \/ DropOld(c) \/ RemoveStray(c) \/ StrayRemoved(c)

EndStep(c) ==
  /\ \/ Load(c) \/ Answer(c) \/ CopyFails(c) \/ SwapFails(c) \/ DropOldFails(c) \/ StrayFails(c)
     \/ Vendored(c) \/ Die(c)
  /\ Finish(c)

(* Every step is of one of these kinds.                                    *)
LEMMA StepKinds ==
  ASSUME NEW c \in Commands, Run(c)
  PROVE  \/ StartCommand(c) \/ Resolution(c) \/ LockStep(c) \/ (Load(c) /\ ~Finish(c))
         \/ VendorStep(c) \/ EndStep(c)
  BY DEF Run, Resolution, LockStep, VendorStep, EndStep, Answer, CopyFails, SwapFails, DropOldFails,
     StrayFails, Vendored, Die

LEMMA LoadMoves ==
  ASSUME RemoteTypeOK, NEW c \in Commands, Load(c), ~Finish(c)
  PROVE  Moved(c, "loaded", cmd[c].todo)
<1>1. \E got : cmd' = [cmd EXCEPT ![c].at = "loaded", ![c].got = got]
  <2> DEFINE dirs == [u \in Urls |-> CASE cmd[c].from[u] = "vendor" -> vendor[u]
                                   [] cmd[c].from[u] = "cache" -> cache[u][cmd[c].entry[u].sha]
                                   [] OTHER -> None]
  <2>1. cmd' = [cmd EXCEPT ![c].at = "loaded", ![c].got = dirs]
    BY DEF Load
  <2> HIDE DEF dirs
  <2> QED BY <2>1
<1>2. PICK got : cmd' = [cmd EXCEPT ![c].at = "loaded", ![c].got = got]
  BY <1>1
<1>3. cmd[c] \in Command(cmd[c].got)
  BY DEF RemoteTypeOK, CommandsOK, CommandOK
<1>4. Goes(c, "loaded", cmd[c].todo, cmd[c].artifact, cmd[c].vendored, got)
  BY <1>2, <1>3 DEF Goes, Command
<1>5. /\ "loaded" \in CommandPhases /\ cmd[c].todo \in SUBSET Urls
      /\ cmd[c].artifact \in {None} \cup Artifacts /\ cmd[c].vendored \in BOOLEAN
  BY <1>3 DEF Command, CommandPhases, After
<1> QED BY <1>4, <1>5, MoveSteps

LEMMA VendorStepMoves ==
  ASSUME Ours, NEW c \in Commands, VendorStep(c)
  PROVE  /\ \E where \in Vendoring : \E todo : Moved(c, where, todo)
         /\ cmd[c].at \in {"loaded"} \cup Vendoring
<1>1. cmd[c].at \in {"loaded"} \cup Vendoring
  BY DEF VendorStep, ClearLeftovers, LeaveAsIs, Copying, Copy, CopyChecked, SwapOut, SwapIn, DropOld,
     RemoveStray, StrayRemoved, At, Vendoring
<1>2. RemoteTypeOK /\ cmd[c].units \in SUBSET Urls /\ Vendoring \subseteq CommandPhases
  BY DEF Ours, RemoteTypeOK, CommandsOK, CommandOK, Command, CommandPhases, After
<1>3. CASE ClearLeftovers(c)
  <2>1. cmd' = [cmd EXCEPT ![c].at = "copy", ![c].todo = cmd[c].units]
    BY <1>3 DEF ClearLeftovers
  <2>2. Moved(c, "copy", cmd[c].units)
    BY <1>2, <2>1, TodoSteps DEF Vendoring
  <2> QED BY <1>1, <2>2 DEF Vendoring
<1>4. CASE CopyNext(c, "copy")
  <2>1. Moved(c, "copy", cmd[c].todo \ {Current(c)})
    BY <1>2, <1>4, CopyNextMoves
  <2> QED BY <1>1, <2>1 DEF Vendoring
<1>5. CASE \E where \in Vendoring : cmd' = [cmd EXCEPT ![c].at = where]
  <2>1. PICK where \in Vendoring : cmd' = [cmd EXCEPT ![c].at = where]
    BY <1>5
  <2>2. Moved(c, where, cmd[c].todo)
    BY <1>2, <2>1, SameUnit
  <2> QED BY <1>1, <2>2
<1>6. CASE RemoveStray(c)
  <2>1. PICK u \in Urls : cmd' = [cmd EXCEPT ![c].at = "stray", ![c].todo = {u}]
    BY <1>6 DEF RemoveStray, Strays
  <2>2. {u} \in SUBSET Urls /\ "stray" \in CommandPhases
    BY DEF CommandPhases, After, Vendoring
  <2>3. Moved(c, "stray", {u})
    BY <1>2, <2>1, <2>2, TodoSteps
  <2> QED BY <1>1, <2>3 DEF Vendoring
<1>7. Copy(c) => cmd' = [cmd EXCEPT ![c].at = "check"]
  BY DEF Copy
<1>8. CopyChecked(c) => \E where \in {"install", "swap"} : cmd' = [cmd EXCEPT ![c].at = where]
  BY DEF CopyChecked
<1>9. SwapOut(c) => cmd' = [cmd EXCEPT ![c].at = "install"]
  BY DEF SwapOut
<1>10. SwapIn(c) => CopyNext(c, "copy") \/ cmd' = [cmd EXCEPT ![c].at = "drop"]
  BY DEF SwapIn
<1>11. LeaveAsIs(c) \/ DropOld(c) \/ StrayRemoved(c) => CopyNext(c, "copy")
  BY DEF LeaveAsIs, DropOld, StrayRemoved
<1> QED
  BY <1>3, <1>4, <1>5, <1>6, <1>7, <1>8, <1>9, <1>10, <1>11 DEF VendorStep, Vendoring

LEMMA ForceSteps ==
  ASSUME Ours, NEW c \in Commands, Run(c), Honest'
  PROVE  Honest /\ (LockWrite(c) \/ NoWrite(c))
<1>1. RemoteTypeOK /\ past \in Pasts
  BY DEF Ours, RemoteTypeOK
<1>2. Honest
  BY NotesStay DEF Honest
<1>3. CASE LockStep(c)
  <2>1. /\ Moved(c, IF LockTruncate(c) THEN "write" ELSE "load", cmd[c].todo)
    BY <1>1, <1>3, LockMoves
  <2>2. ~LockWriteFails(c)
    BY <1>1 DEF LockWriteFails, Honest, Pasts
  <2>3. CASE LockKept(c)
    <3>1. ~LockTruncate(c) \/ LockTruncate(c)
      OBVIOUS
    <3>2. ~Writing(c) /\ cmd' = [cmd EXCEPT ![c].at = "load"] /\ UNCHANGED pins
      BY <2>3 DEF LockKept, Resolved, Writing, At
    <3>3. Moved(c, "load", cmd[c].todo)
      BY <1>1, <3>2, AtSteps DEF CommandPhases, After
    <3>4. past'.first = past.first
      BY <1>1, <2>3 DEF LockKept, Pasts
    <3> QED BY <1>2, <3>2, <3>3, <3>4, NoWriter DEF NoWrite, Moved
  <2>4. CASE LockTruncate(c)
    <3>1. /\ cmd[c].lock = pins /\ \A d \in Commands : ~Writing(d)
          /\ past'.first = past.first
      BY <1>1, <2>4 DEF LockTruncate, Honest, Pasts
    <3>2. Moved(c, "write", cmd[c].todo)
      BY <1>1, <2>4, AtSteps DEF LockTruncate, CommandPhases
    <3>3. \A d \in Commands : Writing(d)' => d = c
      BY <3>1, <3>2 DEF Moved, Alone, Writing, At
    <3>4. \A p : InForce(p)' => p = pins
      BY <3>1, <3>2, <3>3 DEF InForce, Moved, SameRun, Writing, At
    <3>5. Shrinks
      BY <3>1, <3>4 DEF Shrinks, InForce
    <3> QED BY <1>2, <3>1, <3>3, <3>5 DEF NoWrite
  <2> QED BY <1>2, <1>3, <2>2, <2>3, <2>4 DEF LockStep
<1>4. CASE StartCommand(c)
  <2>1. ~LockStep(c) /\ ~Writing(c) /\ Begun(c)
    BY <1>1, <1>4, StartSteps DEF StartCommand, LockStep, LockKept, LockTruncate, LockWrite,
       LockWriteFails, Resolved, Writing, At
  <2> QED BY <1>2, <2>1, QuietSteps DEF Begun
<1>5. CASE Resolution(c) /\ ~LockStep(c)
  <2>1. Resolves(c)
    BY <1>5, ResolutionResolves
  <2>2. ~Writing(c) /\ Alone(c) /\ cmd'[c].at # "write"
    BY <2>1 DEF Resolves, Finds, Drops, GoesOn, AtUnit, Accepted, Rejected, Settled, Moved,
       Writing, At, Fetching
  <2> QED BY <1>2, <1>5, <2>2, QuietSteps
<1>6. CASE Load(c) /\ ~Finish(c) /\ ~LockStep(c)
  <2>1. Moved(c, "loaded", cmd[c].todo) /\ ~Writing(c)
    BY <1>1, <1>6, LoadMoves DEF Load, Writing, At
  <2> QED BY <1>2, <1>6, <2>1, QuietSteps DEF Moved
<1>7. CASE VendorStep(c) /\ ~LockStep(c)
  <2>1. PICK where \in Vendoring : \E todo : Moved(c, where, todo)
    BY <1>7, VendorStepMoves
  <2>2. ~Writing(c) /\ Alone(c) /\ cmd'[c].at # "write"
    BY <1>7, <2>1, VendorStepMoves DEF Moved, Writing, At, Vendoring
  <2> QED BY <1>2, <1>7, <2>2, QuietSteps
<1>8. CASE EndStep(c) /\ ~LockStep(c)
  <2>1. RunEnded(c)
    BY <1>1, <1>8, FinishSteps DEF EndStep
  <2>2. ~Writing(c)
    <3>1. CASE Die(c)
      BY <1>1, <3>1 DEF Die, Honest, Pasts
    <3>2. CASE ~Die(c)
      BY <1>8, <3>2 DEF EndStep, Load, Answer, CopyFails, SwapFails, DropOldFails, StrayFails,
         Vendored, Writing, At
    <3> QED BY <3>1, <3>2
  <2> QED BY <1>2, <1>8, <2>1, <2>2, QuietSteps DEF RunEnded
<1> QED BY <1>3, <1>4, <1>5, <1>6, <1>7, <1>8, StepKinds

(* What the writer has found for the imports it had read.                  *)
LEMMA WriterFinds ==
  ASSUME Ours, NEW c \in Commands, LockWrite(c)
  PROVE  /\ Moved(c, "load", cmd[c].todo) /\ Writing(c)
         /\ pins' = cmd[c].entry /\ UNCHANGED <<world, stores, tree>>
         /\ cmd[c].lock \in [Urls -> Pins] /\ InForce(cmd[c].lock)
         /\ ~cmd[c].failed /\ cmd[c].units \in SUBSET Urls /\ Open(c) = {}
         /\ \A u \in cmd[c].units : /\ cmd[c].entry[u] \in WholePins
                                   /\ Follows(cmd[c].entry[u], cmd[c].lock[u])
<1>1. RemoteTypeOK /\ Progress(c) /\ Writing(c)
  BY DEF Ours, LockWrite
<1>2. cmd' = [cmd EXCEPT ![c].at = "load"] /\ pins' = cmd[c].entry /\ UNCHANGED <<world, stores, tree>>
  BY DEF LockWrite
<1>3. Moved(c, "load", cmd[c].todo)
  BY <1>1, <1>2, AtSteps DEF CommandPhases, After
<1>4. cmd[c].lock \in [Urls -> Pins] /\ cmd[c].units \in SUBSET Urls
  BY <1>1 DEF RemoteTypeOK, CommandsOK, CommandOK, Command
<1>5. ~cmd[c].failed /\ Open(c) = {}
  BY <1>1 DEF Progress, Writing, At, Open, Fetching
<1>6. \A u \in cmd[c].units : /\ cmd[c].entry[u] \in WholePins
                            /\ Follows(cmd[c].entry[u], cmd[c].lock[u])
  BY <1>1, <1>5, FoundUnits DEF Progress
<1>7. InForce(cmd[c].lock)
  BY <1>1 DEF InForce
<1> QED BY <1>1, <1>2, <1>3, <1>4, <1>5, <1>6, <1>7

(* When a lockfile is written, it is the one in force from then on.        *)
LEMMA WrittenInForce ==
  ASSUME Ours, FirstKept, Honest, NEW c \in Commands, LockWrite(c)
  PROVE  /\ \A d \in Commands : ~Writing(d)'
         /\ \A p : InForce(p)' => p = cmd[c].entry
<1>1. Moved(c, "load", cmd[c].todo) /\ Writing(c) /\ pins' = cmd[c].entry
  BY WriterFinds
<1>2. \A d \in Commands : Writing(d) => d = c
  BY <1>1 DEF FirstKept
<1>3. \A d \in Commands : ~Writing(d)'
  BY <1>1, <1>2 DEF Moved, Alone, Writing, At
<1> QED BY <1>1, <1>3 DEF InForce

LEMMA RunFirst ==
  ASSUME Ours, FirstKept, NEW c \in Commands, Run(c)
  PROVE  FirstKept'
<1> SUFFICES ASSUME Honest' PROVE /\ (\A d, e \in Commands : Writing(d) /\ Writing(e) => d = e)'
                                 /\ (\A p \in [Urls -> Pins] : InForce(p) =>
         \A u \in Urls : past.first[u] # None => p[u] # None /\ p[u].sha = past.first[u])'
  BY DEF FirstKept
<1>1. Honest /\ (LockWrite(c) \/ NoWrite(c))
  BY ForceSteps
<1>2. CASE LockWrite(c)
  <2>1. /\ \A d \in Commands : ~Writing(d)'
        /\ \A p : InForce(p)' => p = cmd[c].entry
    BY <1>1, <1>2, WrittenInForce
  <2>2. /\ cmd[c].lock \in [Urls -> Pins] /\ InForce(cmd[c].lock)
        /\ \A u \in cmd[c].units : /\ cmd[c].entry[u] \in WholePins
                                  /\ Follows(cmd[c].entry[u], cmd[c].lock[u])
    BY <1>2, WriterFinds
  <2>3. \A u \in Urls : past'.first[u] =
             IF u \notin cmd[c].units THEN None
             ELSE IF past.first[u] # None \/ cmd[c].entry[u] = None THEN past.first[u]
             ELSE cmd[c].entry[u].sha
    <3>1. past \in Pasts
      BY DEF Ours, RemoteTypeOK
    <3> DEFINE firsts == [u \in Urls |-> IF u \notin cmd[c].units THEN None
                            ELSE IF past.first[u] # None \/ cmd[c].entry[u] = None THEN past.first[u]
                            ELSE cmd[c].entry[u].sha]
    <3>2. past' = [past EXCEPT !.first = firsts, !.vendored = @ \cap cmd[c].units]
      BY <1>2 DEF LockWrite
    <3>3. past'.first = firsts
      <4> HIDE DEF firsts
      <4> QED BY <3>1, <3>2 DEF Pasts
    <3> QED BY <3>3
  <2>4. ASSUME NEW u \in Urls, past'.first[u] # None
        PROVE  cmd[c].entry[u] # None /\ cmd[c].entry[u].sha = past'.first[u]
    <3>1. u \in cmd[c].units
      BY <2>3, <2>4
    <3>2. cmd[c].entry[u] # None
      BY <2>2, <3>1, NoneApart
    <3>3. CASE past.first[u] # None
      <4>1. cmd[c].lock[u] # None /\ cmd[c].lock[u].sha = past.first[u]
        BY <1>1, <2>2, <3>3 DEF FirstKept
      <4> QED BY <2>2, <2>3, <3>1, <3>2, <3>3, <4>1 DEF Follows
    <3>4. CASE past.first[u] = None
      BY <2>3, <3>1, <3>2, <3>4
    <3> QED BY <3>3, <3>4
  <2> QED BY <2>1, <2>4
<1>3. CASE NoWrite(c)
  <2>1. \A d, e \in Commands : Writing(d)' /\ Writing(e)' => d = e
    BY <1>1, <1>3 DEF NoWrite, FirstKept
  <2>2. ASSUME NEW p \in [Urls -> Pins], InForce(p)', NEW u \in Urls, past'.first[u] # None
        PROVE  p[u] # None /\ p[u].sha = past'.first[u]
    BY <1>1, <1>3, <2>2 DEF NoWrite, Shrinks, FirstKept
  <2> QED BY <2>1, <2>2
<1> QED BY <1>1, <1>2, <1>3

LEMMA WorldForce ==
  ASSUME RemoteTypeOK, NEW u \in Urls, Release(u) \/ EditImports(u)
  PROVE  /\ UNCHANGED <<pins, stores, tree, cmd>>
         /\ past'.first = past.first /\ past'.raced = past.raced /\ past'.cut = past.cut
         /\ past'.vendored = past.vendored
         /\ past'.edited = FALSE => past.edited = FALSE
         /\ imports' # imports /\ past'.edited = FALSE => \A c \in Commands : cmd[c] = Idle
<1>1. past \in Pasts
  BY DEF RemoteTypeOK
<1>2. CASE Release(u)
  BY <1>2 DEF Release
<1>3. CASE EditImports(u)
  <2> DEFINE busy == \E c \in Commands : cmd[c] # Idle
  <2>1. past' = [past EXCEPT !.edited = @ \/ busy]
    BY <1>3 DEF EditImports
  <2>2. past'.edited = (past.edited \/ busy)
    <3> HIDE DEF busy
    <3>1. busy \in BOOLEAN
      BY DEF busy
    <3> QED BY <1>1, <2>1, <3>1 DEF Pasts
  <2>3. /\ past'.first = past.first /\ past'.raced = past.raced /\ past'.cut = past.cut
        /\ past'.vendored = past.vendored
    <3> HIDE DEF busy
    <3> QED BY <1>1, <2>1 DEF Pasts
  <2>4. UNCHANGED <<pins, stores, tree, cmd>>
    BY <1>3 DEF EditImports
  <2>5. past.edited \in BOOLEAN
    BY <1>1 DEF Pasts
  <2> QED BY <2>2, <2>3, <2>4, <2>5
<1> QED BY <1>2, <1>3

LEMMA WorldFirst ==
  ASSUME Ours, FirstKept, NEW u \in Urls, Release(u) \/ EditImports(u)
  PROVE  FirstKept'
<1>1. /\ UNCHANGED <<pins, cmd>>
      /\ past'.first = past.first /\ past'.raced = past.raced /\ past'.cut = past.cut
  BY WorldForce DEF Ours
<1> QED BY <1>1 DEF FirstKept, Honest, InForce, Writing, At

-----------------------------------------------------------------------------
(* The commands, `vendor/` and the lockfile, while nothing is lost.        *)

LEMMA VendoredNotes ==
  ASSUME Ours, NEW c \in Commands, Run(c), ~Vendored(c)
  PROVE  past'.vendored \subseteq past.vendored
<1>1. past \in Pasts
  BY DEF Ours, RemoteTypeOK
<1>2. CASE \/ StartCommand(c) \/ LockKept(c) \/ LockTruncate(c) \/ LockWrite(c) \/ LockWriteFails(c)
           \/ SwapOut(c) \/ RemoveStray(c) \/ StrayRemoved(c) \/ Die(c)
  BY <1>1, <1>2 DEF Pasts, StartCommand, LockKept, LockTruncate, LockWrite, LockWriteFails,
     SwapOut, RemoveStray, StrayRemoved, Die
<1>3. CASE SwapFails(c)
  <2>1. UNCHANGED past \/ \E r : past' = [past EXCEPT !.removing = r]
    BY <1>3 DEF SwapFails
  <2>2. PICK r : UNCHANGED past \/ past' = [past EXCEPT !.removing = r]
    BY <2>1
  <2> QED BY <1>1, <2>2 DEF Pasts
<1>4. CASE UNCHANGED past
  BY <1>4
<1> QED
  BY <1>2, <1>3, <1>4 DEF Run, ServeVendored, CacheHit, FrozenMiss, Miss, Fetch, FetchFails, StoreHit,
     StoreStage, StoreUnpack, StoreFails, StoreRename, VerifyFetched,
     Load, Answer, ClearLeftovers, LeaveAsIs, Copy, CopyChecked,
     CopyFails, SwapIn, DropOld, DropOldFails, StrayFails

(* A unit that a command found in `vendor/`, pinned as it found it.        *)
Relies(d, u, p) ==
  /\ ~cmd[d].failed /\ u \notin Open(d) /\ cmd[d].from[u] = "vendor"
  /\ p[u] \in {cmd[d].lock[u], cmd[d].entry[u]}

SameView(d) ==
  /\ SameRun(d) /\ SameFinds(d) /\ Open(d)' = Open(d)
  /\ cmd'[d].at \in After => cmd[d].at \in After \/ cmd[d].kind = "frozen" \/ cmd[d].failed

LEMMA AbreastStays ==
  ASSUME NEW d \in Commands, NEW p, AbreastOf(d, p), SameView(d),
         \A u \in cmd[d].units : Relies(d, u, p) => vendor'[u] = vendor[u]
  PROVE  AbreastOf(d, p)'
  BY DEF AbreastOf, SameView, SameRun, SameFinds, Relies

LEMMA ViewOfOthers ==
  ASSUME NEW c \in Commands, Alone(c), NEW d \in Commands \ {c}
  PROVE  SameView(d) /\ cmd'[d] = cmd[d]
  BY DEF Alone, SameView, SameRun, SameFinds, Open, At

(* What a command relies on is what is pinned.                             *)
LEMMA ReliesOnPinned ==
  ASSUME Ours, NEW d \in Commands, NEW p \in [Urls -> Pins], AbreastOf(d, p),
         NEW u \in cmd[d].units, Relies(d, u, p), p[u] \in WholePins
  PROVE  cmd[d].entry[u] = p[u] /\ vendor[u] = p[u].tree
<1>1. vendor[u] = cmd[d].entry[u].tree
  BY DEF AbreastOf, Relies
<1>2. cmd[d].entry[u] \in WholePins /\ Follows(cmd[d].entry[u], cmd[d].lock[u])
  BY FoundUnits DEF Ours, Progress, Relies
<1>3. CASE p[u] = cmd[d].lock[u]
  <2>1. cmd[d].entry[u] = p[u]
    BY <1>2, <1>3, NoneApart DEF Follows
  <2> QED BY <1>1, <2>1
<1>4. CASE p[u] = cmd[d].entry[u]
  BY <1>1, <1>4
<1> QED BY <1>3, <1>4 DEF Relies

(* The steps that leave `vendor/` alone.                                   *)
LEMMA LockstepFrame ==
  ASSUME Lockstep, NEW c \in Commands, Alone(c), imports' = imports, Shrinks, vendor' = vendor,
         past'.vendored \subseteq past.vendored,
         cmd'[c].at # "idle" => cmd'[c].units = imports /\ Abreast(c)', GotVerified(c)'
  PROVE  Lockstep'
<1>1. ASSUME NEW d \in Commands, ~At(d, "idle")'
      PROVE  cmd'[d].units = imports' /\ Abreast(d)'
  <2>1. CASE d = c
    BY <1>1, <2>1 DEF At
  <2>2. CASE d # c
    <3>1. SameView(d) /\ cmd'[d] = cmd[d]
      BY <2>2, ViewOfOthers
    <3>2. cmd[d].units = imports /\ Abreast(d)
      BY <1>1, <3>1 DEF Lockstep, At
    <3>3. ASSUME NEW p \in [Urls -> Pins], InForce(p)' PROVE AbreastOf(d, p)'
      BY <3>1, <3>2, <3>3, AbreastStays DEF Shrinks, Abreast
    <3> QED BY <3>1, <3>2, <3>3 DEF Abreast
  <2> QED BY <2>1, <2>2
<1>2. ASSUME NEW p \in [Urls -> Pins], InForce(p)' PROVE VendoredAs(p)'
  BY <1>2 DEF Lockstep, Shrinks, VendoredAs
<1>3. ASSUME NEW d \in Commands PROVE GotVerified(d)'
  BY ViewOfOthers DEF Lockstep, GotVerified, At
<1> QED BY <1>1, <1>2, <1>3 DEF Lockstep

LEMMA StartLockstep ==
  ASSUME Ours, Lockstep, NEW c \in Commands, StartCommand(c), Honest'
  PROVE  Lockstep'
<1>1. RemoteTypeOK /\ past \in Pasts /\ pins \in [Urls -> Pins]
  BY DEF Ours, RemoteTypeOK
<1>2. Begun(c) /\ UNCHANGED <<world, pins, stores, tree>>
  BY <1>1, StartSteps DEF StartCommand
<1>3. \A d \in Commands : ~Writing(d)
  BY <1>1 DEF StartCommand, Honest, Pasts
<1>4. Shrinks
  BY <1>2, <1>3, NoWriter DEF Begun
<1>5. past'.vendored \subseteq past.vendored
  <2>1. Run(c) /\ ~Vendored(c)
    BY DEF Run, StartCommand, Vendored, At
  <2> QED BY <2>1, VendoredNotes
<1>6. cmd'[c].units = imports /\ cmd'[c].at \in {"load", "resolve"}
  BY <1>2 DEF Begun
<1>7. ASSUME NEW p \in [Urls -> Pins], InForce(p)' PROVE AbreastOf(c, p)'
  <2>1. p = pins
    BY <1>2, <1>3, <1>4, <1>7 DEF Shrinks, InForce
  <2>2. cmd'[c].lock = pins /\ ~cmd'[c].failed /\ cmd'[c].todo = imports
    BY <1>2 DEF Begun
  <2>3. imports \subseteq Urls
    BY <1>1 DEF RemoteTypeOK
  <2>4. \A u \in cmd'[c].units : cmd'[c].at = "resolve" /\ u \in Open(c)'
    BY <1>2, <1>6, <2>2 DEF Open, At, Begun
  <2>5. \A u \in cmd'[c].units : Follows(p[u], cmd'[c].lock[u])
    BY <1>6, <2>1, <2>2 DEF Follows
  <2> QED BY <2>4, <2>5 DEF AbreastOf, After, Vendoring
<1>8. Abreast(c)' /\ GotVerified(c)'
  BY <1>6, <1>7 DEF Abreast, GotVerified, At
<1>9. Alone(c) /\ imports' = imports /\ vendor' = vendor
  BY <1>2 DEF Begun, world, tree
<1> QED BY <1>4, <1>5, <1>6, <1>8, <1>9, LockstepFrame

(* A view that stays stays abreast of a lockfile that is kept.             *)
LEMMA ViewKept ==
  ASSUME Lockstep, NEW d \in Commands, ~At(d, "idle"), Shrinks, SameView(d), vendor' = vendor
  PROVE  cmd'[d].units = imports /\ Abreast(d)'
<1>1. cmd[d].units = imports /\ Abreast(d)
  BY DEF Lockstep
<1>2. ASSUME NEW p \in [Urls -> Pins], InForce(p)' PROVE AbreastOf(d, p)'
  BY <1>1, <1>2, AbreastStays DEF Shrinks, Abreast
<1> QED BY <1>1, <1>2 DEF Abreast, SameView, SameRun

LEMMA ResolutionLockstep ==
  ASSUME Ours, Lockstep, NEW c \in Commands, Resolution(c), Honest'
  PROVE  Lockstep'
<1>1. Run(c) /\ Resolves(c) /\ RemoteTypeOK
  BY ResolutionResolves DEF Ours, Run, Resolution
<1>2. ~LockWrite(c) /\ ~Vendored(c) /\ AtUnit(c) /\ UNCHANGED <<world, pins, tree, past>> /\ Alone(c)
  BY <1>1 DEF Resolves, Finds, Drops, GoesOn, Accepted, Rejected, Settled, Moved, AtUnit, LockWrite,
     Writing, At, Vendored, Fetching, stores
<1>3. NoWrite(c)
  BY <1>1, <1>2, ForceSteps
<1>4. Shrinks /\ vendor' = vendor /\ imports' = imports /\ past'.vendored \subseteq past.vendored
  BY <1>2, <1>3 DEF NoWrite, tree, world
<1>5. cmd'[c].at \in {"resolve"} \cup Fetching /\ cmd[c].at \in {"resolve"} \cup Fetching
  BY <1>1 DEF Resolves, Finds, Drops, GoesOn, Accepted, Rejected, Settled, Moved, AtUnit
<1>6. GotVerified(c)' /\ cmd'[c].at \notin After /\ ~At(c, "idle")
  BY <1>5 DEF GotVerified, At, Fetching, After, Vendoring
<1>7. cmd[c].units = imports /\ Abreast(c)
  BY <1>6 DEF Lockstep
<1>8. cmd'[c].units = imports /\ Abreast(c)'
  <2>1. CASE GoesOn(c)
    <3>1. SameView(c)
      BY <1>5, <1>6, <2>1 DEF GoesOn, Moved, SameView, Open, At
    <3> QED BY <1>4, <1>6, <3>1, ViewKept
  <2>2. CASE Drops(c)
    <3>1. SameRun(c) /\ cmd'[c].failed
      BY <2>2 DEF Drops, Rejected, Settled
    <3>2. ASSUME NEW p \in [Urls -> Pins], InForce(p)' PROVE AbreastOf(c, p)'
      <4>1. AbreastOf(c, p)
        BY <1>4, <1>7, <3>2 DEF Shrinks, Abreast
      <4> QED BY <3>1, <4>1 DEF AbreastOf, SameRun
    <3> QED BY <1>7, <3>1, <3>2 DEF Abreast, SameRun
  <2>3. CASE Finds(c)
    <3> DEFINE now == Current(c)
    <3>1. PICK entry \in WholePins, from \in {"vendor", "cache"} :
             /\ Accepted(c, now, entry, from)
             /\ from = "vendor" => vendor[now] = entry.tree
      BY <2>3 DEF Finds
    <3>2. SameRun(c) /\ cmd'[c].at = "resolve" /\ cmd'[c].todo = cmd[c].todo \ {now}
      BY <3>1 DEF Accepted, Settled
    <3>3. Open(c) = cmd[c].todo /\ Open(c)' = cmd[c].todo \ {now}
      BY <1>5, <3>2 DEF Open, At
    <3>4. cmd[c].units \subseteq Urls
      BY <1>1 DEF RemoteTypeOK, CommandsOK, CommandOK, Command
    <3>5. ASSUME NEW p \in [Urls -> Pins], InForce(p)' PROVE AbreastOf(c, p)'
      <4>1. AbreastOf(c, p)
        BY <1>4, <1>7, <3>5 DEF Shrinks, Abreast
      <4>2. ASSUME NEW u \in cmd[c].units, Relies(c, u, p)' PROVE vendor'[u] = cmd'[c].entry[u].tree
        <5>1. CASE u = now
          BY <1>4, <3>1, <4>2, <5>1 DEF Accepted, Relies
        <5>2. CASE u # now
          <6>1. /\ cmd'[c].entry[u] = cmd[c].entry[u] /\ cmd'[c].from[u] = cmd[c].from[u]
                /\ cmd'[c].failed = cmd[c].failed
            BY <3>1, <3>4, <5>2 DEF Accepted, Settled
          <6>2. Relies(c, u, p)
            BY <3>2, <3>3, <4>2, <5>2, <6>1 DEF Relies, SameRun
          <6> QED BY <1>4, <4>1, <6>1, <6>2 DEF AbreastOf, Relies
        <5> QED BY <5>1, <5>2
      <4>3. \A u \in cmd[c].units : Follows(p[u], cmd'[c].lock[u])
        BY <3>2, <4>1 DEF AbreastOf, SameRun
      <4>4. cmd'[c].units = cmd[c].units
        BY <3>2 DEF SameRun
      <4> QED BY <1>6, <4>2, <4>3, <4>4 DEF AbreastOf, Relies
    <3> QED BY <1>7, <3>2, <3>5 DEF Abreast, SameRun
  <2> QED BY <1>1, <2>1, <2>2, <2>3 DEF Resolves
<1> QED BY <1>2, <1>4, <1>6, <1>8, LockstepFrame

LEMMA KeepLockstep ==
  ASSUME Ours, Lockstep, NEW c \in Commands, LockKept(c) \/ LockTruncate(c), Honest'
  PROVE  Lockstep'
<1>1. RemoteTypeOK /\ past \in Pasts
  BY DEF Ours, RemoteTypeOK
<1>2. Run(c) /\ LockStep(c) /\ At(c, "resolve") /\ ~LockWrite(c) /\ ~Vendored(c)
  BY DEF Run, LockStep, LockKept, LockTruncate, Resolved, LockWrite, Writing, At, Vendored
<1>3. /\ Moved(c, IF LockTruncate(c) THEN "write" ELSE "load", cmd[c].todo)
      /\ UNCHANGED <<world, stores, tree>> /\ Open(c) = {}
  BY <1>1, <1>2, LockMoves
<1>4. NoWrite(c)
  BY <1>2, ForceSteps
<1>5. Shrinks /\ vendor' = vendor /\ imports' = imports /\ past'.vendored \subseteq past.vendored
  BY <1>2, <1>3, <1>4, VendoredNotes DEF NoWrite, tree, world
<1>6. LockKept(c) => cmd[c].kind = "frozen" \/ cmd[c].failed
  BY <1>1 DEF LockKept, Honest, Pasts, Regenerates
<1>7. SameView(c)
  <2>1. SameRun(c) /\ SameFinds(c) /\ cmd'[c].at \in {"write", "load"} /\ Open(c)' = {}
    BY <1>3 DEF Moved, Open, At, Fetching
  <2>2. cmd'[c].at \in After => LockKept(c)
    BY <1>3 DEF Moved, After, Vendoring
  <2> QED BY <1>3, <1>6, <2>1, <2>2 DEF SameView
<1>8. GotVerified(c)'
  BY <1>3 DEF GotVerified, Moved, At
<1>9. cmd'[c].units = imports /\ Abreast(c)'
  BY <1>2, <1>5, <1>7, ViewKept DEF At
<1> QED BY <1>3, <1>5, <1>8, <1>9, LockstepFrame DEF Moved

(* There is a lockfile in force at any time.                               *)
LEMMA SomeInForce ==
  ASSUME RemoteTypeOK
  PROVE  \E p \in [Urls -> Pins] : InForce(p)
<1>1. CASE \E c \in Commands : Writing(c)
  <2>1. PICK c \in Commands : Writing(c)
    BY <1>1
  <2>2. cmd[c].lock \in [Urls -> Pins]
    BY DEF RemoteTypeOK, CommandsOK, CommandOK, Command
  <2> QED BY <2>1, <2>2 DEF InForce
<1>2. CASE \A c \in Commands : ~Writing(c)
  BY <1>2 DEF InForce, RemoteTypeOK
<1> QED BY <1>1, <1>2

(* What a command that is done resolving found in `vendor/` is there.      *)
LEMMA FoundInVendor ==
  ASSUME Ours, Lockstep, NEW c \in Commands, cmd[c].at \in After, ~cmd[c].failed,
         NEW u \in cmd[c].units, cmd[c].from[u] = "vendor"
  PROVE  vendor[u] = cmd[c].entry[u].tree
<1>1. RemoteTypeOK /\ Open(c) = {} /\ ~At(c, "idle")
  BY DEF Ours, Open, At, After, Vendoring, Fetching
<1>2. PICK p \in [Urls -> Pins] : InForce(p)
  BY <1>1, SomeInForce
<1>3. AbreastOf(c, p)
  BY <1>1, <1>2 DEF Lockstep, Abreast
<1>4. CASE cmd[c].kind # "frozen"
  BY <1>1, <1>3, <1>4 DEF AbreastOf
<1>5. CASE cmd[c].kind = "frozen"
  <2>1. cmd[c].entry[u] = cmd[c].lock[u] /\ cmd[c].entry[u] \in WholePins
    BY <1>1, <1>5, FoundUnits DEF Ours, Progress
  <2>2. p[u] = cmd[c].lock[u]
    BY <1>3, <2>1, NoneApart DEF AbreastOf, Follows
  <2> QED BY <1>1, <1>3, <2>2 DEF AbreastOf
<1> QED BY <1>4, <1>5

LEMMA LoadLockstep ==
  ASSUME Ours, Lockstep, NEW c \in Commands, Load(c), ~Finish(c), Honest'
  PROVE  Lockstep'
<1>1. RemoteTypeOK /\ StoresWhole
  BY DEF Ours
<1>2. Moved(c, "loaded", cmd[c].todo)
  BY <1>1, LoadMoves
<1>3. /\ Run(c) /\ ~LockWrite(c) /\ ~Vendored(c) /\ At(c, "load") /\ ~cmd[c].failed
      /\ UNCHANGED <<world, pins, stores, tree, past>>
  BY DEF Run, Load, LockWrite, Writing, At, Vendored
<1>4. NoWrite(c)
  BY <1>3, ForceSteps
<1>5. Shrinks /\ vendor' = vendor /\ imports' = imports /\ past'.vendored \subseteq past.vendored
  BY <1>3, <1>4 DEF NoWrite, tree, world
<1>6. SameView(c)
  BY <1>2, <1>3 DEF Moved, SameView, Open, At, After, Fetching
<1>7. cmd'[c].units = imports /\ Abreast(c)'
  BY <1>3, <1>5, <1>6, ViewKept DEF At
<1>8. GotVerified(c)'
  <2> DEFINE dirs == [u \in Urls |-> CASE cmd[c].from[u] = "vendor" -> vendor[u]
                                   [] cmd[c].from[u] = "cache" -> cache[u][cmd[c].entry[u].sha]
                                   [] OTHER -> None]
  <2>1. /\ cmd' = [cmd EXCEPT ![c].at = "loaded", ![c].got = dirs]
        /\ \A u \in cmd[c].units : dirs[u] # None
    BY DEF Load
  <2>2. cmd'[c].got = dirs
    <3> HIDE DEF dirs
    <3>1. cmd[c] \in Command(cmd[c].got) /\ cmd = [d \in Commands |-> cmd[d]]
      BY <1>1 DEF RemoteTypeOK, CommandsOK, CommandOK
    <3> QED BY <2>1, <3>1 DEF Command
  <2>3. ASSUME NEW u \in cmd[c].units PROVE dirs[u] = cmd[c].entry[u].tree
    <3>1. Open(c) = {}
      BY <1>3 DEF Open, At, Fetching
    <3>2. /\ u \in Urls /\ cmd[c].entry[u].sha \in Artifacts
          /\ cmd[c].entry[u].tree = Full(cmd[c].entry[u].sha)
      BY <1>3, <3>1, FoundUnits
    <3>3. CASE cmd[c].from[u] = "vendor"
      <4>1. cmd[c].at \in After
        BY <1>3 DEF At, After
      <4> QED BY <1>3, <3>2, <3>3, <4>1, FoundInVendor
    <3>4. CASE cmd[c].from[u] = "cache"
      <4>1. dirs[u] = cache[u][cmd[c].entry[u].sha]
        BY <3>2, <3>4
      <4> QED
        <5> HIDE DEF dirs
        <5> QED BY <1>1, <2>1, <3>2, <4>1 DEF StoresWhole
    <3>5. CASE cmd[c].from[u] \notin {"vendor", "cache"}
      BY <2>1, <3>2, <3>5
    <3> QED BY <3>3, <3>4, <3>5
  <2>4. cmd'[c].units = cmd[c].units /\ cmd'[c].entry = cmd[c].entry
    BY <1>2 DEF Moved, SameRun, SameFinds
  <2> HIDE DEF dirs
  <2> QED BY <2>2, <2>3, <2>4 DEF GotVerified
<1> QED BY <1>2, <1>5, <1>7, <1>8, LockstepFrame DEF Moved

LEMMA WriteLockstep ==
  ASSUME Ours, FirstKept, Lockstep, Honest, NEW c \in Commands, LockWrite(c)
  PROVE  Lockstep'
<1> DEFINE prior == cmd[c].lock
           new == cmd[c].entry
<1>1. RemoteTypeOK /\ past \in Pasts
  BY DEF Ours, RemoteTypeOK
<1>2. /\ Moved(c, "load", cmd[c].todo) /\ Writing(c) /\ UNCHANGED <<world, stores, tree>>
      /\ prior \in [Urls -> Pins] /\ InForce(prior) /\ cmd[c].units \in SUBSET Urls /\ Open(c) = {}
      /\ \A u \in cmd[c].units : new[u] \in WholePins /\ Follows(new[u], prior[u])
  BY WriterFinds
<1>3. \A p : InForce(p)' => p = new
  BY WrittenInForce
<1>4. imports' = imports /\ vendor' = vendor /\ cmd[c].units = imports
  BY <1>2 DEF world, tree, Lockstep, Writing, At
<1>5. ASSUME NEW u \in imports PROVE /\ new[u] \in Pins /\ prior[u] \in Pins /\ Follows(new[u], prior[u])
                                     /\ new[u] \in WholePins /\ (prior[u] \in WholePins => new[u] = prior[u])
  <2>1. new[u] \in Pins /\ prior[u] \in Pins /\ Follows(new[u], prior[u]) /\ new[u] \in WholePins
    BY <1>2, <1>4 DEF Pins
  <2> QED BY <2>1, FollowsOn
<1>6. ASSUME NEW d \in Commands, ~At(d, "idle")' PROVE cmd'[d].units = imports' /\ AbreastOf(d, new)'
  <2> HIDE DEF prior, new
  <2>1. /\ SameRun(d) /\ SameFinds(d) /\ Open(d)' = Open(d)
        /\ d # c => cmd'[d] = cmd[d]
    <3>1. CASE d = c
      BY <1>2, <3>1 DEF Moved, Open, At, Fetching
    <3>2. CASE d # c
      BY <1>2, <3>2, ViewOfOthers DEF Moved, SameView
    <3> QED BY <3>1, <3>2
  <2>2. ~At(d, "idle")
    BY <1>2, <1>6, <2>1 DEF Writing, At
  <2>3. cmd[d].units = imports /\ AbreastOf(d, prior)
    BY <1>2, <2>2 DEF Lockstep, Abreast, prior
  <2>4. cmd[d].lock \in [Urls -> Pins] /\ imports \subseteq Urls
    BY <1>1 DEF RemoteTypeOK, CommandsOK, CommandOK, Command
  <2>5. ASSUME NEW u \in imports PROVE Follows(new[u], cmd[d].lock[u])
    <3>1. Follows(new[u], prior[u]) /\ Follows(prior[u], cmd[d].lock[u])
      BY <1>5, <2>3 DEF AbreastOf
    <3>2. new[u] \in Pins /\ prior[u] \in Pins /\ cmd[d].lock[u] \in Pins
      BY <1>5, <2>4
    <3> QED BY <3>1, <3>2, FollowsOn
  <2>6. ASSUME NEW u \in imports, cmd'[d].kind # "frozen", ~cmd'[d].failed, cmd'[d].at \in After
        PROVE  new[u] = cmd'[d].entry[u]
    <3>1. CASE d = c
      BY <2>1, <3>1 DEF SameFinds, new
    <3>2. CASE d # c
      <4>1. prior[u] = cmd[d].entry[u]
        BY <2>1, <2>3, <2>6, <3>2 DEF AbreastOf
      <4>2. Open(d) = {} /\ ~cmd[d].failed
        BY <2>1, <2>6, <3>2 DEF Open, At, After, Fetching, Vendoring
      <4>3. cmd[d].entry[u] \in WholePins
        BY <2>3, <4>2, FoundUnits
      <4> QED BY <1>5, <2>1, <3>2, <4>1, <4>3
    <3> QED BY <3>1, <3>2
  <2>7. ASSUME NEW u \in imports, Relies(d, u, new)'
        PROVE  vendor'[u] = cmd'[d].entry[u].tree
    <3>1. new = new' => Relies(d, u, new)
      BY <2>1, <2>7 DEF Relies, SameRun, SameFinds
    <3>2. new' = new
      BY <1>2 DEF new, Moved, SameFinds
    <3>3. Relies(d, u, prior)
      <4>1. CASE prior[u] \in WholePins
        BY <1>5, <3>1, <3>2, <4>1 DEF Relies
      <4>2. CASE prior[u] \notin WholePins
        <5>1. prior[u] = cmd[d].lock[u]
          BY <2>3, <4>2 DEF AbreastOf, Follows
        <5> QED BY <3>1, <3>2, <5>1 DEF Relies
      <4> QED BY <4>1, <4>2
    <3>4. vendor[u] = cmd[d].entry[u].tree
      BY <2>3, <3>3 DEF AbreastOf, Relies
    <3> QED BY <1>4, <2>1, <3>4 DEF SameFinds
  <2>8. new' = new /\ cmd'[d].units = imports /\ cmd'[d].lock = cmd[d].lock
    BY <1>2, <2>1, <2>3 DEF new, Moved, SameFinds, SameRun
  <2>9. AbreastOf(d, new)'
    BY <2>5, <2>6, <2>7, <2>8 DEF AbreastOf, Relies
  <2> QED BY <1>4, <2>8, <2>9
<1>7. ASSUME NEW u \in past'.vendored PROVE new[u] \in WholePins /\ vendor'[u] = new[u].tree
  <2>1. past'.vendored = past.vendored \cap imports
    <3> DEFINE firsts == [v \in Urls |-> IF v \notin cmd[c].units THEN None
                            ELSE IF past.first[v] # None \/ cmd[c].entry[v] = None THEN past.first[v]
                            ELSE cmd[c].entry[v].sha]
    <3>1. past' = [past EXCEPT !.first = firsts, !.vendored = @ \cap cmd[c].units]
      BY DEF LockWrite
    <3> HIDE DEF firsts
    <3> QED BY <1>1, <1>4, <3>1 DEF Pasts
  <2>2. prior[u] \in WholePins /\ vendor[u] = prior[u].tree
    BY <1>2, <1>7, <2>1 DEF Lockstep, VendoredAs
  <2> HIDE DEF prior, new
  <2> QED BY <1>4, <1>5, <1>7, <2>1, <2>2
<1>8. ASSUME NEW d \in Commands PROVE GotVerified(d)'
  <2>1. CASE d = c
    BY <1>2, <2>1 DEF GotVerified, Moved, At
  <2>2. CASE d # c
    BY <1>2, <2>2, ViewOfOthers DEF Moved, Lockstep, GotVerified, At
  <2> QED BY <2>1, <2>2
<1>9. new' = new
  BY <1>2 DEF Moved, SameFinds
<1> HIDE DEF prior, new
<1>10. ASSUME NEW p \in [Urls -> Pins], InForce(p)'
       PROVE  VendoredAs(p)' /\ \A d \in Commands : ~At(d, "idle")' => AbreastOf(d, p)'
  <2>1. p = new
    BY <1>3, <1>10
  <2> QED BY <1>6, <1>7, <1>9, <2>1 DEF VendoredAs
<1> QED BY <1>6, <1>8, <1>10 DEF Lockstep, Abreast

(* The steps that touch a vendored directory that nobody relies on.        *)
LEMMA TouchLockstep ==
  ASSUME Ours, Lockstep, NEW c \in Commands, Alone(c), imports' = imports, Shrinks,
         NEW u \in Urls, \A v \in Urls \ {u} : vendor'[v] = vendor[v],
         past'.vendored \subseteq past.vendored, u \notin past'.vendored,
         \A d \in Commands, p \in [Urls -> Pins] :
           ~At(d, "idle") /\ InForce(p) /\ u \in imports => ~Relies(d, u, p),
         ~At(c, "idle"), SameView(c) \/ cmd'[c].at = "idle", GotVerified(c)'
  PROVE  Lockstep'
<1>1. ASSUME NEW d \in Commands, ~At(d, "idle")'
      PROVE  cmd'[d].units = imports' /\ Abreast(d)'
  <2>1. SameView(d) /\ ~At(d, "idle")
    <3>1. CASE d = c
      BY <1>1, <3>1 DEF At
    <3>2. CASE d # c
      BY <1>1, <3>2, ViewOfOthers DEF At
    <3> QED BY <3>1, <3>2
  <2>2. cmd[d].units = imports /\ Abreast(d) /\ cmd[d].units \subseteq Urls
    BY <2>1 DEF Lockstep, Ours, RemoteTypeOK, CommandsOK, CommandOK, Command
  <2>3. ASSUME NEW p \in [Urls -> Pins], InForce(p)' PROVE AbreastOf(d, p)'
    <3>1. InForce(p) /\ AbreastOf(d, p)
      BY <2>2, <2>3 DEF Shrinks, Abreast
    <3>2. \A v \in cmd[d].units : Relies(d, v, p) => vendor'[v] = vendor[v]
      BY <2>1, <2>2, <3>1
    <3> QED BY <2>1, <3>1, <3>2, AbreastStays
  <2> QED BY <2>1, <2>2, <2>3 DEF Abreast, SameView, SameRun
<1>2. ASSUME NEW p \in [Urls -> Pins], InForce(p)' PROVE VendoredAs(p)'
  <2>1. VendoredAs(p) /\ past.vendored \subseteq Urls
    BY <1>2 DEF Lockstep, Shrinks, Ours, RemoteTypeOK, Pasts
  <2> QED BY <2>1 DEF VendoredAs
<1>3. ASSUME NEW d \in Commands PROVE GotVerified(d)'
  BY ViewOfOthers DEF Lockstep, GotVerified, At
<1> QED BY <1>1, <1>2, <1>3 DEF Lockstep

(* The unit that `ridl vendor` is about to replace is not there as pinned. *)
LEMMA NobodyRelies ==
  ASSUME Ours, Lockstep, NEW c \in Commands, cmd[c].at \in Vendoring \ {"stray"},
         NEW u \in cmd[c].units, vendor[u] # cmd[c].entry[u].tree
  PROVE  /\ u \notin past.vendored
         /\ \A d \in Commands, p \in [Urls -> Pins] :
              ~At(d, "idle") /\ InForce(p) /\ u \in imports => ~Relies(d, u, p)
<1>1. RemoteTypeOK /\ cmd[c].at \in After /\ ~At(c, "idle") /\ ~cmd[c].failed /\ InVendor(c) /\ Open(c) = {}
  BY DEF Ours, Progress, After, Vendoring, At, InVendor, Open, Fetching
<1>2. cmd[c].kind = "vendor"
  BY <1>1 DEF Ours, Progress
<1>3. ASSUME NEW p \in [Urls -> Pins], InForce(p)
      PROVE  p[u] = cmd[c].entry[u] /\ p[u] \in WholePins
  BY <1>1, <1>2, <1>3, FoundUnits DEF Lockstep, Abreast, AbreastOf
<1>4. ASSUME u \in past.vendored PROVE FALSE
  <2>1. PICK p \in [Urls -> Pins] : InForce(p)
    BY <1>1, SomeInForce
  <2> QED BY <1>3, <1>4, <2>1 DEF Lockstep, VendoredAs
<1>5. ASSUME NEW d \in Commands, NEW p \in [Urls -> Pins], ~At(d, "idle"), InForce(p),
             u \in imports, Relies(d, u, p)
      PROVE  FALSE
  <2>1. u \in cmd[d].units /\ AbreastOf(d, p)
    BY <1>5 DEF Lockstep, Abreast
  <2> QED BY <1>3, <1>5, <2>1, ReliesOnPinned
<1> QED BY <1>4, <1>5

LEMMA VendorLockstep ==
  ASSUME Ours, Lockstep, NEW c \in Commands, VendorStep(c), Honest'
  PROVE  Lockstep'
<1>1. RemoteTypeOK /\ past \in Pasts /\ vendor \in [Urls -> UnitDirs]
  BY DEF Ours, RemoteTypeOK
<1>2. PICK where \in Vendoring : \E todo : Moved(c, where, todo)
  BY VendorStepMoves
<1>3. PICK todo : Moved(c, where, todo)
  BY <1>2
<1>4. cmd[c].at \in {"loaded"} \cup Vendoring
  BY VendorStepMoves
<1>5. /\ Alone(c) /\ ~At(c, "idle") /\ SameView(c) /\ GotVerified(c)'
  BY <1>3, <1>4 DEF Moved, SameView, Open, At, After, Fetching, Vendoring, GotVerified
<1>6. Run(c) /\ ~LockWrite(c) /\ ~Vendored(c)
  <2>1. Run(c)
    BY DEF Run, VendorStep
  <2>2. ~LockWrite(c)
    BY <1>4 DEF LockWrite, Writing, At, Vendoring
  <2>3. ~Vendored(c)
    <3>1. ASSUME Vendored(c) PROVE cmd'[c].at = "idle"
      BY <1>1, <3>1, FinishSteps DEF Vendored, RunEnded
    <3> QED BY <1>3, <3>1 DEF Moved, Vendoring
  <2> QED BY <2>1, <2>2, <2>3
<1>7. Shrinks /\ imports' = imports /\ past'.vendored \subseteq past.vendored
  BY <1>6, ForceSteps, NotesStay, VendoredNotes DEF NoWrite
<1>8. CASE vendor' = vendor
  <2>1. cmd'[c].units = imports /\ Abreast(c)'
    BY <1>5, <1>7, <1>8, ViewKept
  <2> QED BY <1>5, <1>7, <1>8, <2>1, LockstepFrame
<1>9. CASE SwapOut(c) \/ SwapIn(c)
  <2> DEFINE u == Current(c)
  <2>1. cmd[c].at \in {"swap", "install"}
    BY <1>9 DEF SwapOut, SwapIn, At
  <2>2. cmd[c].todo # {} /\ cmd[c].todo \subseteq cmd[c].units /\ vendor[u] # cmd[c].entry[u].tree
    BY <2>1 DEF Ours, Progress, VendorProgress, Handling, Vendoring
  <2>3. u \in cmd[c].units /\ u \in Urls
    BY <1>1, <2>2, CurrentOpen
  <2>4. \A v \in Urls \ {u} : vendor'[v] = vendor[v]
    BY <1>1, <1>9 DEF SwapOut, SwapIn
  <2>5. cmd[c].at \in Vendoring \ {"stray"}
    BY <2>1 DEF Vendoring
  <2>6. /\ u \notin past.vendored
        /\ \A d \in Commands, p \in [Urls -> Pins] :
              ~At(d, "idle") /\ InForce(p) /\ u \in imports => ~Relies(d, u, p)
    BY <2>2, <2>3, <2>5, NobodyRelies
  <2> HIDE DEF u
  <2> QED BY <1>5, <1>7, <2>3, <2>4, <2>6, TouchLockstep
<1>10. cmd[c].units = imports
  BY <1>5 DEF Lockstep
<1>11. CASE RemoveStray(c)
  <2>1. PICK u \in Strays(c) : /\ vendor' = [vendor EXCEPT ![u].whole = FALSE]
                                /\ past' = [past EXCEPT !.removing = @ \cup {u}, !.vendored = @ \ {u}]
    BY <1>11 DEF RemoveStray
  <2>2. u \in Urls /\ u \notin imports
    BY <1>10, <2>1 DEF Strays
  <2>3. \A v \in Urls \ {u} : vendor'[v] = vendor[v]
    BY <1>1, <2>1
  <2>4. u \notin past'.vendored
    BY <1>1, <2>1 DEF Pasts
  <2> QED BY <1>5, <1>7, <2>2, <2>3, <2>4, TouchLockstep
<1>12. CASE StrayRemoved(c)
  <2> DEFINE u == Current(c)
  <2>1. At(c, "stray") /\ vendor' = [vendor EXCEPT ![u] = None]
    BY <1>12 DEF StrayRemoved
  <2>2. cmd[c].todo # {} /\ u \notin cmd[c].units /\ ~vendor[u].whole
    BY <2>1 DEF Ours, Progress, VendorProgress, Handling, Vendoring, At
  <2>3. u \in Urls
    BY <1>1, <2>2, CurrentOpen
  <2>4. \A v \in Urls \ {u} : vendor'[v] = vendor[v]
    BY <1>1, <2>1
  <2>5. u \notin past.vendored
    <3>1. PICK p \in [Urls -> Pins] : InForce(p)
      BY <1>1, SomeInForce
    <3>2. ASSUME u \in past.vendored PROVE FALSE
      <4>1. p[u] \in WholePins /\ vendor[u] = p[u].tree
        BY <3>1, <3>2 DEF Lockstep, VendoredAs
      <4>2. vendor[u] = Full(p[u].sha)
        BY <4>1, NoneApart
      <4>3. Full(p[u].sha).whole
        BY DEF Full
      <4> QED BY <2>2, <4>2, <4>3
    <3> QED BY <3>2
  <2> HIDE DEF u
  <2> QED BY <1>5, <1>7, <1>10, <2>2, <2>3, <2>4, <2>5, TouchLockstep
<1>13. vendor' = vendor \/ SwapOut(c) \/ SwapIn(c) \/ RemoveStray(c) \/ StrayRemoved(c)
  BY DEF VendorStep, ClearLeftovers, LeaveAsIs, Copy, CopyChecked, DropOld, tree
<1> QED BY <1>8, <1>9, <1>11, <1>12, <1>13

LEMMA EndLockstep ==
  ASSUME Ours, Lockstep, NEW c \in Commands, EndStep(c), Honest'
  PROVE  Lockstep'
<1>1. RemoteTypeOK /\ past \in Pasts /\ vendor \in [Urls -> UnitDirs]
  BY DEF Ours, RemoteTypeOK
<1>2. RunEnded(c)
  BY <1>1, FinishSteps DEF EndStep
<1>3. Alone(c) /\ GotVerified(c)' /\ cmd'[c].at = "idle"
  BY <1>2 DEF RunEnded, GotVerified, At
<1>4. Run(c)
  BY DEF Run, EndStep
<1>5. ~LockWrite(c)
  <2>1. ASSUME LockWrite(c) PROVE cmd'[c].at = "load"
    BY <2>1, WriterFinds DEF Moved
  <2> QED BY <1>3, <2>1
<1>6. Shrinks /\ imports' = imports
  BY <1>4, <1>5, ForceSteps, NotesStay DEF NoWrite
<1>7. CASE vendor' = vendor /\ ~Vendored(c)
  <2>1. past'.vendored \subseteq past.vendored
    BY <1>4, <1>7, VendoredNotes
  <2> QED BY <1>3, <1>6, <1>7, <2>1, LockstepFrame
<1>8. CASE SwapFails(c) /\ ~Vendored(c)
  <2> DEFINE u == Current(c)
  <2>1. cmd[c].at \in {"swap", "install"}
    BY <1>8 DEF SwapFails, At
  <2>2. cmd[c].todo # {} /\ cmd[c].todo \subseteq cmd[c].units /\ vendor[u] # cmd[c].entry[u].tree
    BY <2>1 DEF Ours, Progress, VendorProgress, Handling, Vendoring
  <2>3. u \in cmd[c].units /\ u \in Urls
    BY <1>1, <2>2, CurrentOpen
  <2>4. \A v \in Urls \ {u} : vendor'[v] = vendor[v]
    BY <1>1, <1>8 DEF SwapFails, tree
  <2>5. cmd[c].at \in Vendoring \ {"stray"} /\ ~At(c, "idle")
    BY <2>1 DEF Vendoring, At
  <2>6. /\ u \notin past.vendored
        /\ \A d \in Commands, p \in [Urls -> Pins] :
              ~At(d, "idle") /\ InForce(p) /\ u \in imports => ~Relies(d, u, p)
    BY <2>2, <2>3, <2>5, NobodyRelies
  <2>7. past'.vendored \subseteq past.vendored
    BY <1>4, <1>8, VendoredNotes
  <2> HIDE DEF u
  <2> QED BY <1>3, <1>6, <2>3, <2>4, <2>5, <2>6, <2>7, TouchLockstep
<1>9. CASE Vendored(c)
  <2>1. /\ At(c, "copy") /\ cmd[c].todo = {} /\ UNCHANGED <<world, pins, tree>>
        /\ past'.vendored = past.vendored \cup {u \in cmd[c].units : pins[u] = cmd[c].entry[u]}
    BY <1>1, <1>9 DEF Vendored, Pasts
  <2>2. /\ cmd[c].at \in After /\ InVendor(c) /\ ~At(c, "idle") /\ Open(c) = {}
    BY <2>1 DEF At, After, Vendoring, InVendor, Open, Fetching
  <2>3. ~cmd[c].failed /\ cmd[c].kind = "vendor"
    BY <2>1, <2>2 DEF Ours, Progress, Vendoring, At
  <2>4. ASSUME NEW p \in [Urls -> Pins], InForce(p)' PROVE VendoredAs(p)'
    <3>1. VendoredAs(p) /\ AbreastOf(c, p)
      BY <1>6, <2>2, <2>4 DEF Lockstep, Shrinks, Abreast
    <3>2. ASSUME NEW u \in cmd[c].units PROVE p[u] \in WholePins /\ vendor[u] = p[u].tree
      <4>1. p[u] = cmd[c].entry[u]
        BY <2>2, <2>3, <3>1 DEF AbreastOf
      <4>2. vendor[u] = cmd[c].entry[u].tree
        BY <2>1, <2>2 DEF Ours, VendorProgress
      <4> QED BY <2>2, <2>3, <4>1, <4>2, FoundUnits
    <3> QED BY <2>1, <3>1, <3>2 DEF VendoredAs, tree
  <2>5. ASSUME NEW d \in Commands, ~At(d, "idle")'
        PROVE  cmd'[d].units = imports' /\ Abreast(d)'
    <3>1. d # c
      BY <1>3, <2>5 DEF At
    <3>2. SameView(d) /\ cmd'[d] = cmd[d]
      BY <1>3, <3>1, ViewOfOthers
    <3> QED BY <1>6, <2>1, <2>5, <3>2, ViewKept DEF At, tree
  <2>6. ASSUME NEW d \in Commands PROVE GotVerified(d)'
    BY <1>3, ViewOfOthers DEF Lockstep, GotVerified, At
  <2> QED BY <2>4, <2>5, <2>6 DEF Lockstep
<1>10. vendor' = vendor \/ SwapFails(c)
  BY DEF EndStep, Load, Answer, CopyFails, DropOldFails, StrayFails, Vendored, Die, tree
<1> QED BY <1>7, <1>8, <1>9, <1>10

LEMMA RunLockstep ==
  ASSUME Ours, FirstKept, LockstepKept, NEW c \in Commands, Run(c)
  PROVE  LockstepKept'
<1> SUFFICES ASSUME Steady' PROVE Lockstep'
  BY DEF LockstepKept
<1>1. Honest' /\ Honest
  BY ForceSteps DEF Steady
<1>2. Lockstep
  BY <1>1, NotesStay DEF Steady, LockstepKept
<1>3. LockStep(c) => LockKept(c) \/ LockTruncate(c) \/ LockWrite(c)
  BY <1>1 DEF LockStep, LockWriteFails, Honest, Ours, RemoteTypeOK, Pasts
<1> QED
  BY <1>1, <1>2, <1>3, StepKinds, StartLockstep, ResolutionLockstep, KeepLockstep, WriteLockstep,
     LoadLockstep, VendorLockstep, EndLockstep

LEMMA WorldLockstep ==
  ASSUME Ours, LockstepKept, NEW u \in Urls, Release(u) \/ EditImports(u)
  PROVE  LockstepKept'
<1> SUFFICES ASSUME Steady' PROVE Lockstep'
  BY DEF LockstepKept
<1>1. RemoteTypeOK /\ past \in Pasts /\ past' \in Pasts
  BY WorldOurs DEF Ours, RemoteTypeOK
<1>2. /\ UNCHANGED <<pins, stores, tree, cmd>>
      /\ past'.raced = past.raced /\ past'.cut = past.cut /\ past'.vendored = past.vendored
      /\ past'.edited = FALSE => past.edited = FALSE
      /\ imports' # imports /\ past'.edited = FALSE => \A c \in Commands : cmd[c] = Idle
  BY <1>1, WorldForce
<1>3. past'.edited = FALSE
  BY <1>1 DEF Steady, Pasts
<1>4. Lockstep
  BY <1>2, <1>3 DEF Steady, Honest, LockstepKept
<1>5. imports' = imports \/ \A c \in Commands : At(c, "idle")
  BY <1>2, <1>3 DEF At, Idle
<1>6. \A c \in Commands : ~At(c, "idle")' => cmd'[c].units = imports'
  BY <1>2, <1>4, <1>5 DEF Lockstep, At
<1>7. \A p : InForce(p)' = InForce(p)
  BY <1>2 DEF InForce, Writing, At
<1>8. \A c \in Commands : Abreast(c) => Abreast(c)'
  BY <1>2, <1>7 DEF Abreast, AbreastOf, Open, At, tree
<1>9. \A p : VendoredAs(p) => VendoredAs(p)'
  BY <1>2 DEF VendoredAs, tree
<1>10. \A c \in Commands : GotVerified(c) => GotVerified(c)'
  BY <1>2 DEF GotVerified, At
<1> QED BY <1>2, <1>4, <1>6, <1>7, <1>8, <1>9, <1>10 DEF Lockstep, At

-----------------------------------------------------------------------------

LEMMA InitKept == RemoteInit => FirstKept /\ LockstepKept
<1> SUFFICES ASSUME RemoteInit PROVE FirstKept /\ LockstepKept
  OBVIOUS
<1>1. \A c \in Commands : cmd[c] = Idle
  BY DEF RemoteInit
<1>2. \A c \in Commands : At(c, "idle") /\ ~Writing(c) /\ ~At(c, "loaded")
  BY <1>1 DEF At, Writing, Idle
<1>3. \A p : InForce(p) => p = pins
  BY <1>2 DEF InForce
<1>4. /\ past.first = [u \in Urls |-> IF pins[u] = None THEN None ELSE pins[u].sha]
      /\ past.vendored = {}
  BY DEF RemoteInit
<1>5. FirstKept
  BY <1>2, <1>3, <1>4 DEF FirstKept
<1>6. Lockstep
  BY <1>2, <1>4 DEF Lockstep, VendoredAs, GotVerified
<1> QED BY <1>5, <1>6 DEF LockstepKept

LEMMA InvStep == RemoteInv /\ [RemoteNext]_remoteVars => RemoteInv'
<1> SUFFICES ASSUME RemoteInv, [RemoteNext]_remoteVars PROVE RemoteInv'
  OBVIOUS
<1>1. Ours'
  BY StepOurs DEF RemoteInv
<1>2. ASSUME NEW c \in Commands, Run(c) PROVE FirstKept' /\ LockstepKept'
  BY <1>2, RunFirst, RunLockstep DEF RemoteInv
<1>3. ASSUME NEW u \in Urls, Release(u) \/ EditImports(u) PROVE FirstKept' /\ LockstepKept'
  BY <1>3, WorldFirst, WorldLockstep DEF RemoteInv
<1>4. CASE UNCHANGED remoteVars
  <2>1. UNCHANGED <<imports, pins, vendor, cmd, past>>
    BY <1>4 DEF remoteVars, world, tree
  <2>2. FirstKept'
    BY <2>1 DEF RemoteInv, FirstKept, Honest, InForce, Writing, At
  <2>3. \A p : InForce(p)' = InForce(p) /\ VendoredAs(p)' = VendoredAs(p)
    BY <2>1 DEF InForce, Writing, At, VendoredAs
  <2>4. \A c \in Commands : Abreast(c) => Abreast(c)'
    BY <2>1, <2>3 DEF Abreast, AbreastOf, Open, At
  <2>5. \A c \in Commands : GotVerified(c) => GotVerified(c)'
    BY <2>1 DEF GotVerified, At
  <2>6. Lockstep => Lockstep'
    BY <2>1, <2>3, <2>4, <2>5 DEF Lockstep, At
  <2>7. LockstepKept'
    BY <2>1, <2>6 DEF RemoteInv, LockstepKept, Steady, Honest
  <2> QED BY <1>1, <2>2, <2>7 DEF RemoteInv
<1> QED BY <1>1, <1>2, <1>3, <1>4 DEF RemoteInv, RemoteNext

(* While commands do not lose each other's lockfile, a unit stays what it  *)
(* was pinned to first (materialize_imports compares what it fetched with  *)
(* the pin); while the manifest is not edited under a command, what        *)
(* `ridl vendor` has vendored stays as pinned and what a build reads is    *)
(* what it verified, although write_vendor may run between the two.        *)
THEOREM PinsStay == RemoteSpec => []PinsHold
<1>1. RemoteInv => PinsHold
  <2> SUFFICES ASSUME RemoteInv, Kept PROVE
        /\ \A u \in Urls : past.first[u] # None => pins[u] # None /\ pins[u].sha = past.first[u]
        /\ ~past.edited =>
             /\ \A u \in past.vendored : pins[u] # None /\ vendor[u] = pins[u].tree
             /\ \A c \in Commands : At(c, "loaded") =>
                  \A u \in cmd[c].units : cmd[c].got[u] = cmd[c].entry[u].tree
    BY DEF PinsHold
  <2>1. InForce(pins) /\ pins \in [Urls -> Pins] /\ Honest
    BY DEF Kept, InForce, RemoteInv, Ours, RemoteTypeOK, Honest
  <2>2. \A u \in Urls : past.first[u] # None => pins[u] # None /\ pins[u].sha = past.first[u]
    BY <2>1 DEF RemoteInv, FirstKept
  <2>3. ASSUME ~past.edited
        PROVE  /\ \A u \in past.vendored : pins[u] # None /\ vendor[u] = pins[u].tree
               /\ \A c \in Commands : At(c, "loaded") =>
                  \A u \in cmd[c].units : cmd[c].got[u] = cmd[c].entry[u].tree
    <3>1. Lockstep
      BY <2>1, <2>3 DEF RemoteInv, LockstepKept, Steady
    <3> QED BY <2>1, <3>1, NoneApart DEF Lockstep, VendoredAs, GotVerified
  <2> QED BY <2>2, <2>3
<1>2. RemoteInit => RemoteInv
  BY InitOurs, InitKept DEF RemoteInv
<1> QED BY <1>1, <1>2, InvStep, PTL DEF RemoteSpec

-----------------------------------------------------------------------------
(* The publication of a baseline.                                          *)

Replacing == {"link", "install", "rollback"}
Marking == {"write", "unmark"} \cup Replacing
Listing == {"mark", "clean"} \cup Marking
PublisherPhases == {"idle", "staging", "staged", "rename", "scan"} \cup Listing \cup Ended

MaybeDirs == Dirs \cup {Absent}
MaybeVersions == Versions \cup {Absent}

Readers ==
  [at : {"idle", "list", "read", "accepted", "refused"}, names : SUBSET Snapshots, got : Dirs]

Histories ==
  [last : MaybeVersions, marked : [Publishers -> MaybeVersions],
   committed : SUBSET Publishers, raced : BOOLEAN]

PublicationTypeOK ==
  /\ out \in MaybeDirs
  /\ marker \in Publishers \cup {Absent}
  /\ stage \in [Publishers -> MaybeDirs]
  /\ backup \in [Publishers -> MaybeDirs]
  /\ pc \in [Publishers -> PublisherPhases]
  /\ old \in [Publishers -> SUBSET Names]
  /\ moved \in [Publishers -> Seq(Names)]
  /\ installed \in [Publishers -> Seq(Names)]
  /\ retained \in [Publishers -> SUBSET Names]
  /\ failed \in [Publishers -> BOOLEAN]
  /\ preserve \in [Publishers -> BOOLEAN]
  /\ reader \in Readers
  /\ history \in Histories

-----------------------------------------------------------------------------
(* The inductive invariant: what holds whoever lists a stale directory.    *)

(* A directory that is there has a context and a publication.              *)
Directory ==
  /\ marker # Absent => out # Absent
  /\ reader.at # "idle" => out # Absent
  /\ out # Absent => out[Context] # Absent /\ history.last \in Versions

(* The marker stands while its process replaces.                           *)
Here(p) ==
  /\ pc[p] \in {"scan"} \cup Listing => out # Absent
  /\ pc[p] \in Marking => marker = p

NoRepeats(s) == \A i, j \in DOMAIN s : s[i] = s[j] => i = j

(* The lists of a replacement as the code reads them.                      *)
Lists(p) ==
  /\ pc[p] \in Listing => Context \in old[p]
  /\ pc[p] \notin Replacing \cup {"unmark", "clean"} =>
       moved[p] = <<>> /\ installed[p] = <<>> /\ retained[p] = {} /\ ~failed[p]
  /\ pc[p] \in {"link", "install"} => retained[p] = {} /\ ~failed[p]
  /\ pc[p] = "install" => Fresh(p) # {}
  /\ pc[p] \in Replacing =>
       /\ NoRepeats(installed[p]) /\ NoRepeats(moved[p])
       /\ ToSet(installed[p]) \cup retained[p] \subseteq Managed(p)
       /\ ToSet(moved[p]) \subseteq old[p]
       /\ ToSet(installed[p]) \cap old[p] \subseteq ToSet(moved[p])
       /\ ToSet(installed[p]) \cap retained[p] = {}
  /\ pc[p] = "link" => ToSet(moved[p]) \cap Managed(p) \subseteq ToSet(installed[p])
  /\ pc[p] = "install" =>
       /\ ToSet(moved[p]) \cap Managed(p) \subseteq ToSet(installed[p]) \cup {First(Fresh(p))}
       /\ First(Fresh(p)) \in old[p] => First(Fresh(p)) \in ToSet(moved[p])

(* A fresh file is in the directory once it is installed, and staged       *)
(* before that and after it is retracted.                                  *)
InPlace(p) ==
  \A n \in Managed(p) :
    IF n \in ToSet(installed[p]) \cup retained[p] THEN out[n] = Written(p)
                                                  ELSE stage[p][n] = Written(p)

Staged(p) ==
  /\ pc[p] \in {"staged", "rename", "scan", "mark", "write"} => stage[p] = Emitted(p)
  /\ pc[p] \in {"mark", "write"} \cup Replacing => backup[p] # Absent
  /\ pc[p] \in Replacing =>
       /\ stage[p] # Absent
       /\ InPlace(p)
       /\ \A n \in ToSet(moved[p]) : backup[p][n] # Absent

Sound(p) == Here(p) /\ Lists(p) /\ Staged(p)

Safe == PublicationTypeOK /\ Directory /\ \A p \in Publishers : Sound(p)

-----------------------------------------------------------------------------
(* What holds besides as long as nobody replaced a list that was stale.    *)

Base(p) == history.marked[p]

As(n, v) == out[n] = IF n \in Managed(v) THEN Written(v) ELSE Absent

(* What has been replaced of the publication that was listed.              *)
Replaced(p) ==
  pc[p] \in {"write"} \cup Replacing =>
    /\ Base(p) = history.last /\ p \notin history.committed
    /\ Base(p) \in Versions /\ old[p] = Managed(Base(p))
    /\ \A n \in ToSet(moved[p]) : backup[p][n] = Written(Base(p))
    /\ pc[p] \in {"link", "install"} => \A n \in ToSet(moved[p]) \ Managed(p) : out[n] = Absent
    /\ ~failed[p] => \A n \in Names \ (ToSet(installed[p]) \cup ToSet(moved[p])) : As(n, Base(p))

BackedUp(p) == \A n \in Managed(Base(p)) : IsFrom(backup[p][n], Base(p))

(* A backup that is to be kept is complete after the commit.               *)
Committed(p) ==
  /\ p \in history.committed => pc[p] \in {"unmark", "clean"} \cup Ended
  /\ pc[p] \in {"unmark", "clean"} => p \in history.committed
  /\ p \in history.committed /\ (preserve[p] \/ pc[p] \in {"unmark", "clean"}) => BackedUp(p)
  /\ preserve[p] => pc[p] \in Ended

(* What is marked can be put right.                                        *)
BaseSomewhere(p) ==
  \A n \in Managed(Base(p)) : IsFrom(out[n], Base(p)) \/ IsFrom(backup[p][n], Base(p))
FreshSomewhere(p) == \A n \in Managed(p) : IsFrom(out[n], p) \/ IsFrom(stage[p][n], p)

Unfinished(p) ==
  /\ marker = p => pc[p] \in Marking \cup {"clean"} \cup Ended
  /\ marker = p /\ p \notin history.committed => BaseSomewhere(p) /\ FreshSomewhere(p)

Exact(p) == Replaced(p) /\ Committed(p) /\ Unfinished(p)

Whole ==
  out # Absent /\ (marker = Absent \/ \E p \in Publishers : pc[p] = "unmark")
    => \A n \in Names : As(n, history.last)

PublicationInv ==
  /\ Safe
  /\ ReadsAreWhole
  /\ ~history.raced => Whole /\ \A p \in Publishers : Exact(p)

-----------------------------------------------------------------------------
(* Files, directories, names and lists. *)

LEMMA AbsentApart ==
  /\ \A d \in Dirs : d # Absent
  /\ \A f \in Files : f # Absent
  /\ \A v \in Versions : v # Absent
  BY AbsentAssumption, PublicationAssumption DEF Versions

LEMMA FileFacts ==
  /\ \A v \in Versions : /\ Written(v) \in Files /\ IsFrom(Written(v), v)
                         /\ Written(v) # Absent
  /\ \A f \in Files : Torn(f) \in Files
<1>1. \A v \in Versions : Written(v) \in Files /\ IsFrom(Written(v), v) /\ Written(v) # Absent
  BY AbsentApart DEF Written, Files, IsFrom
<1>2. \A f \in Files : Torn(f) \in Files
  BY DEF Torn, Files
<1> QED BY <1>1, <1>2

LEMMA ManagedNames ==
  \A v \in Versions : Managed(v) \subseteq Names /\ Context \in Managed(v)
  BY PublicationAssumption DEF Managed, Names, Versions

LEMMA EmittedFacts ==
  ASSUME NEW v \in Versions
  PROVE  /\ Emitted(v) \in Dirs /\ Emitted(v) # Absent
         /\ \A n \in Names : Emitted(v)[n] = IF n \in Managed(v) THEN Written(v) ELSE Absent
<1>1. Emitted(v) \in Dirs
  BY FileFacts DEF Emitted, Dirs
<1> QED BY <1>1, AbsentApart DEF Emitted

LEMMA EmptyDirFacts == EmptyDir \in Dirs /\ EmptyDir # Absent
<1>1. EmptyDir \in Dirs
  BY DEF EmptyDir, Dirs
<1> QED BY <1>1, AbsentApart

\* A file of a directory is replaced or removed, ...
Put(d, e, n, f) == d = [e EXCEPT ![n] = f]

LEMMA OneFile ==
  ASSUME NEW e \in Dirs, NEW n \in Names, NEW f \in Files \cup {Absent}, NEW d, Put(d, e, n, f)
  PROVE  /\ d \in Dirs /\ d # Absent
         /\ \A m \in Names : d[m] = IF m = n THEN f ELSE e[m]
<1>1. d \in Dirs
  BY DEF Put, Dirs
<1> QED BY <1>1, AbsentApart DEF Put, Dirs

\* ... a file of the directory of one process.
PutOf(h, g, p, n, f) == h = [g EXCEPT ![p][n] = f]

LEMMA OneOfMany ==
  ASSUME NEW g \in [Publishers -> MaybeDirs], NEW p \in Publishers, g[p] # Absent,
         NEW n \in Names, NEW f \in Files \cup {Absent}, NEW h, PutOf(h, g, p, n, f)
  PROVE  /\ h \in [Publishers -> MaybeDirs]
         /\ h[p] # Absent
         /\ \A m \in Names : h[p][m] = IF m = n THEN f ELSE g[p][m]
<1>1. g[p] \in Dirs
  BY DEF MaybeDirs
<1>2. h = [g EXCEPT ![p] = [g[p] EXCEPT ![n] = f]]
  BY DEF PutOf
<1> DEFINE d == [g[p] EXCEPT ![n] = f]
<1>3. h = [g EXCEPT ![p] = d]
  BY <1>2
<1>4. Put(d, g[p], n, f)
  BY DEF Put
<1> HIDE DEF d
<1>5. d \in Dirs /\ d # Absent /\ \A m \in Names : d[m] = IF m = n THEN f ELSE g[p][m]
  BY <1>1, <1>4, OneFile
<1>6. h \in [Publishers -> MaybeDirs] /\ h[p] = d
  BY <1>3, <1>5 DEF MaybeDirs
<1> QED BY <1>5, <1>6

LEMMA OneGone ==
  ASSUME NEW g \in [Publishers -> MaybeDirs], NEW p \in Publishers, g[p] # Absent,
         NEW n \in Names, NEW h, PutOf(h, g, p, n, Absent)
  PROVE  /\ h \in [Publishers -> MaybeDirs]
         /\ h[p] # Absent
         /\ \A m \in Names : h[p][m] = IF m = n THEN Absent ELSE g[p][m]
<1>1. PICK f \in Files \cup {Absent} : f = Absent
  OBVIOUS
<1>2. PutOf(h, g, p, n, f)
  BY <1>1
<1>3. /\ h \in [Publishers -> MaybeDirs] /\ h[p] # Absent
      /\ \A m \in Names : h[p][m] = IF m = n THEN f ELSE g[p][m]
  BY <1>2, OneOfMany
<1> QED BY <1>1, <1>3

LEMMA FirstOfNames ==
  ASSUME NEW S \in SUBSET Nat, S # {}
  PROVE  Min(S) \in S
<1> DEFINE R == OpToRel(<, Nat)
<1>1. IsWellFoundedOn(R, Nat)
  BY NatLessThanWellFounded
<1>2. PICK x \in S : \A y \in S : ~(<<y, x>> \in R)
  <2> HIDE DEF R
  <2> QED BY <1>1, WFMin, Zenon
<1>3. \A y \in S : ~(y < x)
  BY <1>2 DEF OpToRel
<1>4. \A y \in S : x =< y
  BY <1>3
<1> QED BY <1>4 DEF Min

LEMMA FirstIn ==
  ASSUME NEW S \in SUBSET Names, S # {}
  PROVE  First(S) \in S
<1>1. CASE S = {Context}
  BY <1>1 DEF First
<1>2. CASE S # {Context}
  <2>1. S \ {Context} \in SUBSET Nat /\ S \ {Context} # {}
    BY <1>2, PublicationAssumption DEF Names
  <2> QED BY <1>2, <2>1, FirstOfNames DEF First
<1> QED BY <1>1, <1>2

LEMMA Appended ==
  ASSUME NEW s \in Seq(Names), NEW n \in Names
  PROVE  /\ Append(s, n) \in Seq(Names)
         /\ ToSet(Append(s, n)) = ToSet(s) \cup {n}
         /\ NoRepeats(s) /\ n \notin ToSet(s) => NoRepeats(Append(s, n))
<1>1. /\ Append(s, n) \in Seq(Names)
      /\ DOMAIN s = 1..Len(s) /\ Len(s) \in Nat
      /\ DOMAIN Append(s, n) = 1..(Len(s) + 1)
      /\ \A i \in 1..Len(s) : Append(s, n)[i] = s[i]
      /\ Append(s, n)[Len(s) + 1] = n
  OBVIOUS
<1> DEFINE t == Append(s, n)
<1> HIDE DEF t
<1>2. ToSet(t) = ToSet(s) \cup {n}
  <2>1. \A i \in DOMAIN t : t[i] = n \/ (i \in DOMAIN s /\ t[i] = s[i])
    BY <1>1 DEF t
  <2>2. \A i \in DOMAIN s : i \in DOMAIN t /\ t[i] = s[i]
    BY <1>1 DEF t
  <2>3. \E i \in DOMAIN t : t[i] = n
    BY <1>1 DEF t
  <2> QED BY <2>1, <2>2, <2>3 DEF ToSet
<1>3. ASSUME NoRepeats(s), n \notin ToSet(s)
      PROVE  NoRepeats(t)
  <2>1. \A i \in DOMAIN s : s[i] # n
    BY <1>3 DEF ToSet
  <2>2. \A i \in DOMAIN t : i \in DOMAIN s \/ i = Len(s) + 1
    BY <1>1 DEF t
  <2>3. \A i \in DOMAIN s : t[i] = s[i]
    BY <1>1 DEF t
  <2>4. t[Len(s) + 1] = n
    BY <1>1 DEF t
  <2>5. \A i, j \in DOMAIN s : s[i] = s[j] => i = j
    BY <1>3 DEF NoRepeats
  <2> QED BY <2>1, <2>2, <2>3, <2>4, <2>5 DEF NoRepeats
<1> QED BY <1>1, <1>2, <1>3 DEF t

LEMMA Dropped ==
  ASSUME NEW s \in Seq(Names), s # <<>>
  PROVE  /\ Front(s) \in Seq(Names)
         /\ Last(s) \in ToSet(s) /\ Last(s) \in Names
         /\ ToSet(s) = ToSet(Front(s)) \cup {Last(s)}
         /\ NoRepeats(s) => NoRepeats(Front(s)) /\ Last(s) \notin ToSet(Front(s))
<1>1. DOMAIN s = 1..Len(s) /\ Len(s) \in Nat /\ Len(s) >= 1
  OBVIOUS
<1> DEFINE t == Front(s)
<1>2. /\ t \in Seq(Names)
      /\ DOMAIN t = 1..(Len(s) - 1)
      /\ \A i \in 1..(Len(s) - 1) : t[i] = s[i]
  BY <1>1 DEF Front
<1>3. Last(s) = s[Len(s)] /\ Last(s) \in Names
  BY <1>1 DEF Last
<1> HIDE DEF t
<1>4. \A i \in DOMAIN t : i \in DOMAIN s /\ t[i] = s[i] /\ i # Len(s)
  BY <1>1, <1>2
<1>5. \A i \in DOMAIN s : i \in DOMAIN t \/ i = Len(s)
  BY <1>1, <1>2
<1>6. Last(s) \in ToSet(s)
  BY <1>1, <1>3 DEF ToSet
<1>7. ToSet(s) = ToSet(t) \cup {Last(s)}
  BY <1>3, <1>4, <1>5, <1>6 DEF ToSet
<1>8. ASSUME NoRepeats(s) PROVE NoRepeats(t) /\ Last(s) \notin ToSet(t)
  <2>1. \A i, j \in DOMAIN s : s[i] = s[j] => i = j
    BY <1>8 DEF NoRepeats
  <2>2. NoRepeats(t)
    BY <2>1, <1>4 DEF NoRepeats
  <2>3. Len(s) \in DOMAIN s
    BY <1>1
  <2> QED BY <2>1, <2>2, <2>3, <1>3, <1>4 DEF ToSet
<1> QED BY <1>2, <1>3, <1>6, <1>7, <1>8 DEF t

LEMMA NothingListed == ToSet(<<>>) = {} /\ NoRepeats(<<>>) /\ <<>> \in Seq(Names)
  BY DEF ToSet, NoRepeats

-----------------------------------------------------------------------------
(* What a step of one process leaves of the others. *)

Same(q) ==
  /\ stage'[q] = stage[q] /\ backup'[q] = backup[q] /\ pc'[q] = pc[q]
  /\ old'[q] = old[q] /\ moved'[q] = moved[q] /\ installed'[q] = installed[q]
  /\ retained'[q] = retained[q] /\ failed'[q] = failed[q] /\ preserve'[q] = preserve[q]
  /\ history'.marked[q] = history.marked[q]
  /\ q \in history'.committed <=> q \in history.committed
  /\ marker' = q <=> marker = q
  /\ marker = q => out' = out /\ history'.last = history.last

Others(p) == \A q \in Publishers \ {p} : Same(q)

\* Only who has the marker replaces anything, and nobody else moves it.
LEMMA OthersKept ==
  ASSUME PublicationTypeOK, Directory, NEW p \in Publishers, Here(p), Publish(p)
  PROVE  Others(p)
<1> SUFFICES ASSUME NEW q \in Publishers, q # p
             PROVE  Same(q)
  BY DEF Others
<1> USE DEF Same, Go
<1>0. /\ q # Absent
      /\ marker = q => out # Absent
      /\ pc[p] \in Marking => marker = p
  BY PublicationAssumption DEF Directory, Here
<1> DEFINE Typed == /\ stage \in [Publishers -> MaybeDirs] /\ backup \in [Publishers -> MaybeDirs]
                    /\ pc \in [Publishers -> PublisherPhases] /\ old \in [Publishers -> SUBSET Names]
                    /\ moved \in [Publishers -> Seq(Names)] /\ installed \in [Publishers -> Seq(Names)]
                    /\ retained \in [Publishers -> SUBSET Names] /\ failed \in [Publishers -> BOOLEAN]
                    /\ preserve \in [Publishers -> BOOLEAN] /\ history \in Histories
<1>t. Typed
  BY DEF PublicationTypeOK
<1>e. ASSUME Exit(p)
      PROVE  /\ old'[q] = old[q] /\ moved'[q] = moved[q] /\ installed'[q] = installed[q]
             /\ retained'[q] = retained[q] /\ failed'[q] = failed[q]
  BY <1>e, <1>t DEF Exit
<1>1. CASE Begin(p)
  BY <1>1, <1>t, <1>0 DEF Begin, lists, rest, Marking, Replacing
<1>2. CASE BeginRefused(p)
  BY <1>2, <1>t, <1>0 DEF BeginRefused, lists, rest, Marking, Replacing
<1>3. CASE Stage(p)
  BY <1>3, <1>t, <1>0 DEF Stage, lists, rest, Marking, Replacing
<1>4. CASE StageRefused(p)
  BY <1>4, <1>t, <1>0 DEF StageRefused, lists, rest, Marking, Replacing
<1>5. CASE Probe(p)
  BY <1>5, <1>t, <1>0 DEF Probe, lists, rest, Marking, Replacing
<1>6. CASE FirstPublished(p)
  <2>1. history'.marked = history.marked /\ history'.committed = history.committed
    BY <1>6 DEF FirstPublished
  <2>2. marker # q /\ marker' # q
    BY <1>6, <1>0 DEF FirstPublished
  <2> QED BY <1>6, <1>t, <2>1, <2>2 DEF FirstPublished, lists
<1>7. CASE FirstFailed(p)
  BY <1>7, <1>t, <1>0 DEF FirstFailed, lists, rest, Marking, Replacing
<1>8. CASE Scan(p)
  BY <1>8, <1>t, <1>0 DEF Scan, lists, rest, Marking, Replacing
<1>9. CASE Mark(p)
  <2>1. history'.marked[q] = history.marked[q] /\ history'.committed = history.committed
    BY <1>9, <1>t DEF Mark, Histories
  <2>2. marker # q /\ marker' # q
    BY <1>9, <1>0 DEF Mark
  <2> QED BY <1>9, <1>t, <2>1, <2>2 DEF Mark, lists
<1>10. CASE MarkRefused(p)
  BY <1>10, <1>t, <1>0, <1>e DEF MarkRefused, lists, rest, Marking, Replacing
<1>11. CASE WriteMarker(p)
  BY <1>11, <1>t, <1>0 DEF WriteMarker, lists, rest, Marking, Replacing
<1>12. CASE WriteMarkerFailed(p)
  <2>1. pc[p] \in Marking
    BY <1>12 DEF WriteMarkerFailed, Marking, Replacing
  <2>2. marker # q /\ marker' # q
    BY <1>12, <1>0, <2>1 DEF WriteMarkerFailed
  <2> QED BY <1>12, <1>t, <2>2, <1>e DEF WriteMarkerFailed, lists, rest
<1>13. CASE LinkOld(p)
  BY <1>13, <1>t, <1>0 DEF LinkOld, lists, rest, Marking, Replacing
<1>14. CASE LinkOldFailed(p)
  BY <1>14, <1>t, <1>0 DEF LinkOldFailed, lists, rest, Marking, Replacing
<1>15. CASE Install(p)
  BY <1>15, <1>t, <1>0 DEF Install, lists, rest, Marking, Replacing
<1>16. CASE InstallFailed(p)
  BY <1>16, <1>t, <1>0 DEF InstallFailed, lists, rest, Marking, Replacing
<1>17. CASE MoveStale(p)
  BY <1>17, <1>t, <1>0 DEF MoveStale, lists, rest, Marking, Replacing
<1>18. CASE MoveStaleFailed(p)
  BY <1>18, <1>t, <1>0 DEF MoveStaleFailed, lists, rest, Marking, Replacing
<1>19. CASE Commit(p)
  BY <1>19, <1>t, <1>0 DEF Commit, lists, rest, Histories, Marking, Replacing
<1>20. CASE Unmark(p)
  <2>1. pc[p] \in Marking
    BY <1>20 DEF Unmark, Marking, Replacing
  <2>2. marker # q /\ marker' # q
    BY <1>20, <1>0, <2>1 DEF Unmark
  <2> QED BY <1>20, <1>t, <2>2 DEF Unmark, lists, rest
<1>21. CASE Clean(p)
  BY <1>21, <1>t, <1>0, <1>e DEF Clean, lists, rest, Marking, Replacing
<1>22. CASE Retract(p)
  BY <1>22, <1>t, <1>0 DEF Retract, lists, rest, Marking, Replacing
<1>23. CASE RetractFailed(p)
  BY <1>23, <1>t, <1>0 DEF RetractFailed, lists, rest, Marking, Replacing
<1>24. CASE Restore(p)
  BY <1>24, <1>t, <1>0 DEF Restore, lists, rest, Marking, Replacing
<1>25. CASE RestoreFailed(p)
  BY <1>25, <1>t, <1>0 DEF RestoreFailed, lists, rest, Marking, Replacing
<1>26. CASE Settle(p)
  <2>1. pc[p] \in Marking
    BY <1>26 DEF Settle, RolledBack, Marking, Replacing
  <2>2. marker # q /\ marker' # q
    BY <1>26, <1>0, <2>1 DEF Settle
  <2> QED BY <1>26, <1>t, <2>2, <1>e DEF Settle, lists, rest
<1>27. CASE SettleIncomplete(p)
  BY <1>27, <1>t, <1>0, <1>e DEF SettleIncomplete, lists, rest, RolledBack, Marking, Replacing
<1>28. CASE Crash(p)
  BY <1>28, <1>t, <1>0, <1>e DEF Crash, lists, rest, Marking, Replacing
<1> QED BY <1>1, <1>2, <1>3, <1>4, <1>5, <1>6, <1>7, <1>8, <1>9, <1>10, <1>11, <1>12,
        <1>13, <1>14, <1>15, <1>16, <1>17, <1>18, <1>19, <1>20, <1>21, <1>22, <1>23, <1>24,
        <1>25, <1>26, <1>27, <1>28 DEF Publish

\* What holds of a process does not depend on what the others do.
LEMMA OthersSound ==
  ASSUME Safe, NEW p \in Publishers, Others(p), out # Absent => out' # Absent,
         NEW q \in Publishers, q # p
  PROVE  Sound(q)'
<1>1. Same(q) /\ Sound(q)
  BY DEF Others, Safe
<1>2. Here(q)'
  BY <1>1 DEF Same, Sound, Here
<1>3. Fresh(q)' = Fresh(q) /\ ToSet(moved[q])' = ToSet(moved[q])
      /\ ToSet(installed[q])' = ToSet(installed[q])
  BY <1>1 DEF Same, Fresh
<1>4. Lists(q)'
  BY <1>1, <1>3 DEF Same, Sound, Lists
<1>5. pc[q] \in Replacing => InPlace(q)'
  BY <1>1, <1>3 DEF Same, Sound, Here, Staged, InPlace, Marking
<1>6. Staged(q)'
  BY <1>1, <1>3, <1>5 DEF Same, Sound, Staged
<1> QED BY <1>2, <1>4, <1>6 DEF Sound

LEMMA OthersExact ==
  ASSUME NEW p \in Publishers, Others(p), NEW q \in Publishers, q # p, Here(q), Exact(q)
  PROVE  Exact(q)'
<1>1. Same(q)
  BY DEF Others
<1>2. Base(q)' = Base(q) /\ ToSet(moved[q])' = ToSet(moved[q])
      /\ ToSet(installed[q])' = ToSet(installed[q])
  BY <1>1 DEF Same, Base
<1>3. Replaced(q)'
  <2>1. CASE pc[q] \in {"write"} \cup Replacing
    <3>1. marker = q /\ out' = out /\ history'.last = history.last
      BY <1>1, <2>1 DEF Here, Marking, Same
    <3>2. \A n \in Names : As(n, Base(q)) => As(n, Base(q))'
      BY <3>1, <1>2 DEF As
    <3> QED BY <1>1, <1>2, <2>1, <3>1, <3>2 DEF Exact, Replaced, Same
  <2>2. CASE pc[q] \notin {"write"} \cup Replacing
    BY <1>1, <2>2 DEF Same, Replaced
  <2> QED BY <2>1, <2>2
<1>4. Committed(q)'
  BY <1>1, <1>2 DEF Exact, Committed, Same, BackedUp
<1>5. Unfinished(q)'
  BY <1>1, <1>2 DEF Exact, Unfinished, BaseSomewhere, FreshSomewhere, Same
<1> QED BY <1>3, <1>4, <1>5 DEF Exact

-----------------------------------------------------------------------------
(* Before the replacement. *)

\* What a step of p has to show.
SafeAfter(p) == PublicationTypeOK' /\ Directory' /\ Sound(p)' /\ (out # Absent => out' # Absent)

\* The lists are empty but for what a replacement puts in.
NoLists(p) == moved[p] = <<>> /\ installed[p] = <<>> /\ retained[p] = {} /\ ~failed[p]

LEMMA TypeFacts ==
  ASSUME PublicationTypeOK, NEW p \in Publishers
  PROVE  /\ stage \in [Publishers -> MaybeDirs] /\ backup \in [Publishers -> MaybeDirs]
         /\ pc \in [Publishers -> PublisherPhases] /\ old \in [Publishers -> SUBSET Names]
         /\ moved \in [Publishers -> Seq(Names)] /\ installed \in [Publishers -> Seq(Names)]
         /\ retained \in [Publishers -> SUBSET Names] /\ failed \in [Publishers -> BOOLEAN]
         /\ preserve \in [Publishers -> BOOLEAN]
  BY DEF PublicationTypeOK

\* A process that ends keeps no lists.
LEMMA ExitFacts ==
  ASSUME PublicationTypeOK, NEW p \in Publishers, Exit(p)
  PROVE  /\ old' \in [Publishers -> SUBSET Names]
         /\ moved' \in [Publishers -> Seq(Names)] /\ installed' \in [Publishers -> Seq(Names)]
         /\ retained' \in [Publishers -> SUBSET Names] /\ failed' \in [Publishers -> BOOLEAN]
         /\ NoLists(p)'
<1>1. <<>> \in Seq(Names)
  BY NothingListed
<1> QED BY <1>1, TypeFacts DEF Exit, NoLists

LEMMA GoFacts ==
  ASSUME PublicationTypeOK, NEW p \in Publishers, NEW from, NEW to \in PublisherPhases, Go(p, from, to)
  PROVE  pc[p] = from /\ pc'[p] = to /\ pc' \in [Publishers -> PublisherPhases]
  BY TypeFacts DEF Go

\* A process that has ended, or has not listed the directory yet.
LEMMA NotYetSound ==
  ASSUME NEW p \in Publishers,
         pc'[p] \in {"idle", "staging", "staged", "rename", "scan"} \cup Ended,
         pc'[p] = "scan" => out' # Absent,
         pc'[p] \in {"staged", "rename", "scan"} => stage'[p] = Emitted(p),
         NoLists(p)'
  PROVE  Sound(p)'
<1>1. pc'[p] \notin Listing
  BY DEF Listing, Marking, Replacing, Ended
<1>2. pc'[p] \notin Marking /\ pc'[p] \notin Replacing
      /\ pc'[p] \notin {"mark", "clean", "write", "unmark", "link", "install"}
  BY <1>1 DEF Listing, Marking, Replacing
<1>3. Here(p)'
  BY <1>1, <1>2 DEF Here
<1>4. Lists(p)'
  BY <1>1, <1>2 DEF Lists, NoLists
<1>5. Staged(p)'
  BY <1>1, <1>2 DEF Staged
<1> QED BY <1>3, <1>4, <1>5 DEF Sound

\* Of the lists and the directory when they are left alone.
LEMMA DirectoryLeft ==
  ASSUME Directory, UNCHANGED <<out, marker, reader, history>>
  PROVE  Directory' /\ (out # Absent => out' # Absent)
  BY DEF Directory

LEMMA NotYetKept ==
  ASSUME Safe, NEW p \in Publishers,
         \/ Begin(p) \/ BeginRefused(p) \/ Stage(p) \/ StageRefused(p) \/ Probe(p)
         \/ FirstFailed(p)
  PROVE  SafeAfter(p)
<1>1. /\ PublicationTypeOK /\ Directory /\ Sound(p)
      /\ Emitted(p) \in MaybeDirs /\ EmptyDir \in MaybeDirs /\ Absent \in MaybeDirs
  BY EmittedFacts, EmptyDirFacts DEF Safe, MaybeDirs, Versions
<1>2. /\ UNCHANGED <<out, marker, reader, history, backup, preserve>> /\ UNCHANGED lists
      /\ pc[p] \in {"idle", "staging", "staged", "rename"}
  BY DEF Begin, BeginRefused, Stage, StageRefused, Probe, FirstFailed, rest, Go
<1>3. /\ stage' \in [Publishers -> MaybeDirs]
      /\ pc' \in [Publishers -> PublisherPhases]
  <2>1. stage' \in [Publishers -> MaybeDirs]
    BY <1>1, TypeFacts DEF Begin, BeginRefused, Stage, StageRefused, Probe, FirstFailed
  <2>2. {"staging", "refused", "staged", "rename", "scan", "failed"} \subseteq PublisherPhases
    BY DEF PublisherPhases, Ended
  <2>3. pc \in [Publishers -> PublisherPhases]
    BY <1>1, TypeFacts
  <2>4. \E to \in {"staging", "refused", "staged", "rename", "scan", "failed"} :
            pc' = [pc EXCEPT ![p] = to]
    BY DEF Begin, BeginRefused, Stage, StageRefused, Probe, FirstFailed, Go
  <2> QED BY <2>1, <2>2, <2>3, <2>4
<1>4. PublicationTypeOK'
  BY <1>1, <1>2, <1>3 DEF PublicationTypeOK, lists
<1>5. NoLists(p)'
  <2>1. pc[p] \notin Replacing \cup {"unmark", "clean"}
    BY <1>2 DEF Replacing
  <2> QED BY <1>1, <1>2, <2>1 DEF Sound, Lists, NoLists, lists
<1>6. /\ pc'[p] \in {"idle", "staging", "staged", "rename", "scan"} \cup Ended
      /\ pc'[p] = "scan" => out' # Absent
      /\ pc'[p] \in {"staged", "rename", "scan"} => stage'[p] = Emitted(p)
  <2>1. pc \in [Publishers -> PublisherPhases] /\ stage \in [Publishers -> MaybeDirs]
    BY <1>1, TypeFacts
  <2>2. pc[p] \in {"staged", "rename", "scan", "mark", "write"} => stage[p] = Emitted(p)
    BY <1>1 DEF Sound, Staged
  <2> QED BY <2>1, <2>2 DEF Begin, BeginRefused, Stage, StageRefused, Probe, FirstFailed, Go, Ended
<1>7. Sound(p)'
  BY <1>5, <1>6, NotYetSound
<1> QED BY <1>1, <1>2, <1>4, <1>7, DirectoryLeft DEF SafeAfter

LEMMA FirstPublishedKept ==
  ASSUME Safe, NEW p \in Publishers, FirstPublished(p)
  PROVE  SafeAfter(p)
<1>1. PublicationTypeOK /\ Directory /\ Sound(p) /\ p \in Versions
  BY DEF Safe, Versions
<1>2. /\ pc[p] = "rename" /\ pc' = [pc EXCEPT ![p] = "published"]
      /\ stage[p] = Emitted(p)
      /\ out = Absent /\ out' = Emitted(p)
      /\ stage' = [stage EXCEPT ![p] = Absent]
      /\ history' = [history EXCEPT !.last = p]
      /\ UNCHANGED <<marker, backup, lists, preserve, reader>>
  BY <1>1 DEF FirstPublished, Go, Sound, Staged
<1>3. out' \in Dirs /\ out' # Absent /\ out'[Context] # Absent
  BY <1>1, <1>2, EmittedFacts, ManagedNames, FileFacts
<1>4. history' \in Histories /\ history'.last = p
  BY <1>1, <1>2 DEF PublicationTypeOK, Histories, MaybeVersions
<1>5. PublicationTypeOK'
  <2>1. stage' \in [Publishers -> MaybeDirs]
    BY <1>1, <1>2, TypeFacts DEF MaybeDirs
  <2>2. pc' \in [Publishers -> PublisherPhases]
    BY <1>1, <1>2, TypeFacts DEF PublisherPhases, Ended
  <2> QED BY <1>1, <1>2, <1>3, <1>4, <2>1, <2>2 DEF PublicationTypeOK, lists, MaybeDirs
<1>6. Directory'
  BY <1>1, <1>3, <1>4 DEF Directory
<1>7. Sound(p)'
  <2>1. pc'[p] = "published"
    BY <1>1, <1>2, TypeFacts
  <2>2. NoLists(p)'
    <3>1. pc[p] \notin Replacing \cup {"unmark", "clean"}
      BY <1>2 DEF Replacing
    <3> QED BY <1>1, <1>2, <3>1 DEF Sound, Lists, NoLists, lists
  <2> QED BY <2>1, <2>2, NotYetSound DEF Ended
<1> QED BY <1>3, <1>5, <1>6, <1>7 DEF SafeAfter

\* A process that ends: the lists go with it.
LEMMA EndedKept ==
  ASSUME Safe, NEW p \in Publishers,
         \/ MarkRefused(p) \/ WriteMarkerFailed(p) \/ Clean(p)
         \/ Settle(p) \/ SettleIncomplete(p) \/ Crash(p)
  PROVE  SafeAfter(p)
<1>1. PublicationTypeOK /\ Directory /\ Sound(p)
  BY DEF Safe
<1>2. /\ UNCHANGED <<out, reader, history>>
      /\ Exit(p)
      /\ pc[p] \in PublisherPhases
  BY <1>1, TypeFacts DEF MarkRefused, WriteMarkerFailed, Clean, Settle, SettleIncomplete, Crash, rest
<1>3. marker' = Absent \/ marker' = marker \/ (marker' = p /\ pc[p] \in Listing)
  BY DEF MarkRefused, WriteMarkerFailed, Clean, Settle, SettleIncomplete, Crash, RolledBack,
     Go, Listing, Marking, Replacing
<1>4. \E to \in Ended : pc' = [pc EXCEPT ![p] = to]
  BY DEF MarkRefused, WriteMarkerFailed, Clean, Settle, SettleIncomplete, Crash, Go, Ended
<1>5. pc' \in [Publishers -> PublisherPhases] /\ pc'[p] \in Ended
  <2>1. pc \in [Publishers -> PublisherPhases] /\ Ended \subseteq PublisherPhases
    BY <1>1, TypeFacts DEF PublisherPhases
  <2> QED BY <1>4, <2>1
<1>6. stage' \in [Publishers -> MaybeDirs] /\ preserve' \in [Publishers -> BOOLEAN]
  BY <1>1, TypeFacts DEF MarkRefused, WriteMarkerFailed, Clean, Settle, SettleIncomplete, Crash, rest,
     MaybeDirs
<1>7. backup' \in [Publishers -> MaybeDirs]
  <2>1. backup \in [Publishers -> MaybeDirs] /\ Absent \in MaybeDirs
    BY <1>1, TypeFacts DEF MaybeDirs
  <2>2. \/ backup' = backup \/ \E b \in {Absent, backup[p]} : backup' = [backup EXCEPT ![p] = b]
    <3>1. CASE Settle(p)
      BY <3>1 DEF Settle
    <3>2. CASE ~Settle(p)
      BY <3>2 DEF MarkRefused, WriteMarkerFailed, Clean, SettleIncomplete, Crash
    <3> QED BY <3>1, <3>2
  <2> QED BY <2>1, <2>2
<1>8. PublicationTypeOK'
  <2>1. marker' \in Publishers \cup {Absent}
    BY <1>1, <1>3 DEF PublicationTypeOK
  <2> QED BY <1>1, <1>2, <1>5, <1>6, <1>7, <2>1, ExitFacts DEF PublicationTypeOK
<1>9. Directory'
  <2>1. pc[p] \in Listing => out # Absent
    BY <1>1 DEF Sound, Here
  <2> QED BY <1>1, <1>2, <1>3, <2>1 DEF Directory
<1>10. Sound(p)'
  <2>1. NoLists(p)'
    BY <1>1, <1>2, ExitFacts
  <2>2. pc'[p] \notin {"staged", "rename", "scan"}
    BY <1>5 DEF Ended
  <2> QED BY <1>5, <2>1, <2>2, NotYetSound
<1> QED BY <1>2, <1>8, <1>9, <1>10 DEF SafeAfter

LEMMA ScanKept ==
  ASSUME Safe, NEW p \in Publishers, Scan(p)
  PROVE  SafeAfter(p)
<1>1. PublicationTypeOK /\ Directory /\ Sound(p)
  BY DEF Safe
<1>2. /\ pc[p] = "scan" /\ pc'[p] = "mark" /\ pc' \in [Publishers -> PublisherPhases]
      /\ out # Absent /\ stage[p] = Emitted(p) /\ NoLists(p)
  <2>1. Go(p, "scan", "mark") /\ "mark" \in PublisherPhases
    BY DEF Scan, PublisherPhases, Listing
  <2> QED BY <1>1, <2>1, GoFacts DEF Sound, Here, Lists, Staged, NoLists, Replacing
<1>3. /\ old' \in [Publishers -> SUBSET Names] /\ old'[p] = Entries(out)
      /\ backup' \in [Publishers -> MaybeDirs] /\ backup'[p] # Absent
      /\ UNCHANGED <<out, marker, stage, moved, installed, retained, failed, preserve, reader, history>>
  BY <1>1, TypeFacts, EmptyDirFacts DEF Scan, rest, Entries, MaybeDirs
<1>4. PublicationTypeOK'
  BY <1>1, <1>2, <1>3 DEF PublicationTypeOK
<1>5. Context \in old'[p]
  BY <1>1, <1>2, <1>3 DEF Directory, Entries, Names
<1>6. Here(p)'
  BY <1>2, <1>3 DEF Here, Marking, Replacing
<1>7. Lists(p)'
  BY <1>2, <1>3, <1>5 DEF Lists, NoLists, Replacing
<1>8. Staged(p)'
  BY <1>2, <1>3 DEF Staged, Replacing
<1> QED BY <1>1, <1>3, <1>4, <1>6, <1>7, <1>8, DirectoryLeft DEF SafeAfter, Sound

LEMMA MarkKept ==
  ASSUME Safe, NEW p \in Publishers, Mark(p)
  PROVE  SafeAfter(p)
<1>1. PublicationTypeOK /\ Directory /\ Sound(p)
  BY DEF Safe
<1>2. /\ pc[p] = "mark" /\ pc'[p] = "write" /\ pc' \in [Publishers -> PublisherPhases]
      /\ out # Absent /\ stage[p] = Emitted(p) /\ NoLists(p) /\ backup[p] # Absent
      /\ Context \in old[p]
  <2>1. Go(p, "mark", "write") /\ "write" \in PublisherPhases
    BY DEF Mark, PublisherPhases, Listing, Marking
  <2> QED BY <1>1, <2>1, GoFacts DEF Sound, Here, Lists, Staged, NoLists, Replacing, Listing
<1>3. /\ marker = Absent /\ marker' = p
      /\ UNCHANGED <<out, stage, backup, old, moved, installed, retained, failed, preserve, reader>>
  BY DEF Mark, lists
<1>4. history' \in Histories /\ history'.last = history.last
  <2>1. history \in Histories /\ p \in Publishers
    BY <1>1 DEF PublicationTypeOK
  <2> DEFINE h == [history EXCEPT !.marked[p] = history.last]
  <2>2. h \in Histories /\ h.last = history.last
    BY <2>1 DEF Histories
  <2>3. PICK r \in BOOLEAN : history' = [history EXCEPT !.marked[p] = history.last, !.raced = r]
    <3>1. history' = [history EXCEPT !.marked[p] = history.last,
                                     !.raced = (history.raced \/ old[p] # Entries(out))]
      BY DEF Mark
    <3>2. (history.raced \/ old[p] # Entries(out)) \in BOOLEAN
      OBVIOUS
    <3> QED BY <3>1, <3>2
  <2>4. history' = [h EXCEPT !.raced = r]
    BY <2>3
  <2> HIDE DEF h
  <2> QED BY <2>2, <2>4 DEF Histories
<1>5. PublicationTypeOK'
  BY <1>1, <1>2, <1>3, <1>4 DEF PublicationTypeOK
<1>6. Directory'
  BY <1>1, <1>2, <1>3, <1>4 DEF Directory
<1>7. Here(p)'
  BY <1>2, <1>3 DEF Here
<1>8. Lists(p)'
  BY <1>2, <1>3 DEF Lists, NoLists, Replacing
<1>9. Staged(p)'
  BY <1>2, <1>3 DEF Staged, Replacing
<1> QED BY <1>3, <1>5, <1>6, <1>7, <1>8, <1>9 DEF SafeAfter, Sound

LEMMA WriteMarkerKept ==
  ASSUME Safe, NEW p \in Publishers, WriteMarker(p)
  PROVE  SafeAfter(p)
<1>1. PublicationTypeOK /\ Directory /\ Sound(p) /\ p \in Versions
  BY DEF Safe, Versions
<1>2. /\ pc[p] = "write" /\ pc'[p] = "link" /\ pc' \in [Publishers -> PublisherPhases]
      /\ out # Absent /\ marker = p
      /\ stage[p] = Emitted(p) /\ NoLists(p) /\ backup[p] # Absent /\ Context \in old[p]
  <2>1. Go(p, "write", "link") /\ "link" \in PublisherPhases
    BY DEF WriteMarker, PublisherPhases, Listing, Marking, Replacing
  <2> QED BY <1>1, <2>1, GoFacts DEF Sound, Here, Lists, Staged, NoLists, Replacing, Listing, Marking
<1>3. /\ UNCHANGED <<out, marker, reader, history>>
      /\ UNCHANGED <<stage, backup, old, moved, installed, retained, failed, preserve>>
  BY DEF WriteMarker, lists, rest
<1>4. PublicationTypeOK'
  BY <1>1, <1>2, <1>3 DEF PublicationTypeOK
<1>5. Here(p)'
  BY <1>2, <1>3 DEF Here
<1>6. Lists(p)'
  BY <1>2, <1>3, NothingListed DEF Lists, NoLists, Replacing
<1>7. Staged(p)'
  <2>1. stage[p] # Absent /\ \A n \in Managed(p) : stage[p][n] = Written(p)
    BY <1>1, <1>2, EmittedFacts, ManagedNames
  <2>2. ToSet(moved[p]) = {} /\ ToSet(installed[p]) = {} /\ retained[p] = {}
    BY <1>2, NothingListed DEF NoLists
  <2>3. InPlace(p)'
    BY <1>3, <2>1, <2>2 DEF InPlace
  <2> QED BY <1>2, <1>3, <2>1, <2>2, <2>3 DEF Staged
<1> QED BY <1>1, <1>3, <1>4, <1>5, <1>6, <1>7, DirectoryLeft DEF SafeAfter, Sound

\* The loops are left: for a rollback, or with everything in place.
LEMMA LeaveKept ==
  ASSUME Safe, NEW p \in Publishers,
         \/ InstallFailed(p) \/ MoveStaleFailed(p) \/ Commit(p) \/ Unmark(p)
  PROVE  SafeAfter(p)
<1>1. PublicationTypeOK /\ Directory /\ Sound(p) /\ p \in Versions
  BY DEF Safe, Versions
<1>2. /\ pc[p] \in {"link", "install", "unmark"}
      /\ UNCHANGED <<out, stage, backup, old, moved, installed, retained, failed, preserve, reader>>
      /\ \E to \in {"rollback", "unmark", "clean"} : pc' = [pc EXCEPT ![p] = to]
      /\ pc'[p] \in {"rollback", "unmark"} => marker' = marker
      /\ marker' \in {Absent, marker}
  BY <1>1, TypeFacts DEF InstallFailed, MoveStaleFailed, Commit, Unmark, Go, lists, rest
<1>3. pc'[p] \in {"rollback", "unmark", "clean"} /\ pc' \in [Publishers -> PublisherPhases]
  <2>1. {"rollback", "unmark", "clean"} \subseteq PublisherPhases
    BY DEF PublisherPhases, Listing, Marking, Replacing
  <2> QED BY <1>1, <1>2, <2>1, TypeFacts
<1>4. history' \in Histories /\ (history' = history \/ history'.last = p)
  <2>1. CASE Commit(p)
    <3>1. history' = [history EXCEPT !.last = p, !.committed = history.committed \cup {p}]
      BY <2>1 DEF Commit
    <3> QED BY <1>1, <3>1 DEF PublicationTypeOK, Histories, MaybeVersions
  <2>2. CASE ~Commit(p)
    BY <1>1, <2>2 DEF InstallFailed, MoveStaleFailed, Unmark, rest, PublicationTypeOK
  <2> QED BY <2>1, <2>2
<1>5. PublicationTypeOK'
  BY <1>1, <1>2, <1>3, <1>4 DEF PublicationTypeOK
<1>6. Directory'
  BY <1>1, <1>2, <1>4 DEF Directory
<1>7. Here(p)'
  BY <1>1, <1>2, <1>3 DEF Sound, Here, Listing, Marking, Replacing
<1>8. pc'[p] \in Replacing => pc[p] \in {"link", "install"}
  BY <1>1, TypeFacts DEF InstallFailed, MoveStaleFailed, Commit, Unmark, Go, Replacing
<1>9. Lists(p)'
  <2>1. pc[p] \in Listing /\ pc'[p] \notin {"link", "install"} /\ pc'[p] \in Replacing \cup {"unmark", "clean"}
    BY <1>2, <1>3 DEF Listing, Marking, Replacing
  <2>2. pc'[p] \in Replacing => pc[p] \in Replacing
    BY <1>8 DEF Replacing
  <2> QED BY <1>1, <1>2, <2>1, <2>2 DEF Sound, Lists
<1>10. Staged(p)'
  <2>1. pc'[p] \notin {"staged", "rename", "scan", "mark", "write"}
    BY <1>3
  <2>2. pc'[p] \in Replacing => pc[p] \in Replacing
    BY <1>8 DEF Replacing
  <2> QED BY <1>1, <1>2, <2>1, <2>2 DEF Sound, Staged, InPlace
<1> QED BY <1>2, <1>5, <1>6, <1>7, <1>9, <1>10 DEF SafeAfter, Sound

-----------------------------------------------------------------------------
(* The replacement. *)

LEMMA FreshFirst ==
  ASSUME PublicationTypeOK, NEW p \in Publishers, Fresh(p) # {}
  PROVE  /\ First(Fresh(p)) \in Managed(p) /\ First(Fresh(p)) \in Names
         /\ First(Fresh(p)) \notin ToSet(installed[p])
<1>1. p \in Versions /\ Fresh(p) \subseteq Managed(p)
  BY DEF Versions, Fresh
<1>2. Fresh(p) \in SUBSET Names
  BY <1>1, ManagedNames
<1>3. First(Fresh(p)) \in Fresh(p)
  BY <1>2, FirstIn
<1> QED BY <1>1, <1>2, <1>3 DEF Fresh

LEMMA StaleFirst ==
  ASSUME PublicationTypeOK, NEW p \in Publishers, Stale(p) # {}
  PROVE  /\ First(Stale(p)) \in old[p] /\ First(Stale(p)) \in Names
         /\ First(Stale(p)) \notin Managed(p) /\ First(Stale(p)) \notin ToSet(moved[p])
<1>1. old[p] \in SUBSET Names
  BY TypeFacts
<1>2. Stale(p) \in SUBSET Names
  BY <1>1 DEF Stale
<1>3. First(Stale(p)) \in Stale(p)
  BY <1>2, FirstIn
<1> QED BY <1>1, <1>3 DEF Stale

\* What is known of a process that replaces.
LEMMA ReplacingFacts ==
  ASSUME Safe, NEW p \in Publishers, pc[p] \in Replacing
  PROVE  /\ PublicationTypeOK /\ Directory /\ Sound(p) /\ p \in Versions
         /\ marker = p /\ out \in Dirs /\ out # Absent /\ stage[p] # Absent /\ backup[p] # Absent
         /\ moved[p] \in Seq(Names) /\ installed[p] \in Seq(Names) /\ old[p] \in SUBSET Names
         /\ retained[p] \in SUBSET Names
         /\ Managed(p) \subseteq Names /\ Context \in Managed(p) /\ Context \in old[p]
         /\ out[Context] # Absent
         /\ stage[p] \in Dirs /\ backup[p] \in Dirs
<1>1. PublicationTypeOK /\ Directory /\ Sound(p) /\ p \in Versions
  BY DEF Safe, Versions
<1>2. pc[p] \in Marking /\ pc[p] \in Listing
  BY DEF Marking, Listing
<1>3. marker = p /\ out # Absent /\ Context \in old[p] /\ stage[p] # Absent /\ backup[p] # Absent
  BY <1>1, <1>2 DEF Sound, Here, Lists, Staged
<1>4. out \in Dirs /\ out[Context] # Absent
  BY <1>1, <1>3 DEF PublicationTypeOK, MaybeDirs, Directory
<1>5. stage[p] \in Dirs /\ backup[p] \in Dirs
  BY <1>1, <1>3, TypeFacts DEF MaybeDirs
<1> QED BY <1>1, <1>3, <1>4, <1>5, ManagedNames, TypeFacts

\* The lists of a process that replaces, with what they hold.
LEMMA ListFacts ==
  ASSUME NEW p \in Publishers, Sound(p), pc[p] \in Replacing
  PROVE  /\ NoRepeats(installed[p]) /\ NoRepeats(moved[p])
         /\ ToSet(installed[p]) \subseteq Managed(p) /\ retained[p] \subseteq Managed(p)
         /\ ToSet(moved[p]) \subseteq old[p]
         /\ ToSet(installed[p]) \cap old[p] \subseteq ToSet(moved[p])
         /\ ToSet(installed[p]) \cap retained[p] = {}
         /\ \A n \in ToSet(moved[p]) : backup[p][n] # Absent
         /\ \A n \in Managed(p) :
              /\ n \in ToSet(installed[p]) \cup retained[p] => out[n] = Written(p)
              /\ n \notin ToSet(installed[p]) \cup retained[p] => stage[p][n] = Written(p)
  BY DEF Sound, Lists, Staged, InPlace

\* One list or directory of p is written, and nothing else of p.
LEMMA LinkOldKept ==
  ASSUME Safe, NEW p \in Publishers, LinkOld(p)
  PROVE  SafeAfter(p)
<1> DEFINE n == First(Fresh(p))
<1>1. /\ pc[p] = "link" /\ pc'[p] = "install" /\ pc' \in [Publishers -> PublisherPhases]
      /\ Fresh(p) # {}
      /\ UNCHANGED <<out, marker, reader, history>>
      /\ UNCHANGED <<stage, old, installed, retained, failed, preserve>>
  <2>1. Go(p, "link", "install") /\ "install" \in PublisherPhases
    BY DEF LinkOld, PublisherPhases, Listing, Marking, Replacing
  <2> QED BY <2>1, GoFacts DEF LinkOld, Safe, rest
<1>2. pc[p] \in Replacing /\ pc'[p] \in Replacing
  BY <1>1 DEF Replacing
<1>3. /\ PublicationTypeOK /\ Directory /\ Sound(p) /\ marker = p /\ out \in Dirs /\ out # Absent
      /\ stage[p] # Absent /\ backup[p] # Absent /\ moved[p] \in Seq(Names) /\ Context \in old[p]
  BY <1>2, ReplacingFacts
<1>4. n \in Managed(p) /\ n \in Names /\ n \notin ToSet(installed[p])
  BY <1>1, <1>3, FreshFirst
<1>5. retained[p] = {} /\ ~failed[p] /\ ToSet(moved[p]) \cap Managed(p) \subseteq ToSet(installed[p])
  BY <1>1, <1>3 DEF Sound, Lists
<1>6. Fresh(p)' = Fresh(p)
  BY <1>1 DEF Fresh
<1>7. InPlace(p)'
  BY <1>1, <1>2, <1>3 DEF InPlace, Sound, Staged
<1>8. Here(p)'
  BY <1>1, <1>3 DEF Here
<1> HIDE DEF n
<1>9. ASSUME n \in old[p]
      PROVE  PublicationTypeOK' /\ Lists(p)' /\ Staged(p)'
  <2>1. /\ out[n] # Absent
        /\ backup' = [backup EXCEPT ![p][n] = out[n]]
        /\ moved' = [moved EXCEPT ![p] = Append(moved[p], n)]
    BY <1>9 DEF LinkOld, n
  <2>2. out[n] \in Files \cup {Absent}
    BY <1>3, <1>4 DEF Dirs
  <2>3. /\ backup' \in [Publishers -> MaybeDirs] /\ backup'[p] # Absent
        /\ \A m \in Names : backup'[p][m] = IF m = n THEN out[n] ELSE backup[p][m]
    <3>1. backup \in [Publishers -> MaybeDirs]
      BY <1>3, TypeFacts
    <3>2. PutOf(backup', backup, p, n, out[n])
      BY <2>1 DEF PutOf
    <3>3. backup[p] # Absent /\ n \in Names
      BY <1>3, <1>4
    <3> QED BY <2>2, <3>1, <3>2, <3>3, OneOfMany
  <2>4. n \notin ToSet(moved[p])
    BY <1>4, <1>5
  <2>5. /\ moved' \in [Publishers -> Seq(Names)]
        /\ ToSet(moved'[p]) = ToSet(moved[p]) \cup {n}
        /\ NoRepeats(moved'[p])
    <3>1. moved \in [Publishers -> Seq(Names)]
      BY <1>3, TypeFacts
    <3>2. NoRepeats(moved[p])
      BY <1>2, <1>3, ListFacts
    <3> QED BY <2>1, <2>4, <3>1, <3>2, <1>4, Appended
  <2>6. PublicationTypeOK'
    BY <1>1, <1>3, <2>3, <2>5 DEF PublicationTypeOK
  <2>7. Lists(p)'
    <3>1. First(Fresh(p))' = n
      BY <1>6 DEF n
    <3> QED BY <1>1, <1>2, <1>3, <1>4, <1>5, <1>6, <1>9, <2>5, <3>1, ListFacts DEF Lists
  <2>8. Staged(p)'
    <3>1. \A m \in ToSet(moved'[p]) : backup'[p][m] # Absent
      <4>1. ToSet(moved[p]) \subseteq Names /\ \A m \in ToSet(moved[p]) : backup[p][m] # Absent
        BY <1>2, <1>3, ListFacts, TypeFacts
      <4> QED BY <2>1, <2>3, <2>5, <4>1, <1>4
    <3> QED BY <1>1, <1>3, <1>7, <2>3, <3>1 DEF Staged
  <2> QED BY <2>6, <2>7, <2>8
<1>10. ASSUME n \notin old[p]
       PROVE  PublicationTypeOK' /\ Lists(p)' /\ Staged(p)'
  <2>1. UNCHANGED <<backup, moved>>
    BY <1>10 DEF LinkOld, n
  <2>2. PublicationTypeOK'
    BY <1>1, <1>3, <2>1 DEF PublicationTypeOK
  <2>3. Lists(p)'
    <3>1. First(Fresh(p))' = n
      BY <1>6 DEF n
    <3> QED BY <1>1, <1>2, <1>3, <1>5, <1>6, <1>10, <2>1, <3>1, ListFacts DEF Lists
  <2>4. Staged(p)'
    BY <1>1, <1>2, <1>3, <1>7, <2>1 DEF Sound, Staged
  <2> QED BY <2>2, <2>3, <2>4
<1> QED BY <1>1, <1>3, <1>8, <1>9, <1>10, DirectoryLeft DEF SafeAfter, Sound

LEMMA LinkOldFailedKept ==
  ASSUME Safe, NEW p \in Publishers, LinkOldFailed(p)
  PROVE  SafeAfter(p)
<1> DEFINE n == First(Fresh(p))
<1>1. /\ pc[p] = "link" /\ pc'[p] = "rollback" /\ pc' \in [Publishers -> PublisherPhases]
      /\ Fresh(p) # {}
      /\ UNCHANGED <<out, marker, reader, history>>
      /\ UNCHANGED <<stage, old, moved, installed, retained, failed, preserve>>
  <2>1. Go(p, "link", "rollback") /\ "rollback" \in PublisherPhases
    BY DEF LinkOldFailed, PublisherPhases, Listing, Marking, Replacing
  <2> QED BY <2>1, GoFacts DEF LinkOldFailed, Safe, rest, lists
<1>2. pc[p] \in Replacing /\ pc'[p] \in Replacing
  BY <1>1 DEF Replacing
<1>3. /\ PublicationTypeOK /\ Directory /\ Sound(p) /\ marker = p /\ out \in Dirs /\ out # Absent
      /\ stage[p] # Absent /\ backup[p] # Absent /\ moved[p] \in Seq(Names) /\ Context \in old[p]
  BY <1>2, ReplacingFacts
<1>4. n \in Managed(p) /\ n \in Names /\ n \notin ToSet(moved[p])
  BY <1>1, <1>3, FreshFirst DEF Sound, Lists
<1>5. PICK f \in Files \cup {Absent} : PutOf(backup', backup, p, n, f)
  <2>1. out[n] \in Files \cup {Absent}
    BY <1>3, <1>4 DEF Dirs
  <2>2. out[n] # Absent => Torn(out[n]) \in Files
    BY <2>1, FileFacts
  <2> QED BY <2>1, <2>2 DEF LinkOldFailed, PutOf
<1> HIDE DEF n
<1>6. /\ backup' \in [Publishers -> MaybeDirs] /\ backup'[p] # Absent
      /\ \A m \in Names : backup'[p][m] = IF m = n THEN f ELSE backup[p][m]
  <2>1. backup \in [Publishers -> MaybeDirs] /\ backup[p] # Absent
    BY <1>3, TypeFacts
  <2> QED BY <1>4, <1>5, <2>1, OneOfMany
<1>7. PublicationTypeOK'
  BY <1>1, <1>3, <1>6 DEF PublicationTypeOK
<1>8. Here(p)'
  BY <1>1, <1>3 DEF Here
<1>9. Lists(p)'
  BY <1>1, <1>2, <1>3, ListFacts DEF Lists
<1>10. Staged(p)'
  <2>1. InPlace(p)'
    BY <1>1, <1>2, <1>3 DEF InPlace, Sound, Staged
  <2>2. ToSet(moved[p]) \subseteq Names /\ \A m \in ToSet(moved[p]) : backup[p][m] # Absent
    BY <1>2, <1>3, ListFacts, TypeFacts
  <2>3. \A m \in ToSet(moved[p]) : backup'[p][m] # Absent
    BY <1>4, <1>6, <2>2
  <2> QED BY <1>1, <1>3, <1>6, <2>1, <2>3 DEF Staged
<1> QED BY <1>1, <1>3, <1>7, <1>8, <1>9, <1>10, DirectoryLeft DEF SafeAfter, Sound

\* The directory changes in one name, which is not the context's if it goes.
LEMMA OutChanged ==
  ASSUME PublicationTypeOK, Directory, out \in Dirs, NEW n \in Names, NEW f \in Files \cup {Absent},
         Put(out', out, n, f), n = Context => f # Absent,
         UNCHANGED <<marker, reader, history>>
  PROVE  /\ out' \in Dirs /\ out' # Absent /\ Directory'
         /\ \A m \in Names : out'[m] = IF m = n THEN f ELSE out[m]
<1>1. /\ out' \in Dirs /\ out' # Absent
      /\ \A m \in Names : out'[m] = IF m = n THEN f ELSE out[m]
  BY OneFile
<1>2. out # Absent /\ Context \in Names
  BY AbsentApart DEF Names
<1>3. Directory'
  BY <1>1, <1>2 DEF Directory
<1> QED BY <1>1, <1>3

LEMMA InstallKept ==
  ASSUME Safe, NEW p \in Publishers, Install(p)
  PROVE  SafeAfter(p)
<1> DEFINE n == First(Fresh(p))
<1>1. /\ pc[p] = "install" /\ pc'[p] = "link" /\ pc' \in [Publishers -> PublisherPhases]
      /\ UNCHANGED <<marker, reader, history>>
      /\ UNCHANGED <<backup, old, moved, retained, failed, preserve>>
  <2>1. Go(p, "install", "link") /\ "link" \in PublisherPhases
    BY DEF Install, PublisherPhases, Listing, Marking, Replacing
  <2> QED BY <2>1, GoFacts DEF Install, Safe, rest
<1>2. pc[p] \in Replacing /\ pc'[p] \in Replacing
  BY <1>1 DEF Replacing
<1>3. /\ PublicationTypeOK /\ Directory /\ Sound(p) /\ marker = p /\ out \in Dirs /\ out # Absent
      /\ stage[p] # Absent /\ backup[p] # Absent /\ installed[p] \in Seq(Names) /\ Context \in old[p]
      /\ p \in Versions /\ Managed(p) \subseteq Names
  BY <1>2, ReplacingFacts
<1>4. /\ n \in Managed(p) /\ n \in Names /\ n \notin ToSet(installed[p])
      /\ ToSet(moved[p]) \cap Managed(p) \subseteq ToSet(installed[p]) \cup {n}
      /\ n \in old[p] => n \in ToSet(moved[p])
      /\ retained[p] = {} /\ ~failed[p]
  <2>1. Fresh(p) # {}
    BY <1>1, <1>3 DEF Sound, Lists
  <2> QED BY <1>1, <1>3, <2>1, FreshFirst DEF Sound, Lists
<1>5. /\ Put(out', out, n, stage[p][n]) /\ PutOf(stage', stage, p, n, Absent)
      /\ installed' = [installed EXCEPT ![p] = Append(installed[p], n)]
  BY DEF Install, Put, PutOf
<1> HIDE DEF n
<1>6. stage[p][n] = Written(p)
  BY <1>2, <1>3, <1>4, ListFacts
<1>7. Written(p) \in Files \cup {Absent} /\ Written(p) # Absent
  BY <1>3, FileFacts
<1>8. /\ out' \in Dirs /\ out' # Absent /\ Directory'
      /\ \A m \in Names : out'[m] = IF m = n THEN Written(p) ELSE out[m]
  <2>1. Put(out', out, n, Written(p))
    BY <1>5, <1>6
  <2>2. PublicationTypeOK /\ Directory /\ out \in Dirs /\ n \in Names
    BY <1>3, <1>4
  <2> QED BY <1>1, <1>7, <2>1, <2>2, OutChanged
<1>9. /\ stage' \in [Publishers -> MaybeDirs] /\ stage'[p] # Absent
      /\ \A m \in Names : stage'[p][m] = IF m = n THEN Absent ELSE stage[p][m]
  <2>1. stage \in [Publishers -> MaybeDirs]
    BY <1>3, TypeFacts
  <2>2. stage[p] # Absent /\ n \in Names /\ PutOf(stage', stage, p, n, Absent)
    BY <1>3, <1>4, <1>5
  <2> QED BY <2>1, <2>2, OneGone
<1>10. /\ installed' \in [Publishers -> Seq(Names)]
       /\ ToSet(installed'[p]) = ToSet(installed[p]) \cup {n}
       /\ NoRepeats(installed'[p])
  <2>1. installed \in [Publishers -> Seq(Names)]
    BY <1>3, TypeFacts
  <2>2. NoRepeats(installed[p])
    BY <1>2, <1>3, ListFacts
  <2> QED BY <1>4, <1>5, <2>1, <2>2, Appended
<1>11. PublicationTypeOK'
  BY <1>1, <1>3, <1>8, <1>9, <1>10 DEF PublicationTypeOK, MaybeDirs
<1>12. Here(p)'
  BY <1>1, <1>3, <1>8 DEF Here
<1>13. Lists(p)'
  BY <1>1, <1>2, <1>3, <1>4, <1>10, ListFacts DEF Lists
<1>14. Staged(p)'
  <2>1. InPlace(p)'
    <3> SUFFICES ASSUME NEW m \in Managed(p)
                 PROVE  IF m \in ToSet(installed'[p]) \cup retained'[p] THEN out'[m] = Written(p)
                                                                  ELSE stage'[p][m] = Written(p)
      BY DEF InPlace
    <3>1. m \in Names /\ (m \in ToSet(installed[p]) \cup retained[p] => out[m] = Written(p))
          /\ (m \notin ToSet(installed[p]) \cup retained[p] => stage[p][m] = Written(p))
      BY <1>2, <1>3, ListFacts
    <3> QED BY <1>1, <1>8, <1>9, <1>10, <3>1
  <2>2. \A m \in ToSet(moved'[p]) : backup'[p][m] # Absent
    BY <1>1, <1>2, <1>3, ListFacts
  <2> QED BY <1>1, <1>3, <1>9, <2>1, <2>2 DEF Staged
<1> QED BY <1>8, <1>11, <1>12, <1>13, <1>14 DEF SafeAfter, Sound

LEMMA MoveStaleKept ==
  ASSUME Safe, NEW p \in Publishers, MoveStale(p)
  PROVE  SafeAfter(p)
<1> DEFINE n == First(Stale(p))
<1>1. /\ pc[p] = "link" /\ pc'[p] = "link" /\ pc' \in [Publishers -> PublisherPhases]
      /\ Stale(p) # {}
      /\ UNCHANGED <<marker, reader, history>>
      /\ UNCHANGED <<stage, old, installed, retained, failed, preserve>>
  <2>1. Go(p, "link", "link") /\ "link" \in PublisherPhases
    BY DEF MoveStale, PublisherPhases, Listing, Marking, Replacing
  <2> QED BY <2>1, GoFacts DEF MoveStale, Safe, rest
<1>2. pc[p] \in Replacing /\ pc'[p] \in Replacing
  BY <1>1 DEF Replacing
<1>3. /\ PublicationTypeOK /\ Directory /\ Sound(p) /\ marker = p /\ out \in Dirs /\ out # Absent
      /\ stage[p] # Absent /\ backup[p] # Absent /\ moved[p] \in Seq(Names) /\ Context \in old[p]
      /\ Managed(p) \subseteq Names /\ Context \in Managed(p)
  BY <1>2, ReplacingFacts
<1>4. /\ n \in old[p] /\ n \in Names /\ n \notin Managed(p) /\ n \notin ToSet(moved[p])
      /\ n # Context /\ out[n] \in Files \cup {Absent}
  <2>1. /\ n \in old[p] /\ n \in Names /\ n \notin Managed(p) /\ n \notin ToSet(moved[p])
    BY <1>1, <1>3, StaleFirst
  <2>2. out[n] \in Files \cup {Absent}
    BY <1>3, <2>1 DEF Dirs
  <2> QED BY <1>3, <2>1, <2>2
<1>5. /\ Put(out', out, n, Absent) /\ PutOf(backup', backup, p, n, out[n])
      /\ moved' = [moved EXCEPT ![p] = Append(moved[p], n)]
      /\ out[n] # Absent
  BY DEF MoveStale, Put, PutOf
<1> HIDE DEF n
<1>6. /\ out' \in Dirs /\ out' # Absent /\ Directory'
      /\ \A m \in Names : out'[m] = IF m = n THEN Absent ELSE out[m]
  <2>1. PublicationTypeOK /\ Directory /\ out \in Dirs /\ n \in Names /\ n # Context
    BY <1>3, <1>4
  <2>2. Put(out', out, n, Absent) /\ Absent \in Files \cup {Absent}
    BY <1>5
  <2> QED BY <1>1, <2>1, <2>2, OutChanged
<1>7. /\ backup' \in [Publishers -> MaybeDirs] /\ backup'[p] # Absent
      /\ \A m \in Names : backup'[p][m] = IF m = n THEN out[n] ELSE backup[p][m]
  <2>1. backup \in [Publishers -> MaybeDirs] /\ backup[p] # Absent
    BY <1>3, TypeFacts
  <2>2. PutOf(backup', backup, p, n, out[n])
    BY <1>5
  <2> QED BY <1>4, <2>1, <2>2, OneOfMany
<1>8. /\ moved' \in [Publishers -> Seq(Names)]
      /\ ToSet(moved'[p]) = ToSet(moved[p]) \cup {n}
      /\ NoRepeats(moved'[p])
  <2>1. moved \in [Publishers -> Seq(Names)]
    BY <1>3, TypeFacts
  <2>2. NoRepeats(moved[p])
    BY <1>2, <1>3, ListFacts
  <2> QED BY <1>4, <1>5, <2>1, <2>2, Appended
<1>9. PublicationTypeOK'
  BY <1>1, <1>3, <1>6, <1>7, <1>8 DEF PublicationTypeOK, MaybeDirs
<1>10. Here(p)'
  BY <1>1, <1>3, <1>6 DEF Here
<1>11. Lists(p)'
  <2>1. ToSet(moved[p]) \cap Managed(p) \subseteq ToSet(installed[p]) /\ retained[p] = {} /\ ~failed[p]
    BY <1>1, <1>3 DEF Sound, Lists
  <2> QED BY <1>1, <1>2, <1>3, <1>4, <1>8, <2>1, ListFacts DEF Lists
<1>12. Staged(p)'
  <2>1. InPlace(p)'
    <3> SUFFICES ASSUME NEW m \in Managed(p)
                 PROVE  IF m \in ToSet(installed'[p]) \cup retained'[p] THEN out'[m] = Written(p)
                                                                  ELSE stage'[p][m] = Written(p)
      BY DEF InPlace
    <3>1. m \in Names /\ (m \in ToSet(installed[p]) \cup retained[p] => out[m] = Written(p))
          /\ (m \notin ToSet(installed[p]) \cup retained[p] => stage[p][m] = Written(p))
      BY <1>2, <1>3, ListFacts
    <3> QED BY <1>1, <1>4, <1>6, <3>1
  <2>2. \A m \in ToSet(moved[p]) : m \in Names /\ backup[p][m] # Absent
    BY <1>2, <1>3, ListFacts, TypeFacts
  <2>3. \A m \in ToSet(moved'[p]) : backup'[p][m] # Absent
    BY <1>4, <1>5, <1>7, <1>8, <2>2
  <2> QED BY <1>1, <1>3, <1>7, <2>1, <2>3 DEF Staged
<1> QED BY <1>6, <1>9, <1>10, <1>11, <1>12 DEF SafeAfter, Sound

\* The last installed file, and the list without it.
LEMMA InstalledLast ==
  ASSUME Safe, NEW p \in Publishers, pc[p] \in Replacing, installed[p] # <<>>,
         installed' = [installed EXCEPT ![p] = Front(installed[p])]
  PROVE  /\ Last(installed[p]) \in Managed(p) /\ Last(installed[p]) \in Names
         /\ Last(installed[p]) \notin retained[p] /\ out[Last(installed[p])] = Written(p)
         /\ Last(installed[p]) \in old[p] => Last(installed[p]) \in ToSet(moved[p])
         /\ Last(installed[p]) \notin ToSet(installed'[p])
         /\ ToSet(installed[p]) = ToSet(installed'[p]) \cup {Last(installed[p])}
         /\ NoRepeats(installed'[p])
         /\ installed' \in [Publishers -> Seq(Names)]
<1>1. Sound(p) /\ installed[p] \in Seq(Names) /\ installed \in [Publishers -> Seq(Names)]
  BY ReplacingFacts, TypeFacts
<1>2. installed'[p] = Front(installed[p])
  BY <1>1
<1>3. /\ Front(installed[p]) \in Seq(Names)
      /\ Last(installed[p]) \in ToSet(installed[p]) /\ Last(installed[p]) \in Names
      /\ ToSet(installed[p]) = ToSet(installed'[p]) \cup {Last(installed[p])}
      /\ NoRepeats(installed'[p]) /\ Last(installed[p]) \notin ToSet(installed'[p])
  <2>1. NoRepeats(installed[p])
    BY <1>1, ListFacts
  <2> QED BY <1>1, <1>2, <2>1, Dropped
<1>4. /\ Last(installed[p]) \in Managed(p) /\ Last(installed[p]) \notin retained[p]
      /\ Last(installed[p]) \in old[p] => Last(installed[p]) \in ToSet(moved[p])
      /\ out[Last(installed[p])] = Written(p)
  BY <1>1, <1>3, ListFacts
<1>5. installed' \in [Publishers -> Seq(Names)]
  BY <1>1, <1>3
<1> QED BY <1>3, <1>4, <1>5

LEMMA MovedLast ==
  ASSUME Safe, NEW p \in Publishers, pc[p] \in Replacing, moved[p] # <<>>,
         moved' = [moved EXCEPT ![p] = Front(moved[p])]
  PROVE  /\ Last(moved[p]) \in old[p] /\ Last(moved[p]) \in Names
         /\ Last(moved[p]) \in ToSet(moved[p]) /\ backup[p][Last(moved[p])] # Absent
         /\ Last(moved[p]) \notin ToSet(moved'[p])
         /\ ToSet(moved[p]) = ToSet(moved'[p]) \cup {Last(moved[p])}
         /\ NoRepeats(moved'[p])
         /\ moved' \in [Publishers -> Seq(Names)]
<1>1. Sound(p) /\ moved[p] \in Seq(Names) /\ moved \in [Publishers -> Seq(Names)]
  BY ReplacingFacts, TypeFacts
<1>2. moved'[p] = Front(moved[p])
  BY <1>1
<1>3. /\ Front(moved[p]) \in Seq(Names)
      /\ Last(moved[p]) \in ToSet(moved[p]) /\ Last(moved[p]) \in Names
      /\ ToSet(moved[p]) = ToSet(moved'[p]) \cup {Last(moved[p])}
      /\ NoRepeats(moved'[p]) /\ Last(moved[p]) \notin ToSet(moved'[p])
  <2>1. NoRepeats(moved[p])
    BY <1>1, ListFacts
  <2> QED BY <1>1, <1>2, <2>1, Dropped
<1>4. Last(moved[p]) \in old[p] /\ backup[p][Last(moved[p])] # Absent
  BY <1>1, <1>3, ListFacts
<1>5. moved' \in [Publishers -> Seq(Names)]
  BY <1>1, <1>3
<1> QED BY <1>3, <1>4, <1>5

LEMMA RetractKept ==
  ASSUME Safe, NEW p \in Publishers, Retract(p)
  PROVE  SafeAfter(p)
<1> DEFINE n == Last(installed[p])
<1>1. /\ pc[p] = "rollback" /\ installed[p] # <<>>
      /\ installed' = [installed EXCEPT ![p] = Front(installed[p])]
      /\ UNCHANGED <<marker, reader, history>>
      /\ UNCHANGED <<backup, pc, old, moved, retained, failed, preserve>>
  BY DEF Retract, rest
<1>2. pc[p] \in Replacing /\ pc'[p] \in Replacing
  BY <1>1 DEF Replacing
<1>3. /\ PublicationTypeOK /\ Directory /\ Sound(p) /\ marker = p /\ out \in Dirs /\ out # Absent
      /\ stage[p] # Absent /\ backup[p] # Absent /\ Context \in old[p] /\ out[Context] # Absent
      /\ p \in Versions /\ Managed(p) \subseteq Names
  BY <1>2, ReplacingFacts
<1>4. /\ n \in Managed(p) /\ n \in Names /\ n \notin retained[p] /\ out[n] = Written(p)
      /\ n \notin ToSet(installed'[p]) /\ ToSet(installed[p]) = ToSet(installed'[p]) \cup {n}
      /\ NoRepeats(installed'[p]) /\ installed' \in [Publishers -> Seq(Names)]
  BY <1>1, <1>2, InstalledLast
<1>5. /\ Put(out', out, n, IF n \in old[p] THEN out[n] ELSE Absent)
      /\ PutOf(stage', stage, p, n, out[n])
  BY DEF Retract, Put, PutOf
<1> HIDE DEF n
<1>6. Written(p) \in Files \cup {Absent} /\ Written(p) # Absent
  BY <1>3, FileFacts
<1>7. /\ out' \in Dirs /\ out' # Absent /\ Directory'
      /\ \A m \in Names : out'[m] = IF m = n /\ n \notin old[p] THEN Absent ELSE out[m]
  <2>1. PICK f \in Files \cup {Absent} : f = IF n \in old[p] THEN out[n] ELSE Absent
    BY <1>4, <1>6
  <2>2. Put(out', out, n, f)
    BY <1>5, <2>1
  <2>3. PublicationTypeOK /\ Directory /\ out \in Dirs /\ n \in Names
    BY <1>3, <1>4
  <2>4. n = Context => f # Absent
    BY <1>3, <2>1
  <2>5. /\ out' \in Dirs /\ out' # Absent /\ Directory'
        /\ \A m \in Names : out'[m] = IF m = n THEN f ELSE out[m]
    BY <1>1, <2>2, <2>3, <2>4, OutChanged
  <2> QED BY <2>1, <2>5
<1>8. /\ stage' \in [Publishers -> MaybeDirs] /\ stage'[p] # Absent
      /\ \A m \in Names : stage'[p][m] = IF m = n THEN Written(p) ELSE stage[p][m]
  <2>1. stage \in [Publishers -> MaybeDirs]
    BY <1>3, TypeFacts
  <2>2. stage[p] # Absent /\ n \in Names /\ PutOf(stage', stage, p, n, Written(p))
    BY <1>3, <1>4, <1>5
  <2> QED BY <1>6, <2>1, <2>2, OneOfMany
<1>9. PublicationTypeOK'
  BY <1>1, <1>3, <1>4, <1>7, <1>8 DEF PublicationTypeOK, MaybeDirs
<1>10. Here(p)'
  BY <1>1, <1>3, <1>7 DEF Here
<1>11. Lists(p)'
  BY <1>1, <1>2, <1>3, <1>4, ListFacts DEF Lists
<1>12. Staged(p)'
  <2>1. InPlace(p)'
    <3> SUFFICES ASSUME NEW m \in Managed(p)
                 PROVE  IF m \in ToSet(installed'[p]) \cup retained'[p] THEN out'[m] = Written(p)
                                                                  ELSE stage'[p][m] = Written(p)
      BY DEF InPlace
    <3>1. m \in Names /\ (m \in ToSet(installed[p]) \cup retained[p] => out[m] = Written(p))
          /\ (m \notin ToSet(installed[p]) \cup retained[p] => stage[p][m] = Written(p))
      BY <1>2, <1>3, ListFacts
    <3> QED BY <1>1, <1>4, <1>7, <1>8, <3>1
  <2>2. \A m \in ToSet(moved'[p]) : backup'[p][m] # Absent
    BY <1>1, <1>2, <1>3, ListFacts
  <2> QED BY <1>1, <1>3, <1>8, <2>1, <2>2 DEF Staged
<1> QED BY <1>7, <1>9, <1>10, <1>11, <1>12 DEF SafeAfter, Sound

LEMMA RetractFailedKept ==
  ASSUME Safe, NEW p \in Publishers, RetractFailed(p)
  PROVE  SafeAfter(p)
<1> DEFINE n == Last(installed[p])
<1>1. /\ pc[p] = "rollback" /\ installed[p] # <<>>
      /\ installed' = [installed EXCEPT ![p] = Front(installed[p])]
      /\ retained' = [retained EXCEPT ![p] = retained[p] \cup {n}]
      /\ failed' = [failed EXCEPT ![p] = TRUE]
      /\ UNCHANGED <<out, marker, reader, history>>
      /\ UNCHANGED <<backup, pc, old, moved, preserve>>
  BY DEF RetractFailed, rest
<1>2. pc[p] \in Replacing /\ pc'[p] \in Replacing
  BY <1>1 DEF Replacing
<1>3. /\ PublicationTypeOK /\ Directory /\ Sound(p) /\ marker = p /\ out \in Dirs /\ out # Absent
      /\ stage[p] # Absent /\ backup[p] # Absent /\ Context \in old[p]
      /\ p \in Versions /\ Managed(p) \subseteq Names
  BY <1>2, ReplacingFacts
<1>4. /\ n \in Managed(p) /\ n \in Names /\ n \notin retained[p] /\ out[n] = Written(p)
      /\ n \notin ToSet(installed'[p]) /\ ToSet(installed[p]) = ToSet(installed'[p]) \cup {n}
      /\ NoRepeats(installed'[p]) /\ installed' \in [Publishers -> Seq(Names)]
  BY <1>1, <1>2, InstalledLast
<1>5. PICK f \in Files \cup {Absent} : PutOf(stage', stage, p, n, f)
  <2>1. Torn(out[n]) \in Files
    BY <1>3, <1>4, FileFacts
  <2> QED BY <2>1 DEF RetractFailed, PutOf
<1>6. /\ retained' \in [Publishers -> SUBSET Names] /\ retained'[p] = retained[p] \cup {n}
      /\ failed' \in [Publishers -> BOOLEAN]
  BY <1>1, <1>3, <1>4, TypeFacts
<1> HIDE DEF n
<1>7. /\ stage' \in [Publishers -> MaybeDirs] /\ stage'[p] # Absent
      /\ \A m \in Names : stage'[p][m] = IF m = n THEN f ELSE stage[p][m]
  <2>1. stage \in [Publishers -> MaybeDirs]
    BY <1>3, TypeFacts
  <2>2. stage[p] # Absent /\ n \in Names
    BY <1>3, <1>4
  <2> QED BY <1>5, <2>1, <2>2, OneOfMany
<1>8. PublicationTypeOK'
  BY <1>1, <1>3, <1>4, <1>6, <1>7 DEF PublicationTypeOK
<1>9. Here(p)'
  BY <1>1, <1>3 DEF Here
<1>10. Lists(p)'
  BY <1>1, <1>2, <1>3, <1>4, <1>6, ListFacts DEF Lists
<1>11. Staged(p)'
  <2>1. InPlace(p)'
    <3> SUFFICES ASSUME NEW m \in Managed(p)
                 PROVE  IF m \in ToSet(installed'[p]) \cup retained'[p] THEN out'[m] = Written(p)
                                                                  ELSE stage'[p][m] = Written(p)
      BY DEF InPlace
    <3>1. m \in Names /\ (m \in ToSet(installed[p]) \cup retained[p] => out[m] = Written(p))
          /\ (m \notin ToSet(installed[p]) \cup retained[p] => stage[p][m] = Written(p))
      BY <1>2, <1>3, ListFacts
    <3> QED BY <1>1, <1>4, <1>6, <1>7, <3>1
  <2>2. \A m \in ToSet(moved'[p]) : backup'[p][m] # Absent
    BY <1>1, <1>2, <1>3, ListFacts
  <2> QED BY <1>1, <1>3, <1>7, <2>1, <2>2 DEF Staged
<1> QED BY <1>1, <1>3, <1>8, <1>9, <1>10, <1>11, DirectoryLeft DEF SafeAfter, Sound

LEMMA RestoreKept ==
  ASSUME Safe, NEW p \in Publishers, Restore(p) \/ RestoreFailed(p)
  PROVE  SafeAfter(p)
<1> DEFINE n == Last(moved[p])
<1>1. /\ pc[p] = "rollback" /\ installed[p] = <<>> /\ moved[p] # <<>>
      /\ moved' = [moved EXCEPT ![p] = Front(moved[p])]
      /\ UNCHANGED <<marker, reader, history>>
      /\ UNCHANGED <<stage, pc, old, installed, retained, preserve>>
      /\ failed' = failed \/ failed' = [failed EXCEPT ![p] = TRUE]
  BY DEF Restore, RestoreFailed, rest
<1>2. pc[p] \in Replacing /\ pc'[p] \in Replacing
  BY <1>1 DEF Replacing
<1>3. /\ PublicationTypeOK /\ Directory /\ Sound(p) /\ marker = p /\ out \in Dirs /\ out # Absent
      /\ stage[p] # Absent /\ backup[p] # Absent /\ Context \in old[p]
      /\ p \in Versions /\ Managed(p) \subseteq Names /\ backup[p] \in Dirs
  BY <1>2, ReplacingFacts
<1>4. /\ n \in old[p] /\ n \in Names /\ backup[p][n] # Absent
      /\ n \notin ToSet(moved'[p]) /\ ToSet(moved[p]) = ToSet(moved'[p]) \cup {n}
      /\ NoRepeats(moved'[p]) /\ moved' \in [Publishers -> Seq(Names)]
  BY <1>1, <1>2, MovedLast
<1>5. \/ UNCHANGED <<out, backup>>
      \/ /\ n \notin retained[p]
         /\ Put(out', out, n, backup[p][n]) /\ PutOf(backup', backup, p, n, Absent)
  BY DEF Restore, RestoreFailed, Put, PutOf
<1> HIDE DEF n
<1>6. backup[p][n] \in Files \cup {Absent}
  BY <1>3, <1>4 DEF Dirs
<1>7. /\ out' \in Dirs /\ out' # Absent /\ Directory'
      /\ \A m \in Names \ ({n} \ retained[p]) : out'[m] = out[m]
  <2>1. CASE UNCHANGED <<out, backup>>
    BY <1>1, <1>3, <2>1 DEF Directory
  <2>2. CASE n \notin retained[p] /\ Put(out', out, n, backup[p][n])
    <3>1. PublicationTypeOK /\ Directory /\ out \in Dirs /\ n \in Names /\ backup[p][n] # Absent
      BY <1>3, <1>4
    <3>2. /\ out' \in Dirs /\ out' # Absent /\ Directory'
          /\ \A m \in Names : out'[m] = IF m = n THEN backup[p][n] ELSE out[m]
      BY <1>1, <1>6, <2>2, <3>1, OutChanged
    <3> QED BY <2>2, <3>2
  <2> QED BY <1>5, <2>1, <2>2
<1>8. /\ backup' \in [Publishers -> MaybeDirs] /\ backup'[p] # Absent
      /\ \A m \in Names \ {n} : backup'[p][m] = backup[p][m]
  <2>1. backup \in [Publishers -> MaybeDirs]
    BY <1>3, TypeFacts
  <2>2. CASE UNCHANGED <<out, backup>>
    BY <1>3, <2>1, <2>2
  <2>3. CASE PutOf(backup', backup, p, n, Absent)
    <3>1. backup[p] # Absent /\ n \in Names
      BY <1>3, <1>4
    <3>2. /\ backup' \in [Publishers -> MaybeDirs] /\ backup'[p] # Absent
          /\ \A m \in Names : backup'[p][m] = IF m = n THEN Absent ELSE backup[p][m]
      BY <2>1, <2>3, <3>1, OneGone
    <3> QED BY <3>2
  <2> QED BY <1>5, <2>2, <2>3
<1>9. failed' \in [Publishers -> BOOLEAN]
  BY <1>1, <1>3, TypeFacts
<1>10. PublicationTypeOK'
  BY <1>1, <1>3, <1>4, <1>7, <1>8, <1>9 DEF PublicationTypeOK, MaybeDirs
<1>11. Here(p)'
  BY <1>1, <1>3, <1>7 DEF Here
<1>12. Lists(p)'
  <2>1. ToSet(installed[p]) = {}
    BY <1>1, NothingListed
  <2> QED BY <1>1, <1>2, <1>3, <1>4, <2>1, ListFacts DEF Lists
<1>13. Staged(p)'
  <2>1. InPlace(p)'
    <3> SUFFICES ASSUME NEW m \in Managed(p)
                 PROVE  IF m \in ToSet(installed'[p]) \cup retained'[p] THEN out'[m] = Written(p)
                                                                  ELSE stage'[p][m] = Written(p)
      BY DEF InPlace
    <3>1. m \in Names /\ (m \in ToSet(installed[p]) \cup retained[p] => out[m] = Written(p))
          /\ (m \notin ToSet(installed[p]) \cup retained[p] => stage[p][m] = Written(p))
      BY <1>2, <1>3, ListFacts
    <3>2. ToSet(installed[p]) = {}
      BY <1>1, NothingListed
    <3> QED BY <1>1, <1>7, <3>1, <3>2
  <2>2. \A m \in ToSet(moved[p]) : m \in Names /\ backup[p][m] # Absent
    BY <1>2, <1>3, ListFacts, TypeFacts
  <2>3. \A m \in ToSet(moved'[p]) : backup'[p][m] # Absent
    BY <1>4, <1>8, <2>2
  <2> QED BY <1>1, <1>3, <1>8, <2>1, <2>3 DEF Staged
<1> QED BY <1>7, <1>10, <1>11, <1>12, <1>13 DEF SafeAfter, Sound

-----------------------------------------------------------------------------
(* The reader, and every step. *)

LEMMA InitSafe ==
  ASSUME PublicationInit
  PROVE  Safe
<1>1. Earlier \in Versions /\ \A p \in Publishers : p \in Versions
  BY DEF Versions
<1>2. Emitted(Earlier) \in MaybeDirs /\ EmptyDir \in Dirs /\ Absent \in MaybeDirs
      /\ Emitted(Earlier)[Context] # Absent /\ Emitted(Earlier) # Absent
  BY <1>1, EmittedFacts, EmptyDirFacts, ManagedNames, FileFacts DEF MaybeDirs
<1>3. history \in Histories
  BY <1>1, <1>2 DEF PublicationInit, Histories, MaybeVersions
<1>4. reader \in Readers
  BY <1>2 DEF PublicationInit, NoRead, Readers
<1>5. pc \in [Publishers -> PublisherPhases]
  BY DEF PublicationInit, PublisherPhases
<1>6. PublicationTypeOK
  BY <1>2, <1>3, <1>4, <1>5, NothingListed DEF PublicationTypeOK, PublicationInit, MaybeDirs
<1>7. Directory
  BY <1>1, <1>2 DEF Directory, PublicationInit, NoRead
<1>8. ASSUME NEW p \in Publishers PROVE Sound(p)
  <2>1. pc[p] = "idle" /\ NoLists(p)
    BY DEF PublicationInit, NoLists
  <2> QED BY <2>1 DEF Sound, Here, Lists, Staged, NoLists, Listing, Marking, Replacing
<1> QED BY <1>6, <1>7, <1>8 DEF Safe

LEMMA PublishSafe ==
  ASSUME Safe, NEW p \in Publishers, Publish(p)
  PROVE  Safe' /\ Others(p)
<1>1. SafeAfter(p)
  BY NotYetKept, FirstPublishedKept, ScanKept, MarkKept, WriteMarkerKept, EndedKept, LeaveKept,
     LinkOldKept, LinkOldFailedKept, InstallKept, MoveStaleKept, RetractKept, RetractFailedKept,
     RestoreKept DEF Publish
<1>2. Others(p)
  BY OthersKept DEF Safe, Sound
<1>3. \A q \in Publishers \ {p} : Sound(q)'
  BY <1>1, <1>2, OthersSound DEF SafeAfter
<1> QED BY <1>1, <1>2, <1>3 DEF SafeAfter, Safe

ReadStep == DiffBegin \/ DiffList \/ DiffRead \/ DiffContext

\* A reader changes nothing but its own progress.
LEMMA ReadSafe ==
  ASSUME Safe, ReadStep
  PROVE  Safe' /\ UNCHANGED <<out, marker, publisherVars, history>>
<1>1. UNCHANGED <<out, marker, publisherVars, history>>
  BY DEF ReadStep, DiffBegin, DiffList, DiffRead, DiffContext
<1>2. UNCHANGED <<stage, backup, pc, old, moved, installed, retained, failed, preserve>>
  BY <1>1 DEF publisherVars, lists
<1>3. PublicationTypeOK /\ Directory
  BY DEF Safe
<1>4. reader \in Readers /\ out \in MaybeDirs /\ (reader.at # "idle" => out # Absent)
  BY <1>3 DEF PublicationTypeOK, Directory
<1>5. reader' \in Readers /\ out # Absent
  <2>1. CASE DiffBegin
    BY <2>1, <1>4 DEF DiffBegin, Readers
  <2>2. CASE DiffList
    <3>1. Entries(out) \cap Snapshots \in SUBSET Snapshots
      OBVIOUS
    <3> QED BY <2>2, <3>1, <1>4 DEF DiffList, Readers
  <2>3. CASE DiffRead
    <3> DEFINE n == First(reader.names)
    <3>1. reader.at = "read" /\ reader.names \in SUBSET Snapshots /\ reader.names # {} /\ reader.got \in Dirs
      BY <2>3, <1>4 DEF DiffRead, Readers
    <3>2. n \in Names
      <4>1. reader.names \in SUBSET Names
        BY <3>1 DEF Names
      <4> QED BY <3>1, <4>1, FirstIn
    <3>3. out \in Dirs
      BY <1>4, <3>1 DEF MaybeDirs
    <3>4. reader' = IF out[n] = Absent
                    THEN [reader EXCEPT !.at = "refused"]
                    ELSE [reader EXCEPT !.names = reader.names \ {n}, !.got[n] = out[n]]
      BY <2>3 DEF DiffRead
    <3> HIDE DEF n
    <3>5. out[n] \in Files \cup {Absent}
      BY <3>2, <3>3 DEF Dirs
    <3>6. [reader.got EXCEPT ![n] = out[n]] \in Dirs
      BY <3>1, <3>2, <3>5 DEF Dirs
    <3>7. reader.names \ {n} \in SUBSET Snapshots
      BY <3>1
    <3>8. [reader EXCEPT !.names = reader.names \ {n}, !.got[n] = out[n]]
            = [reader EXCEPT !.names = reader.names \ {n}, !.got = [reader.got EXCEPT ![n] = out[n]]]
      BY <1>4 DEF Readers
    <3>9. [reader EXCEPT !.at = "refused"] \in Readers
      BY <1>4 DEF Readers
    <3>10. [reader EXCEPT !.names = reader.names \ {n}, !.got = [reader.got EXCEPT ![n] = out[n]]] \in Readers
      BY <1>4, <3>6, <3>7 DEF Readers
    <3> QED BY <1>4, <3>1, <3>4, <3>8, <3>9, <3>10
  <2>4. CASE DiffContext
    BY <2>4, <1>4 DEF DiffContext, Readers
  <2> QED BY <2>1, <2>2, <2>3, <2>4 DEF ReadStep
<1>6. PublicationTypeOK' /\ Directory'
  BY <1>1, <1>2, <1>3, <1>5 DEF PublicationTypeOK, Directory
<1>7. \A p \in Publishers : Sound(p)'
  BY <1>1, <1>2, ZenonT(30) DEF Safe, Sound, Here, Lists, Staged, InPlace, Fresh
<1> QED BY <1>1, <1>6, <1>7 DEF Safe

\* The context is there, so what is accepted was matched with one.
LEMMA ReadWhole ==
  ASSUME Safe, ReadsAreWhole, ReadStep
  PROVE  ReadsAreWhole'
<1> SUFFICES ASSUME reader'.at = "accepted"
             PROVE  ReadsAreWhole'
  BY DEF ReadsAreWhole
<1>1. reader \in Readers /\ (reader.at # "idle" => out # Absent)
      /\ (out # Absent => out \in Dirs /\ out[Context] # Absent)
  BY DEF Safe, PublicationTypeOK, Directory, MaybeDirs
<1>2. CASE DiffContext
  <2>1. /\ reader.at = "read" /\ reader' = [reader EXCEPT !.at = "accepted"]
        /\ out[Context] = Absent \/ Matches(reader.got, out[Context])
    BY <1>1, <1>2 DEF DiffContext, Readers
  <2>2. out[Context] \in Files /\ Matches(reader.got, out[Context])
    <3>1. out \in Dirs /\ out[Context] # Absent /\ Context \in Names
      BY <1>1, <2>1 DEF Names
    <3> QED BY <2>1, <3>1 DEF Dirs
  <2> DEFINE v == out[Context].of
  <2>3. v \in Versions
    BY <2>2 DEF Files
  <2>4. reader'.got = reader.got /\ reader.got \in Dirs
    BY <1>1, <2>1 DEF Readers
  <2>5. \A n \in Snapshots : IF n \in Emits[v] THEN IsFrom(reader.got[n], v) ELSE reader.got[n] = Absent
    <3> SUFFICES ASSUME NEW n \in Snapshots
                 PROVE  IF n \in Emits[v] THEN IsFrom(reader.got[n], v) ELSE reader.got[n] = Absent
      OBVIOUS
    <3>1. n \in Names
      BY DEF Names
    <3>2. Entries(reader.got) = Emits[v]
          /\ \A m \in Entries(reader.got) : reader.got[m].of = v /\ reader.got[m].whole
      BY <2>2 DEF Matches
    <3> QED BY <3>1, <3>2 DEF Entries, IsFrom
  <2> QED BY <2>3, <2>4, <2>5 DEF ReadsAreWhole
<1>3. CASE DiffBegin \/ DiffList
  <2>1. reader'.at # "accepted"
    BY <1>1, <1>3 DEF DiffBegin, DiffList, Readers
  <2> QED BY <2>1
<1>4. CASE DiffRead
  <2>1. reader.at = "read"
    BY <1>4 DEF DiffRead
  <2>2. reader'.at # "accepted"
    BY <1>1, <1>4, <2>1 DEF DiffRead, Readers
  <2> QED BY <2>2
<1> QED BY <1>2, <1>3, <1>4 DEF ReadStep

LEMMA StepReads ==
  ASSUME Safe, ReadsAreWhole, [PublicationNext]_publicationVars
  PROVE  Safe' /\ ReadsAreWhole'
<1>1. ASSUME NEW p \in Publishers, Publish(p)
      PROVE  Safe' /\ ReadsAreWhole'
  <2>1. reader' = reader
    BY <1>1 DEF Publish, Begin, BeginRefused, Stage, StageRefused, Probe, FirstPublished, FirstFailed,
       Scan, Mark, MarkRefused, WriteMarker, WriteMarkerFailed, LinkOld, LinkOldFailed, Install,
       InstallFailed, MoveStale, MoveStaleFailed, Commit, Unmark, Clean, Retract, RetractFailed,
       Restore, RestoreFailed, Settle, SettleIncomplete, Crash, rest
  <2> QED BY <1>1, <2>1, PublishSafe DEF ReadsAreWhole
<1>2. CASE ReadStep
  BY <1>2, ReadSafe, ReadWhole
<1>3. CASE UNCHANGED publicationVars
  <2>1. UNCHANGED <<out, marker, stage, backup, pc, old, moved, installed, retained, failed, preserve,
                    reader, history>>
    BY <1>3 DEF publicationVars, publisherVars, lists
  <2>2. Safe'
    BY <2>1, ZenonT(30) DEF Safe, PublicationTypeOK, Directory, Sound, Here, Lists, Staged, InPlace, Fresh
  <2> QED BY <2>1, <2>2 DEF ReadsAreWhole
<1>4. Done => UNCHANGED publicationVars
  BY DEF Done
<1> QED BY <1>1, <1>2, <1>3, <1>4 DEF PublicationNext, ReadStep

\* What `ridl diff` accepts is one publication's complete set of snapshots,
\* whatever replaces them or rolls them back while it reads one by one.
THEOREM DiffsAreWhole == PublicationSpec => []ReadsAreWhole
<1>1. PublicationInit => Safe /\ ReadsAreWhole
  BY InitSafe DEF PublicationInit, NoRead, ReadsAreWhole
<1>2. Safe /\ ReadsAreWhole /\ [PublicationNext]_publicationVars => (Safe /\ ReadsAreWhole)'
  BY StepReads
<1> QED BY <1>1, <1>2, PTL DEF PublicationSpec

-----------------------------------------------------------------------------
(* Nothing is lost of a publication whose list was right. *)

LEMMA StillMarked ==
  ASSUME Safe', NEW p \in Publishers, marker' = p, pc'[p] # "unmark"
  PROVE  Whole'
<1>1. p # Absent
  BY PublicationAssumption
<1>2. ASSUME NEW q \in Publishers, pc'[q] = "unmark" PROVE FALSE
  <2>1. marker' = q
    BY <1>2 DEF Safe, Sound, Here, Marking
  <2> QED BY <1>2, <2>1
<1> QED BY <1>1, <1>2 DEF Whole

LEMMA WholeLeft ==
  ASSUME Whole, NEW p \in Publishers, Others(p), out' = out, history'.last = history.last,
         marker' = Absent => marker = Absent, pc'[p] # "unmark"
  PROVE  Whole'
<1>1. \A q \in Publishers : pc'[q] = "unmark" => pc[q] = "unmark"
  BY DEF Others, Same
<1> QED BY <1>1 DEF Whole, As

\* Nothing that p has is anybody's business before it takes the marker.
LEMMA BeforeExact ==
  ASSUME Safe, Whole, Safe', NEW p \in Publishers, Exact(p), Others(p),
         \/ Begin(p) \/ BeginRefused(p) \/ Stage(p) \/ StageRefused(p) \/ Probe(p)
         \/ FirstFailed(p) \/ Scan(p) \/ MarkRefused(p)
  PROVE  Exact(p)' /\ Whole'
<1>1. /\ pc[p] \in {"idle", "staging", "staged", "rename", "scan", "mark"}
      /\ UNCHANGED <<out, marker, preserve, history>>
  BY DEF Begin, BeginRefused, Stage, StageRefused, Probe, FirstFailed, Scan, MarkRefused, rest, Go
<1>2. pc'[p] \in {"staging", "staged", "rename", "scan", "mark", "refused", "failed"}
  <2>1. pc \in [Publishers -> PublisherPhases]
    BY TypeFacts DEF Safe
  <2> QED BY <2>1 DEF Begin, BeginRefused, Stage, StageRefused, Probe, FirstFailed, Scan, MarkRefused, Go
<1>3. pc[p] \notin Marking \cup {"clean"} \cup Ended
  BY <1>1 DEF Marking, Replacing, Ended
<1>4. marker # p /\ p \notin history.committed /\ ~preserve[p]
  BY <1>3 DEF Exact, Committed, Unfinished, Marking
<1>5. Exact(p)'
  <2>1. pc'[p] \notin {"write"} \cup Replacing \cup {"unmark", "clean"}
    BY <1>2 DEF Replacing
  <2> QED BY <1>1, <1>4, <2>1 DEF Exact, Replaced, Committed, Unfinished
<1>6. Whole'
  BY <1>1, <1>2, WholeLeft
<1> QED BY <1>5, <1>6

LEMMA FirstPublishedExact ==
  ASSUME Safe, Safe', NEW p \in Publishers, Exact(p), FirstPublished(p)
  PROVE  Exact(p)' /\ Whole'
<1>1. PublicationTypeOK /\ Directory /\ Sound(p) /\ p \in Versions
  BY DEF Safe, Versions
<1>2. /\ pc[p] = "rename" /\ pc' = [pc EXCEPT ![p] = "published"]
      /\ stage[p] = Emitted(p)
      /\ out = Absent /\ out' = Emitted(p)
      /\ history' = [history EXCEPT !.last = p]
      /\ UNCHANGED <<marker, preserve>>
  BY <1>1 DEF FirstPublished, Go, Sound, Staged
<1>3. marker = Absent /\ p # Absent /\ pc'[p] = "published"
  BY <1>1, <1>2, PublicationAssumption, TypeFacts DEF Directory
<1>4. history'.last = p /\ history'.committed = history.committed
  BY <1>1, <1>2 DEF PublicationTypeOK, Histories
<1>5. p \notin history.committed /\ ~preserve[p]
  BY <1>2 DEF Exact, Committed, Ended
<1>6. Exact(p)'
  BY <1>2, <1>3, <1>4, <1>5 DEF Exact, Replaced, Committed, Unfinished, Replacing
<1>7. Whole'
  BY <1>1, <1>2, <1>4, EmittedFacts DEF Whole, As
<1> QED BY <1>6, <1>7

\* The list was right: it is the publication that is replaced.
LEMMA MarkExact ==
  ASSUME Safe, Whole, Safe', NEW p \in Publishers, Exact(p), Mark(p), ~history'.raced
  PROVE  Exact(p)' /\ Whole'
<1>1. PublicationTypeOK /\ Directory /\ Sound(p) /\ p \in Versions
  BY DEF Safe, Versions
<1>2. /\ pc[p] = "mark" /\ pc'[p] = "write" /\ marker = Absent /\ marker' = p
      /\ UNCHANGED <<out, stage, backup, old, moved, installed, retained, failed, preserve, reader>>
      /\ NoLists(p) /\ stage[p] = Emitted(p) /\ out # Absent
  BY <1>1, TypeFacts DEF Mark, Go, lists, Sound, Here, Lists, Staged, NoLists, Listing, Replacing
<1> DEFINE b == history.last
<1>3. /\ history'.last = b /\ history'.marked[p] = b /\ history'.committed = history.committed
      /\ old[p] = Entries(out)
  <2>1. history' = [history EXCEPT !.marked[p] = history.last,
                                   !.raced = (history.raced \/ old[p] # Entries(out))]
    BY DEF Mark
  <2>2. history \in Histories
    BY <1>1 DEF PublicationTypeOK
  <2>3. history'.last = b /\ history'.marked[p] = b /\ history'.committed = history.committed
    BY <2>1, <2>2 DEF Histories
  <2>4. history'.raced = (history.raced \/ old[p] # Entries(out))
    BY <2>1, <2>2 DEF Histories
  <2>5. ~(history.raced \/ old[p] # Entries(out))
    BY <2>4, Zenon
  <2> QED BY <2>3, <2>5
<1>4. b \in Versions
  BY <1>1, <1>2 DEF Directory
<1> HIDE DEF b
<1>5. \A n \in Names : As(n, b)
  BY <1>2 DEF Whole, b
<1>6. Managed(b) \subseteq Names /\ Managed(p) \subseteq Names
  BY <1>1, <1>4, ManagedNames
<1>7. old[p] = Managed(b)
  <2>1. \A n \in Names : out[n] # Absent <=> n \in Managed(b)
    BY <1>4, <1>5, FileFacts DEF As
  <2> QED BY <1>3, <1>6, <2>1 DEF Entries
<1>8. p \notin history.committed /\ ~preserve[p]
  BY <1>2 DEF Exact, Committed, Ended
<1>9. ToSet(moved[p]) = {} /\ ToSet(installed[p]) = {}
  BY <1>2, NothingListed DEF NoLists
<1>10. Replaced(p)'
  <2>1. Base(p)' = b
    BY <1>3 DEF Base
  <2>2. \A n \in Names : As(n, b)'
    <3>1. b' = b
      BY <1>3 DEF b
    <3> QED BY <1>2, <1>5, <3>1 DEF As
  <2>3. b' = b
    BY <1>3 DEF b
  <2> QED BY <1>2, <1>3, <1>4, <1>7, <1>8, <1>9, <2>1, <2>2, <2>3 DEF Replaced
<1>11. Committed(p)'
  BY <1>2, <1>3, <1>8 DEF Committed
<1>12. Unfinished(p)'
  <2>1. BaseSomewhere(p)'
    BY <1>2, <1>3, <1>4, <1>5, <1>6, FileFacts DEF BaseSomewhere, Base, As
  <2>2. FreshSomewhere(p)'
    BY <1>1, <1>2, <1>6, EmittedFacts, FileFacts DEF FreshSomewhere
  <2> QED BY <1>2, <2>1, <2>2 DEF Unfinished, Marking
<1>13. Whole'
  BY <1>2, StillMarked
<1> QED BY <1>10, <1>11, <1>12, <1>13 DEF Exact

\* What is known of the publication that p replaces.
LEMMA BaseFacts ==
  ASSUME Safe, NEW p \in Publishers, Exact(p), pc[p] \in {"write"} \cup Replacing
  PROVE  /\ marker = p /\ p \in Versions /\ Base(p) \in Versions
         /\ Managed(p) \subseteq Names /\ Managed(Base(p)) \subseteq Names
         /\ Base(p) = history.last /\ p \notin history.committed /\ ~preserve[p]
         /\ old[p] = Managed(Base(p))
         /\ Written(Base(p)) # Absent /\ IsFrom(Written(Base(p)), Base(p)) /\ IsFrom(Written(p), p)
         /\ \A n \in ToSet(moved[p]) : backup[p][n] = Written(Base(p))
         /\ pc[p] \in {"link", "install"} => \A n \in ToSet(moved[p]) \ Managed(p) : out[n] = Absent
         /\ ~failed[p] => \A n \in Names \ (ToSet(installed[p]) \cup ToSet(moved[p])) : As(n, Base(p))
         /\ BaseSomewhere(p) /\ FreshSomewhere(p)
<1>1. p \in Versions /\ pc[p] \in Marking /\ pc[p] \notin Ended
  BY DEF Versions, Marking, Replacing, Ended
<1>2. marker = p
  BY <1>1 DEF Safe, Sound, Here
<1>3. /\ Base(p) = history.last /\ p \notin history.committed
      /\ Base(p) \in Versions /\ old[p] = Managed(Base(p))
      /\ \A n \in ToSet(moved[p]) : backup[p][n] = Written(Base(p))
      /\ pc[p] \in {"link", "install"} => \A n \in ToSet(moved[p]) \ Managed(p) : out[n] = Absent
      /\ ~failed[p] => \A n \in Names \ (ToSet(installed[p]) \cup ToSet(moved[p])) : As(n, Base(p))
  BY DEF Exact, Replaced
<1>4. ~preserve[p] /\ BaseSomewhere(p) /\ FreshSomewhere(p)
  BY <1>1, <1>2, <1>3 DEF Exact, Committed, Unfinished
<1> QED BY <1>1, <1>2, <1>3, <1>4, ManagedNames, FileFacts

\* What p has installed or staged stays somewhere while it replaces.
LEMMA FreshStays ==
  ASSUME Safe', NEW p \in Publishers, pc'[p] \in Replacing
  PROVE  FreshSomewhere(p)'
<1>1. InPlace(p)' /\ IsFrom(Written(p), p)
  BY FileFacts DEF Safe, Sound, Staged, Versions
<1> QED BY <1>1 DEF InPlace, FreshSomewhere

\* A step of a replacement: the history stays, and what has been replaced is
\* shown of the files and lists it changes.
LEMMA ReplacingExact ==
  ASSUME Safe, Safe', NEW p \in Publishers, Exact(p), pc[p] \in {"write"} \cup Replacing,
         pc'[p] \in Replacing, UNCHANGED <<marker, old, preserve, history>>,
         \A n \in ToSet(moved'[p]) : backup'[p][n] = Written(Base(p)),
         pc'[p] \in {"link", "install"} => \A n \in ToSet(moved'[p]) \ Managed(p) : out'[n] = Absent,
         ~failed'[p] =>
           \A n \in Names \ (ToSet(installed'[p]) \cup ToSet(moved'[p])) :
             out'[n] = IF n \in Managed(Base(p)) THEN Written(Base(p)) ELSE Absent,
         \A n \in Managed(Base(p)) : IsFrom(out'[n], Base(p)) \/ IsFrom(backup'[p][n], Base(p))
  PROVE  Exact(p)' /\ Whole'
<1>1. /\ Base(p)' = Base(p) /\ Base(p) = history.last /\ p \notin history.committed /\ ~preserve[p]
      /\ Base(p) \in Versions /\ old[p] = Managed(Base(p)) /\ marker = p
  BY BaseFacts DEF Base
<1>2. Replaced(p)'
  BY <1>1 DEF Replaced, As
<1>3. pc'[p] \in Marking /\ pc'[p] \notin {"unmark", "clean"}
  BY DEF Marking, Replacing
<1>4. Committed(p)'
  BY <1>1, <1>3 DEF Committed
<1>5. FreshSomewhere(p)'
  BY FreshStays
<1>6. BaseSomewhere(p)'
  BY <1>1 DEF BaseSomewhere
<1>7. Unfinished(p)'
  BY <1>3, <1>5, <1>6 DEF Unfinished
<1>8. Whole'
  BY <1>1, <1>3, StillMarked
<1> QED BY <1>2, <1>4, <1>7, <1>8 DEF Exact

\* Nothing but the program counter moves, within the replacement.
LEMMA PhaseExact ==
  ASSUME Safe, Safe', NEW p \in Publishers, Exact(p),
         WriteMarker(p) \/ InstallFailed(p) \/ MoveStaleFailed(p)
  PROVE  Exact(p)' /\ Whole'
<1>1. /\ pc[p] \in {"write"} \cup Replacing
      /\ UNCHANGED <<out, marker, stage, backup, old, moved, installed, retained, failed, preserve, history>>
      /\ pc'[p] \in Replacing
      /\ pc'[p] \in {"link", "install"} => pc[p] = "write"
  <2>1. pc \in [Publishers -> PublisherPhases]
    BY TypeFacts DEF Safe
  <2> QED BY <2>1 DEF WriteMarker, InstallFailed, MoveStaleFailed, Go, Replacing, lists, rest
<1>2. pc[p] = "write" => ToSet(moved[p]) = {}
  <2>1. ASSUME pc[p] = "write" PROVE moved[p] = <<>>
    BY <2>1 DEF Safe, Sound, Lists, Replacing
  <2> QED BY <2>1, NothingListed
<1>3. /\ \A n \in ToSet(moved'[p]) : backup'[p][n] = Written(Base(p))
      /\ pc'[p] \in {"link", "install"} => \A n \in ToSet(moved'[p]) \ Managed(p) : out'[n] = Absent
      /\ ~failed'[p] =>
           \A n \in Names \ (ToSet(installed'[p]) \cup ToSet(moved'[p])) :
             out'[n] = IF n \in Managed(Base(p)) THEN Written(Base(p)) ELSE Absent
      /\ \A n \in Managed(Base(p)) : IsFrom(out'[n], Base(p)) \/ IsFrom(backup'[p][n], Base(p))
  BY <1>1, <1>2, BaseFacts DEF As, BaseSomewhere
<1> QED BY <1>1, <1>3, ReplacingExact

LEMMA LinkOldExact ==
  ASSUME Safe, Safe', NEW p \in Publishers, Exact(p), LinkOld(p)
  PROVE  Exact(p)' /\ Whole'
<1> DEFINE n == First(Fresh(p))
           b == Base(p)
<1>1. /\ pc[p] = "link" /\ pc'[p] = "install"
      /\ Fresh(p) # {}
      /\ UNCHANGED <<out, marker, stage, old, installed, failed, preserve, history>>
  BY TypeFacts DEF LinkOld, Go, Safe, rest
<1>2. pc[p] \in Replacing /\ pc'[p] \in Replacing
  BY <1>1 DEF Replacing
<1>3. /\ n \in Managed(p) /\ n \in Names /\ n \notin ToSet(installed[p]) /\ n \notin ToSet(moved[p])
      /\ ~failed[p]
  <2>1. n \in Managed(p) /\ n \in Names /\ n \notin ToSet(installed[p])
    BY <1>1, FreshFirst DEF Safe
  <2>2. ToSet(moved[p]) \cap Managed(p) \subseteq ToSet(installed[p]) /\ ~failed[p]
    BY <1>1 DEF Safe, Sound, Lists
  <2> QED BY <2>1, <2>2
<1>4. /\ old[p] = Managed(b) /\ Managed(b) \subseteq Names
      /\ \A m \in ToSet(moved[p]) : backup[p][m] = Written(b)
      /\ \A m \in ToSet(moved[p]) \ Managed(p) : out[m] = Absent
      /\ \A m \in Names \ (ToSet(installed[p]) \cup ToSet(moved[p])) : As(m, b)
      /\ BaseSomewhere(p) /\ IsFrom(Written(b), b)
  BY <1>1, <1>2, <1>3, BaseFacts
<1> HIDE DEF n, b
<1>5. CASE n \notin old[p]
  <2>1. UNCHANGED <<backup, moved>>
    BY <1>5 DEF LinkOld, n
  <2>2. /\ \A m \in ToSet(moved'[p]) : backup'[p][m] = Written(Base(p))
        /\ pc'[p] \in {"link", "install"} => \A m \in ToSet(moved'[p]) \ Managed(p) : out'[m] = Absent
        /\ ~failed'[p] =>
             \A m \in Names \ (ToSet(installed'[p]) \cup ToSet(moved'[p])) :
               out'[m] = IF m \in Managed(Base(p)) THEN Written(Base(p)) ELSE Absent
        /\ \A m \in Managed(Base(p)) : IsFrom(out'[m], Base(p)) \/ IsFrom(backup'[p][m], Base(p))
    BY <1>1, <1>4, <2>1 DEF As, b, BaseSomewhere
  <2> QED BY <1>1, <1>2, <2>2, ReplacingExact
<1>6. CASE n \in old[p]
  <2>1. /\ PutOf(backup', backup, p, n, out[n])
        /\ moved' = [moved EXCEPT ![p] = Append(moved[p], n)]
    BY <1>6 DEF LinkOld, n, PutOf
  <2>2. out[n] = Written(b)
    BY <1>3, <1>4, <1>6 DEF As
  <2>3. \A m \in Names : backup'[p][m] = IF m = n THEN Written(b) ELSE backup[p][m]
    <3>1. backup \in [Publishers -> MaybeDirs] /\ backup[p] # Absent
      BY <1>2, ReplacingFacts, TypeFacts
    <3>2. out[n] \in Files \cup {Absent}
      BY <1>2, <1>3, ReplacingFacts DEF Dirs
    <3>3. n \in Names /\ PutOf(backup', backup, p, n, out[n])
      BY <1>3, <2>1
    <3>4. \A m \in Names : backup'[p][m] = IF m = n THEN out[n] ELSE backup[p][m]
      BY <3>1, <3>2, <3>3, OneOfMany
    <3> QED BY <2>2, <3>4
  <2>4. ToSet(moved'[p]) = ToSet(moved[p]) \cup {n} /\ ToSet(moved[p]) \subseteq Names
    <3>1. moved \in [Publishers -> Seq(Names)]
      BY TypeFacts DEF Safe
    <3>2. ToSet(moved[p]) \subseteq old[p] /\ old[p] \subseteq Names
      BY <1>2, ListFacts, ReplacingFacts
    <3> QED BY <1>3, <2>1, <3>1, <3>2, Appended
  <2>5. /\ \A m \in ToSet(moved'[p]) : backup'[p][m] = Written(Base(p))
        /\ pc'[p] \in {"link", "install"} => \A m \in ToSet(moved'[p]) \ Managed(p) : out'[m] = Absent
        /\ ~failed'[p] =>
             \A m \in Names \ (ToSet(installed'[p]) \cup ToSet(moved'[p])) :
               out'[m] = IF m \in Managed(Base(p)) THEN Written(Base(p)) ELSE Absent
        /\ \A m \in Managed(Base(p)) : IsFrom(out'[m], Base(p)) \/ IsFrom(backup'[p][m], Base(p))
    <3>1. \A m \in ToSet(moved'[p]) : backup'[p][m] = Written(b)
      BY <1>3, <1>4, <2>3, <2>4
    <3>2. \A m \in ToSet(moved'[p]) \ Managed(p) : out'[m] = Absent
      BY <1>1, <1>3, <1>4, <2>4
    <3>3. \A m \in Names \ (ToSet(installed'[p]) \cup ToSet(moved'[p])) :
               out'[m] = IF m \in Managed(b) THEN Written(b) ELSE Absent
      BY <1>1, <1>4, <2>4 DEF As
    <3>4. \A m \in Managed(b) : IsFrom(out'[m], b) \/ IsFrom(backup'[p][m], b)
      BY <1>1, <1>4, <2>3 DEF BaseSomewhere, b
    <3> QED BY <3>1, <3>2, <3>3, <3>4 DEF b
  <2> QED BY <1>1, <1>2, <2>5, ReplacingExact
<1> QED BY <1>5, <1>6

\* One name changes, whatever is put there.
LEMMA PutElsewhere ==
  ASSUME NEW g \in [Publishers -> MaybeDirs], NEW p \in Publishers, g[p] # Absent,
         NEW n \in Names, NEW f, NEW h, PutOf(h, g, p, n, f)
  PROVE  h[p][n] = f /\ \A m \in Names \ {n} : h[p][m] = g[p][m]
<1>1. g[p] \in Dirs
  BY DEF MaybeDirs
<1> QED BY <1>1 DEF PutOf, Dirs

LEMMA OutElsewhere ==
  ASSUME out \in Dirs, NEW n \in Names, NEW f, Put(out', out, n, f)
  PROVE  out'[n] = f /\ \A m \in Names \ {n} : out'[m] = out[m]
  BY DEF Put, Dirs

LEMMA LinkOldFailedExact ==
  ASSUME Safe, Safe', NEW p \in Publishers, Exact(p), LinkOldFailed(p)
  PROVE  Exact(p)' /\ Whole'
<1> DEFINE n == First(Fresh(p))
           b == Base(p)
<1>1. /\ pc[p] = "link" /\ pc'[p] = "rollback"
      /\ Fresh(p) # {} /\ n \in old[p]
      /\ UNCHANGED <<out, marker, stage, old, moved, installed, failed, preserve, history>>
  BY TypeFacts DEF LinkOldFailed, Go, Safe, rest, lists
<1>2. pc[p] \in Replacing /\ pc'[p] \in Replacing /\ pc'[p] \notin {"link", "install"}
  BY <1>1 DEF Replacing
<1>3. /\ n \in Names /\ n \notin ToSet(installed[p]) /\ n \notin ToSet(moved[p]) /\ ~failed[p]
  <2>1. n \in Managed(p) /\ n \in Names /\ n \notin ToSet(installed[p])
    BY <1>1, FreshFirst DEF Safe
  <2>2. ToSet(moved[p]) \cap Managed(p) \subseteq ToSet(installed[p]) /\ ~failed[p]
    BY <1>1 DEF Safe, Sound, Lists
  <2> QED BY <2>1, <2>2
<1>4. /\ old[p] = Managed(b) /\ Managed(b) \subseteq Names
      /\ \A m \in ToSet(moved[p]) : backup[p][m] = Written(b)
      /\ \A m \in Names \ (ToSet(installed[p]) \cup ToSet(moved[p])) : As(m, b)
      /\ BaseSomewhere(p) /\ IsFrom(Written(b), b)
  BY <1>1, <1>2, <1>3, BaseFacts
<1>5. ToSet(moved[p]) \subseteq Names
  BY <1>2, <1>4, ListFacts DEF Safe
<1>6. PICK f : PutOf(backup', backup, p, n, f)
  BY DEF LinkOldFailed, PutOf
<1> HIDE DEF n, b
<1>7. \A m \in Names \ {n} : backup'[p][m] = backup[p][m]
  <2>1. backup \in [Publishers -> MaybeDirs] /\ backup[p] # Absent
    BY <1>2, ReplacingFacts, TypeFacts
  <2>2. n \in Names
    BY <1>3
  <2> QED BY <2>1, <2>2, <1>6, PutElsewhere
<1>8. \A m \in ToSet(moved'[p]) : backup'[p][m] = Written(b)
  BY <1>1, <1>3, <1>4, <1>5, <1>7
<1>9. ~failed'[p] =>
        \A m \in Names \ (ToSet(installed'[p]) \cup ToSet(moved'[p])) :
          out'[m] = IF m \in Managed(b) THEN Written(b) ELSE Absent
  BY <1>1, <1>4 DEF As
<1>10. \A m \in Managed(b) : IsFrom(out'[m], b) \/ IsFrom(backup'[p][m], b)
  <2>1. out[n] = Written(b)
    BY <1>1, <1>3, <1>4 DEF As
  <2> QED BY <1>1, <1>4, <1>7, <2>1 DEF BaseSomewhere, b
<1> QED BY <1>1, <1>2, <1>8, <1>9, <1>10, ReplacingExact DEF b

LEMMA InstallExact ==
  ASSUME Safe, Safe', NEW p \in Publishers, Exact(p), Install(p)
  PROVE  Exact(p)' /\ Whole'
<1> DEFINE n == First(Fresh(p))
           b == Base(p)
<1>1. /\ pc[p] = "install" /\ pc'[p] = "link"
      /\ UNCHANGED <<marker, backup, old, moved, failed, preserve, history>>
      /\ installed' = [installed EXCEPT ![p] = Append(installed[p], n)]
      /\ Put(out', out, n, stage[p][n])
  BY TypeFacts DEF Install, Go, Safe, rest, Put
<1>2. pc[p] \in Replacing /\ pc'[p] \in Replacing
  BY <1>1 DEF Replacing
<1>3. /\ n \in Managed(p) /\ n \in Names /\ n \notin ToSet(installed[p]) /\ ~failed[p]
      /\ n \in old[p] => n \in ToSet(moved[p])
  <2>1. Fresh(p) # {}
    BY <1>1 DEF Safe, Sound, Lists
  <2>2. n \in Managed(p) /\ n \in Names /\ n \notin ToSet(installed[p])
    BY <2>1, FreshFirst DEF Safe
  <2> QED BY <1>1, <2>2 DEF Safe, Sound, Lists
<1>4. /\ old[p] = Managed(b) /\ Managed(b) \subseteq Names
      /\ \A m \in ToSet(moved[p]) : backup[p][m] = Written(b)
      /\ \A m \in ToSet(moved[p]) \ Managed(p) : out[m] = Absent
      /\ \A m \in Names \ (ToSet(installed[p]) \cup ToSet(moved[p])) : As(m, b)
      /\ BaseSomewhere(p) /\ IsFrom(Written(b), b)
  BY <1>1, <1>2, <1>3, BaseFacts
<1>5. ToSet(moved[p]) \subseteq Names
  BY <1>2, <1>4, ListFacts DEF Safe
<1> HIDE DEF n, b
<1>6. \A m \in Names \ {n} : out'[m] = out[m]
  <2>1. out \in Dirs /\ n \in Names /\ Put(out', out, n, stage[p][n])
    BY <1>1, <1>2, <1>3, ReplacingFacts
  <2> QED BY <2>1, OutElsewhere
<1>7. ToSet(installed'[p]) = ToSet(installed[p]) \cup {n}
  <2>1. installed \in [Publishers -> Seq(Names)]
    BY TypeFacts DEF Safe
  <2> QED BY <1>1, <1>3, <2>1, Appended
<1>8. \A m \in ToSet(moved'[p]) : backup'[p][m] = Written(b)
  BY <1>1, <1>4
<1>9. \A m \in ToSet(moved'[p]) \ Managed(p) : out'[m] = Absent
  BY <1>1, <1>3, <1>4, <1>5, <1>6
<1>10. \A m \in Names \ (ToSet(installed'[p]) \cup ToSet(moved'[p])) :
          out'[m] = IF m \in Managed(b) THEN Written(b) ELSE Absent
  BY <1>1, <1>4, <1>6, <1>7 DEF As
<1>11. \A m \in Managed(b) : IsFrom(out'[m], b) \/ IsFrom(backup'[p][m], b)
  <2>1. n \in Managed(b) => IsFrom(backup[p][n], b)
    BY <1>3, <1>4
  <2> QED BY <1>1, <1>4, <1>6, <2>1 DEF BaseSomewhere, b
<1> QED BY <1>1, <1>2, <1>8, <1>9, <1>10, <1>11, ReplacingExact DEF b

LEMMA MoveStaleExact ==
  ASSUME Safe, Safe', NEW p \in Publishers, Exact(p), MoveStale(p)
  PROVE  Exact(p)' /\ Whole'
<1> DEFINE n == First(Stale(p))
           b == Base(p)
<1>1. /\ pc[p] = "link" /\ pc'[p] = "link" /\ Stale(p) # {}
      /\ UNCHANGED <<marker, stage, old, installed, failed, preserve, history>>
      /\ moved' = [moved EXCEPT ![p] = Append(moved[p], n)]
      /\ Put(out', out, n, Absent) /\ PutOf(backup', backup, p, n, out[n])
  BY TypeFacts DEF MoveStale, Go, Safe, rest, Put, PutOf
<1>2. pc[p] \in Replacing /\ pc'[p] \in Replacing
  BY <1>1 DEF Replacing
<1>3. /\ n \in old[p] /\ n \in Names /\ n \notin Managed(p) /\ n \notin ToSet(moved[p])
      /\ n \notin ToSet(installed[p]) /\ ~failed[p]
  <2>1. n \in old[p] /\ n \in Names /\ n \notin Managed(p) /\ n \notin ToSet(moved[p])
    BY <1>1, StaleFirst DEF Safe
  <2>2. ToSet(installed[p]) \subseteq Managed(p) /\ ~failed[p]
    BY <1>1, <1>2, ListFacts DEF Safe, Sound, Lists
  <2> QED BY <2>1, <2>2
<1>4. /\ old[p] = Managed(b) /\ Managed(b) \subseteq Names
      /\ \A m \in ToSet(moved[p]) : backup[p][m] = Written(b)
      /\ \A m \in ToSet(moved[p]) \ Managed(p) : out[m] = Absent
      /\ \A m \in Names \ (ToSet(installed[p]) \cup ToSet(moved[p])) : As(m, b)
      /\ BaseSomewhere(p) /\ IsFrom(Written(b), b)
  BY <1>1, <1>2, <1>3, BaseFacts
<1>5. ToSet(moved[p]) \subseteq Names
  BY <1>2, <1>4, ListFacts DEF Safe
<1> HIDE DEF n, b
<1>6. out'[n] = Absent /\ \A m \in Names \ {n} : out'[m] = out[m]
  <2>1. out \in Dirs /\ n \in Names /\ Put(out', out, n, Absent)
    BY <1>1, <1>2, <1>3, ReplacingFacts
  <2> QED BY <2>1, OutElsewhere
<1>7. backup'[p][n] = Written(b) /\ \A m \in Names \ {n} : backup'[p][m] = backup[p][m]
  <2>1. backup \in [Publishers -> MaybeDirs] /\ backup[p] # Absent
    BY <1>2, ReplacingFacts, TypeFacts
  <2>2. n \in Names /\ PutOf(backup', backup, p, n, out[n])
    BY <1>1, <1>3
  <2>3. out[n] = Written(b)
    BY <1>3, <1>4 DEF As
  <2>4. backup'[p][n] = out[n] /\ \A m \in Names \ {n} : backup'[p][m] = backup[p][m]
    BY <2>1, <2>2, PutElsewhere
  <2> QED BY <2>3, <2>4
<1>8. ToSet(moved'[p]) = ToSet(moved[p]) \cup {n}
  <2>1. moved \in [Publishers -> Seq(Names)]
    BY TypeFacts DEF Safe
  <2> QED BY <1>1, <1>3, <2>1, Appended
<1>9. \A m \in ToSet(moved'[p]) : backup'[p][m] = Written(b)
  BY <1>4, <1>5, <1>7, <1>8
<1>10. \A m \in ToSet(moved'[p]) \ Managed(p) : out'[m] = Absent
  BY <1>4, <1>5, <1>6, <1>8
<1>11. \A m \in Names \ (ToSet(installed'[p]) \cup ToSet(moved'[p])) :
          out'[m] = IF m \in Managed(b) THEN Written(b) ELSE Absent
  BY <1>1, <1>4, <1>6, <1>8 DEF As
<1>12. \A m \in Managed(b) : IsFrom(out'[m], b) \/ IsFrom(backup'[p][m], b)
  BY <1>4, <1>6, <1>7 DEF BaseSomewhere, b
<1> QED BY <1>1, <1>2, <1>9, <1>10, <1>11, <1>12, ReplacingExact DEF b

LEMMA RetractExact ==
  ASSUME Safe, Safe', NEW p \in Publishers, Exact(p), Retract(p) \/ RetractFailed(p)
  PROVE  Exact(p)' /\ Whole'
<1> DEFINE n == Last(installed[p])
           b == Base(p)
<1>1. /\ pc[p] = "rollback" /\ pc' = pc /\ installed[p] # <<>>
      /\ UNCHANGED <<marker, backup, old, moved, preserve, history>>
      /\ installed' = [installed EXCEPT ![p] = Front(installed[p])]
  BY DEF Retract, RetractFailed, rest
<1>2. pc[p] \in Replacing /\ pc'[p] \in Replacing /\ pc'[p] \notin {"link", "install"}
  BY <1>1 DEF Replacing
<1>3. /\ n \in Names /\ ToSet(installed[p]) = ToSet(installed'[p]) \cup {n}
      /\ n \in old[p] => n \in ToSet(moved[p])
  BY <1>1, <1>2, InstalledLast
<1>4. /\ old[p] = Managed(b) /\ Managed(b) \subseteq Names
      /\ \A m \in ToSet(moved[p]) : backup[p][m] = Written(b)
      /\ ~failed[p] => \A m \in Names \ (ToSet(installed[p]) \cup ToSet(moved[p])) : As(m, b)
      /\ BaseSomewhere(p) /\ IsFrom(Written(b), b)
  BY <1>1, <1>2, BaseFacts
<1>5. \/ failed' = failed /\ Put(out', out, n, IF n \in old[p] THEN out[n] ELSE Absent)
      \/ failed'[p] /\ out' = out
  BY TypeFacts DEF Retract, RetractFailed, Put, Safe
<1> HIDE DEF n, b
<1>6. CASE failed' = failed /\ Put(out', out, n, IF n \in old[p] THEN out[n] ELSE Absent)
  <2>1. out'[n] = (IF n \in old[p] THEN out[n] ELSE Absent) /\ \A m \in Names \ {n} : out'[m] = out[m]
    <3>1. out \in Dirs /\ n \in Names
      BY <1>2, <1>3, ReplacingFacts
    <3> QED BY <1>6, <3>1, OutElsewhere
  <2>2. ~failed'[p] => \A m \in Names \ (ToSet(installed'[p]) \cup ToSet(moved'[p])) :
          out'[m] = IF m \in Managed(b) THEN Written(b) ELSE Absent
    BY <1>1, <1>3, <1>4, <1>6, <2>1 DEF As
  <2>3. \A m \in Managed(b) : IsFrom(out'[m], b) \/ IsFrom(backup'[p][m], b)
    BY <1>1, <1>4, <2>1 DEF BaseSomewhere, b
  <2>4. \A m \in ToSet(moved'[p]) : backup'[p][m] = Written(b)
    BY <1>1, <1>4
  <2> QED BY <1>1, <1>2, <2>2, <2>3, <2>4, ReplacingExact DEF b
<1>7. CASE failed'[p] /\ out' = out
  <2>1. \A m \in Managed(b) : IsFrom(out'[m], b) \/ IsFrom(backup'[p][m], b)
    BY <1>1, <1>4, <1>7 DEF BaseSomewhere, b
  <2>2. \A m \in ToSet(moved'[p]) : backup'[p][m] = Written(b)
    BY <1>1, <1>4
  <2> QED BY <1>1, <1>2, <1>7, <2>1, <2>2, ReplacingExact DEF b
<1> QED BY <1>5, <1>6, <1>7

LEMMA RestoreExact ==
  ASSUME Safe, Safe', NEW p \in Publishers, Exact(p), Restore(p) \/ RestoreFailed(p)
  PROVE  Exact(p)' /\ Whole'
<1> DEFINE n == Last(moved[p])
           b == Base(p)
<1>1. /\ pc[p] = "rollback" /\ pc' = pc /\ moved[p] # <<>>
      /\ UNCHANGED <<marker, stage, old, installed, preserve, history>>
      /\ moved' = [moved EXCEPT ![p] = Front(moved[p])]
  BY DEF Restore, RestoreFailed, rest
<1>2. pc[p] \in Replacing /\ pc'[p] \in Replacing /\ pc'[p] \notin {"link", "install"}
  BY <1>1 DEF Replacing
<1>3. /\ n \in old[p] /\ n \in Names /\ n \in ToSet(moved[p])
      /\ n \notin ToSet(moved'[p]) /\ ToSet(moved[p]) = ToSet(moved'[p]) \cup {n}
  BY <1>1, <1>2, MovedLast
<1>4. /\ old[p] = Managed(b) /\ Managed(b) \subseteq Names
      /\ \A m \in ToSet(moved[p]) : backup[p][m] = Written(b)
      /\ ~failed[p] => \A m \in Names \ (ToSet(installed[p]) \cup ToSet(moved[p])) : As(m, b)
      /\ BaseSomewhere(p) /\ IsFrom(Written(b), b)
  BY <1>1, <1>2, BaseFacts
<1>5. ToSet(moved[p]) \subseteq Names
  BY <1>2, <1>4, ListFacts DEF Safe
<1>6. \/ failed'[p] /\ UNCHANGED <<out, backup>>
      \/ /\ failed' = failed
         /\ Put(out', out, n, backup[p][n]) /\ PutOf(backup', backup, p, n, Absent)
  BY TypeFacts DEF Restore, RestoreFailed, Put, PutOf, Safe
<1> HIDE DEF n, b
<1>7. CASE failed'[p] /\ UNCHANGED <<out, backup>>
  <2>1. \A m \in Managed(b) : IsFrom(out'[m], b) \/ IsFrom(backup'[p][m], b)
    BY <1>4, <1>7 DEF BaseSomewhere, b
  <2>2. \A m \in ToSet(moved'[p]) : backup'[p][m] = Written(b)
    BY <1>3, <1>4, <1>7
  <2> QED BY <1>1, <1>2, <1>7, <2>1, <2>2, ReplacingExact DEF b
<1>8. CASE /\ failed' = failed
           /\ Put(out', out, n, backup[p][n]) /\ PutOf(backup', backup, p, n, Absent)
  <2>1. out'[n] = Written(b) /\ \A m \in Names \ {n} : out'[m] = out[m]
    <3>1. out \in Dirs /\ n \in Names /\ Put(out', out, n, backup[p][n])
      BY <1>2, <1>3, <1>8, ReplacingFacts
    <3>2. out'[n] = backup[p][n] /\ \A m \in Names \ {n} : out'[m] = out[m]
      BY <3>1, OutElsewhere
    <3> QED BY <1>3, <1>4, <3>2
  <2>2. \A m \in Names \ {n} : backup'[p][m] = backup[p][m]
    <3>1. backup \in [Publishers -> MaybeDirs] /\ backup[p] # Absent
      BY <1>2, ReplacingFacts, TypeFacts
    <3>2. n \in Names /\ PutOf(backup', backup, p, n, Absent)
      BY <1>3, <1>8
    <3> QED BY <3>1, <3>2, PutElsewhere
  <2>3. ~failed'[p] => \A m \in Names \ (ToSet(installed'[p]) \cup ToSet(moved'[p])) :
          out'[m] = IF m \in Managed(b) THEN Written(b) ELSE Absent
    BY <1>1, <1>3, <1>4, <1>8, <2>1 DEF As
  <2>4. \A m \in Managed(b) : IsFrom(out'[m], b) \/ IsFrom(backup'[p][m], b)
    BY <1>4, <2>1, <2>2 DEF BaseSomewhere, b
  <2>5. \A m \in ToSet(moved'[p]) : backup'[p][m] = Written(b)
    BY <1>3, <1>4, <1>5, <2>2
  <2> QED BY <1>1, <1>2, <2>3, <2>4, <2>5, ReplacingExact DEF b
<1> QED BY <1>6, <1>7, <1>8

\* The directory is the one that was listed: the marker may go.
LEMMA UndoneExact ==
  ASSUME Safe, Safe', NEW p \in Publishers, Exact(p), WriteMarkerFailed(p) \/ Settle(p)
  PROVE  Exact(p)' /\ Whole'
<1> DEFINE b == Base(p)
<1>1. /\ pc[p] \in {"write", "rollback"} /\ pc'[p] \in {"failed", "restored", "incomplete"}
      /\ UNCHANGED <<out, stage, preserve, history>>
      /\ ToSet(moved[p]) = {} /\ ToSet(installed[p]) = {} /\ ~failed[p]
  <2>1. pc \in [Publishers -> PublisherPhases]
    BY TypeFacts DEF Safe
  <2>2. pc[p] = "write" => moved[p] = <<>> /\ installed[p] = <<>> /\ ~failed[p]
    BY DEF Safe, Sound, Lists, Replacing
  <2> QED BY <2>1, <2>2, NothingListed DEF WriteMarkerFailed, Settle, RolledBack, Go, rest
<1>2. pc[p] \in {"write"} \cup Replacing
  BY <1>1 DEF Replacing
<1>3. /\ Managed(b) \subseteq Names /\ IsFrom(Written(b), b) /\ b = history.last
      /\ p \notin history.committed /\ ~preserve[p] /\ FreshSomewhere(p)
      /\ \A n \in Names : As(n, b)
  BY <1>1, <1>2, BaseFacts
<1>4. b' = b
  BY <1>1 DEF Base
<1> HIDE DEF b
<1>5. \A n \in Names : As(n, history.last)'
  BY <1>1, <1>3 DEF As
<1>6. BaseSomewhere(p)'
  BY <1>1, <1>3, <1>4 DEF BaseSomewhere, As, b
<1>7. FreshSomewhere(p)'
  BY <1>1, <1>3 DEF FreshSomewhere
<1>8. pc'[p] \notin {"write"} \cup Replacing \cup {"unmark", "clean"} /\ pc'[p] \in Ended
  BY <1>1 DEF Replacing, Ended
<1> QED BY <1>1, <1>3, <1>5, <1>6, <1>7, <1>8 DEF Exact, Replaced, Committed, Unfinished, Whole

LEMMA CommitExact ==
  ASSUME Safe, Safe', NEW p \in Publishers, Exact(p), Commit(p)
  PROVE  Exact(p)' /\ Whole'
<1> DEFINE b == Base(p)
<1>1. /\ pc[p] = "link" /\ pc'[p] = "unmark" /\ Fresh(p) = {} /\ Stale(p) = {}
      /\ UNCHANGED <<out, marker, stage, backup, old, moved, installed, retained, failed, preserve>>
      /\ history' = [history EXCEPT !.last = p, !.committed = history.committed \cup {p}]
  BY TypeFacts DEF Commit, Go, Safe, lists
<1>2. pc[p] \in Replacing
  BY <1>1 DEF Replacing
<1>3. /\ old[p] = Managed(b) /\ Managed(b) \subseteq Names /\ b \in Versions
      /\ \A m \in ToSet(moved[p]) : backup[p][m] = Written(b)
      /\ \A m \in ToSet(moved[p]) \ Managed(p) : out[m] = Absent
      /\ ~failed[p] => \A m \in Names \ (ToSet(installed[p]) \cup ToSet(moved[p])) : As(m, b)
      /\ IsFrom(Written(b), b) /\ ~preserve[p] /\ marker = p
  BY <1>1, <1>2, BaseFacts
<1>4. /\ history'.last = p /\ history'.marked = history.marked
      /\ p \in history'.committed
  BY <1>1 DEF Safe, PublicationTypeOK, Histories
<1>5. b' = b
  BY <1>4 DEF Base
<1>6. /\ Managed(p) \subseteq ToSet(installed[p]) /\ ToSet(installed[p]) \subseteq Managed(p)
      /\ old[p] \ Managed(p) \subseteq ToSet(moved[p])
      /\ old[p] \cap Managed(p) \subseteq ToSet(moved[p]) /\ ToSet(moved[p]) \subseteq old[p]
      /\ ~failed[p] /\ \A n \in Managed(p) : out[n] = Written(p)
  <2>1. Sound(p) /\ ~failed[p]
    BY <1>1 DEF Safe, Sound, Lists
  <2>2. Managed(p) \subseteq ToSet(installed[p]) /\ old[p] \ Managed(p) \subseteq ToSet(moved[p])
    BY <1>1 DEF Fresh, Stale
  <2> QED BY <1>2, <2>1, <2>2, ListFacts
<1> HIDE DEF b
<1>7. \A n \in Names : out[n] = IF n \in Managed(p) THEN Written(p) ELSE Absent
  <2> SUFFICES ASSUME NEW n \in Names, n \notin Managed(p)
               PROVE  out[n] = Absent
    BY <1>6
  <2>1. CASE n \in old[p]
    BY <1>3, <1>6, <2>1
  <2>2. CASE n \notin old[p]
    BY <1>3, <1>6, <2>2 DEF As
  <2> QED BY <2>1, <2>2
<1>8. Whole'
  BY <1>1, <1>4, <1>7 DEF Whole, As
<1>9. BackedUp(p)'
  <2>1. \A n \in Managed(b) : backup[p][n] = Written(b)
    BY <1>3, <1>6
  <2> QED BY <1>1, <1>3, <1>5, <2>1 DEF BackedUp, b
<1>10. Exact(p)'
  BY <1>1, <1>3, <1>4, <1>9 DEF Exact, Replaced, Committed, Unfinished, Replacing, Marking
<1> QED BY <1>8, <1>10

LEMMA AfterExact ==
  ASSUME Safe, Whole, Safe', NEW p \in Publishers, Exact(p), Others(p), Unmark(p) \/ Clean(p)
  PROVE  Exact(p)' /\ Whole'
<1>1. pc[p] \in {"unmark", "clean"} /\ UNCHANGED <<out, history>>
  BY DEF Unmark, Clean, Go, rest
<1>2. p \in history.committed /\ BackedUp(p) /\ ~preserve[p]
  BY <1>1 DEF Exact, Committed, Ended
<1>3. CASE Unmark(p)
  <2>1. pc[p] = "unmark" /\ pc'[p] = "clean" /\ UNCHANGED <<out, backup, preserve, history>>
    BY <1>3, TypeFacts DEF Unmark, Go, rest, Safe
  <2>2. Exact(p)'
    BY <1>2, <2>1 DEF Exact, Replaced, Committed, Unfinished, BackedUp, Base, Replacing
  <2>3. Whole'
    <3>1. out # Absent => \A n \in Names : As(n, history.last)
      BY <2>1 DEF Whole
    <3> QED BY <2>1, <3>1 DEF Whole, As
  <2> QED BY <2>2, <2>3
<1>4. CASE Clean(p)
  <2>1. /\ pc'[p] = "published" /\ UNCHANGED <<out, marker, history>>
        /\ preserve'[p] => backup' = backup
    BY <1>4, TypeFacts DEF Clean, Go, Safe
  <2>2. Exact(p)'
    BY <1>2, <2>1 DEF Exact, Replaced, Committed, Unfinished, BackedUp, Base, Replacing, Ended
  <2>3. Whole'
    BY <2>1, WholeLeft
  <2> QED BY <2>2, <2>3
<1> QED BY <1>3, <1>4

\* The process stops where it is: everything stays, the marker too.
LEMMA StoppedExact ==
  ASSUME Safe, Whole, Safe', NEW p \in Publishers, Exact(p), Others(p), SettleIncomplete(p) \/ Crash(p)
  PROVE  Exact(p)' /\ Whole'
<1>1. /\ UNCHANGED <<out, marker, stage, backup, preserve, history>>
      /\ pc'[p] \in {"incomplete", "crashed"} /\ pc[p] \notin Ended
  <2>1. RolledBack(p) => pc[p] \notin Ended
    BY DEF RolledBack, Ended
  <2> QED BY <2>1, TypeFacts DEF SettleIncomplete, Crash, Go, rest, Safe
<1>2. pc'[p] \in Ended /\ pc'[p] \notin {"write"} \cup Replacing \cup {"unmark", "clean"}
  BY <1>1 DEF Ended, Replacing
<1>3. Exact(p)'
  BY <1>1, <1>2 DEF Exact, Replaced, Committed, Unfinished, BackedUp, BaseSomewhere, FreshSomewhere, Base
<1>4. Whole'
  BY <1>1, <1>2, WholeLeft
<1> QED BY <1>3, <1>4

-----------------------------------------------------------------------------
(* Every publication, and the theorem. *)

LEMMA InitExact ==
  ASSUME PublicationInit
  PROVE  Whole /\ \A p \in Publishers : Exact(p)
<1>1. Whole
  <2>1. Earlier \in Versions
    BY DEF Versions
  <2> QED BY <2>1, EmittedFacts DEF Whole, As, PublicationInit
<1>2. ASSUME NEW p \in Publishers PROVE Exact(p)
  <2>1. pc[p] = "idle" /\ p \notin history.committed /\ ~preserve[p] /\ marker # p
    BY PublicationAssumption DEF PublicationInit
  <2> QED BY <2>1 DEF Exact, Replaced, Committed, Unfinished, Replacing
<1> QED BY <1>1, <1>2

LEMMA PublishExact ==
  ASSUME Safe, ~history.raced => Whole /\ \A q \in Publishers : Exact(q),
         NEW p \in Publishers, Publish(p), ~history'.raced
  PROVE  Whole' /\ \A q \in Publishers : Exact(q)'
<1>1. Safe' /\ Others(p)
  BY PublishSafe
<1>2. ~history.raced
  <2>1. history \in Histories
    BY DEF Safe, PublicationTypeOK
  <2>2. CASE Mark(p)
    <3>1. history' = [history EXCEPT !.marked[p] = history.last,
                                     !.raced = (history.raced \/ old[p] # Entries(out))]
      BY <2>2 DEF Mark
    <3>2. history'.raced = (history.raced \/ old[p] # Entries(out))
      BY <2>1, <3>1 DEF Histories
    <3> QED BY <3>2, Zenon
  <2>3. CASE ~Mark(p)
    <3>1. history' = history \/ FirstPublished(p) \/ Commit(p)
      BY <2>3 DEF Publish, Begin, BeginRefused, Stage, StageRefused, Probe, FirstFailed, Scan,
         MarkRefused, WriteMarker, WriteMarkerFailed, LinkOld, LinkOldFailed, Install,
         InstallFailed, MoveStale, MoveStaleFailed, Unmark, Clean, Retract, RetractFailed,
         Restore, RestoreFailed, Settle, SettleIncomplete, Crash, rest
    <3>2. FirstPublished(p) \/ Commit(p) => history'.raced = history.raced
      BY <2>1 DEF FirstPublished, Commit, Histories
    <3> QED BY <3>1, <3>2
  <2> QED BY <2>2, <2>3
<1>3. Whole /\ \A q \in Publishers : Exact(q)
  BY <1>2
<1>4. Exact(p)' /\ Whole'
  BY <1>1, <1>3, BeforeExact, FirstPublishedExact, MarkExact, PhaseExact, LinkOldExact,
     LinkOldFailedExact, InstallExact, MoveStaleExact, RetractExact, RestoreExact, UndoneExact,
     CommitExact, AfterExact, StoppedExact DEF Publish
<1>5. ASSUME NEW q \in Publishers, q # p PROVE Exact(q)'
  <2>1. Here(q) /\ Exact(q)
    BY <1>3 DEF Safe, Sound
  <2> QED BY <1>1, <1>5, <2>1, OthersExact
<1> QED BY <1>4, <1>5

LEMMA StillExact ==
  ASSUME UNCHANGED <<out, marker, publisherVars, history>>, Whole, \A q \in Publishers : Exact(q)
  PROVE  Whole' /\ \A q \in Publishers : Exact(q)'
<1>1. UNCHANGED <<out, marker, stage, backup, pc, old, moved, installed, retained, failed, preserve, history>>
  BY DEF publisherVars, lists
<1> QED BY <1>1 DEF Whole, As, Exact, Replaced, Committed, Unfinished, BackedUp, BaseSomewhere,
     FreshSomewhere, Base

LEMMA Step ==
  ASSUME PublicationInv, [PublicationNext]_publicationVars
  PROVE  PublicationInv'
<1>1. Safe' /\ ReadsAreWhole'
  BY StepReads DEF PublicationInv
<1>2. ASSUME ~history'.raced
      PROVE  Whole' /\ \A p \in Publishers : Exact(p)'
  <2>1. CASE \E p \in Publishers : Publish(p)
    BY <1>2, <2>1, PublishExact DEF PublicationInv
  <2>2. CASE UNCHANGED <<out, marker, publisherVars, history>>
    BY <1>2, <2>2, StillExact DEF PublicationInv
  <2>3. ReadStep => UNCHANGED <<out, marker, publisherVars, history>>
    BY ReadSafe DEF PublicationInv
  <2>4. Done \/ UNCHANGED publicationVars => UNCHANGED <<out, marker, publisherVars, history>>
    BY DEF Done, publicationVars
  <2> QED BY <2>1, <2>2, <2>3, <2>4 DEF PublicationNext, ReadStep
<1> QED BY <1>1, <1>2 DEF PublicationInv

\* However a publication fails, wherever it dies and whatever publishes
\* beside it: the directory is marked or exactly what was published last, and
\* what is marked can be put right from the directory, the backup and the
\* staging directory, for publications whose list of it was right.
THEOREM BaselineStays == PublicationSpec => []BaselineRecoverable
<1>1. PublicationInit => PublicationInv
  BY InitSafe, InitExact DEF PublicationInv, PublicationInit, NoRead, ReadsAreWhole
<1>2. PublicationInv /\ [PublicationNext]_publicationVars => PublicationInv'
  BY Step
<1>3. PublicationInv => BaselineRecoverable
  <2> SUFFICES ASSUME PublicationInv, ~history.raced PROVE BaselineRecoverable
    BY DEF BaselineRecoverable, WholeUnlessMarked, NothingLost
  <2>1. Whole /\ \A p \in Publishers : Exact(p)
    BY DEF PublicationInv
  <2>2. history.last \in Versions => Managed(history.last) \subseteq Names
    BY ManagedNames
  <2>3. WholeUnlessMarked
    <3> SUFFICES ASSUME marker = Absent, out # Absent PROVE Holds(history.last)
      BY DEF WholeUnlessMarked
    <3>1. history.last \in Versions
      BY DEF PublicationInv, Safe, Directory
    <3> QED BY <2>1, <3>1, FileFacts DEF Whole, As, Holds
  <2>4. NothingLost
    <3> SUFFICES ASSUME NEW p \in Publishers
                 PROVE  /\ \/ marker = p /\ p \notin history.committed
                           \/ p \in history.committed /\ (preserve[p] \/ pc[p] \in {"unmark", "clean"})
                           => \A n \in Managed(Base(p)) :
                                IsFrom(out[n], Base(p)) \/ IsFrom(backup[p][n], Base(p))
                        /\ marker = p /\ p \notin history.committed
                           => \A n \in Managed(p) : IsFrom(out[n], p) \/ IsFrom(stage[p][n], p)
      BY DEF NothingLost, Base
    <3>1. Committed(p) /\ Unfinished(p)
      BY <2>1 DEF Exact
    <3> QED BY <3>1 DEF Committed, Unfinished, BackedUp, BaseSomewhere, FreshSomewhere
  <2> QED BY <2>3, <2>4 DEF BaselineRecoverable
<1> QED BY <1>1, <1>2, <1>3, PTL DEF PublicationSpec
==============================================================================
