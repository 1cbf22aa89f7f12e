--------------------------- MODULE InterfaceLock ---------------------------
(***************************************************************************)
(* The interface lock: `interfaces.lock` gives each interface of a unit    *)
(* the number that is its identity on the wire.  The table and its merge   *)
(* are crates/ridl-core/src/interface_lock.rs, the commands that edit it   *)
(* crates/ridl/src/lock.rs, and what a build refuses crates/ridl-sem/src/  *)
(* check.rs.  The file is edited on several lines of development and `ridl *)
(* lock merge` is the driver git calls to merge it.                        *)
(*                                                                         *)
(* Git itself is external: a line is what it declares and its lock, a      *)
(* branch remembers where it left the main line, and declarations merge as *)
(* git merges them, each by the three-way rule.  A merge whose result has  *)
(* conflict markers is left to a person and not modelled.                  *)
(***************************************************************************)
EXTENDS Naturals, FiniteSetsExt

CONSTANTS
  Branches,  \* the lines of development beside the main one
  Main,      \* the main line
  Keys,      \* the names of interfaces, numbered in byte order
  MaxNumber, \* the highest number a lock may hold
  MaxEdits   \* bound: edits people make over a run

ASSUME LockAssumption ==
  /\ Main \notin Branches
  /\ Keys \subseteq Nat /\ IsFiniteSet(Keys)
  /\ MaxNumber \in Nat /\ MaxEdits \in Nat

Lines == Branches \cup {Main}

VARIABLES
  line,       \* what each line holds: its declarations and its lock, that
              \* is `next` and the entries: a number, a key, whether it is
              \* retired and, for the properties, the allocation that made it
  base,       \* what a branch and the main line last had in common
  allocated,  \* the branches that have allocated since then
  edits       \* bound: edits made

lockVars == <<line, base, allocated, edits>>

NewLine == [decl |-> {}, next |-> 1, table |-> {}]

LockInit ==
  /\ line = [l \in Lines |-> NewLine]
  /\ base = [b \in Branches |-> NewLine]
  /\ allocated = {}
  /\ edits = 0

-----------------------------------------------------------------------------
(* What the checker finds in a line (number_unit). *)

Live(at) == {e \in at.table : ~e.retired}
LiveKeys(at) == {e.key : e \in Live(at)}

(* RIDL-409: a live entry with no declaration.                             *)
Orphans(at) == LiveKeys(at) \ at.decl

(* A declaration without a live entry has a provisional number only.       *)
Provisional(at) == at.decl \ LiveKeys(at)

-----------------------------------------------------------------------------
(* The edits of a line. *)

Edited(l, at) ==
  /\ edits < MaxEdits
  /\ edits' = edits + 1
  /\ line' = [line EXCEPT ![l] = at]
  /\ UNCHANGED <<base, allocated>>

(* A person edits the source.                                              *)
Declare(l, k) ==
  /\ k \notin line[l].decl
  /\ Edited(l, [line[l] EXCEPT !.decl = @ \cup {k}])

Undeclare(l, k) ==
  /\ k \in line[l].decl
  /\ Edited(l, [line[l] EXCEPT !.decl = @ \ {k}])

(* `ridl lock --rename OLD=NEW`                                            *)
Rename(l, e, new) ==
  /\ e \in Live(line[l])
  /\ new \in Provisional(line[l])
  /\ Edited(l, [line[l] EXCEPT !.table = (@ \ {e}) \cup {[e EXCEPT !.key = new]}])

(* `ridl lock --retire NAME`                                               *)
Retire(l, e) ==
  /\ e \in Live(line[l])
  /\ e.key \notin line[l].decl
  /\ Edited(l, [line[l] EXCEPT !.table = (@ \ {e}) \cup {[e EXCEPT !.retired = TRUE]}])

(* How many of S come before n.                                            *)
Before(S, n) == Cardinality({m \in S : m < n})

(* The entries plain `ridl lock` adds: a number for each provisional       *)
(* declaration, in the order of their names, from `next`.                  *)
Allocation(l, at) ==
  {[number |-> at.next + Before(Provisional(at), k), key |-> k, retired |-> FALSE, made |-> <<l, k>>] :
     k \in Provisional(at)}

(* Plain `ridl lock`, on the main line or on a branch a merge queue is     *)
(* about to land; a build with an orphan is refused.                       *)
Allocate(l) ==
  LET at == line[l]
      fresh == Allocation(l, at)
  IN /\ Orphans(at) = {}
     /\ fresh # {}
     /\ at.next + Cardinality(fresh) - 1 <= MaxNumber
     /\ line' = [line EXCEPT ![l] = [at EXCEPT !.next = @ + Cardinality(fresh),
                                               !.table = @ \cup fresh]]
     /\ allocated' = IF l = Main THEN allocated ELSE allocated \cup {l}
     /\ UNCHANGED <<base, edits>>

-----------------------------------------------------------------------------
(* The three-way merge of two tables (merge). *)

(* What a side holds at a number, as the sides are compared (agree).       *)
Seen(table, n) == {<<e.key, e.retired>> : e \in {f \in table : f.number = n}}

\* Mutant: where both sides allocated a number, theirs keeps it.
TheirsFirst(o, t) == <<t, o>>
(* Where both sides allocated a number, ours keeps it and theirs gets      *)
(* another one.                                                            *)
OursFirst(o, t) == <<o, t>>

\* Mutant: a change of theirs is dropped where ours left the entry alone.
TakesTheirsNew(seenB, seenO, seenT) == seenO = {} /\ seenB = {}
(* Ours is as the base and theirs is not.                                  *)
TakesTheirs(seenB, seenO, seenT) == seenO = seenB /\ seenT # seenO

\* Mutant: one live key on two numbers is let through.
DuplicatedNever(table) == {}
(* A live key on two numbers.                                              *)
Duplicated(table) ==
  {e.key : e \in {d \in table : \E f \in table : f # d /\ f.key = d.key /\ ~d.retired /\ ~f.retired}}

(* The numbers the sides hold differently, and neither as the base does;   *)
(* of those, the ones both allocated.                                      *)
Contended(b, o, t) ==
  {n \in {e.number : e \in b.table \cup o.table \cup t.table} :
     /\ Seen(o.table, n) # Seen(t.table, n)
     /\ Seen(o.table, n) # Seen(b.table, n)
     /\ Seen(t.table, n) # Seen(b.table, n)}
Both(b, o, t) ==
  {n \in Contended(b, o, t) :
     Seen(b.table, n) = {} /\ Seen(o.table, n) # {} /\ Seen(t.table, n) # {}}

(* The number is theirs to decide.                                         *)
IsTheirs(b, o, t, n) == TakesTheirs(Seen(b.table, n), Seen(o.table, n), Seen(t.table, n))

(* The entries at numbers one side decides, ...                            *)
FromTheirs(b, o, t) == {e \in t.table : IsTheirs(b, o, t, e.number)}
FromOurs(b, o, t, both) ==
  {e \in o.table : e.number \notin both /\ ~IsTheirs(b, o, t, e.number)}
(* ... and at the numbers both allocated.                                  *)
KeptAt(sides, both) == {e \in sides[1] : e.number \in both}
Renumbered(sides, both, next) ==
  {[e EXCEPT !.number = next + Before(both, @)] : e \in {f \in sides[2] : f.number \in both}}

Merge(b, o, t) ==
  LET next == Max({b.next, o.next, t.next})
      both == Both(b, o, t)
      sides == OursFirst(o.table, t.table)
      table == FromTheirs(b, o, t) \cup FromOurs(b, o, t, both)
                 \cup KeptAt(sides, both) \cup Renumbered(sides, both, next)
  IN [clean |-> Contended(b, o, t) = both /\ Duplicated(table) = {},
      next |-> next + Cardinality(both),
      table |-> table]

(* What is merged: git's merge of the declarations, and the driver's of    *)
(* the lock.  Nothing, where it is not clean.                              *)
Merged(b, o, t) ==
  {[decl |-> (o.decl \cap t.decl) \cup ((o.decl \cup t.decl) \ b.decl),
    next |-> lock.next, table |-> lock.table] :
     lock \in {m \in {Merge(b, o, t)} : m.clean /\ m.next <= MaxNumber + 1}}

(* A branch that builds is merged into the main line and goes on from it.  *)
Land(b) ==
  /\ line[b] # base[b]
  /\ Orphans(line[b]) = {}
  /\ \E new \in Merged(base[b], line[Main], line[b]) :
        /\ line' = [line EXCEPT ![Main] = new, ![b] = new]
        /\ base' = [base EXCEPT ![b] = new]
  /\ allocated' = allocated \ {b}
  /\ UNCHANGED edits

(* The main line is merged into a branch.  Here theirs is the main line,   *)
(* so a branch that has allocated is not updated: that is left to the main *)
(* line and to the queue that lands it.                                    *)
Update(b) ==
  /\ line[Main] # base[b]
  /\ b \notin allocated
  /\ \E new \in Merged(base[b], line[b], line[Main]) :
        line' = [line EXCEPT ![b] = new]
  /\ base' = [base EXCEPT ![b] = line[Main]]
  /\ UNCHANGED <<allocated, edits>>

LockNext ==
  \/ \E l \in Lines, k \in Keys : Declare(l, k) \/ Undeclare(l, k)
  \/ \E l \in Lines : \E e \in line[l].table :
       \/ Retire(l, e)
       \/ \E new \in Keys : Rename(l, e, new)
  \/ \E l \in Lines : Allocate(l)
  \/ \E b \in Branches : Land(b) \/ Update(b)

LockSpec == LockInit /\ [][LockNext]_lockVars

-----------------------------------------------------------------------------
(* A lock parse accepts: no number twice, no live key twice, every number  *)
(* below `next`.                                                           *)
WellFormed(at) ==
  /\ \A e \in at.table : e.number < at.next
  /\ \A e, f \in at.table : e.number = f.number => e = f
  /\ \A e, f \in Live(at) : e.key = f.key => e = f

(* Every line's lock is a file parse accepts, what the driver merged       *)
(* included.                                                               *)
TablesWellFormed == \A l \in Lines : WellFormed(line[l])

(* Each entry keeps its number and stays the interface it was allocated    *)
(* to, a retired one stays retired, and `next` is not lowered.             *)
Continues(old, new) ==
  /\ \A e \in old.table :
       \E f \in new.table :
         f.number = e.number /\ f.made = e.made /\ (e.retired => f.retired)
  /\ old.next <= new.next

(* On the main line a number is for ever: whatever is merged into it,      *)
(* however late, no entry is lost or given to another interface, through   *)
(* allocations, renames and retirements on every line.                     *)
MainPermanent == [][Continues(line[Main], line'[Main])]_lockVars

(* When a branch that builds lands on a main line that builds, the result  *)
(* builds too, except where one line deleted a declaration the other gave  *)
(* an entry to since they parted: deleting it needs an entry retired only  *)
(* if there is one.  An entry both lines parted with is never orphaned.    *)
OrphansAreRecent ==
  [][\A b \in Branches :
       /\ base'[b] # base[b] /\ line'[Main] # line[Main]
       /\ Orphans(line[Main]) = {} /\ Orphans(line[b]) = {}
       => \A e \in Live(line'[Main]) :
            e.key \in Orphans(line'[Main]) =>
              /\ e.key \in base[b].decl
              /\ (e.key \in line[b].decl) # (e.key \in line[Main].decl)
              /\ \A f \in Live(base[b]) : <<f.number, f.key>> # <<e.number, e.key>>]_lockVars
=============================================================================
