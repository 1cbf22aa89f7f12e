------------------------ MODULE BaselinePublication ------------------------
(***************************************************************************)
(* The publication of a baseline by `ridl baseline` (crates/ridl/src/      *)
(* baseline.rs, with run_baseline and publish_baseline of main.rs): the    *)
(* fresh snapshots are staged beside the directory, a backup directory is  *)
(* reserved, a marker is created exclusively, and the managed files are    *)
(* replaced one by one, the context last, each old file being kept in the  *)
(* backup.  Any file operation can fail, which starts a rollback whose own *)
(* operations can fail as well, and a process can die between any two.     *)
(* Several processes may publish to one directory at a time, and           *)
(* `ridl diff` (load_diff_side of ridlc) may read it meanwhile.            *)
(*                                                                         *)
(* A file is abstracted to the publication that wrote it and whether all   *)
(* of its bytes are there, so a hard link and a copy of it are the same.   *)
(* A catalog history is a managed file that `ridl diff` does not read and  *)
(* is not told apart from a snapshot otherwise; symbolic links and         *)
(* unrelated entries are left out.                                         *)
(***************************************************************************)
EXTENDS Naturals, Sequences, FiniteSetsExt, SequencesExt

CONSTANTS
  Publishers,   \* the processes running `ridl baseline`, one publication each
  Snapshots,    \* the names of local snapshots, numbered in file-name order
  Context,      \* the name of the context file, context.json
  Earlier,      \* the publication the directory holds at first, if it exists
  Emits,        \* the snapshots each publication emits
  Absent        \* no file, no directory, no publisher

ASSUME PublicationAssumption ==
  /\ Snapshots \subseteq Nat /\ IsFiniteSet(Snapshots)
  /\ Context \notin Snapshots
  /\ Earlier \notin Publishers
  /\ Emits \in [Publishers \cup {Earlier} -> SUBSET Snapshots]
  /\ Absent \notin Publishers \cup {Earlier}

Versions == Publishers \cup {Earlier}
Names == Snapshots \cup {Context}

(* The managed files of a publication: its snapshots and their context.    *)
Managed(v) == Emits[v] \cup {Context}

(* A file, and a directory by its names.                                   *)
Files == [of : Versions, whole : BOOLEAN]
Dirs == [Names -> Files \cup {Absent}]

ASSUME AbsentAssumption == Absent \notin Files \cup Dirs

EmptyDir == [n \in Names |-> Absent]

Written(v) == [of |-> v, whole |-> TRUE]
Emitted(v) == [n \in Names |-> IF n \in Managed(v) THEN Written(v) ELSE Absent]

Torn(f) == [f EXCEPT !.whole = FALSE]

Entries(dir) == {n \in Names : dir[n] # Absent}

(* The order in which names are visited: by file name, the context last.   *)
First(names) == IF names = {Context} THEN Context ELSE Min(names \ {Context})

VARIABLES
  out,        \* the published directory, or Absent
  marker,     \* the process whose transaction marker stands, or Absent
  stage,      \* each process's staging directory
  backup,     \* each process's backup directory
  pc,         \* where each process is
  old,        \* the managed entries it found before it took the marker
  moved,      \* moved_old: what its rollback has to restore
  installed,  \* what its rollback has to retract
  retained,   \* retained_new: what its rollback could not retract
  failed,     \* whether its rollback met an error (recovery_errors)
  preserve,   \* whether its backup was to be kept after the commit
  reader,     \* the progress of one `ridl diff` on the directory
  history     \* the publication committed last, the one each process
              \* found when it took the marker, the processes that have
              \* committed, and whether one took the marker when its list
              \* of the directory no longer was what the directory held

lists == <<old, moved, installed, retained, failed>>
rest == <<preserve, reader, history>>
publisherVars == <<stage, backup, pc, lists, preserve>>
publicationVars == <<out, marker, publisherVars, reader, history>>

Ended == {"refused", "failed", "restored", "incomplete", "published", "crashed"}

NoRead == [at |-> "idle", names |-> {}, got |-> EmptyDir]

PublicationInit ==
  /\ out \in {Absent, Emitted(Earlier)}
  /\ marker = Absent
  /\ stage = [p \in Publishers |-> Absent]
  /\ backup = [p \in Publishers |-> Absent]
  /\ pc = [p \in Publishers |-> "idle"]
  /\ old = [p \in Publishers |-> {}]
  /\ moved = [p \in Publishers |-> <<>>]
  /\ installed = [p \in Publishers |-> <<>>]
  /\ retained = [p \in Publishers |-> {}]
  /\ failed = [p \in Publishers |-> FALSE]
  /\ preserve = [p \in Publishers |-> FALSE]
  /\ reader = NoRead
  /\ history = [last |-> IF out = Absent THEN Absent ELSE Earlier,
                marked |-> [p \in Publishers |-> Absent],
                committed |-> {},
                raced |-> FALSE]

Go(p, from, to) == pc[p] = from /\ pc' = [pc EXCEPT ![p] = to]

(* The lists a replacement keeps are gone with the process.                *)
Exit(p) ==
  /\ old' = [old EXCEPT ![p] = {}]
  /\ moved' = [moved EXCEPT ![p] = <<>>]
  /\ installed' = [installed EXCEPT ![p] = <<>>]
  /\ retained' = [retained EXCEPT ![p] = {}]
  /\ failed' = [failed EXCEPT ![p] = FALSE]

-----------------------------------------------------------------------------
(* Before the replacement. *)

(* refuse_interrupted_publication, then reserve_staging.                   *)
Begin(p) ==
  /\ marker = Absent
  /\ Go(p, "idle", "staging")
  /\ stage' = [stage EXCEPT ![p] = EmptyDir]
  /\ UNCHANGED <<out, marker, backup, lists, rest>>

BeginRefused(p) ==
  /\ marker # Absent
  /\ Go(p, "idle", "refused")
  /\ UNCHANGED <<out, marker, stage, backup, lists, rest>>

(* The compile emits the snapshots, the gates compare them with the        *)
(* published ones, and the context and the histories are written.          *)
Stage(p) ==
  /\ Go(p, "staging", "staged")
  /\ stage' = [stage EXCEPT ![p] = Emitted(p)]
  /\ UNCHANGED <<out, marker, backup, lists, rest>>

(* A compile error, an unreadable baseline or a gate that refuses.         *)
StageRefused(p) ==
  /\ Go(p, "staging", "refused")
  /\ stage' = [stage EXCEPT ![p] = Absent]
  /\ UNCHANGED <<out, marker, backup, lists, rest>>

(* publish_baseline looks whether the directory exists.                    *)
Probe(p) ==
  /\ Go(p, "staged", IF out = Absent THEN "rename" ELSE "scan")
  /\ UNCHANGED <<out, marker, stage, backup, lists, rest>>

(* The first publication renames the staging directory as a whole.         *)
FirstPublished(p) ==
  /\ out = Absent
  /\ Go(p, "rename", "published")
  /\ out' = stage[p]
  /\ stage' = [stage EXCEPT ![p] = Absent]
  /\ history' = [history EXCEPT !.last = p]
  /\ UNCHANGED <<marker, backup, lists, preserve, reader>>

(* The rename fails, as it does over a directory that is not empty.        *)
FirstFailed(p) ==
  /\ Go(p, "rename", "failed")
  /\ UNCHANGED <<out, marker, stage, backup, lists, rest>>

(* managed_entries(out), then reserve_backup.                              *)
Scan(p) ==
  /\ Go(p, "scan", "mark")
  /\ old' = [old EXCEPT ![p] = Entries(out)]
  /\ backup' = [backup EXCEPT ![p] = EmptyDir]
  /\ UNCHANGED <<out, marker, stage, moved, installed, retained, failed, rest>>

(* The marker is opened with create_new.                                   *)
Mark(p) ==
  /\ marker = Absent
  /\ Go(p, "mark", "write")
  /\ marker' = p
  /\ history' = [history EXCEPT !.marked[p] = history.last,
                                !.raced = @ \/ old[p] # Entries(out)]
  /\ UNCHANGED <<out, stage, backup, lists, preserve, reader>>

(* It exists already or cannot be created; an error of the listing or of   *)
(* the reservation ends the process in the same way.                       *)
MarkRefused(p) ==
  /\ Go(p, "mark", "failed")
  /\ backup' = [backup EXCEPT ![p] = Absent]
  /\ Exit(p)
  /\ UNCHANGED <<out, marker, stage, rest>>

WriteMarker(p) ==
  /\ Go(p, "write", "link")
  /\ UNCHANGED <<out, marker, stage, backup, lists, rest>>

(* The write fails; the marker is removed again, if that succeeds.         *)
WriteMarkerFailed(p) ==
  /\ Go(p, "write", "failed")
  /\ marker' \in {Absent, p}
  /\ backup' = [backup EXCEPT ![p] = Absent]
  /\ Exit(p)
  /\ UNCHANGED <<out, stage, rest>>

-----------------------------------------------------------------------------
(* The replacement of the managed files. *)

(* What the loops of the commit have still to do. *)
Fresh(p) == Managed(p) \ ToSet(installed[p])
Stale(p) == (old[p] \ Managed(p)) \ ToSet(moved[p])

(* link_or_copy of an old file into the backup: a hard link, or the copy   *)
(* of a regular file when that fails.                                      *)
LinkOld(p) ==
  /\ pc[p] = "link" /\ Fresh(p) # {}
  /\ LET n == First(Fresh(p)) IN
     IF n \in old[p]
     THEN /\ out[n] # Absent
          /\ backup' = [backup EXCEPT ![p][n] = out[n]]
          /\ moved' = [moved EXCEPT ![p] = Append(@, n)]
     ELSE UNCHANGED <<backup, moved>>
  /\ Go(p, "link", "install")
  /\ UNCHANGED <<out, marker, stage, old, installed, retained, failed, rest>>

(* Neither link nor copy: the copy may have left a part of the file.       *)
LinkOldFailed(p) ==
  /\ pc[p] = "link" /\ Fresh(p) # {}
  /\ LET n == First(Fresh(p)) IN
     /\ n \in old[p]
     /\ \E f \in IF out[n] = Absent THEN {Absent} ELSE {Absent, Torn(out[n])} :
          backup' = [backup EXCEPT ![p][n] = f]
  /\ Go(p, "link", "rollback")
  /\ UNCHANGED <<out, marker, stage, lists, rest>>

Install(p) ==
  /\ Go(p, "install", "link")
  /\ LET n == First(Fresh(p)) IN
     /\ out' = [out EXCEPT ![n] = stage[p][n]]
     /\ stage' = [stage EXCEPT ![p][n] = Absent]
     /\ installed' = [installed EXCEPT ![p] = Append(@, n)]
  /\ UNCHANGED <<marker, backup, old, moved, retained, failed, rest>>

InstallFailed(p) ==
  /\ Go(p, "install", "rollback")
  /\ UNCHANGED <<out, marker, stage, backup, lists, rest>>

(* An old file without a replacement is moved to the backup.               *)
MoveStale(p) ==
  /\ Fresh(p) = {} /\ Stale(p) # {}
  /\ Go(p, "link", "link")
  /\ LET n == First(Stale(p)) IN
     /\ out[n] # Absent
     /\ backup' = [backup EXCEPT ![p][n] = out[n]]
     /\ out' = [out EXCEPT ![n] = Absent]
     /\ moved' = [moved EXCEPT ![p] = Append(@, n)]
  /\ UNCHANGED <<marker, stage, old, installed, retained, failed, rest>>

MoveStaleFailed(p) ==
  /\ Fresh(p) = {} /\ Stale(p) # {}
  /\ Go(p, "link", "rollback")
  /\ UNCHANGED <<out, marker, stage, backup, lists, rest>>

(* Everything is in place: the publication is committed.                   *)
Commit(p) ==
  /\ Fresh(p) = {} /\ Stale(p) = {}
  /\ Go(p, "link", "unmark")
  /\ history' = [history EXCEPT !.last = p, !.committed = @ \cup {p}]
  /\ UNCHANGED <<out, marker, stage, backup, lists, preserve, reader>>

(* The marker is removed; a failure is only a warning.                     *)
Unmark(p) ==
  /\ Go(p, "unmark", "clean")
  /\ marker' \in {Absent, marker}
  /\ UNCHANGED <<out, stage, backup, lists, rest>>

(* The staging directory is removed, and the backup unless it is kept      *)
(* (finish_backup): it is when a published unit broke, or on a repair or a *)
(* reset.  Removing it may fail, and what is left is not read.             *)
Clean(p) ==
  /\ Go(p, "clean", "published")
  /\ stage' = [stage EXCEPT ![p] = Absent]
  /\ \E keep \in BOOLEAN :
       /\ preserve' = [preserve EXCEPT ![p] = keep]
       /\ backup' \in {backup} \cup IF keep THEN {} ELSE {[backup EXCEPT ![p] = Absent]}
  /\ Exit(p)
  /\ UNCHANGED <<out, marker, reader, history>>

-----------------------------------------------------------------------------
(* The rollback, in reverse. *)

\* Mutant: every installed file is moved back, so its name is missing meanwhile.
RetractByRename(p) ==
  /\ pc[p] = "rollback" /\ installed[p] # <<>>
  /\ LET n == Last(installed[p]) IN
     /\ stage' = [stage EXCEPT ![p][n] = out[n]]
     /\ out' = [out EXCEPT ![n] = Absent]
  /\ installed' = [installed EXCEPT ![p] = Front(@)]
  /\ UNCHANGED <<marker, backup, pc, old, moved, retained, failed, rest>>

(* An installed file goes back to the staging directory: linked or copied  *)
(* where an old file is to take its place, moved where there was none.     *)
Retract(p) ==
  /\ pc[p] = "rollback" /\ installed[p] # <<>>
  /\ LET n == Last(installed[p]) IN
     /\ stage' = [stage EXCEPT ![p][n] = out[n]]
     /\ out' = [out EXCEPT ![n] = IF n \in old[p] THEN @ ELSE Absent]
  /\ installed' = [installed EXCEPT ![p] = Front(@)]
  /\ UNCHANGED <<marker, backup, pc, old, moved, retained, failed, rest>>

RetractFailed(p) ==
  /\ pc[p] = "rollback" /\ installed[p] # <<>>
  /\ LET n == Last(installed[p]) IN
     /\ \E f \in {Absent} \cup (IF n \in old[p] THEN {Torn(out[n])} ELSE {}) :
          stage' = [stage EXCEPT ![p][n] = f]
     /\ retained' = [retained EXCEPT ![p] = @ \cup {n}]
  /\ failed' = [failed EXCEPT ![p] = TRUE]
  /\ installed' = [installed EXCEPT ![p] = Front(@)]
  /\ UNCHANGED <<out, marker, backup, pc, old, moved, rest>>

\* Mutant: an old file is restored over a new one that was not retracted.
RestoreAlways(p) ==
  /\ pc[p] = "rollback" /\ installed[p] = <<>> /\ moved[p] # <<>>
  /\ LET n == Last(moved[p]) IN
     /\ out' = [out EXCEPT ![n] = backup[p][n]]
     /\ backup' = [backup EXCEPT ![p][n] = Absent]
  /\ moved' = [moved EXCEPT ![p] = Front(@)]
  /\ UNCHANGED <<marker, stage, pc, old, installed, retained, failed, rest>>

(* An old file is renamed from the backup over its name, unless the new    *)
(* one could not be retracted.  A rename between two links of one inode    *)
(* does nothing, so the name in the backup is removed afterwards.          *)
Restore(p) ==
  /\ pc[p] = "rollback" /\ installed[p] = <<>> /\ moved[p] # <<>>
  /\ LET n == Last(moved[p]) IN
     IF n \in retained[p]
     THEN UNCHANGED <<out, backup>> /\ failed' = [failed EXCEPT ![p] = TRUE]
     ELSE /\ out' = [out EXCEPT ![n] = backup[p][n]]
          /\ backup' = [backup EXCEPT ![p][n] = Absent]
          /\ UNCHANGED failed
  /\ moved' = [moved EXCEPT ![p] = Front(@)]
  /\ UNCHANGED <<marker, stage, pc, old, installed, retained, rest>>

(* The rename fails, or it was between two links and the removal fails.    *)
RestoreFailed(p) ==
  /\ pc[p] = "rollback" /\ installed[p] = <<>> /\ moved[p] # <<>>
  /\ Last(moved[p]) \notin retained[p]
  /\ failed' = [failed EXCEPT ![p] = TRUE]
  /\ moved' = [moved EXCEPT ![p] = Front(@)]
  /\ UNCHANGED <<out, marker, stage, backup, pc, old, installed, retained, rest>>

(* The marker goes only after a rollback without an error, and the empty   *)
(* backup after the marker; a backup that holds a torn copy stays.         *)
RolledBack(p) == pc[p] = "rollback" /\ installed[p] = <<>> /\ moved[p] = <<>>

Settle(p) ==
  /\ RolledBack(p) /\ ~failed[p]
  /\ marker' \in {Absent, p}
  /\ Go(p, "rollback", IF marker' = Absent THEN "restored" ELSE "incomplete")
  /\ backup' = [backup EXCEPT ![p] = IF marker' = Absent /\ Entries(@) = {} THEN Absent ELSE @]
  /\ Exit(p)
  /\ UNCHANGED <<out, stage, rest>>

\* Mutant: the marker goes whatever the rollback met.
SettleUnmarked(p) ==
  /\ RolledBack(p) /\ failed[p]
  /\ Go(p, "rollback", "incomplete")
  /\ marker' = Absent
  /\ Exit(p)
  /\ UNCHANGED <<out, stage, backup, rest>>

SettleIncomplete(p) ==
  /\ RolledBack(p) /\ failed[p]
  /\ Go(p, "rollback", "incomplete")
  /\ Exit(p)
  /\ UNCHANGED <<out, marker, stage, backup, rest>>

(* The process dies. *)
Crash(p) ==
  /\ pc[p] \notin Ended \cup {"idle"}
  /\ pc' = [pc EXCEPT ![p] = "crashed"]
  /\ Exit(p)
  /\ UNCHANGED <<out, marker, stage, backup, rest>>

-----------------------------------------------------------------------------
(* load_diff_side on the directory: the marker, the list of snapshots,     *)
(* each snapshot, and last the context that fingerprints them.             *)

DiffBegin ==
  /\ reader.at = "idle"
  /\ out # Absent /\ marker = Absent
  /\ reader' = [reader EXCEPT !.at = "list"]
  /\ UNCHANGED <<out, marker, publisherVars, history>>

DiffList ==
  /\ reader.at = "list"
  /\ reader' = [reader EXCEPT !.at = "read", !.names = Entries(out) \cap Snapshots]
  /\ UNCHANGED <<out, marker, publisherVars, history>>

DiffRead ==
  /\ reader.at = "read" /\ reader.names # {}
  /\ LET n == First(reader.names) IN
     reader' = IF out[n] = Absent
               THEN [reader EXCEPT !.at = "refused"]
               ELSE [reader EXCEPT !.names = @ \ {n}, !.got[n] = out[n]]
  /\ UNCHANGED <<out, marker, publisherVars, history>>

(* validate: the fingerprints are those of the complete local inventory.   *)
Matches(got, context) ==
  /\ Entries(got) = Emits[context.of]
  /\ \A n \in Entries(got) : got[n].of = context.of /\ got[n].whole

(* Without a context the directory is taken for a legacy baseline.         *)
DiffContext ==
  /\ reader.at = "read" /\ reader.names = {}
  /\ reader' = [reader EXCEPT !.at =
       IF out[Context] = Absent \/ Matches(reader.got, out[Context])
       THEN "accepted" ELSE "refused"]
  /\ UNCHANGED <<out, marker, publisherVars, history>>

Done ==
  /\ \A p \in Publishers : pc[p] \in Ended
  /\ reader.at \notin {"list", "read"}
  /\ UNCHANGED publicationVars

Publish(p) ==
  \/ Begin(p) \/ BeginRefused(p) \/ Stage(p) \/ StageRefused(p) \/ Probe(p)
  \/ FirstPublished(p) \/ FirstFailed(p) \/ Scan(p) \/ Mark(p) \/ MarkRefused(p)
  \/ WriteMarker(p) \/ WriteMarkerFailed(p)
  \/ LinkOld(p) \/ LinkOldFailed(p) \/ Install(p) \/ InstallFailed(p)
  \/ MoveStale(p) \/ MoveStaleFailed(p) \/ Commit(p) \/ Unmark(p) \/ Clean(p)
  \/ Retract(p) \/ RetractFailed(p) \/ Restore(p) \/ RestoreFailed(p)
  \/ Settle(p) \/ SettleIncomplete(p) \/ Crash(p)

PublicationNext ==
  \/ \E p \in Publishers : Publish(p)
  \/ DiffBegin \/ DiffList \/ DiffRead \/ DiffContext
  \/ Done

PublicationSpec == PublicationInit /\ [][PublicationNext]_publicationVars

-----------------------------------------------------------------------------
IsFrom(f, v) == f # Absent /\ f.of = v /\ f.whole

(* The directory holds one publication, complete and nothing else.         *)
Holds(v) == \A n \in Names : IF n \in Managed(v) THEN IsFrom(out[n], v) ELSE out[n] = Absent

(* Whenever no marker stands beside it, the directory holds exactly the    *)
(* publication committed last: one that was interrupted, whose rollback    *)
(* met an error or that is under way is always marked, and a rollback that *)
(* removed its marker restored every name and every byte.  This is for     *)
(* publications whose list of the directory is right when they take the    *)
(* marker: the list is made before it (see PublishedWholesale).            *)
WholeUnlessMarked ==
  marker = Absent /\ out # Absent /\ ~history.raced => Holds(history.last)

(* While the replacement is unfinished, however it fails and whenever the  *)
(* process dies, every file of the publication being replaced is in the    *)
(* directory or in the backup and every fresh file is staged or installed; *)
(* a backup that is to be kept is complete after the commit.               *)
NothingLost ==
  ~history.raced =>
    \A p \in {q \in Publishers : history.marked[q] # Absent} :
      LET base == history.marked[p]
          unfinished == marker = p /\ p \notin history.committed
          kept == p \in history.committed /\ (preserve[p] \/ pc[p] \in {"unmark", "clean"})
      IN /\ unfinished \/ kept
              => \A n \in Managed(base) : IsFrom(out[n], base) \/ IsFrom(backup[p][n], base)
         /\ unfinished
              => \A n \in Managed(p) : IsFrom(out[n], p) \/ IsFrom(stage[p][n], p)

(* A baseline is what was published last or is marked, and what is marked  *)
(* can be put right by hand from the directory, the backup and the staging *)
(* directory.                                                              *)
BaselineRecoverable == WholeUnlessMarked /\ NothingLost

(* What `ridl diff` accepts is one publication's complete set of snapshots *)
(* although it reads them one by one while they are being replaced or      *)
(* rolled back: the context is never missing, so a mixture is never taken  *)
(* for a legacy baseline.                                                  *)
ReadsAreWhole ==
  reader.at = "accepted" =>
    \E v \in Versions :
      \A n \in Snapshots : IF n \in Emits[v] THEN IsFrom(reader.got[n], v)
                                             ELSE reader.got[n] = Absent

(* A publication that has put everything in place leaves the directory     *)
(* with exactly what it emitted, whatever else published meanwhile.        *)
PublishedWholesale ==
  \A p \in Publishers : pc[p] = "unmark" => Holds(p)
=============================================================================
