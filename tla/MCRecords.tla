----------------------------- MODULE MCRecords -----------------------------
(***************************************************************************)
(* The three records `ridl` keeps on disk, which share no state: a         *)
(* baseline directory, an interface lock, and the remote units with their  *)
(* lockfile, cache and vendored copies.  A run follows one of them, chosen *)
(* at the start, while the others rest.                                    *)
(***************************************************************************)
EXTENDS MCBaselinePublication, InterfaceLock, RemoteUnits

CONSTANT a1

VARIABLE record

RecordsInit ==
  /\ record \in {"baseline", "lock", "units"}
  /\ PublicationInit /\ LockInit /\ RemoteInit
  /\ record # "baseline" => out = Absent
  /\ record # "units" => imports = {} /\ vendor = NoPins /\ served \in [Urls -> {a1}]

PublicationStep ==
  record = "baseline" /\ PublicationNext /\ UNCHANGED <<lockVars, remoteVars>>

\* The edits of the lines are bounded.
LockStep ==
  /\ record = "lock" /\ UNCHANGED <<publicationVars, remoteVars>>
  /\ LockNext \/ UNCHANGED lockVars

\* So are the commands on the units.
RemoteStep ==
  /\ record = "units" /\ UNCHANGED <<publicationVars, lockVars>>
  /\ RemoteNext \/ UNCHANGED remoteVars

RecordsSpec ==
  RecordsInit /\ [][(PublicationStep \/ LockStep \/ RemoteStep) /\ UNCHANGED record]_<<record, publicationVars, lockVars, remoteVars>>

(* The branches are interchangeable, and so are the two commands.  They    *)
(* are exchanged together, or none is: only one of the two sets is in use. *)
AllInterchangeable ==
  {p \in Permutations(Branches \cup Commands) :
     /\ \A S \in {Branches, Commands} : {p[x] : x \in S} = S
     /\ (\A x \in DOMAIN p : p[x] = x) \/ (\A x \in DOMAIN p : p[x] # x)}
=============================================================================
