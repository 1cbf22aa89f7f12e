---------------------------- MODULE RemoteUnits ----------------------------
(***************************************************************************)
(* The remote units of a workspace and the three places they are kept:     *)
(* `ridl.lock` (crates/ridl-core/src/lock.rs), the content-addressed cache *)
(* of the user (cache.rs) and `vendor/` (vendor.rs).  Commands run beside  *)
(* each other on them: a build, a `--frozen` build and `ridl vendor`, each *)
(* of which resolves its imports (materialize_imports of fetch.rs, called  *)
(* by load_remotes of workspace.rs) and writes what it has to.  A file     *)
(* operation can fail and a command can die between any two; the server    *)
(* may serve another artifact under a URL it served before, and imports    *)
(* come and go.                                                            *)
(*                                                                         *)
(* A directory is abstracted to the artifact its files are from and to     *)
(* whether all of them are there, and its `tree` hash to just that.  A URL *)
(* has one `[imports]` key, and every URL and key is well formed.  An      *)
(* unreadable or malformed lockfile pins nothing, as a missing one does.   *)
(* One `ridl vendor` writes `vendor/` at a time: what it finds there under *)
(* a staging name it takes for the leftover of an interrupted run.         *)
(***************************************************************************)
EXTENDS Naturals, FiniteSetsExt

CONSTANTS
  Commands,     \* the commands that may run beside each other, by process id
  Urls,         \* the URLs of remote units, numbered in their order
  Artifacts,    \* what a server may serve under a URL
  None,         \* no directory, no pin
  MaxCommands,  \* bound: commands run
  MaxReleases,  \* bound: times a server changes what it serves
  MaxImports    \* bound: edits of the imports

ASSUME RemoteAssumption ==
  /\ Urls \subseteq Nat /\ IsFiniteSet(Urls)
  /\ None \notin Artifacts
  /\ {MaxCommands, MaxReleases, MaxImports} \subseteq Nat

Full(a) == [of |-> a, whole |-> TRUE]
Part(a) == [of |-> a, whole |-> FALSE]

(* A pin as the commands write it, and as an older lockfile has it.        *)
Pinned(a) == [sha |-> a, tree |-> Full(a)]
PinnedOnce(a) == [sha |-> a, tree |-> None]

ASSUME NoneAssumption ==
  \A a \in Artifacts : None \notin {Full(a), Part(a), Pinned(a), PinnedOnce(a)}

NoPins == [u \in Urls |-> None]

VARIABLES
  imports,   \* the URLs the manifest imports
  served,    \* what the server of each URL serves
  pins,      \* `ridl.lock`: for a URL its sha256 and its tree, which an
             \* older lockfile does not have
  cache,     \* the entry of each URL and artifact
  unpacked,  \* the staging directories of the cache
  vendor,    \* `vendor/<key>/`
  copied,    \* `.staging-<key>-<pid>` in `vendor/`
  replaced,  \* `.replaced-<key>-<pid>` in `vendor/`
  cmd,       \* the progress of each command
  past,      \* for the properties: the sha256 first pinned for a URL, the
             \* URLs vendored as pinned, the directories a removal has begun
             \* on, whether a lockfile was written over one its writer had
             \* not read, whether one was not written or cut short, and whether
             \* the manifest was edited under a command
  count      \* bound: commands run, releases and edits made

tree == <<vendor, copied, replaced>>
stores == <<cache, unpacked>>
world == <<imports, served>>
remoteVars == <<world, pins, stores, tree, cmd, past, count>>

Idle ==
  [at |-> "idle", kind |-> None, units |-> {}, lock |-> NoPins, todo |-> {},
   artifact |-> None, vendored |-> FALSE, entry |-> NoPins, from |-> NoPins,
   failed |-> FALSE, got |-> NoPins]

RemoteInit ==
  /\ imports \in SUBSET Urls
  /\ served \in [Urls -> Artifacts]
  /\ pins \in [Urls -> {None} \cup {Pinned(a) : a \in Artifacts}
                            \cup {PinnedOnce(a) : a \in Artifacts}]
  /\ \A u \in Urls \ imports : pins[u] = None
  /\ cache = [u \in Urls |-> [a \in Artifacts |-> None]]
  /\ unpacked = [u \in Urls |-> [c \in Commands |-> [a \in Artifacts |-> None]]]
  /\ vendor \in [Urls -> {None} \cup {Full(a) : a \in Artifacts}]
  /\ copied = [c \in Commands |-> NoPins]
  /\ replaced = [c \in Commands |-> NoPins]
  /\ cmd = [c \in Commands |-> Idle]
  /\ past = [first |-> [u \in Urls |-> IF pins[u] = None THEN None ELSE pins[u].sha],
             vendored |-> {}, removing |-> {}, raced |-> FALSE, cut |-> FALSE,
             edited |-> FALSE]
  /\ count = [commands |-> 0, releases |-> 0, imports |-> 0]

-----------------------------------------------------------------------------
(* What happens around the commands. *)

Release(u) ==
  /\ count.releases < MaxReleases
  /\ \E a \in Artifacts \ {served[u]} : served' = [served EXCEPT ![u] = a]
  /\ count' = [count EXCEPT !.releases = @ + 1]
  /\ UNCHANGED <<imports, pins, stores, tree, cmd, past>>

(* The manifest is edited.  A command that has read it goes on with the    *)
(* imports it has read.                                                    *)
EditImports(u) ==
  /\ count.imports < MaxImports
  /\ imports' = IF u \in imports THEN imports \ {u} ELSE imports \cup {u}
  /\ past' = [past EXCEPT !.edited = @ \/ \E c \in Commands : cmd[c] # Idle]
  /\ count' = [count EXCEPT !.imports = @ + 1]
  /\ UNCHANGED <<served, pins, stores, tree, cmd>>

-----------------------------------------------------------------------------
(* load_remotes and materialize_imports. *)

At(c, where) == cmd[c].at = where
Current(c) == Min(cmd[c].todo)
Writing(c) == At(c, "write")

(* The lockfile is read while another command may be writing it.           *)
StartCommand(c) ==
  /\ At(c, "idle")
  /\ count.commands < MaxCommands
  /\ \E kind \in {"build", "frozen", "vendor"} :
       cmd' = [cmd EXCEPT ![c] = [Idle EXCEPT
                 !.at = IF imports = {} THEN "load" ELSE "resolve",
                 !.kind = kind, !.units = imports, !.lock = pins, !.todo = imports]]
  /\ past' = [past EXCEPT !.raced = @ \/ \E d \in Commands : Writing(d)]
  /\ count' = [count EXCEPT !.commands = @ + 1]
  /\ UNCHANGED <<world, pins, stores, tree>>

(* The unit of a URL is found, or a diagnostic drops the import.           *)
Accept(c, u, entry, from) ==
  cmd' = [cmd EXCEPT ![c].at = "resolve", ![c].todo = @ \ {u}, ![c].artifact = None,
                     ![c].vendored = FALSE, ![c].entry[u] = entry, ![c].from[u] = from]

Reject(c, u) ==
  cmd' = [cmd EXCEPT ![c].at = "resolve", ![c].todo = @ \ {u}, ![c].artifact = None,
                     ![c].vendored = FALSE, ![c].failed = TRUE]

Pin(c, u) == cmd[c].lock[u]
PinnedTree(c, u) == IF Pin(c, u) = None THEN None ELSE Pin(c, u).tree

(* `ridl vendor` does not read the directory that it writes.               *)
VendoredDir(c, u) == IF cmd[c].kind = "vendor" THEN None ELSE vendor[u]

Resolving(c) == At(c, "resolve") /\ cmd[c].todo # {}
ByVendor(c, u) == VendoredDir(c, u) # None /\ PinnedTree(c, u) # None
ByCache(c, u) == ~ByVendor(c, u) /\ Pin(c, u) # None /\ cache[u][Pin(c, u).sha] # None

ServeVendored(c) ==
  /\ Resolving(c)
  /\ LET u == Current(c) IN
     /\ ByVendor(c, u)
     /\ IF vendor[u] = PinnedTree(c, u)
        THEN Accept(c, u, Pin(c, u), "vendor") ELSE Reject(c, u)
  /\ UNCHANGED <<world, pins, stores, tree, past, count>>

\* Mutant: the sha256 of what was fetched is not compared with the pin.
VerifyTreeOnly(c, u, sha, vendored) ==
  LET found == cache[u][sha]
      wanted == IF PinnedTree(c, u) = None THEN found ELSE PinnedTree(c, u)
  IN IF found = wanted /\ (vendored => vendor[u] = wanted)
     THEN Accept(c, u, [sha |-> sha, tree |-> wanted], IF vendored THEN "vendor" ELSE "cache")
     ELSE Reject(c, u)

(* verify_tree on the cache entry and then on the vendored directory.  A   *)
(* tree that is not pinned yet is pinned as it is found.                   *)
Verify(c, u, sha, vendored) ==
  LET found == cache[u][sha]
      wanted == IF PinnedTree(c, u) = None THEN found ELSE PinnedTree(c, u)
  IN IF /\ Pin(c, u) # None => Pin(c, u).sha = sha
        /\ found = wanted
        /\ vendored => vendor[u] = wanted
     THEN Accept(c, u, [sha |-> sha, tree |-> wanted], IF vendored THEN "vendor" ELSE "cache")
     ELSE Reject(c, u)

CacheHit(c) ==
  /\ Resolving(c)
  /\ LET u == Current(c) IN
     /\ ByCache(c, u)
     /\ IF cmd[c].kind = "frozen" /\ PinnedTree(c, u) = None
        THEN Reject(c, u)
        ELSE Verify(c, u, Pin(c, u).sha, VendoredDir(c, u) # None)
  /\ UNCHANGED <<world, pins, stores, tree, past, count>>

FrozenMiss(c) ==
  /\ Resolving(c) /\ cmd[c].kind = "frozen"
  /\ LET u == Current(c) IN ~ByVendor(c, u) /\ ~ByCache(c, u) /\ Reject(c, u)
  /\ UNCHANGED <<world, pins, stores, tree, past, count>>

Miss(c) ==
  /\ Resolving(c) /\ cmd[c].kind # "frozen"
  /\ LET u == Current(c) IN
     /\ ~ByVendor(c, u) /\ ~ByCache(c, u)
     /\ cmd' = [cmd EXCEPT ![c].at = "fetch", ![c].vendored = VendoredDir(c, u) # None]
  /\ UNCHANGED <<world, pins, stores, tree, past, count>>

Fetch(c) ==
  /\ At(c, "fetch")
  /\ cmd' = [cmd EXCEPT ![c].at = "store", ![c].artifact = served[Current(c)]]
  /\ UNCHANGED <<world, pins, stores, tree, past, count>>

(* A failed status or transport, or the timeout.                           *)
FetchFails(c) ==
  /\ At(c, "fetch") /\ Reject(c, Current(c))
  /\ UNCHANGED <<world, pins, stores, tree, past, count>>

-----------------------------------------------------------------------------
(* Cache::store. *)

\* Mutant: the staging directory is not named after the process.
StagingShared(c) == CHOOSE d \in Commands : TRUE

(* `.staging-<sha256>-<pid>`: the artifact is the last index.              *)
Staging(c) == c

InStaging(c, dir) ==
  unpacked' = [unpacked EXCEPT ![Current(c)][Staging(c)][cmd[c].artifact] = dir]

Entry(c) == cache[Current(c)][cmd[c].artifact]

StoreHit(c) ==
  /\ At(c, "store") /\ Entry(c) # None
  /\ cmd' = [cmd EXCEPT ![c].at = "verify"]
  /\ UNCHANGED <<world, pins, stores, tree, past, count>>

(* A stale staging directory is cleared, if that succeeds; what stays of   *)
(* it is of the same artifact and is unpacked over.                        *)
StoreStage(c) ==
  /\ At(c, "store") /\ Entry(c) = None
  /\ cmd' = [cmd EXCEPT ![c].at = "unpack"]
  /\ InStaging(c, Part(cmd[c].artifact))
  /\ UNCHANGED <<world, pins, cache, tree, past, count>>

StoreUnpack(c) ==
  /\ At(c, "unpack")
  /\ cmd' = [cmd EXCEPT ![c].at = "rename"]
  /\ InStaging(c, Full(cmd[c].artifact))
  /\ UNCHANGED <<world, pins, cache, tree, past, count>>

(* The staging directory is removed, if that succeeds; what stays of it,   *)
(* whole or not, is only ever unpacked over.                               *)
DropStaging(c) == \E dir \in {None, Part(cmd[c].artifact)} : InStaging(c, dir)

(* A directory that cannot be made, unpacked or renamed.                   *)
StoreFails(c) ==
  /\ \/ At(c, "store") /\ Entry(c) = None /\ UNCHANGED unpacked
     \/ At(c, "unpack") /\ DropStaging(c)
     \/ At(c, "rename") /\ Entry(c) = None /\ DropStaging(c)
  /\ Reject(c, Current(c))
  /\ UNCHANGED <<world, pins, cache, tree, past, count>>

(* A rename over the entry of a concurrent store fails; it is adopted, and *)
(* the staging copy is dropped, if that succeeds.                          *)
StoreRename(c) ==
  /\ At(c, "rename")
  /\ LET u == Current(c)
         a == cmd[c].artifact
     IN IF Entry(c) = None
        THEN /\ cache' = [cache EXCEPT ![u][a] = unpacked[u][Staging(c)][a]]
             /\ InStaging(c, None)
        ELSE DropStaging(c) /\ UNCHANGED cache
  /\ cmd' = [cmd EXCEPT ![c].at = "verify"]
  /\ UNCHANGED <<world, pins, tree, past, count>>

VerifyFetched(c) ==
  /\ At(c, "verify")
  /\ Verify(c, Current(c), cmd[c].artifact, cmd[c].vendored)
  /\ UNCHANGED <<world, pins, stores, tree, past, count>>

-----------------------------------------------------------------------------
(* The lockfile is written again, and the units are loaded. *)

Resolved(c) == At(c, "resolve") /\ cmd[c].todo = {}

(* A frozen run never writes it, nor does one that drew an error.          *)
Regenerates(c) == cmd[c].kind # "frozen" /\ ~cmd[c].failed

(* A file that cannot be opened for writing is a warning only.             *)
LockKept(c) ==
  /\ Resolved(c)
  /\ cmd' = [cmd EXCEPT ![c].at = "load"]
  /\ past' = [past EXCEPT !.cut = @ \/ Regenerates(c)]
  /\ UNCHANGED <<world, pins, stores, tree, count>>

(* fs::write truncates the file and then writes it.                        *)
LockTruncate(c) ==
  /\ Resolved(c) /\ Regenerates(c)
  /\ cmd' = [cmd EXCEPT ![c].at = "write"]
  /\ pins' = NoPins
  /\ past' = [past EXCEPT !.raced =
                @ \/ cmd[c].lock # pins \/ \E d \in Commands : Writing(d)]
  /\ UNCHANGED <<world, stores, tree, count>>

LockWrite(c) ==
  /\ Writing(c)
  /\ cmd' = [cmd EXCEPT ![c].at = "load"]
  /\ pins' = cmd[c].entry
  /\ past' = [past EXCEPT
       !.first = [u \in Urls |-> IF u \notin cmd[c].units THEN None
                                 ELSE IF @[u] # None \/ cmd[c].entry[u] = None THEN @[u]
                                 ELSE cmd[c].entry[u].sha],
       !.vendored = @ \cap cmd[c].units]
  /\ UNCHANGED <<world, stores, tree, count>>

(* What is left of a lockfile of which only the first lines are there: it  *)
(* pins nothing when the cut makes it malformed, and a cut between the two *)
(* lines of an entry leaves it without its tree.                           *)
CutShort(entry) ==
  {NoPins} \cup
  {[u \in Urls |-> IF u < n \/ entry[u] = None THEN entry[u]
                   ELSE IF u = n THEN [entry[u] EXCEPT !.tree = None] ELSE None] : n \in Urls}

LockWriteFails(c) ==
  /\ Writing(c)
  /\ cmd' = [cmd EXCEPT ![c].at = "load"]
  /\ pins' \in CutShort(cmd[c].entry)
  /\ past' = [past EXCEPT !.cut = TRUE]
  /\ UNCHANGED <<world, stores, tree, count>>

Finish(c) == cmd' = [cmd EXCEPT ![c] = Idle]

(* The files of each unit are read from the directory that was verified.   *)
Load(c) ==
  /\ At(c, "load") /\ ~cmd[c].failed
  /\ LET dirs == [u \in Urls |-> CASE cmd[c].from[u] = "vendor" -> vendor[u]
                                   [] cmd[c].from[u] = "cache" -> cache[u][cmd[c].entry[u].sha]
                                   [] OTHER -> None]
     IN IF \E u \in cmd[c].units : dirs[u] = None
        THEN Finish(c)
        ELSE cmd' = [cmd EXCEPT ![c].at = "loaded", ![c].got = dirs]
  /\ UNCHANGED <<world, pins, stores, tree, past, count>>

(* The command ends here: a build, and `ridl vendor` when the check of     *)
(* the workspace draws an error.                                           *)
Answer(c) ==
  /\ At(c, "loaded") \/ (At(c, "load") /\ cmd[c].failed)
  /\ Finish(c)
  /\ UNCHANGED <<world, pins, stores, tree, past, count>>

-----------------------------------------------------------------------------
(* write_vendor. *)

InVendor(c) == cmd[c].at \in {"copy", "check", "swap", "install", "drop", "stray"}

(* Every leftover of an interrupted run is removed, whoever it is from.    *)
ClearLeftovers(c) ==
  /\ At(c, "loaded") /\ cmd[c].kind = "vendor"
  /\ \A d \in Commands : ~InVendor(d)
  /\ cmd' = [cmd EXCEPT ![c].at = "copy", ![c].todo = cmd[c].units]
  /\ copied' = [d \in Commands |-> NoPins]
  /\ replaced' = [d \in Commands |-> NoPins]
  /\ UNCHANGED <<world, pins, stores, vendor, past, count>>

Copying(c) == At(c, "copy") /\ cmd[c].todo # {}
UpToDate(c, u) == vendor[u] = cmd[c].entry[u].tree

CopyNext(c, where) == cmd' = [cmd EXCEPT ![c].at = where, ![c].todo = @ \ {Current(c)}]

LeaveAsIs(c) ==
  /\ Copying(c) /\ UpToDate(c, Current(c))
  /\ CopyNext(c, "copy")
  /\ UNCHANGED <<world, pins, stores, tree, past, count>>

Copy(c) ==
  /\ Copying(c) /\ ~UpToDate(c, Current(c))
  /\ cmd' = [cmd EXCEPT ![c].at = "check"]
  /\ LET u == Current(c) IN copied' = [copied EXCEPT ![c][u] = Part(cmd[c].entry[u].sha)]
  /\ UNCHANGED <<world, pins, stores, vendor, replaced, past, count>>

(* copy_checked: the rest of the files, and the copy has the unit's tree.  *)
CopyChecked(c) ==
  /\ At(c, "check")
  /\ LET u == Current(c)
         dir == cache[u][cmd[c].entry[u].sha]
     IN /\ dir = cmd[c].entry[u].tree
        /\ copied' = [copied EXCEPT ![c][u] = dir]
        /\ cmd' = [cmd EXCEPT ![c].at = IF vendor[u] = None THEN "install" ELSE "swap"]
  /\ UNCHANGED <<world, pins, stores, vendor, replaced, past, count>>

CopyFails(c) ==
  /\ At(c, "check") /\ Finish(c)
  /\ copied' \in {copied, [copied EXCEPT ![c][Current(c)] = None]}
  /\ UNCHANGED <<world, pins, stores, vendor, replaced, past, count>>

SwapOut(c) ==
  /\ At(c, "swap")
  /\ cmd' = [cmd EXCEPT ![c].at = "install"]
  /\ LET u == Current(c) IN
     /\ replaced' = [replaced EXCEPT ![c][u] = vendor[u]]
     /\ vendor' = [vendor EXCEPT ![u] = None]
     /\ past' = [past EXCEPT !.removing = @ \ {u}]
  /\ UNCHANGED <<world, pins, stores, copied, count>>

SwapIn(c) ==
  /\ At(c, "install")
  /\ LET u == Current(c) IN
     /\ vendor' = [vendor EXCEPT ![u] = copied[c][u]]
     /\ copied' = [copied EXCEPT ![c][u] = None]
     /\ IF replaced[c][u] = None THEN CopyNext(c, "copy")
                                 ELSE cmd' = [cmd EXCEPT ![c].at = "drop"]
  /\ UNCHANGED <<world, pins, stores, replaced, past, count>>

(* A rename fails.  When it is the second of two, the old tree is renamed  *)
(* back and the copy removed, as far as that succeeds.                     *)
SwapFails(c) ==
  /\ At(c, "swap") \/ At(c, "install")
  /\ Finish(c)
  /\ LET u == Current(c) IN
     IF replaced[c][u] = None
     THEN UNCHANGED <<tree, past>>
     ELSE /\ copied' \in {copied, [copied EXCEPT ![c][u] = None]}
          /\ \/ UNCHANGED <<vendor, replaced, past>>
             \/ /\ vendor' = [vendor EXCEPT ![u] = replaced[c][u]]
                /\ replaced' = [replaced EXCEPT ![c][u] = None]
                /\ past' = [past EXCEPT !.removing = IF vendor'[u].whole THEN @ ELSE @ \cup {u}]
  /\ UNCHANGED <<world, pins, stores, count>>

DropOld(c) ==
  /\ At(c, "drop")
  /\ replaced' = [replaced EXCEPT ![c][Current(c)] = None]
  /\ CopyNext(c, "copy")
  /\ UNCHANGED <<world, pins, stores, vendor, copied, past, count>>

DropOldFails(c) ==
  /\ At(c, "drop") /\ Finish(c)
  /\ UNCHANGED <<world, pins, stores, tree, past, count>>

(* The directory of a key that is not imported is removed file by file.    *)
Strays(c) == {u \in Urls \ cmd[c].units : vendor[u] # None}

RemoveStray(c) ==
  /\ At(c, "copy") /\ cmd[c].todo = {}
  /\ \E u \in Strays(c) :
       /\ cmd' = [cmd EXCEPT ![c].at = "stray", ![c].todo = {u}]
       /\ vendor' = [vendor EXCEPT ![u].whole = FALSE]
       /\ past' = [past EXCEPT !.removing = @ \cup {u}, !.vendored = @ \ {u}]
  /\ UNCHANGED <<world, pins, stores, copied, replaced, count>>

StrayRemoved(c) ==
  /\ At(c, "stray")
  /\ CopyNext(c, "copy")
  /\ vendor' = [vendor EXCEPT ![Current(c)] = None]
  /\ past' = [past EXCEPT !.removing = @ \ {Current(c)}]
  /\ UNCHANGED <<world, pins, stores, copied, replaced, count>>

StrayFails(c) ==
  /\ At(c, "stray") /\ Finish(c)
  /\ UNCHANGED <<world, pins, stores, tree, past, count>>

Vendored(c) ==
  /\ At(c, "copy") /\ cmd[c].todo = {} /\ Strays(c) = {}
  /\ Finish(c)
  /\ past' = [past EXCEPT !.vendored =
                @ \cup {u \in cmd[c].units : pins[u] = cmd[c].entry[u]}]
  /\ UNCHANGED <<world, pins, stores, tree, count>>

(* The process dies. *)
Die(c) ==
  /\ ~At(c, "idle")
  /\ Finish(c)
  /\ past' = [past EXCEPT !.cut = @ \/ Writing(c)]
  /\ UNCHANGED <<world, pins, stores, tree, count>>

Run(c) ==
  \/ StartCommand(c) \/ ServeVendored(c) \/ CacheHit(c) \/ FrozenMiss(c) \/ Miss(c)
  \/ Fetch(c) \/ FetchFails(c)
  \/ StoreHit(c) \/ StoreStage(c) \/ StoreUnpack(c) \/ StoreFails(c) \/ StoreRename(c)
  \/ VerifyFetched(c)
  \/ LockKept(c) \/ LockTruncate(c) \/ LockWrite(c) \/ LockWriteFails(c)
  \/ Load(c) \/ Answer(c)
  \/ ClearLeftovers(c) \/ LeaveAsIs(c) \/ Copy(c) \/ CopyChecked(c) \/ CopyFails(c)
  \/ SwapOut(c) \/ SwapIn(c) \/ SwapFails(c) \/ DropOld(c) \/ DropOldFails(c)
  \/ RemoveStray(c) \/ StrayRemoved(c) \/ StrayFails(c) \/ Vendored(c)
  \/ Die(c)

RemoteNext ==
  \/ \E c \in Commands : Run(c)
  \/ \E u \in Urls : Release(u) \/ EditImports(u)

RemoteSpec == RemoteInit /\ [][RemoteNext]_remoteVars

-----------------------------------------------------------------------------
(* Commands that store and vendor at once, die anywhere and clear up after *)
(* each other never leave part of a unit where it is looked for: a cache   *)
(* entry is whole, and a vendored directory is unless a run was removing   *)
(* it because its import was gone.                                         *)
StoresWhole ==
  \A u \in Urls :
    /\ \A a \in Artifacts : cache[u][a] \in {None, Full(a)}
    /\ vendor[u] # None => vendor[u].whole \/ u \in past.removing

(* The lockfile is whole, and each writer had read what it replaced.       *)
Kept == ~past.raced /\ ~past.cut /\ \A c \in Commands : ~Writing(c)

(* While commands do not lose each other's lockfile, a unit stays what it  *)
(* was pinned to first, whatever its server serves later.  As long as the  *)
(* manifest is not edited under a running command, a unit that `ridl       *)
(* vendor` has vendored also stays vendored as pinned, through later runs  *)
(* that fail or die, and what a build reads is what it verified, although  *)
(* `vendor/` may be written between the two.                               *)
PinsHold ==
  Kept =>
    /\ \A u \in Urls : past.first[u] # None =>
         pins[u] # None /\ pins[u].sha = past.first[u]
    /\ ~past.edited =>
         /\ \A u \in past.vendored : pins[u] # None /\ vendor[u] = pins[u].tree
         /\ \A c \in Commands : At(c, "loaded") =>
              \A u \in cmd[c].units : cmd[c].got[u] = cmd[c].entry[u].tree
=============================================================================
