----------------------------- MODULE ResourceDb -----------------------------
(***************************************************************************)
(* One node's data directory and its database: the WebDAV requests and the *)
(* installed pulls that change the disk, the tasks that hash the file and  *)
(* record the change afterwards, the channel to the SQLite worker, the     *)
(* worker, and a crash that loses what has not reached the database.       *)
(*                                                                         *)
(* A path is the sequence of the names on it.  Requests run in parallel,   *)
(* so the records of two of them may be written in either order.  Times    *)
(* are not compared here: the worker stamps with a count of its events.    *)
(***************************************************************************)
EXTENDS ResourceStore, Sequences, FiniteSets, Bags

CONSTANTS
    MAX_CHANGES,\* bound: changes of the disk
    MAX_CRASHES \* bound: crashes

ASSUME ParametersAssumption ==
    /\ Path \subseteq Seq(STRING) \ {<<>>}
    /\ MAX_CHANGES \in Nat /\ MAX_CRASHES \in Nat

VARIABLES
    disk,       \* the data directory
    tasks,      \* bag of the events whose record is not sent yet
    commands,   \* the channel to the worker
    store,      \* the tables
    applied,    \* events the worker has been given
    removed,    \* history: the paths whose last change was a deletion
    ordered,    \* history: each change was recorded before the next one, none lost
    single,     \* history: no change affected what is below its paths
    changes, crashes

vars == <<disk, tasks, commands, store, applied, removed, ordered, single, changes, crashes>>

-----------------------------------------------------------------------------
(* Paths *)

Parent(path) == SubSeq(path, 1, Len(path) - 1)

\* path and what is below it.
Within(path) == {q \in Path : Len(q) >= Len(path) /\ SubSeq(q, 1, Len(path)) = path}

\* Where q, within src, is once src is at dst.
Relocated(q, src, dst) == dst \o SubSeq(q, Len(src) + 1, Len(q))

HasFolder(path) == Parent(path) = <<>> \/ (Parent(path) \in Path /\ disk[Parent(path)] = Dir)

Existing(path) == {q \in Within(path) : disk[q] # Missing}

Placeable(src, dst) ==
    /\ disk[src] # Missing
    /\ HasFolder(dst)
    /\ dst \notin Within(src) /\ src \notin Within(dst)
    /\ \A q \in Existing(src) : Relocated(q, src, dst) \in Path

Placed(src, dst) ==
    [q \in Path |->
        IF q \in Within(dst)
        THEN LET origin == {r \in Existing(src) : Relocated(r, src, dst) = q} IN
             IF origin = {} THEN Missing ELSE disk[CHOOSE r \in origin : TRUE]
        ELSE disk[q]]

Without(d, paths) == [q \in Path |-> IF q \in paths THEN Missing ELSE d[q]]

-----------------------------------------------------------------------------
(* Requests that succeed, and pulls that are installed *)

\* hash: the file is hashed by a task of its own before the event is recorded.
Task(kind, src, dst, checksum, hash) ==
    [kind |-> kind, source |-> src, destination |-> dst, checksum |-> checksum,
     hash |-> hash]

\* touched: the paths whose file or directory the change creates or removes.
Change(task, touched) ==
    /\ changes < MAX_CHANGES
    /\ changes' = changes + 1
    /\ ordered' = (ordered /\ tasks = EmptyBag)
    /\ single' = (single /\ touched \subseteq {task.source, task.destination})
    /\ tasks' = tasks (+) SetToBag({task})
    /\ UNCHANGED <<commands, store, applied, crashes>>

WriteKind(path) == IF disk[path] = Missing THEN "Created" ELSE "Edited"

Put(path, c) ==
    /\ HasFolder(path) /\ disk[path] # Dir
    /\ disk' = [disk EXCEPT ![path] = c]
    /\ removed' = removed \ {path}
    /\ Change(Task(WriteKind(path), path, NoPath, NoChecksum, TRUE), {path})

\* handle_file_chunk: the parent is created, the checksum is that of the pull.
\* Only a file whose parent exists is installed here.
Install(path, c) ==
    /\ HasFolder(path) /\ disk[path] # Dir
    /\ disk' = [disk EXCEPT ![path] = c]
    /\ removed' = removed \ {path}
    /\ Change(Task("Edited", path, NoPath, c, FALSE), {path})

\* DELETE by a client, or apply_delete: a directory goes with all it has.
Delete(path) ==
    /\ disk[path] # Missing
    /\ disk' = Without(disk, Within(path))
    /\ removed' = removed \cup Existing(path)
    /\ Change(Task("Deleted", path, NoPath, NoChecksum, FALSE), Existing(path))

MakeCollection(path) ==
    /\ HasFolder(path) /\ disk[path] = Missing
    /\ disk' = [disk EXCEPT ![path] = Dir]
    /\ removed' = removed \ {path}
    /\ Change(Task("DirCreated", path, NoPath, NoChecksum, FALSE), {path})

MoveTo(src, dst) ==
    /\ Placeable(src, dst)
    /\ disk' = Without(Placed(src, dst), Within(src))
    /\ removed' = removed \ Within(dst)
    /\ Change(Task("Moved", src, dst, NoChecksum, TRUE), Existing(src) \cup Existing(dst))

CopyTo(src, dst) ==
    /\ Placeable(src, dst)
    /\ disk' = Placed(src, dst)
    /\ removed' = removed \ Within(dst)
    /\ Change(Task("Copied", src, dst, NoChecksum, TRUE), Existing(src) \cup Existing(dst))

-----------------------------------------------------------------------------
(* From the task to the database *)

\* The file is hashed as it is when the task runs.
Envelope(task) ==
    [kind |-> task.kind, source |-> task.source, destination |-> task.destination,
     checksum |-> IF task.hash THEN Hash(disk, FinalPath(task)) ELSE task.checksum]

Record(task) ==
    /\ tasks' = tasks (-) SetToBag({task})
    /\ commands' = Append(commands, Envelope(task))
    /\ UNCHANGED <<disk, store, applied, removed, ordered, single, changes, crashes>>

WorkerApplies ==
    /\ commands # <<>>
    /\ commands' = Tail(commands)
    /\ applied' = applied + 1
    /\ store' = apply_event(store, disk, Head(commands), applied + 1)
    /\ UNCHANGED <<disk, tasks, removed, ordered, single, changes, crashes>>

\* Every change has reached the database.
Settled == tasks = EmptyBag /\ commands = <<>>

\* The process ends and is started again on the same files.
Crash ==
    /\ crashes < MAX_CRASHES
    /\ crashes' = crashes + 1
    /\ tasks' = EmptyBag
    /\ commands' = <<>>
    /\ ordered' = (ordered /\ Settled)
    /\ UNCHANGED <<disk, store, applied, removed, single, changes>>

Init ==
    /\ disk = [path \in Path |-> Missing]
    /\ tasks = EmptyBag
    /\ commands = <<>>
    /\ store = EmptyStore
    /\ applied = 0
    /\ removed = {}
    /\ ordered = TRUE /\ single = TRUE
    /\ changes = 0 /\ crashes = 0

Next ==
    \/ \E path \in Path :
          \/ \E c \in Checksum : Put(path, c) \/ Install(path, c)
          \/ Delete(path)
          \/ MakeCollection(path)
          \/ \E dst \in Path : MoveTo(path, dst) \/ CopyTo(path, dst)
    \/ \E task \in BagToSet(tasks) : Record(task)
    \/ WorkerApplies
    \/ Crash

Spec == Init /\ [][Next]_vars

-----------------------------------------------------------------------------
(* Properties *)

manifest == build_manifest(store, disk, [path \in Path |-> 1])

TypeOK ==
    /\ disk \in DiskState
    /\ \A task \in BagToSet(tasks) : Envelope(task) \in Event /\ task.hash \in BOOLEAN
    /\ commands \in Seq(Event)
    /\ store \in Store
    /\ applied \in Nat
    /\ removed \subseteq Path
    /\ ordered \in BOOLEAN /\ single \in BOOLEAN
    /\ changes \in 0..MAX_CHANGES /\ crashes \in 0..MAX_CRASHES

\* Once every change has reached the database, each before the next one, none
\* lost and none of a directory with something in it, the manifest tells a peer
\* what is on the disk: which paths exist, what they are, and the content of the
\* files.
ManifestMatchesDisk ==
    Settled /\ ordered /\ single =>
        LET states == latest_states(manifest)
            live   == {path \in DOMAIN states : states[path].kind # "deleted"}
        IN /\ live = {path \in Path : disk[path] # Missing}
           /\ \A path \in live :
                 /\ states[path].kind = "folder" <=> disk[path] = Dir
                 /\ states[path].checksum = Hash(disk, path)

\* Likewise, the manifest has a tombstone for each path that was deleted and not
\* created again.
DeletedHasTombstone ==
    Settled /\ ordered /\ single => removed \subseteq DOMAIN manifest.tombstones

\* Likewise, the manifest does not depend on the scan: wherever the scan fails, the
\* rows say all of it, and no path looks missing here that a peer has an older file for.
ScanErrorsAreHarmless ==
    Settled /\ ordered /\ single =>
        \A seen \in SUBSET Path :
            manifest_of_failed_scan(store, disk, [path \in Path |-> 1], seen) = manifest

\* At no time, not even with changes that have not reached the database or were
\* lost in a crash, does the manifest offer a file that is not on the disk, or
\* leave out one that is: a peer would pull the first in vain, and not miss the
\* second.
ManifestOffersWhatExists ==
    \A path \in Path :
        /\ (path \in DOMAIN manifest.resources /\ manifest.resources[path].kind = "file")
              => disk[path] # Missing
        /\ disk[path] # Missing => path \in DOMAIN manifest.resources
=============================================================================
