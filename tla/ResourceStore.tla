---------------------------- MODULE ResourceStore ----------------------------
(***************************************************************************)
(* What the SQLite worker of db.rs does with an event and with a request   *)
(* for the manifest, as operators on a store and on the data directory.    *)
(*                                                                         *)
(* A store has the live rows of the table resources and, of the table      *)
(* resource_archive, the time of the latest row archived as a deletion:    *)
(* the manifest asks for nothing else.  The checksum of a file stands for  *)
(* its content.  The history in the table events is never read back.       *)
(***************************************************************************)
EXTENDS ManifestDiff

CONSTANTS
    Path,       \* the paths of resources
    Checksum,   \* the contents of files
    NoRow,      \* no row in resources
    Missing,    \* no such path on the disk
    Dir,        \* a directory on the disk
    NoPath      \* an event without destination_path

ASSUME DistinctMarks ==
    /\ NoChecksum \notin Checksum
    /\ Missing \notin Checksum /\ Dir \notin Checksum /\ Missing # Dir
    /\ NoPath \notin Path

DiskState == [Path -> Checksum \cup {Dir, Missing}]

Row == [kind : {"file", "folder"}, checksum : Checksum \cup {NoChecksum},
        updated_at : Nat]

ASSUME NoRowIsNoRow == NoRow \notin Row

\* deleted_at[path] = 0: no row of the path was archived as a deletion.
Store == [rows : [Path -> Row \cup {NoRow}], deleted_at : [Path -> Nat]]

EventKind == {"Created", "Edited", "Deleted", "Moved", "Copied", "DirCreated"}

Event == [kind : EventKind, source : Path, destination : Path \cup {NoPath},
          checksum : Checksum \cup {NoChecksum}]

\* Variant: a directory is hashed like a file.
HashAny(disk, path) == IF disk[path] = Missing THEN NoChecksum ELSE disk[path]

\* file_checksum_and_size: fails for a directory and for a missing path.
Hash(disk, path) == IF disk[path] \in Checksum THEN disk[path] ELSE NoChecksum

EmptyStore == [rows |-> [path \in Path |-> NoRow], deleted_at |-> [path \in Path |-> 0]]

-----------------------------------------------------------------------------
(* apply_event.  A rename is recorded like a move. *)

FinalPath(e) == IF e.destination = NoPath THEN e.source ELSE e.destination

\* The kind of an existing row is kept.
resolve_resource_kind(store, e) ==
    IF store.rows[e.source] # NoRow THEN store.rows[e.source].kind
    ELSE IF e.kind = "DirCreated" THEN "folder" ELSE "file"

\* Variant: a row that is there keeps its checksum.
NewRowKept(store, disk, e, now) ==
    LET kind == resolve_resource_kind(store, e)
        row  == store.rows[FinalPath(e)]
    IN [kind |-> kind, updated_at |-> now,
        checksum |-> IF row # NoRow THEN row.checksum
                     ELSE IF e.checksum # NoChecksum THEN e.checksum
                     ELSE Hash(disk, FinalPath(e))]

\* The checksum of the event, or that of what is on the disk by now.
NewRow(store, disk, e, now) ==
    LET kind == resolve_resource_kind(store, e) IN
    [kind |-> kind, updated_at |-> now,
     checksum |-> IF kind = "folder" THEN NoChecksum
                  ELSE IF e.checksum # NoChecksum THEN e.checksum
                  ELSE Hash(disk, FinalPath(e))]

\* Variant: the row is removed without a trace in the archive.
RemoveUnarchived(store, path, now) == [store EXCEPT !.rows[path] = NoRow]

\* archive_resource with reason "delete", and the row is removed.
Remove(store, path, now) == [store EXCEPT !.rows[path] = NoRow, !.deleted_at[path] = now]

\* Variant: the row of the source stays.
MoveKeepingSource(store, disk, e, now) ==
    [store EXCEPT !.rows[FinalPath(e)] = NewRow(store, disk, e, now)]

\* The row of the source gets the path of the destination, whose own row is
\* archived as "move"; a row is inserted if the source has none.
Move(store, disk, e, now) ==
    [store EXCEPT !.rows[e.source]     = NoRow,
                  !.rows[FinalPath(e)] = NewRow(store, disk, e, now)]

\* Variant: an edit updates the row and inserts none.
ApplyEditInPlace(store, disk, e, now) ==
    CASE e.kind = "Deleted" -> IF store.rows[e.source] = NoRow THEN store
                               ELSE Remove(store, e.source, now)
      [] e.kind = "Moved"   -> Move(store, disk, e, now)
      [] e.kind = "Edited" /\ store.rows[FinalPath(e)] = NoRow -> store
      [] OTHER -> [store EXCEPT !.rows[FinalPath(e)] = NewRow(store, disk, e, now)]

apply_event(store, disk, e, now) ==
    CASE e.kind = "Deleted" -> IF store.rows[e.source] = NoRow THEN store
                               ELSE Remove(store, e.source, now)
      [] e.kind = "Moved"   -> Move(store, disk, e, now)
      [] OTHER -> [store EXCEPT !.rows[FinalPath(e)] = NewRow(store, disk, e, now)]

-----------------------------------------------------------------------------
(* build_manifest *)

Recorded(time) == [scanned |-> FALSE, time |-> time]
Scanned(time)  == [scanned |-> TRUE, time |-> time]

\* Variant: the disk is not asked whether the file is still there.
ReportedAll(store, disk) == {path \in Path : store.rows[path] # NoRow}

\* The rows that the manifest reports: those of files only if file_size finds
\* something on the disk.
Reported(store, disk) ==
    {path \in Path : /\ store.rows[path] # NoRow
                     /\ store.rows[path].kind = "file" => disk[path] # Missing}

\* scan_data_dir adds what is on the disk and not reported.
build_manifest(store, disk, mtime) ==
    LET reported == Reported(store, disk)
        found    == {path \in Path : disk[path] # Missing} \ reported
    IN [resources |->
           [path \in reported \cup found |->
               IF path \in reported
               THEN [kind       |-> store.rows[path].kind,
                     checksum   |-> store.rows[path].checksum,
                     updated_at |-> Recorded(store.rows[path].updated_at)]
               ELSE [kind       |-> IF disk[path] = Dir THEN "folder" ELSE "file",
                     checksum   |-> Hash(disk, path),
                     updated_at |-> Scanned(mtime[path])]],
        tombstones |->
           [path \in {q \in Path : store.rows[q] = NoRow /\ store.deleted_at[q] > 0} |->
               Recorded(store.deleted_at[path])]]

\* The scan fails after the paths in seen: the error is logged, and the manifest has
\* what was found.
manifest_of_failed_scan(store, disk, mtime, seen) ==
    LET visible == [path \in Path |->
                       IF path \in seen \/ store.rows[path] # NoRow THEN disk[path]
                                                                   ELSE Missing]
    IN build_manifest(store, visible, mtime)
=============================================================================
