---------------------------- MODULE ManifestDiff ----------------------------
(***************************************************************************)
(* The comparison of two manifests in sync.rs, as operators.  A manifest   *)
(* has a function from the live paths to their entries and one from the    *)
(* deleted paths to the time of the deletion.                              *)
(*                                                                         *)
(* Timestamps are compared as strings.  One of the database is a date, one *)
(* of a scan of the data directory is a number of nanoseconds: the digits  *)
(* of such a number sort before those of any date (until the year 2034),   *)
(* so a stamp is its origin and a time.                                    *)
(***************************************************************************)
EXTENDS Integers

CONSTANT NoChecksum     \* the checksum of an entry that is not a file's

Stamp == [scanned : BOOLEAN, time : Nat]

\* Variant: the later one includes the equal one.
NewerOrEqual(a, b) ==
    \/ b.scanned /\ ~a.scanned
    \/ a.scanned = b.scanned /\ a.time >= b.time

Newer(a, b) == \/ b.scanned /\ ~a.scanned
               \/ a.scanned = b.scanned /\ a.time > b.time

\* Variant: the tombstones are not looked at.
latest_states_live(manifest) ==
    [path \in DOMAIN manifest.resources |-> manifest.resources[path]]

\* A tombstone overrides the live entry of its path, whatever their stamps.
latest_states(manifest) ==
    [path \in DOMAIN manifest.resources \cup DOMAIN manifest.tombstones |->
        IF path \in DOMAIN manifest.tombstones
        THEN [kind |-> "deleted", checksum |-> NoChecksum,
              updated_at |-> manifest.tombstones[path]]
        ELSE manifest.resources[path]]

\* Variant: the checksums are not compared.
SameFileByKind(mine, theirs) == mine.kind = "file" /\ theirs.kind = "file"

\* Both sides report the file with the same checksum: its stamps do not matter.
SameFile(mine, theirs) ==
    /\ mine.kind = "file"
    /\ theirs.kind = "file"
    /\ theirs.checksum # NoChecksum
    /\ theirs.checksum = mine.checksum

ActionFor(kind) == CASE kind = "deleted" -> "Delete"
                     [] kind = "folder"  -> "CreateDir"
                     [] OTHER            -> "Pull"

\* What the local node should do.
diff_manifests(local, remote) ==
    LET mine   == latest_states(local)
        theirs == latest_states(remote)
        Outdated(path) ==
            path \in DOMAIN mine =>
                /\ ~SameFile(mine[path], theirs[path])
                /\ Newer(theirs[path].updated_at, mine[path].updated_at)
        Removable(path) == path \in DOMAIN mine /\ mine[path].kind # "deleted"
    IN {[path |-> path, action |-> ActionFor(theirs[path].kind)] :
           path \in {q \in DOMAIN theirs :
                        Outdated(q) /\ (theirs[q].kind = "deleted" => Removable(q))}}
=============================================================================
