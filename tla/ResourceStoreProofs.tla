------------------------- MODULE ResourceStoreProofs -------------------------
(***************************************************************************)
(* What the operators of ResourceStore and ManifestDiff preserve and       *)
(* return, for any paths and contents: the types of the tables and of a    *)
(* manifest, that two manifests are never acted upon at both ends, and     *)
(* that an event which tells what happened to the disk keeps the tables a  *)
(* description of it.                                                      *)
(***************************************************************************)
EXTENDS ResourceStore, TLAPS

(* An event leaves a store of the right type: apply_event archives, moves   *)
(* or inserts rows but never makes one that the manifest cannot report.     *)
LEMMA ApplyEventType ==
    ASSUME NEW s \in Store, NEW d \in DiskState, NEW e \in Event, NEW now \in Nat
    PROVE  apply_event(s, d, e, now) \in Store
<1>1. FinalPath(e) \in Path
  BY DEF FinalPath, Event
<1>2. NewRow(s, d, e, now) \in Row
  <2>1. resolve_resource_kind(s, e) \in {"file", "folder"}
    BY DEF resolve_resource_kind, Store, Row, Event
  <2>2. Hash(d, FinalPath(e)) \in Checksum \cup {NoChecksum}
    BY <1>1 DEF Hash, DiskState
  <2> QED
    BY <2>1, <2>2 DEF NewRow, Row, Event
<1>3. Remove(s, e.source, now) \in Store
  BY DEF Remove, Store, Event
<1>4. Move(s, d, e, now) \in Store
  BY <1>1, <1>2 DEF Move, Store, Event
<1>5. [s EXCEPT !.rows[FinalPath(e)] = NewRow(s, d, e, now)] \in Store
  BY <1>1, <1>2 DEF Store
<1> QED
  BY <1>3, <1>4, <1>5 DEF apply_event

(* A manifest speaks of paths only, and its stamps have numbers for times.  *)
LEMMA ManifestType ==
    ASSUME NEW s \in Store, NEW d \in DiskState, NEW mtime \in [Path -> Nat]
    PROVE  LET m == build_manifest(s, d, mtime)
               states == latest_states(m)
           IN /\ DOMAIN m.resources \subseteq Path
              /\ DOMAIN m.tombstones \subseteq Path
              /\ \A path \in DOMAIN states : states[path].updated_at.time \in Nat
<1> DEFINE m == build_manifest(s, d, mtime)
           states == latest_states(m)
<1>1. /\ DOMAIN m.resources \subseteq Path
      /\ DOMAIN m.tombstones \subseteq Path
  BY DEF build_manifest, Reported
<1>2. \A path \in DOMAIN m.tombstones : m.tombstones[path].time \in Nat
  BY DEF build_manifest, Recorded, Store
<1>3. \A path \in DOMAIN m.resources : m.resources[path].updated_at.time \in Nat
  BY DEF build_manifest, Reported, Recorded, Scanned, Store, Row
<1>4. \A path \in DOMAIN states : states[path].updated_at.time \in Nat
  BY <1>2, <1>3 DEF latest_states
<1> QED
  BY <1>1, <1>4

(* Of two stamps at most one is newer than the other.                       *)
LEMMA NewerAsymmetric ==
    ASSUME NEW a, NEW b, a.time \in Nat, b.time \in Nat, Newer(a, b)
    PROVE  ~Newer(b, a)
BY DEF Newer

(* Two manifests never make both nodes act on the same path.                *)
LEMMA DiffsAreDisjoint ==
    ASSUME NEW l, NEW r,
           \A path \in DOMAIN latest_states(l) :
              latest_states(l)[path].updated_at.time \in Nat,
           \A path \in DOMAIN latest_states(r) :
              latest_states(r)[path].updated_at.time \in Nat
    PROVE  {a.path : a \in diff_manifests(l, r)} \cap {a.path : a \in diff_manifests(r, l)} = {}
<1> SUFFICES ASSUME NEW a \in diff_manifests(l, r), NEW b \in diff_manifests(r, l),
                    a.path = b.path
             PROVE  FALSE
  OBVIOUS
<1> DEFINE path == a.path
<1>1. /\ path \in DOMAIN latest_states(r)
      /\ path \in DOMAIN latest_states(l) =>
            Newer(latest_states(r)[path].updated_at, latest_states(l)[path].updated_at)
  BY DEF diff_manifests
<1>2. /\ path \in DOMAIN latest_states(l)
      /\ path \in DOMAIN latest_states(r) =>
            Newer(latest_states(l)[path].updated_at, latest_states(r)[path].updated_at)
  BY DEF diff_manifests
<1> QED
  BY <1>1, <1>2, NewerAsymmetric

-----------------------------------------------------------------------------
(* Tables that describe a disk. *)

\* The row of path is what a data directory with c there should have.
RowOf(row, c) ==
    /\ row = NoRow <=> c = Missing
    /\ c = Dir => row.kind = "folder" /\ row.checksum = NoChecksum
    /\ c \in Checksum => row.kind = "file" /\ row.checksum = c

\* The rows are those of the disk d, and the paths of gone have tombstones.
Describes(s, d, gone) ==
    /\ \A path \in Path : RowOf(s.rows[path], d[path])
    /\ \A path \in gone : d[path] = Missing /\ s.deleted_at[path] > 0

\* What the disk d is after the event e, if no path is affected but its own.
Affected(d, e) ==
    CASE e.kind \in {"Created", "Edited"} -> [d EXCEPT ![e.source] = e.checksum]
      [] e.kind = "DirCreated" -> [d EXCEPT ![e.source] = Dir]
      [] e.kind = "Deleted"    -> [d EXCEPT ![e.source] = Missing]
      [] e.kind = "Copied"     -> [d EXCEPT ![e.destination] = d[e.source]]
      [] e.kind = "Moved"      -> [d EXCEPT ![e.destination] = d[e.source], ![e.source] = Missing]

\* The event may be recorded of the disk d, and tells its checksum.
Fits(e, d) ==
    /\ e.kind \in {"Created", "Edited"} =>
          e.destination = NoPath /\ d[e.source] # Dir /\ e.checksum \in Checksum
    /\ e.kind = "DirCreated" => e.destination = NoPath /\ d[e.source] = Missing
    /\ e.kind = "Deleted"    => d[e.source] # Missing
    /\ e.kind \in {"Copied", "Moved"} =>
          /\ e.destination \in Path \ {e.source}
          /\ d[e.source] # Missing
          /\ e.checksum = Hash(d, e.source)

\* Of the paths in gone, and the one that e deletes, those that e does not create.
Forgets(e, gone, rest) ==
    rest \subseteq IF e.kind = "Deleted" THEN gone \cup {e.source} ELSE gone \ {FinalPath(e)}

\* The event tells how d became n, and why the paths in rest have no file.
Explains(e, d, gone, n, rest) ==
    e \in Event /\ Fits(e, d) /\ n = Affected(d, e) /\ Forgets(e, gone, rest)

\* The row that an event makes of a path with something on it.
LEMMA RowMade ==
    ASSUME NEW s \in Store, NEW d \in DiskState, NEW gone, Describes(s, d, gone),
           NEW e \in Event, Fits(e, d), e.kind # "Deleted", NEW x, NEW now \in Nat
    PROVE  RowOf(NewRow(s, x, e, now), Affected(d, e)[FinalPath(e)])
<1> DEFINE kind == resolve_resource_kind(s, e)
           row == NewRow(s, x, e, now)
           c == Affected(d, e)[FinalPath(e)]
<1>1. /\ e.source \in Path /\ FinalPath(e) \in Path /\ e.checksum \in Checksum \cup {NoChecksum}
      /\ e.kind \in EventKind
    BY DEF Event, FinalPath
<1>2. RowOf(s.rows[e.source], d[e.source])
    BY <1>1 DEF Describes
<1>3. d[e.source] \in Checksum \cup {Dir, Missing}
    BY <1>1 DEF DiskState
<1>4. c # Missing /\ c \in Checksum \cup {Dir} /\ (c = Dir <=> kind = "folder")
      /\ (c \in Checksum => e.checksum = c /\ kind = "file")
  <2>1. CASE e.kind \in {"Created", "Edited"}
    <3>1. FinalPath(e) = e.source /\ c = e.checksum /\ e.checksum \in Checksum
          /\ d[e.source] # Dir
        BY <1>1, <2>1 DEF Fits, FinalPath, Affected, DiskState
    <3>2. kind = "file"
        BY <1>2, <1>3, <2>1, <3>1 DEF resolve_resource_kind, RowOf
    <3> QED
        BY <3>1, <3>2, DistinctMarks
  <2>2. CASE e.kind = "DirCreated"
    <3>1. FinalPath(e) = e.source /\ c = Dir /\ d[e.source] = Missing
        BY <1>1, <2>2 DEF Fits, FinalPath, Affected, DiskState
    <3>2. kind = "folder"
        BY <1>2, <2>2, <3>1 DEF resolve_resource_kind, RowOf
    <3> QED
        BY <3>1, <3>2, DistinctMarks
  <2>3. CASE e.kind \in {"Copied", "Moved"}
    <3>1. /\ FinalPath(e) = e.destination /\ e.destination # e.source
          /\ d[e.source] # Missing /\ e.checksum = Hash(d, e.source)
        BY <1>1, <2>3, DistinctMarks DEF Fits, FinalPath
    <3>2. c = d[e.source]
        BY <1>1, <2>3, <3>1 DEF Affected, DiskState
    <3>3. kind = s.rows[e.source].kind
        BY <1>2, <3>1 DEF resolve_resource_kind, RowOf
    <3>4. c \in Checksum => e.checksum = c
        BY <3>1, <3>2 DEF Hash
    <3> QED
        BY <1>2, <1>3, <3>1, <3>2, <3>3, <3>4, DistinctMarks DEF RowOf
  <2> QED
      BY <1>1, <2>1, <2>2, <2>3 DEF EventKind
<1>5. /\ row.kind = kind
      /\ row.checksum = IF kind = "folder" THEN NoChecksum
                        ELSE IF e.checksum # NoChecksum THEN e.checksum
                        ELSE Hash(x, FinalPath(e))
    BY DEF NewRow
<1>6. row # NoRow
  <2>1. row.checksum \in Checksum \cup {NoChecksum}
      BY <1>4, <1>5, DistinctMarks
  <2>2. row = [kind |-> row.kind, checksum |-> row.checksum, updated_at |-> now]
      BY DEF NewRow
  <2>3. row.kind \in {"file", "folder"}
      BY <1>4, <1>5
  <2> HIDE DEF row
  <2>4. row \in Row
      BY <2>1, <2>2, <2>3 DEF Row
  <2> QED
      BY <2>4, NoRowIsNoRow
<1> HIDE DEF row, c, kind
<1>7. RowOf(row, c)
    BY <1>4, <1>5, <1>6, DistinctMarks DEF RowOf
<1> QED
    BY <1>7 DEF row, c

\* apply_event keeps the tables a description of the disk, whatever the disk is by the
\* time the worker gets to the event.
LEMMA DescribesStep ==
    ASSUME NEW s \in Store, NEW d \in DiskState, NEW gone \in SUBSET Path,
           Describes(s, d, gone), NEW e, NEW n, NEW rest \in SUBSET Path,
           Explains(e, d, gone, n, rest),
           NEW x, NEW now \in Nat \ {0}
    PROVE  Describes(apply_event(s, x, e, now), n, rest)
<1> DEFINE row == NewRow(s, x, e, now)
           after == apply_event(s, x, e, now)
<1>1. /\ e \in Event /\ e.source \in Path /\ FinalPath(e) \in Path /\ e.kind \in EventKind
      /\ Fits(e, d) /\ n = Affected(d, e) /\ Forgets(e, gone, rest)
    BY DEF Explains, Event, FinalPath
<1>2. \A path \in Path : RowOf(s.rows[path], d[path])
    BY DEF Describes
<1>3. \A path \in gone : d[path] = Missing /\ s.deleted_at[path] > 0
    BY DEF Describes
<1>4. CASE e.kind = "Deleted"
  <2>1. s.rows[e.source] # NoRow /\ n = [d EXCEPT ![e.source] = Missing]
      BY <1>1, <1>2, <1>4 DEF Fits, RowOf, Affected
  <2>2. after = Remove(s, e.source, now)
      BY <1>4, <2>1 DEF apply_event
  <2>3. \A path \in Path :
           /\ after.rows[path] = IF path = e.source THEN NoRow ELSE s.rows[path]
           /\ after.deleted_at[path] = IF path = e.source THEN now ELSE s.deleted_at[path]
      BY <1>1, <2>2 DEF Remove, Store
  <2>4. \A path \in Path : n[path] = IF path = e.source THEN Missing ELSE d[path]
      BY <1>1, <2>1 DEF DiskState
  <2>5. rest \subseteq gone \cup {e.source}
      BY <1>1, <1>4 DEF Forgets
  <2> HIDE DEF after
  <2>6. ASSUME NEW path \in Path PROVE RowOf(after.rows[path], n[path])
      BY <1>2, <2>3, <2>4, DistinctMarks DEF RowOf
  <2>7. ASSUME NEW path \in rest PROVE n[path] = Missing /\ after.deleted_at[path] > 0
      BY <1>3, <2>3, <2>4, <2>5
  <2>8. Describes(after, n, rest)
      BY <2>6, <2>7 DEF Describes
  <2> QED
      BY <2>8 DEF after
<1>5. CASE e.kind # "Deleted"
  <2>1. RowOf(row, n[FinalPath(e)])
      BY <1>1, <1>5, RowMade
  <2>2. rest \subseteq gone \ {FinalPath(e)}
      BY <1>1, <1>5 DEF Forgets
  <2>3. CASE e.kind = "Moved"
    <3>1. /\ e.destination # e.source /\ FinalPath(e) = e.destination
          /\ n = [d EXCEPT ![e.destination] = d[e.source], ![e.source] = Missing]
        BY <1>1, <2>3, DistinctMarks DEF Fits, FinalPath, Affected
    <3>2. after = Move(s, x, e, now)
        BY <2>3 DEF apply_event
    <3> HIDE DEF row
    <3>3. \A path \in Path :
             /\ after.rows[path] = IF path = FinalPath(e) THEN row
                                   ELSE IF path = e.source THEN NoRow ELSE s.rows[path]
             /\ after.deleted_at[path] = s.deleted_at[path]
        BY <1>1, <3>1, <3>2 DEF Move, Store, row
    <3>4. \A path \in Path : path # FinalPath(e) =>
             n[path] = IF path = e.source THEN Missing ELSE d[path]
        BY <1>1, <3>1 DEF DiskState
    <3> HIDE DEF after
    <3>5. ASSUME NEW path \in Path PROVE RowOf(after.rows[path], n[path])
      <4>1. CASE path = FinalPath(e)
          BY <2>1, <3>3, <4>1
      <4>2. CASE path # FinalPath(e)
          BY <1>2, <3>3, <3>4, <4>2, DistinctMarks DEF RowOf
      <4> QED
          BY <4>1, <4>2
    <3>6. ASSUME NEW path \in rest PROVE n[path] = Missing /\ after.deleted_at[path] > 0
        BY <1>3, <2>2, <3>3, <3>4
    <3>7. Describes(after, n, rest)
        BY <3>5, <3>6 DEF Describes
    <3> QED
        BY <3>7 DEF after
  <2>4. CASE e.kind # "Moved"
    <3>1. after = [s EXCEPT !.rows[FinalPath(e)] = row]
        BY <1>5, <2>4 DEF apply_event
    <3> HIDE DEF row
    <3>2. \A path \in Path :
             /\ after.rows[path] = IF path = FinalPath(e) THEN row ELSE s.rows[path]
             /\ after.deleted_at[path] = s.deleted_at[path]
        BY <1>1, <3>1 DEF Store
    <3>3. \A path \in Path : path # FinalPath(e) => n[path] = d[path]
      <4>1. CASE e.kind = "Copied"
          BY <1>1, <4>1, DistinctMarks DEF Fits, FinalPath, Affected, DiskState
      <4>2. CASE e.kind \in {"Created", "Edited"}
          BY <1>1, <4>2 DEF Fits, FinalPath, Affected, DiskState
      <4>3. CASE e.kind = "DirCreated"
          BY <1>1, <4>3 DEF Fits, FinalPath, Affected, DiskState
      <4> QED
          BY <1>1, <1>5, <2>4, <4>1, <4>2, <4>3 DEF EventKind
    <3> HIDE DEF after
    <3>4. ASSUME NEW path \in Path PROVE RowOf(after.rows[path], n[path])
      <4>1. CASE path = FinalPath(e)
          BY <2>1, <3>2, <4>1
      <4>2. CASE path # FinalPath(e)
          BY <1>2, <3>2, <3>3, <4>2
      <4> QED
          BY <4>1, <4>2
    <3>5. ASSUME NEW path \in rest PROVE n[path] = Missing /\ after.deleted_at[path] > 0
        BY <1>3, <2>2, <3>2, <3>3
    <3>6. Describes(after, n, rest)
        BY <3>4, <3>5 DEF Describes
    <3> QED
        BY <3>6 DEF after
  <2> QED
      BY <2>3, <2>4
<1> QED
    BY <1>4, <1>5

\* An event leaves the disk a disk.
LEMMA AffectedType ==
    ASSUME NEW d \in DiskState, NEW e \in Event, Fits(e, d)
    PROVE  Affected(d, e) \in DiskState
<1>1. e.source \in Path /\ e.kind \in EventKind
    BY DEF Event
<1>2. CASE e.kind \in {"Created", "Edited"}
    BY <1>1, <1>2 DEF Fits, Affected, DiskState
<1>3. CASE e.kind = "DirCreated"
    BY <1>1, <1>3 DEF Fits, Affected, DiskState
<1>4. CASE e.kind = "Deleted"
    BY <1>1, <1>4 DEF Fits, Affected, DiskState
<1>5. CASE e.kind = "Copied"
    BY <1>1, <1>5 DEF Fits, Affected, DiskState
<1>6. CASE e.kind = "Moved"
    BY <1>1, <1>6 DEF Fits, Affected, DiskState
<1> QED
    BY <1>1, <1>2, <1>3, <1>4, <1>5, <1>6 DEF EventKind

\* A manifest built from tables that describe the disk says what is there: each path
\* and its kind, each content, and the deletions.
LEMMA DescribedManifest ==
    ASSUME NEW s \in Store, NEW d \in DiskState, NEW gone \in SUBSET Path,
           Describes(s, d, gone), NEW mtime
    PROVE  LET m == build_manifest(s, d, mtime) IN
           /\ DOMAIN m.resources = {path \in Path : d[path] # Missing}
           /\ \A path \in DOMAIN m.resources :
                 /\ m.resources[path].kind = IF d[path] = Dir THEN "folder" ELSE "file"
                 /\ m.resources[path].checksum = Hash(d, path)
           /\ DOMAIN m.tombstones \subseteq {path \in Path : d[path] = Missing}
           /\ gone \subseteq DOMAIN m.tombstones
<1> DEFINE m == build_manifest(s, d, mtime)
           reported == Reported(s, d)
           there == {path \in Path : d[path] # Missing}
<1>1. \A path \in Path : RowOf(s.rows[path], d[path]) /\ d[path] \in Checksum \cup {Dir, Missing}
    BY DEF Describes, DiskState
<1>2. reported = there
    BY <1>1 DEF Reported, RowOf
<1>3. DOMAIN m.resources = reported \cup (there \ reported)
    BY DEF build_manifest
<1>4. DOMAIN m.tombstones = {q \in Path : s.rows[q] = NoRow /\ s.deleted_at[q] > 0}
    BY DEF build_manifest
<1>5. ASSUME NEW path \in reported
      PROVE  /\ m.resources[path].kind = s.rows[path].kind
             /\ m.resources[path].checksum = s.rows[path].checksum
    BY <1>5 DEF build_manifest
<1> HIDE DEF m, reported
<1>6. DOMAIN m.resources = there
    BY <1>2, <1>3
<1>7. ASSUME NEW path \in there
      PROVE  /\ m.resources[path].kind = IF d[path] = Dir THEN "folder" ELSE "file"
             /\ m.resources[path].checksum = Hash(d, path)
    BY <1>1, <1>2, <1>5, DistinctMarks DEF RowOf, Hash
<1>8. DOMAIN m.tombstones \subseteq {path \in Path : d[path] = Missing}
    BY <1>1, <1>4 DEF RowOf
<1>9. gone \subseteq DOMAIN m.tombstones
    BY <1>1, <1>4 DEF RowOf, Describes
<1> QED
    BY <1>6, <1>7, <1>8, <1>9 DEF m

\* Whatever the tables say, a manifest offers no file that is not there, and leaves out
\* nothing that is.
LEMMA OffersWhatExists ==
    ASSUME NEW s, NEW d, NEW mtime, NEW path \in Path
    PROVE  LET m == build_manifest(s, d, mtime) IN
           /\ (path \in DOMAIN m.resources /\ m.resources[path].kind = "file")
                 => d[path] # Missing
           /\ d[path] # Missing => path \in DOMAIN m.resources
<1> DEFINE m == build_manifest(s, d, mtime)
           reported == Reported(s, d)
<1>1. DOMAIN m.resources = reported \cup ({q \in Path : d[q] # Missing} \ reported)
    BY DEF build_manifest
<1>2. path \in reported => m.resources[path].kind = s.rows[path].kind
    BY DEF build_manifest
<1>3. path \in reported /\ s.rows[path].kind = "file" => d[path] # Missing
    BY DEF Reported
<1> HIDE DEF m, reported
<1>4. /\ (path \in DOMAIN m.resources /\ m.resources[path].kind = "file") => d[path] # Missing
      /\ d[path] # Missing => path \in DOMAIN m.resources
    BY <1>1, <1>2, <1>3
<1> QED
    BY <1>4 DEF m

\* A scan that fails misses nothing that the tables do not already say.
LEMMA FailedScan ==
    ASSUME NEW s, NEW d \in DiskState, NEW gone, Describes(s, d, gone), NEW mtime, NEW seen
    PROVE  manifest_of_failed_scan(s, d, mtime, seen) = build_manifest(s, d, mtime)
<1> DEFINE visible == [path \in Path |->
                          IF path \in seen \/ s.rows[path] # NoRow THEN d[path] ELSE Missing]
<1>1. \A path \in Path : visible[path] = d[path]
    BY DEF Describes, RowOf
<1>2. visible = d
    BY <1>1 DEF DiskState
<1> QED
    BY <1>2 DEF manifest_of_failed_scan
=============================================================================
