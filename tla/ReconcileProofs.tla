--------------------------- MODULE ReconcileProofs ---------------------------
(***************************************************************************)
(* Proofs about Reconcile, for any number of paths and contents: the types; *)
(* that two nodes never act on the same path from each other's manifests,  *)
(* which rests on the types only through the stamps (that the times in the *)
(* tables are numbers makes Newer asymmetric); that a file is the same on  *)
(* two nodes that leave it alone; and that two nodes end with what a       *)
(* client made last.                                                       *)
(***************************************************************************)
EXTENDS Reconcile, ResourceStoreProofs

(* Empty disks and empty tables have their types.                         *)
LEMMA InitType == Init => TypeOK
<1> SUFFICES ASSUME Init
             PROVE  TypeOK
  OBVIOUS
<1>1. Agreed \in DiskState
  BY ParametersAssumption DEF Agreed, DiskState
<1>2. store \in [Node -> Store]
  BY ParametersAssumption DEF Init, EmptyStore, Store, Row
<1> QED
  BY <1>1, <1>2, ParametersAssumption DEF Init, TypeOK

(* The events of the model are events of the database.                     *)
LEMMA EnvelopeType ==
    ASSUME NEW kind \in EventKind, NEW source \in Path,
           NEW destination \in Path \cup {NoPath}, NEW checksum \in Checksum \cup {NoChecksum}
    PROVE  Envelope(kind, source, destination, checksum) \in Event
BY DEF Envelope, Event

LEMMA OnType ==
    ASSUME NEW kind \in EventKind, NEW path \in Path, NEW c
    PROVE  On(kind, path, c) \in Event
BY EnvelopeType DEF On

(* A disk and its record, changed together, keep their types.               *)
LEMMA RecordType ==
    ASSUME TypeOK, NEW n \in Node, NEW d \in DiskState, NEW e \in Event, Record(n, d, e)
    PROVE  disk' \in [Node -> DiskState] /\ store' \in [Node -> Store]
<1>1. clock \in Nat
  BY ParametersAssumption DEF TypeOK
<1>2. apply_event(store[n], d, e, clock) \in Store
  BY <1>1, ApplyEventType DEF TypeOK
<1> QED
  BY <1>2 DEF TypeOK, Record

LEMMA ApplyType ==
    ASSUME TypeOK, NEW n \in Node, NEW kind \in EventKind, NEW path \in Path,
           NEW c \in Checksum \cup {Dir, Missing}, Apply(n, kind, path, c)
    PROVE  disk' \in [Node -> DiskState] /\ store' \in [Node -> Store]
<1>1. [disk[n] EXCEPT ![path] = c] \in DiskState
  BY DEF TypeOK, DiskState
<1> QED
  BY <1>1, OnType, RecordType DEF Apply

(* A move or copy of a file between two paths leaves a disk.                *)
LEMMA TransferredType ==
    ASSUME NEW d \in DiskState, NEW kind, NEW source \in Path, NEW destination \in Path,
           NEW c \in Checksum \cup {Dir, Missing}
    PROVE  Transferred(d, kind, source, destination, c) \in DiskState
BY DEF Transferred, DiskState

(* The store after a manifest was acted on is a store.                      *)
LEMMA RecordingType ==
    ASSUME TypeOK, NEW n \in Node, NEW d \in DiskState, NEW deleted, NEW created
    PROVE  Recording(n, d, deleted, created) \in Store
<1> DEFINE after(path) ==
            IF path \in deleted
            THEN apply_event(store[n], d, On("Deleted", path, Missing), clock)
            ELSE IF path \in created
                 THEN apply_event(store[n], d, On("DirCreated", path, Dir), clock)
                 ELSE store[n]
<1>1. clock \in Nat /\ store[n] \in Store
  BY ParametersAssumption DEF TypeOK
<1>2. ASSUME NEW path \in Path, NEW kind \in EventKind, NEW c
      PROVE  apply_event(store[n], d, On(kind, path, c), clock) \in Store
  BY <1>1, OnType, ApplyEventType
<1>3. \A path \in Path : after(path) \in Store
  <2> TAKE path \in Path
  <2>1. /\ apply_event(store[n], d, On("Deleted", path, Missing), clock) \in Store
        /\ apply_event(store[n], d, On("DirCreated", path, Dir), clock) \in Store
    BY <1>2 DEF EventKind
  <2> QED
    BY <1>1, <2>1
<1>4. \A path \in Path : /\ after(path).rows[path] \in Row \cup {NoRow}
                         /\ after(path).deleted_at[path] \in Nat
  BY <1>3 DEF Store
<1>5. Recording(n, d, deleted, created) =
         [rows       |-> [path \in Path |-> after(path).rows[path]],
          deleted_at |-> [path \in Path |-> after(path).deleted_at[path]]]
  BY DEF Recording
<1> HIDE DEF after
<1> QED
  BY <1>4, <1>5 DEF Store

(* Every accepted pull is one of the node's with a path, still unfetched.   *)
LEMMA AcceptedType ==
    ASSUME NEW n \in Node, NEW m \in Node, NEW paths \in SUBSET Path
    PROVE  Accepted(n, m, paths) \subseteq
              [node : Node, peer : Node, path : Path, content : Checksum \cup {NoChecksum}]
BY DEF Accepted

(* The actions on a manifest are about its paths.                           *)
LEMMA ActionPaths ==
    ASSUME TypeOK, NEW x \in manifests, NEW mine, NEW kind
    PROVE  Of(diff_manifests(mine, x.manifest), kind) \in SUBSET Path
<1>1. DOMAIN latest_states(x.manifest) \subseteq Path
  BY DEF TypeOK, latest_states
<1>2. \A a \in diff_manifests(mine, x.manifest) : a.path \in Path
  BY <1>1 DEF diff_manifests
<1> QED
  BY <1>2 DEF Of

(* A tick of the clock stays within its bound.                              *)
LEMMA StampedType ==
    ASSUME TypeOK, Stamped
    PROVE  clock' \in 1..MAX_CLOCK
BY ParametersAssumption DEF TypeOK, Stamped

(* What every change of a client does besides the change itself.          *)
LEMMA ChangeType ==
    ASSUME TypeOK, NEW n \in Node, NEW e \in Event, NEW reached \in SUBSET (Node \ {n}),
           Change(n, e, reached)
    PROVE  /\ clock' \in 1..MAX_CLOCK
           /\ events' \subseteq [from : Node, to : Node, event : Event, change : 1..MAX_WRITES]
           /\ moved' \subseteq Path
           /\ circumstances' \subseteq Circumstance
           /\ writes' \in 0..MAX_WRITES
           /\ UNCHANGED <<manifests, pulls>>
<1>1. clock' \in 1..MAX_CLOCK
  BY StampedType DEF Change
<1>2. writes + 1 \in 1..MAX_WRITES
  BY ParametersAssumption DEF Change, TypeOK
<1>3. events' \subseteq [from : Node, to : Node, event : Event, change : 1..MAX_WRITES]
  BY <1>2 DEF Change, TypeOK
<1>4. moved' \subseteq Path
  BY DEF Change, TypeOK, Event
<1>5. circumstances' \subseteq Circumstance
  BY DEF Change, TypeOK, Circumstance
<1> QED
  BY <1>1, <1>2, <1>3, <1>4, <1>5, ParametersAssumption DEF Change

(* A client's write, and the announcements it sends.                      *)
LEMMA WriteType ==
    ASSUME TypeOK, NEW n \in Node, NEW path \in Path, NEW c \in Checksum \cup {Dir, Missing},
           NEW reached \in SUBSET (Node \ {n}), Write(n, path, c, reached)
    PROVE  TypeOK'
<1>1. KindOf(n, path, c) \in EventKind
  BY DEF KindOf, EventKind
<1>2. disk' \in [Node -> DiskState] /\ store' \in [Node -> Store]
  BY <1>1, ApplyType DEF Write
<1>3. Change(n, On(KindOf(n, path, c), path, c), reached)
  BY DEF Write
<1>4. latest' \in DiskState
  BY DEF Write, TypeOK, DiskState
<1>5. On(KindOf(n, path, c), path, c) \in Event
  BY <1>1, OnType
<1> HIDE DEF Write
<1> QED
  BY <1>2, <1>3, <1>4, <1>5, ChangeType DEF TypeOK

(* A client's move or copy.                                               *)
LEMMA TransferType ==
    ASSUME TypeOK, NEW n \in Node, NEW kind \in {"Moved", "Copied"}, NEW source \in Path,
           NEW destination \in Path, NEW reached \in SUBSET (Node \ {n}),
           Transfer(n, kind, source, destination, reached)
    PROVE  TypeOK'
<1> DEFINE c == disk[n][source]
           e == Envelope(kind, source, destination, c)
           d == Transferred(disk[n], kind, source, destination, c)
<1>1. /\ c \in Checksum
      /\ Change(n, e, reached)
      /\ Record(n, d, e)
      /\ latest' = Transferred(latest, kind, source, destination, c)
  BY DEF Transfer
<1>2. e \in Event
  BY <1>1, EnvelopeType DEF EventKind
<1>3. disk[n] \in DiskState /\ latest \in DiskState
  BY DEF TypeOK
<1>4. d \in DiskState /\ latest' \in DiskState
  BY <1>1, <1>3, TransferredType
<1> HIDE DEF c, e, d
<1>5. disk' \in [Node -> DiskState] /\ store' \in [Node -> Store]
  BY <1>1, <1>2, <1>4, RecordType
<1> QED
  BY <1>1, <1>2, <1>4, <1>5, ChangeType DEF TypeOK

(* A manifest that is sent has the form of ManifestType.                  *)
LEMMA SendManifestType ==
    ASSUME TypeOK, NEW m \in Node, NEW n \in Node, SendManifest(m, n)
    PROVE  TypeOK'
<1>1. /\ DOMAIN Manifest(m).resources \subseteq Path
      /\ DOMAIN Manifest(m).tombstones \subseteq Path
  BY ManifestType DEF Manifest, TypeOK
<1>2. \A x \in manifests' : /\ x.from \in Node /\ x.to \in Node \ {x.from}
                            /\ DOMAIN x.manifest.resources \subseteq Path
                            /\ DOMAIN x.manifest.tombstones \subseteq Path
  BY <1>1 DEF SendManifest, TypeOK
<1> QED
  BY <1>2 DEF TypeOK, SendManifest, history

(* A peer serves contents of files only.                                  *)
LEMMA FetchType ==
    ASSUME TypeOK, NEW w \in pulls, Fetch(w)
    PROVE  TypeOK'
BY DEF TypeOK, Fetch, history

(* An installed pull is a change like a client's.                         *)
LEMMA InstallType ==
    ASSUME TypeOK, NEW w \in pulls, Install(w)
    PROVE  TypeOK'
<1>1. w.node \in Node /\ w.path \in Path
  BY DEF TypeOK
<1>2. disk' \in [Node -> DiskState] /\ store' \in [Node -> Store]
  BY <1>1, ApplyType DEF Install, EventKind
<1>3. clock' \in 1..MAX_CLOCK
  BY StampedType DEF Install
<1> QED
  BY <1>2, <1>3 DEF TypeOK, Install, history

(* The files and rows that a manifest removes or creates, and the new pulls. *)
LEMMA HandleManifestType ==
    ASSUME TypeOK, NEW x \in manifests, HandleManifest(x)
    PROVE  TypeOK'
<1> DEFINE n       == x.to
           actions == diff_manifests(Manifest(n), x.manifest)
           deleted == Of(actions, "Delete")
           created == Of(actions, "CreateDir")
           pulled  == Of(actions, "Pull")
           d       == [path \in Path |-> CASE path \in deleted -> Missing
                                           [] path \in created -> Dir
                                           [] OTHER -> disk[n][path]]
<1>1. n \in Node /\ x.from \in Node
  BY DEF TypeOK
<1>2. Accepted(n, x.from, pulled) \subseteq
         [node : Node, peer : Node, path : Path, content : Checksum \cup {NoChecksum}]
  BY <1>1, ActionPaths, AcceptedType
<1>3. d \in DiskState
  BY <1>1 DEF TypeOK, DiskState
<1>4. Recording(n, d, deleted, created) \in Store
  BY <1>1, <1>3, RecordingType
<1>5. /\ manifests' = manifests \ {x}
      /\ \/ UNCHANGED <<disk, store, clock>>
         \/ /\ Stamped
            /\ disk' = [disk EXCEPT ![n] = d]
            /\ store' = [store EXCEPT ![n] = Recording(n, d, deleted, created)]
      /\ pulls' = pulls \cup Accepted(n, x.from, pulled)
      /\ circumstances' = circumstances \cup
                             (IF moved \cap pulled # {} THEN {"offered"} ELSE {})
      /\ UNCHANGED <<events, latest, moved, writes>>
  BY DEF HandleManifest
<1> HIDE DEF n, actions, deleted, created, pulled, d
<1>6. /\ disk' \in [Node -> DiskState]
      /\ store' \in [Node -> Store]
      /\ clock' \in 1..MAX_CLOCK
  <2>1. CASE UNCHANGED <<disk, store, clock>>
    BY <2>1 DEF TypeOK
  <2>2. CASE /\ Stamped
             /\ disk' = [disk EXCEPT ![n] = d]
             /\ store' = [store EXCEPT ![n] = Recording(n, d, deleted, created)]
    BY <2>2, <1>1, <1>3, <1>4, StampedType DEF TypeOK
  <2> QED
    BY <1>5, <2>1, <2>2
<1>7. circumstances' \subseteq Circumstance
  BY <1>5 DEF TypeOK, Circumstance
<1>8. manifests' \subseteq manifests
  BY <1>5
<1> QED
  BY <1>2, <1>5, <1>6, <1>7, <1>8 DEF TypeOK

(* An announcement removes a path, makes a directory, moves or copies a file, *)
(* or starts a pull.                                                      *)
LEMMA HandleEventType ==
    ASSUME TypeOK, NEW v \in events, HandleEvent(v)
    PROVE  TypeOK'
<1> DEFINE n == v.to
           e == v.event
<1>1. /\ n \in Node /\ v.from \in Node
      /\ e \in Event /\ e.kind \in EventKind /\ e.source \in Path /\ FinalPath(e) \in Path
  BY DEF TypeOK, Event, FinalPath
<1>2. events' \subseteq events /\ UNCHANGED <<manifests, latest, moved, writes>>
  BY DEF HandleEvent
<1>3. CASE /\ Stamped
           /\ Apply(n, e.kind, e.source, IF e.kind = "Deleted" THEN Missing ELSE Dir)
           /\ UNCHANGED <<pulls, circumstances>>
  <2>1. disk' \in [Node -> DiskState] /\ store' \in [Node -> Store]
    BY <1>1, <1>3, ApplyType
  <2> QED
    BY <1>2, <1>3, <2>1, StampedType DEF TypeOK
<1>4. CASE /\ e.kind \in {"Moved", "Copied"} /\ disk[n][e.source] # Missing
           /\ Stamped
           /\ Record(n, Transferred(disk[n], e.kind, e.source, FinalPath(e), disk[n][e.source]), e)
           /\ circumstances' = circumstances \cup
                                  (IF disk[n][e.source] # e.checksum THEN {"unequal"} ELSE {})
           /\ UNCHANGED pulls
  <2>1. disk[n] \in DiskState /\ disk[n][e.source] \in Checksum \cup {Dir, Missing}
    BY <1>1 DEF TypeOK, DiskState
  <2>2. Transferred(disk[n], e.kind, e.source, FinalPath(e), disk[n][e.source]) \in DiskState
    BY <1>1, <2>1, TransferredType
  <2>3. disk' \in [Node -> DiskState] /\ store' \in [Node -> Store]
    BY <1>1, <1>4, <2>2, RecordType
  <2>4. circumstances' \subseteq Circumstance
    BY <1>4 DEF TypeOK, Circumstance
  <2> QED
    BY <1>2, <1>4, <2>3, <2>4, StampedType DEF TypeOK
<1>5. CASE /\ pulls' = pulls \cup Accepted(n, v.from, {FinalPath(e)})
           /\ UNCHANGED <<disk, store, clock, circumstances>>
  <2>1. Accepted(n, v.from, {FinalPath(e)}) \subseteq
           [node : Node, peer : Node, path : Path, content : Checksum \cup {NoChecksum}]
    BY <1>1, AcceptedType
  <2> QED
    BY <1>2, <1>5, <2>1 DEF TypeOK
<1> QED
  BY <1>3, <1>4, <1>5 DEF HandleEvent

(* Every step keeps the types.                                            *)
LEMMA NextType == TypeOK /\ [Next]_vars => TypeOK'
<1> SUFFICES ASSUME TypeOK, [Next]_vars
             PROVE  TypeOK'
  OBVIOUS
<1>1. ASSUME NEW n \in Node, NEW path \in Path, NEW c \in Checksum \cup {Dir, Missing},
             NEW reached \in SUBSET (Node \ {n}), Write(n, path, c, reached)
      PROVE  TypeOK'
  BY <1>1, WriteType
<1>2. ASSUME NEW n \in Node, NEW kind \in {"Moved", "Copied"}, NEW source \in Path,
             NEW destination \in Path, NEW reached \in SUBSET (Node \ {n}),
             Transfer(n, kind, source, destination, reached)
      PROVE  TypeOK'
  BY <1>2, TransferType
<1>3. ASSUME NEW m \in Node, NEW n \in Node, SendManifest(m, n)
      PROVE  TypeOK'
  BY <1>3, SendManifestType
<1>4. ASSUME NEW x \in manifests, HandleManifest(x)
      PROVE  TypeOK'
  BY <1>4, HandleManifestType
<1>5. ASSUME NEW v \in events, HandleEvent(v)
      PROVE  TypeOK'
  BY <1>5, HandleEventType
<1>6. ASSUME NEW w \in pulls, Fetch(w) \/ Install(w)
      PROVE  TypeOK'
  BY <1>6, FetchType, InstallType
<1>7. CASE UNCHANGED vars
  BY <1>7 DEF TypeOK, vars, net, history
<1> QED
  BY <1>1, <1>2, <1>3, <1>4, <1>5, <1>6, <1>7 DEF Next

(* Disks, tables and what is on its way between the nodes have their types. *)
THEOREM TypeCorrect == Spec => []TypeOK
<1> QED
  BY InitType, NextType, PTL DEF Spec

(* What two nodes hold never makes both of them act on the same path.       *)
LEMMA TypedNodesDoNotCross == TypeOK => NoCrossing
<1> SUFFICES ASSUME TypeOK, NEW n \in Node, NEW m \in Node, n # m
             PROVE  {a.path : a \in diff_manifests(Manifest(n), Manifest(m))}
                    \cap {a.path : a \in diff_manifests(Manifest(m), Manifest(n))} = {}
  BY DEF NoCrossing
<1>1. \A path \in DOMAIN latest_states(Manifest(n)) :
         latest_states(Manifest(n))[path].updated_at.time \in Nat
  BY ManifestType DEF Manifest, TypeOK
<1>2. \A path \in DOMAIN latest_states(Manifest(m)) :
         latest_states(Manifest(m))[path].updated_at.time \in Nat
  BY ManifestType DEF Manifest, TypeOK
<1> QED
  BY <1>1, <1>2, DiffsAreDisjoint

(* Whatever clients, announcements and installed pulls have done to their   *)
(* tables, and with changes of the same second, two nodes that compare      *)
(* manifests never pull a file in both directions, nor delete at one end    *)
(* what the other end pulls.                                                *)
THEOREM NodesNeverCross == Spec => []NoCrossing
<1> QED
  BY TypeCorrect, TypedNodesDoNotCross, PTL
-----------------------------------------------------------------------------

(* A row with a checksum is that of a file on the disk with this content.   *)
TrueRows(s, d) ==
    \A path \in Path : s.rows[path] # NoRow /\ s.rows[path].checksum # NoChecksum =>
        d[path] = s.rows[path].checksum

(* The invariant: as long as no node moved or copied an old content.        *)
RowsAreTrue ==
    "unequal" \notin circumstances => \A n \in Node : TrueRows(store[n], disk[n])

(* An event that says of a path what the disk has there keeps the rows true. *)
LEMMA TrueAfterChange ==
    ASSUME NEW s \in Store, NEW d \in DiskState, TrueRows(s, d), NEW kind \in EventKind,
           NEW path \in Path, NEW c \in Checksum \cup {Dir, Missing}, NEW now \in Nat,
           kind = "Deleted" <=> c = Missing, kind # "Moved"
    PROVE  LET after == [d EXCEPT ![path] = c]
           IN  TrueRows(apply_event(s, after, On(kind, path, c), now), after)
<1> DEFINE after == [d EXCEPT ![path] = c]
           e == On(kind, path, c)
<1>1. /\ e.kind = kind /\ e.source = path /\ FinalPath(e) = path
      /\ e.checksum = IF c \in Checksum THEN c ELSE NoChecksum
  BY DEF On, Envelope, FinalPath
<1>2. after[path] = c /\ \A q \in Path \ {path} : after[q] = d[q]
  BY DEF DiskState
<1>3. CASE c = Missing
  <2>1. apply_event(s, after, e, now).rows[path] = NoRow
    BY <1>1, <1>3 DEF apply_event, Remove, Store
  <2>2. \A q \in Path \ {path} : apply_event(s, after, e, now).rows[q] = s.rows[q]
    BY <1>1, <1>3 DEF apply_event, Remove, Store
  <2> QED
    BY <2>1, <2>2, <1>2 DEF TrueRows
<1>4. CASE c # Missing
  <2>1. apply_event(s, after, e, now) = [s EXCEPT !.rows[path] = NewRow(s, after, e, now)]
    BY <1>1, <1>4 DEF apply_event
  <2>2. NewRow(s, after, e, now).checksum \in {NoChecksum, c}
    <3>1. Hash(after, path) = IF c \in Checksum THEN c ELSE NoChecksum
      BY <1>2 DEF Hash
    <3> QED
      BY <1>1, <3>1, DistinctMarks DEF NewRow
  <2>3. /\ apply_event(s, after, e, now).rows[path] = NewRow(s, after, e, now)
        /\ \A q \in Path \ {path} : apply_event(s, after, e, now).rows[q] = s.rows[q]
    BY <2>1 DEF Store
  <2> QED
    BY <2>2, <2>3, <1>2 DEF TrueRows
<1> QED
  BY <1>3, <1>4

(* So does a move or copy of the content that the event announces.          *)
LEMMA TrueAfterTransfer ==
    ASSUME NEW s \in Store, NEW d \in DiskState, TrueRows(s, d), NEW e \in Event, NEW now \in Nat,
           e.kind \in {"Moved", "Copied"}, d[e.source] = e.checksum
    PROVE  LET after == Transferred(d, e.kind, e.source, FinalPath(e), e.checksum)
           IN  TrueRows(apply_event(s, after, e, now), after)
<1> DEFINE after == Transferred(d, e.kind, e.source, FinalPath(e), e.checksum)
           row   == NewRow(s, after, e, now)
<1>1. e.source \in Path /\ FinalPath(e) \in Path
  BY DEF Event, FinalPath
<1>2. after[FinalPath(e)] = e.checksum
  BY <1>1 DEF Transferred, DiskState
<1>3. row.checksum \in {NoChecksum, e.checksum}
  BY <1>2 DEF NewRow, Hash
<1>4. \A q \in Path \ {e.source, FinalPath(e)} : after[q] = d[q]
  BY DEF Transferred, DiskState
<1> HIDE DEF row
<1>5. CASE e.kind = "Moved"
  <2>1. apply_event(s, after, e, now) = Move(s, after, e, now)
    BY <1>5 DEF apply_event
  <2>2. /\ Move(s, after, e, now).rows[FinalPath(e)] = row
        /\ e.source # FinalPath(e) => Move(s, after, e, now).rows[e.source] = NoRow
        /\ \A q \in Path \ {e.source, FinalPath(e)} : Move(s, after, e, now).rows[q] = s.rows[q]
    BY <1>1 DEF Move, Store, row
  <2> QED
    BY <2>1, <2>2, <1>2, <1>3, <1>4 DEF TrueRows
<1>6. CASE e.kind = "Copied"
  <2>1. apply_event(s, after, e, now) = [s EXCEPT !.rows[FinalPath(e)] = row]
    BY <1>6 DEF apply_event, row
  <2>2. /\ [s EXCEPT !.rows[FinalPath(e)] = row].rows[FinalPath(e)] = row
        /\ \A q \in Path \ {FinalPath(e)} : [s EXCEPT !.rows[FinalPath(e)] = row].rows[q] = s.rows[q]
    BY <1>1 DEF Store
  <2>3. \A q \in Path \ {FinalPath(e)} : after[q] = d[q]
    BY <1>1, <1>6 DEF Transferred, DiskState
  <2> QED
    BY <2>1, <2>2, <2>3, <1>2, <1>3 DEF TrueRows
<1> QED
  BY <1>5, <1>6

(* The rows are true after a change of one node that keeps them true.       *)
LEMMA TrueAfterRecord ==
    ASSUME TypeOK, RowsAreTrue, NEW n \in Node, NEW d, NEW e, Record(n, d, e),
           circumstances \subseteq circumstances',
           "unequal" \notin circumstances' /\ TrueRows(store[n], disk[n]) =>
               TrueRows(apply_event(store[n], d, e, clock), d)
    PROVE  RowsAreTrue'
<1> SUFFICES ASSUME "unequal" \notin circumstances', NEW m \in Node
             PROVE  TrueRows(store[m], disk[m])'
  BY DEF RowsAreTrue
<1>1. TrueRows(store[m], disk[m])
  BY DEF RowsAreTrue
<1>2. CASE m = n
  <2>1. store'[m] = apply_event(store[n], d, e, clock) /\ disk'[m] = d
    BY <1>2 DEF Record, TypeOK
  <2> QED
    BY <1>1, <1>2, <2>1 DEF TrueRows
<1>3. CASE m # n
  BY <1>1, <1>3 DEF Record, TypeOK, TrueRows
<1> QED
  BY <1>2, <1>3

LEMMA TrueAfterApply ==
    ASSUME TypeOK, RowsAreTrue, NEW n \in Node, NEW kind \in EventKind, NEW path \in Path,
           NEW c \in Checksum \cup {Dir, Missing}, Apply(n, kind, path, c),
           circumstances \subseteq circumstances', kind = "Deleted" <=> c = Missing, kind # "Moved"
    PROVE  RowsAreTrue'
<1> DEFINE d == [disk[n] EXCEPT ![path] = c]
<1>1. store[n] \in Store /\ disk[n] \in DiskState /\ clock \in Nat
  BY ParametersAssumption DEF TypeOK
<1>2. TrueRows(store[n], disk[n]) => TrueRows(apply_event(store[n], d, On(kind, path, c), clock), d)
  BY <1>1, TrueAfterChange
<1>3. Record(n, d, On(kind, path, c))
  BY DEF Apply
<1> QED
  BY <1>2, <1>3, TrueAfterRecord

(* A client's write.                                                      *)
LEMMA WriteTrue ==
    ASSUME TypeOK, RowsAreTrue, NEW n \in Node, NEW path \in Path,
           NEW c \in Checksum \cup {Dir, Missing}, NEW reached, Write(n, path, c, reached)
    PROVE  RowsAreTrue'
<1>1. /\ KindOf(n, path, c) \in EventKind
      /\ KindOf(n, path, c) = "Deleted" <=> c = Missing
      /\ KindOf(n, path, c) # "Moved"
  BY DistinctMarks DEF KindOf, EventKind
<1>2. Apply(n, KindOf(n, path, c), path, c) /\ circumstances \subseteq circumstances'
  BY DEF Write, Change
<1> QED
  BY <1>1, <1>2, TrueAfterApply

(* A client's move or copy announces the content that it moves.           *)
LEMMA TransferTrue ==
    ASSUME TypeOK, RowsAreTrue, NEW n \in Node, NEW kind \in {"Moved", "Copied"},
           NEW source \in Path, NEW destination \in Path, NEW reached,
           Transfer(n, kind, source, destination, reached)
    PROVE  RowsAreTrue'
<1> DEFINE c == disk[n][source]
           e == Envelope(kind, source, destination, c)
           d == Transferred(disk[n], kind, source, destination, c)
<1>1. /\ c \in Checksum
      /\ circumstances \subseteq circumstances'
      /\ Record(n, d, e)
  BY DEF Transfer, Change
<1>2. /\ e \in Event
      /\ e.kind = kind /\ e.source = source /\ FinalPath(e) = destination /\ e.checksum = c
  BY <1>1, EnvelopeType, DistinctMarks DEF EventKind, Envelope, FinalPath
<1>3. store[n] \in Store /\ disk[n] \in DiskState /\ clock \in Nat
  BY ParametersAssumption DEF TypeOK
<1> HIDE DEF e
<1>4. TrueRows(store[n], disk[n]) => TrueRows(apply_event(store[n], d, e, clock), d)
  BY <1>2, <1>3, TrueAfterTransfer
<1> QED
  BY <1>1, <1>4, TrueAfterRecord

(* The row of each path, and its deletion, after the events of a manifest.  *)
LEMMA RecordingRows ==
    ASSUME NEW n, NEW d, NEW deleted, NEW created, NEW path \in Path
    PROVE  LET t == Recording(n, d, deleted, created)
               after(kind, c) == apply_event(store[n], d, On(kind, path, c), clock)
           IN  /\ path \in deleted =>
                     /\ t.rows[path] = after("Deleted", Missing).rows[path]
                     /\ t.deleted_at[path] = after("Deleted", Missing).deleted_at[path]
               /\ path \notin deleted /\ path \in created =>
                     /\ t.rows[path] = after("DirCreated", Dir).rows[path]
                     /\ t.deleted_at[path] = after("DirCreated", Dir).deleted_at[path]
               /\ path \notin deleted /\ path \notin created =>
                     /\ t.rows[path] = store[n].rows[path]
                     /\ t.deleted_at[path] = store[n].deleted_at[path]
<1> DEFINE after(q) ==
        IF q \in deleted
        THEN apply_event(store[n], d, On("Deleted", q, Missing), clock)
        ELSE IF q \in created
             THEN apply_event(store[n], d, On("DirCreated", q, Dir), clock)
             ELSE store[n]
<1>1. Recording(n, d, deleted, created) =
        [rows       |-> [q \in Path |-> after(q).rows[q]],
         deleted_at |-> [q \in Path |-> after(q).deleted_at[q]]]
  BY Zenon DEF Recording
<1>2. /\ Recording(n, d, deleted, created).rows[path] = after(path).rows[path]
      /\ Recording(n, d, deleted, created).deleted_at[path] = after(path).deleted_at[path]
  <2> HIDE DEF after
  <2> QED
    BY <1>1
<1>3. /\ path \in deleted =>
            after(path) = apply_event(store[n], d, On("Deleted", path, Missing), clock)
      /\ path \notin deleted /\ path \in created =>
            after(path) = apply_event(store[n], d, On("DirCreated", path, Dir), clock)
      /\ path \notin deleted /\ path \notin created => after(path) = store[n]
  OBVIOUS
<1> HIDE DEF after
<1> QED
  BY <1>2, <1>3

(* The rows of the paths that a manifest deletes or creates are true.     *)
LEMMA RecordingTrue ==
    ASSUME TypeOK, NEW n \in Node, TrueRows(store[n], disk[n]), NEW deleted, NEW created,
           NEW d, d = [path \in Path |-> CASE path \in deleted -> Missing
                                            [] path \in created -> Dir
                                            [] OTHER -> disk[n][path]]
    PROVE  TrueRows(Recording(n, d, deleted, created), d)
<1> SUFFICES ASSUME NEW path \in Path
             PROVE  LET row == Recording(n, d, deleted, created).rows[path]
                    IN  row # NoRow /\ row.checksum # NoChecksum => d[path] = row.checksum
  BY DEF TrueRows
<1> DEFINE row == Recording(n, d, deleted, created).rows[path]
<1>1. store[n] \in Store
  BY DEF TypeOK
<1>2. CASE path \in deleted
  <2>1. row = apply_event(store[n], d, On("Deleted", path, Missing), clock).rows[path]
    BY <1>2, RecordingRows
  <2>2. row = NoRow
    BY <1>1, <2>1 DEF apply_event, On, Envelope, Remove, Store
  <2> QED
    BY <2>2
<1>3. CASE path \notin deleted /\ path \in created
  <2> DEFINE e == On("DirCreated", path, Dir)
  <2>1. row = apply_event(store[n], d, e, clock).rows[path]
    BY <1>3, RecordingRows
  <2>2. e.kind = "DirCreated" /\ FinalPath(e) = path /\ e.checksum = NoChecksum
    BY DistinctMarks DEF On, Envelope, FinalPath
  <2>3. row = NewRow(store[n], d, e, clock)
    BY <1>1, <2>1, <2>2 DEF apply_event, Store
  <2>4. Hash(d, path) = NoChecksum
    BY <1>3, DistinctMarks DEF Hash
  <2> QED
    BY <2>2, <2>3, <2>4 DEF NewRow
<1>4. CASE path \notin deleted /\ path \notin created
  <2>1. row = store[n].rows[path]
    BY <1>4, RecordingRows
  <2>2. d[path] = disk[n][path]
    BY <1>4
  <2> QED
    BY <2>1, <2>2 DEF TrueRows
<1> QED
  BY <1>2, <1>3, <1>4

LEMMA HandleManifestTrue ==
    ASSUME TypeOK, RowsAreTrue, NEW x \in manifests, HandleManifest(x)
    PROVE  RowsAreTrue'
<1> DEFINE n       == x.to
           actions == diff_manifests(Manifest(n), x.manifest)
           deleted == Of(actions, "Delete")
           created == Of(actions, "CreateDir")
           d       == [path \in Path |-> CASE path \in deleted -> Missing
                                           [] path \in created -> Dir
                                           [] OTHER -> disk[n][path]]
<1>1. n \in Node
  BY DEF TypeOK
<1>2. /\ circumstances \subseteq circumstances'
      /\ \/ UNCHANGED <<disk, store>>
         \/ /\ disk' = [disk EXCEPT ![n] = d]
            /\ store' = [store EXCEPT ![n] = Recording(n, d, deleted, created)]
  BY DEF HandleManifest
<1> SUFFICES ASSUME "unequal" \notin circumstances', NEW m \in Node
             PROVE  TrueRows(store[m], disk[m])'
  BY DEF RowsAreTrue
<1>3. TrueRows(store[m], disk[m]) /\ TrueRows(store[n], disk[n])
  BY <1>1, <1>2 DEF RowsAreTrue
<1>4. TrueRows(Recording(n, d, deleted, created), d)
  BY <1>1, <1>3, RecordingTrue
<1> HIDE DEF n, deleted, created, d
<1>5. CASE UNCHANGED <<disk, store>>
  BY <1>3, <1>5 DEF TrueRows
<1>6. CASE /\ disk' = [disk EXCEPT ![n] = d]
           /\ store' = [store EXCEPT ![n] = Recording(n, d, deleted, created)]
  <2>1. CASE m = n
    <3>1. store'[m] = Recording(n, d, deleted, created) /\ disk'[m] = d
      BY <1>6, <2>1 DEF TypeOK
    <3> QED
      BY <1>4, <3>1 DEF TrueRows
  <2>2. CASE m # n
    BY <1>3, <1>6, <2>2 DEF TypeOK, TrueRows
  <2> QED
    BY <2>1, <2>2
<1> QED
  BY <1>2, <1>5, <1>6

(* An announced move or copy keeps the rows true only if this node has what *)
(* the peer moved or copied.                                              *)
LEMMA HandleEventTrue ==
    ASSUME TypeOK, RowsAreTrue, NEW v \in events, HandleEvent(v)
    PROVE  RowsAreTrue'
<1> DEFINE n == v.to
           e == v.event
           c == disk[n][e.source]
           d == Transferred(disk[n], e.kind, e.source, FinalPath(e), c)
<1>1. n \in Node /\ e \in Event /\ e.kind \in EventKind /\ e.source \in Path
  BY DEF TypeOK, Event
<1>2. CASE /\ e.kind \in {"Deleted", "DirCreated"}
           /\ Apply(n, e.kind, e.source, IF e.kind = "Deleted" THEN Missing ELSE Dir)
           /\ UNCHANGED circumstances
  BY <1>1, <1>2, TrueAfterApply, DistinctMarks
<1>3. CASE /\ e.kind \in {"Moved", "Copied"}
           /\ Record(n, d, e)
           /\ circumstances' = circumstances \cup
                                  (IF c # e.checksum THEN {"unequal"} ELSE {})
  <2>1. store[n] \in Store /\ disk[n] \in DiskState /\ clock \in Nat
    BY <1>1, ParametersAssumption DEF TypeOK
  <2>2. "unequal" \notin circumstances' => c = e.checksum
    BY <1>3
  <2>3. "unequal" \notin circumstances' /\ TrueRows(store[n], disk[n]) =>
            TrueRows(apply_event(store[n], d, e, clock), d)
    BY <1>1, <1>3, <2>1, <2>2, TrueAfterTransfer
  <2>4. circumstances \subseteq circumstances'
    BY <1>3
  <2> HIDE DEF n, e, d
  <2> QED
    BY <1>1, <1>3, <2>3, <2>4, TrueAfterRecord
<1>4. CASE UNCHANGED <<disk, store, circumstances>>
  BY <1>4 DEF RowsAreTrue, TrueRows
<1> QED
  BY <1>2, <1>3, <1>4 DEF HandleEvent

(* At first the nodes have a row for each file they hold.                 *)
LEMMA InitTrue == Init => RowsAreTrue
<1> SUFFICES ASSUME Init, NEW n \in Node
             PROVE  TrueRows(store[n], disk[n])
  BY DEF RowsAreTrue
<1> QED
  BY DEF Init, TrueRows, Agreed, EmptyStore

LEMMA NextTrue == TypeOK /\ RowsAreTrue /\ [Next]_vars => RowsAreTrue'
<1> SUFFICES ASSUME TypeOK, RowsAreTrue, [Next]_vars
             PROVE  RowsAreTrue'
  OBVIOUS
<1>1. ASSUME NEW n \in Node, NEW path \in Path, NEW c \in Checksum \cup {Dir, Missing},
             NEW reached, Write(n, path, c, reached)
      PROVE  RowsAreTrue'
  BY <1>1, WriteTrue
<1>2. ASSUME NEW n \in Node, NEW kind \in {"Moved", "Copied"}, NEW source \in Path,
             NEW destination \in Path, NEW reached, Transfer(n, kind, source, destination, reached)
      PROVE  RowsAreTrue'
  BY <1>2, TransferTrue
<1>3. ASSUME NEW m \in Node, NEW n \in Node, SendManifest(m, n)
      PROVE  RowsAreTrue'
  BY <1>3 DEF SendManifest, history, RowsAreTrue, TrueRows
<1>4. ASSUME NEW x \in manifests, HandleManifest(x)
      PROVE  RowsAreTrue'
  BY <1>4, HandleManifestTrue
<1>5. ASSUME NEW v \in events, HandleEvent(v)
      PROVE  RowsAreTrue'
  BY <1>5, HandleEventTrue
<1>6. ASSUME NEW w \in pulls, Fetch(w)
      PROVE  RowsAreTrue'
  BY <1>6 DEF Fetch, history, RowsAreTrue, TrueRows
<1>7. ASSUME NEW w \in pulls, Install(w)
      PROVE  RowsAreTrue'
  <2>1. /\ w.node \in Node /\ w.path \in Path /\ w.content \in Checksum
        /\ Apply(w.node, "Edited", w.path, w.content)
        /\ UNCHANGED circumstances
    BY <1>7 DEF TypeOK, Install, history
  <2>2. w.content # Missing
    BY <2>1, DistinctMarks
  <2> QED
    BY <2>1, <2>2, TrueAfterApply DEF EventKind
<1>8. CASE UNCHANGED vars
  BY <1>8 DEF RowsAreTrue, TrueRows, vars, history
<1> QED
  BY <1>1, <1>2, <1>3, <1>4, <1>5, <1>6, <1>7, <1>8 DEF Next

(* What a manifest says of a file's checksum is then what the disk has.     *)
LEMMA ReportsAreTrue ==
    ASSUME NEW s \in Store, NEW d \in DiskState, TrueRows(s, d), NEW mtime,
           NEW path \in DOMAIN build_manifest(s, d, mtime).resources,
           build_manifest(s, d, mtime).resources[path].checksum # NoChecksum
    PROVE  d[path] = build_manifest(s, d, mtime).resources[path].checksum
<1> DEFINE entry == build_manifest(s, d, mtime).resources[path]
<1>1. path \in Path
  BY DEF build_manifest, Reported
<1>2. CASE path \in Reported(s, d)
  <2>1. entry.checksum = s.rows[path].checksum /\ s.rows[path] # NoRow
    BY <1>2 DEF build_manifest, Reported
  <2> QED
    BY <1>1, <2>1 DEF TrueRows
<1>3. CASE path \notin Reported(s, d)
  <2>1. entry.checksum = Hash(d, path)
    BY <1>3 DEF build_manifest
  <2> QED
    BY <2>1 DEF Hash
<1> QED
  BY <1>2, <1>3

LEMMA TrueRowsSuffice == TypeOK /\ RowsAreTrue => SkippedIsEqual
<1> SUFFICES ASSUME TypeOK, RowsAreTrue, "unequal" \notin circumstances,
                    NEW n \in Node, NEW m \in Node, NEW path \in Skipped(n, m)
             PROVE  disk[n][path] = disk[m][path]
  BY DEF SkippedIsEqual, ReportedIsEqual
<1>1. /\ path \in DOMAIN Manifest(n).resources /\ path \in DOMAIN Manifest(m).resources
      /\ SameFile(Manifest(n).resources[path], Manifest(m).resources[path])
  BY DEF Skipped
<1>2. /\ Manifest(n).resources[path].checksum # NoChecksum
      /\ Manifest(m).resources[path].checksum = Manifest(n).resources[path].checksum
  BY <1>1 DEF SameFile
<1>3. \A k \in Node : store[k] \in Store /\ disk[k] \in DiskState /\ TrueRows(store[k], disk[k])
  BY DEF TypeOK, RowsAreTrue
<1>4. disk[n][path] = Manifest(n).resources[path].checksum
  BY <1>1, <1>2, <1>3, ReportsAreTrue DEF Manifest
<1>5. disk[m][path] = Manifest(m).resources[path].checksum
  BY <1>1, <1>2, <1>3, ReportsAreTrue DEF Manifest
<1> QED
  BY <1>2, <1>4, <1>5

(* Whatever was written, moved, missed or pulled in whatever order, a file   *)
(* that diff_manifests leaves alone for its equal checksums is the same on   *)
(* both nodes, as long as no node moved or copied an old content.            *)
THEOREM SkippedFilesAreEqual == Spec => []SkippedIsEqual
<1>1. Spec => []RowsAreTrue
  BY TypeCorrect, InitTrue, NextTrue, PTL DEF Spec
<1> QED
  BY <1>1, TypeCorrect, TrueRowsSuffice, PTL

-----------------------------------------------------------------------------
(* The last write.  The rank of a path in a store is what its state there  *)
(* counts for when manifests are compared; the invariant is that the state *)
(* of the greatest rank is what a client made last.                        *)

States(path) == IF path \in Folders THEN {Dir, Missing} ELSE Checksum \cup {Missing}

KindOn(c) == CASE c = Missing -> "deleted" [] c = Dir -> "folder" [] OTHER -> "file"

(* A path has a row if there is something on the disk, of the same kind.    *)
Fitting(s, d) ==
    \A path \in Path :
        /\ d[path] \in States(path)
        /\ s.rows[path] = NoRow <=> d[path] = Missing
        /\ s.rows[path] # NoRow => s.rows[path].kind = KindOn(d[path])

Past(s, now) ==
    \A path \in Path : /\ s.rows[path] # NoRow => s.rows[path].updated_at <= now
                       /\ s.deleted_at[path] <= now

Rank(s, path) ==
    IF s.rows[path] # NoRow THEN 1 + s.rows[path].updated_at
    ELSE IF s.deleted_at[path] > 0 THEN 1 + s.deleted_at[path]
    ELSE 0

LEMMA RankType ==
    ASSUME NEW s \in Store, NEW path \in Path, NEW now \in Nat, Past(s, now)
    PROVE  Rank(s, path) \in Nat /\ Rank(s, path) <= 1 + now
<1>1. s.deleted_at[path] \in Nat /\ s.deleted_at[path] <= now
  BY DEF Store, Past
<1>2. s.rows[path] # NoRow => s.rows[path].updated_at \in Nat /\ s.rows[path].updated_at <= now
  BY DEF Store, Row, Past
<1> QED
  BY <1>1, <1>2 DEF Rank

(* The state of a path becomes c: its rank is the time, unless there was    *)
(* nothing to delete.                                                     *)
LEMMA AppliedState ==
    ASSUME NEW s \in Store, NEW d \in DiskState, NEW now \in Nat, now > 0,
           Fitting(s, d), Past(s, now), NEW kind \in EventKind, NEW path \in Path,
           NEW c \in States(path), kind = "Deleted" <=> c = Missing,
           kind = "DirCreated" <=> c = Dir, kind # "Moved"
    PROVE  LET after == [d EXCEPT ![path] = c]
               t     == apply_event(s, after, On(kind, path, c), now)
           IN  /\ Fitting(t, after) /\ Past(t, now)
               /\ \A q \in Path \ {path} : Rank(t, q) = Rank(s, q)
               /\ d[path] # Missing \/ c # Missing => Rank(t, path) = 1 + now
               /\ d[path] = Missing /\ c = Missing => Rank(t, path) = Rank(s, path)
<1> PICK after : after = [d EXCEPT ![path] = c]
  OBVIOUS
<1> PICK e : e = On(kind, path, c)
  OBVIOUS
<1> PICK t : t = apply_event(s, after, e, now)
  OBVIOUS
<1>1. e.kind = kind /\ e.source = path /\ FinalPath(e) = path
  BY DEF On, Envelope, FinalPath
<1>2. after[path] = c /\ \A q \in Path \ {path} : after[q] = d[q]
  BY DEF DiskState
<1>3. CASE c = Missing /\ d[path] = Missing
  <2>1. t = s
    BY <1>1, <1>3 DEF apply_event, Fitting
  <2>2. after = d
    BY <1>3 DEF DiskState
  <2> QED
    BY <1>3, <2>1, <2>2
<1>4. CASE c = Missing /\ d[path] # Missing
  <2>1. t = [s EXCEPT !.rows[path] = NoRow, !.deleted_at[path] = now]
    BY <1>1, <1>4 DEF apply_event, Remove, Fitting
  <2>2. /\ t.rows[path] = NoRow /\ t.deleted_at[path] = now
        /\ \A q \in Path \ {path} : t.rows[q] = s.rows[q] /\ t.deleted_at[q] = s.deleted_at[q]
    BY <2>1 DEF Store
  <2>3. Missing \in States(path)
    BY DEF States
  <2>4. Fitting(t, after)
    <3> SUFFICES ASSUME NEW q \in Path
                 PROVE  /\ after[q] \in States(q)
                        /\ t.rows[q] = NoRow <=> after[q] = Missing
                        /\ t.rows[q] # NoRow => t.rows[q].kind = KindOn(after[q])
      BY DEF Fitting
    <3>1. CASE q = path
      BY <1>2, <1>4, <2>2, <2>3, <3>1
    <3>2. CASE q # path
      BY <1>2, <2>2, <3>2 DEF Fitting
    <3> QED
      BY <3>1, <3>2
  <2>5. Past(t, now)
    <3> SUFFICES ASSUME NEW q \in Path
                 PROVE  /\ t.rows[q] # NoRow => t.rows[q].updated_at <= now
                        /\ t.deleted_at[q] <= now
      BY DEF Past
    <3>1. CASE q = path
      BY <2>2, <3>1
    <3>2. CASE q # path
      BY <2>2, <3>2 DEF Past
    <3> QED
      BY <3>1, <3>2
  <2>6. Rank(t, path) = 1 + now /\ \A q \in Path \ {path} : Rank(t, q) = Rank(s, q)
    BY <2>2 DEF Rank
  <2> QED
    BY <1>4, <2>4, <2>5, <2>6
<1>5. CASE c # Missing
  <2> PICK row : row = NewRow(s, after, e, now)
    OBVIOUS
  <2>1. t = [s EXCEPT !.rows[path] = row]
    BY <1>1, <1>5 DEF apply_event
  <2>2. /\ t.rows[path] = row
        /\ \A q \in Path \ {path} : t.rows[q] = s.rows[q]
        /\ \A q \in Path : t.deleted_at[q] = s.deleted_at[q]
    BY <2>1 DEF Store
  <2>3. row.updated_at = now /\ row.kind = resolve_resource_kind(s, e)
    BY DEF NewRow
  <2>4. row # NoRow
    <3>1. e \in Event
      BY OnType
    <3>2. t \in Store
      <4>1. after \in DiskState
        BY DEF DiskState, States
      <4> QED
        BY <3>1, <4>1, ApplyEventType
    <3>3. resolve_resource_kind(s, e) \in {"file", "folder"}
      BY <1>1 DEF resolve_resource_kind, Store, Row
    <3>4. row.checksum \in Checksum \cup {NoChecksum}
      BY <3>1 DEF NewRow, Hash, Event
    <3>5. row = [kind |-> row.kind, checksum |-> row.checksum, updated_at |-> row.updated_at]
      BY DEF NewRow
    <3>6. row \in Row
      BY <2>3, <3>3, <3>4, <3>5 DEF Row
    <3> QED
      BY <3>6, NoRowIsNoRow
  <2>5. row.kind = KindOn(c)
    <3>1. CASE s.rows[path] # NoRow
      <4>1. d[path] # Missing /\ s.rows[path].kind = KindOn(d[path])
        BY <3>1 DEF Fitting
      <4>2. KindOn(d[path]) = KindOn(c)
        BY <1>5, <4>1, DistinctMarks DEF KindOn, Fitting, States
      <4> QED
        BY <1>1, <2>3, <3>1, <4>1, <4>2 DEF resolve_resource_kind
    <3>2. CASE s.rows[path] = NoRow
      BY <1>1, <1>5, <2>3, <3>2 DEF resolve_resource_kind, KindOn
    <3> QED
      BY <3>1, <3>2
  <2>6. Fitting(t, after)
    BY <1>2, <1>5, <2>2, <2>4, <2>5 DEF Fitting
  <2>7. Past(t, now)
    <3> SUFFICES ASSUME NEW q \in Path
                 PROVE  /\ t.rows[q] # NoRow => t.rows[q].updated_at <= now
                        /\ t.deleted_at[q] <= now
      BY DEF Past
    <3>1. CASE q = path
      <4>1. s.deleted_at[path] <= now
        BY DEF Past
      <4>2. t.rows[path].updated_at = now /\ t.deleted_at[path] = s.deleted_at[path]
        BY <2>2, <2>3
      <4> QED
        BY <3>1, <4>1, <4>2
    <3>2. CASE q # path
      BY <2>2, <3>2 DEF Past
    <3> QED
      BY <3>1, <3>2
  <2>8. Rank(t, path) = 1 + now /\ \A q \in Path \ {path} : Rank(t, q) = Rank(s, q)
    BY <2>2, <2>3, <2>4 DEF Rank
  <2> QED
    BY <1>5, <2>6, <2>7, <2>8
<1> QED
  BY <1>3, <1>4, <1>5

(* A file is moved or copied: the destination has the time for its rank.    *)
LEMMA TransferredState ==
    ASSUME NEW s \in Store, NEW d \in DiskState, NEW now \in Nat, now > 0,
           Fitting(s, d), Past(s, now), NEW e \in Event, e.kind \in {"Moved", "Copied"},
           e.source \notin Folders, e.destination \in Path \ (Folders \cup {e.source}),
           NEW c, c = d[e.source], c # Missing
    PROVE  LET after == Transferred(d, e.kind, e.source, e.destination, c)
               t     == apply_event(s, after, e, now)
           IN  /\ Fitting(t, after) /\ Past(t, now)
               /\ Rank(t, e.destination) = 1 + now
               /\ \A q \in Path \ {e.source, e.destination} : Rank(t, q) = Rank(s, q)
               /\ e.kind = "Copied" => Rank(t, e.source) = Rank(s, e.source)
<1> PICK after : after = Transferred(d, e.kind, e.source, e.destination, c)
  OBVIOUS
<1> PICK t : t = apply_event(s, after, e, now)
  OBVIOUS
<1> PICK row : row = NewRow(s, after, e, now)
  OBVIOUS
<1>1. FinalPath(e) = e.destination /\ e.source \in Path
  BY DistinctMarks DEF FinalPath, Event
<1>2. /\ after[e.destination] = c
      /\ after[e.source] = IF e.kind = "Moved" THEN Missing ELSE c
      /\ \A q \in Path \ {e.source, e.destination} : after[q] = d[q]
  BY <1>1 DEF Transferred, DiskState
<1>3. c \in Checksum /\ s.rows[e.source] # NoRow /\ s.rows[e.source].kind = "file"
  BY <1>1, DistinctMarks DEF Fitting, States, KindOn
<1>4. row.updated_at = now /\ row.kind = "file"
  BY <1>3 DEF NewRow, resolve_resource_kind
<1>5. row # NoRow
  <2>1. row.checksum \in Checksum \cup {NoChecksum}
    BY DEF NewRow, Hash, Event
  <2>2. row = [kind |-> row.kind, checksum |-> row.checksum, updated_at |-> row.updated_at]
    BY DEF NewRow
  <2>3. row \in Row
    BY <1>4, <2>1, <2>2 DEF Row
  <2> QED
    BY <2>3, NoRowIsNoRow
<1>6. /\ t.rows[e.destination] = row
      /\ t.rows[e.source] = IF e.kind = "Moved" THEN NoRow ELSE s.rows[e.source]
      /\ \A q \in Path \ {e.source, e.destination} : t.rows[q] = s.rows[q]
      /\ t.deleted_at = s.deleted_at
  <2>1. CASE e.kind = "Moved"
    <3>1. t = [s EXCEPT !.rows[e.source] = NoRow, !.rows[e.destination] = row]
      BY <1>1, <2>1 DEF apply_event, Move
    <3> PICK rows : rows = s.rows
      OBVIOUS
    <3>2. DOMAIN rows = Path /\ e.destination \in Path /\ e.source # e.destination
      BY <1>1 DEF Store
    <3>3. t.rows = [rows EXCEPT ![e.source] = NoRow, ![e.destination] = row]
      BY <3>1 DEF Store
    <3>4. t.deleted_at = s.deleted_at
      BY <3>1 DEF Store
    <3> QED
      BY <1>1, <2>1, <3>2, <3>3, <3>4
  <2>2. CASE e.kind = "Copied"
    <3>1. t = [s EXCEPT !.rows[e.destination] = row]
      BY <1>1, <2>2 DEF apply_event
    <3> QED
      BY <1>1, <2>2, <3>1 DEF Store
  <2> QED
    BY <2>1, <2>2
<1>7. KindOn(c) = "file"
  BY <1>3, DistinctMarks DEF KindOn
<1>8. c \in States(e.destination) /\ Missing \in States(e.source) /\ c \in States(e.source)
  BY <1>3 DEF States
<1>9. Fitting(t, after)
  <2> SUFFICES ASSUME NEW q \in Path
               PROVE  /\ after[q] \in States(q)
                      /\ t.rows[q] = NoRow <=> after[q] = Missing
                      /\ t.rows[q] # NoRow => t.rows[q].kind = KindOn(after[q])
    BY DEF Fitting
  <2>1. CASE q = e.destination
    BY <1>2, <1>4, <1>5, <1>6, <1>7, <1>8, <2>1
  <2>2. CASE q = e.source
    BY <1>2, <1>3, <1>6, <1>7, <1>8, <2>2
  <2>3. CASE q \notin {e.source, e.destination}
    BY <1>2, <1>6, <2>3 DEF Fitting
  <2> QED
    BY <2>1, <2>2, <2>3
<1>10. Past(t, now)
  BY <1>4, <1>6 DEF Past
<1> QED
  BY <1>1, <1>4, <1>5, <1>6, <1>9, <1>10 DEF Rank

(* What a manifest says of a path is its rank and its kind on the disk.      *)
LEMMA ManifestRanks ==
    ASSUME NEW s \in Store, NEW d \in DiskState, Fitting(s, d), NEW mtime, NEW path \in Path
    PROVE  LET states == latest_states(build_manifest(s, d, mtime))
           IN  /\ path \in DOMAIN states <=> Rank(s, path) > 0
               /\ path \in DOMAIN states =>
                     /\ states[path].updated_at = [scanned |-> FALSE, time |-> Rank(s, path) - 1]
                     /\ states[path].kind = KindOn(d[path])
<1> PICK m : m = build_manifest(s, d, mtime)
  OBVIOUS
<1>1. /\ s.rows[path] # NoRow => s.rows[path].updated_at \in Nat
      /\ s.deleted_at[path] \in Nat
      /\ s.rows[path] = NoRow <=> d[path] = Missing
  BY DEF Store, Row, Fitting
<1>2. \A q \in Path : s.rows[q] = NoRow <=> d[q] = Missing
  BY DEF Fitting
<1>3. /\ DOMAIN m.resources = {q \in Path : s.rows[q] # NoRow}
      /\ s.rows[path] # NoRow =>
            /\ m.resources[path].kind = s.rows[path].kind
            /\ m.resources[path].updated_at = Recorded(s.rows[path].updated_at)
      /\ DOMAIN m.tombstones = {q \in Path : s.rows[q] = NoRow /\ s.deleted_at[q] > 0}
      /\ s.rows[path] = NoRow /\ s.deleted_at[path] > 0 =>
            m.tombstones[path] = Recorded(s.deleted_at[path])
  BY <1>2 DEF build_manifest, Reported
<1> PICK states : states = latest_states(m)
  OBVIOUS
<1>4. DOMAIN states = DOMAIN m.resources \cup DOMAIN m.tombstones
  BY DEF latest_states
<1>5. CASE s.rows[path] # NoRow
  <2>1. path \in DOMAIN states /\ states[path] = m.resources[path]
    BY <1>3, <1>4, <1>5 DEF latest_states
  <2>2. Rank(s, path) > 0 /\ Rank(s, path) - 1 = s.rows[path].updated_at
    BY <1>1, <1>5 DEF Rank
  <2>3. s.rows[path].kind = KindOn(d[path])
    BY <1>5 DEF Fitting
  <2> QED
    BY <1>3, <1>5, <2>1, <2>2, <2>3 DEF Recorded
<1>6. CASE s.rows[path] = NoRow /\ s.deleted_at[path] > 0
  <2>1. /\ path \in DOMAIN states /\ states[path].kind = "deleted"
        /\ states[path].updated_at = m.tombstones[path]
    BY <1>3, <1>4, <1>6 DEF latest_states
  <2>2. Rank(s, path) > 0 /\ Rank(s, path) - 1 = s.deleted_at[path]
    BY <1>1, <1>6 DEF Rank
  <2>3. KindOn(d[path]) = "deleted"
    BY <1>1, <1>6, DistinctMarks DEF KindOn
  <2> QED
    BY <1>3, <1>6, <2>1, <2>2, <2>3 DEF Recorded
<1>7. CASE s.rows[path] = NoRow /\ ~ s.deleted_at[path] > 0
  BY <1>3, <1>4, <1>7 DEF Rank
<1> QED
  BY <1>5, <1>6, <1>7

(* What is said of a path in a manifest, and what an event is about, has the *)
(* kind of that path.                                                     *)
EntryFits(entry, path) ==
    /\ entry.updated_at.scanned = FALSE /\ entry.updated_at.time \in Nat
    /\ entry.kind \in {"deleted", IF path \in Folders THEN "folder" ELSE "file"}

EventFits(e) ==
    /\ e.kind = "DirCreated" => e.source \in Folders
    /\ e.kind \in {"Created", "Edited"} => e.source \notin Folders
    /\ IF e.kind \in {"Moved", "Copied"}
       THEN e.source \notin Folders /\ e.destination \in Path \ (Folders \cup {e.source})
       ELSE e.destination = NoPath

Kinds ==
    /\ \A n \in Node : Fitting(store[n], disk[n]) /\ Past(store[n], clock)
    /\ \A x \in manifests : \A path \in DOMAIN latest_states(x.manifest) :
          EntryFits(latest_states(x.manifest)[path], path)
    /\ \A w \in pulls : w.path \notin Folders
    /\ \A v \in events : EventFits(v.event) /\ v.from # v.to

(* The state of the greatest rank is the last one. A path that was moved    *)
(* away has no rank of its own, but is gone somewhere.                     *)
LastIsGreatest ==
    \A path \in Path \ moved : \E n \in Node :
        /\ disk[n][path] = latest[path]
        /\ \A m \in Node : Rank(store[m], path) <= Rank(store[n], path)

MovedIsGone ==
    \A path \in moved : /\ latest[path] = Missing /\ path \notin Folders
                        /\ \E n \in Node : disk[n][path] = Missing

(* What is on its way, if it will be acted upon, is about the last state.   *)
TrueManifest(x) ==
    \A path \in DOMAIN latest_states(x.manifest) \ moved :
        LET entry == latest_states(x.manifest)[path] IN
        1 + entry.updated_at.time > Rank(store[x.to], path) =>
            disk[x.from][path] = latest[path] /\ entry.kind = KindOn(latest[path])

TruePull(w) ==
    /\ w.path \notin moved
    /\ w.content = NoChecksum => disk[w.peer][w.path] = latest[w.path]
    /\ w.content # NoChecksum => w.content = latest[w.path]

TrueEvent(v) ==
    LET e == v.event IN
    /\ FinalPath(e) \notin moved
    /\ disk[v.from][FinalPath(e)] = latest[FinalPath(e)]
    /\ e.kind = "Deleted" => latest[e.source] = Missing
    /\ e.kind = "DirCreated" => latest[e.source] = Dir
    /\ e.kind \in {"Moved", "Copied"} => e.checksum = latest[FinalPath(e)]
    /\ e.kind = "Moved" => e.source \in moved

LastSpreads ==
    /\ LastIsGreatest /\ MovedIsGone
    /\ \A x \in manifests : TrueManifest(x)
    /\ \A w \in pulls : TruePull(w)
    /\ \A v \in events : TrueEvent(v)

Won == Pair /\ circumstances = {} => LastSpreads

-----------------------------------------------------------------------------

(* A node that takes over the last state of some paths.                    *)
TakesOver(n, d, t) ==
    /\ \A path \in Path \ moved :
          /\ d[path] \in {disk[n][path], latest[path]}
          /\ \/ Rank(t, path) = Rank(store[n], path)
             \/ Rank(t, path) = 1 + clock /\ d[path] = latest[path]
    /\ \A path \in moved : d[path] \in {disk[n][path], Missing}

LEMMA TakenOver ==
    ASSUME TypeOK, Kinds, LastIsGreatest, MovedIsGone,
           NEW n \in Node, NEW d, NEW t, TakesOver(n, d, t),
           disk' = [disk EXCEPT ![n] = d], store' = [store EXCEPT ![n] = t],
           UNCHANGED <<latest, moved>>
    PROVE  /\ LastIsGreatest' /\ MovedIsGone'
           /\ \A x \in manifests : TrueManifest(x) => TrueManifest(x)'
           /\ \A w \in pulls : TruePull(w) => TruePull(w)'
           /\ \A v \in events : TrueEvent(v) => TrueEvent(v)'
<1>1. /\ disk'[n] = d /\ store'[n] = t
      /\ \A m \in Node \ {n} : disk'[m] = disk[m] /\ store'[m] = store[m]
      /\ moved \subseteq Path
  BY DEF TypeOK
<1>2. \A m \in Node, path \in Path :
         Rank(store[m], path) \in Nat /\ Rank(store[m], path) <= 1 + clock
  <2>1. clock \in Nat /\ \A m \in Node : store[m] \in Store
    BY ParametersAssumption DEF TypeOK
  <2> QED
    BY <2>1, RankType DEF Kinds
<1>3. \A m \in Node, path \in Path \ moved :
         disk[m][path] = latest[path] => disk'[m][path] = latest[path]
  <2> TAKE m \in Node, path \in Path \ moved
  <2>1. CASE m = n
    BY <1>1, <2>1 DEF TakesOver
  <2>2. CASE m # n
    BY <1>1, <2>2
  <2> QED
    BY <2>1, <2>2
<1>4. \A m \in Node, path \in Path \ moved :
         /\ Rank(store'[m], path) \in Nat
         /\ Rank(store[m], path) <= Rank(store'[m], path) /\ Rank(store'[m], path) <= 1 + clock
         /\ m # n => Rank(store'[m], path) = Rank(store[m], path)
  <2> TAKE m \in Node, path \in Path \ moved
  <2>1. Rank(store[m], path) \in Nat /\ Rank(store[m], path) <= 1 + clock /\ clock \in Nat
    BY <1>2, ParametersAssumption DEF TypeOK
  <2>2. CASE m = n
    <3>1. Rank(t, path) = Rank(store[n], path) \/ Rank(t, path) = 1 + clock
      BY DEF TakesOver
    <3>2. store'[m] = t
      BY <1>1, <2>2
    <3> QED
      BY <2>1, <2>2, <3>1, <3>2
  <2>3. CASE m # n
    <3>1. store'[m] = store[m]
      BY <1>1, <2>3
    <3> QED
      BY <2>1, <2>3, <3>1
  <2> QED
    BY <2>2, <2>3
<1>5. LastIsGreatest'
  <2> SUFFICES ASSUME NEW path \in Path \ moved
               PROVE  \E k \in Node : /\ disk'[k][path] = latest[path]
                                      /\ \A m \in Node : Rank(store'[m], path) <= Rank(store'[k], path)
    BY DEF LastIsGreatest
  <2>1. PICK k \in Node : /\ disk[k][path] = latest[path]
                          /\ \A m \in Node : Rank(store[m], path) <= Rank(store[k], path)
    BY DEF LastIsGreatest
  <2>2. CASE Rank(t, path) = Rank(store[n], path)
    <3>1. \A m \in Node : Rank(store'[m], path) = Rank(store[m], path)
      BY <1>1, <1>4, <2>2
    <3> QED
      BY <1>3, <2>1, <3>1
  <2>3. CASE Rank(t, path) = 1 + clock /\ d[path] = latest[path]
    BY <1>1, <1>4, <2>3
  <2> QED
    BY <2>2, <2>3 DEF TakesOver
<1>6. MovedIsGone'
  <2> SUFFICES ASSUME NEW path \in moved
               PROVE  \E k \in Node : disk'[k][path] = Missing
    BY DEF MovedIsGone
  <2>1. PICK k \in Node : disk[k][path] = Missing
    BY DEF MovedIsGone
  <2>2. d[path] \in {disk[n][path], Missing}
    BY DEF TakesOver
  <2>3. disk'[k][path] = Missing
    BY <1>1, <2>1, <2>2
  <2> QED
    BY <2>3
<1>7. ASSUME NEW x \in manifests, TrueManifest(x)
      PROVE  TrueManifest(x)'
  <2> SUFFICES ASSUME NEW path \in DOMAIN latest_states(x.manifest) \ moved,
                      1 + latest_states(x.manifest)[path].updated_at.time > Rank(store'[x.to], path)
               PROVE  /\ disk'[x.from][path] = latest[path]
                      /\ latest_states(x.manifest)[path].kind = KindOn(latest[path])
    BY DEF TrueManifest
  <2>1. path \in Path \ moved /\ x.from \in Node /\ x.to \in Node
    BY DEF TypeOK, latest_states
  <2>2. latest_states(x.manifest)[path].updated_at.time \in Nat
    BY DEF Kinds, EntryFits
  <2>3. 1 + latest_states(x.manifest)[path].updated_at.time > Rank(store[x.to], path)
    BY <1>2, <1>4, <2>1, <2>2
  <2>4. /\ disk[x.from][path] = latest[path]
        /\ latest_states(x.manifest)[path].kind = KindOn(latest[path])
    BY <1>7, <2>3 DEF TrueManifest
  <2> QED
    BY <1>3, <2>1, <2>4
<1>8. ASSUME NEW w \in pulls, TruePull(w)
      PROVE  TruePull(w)'
  <2>1. w.path \in Path \ moved /\ w.peer \in Node
    BY <1>8 DEF TypeOK, TruePull
  <2> QED
    BY <1>3, <1>8, <2>1 DEF TruePull
<1>9. ASSUME NEW v \in events, TrueEvent(v)
      PROVE  TrueEvent(v)'
  <2>1. FinalPath(v.event) \in Path \ moved /\ v.from \in Node
    BY <1>9 DEF TypeOK, TrueEvent, FinalPath, Event
  <2> QED
    BY <1>3, <1>9, <2>1 DEF TrueEvent
<1> QED
  BY <1>5, <1>6, <1>7, <1>8, <1>9

(* The stores and disks still fit after a change of one node.               *)
StoresFit == \A n \in Node : Fitting(store[n], disk[n]) /\ Past(store[n], clock)

LEMMA FitsAfter ==
    ASSUME TypeOK, TypeOK', StoresFit, NEW n \in Node, NEW d, NEW t, Fitting(t, d), Past(t, clock),
           disk' = [disk EXCEPT ![n] = d], store' = [store EXCEPT ![n] = t], Stamped
    PROVE  StoresFit'
<1>1. /\ disk'[n] = d /\ store'[n] = t
      /\ \A m \in Node \ {n} : disk'[m] = disk[m] /\ store'[m] = store[m]
  BY DEF TypeOK
<1>2. clock \in Nat /\ clock' \in Nat /\ clock <= clock'
  BY ParametersAssumption DEF TypeOK, Stamped
<1>3. \A m \in Node : store'[m] \in Store
  BY DEF TypeOK
<1>4. ASSUME NEW r \in Store, Past(r, clock)
      PROVE  Past(r, clock')
  <2> SUFFICES ASSUME NEW path \in Path
               PROVE  /\ r.rows[path] # NoRow => r.rows[path].updated_at <= clock'
                      /\ r.deleted_at[path] <= clock'
    BY DEF Past
  <2>1. /\ r.rows[path] # NoRow => r.rows[path].updated_at \in Nat /\ r.rows[path].updated_at <= clock
        /\ r.deleted_at[path] \in Nat /\ r.deleted_at[path] <= clock
    BY <1>4 DEF Past, Store, Row
  <2> QED
    BY <1>2, <2>1
<1>5. ASSUME NEW m \in Node
      PROVE  Fitting(store'[m], disk'[m]) /\ Past(store'[m], clock')
  <2>1. CASE m = n
    BY <1>1, <1>3, <1>4, <2>1
  <2>2. CASE m # n
    BY <1>1, <1>3, <1>4, <2>2 DEF StoresFit
  <2> QED
    BY <2>1, <2>2
<1> QED
  BY <1>5 DEF StoresFit

(* A client makes something of the path final, and moves what was at gone.  *)
Makes(n, d, t, final, gone) ==
    /\ final \in Path \ gone /\ gone \subseteq Path
    /\ moved' = (moved \ {final}) \cup gone
    /\ d[final] = latest'[final] /\ Rank(t, final) = 1 + clock
    /\ \A path \in gone : d[path] = Missing /\ latest'[path] = Missing /\ path \notin Folders
    /\ \A path \in Path \ gone : path # final =>
          /\ d[path] = disk[n][path] /\ latest'[path] = latest[path]
          /\ Rank(t, path) = Rank(store[n], path)

(* What a client makes has the greatest rank, and what it moves away is gone. *)
LEMMA AuthorWins ==
    ASSUME TypeOK, StoresFit, LastIsGreatest, MovedIsGone, NEW n \in Node, NEW d, NEW t,
           NEW final, NEW gone, Makes(n, d, t, final, gone),
           disk' = [disk EXCEPT ![n] = d], store' = [store EXCEPT ![n] = t]
    PROVE  LastIsGreatest' /\ MovedIsGone'
<1>0. /\ final \in Path \ gone /\ gone \subseteq Path
      /\ moved' = (moved \ {final}) \cup gone
      /\ d[final] = latest'[final] /\ Rank(t, final) = 1 + clock
      /\ \A path \in gone : d[path] = Missing /\ latest'[path] = Missing /\ path \notin Folders
      /\ \A path \in Path \ gone : path # final =>
            /\ d[path] = disk[n][path] /\ latest'[path] = latest[path]
            /\ Rank(t, path) = Rank(store[n], path)
  BY DEF Makes
<1>1. /\ disk'[n] = d /\ store'[n] = t
      /\ \A m \in Node \ {n} : disk'[m] = disk[m] /\ store'[m] = store[m]
      /\ moved \subseteq Path
  BY DEF TypeOK
<1>2. \A m \in Node, path \in Path : Rank(store[m], path) <= 1 + clock
  <2>1. clock \in Nat /\ \A m \in Node : store[m] \in Store
    BY ParametersAssumption DEF TypeOK
  <2> QED
    BY <1>0, <2>1, RankType DEF StoresFit
<1>3. LastIsGreatest'
  <2> SUFFICES ASSUME NEW path \in Path \ moved'
               PROVE  \E k \in Node : /\ disk'[k][path] = latest'[path]
                                      /\ \A m \in Node : Rank(store'[m], path) <= Rank(store'[k], path)
    BY DEF LastIsGreatest
  <2>1. CASE path = final
    <3>1. 1 + clock <= 1 + clock
      BY ParametersAssumption DEF TypeOK
    <3>2. \A m \in Node : Rank(store'[m], path) <= 1 + clock
      <4> TAKE m \in Node
      <4>1. CASE m = n
        BY <1>0, <1>1, <2>1, <3>1, <4>1
      <4>2. CASE m # n
        BY <1>0, <1>1, <1>2, <4>2
      <4> QED
        BY <1>0, <4>1, <4>2
    <3> QED
      BY <1>0, <1>1, <2>1, <3>2
  <2>2. CASE path # final
    <3>1. path \notin moved /\ path \notin gone
      BY <1>0, <2>2
    <3>2. PICK k \in Node : /\ disk[k][path] = latest[path]
                            /\ \A m \in Node : Rank(store[m], path) <= Rank(store[k], path)
      BY <1>0, <3>1 DEF LastIsGreatest
    <3>3. \A m \in Node : /\ Rank(store'[m], path) = Rank(store[m], path)
                          /\ disk'[m][path] = disk[m][path]
      BY <1>0, <1>1, <2>2, <3>1
    <3>4. latest'[path] = latest[path]
      BY <1>0, <2>2, <3>1
    <3> QED
      BY <1>0, <3>2, <3>3, <3>4
  <2> QED
    BY <1>0, <2>1, <2>2
<1>4. MovedIsGone'
  <2> SUFFICES ASSUME NEW path \in moved'
               PROVE  /\ latest'[path] = Missing /\ path \notin Folders
                      /\ \E k \in Node : disk'[k][path] = Missing
    BY DEF MovedIsGone
  <2>1. CASE path \in gone
    BY <1>0, <1>1, <2>1
  <2>2. CASE path \notin gone
    <3>1. path \in moved /\ path # final
      BY <1>0, <2>2
    <3>2. PICK k \in Node : disk[k][path] = Missing
      BY <1>0, <3>1 DEF MovedIsGone
    <3>3. disk'[k][path] = disk[k][path] /\ latest'[path] = latest[path]
      BY <1>0, <1>1, <2>2, <3>1, <3>2
    <3> QED
      BY <1>0, <3>1, <3>2, <3>3 DEF MovedIsGone
  <2> QED
    BY <1>0, <2>1, <2>2
<1> QED
  BY <1>0, <1>3, <1>4

(* A change made while nothing is on its way, and the announcements of it.   *)
LEMMA ChangeWins ==
    ASSUME Kinds, Won, NEW n \in Node, NEW e, NEW reached \in SUBSET (Node \ {n}),
           Change(n, e, reached), EventFits(e), StoresFit',
           LastIsGreatest /\ MovedIsGone => LastIsGreatest' /\ MovedIsGone',
           \A v \in events' : v.event = e /\ v.from = n => TrueEvent(v)'
    PROVE  Kinds' /\ Won'
<1> DEFINE heard == {[from |-> n, to |-> m, event |-> e, change |-> writes + 1] : m \in reached}
<1>1. events' = events \cup heard /\ UNCHANGED <<manifests, pulls>>
  BY DEF Change
<1>2. \A v \in heard : v.event = e /\ v.from = n /\ v.to # v.from
  OBVIOUS
<1> HIDE DEF heard
<1>3. Kinds'
  <2>1. \A v \in events' : EventFits(v.event) /\ v.from # v.to
    BY <1>1, <1>2 DEF Kinds
  <2> QED
    BY <1>1, <2>1 DEF Kinds, StoresFit
<1>4. Won'
  <2> SUFFICES ASSUME Pair, circumstances' = {}
               PROVE  LastSpreads'
    BY DEF Won, Pair
  <2>1. circumstances = {} /\ ~Exchanging
    BY DEF Change
  <2>2. manifests = {} /\ pulls = {} /\ events = {}
    BY <2>1 DEF Exchanging, net
  <2>3. LastIsGreatest' /\ MovedIsGone'
    BY <2>1 DEF Won, LastSpreads
  <2>4. \A v \in events' : TrueEvent(v)'
    BY <1>1, <1>2, <2>2
  <2> QED
    BY <1>1, <2>2, <2>3, <2>4 DEF LastSpreads
<1> QED
  BY <1>3, <1>4

LEMMA WriteWon ==
    ASSUME TypeOK, TypeOK', Kinds, Won, NEW n \in Node, NEW path \in Path,
           NEW c \in Checksum \cup {Dir, Missing}, NEW reached \in SUBSET (Node \ {n}),
           Write(n, path, c, reached)
    PROVE  Kinds' /\ Won'
<1> PICK kind : kind = KindOf(n, path, c)
  OBVIOUS
<1> PICK e : e = On(kind, path, c)
  OBVIOUS
<1> PICK d : d = [disk[n] EXCEPT ![path] = c]
  OBVIOUS
<1> PICK t : t = apply_event(store[n], d, e, clock)
  OBVIOUS
<1>1. /\ c # disk[n][path] /\ c \in States(path)
      /\ Change(n, e, reached) /\ Stamped
      /\ disk' = [disk EXCEPT ![n] = d] /\ store' = [store EXCEPT ![n] = t]
      /\ latest' = [latest EXCEPT ![path] = c]
  BY DEF Write, Apply, Record, Change, States
<1>2. /\ kind \in {"Created", "Edited", "Deleted", "DirCreated"}
      /\ kind = "Deleted" <=> c = Missing
      /\ kind = "DirCreated" <=> c = Dir
  BY DistinctMarks DEF KindOf
<1>3. e.kind = kind /\ e.source = path /\ e.destination = NoPath /\ FinalPath(e) = path
  BY DEF On, Envelope, FinalPath
<1>4. EventFits(e)
  <2>1. c = Dir => path \in Folders
    BY <1>1, DistinctMarks DEF States
  <2>2. c \notin {Dir, Missing} => path \notin Folders
    BY <1>1 DEF States
  <2> QED
    BY <1>2, <1>3, <2>1, <2>2 DEF EventFits
<1>5. /\ StoresFit /\ store[n] \in Store /\ disk[n] \in DiskState /\ clock \in Nat /\ clock > 0
      /\ Fitting(store[n], disk[n]) /\ Past(store[n], clock)
  BY ParametersAssumption DEF TypeOK, Kinds, StoresFit
<1>6. /\ Fitting(t, d) /\ Past(t, clock)
      /\ \A q \in Path \ {path} : Rank(t, q) = Rank(store[n], q)
      /\ Rank(t, path) = 1 + clock
  BY <1>1, <1>2, <1>5, AppliedState DEF EventKind
<1>7. StoresFit'
  BY <1>1, <1>5, <1>6, FitsAfter
<1>8. d[path] = c /\ \A q \in Path \ {path} : d[q] = disk[n][q]
  BY <1>5 DEF DiskState
<1>9. latest'[path] = c /\ \A q \in Path \ {path} : latest'[q] = latest[q]
  BY <1>1 DEF TypeOK, DiskState
<1>10. moved' = moved \ {path}
  BY <1>1, <1>2, <1>3 DEF Change
<1>11. LastIsGreatest /\ MovedIsGone => LastIsGreatest' /\ MovedIsGone'
  <2>1. Makes(n, d, t, path, {})
    BY <1>6, <1>8, <1>9, <1>10 DEF Makes
  <2> QED
    BY <1>1, <1>5, <2>1, AuthorWins
<1>12. ASSUME NEW v \in events', v.event = e, v.from = n
       PROVE  TrueEvent(v)'
  <2>1. disk'[n][path] = latest'[path]
    BY <1>1, <1>8, <1>9 DEF TypeOK
  <2> QED
    BY <1>2, <1>3, <1>9, <1>10, <1>12, <2>1 DEF TrueEvent
<1> QED
  BY <1>1, <1>4, <1>7, <1>11, <1>12, ChangeWins

LEMMA TransferWon ==
    ASSUME TypeOK, TypeOK', Kinds, Won, NEW n \in Node, NEW kind \in {"Moved", "Copied"},
           NEW source \in Path, NEW destination \in Path, NEW reached \in SUBSET (Node \ {n}),
           Transfer(n, kind, source, destination, reached)
    PROVE  Kinds' /\ Won'
<1> PICK c : c = disk[n][source]
  OBVIOUS
<1> PICK e : e = Envelope(kind, source, destination, c)
  OBVIOUS
<1> PICK d : d = Transferred(disk[n], kind, source, destination, c)
  OBVIOUS
<1> PICK t : t = apply_event(store[n], d, e, clock)
  OBVIOUS
<1>1. /\ c \in Checksum /\ destination \notin Folders /\ destination # source
      /\ Change(n, e, reached) /\ Stamped
      /\ disk' = [disk EXCEPT ![n] = d] /\ store' = [store EXCEPT ![n] = t]
      /\ latest' = Transferred(latest, kind, source, destination, c)
  BY DEF Transfer, Record, Change
<1>2. /\ e.kind = kind /\ e.source = source /\ e.destination = destination /\ e.checksum = c
      /\ FinalPath(e) = destination /\ e \in Event
  BY <1>1, EnvelopeType, DistinctMarks DEF Envelope, FinalPath, EventKind
<1>3. /\ StoresFit /\ store[n] \in Store /\ disk[n] \in DiskState /\ clock \in Nat /\ clock > 0
      /\ Fitting(store[n], disk[n]) /\ Past(store[n], clock)
  BY ParametersAssumption DEF TypeOK, Kinds, StoresFit
<1>4. source \notin Folders /\ c # Missing
  <2>1. c \in States(source)
    BY <1>3 DEF Fitting
  <2> QED
    BY <1>1, <2>1, DistinctMarks DEF States
<1>5. EventFits(e)
  BY <1>1, <1>2, <1>4 DEF EventFits
<1>6. /\ Fitting(t, d) /\ Past(t, clock)
      /\ Rank(t, destination) = 1 + clock
      /\ \A q \in Path \ {source, destination} : Rank(t, q) = Rank(store[n], q)
      /\ kind = "Copied" => Rank(t, source) = Rank(store[n], source)
  BY <1>1, <1>2, <1>3, <1>4, TransferredState
<1>7. StoresFit'
  BY <1>1, <1>3, <1>6, FitsAfter
<1>8. /\ d[destination] = c /\ \A q \in Path \ {source, destination} : d[q] = disk[n][q]
      /\ d[source] = IF kind = "Moved" THEN Missing ELSE disk[n][source]
  BY <1>1, <1>3 DEF DiskState, Transferred
<1>9. /\ latest'[destination] = c /\ \A q \in Path \ {source, destination} : latest'[q] = latest[q]
      /\ latest'[source] = IF kind = "Moved" THEN Missing ELSE latest[source]
  BY <1>1 DEF TypeOK, DiskState, Transferred
<1>10. PICK gone \in SUBSET Path : gone = IF kind = "Moved" THEN {source} ELSE {}
  OBVIOUS
<1>11. moved' = (moved \ {destination}) \cup gone
  BY <1>1, <1>2, <1>10 DEF Change
<1>12. LastIsGreatest /\ MovedIsGone => LastIsGreatest' /\ MovedIsGone'
  <2>1. \A q \in gone : d[q] = Missing /\ latest'[q] = Missing /\ q \notin Folders
    BY <1>4, <1>8, <1>9, <1>10
  <2>2. \A q \in Path \ gone : q # destination =>
            d[q] = disk[n][q] /\ latest'[q] = latest[q] /\ Rank(t, q) = Rank(store[n], q)
    BY <1>6, <1>8, <1>9, <1>10
  <2>3. destination \notin gone /\ d[destination] = latest'[destination]
    BY <1>1, <1>8, <1>9, <1>10
  <2>4. Makes(n, d, t, destination, gone)
    BY <1>6, <1>10, <1>11, <2>1, <2>2, <2>3 DEF Makes
  <2> QED
    BY <1>1, <1>3, <2>4, AuthorWins
<1>13. ASSUME NEW v \in events', v.event = e, v.from = n
       PROVE  TrueEvent(v)'
  <2>1. disk'[n][destination] = latest'[destination]
    BY <1>1, <1>8, <1>9 DEF TypeOK
  <2>2. destination \notin moved' /\ (kind = "Moved" => source \in moved')
    BY <1>1, <1>10, <1>11
  <2> QED
    BY <1>2, <1>9, <1>13, <2>1, <2>2 DEF TrueEvent
<1> QED
  BY <1>1, <1>5, <1>7, <1>12, <1>13, ChangeWins

(* A node does nothing to its disk, or what it does takes over the last state. *)
Alters(n) ==
    \/ UNCHANGED <<disk, store, clock>>
    \/ \E d, t : /\ disk' = [disk EXCEPT ![n] = d] /\ store' = [store EXCEPT ![n] = t]
                 /\ Stamped /\ Fitting(t, d) /\ Past(t, clock)
                 /\ Pair /\ circumstances' = {} => TakesOver(n, d, t)

Handles(n) ==
    /\ Alters(n)
    /\ UNCHANGED <<latest, moved>> /\ circumstances \subseteq circumstances'
    /\ manifests' \subseteq manifests /\ events' \subseteq events
    /\ \A w \in pulls' \ pulls : w.path \notin Folders
    /\ Pair /\ circumstances' = {} => \A w \in pulls' \ pulls : TruePull(w)'

(* What is left of what is on its way is still about the last state.        *)
LEMMA HandlingWon ==
    ASSUME TypeOK, TypeOK', Kinds, Won, NEW n \in Node, Handles(n)
    PROVE  Kinds' /\ Won'
<1>1. /\ UNCHANGED <<latest, moved>> /\ circumstances \subseteq circumstances'
      /\ manifests' \subseteq manifests /\ events' \subseteq events
      /\ \A w \in pulls' \ pulls : w.path \notin Folders
      /\ Pair /\ circumstances' = {} => \A w \in pulls' \ pulls : TruePull(w)'
  BY DEF Handles
<1>2. StoresFit
  BY DEF Kinds, StoresFit
<1>3. StoresFit'
  <2>1. CASE UNCHANGED <<disk, store, clock>>
    BY <1>2, <2>1 DEF StoresFit, Fitting, Past
  <2>2. CASE \E d, t : /\ disk' = [disk EXCEPT ![n] = d] /\ store' = [store EXCEPT ![n] = t]
                       /\ Stamped /\ Fitting(t, d) /\ Past(t, clock)
    BY <1>2, <2>2, FitsAfter
  <2> QED
    BY <2>1, <2>2 DEF Handles, Alters
<1>4. Kinds'
  <2>1. \A x \in manifests' : \A path \in DOMAIN latest_states(x.manifest) :
            EntryFits(latest_states(x.manifest)[path], path)
    BY <1>1 DEF Kinds
  <2>2. \A w \in pulls' : w.path \notin Folders
    BY <1>1 DEF Kinds
  <2>3. \A v \in events' : EventFits(v.event) /\ v.from # v.to
    BY <1>1 DEF Kinds
  <2> QED
    BY <1>3, <2>1, <2>2, <2>3 DEF Kinds, StoresFit
<1>5. Won'
  <2> SUFFICES ASSUME Pair, circumstances' = {}
               PROVE  LastSpreads'
    BY DEF Won, Pair
  <2>1. LastSpreads
    BY <1>1 DEF Won
  <2>2. /\ LastIsGreatest' /\ MovedIsGone'
        /\ \A x \in manifests : TrueManifest(x) => TrueManifest(x)'
        /\ \A w \in pulls : TruePull(w) => TruePull(w)'
        /\ \A v \in events : TrueEvent(v) => TrueEvent(v)'
    <3>1. CASE UNCHANGED <<disk, store, clock>>
      <4>1. LastIsGreatest' /\ MovedIsGone'
        BY <1>1, <2>1, <3>1 DEF LastSpreads, LastIsGreatest, MovedIsGone
      <4>2. \A x \in manifests : TrueManifest(x) => TrueManifest(x)'
        BY <1>1, <3>1 DEF TrueManifest
      <4>3. \A w \in pulls : TruePull(w) => TruePull(w)'
        BY <1>1, <3>1 DEF TruePull
      <4>4. \A v \in events : TrueEvent(v) => TrueEvent(v)'
        BY <1>1, <3>1 DEF TrueEvent
      <4> QED
        BY <4>1, <4>2, <4>3, <4>4
    <3>2. ASSUME NEW d, NEW t, disk' = [disk EXCEPT ![n] = d], store' = [store EXCEPT ![n] = t],
                 TakesOver(n, d, t)
          PROVE  /\ LastIsGreatest' /\ MovedIsGone'
                 /\ \A x \in manifests : TrueManifest(x) => TrueManifest(x)'
                 /\ \A w \in pulls : TruePull(w) => TruePull(w)'
                 /\ \A v \in events : TrueEvent(v) => TrueEvent(v)'
      <4>1. LastIsGreatest /\ MovedIsGone
        BY <2>1 DEF LastSpreads
      <4> QED
        BY <1>1, <3>2, <4>1, TakenOver
    <3> QED
      BY <3>1, <3>2 DEF Handles, Alters
  <2>3. \A x \in manifests' : TrueManifest(x)'
    BY <1>1, <2>1, <2>2 DEF LastSpreads
  <2>4. \A w \in pulls' : TruePull(w)'
    BY <1>1, <2>1, <2>2 DEF LastSpreads
  <2>5. \A v \in events' : TrueEvent(v)'
    BY <1>1, <2>1, <2>2 DEF LastSpreads
  <2> QED
    BY <2>2, <2>3, <2>4, <2>5 DEF LastSpreads
<1> QED
  BY <1>4, <1>5

(* The peer serves the last state, as it still has it.                     *)
LEMMA FetchWon ==
    ASSUME TypeOK, TypeOK', Kinds, Won, NEW w \in pulls, Fetch(w)
    PROVE  Kinds' /\ Won'
<1> PICK c : c = disk[w.peer][w.path]
  OBVIOUS
<1>1. /\ w.content = NoChecksum
      /\ pulls' = (pulls \ {w}) \cup (IF c \in Checksum THEN {[w EXCEPT !.content = c]} ELSE {})
      /\ UNCHANGED <<disk, store, clock, manifests, events, latest, moved, circumstances>>
  BY DEF Fetch, history
<1>2. ASSUME NEW y \in pulls' \ pulls
      PROVE  y.path = w.path /\ y.content = c /\ c \in Checksum
  <2>1. c \in Checksum /\ y = [w EXCEPT !.content = c]
    BY <1>1, <1>2
  <2>2. w = [node |-> w.node, peer |-> w.peer, path |-> w.path, content |-> w.content]
    BY DEF TypeOK
  <2> QED
    BY <2>1, <2>2
<1>3. w.node \in Node /\ w.path \notin Folders
  BY DEF TypeOK, Kinds
<1>4. ASSUME Pair, circumstances' = {}, NEW y \in pulls' \ pulls
      PROVE  TruePull(y)'
  <2>1. TruePull(w)
    BY <1>1, <1>4 DEF Won, LastSpreads
  <2> QED
    BY <1>1, <1>2, <2>1, DistinctMarks DEF TruePull
<1>5. Handles(w.node)
  <2>1. \A y \in pulls' \ pulls : y.path \notin Folders
    BY <1>2, <1>3
  <2> QED
    BY <1>1, <1>4, <2>1 DEF Handles, Alters
<1> QED
  BY <1>3, <1>5, HandlingWon

(* What was fetched is installed.                                         *)
LEMMA InstallWon ==
    ASSUME TypeOK, TypeOK', Kinds, Won, NEW w \in pulls, Install(w)
    PROVE  Kinds' /\ Won'
<1> PICK n : n = w.node
  OBVIOUS
<1> PICK path : path = w.path
  OBVIOUS
<1> PICK c : c = w.content
  OBVIOUS
<1> PICK d : d = [disk[n] EXCEPT ![path] = c]
  OBVIOUS
<1> PICK t : t = apply_event(store[n], d, On("Edited", path, c), clock)
  OBVIOUS
<1>1. /\ c \in Checksum /\ Stamped /\ pulls' \subseteq pulls
      /\ disk' = [disk EXCEPT ![n] = d] /\ store' = [store EXCEPT ![n] = t]
      /\ UNCHANGED <<manifests, events, latest, moved, circumstances>>
  BY DEF Install, Apply, Record, history
<1>2. /\ n \in Node /\ path \in Path \ Folders
      /\ store[n] \in Store /\ disk[n] \in DiskState /\ clock \in Nat /\ clock > 0
      /\ Fitting(store[n], disk[n]) /\ Past(store[n], clock)
  BY ParametersAssumption DEF TypeOK, Kinds
<1>3. c \in States(path) /\ c # Missing /\ c # Dir
  BY <1>1, <1>2, DistinctMarks DEF States
<1>4. /\ Fitting(t, d) /\ Past(t, clock)
      /\ \A q \in Path \ {path} : Rank(t, q) = Rank(store[n], q)
      /\ Rank(t, path) = 1 + clock
  BY <1>2, <1>3, AppliedState DEF EventKind
<1>5. d[path] = c /\ \A q \in Path \ {path} : d[q] = disk[n][q]
  BY <1>2 DEF DiskState
<1>6. ASSUME Pair, circumstances' = {}
      PROVE  TakesOver(n, d, t)
  <2>1. path \notin moved /\ c = latest[path]
    <3>1. TruePull(w)
      BY <1>1, <1>6 DEF Won, LastSpreads
    <3> QED
      BY <1>1, <3>1, DistinctMarks DEF TruePull
  <2> QED
    BY <1>2, <1>4, <1>5, <2>1 DEF TakesOver
<1>7. Handles(n)
  BY <1>1, <1>4, <1>6 DEF Handles, Alters
<1> QED
  BY <1>2, <1>7, HandlingWon

(* A manifest is sent: where it counts for more than what the other node   *)
(* has, it is about the last state, for there are only two nodes.           *)
LEMMA SendManifestWon ==
    ASSUME TypeOK, TypeOK', Kinds, Won, NEW m \in Node, NEW n \in Node, SendManifest(m, n)
    PROVE  Kinds' /\ Won'
<1> PICK x : x = [from |-> m, to |-> n, manifest |-> Manifest(m)]
  OBVIOUS
<1> PICK states : states = latest_states(x.manifest)
  OBVIOUS
<1>1. /\ m # n /\ manifests' = manifests \cup {x}
      /\ UNCHANGED <<disk, store, clock, events, pulls, latest, moved, circumstances>>
  BY DEF SendManifest, history
<1>2. /\ store[m] \in Store /\ disk[m] \in DiskState /\ clock \in Nat
      /\ store[n] \in Store
      /\ Fitting(store[m], disk[m]) /\ Past(store[m], clock) /\ Past(store[n], clock)
  BY ParametersAssumption DEF TypeOK, Kinds
<1>3. \A path \in DOMAIN states : path \in Path
  BY DEF latest_states, Manifest, build_manifest, Reported
<1>4. ASSUME NEW path \in DOMAIN states
      PROVE  /\ Rank(store[m], path) \in Nat /\ Rank(store[m], path) > 0
             /\ states[path].updated_at.scanned = FALSE
             /\ states[path].updated_at.time = Rank(store[m], path) - 1
             /\ states[path].kind = KindOn(disk[m][path])
  <2>1. path \in Path
    BY <1>3
  <2>2. states = latest_states(build_manifest(store[m], disk[m], [q \in Path |-> 1]))
    BY DEF Manifest
  <2>3. Rank(store[m], path) \in Nat /\ Rank(store[m], path) > 0
    BY <1>2, <2>1, <2>2, RankType, ManifestRanks
  <2>4. /\ states[path].updated_at = [scanned |-> FALSE, time |-> Rank(store[m], path) - 1]
        /\ states[path].kind = KindOn(disk[m][path])
    BY <1>2, <2>1, <2>2, ManifestRanks
  <2> QED
    BY <2>3, <2>4
<1>5. ASSUME NEW path \in DOMAIN states
      PROVE  EntryFits(states[path], path)
  <2>1. disk[m][path] \in States(path)
    BY <1>2, <1>3 DEF Fitting
  <2>2. KindOn(disk[m][path]) \in {"deleted", IF path \in Folders THEN "folder" ELSE "file"}
    BY <2>1, DistinctMarks DEF KindOn, States
  <2>3. states[path].updated_at.scanned = FALSE /\ states[path].updated_at.time \in Nat
    <3> PICK rank : rank = Rank(store[m], path)
      OBVIOUS
    <3>1. rank \in Nat /\ rank > 0 /\ states[path].updated_at.time = rank - 1
      BY <1>4
    <3>2. rank - 1 \in Nat
      BY <3>1
    <3> QED
      BY <1>4, <3>1, <3>2
  <2>4. states[path].kind \in {"deleted", IF path \in Folders THEN "folder" ELSE "file"}
    BY <1>4, <2>2
  <2> QED
    BY <2>3, <2>4 DEF EntryFits
<1>6. Kinds'
  <2>1. \A y \in manifests' : \A path \in DOMAIN latest_states(y.manifest) :
            EntryFits(latest_states(y.manifest)[path], path)
    BY <1>1, <1>5 DEF Kinds
  <2> QED
    BY <1>1, <2>1 DEF Kinds, Fitting, Past
<1>7. ASSUME Pair, LastIsGreatest, NEW path \in DOMAIN states \ moved,
             1 + states[path].updated_at.time > Rank(store[n], path)
      PROVE  disk[m][path] = latest[path] /\ states[path].kind = KindOn(latest[path])
  <2>1. path \in Path /\ Rank(store[n], path) \in Nat
    BY <1>2, <1>3, RankType
  <2>2. Rank(store[m], path) > Rank(store[n], path)
    <3> PICK rank : rank = Rank(store[m], path)
      OBVIOUS
    <3>1. rank \in Nat /\ rank > 0 /\ states[path].updated_at.time = rank - 1
      BY <1>4
    <3>2. 1 + (rank - 1) > Rank(store[n], path)
      BY <1>7, <3>1
    <3> QED
      BY <2>1, <3>1, <3>2
  <2>3. PICK k \in Node : /\ disk[k][path] = latest[path]
                          /\ \A i \in Node : Rank(store[i], path) <= Rank(store[k], path)
    BY <1>7, <2>1 DEF LastIsGreatest
  <2>4. k \in {m, n}
    BY <1>1, <1>7 DEF Pair
  <2>5. k # n
    <3>1. Rank(store[m], path) <= Rank(store[k], path) /\ Rank(store[m], path) \in Nat
      BY <1>4, <2>3
    <3> QED
      BY <2>1, <2>2, <3>1
  <2> QED
    BY <1>4, <2>3, <2>4, <2>5
<1>8. Won'
  <2> SUFFICES ASSUME Pair, circumstances' = {}
               PROVE  LastSpreads'
    BY DEF Won, Pair
  <2>1. LastSpreads
    BY <1>1 DEF Won
  <2>2. LastIsGreatest' /\ MovedIsGone'
    BY <1>1, <2>1 DEF LastSpreads, LastIsGreatest, MovedIsGone
  <2>3. TrueManifest(x)'
    BY <1>1, <1>7, <2>1 DEF LastSpreads, TrueManifest
  <2>4. \A y \in manifests : TrueManifest(y)'
    BY <1>1, <2>1 DEF LastSpreads, TrueManifest
  <2>5. \A w \in pulls' : TruePull(w)'
    BY <1>1, <2>1 DEF LastSpreads, TruePull
  <2>6. \A v \in events' : TrueEvent(v)'
    BY <1>1, <2>1 DEF LastSpreads, TrueEvent
  <2> QED
    BY <1>1, <2>2, <2>3, <2>4, <2>5, <2>6 DEF LastSpreads
<1> QED
  BY <1>6, <1>8

(* Every accepted pull is of one of the paths, from that peer, unfetched.    *)
LEMMA AcceptedPulls ==
    ASSUME NEW n, NEW m, NEW paths, NEW w \in Accepted(n, m, paths)
    PROVE  w.peer = m /\ w.path \in paths /\ w.content = NoChecksum
BY DEF Accepted

(* An announced removal or directory. *)
LEMMA AppliedEventWon ==
    ASSUME TypeOK, TypeOK', Kinds, Won, NEW v \in events, v.event.kind \in {"Deleted", "DirCreated"},
           HandleEvent(v)
    PROVE  Kinds' /\ Won'
<1> PICK n : n = v.to
  OBVIOUS
<1> PICK e : e = v.event
  OBVIOUS
<1> PICK c : c = IF e.kind = "Deleted" THEN Missing ELSE Dir
  OBVIOUS
<1> PICK d : d = [disk[n] EXCEPT ![e.source] = c]
  OBVIOUS
<1> PICK t : t = apply_event(store[n], d, On(e.kind, e.source, c), clock)
  OBVIOUS
<1>1. /\ e.kind \in {"Deleted", "DirCreated"} /\ Stamped
      /\ disk' = [disk EXCEPT ![n] = d] /\ store' = [store EXCEPT ![n] = t]
      /\ events' \subseteq events
      /\ UNCHANGED <<manifests, pulls, latest, moved, circumstances>>
  BY DEF HandleEvent, Apply, Record
<1>2. /\ n \in Node /\ e \in Event /\ e.kind \in EventKind /\ e.source \in Path
      /\ store[n] \in Store /\ disk[n] \in DiskState /\ clock \in Nat /\ clock > 0
      /\ Fitting(store[n], disk[n]) /\ Past(store[n], clock) /\ EventFits(e)
  BY ParametersAssumption DEF TypeOK, Kinds, Event
<1>3. /\ c \in States(e.source) /\ (e.kind = "Deleted" <=> c = Missing)
      /\ (e.kind = "DirCreated" <=> c = Dir)
  BY <1>1, <1>2, DistinctMarks DEF States, EventFits
<1>4. /\ Fitting(t, d) /\ Past(t, clock)
      /\ \A q \in Path \ {e.source} : Rank(t, q) = Rank(store[n], q)
      /\ Rank(t, e.source) = 1 + clock \/ Rank(t, e.source) = Rank(store[n], e.source)
  BY <1>1, <1>2, <1>3, AppliedState
<1>5. d[e.source] = c /\ \A q \in Path \ {e.source} : d[q] = disk[n][q]
  BY <1>2 DEF DiskState
<1>6. ASSUME Pair, circumstances' = {}
      PROVE  TakesOver(n, d, t)
  <2>1. FinalPath(e) = e.source
    BY <1>1, <1>2 DEF EventFits, FinalPath
  <2>2. e.source \notin moved /\ c = latest[e.source]
    <3>1. TrueEvent(v)
      BY <1>1, <1>6 DEF Won, LastSpreads
    <3> QED
      BY <1>1, <2>1, <3>1 DEF TrueEvent
  <2> QED
    BY <1>2, <1>4, <1>5, <2>2 DEF TakesOver
<1>7. Handles(n)
  BY <1>1, <1>4, <1>6 DEF Handles, Alters
<1> QED
  BY <1>2, <1>7, HandlingWon

(* An announced move or copy, done with what the node has at the source.    *)
LEMMA TransferredEventWon ==
    ASSUME TypeOK, TypeOK', Kinds, Won, NEW v \in events, v.event.kind \in {"Moved", "Copied"},
           disk[v.to][v.event.source] # Missing, HandleEvent(v)
    PROVE  Kinds' /\ Won'
<1> PICK n : n = v.to
  OBVIOUS
<1> PICK e : e = v.event
  OBVIOUS
<1> PICK c : c = disk[n][e.source]
  OBVIOUS
<1> PICK d : d = Transferred(disk[n], e.kind, e.source, e.destination, c)
  OBVIOUS
<1> PICK t : t = apply_event(store[n], d, e, clock)
  OBVIOUS
<1>1. /\ n \in Node /\ e \in Event /\ e.source \in Path
      /\ store[n] \in Store /\ disk[n] \in DiskState /\ clock \in Nat /\ clock > 0
      /\ Fitting(store[n], disk[n]) /\ Past(store[n], clock) /\ EventFits(e)
  BY ParametersAssumption DEF TypeOK, Kinds, Event
<1>2. /\ e.kind \in {"Moved", "Copied"} /\ e.source \notin Folders /\ c # Missing
      /\ e.destination \in Path \ (Folders \cup {e.source})
  BY <1>1 DEF EventFits
<1>3. FinalPath(e) = e.destination
  BY <1>2, DistinctMarks DEF FinalPath
<1>4. /\ Stamped /\ disk' = [disk EXCEPT ![n] = d] /\ store' = [store EXCEPT ![n] = t]
      /\ events' \subseteq events
      /\ circumstances' = circumstances \cup (IF c # e.checksum THEN {"unequal"} ELSE {})
      /\ UNCHANGED <<manifests, pulls, latest, moved>>
  BY <1>2, <1>3 DEF HandleEvent, Record
<1>5. /\ Fitting(t, d) /\ Past(t, clock)
      /\ Rank(t, e.destination) = 1 + clock
      /\ \A q \in Path \ {e.source, e.destination} : Rank(t, q) = Rank(store[n], q)
      /\ e.kind = "Copied" => Rank(t, e.source) = Rank(store[n], e.source)
  BY <1>1, <1>2, TransferredState
<1>6. /\ d[e.destination] = c
      /\ \A q \in Path \ {e.source, e.destination} : d[q] = disk[n][q]
      /\ d[e.source] = IF e.kind = "Moved" THEN Missing ELSE disk[n][e.source]
  BY <1>1, <1>2 DEF DiskState, Transferred
<1>7. ASSUME Pair, circumstances' = {}
      PROVE  TakesOver(n, d, t)
  <2>1. TrueEvent(v) /\ c = e.checksum
    BY <1>4, <1>7 DEF Won, LastSpreads
  <2>2. /\ e.destination \notin moved /\ c = latest[e.destination]
        /\ e.kind = "Moved" => e.source \in moved
    BY <1>2, <1>3, <2>1 DEF TrueEvent
  <2>3. ASSUME NEW q \in Path \ moved
        PROVE  /\ d[q] \in {disk[n][q], latest[q]}
               /\ \/ Rank(t, q) = Rank(store[n], q)
                  \/ Rank(t, q) = 1 + clock /\ d[q] = latest[q]
    <3>1. CASE q = e.destination
      BY <1>5, <1>6, <2>2, <3>1
    <3>2. CASE q = e.source
      BY <1>2, <1>5, <1>6, <2>2, <3>2
    <3>3. CASE q \notin {e.source, e.destination}
      BY <1>5, <1>6, <3>3
    <3> QED
      BY <3>1, <3>2, <3>3
  <2>4. \A q \in moved : d[q] \in {disk[n][q], Missing}
    BY <1>6, <2>2 DEF TypeOK
  <2> QED
    BY <2>3, <2>4 DEF TakesOver
<1>8. Handles(n)
  BY <1>4, <1>5, <1>7 DEF Handles, Alters
<1> QED
  BY <1>1, <1>8, HandlingWon

(* An announcement for which a pull is started.                            *)
LEMMA PulledEventWon ==
    ASSUME TypeOK, TypeOK', Kinds, Won, NEW v \in events,
           \/ v.event.kind \in {"Created", "Edited"}
           \/ v.event.kind \in {"Moved", "Copied"} /\ disk[v.to][v.event.source] = Missing,
           HandleEvent(v)
    PROVE  Kinds' /\ Won'
<1> PICK e : e = v.event
  OBVIOUS
<1> PICK n : n = v.to
  OBVIOUS
<1> PICK paths : paths = {FinalPath(e)}
  OBVIOUS
<1>1. /\ pulls' = pulls \cup Accepted(n, v.from, paths) /\ events' \subseteq events
      /\ UNCHANGED <<disk, store, clock, manifests, latest, moved, circumstances>>
  BY DEF HandleEvent
<1>2. n \in Node /\ EventFits(e)
  BY DEF TypeOK, Kinds
<1>3. FinalPath(e) \notin Folders
  BY <1>2 DEF EventFits, FinalPath
<1>4. ASSUME NEW w \in pulls' \ pulls
      PROVE  w.peer = v.from /\ w.path = FinalPath(e) /\ w.content = NoChecksum
  BY <1>1, AcceptedPulls
<1>5. ASSUME Pair, circumstances' = {}, NEW w \in pulls' \ pulls
      PROVE  TruePull(w)'
  <2>1. TrueEvent(v)
    BY <1>1, <1>5 DEF Won, LastSpreads
  <2> QED
    BY <1>1, <1>4, <2>1 DEF TrueEvent, TruePull
<1>6. Handles(n)
  <2>1. \A w \in pulls' \ pulls : w.path \notin Folders
    BY <1>3, <1>4
  <2> QED
    BY <1>1, <1>5, <2>1 DEF Handles, Alters
<1> QED
  BY <1>2, <1>6, HandlingWon

LEMMA HandleEventWon ==
    ASSUME TypeOK, TypeOK', Kinds, Won, NEW v \in events, HandleEvent(v)
    PROVE  Kinds' /\ Won'
<1>1. v.event.kind \in EventKind
  BY DEF TypeOK, Event
<1> QED
  BY <1>1, AppliedEventWon, TransferredEventWon, PulledEventWon DEF EventKind

(* The state of each path after the events of a manifest.                  *)
LEMMA RecordedStates ==
    ASSUME TypeOK, StoresFit, NEW n \in Node, NEW deleted, NEW created, created \subseteq Folders,
           deleted \cap created = {},
           NEW d, d = [path \in Path |-> CASE path \in deleted -> Missing
                                            [] path \in created -> Dir
                                            [] OTHER -> disk[n][path]]
    PROVE  LET t == Recording(n, d, deleted, created) IN
           /\ Fitting(t, d) /\ Past(t, clock)
           /\ \A path \in Path :
                 \/ Rank(t, path) = Rank(store[n], path) /\ d[path] = disk[n][path]
                 \/ Rank(t, path) = 1 + clock /\ path \in deleted /\ d[path] = Missing
                 \/ Rank(t, path) = 1 + clock /\ path \in created /\ d[path] = Dir
<1> PICK t : t = Recording(n, d, deleted, created)
  OBVIOUS
<1>1. /\ store[n] \in Store /\ disk[n] \in DiskState /\ clock \in Nat /\ clock > 0
      /\ Fitting(store[n], disk[n]) /\ Past(store[n], clock)
  BY ParametersAssumption DEF TypeOK, StoresFit
<1>2. ASSUME NEW path \in Path, NEW kind \in {"Deleted", "DirCreated"}, NEW c \in States(path),
             c = IF kind = "Deleted" THEN Missing ELSE Dir, d[path] = c,
             NEW u, u = apply_event(store[n], d, On(kind, path, c), clock),
             t.rows[path] = u.rows[path], t.deleted_at[path] = u.deleted_at[path]
      PROVE  /\ t.rows[path] = NoRow <=> d[path] = Missing
             /\ t.rows[path] # NoRow => t.rows[path].kind = KindOn(d[path])
             /\ t.rows[path] # NoRow => t.rows[path].updated_at <= clock
             /\ t.deleted_at[path] <= clock
             /\ \/ Rank(t, path) = 1 + clock
                \/ Rank(t, path) = Rank(store[n], path) /\ d[path] = disk[n][path]
  <2> PICK there : there = [disk[n] EXCEPT ![path] = c]
    OBVIOUS
  <2>1. there[path] = c
    BY <1>1 DEF DiskState
  <2>2. u = apply_event(store[n], there, On(kind, path, c), clock)
    <3> PICK e : e = On(kind, path, c)
      OBVIOUS
    <3>1. FinalPath(e) = path
      BY DEF FinalPath, On, Envelope
    <3>2. d[FinalPath(e)] = there[FinalPath(e)]
      BY <1>2, <2>1, <3>1
    <3>3. NewRow(store[n], d, e, clock) = NewRow(store[n], there, e, clock)
      BY <3>2 DEF NewRow, Hash
    <3>4. apply_event(store[n], d, e, clock) = apply_event(store[n], there, e, clock)
      BY <3>3 DEF apply_event, Move
    <3> QED
      BY <1>2, <3>4
  <2>3. (kind = "Deleted" <=> c = Missing) /\ (kind = "DirCreated" <=> c = Dir)
    BY <1>2, DistinctMarks
  <2>4. /\ Fitting(u, there) /\ Past(u, clock)
        /\ disk[n][path] # Missing \/ c # Missing => Rank(u, path) = 1 + clock
        /\ disk[n][path] = Missing /\ c = Missing => Rank(u, path) = Rank(store[n], path)
    BY <1>1, <2>2, <2>3, AppliedState DEF EventKind
  <2>5. Rank(t, path) = Rank(u, path)
    BY <1>2 DEF Rank
  <2>6. /\ u.rows[path] = NoRow <=> d[path] = Missing
        /\ u.rows[path] # NoRow => u.rows[path].kind = KindOn(d[path])
    BY <1>2, <2>1, <2>4 DEF Fitting
  <2>7. /\ u.rows[path] # NoRow => u.rows[path].updated_at <= clock
        /\ u.deleted_at[path] <= clock
    BY <2>4 DEF Past
  <2> QED
    BY <1>2, <2>4, <2>5, <2>6, <2>7
<1>3. ASSUME NEW path \in Path
      PROVE  /\ d[path] \in States(path)
             /\ t.rows[path] = NoRow <=> d[path] = Missing
             /\ t.rows[path] # NoRow => t.rows[path].kind = KindOn(d[path])
             /\ t.rows[path] # NoRow => t.rows[path].updated_at <= clock
             /\ t.deleted_at[path] <= clock
             /\ \/ Rank(t, path) = Rank(store[n], path) /\ d[path] = disk[n][path]
                \/ Rank(t, path) = 1 + clock /\ path \in deleted /\ d[path] = Missing
                \/ Rank(t, path) = 1 + clock /\ path \in created /\ d[path] = Dir
  <2>1. CASE path \in deleted
    <3> PICK u : u = apply_event(store[n], d, On("Deleted", path, Missing), clock)
      OBVIOUS
    <3>1. t.rows[path] = u.rows[path] /\ t.deleted_at[path] = u.deleted_at[path]
      BY <2>1, RecordingRows
    <3>2. d[path] = Missing /\ Missing \in States(path)
      BY <2>1 DEF States
    <3> QED
      BY <1>2, <2>1, <3>1, <3>2
  <2>2. CASE path \notin deleted /\ path \in created
    <3> PICK u : u = apply_event(store[n], d, On("DirCreated", path, Dir), clock)
      OBVIOUS
    <3>1. t.rows[path] = u.rows[path] /\ t.deleted_at[path] = u.deleted_at[path]
      BY <2>2, RecordingRows
    <3>2. d[path] = Dir /\ Dir \in States(path)
      BY <2>2 DEF States
    <3> QED
      BY <1>2, <2>2, <3>1, <3>2
  <2>3. CASE path \notin deleted /\ path \notin created
    <3>1. t.rows[path] = store[n].rows[path] /\ t.deleted_at[path] = store[n].deleted_at[path]
      BY <2>3, RecordingRows
    <3>2. d[path] = disk[n][path]
      BY <2>3
    <3>3. Rank(t, path) = Rank(store[n], path)
      BY <3>1 DEF Rank
    <3>4. /\ d[path] \in States(path)
          /\ t.rows[path] = NoRow <=> d[path] = Missing
          /\ t.rows[path] # NoRow => t.rows[path].kind = KindOn(d[path])
      BY <1>1, <3>1, <3>2 DEF Fitting
    <3>5. /\ t.rows[path] # NoRow => t.rows[path].updated_at <= clock
          /\ t.deleted_at[path] <= clock
      BY <1>1, <3>1 DEF Past
    <3> QED
      BY <3>2, <3>3, <3>4, <3>5
  <2> QED
    BY <2>1, <2>2, <2>3
<1>4. Fitting(t, d) /\ Past(t, clock)
  BY <1>3 DEF Fitting, Past
<1> QED
  BY <1>3, <1>4

(* What a manifest says of a path that is acted on: it counts for more than  *)
(* what the node has.                                                     *)
LEMMA ActedOn ==
    ASSUME TypeOK, Kinds, NEW x \in manifests, NEW kind, NEW path,
           path \in Of(diff_manifests(Manifest(x.to), x.manifest), kind)
    PROVE  LET entry == latest_states(x.manifest)[path] IN
           /\ path \in Path /\ path \in DOMAIN latest_states(x.manifest)
           /\ kind = ActionFor(entry.kind)
           /\ EntryFits(entry, path)
           /\ 1 + entry.updated_at.time > Rank(store[x.to], path)
<1> PICK n : n = x.to
  OBVIOUS
<1> PICK local : local = Manifest(n)
  OBVIOUS
<1> PICK mine : mine = latest_states(local)
  OBVIOUS
<1> PICK theirs : theirs = latest_states(x.manifest)
  OBVIOUS
<1>1. /\ path \in DOMAIN theirs /\ kind = ActionFor(theirs[path].kind)
      /\ path \in DOMAIN mine => Newer(theirs[path].updated_at, mine[path].updated_at)
  <2>1. PICK a \in diff_manifests(local, x.manifest) : a.action = kind /\ a.path = path
    BY DEF Of
  <2> QED
    BY <2>1 DEF diff_manifests
<1>2. path \in Path
  BY <1>1 DEF TypeOK, latest_states
<1>3. /\ store[n] \in Store /\ disk[n] \in DiskState /\ clock \in Nat
      /\ Fitting(store[n], disk[n]) /\ Past(store[n], clock)
  BY ParametersAssumption DEF TypeOK, Kinds
<1>4. EntryFits(theirs[path], path)
  BY <1>1 DEF Kinds
<1> PICK rank : rank = Rank(store[n], path)
  OBVIOUS
<1>5. rank \in Nat
  BY <1>2, <1>3, RankType
<1>6. /\ path \in DOMAIN mine <=> rank > 0
      /\ path \in DOMAIN mine => mine[path].updated_at = [scanned |-> FALSE, time |-> rank - 1]
  <2>1. mine = latest_states(build_manifest(store[n], disk[n], [q \in Path |-> 1]))
    BY DEF Manifest
  <2> QED
    BY <1>2, <1>3, <2>1, ManifestRanks
<1> PICK time : time = theirs[path].updated_at.time
  OBVIOUS
<1>7. 1 + time > rank
  <2>1. time \in Nat
    BY <1>4 DEF EntryFits
  <2>2. CASE rank = 0
    BY <2>1, <2>2
  <2>3. CASE rank > 0
    <3>1. Newer(theirs[path].updated_at, mine[path].updated_at)
      BY <1>1, <1>6, <2>3
    <3>2. mine[path].updated_at.scanned = FALSE /\ mine[path].updated_at.time = rank - 1
      BY <1>6, <2>3
    <3>3. theirs[path].updated_at.scanned = FALSE
      BY <1>4 DEF EntryFits
    <3>4. time > rank - 1
      BY <3>1, <3>2, <3>3 DEF Newer
    <3> QED
      BY <1>5, <2>1, <3>4
  <2> QED
    BY <1>5, <2>2, <2>3
<1> QED
  BY <1>1, <1>2, <1>4, <1>7

(* A manifest is acted on: paths are removed and made, and pulls accepted.  *)
LEMMA HandleManifestWon ==
    ASSUME TypeOK, TypeOK', Kinds, Won, NEW x \in manifests, HandleManifest(x)
    PROVE  Kinds' /\ Won'
<1> PICK n : n = x.to
  OBVIOUS
<1> PICK actions : actions = diff_manifests(Manifest(n), x.manifest)
  OBVIOUS
<1> PICK deleted : deleted = Of(actions, "Delete")
  OBVIOUS
<1> PICK created : created = Of(actions, "CreateDir")
  OBVIOUS
<1> PICK pulled : pulled = Of(actions, "Pull")
  OBVIOUS
<1> PICK d : d = [path \in Path |-> CASE path \in deleted -> Missing
                                      [] path \in created -> Dir
                                      [] OTHER -> disk[n][path]]
  OBVIOUS
<1> PICK t : t = Recording(n, d, deleted, created)
  OBVIOUS
<1> PICK theirs : theirs = latest_states(x.manifest)
  OBVIOUS
<1>1. /\ manifests' = manifests \ {x}
      /\ \/ UNCHANGED <<disk, store, clock>>
         \/ Stamped /\ disk' = [disk EXCEPT ![n] = d] /\ store' = [store EXCEPT ![n] = t]
      /\ pulls' = pulls \cup Accepted(n, x.from, pulled)
      /\ circumstances' = circumstances \cup (IF moved \cap pulled # {} THEN {"offered"} ELSE {})
      /\ UNCHANGED <<events, latest, moved>>
  BY DEF HandleManifest
<1>2. n \in Node /\ x.from \in Node /\ x.from # n /\ StoresFit
  BY DEF TypeOK, Kinds, StoresFit
<1>3. ASSUME NEW kind, NEW path \in Of(actions, kind)
      PROVE  /\ path \in Path /\ path \in DOMAIN theirs /\ kind = ActionFor(theirs[path].kind)
             /\ theirs[path].kind \in {"deleted", IF path \in Folders THEN "folder" ELSE "file"}
             /\ 1 + theirs[path].updated_at.time > Rank(store[n], path)
  BY <1>3, ActedOn DEF EntryFits
<1>4. /\ \A path \in deleted : path \in Path /\ theirs[path].kind = "deleted"
      /\ \A path \in created : path \in Folders /\ theirs[path].kind = "folder"
      /\ \A path \in pulled : path \notin Folders
  BY <1>3 DEF ActionFor
<1>5. deleted \cap created = {}
  BY <1>4
<1>6. /\ Fitting(t, d) /\ Past(t, clock)
      /\ \A path \in Path :
            \/ Rank(t, path) = Rank(store[n], path) /\ d[path] = disk[n][path]
            \/ Rank(t, path) = 1 + clock /\ path \in deleted /\ d[path] = Missing
            \/ Rank(t, path) = 1 + clock /\ path \in created /\ d[path] = Dir
  <2>1. created \subseteq Folders
    BY <1>4
  <2> QED
    BY <1>2, <1>5, <2>1, RecordedStates
<1>7. ASSUME Pair, circumstances' = {}, NEW kind, NEW path \in Of(actions, kind), path \notin moved
      PROVE  disk[x.from][path] = latest[path] /\ theirs[path].kind = KindOn(latest[path])
  <2>1. TrueManifest(x)
    BY <1>1, <1>7 DEF Won, LastSpreads
  <2> QED
    BY <1>3, <1>7, <2>1 DEF TrueManifest
<1>8. ASSUME Pair, circumstances' = {}
      PROVE  TakesOver(n, d, t)
  <2>1. \A path \in deleted \ moved : latest[path] = Missing
    BY <1>4, <1>7, <1>8 DEF KindOn
  <2>2. \A path \in created \ moved : latest[path] = Dir
    BY <1>4, <1>7, <1>8 DEF KindOn
  <2>3. moved \cap created = {} /\ moved \subseteq Path
    <3>1. MovedIsGone
      BY <1>1, <1>8 DEF Won, LastSpreads
    <3> QED
      BY <1>4, <3>1 DEF MovedIsGone, TypeOK
  <2> QED
    BY <1>6, <2>1, <2>2, <2>3 DEF TakesOver
<1>9. ASSUME NEW w \in pulls' \ pulls
      PROVE  w.peer = x.from /\ w.path \in pulled /\ w.content = NoChecksum
  BY <1>1, AcceptedPulls
<1>10. disk'[x.from] = disk[x.from]
  BY <1>1, <1>2 DEF TypeOK
<1>11. ASSUME Pair, circumstances' = {}, NEW w \in pulls' \ pulls
       PROVE  TruePull(w)'
  <2>1. w.path \notin moved
    BY <1>1, <1>9, <1>11
  <2>2. disk[x.from][w.path] = latest[w.path]
    BY <1>7, <1>9, <1>11, <2>1
  <2> QED
    BY <1>1, <1>9, <1>10, <2>1, <2>2 DEF TruePull
<1>12. Handles(n)
  <2>1. \A w \in pulls' \ pulls : w.path \notin Folders
    BY <1>4, <1>9
  <2>2. Alters(n)
    BY <1>1, <1>6, <1>8 DEF Alters
  <2> QED
    BY <1>1, <1>11, <2>1, <2>2 DEF Handles
<1> QED
  BY <1>2, <1>12, HandlingWon

(* At first every node has the same, recorded at the same time.             *)
LEMMA InitWon == Init => Kinds /\ Won
<1> SUFFICES ASSUME Init
             PROVE  Kinds /\ Won
  OBVIOUS
<1>1. TypeOK
  BY InitType
<1>2. ASSUME NEW n \in Node
      PROVE  /\ disk[n] = Agreed
             /\ \A path \in Path :
                   /\ store[n].rows[path] =
                         IF path \in Held
                         THEN [kind |-> "file", checksum |-> Initial, updated_at |-> 0]
                         ELSE NoRow
                   /\ store[n].deleted_at[path] = 0
  BY DEF Init, EmptyStore
<1>3. [kind |-> "file", checksum |-> Initial, updated_at |-> 0] # NoRow
  <2>1. [kind |-> "file", checksum |-> Initial, updated_at |-> 0] \in Row
    BY ParametersAssumption DEF Row
  <2> QED
    BY <2>1, NoRowIsNoRow
<1>4. ASSUME NEW n \in Node
      PROVE  Fitting(store[n], disk[n]) /\ Past(store[n], clock)
  <2> PICK row : row = [kind |-> "file", checksum |-> Initial, updated_at |-> 0]
    OBVIOUS
  <2>1. row # NoRow /\ row.kind = "file" /\ row.updated_at = 0
    BY <1>3
  <2>2. Fitting(store[n], disk[n])
    <3> SUFFICES ASSUME NEW path \in Path
                 PROVE  /\ disk[n][path] \in States(path)
                        /\ store[n].rows[path] = NoRow <=> disk[n][path] = Missing
                        /\ store[n].rows[path] # NoRow =>
                              store[n].rows[path].kind = KindOn(disk[n][path])
      BY DEF Fitting
    <3>1. disk[n][path] = IF path \in Held THEN Initial ELSE Missing
      BY <1>2 DEF Agreed
    <3>2. Initial # Missing /\ Initial # Dir /\ (path \in Held => path \notin Folders)
      BY ParametersAssumption, DistinctMarks
    <3>3. disk[n][path] \in States(path)
      BY <3>1, <3>2, ParametersAssumption DEF States
    <3>4. store[n].rows[path] = IF path \in Held THEN row ELSE NoRow
      BY <1>2
    <3> QED
      BY <2>1, <3>1, <3>2, <3>3, <3>4 DEF KindOn
  <2>3. Past(store[n], clock)
    BY <1>2, <2>1 DEF Past, Init
  <2> QED
    BY <2>2, <2>3
<1>5. Kinds
  BY <1>4 DEF Kinds, Init
<1>6. ASSUME Pair
      PROVE  LastIsGreatest
  <2> SUFFICES ASSUME NEW path \in Path
               PROVE  \E n \in Node : /\ disk[n][path] = latest[path]
                                      /\ \A m \in Node : Rank(store[m], path) <= Rank(store[n], path)
    BY DEF LastIsGreatest
  <2>1. PICK n \in Node : TRUE
    BY <1>6 DEF Pair
  <2>2. disk[n][path] = latest[path]
    BY <1>2 DEF Init
  <2>3. \A m \in Node : Rank(store[m], path) = IF path \in Held THEN 1 ELSE 0
    BY <1>2, <1>3 DEF Rank
  <2> QED
    BY <2>1, <2>2, <2>3
<1>7. Won
  BY <1>6 DEF Won, LastSpreads, MovedIsGone, Init
<1> QED
  BY <1>5, <1>7

(* Every step keeps the invariant.                                        *)
LEMMA NextWon == TypeOK /\ TypeOK' /\ Kinds /\ Won /\ [Next]_vars => Kinds' /\ Won'
<1> SUFFICES ASSUME TypeOK, TypeOK', Kinds, Won, [Next]_vars
             PROVE  Kinds' /\ Won'
  OBVIOUS
<1>1. ASSUME NEW n \in Node, NEW path \in Path, NEW c \in Checksum \cup {Dir, Missing},
             NEW reached \in SUBSET (Node \ {n}), Write(n, path, c, reached)
      PROVE  Kinds' /\ Won'
  BY <1>1, WriteWon
<1>2. ASSUME NEW n \in Node, NEW kind \in {"Moved", "Copied"}, NEW source \in Path,
             NEW destination \in Path, NEW reached \in SUBSET (Node \ {n}),
             Transfer(n, kind, source, destination, reached)
      PROVE  Kinds' /\ Won'
  BY <1>2, TransferWon
<1>3. ASSUME NEW m \in Node, NEW n \in Node, SendManifest(m, n)
      PROVE  Kinds' /\ Won'
  BY <1>3, SendManifestWon
<1>4. ASSUME NEW x \in manifests, HandleManifest(x)
      PROVE  Kinds' /\ Won'
  BY <1>4, HandleManifestWon
<1>5. ASSUME NEW v \in events, HandleEvent(v)
      PROVE  Kinds' /\ Won'
  BY <1>5, HandleEventWon
<1>6. ASSUME NEW w \in pulls, Fetch(w) \/ Install(w)
      PROVE  Kinds' /\ Won'
  BY <1>6, FetchWon, InstallWon
<1>7. CASE UNCHANGED vars
  <2>1. UNCHANGED <<disk, store, clock, manifests, events, pulls, latest, moved, circumstances>>
    BY <1>7 DEF vars, net, history
  <2>2. Kinds'
    BY <2>1 DEF Kinds, Fitting, Past
  <2>3. LastSpreads => LastSpreads'
    BY <2>1 DEF LastSpreads, LastIsGreatest, MovedIsGone, TrueManifest, TruePull, TrueEvent
  <2>4. Won'
    BY <2>1, <2>3 DEF Won, Pair
  <2> QED
    BY <2>2, <2>4
<1> QED
  BY <1>1, <1>2, <1>3, <1>4, <1>5, <1>6, <1>7 DEF Next

(* Nodes that agree agree on the last state, if it is that of one of them.   *)
LEMMA AgreedIsLast == TypeOK /\ Won => LastWriteWins
<1> SUFFICES ASSUME TypeOK, Won, Pair, circumstances = {}, Agreement, NEW n \in Node
             PROVE  disk[n] = latest
  BY DEF LastWriteWins
<1>1. LastIsGreatest /\ MovedIsGone
  BY DEF Won, LastSpreads
<1>2. \A path \in Path : disk[n][path] = latest[path]
  <2> TAKE path \in Path
  <2>1. \A m \in Node : disk[m][path] = disk[n][path]
    BY DEF Agreement
  <2>2. CASE path \in moved
    BY <1>1, <2>1, <2>2 DEF MovedIsGone
  <2>3. CASE path \notin moved
    BY <1>1, <2>1, <2>3 DEF LastIsGreatest
  <2> QED
    BY <2>2, <2>3
<1> QED
  BY <1>2 DEF TypeOK, DiskState

(* When two nodes agree, they agree on what a client made last of each path, *)
(* removed or moved away: what apply_manifest_actions or an announcement     *)
(* makes a node take over is never an older state, as long as no change was  *)
(* made during an exchange, no moved file offered, no other content moved.   *)
THEOREM LastWriteIsKept == Spec => []LastWriteWins
<1>1. Init => TypeOK /\ Kinds /\ Won
  BY InitType, InitWon
<1>2. TypeOK /\ Kinds /\ Won /\ [Next]_vars => (TypeOK /\ Kinds /\ Won)'
  BY NextType, NextWon
<1>3. TypeOK /\ Kinds /\ Won => LastWriteWins
  BY AgreedIsLast
<1> QED
  BY <1>1, <1>2, <1>3, PTL DEF Spec
=============================================================================
