------------------------------ MODULE Reconcile ------------------------------
(***************************************************************************)
(* Several nodes that keep their data directories equal: clients write,    *)
(* move, copy and remove files, changes are announced to the peers that    *)
(* can be reached, and manifests are exchanged, compared and acted upon    *)
(* (diff_manifests, apply_manifest_actions, handle_incoming_event).        *)
(*                                                                         *)
(* A pull is accepted, fetched and installed: three steps, between which   *)
(* anything may happen.  How a pull is queued, chunked and retried is the  *)
(* matter of SyncTransfer, how a change reaches the database that of       *)
(* ResourceDb: here it is in the database at once.  All nodes have the     *)
(* same clock.                                                             *)
(***************************************************************************)
EXTENDS ResourceStore, FiniteSets

CONSTANTS
    Node,
    Folders,    \* the paths that are directories; the others are files
    Written,    \* bound: the paths that clients write or remove
    Held,       \* the files that all nodes have at first
    Initial,    \* their content
    Ties,       \* may two changes have the same time?
    MAX_CLOCK,  \* bound: the time
    MAX_WRITES  \* bound: changes made by clients

ASSUME ParametersAssumption ==
    /\ Folders \subseteq Path /\ Written \subseteq Path
    /\ Held \subseteq Path \ Folders /\ Initial \in Checksum
    /\ Ties \in BOOLEAN
    /\ MAX_CLOCK \in Nat \ {0} /\ MAX_WRITES \in Nat

VARIABLES
    disk, store,    \* of each node
    clock,
    manifests,      \* manifests on their way: from, to, manifest
    events,         \* announcements on their way, in no order
    pulls,          \* accepted pulls: node, peer, path, content once fetched
    latest,         \* history: what a client last made of each path
    moved,          \* history: the paths that a client last moved something from
    circumstances,  \* history: what may keep the nodes from what was made last
    writes

net == <<manifests, events, pulls>>
history == <<latest, moved, circumstances, writes>>
vars == <<disk, store, clock, net, history>>

Circumstance == {"overlap",    \* a change was made while the nodes exchanged
                 "offered",    \* a node was offered a file that had been moved
                 "unequal"}    \* a node moved or copied another content

Manifest(n) == build_manifest(store[n], disk[n], [path \in Path |-> 1])

-----------------------------------------------------------------------------
(* Changes *)

\* CURRENT_TIMESTAMP counts seconds: two changes may fall into the same one.
Stamped ==
    /\ clock < MAX_CLOCK
    /\ clock' \in IF Ties THEN {clock, clock + 1} ELSE {clock + 1}

Envelope(kind, source, destination, checksum) ==
    [kind |-> kind, source |-> source, destination |-> destination, checksum |-> checksum]

On(kind, path, c) == Envelope(kind, path, NoPath, IF c \in Checksum THEN c ELSE NoChecksum)

\* The disk of node n becomes d, and the event is recorded.
Record(n, d, e) ==
    /\ disk' = [disk EXCEPT ![n] = d]
    /\ store' = [store EXCEPT ![n] = apply_event(@, d, e, clock)]

\* The state of path on node n becomes c.
Apply(n, kind, path, c) == Record(n, [disk[n] EXCEPT ![path] = c], On(kind, path, c))

Exchanging == net # <<{}, {}, {}>>

\* A client's change: the peers in reached hear of it, the others are not
\* connected.
Change(n, e, reached) ==
    /\ writes < MAX_WRITES
    /\ Stamped
    /\ events' = events \cup {[from |-> n, to |-> m, event |-> e, change |-> writes + 1] :
                                 m \in reached}
    /\ moved' = (moved \ {FinalPath(e)}) \cup (IF e.kind = "Moved" THEN {e.source} ELSE {})
    /\ circumstances' = circumstances \cup (IF Exchanging THEN {"overlap"} ELSE {})
    /\ writes' = writes + 1
    /\ UNCHANGED <<manifests, pulls>>

KindOf(n, path, c) == CASE c = Missing -> "Deleted"
                        [] c = Dir -> "DirCreated"
                        [] disk[n][path] = Missing /\ c \in Checksum -> "Created"
                        [] OTHER -> "Edited"

\* A client makes c of the path.
Write(n, path, c, reached) ==
    /\ path \in Written /\ c # disk[n][path]
    /\ c \in IF path \in Folders THEN {Dir, Missing} ELSE Checksum \cup {Missing}
    /\ Change(n, On(KindOf(n, path, c), path, c), reached)
    /\ Apply(n, KindOf(n, path, c), path, c)
    /\ latest' = [latest EXCEPT ![path] = c]

\* What a disk is after c was moved or copied from source to destination.
Transferred(d, kind, source, destination, c) ==
    IF kind = "Moved" THEN [d EXCEPT ![source] = Missing, ![destination] = c]
                      ELSE [d EXCEPT ![destination] = c]

\* A client moves or copies a file, maybe onto another one.
Transfer(n, kind, source, destination, reached) ==
    LET c == disk[n][source]
        e == Envelope(kind, source, destination, c)
    IN /\ c \in Checksum
       /\ destination \notin Folders \cup {source}
       /\ Change(n, e, reached)
       /\ Record(n, Transferred(disk[n], kind, source, destination, c), e)
       /\ latest' = Transferred(latest, kind, source, destination, c)

\* m answers the request that n sends when a connection is established.
SendManifest(m, n) ==
    /\ m # n
    /\ \A x \in manifests : ~(x.from = m /\ x.to = n)
    /\ manifests' = manifests \cup {[from |-> m, to |-> n, manifest |-> Manifest(m)]}
    /\ UNCHANGED <<disk, store, clock, events, pulls, history>>

-----------------------------------------------------------------------------
(* Pulls *)

IsPending(n, m, path) ==
    \E w \in pulls : w.node = n /\ w.peer = m /\ w.path = path

Accepted(n, m, paths) ==
    {[node |-> n, peer |-> m, path |-> path, content |-> NoChecksum] :
        path \in {q \in paths : ~IsPending(n, m, q)}}

\* Variant: the peer does not look whether it still has the file.
FetchUnchecked(w) ==
    /\ w.content = NoChecksum
    /\ pulls' = (pulls \ {w}) \cup {[w EXCEPT !.content = disk[w.peer][w.path]]}
    /\ UNCHANGED <<disk, store, clock, manifests, events, history>>

\* The peer serves what it has by now; a pull of a missing file is given up.
Fetch(w) ==
    /\ w.content = NoChecksum
    /\ LET c == disk[w.peer][w.path] IN
       pulls' = (pulls \ {w}) \cup
                (IF c \in Checksum THEN {[w EXCEPT !.content = c]} ELSE {})
    /\ UNCHANGED <<disk, store, clock, manifests, events, history>>

\* The file is renamed into place and recorded, at the time of this node.
Install(w) ==
    /\ w.content \in Checksum
    /\ Stamped
    /\ Apply(w.node, "Edited", w.path, w.content)
    /\ pulls' = pulls \ {w}
    /\ UNCHANGED <<manifests, events, history>>

-----------------------------------------------------------------------------
(* What a node does with a manifest and with an announcement *)

Of(actions, kind) == {a.path : a \in {b \in actions : b.action = kind}}

\* One store after the events of a set of paths, each path having its own row.
Recording(n, d, deleted, created) ==
    LET after(path) ==
            IF path \in deleted
            THEN apply_event(store[n], d, On("Deleted", path, Missing), clock)
            ELSE IF path \in created
                 THEN apply_event(store[n], d, On("DirCreated", path, Dir), clock)
                 ELSE store[n]
    IN [rows       |-> [path \in Path |-> after(path).rows[path]],
        deleted_at |-> [path \in Path |-> after(path).deleted_at[path]]]

\* apply_manifest_actions
HandleManifest(x) ==
    \E mine \in {Manifest(x.to)} : \E actions \in {diff_manifests(mine, x.manifest)} :
       LET n       == x.to
           deleted == Of(actions, "Delete")
           created == Of(actions, "CreateDir")
           pulled  == Of(actions, "Pull")
           d       == [path \in Path |-> CASE path \in deleted -> Missing
                                           [] path \in created -> Dir
                                           [] OTHER -> disk[n][path]]
       IN /\ manifests' = manifests \ {x}
          /\ IF deleted \cup created = {}
             THEN UNCHANGED <<disk, store, clock>>
             ELSE /\ Stamped
                  /\ disk' = [disk EXCEPT ![n] = d]
                  /\ store' = [store EXCEPT ![n] = Recording(n, d, deleted, created)]
          /\ pulls' = pulls \cup Accepted(n, x.from, pulled)
          /\ circumstances' = circumstances \cup
                                 (IF moved \cap pulled # {} THEN {"offered"} ELSE {})
          /\ UNCHANGED <<events, latest, moved, writes>>

\* handle_incoming_event.  A move or a copy is done with what this node has at
\* the source, and recorded with the checksum that the peer announced.
HandleEvent(v) ==
    LET n == v.to
        e == v.event
    IN
    /\ events' = events \ {v}
    /\ \/ /\ e.kind \in {"Deleted", "DirCreated"}
          /\ Stamped
          /\ Apply(n, e.kind, e.source, IF e.kind = "Deleted" THEN Missing ELSE Dir)
          /\ UNCHANGED <<pulls, circumstances>>
       \/ /\ e.kind \in {"Moved", "Copied"} /\ disk[n][e.source] # Missing
          /\ Stamped
          /\ Record(n, Transferred(disk[n], e.kind, e.source, FinalPath(e), disk[n][e.source]), e)
          /\ circumstances' = circumstances \cup
                                 (IF disk[n][e.source] # e.checksum THEN {"unequal"} ELSE {})
          /\ UNCHANGED pulls
       \/ /\ \/ e.kind \in {"Created", "Edited"}
             \/ e.kind \in {"Moved", "Copied"} /\ disk[n][e.source] = Missing
          /\ pulls' = pulls \cup Accepted(n, v.from, {FinalPath(e)})
          /\ UNCHANGED <<disk, store, clock, circumstances>>
    /\ UNCHANGED <<manifests, latest, moved, writes>>

-----------------------------------------------------------------------------
(* The specification *)

\* The nodes have agreed on what they hold.
Agreed == [path \in Path |-> IF path \in Held THEN Initial ELSE Missing]

Init ==
    /\ disk = [n \in Node |-> Agreed]
    /\ store = [n \in Node |->
                  [EmptyStore EXCEPT !.rows = [path \in Path |->
                      IF path \in Held THEN [kind |-> "file", checksum |-> Initial, updated_at |-> 0]
                                       ELSE NoRow]]]
    /\ clock = 1
    /\ manifests = {} /\ events = {} /\ pulls = {}
    /\ latest = Agreed
    /\ moved = {}
    /\ circumstances = {}
    /\ writes = 0

Next ==
    \/ \E n \in Node, path \in Path, c \in Checksum \cup {Dir, Missing} :
          \E reached \in SUBSET (Node \ {n}) : Write(n, path, c, reached)
    \/ \E n \in Node, kind \in {"Moved", "Copied"}, source, destination \in Path :
          \E reached \in SUBSET (Node \ {n}) : Transfer(n, kind, source, destination, reached)
    \/ \E m, n \in Node : SendManifest(m, n)
    \/ \E x \in manifests : HandleManifest(x)
    \/ \E v \in events : HandleEvent(v)
    \/ \E w \in pulls : Fetch(w) \/ Install(w)

Spec == Init /\ [][Next]_vars

\* Connections are lost and established again, so that manifests keep being
\* exchanged between any two nodes; what is on its way is handled.
FairSpec ==
    /\ Spec
    /\ \A n \in Node : \A m \in Node \ {n} :
          /\ WF_vars(SendManifest(m, n))
          /\ WF_vars(\E x \in manifests : x.from = m /\ x.to = n /\ HandleManifest(x))
    /\ WF_vars(\E v \in events : HandleEvent(v))
    /\ WF_vars(\E w \in pulls : Fetch(w) \/ Install(w))

-----------------------------------------------------------------------------
(* Properties *)

TypeOK ==
    /\ disk \in [Node -> DiskState]
    /\ store \in [Node -> Store]
    /\ clock \in 1..MAX_CLOCK
    /\ \A x \in manifests : /\ x.from \in Node /\ x.to \in Node \ {x.from}
                            /\ DOMAIN x.manifest.resources \subseteq Path
                            /\ DOMAIN x.manifest.tombstones \subseteq Path
    /\ events \subseteq [from : Node, to : Node, event : Event, change : 1..MAX_WRITES]
    /\ pulls \subseteq [node : Node, peer : Node, path : Path,
                      content : Checksum \cup {NoChecksum}]
    /\ latest \in DiskState
    /\ moved \subseteq Path
    /\ circumstances \subseteq Circumstance
    /\ writes \in 0..MAX_WRITES

Agreement == \A n, m \in Node : disk[n] = disk[m]

\* There are at most two nodes.
Pair == \E n, m \in Node : Node = {n, m}

\* When two nodes agree, what they agree on is what a client made last: if no
\* change was made while they exchanged, none was offered a file that had been
\* moved, and each moved the same content.  Among three it is not so: what a node
\* passes on, a deletion too, is newer than a change that it did not know of.
LastWriteWins ==
    Pair /\ circumstances = {} /\ Agreement => \A n \in Node : disk[n] = latest

\* Two nodes that compare their manifests never both act on the same path: a
\* file is not pulled in both directions, nor deleted at one end while the other
\* end pulls it.
NoCrossing ==
    \A n, m \in Node : n # m =>
        LET here  == {a.path : a \in diff_manifests(Manifest(n), Manifest(m))}
            there == {a.path : a \in diff_manifests(Manifest(m), Manifest(n))}
        IN here \cap there = {}

\* The files that both nodes report with the same checksum, and so leave alone.
Skipped(n, m) ==
    LET mine   == Manifest(n).resources
        theirs == Manifest(m).resources
    IN {path \in DOMAIN mine \cap DOMAIN theirs : SameFile(mine[path], theirs[path])}

\* diff_manifests leaves a file alone that both nodes report with the same
\* checksum: they have the same file then.
ReportedIsEqual ==
    \A n, m \in Node : n # m => \A path \in Skipped(n, m) : disk[n][path] = disk[m][path]

\* This is so unless a node moved or copied an old content, which is recorded
\* under the checksum that the peer announced for the new one.
SkippedIsEqual == "unequal" \notin circumstances => ReportedIsEqual

\* Once clients are done, repeated exchanges make the nodes agree, and then stop
\* transferring files, whatever was announced, missed or made at the same time;
\* unless a node moved or copied an old content under the checksum of the new.
Converges == <>[]("unequal" \in circumstances \/ (Agreement /\ pulls = {}))
=============================================================================
