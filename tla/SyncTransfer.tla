---------------------------- MODULE SyncTransfer ----------------------------
(***************************************************************************)
(* The serial pull engine of one node: SyncState of sync.rs (one active    *)
(* transfer, a FIFO of queued pulls, a retry count), the event loop of     *)
(* p2p.rs that feeds it, and the peers that serve the files it asks for.   *)
(*                                                                         *)
(* An exchange is one libp2p request-response substream.  It is a record   *)
(* in the bag net, first as the request, then as the response on its way   *)
(* back, and it ends when the event loop consumes the response or the      *)
(* failure.  Substreams are independent, so any exchange may progress next *)
(* and responses overtake one another.                                     *)
(*                                                                         *)
(* A file is a sequence of blocks, an offset counts blocks, and the CRC32  *)
(* of a file is the file itself (no collisions).                           *)
(***************************************************************************)
EXTENDS Integers, Sequences, FiniteSets, Bags

CONSTANTS
    Peer,           \* the other nodes
    Path,           \* the wire paths of the files
    Block,          \* what a file is made of
    Versions,       \* Versions[path]: the contents a peer may hold at path
    NoFile,         \* the path does not exist
    Tombstone,      \* nor here, but the database remembers a file that was removed
    NoTransfer,     \* current_transfer = None
    CHUNK_SIZE,     \* blocks per FileChunk
    MAX_RETRIES,    \* of retry_current, 3 in the code
    InitialFiles,   \* InitialFiles[peer][path]: what the peers hold at first
    Limit           \* bounds on what the environment does, one per field

VARIABLES
    sync,           \* SyncState: current_transfer, queued_pulls, current_retry
    net,            \* bag of the exchanges in progress
    links,          \* links[peer]: open connections to the peer
    connected_peers,\* the set of that name in run_discovery
    todo,           \* actions of a manifest that are not applied yet
    shared,         \* shared[peer][path]: the file on the peer's disk
    local,          \* local[path]: the file this node has materialized
    alive,          \* FALSE once a panic has ended the p2p task
    used            \* how much of Limit is spent

vars == <<sync, net, links, connected_peers, todo, shared, local, alive, used>>
state == <<sync, net, todo, local, alive>>          \* what the handlers change
world == <<links, connected_peers, shared, used>>   \* what they leave alone

-----------------------------------------------------------------------------
(* Types.  A definition marked "Variant" is a plausible mistake in the code *)
(* that the next definition translates; no specification uses it.          *)

Job == [peer : Peer, path : Path]

\* The handle and the temp file: not opened, open with the temp file linked
\* at temp_path, open with the temp file removed by an earlier retry.
FileHandle == {"none", "linked", "unlinked"}

SyncAction == [peer : Peer, path : Path, action : {"Pull", "Delete"}]

ActiveTransfer == [peer : Peer, path : Path, file : FileHandle,
                   written : Seq(Block), expected : Seq(Block)]

SyncState == [current_transfer : ActiveTransfer \cup {NoTransfer},
              queued_pulls     : Seq(Job),
              current_retry    : Nat]

Content(path) == Versions[path] \cup {NoFile}
FileMap == {f \in [Path -> UNION {Content(path) : path \in Path}] :
               \A path \in Path : f[path] \in Content(path)}

\* What this node has at a path that holds no file.
Absent == {NoFile, Tombstone}

Budget == [edits : Nat, announces : Nat, links : Nat, closes : Nat,
           failures : Nat, ioErrors : Nat, dbErrors : Nat]

ASSUME ConstantsAssumption ==
    /\ Versions \in [Path -> SUBSET Seq(Block)]
    /\ \A path \in Path : NoFile \notin Versions[path] /\ Tombstone \notin Versions[path]
    /\ NoTransfer \notin ActiveTransfer
    /\ CHUNK_SIZE \in Nat \ {0}
    /\ MAX_RETRIES \in Nat
    /\ InitialFiles \in [Peer -> FileMap]
    /\ Limit \in Budget

-----------------------------------------------------------------------------
(* Exchanges *)

FetchFile(p, path)            == [kind |-> "FetchFile", peer |-> p, path |-> path]
FetchFileChunk(p, path, from) == [kind |-> "FetchFileChunk", peer |-> p,
                                  path |-> path, offset |-> from]
ManifestRequest(p)            == [kind |-> "Manifest", peer |-> p]
EventRequest(p)               == [kind |-> "Event", peer |-> p]

FileStart(p, path, checksum)  == [kind |-> "FileStart", peer |-> p,
                                  path |-> path, checksum |-> checksum]
FileChunk(p, path, data, from, last) ==
    [kind |-> "FileChunk", peer |-> p, path |-> path,
     data |-> data, offset |-> from, is_last |-> last]
NotFound(p, path)             == [kind |-> "NotFound", peer |-> p, path |-> path]
ManifestResponse(p, files)    == [kind |-> "ManifestResponse", peer |-> p,
                                  files |-> files]
Ack(p)                        == [kind |-> "Ack", peer |-> p]
OutboundFailed(p)             == [kind |-> "OutboundFailure", peer |-> p]

\* A change the peer announces: the only exchange the peer starts.
PeerEvent(p, path, kind)      == [kind |-> "PeerEvent", peer |-> p, path |-> path,
                                  event_kind |-> kind]

Exchange ==
         [kind : {"FetchFile", "NotFound"}, peer : Peer, path : Path]
    \cup [kind : {"PeerEvent"}, peer : Peer, path : Path,
          event_kind : {"Edited", "Deleted"}]
    \cup [kind : {"FetchFileChunk"}, peer : Peer, path : Path, offset : Nat]
    \cup [kind : {"Manifest", "Event", "Ack", "OutboundFailure"}, peer : Peer]
    \cup [kind : {"FileStart"}, peer : Peer, path : Path,
          checksum : UNION {Versions[path] : path \in Path}]
    \cup [kind : {"FileChunk"}, peer : Peer, path : Path,
          data : Seq(Block), offset : Nat, is_last : BOOLEAN]
    \cup [kind : {"ManifestResponse"}, peer : Peer, files : FileMap]

\* The exchanges that carry a transfer.
TransferKinds == {"FetchFile", "FetchFileChunk", "FileStart", "FileChunk", "NotFound"}

\* e becomes the exchanges of the set es; the others are untouched.
Becomes(e, es) == net' = (net (-) SetToBag({e})) (+) SetToBag(es)

-----------------------------------------------------------------------------
(* SyncState.  The operations that return Option<SyncRequest> give the new *)
(* state and the set of paths to send FetchFile for, empty or a singleton. *)

Result(s, paths) == [state |-> s, fetch |-> paths]

\* The file of the next queued pull is std::mem::zeroed(): None, because the Arc in
\* tokio's File is the only place where the Option can keep its tag.
Opening(job) == [peer |-> job.peer, path |-> job.path, file |-> "none",
                 written |-> <<>>, expected |-> <<>>]

IsCurrent(s, path) ==
    /\ s.current_transfer # NoTransfer
    /\ s.current_transfer.path = path

\* Variant: the active transfer is not looked at.
IsPendingQueued(s, p, path) ==
    \E i \in 1..Len(s.queued_pulls) :
        s.queued_pulls[i] = [peer |-> p, path |-> path]

IsPending(s, p, path) ==
    \/ IsCurrent(s, path) /\ s.current_transfer.peer = p
    \/ \E i \in 1..Len(s.queued_pulls) :
          s.queued_pulls[i] = [peer |-> p, path |-> path]

\* Variant: a pull that must wait is put in front of the others.
StartPullFront(s, p, path) ==
    LET job == [peer |-> p, path |-> path] IN
    CASE IsPending(s, p, path) -> Result(s, {})
      [] ~IsPending(s, p, path) /\ s.current_transfer = NoTransfer ->
            Result([s EXCEPT !.current_transfer = Opening(job)], {path})
      [] OTHER -> Result([s EXCEPT !.queued_pulls = <<job>> \o @], {})

\* Variant: the request is returned for a queued pull too.
StartPullEager(s, p, path) ==
    LET job == [peer |-> p, path |-> path] IN
    CASE IsPending(s, p, path) -> Result(s, {})
      [] ~IsPending(s, p, path) /\ s.current_transfer = NoTransfer ->
            Result([s EXCEPT !.current_transfer = Opening(job)], {path})
      [] OTHER -> Result([s EXCEPT !.queued_pulls = Append(@, job)], {path})

\* Variant: a pull asked for while another is active is forgotten.
StartPullUnqueued(s, p, path) ==
    IF s.current_transfer = NoTransfer
    THEN Result([s EXCEPT !.current_transfer = Opening([peer |-> p, path |-> path])],
                {path})
    ELSE Result(s, {})

StartPull(s, p, path) ==
    LET job == [peer |-> p, path |-> path] IN
    CASE IsPending(s, p, path) -> Result(s, {})
      [] ~IsPending(s, p, path) /\ s.current_transfer = NoTransfer ->
            Result([s EXCEPT !.current_transfer = Opening(job), !.current_retry = 0],
                   {path})
      [] OTHER -> Result([s EXCEPT !.queued_pulls = Append(@, job)], {})

\* The current transfer ends and the head of the queue takes its place.
StartNext(s) ==
    IF s.queued_pulls = <<>>
    THEN Result([s EXCEPT !.current_transfer = NoTransfer], {})
    ELSE Result([current_transfer |-> Opening(Head(s.queued_pulls)),
                 queued_pulls     |-> Tail(s.queued_pulls),
                 current_retry    |-> 0],
                {Head(s.queued_pulls).path})

\* Variant: the queue is not looked at.
FinishTransferIdle(s) == Result([s EXCEPT !.current_transfer = NoTransfer], {})

FinishTransfer(s) == StartNext(s)

\* remove_file(temp_path): the handle stays open.
Unlinked(t) == [t EXCEPT !.file = IF @ = "none" THEN "none" ELSE "unlinked"]

\* Variant: the attempts are not counted.
RetryCurrentUncounted(s) ==
    IF s.current_transfer = NoTransfer THEN Result(s, {})
    ELSE Result([s EXCEPT !.current_transfer = Unlinked(@)], {s.current_transfer.path})

RetryCurrent(s) ==
    IF s.current_retry >= MAX_RETRIES
    THEN StartNext([s EXCEPT !.current_retry = 0])
    ELSE LET again == [s EXCEPT !.current_retry = @ + 1] IN
         IF s.current_transfer = NoTransfer
         THEN Result(again, {})
         ELSE Result([again EXCEPT !.current_transfer = Unlinked(@)],
                     {s.current_transfer.path})

\* queued_pulls.retain(|q| q.peer != peer)
Retain(q, p) ==
    LET kept[n \in 0..Len(q)] ==
            IF n = 0 THEN <<>>
            ELSE IF q[n].peer = p THEN kept[n - 1]
            ELSE Append(kept[n - 1], q[n])
    IN kept[Len(q)]

CancelPeer(s, p) ==
    LET rest == [s EXCEPT !.queued_pulls = Retain(@, p)] IN
    IF s.current_transfer # NoTransfer /\ s.current_transfer.peer = p
    THEN StartNext([rest EXCEPT !.current_retry = 0])
    ELSE Result(rest, {})

-----------------------------------------------------------------------------
(* The environment: what the peers serve, connections and local changes. *)

Spend(field) == /\ used[field] < Limit[field]
                /\ used' = [used EXCEPT ![field] = @ + 1]

\* A client of the peer writes or removes a file; the peer announces it to the
\* nodes it is connected to.
PeerWrites(p, path, c) ==
    /\ Spend("edits")
    /\ c # shared[p][path]
    /\ shared' = [shared EXCEPT ![p][path] = c]
    /\ net' = IF links[p] = 0 THEN net
              ELSE net (+) SetToBag({PeerEvent(p, path,
                                       IF c = NoFile THEN "Deleted" ELSE "Edited")})
    /\ UNCHANGED <<sync, links, connected_peers, todo, local, alive>>

ServeManifest(e) ==
    /\ e.kind = "Manifest"
    /\ Becomes(e, {ManifestResponse(e.peer, shared[e.peer])})

ServeEvent(e) ==
    /\ e.kind = "Event"
    /\ Becomes(e, {Ack(e.peer)})

\* Variant: a missing file is answered like an existing one.
ServeFetchFileUnchecked(e) ==
    /\ e.kind = "FetchFile"
    /\ Becomes(e, {FileStart(e.peer, e.path, shared[e.peer][e.path])})

\* handle_fetch_request on the peer.
ServeFetchFile(e) ==
    /\ e.kind = "FetchFile"
    /\ LET content == shared[e.peer][e.path] IN
       Becomes(e, {IF content = NoFile THEN NotFound(e.peer, e.path)
                   ELSE FileStart(e.peer, e.path, content)})

\* handle_fetch_chunk on the peer.
ServeFetchFileChunk(e) ==
    /\ e.kind = "FetchFileChunk"
    /\ LET content == shared[e.peer][e.path]
           total   == Len(content)
           upto    == IF e.offset + CHUNK_SIZE < total
                      THEN e.offset + CHUNK_SIZE ELSE total
       IN Becomes(e, {IF content = NoFile \/ (e.offset >= total /\ total > 0)
                      THEN NotFound(e.peer, e.path)
                      ELSE FileChunk(e.peer, e.path,
                                     SubSeq(content, e.offset + 1, upto),
                                     e.offset, upto >= total)})

Serve(e) ==
    /\ links[e.peer] > 0
    /\ \/ ServeManifest(e) \/ ServeEvent(e)
       \/ ServeFetchFile(e) \/ ServeFetchFileChunk(e)
    /\ UNCHANGED <<sync, todo, local, alive, world>>

-----------------------------------------------------------------------------
(* The event loop of run_discovery.  It handles one event to its end, the  *)
(* application of a manifest included, before it takes the next.           *)

Polling == alive /\ todo = {}

\* The answer to the consumed exchange goes back to the peer it came from.
Apply(e, r) ==
    /\ sync' = r.state
    /\ Becomes(e, {FetchFile(e.peer, path) : path \in r.fetch})

\* The event or the response has no effect on SyncState.
Ignore(e) == Becomes(e, {}) /\ UNCHANGED <<sync, todo, local, alive>>

ConnectionEstablished(p) ==
    /\ Polling
    /\ links[p] < 2
    /\ Spend("links")
    /\ links' = [links EXCEPT ![p] = @ + 1]
    /\ connected_peers' = connected_peers \cup {p}
    /\ net' = net (+) SetToBag({ManifestRequest(p)})
    /\ UNCHANGED <<sync, todo, shared, local, alive>>

\* The exchanges on the closed connection are lost, all those of the peer
\* when it was the last one: the node's own fail later, the peer's vanish.
\* The request that cancel_peer returns is dropped.
ConnectionClosed(p, lost) ==
    /\ Polling
    /\ links[p] > 0
    /\ lost \subseteq {e \in BagToSet(net) : e.peer = p}
    /\ links[p] = 1 => lost = {e \in BagToSet(net) : e.peer = p}
    /\ Spend("closes")
    /\ links' = [links EXCEPT ![p] = @ - 1]
    /\ connected_peers' = connected_peers \ {p}
    /\ sync' = CancelPeer(sync, p).state
    /\ LET vanished == {e \in lost : e.kind = "PeerEvent"}
           rest     == [e \in BagToSet(net) \ vanished |-> net[e]]
       IN net' = BagOfAll(LAMBDA e : IF e \in lost THEN OutboundFailed(p) ELSE e, rest)
    /\ UNCHANGED <<todo, shared, local, alive>>

\* announce_rx: broadcast of a change made by a client of this node.
AnnounceChange ==
    /\ Polling
    /\ Spend("announces")
    /\ net' = net (+) SetToBag({EventRequest(p) : p \in connected_peers})
    /\ UNCHANGED <<sync, links, connected_peers, todo, shared, local, alive>>

\* An inbound Created or Edited event.  A rename or copy whose source is missing
\* here asks for its destination in the same way.
HandleIncomingEdit(e) ==
    /\ e.kind = "PeerEvent" /\ e.event_kind = "Edited"
    /\ Apply(e, StartPull(sync, e.peer, e.path))
    /\ UNCHANGED <<todo, local, alive>>

\* apply_delete, then a record, which archives the row of a file that was here.
Removed(file) == IF file = NoFile THEN NoFile ELSE Tombstone

\* An inbound Deleted event; the pull of the path that may be in progress is left alone.
HandleIncomingDelete(e) ==
    /\ e.kind = "PeerEvent" /\ e.event_kind = "Deleted"
    /\ local' = [local EXCEPT ![e.path] = Removed(@)]
    /\ Becomes(e, {})
    /\ UNCHANGED <<sync, todo, alive>>

\* diff_manifests: pull the remote file that differs and is newer, delete the
\* local file whose remote tombstone is newer.  Which side is newer is not
\* decided by anything in this module, except for a file of which nothing is
\* known here: that is pulled.
HandleManifest(e) ==
    /\ e.kind = "ManifestResponse"
    /\ LET differing == {path \in Path : /\ e.files[path] # local[path]
                                         /\ ~({e.files[path], local[path]} \subseteq Absent)}
           unknown   == {path \in differing : local[path] = NoFile}
       IN \E newer \in SUBSET differing :
             /\ unknown \subseteq newer
             /\ todo' = {[peer |-> e.peer, path |-> path,
                          action |-> IF e.files[path] = NoFile
                                     THEN "Delete" ELSE "Pull"] : path \in newer}
    /\ Becomes(e, {})
    /\ UNCHANGED <<sync, local, alive>>

\* One action of apply_manifest_actions; a HashMap fixes no order.
ApplyAction(a) ==
    /\ alive
    /\ a \in todo
    /\ todo' = todo \ {a}
    /\ \/ /\ a.action = "Pull"
          /\ LET r == StartPull(sync, a.peer, a.path) IN
             /\ sync' = r.state
             /\ net' = net (+) SetToBag({FetchFile(a.peer, path) : path \in r.fetch})
          /\ UNCHANGED local
       \/ /\ a.action = "Delete"
          /\ local' = [local EXCEPT ![a.path] = Removed(@)]
          /\ UNCHANGED <<sync, net>>
    /\ UNCHANGED <<alive, world>>

HandleAck(e) == e.kind = "Ack" /\ Ignore(e)

\* handle_not_found looks neither at the path nor at the peer.
HandleNotFound(e) ==
    /\ e.kind = "NotFound"
    /\ Apply(e, RetryCurrent(sync))
    /\ UNCHANGED <<todo, local, alive>>

\* Variant: the next attempt goes on where the last one stopped.
HandleFileStartResumed(e) ==
    /\ e.kind = "FileStart"
    /\ IsCurrent(sync, e.path)
    /\ sync' = [sync EXCEPT !.current_transfer.file     = "linked",
                            !.current_transfer.expected = e.checksum]
    /\ Becomes(e, {FetchFileChunk(e.peer, e.path, 0)})
    /\ UNCHANGED <<todo, local, alive>>

HandleFileStart(e) ==
    /\ e.kind = "FileStart"
    /\ IsCurrent(sync, e.path)
    /\ sync' = [sync EXCEPT !.current_transfer.file     = "linked",
                            !.current_transfer.written  = <<>>,
                            !.current_transfer.expected = e.checksum]
    /\ Becomes(e, {FetchFileChunk(e.peer, e.path, 0)})
    /\ UNCHANGED <<todo, local, alive>>

\* A response for another path than the current one, or with none active.
IgnoreStale(e) ==
    /\ e.kind \in {"FileStart", "FileChunk"}
    /\ ~IsCurrent(sync, e.path)
    /\ Ignore(e)

-----------------------------------------------------------------------------
(* handle_file_chunk for the current path. *)

Extended(e) == sync.current_transfer.written \o e.data
\* Variant: only the length is compared.
VerifiedLength(e) == Len(Extended(e)) = Len(sync.current_transfer.expected)
Verified(e) == Extended(e) = sync.current_transfer.expected
Writing(e)  == [sync EXCEPT !.current_transfer.written = Extended(e)]

\* transfer.file.as_mut().unwrap() with no file open.
ChunkPanics(e) ==
    /\ sync.current_transfer.file = "none"
    /\ alive' = FALSE
    /\ Becomes(e, {})
    /\ UNCHANGED <<sync, local>>

ChunkAppended(e) ==
    /\ sync.current_transfer.file # "none"
    /\ ~e.is_last
    /\ sync' = Writing(e)
    /\ Becomes(e, {FetchFileChunk(e.peer, e.path, e.offset + Len(e.data))})
    /\ UNCHANGED <<local, alive>>

ChunkMismatch(e) ==
    /\ sync.current_transfer.file # "none"
    /\ e.is_last
    /\ ~Verified(e)
    /\ Apply(e, RetryCurrent(Writing(e)))
    /\ UNCHANGED <<local, alive>>

\* rename(temp, final), record in the database, next transfer.
ChunkInstalled(e) ==
    /\ sync.current_transfer.file = "linked"
    /\ e.is_last
    /\ Verified(e)
    /\ local' = [local EXCEPT ![e.path] = Extended(e)]
    /\ Apply(e, FinishTransfer(sync))
    /\ UNCHANGED alive

\* The temp file is gone, so rename fails and the error is dropped.
ChunkTempMissing(e) ==
    /\ sync.current_transfer.file = "unlinked"
    /\ e.is_last
    /\ Verified(e)
    /\ sync' = Writing(e)
    /\ Becomes(e, {})
    /\ UNCHANGED <<local, alive>>

HandleFileChunk(e) ==
    /\ e.kind = "FileChunk"
    /\ IsCurrent(sync, e.path)
    /\ \/ ChunkPanics(e) \/ ChunkAppended(e) \/ ChunkMismatch(e)
       \/ ChunkInstalled(e) \/ ChunkTempMissing(e)
    /\ UNCHANGED todo

-----------------------------------------------------------------------------
(* Failures *)

\* Variant: the failure is only logged.
OutboundFailureLogged(e) ==
    /\ e.kind # "PeerEvent"
    /\ IF e.kind = "OutboundFailure" \/ links[e.peer] = 0
       THEN UNCHANGED used ELSE Spend("failures")
    /\ Becomes(e, {})
    /\ UNCHANGED <<sync, links, connected_peers, todo, shared, local, alive>>

\* OutboundFailure: a lost connection, a dial that failed, a timeout or a
\* broken substream, of any exchange the node started.
OutboundFailure(e) ==
    /\ e.kind # "PeerEvent"
    /\ IF e.kind = "OutboundFailure" \/ links[e.peer] = 0
       THEN UNCHANGED used ELSE Spend("failures")
    /\ Apply(e, RetryCurrent(sync))
    /\ UNCHANGED <<links, connected_peers, todo, shared, local, alive>>

\* An error of the file system in handle_file_start (the parent directory
\* does not exist), in write_all or in rename: the event loop drops it.
FileSystemError(e) ==
    /\ e.kind \in {"FileStart", "FileChunk"}
    /\ IsCurrent(sync, e.path)
    /\ e.kind = "FileChunk" => sync.current_transfer.file # "none"
    /\ Spend("ioErrors")
    /\ \/ UNCHANGED sync
       \/ /\ e.kind = "FileChunk" /\ e.is_last /\ Verified(e)
          /\ sync' = Writing(e)
    /\ Becomes(e, {})
    /\ UNCHANGED <<links, connected_peers, todo, shared, local, alive>>

\* database.manifest() fails, here or at the peer, which sends an empty manifest
\* then: nothing is compared, and the manifest is not asked for again.
ManifestUnread(e) ==
    /\ e.kind = "ManifestResponse"
    /\ Spend("dbErrors")
    /\ Becomes(e, {})
    /\ UNCHANGED <<sync, links, connected_peers, todo, shared, local, alive>>

Handle(e) ==
    /\ \/ HandleIncomingEdit(e) \/ HandleIncomingDelete(e) \/ HandleManifest(e)
       \/ HandleAck(e) \/ HandleNotFound(e) \/ HandleFileStart(e) \/ HandleFileChunk(e)
       \/ IgnoreStale(e)
    /\ UNCHANGED world

-----------------------------------------------------------------------------
(* The specification *)

Init ==
    /\ sync = [current_transfer |-> NoTransfer, queued_pulls |-> <<>>,
               current_retry |-> 0]
    /\ net = EmptyBag
    /\ links = [p \in Peer |-> 0]
    /\ connected_peers = {}
    /\ todo = {}
    /\ shared = InitialFiles
    /\ local = [path \in Path |-> NoFile]
    /\ alive = TRUE
    /\ used = [edits |-> 0, announces |-> 0, links |-> 0, closes |-> 0,
               failures |-> 0, ioErrors |-> 0, dbErrors |-> 0]

ServeSome  == \E e \in BagToSet(net) : Serve(e)
HandleSome == \/ \E a \in todo : ApplyAction(a)
              \/ Polling /\ \E e \in BagToSet(net) : Handle(e)
FailSome   == Polling /\ \E e \in BagToSet(net) : OutboundFailure(e)

Next ==
    \/ \E p \in Peer, path \in Path : \E c \in Content(path) : PeerWrites(p, path, c)
    \/ \E p \in Peer : ConnectionEstablished(p)
    \/ \E p \in Peer : \E lost \in SUBSET BagToSet(net) : ConnectionClosed(p, lost)
    \/ AnnounceChange
    \/ ServeSome
    \/ HandleSome
    \/ FailSome
    \/ Polling /\ \E e \in BagToSet(net) : FileSystemError(e) \/ ManifestUnread(e)

Spec == Init /\ [][Next]_vars

\* The event loop keeps running, and every request of the node is answered or
\* fails: libp2p reports a failure once the request times out or cannot be
\* sent.
FairSpec ==
    /\ Spec
    /\ WF_vars(ServeSome)
    /\ WF_vars(HandleSome)
    /\ WF_vars(Polling /\ \E e \in BagToSet(net) :
                  (e.kind = "OutboundFailure" \/ links[e.peer] = 0) /\ OutboundFailure(e))
-----------------------------------------------------------------------------
(* Properties *)

TypeOK ==
    /\ sync \in SyncState
    /\ BagToSet(net) \subseteq Exchange
    /\ links \in [Peer -> 0..2]
    /\ connected_peers \subseteq Peer
    /\ todo \subseteq SyncAction
    /\ shared \in [Peer -> FileMap]
    /\ local \in [Path -> Seq(Block) \cup Absent]
    /\ alive \in BOOLEAN
    /\ used \in Budget

\* The pulls accepted and not ended, the active one first.
Jobs == IF sync.current_transfer = NoTransfer THEN <<>>
        ELSE <<[peer |-> sync.current_transfer.peer,
                path |-> sync.current_transfer.path]>> \o sync.queued_pulls

\* A pull never waits while nothing is active: nothing but the end of a
\* transfer takes a pull from the queue.
NoWaitWhenIdle == sync.current_transfer = NoTransfer => sync.queued_pulls = <<>>

\* No (peer, path) is accepted twice, in the queue or next to the active one.
NoDuplicatePull == \A i, j \in 1..Len(Jobs) : Jobs[i] = Jobs[j] => i = j

\* Whatever the interleaving of streams, retries and changes on the peers'
\* disks, what is materialized at a path is a content some peer held at that
\* path, never a mix of two of them or the content of another path.
Integrity == \A path \in Path : local[path] \in Versions[path] \cup Absent

\* The active transfer has an exchange of its own path in progress: without
\* one nothing would ever end it, nor start the pulls behind it.
TransferCarried ==
    alive /\ sync.current_transfer # NoTransfer
    => \E e \in BagToSet(net) : /\ e.kind \in TransferKinds
                                /\ e.path = sync.current_transfer.path

TransferExchanges == {e \in BagToSet(net) : e.kind \in TransferKinds}

\* One file transfers at a time: as long as no request has failed, at most one
\* exchange carries file content.  (Any failure restarts the active transfer,
\* that of a request of something else too, and the old stream goes on.)
SingleStream ==
    used.failures = 0 /\ used.closes = 0
    => \A d, e \in TransferExchanges : d = e /\ net[e] = 1

\* As long as no request has failed, the chunk that arrives continues the temp file,
\* also in a later attempt and while the served file changes: the progress that the
\* status reports is the length of the temp file.
ChunksContinue ==
    used.failures = 0 /\ used.closes = 0
    => \A e \in BagToSet(net) :
          e.kind = "FileChunk" /\ IsCurrent(sync, e.path)
          => e.offset = Len(sync.current_transfer.written)

\* The engine implements the abstract queue: nothing overtakes, and a pull is
\* dropped only from the front or with its peer.
Queue == INSTANCE PullQueue WITH jobs <- Jobs
QueueSpec == Queue!Spec

\* The handle exists whenever a chunk of the active file is written to it.
NoPanic == alive

\* Every accepted pull ends.
PullsEnd ==
    \A p \in Peer, path \in Path :
        alive /\ IsPending(sync, p, path) ~> ~alive \/ ~IsPending(sync, p, path)

\* A file of a peer the node connects to is materialized here, the empty file
\* too, unless a peer removes it, a request fails, or a manifest could not be read.
EveryFileArrives ==
    \A p \in Peer, path \in Path :
        links[p] > 0 /\ shared[p][path] # NoFile
        ~> \/ local[path] \notin Absent
           \/ \E q \in Peer : shared[q][path] = NoFile
           \/ used.failures > 0 \/ used.dbErrors > 0
=============================================================================
