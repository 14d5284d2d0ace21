# nacs-backend: specification, model checking and proofs

nacs-backend is a WebDAV server whose nodes find each other on the local network
and keep their data directories equal. This directory holds TLA+ models of its
core, the TLC configurations that check them on small instances, and proofs of
their most important invariants that TLAPS checks for every instance.

Paths below are relative to the root of the repository.

## The system

| Component | Source | State | Operations | Where |
|---|---|---|---|---|
| Pull engine | `src/sync.rs` (`SyncState`) | `current_transfer`, `queued_pulls`, `current_retry`, the open temp file | `start_pull`, `finish_transfer`, `retry_current`, `cancel_peer`, `handle_file_start`, `handle_file_chunk` | `SyncTransfer` |
| File serving | `src/sync.rs` | none (reads the disk for each request) | `handle_fetch_request`, `handle_fetch_chunk` | `SyncTransfer` |
| P2P event loop | `src/p2p.rs` (`run_discovery`) | `discovered_peers`, `connected_peers`, `dialing_peers`, `peer_info`, `SyncState` | one branch per swarm event, the tick, announcements, status queries | `SyncTransfer`, `PeerConnections`, `Services` |
| Manifest comparison | `src/sync.rs` | none | `latest_states`, `diff_manifests` | `ManifestDiff` |
| Reconciliation | `src/sync.rs`, `src/p2p.rs` | disk and tables of each node | `apply_manifest_actions`, `handle_incoming_event` | `Reconcile` |
| Resource database | `src/db.rs` | `resources`, `resource_archive`, the channel to the worker | `record`, `manifest`, `apply_event`, `build_manifest` | `ResourceStore`, `ResourceDb`, `Services` |
| WebDAV server | `src/webdav.rs` | the data directory, tasks that hash a file | PUT, DELETE, MOVE, COPY, MKCOL, then record and announce | `ResourceDb`, `Services`, `WirePath` |
| Path normalisation | `src/sync.rs`, `src/db.rs`, `src/webdav.rs` | none | cutting, percent-decoding, from the path of a request or an event to a file | `WirePath` |
| REST API | `src/api.rs` | none | status, peers and files; pages | `Services`, `Pages` |
| Startup | `src/main.rs` | the tasks and their channels | starts the server, the API and the p2p task, whose end it only logs | `Services` |
| Authentication, identity, keep-alive, web UI | `src/auth.rs`, `src/p2p.rs`, `web/` | none that the rest depends on | compares credentials; one-time setup | not modelled |

How they interact. A WebDAV request changes the data directory; when it has
succeeded, its handler records the change through an unbounded channel to the
thread that owns SQLite, and hands it to the p2p task through a second unbounded
channel. Writes, moves and copies do both from a task of their own that hashes
the file first, deletions and new collections at once. The p2p task is one loop:
it handles one swarm event, tick or announcement to its end before the next. It
announces changes to the connected peers, asks a newly connected peer for its
manifest, compares it with its own and acts on the differences, and pulls files
through `SyncState`, one at a time. For a manifest it waits for the database and handles
nothing meanwhile. The API asks it over a channel with room for 32 queries, and the
database for the files. Each request is a libp2p substream of its
own, so answers and failures of different requests arrive in any order.

What is hard here:

- responses carry only a path; the handlers cannot tell which attempt, peer or
  transfer they belong to, and failures carry not even that;
- the served file may change between any two chunks;
- connections to one peer may be several, and each closes on its own;
- the event loop's sets mirror the state of the swarm, and must not drift from it;
- the record of a change is written later than the change, in an order of its own,
  and is lost when the process ends;
- the same path is cut and decoded again at each station;
- timestamps are strings in two formats, with seconds or nanoseconds, stamped when
  a change is recorded and not when it was made.

What makes each component correct:

- pull engine: only whole contents are materialized; accepted pulls are kept in
  order, exactly once, and end; nothing waits behind nothing;
- event loop: what it believes about a peer is backed by the swarm; a peer that can
  be found is connected in the end;
- database: the manifest describes the disk, and remembers deletions;
- the node as a whole: what a client or a peer was told of is in the manifest it then asks
  for; nobody who waits for a reply waits in vain; a page is a part of the listing;
- paths: request, row, event and peer mean the same file;
- reconciliation: two nodes never act on the same path from each other's manifests;
  they agree in the end, on what was written last.

`PROJECT.json` lists the places in the code where these are at risk, with the
properties about each.

## The modules

| Module | What it is |
|---|---|
| `PullQueue` | abstract specification of the pull engine: accept once, end from the front, cancel all of a peer |
| `SyncTransfer` | the pull engine, the event loop that feeds it, serving peers, lost connections, failures; refines `PullQueue` |
| `PeerConnections` | mDNS records, dials and connections of the swarm, next to the sets of the event loop, its `peer_info` and its manifest requests |
| `ManifestDiff` | timestamps, `latest_states`, `diff_manifests` as operators |
| `ResourceStore` | `apply_event` and `build_manifest` as operators on a store and a disk; extends `ManifestDiff` |
| `ResourceDb` | one node's requests, hashing tasks, channel, worker and crashes; extends `ResourceStore` |
| `Reconcile` | several nodes with a disk and a store each, manifests, announcements of every kind and pulls; extends `ResourceStore` |
| `Pages` | the pages of the API as operators |
| `Services` | the tasks of one node and the channels between them: requests, worker, p2p task, API; extends `Pages` |
| `WirePath` | one path from the URI of a client to the file that a peer writes, character by character |
| `MCSyncTransfer`, `MCPeerConnections`, `MCResourceDb` | instances for TLC: contents, paths and how much the environment does. The others need none |
| `SyncTransferProofs`, `PeerConnectionsProofs`, `ResourceDbProofs`, `ReconcileProofs`, `ServicesProofs`, `WirePathProofs` | theorems about these modules and their proofs |
| `SyncTransferStreamProofs` | the exchanges of the active transfer; extends `SyncTransferProofs` |
| `ResourceStoreProofs` | lemmas about the operators of `ManifestDiff` and `ResourceStore`, for `ResourceDbProofs` and `ReconcileProofs` |

A definition marked *Variant* in a comment is a plausible mistake in the code that
the next definition translates. No specification uses it; the runs are known to
notice it when it takes the place of the real one.

### SyncTransfer

`sync` is `SyncState`; its operations are operators from a state to a new state and
the request they return. `net` is a bag with one record per substream: the request,
then the response, then nothing when the event loop has handled it. `links` counts
the connections to a peer, `connected_peers` is the set of that name, `shared` the
peers' disks, `local` what this node has materialized (renamed into place and
recorded), `todo` the actions of a manifest that `apply_manifest_actions` is working
through, and `alive` is false after a panic. There is one action per branch of the
event loop. The replies follow the code literally: the request that an operation
returns goes to the peer whose response was handled, and the one of `cancel_peer` is
dropped.

Abstractions: a file is a sequence of blocks and an offset counts blocks; a checksum
is the content (no collisions); hashing a file and reading a chunk are atomic;
`total_size`, `next_chunk_offset`, user names and event kinds are not kept, because
nothing decides on them; which of two differing files is newer is a free choice (it
is decided in `Reconcile`), and so is what a tombstone here, `Tombstone`, does to a file
of the peer, while a file of which nothing is known here is always pulled; folders are left to `Reconcile`. Errors that tokio's
background writer reports late are not modelled. `std::mem::zeroed()` for the file of
the next queued pull is `None` in the layout that the build produces. When one of two
connections closes, any subset of the peer's exchanges is lost. A manifest that arrives while this node cannot read its own, or that is
empty because the peer could not read its, leads to nothing (`ManifestUnread`).

### PeerConnections

`records`, `dials` and `links` are the swarm's; the three sets and `peer_info` are the code's. The
swarm changes and delivers its event in the same poll, so each action is both.
`Swarm::dial` is refused for a peer that is connected, being dialed, or unknown;
the ping behaviour of this libp2p version reports a failed heartbeat without closing
the connection. `peer_info` is kept as `has_synced` per entry; addresses and names are left
out. `asked` counts the manifest requests of this node that are under way to a peer: each
`ConnectionEstablished` sends one, and its failure is not followed by another. `lost` is a
history variable, the peers of which one has failed since their last connection; `unread`
is another, those whose manifest arrived while `database.manifest()` failed
(`ManifestUnread`, `src/p2p.rs:399`), after which nothing is asked again either. What the
API reports, the count and the list, are `peers_connected` and `peers_listed`.

### ResourceStore and ResourceDb

A store has a row per live path and the time of the latest deletion per path, which is
all that `build_manifest` asks for; the `events` table is never read back. A rename is
recorded like a move. A row keeps the kind it has, as in `resolve_resource_kind`. A path
in `ResourceDb` is the sequence of its names, so that moving a directory moves what is
in it. Requests that fail change nothing. The checksum of a task is that of the file
when the task runs, not when the request was served. A crash empties the tasks and the
channel and leaves the files and the tables. A scan that fails leaves the manifest with
what it has found (`manifest_of_failed_scan`). The root folder, temp
files, percent-encoding and the parent directories that an installed pull creates are
left out; `build_manifest` is atomic.

### Reconcile

Every node has a disk and a store. A client writes, removes, moves or copies a path; its
change is in the disk and the store at once (the delay is the matter of `ResourceDb`) and
is announced to any subset of the other nodes, the rest not being connected. Announcements
arrive in any order. A move or a copy is done by the peer with what it has at the source
(`HandleEvent`, as in `handle_incoming_event`), or turned into a pull if it has nothing
there. A pull is accepted, fetched and installed in three steps, and several may be under
way (the order among them is the matter of `SyncTransfer`). All nodes read the same clock
and start with the same files, `Held`. `Written` are the paths that clients write or
remove; they may move or copy any file. `Ties` says whether two changes may have the same
time. A path is a file or a folder throughout, and folders hold nothing.

Three things that happen make the code promise less, and `circumstances` is a history
variable that records them: a change was made while the nodes exchanged (`overlap`), a node
was offered a file that had been moved (`offered`), a node moved or copied another content
than the one announced (`unequal`). The properties say which of them they exclude.

Timestamps: a row has `CURRENT_TIMESTAMP`, a path found only by the scan has the decimal
nanoseconds of its modification time. Compared as strings, the latter sort before the
former until 2034, which is how `Newer` compares them.

### Services and Pages

The node from the inside. A change goes through its request in three steps, the disk, the
record and the announcement; the steps of different changes interleave. `commands` is the
channel to the worker, with records and questions for a manifest in one order. The p2p task
is `loop`: it waits for its `select!`, or for a manifest, or has ended. `queries` is the
bounded channel together with the senders that wait for room in it, first come first
served, as in tokio. An API request that is given up leaves a query that is in the channel,
and no other. `LoopEnds` is an error of `run_discovery` before the loop or a panic in it;
what waited for the task fails then. `pager` is a client of `/api/v1/files` that follows
`has_more`. `calm` and `due` are history variables for the properties.

`Pages` has the arithmetic of `peers_handler` and `files_handler`, with a sum of a `usize`
that wraps. Filters, authentication, the conversion of timestamps and the static files are
left out; a path is a number, to be sorted. What the manifest lists besides paths is the
matter of `ResourceDb`.

### WirePath

One request for a name over a small set of characters, which the client escapes as it
likes; then what the request, the row, the scan and a peer make of it, each a step that
applies the functions of its file in their order. `percent_decode_lossy` exists three times
in the code and is one operator, `Decode`. A path goes through it once in the request, once
for each use of the disk, and once more when it arrives at a peer; which names survive that
is what the model is about. Invalid UTF-8 and the scheme and host of a
`Destination` are left out, as is a PUT with a slash at the end.

## The runs

The runs that pass:

| Run | Specification | Bounds | What it shows |
|---|---|---|---|
| `transfer_faults` | `Spec` | 2 peers, 2 files (two contents of two blocks; one empty), 2 connections, and 1 each of changed file, announced change of this node, close, file system error, unread manifest; 1 retry | type invariant, `Integrity`, `NoDuplicatePull`, `NoWaitWhenIdle`, refinement of `PullQueue` |
| `transfer_progress` | `FairSpec` | the same peers and files, 2 connections, 1 each of changed file, failed request and unread manifest, 3 retries; no closes, no file system errors | `TransferCarried`, `SingleStream`, `ChunksContinue`, `PullsEnd`, `EveryFileArrives` |
| `connections` | `FairSpec` | 2 peers, 2 addresses, 2 connections per peer, 1 of each fault | type invariant, `DialMarksAreLive`, `TrackedIsLinked`, `CandidatesAreReported`, `CountMatchesList`, `UnsyncedIsAsked`, `DiscoveredConnects` |
| `db` | `Spec` | 2 folders with a path in each, 2 contents, 3 changes in any order, 1 crash | type invariant, `ManifestOffersWhatExists` at all times; `ManifestMatchesDisk`, `DeletedHasTombstone` and `ScanErrorsAreHarmless` once everything is recorded |
| `reconcile_converges` | `FairSpec` | 2 nodes, 2 files, one held at first and written, 2 contents, 2 changes, 11 ticks, no ties | `LastWriteWins`, `Converges` |
| `reconcile_ties` | `Spec` | 2 nodes, 2 files and a folder, 2 contents, 2 changes, 2 ticks, ties | type invariant, `NoCrossing`, `SkippedIsEqual` |
| `services` | `FairSpec` | a created and a deleted path, 2 queries over a channel with room for 1, limits 1 and 2, `usize` of 2 bits, 1 error of SQLite | type invariant, `WaitersAreServed`, `ManifestsAreCurrent`, `FailuresHaveACause`, `PagesAreExact`, `PagingIsComplete`, `QueriesEnd`, `ChangesAreSent` |
| `paths` | `Spec` | names of at most 5 characters over `/`, `%`, `#`, `2`, `3`, `5`, in every way to escape them | type invariant, `RequestMeansTheName`, `RenamesAreInPlace`, `FileIsRead`, `PeerChangesTheSameFile` |

Conditions in the properties. `SingleStream`, `ChunksContinue` and `EveryFileArrives` say
"as long as no request has failed": a failure restarts the active transfer and its stream goes on.
`EveryFileArrives` adds that no manifest stayed unread, which is not asked for again.
`UnsyncedIsAsked` lists the three reasons why a peer may be shown as out of sync.
`ManifestMatchesDisk`, `DeletedHasTombstone` and `ScanErrorsAreHarmless` have two, kept as history variables of
`ResourceDb`: `ordered`, that each change was recorded before the next one was made and
none was lost in a crash, and `single`, that no change created or removed anything below
the paths it names (the move, copy or deletion of a directory that is not empty). The
code keeps its tables right under these conditions and not without them; the next
section has an example of each. `LastWriteWins` is about two nodes and excludes all
`circumstances`; `SkippedIsEqual` and `Converges` exclude only `unequal`. `PagingIsComplete` is about a listing that did not change
since the first page: each page is made from a manifest of its own. `FileIsRead` and
`PeerChangesTheSameFile` are equivalences: they name exactly the file names for which the
code does what it should, those without an escape of their own, and for the peer without
`?` and `#`.

Why the bounds suffice. The hazards of the pull engine need two attempts at one path
(1 retry), two contents (to be mixed), two files and two peers (for the queue and the
wrong addressee), two blocks (so that there is a chunk that is not the last) and an
empty file (the other case of the last chunk). The hazards of the sets need a peer with
two addresses and two connections. In `ResourceDb` a move onto a path that exists, the
deletion of a folder with a file in it, and a path that is created, deleted and created
again take three changes each. In `Reconcile` two changes are enough for a move to meet an older content, a deletion a pull,
and a write another one; the 11 ticks of `reconcile_converges` leave room for both to be
spread several times, and the clock running out would show as a violation of `Converges`.
In `services` the channel is full with one query, one waits for room, and the two paths
make a listing that is longer than a page and crosses the border from resources to
tombstones; the sum of offset and limit overflows `usize`. In `paths` five characters make
a name with an escape in the middle and at the end (`/%233`, `/3%23`), one that holds an
escaped percent sign (`/%253`), a folder with an escape or a `#` in its name (`/%23/` as the
source of a move, `/3#/2` as a file), and incomplete escapes.

Bounds are the fields of `Limit`, `MAX_LINKS`, `MAX_CHANGES`, `MAX_CRASHES`, `MAX_CLOCK`,
`MAX_WRITES`, `MAX_ERRORS` and `MAX_NAME`. All of them are about what the environment does, so a run comes to rest
when they are spent: the configurations do not look for deadlocks. `MAX_RETRIES` and
`CHUNK_SIZE` are the code's; the code has 3 retries and 1 MiB. So are `CAPACITY` (32), `DEFAULT_LIMIT` (100),
`MAX_LIMIT` (1000) and `USIZE`.

### Fairness

- `SyncTransfer`: the peers answer, the event loop runs on (`ServeSome`, `HandleSome`),
  and requests on lost connections fail. libp2p guarantees the last: a request that
  cannot be sent or is not answered within 30 minutes ends in `OutboundFailure`. The
  failure of a request that could be answered is never assumed.
- `PeerConnections`: the interval ticks, and a dial in progress succeeds in the end, since
  its failures are bounded: the peer is there. A heartbeat may fail on a connection that
  stays open; `DiscoveredConnects` asks for the connection, `DiscoveredIsTracked` for the
  entry in `connected_peers` as well.
- `Reconcile`: manifests are exchanged again and again between any two nodes, as
  connections are lost and established, for each pair of nodes and direction; what is on its
  way is handled. This stands for manifests that are lost or stay unread, too. Without reconnections the code exchanges manifests only once per connection.
- `Services`: the tasks that record and announce, the worker and the start of the p2p task
  go on (weak fairness). The branches of `tokio::select!` are polled in a random order, so a
  branch that is ready again and again is taken, though the task stops for manifests in
  between (strong fairness). The end of the task, clients and errors are never assumed.

### Where the code and its documentation disagree

Each of these runs checks one property that a comment, the README, an assertion or a test
states, and finds it violated.

| Run | Property | Place |
|---|---|---|
| `transfer_cancel_dropped` | `TransferCarried` | `src/p2p.rs:467` drops the request `cancel_peer` returns: the next pull is active and nobody was asked for it. Only if another request fails later does `retry_current` send one, to the peer of that request |
| `transfer_panic` | `NoPanic` | `src/sync.rs:496` unwraps a file that a replaced transfer has not opened |
| `connections_ping_lost` | `DiscoveredIsTracked` | `src/p2p.rs:331` forgets a peer whose connection stays open |
| `reconcile_stale_move` | `ReportedIsEqual` | `src/sync.rs:806` records a move or copy of an older content under the checksum that the peer announced, so the difference is never found |

Others were met on the way. The models have the behaviour, and no run is kept for it:

| Place | What the code does | What is said of it |
|---|---|---|
| `src/p2p.rs:426` | sends the request for the next queued pull to the peer of the last response (also 412, 432, 448) | |
| `src/db.rs:474` | archives a deleted folder without what was in it, so peers keep that | README: the manifest includes "live resources and tombstones" |
| `src/db.rs:626` | stamps an installed pull with the time of its installation, so an old content may win over a newer one. The same holds of a deletion that a node carries out for another: with three nodes, n1 deletes a file, n2 writes it later, n3 hears of the deletion only and carries it out last, and n2 deletes its newer file | README: "last-write-wins timestamp comparison" |
| `src/db.rs:481` | leaves no tombstone for the source of a move; a peer that did not hear of it offers the old file again | |
| `src/sync.rs:598` | decodes the path of an event, which was decoded when the request came in, and `fs_path_from_wire_path` decodes it again: a file with `%23` in its name is written as one with `#` | |
| `src/sync.rs:597` | cuts the decoded path at `?` and `#`: a change of `a#b` is made to `a` | |
| `src/db.rs:405` | looks for the checksum of a file with an escape in its name at another path; if there is none, the scan ends with the error | |
| `src/webdav.rs:164` | takes the rename of a folder written with a slash at its end for a move | |
| `src/api.rs:312` | adds limit and offset without a check: the sum wraps in a release build, and `has_more` may be true of an empty page; a debug build panics | |
| `src/p2p.rs:402` | drops an error of `handle_file_start` or `handle_file_chunk`; the transfer stays active for ever | README: a transfer is retried up to 3 times "on checksum mismatch or failure" |
| `src/p2p.rs:447` | restarts the active transfer when any request fails, an event's or a manifest's too, and has two streams | README: "only one file transfer at a time globally" |
| `src/p2p.rs:399` | logs that this node's manifest could not be read, and drops the peer's, which is not asked for again; `src/p2p.rs:352` sends an empty manifest in that case, after which both ends list each other as synced | README: "Nodes exchange a manifest that includes live resources and tombstones" |
| `src/sync.rs:876` | drops the announced change of a path whose pull is pending, which may deliver the content from before | README: "last-write-wins timestamp comparison" |
| `src/sync.rs:760` | deletes a file and lets the pull of it go on, which puts it back | README: "last-write-wins timestamp comparison" |
| `src/p2p.rs:464` | forgets a peer when one of its two connections closes; it hears of no change | `announce` at `src/sync.rs:85`: "to all currently connected peers" |
| `src/p2p.rs:299` | does not make a peer a candidate that was connected when mDNS reported it; likewise one address of two that expires (317) | README: eligible "while mDNS continues to report them" |
| `src/webdav.rs:296` | records a write after its hash, maybe after a later deletion of the same path: the table keeps the older state, without a tombstone | README: "the current resource state in `resources`" |
| `src/db.rs:279` | reports the row of a folder that went with its parent, and peers create it | `src/db.rs:52`: "currently-live resource" |
| `src/sync.rs:679` | takes timestamps of one second as equal; two contents written in it stay different | README: "last-write-wins timestamp comparison" |
| `src/sync.rs:698` | creates a folder that exists, when its row is the older one | `src/sync.rs:101`: "the peer has a live folder we're missing" |
| `src/sync.rs:22` | the comment says 4 MiB for a chunk of 1 MiB | |
| README | says once that the idle timeout is 60 seconds; in the code it is five minutes | |

## The proofs

All theorems hold for every value of the constants that satisfies the named assumptions
of the modules: any sets of peers, paths, blocks and contents, any chunk size, retry
limit, bounds and instances of the environment.

`SyncTransferProofs`. `TypeOK`, `Integrity`, `NoWaitWhenIdle` and `NoDuplicatePull`.
The invariant is `IInv`: the types, `Integrity`, that the queue is empty while nothing is
active and has neither duplicates nor the active pull (`SyncInv`), and that every
`FileStart` in the network carries a content of its path (`NetKnown`), with the same for
the expected checksum of an open transfer. The last two are what makes `Integrity`
inductive: a file is installed when it equals the expected content, so the expected
content must have been one of a peer's files, which is so because the `FileStart` that set
it was for the same path. Nothing has to be known about the chunks: that is the
argument why any mix of attempts is harmless to the files. The operations of `SyncState`
have one lemma each; `Retain` is a recursive function, whose properties are proved by
induction on the length of the queue through a set, with the well-foundedness of `<`.

It also has `EngineIsAQueue`, the refinement: the initial states map to
initial states, and each operation of `SyncState` takes the accepted pulls (the active one
and the queue behind it) by one step of `PullQueue` or leaves them alone. `PullQueue` says of a
cancellation only what remains: the pulls of the other peers, in their order.

`SyncTransferStreamProofs`. `ActiveTransferIsCarried`: an exchange of the active path is under
way as long as no connection was closed and the file system reported no error. Its invariant
`CarryInv` says which one: while the temp file is not open and linked, an exchange that opens
it, since a chunk would be refused or lost. The conditions are those under which the run
checks `TransferCarried`; `transfer_cancel_dropped` shows that it fails when a connection
closes. `OneStreamAtATime` and `ChunksAreContiguous` share another invariant, `OneStream`:
as long as no request failed there is at most one exchange of the transfer, once, and its
offset is the length of the temp file.

`PeerConnectionsProofs`. The invariants and the types together are inductive
(`IInv`): a dial mark is live because every action that ends a dial clears the mark, a
tracked peer is linked because every closed connection untracks it (and not only the
last one: that a peer with a second connection is forgotten is the price), and a candidate is
reported because every expiry removes the peer. `ShownPeersAgree` and `OutOfSyncHasAReason`
come from one more part, `Status`: `peer_info` has an entry for exactly the connected peers,
and an entry without a manifest has a request under way, a lost one, or an answer that
this node had nothing to compare with.

`ResourceDbProofs`. All five properties of the run. `ManifestOffersWhatExists` is one of
`build_manifest` for any store and disk. The other three have one invariant, the backlog: a
disk for each command in the channel, from the one that the tables describe to the one
that is there, each explained by the command between them (`Backlog`). It needs what
`apply_event` does to a table next to what each request does to the disk (`DescribesStep`).

`ReconcileProofs`. Types, with a lemma that `apply_event` maps stores to stores; and
`NoCrossing`, from the asymmetry of `Newer` and `DiffsAreDisjoint`, which is about any
two manifests whose stamps have numbers for times. The invariance of types provides the
latter. Equal timestamps are included: neither side acts. `SkippedFilesAreEqual` is about
the files that both sides leave alone: its invariant `RowsAreTrue` says that a row with a
checksum is that of a file with this content, until a node has moved or copied an old one;
the scan hashes the disk itself.

`LastWriteIsKept` needs more. The rank of a path in a store is what its row or its tombstone
counts for when manifests are compared, and nothing if it has neither. The invariant,
`Kinds` with `Won`, says that the state of the greatest rank is what a client made last of
the path, and what is on its way is about it, if it will be acted upon: an entry of a manifest
only where it counts for more than what the receiver has, a pull by what the peer still has.
A path that was moved away has no rank of its own (a move leaves no tombstone), so of these the
invariant says that they are gone somewhere, and are not offered: this is why `offered` is
among the `circumstances`. That there are two nodes is used once, when a manifest is
sent: what counts for more than the receiver's state is then the greatest.

`ServicesProofs`. `ManifestsHaveWhatIsDue` rests on the order of the channel to the worker.
A change is announced after its record was sent, so the records of all that a reader may
know of are ahead of its question; `Current` says so of every question in the channel, with
each reader having one at most, and at the head nothing is ahead. `FailuresAreCaused` needs
that a question of the p2p task is only in the channel while the task waits. `AnyPageIsExact`
is about `Pages` alone: for listings of any length and all parameters, those whose sum
overflows included, where the page is past the end of the listing and therefore empty. `FilesPagesAreExact`
says it of the pages of files in the model, where the manifest is a set of paths that the page
sorts. `RepliesAreOwed` has no more to it than that who waits in a channel waits on when
something else is taken from it, at its head or by being given up (`Served`).
`PagingGetsEverything` has the invariant that what the pager has is the listing up to its
offset. The types, the exactness of pages and this one need `ListingAssumption`, that a listing and the
largest page more can be counted in a `usize`, as a listing in memory can.

`WirePathProofs`. All five properties of the run, for names of any length over any set of
ASCII characters. `Decode` and the flattening of an escaped name are recursive functions; that
they have a solution, and what it is, is proved by induction on positions through a set. The
first result is that decoding undoes any way to escape a name, one character at a time
(`FormIsDecoded`); so the paths of the request are the names themselves (`RequestMeansTheName`,
`RenamesAreInPlace`). The other two properties say *exactly if*. One direction is that what has
no escape does not change. The other is about lengths: any escape makes a text shorter by two,
and any `?` or `#` cuts off one character at least, and two in front of a slash at the end; but
the file of a name is shorter than it only by its slashes, one at each end, as a name has no
two in a row.

Only model-checked: everything under fairness (`PullsEnd`, `EveryFileArrives`,
`DiscoveredConnects`, `Converges`, `QueriesEnd`, `ChangesAreSent`), since TLAPS does not
reason about fairness and `ENABLED`. Every safety property of every passing run is proved.

## Not modelled

- `src/auth.rs` compares credentials and keeps nothing; the key file and the environment
  variables are read once.
- The keep-alive behaviour of `src/p2p.rs` has constant answers; its effect, that idle
  connections stay open, is in `PeerConnections`.
- The `events` table and the columns of `resource_archive` that no query reads.
- dav-server, libp2p, tokio and SQLite are what the code relies on: their promises are the
  environment of the models. Locks and properties of WebDAV do not reach this code.
- Folders with contents between nodes: `Reconcile` has flat paths, and `ResourceDb` shows
  what becomes of a folder's rows on one node.
- The year 2034, from which on scanned timestamps sort after recorded ones.

## Plan

The order in which the models were written is that of their weight: first the pull engine
with its network, then the sets of peers, the database, the nodes together, and then the
channels inside of a node and the paths. The modules above are complete, and every safety
property of theirs is proved. What is left:

1. Folders with contents in `Reconcile`: parents that an install creates, and the deletion
   of a folder that a peer still has files for.
