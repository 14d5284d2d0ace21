------------------------------- MODULE Services -------------------------------
(***************************************************************************)
(* One node from the inside: the tasks that main.rs starts and the         *)
(* channels between them.  WebDAV requests change the disk, record the     *)
(* change in the channel of the SQLite worker and announce it to the p2p   *)
(* task; the p2p task stops for the worker when it needs a manifest; API   *)
(* requests ask the p2p task over a bounded channel, or the worker for a   *)
(* page of the files.                                                      *)
(*                                                                         *)
(* The p2p task may end, at the start or by a panic; what is sent to it    *)
(* then is dropped.  A path is a number here, so that paths have an order. *)
(***************************************************************************)
EXTENDS Pages, SequencesExt

CONSTANTS
    Request,            \* GET /api/v1/status and /api/v1/peers, numbered as they come
    Created, Deleted,   \* the paths that clients create and delete, each once
    Loop, Pager,        \* who asks for manifests: the p2p task, a client of the API
    CAPACITY,           \* of the channel to the p2p task, 32 in the code
    MAX_ERRORS          \* bound: errors of SQLite

Path == Created \cup Deleted
Asker == {Loop, Pager}

ASSUME ServicesAssumption ==
    /\ Path \subseteq Nat /\ Created \cap Deleted = {}
    /\ Request \subseteq Nat
    /\ Loop # Pager
    /\ CAPACITY \in Nat \ {0}
    /\ MAX_ERRORS \in Nat

\* A listing is in memory: its length and that of a page fit in a usize.
ASSUME ListingAssumption ==
    /\ IsFiniteSet(Path)
    /\ Cardinality(Path) + DEFAULT_LIMIT < USIZE
    /\ Cardinality(Path) + MAX_LIMIT <= USIZE

VARIABLES
    loop,           \* the p2p task
    queries,        \* queries sent to it; those beyond CAPACITY wait for room
    announcements,  \* the channel of announced changes
    sent,           \* changes that it has sent to the peers
    commands,       \* the channel to the SQLite worker
    applied,        \* changes that are in the database
    failed,         \* changes that the worker could not apply
    errors,
    changed, recorded, announced,   \* changes whose request got that far
    request,        \* the API requests
    pager,          \* the client that pages through the files
    offset,         \* of its next page
    collected,      \* the entries it got
    calm,           \* history: the listing has not changed since its first page
    due             \* history: due[a]: the changes that the manifest a asked for must have

task == <<loop, queries, announcements, sent>>
worker == <<commands, applied, failed, errors>>
changes == <<changed, recorded, announced>>
client == <<pager, offset, collected>>
vars == <<task, worker, changes, request, client, calm, due>>

Record(path) == [kind |-> "record", of |-> path]
Manifest(asker) == [kind |-> "manifest", of |-> asker]

-----------------------------------------------------------------------------
(* Requests that change the disk.  A definition marked "Variant" is a        *)
(* plausible mistake in the code that the next definition translates; no     *)
(* specification uses it.                                                    *)

\* The file is written or removed.
ChangeDisk(path) ==
    /\ path \notin changed
    /\ changed' = changed \cup {path}
    /\ calm' = FALSE
    /\ UNCHANGED <<task, worker, recorded, announced, request, client, due>>

\* Database::record, in the task that hashed the file or in the handler.
RecordChange(path) ==
    /\ path \in changed \ recorded
    /\ recorded' = recorded \cup {path}
    /\ commands' = Append(commands, Record(path))
    /\ UNCHANGED <<task, applied, failed, errors, changed, announced, request, client,
                   calm, due>>

\* Variant: announced by a task of its own, next to the one that records.
AnnounceAlone(path) ==
    /\ path \in changed \ announced
    /\ announced' = announced \cup {path}
    /\ announcements' = IF loop = "ended" THEN announcements ELSE Append(announcements, path)
    /\ UNCHANGED <<loop, queries, sent, worker, changed, recorded, request, client, calm, due>>

\* Variant: the announcement is given up while the p2p task is busy.
AnnounceUnlessBusy(path) ==
    /\ path \in recorded \ announced
    /\ announced' = announced \cup {path}
    /\ announcements' = IF loop # "select" THEN announcements ELSE Append(announcements, path)
    /\ UNCHANGED <<loop, queries, sent, worker, changed, recorded, request, client, calm, due>>

\* P2pHandle::announce, after the record: dropped when the p2p task has ended.
AnnounceChange(path) ==
    /\ path \in recorded \ announced
    /\ announced' = announced \cup {path}
    /\ announcements' = IF loop = "ended" THEN announcements ELSE Append(announcements, path)
    /\ UNCHANGED <<loop, queries, sent, worker, changed, recorded, request, client, calm, due>>

-----------------------------------------------------------------------------
(* Manifests, and the SQLite worker *)

\* Variant: manifests overtake the records that wait.
AskFirst(asker) == commands' = <<Manifest(asker)>> \o commands

\* Database::manifest.
Ask(asker) == commands' = Append(commands, Manifest(asker))

\* An event that the worker cannot apply is logged.
WorkerApplies ==
    /\ commands # <<>> /\ Head(commands).kind = "record"
    /\ commands' = Tail(commands)
    /\ \/ /\ applied' = applied \cup {Head(commands).of}
          /\ UNCHANGED <<failed, errors>>
       \/ /\ errors < MAX_ERRORS
          /\ errors' = errors + 1
          /\ failed' = failed \cup {Head(commands).of}
          /\ UNCHANGED applied
    /\ calm' = FALSE
    /\ UNCHANGED <<task, changes, request, client, due>>

\* The files that the manifest lists are those on the disk, its tombstones the
\* deletions in the database; files_handler sorts both.
Sorted(paths) ==
    CHOOSE s \in [1..Cardinality(paths) -> paths] : \A i, j \in DOMAIN s : i < j => s[i] < s[j]
Resources == Sorted((Created \cap changed) \cup (Deleted \ changed))
Tombstones == Sorted(Deleted \cap applied)

\* The p2p task answers its peer or compares, and returns to the select; after an
\* error it answers with an empty manifest, or skips the comparison.
AnswerLoop ==
    /\ loop' = "select"
    /\ UNCHANGED <<queries, announcements, sent, client>>

\* files_handler, without parameters but the offset.
AnswerPager(ok) ==
    LET page == FilesPage(Resources, Tombstones, offset, NoParam) IN
    /\ IF ok
       THEN /\ collected' = collected \o page.resources \o page.tombstones
            /\ offset' = offset + LimitOf(NoParam)
            /\ pager' = IF page.has_more THEN "paging" ELSE "done"
       ELSE /\ pager' = "failed"
            /\ UNCHANGED <<offset, collected>>
    /\ UNCHANGED task

WorkerAnswers ==
    /\ commands # <<>> /\ Head(commands).kind = "manifest"
    /\ commands' = Tail(commands)
    /\ LET asker == Head(commands).of IN
          /\ \/ asker = Loop /\ AnswerLoop /\ UNCHANGED errors
             \/ asker = Pager /\ AnswerPager(TRUE) /\ UNCHANGED errors
             \/ /\ errors < MAX_ERRORS
                /\ errors' = errors + 1
                /\ asker = Pager /\ AnswerPager(FALSE)
          /\ due' = [due EXCEPT ![asker] = {}]
    /\ UNCHANGED <<applied, failed, changes, request, calm>>

-----------------------------------------------------------------------------
(* The p2p task *)

LoopStarts ==
    /\ loop = "starting"
    /\ loop' = "select"
    /\ UNCHANGED <<queries, announcements, sent, worker, changes, request, client, calm, due>>

\* Variant: the channel outlives the task.
LoopEndsQuietly ==
    /\ loop \in {"starting", "select"}
    /\ loop' = "ended"
    /\ UNCHANGED <<queries, announcements, sent, worker, changes, request, client, calm, due>>

\* run_discovery returns an error before the loop, or a handler panics: the
\* receivers and the replies go with it.
LoopEnds ==
    /\ loop \in {"starting", "select"}
    /\ loop' = "ended"
    /\ queries' = <<>> /\ announcements' = <<>>
    /\ request' = [r \in Request |-> IF request[r] = "waiting" THEN "failed" ELSE request[r]]
    /\ UNCHANGED <<sent, worker, changes, client, calm, due>>

\* A peer asks for the manifest or has sent its own: no other event is handled
\* until the worker has answered.
LoopNeedsManifest ==
    /\ loop = "select"
    /\ loop' = "manifest"
    /\ Ask(Loop)
    /\ due' = [due EXCEPT ![Loop] = sent]
    /\ UNCHANGED <<queries, announcements, sent, applied, failed, errors, changes, request,
                   client, calm>>

LoopSendsChange ==
    /\ loop = "select" /\ announcements # <<>>
    /\ sent' = sent \cup {Head(announcements)}
    /\ announcements' = Tail(announcements)
    /\ UNCHANGED <<loop, queries, worker, changes, request, client, calm, due>>

\* The reply to a request that was given up goes nowhere.
LoopTakesQuery ==
    /\ loop = "select" /\ queries # <<>>
    /\ queries' = Tail(queries)
    /\ request' = [request EXCEPT ![Head(queries)] = IF @ = "waiting" THEN "answered" ELSE @]
    /\ UNCHANGED <<loop, announcements, sent, worker, changes, client, calm, due>>

-----------------------------------------------------------------------------
(* The API *)

Arrives(r) == /\ request[r] = "new"
              /\ \A q \in Request : q < r => request[q] # "new"

\* Variant: a full channel is an error.
AskLoopTry(r) ==
    /\ Arrives(r)
    /\ IF loop = "ended" \/ Len(queries) >= CAPACITY
       THEN request' = [request EXCEPT ![r] = "failed"] /\ UNCHANGED queries
       ELSE /\ request' = [request EXCEPT ![r] = "waiting"]
            /\ queries' = Append(queries, r)
    /\ UNCHANGED <<loop, announcements, sent, worker, changes, client, calm, due>>

\* status_handler and peers_handler.  The senders wait for room in the order in
\* which they came.
AskLoop(r) ==
    /\ Arrives(r)
    /\ IF loop = "ended"
       THEN request' = [request EXCEPT ![r] = "failed"] /\ UNCHANGED queries
       ELSE /\ request' = [request EXCEPT ![r] = "waiting"]
            /\ queries' = Append(queries, r)
    /\ UNCHANGED <<loop, announcements, sent, worker, changes, client, calm, due>>

\* The client goes away: what was sent stays in the channel, what waits for room
\* does not.
Disconnect(r) ==
    /\ request[r] = "waiting"
    /\ request' = [request EXCEPT ![r] = "dropped"]
    /\ \E i \in DOMAIN queries :
          /\ queries[i] = r
          /\ queries' = IF i > CAPACITY THEN RemoveAt(queries, i) ELSE queries
    /\ UNCHANGED <<loop, announcements, sent, worker, changes, client, calm, due>>

\* The client asks for the next page.
AskPage ==
    /\ pager \in {"new", "paging"}
    /\ pager' = "waiting"
    /\ calm' = (calm \/ pager = "new")
    /\ Ask(Pager)
    /\ due' = [due EXCEPT ![Pager] = recorded]
    /\ UNCHANGED <<task, applied, failed, errors, changes, request, offset, collected>>

-----------------------------------------------------------------------------
(* The specification *)

Init ==
    /\ loop = "starting" /\ queries = <<>> /\ announcements = <<>> /\ sent = {}
    /\ commands = <<>> /\ applied = {} /\ failed = {} /\ errors = 0
    /\ changed = {} /\ recorded = {} /\ announced = {}
    /\ request = [r \in Request |-> "new"]
    /\ pager = "new" /\ offset = 0 /\ collected = <<>>
    /\ calm = FALSE
    /\ due = [a \in Asker |-> {}]

Next ==
    \/ \E path \in Path : ChangeDisk(path) \/ RecordChange(path) \/ AnnounceChange(path)
    \/ WorkerApplies \/ WorkerAnswers
    \/ LoopStarts \/ LoopEnds \/ LoopNeedsManifest \/ LoopSendsChange \/ LoopTakesQuery
    \/ \E r \in Request : AskLoop(r) \/ Disconnect(r)
    \/ AskPage

Spec == Init /\ [][Next]_vars

\* Tasks that were started go on, and so does the worker.  tokio::select! polls its
\* branches in a random order, so an event of one kind is not passed over forever,
\* however often the task stops for a manifest.
FairSpec ==
    /\ Spec
    /\ \A path \in Path : WF_vars(RecordChange(path) \/ AnnounceChange(path))
    /\ WF_vars(WorkerApplies \/ WorkerAnswers)
    /\ WF_vars(LoopStarts)
    /\ SF_vars(LoopSendsChange) /\ SF_vars(LoopTakesQuery)

-----------------------------------------------------------------------------
(* Properties *)

Command == [kind : {"record"}, of : Path] \cup [kind : {"manifest"}, of : Asker]

TypeOK ==
    /\ loop \in {"starting", "select", "manifest", "ended"}
    /\ queries \in Seq(Request)
    /\ announcements \in Seq(Path)
    /\ commands \in Seq(Command)
    /\ sent \in SUBSET Path /\ applied \in SUBSET Path /\ failed \in SUBSET Path
    /\ errors \in 0..MAX_ERRORS
    /\ changed \in SUBSET Path /\ recorded \in SUBSET Path /\ announced \in SUBSET Path
    /\ request \in [Request -> {"new", "waiting", "answered", "failed", "dropped"}]
    /\ pager \in {"new", "paging", "waiting", "done", "failed"}
    /\ offset \in 0..Cardinality(Path) + DEFAULT_LIMIT
    /\ collected \in Seq(Path)
    /\ calm \in BOOLEAN
    /\ due \in [Asker -> SUBSET Path]

\* Whoever waits for a reply is owed one: its question is in the channel of a task
\* that is there to read it.
WaitersAreServed ==
    /\ loop = "manifest" => Manifest(Loop) \in ToSet(commands)
    /\ pager = "waiting" => Manifest(Pager) \in ToSet(commands)
    /\ \A r \in Request : request[r] = "waiting" => loop # "ended" /\ r \in ToSet(queries)

AsksNext(asker) == commands # <<>> /\ Head(commands) = Manifest(asker)

\* Whoever is about to get the manifest finds in it, unless SQLite failed, every change
\* that must be there: a client of the API what was recorded before it asked, a peer
\* what it was told of and asks for.
ManifestsAreCurrent ==
    \A asker \in Asker : AsksNext(asker) => due[asker] \subseteq applied \cup failed

\* A busy node answers late, never with an error: a query fails only when the p2p
\* task has ended, a page only when SQLite failed.
FailuresHaveACause ==
    /\ (\E r \in Request : request[r] = "failed") => loop = "ended"
    /\ pager = "failed" => errors > 0

Parameter == 0..USIZE - 1 \cup {NoParam}

\* Every page of the listing, for any two parameters that are a usize, is a slice of it,
\* and says truly whether entries come after it; should offset and limit overflow, it is
\* empty and hides nothing.  A page of as many peers is the same slice.
PagesAreExact ==
    LET resources == Resources
        tombstones == Tombstones
        all == resources \o tombstones
    IN \A o, l \in Parameter :
          /\ PageIsSlice(resources, tombstones, o, l)
          /\ HasMoreIsTrue(resources, tombstones, o, l)
          /\ PeersPage(all, o, l).peers = Slice(all, OffsetOf(o), LimitOf(l))

\* A client that follows has_more to the end gets every entry once and in order, if
\* the listing does not change meanwhile.
PagingIsComplete == pager = "done" /\ calm => collected = Resources \o Tombstones

\* Every query is answered in the end, even if the p2p task ends first.
QueriesEnd == \A r \in Request : request[r] = "waiting" ~> request[r] # "waiting"

\* A change that is made here is sent to the peers that are connected then, unless
\* the p2p task has ended.
ChangesAreSent == \A path \in Path : path \in changed ~> path \in sent \/ loop = "ended"
=============================================================================
