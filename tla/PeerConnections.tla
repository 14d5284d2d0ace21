--------------------------- MODULE PeerConnections ---------------------------
(***************************************************************************)
(* The sets by which run_discovery of p2p.rs knows its peers, next to what *)
(* the swarm below it really does: mDNS records that come and go, dials    *)
(* that succeed or fail, connections that both ends open, and heartbeats   *)
(* that fail on a connection that stays open.  With them peer_info, which  *)
(* the API shows, and the manifest requests that set its has_synced.       *)
(*                                                                         *)
(* The swarm changes its state and delivers the event in the same poll, so *)
(* an action of this module is the change and the event loop's handler.    *)
(***************************************************************************)
EXTENDS Integers, FiniteSets

CONSTANTS
    Peer,       \* the other nodes
    Address,    \* the addresses under which mDNS reports a node
    MAX_LINKS,  \* bound: connections to one peer
    Limit       \* bounds on what the environment does, one per field

VARIABLES
    \* the swarm
    records,            \* mDNS records: <<peer, address>>
    dials,              \* peers with an outgoing connection attempt
    links,              \* links[peer]: established connections
    \* the event loop
    discovered_peers, connected_peers, dialing_peers,
    peer_info,          \* has_synced, for each peer that has an entry
    \* the manifest requests of this node
    asked,              \* asked[peer]: requests in flight
    lost,               \* peers of which one failed since their last connection,
    unread,             \* and whose manifest this node had nothing to compare with
    used                \* how much of Limit is spent

swarm == <<records, dials, links>>
sets == <<discovered_peers, connected_peers, dialing_peers>>
manifests == <<asked, lost, unread>>
vars == <<swarm, sets, peer_info, manifests, used>>

Faults == {"expiries", "inbound", "dialErrors", "closes", "pingErrors", "requests",
           "timeouts", "dbErrors"}
Budget == [Faults -> Nat]

ASSUME ConstantsAssumption ==
    /\ MAX_LINKS \in Nat \ {0}
    /\ Limit \in Budget

-----------------------------------------------------------------------------
(* The swarm *)

Spend(field) == /\ used[field] < Limit[field]
                /\ used' = [used EXCEPT ![field] = @ + 1]

\* Some record tells where the peer is.
Reported(p) == \E a \in Address : <<p, a>> \in records

\* swarm.dial(peer_id): refused for a peer that is connected or being dialed,
\* or that has no known address.
Dialable(p) == /\ links[p] = 0
               /\ p \notin dials
               /\ Reported(p)

-----------------------------------------------------------------------------
(* The event loop.  A definition marked "Variant" is a plausible mistake in  *)
(* the code that the next definition translates; no specification uses it.  *)

peers_requiring_dial == discovered_peers \ (connected_peers \cup dialing_peers)

\* The ways peer_info changes.
InfoInserted(p) == [q \in DOMAIN peer_info \cup {p} |-> IF q = p THEN FALSE ELSE peer_info[q]]
InfoRemoved(p) == [q \in DOMAIN peer_info \ {p} |-> peer_info[q]]
InfoSynced(p) == [q \in DOMAIN peer_info |-> q = p \/ peer_info[q]]

\* reconnect_interval.tick(): a refused dial is logged and nothing else.
ReconnectTick ==
    LET dialed == {p \in peers_requiring_dial : Dialable(p)} IN
    /\ dialed # {}
    /\ dials' = dials \cup dialed
    /\ dialing_peers' = dialing_peers \cup dialed
    /\ UNCHANGED <<records, links, discovered_peers, connected_peers, peer_info, manifests, used>>

\* mDNS reports a new record.  A peer that is connected or being dialed is
\* skipped before it is added to discovered_peers.
Discovered(p, a) ==
    /\ <<p, a>> \notin records
    /\ records' = records \cup {<<p, a>>}
    /\ IF p \in connected_peers \cup dialing_peers
       THEN UNCHANGED <<dials, discovered_peers, dialing_peers>>
       ELSE /\ discovered_peers' = discovered_peers \cup {p}
            /\ IF links[p] = 0 /\ p \notin dials
               THEN /\ dials' = dials \cup {p}
                    /\ dialing_peers' = dialing_peers \cup {p}
               ELSE UNCHANGED <<dials, dialing_peers>>
    /\ UNCHANGED <<links, connected_peers, peer_info, manifests, used>>

\* Variant: the expired record is not looked at.
ExpiredIgnored(p, a) ==
    /\ <<p, a>> \in records
    /\ Spend("expiries")
    /\ records' = records \ {<<p, a>>}
    /\ UNCHANGED <<dials, links, sets, peer_info, manifests>>

\* A record expires, the peer's other records may not.
Expired(p, a) ==
    /\ <<p, a>> \in records
    /\ Spend("expiries")
    /\ records' = records \ {<<p, a>>}
    /\ discovered_peers' = discovered_peers \ {p}
    /\ UNCHANGED <<dials, links, connected_peers, dialing_peers, peer_info, manifests>>

\* The heartbeat fails.  The ping behaviour does not close the connection.
PingError(p) ==
    /\ links[p] > 0
    /\ Spend("pingErrors")
    /\ connected_peers' = connected_peers \ {p}
    /\ dialing_peers' = dialing_peers \ {p}
    /\ peer_info' = InfoRemoved(p)
    /\ UNCHANGED <<swarm, discovered_peers, manifests>>

\* Dialing: send_request to a peer that is not connected makes the behaviour
\* dial it.
RequestDials(p) ==
    /\ Dialable(p)
    /\ Spend("requests")
    /\ dials' = dials \cup {p}
    /\ dialing_peers' = dialing_peers \cup {p}
    /\ UNCHANGED <<records, links, discovered_peers, connected_peers, peer_info, manifests>>

\* Variant: a second connection has its entry, but no manifest is asked for.
EstablishedQuietly(p) ==
    /\ links[p] < MAX_LINKS
    /\ links' = [links EXCEPT ![p] = @ + 1]
    /\ connected_peers' = connected_peers \cup {p}
    /\ dialing_peers' = dialing_peers \ {p}
    /\ peer_info' = InfoInserted(p)
    /\ asked' = IF p \in connected_peers THEN asked ELSE [asked EXCEPT ![p] = @ + 1]
    /\ lost' = lost \ {p} /\ unread' = unread \ {p}
    /\ UNCHANGED <<records, discovered_peers>>

\* Variant: only the first connection makes an entry.
EstablishedFirst(p) ==
    /\ links[p] < MAX_LINKS
    /\ links' = [links EXCEPT ![p] = @ + 1]
    /\ connected_peers' = connected_peers \cup {p}
    /\ dialing_peers' = dialing_peers \ {p}
    /\ peer_info' = IF links[p] = 0 THEN InfoInserted(p) ELSE peer_info
    /\ asked' = [asked EXCEPT ![p] = @ + 1]
    /\ lost' = lost \ {p} /\ unread' = unread \ {p}
    /\ UNCHANGED <<records, discovered_peers>>

\* ConnectionEstablished, the same for both directions and for a peer that has
\* a connection: a new entry, and a manifest request.
Established(p) ==
    /\ links[p] < MAX_LINKS
    /\ links' = [links EXCEPT ![p] = @ + 1]
    /\ connected_peers' = connected_peers \cup {p}
    /\ dialing_peers' = dialing_peers \ {p}
    /\ peer_info' = InfoInserted(p)
    /\ asked' = [asked EXCEPT ![p] = @ + 1]
    /\ lost' = lost \ {p} /\ unread' = unread \ {p}
    /\ UNCHANGED <<records, discovered_peers>>

DialSucceeds(p) ==
    /\ p \in dials
    /\ dials' = dials \ {p}
    /\ Established(p)
    /\ UNCHANGED used

InboundSucceeds(p) ==
    /\ Spend("inbound")
    /\ Established(p)
    /\ UNCHANGED dials

\* Variant: the mark of the dial is left behind.
OutgoingConnectionErrorMarked(p) ==
    /\ p \in dials
    /\ Spend("dialErrors")
    /\ dials' = dials \ {p}
    /\ UNCHANGED <<records, links, sets, peer_info, manifests>>

OutgoingConnectionError(p) ==
    /\ p \in dials
    /\ Spend("dialErrors")
    /\ dials' = dials \ {p}
    /\ dialing_peers' = dialing_peers \ {p}
    /\ UNCHANGED <<records, links, discovered_peers, connected_peers, peer_info, manifests>>

\* Variant: connected_peers is not updated.
ConnectionClosedKept(p) ==
    /\ links[p] > 0
    /\ Spend("closes")
    /\ links' = [links EXCEPT ![p] = @ - 1]
    /\ dialing_peers' = dialing_peers \ {p}
    /\ UNCHANGED <<records, dials, discovered_peers, connected_peers, peer_info, manifests>>

\* Variant: a connection is counted as closed twice.
ConnectionClosedTwice(p) ==
    /\ links[p] > 0
    /\ Spend("closes")
    /\ links' = [links EXCEPT ![p] = @ - 2]
    /\ connected_peers' = connected_peers \ {p}
    /\ dialing_peers' = dialing_peers \ {p}
    /\ peer_info' = InfoRemoved(p)
    /\ UNCHANGED <<records, dials, discovered_peers, manifests>>

\* One connection closes; num_established is not looked at.
ConnectionClosed(p) ==
    /\ links[p] > 0
    /\ Spend("closes")
    /\ links' = [links EXCEPT ![p] = @ - 1]
    /\ connected_peers' = connected_peers \ {p}
    /\ dialing_peers' = dialing_peers \ {p}
    /\ peer_info' = InfoRemoved(p)
    /\ UNCHANGED <<records, dials, discovered_peers, manifests>>

\* The peer asks for the manifest of this node: it is taken to be in sync.
ManifestRequested(p) ==
    /\ links[p] > 0
    /\ Spend("requests")
    /\ peer_info' = InfoSynced(p)
    /\ UNCHANGED <<swarm, sets, manifests>>

\* The peer's manifest arrives, and this node reads its own.
ManifestAnswered(p) ==
    /\ asked[p] > 0 /\ links[p] > 0
    /\ asked' = [asked EXCEPT ![p] = @ - 1]
    /\ peer_info' = InfoSynced(p)
    /\ UNCHANGED <<swarm, sets, lost, unread, used>>

\* The peer's manifest arrives, and database.manifest() fails: that is logged, the
\* entry stays out of sync, and the manifest is not asked for again.
ManifestUnread(p) ==
    /\ asked[p] > 0 /\ links[p] > 0
    /\ Spend("dbErrors")
    /\ asked' = [asked EXCEPT ![p] = @ - 1]
    /\ unread' = unread \cup {p}
    /\ UNCHANGED <<swarm, sets, peer_info, lost>>

\* OutboundFailure of a manifest request: retry_current repeats the request of
\* the active transfer, never this one.  Certain when no connection is left.
ManifestFailed(p) ==
    /\ asked[p] > 0
    /\ IF links[p] > 0 THEN Spend("timeouts") ELSE UNCHANGED used
    /\ asked' = [asked EXCEPT ![p] = @ - 1]
    /\ lost' = lost \cup {p}
    /\ UNCHANGED <<swarm, sets, peer_info, unread>>

\* What the API shows: P2pQuery::GetStatus counts, P2pQuery::GetPeers lists.
peers_connected == Cardinality(connected_peers)
peers_listed == {p \in DOMAIN peer_info : p \in connected_peers}

-----------------------------------------------------------------------------
(* The specification *)

Init ==
    /\ records = {} /\ dials = {} /\ links = [p \in Peer |-> 0]
    /\ discovered_peers = {} /\ connected_peers = {} /\ dialing_peers = {}
    /\ peer_info = [p \in {} |-> FALSE] /\ asked = [p \in Peer |-> 0]
    /\ lost = {} /\ unread = {}
    /\ used = [field \in Faults |-> 0]

Next ==
    \/ ReconnectTick
    \/ \E p \in Peer :
          \/ \E a \in Address : Discovered(p, a) \/ Expired(p, a)
          \/ PingError(p)
          \/ RequestDials(p)
          \/ DialSucceeds(p)
          \/ InboundSucceeds(p)
          \/ OutgoingConnectionError(p)
          \/ ConnectionClosed(p)
          \/ ManifestRequested(p)
          \/ ManifestAnswered(p)
          \/ ManifestUnread(p)
          \/ ManifestFailed(p)

Spec == Init /\ [][Next]_vars

\* The interval keeps ticking, and a dial ends: the failures of a peer that
\* mDNS reports are bounded, so it succeeds in the end.
FairSpec ==
    /\ Spec
    /\ WF_vars(ReconnectTick)
    /\ \A p \in Peer : WF_vars(DialSucceeds(p))

-----------------------------------------------------------------------------
(* Properties *)

StatusTypeOK ==
    /\ DOMAIN peer_info \subseteq Peer
    /\ peer_info \in [DOMAIN peer_info -> BOOLEAN]
    /\ asked \in [Peer -> Nat]
    /\ lost \subseteq Peer /\ unread \subseteq Peer

TypeOK ==
    /\ records \subseteq Peer \X Address
    /\ dials \subseteq Peer
    /\ links \in [Peer -> 0..MAX_LINKS]
    /\ discovered_peers \subseteq Peer
    /\ connected_peers \subseteq Peer
    /\ dialing_peers \subseteq Peer
    /\ StatusTypeOK
    /\ used \in Budget

\* A peer is marked as being dialed only while the swarm is dialing it: a mark
\* that outlived its dial would keep the peer from every later tick.
DialMarksAreLive == dialing_peers \subseteq dials

\* An announcement is sent only to peers the node has a connection to; to any
\* other, send_request would dial.
TrackedIsLinked == \A p \in connected_peers : links[p] > 0

\* What the tick retries can be found: mDNS still reports it.
CandidatesAreReported == \A p \in discovered_peers : Reported(p)

\* The number of peers the API shows is the length of the list it shows: the
\* event loop keeps connected_peers and peer_info in step.
CountMatchesList == peers_connected = Cardinality(peers_listed)

\* A peer that is shown as out of sync is being asked for its manifest, or else, since
\* the last connection to it was made, a manifest request to it failed or its manifest
\* arrived and this node could not read its own.  (After these two nothing is asked
\* again: the peer stays out of sync until it asks for the manifest of this node, or
\* connects once more.)
UnsyncedIsAsked ==
    \A p \in peers_listed : peer_info[p] \/ asked[p] > 0 \/ p \in lost \cup unread

\* A discovered peer gets a connection, unless mDNS stops reporting it.
DiscoveredConnects ==
    \A p \in Peer : p \in discovered_peers ~> links[p] > 0 \/ p \notin discovered_peers

\* It also enters connected_peers, and so is told of the changes made here.
DiscoveredIsTracked ==
    \A p \in Peer : p \in discovered_peers ~>
                        p \in connected_peers \/ p \notin discovered_peers
=============================================================================
