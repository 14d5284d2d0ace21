------------------------ MODULE PeerConnectionsProofs ------------------------
(***************************************************************************)
(* Proofs about PeerConnections, for every set of peers and addresses and  *)
(* any number of faults.  The conjunction of the module's invariants is    *)
(* inductive.                                                              *)
(***************************************************************************)
EXTENDS PeerConnections, TLAPS

Tracking == DialMarksAreLive /\ TrackedIsLinked /\ CandidatesAreReported

\* What the API shows, with the reason why CountMatchesList holds.
Status == /\ DOMAIN peer_info = connected_peers
          /\ UnsyncedIsAsked

IInv == TypeOK /\ Tracking /\ Status

\* The part of the invariant that peer_info and the manifest requests leave alone.
IInv0 == TypeOK /\ Tracking

\* Spending from a bound keeps the counters naturals.
LEMMA SpendPreserves ==
    ASSUME TypeOK, NEW field \in Faults, Spend(field)
    PROVE  used' \in Budget
BY DEF TypeOK, Spend, Budget

\* The tick: what is added to dialing_peers is added to dials.
LEMMA TickStep ==
    ASSUME IInv0, StatusTypeOK', ReconnectTick
    PROVE  IInv0'
BY DEF IInv0, Tracking, TypeOK, DialMarksAreLive, TrackedIsLinked,
       CandidatesAreReported, ReconnectTick, Reported, peers_requiring_dial

\* A new record: the peer that becomes a candidate has that record.
LEMMA DiscoveredStep ==
    ASSUME IInv0, StatusTypeOK', NEW p \in Peer, NEW a \in Address, Discovered(p, a)
    PROVE  IInv0'
<1>1. \A q \in discovered_peers' : \E b \in Address : <<q, b>> \in records'
  <2> SUFFICES ASSUME NEW q \in discovered_peers'
               PROVE  \E b \in Address : <<q, b>> \in records'
      OBVIOUS
  <2>1. CASE q \in discovered_peers
    <3>1. PICK b \in Address : <<q, b>> \in records
        BY <2>1 DEF IInv0, Tracking, CandidatesAreReported, Reported
    <3> QED
        BY <3>1 DEF Discovered
  <2>2. CASE q = p
      BY <2>2 DEF Discovered
  <2> QED
      BY <2>1, <2>2 DEF Discovered
<1>2. dialing_peers' \subseteq dials' /\ dials' \subseteq Peer /\ dialing_peers' \subseteq Peer
    BY DEF IInv0, Tracking, TypeOK, DialMarksAreLive, Discovered
<1>3. records' \subseteq Peer \X Address /\ discovered_peers' \subseteq Peer
    BY DEF IInv0, TypeOK, Discovered
<1>4. UNCHANGED <<links, connected_peers, used>>
    BY DEF Discovered
<1> QED
    BY <1>1, <1>2, <1>3, <1>4 DEF IInv0, Tracking, TypeOK, DialMarksAreLive,
       TrackedIsLinked, CandidatesAreReported, Reported

\* The dial behind a request, and a dial that fails.
LEMMA DialSteps ==
    ASSUME IInv0, StatusTypeOK', NEW p \in Peer, RequestDials(p) \/ OutgoingConnectionError(p)
    PROVE  IInv0'
<1>1. used' \in Budget
    BY SpendPreserves DEF Faults, IInv0, RequestDials, OutgoingConnectionError
<1>2. CASE RequestDials(p)
    BY <1>1, <1>2 DEF IInv0, Tracking, TypeOK, DialMarksAreLive, TrackedIsLinked,
                      CandidatesAreReported, RequestDials, Reported
<1>3. CASE OutgoingConnectionError(p)
    BY <1>1, <1>3 DEF IInv0, Tracking, TypeOK, DialMarksAreLive, TrackedIsLinked,
                      CandidatesAreReported, OutgoingConnectionError, Reported
<1> QED
    BY <1>2, <1>3

\* The steps in which a connection opens or closes, or its heartbeat fails.
LEMMA ConnectionSteps ==
    ASSUME IInv0, StatusTypeOK', NEW p \in Peer,
           DialSucceeds(p) \/ InboundSucceeds(p) \/ ConnectionClosed(p) \/ PingError(p)
    PROVE  IInv0'
<1>1. used' \in Budget
    BY SpendPreserves DEF Faults, IInv0, TypeOK, DialSucceeds, InboundSucceeds,
                          ConnectionClosed, PingError
<1>2. ConstantsAssumption
    BY ConstantsAssumption
<1>3. CASE DialSucceeds(p) \/ InboundSucceeds(p)
  <2>1. links[p] \in 0..MAX_LINKS /\ links[p] < MAX_LINKS
      BY <1>3 DEF IInv0, TypeOK, DialSucceeds, InboundSucceeds, Established
  <2>2. links' \in [Peer -> 0..MAX_LINKS] /\ \A q \in connected_peers' : links'[q] > 0
      BY <1>2, <1>3, <2>1 DEF ConstantsAssumption, IInv0, Tracking, TypeOK, TrackedIsLinked,
         DialSucceeds, InboundSucceeds, Established
  <2> QED
      BY <1>1, <1>3, <2>2 DEF IInv0, Tracking, TypeOK, DialMarksAreLive, TrackedIsLinked,
         CandidatesAreReported, DialSucceeds, InboundSucceeds, Established, Reported
<1>4. CASE ConnectionClosed(p)
  <2>1. links[p] \in 0..MAX_LINKS /\ links[p] > 0
      BY <1>4 DEF IInv0, TypeOK, ConnectionClosed
  <2>2. links' \in [Peer -> 0..MAX_LINKS] /\ \A q \in connected_peers' : links'[q] > 0
      BY <1>2, <1>4, <2>1 DEF ConstantsAssumption, IInv0, Tracking, TypeOK, TrackedIsLinked,
         ConnectionClosed
  <2> QED
      BY <1>1, <1>4, <2>2 DEF IInv0, Tracking, TypeOK, DialMarksAreLive, TrackedIsLinked,
         CandidatesAreReported, ConnectionClosed, Reported
<1>5. CASE PingError(p)
    BY <1>1, <1>5 DEF IInv0, Tracking, TypeOK, DialMarksAreLive, TrackedIsLinked,
                      CandidatesAreReported, PingError, swarm, Reported
<1> QED
    BY <1>3, <1>4, <1>5

\* A record expires.
LEMMA ExpiredStep ==
    ASSUME IInv0, StatusTypeOK', NEW p \in Peer, NEW a \in Address, Expired(p, a)
    PROVE  IInv0'
<1>1. used' \in Budget
    BY SpendPreserves DEF Faults, IInv0, TypeOK, Expired
<1>2. \A q \in discovered_peers' : \E b \in Address : <<q, b>> \in records'
  <2> SUFFICES ASSUME NEW q \in discovered_peers'
               PROVE  \E b \in Address : <<q, b>> \in records'
      OBVIOUS
  <2>1. q # p /\ q \in discovered_peers
      BY DEF Expired
  <2>2. PICK b \in Address : <<q, b>> \in records
      BY <2>1 DEF IInv0, Tracking, CandidatesAreReported, Reported
  <2>3. <<q, b>> # <<p, a>>
      BY <2>1
  <2> QED
      BY <2>2, <2>3 DEF Expired
<1> QED
    BY <1>1, <1>2 DEF IInv0, Tracking, TypeOK, DialMarksAreLive, TrackedIsLinked,
                      CandidatesAreReported, Expired, Reported

\* The three ways in which peer_info changes keep its type.
LEMMA InfoTypes ==
    ASSUME TypeOK, NEW p \in Peer,
           NEW info, info \in {InfoInserted(p), InfoRemoved(p), InfoSynced(p)}
    PROVE  DOMAIN info \subseteq Peer /\ info \in [DOMAIN info -> BOOLEAN]
<1>1. /\ DOMAIN peer_info \subseteq Peer
      /\ \A q \in DOMAIN peer_info : peer_info[q] \in BOOLEAN
    BY DEF TypeOK, StatusTypeOK
<1>2. CASE info = InfoInserted(p)
    BY <1>1, <1>2 DEF InfoInserted
<1>3. CASE info = InfoRemoved(p)
    BY <1>1, <1>3 DEF InfoRemoved
<1>4. CASE info = InfoSynced(p)
    BY <1>1, <1>4 DEF InfoSynced
<1> QED
    BY <1>2, <1>3, <1>4

\* The steps that touch neither peer_info nor the sets it goes with.
LEMMA StatusUnchanged ==
    ASSUME IInv, UNCHANGED <<connected_peers, peer_info, manifests>>
    PROVE  StatusTypeOK' /\ Status'
BY DEF IInv, TypeOK, StatusTypeOK, Status, UnsyncedIsAsked, peers_listed, manifests

\* A connection: the new entry is out of sync, and the manifest is asked for.
LEMMA StatusEstablished ==
    ASSUME IInv, NEW p \in Peer, Established(p)
    PROVE  StatusTypeOK' /\ Status'
<1>1. peer_info' = InfoInserted(p) /\ asked' = [asked EXCEPT ![p] = @ + 1]
      /\ lost' = lost \ {p} /\ unread' = unread \ {p}
      /\ connected_peers' = connected_peers \cup {p}
    BY DEF Established
<1>2. DOMAIN peer_info' \subseteq Peer /\ peer_info' \in [DOMAIN peer_info' -> BOOLEAN]
    BY <1>1, InfoTypes DEF IInv
<1>3. asked \in [Peer -> Nat] /\ lost \subseteq Peer /\ unread \subseteq Peer
      /\ DOMAIN peer_info = connected_peers
    BY DEF IInv, TypeOK, StatusTypeOK, Status
<1>4. asked' \in [Peer -> Nat] /\ asked'[p] > 0 /\ \A q \in Peer : asked'[q] >= asked[q]
    BY <1>1, <1>3
<1>5. DOMAIN peer_info' = connected_peers'
    BY <1>1, <1>3 DEF InfoInserted
<1>6. ASSUME NEW q \in peers_listed'
      PROVE  peer_info'[q] \/ asked'[q] > 0 \/ q \in (lost \cup unread)'
  <2>1. CASE q = p
      BY <1>4, <2>1
  <2>2. CASE q # p
    <3>1. q \in peers_listed /\ q \in Peer /\ peer_info'[q] = peer_info[q]
        BY <1>1, <1>2, <1>3, <1>5, <2>2 DEF peers_listed, InfoInserted
    <3>2. peer_info[q] \/ asked[q] > 0 \/ q \in lost \cup unread
        BY <3>1 DEF IInv, Status, UnsyncedIsAsked
    <3>3. asked[q] \in Nat /\ asked'[q] \in Nat /\ asked'[q] >= asked[q]
        BY <1>3, <1>4, <3>1
    <3> QED
        BY <1>1, <2>2, <3>1, <3>2, <3>3
  <2> QED
      BY <2>1, <2>2
<1> QED
    BY <1>1, <1>2, <1>3, <1>4, <1>5, <1>6 DEF StatusTypeOK, Status, UnsyncedIsAsked

\* A peer that is dropped from connected_peers loses its entry.
LEMMA StatusDropped ==
    ASSUME IInv, NEW p \in Peer, PingError(p) \/ ConnectionClosed(p)
    PROVE  StatusTypeOK' /\ Status'
<1>1. peer_info' = InfoRemoved(p) /\ asked' = asked /\ lost' = lost /\ unread' = unread
      /\ connected_peers' = connected_peers \ {p}
    BY DEF PingError, ConnectionClosed, manifests
<1>2. DOMAIN peer_info' \subseteq Peer /\ peer_info' \in [DOMAIN peer_info' -> BOOLEAN]
    BY <1>1, InfoTypes DEF IInv
<1>3. asked \in [Peer -> Nat] /\ lost \subseteq Peer /\ unread \subseteq Peer
      /\ DOMAIN peer_info = connected_peers
    BY DEF IInv, TypeOK, StatusTypeOK, Status
<1>4. DOMAIN peer_info' = connected_peers'
    BY <1>1, <1>3 DEF InfoRemoved
<1>5. \A q \in peers_listed' : q \in peers_listed /\ peer_info'[q] = peer_info[q]
    BY <1>1, <1>3 DEF peers_listed, InfoRemoved
<1> QED
    BY <1>1, <1>2, <1>3, <1>4, <1>5 DEF IInv, StatusTypeOK, Status, UnsyncedIsAsked

\* A manifest arrives or is asked for: the entry is marked.
LEMMA StatusSynced ==
    ASSUME IInv, NEW p \in Peer, ManifestRequested(p) \/ ManifestAnswered(p)
    PROVE  StatusTypeOK' /\ Status'
<1>1. peer_info' = InfoSynced(p) /\ lost' = lost /\ unread' = unread
      /\ connected_peers' = connected_peers
    BY DEF ManifestRequested, ManifestAnswered, manifests, sets
<1>2. asked \in [Peer -> Nat] /\ lost \subseteq Peer /\ unread \subseteq Peer
      /\ DOMAIN peer_info = connected_peers
      /\ DOMAIN peer_info \subseteq Peer
    BY DEF IInv, TypeOK, StatusTypeOK, Status
<1>3. asked' \in [Peer -> Nat] /\ \A q \in Peer \ {p} : asked'[q] = asked[q]
  <2>1. CASE ManifestRequested(p)
      BY <1>2, <2>1 DEF ManifestRequested, manifests
  <2>2. CASE ManifestAnswered(p)
      BY <1>2, <2>2 DEF ManifestAnswered
  <2> QED
      BY <2>1, <2>2
<1>4. DOMAIN peer_info' \subseteq Peer /\ peer_info' \in [DOMAIN peer_info' -> BOOLEAN]
    BY <1>1, InfoTypes DEF IInv
<1>5. DOMAIN peer_info' = connected_peers' /\ peers_listed' = peers_listed
    BY <1>1, <1>2 DEF InfoSynced, peers_listed
<1>6. ASSUME NEW q \in peers_listed'
      PROVE  peer_info'[q] \/ asked'[q] > 0 \/ q \in (lost \cup unread)'
  <2>1. q \in DOMAIN peer_info /\ q \in Peer /\ q \in peers_listed
      BY <1>2, <1>5 DEF peers_listed
  <2>2. peer_info'[q] = (q = p \/ peer_info[q])
      BY <1>1, <2>1 DEF InfoSynced
  <2>3. peer_info[q] \/ asked[q] > 0 \/ q \in lost \cup unread
      BY <2>1 DEF IInv, Status, UnsyncedIsAsked
  <2>4. CASE q = p
      BY <2>2, <2>4
  <2>5. CASE q # p
      BY <1>1, <1>3, <2>1, <2>2, <2>3, <2>5
  <2> QED
      BY <2>4, <2>5
<1> QED
    BY <1>1, <1>2, <1>3, <1>4, <1>5, <1>6 DEF StatusTypeOK, Status, UnsyncedIsAsked

\* A manifest request fails, or its answer cannot be compared: that is remembered.
LEMMA StatusFailed ==
    ASSUME IInv, NEW p \in Peer, ManifestFailed(p) \/ ManifestUnread(p)
    PROVE  StatusTypeOK' /\ Status'
<1>1. asked' = [asked EXCEPT ![p] = @ - 1] /\ asked[p] > 0
      /\ peer_info' = peer_info /\ connected_peers' = connected_peers
    BY DEF ManifestFailed, ManifestUnread, sets
<1>11. (lost \cup unread)' = lost \cup unread \cup {p}
    BY DEF ManifestFailed, ManifestUnread
<1>2. StatusTypeOK /\ Status
    BY DEF IInv, TypeOK
<1>3. asked' \in [Peer -> Nat] /\ \A q \in Peer \ {p} : asked'[q] = asked[q]
    BY <1>1, <1>2 DEF StatusTypeOK
<1>4. peers_listed' = peers_listed /\ peers_listed \subseteq Peer
    BY <1>1, <1>2 DEF peers_listed, StatusTypeOK
<1>5. \A q \in peers_listed : peer_info[q] \/ asked'[q] > 0 \/ q \in (lost \cup unread)'
    BY <1>1, <1>11, <1>2, <1>3, <1>4 DEF Status, UnsyncedIsAsked
<1>6. lost' \cup unread' \subseteq Peer
    BY <1>11, <1>2 DEF StatusTypeOK
<1> QED
    BY <1>1, <1>2, <1>3, <1>4, <1>5, <1>6 DEF StatusTypeOK, Status, UnsyncedIsAsked

\* Every step keeps the status and its types.
LEMMA StatusStep ==
    ASSUME IInv, Next
    PROVE  StatusTypeOK' /\ Status'
<1>1. CASE ReconnectTick
    BY <1>1, StatusUnchanged DEF ReconnectTick
<1>2. ASSUME NEW p \in Peer, NEW a \in Address, Discovered(p, a) \/ Expired(p, a)
      PROVE  StatusTypeOK' /\ Status'
    BY <1>2, StatusUnchanged DEF Discovered, Expired
<1>3. ASSUME NEW p \in Peer, RequestDials(p) \/ OutgoingConnectionError(p)
      PROVE  StatusTypeOK' /\ Status'
    BY <1>3, StatusUnchanged DEF RequestDials, OutgoingConnectionError
<1>4. ASSUME NEW p \in Peer, DialSucceeds(p) \/ InboundSucceeds(p)
      PROVE  StatusTypeOK' /\ Status'
    BY <1>4, StatusEstablished DEF DialSucceeds, InboundSucceeds
<1> QED
    BY <1>1, <1>2, <1>3, <1>4, StatusDropped, StatusSynced, StatusFailed DEF Next

\* The steps about manifests change no set and no connection.
LEMMA ManifestSteps ==
    ASSUME IInv0, StatusTypeOK', NEW p \in Peer,
           \/ ManifestRequested(p) \/ ManifestAnswered(p)
           \/ ManifestUnread(p) \/ ManifestFailed(p)
    PROVE  IInv0'
<1>1. used' \in Budget
    BY SpendPreserves DEF Faults, IInv0, TypeOK, ManifestRequested, ManifestAnswered,
                          ManifestUnread, ManifestFailed
<1>2. UNCHANGED <<swarm, sets>>
    BY DEF ManifestRequested, ManifestAnswered, ManifestUnread, ManifestFailed
<1> QED
    BY <1>1, <1>2 DEF IInv0, Tracking, TypeOK, DialMarksAreLive, TrackedIsLinked,
                      CandidatesAreReported, swarm, sets, Reported

\* The invariant holds at the start and no step violates it.
LEMMA Inductive == (Init => IInv) /\ (IInv /\ [Next]_vars => IInv')
<1>1. Init => IInv
    BY ConstantsAssumption DEF ConstantsAssumption, Init, IInv, Tracking, TypeOK, Budget,
       DialMarksAreLive, TrackedIsLinked, CandidatesAreReported, StatusTypeOK, Status,
       UnsyncedIsAsked, peers_listed
<1>2. ASSUME IInv, [Next]_vars PROVE IInv'
  <2>1. CASE UNCHANGED vars
      BY <1>2, <2>1, StatusUnchanged DEF vars, swarm, sets, manifests, IInv, Tracking, TypeOK,
         DialMarksAreLive, TrackedIsLinked, CandidatesAreReported, Reported
  <2>2. CASE Next
    <3>1. IInv0 /\ StatusTypeOK' /\ Status'
        BY <1>2, <2>2, StatusStep DEF IInv, IInv0
    <3> SUFFICES IInv0'
        BY <3>1 DEF IInv, IInv0
    <3>2. CASE ReconnectTick
        BY <3>1, <3>2, TickStep
    <3>3. CASE \E p \in Peer : \E a \in Address : Discovered(p, a) \/ Expired(p, a)
        BY <3>1, <3>3, DiscoveredStep, ExpiredStep
    <3>4. CASE \E p \in Peer : RequestDials(p) \/ OutgoingConnectionError(p)
        BY <3>1, <3>4, DialSteps
    <3>5. CASE \E p \in Peer : \/ DialSucceeds(p) \/ InboundSucceeds(p)
                               \/ ConnectionClosed(p) \/ PingError(p)
        BY <3>1, <3>5, ConnectionSteps
    <3>6. CASE \E p \in Peer : \/ ManifestRequested(p) \/ ManifestAnswered(p)
                               \/ ManifestUnread(p) \/ ManifestFailed(p)
        BY <3>1, <3>6, ManifestSteps
    <3> QED
        BY <2>2, <3>2, <3>3, <3>4, <3>5, <3>6 DEF Next
  <2> QED
      BY <1>2, <2>1, <2>2
<1> QED
    BY <1>1, <1>2

\* In every reachable state what run_discovery believes about its peers is backed
\* by the swarm: a peer it marks as being dialed is being dialed, a peer it
\* announces to has a connection, and a candidate for a dial is reported by mDNS.
THEOREM BeliefsAreBacked == Spec => []Tracking
<1>1. IInv => Tracking
    BY DEF IInv
<1> QED
    BY <1>1, Inductive, PTL DEF Spec

\* The types, which bound the connections of a peer.
THEOREM TypeCorrect == Spec => []TypeOK
<1>1. IInv => TypeOK
    BY DEF IInv
<1> QED
    BY <1>1, Inductive, PTL DEF Spec

\* No mark outlives its dial, so no peer is kept from the reconnect ticks by one.
THEOREM NoMarkLeaks == Spec => []DialMarksAreLive
<1>1. Tracking => DialMarksAreLive
    BY DEF Tracking
<1> QED
    BY <1>1, BeliefsAreBacked, PTL

\* A change is announced over existing connections only.
THEOREM AnnouncementsHaveALink == Spec => []TrackedIsLinked
<1>1. Tracking => TrackedIsLinked
    BY DEF Tracking
<1> QED
    BY <1>1, BeliefsAreBacked, PTL

\* The tick never dials a peer that mDNS stopped reporting.
THEOREM CandidatesCanBeFound == Spec => []CandidatesAreReported
<1>1. Tracking => CandidatesAreReported
    BY DEF Tracking
<1> QED
    BY <1>1, BeliefsAreBacked, PTL

\* The API counts as many peers as it lists, for any number of connections to a
\* peer and whatever fails.
THEOREM ShownPeersAgree == Spec => []CountMatchesList
<1>1. IInv => CountMatchesList
  <2> SUFFICES ASSUME IInv
               PROVE  CountMatchesList
      OBVIOUS
  <2>1. peers_listed = connected_peers
      BY DEF IInv, Status, peers_listed
  <2> QED
      BY <2>1 DEF CountMatchesList, peers_connected
<1> QED
    BY <1>1, Inductive, PTL DEF Spec

\* The API shows a peer as out of sync for three reasons only: its manifest is being
\* asked for, a request for it failed, or it arrived and run_discovery could not read
\* this node's own to compare it with.  No other connection is left without its
\* exchange of manifests, however many there are and whatever closes.
THEOREM OutOfSyncHasAReason == Spec => []UnsyncedIsAsked
<1>1. IInv => UnsyncedIsAsked
    BY DEF IInv, Status
<1> QED
    BY <1>1, Inductive, PTL DEF Spec
=============================================================================
