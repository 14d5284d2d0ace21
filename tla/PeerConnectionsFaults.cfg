CONSTANTS
    Peer = {p1, p2}
    Address = {a1, a2}
    MAX_LINKS = 2
    Limit <- LimitFaults

SPECIFICATION FairSpec

INVARIANTS
    TypeOK
    DialMarksAreLive
    TrackedIsLinked
    CandidatesAreReported
    CountMatchesList
    UnsyncedIsAsked

PROPERTIES
    DiscoveredConnects

\* The environment is bounded, so the system comes to rest.
CHECK_DEADLOCK FALSE
