CONSTANTS
    Peer = {p1}
    Address = {a1}
    MAX_LINKS = 2
    Limit <- LimitOnePing

SPECIFICATION FairSpec

PROPERTIES
    DiscoveredIsTracked

\* The environment is bounded, so the system comes to rest.
CHECK_DEADLOCK FALSE
