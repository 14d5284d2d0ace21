CONSTANTS
    p1 = p1
    p2 = p2
    f = f
    g = g
    Peer = {p1, p2}
    Path = {f, g}
    Block <- MCBlock
    Versions <- MCVersions
    NoFile = NoFile
    Tombstone = Tombstone
    NoTransfer = NoTransfer
    CHUNK_SIZE = 1
    MAX_RETRIES = 1
    InitialFiles <- EveryPeerHasAll
    Limit <- LimitFaults

SPECIFICATION Spec

INVARIANTS
    TypeOK
    NoWaitWhenIdle
    NoDuplicatePull
    Integrity

PROPERTIES
    QueueSpec

\* The environment is bounded, so the system comes to rest.
CHECK_DEADLOCK FALSE
