CONSTANTS
    Char = {35, 37, 47, 50, 51, 53}
    MAX_NAME = 5
    NoPath = NoPath

SPECIFICATION Spec

INVARIANTS
    TypeOK
    RequestMeansTheName
    RenamesAreInPlace
    FileIsRead
    PeerChangesTheSameFile

\* The request is over when the peer has its event.
CHECK_DEADLOCK FALSE
