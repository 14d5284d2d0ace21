CONSTANTS
    DEFAULT_LIMIT = 1
    MAX_LIMIT = 2
    USIZE = 4
    NoParam = NoParam
    Request = {1, 2}
    Created = {1}
    Deleted = {2}
    Loop = Loop
    Pager = Pager
    CAPACITY = 1
    MAX_ERRORS = 1

SPECIFICATION FairSpec

INVARIANTS
    TypeOK
    WaitersAreServed
    ManifestsAreCurrent
    FailuresHaveACause
    PagesAreExact
    PagingIsComplete

PROPERTIES
    QueriesEnd
    ChangesAreSent

\* The requests are bounded, so the system comes to rest once the p2p task ended.
CHECK_DEADLOCK FALSE
