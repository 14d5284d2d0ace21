CONSTANTS
    Path <- Nested
    Checksum = {c1, c2}
    NoChecksum = NoChecksum
    NoRow = NoRow
    Missing = Missing
    Dir = Dir
    NoPath = NoPath
    MAX_CHANGES = 3
    MAX_CRASHES = 1

SPECIFICATION Spec

INVARIANTS
    TypeOK
    ManifestMatchesDisk
    DeletedHasTombstone
    ScanErrorsAreHarmless
    ManifestOffersWhatExists

\* The changes are bounded, so the system comes to rest.
CHECK_DEADLOCK FALSE
