CONSTANTS
    Node = {n1, n2}
    Path = {f, g, d}
    Folders = {d}
    Written = {f, d}
    Held = {f}
    Initial = c1
    Checksum = {c1, c2}
    NoChecksum = NoChecksum
    NoRow = NoRow
    Missing = Missing
    Dir = Dir
    NoPath = NoPath
    Ties = TRUE
    MAX_CLOCK = 3
    MAX_WRITES = 2

SPECIFICATION Spec

INVARIANTS
    TypeOK
    NoCrossing
    SkippedIsEqual

\* The writes and the clock are bounded, so the system comes to rest.
CHECK_DEADLOCK FALSE
